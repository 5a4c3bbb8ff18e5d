# Verification of handlingtheloop

handlingtheloop is a DJ application that runs in the browser. Several devices can
share one session: a room on the server (a Cloudflare Durable Object) relays
every move between them, keeps what a late joiner needs, and can open the room
to an anonymous crowd. This directory holds TLA+ models of that shared session,
the TLC configurations that check them, and proofs that TLAPS checks. The parts
modelled: the room's authority over seats, decks and clock; the board plane,
which carries everyone's moves; a follower keeping one deck on the host's track;
the presence of accounts across rooms; and, outside the session, the stem
separation of a browser, its auto-DJ, and the sync of settings and library across an
account's devices.

From this directory, `tlc -config X.cfg M` checks module `M` under `X.cfg` and
`tlapm M.tla` checks the proofs of `M`. `PROJECT.json` names, for each
definition, the lines of the source it stands for; paths below are under `src/`.

## 1. The system

| part | state it keeps | operations | talks to |
|---|---|---|---|
| session room (`server/room.ts`, `roomState.ts`) | sockets with an attachment each; anchor (the device whose clock counts), public flag, stage gate, approvals, grants, bans in storage; a grace timer in memory | upgrades, one handler per client message, close, timer | every client; the Worker that stamps identities |
| board plane (`room.ts`, `htl/room/digestKey.ts`, `useSessionSync.ts`, `App.tsx`) | last snapshot, stem views, lyrics, auto-DJ status; digest and lyric buffers; write throttles; on a client the board, the coalescers, the baselines, the catch-up | state, intent, tick, stemview, lyrics, automix, request-state; publish, apply, restore, reconcile | anchor to everyone, drivers to everyone |
| crowd side-channels (`roomCrowd.ts`) | reaction windows, request list, chat buffer, rate maps | react, request, vote, chat | crowd to host |
| presence (`db/presence.ts`, room alarm) | one row per account; a queue of leavings and an alarm per room | attach, close, alarm, post | rooms to the Worker to D1 |
| relay tier (`relayRoom.ts`) | crowd shards and their counts | join, leave, push | room to shards |
| session follower (`useSessionSync.ts`, `sessionFollow.ts`, `loadClaim.ts`, `App.tsx`) | per deck: loaded track, load in flight, dedupe guards, re-sync clocks | load, snapshot, tick, load completion, render | room to the decks |
| room client (`htl/room/client.ts`, `useRoom.ts`) | socket, back-off, clock offset, seat | connect, retry, send | room |
| auto-DJ (`htl/automix/`) | phase, live and cued deck, plan, loads awaited, what is borrowed; the queue | tick, loads that end, play, pause, pick, skip, hold, mix now, toggle | decks, queue, GPU queue |
| stem separation (`htl/stems/`, `App.tsx`) | GPU queue, session, in-flight jobs, saved sets, arm flag; per deck the stems and what they were made for | load, setting, re-analyse, request, warm, anchor, share | worker, decks, server |
| library and account sync (`settingsSync.ts`, `useLibrarySync.ts`, `server/accounts.ts`, `db/userdata.ts`) | a blob and a stamp per device and on the server; debounce, requests | edit, debounce, push, pull, nudge, hydrate | client to D1, client to client |
| local persistence (`htl/persistence/`) | IndexedDB and localStorage caches | read, write, evict | shell |
| audio engine, analysis, lyrics, controllers, replay, accounts, catalogue, database layer, edge worker, egress relay, interface, tooling | listed in `PROJECT.json` | | |

The behaviours that are hard: a device has several sockets while it reloads, and
handlers act on devices where attachments belong to sockets; the room restarts
and keeps only what it stored; timers race the return of whom they wait for; a
follower's load takes seconds while the host changes its mind and four guards
suppress one another's loads; React shows the code a state one render old;
presence is written by several rooms without a lock. Each is a hazard in
`PROJECT.json`, at its line, with the properties that speak of it.

What makes each part correct:
- **room**: whoever sits in the session was let in; a ban holds; a guest drives
  only under a grant in force; a reconnect replaces; the clock goes to a
  member; a crowd is not left with a frozen mix.
- **follower**: it ends on the host's track with the host's board; a load that
  runs is never cancelled by the machinery that wants it; retries are bounded.
- **presence**: whoever is connected is shown online; whoever left is announced,
  and shown offline in the end.
- **board plane**: what everyone holds in the end is what the last mover made of
  it; a late joiner gets the newest board; the crowd hears the last value.
- **stems**: stems land on the track they were made of; one heavy job at a time;
  whoever waits is answered.
- **sync**: a device drops its copy only for a newer one; a stamp names one value;
  no edit is left on one device.
- **relay, crowd, client**: counts agree with sockets; nothing is delivered
  twice; a client's seat agrees with the room's.
- **auto-DJ**: a mix ends, and gives back what it borrowed; music goes on while the queue
  has any; it follows what the user plays.
- **caches**: eviction never takes what is in use.

## 2. Modules

| module | models |
|---|---|
| `DjRoom` | the room's door, seats, decks, stage, clock, broadcast; reconnects, late frames, restarts, the grace timer |
| `RoomHouse` | what the room promises about its door, without sockets; `DjRoom` implements it |
| `DeckFollow` | one deck of a follower, with the host's deck, the room's last board and the link |
| `Presence` | several rooms, their alarms and posts, one row per account |
| `RoomBoard` | the controls of a deck across a session: publishers, the room's relay and digest, the catch-up |
| `StemPipeline` | the separation of a browser's tracks: cache, single-flight jobs, the GPU's queue, the worker, the decks |
| `AccountSync` | the settings blob of an account on its devices, on the server and on the wire |
| `AutoMix` | the auto-DJ's phases over two decks, its loads and queue, and the user |
| `MCDjRoom`, `MCDeckFollow`, `MCPresence`, `MCRoomBoard`, `MCStemPipeline`, `MCAccountSync`, `MCAutoMix` | the instances for TLC |
| `DjRoomProofs`, `DeckFollowProofs`, `PresenceProofs`, `RoomBoardProofs`, `StemPipelineProofs`, `AccountSyncProofs`, `AutoMixProofs` | theorems and proofs |

### DjRoom

One room. A handler runs to completion between two events (the runtime delivers
none while storage is awaited), so every handler is one action, with every call
it makes: `settle`, `nextAnchor`, `evict`, the saves.

- `conn` is the runtime's list of sockets with their attachments, reduced to the
  flags handlers branch on. `open` says whether the room still serves the
  socket: a socket the room closed stays listed, and its device counts as live,
  until the client's half of the close arrives (`SocketGone`). Several sockets
  of a device are the normal case while a tab reloads.
- `anchor`, `isPublic`, `stageGate`, `approved`, `grants`, `banned` are the
  durable fields. `grace` is the device captured by the pending grace timer,
  `refused` the devices whose "room full" socket is still closing.
- `Connect` is the upgrade. `Doors[d]` is what the Worker may stamp on it: the
  owner's, a guest, a push-invited guest, a crowd listener; the owner may also
  sign out and listen like anyone else (`SignedOutDoors`).
- `Frame` holds the client messages, one action per `case`. A crowd socket only
  reaches `stage` and `leave` of those modelled (`Writes`, `Speaks`).
- `Settled` is `settle`, `NextAnchor` is `nextAnchor`. The latter takes the
  first of the best rank in an order the runtime does not promise; the model
  takes any of that rank.
- `Restart` loses sockets, timer and refusals and keeps storage.
- `LateFrames` says whether the runtime may still deliver a frame that reached
  it before the room closed its socket. The door and the ban are checked and
  proved with such frames, the right to drive without.

`RoomHouse` has four variables (seated, trusted, vouched, barred) and says that a
seat is only ever taken by someone let in and not barred, that losing trust by
removal loses the seat with it, and that nobody keeps a seat whose only ground
was a voucher that went. `HouseSpec` is the refinement.

### DeckFollow

One deck, seen from a follower. The host's side (`held`, `coming`, `board`) is
what `loadAndShare`, `publishedDeckId` and the publish effect make of its deck;
the room relays in order and answers a request for state with the last board.
On the follower's side each guard is a variable of its own: `target`
(`roomLoadTarget`), `claim` (`loadingVid`, owned by a load, not by a track),
`reconciled`, `pending` (`pendingRoomLoad`), and `seen`, the value React's last
render gave to `latest.current.loaded`, which lags `loaded` until `Render`.
A superseded load ends later than its successor begins (`stale`,
`SupersededEnds`), and its `finally` runs `ForgetTarget`.
`OnLoad`, `OnState` and `OnTick` are the three frames that may start a load;
`OnTick` is the self-heal (`decideTickResync`): wait, retry after a back-off, or
force when the load in flight is stuck.

A reconnect (`Reconnect`) starts the wire anew with a welcome that lists the device as
out. `Welcomed` is what its render does: the effect meant for leaving (`App.tsx:3316`)
clears the guards while the loads go on, what comes until the device believes it is in
again is ignored, and the board is asked for; or the roster with the join is rendered
at once and nothing is cleared. `repeated` and `silent` are history: the landed track was
on the deck, or shown, when its load began; the follower was a muted passenger since its
last load began. Two properties name them as their exceptions.

Choices: the follower picks no tracks of its own; the one restore of its last
session that may be running when it joins is in `Init`; the room's answer to
`request-state` is put on the wire at once; the user's own leaving of the session
is not modelled; times are counted in units of `RESYNC_RETRY_MS` and stop at the
bound the code compares them with (`Older`).

### Presence

Sockets of an account in a room are a count. The online write and the door are apart, as
in the Worker: `Upgrade` starts the write, which nothing awaits, and passes the upgrade
on; the room accepts it (`Accept`) or turns it away (`Refuse`: banned, not public,
full), and leaves an account online that no room counts. The write lands at any later
time, before or after the room's decision or the account's leaving (`Land`), with a stamp
read at any time since the upgrade, or is lost (`LoseWrite`). `Close` is the last-socket
check and the queueing with an alarm shared by the room's accounts; `CloseUnheard` the
close that the room takes for that of a replaced socket, since the device has come back
under another account or none (`room.ts:1040`); `Alarm` drops the queue and posts for
those still gone; `Bridge` is the guarded write. Posts arrive in any order or are lost
(`Lose`), and a room may die without a close (`Crash`), which keeps its queue and alarm.
An account may be in several rooms at once. `tried`, `landed`, `left` and `hidden` are
history: which upgrade was asked for last and which one's write landed last, when a room
last saw the account leave, and whether a leaving may have gone unannounced.

Choices: the clocks of Worker and room agree; a listener that the relay tier takes is
outside (its shards are off by default). Not modelled: the day's TTL that readers apply,
friends lists, invites, `hide_presence`.

### RoomBoard

One deck with two kinds of control: a `Sweep` (a fader, coalesced for the crowd) and
a `Click` (relayed as it comes). A value is the number of the move that set it, so a
board that mixes two senders shows.

- Room: `board` is `lastSnapshot`, `disk` its persisted copy, `digest` the coalescing
  buffer of the crowd, `rosterDue` the throttled presence flush. `OnJoin`, `OnRequest`,
  `OnState` and `OnIntent` are the client messages of the plane, `Connect`, `Drop`,
  `Restart` and `Hand` the events that move sockets and the clock.
- Client: `told` and `peers` are what the last frames said, `shown` what the last
  render depended on, so that an effect runs exactly when React would run it
  (`Publishes`, `AsksForBoard`, `Leaves`, `Reconciles`); a clock that goes and comes
  back between two renders is never seen. `load`, `last` and `adopted` are the
  follower's catch-up, coarser than in `DeckFollow`.
- `up` and `down` keep order per socket and die with it. `Scenes` says who takes part,
  who comes late, and how often what may happen.

Choices: a throttled write of the snapshot either happens or not; a digest is one
frame; a client comes back after its back-off, hence after a render. Not modelled: the
crossfader, go-live and mix-phase publishes, the stem view, lyrics and auto-DJ caches,
ticks, the grace timer (in `DjRoom`), a page reload, leaving the session.

### StemPipeline

The desktop's path from a request for stems to a deck that plays them. Every `await`
is a boundary between two actions; a call of `deriveStems`, `forceSeparate` or
`warmStems` is a record in `calls` whose `pc` names the await it stands at; a promise of
`loadStems` is a slot of `jobs`. `inflight` and `stemJobs` are the two single-flight
maps, `gpu` the promise chain of `gpuRun`, `holds` the quiet window a transition asks
for, `worker` and `session` the worker and the model session it caches, `disk` and `r2`
the local and the shared cache, `armed` and `blocked` the crash guard. `shown` is
`latest.current.loaded`, the deck's track as of the last render (`Render`): a forced
separation, a re-analysis, a request and a setting change ask it, and not the deck, what
the deck holds.
A setting change runs with a `stale()` that knows nothing of later loads, as in the
code. Not modelled: phones and their low-memory path, other models than one, the
bytes, progress, eviction of sets; that a re-analysis or a request between `setBuffer`
and its render separates the new buffer under the old track's name.

### AccountSync

The settings blob and the library blob of an account, one of them per behaviour:
`mem` and `stamp` on each device (persisted), `row` on the server, `timer` the debounced
push, `pushes` the PUTs on their way in any order, `pull` the GET, `nudges` the colour
broadcasts through the account's room. A value is the time of the edit that made it,
split into colour and the rest, since only colours are broadcast and merged. `Render` is
the push effect of a change of the settings, and says whether the colour effect that
follows it has something to send (`due`); `Broadcast` is that effect, with the second
stamp: the push carries the first, the device and the broadcast the second. Nothing else
runs on the device between the two, but another device may stamp. `torn` remembers which
events happened that part a value from its stamp: an edit before hydration, an adopted
colour stamped anew, a lost request, another device's stamp between those two. Three
properties name them as their only exceptions. Clocks of devices agree, and no two devices
stamp at one time. Not modelled: the merge of libraries on the first
sign-in, sign-out, schema migrations.

### AutoMix

The two decks, the mixer's fields in one record `auto` (`Mixer`), and the fader. A tick
is `reconcile`, then the branch of the phase, then what `reconcile` had begun
(`advanceToNext`, whose first await answers at once for a playlist): operators on the
record, composed in `TickAt`. A load in flight is a record in `auto.loads` that remembers
which continuation awaits it; whether it is the newest of its deck decides if it may land,
and `fresh` is the captured generation. `lent` and `dull` stand for what is borrowed:
devices of the rack, the tempo glide, the quiet window of the GPU queue; EQ, filter and
locks of a deck.

Choices: the playhead has the four positions the code compares, and moves by at most one
between ticks; React has rendered before the next tick, but not before what follows a
landing in the same burst, so `landed` sees the deck's previous track (`Sits`); whether
stems hold the blend is free until the end of the track; a gesture always borrows; the
queue is that of a playlist. The bounce loop of the loop-roll gesture
(`autoMixer.ts:987-997`) is not part of `looping`, which is the loop of the hold;
`releaseHoldLoop` clears it together with that one.

## 3. What is checked

All runs use small sets of model values; deadlock is not checked, since every
one of these systems may stop (nobody has to come, `Horizon`, `Total` or `left` ends a
run).

| run | what it shows | bounds |
|---|---|---|
| `room_door` | `TypeOK`, `OneOpenSocket`, `DoorHeld`, `BannedStayOut`, that the room implements `RoomHouse` (`HouseSpec`), and `ClockGoesToAMember`: the clock only moves to a device in the session, not through a stage socket, and to a listener of the crowd only where `approve`, `grant` or the device's own `leave` settles it; every door, stage gate, host action, late frame and restart | owner's laptop and one phone, two sockets, crowd of one |
| `room_grace` | `DriveIsGranted`: both decks only under a grant in force; `GraceDecides`: a crowd whose clock dropped with the timer armed is not left on a frozen mix | the same without a stage gate or late frames; the owner may sign out and listen; restarts |
| `follow` | `TypeOK`, `ClaimIsHonest`, `BoardReachesDeck`, `NoLiveLoadCancelled`, `AttemptsAreSpaced`; `Converges`: once host and link settle the follower ends on the host's track for good; reconnects and their cleanup, frames before the render, failed, stuck and superseded loads, mute | two tracks, two moves of host and link, one frame on the wire beside what a reconnect or an attempt adds, one superseded load per track, back-off of 1 and 2 |
| `presence_rooms` | `TypeOK`; `AttachedIsOnline`; `NobodyIsForgotten`: a leaving is queued or posted, and young enough, until the row says offline; `GoneIsOffline`; with rooms at once, refused upgrades, late or lost writes and posts, late alarms, crashes | one account, two rooms, two sockets in each, one write under way, grace 1, arrivals until time 2 |
| `board` | `TypeOK`; `CrowdHearsTheLast`: a listener ends on the last value it was sent; `AnchorIsHeard`: a new anchor's board is taken; `BoardReachesAll`: whoever is in the session gets its track | six scenes of two or three devices, two moves |
| `stems` | `TypeOK`, `SharedJobsRun`, `OneJobPerTrack`, `OneHeavyJob`, `SetsLandOnTheirTrack`: a set lands on the deck that holds its track or, forced, still shows it; `CallsEnd`: whatever asked for stems is answered | two decks, two tracks, any three of ten kinds of event |
| `sync` | `TypeOK`, `OneValuePerStamp`, `EditsAreOnTheirWay`, `AdoptsOnlyNewer`; `LastEditWins`: on both devices and in the row | two devices, any two of the events, either blob |
| `automix` | `TypeOK`, `HoldsAreRemembered`, `WaitsForALoad`, `OffGivesBack`; `MixEnds`: a blend is over in the end; `DeadAirEnds`: a track that ran out is followed by the next; `FollowsThePlayingDeck` | two decks, two tracks, a queue of one and what the user adds, three starts, one user event of any kind (and switching AUTO on again), a blend of two ticks |
| `v_*` | one disagreement each, see section 5 | |

Why the bounds are enough. The room's handlers relate at most two devices (the
speaker and the one spoken of) and the sockets of one device; a socket and its
replacement is the overlap that matters, and for the right to drive the theorem
`DriveNeedsAGrant` covers any number of sockets. Deck sets are full, single or empty,
which two decks distinguish. The follower's guards compare a track with another, so two tracks
give equal and different; two moves give a host that changes its mind during a load, or
one move and a reconnect, a publish or a mute across it; what a reconnect and an attempt
put on the wire comes beside the one frame of the bound; counters of time stop where the
code stops comparing. Its four safety properties are theorems for every bound (section
4), the run adds `Converges`. Presence needs one room left and one entered, with a second
socket in each; two accounts, which share an alarm, are out of TLC's reach with every
write and post on its own, and within that of the two theorems.
A board needs a sender, a competing sender and a listener, and two values of one
control to tell the last from the one before; each scene allows the one or two events
whose race it is about, because the product of all of them is out of reach. Stems: a job
shared, a job superseded and a job behind another need two decks, two tracks and three
events. Sync: an edit and what interferes with it are two events; the theorems of
section 4 cover any number. The auto-DJ is a long machine by itself: with every load that
lands, fails or is superseded, one event of the user at each of its points is what the
liveness properties can be checked with; its safety properties are proved for any number.

What the properties except is in their statements, since the code does not keep them
otherwise. `ClaimIsHonest` excepts the claim of a stuck load of a muted passenger,
`AttemptsAreSpaced` a follower that was a muted passenger since its last load began;
`BoardReachesDeck` not of a track loaded again while it was on the deck or shown;
`ClockGoesToAMember` of listeners only outside three handlers (`v_room` shows one of
them); `AttachedIsOnline` of an account no room has seen leave since it asked;
`NobodyIsForgotten` and `GoneIsOffline` of leavings that were not hidden;
`SetsLandOnTheirTrack` not of setting changes (`v_stems`); `CallsEnd` not of a dead
worker; `OneValuePerStamp`, `EditsAreOnTheirWay` and `LastEditWins` not of the behaviours
in which an edit came before hydration, an adopted colour was stamped anew, a request was
lost, or a device stamped between the two stamps of another's colour edit. Section 5
tells what happens in each.

Every property of a passing run has a mutant of the code (`PROJECT.json`,
definitions marked *Mutant* in the modules) under which TLC finds it violated.

**Fairness.** `DjRoom!FairSpec`: the timer the room set fires, and the runtime
completes the closes the room began. No client is obliged to do anything.
`DeckFollow!FairSpec`: frames arrive, the anchor ticks (an interval), React
renders (the welcome of a reconnect too), time passes, aborted loads reach their `finally`; a host's load ends one
way or the other; a muted listener turns the sound on some day; and a load that
is started again and again lands some day (strong fairness of `Land`, since a
network that refuses every fetch for ever leaves nothing to show).
`Presence!FairSpec`: due alarms fire (the runtime retries them), posts that are not
lost arrive, time passes. Nothing says that a client closes, that an upgrade is decided or
that an online write lands.
`RoomBoard!FairSpec`: frames arrive while their socket lives, the two flush timers
fire, React renders, a load lands; nobody has to connect or to stay.
`StemPipeline!FairSpec`: React renders, promises resume, the network answers, the worker works on what
it was posted, a transition ends; users, the room and faults owe nothing.
`AccountSync!FairSpec`: debounces fire, a colour effect that is due runs, requests are answered, a device keeps polling.
`AutoMix!FairSpec`: the tick comes (an interval of 150 ms), and the loads that AUTO
waits for (cue, continuation, kickoff) land or fail, since `loadTrackToDeck` always
resolves. Nothing is asked of the eager load, of the user, or of the length of a hold.

## 4. What is proved

TLAPS proves, for every value of the constants:

| theorem | of | assumes beside the module's ASSUME |
|---|---|---|
| `TypeCorrect`, `OneSocketServed`, `TheDoorHolds`, `TheBanHolds` | `TypeOK`, `OneOpenSocket`, `DoorHeld`, `BannedStayOut` of `DjRoom` | |
| `DriveNeedsAGrant` | `DriveIsGranted` | `~LateFrames` |
| `TheClockGoesToAMember` | `ClockGoesToAMember`, an action property | |
| `TheRoomKeepsHouse` | `HouseSpec`: `DjRoom` implements `RoomHouse` | |
| `FollowTypeCorrect` | `TypeOK` of `DeckFollow` | |
| `TheClaimIsHonest`, `LiveLoadsAreKept`, `AttemptsKeepTheirDistance`, `TheBoardReachesTheDeck` | `ClaimIsHonest`, `NoLiveLoadCancelled`, `AttemptsAreSpaced`, `BoardReachesDeck` | |
| `PresenceTypeCorrect` | `TypeOK` of `Presence` | |
| `OnlineWhileAttached`, `LeavingsAreHandedOn` | `AttachedIsOnline`, `NobodyIsForgotten` | |
| `BoardTypeCorrect`, `ListenersEndOnTheLast` | `TypeOK`, `CrowdHearsTheLast` of `RoomBoard` | |
| `StemTypeCorrect`, `SharedJobsAreAlive`, `OneJobServesATrack`, `TheGpuRunsOneJob` | `TypeOK`, `SharedJobsRun`, `OneJobPerTrack`, `OneHeavyJob` of `StemPipeline` | |
| `SetsFindTheirDeck` | `SetsLandOnTheirTrack`, an action property | |
| `SyncTypeCorrect`, `EditsAreNotReplaced` | `TypeOK`, `AdoptsOnlyNewer` of `AccountSync` | |
| `StampsNameValues`, `NoEditLeftBehind` | `OneValuePerStamp`, `EditsAreOnTheirWay` | |
| `MixTypeCorrect` | `TypeOK` of `AutoMix` | |
| `HoldsRemembered`, `NeverWaitsInVain`, `OffHasGivenBack` | `HoldsAreRemembered`, `WaitsForALoad`, `OffGivesBack` of `AutoMix` | |

The arguments:
- **Room.** The door and the ban hold together with `OneOpenSocket` (`RoomInv`).
  A kick or a ban closes every socket of a device and a close is what unseats; no
  part of the invariant is inductive without the type of the attachments. Each
  handler either keeps an attachment's identity and gives it no seat it was not
  entitled to (`Kept`, `Lawful`), or changes the approval or the ban along with
  the sockets. The right to drive needs `OneOpenSocket` too: `leave` revokes the
  grant of a device and clears the decks of one socket, so a second open socket
  would keep them. Frames of a socket already closed would let a leave of the
  old socket revoke the grant the new one drives under, hence the assumption.
- **Clock.** Every handler hands the clock over in one of two ways, to nobody or
  through a socket that sits in the session after the step, is not on the stage, and is
  a listener's only if one of three handlers settled it unasked (`Handover`). The work is
  in the handlers that unseat somebody and choose a successor in the same call: the
  choice is made among the participants' sockets that are left (`NextIsHandover`); a
  handler that settles a device makes that device's own sockets the case to look at
  (`SettledIsHandover`), with no invariant beyond the types.
- **The house.** `RoomHouse` knows devices only: who is seated, approved, vouched
  for, banned. Its state is a function of the sockets, `House!house`. A handler that
  seats nobody who was not seated (`NoNewSeat`) is a `ComeAndGo`, given `RoomInv`
  after the step; `join`, `approve`, `kick` and `ban` are its other actions. The
  mapping needs one invariant of its own, that an open socket is some device's
  (`OpenIsSomeone`), and `OneOpenSocket`, without which a kick would leave a device
  seated through its other socket.
- **Follower.** `HealInv` says that the claim is honest, that a muted passenger is
  remembered until its next load (`MutedIsSilent`), and that, but for such a passenger,
  the clock of attempts runs no younger than that of the load (`AttemptsBeforeLoads`):
  every attempt starts a load and every load starts with its clock at zero. Without the
  last part "forced" would say nothing about the last attempt. Given it, a forced attempt
  comes `Stuck` after the last, a retry at least `Backoff` after it, and `Backoff` is
  never below `Retry` (`BackoffFloor`). An attempt that a muted passenger puts off drops
  the claim of the load before it only if that load is stuck, and a stuck load stays
  stuck until the next begins, so `NoLiveLoadCancelled` needs no exception. The powers of
  two of the back-off are a named assumption on `MaxTries`, which TLC evaluates.
- **The board's discrete state.** `BoardReachesDeck` is about a deck that has landed a
  track and been rendered since. A track that is loaded while the follower neither holds
  nor shows it cannot be marked reconciled before it lands: only a snapshot of the track
  *shown* marks one. A landing therefore leaves the mark open; then either the render
  comes first and reconciles, or a snapshot of the new track comes first, finds another
  track shown, and leaves it to the render. A reconnect clears the mark and the snapshot
  together. The same track loaded again while it is on the deck, or shown, is the one way
  to land with the mark set, and `repeated` remembers it.
- **Presence.** `PresenceInv` relates the four places a leaving may be: the sockets, the
  queue, the posts and the row. Every queued or posted leaving is no later than the
  account's last close that a room heard; whoever asked after that close has an upgrade
  younger than all of them, so once the write of that upgrade has landed the guard of
  every offline write fails (`Younger`, `CameBack`). In the other direction, the alarm
  drops a queued leaving only for a post or for a socket of the same room, the post
  finds the row no younger than itself, and whatever else could lose a leaving puts the
  account in `hidden`. Neither direction needs an account to be in one room at a time.
- **The board plane.** `BoardInv` is the types, in parts that name who may send what
  on which link, and `CrowdHearsTheLast` itself. A value reaches a listener by the
  wire or through the digest, which drains later; `Drains` says where the last value
  still is. `EndsOn`, by position in the queue, is what makes it provable without
  recursion: appending a frame that says nothing of a control keeps what the link ends
  on (`AppendQuiet`), one that does replaces it (`AppendSays`), and reading one frame
  changes it only where the frame was the last to speak (`TailEnds`). Types and property
  are one induction, since a listener's link ends on a value only if the digest holds
  faders and the crowd is sent no republish.
- **Stems.** `StemInv` joins the types, `SharedJobsRun`, `OneHeavyJob` and two facts about
  the single-flight map and the deck: unless a user forced another, the job of a
  track that is not over is the one a later caller finds (`JobsAreShared`), and a
  derive that is not stale is of the last load its deck began (`LoadsKnowTheirDeck`).
  A job leaves the chain's head when it settles and the next is then the head: the
  head is what `gpuRun` waits for, so one that is running is never passed. Every
  call ends, goes on or is cancelled without changing its deck, track and origin
  (`CallsFollow`), which carries `LoadsKnowTheirDeck` through the awaits. A forced set
  asks the track shown and not the one held, and the theorem says exactly that much.
- **Account sync.** `SyncInv` is `Past` and, until one of the four events, `Untorn`.
  `Past`: every stamp and every value in a copy, the row or a message is no later than
  the clock, so the value and the stamp of a new edit are fresh. A colour edit gives its
  value two stamps, so a value and a stamp are no pair; what holds is that the stamps of
  a value are a span in which no other value has one (`OneSpan`): the second stamp of an
  untorn edit is the next after the first, or the same. `Untorn` adds: a hydrated device
  has pushed, or adopted, exactly what it holds; answers are no newer than the row; and
  what a device holds and the row does not is in a timer or a request, stamped no later
  than the device. That the row will take it follows from the span: a row between that
  stamp and the device's would hold the same value (`SpanOfCopy`), which is also why an
  older put that arrives in between does no harm. A newer answer replaces a copy together
  with its stamp, an equal one changes neither, and an older one nothing, which is all
  that `AdoptsOnlyNewer` says, with no exception.
- **Auto-DJ.** `MixInv` is `Sound(auto)`, that only the deck of the hold loops, and that a
  mixer switched off has nothing. `Sound` holds of a mixer between the steps of a tick as
  well, so there is one lemma per operator (`Keeps`, `KeepsHolds`), and a tick is their
  composition. The point of `WaitsForALoad` is that the flag is one and the loads are
  many: a skip clears the flag and leaves its load in flight, the next sets it again, and
  whichever ends first clears it. It never stays set with no load, since each load that
  was waited for clears the flag whatever became of its reason. The types are not
  part of it, nor needed for it.
- **Types of the auto-DJ.** `Typed(m)` says the same as `m \in Mixer`, field by field
  (`MixerIs`), so that an operator is typed from what it writes; again one lemma for
  each, composed as the tick composes them. The queue is filtered by `Without`, which
  takes the entries that are left by rank: that every rank is taken
  (`EachRankIsTaken`) needs induction over the ranks, had in the form that every
  non-empty set of numbers has a least one (`LeastOf`, from the well-foundedness of `<`),
  and what comes out is again a sequence of tracks (`WithoutType`).

The one hypothesis is a constant of its module (`LateFrames`), satisfied by an instance
that TLC runs; section 5 shows what happens without it. `StartAssumption` of `AutoMix`
says that playlist, picks and decks hold tracks.

Only model-checked: the liveness properties `GraceDecides`, `Converges`, `GoneIsOffline`,
`AnchorIsHeard`, `BoardReachesAll`, `CallsEnd`, `LastEditWins`, `MixEnds`, `DeadAirEnds`
and `FollowsThePlayingDeck`. They rest on fairness and `ENABLED`, which TLAPS does not
reason about. Every invariant and every action property of a passing run is a theorem.

## 5. Where code and comments disagree

Four runs show, each with a trace, that the program does not do what a comment
says of it (`PROJECT.json`, findings, quotes the lines):
- `v_room` (`ListenersNeverAnchor`): `approve` settles the clock on whatever device the
  host names, so one that is in the room as a listener of the crowd gets it; `grant` does
  the same.
- `v_presence` (`OnlineToTheLastSocket`): an account in two rooms that leaves the one it
  came to first is written offline while its socket in the other is open.
- `v_stems` (`StemsOfTheTrack`): a setting change derives with a `stale()` that never
  looks at the deck, so the set of the track the deck showed then lands on the next one.
- `v_board` (`BlipIsNoLeave`): after a reconnect the welcome's roster lists the device
  as not joined while it is online, and the effect meant for leaving pauses the decks.

The models show more of the same kind, with these formulas added to the module
(or these exceptions removed) and checked on the instance of a sibling run. They are not kept as runs.

Room:
- Roles (`roomState.ts:31`): `grant` gives decks to any joined device, crowd and stage
  included, and a listener's `leave` unseats it from a role that requires a seat; the
  flags then encode none of the roles listed.
- A listener's own `leave` with another socket of its device still closing settles the
  clock too, and may give it to that device (`room.ts:785`).
- The host leaves the session, then goes away: nothing was armed, and the crowd stays
  on a public room without a clock (`room.ts:1056`, `room.ts:1073`).
- `[][stageGate = "request" => \A s \in Sock : conn[s].pub /\ conn'[s].stage =>
  conn[s].stageReq # NoOne]_vars`: a stage approval that crosses a lowered hand
  promotes anyway (`room.ts:651`).
- `Cardinality(Listeners(conn)) <= MaxListeners`: a device turned away at
  capacity gets in by retrying while its refused socket closes (`room.ts:439`).
- `(anchor # NoOne /\ ~IsLive(conn, anchor) /\ Abandoned) ~> (~Abandoned \/ anchor
  = NoOne)`: a second drop while the timer still waits for the first is never
  decided (`room.ts:1065`).
- `(able /\ ~AnchorActive) ~> (AnchorActive \/ ~able)`, `able` some seated socket:
  an anchor that reloads and does not join again keeps the clock (`room.ts:1047`).

Follower and presence:
- `AttemptsAreSpaced` without `~silent`: a muted passenger begins no load, so the age it
  reads is that of an older load and every tick forces (`useSessionSync.ts:416`); and
  `ClaimIsHonest` without its exception: each of those drops the claim of a load that
  runs.
- `[][\A v \in Video : OnLoad(v) /\ run = [vid |-> v, room |-> TRUE] => stale' =
  stale]_vars`: a superseded load of a track clears the dedupe target of its
  successor of the same track, and the next intent restarts that load
  (`useSessionSync.ts:212`).
- What lands is what the last load intent asked for: host X, Y, X while the
  follower shows X; the last intent is dropped and Y lands, until a tick repairs
  it (`useSessionSync.ts:346`).
- `BoardReachesDeck` without `~repeated`: a tick between a slow landing and its render
  loads the track again, the render marks it reconciled, and the second landing, a fresh
  buffer, is not given the board's discrete state (`useSessionSync.ts:301`).
- An account online and nowhere, with nothing on its way: the upgrade was refused
  (`room.ts:429`), the online write landed when all was over (`worker/index.ts:177`), the
  room died, the post was lost, or the close was ignored because the device had come
  back under another account or none (`room.ts:1040`). Only the day's TTL ends it. A late
  online write also moves `updated_at` back.
- `[][\A p \in posts' \ posts : now >= p.closedAt + Grace]_vars`: the alarm is
  shared, so an account that closes while another's alarm is pending is given
  less than the grace (`room.ts:1104`).

Board plane (seen while modelling; the first three in traces of `RoomBoard`):
- A listener's catch-up is the last snapshot; intents never update it, and its arrival
  does not change the anchor's joined roster, so nobody publishes: it hears stale
  controls until they are moved again (`room.ts:482`).
- A joiner whose cached load lands before the anchor's republish keeps the board it had.
- Two drivers that move one control at once end with each other's value.
- An intent that arrives during a decode is overwritten by the restore that follows;
  a follower that reconnects has missed the intents between; the anchor's publish in
  flight overwrites a co-driver's crossfade; the write of a snapshot is throttled on its
  leading edge with no write after it, so a restart may lose the newest
  (`room.ts:126`).

Stems:
- The crash guard: `warmStems` never arms it, and the first of two jobs to end disarms
  the single flag for both, so a crash of the second leaves nothing
  (`models.ts:271`). A listener of a session may separate in spite of `index.ts:395`.
- A derive that fails clears the deck's stems without asking whether it is stale; a
  worker that dies at its load leaves later jobs waiting; `getSession` caches a rejected
  promise; a forced job replaces the in-flight entry of its track and deletes it when it
  ends; the key that marks stems as loaded is not set by `forceSeparate`; a forced set
  that settles between a landing and its render lands on the new track, since the
  check asks `latest.current.loaded` (`App.tsx:2106`, against `App.tsx:2098`); a track loaded
  again while a setting changes may skip the derive of its landing.

Account sync:
- `<>[](\A d, e \in Devices : mem[d] = mem[e])`: a colour adopted by the poll or the
  mount does not prime the signature, so it is broadcast again under a new stamp; an
  edit another device made before that stamp is then adopted by nobody
  (`App.tsx:2422`, against `App.tsx:2411` and `settingsSync.ts:141`).
- A colour edit is stamped twice, and its push carries the first stamp: an edit of another
  device stamped between the two reaches the row and is never adopted by the first, whose
  own stamp is newer (`App.tsx:2424`, `settingsSync.ts:135`).
- Edits before hydration carry no stamp (`settingsSync.ts:4`); the mount pushes the
  settings its first render closed over; a nudge makes its receiver push its whole
  blob under a newer stamp; identical data keep the old stamp on the server; a PUT that
  is lost is not tried again; two new devices with equal defaults can stay apart.

Auto-DJ:
- `[](auto.phase # "mixing" => "fx" \notin auto.lent)`: a skip during a blend leaves the
  devices, the glide and the EQ engaged (`autoMixer.ts:287`, against `autoMixer.ts:325`);
  and a cue load whose reason is gone sets the phase to armed in the middle of a later
  blend (`autoMixer.ts:746`), which is then never settled. Switching AUTO off afterwards
  returns the devices and leaves the glide and the live deck's EQ.
- `[][(\E l \in auto.loads : LoadEnds(l)) => playing \subseteq playing']_vars`: a load that
  lands stops the deck, though the user started it meanwhile (`autoMixer.ts:724`,
  "Never grab a deck the user is playing"), or a blend uses it by now.
- The continuation of `advanceToNext` plays the next deck though the user has started the
  old one again during the load (`autoMixer.ts:593`).
- A pause during the wait for stems, or past the exit, does not hold: `tickCueing` never
  asks whether the live deck plays, and `startMix` starts the other one
  (`autoMixer.ts:824`, against "a PAUSE just holds", `autoMixer.ts:540`).
- `settle` pops the head of the queue, which a "play next" during the cue has replaced:
  the pick is lost and the track just played stays (`autoMixer.ts:1561`).
- "Mix now" while armed or preloading only brings the cue forward: the cue computes the
  exit anew (`autoMixer.ts:778`).
- A live deck held in a loop never passes its exit, so the wait for stems never ends, and
  the quiet window of the same cue defers the separation it waits for
  (`autoMixer.ts:872`). The loop is not released when the mix starts, as
  `autoMixer.ts:832` says, but when it ends.
- `landed` asks the deck's track as React last rendered it, so the first landing of a
  track counts as a miss; a good track can be dropped from the queue, and a kickoff adopts
  its deck without playing it (`autoMixer.ts:633`, against
  `autoMixer.machine.test.ts:388`, whose double answers at once).
- A skip while armed or preloading removes nothing from the queue: `nextTrack` is set by
  the cue only (`autoMixer.ts:291`).

Elsewhere, read and not modelled: a private guest refused by the stage gate ends up
with a public socket; the auto-DJ status is never persisted; a `state` of someone who is
not the anchor is dropped silently; the relay's counts and the rate maps live in memory,
the latter without bound.

## 6. Plan

Done, in order of importance: `DjRoom` with `RoomHouse`, `DeckFollow`, `Presence`,
`RoomBoard`, `StemPipeline`, `AccountSync`, `AutoMix`.
Next:
1. The rest of the auto-DJ: the radio's refill (`ensureNext`, which may answer late) and
   gain staging; `AutoMix` composed with `StemPipeline`, so that the wait for stems ends
   when the separation does.
2. `RoomClient` composed with `DjRoom`: reconnect with back-off, the seat the
   client believes it has against the seat it has; abstract specification: one
   session per device.
3. `RoomCrowd` and `RelayRoom`: request list, votes, rate windows, shard counts.
4. The audio cache's eviction, loops and quantisation as pure operators against
   a reference definition.

Theorems to add: the abstract specifications that the other components deserve, above
all a last-writer register that `AccountSync` implements until it is torn and a
single-flight cache that `StemPipeline` implements; step lemmas for the liveness
properties (that a measure never grows), which leave only fairness to TLC.

Not modelled, with no plan to: signal processing, beat and key detection,
separation itself (numeric), rendering and styles, proxies to catalogues,
authentication (its result, the stamped identity, is an input of `DjRoom`), SQL
of single-statement handlers, tooling.
