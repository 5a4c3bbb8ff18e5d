------------------------------ MODULE DeckFollow ------------------------------
(***************************************************************************)
(* One deck of a device that follows a session: the host loads tracks, the *)
(* follower starts loads of its own on load intents, board snapshots and   *)
(* playhead ticks, and must end up holding the host's track.  A load takes *)
(* any time, can fail, and is cancelled by the next load of the deck; its  *)
(* `finally' runs later.  The room relays frames of one socket in order    *)
(* and answers a request for state with the last board the host published. *)
(***************************************************************************)
EXTENDS Integers, Sequences

CONSTANTS
  Video,      \* tracks
  None,       \* no track
  Never,      \* a clock that was never set
  Retry,      \* RESYNC_RETRY_MS, in units of time
  Cap,        \* RESYNC_BACKOFF_CAP_MS
  Stuck,      \* RESYNC_STUCK_MS
  MaxTries,   \* bound: attempts are counted as far as the back-off grows
  MaxMoves,   \* bound: what the host and the link do before they settle
  WireLen,    \* bound: frames under way
  MaxStale    \* bound: superseded loads of one track whose `finally' is due

ASSUME FollowConstants ==
  /\ None \notin Video /\ Never \notin Int
  /\ Retry \in Nat \ {0} /\ Cap \in Nat /\ Stuck \in Nat \ {0}
  /\ Retry <= Cap /\ Retry <= Stuck
  /\ MaxTries \in Nat \ {0} /\ Retry * 2^(MaxTries - 1) >= Cap
  /\ \A n \in 1..MaxTries : 2^n \in Nat \ {0}
  /\ MaxMoves \in Nat /\ WireLen \in Nat /\ MaxStale \in Nat

VARIABLES
  held, coming,  \* the host's deck: the track on it, the load in flight
  board,         \* the deck in the last snapshot the room accepted
  wire,          \* frames from the room on their way to the follower
  moves,         \* counts what MaxMoves bounds
  loaded,        \* the track the follower committed to its deck
  seen,          \* latest.current.loaded: `loaded' as of the last render
  run,           \* the load in flight
  stale,         \* superseded loads whose `finally' is due, by track
  target,        \* roomLoadTarget
  claim,         \* loadingVid; the load that claimed it is always the newest
  loadAge,       \* since loadingSince, up to Stuck
  tryAge,        \* since resyncAt, up to Cap
  tries,         \* resyncTries
  snap,          \* the deck in lastSnapshotRef
  reconciled,    \* reconciledTarget
  painted,       \* React rendered since the last load landed
  dressed,       \* did the board's discrete state reach the landed track?
  deferring,     \* deferDecodeRef
  pending,       \* pendingRoomLoad
  welcomed,      \* a welcome that lists the device as out is not rendered yet
  \* History, for the properties only:
  repeated,      \* the landed track was on the deck, or shown, when its load began
  silent         \* a muted passenger at some time since its last load began

host == <<held, coming, board, moves>>
clocks == <<loadAge, tryAge, tries>>
guards == <<target, reconciled, pending>>
history == <<repeated, silent>>
vars == <<host, wire, loaded, seen, run, stale, guards, claim, clocks, snap,
          painted, dressed, deferring, welcomed, history>>

\* A load, whether the session asked for it, and, for `repeated', whether its track
\* was on the deck, or shown, when it began.
NoLoad == [vid |-> None, room |-> FALSE, again |-> FALSE]
Load(v) == [kind |-> "load", vid |-> v]
State(v) == [kind |-> "state", vid |-> v]
Tick(v) == [kind |-> "tick", vid |-> v]

Init ==
  /\ held \in Video \cup {None} /\ coming = None /\ board = held
  /\ wire = <<State(board)>> /\ moves = 0
  /\ loaded = None /\ seen = None
  \* The follower may still be restoring its own last session.
  /\ run \in {NoLoad} \cup {[vid |-> v, room |-> FALSE, again |-> FALSE] : v \in Video}
  /\ claim = run.vid /\ loadAge = IF run = NoLoad THEN Never ELSE 0
  /\ stale = [v \in Video |-> 0]
  /\ target = None /\ reconciled = None /\ pending = None /\ snap = None
  /\ tryAge = Never /\ tries = 0
  /\ painted = TRUE /\ dressed = FALSE
  /\ deferring \in BOOLEAN /\ silent = deferring
  /\ welcomed = FALSE /\ repeated = FALSE

-----------------------------------------------------------------------------
(* The host and the room.                                                  *)

Shown == IF held # None THEN held ELSE coming   \* publishedDeckId
Move == moves < MaxMoves /\ moves' = moves + 1
Send(f) == Len(wire) < WireLen /\ wire' = Append(wire, f)

rest == <<loaded, seen, run, stale, claim, clocks, painted, dressed, deferring, history>>
follower == <<rest, guards, snap, welcomed>>

HostLoad(v) ==
  /\ Move /\ Send(Load(v))
  /\ coming' = v
  /\ UNCHANGED <<held, board, follower>>

HostLand ==
  /\ coming # None
  /\ held' = coming /\ coming' = None /\ board' = held'
  /\ Send(State(board'))
  /\ UNCHANGED <<moves, follower>>

HostFail ==
  /\ coming # None /\ coming' = None
  /\ UNCHANGED <<held, board, moves, wire, follower>>

\* Somebody joined, or a mix began: the host publishes its board again.
Publish ==
  /\ Move /\ board' = Shown /\ Send(State(board'))
  /\ UNCHANGED <<held, coming, follower>>

HostTick ==
  /\ Send(Tick(held))
  /\ UNCHANGED <<host, follower>>

\* The follower's socket dies with what was on it; the next one begins with a
\* welcome, in which the device has not joined, and after its join with the room's
\* board.
Reconnect ==
  /\ Move /\ wire' = <<State(board)>> /\ welcomed' = TRUE
  /\ UNCHANGED <<held, coming, board, rest, guards, snap>>

\* The render of that welcome runs the effect meant for leaving, which clears the
\* guards; what comes before the device believes it is in again is ignored, and the
\* board is asked for then.  Or the roster with the join is rendered at once.
Welcomed ==
  /\ welcomed /\ welcomed' = FALSE
  /\ \/ /\ target' = None /\ reconciled' = None /\ pending' = None /\ snap' = None
        /\ \E k \in 0..Len(wire) :
             wire' = Append(SubSeq(wire, k + 1, Len(wire)), State(board))
     \/ UNCHANGED <<wire, guards, snap>>
  /\ UNCHANGED <<host, rest>>

-----------------------------------------------------------------------------
(* The follower's loads.                                                   *)

\* loadTrackToDeck up to its first await: the previous load is superseded.
BeginLoad(v, room) ==
  /\ run # NoLoad => stale[run.vid] < MaxStale
  /\ stale' = IF run = NoLoad THEN stale ELSE [stale EXCEPT ![run.vid] = @ + 1]
  /\ run' = [vid |-> v, room |-> room, again |-> v \in {loaded, seen}]
  /\ claim' = v /\ loadAge' = 0 /\ silent' = FALSE

\* Mutant: a load does not re-arm the reconcile.
RunRoomLoadUnarmed(v) ==
  /\ target' = v /\ UNCHANGED reconciled
  /\ \/ deferring /\ pending' = v /\ UNCHANGED <<run, stale, loadAge, silent>>
     \/ ~deferring /\ pending' = None /\ BeginLoad(v, TRUE)

RunRoomLoad(v) ==
  /\ target' = v /\ reconciled' = None
  /\ \/ deferring /\ pending' = v /\ UNCHANGED <<run, stale, loadAge, silent>>
     \/ ~deferring /\ pending' = None /\ BeginLoad(v, TRUE)

\* The `finally' of runRoomLoad.
ForgetTarget(v) ==
  target' = IF target = v /\ seen # v THEN None ELSE target
Finally(load) == IF load.room THEN ForgetTarget(load.vid) ELSE UNCHANGED target

Land ==
  /\ run # NoLoad
  /\ loaded' = run.vid /\ painted' = FALSE /\ dressed' = FALSE
  /\ run' = NoLoad /\ Finally(run) /\ repeated' = run.again
  /\ UNCHANGED <<host, wire, seen, stale, reconciled, pending, claim, clocks,
                 snap, deferring, welcomed, silent>>

Fail ==
  /\ run # NoLoad
  /\ run' = NoLoad /\ claim' = None /\ Finally(run)
  /\ UNCHANGED <<host, wire, loaded, seen, stale, reconciled, pending, clocks,
                 snap, painted, dressed, deferring, welcomed, history>>

\* Mutant: ownership of the claim is the track, not the load.
SupersededEndsById(v) ==
  /\ stale[v] > 0 /\ stale' = [stale EXCEPT ![v] = @ - 1]
  /\ claim' = IF claim = v THEN None ELSE claim
  /\ ForgetTarget(v)
  /\ UNCHANGED <<host, wire, loaded, seen, run, reconciled, pending, clocks, snap,
                 painted, dressed, deferring, welcomed, history>>

\* Mutant: a load's `finally' may run again.
SupersededEndsAgain(v) ==
  /\ stale' = [stale EXCEPT ![v] = @ - 1]
  /\ ForgetTarget(v)
  /\ UNCHANGED <<host, wire, loaded, seen, run, reconciled, pending, claim, clocks, snap,
                 painted, dressed, deferring, welcomed, history>>

\* A superseded load ends: the claim is a newer load's, the target may be its own.
SupersededEnds(v) ==
  /\ stale[v] > 0 /\ stale' = [stale EXCEPT ![v] = @ - 1]
  /\ ForgetTarget(v)
  /\ UNCHANGED <<host, wire, loaded, seen, run, reconciled, pending, claim, clocks, snap,
                 painted, dressed, deferring, welcomed, history>>

\* React renders: the refs see the landed track, and the post-decode effect
\* applies the last snapshot's discrete state to it, once.
Render ==
  /\ ~painted /\ painted' = TRUE /\ seen' = loaded
  /\ IF loaded # None /\ snap = loaded /\ reconciled # loaded
     THEN reconciled' = loaded /\ dressed' = TRUE
     ELSE UNCHANGED <<reconciled, dressed>>
  /\ UNCHANGED <<host, wire, loaded, run, stale, target, pending, claim, clocks, snap,
                 deferring, welcomed, history>>

-----------------------------------------------------------------------------
(* Frames.                                                                 *)

Arrives(f) == wire # <<>> /\ Head(wire) = f

OnLoad(v) ==
  /\ Arrives(Load(v)) /\ wire' = Tail(wire)
  /\ \/ /\ v \notin {seen, target}
        /\ RunRoomLoad(v) /\ (deferring => UNCHANGED claim)
     \/ /\ v \in {seen, target}
        /\ UNCHANGED <<guards, run, stale, claim, loadAge, silent>>
  /\ UNCHANGED <<host, loaded, seen, tryAge, tries, snap, painted, dressed, deferring,
                 welcomed, repeated>>

OnState(v) ==
  /\ Arrives(State(v)) /\ wire' = Tail(wire) /\ snap' = v
  /\ \/ /\ v \notin {None, seen, target, claim}
        /\ RunRoomLoad(v) /\ (deferring => UNCHANGED claim)
        /\ UNCHANGED dressed
     \/ /\ v # None /\ v = seen /\ reconciled # v
        /\ reconciled' = v /\ dressed' = (dressed \/ loaded = v)
        /\ UNCHANGED <<target, pending, run, stale, claim, loadAge, silent>>
     \/ /\ v \in {None, seen, target, claim} /\ ~(v # None /\ v = seen /\ reconciled # v)
        /\ UNCHANGED <<guards, run, stale, claim, loadAge, silent, dressed>>
  /\ UNCHANGED <<host, loaded, seen, tryAge, tries, painted, deferring, welcomed, repeated>>

\* resyncBackoffMs: doubled by each attempt after the first, up to the cap.
Backoff(n) ==
  LET wait == IF n < 2 THEN Retry ELSE Retry * 2^(n - 1)
  IN  IF wait < Cap THEN wait ELSE Cap

InFlight(v) == v \in {target, claim}
FlightAge == IF loadAge = Never THEN 0 ELSE loadAge

\* decideTickResync, for a tick of a track the deck does not hold.
Forces(v) == InFlight(v) /\ FlightAge >= Stuck
\* Mutants: no back-off between attempts; a clock that was never set reads as `wait'.
RetriesAtOnce(v) == ~InFlight(v)
RetriesOnceTried(v) == ~InFlight(v) /\ tryAge # Never /\ tryAge >= Backoff(tries)
Retries(v) == ~InFlight(v) /\ (tryAge # Never => tryAge >= Backoff(tries))

OnTick(v) ==
  /\ Arrives(Tick(v))
  /\ \/ /\ v \in {None, seen}
        /\ tries' = 0 /\ wire' = Tail(wire)
        /\ UNCHANGED <<guards, run, stale, claim, loadAge, silent, tryAge>>
     \/ /\ v \notin {None, seen} /\ ~Forces(v) /\ ~Retries(v)
        /\ wire' = Tail(wire)
        /\ UNCHANGED <<guards, run, stale, claim, silent, clocks>>
     \/ /\ v \notin {None, seen} /\ (Forces(v) \/ Retries(v))
        /\ tryAge' = 0 /\ tries' = IF tries = MaxTries THEN tries ELSE tries + 1
        /\ RunRoomLoad(v)
        /\ deferring => claim' = IF Forces(v) THEN None ELSE claim
        /\ wire' = Append(Tail(wire), State(board))
  /\ UNCHANGED <<host, loaded, seen, snap, painted, dressed, deferring, welcomed, repeated>>

-----------------------------------------------------------------------------
(* The listener, and time.                                                 *)

Mute ==
  /\ ~deferring /\ Move /\ deferring' = TRUE /\ silent' = TRUE
  /\ UNCHANGED <<held, coming, board, wire, loaded, seen, run, stale, guards, claim, clocks,
                 snap, painted, dressed, welcomed, repeated>>

\* What was asked for meanwhile is decoded now.
Unmute ==
  /\ deferring /\ deferring' = FALSE
  /\ \/ /\ pending # None /\ target' = pending /\ reconciled' = None /\ pending' = None
        /\ BeginLoad(pending, TRUE)
     \/ /\ pending = None
        /\ UNCHANGED <<guards, run, stale, claim, loadAge, silent>>
  /\ UNCHANGED <<host, wire, loaded, seen, tryAge, tries, snap, painted, dressed,
                 welcomed, repeated>>

Older(age, bound) == IF age \in {Never, bound} THEN age ELSE age + 1

Pass ==
  /\ loadAge' = Older(loadAge, Stuck) /\ tryAge' = Older(tryAge, Cap)
  /\ UNCHANGED <<host, wire, loaded, seen, run, stale, guards, claim, tries, snap,
                 painted, dressed, deferring, welcomed, history>>

Receive ==
  \/ \E v \in Video : OnLoad(v)
  \/ \E v \in Video \cup {None} : OnState(v) \/ OnTick(v)

Next ==
  \/ \E v \in Video : HostLoad(v) \/ SupersededEnds(v)
  \/ HostLand \/ HostFail \/ Publish \/ HostTick \/ Reconnect \/ Welcomed
  \/ Land \/ Fail \/ Render \/ Receive
  \/ Mute \/ Unmute \/ Pass

Spec == Init /\ [][Next]_vars

\* Frames arrive, time passes, React renders, superseded loads end; a load that
\* is tried for ever lands some day, and a muted listener turns the sound on.
FairSpec ==
  /\ Spec
  /\ WF_vars(Receive) /\ WF_vars(HostTick) /\ WF_vars(Render) /\ WF_vars(Pass)
  /\ WF_vars(HostLand \/ HostFail) /\ WF_vars(Unmute) /\ WF_vars(Welcomed)
  /\ \A v \in Video : WF_vars(SupersededEnds(v))
  /\ SF_vars(Land)

-----------------------------------------------------------------------------
(* Properties.                                                             *)

Age(bound) == 0..bound \cup {Never}
TypeOK ==
  /\ {held, coming, board, loaded, seen, target, claim, snap, reconciled, pending}
       \subseteq Video \cup {None}
  /\ wire \in Seq([kind : {"load", "state", "tick"}, vid : Video \cup {None}])
  /\ moves \in Nat /\ tries \in 0..MaxTries
  /\ run \in {NoLoad} \cup [vid : Video, room : BOOLEAN, again : BOOLEAN]
  /\ stale \in [Video -> Nat]
  /\ loadAge \in Age(Stuck) /\ tryAge \in Age(Cap)
  /\ {painted, dressed, deferring, welcomed, repeated, silent} \subseteq BOOLEAN

\* A deck whose load is running says so: without it every tick would start a
\* load that cancels the one before it.  One claim is dropped: that of a stuck load
\* of a muted passenger, whose attempt is put off.
ClaimIsHonest == run # NoLoad => claim = run.vid \/ (silent /\ loadAge = Stuck)

\* A tick never cancels a running load of the very track it asks for, unless
\* that load is stuck.
NoLiveLoadCancelled ==
  [][\A v \in Video :
       OnTick(v) /\ run.vid = v => stale' = stale \/ FlightAge >= Stuck]_vars

\* Attempts of the self-heal on one deck are at least RESYNC_RETRY_MS apart.  A
\* follower that was a muted passenger is taken at its word only once a load has
\* begun again: what it put off starts no clock.
Attempts(v) == OnTick(v) /\ v # seen /\ (Forces(v) \/ Retries(v))
AttemptsAreSpaced ==
  [][\A v \in Video : Attempts(v) /\ tryAge # Never /\ ~silent => tryAge >= Retry]_vars

\* The board's discrete state reaches every track the follower shows and holds
\* the board of, whether the snapshot that carried it came while the track, or
\* another one, was still loading, or between a landing and its render.  One case is
\* left out: the track was loaded again while it was on the deck, or was shown.
BoardReachesDeck ==
  painted /\ loaded # None /\ snap = loaded /\ ~repeated => dressed

\* Once the host and the link settle, the follower comes to hold the host's
\* track for good, whatever was lost, failed, superseded or restored meanwhile.
Converges == <>[](held = None \/ (loaded = held /\ seen = held))
=============================================================================
