----------------------------- MODULE RoomBoard -----------------------------
(***************************************************************************)
(* The board plane of a session room (server/room.ts) and the clients that *)
(* feed and follow it (client.ts, App.tsx, useSessionSync.ts): one deck    *)
(* with its controls, the room's last board in memory and on disk, the     *)
(* digest of the crowd, links that keep order and die, React's renders.    *)
(* Who is let in is DjRoom's, which track is loaded is DeckFollow's.       *)
(***************************************************************************)
EXTENDS Naturals, Sequences

CONSTANTS
  Party,     \* participants: they join, drive, and may hold the clock
  Crowd,     \* anonymous listeners
  Starter,   \* the participant that opened the session
  Sweep,     \* controls coalesced for the crowd
  Click,     \* controls relayed to the crowd as they come
  None,
  MaxMoves,  \* knob moves a run allows at most
  Scenes     \* who takes part, who of them comes late with an empty deck,
             \* and how often what may happen

ASSUME RoomBoardAssumption ==
  /\ Starter \in Party /\ Party \cap Crowd = {} /\ Sweep \cap Click = {}
  /\ None \notin Party \cup Crowd
  /\ MaxMoves \in Nat
  /\ Scenes \subseteq [cast : SUBSET (Party \cup Crowd), late : SUBSET (Party \cup Crowd),
                     left : [{"move", "drop", "restart", "hand"} -> 0 .. MaxMoves]]
  /\ \A s \in Scenes : Starter \in s.cast \ s.late

VARIABLES
  cast,      \* the devices of this behaviour
  anchor,    \* storage "anchor"
  live,      \* devices with a socket
  joined,    \* participants whose attachment is joined, and the crowd
  board,     \* lastSnapshot
  disk,      \* storage "snapshot"
  digest,    \* last value per control waiting for the flush, 0: none
  rosterDue, \* a presence flush is to come
  up, down,  \* frames on the way to the room, to each device
  told,      \* client: anchorId
  peers,     \* client: the roster it last saw, reduced to who joined
  shown,     \* client: what its last render depended on
  val,       \* client: the deck's controls
  ready,     \* client: the track is on the deck
  load,      \* client: the board that began the load in flight
  last,      \* client: lastSnapshotRef
  adopted,   \* client: reconciledTarget is the track
  spoken,    \* history: the anchor's board was accepted since it got the clock
  heard,     \* history: what the room last sent to each listener
  moves,     \* how many so far: the value of the last
  left       \* what may still happen

room == <<anchor, live, joined, board, disk, digest, rosterDue>>
deck == <<val, ready, load, last, adopted>>
client == <<told, peers, shown>>
vars == <<room, up, down, client, deck, spoken, heard, moves, left>>

Device == Party \cup Crowd
Control == Sweep \cup Click
Value == 0 .. MaxMoves
Board == [by : Party, deck : BOOLEAN, val : [Control -> Value]]

\* What useRoom derives from the frames: the effects' dependencies.
Deps == [online : BOOLEAN, enabled : BOOLEAN, anchor : BOOLEAN,
         roster : SUBSET Party, deck : BOOLEAN]

UpFrame ==
  [t : {"join", "request"}] \cup [t : {"state"}, board : Board]
    \cup [t : {"intent"}, control : Control, value : Value]
DownFrame ==
  [t : {"welcome"}, anchor : Party \cup {None}, joined : SUBSET Party]
    \cup [t : {"role"}, anchor : Party \cup {None}] \cup [t : {"republish"}]
    \cup [t : {"presence"}, joined : SUBSET Party]
    \cup [t : {"state"}, board : Board]
    \cup [t : {"intent"}, control : Control, value : Value]
    \cup [t : {"sweeps"}, value : [Control -> Value]]

Asking(d) ==
  [online |-> d \in live, enabled |-> d \in Crowd \cup peers[d], anchor |-> told[d] = d,
   roster |-> peers[d], deck |-> ready[d]]

\* A session under way: the starter holds the clock and has been heard, who is
\* not late sits in it on the starter's track.
Opening == [by |-> Starter, deck |-> TRUE, val |-> [k \in Control |-> 0]]
Open(There) ==
  /\ anchor = Starter /\ live = There /\ joined = There
  /\ board = Opening /\ disk \in {None, Opening}
  /\ digest = [k \in Control |-> 0] /\ rosterDue = FALSE
  /\ up = [d \in Device |-> <<>>] /\ down = [d \in Device |-> <<>>]
  /\ told = [d \in Device |-> IF d \in There THEN Starter ELSE None]
  /\ peers = [d \in Device |-> IF d \in There \ Crowd THEN There \ Crowd ELSE {}]
  /\ ready = [d \in Device |-> d \in There] /\ adopted = [d \in Device |-> d \in There \ {Starter}]
  /\ shown = [d \in Device |-> Asking(d)]
  /\ val = [d \in Device |-> [k \in Control |-> 0]]
  /\ load = [d \in Device |-> None]
  /\ last = [d \in Device |-> IF d \in There \ {Starter} THEN Opening ELSE None]
  /\ spoken = TRUE /\ heard = [c \in Crowd |-> [k \in Control |-> 0]]
  /\ moves = 0

Init == \E s \in Scenes : cast = s.cast /\ left = s.left /\ Open(s.cast \ s.late)

Happens(kind) == left[kind] > 0 /\ left' = [left EXCEPT ![kind] = @ - 1]

-----------------------------------------------------------------------------
(* What the room sends.                                                    *)

Sent(links, S, m) == [d \in Device |-> IF d \in S THEN Append(links[d], m) ELSE links[d]]

\* sendCatchUp: whatever board the room holds.
CaughtUp(links, d) ==
  IF board = None THEN links ELSE Sent(links, {d}, [t |-> "state", board |-> board])

\* Mutant: the new anchor is told its role and not asked for its board.
AskedAndToldOnly(links, there, d) ==
  Sent(links, there, [t |-> "role", anchor |-> d])

\* setAnchor: the new anchor is asked for its board, everyone is told the role.
AskedAndTold(links, there, d) ==
  Sent(Sent(links, there \cap {d}, [t |-> "republish"]), there, [t |-> "role", anchor |-> d])

\* The clock goes to d, and whatever the last one said is not d's word.
GiveClock(links, there, d) ==
  /\ anchor' = d /\ spoken' = FALSE
  /\ down' = AskedAndTold(links, there, d)

-----------------------------------------------------------------------------
(* Sockets.                                                                *)

\* The upgrade: a welcome, and for the crowd the board at once.  The client
\* came to it after a back-off of half a second or more, and has rendered.
Connect(d) ==
  LET hello == [t |-> "welcome", anchor |-> anchor, joined |-> IF d \in Crowd THEN {} ELSE joined \cap Party]
      greeted == Sent(down, {d}, hello)
  IN /\ d \in cast \ live /\ ~shown[d].online
     /\ live' = live \cup {d}
     /\ joined' = IF d \in Crowd THEN joined \cup {d} ELSE joined
     /\ down' = IF d \in Crowd THEN CaughtUp(greeted, d) ELSE greeted
     /\ rosterDue' = TRUE
     /\ spoken' = (spoken /\ d # anchor)
     /\ UNCHANGED <<anchor, board, disk, digest, up, client, deck, heard, moves, left>>

Forgotten(S) == [c \in Crowd |-> IF c \in S THEN [k \in Control |-> 0] ELSE heard[c]]

\* A socket dies with what is on the way; the clock of a participant that has
\* gone moves to another one, or is held for its return.
Drop(d) ==
  LET there == live \ {d}
      next == (joined \cap Party) \ {d}
      links == [down EXCEPT ![d] = <<>>]
  IN /\ d \in live /\ Happens("drop")
     /\ live' = there /\ joined' = joined \ {d}
     /\ up' = [up EXCEPT ![d] = <<>>]
     /\ IF d = anchor /\ next # {}
        THEN \E n \in next : GiveClock(links, there, n)
        ELSE down' = links /\ UNCHANGED <<anchor, spoken>>
     /\ rosterDue' = TRUE
     /\ heard' = Forgotten({d})
     /\ UNCHANGED <<board, disk, digest, client, deck, moves>>

\* Mutant: the seats outlive the sockets they were taken on.
RestartSeated ==
  /\ Happens("restart")
  /\ live' = {} /\ UNCHANGED joined
  /\ up' = [d \in Device |-> <<>>] /\ down' = [d \in Device |-> <<>>]
  /\ board' = disk /\ rosterDue' = FALSE
  /\ digest' = [k \in Control |-> 0]
  /\ spoken' = FALSE /\ heard' = Forgotten(Crowd)
  /\ UNCHANGED <<anchor, disk, client, deck, moves>>

\* The room is evicted: sockets, digest and board go, the disk is read again.
Restart ==
  /\ Happens("restart")
  /\ live' = {} /\ joined' = {}
  /\ up' = [d \in Device |-> <<>>] /\ down' = [d \in Device |-> <<>>]
  /\ board' = disk /\ rosterDue' = FALSE
  /\ digest' = [k \in Control |-> 0]
  /\ spoken' = FALSE /\ heard' = Forgotten(Crowd)
  /\ UNCHANGED <<anchor, disk, client, deck, moves>>

\* A driver takes over, the owner comes back, the desktop reclaims: settle
\* hands the clock from one participant to another.
Hand(d) ==
  /\ d \in joined \cap Party /\ anchor \in joined \ {d} /\ Happens("hand")
  /\ GiveClock(down, live, d)
  /\ rosterDue' = TRUE
  /\ UNCHANGED <<live, joined, board, disk, digest, up, client, deck, heard, moves>>

-----------------------------------------------------------------------------
(* What the room does with a frame.                                        *)

Incoming(d, t) == up[d] # <<>> /\ Head(up[d]).t = t
Taken(d) == up' = [up EXCEPT ![d] = Tail(@)]

\* join: seat, catch-up, and the clock if nobody present holds it.
OnJoin(d) ==
  /\ Incoming(d, "join") /\ Taken(d)
  /\ joined' = joined \cup {d}
  /\ IF anchor \in joined \cup {d}
     THEN down' = CaughtUp(down, d) /\ UNCHANGED <<anchor, spoken>>
     ELSE GiveClock(CaughtUp(down, d), live, d)
  /\ rosterDue' = TRUE
  /\ UNCHANGED <<live, board, disk, digest, client, deck, heard, moves, left>>

OnRequest(d) ==
  /\ Incoming(d, "request") /\ Taken(d)
  /\ down' = CaughtUp(down, d)
  /\ UNCHANGED <<room, client, deck, spoken, heard, moves, left>>

\* state: the anchor's board, or anyone's while the clock is vacant, is the
\* room's; it is relayed, and written unless one was written within
\* PERSIST_MIN_MS, which is left to chance.
OnState(d) ==
  /\ Incoming(d, "state") /\ Taken(d)
  /\ LET new == Head(up[d]).board
     IN IF anchor \in {d, None}
        THEN /\ board' = new
             /\ down' = Sent(down, live \ {d}, [t |-> "state", board |-> new])
             /\ disk' \in {disk, new}
             /\ spoken' = (spoken \/ anchor = d)
        ELSE UNCHANGED <<board, down, disk, spoken>>
  /\ UNCHANGED <<anchor, live, joined, digest, rosterDue, client, deck, heard, moves, left>>

\* Mutant: the key ignores the device a parameter belongs to.
DigestKeyBare(k) == CHOOSE j \in Sweep : TRUE

\* digestKey: a control of its own never shares its key with another.
DigestKey(k) == k

\* queueDigest: the last value per key; what shared the key is gone.
Queued(k, v) ==
  [j \in Control |-> IF j = k THEN v ELSE IF DigestKey(j) = DigestKey(k) THEN 0 ELSE digest[j]]

\* intent: to the other participants at once; to the crowd through the digest
\* when it sweeps, as it is when it does not.
OnIntent(d) ==
  /\ Incoming(d, "intent") /\ Taken(d)
  /\ LET m == Head(up[d])
         k == m.control
     IN IF d \in joined
        THEN /\ down' = Sent(down, (live \ {d}) \cap (IF k \in Sweep THEN Party ELSE Device), m)
             /\ digest' = IF k \in Sweep THEN Queued(k, m.value) ELSE digest
             /\ heard' = [c \in Crowd |->
                  IF c \in live THEN [heard[c] EXCEPT ![k] = m.value] ELSE heard[c]]
        ELSE UNCHANGED <<down, digest, heard>>
  /\ UNCHANGED <<anchor, live, joined, board, disk, rosterDue, client, deck, spoken, moves, left>>

Receive(d) == OnJoin(d) \/ OnRequest(d) \/ OnState(d) \/ OnIntent(d)

\* The digest timer.  The batch goes out back to back, as one frame here.
FlushDigest ==
  /\ \E k \in Control : digest[k] # 0
  /\ down' = Sent(down, live \cap Crowd, [t |-> "sweeps", value |-> digest])
  /\ digest' = [k \in Control |-> 0]
  /\ UNCHANGED <<anchor, live, joined, board, disk, rosterDue, up, client, deck, spoken, heard, moves, left>>

\* The presence flush: at once, or at the end of the window it fell into.
FlushPresence ==
  /\ rosterDue /\ rosterDue' = FALSE
  /\ down' = Sent(down, live \cap Party, [t |-> "presence", joined |-> joined \cap Party])
  /\ UNCHANGED <<anchor, live, joined, board, disk, digest, up, client, deck, spoken, heard, moves, left>>

-----------------------------------------------------------------------------
(* The clients.                                                            *)

Snapshot(d) == [by |-> d, deck |-> ready[d] \/ load[d] # None, val |-> val[d]]

\* Frames a client sends go nowhere without a socket.
Send(d, ms) == up' = IF d \in live THEN [up EXCEPT ![d] = @ \o ms] ELSE up

Adopts(d, b) ==
  /\ val' = [val EXCEPT ![d] = b.val]
  /\ adopted' = [adopted EXCEPT ![d] = TRUE]

\* Mutant: joining does not ask for the board: only the catch-up of the join,
\* which comes before the roster says so, would bring it.
AsksForBoardNever(d, now) == FALSE

\* The effects on isAnchor, status, roster and loaded; on enabled, isAnchor
\* and status; on leaving; and on a deck that has landed.
Publishes(d, now) ==
  /\ now.anchor /\ now.online
  /\ <<now.anchor, now.online, now.roster, now.deck>>
       # <<shown[d].anchor, shown[d].online, shown[d].roster, shown[d].deck>>
AsksForBoard(d, now) ==
  /\ now.enabled /\ ~now.anchor /\ now.online
  /\ <<now.enabled, now.anchor, now.online>>
       # <<shown[d].enabled, shown[d].anchor, shown[d].online>>
Leaves(d, now) == shown[d].enabled /\ ~now.enabled /\ now.online
Reconciles(d, now) ==
  /\ now.deck /\ ~shown[d].deck /\ now.enabled /\ ~now.anchor
  /\ last[d] # None /\ ~adopted[d]

Render(d) ==
  LET now == Asking(d)
      frames == (IF Publishes(d, now) THEN <<[t |-> "state", board |-> Snapshot(d)]>> ELSE <<>>)
                \o (IF AsksForBoard(d, now) THEN <<[t |-> "request"]>> ELSE <<>>)
  IN /\ now # shown[d]
     /\ shown' = [shown EXCEPT ![d] = now]
     /\ Send(d, frames)
     /\ IF Leaves(d, now)
        THEN /\ adopted' = [adopted EXCEPT ![d] = FALSE]
             /\ last' = [last EXCEPT ![d] = None]
             /\ UNCHANGED val
        ELSE /\ IF Reconciles(d, now) /\ last[d].deck
                THEN Adopts(d, last[d]) ELSE UNCHANGED <<val, adopted>>
             /\ UNCHANGED last
     /\ heard' = IF d \in Crowd /\ adopted'[d] /\ ~adopted[d] THEN Forgotten({d}) ELSE heard
     /\ UNCHANGED <<room, down, told, peers, ready, load, spoken, moves, left>>

\* The load a board began lands with that board's controls.
Land(d) ==
  /\ load[d] # None
  /\ ready' = [ready EXCEPT ![d] = TRUE]
  /\ val' = [val EXCEPT ![d] = load[d].val]
  /\ load' = [load EXCEPT ![d] = None]
  /\ UNCHANGED <<room, up, down, client, last, adopted, spoken, heard, moves, left>>

\* A participant turns a knob: here first, then on the wire.
Move(d, k) ==
  /\ d \in Party /\ shown[d].enabled /\ Happens("move")
  /\ moves' = moves + 1
  /\ val' = [val EXCEPT ![d][k] = moves']
  /\ Send(d, <<[t |-> "intent", control |-> k, value |-> moves']>>)
  /\ UNCHANGED <<room, down, client, ready, load, last, adopted, spoken, heard>>

Arriving(d, t) == down[d] # <<>> /\ Head(down[d]).t = t
Read(d) == down' = [down EXCEPT ![d] = Tail(@)]

OnWelcome(d) ==
  /\ Arriving(d, "welcome") /\ Read(d)
  /\ LET m == Head(down[d])
     IN /\ told' = [told EXCEPT ![d] = m.anchor]
        /\ peers' = [peers EXCEPT ![d] = m.joined]
        /\ Send(d, (IF d \in Party THEN <<[t |-> "join"]>> ELSE <<>>)
                   \o (IF m.anchor \notin {None, d} THEN <<[t |-> "request"]>> ELSE <<>>))
  /\ UNCHANGED <<room, shown, deck, spoken, heard, moves, left>>

OnRole(d) ==
  /\ Arriving(d, "role") /\ Read(d)
  /\ told' = [told EXCEPT ![d] = Head(down[d]).anchor]
  /\ UNCHANGED <<room, up, peers, shown, deck, spoken, heard, moves, left>>

OnPresence(d) ==
  /\ Arriving(d, "presence") /\ Read(d)
  /\ peers' = [peers EXCEPT ![d] = Head(down[d]).joined]
  /\ UNCHANGED <<room, up, told, shown, deck, spoken, heard, moves, left>>

OnRepublish(d) ==
  /\ Arriving(d, "republish") /\ Read(d)
  /\ Send(d, <<[t |-> "state", board |-> Snapshot(d)]>>)
  /\ UNCHANGED <<room, client, deck, spoken, heard, moves, left>>

\* applyRoomSnapshot: ignored by the anchor and by whoever is not in; else it
\* loads a track the deck has not, or aligns the deck once per load.
OnBoard(d) ==
  /\ Arriving(d, "state") /\ Read(d)
  /\ LET new == Head(down[d]).board
         follows == shown[d].enabled /\ ~shown[d].anchor
         loads == follows /\ new.deck /\ ~ready[d] /\ load[d] = None
         aligns == follows /\ new.deck /\ ready[d] /\ shown[d].deck /\ ~adopted[d]
     IN /\ last' = IF follows THEN [last EXCEPT ![d] = new] ELSE last
        /\ load' = IF loads THEN [load EXCEPT ![d] = new] ELSE load
        /\ IF aligns THEN Adopts(d, new) ELSE UNCHANGED <<val, adopted>>
        /\ heard' = IF aligns /\ d \in Crowd THEN Forgotten({d}) ELSE heard
  /\ UNCHANGED <<room, up, client, ready, spoken, moves, left>>

OnMove(d) ==
  /\ Arriving(d, "intent") /\ Read(d)
  /\ LET m == Head(down[d])
     IN val' = IF shown[d].enabled THEN [val EXCEPT ![d][m.control] = m.value] ELSE val
  /\ UNCHANGED <<room, up, client, ready, load, last, adopted, spoken, heard, moves, left>>

OnSweeps(d) ==
  /\ Arriving(d, "sweeps") /\ Read(d)
  /\ LET v == Head(down[d]).value
     IN val' = [val EXCEPT ![d] = [k \in Control |-> IF v[k] # 0 THEN v[k] ELSE @[k]]]
  /\ UNCHANGED <<room, up, client, ready, load, last, adopted, spoken, heard, moves, left>>

Arrives(d) ==
  OnWelcome(d) \/ OnRole(d) \/ OnPresence(d) \/ OnRepublish(d) \/ OnBoard(d)
    \/ OnMove(d) \/ OnSweeps(d)

Step ==
  \/ \E d \in Device : Connect(d) \/ Drop(d) \/ Receive(d) \/ Arrives(d) \/ Render(d) \/ Land(d)
  \/ \E d \in Party : Hand(d) \/ \E k \in Control : Move(d, k)
  \/ FlushDigest \/ FlushPresence \/ Restart

Next == Step /\ UNCHANGED cast

Spec == Init /\ [][Next]_<<cast, vars>>

\* Frames arrive while the socket lives, timers fire, React renders, a load
\* lands.  Nobody has to connect or to stay.
FairSpec ==
  /\ Spec
  /\ \A d \in Device : WF_vars(Receive(d)) /\ WF_vars(Arrives(d)) /\ WF_vars(Render(d)) /\ WF_vars(Land(d))
  /\ WF_vars(FlushDigest) /\ WF_vars(FlushPresence)

-----------------------------------------------------------------------------
(* Properties.                                                             *)

\* Every variable keeps its shape, and every frame is one the protocol has.
TypeOK ==
  /\ \E s \in Scenes : cast = s.cast /\ left \in [DOMAIN s.left -> Value]
  /\ anchor \in Party \cup {None} /\ live \subseteq Device /\ joined \subseteq live
  /\ board \in Board \cup {None} /\ disk \in Board \cup {None}
  /\ digest \in [Control -> Value] /\ rosterDue \in BOOLEAN
  /\ up \in [Device -> Seq(UpFrame)] /\ down \in [Device -> Seq(DownFrame)]
  /\ told \in [Device -> Party \cup {None}] /\ peers \in [Device -> SUBSET Party]
  /\ shown \in [Device -> Deps]
  /\ val \in [Device -> [Control -> Value]]
  /\ ready \in [Device -> BOOLEAN] /\ adopted \in [Device -> BOOLEAN]
  /\ load \in [Device -> Board \cup {None}] /\ last \in [Device -> Board \cup {None}]
  /\ spoken \in BOOLEAN /\ heard \in [Crowd -> [Control -> Value]]
  /\ moves \in Value

\* What a listener whose value of k is now x holds once it has read the
\* frames of s, and then the digest: the last that speaks of k has its say.
Speaks(m, k) == \/ m.t = "intent" /\ m.control = k
                \/ m.t = "sweeps" /\ m.value[k] # 0
Says(m, k) == IF m.t = "intent" THEN m.value ELSE m.value[k]
EndsOn(s, k, x, v) ==
  \/ \E i \in 1 .. Len(s) : /\ Speaks(s[i], k) /\ Says(s[i], k) = v
                             /\ \A j \in 1 .. Len(s) : j > i => ~Speaks(s[j], k)
  \/ x = v /\ \A i \in 1 .. Len(s) : ~Speaks(s[i], k)
Drains(c, k, v) ==
  IF digest[k] # 0 THEN digest[k] = v ELSE EndsOn(down[c], k, val[c][k], v)

\* However sweeps were coalesced and clicks went past them, a listener whose
\* deck is aligned ends on the last value of every control it was sent.
CrowdHearsTheLast ==
  \A c \in Crowd, k \in Control :
    c \in live /\ adopted[c] /\ heard[c][k] # 0 => Drains(c, k, heard[c][k])

\* Whoever gets the clock is heard: the room takes its board, although what it
\* published before the clock was its own is dropped without a word, and its
\* renders may never see the clock go and come back.
AnchorIsHeard ==
  \A d \in Party : (anchor = d /\ d \in joined) ~> (spoken \/ anchor # d \/ d \notin joined)

\* A device that is in the session, with a track on the room's board, gets the
\* track, although the catch-up of its join comes before it knows it is in.
BoardReachesAll ==
  \A d \in Device :
    (d \in joined /\ anchor \in joined \ {d} /\ board # None /\ board.deck)
      ~> (ready[d] \/ d \notin joined \/ anchor \notin joined \ {d})

\* App.tsx, the leave effect: "Only a genuine leave drops `enabled' while still
\* ONLINE; a reconnect blip drops the status too ... so we skip it".  Nobody
\* leaves here, so no render may take the leave's path.
BlipIsNoLeave == [][\A d \in Device : shown[d] # shown'[d] => ~Leaves(d, shown'[d])]_vars
=============================================================================
