-------------------------- MODULE DeckFollowProofs --------------------------
(* What a follower's deck guarantees for every set of tracks and every     *)
(* choice of the back-off's constants.                                     *)
EXTENDS DeckFollow, SequenceTheorems, TLAPS

USE FollowConstants

-----------------------------------------------------------------------------
(* Type correctness.                                                       *)

Frames == [kind : {"load", "state", "tick"}, vid : Video \cup {None}]
Loads == {NoLoad} \cup [vid : Video, room : BOOLEAN, again : BOOLEAN]

LEMMA BeginType ==
  ASSUME TypeOK, NEW v \in Video, NEW room \in BOOLEAN, BeginLoad(v, room)
  PROVE  /\ run' \in [vid : Video, room : BOOLEAN, again : BOOLEAN]
         /\ stale' \in [Video -> Nat] /\ claim' = v /\ loadAge' = 0 /\ silent' \in BOOLEAN
<1>1. run # NoLoad => stale[run.vid] \in Nat /\ run.vid \in Video BY DEF TypeOK
<1>2. stale' \in [Video -> Nat]
  <2>1. stale' = IF run = NoLoad THEN stale ELSE [stale EXCEPT ![run.vid] = @ + 1]
    BY Zenon DEF BeginLoad
  <2>2. stale \in [Video -> Nat] BY DEF TypeOK
  <2>3. CASE run = NoLoad BY <2>1, <2>2, <2>3
  <2>4. CASE run # NoLoad
    <3>1. PICK u \in Video : u = run.vid BY <1>1, <2>4
    <3>2. stale' = [stale EXCEPT ![u] = stale[u] + 1] BY <2>1, <2>4, <3>1, Zenon
    <3>3. stale[u] + 1 \in Nat BY <2>2
    <3> QED BY <2>2, <3>2, <3>3
  <2> QED BY <2>3, <2>4
<1>3. (v \in {loaded, seen}) \in BOOLEAN OBVIOUS
<1>4. run' \in [vid : Video, room : BOOLEAN, again : BOOLEAN] BY <1>3 DEF BeginLoad
<1> QED BY <1>2, <1>4 DEF BeginLoad

LEMMA RunType ==
  ASSUME TypeOK, NEW v \in Video, RunRoomLoad(v), deferring => claim' \in {None, claim}
  PROVE  /\ run' \in Loads /\ stale' \in [Video -> Nat]
         /\ {target', reconciled', pending', claim'} \subseteq Video \cup {None}
         /\ loadAge' \in Age(Stuck) /\ silent' \in BOOLEAN
<1>1. CASE deferring
  <2>1. silent' \in BOOLEAN BY <1>1, Zenon DEF RunRoomLoad, TypeOK
  <2> QED BY <1>1, <2>1 DEF RunRoomLoad, TypeOK, Loads
<1>2. CASE ~deferring
  <2>1. BeginLoad(v, TRUE) BY <1>2 DEF RunRoomLoad
  <2>2. /\ run' \in [vid : Video, room : BOOLEAN, again : BOOLEAN]
        /\ stale' \in [Video -> Nat] /\ claim' = v /\ loadAge' = 0 /\ silent' \in BOOLEAN
    BY <2>1, BeginType, Zenon
  <2>3. target' = v /\ reconciled' = None /\ pending' = None BY <1>2 DEF RunRoomLoad
  <2> QED BY <2>2, <2>3 DEF Loads, Age
<1> QED BY <1>1, <1>2 DEF TypeOK

LEMMA WireType ==
  ASSUME TypeOK
  PROVE  /\ \A v \in Video \cup {None} : {Load(v), State(v), Tick(v)} \subseteq Frames
         /\ \A f \in Frames : Send(f) => wire' \in Seq(Frames)
         /\ wire # <<>> => Tail(wire) \in Seq(Frames)
         /\ wire # <<>> => Append(Tail(wire), State(board)) \in Seq(Frames)
<1>0. wire \in Seq(Frames) /\ board \in Video \cup {None} BY DEF TypeOK, Frames
<1>1. \A v \in Video \cup {None} : {Load(v), State(v), Tick(v)} \subseteq Frames
  BY DEF Load, State, Tick, Frames
<1>2. \A f \in Frames : Send(f) => wire' \in Seq(Frames) BY <1>0 DEF Send
<1>3. wire # <<>> => Tail(wire) \in Seq(Frames) BY <1>0
<1>4. wire # <<>> => Append(Tail(wire), State(board)) \in Seq(Frames) BY <1>0, <1>1, <1>3
<1> QED BY <1>1, <1>2, <1>3, <1>4

LEMMA HostType ==
  ASSUME TypeOK,
         \/ \E v \in Video : HostLoad(v)
         \/ HostLand \/ HostFail \/ Publish \/ HostTick
  PROVE  TypeOK'
<1>0. wire \in Seq(Frames) /\ {held, coming, board, Shown} \subseteq Video \cup {None}
  BY DEF TypeOK, Frames, Shown
<1>1. wire' \in Seq(Frames)
  <2>1. CASE \E v \in Video : HostLoad(v) BY <2>1, WireType DEF HostLoad
  <2>2. CASE HostLand BY <1>0, <2>2, WireType DEF HostLand
  <2>3. CASE HostFail BY <1>0, <2>3 DEF HostFail
  <2>4. CASE Publish BY <1>0, <2>4, WireType DEF Publish
  <2>5. CASE HostTick BY <1>0, <2>5, WireType DEF HostTick
  <2> QED BY <2>1, <2>2, <2>3, <2>4, <2>5
<1>2. {held', coming', board'} \subseteq Video \cup {None} /\ moves' \in Nat
  BY <1>0 DEF TypeOK, HostLoad, HostLand, HostFail, Publish, HostTick, Move, host
<1>3. UNCHANGED follower
  BY DEF HostLoad, HostLand, HostFail, Publish, HostTick
<1> QED BY <1>1, <1>2, <1>3 DEF TypeOK, Frames, follower, rest, history, guards, clocks

LEMMA LinkType ==
  ASSUME TypeOK, Reconnect \/ Welcomed
  PROVE  TypeOK'
<1> USE DEF host, rest, history, guards, clocks
<1>0. wire \in Seq(Frames) /\ board \in Video \cup {None} BY DEF TypeOK, Frames
<1>1. State(board) \in Frames BY <1>0, WireType
<1>2. CASE Reconnect
  <2>1. wire' \in Seq(Frames) BY <1>1, <1>2 DEF Reconnect
  <2>2. welcomed' \in BOOLEAN BY <1>2, Zenon DEF Reconnect
  <2>3. moves' \in Nat BY <1>2 DEF Reconnect, Move, TypeOK
  <2> QED BY <1>2, <2>1, <2>2, <2>3 DEF Reconnect, TypeOK, Frames
<1>3. CASE Welcomed
  <2>1. welcomed' \in BOOLEAN BY <1>3, Zenon DEF Welcomed
  <2>2. wire' \in Seq(Frames)
    <3>1. ASSUME NEW k \in 0..Len(wire)
          PROVE  Append(SubSeq(wire, k + 1, Len(wire)), State(board)) \in Seq(Frames)
      <4>1. SubSeq(wire, k + 1, Len(wire)) \in Seq(Frames)
        <5>1. k + 1 \in 1..(Len(wire) + 1) /\ Len(wire) \in k..Len(wire) BY <1>0
        <5> QED BY <1>0, <5>1, SubSeqProperties
      <4> QED BY <1>1, <4>1
    <3> QED BY <1>0, <1>3, <3>1 DEF Welcomed
  <2>3. {target', reconciled', pending', snap'} \subseteq Video \cup {None}
    BY <1>3 DEF Welcomed, TypeOK
  <2> QED BY <1>3, <2>1, <2>2, <2>3 DEF Welcomed, TypeOK, Frames
<1> QED BY <1>2, <1>3

LEMMA LoadEndType ==
  ASSUME TypeOK, Land \/ Fail \/ Render \/ \E v \in Video : SupersededEnds(v)
  PROVE  TypeOK'
<1> USE DEF host, guards, clocks, history
<1>0. run # NoLoad => run.vid \in Video /\ run.again \in BOOLEAN BY DEF TypeOK
<1>t. Finally(run) => target' \in Video \cup {None}
  BY DEF Finally, ForgetTarget, TypeOK
<1>1. CASE Land
  <2>1. painted' \in BOOLEAN /\ dressed' \in BOOLEAN BY <1>1, Zenon DEF Land
  <2>2. repeated' \in BOOLEAN BY <1>0, <1>1, Zenon DEF Land
  <2> QED BY <1>0, <1>t, <1>1, <2>1, <2>2 DEF Land, TypeOK
<1>2. CASE Fail BY <1>0, <1>t, <1>2 DEF Fail, TypeOK
<1>3. CASE Render
  <2>1. painted' \in BOOLEAN /\ dressed' \in {TRUE, dressed} BY <1>3, Zenon DEF Render
  <2>2. dressed' \in BOOLEAN BY <2>1 DEF TypeOK
  <2>3. reconciled' \in {loaded, reconciled} BY <1>3 DEF Render
  <2> QED BY <1>3, <2>1, <2>2, <2>3 DEF Render, TypeOK
<1>4. ASSUME NEW v \in Video, SupersededEnds(v) PROVE TypeOK'
  <2>1. stale' \in [Video -> Nat] BY <1>4 DEF SupersededEnds, TypeOK
  <2> QED BY <1>4, <2>1 DEF SupersededEnds, ForgetTarget, TypeOK
<1> QED BY <1>1, <1>2, <1>3, <1>4

LEMMA ReceiveType ==
  ASSUME TypeOK, Receive
  PROVE  TypeOK'
<1> USE DEF host, guards, clocks
<1>w. /\ wire # <<>> => Tail(wire) \in Seq(Frames)
      /\ wire # <<>> => Append(Tail(wire), State(board)) \in Seq(Frames)
  BY WireType
<1>1. ASSUME NEW v \in Video, OnLoad(v) PROVE TypeOK'
  <2>0. wire' \in Seq(Frames) BY <1>w, <1>1 DEF OnLoad, Arrives
  <2>1. CASE RunRoomLoad(v) /\ (deferring => UNCHANGED claim)
    BY <2>0, <1>1, <2>1, RunType DEF OnLoad, TypeOK, Frames, Loads
  <2>2. CASE UNCHANGED <<guards, run, stale, claim, loadAge, silent>>
    BY <2>0, <1>1, <2>2 DEF OnLoad, TypeOK, Frames
  <2> QED BY <1>1, <2>1, <2>2 DEF OnLoad
<1>2. ASSUME NEW v \in Video \cup {None}, OnState(v) PROVE TypeOK'
  <2>0. wire' \in Seq(Frames) BY <1>w, <1>2 DEF OnState, Arrives
  <2>1. CASE v # None /\ RunRoomLoad(v) /\ (deferring => UNCHANGED claim) /\ UNCHANGED dressed
    BY <2>0, <1>2, <2>1, RunType DEF OnState, TypeOK, Frames, Loads
  <2>2. CASE /\ UNCHANGED <<target, pending, run, stale, claim, loadAge, silent>>
             /\ reconciled' \in {v, reconciled} /\ dressed' \in BOOLEAN
    BY <2>0, <1>2, <2>2 DEF OnState, TypeOK, Frames
  <2> QED BY <1>2, <2>1, <2>2 DEF OnState, TypeOK
<1>3. ASSUME NEW v \in Video \cup {None}, OnTick(v) PROVE TypeOK'
  <2>0. wire' \in Seq(Frames) BY <1>w, <1>3 DEF OnTick, Arrives
  <2>1. CASE /\ v # None /\ RunRoomLoad(v) /\ (deferring => claim' \in {None, claim})
             /\ tryAge' = 0 /\ tries' = (IF tries = MaxTries THEN tries ELSE tries + 1)
    BY <2>0, <1>3, <2>1, RunType DEF OnTick, TypeOK, Frames, Loads, Age
  <2>2. CASE /\ UNCHANGED <<guards, run, stale, claim, loadAge, silent, tryAge>>
             /\ tries' \in {0, tries}
    BY <2>0, <1>3, <2>2 DEF OnTick, TypeOK, Frames
  <2> QED BY <1>3, <2>1, <2>2 DEF OnTick
<1> QED BY <1>1, <1>2, <1>3 DEF Receive

LEMMA ListenerType ==
  ASSUME TypeOK, Mute \/ Unmute \/ Pass
  PROVE  TypeOK'
<1> USE DEF host, guards, clocks, history
<1>1. CASE Mute
  <2>1. deferring' \in BOOLEAN /\ silent' \in BOOLEAN BY <1>1, Zenon DEF Mute
  <2> QED BY <1>1, <2>1 DEF Mute, TypeOK, Move
<1>2. CASE Unmute
  <2>0. deferring' \in BOOLEAN BY <1>2, Zenon DEF Unmute
  <2>1. CASE /\ pending # None /\ target' = pending /\ reconciled' = None /\ pending' = None
             /\ BeginLoad(pending, TRUE)
    <3>1. pending \in Video BY <2>1 DEF TypeOK
    <3>2. /\ run' \in [vid : Video, room : BOOLEAN, again : BOOLEAN]
          /\ stale' \in [Video -> Nat] /\ claim' = pending /\ loadAge' = 0 /\ silent' \in BOOLEAN
      BY <2>1, <3>1, BeginType, Zenon
    <3> QED BY <1>2, <2>0, <2>1, <3>1, <3>2 DEF Unmute, TypeOK, Age
  <2>2. CASE UNCHANGED <<guards, run, stale, claim, loadAge, silent>>
    BY <1>2, <2>0, <2>2 DEF Unmute, TypeOK
  <2> QED BY <1>2, <2>1, <2>2 DEF Unmute
<1>3. CASE Pass
  <2>1. loadAge' \in Age(Stuck) /\ tryAge' \in Age(Cap)
    BY <1>3 DEF Pass, Older, Age, TypeOK
  <2> QED BY <1>3, <2>1 DEF Pass, TypeOK
<1> QED BY <1>1, <1>2, <1>3

\* Every state of the follower is of its type: in particular the count of
\* superseded loads never goes below zero, each `finally' runs once.
THEOREM FollowTypeCorrect == Spec => []TypeOK
<1>1. Init => TypeOK
  <2> SUFFICES ASSUME Init PROVE TypeOK OBVIOUS
  <2>1. run \in Loads /\ claim \in Video \cup {None} /\ loadAge \in Age(Stuck)
    <3>1. run = NoLoad \/ \E v \in Video : run = [vid |-> v, room |-> FALSE, again |-> FALSE]
      BY DEF Init
    <3>2. run.vid \in Video \cup {None} BY <3>1 DEF NoLoad
    <3>b. FALSE \in BOOLEAN OBVIOUS
    <3>c. \A v \in Video, b, c \in BOOLEAN : [vid |-> v, room |-> b, again |-> c]
                                               \in [vid : Video, room : BOOLEAN, again : BOOLEAN]
      OBVIOUS
    <3>3. run \in Loads BY <3>1, <3>b, <3>c, Zenon DEF Loads
    <3>4. claim = run.vid /\ loadAge \in {Never, 0} BY DEF Init
    <3> QED BY <3>2, <3>3, <3>4 DEF Age
  <2>2. wire \in Seq(Frames) BY DEF Init, State, Frames
  <2>3. {painted, dressed, deferring, welcomed, repeated, silent} \subseteq BOOLEAN
    <3>1. painted \in BOOLEAN /\ dressed \in BOOLEAN /\ deferring \in BOOLEAN
          /\ welcomed \in BOOLEAN /\ repeated \in BOOLEAN
      BY Zenon DEF Init
    <3>2. silent \in BOOLEAN BY <3>1, Zenon DEF Init
    <3> QED BY <3>1, <3>2
  <2>4. stale \in [Video -> Nat] /\ tries \in 0..MaxTries /\ tryAge \in Age(Cap) /\ moves \in Nat
    BY DEF Init, Age
  <2>5. {held, coming, board, loaded, seen, target, claim, snap, reconciled, pending}
          \subseteq Video \cup {None}
    BY <2>1 DEF Init
  <2> QED BY <2>1, <2>2, <2>3, <2>4, <2>5 DEF TypeOK, Loads, Frames
<1>2. TypeOK /\ [Next]_vars => TypeOK'
  <2>1. TypeOK /\ UNCHANGED vars => TypeOK'
    BY DEF vars, host, guards, clocks, history, TypeOK
  <2> QED BY <2>1, HostType, LinkType, LoadEndType, ReceiveType, ListenerType DEF Next
<1> QED BY <1>1, <1>2, PTL DEF Spec

-----------------------------------------------------------------------------
(* The self-heal of a follower that renders sound.  Its claim is never     *)
(* taken by a superseded load, and an attempt starts a load, so the clock  *)
(* of the attempts never runs behind that of the load.  A muted passenger  *)
(* puts attempts off; all holds again with the next load that begins.      *)

AttemptsBeforeLoads ==
  tryAge # Never /\ loadAge # Never /\ ~silent => tryAge >= loadAge \/ tryAge = Cap
MutedIsSilent == deferring => silent
HealInv == MutedIsSilent /\ ClaimIsHonest /\ AttemptsBeforeLoads

\* Every load begins with an honest claim and a clock at zero.
LEMMA BeginHeals ==
  ASSUME TypeOK, NEW v \in Video, NEW room \in BOOLEAN, BeginLoad(v, room),
         tryAge' \in {0, tryAge}, ~deferring'
  PROVE  HealInv'
<1>1. ClaimIsHonest' BY DEF BeginLoad, ClaimIsHonest
<1>2. AttemptsBeforeLoads' BY DEF BeginLoad, AttemptsBeforeLoads, TypeOK, Age
<1>3. MutedIsSilent' BY DEF MutedIsSilent
<1> QED BY <1>1, <1>2, <1>3 DEF HealInv

LEMMA IdleHeals ==
  ASSUME HealInv, UNCHANGED <<run, claim, loadAge, tryAge, silent>>, deferring' => deferring
  PROVE  HealInv'
<1>1. MutedIsSilent' BY Zenon DEF HealInv, MutedIsSilent
<1>2. ClaimIsHonest' BY Zenon DEF HealInv, ClaimIsHonest
<1>3. AttemptsBeforeLoads' BY Zenon DEF HealInv, AttemptsBeforeLoads
<1> QED BY <1>1, <1>2, <1>3 DEF HealInv

\* Of a passenger that is muted, or was, only the claim says something.
LEMMA SilentHeals ==
  ASSUME HealInv, silent', UNCHANGED <<run, loadAge>>, claim' = claim \/ loadAge = Stuck
  PROVE  HealInv'
<1>1. MutedIsSilent' /\ AttemptsBeforeLoads' BY Zenon DEF MutedIsSilent, AttemptsBeforeLoads
<1>2. ClaimIsHonest' BY Zenon DEF HealInv, ClaimIsHonest
<1> QED BY <1>1, <1>2 DEF HealInv

LEMMA RoomLoadHeals ==
  ASSUME TypeOK, HealInv, NEW v \in Video, RunRoomLoad(v), tryAge' \in {0, tryAge},
         deferring' = deferring, deferring => claim' = claim \/ loadAge = Stuck
  PROVE  HealInv'
<1>1. CASE deferring
  <2>1. silent BY <1>1 DEF HealInv, MutedIsSilent
  <2>2. silent' = silent /\ UNCHANGED <<run, loadAge>> BY <1>1, Zenon DEF RunRoomLoad
  <2> QED BY <1>1, <2>1, <2>2, SilentHeals, Zenon
<1>2. CASE ~deferring
  <2>1. BeginLoad(v, TRUE) /\ ~deferring' BY <1>2 DEF RunRoomLoad
  <2>2. TRUE \in BOOLEAN OBVIOUS
  <2> QED BY <2>1, <2>2, BeginHeals, Zenon
<1> QED BY <1>1, <1>2

LEMMA HealStep ==
  ASSUME TypeOK, HealInv, [Next]_vars
  PROVE  HealInv'
<1> USE DEF host, guards, clocks, history
<1>1. CASE \/ \E v \in Video : HostLoad(v)
           \/ HostLand \/ HostFail \/ Publish \/ HostTick \/ Reconnect \/ Welcomed
  <2>1. UNCHANGED rest
    BY <1>1 DEF HostLoad, HostLand, HostFail, Publish, HostTick, Reconnect, Welcomed, follower
  <2>2. UNCHANGED <<run, claim, loadAge, tryAge, silent, deferring>> BY <2>1 DEF rest
  <2> QED BY <2>2, IdleHeals
<1>2. CASE Land \/ Fail
  <2>1. run' = NoLoad /\ UNCHANGED <<loadAge, tryAge, deferring, silent>>
    BY <1>2, Zenon DEF Land, Fail
  <2>2. MutedIsSilent' BY <2>1, Zenon DEF HealInv, MutedIsSilent
  <2>3. ClaimIsHonest' BY <2>1, Zenon DEF ClaimIsHonest
  <2>4. AttemptsBeforeLoads' BY <2>1, Zenon DEF HealInv, AttemptsBeforeLoads
  <2> QED BY <2>2, <2>3, <2>4 DEF HealInv
<1>3. CASE Render \/ \E v \in Video : SupersededEnds(v)
  <2>1. UNCHANGED <<run, claim, loadAge, tryAge, silent, deferring>>
    BY <1>3, Zenon DEF Render, SupersededEnds
  <2> QED BY <2>1, IdleHeals
<1>4. ASSUME NEW v \in Video, OnLoad(v) PROVE HealInv'
  <2>0. UNCHANGED <<deferring, tryAge>> BY <1>4, Zenon DEF OnLoad
  <2>1. CASE RunRoomLoad(v) /\ (deferring => UNCHANGED claim) BY <2>0, <2>1, RoomLoadHeals
  <2>2. CASE UNCHANGED <<run, claim, loadAge, silent>> BY <2>0, <2>2, IdleHeals
  <2> QED BY <1>4, <2>1, <2>2, Zenon DEF OnLoad
<1>5. ASSUME NEW v \in Video \cup {None}, OnState(v) PROVE HealInv'
  <2>0. UNCHANGED <<deferring, tryAge>> BY <1>5, Zenon DEF OnState
  <2>1. CASE v \in Video /\ RunRoomLoad(v) /\ (deferring => UNCHANGED claim)
    BY <2>0, <2>1, RoomLoadHeals
  <2>2. CASE UNCHANGED <<run, claim, loadAge, silent>> BY <2>0, <2>2, IdleHeals
  <2> QED BY <1>5, <2>1, <2>2 DEF OnState
<1>6. ASSUME NEW v \in Video \cup {None}, OnTick(v) PROVE HealInv'
  <2>0. UNCHANGED deferring BY <1>6, Zenon DEF OnTick
  <2>1. CASE v \in Video /\ RunRoomLoad(v) /\ tryAge' = 0
    <3>1. deferring => claim' = claim \/ Forces(v) BY <1>6, <2>1 DEF OnTick
    <3>2. Forces(v) => loadAge = Stuck
      BY FollowConstants DEF Forces, FlightAge, TypeOK, Age
    <3> QED BY <2>0, <2>1, <3>1, <3>2, RoomLoadHeals
  <2>2. CASE UNCHANGED <<run, claim, loadAge, tryAge, silent>> BY <2>0, <2>2, IdleHeals
  <2> QED BY <1>6, <2>1, <2>2 DEF OnTick
<1>7. CASE Mute
  <2>1. silent' = TRUE /\ UNCHANGED <<run, loadAge, claim>> BY <1>7, Zenon DEF Mute
  <2> QED BY <2>1, SilentHeals, Zenon
<1>8. CASE Unmute
  <2>0. ~deferring' /\ UNCHANGED tryAge BY <1>8, Zenon DEF Unmute
  <2>1. CASE pending # None /\ BeginLoad(pending, TRUE)
    <3>1. pending \in Video /\ TRUE \in BOOLEAN BY <2>1 DEF TypeOK
    <3>2. tryAge' \in {0, tryAge} BY <2>0
    <3> QED BY <2>0, <2>1, <3>1, <3>2, BeginHeals, Zenon
  <2>2. CASE UNCHANGED <<run, claim, loadAge, silent>> BY <2>0, <2>2, IdleHeals
  <2> QED BY <1>8, <2>1, <2>2, Zenon DEF Unmute
<1>9. CASE Pass
  <2>0. loadAge \in Age(Stuck) /\ tryAge \in Age(Cap) BY DEF TypeOK
  <2>1. UNCHANGED <<run, claim, silent, deferring>> BY <1>9, Zenon DEF Pass
  <2>2. AttemptsBeforeLoads'
    BY <2>0, <1>9 DEF Pass, Older, AttemptsBeforeLoads, HealInv, Age
  <2>3. MutedIsSilent' BY <2>1, Zenon DEF HealInv, MutedIsSilent
  <2>4. loadAge = Stuck => loadAge' = Stuck BY <1>9, Zenon DEF Pass, Older
  <2>5. ClaimIsHonest' BY <2>1, <2>4, Zenon DEF HealInv, ClaimIsHonest
  <2> QED BY <2>2, <2>3, <2>5 DEF HealInv
<1>10. CASE UNCHANGED vars
  <2>1. UNCHANGED <<run, claim, loadAge, tryAge, silent, deferring>> BY <1>10, Zenon DEF vars
  <2> QED BY <2>1, IdleHeals
<1> QED BY <1>1, <1>2, <1>3, <1>4, <1>5, <1>6, <1>7, <1>8, <1>9, <1>10 DEF Next, Receive

LEMMA HealInvHolds == Spec => []HealInv
<1>1. Init => HealInv
  <2>1. Init => MutedIsSilent BY Zenon DEF Init, MutedIsSilent
  <2>2. Init => ClaimIsHonest /\ AttemptsBeforeLoads
    BY DEF Init, ClaimIsHonest, AttemptsBeforeLoads
  <2> QED BY <2>1, <2>2 DEF HealInv
<1>2. TypeOK /\ HealInv /\ [Next]_vars => HealInv' BY HealStep
<1> QED BY <1>1, <1>2, FollowTypeCorrect, PTL DEF Spec

\* A deck whose load is running says so, however many superseded loads of the
\* same track are still to end (App/loadClaim.ts).
THEOREM TheClaimIsHonest == Spec => []ClaimIsHonest
<1>1. HealInv => ClaimIsHonest BY DEF HealInv
<1> QED BY <1>1, HealInvHolds, PTL

\* The livelock of a follower that restarts its own load on every tick is gone:
\* only a stuck load is cancelled by a tick of the track it loads.
THEOREM LiveLoadsAreKept == Spec => NoLiveLoadCancelled
<1> DEFINE Kept == \A v \in Video :
             OnTick(v) /\ run.vid = v => stale' = stale \/ FlightAge >= Stuck
<1>1. TypeOK /\ HealInv /\ [Next]_vars => [Kept]_vars
  <2> SUFFICES ASSUME HealInv, NEW v \in Video, OnTick(v), run.vid = v, stale' # stale
               PROVE  FlightAge >= Stuck
    OBVIOUS
  <2>1. claim = v \/ loadAge = Stuck
    <3>1. run # NoLoad BY FollowConstants DEF NoLoad
    <3> QED BY <3>1 DEF HealInv, ClaimIsHonest
  <2>2. CASE loadAge = Stuck
    BY <2>2, FollowConstants DEF FlightAge
  <2>3. CASE claim = v
    <3>1. Forces(v) \/ Retries(v) BY DEF OnTick
    <3>2. InFlight(v) BY <2>3 DEF InFlight
    <3> QED BY <3>1, <3>2 DEF Forces, Retries
  <2> QED BY <2>1, <2>2, <2>3
<1> QED BY <1>1, FollowTypeCorrect, HealInvHolds, PTL DEF Spec, NoLiveLoadCancelled

\* The back-off never falls below its floor.
LEMMA BackoffFloor ==
  ASSUME NEW n \in 0..MaxTries
  PROVE  Backoff(n) \in Nat /\ Backoff(n) >= Retry
<1>1. n >= 2 => 2^(n - 1) \in Nat \ {0} OBVIOUS
<1>2. ASSUME NEW k \in Nat \ {0} PROVE Retry * k \in Nat /\ Retry * k >= Retry
  <2>1. Retry * k = Retry + Retry * (k - 1) OBVIOUS
  <2>2. Retry * (k - 1) \in Nat OBVIOUS
  <2> QED BY <2>1, <2>2
<1> QED BY <1>1, <1>2 DEF Backoff

\* Attempts of the self-heal on one deck are at least RESYNC_RETRY_MS apart, for
\* every back-off whose floor is no longer than the stuck bound, and for a passenger
\* that was muted from the next load it begins.
THEOREM AttemptsKeepTheirDistance == Spec => AttemptsAreSpaced
<1> DEFINE Spaced == \A v \in Video : Attempts(v) /\ tryAge # Never /\ ~silent => tryAge >= Retry
<1>1. TypeOK /\ HealInv /\ [Next]_vars => [Spaced]_vars
  <2> SUFFICES ASSUME TypeOK, HealInv, NEW v \in Video, Attempts(v), tryAge # Never, ~silent
               PROVE  tryAge >= Retry
    OBVIOUS
  <2>0. tryAge \in 0..Cap BY DEF TypeOK, Age
  <2>1. CASE Forces(v)
    <3>1. loadAge # Never /\ loadAge >= Stuck BY <2>1 DEF Forces, FlightAge
    <3> QED BY <2>0, <3>1 DEF HealInv, AttemptsBeforeLoads, TypeOK, Age
  <2>2. CASE Retries(v)
    BY <2>0, <2>2, BackoffFloor DEF Retries, TypeOK
  <2> QED BY <2>1, <2>2 DEF Attempts
<1> QED BY <1>1, FollowTypeCorrect, HealInvHolds, PTL DEF Spec, AttemptsAreSpaced
-----------------------------------------------------------------------------
(* The board's discrete state.  A load that is not of a track the deck     *)
(* holds or shows is of none that is marked reconciled either, and stays   *)
(* so: only what is shown is marked, and only what lands comes to be       *)
(* shown.  So its landing is open until the next render.                   *)

RenderedIsSeen == painted => seen = loaded
LoadsAreNew == run # NoLoad /\ ~run.again => run.vid \notin {loaded, seen, reconciled}
LandingIsOpen == ~painted /\ ~repeated => loaded \notin {None, seen, reconciled}
ReconciledIsDressed == painted /\ ~repeated /\ loaded # None /\ reconciled = loaded => dressed

DressInv ==
  /\ RenderedIsSeen /\ LoadsAreNew /\ LandingIsOpen /\ ReconciledIsDressed
  /\ BoardReachesDeck

\* A step that renders nothing, lands nothing and reconciles nothing.
LEMMA UndressedStep ==
  ASSUME DressInv, UNCHANGED <<loaded, seen, painted, dressed, snap, reconciled, repeated>>,
         run' \in {run, NoLoad}
  PROVE  DressInv'
<1>1. RenderedIsSeen' BY Zenon DEF DressInv, RenderedIsSeen
<1>5. LandingIsOpen' BY Zenon DEF DressInv, LandingIsOpen
<1>2. LoadsAreNew' BY DEF DressInv, LoadsAreNew
<1>3. ReconciledIsDressed' BY Zenon DEF DressInv, ReconciledIsDressed
<1>4. BoardReachesDeck' BY Zenon DEF DressInv, BoardReachesDeck
<1> QED BY <1>1, <1>2, <1>3, <1>4, <1>5 DEF DressInv

\* The mark is cleared, with or without a load that begins: whatever the load is of,
\* `again' says whether the deck held or showed it.
LEMMA RearmedDresses ==
  ASSUME TypeOK, DressInv, reconciled' = None,
         UNCHANGED <<loaded, seen, painted, dressed, repeated>>,
         painted /\ loaded # None /\ snap' = loaded => snap = loaded,
         \/ run' = run
         \/ \E v \in Video, room \in BOOLEAN :
              run' = [vid |-> v, room |-> room, again |-> v \in {loaded, seen}]
  PROVE  DressInv'
<1>1. RenderedIsSeen' BY Zenon DEF DressInv, RenderedIsSeen
<1>2. LandingIsOpen'
  <2> SUFFICES ASSUME ~painted', ~repeated' PROVE loaded' \notin {None, seen', reconciled'}
    BY Zenon DEF LandingIsOpen
  <2>1. loaded \notin {None, seen, reconciled} BY Zenon DEF DressInv, LandingIsOpen
  <2> QED BY <2>1
<1>3. LoadsAreNew'
  <2> SUFFICES ASSUME run' # NoLoad, ~run'.again
               PROVE  run'.vid \notin {loaded', seen', reconciled'}
    BY DEF LoadsAreNew
  <2>1. CASE run' = run
    <3>1. run.vid \notin {loaded, seen, reconciled} BY <2>1 DEF DressInv, LoadsAreNew
    <3>2. run.vid \in Video BY <2>1 DEF TypeOK, NoLoad
    <3> QED BY <2>1, <3>1, <3>2
  <2>2. ASSUME NEW v \in Video, NEW room \in BOOLEAN,
               run' = [vid |-> v, room |-> room, again |-> v \in {loaded, seen}]
        PROVE  run'.vid \notin {loaded', seen', reconciled'}
    BY <2>2
  <2> QED BY <2>1, <2>2
<1>4. ReconciledIsDressed' BY Zenon DEF ReconciledIsDressed
<1>5. BoardReachesDeck' BY Zenon DEF DressInv, BoardReachesDeck
<1> QED BY <1>1, <1>2, <1>3, <1>4, <1>5 DEF DressInv

\* A load the session starts of a track that is not shown.
LEMMA RoomLoadDresses ==
  ASSUME TypeOK, DressInv, NEW v \in Video, v # seen, RunRoomLoad(v),
         UNCHANGED <<loaded, seen, painted, dressed, repeated>>, snap' \in {snap, v}
  PROVE  DressInv'
<1>1. reconciled' = None BY DEF RunRoomLoad
<1>2. painted => seen = loaded BY DEF DressInv, RenderedIsSeen
<1>3. painted /\ loaded # None /\ snap' = loaded => snap = loaded BY <1>2
<1>4. \/ run' = run
      \/ \E w \in Video, room \in BOOLEAN :
           run' = [vid |-> w, room |-> room, again |-> w \in {loaded, seen}]
  <2>1. CASE deferring BY <2>1 DEF RunRoomLoad
  <2>2. CASE ~deferring
    <3>1. run' = [vid |-> v, room |-> TRUE, again |-> v \in {loaded, seen}]
      BY <2>2 DEF RunRoomLoad, BeginLoad
    <3> QED BY <3>1
  <2> QED BY <2>1, <2>2
<1> QED BY <1>1, <1>3, <1>4, RearmedDresses, Zenon

LEMMA LandingDresses ==
  ASSUME TypeOK, DressInv, Land
  PROVE  DressInv'
<1>1. ~painted' BY Zenon DEF Land
<1>2. /\ run # NoLoad /\ run' = NoLoad /\ loaded' = run.vid /\ reconciled' = reconciled
      /\ seen' = seen /\ repeated' = run.again
  BY Zenon DEF Land
<1>3. LandingIsOpen'
  <2> SUFFICES ASSUME ~repeated' PROVE loaded' \notin {None, seen', reconciled'}
    BY Zenon DEF LandingIsOpen
  <2>1. run.vid \notin {loaded, seen, reconciled} BY <1>2, Zenon DEF DressInv, LoadsAreNew
  <2>2. run.vid \in Video BY <1>2 DEF TypeOK
  <2> QED BY <1>2, <2>1, <2>2
<1>4. LoadsAreNew' BY <1>2 DEF LoadsAreNew
<1>5. RenderedIsSeen' /\ ReconciledIsDressed' /\ BoardReachesDeck'
  BY <1>1, Zenon DEF RenderedIsSeen, ReconciledIsDressed, BoardReachesDeck
<1> QED BY <1>3, <1>4, <1>5 DEF DressInv

LEMMA RenderDresses ==
  ASSUME TypeOK, DressInv, Render
  PROVE  DressInv'
<1>0. /\ ~painted /\ painted' /\ seen' = loaded
      /\ UNCHANGED <<loaded, run, snap, repeated>>
  BY Zenon DEF Render, history
<1>1. ~repeated => reconciled # loaded BY <1>0, Zenon DEF DressInv, LandingIsOpen
<1>2. \/ reconciled' = loaded /\ dressed'
      \/ /\ ~(loaded # None /\ snap = loaded /\ reconciled # loaded)
         /\ reconciled' = reconciled
  BY Zenon DEF Render
<1>3. RenderedIsSeen' BY <1>0, Zenon DEF RenderedIsSeen
<1>4. LandingIsOpen' BY <1>0, Zenon DEF LandingIsOpen
<1>5. LoadsAreNew'
  <2> SUFFICES ASSUME run' # NoLoad, ~run'.again
               PROVE  run'.vid \notin {loaded', seen', reconciled'}
    BY DEF LoadsAreNew
  <2>1. run.vid \notin {loaded, seen, reconciled} BY <1>0, Zenon DEF DressInv, LoadsAreNew
  <2>2. reconciled' \in {loaded, reconciled} BY <1>2
  <2> QED BY <1>0, <2>1, <2>2
<1>6. ReconciledIsDressed' BY <1>0, <1>1, <1>2, Zenon DEF ReconciledIsDressed
<1>7. BoardReachesDeck' BY <1>0, <1>1, <1>2, Zenon DEF BoardReachesDeck
<1> QED BY <1>3, <1>4, <1>5, <1>6, <1>7 DEF DressInv

LEMMA FrameDresses ==
  ASSUME TypeOK, DressInv, Receive
  PROVE  DressInv'
<1> USE DEF guards, clocks
<1>1. ASSUME NEW v \in Video, OnLoad(v) PROVE DressInv'
  <2>0. UNCHANGED <<loaded, seen, snap, painted, dressed, repeated>> BY <1>1, Zenon DEF OnLoad
  <2>1. CASE v # seen /\ RunRoomLoad(v) BY <2>0, <2>1, RoomLoadDresses
  <2>2. CASE UNCHANGED <<run, reconciled>> BY <2>0, <2>2, UndressedStep
  <2> QED BY <1>1, <2>1, <2>2 DEF OnLoad
<1>2. ASSUME NEW v \in Video \cup {None}, OnTick(v) PROVE DressInv'
  <2>0. UNCHANGED <<loaded, seen, snap, painted, dressed, repeated>> BY <1>2, Zenon DEF OnTick
  <2>1. CASE v \in Video /\ v # seen /\ RunRoomLoad(v) BY <2>0, <2>1, RoomLoadDresses
  <2>2. CASE UNCHANGED <<run, reconciled>> BY <2>0, <2>2, UndressedStep
  <2> QED BY <1>2, <2>1, <2>2 DEF OnTick
<1>3. ASSUME NEW v \in Video \cup {None}, OnState(v) PROVE DressInv'
  <2>0. UNCHANGED <<loaded, seen, painted, repeated>> /\ snap' = v BY <1>3, Zenon DEF OnState
  <2>1. CASE v \in Video /\ v # seen /\ RunRoomLoad(v) /\ UNCHANGED dressed
    BY <2>0, <2>1, RoomLoadDresses
  <2>2. CASE /\ v # None /\ v = seen /\ reconciled' = v /\ UNCHANGED run
             /\ dressed' = (dressed \/ loaded = v)
    <3>1. painted => seen = loaded BY DEF DressInv, RenderedIsSeen
    <3>2. painted => dressed' BY <2>2, <3>1
    <3>3. RenderedIsSeen' BY <2>0, Zenon DEF DressInv, RenderedIsSeen
    <3>4. LandingIsOpen'
      <4> SUFFICES ASSUME ~painted', ~repeated' PROVE loaded' \notin {None, seen', reconciled'}
        BY Zenon DEF LandingIsOpen
      <4>1. loaded \notin {None, seen, reconciled} BY <2>0, Zenon DEF DressInv, LandingIsOpen
      <4> QED BY <2>0, <2>2, <4>1
    <3>5. LoadsAreNew' BY <2>0, <2>2 DEF DressInv, LoadsAreNew
    <3>6. ReconciledIsDressed' /\ BoardReachesDeck'
      BY <2>0, <3>2, Zenon DEF ReconciledIsDressed, BoardReachesDeck
    <3> QED BY <3>3, <3>4, <3>5, <3>6 DEF DressInv
  <2>3. CASE UNCHANGED <<run, reconciled, dressed>> /\ ~(v # None /\ v = seen /\ reconciled # v)
    <3>1. RenderedIsSeen' BY <2>0, Zenon DEF DressInv, RenderedIsSeen
    <3>2. LandingIsOpen' BY <2>0, <2>3, Zenon DEF DressInv, LandingIsOpen
    <3>3. LoadsAreNew' BY <2>0, <2>3, Zenon DEF DressInv, LoadsAreNew
    <3>4. ReconciledIsDressed' BY <2>0, <2>3, Zenon DEF DressInv, ReconciledIsDressed
    <3>5. painted => seen = loaded BY DEF DressInv, RenderedIsSeen
    <3>6. painted /\ loaded # None /\ v = loaded => reconciled = loaded BY <2>3, <3>5
    <3>7. BoardReachesDeck'
      BY <2>0, <2>3, <3>6, Zenon DEF DressInv, ReconciledIsDressed, BoardReachesDeck
    <3> QED BY <3>1, <3>2, <3>3, <3>4, <3>7 DEF DressInv
  <2> QED BY <1>3, <2>1, <2>2, <2>3 DEF OnState
<1> QED BY <1>1, <1>2, <1>3 DEF Receive

LEMMA DressStep ==
  ASSUME TypeOK, DressInv, [Next]_vars
  PROVE  DressInv'
<1> USE DEF host, guards, clocks, history
<1>1. CASE \/ \E v \in Video : HostLoad(v)
           \/ HostLand \/ HostFail \/ Publish \/ HostTick \/ Reconnect
  <2>1. /\ UNCHANGED <<loaded, seen, painted, dressed, snap, reconciled, repeated>>
        /\ run' = run
    BY <1>1, Zenon
    DEF HostLoad, HostLand, HostFail, Publish, HostTick, Reconnect, follower, rest
  <2> QED BY <2>1, UndressedStep
<1>2. CASE Welcomed
  <2>0. UNCHANGED <<loaded, seen, painted, dressed, repeated, run>>
    BY <1>2, Zenon DEF Welcomed, rest
  <2>1. CASE UNCHANGED <<snap, reconciled>> BY <2>0, <2>1, UndressedStep
  <2>2. CASE snap' = None /\ reconciled' = None BY <2>0, <2>2, RearmedDresses
  <2> QED BY <1>2, <2>1, <2>2, Zenon DEF Welcomed
<1>3. CASE Land BY <1>3, LandingDresses
<1>4. CASE Render BY <1>4, RenderDresses
<1>5. CASE Receive BY <1>5, FrameDresses
<1>6. CASE Fail \/ Pass \/ Mute \/ \E v \in Video : SupersededEnds(v)
  <2>1. /\ UNCHANGED <<loaded, seen, painted, dressed, snap, reconciled, repeated>>
        /\ run' = run \/ run' = NoLoad
    BY <1>6, Zenon DEF Fail, Pass, Mute, SupersededEnds
  <2> QED BY <2>1, UndressedStep
<1>7. CASE Unmute
  <2>0. UNCHANGED <<loaded, seen, painted, dressed, snap, repeated>> BY <1>7, Zenon DEF Unmute
  <2>1. CASE UNCHANGED <<run, reconciled>> BY <2>0, <2>1, UndressedStep
  <2>2. CASE pending # None /\ reconciled' = None /\ BeginLoad(pending, TRUE)
    <3>1. pending \in Video BY <2>2 DEF TypeOK
    <3>2. run' = [vid |-> pending, room |-> TRUE, again |-> pending \in {loaded, seen}]
      BY <2>2 DEF BeginLoad
    <3>3. \E w \in Video, room \in BOOLEAN :
            run' = [vid |-> w, room |-> room, again |-> w \in {loaded, seen}]
      BY <3>1, <3>2
    <3> QED BY <2>0, <2>2, <3>3, RearmedDresses, Zenon
  <2> QED BY <1>7, <2>1, <2>2, Zenon DEF Unmute
<1>8. CASE UNCHANGED vars
  <2>1. /\ UNCHANGED <<loaded, seen, painted, dressed, snap, reconciled, repeated>>
        /\ run' = run
    BY <1>8, Zenon DEF vars
  <2> QED BY <2>1, UndressedStep
<1> QED BY <1>1, <1>2, <1>3, <1>4, <1>5, <1>6, <1>7, <1>8 DEF Next

\* A follower shows no track without the discrete state of the board it was
\* published with, wherever the snapshot fell in the loading and whatever came
\* before the render of its landing, but for a load of what was on the deck.
THEOREM TheBoardReachesTheDeck == Spec => []BoardReachesDeck
<1>1. Init => DressInv
  <2> SUFFICES ASSUME Init PROVE DressInv
    OBVIOUS
  <2>1. /\ loaded = None /\ seen = None /\ reconciled = None /\ painted = TRUE
        /\ \/ run = NoLoad
           \/ \E v \in Video : run = [vid |-> v, room |-> FALSE, again |-> FALSE]
    BY DEF Init
  <2>2. LoadsAreNew
    <3> SUFFICES ASSUME run # NoLoad PROVE run.vid \notin {loaded, seen, reconciled}
      BY DEF LoadsAreNew
    <3>1. PICK v \in Video : run = [vid |-> v, room |-> FALSE, again |-> FALSE] BY <2>1
    <3> QED BY <2>1, <3>1
  <2>3. RenderedIsSeen /\ LandingIsOpen BY <2>1 DEF RenderedIsSeen, LandingIsOpen
  <2> QED BY <2>1, <2>2, <2>3 DEF DressInv, ReconciledIsDressed, BoardReachesDeck
<1>2. TypeOK /\ DressInv /\ [Next]_vars => DressInv' BY DressStep
<1>3. DressInv => BoardReachesDeck BY DEF DressInv
<1> QED BY <1>1, <1>2, <1>3, FollowTypeCorrect, PTL DEF Spec
=============================================================================
