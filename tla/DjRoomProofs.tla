---------------------------- MODULE DjRoomProofs ----------------------------
(* What DjRoom guarantees for every set of devices, sockets and decks.     *)
EXTENDS DjRoom, TLAPS

USE RoomConstants

-----------------------------------------------------------------------------
(* The clock only moves to devices the room knows.                         *)

LEMMA NextAnchorIsMember ==
  ASSUME NEW c \in [Sock -> Attachment], NEW d, NEW a \in NextAnchor(c, d)
  PROVE  \/ a = NoOne
         \/ \E s \in Sock : /\ c[s].device = a /\ a \in Device /\ a # d
                            /\ c[s].joined /\ ~c[s].pub /\ ~c[s].stage
<1> DEFINE able == {s \in Sock : /\ c[s].device \notin {NoOne, d}
                                 /\ c[s].joined /\ ~c[s].pub /\ ~c[s].stage}
           drivers == {s \in able : c[s].decks # {}}
           hosts == {s \in able : c[s].host}
           Desktops(S) == {s \in S : c[s].device \notin Mobile}
           best == Or(Desktops(drivers), Or(drivers, Or(Desktops(hosts), Or(hosts, able))))
<1>1. best \subseteq able BY DEF Or
<1>2. a \in Or({c[s].device : s \in best}, {NoOne}) BY DEF NextAnchor
<1>3. a = NoOne \/ \E s \in best : c[s].device = a BY <1>2 DEF Or
<1> QED BY <1>1, <1>3 DEF Attachment

LEMMA SettledType ==
  ASSUME TypeOK, NEW c \in [Sock -> Attachment], NEW d \in Device
  PROVE  Settled(c, d) \subseteq Device \cup {NoOne}
BY NextAnchorIsMember DEF Settled, TypeOK

\* Every rewrite a handler makes of an attachment leaves an attachment.
LEMMA PatchType ==
  ASSUME NEW a \in Attachment, NEW j \in BOOLEAN, NEW n \in BOOLEAN,
         NEW D \in SUBSET Deck, NEW k \in Deck \cup {NoOne}
  PROVE  /\ [a EXCEPT !.joined = j, !.pending = n] \in Attachment
         /\ [a EXCEPT !.decks = D] \in Attachment
         /\ [a EXCEPT !.stageReq = k] \in Attachment
         /\ [a EXCEPT !.open = j] \in Attachment
         /\ [a EXCEPT !.pub = FALSE, !.joined = TRUE, !.decks = D,
                      !.stage = TRUE, !.stageReq = NoOne] \in Attachment
         /\ [a EXCEPT !.pub = TRUE, !.joined = TRUE, !.decks = {},
                      !.stage = FALSE, !.stageReq = NoOne] \in Attachment
         /\ [a EXCEPT !.joined = FALSE, !.decks = {},
                      !.stage = FALSE, !.stageReq = NoOne] \in Attachment
BY DEF Attachment

LEMMA ClosedType ==
  ASSUME NEW c \in [Sock -> Attachment], NEW S
  PROVE  Closed(c, S) \in [Sock -> Attachment]
BY DEF Closed, Attachment

LEMMA IdleType == Idle \in Attachment
BY DEF Idle, Attachment

LEMMA FreshType ==
  ASSUME NEW d \in Device, NEW door \in Door
  PROVE  Fresh(d, door) \in Attachment
BY DEF Fresh, Attachment, Door

-----------------------------------------------------------------------------
(* Type correctness.                                                       *)

LEMMA EvictType ==
  ASSUME TypeOK, NEW d \in Device, Evict(d)
  PROVE  conn' \in [Sock -> Attachment] /\ anchor' \in Device \cup {NoOne}
<1>1. conn' \in [Sock -> Attachment] BY ClosedType DEF Evict, TypeOK
<1> QED BY <1>1, NextAnchorIsMember DEF Evict, TypeOK

LEMMA PromoteType ==
  ASSUME TypeOK, NEW d \in Device, NEW k \in Deck, PromoteToStage(d, k)
  PROVE  conn' \in [Sock -> Attachment] /\ anchor' \in Device \cup {NoOne} /\ grants' = grants
<1>1. {k} \in SUBSET Deck OBVIOUS
<1>2. \A a \in Attachment : [a EXCEPT !.pub = FALSE, !.joined = TRUE, !.decks = {k},
                             !.stage = TRUE, !.stageReq = NoOne] \in Attachment
  BY <1>1, PatchType
<1>3. conn' \in [Sock -> Attachment] BY <1>2 DEF PromoteToStage, TypeOK
<1> QED BY <1>3, SettledType DEF PromoteToStage, TypeOK

LEMMA FloorType ==
  ASSUME TypeOK, NEW d \in Device, ReturnToFloor(d)
  PROVE  conn' \in [Sock -> Attachment] /\ anchor' \in Device \cup {NoOne} /\ grants' \subseteq Device
<1>1. conn' \in [Sock -> Attachment] BY PatchType DEF ReturnToFloor, TypeOK
<1> QED BY <1>1, NextAnchorIsMember DEF ReturnToFloor, TypeOK

LEMMA FrameType ==
  ASSUME TypeOK, NEW s \in Sock, Frame(s)
  PROVE  TypeOK'
<1> USE DEF durable
<1>0. Speaks(s) => conn[s].device \in Device BY DEF Speaks, TypeOK, Attachment
<1>1. CASE Join(s)
  <2>1. conn' \in [Sock -> Attachment]
    <3>1. PICK j \in BOOLEAN, n \in BOOLEAN :
            conn' = [conn EXCEPT ![s].joined = j, ![s].pending = n]
      BY <1>1 DEF Join
    <3>2. [conn[s] EXCEPT !.joined = j, !.pending = n] \in Attachment
      BY PatchType DEF TypeOK
    <3>3. conn' = [conn EXCEPT ![s] = [conn[s] EXCEPT !.joined = j, !.pending = n]]
      BY <3>1 DEF TypeOK
    <3> QED BY <3>2, <3>3 DEF TypeOK
  <2> QED BY <1>0, <1>1, <2>1, SettledType DEF Join, Writes, TypeOK
<1>2. CASE Listen(s)
  BY <1>0, <1>2, SettledType DEF Listen, Writes, TypeOK
<1>3. CASE StepDown(s)
  <2>1. CASE ReturnToFloor(conn[s].device)
    BY <1>0, <1>3, <2>1, FloorType DEF StepDown, TypeOK
  <2>2. CASE conn' = [conn EXCEPT ![s].stageReq = NoOne] /\ UNCHANGED <<anchor, grants>>
    <3>1. conn' \in [Sock -> Attachment] BY <2>2 DEF TypeOK, Attachment
    <3> QED BY <1>3, <2>2, <3>1 DEF StepDown, TypeOK
  <2> QED BY <1>3, <2>1, <2>2 DEF StepDown
<1>4. CASE Leave(s)
  <2>1. conn' \in [Sock -> Attachment] BY <1>4, PatchType DEF Leave, TypeOK
  <2> QED BY <1>0, <1>4, <2>1, SettledType DEF Leave, TypeOK
<1>5. ASSUME NEW on \in BOOLEAN, Control(s, on) PROVE TypeOK'
  <2>1. conn' \in [Sock -> Attachment] BY <1>5 DEF Control, TypeOK, Attachment
  <2>2. anchor' \in Device \cup {NoOne} BY <1>0, <1>5, <2>1, SettledType DEF Control, Writes
  <2>3. UNCHANGED <<isPublic, durable, grace, refused>> BY <1>5 DEF Control
  <2> QED BY <2>1, <2>2, <2>3 DEF TypeOK
<1>6. ASSUME NEW on \in BOOLEAN, Publish(s, on) PROVE TypeOK'
  <2>1. CASE EndBroadcast
    <3>1. conn' \in [Sock -> Attachment] BY <2>1, ClosedType DEF EndBroadcast, TypeOK
    <3> QED BY <1>6, <2>1, <3>1 DEF Publish, EndBroadcast, TypeOK
  <2>2. CASE isPublic' = TRUE /\ UNCHANGED conn
    BY <1>6, <2>2 DEF Publish, TypeOK
  <2> QED BY <1>6, <2>1, <2>2 DEF Publish
<1>7. ASSUME NEW k \in Deck, AskForDeck(s, k) PROVE TypeOK'
  <2>1. CASE PromoteToStage(conn[s].device, k)
    BY <1>0, <1>7, <2>1, PromoteType DEF AskForDeck, TypeOK
  <2>2. CASE conn' = [conn EXCEPT ![s].stageReq = k] /\ UNCHANGED <<anchor, grants>>
    <3>1. conn' \in [Sock -> Attachment] BY <2>2 DEF TypeOK, Attachment
    <3> QED BY <1>7, <2>2, <3>1 DEF AskForDeck, TypeOK
  <2> QED BY <1>7, <2>1, <2>2 DEF AskForDeck
<1>8. ASSUME NEW m \in Gates, SetStageGate(s, m) PROVE TypeOK'
  BY <1>8 DEF SetStageGate, TypeOK
<1>9. ASSUME NEW d \in Device, Approve(s, d) PROVE TypeOK'
  <2>1. conn' \in [Sock -> Attachment] BY <1>9, PatchType DEF Approve, TypeOK
  <2> QED BY <1>9, <2>1, SettledType DEF Approve, TypeOK
<1>10. ASSUME NEW d \in Device, Deny(s, d) \/ Kick(s, d) \/ Ban(s, d) PROVE TypeOK'
  BY <1>10, EvictType DEF Deny, Kick, Ban, TypeOK
<1>11. ASSUME NEW d \in Device, StageDeny(s, d) PROVE TypeOK'
  BY <1>11, FloorType DEF StageDeny, TypeOK
<1>12. ASSUME NEW d \in Device, NEW on \in BOOLEAN, Grant(s, d, on) PROVE TypeOK'
  <2>1. conn' \in [Sock -> Attachment] BY <1>12, PatchType DEF Grant, TypeOK
  <2> QED BY <1>12, <2>1, SettledType DEF Grant, TypeOK
<1>13. ASSUME NEW d \in Device, NEW k \in Deck, StageApprove(s, d, k) PROVE TypeOK'
  BY <1>13, PromoteType DEF StageApprove, TypeOK
<1> QED BY <1>1, <1>2, <1>3, <1>4, <1>5, <1>6, <1>7, <1>8, <1>9, <1>10, <1>11, <1>12, <1>13
       DEF Frame

LEMMA SocketGoneType ==
  ASSUME TypeOK, NEW s \in Sock, SocketGone(s)
  PROVE  TypeOK'
<1>1. conn[s].device \in Device BY DEF SocketGone, TypeOK, Attachment
<1>2. conn' \in [Sock -> Attachment] BY IdleType DEF SocketGone, TypeOK
<1>3. anchor' \in Device \cup {NoOne}
  BY <1>1, <1>2, NextAnchorIsMember DEF SocketGone, TypeOK
<1>4. grace' \in Device \cup {NoOne} BY <1>1 DEF SocketGone, TypeOK
<1> QED BY <1>2, <1>3, <1>4 DEF SocketGone, TypeOK, durable

LEMMA GraceType ==
  ASSUME TypeOK, GraceExpires
  PROVE  TypeOK'
<1>1. conn' \in [Sock -> Attachment] BY ClosedType DEF GraceExpires, EndBroadcast, TypeOK
<1>2. anchor' \in Device \cup {NoOne} BY NextAnchorIsMember DEF GraceExpires, TypeOK
<1>3. isPublic' \in BOOLEAN BY DEF GraceExpires, EndBroadcast, TypeOK
<1> QED BY <1>1, <1>2, <1>3 DEF GraceExpires, TypeOK, durable

\* Every state of the room has the declared shape.
THEOREM TypeCorrect == Spec => []TypeOK
<1>1. Init => TypeOK BY IdleType DEF Init, TypeOK, StageGate
<1>2. TypeOK /\ [Next]_vars => TypeOK'
  <2> SUFFICES ASSUME TypeOK, [Next]_vars PROVE TypeOK'
    OBVIOUS
  <2>1. ASSUME NEW d \in Device, NEW s \in Sock, NEW door \in Door, Connect(s, d, door)
        PROVE TypeOK'
    <3>1. conn' \in [Sock -> Attachment]
      BY <2>1, ClosedType, FreshType DEF Connect, TypeOK
    <3> QED BY <2>1, <3>1 DEF Connect, TypeOK, durable
  <2>2. ASSUME NEW d \in Device, TurnAway(d) \/ RefusedGone(d) PROVE TypeOK'
    BY <2>2 DEF TurnAway, RefusedGone, TypeOK, durable
  <2>3. ASSUME NEW s \in Sock, Frame(s) PROVE TypeOK' BY <2>3, FrameType
  <2>4. ASSUME NEW s \in Sock, SocketGone(s) PROVE TypeOK' BY <2>4, SocketGoneType
  <2>5. CASE GraceExpires BY <2>5, GraceType
  <2>6. CASE Restart BY <2>6, IdleType DEF Restart, TypeOK, durable
  <2>7. CASE UNCHANGED vars BY <2>7 DEF vars, TypeOK
  <2> QED BY <2>1, <2>2, <2>3, <2>4, <2>5, <2>6, <2>7 DEF Next, Arrive
<1> QED BY <1>1, <1>2, PTL DEF Spec

-----------------------------------------------------------------------------
(* The door.                                                               *)

\* A handler never reopens a socket, never changes whose it is, and never
\* makes a guest's socket the owner's.
Kept(t) ==
  /\ conn'[t].device = conn[t].device /\ conn'[t].host = conn[t].host
  /\ conn'[t].invited = conn[t].invited
  /\ conn'[t].open => conn[t].open

\* It seats a socket only when it may, and keeps the seats it does not touch.
Lawful(t) ==
  \/ ~conn'[t].joined \/ conn'[t].pub \/ conn'[t].stage \/ ~conn'[t].open
  \/ conn'[t].host \/ conn'[t].invited \/ conn'[t].device \in approved'

LEMMA LawfulStep ==
  ASSUME TypeOK, RoomInv, banned' = banned,
         \A t \in Sock : Kept(t) /\ Lawful(t)
  PROVE  RoomInv'
<1>1. OneOpenSocket' BY DEF RoomInv, OneOpenSocket, Kept
<1>2. DoorHeld' BY DEF DoorHeld, Seated, Lawful
<1>3. BannedStayOut' BY DEF RoomInv, BannedStayOut, Kept
<1> QED BY <1>1, <1>2, <1>3 DEF RoomInv

LEMMA SeatsWereLawful ==
  ASSUME TypeOK, RoomInv
  PROVE  \A t \in Sock : \/ ~conn[t].joined \/ conn[t].pub \/ conn[t].stage \/ ~conn[t].open
                          \/ conn[t].host \/ conn[t].invited \/ conn[t].device \in approved
BY DEF RoomInv, DoorHeld, Seated

LEMMA ClosedIs ==
  ASSUME NEW c \in [Sock -> Attachment], NEW S, NEW t \in Sock
  PROVE  /\ Closed(c, S)[t].device = c[t].device /\ Closed(c, S)[t].host = c[t].host
         /\ Closed(c, S)[t].invited = c[t].invited /\ Closed(c, S)[t].joined = c[t].joined
         /\ Closed(c, S)[t].pub = c[t].pub /\ Closed(c, S)[t].stage = c[t].stage
         /\ Closed(c, S)[t].decks = c[t].decks
         /\ (t \in S => ~Closed(c, S)[t].open)
         /\ (t \notin S => Closed(c, S)[t] = c[t])
         /\ (Closed(c, S)[t].open => c[t].open)
BY DEF Closed, Attachment

LEMMA FloorIs ==
  ASSUME TypeOK, NEW d, ReturnToFloor(d), NEW t \in Sock
  PROVE  /\ Kept(t)
         /\ (conn[t].device # d => conn'[t] = conn[t])
         /\ (conn[t].device = d => conn'[t].pub /\ conn'[t].decks = {})
<1>1. conn \in [Sock -> Attachment] BY DEF TypeOK
<1>2. CASE conn[t].device = d
  <2>1. conn'[t] = [conn[t] EXCEPT !.pub = TRUE, !.joined = TRUE, !.decks = {},
                                   !.stage = FALSE, !.stageReq = NoOne]
    BY <1>2 DEF ReturnToFloor
  <2> QED BY <1>1, <1>2, <2>1 DEF Kept, Attachment
<1>3. CASE conn[t].device # d
  BY <1>3 DEF ReturnToFloor, Kept
<1> QED BY <1>2, <1>3

LEMMA StageIs ==
  ASSUME TypeOK, NEW d, NEW k, PromoteToStage(d, k), NEW t \in Sock
  PROVE  /\ Kept(t)
         /\ (conn'[t] # conn[t] => conn'[t].stage /\ conn'[t].decks = {k})
         /\ (conn[t].device = d /\ conn[t].pub => conn'[t].stage)
<1>1. conn \in [Sock -> Attachment] BY DEF TypeOK
<1>2. CASE t \in SocketsOf(conn, d) /\ conn[t].pub
  <2>1. conn'[t] = [conn[t] EXCEPT !.pub = FALSE, !.joined = TRUE, !.decks = {k},
                                   !.stage = TRUE, !.stageReq = NoOne]
    BY <1>2 DEF PromoteToStage
  <2> QED BY <1>1, <2>1 DEF Kept, Attachment
<1>3. CASE ~(t \in SocketsOf(conn, d) /\ conn[t].pub)
  BY <1>3 DEF PromoteToStage, SocketsOf, Kept
<1> QED BY <1>2, <1>3

LEMMA FrameKeepsDoor ==
  ASSUME TypeOK, RoomInv, NEW s \in Sock, Frame(s)
  PROVE  RoomInv'
<1> USE SeatsWereLawful DEF durable, Kept, Lawful
<1>0. conn \in [Sock -> Attachment] BY DEF TypeOK
<1>1. CASE Join(s)
  BY <1>0, <1>1, LawfulStep DEF Join, Writes, Attachment
<1>2. CASE Listen(s)
  BY <1>2, LawfulStep DEF Listen
<1>3. CASE StepDown(s)
  <2>1. CASE ReturnToFloor(conn[s].device)
    <3>1. \A t \in Sock : Kept(t) /\ Lawful(t) BY <1>3, <2>1, FloorIs DEF StepDown
    <3> QED BY <1>3, <3>1, LawfulStep DEF StepDown
  <2>2. CASE conn' = [conn EXCEPT ![s].stageReq = NoOne]
    BY <1>0, <1>3, <2>2, LawfulStep DEF StepDown, Attachment
  <2> QED BY <1>3, <2>1, <2>2 DEF StepDown
<1>4. CASE Leave(s)
  BY <1>0, <1>4, LawfulStep DEF Leave, Attachment
<1>5. ASSUME NEW on \in BOOLEAN, Control(s, on) PROVE RoomInv'
  BY <1>0, <1>5, LawfulStep DEF Control, Attachment
<1>6. ASSUME NEW on \in BOOLEAN, Publish(s, on) PROVE RoomInv'
  BY <1>0, <1>6, ClosedIs, LawfulStep DEF Publish, EndBroadcast
<1>7. ASSUME NEW k \in Deck, AskForDeck(s, k) PROVE RoomInv'
  <2>1. CASE PromoteToStage(conn[s].device, k)
    <3>1. \A t \in Sock : Kept(t) /\ Lawful(t) BY <1>7, <2>1, StageIs DEF AskForDeck
    <3> QED BY <1>7, <3>1, LawfulStep DEF AskForDeck
  <2>2. CASE conn' = [conn EXCEPT ![s].stageReq = k]
    BY <1>0, <1>7, <2>2, LawfulStep DEF AskForDeck, Attachment
  <2> QED BY <1>7, <2>1, <2>2 DEF AskForDeck
<1>8. ASSUME NEW m \in Gates, SetStageGate(s, m) PROVE RoomInv'
  BY <1>8, LawfulStep DEF SetStageGate
<1>9. ASSUME NEW d \in Device, Approve(s, d) PROVE RoomInv'
  BY <1>0, <1>9, LawfulStep DEF Approve, Attachment
<1>10. ASSUME NEW d \in Device, Deny(s, d) PROVE RoomInv'
  BY <1>0, <1>10, ClosedIs, LawfulStep DEF Deny, Evict
<1>11. ASSUME NEW d \in Device, Kick(s, d) PROVE RoomInv'
  <2>1. \A t \in Sock : conn[t].device = d => ~conn'[t].open
    BY <1>0, <1>11, ClosedIs DEF Kick, Evict, SocketsOf
  <2> QED BY <1>0, <1>11, <2>1, ClosedIs, LawfulStep DEF Kick, Evict
<1>12. ASSUME NEW d \in Device, Ban(s, d) PROVE RoomInv'
  <2>1. \A t \in Sock : conn[t].device = d => ~conn'[t].open
    BY <1>0, <1>12, ClosedIs DEF Ban, Evict, SocketsOf
  <2>2. \A t \in Sock : Kept(t) /\ Lawful(t)
    BY <1>0, <1>12, ClosedIs DEF Ban, Evict
  <2>3. BannedStayOut' BY <1>12, <2>1, <2>2 DEF RoomInv, BannedStayOut, Ban
  <2>4. OneOpenSocket' BY <2>2 DEF RoomInv, OneOpenSocket
  <2>5. DoorHeld' BY <2>2 DEF DoorHeld, Seated
  <2> QED BY <2>3, <2>4, <2>5 DEF RoomInv
<1>13. ASSUME NEW d \in Device, StageDeny(s, d) PROVE RoomInv'
  <2>1. \A t \in Sock : Kept(t) /\ Lawful(t) BY <1>13, FloorIs DEF StageDeny
  <2> QED BY <1>13, <2>1, LawfulStep DEF StageDeny
<1>14. ASSUME NEW d \in Device, NEW on \in BOOLEAN, Grant(s, d, on) PROVE RoomInv'
  BY <1>0, <1>14, LawfulStep DEF Grant, Attachment
<1>15. ASSUME NEW d \in Device, NEW k \in Deck, StageApprove(s, d, k) PROVE RoomInv'
  <2>1. \A t \in Sock : Kept(t) /\ Lawful(t) BY <1>15, StageIs DEF StageApprove
  <2> QED BY <1>15, <2>1, LawfulStep DEF StageApprove
<1> QED BY <1>1, <1>2, <1>3, <1>4, <1>5, <1>6, <1>7, <1>8, <1>9, <1>10, <1>11, <1>12,
           <1>13, <1>14, <1>15 DEF Frame

LEMMA ConnectKeepsDoor ==
  ASSUME TypeOK, RoomInv, NEW d \in Device, NEW s \in Sock, NEW door \in Door,
         Connect(s, d, door)
  PROVE  RoomInv'
<1> DEFINE c == Closed(conn, SocketsOf(conn, d))
<1>0. conn \in [Sock -> Attachment] BY DEF TypeOK
<1>1. c \in [Sock -> Attachment] BY <1>0, ClosedType
<1>2. conn' = [c EXCEPT ![s] = Fresh(d, door)] BY DEF Connect
<1>3. \A t \in Sock \ {s} : conn'[t] = c[t] BY <1>1, <1>2
<1>4. conn'[s] = Fresh(d, door) BY <1>1, <1>2
<1>5. \A t \in Sock \ {s} : /\ Kept(t) /\ conn'[t].joined = conn[t].joined
                              /\ conn'[t].pub = conn[t].pub /\ conn'[t].stage = conn[t].stage
  BY <1>0, <1>3, ClosedIs DEF Kept
<1>6. \A t \in Sock \ {s} : conn[t].device = d => ~conn'[t].open
  <2> SUFFICES ASSUME NEW t \in Sock \ {s}, conn[t].device = d PROVE ~conn'[t].open
    OBVIOUS
  <2>1. t \in SocketsOf(conn, d) BY DEF SocketsOf
  <2> QED BY <1>0, <1>3, <2>1, ClosedIs
<1>7. conn'[s].device = d /\ (conn'[s].joined => conn'[s].pub)
  BY <1>4 DEF Fresh
<1>8. approved' = approved /\ banned' = banned /\ d \notin banned
  BY DEF Connect, durable
<1>9. OneOpenSocket' BY <1>5, <1>6, <1>7 DEF RoomInv, OneOpenSocket, Kept
<1>10. DoorHeld' BY <1>5, <1>7, <1>8 DEF RoomInv, DoorHeld, Seated, Kept
<1>11. BannedStayOut' BY <1>5, <1>7, <1>8 DEF RoomInv, BannedStayOut, Kept
<1> QED BY <1>9, <1>10, <1>11 DEF RoomInv

LEMMA RoomInvHolds == Spec => []RoomInv
<1>1. Init => RoomInv
  BY DEF Init, RoomInv, OneOpenSocket, DoorHeld, BannedStayOut, Seated, Idle
<1>2. TypeOK /\ RoomInv /\ [Next]_vars => RoomInv'
  <2> SUFFICES ASSUME TypeOK, RoomInv, [Next]_vars PROVE RoomInv'
    OBVIOUS
  <2>0. conn \in [Sock -> Attachment] BY DEF TypeOK
  <2>1. ASSUME NEW d \in Device, NEW s \in Sock, NEW door \in Door, Connect(s, d, door)
        PROVE RoomInv'
    BY <2>1, ConnectKeepsDoor
  <2>2. ASSUME NEW d \in Device, TurnAway(d) \/ RefusedGone(d) PROVE RoomInv'
    BY <2>2, SeatsWereLawful, LawfulStep DEF TurnAway, RefusedGone, durable, Kept, Lawful
  <2>3. ASSUME NEW s \in Sock, Frame(s) PROVE RoomInv' BY <2>3, FrameKeepsDoor
  <2>4. ASSUME NEW s \in Sock, SocketGone(s) PROVE RoomInv'
    BY <2>0, <2>4 DEF SocketGone, durable, RoomInv, OneOpenSocket, DoorHeld,
       BannedStayOut, Seated, Idle
  <2>5. CASE GraceExpires
    BY <2>0, <2>5, ClosedIs, SeatsWereLawful, LawfulStep
       DEF GraceExpires, EndBroadcast, durable, Kept, Lawful
  <2>6. CASE Restart
    BY <2>6 DEF Restart, durable, RoomInv, OneOpenSocket, DoorHeld, BannedStayOut, Seated, Idle
  <2>7. CASE UNCHANGED vars
    BY <2>7 DEF vars, RoomInv, OneOpenSocket, DoorHeld, BannedStayOut, Seated
  <2> QED BY <2>1, <2>2, <2>3, <2>4, <2>5, <2>6, <2>7 DEF Next, Arrive
<1> QED BY <1>1, <1>2, TypeCorrect, PTL DEF Spec

\* A reconnect replaces: no device is served through two sockets.
THEOREM OneSocketServed == Spec => []OneOpenSocket
<1>1. RoomInv => OneOpenSocket BY DEF RoomInv
<1> QED BY <1>1, RoomInvHolds, PTL

\* Nobody is seated who is not the owner's, invited, or approved by the host.
THEOREM TheDoorHolds == Spec => []DoorHeld
<1>1. RoomInv => DoorHeld BY DEF RoomInv
<1> QED BY <1>1, RoomInvHolds, PTL

\* Nobody the host banned is served, through restarts and reconnects.
THEOREM TheBanHolds == Spec => []BannedStayOut
<1>1. RoomInv => BannedStayOut BY DEF RoomInv
<1> QED BY <1>1, RoomInvHolds, PTL

-----------------------------------------------------------------------------
(* The right to drive.                                                     *)

\* A step that only narrows what a guest may drive, or records a grant for it.
Unwidened(t) ==
  /\ Kept(t)
  /\ \/ conn'[t].decks = conn[t].decks
     \/ conn'[t].decks # Deck \/ ~conn'[t].open \/ conn'[t].host
     \/ conn'[t].device \in grants'

LEMMA UnwidenedStep ==
  ASSUME TypeOK, DriveIsGranted, \A t \in Sock : Unwidened(t),
         \A t \in Sock : conn'[t].open /\ conn'[t].decks = Deck /\ conn[t].device \in grants
                           => conn[t].device \in grants'
  PROVE  DriveIsGranted'
BY DEF DriveIsGranted, Unwidened, Kept

LEMMA FrameKeepsGrants ==
  ASSUME TypeOK, RoomInv, DriveIsGranted, ~LateFrames, NEW s \in Sock, Frame(s)
  PROVE  DriveIsGranted'
<1> USE DEF durable, Kept, Unwidened
<1>0. conn \in [Sock -> Attachment] BY DEF TypeOK
<1>1. CASE Join(s)
  BY <1>0, <1>1, UnwidenedStep DEF Join, Attachment
<1>2. CASE Listen(s)
  BY <1>2, UnwidenedStep DEF Listen
<1>3. CASE StepDown(s)
  <2>1. CASE ReturnToFloor(conn[s].device)
    <3>1. \A t \in Sock : Unwidened(t) BY <2>1, FloorIs
    <3>2. \A t \in Sock : conn'[t].decks = Deck => conn[t].device # conn[s].device
      BY <2>1, FloorIs
    <3> QED BY <2>1, <3>1, <3>2, UnwidenedStep DEF ReturnToFloor
  <2>2. CASE conn' = [conn EXCEPT ![s].stageReq = NoOne] /\ UNCHANGED grants
    BY <1>0, <2>2, UnwidenedStep DEF Attachment
  <2> QED BY <1>3, <2>1, <2>2 DEF StepDown
<1>4. CASE Leave(s)
  <2>1. conn[s].open BY <1>4 DEF Leave, Speaks
  <2>2. \A t \in Sock \ {s} : conn'[t] = conn[t] BY <1>0, <1>4 DEF Leave
  <2>3. conn'[s].decks = {} BY <1>0, <1>4 DEF Leave, Attachment
  <2>4. \A t \in Sock : Unwidened(t) BY <1>0, <1>4 DEF Leave, Attachment
  <2>5. \A t \in Sock : conn'[t].open /\ conn'[t].decks = Deck => conn[t].device # conn[s].device
    BY <2>1, <2>2, <2>3 DEF RoomInv, OneOpenSocket
  <2> QED BY <1>4, <2>4, <2>5, UnwidenedStep DEF Leave
<1>5. ASSUME NEW on \in BOOLEAN, Control(s, on) PROVE DriveIsGranted'
  BY <1>0, <1>5, UnwidenedStep DEF Control, Attachment
<1>6. ASSUME NEW on \in BOOLEAN, Publish(s, on) PROVE DriveIsGranted'
  BY <1>0, <1>6, ClosedIs, UnwidenedStep DEF Publish, EndBroadcast
<1>7. ASSUME NEW k \in Deck, AskForDeck(s, k) PROVE DriveIsGranted'
  <2>1. CASE PromoteToStage(conn[s].device, k)
    <3>1. \A t \in Sock : Unwidened(t) BY <2>1, StageIs
    <3> QED BY <2>1, <3>1, UnwidenedStep DEF PromoteToStage
  <2>2. CASE conn' = [conn EXCEPT ![s].stageReq = k] /\ UNCHANGED grants
    BY <1>0, <2>2, UnwidenedStep DEF Attachment
  <2> QED BY <1>7, <2>1, <2>2 DEF AskForDeck
<1>8. ASSUME NEW m \in Gates, SetStageGate(s, m) PROVE DriveIsGranted'
  BY <1>8, UnwidenedStep DEF SetStageGate
<1>9. ASSUME NEW d \in Device, Approve(s, d) PROVE DriveIsGranted'
  <2>1. \A t \in Sock : Kept(t) /\ conn'[t].decks = conn[t].decks
    BY <1>0, <1>9 DEF Approve, Attachment
  <2>2. grants' = grants BY <1>9 DEF Approve
  <2> QED BY <2>1, <2>2, UnwidenedStep
<1>10. ASSUME NEW d \in Device, Deny(s, d) \/ Ban(s, d) PROVE DriveIsGranted'
  BY <1>0, <1>10, ClosedIs, UnwidenedStep DEF Deny, Ban, Evict
<1>11. ASSUME NEW d \in Device, Kick(s, d) PROVE DriveIsGranted'
  <2>1. \A t \in Sock : conn[t].device = d => ~conn'[t].open
    BY <1>0, <1>11, ClosedIs DEF Kick, Evict, SocketsOf
  <2> QED BY <1>0, <1>11, <2>1, ClosedIs, UnwidenedStep DEF Kick, Evict
<1>12. ASSUME NEW d \in Device, StageDeny(s, d) PROVE DriveIsGranted'
  <2>1. \A t \in Sock : Unwidened(t) BY <1>12, FloorIs DEF StageDeny
  <2>2. \A t \in Sock : conn'[t].decks = Deck => conn[t].device # d
    BY <1>12, FloorIs DEF StageDeny
  <2> QED BY <1>12, <2>1, <2>2, UnwidenedStep DEF StageDeny, ReturnToFloor
<1>13. ASSUME NEW d \in Device, NEW on \in BOOLEAN, Grant(s, d, on) PROVE DriveIsGranted'
  <2>1. \A t \in Sock : conn[t].device # d => conn'[t] = conn[t]
    BY <1>0, <1>13 DEF Grant
  <2>2. \A t \in Sock : conn[t].device = d => conn'[t].decks = IF on THEN Deck ELSE {}
    BY <1>0, <1>13 DEF Grant, Attachment
  <2>3. \A t \in Sock : Kept(t) BY <1>0, <1>13 DEF Grant, Attachment
  <2>4. grants' = IF on THEN grants \cup {d} ELSE grants \ {d} BY <1>13 DEF Grant
  <2> QED BY <2>1, <2>2, <2>3, <2>4, UnwidenedStep
<1>14. ASSUME NEW d \in Device, NEW k \in Deck, StageApprove(s, d, k) PROVE DriveIsGranted'
  <2>1. \A t \in Sock : Unwidened(t) BY <1>14, StageIs DEF StageApprove
  <2> QED BY <1>14, <2>1, UnwidenedStep DEF StageApprove, PromoteToStage
<1> QED BY <1>1, <1>2, <1>3, <1>4, <1>5, <1>6, <1>7, <1>8, <1>9, <1>10, <1>11, <1>12,
           <1>13, <1>14 DEF Frame

\* Where the runtime delivers no frame of a closed socket, a guest that may
\* drive the whole board holds the host's grant.
THEOREM DriveNeedsAGrant ==
  ASSUME ~LateFrames
  PROVE  Spec => []DriveIsGranted
<1>1. Init => DriveIsGranted BY DEF Init, DriveIsGranted, Idle
<1>2. TypeOK /\ RoomInv /\ DriveIsGranted /\ [Next]_vars => DriveIsGranted'
  <2> SUFFICES ASSUME TypeOK, RoomInv, DriveIsGranted, [Next]_vars PROVE DriveIsGranted'
    OBVIOUS
  <2>0. conn \in [Sock -> Attachment] BY DEF TypeOK
  <2>1. ASSUME NEW d \in Device, NEW s \in Sock, NEW door \in Door, Connect(s, d, door)
        PROVE DriveIsGranted'
    <3> DEFINE c == Closed(conn, SocketsOf(conn, d))
    <3>1. c \in [Sock -> Attachment] BY <2>0, ClosedType
    <3>2. conn' = [c EXCEPT ![s] = Fresh(d, door)] BY <2>1 DEF Connect
    <3>3. \A t \in Sock \ {s} : conn'[t] = c[t] BY <3>1, <3>2
    <3>4. conn'[s] = Fresh(d, door) BY <3>1, <3>2
    <3>5. \A t \in Sock \ {s} : Kept(t) /\ conn'[t].decks = conn[t].decks
      BY <2>0, <3>3, ClosedIs DEF Kept
    <3>6. grants' = grants BY <2>1 DEF Connect, durable
    <3>7. conn'[s].decks = Deck => conn'[s].device \in grants'
      BY <3>4, <3>6 DEF Fresh
    <3> QED BY <3>5, <3>6, <3>7 DEF DriveIsGranted, Kept
  <2>2. ASSUME NEW d \in Device, TurnAway(d) \/ RefusedGone(d) PROVE DriveIsGranted'
    BY <2>2 DEF TurnAway, RefusedGone, durable, DriveIsGranted
  <2>3. ASSUME NEW s \in Sock, Frame(s) PROVE DriveIsGranted' BY <2>3, FrameKeepsGrants
  <2>4. ASSUME NEW s \in Sock, SocketGone(s) PROVE DriveIsGranted'
    BY <2>0, <2>4 DEF SocketGone, durable, DriveIsGranted, Idle
  <2>5. CASE GraceExpires
    BY <2>0, <2>5, ClosedIs DEF GraceExpires, EndBroadcast, durable, DriveIsGranted
  <2>6. CASE Restart BY <2>6 DEF Restart, durable, DriveIsGranted, Idle
  <2>7. CASE UNCHANGED vars BY <2>7 DEF vars, DriveIsGranted
  <2> QED BY <2>1, <2>2, <2>3, <2>4, <2>5, <2>6, <2>7 DEF Next, Arrive
<1> QED BY <1>1, <1>2, TypeCorrect, RoomInvHolds, PTL DEF Spec

-----------------------------------------------------------------------------
(* Who gets the clock.                                                     *)

\* The clock stays, is given up, or goes to a member of the session that is
\* not performing from the stage, and to a listener by three handlers only.
Handover ==
  anchor' \in {anchor, NoOne} \/
    \E t \in Sock : /\ conn'[t].device = anchor' /\ conn'[t].joined /\ ~conn'[t].stage
                    /\ conn'[t].pub => SettlesUnasked(anchor')

LEMMA NextIsHandover ==
  ASSUME conn' \in [Sock -> Attachment], NEW d, anchor' \in NextAnchor(conn', d)
  PROVE  Handover
<1> DEFINE c == conn'
           a == anchor'
<1>1. c \in [Sock -> Attachment] /\ a \in NextAnchor(c, d) OBVIOUS
<1> HIDE DEF c, a
<1>2. a = NoOne \/ \E t \in Sock : c[t].device = a /\ c[t].joined /\ ~c[t].stage /\ ~c[t].pub
  BY <1>1, NextAnchorIsMember
<1> QED BY <1>2 DEF Handover, c, a

\* A device that claims the clock is in the session, and none of its sockets
\* performs; one that loses it hands it to the next in rank.
LEMMA SettledIsHandover ==
  ASSUME conn' \in [Sock -> Attachment], NEW d, anchor' \in Settled(conn', d),
         \/ IsStage(conn', d) \/ SettlesUnasked(d)
         \/ \E t \in Sock : conn'[t].device = d /\ conn'[t].joined /\ ~conn'[t].pub
  PROVE  Handover
<1>0. IsControlling(conn', d) => IsJoined(conn', d) BY DEF IsControlling, IsJoined
<1>1. CASE anchor' = d /\ IsJoined(conn', d) /\ ~IsStage(conn', d)
  <2>1. CASE SettlesUnasked(d)
    BY <1>1, <2>1 DEF IsJoined, IsStage, SocketsOf, Handover
  <2>2. CASE \E t \in Sock : conn'[t].device = d /\ conn'[t].joined /\ ~conn'[t].pub
    BY <1>1, <2>2 DEF IsStage, SocketsOf, Handover
  <2> QED BY <1>1, <2>1, <2>2
<1>2. CASE anchor' \in NextAnchor(conn', d)
  BY <1>2, NextIsHandover
<1>3. CASE anchor' = anchor
  BY <1>3 DEF Handover
<1> QED BY <1>0, <1>1, <1>2, <1>3 DEF Settled

LEMMA FrameHandsOver ==
  ASSUME TypeOK, TypeOK', NEW s \in Sock, Frame(s)
  PROVE  Handover
<1> USE DEF durable
<1>0. conn' \in [Sock -> Attachment] BY DEF TypeOK
<1>1. anchor' = anchor => Handover BY DEF Handover
<1>2. ASSUME NEW d, ReturnToFloor(d) PROVE Handover
  BY <1>0, <1>1, <1>2, NextIsHandover DEF ReturnToFloor
<1>3. ASSUME NEW d, NEW k, PromoteToStage(d, k) PROVE Handover
  <2>1. CASE \A t \in SocketsOf(conn, d) : ~conn[t].pub
    <3>1. {t \in SocketsOf(conn, d) : conn[t].pub} = {} BY <2>1
    <3>2. anchor' \in {anchor} BY <1>3, <3>1 DEF PromoteToStage
    <3> QED BY <1>1, <3>2
  <2>2. CASE \E t \in SocketsOf(conn, d) : conn[t].pub
    <3>1. PICK t \in SocketsOf(conn, d) : conn[t].pub BY <2>2
    <3>2. conn'[t].stage /\ conn'[t].device = d
      BY <1>3, <3>1, StageIs DEF SocketsOf, Kept
    <3>3. IsStage(conn', d) BY <3>1, <3>2 DEF IsStage, SocketsOf
    <3>4. {u \in SocketsOf(conn, d) : conn[u].pub} # {} BY <3>1
    <3>5. anchor' \in Settled(conn', d) BY <1>3, <3>4 DEF PromoteToStage
    <3> QED BY <1>0, <3>3, <3>5, SettledIsHandover
  <2> QED BY <2>1, <2>2
<1>4. ASSUME NEW d, Evict(d) PROVE Handover
  BY <1>0, <1>1, <1>4, NextIsHandover DEF Evict
<1>5. CASE Join(s)
  <2>1. CASE anchor' = anchor BY <1>1, <2>1
  <2>2. CASE anchor' \in Settled(conn', conn[s].device) /\ conn'[s].joined
    <3>1. conn'[s].device = conn[s].device /\ ~conn'[s].pub
      BY <1>5 DEF Join, Writes, TypeOK, Attachment
    <3> QED BY <1>0, <2>2, <3>1, SettledIsHandover
  <2> QED BY <1>5, <2>1, <2>2 DEF Join, TypeOK, Attachment
<1>6. CASE Listen(s)
  BY <1>0, <1>6, SettledIsHandover DEF Listen, Writes
<1>7. CASE StepDown(s)
  BY <1>1, <1>2, <1>7 DEF StepDown
<1>8. CASE Leave(s)
  <2>1. SettlesUnasked(conn[s].device) BY <1>8 DEF SettlesUnasked
  <2> QED BY <1>0, <1>8, <2>1, SettledIsHandover DEF Leave
<1>9. ASSUME NEW on \in BOOLEAN, Control(s, on) \/ Publish(s, on) PROVE Handover
  <2>1. CASE Publish(s, on) BY <1>1, <2>1 DEF Publish
  <2>2. CASE Control(s, on)
    <3>1. conn'[s].device = conn[s].device /\ conn'[s].joined /\ ~conn'[s].pub
      BY <2>2 DEF Control, Writes, TypeOK, Attachment
    <3> QED BY <1>0, <2>2, <3>1, SettledIsHandover DEF Control
  <2> QED BY <1>9, <2>1, <2>2
<1>10. ASSUME NEW k \in Deck, AskForDeck(s, k) PROVE Handover
  BY <1>1, <1>3, <1>10 DEF AskForDeck
<1>11. ASSUME NEW m \in Gates, SetStageGate(s, m) PROVE Handover
  BY <1>1, <1>11 DEF SetStageGate
<1>12. ASSUME NEW d \in Device, Approve(s, d) PROVE Handover
  <2>1. SettlesUnasked(d) BY <1>12 DEF SettlesUnasked
  <2> QED BY <1>0, <1>12, <2>1, SettledIsHandover DEF Approve
<1>13. ASSUME NEW d \in Device, Deny(s, d) \/ Kick(s, d) \/ Ban(s, d) PROVE Handover
  BY <1>4, <1>13 DEF Deny, Kick, Ban
<1>14. ASSUME NEW d \in Device, StageDeny(s, d) PROVE Handover
  BY <1>2, <1>14 DEF StageDeny
<1>15. ASSUME NEW d \in Device, NEW on \in BOOLEAN, Grant(s, d, on) PROVE Handover
  <2>1. SettlesUnasked(d) BY <1>15 DEF SettlesUnasked
  <2> QED BY <1>0, <1>15, <2>1, SettledIsHandover DEF Grant
<1>16. ASSUME NEW d \in Device, NEW k \in Deck, StageApprove(s, d, k) PROVE Handover
  BY <1>3, <1>16 DEF StageApprove
<1> QED BY <1>5, <1>6, <1>7, <1>8, <1>9, <1>10, <1>11, <1>12, <1>13, <1>14, <1>15, <1>16
       DEF Frame

\* Whatever the runtime does, the clock never moves to a device that is out of
\* the session or that only performs from the stage, and to a listener of the crowd
\* only by the host's approve or grant of it, or by its own leave.
THEOREM TheClockGoesToAMember == Spec => ClockGoesToAMember
<1>1. TypeOK /\ TypeOK' /\ [Next]_vars => [Handover]_vars
  <2> SUFFICES ASSUME TypeOK, TypeOK', Next PROVE Handover
    OBVIOUS
  <2>0. conn' \in [Sock -> Attachment] BY DEF TypeOK
  <2>1. anchor' = anchor => Handover BY DEF Handover
  <2>2. ASSUME NEW d \in Device, Arrive(d) \/ RefusedGone(d) PROVE Handover
    BY <2>1, <2>2 DEF Arrive, Connect, TurnAway, RefusedGone
  <2>3. ASSUME NEW s \in Sock, Frame(s) PROVE Handover BY <2>3, FrameHandsOver
  <2>4. ASSUME NEW s \in Sock, SocketGone(s) PROVE Handover
    BY <2>0, <2>1, <2>4, NextIsHandover DEF SocketGone
  <2>5. CASE GraceExpires
    BY <2>0, <2>1, <2>5, NextIsHandover DEF GraceExpires
  <2>6. CASE Restart BY <2>1, <2>6 DEF Restart
  <2> QED BY <2>2, <2>3, <2>4, <2>5, <2>6 DEF Next
<1>2. TypeOK /\ TypeOK' /\ [Next]_vars =>
        [anchor' \in {anchor, NoOne} \/
           \E s \in Sock : /\ conn'[s].device = anchor' /\ conn'[s].joined /\ ~conn'[s].stage
                           /\ conn'[s].pub => SettlesUnasked(anchor')]_vars
  BY <1>1 DEF Handover
<1> QED BY <1>2, TypeCorrect, PTL DEF Spec, ClockGoesToAMember

-----------------------------------------------------------------------------
(* The room implements RoomHouse.                                          *)

Seats == {conn[s].device : s \in {t \in Sock : Seated(t)}}
Vouched == {conn[s].device : s \in {t \in Sock : conn[t].open /\ (conn[t].host \/ conn[t].invited)}}

\* A socket the room serves is some device's.
OpenIsSomeone == \A s \in Sock : conn[s].open => conn[s].device \in Device

\* A step that seats nobody who was not seated.
NoNewSeat == \A t \in Sock : Seated(t)' => Seated(t) /\ conn'[t].device = conn[t].device

LEMMA HouseNames ==
  /\ House!Next <=> \/ House!TakeSeats \/ House!ComeAndGo
                    \/ \E d \in Device : House!Trust(d) \/ House!Remove(d) \/ House!Bar(d)
  /\ House!TakeSeats <=> /\ Seats' \ Seats \subseteq (approved \cup Vouched) \ banned
                         /\ UNCHANGED <<approved, Vouched, banned>>
  /\ House!ComeAndGo <=> /\ Seats' \subseteq Seats
                         /\ Vouched' \subseteq Device \ banned
                         /\ Seats' \subseteq approved \cup Vouched'
                         /\ UNCHANGED <<approved, banned>>
  /\ \A d : House!Trust(d) <=> /\ approved' = approved \cup {d}
                               /\ Seats' \in {Seats, Seats \cup ({d} \ banned)}
                               /\ UNCHANGED <<Vouched, banned>>
  /\ \A d : House!Remove(d) <=> /\ approved' = approved \ {d} /\ Seats' = Seats \ {d}
                                /\ Vouched' = Vouched \ {d}
                                /\ UNCHANGED banned
  /\ \A d : House!Bar(d) <=> /\ banned' = banned \cup {d} /\ Seats' = Seats \ {d}
                             /\ Vouched' = Vouched \ {d}
                             /\ UNCHANGED approved
BY DEF House!Next, House!TakeSeats, House!ComeAndGo, House!Trust, House!Remove, House!Bar,
       Seats, Vouched

\* No frame reopens a socket or changes whose it is.
LEMMA FrameKeeps ==
  ASSUME TypeOK, NEW s \in Sock, Frame(s)
  PROVE  \A t \in Sock : Kept(t)
<1> USE DEF durable
<1>0. conn \in [Sock -> Attachment] BY DEF TypeOK
<1>1. ASSUME conn' = conn PROVE \A t \in Sock : Kept(t) BY <1>1 DEF Kept
<1>2. CASE Join(s) BY <1>0, <1>2 DEF Join, Kept, Attachment
<1>3. CASE Listen(s) BY <1>1, <1>3 DEF Listen
<1>4. CASE StepDown(s) BY <1>0, <1>4, FloorIs DEF StepDown, Kept, Attachment
<1>5. CASE Leave(s) BY <1>0, <1>5 DEF Leave, Kept, Attachment
<1>6. ASSUME NEW on \in BOOLEAN, Control(s, on) PROVE \A t \in Sock : Kept(t)
  BY <1>0, <1>6 DEF Control, Kept, Attachment
<1>7. ASSUME NEW on \in BOOLEAN, Publish(s, on) PROVE \A t \in Sock : Kept(t)
  BY <1>0, <1>7, ClosedIs DEF Publish, EndBroadcast, Kept
<1>8. ASSUME NEW k \in Deck, AskForDeck(s, k) PROVE \A t \in Sock : Kept(t)
  BY <1>0, <1>8, StageIs DEF AskForDeck, Kept, Attachment
<1>9. ASSUME NEW m \in Gates, SetStageGate(s, m) PROVE \A t \in Sock : Kept(t)
  BY <1>1, <1>9 DEF SetStageGate
<1>10. ASSUME NEW d \in Device, Approve(s, d) PROVE \A t \in Sock : Kept(t)
  BY <1>0, <1>10 DEF Approve, Kept, Attachment
<1>11. ASSUME NEW d \in Device, Deny(s, d) \/ Kick(s, d) \/ Ban(s, d)
       PROVE \A t \in Sock : Kept(t)
  BY <1>0, <1>11, ClosedIs DEF Deny, Kick, Ban, Evict, Kept
<1>12. ASSUME NEW d \in Device, StageDeny(s, d) PROVE \A t \in Sock : Kept(t)
  BY <1>12, FloorIs DEF StageDeny
<1>13. ASSUME NEW d \in Device, NEW on \in BOOLEAN, Grant(s, d, on) PROVE \A t \in Sock : Kept(t)
  BY <1>0, <1>13 DEF Grant, Kept, Attachment
<1>14. ASSUME NEW d \in Device, NEW k \in Deck, StageApprove(s, d, k) PROVE \A t \in Sock : Kept(t)
  BY <1>14, StageIs DEF StageApprove
<1> QED BY <1>2, <1>3, <1>4, <1>5, <1>6, <1>7, <1>8, <1>9, <1>10, <1>11, <1>12, <1>13, <1>14
       DEF Frame

LEMMA AttachedIsSomeone == Spec => []OpenIsSomeone
<1>1. Init => OpenIsSomeone BY DEF Init, OpenIsSomeone, Idle
<1>2. TypeOK /\ OpenIsSomeone /\ [Next]_vars => OpenIsSomeone'
  <2> SUFFICES ASSUME TypeOK, OpenIsSomeone, [Next]_vars PROVE OpenIsSomeone'
    OBVIOUS
  <2>0. conn \in [Sock -> Attachment] BY DEF TypeOK
  <2>1. (\A t \in Sock : Kept(t)) => OpenIsSomeone' BY DEF OpenIsSomeone, Kept
  <2>2. ASSUME NEW d \in Device, NEW s \in Sock, NEW door \in Door, Connect(s, d, door)
        PROVE OpenIsSomeone'
    <3> DEFINE c == Closed(conn, SocketsOf(conn, d))
    <3>1. c \in [Sock -> Attachment] BY <2>0, ClosedType
    <3>2. conn' = [c EXCEPT ![s] = Fresh(d, door)] BY <2>2 DEF Connect
    <3>3. \A t \in Sock \ {s} : conn'[t] = c[t] BY <3>1, <3>2
    <3>4. conn'[s].device = d BY <3>1, <3>2 DEF Fresh
    <3>5. \A t \in Sock \ {s} : Kept(t) BY <2>0, <3>3, ClosedIs DEF Kept
    <3> QED BY <3>4, <3>5 DEF OpenIsSomeone, Kept
  <2>3. ASSUME NEW d \in Device, TurnAway(d) \/ RefusedGone(d) PROVE OpenIsSomeone'
    BY <2>1, <2>3 DEF TurnAway, RefusedGone, Kept
  <2>4. ASSUME NEW s \in Sock, Frame(s) PROVE OpenIsSomeone'
    BY <2>1, <2>4, FrameKeeps
  <2>5. ASSUME NEW s \in Sock, SocketGone(s) PROVE OpenIsSomeone'
    BY <2>0, <2>5 DEF SocketGone, OpenIsSomeone, Idle
  <2>6. CASE GraceExpires
    BY <2>0, <2>1, <2>6, ClosedIs DEF GraceExpires, EndBroadcast, Kept
  <2>7. CASE Restart BY <2>7 DEF Restart, OpenIsSomeone, Idle
  <2>8. CASE UNCHANGED vars BY <2>8 DEF vars, OpenIsSomeone
  <2> QED BY <2>2, <2>3, <2>4, <2>5, <2>6, <2>7, <2>8 DEF Next, Arrive
<1> QED BY <1>1, <1>2, TypeCorrect, PTL DEF Spec

\* Where trust and bans stay, a step that seats nobody is a coming and going.
LEMMA NoNewSeatStep ==
  ASSUME RoomInv', OpenIsSomeone', UNCHANGED <<approved, banned>>, NoNewSeat
  PROVE  House!Next
<1>1. Seats' \subseteq Seats BY DEF NoNewSeat, Seats
<1>2. Vouched' \subseteq Device \ banned
  BY DEF Vouched, OpenIsSomeone, RoomInv, BannedStayOut
<1>3. Seats' \subseteq approved \cup Vouched'
  BY DEF Seats, Vouched, Seated, RoomInv, DoorHeld
<1> QED BY <1>1, <1>2, <1>3, HouseNames

LEMMA FrameIsHouseStep ==
  ASSUME TypeOK, RoomInv, RoomInv', OpenIsSomeone', NEW s \in Sock, Frame(s)
  PROVE  House!Next
<1> USE DEF durable
<1>0. conn \in [Sock -> Attachment] BY DEF TypeOK
<1>1. CASE Join(s)
  <2>1. \A t \in Sock : /\ Kept(t) /\ conn'[t].open = conn[t].open
                        /\ (t # s => conn'[t] = conn[t])
    BY <1>0, <1>1 DEF Join, Kept, Attachment
  <2>2. Vouched' = Vouched BY <2>1 DEF Vouched, Kept
  <2>3. UNCHANGED <<approved, banned>> BY <1>1 DEF Join
  <2>4. Seats' \subseteq (approved \cup Vouched) \ banned
    BY <2>2, <2>3 DEF Seats, Vouched, Seated, RoomInv, DoorHeld, BannedStayOut
  <2> QED BY <2>2, <2>3, <2>4, HouseNames
<1>2. CASE Listen(s)
  BY <1>2, NoNewSeatStep DEF Listen, NoNewSeat, Seated
<1>3. CASE StepDown(s)
  <2>1. CASE ReturnToFloor(conn[s].device)
    <3>1. NoNewSeat BY <2>1, FloorIs DEF NoNewSeat, Seated
    <3> QED BY <1>3, <3>1, NoNewSeatStep DEF StepDown
  <2>2. CASE conn' = [conn EXCEPT ![s].stageReq = NoOne]
    <3>1. NoNewSeat BY <1>0, <2>2 DEF NoNewSeat, Seated, Attachment
    <3> QED BY <1>3, <3>1, NoNewSeatStep DEF StepDown
  <2> QED BY <1>3, <2>1, <2>2 DEF StepDown
<1>4. CASE Leave(s)
  <2>1. NoNewSeat BY <1>0, <1>4 DEF Leave, NoNewSeat, Seated, Attachment
  <2> QED BY <1>4, <2>1, NoNewSeatStep DEF Leave
<1>5. ASSUME NEW on \in BOOLEAN, Control(s, on) PROVE House!Next
  <2>1. NoNewSeat BY <1>0, <1>5 DEF Control, NoNewSeat, Seated, Attachment
  <2> QED BY <1>5, <2>1, NoNewSeatStep DEF Control
<1>6. ASSUME NEW on \in BOOLEAN, Publish(s, on) PROVE House!Next
  <2>1. NoNewSeat
    BY <1>0, <1>6, ClosedIs DEF Publish, EndBroadcast, NoNewSeat, Seated
  <2> QED BY <1>6, <2>1, NoNewSeatStep DEF Publish
<1>7. ASSUME NEW k \in Deck, AskForDeck(s, k) PROVE House!Next
  <2>1. CASE PromoteToStage(conn[s].device, k)
    <3>1. NoNewSeat BY <2>1, StageIs DEF NoNewSeat, Seated
    <3> QED BY <1>7, <3>1, NoNewSeatStep DEF AskForDeck
  <2>2. CASE conn' = [conn EXCEPT ![s].stageReq = k]
    <3>1. NoNewSeat BY <1>0, <2>2 DEF NoNewSeat, Seated, Attachment
    <3> QED BY <1>7, <3>1, NoNewSeatStep DEF AskForDeck
  <2> QED BY <1>7, <2>1, <2>2 DEF AskForDeck
<1>8. ASSUME NEW m \in Gates, SetStageGate(s, m) PROVE House!Next
  BY <1>8, NoNewSeatStep DEF SetStageGate, NoNewSeat, Seated
<1>9. ASSUME NEW d \in Device, Approve(s, d) PROVE House!Next
  <2>1. \A t \in Sock : /\ Kept(t) /\ conn'[t].open = conn[t].open
                        /\ conn'[t].pub = conn[t].pub /\ conn'[t].stage = conn[t].stage
                        /\ (conn[t].device # d => conn'[t] = conn[t])
                        /\ (conn[t].device = d => conn'[t].joined)
    BY <1>0, <1>9 DEF Approve, Kept, Attachment
  <2>2. Vouched' = Vouched BY <2>1 DEF Vouched, Kept
  <2>3. approved' = approved \cup {d} /\ banned' = banned BY <1>9 DEF Approve
  <2>4. Seats \subseteq Seats' /\ Seats' \subseteq Seats \cup {d}
    BY <2>1 DEF Seats, Seated, Kept
  <2>5. d \in Seats' => d \notin banned
    BY <2>3 DEF Seats, Seated, RoomInv, BannedStayOut
  <2>6. Seats' \in {Seats, Seats \cup ({d} \ banned)} BY <2>4, <2>5
  <2> QED BY <2>2, <2>3, <2>6, HouseNames
<1>10. ASSUME NEW d \in Device, Evict(d)
       PROVE  /\ NoNewSeat
              /\ Seats' = Seats \ {d} /\ Vouched' = Vouched \ {d}
  <2>1. \A t \in Sock : /\ Kept(t)
                        /\ (conn[t].device # d => conn'[t] = conn[t])
                        /\ (conn[t].device = d => ~conn'[t].open)
    BY <1>0, <1>10, ClosedIs DEF Evict, SocketsOf, Kept
  <2> QED BY <2>1 DEF NoNewSeat, Seats, Vouched, Seated, Kept
<1>11. ASSUME NEW d \in Device, Deny(s, d) PROVE House!Next
  BY <1>10, <1>11, NoNewSeatStep DEF Deny
<1>12. ASSUME NEW d \in Device, Kick(s, d) PROVE House!Next
  BY <1>10, <1>12, HouseNames DEF Kick
<1>13. ASSUME NEW d \in Device, Ban(s, d) PROVE House!Next
  BY <1>10, <1>13, HouseNames DEF Ban
<1>14. ASSUME NEW d \in Device, StageDeny(s, d) PROVE House!Next
  <2>1. NoNewSeat BY <1>14, FloorIs DEF StageDeny, NoNewSeat, Seated
  <2> QED BY <1>14, <2>1, NoNewSeatStep DEF StageDeny
<1>15. ASSUME NEW d \in Device, NEW on \in BOOLEAN, Grant(s, d, on) PROVE House!Next
  <2>1. NoNewSeat BY <1>0, <1>15 DEF Grant, NoNewSeat, Seated, Attachment
  <2> QED BY <1>15, <2>1, NoNewSeatStep DEF Grant
<1>16. ASSUME NEW d \in Device, NEW k \in Deck, StageApprove(s, d, k) PROVE House!Next
  <2>1. NoNewSeat BY <1>16, StageIs DEF StageApprove, NoNewSeat, Seated
  <2> QED BY <1>16, <2>1, NoNewSeatStep DEF StageApprove
<1> QED BY <1>1, <1>2, <1>3, <1>4, <1>5, <1>6, <1>7, <1>8, <1>9, <1>11, <1>12, <1>13,
           <1>14, <1>15, <1>16 DEF Frame

\* A seat is had by being let in and kept until it is left, lost or taken: for
\* every room, each step of the room is a step of RoomHouse or leaves it alone.
THEOREM TheRoomKeepsHouse == Spec => HouseSpec
<1>1. Init => House!Init
  BY DEF Init, House!Init, Seated, Idle
<1>2. TypeOK /\ RoomInv /\ RoomInv' /\ OpenIsSomeone' /\ [Next]_vars => [House!Next]_House!house
  <2> SUFFICES ASSUME TypeOK, RoomInv, RoomInv', OpenIsSomeone', [Next]_vars
               PROVE  House!Next \/ UNCHANGED House!house
    OBVIOUS
  <2>0. conn \in [Sock -> Attachment] BY DEF TypeOK
  <2> USE DEF durable
  <2>1. ASSUME NEW d \in Device, NEW s \in Sock, NEW door \in Door, Connect(s, d, door)
        PROVE House!Next
    <3> DEFINE c == Closed(conn, SocketsOf(conn, d))
    <3>1. c \in [Sock -> Attachment] BY <2>0, ClosedType
    <3>2. conn' = [c EXCEPT ![s] = Fresh(d, door)] BY <2>1 DEF Connect
    <3>3. \A t \in Sock \ {s} : conn'[t] = c[t] BY <3>1, <3>2
    <3>4. conn'[s].joined => conn'[s].pub BY <3>1, <3>2 DEF Fresh
    <3>5. NoNewSeat BY <2>0, <3>3, <3>4, ClosedIs DEF NoNewSeat, Seated
    <3> QED BY <2>1, <3>5, NoNewSeatStep DEF Connect
  <2>2. ASSUME NEW d \in Device, TurnAway(d) \/ RefusedGone(d) PROVE House!Next
    BY <2>2, NoNewSeatStep DEF TurnAway, RefusedGone, NoNewSeat, Seated
  <2>3. ASSUME NEW s \in Sock, Frame(s) PROVE House!Next
    BY <2>3, FrameIsHouseStep
  <2>4. ASSUME NEW s \in Sock, SocketGone(s) PROVE House!Next
    <3>1. NoNewSeat BY <2>0, <2>4 DEF SocketGone, NoNewSeat, Seated, Idle
    <3> QED BY <2>4, <3>1, NoNewSeatStep DEF SocketGone
  <2>5. CASE GraceExpires
    <3>1. NoNewSeat
      BY <2>0, <2>5, ClosedIs DEF GraceExpires, EndBroadcast, NoNewSeat, Seated
    <3> QED BY <2>5, <3>1, NoNewSeatStep DEF GraceExpires
  <2>6. CASE Restart
    <3>1. NoNewSeat BY <2>6 DEF Restart, NoNewSeat, Seated, Idle
    <3> QED BY <2>6, <3>1, NoNewSeatStep DEF Restart
  <2>7. CASE UNCHANGED vars
    BY <2>7 DEF vars, House!house, Seated
  <2> QED BY <2>1, <2>2, <2>3, <2>4, <2>5, <2>6, <2>7 DEF Next, Arrive
<1> QED BY <1>1, <1>2, TypeCorrect, RoomInvHolds, AttachedIsSomeone, PTL
       DEF Spec, HouseSpec, House!Spec

=============================================================================
