------------------------------- MODULE DjRoom -------------------------------
(***************************************************************************)
(* One Durable Object per session (server/room.ts): who is in the room,    *)
(* who may drive which deck, who holds the clock ("anchor"), and whether   *)
(* the room is open to an anonymous crowd.  The board the room relays has  *)
(* no part in these decisions.                                             *)
(*                                                                         *)
(* A handler runs to completion between two events: the runtime delivers   *)
(* no event while a storage operation is awaited, so each handler is one   *)
(* action.  A socket's attachment survives hibernation; a restart (deploy, *)
(* crash) drops every socket and everything that is only in memory.        *)
(***************************************************************************)
EXTENDS Naturals, FiniteSets

CONSTANTS
  Device,       \* device ids; a tab keeps its id across reloads and modes
  Sock,         \* server-side sockets that can exist at one time
  Deck,         \* the two decks; holding both is full control ("AB")
  NoOne,        \* no device, no deck
  Mobile,       \* devices whose kind is a phone or a tablet
  Doors,        \* the identities the Worker may stamp on a device's upgrade
  MaxListeners, \* MAX_LISTENERS
  Gates,        \* the stage gates the host of this instance sets
  LateFrames,   \* may the runtime deliver a frame of a socket the room closed?
  Restarts      \* may the runtime restart the object?

Door == {"host", "guest", "invited", "pub"}
StageGate == {"request", "open", "closed"}

ASSUME RoomConstants ==
  /\ NoOne \notin Device /\ NoOne \notin Deck
  /\ Deck # {} /\ \A k \in Deck : Deck # {k}
  /\ Mobile \subseteq Device
  /\ Doors \in [Device -> SUBSET Door]
  /\ Gates \subseteq StageGate
  /\ MaxListeners \in Nat
  /\ LateFrames \in BOOLEAN /\ Restarts \in BOOLEAN

VARIABLES
  conn,       \* the sockets the runtime holds, with their attachments
  anchor,     \* anchorId (durable)
  isPublic,   \* open to the crowd (durable)
  stageGate,  \* how the crowd reaches the decks (durable)
  approved,   \* guests the host let in (durable)
  grants,     \* devices the host gave both decks (durable)
  banned,     \* devices the host banned (durable)
  grace,      \* the device whose drop the pending grace timer captured
  refused     \* devices with a lingering "room full" socket, no attachment

durable == <<stageGate, approved, grants, banned>>
vars == <<conn, anchor, isPublic, stageGate, approved, grants, banned, grace, refused>>

(***************************************************************************)
(* The attachment, reduced to the flags the handlers branch on.  `open' is *)
(* false once the room closed the socket; the runtime still lists it until *)
(* the client's half of the close arrives.                                 *)
(***************************************************************************)
Attachment ==
  [device : Device \cup {NoOne}, host : BOOLEAN, invited : BOOLEAN,
   joined : BOOLEAN, pending : BOOLEAN, pub : BOOLEAN, stage : BOOLEAN,
   decks : SUBSET Deck, stageReq : Deck \cup {NoOne}, open : BOOLEAN]

Idle ==
  [device |-> NoOne, host |-> FALSE, invited |-> FALSE, joined |-> FALSE,
   pending |-> FALSE, pub |-> FALSE, stage |-> FALSE, decks |-> {},
   stageReq |-> NoOne, open |-> FALSE]

Fresh(d, door) ==
  [device |-> d, host |-> door = "host", invited |-> door = "invited",
   joined |-> door = "pub", pending |-> FALSE, pub |-> door = "pub",
   stage |-> FALSE, open |-> TRUE, stageReq |-> NoOne,
   decks |-> IF door # "pub" /\ d \in grants THEN Deck ELSE {}]

-----------------------------------------------------------------------------
(* Queries over the sockets of a device, as the helpers make them.         *)

SocketsOf(c, d) == {s \in Sock : c[s].device = d}
IsLive(c, d) == SocketsOf(c, d) # {} \/ d \in refused
IsJoined(c, d) == \E s \in SocketsOf(c, d) : c[s].joined
IsHostDevice(c, d) == \E s \in SocketsOf(c, d) : c[s].host
IsStage(c, d) == \E s \in SocketsOf(c, d) : c[s].stage
IsControlling(c, d) == \E s \in SocketsOf(c, d) : c[s].joined /\ c[s].decks # {}
DeckHeldByStage(c, k) == \E s \in Sock : c[s].stage /\ c[s].decks = {k}
Listeners(c) == {c[s].device : s \in {t \in Sock : c[t].pub}}

Closed(c, S) == [s \in Sock |-> IF s \in S THEN [c[s] EXCEPT !.open = FALSE] ELSE c[s]]

Or(S, T) == IF S # {} THEN S ELSE T

\* Mutant: the clock may go to a device that is connected and not in the session.
NextAnchorUnjoined(c, except) ==
  LET able == {s \in Sock : c[s].device \notin {NoOne, except} /\ ~c[s].pub /\ ~c[s].stage}
  IN Or({c[s].device : s \in able}, {NoOne})

\* A controlling desktop, or any controller, or a desktop of the owner, or any
\* device of the owner, or anyone.  The sockets are scanned in an order the
\* runtime does not promise: the first of the best rank is any of that rank.
NextAnchor(c, except) ==
  LET able == {s \in Sock : /\ c[s].device \notin {NoOne, except}
                            /\ c[s].joined /\ ~c[s].pub /\ ~c[s].stage}
      drivers == {s \in able : c[s].decks # {}}
      hosts == {s \in able : c[s].host}
      Desktops(S) == {s \in S : c[s].device \notin Mobile}
      best == Or(Desktops(drivers), Or(drivers, Or(Desktops(hosts), Or(hosts, able))))
  IN Or({c[s].device : s \in best}, {NoOne})

\* The anchors `settle' may leave behind once the sockets are c.
Settled(c, self) ==
  LET active == anchor # NoOne /\ IsJoined(c, anchor)
      drives == IsControlling(c, anchor)
      owned == IsHostDevice(c, anchor)
      owner == IsHostDevice(c, self) /\ IsJoined(c, self)
      takes == \/ IsJoined(c, self) /\ ~active
               \/ /\ active /\ self # anchor
                  /\ \/ ~drives /\ IsControlling(c, self)
                     \/ ~drives /\ ~owned /\ owner
                     \/ /\ owner /\ owned /\ self \notin Mobile /\ anchor \in Mobile
                        /\ IsControlling(c, self) \/ ~drives
  IN IF IsStage(c, self) THEN {anchor}
     ELSE IF takes THEN {self}
     ELSE IF ~IsJoined(c, self) /\ self = anchor THEN NextAnchor(c, self)
     ELSE {anchor}

Init ==
  /\ conn = [s \in Sock |-> Idle]
  /\ anchor = NoOne /\ grace = NoOne
  /\ isPublic = FALSE /\ stageGate = "request"
  /\ approved = {} /\ grants = {} /\ banned = {} /\ refused = {}

-----------------------------------------------------------------------------
(* Upgrades (fetch).                                                       *)

\* Mutant: a reconnect does not replace the device's older socket.
ConnectBeside(s, d, door) ==
  /\ conn[s].device = NoOne /\ door \in Doors[d] /\ d \notin banned
  /\ door = "pub" => isPublic
  /\ conn' = [conn EXCEPT ![s] = Fresh(d, door)]
  /\ UNCHANGED <<anchor, isPublic, durable, grace, refused>>

Connect(s, d, door) ==
  /\ conn[s].device = NoOne
  /\ door \in Doors[d] /\ d \notin banned
  /\ door = "pub" => /\ isPublic
                     /\ \/ Cardinality(Listeners(conn)) < MaxListeners
                        \/ IsLive(conn, d)
  /\ conn' = [Closed(conn, SocketsOf(conn, d)) EXCEPT ![s] = Fresh(d, door)]
  /\ UNCHANGED <<anchor, isPublic, durable, grace, refused>>

\* At capacity the socket is accepted only to be told why, and closed.
TurnAway(d) ==
  /\ "pub" \in Doors[d] /\ d \notin banned /\ isPublic
  /\ Cardinality(Listeners(conn)) >= MaxListeners /\ ~IsLive(conn, d)
  /\ refused' = refused \cup {d}
  /\ UNCHANGED <<conn, anchor, isPublic, durable, grace>>

RefusedGone(d) ==
  /\ d \in refused
  /\ refused' = refused \ {d}
  /\ UNCHANGED <<conn, anchor, isPublic, durable, grace>>

-----------------------------------------------------------------------------
(* Frames (webSocketMessage).  A crowd socket only reaches the handlers of *)
(* PUB_ALLOWED: of those modelled here, `stage' and `leave'.               *)

Speaks(s) == conn[s].device # NoOne /\ (conn[s].open \/ LateFrames)
Writes(s) == Speaks(s) /\ ~conn[s].pub
Hosts(s) == Writes(s) /\ IsHostDevice(conn, conn[s].device)

\* Mutant: a second knock opens the door.
JoinKnockTwice(s) ==
  LET in == conn[s].host \/ conn[s].device \in approved \/ conn[s].invited \/ conn[s].pending
  IN /\ Writes(s)
     /\ conn' = [conn EXCEPT ![s].joined = in, ![s].pending = ~in]
     /\ anchor' \in IF in THEN Settled(conn', conn[s].device) ELSE {anchor}
     /\ UNCHANGED <<isPublic, durable, grace, refused>>

Join(s) ==
  /\ Writes(s)
  /\ \/ /\ conn[s].host \/ conn[s].device \in approved \/ conn[s].invited
        /\ conn' = [conn EXCEPT ![s].joined = TRUE, ![s].pending = FALSE]
        /\ anchor' \in Settled(conn', conn[s].device)
     \/ /\ ~(conn[s].host \/ conn[s].device \in approved \/ conn[s].invited)
        /\ conn' = [conn EXCEPT ![s].joined = FALSE, ![s].pending = TRUE]
        /\ UNCHANGED anchor
  /\ UNCHANGED <<isPublic, durable, grace, refused>>

Control(s, on) ==
  /\ Writes(s) /\ conn[s].joined
  /\ on => conn[s].host
  /\ conn' = [conn EXCEPT ![s].decks = IF on THEN Deck ELSE {}]
  /\ anchor' \in Settled(conn', conn[s].device)
  /\ UNCHANGED <<isPublic, durable, grace, refused>>

\* Sound is each device's own business, but the handler settles the clock.
Listen(s) ==
  /\ Writes(s) /\ conn[s].joined
  /\ anchor' \in Settled(conn, conn[s].device)
  /\ UNCHANGED <<conn, isPublic, durable, grace, refused>>

Grant(s, d, on) ==
  /\ Hosts(s) /\ IsJoined(conn, d)
  /\ conn' = [t \in Sock |-> IF conn[t].device = d
                             THEN [conn[t] EXCEPT !.decks = IF on THEN Deck ELSE {}]
                             ELSE conn[t]]
  /\ grants' = IF on THEN grants \cup {d} ELSE grants \ {d}
  /\ anchor' \in Settled(conn', d)
  /\ UNCHANGED <<isPublic, stageGate, approved, banned, grace, refused>>

Approve(s, d) ==
  /\ Hosts(s) /\ IsLive(conn, d) /\ ~IsHostDevice(conn, d)
  /\ approved' = approved \cup {d}
  /\ conn' = [t \in Sock |-> IF conn[t].device = d
                             THEN [conn[t] EXCEPT !.joined = TRUE, !.pending = FALSE]
                             ELSE conn[t]]
  /\ anchor' \in Settled(conn', d)
  /\ UNCHANGED <<isPublic, stageGate, grants, banned, grace, refused>>

Evict(d) ==
  /\ conn' = Closed(conn, SocketsOf(conn, d))
  /\ anchor' \in IF d = anchor THEN NextAnchor(conn', d) ELSE {anchor}

Deny(s, d) ==
  /\ Hosts(s) /\ ~IsHostDevice(conn, d)
  /\ Evict(d)
  /\ UNCHANGED <<isPublic, durable, grace, refused>>

\* Mutant: a kick takes the approval back and leaves the socket in the room.
KickSeated(s, d) ==
  /\ Hosts(s) /\ d # conn[s].device /\ ~IsHostDevice(conn, d)
  /\ approved' = approved \ {d} /\ grants' = grants \ {d}
  /\ UNCHANGED <<conn, anchor, isPublic, stageGate, banned, grace, refused>>

Kick(s, d) ==
  /\ Hosts(s) /\ d # conn[s].device /\ ~IsHostDevice(conn, d)
  /\ approved' = approved \ {d}
  /\ grants' = grants \ {d}
  /\ Evict(d)
  /\ UNCHANGED <<isPublic, stageGate, banned, grace, refused>>

\* Mutant: a ban is remembered for the next upgrade only.
BanSeated(s, d) ==
  /\ Hosts(s) /\ d # conn[s].device /\ ~IsHostDevice(conn, d)
  /\ banned' = banned \cup {d}
  /\ UNCHANGED <<conn, anchor, isPublic, stageGate, approved, grants, grace, refused>>

Ban(s, d) ==
  /\ Hosts(s) /\ d # conn[s].device /\ ~IsHostDevice(conn, d)
  /\ banned' = banned \cup {d}
  /\ Evict(d)
  /\ UNCHANGED <<isPublic, stageGate, approved, grants, grace, refused>>

-----------------------------------------------------------------------------
(* The floor and the stage.                                                *)

PromoteToStage(d, k) ==
  LET up == {t \in SocketsOf(conn, d) : conn[t].pub}
  IN /\ conn' = [t \in Sock |-> IF t \in up
                   THEN [conn[t] EXCEPT !.pub = FALSE, !.joined = TRUE, !.decks = {k},
                                        !.stage = TRUE, !.stageReq = NoOne]
                   ELSE conn[t]]
     /\ anchor' \in IF up = {} THEN {anchor} ELSE Settled(conn', d)
     /\ UNCHANGED grants

\* Mutant: a performer sent back to the floor has its hand set to no decks.
ReturnToFloorMixed(d) ==
  /\ conn' = [t \in Sock |-> IF conn[t].device = d
                THEN [conn[t] EXCEPT !.pub = TRUE, !.joined = TRUE, !.decks = {},
                                     !.stage = FALSE, !.stageReq = {}]
                ELSE conn[t]]
  /\ grants' = grants \ {d} /\ UNCHANGED anchor

ReturnToFloor(d) ==
  /\ conn' = [t \in Sock |-> IF conn[t].device = d
                THEN [conn[t] EXCEPT !.pub = TRUE, !.joined = TRUE, !.decks = {},
                                     !.stage = FALSE, !.stageReq = NoOne]
                ELSE conn[t]]
  /\ grants' = grants \ {d}
  /\ anchor' \in IF d = anchor THEN NextAnchor(conn', d) ELSE {anchor}

\* A listener asks for deck k: a grab in open mode, a raised hand in request
\* mode, refused when the decks are closed.
AskForDeck(s, k) ==
  /\ Speaks(s) /\ conn[s].pub
  /\ \/ /\ stageGate = "open" /\ ~DeckHeldByStage(conn, k)
        /\ PromoteToStage(conn[s].device, k)
     \/ /\ stageGate = "request"
        /\ conn' = [conn EXCEPT ![s].stageReq = k]
        /\ UNCHANGED <<anchor, grants>>
  /\ UNCHANGED <<isPublic, stageGate, approved, banned, grace, refused>>

\* The same frame without a deck: step down, or lower the hand.
StepDown(s) ==
  /\ Speaks(s)
  /\ \/ conn[s].stage /\ ReturnToFloor(conn[s].device)
     \/ /\ ~conn[s].stage /\ conn[s].pub /\ conn[s].stageReq # NoOne
        /\ conn' = [conn EXCEPT ![s].stageReq = NoOne]
        /\ UNCHANGED <<anchor, grants>>
  /\ UNCHANGED <<isPublic, stageGate, approved, banned, grace, refused>>

StageApprove(s, d, k) ==
  /\ Hosts(s) /\ IsLive(conn, d)
  /\ PromoteToStage(d, k)
  /\ UNCHANGED <<isPublic, stageGate, approved, banned, grace, refused>>

StageDeny(s, d) ==
  /\ Hosts(s) /\ d # conn[s].device /\ ~IsHostDevice(conn, d)
  /\ ReturnToFloor(d)
  /\ UNCHANGED <<isPublic, stageGate, approved, banned, grace, refused>>

SetStageGate(s, m) ==
  /\ Hosts(s) /\ m # stageGate
  /\ stageGate' = m
  /\ UNCHANGED <<conn, anchor, isPublic, approved, grants, banned, grace, refused>>

-----------------------------------------------------------------------------
(* Leaving, and the broadcast plane.                                       *)

\* Mutant: leaving revokes the grant and not the decks in hand.
LeaveDriving(s) ==
  /\ Speaks(s)
  /\ conn' = [conn EXCEPT ![s].joined = FALSE, ![s].stage = FALSE]
  /\ grants' = grants \ {conn[s].device}
  /\ anchor' \in Settled(conn', conn[s].device)
  /\ UNCHANGED <<isPublic, stageGate, approved, banned, grace, refused>>

Leave(s) ==
  /\ Speaks(s)
  /\ conn' = [conn EXCEPT ![s].joined = FALSE, ![s].decks = {},
                          ![s].stage = FALSE, ![s].stageReq = NoOne]
  /\ grants' = grants \ {conn[s].device}
  /\ anchor' \in Settled(conn', conn[s].device)
  /\ UNCHANGED <<isPublic, stageGate, approved, banned, grace, refused>>

EndBroadcast ==
  /\ isPublic' = FALSE
  /\ conn' = Closed(conn, {s \in Sock : conn[s].pub \/ conn[s].stage})

Publish(s, on) ==
  /\ Hosts(s)
  /\ \/ on /\ isPublic' = TRUE /\ UNCHANGED conn
     \/ ~on /\ EndBroadcast
  /\ UNCHANGED <<anchor, durable, grace, refused>>

-----------------------------------------------------------------------------
(* What the runtime does to the room.                                      *)

\* webSocketClose, for a socket of device d that is not d's last one, and for
\* the last one of a device that does or does not hold the clock.
SocketGone(s) ==
  LET d == conn[s].device
      c == [conn EXCEPT ![s] = Idle]
      next == NextAnchor(c, d)
  IN /\ d # NoOne
     /\ conn' = c
     /\ \/ /\ IsLive(c, d) \/ d # anchor
           /\ UNCHANGED <<anchor, grace>>
        \/ /\ ~IsLive(c, d) /\ d = anchor /\ next # {NoOne}
           /\ anchor' \in next
           /\ UNCHANGED grace
        \/ /\ ~IsLive(c, d) /\ d = anchor /\ next = {NoOne}
           /\ grace' = IF grace = NoOne THEN d ELSE grace
           /\ UNCHANGED anchor
     /\ UNCHANGED <<isPublic, durable, refused>>

\* Mutant: with no successor the timer leaves the broadcast running.
GraceExpiresStranding ==
  LET next == NextAnchor(conn, grace)
  IN /\ grace # NoOne /\ grace' = NoOne
     /\ anchor' \in IF anchor = grace /\ ~IsJoined(conn, grace) /\ next # {NoOne}
                    THEN next ELSE {anchor}
     /\ UNCHANGED <<conn, isPublic, durable, refused>>

\* scheduleAnchorGrace's timer, ANCHOR_GRACE_MS after the drop it captured.
GraceExpires ==
  LET next == NextAnchor(conn, grace)
      stale == anchor = grace /\ ~IsJoined(conn, grace)
  IN /\ grace # NoOne
     /\ grace' = NoOne
     /\ \/ /\ ~stale
           /\ UNCHANGED <<conn, anchor, isPublic>>
        \/ /\ stale /\ next = {NoOne} /\ isPublic
           /\ EndBroadcast /\ UNCHANGED anchor
        \/ /\ stale /\ ~(next = {NoOne} /\ isPublic)
           /\ anchor' \in next /\ UNCHANGED <<conn, isPublic>>
     /\ UNCHANGED <<durable, refused>>

\* A deploy or a crash: sockets and timers are lost, storage is reloaded.
Restart ==
  /\ Restarts
  /\ conn' = [s \in Sock |-> Idle]
  /\ grace' = NoOne /\ refused' = {}
  /\ UNCHANGED <<anchor, isPublic, durable>>

Frame(s) ==
  \/ Join(s) \/ Listen(s) \/ StepDown(s) \/ Leave(s)
  \/ \E on \in BOOLEAN : Control(s, on) \/ Publish(s, on)
  \/ \E k \in Deck : AskForDeck(s, k)
  \/ \E m \in Gates : SetStageGate(s, m)
  \/ \E d \in Device :
       \/ Approve(s, d) \/ Deny(s, d) \/ Kick(s, d) \/ Ban(s, d) \/ StageDeny(s, d)
       \/ \E on \in BOOLEAN : Grant(s, d, on)
       \/ \E k \in Deck : StageApprove(s, d, k)

Arrive(d) == TurnAway(d) \/ \E s \in Sock, door \in Door : Connect(s, d, door)

Next ==
  \/ \E d \in Device : Arrive(d) \/ RefusedGone(d)
  \/ \E s \in Sock : Frame(s) \/ SocketGone(s)
  \/ GraceExpires
  \/ Restart

Spec == Init /\ [][Next]_vars

\* The timer fires and the runtime finishes every close the room began;
\* nothing obliges a client to send a frame or to come back.
FairSpec ==
  /\ Spec
  /\ WF_vars(GraceExpires)
  /\ \A s \in Sock : WF_vars(~conn[s].open /\ SocketGone(s))

-----------------------------------------------------------------------------
(* Properties.                                                             *)

\* Every variable keeps its shape; a hand is raised only for a real deck.
TypeOK ==
  /\ conn \in [Sock -> Attachment]
  /\ anchor \in Device \cup {NoOne} /\ grace \in Device \cup {NoOne}
  /\ isPublic \in BOOLEAN /\ stageGate \in StageGate
  /\ approved \subseteq Device /\ grants \subseteq Device
  /\ banned \subseteq Device /\ refused \subseteq Device

\* A reconnect replaces: a device never has two sockets the room still serves.
OneOpenSocket ==
  \A s, t \in Sock :
    conn[s].open /\ conn[t].open /\ conn[s].device = conn[t].device => s = t

\* A participant's seat: in the session, neither crowd nor stage.
Seated(s) == conn[s].open /\ conn[s].joined /\ ~conn[s].pub /\ ~conn[s].stage

\* The handshake is the only door: whoever is seated is the owner, holds a
\* push-invite, or was approved and not kicked since.
DoorHeld ==
  \A s \in Sock : Seated(s) =>
    conn[s].host \/ conn[s].invited \/ conn[s].device \in approved

\* A guest who may drive the whole board holds a grant that is still in force,
\* through refreshes, kicks, demotions and departures.
DriveIsGranted ==
  \A s \in Sock :
    conn[s].open /\ conn[s].decks = Deck /\ ~conn[s].host => conn[s].device \in grants

\* A ban holds: no socket the room serves belongs to a banned device.
BannedStayOut == \A s \in Sock : conn[s].open => conn[s].device \notin banned

\* The three together, which every handler preserves.
RoomInv == OneOpenSocket /\ DoorHeld /\ BannedStayOut

\* Handlers that settle the clock on a device without asking what it is in the room:
\* the host's approve and grant, and the device's own leave with a socket still closing.
SettlesUnasked(d) ==
  \E s \in Sock :
    \/ Approve(s, d)
    \/ \E on \in BOOLEAN : Grant(s, d, on)
    \/ conn[s].device = d /\ Leave(s)

\* Whenever the clock moves to a device, that device is in the session through a
\* socket that is not performing from the stage and, unless one of those three
\* handlers settled it, is no listener of the crowd.
ClockGoesToAMember ==
  [][anchor' \in {anchor, NoOne} \/
     \E s \in Sock : /\ conn'[s].device = anchor' /\ conn'[s].joined /\ ~conn'[s].stage
                     /\ conn'[s].pub => SettlesUnasked(anchor')]_vars

\* What the attachment's comment says of the crowd: the clock never moves to a device
\* that is in the room as a listener.  The three handlers above break it.
ListenersNeverAnchor ==
  [][anchor' \in {anchor, NoOne} \/
     \E s \in Sock : /\ conn'[s].device = anchor' /\ conn'[s].joined
                     /\ ~conn'[s].stage /\ ~conn'[s].pub]_vars

AnchorActive == anchor # NoOne /\ IsJoined(conn, anchor)
Stranded == isPublic /\ Listeners(conn) # {} /\ ~AnchorActive

\* The room keeps the promise of RoomHouse: a seat is had by being let in.
House == INSTANCE RoomHouse WITH
  seated <- {conn[s].device : s \in {t \in Sock : Seated(t)}},
  trusted <- approved,
  vouched <- {conn[s].device : s \in {t \in Sock : conn[t].open /\ (conn[t].host \/ conn[t].invited)}},
  barred <- banned
HouseSpec == House!Spec

\* A crowd whose clock dropped with the grace timer armed for that drop is not
\* left with a frozen mix: the clock comes back, moves, is given up, or the
\* broadcast ends.
GraceDecides ==
  (grace # NoOne /\ grace = anchor /\ Stranded) ~> (~Stranded \/ anchor = NoOne)
=============================================================================
