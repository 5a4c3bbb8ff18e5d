------------------------------ MODULE RoomHouse ------------------------------
(***************************************************************************)
(* What the room promises about its door, with no sockets: who may take a  *)
(* seat and when a seat is lost.  DjRoom implements it.                    *)
(***************************************************************************)
CONSTANTS Device

VARIABLES
  seated,   \* devices in the session as participants
  trusted,  \* guests the host let in
  vouched,  \* devices that need no handshake: the owner's, or push-invited
  barred    \* devices the host banned

house == <<seated, trusted, vouched, barred>>

Init == seated = {} /\ trusted = {} /\ vouched = {} /\ barred = {}

\* A seat is taken by a device that was let in, never by a barred one.
TakeSeats ==
  /\ seated' \ seated \subseteq (trusted \cup vouched) \ barred
  /\ UNCHANGED <<trusted, vouched, barred>>

\* The host lets a device in; if it is there, it is seated at once.
Trust(d) ==
  /\ trusted' = trusted \cup {d}
  /\ seated' \in {seated, seated \cup ({d} \ barred)}
  /\ UNCHANGED <<vouched, barred>>

\* Removal takes the trust and the seat together.
Remove(d) ==
  /\ trusted' = trusted \ {d} /\ seated' = seated \ {d}
  /\ vouched' = vouched \ {d}
  /\ UNCHANGED barred

\* A ban takes the seat and closes the door for good.
Bar(d) ==
  /\ barred' = barred \cup {d} /\ seated' = seated \ {d}
  /\ vouched' = vouched \ {d}
  /\ UNCHANGED trusted

\* Devices arrive, go and lose seats; who is vouched for changes with them,
\* and nobody keeps a seat that only the lost voucher justified.
ComeAndGo ==
  /\ seated' \subseteq seated
  /\ vouched' \subseteq Device \ barred
  /\ seated' \subseteq trusted \cup vouched'
  /\ UNCHANGED <<trusted, barred>>

Next ==
  \/ TakeSeats \/ ComeAndGo
  \/ \E d \in Device : Trust(d) \/ Remove(d) \/ Bar(d)

Spec == Init /\ [][Next]_house
=============================================================================
