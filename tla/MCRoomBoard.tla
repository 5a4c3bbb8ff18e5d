---------------------------- MODULE MCRoomBoard -----------------------------
(* The host with a listener, with another participant, with both; each     *)
(* scene allows what makes it interesting.                                 *)
EXTENDS RoomBoard

CONSTANTS a, b, c

Scene(who, late, m, d, r, h) ==
  [cast |-> who, late |-> late, left |-> [move |-> m, drop |-> d, restart |-> r, hand |-> h]]
Programme ==
  {Scene({a, c}, {}, 1, 1, 0, 0),      \* a reconnect of the listener or the host under a move
   Scene({a, c}, {c}, 0, 0, 1, 0),     \* a restart around a listener's arrival
   Scene({a, b}, {}, 0, 1, 0, 0),      \* a participant's reconnect, the clock with it
   Scene({a, b}, {}, 0, 0, 0, 2),      \* the clock goes and comes back
   Scene({a, b}, {b}, 1, 0, 0, 0),     \* a participant that comes late
   Scene({a, b, c}, {}, 2, 0, 0, 0)}   \* two drivers and a listener
Blip == {Scene({a, b}, {}, 0, 1, 0, 0)}
=============================================================================
