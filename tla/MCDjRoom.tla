------------------------------ MODULE MCDjRoom ------------------------------
(* Small rooms for TLC: the owner's laptop, and devices that come and go.  *)
EXTENDS DjRoom, TLC

CONSTANTS h, g

OwnerAnd(kinds) == [d \in Device |-> IF d = h THEN {"host"} ELSE kinds]
PubDoors == OwnerAnd({"pub"})
AnyDoors == OwnerAnd({"guest", "invited", "pub"})
\* The owner may sign out of its own browser and listen like anyone else.
BothDoors == [OwnerAnd({"guest", "pub"}) EXCEPT ![h] = {"host", "pub"}]
AllGates == StageGate
NoGates == {}
Symmetry == Permutations(Sock) \cup Permutations(Deck)
=============================================================================
