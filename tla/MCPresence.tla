------------------------------ MODULE MCPresence ------------------------------
(* One account, two rooms, two sockets each, a grace of one unit of time.   *)
EXTENDS Presence

=============================================================================
