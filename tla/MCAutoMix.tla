---------------------------- MODULE MCAutoMix ----------------------------
EXTENDS AutoMix
CONSTANTS t1, t2
MCPlaylist == <<t2>>
MCStart == {[A |-> t1, B |-> None], [A |-> None, B |-> None], [A |-> None, B |-> t2]}
==========================================================================
