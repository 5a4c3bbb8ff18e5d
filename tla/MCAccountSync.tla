---------------------------- MODULE MCAccountSync ----------------------------
EXTENDS AccountSync

CONSTANTS phone, desk
=============================================================================
