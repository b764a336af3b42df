---------------------------- MODULE MCSorCommand ----------------------------
EXTENDS SorCommand, TLC

CONSTANTS c1, w1, w2, none
=============================================================================
