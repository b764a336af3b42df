----------------------------- MODULE MCCampaign -----------------------------
EXTENDS Campaign, TLC

CONSTANTS c1, c2, w1, w2, none

MCDeliveries == {Ended(a) : a \in Attempts}
MCAttempts   == Attempts
MCTasks      == Attempts \union MCDeliveries
Symmetry     == Permutations(Lanes) \union Permutations(Contacts)
=============================================================================
