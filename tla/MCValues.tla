------------------------------- MODULE MCValues -------------------------------
EXTENDS Values, TLC

ObjectSymmetry == Permutations(Object)
=============================================================================
