------------------------------ MODULE MCLogger ------------------------------
EXTENDS Logger, TLC

Symmetry == Permutations(Sinks) \cup Permutations(Names)
=============================================================================
