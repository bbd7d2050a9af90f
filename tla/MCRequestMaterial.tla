-------------------------- MODULE MCRequestMaterial --------------------------
EXTENDS RequestMaterial, TLC

CallSymmetry == Permutations(Calls)
=============================================================================
