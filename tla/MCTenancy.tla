----------------------------- MODULE MCTenancy -----------------------------
EXTENDS Tenancy, TLC

CallSymmetry == Permutations(Calls)
=============================================================================
