--------------------------- MODULE MCRateLimiting ---------------------------
EXTENDS RateLimiting, TLC

MCSymmetry == Permutations(Calls) \cup Permutations(Instances)
=============================================================================
