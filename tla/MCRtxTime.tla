------------------------------ MODULE MCRtxTime ------------------------------
EXTENDS RtxTime, TLC

CONSTANTS once, every, a, b

MCSymmetry == Permutations({a, b})
=============================================================================
