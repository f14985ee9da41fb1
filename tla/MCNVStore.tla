------------------------------ MODULE MCNVStore ------------------------------
EXTENDS NVStore, TLC

CONSTANTS t1, t2, v1, v2

MCThreads == {t1, t2}
MCValues == {v1, v2}
MCRules == {"heed errors", "plain at the limit", "set_once apart"}
MCRemoveRules == {"heed errors", "set_once apart"}
MCSymmetry == Permutations(MCThreads) \cup Permutations(MCValues)
=============================================================================
