------------------------- MODULE MCCriticalSection -------------------------
(* Two threads and two nested interrupt levels, sections nested to depth 2. *)
EXTENDS CriticalSection, TLC

CONSTANTS t1, t2

MCThreads == {t1, t2}
MCIsrs == {1, 2}
MCSymmetry == Permutations(MCThreads)
=============================================================================
