----------------------------- MODULE MCRtxMutex -----------------------------
EXTENDS RtxMutex, TLC

CONSTANTS a, b, c, X, Y

MCThreads == {a, b, c, Idle}
Program(threads, timeouts, rules) ==
  [threads |-> threads, timeouts |-> timeouts, rules |-> rules]
MCPrograms ==
  {Program({a, b}, {1}, {"stacked"}),
   Program({a, b, c}, {1, Forever}, {"unnested", "settled", "lasting"})}
MCUnorderedPrograms == {Program({a, b}, {Forever}, {"settled"})}
MCSymmetry == Permutations({a, b}) \cup Permutations({X, Y})
=============================================================================
