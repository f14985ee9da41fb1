---------------------------- MODULE MCRtxObjects ----------------------------
EXTENDS RtxObjects, TLC

CONSTANTS a, b, f, g, B1, B2, M1, M2

MCThreads == {a, b, Idle}
MCObjects == {Sem, Event, Pool, Queue}
MCBlocksOf == Pool :> {B1, B2} @@ Queue :> {M1, M2}
MCWants == {[flags |-> {f, g}, all |-> TRUE, clear |-> TRUE],
            [flags |-> {f}, all |-> FALSE, clear |-> FALSE]}

Using(objects, calls, timeouts) ==
  [objects |-> objects, calls |-> calls, timeouts |-> timeouts]
MCUses ==
  {Using({Sem}, {}, {0, 1, Forever}), Using({Event}, {}, {1, Forever}),
   Using({Pool}, {}, {0, 1, Forever}), Using({}, {"threadFlags"}, {1}),
   Using({Queue}, {"isrPut", "getWaits"}, {1}),
   Using({Queue}, {"isrPut", "isrGet"}, {1})}
MCTightUses == {Using({Pool}, {"tight"}, {Forever})}
MCMixedUses == {Using({Queue}, {"isrGet", "getWaits"}, {Forever})}

MCSymmetry == Permutations({a, b})
=============================================================================
