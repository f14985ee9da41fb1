------------------------------ MODULE MCEQueue ------------------------------
EXTENDS EQueue

Kind(delay, period) == [delay |-> delay, period |-> period]

(* Two events whose memory is used again, and a dispatch that times out *)
Reuse ==
  [slab |-> 2, ids |-> 2, kinds |-> {Kind(0, -1), Kind(1, -1), Kind(1, 1)},
   timeouts |-> {-1, 0}, breaks |-> FALSE]
(* A dispatch that is broken *)
Broken ==
  [slab |-> 2, ids |-> 1, kinds |-> {Kind(0, -1), Kind(1, 1)},
   timeouts |-> {-1}, breaks |-> TRUE]
(* Three events: siblings in front of a later slot *)
Siblings ==
  [slab |-> 3, ids |-> 1, kinds |-> {Kind(1, -1), Kind(2, -1), Kind(1, 1)},
   timeouts |-> {-1}, breaks |-> FALSE]

MCUses == {Reuse, Broken, Siblings}
=============================================================================
