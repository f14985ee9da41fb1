------------------------------ MODULE KeyStore ------------------------------
(***************************************************************************)
(* What NVStore promises (nvstore.h): items that change one call at a      *)
(* time.  A call that returns NVSTORE_SUCCESS has taken effect; one that   *)
(* fails, or that a loss of power cuts short, has taken effect wholly or   *)
(* not at all; nothing else ever changes an item.                          *)
(***************************************************************************)
CONSTANTS
  Calls,             \* the calls that change an item
  NoCall,
  Apply(_, _),       \* Apply(items, call): the items after the call
  Empty              \* the items of a blank flash

VARIABLES
  items,
  request,     \* the call in progress, or NoCall
  reply        \* how the last call ended: with "success", with an "error" or,
               \* as nobody was told, "lost" with the power; "none" before that

vars == <<items, request, reply>>

Init == items = Empty /\ request = NoCall /\ reply = "none"

Begin ==
  /\ request = NoCall
  /\ request' \in Calls /\ reply' = "none"
  /\ UNCHANGED items

TakeEffect ==
  /\ request # NoCall
  /\ items' = Apply(items, request)
  /\ UNCHANGED <<request, reply>>

(* Only a call that has taken effect returns success. *)
Succeed ==
  /\ request # NoCall
  /\ items' = Apply(items, request)
  /\ request' = NoCall /\ reply' = "success"

Fail ==
  /\ request # NoCall
  /\ items' \in {items, Apply(items, request)}
  /\ request' = NoCall /\ reply' = "error"

LosePower ==
  /\ items' \in {items} \cup (IF request = NoCall THEN {} ELSE {Apply(items, request)})
  /\ request' = NoCall /\ reply' = "lost"

Next == Begin \/ TakeEffect \/ Succeed \/ Fail \/ LosePower

Spec == Init /\ [][Next]_vars
=============================================================================
