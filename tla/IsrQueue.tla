------------------------------ MODULE IsrQueue ------------------------------
(***************************************************************************)
(* The queue in which RTX5 interrupt handlers leave objects for PendSV     *)
(* (isr_queue_put, isr_queue_get, osRtxPostProcess and the loop of         *)
(* osRtxPendSV_Handler in rtx_system.c), in the variant for cores with     *)
(* exclusive access: nothing is masked, each of the three accesses of a    *)
(* put or a get is atomic by itself.                                       *)
(*                                                                         *)
(* A handler may be preempted by a handler of a higher level between any   *)
(* two of them; PendSV has the lowest level and may be preempted by all.   *)
(***************************************************************************)
EXTENDS Integers, FiniteSets

CONSTANTS
  Objects,    \* kernel objects that handlers register
  Isrs,       \* interrupt handlers, named by their level
  Max,        \* isr_queue.max, OS_ISR_FIFO_QUEUE
  None,       \* no object
  OneSpare    \* TRUE: handlers leave the slot alone that PendSV is reading

ASSUME IsrsAreLevels == Isrs \subseteq Nat
ASSUME MaxPositive == Max \in Nat \ {0}
ASSUME NoneIsNoObject == None \notin Objects
ASSUME OneSpareIsBoolean == OneSpare \in BOOLEAN

VARIABLES
  cnt, in, out, data,   \* osRtxInfo.isr_queue
  put,      \* put[i]: the object handler i registers (None: not active)
  slot,     \* slot[i]: the n of its isr_queue_put, or Unset
  get,      \* PendSV: "idle", "next", "out" or "data"
  n,        \* the n of isr_queue_get
  pendSV,   \* PendSV is pending
  halted,   \* osRtxErrorNotify does not return
  owed      \* history: how often an object was accepted, less processed

vars == <<cnt, in, out, data, put, slot, get, n, pendSV, halted, owed>>
queue == <<cnt, in, out, data>>
pendsv == <<get, n>>

Unset == -1
Slots == 0 .. Max - 1

Init ==
  /\ cnt = 0 /\ in = 0 /\ out = 0
  /\ data = [s \in Slots |-> None]
  /\ put = [i \in Isrs |-> None]
  /\ slot = [i \in Isrs |-> Unset]
  /\ get = "idle" /\ n = 0
  /\ pendSV = FALSE /\ halted = FALSE
  /\ owed = [o \in Objects |-> 0]

Active(i) == put[i] # None
(* The core executes the active handler of the highest level. *)
Executes(i) == Active(i) /\ ~halted /\ \A j \in Isrs : Active(j) => j <= i
NoIsr == ~halted /\ \A i \in Isrs : ~Active(i)

(* atomic_inc16_lim; the mutant wraps a slot early. *)
IncLimEarly(v) == IF v + 2 >= Max THEN 0 ELSE v + 1
IncLim(v) == IF v + 1 >= Max THEN 0 ELSE v + 1

-----------------------------------------------------------------------------
(* isr_queue_put, called by osRtxPostProcess. *)

(* atomic_inc16_lt; the mutant lets one more in. *)
HasRoomOneMore(c) == c <= Max
HasRoom(c) == c < Max

Fetching == get \in {"out", "data"}

PutCount(i, o) ==
  /\ ~halted
  /\ \A j \in Isrs : Active(j) => j < i
  /\ OneSpare /\ Fetching => cnt < Max - 1
  /\ IF HasRoom(cnt)
       THEN /\ cnt' = cnt + 1
            /\ put' = [put EXCEPT ![i] = o]
            /\ UNCHANGED halted
       ELSE halted' = TRUE /\ UNCHANGED <<cnt, put>>
  /\ UNCHANGED <<in, out, data, slot, pendsv, pendSV, owed>>

PutSlot(i) ==
  /\ Executes(i) /\ slot[i] = Unset
  /\ slot' = [slot EXCEPT ![i] = in]
  /\ in' = IncLim(in)
  /\ UNCHANGED <<cnt, out, data, put, pendsv, pendSV, halted, owed>>

(* The write, and SetPendSV. *)
PutData(i) ==
  /\ Executes(i) /\ slot[i] # Unset
  /\ data' = [data EXCEPT ![slot[i]] = put[i]]
  /\ owed' = [owed EXCEPT ![put[i]] = @ + 1]
  /\ pendSV' = TRUE
  /\ put' = [put EXCEPT ![i] = None]
  /\ slot' = [slot EXCEPT ![i] = Unset]
  /\ UNCHANGED <<cnt, in, out, pendsv, halted>>

-----------------------------------------------------------------------------
(* osRtxPendSV_Handler and isr_queue_get. *)

PendSvEntry ==
  /\ NoIsr /\ get = "idle" /\ pendSV
  /\ get' = "next" /\ pendSV' = FALSE
  /\ UNCHANGED <<queue, put, slot, n, halted, owed>>

(* atomic_dec16_nz, or the end of the loop *)
GetCount ==
  /\ NoIsr /\ get = "next"
  /\ IF cnt = 0
       THEN get' = "idle" /\ UNCHANGED cnt
       ELSE get' = "out" /\ cnt' = cnt - 1
  /\ UNCHANGED <<in, out, data, put, slot, n, pendSV, halted, owed>>

GetOut ==
  /\ NoIsr /\ get = "out"
  /\ n' = out /\ out' = IncLim(out)
  /\ get' = "data"
  /\ UNCHANGED <<cnt, in, data, put, slot, pendSV, halted, owed>>

(* The object is read and its post-processing called. *)
GetData ==
  /\ NoIsr /\ get = "data"
  /\ owed' = [owed EXCEPT ![data[n]] = @ - 1]
  /\ get' = "next"
  /\ UNCHANGED <<queue, put, slot, n, pendSV, halted>>

(* osRtxErrorNotify has reported an overflow and loops. *)
Halt == halted /\ UNCHANGED vars

Put(i) == (\E o \in Objects : PutCount(i, o)) \/ PutSlot(i) \/ PutData(i)
PendSV == PendSvEntry \/ GetCount \/ GetOut \/ GetData

Next == (\E i \in Isrs : Put(i)) \/ PendSV \/ Halt

Spec == Init /\ [][Next]_vars

-----------------------------------------------------------------------------
(* Properties. *)

(* isr_queue_put returns "1 - success" (rtx_system.c:33) for an object     *)
(* that is then processed exactly once: none is processed more often than  *)
(* it was accepted, and when PendSV is through none is left over.          *)
ProcessedOnce ==
  /\ \A o \in Objects : owed[o] >= 0
  /\ NoIsr /\ get = "idle" /\ ~pendSV => \A o \in Objects : owed[o] = 0

(* The handlers that have counted their object and have no slot yet *)
Counted == {i \in Isrs : Active(i) /\ slot[i] = Unset}

(* The number of slots that are reserved or written *)
Used == cnt + (IF get = "out" THEN 1 ELSE 0) - Cardinality(Counted)

(* The slots that have been written and not been read. *)
Queued ==
  ({(out + j) % Max : j \in 0 .. Used - 1} \ {slot[i] : i \in Isrs})
    \cup (IF get = "data" THEN {n} ELSE {})

(* Where the accepted objects are: each has a slot of its own between out  *)
(* and in, or is being read.  No put writes into a slot that is unread,    *)
(* and no get reads one that is reserved but not written.                  *)
EveryObjectQueued ==
  \A o \in Objects : owed[o] = Cardinality({s \in Queued : data[s] = o})
=============================================================================
