----------------------------- MODULE RtxKernel -----------------------------
(***************************************************************************)
(* What the modules of the kernel objects share: a kernel that has been    *)
(* started, with its threads and the idle thread, and the tick that ends   *)
(* waits with a timeout (without round robin, which RtxThread has).        *)
(***************************************************************************)
EXTENDS RtxCore, FiniteSets

CONSTANTS
  Idle,    \* the idle thread; it makes no service call
  Prios    \* priorities of the other threads

ASSUME IdleIsThread == Idle \in Threads
ASSUME PriosInRange == Prios \subseteq 1 .. 56   \* up to osPriorityISR

VARIABLES
  k,        \* the kernel value of RtxCore
  handler   \* what executes: "thread", "tick", or a step of a module's own

User == Threads \ {Idle}

(* The threads of s exist and the first, of the highest priority, runs. *)
Started(prio, s) ==
  [kstate |-> "Running", curr |-> Head(s), next |-> Head(s),
   state |-> [t \in Threads |-> IF t = Head(s) THEN "Running"
                               ELSE IF t \in ToSet(s) THEN "Ready"
                               ELSE "Inactive"],
   prio |-> prio, base |-> prio,
   delay |-> [t \in Threads |-> 0], ret |-> [t \in Threads |-> "osOK"],
   ready |-> Tail(s), objq |-> [o \in Objects |-> <<>>],
   dlist |-> <<>>, wait |-> {}]

KernelInit(existing) ==
  /\ \E p \in [existing -> Prios], s \in SetToSeqs(existing \cup {Idle}) :
       LET prio == [t \in Threads |-> IF t \in existing THEN p[t] ELSE 0]
       IN  Sorted(prio, s) /\ k = Started(prio, s)
  /\ handler = "thread"

(* The list of threads waiting for an object: osRtxThreadListPut and       *)
(* osRtxThreadListGet; the mutant queues a thread last.                    *)
EnqueueLast(kk, o, t) == [kk EXCEPT !.objq[o] = Append(@, t)]
Enqueue(kk, o, t) == [kk EXCEPT !.objq[o] = ListPut(kk.prio, @, t)]
Dequeue(kk, o) == [kk EXCEPT !.objq[o] = Tail(@)]

(* ... and all of them made ready with a result, the loop of every delete *)
UnblockAll(kk, o, r) ==
  FoldLeft(LAMBDA q, t : WaitExitReady(Dequeue(q, o), t, r), kk, kk.objq[o])

(* osRtxTick_Handler *)
TickBegin ==
  /\ handler = "thread"
  /\ k' = DelayCount(k) /\ handler' = "tick"

TickWake ==
  /\ handler = "tick" /\ DelayExpired(k)
  /\ k' = DelayWake(k) /\ UNCHANGED handler

TickEnd ==
  /\ handler = "tick" /\ ~DelayExpired(k)
  /\ k' = Return(DispatchReady(k)) /\ handler' = "thread"

Tick == TickBegin \/ TickWake \/ TickEnd

-----------------------------------------------------------------------------
(* The list of every object holds the threads whose state says that they   *)
(* wait for an object of its kind, each in one list and once, the highest  *)
(* priority first, through timeouts, wakeups and changes of priority.      *)
WaitersListed(st) ==
  /\ \A t \in Threads :
       Cardinality({o \in Objects : t \in ToSet(k.objq[o])}) =
         IF k.state[t] = st THEN 1 ELSE 0
  /\ \A o \in Objects :
       IsInjective(k.objq[o]) /\ Sorted(k.prio, k.objq[o])

(* When the core returns to a thread, it is the one with the highest       *)
(* priority.                                                               *)
NoneHigherReady ==
  \A i \in DOMAIN k.ready : k.prio[k.ready[i]] <= k.prio[k.curr]
=============================================================================
