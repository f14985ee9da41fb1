----------------------------- MODULE RtxObjects -----------------------------
(***************************************************************************)
(* The kernel objects that interrupt handlers may use, in one kernel:      *)
(* semaphores, event flags and thread flags, memory pools and message      *)
(* queues, with one ISR queue, one PendSV, one tick and threads that use   *)
(* them all.  Which of them a behaviour has is fixed at its beginning      *)
(* (use); mutexes, which handlers may not use, are in RtxMutex.            *)
(***************************************************************************)
EXTENDS RtxSemaphore, RtxFlags, RtxMessageQueue

vars == <<postVars, semVars, flagVars, poolVars, msgVars>>

Init == PostInit /\ SemInit /\ FlagInit /\ PoolInit /\ MsgInit

(* Threads, PendSV and the tick. *)
Step ==
  \/ KernelStep /\ UNCHANGED <<semVars, flagVars, poolVars, msgVars>>
  \/ SemStep /\ UNCHANGED <<flagVars, poolVars, msgVars>>
  \/ FlagStep /\ UNCHANGED <<semVars, poolVars, msgVars>>
  \/ PoolStep /\ UNCHANGED <<semVars, flagVars, msgVars>>
  \/ MsgStep /\ UNCHANGED <<semVars, flagVars>>

(* Interrupt handlers. *)
Isr ==
  \/ SemIsr /\ UNCHANGED <<flagVars, poolVars, msgVars>>
  \/ FlagIsr /\ UNCHANGED <<semVars, poolVars, msgVars>>
  \/ PoolIsr /\ UNCHANGED <<semVars, flagVars, msgVars>>
  \/ MsgIsr /\ UNCHANGED <<semVars, flagVars>>

Next ==
  \/ Resumed /\ Step
  \/ Isr

Spec == Init /\ [][Next]_vars

-----------------------------------------------------------------------------
(* Properties. *)

(* Every variable keeps its type: no counter leaves its range, the ISR     *)
(* queue holds no more than it has room for, no block is in two lists.     *)
TypeOK ==
  /\ k \in KernelType /\ (handler = "thread" => k.next = k.curr)
  /\ handler \in {"thread", "svc", "wait", "semCount", "flagSet", "flagPost",
                  "poolLink", "poolWake", "msgTake", "msgLink", "msgWake",
                  "msgCount", "msgNext", "msgDrain", "pendsv", "tick", "halted"}
  /\ Len(isrq) <= MaxQueued /\ active \in [Objects -> BOOLEAN]
  /\ SemTypeOK /\ FlagTypeOK /\ PoolTypeOK /\ MsgTypeOK

(* Nothing is lost, made up or given to two: tokens, flags, blocks and     *)
(* messages are what was released, set, freed and put, and not yet         *)
(* acquired, cleared, allocated and got, wherever handlers run in between. *)
NothingLost ==
  TokensConserved /\ FlagsAccounted /\ BlocksAccounted /\ MessagesConserved

(* No lost wakeup: when a thread runs, none waits for what is there,       *)
(* whether a thread or a handler made it available, before the wait, in    *)
(* the middle of it or during the work of PendSV.                          *)
NoLostWakeup ==
  ThreadRuns /\ Resumed =>
    /\ active[Sem] => SemServed
    /\ FlagsServed
    /\ active[Pool] => PoolServed
    /\ active[Queue] => QueueServed

(* Who waits for an object is in its list, once and in the order of        *)
(* priorities, through timeouts and wakeups; nobody waits for one that was *)
(* deleted; messages are in order too.                                     *)
WaitersServed ==
  /\ \A t \in Threads :
       Cardinality({o \in Objects : t \in ToSet(Waiting(o))}) =
         IF k.state[t] \in WaitStates \ {"WaitingThreadFlags"} THEN 1 ELSE 0
  /\ \A o \in Objects :
       /\ IsInjective(Waiting(o)) /\ Sorted(k.prio, Waiting(o))
       /\ Waiting(o) # <<>> => active[o]
  /\ MessagesSorted

(* When the core returns to a thread, it is the one with the highest       *)
(* priority, whoever was woken by which handler.                           *)
HighestPriorityRuns == ThreadRuns => NoneHigherReady
=============================================================================
