------------------------------ MODULE RtxPost ------------------------------
(***************************************************************************)
(* What the kernel objects of RtxObjects share: service calls, waiting for *)
(* an object and deleting it, and how a call from an interrupt handler     *)
(* reaches the threads.  The handler changes an object, leaves it in the   *)
(* ISR queue (osRtxPostProcess) and makes PendSV pending; PendSV takes the *)
(* objects from the queue, does for each what could not be done in the     *)
(* handler, and dispatches.  The queue itself, access by access, is        *)
(* IsrQueue; here it is a sequence.                                        *)
(*                                                                         *)
(* An interrupt handler may run between any two steps of a service call,   *)
(* of PendSV or of the tick, and between the call and its first step.      *)
(* These three do not preempt each other, and a thread calls no service    *)
(* while PendSV is pending.                                                *)
(***************************************************************************)
EXTENDS RtxKernel

CONSTANTS
  MaxQueued,   \* size of the ISR queue, OS_ISR_FIFO_QUEUE
  Uses         \* what programs use: records of objects, calls and timeouts

ASSUME MaxQueuedPositive == MaxQueued \in Nat \ {0}
ASSUME UsesOK ==
  \A u \in Uses : /\ u.objects \subseteq Objects
                 /\ u.timeouts \subseteq Nat \cup {Forever}

VARIABLES
  isrq,      \* objects in the ISR queue
  pendSV,    \* PendSV is pending
  active,    \* object->state = osRtxObjectActive
  pending,   \* what a service call is about to wait for
  use        \* the use a behaviour is about; it does not change

isrVars == <<isrq, pendSV>>
postVars == <<k, handler, isrq, pendSV, active, pending, use>>

NoWait == [st |-> "none", obj |-> NoThread, timeout |-> 0]

PostInit ==
  /\ KernelInit(User)
  /\ isrq = <<>> /\ pendSV = FALSE
  /\ use \in Uses
  /\ active = [o \in Objects |-> o \in use.objects]
  /\ pending = NoWait

-----------------------------------------------------------------------------
(* SVC_Handler: a thread calls a service.  What the call is appears with   *)
(* its first step; one that fails or only reads does nothing.              *)
SvcEntry ==
  /\ handler = "thread" /\ ~pendSV /\ k.curr # Idle
  /\ handler' = "svc"
  /\ UNCHANGED <<k, isrq, pendSV, active, pending, use>>
Calling == handler = "svc"
EndCall == handler' = "thread"
SvcReturn ==
  Calling /\ EndCall /\ UNCHANGED <<k, isrq, pendSV, active, pending, use>>

(* A call finds that it has to wait ... *)
AboutToWait(st, o, d) ==
  /\ handler' = "wait"
  /\ pending' = [st |-> st, obj |-> o, timeout |-> d]
  /\ UNCHANGED k

(* ... unless it asked not to, *)
WaitOrFail(st, o, d) ==
  IF d = 0 THEN EndCall /\ UNCHANGED <<k, pending>> ELSE AboutToWait(st, o, d)

(* ... and waits: osRtxThreadWaitEnter, and osRtxThreadListPut unless it   *)
(* waits for its own thread flags.                                         *)
WaitEnters ==
  /\ handler = "wait"
  /\ LET k1 == WaitEnter(k, pending.st, pending.timeout, "osErrorTimeout")
     IN  k' = Return(IF pending.obj \in Objects
                       THEN Enqueue(k1, pending.obj, k.curr) ELSE k1)
  /\ EndCall /\ pending' = NoWait
  /\ UNCHANGED <<isrq, pendSV, active, use>>

(* The first thread waiting for an object gets what it waits for. *)
Waiting(o) == k.objq[o]
WakeFirst(o) ==
  k' = Return(WaitExitDispatch(Dequeue(k, o), Head(Waiting(o)), "osOK"))
WakeFirstLater(o) ==
  k' = WaitExitReady(Dequeue(k, o), Head(Waiting(o)), "osOK")

(* Deleting an object.  A handler finds it inactive or not yet, so the     *)
(* loop over the waiting threads is one step with that.                    *)
Delete(o) ==
  /\ Calling /\ active[o]
  /\ active' = [active EXCEPT ![o] = FALSE]
  /\ k' = IF Waiting(o) = <<>> THEN k
          ELSE Return(DispatchReady(UnblockAll(k, o, "osErrorResource")))
  /\ EndCall
  /\ UNCHANGED <<isrq, pendSV, pending, use>>

(* Creating it again in the same control block; its module adds the rest. *)
Create(o) ==
  /\ Calling /\ o \in use.objects /\ ~active[o]
  /\ active' = [active EXCEPT ![o] = TRUE]
  /\ EndCall
  /\ UNCHANGED <<k, isrq, pendSV, pending, use>>

-----------------------------------------------------------------------------
(* A handler may run here: not after a report that does not return. *)
Interruptible == handler # "halted"

(* osRtxPostProcess; the mutant takes one object too many.  An overflow is *)
(* reported and the report does not return (osRtxErrorNotify); the mutant  *)
(* drops the object.                                                       *)
QueueFitsOneMore == Len(isrq) <= MaxQueued
QueueFits == Len(isrq) < MaxQueued

PostOverflowDrops == UNCHANGED <<handler, isrq, pendSV>>
PostOverflow == handler' = "halted" /\ UNCHANGED isrVars

PostProcess(o) ==
  IF QueueFits
    THEN isrq' = Append(isrq, o) /\ pendSV' = TRUE /\ UNCHANGED handler
    ELSE PostOverflow

(* osRtxPendSV_Handler; the mutant does not dispatch. *)
PendSvEntry ==
  /\ handler = "thread" /\ pendSV
  /\ handler' = "pendsv" /\ pendSV' = FALSE
  /\ UNCHANGED <<k, isrq, active, pending, use>>

(* ... takes the next object, one of a given kind, *)
PendSvGet(Kind) ==
  /\ handler = "pendsv" /\ isrq # <<>> /\ Head(isrq) \in Kind
  /\ isrq' = Tail(isrq)
  /\ UNCHANGED <<pendSV, active, pending, use>>

PendSvDispatchMissing(kk) == kk
PendSvDispatch(kk) == DispatchReady(kk)

PendSvEnd ==
  /\ handler = "pendsv" /\ isrq = <<>>
  /\ k' = Return(PendSvDispatch(k)) /\ handler' = "thread"
  /\ UNCHANGED <<isrq, pendSV, active, pending, use>>

(* What is the same whatever the objects are. *)
KernelStep ==
  \/ SvcEntry \/ SvcReturn \/ WaitEnters \/ PendSvEntry \/ PendSvEnd
  \/ \E o \in Objects : Delete(o)
  \/ Tick /\ UNCHANGED <<isrq, pendSV, active, pending, use>>
  \/ handler = "halted" /\ UNCHANGED postVars

(* The core is in a thread, and PendSV has nothing to do before it. *)
ThreadRuns == handler = "thread" /\ ~pendSV
=============================================================================
