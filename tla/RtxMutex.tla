------------------------------ MODULE RtxMutex ------------------------------
(***************************************************************************)
(* Mutexes of RTX5 (rtx_mutex.c): recursion, priority inheritance, robust  *)
(* release when the owner exits or is terminated, timeouts and deletion.   *)
(*                                                                         *)
(* A thread's mutexes form a doubly linked list, mutex_list, owner_next    *)
(* and owner_prev, kept here as the pointers they are, because the code    *)
(* does not keep it consistent: a mutex that is handed over to a waiting   *)
(* thread becomes the head of that thread's list without the old head's    *)
(* owner_prev being set.  A program has threads, timeouts and rules, which *)
(* name what it refrains from:                                             *)
(*   "stacked"   a mutex is released (or deleted) before those its owner   *)
(*               got earlier                                               *)
(*   "unnested"  a thread that owns a mutex does not wait for another      *)
(*   "settled"   nobody changes the priority of a thread that owns a mutex *)
(*               or waits for one                                          *)
(*   "lasting"   no mutex is deleted and no thread terminated              *)
(* No interrupt handler may use a mutex, so a service call is a step, or   *)
(* several where it loops: over the mutexes of a thread that ends, and     *)
(* over the threads that wait for a mutex that is deleted.  Nothing else   *)
(* happens before its last step.  Calls that return an error without       *)
(* changing anything are left out.                                         *)
(***************************************************************************)
EXTENDS RtxKernel, FiniteSets, FiniteSetsExt

CONSTANTS
  Recursive, PrioInherit, Robust,   \* attr, as the sets of such mutexes
  NoMutex,      \* NULL
  LockLimit,    \* osRtxMutexLockLimit
  Programs      \* records of threads, timeouts and rules

Mutexes == Objects

ASSUME AttrsOK ==
  Recursive \cup PrioInherit \cup Robust \subseteq Mutexes
ASSUME NoMutexNotMutex == NoMutex \notin Mutexes
ASSUME MutexesFinite == IsFiniteSet(Mutexes)
ASSUME LockLimitPositive == LockLimit \in Nat \ {0}
ASSUME ProgramsOK ==
  \A q \in Programs :
    /\ q.threads \subseteq User /\ IsFiniteSet(q.threads)
    /\ q.timeouts \subseteq Nat \cup {Forever}
    /\ q.rules \subseteq {"stacked", "unnested", "settled", "lasting"}

VARIABLES
  mx,      \* the mutexes: active, lock, owner, prev, next
  mlist,   \* thread->mutex_list
  ending,  \* the thread that ends while handler = "release"
  at,      \* the mutex at which the loop of a service call is
  held,    \* history: how often a thread has been told it has a mutex
  asked,   \* history: the priority last asked for a thread
  program  \* the program a behaviour is of; it does not change

loop == <<ending, at>>
vars == <<k, handler, mx, mlist, ending, at, held, asked, program>>

Rule(r) == r \in program.rules

Unlocked == [active |-> TRUE, lock |-> 0, owner |-> NoThread,
             prev |-> NoMutex, next |-> NoMutex]

Init ==
  /\ program \in Programs
  /\ KernelInit(program.threads)
  /\ mx = [x \in Mutexes |-> Unlocked]
  /\ mlist = [t \in Threads |-> NoMutex]
  /\ ending = NoThread /\ at = NoMutex
  /\ held = [t \in Threads |-> [x \in Mutexes |-> 0]]
  /\ asked = k.base

-----------------------------------------------------------------------------
(* Lists of owned mutexes, over a state s with the fields k, mx and mlist. *)

State == [k |-> k, mx |-> mx, mlist |-> mlist]

(* What a loop from mutex x along owner_next visits, and whether it never  *)
(* ends.                                                                   *)
Walk(s, x) ==
  LET y[i \in 1 .. Cardinality(Mutexes) + 1] ==
        IF i = 1 THEN x
        ELSE IF y[i - 1] = NoMutex THEN NoMutex ELSE s.mx[y[i - 1]].next
  IN  y
Cyclic(s, x) == Walk(s, x)[Cardinality(Mutexes) + 1] # NoMutex
Visited(s, x) ==
  {Walk(s, x)[i] : i \in 1 .. Cardinality(Mutexes) + 1} \ {NoMutex}

(* svcRtxMutexAcquire of a mutex that is not locked; the mutant leaves the *)
(* old head out.                                                           *)
TakeForgetsNext(s, t, x) ==
  [s EXCEPT !.mx[x].owner = t, !.mx[x].next = NoMutex,
            !.mx[x].prev = NoMutex, !.mx[x].lock = 1, !.mlist[t] = x]
Take(s, t, x) ==
  LET h == s.mlist[t]
      s1 == [s EXCEPT !.mx[x].owner = t, !.mx[x].next = h,
                      !.mx[x].prev = NoMutex]
      s2 == IF h = NoMutex THEN s1 ELSE [s1 EXCEPT !.mx[h].prev = x]
  IN  [s2 EXCEPT !.mlist[t] = x, !.mx[x].lock = 1]

(* A mutex goes to the first of the threads waiting for it; the mutant     *)
(* wakes the thread and leaves the mutex to its owner.                     *)
HandOverWakesOnly(s, x) ==
  [s EXCEPT !.k = WaitExitReady(Dequeue(@, x), Head(@.objq[x]), "osOK")]
HandOver(s, x) ==
  LET t == Head(s.k.objq[x])
  IN  [s EXCEPT !.k = WaitExitReady(Dequeue(@, x), t, "osOK"),
                !.mx[x].owner = t, !.mx[x].next = s.mlist[t],
                !.mx[x].prev = NoMutex, !.mx[x].lock = 1,
                !.mlist[t] = x]

HandOverIfWaiting(s, x) == IF s.k.objq[x] = <<>> THEN s ELSE HandOver(s, x)

(* Out of the list of its owner. *)
Unchain(s, x) ==
  LET n  == s.mx[x].next
      p  == s.mx[x].prev
      s1 == IF n = NoMutex THEN s ELSE [s EXCEPT !.mx[n].prev = p]
  IN  IF p = NoMutex
        THEN [s1 EXCEPT !.mlist[s.mx[x].owner] = n]
        ELSE [s1 EXCEPT !.mx[p].next = n]

(* The priority an owner is left with: its own, or that of the first       *)
(* thread waiting for one of its other mutexes if that is higher; the      *)
(* mutant takes its own.                                                   *)
PriorityLeftIsBase(s, t) == s.k.base[t]
PriorityLeft(s, t) ==
  Max({s.k.base[t]} \cup
      {s.k.prio[Head(s.k.objq[y])] :
         y \in {z \in Visited(s, s.mlist[t]) : s.k.objq[z] # <<>>}})

(* osRtxMutexOwnerRelease: what becomes of a mutex of a thread that ends   *)
ReleaseRobust(s, x) ==
  IF x \in Robust
    THEN HandOverIfWaiting([s EXCEPT !.mx[x].lock = 0], x) ELSE s

(* Raise the owner of x to the priority of the thread that is to wait; the *)
(* mutant does not move it in the list it is in.                           *)
InheritUnsorted(s, x, p) ==
  IF x \in PrioInherit /\ s.k.prio[s.mx[x].owner] < p
    THEN [s.k EXCEPT !.prio[s.mx[x].owner] = p] ELSE s.k
Inherit(s, x, p) ==
  LET o == s.mx[x].owner
  IN  IF x \in PrioInherit /\ s.k.prio[o] < p
        THEN ListSort([s.k EXCEPT !.prio[o] = p], o) ELSE s.k

Become(s) == k' = s.k /\ mx' = s.mx /\ mlist' = s.mlist

(* The loop of PriorityLeft over a cyclic list does not end: no step       *)
(* follows.                                                                *)
Hang == handler' = "hung" /\ UNCHANGED <<k, mx, mlist, loop, held, asked>>

(* History: what handing x over, if somebody waits for it, tells. *)
Told(h, x) ==
  IF k.objq[x] = <<>> THEN h ELSE [h EXCEPT ![Head(k.objq[x])][x] = 1]

-----------------------------------------------------------------------------
(* Service calls. *)

Calling == handler = "thread" /\ k.curr # Idle
Owns(t, x) == mx[x].active /\ mx[x].lock > 0 /\ mx[x].owner = t
OwnsNone(t) == \A x \in Mutexes : ~Owns(t, x)

(* svcRtxMutexNew, in the control block of a deleted mutex *)
MutexNew(x) ==
  /\ Calling /\ ~mx[x].active
  /\ mx' = [mx EXCEPT ![x] = Unlocked]
  /\ k' = [k EXCEPT !.objq[x] = <<>>]
  /\ UNCHANGED <<handler, mlist, loop, held, asked>>

(* svcRtxMutexAcquire: of a free mutex, *)
Acquire(x) ==
  /\ Calling /\ mx[x].active /\ mx[x].lock = 0
  /\ Become(Take(State, k.curr, x))
  /\ held' = [held EXCEPT ![k.curr][x] = @ + 1]
  /\ UNCHANGED <<handler, loop, asked>>

(* ... again by its owner, up to the limit, *)
AcquireAgain(x) ==
  /\ Calling /\ Owns(k.curr, x) /\ x \in Recursive
  /\ mx[x].lock < LockLimit
  /\ mx' = [mx EXCEPT ![x].lock = @ + 1]
  /\ held' = [held EXCEPT ![k.curr][x] = @ + 1]
  /\ UNCHANGED <<k, handler, mlist, loop, asked>>

(* ... or of a locked one.  The idle thread is ready, so                   *)
(* osRtxThreadWaitEnter finds a thread to switch to.                       *)
AcquireWait(x, d) ==
  /\ Calling /\ mx[x].active /\ mx[x].lock > 0
  /\ ~(x \in Recursive /\ mx[x].owner = k.curr)
  /\ d # 0
  /\ Rule("unnested") => OwnsNone(k.curr)
  /\ LET k1 == Inherit(State, x, k.prio[k.curr])
     IN  k' = Return(Enqueue(WaitEnter(k1, "WaitingMutex", d,
                                       "osErrorTimeout"), x, k.curr))
  /\ UNCHANGED <<handler, mx, mlist, loop, held, asked>>

(* svcRtxMutexRelease *)
ReleaseLast(x) ==
  LET t  == k.curr
      s1 == Unchain([State EXCEPT !.mx[x].lock = 0], x)
      s2 == IF x \in PrioInherit
              THEN [s1 EXCEPT !.k.prio[t] = PriorityLeft(s1, t)] ELSE s1
      s3 == HandOverIfWaiting(s2, x)
  IN  IF x \in PrioInherit /\ Cyclic(s1, s1.mlist[t])
        THEN Hang
        ELSE /\ Become([s3 EXCEPT !.k = Return(DispatchReady(@))])
             /\ held' = Told([held EXCEPT ![t][x] = @ - 1], x)
             /\ UNCHANGED <<handler, loop, asked>>

Release(x) ==
  /\ Calling /\ Owns(k.curr, x)
  /\ IF mx[x].lock > 1
       THEN /\ mx' = [mx EXCEPT ![x].lock = @ - 1]
            /\ held' = [held EXCEPT ![k.curr][x] = @ - 1]
            /\ UNCHANGED <<k, handler, mlist, loop, asked>>
       ELSE /\ Rule("stacked") => mlist[k.curr] = x
            /\ ReleaseLast(x)

(* svcRtxMutexDelete, by any thread: out of the owner's list, the owner's  *)
(* priority restored, then the waiting threads made ready one by one.      *)
DeleteLocked(x) ==
  LET t  == mx[x].owner
      s1 == Unchain([State EXCEPT !.mx[x].active = FALSE], x)
      p  == PriorityLeft(s1, t)
      k1 == IF x \in PrioInherit /\ s1.k.prio[t] # p
              THEN ListSort([s1.k EXCEPT !.prio[t] = p], t) ELSE s1.k
  IN  IF x \in PrioInherit /\ Cyclic(s1, s1.mlist[t])
        THEN Hang
        ELSE /\ Become([s1 EXCEPT !.k = k1])
             /\ handler' = "unblock" /\ at' = x
             /\ held' = [u \in Threads |-> [held[u] EXCEPT ![x] = 0]]
             /\ UNCHANGED <<ending, asked>>

Delete(x) ==
  /\ Calling /\ mx[x].active /\ ~Rule("lasting")
  /\ IF mx[x].lock = 0
       THEN /\ mx' = [mx EXCEPT ![x].active = FALSE]
            /\ UNCHANGED <<k, handler, mlist, loop, held, asked>>
       ELSE /\ Rule("stacked") => mlist[mx[x].owner] = x
            /\ DeleteLocked(x)

DeleteUnblock ==
  /\ handler = "unblock" /\ k.objq[at] # <<>>
  /\ k' = WaitExitReady(Dequeue(k, at), Head(k.objq[at]), "osErrorResource")
  /\ UNCHANGED <<handler, mx, mlist, loop, held, asked>>

DeleteEnd ==
  /\ handler = "unblock" /\ k.objq[at] = <<>>
  /\ k' = Return(DispatchReady(k))
  /\ handler' = "thread" /\ at' = NoMutex
  /\ UNCHANGED <<mx, mlist, ending, held, asked>>

(* svcRtxThreadTerminate of a detached thread: out of its lists, its       *)
(* mutexes released (osRtxMutexOwnerRelease), another thread switched to   *)
(* or dispatched, its control block freed.  svcRtxThreadExit is the case   *)
(* t = k.curr.                                                             *)
Terminate(t) ==
  /\ Calling /\ t # Idle /\ k.state[t] # "Inactive"
  /\ ~Rule("lasting")
  /\ LET k1 == ListRemove(k, t)
     IN  k' = IF k.state[t] \in BlockedStates THEN DelayRemove(k1, t) ELSE k1
  /\ handler' = "release" /\ ending' = t /\ at' = mlist[t]
  /\ UNCHANGED <<mx, mlist, held, asked>>

OwnerRelease ==
  /\ handler = "release" /\ at # NoMutex
  /\ Become(ReleaseRobust(State, at))
  /\ at' = mx[at].next
  /\ held' = IF at \in Robust
               THEN Told([held EXCEPT ![ending][at] = 0], at) ELSE held
  /\ UNCHANGED <<handler, ending, asked>>

TerminateEnd ==
  /\ handler = "release" /\ at = NoMutex
  /\ LET k1 == IF ending = k.curr THEN SwitchToReady(k) ELSE DispatchReady(k)
     IN  k' = [Return(k1) EXCEPT !.state[ending] = "Inactive"]
  /\ handler' = "thread" /\ ending' = NoThread
  /\ UNCHANGED <<mx, mlist, at, held, asked>>

(* svcRtxThreadNew, in the control block of a thread that has ended *)
ThreadNew(t, p) ==
  /\ Calling /\ t \in program.threads /\ k.state[t] = "Inactive"
  /\ k' = Return(Dispatch([k EXCEPT !.state[t] = "Ready", !.prio[t] = p,
                                    !.base[t] = p, !.delay[t] = 0], t))
  /\ mlist' = [mlist EXCEPT ![t] = NoMutex]
  /\ asked' = [asked EXCEPT ![t] = p]
  /\ held' = [held EXCEPT ![t] = [x \in Mutexes |-> 0]]
  /\ UNCHANGED <<handler, mx, loop>>

(* svcRtxThreadSetPriority *)
SetPriority(t, p) ==
  /\ Calling /\ t # Idle /\ k.state[t] # "Inactive"
  /\ Rule("settled") =>
       OwnsNone(t) /\ \A x \in Mutexes : t \notin ToSet(k.objq[x])
  /\ k' = IF k.prio[t] = p THEN k
          ELSE Return(DispatchReady(ListSort(
                 [k EXCEPT !.prio[t] = p, !.base[t] = p], t)))
  /\ asked' = [asked EXCEPT ![t] = p]
  /\ UNCHANGED <<handler, mx, mlist, loop, held>>

-----------------------------------------------------------------------------
ServiceCall ==
  \/ \E x \in Mutexes :
       \/ MutexNew(x) \/ Acquire(x) \/ AcquireAgain(x)
       \/ \E d \in program.timeouts : AcquireWait(x, d)
       \/ Release(x) \/ Delete(x)
  \/ DeleteUnblock \/ DeleteEnd
  \/ \E t \in User : Terminate(t)
  \/ OwnerRelease \/ TerminateEnd
  \/ \E t \in User, p \in Prios : ThreadNew(t, p) \/ SetPriority(t, p)

Next ==
  \/ ServiceCall /\ UNCHANGED program
  \/ Tick /\ UNCHANGED <<mx, mlist, loop, held, asked, program>>

Spec == Init /\ [][Next]_vars

-----------------------------------------------------------------------------
(* Properties. *)

(* mutex_list leads to the mutexes the thread owns and to no other, after  *)
(* any sequence of acquisitions, handovers, timeouts, deletions and ends   *)
(* of threads; while a thread ends, the rest of its list from the mutex    *)
(* the loop is at does.                                                    *)
OwnedListExact ==
  \A t \in Threads :
    LET owned == {x \in Mutexes : Owns(t, x)}
        first == IF t = ending THEN at ELSE mlist[t]
    IN  IF k.state[t] = "Inactive" THEN owned \cap Robust = {}
        ELSE /\ ~Cyclic(State, first)
             /\ Visited(State, first) = owned

(* Mutual exclusion, as the threads see it: a mutex is locked as often as  *)
(* its owner has been told that it got it, and nobody else has been told   *)
(* so and not released it.                                                 *)
HeldIsOwned ==
  \A t \in Threads, x \in Mutexes :
    held[t][x] = IF Owns(t, x) THEN mx[x].lock ELSE 0

(* Nobody waits for a mutex that is free or deleted, or in the wrong       *)
(* order.  A thread that ends, and those that a deletion has still to wake *)
(* are the exceptions while the service call lasts.                        *)
WaitersServed ==
  /\ handler # "release" => WaitersListed("WaitingMutex")
  /\ \A x \in Mutexes :
       \/ k.objq[x] = <<>>
       \/ mx[x].active /\ mx[x].lock > 0
       \/ handler = "unblock" /\ x = at

(* Priority inheritance: no thread waits for a mutex whose owner has a     *)
(* lower priority.  The code raises the owner alone, and only when a wait  *)
(* begins, so this is for programs that neither nest nor change the        *)
(* priorities of those involved.  In any program a raised priority does    *)
(* not outlive the mutexes it was raised for, and a thread falls back to   *)
(* the priority last asked for, if that was asked in a settled state.      *)
InheritanceOK ==
  /\ Rule("unnested") /\ Rule("settled") =>
       \A x \in PrioInherit : \A i \in DOMAIN k.objq[x] :
         mx[x].active => k.prio[mx[x].owner] >= k.prio[k.objq[x][i]]
  /\ \A t \in Threads \ {ending} :
       (\A x \in PrioInherit : ~Owns(t, x)) /\ k.state[t] # "Inactive"
         => k.prio[t] = IF Rule("settled") THEN asked[t] ELSE k.base[t]

(* The highest priority runs, inherited priorities included. *)
HighestPriorityRuns == handler = "thread" => NoneHigherReady
=============================================================================
