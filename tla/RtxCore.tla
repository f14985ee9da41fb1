------------------------------- MODULE RtxCore -------------------------------
(***************************************************************************)
(* The scheduler core of RTX5 (rtx_thread.c) as operators on a kernel      *)
(* value k, from which the service calls of RtxThread and RtxSemaphore are *)
(* put together.  An SVC, PendSV or SysTick handler is never preempted by  *)
(* another of the three, so what it does between two points where an       *)
(* interrupt matters is one expression over k.                             *)
(*                                                                         *)
(* k is a record:                                                          *)
(*   kstate  osRtxInfo.kernel.state                                        *)
(*   curr    osRtxInfo.thread.run.curr   (NoThread: NULL)                  *)
(*   next    osRtxInfo.thread.run.next                                     *)
(*   state, prio, base, delay, ret       per-thread fields; ret is the R0  *)
(*           stacked for the thread, what its service call will return     *)
(*   ready   osRtxInfo.thread.ready.thread_list                            *)
(*   objq    the thread_list of every kernel object                        *)
(*   dlist   osRtxInfo.thread.delay_list, a list of relative delays        *)
(*   wait    osRtxInfo.thread.wait_list; nothing depends on its order      *)
(*                                                                         *)
(* A doubly linked list is the sequence of its threads; being linked       *)
(* (thread_prev # NULL) is being in the sequence.                          *)
(***************************************************************************)
EXTENDS Integers, Sequences, SequencesExt

CONSTANTS
  Threads,    \* thread control blocks
  Objects,    \* kernel objects with a list of waiting threads
  NoThread    \* NULL

ASSUME NoThreadNotThread == NoThread \notin Threads

Forever == -1   \* osWaitForever (0xFFFFFFFF), no tick count

WaitStates == {"WaitingDelay", "WaitingJoin", "WaitingMutex",
               "WaitingSemaphore", "WaitingThreadFlags",
               "WaitingEventFlags", "WaitingMemoryPool",
               "WaitingMessageGet", "WaitingMessagePut"}
BlockedStates == WaitStates \cup {"Blocked"}   \* osRtxThreadStateMask
ThreadStates ==
  BlockedStates \cup {"Inactive", "Ready", "Running", "Terminated"}
KernelStates == {"Ready", "Running", "Locked"}
Results == {"osOK", "osErrorResource", "osErrorTimeout", "osErrorParameter"}

KernelType ==
  [kstate: KernelStates,
   curr: Threads \cup {NoThread}, next: Threads \cup {NoThread},
   state: [Threads -> ThreadStates],
   prio: [Threads -> Int], base: [Threads -> Int],
   delay: [Threads -> Int], ret: [Threads -> Results],
   ready: Seq(Threads), objq: [Objects -> Seq(Threads)],
   dlist: Seq(Threads), wait: SUBSET Threads]

-----------------------------------------------------------------------------
(* Lists. *)

(* Where a scan stops: the first index in Stop, or the end of the list. *)
ScanPos(s, Stop) ==
  CHOOSE i \in 1 .. Len(s) + 1 :
    /\ i \in Stop \cup {Len(s) + 1}
    /\ \A j \in 1 .. i - 1 : j \notin Stop

(* Highest priority at the head. *)
Sorted(prio, s) ==
  \A i, j \in DOMAIN s : i < j => prio[s[i]] >= prio[s[j]]

(* A thread joins behind its equals; the mutant puts it before them. *)
PutPosBeforeEquals(prio, s, t) ==
  ScanPos(s, {i \in DOMAIN s : prio[s[i]] <= prio[t]})
PutPos(prio, s, t) ==
  ScanPos(s, {i \in DOMAIN s : prio[s[i]] < prio[t]})

ListPut(prio, s, t) == InsertAt(s, PutPos(prio, s, t), t)

Unlink(s, t) ==
  IF t \in ToSet(s)
    THEN RemoveAt(s, CHOOSE i \in DOMAIN s : s[i] = t)
    ELSE s

Resort(prio, s, t) ==
  IF t \in ToSet(s) THEN ListPut(prio, Unlink(s, t), t) ELSE s

(* osRtxThreadListRemove: out of whichever list the thread is linked in *)
ListRemove(k, t) ==
  [k EXCEPT !.ready = Unlink(@, t),
            !.objq = [o \in Objects |-> Unlink(k.objq[o], t)]]

(* osRtxThreadListSort, after a change of priority *)
ListSort(k, t) ==
  [k EXCEPT !.ready = Resort(k.prio, @, t),
            !.objq = [o \in Objects |-> Resort(k.prio, k.objq[o], t)]]

ReadyPut(k, t) ==
  [k EXCEPT !.state[t] = "Ready", !.ready = ListPut(k.prio, @, t)]

-----------------------------------------------------------------------------
(* The delay list: the delay of a thread is relative to its predecessor. *)

(* Due(delay, s)[i]: ticks until the i-th thread of s is due. *)
Due(delay, s) ==
  LET due[i \in 0 .. Len(s)] ==
        IF i = 0 THEN 0 ELSE due[i - 1] + delay[s[i]]
  IN  due

(* osRtxThreadDelayInsert.  The successor's delay becomes relative to the  *)
(* inserted thread; the mutant forgets that.                               *)
ShortenSuccessorNever(delay, s, i, d) == delay
ShortenSuccessor(delay, s, i, d) ==
  IF i <= Len(s) THEN [delay EXCEPT ![s[i]] = @ - d] ELSE delay

DelayInsert(k, t, d) ==
  IF d = Forever
    THEN [k EXCEPT !.delay[t] = Forever, !.wait = @ \cup {t}]
    ELSE LET s    == k.dlist
             due  == Due(k.delay, s)
             i    == ScanPos(s, {j \in DOMAIN s : due[j] > d})
             rest == d - due[i - 1]
         IN  [k EXCEPT !.delay = [ShortenSuccessor(@, s, i, rest)
                                    EXCEPT ![t] = rest],
                       !.dlist = InsertAt(s, i, t)]

(* osRtxThreadDelayRemove: the successor takes over the removed delay; the *)
(* mutant forgets that.                                                    *)
ExtendSuccessorNever(delay, s, t) == delay
ExtendSuccessor(delay, s, t) ==
  [u \in DOMAIN delay |->
     IF \E i \in 1 .. Len(s) - 1 : s[i] = t /\ s[i + 1] = u
       THEN delay[u] + delay[t] ELSE delay[u]]

DelayRemove(k, t) ==
  IF k.delay[t] = Forever
    THEN [k EXCEPT !.wait = @ \ {t}]
    ELSE [k EXCEPT !.delay = ExtendSuccessor(@, k.dlist, t),
                   !.dlist = Unlink(@, t)]

(* osRtxThreadDelayTick, in the pieces its loop has: count down the head,  *)
(* then make every thread whose delay has run out ready, one at a time.    *)
DelayCount(k) ==
  IF k.dlist = <<>> THEN k
  ELSE [k EXCEPT !.delay[Head(k.dlist)] = @ - 1]

DelayExpired(k) == k.dlist # <<>> /\ k.delay[Head(k.dlist)] = 0

(* ... osRtxThreadListRemove, osRtxThreadReadyPut *)
DelayWake(k) ==
  LET t == Head(k.dlist)
  IN  ReadyPut([ListRemove(k, t) EXCEPT !.dlist = Tail(@)], t)

-----------------------------------------------------------------------------
(* Dispatching. *)

(* osRtxThreadBlock: the preempted thread goes in front of its equals. *)
Block(k, t) ==
  [k EXCEPT !.state[t] = "Ready",
            !.ready = InsertAt(@,
               ScanPos(@, {i \in DOMAIN @ : k.prio[@[i]] <= k.prio[t]}), t)]

Switch(k, t) == [k EXCEPT !.state[t] = "Running", !.next = t]

(* osRtxThreadSwitch(osRtxThreadListGet(&ready)) *)
SwitchToReady(k) == Switch([k EXCEPT !.ready = Tail(@)], Head(k.ready))

CanPreempt(k, t) ==
  /\ k.kstate = "Running"
  /\ k.curr # NoThread
  /\ k.prio[t] > k.prio[k.curr]

(* osRtxThreadDispatch(NULL) *)
DispatchReady(k) ==
  IF k.ready # <<>> /\ CanPreempt(k, Head(k.ready))
    THEN LET t == Head(k.ready)
         IN  Switch(Block([k EXCEPT !.ready = Tail(@)], k.curr), t)
    ELSE k

(* osRtxThreadDispatch(thread) *)
Dispatch(k, t) ==
  IF CanPreempt(k, t) THEN Switch(Block(k, k.curr), t) ELSE ReadyPut(k, t)

(* osRtxThreadWaitEnter succeeds only if there is a thread to switch to. *)
CanWait(k) ==
  k.kstate = "Running" /\ k.curr # NoThread /\ k.ready # <<>>

WaitEnter(k, st, timeout, r) ==
  SwitchToReady(DelayInsert([k EXCEPT !.state[k.curr] = st,
                                      !.ret[k.curr] = r],
                            k.curr, timeout))

(* osRtxThreadWaitExit with and without its dispatch flag.  Its callers    *)
(* have taken the thread out of the object's list.                         *)
WaitExitReady(k, t, r) ==
  ReadyPut(DelayRemove([k EXCEPT !.ret[t] = r], t), t)

WaitExitDispatch(k, t, r) ==
  Dispatch(DelayRemove([k EXCEPT !.ret[t] = r], t), t)

(* SVC_Context, what every handler ends with: the context of next becomes  *)
(* current; the mutant does so only when there is no current thread.       *)
ReturnWithoutSwitch(k) ==
  [k EXCEPT !.curr = IF k.curr = NoThread THEN k.next ELSE k.curr]
Return(k) == [k EXCEPT !.curr = k.next]
=============================================================================
