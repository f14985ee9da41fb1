------------------------------ MODULE RtxThread ------------------------------
(***************************************************************************)
(* Threads of the RTX5 kernel: creation, termination, joining, delays,     *)
(* priorities, suspension, the scheduler lock, the tick and round robin    *)
(* (rtx_thread.c, rtx_delay.c, rtx_kernel.c, osRtxTick_Handler).           *)
(*                                                                         *)
(* The running thread makes service calls; SysTick interrupts it between   *)
(* calls.  A service call is one step.  The tick is several, because it    *)
(* wakes an unbounded number of threads in a loop; no other handler runs   *)
(* until it is through.  Thread Idle is created by osKernelStart and only  *)
(* executes the idle hook, which makes no service call.                    *)
(***************************************************************************)
EXTENDS RtxCore, FiniteSets

CONSTANTS
  Idle,           \* the idle thread
  Calls,          \* the service calls the program makes
  Attrs,          \* attributes it creates threads with
  Prios,          \* priorities a program uses (osPriorityIdle excluded)
  IdlePrio,       \* osPriorityIdle
  MaxDelay,       \* bound on the ticks of an osDelay
  RobinTimeout,   \* osRtxConfig.robin_timeout, 0: no round robin
  JoinDiscipline  \* TRUE: a thread is joined once, and a thread that joins
                  \* is not suspended, resumed or terminated meanwhile

ASSUME IdleIsThread == Idle \in Threads
ASSUME PriosAreInts == IdlePrio \in Int /\ Prios \subseteq Int
ASSUME IdleIsLowest == \A p \in Prios : p > IdlePrio
ASSUME BoundsAreNats == MaxDelay \in Nat /\ RobinTimeout \in Nat
ASSUME DisciplineIsBoolean == JoinDiscipline \in BOOLEAN

VARIABLES
  k,         \* the kernel value of RtxCore
  handler,   \* "none", or "tick" while the tick handler wakes threads
  join,      \* thread_join
  joinable,  \* the threads created with osThreadJoinable
  robin,     \* osRtxInfo.thread.robin
  (* History of the run, read by properties only. *)
  due,       \* due[t]: ticks left of the delay t asked for
  unlocked,  \* "yes" from a scheduler unlock to the next tick
  ran        \* ticks the running thread kept the core while an equal waited

vars == <<k, handler, join, joinable, robin, due, unlocked, ran>>
history == <<due, unlocked, ran>>

Uses(call) == call \in Calls
User == Threads \ {Idle}
Live(t) == k.state[t] \notin {"Inactive", "Terminated"}

Init ==
  /\ k = [kstate |-> "Ready", curr |-> NoThread, next |-> NoThread,
          state |-> [t \in Threads |-> "Inactive"],
          prio  |-> [t \in Threads |-> IdlePrio],
          base  |-> [t \in Threads |-> IdlePrio],
          delay |-> [t \in Threads |-> 0],
          ret   |-> [t \in Threads |-> "osOK"],
          ready |-> <<>>, objq |-> [o \in Objects |-> <<>>],
          dlist |-> <<>>, wait |-> {}]
  /\ handler = "none"
  /\ join = [t \in Threads |-> NoThread]
  /\ joinable = {}
  /\ robin = [thread |-> NoThread, tick |-> 0]
  /\ due = [t \in Threads |-> 0]
  /\ unlocked = "no"
  /\ ran = 0

-----------------------------------------------------------------------------
(* Service calls. *)

(* The running thread, not the idle thread, makes a call. *)
Calling ==
  /\ handler = "none"
  /\ k.kstate \in {"Running", "Locked"}
  /\ k.curr # Idle

Disturbs(t) == JoinDiscipline => k.state[t] # "WaitingJoin"

(* svcRtxThreadNew, before the kernel runs (main is created so) and after. *)
NewThread(t, p) ==
  [k EXCEPT !.state[t] = "Ready", !.prio[t] = p, !.base[t] = p,
            !.delay[t] = 0]

(* A control block is reused; the mutant forgets the old joiner. *)
KeepJoin(t) == join
ResetJoin(t) == [join EXCEPT ![t] = NoThread]

ThreadNew(t, p, attr) ==
  /\ Calling \/ (handler = "none" /\ k.kstate = "Ready")
  /\ k.state[t] = "Inactive"
  /\ k' = Return(Dispatch(NewThread(t, p), t))
  /\ join' = ResetJoin(t)
  /\ joinable' = IF attr = "joinable" THEN joinable \cup {t}
                 ELSE joinable \ {t}
  /\ UNCHANGED <<handler, robin, due, unlocked>>

(* svcRtxKernelStart and osRtxThreadStartup *)
KernelStart ==
  /\ k.kstate = "Ready"
  /\ k' = Return([SwitchToReady(Dispatch(NewThread(Idle, IdlePrio), Idle))
                   EXCEPT !.kstate = "Running"])
  /\ UNCHANGED <<handler, join, joinable, robin, due, unlocked>>

(* svcRtxDelay; no wait while the scheduler is locked *)
Delay(d) ==
  /\ Calling
  /\ d # 0 /\ CanWait(k)
  /\ k' = Return(WaitEnter(k, "WaitingDelay", d, "osOK"))
  /\ due' = [due EXCEPT ![k.curr] = d]
  /\ UNCHANGED <<handler, join, joinable, robin, unlocked>>

(* svcRtxThreadSetPriority *)
SetPriority(t, p) ==
  /\ Calling
  /\ Live(t)
  /\ k.prio[t] # p
  /\ k' = Return(DispatchReady(
            ListSort([k EXCEPT !.prio[t] = p, !.base[t] = p], t)))
  /\ UNCHANGED <<handler, join, joinable, robin, due, unlocked>>

(* svcRtxThreadYield *)
Yield ==
  /\ Calling
  /\ k.kstate = "Running" /\ k.ready # <<>>
  /\ k.prio[Head(k.ready)] = k.prio[k.curr]
  /\ k' = Return(Switch(ReadyPut([k EXCEPT !.ready = Tail(@)], k.curr),
                        Head(k.ready)))
  /\ UNCHANGED <<handler, join, joinable, robin, due, unlocked>>

(* The running thread can only be taken off the core if another is ready. *)
CanLeave(t) ==
  k.state[t] = "Running" => k.kstate = "Running" /\ k.ready # <<>>

(* The thread leaves the lists that its state puts it in; the mutant of    *)
(* the blocked case leaves it in the delay list.                           *)
LeaveListsButDelay(kk, t) == ListRemove(kk, t)
LeaveLists(kk, t) ==
  CASE kk.state[t] = "Ready" -> ListRemove(kk, t)
    [] kk.state[t] \in BlockedStates -> DelayRemove(ListRemove(kk, t), t)
    [] OTHER -> kk

(* svcRtxThreadSuspend *)
Suspend(t) ==
  /\ Calling
  /\ Live(t) /\ CanLeave(t) /\ Disturbs(t)
  /\ LET k1 == LeaveLists(k, t)
         k2 == IF k.state[t] = "Running" THEN SwitchToReady(k1) ELSE k1
     IN  k' = Return(DelayInsert([k2 EXCEPT !.state[t] = "Blocked"],
                                 t, Forever))
  /\ UNCHANGED <<handler, join, joinable, robin, due, unlocked>>

(* svcRtxThreadResume: any blocked thread, whatever it waits for *)
Resume(t) ==
  /\ Calling
  /\ k.state[t] \in BlockedStates /\ Disturbs(t)
  /\ k' = Return(Dispatch(DelayRemove(ListRemove(k, t), t), t))
  /\ UNCHANGED <<handler, join, joinable, robin, due, unlocked>>

(* osRtxThreadFree, or the terminate list *)
Retire(kk, t) ==
  [kk EXCEPT !.state[t] =
     IF t \notin joinable \/ join[t] # NoThread THEN "Inactive"
     ELSE "Terminated"]

(* The mutant leaves the joining thread asleep. *)
WakeJoinerNever(kk, t) == kk
WakeJoiner(kk, t) ==
  IF join[t] # NoThread THEN WaitExitReady(kk, join[t], "osOK") ELSE kk

(* svcRtxThreadExit *)
Exit ==
  /\ Calling
  /\ CanLeave(k.curr)
  /\ k' = Return(Retire(SwitchToReady(WakeJoiner(k, k.curr)), k.curr))
  /\ UNCHANGED <<handler, join, joinable, robin, due, unlocked>>

(* svcRtxThreadTerminate *)
Terminate(t) ==
  /\ Calling
  /\ Live(t) /\ CanLeave(t) /\ Disturbs(t)
  /\ LET k1 == WakeJoiner(LeaveLists(k, t), t)
         k2 == IF k.state[t] = "Running" THEN SwitchToReady(k1)
               ELSE DispatchReady(k1)
     IN  k' = Return(Retire(k2, t))
  /\ UNCHANGED <<handler, join, joinable, robin, due, unlocked>>

(* svcRtxThreadDetach *)
Detach(t) ==
  /\ Calling
  /\ t \in joinable /\ k.state[t] # "Inactive"
  /\ IF k.state[t] = "Terminated"
       THEN k' = [k EXCEPT !.state[t] = "Inactive"] /\ UNCHANGED joinable
       ELSE joinable' = joinable \ {t} /\ UNCHANGED k
  /\ UNCHANGED <<handler, join, robin, due, unlocked>>

(* svcRtxThreadJoin of a thread that has terminated *)
JoinDone(t) ==
  /\ Calling
  /\ t \in joinable /\ k.state[t] = "Terminated"
  /\ k' = [k EXCEPT !.state[t] = "Inactive"]
  /\ UNCHANGED <<handler, join, joinable, robin, due, unlocked>>

(* svcRtxThreadJoin of a live thread.  thread_join has room for one. *)
JoinWait(t) ==
  /\ Calling
  /\ t \in joinable /\ Live(t) /\ k.state[t] # "Running"
  /\ JoinDiscipline => join[t] = NoThread
  /\ CanWait(k)
  /\ k' = Return(WaitEnter(k, "WaitingJoin", Forever, "osErrorResource"))
  /\ join' = [join EXCEPT ![t] = k.curr]
  /\ UNCHANGED <<handler, joinable, robin, due, unlocked>>

(* svcRtxKernelLock, and svcRtxKernelRestoreLock(1) *)
KernelLock ==
  /\ Calling
  /\ k.kstate = "Running"
  /\ k' = [k EXCEPT !.kstate = "Locked"]
  /\ UNCHANGED <<handler, join, joinable, robin, due, unlocked>>

(* svcRtxKernelUnlock, and svcRtxKernelRestoreLock(0): no dispatch *)
KernelUnlock ==
  /\ Calling
  /\ k.kstate = "Locked"
  /\ k' = [k EXCEPT !.kstate = "Running"]
  /\ unlocked' = "yes"
  /\ UNCHANGED <<handler, join, joinable, robin, due>>

-----------------------------------------------------------------------------
(* The tick: osRtxTick_Handler. *)

TickBegin ==
  /\ handler = "none"
  /\ k.kstate \in {"Running", "Locked"}
  /\ k' = DelayCount(k)
  /\ handler' = "tick"
  /\ due' = [t \in Threads |->
               IF t \in ToSet(k.dlist) THEN due[t] - 1 ELSE due[t]]
  /\ UNCHANGED <<join, joinable, robin, unlocked>>

TickWake ==
  /\ handler = "tick"
  /\ DelayExpired(k)
  /\ k' = DelayWake(k)
  /\ UNCHANGED <<handler, join, joinable, robin, due, unlocked>>

(* The time slice left to the thread that runs after the dispatch; the     *)
(* mutant starts it anew at every tick.                                    *)
SliceAlwaysFull(k1) == RobinTimeout
SliceLeft(k1) ==
  IF robin.thread # k1.next THEN RobinTimeout
  ELSE IF robin.tick = 0 THEN 0 ELSE robin.tick - 1

Rotate(k1) ==
  /\ robin.thread = k1.next
  /\ SliceLeft(k1) = 0
  /\ k1.kstate = "Running"
  /\ k1.ready # <<>>
  /\ k1.prio[Head(k1.ready)] = k1.prio[k1.next]

(* osRtxThreadDispatch(NULL) after the delays; the mutant omits it. *)
TickDispatchMissing(kk) == kk
TickDispatch(kk) == DispatchReady(kk)

TickEnd ==
  /\ handler = "tick"
  /\ ~DelayExpired(k)
  /\ LET k1 == TickDispatch(k)
         t  == Head(k1.ready)
     IN  IF RobinTimeout = 0
           THEN k' = Return(k1) /\ UNCHANGED robin
         ELSE IF Rotate(k1)
           THEN /\ k' = Return(Switch(ReadyPut([k1 EXCEPT !.ready = Tail(@)],
                                               k1.next), t))
                /\ robin' = [thread |-> t, tick |-> RobinTimeout]
         ELSE /\ k' = Return(k1)
              /\ robin' = [thread |-> k1.next, tick |-> SliceLeft(k1)]
  /\ handler' = "none"
  /\ unlocked' = "no"
  /\ UNCHANGED <<join, joinable, due>>

-----------------------------------------------------------------------------
EqualWaits(kk) ==
  /\ kk.kstate = "Running" /\ kk.ready # <<>>
  /\ kk.prio[Head(kk.ready)] = kk.prio[kk.curr]

(* The slice history: counts ticks at whose end nothing changed although   *)
(* an equal was ready.                                                     *)
RanNext ==
  ran' = IF RobinTimeout = 0 \/ k'.curr # k.curr \/ ~EqualWaits(k') THEN 0
         ELSE IF handler = "tick" /\ handler' = "none" THEN ran + 1
         ELSE ran

ServiceCall ==
  \/ \E t \in User, p \in Prios, attr \in Attrs : ThreadNew(t, p, attr)
  \/ KernelStart
  \/ Uses("Delay") /\ \E d \in 0 .. MaxDelay : Delay(d)
  \/ Uses("SetPriority") /\ \E t \in User, p \in Prios : SetPriority(t, p)
  \/ Uses("Yield") /\ Yield
  \/ Uses("Suspend") /\ \E t \in User : Suspend(t)
  \/ Uses("Resume") /\ \E t \in User : Resume(t)
  \/ Uses("Exit") /\ Exit
  \/ Uses("Terminate") /\ \E t \in User : Terminate(t)
  \/ Uses("Detach") /\ \E t \in User : Detach(t)
  \/ Uses("Join") /\ \E t \in User : JoinDone(t) \/ JoinWait(t)
  \/ Uses("Lock") /\ (KernelLock \/ KernelUnlock)

Tick == TickBegin \/ TickWake \/ TickEnd

Next == (ServiceCall \/ Tick) /\ RanNext

Spec == Init /\ [][Next]_vars

(* SysTick is a hardware timer, and nothing in the model masks it. *)
FairSpec == Spec /\ WF_vars(Tick /\ RanNext)

-----------------------------------------------------------------------------
(* Properties. *)

(* The kernel value keeps its type, and a handler leaves with the context  *)
(* switched (curr = next).                                                 *)
TypeOK ==
  /\ k \in KernelType
  /\ k.next = k.curr
  /\ handler \in {"none", "tick"}
  /\ join \in [Threads -> Threads \cup {NoThread}]
  /\ joinable \subseteq Threads
  /\ unlocked \in {"yes", "no"}

(* Every thread is exactly where its state says, once: the running thread  *)
(* is run.curr, the ready ones are in the ready list, the blocked ones in  *)
(* the delay list or in the wait list, the others in none.  A list that    *)
(* disagrees with a state is a lost thread or one that runs twice.         *)
PlacesOK ==
  /\ \A t \in Threads :
       /\ k.state[t] = "Running" <=> t = k.curr
       /\ k.state[t] = "Ready" <=> t \in ToSet(k.ready)
       /\ k.state[t] \in BlockedStates <=> t \in ToSet(k.dlist) \cup k.wait
       /\ t \in k.wait => t \notin ToSet(k.dlist)
       /\ t \in k.wait => k.delay[t] = Forever
       /\ t \in ToSet(k.dlist) => k.delay[t] # Forever
  /\ IsInjective(k.ready) /\ IsInjective(k.dlist)

(* The ready list is sorted ("sorted by Priority (Highest at Head)",       *)
(* rtx_thread.c:140), through every change of priority.                    *)
ReadySorted == Sorted(k.prio, k.ready)

(* Preemptive scheduling: outside the tick handler no ready thread has a   *)
(* higher priority than the running one.  Unlocking the scheduler does not *)
(* dispatch, so after an unlock this is owed until the next tick.          *)
HighestPriorityRuns ==
  handler = "none" /\ k.kstate = "Running" /\ unlocked = "no" =>
    \A i \in DOMAIN k.ready : k.prio[k.ready[i]] <= k.prio[k.curr]

(* Delays are exact: the relative delays in the list add up, for every     *)
(* thread, to the ticks left of the delay it asked for, whatever was       *)
(* inserted or removed around it meanwhile.                                *)
DelaysExact ==
  handler = "none" =>
    \A i \in DOMAIN k.dlist : /\ Due(k.delay, k.dlist)[i] = due[k.dlist[i]]
                              /\ due[k.dlist[i]] > 0

(* A thread that delays becomes ready by the tick only when its time is    *)
(* up; nothing else but a resume wakes it.                                 *)
WakesOnTime ==
  [][\A t \in Threads :
       k.state[t] = "WaitingDelay" /\ handler = "tick"
         /\ k'.state[t] # "WaitingDelay" => due[t] = 0]_vars

(* thread_join is the "Thread waiting to Join" (rtx_os.h:116): the end of  *)
(* a thread never gives its wakeup to a thread that does something else.   *)
JoinPointsToWaiter ==
  \A t \in Threads :
    Live(t) /\ join[t] # NoThread => k.state[join[t]] = "WaitingJoin"

(* A thread waits to join exactly as long as the thread it joined lives:   *)
(* whichever call ends that thread wakes it in the same step, and nothing  *)
(* else does, be it a tick, a detach or a change of priority.              *)
JoinsEnd ==
  \A t \in Threads : k.state[t] = "WaitingJoin" =>
    \E u \in Threads :
      /\ Live(u) /\ join[u] = t
      /\ k'.state[t] = "WaitingJoin" <=> Live(u)'

JoinEndsWithThread == [][JoinsEnd]_vars

(* Round robin: a thread keeps the core for at most the time slice while   *)
(* an equal is ready.                                                      *)
SliceBounded == RobinTimeout # 0 => ran <= RobinTimeout

(* No starvation among equals: a ready thread does not wait for ever while *)
(* the scheduler runs only threads of its own priority.                    *)
EqualsTakeTurns ==
  \A t \in User :
    []<>~(k.state[t] = "Ready" /\ k.kstate = "Running"
          /\ k.prio[k.curr] = k.prio[t])
=============================================================================
