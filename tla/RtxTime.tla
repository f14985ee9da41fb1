------------------------------- MODULE RtxTime -------------------------------
(***************************************************************************)
(* Time in RTX5: the timers (rtx_timer.c), the delays of threads, the tick *)
(* count, and the suspension of the tick for tickless sleep, after which   *)
(* svcRtxKernelResume makes up for the ticks that were slept through       *)
(* (rtx_kernel.c, rtx_delay.c).  SVC and SysTick handlers do not preempt   *)
(* each other, so a call and a tick are a step each.                       *)
(*                                                                         *)
(* Timers and delayed threads are lists sorted by time in which each       *)
(* entry is relative to the one before it.                                 *)
(***************************************************************************)
EXTENDS Integers, Sequences, SequencesExt, FiniteSets

CONSTANTS
  Timers,
  Periodic,     \* the timers of type osTimerPeriodic
  Threads,      \* threads that delay
  Ticks,        \* times asked for
  Ahead,        \* how far a tick count asked for is ahead of the present one
  QueueSize,    \* timer_mq_mcnt
  TickWrap,     \* the tick count is kept modulo this (2^32)
  Start,        \* the tick count when the model starts
  MaxTime,      \* bound
  Oversleep,    \* by how much a sleep may exceed what osKernelSuspend returned
  SameTicks     \* TRUE: a running periodic timer is restarted with its own period

ASSUME PeriodicAreTimers == Periodic \subseteq Timers
ASSUME TicksPositive == Ticks \subseteq Nat \ {0}
ASSUME SameTicksIsBoolean == SameTicks \in BOOLEAN

Forever == -1

VARIABLES
  now,       \* the real time in ticks, not wrapped
  tick,      \* osRtxInfo.kernel.tick
  kernel,    \* "running", "suspended", or "halted" by osRtxErrorNotify
  until,     \* suspended: the time of the wakeup osKernelSuspend asked for
  since,     \* suspended: since when
  state,     \* state[t]: "inactive", "stopped" or "running"
  load,      \* load[t]: the period
  list,      \* osRtxInfo.timer.list
  delayed,   \* osRtxInfo.thread.delay_list
  mq,        \* the queue of the timer thread
  due,       \* history: when a timer or thread is to go off, and the period asked for
  early      \* history: whether one went off before it was due

vars == <<now, tick, kernel, until, since, state, load, list, delayed, mq, due, early>>

-----------------------------------------------------------------------------
(* Lists of relative times *)

Entry(x, t) == [who |-> x, tick |-> t]
Due(t, period) == [at |-> t, every |-> period]
NotDue == Due(0, 0)

(* The time until the i-th entry *)
Left(s, i) == FoldLeft(LAMBDA sum, e : sum + e.tick, 0, SubSeq(s, 1, i))
Position(s, x) == CHOOSE i \in DOMAIN s : s[i].who = x
Listed(s) == {s[i].who : i \in DOMAIN s}

(* The entry behind is relative to the new one now; the mutant forgets it. *)
RelativeToForgotten(s, t) == s
RelativeTo(s, t) == IF s = <<>> THEN s ELSE [s EXCEPT ![1].tick = @ - t]

(* TimerInsert, osRtxThreadDelayInsert: behind the entries of the same time *)
Inserted(s, x, t) ==
  LET n == Cardinality({i \in DOMAIN s : Left(s, i) <= t})
      rest == t - Left(s, n)
  IN SubSeq(s, 1, n) \o <<Entry(x, rest)>> \o RelativeTo(SubSeq(s, n + 1, Len(s)), rest)

(* TimerRemove, osRtxThreadDelayRemove *)
Removed(s, x) ==
  LET n == Position(s, x)
  IN SubSeq(s, 1, n - 1) \o RelativeTo(SubSeq(s, n + 1, Len(s)), -s[n].tick)

CountDown(s) == [s EXCEPT ![1].tick = @ - 1]
Expired(s) == {s[i].who : i \in {j \in DOMAIN s : Left(s, j) = 0}}
Unexpired(s) == SelectSeq(s, LAMBDA e : e.who \notin Expired(s))

-----------------------------------------------------------------------------
(* Timers.  osRtxTimerTick works on T, the list, the queue, the states and  *)
(* the times promised at time T.at. *)

TimerState == [list |-> list, mq |-> mq, state |-> state, due |-> due, at |-> now,
               early |-> early]

(* One turn of the loop: the head has expired. *)
Expire(T) ==
  LET t == Head(T.list).who
      rest == Tail(T.list)
      U == [T EXCEPT !.mq = Append(@, t), !.early = @ \/ T.at < T.due[t].at]
  IN IF t \in Periodic
       THEN [U EXCEPT !.list = Inserted(rest, t, load[t]),
                      !.due[t].at = T.at + T.due[t].every]
       ELSE [U EXCEPT !.list = rest, !.state[t] = "stopped"]

(* osRtxTimerTick *)
TimerTick(T) ==
  IF T.list = <<>> THEN T
  ELSE LET counted == CountDown(T.list)
       IN FoldLeft(LAMBDA U, i : Expire(U), [T EXCEPT !.list = counted],
                   [i \in 1 .. Cardinality(Expired(counted)) |-> i])

(* The queue of the timer thread may overflow: osRtxErrorNotify halts. *)
Become(T, threads) ==
  /\ list' = T.list /\ mq' = T.mq /\ state' = T.state
  /\ delayed' = threads
  /\ early' = (T.early \/ \E x \in Listed(delayed) \ Listed(threads) : due[x].at > now')
  /\ due' = [x \in DOMAIN due |->
               IF x \in Listed(T.list) \cup Listed(threads) THEN T.due[x] ELSE NotDue]
  /\ kernel' = IF Len(T.mq) > QueueSize THEN "halted" ELSE "running"

(* osRtxThreadDelayTick *)
DelayTick(s) ==
  IF s = <<>> THEN s ELSE Unexpired(CountDown(s))

Running == kernel = "running"

Init ==
  /\ now = Start /\ tick = Start % TickWrap
  /\ kernel = "running" /\ until = Forever /\ since = 0
  /\ state = [t \in Timers |-> "inactive"]
  /\ load = [t \in Timers |-> 0]
  /\ list = <<>> /\ delayed = <<>> /\ mq = <<>>
  /\ due = [x \in Timers \cup Threads |-> NotDue]
  /\ early = FALSE

TimerNew(t) ==
  /\ Running /\ state[t] = "inactive"
  /\ state' = [state EXCEPT ![t] = "stopped"]
  /\ load' = [load EXCEPT ![t] = 0]
  /\ UNCHANGED <<now, tick, kernel, until, since, list, delayed, mq, due, early>>

(* svcRtxTimerStart: a restart leaves the period as it is. *)
TimerStart(t, ticks) ==
  /\ Running /\ state[t] = "stopped"
  /\ state' = [state EXCEPT ![t] = "running"]
  /\ load' = [load EXCEPT ![t] = ticks]
  /\ list' = Inserted(list, t, ticks)
  /\ due' = [due EXCEPT ![t] = Due(now + ticks, ticks)]
  /\ UNCHANGED <<now, tick, kernel, until, since, delayed, mq, early>>

TimerRestart(t, ticks) ==
  /\ Running /\ state[t] = "running"
  /\ SameTicks /\ t \in Periodic => ticks = load[t]
  /\ list' = Inserted(Removed(list, t), t, ticks)
  /\ due' = [due EXCEPT ![t] = Due(now + ticks, ticks)]
  /\ UNCHANGED <<now, tick, kernel, until, since, state, load, delayed, mq, early>>

TimerStop(t) ==
  /\ Running /\ state[t] = "running"
  /\ state' = [state EXCEPT ![t] = "stopped"]
  /\ list' = Removed(list, t)
  /\ due' = [due EXCEPT ![t] = NotDue]
  /\ UNCHANGED <<now, tick, kernel, until, since, load, delayed, mq, early>>

TimerDelete(t) ==
  /\ Running /\ state[t] # "inactive"
  /\ state' = [state EXCEPT ![t] = "inactive"]
  /\ list' = IF state[t] = "running" THEN Removed(list, t) ELSE list
  /\ due' = [due EXCEPT ![t] = NotDue]
  /\ UNCHANGED <<now, tick, kernel, until, since, load, delayed, mq, early>>

(* osRtxTimerThread gets the next callback. *)
TimerThread ==
  /\ Running /\ mq # <<>>
  /\ mq' = Tail(mq)
  /\ UNCHANGED <<now, tick, kernel, until, since, state, load, list, delayed, due, early>>

-----------------------------------------------------------------------------
(* Threads *)

(* svcRtxDelay, and every wait with a timeout *)
Delay(x, ticks) ==
  /\ Running /\ x \notin Listed(delayed)
  /\ delayed' = Inserted(delayed, x, ticks)
  /\ due' = [due EXCEPT ![x] = Due(now + ticks, 0)]
  /\ UNCHANGED <<now, tick, kernel, until, since, state, load, list, mq, early>>

(* svcRtxDelayUntil: the difference of the tick counts, as they wrap *)
UntilTicks(target) == (target - tick) % TickWrap

(* The thread goes on when the real time has the target's tick count. *)
DelayUntil(x, target) ==
  LET ticks == UntilTicks(target)
  IN /\ Running /\ x \notin Listed(delayed)
     /\ ticks \notin {0, TickWrap - 1}
     /\ delayed' = Inserted(delayed, x, ticks)
     /\ due' = [due EXCEPT ![x] = Due(now + ((target - now) % TickWrap), 0)]
     /\ UNCHANGED <<now, tick, kernel, until, since, state, load, list, mq, early>>

(* What a thread waits for happens before its timeout. *)
WakeEarly(x) ==
  /\ Running /\ x \in Listed(delayed)
  /\ delayed' = Removed(delayed, x)
  /\ due' = [due EXCEPT ![x] = NotDue]
  /\ UNCHANGED <<now, tick, kernel, until, since, state, load, list, mq, early>>

-----------------------------------------------------------------------------
(* Ticks, osKernelSuspend and osKernelResume *)

(* osRtxTick_Handler *)
Tick ==
  LET T == TimerTick([TimerState EXCEPT !.at = now + 1])
  IN /\ Running /\ now < MaxTime
     /\ now' = now + 1
     /\ tick' = (tick + 1) % TickWrap
     /\ Become(T, DelayTick(delayed))
     /\ UNCHANGED <<until, since, load>>

(* The earlier of the first delay and the first timer *)
Suspend ==
  LET heads == {s[1].tick : s \in {list, delayed} \ {<<>>}}
  IN /\ Running
     /\ kernel' = "suspended" /\ since' = now
     /\ until' = IF heads = {} THEN Forever
                 ELSE now + (CHOOSE d \in heads : \A e \in heads : d <= e)
     /\ UNCHANGED <<now, tick, state, load, list, delayed, mq, due, early>>

Asleep ==
  /\ kernel = "suspended" /\ now < MaxTime
  /\ until = Forever \/ now < until + Oversleep
  /\ now' = now + 1
  /\ UNCHANGED <<tick, kernel, until, since, state, load, list, delayed, mq, due, early>>

(* The list of delays after a sleep: the time of the head at once, the     *)
(* rest tick by tick. *)
Slept(s, n) ==
  IF s = <<>> THEN s
  ELSE IF n < s[1].tick THEN [s EXCEPT ![1].tick = @ - n]
  ELSE FoldLeft(LAMBDA r, i : DelayTick(r), [s EXCEPT ![1].tick = 1],
                [i \in 1 .. n - s[1].tick + 1 |-> i])

(* By how much the tick count grows: at once by the time of the head, then *)
(* by one in each turn of the loop that finds a delayed thread.  The       *)
(* mutant leaves the turns out. *)
CountedHead(s, n) ==
  IF s = <<>> \/ n < s[1].tick THEN n ELSE s[1].tick
Counted(s, n) ==
  IF s = <<>> \/ n < s[1].tick THEN n
  ELSE s[1].tick + Cardinality({i \in 1 .. n - s[1].tick :
                                  i = 1 \/ Slept(s, s[1].tick + i - 2) # <<>>})

(* The timers after a sleep of n ticks that began at time since *)
TimersSlept(T, n) ==
  IF T.list = <<>> THEN T
  ELSE LET first == T.list[1].tick
       IN IF n < first THEN [T EXCEPT !.list[1].tick = @ - n]
          ELSE FoldLeft(LAMBDA U, i : TimerTick([U EXCEPT !.at = since + first + i - 1]),
                        [T EXCEPT !.list[1].tick = 1],
                        [i \in 1 .. n - first + 1 |-> i])

Resume ==
  LET n == now - since
      T == TimersSlept(TimerState, n)
  IN /\ kernel = "suspended"
     /\ UNCHANGED <<now, load>>
     /\ tick' = (tick + Counted(delayed, n)) % TickWrap
     /\ Become(T, Slept(delayed, n))
     /\ until' = Forever /\ since' = 0

Next ==
  \/ \E t \in Timers :
       \/ TimerNew(t) \/ TimerStop(t) \/ TimerDelete(t)
       \/ \E ticks \in Ticks : TimerStart(t, ticks) \/ TimerRestart(t, ticks)
  \/ TimerThread
  \/ \E x \in Threads :
       \/ WakeEarly(x)
       \/ \E ticks \in Ticks : Delay(x, ticks)
       \/ \E ahead \in Ahead : DelayUntil(x, (tick + ahead) % TickWrap)
  \/ Tick \/ Suspend \/ Asleep \/ Resume

Spec == Init /\ [][Next]_vars

-----------------------------------------------------------------------------
(* Properties *)

(* Every running timer and every delayed thread is in its list, and goes   *)
(* off exactly when it is due, neither later nor earlier, whatever was     *)
(* inserted, removed, restarted, expired or slept through before it        *)
(* (TimerInsert, TimerRemove, osRtxTimerTick, osRtxThreadDelayTick,        *)
(* svcRtxKernelResume). *)
OnTime ==
  Running =>
    /\ ~early
    /\ Listed(list) = {t \in Timers : state[t] = "running"}
    /\ \A s \in {list, delayed} :
         \A i \in DOMAIN s : s[i].tick >= 0 /\ now + Left(s, i) = due[s[i].who].at

(* The tick count is the real time modulo its range, also after            *)
(* svcRtxKernelResume has made up for a sleep, as long as the sleep was    *)
(* not longer than osKernelSuspend asked for by more than one tick.        *)
TickCountKept == Running => tick = now % TickWrap
=============================================================================
