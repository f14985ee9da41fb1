----------------------------- MODULE TickerQueue -----------------------------
(***************************************************************************)
(* The microsecond ticker: the event queue of hal/mbed_ticker_api.c over   *)
(* the LPIT port of this board (api/us_ticker.c), used by the drivers      *)
(* Ticker and Timeout.  A free-running counter of Bits bits gives the      *)
(* time, a one-shot countdown gives the interrupt.                         *)
(*                                                                         *)
(* The code runs in critical sections, so its operations do not            *)
(* interleave; but the counter runs on while they execute.  todo is what   *)
(* the open critical section has still to do, one element for every piece  *)
(* of code between two reads of the counter, and time may pass before      *)
(* each.  At 1 MHz a tick is a microsecond, so ticks need no conversion.   *)
(*                                                                         *)
(* Times are kept relative to the real time t, so that runs of any length  *)
(* have finitely many states: lag is t - present_time, and due[e] is       *)
(* timestamp - t for an event in the queue or being handled (the           *)
(* timestamp of any other event is not read before it is set again).       *)
(***************************************************************************)
EXTENDS Integers, Sequences, SequencesExt, FiniteSets

CONSTANTS
  Events,     \* ticker_event_t objects, one inside every Ticker or Timeout
  Periodic,   \* the ones that are a Ticker; the others are a Timeout
  Bits,       \* info->bits
  Delays,     \* arguments of attach_us
  MaxMasked   \* the longest time interrupts stay masked

ASSUME PeriodicAreEvents == Periodic \subseteq Events
ASSUME BitsAreEnough == Bits \in Nat /\ Bits >= 4
ASSUME TimesAreNats == Delays \subseteq Nat /\ MaxMasked \in Nat

(* Of the 71 minutes of a 32-bit counter 40 are left beyond max_delta for  *)
(* the masked times that can add up before the time is read again.         *)
ASSUME MaskedIsShort ==
  /\ MaxMasked < 7 * 2 ^ (Bits - 4)
  /\ 7 * 2 ^ (Bits - 4) + 4 * MaxMasked < 2 ^ Bits

VARIABLES
  counter,   \* the free-running counter, what us_ticker_read returns
  lag,       \* the real time less queue->present_time
  last,      \* queue->tick_last_read
  queue,     \* the list from queue->head
  due,       \* obj->timestamp less the real time
  delay,     \* Ticker::_delay (a Timeout does not read its own)
  attached,  \* the events whose _function is set
  lock,      \* deep_sleep_lock of the sleep manager, these drivers' share
  left,      \* LPIT channel 3: ticks to its timeout, Off: stopped
  pend,      \* the LPIT interrupt is pending
  todo,      \* the rest of the critical section
  masked     \* time spent in it, or with the interrupt pending

vars == <<counter, lag, last, queue, due, delay, attached, lock, left,
          pend, todo, masked>>
time == <<lag, last>>
lists == <<queue, due, delay, attached, lock>>
hw == <<left, pend>>

Off == -1
Wrap == 2 ^ Bits

(* queue->max_delta, 0x7 << (bits - 4); the mutant takes the whole range. *)
MaxDeltaWhole == Wrap - 1
MaxDelta == 7 * 2 ^ (Bits - 4)

Init ==
  /\ counter = 0 /\ lag = 0 /\ last = 0
  /\ queue = <<>> /\ attached = {} /\ lock = 0
  /\ due = [e \in Events |-> 0] /\ delay = [e \in Periodic |-> 0]
  /\ left = Off /\ pend = FALSE
  /\ todo = <<[op |-> "schedule"]>> /\ masked = 0

-----------------------------------------------------------------------------
(* The hardware. *)

Timed(e) == e \in ToSet(queue) \/ [op |-> "handle", ev |-> e] \in ToSet(todo)

(* A microsecond: the countdown that runs out requests the interrupt.  It  *)
(* would start again, but then the interrupt is pending, and its handler   *)
(* stops it.                                                               *)
Advance ==
  /\ todo # <<>> \/ pend => masked < MaxMasked
  /\ counter' = (counter + 1) % Wrap /\ lag' = lag + 1
  /\ due' = [e \in Events |-> IF Timed(e) THEN due[e] - 1 ELSE 0]
  /\ left' = IF left \in {Off, 1} THEN Off ELSE left - 1
  /\ pend' = (pend \/ left = 1)
  /\ masked' = IF todo # <<>> \/ pend THEN masked + 1 ELSE 0
  /\ UNCHANGED <<last, queue, delay, attached, lock, todo>>

-----------------------------------------------------------------------------
(* The pieces of the critical section. *)

Task == Head(todo)
Doing(op) == todo # <<>> /\ Task.op = op
(* The task gives way to the tasks s; the section ends with the last one. *)
Then(s) ==
  /\ todo' = s \o Tail(todo)
  /\ masked' = IF todo' = <<>> THEN 0 ELSE masked
  /\ UNCHANGED counter
Schedule == <<[op |-> "schedule"]>>

(* update_present_time *)
Elapsed == (counter - last) % Wrap
UpdatePresentTime == lag' = lag - Elapsed /\ last' = counter

(* After it: the time from present_time to the timestamp of e *)
DeltaUs(e) == due[e] + lag'

(* compute_tick *)
ComputeTick(us) == (last' + (IF us > MaxDelta THEN MaxDelta ELSE us)) % Wrap

(* schedule_interrupt, up to its set_interrupt *)
ScheduleInterrupt ==
  /\ Doing("schedule")
  /\ UpdatePresentTime
  /\ IF queue = <<>>
       THEN /\ Then(<<[op |-> "set", tick |-> (last' + MaxDelta) % Wrap,
                       recheck |-> FALSE]>>)
            /\ UNCHANGED pend
     ELSE IF DeltaUs(Head(queue)) <= 0
       THEN Then(<<>>) /\ pend' = TRUE
     ELSE /\ Then(<<[op |-> "set", tick |-> ComputeTick(DeltaUs(Head(queue))),
                     recheck |-> TRUE]>>)
          /\ UNCHANGED pend
  /\ UNCHANGED <<lists, left>>

(* us_ticker_set_interrupt reads the counter again; a time that it takes   *)
(* for wrapped comes out one tick short.                                   *)
DeltaTicks(tick) ==
  LET d == IF tick >= counter THEN tick - counter
           ELSE tick + (Wrap - 1) - counter
  IN  IF d = 0 THEN 1 ELSE d

SetInterrupt ==
  /\ Doing("set")
  /\ Then(<<[op |-> "start", delta |-> DeltaTicks(Task.tick),
             tick |-> Task.tick, recheck |-> Task.recheck]>>)
  /\ UNCHANGED <<time, lists, hw>>

(* ... and starts the countdown *)
StartCountdown ==
  /\ Doing("start")
  /\ left' = Task.delta
  /\ Then(IF Task.recheck THEN <<[op |-> "recheck", tick |-> Task.tick]>>
          ELSE <<>>)
  /\ UNCHANGED <<time, lists, pend>>

(* _ticker_match_interval_passed *)
MatchIntervalPassed(prev, cur, match) ==
  IF match > prev THEN cur >= match \/ cur < prev
  ELSE cur < prev /\ cur >= match

(* The time may have gone by while the countdown was set up; the mutant    *)
(* does not look.                                                          *)
PassedNever(tick) == FALSE
Passed(tick) == MatchIntervalPassed(last, counter, tick)

Recheck ==
  /\ Doing("recheck")
  /\ pend' = (pend \/ Passed(Task.tick))
  /\ Then(<<>>)
  /\ UNCHANGED <<time, lists, left>>

(* ticker_insert_event_us: before the first later event. *)
InsertPos(ts) ==
  CHOOSE i \in 1 .. Len(queue) + 1 :
    /\ \A j \in 1 .. i - 1 : due[queue[j]] <= ts
    /\ i <= Len(queue) => ts < due[queue[i]]

InsertEvent(e, ts) ==
  /\ queue' = InsertAt(queue, InsertPos(ts), e)
  /\ due' = [due EXCEPT ![e] = ts]

(* A new head is scheduled; the mutant forgets that. *)
AfterInsertNothing(e) == <<>>
AfterInsert(e) == IF queue'[1] = e THEN Schedule ELSE <<>>

(* ticker_remove_event *)
Without(e) ==
  IF e \in ToSet(queue)
    THEN RemoveAt(queue, CHOOSE i \in DOMAIN queue : queue[i] = e)
    ELSE queue

RemoveEvent ==
  /\ Doing("remove")
  /\ queue' = Without(Task.ev)
  /\ Then(IF queue # <<>> /\ Head(queue) = Task.ev THEN Schedule ELSE <<>>)
  /\ due' = [due EXCEPT ![Task.ev] = 0]
  /\ UNCHANGED <<time, delay, attached, lock, hw>>

(* Ticker::setup after its remove *)
Setup ==
  /\ Doing("setup")
  /\ UpdatePresentTime
  /\ delay' = [e \in Periodic |-> IF e = Task.ev THEN Task.us ELSE delay[e]]
  /\ InsertEvent(Task.ev, Task.us - lag')
  /\ Then(AfterInsert(Task.ev))
  /\ UNCHANGED <<attached, lock, hw>>

(* Ticker::detach after its remove *)
Release ==
  /\ Doing("release")
  /\ lock' = IF Task.ev \in attached THEN lock - 1 ELSE lock
  /\ attached' = attached \ {Task.ev}
  /\ Then(<<>>)
  /\ UNCHANGED <<time, queue, due, delay, hw>>

-----------------------------------------------------------------------------
(* The drivers, called by a thread or, at "call", by an event handler. *)

Caller == Doing("call") \/ (todo = <<>> /\ ~pend)
CallerThen(s) ==
  IF todo = <<>> THEN todo' = s /\ masked' = 0 /\ UNCHANGED counter ELSE Then(s)

(* Ticker::attach_us: the sleep lock is taken for the first attach only;   *)
(* the mutant takes it always.                                             *)
TakeLockAlways(e) == lock + 1
TakeLock(e) == IF e \in attached THEN lock ELSE lock + 1

(* A Ticker of period 0 never leaves its interrupt (a note in Ticker.h     *)
(* forbids periods shorter than the callback), so there is none.           *)
Attach(e, us) ==
  /\ Caller
  /\ e \in Periodic => us > 0
  /\ lock' = TakeLock(e)
  /\ attached' = attached \cup {e}
  /\ CallerThen(<<[op |-> "remove", ev |-> e],
                  [op |-> "setup", ev |-> e, us |-> us]>>)
  /\ UNCHANGED <<time, queue, due, delay, hw>>

Detach(e) ==
  /\ Caller
  /\ CallerThen(<<[op |-> "remove", ev |-> e], [op |-> "release", ev |-> e]>>)
  /\ UNCHANGED <<time, lists, hw>>

(* ticker_read_us *)
ReadUs ==
  /\ todo = <<>> /\ ~pend
  /\ UpdatePresentTime
  /\ UNCHANGED <<counter, lists, hw, todo, masked>>

(* The callback does nothing with the ticker. *)
CallbackReturns ==
  /\ Doing("call")
  /\ Then(<<>>)
  /\ UNCHANGED <<time, lists, hw>>

-----------------------------------------------------------------------------
(* The interrupt: pit_isr, then ticker_irq_handler. *)

IsrEntry ==
  /\ todo = <<>> /\ pend
  /\ pend' = FALSE /\ left' = Off
  /\ todo' = <<[op |-> "irq"]>> /\ masked' = 0
  /\ UNCHANGED <<counter, time, lists>>

HandlePending ==
  /\ Doing("irq")
  /\ IF queue = <<>>
       THEN Then(Schedule) /\ UNCHANGED <<time, queue>>
       ELSE /\ UpdatePresentTime
            /\ IF DeltaUs(Head(queue)) <= 0
                 THEN /\ queue' = Tail(queue)
                      /\ Then(<<[op |-> "handle", ev |-> Head(queue)],
                                [op |-> "irq"]>>)
                 ELSE Then(Schedule) /\ UNCHANGED queue
  /\ UNCHANGED <<due, delay, attached, lock, hw>>

(* Ticker::handler: the next time is counted from the last one. *)
HandleTicker ==
  /\ Doing("handle") /\ Task.ev \in Periodic
  /\ UpdatePresentTime
  /\ InsertEvent(Task.ev, due[Task.ev] + delay[Task.ev])
  /\ Then(AfterInsert(Task.ev) \o <<[op |-> "call"]>>)
  /\ UNCHANGED <<delay, attached, lock, hw>>

(* Timeout::handler: the event is not in the queue any more. *)
HandleTimeout ==
  /\ Doing("handle") /\ Task.ev \notin Periodic
  /\ Then(<<[op |-> "release", ev |-> Task.ev], [op |-> "call"]>>)
  /\ due' = [due EXCEPT ![Task.ev] = 0]
  /\ UNCHANGED <<time, queue, delay, attached, lock, hw>>

-----------------------------------------------------------------------------
Section ==
  \/ ScheduleInterrupt \/ SetInterrupt \/ StartCountdown \/ Recheck
  \/ RemoveEvent \/ Setup \/ Release \/ CallbackReturns
  \/ HandlePending \/ HandleTicker \/ HandleTimeout

Next ==
  \/ Advance
  \/ IsrEntry
  \/ Section
  \/ ReadUs
  \/ \E e \in Events : Detach(e) \/ \E us \in Delays : Attach(e, us)

Spec == Init /\ [][Next]_vars

-----------------------------------------------------------------------------
(* Properties. *)

(* The 64-bit time loses no wrap of the counter: what present_time lacks   *)
(* is always what the counter has advanced since it was last read.  It     *)
(* depends on an interrupt at least every max_delta ticks, with or without *)
(* an event.                                                               *)
TimeKept == lag = (counter - last) % Wrap

(* The queue is in the order of time, and outside a critical section the   *)
(* interrupt for its first event is pending, or the countdown ends in time *)
(* for it: at most the time the setting up took later.                     *)
HeadArmed ==
  /\ \A i, j \in DOMAIN queue : i < j => due[queue[i]] <= due[queue[j]]
  /\ todo = <<>> /\ queue # <<>> /\ ~pend =>
       left # Off /\ left <= due[Head(queue)] + MaxMasked

(* No event is overdue by more than the masked times that can add up on    *)
(* its way: setting up the countdown, another critical section, the        *)
(* latency of the interrupt and its handler.                               *)
InTime == \A i \in DOMAIN queue : due[queue[i]] + 4 * MaxMasked >= 0

(* The ticker stops in deep sleep: outside a critical section it is locked *)
(* once for every event that is queued, and for no other.                  *)
LockedWhileQueued ==
  todo = <<>> => lock = Len(queue) /\ attached = ToSet(queue)
=============================================================================
