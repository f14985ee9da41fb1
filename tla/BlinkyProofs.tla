---------------------------- MODULE BlinkyProofs ----------------------------
(***************************************************************************)
(* The whole program, for any times: the deep sleep lock is balanced, the  *)
(* core never enters deep sleep, and the LED goes on and off in turn, each *)
(* time for at least WaitUs.                                               *)
(*                                                                         *)
(* The proof composes TickerQueueProofs.  Its module counts only the locks *)
(* of its own drivers, of which there are none here: TP is the ticker with *)
(* 0 in the place of the lock, which main and the idle thread share.       *)
(***************************************************************************)
EXTENDS Blinky, SequenceTheorems, TLAPS

TP == INSTANCE TickerQueueProofs WITH
  Events <- {}, Periodic <- {}, Delays <- {}, lock <- 0

Waits == {"lock", "delay", "delayed", "unlock", "poll"}
LedPin == "PTD2"

(* The sleep manager *)
SleepInv ==
  /\ SleepLocksBalanced
  /\ ticks \in Nat /\ (ticks # 0 => main = "delayed")
  /\ power \in {"run", "sleep"}
  /\ power # "run" => main = "delayed"

(* The LED: what main has commanded, and for how long *)
Elapsed == (counter - start) % T!Wrap
LedInv ==
  /\ main \in {"init", "led", "start"} \cup Waits
  /\ lit \in {0, 1} /\ start \in TP!Ticks
  /\ held = Unset => main \in {"init", "led"} /\ lit = 1
  /\ held # Unset =>
       /\ held \in Nat /\ main # "init"
       /\ LedPin \in out <=> lit = 0
       /\ main = "led" => held >= WaitUs
       /\ main \in Waits => held >= WaitUs \/ Elapsed <= held

IInv == TP!IInv /\ SleepInv /\ LedInv

-----------------------------------------------------------------------------
(* The ticker. *)

(* The two views of the ticker's operators are the same. *)
LEMMA TickerSame ==
  /\ T!Wrap = TP!Wrap /\ T!MaxDelta = TP!MaxDelta
  /\ T!UpdatePresentTime <=> TP!UpdatePresentTime
BY DEF T!Wrap, TP!Wrap, T!MaxDelta, TP!MaxDelta, T!UpdatePresentTime,
   TP!UpdatePresentTime, T!Elapsed, TP!Elapsed

(* The state after ticker_init *)
LEMMA TickerInit ==
  ASSUME T!Init
  PROVE  TP!IInv /\ lock = 0
<1>1. TP!Init /\ lock = 0
  BY DEF T!Init, TP!Init, T!Off, TP!Off
<1>2. QED
  BY <1>1, TP!InitIInv, TickerFits

(* A microsecond *)
LEMMA TickerAdvance ==
  ASSUME TP!IInv, T!Advance
  PROVE  TP!IInv' /\ lock' = lock /\ counter' = (counter + 1) % T!Wrap
<1>1. TP!Advance /\ lock' = lock /\ counter' = (counter + 1) % T!Wrap
  BY DEF T!Advance, TP!Advance, T!Timed, TP!Timed, T!Wrap, TP!Wrap, T!Off, TP!Off
<1>2. QED
  BY <1>1, TP!AdvanceIInv, TickerFits

(* ticker_read: the time it returns is the counter. *)
LEMMA TickerReads ==
  ASSUME TP!IInv, T!ReadUs
  PROVE  TP!IInv' /\ lock' = lock /\ counter' = counter /\ lag' = 0
<1>1. TP!ReadUs /\ TP!UpdatePresentTime /\ lock' = lock /\ counter' = counter
  BY TickerSame DEF T!ReadUs, TP!ReadUs, T!lists, TP!lists, T!hw, TP!hw
<1>2. TP!IInv'
  BY <1>1, TP!ReadUsIInv, TickerFits
<1>3. lag' = 0
  BY <1>1, TP!Updated, TickerFits DEF TP!IInv, TP!BoundInv
<1>4. QED
  BY <1>1, <1>2, <1>3

(* A step that leaves the ticker alone *)
LEMMA TickerQuiet ==
  ASSUME TP!IInv, UNCHANGED ticker
  PROVE  TP!IInv' /\ counter' = counter
<1>1. UNCHANGED TP!vars /\ counter' = counter
  BY DEF ticker, TP!vars
<1>2. QED
  BY <1>1, TP!NextIInv, TickerFits

(* The LPIT interrupt: as there are no events, its handler changes no      *)
(* lock.                                                                   *)
LEMMA TickerInterrupts ==
  ASSUME TP!IInv, T!IsrEntry \/ T!Section
  PROVE  TP!IInv' /\ lock' = lock /\ counter' = counter
<1>1. ASSUME T!IsrEntry
      PROVE  TP!IInv' /\ lock' = lock /\ counter' = counter
  <2>1. TP!IsrEntry /\ lock' = lock /\ counter' = counter
    BY <1>1 DEF T!IsrEntry, TP!IsrEntry, T!lists, TP!lists, T!time, TP!time, T!Off, TP!Off
  <2>2. QED
    BY <2>1, TP!IsrEntryIInv, TickerFits
<1>2. \A s : T!Then(s) <=> TP!Then(s)
  BY DEF T!Then, TP!Then
<1>3. \A op : T!Doing(op) <=> TP!Doing(op)
  BY DEF T!Doing, TP!Doing, T!Task, TP!Task
<1>4. \A s : T!Then(s) => counter' = counter
  BY DEF T!Then
<1>5. T!Task = TP!Task
  BY DEF T!Task, TP!Task
<1>6. ASSUME T!Doing("remove") \/ T!Doing("setup") \/ T!Doing("release") \/ T!Doing("handle")
      PROVE  FALSE
  <2>1. todo # <<>> /\ TP!Task.op \in {"remove", "setup", "release", "handle"}
    BY <1>6 DEF T!Doing, T!Task, TP!Task
  <2>2. TP!Task.ev \in {}
    BY <2>1, TP!TaskTyped, TickerFits DEF TP!IInv
  <2>3. QED
    BY <2>2
<1>7. ASSUME T!ScheduleInterrupt
      PROVE  TP!IInv' /\ lock' = lock /\ counter' = counter
  <2>1. TP!ScheduleInterrupt
    BY <1>2, <1>3, <1>7, TickerSame DEF T!ScheduleInterrupt, TP!ScheduleInterrupt,
       T!DeltaUs, TP!DeltaUs, T!ComputeTick, TP!ComputeTick, T!lists, TP!lists
  <2>2. lock' = lock /\ counter' = counter
    BY <1>4, <1>7 DEF T!ScheduleInterrupt, T!lists
  <2>3. QED
    BY <2>1, <2>2, TP!ScheduleInterruptIInv, TickerFits
<1>8. ASSUME T!SetInterrupt
      PROVE  TP!IInv' /\ lock' = lock /\ counter' = counter
  <2>1. T!DeltaTicks(T!Task.tick) = TP!DeltaTicks(T!Task.tick)
    BY TickerSame DEF T!DeltaTicks, TP!DeltaTicks
  <2>2. TP!SetInterrupt
    BY <1>2, <1>3, <1>5, <1>8, <2>1 DEF T!SetInterrupt, TP!SetInterrupt,
       T!lists, TP!lists, T!time, TP!time, T!hw, TP!hw
  <2>3. lock' = lock /\ counter' = counter
    BY <1>4, <1>8 DEF T!SetInterrupt, T!lists
  <2>4. QED
    BY <2>2, <2>3, TP!SetInterruptIInv, TickerFits
<1>9. ASSUME T!StartCountdown
      PROVE  TP!IInv' /\ lock' = lock /\ counter' = counter
  <2>1. TP!StartCountdown
    BY <1>2, <1>3, <1>5, <1>9 DEF T!StartCountdown, TP!StartCountdown,
       T!lists, TP!lists, T!time, TP!time
  <2>2. lock' = lock /\ counter' = counter
    BY <1>4, <1>9 DEF T!StartCountdown, T!lists
  <2>3. QED
    BY <2>1, <2>2, TP!StartCountdownIInv, TickerFits
<1>10. ASSUME T!Recheck
       PROVE  TP!IInv' /\ lock' = lock /\ counter' = counter
  <2>1. T!Passed(T!Task.tick) <=> TP!Passed(T!Task.tick)
    BY DEF T!Passed, TP!Passed, T!MatchIntervalPassed, TP!MatchIntervalPassed
  <2>2. pend' = (pend \/ TP!Passed(TP!Task.tick))
    BY <1>5, <1>10, <2>1 DEF T!Recheck
  <2>3. TP!Recheck
    BY <1>2, <1>3, <1>5, <1>10, <2>2 DEF T!Recheck, TP!Recheck,
       T!lists, TP!lists, T!time, TP!time
  <2>4. lock' = lock /\ counter' = counter
    BY <1>4, <1>10 DEF T!Recheck, T!lists
  <2>5. QED
    BY <2>3, <2>4, TP!RecheckIInv, TickerFits
<1>11. ASSUME T!CallbackReturns
       PROVE  TP!IInv' /\ lock' = lock /\ counter' = counter
  <2>1. TP!CallbackReturns
    BY <1>2, <1>3, <1>11 DEF T!CallbackReturns, TP!CallbackReturns,
       T!lists, TP!lists, T!time, TP!time, T!hw, TP!hw
  <2>2. lock' = lock /\ counter' = counter
    BY <1>4, <1>11 DEF T!CallbackReturns, T!lists
  <2>3. QED
    BY <2>1, <2>2, TP!CallbackReturnsIInv, TickerFits
<1>12. ASSUME T!HandlePending
       PROVE  TP!IInv' /\ lock' = lock /\ counter' = counter
  <2>1. TP!HandlePending
    BY <1>2, <1>3, <1>12, TickerSame DEF T!HandlePending, TP!HandlePending,
       T!DeltaUs, TP!DeltaUs, T!Schedule, TP!Schedule, T!time, TP!time, T!hw, TP!hw
  <2>2. lock' = lock /\ counter' = counter
    BY <1>4, <1>12 DEF T!HandlePending
  <2>3. QED
    BY <2>1, <2>2, TP!HandlePendingIInv, TickerFits
<1>13. CASE T!RemoveEvent \/ T!Setup \/ T!Release \/ T!HandleTicker \/ T!HandleTimeout
  BY <1>6, <1>13 DEF T!RemoveEvent, T!Setup, T!Release, T!HandleTicker, T!HandleTimeout
<1>14. QED
  BY <1>1, <1>7, <1>8, <1>9, <1>10, <1>11, <1>12, <1>13 DEF T!Section

-----------------------------------------------------------------------------
(* The invariant. *)

(* A microsecond more since main called wait, unless the counter is back   *)
(* where it was then.                                                      *)
LEMMA OneMoreElapsed ==
  ASSUME NEW a \in TP!Ticks, NEW b \in TP!Ticks
  PROVE  /\ (((a + 1) % T!Wrap) - b) % T!Wrap \in Nat
         /\ (((a + 1) % T!Wrap) - b) % T!Wrap <= ((a - b) % T!Wrap) + 1
<1> DEFINE w == T!Wrap
           c == (a + 1) % w
<1>1. w = TP!Wrap /\ w \in Nat /\ w > 1 /\ TP!Ticks = 0 .. w - 1
  BY TP!Bounds, TickerSame, TickerFits DEF TP!Ticks
<1>2. 1 \in TP!Ticks
  BY <1>1
<1>3. c = IF a + 1 < w THEN a + 1 ELSE a + 1 - w
  BY <1>1, <1>2, TP!ModSum, TickerFits
<1>4. c \in TP!Ticks
  BY <1>1, <1>3
<1>5. (c - b) % w = IF c >= b THEN c - b ELSE c - b + w
  BY <1>1, <1>4, TP!ModDiff, TickerFits
<1>6. (a - b) % w = IF a >= b THEN a - b ELSE a - b + w
  BY <1>1, TP!ModDiff, TickerFits
<1> HIDE DEF w, c
<1>7. (c - b) % w \in Nat /\ (c - b) % w <= ((a - b) % w) + 1
  BY <1>1, <1>3, <1>4, <1>5, <1>6
<1>8. QED
  BY <1>7 DEF c, w

(* A step of main that reads the time sees the counter as it is. *)
LEMMA ReadsNow ==
  ASSUME TP!IInv, T!ReadUs
  PROVE  TickerRead = counter /\ (start' = TickerRead => Elapsed' = 0)
<1>1. counter' = counter /\ lag' = 0
  BY TickerReads
<1>2. counter \in TP!Ticks /\ TP!Ticks = 0 .. T!Wrap - 1 /\ T!Wrap \in Nat \ {0}
  BY TP!Bounds, TickerSame, TickerFits DEF TP!IInv, TP!TypeInv, TP!Ticks
<1>3. (counter - 0) % T!Wrap = counter /\ (counter - counter) % T!Wrap = 0
  BY <1>2
<1>4. TickerRead = counter
  BY <1>1, <1>3 DEF TickerRead
<1>5. start' = TickerRead => Elapsed' = (counter - counter) % T!Wrap
  BY <1>1, <1>4 DEF Elapsed, T!Wrap
<1>6. QED
  BY <1>3, <1>4, <1>5

(* The initial state *)
LEMMA InitIInv == Init => IInv
<1> SUFFICES ASSUME Init PROVE IInv
  OBVIOUS
<1>1. TP!IInv /\ lock = 0
  BY TickerInit DEF Init
<1>2. SleepInv
  BY <1>1 DEF Init, SleepInv, SleepLocksBalanced
<1>3. 0 \in TP!Ticks
  BY TP!Bounds, TickerFits DEF TP!Ticks
<1>4. LedInv
  BY <1>3 DEF Init, LedInv
<1>5. QED
  BY <1>1, <1>2, <1>4 DEF IInv

(* A microsecond *)
LEMMA AdvanceIInv ==
  ASSUME IInv, Advance
  PROVE  IInv'
<1>1. /\ T!Advance
      /\ held' = IF held \in {Unset, WaitUs + Late + 1} THEN held ELSE held + 1
      /\ UNCHANGED <<out, main, lit, start, ticks, power>>
  BY DEF Advance
<1>2. TP!IInv' /\ lock' = lock /\ counter' = (counter + 1) % T!Wrap
  BY <1>1, TickerAdvance DEF IInv
<1>3. SleepInv'
  BY <1>1, <1>2 DEF IInv, SleepInv, SleepLocksBalanced
<1>4. counter \in TP!Ticks /\ start \in TP!Ticks
  BY DEF IInv, LedInv, TP!IInv, TP!TypeInv
<1>5. Elapsed' \in Nat /\ Elapsed' <= Elapsed + 1
  <2>1. Elapsed' = (((counter + 1) % T!Wrap) - start) % T!Wrap
    BY <1>1, <1>2 DEF Elapsed, T!Wrap
  <2>2. QED
    BY <1>4, <2>1, OneMoreElapsed DEF Elapsed
<1>6. LedInv'
  <2>1. CASE held = Unset
    <3>1. held' = Unset
      BY <1>1, <2>1
    <3>2. QED
      BY <1>1, <2>1, <3>1 DEF IInv, LedInv
  <2>2. CASE held # Unset
    <3>1. held \in Nat /\ (main = "led" => held >= WaitUs)
      BY <2>2 DEF IInv, LedInv
    <3>2. WaitUs \in Nat /\ Late \in Nat
      BY WaitFits, StepsAreNats
    <3>3. CASE held = WaitUs + Late + 1
      <4>1. held' = held /\ held >= WaitUs
        BY <1>1, <3>1, <3>2, <3>3
      <4>2. QED
        BY <1>1, <2>2, <4>1 DEF IInv, LedInv
    <3>4. CASE held # WaitUs + Late + 1
      <4>1. held' = held + 1
        BY <1>1, <2>2, <3>4
      <4>2. held + 1 \in Nat /\ (held >= WaitUs => held + 1 >= WaitUs)
        BY <3>1, <3>2
      <4>3. held' # Unset
        BY <3>1, <4>1 DEF Unset
      <4>4. ASSUME main \in Waits PROVE held' >= WaitUs \/ Elapsed' <= held'
        <5>1. held >= WaitUs \/ Elapsed <= held
          BY <2>2, <4>4 DEF IInv, LedInv
        <5>2. CASE held >= WaitUs
          BY <4>1, <4>2, <5>2
        <5>3. CASE Elapsed <= held
          <6>1. Elapsed \in Nat
            BY <1>4, TP!Bounds, TickerSame, TickerFits DEF Elapsed, TP!Ticks
          <6>2. PICK x \in Nat : x = Elapsed' /\ x <= Elapsed + 1
            BY <1>5
          <6>3. x <= held + 1
            BY <3>1, <5>3, <6>1, <6>2
          <6>4. QED
            BY <4>1, <6>2, <6>3
        <5>4. QED
          BY <5>1, <5>2, <5>3
      <4>5. QED
        BY <1>1, <2>2, <3>1, <4>1, <4>2, <4>3, <4>4 DEF IInv, LedInv
    <3>5. QED
      BY <3>3, <3>4
  <2>3. QED
    BY <2>1, <2>2
<1>7. QED
  BY <1>2, <1>3, <1>6 DEF IInv

(* The interrupts and the idle thread leave main's LED alone. *)
LEMMA LedUntouched ==
  ASSUME LedInv, counter' = counter, UNCHANGED <<out, lit, start, held>>,
         main' = main \/ (main = "delayed" /\ main' = "unlock")
  PROVE  LedInv'
<1>1. Elapsed' = Elapsed
  BY DEF Elapsed, T!Wrap
<1>2. QED
  BY <1>1 DEF LedInv, Waits

(* TickerInterrupt, SysTick, IdleSleep and IdleWake *)
LEMMA BackgroundIInv ==
  ASSUME IInv, TickerInterrupt \/ SysTick \/ IdleSleep \/ IdleWake
  PROVE  IInv'
<1>1. CASE TickerInterrupt
  <2>1. /\ TP!IInv' /\ lock' = lock /\ counter' = counter
        /\ UNCHANGED <<out, main, lit, start, ticks, power, held>>
    BY <1>1, TickerInterrupts DEF TickerInterrupt, IInv
  <2>2. LedInv'
    BY <2>1, LedUntouched DEF IInv
  <2>3. SleepInv'
    BY <2>1 DEF IInv, SleepInv, SleepLocksBalanced
  <2>4. QED
    BY <2>1, <2>2, <2>3 DEF IInv
<1>2. CASE SysTick
  <2>1. /\ ticks' = IF ticks = 0 THEN 0 ELSE ticks - 1
        /\ main' = IF ticks = 1 THEN "unlock" ELSE main
        /\ UNCHANGED <<lock, out, lit, start, power, held>> /\ UNCHANGED ticker
        /\ power = "run"
    BY <1>2 DEF SysTick
  <2>2. TP!IInv' /\ counter' = counter
    BY <2>1, TickerQuiet DEF IInv
  <2>3. ticks \in Nat /\ (ticks # 0 => main = "delayed")
    BY DEF IInv, SleepInv
  <2>4. main' = main \/ (main = "delayed" /\ main' = "unlock")
    BY <2>1, <2>3
  <2>5. LedInv'
    BY <2>1, <2>2, <2>4, LedUntouched DEF IInv
  <2>6. ticks' \in Nat /\ (ticks' # 0 => main' = "delayed")
    BY <2>1, <2>3
  <2>7. SleepLocksBalanced'
    BY <2>1, <2>4 DEF IInv, SleepInv, SleepLocksBalanced
  <2>8. SleepInv'
    BY <2>1, <2>6, <2>7 DEF IInv, SleepInv
  <2>9. QED
    BY <2>2, <2>5, <2>8 DEF IInv
<1>3. CASE IdleSleep
  <2>1. /\ main = "delayed" /\ power = "run" /\ lock' = lock + 1
        /\ power' = IF lock' = 0 THEN "deep" ELSE "sleep"
        /\ UNCHANGED <<out, main, lit, start, ticks, held>> /\ UNCHANGED ticker
    BY <1>3 DEF IdleSleep, Blocked, CanDeepSleep
  <2>2. TP!IInv' /\ counter' = counter
    BY <2>1, TickerQuiet DEF IInv
  <2>3. lock = 1 /\ lock' = 2
    BY <2>1 DEF IInv, SleepInv, SleepLocksBalanced
  <2>4. SleepInv'
    BY <2>1, <2>3 DEF IInv, SleepInv, SleepLocksBalanced
  <2>5. LedInv'
    BY <2>1, <2>2, LedUntouched DEF IInv
  <2>6. QED
    BY <2>2, <2>4, <2>5 DEF IInv
<1>4. CASE IdleWake
  <2>1. /\ power = "sleep" /\ power' = "run" /\ lock' = lock - 1
        /\ UNCHANGED <<out, main, lit, start, ticks, held>> /\ UNCHANGED ticker
    BY <1>4 DEF IdleWake, IdleUnlock
  <2>2. TP!IInv' /\ counter' = counter
    BY <2>1, TickerQuiet DEF IInv
  <2>3. SleepInv'
    BY <2>1 DEF IInv, SleepInv, SleepLocksBalanced
  <2>4. LedInv'
    BY <2>1, <2>2, LedUntouched DEF IInv
  <2>5. QED
    BY <2>2, <2>3, <2>4 DEF IInv
<1>5. QED
  BY <1>1, <1>2, <1>3, <1>4

(* A step of main that leaves the lock alone keeps the sleep manager's     *)
(* part: main neither enters nor leaves Thread::wait.                      *)
LEMMA SleepUntouched ==
  ASSUME SleepInv, UNCHANGED <<lock, power, ticks>>, main # "delayed",
         main \in {"delay", "delayed", "unlock"} <=> main' \in {"delay", "delayed", "unlock"}
  PROVE  SleepInv'
BY DEF SleepInv, SleepLocksBalanced

(* Configure and SetLed *)
LEMMA LedStepIInv ==
  ASSUME IInv, Configure \/ SetLed
  PROVE  IInv'
<1>1. CASE Configure
  <2>1. /\ main = "init" /\ main' = "led"
        /\ UNCHANGED <<lock, lit, start, ticks, held, power>> /\ UNCHANGED ticker
    BY <1>1 DEF Configure, Step
  <2>2. TP!IInv' /\ counter' = counter
    BY <2>1, TickerQuiet DEF IInv
  <2>3. SleepInv'
    BY <2>1, SleepUntouched DEF IInv
  <2>4. held = Unset
    BY <2>1 DEF IInv, LedInv
  <2>5. LedInv'
    BY <2>1, <2>4 DEF IInv, LedInv
  <2>6. QED
    BY <2>2, <2>3, <2>5 DEF IInv
<1>2. CASE SetLed
  <2>1. /\ main = "led" /\ main' = "start"
        /\ out' = L!SetEscLedState(out, 1, lit)
        /\ lit' = 1 - lit /\ held' = 0
        /\ UNCHANGED <<lock, start, ticks, power>> /\ UNCHANGED ticker
    BY <1>2 DEF SetLed, Step
  <2>2. TP!IInv' /\ counter' = counter
    BY <2>1, TickerQuiet DEF IInv
  <2>3. SleepInv'
    BY <2>1, SleepUntouched DEF IInv
  <2>4. lit \in {0, 1} /\ start \in TP!Ticks
    BY DEF IInv, LedInv
  <2>5. out' = IF lit = 0 THEN out \ {LedPin} ELSE out \cup {LedPin}
    BY <2>1 DEF L!SetEscLedState, L!EscPin, LedPin
  <2>6. lit' \in {0, 1} /\ (LedPin \in out' <=> lit' = 0)
    BY <2>1, <2>4, <2>5
  <2>7. held' # Unset /\ held' \in Nat
    BY <2>1 DEF Unset
  <2>8. LedInv'
    BY <2>1, <2>4, <2>6, <2>7 DEF LedInv, Waits
  <2>9. QED
    BY <2>2, <2>3, <2>8 DEF IInv
<1>3. QED
  BY <1>1, <1>2

(* The start of wait_us *)
LEMMA WaitStartIInv ==
  ASSUME IInv, WaitStart
  PROVE  IInv'
<1>1. /\ T!ReadUs /\ main = "start"
      /\ main' = IF WaitUs >= TickUs THEN "lock" ELSE "poll"
      /\ start' = (counter - lag') % T!Wrap
      /\ UNCHANGED <<out, lit, ticks, held, power>>
  BY DEF WaitStart, Step, TickerRead
<1>2. TP!IInv' /\ lock' = lock /\ counter' = counter /\ lag' = 0
  BY <1>1, TickerReads DEF IInv
<1>3. SleepInv'
  BY <1>1, <1>2, SleepUntouched DEF IInv
<1>4. counter \in TP!Ticks /\ TP!Ticks = 0 .. T!Wrap - 1 /\ T!Wrap \in Nat \ {0}
  BY TP!Bounds, TickerSame, TickerFits DEF IInv, TP!IInv, TP!TypeInv, TP!Ticks
<1>5. start' = counter
  <2>1. (counter - 0) % T!Wrap = counter
    BY <1>4
  <2>2. QED
    BY <1>1, <1>2, <2>1
<1>6. Elapsed' = 0
  <2>1. (counter - counter) % T!Wrap = 0
    BY <1>4
  <2>2. QED
    BY <1>2, <1>5, <2>1 DEF Elapsed, T!Wrap
<1>7. held # Unset /\ held \in Nat /\ 0 <= held
  BY <1>1 DEF IInv, LedInv
<1>8. main' \in Waits
  BY <1>1 DEF Waits
<1>9. LedInv'
  BY <1>1, <1>4, <1>5, <1>6, <1>7, <1>8 DEF IInv, LedInv, Waits
<1>10. QED
  BY <1>2, <1>3, <1>9 DEF IInv

(* The sleep lock around Thread::wait, and Thread::wait *)
LEMMA WaitIInv ==
  ASSUME IInv, LockSleep \/ OsDelay \/ UnlockSleep
  PROVE  IInv'
<1>1. /\ UNCHANGED <<out, lit, start, held, power>> /\ UNCHANGED ticker
      /\ main \in Waits /\ main' \in Waits /\ main # "delayed"
  BY DEF LockSleep, OsDelay, UnlockSleep, Step, Waits
<1>2. TP!IInv' /\ counter' = counter
  BY <1>1, TickerQuiet DEF IInv
<1>3. LedInv'
  <2>1. Elapsed' = Elapsed
    BY <1>1, <1>2 DEF Elapsed, T!Wrap
  <2>2. QED
    BY <1>1, <2>1 DEF IInv, LedInv, Waits
<1>4. CASE LockSleep
  BY <1>2, <1>3, <1>4 DEF LockSleep, Step, IInv, SleepInv, SleepLocksBalanced
<1>5. CASE OsDelay
  <2>1. ticks' = WaitUs \div TickUs /\ ticks' \in Nat
    BY <1>5, WaitFits, StepsAreNats DEF OsDelay, DelayTicks
  <2>2. QED
    BY <1>2, <1>3, <1>5, <2>1 DEF OsDelay, Step, IInv, SleepInv, SleepLocksBalanced
<1>6. CASE UnlockSleep
  BY <1>2, <1>3, <1>6 DEF UnlockSleep, Step, IInv, SleepInv, SleepLocksBalanced
<1>7. QED
  BY <1>4, <1>5, <1>6

(* The loop of wait_us ends when the ticker says so. *)
LEMMA PollIInv ==
  ASSUME IInv, Poll
  PROVE  IInv'
<1>1. /\ T!ReadUs /\ main = "poll" /\ main' = IF WaitOver THEN "led" ELSE "poll"
      /\ UNCHANGED <<out, lit, start, ticks, held, power>>
  BY DEF Poll, Step
<1>2. TP!IInv' /\ lock' = lock /\ counter' = counter /\ lag' = 0
  BY <1>1, TickerReads DEF IInv
<1>3. SleepInv'
  BY <1>1, <1>2, SleepUntouched DEF IInv
<1>4. /\ counter \in TP!Ticks /\ TP!Ticks = 0 .. T!Wrap - 1 /\ T!Wrap \in Nat \ {0}
      /\ start \in TP!Ticks
  BY TP!Bounds, TickerSame, TickerFits DEF IInv, LedInv, TP!IInv, TP!TypeInv, TP!Ticks
<1>5. TickerRead = counter
  <2>1. (counter - 0) % T!Wrap = counter
    BY <1>4
  <2>2. QED
    BY <1>2, <2>1 DEF TickerRead
<1>6. held # Unset /\ held \in Nat /\ (held >= WaitUs \/ Elapsed <= held)
  BY <1>1 DEF IInv, LedInv, Waits
<1>7. WaitOver => held >= WaitUs
  <2>1. Elapsed \in Nat /\ WaitUs \in Nat
    BY <1>4, WaitFits DEF Elapsed
  <2>2. WaitOver => Elapsed >= WaitUs
    BY <1>5 DEF WaitOver, Elapsed
  <2>3. QED
    BY <1>6, <2>1, <2>2
<1>8. Elapsed' = Elapsed
  BY <1>1, <1>2 DEF Elapsed, T!Wrap
<1>9. LedInv'
  BY <1>1, <1>6, <1>7, <1>8 DEF IInv, LedInv, Waits
<1>10. QED
  BY <1>2, <1>3, <1>9 DEF IInv

(* Every step of the program keeps the invariant. *)
LEMMA NextIInv == IInv /\ [Next]_vars => IInv'
<1> SUFFICES ASSUME IInv, [Next]_vars PROVE IInv'
  OBVIOUS
<1>1. CASE Next
  BY <1>1, AdvanceIInv, BackgroundIInv, LedStepIInv, WaitStartIInv, WaitIInv, PollIInv
  DEF Next, Code, MainStep
<1>2. CASE UNCHANGED vars
  <2>1. /\ UNCHANGED ticker
        /\ UNCHANGED <<lock, out, main, lit, start, ticks, power, held>>
    BY <1>2 DEF vars
  <2>2. TP!IInv' /\ counter' = counter
    BY <2>1, TickerQuiet DEF IInv
  <2>3. LedInv'
    BY <2>1, <2>2, LedUntouched DEF IInv
  <2>4. SleepInv'
    BY <2>1 DEF IInv, SleepInv, SleepLocksBalanced
  <2>5. QED
    BY <2>2, <2>3, <2>4 DEF IInv
<1>3. QED
  BY <1>1, <1>2

-----------------------------------------------------------------------------
(* The upper bound: how long main's steps, its delay and the interrupts    *)
(* can take together.                                                      *)

(* The longest a phase may last *)
Bound == WaitUs + Late

(* Without events the ticker's critical sections are those of the LPIT     *)
(* interrupt that keeps the time, a task each; and the interrupt comes     *)
(* again after max_delta, less the time that setting it up took.           *)
QuietInv ==
  /\ queue = <<>>
  /\ pend => left = T!Off
  /\ todo # <<>> =>
       /\ todo = <<T!Task>> /\ ~pend /\ left = T!Off
       /\ T!Task.op \in {"irq", "schedule", "set", "start"}
       /\ T!Task.op \in {"set", "start"} => ~T!Task.recheck
       /\ T!Task.op = "start" => T!Task.delta + masked + 1 >= T!MaxDelta

(* The time that the LPIT interrupt may still take, or will have taken if  *)
(* it comes before the bound is reached *)
LpitPending == todo # <<>> \/ pend
Serving ==
  IF todo # <<>> THEN MaxMasked - masked
  ELSE IF pend THEN 2 * MaxMasked - masked
  ELSE IF left + held <= Bound THEN 2 * MaxMasked ELSE 0

(* SysTick waits for nothing but the LPIT interrupt, so that no tick is    *)
(* still pending when the next one comes.                                  *)
TickInv ==
  /\ systick \in 1 .. TickUs /\ tick \in BOOLEAN /\ spent \in 0 .. MaxStep
  /\ tick => TickUs - systick <= 2 * MaxMasked
  /\ tick /\ LpitPending => TickUs - systick + Serving <= 2 * MaxMasked
  /\ main = "delayed" => ticks # 0
  /\ main \in {"lock", "delay"} => WaitUs >= TickUs

(* What remains of the delay of main, and of the steps up to the next      *)
(* switch of the LED if the first poll ends the loop of wait_us *)
Rest(t, s, pending) == s + TickUs * (t - 1) - (IF pending THEN TickUs ELSE 0)
DelayLeft ==
  IF main \in {"start", "lock", "delay"} THEN TickUs * DelayTicks
  ELSE IF main = "delayed" /\ Rest(ticks, systick, tick) > 0
    THEN Rest(ticks, systick, tick)
  ELSE 0
StepsLeft ==
  IF main = "start" THEN 6 * MaxStep ELSE IF main = "lock" THEN 5 * MaxStep
  ELSE IF main = "delay" THEN 4 * MaxStep
  ELSE IF main \in {"delayed", "unlock"} THEN 3 * MaxStep
  ELSE IF main = "poll" THEN 2 * MaxStep ELSE MaxStep

(* The phase ends in time if the delay takes longer than the wait, and if  *)
(* the loop of wait_us polls for its end.                                  *)
DelayInTime == held + StepsLeft - spent + DelayLeft + Serving <= Bound
PollInTime ==
  /\ main = "start" => held + 3 * MaxStep - spent + WaitUs - 1 + Serving <= Bound
  /\ main \in Waits =>
       /\ Elapsed <= held
       /\ held - Elapsed + WaitUs - 1 + 2 * MaxStep + Serving <= Bound
PhaseInv == held # Unset => DelayInTime /\ PollInTime

BoundIInv == IInv /\ QuietInv /\ TickInv /\ PhaseInv

(* The constants *)
LEMMA Times ==
  /\ WaitUs \in Nat /\ Late \in Nat /\ MaxStep \in Nat /\ MaxMasked \in Nat
  /\ TickUs \in Nat \ {0} /\ DelayTicks \in Nat /\ TickUs * DelayTicks \in Nat
  /\ WaitUs >= TickUs => DelayTicks # 0
  /\ Bound \in Nat /\ T!MaxDelta \in Nat /\ T!Wrap \in Nat
  /\ Bound + MaxMasked + 1 < T!MaxDelta /\ T!MaxDelta < T!Wrap
  /\ 6 * MaxStep + TickUs * DelayTicks + 2 * MaxMasked <= Bound
  /\ 3 * MaxStep + WaitUs - 1 + 2 * MaxMasked <= Bound
  /\ 2 * MaxMasked < TickUs
<1>1. /\ WaitUs \in Nat /\ Late \in Nat /\ MaxStep \in Nat /\ MaxMasked \in Nat
      /\ TickUs \in Nat \ {0}
  BY WaitFits, StepsAreNats, TickerFits
<1>2. DelayTicks \in Nat /\ (WaitUs >= TickUs => DelayTicks # 0)
  BY <1>1 DEF DelayTicks
<1>3. TickUs * DelayTicks \in Nat
  BY <1>1, <1>2
<1>4. /\ T!MaxDelta \in Nat /\ T!Wrap \in Nat /\ T!MaxDelta < T!Wrap
  BY TP!Bounds, TickerSame, TickerFits
<1>5. Bound \in Nat /\ Bound + MaxMasked + 1 < T!MaxDelta
  BY <1>1, WaitFits DEF Bound, T!MaxDelta
<1>6. 6 * MaxStep + TickUs * DelayTicks + 2 * MaxMasked <= Bound
  BY LateEnough DEF DelayTicks, Bound
<1>7. 3 * MaxStep + WaitUs - 1 + 2 * MaxMasked <= Bound
  BY <1>1, LateEnough DEF Bound
<1>8. 2 * MaxMasked < TickUs
  BY TicksKept
<1>9. QED
  BY <1>1, <1>2, <1>3, <1>4, <1>5, <1>6, <1>7, <1>8

(* The types that the bound needs *)
LEMMA TickerTyped ==
  ASSUME TP!IInv
  PROVE  /\ left \in (Nat \ {0}) \cup {T!Off} /\ pend \in BOOLEAN /\ T!Off = -1
         /\ masked \in 0 .. MaxMasked /\ masked \in Nat
         /\ todo = <<>> /\ ~pend => left # T!Off
<1>1. /\ left \in (Nat \ {0}) \cup {TP!Off} /\ pend \in BOOLEAN /\ masked \in 0 .. MaxMasked
  BY DEF TP!IInv, TP!TypeInv
<1>2. todo = <<>> /\ ~pend => left # TP!Off
  BY DEF TP!IInv, TP!BoundInv, TP!Waiting, TP!Counting
<1>3. QED
  BY <1>1, <1>2, TickerFits DEF T!Off, TP!Off

(* A section of one task that gives way to another, or to none *)
LEMMA OneTask ==
  ASSUME NEW t, todo = <<t>>, NEW u
  PROVE  /\ T!Then(<<u>>) => todo' = <<u>> /\ masked' = masked
         /\ T!Then(<<>>) => todo' = <<>> /\ masked' = 0
<1> DEFINE S == {t, u}
           p == <<t>>
           q == <<u>>
<1>1. p \in Seq(S) /\ q \in Seq(S) /\ Tail(p) = <<>> /\ q # <<>>
  OBVIOUS
<1> HIDE DEF p, q, S
<1>2. q \o <<>> = q /\ <<>> \o <<>> = <<>>
  BY <1>1, ConcatEmptySeq
<1>3. QED
  BY <1>1, <1>2 DEF T!Then, p, q

(* The LPIT interrupt and the sections of its handler *)
LEMMA InterruptQuiet ==
  ASSUME TP!IInv, QuietInv, T!IsrEntry \/ T!Section
  PROVE  /\ QuietInv'
         /\ todo' # <<>> => \/ todo # <<>> /\ masked' = masked
                            \/ todo = <<>> /\ pend /\ masked' = 0
         /\ todo' = <<>> => ~pend' /\ left' + MaxMasked + 1 >= T!MaxDelta
<1>1. CASE T!IsrEntry
  <2>1. /\ todo = <<>> /\ pend /\ pend' = FALSE /\ left' = T!Off /\ masked' = 0
        /\ todo' = <<[op |-> "irq"]>> /\ queue' = queue
    BY <1>1 DEF T!IsrEntry, T!lists
  <2>2. T!Task' = [op |-> "irq"] /\ todo' # <<>>
    BY <2>1 DEF T!Task
  <2>3. QED
    BY <2>1, <2>2 DEF QuietInv
<1>2. CASE T!Section
  <2>1. todo # <<>>
    BY <1>2 DEF T!Section, T!ScheduleInterrupt, T!SetInterrupt, T!StartCountdown, T!Recheck,
       T!RemoveEvent, T!Setup, T!Release, T!CallbackReturns, T!HandlePending, T!HandleTicker,
       T!HandleTimeout, T!Doing
  <2> DEFINE t == T!Task
  <2>2. /\ queue = <<>> /\ todo = <<t>> /\ ~pend /\ left = T!Off
        /\ t.op \in {"irq", "schedule", "set", "start"}
        /\ t.op \in {"set", "start"} => ~t.recheck
        /\ t.op = "start" => t.delta + masked + 1 >= T!MaxDelta
    BY <2>1 DEF QuietInv
  <2>3. masked \in 0 .. MaxMasked /\ masked \in Nat /\ MaxMasked \in Nat /\ T!MaxDelta \in Nat
    BY TickerTyped, Times
  <2>4. CASE T!HandlePending
    <3>1. T!Then(T!Schedule) /\ UNCHANGED <<queue, left, pend>>
      BY <2>2, <2>4 DEF T!HandlePending, T!hw
    <3>2. todo' = <<[op |-> "schedule"]>> /\ masked' = masked
      BY <2>2, <3>1, OneTask DEF T!Schedule
    <3>3. T!Task' = [op |-> "schedule"] /\ todo' # <<>>
      BY <3>2 DEF T!Task
    <3>4. QED
      BY <2>1, <2>2, <3>1, <3>2, <3>3 DEF QuietInv
  <2>5. CASE T!ScheduleInterrupt
    <3> DEFINE u == [op |-> "set", tick |-> (last' + T!MaxDelta) % T!Wrap, recheck |-> FALSE]
    <3>1. T!Then(<<u>>) /\ UNCHANGED <<queue, left, pend>>
      BY <2>2, <2>5 DEF T!ScheduleInterrupt, T!lists
    <3>2. u.op = "set" /\ ~u.recheck
      OBVIOUS
    <3> HIDE DEF u
    <3>3. todo' = <<u>> /\ masked' = masked
      BY <2>2, <3>1, OneTask
    <3>4. T!Task' = u /\ todo' # <<>>
      BY <3>3 DEF T!Task
    <3>5. QED
      BY <2>1, <2>2, <3>1, <3>2, <3>3, <3>4 DEF QuietInv
  <2>6. CASE T!SetInterrupt
    <3> DEFINE u == [op |-> "start", delta |-> T!DeltaTicks(t.tick), tick |-> t.tick,
                     recheck |-> t.recheck]
    <3>1. T!Then(<<u>>) /\ UNCHANGED <<queue, left, pend>> /\ t.op = "set"
      BY <2>6 DEF T!SetInterrupt, T!lists, T!hw, T!Doing
    <3>2. u.op = "start" /\ u.recheck = t.recheck /\ u.delta = T!DeltaTicks(t.tick)
      OBVIOUS
    <3>3. TP!Task = t /\ TP!Doing("set")
      BY <2>1, <3>1 DEF T!Task, TP!Task, TP!Doing
    <3>4. t.tick \in TP!Ticks /\ ~t.recheck
      BY <2>1, <2>2, <3>1, <3>3, TP!TaskTyped, TickerFits DEF TP!IInv
    <3>5. lag <= masked /\ TP!Ahead(t.tick) = T!MaxDelta /\ lag \in Nat
      BY <3>3, <3>4, TickerSame DEF TP!IInv, TP!BoundInv, TP!Setting, TP!Fresh, TP!TypeInv
    <3>6. TP!Ahead(t.tick) > lag
      <4>1. MaxMasked < T!MaxDelta
        BY TP!Bounds, TickerSame, TickerFits
      <4>2. QED
        BY <2>3, <3>5, <4>1
    <3>7. TP!DeltaTicks(t.tick) + 1 >= TP!Ahead(t.tick) - lag
      BY <3>4, <3>6, TP!DeltaTicksLeast, TickerFits DEF TP!IInv, TP!BoundInv
    <3>8. T!DeltaTicks(t.tick) = TP!DeltaTicks(t.tick) /\ TP!DeltaTicks(t.tick) \in Nat
      BY <3>4, TP!DeltaTicksFacts, TickerSame, TickerFits DEF T!DeltaTicks, TP!DeltaTicks,
         TP!IInv, TP!BoundInv
    <3>9. u.delta + masked + 1 >= T!MaxDelta
      BY <2>3, <3>2, <3>5, <3>7, <3>8
    <3> HIDE DEF u
    <3>10. todo' = <<u>> /\ masked' = masked
      BY <2>2, <3>1, OneTask
    <3>11. T!Task' = u /\ todo' # <<>>
      BY <3>10 DEF T!Task
    <3>12. T!MaxDelta' = T!MaxDelta
      BY DEF T!MaxDelta
    <3>13. QED
      BY <2>1, <2>2, <3>1, <3>2, <3>4, <3>9, <3>10, <3>11, <3>12 DEF QuietInv
  <2>7. CASE T!StartCountdown
    <3>1. T!Then(<<>>) /\ UNCHANGED <<queue, pend>> /\ t.op = "start" /\ left' = t.delta
      BY <2>2, <2>7 DEF T!StartCountdown, T!lists, T!Doing
    <3>2. todo' = <<>>
      BY <2>2, <3>1, OneTask
    <3>3. t.delta \in Nat
      <4>1. TP!Task = t
        BY DEF T!Task, TP!Task
      <4>2. QED
        BY <2>1, <3>1, <4>1, TP!TaskTyped, TickerFits DEF TP!IInv
    <3>4. left' + MaxMasked + 1 >= T!MaxDelta
      BY <2>2, <2>3, <3>1, <3>3
    <3>5. QED
      BY <2>2, <3>1, <3>2, <3>4 DEF QuietInv
  <2>8. CASE \/ T!Recheck \/ T!RemoveEvent \/ T!Setup \/ T!Release \/ T!CallbackReturns
             \/ T!HandleTicker \/ T!HandleTimeout
    <3>1. t.op \in {"recheck", "remove", "setup", "release", "call", "handle"}
      BY <2>8 DEF T!Recheck, T!RemoveEvent, T!Setup, T!Release, T!CallbackReturns,
         T!HandleTicker, T!HandleTimeout, T!Doing
    <3>2. QED
      BY <2>2, <3>1
  <2>9. QED
    BY <1>2, <2>4, <2>5, <2>6, <2>7, <2>8 DEF T!Section
<1>3. QED
  BY <1>1, <1>2

(* How long the interrupt may take does not grow while it takes its time,  *)
LEMMA AdvanceServing ==
  ASSUME TP!IInv, QuietInv, T!Advance
  PROVE  /\ QuietInv'
         /\ LpitPending => LpitPending' /\ Serving' = Serving - 1
         /\ ~LpitPending /\ held \in Nat /\ held + 1 <= Bound /\ held' = held + 1
              => Serving' <= Serving
<1>1. /\ LpitPending => masked < MaxMasked
      /\ left' = (IF left \in {T!Off, 1} THEN T!Off ELSE left - 1)
      /\ pend' = (pend \/ left = 1)
      /\ masked' = (IF LpitPending THEN masked + 1 ELSE 0)
      /\ UNCHANGED <<queue, todo>>
  BY DEF T!Advance, LpitPending
<1>2. /\ left \in (Nat \ {0}) \cup {T!Off} /\ pend \in BOOLEAN /\ T!Off = -1
      /\ masked \in Nat /\ masked <= MaxMasked /\ MaxMasked \in Nat /\ Bound \in Nat
      /\ todo = <<>> /\ ~pend => left # T!Off
  BY TickerTyped, Times
<1>3. T!Task' = T!Task /\ T!Off' = T!Off /\ T!MaxDelta' = T!MaxDelta
      /\ T!MaxDelta \in Nat /\ Bound' = Bound
  BY <1>1, Times DEF T!Task, T!Off, T!MaxDelta, Bound
<1>4. T!Task.op = "start" /\ todo # <<>> => T!Task.delta \in Nat
  <2>1. TP!Task = T!Task
    BY DEF T!Task, TP!Task
  <2>2. QED
    BY <2>1, TP!TaskTyped, TickerFits DEF TP!IInv
<1>5. QuietInv'
  <2>1. queue' = <<>> /\ (pend' => left' = T!Off')
    BY <1>1, <1>2, <1>3 DEF QuietInv
  <2>2. ASSUME todo' # <<>>
        PROVE  /\ todo' = <<T!Task'>> /\ ~pend' /\ left' = T!Off'
               /\ T!Task'.op \in {"irq", "schedule", "set", "start"}
               /\ T!Task'.op \in {"set", "start"} => ~T!Task'.recheck
    BY <1>1, <1>2, <1>3, <2>2 DEF QuietInv
  <2>3. ASSUME todo' # <<>>, T!Task'.op = "start"
        PROVE  T!Task'.delta + masked' + 1 >= T!MaxDelta'
    <3>1. masked' = masked + 1 /\ T!Task.op = "start"
      BY <1>1, <1>3, <2>3 DEF LpitPending
    <3>2. T!Task.delta \in Nat /\ T!Task.delta + masked + 1 >= T!MaxDelta
      BY <1>1, <1>4, <2>3, <3>1 DEF QuietInv
    <3>3. QED
      BY <1>2, <1>3, <3>1, <3>2
  <2>4. QED
    BY <2>1, <2>2, <2>3 DEF QuietInv
<1>6. ASSUME LpitPending PROVE LpitPending' /\ Serving' = Serving - 1
  <2>1. masked' = masked + 1 /\ todo' = todo
    BY <1>1, <1>6
  <2>2. CASE todo # <<>>
    BY <1>2, <2>1, <2>2 DEF LpitPending, Serving
  <2>3. CASE todo = <<>>
    <3>1. pend /\ pend'
      BY <1>1, <1>6, <2>3 DEF LpitPending
    <3>2. QED
      BY <1>2, <2>1, <2>3, <3>1 DEF LpitPending, Serving
  <2>4. QED
    BY <2>2, <2>3
<1>7. ASSUME ~LpitPending, held \in Nat, held + 1 <= Bound, held' = held + 1
      PROVE  Serving' <= Serving
  <2>1. todo = <<>> /\ ~pend /\ masked' = 0 /\ todo' = <<>> /\ left \in Nat \ {0}
    BY <1>1, <1>2, <1>7 DEF LpitPending
  <2>2. Serving = IF left + held <= Bound THEN 2 * MaxMasked ELSE 0
    BY <2>1 DEF Serving
  <2>3. CASE left = 1
    BY <1>1, <1>2, <1>7, <2>1, <2>2, <2>3 DEF Serving
  <2>4. CASE left # 1
    <3>1. left' = left - 1 /\ ~pend' /\ left' + held' = left + held
      BY <1>1, <1>2, <1>7, <2>1, <2>4
    <3>2. Serving' = IF left' + held' <= Bound THEN 2 * MaxMasked ELSE 0
      BY <1>3, <2>1, <3>1 DEF Serving
    <3>3. QED
      BY <1>2, <2>2, <3>1, <3>2
  <2>5. QED
    BY <2>3, <2>4
<1>8. QED
  BY <1>5, <1>6, <1>7

(* nor from its entry to the end of its handler. *)
LEMMA InterruptServing ==
  ASSUME TP!IInv, QuietInv, T!IsrEntry \/ T!Section, held' = held
  PROVE  /\ QuietInv' /\ LpitPending
         /\ LpitPending' => Serving' <= Serving
         /\ held \in Nat => Serving' <= Serving
<1>1. /\ QuietInv'
      /\ todo' # <<>> => \/ todo # <<>> /\ masked' = masked
                         \/ todo = <<>> /\ pend /\ masked' = 0
      /\ todo' = <<>> => ~pend' /\ left' + MaxMasked + 1 >= T!MaxDelta
  BY InterruptQuiet
<1>2. /\ masked \in Nat /\ masked <= MaxMasked /\ MaxMasked \in Nat /\ Bound \in Nat
      /\ T!MaxDelta \in Nat /\ Bound + MaxMasked + 1 < T!MaxDelta /\ Bound' = Bound
  BY TickerTyped, Times DEF Bound
<1>3. LpitPending
  BY DEF LpitPending, T!IsrEntry, T!Section, T!ScheduleInterrupt, T!SetInterrupt,
     T!StartCountdown, T!Recheck, T!RemoveEvent, T!Setup, T!Release, T!CallbackReturns,
     T!HandlePending, T!HandleTicker, T!HandleTimeout, T!Doing
<1>4. left' \in Int
  BY TickerInterrupts, TickerFits DEF TP!IInv, TP!TypeInv, TP!Off
<1>5. CASE todo' # <<>>
  BY <1>1, <1>2, <1>3, <1>5 DEF Serving
<1>6. CASE todo' = <<>>
  <2>1. ~pend' /\ ~LpitPending'
    BY <1>1, <1>6 DEF LpitPending
  <2>2. ASSUME held \in Nat PROVE Serving' <= Serving
    <3>1. PICK x \in Int : x = left'
      BY <1>4
    <3>2. x + MaxMasked + 1 >= T!MaxDelta
      BY <1>1, <1>6, <3>1
    <3>3. x + held > Bound
      BY <1>2, <2>2, <3>2
    <3>4. Serving' = IF left' + held' <= Bound THEN 2 * MaxMasked ELSE 0
      BY <1>2, <1>6, <2>1 DEF Serving
    <3>5. ~(left' + held' <= Bound)
      <4>1. left' + held' = x + held
        BY <3>1
      <4>2. Bound \in Int /\ x + held \in Int
        BY <1>2, <2>2, <3>1
      <4>3. ~(x + held <= Bound)
        BY <3>3, <4>2
      <4>4. QED
        BY <4>1, <4>3
    <3>6. Serving' = 0
      BY <3>4, <3>5
    <3>7. Serving \in Nat
      BY <1>2, <1>3 DEF Serving, LpitPending
    <3>8. QED
      BY <1>2, <3>6, <3>7
  <2>3. QED
    BY <1>1, <1>3, <2>1, <2>2
<1>7. QED
  BY <1>1, <1>3, <1>5, <1>6

(* A step that leaves the interrupt alone *)
LEMMA SameServing ==
  ASSUME QuietInv, UNCHANGED <<queue, left, pend, todo, masked>>
  PROVE  /\ QuietInv' /\ LpitPending' = LpitPending
         /\ held' = held => Serving' = Serving
<1>1. QuietInv'
  BY DEF QuietInv, T!Task, T!Off, T!MaxDelta
<1>2. LpitPending' = LpitPending /\ (held' = held => Serving' = Serving)
  BY DEF LpitPending, Serving, Bound
<1>3. QED
  BY <1>1, <1>2

(* The types of the terms of the bound *)
LEMMA BoundTyped ==
  ASSUME BoundIInv
  PROVE  /\ Serving \in Nat /\ Serving <= 2 * MaxMasked
         /\ DelayLeft \in Nat /\ StepsLeft \in Nat /\ StepsLeft >= MaxStep
         /\ systick \in Nat /\ 1 <= systick /\ systick <= TickUs
         /\ tick \in BOOLEAN /\ spent \in Nat /\ spent <= MaxStep
         /\ ticks \in Nat /\ TickUs * (ticks - 1) \in Int /\ Elapsed \in Nat
         /\ held = Unset \/ held \in Nat
<1>1. /\ systick \in Nat /\ 1 <= systick /\ systick <= TickUs
      /\ tick \in BOOLEAN /\ spent \in Nat /\ spent <= MaxStep
  BY Times DEF BoundIInv, TickInv
<1>2. ticks \in Nat /\ (held = Unset \/ held \in Nat)
  BY DEF BoundIInv, IInv, SleepInv, LedInv
<1>3. TickUs * (ticks - 1) \in Int
  BY <1>2, Times
<1>4. Rest(ticks, systick, tick) \in Int
  BY <1>1, <1>3, Times DEF Rest
<1>5. DelayLeft \in Nat
  BY <1>4, Times DEF DelayLeft
<1>6. StepsLeft \in Nat /\ StepsLeft >= MaxStep
  BY Times DEF StepsLeft
<1>7. Serving \in Nat /\ Serving <= 2 * MaxMasked
  BY TickerTyped, Times DEF BoundIInv, IInv, Serving
<1>8. Elapsed \in Nat
  BY TP!Bounds, TickerSame, TickerFits DEF BoundIInv, IInv, LedInv, TP!IInv, TP!TypeInv,
     TP!Ticks, Elapsed
<1>9. QED
  BY <1>1, <1>2, <1>3, <1>5, <1>6, <1>7, <1>8

(* The types of the terms after a step *)
LEMMA ServingNext ==
  ASSUME TP!IInv'
  PROVE  Serving' \in Nat /\ Serving' <= 2 * MaxMasked
<1>1. MaxMasked \in Nat
  BY Times
<1>2. PICK m \in Nat : m = masked' /\ m <= MaxMasked
  BY <1>1 DEF TP!IInv, TP!TypeInv
<1>3. \/ Serving' = MaxMasked - m \/ Serving' = 2 * MaxMasked - m
      \/ Serving' = 2 * MaxMasked \/ Serving' = 0
  BY <1>2 DEF Serving
<1>4. m <= MaxMasked
  BY <1>2
<1>5. /\ MaxMasked - m \in Nat /\ MaxMasked - m <= 2 * MaxMasked
      /\ 2 * MaxMasked - m \in Nat /\ 2 * MaxMasked - m <= 2 * MaxMasked
      /\ 2 * MaxMasked \in Nat /\ 0 <= 2 * MaxMasked /\ 0 \in Nat
      /\ 2 * MaxMasked <= 2 * MaxMasked
  BY <1>1, <1>4
<1>6. QED
  BY <1>3, <1>5

(* The initial state *)
LEMMA InitBoundIInv == Init => BoundIInv
<1> SUFFICES ASSUME Init PROVE BoundIInv
  OBVIOUS
<1>1. QuietInv
  <2>1. /\ queue = <<>> /\ left = T!Off /\ pend = FALSE
        /\ todo = <<[op |-> "schedule"]>>
    BY DEF Init, T!Init
  <2>2. T!Task = [op |-> "schedule"]
    BY <2>1 DEF T!Task
  <2>3. QED
    BY <2>1, <2>2 DEF QuietInv
<1>2. TickInv
  <2>1. TickUs \in 1 .. TickUs /\ 0 \in 0 .. MaxStep
    BY Times
  <2>2. QED
    BY <2>1 DEF Init, TickInv
<1>3. QED
  BY <1>1, <1>2, InitIInv DEF Init, BoundIInv, PhaseInv

(* What remains of the delay does not grow with a microsecond, and shrinks *)
(* by one if main is delayed and no tick is pending.                       *)
LEMMA AdvanceDelay ==
  ASSUME BoundIInv, UNCHANGED <<main, ticks>>, tick => systick # 1,
         systick' = IF systick = 1 THEN TickUs ELSE systick - 1,
         tick' = (tick \/ systick = 1)
  PROVE  /\ DelayLeft' <= DelayLeft /\ DelayLeft' \in Nat
         /\ main = "delayed" /\ ~tick => DelayLeft >= 1 /\ DelayLeft' = DelayLeft - 1
<1> DEFINE d == TickUs * (ticks - 1)
<1>1. /\ systick \in Nat /\ 1 <= systick /\ tick \in BOOLEAN /\ TickUs \in Nat
      /\ d \in Int /\ DelayLeft \in Nat /\ TickUs * DelayTicks \in Nat
  BY BoundTyped, Times
<1>2. CASE main = "delayed"
  <2>1. ~tick => d >= 0
    <3>1. ticks \in Nat /\ ticks - 1 >= 0
      BY <1>2, BoundTyped DEF BoundIInv, TickInv
    <3>2. QED
      BY <1>1, <3>1
  <2> DEFINE u == IF tick THEN TickUs ELSE 0
             v == IF tick' THEN TickUs ELSE 0
             s == systick'
             r == systick + d - u
  <2>2. Rest(ticks, systick, tick) = r /\ Rest(ticks', systick', tick') = s + d - v
    BY DEF Rest
  <2>3. systick = 1 => u = 0 /\ v = TickUs /\ s = TickUs
    OBVIOUS
  <2>4. systick # 1 => v = u /\ s = systick - 1
    BY <1>1
  <2>5. u \in Nat /\ (~tick => u = 0)
    BY <1>1
  <2> HIDE DEF d, u, v, s
  <2>6. r \in Int /\ (~tick => r >= 1)
    <3>1. r \in Int
      BY <1>1, <2>5
    <3>2. d >= 0 /\ u = 0 => r >= 1
      BY <1>1
    <3>3. QED
      BY <2>1, <2>5, <3>1, <3>2
  <2>7. s + d - v = r - 1
    BY <1>1, <2>3, <2>4, <2>5
  <2> HIDE DEF r
  <2>8. DelayLeft = IF r > 0 THEN r ELSE 0
    BY <1>2, <2>2 DEF DelayLeft
  <2>9. DelayLeft' = IF r - 1 > 0 THEN r - 1 ELSE 0
    BY <1>2, <2>2, <2>7 DEF DelayLeft
  <2>10. \A x, y : x = (IF r > 0 THEN r ELSE 0) /\ y = (IF r - 1 > 0 THEN r - 1 ELSE 0)
           => y <= x /\ y \in Nat /\ (r >= 1 => x >= 1 /\ y = x - 1)
    BY <2>6
  <2>11. QED
    BY <2>6, <2>8, <2>9, <2>10
<1>3. CASE main # "delayed"
  <2>1. DelayTicks' = DelayTicks
    BY DEF DelayTicks
  <2>2. DelayLeft' = DelayLeft
    BY <1>3, <2>1 DEF DelayLeft
  <2>3. QED
    BY <1>1, <1>3, <2>2
<1>4. QED
  BY <1>2, <1>3

(* A microsecond *)
LEMMA AdvanceBoundIInv ==
  ASSUME BoundIInv, Advance
  PROVE  BoundIInv' /\ (held # Unset => held < Bound)
<1>1. /\ tick /\ todo = <<>> => pend /\ power = "run"
      /\ ~Blocked /\ ~Interrupted => spent < MaxStep
      /\ T!Advance
      /\ systick' = IF systick = 1 THEN TickUs ELSE systick - 1
      /\ tick' = (tick \/ systick = 1)
      /\ spent' = IF Blocked \/ Interrupted THEN spent ELSE spent + 1
      /\ held' = IF held \in {Unset, WaitUs + Late + 1} THEN held ELSE held + 1
      /\ UNCHANGED <<main, start, ticks>>
  BY DEF Advance
<1>2. /\ Serving \in Nat /\ Serving <= 2 * MaxMasked
      /\ DelayLeft \in Nat /\ StepsLeft \in Nat /\ StepsLeft >= MaxStep
      /\ systick \in Nat /\ 1 <= systick /\ systick <= TickUs
      /\ spent \in Nat /\ spent <= MaxStep /\ Elapsed \in Nat
      /\ held = Unset \/ held \in Nat
  BY BoundTyped
<1>3. /\ WaitUs \in Nat /\ MaxStep \in Nat /\ MaxMasked \in Nat /\ TickUs \in Nat \ {0}
      /\ 2 * MaxMasked < TickUs /\ Bound \in Nat
  BY Times
<1>4. IInv' /\ TP!IInv /\ QuietInv
  BY AdvanceIInv DEF Advance, BoundIInv, IInv
<1>5. /\ QuietInv'
      /\ LpitPending => LpitPending' /\ Serving' = Serving - 1
      /\ ~LpitPending /\ held \in Nat /\ held + 1 <= Bound /\ held' = held + 1
           => Serving' <= Serving
  BY <1>1, <1>4, AdvanceServing
<1>6. Serving' \in Nat /\ Serving' <= 2 * MaxMasked
  BY <1>4, ServingNext DEF IInv
<1>7. Interrupted <=> tick \/ LpitPending
  BY DEF Interrupted, LpitPending
<1>8. tick => LpitPending /\ systick # 1
  <2>1. ASSUME tick PROVE LpitPending
    BY <1>1, <2>1 DEF LpitPending
  <2>2. ASSUME tick, systick = 1 PROVE FALSE
    <3>1. TickUs - 1 + Serving <= 2 * MaxMasked /\ Serving' = Serving - 1
      BY <1>5, <2>1, <2>2 DEF BoundIInv, TickInv
    <3>2. QED
      BY <1>2, <1>3, <1>6, <3>1
  <2>3. QED
    BY <2>1, <2>2
<1>9. /\ DelayLeft' <= DelayLeft /\ DelayLeft' \in Nat
      /\ main = "delayed" /\ ~tick => DelayLeft >= 1 /\ DelayLeft' = DelayLeft - 1
  BY <1>1, <1>8, AdvanceDelay
<1>10. TickInv'
  <2>1. systick' \in 1 .. TickUs /\ tick' \in BOOLEAN /\ spent' \in 0 .. MaxStep
    <3>1. systick' \in 1 .. TickUs
      BY <1>1, <1>2, <1>3
    <3>2. spent' \in 0 .. MaxStep
      BY <1>1, <1>2, <1>3
    <3>3. QED
      BY <1>1, <3>1, <3>2
  <2>2. ASSUME tick'
        PROVE  /\ TickUs - systick' <= 2 * MaxMasked
               /\ LpitPending' => TickUs - systick' + Serving' <= 2 * MaxMasked
    <3>1. CASE systick = 1
      <4>1. systick' = TickUs /\ TickUs - TickUs = 0
        BY <1>1, <1>3, <3>1
      <4>2. PICK v \in Nat : v = Serving' /\ v <= 2 * MaxMasked
        BY <1>6
      <4>3. v <= 2 * MaxMasked
        BY <4>2
      <4>4. 0 <= 2 * MaxMasked /\ 0 + v <= 2 * MaxMasked
        BY <1>3, <4>3
      <4>5. QED
        BY <4>1, <4>2, <4>4
    <3>2. CASE systick # 1
      <4>1. tick /\ LpitPending /\ systick' = systick - 1 /\ Serving' = Serving - 1
        BY <1>1, <1>5, <1>8, <2>2, <3>2
      <4>2. TickUs - systick + Serving <= 2 * MaxMasked
        BY <4>1 DEF BoundIInv, TickInv
      <4>3. QED
        BY <1>2, <1>3, <1>6, <4>1, <4>2
    <3>3. QED
      BY <3>1, <3>2
  <2>3. /\ main' = "delayed" => ticks' # 0
        /\ main' \in {"lock", "delay"} => WaitUs >= TickUs
    BY <1>1 DEF BoundIInv, TickInv
  <2>4. QED
    BY <2>1, <2>2, <2>3 DEF TickInv
<1>11. CASE held = Unset
  BY <1>1, <1>4, <1>5, <1>10, <1>11 DEF BoundIInv, PhaseInv
<1>12. CASE held # Unset
  <2>1. held \in Nat /\ DelayInTime /\ PollInTime
    BY <1>2, <1>12 DEF BoundIInv, PhaseInv
  <2>2. held + StepsLeft - spent + DelayLeft + Serving <= Bound
    BY <2>1 DEF DelayInTime
  <2>3. held < Bound
    <3>1. CASE LpitPending
      <4>1. Serving >= 1
        BY <1>2, <1>5, <1>6, <3>1
      <4>2. QED
        BY <1>2, <1>3, <2>1, <2>2, <4>1
    <3>2. CASE ~LpitPending /\ Blocked
      <4>1. DelayLeft >= 1
        BY <1>8, <1>9, <3>2 DEF Blocked
      <4>2. QED
        BY <1>2, <1>3, <2>1, <2>2, <4>1
    <3>3. CASE ~LpitPending /\ ~Blocked
      <4>1. spent < MaxStep
        BY <1>1, <1>7, <1>8, <3>3
      <4>2. QED
        BY <1>2, <1>3, <2>1, <2>2, <4>1
    <3>4. QED
      BY <3>1, <3>2, <3>3
  <2>4. held' = held + 1
    <3>1. held # WaitUs + Late + 1
      BY <1>3, <2>1, <2>3, StepsAreNats DEF Bound
    <3>2. QED
      BY <1>1, <1>12, <3>1
  <2>5. Serving' <= Serving
    BY <1>2, <1>3, <1>5, <2>1, <2>3, <2>4
  <2>6. StepsLeft' = StepsLeft /\ Bound' = Bound
    BY <1>1 DEF StepsLeft, Bound
  <2>7. PICK v \in Nat : v = Serving' /\ v <= Serving /\ (LpitPending => v = Serving - 1)
    BY <1>5, <1>6, <2>5
  <2>8. PICK d \in Nat : /\ d = DelayLeft' /\ d <= DelayLeft
                         /\ main = "delayed" /\ ~tick => d = DelayLeft - 1
    BY <1>9
  <2>9. PICK p \in Nat : p = spent' /\ p = IF Blocked \/ Interrupted THEN spent ELSE spent + 1
    BY <1>1, <1>2
  <2>10. /\ p - d - v >= spent - DelayLeft - Serving + 1
         /\ main = "start" => p - v >= spent - Serving + 1
    <3>1. CASE LpitPending
      <4>1. p = spent /\ v = Serving - 1
        BY <1>7, <2>7, <2>9, <3>1
      <4>2. d <= DelayLeft
        BY <2>8
      <4>3. QED
        BY <1>2, <4>1, <4>2
    <3>2. CASE ~LpitPending /\ Blocked
      <4>1. p = spent /\ v <= Serving /\ main # "start"
        BY <2>7, <2>9, <3>2 DEF Blocked
      <4>2. d = DelayLeft - 1
        BY <1>8, <2>8, <3>2 DEF Blocked
      <4>3. QED
        BY <1>2, <4>1, <4>2
    <3>3. CASE ~LpitPending /\ ~Blocked
      <4>1. p = spent + 1 /\ v <= Serving
        BY <1>7, <1>8, <2>7, <2>9, <3>3
      <4>2. d <= DelayLeft
        BY <2>8
      <4>3. QED
        BY <1>2, <4>1, <4>2
    <3>4. QED
      BY <3>1, <3>2, <3>3
  <2>11. DelayInTime'
    <3>1. held + 1 + StepsLeft - p + d + v <= Bound
      BY <1>2, <1>3, <2>1, <2>2, <2>10
    <3>2. DelayInTime' <=> held' + StepsLeft' - spent' + DelayLeft' + Serving' <= Bound'
      BY DEF DelayInTime
    <3>3. QED
      BY <2>4, <2>6, <2>7, <2>8, <2>9, <3>1, <3>2
  <2>12. ASSUME main = "start"
         PROVE  held' + 3 * MaxStep - spent' + WaitUs - 1 + Serving' <= Bound
    <3>1. held + 3 * MaxStep - spent + WaitUs - 1 + Serving <= Bound
      BY <2>1, <2>12 DEF PollInTime
    <3>2. p - v >= spent - Serving + 1
      BY <2>10, <2>12
    <3>3. held + 1 + 3 * MaxStep - p + WaitUs - 1 + v <= Bound
      BY <1>2, <1>3, <2>1, <3>1, <3>2
    <3>4. QED
      BY <2>4, <2>7, <2>9, <3>3
  <2>13. ASSUME main \in Waits
         PROVE  /\ Elapsed' <= held'
                /\ held' - Elapsed' + WaitUs - 1 + 2 * MaxStep + Serving' <= Bound
    <3>1. Elapsed <= held /\ held - Elapsed + WaitUs - 1 + 2 * MaxStep + Serving <= Bound
      BY <2>1, <2>13 DEF PollInTime
    <3>2. Elapsed' = Elapsed + 1
      <4>1. counter' = (counter + 1) % T!Wrap
        BY <1>1, <1>4, TickerAdvance
      <4>2. counter \in TP!Ticks /\ start \in TP!Ticks
        BY DEF BoundIInv, IInv, LedInv, TP!IInv, TP!TypeInv
      <4>3. Elapsed + 1 < T!Wrap
        BY <1>2, <1>3, <2>1, <2>3, <3>1, Times
      <4>4. (((counter + 1) % T!Wrap) - start) % T!Wrap = ((counter - start) % T!Wrap) + 1
        BY <4>2, <4>3, TP!OneMore, TickerSame, TickerFits DEF Elapsed
      <4>5. QED
        BY <1>1, <4>1, <4>4 DEF Elapsed, T!Wrap
    <3>3. Elapsed + 1 <= held + 1
      BY <1>2, <2>1, <3>1
    <3>4. v <= Serving
      BY <2>7
    <3>5. held + 1 - (Elapsed + 1) + WaitUs - 1 + 2 * MaxStep + v <= Bound
      BY <1>2, <1>3, <2>1, <3>1, <3>4
    <3>6. Serving' = v
      BY <2>7
    <3>7. Elapsed' <= held'
      BY <2>4, <3>2, <3>3
    <3>8. held' - Elapsed' = held + 1 - (Elapsed + 1)
      BY <1>2, <2>1, <2>4, <3>2
    <3>9. held' - Elapsed' + WaitUs - 1 + 2 * MaxStep + Serving' <= Bound
      BY <3>5, <3>6, <3>8
    <3>10. QED
      BY <3>7, <3>9
  <2>14. PollInTime'
    BY <1>1, <2>6, <2>12, <2>13 DEF PollInTime
  <2>15. QED
    BY <1>4, <1>5, <1>10, <2>3, <2>11, <2>14 DEF BoundIInv, PhaseInv
<1>13. QED
  BY <1>11, <1>12

(* A step that gives way to nothing keeps the phase in time if the         *)
(* interrupt and the delay do not take longer than before.                 *)
LEMMA PhaseKept ==
  ASSUME BoundIInv, IInv', UNCHANGED <<counter, start, held, spent>>,
         main' = main \/ (main = "delayed" /\ main' = "unlock"),
         DelayLeft' \in Nat, DelayLeft' <= DelayLeft, held \in Nat => Serving' <= Serving
  PROVE  PhaseInv'
<1>1. SUFFICES ASSUME held' # Unset PROVE DelayInTime' /\ PollInTime'
  BY DEF PhaseInv
<1>2. /\ held \in Nat /\ spent \in Nat /\ Serving \in Nat /\ DelayLeft \in Nat
      /\ StepsLeft \in Nat /\ Elapsed \in Nat
      /\ WaitUs \in Nat /\ MaxStep \in Nat /\ Bound \in Nat
  BY <1>1, BoundTyped, Times
<1>3. DelayInTime /\ PollInTime
  BY <1>1 DEF BoundIInv, PhaseInv
<1>4. /\ StepsLeft' = StepsLeft /\ Bound' = Bound /\ Elapsed' = Elapsed
      /\ main' = "start" <=> main = "start"
      /\ main' \in Waits <=> main \in Waits
  BY DEF StepsLeft, Bound, Elapsed, T!Wrap, Waits
<1>5. PICK v \in Nat : v = Serving' /\ v <= Serving
  BY <1>2, ServingNext DEF IInv
<1>6. PICK d \in Nat : d = DelayLeft' /\ d <= DelayLeft
  OBVIOUS
<1>7. v <= Serving /\ d <= DelayLeft
  BY <1>5, <1>6
<1>8. DelayInTime'
  <2>1. held + StepsLeft - spent + DelayLeft + Serving <= Bound
    BY <1>3 DEF DelayInTime
  <2>2. held + StepsLeft - spent + d + v <= Bound
    BY <1>2, <1>7, <2>1
  <2>3. DelayInTime' <=> held' + StepsLeft' - spent' + DelayLeft' + Serving' <= Bound'
    BY DEF DelayInTime
  <2>4. QED
    BY <1>4, <1>5, <1>6, <2>2, <2>3
<1>9. ASSUME main = "start"
      PROVE  held' + 3 * MaxStep - spent' + WaitUs - 1 + Serving' <= Bound
  <2>1. held + 3 * MaxStep - spent + WaitUs - 1 + Serving <= Bound
    BY <1>3, <1>9 DEF PollInTime
  <2>2. held + 3 * MaxStep - spent + WaitUs - 1 + v <= Bound
    BY <1>2, <1>7, <2>1
  <2>3. QED
    BY <1>5, <2>2
<1>10. ASSUME main \in Waits
       PROVE  /\ Elapsed' <= held'
              /\ held' - Elapsed' + WaitUs - 1 + 2 * MaxStep + Serving' <= Bound
  <2>1. Elapsed <= held /\ held - Elapsed + WaitUs - 1 + 2 * MaxStep + Serving <= Bound
    BY <1>3, <1>10 DEF PollInTime
  <2>2. held - Elapsed + WaitUs - 1 + 2 * MaxStep + v <= Bound
    BY <1>2, <1>7, <2>1
  <2>3. QED
    BY <1>4, <1>5, <2>1, <2>2
<1>11. PollInTime'
  BY <1>4, <1>9, <1>10 DEF PollInTime
<1>12. QED
  BY <1>8, <1>11

(* The handler of SysTick takes a tick off the delay, which is no longer   *)
(* pending then.                                                           *)
LEMMA SysTickDelay ==
  ASSUME BoundIInv, SysTick
  PROVE  DelayLeft' \in Nat /\ DelayLeft' <= DelayLeft
<1>1. /\ tick /\ tick' = FALSE /\ systick' = systick
      /\ ticks' = IF ticks = 0 THEN 0 ELSE ticks - 1
      /\ main' = IF ticks = 1 THEN "unlock" ELSE main
  BY DEF SysTick
<1>2. /\ DelayLeft \in Nat /\ systick \in Nat /\ ticks \in Nat /\ TickUs \in Nat
      /\ main = "delayed" <=> ticks # 0
  BY BoundTyped, Times DEF BoundIInv, TickInv, IInv, SleepInv
<1>3. CASE ticks = 0
  <2>1. main' = main /\ main # "delayed" /\ DelayTicks' = DelayTicks
    BY <1>1, <1>2, <1>3 DEF DelayTicks
  <2>2. DelayLeft' = DelayLeft
    BY <2>1 DEF DelayLeft
  <2>3. QED
    BY <1>2, <2>2
<1>4. CASE ticks = 1
  <2>1. main' = "unlock"
    BY <1>1, <1>4
  <2>2. DelayLeft' = 0
    BY <2>1 DEF DelayLeft
  <2>3. QED
    BY <1>2, <2>2
<1>5. CASE ticks # 0 /\ ticks # 1
  <2>1. main = "delayed" /\ main' = "delayed" /\ ticks' = ticks - 1
    BY <1>1, <1>2, <1>5
  <2>2. TickUs * (ticks - 1 - 1) = TickUs * (ticks - 1) - TickUs
    BY <1>2
  <2>3. Rest(ticks, systick, tick) = systick + TickUs * (ticks - 1) - TickUs
    BY <1>1 DEF Rest
  <2>4. Rest(ticks', systick', tick') = systick + TickUs * (ticks - 1 - 1) - 0
    BY <1>1, <2>1 DEF Rest
  <2>5. systick + TickUs * (ticks - 1 - 1) - 0 = systick + TickUs * (ticks - 1) - TickUs
    BY <1>2, <2>2
  <2>6. Rest(ticks', systick', tick') = Rest(ticks, systick, tick)
    BY <2>3, <2>4, <2>5
  <2>7. DelayLeft' = DelayLeft
    BY <2>1, <2>6 DEF DelayLeft
  <2>8. QED
    BY <1>2, <2>7
<1>6. QED
  BY <1>3, <1>4, <1>5

(* TickerInterrupt, SysTick, IdleSleep and IdleWake *)
LEMMA BackgroundBoundIInv ==
  ASSUME BoundIInv, TickerInterrupt \/ SysTick \/ IdleSleep \/ IdleWake \/ UNCHANGED vars
  PROVE  BoundIInv'
<1>1. IInv' /\ TP!IInv /\ TP!IInv' /\ QuietInv /\ TickInv
  BY NextIInv DEF BoundIInv, IInv, Next, Code
<1>2. DelayLeft \in Nat /\ Serving \in Nat
  BY BoundTyped
<1>3. CASE TickerInterrupt
  <2>1. /\ T!IsrEntry \/ T!Section
        /\ UNCHANGED <<main, start, ticks, systick, tick, spent, held>>
    BY <1>3 DEF TickerInterrupt
  <2>2. /\ QuietInv' /\ LpitPending
        /\ LpitPending' => Serving' <= Serving
        /\ held \in Nat => Serving' <= Serving
    BY <1>1, <2>1, InterruptServing
  <2>3. counter' = counter
    BY <1>1, <2>1, TickerInterrupts
  <2>4. DelayLeft' = DelayLeft
    BY <2>1 DEF DelayLeft, DelayTicks
  <2>5. PhaseInv'
    BY <1>1, <1>2, <2>1, <2>2, <2>3, <2>4, PhaseKept
  <2>6. ASSUME tick', LpitPending' PROVE TickUs - systick' + Serving' <= 2 * MaxMasked
    <3>1. PICK v \in Nat : v = Serving' /\ v <= Serving
      BY <1>1, <2>2, <2>6, ServingNext
    <3>2. TickUs - systick + Serving <= 2 * MaxMasked
      BY <1>1, <2>1, <2>2, <2>6 DEF TickInv
    <3>3. v <= Serving /\ TickUs \in Nat /\ systick \in Nat /\ MaxMasked \in Nat
      BY <3>1, BoundTyped, Times
    <3>4. TickUs - systick + v <= 2 * MaxMasked
      BY <1>2, <3>2, <3>3
    <3>5. QED
      BY <2>1, <3>1, <3>4
  <2>7. TickInv'
    BY <1>1, <2>1, <2>6 DEF TickInv
  <2>8. QED
    BY <1>1, <2>2, <2>5, <2>7 DEF BoundIInv
<1>4. CASE SysTick
  <2>1. /\ tick' = FALSE /\ UNCHANGED <<queue, left, pend, todo, masked, counter>>
        /\ ticks' = IF ticks = 0 THEN 0 ELSE ticks - 1
        /\ main' = IF ticks = 1 THEN "unlock" ELSE main
        /\ UNCHANGED <<start, systick, spent, held>>
    BY <1>4 DEF SysTick, ticker
  <2>2. QuietInv' /\ Serving' = Serving
    BY <1>1, <2>1, SameServing
  <2>3. ticks \in Nat /\ (main = "delayed" <=> ticks # 0)
    BY <1>1 DEF BoundIInv, IInv, SleepInv, TickInv
  <2>4. main' = main \/ (main = "delayed" /\ main' = "unlock")
    BY <2>1, <2>3
  <2>5. PhaseInv'
    BY <1>1, <1>2, <1>4, <2>1, <2>2, <2>4, SysTickDelay, PhaseKept
  <2>6. main' = "delayed" => ticks' # 0
    BY <2>1, <2>3
  <2>7. TickInv'
    BY <1>1, <2>1, <2>4, <2>6 DEF TickInv
  <2>8. QED
    BY <1>1, <2>2, <2>5, <2>7 DEF BoundIInv
<1>5. CASE IdleSleep \/ IdleWake \/ UNCHANGED vars
  <2>1. /\ UNCHANGED <<queue, left, pend, todo, masked, counter>>
        /\ UNCHANGED <<main, start, ticks, systick, tick, spent, held>>
    BY <1>5 DEF IdleSleep, IdleWake, vars, ticker
  <2>2. QuietInv' /\ Serving' = Serving /\ LpitPending' = LpitPending
    BY <1>1, <2>1, SameServing
  <2>3. DelayLeft' = DelayLeft
    BY <2>1 DEF DelayLeft, DelayTicks
  <2>4. PhaseInv'
    BY <1>1, <1>2, <2>1, <2>2, <2>3, PhaseKept
  <2>5. TickInv'
    BY <1>1, <2>1, <2>2 DEF TickInv
  <2>6. QED
    BY <1>1, <2>2, <2>4, <2>5 DEF BoundIInv
<1>6. QED
  BY <1>3, <1>4, <1>5

(* A step of main: nothing interrupts it, and it leaves LPIT as it is. *)
LEMMA MainStepTicker ==
  ASSUME BoundIInv, MainStep
  PROVE  /\ QuietInv' /\ ~tick /\ ~tick' /\ spent' = 0 /\ UNCHANGED systick
         /\ ~LpitPending /\ ~LpitPending' /\ counter' = counter
         /\ held' = held => Serving' = Serving
<1>1. ~Interrupted /\ spent' = 0 /\ UNCHANGED <<systick, tick>>
  BY DEF MainStep, Configure, SetLed, WaitStart, LockSleep, OsDelay, UnlockSleep, Poll, Step
<1>2. UNCHANGED <<queue, left, pend, todo, masked, counter>>
  BY DEF MainStep, Configure, SetLed, WaitStart, LockSleep, OsDelay, UnlockSleep, Poll,
     ticker, T!ReadUs, T!lists, T!hw
<1>3. QuietInv' /\ LpitPending' = LpitPending /\ (held' = held => Serving' = Serving)
  BY <1>2, SameServing DEF BoundIInv
<1>4. QED
  BY <1>1, <1>2, <1>3 DEF Interrupted, LpitPending

(* The steps of main keep TickInv. *)
LEMMA MainStepTick ==
  ASSUME BoundIInv, MainStep
  PROVE  TickInv'
<1>1. systick \in 1 .. TickUs /\ 0 \in 0 .. MaxStep
  BY Times DEF BoundIInv, TickInv
<1>2. /\ systick' \in 1 .. TickUs /\ tick' = FALSE /\ spent' \in 0 .. MaxStep
  <2>1. tick' = tick
    BY DEF MainStep, Configure, SetLed, WaitStart, LockSleep, OsDelay, UnlockSleep, Poll, Step
  <2>2. tick \in BOOLEAN
    BY DEF BoundIInv, TickInv
  <2>3. QED
    BY <1>1, <2>1, <2>2, MainStepTicker
<1>3. /\ main' = "delayed" => ticks' # 0
      /\ main' \in {"lock", "delay"} => WaitUs >= TickUs
  <2>1. CASE OsDelay
    <3>1. ticks' = DelayTicks /\ main = "delay" /\ main' = "delayed"
      BY <2>1 DEF OsDelay, Step
    <3>2. WaitUs >= TickUs
      BY <3>1 DEF BoundIInv, TickInv
    <3>3. QED
      BY <3>1, <3>2, Times
  <2>2. CASE Configure \/ SetLed \/ UnlockSleep \/ Poll
    BY <2>2 DEF Configure, SetLed, UnlockSleep, Poll, Step
  <2>3. CASE WaitStart
    BY <2>3 DEF WaitStart, Step
  <2>4. CASE LockSleep
    BY <2>4 DEF LockSleep, Step, BoundIInv, TickInv
  <2>5. QED
    BY <2>1, <2>2, <2>3, <2>4 DEF MainStep
<1>4. QED
  BY <1>2, <1>3 DEF TickInv

(* A step further in wait_us leaves a step less to do. *)
LEMMA StepInTime ==
  ASSUME BoundIInv, MainStep, held # Unset, held' = held,
         StepsLeft' \in Nat, StepsLeft' + MaxStep <= StepsLeft,
         DelayLeft' \in Nat, DelayLeft' <= DelayLeft
  PROVE  DelayInTime'
<1>1. /\ held \in Nat /\ spent \in Nat /\ spent <= MaxStep /\ Serving \in Nat
      /\ DelayLeft \in Nat /\ StepsLeft \in Nat /\ MaxStep \in Nat /\ Bound \in Nat
  BY BoundTyped, Times
<1>2. held + StepsLeft - spent + DelayLeft + Serving <= Bound
  BY DEF BoundIInv, PhaseInv, DelayInTime
<1>3. PICK n \in Nat : n = StepsLeft' /\ n + MaxStep <= StepsLeft
  OBVIOUS
<1>4. PICK d \in Nat : d = DelayLeft' /\ d <= DelayLeft
  OBVIOUS
<1>5. n + MaxStep <= StepsLeft /\ d <= DelayLeft
  BY <1>3, <1>4
<1>6. held + n - 0 + d + Serving <= Bound
  BY <1>1, <1>2, <1>5
<1>7. spent' = 0 /\ Serving' = Serving /\ Bound' = Bound
  BY MainStepTicker DEF Bound
<1>8. DelayInTime' <=> held' + StepsLeft' - spent' + DelayLeft' + Serving' <= Bound'
  BY DEF DelayInTime
<1>9. QED
  BY <1>3, <1>4, <1>6, <1>7, <1>8

(* The start of a phase *)
LEMMA SetLedPhase ==
  ASSUME BoundIInv, SetLed
  PROVE  PhaseInv'
<1>1. main' = "start" /\ held' = 0 /\ spent' = 0 /\ UNCHANGED ticks
  BY DEF SetLed, Step
<1>2. /\ WaitUs \in Nat /\ MaxStep \in Nat /\ MaxMasked \in Nat /\ Bound \in Nat
      /\ TickUs * DelayTicks \in Nat
      /\ 6 * MaxStep + TickUs * DelayTicks + 2 * MaxMasked <= Bound
      /\ 3 * MaxStep + WaitUs - 1 + 2 * MaxMasked <= Bound
  BY Times
<1>3. PICK v \in Nat : v = Serving' /\ v <= 2 * MaxMasked
  BY NextIInv, ServingNext DEF BoundIInv, IInv, Next, Code, MainStep
<1>4. v <= 2 * MaxMasked
  BY <1>3
<1>5. DelayLeft' = TickUs * DelayTicks /\ StepsLeft' = 6 * MaxStep /\ Bound' = Bound
  BY <1>1 DEF DelayLeft, DelayTicks, StepsLeft, Bound
<1>6. 0 + 6 * MaxStep - 0 + TickUs * DelayTicks + v <= Bound
  BY <1>2, <1>4
<1>7. 0 + 3 * MaxStep - 0 + WaitUs - 1 + v <= Bound
  BY <1>2, <1>4
<1>8. DelayInTime'
  <2>1. DelayInTime' <=> held' + StepsLeft' - spent' + DelayLeft' + Serving' <= Bound'
    BY DEF DelayInTime
  <2>2. QED
    BY <1>1, <1>3, <1>5, <1>6, <2>1
<1>9. PollInTime'
  <2>1. held' + 3 * MaxStep - spent' + WaitUs - 1 + Serving' <= Bound'
    BY <1>1, <1>3, <1>5, <1>7
  <2>2. QED
    BY <1>1, <2>1 DEF PollInTime, Waits
<1>10. QED
  BY <1>8, <1>9 DEF PhaseInv

(* The start of wait_us, which has taken at most its steps up to here *)
LEMMA WaitStartPhase ==
  ASSUME BoundIInv, WaitStart
  PROVE  PhaseInv'
<1>1. /\ main = "start" /\ main' = IF WaitUs >= TickUs THEN "lock" ELSE "poll"
      /\ T!ReadUs /\ start' = TickerRead /\ UNCHANGED <<ticks, held>>
  BY DEF WaitStart, Step
<1>2. MainStep /\ spent' = 0 /\ Serving' = Serving
  BY <1>1, MainStepTicker DEF MainStep
<1>3. held # Unset /\ main' \in {"lock", "poll"} /\ main' \in Waits /\ main' # "start"
  BY <1>1 DEF BoundIInv, IInv, LedInv, Waits
<1>4. /\ held \in Nat /\ spent \in Nat /\ spent <= MaxStep /\ Serving \in Nat
      /\ WaitUs \in Nat /\ MaxStep \in Nat /\ Bound \in Nat /\ TickUs * DelayTicks \in Nat
  BY <1>3, BoundTyped, Times
<1>5. DelayInTime'
  <2>1. StepsLeft = 6 * MaxStep /\ DelayLeft = TickUs * DelayTicks
    BY <1>1 DEF StepsLeft, DelayLeft
  <2>2. StepsLeft' = 5 * MaxStep \/ StepsLeft' = 2 * MaxStep
    BY <1>3 DEF StepsLeft
  <2>3. DelayLeft' = TickUs * DelayTicks \/ DelayLeft' = 0
    BY <1>3 DEF DelayLeft, DelayTicks
  <2>4. StepsLeft' \in Nat /\ StepsLeft' + MaxStep <= StepsLeft
    <3>1. /\ 5 * MaxStep \in Nat /\ 5 * MaxStep + MaxStep <= 6 * MaxStep
          /\ 2 * MaxStep \in Nat /\ 2 * MaxStep + MaxStep <= 6 * MaxStep
      BY <1>4
    <3>2. QED
      BY <2>1, <2>2, <3>1
  <2>5. DelayLeft' \in Nat /\ DelayLeft' <= DelayLeft
    <3>1. 0 <= TickUs * DelayTicks /\ TickUs * DelayTicks <= TickUs * DelayTicks
      BY <1>4
    <3>2. QED
      BY <1>4, <2>1, <2>3, <3>1
  <2>6. QED
    BY <1>1, <1>2, <1>3, <2>4, <2>5, StepInTime
<1>6. Elapsed' = 0
  BY <1>1, ReadsNow DEF BoundIInv, IInv
<1>7. PollInTime'
  <2>1. held + 3 * MaxStep - spent + WaitUs - 1 + Serving <= Bound
    BY <1>1, <1>3 DEF BoundIInv, PhaseInv, PollInTime
  <2>2. 0 <= held /\ held - 0 + WaitUs - 1 + 2 * MaxStep + Serving <= Bound
    BY <1>4, <2>1
  <2>3. /\ Elapsed' <= held'
        /\ held' - Elapsed' + WaitUs - 1 + 2 * MaxStep + Serving' <= Bound'
    BY <1>1, <1>2, <1>6, <2>2 DEF Bound
  <2>4. QED
    BY <1>3, <2>3 DEF PollInTime
<1>8. QED
  BY <1>5, <1>7 DEF PhaseInv

(* The sleep lock around Thread::wait, and Thread::wait *)
LEMMA WaitPhase ==
  ASSUME BoundIInv, LockSleep \/ OsDelay \/ UnlockSleep
  PROVE  PhaseInv'
<1>1. /\ main \in {"lock", "delay", "unlock"} /\ main \in Waits
      /\ main' \in Waits /\ main' # "start" /\ MainStep
      /\ UNCHANGED <<start, held, systick, tick>>
  BY DEF LockSleep, OsDelay, UnlockSleep, Step, Waits, MainStep
<1>2. counter' = counter /\ Serving' = Serving /\ ~tick
  BY <1>1, MainStepTicker
<1>3. held # Unset
  BY <1>1 DEF BoundIInv, IInv, LedInv
<1>4. /\ MaxStep \in Nat /\ TickUs * DelayTicks \in Nat /\ TickUs \in Nat /\ DelayTicks \in Nat
      /\ systick \in Nat /\ systick <= TickUs
  BY BoundTyped, Times
<1>5. StepsLeft' \in Nat /\ StepsLeft' + MaxStep <= StepsLeft
  <2>1. /\ 4 * MaxStep \in Nat /\ 4 * MaxStep + MaxStep <= 5 * MaxStep
        /\ 3 * MaxStep \in Nat /\ 3 * MaxStep + MaxStep <= 4 * MaxStep
        /\ 2 * MaxStep \in Nat /\ 2 * MaxStep + MaxStep <= 3 * MaxStep
    BY <1>4
  <2>2. \/ StepsLeft = 5 * MaxStep /\ StepsLeft' = 4 * MaxStep
        \/ StepsLeft = 4 * MaxStep /\ StepsLeft' = 3 * MaxStep
        \/ StepsLeft = 3 * MaxStep /\ StepsLeft' = 2 * MaxStep
    BY DEF LockSleep, OsDelay, UnlockSleep, Step, StepsLeft
  <2>3. QED
    BY <2>1, <2>2
<1>6. DelayLeft' \in Nat /\ DelayLeft' <= DelayLeft
  <2>1. CASE LockSleep
    <3>1. DelayLeft = TickUs * DelayTicks /\ DelayLeft' = TickUs * DelayTicks
      BY <2>1 DEF LockSleep, Step, DelayLeft, DelayTicks
    <3>2. TickUs * DelayTicks <= TickUs * DelayTicks
      BY <1>4
    <3>3. QED
      BY <1>4, <3>1, <3>2
  <2>2. CASE OsDelay
    <3>1. main = "delay" /\ main' = "delayed" /\ ticks' = DelayTicks
      BY <2>2 DEF OsDelay, Step
    <3>2. Rest(ticks', systick', tick') = systick + TickUs * (DelayTicks - 1) - 0
      BY <1>1, <1>2, <3>1 DEF Rest
    <3> DEFINE r == systick + TickUs * (DelayTicks - 1) - 0
    <3>3. TickUs * (DelayTicks - 1) = TickUs * DelayTicks - TickUs
      BY <1>4
    <3>4. r \in Int /\ r <= TickUs * DelayTicks
      BY <1>4, <3>3
    <3> HIDE DEF r
    <3>5. DelayLeft' = IF r > 0 THEN r ELSE 0
      BY <3>1, <3>2 DEF DelayLeft, r
    <3>6. DelayLeft = TickUs * DelayTicks
      BY <3>1 DEF DelayLeft
    <3>7. \A x : x = (IF r > 0 THEN r ELSE 0) => x \in Nat /\ x <= TickUs * DelayTicks
      BY <1>4, <3>4
    <3>8. QED
      BY <3>5, <3>6, <3>7
  <2>3. CASE UnlockSleep
    <3>1. DelayLeft = 0 /\ DelayLeft' = 0
      BY <2>3 DEF UnlockSleep, Step, DelayLeft
    <3>2. QED
      BY <3>1
  <2>4. QED
    BY <2>1, <2>2, <2>3
<1>7. DelayInTime'
  BY <1>1, <1>3, <1>5, <1>6, StepInTime
<1>8. PollInTime'
  <2>1. PollInTime
    BY <1>3 DEF BoundIInv, PhaseInv
  <2>2. Elapsed' = Elapsed /\ Bound' = Bound
    BY <1>1, <1>2 DEF Elapsed, T!Wrap, Bound
  <2>3. QED
    BY <1>1, <1>2, <2>1, <2>2 DEF PollInTime
<1>9. QED
  BY <1>7, <1>8 DEF PhaseInv

(* The loop of wait_us: as long as it goes on, WaitUs has not passed. *)
LEMMA PollPhase ==
  ASSUME BoundIInv, Poll
  PROVE  PhaseInv'
<1>1. /\ T!ReadUs /\ main = "poll" /\ main' = IF WaitOver THEN "led" ELSE "poll"
      /\ UNCHANGED <<start, ticks, held>>
  BY DEF Poll, Step
<1>2. MainStep /\ spent' = 0 /\ Serving' = Serving /\ counter' = counter
  BY <1>1, MainStepTicker DEF Poll, MainStep
<1>3. held # Unset
  BY <1>1 DEF BoundIInv, IInv, LedInv
<1>4. /\ held \in Nat /\ Serving \in Nat /\ Elapsed \in Nat
      /\ WaitUs \in Nat /\ MaxStep \in Nat /\ Bound \in Nat
  BY <1>3, BoundTyped, Times
<1>5. /\ Elapsed <= held
      /\ held - Elapsed + WaitUs - 1 + 2 * MaxStep + Serving <= Bound
  BY <1>1, <1>3 DEF BoundIInv, PhaseInv, PollInTime, Waits
<1>6. Elapsed' = Elapsed /\ Bound' = Bound
  BY <1>1, <1>2 DEF Elapsed, T!Wrap, Bound
<1>7. DelayLeft' = 0 /\ DelayLeft = 0
  BY <1>1 DEF DelayLeft
<1>8. CASE WaitOver
  <2>1. StepsLeft = 2 * MaxStep /\ StepsLeft' = MaxStep /\ main' = "led"
    BY <1>1, <1>8 DEF StepsLeft
  <2>2. MaxStep + MaxStep <= 2 * MaxStep
    BY <1>4
  <2>3. DelayLeft' \in Nat /\ DelayLeft' <= DelayLeft
    BY <1>7
  <2>4. DelayInTime'
    BY <1>1, <1>2, <1>3, <1>4, <2>1, <2>2, <2>3, StepInTime
  <2>5. QED
    BY <2>1, <2>4 DEF PhaseInv, PollInTime, Waits
<1>9. CASE ~WaitOver
  <2>1. main' = "poll"
    BY <1>1, <1>9
  <2>2. Elapsed < WaitUs
    <3>1. TickerRead = counter
      BY <1>1, ReadsNow DEF BoundIInv, IInv
    <3>2. QED
      BY <1>4, <1>9, <3>1 DEF WaitOver, Elapsed
  <2>3. held + 2 * MaxStep - 0 + 0 + Serving <= Bound
    BY <1>4, <1>5, <2>2
  <2>4. StepsLeft' = 2 * MaxStep
    BY <2>1 DEF StepsLeft
  <2>5. DelayInTime'
    <3>1. DelayInTime' <=> held' + StepsLeft' - spent' + DelayLeft' + Serving' <= Bound'
      BY DEF DelayInTime
    <3>2. QED
      BY <1>1, <1>2, <1>6, <1>7, <2>3, <2>4, <3>1
  <2>6. PollInTime'
    BY <1>1, <1>2, <1>5, <1>6, <2>1 DEF PollInTime
  <2>7. QED
    BY <2>5, <2>6 DEF PhaseInv
<1>10. QED
  BY <1>8, <1>9

(* Every step of the program keeps the bound. *)
LEMMA NextBoundIInv == BoundIInv /\ [Next]_vars => BoundIInv'
<1> SUFFICES ASSUME BoundIInv, [Next]_vars PROVE BoundIInv'
  OBVIOUS
<1>1. CASE Advance
  BY <1>1, AdvanceBoundIInv
<1>2. CASE TickerInterrupt \/ SysTick \/ IdleSleep \/ IdleWake \/ UNCHANGED vars
  BY <1>2, BackgroundBoundIInv
<1>3. CASE MainStep
  <2>1. IInv' /\ QuietInv' /\ TickInv'
    BY <1>3, NextIInv, MainStepTicker, MainStepTick DEF BoundIInv, Next, Code
  <2>2. CASE Configure
    <3>1. held = Unset /\ held' = held
      BY <2>2 DEF Configure, Step, BoundIInv, IInv, LedInv
    <3>2. QED
      BY <2>1, <3>1 DEF BoundIInv, PhaseInv
  <2>3. CASE SetLed
    BY <2>1, <2>3, SetLedPhase DEF BoundIInv
  <2>4. CASE WaitStart
    BY <2>1, <2>4, WaitStartPhase DEF BoundIInv
  <2>5. CASE LockSleep \/ OsDelay \/ UnlockSleep
    BY <2>1, <2>5, WaitPhase DEF BoundIInv
  <2>6. CASE Poll
    BY <2>1, <2>6, PollPhase DEF BoundIInv
  <2>7. QED
    BY <1>3, <2>2, <2>3, <2>4, <2>5, <2>6 DEF MainStep
<1>4. QED
  BY <1>1, <1>2, <1>3 DEF Next, Code

-----------------------------------------------------------------------------
(* What the LED shows. *)

(* Blink without its upper bound: the LED holds its state for as long as   *)
(* the program takes.                                                      *)
HoldAnyTime ==
  /\ Led # "boot" /\ UNCHANGED Led
  /\ held' = held + 1
NoShortPhase ==
  Abstract!Init
    /\ [][Abstract!SwitchOn \/ Abstract!SwitchOff \/ HoldAnyTime]_<<Led, held>>

(* What a step does to the LED, and that only the passing of time lets it  *)
(* hold its state longer *)
LEMMA LedSteps ==
  ASSUME IInv, [Next]_vars
  PROVE  \/ Abstract!SwitchOn \/ Abstract!SwitchOff \/ (Advance /\ HoldAnyTime)
         \/ UNCHANGED <<Led, held>>
<1>1. L!Net.LEDESC1 = LedPin
  BY DEF L!Net, LedPin
<1>2. Led = IF held = Unset THEN "boot" ELSE IF LedPin \in out THEN "on" ELSE "off"
  BY <1>1 DEF Led
<1>3. Led' = IF held' = Unset THEN "boot" ELSE IF LedPin \in out' THEN "on" ELSE "off"
  BY <1>1 DEF Led, L!Net
<1>4. CASE SetLed
  <2>1. /\ main = "led" /\ held' = 0 /\ held' # Unset
        /\ out' = L!SetEscLedState(out, 1, lit)
    BY <1>4 DEF SetLed, Step, Unset
  <2>2. /\ lit \in {0, 1}
        /\ held = Unset => lit = 1
        /\ held # Unset => (LedPin \in out <=> lit = 0) /\ held >= WaitUs
    BY <2>1 DEF IInv, LedInv
  <2>3. out' = IF lit = 0 THEN out \ {LedPin} ELSE out \cup {LedPin}
    BY <2>1 DEF L!SetEscLedState, L!EscPin, LedPin
  <2>4. Led' = IF lit = 0 THEN "off" ELSE "on"
    BY <1>3, <2>1, <2>2, <2>3
  <2>5. /\ held = Unset => Led = "boot" /\ lit = 1
        /\ held # Unset => Led = (IF lit = 0 THEN "on" ELSE "off") /\ held >= WaitUs
    BY <1>2, <2>2
  <2>6. QED
    BY <2>1, <2>2, <2>4, <2>5 DEF Abstract!SwitchOn, Abstract!SwitchOff
<1>5. CASE Advance
  <2>1. out' = out /\ held' = IF held \in {Unset, WaitUs + Late + 1} THEN held ELSE held + 1
    BY <1>5 DEF Advance
  <2>2. CASE held' = held
    BY <1>2, <1>3, <2>1, <2>2
  <2>3. CASE held' # held
    <3>1. held # Unset /\ held' = held + 1 /\ held \in Nat
      BY <2>1, <2>3 DEF IInv, LedInv
    <3>2. held' # Unset
      BY <3>1 DEF Unset
    <3>3. QED
      BY <1>5, <1>2, <1>3, <2>1, <3>1, <3>2 DEF HoldAnyTime
  <2>4. QED
    BY <2>2, <2>3
<1>6. CASE Configure
  <2>1. held = Unset /\ held' = held
    BY <1>6 DEF IInv, LedInv, Configure, Step
  <2>2. QED
    BY <1>2, <1>3, <2>1
<1>7. ASSUME UNCHANGED <<out, held>> PROVE UNCHANGED <<Led, held>>
  BY <1>2, <1>3, <1>7
<1>8. CASE \/ WaitStart \/ LockSleep \/ OsDelay \/ UnlockSleep \/ Poll
           \/ IdleSleep \/ IdleWake \/ TickerInterrupt \/ SysTick \/ UNCHANGED vars
  <2>1. UNCHANGED <<out, held>>
    BY <1>8 DEF WaitStart, LockSleep, OsDelay, UnlockSleep, Poll, IdleSleep, IdleWake,
       TickerInterrupt, SysTick, vars
  <2>2. QED
    BY <1>7, <2>1
<1>9. QED
  BY <1>4, <1>5, <1>6, <1>8 DEF Next, Code, MainStep

-----------------------------------------------------------------------------
(* The theorems. *)

(* The inductive invariant of the program: the ticker's, the balance of    *)
(* the sleep locks, and how long the LED has been as it is.                *)
THEOREM Invariance == Spec => []IInv
<1>1. QED
  BY InitIInv, NextIInv, PTL DEF Spec

(* sleep_manager_lock_deep_sleep and its unlock are balanced: the counter  *)
(* is the number of those who hold it, main in Thread::wait and the idle   *)
(* hook.                                                                   *)
THEOREM SleepLocksBalancedHolds == Spec => []SleepLocksBalanced
<1>1. IInv => SleepLocksBalanced
  BY DEF IInv, SleepInv
<1>2. QED
  BY <1>1, Invariance, PTL

(* The core never enters deep sleep, in which both timers stand still:     *)
(* whenever the idle hook asks sleep_manager_can_deep_sleep, main holds    *)
(* the lock.                                                               *)
NeverDeep == power # "deep"

(* sleep_manager_sleep_auto never chooses deep sleep in this program. *)
THEOREM NeverDeepHolds == Spec => []NeverDeep
<1>1. IInv => NeverDeep
  BY DEF IInv, SleepInv, NeverDeep
<1>2. QED
  BY <1>1, Invariance, PTL

(* The LED is switched on and off in turn, and never before WaitUs has     *)
(* passed, whatever the interrupts and the wraps of the counter do to      *)
(* wait_us, and however long they and main take: TicksKept and LateEnough  *)
(* have no part in this.                                                   *)
THEOREM NoShortPhaseHolds == Spec => NoShortPhase
<1>1. Init => Abstract!Init
  BY DEF Init, Abstract!Init, Led, Unset
<1>2. IInv /\ [Next]_vars => [Abstract!SwitchOn \/ Abstract!SwitchOff \/ HoldAnyTime]_<<Led, held>>
  BY LedSteps
<1>3. QED
  BY <1>1, <1>2, Invariance, PTL DEF Spec, NoShortPhase

(* The inductive invariant of the upper bound: what main, its delay and    *)
(* the interrupts may still take fits into what is left of the phase.      *)
THEOREM BoundInvariance == Spec => []BoundIInv
<1>1. QED
  BY InitBoundIInv, NextBoundIInv, PTL DEF Spec

(* The program implements Blink: every phase of the LED lasts at least     *)
(* WaitUs, across the wraps of the counter, and at most Late more.         *)
THEOREM ImplementsBlinkHolds == Spec => ImplementsBlink
<1>1. Init => Abstract!Init
  BY DEF Init, Abstract!Init, Led, Unset
<1>2. ASSUME BoundIInv, [Next]_vars
      PROVE  [Abstract!Next]_Abstract!vars
  <2>1. CASE Abstract!SwitchOn \/ Abstract!SwitchOff
    BY <2>1 DEF Abstract!Next
  <2>2. CASE Advance /\ HoldAnyTime
    <3>1. Led # "boot" /\ UNCHANGED Led /\ held' = held + 1
      BY <2>2 DEF HoldAnyTime
    <3>2. held # Unset
      BY <3>1 DEF Led
    <3>3. held < WaitUs + Late /\ held \in Nat
      BY <1>2, <2>2, <3>2, AdvanceBoundIInv, BoundTyped DEF Bound
    <3>4. held' # Unset
      BY <3>1, <3>3 DEF Unset
    <3>5. Abstract!Hold
      BY <3>1, <3>2, <3>3, <3>4 DEF Abstract!Hold
    <3>6. QED
      BY <3>5 DEF Abstract!Next
  <2>3. CASE UNCHANGED <<Led, held>>
    BY <2>3 DEF Abstract!vars, Unset
  <2>4. QED
    BY <1>2, <2>1, <2>2, <2>3, LedSteps DEF BoundIInv
<1>3. QED
  BY <1>1, <1>2, BoundInvariance, PTL DEF Spec, ImplementsBlink, Abstract!Spec
=============================================================================
