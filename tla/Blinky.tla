------------------------------- MODULE Blinky -------------------------------
(***************************************************************************)
(* The whole program: main (App/main.cpp) switches the LED and calls wait; *)
(* wait_us delays in the RTOS and polls the microsecond ticker for the     *)
(* rest; the idle thread sleeps meanwhile; SysTick and the LPIT interrupt  *)
(* either.  The ticker is TickerQueue with no events: its queue stays      *)
(* empty, but the LPIT interrupt still has to keep the time.               *)
(*                                                                         *)
(* There are two threads, so that of RtxThread only this remains: osDelay  *)
(* gives the core to the idle thread, and the tick that ends the delay     *)
(* gives it back.                                                          *)
(***************************************************************************)
EXTENDS Integers, Sequences

CONSTANTS
  Bits,       \* of the ticker's counter (32 on the board)
  MaxMasked,  \* the longest time interrupts stay masked
  TickUs,     \* microseconds in a tick of the RTOS (1000)
  WaitUs,     \* the argument of wait_us (100000)
  MaxStep,    \* the longest time main takes for one of its steps
  Late        \* by how much a phase of the LED may exceed WaitUs

(* As TickerQueue assumes *)
ASSUME TickerFits ==
  /\ Bits \in Nat /\ Bits >= 4 /\ MaxMasked \in Nat
  /\ MaxMasked < 7 * 2 ^ (Bits - 4)
  /\ 7 * 2 ^ (Bits - 4) + 4 * MaxMasked < 2 ^ Bits
(* No phase lasts as long as the countdown between two LPIT interrupts. *)
ASSUME WaitFits ==
  WaitUs \in Nat /\ WaitUs + Late + MaxMasked + 1 < 7 * 2 ^ (Bits - 4)
ASSUME StepsAreNats == TickUs \in Nat \ {0} /\ MaxStep \in Nat /\ Late \in Nat
(* An LPIT interrupt, with its latency, is over before the next tick. *)
ASSUME TicksKept == 2 * MaxMasked < TickUs
(* A phase with its six steps of main, the whole ticks of osDelay and one  *)
(* LPIT interrupt; and one that ends by polling: with the steps before the *)
(* time is read, after the last poll that fails, and before the LED.       *)
ASSUME LateEnough ==
  /\ 6 * MaxStep + TickUs * (WaitUs \div TickUs) + 2 * MaxMasked <= WaitUs + Late
  /\ 3 * MaxStep + 2 * MaxMasked <= Late + 1

VARIABLES
  counter, lag, last, queue, due, delay, attached, lock, left, pend, todo,
  masked,    \* the ticker; lock is deep_sleep_lock
  out,       \* the pins
  main,      \* where main is
  lit,       \* the state main has given or gives the LED next
  start,     \* wait_us: the ticker when it was called
  ticks,     \* thread_delay of main
  systick,   \* microseconds to the next tick
  tick,      \* the SysTick interrupt is pending
  power,     \* "run", "sleep" or "deep"
  spent,     \* history: time since main's last step
  held       \* history: time since main last wrote the LED, or Unset;
             \* it stops one above the bound that Blink puts on it

ticker == <<counter, lag, last, queue, due, delay, attached, left, pend,
            todo, masked>>
vars == <<ticker, lock, out, main, lit, start, ticks, systick, tick, power,
          spent, held>>

T == INSTANCE TickerQueue WITH Events <- {}, Periodic <- {}, Delays <- {}
L == INSTANCE EscLeds WITH Nums <- {1}, configured <- TRUE, shown <- <<0>>

Unset == -1

(* The ticker is initialised before main starts, where the code does it in *)
(* the first ticker_read; nothing else uses it before that.                *)
Init ==
  /\ T!Init
  /\ out = {} /\ lit = 1
  /\ main = "init" /\ start = 0 /\ ticks = 0
  /\ systick = TickUs /\ tick = FALSE
  /\ power = "run" /\ spent = 0 /\ held = Unset

-----------------------------------------------------------------------------
(* Time. *)

Blocked == main = "delayed"
Interrupted == tick \/ pend \/ todo # <<>>

(* SysTick is taken as soon as nothing masks it and LPIT is through.  A    *)
(* sleeping core wakes at once.  In deep sleep both timers stand still.    *)
Advance ==
  /\ power # "deep"
  /\ tick /\ todo = <<>> => pend /\ power = "run"
  /\ pend => power = "run"
  /\ ~Blocked /\ ~Interrupted => spent < MaxStep
  /\ T!Advance
  /\ systick' = IF systick = 1 THEN TickUs ELSE systick - 1
  /\ tick' = (tick \/ systick = 1)
  /\ spent' = IF Blocked \/ Interrupted THEN spent ELSE spent + 1
  /\ held' = IF held \in {Unset, WaitUs + Late + 1} THEN held ELSE held + 1
  /\ UNCHANGED <<out, main, lit, start, ticks, power>>

(* The LPIT interrupt and its handler *)
TickerInterrupt ==
  /\ power = "run"
  /\ T!IsrEntry \/ T!Section
  /\ UNCHANGED <<out, main, lit, start, ticks, systick, tick, power,
                 spent, held>>

(* The tick: osRtxTick_Handler *)
SysTick ==
  /\ tick /\ ~pend /\ todo = <<>> /\ power = "run"
  /\ tick' = FALSE
  /\ ticks' = IF ticks = 0 THEN 0 ELSE ticks - 1
  /\ main' = IF ticks = 1 THEN "unlock" ELSE main
  /\ UNCHANGED <<ticker, lock, out, lit, start, systick, power, spent, held>>

-----------------------------------------------------------------------------
(* main *)

Step(from, to) ==
  /\ main = from /\ ~Interrupted
  /\ main' = to /\ spent' = 0
  /\ UNCHANGED <<systick, tick, power>>

Configure ==
  /\ Step("init", "led")
  /\ out' = L!InitPins(out)
  /\ UNCHANGED <<ticker, lock, lit, start, ticks, held>>

(* Set_ESC_LED_state(1, lit) *)
SetLed ==
  /\ Step("led", "start")
  /\ out' = L!SetEscLedState(out, 1, lit)
  /\ lit' = 1 - lit /\ held' = 0
  /\ UNCHANGED <<ticker, lock, start, ticks>>

(* ticker_read, after update_present_time: the low bits of present_time *)
TickerRead == (counter - lag') % T!Wrap

(* wait_us, up to the choice of the RTOS or the loop *)
WaitStart ==
  /\ T!ReadUs
  /\ Step("start", IF WaitUs >= TickUs THEN "lock" ELSE "poll")
  /\ start' = TickerRead
  /\ UNCHANGED <<out, lit, ticks, held>>

(* sleep_manager_lock_deep_sleep *)
LockSleep ==
  /\ Step("lock", "delay")
  /\ lock' = lock + 1
  /\ UNCHANGED <<ticker, out, lit, start, ticks, held>>

(* Thread::wait *)
DelayTicks == WaitUs \div TickUs

OsDelay ==
  /\ Step("delay", "delayed")
  /\ ticks' = DelayTicks
  /\ UNCHANGED <<ticker, lock, out, lit, start, held>>

(* sleep_manager_unlock_deep_sleep *)
UnlockSleep ==
  /\ Step("unlock", "poll")
  /\ lock' = lock - 1
  /\ UNCHANGED <<ticker, out, lit, start, ticks, held>>

(* The loop for the rest, in 32-bit arithmetic; the first mutant trusts    *)
(* that the delay was long enough, the second compares end times.          *)
WaitOverAlways == TRUE
WaitOverEnd == TickerRead >= start + WaitUs
WaitOver == (TickerRead - start) % T!Wrap >= WaitUs

Poll ==
  /\ T!ReadUs
  /\ Step("poll", IF WaitOver THEN "led" ELSE "poll")
  /\ UNCHANGED <<out, lit, start, ticks, held>>

-----------------------------------------------------------------------------
(* The idle thread: default_idle_hook around sleep_manager_sleep_auto,     *)
(* with interrupts masked until it is through.                             *)

(* sleep_manager_can_deep_sleep *)
CanDeepSleep(l) == l = 0

IdleSleep ==
  /\ Blocked /\ power = "run" /\ ~Interrupted
  /\ lock' = lock + 1
  /\ power' = IF CanDeepSleep(lock') THEN "deep" ELSE "sleep"
  /\ UNCHANGED <<ticker, out, main, lit, start, ticks, systick, tick,
                 spent, held>>

(* The mutant forgets to unlock. *)
IdleUnlockMissing == lock
IdleUnlock == lock - 1

IdleWake ==
  /\ power = "sleep" /\ (tick \/ pend)
  /\ power' = "run" /\ lock' = IdleUnlock
  /\ UNCHANGED <<ticker, out, main, lit, start, ticks, systick, tick,
                 spent, held>>

-----------------------------------------------------------------------------
MainStep ==
  \/ Configure \/ SetLed \/ WaitStart \/ LockSleep \/ OsDelay
  \/ UnlockSleep \/ Poll

Code == MainStep \/ IdleSleep \/ IdleWake \/ TickerInterrupt \/ SysTick

Next == Advance \/ Code

(* Time passes, and the core executes. *)
Spec == Init /\ [][Next]_vars /\ WF_vars(Advance) /\ WF_vars(Code)

-----------------------------------------------------------------------------
(* Properties. *)

(* The deep sleep lock counts who holds it: main inside Thread::wait, and  *)
(* the idle hook while the core sleeps.  A lock too many disables deep     *)
(* sleep for ever and overflows in the end, one too few stops the ticker.  *)
SleepLocksBalanced ==
  lock = (IF main \in {"delay", "delayed", "unlock"} THEN 1 ELSE 0)
       + (IF power = "run" THEN 0 ELSE 1)

(* The refinement mapping: the LED is what its pin says once main has      *)
(* written it.                                                             *)
Led == IF held = Unset THEN "boot"
       ELSE IF L!Net.LEDESC1 \in out THEN "on" ELSE "off"
Abstract == INSTANCE Blink WITH Lo <- WaitUs, Hi <- WaitUs + Late,
              led <- Led, held <- IF held = Unset THEN 0 ELSE held

(* The program implements Blink on the pin that carries the LED: every     *)
(* phase lasts at least WaitUs, across wraps of the counter, and at most   *)
(* Late more.                                                              *)
ImplementsBlink == Abstract!Spec

(* The LED goes on and off for ever: in particular the core never enters   *)
(* deep sleep, in which neither timer runs, while main waits for one.      *)
BlinksForEver ==
  /\ []<>(L!Net.LEDESC1 \in out)
  /\ []<>(L!Net.LEDESC1 \notin out)
=============================================================================
