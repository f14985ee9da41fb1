# Verification of the LED-blinking firmware for the MKE18F board

The program is `App/main.cpp`: configure the pins, then switch LED 1 on and off
with a `wait` between. Sixteen lines, but what makes them work is the part of
mbed OS they stand on: the RTX5 kernel that runs `main` and the idle thread,
the microsecond ticker on the LPIT of this board, the sleep manager that
decides whether those timers are still running, and the critical sections that
all of these share with interrupt handlers. This directory holds TLA+ models of
that stack, the TLC configurations that check them, and TLAPS proofs about the
critical sections, the scheduler, the mutexes, the ISR queue, the ticker and the
program as a whole: that the LED goes on and off, each time for as long as it
should, for any wait, tick and width of the counter. Two services of mbed OS that the program carries with it and that are
hard to get right, the event queue and the non-volatile store, are modelled as
well; the store is proved to implement its abstract specification.

Build assumptions, taken from the sources: IAR toolchain, Cortex-M4 (so
`EXCLUSIVE_ACCESS = 1`, `rtx_core_cm.h:54`), kernel tick 1000 Hz,
`OS_ROBIN_TIMEOUT` 5, ISR queue of 16 entries, `DEVICE_SLEEP` and
`DEVICE_LPTICKER` set, `MBED_TICKLESS` not defined.

File names below are relative to `src/mbed-os/` unless they start with `App/`.

## Inventory

| Component | State | Operations | Talks to | What makes it correct |
|---|---|---|---|---|
| Application (`App/main.cpp`) | position of `main` | the loop | pins, `wait` | each LED phase lasts at least the wait and not much more, for ever |
| Pins (`App/Peripherial/Init_Pins.c`, `LNDC01_Pins.h`) | output latches | `Init_pins`, `Set_ESC_LED_state` | GPIO registers | the LED that is commanded is the one that lights |
| Critical sections (`platform/mbed_critical.c`, `hal/mbed_critical_section_api.c`) | nesting counter, saved PRIMASK | enter, exit, in-section query | every driver, every handler | mutual exclusion; PRIMASK restored |
| RTX5 threads (`rtx_thread.c`, `rtx_delay.c`) | control blocks, ready / delay / wait lists, object lists | create, exit, terminate, join, detach, suspend, resume, yield, priorities, delay, delay until | all kernel objects | each thread in the right list once; highest priority runs; deadlines exact; joins answered |
| RTX5 kernel and system (`rtx_kernel.c`, `rtx_system.c`) | kernel state, tick, round robin, ISR queue | start, lock, unlock, tick, PendSV, suspend, resume | SysTick, SVC, PendSV | bounded slices; objects put by handlers processed once; the tick count keeps up with sleep |
| RTX5 semaphores (`rtx_semaphore.c`) | tokens, waiters | new, acquire, release, delete, calls from handlers | threads, ISR queue | tokens conserved; no lost wakeup |
| RTX5 mutexes (`rtx_mutex.c`) | owner, lock count, list of owned mutexes, inherited priorities | new, acquire, release, delete, release at the end of a thread | threads | one holder; the owner's list exact; no priority inversion, none left over |
| RTX5 event and thread flags, memory pools, message queues | flags, blocks, messages, waiters | new, delete, set, clear, wait, alloc, free, put, get, reset, calls from handlers | threads, ISR queue | nothing lost or given twice; no lost wakeup |
| RTX5 timers (`rtx_timer.c`) | timer list, queue of the timer thread | new, start, stop, delete, tick | tick, message queue | every expiry exactly when due |
| Microsecond ticker (`hal/mbed_ticker_api.c`, `targets/TARGET_MKE18F/api/us_ticker.c`) | 64-bit time, last reading, event list, countdown | read, insert, remove, interrupt | LPIT channels 1 and 3, drivers | no lost wrap; events in order and in time |
| `Ticker`, `Timeout` (`drivers/`) | callback, period, timestamp | attach, detach, handler | ticker queue, sleep lock | sleep locked exactly while attached |
| Sleep manager, idle thread (`hal/mbed_sleep_manager.c`, `rtos/TARGET_CORTEX/mbed_rtx_idle.cpp`) | deep sleep lock | lock, unlock, sleep | `wait`, drivers, idle hook | lock balanced; no deep sleep while a stopped timer is waited for |
| `wait` (`platform/mbed_wait_api_rtos.cpp`) | start time | `wait_us` | ticker, `Thread::wait` | correct across the 32-bit wrap |
| Event queue (`events/equeue/equeue.c`) | slots of events by target time, free events, tick, generation | call, cancel, break, dispatch | kernel tick, event flags, critical sections | an event is in one place; order kept; the loop is no later for an event than it was held up itself |
| NVStore (`features/nvstore/source/nvstore.cpp`) | two flash areas, index in RAM | get, set, set_once, remove, garbage collection, init | internal flash, mutex | a call takes effect wholly or not at all, whenever power fails |
| `UARTSerial`, `ConditionVariable`, low power ticker, `SysTimer`, gpio interrupts, heap | — | — | — | planned |
| Networking, TLS, file systems, NXP drivers, boot | — | — | — | not modelled: vendored code the program does not call, register access, straight-line start-up |

What is hard in this code is listed, at its line, under `hazards` in
`PROJECT.json`. Five themes recur. **Masking windows**: RTX5 handlers (SVC,
PendSV, SysTick) do not preempt one another but peripheral handlers preempt
them, and in several places a count and the data it stands for change in
separate accesses; the event queue changes events outside of its lock.
**Counters that wrap**: the 32-bit ticker, `wait_us`, the LPIT countdown, the
kernel tick. **State in two places**: a thread's state and the list it is
linked in, `thread_join` and the joining thread, a mutex's owner and the
owner's list, the deep sleep lock and whoever holds it. **Relative times**:
delays and timers hold the difference to their predecessor, and tickless sleep
has to be made up for in them. **Power loss**: NVStore's flash may be cut off
in the middle of any write or erase, its repair included.

## Modules

| Module | Models | Uses |
|---|---|---|
| `CriticalSection` | entering and leaving sections, nested, by threads and preempting interrupt levels | |
| `RtxCore` | list, delay-list and dispatching helpers of `rtx_thread.c` as operators on a kernel value `k` | |
| `RtxThread` | the service calls on threads, start, lock, unlock, tick, round robin | `RtxCore` |
| `RtxKernel` | a started kernel and the tick that ends waits, for the modules of kernel objects | `RtxCore` |
| `RtxMutex` | mutexes, with priority inheritance and robust release | `RtxKernel` |
| `RtxPost` | service calls that handlers may interrupt, ISR queue as a sequence, PendSV | `RtxKernel` |
| `RtxSemaphore`, `RtxFlags`, `RtxMemoryPool`, `RtxMessageQueue` | the kernel objects that handlers may use | `RtxPost`; message queues use a memory pool |
| `RtxObjects` | these objects in one kernel, with their common properties | the four above |
| `RtxTime` | timers, delays, `osDelayUntil`, tick count, suspend and resume | |
| `IsrQueue` | `isr_queue_put` and `isr_queue_get`, one step per memory access | |
| `TickerQueue` | ticker queue, LPIT port, `Ticker` and `Timeout` | |
| `EscLeds` | pin table, `Init_pins`, `Set_ESC_LED_state` | |
| `Blinky` | the whole program: `main`, `wait_us`, idle thread, SysTick, LPIT | `TickerQueue`, `EscLeds` |
| `Blink` | abstract: the LED is on and off in turn, each for `Lo` to `Hi` microseconds | |
| `EQueue` | the event queue, pointer by pointer: posting, cancelling, dispatching | |
| `NVStore` | records in two flash areas, garbage collection, recovery | |
| `KeyStore` | abstract: items that change one call at a time, with an answer for each call; success only together with the effect | |
| `CriticalSectionProofs`, `RtxThreadProofs`, `IsrQueueProofs`, `TickerQueueProofs`, `NVStoreProofs` | theorems about the module named | that module |
| `RtxMutexProofs` | theorems about `RtxMutex` | `RtxMutex`, `RtxCoreProofs` |
| `RtxCoreProofs` | lemmas about the operators of `RtxCore` | `RtxCore` |
| `BlinkyProofs` | theorems about the whole program | `Blinky`, an instance of `TickerQueueProofs` |
| `MC*` | instances for TLC | |

The correspondence of every definition to source lines is the `map` of
`PROJECT.json`. How state corresponds:

* **CriticalSection.** `irq` is PRIMASK, `counter`
  `critical_section_reentrancy_counter`, `stateSaved` and `savedIrq` the two
  statics of `mbed_critical_section_api.c`. `irqState[c]` is the local of
  `hal_critical_section_enter`. Entering is two steps, because PRIMASK is read
  before interrupts are disabled and anything may run between. `raw` are
  contexts that masked interrupts themselves, as RTX does around its own
  `__disable_irq`. `depth` is history: the sections a context has open.
* **RtxCore / RtxThread.** `k` is `osRtxInfo.thread` with the fields of the
  control blocks. A doubly linked list is a sequence; being linked
  (`thread_prev != NULL`) is being in it. The delay list keeps relative delays
  as the code does. A service call is one step, since no other handler that
  touches these lists can preempt an SVC; the tick is `TickBegin`, one
  `TickWake` per expired thread, `TickEnd`. `robin` is
  `osRtxInfo.thread.robin`, `join` is `thread_join`, `joinable` the attribute.
  `due`, `unlocked` and `ran` are history.
* **RtxMutex.** A mutex keeps `lock`, `owner`, `owner_prev` and `owner_next`
  as the pointers they are and `mlist` is `mutex_list`, because the code does
  not keep that list consistent. `held` and `asked` are history: how often a
  thread was told that it has a mutex, and the priority last asked for it. Two
  loops are followed round by round: over the mutexes of a thread that ends
  (`Terminate`, one `OwnerRelease` per mutex, `TerminateEnd`) and over the
  threads that wait for a mutex that is deleted (`DeleteLocked`, one
  `DeleteUnblock` per thread, `DeleteEnd`); `at` is the mutex such a loop is at,
  and `handler` keeps everything else out meanwhile. A *program* says which threads
  take part and which *rules* they keep to (`"stacked"`, `"unnested"`,
  `"settled"`, `"lasting"`, explained in the module); outside of them the code is wrong, see *Findings*.
* **RtxPost and the objects on it.** `handler` says which handler executes and
  how far it is: a service call and PendSV are split wherever they access a
  word that a peripheral handler may change (`tokens`, the words of `flags`,
  `used` and `free` of a pool, `count` of a queue). `isrq` is the ISR queue,
  `pending` what a call is about to wait for. `balance`, `ledger`, `holder` and
  `balances` are history: what the callers were told. A *use* says which
  objects a behaviour has, what handlers do to them and which timeouts occur;
  it is chosen in the initial state and fixed.
* **RtxTime.** `list` and `delayed` hold relative times as the code does, `now`
  is real time, `due` history. Between `Suspend` and `Resume` time passes
  without ticks, at most `Oversleep` beyond what `osKernelSuspend` returned.
  Who runs is left to `RtxThread`. An overflow of the timer thread's queue
  halts, as `osRtxErrorNotify` does.
* **IsrQueue.** `cnt`, `in`, `out`, `data` are `osRtxInfo.isr_queue`. The
  exclusive-access loops of `rtx_core_cm.h` are one step each; the accesses
  between them are separate. `owed[o]`, history, is how often `o` was accepted
  and not yet processed.
* **TickerQueue.** Times are relative to the present, so runs of any length
  have finitely many states: `lag` is real time less `present_time`, `due[e]`
  is the timestamp less real time. `todo` lists the pieces of the open critical
  section, cut at every read of the counter; time may pass before each piece,
  up to `MaxMasked` in all. `left` is the LPIT countdown.
* **Blinky.** `main` is a program counter over `main`, `wait_us` and
  `Thread::wait`. With two threads the scheduler comes down to: `osDelay`
  gives the core to the idle thread and the tick that ends the delay gives it
  back.
* **EQueue.** `links` are the pointers `next`, `sibling` and `ref` of every
  event, `next[Null]` is `q->queue`; a `ref` is the cell that points to the
  event. They are not abstracted to sequences, because `equeue_enqueue` leaves
  the `next` of the former head of a slot as it was and `equeue_unqueue` follows
  it. `chunks` are the free events, `disp` the state of `equeue_dispatch`,
  `post[a]` that of an `equeue_post`. A part under `queuelock` or `memlock` is
  one step, since both are critical sections; what is done outside is another:
  reading the tick (`ReadTick`), finding the deadline (`FindDeadline`) and
  starting the relative wait (`Sleep`) are three. `disp.at` is the time at
  which the tick was read, `disp.late`, history, how long after it the wait
  began, `order`, history, the queued events as they were inserted. A *use*
  says what is posted, as in `RtxObjects`.
* **NVStore.** `flash[a]` is an area: cell 0 the master record, then records in
  the order they were written; a cell whose CRC is wrong is `Bad`. `ram` is the
  index with the active area and the free offset. A flash operation is one
  step, with `PowerLoss` and `FlashFails` leaving what it may have left half
  done. `items` is auxiliary, what a restart would find now, and `reply`,
  history, how the last call ended: `"success"` and `"error"` as the call
  returned, `"lost"` if a loss of power cut it off. With the mapping
  `request <- job.call` they are the state of `KeyStore`, where success can be
  answered only in a state that the call's effect has reached. `Rules` are what
  callers keep to, see *Findings*.

## Runs

| Run | Instance | Shows |
|---|---|---|
| `critical_section` | 2 threads, 2 interrupt levels, nesting 2 | Mutual exclusion; PRIMASK restored; the shared counter counts only the executing context's sections |
| `rtx_thread` | 2 threads and idle, 2 priorities, delays to 2, slice 2, all calls | Threads are where their states say; the highest priority runs; joins answered |
| `rtx_robin` | 3 threads and idle, delays to 2, slice 3; delay, resume, yield, priorities | The relative delay list keeps every deadline, nobody wakes early; slice bounded; equals take turns |
| `rtx_mutex` | 2 recursive, inheriting, robust mutexes; 2 threads that nest, or 3 that do not; 2 priorities | Ownership lists exact; one holder; inheritance right; waiters served |
| `rtx_objects` | 2 threads and idle, 2 tokens, 2 flags, 2 blocks, 2 messages, 2 queue entries, timeouts 0, 1 and forever, in six uses | Nothing lost or given twice; no lost wakeup; waiter lists consistent through timeout and deletion |
| `isr_queue` | 2 nested levels, 3 slots, one slot spare | Every accepted object processed exactly once |
| `rtx_time` | a one-shot and a periodic timer, 2 threads, times 1 and 2, `osDelayUntil` 3 and 14 ahead, tick count modulo 16 | Timers and delays go off exactly when due, neither early nor late, across sleep and wrap; the tick count keeps up |
| `ticker_queue` | one `Ticker`, one `Timeout`, 4-bit counter, delays 0, 3, 12, up to 2 ticks masked | No lost wrap; the first event armed; lateness bounded; sleep lock matches |
| `blinky` | 6-bit counter, tick 4, wait 9, each step of `main` up to 1, masked up to 1 | Implements `Blink`; sleep lock balanced; blinks for ever |
| `equeue` | one handler and the callbacks, 2 rounds of dispatch, period 1, tick modulo 16 from 14, in three uses: 2 events used again, delays 0 and 1; 2 events with calls of `equeue_break`; 3 events, delays 1 and 2 | An event is in one place; insertion order; no sleep past an event beyond what the loop was held up itself |
| `nvstore` | 3 keys, 2 values, 2 records per area, 2 threads, 2 versions | Implements `KeyStore` through power loss and failing flash, success only with the effect; index and flash agree; only blank flash is programmed; `set_once` holds |
| `nvstore_remove` | as `nvstore`, removing allowed when the area is full | violation: finding 1 |

Deadlock is checked in every run except `equeue` and `rtx_time`, whose clock
stops at a bound (`MaxTime`).

**Why the bounds are enough.** Two user threads with two priorities already
give equal and different priorities, preemption, mutual suspension and joining;
a third is needed where a *successor* in a list matters (`rtx_robin`: a middle
element of the delay list removed, two equals behind the running thread;
`rtx_mutex`: two waiters and an owner). Two ISR queue entries overflow with
handlers that use an object twice in one service call. Three ISR slots wrap within one
PendSV and overflow with two nested handlers. The 4-bit ticker wraps during an
attach of 12, and its `max_delta` of 7 makes the interrupt come for an event
that is not due and re-arm. In `blinky`, wait 9 with tick 4 has two ticks of
delay and a rest to poll, and the counter wraps at every point of a phase;
`Late = 7` is the least that `LateEnough` allows, and with 6 the run would find
a phase that is longer. In `rtx_time` four entries make lists with a
middle, the count wraps at the third tick, and `osDelayUntil` of 3 goes off
behind the wrap; one of 14 does not go off within `MaxTime`, for it only the
entry in the list is compared. In `equeue` the tick wraps at `MaxTime`. Three events are the least for a slot
with a sibling in front of a later slot, where a pointer is left stale
(finding 11), and for an event in flight beside two that are queued; two events
with ids to 2 are enough for an old id to meet a reused event. A third round of
dispatch would differ only in the generation. In `nvstore` an area of
two records is full after two calls, three keys do not fit (a collection that
fails), and two versions allow a collection interrupted by a power loss,
repaired in a restart that is interrupted itself. All counters are bounded
in the guards of the actions, by the constants named above; `held` in `Blinky`
saturates just above what `Blink` allows, so that a phase too long is still
seen.

**Fairness.** `RtxThread!FairSpec` assumes weak fairness of the tick: SysTick
is a hardware timer and nothing in the model masks it. `Blinky!Spec` assumes
weak fairness of the passing of time and of the code (the core goes on
executing what is not waiting). Nothing else is fair; in particular no thread
is assumed to make any service call.

**Mutants.** Each property of a passing run names, in `PROJECT.json`, a
definition of the model and a plausible wrong version of it (a dropped guard, a
list not corrected, a reset forgotten, a comparison of end times instead of
differences) that violates the property under the same configuration.

## Findings

One is a run of the project:

1. **A remove can leave the item in place** (`nvstore.cpp:531`). When the area
   is full, `remove` calls `garbage_collection` with the delete flag, which
   does nothing but skip writing the item first: the loop copies the old record
   as a live one, `remove` returns success, and the item is still there. The
   header says "Remove an item from flash." (`nvstore.h:212`). Run
   `nvstore_remove`. It violates `ImplementsStore` and `SetOnceKept` as well.
   `set_once` on a full area is written by the same function
   with flags 0 (`:532`), so that after a restart it can be set again. Run
   `nvstore` assumes that on a full area only `set` is called
   (`"plain at the limit"`). Callers cannot keep to that by themselves: nothing
   tells them that the area is full. What is shown under the rule holds for a
   program that uses `set` alone, or never fills an area.

The others are conditions under which the passing runs, and the proofs, hold.
Where it says so, a configuration kept beside the runs shows what happens
without the condition (`tlc -config <file> <module>`).

2. **`thread_join` outlives the wait** (`rtx_thread.c:1230`). A joining thread
   that is terminated, suspended or resumed by another thread, or followed by a
   second joiner, stays in or drops out of `thread_join` unnoticed. When the
   joined thread ends, `osRtxThreadWaitExit` is called on a thread that is not
   waiting to join. Condition `JoinDiscipline`; `RtxJoinDangling.cfg`
   (`MCRtxThread`).
3. **A full ISR queue can lose an accepted object** (`rtx_system.c:105`).
   `isr_queue_get` decrements `cnt` before it reads `data[out]`; with the queue
   full a handler in between may reuse that slot: one accepted object is never
   processed, another twice. Condition `OneSpare`; `IsrQueueFull.cfg`
   (`IsrQueue`).
4. **Mutexes released in the order they were acquired** (`rtx_mutex.c:346`). A
   handover makes the mutex the head of the new owner's list and does not set
   `owner_prev` of the old head. Releasing the old head first then drops the
   mutex in front of it from the list; later a robust release takes a mutex
   from a thread that holds it, or a loop over the list does not end. Condition
   `"stacked"`; `RtxMutexOrder.cfg` (`MCRtxMutex`).
5. **Priority inheritance is not transitive** (`rtx_mutex.c:239`): the owner is
   raised, not the thread the owner waits for (condition `"unnested"`). And
   `osThreadSetPriority` compares with the priority the thread has, which may
   be inherited (`rtx_thread.c:973`): asking for the value it has by
   inheritance is ignored (condition `"settled"`).
6. **A memory pool can leak a block** (`rtx_mempool.c:157`). A free lowers the
   count before it links the block; an allocation in between raises the count
   and finds the list empty, and nothing lowers the count again. Condition: no
   handler allocates from a pool whose list is empty (use without `"tight"`);
   `RtxObjectsTight.cfg` (`MCRtxObjects`).
7. **Threads waiting to put and to get share a list** (`rtx_msgqueue.c:534`)
   of which only the first is looked at. When a handler gets a message while a
   thread is about to wait for one, a thread that waits to put can be stuck
   behind one that waits to get. Condition: handlers that get and threads that
   wait to get do not meet; `RtxObjectsMixed.cfg` (`MCRtxObjects`).
8. **Ticks lost after a long sleep** (`rtx_kernel.c:425`). The loop that makes
   up for slept ticks counts only while a thread is delayed: after a sleep
   longer than asked for by two ticks or more, the tick count falls behind.
   Condition `Oversleep <= 1`; `RtxTimeOversleep.cfg` (`MCRtxTime`).
9. **A restarted periodic timer keeps its old period** (`rtx_timer.c:273`):
   `load` is set only when the timer was stopped. Condition `SameTicks`;
   `RtxTimeRestart.cfg` (`MCRtxTime`).
10. **Cancelling a periodic event while it is queued again**
    (`equeue.c:416`). The event gets its new target before the lock is taken, so
    a cancel from a handler takes it for queued, unlinks it through stale
    pointers and frees it; then it is queued. `equeue.h:183` says that cancel
    "is irq safe". Condition `CancelApart`; `EQueueCancel.cfg` (`MCEQueue`).
11. **Cancelling the older of two events of one slot** (`equeue.c:226`). A new
    event becomes the head of its slot and the former head keeps its `next`,
    which leads to the slot behind. `equeue_unqueue` (`:281`, `:288`) goes by
    that `next`, and puts the head of the later slot among the siblings of the
    earlier one as well: it is dispatched too early, and freed while it is
    still in the queue. Posting one event and then two for the same earlier
    tick is enough, and cancelling the first of the two, all in one thread;
    `equeue.h:183` makes no such exception. Condition `SiblingsApart`;
    `EQueueSibling.cfg` (`MCEQueue`).
12. **The dispatch loop waits a relative time** (`equeue.c:424` to `:456`). The
    tick is read, the deadline is computed from it, and then a wait of that
    length begins. A handler or thread that runs in between makes the loop late
    for its next event by as long as it ran. Part of what `NoOversleep` says:
    late by that much, and by no more.
13. **NVStore after an error** (`nvstore.cpp:681`). A record whose write failed
    stays in the area; what is written behind it is not found by a restart. A
    collection that fails half way leaves entries for both areas. Condition
    `"heed errors"`: after an error nobody goes on before a restart. For one
    error callers cannot: `init` does not report that its own collection failed
    (`:924`, `:938`). The checks made before the mutex is taken (`:668`) are
    sound if no other call for the key runs beside `set_once`, condition
    `"set_once apart"`. When the 16-bit version wraps to 0 in area 1, a restart
    prefers the older area 0 (`:904`); out of the run's bound, and excluded in
    the proofs by `VersionsDoNotWrap`.
14. **LED 4 is on another pin** (`Init_Pins.c:55`). `ESC4_LED_PIN` is 3, the
    net `OK1`; the pin table gives `LEDESC4` to PTE13 (`LNDC01_Pins.h:102`).
    `EscLeds4.cfg` (`EscLeds`).

## Proofs

All theorems are for arbitrary sets of threads, priorities, interrupt levels,
events, keys and values and for any sizes, delays and times. They assume the
named `ASSUME`s of the modules, which TLC evaluates in every run, and where
stated a condition from *Findings*. Most assumptions only say that sizes are
numbers and that `NULL` is no thread. Four limit the system, and `LateEnough`
says what `Blinky` promises:

| Assumption | Why the code justifies it |
|---|---|
| `MaskedIsShort` (`TickerQueue`; `TickerFits` in `Blinky`) | the longest time with interrupts masked, four times over, fits between `max_delta` and the range of the counter. On the board `max_delta` is 31 minutes and the range 71, so that masking for up to ten minutes would do |
| `WaitFits` (`Blinky`) | a phase is shorter than the `max_delta` between two LPIT interrupts of a ticker without events (0.1 s and 31 minutes), so that at most one falls into it, and `wait_us`, which subtracts modulo the width of the counter, measures it |
| `TicksKept` (`Blinky`) | an LPIT interrupt and its handler, each behind at most one masked time, are over before the next tick: interrupts are masked for less than half of the 1 ms of a tick |
| `LateEnough` (`Blinky`) | limits no system: it is the lateness that the theorem gives for `MaxStep` and `MaxMasked`, six steps of `main` and one LPIT interrupt (three steps, for a wait that ends by polling). The instance shows that it cannot be smaller |
| `VersionsDoNotWrap` (`NVStore`) | the versions of the areas stay below 2^16. A collection adds one and erases one sector, so each sector is erased 32768 times before it fails |

Conditions are hypotheses of the theorems: `JoinDiscipline` for the scheduler,
`Disciplined` for mutexes, `OneSpare` for the ISR queue, `Careful` for NVStore
(the rules `"heed errors"` and `"plain at the limit"`), and for
`SetOnceKeptHolds` also `"set_once apart"`. The configurations of findings 1 to
4 show that the first four cannot be dropped. None of them is enforced by the
code; the theorems say what the code does for callers that keep to them. All inductive invariants were checked by TLC on the instances of the
runs before they were proved.

**Critical sections** (`CriticalSectionProofs`). `IInv` joins `TypeOK`,
`MutualExclusion`, `MaskMatchesSections`, `CounterIsOwn` and `SavedStateOK`.
`SavedStateOK` is the strengthening: a PRIMASK value that was read but not
stored yet, or stored while a section is open, says whether its *own* context
had masked interrupts, although handlers may have run whole sections since it
was read. Without it exiting could not be shown to restore the caller's state.
From `IInv` follow `MutualExclusionHolds`, `MaskMatchesSectionsHolds` and
`CounterIsOwnHolds`.

**Scheduler** (`RtxCoreProofs`, `RtxThreadProofs`). `RtxCoreProofs` has a lemma
for each helper: what `ListPut`, `ListRemove`, `ListSort`, `DelayInsert`,
`DelayRemove`, `Block`, `Switch`, `Dispatch`, `WaitEnter` and `WaitExit` keep
and change. They speak of `Placed(q, X)`, every thread except those in `X` is
exactly where its state says, so that the moments inside a service call when a
thread is unlinked but not yet linked again are described too. The inductive
invariant adds to `TypeOK` and `KernelOK` (every thread placed, exactly the
current one running):

* `JoinOK`: a thread waiting to join is in the wait list without timeout, and
  registered with exactly one live thread; needed because ending a thread wakes
  the registered one;
* `HeadPositive`: outside the tick the first relative delay is positive;
  without it the decrement in the tick could pass below zero and never be found
  expired;
* `TopRuns`: outside the tick, with the scheduler running and not just
  unlocked, no ready thread has a higher priority than the running one.

There is one lemma per service call and per step of the tick
(`ThreadNewStep`, ..., `TickEndStep`); `NextIInv` puts them together. The
theorems are `TypeOKHolds`, `PlacesOKHolds`, `ReadySortedHolds`,
`HighestPriorityRunsHolds`, `JoinPointsToWaiterHolds` and
`JoinEndsWithThreadHolds`. For the last each lemma also shows `JoinsLast`: the
step leaves a joining thread waiting exactly if the thread it joined is still
there. Second joins and disturbed joiners are excluded by `JoinDiscipline`
(finding 2). On top of `IInv` stand two more invariants:

* `SliceInv`: the ticks a thread has run beside a ready equal and the ticks
  `robin` has left for it add up to at most the slice and one, the tick at
  which the slice began; a slice that is used up and was not taken away means
  that no equal was ready. It gives `SliceBoundedHolds`.
* `ExactInv`: the delay of each thread in the delay list is its deadline less
  that of its predecessor. `DelaysExact` speaks of sums over the list; the
  differences are local, so that an insertion, a removal or a tick concerns one
  thread and its successor (`InsertedExact`, `RemoveExact`, `CountedExact`,
  `TailExact`). `DueIs` goes back to the sums. It gives `DelaysExactHolds` and
  `WakesOnTimeHolds`.

Facts about sums (`DueFacts`, `DueIs`, `AllDue`) are proved by a least
counterexample, with the well-foundedness of the naturals, since the theorems
on induction cannot be instantiated by the provers installed.

**Mutexes** (`RtxMutexProofs`). The lemmas of `RtxCoreProofs` say what each
service call does to the kernel value; here it is followed what it does to the
waiters of every mutex, to the priorities and to the lists of owned mutexes.
The invariant is in three parts, each proved to be kept with the help of the
ones before it.

* `Inv1`, without any condition: types (`TypeInv`), `KInv`, the `KernelOK` of
  the scheduler with the thread that ends exempt while its mutexes are released,
  and `Served`: a mutex that somebody waits for is locked, or it is the one
  whose deletion is under way. It gives `WaitersServedHolds` and
  `HighestPriorityRunsHolds`.
* `Inv2`. The code's list is a chain of pointers that it does not keep
  consistent: a handover leaves `owner_prev` of the old head `NULL` (finding
  4). `Chain(m, h, S, loose)` says that from `h` the pointers `owner_next` visit
  each mutex of `S` once and end, and that `owner_prev` leads back, or, if the
  list is *loose*, is `NULL`. Under `"stacked"` lists are loose and only the
  head is ever taken out, for which `owner_prev` must be `NULL`, as it is;
  under `"unnested"` a waiting thread owns nothing (`WaitersOwnNone`), so a
  handover starts a list and lists are exact. Of the thread that ends, only the
  rest of the list is still a `Path`. `HeldInv` says that who was told that it
  has a mutex owns it. `PathVisited` turns a chain into what the loops of the
  code visit, and shows that these loops end. It gives `OwnedListExactHolds`
  and `HeldIsOwnedHolds`.
* `Inv3`: what was asked for is the base priority where priorities are settled
  (`AskedInv`); a thread that owns nothing has its base priority (`PrioInv`);
  owners are no lower than their waiters (`OwnersHigh`). A release needs that
  the priority left is the highest among the waiters of what is still owned,
  for which the waiters have to be sorted and the list complete, `Inv1` and
  `Inv2`. It gives `InheritanceOKHolds`.

`Disciplined` says that every mutex is robust and that every program keeps to
`"stacked"` or to `"unnested"`; `InheritanceOKHolds` assumes in addition that
every mutex inherits. Both attributes are those of the C++ class
(`rtos/Mutex.cpp:48` sets `osMutexRecursive | osMutexPrioInherit |
osMutexRobust`). Without robustness the code leaves the mutexes of an ended
thread locked by a control block that is freed and used again.

**ISR queue** (`IsrQueueProofs`). `RingInv` says that `in` is as many slots
ahead of `out` as are counted, reserved or being fetched; `SlotInv` that
reserved slots are in that part of the ring and no two handlers have the same;
`QueueInv` that the slots written hold each object as often as it is owed, and
that nothing is written when PendSV neither runs nor is pending. The slot
PendSV reads lies just behind `out`, outside of the ring once `cnt` is
decremented: `OneSpare` is what keeps handlers off it. Theorems:
`EveryObjectQueuedHolds`, `ProcessedOnceHolds`.

**Ticker** (`TickerQueueProofs`). A critical section is a list of tasks
(`todo`), so the invariant first says which lists occur (`Shape`): tasks of
rising rank, a removal always followed by the task of the same event. `ListInv`
keeps the queue in order and without an event twice while one is being moved,
`LockInv` says who holds the deep sleep lock, and `BoundInv` bounds the time
since `present_time` was updated and the lateness of the first event at every
point of a section: waiting, setting the match, starting the countdown,
checking again, working through the handlers. That the difference of two
readings modulo the width is the real difference follows from the first bound,
and the first bound from an interrupt being on its way; neither is inductive
alone. Theorems: `TimeKeptHolds`, `HeadArmedHolds`, `InTimeHolds`,
`LockedWhileQueuedHolds`.

**Whole program** (`BlinkyProofs`). The invariant of the ticker is reused for an
instance of it without events, with 0 for the lock, which here belongs to
`main` and the idle thread; each step of the program is a step of that instance
or leaves it alone. `SleepInv` adds who holds the lock, `LedInv` that the time
`wait_us` computes is never more than the LED has been held, unless that is
long enough already. Theorems: `SleepLocksBalancedHolds`; `NeverDeepHolds`, the
program never enters deep sleep; `NoShortPhaseHolds`, the refinement of `Blink`
without the upper bound of a phase, which needs neither `TicksKept` nor
`LateEnough`.

For the upper bound `BoundIInv` adds an account of the time a phase still
takes. `QuietInv`: a ticker without events only ever sets up its interrupt
anew, for `max_delta` less the time that takes. `Serving` is the time the LPIT
interrupt may still take, counted from the start if it is due before the bound.
`TickInv`: a pending tick waits for nothing but that, and so is served before
the next one; otherwise the delay would lose a tick. `PhaseInv`: the time the
LED has been held, the steps and the delay left and `Serving` are together
within the bound (`DelayInTime`), and the same for the polling, whose end is
measured from `start` (`PollInTime`). Each microsecond takes one from what is
left. `ImplementsBlinkHolds`: the program implements `Blink`, every phase at
least `WaitUs` and at most `Late` longer.

**NVStore** (`NVStoreProofs`). The invariant follows a call and the collection
it may cause. `Steady`: RAM is what a restart would make of the flash, and the
other area is blank. `Gathered`: the new area has no master record yet, so a
restart would not choose it; each of its records is the one that the index
entry of its key points to; through the index every key has the item it must
have in the end. `Collected`: the new area has its master record, is chosen,
and holds the result of the call, and the old one is to be erased. Every step,
and what a loss of power or a failing operation may leave of one, is shown to
keep the invariant and to be a step of `KeyStore` or none (`StoreStep`); items
change in two steps only, writing a record and writing a master record.
`Unanswered` says that before its effect a call has not been answered, so that
success is answered only behind the effect (`SuccessStep`).
`OnceInv` says that checks made before the mutex is taken still hold when the
call takes effect; `SetOnceKeptHolds` needs all three rules, as a `set_once` on
a full area loses its flag (finding 1). Theorems: `IndexMatchesFlashHolds`, `BlankBeforeWriteHolds`,
`ImplementsStoreHolds`, `SetOnceKeptHolds`.

**Only model-checked.** Liveness (`EqualsTakeTurns`, `BlinksForEver`), which is
outside the prover. `RtxObjects`, where a deletion wakes its waiters by a fold
over a list, and `EQueue`, which follows chains of pointers with a `RECURSIVE`
operator and flattens and reverses them: what these compute for every list
needs induction over data. `RtxTime`, whose lists of relative times are worked
off in one step by a fold.

## Abstractions

* Errors that only return a status and change nothing (bad parameter, call from
  a handler, wrong state) are the negation of an action's guard.
* Stack and control block allocation always succeeds; a control block is
  reused once its thread is inactive.
* `RtxThread` has no mutexes, so `Terminate` and `Exit` release none
  (`RtxMutex` has its own); the modules of kernel objects have no scheduler
  lock, no round robin and, but for `RtxMutex`, no priority changes, which
  `RtxThread` covers.
* A message is its priority; a flag word has as many flags as the instance.
* The events of the event queue and the records of NVStore are of one size
  each. `equeue` is compiled with the RTOS, so `equeue_tick` is the kernel
  tick and its semaphore an event flag.
* Flash programs only blank cells; anything else leaves a wrong CRC. A torn
  erase may leave each cell as it was, blank or wrong.
* The ticker is initialised before it is used; the first use is done by `main`
  alone in this program. Its frequency is 1 MHz, as in `us_ticker.c`, so that
  ticks are microseconds. A `Ticker` with period 0 is left out: its handler
  never ends, in the code as well.
* No interrupt is masked for longer than `MaxMasked`.
* Trace, statistics and the event recorder are not compiled in.

## Not modelled, and the plan

Vendored code the program does not call (network stacks, TLS, cellular,
LoRaWAN, file systems), NXP drivers, CMSIS headers, boot and C library glue are
left out: they are most of the repository's lines and hold nothing that this
program's behaviour depends on. In the components modelled partly: the
background timer, chaining, `equeue_destroy` and `equeue_timeleft` of the event
queue; key allocation, owners and `reset` of NVStore (its own comment calls
`reset` "totally not thread safe"); the `core_util_atomic_*` operations; the
conversions of the ticker for other frequencies.

Next modules: the first-fit heap of `rtx_memory.c`, with allocation failures in
`svcRtxThreadNew`; `ConditionVariable` on `RtxMutex`; `UARTSerial`; the
unprotected first use of the ticker; the low power ticker wrapper and
`SysTimer`.

Next proofs: `NoLostWakeup` for semaphores from the lemmas of `RtxCoreProofs`; `OnTime` of `RtxTime` from the
lemmas about relative delays. They need the loops of `RtxObjects` and
`RtxTime` round by round, as those of `RtxMutex` are now.
