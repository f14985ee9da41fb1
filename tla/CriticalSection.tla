-------------------------- MODULE CriticalSection --------------------------
(***************************************************************************)
(* Nested critical sections of mbed (platform/mbed_critical.c on top of    *)
(* hal/mbed_critical_section_api.c) on one Cortex-M core.  The contexts    *)
(* are threads and interrupt handlers; exactly one context executes at a   *)
(* time, a handler may preempt whatever has a lower level while PRIMASK is *)
(* clear, and PendSV may switch threads under the same condition.          *)
(*                                                                         *)
(* Enter is two steps because PRIMASK is read before interrupts are        *)
(* disabled: a handler may run a whole critical section of its own, and    *)
(* other threads may run, between the two.  Everything after              *)
(* __disable_irq() runs masked and is one step.                            *)
(***************************************************************************)
EXTENDS Integers

CONSTANTS
  Threads,    \* thread contexts
  Isrs,       \* interrupt handlers, named by their preemption level
  MaxNest     \* bound on the nesting depth one context builds up

ASSUME IsrLevels == Isrs \subseteq Nat \ {0}
ASSUME ThreadsNotIsrs == Threads \cap Isrs = {}
ASSUME SomeThread == Threads # {}
ASSUME NestBound == MaxNest \in Nat

Contexts == Threads \cup Isrs

VARIABLES
  exec,       \* the context the core executes
  under,      \* under[i]: the context that handler i preempted
  irq,        \* "on", or "off" while PRIMASK is set
  counter,    \* critical_section_reentrancy_counter
  stateSaved, \* state_saved, a C bool
  savedIrq,   \* critical_interrupts_enabled, as a value of irq
  pc,         \* "run", or "enter" between the PRIMASK read and the disable
  irqState,   \* irqState[c]: the local interrupt_state of hal_critical_section_enter
  depth,      \* depth[c]: critical sections c has entered and not left
  raw         \* the contexts that called __disable_irq() themselves

vars == <<exec, under, irq, counter, stateSaved, savedIrq, pc, irqState,
          depth, raw>>
halVars == <<counter, stateSaved, savedIrq>>

Level(c) == IF c \in Isrs THEN c ELSE 0

Init ==
  /\ exec \in Threads
  /\ under = [i \in Isrs |-> exec]
  /\ irq = "on"
  /\ counter = 0
  /\ stateSaved = 0
  /\ savedIrq = "off"
  /\ pc = [c \in Contexts |-> "run"]
  /\ irqState = [c \in Contexts |-> "off"]
  /\ depth = [c \in Contexts |-> 0]
  /\ raw = {}

-----------------------------------------------------------------------------
(* The hardware and the scheduler. *)

(* Exception entry: handler i preempts a context of a lower level. *)
IsrEntry(i) ==
  /\ irq = "on"
  /\ i > Level(exec)
  /\ exec' = i
  /\ under' = [under EXCEPT ![i] = exec]
  /\ UNCHANGED <<irq, halVars, pc, irqState, depth, raw>>

(* Exception return.  A handler leaves with its sections closed and with   *)
(* PRIMASK as it found it: it has nothing else to clear it with.           *)
IsrReturn ==
  /\ exec \in Isrs
  /\ pc[exec] = "run" /\ depth[exec] = 0 /\ exec \notin raw
  /\ exec' = under[exec]
  /\ UNCHANGED <<under, irq, halVars, pc, irqState, depth, raw>>

(* PendSV/SysTick switches to another thread.  Both are masked by PRIMASK, *)
(* and an SVC issued with PRIMASK set is a fault, so a thread that masked  *)
(* interrupts keeps the core.                                              *)
ThreadSwitch(t) ==
  /\ irq = "on"
  /\ exec \in Threads
  /\ exec' = t
  /\ UNCHANGED <<under, irq, halVars, pc, irqState, depth, raw>>

(* Code that masks interrupts without the API, in the pattern RTX uses     *)
(* where it has no exclusive access: save PRIMASK, disable, restore.       *)
(* Critical sections may be opened and closed in between.                  *)
RawDisable ==
  /\ pc[exec] = "run" /\ depth[exec] = 0 /\ exec \notin raw
  /\ raw' = raw \cup {exec}
  /\ irq' = "off"
  /\ UNCHANGED <<exec, under, halVars, pc, irqState, depth>>

RawRestore ==
  /\ pc[exec] = "run" /\ depth[exec] = 0 /\ exec \in raw
  /\ raw' = raw \ {exec}
  /\ irq' = "on"
  /\ UNCHANGED <<exec, under, halVars, pc, irqState, depth>>

-----------------------------------------------------------------------------
(* The API. *)

(* interrupt_state = are_interrupts_enabled() *)
EnterRead ==
  /\ pc[exec] = "run"
  /\ depth[exec] < MaxNest
  /\ pc' = [pc EXCEPT ![exec] = "enter"]
  /\ irqState' = [irqState EXCEPT ![exec] = irq]
  /\ UNCHANGED <<exec, under, irq, halVars, depth, raw>>

(* __disable_irq() in hal_critical_section_enter; the mutant omits it. *)
DisableIrqMissing == UNCHANGED irq
DisableIrq == irq' = "off"

(* Save the state read before, unless an outer section saved one already;  *)
(* the mutant lets a nested enter overwrite it.                            *)
SaveStateAlways ==
  stateSaved' = 1 /\ savedIrq' = irqState[exec]
SaveState ==
  IF stateSaved = 1
    THEN UNCHANGED <<stateSaved, savedIrq>>
    ELSE stateSaved' = 1 /\ savedIrq' = irqState[exec]

(* The rest of hal_critical_section_enter and of its caller. *)
EnterDisable ==
  /\ pc[exec] = "enter"
  /\ pc' = [pc EXCEPT ![exec] = "run"]
  /\ DisableIrq
  /\ SaveState
  /\ counter' = counter + 1
  /\ depth' = [depth EXCEPT ![exec] = @ + 1]
  /\ UNCHANGED <<exec, under, irqState, raw>>

(* hal_critical_section_exit; the mutant forgets to clear state_saved. *)
HalExitKeepsSaved ==
  /\ irq' = IF savedIrq = "on" THEN "on" ELSE irq
  /\ UNCHANGED <<stateSaved, savedIrq>>
HalExit ==
  /\ stateSaved' = 0
  /\ irq' = IF savedIrq = "on" THEN "on" ELSE irq
  /\ UNCHANGED savedIrq

(* "If critical_section_enter has not previously been called, do nothing". *)
StrayExit == counter = 0

(* core_util_critical_section_exit.  A context that closes more sections   *)
(* than it opened is a caller's error that the code means to tolerate.     *)
Exit ==
  /\ pc[exec] = "run"
  /\ IF StrayExit
       THEN UNCHANGED <<counter, stateSaved, savedIrq, irq>>
       ELSE /\ counter' = counter - 1
            /\ IF counter' = 0
                 THEN HalExit
                 ELSE UNCHANGED <<stateSaved, savedIrq, irq>>
  /\ depth' = [depth EXCEPT ![exec] = IF @ = 0 THEN 0 ELSE @ - 1]
  /\ UNCHANGED <<exec, under, pc, irqState, raw>>

Next ==
  \/ \E i \in Isrs : IsrEntry(i)
  \/ IsrReturn
  \/ \E t \in Threads : ThreadSwitch(t)
  \/ RawDisable
  \/ RawRestore
  \/ EnterRead
  \/ EnterDisable
  \/ Exit

Spec == Init /\ [][Next]_vars

-----------------------------------------------------------------------------
(* Properties. *)

(* Every variable keeps its type. *)
TypeOK ==
  /\ exec \in Contexts
  /\ under \in [Isrs -> Contexts]
  /\ irq \in {"on", "off"}
  /\ counter \in Nat
  /\ stateSaved \in {0, 1}
  /\ savedIrq \in {"on", "off"}
  /\ pc \in [Contexts -> {"run", "enter"}]
  /\ irqState \in [Contexts -> {"on", "off"}]
  /\ depth \in [Contexts -> Nat]
  /\ raw \subseteq Contexts

(* Mutual exclusion: a context inside a critical section is the one that   *)
(* executes.  No handler and no thread runs over a section that another    *)
(* context has open, however the entries were interleaved.                 *)
MutualExclusion ==
  \A c \in Contexts : depth[c] > 0 => exec = c

(* PRIMASK is set exactly while a section is open or the executing context *)
(* masked interrupts itself: interrupts are never left disabled by an      *)
(* exit, and an exit never enables interrupts its caller had disabled      *)
(* ("The interrupt enable state on entry to the first critical section     *)
(* ... will be preserved on exit", mbed_critical.h:66).                    *)
MaskMatchesSections ==
  irq = "off" <=> (counter > 0 \/ exec \in raw)

(* The shared counter counts the sections of the executing context alone,  *)
(* so an exit closes a section of its own caller and an unmatched exit     *)
(* finds zero; and core_util_in_critical_section (state_saved) tells       *)
(* whether the caller is in a section.                                     *)
CounterIsOwn ==
  /\ counter = depth[exec]
  /\ stateSaved = 1 <=> depth[exec] > 0

(* The inductive invariant: a state saved while a section is open, and a   *)
(* state read but not saved yet, tell whether the context itself had       *)
(* masked interrupts; a context that does not execute has not.             *)
SavedStateOK ==
  /\ \A c \in Contexts \ {exec} : depth[c] = 0 /\ c \notin raw
  /\ counter > 0 => (savedIrq = "on" <=> exec \notin raw)
  /\ \A c \in Contexts :
       pc[c] = "enter" /\ depth[c] = 0 => (irqState[c] = "on" <=> c \notin raw)

IInv ==
  /\ TypeOK
  /\ MutualExclusion
  /\ MaskMatchesSections
  /\ CounterIsOwn
  /\ SavedStateOK
=============================================================================
