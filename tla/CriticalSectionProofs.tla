----------------------- MODULE CriticalSectionProofs -----------------------
(* Safety of the critical sections for any set of threads, any interrupt   *)
(* levels and any nesting bound.                                           *)
EXTENDS CriticalSection, TLAPS

(* The reset state satisfies the inductive invariant. *)
LEMMA InitIInv == Init => IInv
BY SomeThread DEF Init, IInv, TypeOK, MutualExclusion, MaskMatchesSections,
   CounterIsOwn, SavedStateOK, Contexts

(* Every step of a context, of the hardware or of the scheduler keeps the  *)
(* inductive invariant.                                                    *)
LEMMA NextIInv == IInv /\ [Next]_vars => IInv'
<1> SUFFICES ASSUME IInv, [Next]_vars PROVE IInv'
  OBVIOUS
<1> USE IsrLevels, ThreadsNotIsrs, NestBound
        DEF IInv, TypeOK, MutualExclusion, MaskMatchesSections, CounterIsOwn,
            SavedStateOK, Contexts, halVars
<1>1. ASSUME NEW i \in Isrs, IsrEntry(i) PROVE IInv'
  BY <1>1 DEF IsrEntry, Level
<1>2. CASE IsrReturn
  BY <1>2 DEF IsrReturn
<1>3. ASSUME NEW t \in Threads, ThreadSwitch(t) PROVE IInv'
  BY <1>3 DEF ThreadSwitch
<1>4. CASE RawDisable
  BY <1>4 DEF RawDisable
<1>5. CASE RawRestore
  BY <1>5 DEF RawRestore
<1>6. CASE EnterRead
  BY <1>6 DEF EnterRead
<1>7. CASE EnterDisable
  BY <1>7 DEF EnterDisable, DisableIrq, SaveState
<1>8. CASE Exit
  BY <1>8 DEF Exit, HalExit, StrayExit
<1>9. CASE UNCHANGED vars
  BY <1>9 DEF vars
<1>10. QED
  BY <1>1, <1>2, <1>3, <1>4, <1>5, <1>6, <1>7, <1>8, <1>9 DEF Next

(* The inductive invariant holds in every reachable state. *)
THEOREM Invariance == Spec => []IInv
<1>1. QED
  BY InitIInv, NextIInv, PTL DEF Spec

(* No context runs over a critical section that another one has open. *)
THEOREM MutualExclusionHolds == Spec => []MutualExclusion
<1>1. IInv => MutualExclusion
  BY DEF IInv
<1>2. QED
  BY <1>1, Invariance, PTL

(* Interrupts are masked exactly while a section is open or the caller     *)
(* masked them itself, so every outermost exit restores what the outermost *)
(* enter found.                                                            *)
THEOREM MaskMatchesSectionsHolds == Spec => []MaskMatchesSections
<1>1. IInv => MaskMatchesSections
  BY DEF IInv
<1>2. QED
  BY <1>1, Invariance, PTL

(* The one global counter counts the sections of the executing context. *)
THEOREM CounterIsOwnHolds == Spec => []CounterIsOwn
<1>1. IInv => CounterIsOwn
  BY DEF IInv
<1>2. QED
  BY <1>1, Invariance, PTL
=============================================================================
