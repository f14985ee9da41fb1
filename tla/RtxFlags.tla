------------------------------ MODULE RtxFlags ------------------------------
(***************************************************************************)
(* Event flags (rtx_evflags.c) and thread flags (rtx_thread.c) of RTX5.    *)
(* Both are a word of flags with the same three atomic operations; threads *)
(* wait for event flags in the list of the object and for thread flags     *)
(* without a list, each for its own.                                       *)
(*                                                                         *)
(* A service call is split where it accesses a word: a handler may set or  *)
(* clear flags between the check that fails and the wait, and between the  *)
(* checks for two waiting threads.                                         *)
(***************************************************************************)
EXTENDS RtxPost

CONSTANTS
  Event,      \* the event flags object
  Flags,      \* the flags of a word
  Wants       \* what threads wait for: records of flags, all and clear

ASSUME EventIsObject == Event \in Objects
ASSUME WantsOK ==
  Wants \subseteq [flags: SUBSET Flags, all: BOOLEAN, clear: BOOLEAN]

VARIABLES
  flags,    \* ef->event_flags, thread->thread_flags
  want,     \* thread->wait_flags and flags_options
  todo,     \* the threads a set or PendSV has still to check, and for what
  ledger    \* history: flags set, and neither cleared nor given to a caller

flagVars == <<flags, want, todo, ledger>>

Words == User \cup {Event}
NoTodo == [word |-> NoThread, list |-> <<>>]

FlagInit ==
  /\ flags = [w \in Words |-> {}] /\ ledger = flags
  /\ want = [t \in User |-> [flags |-> {}, all |-> FALSE, clear |-> TRUE]]
  /\ todo = NoTodo

-----------------------------------------------------------------------------
(* EventFlagsSet, Clear and Check; ThreadFlagsSet, Clear and Check. *)

(* The caller gets the flags before clearing; none means that it does not  *)
(* have what it wants.                                                     *)
Meets(word, v) ==
  IF v.all THEN v.flags \subseteq word ELSE v.flags \cap word # {}
Completes(word, v) == Meets(word, v) /\ word # {}

(* What the check leaves. *)
Left(word, v) == IF v.clear /\ Meets(word, v) THEN word \ v.flags ELSE word

Check(w, v) ==
  /\ flags' = [flags EXCEPT ![w] = Left(@, v)]
  /\ ledger' = IF Completes(flags[w], v) /\ v.clear
                 THEN [ledger EXCEPT ![w] = @ \ v.flags] ELSE ledger

Raise(w, f) ==
  /\ flags' = [flags EXCEPT ![w] = @ \cup f]
  /\ ledger' = [ledger EXCEPT ![w] = @ \cup f]

Lower(w, f) ==
  /\ flags' = [flags EXCEPT ![w] = @ \ f]
  /\ ledger' = [ledger EXCEPT ![w] = @ \ f]

Usable(w) == IF w = Event THEN active[w] ELSE "threadFlags" \in use.calls

(* Who waits on a word, in the order of the checks. *)
FlagWaiters(w) ==
  IF w = Event THEN Waiting(w)
  ELSE IF k.state[w] = "WaitingThreadFlags" THEN <<w>> ELSE <<>>

-----------------------------------------------------------------------------
(* Service calls. *)

(* svcRtxEventFlagsWait, svcRtxThreadFlagsWait *)
FlagsWait(w, v, d) ==
  /\ Calling /\ Usable(w) /\ w \in {Event, k.curr}
  /\ Check(w, v)
  /\ IF Completes(flags[w], v) THEN EndCall /\ UNCHANGED <<k, pending, want>>
     ELSE /\ WaitOrFail(IF w = Event THEN "WaitingEventFlags"
                        ELSE "WaitingThreadFlags", w, d)
          /\ want' = IF d = 0 THEN want ELSE [want EXCEPT ![k.curr] = v]
  /\ UNCHANGED <<isrq, pendSV, active, use, todo>>

(* svcRtxEventFlagsSet, svcRtxThreadFlagsSet: the flags, ... *)
FlagsSet(w, f) ==
  /\ Calling /\ Usable(w)
  /\ Raise(w, f)
  /\ todo' = [word |-> w, list |-> FlagWaiters(w)]
  /\ handler' = "flagSet"
  /\ UNCHANGED <<k, isrq, pendSV, active, pending, use, want>>

(* ... then a check for every waiting thread ... *)
CheckWaiter ==
  /\ handler \in {"flagSet", "flagPost"} /\ todo.list # <<>>
  /\ LET t == Head(todo.list)
         w == todo.word
         met == Completes(flags[w], want[t])
     IN  /\ Check(w, want[t])
         /\ k' = IF met THEN WaitExitReady(ListRemove(k, t), t, "osOK") ELSE k
         /\ todo' = [todo EXCEPT !.list = Tail(@)]
  /\ UNCHANGED <<handler, isrq, pendSV, active, pending, use, want>>

(* ... and the dispatch; thread flags dispatch the woken thread itself,    *)
(* which ends the same.                                                    *)
SetEnds ==
  /\ handler = "flagSet" /\ todo.list = <<>>
  /\ k' = Return(DispatchReady(k))
  /\ EndCall /\ todo' = NoTodo
  /\ UNCHANGED <<isrq, pendSV, active, pending, use, flags, want, ledger>>

(* svcRtxEventFlagsClear, svcRtxThreadFlagsClear *)
FlagsClear(w, f) ==
  /\ Calling /\ Usable(w) /\ w \in {Event, k.curr}
  /\ Lower(w, f)
  /\ EndCall
  /\ UNCHANGED <<k, isrq, pendSV, active, pending, use, want, todo>>

(* svcRtxEventFlagsNew, in the control block of a deleted object *)
EventNew ==
  /\ Create(Event)
  /\ flags' = [flags EXCEPT ![Event] = {}]
  /\ ledger' = [ledger EXCEPT ![Event] = {}]
  /\ UNCHANGED <<want, todo>>

-----------------------------------------------------------------------------
(* Interrupt handlers and PendSV. *)

(* isrRtxEventFlagsSet, isrRtxThreadFlagsSet *)
FlagsIsrSet(w, f) ==
  /\ Interruptible /\ Usable(w)
  /\ Raise(w, f)
  /\ PostProcess(w)
  /\ UNCHANGED <<k, active, pending, use, want, todo>>

(* isrRtxEventFlagsWait with a timeout of 0 *)
FlagsIsrWait(v) ==
  /\ Interruptible /\ active[Event]
  /\ Check(Event, v)
  /\ UNCHANGED <<postVars, want, todo>>

(* osEventFlagsClear from a handler is the service call's function. *)
FlagsIsrClear(f) ==
  /\ Interruptible /\ active[Event]
  /\ Lower(Event, f)
  /\ UNCHANGED <<postVars, want, todo>>

(* osRtxEventFlagsPostProcess, osRtxThreadPostProcess *)
FlagsPost ==
  /\ PendSvGet(Words)
  /\ IF Usable(Head(isrq))
       THEN /\ todo' = [word |-> Head(isrq), list |-> FlagWaiters(Head(isrq))]
            /\ handler' = "flagPost"
       ELSE UNCHANGED <<todo, handler>>
  /\ UNCHANGED <<k, flags, want, ledger>>

FlagsPostEnds ==
  /\ handler = "flagPost" /\ todo.list = <<>>
  /\ handler' = "pendsv" /\ todo' = NoTodo
  /\ UNCHANGED <<k, isrq, pendSV, active, pending, use, flags, want, ledger>>

FlagSets == SUBSET Flags \ {{}}
FlagStep ==
  \/ \E w \in Words :
       \/ \E v \in Wants, d \in use.timeouts : FlagsWait(w, v, d)
       \/ \E f \in FlagSets : FlagsSet(w, f) \/ FlagsClear(w, f)
  \/ CheckWaiter \/ SetEnds \/ EventNew \/ FlagsPost \/ FlagsPostEnds
FlagIsr ==
  \/ \E w \in Words, f \in FlagSets : FlagsIsrSet(w, f)
  \/ \E v \in Wants : FlagsIsrWait(v)
  \/ \E f \in FlagSets : FlagsIsrClear(f)

-----------------------------------------------------------------------------
FlagTypeOK == flags \in [Words -> SUBSET Flags] /\ todo.list \in Seq(Threads)

(* No flag gets lost or is given to two: a flag that was set stays until   *)
(* it is cleared or a call that waits for it returns with it.              *)
FlagsAccounted == flags = ledger

(* No thread waits for flags that are set. *)
FlagsServed ==
  \A w \in Words : \A i \in DOMAIN FlagWaiters(w) :
    ~Completes(flags[w], want[FlagWaiters(w)[i]])
=============================================================================
