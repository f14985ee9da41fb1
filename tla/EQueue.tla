------------------------------- MODULE EQueue -------------------------------
(***************************************************************************)
(* The event queue library (equeue.c): events are posted from any thread   *)
(* or interrupt handler, cancelled by their id, and called by the one      *)
(* thread that is in equeue_dispatch.  queuelock and memlock are critical  *)
(* sections (equeue_mbed.cpp), so each locked part is one step; what the   *)
(* code does to an event outside of them is a step of its own.             *)
(*                                                                         *)
(* The pointers that link the queue are modelled one by one: equeue_enqueue *)
(* leaves some of them stale, and equeue_unqueue follows them.             *)
(*                                                                         *)
(* All events are of one size.  Times are unsigned numbers that wrap.      *)
(***************************************************************************)
EXTENDS Integers, Sequences, SequencesExt, FiniteSetsExt

CONSTANTS
  Slab,          \* how many events fit into the largest buffer
  Posters,       \* threads and handlers other than the dispatching one
  Disp,          \* the dispatching thread, in a callback
  Uses,          \* how a queue is used, see use
  TickWrap,      \* ticks are counted modulo this (2^32)
  Wrap8,         \* ids and generations are counted modulo this (2^8)
  Start,         \* the time when the queue is created
  MaxTime, MaxDequeues,   \* bounds
  CancelApart,   \* TRUE: no cancel meets an event that is being re-enqueued
  SiblingsApart  \* TRUE: no cancel of an event whose next is stale

ASSUME DispNoPoster == Disp \notin Posters
ASSUME WrapsEven == TickWrap \in {2 * n : n \in 1 .. TickWrap}
ASSUME UsesFit == \A u \in Uses : u.slab \in 1 .. Slab
ASSUME RulesAreBoolean == CancelApart \in BOOLEAN /\ SiblingsApart \in BOOLEAN

Events == 1 .. Slab
Null == 0
Actors == Posters \cup {Disp}
Never == -1

VARIABLES
  use,        \* how many events fit into the buffer (slab), delay and period
              \* (-1: none) of those posted (kinds), the bound of their ids
              \* (ids), arguments of equeue_dispatch (timeouts, -1: for ever),
              \* whether equeue_break is called (breaks); it never changes
  now,        \* the time, not wrapped
  ev,         \* ev[e]: id, generation, target, period and cb (FALSE: null)
  links,      \* next, sibling and ref of every event; next[Null] is q->queue
  tick, generation, breakRequested,   \* of q
  eventsema,
  chunks,     \* q->chunks, the list of free events
  carved,     \* how many events have been cut from q->slab
  post,       \* post[a]: the equeue_post of a that is in progress
  disp,       \* the equeue_dispatch in progress
  returned,   \* returned[e]: the last id that equeue_post returned for e
  order       \* history: the queued events in the order they were inserted

memory == <<chunks, carved>>
vars == <<use, now, ev, links, tick, generation, breakRequested, eventsema, memory,
          post, disp, returned, order>>

-----------------------------------------------------------------------------
(* Times and ids *)

Tick == now % TickWrap
tickdiff(a, b) ==
  LET d == (a - b) % TickWrap
  IN IF d >= TickWrap \div 2 THEN d - TickWrap ELSE d
clampdiff(a, b) == Max({0, tickdiff(a, b)})

incid(i) == IF (i + 1) % Wrap8 = 0 THEN 1 ELSE i + 1

-----------------------------------------------------------------------------
(* The links of the events *)

NoPost == [pc |-> "none", e |-> Null, tick |-> 0, id |-> 0]
Out == [pc |-> "out", es |-> Null, e |-> Null, at |-> 0,
        timeout |-> Never, deadline |-> Never, late |-> 0]

(* An event that is not in use; its fields but the id are set before use. *)
Unused(id) == [id |-> id, gen |-> 0, target |-> 0, period |-> -1, cb |-> FALSE]

(* A cell is what a ref points to: the next or sibling of an event. *)
Root == <<"next", Null>>
NoLinks == [next |-> [e \in {Null} \cup Events |-> Null],
            sibling |-> [e \in Events |-> Null],
            ref |-> [e \in Events |-> Root]]

Store(l, cell, e) == [l EXCEPT ![cell[1]][cell[2]] = e]
Refer(l, e, cell) == IF e = Null THEN l ELSE [l EXCEPT !.ref[e] = cell]

(* The links of a free event are those of q->chunks, see chunks. *)
Freed(l, e) == [l EXCEPT !.next[e] = Null, !.sibling[e] = Null, !.ref[e] = Root]

(* The events linked by pointers f from e on, up to one more than there are *)
RECURSIVE Linked(_, _, _)
Linked(f, e, n) ==
  IF e = Null \/ n = 0 THEN <<>> ELSE <<e>> \o Linked(f, f[e], n - 1)
Chain(f, e) == Linked(f, e, Slab + 1)

queue == links.next[Null]
Slots == Chain(links.next, queue)

(* The slots up to the first whose target is at least n after t *)
SlotsBefore(t, n) ==
  LET found == SelectInSeq(Slots, LAMBDA e : tickdiff(ev[e].target, t) >= n)
  IN IF found = 0 THEN Slots ELSE SubSeq(Slots, 1, found - 1)

CellBehind(slots) == IF slots = <<>> THEN Root ELSE <<"next", Last(slots)>>

(* The part of equeue_enqueue under the lock.  At the head of a slot, the  *)
(* next of the event that was the head before is left as it was. *)
Enqueued(e) ==
  LET p == CellBehind(SlotsBefore(ev[e].target, 0))
      old == links[p[1]][p[2]]
      joins == old # Null /\ ev[old].target = ev[e].target
      next == IF joins THEN links.next[old] ELSE old
      sibling == IF joins THEN old ELSE Null
      l == Refer(Refer(links, next, <<"next", e>>), sibling, <<"sibling", e>>)
  IN Store([l EXCEPT !.next[e] = next, !.sibling[e] = sibling, !.ref[e] = p], p, e)

Insert(e) == links' = Enqueued(e) /\ order' = Append(order, e)

(* The part of equeue_unqueue that takes the event out *)
Unqueued(e) ==
  LET next == links.next[e]
      sibling == links.sibling[e]
      ref == links.ref[e]
  IN IF sibling # Null
       THEN LET l == Refer(Store(links, <<"next", sibling>>, next),
                           next, <<"next", sibling>>)
            IN Refer(Store(l, ref, sibling), sibling, ref)
       ELSE Refer(Store(links, ref, next), next, ref)

(* Slots reversed and flattened; the mutant does not reverse them. *)
FlatUnreversed(slots) ==
  FlattenSeq([i \in DOMAIN slots |-> Chain(links.sibling, slots[i])])
Flat(slots) ==
  FlattenSeq([i \in DOMAIN slots |-> Reverse(Chain(links.sibling, slots[i]))])

Init ==
  /\ use \in Uses
  /\ now = Start
  /\ ev = [e \in Events |-> Unused(1)]
  /\ links = NoLinks /\ tick = Tick /\ generation = 0
  /\ breakRequested = FALSE /\ eventsema = FALSE
  /\ chunks = <<>> /\ carved = 0
  /\ post = [a \in Actors |-> NoPost]
  /\ disp = Out
  /\ returned = [e \in Events |-> 0]
  /\ order = <<>>

(* An actor that may call: the dispatching thread from a callback. *)
Free(a) == post[a].pc = "none" /\ (a = Disp => disp.pc = "callback")

-----------------------------------------------------------------------------
(* equeue_call, equeue_call_in, equeue_call_every *)

(* equeue_mem_alloc: a free chunk, or a new one from the slab *)
HasMemory == chunks # <<>> \/ carved < use.slab
Allocated == IF chunks # <<>> THEN Head(chunks) ELSE carved + 1

(* equeue_alloc, equeue_event_delay and _period, start of equeue_post *)
Post(a, kind) ==
  LET e == Allocated
  IN /\ Free(a) /\ HasMemory /\ ev[e].id <= use.ids
     /\ IF chunks # <<>> THEN chunks' = Tail(chunks) /\ UNCHANGED carved
        ELSE carved' = carved + 1 /\ UNCHANGED chunks
     /\ ev' = [ev EXCEPT ![e].cb = TRUE, ![e].period = kind.period,
                         ![e].target = (Tick + kind.delay) % TickWrap]
     /\ post' = [post EXCEPT ![a] = [pc |-> "enqueue", e |-> e, tick |-> Tick, id |-> 0]]
     /\ UNCHANGED <<now, links, tick, generation, breakRequested, eventsema, disp, returned, order>>

(* What equeue_enqueue does to the event before it locks *)
SetUp(e, t) ==
  ev' = [ev EXCEPT ![e].target = (t + clampdiff(@, t)) % TickWrap, ![e].gen = generation]

PostSetUp(a) ==
  /\ post[a].pc = "enqueue"
  /\ SetUp(post[a].e, post[a].tick)
  /\ post' = [post EXCEPT ![a].pc = "lock", ![a].tick = 0,
                            ![a].id = ev[post[a].e].id]
  /\ UNCHANGED <<now, links, tick, generation, breakRequested, eventsema, memory,
                 disp, returned, order>>

PostInsert(a) ==
  /\ post[a].pc = "lock"
  /\ Insert(post[a].e)
  /\ post' = [post EXCEPT ![a].pc = "signal"]
  /\ UNCHANGED <<now, ev, tick, generation, breakRequested, eventsema, memory, disp, returned>>

PostSignal(a) ==
  /\ post[a].pc = "signal"
  /\ eventsema' = TRUE
  /\ returned' = IF post[a].e = Null THEN returned
                 ELSE [returned EXCEPT ![post[a].e] = Max({@, post[a].id})]
  /\ post' = [post EXCEPT ![a] = NoPost]
  /\ UNCHANGED <<now, ev, links, tick, generation, breakRequested, memory, disp, order>>

-----------------------------------------------------------------------------
(* equeue_cancel, equeue_break *)

(* equeue_unqueue leaves an event alone that dispatch has taken out; the   *)
(* mutant compares the times only. *)
InFlightByTime(e) == tickdiff(ev[e].target, tick) < 0
InFlight(e) ==
  LET diff == tickdiff(ev[e].target, tick)
  IN diff < 0 \/ (diff = 0 /\ ev[e].gen # generation)

Reenqueueing(e) == disp.pc = "reinsert" /\ disp.e = e

(* e was the head of its slot, in front of a later one, until a newer event *)
(* took its place. *)
NextIsStale(e) == links.ref[e][1] = "sibling" /\ links.next[e] # Null

Cancel(a, e, id) ==
  /\ Free(a)
  /\ id <= returned[e] /\ ev[e].id = id
  /\ CancelApart => ~Reenqueueing(e)
  /\ IF InFlight(e)
       THEN /\ ev' = [ev EXCEPT ![e].cb = FALSE, ![e].period = -1]
            /\ UNCHANGED <<links, order, chunks>>
       ELSE /\ SiblingsApart => ~NextIsStale(e)
            /\ ev' = [ev EXCEPT ![e] = Unused(incid(id))]
            /\ links' = Freed(Unqueued(e), e)
            /\ order' = SelectSeq(order, LAMBDA d : d # e)
            /\ chunks' = <<e>> \o chunks
  /\ UNCHANGED <<now, tick, generation, breakRequested, eventsema, carved, post, disp, returned>>

Break(a) ==
  /\ use.breaks /\ Free(a)
  /\ breakRequested' = TRUE
  /\ post' = [post EXCEPT ![a].pc = "signal"]
  /\ UNCHANGED <<now, ev, links, tick, generation, eventsema, memory, disp, returned, order>>

-----------------------------------------------------------------------------
(* equeue_dispatch *)

Dispatch(ms) ==
  /\ disp.pc = "out"
  /\ disp' = [Out EXCEPT !.pc = "dequeue", !.at = now,
                !.timeout = IF ms < 0 THEN Never ELSE (Tick + ms) % TickWrap]
  /\ UNCHANGED <<now, ev, links, tick, generation, breakRequested, eventsema, memory,
                 post, returned, order>>

DispTick == disp.at % TickWrap

(* equeue_dequeue *)
Dequeue ==
  LET due == SlotsBefore(DispTick, 1)
      batch == Flat(due)
      rest == links[CellBehind(due)[1]][CellBehind(due)[2]]
      After(i) == IF i = Len(batch) THEN Null ELSE batch[i + 1]
  IN /\ disp.pc = "dequeue" /\ generation < MaxDequeues
     /\ generation' = (generation + 1) % Wrap8
     /\ tick' = IF tickdiff(tick, DispTick) <= 0 THEN DispTick ELSE tick
     /\ links' = Refer([links EXCEPT !.next =
                          [e \in DOMAIN @ |->
                             IF e = Null THEN rest
                             ELSE IF e \in Range(batch) THEN After(SelectInSeq(batch, LAMBDA d : d = e))
                             ELSE @[e]]],
                       rest, Root)
     /\ order' = SelectSeq(order, LAMBDA e : e \notin Range(batch))
     /\ disp' = [disp EXCEPT !.pc = "next", !.at = 0,
                             !.es = IF batch = <<>> THEN Null ELSE Head(batch)]
     /\ UNCHANGED <<now, ev, breakRequested, eventsema, memory, post, returned>>

others == <<now, tick, generation, breakRequested, post, returned>>

(* The next event of the batch: its callback starts unless it is cancelled. *)
NextEvent ==
  /\ disp.pc = "next" /\ disp.es # Null
  /\ disp' = [disp EXCEPT !.e = disp.es, !.es = links.next[@],
                          !.pc = IF ev[disp.es].cb THEN "callback" ELSE "check"]
  /\ UNCHANGED <<ev, links, eventsema, memory, order, others>>

CallbackReturns ==
  /\ disp.pc = "callback" /\ post[Disp].pc = "none"
  /\ disp' = [disp EXCEPT !.pc = "check"]
  /\ UNCHANGED <<ev, links, eventsema, memory, order, others>>

Deallocate ==
  /\ disp.pc = "check" /\ ev[disp.e].period < 0
  /\ ev' = [ev EXCEPT ![disp.e] = Unused(incid(@.id))]
  /\ links' = Freed(links, disp.e)
  /\ chunks' = <<disp.e>> \o chunks
  /\ disp' = [disp EXCEPT !.pc = "next", !.e = Null]
  /\ UNCHANGED <<eventsema, carved, order, others>>

IsPeriodic ==
  /\ disp.pc = "check" /\ ev[disp.e].period >= 0
  /\ disp' = [disp EXCEPT !.pc = "rearm"]
  /\ UNCHANGED <<ev, links, eventsema, memory, order, others>>

(* The new target, and the unlocked part of equeue_enqueue *)
Rearm ==
  /\ disp.pc = "rearm"
  /\ ev' = [ev EXCEPT ![disp.e].target =
               (Tick + clampdiff(@ + ev[disp.e].period, Tick)) % TickWrap,
             ![disp.e].gen = generation]
  /\ disp' = [disp EXCEPT !.pc = "reinsert"]
  /\ UNCHANGED <<links, eventsema, memory, order, others>>

Reinsert ==
  /\ disp.pc = "reinsert"
  /\ Insert(disp.e)
  /\ disp' = [disp EXCEPT !.pc = "next", !.e = Null]
  /\ UNCHANGED <<ev, eventsema, memory, others>>

(* The tick is read, and the time that is left of the timeout. *)
ReadTick ==
  LET left == tickdiff(disp.timeout, Tick)
  IN /\ disp.pc = "next" /\ disp.es = Null
     /\ IF disp.timeout # Never /\ left <= 0
          THEN disp' = Out /\ breakRequested' = FALSE
          ELSE /\ disp' = [disp EXCEPT !.pc = "deadline", !.at = now,
                             !.deadline = IF disp.timeout = Never THEN Never ELSE left]
               /\ UNCHANGED breakRequested
     /\ UNCHANGED <<now, ev, links, tick, generation, eventsema, memory, post, returned, order>>

(* The closest deadline, counted from the tick that was read; the mutant   *)
(* looks at the timeout only. *)
DeadlineOfTimeout == disp.deadline
Deadline ==
  LET diff == clampdiff(ev[queue].target, DispTick)
  IN IF queue # Null /\ (disp.deadline = Never \/ diff < disp.deadline)
       THEN diff ELSE disp.deadline

FindDeadline ==
  /\ disp.pc = "deadline"
  /\ disp' = [disp EXCEPT !.pc = "sleep", !.deadline = Deadline]
  /\ UNCHANGED <<ev, links, eventsema, memory, order, others>>

(* equeue_sema_wait starts: the deadline counts from now. *)
Sleep ==
  /\ disp.pc = "sleep"
  /\ disp' = [disp EXCEPT !.pc = "wait", !.late = now - disp.at,
                !.deadline = IF @ = Never THEN Never ELSE now + @]
  /\ UNCHANGED <<ev, links, eventsema, memory, order, others>>

Wake ==
  /\ disp.pc = "wait"
  /\ eventsema \/ (disp.deadline # Never /\ disp.deadline <= now)
  /\ eventsema' = FALSE
  /\ disp' = [disp EXCEPT !.pc = "woken", !.at = 0, !.deadline = Never, !.late = 0]
  /\ UNCHANGED <<ev, links, memory, order, others>>

(* The check for a break, and the tick of the next round *)
CheckBreak ==
  /\ disp.pc = "woken"
  /\ breakRequested' = FALSE
  /\ disp' = IF breakRequested THEN Out ELSE [disp EXCEPT !.pc = "dequeue", !.at = now]
  /\ UNCHANGED <<now, ev, links, tick, generation, eventsema, memory, post, returned, order>>

TimePasses ==
  /\ now < MaxTime
  /\ now' = now + 1
  /\ UNCHANGED <<ev, links, tick, generation, breakRequested, eventsema, memory,
                 post, disp, returned, order>>

Step ==
  \/ \E a \in Actors :
       \/ \E kind \in use.kinds : Post(a, kind)
       \/ PostSetUp(a) \/ PostInsert(a) \/ PostSignal(a)
       \/ \E e \in Events, id \in 1 .. use.ids : Cancel(a, e, id)
       \/ Break(a)
  \/ \E ms \in use.timeouts : Dispatch(ms)
  \/ Dequeue \/ NextEvent \/ CallbackReturns
  \/ Deallocate \/ IsPeriodic \/ Rearm \/ Reinsert
  \/ ReadTick \/ FindDeadline \/ Sleep \/ Wake \/ CheckBreak
  \/ TimePasses

Next == Step /\ UNCHANGED use

Spec == Init /\ [][Next]_vars

-----------------------------------------------------------------------------
(* Properties *)

Queued == Flat(Slots)
Flight ==
  Chain(links.next, disp.es) \o (IF disp.e = Null THEN <<>> ELSE <<disp.e>>)
Posting ==
  LET posters == SetToSeq({a \in Actors : post[a].pc \in {"enqueue", "lock"}})
  IN [i \in DOMAIN posters |-> post[posters[i]].e]

(* Every event is in one place only, whatever posts, cancels and the       *)
(* dispatch loop do to it between their locks: not yet allocated, free,    *)
(* being posted, queued or in flight.  Otherwise equeue_mem_dealloc and    *)
(* equeue_enqueue link one event into two lists, or an event is lost. *)
OnePlace ==
  LET places == chunks \o Queued \o Flight \o Posting
  IN \A e \in Events :
       Cardinality({i \in DOMAIN places : places[i] = e}) = IF e <= carved THEN 1 ELSE 0

(* Following next and sibling meets the queued events by target, and in    *)
(* the order they were inserted when the targets are equal, across the     *)
(* wrap of the tick and whichever events were cancelled: that is the order *)
(* in which equeue_dequeue hands them out. *)
InsertionOrder ==
  LET q == Queued
      InOrder(d, e) == \E m, n \in DOMAIN order : m < n /\ order[m] = d /\ order[n] = e
  IN /\ Range(q) = Range(order)
     /\ \A i, j \in DOMAIN q :
          LET diff == tickdiff(ev[q[i]].target, ev[q[j]].target)
          IN i < j => diff < 0 \/ (diff = 0 /\ InOrder(q[i], q[j]))

(* equeue_dispatch does not sleep past an event: unless it is about to be  *)
(* signalled, it wakes at the target of every queued event, or at the time *)
(* it read the tick if that is later, plus the time it was held up between *)
(* reading the tick and starting the wait (the code waits for a relative   *)
(* time and does not look at the clock again), and no later. *)
NoOversleep ==
  disp.pc = "wait" /\ ~eventsema /\ (\A a \in Actors : post[a].pc # "signal") =>
    \A e \in Range(Queued) :
      LET target == now + tickdiff(ev[e].target, Tick)
      IN /\ disp.deadline # Never
         /\ disp.deadline <= Max({target, disp.at}) + disp.late
=============================================================================
