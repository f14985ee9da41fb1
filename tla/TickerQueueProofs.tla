-------------------------- MODULE TickerQueueProofs --------------------------
(***************************************************************************)
(* The microsecond ticker for any events, delays and width of the counter, *)
(* as long as interrupts are masked for short times (MaskedIsShort).       *)
(***************************************************************************)
EXTENDS TickerQueue, FiniteSetTheorems, SequenceTheorems, TLAPS

Ticks == 0 .. Wrap - 1

Tasks ==
  [op : {"schedule", "irq", "call"}]
    \cup [op : {"remove", "release", "handle"}, ev : Events]
    \cup [op : {"setup"}, ev : Events, us : Nat]
    \cup [op : {"set"}, tick : Ticks, recheck : BOOLEAN]
    \cup [op : {"start"}, delta : Nat \ {0}, tick : Ticks, recheck : BOOLEAN]
    \cup [op : {"recheck"}, tick : Ticks]

TypeInv ==
  /\ counter \in Ticks /\ last \in Ticks /\ lag \in Nat
  /\ queue \in Seq(Events)
  /\ due \in [Events -> Int] /\ delay \in [Periodic -> Nat]
  /\ attached \in SUBSET Events /\ lock \in Int
  /\ left \in (Nat \ {0}) \cup {Off} /\ pend \in BOOLEAN
  /\ todo \in Seq(Tasks)
  /\ masked \in 0 .. MaxMasked

(* The order of the tasks in a critical section *)
Rank(op) ==
  IF op \in {"remove", "schedule", "set", "start", "recheck"} THEN 1
  ELSE IF op \in {"setup", "release"} THEN 2
  ELSE IF op \in {"handle", "call"} THEN 3 ELSE 4

Shape(q) ==
  /\ \A i, j \in DOMAIN q : i < j => Rank(q[i].op) < Rank(q[j].op)
  /\ \A i \in DOMAIN q : q[i].op = "handle" => i = 1
  /\ \A i \in DOMAIN q : q[i].op = "remove" =>
       /\ i + 1 \in DOMAIN q
       /\ q[i + 1].op \in {"setup", "release"} /\ q[i + 1].ev = q[i].ev

(* The tasks of an event that is on its way into or out of the queue *)
Moving(t) == t.op \in {"setup", "release", "handle"}

(* The list is in the order of time and holds no event twice. *)
InOrder(q, d) == \A i, j \in DOMAIN q : i < j => d[q[i]] <= d[q[j]]
ListInv ==
  /\ IsInjective(queue) /\ InOrder(queue, due)
  /\ \A t \in ToSet(todo) : Moving(t) /\ t.ev \in ToSet(queue) =>
       Task.op = "remove" /\ Task.ev = t.ev

(* Who holds the deep sleep lock *)
LockInv ==
  /\ ToSet(queue) \subseteq attached
  /\ \A e \in attached :
       e \in ToSet(queue) \/ \E t \in ToSet(todo) : Moving(t) /\ t.ev = e
  /\ \A t \in ToSet(todo) : t.op \in {"setup", "handle"} => t.ev \in attached
  /\ IsFiniteSet(attached) /\ lock = Cardinality(attached)

-----------------------------------------------------------------------------
(* The time present_time was last brought up to date is never too long     *)
(* ago, and the first event never too long overdue.                        *)

(* The ticks from the last read to tick *)
Ahead(tick) == (tick - last) % Wrap

WillSchedule == \E t \in ToSet(todo) : t.op \in {"schedule", "irq"}
InIsr == \E t \in ToSet(todo) : t.op = "irq"

(* The first event is overdue by at most b. *)
OverdueAtMost(b) == queue # <<>> => due[Head(queue)] + b >= 0

(* The countdown ends in time. *)
Counting ==
  /\ left # Off /\ lag + left <= MaxDelta + MaxMasked
  /\ queue # <<>> => left <= due[Head(queue)] + MaxMasked

(* The interrupt will come without further doing. *)
Armed == (pend /\ lag <= MaxDelta + MaxMasked + masked) \/ Counting

Waiting ==
  todo = <<>> =>
    \/ Counting
    \/ /\ pend
       /\ lag <= MaxDelta + 2 * MaxMasked + masked
       /\ OverdueAtMost(2 * MaxMasked + masked)

Fresh == lag <= masked

Setting ==
  Doing("set") =>
    /\ Fresh /\ Ahead(Task.tick) \in 1 .. MaxDelta
    /\ Task.recheck <=> queue # <<>>
    /\ ~Task.recheck => Ahead(Task.tick) = MaxDelta
    /\ Task.recheck => Ahead(Task.tick) <= due[Head(queue)] + lag

Starting ==
  Doing("start") =>
    /\ Fresh /\ Ahead(Task.tick) \in 1 .. MaxDelta
    /\ Task.recheck <=> queue # <<>>
    /\ \/ Task.recheck /\ Ahead(Task.tick) <= lag
       \/ /\ Task.delta <= MaxDelta
          /\ Task.recheck => Task.delta <= due[Head(queue)] + masked

Rechecking ==
  Doing("recheck") =>
    /\ Fresh /\ Ahead(Task.tick) \in 1 .. MaxDelta
    /\ pend \/ Counting \/ Ahead(Task.tick) <= lag

Working ==
  todo # <<>> =>
    /\ lag <= MaxDelta + 3 * MaxMasked + masked
    /\ Task.op \in {"set", "start", "recheck"} \/ WillSchedule \/ Armed
    /\ OverdueAtMost((IF InIsr THEN 3 ELSE 1) * MaxMasked + masked)
    /\ Task.op = "handle" => InIsr /\ due[Task.ev] + 3 * MaxMasked + masked >= 0

BoundInv ==
  TimeKept /\ Waiting /\ Setting /\ Starting /\ Rechecking /\ Working

IInv == TypeInv /\ Shape(todo) /\ ListInv /\ LockInv /\ BoundInv

-----------------------------------------------------------------------------
(* Arithmetic modulo the width of the counter. *)

(* The bounds that the times obey *)
LEMMA Bounds ==
  /\ Wrap \in Nat \ {0} /\ MaxDelta \in Nat \ {0} /\ MaxMasked \in Nat
  /\ MaxMasked < MaxDelta /\ MaxDelta + 4 * MaxMasked < Wrap
<1>1. Wrap \in Int /\ MaxDelta \in Int /\ MaxMasked \in Nat
  BY BitsAreEnough, TimesAreNats DEF Wrap, MaxDelta
<1>2. QED
  BY <1>1, MaskedIsShort DEF Wrap, MaxDelta

(* The remainder of a difference of two readings of the counter *)
LEMMA ModDiff ==
  ASSUME NEW a \in Ticks, NEW b \in Ticks
  PROVE  (a - b) % Wrap = IF a >= b THEN a - b ELSE a - b + Wrap
<1> USE Bounds DEF Ticks
<1>1. CASE a >= b
  BY <1>1
<1>2. CASE a < b
  <2>1. (a - b + Wrap) % Wrap = a - b + Wrap
    BY <1>2
  <2>2. (a - b) % Wrap = (a - b + Wrap) % Wrap
    BY <1>2, Z3
  <2>3. QED
    BY <1>2, <2>1, <2>2
<1>3. QED
  BY <1>1, <1>2

(* The remainder of a reading and a time shorter than the range *)
LEMMA ModSum ==
  ASSUME NEW a \in Ticks, NEW x \in Ticks
  PROVE  (a + x) % Wrap = IF a + x < Wrap THEN a + x ELSE a + x - Wrap
<1> USE Bounds DEF Ticks
<1>1. CASE a + x < Wrap
  BY <1>1
<1>2. CASE a + x >= Wrap
  <2>1. (a + x - Wrap) % Wrap = a + x - Wrap
    BY <1>2
  <2>2. (a + x) % Wrap = (a + x - Wrap) % Wrap
    BY <1>2, Z3
  <2>3. QED
    BY <1>2, <2>1, <2>2
<1>3. QED
  BY <1>1, <1>2

(* A microsecond more: the elapsed time grows by one unless it wraps. *)
LEMMA OneMore ==
  ASSUME NEW a \in Ticks, NEW b \in Ticks, ((a - b) % Wrap) + 1 < Wrap
  PROVE  /\ (a + 1) % Wrap \in Ticks
         /\ (((a + 1) % Wrap) - b) % Wrap = ((a - b) % Wrap) + 1
<1> USE Bounds
<1>1. 1 \in Ticks \/ Wrap = 1
  BY DEF Ticks
<1>2. (a + 1) % Wrap = IF a + 1 < Wrap THEN a + 1 ELSE a + 1 - Wrap
  BY <1>1, ModSum DEF Ticks
<1>3. (a + 1) % Wrap \in Ticks
  BY <1>2 DEF Ticks
<1>4. (((a + 1) % Wrap) - b) % Wrap
        = IF (a + 1) % Wrap >= b THEN ((a + 1) % Wrap) - b ELSE ((a + 1) % Wrap) - b + Wrap
  BY <1>3, ModDiff
<1>5. QED
  BY <1>2, <1>3, <1>4, ModDiff DEF Ticks

(* The tick that lies x ahead of a reading *)
LEMMA AheadOf ==
  ASSUME NEW b \in Ticks, NEW x \in Ticks
  PROVE  (b + x) % Wrap \in Ticks /\ (((b + x) % Wrap) - b) % Wrap = x
<1> USE Bounds
<1>1. (b + x) % Wrap = IF b + x < Wrap THEN b + x ELSE b + x - Wrap
  BY ModSum
<1>2. (b + x) % Wrap \in Ticks
  BY <1>1 DEF Ticks
<1>3. (((b + x) % Wrap) - b) % Wrap
        = IF (b + x) % Wrap >= b THEN ((b + x) % Wrap) - b ELSE ((b + x) % Wrap) - b + Wrap
  BY <1>2, ModDiff
<1>4. QED
  BY <1>1, <1>2, <1>3 DEF Ticks

(* us_ticker_set_interrupt counts to a tick that is not reached, and at    *)
(* most a tick less.                                                       *)
LEMMA DeltaTicksFacts ==
  ASSUME TypeInv, TimeKept, NEW tick \in Ticks
  PROVE  /\ DeltaTicks(tick) \in Nat \ {0}
         /\ Ahead(tick) > lag => DeltaTicks(tick) <= Ahead(tick) - lag
<1> USE Bounds
<1>1. counter \in Ticks /\ last \in Ticks /\ lag = (counter - last) % Wrap
  BY DEF TypeInv, TimeKept
<1>2. lag = IF counter >= last THEN counter - last ELSE counter - last + Wrap
  BY <1>1, ModDiff
<1>3. Ahead(tick) = IF tick >= last THEN tick - last ELSE tick - last + Wrap
  BY <1>1, ModDiff DEF Ahead
<1>4. QED
  BY <1>1, <1>2, <1>3 DEF DeltaTicks, Ticks

(* ... but not less. *)
LEMMA DeltaTicksLeast ==
  ASSUME TypeInv, TimeKept, NEW tick \in Ticks, Ahead(tick) > lag
  PROVE  DeltaTicks(tick) + 1 >= Ahead(tick) - lag
<1> USE Bounds
<1>1. counter \in Ticks /\ last \in Ticks /\ lag = (counter - last) % Wrap
  BY DEF TypeInv, TimeKept
<1>2. lag = IF counter >= last THEN counter - last ELSE counter - last + Wrap
  BY <1>1, ModDiff
<1>3. Ahead(tick) = IF tick >= last THEN tick - last ELSE tick - last + Wrap
  BY <1>1, ModDiff DEF Ahead
<1>4. QED
  BY <1>1, <1>2, <1>3 DEF DeltaTicks, Ticks

(* _ticker_match_interval_passed sees a tick that has gone by. *)
LEMMA PassedFacts ==
  ASSUME TypeInv, TimeKept, NEW tick \in Ticks, Ahead(tick) >= 1, Ahead(tick) <= lag
  PROVE  Passed(tick)
<1> USE Bounds
<1>1. counter \in Ticks /\ last \in Ticks /\ lag = (counter - last) % Wrap
  BY DEF TypeInv, TimeKept
<1>2. lag = IF counter >= last THEN counter - last ELSE counter - last + Wrap
  BY <1>1, ModDiff
<1>3. Ahead(tick) = IF tick >= last THEN tick - last ELSE tick - last + Wrap
  BY <1>1, ModDiff DEF Ahead
<1>4. QED
  BY <1>1, <1>2, <1>3 DEF Passed, MatchIntervalPassed, Ticks

-----------------------------------------------------------------------------
(* The tasks of a critical section. *)

Rest == ToSet(Tail(todo))

(* The first task, and the ones that follow it *)
LEMMA HeadAndRest ==
  ASSUME todo \in Seq(Tasks), Shape(todo), todo # <<>>
  PROVE  /\ Task \in Tasks /\ Rest \subseteq Tasks
         /\ ToSet(todo) = {Task} \cup Rest
         /\ \A t \in Rest : Rank(Task.op) < Rank(t.op) /\ t.op # "handle"
         /\ Task.op = "remove" =>
              \E t \in Rest : t.op \in {"setup", "release"} /\ t.ev = Task.ev
         /\ Tail(todo) \in Seq(Tasks) /\ Shape(Tail(todo))
         /\ Tail(todo) = <<>> => Rest = {}
         /\ Tail(todo) # <<>> => Head(Tail(todo)) \in Rest
<1> DEFINE r == Tail(todo)
<1>1. /\ Len(todo) \in Nat \ {0} /\ DOMAIN todo = 1 .. Len(todo)
      /\ \A i \in 1 .. Len(todo) : todo[i] \in Tasks
      /\ Task = todo[1]
  BY DEF Task
<1>2. /\ r \in Seq(Tasks) /\ Len(r) = Len(todo) - 1 /\ DOMAIN r = 1 .. Len(todo) - 1
      /\ \A i \in 1 .. Len(todo) - 1 : r[i] = todo[i + 1]
  BY HeadTailProperties, LenProperties
<1>3. Rest = {r[i] : i \in 1 .. Len(todo) - 1} /\ ToSet(todo) = {todo[i] : i \in 1 .. Len(todo)}
  BY <1>1, <1>2 DEF Rest, ToSet
<1> HIDE DEF r
<1>4. ToSet(todo) = {Task} \cup Rest
  <2>1. \A i \in 1 .. Len(todo) : i = 1 \/ (i - 1 \in 1 .. Len(todo) - 1 /\ todo[i] = r[i - 1])
    BY <1>1, <1>2
  <2>2. QED
    BY <1>1, <1>2, <1>3, <2>1
<1>5. \A t \in Rest : Rank(Task.op) < Rank(t.op) /\ t.op # "handle"
  <2> SUFFICES ASSUME NEW i \in 1 .. Len(todo) - 1
               PROVE  Rank(Task.op) < Rank(r[i].op) /\ r[i].op # "handle"
    BY <1>3
  <2>1. i + 1 \in DOMAIN todo /\ 1 \in DOMAIN todo /\ 1 < i + 1 /\ r[i] = todo[i + 1]
    BY <1>1, <1>2
  <2>2. QED
    BY <1>1, <2>1 DEF Shape
<1>6. ASSUME Task.op = "remove"
      PROVE  \E t \in Rest : t.op \in {"setup", "release"} /\ t.ev = Task.ev
  <2>1. /\ 2 \in DOMAIN todo
        /\ todo[2].op \in {"setup", "release"} /\ todo[2].ev = todo[1].ev
    <3>1. 1 \in DOMAIN todo /\ 1 + 1 = 2
      BY <1>1
    <3>2. QED
      BY <1>1, <1>6, <3>1 DEF Shape
  <2>2. 1 \in 1 .. Len(todo) - 1 /\ r[1] = todo[2]
    BY <1>1, <1>2, <2>1
  <2>3. QED
    BY <1>1, <1>3, <2>1, <2>2
<1>7. Shape(r)
  <2>1. ASSUME NEW i \in DOMAIN r, NEW j \in DOMAIN r, i < j
        PROVE  Rank(r[i].op) < Rank(r[j].op)
    <3>1. i + 1 \in DOMAIN todo /\ j + 1 \in DOMAIN todo /\ i + 1 < j + 1
      BY <1>1, <1>2, <2>1
    <3>2. QED
      BY <1>1, <1>2, <3>1 DEF Shape
  <2>2. ASSUME NEW i \in DOMAIN r PROVE r[i].op # "handle"
    BY <1>2, <1>3, <1>5
  <2>3. ASSUME NEW i \in DOMAIN r, r[i].op = "remove"
        PROVE  /\ i + 1 \in DOMAIN r
               /\ r[i + 1].op \in {"setup", "release"} /\ r[i + 1].ev = r[i].ev
    <3>1. i + 1 \in DOMAIN todo /\ r[i] = todo[i + 1]
      BY <1>1, <1>2
    <3>2. /\ (i + 1) + 1 \in DOMAIN todo
          /\ todo[(i + 1) + 1].op \in {"setup", "release"}
          /\ todo[(i + 1) + 1].ev = todo[i + 1].ev
      BY <2>3, <3>1 DEF Shape
    <3>3. i + 1 \in DOMAIN r /\ r[i + 1] = todo[(i + 1) + 1]
      BY <1>1, <1>2, <3>2
    <3>4. QED
      BY <3>1, <3>2, <3>3
  <2>4. QED
    BY <2>1, <2>2, <2>3 DEF Shape
<1>8. ASSUME r = <<>> PROVE Rest = {}
  <2>1. DOMAIN r = {}
    BY <1>8
  <2>2. QED
    BY <1>2, <1>3, <2>1
<1>9. r # <<>> => Head(r) \in Rest
  <2>1. r # <<>> => Len(r) \in Nat \ {0} /\ Head(r) = r[1]
    BY <1>2
  <2>2. QED
    BY <1>2, <1>3, <2>1
<1>10. Rest \subseteq Tasks
  BY <1>1, <1>2, <1>3
<1>11. QED
  BY <1>1, <1>2, <1>4, <1>5, <1>6, <1>7, <1>8, <1>9, <1>10 DEF r

(* What the tasks are when s takes the place of the first one *)
LEMMA Replaced ==
  ASSUME todo \in Seq(Tasks), Shape(todo), todo # <<>>,
         NEW s \in Seq(Tasks), Shape(s), s # <<>>,
         \A t \in ToSet(s) : Rank(t.op) <= Rank(Task.op)
  PROVE  /\ s \o Tail(todo) \in Seq(Tasks)
         /\ Shape(s \o Tail(todo))
         /\ s \o Tail(todo) # <<>> /\ Head(s \o Tail(todo)) = Head(s)
         /\ ToSet(s \o Tail(todo)) = ToSet(s) \cup Rest
<1> DEFINE r == Tail(todo)
           q == s \o r
<1>1. /\ r \in Seq(Tasks) /\ Shape(r)
      /\ \A t \in Rest : Rank(Task.op) < Rank(t.op) /\ t.op # "handle"
      /\ Rest = ToSet(r)
  BY HeadAndRest DEF Rest
<1> HIDE DEF r
<1>2. /\ Len(s) \in Nat \ {0} /\ DOMAIN s = 1 .. Len(s)
      /\ Len(r) \in Nat /\ DOMAIN r = 1 .. Len(r)
  BY <1>1, LenProperties, EmptySeq
<1>3. /\ q \in Seq(Tasks) /\ Len(q) = Len(s) + Len(r)
      /\ \A i \in 1 .. Len(s) + Len(r) : q[i] = IF i <= Len(s) THEN s[i] ELSE r[i - Len(s)]
  BY <1>1, ConcatProperties
<1> HIDE DEF q
<1>4. DOMAIN q = 1 .. Len(s) + Len(r)
  BY <1>3, LenProperties
<1>5. ToSet(q) = ToSet(s) \cup ToSet(r)
  <2>1. \A i \in 1 .. Len(s) : i \in DOMAIN q /\ q[i] = s[i]
    BY <1>2, <1>3, <1>4
  <2>2. \A i \in 1 .. Len(r) : i + Len(s) \in DOMAIN q /\ q[i + Len(s)] = r[i]
    BY <1>2, <1>3, <1>4
  <2>3. ASSUME NEW i \in DOMAIN q, ~(i \in 1 .. Len(s))
        PROVE  i - Len(s) \in 1 .. Len(r) /\ q[i] = r[i - Len(s)]
    <3>1. i > Len(s) /\ i \in 1 .. Len(s) + Len(r)
      BY <1>2, <1>4, <2>3
    <3>2. QED
      BY <1>2, <1>3, <3>1
  <2>4. QED
    BY <1>2, <2>1, <2>2, <2>3 DEF ToSet
<1>6. q # <<>> /\ Head(q) = Head(s)
  <2>1. Len(q) # 0 /\ q[1] = s[1]
    BY <1>2, <1>3
  <2>2. QED
    BY <1>2, <1>3, <2>1
<1>7. Shape(q)
  <2>1. ASSUME NEW i \in DOMAIN q, NEW j \in DOMAIN q, i < j
        PROVE  Rank(q[i].op) < Rank(q[j].op)
    <3>1. CASE j <= Len(s)
      <4>1. i \in DOMAIN s /\ j \in DOMAIN s /\ q[i] = s[i] /\ q[j] = s[j]
        BY <1>2, <1>3, <1>4, <2>1, <3>1
      <4>2. QED
        BY <2>1, <4>1 DEF Shape
    <3>2. CASE i <= Len(s) /\ j > Len(s)
      <4>1. /\ i \in DOMAIN s /\ j - Len(s) \in DOMAIN r
            /\ q[i] = s[i] /\ q[j] = r[j - Len(s)]
        BY <1>2, <1>3, <1>4, <2>1, <3>2
      <4>2. Rank(s[i].op) <= Rank(Task.op) /\ Rank(Task.op) < Rank(r[j - Len(s)].op)
        BY <1>1, <4>1 DEF ToSet
      <4>3. QED
        BY <4>1, <4>2 DEF Rank
    <3>3. CASE i > Len(s)
      <4>1. /\ i - Len(s) \in DOMAIN r /\ j - Len(s) \in DOMAIN r
            /\ i - Len(s) < j - Len(s)
            /\ q[i] = r[i - Len(s)] /\ q[j] = r[j - Len(s)]
        BY <1>2, <1>3, <1>4, <2>1, <3>3
      <4>2. QED
        BY <1>1, <4>1 DEF Shape
    <3>4. QED
      BY <1>2, <1>4, <3>1, <3>2, <3>3
  <2>2. ASSUME NEW i \in DOMAIN q, q[i].op = "handle" PROVE i = 1
    <3>1. CASE i <= Len(s)
      <4>1. i \in DOMAIN s /\ q[i] = s[i]
        BY <1>2, <1>3, <1>4, <3>1
      <4>2. QED
        BY <2>2, <4>1 DEF Shape
    <3>2. CASE i > Len(s)
      <4>1. i - Len(s) \in DOMAIN r /\ q[i] = r[i - Len(s)]
        BY <1>2, <1>3, <1>4, <3>2
      <4>2. QED
        BY <1>1, <2>2, <4>1 DEF ToSet
    <3>3. QED
      BY <1>2, <1>4, <3>1, <3>2
  <2>3. ASSUME NEW i \in DOMAIN q, q[i].op = "remove"
        PROVE  /\ i + 1 \in DOMAIN q
               /\ q[i + 1].op \in {"setup", "release"} /\ q[i + 1].ev = q[i].ev
    <3>1. CASE i <= Len(s)
      <4>1. i \in DOMAIN s /\ q[i] = s[i]
        BY <1>2, <1>3, <1>4, <3>1
      <4>2. /\ i + 1 \in DOMAIN s
            /\ s[i + 1].op \in {"setup", "release"} /\ s[i + 1].ev = s[i].ev
        BY <2>3, <4>1 DEF Shape
      <4>3. i + 1 \in DOMAIN q /\ q[i + 1] = s[i + 1]
        BY <1>2, <1>3, <1>4, <4>2
      <4>4. QED
        BY <4>1, <4>2, <4>3
    <3>2. CASE i > Len(s)
      <4>1. i - Len(s) \in DOMAIN r /\ q[i] = r[i - Len(s)]
        BY <1>2, <1>3, <1>4, <3>2
      <4>2. /\ (i - Len(s)) + 1 \in DOMAIN r
            /\ r[(i - Len(s)) + 1].op \in {"setup", "release"}
            /\ r[(i - Len(s)) + 1].ev = r[i - Len(s)].ev
        BY <1>1, <2>3, <4>1 DEF Shape
      <4>3. i + 1 \in DOMAIN q /\ q[i + 1] = r[(i - Len(s)) + 1]
        <5>1. i + 1 \in 1 .. Len(s) + Len(r) /\ i + 1 > Len(s) /\ (i + 1) - Len(s) = (i - Len(s)) + 1
          BY <1>2, <1>4, <3>2, <4>2
        <5>2. q[i + 1] = r[(i + 1) - Len(s)]
          BY <1>2, <1>3, <5>1
        <5>3. QED
          BY <1>4, <5>1, <5>2
      <4>4. QED
        BY <4>1, <4>2, <4>3
    <3>3. QED
      BY <1>2, <1>4, <3>1, <3>2
  <2>4. QED
    BY <2>1, <2>2, <2>3 DEF Shape
<1>8. QED
  BY <1>1, <1>3, <1>5, <1>6, <1>7 DEF q, r

(* The task is done: the others are left. *)
LEMMA DroppedTail ==
  ASSUME todo \in Seq(Tasks), todo # <<>>
  PROVE  <<>> \o Tail(todo) = Tail(todo)
BY HeadTailProperties, ConcatEmptySeq

-----------------------------------------------------------------------------
(* The list of events. *)

(* A scan stops: it has a first stopping index, or the end. *)
LEMMA FirstIndex ==
  ASSUME NEW n \in Nat, NEW Stop
  PROVE  \E i \in 1 .. n + 1 : /\ i \in Stop \cup {n + 1}
                               /\ \A j \in 1 .. i - 1 : j \notin Stop
<1> DEFINE T == {i \in 1 .. n + 1 : i \in Stop \cup {n + 1}}
<1>1. T \subseteq Nat /\ T # {}
  OBVIOUS
<1> HIDE DEF T
<1>2. PICK i \in T : \A y \in T : ~ (<<y, i>> \in OpToRel(<, Nat))
  BY <1>1, WFMin, NatLessThanWellFounded
<1>3. \A y \in T : ~ (y < i)
  BY <1>1, <1>2 DEF OpToRel
<1>4. QED
  BY <1>3 DEF T

(* InsertAt, element by element. *)
LEMMA InsertAtFacts ==
  ASSUME NEW S, NEW s \in Seq(S), NEW p \in 1 .. Len(s) + 1, NEW t \in S
  PROVE  /\ InsertAt(s, p, t) \in Seq(S)
         /\ Len(InsertAt(s, p, t)) = Len(s) + 1
         /\ \A i \in 1 .. Len(s) + 1 :
              InsertAt(s, p, t)[i] = IF i < p THEN s[i]
                                     ELSE IF i = p THEN t ELSE s[i - 1]
<1> DEFINE x == SubSeq(s, 1, p - 1)
           y == SubSeq(s, p, Len(s))
           z == x \o <<t>>
           r == z \o y
<1>1. Len(s) \in Nat /\ p \in Int /\ \A i \in 1 .. Len(s) : s[i] \in S
  OBVIOUS
<1>2. x \in Seq(S) /\ Len(x) = p - 1 /\ \A i \in 1 .. p - 1 : x[i] = s[i]
  BY <1>1, SubSeqProperties
<1>3. /\ y \in Seq(S) /\ Len(y) = Len(s) - p + 1
      /\ \A i \in 1 .. Len(s) - p + 1 : y[i] = s[p + i - 1]
  BY <1>1, SubSeqProperties
<1>4. <<t>> \in Seq(S) /\ Len(<<t>>) = 1 /\ <<t>>[1] = t
  OBVIOUS
<1> HIDE DEF x, y
<1>5. /\ z \in Seq(S) /\ Len(z) = p
      /\ \A i \in 1 .. p : z[i] = IF i < p THEN s[i] ELSE t
  BY <1>2, <1>4, ConcatProperties
<1> HIDE DEF z
<1>6. /\ r \in Seq(S) /\ Len(r) = Len(z) + Len(y)
      /\ \A i \in 1 .. Len(z) + Len(y) :
           r[i] = IF i <= Len(z) THEN z[i] ELSE y[i - Len(z)]
  BY <1>3, <1>5, ConcatProperties
<1>7. InsertAt(s, p, t) = r
  BY DEF InsertAt, r, z, x, y
<1> HIDE DEF r
<1>8. Len(r) = Len(s) + 1
  BY <1>1, <1>3, <1>5, <1>6
<1>9. ASSUME NEW i \in 1 .. Len(s) + 1
      PROVE r[i] = IF i < p THEN s[i] ELSE IF i = p THEN t ELSE s[i - 1]
  <2>1. i \in 1 .. Len(z) + Len(y)
    BY <1>1, <1>3, <1>5
  <2>2. CASE i <= p
    BY <2>1, <2>2, <1>1, <1>5, <1>6
  <2>3. CASE i > p
    <3>1. r[i] = y[i - p] /\ i - p \in 1 .. Len(s) - p + 1
      BY <2>1, <2>3, <1>1, <1>5, <1>6
    <3>2. y[i - p] = s[p + (i - p) - 1]
      BY <3>1, <1>3
    <3>3. p + (i - p) - 1 = i - 1
      BY <1>1
    <3>4. QED
      BY <3>1, <3>2, <3>3, <2>3, <1>1
  <2>4. QED
    BY <2>2, <2>3, <1>1
<1>10. QED
  BY <1>6, <1>7, <1>8, <1>9

(* RemoveAt, element by element. *)
LEMMA RemoveAtFacts ==
  ASSUME NEW S, NEW s \in Seq(S), NEW p \in 1 .. Len(s)
  PROVE  /\ RemoveAt(s, p) \in Seq(S)
         /\ Len(RemoveAt(s, p)) = Len(s) - 1
         /\ \A i \in 1 .. Len(s) - 1 :
              RemoveAt(s, p)[i] = IF i < p THEN s[i] ELSE s[i + 1]
<1> DEFINE x == SubSeq(s, 1, p - 1)
           y == SubSeq(s, p + 1, Len(s))
           r == x \o y
<1>1. Len(s) \in Nat /\ p \in Int /\ \A i \in 1 .. Len(s) : s[i] \in S
  OBVIOUS
<1>2. x \in Seq(S) /\ Len(x) = p - 1 /\ \A i \in 1 .. p - 1 : x[i] = s[i]
  BY <1>1, SubSeqProperties
<1>3. /\ y \in Seq(S) /\ Len(y) = Len(s) - p
      /\ \A i \in 1 .. Len(s) - p : y[i] = s[p + i]
  BY <1>1, SubSeqProperties
<1> HIDE DEF x, y
<1>4. /\ r \in Seq(S) /\ Len(r) = Len(x) + Len(y)
      /\ \A i \in 1 .. Len(x) + Len(y) :
           r[i] = IF i <= Len(x) THEN x[i] ELSE y[i - Len(x)]
  BY <1>2, <1>3, ConcatProperties
<1>5. RemoveAt(s, p) = r
  BY DEF RemoveAt, r, x, y
<1> HIDE DEF r
<1>6. Len(r) = Len(s) - 1
  BY <1>1, <1>2, <1>3, <1>4
<1>7. ASSUME NEW i \in 1 .. Len(s) - 1
      PROVE r[i] = IF i < p THEN s[i] ELSE s[i + 1]
  <2>1. i \in 1 .. Len(x) + Len(y)
    BY <1>1, <1>2, <1>3
  <2>2. CASE i < p
    <3>1. i <= Len(x) /\ i \in 1 .. p - 1
      BY <1>1, <1>2, <2>2
    <3>2. r[i] = x[i]
      BY <1>4, <2>1, <3>1
    <3>3. QED
      BY <1>2, <2>2, <3>1, <3>2
  <2>3. CASE i >= p
    <3>1. r[i] = y[i - (p - 1)] /\ i - (p - 1) \in 1 .. Len(s) - p
      BY <2>1, <2>3, <1>1, <1>2, <1>4
    <3>2. y[i - (p - 1)] = s[p + (i - (p - 1))]
      BY <3>1, <1>3
    <3>3. p + (i - (p - 1)) = i + 1
      BY <1>1
    <3>4. QED
      BY <3>1, <3>2, <3>3, <2>3, <1>1
  <2>4. QED
    BY <2>2, <2>3, <1>1
<1>8. QED
  BY <1>4, <1>5, <1>6, <1>7

(* ticker_insert_event_us finds a place: behind all events that are not    *)
(* later and before all that are.                                          *)
LEMMA InsertPosFacts ==
  ASSUME TypeInv, InOrder(queue, due), NEW ts \in Int
  PROVE  /\ InsertPos(ts) \in 1 .. Len(queue) + 1
         /\ \A j \in 1 .. InsertPos(ts) - 1 : due[queue[j]] <= ts
         /\ \A j \in InsertPos(ts) .. Len(queue) : ts < due[queue[j]]
<1> DEFINE Later == {j \in 1 .. Len(queue) : ts < due[queue[j]]}
           p == InsertPos(ts)
<1>1. /\ Len(queue) \in Nat /\ DOMAIN queue = 1 .. Len(queue)
      /\ \A j \in 1 .. Len(queue) : due[queue[j]] \in Int
  BY LenProperties DEF TypeInv
<1>2. \E i \in 1 .. Len(queue) + 1 :
        /\ i \in Later \cup {Len(queue) + 1}
        /\ \A j \in 1 .. i - 1 : j \notin Later
  BY <1>1, FirstIndex
<1>3. \E i \in 1 .. Len(queue) + 1 :
        /\ \A j \in 1 .. i - 1 : due[queue[j]] <= ts
        /\ i <= Len(queue) => ts < due[queue[i]]
  BY <1>1, <1>2
<1>4. /\ p \in 1 .. Len(queue) + 1
      /\ \A j \in 1 .. p - 1 : due[queue[j]] <= ts
      /\ p <= Len(queue) => ts < due[queue[p]]
  BY <1>3 DEF InsertPos
<1> HIDE DEF p
<1>5. ASSUME NEW j \in p .. Len(queue) PROVE ts < due[queue[j]]
  <2>1. p \in DOMAIN queue /\ j \in DOMAIN queue /\ ts < due[queue[p]]
    BY <1>1, <1>4
  <2>2. p < j => due[queue[p]] <= due[queue[j]]
    BY <2>1 DEF InOrder
  <2>3. QED
    BY <1>1, <1>4, <2>1, <2>2
<1>6. QED
  BY <1>4, <1>5 DEF p

(* Inserting keeps the order, and a new head is the event itself. *)
LEMMA Inserted ==
  ASSUME TypeInv, IsInjective(queue), InOrder(queue, due),
         NEW e \in Events, e \notin ToSet(queue), NEW ts \in Int, InsertEvent(e, ts)
  PROVE  /\ queue' \in Seq(Events) /\ queue' # <<>>
         /\ due' \in [Events -> Int]
         /\ ToSet(queue') = ToSet(queue) \cup {e}
         /\ IsInjective(queue') /\ InOrder(queue', due')
         /\ due'[e] = ts /\ \A f \in ToSet(queue) : due'[f] = due[f]
         /\ Head(queue') = queue'[1]
         /\ queue'[1] # e => queue # <<>> /\ Head(queue') = Head(queue)
         /\ Len(queue') = Len(queue) + 1
<1> DEFINE p == InsertPos(ts)
           q == queue'
           m == Len(queue)
<1>1. /\ p \in 1 .. m + 1
      /\ \A j \in 1 .. p - 1 : due[queue[j]] <= ts
      /\ \A j \in p .. m : ts < due[queue[j]]
  BY InsertPosFacts
<1>2. /\ m \in Nat /\ DOMAIN queue = 1 .. m /\ queue \in Seq(Events)
      /\ \A j \in 1 .. m : queue[j] \in Events /\ queue[j] # e
  BY LenProperties DEF TypeInv, ToSet
<1>3. q = InsertAt(queue, p, e) /\ due' = [due EXCEPT ![e] = ts]
  BY DEF InsertEvent
<1> HIDE DEF p
<1>4. /\ q \in Seq(Events) /\ Len(q) = m + 1
      /\ \A i \in 1 .. m + 1 : q[i] = IF i < p THEN queue[i] ELSE IF i = p THEN e ELSE queue[i - 1]
  <2> DEFINE r == InsertAt(queue, p, e)
  <2>1. /\ r \in Seq(Events) /\ Len(r) = m + 1
        /\ \A i \in 1 .. m + 1 : r[i] = IF i < p THEN queue[i] ELSE IF i = p THEN e ELSE queue[i - 1]
    BY <1>1, <1>2, InsertAtFacts
  <2>2. QED
    BY <1>3, <2>1
<1>5. DOMAIN q = 1 .. m + 1 /\ q # <<>> /\ Head(q) = q[1]
  BY <1>2, <1>4
<1>6. due' \in [Events -> Int] /\ due'[e] = ts /\ \A f \in Events : f # e => due'[f] = due[f]
  BY <1>3 DEF TypeInv
<1> HIDE DEF q
<1>7. ToSet(q) = ToSet(queue) \cup {e}
  <2>1. ASSUME NEW j \in 1 .. m PROVE \E i \in 1 .. m + 1 : q[i] = queue[j]
    <3>1. CASE j < p
      <4>1. j \in 1 .. m + 1 /\ q[j] = queue[j]
        BY <1>2, <1>4, <3>1
      <4>2. QED
        BY <4>1
    <3>2. CASE j >= p
      <4>1. j + 1 \in 1 .. m + 1 /\ q[j + 1] = queue[(j + 1) - 1] /\ (j + 1) - 1 = j
        BY <1>1, <1>2, <1>4, <3>2
      <4>2. QED
        BY <4>1
    <3>3. QED
      BY <1>1, <3>1, <3>2
  <2>2. ASSUME NEW i \in 1 .. m + 1 PROVE q[i] = e \/ \E j \in 1 .. m : q[i] = queue[j]
    BY <1>1, <1>2, <1>4
  <2>3. p \in 1 .. m + 1 /\ q[p] = e
    BY <1>1, <1>4
  <2>4. ToSet(queue) = {queue[j] : j \in 1 .. m} /\ ToSet(q) = {q[i] : i \in 1 .. m + 1}
    BY <1>2, <1>5 DEF ToSet
  <2>5. QED
    BY <2>1, <2>2, <2>3, <2>4
<1>8. IsInjective(q)
  <2> SUFFICES ASSUME NEW i \in 1 .. m + 1, NEW j \in 1 .. m + 1, q[i] = q[j]
               PROVE  i = j
    BY <1>5 DEF IsInjective
  <2> DEFINE old(k) == IF k < p THEN k ELSE k - 1
  <2>1. \A k \in 1 .. m + 1 : k # p => old(k) \in 1 .. m /\ q[k] = queue[old(k)]
    BY <1>1, <1>2, <1>4
  <2>2. CASE i = p \/ j = p
    BY <1>1, <1>2, <1>4, <2>1, <2>2
  <2>3. CASE i # p /\ j # p
    <3>1. old(i) = old(j)
      BY <1>2, <2>1, <2>3 DEF IsInjective
    <3>2. QED
      BY <1>1, <2>3, <3>1
  <2>4. QED
    BY <2>2, <2>3
<1>9. InOrder(q, due')
  <2> SUFFICES ASSUME NEW i \in 1 .. m + 1, NEW j \in 1 .. m + 1, i < j
               PROVE  due'[q[i]] <= due'[q[j]]
    BY <1>5 DEF InOrder
  <2>0. \A k \in 1 .. m : due'[queue[k]] = due[queue[k]] /\ due[queue[k]] \in Int
    BY <1>2, <1>6 DEF TypeInv
  <2>1. CASE i = p
    <3>1. q[i] = e /\ q[j] = queue[j - 1] /\ j - 1 \in p .. m /\ j - 1 \in 1 .. m
      BY <1>1, <1>2, <1>4, <2>1
    <3>2. ts < due[queue[j - 1]]
      BY <1>1, <3>1
    <3>3. QED
      BY <1>6, <2>0, <3>1, <3>2
  <2>2. CASE j = p
    <3>1. q[j] = e /\ q[i] = queue[i] /\ i \in 1 .. p - 1 /\ i \in 1 .. m
      BY <1>1, <1>2, <1>4, <2>2
    <3>2. due[queue[i]] <= ts
      BY <1>1, <3>1
    <3>3. QED
      BY <1>6, <2>0, <3>1, <3>2
  <2>3. CASE i # p /\ j # p
    <3>1. PICK k \in 1 .. m, l \in 1 .. m : k < l /\ q[i] = queue[k] /\ q[j] = queue[l]
      <4> DEFINE old(x) == IF x < p THEN x ELSE x - 1
      <4>1. /\ old(i) \in 1 .. m /\ q[i] = queue[old(i)]
            /\ old(j) \in 1 .. m /\ q[j] = queue[old(j)]
            /\ old(i) < old(j)
        BY <1>1, <1>2, <1>4, <2>3
      <4>2. QED
        BY <4>1
    <3>2. due[queue[k]] <= due[queue[l]]
      BY <1>2, <3>1 DEF InOrder
    <3>3. QED
      BY <2>0, <3>1, <3>2
  <2>4. QED
    BY <2>1, <2>2, <2>3
<1>10. q[1] # e => queue # <<>> /\ Head(q) = Head(queue)
  <2>1. 1 \in 1 .. m + 1 /\ (p # 1 => q[1] = queue[1] /\ m >= 1) /\ (p = 1 => q[1] = e)
    BY <1>1, <1>2, <1>4
  <2>2. m >= 1 => queue # <<>> /\ Head(queue) = queue[1]
    BY <1>2
  <2>3. QED
    BY <1>5, <2>1, <2>2
<1>11. \A f \in ToSet(queue) : due'[f] = due[f]
  BY <1>2, <1>6 DEF ToSet
<1>12. QED
  BY <1>4, <1>5, <1>6, <1>7, <1>8, <1>9, <1>10, <1>11 DEF q

(* Leaving out one position keeps the order. *)
LEMMA LeftOut ==
  ASSUME TypeInv, IsInjective(queue), InOrder(queue, due),
         NEW p \in 1 .. Len(queue), NEW q \in Seq(Events), Len(q) = Len(queue) - 1,
         \A i \in 1 .. Len(queue) - 1 : q[i] = IF i < p THEN queue[i] ELSE queue[i + 1]
  PROVE  /\ ToSet(q) = ToSet(queue) \ {queue[p]}
         /\ IsInjective(q) /\ InOrder(q, due)
         /\ q # <<>> => /\ due[Head(queue)] <= due[Head(q)]
                        /\ p # 1 => Head(q) = Head(queue)
<1> DEFINE m == Len(queue)
           old(i) == IF i < p THEN i ELSE i + 1
<1>1. /\ m \in Nat /\ DOMAIN queue = 1 .. m /\ queue # <<>> /\ Head(queue) = queue[1]
      /\ \A j \in 1 .. m : queue[j] \in Events /\ due[queue[j]] \in Int
  BY LenProperties DEF TypeInv
<1>2. DOMAIN q = 1 .. m - 1
  BY LenProperties
<1>3. \A i \in 1 .. m - 1 : old(i) \in 1 .. m /\ old(i) # p /\ q[i] = queue[old(i)]
  BY <1>1
<1>4. \A i, j \in 1 .. m - 1 : (i < j => old(i) < old(j)) /\ (old(i) = old(j) => i = j)
  BY <1>1
<1>5. \A j \in 1 .. m : j # p => \E i \in 1 .. m - 1 : old(i) = j
  <2> SUFFICES ASSUME NEW j \in 1 .. m, j # p PROVE \E i \in 1 .. m - 1 : old(i) = j
    OBVIOUS
  <2>1. CASE j < p
    <3>1. j \in 1 .. m - 1 /\ old(j) = j
      BY <1>1, <2>1
    <3>2. QED
      BY <3>1
  <2>2. CASE j > p
    <3>1. j - 1 \in 1 .. m - 1 /\ old(j - 1) = j
      BY <1>1, <2>2
    <3>2. QED
      BY <3>1
  <2>3. QED
    BY <1>1, <2>1, <2>2
<1> HIDE DEF old
<1>6. \A j \in 1 .. m : queue[j] = queue[p] => j = p
  BY <1>1 DEF IsInjective
<1>7. ToSet(q) = ToSet(queue) \ {queue[p]}
  <2>1. \A i \in 1 .. m - 1 : q[i] \in {queue[j] : j \in 1 .. m} /\ q[i] # queue[p]
    BY <1>3, <1>6
  <2>2. \A j \in 1 .. m : queue[j] # queue[p] => \E i \in 1 .. m - 1 : q[i] = queue[j]
    BY <1>3, <1>5
  <2>3. ToSet(queue) = {queue[j] : j \in 1 .. m} /\ ToSet(q) = {q[i] : i \in 1 .. m - 1}
    BY <1>1, <1>2 DEF ToSet
  <2>4. ToSet(q) \subseteq ToSet(queue) \ {queue[p]}
    BY <2>1, <2>3
  <2>5. ToSet(queue) \ {queue[p]} \subseteq ToSet(q)
    BY <2>2, <2>3
  <2>6. QED
    BY <2>4, <2>5
<1>8. IsInjective(q)
  <2> SUFFICES ASSUME NEW i \in 1 .. m - 1, NEW j \in 1 .. m - 1, q[i] = q[j]
               PROVE  i = j
    BY <1>2 DEF IsInjective
  <2>1. old(i) = old(j)
    BY <1>1, <1>3 DEF IsInjective
  <2>2. QED
    BY <1>4, <2>1
<1>9. InOrder(q, due)
  <2> SUFFICES ASSUME NEW i \in 1 .. m - 1, NEW j \in 1 .. m - 1, i < j
               PROVE  due[q[i]] <= due[q[j]]
    BY <1>2 DEF InOrder
  <2>1. old(i) < old(j)
    BY <1>4
  <2>2. QED
    BY <1>1, <1>3, <2>1 DEF InOrder
<1>10. ASSUME q # <<>>
       PROVE  due[Head(queue)] <= due[Head(q)] /\ (p # 1 => Head(q) = Head(queue))
  <2>1. 1 \in 1 .. m - 1 /\ Head(q) = q[1]
    BY <1>1, <1>10
  <2>2. old(1) = IF p = 1 THEN 2 ELSE 1
    BY <1>1 DEF old
  <2>3. CASE p = 1
    <3>1. q[1] = queue[2] /\ 1 \in DOMAIN queue /\ 2 \in DOMAIN queue
      BY <1>1, <1>3, <2>1, <2>2, <2>3
    <3>2. QED
      BY <1>1, <2>1, <2>3, <3>1 DEF InOrder
  <2>4. CASE p # 1
    BY <1>1, <1>3, <2>1, <2>2, <2>4
  <2>5. QED
    BY <2>3, <2>4
<1>11. QED
  BY <1>7, <1>8, <1>9, <1>10

(* ticker_remove_event takes out the event and nothing else. *)
LEMMA Removed ==
  ASSUME TypeInv, IsInjective(queue), InOrder(queue, due), NEW e
  PROVE  /\ Without(e) \in Seq(Events)
         /\ ToSet(Without(e)) = ToSet(queue) \ {e}
         /\ IsInjective(Without(e)) /\ InOrder(Without(e), due)
         /\ Without(e) # <<>> =>
              /\ queue # <<>> /\ due[Head(queue)] <= due[Head(Without(e))]
              /\ Head(queue) # e => Head(Without(e)) = Head(queue)
<1>1. /\ queue \in Seq(Events) /\ Len(queue) \in Nat /\ DOMAIN queue = 1 .. Len(queue)
      /\ queue # <<>> => Head(queue) = queue[1] /\ due[Head(queue)] \in Int
  BY LenProperties DEF TypeInv
<1>2. CASE e \in ToSet(queue)
  <2> DEFINE p == CHOOSE i \in DOMAIN queue : queue[i] = e
  <2>1. p \in DOMAIN queue /\ queue[p] = e
    BY <1>2 DEF ToSet
  <2>2. Without(e) = RemoveAt(queue, p)
    BY <1>2 DEF Without
  <2> HIDE DEF p
  <2>3. /\ RemoveAt(queue, p) \in Seq(Events)
        /\ Len(RemoveAt(queue, p)) = Len(queue) - 1
        /\ \A i \in 1 .. Len(queue) - 1 :
             RemoveAt(queue, p)[i] = IF i < p THEN queue[i] ELSE queue[i + 1]
    BY <1>1, <2>1, RemoveAtFacts
  <2>4. p \in 1 .. Len(queue) /\ queue # <<>>
    BY <1>1, <2>1
  <2>5. QED
    BY <1>1, <2>1, <2>2, <2>3, <2>4, LeftOut
<1>3. CASE e \notin ToSet(queue)
  BY <1>1, <1>3 DEF Without
<1>4. QED
  BY <1>2, <1>3

(* The interrupt handler takes out the first event. *)
LEMMA HeadTaken ==
  ASSUME TypeInv, IsInjective(queue), InOrder(queue, due), queue # <<>>
  PROVE  /\ Tail(queue) \in Seq(Events) /\ Head(queue) \in ToSet(queue)
         /\ Head(queue) \in Events
         /\ ToSet(Tail(queue)) = ToSet(queue) \ {Head(queue)}
         /\ IsInjective(Tail(queue)) /\ InOrder(Tail(queue), due)
         /\ Tail(queue) # <<>> => due[Head(queue)] <= due[Head(Tail(queue))]
<1>1. /\ queue \in Seq(Events) /\ Len(queue) \in Nat \ {0}
      /\ DOMAIN queue = 1 .. Len(queue)
      /\ Head(queue) = queue[1]
  BY LenProperties, EmptySeq DEF TypeInv
<1>2. /\ Tail(queue) \in Seq(Events) /\ Len(Tail(queue)) = Len(queue) - 1
      /\ \A i \in 1 .. Len(queue) - 1 : Tail(queue)[i] = queue[i + 1]
      /\ Head(queue) \in Events
  BY <1>1, HeadTailProperties
<1>3. 1 \in 1 .. Len(queue)
      /\ \A i \in 1 .. Len(queue) - 1 :
           Tail(queue)[i] = IF i < 1 THEN queue[i] ELSE queue[i + 1]
  BY <1>1, <1>2
<1>4. Head(queue) \in ToSet(queue)
  BY <1>1 DEF ToSet
<1>5. QED
  BY <1>1, <1>2, <1>3, <1>4, LeftOut

-----------------------------------------------------------------------------
(* The steps of a critical section. *)

(* One task, as the contents of a section *)
LEMMA One ==
  ASSUME NEW a \in Tasks, a.op # "remove"
  PROVE  /\ <<a>> \in Seq(Tasks) /\ <<a>> # <<>> /\ Head(<<a>>) = a
         /\ ToSet(<<a>>) = {a} /\ Shape(<<a>>)
<1>1. <<a>> \in Seq(Tasks) /\ Len(<<a>>) = 1 /\ <<a>>[1] = a /\ DOMAIN <<a>> = {1}
  OBVIOUS
<1>2. QED
  BY <1>1 DEF ToSet, Shape

(* Two tasks in the order of their ranks *)
LEMMA Two ==
  ASSUME NEW a \in Tasks, NEW b \in Tasks, Rank(a.op) < Rank(b.op), b.op # "handle",
         a.op = "remove" => b.op \in {"setup", "release"} /\ b.ev = a.ev,
         b.op # "remove"
  PROVE  /\ <<a, b>> \in Seq(Tasks) /\ <<a, b>> # <<>> /\ Head(<<a, b>>) = a
         /\ ToSet(<<a, b>>) = {a, b} /\ Shape(<<a, b>>)
<1> DEFINE s == <<a, b>>
<1>1. /\ s \in Seq(Tasks) /\ Len(s) = 2 /\ s[1] = a /\ s[2] = b
      /\ DOMAIN s = {1, 2} /\ s # <<>> /\ Head(s) = a
  OBVIOUS
<1> HIDE DEF s
<1>2. ToSet(s) = {a, b}
  BY <1>1 DEF ToSet
<1>3. Shape(s)
  BY <1>1 DEF Shape
<1>4. QED
  BY <1>1, <1>2, <1>3 DEF s

(* Two sections of one task, or one and the empty section, joined *)
LEMMA Joined ==
  ASSUME NEW a, NEW b
  PROVE  <<a>> \o <<b>> = <<a, b>> /\ <<>> \o <<b>> = <<b>>
<1> DEFINE S == {a, b}
           p == <<a>>
           q == <<b>>
           r == <<a, b>>
<1>1. /\ p \in Seq(S) /\ q \in Seq(S) /\ r \in Seq(S)
      /\ Len(p) = 1 /\ Len(q) = 1 /\ p[1] = a /\ q[1] = b
      /\ Len(r) = 2 /\ r[1] = a /\ r[2] = b
  OBVIOUS
<1> HIDE DEF p, q, r, S
<1>2. <<>> \o q = q
  BY <1>1, ConcatEmptySeq
<1>3. /\ p \o q \in Seq(S) /\ Len(p \o q) = Len(p) + Len(q)
      /\ \A i \in 1 .. Len(p) + Len(q) : (p \o q)[i] =
           IF i <= Len(p) THEN p[i] ELSE q[i - Len(p)]
  BY <1>1, ConcatProperties
<1>4. /\ Len(p \o q) = Len(r)
      /\ \A i \in 1 .. Len(p \o q) : (p \o q)[i] = r[i]
  <2>1. Len(p) + Len(q) = 2 /\ 1 .. 2 = {1, 2} /\ 2 - 1 = 1
    BY <1>1
  <2>2. QED
    BY <1>1, <1>3, <2>1
<1>5. p \o q = r
  BY <1>1, <1>3, <1>4, SeqEqual
<1>6. QED
  BY <1>2, <1>5 DEF p, q, r

(* The first task gives way to others. *)
LEMMA StepTo ==
  ASSUME TypeInv, Shape(todo), todo # <<>>,
         NEW s \in Seq(Tasks), Shape(s), s # <<>>,
         \A t \in ToSet(s) : Rank(t.op) <= Rank(Task.op), Then(s)
  PROVE  /\ todo' \in Seq(Tasks) /\ Shape(todo)' /\ todo' # <<>>
         /\ Task' = Head(s) /\ ToSet(todo)' = ToSet(s) \cup Rest
         /\ masked' = masked /\ counter' = counter
<1>1. todo' = s \o Tail(todo)
  BY DEF Then
<1>2. QED
  BY <1>1, Replaced DEF Then, TypeInv, Task

(* The first task is done. *)
LEMMA StepOver ==
  ASSUME TypeInv, Shape(todo), todo # <<>>, Then(<<>>)
  PROVE  /\ todo' \in Seq(Tasks) /\ Shape(todo)'
         /\ ToSet(todo)' = Rest
         /\ todo' # <<>> => Task' \in Rest /\ masked' = masked
         /\ todo' = <<>> => Rest = {} /\ masked' = 0
         /\ counter' = counter
<1>1. todo' = Tail(todo)
  BY DroppedTail DEF Then, TypeInv
<1>2. QED
  BY <1>1, HeadAndRest DEF Then, TypeInv, Task, Rest

(* A step that leaves the lists alone, and whose first task moves no event *)
(* before or after it, keeps what holds of the lists.                      *)
LEMMA SameLists ==
  ASSUME TypeInv, Shape(todo), ListInv, LockInv, todo # <<>>,
         ~Moving(Task), Task.op # "remove",
         UNCHANGED <<queue, due, attached, lock>>,
         NEW S, ToSet(todo)' = S \cup Rest, \A t \in S : ~Moving(t)
  PROVE  ListInv' /\ LockInv'
<1>1. ToSet(todo) = {Task} \cup Rest
  BY HeadAndRest DEF TypeInv
<1>2. \A t \in ToSet(todo)' : Moving(t) => t \in ToSet(todo)
  BY <1>1
<1>3. \A t \in ToSet(todo) : Moving(t) => t \in ToSet(todo)'
  BY <1>1
<1>4. ListInv'
  BY <1>2 DEF ListInv, InOrder, ToSet
<1>5. LockInv'
  <2>1. \A t : t.op \in {"setup", "handle"} => Moving(t)
    BY DEF Moving
  <2>2. ToSet(queue)' = ToSet(queue)
    BY DEF ToSet
  <2>3. QED
    BY <1>2, <1>3, <2>1, <2>2 DEF LockInv
<1>6. QED
  BY <1>4, <1>5

(* The same, when the first task is just done *)
LEMMA SameListsOver ==
  ASSUME TypeInv, Shape(todo), ListInv, LockInv, todo # <<>>,
         ~Moving(Task), Task.op # "remove",
         UNCHANGED <<queue, due, attached, lock>>, ToSet(todo)' = Rest
  PROVE  ListInv' /\ LockInv'
<1> DEFINE S == {t \in Rest : FALSE}
<1>1. ToSet(todo)' = S \cup Rest /\ \A t \in S : ~Moving(t)
  OBVIOUS
<1> HIDE DEF S
<1>2. QED
  BY <1>1, SameLists

(* The first event of the queue is not earlier than before. *)
HeadNotEarlier ==
  queue' # <<>> => queue # <<>> /\ due[Head(queue)] <= due'[Head(queue')]

(* Types of the first event *)
LEMMA HeadTyped ==
  ASSUME NEW q \in Seq(Events), NEW d \in [Events -> Int], q # <<>>
  PROVE  Head(q) \in Events /\ d[Head(q)] \in Int
BY HeadTailProperties

(* A step that only works on the lists keeps the bounds. *)
LEMMA QuietStep ==
  ASSUME TypeInv, BoundInv, TypeInv', TimeKept', todo # <<>>,
         Task.op \notin {"set", "start", "recheck"},
         lag' = lag \/ lag' = 0, UNCHANGED <<left, pend>>,
         masked' = IF todo' = <<>> THEN 0 ELSE masked,
         todo' # <<>> => Task'.op \notin {"set", "start", "recheck", "handle"},
         InIsr' <=> InIsr, todo' = <<>> => ~InIsr,
         WillSchedule' \/ (~WillSchedule /\ HeadNotEarlier),
         todo' = <<>> => ~WillSchedule',
         \/ HeadNotEarlier
         \/ due'[Head(queue')] >= 0
         \/ InIsr /\ due'[Head(queue')] + (3 * MaxMasked + masked) >= 0
  PROVE  BoundInv'
<1> USE Bounds
<1>1. lag \in Nat /\ masked \in 0 .. MaxMasked
  BY DEF TypeInv
<1>2. /\ queue # <<>> => due[Head(queue)] \in Int
      /\ queue' # <<>> => due'[Head(queue')] \in Int
  BY HeadTyped DEF TypeInv
<1>3. Setting' /\ Starting' /\ Rechecking'
  BY DEF Setting, Starting, Rechecking, Doing
<1>4. ASSUME ~WillSchedule' PROVE Armed
  BY <1>4 DEF BoundInv, Working
<1>5. ASSUME ~WillSchedule', Counting PROVE Counting'
  <2>1. HeadNotEarlier
    BY <1>5
  <2>2. left' # Off /\ lag' + left' <= MaxDelta + MaxMasked
    <3>1. left \in Nat /\ left # Off /\ lag + left <= MaxDelta + MaxMasked
      BY <1>5 DEF Counting, TypeInv
    <3>2. left' = left
      OBVIOUS
    <3>3. left <= MaxDelta + MaxMasked
      BY <1>1, <3>1
    <3>4. CASE lag' = lag
      BY <3>1, <3>2, <3>4
    <3>5. CASE lag' = 0
      BY <3>1, <3>2, <3>3, <3>5
    <3>6. QED
      BY <3>4, <3>5
  <2>3. queue' # <<>> => left' <= due'[Head(queue')] + MaxMasked
    <3>1. left \in Nat /\ left' = left
      BY <1>5 DEF Counting, TypeInv
    <3>2. QED
      BY <1>2, <1>5, <2>1, <3>1 DEF Counting, HeadNotEarlier
  <2>4. QED
    BY <2>2, <2>3 DEF Counting
<1>6. CASE todo' = <<>>
  <2>1. ~WillSchedule' /\ ~InIsr /\ masked' = 0
    BY <1>6
  <2>2. Waiting'
    <3>1. CASE Counting
      BY <1>5, <2>1, <3>1 DEF Waiting
    <3>2. CASE ~Counting
      <4>1. pend /\ lag <= MaxDelta + MaxMasked + masked
        BY <1>4, <2>1, <3>2 DEF Armed
      <4>2. 1 * MaxMasked + masked \in Nat /\ OverdueAtMost(1 * MaxMasked + masked)
        BY <1>1, <2>1 DEF BoundInv, Working
      <4>3. queue' # <<>> => due'[Head(queue')] + (1 * MaxMasked + masked) >= 0
        BY <1>2, <2>1, <4>2 DEF OverdueAtMost, HeadNotEarlier
      <4>4. QED
        BY <1>1, <1>2, <2>1, <4>1, <4>3 DEF Waiting, OverdueAtMost
    <3>3. QED
      BY <3>1, <3>2
  <2>3. Working'
    BY <1>6 DEF Working
  <2>4. QED
    BY <1>3, <2>2, <2>3 DEF BoundInv
<1>7. CASE todo' # <<>>
  <2>1. masked' = masked
    BY <1>7
  <2>2. Waiting'
    BY <1>7 DEF Waiting
  <2>3. WillSchedule' \/ Armed'
    BY <1>1, <1>4, <1>5, <2>1 DEF Armed
  <2>4. OverdueAtMost((IF InIsr THEN 3 ELSE 1) * MaxMasked + masked)'
    BY <1>1, <1>2, <2>1 DEF BoundInv, Working, OverdueAtMost, HeadNotEarlier
  <2>5. Working'
    <3>1. lag' <= MaxDelta + 3 * MaxMasked + masked'
      BY <1>1, <2>1 DEF BoundInv, Working
    <3>2. QED
      BY <1>7, <2>3, <2>4, <3>1 DEF Working
  <2>6. QED
    BY <1>3, <2>2, <2>5 DEF BoundInv
<1>8. QED
  BY <1>6, <1>7

-----------------------------------------------------------------------------
(* The hardware. *)

(* The state after ticker_init satisfies the inductive invariant. *)
LEMMA InitIInv == Init => IInv
<1> SUFFICES ASSUME Init PROVE IInv
  OBVIOUS
<1> USE Bounds DEF Init
<1> DEFINE t == [op |-> "schedule"]
<1>0. t \in Tasks /\ t.op = "schedule" /\ todo = <<t>>
  BY DEF Tasks
<1>1. /\ todo \in Seq(Tasks) /\ todo # <<>> /\ Head(todo) = t
      /\ ToSet(todo) = {t} /\ Shape(todo)
  BY <1>0, One
<1>2. 0 \in Ticks /\ 0 \in 0 .. MaxMasked
  BY DEF Ticks
<1>3. TypeInv
  <2>1. due \in [Events -> Int] /\ delay \in [Periodic -> Nat] /\ queue \in Seq(Events)
    OBVIOUS
  <2>2. counter \in Ticks /\ last \in Ticks /\ lag \in Nat /\ masked \in 0 .. MaxMasked
    BY <1>2
  <2>3. left \in (Nat \ {0}) \cup {Off} /\ pend \in BOOLEAN
    OBVIOUS
  <2>4. attached \in SUBSET Events /\ lock \in Int
    OBVIOUS
  <2>5. todo \in Seq(Tasks)
    BY <1>1
  <2> QED
    BY <2>1, <2>2, <2>3, <2>4, <2>5, Zenon DEF TypeInv
<1>4. ToSet(queue) = {} /\ DOMAIN queue = {}
  BY DEF ToSet
<1>5. ListInv
  BY <1>4 DEF ListInv, IsInjective, InOrder
<1>6. LockInv
  BY <1>0, <1>1, <1>4, FS_EmptySet DEF LockInv
<1>7. TimeKept
  BY <1>2, ModDiff DEF TimeKept
<1>8. BoundInv
  <2>1. Task.op = "schedule" /\ todo # <<>>
    BY <1>0, <1>1 DEF Task
  <2>2. Waiting /\ Setting /\ Starting /\ Rechecking
    BY <2>1 DEF Waiting, Setting, Starting, Rechecking, Doing
  <2>3. WillSchedule
    BY <1>0, <1>1 DEF WillSchedule
  <2>4. Working
    BY <2>1, <2>3 DEF Working, OverdueAtMost
  <2>5. QED
    BY <1>7, <2>2, <2>4 DEF BoundInv
<1>9. QED
  BY <1>1, <1>3, <1>5, <1>6, <1>8 DEF IInv

(* A microsecond: the masked times are short enough for the counter not to *)
(* wrap unseen, and what is timed comes nearer.                            *)
LEMMA AdvanceIInv ==
  ASSUME IInv, Advance
  PROVE  IInv'
<1> USE Bounds
<1> DEFINE busy == todo # <<>> \/ pend
<1>0. /\ busy => masked < MaxMasked
      /\ counter' = (counter + 1) % Wrap /\ lag' = lag + 1
      /\ due' = [e \in Events |-> IF Timed(e) THEN due[e] - 1 ELSE 0]
      /\ left' = IF left \in {Off, 1} THEN Off ELSE left - 1
      /\ pend' = (pend \/ left = 1)
      /\ masked' = IF busy THEN masked + 1 ELSE 0
      /\ UNCHANGED <<last, queue, delay, attached, lock, todo>>
  BY DEF Advance
<1>1. /\ lag \in Nat /\ masked \in 0 .. MaxMasked /\ counter \in Ticks /\ last \in Ticks
      /\ due \in [Events -> Int] /\ queue \in Seq(Events)
      /\ left \in Nat \ {0} \/ left = Off
      /\ pend \in BOOLEAN
  BY DEF IInv, TypeInv
<1>2. \A e \in ToSet(queue) : e \in Events /\ due'[e] = due[e] - 1
  BY <1>0, <1>1 DEF Timed, ToSet
<1>3. queue # <<>> => /\ Head(queue) \in ToSet(queue)
                      /\ due[Head(queue)] \in Int
                      /\ due'[Head(queue)] = due[Head(queue)] - 1
  <2>1. queue # <<>> => Head(queue) \in ToSet(queue)
    BY <1>1 DEF ToSet
  <2>2. QED
    BY <1>1, <1>2, <2>1
<1>4. ((counter - last) % Wrap) + 1 < Wrap
  <2>1. lag = (counter - last) % Wrap
    BY DEF IInv, BoundInv, TimeKept
  <2>2. CASE todo # <<>>
    <3>1. lag <= MaxDelta + 3 * MaxMasked + masked
      BY <2>2 DEF IInv, BoundInv, Working
    <3>2. QED
      BY <1>0, <1>1, <2>1, <2>2, <3>1
  <2>3. CASE todo = <<>> /\ Counting
    <3>1. left \in Nat \ {0} /\ lag + left <= MaxDelta + MaxMasked
      BY <1>1, <2>3 DEF Counting
    <3>2. QED
      BY <1>1, <2>1, <3>1
  <2>4. CASE todo = <<>> /\ ~Counting
    <3>1. pend /\ lag <= MaxDelta + 2 * MaxMasked + masked
      BY <2>4 DEF IInv, BoundInv, Waiting
    <3>2. QED
      BY <1>0, <1>1, <2>1, <3>1
  <2>5. QED
    BY <2>2, <2>3, <2>4
<1>5. counter' \in Ticks /\ TimeKept'
  <2>1. /\ (counter + 1) % Wrap \in Ticks
        /\ (((counter + 1) % Wrap) - last) % Wrap = ((counter - last) % Wrap) + 1
    BY <1>1, <1>4, OneMore
  <2>2. QED
    BY <1>0, <2>1 DEF IInv, BoundInv, TimeKept
<1>6. TypeInv'
  <2>1. due' \in [Events -> Int]
    BY <1>0, <1>1
  <2>2. left' \in (Nat \ {0}) \cup {Off}
    <3>1. CASE left \in {Off, 1}
      BY <1>0, <3>1
    <3>2. CASE left \notin {Off, 1}
      <4>1. left \in Nat \ {0} /\ left # 1 /\ left' = left - 1
        BY <1>0, <1>1, <3>2
      <4>2. QED
        BY <4>1
    <3>3. QED
      BY <3>1, <3>2
  <2>3. masked' \in 0 .. MaxMasked
    BY <1>0, <1>1
  <2>4. pend' \in BOOLEAN /\ lag' \in Nat
    BY <1>0, <1>1
  <2>5. QED
    BY <1>0, <1>5, <2>1, <2>2, <2>3, <2>4 DEF IInv, TypeInv
<1>7. Shape(todo)'
  BY <1>0 DEF IInv
<1>8. ListInv'
  <2>1. InOrder(queue, due')
    <3> SUFFICES ASSUME NEW i \in DOMAIN queue, NEW j \in DOMAIN queue, i < j
                 PROVE  due'[queue[i]] <= due'[queue[j]]
      BY DEF InOrder
    <3>1. due[queue[i]] <= due[queue[j]]
      BY DEF IInv, ListInv, InOrder
    <3>2. /\ due'[queue[i]] = due[queue[i]] - 1 /\ due'[queue[j]] = due[queue[j]] - 1
          /\ due[queue[i]] \in Int /\ due[queue[j]] \in Int
      BY <1>1, <1>2 DEF ToSet
    <3>3. QED
      BY <3>1, <3>2
  <2>2. QED
    BY <1>0, <2>1 DEF IInv, ListInv, Task
<1>9. LockInv'
  BY <1>0 DEF IInv, LockInv
<1>10. /\ ~pend /\ left # 1 => ~pend'
       /\ pend \/ left = 1 => pend'
  BY <1>0, <1>1
<1>11. ASSUME Counting
       PROVE  \/ Counting'
              \/ /\ pend' /\ left = 1 /\ lag + 1 <= MaxDelta + MaxMasked
                 /\ queue # <<>> => due[Head(queue)] - 1 + MaxMasked >= 0
  <2>1. /\ left \in Nat \ {0} /\ left # Off /\ lag + left <= MaxDelta + MaxMasked
        /\ queue # <<>> => left <= due[Head(queue)] + MaxMasked
    BY <1>1, <1>11 DEF Counting
  <2>2. CASE left = 1
    BY <1>1, <1>3, <1>10, <2>1, <2>2
  <2>3. CASE left # 1
    <3>1. left' = left - 1 /\ left - 1 \in Nat
      BY <1>0, <2>1, <2>3
    <3>2. left' # Off
      BY <3>1 DEF Off
    <3>3. lag' + left' <= MaxDelta + MaxMasked
      BY <1>0, <1>1, <2>1, <3>1
    <3>4. queue' # <<>> => left' <= due'[Head(queue')] + MaxMasked
      BY <1>0, <1>3, <2>1, <3>1
    <3>5. QED
      BY <3>2, <3>3, <3>4 DEF Counting
  <2>4. QED
    BY <2>2, <2>3
<1>12. Waiting'
  <2> SUFFICES ASSUME todo = <<>>
               PROVE  \/ Counting'
                      \/ /\ pend'
                         /\ lag' <= MaxDelta + 2 * MaxMasked + masked'
                         /\ OverdueAtMost(2 * MaxMasked + masked)'
    BY <1>0 DEF Waiting
  <2>1. CASE Counting /\ ~pend
    <3>1. masked' = 0
      BY <1>0, <2>1
    <3>2. QED
      BY <1>0, <1>1, <1>3, <1>11, <2>1, <3>1 DEF OverdueAtMost
  <2>2. CASE Counting /\ pend
    <3>1. masked' = masked + 1 /\ pend'
      BY <1>0, <1>10, <2>2
    <3>2. QED
      BY <1>0, <1>1, <1>3, <1>11, <2>2, <3>1 DEF OverdueAtMost
  <2>3. CASE ~Counting
    <3>1. /\ pend /\ lag <= MaxDelta + 2 * MaxMasked + masked
          /\ OverdueAtMost(2 * MaxMasked + masked)
      BY <2>3 DEF IInv, BoundInv, Waiting
    <3>2. masked' = masked + 1 /\ pend'
      BY <1>0, <1>10, <3>1
    <3>3. QED
      BY <1>0, <1>1, <1>3, <3>1, <3>2 DEF OverdueAtMost
  <2>4. QED
    BY <2>1, <2>2, <2>3
<1>13. ASSUME todo # <<>> PROVE masked' = masked + 1 /\ Task' = Task /\ todo' # <<>>
  BY <1>0, <1>13 DEF Task
<1>14. \A tick : Ahead(tick)' = Ahead(tick)
  BY <1>0 DEF Ahead
<1>15. ASSUME Fresh, todo # <<>> PROVE Fresh'
  BY <1>0, <1>1, <1>13, <1>15 DEF Fresh
<1>16. Setting'
  <2> SUFFICES ASSUME Doing("set")' PROVE Setting'
    BY DEF Setting
  <2>1. Doing("set") /\ todo # <<>>
    BY <1>0 DEF Doing, Task
  <2>2. Setting
    BY DEF IInv, BoundInv
  <2>3. Task.recheck => queue # <<>> /\ Ahead(Task.tick) <= due'[Head(queue)] + lag'
    BY <1>0, <1>1, <1>3, <2>1, <2>2 DEF Setting
  <2>4. QED
    BY <1>0, <1>13, <1>14, <1>15, <2>1, <2>2, <2>3 DEF Setting
<1>17. Starting'
  <2> SUFFICES ASSUME Doing("start")' PROVE Starting'
    BY DEF Starting
  <2>1. Doing("start") /\ todo # <<>>
    BY <1>0 DEF Doing, Task
  <2>2. Starting
    BY DEF IInv, BoundInv
  <2>3. Ahead(Task.tick) \in Int /\ (Ahead(Task.tick) <= lag => Ahead(Task.tick) <= lag')
    BY <1>0, <1>1, <2>1, <2>2 DEF Starting
  <2>4. /\ Task.recheck => queue # <<>>
        /\ Task.recheck /\ Task.delta <= due[Head(queue)] + masked
             => Task.delta <= due'[Head(queue)] + masked'
    BY <1>1, <1>3, <1>13, <2>1, <2>2 DEF Starting
  <2>5. QED
    BY <1>0, <1>13, <1>14, <1>15, <2>1, <2>2, <2>3, <2>4 DEF Starting
<1>18. Rechecking'
  <2> SUFFICES ASSUME Doing("recheck")' PROVE Rechecking'
    BY DEF Rechecking
  <2>1. Doing("recheck") /\ todo # <<>>
    BY <1>0 DEF Doing, Task
  <2>2. Rechecking
    BY DEF IInv, BoundInv
  <2>3. Ahead(Task.tick) \in Int /\ (Ahead(Task.tick) <= lag => Ahead(Task.tick) <= lag')
    BY <1>0, <1>1, <2>1, <2>2 DEF Rechecking
  <2>4. QED
    BY <1>10, <1>11, <1>13, <1>14, <1>15, <2>1, <2>2, <2>3 DEF Rechecking
<1>19. Working'
  <2> SUFFICES ASSUME todo # <<>> PROVE Working'
    BY <1>0 DEF Working
  <2>1. Working /\ (InIsr' <=> InIsr) /\ (WillSchedule' <=> WillSchedule)
    BY <1>0 DEF IInv, BoundInv, InIsr, WillSchedule
  <2>2. lag' <= MaxDelta + 3 * MaxMasked + masked'
    BY <1>0, <1>1, <1>13, <2>1 DEF Working
  <2>3. Armed => Armed'
    BY <1>0, <1>1, <1>10, <1>11, <1>13 DEF Armed
  <2>4. OverdueAtMost((IF InIsr THEN 3 ELSE 1) * MaxMasked + masked)'
    BY <1>0, <1>1, <1>3, <1>13, <2>1 DEF Working, OverdueAtMost
  <2>5. ASSUME Task.op = "handle"
        PROVE  InIsr /\ due'[Task.ev] + 3 * MaxMasked + masked' >= 0
    <3>1. InIsr /\ due[Task.ev] + 3 * MaxMasked + masked >= 0
      BY <2>1, <2>5 DEF Working
    <3>2. Task.ev \in Events /\ due'[Task.ev] = due[Task.ev] - 1 /\ due[Task.ev] \in Int
      <4>1. Task \in Tasks /\ Task \in ToSet(todo)
        BY HeadAndRest DEF IInv, TypeInv
      <4>2. Task = [op |-> "handle", ev |-> Task.ev] /\ Task.ev \in Events
        BY <2>5, <4>1 DEF Tasks
      <4>3. QED
        BY <1>0, <1>1, <4>1, <4>2 DEF Timed
    <3>3. QED
      BY <1>1, <1>13, <3>1, <3>2
  <2>6. QED
    BY <1>13, <2>1, <2>2, <2>3, <2>4, <2>5 DEF Working
<1>20. QED
  BY <1>5, <1>6, <1>7, <1>8, <1>9, <1>12, <1>16, <1>17, <1>18, <1>19 DEF IInv, BoundInv

(* update_present_time brings the time up to date. *)
LEMMA Updated ==
  ASSUME TypeInv, TimeKept, UpdatePresentTime, counter' = counter
  PROVE  lag' = 0 /\ last' = counter /\ last' \in Ticks /\ TimeKept'
<1>1. lag' = 0 /\ last' = counter
  BY DEF TypeInv, TimeKept, UpdatePresentTime, Elapsed
<1>2. counter \in Ticks /\ (counter - counter) % Wrap = 0
  BY ModDiff, Bounds DEF TypeInv, Ticks
<1>3. QED
  BY <1>1, <1>2 DEF TimeKept

(* ticker_read_us outside a critical section *)
LEMMA ReadUsIInv ==
  ASSUME IInv, ReadUs
  PROVE  IInv'
<1> USE Bounds
<1>1. /\ todo = <<>> /\ ~pend /\ UpdatePresentTime
      /\ UNCHANGED <<counter, queue, due, delay, attached, lock, left, pend, todo, masked>>
  BY DEF ReadUs, lists, hw
<1>2. lag' = 0 /\ last' = counter /\ last' \in Ticks /\ TimeKept'
  BY <1>1, Updated DEF IInv, BoundInv
<1>3. TypeInv'
  BY <1>1, <1>2 DEF IInv, TypeInv
<1>4. Shape(todo)' /\ ListInv' /\ LockInv'
  BY <1>1 DEF IInv, ListInv, LockInv, Task
<1>5. Counting
  BY <1>1 DEF IInv, BoundInv, Waiting
<1>6. Counting'
  <2>1. left \in Nat /\ lag \in Nat /\ left # Off /\ lag + left <= MaxDelta + MaxMasked
    BY <1>5 DEF Counting, IInv, TypeInv
  <2>2. left <= MaxDelta + MaxMasked
    BY <2>1
  <2>3. lag' + left' <= MaxDelta + MaxMasked
    BY <1>1, <1>2, <2>1, <2>2
  <2>4. QED
    BY <1>1, <1>5, <2>3 DEF Counting
<1>7. Waiting'
  BY <1>6 DEF Waiting
<1>8. Setting' /\ Starting' /\ Rechecking' /\ Working'
  BY <1>1 DEF Setting, Starting, Rechecking, Working, Doing
<1>9. QED
  BY <1>2, <1>3, <1>4, <1>7, <1>8 DEF IInv, BoundInv

(* Outside a critical section no event is on its way. *)
LEMMA Idle ==
  ASSUME TypeInv, ListInv, LockInv, todo = <<>>,
         UNCHANGED <<queue, due, attached, lock>>,
         \A t \in ToSet(todo)' : ~Moving(t)
  PROVE  ListInv' /\ LockInv'
<1>1. ToSet(todo) = {}
  BY DEF ToSet
<1>2. ListInv'
  BY DEF ListInv
<1>3. ToSet(queue)' = ToSet(queue) /\ \A t : t.op \in {"setup", "handle"} => Moving(t)
  BY DEF ToSet, Moving
<1>4. LockInv'
  BY <1>1, <1>3 DEF LockInv
<1>5. QED
  BY <1>2, <1>4

(* pit_isr *)
LEMMA IsrEntryIInv ==
  ASSUME IInv, IsrEntry
  PROVE  IInv'
<1> USE Bounds
<1> DEFINE t == [op |-> "irq"]
<1>1. /\ todo = <<>> /\ pend /\ pend' = FALSE /\ left' = Off
      /\ todo' = <<t>> /\ masked' = 0
      /\ UNCHANGED <<counter, lag, last, queue, due, delay, attached, lock>>
  BY DEF IsrEntry, time, lists
<1>2. /\ t \in Tasks /\ t.op = "irq" /\ ~Moving(t)
  BY DEF Tasks, Moving
<1> HIDE DEF t
<1>3. /\ todo' \in Seq(Tasks) /\ todo' # <<>> /\ Task' = t
      /\ ToSet(todo)' = {t} /\ Shape(todo)'
  BY <1>1, <1>2, One DEF Task
<1>4. TypeInv'
  <2>1. left' \in (Nat \ {0}) \cup {Off} /\ pend' \in BOOLEAN
    BY <1>1
  <2>2. masked' \in 0 .. MaxMasked
    BY <1>1
  <2>3. QED
    BY <1>1, <1>3, <2>1, <2>2 DEF IInv, TypeInv
<1>5. ListInv' /\ LockInv'
  BY <1>1, <1>2, <1>3, Idle DEF IInv
<1>6. Waiting' /\ Setting' /\ Starting' /\ Rechecking'
  BY <1>2, <1>3 DEF Waiting, Setting, Starting, Rechecking, Doing
<1>7. lag \in Nat /\ masked \in 0 .. MaxMasked /\ (queue # <<>> => due[Head(queue)] \in Int)
  BY HeadTyped DEF IInv, TypeInv
<1>8. /\ lag <= MaxDelta + 3 * MaxMasked
      /\ queue # <<>> => due[Head(queue)] + 3 * MaxMasked >= 0
  <2>1. CASE Counting
    <3>1. left \in Nat
      BY <2>1 DEF Counting, IInv, TypeInv
    <3>2. QED
      BY <1>7, <2>1, <3>1 DEF Counting
  <2>2. CASE ~Counting
    <3>1. /\ lag <= MaxDelta + 2 * MaxMasked + masked
          /\ queue # <<>> => due[Head(queue)] + (2 * MaxMasked + masked) >= 0
      BY <1>1, <2>2 DEF IInv, BoundInv, Waiting, OverdueAtMost
    <3>2. QED
      BY <1>7, <3>1
  <2>3. QED
    BY <2>1, <2>2
<1>9. InIsr' /\ WillSchedule'
  BY <1>2, <1>3 DEF InIsr, WillSchedule
<1>10. OverdueAtMost((IF InIsr THEN 3 ELSE 1) * MaxMasked + masked)'
  BY <1>1, <1>7, <1>8, <1>9 DEF OverdueAtMost
<1>11. Working'
  <2>1. lag' <= MaxDelta + 3 * MaxMasked + masked'
    BY <1>1, <1>7, <1>8
  <2>2. QED
    BY <1>2, <1>3, <1>9, <1>10, <2>1 DEF Working
<1>12. TimeKept'
  BY <1>1 DEF IInv, BoundInv, TimeKept
<1>13. QED
  BY <1>3, <1>4, <1>5, <1>6, <1>11, <1>12 DEF IInv, BoundInv

-----------------------------------------------------------------------------
(* Setting up the countdown. *)

(* What kind of task the first one is *)
LEMMA TaskTyped ==
  ASSUME TypeInv, Shape(todo), todo # <<>>
  PROVE  /\ Task \in Tasks /\ Task \in ToSet(todo)
         /\ Task.op \in {"remove", "setup", "release", "handle"} => Task.ev \in Events
         /\ Task.op = "setup" => Task.us \in Nat
         /\ Task.op \in {"set", "start", "recheck"} => Task.tick \in Ticks
         /\ Task.op \in {"set", "start"} => Task.recheck \in BOOLEAN
         /\ Task.op = "start" => Task.delta \in Nat \ {0}
<1>1. Task \in Tasks /\ Task \in ToSet(todo)
  BY HeadAndRest DEF TypeInv
<1>2. QED
  BY <1>1 DEF Tasks

(* The section stays one of the interrupt or of a thread. *)
LEMMA SameIsr ==
  ASSUME TypeInv, Shape(todo), todo # <<>>, Task.op # "irq",
         NEW S, ToSet(todo)' = S \cup Rest, \A t \in S : t.op # "irq"
  PROVE  InIsr' <=> InIsr
<1>1. ToSet(todo) = {Task} \cup Rest
  BY HeadAndRest DEF TypeInv
<1>2. QED
  BY <1>1 DEF InIsr

(* The countdown is set up, or the interrupt requested: the section goes   *)
(* on with its other tasks or ends, and the time is fresh.                 *)
LEMMA SetUp ==
  ASSUME TypeInv, Shape(todo), Working, TypeInv', TimeKept', todo # <<>>, Then(<<>>),
         Rank(Task.op) = 1, UNCHANGED <<queue, due>>,
         lag' = 0 \/ (lag' = lag /\ lag <= masked), pend' \/ Counting'
  PROVE  BoundInv'
<1> USE Bounds
<1>1. /\ ToSet(todo)' = Rest
      /\ todo' # <<>> => Task' \in Rest /\ masked' = masked
      /\ todo' = <<>> => Rest = {} /\ masked' = 0
  BY StepOver
<1>2. \A t \in Rest : t.op \notin {"set", "start", "recheck", "handle"}
  BY HeadAndRest DEF TypeInv, Rank
<1>3. Setting' /\ Starting' /\ Rechecking'
  BY <1>1, <1>2 DEF Setting, Starting, Rechecking, Doing
<1>4. lag \in Nat /\ masked \in 0 .. MaxMasked /\ (queue # <<>> => due[Head(queue)] \in Int)
  BY HeadTyped DEF TypeInv
<1>5. InIsr' <=> InIsr
  <2>1. ToSet(todo) = {Task} \cup Rest /\ Task.op # "irq"
    BY HeadAndRest DEF TypeInv, Rank
  <2>2. QED
    BY <1>1, <2>1 DEF InIsr
<1>6. CASE todo' = <<>>
  <2>1. ~InIsr /\ masked' = 0
    BY <1>1, <1>5, <1>6 DEF InIsr
  <2>2. queue # <<>> => due[Head(queue)] + (1 * MaxMasked + masked) >= 0
    BY <2>1 DEF Working, OverdueAtMost
  <2>3. OverdueAtMost(2 * MaxMasked + masked)'
    BY <1>4, <2>1, <2>2 DEF OverdueAtMost
  <2>4. lag' <= MaxDelta + 2 * MaxMasked + masked'
    BY <1>4, <2>1
  <2>5. Waiting'
    BY <2>3, <2>4 DEF Waiting
  <2>6. Working'
    BY <1>6 DEF Working
  <2>7. QED
    BY <1>3, <2>5, <2>6 DEF BoundInv
<1>7. CASE todo' # <<>>
  <2>1. masked' = masked
    BY <1>1, <1>7
  <2>2. Waiting'
    BY <1>7 DEF Waiting
  <2>3. /\ lag' <= MaxDelta + MaxMasked + masked'
        /\ lag' <= MaxDelta + 3 * MaxMasked + masked'
    BY <1>4, <2>1
  <2>4. Armed'
    BY <2>3 DEF Armed
  <2>5. OverdueAtMost((IF InIsr THEN 3 ELSE 1) * MaxMasked + masked)'
    BY <1>4, <1>5, <2>1 DEF Working, OverdueAtMost
  <2>6. Working'
    BY <1>1, <1>2, <1>7, <2>3, <2>4, <2>5 DEF Working
  <2>7. QED
    BY <1>3, <2>2, <2>6 DEF BoundInv
<1>8. QED
  BY <1>6, <1>7

(* The part of the bounds that does not depend on the kind of the task *)
LEMMA SettingUp ==
  ASSUME TypeInv, Shape(todo), Working, TypeInv', todo # <<>>, todo' # <<>>,
         Task.op # "irq", Task'.op \in {"set", "start", "recheck"},
         ToSet(todo)' = {Task'} \cup Rest, masked' = masked,
         lag' = 0 \/ lag' = lag, UNCHANGED <<queue, due>>
  PROVE  Waiting' /\ Working'
<1> USE Bounds
<1>1. lag \in Nat /\ masked \in 0 .. MaxMasked /\ (queue # <<>> => due[Head(queue)] \in Int)
  BY HeadTyped DEF TypeInv
<1>2. InIsr' <=> InIsr
  BY SameIsr
<1>3. lag' <= MaxDelta + 3 * MaxMasked + masked'
  BY <1>1 DEF Working
<1>4. OverdueAtMost((IF InIsr THEN 3 ELSE 1) * MaxMasked + masked)'
  BY <1>1, <1>2 DEF Working, OverdueAtMost
<1>5. QED
  BY <1>3, <1>4 DEF Waiting, Working

(* schedule_interrupt hands a tick to set_interrupt. *)
LEMMA HandsOver ==
  ASSUME IInv, Doing("schedule"), UpdatePresentTime, NEW x \in 1 .. MaxDelta,
         NEW c \in BOOLEAN,
         Then(<<[op |-> "set", tick |-> (last' + x) % Wrap, recheck |-> c]>>),
         c <=> queue # <<>>, ~c => x = MaxDelta, c => x <= due[Head(queue)],
         UNCHANGED <<queue, due, delay, attached, lock, left, pend>>
  PROVE  IInv'
<1> USE Bounds
<1> DEFINE t == [op |-> "set", tick |-> (counter + x) % Wrap, recheck |-> c]
<1>1. /\ todo # <<>> /\ Task.op = "schedule" /\ TypeInv /\ Shape(todo) /\ Working
      /\ counter \in Ticks /\ counter' = counter
  BY DEF IInv, TypeInv, BoundInv, Doing, Then
<1>2. lag' = 0 /\ last' = counter /\ last' \in Ticks /\ TimeKept'
  BY <1>1, Updated DEF IInv, BoundInv
<1>3. x \in Ticks
  BY DEF Ticks
<1>4. (counter + x) % Wrap \in Ticks /\ (((counter + x) % Wrap) - counter) % Wrap = x
  BY <1>1, <1>3, AheadOf
<1>5. /\ t \in Tasks /\ t.op = "set" /\ t.tick = (counter + x) % Wrap /\ t.recheck = c
      /\ Rank(t.op) = 1 /\ ~Moving(t) /\ Then(<<t>>)
  BY <1>2, <1>4 DEF Tasks, Rank, Moving
<1> HIDE DEF t
<1>6. /\ <<t>> \in Seq(Tasks) /\ <<t>> # <<>> /\ Head(<<t>>) = t
      /\ ToSet(<<t>>) = {t} /\ Shape(<<t>>)
  BY <1>5, One
<1>7. /\ Rank(Task.op) = 1 /\ ~Moving(Task)
      /\ \A u \in ToSet(<<t>>) : Rank(u.op) <= Rank(Task.op)
      /\ \A u \in {t} : ~Moving(u)
  BY <1>1, <1>5, <1>6 DEF Rank, Moving
<1>8. /\ todo' \in Seq(Tasks) /\ Shape(todo)' /\ todo' # <<>>
      /\ Task' = t /\ ToSet(todo)' = {t} \cup Rest /\ masked' = masked
  BY <1>1, <1>5, <1>6, <1>7, StepTo
<1>9. TypeInv'
  BY <1>1, <1>2, <1>8 DEF TypeInv
<1>10. ListInv' /\ LockInv'
  <2>1. UNCHANGED <<queue, due, attached, lock>> /\ ListInv /\ LockInv /\ Task.op # "remove"
    BY <1>1 DEF IInv
  <2>2. QED
    BY <1>1, <1>7, <1>8, <2>1, SameLists
<1>11. Waiting' /\ Working'
  BY <1>1, <1>2, <1>5, <1>8, <1>9, SettingUp
<1>12. Setting'
  <2>1. Ahead(Task.tick)' = x /\ (Task.recheck)' = c
    BY <1>2, <1>4, <1>5, <1>8 DEF Ahead
  <2>2. masked \in Nat /\ (queue # <<>> => due[Head(queue)] \in Int)
    BY <1>1, HeadTyped DEF TypeInv
  <2>3. Fresh' /\ (c => x <= due'[Head(queue')] + lag')
    BY <1>2, <1>8, <2>2 DEF Fresh
  <2>4. QED
    BY <2>1, <2>3 DEF Setting
<1>13. Starting' /\ Rechecking'
  BY <1>5, <1>8 DEF Starting, Rechecking, Doing
<1>14. QED
  BY <1>2, <1>8, <1>9, <1>10, <1>11, <1>12, <1>13 DEF IInv, BoundInv

(* schedule_interrupt *)
LEMMA ScheduleInterruptIInv ==
  ASSUME IInv, ScheduleInterrupt
  PROVE  IInv'
<1> USE Bounds
<1>1. /\ Doing("schedule") /\ UpdatePresentTime
      /\ UNCHANGED <<queue, due, delay, attached, lock, left>>
  BY DEF ScheduleInterrupt, lists
<1>2. /\ todo # <<>> /\ Task.op = "schedule" /\ TypeInv /\ Shape(todo) /\ Working
      /\ counter' = counter
  BY <1>1 DEF IInv, BoundInv, Doing, ScheduleInterrupt, Then
<1>3. lag' = 0 /\ last' = counter /\ last' \in Ticks /\ TimeKept'
  BY <1>2, <1>1, Updated DEF IInv, BoundInv
<1>4. CASE queue = <<>>
  <2>1. /\ Then(<<[op |-> "set", tick |-> (last' + MaxDelta) % Wrap, recheck |-> FALSE]>>)
        /\ UNCHANGED pend
    BY <1>4 DEF ScheduleInterrupt
  <2>2. MaxDelta \in 1 .. MaxDelta
    OBVIOUS
  <2>3. QED
    BY <1>1, <1>4, <2>1, <2>2, HandsOver
<1>5. CASE queue # <<>> /\ DeltaUs(Head(queue)) <= 0
  <2>1. Then(<<>>) /\ pend' = TRUE
    BY <1>5 DEF ScheduleInterrupt
  <2>2. /\ todo' \in Seq(Tasks) /\ Shape(todo)' /\ ToSet(todo)' = Rest
        /\ masked' = masked \/ masked' = 0
    BY <1>2, <2>1, StepOver
  <2>3. TypeInv'
    <3>1. masked' \in 0 .. MaxMasked
      BY <1>2, <2>2 DEF TypeInv
    <3>2. QED
      BY <1>1, <1>2, <1>3, <2>1, <2>2, <3>1 DEF TypeInv
  <2>4. Rank(Task.op) = 1 /\ ~Moving(Task)
    BY <1>2 DEF Rank, Moving
  <2>5. ListInv' /\ LockInv'
    <3>1. UNCHANGED <<queue, due, attached, lock>> /\ ListInv /\ LockInv /\ Task.op # "remove"
      BY <1>1, <1>2 DEF IInv
    <3>2. QED
      BY <1>2, <2>2, <2>4, <3>1, SameListsOver
  <2>6. BoundInv'
    BY <1>1, <1>2, <1>3, <2>1, <2>3, <2>4, SetUp
  <2>7. QED
    BY <2>2, <2>3, <2>5, <2>6 DEF IInv
<1>6. CASE queue # <<>> /\ ~(DeltaUs(Head(queue)) <= 0)
  <2> DEFINE d == due[Head(queue)]
             x == IF d > MaxDelta THEN MaxDelta ELSE d
  <2>1. d \in Int /\ DeltaUs(Head(queue)) = d
    BY <1>2, <1>3, <1>6, HeadTyped DEF TypeInv, DeltaUs
  <2>2. x \in 1 .. MaxDelta /\ x <= d
    BY <1>6, <2>1
  <2>3. /\ Then(<<[op |-> "set", tick |-> (last' + x) % Wrap, recheck |-> TRUE]>>)
        /\ UNCHANGED pend
    BY <1>6, <2>1 DEF ScheduleInterrupt, ComputeTick
  <2>4. QED
    BY <1>1, <1>6, <2>2, <2>3, HandsOver
<1>7. QED
  BY <1>4, <1>5, <1>6

(* us_ticker_set_interrupt, up to its second read of the counter: a tick   *)
(* that is still ahead gives a countdown that is short enough.             *)
LEMMA SetInterruptIInv ==
  ASSUME IInv, SetInterrupt
  PROVE  IInv'
<1> USE Bounds
<1> DEFINE t == [op |-> "start", delta |-> DeltaTicks(Task.tick),
                 tick |-> Task.tick, recheck |-> Task.recheck]
<1>1. /\ todo # <<>> /\ Task.op = "set" /\ Then(<<t>>)
      /\ UNCHANGED <<lag, last, queue, due, delay, attached, lock, left, pend>>
  BY DEF SetInterrupt, time, lists, hw, Doing
<1>2. TypeInv /\ Shape(todo) /\ Working /\ Setting /\ TimeKept
  BY DEF IInv, BoundInv
<1>3. Task.tick \in Ticks /\ Task.recheck \in BOOLEAN
  BY <1>1, <1>2, TaskTyped
<1>4. /\ DeltaTicks(Task.tick) \in Nat \ {0}
      /\ Ahead(Task.tick) > lag => DeltaTicks(Task.tick) <= Ahead(Task.tick) - lag
  BY <1>2, <1>3, DeltaTicksFacts
<1>5. /\ t \in Tasks /\ t.op = "start" /\ t.tick = Task.tick /\ t.recheck = Task.recheck
      /\ t.delta = DeltaTicks(Task.tick) /\ Rank(t.op) = 1 /\ ~Moving(t)
  BY <1>3, <1>4 DEF Tasks, Rank, Moving
<1> HIDE DEF t
<1>6. /\ <<t>> \in Seq(Tasks) /\ <<t>> # <<>> /\ Head(<<t>>) = t
      /\ ToSet(<<t>>) = {t} /\ Shape(<<t>>)
  BY <1>5, One
<1>7. /\ Rank(Task.op) = 1 /\ ~Moving(Task)
      /\ \A u \in ToSet(<<t>>) : Rank(u.op) <= Rank(Task.op)
      /\ \A u \in {t} : ~Moving(u)
  BY <1>1, <1>5, <1>6 DEF Rank, Moving
<1>8. /\ todo' \in Seq(Tasks) /\ Shape(todo)' /\ todo' # <<>>
      /\ Task' = t /\ ToSet(todo)' = {t} \cup Rest /\ masked' = masked /\ counter' = counter
  BY <1>1, <1>2, <1>6, <1>7, StepTo
<1>9. TypeInv'
  BY <1>1, <1>2, <1>8 DEF TypeInv
<1>10. ListInv' /\ LockInv'
  <2>1. UNCHANGED <<queue, due, attached, lock>> /\ ListInv /\ LockInv /\ Task.op # "remove"
    BY <1>1 DEF IInv
  <2>2. QED
    BY <1>1, <1>2, <1>7, <1>8, <2>1, SameLists
<1>11. Waiting' /\ Working'
  BY <1>1, <1>2, <1>5, <1>8, <1>9, SettingUp
<1>12. Starting'
  <2> DEFINE a == Ahead(Task.tick)
             d == DeltaTicks(Task.tick)
             r == Task.recheck
  <2>1. /\ Ahead(Task.tick)' = a /\ Task'.tick = Task.tick
        /\ Task'.recheck = r /\ Task'.delta = d
    BY <1>1, <1>5, <1>8 DEF Ahead
  <2>2. /\ lag <= masked /\ a \in 1 .. MaxDelta /\ (r <=> queue # <<>>)
        /\ ~r => a = MaxDelta
        /\ r => a <= due[Head(queue)] + lag
    BY <1>1, <1>2 DEF Setting, Doing, Fresh
  <2>3. /\ lag \in Nat /\ masked \in 0 .. MaxMasked /\ r \in BOOLEAN
        /\ queue # <<>> => due[Head(queue)] \in Int
    BY <1>2, <1>3, HeadTyped DEF TypeInv
  <2>4. d \in Nat /\ (a > lag => d <= a - lag)
    BY <1>4
  <2> HIDE DEF a, d, r
  <2>5. \/ r /\ a <= lag
        \/ d <= MaxDelta /\ (r => d <= due[Head(queue)] + masked)
    <3>1. CASE a <= lag
      BY <2>2, <2>3, <3>1
    <3>2. CASE a > lag
      BY <2>2, <2>3, <2>4, <3>2
    <3>3. QED
      BY <2>2, <2>3, <3>1, <3>2
  <2>6. Fresh'
    BY <1>1, <1>8, <2>2 DEF Fresh
  <2>7. QED
    BY <1>1, <1>8, <2>1, <2>2, <2>5, <2>6 DEF Starting
<1>13. Setting' /\ Rechecking'
  BY <1>5, <1>8 DEF Setting, Rechecking, Doing
<1>14. TimeKept'
  BY <1>1, <1>2, <1>8 DEF TimeKept
<1>15. QED
  BY <1>8, <1>9, <1>10, <1>11, <1>12, <1>13, <1>14 DEF IInv, BoundInv

(* The countdown is started; when there is an event, the time is looked at *)
(* once more.                                                              *)
LEMMA StartCountdownIInv ==
  ASSUME IInv, StartCountdown
  PROVE  IInv'
<1> USE Bounds
<1>1. /\ todo # <<>> /\ Task.op = "start" /\ left' = Task.delta
      /\ UNCHANGED <<lag, last, queue, due, delay, attached, lock, pend>>
  BY DEF StartCountdown, time, lists, Doing
<1>2. TypeInv /\ Shape(todo) /\ Working /\ Starting /\ TimeKept
  BY DEF IInv, BoundInv
<1>3. Task.tick \in Ticks /\ Task.recheck \in BOOLEAN /\ Task.delta \in Nat \ {0}
  BY <1>1, <1>2, TaskTyped
<1>4. left' \in (Nat \ {0}) \cup {Off}
  BY <1>1, <1>3
<1>5. /\ Rank(Task.op) = 1 /\ ~Moving(Task) /\ Task.op # "remove"
      /\ UNCHANGED <<queue, due, attached, lock>> /\ ListInv /\ LockInv
  BY <1>1 DEF Rank, Moving, IInv
<1>6. /\ lag \in Nat /\ masked \in 0 .. MaxMasked
      /\ queue # <<>> => due[Head(queue)] \in Int
  BY <1>2, HeadTyped DEF TypeInv
<1>7. /\ lag <= masked /\ Ahead(Task.tick) \in 1 .. MaxDelta
      /\ Task.recheck <=> queue # <<>>
      /\ \/ Task.recheck /\ Ahead(Task.tick) <= lag
         \/ /\ Task.delta <= MaxDelta
            /\ Task.recheck => Task.delta <= due[Head(queue)] + masked
  BY <1>1, <1>2 DEF Starting, Doing, Fresh
<1>8. ASSUME Task.delta <= MaxDelta,
             Task.recheck => Task.delta <= due[Head(queue)] + masked
      PROVE  Counting'
  <2>1. left' # Off
    BY <1>1, <1>3 DEF Off
  <2>2. lag' + left' <= MaxDelta + MaxMasked
    BY <1>1, <1>3, <1>6, <1>7, <1>8
  <2>3. queue' # <<>> => left' <= due'[Head(queue')] + MaxMasked
    BY <1>1, <1>3, <1>6, <1>7, <1>8
  <2>4. QED
    BY <2>1, <2>2, <2>3 DEF Counting
<1>9. CASE Task.recheck
  <2> DEFINE t == [op |-> "recheck", tick |-> Task.tick]
  <2>1. Then(<<t>>)
    BY <1>9 DEF StartCountdown
  <2>2. t \in Tasks /\ t.op = "recheck" /\ t.tick = Task.tick /\ Rank(t.op) = 1 /\ ~Moving(t)
    BY <1>3 DEF Tasks, Rank, Moving
  <2> HIDE DEF t
  <2>3. /\ <<t>> \in Seq(Tasks) /\ <<t>> # <<>> /\ Head(<<t>>) = t
        /\ ToSet(<<t>>) = {t} /\ Shape(<<t>>)
    BY <2>2, One
  <2>4. /\ \A u \in ToSet(<<t>>) : Rank(u.op) <= Rank(Task.op)
        /\ \A u \in {t} : ~Moving(u)
    BY <1>5, <2>2, <2>3
  <2>5. /\ todo' \in Seq(Tasks) /\ Shape(todo)' /\ todo' # <<>>
        /\ Task' = t /\ ToSet(todo)' = {t} \cup Rest /\ masked' = masked /\ counter' = counter
    BY <1>1, <1>2, <2>1, <2>3, <2>4, StepTo
  <2>6. TypeInv'
    BY <1>1, <1>2, <1>4, <2>5 DEF TypeInv
  <2>7. ListInv' /\ LockInv'
    BY <1>1, <1>2, <1>5, <2>4, <2>5, SameLists
  <2>8. Waiting' /\ Working'
    BY <1>1, <1>2, <2>2, <2>5, <2>6, SettingUp
  <2>9. Rechecking'
    <3>1. Ahead(Task.tick)' = Ahead(Task.tick) /\ Task'.tick = Task.tick
      BY <1>1, <2>2, <2>5 DEF Ahead
    <3>2. Fresh'
      BY <1>1, <1>7, <2>5 DEF Fresh
    <3>3. Counting' \/ Ahead(Task.tick) <= lag
      BY <1>7, <1>8
    <3>4. QED
      BY <1>1, <1>7, <3>1, <3>2, <3>3 DEF Rechecking
  <2>10. Setting' /\ Starting'
    BY <2>2, <2>5 DEF Setting, Starting, Doing
  <2>11. TimeKept'
    BY <1>1, <1>2, <2>5 DEF TimeKept
  <2>12. QED
    BY <2>5, <2>6, <2>7, <2>8, <2>9, <2>10, <2>11 DEF IInv, BoundInv
<1>10. CASE ~Task.recheck
  <2>1. Then(<<>>)
    BY <1>10 DEF StartCountdown
  <2>2. /\ todo' \in Seq(Tasks) /\ Shape(todo)' /\ ToSet(todo)' = Rest
        /\ masked' = masked \/ masked' = 0
        /\ counter' = counter
    BY <1>1, <1>2, <2>1, StepOver
  <2>3. TypeInv'
    <3>1. masked' \in 0 .. MaxMasked
      BY <1>6, <2>2
    <3>2. QED
      BY <1>1, <1>2, <1>4, <2>2, <3>1 DEF TypeInv
  <2>4. ListInv' /\ LockInv'
    <3>1. todo # <<>>
      BY <1>1
    <3>2. QED
      BY <1>2, <1>5, <2>2, <3>1, SameListsOver
  <2>5. TimeKept'
    BY <1>1, <1>2, <2>2 DEF TimeKept
  <2>6. Counting'
    BY <1>7, <1>8, <1>10
  <2>7. BoundInv'
    BY <1>1, <1>2, <1>5, <1>7, <2>1, <2>3, <2>5, <2>6, SetUp
  <2>8. QED
    BY <2>2, <2>3, <2>4, <2>7 DEF IInv
<1>11. QED
  BY <1>3, <1>9, <1>10

(* After the countdown is started: a tick that went by meanwhile is seen,  *)
(* and the interrupt requested.                                            *)
LEMMA RecheckIInv ==
  ASSUME IInv, Recheck
  PROVE  IInv'
<1> USE Bounds
<1>1. /\ todo # <<>> /\ Task.op = "recheck" /\ Then(<<>>)
      /\ pend' = (pend \/ Passed(Task.tick))
      /\ UNCHANGED <<lag, last, queue, due, delay, attached, lock, left>>
  BY DEF Recheck, time, lists, Doing
<1>2. TypeInv /\ Shape(todo) /\ Working /\ Rechecking /\ TimeKept
  BY DEF IInv, BoundInv
<1>3. Task.tick \in Ticks
  BY <1>1, <1>2, TaskTyped
<1>4. /\ Rank(Task.op) = 1 /\ ~Moving(Task) /\ Task.op # "remove"
      /\ UNCHANGED <<queue, due, attached, lock>> /\ ListInv /\ LockInv
  BY <1>1 DEF Rank, Moving, IInv
<1>5. /\ lag <= masked /\ Ahead(Task.tick) \in 1 .. MaxDelta
      /\ pend \/ Counting \/ Ahead(Task.tick) <= lag
  BY <1>1, <1>2 DEF Rechecking, Doing, Fresh
<1>6. lag' = lag /\ lag <= masked /\ lag \in Nat /\ masked \in 0 .. MaxMasked
  BY <1>1, <1>2, <1>5 DEF TypeInv
<1>7. pend' \/ Counting'
  <2>1. CASE pend
    BY <1>1, <2>1
  <2>2. CASE Counting
    BY <1>1, <2>2 DEF Counting
  <2>3. CASE Ahead(Task.tick) <= lag
    <3>1. Passed(Task.tick)
      BY <1>2, <1>3, <1>5, <2>3, PassedFacts
    <3>2. QED
      BY <1>1, <3>1
  <2>4. QED
    BY <1>5, <2>1, <2>2, <2>3
<1>8. /\ todo' \in Seq(Tasks) /\ Shape(todo)' /\ ToSet(todo)' = Rest
      /\ masked' = masked \/ masked' = 0
      /\ counter' = counter
  BY <1>1, <1>2, StepOver
<1>9. TypeInv'
  <2>1. masked' \in 0 .. MaxMasked
    BY <1>6, <1>8
  <2>2. pend' \in BOOLEAN
    BY <1>1
  <2>3. QED
    BY <1>1, <1>2, <1>8, <2>1, <2>2 DEF TypeInv
<1>10. ListInv' /\ LockInv'
  <2>1. todo # <<>>
    BY <1>1
  <2>2. QED
    BY <1>2, <1>4, <1>8, <2>1, SameListsOver
<1>11. TimeKept'
  BY <1>1, <1>2, <1>8 DEF TimeKept
<1>12. BoundInv'
  BY <1>1, <1>2, <1>4, <1>6, <1>7, <1>9, <1>11, SetUp
<1>13. QED
  BY <1>8, <1>9, <1>10, <1>12 DEF IInv

-----------------------------------------------------------------------------
(* The lists. *)

(* The section will set the countdown up as before. *)
LEMMA SameSchedule ==
  ASSUME TypeInv, Shape(todo), todo # <<>>, Task.op \notin {"schedule", "irq"},
         NEW S, ToSet(todo)' = S \cup Rest, \A t \in S : t.op \notin {"schedule", "irq"}
  PROVE  WillSchedule' <=> WillSchedule
<1>1. ToSet(todo) = {Task} \cup Rest
  BY HeadAndRest DEF TypeInv
<1>2. QED
  BY <1>1 DEF WillSchedule

(* A task that is done and sets nothing up: what is left of the section *)
LEMMA Over ==
  ASSUME TypeInv, Shape(todo), todo # <<>>, Then(<<>>),
         Task.op \notin {"schedule", "irq", "set", "start", "recheck"},
         Rank(Task.op) > 1 \/ Rest # {}
  PROVE  /\ InIsr' <=> InIsr
         /\ WillSchedule' <=> WillSchedule
         /\ todo' = <<>> => ~InIsr /\ ~WillSchedule'
         /\ todo' # <<>> => Task'.op \notin {"set", "start", "recheck", "handle"}
         /\ masked' = IF todo' = <<>> THEN 0 ELSE masked
         /\ masked' = masked \/ masked' = 0
         /\ todo' \in Seq(Tasks) /\ Shape(todo)' /\ ToSet(todo)' = Rest
         /\ counter' = counter
<1> DEFINE S == {t \in Rest : FALSE}
<1>1. /\ todo' \in Seq(Tasks) /\ Shape(todo)'
      /\ ToSet(todo)' = Rest
      /\ todo' # <<>> => Task' \in Rest /\ masked' = masked
      /\ todo' = <<>> => Rest = {} /\ masked' = 0
      /\ counter' = counter
  BY StepOver
<1>2. /\ ToSet(todo)' = S \cup Rest
      /\ \A t \in S : t.op # "irq" /\ t.op \notin {"schedule", "irq"}
  BY <1>1
<1> HIDE DEF S
<1>3. (InIsr' <=> InIsr) /\ (WillSchedule' <=> WillSchedule)
  <2>1. InIsr' <=> InIsr
    BY <1>2, SameIsr
  <2>2. WillSchedule' <=> WillSchedule
    BY <1>2, SameSchedule
  <2>3. QED
    BY <2>1, <2>2
<1>4. \A t \in Rest : t.op \notin {"set", "start", "recheck", "handle"}
  BY HeadAndRest DEF TypeInv, Rank
<1>5. todo' = <<>> => ~InIsr /\ ~WillSchedule'
  BY <1>1, <1>3 DEF InIsr, WillSchedule
<1>6. QED
  BY <1>1, <1>3, <1>4, <1>5

(* A callback that leaves the ticker alone *)
LEMMA CallbackReturnsIInv ==
  ASSUME IInv, CallbackReturns
  PROVE  IInv'
<1> USE Bounds
<1>1. /\ todo # <<>> /\ Task.op = "call" /\ Then(<<>>)
      /\ UNCHANGED <<lag, last, queue, due, delay, attached, lock, left, pend>>
  BY DEF CallbackReturns, time, lists, hw, Doing
<1>2. TypeInv /\ Shape(todo) /\ BoundInv /\ TimeKept
  BY DEF IInv, BoundInv
<1>3. /\ Rank(Task.op) > 1 /\ ~Moving(Task) /\ Task.op # "remove"
      /\ Task.op \notin {"schedule", "irq", "set", "start", "recheck"}
      /\ UNCHANGED <<queue, due, attached, lock>> /\ ListInv /\ LockInv /\ todo # <<>>
  BY <1>1 DEF Rank, Moving, IInv
<1>4. /\ InIsr' <=> InIsr
      /\ WillSchedule' <=> WillSchedule
      /\ todo' = <<>> => ~InIsr /\ ~WillSchedule'
      /\ todo' # <<>> => Task'.op \notin {"set", "start", "recheck", "handle"}
      /\ masked' = IF todo' = <<>> THEN 0 ELSE masked
      /\ masked' = masked \/ masked' = 0
      /\ todo' \in Seq(Tasks) /\ Shape(todo)' /\ ToSet(todo)' = Rest
      /\ counter' = counter
  BY <1>1, <1>2, <1>3, Over
<1>5. TypeInv'
  <2>1. masked' \in 0 .. MaxMasked
    BY <1>2, <1>4 DEF TypeInv
  <2>2. QED
    BY <1>1, <1>2, <1>4, <2>1 DEF TypeInv
<1>6. ListInv' /\ LockInv'
  BY <1>2, <1>3, <1>4, SameListsOver
<1>7. TimeKept'
  BY <1>1, <1>2, <1>4 DEF TimeKept
<1>8. HeadNotEarlier
  BY <1>1, <1>2, HeadTyped DEF HeadNotEarlier, TypeInv
<1>9. BoundInv'
  BY <1>1, <1>2, <1>3, <1>4, <1>5, <1>7, <1>8, QuietStep
<1>10. QED
  BY <1>4, <1>5, <1>6, <1>9 DEF IInv

(* Ticker::detach after its remove gives the lock of the event back. *)
LEMMA ReleaseIInv ==
  ASSUME IInv, Release
  PROVE  IInv'
<1> USE Bounds
<1> DEFINE e == Task.ev
<1>1. /\ todo # <<>> /\ Task.op = "release" /\ Then(<<>>)
      /\ lock' = IF e \in attached THEN lock - 1 ELSE lock
      /\ attached' = attached \ {e}
      /\ UNCHANGED <<lag, last, queue, due, delay, left, pend>>
  BY DEF Release, time, hw, Doing
<1>2. TypeInv /\ Shape(todo) /\ BoundInv /\ TimeKept /\ ListInv /\ LockInv
  BY DEF IInv, BoundInv
<1>3. /\ Rank(Task.op) > 1 /\ Rank(Task.op) = 2 /\ Moving(Task)
      /\ Task.op \notin {"schedule", "irq", "set", "start", "recheck"}
  BY <1>1 DEF Rank, Moving
<1>4. /\ InIsr' <=> InIsr
      /\ WillSchedule' <=> WillSchedule
      /\ todo' = <<>> => ~InIsr /\ ~WillSchedule'
      /\ todo' # <<>> => Task'.op \notin {"set", "start", "recheck", "handle"}
      /\ masked' = IF todo' = <<>> THEN 0 ELSE masked
      /\ masked' = masked \/ masked' = 0
      /\ todo' \in Seq(Tasks) /\ Shape(todo)' /\ ToSet(todo)' = Rest
      /\ counter' = counter
  BY <1>1, <1>2, <1>3, Over
<1>5. /\ Task \in ToSet(todo) /\ ToSet(todo) = {Task} \cup Rest
      /\ \A t \in Rest : Rank(t.op) > 2 /\ t.op # "handle"
  BY <1>1, <1>2, <1>3, HeadAndRest DEF TypeInv
<1>6. \A t \in Rest : ~Moving(t) /\ t.op \notin {"setup", "handle"}
  BY <1>5 DEF Rank, Moving
<1>7. e \notin ToSet(queue) /\ e \in Events
  BY <1>1, <1>2, <1>3, <1>5, TaskTyped DEF ListInv
<1>8. lock' = Cardinality(attached') /\ IsFiniteSet(attached') /\ lock' \in Int
  <2>1. IsFiniteSet(attached) /\ lock = Cardinality(attached)
    BY <1>2 DEF LockInv
  <2>2. CASE e \in attached
    <3>1. IsFiniteSet(attached \ {e}) /\ Cardinality(attached \ {e}) = Cardinality(attached) - 1
      BY <2>1, <2>2, FS_RemoveElement
    <3>2. QED
      BY <1>1, <2>1, <2>2, <3>1, FS_CardinalityType
  <2>3. CASE e \notin attached
    <3>1. attached' = attached /\ lock' = lock
      BY <1>1, <2>3
    <3>2. Cardinality(attached) \in Nat
      BY <2>1, FS_CardinalityType
    <3>3. QED
      BY <2>1, <3>1, <3>2
  <2>4. QED
    BY <2>2, <2>3
<1>9. TypeInv'
  <2>1. masked' \in 0 .. MaxMasked /\ attached' \in SUBSET Events
    BY <1>1, <1>2, <1>4 DEF TypeInv
  <2>2. QED
    BY <1>1, <1>2, <1>4, <1>8, <2>1 DEF TypeInv
<1>10. ListInv'
  BY <1>1, <1>2, <1>4, <1>6 DEF ListInv
<1>11. LockInv'
  <2>1. ToSet(queue)' = ToSet(queue)
    BY <1>1 DEF ToSet
  <2>2. ToSet(queue) \subseteq attached'
    BY <1>1, <1>2, <1>7 DEF LockInv
  <2>3. \A f \in attached' : f \in ToSet(queue)
    BY <1>1, <1>2, <1>5, <1>6 DEF LockInv
  <2>4. QED
    BY <1>4, <1>6, <1>8, <2>1, <2>2, <2>3 DEF LockInv
<1>12. TimeKept'
  BY <1>1, <1>2, <1>4 DEF TimeKept
<1>13. HeadNotEarlier
  BY <1>1, <1>2, HeadTyped DEF HeadNotEarlier, TypeInv
<1>14. BoundInv'
  BY <1>1, <1>2, <1>3, <1>4, <1>9, <1>12, <1>13, QuietStep
<1>15. QED
  BY <1>4, <1>9, <1>10, <1>11, <1>14 DEF IInv

(* ticker_remove_event *)
LEMMA RemoveEventIInv ==
  ASSUME IInv, RemoveEvent
  PROVE  IInv'
<1> USE Bounds
<1> DEFINE e == Task.ev
           first == queue # <<>> /\ Head(queue) = e
<1>1. /\ todo # <<>> /\ Task.op = "remove"
      /\ queue' = Without(e)
      /\ due' = [due EXCEPT ![e] = 0]
      /\ Then(IF first THEN Schedule ELSE <<>>)
      /\ UNCHANGED <<lag, last, delay, attached, lock, left, pend>>
  BY DEF RemoveEvent, time, hw, Doing
<1>2. TypeInv /\ Shape(todo) /\ BoundInv /\ TimeKept /\ ListInv /\ LockInv
  BY DEF IInv, BoundInv
<1>3. /\ Task \in ToSet(todo) /\ ToSet(todo) = {Task} \cup Rest /\ e \in Events
      /\ \E t \in Rest : t.op \in {"setup", "release"} /\ t.ev = e
      /\ Rest # {}
  BY <1>1, <1>2, HeadAndRest, TaskTyped DEF TypeInv
<1>4. /\ queue' \in Seq(Events)
      /\ ToSet(queue') = ToSet(queue) \ {e}
      /\ IsInjective(queue') /\ InOrder(queue', due)
      /\ queue' # <<>> =>
           /\ queue # <<>> /\ due[Head(queue)] <= due[Head(queue')]
           /\ Head(queue) # e => Head(queue') = Head(queue)
  BY <1>1, <1>2, Removed DEF ListInv
<1>5. /\ due' \in [Events -> Int]
      /\ \A f \in ToSet(queue') : due'[f] = due[f]
  <2>1. \A f \in ToSet(queue) : f \in Events
    BY <1>2 DEF TypeInv, ToSet
  <2>2. due \in [Events -> Int]
    BY <1>2 DEF TypeInv
  <2>3. due' \in [Events -> Int] /\ \A f \in Events \ {e} : due'[f] = due[f]
    BY <1>1, <1>3, <2>2
  <2>4. QED
    BY <1>4, <2>1, <2>3
<1>6. InOrder(queue', due')
  <2>1. \A i \in DOMAIN queue' : queue'[i] \in ToSet(queue')
    BY DEF ToSet
  <2>2. QED
    BY <1>4, <1>5, <2>1 DEF InOrder
<1>7. HeadNotEarlier
  <2> SUFFICES ASSUME queue' # <<>>
               PROVE  queue # <<>> /\ due[Head(queue)] <= due'[Head(queue')]
    BY DEF HeadNotEarlier
  <2>1. Head(queue') \in ToSet(queue')
    BY <1>4 DEF ToSet
  <2>2. QED
    BY <1>4, <1>5, <2>1
<1>8. /\ Task.op \notin {"schedule", "irq", "set", "start", "recheck"}
      /\ Rank(Task.op) = 1 /\ ~Moving(Task)
  BY <1>1 DEF Rank, Moving
<1>9. /\ InIsr' <=> InIsr
      /\ first => WillSchedule'
      /\ WillSchedule' \/ ~WillSchedule
      /\ todo' = <<>> => ~InIsr /\ ~WillSchedule'
      /\ todo' # <<>> => Task'.op \notin {"set", "start", "recheck", "handle"}
      /\ masked' = IF todo' = <<>> THEN 0 ELSE masked
      /\ masked' = masked \/ masked' = 0
      /\ todo' \in Seq(Tasks) /\ Shape(todo)' /\ counter' = counter
      /\ Rest \subseteq ToSet(todo)'
      /\ \A t \in ToSet(todo)' : t \in Rest \/ t.op = "schedule"
  <2>1. CASE first
    <3> DEFINE t == [op |-> "schedule"]
    <3>1. t \in Tasks /\ t.op = "schedule" /\ Rank(t.op) = 1 /\ Then(<<t>>)
      BY <1>1, <2>1 DEF Tasks, Rank, Schedule
    <3> HIDE DEF t
    <3>2. /\ <<t>> \in Seq(Tasks) /\ <<t>> # <<>> /\ Head(<<t>>) = t
          /\ ToSet(<<t>>) = {t} /\ Shape(<<t>>)
      BY <3>1, One
    <3>3. /\ \A u \in ToSet(<<t>>) : Rank(u.op) <= Rank(Task.op)
          /\ \A u \in {t} : u.op # "irq"
      BY <1>8, <3>1, <3>2
    <3>4. /\ todo' \in Seq(Tasks) /\ Shape(todo)' /\ todo' # <<>>
          /\ Task' = t /\ ToSet(todo)' = {t} \cup Rest
          /\ masked' = masked /\ counter' = counter
      BY <1>1, <1>2, <3>1, <3>2, <3>3, StepTo
    <3>5. InIsr' <=> InIsr
      <4>1. todo # <<>> /\ Task.op # "irq"
        BY <1>1
      <4>2. QED
        BY <1>2, <3>3, <3>4, <4>1, SameIsr
    <3>6. WillSchedule'
      BY <3>1, <3>4 DEF WillSchedule
    <3>7. QED
      BY <3>1, <3>4, <3>5, <3>6
  <2>2. CASE ~first
    BY <1>1, <1>2, <1>3, <1>8, <2>2, Over
  <2>3. QED
    BY <2>1, <2>2
<1>10. TypeInv'
  <2>1. masked' \in 0 .. MaxMasked
    BY <1>2, <1>9 DEF TypeInv
  <2>2. QED
    BY <1>1, <1>2, <1>4, <1>5, <1>9, <2>1 DEF TypeInv
<1>11. ListInv'
  <2>1. \A t \in ToSet(todo)' : Moving(t) => t \in Rest /\ t.ev \notin ToSet(queue')
    BY <1>1, <1>2, <1>3, <1>4, <1>9 DEF ListInv, Moving
  <2>2. QED
    BY <1>4, <1>6, <2>1 DEF ListInv
<1>12. LockInv'
  <2>1. ToSet(queue)' \subseteq attached'
    BY <1>1, <1>2, <1>4 DEF LockInv
  <2>2. ASSUME NEW f \in attached
        PROVE  f \in ToSet(queue') \/ \E t \in ToSet(todo)' : Moving(t) /\ t.ev = f
    <3>1. CASE f = e
      BY <1>3, <1>9, <3>1 DEF Moving
    <3>2. CASE f # e
      BY <1>2, <1>3, <1>4, <1>8, <1>9, <3>2 DEF LockInv
    <3>3. QED
      BY <3>1, <3>2
  <2>3. \A t \in ToSet(todo)' : t.op \in {"setup", "handle"} => t.ev \in attached
    BY <1>2, <1>3, <1>9 DEF LockInv
  <2>4. QED
    BY <1>1, <1>2, <2>1, <2>2, <2>3 DEF LockInv
<1>13. TimeKept'
  BY <1>1, <1>2, <1>9 DEF TimeKept
<1>14. BoundInv'
  BY <1>1, <1>2, <1>7, <1>8, <1>9, <1>10, <1>13, QuietStep
<1>15. QED
  BY <1>9, <1>10, <1>11, <1>12, <1>14 DEF IInv

(* Ticker::setup after its remove *)
LEMMA SetupIInv ==
  ASSUME IInv, Setup
  PROVE  IInv'
<1> USE Bounds
<1> DEFINE e == Task.ev
           us == Task.us
           first == queue'[1] = e
<1>1. /\ todo # <<>> /\ Task.op = "setup" /\ UpdatePresentTime
      /\ delay' = [f \in Periodic |-> IF f = e THEN us ELSE delay[f]]
      /\ InsertEvent(e, us - lag')
      /\ Then(IF first THEN Schedule ELSE <<>>)
      /\ UNCHANGED <<attached, lock, left, pend>>
  BY DEF Setup, hw, Doing, AfterInsert
<1>2. TypeInv /\ Shape(todo) /\ BoundInv /\ TimeKept /\ ListInv /\ LockInv
  BY DEF IInv, BoundInv
<1>3. /\ Task \in ToSet(todo) /\ ToSet(todo) = {Task} \cup Rest
      /\ e \in Events /\ us \in Nat
      /\ \A t \in Rest : Rank(Task.op) < Rank(t.op) /\ t.op # "handle"
  BY <1>1, <1>2, HeadAndRest, TaskTyped DEF TypeInv
<1>4. lag' = 0 /\ last' = counter /\ last' \in Ticks /\ TimeKept' /\ counter' = counter
  <2>1. counter' = counter
    BY <1>1 DEF Then
  <2>2. QED
    BY <1>1, <1>2, <2>1, Updated
<1>5. /\ Task.op \notin {"schedule", "irq", "set", "start", "recheck"}
      /\ Rank(Task.op) = 2 /\ Moving(Task)
  BY <1>1 DEF Rank, Moving
<1>6. \A t \in Rest : ~Moving(t) /\ t.op \notin {"setup", "handle"}
  BY <1>3, <1>5 DEF Rank, Moving
<1>7. e \notin ToSet(queue) /\ e \in attached
  BY <1>1, <1>2, <1>3, <1>5 DEF ListInv, LockInv
<1>8. /\ queue' \in Seq(Events) /\ queue' # <<>>
      /\ due' \in [Events -> Int]
      /\ ToSet(queue') = ToSet(queue) \cup {e}
      /\ IsInjective(queue') /\ InOrder(queue', due')
      /\ due'[e] = us /\ \A f \in ToSet(queue) : due'[f] = due[f]
      /\ Head(queue') = queue'[1]
      /\ queue'[1] # e => queue # <<>> /\ Head(queue') = Head(queue)
  <2>1. us - lag' = us /\ us \in Int
    BY <1>3, <1>4
  <2>2. InsertEvent(e, us)
    BY <1>1, <2>1
  <2>3. IsInjective(queue) /\ InOrder(queue, due)
    BY <1>2 DEF ListInv
  <2>4. QED
    BY <1>2, <1>3, <1>7, <2>1, <2>2, <2>3, Inserted
<1>9. /\ ~first => HeadNotEarlier
      /\ first => due'[Head(queue')] >= 0
  <2>1. queue # <<>> => Head(queue) \in ToSet(queue) /\ due[Head(queue)] \in Int
    BY <1>2, HeadTyped DEF TypeInv, ToSet
  <2>2. QED
    BY <1>3, <1>8, <2>1 DEF HeadNotEarlier
<1>10. /\ InIsr' <=> InIsr
       /\ first => WillSchedule'
       /\ WillSchedule' \/ ~WillSchedule
       /\ todo' = <<>> => ~InIsr /\ ~WillSchedule'
       /\ todo' # <<>> => Task'.op \notin {"set", "start", "recheck", "handle"}
       /\ masked' = IF todo' = <<>> THEN 0 ELSE masked
       /\ masked' = masked \/ masked' = 0
       /\ todo' \in Seq(Tasks) /\ Shape(todo)'
       /\ Rest \subseteq ToSet(todo)'
       /\ \A t \in ToSet(todo)' : t \in Rest \/ t.op = "schedule"
  <2>1. CASE first
    <3> DEFINE t == [op |-> "schedule"]
    <3>1. t \in Tasks /\ t.op = "schedule" /\ Rank(t.op) = 1 /\ Then(<<t>>)
      BY <1>1, <2>1 DEF Tasks, Rank, Schedule
    <3> HIDE DEF t
    <3>2. /\ <<t>> \in Seq(Tasks) /\ <<t>> # <<>> /\ Head(<<t>>) = t
          /\ ToSet(<<t>>) = {t} /\ Shape(<<t>>)
      BY <3>1, One
    <3>3. /\ \A u \in ToSet(<<t>>) : Rank(u.op) <= Rank(Task.op)
          /\ \A u \in {t} : u.op # "irq"
      BY <1>5, <3>1, <3>2
    <3>4. /\ todo' \in Seq(Tasks) /\ Shape(todo)' /\ todo' # <<>>
          /\ Task' = t /\ ToSet(todo)' = {t} \cup Rest
          /\ masked' = masked
      BY <1>1, <1>2, <3>1, <3>2, <3>3, StepTo
    <3>5. InIsr' <=> InIsr
      <4>1. todo # <<>> /\ Task.op # "irq"
        BY <1>1
      <4>2. QED
        BY <1>2, <3>3, <3>4, <4>1, SameIsr
    <3>6. WillSchedule'
      BY <3>1, <3>4 DEF WillSchedule
    <3>7. QED
      BY <3>1, <3>4, <3>5, <3>6
  <2>2. CASE ~first
    <3>1. Then(<<>>) /\ Rank(Task.op) > 1
      BY <1>1, <1>5, <2>2
    <3>2. QED
      BY <1>1, <1>2, <1>5, <2>2, <3>1, Over
  <2>3. QED
    BY <2>1, <2>2
<1>11. TypeInv'
  <2>1. masked' \in 0 .. MaxMasked
    BY <1>2, <1>10 DEF TypeInv
  <2>2. delay' \in [Periodic -> Nat]
    BY <1>1, <1>2, <1>3 DEF TypeInv
  <2>3. lag' \in Nat /\ counter' \in Ticks /\ last' \in Ticks
    BY <1>2, <1>4 DEF TypeInv
  <2>4. QED
    BY <1>1, <1>2, <1>8, <1>10, <2>1, <2>2, <2>3 DEF TypeInv
<1>12. \A t \in ToSet(todo)' : ~Moving(t) /\ t.op \notin {"setup", "handle"}
  BY <1>6, <1>10 DEF Moving
<1>13. ListInv'
  BY <1>8, <1>12 DEF ListInv
<1>14. LockInv'
  <2>1. ToSet(queue)' \subseteq attached'
    BY <1>1, <1>2, <1>7, <1>8 DEF LockInv
  <2>2. \A f \in attached : f \in ToSet(queue')
    BY <1>2, <1>3, <1>6, <1>8 DEF LockInv
  <2>3. QED
    BY <1>1, <1>2, <1>12, <2>1, <2>2 DEF LockInv
<1>15. BoundInv'
  BY <1>1, <1>2, <1>4, <1>5, <1>9, <1>10, <1>11, QuietStep
<1>16. QED
  BY <1>10, <1>11, <1>13, <1>14, <1>15 DEF IInv

-----------------------------------------------------------------------------
(* The interrupt handler. *)

(* ticker_irq_handler: the first event is taken out when its time has      *)
(* come; otherwise the countdown is set up again and the section is the    *)
(* last of the interrupt.                                                  *)
LEMMA HandlePendingIInv ==
  ASSUME IInv, HandlePending
  PROVE  IInv'
<1> USE Bounds
<1>1. /\ todo # <<>> /\ Task.op = "irq"
      /\ UNCHANGED <<due, delay, attached, lock, left, pend>>
  BY DEF HandlePending, hw, Doing
<1>2. TypeInv /\ Shape(todo) /\ BoundInv /\ Working /\ TimeKept /\ ListInv /\ LockInv
  BY DEF IInv, BoundInv
<1>3. /\ Task \in ToSet(todo) /\ ToSet(todo) = {Task} \cup Rest
      /\ \A t \in Rest : Rank(Task.op) < Rank(t.op)
  BY <1>1, <1>2, HeadAndRest, TaskTyped DEF TypeInv
<1>4. Rank(Task.op) = 4 /\ ~Moving(Task) /\ Rest = {}
  BY <1>1, <1>3 DEF Rank, Moving
<1>5. /\ lag \in Nat /\ masked \in 0 .. MaxMasked
      /\ queue # <<>> => due[Head(queue)] \in Int /\ Head(queue) \in Events
  BY <1>2, HeadTyped DEF TypeInv
<1>6. InIsr /\ OverdueAtMost(3 * MaxMasked + masked)
  <2>1. InIsr
    BY <1>1, <1>3 DEF InIsr
  <2>2. QED
    BY <1>1, <1>2, <2>1 DEF Working
<1>7. ASSUME Then(Schedule), UNCHANGED queue, lag' = lag \/ lag' = 0, last' \in Ticks,
             TimeKept', queue # <<>> => due[Head(queue)] >= 0
      PROVE  IInv'
  <2> DEFINE t == [op |-> "schedule"]
  <2>1. t \in Tasks /\ t.op = "schedule" /\ Rank(t.op) = 1 /\ Then(<<t>>) /\ ~Moving(t)
    BY <1>7 DEF Tasks, Rank, Schedule, Moving
  <2> HIDE DEF t
  <2>2. /\ <<t>> \in Seq(Tasks) /\ <<t>> # <<>> /\ Head(<<t>>) = t
        /\ ToSet(<<t>>) = {t} /\ Shape(<<t>>)
    BY <2>1, One
  <2>3. /\ \A u \in ToSet(<<t>>) : Rank(u.op) <= Rank(Task.op)
        /\ \A u \in {t} : ~Moving(u)
    BY <1>4, <2>1, <2>2
  <2>4. /\ todo' \in Seq(Tasks) /\ Shape(todo)' /\ todo' # <<>>
        /\ Task' = t /\ ToSet(todo)' = {t} \cup Rest
        /\ masked' = masked /\ counter' = counter
    BY <1>1, <1>2, <2>1, <2>2, <2>3, StepTo
  <2>5. TypeInv'
    <3>1. lag' \in Nat
      BY <1>5, <1>7
    <3>2. QED
      BY <1>1, <1>2, <1>7, <2>4, <3>1 DEF TypeInv
  <2>6. ListInv' /\ LockInv'
    <3>1. /\ UNCHANGED <<queue, due, attached, lock>> /\ ListInv /\ LockInv
          /\ Task.op # "remove" /\ todo # <<>>
      BY <1>1, <1>2, <1>7
    <3>2. QED
      BY <1>2, <1>4, <2>3, <2>4, <3>1, SameLists
  <2>7. ~InIsr' /\ WillSchedule'
    BY <1>4, <2>1, <2>4 DEF InIsr, WillSchedule
  <2>8. OverdueAtMost((IF InIsr THEN 3 ELSE 1) * MaxMasked + masked)'
    BY <1>1, <1>5, <1>7, <2>4, <2>7 DEF OverdueAtMost
  <2>9. lag' <= MaxDelta + 3 * MaxMasked + masked'
    BY <1>1, <1>2, <1>5, <1>7, <2>4 DEF Working
  <2>10. Working'
    BY <2>1, <2>4, <2>7, <2>8, <2>9 DEF Working
  <2>11. Waiting' /\ Setting' /\ Starting' /\ Rechecking'
    BY <2>1, <2>4 DEF Waiting, Setting, Starting, Rechecking, Doing
  <2>12. QED
    BY <1>7, <2>4, <2>5, <2>6, <2>10, <2>11 DEF IInv, BoundInv
<1>8. CASE queue = <<>>
  <2>1. Then(Schedule) /\ UNCHANGED <<lag, last, queue>>
    BY <1>8 DEF HandlePending, time
  <2>2. last' \in Ticks /\ TimeKept'
    BY <1>2, <2>1 DEF TypeInv, TimeKept, Then
  <2>3. QED
    BY <1>7, <1>8, <2>1, <2>2
<1>9. ASSUME queue # <<>>
      PROVE  /\ UpdatePresentTime /\ counter' = counter
             /\ lag' = 0 /\ last' = counter /\ last' \in Ticks /\ TimeKept'
             /\ DeltaUs(Head(queue)) = due[Head(queue)]
  <2>1. UpdatePresentTime /\ counter' = counter
    BY <1>9 DEF HandlePending, Then
  <2>2. lag' = 0 /\ last' = counter /\ last' \in Ticks /\ TimeKept'
    BY <1>2, <2>1, Updated
  <2>3. QED
    BY <1>5, <1>9, <2>1, <2>2 DEF DeltaUs
<1>10. CASE queue # <<>> /\ ~(DeltaUs(Head(queue)) <= 0)
  <2>1. Then(Schedule) /\ UNCHANGED queue
    BY <1>10 DEF HandlePending
  <2>2. due[Head(queue)] >= 0
    BY <1>5, <1>9, <1>10
  <2>3. QED
    BY <1>7, <1>9, <1>10, <2>1, <2>2
<1>11. CASE queue # <<>> /\ DeltaUs(Head(queue)) <= 0
  <2> DEFINE e == Head(queue)
             t == [op |-> "handle", ev |-> e]
             u == [op |-> "irq"]
  <2>1. queue' = Tail(queue) /\ Then(<<t, u>>)
    BY <1>11 DEF HandlePending
  <2>2. /\ t \in Tasks /\ t.op = "handle" /\ t.ev = e /\ Rank(t.op) = 3 /\ Moving(t)
        /\ u \in Tasks /\ u.op = "irq" /\ Rank(u.op) = 4 /\ ~Moving(u)
    BY <1>5, <1>11 DEF Tasks, Rank, Moving
  <2>3. /\ Tail(queue) \in Seq(Events) /\ e \in ToSet(queue)
        /\ e \in Events
        /\ ToSet(Tail(queue)) = ToSet(queue) \ {e}
        /\ IsInjective(Tail(queue)) /\ InOrder(Tail(queue), due)
        /\ Tail(queue) # <<>> => due[e] <= due[Head(Tail(queue))]
    BY <1>2, <1>11, HeadTaken DEF ListInv
  <2> HIDE DEF t, u, e
  <2>4. /\ <<t, u>> \in Seq(Tasks) /\ <<t, u>> # <<>> /\ Head(<<t, u>>) = t
        /\ ToSet(<<t, u>>) = {t, u} /\ Shape(<<t, u>>)
    <3>1. /\ Rank(t.op) < Rank(u.op) /\ u.op # "handle" /\ t.op # "remove"
          /\ u.op # "remove"
      BY <2>2
    <3>2. QED
      BY <2>2, <3>1, Two
  <2>5. \A v \in ToSet(<<t, u>>) : Rank(v.op) <= Rank(Task.op)
    BY <1>4, <2>2, <2>4
  <2>6. /\ todo' \in Seq(Tasks) /\ Shape(todo)' /\ todo' # <<>>
        /\ Task' = t /\ ToSet(todo)' = {t, u} \cup Rest
        /\ masked' = masked /\ counter' = counter
    BY <1>1, <1>2, <2>1, <2>4, <2>5, StepTo
  <2>7. ToSet(todo)' = {t, u}
    BY <1>4, <2>6
  <2>8. TypeInv'
    <3>1. lag' \in Nat /\ last' \in Ticks
      BY <1>9, <1>11
    <3>2. QED
      BY <1>1, <1>2, <2>1, <2>3, <2>6, <3>1 DEF TypeInv
  <2>9. ListInv'
    <3>1. queue' = Tail(queue) /\ due' = due
      BY <1>1, <2>1
    <3>2. \A v \in ToSet(todo)' : Moving(v) => v.ev \notin ToSet(queue')
      BY <2>2, <2>3, <2>7, <3>1
    <3>3. QED
      BY <2>3, <3>1, <3>2 DEF ListInv
  <2>10. LockInv'
    <3>1. queue' = Tail(queue) /\ attached' = attached /\ lock' = lock
      BY <1>1, <2>1
    <3>2. ToSet(queue') \subseteq attached' /\ e \in attached
      BY <1>2, <2>3, <3>1 DEF LockInv
    <3>3. \A f \in attached : f \in ToSet(queue') \/ f = e
      BY <1>2, <1>3, <1>4, <2>3, <3>1 DEF LockInv
    <3>4. \A f \in attached' :
            f \in ToSet(queue)' \/ \E v \in ToSet(todo)' : Moving(v) /\ v.ev = f
      BY <2>2, <2>7, <3>1, <3>3
    <3>5. \A v \in ToSet(todo)' : v.op \in {"setup", "handle"} => v.ev \in attached'
      BY <2>2, <2>7, <3>1, <3>2
    <3>6. QED
      BY <1>2, <3>1, <3>2, <3>4, <3>5 DEF LockInv
  <2>11. InIsr' /\ WillSchedule'
    BY <2>2, <2>7 DEF InIsr, WillSchedule
  <2>12. due[e] + 3 * MaxMasked + masked >= 0 /\ due[e] \in Int
    BY <1>5, <1>6, <1>11 DEF OverdueAtMost, e
  <2>13. OverdueAtMost((IF InIsr THEN 3 ELSE 1) * MaxMasked + masked)'
    <3> SUFFICES ASSUME queue' # <<>>
                 PROVE  due'[Head(queue')] + (3 * MaxMasked + masked') >= 0
      BY <2>11 DEF OverdueAtMost
    <3>1. due[e] <= due[Head(Tail(queue))] /\ due[Head(Tail(queue))] \in Int
      BY <1>2, <2>1, <2>3, HeadTyped DEF TypeInv
    <3>2. due'[Head(queue')] = due[Head(Tail(queue))] /\ masked' = masked
      BY <1>1, <2>1, <2>6
    <3>3. \A x \in Int : due[e] <= x => x + (3 * MaxMasked + masked) >= 0
      BY <1>5, <2>12
    <3>4. QED
      BY <3>1, <3>2, <3>3
  <2>14. Working'
    <3>1. lag' <= MaxDelta + 3 * MaxMasked + masked'
      BY <1>5, <1>9, <1>11, <2>6
    <3>2. InIsr' /\ due'[Task'.ev] + 3 * MaxMasked + masked' >= 0
      BY <1>1, <2>2, <2>6, <2>11, <2>12
    <3>3. QED
      BY <2>6, <2>11, <2>13, <3>1, <3>2 DEF Working
  <2>15. Waiting' /\ Setting' /\ Starting' /\ Rechecking'
    BY <2>2, <2>6 DEF Waiting, Setting, Starting, Rechecking, Doing
  <2>16. QED
    BY <1>9, <1>11, <2>6, <2>8, <2>9, <2>10, <2>14, <2>15 DEF IInv, BoundInv
<1>12. QED
  BY <1>8, <1>10, <1>11

(* Timeout::handler gives the lock back before it calls the callback. *)
LEMMA HandleTimeoutIInv ==
  ASSUME IInv, HandleTimeout
  PROVE  IInv'
<1> USE Bounds
<1> DEFINE e == Task.ev
           t == [op |-> "release", ev |-> e]
           u == [op |-> "call"]
<1>1. /\ todo # <<>> /\ Task.op = "handle" /\ Then(<<t, u>>)
      /\ due' = [due EXCEPT ![e] = 0]
      /\ UNCHANGED <<lag, last, queue, delay, attached, lock, left, pend>>
  BY DEF HandleTimeout, time, hw, Doing
<1>2. TypeInv /\ Shape(todo) /\ BoundInv /\ Working /\ TimeKept /\ ListInv /\ LockInv
  BY DEF IInv, BoundInv
<1>3. /\ Task \in ToSet(todo) /\ ToSet(todo) = {Task} \cup Rest /\ e \in Events
      /\ \A v \in Rest : Rank(Task.op) < Rank(v.op) /\ v.op # "handle"
  BY <1>1, <1>2, HeadAndRest, TaskTyped DEF TypeInv
<1>4. Rank(Task.op) = 3 /\ Moving(Task) /\ \A v \in Rest : ~Moving(v)
  BY <1>1, <1>3 DEF Rank, Moving
<1>5. e \notin ToSet(queue) /\ e \in attached
  BY <1>1, <1>2, <1>3, <1>4 DEF ListInv, LockInv
<1>6. /\ t \in Tasks /\ t.op = "release" /\ t.ev = e /\ Rank(t.op) = 2 /\ Moving(t)
      /\ u \in Tasks /\ u.op = "call" /\ Rank(u.op) = 3 /\ ~Moving(u)
  BY <1>3 DEF Tasks, Rank, Moving
<1> HIDE DEF t, u
<1>7. /\ <<t, u>> \in Seq(Tasks) /\ <<t, u>> # <<>> /\ Head(<<t, u>>) = t
      /\ ToSet(<<t, u>>) = {t, u} /\ Shape(<<t, u>>)
  <2>1. /\ Rank(t.op) < Rank(u.op) /\ u.op # "handle" /\ t.op # "remove"
        /\ u.op # "remove"
    BY <1>6
  <2>2. QED
    BY <1>6, <2>1, Two
<1>8. \A v \in ToSet(<<t, u>>) : Rank(v.op) <= Rank(Task.op)
  BY <1>4, <1>6, <1>7
<1>9. /\ todo' \in Seq(Tasks) /\ Shape(todo)' /\ todo' # <<>>
      /\ Task' = t /\ ToSet(todo)' = {t, u} \cup Rest
      /\ masked' = masked /\ counter' = counter
  BY <1>1, <1>2, <1>7, <1>8, StepTo
<1>10. /\ due' \in [Events -> Int]
       /\ \A f \in ToSet(queue) : f \in Events /\ due'[f] = due[f] /\ due[f] \in Int
  <2>1. \A f \in ToSet(queue) : f \in Events
    BY <1>2 DEF TypeInv, ToSet
  <2>2. due \in [Events -> Int]
    BY <1>2 DEF TypeInv
  <2>3. /\ due' \in [Events -> Int]
        /\ \A f \in Events \ {e} : due'[f] = due[f] /\ due[f] \in Int
    BY <1>1, <1>3, <2>2
  <2>4. QED
    BY <1>5, <2>1, <2>3
<1>11. TypeInv'
  BY <1>1, <1>2, <1>9, <1>10 DEF TypeInv
<1>12. ListInv'
  <2>1. \A i \in DOMAIN queue : queue[i] \in ToSet(queue)
    BY DEF ToSet
  <2>2. InOrder(queue, due')
    BY <1>2, <1>10, <2>1 DEF ListInv, InOrder
  <2>3. \A v \in ToSet(todo)' : Moving(v) => v.ev \notin ToSet(queue)
    BY <1>4, <1>5, <1>6, <1>9
  <2>4. QED
    BY <1>1, <1>2, <2>2, <2>3 DEF ListInv
<1>13. LockInv'
  <2>1. queue' = queue /\ attached' = attached /\ lock' = lock
    BY <1>1
  <2>2. \A f \in attached : f \in ToSet(queue) \/ f = e
    BY <1>2, <1>3, <1>4 DEF LockInv
  <2>3. \A f \in attached' :
          f \in ToSet(queue)' \/ \E v \in ToSet(todo)' : Moving(v) /\ v.ev = f
    BY <1>6, <1>9, <2>1, <2>2
  <2>4. \A v \in ToSet(todo)' : v.op \notin {"setup", "handle"}
    BY <1>4, <1>6, <1>9 DEF Moving
  <2>5. QED
    BY <1>2, <2>1, <2>3, <2>4 DEF LockInv
<1>14. TimeKept'
  BY <1>1, <1>2, <1>9 DEF TimeKept
<1>15. HeadNotEarlier
  <2>1. queue # <<>> => Head(queue) \in ToSet(queue)
    BY <1>2 DEF TypeInv, ToSet
  <2>2. QED
    BY <1>1, <1>10, <2>1 DEF HeadNotEarlier
<1>16. (InIsr' <=> InIsr) /\ WillSchedule'
  <2>1. InIsr
    BY <1>1, <1>2 DEF Working
  <2>2. InIsr'
    BY <1>1, <1>3, <1>9, <2>1 DEF InIsr
  <2>3. QED
    BY <2>1, <2>2 DEF InIsr, WillSchedule
<1>17. Task.op \notin {"set", "start", "recheck"} /\ Task'.op \notin {"set", "start", "recheck", "handle"}
  BY <1>1, <1>6, <1>9
<1>18. BoundInv'
  BY <1>1, <1>2, <1>9, <1>11, <1>14, <1>15, <1>16, <1>17, QuietStep
<1>19. QED
  BY <1>9, <1>11, <1>12, <1>13, <1>18 DEF IInv

(* Ticker::handler: the event goes back into the list, possibly overdue. *)
LEMMA HandleTickerIInv ==
  ASSUME IInv, HandleTicker
  PROVE  IInv'
<1> USE Bounds
<1> DEFINE e == Task.ev
           ts == due[e] + delay[e]
           first == queue'[1] = e
           t == [op |-> "schedule"]
           u == [op |-> "call"]
           s == IF first THEN <<t, u>> ELSE <<u>>
<1>1. /\ todo # <<>> /\ Task.op = "handle" /\ e \in Periodic /\ UpdatePresentTime
      /\ InsertEvent(e, ts) /\ Then(s)
      /\ UNCHANGED <<delay, attached, lock, left, pend>>
  <2>1. <<t>> \o <<u>> = <<t, u>> /\ <<>> \o <<u>> = <<u>>
    BY Joined
  <2>2. AfterInsert(e) \o <<u>> = s
    BY <2>1 DEF AfterInsert, Schedule
  <2>3. QED
    BY <2>2 DEF HandleTicker, hw, Doing
<1>2. TypeInv /\ Shape(todo) /\ BoundInv /\ Working /\ TimeKept /\ ListInv /\ LockInv
  BY DEF IInv, BoundInv
<1>3. /\ Task \in ToSet(todo) /\ ToSet(todo) = {Task} \cup Rest /\ e \in Events
      /\ \A v \in Rest : Rank(Task.op) < Rank(v.op) /\ v.op # "handle"
  BY <1>1, <1>2, HeadAndRest, TaskTyped DEF TypeInv
<1>4. Rank(Task.op) = 3 /\ Moving(Task) /\ \A v \in Rest : ~Moving(v)
  BY <1>1, <1>3 DEF Rank, Moving
<1>5. e \notin ToSet(queue) /\ e \in attached
  BY <1>1, <1>2, <1>3, <1>4 DEF ListInv, LockInv
<1>6. /\ t \in Tasks /\ t.op = "schedule" /\ Rank(t.op) = 1 /\ ~Moving(t)
      /\ u \in Tasks /\ u.op = "call" /\ Rank(u.op) = 3 /\ ~Moving(u)
  BY DEF Tasks, Rank, Moving
<1> HIDE DEF t, u
<1>7. /\ s \in Seq(Tasks) /\ s # <<>> /\ Shape(s)
      /\ Head(s) \in {t, u} /\ u \in ToSet(s) /\ ToSet(s) \subseteq {t, u}
      /\ first => t \in ToSet(s)
  <2>1. /\ Rank(t.op) < Rank(u.op) /\ u.op # "handle" /\ t.op # "remove"
        /\ u.op # "remove"
    BY <1>6
  <2>2. /\ <<t, u>> \in Seq(Tasks) /\ <<t, u>> # <<>> /\ Head(<<t, u>>) = t
        /\ ToSet(<<t, u>>) = {t, u} /\ Shape(<<t, u>>)
    BY <1>6, <2>1, Two
  <2>3. /\ <<u>> \in Seq(Tasks) /\ <<u>> # <<>> /\ Head(<<u>>) = u
        /\ ToSet(<<u>>) = {u} /\ Shape(<<u>>)
    BY <1>6, <2>1, One
  <2>4. QED
    BY <2>2, <2>3
<1> HIDE DEF s
<1>8. \A v \in ToSet(s) : Rank(v.op) <= Rank(Task.op)
  BY <1>4, <1>6, <1>7
<1>9. /\ todo' \in Seq(Tasks) /\ Shape(todo)' /\ todo' # <<>>
      /\ Task' = Head(s) /\ ToSet(todo)' = ToSet(s) \cup Rest
      /\ masked' = masked /\ counter' = counter
  BY <1>1, <1>2, <1>7, <1>8, StepTo
<1>10. lag' = 0 /\ last' = counter /\ last' \in Ticks /\ TimeKept'
  BY <1>1, <1>2, <1>9, Updated
<1>11. due[e] \in Int /\ delay[e] \in Nat /\ ts \in Int
  BY <1>1, <1>2, <1>3 DEF TypeInv
<1>12. /\ queue' \in Seq(Events) /\ queue' # <<>>
       /\ due' \in [Events -> Int]
       /\ ToSet(queue') = ToSet(queue) \cup {e}
       /\ IsInjective(queue') /\ InOrder(queue', due')
       /\ due'[e] = ts /\ \A f \in ToSet(queue) : due'[f] = due[f]
       /\ Head(queue') = queue'[1]
       /\ queue'[1] # e => queue # <<>> /\ Head(queue') = Head(queue)
  <2>1. IsInjective(queue) /\ InOrder(queue, due)
    BY <1>2 DEF ListInv
  <2> HIDE DEF ts
  <2>2. QED
    BY <1>1, <1>2, <1>3, <1>5, <1>11, <2>1, Inserted
<1>13. TypeInv'
  <2>1. lag' \in Nat /\ counter' \in Ticks /\ last' \in Ticks
    BY <1>2, <1>9, <1>10 DEF TypeInv
  <2>2. QED
    BY <1>1, <1>2, <1>9, <1>12, <2>1 DEF TypeInv
<1>14. \A v \in ToSet(todo)' : ~Moving(v) /\ v.op \notin {"setup", "handle"}
  BY <1>4, <1>6, <1>7, <1>9 DEF Moving
<1>15. ListInv'
  BY <1>12, <1>14 DEF ListInv
<1>16. LockInv'
  <2>1. attached' = attached /\ lock' = lock
    BY <1>1
  <2>2. ToSet(queue)' \subseteq attached'
    BY <1>2, <1>5, <1>12, <2>1 DEF LockInv
  <2>3. \A f \in attached : f \in ToSet(queue')
    BY <1>2, <1>3, <1>4, <1>12 DEF LockInv
  <2>4. QED
    BY <1>2, <1>14, <2>1, <2>2, <2>3 DEF LockInv
<1>17. InIsr /\ due[e] + 3 * MaxMasked + masked >= 0
  BY <1>1, <1>2 DEF Working
<1>18. HeadNotEarlier \/ due'[Head(queue')] + (3 * MaxMasked + masked) >= 0
  <2>1. queue # <<>> => Head(queue) \in ToSet(queue) /\ due[Head(queue)] \in Int
    BY <1>2, HeadTyped DEF TypeInv, ToSet
  <2>2. CASE first
    <3>1. due'[Head(queue')] = ts
      BY <1>12, <2>2
    <3>2. masked \in Nat /\ due[e] + 3 * MaxMasked + masked >= 0
      BY <1>2, <1>17 DEF TypeInv
    <3>3. ts + (3 * MaxMasked + masked) >= 0
      BY <1>11, <3>2
    <3>4. QED
      BY <3>1, <3>3
  <2>3. CASE ~first
    BY <1>12, <2>1, <2>3 DEF HeadNotEarlier
  <2>4. QED
    BY <2>2, <2>3
<1>19. (InIsr' <=> InIsr) /\ WillSchedule'
  <2>1. InIsr'
    BY <1>1, <1>3, <1>9, <1>17 DEF InIsr
  <2>2. QED
    BY <1>17, <2>1 DEF InIsr, WillSchedule
<1>20. Task.op \notin {"set", "start", "recheck"} /\ Task'.op \notin {"set", "start", "recheck", "handle"}
  BY <1>1, <1>6, <1>7, <1>9
<1>21. BoundInv'
  BY <1>1, <1>2, <1>9, <1>10, <1>13, <1>17, <1>18, <1>19, <1>20, QuietStep
<1>22. QED
  BY <1>9, <1>13, <1>15, <1>16, <1>21 DEF IInv

-----------------------------------------------------------------------------
(* The drivers. *)

(* A thread enters a critical section: the countdown goes on running. *)
LEMMA Enters ==
  ASSUME TypeInv, BoundInv, todo = <<>>, ~pend, todo' # <<>>,
         Task'.op \notin {"set", "start", "recheck", "handle"}, ~InIsr',
         masked' = 0, UNCHANGED <<counter, lag, last, queue, due, left, pend>>
  PROVE  BoundInv'
<1> USE Bounds
<1>1. Counting
  BY DEF BoundInv, Waiting
<1>2. /\ left \in Nat \ {0} /\ lag \in Nat
      /\ lag + left <= MaxDelta + MaxMasked
      /\ queue # <<>> => due[Head(queue)] \in Int /\ left <= due[Head(queue)] + MaxMasked
  BY <1>1, HeadTyped DEF Counting, TypeInv
<1>3. Armed'
  BY <1>1 DEF Counting, Armed
<1>4. /\ lag <= MaxDelta + 3 * MaxMasked + 0
      /\ queue # <<>> => due[Head(queue)] + (1 * MaxMasked + 0) >= 0
  BY <1>2
<1>5. OverdueAtMost((IF InIsr THEN 3 ELSE 1) * MaxMasked + masked)'
  BY <1>4 DEF OverdueAtMost
<1>6. Working'
  BY <1>3, <1>4, <1>5 DEF Working
<1>7. Waiting' /\ Setting' /\ Starting' /\ Rechecking'
  BY DEF Waiting, Setting, Starting, Rechecking, Doing
<1>8. TimeKept'
  BY DEF BoundInv, TimeKept
<1>9. QED
  BY <1>6, <1>7, <1>8 DEF BoundInv

(* attach_us or detach, called by a thread or by a callback: the event is  *)
(* removed first.                                                          *)
LEMMA CalledIInv ==
  ASSUME IInv, Caller, NEW e \in Events, NEW b \in Tasks,
         b.op \in {"setup", "release"}, b.ev = e,
         CallerThen(<<[op |-> "remove", ev |-> e], b>>),
         UNCHANGED <<lag, last, queue, due, delay, left, pend>>,
         attached \subseteq attached', attached' \subseteq attached \cup {e},
         b.op = "setup" => e \in attached',
         IsFiniteSet(attached'), lock' = Cardinality(attached')
  PROVE  IInv'
<1> USE Bounds
<1> DEFINE a == [op |-> "remove", ev |-> e]
           s == <<a, b>>
<1>1. TypeInv /\ Shape(todo) /\ BoundInv /\ Working /\ TimeKept /\ ListInv /\ LockInv
  BY DEF IInv, BoundInv
<1>2. /\ a \in Tasks /\ a.op = "remove" /\ a.ev = e /\ Rank(a.op) = 1 /\ ~Moving(a)
      /\ Rank(b.op) = 2 /\ Moving(b) /\ b.op # "handle" /\ b.op # "remove"
  BY DEF Tasks, Rank, Moving
<1> HIDE DEF a
<1>3. s \in Seq(Tasks) /\ s # <<>> /\ Head(s) = a /\ ToSet(s) = {a, b} /\ Shape(s)
  <2>1. Rank(a.op) < Rank(b.op) /\ b.op \in {"setup", "release"} /\ b.ev = a.ev
    BY <1>2
  <2>2. QED
    BY <1>2, <2>1, Two
<1>4. CallerThen(s)
  BY DEF a
<1> HIDE DEF s
<1>5. /\ todo' \in Seq(Tasks) /\ Shape(todo)' /\ todo' # <<>> /\ Task' = a
      /\ {a, b} \subseteq ToSet(todo)'
      /\ \A t \in ToSet(todo)' : t \in {a, b} \/ (t \in ToSet(todo) /\ ~Moving(t))
      /\ \A t \in ToSet(todo) : t \in ToSet(todo)' \/ ~Moving(t)
      /\ counter' = counter
  <2>1. CASE todo = <<>>
    <3>1. todo' = s /\ UNCHANGED counter
      BY <1>4, <2>1 DEF CallerThen
    <3>2. ToSet(todo) = {}
      BY <2>1 DEF ToSet
    <3>3. QED
      BY <1>3, <3>1, <3>2 DEF Task
  <2>2. CASE todo # <<>>
    <3>1. Then(s) /\ Task.op = "call"
      BY <1>4, <2>2 DEF CallerThen, Caller, Doing
    <3>2. Rank(Task.op) = 3 /\ ~Moving(Task)
      BY <3>1 DEF Rank, Moving
    <3>3. \A t \in ToSet(s) : Rank(t.op) <= Rank(Task.op)
      BY <1>2, <1>3, <3>2
    <3>4. /\ todo' \in Seq(Tasks) /\ Shape(todo)' /\ todo' # <<>>
          /\ Task' = a /\ ToSet(todo)' = {a, b} \cup Rest
          /\ masked' = masked /\ counter' = counter
      BY <1>1, <1>3, <2>2, <3>1, <3>3, StepTo
    <3>5. /\ ToSet(todo) = {Task} \cup Rest
          /\ \A t \in Rest : Rank(Task.op) < Rank(t.op) /\ t.op # "handle"
      BY <1>1, <2>2, HeadAndRest DEF TypeInv
    <3>6. \A t \in Rest : ~Moving(t)
      BY <3>2, <3>5 DEF Rank, Moving
    <3>7. QED
      BY <3>2, <3>4, <3>5, <3>6
  <2>3. QED
    BY <2>1, <2>2
<1>6. masked' = masked \/ masked' = 0
  BY DEF CallerThen, Then
<1>7. TypeInv'
  <2>1. masked' \in 0 .. MaxMasked
    BY <1>1, <1>6 DEF TypeInv
  <2>2. attached' \in SUBSET Events /\ lock' \in Int
    BY <1>1, FS_CardinalityType DEF TypeInv
  <2>3. QED
    BY <1>1, <1>5, <2>1, <2>2 DEF TypeInv
<1>8. ListInv'
  <2>1. \A t \in ToSet(todo)' : Moving(t) => t = b
    BY <1>2, <1>5
  <2>2. QED
    BY <1>1, <1>2, <1>5, <2>1 DEF ListInv
<1>9. LockInv'
  <2>1. queue' = queue
    OBVIOUS
  <2>2. ToSet(queue) \subseteq attached'
    BY <1>1 DEF LockInv
  <2>3. ASSUME NEW f \in attached'
        PROVE  f \in ToSet(queue) \/ \E t \in ToSet(todo)' : Moving(t) /\ t.ev = f
    <3>1. CASE f = e
      BY <1>2, <1>5, <3>1
    <3>2. CASE f # e
      BY <1>1, <1>5, <3>2 DEF LockInv
    <3>3. QED
      BY <3>1, <3>2
  <2>4. \A t \in ToSet(todo)' : t.op \in {"setup", "handle"} => t.ev \in attached'
    BY <1>2, <1>5 DEF Moving
  <2>5. QED
    BY <2>1, <2>2, <2>3, <2>4 DEF LockInv
<1>10. BoundInv'
  <2>1. CASE todo = <<>>
    <3>1. ~pend /\ masked' = 0
      BY <1>4, <2>1 DEF CallerThen, Caller, Doing
    <3>2. ToSet(todo) = {} /\ a.op # "irq" /\ b.op # "irq"
      BY <1>2, <2>1 DEF ToSet
    <3>3. ~InIsr' /\ Task'.op \notin {"set", "start", "recheck", "handle"}
      BY <1>2, <1>5, <3>2 DEF InIsr
    <3>4. QED
      BY <1>1, <1>5, <2>1, <3>1, <3>3, Enters
  <2>2. CASE todo # <<>>
    <3>1. Then(s) /\ Task.op = "call"
      BY <1>4, <2>2 DEF CallerThen, Caller, Doing
    <3>2. Rank(Task.op) = 3
      BY <3>1 DEF Rank
    <3>3. \A t \in ToSet(s) : Rank(t.op) <= Rank(Task.op)
      BY <1>2, <1>3, <3>2
    <3>4. ToSet(todo)' = {a, b} \cup Rest /\ masked' = masked
      BY <1>1, <1>3, <2>2, <3>1, <3>3, StepTo
    <3>5. \A t \in {a, b} : t.op # "irq" /\ t.op \notin {"schedule", "irq"}
      BY <1>2
    <3>6. Task.op # "irq" /\ Task.op \notin {"schedule", "irq", "set", "start", "recheck"}
      BY <3>1
    <3>7. (InIsr' <=> InIsr) /\ (WillSchedule' <=> WillSchedule)
      <4>1. ToSet(todo) = {Task} \cup Rest
        BY <1>1, <2>2, HeadAndRest DEF TypeInv
      <4>2. QED
        BY <3>4, <3>5, <3>6, <4>1 DEF InIsr, WillSchedule
    <3>8. HeadNotEarlier
      BY <1>1, HeadTyped DEF HeadNotEarlier, TypeInv
    <3>9. TimeKept'
      BY <1>1, <1>5 DEF TimeKept
    <3>10. Task'.op \notin {"set", "start", "recheck", "handle"}
      BY <1>2, <1>5
    <3>11. QED
      BY <1>1, <1>5, <1>7, <2>2, <3>4, <3>6, <3>7, <3>8, <3>9, <3>10, QuietStep
  <2>3. QED
    BY <2>1, <2>2
<1>11. QED
  BY <1>5, <1>7, <1>8, <1>9, <1>10 DEF IInv

(* Ticker::attach_us takes the lock for an event that had none. *)
LEMMA AttachIInv ==
  ASSUME IInv, NEW e \in Events, NEW us \in Delays, Attach(e, us)
  PROVE  IInv'
<1> DEFINE b == [op |-> "setup", ev |-> e, us |-> us]
<1>1. /\ Caller /\ CallerThen(<<[op |-> "remove", ev |-> e], b>>)
      /\ lock' = IF e \in attached THEN lock ELSE lock + 1
      /\ attached' = attached \cup {e}
      /\ UNCHANGED <<lag, last, queue, due, delay, left, pend>>
  BY DEF Attach, TakeLock, time, hw
<1>2. b \in Tasks /\ b.op = "setup" /\ b.ev = e
  BY TimesAreNats DEF Tasks
<1> HIDE DEF b
<1>3. IsFiniteSet(attached') /\ lock' = Cardinality(attached')
  <2>1. IsFiniteSet(attached) /\ lock = Cardinality(attached)
    BY DEF IInv, LockInv
  <2>2. /\ IsFiniteSet(attached \cup {e})
        /\ Cardinality(attached \cup {e})
             = IF e \in attached THEN Cardinality(attached) ELSE Cardinality(attached) + 1
    BY <2>1, FS_AddElement
  <2>3. QED
    BY <1>1, <2>1, <2>2
<1>4. attached \subseteq attached' /\ attached' \subseteq attached \cup {e} /\ e \in attached'
  BY <1>1
<1>5. QED
  BY <1>1, <1>2, <1>3, <1>4, CalledIInv

(* Ticker::detach *)
LEMMA DetachIInv ==
  ASSUME IInv, NEW e \in Events, Detach(e)
  PROVE  IInv'
<1> DEFINE b == [op |-> "release", ev |-> e]
<1>1. /\ Caller /\ CallerThen(<<[op |-> "remove", ev |-> e], b>>)
      /\ UNCHANGED <<lag, last, queue, due, delay, attached, lock, left, pend>>
  BY DEF Detach, time, hw, lists
<1>2. b \in Tasks /\ b.op = "release" /\ b.op # "setup" /\ b.ev = e
  BY DEF Tasks
<1> HIDE DEF b
<1>3. /\ IsFiniteSet(attached') /\ lock' = Cardinality(attached')
      /\ attached \subseteq attached' /\ attached' \subseteq attached \cup {e}
  BY <1>1 DEF IInv, LockInv
<1>4. QED
  BY <1>1, <1>2, <1>3, CalledIInv

-----------------------------------------------------------------------------
(* The theorems. *)

(* Every step of the hardware, the interrupt and the drivers keeps the     *)
(* inductive invariant.                                                    *)
LEMMA NextIInv == IInv /\ [Next]_vars => IInv'
<1> SUFFICES ASSUME IInv, [Next]_vars PROVE IInv'
  OBVIOUS
<1>1. CASE Advance
  BY <1>1, AdvanceIInv
<1>2. CASE IsrEntry
  BY <1>2, IsrEntryIInv
<1>3. CASE Section
  BY <1>3, ScheduleInterruptIInv, SetInterruptIInv, StartCountdownIInv, RecheckIInv,
     RemoveEventIInv, SetupIInv, ReleaseIInv, CallbackReturnsIInv,
     HandlePendingIInv, HandleTickerIInv, HandleTimeoutIInv DEF Section
<1>4. CASE ReadUs
  BY <1>4, ReadUsIInv
<1>5. ASSUME NEW e \in Events, Detach(e) PROVE IInv'
  BY <1>5, DetachIInv
<1>6. ASSUME NEW e \in Events, NEW us \in Delays, Attach(e, us) PROVE IInv'
  BY <1>6, AttachIInv
<1>7. CASE UNCHANGED vars
  <2>1. UNCHANGED <<counter, lag, last, queue, due, delay, attached, lock, left,
                    pend, todo, masked>>
    BY <1>7 DEF vars
  <2>2. TypeInv' /\ ListInv' /\ LockInv' /\ Shape(todo)'
    BY <2>1 DEF IInv, TypeInv, ListInv, LockInv, Task
  <2>3. TimeKept' /\ Waiting' /\ Setting' /\ Starting' /\ Rechecking' /\ Working'
    BY <2>1 DEF IInv, BoundInv, TimeKept, Waiting, Setting, Starting, Rechecking, Working,
       Counting, OverdueAtMost, Doing, Task, Fresh, Ahead, WillSchedule, InIsr, Armed
  <2>4. QED
    BY <2>2, <2>3 DEF IInv, BoundInv
<1>8. QED
  BY <1>1, <1>2, <1>3, <1>4, <1>5, <1>6, <1>7 DEF Next

(* The inductive invariant of the microsecond ticker: the types, the order *)
(* of the tasks of a critical section, the list, the owners of the deep    *)
(* sleep lock, and the bounds on the time that is not accounted for.       *)
THEOREM Invariance == Spec => []IInv
<1>1. QED
  BY InitIInv, NextIInv, PTL DEF Spec

(* update_present_time loses no wrap of the counter, whatever the drivers  *)
(* do and for a counter of any width.                                      *)
THEOREM TimeKeptHolds == Spec => []TimeKept
<1>1. IInv => TimeKept
  BY DEF IInv, BoundInv
<1>2. QED
  BY <1>1, Invariance, PTL

(* The list is in the order of time, and outside a critical section the    *)
(* interrupt for its head is pending or the countdown ends in time for it. *)
THEOREM HeadArmedHolds == Spec => []HeadArmed
<1>1. ASSUME IInv PROVE HeadArmed
  <2>1. \A i, j \in DOMAIN queue : i < j => due[queue[i]] <= due[queue[j]]
    BY <1>1 DEF IInv, ListInv, InOrder
  <2>2. ASSUME todo = <<>>, queue # <<>>, ~pend
        PROVE  left # Off /\ left <= due[Head(queue)] + MaxMasked
    BY <1>1, <2>2 DEF IInv, BoundInv, Waiting, Counting
  <2>3. QED
    BY <2>1, <2>2 DEF HeadArmed
<1>2. QED
  BY <1>1, Invariance, PTL

(* No event in the list is overdue by more than four masked times. *)
THEOREM InTimeHolds == Spec => []InTime
<1> USE Bounds
<1>1. ASSUME IInv PROVE InTime
  <2> SUFFICES ASSUME NEW i \in DOMAIN queue
               PROVE  due[queue[i]] + 4 * MaxMasked >= 0
    BY DEF InTime
  <2>1. /\ queue \in Seq(Events) /\ due \in [Events -> Int]
        /\ masked \in 0 .. MaxMasked /\ lag \in Nat
    BY <1>1 DEF IInv, TypeInv
  <2>2. /\ queue # <<>> /\ Head(queue) = queue[1] /\ 1 \in DOMAIN queue
        /\ i = 1 \/ 1 < i
        /\ due[queue[1]] \in Int /\ due[queue[i]] \in Int
    BY <2>1
  <2>3. due[queue[1]] <= due[queue[i]]
    BY <1>1, <2>2 DEF IInv, ListInv, InOrder
  <2>4. due[queue[1]] + 4 * MaxMasked >= 0
    <3>1. CASE todo = <<>> /\ Counting
      <4>1. left \in Nat /\ left <= due[queue[1]] + MaxMasked
        BY <1>1, <2>2, <3>1 DEF Counting, IInv, TypeInv
      <4>2. QED
        BY <2>1, <2>2, <4>1
    <3>2. CASE todo = <<>> /\ ~Counting
      <4>1. due[queue[1]] + (2 * MaxMasked + masked) >= 0
        BY <1>1, <2>2, <3>2 DEF IInv, BoundInv, Waiting, OverdueAtMost
      <4>2. QED
        BY <2>1, <2>2, <4>1
    <3>3. CASE todo # <<>>
      <4>1. due[queue[1]] + ((IF InIsr THEN 3 ELSE 1) * MaxMasked + masked) >= 0
        BY <1>1, <2>2, <3>3 DEF IInv, BoundInv, Working, OverdueAtMost
      <4>2. QED
        BY <2>1, <2>2, <4>1
    <3>4. QED
      BY <3>1, <3>2, <3>3
  <2>5. QED
    BY <2>2, <2>3, <2>4
<1>2. QED
  BY <1>1, Invariance, PTL

(* Outside a critical section the ticker holds the deep sleep lock once    *)
(* for every queued event, and for no other.                               *)
THEOREM LockedWhileQueuedHolds == Spec => []LockedWhileQueued
<1>1. ASSUME IInv PROVE LockedWhileQueued
  <2> SUFFICES ASSUME todo = <<>>
               PROVE  lock = Len(queue) /\ attached = ToSet(queue)
    BY DEF LockedWhileQueued
  <2>1. ToSet(todo) = {}
    BY DEF ToSet
  <2>2. attached = ToSet(queue) /\ lock = Cardinality(attached)
    BY <1>1, <2>1 DEF IInv, LockInv
  <2>3. Cardinality(ToSet(queue)) = Len(queue)
    <3>1. Len(queue) \in Nat /\ DOMAIN queue = 1 .. Len(queue) /\ IsInjective(queue)
      BY <1>1 DEF IInv, TypeInv, ListInv
    <3>2. queue \in Bijection(1 .. Len(queue), ToSet(queue))
      BY <1>1, <3>1 DEF Bijection, Injection, Surjection, IsInjective, ToSet, IInv, TypeInv
    <3>3. ExistsBijection(1 .. Len(queue), ToSet(queue))
      BY <3>2 DEF ExistsBijection
    <3>4. QED
      BY <3>1, <3>3, FS_CountingElements
  <2>4. QED
    BY <2>2, <2>3
<1>2. QED
  BY <1>1, Invariance, PTL
=============================================================================
