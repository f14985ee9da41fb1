-------------------------- MODULE RtxThreadProofs --------------------------
(***************************************************************************)
(* Safety of the thread scheduler for any number of threads, priorities,   *)
(* delays and time slice, under the join discipline.                       *)
(***************************************************************************)
EXTENDS RtxThread, RtxCoreProofs

(* The kernel value between two handlers. *)
KernelOK(q) ==
  /\ Placed(q, {}) /\ OneRuns(q) /\ q.next = q.curr
  /\ q.kstate = "Ready" <=> q.curr = NoThread
  /\ q.kstate = "Ready" => q.state[Idle] = "Inactive"

LiveIn(q, t) == q.state[t] \notin {"Inactive", "Terminated"}

(* A joining thread is registered with a live thread, which will wake it. *)
Registered(q, j) ==
  \A t \in Threads : q.state[t] = "WaitingJoin" =>
    \E u \in Threads : LiveIn(q, u) /\ j[u] = t

(* A joining thread waits without a timeout, and is registered with        *)
(* exactly one live thread, which is not the idle thread.                  *)
JoinOK(q, j) ==
  /\ j[Idle] = NoThread
  /\ Registered(q, j)
  /\ \A t \in Threads : q.state[t] = "WaitingJoin" => t \in q.wait
  /\ \A t \in Threads : LiveIn(q, t) /\ j[t] # NoThread =>
       j[t] \in Threads /\ q.state[j[t]] = "WaitingJoin"
  /\ \A t, u \in Threads :
       LiveIn(q, t) /\ LiveIn(q, u) /\ j[t] # NoThread /\ j[t] = j[u] => t = u

(* A thread goes on waiting to join exactly as long as the live thread it  *)
(* is registered with lives.                                               *)
JoinsLast(kk, q, j) ==
  \A t, u \in Threads :
    kk.state[t] = "WaitingJoin" /\ LiveIn(kk, u) /\ j[u] = t =>
      (q.state[t] = "WaitingJoin" <=> LiveIn(q, u))

IInv ==
  /\ TypeOK
  /\ KernelOK(k)
  /\ JoinOK(k, join)
  /\ k.kstate = "Ready" => handler = "none"
  /\ handler = "none" => HeadPositive(k)
  /\ handler = "none" /\ k.kstate = "Running" /\ unlocked = "no" => TopRuns(k)

-----------------------------------------------------------------------------
(* The registered joiners. *)

(* One thread t, which does not wait to join, takes another state; a dead  *)
(* thread that comes alive has no joiner registered.                       *)
LEMMA JoinOneMoves ==
  ASSUME NEW kk, NEW q, NEW j, JoinOK(kk, j), NEW t \in Threads,
         kk.state[t] # "WaitingJoin", q.state[t] # "WaitingJoin",
         LiveIn(kk, t) \/ j[t] = NoThread \/ ~LiveIn(q, t),
         LiveIn(q, t) \/ j[t] = NoThread \/ ~LiveIn(kk, t),
         \A u \in Threads \ {t} :
           \/ q.state[u] = kk.state[u]
           \/ q.state[u] \in Runnable /\ kk.state[u] \in Runnable,
         \A u \in kk.wait : u # t => u \in q.wait
  PROVE  JoinOK(q, j) /\ JoinsLast(kk, q, j)
<1>1. \A u \in Threads : q.state[u] = "WaitingJoin" <=>
                           kk.state[u] = "WaitingJoin"
  BY DEF Runnable
<1>2. \A u \in Threads : LiveIn(q, u) /\ j[u] # NoThread => LiveIn(kk, u)
  BY DEF Runnable, LiveIn
<1>3. \A u \in Threads : q.state[u] = "WaitingJoin" => u \in q.wait
  BY <1>1 DEF JoinOK
<1>4. Registered(q, j)
  <2>1. \A u \in Threads : LiveIn(kk, u) /\ j[u] # NoThread => LiveIn(q, u)
    BY DEF Runnable, LiveIn
  <2>2. QED
    BY <1>1, <2>1, NoThreadNotThread DEF JoinOK, Registered
<1>5. JoinsLast(kk, q, j)
  <2>1. \A u \in Threads : LiveIn(kk, u) /\ j[u] # NoThread => LiveIn(q, u)
    BY DEF Runnable, LiveIn
  <2>2. QED
    BY <1>1, <2>1, NoThreadNotThread DEF JoinsLast
<1>6. QED
  BY <1>1, <1>2, <1>3, <1>4, <1>5 DEF JoinOK

(* Threads that only start or stop running do not matter. *)
LEMMA JoinSameBlocked ==
  ASSUME NEW kk, NEW q, NEW j, JoinOK(kk, j), SameBlocked(kk, q),
         q.wait = kk.wait
  PROVE  JoinOK(q, j) /\ JoinsLast(kk, q, j)
<1>1. \A u \in Threads : q.state[u] = "WaitingJoin" <=>
                           kk.state[u] = "WaitingJoin"
  BY DEF Runnable, SameBlocked
<1>2. \A u \in Threads : LiveIn(q, u) <=> LiveIn(kk, u)
  BY DEF Runnable, LiveIn, SameBlocked
<1>3. Registered(q, j)
  BY <1>1, <1>2 DEF JoinOK, Registered
<1>4. QED
  BY <1>1, <1>2, <1>3 DEF JoinOK, JoinsLast

(* Thread t ends and its joiner w becomes runnable. *)
LEMMA JoinEnds ==
  ASSUME NEW kk, NEW q, NEW j, JoinOK(kk, j), NEW t \in Threads,
         LiveIn(kk, t), ~LiveIn(q, t), kk.state[t] # "WaitingJoin",
         NEW w \in Threads, j[t] = w, NoThread # w, q.state[w] \in Runnable,
         \A u \in Threads \ {t, w} :
           \/ q.state[u] = kk.state[u]
           \/ q.state[u] \in Runnable /\ kk.state[u] \in Runnable,
         \A u \in kk.wait : u # w /\ u # t => u \in q.wait
  PROVE  JoinOK(q, j) /\ JoinsLast(kk, q, j)
<1>1. \A u \in Threads : q.state[u] = "WaitingJoin" =>
                           u # w /\ u # t /\ kk.state[u] = "WaitingJoin"
  BY DEF Runnable, LiveIn
<1>2. \A u \in Threads : kk.state[u] = "WaitingJoin" =>
                           u = w \/ q.state[u] = "WaitingJoin"
  BY DEF Runnable
<1>3. \A u \in Threads : LiveIn(q, u) => u # t /\ LiveIn(kk, u)
  <2> SUFFICES ASSUME NEW u \in Threads, LiveIn(q, u)
               PROVE  u # t /\ LiveIn(kk, u)
    OBVIOUS
  <2>1. u # t
    OBVIOUS
  <2>2. CASE u = w
    <3>1. kk.state[w] = "WaitingJoin"
      BY DEF JoinOK
    <3>2. QED
      BY <2>1, <2>2, <3>1 DEF LiveIn
  <2>3. CASE u # w
    BY <2>1, <2>3 DEF LiveIn, Runnable
  <2>4. QED
    BY <2>2, <2>3
<1>4. \A u \in Threads : q.state[u] = "WaitingJoin" => u \in q.wait
  BY <1>1 DEF JoinOK
<1>5. ASSUME NEW u \in Threads, LiveIn(q, u), j[u] # NoThread
      PROVE  j[u] \in Threads /\ q.state[j[u]] = "WaitingJoin"
  <2>1. u # t /\ LiveIn(kk, u)
    BY <1>3, <1>5
  <2>2. j[u] \in Threads /\ kk.state[j[u]] = "WaitingJoin"
    BY <1>5, <2>1 DEF JoinOK
  <2>3. j[u] # w
    BY <1>5, <2>1 DEF JoinOK
  <2>4. QED
    BY <1>2, <2>2, <2>3
<1>6. \A u, v \in Threads :
        LiveIn(q, u) /\ LiveIn(q, v) /\ j[u] # NoThread /\ j[u] = j[v] => u = v
  BY <1>3 DEF JoinOK
<1>7. Registered(q, j)
  <2>1. \A u \in Threads \ {t} : LiveIn(kk, u) => LiveIn(q, u)
    BY DEF Runnable, LiveIn
  <2>2. QED
    BY <1>1, <2>1 DEF JoinOK, Registered
<1>8. JoinsLast(kk, q, j)
  <2> SUFFICES ASSUME NEW v \in Threads, NEW u \in Threads,
                      kk.state[v] = "WaitingJoin", LiveIn(kk, u), j[u] = v
               PROVE  q.state[v] = "WaitingJoin" <=> LiveIn(q, u)
    BY DEF JoinsLast
  <2>1. CASE u = t
    BY <2>1 DEF Runnable
  <2>2. CASE u # t
    <3>1. v # w
      BY <2>2, NoThreadNotThread DEF JoinOK
    <3>2. LiveIn(q, u)
      BY <2>2 DEF Runnable, LiveIn
    <3>3. QED
      BY <1>2, <3>1, <3>2
  <2>3. QED
    BY <2>1, <2>2
<1>9. QED
  BY <1>4, <1>5, <1>6, <1>7, <1>8 DEF JoinOK

(* The running thread c starts to wait for the live thread t. *)
LEMMA JoinBegins ==
  ASSUME NEW kk, NEW q, NEW j, JoinOK(kk, j),
         j \in [Threads -> Threads \cup {NoThread}],
         NEW t \in Threads \ {Idle}, NEW c \in Threads,
         kk.state[c] = "Running", LiveIn(kk, t), j[t] = NoThread,
         q.state[c] = "WaitingJoin", c \in q.wait,
         \A u \in Threads \ {c} :
           \/ q.state[u] = kk.state[u]
           \/ q.state[u] \in Runnable /\ kk.state[u] \in Runnable,
         \A u \in kk.wait : u \in q.wait,
         NEW new, new = [j EXCEPT ![t] = c]
  PROVE  JoinOK(q, new) /\ JoinsLast(kk, q, j)
<1>1. /\ new[t] = c /\ \A u \in Threads : u # t => new[u] = j[u]
      /\ new[Idle] = NoThread
  BY IdleIsThread DEF JoinOK
<1>2. \A u \in Threads : q.state[u] = "WaitingJoin" <=>
                           u = c \/ kk.state[u] = "WaitingJoin"
  BY DEF Runnable
<1>3. \A u \in Threads : LiveIn(q, u) => LiveIn(kk, u)
  BY DEF Runnable, LiveIn
<1>4. \A u \in Threads : LiveIn(kk, u) => j[u] # c
  BY NoThreadNotThread DEF JoinOK
<1>5. \A u \in Threads : q.state[u] = "WaitingJoin" => u \in q.wait
  BY <1>2 DEF JoinOK
<1>6. ASSUME NEW u \in Threads, LiveIn(q, u), new[u] # NoThread
      PROVE  new[u] \in Threads /\ q.state[new[u]] = "WaitingJoin"
  BY <1>1, <1>2, <1>3, <1>6 DEF JoinOK
<1>7. \A u, v \in Threads :
        LiveIn(q, u) /\ LiveIn(q, v) /\ new[u] # NoThread /\ new[u] = new[v]
          => u = v
  BY <1>1, <1>3, <1>4 DEF JoinOK
<1>8. Registered(q, new)
  <2>1. \A u \in Threads : LiveIn(kk, u) => LiveIn(q, u)
    BY DEF Runnable, LiveIn
  <2>2. QED
    BY <1>1, <1>2, <2>1, NoThreadNotThread DEF JoinOK, Registered
<1>9. JoinsLast(kk, q, j)
  BY <1>2 DEF JoinsLast, Runnable, LiveIn
<1>10. QED
  BY <1>1, <1>5, <1>6, <1>7, <1>8, <1>9 DEF JoinOK

-----------------------------------------------------------------------------
(* How a service call ends: SVC_Context makes next current. *)
LEMMA ReturnPlaced ==
  ASSUME NEW q, Placed(q, {}), NEW r, r = Return(q)
  PROVE  /\ Placed(r, {}) /\ r.next = q.next /\ r.curr = q.next
         /\ r.kstate = q.kstate /\ r.prio = q.prio /\ r.ready = q.ready
         /\ r.state = q.state /\ SameDelays(q, r)
<1>1. q \in KernelType /\ q.next \in Threads \cup {NoThread}
  BY DEF Placed, KernelType
<1>2. r = [q EXCEPT !.curr = q.next]
  BY DEF Return
<1>3. r \in KernelType
  BY <1>1, <1>2, FieldUpdates
<1>4. /\ r.next = q.next /\ r.curr = q.next /\ r.kstate = q.kstate
      /\ r.prio = q.prio /\ r.ready = q.ready /\ r.state = q.state
      /\ r.dlist = q.dlist /\ r.delay = q.delay /\ r.wait = q.wait
  BY <1>1, <1>2 DEF KernelType
<1>5. Placed(r, {})
  BY <1>3, <1>4 DEF Placed, ListsOK, ThreadPlaced, Unlisted
<1>6. QED
  BY <1>4, <1>5 DEF SameDelays

(* What a service call made by a running thread must leave behind for the  *)
(* invariant to hold again.                                                *)
LEMMA CallStep ==
  ASSUME IInv, k.kstate # "Ready", NEW q, Placed(q, {}), OneRuns(q),
         q.next \in Threads, q.kstate = k.kstate, HeadPositive(q),
         k.kstate = "Running" /\ TopRuns(k) => TopRuns(q),
         JoinOK(q, join'), JoinsLast(k, q, join),
         k' = Return(q) \/ (k' = q /\ q.curr = q.next),
         join' \in [Threads -> Threads \cup {NoThread}],
         joinable' \subseteq Threads, handler = "none",
         handler' = handler, unlocked' = unlocked
  PROVE  IInv' /\ JoinsLast(k, k', join)
<1>1. /\ Placed(k', {}) /\ k'.next = q.next /\ k'.curr = q.next
      /\ k'.kstate = q.kstate /\ k'.prio = q.prio /\ k'.ready = q.ready
      /\ k'.state = q.state /\ SameDelays(q, k')
  BY ReturnPlaced DEF SameDelays
<1>2. KernelOK(k')
  BY <1>1, NoThreadNotThread DEF KernelOK, OneRuns
<1>3. JoinOK(k', join') /\ JoinsLast(k, k', join)
  BY <1>1 DEF JoinOK, Registered, LiveIn, JoinsLast, SameDelays
<1>4. HeadPositive(k')
  BY <1>1 DEF HeadPositive, SameDelays
<1>5. handler' = "none" /\ k'.kstate = "Running" /\ unlocked' = "no"
        => TopRuns(k')
  BY <1>1 DEF IInv, TopRuns
<1>6. TypeOK'
  BY <1>1, <1>2 DEF IInv, TypeOK, Placed
<1>7. QED
  BY <1>1, <1>2, <1>3, <1>4, <1>5, <1>6 DEF IInv

(* What holds when the running thread makes a call. *)
LEMMA CallFacts ==
  ASSUME IInv, Calling
  PROVE  /\ Placed(k, {}) /\ OneRuns(k) /\ k.next = k.curr
         /\ k.curr \in Threads /\ k.state[k.curr] = "Running"
         /\ handler = "none" /\ k.kstate # "Ready" /\ HeadPositive(k)
         /\ JoinOK(k, join)
         /\ k.state \in [Threads -> ThreadStates]
         /\ k.prio \in [Threads -> Int]
         /\ join \in [Threads -> Threads \cup {NoThread}]
         /\ joinable \subseteq Threads
<1>1. /\ k \in KernelType /\ KernelOK(k) /\ handler = "none"
      /\ k.kstate # "Ready" /\ HeadPositive(k) /\ JoinOK(k, join)
      /\ join \in [Threads -> Threads \cup {NoThread}]
      /\ joinable \subseteq Threads
  BY DEF IInv, TypeOK, Calling
<1>2. k.curr \in Threads
  BY <1>1 DEF KernelOK, KernelType
<1>3. k.state \in [Threads -> ThreadStates] /\ k.prio \in [Threads -> Int]
  BY <1>1 DEF KernelType
<1>4. QED
  BY <1>1, <1>2, <1>3 DEF KernelOK, OneRuns

-----------------------------------------------------------------------------
(* One lemma per service call. *)

(* svcRtxDelay keeps the invariant: the caller goes into the delay list    *)
(* and the head of the ready list runs.                                    *)
LEMMA DelayStep ==
  ASSUME IInv, NEW d \in 0 .. MaxDelay, Delay(d)
  PROVE  IInv' /\ JoinsLast(k, k', join)
<1> DEFINE q == WaitEnter(k, "WaitingDelay", d, "osOK")
           h == Head(k.ready)
<1>1. /\ Calling /\ CanWait(k) /\ k' = Return(q) /\ d \in Nat \ {0}
      /\ handler' = handler /\ join' = join /\ joinable' = joinable
      /\ unlocked' = unlocked
  BY BoundsAreNats DEF Delay
<1>2. /\ Placed(k, {}) /\ OneRuns(k) /\ k.next = k.curr /\ k.curr \in Threads
      /\ k.state[k.curr] = "Running" /\ handler = "none"
      /\ k.kstate # "Ready" /\ HeadPositive(k) /\ JoinOK(k, join)
      /\ k.state \in [Threads -> ThreadStates]
      /\ join \in [Threads -> Threads \cup {NoThread}]
      /\ joinable \subseteq Threads
  BY <1>1, CallFacts
<1>3. /\ h \in Threads /\ k.state[h] = "Ready" /\ k.curr # h
      /\ Placed(q, {}) /\ OneRuns(q) /\ Keeps(k, q) /\ TopRuns(q)
      /\ q.next \in Threads
      /\ q.state = [k.state EXCEPT ![k.curr] = "WaitingDelay",
                                   ![h] = "Running"]
      /\ q.wait = k.wait /\ HeadPositive(q)
  <2> DEFINE st == "WaitingDelay"
             ok == "osOK"
  <2>1. st \in WaitStates /\ ok \in Results /\ d # Forever
    BY <1>1 DEF WaitStates, Results, Forever
  <2>2. q = WaitEnter(k, st, d, ok)
    OBVIOUS
  <2> HIDE DEF q, st, ok
  <2>3. /\ k.curr # h /\ h \in Threads /\ k.state[h] = "Ready"
        /\ Placed(q, {}) /\ OneRuns(q) /\ Keeps(k, q) /\ TopRuns(q)
        /\ q.next \in Threads /\ StateSwap(k, q, k.curr, st, h)
        /\ WaitGrows(k, q, k.curr, d)
        /\ HeadPositive(k) => HeadPositive(q)
    BY <1>1, <1>2, <2>1, <2>2, WaitEnterPlaced
  <2>4. QED
    BY <1>2, <2>1, <2>3 DEF st, StateSwap, WaitGrows
<1> HIDE DEF q, h
<1>4. JoinOK(q, join) /\ JoinsLast(k, q, join)
  <2>1. /\ q.state[k.curr] = "WaitingDelay"
        /\ \A u \in Threads \ {k.curr} :
             \/ q.state[u] = k.state[u]
             \/ q.state[u] \in Runnable /\ k.state[u] \in Runnable
    BY <1>2, <1>3 DEF Runnable
  <2>2. LiveIn(k, k.curr) /\ k.state[k.curr] # "WaitingJoin"
        /\ LiveIn(q, k.curr) /\ q.state[k.curr] # "WaitingJoin"
    BY <1>2, <2>1 DEF LiveIn
  <2>3. QED
    BY <1>2, <1>3, <2>1, <2>2, JoinOneMoves
<1>5. QED
  BY <1>1, <1>2, <1>3, <1>4, CallStep DEF Keeps

(* svcRtxThreadSetPriority keeps the invariant: it sorts, then dispatches. *)
LEMMA SetPriorityStep ==
  ASSUME IInv, NEW t \in User, NEW p \in Prios, SetPriority(t, p)
  PROVE  IInv' /\ JoinsLast(k, k', join)
<1> DEFINE m == ListSort(SetPrio(k, t, p), t)
           q == DispatchReady(m)
<1>1. /\ Calling /\ k' = Return(q) /\ t \in Threads /\ p \in Int
      /\ handler' = handler /\ join' = join /\ joinable' = joinable
      /\ unlocked' = unlocked
  BY PriosAreInts DEF SetPriority, User, SetPrio
<1>2. /\ Placed(k, {}) /\ OneRuns(k) /\ k.next = k.curr /\ k.curr \in Threads
      /\ handler = "none"
      /\ k.kstate # "Ready" /\ HeadPositive(k) /\ JoinOK(k, join)
      /\ join \in [Threads -> Threads \cup {NoThread}]
      /\ joinable \subseteq Threads
  BY <1>1, CallFacts
<1>3. /\ Placed(m, {}) /\ m.kstate = k.kstate /\ m.curr = k.curr
      /\ SameStates(k, m) /\ SameDelays(k, m)
  BY <1>1, <1>2, ListSortPlaced
<1> HIDE DEF m
<1>4. OneRuns(m) /\ m.next = m.curr /\ m.curr \in Threads
  BY <1>2, <1>3 DEF OneRuns, SameStates
<1>5. /\ Placed(q, {}) /\ OneRuns(q) /\ Keeps(m, q)
      /\ SameDelays(m, q) /\ SameBlocked(m, q) /\ q.next \in Threads
      /\ m.kstate = "Running" => TopRuns(q)
  <2> DEFINE G == {}
  <2>1. Placed(m, G) /\ m.curr \notin G /\ G \subseteq Threads
    BY <1>3
  <2> HIDE DEF G
  <2>2. /\ Placed(q, G) /\ OneRuns(q) /\ Keeps(m, q)
        /\ SameDelays(m, q) /\ SameBlocked(m, q) /\ q.next \in Threads
        /\ m.kstate = "Running" => TopRuns(q)
    BY <1>4, <2>1, DispatchReadyPlaced
  <2>3. QED
    BY <2>2 DEF G
<1> HIDE DEF q
<1>6. JoinOK(q, join) /\ JoinsLast(k, q, join) /\ HeadPositive(q)
  <2>1. SameBlocked(k, q) /\ q.wait = k.wait
    BY <1>3, <1>5 DEF SameBlocked, SameDelays, SameStates
  <2>2. HeadPositive(q)
    BY <1>2, <1>3, <1>5 DEF HeadPositive, SameDelays
  <2>3. QED
    BY <1>2, <2>1, <2>2, JoinSameBlocked
<1>7. q.kstate = k.kstate /\ (k.kstate = "Running" => TopRuns(q))
  BY <1>3, <1>5 DEF Keeps
<1>8. QED
  BY <1>1, <1>2, <1>5, <1>6, <1>7, CallStep

(* svcRtxThreadYield keeps the invariant: the caller and an equal swap. *)
LEMMA YieldStep ==
  ASSUME IInv, Yield
  PROVE  IInv' /\ JoinsLast(k, k', join)
<1> DEFINE h == Head(k.ready)
           m == [k EXCEPT !.ready = Tail(@)]
           q == Switch(ReadyPut(m, k.curr), h)
<1>1. /\ Calling /\ k.ready # <<>> /\ k.prio[h] = k.prio[k.curr]
      /\ k' = Return(q)
      /\ handler' = handler /\ join' = join /\ joinable' = joinable
      /\ unlocked' = unlocked
  BY DEF Yield
<1>2. /\ Placed(k, {}) /\ OneRuns(k) /\ k.next = k.curr /\ k.curr \in Threads
      /\ k.state[k.curr] = "Running" /\ handler = "none"
      /\ k.kstate # "Ready" /\ HeadPositive(k) /\ JoinOK(k, join)
      /\ k.state \in [Threads -> ThreadStates]
      /\ k.prio \in [Threads -> Int]
      /\ join \in [Threads -> Threads \cup {NoThread}]
      /\ joinable \subseteq Threads
  BY <1>1, CallFacts
<1>3. /\ h \in Threads /\ h \in ToSet(k.ready) /\ Placed(m, {} \cup {h})
      /\ Keeps(k, m) /\ SameDelays(k, m) /\ m.state = k.state
      /\ ToSet(m.ready) = ToSet(k.ready) \ {h}
      /\ \A u \in ToSet(k.ready) : k.prio[u] <= k.prio[h]
  <2>1. m = [k EXCEPT !.ready = Tail(@)]
    OBVIOUS
  <2> HIDE DEF m
  <2>2. QED
    BY <1>1, <1>2, <2>1, PopPlaced
<1> HIDE DEF h, m
<1>4. k.state[h] = "Ready" /\ k.curr # h
  BY <1>2, <1>3 DEF Placed, ThreadPlaced
<1>5. /\ Placed(q, {}) /\ Keeps(m, q) /\ q.next = h
      /\ SameDelays(m, q) /\ TopRuns(q)
      /\ q.state = [m.state EXCEPT ![k.curr] = "Ready", ![h] = "Running"]
  <2> DEFINE G == {h}
  <2>1. Placed(m, G) /\ h \in G /\ k.curr \notin G /\ G \ {h} = {}
    BY <1>3, <1>4
  <2> HIDE DEF G
  <2>2. /\ m.state[k.curr] = "Running"
        /\ \A u \in ToSet(m.ready) : m.prio[u] <= m.prio[h]
        /\ m.prio[k.curr] <= m.prio[h]
    BY <1>1, <1>2, <1>3 DEF Keeps
  <2>3. q = Switch(ReadyPut(m, k.curr), h)
    OBVIOUS
  <2> HIDE DEF q
  <2>4. /\ Placed(q, G \ {h}) /\ Keeps(m, q) /\ q.next = h
        /\ SameDelays(m, q) /\ TopRuns(q)
        /\ q.state = [m.state EXCEPT ![k.curr] = "Ready", ![h] = "Running"]
    BY <1>2, <1>3, <1>4, <2>1, <2>2, <2>3, PreemptPlaced, SMTT(30)
  <2>5. QED
    BY <2>1, <2>4
<1> HIDE DEF q
<1>6. OneRuns(q) /\ SameBlocked(k, q)
  BY <1>2, <1>3, <1>4, <1>5 DEF OneRuns, SameBlocked, Runnable
<1>7. /\ JoinOK(q, join) /\ JoinsLast(k, q, join) /\ HeadPositive(q)
      /\ q.kstate = k.kstate
  <2>1. HeadPositive(q) /\ q.kstate = k.kstate /\ q.wait = k.wait
    BY <1>2, <1>3, <1>5 DEF HeadPositive, SameDelays, Keeps
  <2>2. QED
    BY <1>2, <1>6, <2>1, JoinSameBlocked
<1>8. QED
  BY <1>1, <1>2, <1>3, <1>5, <1>6, <1>7, CallStep

(* A thread taken out of the lists its state puts it in. *)
Leaves(kk, q, t) ==
  /\ SameStates(kk, q) /\ q.wait = kk.wait \ {t}
  /\ ToSet(q.ready) = ToSet(kk.ready) \ {t}

(* Whatever the state of the thread, it leaves exactly the lists that hold *)
(* it, and the head of the delay list stays positive.                      *)
LEMMA LeaveListsPlaced ==
  ASSUME NEW kk, Placed(kk, {}), NEW t \in Threads,
         NEW q, q = LeaveLists(kk, t)
  PROVE  /\ Placed(q, {t}) /\ Keeps(kk, q) /\ Leaves(kk, q, t)
         /\ HeadPositive(kk) => HeadPositive(q)
<1> DEFINE G == {}
           H == {t}
<1>1. Placed(kk, G) /\ t \notin G /\ G \cup {t} = H
  OBVIOUS
<1>2. /\ kk.state[t] \in ThreadStates /\ ThreadPlaced(kk, t)
      /\ {} = G /\ {t} = H
  BY DEF Placed, KernelType
<1> HIDE DEF G, H
<1>3. CASE kk.state[t] = "Ready"
  <2>1. q = ListRemove(kk, t)
    BY <1>3 DEF LeaveLists, BlockedStates, WaitStates
  <2>2. /\ Placed(q, IF kk.state[t] = "Ready" THEN G \cup {t} ELSE G)
        /\ ToSet(q.ready) = ToSet(kk.ready) \ {t}
        /\ Keeps(kk, q) /\ SameStates(kk, q) /\ SameDelays(kk, q)
    BY <1>1, <2>1, ListRemovePlaced
  <2>3. t \notin kk.wait
    BY <1>2, <1>3 DEF ThreadPlaced, BlockedStates, WaitStates
  <2>4. Leaves(kk, q, t)
    BY <2>2, <2>3 DEF Leaves, SameDelays
  <2>5. HeadPositive(kk) => HeadPositive(q)
    BY <2>2 DEF HeadPositive, SameDelays
  <2>6. QED
    BY <1>1, <1>2, <1>3, <2>2, <2>4, <2>5
<1>4. CASE kk.state[t] \in BlockedStates
  <2> DEFINE m == ListRemove(kk, t)
  <2>1. kk.state[t] # "Ready"
    BY <1>4 DEF BlockedStates, WaitStates
  <2>2. q = DelayRemove(m, t)
    BY <1>4, <2>1 DEF LeaveLists
  <2>3. m = ListRemove(kk, t)
    OBVIOUS
  <2> HIDE DEF m
  <2>4. /\ Placed(m, IF kk.state[t] = "Ready" THEN G \cup {t} ELSE G)
        /\ ToSet(m.ready) = ToSet(kk.ready) \ {t}
        /\ Keeps(kk, m) /\ SameStates(kk, m) /\ SameDelays(kk, m)
    BY <1>1, <2>3, ListRemovePlaced
  <2>5. Placed(m, G) /\ m.state[t] \in BlockedStates
    BY <1>4, <2>1, <2>4 DEF SameStates
  <2>6. /\ Placed(q, G \cup {t}) /\ Keeps(m, q) /\ q.next = m.next
        /\ q.state = m.state /\ q.ready = m.ready
        /\ q.wait = m.wait \ {t}
        /\ HeadPositive(m) => HeadPositive(q)
    BY <1>1, <2>2, <2>5, DelayRemovePlaced
  <2>7. Leaves(kk, q, t) /\ Keeps(kk, q)
    BY <2>4, <2>6 DEF Leaves, SameDelays, SameStates, Keeps
  <2>8. HeadPositive(kk) => HeadPositive(q)
    BY <2>4, <2>6 DEF HeadPositive, SameDelays
  <2>9. QED
    BY <1>1, <1>2, <2>6, <2>7, <2>8
<1>5. CASE kk.state[t] \in {"Running", "Inactive", "Terminated"}
  <2>1. q = kk
    BY <1>5 DEF LeaveLists, BlockedStates, WaitStates
  <2>2. Placed(q, G \cup {t})
    BY <1>1, <1>5, <2>1, FloatPlaced
  <2>3. t \notin kk.wait /\ t \notin ToSet(kk.ready)
    BY <1>2, <1>5 DEF ThreadPlaced, BlockedStates, WaitStates
  <2>4. Leaves(kk, q, t) /\ Keeps(kk, q)
    BY <2>1, <2>3 DEF Leaves, SameStates, Keeps
  <2>5. QED
    BY <1>1, <1>2, <2>1, <2>2, <2>4
<1>6. QED
  BY <1>2, <1>3, <1>4, <1>5 DEF ThreadStates

(* svcRtxThreadSuspend keeps the invariant, for each state that the        *)
(* suspended thread may be in.                                             *)
LEMMA SuspendStep ==
  ASSUME JoinDiscipline, IInv, NEW t \in User, Suspend(t)
  PROVE  IInv' /\ JoinsLast(k, k', join)
<1> DEFINE k1 == LeaveLists(k, t)
           k2 == IF k.state[t] = "Running" THEN SwitchToReady(k1) ELSE k1
           k3 == [k2 EXCEPT !.state[t] = "Blocked"]
           q == DelayInsert(k3, t, Forever)
           G == {t}
<1>1. /\ Calling /\ k' = Return(q) /\ t \in Threads
      /\ Live(t) /\ CanLeave(t) /\ k.state[t] # "WaitingJoin"
      /\ handler' = handler /\ join' = join /\ joinable' = joinable
      /\ unlocked' = unlocked
  BY DEF Suspend, User, Disturbs
<1>2. /\ Placed(k, {}) /\ OneRuns(k) /\ k.next = k.curr /\ k.curr \in Threads
      /\ k.state[k.curr] = "Running" /\ handler = "none"
      /\ k.kstate # "Ready" /\ HeadPositive(k) /\ JoinOK(k, join)
      /\ k.state \in [Threads -> ThreadStates]
      /\ join \in [Threads -> Threads \cup {NoThread}]
      /\ joinable \subseteq Threads
  BY <1>1, CallFacts
<1>3. t \in G /\ G \ {t} = {} /\ {t} = G
  OBVIOUS
<1> HIDE DEF G
<1>4. /\ Placed(k1, G) /\ Keeps(k, k1) /\ Leaves(k, k1, t)
      /\ HeadPositive(k1)
  BY <1>1, <1>2, <1>3, LeaveListsPlaced
<1>5. k.state[t] = "Running" => k1 = k /\ k.ready # <<>>
  BY <1>1 DEF CanLeave, LeaveLists, BlockedStates, WaitStates
<1> HIDE DEF k1
<1>6. /\ Placed(k2, G) /\ Keeps(k, k2) /\ HeadPositive(k2)
      /\ k2.wait = k1.wait /\ k2.next \in Threads /\ k2.next # t
      /\ \A u \in Threads \ {t} :
           /\ k2.state[u] = "Running" <=> u = k2.next
           /\ \/ k2.state[u] = k.state[u]
              \/ k2.state[u] \in Runnable /\ k.state[u] \in Runnable
      /\ TopRuns(k) => TopRuns(k2)
  <2>1. CASE k.state[t] = "Running"
    <3> DEFINE h == Head(k1.ready)
    <3>1. k2 = SwitchToReady(k1) /\ k1 = k /\ k1.ready # <<>>
      BY <1>5, <2>1
    <3> HIDE DEF k2
    <3>2. /\ h \in Threads \ G /\ k1.state[h] = "Ready"
          /\ Placed(k2, G) /\ Keeps(k1, k2) /\ k2.next = h
          /\ SameDelays(k1, k2)
          /\ k2.state = [k1.state EXCEPT ![h] = "Running"] /\ TopRuns(k2)
      BY <1>4, <3>1, SwitchToReadyPlaced
    <3> HIDE DEF h
    <3>3. t = k.curr /\ h # t
      BY <1>1, <1>2, <1>3, <2>1, <3>2 DEF OneRuns
    <3>4. \A u \in Threads \ {t} :
            /\ k2.state[u] = "Running" <=> u = k2.next
            /\ \/ k2.state[u] = k.state[u]
               \/ k2.state[u] \in Runnable /\ k.state[u] \in Runnable
      BY <1>2, <3>1, <3>2, <3>3 DEF OneRuns, Runnable
    <3>5. HeadPositive(k2)
      BY <1>4, <3>2 DEF HeadPositive, SameDelays
    <3>6. QED
      BY <3>1, <3>2, <3>3, <3>4, <3>5 DEF SameDelays
  <2>2. CASE k.state[t] # "Running"
    <3>1. k2 = k1
      BY <2>2
    <3> HIDE DEF k2
    <3>2. k1.state = k.state /\ k1.next = k.next
      BY <1>4 DEF Leaves, SameStates
    <3>3. TopRuns(k) => TopRuns(k1)
      BY <1>4, <3>2 DEF TopRuns, Leaves, Keeps
    <3>4. k.next # t
      BY <1>1, <1>2, <2>2 DEF OneRuns
    <3>5. QED
      BY <1>2, <1>4, <3>1, <3>2, <3>3, <3>4 DEF OneRuns
  <2>3. QED
    BY <2>1, <2>2
<1> HIDE DEF k2
<1>7. /\ Placed(k3, G) /\ Keeps(k2, k3) /\ k3.next = k2.next
      /\ k3.ready = k2.ready /\ SameDelays(k2, k3)
      /\ k3.state = [k2.state EXCEPT ![t] = "Blocked"]
  <2> DEFINE st == "Blocked"
  <2>1. /\ st \in ThreadStates /\ k3 = SetState(k2, t, st)
        /\ t \in Threads /\ t \in G /\ Placed(k2, G)
    BY <1>1, <1>3, <1>6 DEF ThreadStates, BlockedStates, SetState
  <2> HIDE DEF st, k3
  <2>2. /\ Placed(k3, G) /\ Keeps(k2, k3) /\ SameRun(k2, k3)
        /\ SameDelays(k2, k3)
        /\ StateSet(k2, k3, t, st)
    BY <2>1, SetStatePlaced
  <2>3. QED
    BY <2>2 DEF st, StateSet, SameRun
<1>8. k2.state \in [Threads -> ThreadStates]
  BY <1>6 DEF Placed, KernelType
<1> HIDE DEF k3
<1>9. k3.state[t] \in BlockedStates /\ k3.state[t] = "Blocked"
  BY <1>1, <1>7, <1>8 DEF BlockedStates
<1>10. /\ Placed(q, G \ {t}) /\ Keeps(k3, q) /\ q.next = k3.next
       /\ q.state = k3.state /\ q.ready = k3.ready
       /\ WaitGrows(k3, q, t, Forever)
       /\ HeadPositive(k3) => HeadPositive(q)
  <2>1. /\ q = DelayInsert(k3, t, Forever) /\ t \in Threads /\ t \in G
        /\ Placed(k3, G)
    BY <1>1, <1>3, <1>7
  <2> HIDE DEF q
  <2>2. QED
    BY <1>9, <2>1, DelayInsertPlaced
<1> HIDE DEF q
<1>11. OneRuns(q)
  BY <1>1, <1>6, <1>7, <1>8, <1>9, <1>10 DEF OneRuns
<1>12. HeadPositive(q) /\ q.kstate = k.kstate /\ q.next \in Threads
  BY <1>6, <1>7, <1>10 DEF HeadPositive, SameDelays, Keeps
<1>13. TopRuns(k) => TopRuns(q)
  BY <1>6, <1>7, <1>10 DEF TopRuns, Keeps
<1>14. JoinOK(q, join) /\ JoinsLast(k, q, join)
  <2>1. \A u \in Threads \ {t} :
          \/ q.state[u] = k.state[u]
          \/ q.state[u] \in Runnable /\ k.state[u] \in Runnable
    BY <1>6, <1>7, <1>8, <1>10
  <2>2. \A u \in k.wait : u # t => u \in q.wait
    BY <1>4, <1>6, <1>7, <1>10 DEF Leaves, SameDelays, WaitGrows
  <2>3. q.state[t] # "WaitingJoin" /\ LiveIn(k, t) /\ LiveIn(q, t)
    BY <1>1, <1>9, <1>10 DEF Live, LiveIn
  <2>4. QED
    BY <1>1, <1>2, <2>1, <2>2, <2>3, JoinOneMoves
<1>15. QED
  BY <1>1, <1>2, <1>3, <1>10, <1>11, <1>12, <1>13, <1>14, CallStep

(* svcRtxThreadResume keeps the invariant: the thread leaves the list it   *)
(* is blocked in and is dispatched.                                        *)
LEMMA ResumeStep ==
  ASSUME JoinDiscipline, IInv, NEW t \in User, Resume(t)
  PROVE  IInv' /\ JoinsLast(k, k', join)
<1> DEFINE k1 == LeaveLists(k, t)
           q == Dispatch(k1, t)
<1>1. /\ Calling /\ t \in Threads /\ k.state[t] \in BlockedStates
      /\ k.state[t] # "WaitingJoin"
      /\ handler' = handler /\ join' = join /\ joinable' = joinable
      /\ unlocked' = unlocked
  BY DEF Resume, User, Disturbs
<1>2. k' = Return(q)
  <2>1. LeaveLists(k, t) = DelayRemove(ListRemove(k, t), t)
    BY <1>1 DEF LeaveLists, BlockedStates, WaitStates
  <2>2. QED
    BY <2>1 DEF Resume
<1>3. /\ Placed(k, {}) /\ OneRuns(k) /\ k.next = k.curr /\ k.curr \in Threads
      /\ handler = "none"
      /\ k.kstate # "Ready" /\ HeadPositive(k) /\ JoinOK(k, join)
      /\ join \in [Threads -> Threads \cup {NoThread}]
      /\ joinable \subseteq Threads
  BY <1>1, CallFacts
<1>4. /\ Placed(k1, {t}) /\ Keeps(k, k1) /\ Leaves(k, k1, t)
      /\ HeadPositive(k1)
  BY <1>1, <1>3, LeaveListsPlaced
<1> HIDE DEF k1
<1>5. /\ OneRuns(k1) /\ k1.next = k1.curr /\ k1.curr \in Threads
      /\ k1.state = k.state /\ k1.state[t] # "Running"
  BY <1>1, <1>3, <1>4
     DEF OneRuns, Leaves, SameStates, Keeps, BlockedStates, WaitStates
<1>6. /\ Placed(q, {}) /\ OneRuns(q) /\ Keeps(k1, q) /\ SameDelays(k1, q)
      /\ q.state[t] \in Runnable
      /\ \A u \in Threads \ {t} :
           \/ q.state[u] = k1.state[u]
           \/ q.state[u] \in Runnable /\ k1.state[u] \in Runnable
      /\ q.next \in Threads
      /\ k1.kstate = "Running" /\ TopRuns(k1) => TopRuns(q)
  BY <1>1, <1>4, <1>5, DispatchPlaced
<1> HIDE DEF q
<1>7. HeadPositive(q) /\ q.kstate = k.kstate
  BY <1>4, <1>6 DEF HeadPositive, SameDelays, Keeps
<1>8. k.kstate = "Running" /\ TopRuns(k) => TopRuns(q)
  <2>1. TopRuns(k) => TopRuns(k1)
    BY <1>3, <1>4, <1>5 DEF TopRuns, Leaves, Keeps
  <2>2. QED
    BY <1>4, <1>6, <2>1 DEF Keeps
<1>9. JoinOK(q, join) /\ JoinsLast(k, q, join)
  <2>1. \A u \in k.wait : u # t => u \in q.wait
    BY <1>4, <1>6 DEF Leaves, SameDelays
  <2>2. q.state[t] # "WaitingJoin" /\ LiveIn(k, t) /\ LiveIn(q, t)
    BY <1>1, <1>6 DEF Runnable, LiveIn, BlockedStates, WaitStates
  <2>3. \A u \in Threads \ {t} :
           \/ q.state[u] = k.state[u]
           \/ q.state[u] \in Runnable /\ k.state[u] \in Runnable
    BY <1>5, <1>6
  <2>4. QED
    BY <1>1, <1>3, <2>1, <2>2, <2>3, JoinOneMoves
<1>10. QED
  BY <1>1, <1>2, <1>3, <1>6, <1>7, <1>8, <1>9, CallStep

(* svcRtxThreadNew keeps the invariant: the new thread is dispatched and   *)
(* its control block keeps no joiner.                                      *)
LEMMA ThreadNewStep ==
  ASSUME IInv, NEW t \in User, NEW p \in Prios, NEW attr,
         ThreadNew(t, p, attr)
  PROVE  IInv' /\ JoinsLast(k, k', join)
<1> DEFINE m == Fresh(k, t, p)
           q == Dispatch(m, t)
<1>1. /\ handler = "none" /\ t \in Threads /\ t # Idle /\ p \in Int
      /\ k.state[t] = "Inactive" /\ k' = Return(q)
      /\ join' = [join EXCEPT ![t] = NoThread]
      /\ joinable' \in {joinable \cup {t}, joinable \ {t}}
      /\ handler' = handler /\ unlocked' = unlocked
  BY PriosAreInts DEF ThreadNew, Calling, User, NewThread, Fresh, ResetJoin
<1>2. /\ Placed(k, {}) /\ OneRuns(k) /\ k.next = k.curr /\ KernelOK(k)
      /\ HeadPositive(k) /\ JoinOK(k, join) /\ k \in KernelType
      /\ join \in [Threads -> Threads \cup {NoThread}]
      /\ joinable \subseteq Threads
  BY <1>1 DEF IInv, TypeOK, KernelOK
<1>3. /\ k.curr \in Threads \cup {NoThread}
      /\ k.state \in [Threads -> ThreadStates]
  BY <1>2 DEF KernelType
<1>4. /\ Placed(m, {t}) /\ OneRuns(m)
      /\ m.kstate = k.kstate /\ m.curr = k.curr /\ m.next = k.next
      /\ StateSet(k, m, t, "Ready") /\ m.wait = k.wait
      /\ HeadPositive(m)
      /\ TopRuns(k) /\ k.next \in Threads => TopRuns(m)
  <2>1. m = Fresh(k, t, p)
    OBVIOUS
  <2> HIDE DEF m
  <2>2. QED
    BY <1>1, <1>2, <2>1, FreshPlaced
<1> HIDE DEF m
<1>5. /\ m.next = m.curr /\ m.state[t] = "Ready"
      /\ m.kstate = "Running" => m.curr \in Threads
      /\ \A u \in Threads \ {t} : m.state[u] = k.state[u]
  BY <1>1, <1>2, <1>3, <1>4 DEF StateSet, KernelOK
<1>6. /\ Placed(q, {}) /\ OneRuns(q) /\ Keeps(m, q) /\ SameDelays(m, q)
      /\ q.state[t] \in Runnable
      /\ \A u \in Threads \ {t} :
           \/ q.state[u] = m.state[u]
           \/ q.state[u] \in Runnable /\ m.state[u] \in Runnable
      /\ m.curr \in Threads => q.next \in Threads
      /\ m.kstate # "Running" => OnlyReady(m, q, t)
      /\ m.kstate = "Running" /\ TopRuns(m) => TopRuns(q)
  <2>1. m.state[t] # "Running"
    BY <1>5
  <2>2. QED
    BY <1>1, <1>4, <1>5, <2>1, DispatchPlaced
<1> HIDE DEF q
<1>7. /\ join' \in [Threads -> Threads \cup {NoThread}]
      /\ joinable' \subseteq Threads
  BY <1>1, <1>2
<1>8. JoinOK(q, join') /\ JoinsLast(k, q, join)
  <2>1. JoinOK(k, join') /\ \A u \in Threads : LiveIn(k, u) => join'[u] = join[u]
    <3>1. /\ join'[t] = NoThread
          /\ \A u \in Threads : u # t => join'[u] = join[u]
      BY <1>1, <1>2
    <3>2. ~LiveIn(k, t)
      BY <1>1 DEF LiveIn
    <3>3. QED
      BY <1>1, <1>2, <3>1, <3>2, IdleIsThread DEF JoinOK, Registered
  <2>2. /\ join'[t] = NoThread /\ k.state[t] # "WaitingJoin"
        /\ q.state[t] # "WaitingJoin"
    BY <1>1, <1>2, <1>6 DEF Runnable
  <2>3. \A u \in Threads \ {t} :
          \/ q.state[u] = k.state[u]
          \/ q.state[u] \in Runnable /\ k.state[u] \in Runnable
    BY <1>5, <1>6
  <2>4. \A u \in k.wait : u # t => u \in q.wait
    BY <1>4, <1>6 DEF SameDelays
  <2>5. JoinOK(q, join') /\ JoinsLast(k, q, join')
    BY <1>1, <2>1, <2>2, <2>3, <2>4, JoinOneMoves
  <2>6. QED
    BY <2>1, <2>5 DEF JoinsLast
<1>9. HeadPositive(q) /\ q.kstate = k.kstate
  BY <1>4, <1>6 DEF HeadPositive, SameDelays, Keeps
<1>10. CASE k.kstate # "Ready"
  <2>1. k.curr \in Threads
    BY <1>2, <1>3, <1>10 DEF KernelOK
  <2>2. q.next \in Threads
    BY <1>4, <1>6, <2>1
  <2>3. k.kstate = "Running" /\ TopRuns(k) => TopRuns(q)
    BY <1>2, <1>4, <1>6, <2>1
  <2>4. QED
    BY <1>1, <1>6, <1>7, <1>8, <1>9, <1>10, <2>2, <2>3, CallStep
<1>11. CASE k.kstate = "Ready"
  <2>1. /\ Placed(k', {}) /\ k'.next = q.next /\ k'.curr = q.next
        /\ k'.kstate = q.kstate /\ k'.prio = q.prio /\ k'.ready = q.ready
        /\ k'.state = q.state /\ SameDelays(q, k')
    BY <1>1, <1>6, ReturnPlaced
  <2>2. q.next = NoThread /\ q.state[Idle] = "Inactive"
    <3>1. OnlyReady(m, q, t)
      BY <1>4, <1>6, <1>11
    <3>2. m.next = NoThread /\ m.state[Idle] = "Inactive"
      BY <1>1, <1>2, <1>4, <1>5, <1>11, IdleIsThread DEF KernelOK
    <3>3. m.state \in [Threads -> ThreadStates]
      BY <1>4 DEF Placed, KernelType
    <3>4. QED
      BY <1>1, <3>1, <3>2, <3>3, IdleIsThread DEF OnlyReady
  <2>3. KernelOK(k')
    BY <1>6, <1>9, <1>11, <2>1, <2>2 DEF KernelOK, OneRuns
  <2>4. JoinOK(k', join') /\ JoinsLast(k, k', join)
    BY <1>8, <2>1 DEF JoinOK, Registered, LiveIn, JoinsLast, SameDelays
  <2>5. HeadPositive(k')
    BY <1>9, <2>1 DEF HeadPositive, SameDelays
  <2>6. TypeOK'
    BY <1>1, <1>7, <2>1, <2>3 DEF IInv, TypeOK, Placed
  <2>7. QED
    BY <1>1, <1>9, <1>11, <2>1, <2>3, <2>4, <2>5, <2>6 DEF IInv
<1>12. QED
  BY <1>10, <1>11

(* svcRtxKernelStart establishes what holds while the kernel runs: the     *)
(* head of the ready list becomes the running thread.                      *)
LEMMA KernelStartStep ==
  ASSUME IInv, KernelStart
  PROVE  IInv' /\ JoinsLast(k, k', join)
<1> DEFINE m == Fresh(k, Idle, IdlePrio)
           q == Dispatch(m, Idle)
           r == SwitchToReady(q)
           e == [r EXCEPT !.kstate = "Running"]
<1>1. /\ k.kstate = "Ready" /\ k' = Return(e)
      /\ join' = join /\ joinable' = joinable
      /\ handler' = handler /\ unlocked' = unlocked
  BY DEF KernelStart, NewThread, Fresh
<1>2. /\ Placed(k, {}) /\ OneRuns(k) /\ k.next = k.curr /\ handler = "none"
      /\ HeadPositive(k) /\ JoinOK(k, join) /\ k.state[Idle] = "Inactive"
      /\ join \in [Threads -> Threads \cup {NoThread}]
      /\ joinable \subseteq Threads
      /\ Idle \in Threads /\ IdlePrio \in Int
  BY <1>1, IdleIsThread, PriosAreInts DEF IInv, TypeOK, KernelOK
<1>3. /\ Placed(m, {Idle}) /\ OneRuns(m)
      /\ m.kstate = k.kstate /\ m.curr = k.curr /\ m.next = k.next
      /\ StateSet(k, m, Idle, "Ready") /\ m.wait = k.wait
      /\ HeadPositive(m)
  <2>1. m = Fresh(k, Idle, IdlePrio)
    OBVIOUS
  <2> HIDE DEF m
  <2>2. QED
    BY <1>2, <2>1, FreshPlaced
<1> HIDE DEF m
<1>4. k.state \in [Threads -> ThreadStates]
  BY <1>2 DEF Placed, KernelType
<1>5. /\ m.next = m.curr /\ m.state[Idle] = "Ready" /\ m.kstate = "Ready"
      /\ \A u \in Threads \ {Idle} : m.state[u] = k.state[u]
  BY <1>1, <1>2, <1>3, <1>4 DEF StateSet
<1>6. /\ Placed(q, {}) /\ OneRuns(q) /\ Keeps(m, q) /\ SameDelays(m, q)
      /\ OnlyReady(m, q, Idle)
  <2>1. m.state[Idle] # "Running" /\ m.kstate # "Running"
    BY <1>5
  <2>2. QED
    BY <1>2, <1>3, <1>5, <2>1, DispatchPlaced
<1>7. q.ready # <<>>
  BY <1>6 DEF OnlyReady, ToSet
<1>8. /\ m.state \in [Threads -> ThreadStates]
      /\ q.state \in [Threads -> ThreadStates]
      /\ k.curr = NoThread
  BY <1>1, <1>3, <1>6 DEF Placed, KernelType, IInv, KernelOK
<1>9. /\ \A u \in Threads : q.state[u] # "Running"
      /\ q.state[Idle] = "Ready"
      /\ \A u \in Threads \ {Idle} : q.state[u] = k.state[u]
  BY <1>2, <1>3, <1>5, <1>6, <1>8, NoThreadNotThread DEF OnlyReady, OneRuns
<1> HIDE DEF q
<1> DEFINE h == Head(q.ready)
<1>10. /\ h \in Threads /\ q.state[h] = "Ready"
       /\ Placed(r, {}) /\ Keeps(q, r) /\ r.next = h /\ SameDelays(q, r)
       /\ r.state = [q.state EXCEPT ![h] = "Running"] /\ TopRuns(r)
  BY <1>6, <1>7, SwitchToReadyPlaced
<1> HIDE DEF h, r
<1>11. r \in KernelType
  BY <1>10 DEF Placed
<1>12. /\ e.kstate = "Running" /\ e.curr = r.curr /\ e.prio = r.prio
       /\ e.next = r.next /\ e.ready = r.ready /\ e.state = r.state
       /\ e.dlist = r.dlist /\ e.delay = r.delay /\ e.wait = r.wait
  BY <1>11 DEF KernelType
<1>13. e \in KernelType
  <2>1. "Running" \in KernelStates
    BY DEF KernelStates
  <2>2. QED
    BY <1>11, <2>1, FieldUpdates
<1> HIDE DEF e
<1>14. Placed(e, {})
  BY <1>10, <1>12, <1>13 DEF Placed, ListsOK, ThreadPlaced, Unlisted
<1>15. /\ Placed(k', {}) /\ k'.next = e.next /\ k'.curr = e.next
       /\ k'.kstate = e.kstate /\ k'.prio = e.prio /\ k'.ready = e.ready
       /\ k'.state = e.state /\ SameDelays(e, k')
  BY <1>1, <1>14, ReturnPlaced
<1>16. OneRuns(k')
  BY <1>8, <1>9, <1>10, <1>12, <1>15 DEF OneRuns
<1>17. KernelOK(k') /\ k'.kstate = "Running"
  BY <1>10, <1>12, <1>15, <1>16, NoThreadNotThread DEF KernelOK
<1>18. HeadPositive(k')
  BY <1>3, <1>6, <1>10, <1>12, <1>15 DEF HeadPositive, SameDelays
<1>19. TopRuns(k')
  BY <1>10, <1>12, <1>15 DEF TopRuns
<1>20. JoinOK(k', join') /\ JoinsLast(k, k', join)
  <2>1. /\ k'.state[Idle] \in Runnable
        /\ \A u \in Threads \ {Idle} :
             \/ k'.state[u] = k.state[u]
             \/ k'.state[u] \in Runnable /\ k.state[u] \in Runnable
    BY <1>2, <1>8, <1>9, <1>10, <1>12, <1>15 DEF Runnable
  <2>2. \A u \in k.wait : u # Idle => u \in k'.wait
    BY <1>3, <1>6, <1>10, <1>12, <1>15 DEF SameDelays
  <2>3. /\ k'.state[Idle] # "WaitingJoin" /\ k.state[Idle] # "WaitingJoin"
        /\ join[Idle] = NoThread
    BY <1>2, <2>1 DEF Runnable, JoinOK
  <2>4. JoinOK(k', join) /\ JoinsLast(k, k', join)
    BY <1>2, <2>1, <2>2, <2>3, JoinOneMoves
  <2>5. QED
    BY <1>1, <2>4
<1>21. TypeOK'
  BY <1>1, <1>2, <1>15, <1>17 DEF IInv, TypeOK, Placed
<1>22. QED
  BY <1>1, <1>17, <1>18, <1>19, <1>20, <1>21 DEF IInv

(* A terminated thread is freed. *)
LEMMA FreeStep ==
  ASSUME IInv, Calling, NEW t \in Threads, k.state[t] = "Terminated",
         k' = [k EXCEPT !.state[t] = "Inactive"], join' = join,
         joinable' = joinable, handler' = handler, unlocked' = unlocked
  PROVE  IInv' /\ JoinsLast(k, k', join)
<1>1. /\ Placed(k, {}) /\ OneRuns(k) /\ k.next = k.curr /\ k.curr \in Threads
      /\ k.state[k.curr] = "Running" /\ handler = "none"
      /\ k.kstate # "Ready" /\ HeadPositive(k) /\ JoinOK(k, join)
      /\ k.state \in [Threads -> ThreadStates]
      /\ join \in [Threads -> Threads \cup {NoThread}]
      /\ joinable \subseteq Threads
  BY CallFacts
<1> DEFINE G == {} \cup {t}
           st == "Inactive"
           q == k'
<1>2. Placed(k, G) /\ t \in G /\ G \ {t} = {}
  BY <1>1, FloatPlaced
<1>3. /\ st \in ThreadStates /\ st \in {"Running", "Inactive", "Terminated"}
      /\ q = SetState(k, t, st)
  BY DEF ThreadStates, SetState
<1>4. q = k' /\ st = "Inactive"
  OBVIOUS
<1> HIDE DEF G, st, q
<1>5. /\ Placed(q, G \ {t}) /\ Keeps(k, q) /\ SameRun(k, q)
      /\ SameDelays(k, q) /\ StateSet(k, q, t, st)
  BY <1>2, <1>3, SetStatePlaced
<1>6. OneRuns(q) /\ q.next \in Threads /\ q.curr = q.next
      /\ q.kstate = k.kstate
  BY <1>1, <1>4, <1>5 DEF OneRuns, StateSet, SameRun, Keeps
<1>7. HeadPositive(q) /\ (TopRuns(k) => TopRuns(q))
  BY <1>1, <1>5 DEF HeadPositive, TopRuns, SameDelays, SameRun, Keeps
<1>8. JoinOK(q, join) /\ JoinsLast(k, q, join)
  <2>1. /\ q.state[t] = "Inactive"
        /\ \A u \in Threads \ {t} : q.state[u] = k.state[u]
    BY <1>1, <1>4, <1>5 DEF StateSet
  <2>2. /\ ~LiveIn(k, t) /\ ~LiveIn(q, t)
        /\ \A u \in k.wait : u # t => u \in q.wait
    BY <1>5, <2>1 DEF LiveIn, SameDelays
  <2>3. k.state[t] # "WaitingJoin" /\ q.state[t] # "WaitingJoin"
    BY <2>1
  <2>4. QED
    BY <1>1, <2>1, <2>2, <2>3, JoinOneMoves
<1>9. QED
  BY <1>1, <1>2, <1>4, <1>5, <1>6, <1>7, <1>8, CallStep

(* svcRtxThreadDetach and svcRtxThreadJoin of a terminated thread *)
LEMMA DetachStep ==
  ASSUME IInv, NEW t \in User, Detach(t) \/ JoinDone(t)
  PROVE  IInv' /\ JoinsLast(k, k', join)
<1>1. t \in Threads /\ Calling
  BY DEF User, Detach, JoinDone
<1>2. CASE k.state[t] = "Terminated"
  <2>1. /\ k' = [k EXCEPT !.state[t] = "Inactive"] /\ join' = join
        /\ joinable' = joinable /\ handler' = handler
        /\ unlocked' = unlocked
    BY <1>2 DEF Detach, JoinDone
  <2>2. QED
    BY <1>1, <1>2, <2>1, FreeStep
<1>3. CASE k.state[t] # "Terminated"
  <2>1. /\ k' = k /\ joinable' = joinable \ {t} /\ join' = join
        /\ handler' = handler /\ unlocked' = unlocked
    BY <1>3 DEF Detach, JoinDone
  <2>2. QED
    BY <2>1 DEF IInv, TypeOK, JoinOK, JoinsLast
<1>4. QED
  BY <1>2, <1>3

(* svcRtxThreadJoin of a live thread keeps the invariant: the caller waits *)
(* and is registered.                                                      *)
LEMMA JoinWaitStep ==
  ASSUME JoinDiscipline, IInv, NEW t \in User, JoinWait(t)
  PROVE  IInv' /\ JoinsLast(k, k', join)
<1> DEFINE st == "WaitingJoin"
           ret == "osErrorResource"
           q == WaitEnter(k, st, Forever, ret)
           h == Head(k.ready)
<1>1. /\ Calling /\ CanWait(k) /\ k' = Return(q)
      /\ t \in Threads \ {Idle} /\ Live(t) /\ join[t] = NoThread
      /\ handler' = handler /\ join' = [join EXCEPT ![t] = k.curr]
      /\ joinable' = joinable /\ unlocked' = unlocked
  BY DEF JoinWait, User
<1>2. /\ Placed(k, {}) /\ OneRuns(k) /\ k.next = k.curr /\ k.curr \in Threads
      /\ k.state[k.curr] = "Running" /\ handler = "none"
      /\ k.kstate # "Ready" /\ HeadPositive(k) /\ JoinOK(k, join)
      /\ k.state \in [Threads -> ThreadStates]
      /\ join \in [Threads -> Threads \cup {NoThread}]
      /\ joinable \subseteq Threads
  BY <1>1, CallFacts
<1>3. st \in WaitStates /\ ret \in Results /\ st = "WaitingJoin"
      /\ q = WaitEnter(k, st, Forever, ret)
  BY DEF WaitStates, Results
<1> HIDE DEF st, ret, q
<1>4. /\ k.curr # h /\ h \in Threads /\ k.state[h] = "Ready"
      /\ Placed(q, {}) /\ OneRuns(q) /\ Keeps(k, q) /\ TopRuns(q)
      /\ q.next \in Threads /\ StateSwap(k, q, k.curr, st, h)
      /\ WaitGrows(k, q, k.curr, Forever)
      /\ HeadPositive(k) => HeadPositive(q)
  BY <1>1, <1>2, <1>3, WaitEnterPlaced
<1> HIDE DEF h
<1>5. JoinOK(q, join') /\ JoinsLast(k, q, join)
  <2>1. /\ q.state[k.curr] = "WaitingJoin" /\ k.curr \in q.wait
        /\ \A u \in Threads \ {k.curr} :
             \/ q.state[u] = k.state[u]
             \/ q.state[u] \in Runnable /\ k.state[u] \in Runnable
        /\ \A u \in k.wait : u \in q.wait
    BY <1>2, <1>3, <1>4 DEF Runnable, StateSwap, WaitGrows
  <2>2. LiveIn(k, t)
    BY <1>1 DEF LiveIn, Live
  <2>3. QED
    BY <1>1, <1>2, <2>1, <2>2, JoinBegins
<1>6. join' \in [Threads -> Threads \cup {NoThread}]
  BY <1>1, <1>2
<1>7. QED
  BY <1>1, <1>2, <1>4, <1>5, <1>6, CallStep DEF Keeps

(* svcRtxKernelLock and svcRtxKernelUnlock *)
LEMMA LockStep ==
  ASSUME IInv, KernelLock \/ KernelUnlock
  PROVE  IInv' /\ JoinsLast(k, k', join)
<1> DEFINE ks == IF k.kstate = "Running" THEN "Locked" ELSE "Running"
<1>1. /\ Calling /\ k' = [k EXCEPT !.kstate = ks]
      /\ handler' = handler /\ join' = join /\ joinable' = joinable
      /\ unlocked' \in {"yes", "no"}
      /\ ks = "Running" => unlocked' = "yes"
      /\ ks \in KernelStates /\ ks # "Ready"
  BY DEF KernelLock, KernelUnlock, KernelStates, IInv, TypeOK
<1> HIDE DEF ks
<1>2. /\ Placed(k, {}) /\ k \in KernelType
      /\ k.kstate # "Ready" /\ HeadPositive(k) /\ JoinOK(k, join)
      /\ handler = "none" /\ k.curr \in Threads /\ KernelOK(k)
  BY <1>1, CallFacts DEF Placed, IInv
<1>3. k' \in KernelType
  BY <1>1, <1>2, FieldUpdates
<1>4. /\ k'.kstate = ks /\ k'.curr = k.curr /\ k'.prio = k.prio
      /\ k'.next = k.next /\ k'.ready = k.ready /\ k'.state = k.state
      /\ k'.dlist = k.dlist /\ k'.delay = k.delay /\ k'.wait = k.wait
  BY <1>1, <1>2 DEF KernelType
<1>5. Placed(k', {})
  BY <1>2, <1>3, <1>4 DEF Placed, ListsOK, ThreadPlaced, Unlisted
<1>6. KernelOK(k')
  BY <1>1, <1>2, <1>4, <1>5, NoThreadNotThread DEF KernelOK, OneRuns
<1>7. JoinOK(k', join') /\ JoinsLast(k, k', join) /\ HeadPositive(k')
  BY <1>1, <1>2, <1>4 DEF JoinOK, Registered, LiveIn, JoinsLast, HeadPositive
<1>8. TypeOK'
  BY <1>1, <1>3, <1>6 DEF IInv, TypeOK, KernelOK
<1>9. QED
  BY <1>1, <1>2, <1>4, <1>6, <1>7, <1>8 DEF IInv

-----------------------------------------------------------------------------
(* A thread ends. *)

(* The joining thread, if one is registered, is ready. *)
Woken(kk, q, w) ==
  \/ w = NoThread /\ q = kk
  \/ /\ w \in Threads /\ kk.state[w] = "WaitingJoin"
     /\ q.state = [kk.state EXCEPT ![w] = "Ready"]
     /\ q.wait = kk.wait \ {w}
     /\ ToSet(q.ready) = ToSet(kk.ready) \cup {w}

(* Waking the registered joiner moves that thread alone, from the wait     *)
(* list to the ready list.                                                 *)
LEMMA WakeJoinerPlaced ==
  ASSUME NEW kk, NEW F, Placed(kk, F), NEW t \in Threads,
         join[t] # NoThread => /\ join[t] \in Threads /\ join[t] \notin F
                               /\ kk.state[join[t]] = "WaitingJoin",
         NEW q, q = WakeJoiner(kk, t)
  PROVE  /\ Placed(q, F) /\ Keeps(kk, q) /\ q.next = kk.next
         /\ HeadPositive(kk) => HeadPositive(q)
         /\ Woken(kk, q, join[t])
<1>1. CASE join[t] = NoThread
  <2>1. q = kk
    BY <1>1 DEF WakeJoiner
  <2>2. QED
    BY <1>1, <2>1 DEF Woken, Keeps
<1>2. CASE join[t] # NoThread
  <2> DEFINE w == join[t]
             ok == "osOK"
  <2>1. /\ w \in Threads /\ w \notin F /\ kk.state[w] \in BlockedStates
        /\ kk.state[w] = "WaitingJoin"
        /\ ok \in Results /\ q = WaitExitReady(kk, w, ok)
    BY <1>2 DEF WakeJoiner, BlockedStates, WaitStates, Results
  <2>2. w = join[t]
    OBVIOUS
  <2> HIDE DEF w, ok
  <2>3. /\ Placed(q, F) /\ Keeps(kk, q) /\ q.next = kk.next
        /\ q.state = [kk.state EXCEPT ![w] = "Ready"]
        /\ ToSet(q.ready) = ToSet(kk.ready) \cup {w}
        /\ q.wait = kk.wait \ {w}
        /\ HeadPositive(kk) => HeadPositive(q)
    BY <2>1, WaitExitReadyPlaced
  <2>4. Woken(kk, q, w)
    BY <2>1, <2>3 DEF Woken
  <2>5. QED
    BY <2>2, <2>3, <2>4
<1>3. QED
  BY <1>1, <1>2

(* What is left when thread t, which was taken out of all lists in k1, has *)
(* woken its joiner (k2), the next thread has been chosen (k3) and t is    *)
(* retired (q).                                                            *)
LEMMA EndStep ==
  ASSUME IInv, Calling, NEW t \in Threads, Live(t),
         k.state[t] # "WaitingJoin", NEW k1, NEW k2, NEW k3, NEW q,
         Placed(k1, {t}), Keeps(k, k1), Leaves(k, k1, t), HeadPositive(k1),
         k2 = WakeJoiner(k1, t),
         k.state[t] = "Running" => k2.ready # <<>> /\ k3 = SwitchToReady(k2),
         k.state[t] # "Running" => k3 = DispatchReady(k2),
         q = Retire(k3, t), k' = Return(q),
         handler' = handler, join' = join, joinable' = joinable,
         unlocked' = unlocked
  PROVE  IInv' /\ JoinsLast(k, k', join)
<1> DEFINE G == {t}
           w == join[t]
<1>1. /\ Placed(k, {}) /\ OneRuns(k) /\ k.next = k.curr /\ k.curr \in Threads
      /\ k.state[k.curr] = "Running" /\ handler = "none"
      /\ k.kstate # "Ready" /\ HeadPositive(k) /\ JoinOK(k, join)
      /\ k.state \in [Threads -> ThreadStates]
      /\ join \in [Threads -> Threads \cup {NoThread}]
      /\ joinable \subseteq Threads
  BY CallFacts
<1>2. /\ Placed(k1, G) /\ t \in G /\ G \ {t} = {} /\ w = join[t]
      /\ \A u : u \notin G <=> u # t
      /\ G \subseteq Threads
  OBVIOUS
<1> HIDE DEF G, w
<1>3. k1.state = k.state /\ k1.next = k.next
  BY DEF Leaves, SameStates
<1>4. w # NoThread => /\ w \in Threads /\ w # t
                      /\ k1.state[w] = "WaitingJoin"
  BY <1>1, <1>2, <1>3 DEF JoinOK, LiveIn, Live
<1>5. /\ Placed(k2, G) /\ Keeps(k1, k2) /\ k2.next = k1.next
      /\ HeadPositive(k2) /\ Woken(k1, k2, w)
  BY <1>2, <1>4, WakeJoinerPlaced
<1>6. /\ k2.state[t] = k.state[t]
      /\ k2.next = k.next /\ k2.curr = k.curr /\ k2.kstate = k.kstate
      /\ OneRuns(k2)
      /\ k2.state \in [Threads -> ThreadStates]
      /\ \A u \in Threads : u # w => k2.state[u] = k.state[u]
      /\ w # NoThread => k2.state[w] = "Ready"
      /\ \A u \in k.wait : u # t /\ u # w => u \in k2.wait
  <2>1. /\ \A u \in Threads : u # w => k2.state[u] = k.state[u]
        /\ w # NoThread => k2.state[w] = "Ready"
        /\ \A u \in k.wait : u # t /\ u # w => u \in k2.wait
    BY <1>1, <1>3, <1>4, <1>5 DEF Woken, Leaves
  <2>2. /\ k2.next = k.next /\ k2.curr = k.curr /\ k2.kstate = k.kstate
        /\ k2.state \in [Threads -> ThreadStates]
    BY <1>3, <1>5 DEF Keeps, Placed, KernelType
  <2>3. k2.state[t] = k.state[t]
    BY <1>4, <2>1, NoThreadNotThread
  <2>4. OneRuns(k2)
    <3>1. w # NoThread => w # k.curr
      BY <1>1, <1>3, <1>4
    <3>2. \A u \in Threads : k2.state[u] = "Running" <=> u = k.curr
      BY <1>1, <1>4, <2>1, <3>1, NoThreadNotThread DEF OneRuns
    <3>3. QED
      BY <1>1, <2>2, <3>2 DEF OneRuns
  <2>5. QED
    BY <2>1, <2>2, <2>3, <2>4
<1>7. /\ Placed(k3, G) /\ k3.kstate = k.kstate /\ k3.next \in Threads
      /\ HeadPositive(k3) /\ k3.wait = k2.wait
      /\ k3.next # t
      /\ \A u \in Threads \ {t} :
           /\ k3.state[u] = "Running" <=> u = k3.next
           /\ \/ k3.state[u] = k2.state[u]
              \/ k3.state[u] \in Runnable /\ k2.state[u] \in Runnable
      /\ k.kstate = "Running" => TopRuns(k3)
  <2>1. CASE k.state[t] = "Running"
    <3> DEFINE h == Head(k2.ready)
    <3>1. /\ h \in Threads \ G /\ k2.state[h] = "Ready"
          /\ Placed(k3, G) /\ Keeps(k2, k3) /\ k3.next = h
          /\ SameDelays(k2, k3)
          /\ k3.state = [k2.state EXCEPT ![h] = "Running"] /\ TopRuns(k3)
      BY <1>5, <2>1, SwitchToReadyPlaced
    <3> HIDE DEF h
    <3>2. t = k.curr /\ h # t
      BY <1>1, <1>2, <2>1, <3>1 DEF OneRuns
    <3>3. \A u \in Threads \ {t} :
            /\ k3.state[u] = "Running" <=> u = k3.next
            /\ \/ k3.state[u] = k2.state[u]
               \/ k3.state[u] \in Runnable /\ k2.state[u] \in Runnable
      BY <1>1, <1>6, <3>1, <3>2 DEF OneRuns, Runnable
    <3>4. HeadPositive(k3) /\ k3.wait = k2.wait /\ k3.kstate = k.kstate
      BY <1>5, <1>6, <3>1 DEF HeadPositive, SameDelays, Keeps
    <3>5. QED
      BY <3>1, <3>2, <3>3, <3>4
  <2>2. CASE k.state[t] # "Running"
    <3>1. /\ k3 = DispatchReady(k2) /\ k2.curr \notin G /\ k2.next = k2.curr
          /\ k2.curr \in Threads /\ k.curr # t
      BY <1>1, <1>2, <1>6, <2>2
    <3>2. /\ Placed(k3, G) /\ OneRuns(k3) /\ Keeps(k2, k3)
          /\ SameDelays(k2, k3) /\ SameBlocked(k2, k3)
          /\ k3.next \in Threads
          /\ \A u \in G : k3.state[u] = k2.state[u]
          /\ k2.kstate = "Running" => TopRuns(k3)
      <4>1. Placed(k2, G) /\ OneRuns(k2) /\ G \subseteq Threads
        BY <1>2, <1>5, <1>6
      <4>2. QED
        BY <3>1, <4>1, DispatchReadyPlaced
    <3>3. HeadPositive(k3) /\ k3.wait = k2.wait /\ k3.kstate = k.kstate
      BY <1>5, <1>6, <3>2 DEF HeadPositive, SameDelays, Keeps
    <3>4. k3.next # t
      BY <1>2, <1>6, <2>2, <3>2 DEF OneRuns
    <3>5. QED
      BY <1>6, <3>2, <3>3, <3>4 DEF OneRuns, SameBlocked
  <2>3. QED
    BY <2>1, <2>2
<1> DEFINE st == IF t \notin joinable \/ join[t] # NoThread THEN "Inactive"
                 ELSE "Terminated"
<1>8. /\ st \in ThreadStates /\ st \in {"Running", "Inactive", "Terminated"}
      /\ q = SetState(k3, t, st) /\ st \in {"Inactive", "Terminated"}
  BY DEF Retire, SetState, ThreadStates
<1> HIDE DEF st
<1>9. /\ Placed(q, G \ {t}) /\ Keeps(k3, q) /\ SameRun(k3, q)
      /\ SameDelays(k3, q) /\ StateSet(k3, q, t, st)
  <2>1. Placed(k3, G)
    BY <1>7
  <2>2. QED
    BY <1>2, <1>8, <2>1, SetStatePlaced
<1>10. k3.state \in [Threads -> ThreadStates]
  BY <1>7 DEF Placed, KernelType
<1>11. /\ q.state[t] = st
       /\ \A u \in Threads \ {t} : q.state[u] = k3.state[u]
       /\ q.next = k3.next /\ q.ready = k3.ready /\ q.prio = k3.prio
       /\ q.kstate = k.kstate /\ q.wait = k2.wait
  BY <1>7, <1>9, <1>10 DEF StateSet, SameRun, SameDelays, Keeps
<1>12. OneRuns(q) /\ q.next \in Threads
  BY <1>7, <1>8, <1>11 DEF OneRuns
<1>13. HeadPositive(q) /\ (k.kstate = "Running" => TopRuns(q))
  BY <1>7, <1>9, <1>11 DEF HeadPositive, SameDelays, TopRuns
<1>14. JoinOK(q, join) /\ JoinsLast(k, q, join)
  <2>1. LiveIn(k, t) /\ ~LiveIn(q, t) /\ q.state[t] # "WaitingJoin"
    BY <1>8, <1>11 DEF Live, LiveIn
  <2>2. \A u \in k.wait : u # t /\ u # w => u \in q.wait
    BY <1>6, <1>11
  <2>3. \A u \in Threads \ {t} : u # w =>
          \/ q.state[u] = k.state[u]
          \/ q.state[u] \in Runnable /\ k.state[u] \in Runnable
    BY <1>6, <1>7, <1>11
  <2>4. CASE w = NoThread
    <3>1. \A u \in Threads \ {t} :
            \/ q.state[u] = k.state[u]
            \/ q.state[u] \in Runnable /\ k.state[u] \in Runnable
      BY <2>3, <2>4, NoThreadNotThread
    <3>2. \A u \in k.wait : u # t => u \in q.wait
      <4>1. k.wait \subseteq Threads
        BY <1>1 DEF Placed, KernelType
      <4>2. QED
        BY <2>2, <2>4, <4>1, NoThreadNotThread
    <3>3. join[t] = NoThread
      BY <1>2, <2>4
    <3>4. QED
      BY <1>1, <2>1, <3>1, <3>2, <3>3, JoinOneMoves
  <2>5. CASE w # NoThread
    <3>1. w \in Threads /\ w # t /\ q.state[w] \in Runnable /\ join[t] = w
      BY <1>2, <1>4, <1>6, <1>7, <1>11, <2>5 DEF Runnable
    <3>2. \A u \in Threads \ {t, w} :
            \/ q.state[u] = k.state[u]
            \/ q.state[u] \in Runnable /\ k.state[u] \in Runnable
      BY <2>3
    <3>3. QED
      BY <1>1, <2>1, <2>2, <2>5, <3>1, <3>2, JoinEnds
  <2>6. QED
    BY <2>4, <2>5
<1>15. QED
  <2>1. Placed(q, {}) /\ q.kstate = k.kstate
    BY <1>2, <1>9, <1>11
  <2>2. /\ JoinOK(q, join') /\ JoinsLast(k, q, join)
        /\ joinable' \subseteq Threads
        /\ join' \in [Threads -> Threads \cup {NoThread}]
    BY <1>1, <1>14
  <2>3. QED
    BY <1>1, <1>12, <1>13, <2>1, <2>2, CallStep

(* svcRtxThreadExit keeps the invariant: the joiner is ready before the    *)
(* next thread is chosen.                                                  *)
LEMMA ExitStep ==
  ASSUME IInv, Exit
  PROVE  IInv' /\ JoinsLast(k, k', join)
<1> DEFINE t == k.curr
           k2 == WakeJoiner(k, t)
           k3 == SwitchToReady(k2)
           q == Retire(k3, t)
<1>1. /\ Calling /\ k' = Return(q) /\ CanLeave(t)
      /\ handler' = handler /\ join' = join /\ joinable' = joinable
      /\ unlocked' = unlocked
  BY DEF Exit
<1>2. /\ Placed(k, {}) /\ t \in Threads /\ k.state[t] = "Running"
      /\ HeadPositive(k) /\ JoinOK(k, join) /\ OneRuns(k)
  BY <1>1, CallFacts
<1>3. Live(t) /\ k.state[t] # "WaitingJoin" /\ k.ready # <<>>
  BY <1>1, <1>2 DEF Live, CanLeave
<1>4. Placed(k, {} \cup {t})
  BY <1>2, FloatPlaced
<1>5. /\ Placed(k, {t}) /\ Keeps(k, k) /\ Leaves(k, k, t)
  <2>1. t \notin k.wait /\ t \notin ToSet(k.ready)
    <3>1. t \in Threads /\ t \in {} \cup {t}
      BY <1>2
    <3> HIDE DEF t
    <3>2. Unlisted(k, t)
      BY <1>4, <3>1 DEF Placed
    <3>3. QED
      BY <3>2 DEF Unlisted
  <2>2. Leaves(k, k, t) /\ Keeps(k, k)
    BY <2>1 DEF Leaves, SameStates, Keeps
  <2>3. {} \cup {t} = {t}
    OBVIOUS
  <2>4. QED
    BY <1>4, <2>2, <2>3
<1>6. k2.ready # <<>>
  <2>1. join[t] # NoThread => /\ join[t] \in Threads /\ join[t] \notin {}
                              /\ k.state[join[t]] = "WaitingJoin"
    BY <1>2, <1>3 DEF JoinOK, LiveIn, Live
  <2>2. k2 = WakeJoiner(k, t)
    OBVIOUS
  <2> HIDE DEF k2, t
  <2>3. Woken(k, k2, join[t]) /\ Placed(k2, {})
    BY <1>2, <2>1, <2>2, WakeJoinerPlaced
  <2>4. ToSet(k.ready) # {}
    <3>1. ListsOK(k)
      BY <1>2 DEF Placed
    <3>2. QED
      BY <1>3, <3>1, TailList DEF ListsOK
  <2>5. ToSet(k2.ready) # {}
    BY <2>3, <2>4 DEF Woken
  <2>6. QED
    BY <2>5 DEF ToSet
<1> HIDE DEF k2, t
<1>7. k2 = WakeJoiner(k, t)
  BY DEF k2
<1>8. /\ k.state[t] = "Running" => k2.ready # <<>> /\ k3 = SwitchToReady(k2)
      /\ k.state[t] # "Running" => k3 = DispatchReady(k2)
  BY <1>2, <1>6
<1> HIDE DEF k3
<1>9. QED
  BY <1>1, <1>2, <1>3, <1>5, <1>7, <1>8, EndStep

(* svcRtxThreadTerminate keeps the invariant, for each state that the      *)
(* terminated thread may be in.                                            *)
LEMMA TerminateStep ==
  ASSUME JoinDiscipline, IInv, NEW t \in User, Terminate(t)
  PROVE  IInv' /\ JoinsLast(k, k', join)
<1> DEFINE k1 == LeaveLists(k, t)
           k2 == WakeJoiner(k1, t)
           k3 == IF k.state[t] = "Running" THEN SwitchToReady(k2)
                 ELSE DispatchReady(k2)
           q == Retire(k3, t)
<1>1. /\ Calling /\ k' = Return(q) /\ CanLeave(t) /\ t \in Threads
      /\ Live(t) /\ k.state[t] # "WaitingJoin"
      /\ handler' = handler /\ join' = join /\ joinable' = joinable
      /\ unlocked' = unlocked
  BY DEF Terminate, User, Disturbs
<1>2. Placed(k, {}) /\ HeadPositive(k) /\ JoinOK(k, join)
  BY <1>1, CallFacts
<1>3. /\ Placed(k1, {t}) /\ Keeps(k, k1) /\ Leaves(k, k1, t)
      /\ HeadPositive(k1)
  BY <1>1, <1>2, LeaveListsPlaced
<1>4. k.state[t] = "Running" => k1 = k
  BY DEF LeaveLists, BlockedStates, WaitStates
<1> HIDE DEF k1
<1>5. k.state[t] = "Running" => k2.ready # <<>>
  <2> SUFFICES ASSUME k.state[t] = "Running" PROVE k2.ready # <<>>
    OBVIOUS
  <2> DEFINE G == {t}
  <2>1. join[t] # NoThread => /\ join[t] \in Threads /\ join[t] \notin G
                              /\ k1.state[join[t]] = "WaitingJoin"
    BY <1>1, <1>2, <1>4 DEF JoinOK, LiveIn, Live
  <2>2. k2 = WakeJoiner(k1, t) /\ Placed(k1, G)
    BY <1>3
  <2> HIDE DEF k2, G
  <2>3. Woken(k1, k2, join[t])
    BY <1>1, <2>1, <2>2, WakeJoinerPlaced
  <2>4. ToSet(k1.ready) # {}
    <3>1. ListsOK(k) /\ k.ready # <<>>
      BY <1>1, <1>2 DEF Placed, CanLeave
    <3>2. QED
      BY <1>4, <3>1, TailList DEF ListsOK
  <2>5. ToSet(k2.ready) # {}
    BY <2>3, <2>4 DEF Woken
  <2>6. QED
    BY <2>5 DEF ToSet
<1> HIDE DEF k2
<1>6. k2 = WakeJoiner(k1, t)
  BY DEF k2
<1>7. /\ k.state[t] = "Running" => k2.ready # <<>> /\ k3 = SwitchToReady(k2)
      /\ k.state[t] # "Running" => k3 = DispatchReady(k2)
  BY <1>5
<1> HIDE DEF k3
<1>8. QED
  BY <1>1, <1>3, <1>6, <1>7, EndStep

-----------------------------------------------------------------------------
(* The tick. *)

(* What holds while the tick handler is in its loop, and when a tick       *)
(* interrupts a thread.                                                    *)
LEMMA TickFacts ==
  ASSUME IInv, k.kstate # "Ready"
  PROVE  /\ Placed(k, {}) /\ OneRuns(k) /\ k.next = k.curr
         /\ k.curr \in Threads /\ JoinOK(k, join) /\ TypeOK
         /\ k.state \in [Threads -> ThreadStates]
         /\ k.prio \in [Threads -> Int]
<1>1. k \in KernelType /\ KernelOK(k) /\ JoinOK(k, join) /\ TypeOK
  BY DEF IInv, TypeOK
<1>2. /\ k.curr \in Threads /\ k.state \in [Threads -> ThreadStates]
      /\ k.prio \in [Threads -> Int]
  BY <1>1 DEF KernelOK, KernelType
<1>3. QED
  BY <1>1, <1>2 DEF KernelOK

(* Inside the tick the core is left to the thread it was taken from. *)
LEMMA InTick ==
  ASSUME IInv, k.kstate # "Ready", Placed(k', {}), Keeps(k, k'),
         k'.next = k.next, OneRuns(k'), JoinOK(k', join), JoinsLast(k, k', join),
         join' = join, joinable' = joinable, unlocked' = unlocked,
         handler' = "tick"
  PROVE  IInv' /\ JoinsLast(k, k', join)
<1>1. /\ k.next = k.curr /\ k.curr \in Threads /\ TypeOK
  BY TickFacts
<1>2. k'.kstate # "Ready" /\ k'.curr = k.curr /\ k' \in KernelType
  BY DEF Keeps, Placed
<1>3. KernelOK(k')
  BY <1>1, <1>2, NoThreadNotThread DEF KernelOK
<1>4. TypeOK'
  BY <1>1, <1>2 DEF TypeOK
<1>5. QED
  BY <1>2, <1>3, <1>4 DEF IInv

(* The tick counts the head of the delay list down. *)
LEMMA TickBeginStep ==
  ASSUME IInv, TickBegin
  PROVE  IInv' /\ JoinsLast(k, k', join)
<1>1. /\ k' = DelayCount(k) /\ k.kstate # "Ready" /\ HeadPositive(k)
      /\ handler' = "tick" /\ join' = join /\ joinable' = joinable
      /\ unlocked' = unlocked
  BY DEF TickBegin, IInv
<1>2. Placed(k, {}) /\ OneRuns(k) /\ JoinOK(k, join)
  BY <1>1, TickFacts
<1>3. /\ Placed(k', {}) /\ Keeps(k, k') /\ k'.next = k.next
      /\ k'.state = k.state /\ k'.ready = k.ready /\ k'.wait = k.wait
  BY <1>1, <1>2, DelayCountPlaced
<1>4. OneRuns(k') /\ JoinOK(k', join) /\ JoinsLast(k, k', join)
  BY <1>2, <1>3 DEF OneRuns, JoinOK, Registered, LiveIn, JoinsLast
<1>5. QED
  BY <1>1, <1>3, <1>4, InTick

(* The tick readies a thread whose delay has run out.  A joining thread    *)
(* waits without a timeout, so it is not one that joins.                   *)
LEMMA TickWakeStep ==
  ASSUME IInv, TickWake
  PROVE  IInv' /\ JoinsLast(k, k', join)
<1> DEFINE h == Head(k.dlist)
<1>1. /\ k' = DelayWake(k) /\ DelayExpired(k) /\ k.kstate # "Ready"
      /\ handler' = "tick" /\ join' = join /\ joinable' = joinable
      /\ unlocked' = unlocked
  BY DEF TickWake, IInv
<1>2. /\ Placed(k, {}) /\ OneRuns(k) /\ JoinOK(k, join)
      /\ k.state \in [Threads -> ThreadStates]
  BY <1>1, TickFacts
<1>3. /\ h \in Threads /\ h \notin k.wait /\ k.state[h] \in BlockedStates
      /\ Placed(k', {}) /\ Keeps(k, k') /\ k'.next = k.next
      /\ k'.state = [k.state EXCEPT ![h] = "Ready"] /\ k'.wait = k.wait
  BY <1>1, <1>2, DelayWakePlaced
<1> HIDE DEF h
<1>4. OneRuns(k')
  BY <1>2, <1>3 DEF OneRuns, BlockedStates, WaitStates
<1>5. JoinOK(k', join) /\ JoinsLast(k, k', join)
  <2>1. /\ k.state[h] # "WaitingJoin" /\ k'.state[h] # "WaitingJoin"
        /\ \A u \in Threads \ {h} : k'.state[u] = k.state[u]
    BY <1>2, <1>3 DEF JoinOK
  <2>2. LiveIn(k, h) /\ LiveIn(k', h)
    <3>1. k'.state[h] = "Ready"
      BY <1>2, <1>3 DEF Placed, KernelType
    <3>2. QED
      BY <1>3, <3>1 DEF LiveIn, BlockedStates, WaitStates
  <2>3. QED
    BY <1>2, <1>3, <2>1, <2>2, JoinOneMoves
<1>6. QED
  BY <1>1, <1>3, <1>4, <1>5, InTick

(* What the end of the tick must leave behind for the invariant to hold.   *)
LEMMA TickReturns ==
  ASSUME IInv, k.kstate # "Ready", NEW q, Placed(q, {}), OneRuns(q),
         q.next \in Threads, q.kstate = k.kstate, HeadPositive(q),
         k.kstate = "Running" => TopRuns(q), JoinOK(q, join),
         JoinsLast(k, q, join),
         k' = Return(q), join' = join, joinable' = joinable,
         handler' = "none", unlocked' = "no"
  PROVE  IInv' /\ JoinsLast(k, k', join)
<1>1. /\ Placed(k', {}) /\ k'.next = q.next /\ k'.curr = q.next
      /\ k'.kstate = q.kstate /\ k'.prio = q.prio /\ k'.ready = q.ready
      /\ k'.state = q.state /\ SameDelays(q, k')
  BY ReturnPlaced
<1>2. KernelOK(k')
  BY <1>1, NoThreadNotThread DEF KernelOK, OneRuns
<1>3. JoinOK(k', join') /\ JoinsLast(k, k', join) /\ HeadPositive(k')
  BY <1>1 DEF JoinOK, Registered, LiveIn, JoinsLast, SameDelays, HeadPositive
<1>4. k'.kstate = "Running" => TopRuns(k')
  BY <1>1 DEF TopRuns
<1>5. TypeOK'
  BY <1>1, <1>2 DEF IInv, TypeOK, Placed
<1>6. QED
  BY <1>1, <1>2, <1>3, <1>4, <1>5 DEF IInv

(* The round robin: the thread whose slice is used up goes behind its      *)
(* equals and the first of them runs.                                      *)
LEMMA RotatePlaced ==
  ASSUME NEW kk, Placed(kk, {}), OneRuns(kk), kk.next \in Threads,
         kk.ready # <<>>, kk.prio[Head(kk.ready)] = kk.prio[kk.next],
         NEW c, c = kk.next,
         NEW q, q = Switch(ReadyPut([kk EXCEPT !.ready = Tail(@)], c),
                           Head(kk.ready))
  PROVE  /\ Placed(q, {}) /\ OneRuns(q) /\ Keeps(kk, q)
         /\ SameDelays(kk, q) /\ SameBlocked(kk, q)
         /\ q.next \in Threads /\ TopRuns(q)
         /\ q.next = Head(kk.ready) /\ q.next # c
<1> DEFINE h == Head(kk.ready)
           m == [kk EXCEPT !.ready = Tail(@)]
           p == q
<1>1. /\ kk.state \in [Threads -> ThreadStates]
      /\ kk.prio \in [Threads -> Int] /\ kk.state[c] = "Running"
  BY DEF Placed, KernelType, OneRuns
<1>2. /\ h \in Threads /\ h \in ToSet(kk.ready) /\ Placed(m, {} \cup {h})
      /\ Keeps(kk, m) /\ SameDelays(kk, m) /\ m.state = kk.state
      /\ ToSet(m.ready) = ToSet(kk.ready) \ {h}
      /\ \A u \in ToSet(kk.ready) : kk.prio[u] <= kk.prio[h]
  <2>1. m = [kk EXCEPT !.ready = Tail(@)]
    OBVIOUS
  <2> HIDE DEF m
  <2>2. QED
    BY <2>1, PopPlaced
<1>3. p = Switch(ReadyPut(m, c), h) /\ kk.prio[h] = kk.prio[c]
      /\ c \in Threads
  OBVIOUS
<1> HIDE DEF h, m, p
<1>4. kk.state[h] = "Ready" /\ c # h
  BY <1>1, <1>2 DEF Placed, ThreadPlaced
<1>5. /\ Placed(p, {}) /\ Keeps(m, p) /\ p.next = h
      /\ SameDelays(m, p) /\ TopRuns(p)
      /\ p.state = [m.state EXCEPT ![c] = "Ready", ![h] = "Running"]
  <2> DEFINE G == {h}
  <2>1. Placed(m, G) /\ h \in G /\ c \notin G /\ G \ {h} = {}
    BY <1>2, <1>4
  <2> HIDE DEF G
  <2>2. /\ m.state[c] = "Running"
        /\ \A u \in ToSet(m.ready) : m.prio[u] <= m.prio[h]
        /\ m.prio[c] <= m.prio[h]
    BY <1>1, <1>2, <1>3 DEF Keeps
  <2>3. /\ Placed(p, G \ {h}) /\ Keeps(m, p) /\ p.next = h
        /\ SameDelays(m, p) /\ TopRuns(p)
        /\ p.state = [m.state EXCEPT ![c] = "Ready", ![h] = "Running"]
    BY <1>2, <1>3, <1>4, <2>1, <2>2, PreemptPlaced
  <2>4. QED
    BY <2>1, <2>3
<1>6. OneRuns(p) /\ SameBlocked(kk, p)
  BY <1>1, <1>2, <1>4, <1>5, SMTT(30) DEF OneRuns, SameBlocked, Runnable
<1>7. QED
  BY <1>2, <1>4, <1>5, <1>6 DEF SameDelays, Keeps, h, p

(* The end of the tick: dispatch and round robin. *)
LEMMA TickEndStep ==
  ASSUME IInv, TickEnd
  PROVE  IInv' /\ JoinsLast(k, k', join)
<1> DEFINE k1 == DispatchReady(k)
           r == Switch(ReadyPut([k1 EXCEPT !.ready = Tail(@)], k1.next),
                       Head(k1.ready))
<1>1. /\ ~DelayExpired(k) /\ k.kstate # "Ready"
      /\ handler' = "none" /\ unlocked' = "no"
      /\ join' = join /\ joinable' = joinable
      /\ \/ k' = Return(k1)
         \/ /\ k' = Return(r) /\ k1.ready # <<>>
            /\ k1.prio[Head(k1.ready)] = k1.prio[k1.next]
  BY DEF TickEnd, TickDispatch, Rotate, IInv
<1>2. /\ Placed(k, {}) /\ OneRuns(k) /\ k.next = k.curr
      /\ k.curr \in Threads /\ JoinOK(k, join)
  BY <1>1, TickFacts
<1>3. HeadPositive(k)
  <2> SUFFICES ASSUME k.dlist # <<>> PROVE k.delay[Head(k.dlist)] > 0
    BY DEF HeadPositive
  <2>1. Head(k.dlist) \in Threads /\ Head(k.dlist) \in ToSet(k.dlist)
    BY <1>2, TailList DEF Placed, ListsOK
  <2>2. k.delay[Head(k.dlist)] >= 0 /\ k.delay[Head(k.dlist)] # 0
    BY <1>1, <1>2, <2>1 DEF Placed, ThreadPlaced, DelayExpired
  <2>3. k.delay[Head(k.dlist)] \in Int
    BY <1>2, <2>1 DEF Placed, KernelType
  <2>4. QED
    BY <2>2, <2>3
<1>4. /\ Placed(k1, {}) /\ OneRuns(k1) /\ Keeps(k, k1)
      /\ SameDelays(k, k1) /\ SameBlocked(k, k1) /\ k1.next \in Threads
      /\ k.kstate = "Running" => TopRuns(k1)
  <2> DEFINE G == {}
  <2>1. Placed(k, G) /\ k.curr \notin G /\ G \subseteq Threads
    BY <1>2
  <2>2. k1 = DispatchReady(k)
    OBVIOUS
  <2> HIDE DEF G, k1
  <2>3. /\ Placed(k1, G) /\ OneRuns(k1) /\ Keeps(k, k1)
        /\ SameDelays(k, k1) /\ SameBlocked(k, k1) /\ k1.next \in Threads
        /\ k.kstate = "Running" => TopRuns(k1)
    BY <1>2, <2>1, <2>2, DispatchReadyPlaced
  <2>4. QED
    BY <2>3 DEF G
<1> HIDE DEF k1
<1>5. JoinOK(k1, join) /\ JoinsLast(k, k1, join) /\ HeadPositive(k1)
      /\ k1.kstate = k.kstate
  <2>1. HeadPositive(k1) /\ k1.kstate = k.kstate /\ k1.wait = k.wait
    BY <1>3, <1>4 DEF HeadPositive, SameDelays, Keeps
  <2>2. QED
    BY <1>2, <1>4, <2>1, JoinSameBlocked
<1>6. CASE k' = Return(k1)
  BY <1>1, <1>4, <1>5, <1>6, TickReturns
<1>7. CASE /\ k' = Return(r) /\ k1.ready # <<>>
           /\ k1.prio[Head(k1.ready)] = k1.prio[k1.next]
  <2>1. r = Switch(ReadyPut([k1 EXCEPT !.ready = Tail(@)], k1.next),
                   Head(k1.ready))
    OBVIOUS
  <2> HIDE DEF r
  <2>2. /\ Placed(r, {}) /\ OneRuns(r) /\ Keeps(k1, r)
        /\ SameDelays(k1, r) /\ SameBlocked(k1, r)
        /\ r.next \in Threads /\ TopRuns(r)
    BY <1>4, <1>7, <2>1, RotatePlaced
  <2>3. HeadPositive(r) /\ r.kstate = k.kstate /\ r.wait = k1.wait
    BY <1>5, <2>2 DEF HeadPositive, SameDelays, Keeps
  <2>4. JoinOK(r, join) /\ JoinsLast(k, r, join)
    <3>1. SameBlocked(k, r) /\ r.wait = k.wait
      BY <1>4, <2>2 DEF SameBlocked, SameDelays
    <3>2. QED
      BY <1>2, <3>1, JoinSameBlocked
  <2>5. QED
    BY <1>1, <1>7, <2>2, <2>3, <2>4, TickReturns
<1>8. QED
  BY <1>1, <1>6, <1>7

-----------------------------------------------------------------------------
(* The inductive invariant. *)

(* Before osKernelStart no thread exists. *)
LEMMA InitIInv == Init => IInv
<1> SUFFICES ASSUME Init PROVE IInv
  OBVIOUS
<1> DEFINE E == <<>>
<1>1. /\ IdlePrio \in Int /\ "Inactive" \in ThreadStates /\ "osOK" \in Results
      /\ "Ready" \in KernelStates
  BY PriosAreInts DEF ThreadStates, Results, KernelStates
<1>2. k \in KernelType
  BY <1>1 DEF Init, KernelType
<1>3. /\ k.state = [t \in Threads |-> "Inactive"] /\ k.kstate = "Ready"
      /\ k.curr = NoThread /\ k.next = NoThread
      /\ k.ready = <<>> /\ k.dlist = <<>> /\ k.wait = {}
  BY DEF Init
<1>4. IsList(E) /\ ToSet(E) = {} /\ Sorted(k.prio, E)
  BY DEF IsList, ToSet, Sorted, IsInjective
<1>5. Placed(k, {})
  BY <1>2, <1>3, <1>4
     DEF Placed, ListsOK, ThreadPlaced, BlockedStates, WaitStates
<1>6. KernelOK(k)
  BY <1>3, <1>5, NoThreadNotThread, IdleIsThread DEF KernelOK, OneRuns
<1>7. JoinOK(k, join)
  BY <1>3, IdleIsThread DEF Init, JoinOK, Registered, LiveIn
<1>8. TypeOK
  BY <1>2, <1>3 DEF Init, TypeOK
<1>9. QED
  BY <1>3, <1>6, <1>7, <1>8 DEF Init, IInv, HeadPositive

(* Every step keeps the invariant. *)
LEMMA NextIInv ==
  ASSUME JoinDiscipline, IInv, [Next]_vars
  PROVE  IInv' /\ JoinsLast(k, k', join)
<1>1. CASE UNCHANGED vars
  BY <1>1 DEF vars, IInv, TypeOK, JoinOK, JoinsLast
<1>2. CASE TickBegin
  BY <1>2, TickBeginStep
<1>3. CASE TickWake
  BY <1>3, TickWakeStep
<1>4. CASE TickEnd
  BY <1>4, TickEndStep
<1>5. CASE ServiceCall
  <2>1. CASE \E t \in User, p \in Prios, attr \in Attrs : ThreadNew(t, p, attr)
    BY <2>1, ThreadNewStep
  <2>2. CASE KernelStart
    BY <2>2, KernelStartStep
  <2>3. CASE \E d \in 0 .. MaxDelay : Delay(d)
    BY <2>3, DelayStep
  <2>4. CASE \E t \in User, p \in Prios : SetPriority(t, p)
    BY <2>4, SetPriorityStep
  <2>5. CASE Yield
    BY <2>5, YieldStep
  <2>6. CASE \E t \in User : Suspend(t)
    BY <2>6, SuspendStep
  <2>7. CASE \E t \in User : Resume(t)
    BY <2>7, ResumeStep
  <2>8. CASE Exit
    BY <2>8, ExitStep
  <2>9. CASE \E t \in User : Terminate(t)
    BY <2>9, TerminateStep
  <2>10. CASE \E t \in User : Detach(t) \/ JoinDone(t)
    BY <2>10, DetachStep
  <2>11. CASE \E t \in User : JoinWait(t)
    BY <2>11, JoinWaitStep
  <2>12. CASE KernelLock \/ KernelUnlock
    BY <2>12, LockStep
  <2>13. QED
    BY <1>5, <2>1, <2>2, <2>3, <2>4, <2>5, <2>6, <2>7, <2>8, <2>9, <2>10,
       <2>11, <2>12 DEF ServiceCall
<1>6. QED
  BY <1>1, <1>2, <1>3, <1>4, <1>5 DEF Next, Tick

(* The invariant gives the properties that TLC checks. *)
LEMMA IInvPlaces == IInv => PlacesOK /\ ReadySorted
<1> SUFFICES ASSUME IInv PROVE PlacesOK /\ ReadySorted
  OBVIOUS
<1>1. Placed(k, {}) /\ OneRuns(k) /\ k.next = k.curr
  BY DEF IInv, KernelOK
<1>2. /\ ListsOK(k) /\ \A t \in Threads : ThreadPlaced(k, t)
  BY <1>1 DEF Placed
<1>3. ReadySorted /\ IsInjective(k.ready) /\ IsInjective(k.dlist)
  BY <1>2 DEF ListsOK, ReadySorted, IsList
<1>4. QED
  BY <1>1, <1>2, <1>3 DEF PlacesOK, ThreadPlaced, OneRuns, Forever

(* ... and so does the priority rule. *)
LEMMA IInvHighest == IInv => HighestPriorityRuns
<1> SUFFICES ASSUME IInv, handler = "none", k.kstate = "Running",
                    unlocked = "no", NEW i \in DOMAIN k.ready
             PROVE  k.prio[k.ready[i]] <= k.prio[k.curr]
  BY DEF HighestPriorityRuns
<1>1. TopRuns(k) /\ k.next = k.curr
  BY DEF IInv, KernelOK
<1>2. k.ready[i] \in ToSet(k.ready)
  BY DEF ToSet
<1>3. QED
  BY <1>1, <1>2 DEF TopRuns

-----------------------------------------------------------------------------
(* The theorems.  All assume the join discipline, and nothing else. *)

(* The inductive invariant holds in every reachable state. *)
THEOREM Invariance ==
  ASSUME JoinDiscipline PROVE Spec => []IInv
<1>1. JoinDiscipline
  OBVIOUS
<1>2. IInv /\ [Next]_vars => IInv'
  BY <1>1, NextIInv
<1>3. QED
  BY <1>2, InitIInv, PTL DEF Spec

(* The kernel value keeps its type, and every handler leaves with          *)
(* run.next made current.                                                  *)
THEOREM TypeOKHolds ==
  ASSUME JoinDiscipline PROVE Spec => []TypeOK
<1>1. IInv => TypeOK
  BY DEF IInv
<1>2. Spec => []IInv
  BY Invariance
<1>3. QED
  BY <1>1, <1>2, PTL

(* No service call and no tick loses a thread or lists it twice: every     *)
(* thread is where its state says, for any number of threads and any       *)
(* delays.                                                                 *)
THEOREM PlacesOKHolds ==
  ASSUME JoinDiscipline PROVE Spec => []PlacesOK
<1>1. IInv => PlacesOK
  BY IInvPlaces
<1>2. Spec => []IInv
  BY Invariance
<1>3. QED
  BY <1>1, <1>2, PTL

(* The ready list stays sorted by priority through every insertion,        *)
(* removal and change of priority.                                         *)
THEOREM ReadySortedHolds ==
  ASSUME JoinDiscipline PROVE Spec => []ReadySorted
<1>1. IInv => ReadySorted
  BY IInvPlaces
<1>2. Spec => []IInv
  BY Invariance
<1>3. QED
  BY <1>1, <1>2, PTL

(* Preemptive scheduling: with the scheduler unlocked the running thread   *)
(* has the highest priority of all that are ready.                         *)
THEOREM HighestPriorityRunsHolds ==
  ASSUME JoinDiscipline PROVE Spec => []HighestPriorityRuns
<1>1. IInv => HighestPriorityRuns
  BY IInvHighest
<1>2. Spec => []IInv
  BY Invariance
<1>3. QED
  BY <1>1, <1>2, PTL

(* A thread waits to join exactly as long as the thread it joined lives:   *)
(* the exit or termination of that thread wakes it in the same step, and   *)
(* no tick, detach or change of priority does.  The join discipline is a   *)
(* condition on the callers, which the kernel does not enforce: a thread   *)
(* is joined once, and nobody suspends, resumes or terminates one that     *)
(* waits to join.                                                          *)
THEOREM JoinEndsWithThreadHolds ==
  ASSUME JoinDiscipline PROVE Spec => JoinEndsWithThread
<1>1. JoinDiscipline
  OBVIOUS
<1>2. IInv /\ [Next]_vars => [JoinsEnd]_vars
  <2> SUFFICES ASSUME IInv, [Next]_vars, NEW t \in Threads,
                      k.state[t] = "WaitingJoin"
               PROVE  \E u \in Threads :
                        /\ Live(u) /\ join[u] = t
                        /\ k'.state[t] = "WaitingJoin" <=> Live(u)'
    BY DEF JoinsEnd
  <2>1. JoinsLast(k, k', join)
    BY <1>1, NextIInv
  <2>2. PICK u \in Threads : LiveIn(k, u) /\ join[u] = t
    BY DEF IInv, JoinOK, Registered
  <2>3. k'.state[t] = "WaitingJoin" <=> LiveIn(k', u)
    BY <2>1, <2>2 DEF JoinsLast
  <2>4. QED
    BY <2>2, <2>3 DEF LiveIn, Live
<1>3. Spec => []IInv
  BY <1>1, Invariance
<1>4. QED
  BY <1>2, <1>3, PTL DEF Spec, JoinEndsWithThread

(* The thread that ran at the last tick has used up part of its slice:     *)
(* ticks it ran and ticks it has left add up to a slice, counting the tick *)
(* at which the slice began.  A used-up slice that was not taken away      *)
(* means that no equal was ready.                                          *)
SliceInv ==
  RobinTimeout # 0 =>
    /\ ran \in Nat /\ robin.tick \in 0 .. RobinTimeout
    /\ ran # 0 => /\ robin.thread = k.curr /\ robin.tick # 0
                  /\ ran + robin.tick <= RobinTimeout + 1

(* One more tick of a slice that is not used up. *)
LEMMA SliceAdvances ==
  ASSUME NEW n \in Nat, NEW m, m \in {0, n + 1}, NEW left \in Nat,
         RobinTimeout \in Nat,
         m # 0 => left # 0 /\ n + left <= RobinTimeout
  PROVE  m \in Nat /\ (m # 0 => left # 0 /\ m + left <= RobinTimeout + 1)
OBVIOUS

(* The end of the tick takes the core from a thread whose slice is over    *)
(* when an equal is ready, and starts a slice for a thread that is new.    *)
LEMMA TickEndSlice ==
  ASSUME IInv, SliceInv, TickEnd, RanNext PROVE SliceInv'
<1> SUFFICES ASSUME RobinTimeout # 0 PROVE SliceInv'
  BY DEF SliceInv
<1> DEFINE k1 == TickDispatch(k)
           t == Head(k1.ready)
           r == Switch(ReadyPut([k1 EXCEPT !.ready = Tail(@)], k1.next), t)
<1>1. /\ RobinTimeout \in Nat \ {0} /\ handler = "tick" /\ handler' = "none"
      /\ ran \in Nat /\ robin.tick \in 0 .. RobinTimeout
      /\ ran # 0 => /\ robin.thread = k.curr /\ robin.tick # 0
                    /\ ran + robin.tick <= RobinTimeout + 1
  BY BoundsAreNats DEF SliceInv, TickEnd
<1>2. ran' \in {0, ran + 1} /\ (ran' # 0 => k'.curr = k.curr /\ EqualWaits(k'))
  BY <1>1 DEF RanNext
<1>3. /\ Placed(k1, {}) /\ OneRuns(k1) /\ k1.next \in Threads
  <2>1. k.kstate # "Ready"
    BY <1>1 DEF IInv
  <2>2. /\ Placed(k, {}) /\ OneRuns(k) /\ k.next = k.curr /\ k.curr \in Threads
    BY <2>1, TickFacts
  <2> DEFINE G == {}
  <2>3. Placed(k, G) /\ k.curr \notin G /\ G \subseteq Threads /\ k1 = DispatchReady(k)
    BY <2>2 DEF TickDispatch
  <2> HIDE DEF G, k1
  <2>4. Placed(k1, G) /\ OneRuns(k1) /\ k1.next \in Threads
    BY <2>2, <2>3, DispatchReadyPlaced
  <2> QED  BY <2>4 DEF G
<1>4. \/ /\ Rotate(k1) /\ k' = Return(r)
         /\ robin' = [thread |-> t, tick |-> RobinTimeout]
      \/ /\ ~Rotate(k1) /\ k' = Return(k1)
         /\ robin' = [thread |-> k1.next, tick |-> SliceLeft(k1)]
  BY <1>1 DEF TickEnd
<1>5. r = Switch(ReadyPut([k1 EXCEPT !.ready = Tail(@)], k1.next), Head(k1.ready)) /\ t = Head(k1.ready)
  OBVIOUS
<1> HIDE DEF k1, t, r
<1>6. SUFFICES /\ robin'.thread = k'.curr /\ robin'.tick \in 0 .. RobinTimeout
               /\ ran' # 0 => robin'.tick # 0 /\ ran + robin'.tick <= RobinTimeout
  <2> DEFINE m == ran'
             left == robin'.tick
  <2>1. m \in {0, ran + 1} /\ left \in Nat
        /\ (m # 0 => left # 0 /\ ran + left <= RobinTimeout)
    BY <1>1, <1>2, <1>6
  <2> HIDE DEF m, left
  <2>2. m \in Nat /\ (m # 0 => left # 0 /\ m + left <= RobinTimeout + 1)
    BY <1>1, <2>1, SliceAdvances
  <2> QED  BY <1>6, <2>2 DEF SliceInv, m, left
<1>7. CASE Rotate(k1)
  <2>1. k' = Return(r) /\ robin'.thread = t /\ robin'.tick = RobinTimeout
    BY <1>4, <1>7
  <2>2. Placed(r, {}) /\ r.next = t /\ t # k1.next
    BY <1>3, <1>5, <1>7, RotatePlaced DEF Rotate
  <2>3. k'.curr = t
    BY <2>1, <2>2, ReturnPlaced
  <2>4. ran' # 0 => ran = 0
    BY <1>1, <1>2, <1>7, <2>2, <2>3 DEF Rotate
  <2> QED  BY <1>1, <2>1, <2>3, <2>4
<1>8. CASE ~Rotate(k1)
  <2>1. k' = Return(k1) /\ robin'.thread = k1.next /\ robin'.tick = SliceLeft(k1)
    BY <1>4, <1>8
  <2>2. /\ k'.curr = k1.next /\ k'.ready = k1.ready /\ k'.prio = k1.prio
        /\ k'.kstate = k1.kstate
    BY <1>3, <2>1, ReturnPlaced
  <2>3. CASE robin.thread # k1.next
    <3>1. SliceLeft(k1) = RobinTimeout
      BY <2>3 DEF SliceLeft
    <3>2. ran' # 0 => ran = 0
      BY <1>1, <1>2, <2>2, <2>3
    <3> QED  BY <1>1, <2>1, <2>2, <3>1, <3>2
  <2>4. CASE robin.thread = k1.next /\ robin.tick = 0
    <3>1. SliceLeft(k1) = 0
      BY <2>4 DEF SliceLeft
    <3>2. ran' = 0
      BY <1>2, <1>8, <2>2, <2>4, <3>1 DEF Rotate, EqualWaits
    <3> QED  BY <1>1, <2>1, <2>2, <3>1, <3>2
  <2>5. CASE robin.thread = k1.next /\ robin.tick # 0
    <3>1. SliceLeft(k1) = robin.tick - 1
      BY <2>5 DEF SliceLeft
    <3>2. ran' # 0 => SliceLeft(k1) # 0
      BY <1>2, <1>8, <2>2, <2>5 DEF Rotate, EqualWaits
    <3>3. ran + (robin.tick - 1) <= RobinTimeout /\ robin.tick - 1 \in 0 .. RobinTimeout
      <4>1. CASE ran = 0
        BY <1>1, <2>5, <4>1
      <4>2. CASE ran # 0
        BY <1>1, <2>5, <4>2
      <4> QED  BY <4>1, <4>2
    <3> QED  BY <2>1, <2>2, <3>1, <3>2, <3>3
  <2> QED  BY <2>3, <2>4, <2>5
<1> QED  BY <1>7, <1>8

(* Only the end of the tick counts, or changes the slice. *)
LEMMA NextSlice ==
  ASSUME IInv, SliceInv, [Next]_vars PROVE SliceInv'
<1>1. CASE UNCHANGED vars
  BY <1>1 DEF vars, SliceInv
<1>2. CASE TickEnd /\ RanNext
  BY <1>2, TickEndSlice
<1>3. CASE (ServiceCall \/ TickBegin \/ TickWake) /\ RanNext
  <2>1. robin' = robin /\ (handler = "tick" => handler' # "none")
    BY <1>3 DEF ServiceCall, TickBegin, TickWake, ThreadNew, KernelStart, Delay,
       SetPriority, Yield, Suspend, Resume, Exit, Terminate, Detach, JoinDone,
       JoinWait, KernelLock, KernelUnlock, Calling
  <2>2. RobinTimeout # 0 => ran' = 0 \/ (ran' = ran /\ k'.curr = k.curr)
    BY <1>3, <2>1 DEF RanNext
  <2> QED  BY <2>1, <2>2 DEF SliceInv
<1> QED  BY <1>1, <1>2, <1>3 DEF Next, Tick

(* Round robin: for every time slice, a thread keeps the core for at most  *)
(* that many ticks while an equal is ready (osRtxTick_Handler).            *)
THEOREM SliceBoundedHolds ==
  ASSUME JoinDiscipline PROVE Spec => []SliceBounded
<1>1. Init => SliceInv
  BY BoundsAreNats DEF Init, SliceInv
<1>2. IInv /\ SliceInv /\ [Next]_vars => SliceInv'
  BY NextSlice
<1>3. SliceInv => SliceBounded
  BY BoundsAreNats DEF SliceInv, SliceBounded
<1>4. Spec => []IInv
  BY Invariance
<1>5. QED
  BY <1>1, <1>2, <1>3, <1>4, PTL DEF Spec

(* Under the join discipline thread_join of a live thread always is a      *)
(* thread that waits to join.                                              *)
THEOREM JoinPointsToWaiterHolds ==
  ASSUME JoinDiscipline PROVE Spec => []JoinPointsToWaiter
<1>1. IInv => JoinPointsToWaiter
  BY DEF IInv, JoinOK, JoinPointsToWaiter, LiveIn, Live
<1>2. Spec => []IInv
  BY Invariance
<1>3. QED
  BY <1>1, <1>2, PTL

-----------------------------------------------------------------------------
(* Delays are exact.  Relative(delay, s, g): the delay of each thread in   *)
(* the list s is its deadline in g less that of its predecessor.  Unlike   *)
(* the sums of DelaysExact this is local: inserting or removing a thread   *)
(* concerns it and its successor only.                                     *)
Before(s, g, i) == IF i = 1 THEN 0 ELSE g[s[i - 1]]
Relative(delay, s, g) == \A i \in 1 .. Len(s) : delay[s[i]] = g[s[i]] - Before(s, g, i)

Deadlines == [Threads -> Int]
Exact(q, g) == Relative(q.delay, q.dlist, g)

(* The differences add up to the deadlines. *)
LEMMA DueIs ==
  ASSUME NEW delay \in [Threads -> Int], NEW s \in Seq(Threads), NEW g \in Deadlines,
         Relative(delay, s, g), NEW i \in 1 .. Len(s)
  PROVE  Due(delay, s)[i] = g[s[i]]
<1> DEFINE d == Due(delay, s)
           T == {j \in 1 .. Len(s) : d[j] # g[s[j]]}
<1> SUFFICES ASSUME T # {} PROVE FALSE
  OBVIOUS
<1>1. IsDue(d, Len(s), delay, s) /\ Len(s) \in Nat
  BY DueFacts
<1>2. T \subseteq Nat
  OBVIOUS
<1> HIDE DEF T, d
<1>3. PICK j \in T : \A y \in T : ~(y < j)
  BY <1>2, MinNat
<1>4. j \in 1 .. Len(s) /\ d[j] # g[s[j]] /\ s[j] \in Threads
  BY <1>3 DEF T
<1>5. d[j] = d[j - 1] + delay[s[j]] /\ delay[s[j]] = g[s[j]] - Before(s, g, j)
  BY <1>1, <1>4 DEF IsDue, Relative
<1>6. CASE j = 1
  <2>1. d[j - 1] = 0 /\ Before(s, g, j) = 0
    BY <1>1, <1>6 DEF IsDue, Before
  <2>2. g[s[j]] \in Int
    BY <1>4 DEF Deadlines
  <2> QED  BY <1>4, <1>5, <2>1, <2>2
<1>7. CASE j # 1
  <2>1. j - 1 \in 1 .. Len(s) /\ j - 1 < j
    BY <1>1, <1>4, <1>7
  <2>2. d[j - 1] = g[s[j - 1]] /\ Before(s, g, j) = g[s[j - 1]]
    BY <1>3, <1>7, <2>1 DEF T, Before
  <2>3. g[s[j]] \in Int /\ g[s[j - 1]] \in Int
    BY <1>4, <2>1 DEF Deadlines
  <2> QED  BY <1>4, <1>5, <2>2, <2>3
<1> QED  BY <1>6, <1>7

(* Delays that are not negative, and a positive first one: every deadline  *)
(* is still to come.                                                       *)
LEMMA AllDue ==
  ASSUME NEW delay \in [Threads -> Int], NEW s \in Seq(Threads), NEW g \in Deadlines,
         Relative(delay, s, g), s # <<>> => delay[Head(s)] > 0,
         \A j \in 1 .. Len(s) : delay[s[j]] >= 0, NEW i \in 1 .. Len(s)
  PROVE  g[s[i]] > 0
<1> DEFINE T == {j \in 1 .. Len(s) : ~(g[s[j]] > 0)}
<1> SUFFICES ASSUME T # {} PROVE FALSE
  OBVIOUS
<1>1. T \subseteq Nat /\ Len(s) \in Nat
  OBVIOUS
<1> HIDE DEF T
<1>2. PICK j \in T : \A y \in T : ~(y < j)
  BY <1>1, MinNat
<1>3. j \in 1 .. Len(s) /\ ~(g[s[j]] > 0) /\ s[j] \in Threads
  BY <1>2 DEF T
<1>4. delay[s[j]] = g[s[j]] - Before(s, g, j) /\ g[s[j]] \in Int
  BY <1>3 DEF Relative, Deadlines
<1>5. CASE j = 1
  <2>1. s # <<>> /\ Head(s) = s[1] /\ Before(s, g, j) = 0
    BY <1>3, <1>5 DEF Before
  <2> QED  BY <1>3, <1>4, <1>5, <2>1
<1>6. CASE j # 1
  <2>1. j - 1 \in 1 .. Len(s) /\ j - 1 < j
    BY <1>1, <1>3, <1>6
  <2>2. g[s[j - 1]] > 0 /\ Before(s, g, j) = g[s[j - 1]]
    BY <1>2, <1>6, <2>1 DEF T, Before
  <2>3. g[s[j - 1]] \in Int
    BY <2>1 DEF Deadlines
  <2> QED  BY <1>3, <1>4, <2>2, <2>3
<1> QED  BY <1>5, <1>6

(* A list of threads after an insertion. *)
LEMMA InsertedAt ==
  ASSUME NEW s \in Seq(Threads), NEW i \in 1 .. Len(s) + 1, NEW t \in Threads
  PROVE  /\ Len(InsertAt(s, i, t)) = Len(s) + 1
         /\ \A j \in 1 .. Len(s) + 1 :
              InsertAt(s, i, t)[j] = IF j < i THEN s[j] ELSE IF j = i THEN t ELSE s[j - 1]
<1> DEFINE S == Threads
<1>1. s \in Seq(S) /\ t \in S /\ i \in 1 .. Len(s) + 1
  OBVIOUS
<1> HIDE DEF S
<1> QED  BY <1>1, InsertAtFacts

(* A thread inserted in front of the i-th, with what is left of its delay  *)
(* there, is due d from now, and the others when they were.                *)
LEMMA InsertedExact ==
  ASSUME NEW delay \in [Threads -> Int], NEW s, IsList(s), NEW g \in Deadlines,
         Relative(delay, s, g), NEW t \in Threads, t \notin ToSet(s), NEW d \in Int,
         NEW i \in 1 .. Len(s) + 1, NEW rest \in Int, rest = d - Before(s, g, i),
         Before(s, g, i) \in Int,
         NEW f, f = [ShortenSuccessor(delay, s, i, rest) EXCEPT ![t] = rest],
         NEW h, h = [g EXCEPT ![t] = d]
  PROVE  Relative(f, InsertAt(s, i, t), h)
<1> DEFINE r == InsertAt(s, i, t)
<1>1. /\ s \in Seq(Threads) /\ Len(s) \in Nat /\ DOMAIN s = 1 .. Len(s)
      /\ \A j \in 1 .. Len(s) : s[j] \in Threads /\ s[j] # t
      /\ \A j, m \in 1 .. Len(s) : s[j] = s[m] => j = m
  BY DEF IsList, IsInjective, ToSet
<1>2. i \in 1 .. Len(s) + 1
  OBVIOUS
<1>3. rest = d - Before(s, g, i) /\ Before(s, g, i) \in Int
  OBVIOUS
<1>4. /\ Len(r) = Len(s) + 1
      /\ \A j \in 1 .. Len(s) + 1 : r[j] = IF j < i THEN s[j] ELSE IF j = i THEN t ELSE s[j - 1]
  BY <1>1, InsertedAt
<1> HIDE DEF r
<1>5. /\ f[t] = rest
      /\ \A j \in 1 .. Len(s) : f[s[j]] = IF j = i THEN delay[s[j]] - rest ELSE delay[s[j]]
  <2> DEFINE e == ShortenSuccessor(delay, s, i, rest)
  <2>1. /\ DOMAIN e = Threads
        /\ \A j \in 1 .. Len(s) : e[s[j]] = IF j = i THEN delay[s[j]] - rest ELSE delay[s[j]]
    <3>1. CASE i <= Len(s)
      <4>1. i \in 1 .. Len(s) /\ e = [delay EXCEPT ![s[i]] = @ - rest]
        BY <1>1, <1>2, <3>1 DEF ShortenSuccessor
      <4> HIDE DEF e
      <4> QED  BY <1>1, <4>1
    <3>2. CASE ~(i <= Len(s))
      <4>1. e = delay
        BY <3>2 DEF ShortenSuccessor
      <4>2. \A j \in 1 .. Len(s) : j # i
        BY <1>1, <1>2, <3>2
      <4> HIDE DEF e
      <4> QED  BY <1>1, <4>1, <4>2
    <3> QED  BY <3>1, <3>2
  <2>2. f = [e EXCEPT ![t] = rest]
    OBVIOUS
  <2> HIDE DEF e
  <2> QED  BY <1>1, <2>1, <2>2
<1>6. h[t] = d /\ \A j \in 1 .. Len(s) : h[s[j]] = g[s[j]] /\ g[s[j]] \in Int
  BY <1>1 DEF Deadlines
<1>7. ASSUME NEW j \in 1 .. Len(s) + 1 PROVE f[r[j]] = h[r[j]] - Before(r, h, j)
  <2>1. CASE j < i
    <3>1. j \in 1 .. Len(s) /\ j # i /\ r[j] = s[j]
      BY <1>1, <1>2, <1>4, <2>1
    <3>2. Before(r, h, j) = Before(s, g, j)
      <4>1. CASE j = 1
        BY <4>1 DEF Before
      <4>2. CASE j # 1
        <5>1. j - 1 \in 1 .. Len(s) /\ j - 1 < i /\ j - 1 \in 1 .. Len(s) + 1
          BY <1>1, <1>2, <2>1, <4>2
        <5>2. r[j - 1] = s[j - 1] /\ h[s[j - 1]] = g[s[j - 1]]
          BY <1>4, <1>6, <5>1
        <5> QED  BY <4>2, <5>2 DEF Before
      <4> QED  BY <4>1, <4>2
    <3> QED  BY <1>5, <1>6, <3>1, <3>2 DEF Relative
  <2>2. CASE j = i
    <3>1. r[j] = t /\ f[t] = rest
      BY <1>4, <1>5, <1>7, <2>2
    <3>2. Before(r, h, j) = Before(s, g, i)
      <4>1. CASE j = 1
        BY <2>2, <4>1 DEF Before
      <4>2. CASE j # 1
        <5>1. j - 1 \in 1 .. Len(s) /\ j - 1 < i /\ j - 1 \in 1 .. Len(s) + 1
          BY <1>1, <1>2, <2>2, <4>2
        <5>2. r[j - 1] = s[j - 1] /\ h[s[j - 1]] = g[s[j - 1]]
          BY <1>4, <1>6, <5>1
        <5> QED  BY <2>2, <4>2, <5>2 DEF Before
      <4> QED  BY <4>1, <4>2
    <3> QED  BY <1>3, <1>6, <3>1, <3>2
  <2>3. CASE j > i
    <3>1. /\ j - 1 \in 1 .. Len(s) /\ r[j] = s[j - 1] /\ j # 1
          /\ j - 1 \in 1 .. Len(s) + 1
      BY <1>1, <1>2, <1>4, <2>3
    <3>2. CASE j - 1 = i
      <4>1. r[j - 1] = t /\ Before(r, h, j) = d
        BY <1>4, <1>6, <3>1, <3>2 DEF Before
      <4>2. f[s[i]] = delay[s[i]] - rest /\ delay[s[i]] = g[s[i]] - Before(s, g, i)
        BY <1>5, <3>1, <3>2 DEF Relative
      <4>3. g[s[i]] \in Int /\ h[s[i]] = g[s[i]]
        BY <1>6, <3>1, <3>2
      <4> QED  BY <1>3, <3>1, <3>2, <4>1, <4>2, <4>3
    <3>3. CASE j - 1 # i
      <4>1. /\ j - 2 \in 1 .. Len(s) /\ r[j - 1] = s[j - 2] /\ j - 1 # 1
            /\ (j - 1) - 1 = j - 2
        BY <1>1, <1>2, <1>4, <2>3, <3>1, <3>3
      <4>2. f[s[j - 1]] = delay[s[j - 1]] /\ h[s[j - 1]] = g[s[j - 1]]
        BY <1>5, <1>6, <3>1, <3>3
      <4>3. Before(r, h, j) = Before(s, g, j - 1)
        BY <1>6, <3>1, <4>1 DEF Before
      <4>4. delay[s[j - 1]] = g[s[j - 1]] - Before(s, g, j - 1)
        BY <3>1 DEF Relative
      <4> QED  BY <3>1, <4>2, <4>3, <4>4
    <3> QED  BY <3>2, <3>3
  <2> QED  BY <1>1, <1>2, <2>1, <2>2, <2>3
<1> QED  BY <1>4, <1>7 DEF Relative, r

(* osRtxThreadDelayInsert finds that place and that rest. *)
LEMMA InsertExact ==
  ASSUME NEW delay \in [Threads -> Int], NEW s, IsList(s), NEW g \in Deadlines,
         Relative(delay, s, g), NEW t \in Threads, t \notin ToSet(s), NEW d \in Nat,
         NEW i, i = ScanPos(s, {j \in DOMAIN s : Due(delay, s)[j] > d})
  PROVE  /\ i \in 1 .. Len(s) + 1 /\ Before(s, g, i) \in Int
         /\ Due(delay, s)[i - 1] = Before(s, g, i)
<1>1. s \in Seq(Threads) /\ Len(s) \in Nat /\ \A j \in 1 .. Len(s) : s[j] \in Threads
  BY DEF IsList
<1>2. i \in 1 .. Len(s) + 1
  BY InsertDelays
<1>3. IsDue(Due(delay, s), Len(s), delay, s)
  BY <1>1, DueFacts
<1>4. CASE i = 1
  BY <1>2, <1>3, <1>4 DEF IsDue, Before
<1>5. CASE i # 1
  <2> DEFINE j == i - 1
  <2>1. j \in 1 .. Len(s)
    BY <1>1, <1>2, <1>5
  <2> HIDE DEF j
  <2>2. Due(delay, s)[j] = g[s[j]] /\ g[s[j]] \in Int
    BY <1>1, <2>1, DueIs DEF Deadlines
  <2> QED  BY <1>2, <1>5, <2>2 DEF Before, j
<1> QED  BY <1>4, <1>5

(* osRtxThreadDelayRemove: the others are due when they were. *)
LEMMA RemoveExact ==
  ASSUME NEW delay \in [Threads -> Int], NEW s, IsList(s), NEW g \in Deadlines,
         Relative(delay, s, g), NEW t \in ToSet(s)
  PROVE  Relative(ExtendSuccessor(delay, s, t), Unlink(s, t), g)
<1> DEFINE p == CHOOSE j \in DOMAIN s : s[j] = t
           r == Unlink(s, t)
           f == ExtendSuccessor(delay, s, t)
<1>1. /\ s \in Seq(Threads) /\ Len(s) \in Nat /\ DOMAIN s = 1 .. Len(s)
      /\ \A j \in 1 .. Len(s) : s[j] \in Threads
      /\ \A j, m \in 1 .. Len(s) : s[j] = s[m] => j = m
  BY DEF IsList, IsInjective
<1>2. p \in 1 .. Len(s) /\ s[p] = t
  BY <1>1 DEF ToSet
<1>3. r = RemoveAt(s, p)
  BY DEF Unlink
<1> HIDE DEF p, r
<1>4. /\ Len(r) = Len(s) - 1
      /\ \A j \in 1 .. Len(s) - 1 : r[j] = IF j < p THEN s[j] ELSE s[j + 1]
  BY <1>1, <1>2, <1>3, RemoveAtFacts
<1>5. \A j \in 1 .. Len(s) : f[s[j]] = IF j = p + 1 THEN delay[s[j]] + delay[t] ELSE delay[s[j]]
  <2> SUFFICES ASSUME NEW j \in 1 .. Len(s)
               PROVE  f[s[j]] = IF j = p + 1 THEN delay[s[j]] + delay[t] ELSE delay[s[j]]
    OBVIOUS
  <2>1. f[s[j]] = IF \E m \in 1 .. Len(s) - 1 : s[m] = t /\ s[m + 1] = s[j]
                    THEN delay[s[j]] + delay[t] ELSE delay[s[j]]
    BY <1>1 DEF ExtendSuccessor
  <2>2. (\E m \in 1 .. Len(s) - 1 : s[m] = t /\ s[m + 1] = s[j]) <=> j = p + 1
    <3>1. ASSUME NEW m \in 1 .. Len(s) - 1, s[m] = t, s[m + 1] = s[j] PROVE j = p + 1
      <4>1. m \in 1 .. Len(s) /\ m + 1 \in 1 .. Len(s)
        BY <1>1, <3>1
      <4>2. m = p /\ m + 1 = j
        BY <1>1, <1>2, <3>1, <4>1
      <4> QED  BY <4>2
    <3>2. ASSUME j = p + 1 PROVE \E m \in 1 .. Len(s) - 1 : s[m] = t /\ s[m + 1] = s[j]
      <4>1. p \in 1 .. Len(s) - 1 /\ s[p] = t /\ s[p + 1] = s[j]
        BY <1>1, <1>2, <3>2
      <4> QED  BY <4>1
    <3> QED  BY <3>1, <3>2
  <2> QED  BY <2>1, <2>2
<1> HIDE DEF f
<1>6. \A j \in 1 .. Len(s) : delay[s[j]] = g[s[j]] - Before(s, g, j) /\ g[s[j]] \in Int
  BY <1>1 DEF Relative, Deadlines
<1>7. ASSUME NEW j \in 1 .. Len(s) - 1 PROVE f[r[j]] = g[r[j]] - Before(r, g, j)
  <2>1. CASE j < p
    <3>1. j \in 1 .. Len(s) /\ j # p + 1 /\ r[j] = s[j]
      BY <1>1, <1>2, <1>4, <2>1
    <3>2. Before(r, g, j) = Before(s, g, j)
      <4>1. CASE j = 1
        BY <4>1 DEF Before
      <4>2. CASE j # 1
        <5>1. j - 1 \in 1 .. Len(s) - 1 /\ j - 1 < p
          BY <1>1, <1>2, <2>1, <4>2
        <5> QED  BY <1>4, <4>2, <5>1 DEF Before
      <4> QED  BY <4>1, <4>2
    <3> QED  BY <1>5, <1>6, <3>1, <3>2
  <2>2. CASE j = p
    <3>1. j + 1 \in 1 .. Len(s) /\ r[j] = s[j + 1] /\ j + 1 # 1 /\ (j + 1) - 1 = j
      BY <1>1, <1>2, <1>4, <2>2
    <3>2. f[s[j + 1]] = delay[s[j + 1]] + delay[t]
      BY <1>5, <2>2, <3>1
    <3>3. delay[s[j + 1]] = g[s[j + 1]] - g[t] /\ delay[t] = g[t] - Before(s, g, p)
      <4>1. Before(s, g, j + 1) = g[t]
        BY <1>2, <2>2, <3>1 DEF Before
      <4> QED  BY <1>2, <1>6, <3>1, <4>1
    <3>4. Before(r, g, j) = Before(s, g, p) /\ Before(s, g, p) \in Int
      <4>1. CASE j = 1
        BY <2>2, <4>1 DEF Before
      <4>2. CASE j # 1
        <5>1. j - 1 \in 1 .. Len(s) - 1 /\ j - 1 < p /\ j - 1 \in 1 .. Len(s)
          BY <1>1, <1>2, <2>2, <4>2
        <5> QED  BY <1>4, <1>6, <2>2, <4>2, <5>1 DEF Before
      <4> QED  BY <4>1, <4>2
    <3>5. g[s[j + 1]] \in Int /\ g[t] \in Int
      BY <1>2, <1>6, <3>1
    <3> QED  BY <3>1, <3>2, <3>3, <3>4, <3>5
  <2>3. CASE j > p
    <3>1. /\ j + 1 \in 1 .. Len(s) /\ r[j] = s[j + 1] /\ j + 1 # p + 1 /\ j # 1
          /\ (j + 1) - 1 = j /\ j + 1 # 1
      BY <1>1, <1>2, <1>4, <2>3
    <3>2. r[j - 1] = s[j]
      <4>1. j - 1 \in 1 .. Len(s) - 1 /\ ~(j - 1 < p) /\ (j - 1) + 1 = j
        BY <1>1, <1>2, <2>3
      <4> QED  BY <1>4, <4>1
    <3>3. Before(r, g, j) = g[s[j]] /\ Before(s, g, j + 1) = g[s[j]]
      BY <3>1, <3>2 DEF Before
    <3> QED  BY <1>5, <1>6, <3>1, <3>3
  <2> QED  BY <1>2, <2>1, <2>2, <2>3
<1> QED  BY <1>4, <1>7 DEF Relative, r, f

-----------------------------------------------------------------------------
(* Operations that do not touch the delay list. *)
HasDelays(q) == "dlist" \in DOMAIN q /\ "delay" \in DOMAIN q
SameTimes(q, r) == DOMAIN r = DOMAIN q /\ r.dlist = q.dlist /\ r.delay = q.delay

(* The pieces that dispatching is made of leave every delay alone. *)
LEMMA PiecesKeepTimes ==
  ASSUME NEW kk, HasDelays(kk), NEW t
  PROVE  /\ SameTimes(kk, ReadyPut(kk, t)) /\ SameTimes(kk, Block(kk, t))
         /\ SameTimes(kk, Switch(kk, t)) /\ SameTimes(kk, Return(kk))
         /\ SameTimes(kk, [kk EXCEPT !.ready = Tail(@)])
         /\ SameTimes(kk, ListRemove(kk, t)) /\ SameTimes(kk, ListSort(kk, t))
<1>1. SameTimes(kk, Switch(kk, t)) /\ SameTimes(kk, Return(kk))
      /\ SameTimes(kk, [kk EXCEPT !.ready = Tail(@)])
  BY DEF SameTimes, HasDelays, Switch, Return
<1>2. SameTimes(kk, ReadyPut(kk, t))
  BY DEF SameTimes, HasDelays, ReadyPut
<1>3. SameTimes(kk, Block(kk, t))
  BY DEF SameTimes, HasDelays, Block
<1>4. SameTimes(kk, ListRemove(kk, t)) /\ SameTimes(kk, ListSort(kk, t))
  BY DEF SameTimes, HasDelays, ListRemove, ListSort
<1> QED  BY <1>1, <1>2, <1>3, <1>4

(* Dispatching, and taking the next thread to run, leave every delay       *)
(* alone.                                                                  *)
LEMMA DispatchKeepsTimes ==
  ASSUME NEW kk, HasDelays(kk), NEW t
  PROVE  /\ SameTimes(kk, SwitchToReady(kk)) /\ SameTimes(kk, DispatchReady(kk))
         /\ SameTimes(kk, Dispatch(kk, t))
<1> DEFINE m == [kk EXCEPT !.ready = Tail(@)]
           b == Block(m, kk.curr)
           c == Block(kk, kk.curr)
           h == Head(kk.ready)
<1>1. SameTimes(kk, m) /\ HasDelays(m)
  BY PiecesKeepTimes DEF SameTimes, HasDelays
<1> HIDE DEF m, h
<1>2. SameTimes(m, b) /\ HasDelays(b) /\ SameTimes(kk, c) /\ HasDelays(c)
  BY <1>1, PiecesKeepTimes DEF SameTimes, HasDelays
<1> HIDE DEF b, c
<1>3. SameTimes(m, Switch(m, h)) /\ SameTimes(b, Switch(b, h)) /\ SameTimes(c, Switch(c, t))
      /\ SameTimes(kk, ReadyPut(kk, t))
  BY <1>1, <1>2, PiecesKeepTimes
<1>4. SameTimes(kk, Switch(m, h)) /\ SameTimes(kk, Switch(b, h)) /\ SameTimes(kk, Switch(c, t))
      /\ SameTimes(kk, ReadyPut(kk, t)) /\ SameTimes(kk, kk)
  BY <1>1, <1>2, <1>3 DEF SameTimes
<1>5. SwitchToReady(kk) = Switch(m, h)
  BY DEF SwitchToReady, m, h
<1>6. DispatchReady(kk) = Switch(b, h) \/ DispatchReady(kk) = kk
  BY DEF DispatchReady, b, m, h
<1>7. Dispatch(kk, t) = Switch(c, t) \/ Dispatch(kk, t) = ReadyPut(kk, t)
  BY DEF Dispatch, c
<1> QED  BY <1>4, <1>5, <1>6, <1>7

(* A kernel value whose delays can be read. *)
TimesOK(q) == HasDelays(q) /\ q.delay \in [Threads -> Int] /\ IsList(q.dlist)

(* osRtxThreadDelayInsert: the thread is due d from now, or never. *)
LEMMA DelayInsertExact ==
  ASSUME NEW kk, TimesOK(kk), NEW g \in Deadlines, Exact(kk, g),
         NEW t \in Threads, t \notin ToSet(kk.dlist), NEW d, d = Forever \/ d \in Nat,
         NEW h, h = IF d = Forever THEN g ELSE [g EXCEPT ![t] = d],
         NEW q, q = DelayInsert(kk, t, d)
  PROVE  HasDelays(q) /\ h \in Deadlines /\ Exact(q, h)
<1> DEFINE s == kk.dlist
           delay == kk.delay
           i == ScanPos(s, {j \in DOMAIN s : Due(delay, s)[j] > d})
           rest == d - Due(delay, s)[i - 1]
           f == [ShortenSuccessor(delay, s, i, rest) EXCEPT ![t] = rest]
<1>1. delay \in [Threads -> Int] /\ IsList(s) /\ HasDelays(kk) /\ Relative(delay, s, g)
  BY DEF TimesOK, Exact
<1>2. CASE d = Forever
  <2>1. q = [kk EXCEPT !.delay[t] = Forever, !.wait = @ \cup {t}] /\ h = g
    BY <1>2 DEF DelayInsert
  <2>2. HasDelays(q) /\ q.dlist = s /\ q.delay = [delay EXCEPT ![t] = Forever]
    BY <1>1, <2>1 DEF HasDelays
  <2>3. \A j \in 1 .. Len(s) : s[j] \in Threads /\ s[j] # t
    BY <1>1 DEF IsList, ToSet
  <2>4. \A j \in 1 .. Len(s) : q.delay[s[j]] = delay[s[j]]
    BY <1>1, <2>2, <2>3
  <2> HIDE DEF s, delay
  <2>5. Relative(q.delay, s, g)
    BY <1>1, <2>4 DEF Relative
  <2> QED  BY <2>1, <2>2, <2>5 DEF Exact
<1>3. CASE d # Forever
  <2>1. d \in Nat /\ h = [g EXCEPT ![t] = d]
    BY <1>3
  <2>2. q = [kk EXCEPT !.delay = f, !.dlist = InsertAt(s, i, t)]
    BY <1>3 DEF DelayInsert
  <2>3. HasDelays(q) /\ q.dlist = InsertAt(s, i, t) /\ q.delay = f
    BY <1>1, <2>2 DEF HasDelays
  <2>4. h \in Deadlines
    BY <2>1 DEF Deadlines
  <2>5. f = [ShortenSuccessor(delay, s, i, rest) EXCEPT ![t] = rest]
    OBVIOUS
  <2> HIDE DEF s, delay, f
  <2>6. t \notin ToSet(s)
    BY DEF s
  <2>7. /\ i \in 1 .. Len(s) + 1 /\ Before(s, g, i) \in Int
        /\ Due(delay, s)[i - 1] = Before(s, g, i)
    BY <1>1, <2>1, <2>6, InsertExact
  <2>8. rest = d - Before(s, g, i) /\ rest \in Int /\ d \in Int
    BY <2>1, <2>7
  <2> HIDE DEF i, rest
  <2>9. Relative(f, InsertAt(s, i, t), h)
    BY <1>1, <2>1, <2>5, <2>6, <2>7, <2>8, InsertedExact
  <2> QED  BY <2>3, <2>4, <2>9 DEF Exact
<1> QED  BY <1>2, <1>3

(* osRtxThreadDelayRemove: the others are due when they were. *)
LEMMA DelayRemoveExact ==
  ASSUME NEW kk, TimesOK(kk), NEW g \in Deadlines, Exact(kk, g),
         NEW t \in Threads, kk.delay[t] = Forever \/ t \in ToSet(kk.dlist),
         NEW q, q = DelayRemove(kk, t)
  PROVE  HasDelays(q) /\ Exact(q, g)
<1>1. CASE kk.delay[t] = Forever
  <2>1. SameTimes(kk, q)
    BY <1>1 DEF DelayRemove, SameTimes, TimesOK, HasDelays
  <2> QED  BY <2>1 DEF SameTimes, Exact, TimesOK, HasDelays
<1>2. CASE kk.delay[t] # Forever
  <2>1. /\ HasDelays(q) /\ q.dlist = Unlink(kk.dlist, t)
        /\ q.delay = ExtendSuccessor(kk.delay, kk.dlist, t)
    BY <1>2 DEF DelayRemove, TimesOK, HasDelays
  <2>2. Relative(ExtendSuccessor(kk.delay, kk.dlist, t), Unlink(kk.dlist, t), g)
    BY <1>2, RemoveExact DEF TimesOK, Exact
  <2> QED  BY <2>1, <2>2 DEF Exact
<1> QED  BY <1>1, <1>2

(* What Placed says of the delays. *)
LEMMA PlacedTimes ==
  ASSUME NEW q, NEW F, Placed(q, F)
  PROVE  /\ TimesOK(q)
         /\ \A t \in Threads : t \in ToSet(q.dlist) => q.delay[t] >= 0
         /\ \A t \in Threads \ F : q.state[t] \in BlockedStates =>
              q.delay[t] = Forever \/ t \in ToSet(q.dlist)
         /\ \A t \in Threads : t \in F \/ q.state[t] \notin BlockedStates =>
              t \notin ToSet(q.dlist)
<1>1. q \in KernelType /\ IsList(q.dlist)
  BY DEF Placed, ListsOK
<1>2. TimesOK(q)
  BY <1>1 DEF KernelType, TimesOK, HasDelays
<1>3. /\ \A t \in Threads \ F : ThreadPlaced(q, t)
      /\ \A t \in Threads \cap F : Unlisted(q, t)
  BY DEF Placed
<1> QED  BY <1>2, <1>3 DEF ThreadPlaced, Unlisted

-----------------------------------------------------------------------------
(* The delays of the thread list are exact with respect to the history. *)
ExactInv == due \in Deadlines /\ Exact(k, due)

(* Exactness reads the delay list only. *)
LEMMA SameTimesExact ==
  ASSUME NEW q, NEW r, SameTimes(q, r), NEW g
  PROVE  /\ HasDelays(q) => HasDelays(r)
         /\ TimesOK(q) => TimesOK(r)
         /\ Exact(q, g) => Exact(r, g)
BY DEF SameTimes, HasDelays, TimesOK, Exact

(* A thread taken out of all lists leaves the deadlines of the others. *)
LEMMA LeaveListsExact ==
  ASSUME Placed(k, {}), ExactInv, NEW t \in Threads, NEW q, q = LeaveLists(k, t)
  PROVE  Exact(q, due) /\ HasDelays(q)
<1> DEFINE m == ListRemove(k, t)
<1>1. /\ TimesOK(k) /\ HasDelays(k)
      /\ k.state[t] \in BlockedStates => k.delay[t] = Forever \/ t \in ToSet(k.dlist)
  BY PlacedTimes DEF TimesOK
<1>2. due \in Deadlines /\ Exact(k, due)
  BY DEF ExactInv
<1>3. SameTimes(k, m)
  BY <1>1, PiecesKeepTimes
<1> HIDE DEF m
<1>4. TimesOK(m) /\ Exact(m, due) /\ HasDelays(m) /\ m.delay = k.delay /\ m.dlist = k.dlist
  BY <1>1, <1>2, <1>3, SameTimesExact DEF SameTimes
<1>5. \/ q = m \/ q = k
      \/ k.state[t] \in BlockedStates /\ q = DelayRemove(m, t)
  BY DEF LeaveLists, m
<1>6. CASE q = m \/ q = k
  BY <1>1, <1>2, <1>4, <1>6
<1>7. CASE k.state[t] \in BlockedStates /\ q = DelayRemove(m, t)
  <2>1. m.delay[t] = Forever \/ t \in ToSet(m.dlist)
    BY <1>1, <1>4, <1>7
  <2> QED  BY <1>2, <1>4, <1>7, <2>1, DelayRemoveExact
<1> QED  BY <1>5, <1>6, <1>7

(* Waking the joining thread leaves the deadlines of the others. *)
LEMMA WakeJoinerExact ==
  ASSUME NEW kk, NEW F, Placed(kk, F), NEW g \in Deadlines, Exact(kk, g),
         NEW t \in Threads,
         join[t] # NoThread => /\ join[t] \in Threads /\ join[t] \notin F
                               /\ kk.state[join[t]] = "WaitingJoin",
         NEW q, q = WakeJoiner(kk, t)
  PROVE  Exact(q, g) /\ HasDelays(q)
<1>1. TimesOK(kk) /\ HasDelays(kk)
  BY PlacedTimes DEF TimesOK
<1>2. CASE join[t] = NoThread
  BY <1>1, <1>2 DEF WakeJoiner
<1>3. CASE join[t] # NoThread
  <2> DEFINE w == join[t]
             m == [kk EXCEPT !.ret[w] = "osOK"]
             r == DelayRemove(m, w)
  <2>1. w \in Threads /\ w \notin F /\ kk.state[w] \in BlockedStates
    BY <1>3 DEF BlockedStates, WaitStates
  <2>2. kk.delay[w] = Forever \/ w \in ToSet(kk.dlist)
    BY <2>1, PlacedTimes
  <2>3. q = ReadyPut(r, w)
    BY <1>3 DEF WakeJoiner, WaitExitReady
  <2>4. SameTimes(kk, m)
    BY <1>1 DEF SameTimes, HasDelays
  <2> HIDE DEF w, m
  <2>5. TimesOK(m) /\ Exact(m, g) /\ (m.delay[w] = Forever \/ w \in ToSet(m.dlist))
    BY <1>1, <2>2, <2>4, SameTimesExact DEF SameTimes
  <2>6. HasDelays(r) /\ Exact(r, g)
    BY <2>1, <2>5, DelayRemoveExact
  <2> HIDE DEF r
  <2>7. SameTimes(r, q)
    BY <2>3, <2>6, PiecesKeepTimes
  <2> QED  BY <2>6, <2>7, SameTimesExact
<1> QED  BY <1>2, <1>3

(* How a step ends: the thread to run is chosen, and delays stay. *)
LEMMA ReturnsExact ==
  ASSUME NEW q, HasDelays(q), Exact(q, due'), due' \in Deadlines,
         k' = Return(q) \/ k' = q
  PROVE  ExactInv'
<1>1. CASE k' = Return(q)
  BY <1>1, PiecesKeepTimes, SameTimesExact DEF ExactInv
<1>2. CASE k' = q
  BY <1>2 DEF ExactInv
<1> QED  BY <1>1, <1>2

(* Calls that leave the delay list alone. *)
LEMMA OtherCallsExact ==
  ASSUME IInv, ExactInv,
         \/ \E t \in User, p \in Prios : SetPriority(t, p)
         \/ Yield \/ KernelLock \/ KernelUnlock
         \/ \E t \in User : Detach(t) \/ JoinDone(t)
  PROVE  ExactInv'
<1>1. /\ HasDelays(k) /\ Exact(k, due) /\ due \in Deadlines
  BY PlacedTimes DEF TimesOK, IInv, KernelOK, ExactInv
<1>2. due' = due
  BY DEF SetPriority, Yield, Detach, JoinDone, KernelLock, KernelUnlock
<1>3. SUFFICES \E q : SameTimes(k, q) /\ (k' = Return(q) \/ k' = q)
  BY <1>1, <1>2, <1>3, SameTimesExact, ReturnsExact
<1>4. CASE \E t \in User, p \in Prios : SetPriority(t, p)
  <2> PICK t \in User, p \in Prios : SetPriority(t, p)
    BY <1>4
  <2> DEFINE m == [k EXCEPT !.prio[t] = p, !.base[t] = p]
             n == ListSort(m, t)
             q == DispatchReady(n)
  <2>1. k' = Return(q)
    BY DEF SetPriority
  <2>2. SameTimes(k, m) /\ HasDelays(m)
    BY <1>1 DEF SameTimes, HasDelays
  <2> HIDE DEF m
  <2>3. SameTimes(m, n) /\ HasDelays(n)
    BY <2>2, PiecesKeepTimes, SameTimesExact
  <2> HIDE DEF n
  <2>4. SameTimes(n, q)
    BY <2>3, DispatchKeepsTimes
  <2> QED  BY <2>1, <2>2, <2>3, <2>4 DEF SameTimes
<1>5. CASE Yield
  <2> DEFINE m == [k EXCEPT !.ready = Tail(@)]
             n == ReadyPut(m, k.curr)
             q == Switch(n, Head(k.ready))
  <2>1. k' = Return(q)
    BY <1>5 DEF Yield
  <2>2. SameTimes(k, m) /\ HasDelays(m)
    BY <1>1 DEF SameTimes, HasDelays
  <2> HIDE DEF m
  <2>3. SameTimes(m, n) /\ HasDelays(n)
    BY <2>2, PiecesKeepTimes, SameTimesExact
  <2> HIDE DEF n
  <2>4. SameTimes(n, q)
    BY <2>3, PiecesKeepTimes
  <2> QED  BY <2>1, <2>2, <2>3, <2>4 DEF SameTimes
<1>6. CASE KernelLock \/ KernelUnlock \/ \E t \in User : Detach(t) \/ JoinDone(t)
  <2>1. SameTimes(k, k')
    BY <1>1, <1>6 DEF Detach, JoinDone, KernelLock, KernelUnlock, SameTimes, HasDelays
  <2> QED  BY <2>1
<1> QED  BY <1>4, <1>5, <1>6

(* Creating a thread, the idle thread included: its delay is written, but  *)
(* it is in no list.                                                       *)
LEMMA NewThreadExact ==
  ASSUME IInv, ExactInv, NEW t \in Threads, k.state[t] = "Inactive", NEW p
  PROVE  HasDelays(NewThread(t, p)) /\ Exact(NewThread(t, p), due)
<1>1. /\ TimesOK(k) /\ Exact(k, due) /\ t \notin ToSet(k.dlist)
  <2>1. Placed(k, {}) /\ k.state[t] \notin BlockedStates
    BY DEF IInv, KernelOK, BlockedStates, WaitStates
  <2> QED  BY <2>1, PlacedTimes DEF ExactInv
<1> DEFINE q == NewThread(t, p)
<1>2. HasDelays(q) /\ q.dlist = k.dlist /\ q.delay = [k.delay EXCEPT ![t] = 0]
  BY <1>1 DEF NewThread, TimesOK, HasDelays
<1> HIDE DEF q
<1>3. \A j \in 1 .. Len(k.dlist) : k.dlist[j] \in Threads /\ k.dlist[j] # t
  BY <1>1 DEF TimesOK, IsList, ToSet
<1>4. \A j \in 1 .. Len(k.dlist) : q.delay[k.dlist[j]] = k.delay[k.dlist[j]]
  BY <1>1, <1>2, <1>3 DEF TimesOK
<1> QED  BY <1>1, <1>2, <1>4 DEF Exact, Relative, q

(* osThreadNew and osKernelStart. *)
LEMMA NewExact ==
  ASSUME IInv, ExactInv,
         \/ \E t \in User, p \in Prios, attr \in Attrs : ThreadNew(t, p, attr)
         \/ KernelStart
  PROVE  ExactInv'
<1>1. due' = due /\ due \in Deadlines
  BY DEF ThreadNew, KernelStart, ExactInv
<1>2. CASE \E t \in User, p \in Prios, attr \in Attrs : ThreadNew(t, p, attr)
  <2>1. PICK t \in User, p \in Prios, attr \in Attrs : ThreadNew(t, p, attr)
    BY <1>2
  <2> DEFINE m == NewThread(t, p)
             q == Dispatch(m, t)
  <2>2. k' = Return(q) /\ k.state[t] = "Inactive" /\ t \in Threads
    BY <2>1 DEF ThreadNew, User
  <2>3. HasDelays(m) /\ Exact(m, due)
    BY <2>2, NewThreadExact
  <2> HIDE DEF m
  <2>4. SameTimes(m, q)
    BY <2>3, DispatchKeepsTimes
  <2> HIDE DEF q
  <2> QED  BY <1>1, <2>2, <2>3, <2>4, SameTimesExact, ReturnsExact
<1>3. CASE KernelStart
  <2> DEFINE m == NewThread(Idle, IdlePrio)
             n == Dispatch(m, Idle)
             r == SwitchToReady(n)
             q == [r EXCEPT !.kstate = "Running"]
  <2>1. k' = Return(q) /\ k.kstate = "Ready"
    BY <1>3 DEF KernelStart
  <2>2. k.state[Idle] = "Inactive"
    BY <2>1 DEF IInv, KernelOK
  <2>3. HasDelays(m) /\ Exact(m, due)
    BY <2>2, IdleIsThread, NewThreadExact
  <2> HIDE DEF m
  <2>4. SameTimes(m, n) /\ HasDelays(n)
    BY <2>3, DispatchKeepsTimes, SameTimesExact
  <2> HIDE DEF n
  <2>5. SameTimes(n, r) /\ HasDelays(r)
    BY <2>4, DispatchKeepsTimes, SameTimesExact
  <2> HIDE DEF r
  <2>6. SameTimes(r, q)
    BY <2>5 DEF SameTimes, HasDelays
  <2> HIDE DEF q
  <2> QED  BY <1>1, <2>1, <2>3, <2>4, <2>5, <2>6, SameTimesExact, ReturnsExact
<1> QED  BY <1>2, <1>3

(* The running thread waits, for d ticks or for ever. *)
LEMMA WaitEnterExact ==
  ASSUME IInv, ExactInv, Calling, NEW st, NEW r, NEW d, d = Forever \/ d \in Nat,
         NEW g, g = IF d = Forever THEN due ELSE [due EXCEPT ![k.curr] = d],
         NEW q, q = WaitEnter(k, st, d, r)
  PROVE  HasDelays(q) /\ g \in Deadlines /\ Exact(q, g)
<1> DEFINE c == k.curr
           m == [k EXCEPT !.state[k.curr] = st, !.ret[k.curr] = r]
           n == DelayInsert(m, c, d)
<1>1. /\ TimesOK(k) /\ HasDelays(k) /\ Exact(k, due) /\ due \in Deadlines
      /\ c \in Threads /\ c \notin ToSet(k.dlist)
  <2>1. Placed(k, {}) /\ k.curr \in Threads /\ k.state[k.curr] \notin BlockedStates
    BY CallFacts DEF BlockedStates, WaitStates
  <2> QED  BY <2>1, PlacedTimes DEF ExactInv, TimesOK
<1>2. q = SwitchToReady(n)
  BY DEF WaitEnter
<1>3. SameTimes(k, m)
  BY <1>1 DEF SameTimes, HasDelays
<1>4. g = IF d = Forever THEN due ELSE [due EXCEPT ![c] = d]
  OBVIOUS
<1> HIDE DEF m, c
<1>5. TimesOK(m) /\ Exact(m, due) /\ c \notin ToSet(m.dlist)
  BY <1>1, <1>3, SameTimesExact DEF SameTimes
<1>6. HasDelays(n) /\ g \in Deadlines /\ Exact(n, g)
  BY <1>1, <1>4, <1>5, DelayInsertExact
<1> HIDE DEF n
<1>7. SameTimes(n, q)
  BY <1>2, <1>6, DispatchKeepsTimes
<1> QED  BY <1>6, <1>7, SameTimesExact

(* osDelay: the caller is due when it asked to be.  osThreadJoin waits     *)
(* without a deadline.                                                     *)
LEMMA WaitsExact ==
  ASSUME IInv, ExactInv,
         (\E d \in 0 .. MaxDelay : Delay(d)) \/ (\E t \in User : JoinWait(t))
  PROVE  ExactInv'
<1>1. CASE \E d \in 0 .. MaxDelay : Delay(d)
  <2>1. PICK d \in 0 .. MaxDelay : Delay(d)
    BY <1>1
  <2> DEFINE q == WaitEnter(k, "WaitingDelay", d, "osOK")
             g == [due EXCEPT ![k.curr] = d]
  <2>2. /\ Calling /\ k' = Return(q) /\ due' = g /\ d \in Nat /\ d # Forever
    BY <2>1, BoundsAreNats DEF Delay, Forever
  <2>3. g = IF d = Forever THEN due ELSE [due EXCEPT ![k.curr] = d]
    BY <2>2
  <2> HIDE DEF g
  <2>4. HasDelays(q) /\ g \in Deadlines /\ Exact(q, g)
    BY <2>2, <2>3, WaitEnterExact
  <2> HIDE DEF q
  <2> QED  BY <2>2, <2>4, ReturnsExact
<1>2. CASE \E t \in User : JoinWait(t)
  <2> DEFINE q == WaitEnter(k, "WaitingJoin", Forever, "osErrorResource")
  <2>1. Calling /\ k' = Return(q) /\ due' = due
    BY <1>2 DEF JoinWait
  <2>2. HasDelays(q) /\ due \in Deadlines /\ Exact(q, due)
    BY <2>1, WaitEnterExact
  <2> HIDE DEF q
  <2> QED  BY <2>1, <2>2, ReturnsExact
<1> QED  BY <1>1, <1>2

(* osThreadSuspend: the thread leaves its delay and has no deadline. *)
LEMMA SuspendExact ==
  ASSUME IInv, ExactInv, NEW t \in User, Suspend(t) PROVE ExactInv'
<1> DEFINE k1 == LeaveLists(k, t)
           k2 == IF k.state[t] = "Running" THEN SwitchToReady(k1) ELSE k1
           k3 == [k2 EXCEPT !.state[t] = "Blocked"]
           q == DelayInsert(k3, t, Forever)
<1>1. /\ Calling /\ k' = Return(q) /\ t \in Threads /\ due' = due /\ due \in Deadlines
  BY DEF Suspend, User, ExactInv
<1>2. Placed(k, {})
  BY <1>1, CallFacts
<1>3. Placed(k1, {t})
  BY <1>1, <1>2, LeaveListsPlaced
<1>4. Exact(k1, due) /\ HasDelays(k1)
  BY <1>1, <1>2, LeaveListsExact
<1> HIDE DEF k1
<1>5. TimesOK(k1) /\ t \notin ToSet(k1.dlist)
  BY <1>1, <1>3, PlacedTimes
<1>6. SameTimes(k1, k2) /\ HasDelays(k2)
  <2>1. SameTimes(k1, k1) /\ SameTimes(k1, SwitchToReady(k1))
    BY <1>4, DispatchKeepsTimes DEF SameTimes
  <2>2. SameTimes(k1, k2)
    BY <2>1
  <2> QED  BY <1>4, <2>2, SameTimesExact
<1> HIDE DEF k2
<1>7. SameTimes(k2, k3)
  BY <1>6 DEF SameTimes, HasDelays
<1> HIDE DEF k3
<1>8. TimesOK(k3) /\ Exact(k3, due) /\ t \notin ToSet(k3.dlist)
  BY <1>4, <1>5, <1>6, <1>7, SameTimesExact DEF SameTimes
<1>9. HasDelays(q) /\ Exact(q, due)
  BY <1>1, <1>8, DelayInsertExact
<1> HIDE DEF q
<1> QED  BY <1>1, <1>9, ReturnsExact

(* osThreadResume: a delay is cut short, the others are not. *)
LEMMA ResumeExact ==
  ASSUME IInv, ExactInv, NEW t \in User, Resume(t) PROVE ExactInv'
<1> DEFINE m == DelayRemove(ListRemove(k, t), t)
           q == Dispatch(m, t)
<1>1. /\ Calling /\ k' = Return(q) /\ t \in Threads /\ due' = due /\ due \in Deadlines
      /\ k.state[t] \in BlockedStates
  BY DEF Resume, User, ExactInv
<1>2. Placed(k, {})
  BY <1>1, CallFacts
<1>3. m = LeaveLists(k, t)
  BY <1>1 DEF LeaveLists, BlockedStates, WaitStates
<1> HIDE DEF m
<1>4. Exact(m, due) /\ HasDelays(m)
  BY <1>1, <1>2, <1>3, LeaveListsExact
<1>5. SameTimes(m, q)
  BY <1>4, DispatchKeepsTimes
<1> HIDE DEF q
<1> QED  BY <1>1, <1>4, <1>5, SameTimesExact, ReturnsExact

(* The end of a thread: its joiner, which has no deadline, wakes. *)
LEMMA EndExact ==
  ASSUME IInv, ExactInv, Calling, NEW t \in Threads, Live(t),
         due' = due, NEW F, NEW k1, Placed(k1, F), Exact(k1, due),
         t \in F \/ k1.state[t] = "Running",
         F \subseteq {t}, k1.state = k.state, k.state[t] # "WaitingJoin",
         NEW k2, k2 = WakeJoiner(k1, t),
         NEW k3, k3 = SwitchToReady(k2) \/ k3 = DispatchReady(k2),
         NEW q, q = Retire(k3, t), k' = Return(q)
  PROVE  ExactInv'
<1>1. join[t] # NoThread => /\ join[t] \in Threads /\ join[t] \notin F
                            /\ k1.state[join[t]] = "WaitingJoin"
  <2>1. JoinOK(k, join)
    BY CallFacts
  <2> QED  BY <2>1 DEF JoinOK, LiveIn, Live
<1>2. due \in Deadlines
  BY DEF ExactInv
<1>3. Exact(k2, due) /\ HasDelays(k2)
  BY <1>1, <1>2, WakeJoinerExact
<1>4. SameTimes(k2, k3) /\ HasDelays(k3)
  BY <1>3, DispatchKeepsTimes, SameTimesExact
<1>5. SameTimes(k3, q)
  BY <1>4 DEF Retire, SameTimes, HasDelays
<1>6. Exact(q, due) /\ HasDelays(q)
  BY <1>3, <1>4, <1>5, SameTimesExact
<1> QED  BY <1>2, <1>6, ReturnsExact

(* osThreadExit and osThreadTerminate. *)
LEMMA EndsExact ==
  ASSUME JoinDiscipline, IInv, ExactInv, Exit \/ \E t \in User : Terminate(t)
  PROVE  ExactInv'
<1>1. Calling /\ due' = due /\ Exact(k, due)
  BY DEF Exit, Terminate, ExactInv
<1>2. Placed(k, {}) /\ k.curr \in Threads /\ k.state[k.curr] = "Running"
  BY <1>1, CallFacts
<1>3. CASE Exit
  <2> DEFINE k2 == WakeJoiner(k, k.curr)
             k3 == SwitchToReady(k2)
             q == Retire(k3, k.curr)
  <2>1. k' = Return(q) /\ Live(k.curr) /\ k.state[k.curr] # "WaitingJoin"
    BY <1>2, <1>3 DEF Exit, Live
  <2> DEFINE t == k.curr
             G == {}
  <2>2. /\ t \in Threads /\ G \subseteq {t} /\ Placed(k, G) /\ k.state[t] = "Running"
        /\ Live(t) /\ k.state[t] # "WaitingJoin"
        /\ k2 = WakeJoiner(k, t) /\ k3 = SwitchToReady(k2) /\ q = Retire(k3, t)
    BY <1>2, <2>1
  <2> HIDE DEF t, G, k2, k3, q
  <2> QED  BY <1>1, <2>1, <2>2, EndExact
<1>4. CASE \E t \in User : Terminate(t)
  <2>1. PICK t \in User : Terminate(t)
    BY <1>4
  <2> DEFINE k1 == LeaveLists(k, t)
             k2 == WakeJoiner(k1, t)
             k3 == IF k.state[t] = "Running" THEN SwitchToReady(k2)
                   ELSE DispatchReady(k2)
             q == Retire(k3, t)
             G == {t}
  <2>2. /\ k' = Return(q) /\ t \in Threads /\ Live(t) /\ k.state[t] # "WaitingJoin"
    BY <2>1 DEF Terminate, User, Disturbs
  <2>3. Placed(k1, G) /\ k1.state = k.state
    BY <1>2, <2>2, LeaveListsPlaced DEF Leaves, SameStates
  <2>4. Exact(k1, due)
    BY <1>2, <2>2, LeaveListsExact
  <2>5. /\ G \subseteq {t} /\ t \in G
        /\ k2 = WakeJoiner(k1, t) /\ (k3 = SwitchToReady(k2) \/ k3 = DispatchReady(k2))
        /\ q = Retire(k3, t)
    OBVIOUS
  <2> HIDE DEF k1, k2, k3, q, G
  <2> QED  BY <1>1, <2>2, <2>3, <2>4, <2>5, EndExact
<1> QED  BY <1>3, <1>4

-----------------------------------------------------------------------------
(* The tick. *)

(* The head of the delay list is due after its own delay. *)
LEMMA HeadDue ==
  ASSUME TimesOK(k), ExactInv, k.dlist # <<>>
  PROVE  /\ Head(k.dlist) \in Threads /\ due[Head(k.dlist)] = k.delay[Head(k.dlist)]
<1>1. /\ k.dlist \in Seq(Threads) /\ 1 \in 1 .. Len(k.dlist)
      /\ Head(k.dlist) = k.dlist[1] /\ k.dlist[1] \in Threads
  BY DEF TimesOK, IsList
<1>2. k.delay[k.dlist[1]] = due[k.dlist[1]] - 0
  BY <1>1 DEF ExactInv, Exact, Relative, Before
<1>3. due[k.dlist[1]] \in Int
  BY <1>1 DEF ExactInv, Deadlines
<1> QED  BY <1>1, <1>2, <1>3

(* A tick brings every deadline one tick nearer, although it writes only   *)
(* the delay of the head.                                                  *)
CountDown(delay, s) == [delay EXCEPT ![s[1]] = @ - 1]
Nearer(g, s) == [t \in Threads |-> IF t \in ToSet(s) THEN g[t] - 1 ELSE g[t]]

(* Counting down the head of the list keeps the differences exact. *)
LEMMA CountedExact ==
  ASSUME NEW delay \in [Threads -> Int], NEW s, IsList(s), s # <<>>,
         NEW g \in Deadlines, Relative(delay, s, g),
         NEW f, f = CountDown(delay, s), NEW h, h = Nearer(g, s)
  PROVE  h \in Deadlines /\ Relative(f, s, h)
<1>1. /\ s \in Seq(Threads) /\ Len(s) \in Nat /\ 1 \in 1 .. Len(s)
      /\ \A j \in 1 .. Len(s) : s[j] \in Threads /\ s[j] \in ToSet(s)
      /\ \A j \in 1 .. Len(s) : s[j] = s[1] => j = 1
  BY DEF IsList, IsInjective, ToSet
<1>2. h \in Deadlines
  BY DEF Deadlines, Nearer
<1>3. \A j \in 1 .. Len(s) : h[s[j]] = g[s[j]] - 1 /\ g[s[j]] \in Int
  BY <1>1 DEF Deadlines, Nearer
<1>4. ASSUME NEW j \in 1 .. Len(s) PROVE f[s[j]] = h[s[j]] - Before(s, h, j)
  <2>1. delay[s[j]] = g[s[j]] - Before(s, g, j)
    BY DEF Relative
  <2>2. CASE j = 1
    <3>1. f[s[j]] = delay[s[j]] - 1 /\ Before(s, g, j) = 0 /\ Before(s, h, j) = 0
      BY <1>1, <2>2 DEF Before, CountDown
    <3> QED  BY <1>3, <2>1, <3>1
  <2>3. CASE j # 1
    <3>1. f[s[j]] = delay[s[j]]
      BY <1>1, <2>3 DEF CountDown
    <3>2. j - 1 \in 1 .. Len(s)
      BY <1>1, <2>3
    <3>3. Before(s, h, j) = g[s[j - 1]] - 1 /\ Before(s, g, j) = g[s[j - 1]]
          /\ g[s[j - 1]] \in Int
      BY <1>3, <2>3, <3>2 DEF Before
    <3> QED  BY <1>3, <2>1, <3>1, <3>3
  <2> QED  BY <2>2, <2>3
<1> QED  BY <1>2, <1>4 DEF Relative

(* A head whose delay has run out leaves the others as they were. *)
LEMMA TailExact ==
  ASSUME NEW delay \in [Threads -> Int], NEW s, IsList(s), s # <<>>,
         NEW g \in Deadlines, Relative(delay, s, g), g[s[1]] = 0
  PROVE  Relative(delay, Tail(s), g)
<1> DEFINE r == Tail(s)
<1>1. /\ s \in Seq(Threads) /\ Len(s) \in Nat /\ Len(r) = Len(s) - 1
      /\ \A j \in 1 .. Len(r) : r[j] = s[j + 1]
      /\ \A j \in 1 .. Len(s) : s[j] \in Threads
  BY DEF IsList
<1> HIDE DEF r
<1>2. ASSUME NEW j \in 1 .. Len(r) PROVE delay[r[j]] = g[r[j]] - Before(r, g, j)
  <2>1. /\ j + 1 \in 1 .. Len(s) /\ j + 1 # 1 /\ (j + 1) - 1 = j
        /\ r[j] = s[j + 1]
    BY <1>1
  <2>2. delay[s[j + 1]] = g[s[j + 1]] - g[s[j]]
    BY <2>1 DEF Relative, Before
  <2>3. Before(r, g, j) = g[s[j]]
    <3>1. CASE j = 1
      BY <3>1 DEF Before
    <3>2. CASE j # 1
      <4>1. j - 1 \in 1 .. Len(r) /\ (j - 1) + 1 = j
        BY <1>1, <3>2
      <4> QED  BY <1>1, <3>2, <4>1 DEF Before
    <3> QED  BY <3>1, <3>2
  <2> QED  BY <2>1, <2>2, <2>3
<1> QED  BY <1>2 DEF Relative, r

(* The beginning of the tick. *)
LEMMA TickBeginExact ==
  ASSUME IInv, ExactInv, TickBegin PROVE ExactInv'
<1> DEFINE s == k.dlist
           g == due
           h == Nearer(g, s)
<1>1. k' = DelayCount(k) /\ due' = h
  BY DEF TickBegin, Nearer
<1>2. TimesOK(k) /\ HasDelays(k) /\ Exact(k, due) /\ due \in Deadlines
  BY PlacedTimes DEF IInv, KernelOK, ExactInv, TimesOK
<1>3. CASE s = <<>>
  <2>1. k' = k /\ Len(s) = 0
    BY <1>1, <1>3 DEF DelayCount
  <2>2. due' \in Deadlines
    BY <1>1, <1>2 DEF Deadlines, Nearer
  <2> QED  BY <2>1, <2>2 DEF ExactInv, Exact, Relative
<1>4. CASE s # <<>>
  <2> DEFINE f == CountDown(k.delay, s)
  <2>1. Head(s) = s[1] /\ s \in Seq(Threads)
    BY <1>2, <1>4 DEF TimesOK, IsList
  <2>2. k' = [k EXCEPT !.delay = f]
    BY <1>1, <1>4, <2>1 DEF DelayCount, CountDown
  <2>3. k'.dlist = s /\ k'.delay = f
    BY <1>2, <2>2 DEF HasDelays
  <2>4. /\ k.delay \in [Threads -> Int] /\ IsList(s) /\ Relative(k.delay, s, g) /\ g \in Deadlines
        /\ f = CountDown(k.delay, s) /\ h = Nearer(g, s)
    BY <1>2 DEF TimesOK, Exact
  <2> HIDE DEF f, h, s, g
  <2>5. h \in Deadlines /\ Relative(f, s, h)
    BY <1>4, <2>4, CountedExact
  <2> QED  BY <1>1, <2>3, <2>5 DEF ExactInv, Exact
<1> QED  BY <1>3, <1>4

(* The tick wakes the head of the delay list when it is due. *)
LEMMA TickWakeExact ==
  ASSUME IInv, ExactInv, TickWake
  PROVE  ExactInv' /\ Head(k.dlist) \in Threads /\ due[Head(k.dlist)] = 0
<1> DEFINE t == Head(k.dlist)
           m == ListRemove(k, t)
           n == [m EXCEPT !.dlist = Tail(@)]
           q == ReadyPut(n, t)
<1>1. k' = q /\ due' = due /\ k.dlist # <<>> /\ k.delay[t] = 0
  BY DEF TickWake, DelayWake, DelayExpired
<1>2. TimesOK(k) /\ HasDelays(k) /\ Exact(k, due) /\ due \in Deadlines
  BY PlacedTimes DEF IInv, KernelOK, ExactInv, TimesOK
<1>3. t \in Threads /\ due[t] = 0 /\ t = k.dlist[1]
  BY <1>1, <1>2, HeadDue DEF TimesOK, IsList
<1> HIDE DEF t
<1>4. SameTimes(k, m) /\ HasDelays(m)
  BY <1>2, PiecesKeepTimes, SameTimesExact
<1> HIDE DEF m
<1>5. HasDelays(n) /\ n.dlist = Tail(k.dlist) /\ n.delay = k.delay
  BY <1>4 DEF SameTimes, HasDelays
<1> HIDE DEF n
<1>6. Exact(n, due)
  BY <1>1, <1>2, <1>3, <1>5, TailExact DEF Exact, TimesOK
<1>7. SameTimes(n, q)
  BY <1>5, PiecesKeepTimes
<1> HIDE DEF q
<1> QED  BY <1>1, <1>2, <1>3, <1>5, <1>6, <1>7, SameTimesExact, ReturnsExact DEF t

(* The end of the tick dispatches, and blocked threads stay blocked. *)
LEMMA TickEndExact ==
  ASSUME IInv, ExactInv, TickEnd
  PROVE  ExactInv' /\ \A u \in Threads : k.state[u] \in BlockedStates => k'.state[u] = k.state[u]
<1> DEFINE k1 == DispatchReady(k)
           r == Switch(ReadyPut([k1 EXCEPT !.ready = Tail(@)], k1.next), Head(k1.ready))
<1>1. /\ k.kstate # "Ready" /\ due' = due
      /\ \/ k' = Return(k1)
         \/ /\ k' = Return(r) /\ k1.ready # <<>>
            /\ k1.prio[Head(k1.ready)] = k1.prio[k1.next]
  BY DEF TickEnd, TickDispatch, Rotate, IInv
<1>2. /\ Placed(k, {}) /\ OneRuns(k) /\ k.next = k.curr /\ k.curr \in Threads
  BY <1>1, TickFacts
<1>3. HasDelays(k) /\ Exact(k, due) /\ due \in Deadlines
  BY <1>2, PlacedTimes DEF ExactInv, TimesOK
<1>4. /\ Placed(k1, {}) /\ OneRuns(k1) /\ SameDelays(k, k1) /\ SameBlocked(k, k1)
      /\ k1.next \in Threads
  <2> DEFINE G == {}
  <2>1. Placed(k, G) /\ k.curr \notin G /\ G \subseteq Threads /\ k1 = DispatchReady(k)
    BY <1>2
  <2> HIDE DEF G, k1
  <2>2. /\ Placed(k1, G) /\ OneRuns(k1) /\ SameDelays(k, k1) /\ SameBlocked(k, k1)
        /\ k1.next \in Threads
    BY <1>2, <2>1, DispatchReadyPlaced
  <2> QED  BY <2>2 DEF G
<1>5. r = Switch(ReadyPut([k1 EXCEPT !.ready = Tail(@)], k1.next), Head(k1.ready))
  OBVIOUS
<1> HIDE DEF k1, r
<1>6. PICK q : /\ k' = Return(q) /\ Placed(q, {}) /\ SameDelays(k, q)
               /\ \A u \in Threads : k.state[u] \in BlockedStates => q.state[u] = k.state[u]
  <2>1. CASE k' = Return(k1)
    BY <1>4, <2>1 DEF SameBlocked, Runnable, BlockedStates, WaitStates
  <2>2. CASE /\ k' = Return(r) /\ k1.ready # <<>>
             /\ k1.prio[Head(k1.ready)] = k1.prio[k1.next]
    <3>1. Placed(r, {}) /\ SameDelays(k1, r) /\ SameBlocked(k1, r)
      BY <1>4, <1>5, <2>2, RotatePlaced
    <3> QED  BY <1>4, <2>2, <3>1 DEF SameBlocked, SameDelays, Runnable, BlockedStates, WaitStates
  <2> QED  BY <1>1, <2>1, <2>2
<1>7. HasDelays(q) /\ Exact(q, due)
  BY <1>3, <1>6, PlacedTimes DEF TimesOK, SameDelays, Exact
<1>8. k'.state = q.state
  BY <1>6, ReturnPlaced
<1> QED  BY <1>1, <1>3, <1>6, <1>7, <1>8, ReturnsExact

(* Every step keeps the delays exact. *)
LEMMA NextExact ==
  ASSUME JoinDiscipline, IInv, ExactInv, [Next]_vars PROVE ExactInv'
<1>1. CASE UNCHANGED vars
  BY <1>1 DEF vars, ExactInv
<1>2. CASE Tick
  BY <1>2, TickBeginExact, TickWakeExact, TickEndExact DEF Tick
<1>3. CASE ServiceCall
  <2>1. CASE \/ \E t \in User, p \in Prios, attr \in Attrs : ThreadNew(t, p, attr)
             \/ KernelStart
    BY <2>1, NewExact
  <2>2. CASE (\E d \in 0 .. MaxDelay : Delay(d)) \/ (\E t \in User : JoinWait(t))
    BY <2>2, WaitsExact
  <2>3. CASE \/ \E t \in User, p \in Prios : SetPriority(t, p)
             \/ Yield \/ KernelLock \/ KernelUnlock
             \/ \E t \in User : Detach(t) \/ JoinDone(t)
    BY <2>3, OtherCallsExact
  <2>4. CASE \E t \in User : Suspend(t)
    BY <2>4, SuspendExact
  <2>5. CASE \E t \in User : Resume(t)
    BY <2>5, ResumeExact
  <2>6. CASE Exit \/ \E t \in User : Terminate(t)
    BY <2>6, EndsExact
  <2> QED  BY <1>3, <2>1, <2>2, <2>3, <2>4, <2>5, <2>6 DEF ServiceCall
<1> QED  BY <1>1, <1>2, <1>3 DEF Next

(* Exact delays, and what IInv says of their signs, make DelaysExact. *)
LEMMA ExactIsDelaysExact == IInv /\ ExactInv => DelaysExact
<1> SUFFICES ASSUME IInv, ExactInv, handler = "none", NEW i \in DOMAIN k.dlist
             PROVE  Due(k.delay, k.dlist)[i] = due[k.dlist[i]] /\ due[k.dlist[i]] > 0
  BY DEF DelaysExact
<1> DEFINE s == k.dlist
           delay == k.delay
           g == due
<1>1. Placed(k, {}) /\ HeadPositive(k)
  BY DEF IInv, KernelOK
<1>2. /\ delay \in [Threads -> Int] /\ IsList(s) /\ g \in Deadlines /\ Relative(delay, s, g)
      /\ s # <<>> => delay[Head(s)] > 0
      /\ \A t \in Threads : t \in ToSet(s) => delay[t] >= 0
  BY <1>1, PlacedTimes DEF TimesOK, ExactInv, Exact, HeadPositive
<1>3. /\ s \in Seq(Threads) /\ i \in 1 .. Len(s)
      /\ \A j \in 1 .. Len(s) : s[j] \in Threads /\ s[j] \in ToSet(s)
  BY <1>2 DEF IsList, ToSet
<1> HIDE DEF s, delay, g
<1>4. \A j \in 1 .. Len(s) : delay[s[j]] >= 0
  BY <1>2, <1>3
<1>5. Due(delay, s)[i] = g[s[i]]
  BY <1>2, <1>3, DueIs
<1>6. g[s[i]] > 0
  BY <1>2, <1>3, <1>4, AllDue
<1> QED  BY <1>5, <1>6 DEF s, delay, g

(* Before osKernelStart no thread delays. *)
LEMMA InitExact == Init => ExactInv
BY DEF Init, ExactInv, Deadlines, Exact, Relative

(* The delay list is exact for any number of threads and any delays: what  *)
(* osRtxThreadDelayInsert and osRtxThreadDelayRemove do to a successor     *)
(* never shifts another thread's deadline.                                 *)
THEOREM DelaysExactHolds ==
  ASSUME JoinDiscipline PROVE Spec => []DelaysExact
<1>1. JoinDiscipline
  OBVIOUS
<1>2. IInv /\ ExactInv /\ [Next]_vars => ExactInv'
  BY <1>1, NextExact
<1>3. Spec => []IInv
  BY Invariance
<1> QED  BY <1>2, <1>3, InitExact, ExactIsDelaysExact, PTL DEF Spec

(* osRtxThreadDelayTick wakes a thread exactly when the delay it asked for *)
(* is over, whatever the other threads did to the delay list meanwhile.    *)
THEOREM WakesOnTimeHolds ==
  ASSUME JoinDiscipline PROVE Spec => WakesOnTime
<1> DEFINE W == \A t \in Threads :
                  k.state[t] = "WaitingDelay" /\ handler = "tick"
                    /\ k'.state[t] # "WaitingDelay" => due[t] = 0
<1>1. JoinDiscipline
  OBVIOUS
<1>2. IInv /\ ExactInv /\ [Next]_vars => ExactInv'
  BY <1>1, NextExact
<1>3. Spec => []IInv
  BY Invariance
<1>4. IInv /\ ExactInv /\ [Next]_vars => [W]_vars
  <2> SUFFICES ASSUME IInv, ExactInv, [Next]_vars, NEW t \in Threads,
                      k.state[t] = "WaitingDelay", handler = "tick",
                      k'.state[t] # "WaitingDelay"
               PROVE  due[t] = 0
    OBVIOUS
  <2>1. k' # k /\ k.kstate # "Ready"
    BY DEF IInv
  <2>2. TickWake \/ TickEnd
    BY <2>1 DEF Next, Tick, TickBegin, ServiceCall, vars, ThreadNew, KernelStart, Delay,
       SetPriority, Yield, Suspend, Resume, Exit, Terminate, Detach, JoinDone, JoinWait,
       KernelLock, KernelUnlock, Calling
  <2>3. CASE TickWake
    <3>1. Head(k.dlist) \in Threads /\ due[Head(k.dlist)] = 0
      BY <2>3, TickWakeExact
    <3>2. k'.state = [k.state EXCEPT ![Head(k.dlist)] = "Ready"]
      BY <2>3, DelayWakePlaced DEF TickWake, IInv, KernelOK
    <3>3. k.state \in [Threads -> ThreadStates]
      BY DEF IInv, TypeOK, KernelType
    <3> QED  BY <3>1, <3>2, <3>3
  <2>4. CASE TickEnd
    BY <2>4, TickEndExact DEF BlockedStates, WaitStates
  <2> QED  BY <2>2, <2>3, <2>4
<1> QED  BY <1>2, <1>3, <1>4, InitExact, PTL DEF Spec, WakesOnTime
=============================================================================
