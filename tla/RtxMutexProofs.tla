--------------------------- MODULE RtxMutexProofs ---------------------------
(***************************************************************************)
(* Safety of the mutexes for any number of threads, mutexes and            *)
(* priorities.                                                             *)
(***************************************************************************)
EXTENDS RtxMutex, RtxCoreProofs, FiniteSetTheorems

-----------------------------------------------------------------------------
(* The lists of waiting threads and the base priorities, which the core    *)
(* leaves alone.                                                           *)
Fields == {"kstate", "curr", "next", "state", "prio", "base", "delay",
           "ret", "ready", "objq", "dlist", "wait"}
Frame(q, r) ==
  r.objq = q.objq /\ r.base = q.base /\ DOMAIN r = DOMAIN q

LEMMA KernelFields ==
  ASSUME NEW q \in KernelType
  PROVE  DOMAIN q = Fields
BY DEF KernelType, Fields

LEMMA FrameSteps ==
  ASSUME NEW q, DOMAIN q = Fields, NEW t
  PROVE  /\ Frame(q, ReadyPut(q, t)) /\ Frame(q, Block(q, t))
         /\ Frame(q, Switch(q, t)) /\ Frame(q, DelayRemove(q, t))
         /\ Frame(q, [q EXCEPT !.ready = Tail(@)])
         /\ Frame(q, Return(q)) /\ Frame(q, DelayCount(q))
         /\ \A d : Frame(q, DelayInsert(q, t, d))
         /\ \A st : Frame(q, [q EXCEPT !.state[t] = st])
         /\ \A r : Frame(q, [q EXCEPT !.ret[t] = r])
<1>1. Frame(q, ReadyPut(q, t))
  BY DEF Frame, Fields, ReadyPut
<1>2. Frame(q, Block(q, t))
  BY DEF Frame, Fields, Block
<1>3. Frame(q, Switch(q, t)) /\ Frame(q, Return(q))
  BY DEF Frame, Fields, Switch, Return
<1>4. Frame(q, DelayRemove(q, t))
  BY DEF Frame, Fields, DelayRemove
<1>5. Frame(q, [q EXCEPT !.ready = Tail(@)])
  BY DEF Frame, Fields
<1>6. Frame(q, DelayCount(q))
  BY DEF Frame, Fields, DelayCount
<1>7. ASSUME NEW d PROVE Frame(q, DelayInsert(q, t, d))
  BY DEF Frame, Fields, DelayInsert
<1>8. ASSUME NEW st PROVE Frame(q, [q EXCEPT !.state[t] = st])
  BY DEF Frame, Fields
<1>9. ASSUME NEW r PROVE Frame(q, [q EXCEPT !.ret[t] = r])
  BY DEF Frame, Fields
<1>10. QED
  BY <1>1, <1>2, <1>3, <1>4, <1>5, <1>6, <1>7, <1>8, <1>9

(* ... and what is put together from these steps *)
LEMMA FrameCalls ==
  ASSUME NEW q, DOMAIN q = Fields, NEW t, NEW r
  PROVE  /\ Frame(q, SwitchToReady(q)) /\ Frame(q, DispatchReady(q))
         /\ Frame(q, Dispatch(q, t)) /\ Frame(q, WaitExitReady(q, t, r))
         /\ \A st, d : Frame(q, WaitEnter(q, st, d, r))
<1>1. \A a, b, c : Frame(a, b) /\ Frame(b, c) => Frame(a, c)
  BY DEF Frame
<1>2. \A a : Frame(q, a) => DOMAIN a = Fields
  BY DEF Frame
<1>3. Frame(q, SwitchToReady(q))
  BY <1>1, <1>2, FrameSteps DEF SwitchToReady
<1>4. Frame(q, DispatchReady(q))
  <2> DEFINE m == [q EXCEPT !.ready = Tail(@)]
             b == Block(m, q.curr)
  <2>1. Frame(q, q)
    BY DEF Frame
  <2>2. Frame(q, m)
    BY FrameSteps
  <2>3. Frame(q, b)
    <3> HIDE DEF m
    <3>1. QED
      BY <1>1, <1>2, <2>2, FrameSteps
  <2>4. Frame(q, Switch(b, Head(q.ready)))
    <3> HIDE DEF b
    <3>1. QED
      BY <1>1, <1>2, <2>3, FrameSteps
  <2>5. QED
    BY <2>1, <2>4 DEF DispatchReady
<1>5. Frame(q, Dispatch(q, t))
  <2> DEFINE b == Block(q, q.curr)
  <2>1. Frame(q, b) /\ Frame(q, ReadyPut(q, t))
    BY FrameSteps
  <2>2. Frame(q, Switch(b, t))
    <3> HIDE DEF b
    <3>1. QED
      BY <1>1, <1>2, <2>1, FrameSteps
  <2>3. QED
    BY <2>1, <2>2 DEF Dispatch
<1>6. Frame(q, WaitExitReady(q, t, r))
  <2> DEFINE m == [q EXCEPT !.ret[t] = r]
             b == DelayRemove(m, t)
  <2>1. Frame(q, m)
    BY FrameSteps
  <2>2. Frame(q, b)
    <3> HIDE DEF m
    <3>1. QED
      BY <1>1, <1>2, <2>1, FrameSteps
  <2>3. Frame(q, ReadyPut(b, t))
    <3> HIDE DEF b
    <3>1. QED
      BY <1>1, <1>2, <2>2, FrameSteps
  <2>4. QED
    BY <2>3 DEF WaitExitReady
<1>7. ASSUME NEW st, NEW d PROVE Frame(q, WaitEnter(q, st, d, r))
  <2> DEFINE m == [q EXCEPT !.state[q.curr] = st, !.ret[q.curr] = r]
             b == DelayInsert(m, q.curr, d)
             h == [b EXCEPT !.ready = Tail(@)]
  <2>1. Frame(q, m)
    BY DEF Frame, Fields
  <2>2. Frame(q, b)
    <3> HIDE DEF m
    <3>1. QED
      BY <1>1, <1>2, <2>1, FrameSteps
  <2>3. Frame(q, h)
    <3> HIDE DEF b
    <3>1. QED
      BY <1>1, <1>2, <2>2, FrameSteps
  <2>4. Frame(q, Switch(h, Head(b.ready)))
    <3> HIDE DEF h
    <3>1. QED
      BY <1>1, <1>2, <2>3, FrameSteps
  <2>5. QED
    BY <2>4 DEF WaitEnter, SwitchToReady
<1>8. QED
  BY <1>3, <1>4, <1>5, <1>6, <1>7

-----------------------------------------------------------------------------
(* The kernel value. *)

MutexStates == {"Inactive", "Ready", "Running", "WaitingMutex"}
PrioRange == 0 .. 56

(* The list of each mutex is a list of threads, highest priority first;    *)
(* the threads that wait are listed once, those of F, which a handler is   *)
(* moving, are not.                                                        *)
Queued(q, F) ==
  /\ \A x \in Mutexes : IsList(q.objq[x]) /\ Sorted(q.prio, q.objq[x])
  /\ \A t \in Threads :
       (\E x \in Mutexes : t \in ToSet(q.objq[x])) <=>
         q.state[t] = "WaitingMutex" /\ t \notin F
  /\ \A x, y \in Mutexes, t \in Threads :
       t \in ToSet(q.objq[x]) /\ t \in ToSet(q.objq[y]) => x = y

PriosOK(q) ==
  q.prio \in [Threads -> PrioRange] /\ q.base \in [Threads -> PrioRange]

Runs(q) ==
  /\ OneRuns(q) /\ q.next = q.curr /\ q.curr \in Threads
  /\ q.kstate = "Running" /\ q.state[Idle] \in Runnable
  /\ q.state \in [Threads -> MutexStates]

KernelOK(q, F) == Placed(q, F) /\ Queued(q, F) /\ PriosOK(q) /\ Runs(q)

LEMMA PlacedFields ==
  ASSUME NEW q, NEW F, Placed(q, F)
  PROVE  /\ q \in KernelType /\ DOMAIN q = Fields
         /\ q.prio \in [Threads -> Int] /\ q.base \in [Threads -> Int]
         /\ q.state \in [Threads -> ThreadStates]
         /\ q.objq \in [Objects -> Seq(Threads)] /\ q.ready \in Seq(Threads)
         /\ IsList(q.ready) /\ Sorted(q.prio, q.ready)
<1>1. q \in KernelType /\ ListsOK(q)
  BY DEF Placed
<1>2. DOMAIN q = Fields
  BY <1>1, KernelFields
<1>3. QED
  BY <1>1, <1>2 DEF KernelType, ListsOK

(* Fields that no list depends on. *)
LEMMA ObjqPlaced ==
  ASSUME NEW q, NEW F, Placed(q, F), NEW g \in [Objects -> Seq(Threads)],
         NEW r, r = [q EXCEPT !.objq = g]
  PROVE  /\ Placed(r, F) /\ Keeps(q, r) /\ SameStates(q, r)
         /\ SameDelays(q, r) /\ r.ready = q.ready /\ r.base = q.base
         /\ r.objq = g
<1>1. q \in KernelType
  BY DEF Placed
<1>2. r \in KernelType
  BY <1>1, FieldUpdates
<1>3. /\ Keeps(q, r) /\ SameStates(q, r) /\ SameDelays(q, r)
      /\ r.ready = q.ready /\ r.base = q.base /\ r.objq = g
  BY <1>1 DEF KernelType, Keeps, SameStates, SameDelays
<1>4. QED
  BY <1>2, <1>3
     DEF Placed, ListsOK, ThreadPlaced, Unlisted, Keeps, SameStates,
         SameDelays

LEMMA BasePlaced ==
  ASSUME NEW q, NEW F, Placed(q, F), NEW b \in [Threads -> Int],
         NEW r, r = [q EXCEPT !.base = b]
  PROVE  /\ Placed(r, F) /\ Keeps(q, r) /\ SameStates(q, r)
         /\ SameDelays(q, r) /\ r.ready = q.ready /\ r.objq = q.objq
         /\ r.base = b
<1>1. q \in KernelType
  BY DEF Placed
<1>2. r \in KernelType
  BY <1>1, FieldUpdates
<1>3. /\ Keeps(q, r) /\ SameStates(q, r) /\ SameDelays(q, r)
      /\ r.ready = q.ready /\ r.objq = q.objq /\ r.base = b
  BY <1>1 DEF KernelType, Keeps, SameStates, SameDelays
<1>4. QED
  BY <1>2, <1>3
     DEF Placed, ListsOK, ThreadPlaced, Unlisted, Keeps, SameStates,
         SameDelays

LEMMA ReturnPlaced ==
  ASSUME NEW q, NEW F, Placed(q, F), q.next \in Threads, NEW r, r = Return(q)
  PROVE  /\ Placed(r, F) /\ r.curr = q.next /\ r.kstate = q.kstate
         /\ r.prio = q.prio /\ SameStates(q, r)
         /\ SameDelays(q, r) /\ r.ready = q.ready /\ Frame(q, r)
<1>1. q \in KernelType
  BY DEF Placed
<1>2. r \in KernelType
  BY <1>1, FieldUpdates DEF Return
<1>3. /\ r.curr = q.next /\ r.kstate = q.kstate /\ r.prio = q.prio
      /\ SameStates(q, r) /\ SameDelays(q, r) /\ r.ready = q.ready
      /\ Frame(q, r)
  BY <1>1 DEF KernelType, Return, SameStates, SameDelays, Frame
<1>4. QED
  BY <1>2, <1>3
     DEF Placed, ListsOK, ThreadPlaced, Unlisted, SameStates, SameDelays

(* The waiting threads do not change. *)
LEMMA QueuedFrame ==
  ASSUME NEW q, NEW r, NEW F, NEW G, Queued(q, F),
         r.objq = q.objq, r.prio = q.prio,
         \A t \in Threads : (r.state[t] = "WaitingMutex" /\ t \notin G) <=>
                            (q.state[t] = "WaitingMutex" /\ t \notin F)
  PROVE  Queued(r, G)
BY DEF Queued

(* osRtxThreadDispatch(NULL) and the return to a thread *)
LEMMA Dispatched ==
  ASSUME NEW q, NEW F \in SUBSET Threads, KernelOK(q, F), q.curr \notin F,
         NEW r, r = Return(DispatchReady(q))
  PROVE  /\ KernelOK(r, F) /\ TopRuns(r) /\ Frame(q, r) /\ r.prio = q.prio
         /\ SameBlocked(q, r) /\ \A u \in F : r.state[u] = q.state[u]
         /\ HeadPositive(q) => HeadPositive(r)
<1> DEFINE d == DispatchReady(q)
<1>1. Placed(q, F) /\ Queued(q, F) /\ PriosOK(q) /\ Runs(q)
  BY DEF KernelOK
<1>2. /\ Placed(d, F) /\ OneRuns(d) /\ Keeps(q, d)
      /\ SameDelays(q, d) /\ SameBlocked(q, d)
      /\ \A u \in F : d.state[u] = q.state[u]
      /\ d.next \in Threads /\ TopRuns(d)
  BY <1>1, DispatchReadyPlaced DEF Runs
<1>3. Frame(q, d)
  BY <1>1, PlacedFields, FrameCalls
<1> HIDE DEF d
<1>4. /\ Placed(r, F) /\ r.curr = d.next /\ r.kstate = d.kstate
      /\ r.prio = d.prio /\ SameStates(d, r)
      /\ SameDelays(d, r) /\ r.ready = d.ready /\ Frame(d, r)
  BY <1>2, ReturnPlaced DEF d
<1>5. /\ r.state = d.state /\ r.next = d.next /\ r.prio = q.prio
      /\ Frame(q, r)
  BY <1>2, <1>3, <1>4 DEF Keeps, SameStates, Frame
<1>6. TopRuns(r) /\ OneRuns(r)
  BY <1>2, <1>4, <1>5 DEF TopRuns, OneRuns, Keeps
<1>7. SameBlocked(q, r) /\ \A u \in F : r.state[u] = q.state[u]
  BY <1>2, <1>5 DEF SameBlocked
<1>8. HeadPositive(q) => HeadPositive(r)
  BY <1>2, <1>4 DEF HeadPositive, SameDelays
<1>9. r.state \in [Threads -> MutexStates] /\ r.state[Idle] \in Runnable
  <2>1. r.state \in [Threads -> ThreadStates]
    BY <1>4, PlacedFields
  <2>2. \A u \in Threads : r.state[u] \in MutexStates
    BY <1>1, <1>7 DEF Runs, SameBlocked, Runnable, MutexStates
  <2>3. QED
    BY <1>1, <1>7, <2>1, <2>2, IdleIsThread DEF Runs, SameBlocked, Runnable
<1>10. Runs(r)
  BY <1>1, <1>2, <1>4, <1>5, <1>6, <1>9 DEF Runs, Keeps
<1>11. Queued(r, F)
  <2>1. \A t \in Threads : r.state[t] = "WaitingMutex" <=>
                           q.state[t] = "WaitingMutex"
    BY <1>7 DEF SameBlocked, Runnable
  <2>2. QED
    BY <1>1, <1>5, <2>1, QueuedFrame DEF Frame
<1>12. PriosOK(r)
  BY <1>1, <1>5 DEF PriosOK, Frame
<1>13. QED
  BY <1>4, <1>5, <1>6, <1>7, <1>8, <1>10, <1>11, <1>12 DEF KernelOK

(* The first thread waiting for a mutex is taken out of its list and       *)
(* becomes ready, as at every handover and in the loop of a deletion.      *)
Wakes(q, x, t, res, r) ==
  /\ q.objq[x] # <<>> /\ t = Head(q.objq[x])
  /\ r = WaitExitReady(Dequeue(q, x), t, res)

LEMMA Woken ==
  ASSUME NEW q, NEW F \in SUBSET Threads, KernelOK(q, F), NEW x \in Mutexes,
         NEW res \in Results, NEW t, NEW r, Wakes(q, x, t, res, r)
  PROVE  /\ t \in Threads \ F /\ q.state[t] = "WaitingMutex"
         /\ t \in ToSet(q.objq[x])
         /\ \A u \in ToSet(q.objq[x]) : q.prio[u] <= q.prio[t]
         /\ KernelOK(r, F) /\ r.prio = q.prio /\ r.base = q.base
         /\ r.curr = q.curr
         /\ \A u \in Threads :
              r.state[u] = IF u = t THEN "Ready" ELSE q.state[u]
         /\ ToSet(r.objq[x]) = ToSet(q.objq[x]) \ {t}
         /\ \A y \in Mutexes \ {x} : ToSet(r.objq[y]) = ToSet(q.objq[y])
         /\ HeadPositive(q) => HeadPositive(r)
<1> DEFINE m == Dequeue(q, x)
           g == [q.objq EXCEPT ![x] = Tail(@)]
<1> /\ q.objq[x] # <<>> /\ t = Head(q.objq[x])
    /\ r = WaitExitReady(Dequeue(q, x), t, res)
  BY DEF Wakes
<1>1. Placed(q, F) /\ Queued(q, F) /\ PriosOK(q) /\ Runs(q)
  BY DEF KernelOK
<1>2. /\ q.objq \in [Objects -> Seq(Threads)] /\ q.prio \in [Threads -> Int]
      /\ q.state \in [Threads -> ThreadStates]
  BY <1>1, PlacedFields
<1>3. IsList(q.objq[x]) /\ Sorted(q.prio, q.objq[x])
  BY <1>1 DEF Queued
<1>4. /\ t \in Threads /\ t \in ToSet(q.objq[x])
      /\ IsList(Tail(q.objq[x])) /\ Sorted(q.prio, Tail(q.objq[x]))
      /\ ToSet(Tail(q.objq[x])) = ToSet(q.objq[x]) \ {t}
      /\ \A u \in ToSet(q.objq[x]) : q.prio[u] <= q.prio[t]
  BY <1>2, <1>3, TailList
<1>5. t \notin F /\ q.state[t] = "WaitingMutex"
  BY <1>1, <1>4 DEF Queued
<1>6. g \in [Objects -> Seq(Threads)] /\ g[x] = Tail(q.objq[x])
  BY <1>2, <1>4 DEF IsList, Mutexes
<1>7. m = [q EXCEPT !.objq = g]
  BY DEF Dequeue
<1> HIDE DEF m, g
<1>8. /\ Placed(m, F) /\ Keeps(q, m) /\ SameStates(q, m)
      /\ SameDelays(q, m) /\ m.ready = q.ready /\ m.base = q.base
      /\ m.objq = g
  BY <1>1, <1>6, <1>7, ObjqPlaced
<1>9. m.state[t] \in BlockedStates
  BY <1>5, <1>8 DEF SameStates, BlockedStates, WaitStates
<1>10. /\ Placed(r, F) /\ Keeps(m, r) /\ r.next = m.next
       /\ r.state = [m.state EXCEPT ![t] = "Ready"]
       /\ HeadPositive(m) => HeadPositive(r)
  BY <1>4, <1>5, <1>8, <1>9, WaitExitReadyPlaced, SMTT(60) DEF m
<1>11. Frame(m, r)
  BY <1>8, PlacedFields, FrameCalls DEF m
<1>12. /\ r.prio = q.prio /\ r.base = q.base /\ r.curr = q.curr
       /\ r.kstate = q.kstate /\ r.next = q.next /\ r.objq = g
       /\ r.state = [q.state EXCEPT ![t] = "Ready"]
  BY <1>8, <1>10, <1>11 DEF Keeps, SameStates, Frame
<1>13. HeadPositive(q) => HeadPositive(r)
  BY <1>8, <1>10 DEF HeadPositive, SameDelays
<1>14. PriosOK(r)
  BY <1>1, <1>12 DEF PriosOK
<1>15. Runs(r)
  <2>1. r.state \in [Threads -> MutexStates] /\ q.state[t] # "Running"
    BY <1>1, <1>5, <1>12 DEF Runs, MutexStates
  <2>2. OneRuns(r)
    <3>1. \A u \in Threads : r.state[u] = IF u = t THEN "Ready" ELSE q.state[u]
      BY <1>2, <1>12
    <3>2. \A u \in Threads : q.state[u] = "Running" <=> u = q.next
      BY <1>1 DEF Runs, OneRuns
    <3>3. QED
      BY <1>12, <2>1, <3>1, <3>2 DEF OneRuns
  <2>3. r.state[Idle] \in Runnable
    BY <1>1, <1>2, <1>12, IdleIsThread DEF Runs, Runnable
  <2>4. QED
    BY <1>1, <1>12, <2>1, <2>2, <2>3 DEF Runs
<1>16. Queued(r, F)
  <2>1. \A y \in Mutexes : g[y] = IF y = x THEN Tail(q.objq[x]) ELSE q.objq[y]
    BY <1>2 DEF g, Mutexes
  <2>2. \A y \in Mutexes : IsList(g[y]) /\ Sorted(q.prio, g[y])
    BY <1>1, <1>4, <2>1 DEF Queued
  <2>3. \A y \in Mutexes, u \in Threads :
          u \in ToSet(g[y]) <=> u \in ToSet(q.objq[y]) /\ u # t
    BY <1>1, <1>4, <2>1 DEF Queued
  <2>4. \A u \in Threads :
          (\E y \in Mutexes : u \in ToSet(g[y])) <=>
            r.state[u] = "WaitingMutex" /\ u \notin F
    BY <1>1, <1>2, <1>12, <2>3 DEF Queued
  <2>5. \A y, z \in Mutexes, u \in Threads :
          u \in ToSet(g[y]) /\ u \in ToSet(g[z]) => y = z
    BY <1>1, <2>3 DEF Queued
  <2>6. QED
    BY <1>12, <2>2, <2>4, <2>5 DEF Queued
<1>17. \A y \in Mutexes : ToSet(r.objq[y]) =
         IF y = x THEN ToSet(q.objq[y]) \ {t} ELSE ToSet(q.objq[y])
  BY <1>2, <1>4, <1>12 DEF g, Mutexes
<1>18. \A u \in Threads : r.state[u] = IF u = t THEN "Ready" ELSE q.state[u]
  BY <1>2, <1>12
<1>19. QED
  BY <1>4, <1>5, <1>10, <1>12, <1>13, <1>14, <1>15, <1>16, <1>17, <1>18
     DEF KernelOK

-----------------------------------------------------------------------------
(* Changes of priority. *)

Reprio(q, t, p, b) == [q EXCEPT !.prio[t] = p, !.base = b]

(* A new priority of a thread, with a new base priority or the old one,    *)
(* and osRtxThreadListSort. *)
LEMMA Resorted ==
  ASSUME NEW q, NEW F, KernelOK(q, F), NEW t \in Threads, NEW p \in PrioRange,
         NEW b \in [Threads -> PrioRange],
         NEW r, r = ListSort(Reprio(q, t, p, b), t)
  PROVE  /\ KernelOK(r, F) /\ r.prio = [q.prio EXCEPT ![t] = p]
         /\ r.base = b /\ r.curr = q.curr /\ r.state = q.state
         /\ \A x \in Mutexes : ToSet(r.objq[x]) = ToSet(q.objq[x])
         /\ HeadPositive(q) => HeadPositive(r)
<1> DEFINE new == [q.prio EXCEPT ![t] = p]
           s == ListSort(SetPrio(q, t, p), t)
           g == [o \in Objects |-> Resort(new, q.objq[o], t)]
<1>1. Placed(q, F) /\ Queued(q, F) /\ PriosOK(q) /\ Runs(q)
  BY DEF KernelOK
<1>2. /\ q \in KernelType /\ q.objq \in [Objects -> Seq(Threads)]
      /\ q.prio \in [Threads -> Int] /\ p \in Int /\ b \in [Threads -> Int]
      /\ DOMAIN q = Fields
  <2>1. p \in Int /\ \A u \in Threads : b[u] \in Int
    BY DEF PrioRange
  <2>2. QED
    BY <1>1, <2>1, PlacedFields
<1>3. Placed(s, F) /\ SameStates(q, s) /\ SameDelays(q, s)
      /\ s.kstate = q.kstate /\ s.curr = q.curr
  BY <1>1, <1>2, ListSortPlaced
<1>4. /\ s.prio = new /\ s.objq = g
      /\ r = [s EXCEPT !.base = b]
  <2>1. DOMAIN q = {"kstate", "curr", "next", "state", "prio", "base",
                    "delay", "ret", "ready", "objq", "dlist", "wait"}
    BY <1>2 DEF Fields
  <2>2. s.prio = new
    BY <2>1 DEF ListSort, SetPrio
  <2>3. s.objq = g
    BY <2>1 DEF ListSort, SetPrio
  <2>4. r = [s EXCEPT !.base = b]
    BY <2>1 DEF ListSort, SetPrio, Reprio
  <2>5. QED
    BY <2>2, <2>3, <2>4
<1> HIDE DEF s, new, g
<1>5. /\ Placed(r, F) /\ Keeps(s, r) /\ SameStates(s, r)
      /\ SameDelays(s, r) /\ r.objq = s.objq /\ r.base = b
  BY <1>2, <1>3, <1>4, BasePlaced
<1>6. /\ r.prio = new /\ r.curr = q.curr /\ r.state = q.state
      /\ r.objq = g /\ r.next = q.next /\ r.kstate = q.kstate
  BY <1>3, <1>4, <1>5 DEF Keeps, SameStates
<1>7. new \in [Threads -> PrioRange]
  BY <1>1 DEF new, PriosOK
<1>8. HeadPositive(q) => HeadPositive(r)
  BY <1>3, <1>5 DEF HeadPositive, SameDelays
<1>9. \A x \in Mutexes : /\ IsList(g[x]) /\ Sorted(new, g[x])
                         /\ ToSet(g[x]) = ToSet(q.objq[x])
  <2> SUFFICES ASSUME NEW x \in Mutexes
               PROVE  /\ IsList(g[x]) /\ Sorted(new, g[x])
                      /\ ToSet(g[x]) = ToSet(q.objq[x])
    OBVIOUS
  <2>1. g[x] = Resort(new, q.objq[x], t)
    BY DEF g, Mutexes
  <2>2. IsList(q.objq[x]) /\ Sorted(q.prio, q.objq[x])
    BY <1>1 DEF Queued
  <2>3. new = [q.prio EXCEPT ![t] = p]
    BY DEF new
  <2>4. QED
    BY <1>2, <2>1, <2>2, <2>3, ResortSorted
<1>10. Queued(r, F)
  BY <1>1, <1>6, <1>9 DEF Queued
<1>11. Runs(r)
  BY <1>1, <1>6 DEF Runs, OneRuns
<1>12. PriosOK(r)
  BY <1>5, <1>6, <1>7 DEF PriosOK
<1>13. QED
  BY <1>5, <1>6, <1>8, <1>9, <1>10, <1>11, <1>12 DEF KernelOK, new

(* The running thread, which is in no list, takes a new priority. *)
Lowers(q, p, r) == r = [q EXCEPT !.prio[q.curr] = p]

LEMMA Lowered ==
  ASSUME NEW q, KernelOK(q, {}), NEW p \in PrioRange,
         NEW r, Lowers(q, p, r)
  PROVE  /\ KernelOK(r, {}) /\ r.prio = [q.prio EXCEPT ![q.curr] = p]
         /\ r.base = q.base /\ r.curr = q.curr /\ r.state = q.state
         /\ r.objq = q.objq
         /\ HeadPositive(q) => HeadPositive(r)
<1> DEFINE c == q.curr
           new == [q.prio EXCEPT ![c] = p]
<1>1. Placed(q, {}) /\ Queued(q, {}) /\ PriosOK(q) /\ Runs(q)
  BY DEF KernelOK
<1>2. /\ q \in KernelType /\ q.prio \in [Threads -> Int] /\ c \in Threads
      /\ IsList(q.ready) /\ Sorted(q.prio, q.ready)
  BY <1>1, PlacedFields DEF Runs
<1>3. p \in Int
  BY DEF PrioRange
<1>4. new \in [Threads -> Int] /\ \A u \in Threads \ {c} : new[u] = q.prio[u]
  BY <1>2, <1>3
<1>5. r = [q EXCEPT !.prio = new]
  BY DEF Lowers
<1>6. new \in [Threads -> PrioRange]
  BY <1>1 DEF PriosOK
<1> HIDE DEF new, c
<1>7. r \in KernelType
  BY <1>2, <1>4, <1>5, FieldUpdates
<1>8. /\ r.prio = new /\ r.curr = c /\ r.base = q.base /\ r.state = q.state
      /\ r.objq = q.objq /\ r.next = q.next /\ r.kstate = q.kstate
      /\ r.ready = q.ready /\ SameDelays(q, r)
  BY <1>2, <1>5 DEF KernelType, SameDelays, c
<1>9. q.state[c] = "Running"
  BY <1>1, <1>2 DEF Runs, OneRuns, c
<1>10. \A s : IsList(s) /\ c \notin ToSet(s) /\ Sorted(q.prio, s) =>
         Sorted(new, s)
  <2> SUFFICES ASSUME NEW s, IsList(s), c \notin ToSet(s), Sorted(q.prio, s)
               PROVE  Sorted(new, s)
    OBVIOUS
  <2>1. \A i \in DOMAIN s : s[i] \in Threads /\ s[i] # c
    BY DEF IsList, ToSet
  <2>2. QED
    BY <1>4, <2>1 DEF Sorted
<1>11. c \notin ToSet(q.ready)
  BY <1>1, <1>2, <1>9 DEF Placed, ThreadPlaced
<1>12. Placed(r, {})
  <2>1. Sorted(new, q.ready)
    BY <1>2, <1>10, <1>11
  <2>2. ListsOK(r)
    BY <1>1, <1>8, <2>1 DEF Placed, ListsOK, SameDelays
  <2>3. QED
    BY <1>1, <1>7, <1>8, <2>2 DEF Placed, ThreadPlaced, SameDelays
<1>13. Queued(r, {})
  <2>1. \A x \in Mutexes : c \notin ToSet(q.objq[x])
    BY <1>1, <1>2, <1>9 DEF Queued
  <2>2. \A x \in Mutexes : IsList(q.objq[x]) /\ Sorted(new, q.objq[x])
    BY <1>1, <1>10, <2>1 DEF Queued
  <2>3. QED
    BY <1>1, <1>8, <2>2 DEF Queued
<1>14. Runs(r)
  BY <1>1, <1>8 DEF Runs, OneRuns, c
<1>15. PriosOK(r)
  BY <1>1, <1>6, <1>8 DEF PriosOK
<1>16. HeadPositive(q) => HeadPositive(r)
  BY <1>8 DEF HeadPositive, SameDelays
<1>17. QED
  BY <1>8, <1>12, <1>13, <1>14, <1>15, <1>16 DEF KernelOK, new, c

-----------------------------------------------------------------------------
(* Waiting for a mutex. *)

(* As long as a thread other than the idle thread runs, that one is ready. *)
LEMMA IdleReady ==
  ASSUME NEW q, NEW F, KernelOK(q, F), Idle \notin F, q.curr # Idle
  PROVE  q.ready # <<>> /\ CanWait(q)
<1>1. Placed(q, F) /\ Runs(q) /\ q.ready \in Seq(Threads)
  BY PlacedFields DEF KernelOK
<1>2. q.state[Idle] = "Ready"
  BY <1>1, IdleIsThread DEF Runs, OneRuns, Runnable
<1>3. Idle \in ToSet(q.ready)
  BY <1>1, <1>2, IdleIsThread DEF Placed, ThreadPlaced
<1>4. q.ready # <<>>
  BY <1>1, <1>3 DEF ToSet
<1>5. QED
  BY <1>1, <1>4, NoThreadNotThread DEF CanWait, Runs

(* The running thread waits for mutex x, and another one runs. *)
LEMMA Waits ==
  ASSUME NEW q, KernelOK(q, {}), q.curr # Idle, NEW x \in Mutexes,
         NEW d, d = Forever \/ d \in Nat \ {0},
         NEW c, c = q.curr,
         NEW r, r = Return(Enqueue(WaitEnter(q, "WaitingMutex", d,
                                             "osErrorTimeout"), x, c))
  PROVE  /\ KernelOK(r, {}) /\ TopRuns(r)
         /\ r.prio = q.prio /\ r.base = q.base
         /\ r.state[c] = "WaitingMutex"
         /\ \A u \in Threads \ {c} :
              \/ r.state[u] = q.state[u]
              \/ r.state[u] \in Runnable /\ q.state[u] \in Runnable
         /\ \A y \in Mutexes : ToSet(r.objq[y]) =
              IF y = x THEN ToSet(q.objq[y]) \cup {c} ELSE ToSet(q.objq[y])
         /\ HeadPositive(q) => HeadPositive(r)
<1> DEFINE w == WaitEnter(q, "WaitingMutex", d, "osErrorTimeout")
           h == Head(q.ready)
           put == ListPut(w.prio, w.objq[x], c)
           g == [w.objq EXCEPT ![x] = put]
           e == Enqueue(w, x, c)
<1>1. /\ Placed(q, {}) /\ Queued(q, {}) /\ PriosOK(q) /\ Runs(q)
      /\ OneRuns(q) /\ q.next = q.curr /\ CanWait(q) /\ c \in Threads
  BY IdleReady DEF KernelOK, Runs
<1>2. /\ q.objq \in [Objects -> Seq(Threads)] /\ q.prio \in [Threads -> Int]
      /\ q.state \in [Threads -> ThreadStates] /\ DOMAIN q = Fields
  BY <1>1, PlacedFields
<1>3. /\ h \in Threads /\ c # h /\ q.state[h] = "Ready"
      /\ Placed(w, {}) /\ OneRuns(w) /\ Keeps(q, w) /\ TopRuns(w)
      /\ w.next \in Threads
      /\ StateSwap(q, w, c, "WaitingMutex", h)
      /\ HeadPositive(q) => HeadPositive(w)
  <2>1. "WaitingMutex" \in WaitStates /\ "osErrorTimeout" \in Results
    BY DEF WaitStates, Results
  <2>2. QED
    BY <1>1, <2>1, WaitEnterPlaced
<1>4. Frame(q, w)
  BY <1>2, FrameCalls
<1>5. e = [w EXCEPT !.objq = g]
  BY DEF Enqueue
<1> HIDE DEF w, h, e
<1>6. w.objq = q.objq /\ w.prio = q.prio /\ w.base = q.base
  BY <1>3, <1>4 DEF Frame, Keeps
<1>7. q.state[c] = "Running" /\ \A y \in Mutexes : c \notin ToSet(q.objq[y])
  BY <1>1 DEF OneRuns, Queued
<1>8. /\ IsList(put) /\ Sorted(q.prio, put)
      /\ ToSet(put) = ToSet(q.objq[x]) \cup {c}
  <2> DEFINE s == q.objq[x]
             prio == q.prio
  <2>1. IsList(s) /\ Sorted(prio, s) /\ c \notin ToSet(s)
    BY <1>1, <1>7 DEF Queued
  <2>2. put = InsertAt(s, PutPos(prio, s, c), c)
    BY <1>6 DEF ListPut
  <2>3. prio \in [Threads -> Int] /\ c \in Threads
    BY <1>1, <1>2
  <2> HIDE DEF put, s, prio
  <2>4. /\ IsList(put) /\ Sorted(prio, put) /\ ToSet(put) = ToSet(s) \cup {c}
    BY <2>1, <2>2, <2>3, ListPutSorted
  <2>5. QED
    BY <2>4 DEF s, prio
<1> HIDE DEF put
<1>9. g \in [Objects -> Seq(Threads)]
  BY <1>2, <1>6, <1>8 DEF IsList
<1>10. \A y \in Mutexes : g[y] = IF y = x THEN put ELSE q.objq[y]
  BY <1>2, <1>6 DEF Mutexes
<1> HIDE DEF g
<1>11. /\ Placed(e, {}) /\ Keeps(w, e) /\ SameStates(w, e)
       /\ SameDelays(w, e) /\ e.ready = w.ready /\ e.base = w.base
       /\ e.objq = g
  BY <1>3, <1>5, <1>9, ObjqPlaced
<1>12. /\ Placed(r, {}) /\ r.curr = e.next /\ r.kstate = e.kstate
       /\ r.prio = e.prio /\ SameStates(e, r)
       /\ SameDelays(e, r) /\ r.ready = e.ready /\ Frame(e, r)
  <2>1. r = Return(e) /\ e.next \in Threads
    BY <1>3, <1>11 DEF e, w, SameStates
  <2>2. QED
    BY <1>11, <2>1, ReturnPlaced
<1>13. /\ r.prio = q.prio /\ r.base = q.base /\ r.objq = g
       /\ r.state = w.state /\ r.next = w.next /\ r.curr = w.next
       /\ r.kstate = q.kstate
  BY <1>3, <1>6, <1>11, <1>12 DEF Keeps, SameStates, Frame
<1>14. /\ r.state[c] = "WaitingMutex"
       /\ \A u \in Threads \ {c} :
            r.state[u] = IF u = h THEN "Running" ELSE q.state[u]
  BY <1>1, <1>2, <1>3, <1>13 DEF StateSwap
<1>15. \A u \in Threads \ {c} :
         \/ r.state[u] = q.state[u]
         \/ r.state[u] \in Runnable /\ q.state[u] \in Runnable
  BY <1>3, <1>14 DEF Runnable
<1>16. TopRuns(r) /\ OneRuns(r)
  <2>1. r.ready = w.ready
    BY <1>11, <1>12
  <2>2. QED
    BY <1>3, <1>6, <1>13, <2>1 DEF TopRuns, OneRuns
<1>17. Runs(r)
  <2>1. r.state \in [Threads -> MutexStates]
    <3>1. r.state \in [Threads -> ThreadStates]
      BY <1>12, PlacedFields
    <3>2. \A u \in Threads : r.state[u] \in MutexStates
      BY <1>1, <1>14 DEF Runs, MutexStates
    <3>3. QED
      BY <3>1, <3>2
  <2>2. r.state[Idle] \in Runnable
    BY <1>1, <1>14, IdleIsThread DEF Runs, Runnable
  <2>3. QED
    BY <1>1, <1>3, <1>13, <1>16, <2>1, <2>2 DEF Runs
<1>18. Queued(r, {})
  <2>1. \A y \in Mutexes : IsList(g[y]) /\ Sorted(q.prio, g[y])
    BY <1>1, <1>8, <1>10 DEF Queued
  <2>2. \A y \in Mutexes, u \in Threads :
          u \in ToSet(g[y]) <=> u \in ToSet(q.objq[y]) \/ (u = c /\ y = x)
    BY <1>8, <1>10
  <2>3. \A u \in Threads : (\E y \in Mutexes : u \in ToSet(g[y])) <=>
                             r.state[u] = "WaitingMutex"
    BY <1>1, <1>14, <1>15, <2>2 DEF Queued, Runnable
  <2>4. \A y, z \in Mutexes, u \in Threads :
          u \in ToSet(g[y]) /\ u \in ToSet(g[z]) => y = z
    BY <1>1, <1>7, <2>2 DEF Queued
  <2>5. QED
    BY <1>13, <2>1, <2>3, <2>4 DEF Queued
<1>19. HeadPositive(q) => HeadPositive(r)
  BY <1>3, <1>11, <1>12 DEF HeadPositive, SameDelays
<1>20. PriosOK(r)
  BY <1>1, <1>13 DEF PriosOK
<1>21. \A y \in Mutexes : ToSet(r.objq[y]) =
         IF y = x THEN ToSet(q.objq[y]) \cup {c} ELSE ToSet(q.objq[y])
  BY <1>8, <1>10, <1>13
<1>22. QED
  BY <1>12, <1>13, <1>14, <1>15, <1>16, <1>17, <1>18, <1>19, <1>20, <1>21
     DEF KernelOK

-----------------------------------------------------------------------------
(* The end of a thread. *)

(* A thread is taken out of the ready list, of the list of the mutex it    *)
(* waits for and of the delay list.                                        *)
Unlinks(q, t, k1, r) ==
  /\ k1 = ListRemove(q, t)
  /\ r = IF q.state[t] \in BlockedStates THEN DelayRemove(k1, t) ELSE k1

LEMMA Unlinked ==
  ASSUME NEW q, KernelOK(q, {}), NEW t \in Threads, q.state[t] # "Inactive",
         NEW k1, NEW r, Unlinks(q, t, k1, r)
  PROVE  /\ KernelOK(r, {t}) /\ r.prio = q.prio /\ r.base = q.base
         /\ r.curr = q.curr /\ r.state = q.state
         /\ \A x \in Mutexes : ToSet(r.objq[x]) = ToSet(q.objq[x]) \ {t}
         /\ HeadPositive(q) => HeadPositive(r)
<1> DEFINE g == [o \in Objects |-> Unlink(q.objq[o], t)]
<1> /\ k1 = ListRemove(q, t)
    /\ r = IF q.state[t] \in BlockedStates THEN DelayRemove(k1, t) ELSE k1
  BY DEF Unlinks
<1>1. /\ Placed(q, {}) /\ Queued(q, {}) /\ PriosOK(q) /\ Runs(q)
      /\ q.state[t] \in {"Ready", "Running", "WaitingMutex"}
  BY DEF KernelOK, Runs, MutexStates
<1>2. /\ q.objq \in [Objects -> Seq(Threads)] /\ q.prio \in [Threads -> Int]
      /\ DOMAIN q = Fields
  BY <1>1, PlacedFields
<1>3. /\ Placed(k1, IF q.state[t] = "Ready" THEN {t} ELSE {})
      /\ Keeps(q, k1) /\ SameStates(q, k1) /\ SameDelays(q, k1)
  <2> DEFINE F == {}
  <2>1. t \notin F /\ Placed(q, F) /\ F \cup {t} = {t}
    BY <1>1
  <2> HIDE DEF F
  <2>2. /\ Placed(k1, IF q.state[t] = "Ready" THEN F \cup {t} ELSE F)
        /\ Keeps(q, k1) /\ SameStates(q, k1) /\ SameDelays(q, k1)
    BY <2>1, ListRemovePlaced
  <2>3. QED
    BY <2>1, <2>2 DEF F
<1>4. k1.objq = g /\ k1.base = q.base
  BY <1>2 DEF ListRemove, Fields
<1> HIDE DEF g
<1>5. /\ Placed(r, {t}) /\ Keeps(q, r) /\ SameStates(q, r)
      /\ r.objq = g /\ r.base = q.base
      /\ HeadPositive(q) => HeadPositive(r)
  <2>1. CASE q.state[t] \in {"Ready", "Running"}
    <3>1. r = k1
      BY <2>1 DEF BlockedStates, WaitStates
    <3>2. Placed(r, {t})
      BY <1>3, <2>1, <3>1, FloatPlaced DEF SameStates
    <3>3. QED
      BY <1>3, <1>4, <3>1, <3>2 DEF HeadPositive, SameDelays
  <2>2. CASE q.state[t] = "WaitingMutex"
    <3>1. r = DelayRemove(k1, t) /\ k1.state[t] \in BlockedStates
      BY <1>3, <2>2 DEF BlockedStates, WaitStates, SameStates
    <3>2. /\ Placed(r, {t}) /\ Keeps(k1, r) /\ r.next = k1.next
          /\ r.state = k1.state
          /\ HeadPositive(k1) => HeadPositive(r)
      <4> DEFINE F == {}
      <4>1. t \notin F /\ F \cup {t} = {t} /\ Placed(k1, F)
        BY <1>3, <2>2
      <4> HIDE DEF F
      <4>2. QED
        BY <3>1, <4>1, DelayRemovePlaced
    <3>3. Frame(k1, r)
      BY <1>3, <3>1, PlacedFields, FrameSteps
    <3>4. QED
      BY <1>3, <1>4, <3>2, <3>3
         DEF Frame, Keeps, SameStates, HeadPositive, SameDelays
  <2>3. QED
    BY <1>1, <2>1, <2>2
<1>6. \A x \in Mutexes : /\ IsList(g[x]) /\ Sorted(q.prio, g[x])
                         /\ ToSet(g[x]) = ToSet(q.objq[x]) \ {t}
  <2> SUFFICES ASSUME NEW x \in Mutexes
               PROVE  /\ IsList(g[x]) /\ Sorted(q.prio, g[x])
                      /\ ToSet(g[x]) = ToSet(q.objq[x]) \ {t}
    OBVIOUS
  <2>1. g[x] = Unlink(q.objq[x], t)
    BY DEF g, Mutexes
  <2>2. IsList(q.objq[x]) /\ Sorted(q.prio, q.objq[x])
    BY <1>1 DEF Queued
  <2>3. QED
    BY <1>2, <2>1, <2>2, UnlinkList
<1>7. Queued(r, {t})
  <2>1. \A x \in Mutexes, u \in Threads :
          u \in ToSet(g[x]) <=> u \in ToSet(q.objq[x]) /\ u # t
    BY <1>6
  <2>2. \A u \in Threads : (\E x \in Mutexes : u \in ToSet(g[x])) <=>
                             r.state[u] = "WaitingMutex" /\ u \notin {t}
    BY <1>1, <1>5, <2>1 DEF Queued, SameStates
  <2>3. \A x, y \in Mutexes, u \in Threads :
          u \in ToSet(g[x]) /\ u \in ToSet(g[y]) => x = y
    BY <1>1, <2>1 DEF Queued
  <2>4. QED
    BY <1>5, <1>6, <2>2, <2>3 DEF Queued, Keeps
<1>8. Runs(r) /\ PriosOK(r)
  BY <1>1, <1>5 DEF Runs, OneRuns, PriosOK, Keeps, SameStates
<1>9. QED
  BY <1>5, <1>6, <1>7, <1>8 DEF KernelOK, Keeps, SameStates

(* Another thread is switched to or dispatched, and the control block      *)
(* freed.                                                                  *)
Ends(q, t, k1, r) ==
  /\ k1 = IF t = q.curr THEN SwitchToReady(q) ELSE DispatchReady(q)
  /\ r = [Return(k1) EXCEPT !.state[t] = "Inactive"]

LEMMA Ended ==
  ASSUME NEW q, NEW t \in User, KernelOK(q, {t}), q.state[t] # "Inactive",
         NEW k1, NEW r, Ends(q, t, k1, r)
  PROVE  /\ KernelOK(r, {}) /\ TopRuns(r) /\ Frame(q, r) /\ r.prio = q.prio
         /\ r.state[t] = "Inactive"
         /\ \A u \in Threads \ {t} :
              \/ r.state[u] = q.state[u]
              \/ r.state[u] \in Runnable /\ q.state[u] \in Runnable
         /\ HeadPositive(q) => HeadPositive(r)
<1> DEFINE m == Return(k1)
<1> /\ k1 = IF t = q.curr THEN SwitchToReady(q) ELSE DispatchReady(q)
    /\ r = [Return(k1) EXCEPT !.state[t] = "Inactive"]
  BY DEF Ends
<1>1. /\ Placed(q, {t}) /\ Queued(q, {t}) /\ PriosOK(q) /\ Runs(q)
      /\ OneRuns(q) /\ q.next = q.curr /\ t \in Threads /\ t # Idle
      /\ q.curr \in Threads /\ q.kstate = "Running"
  BY DEF KernelOK, Runs, User
<1>2. q.state \in [Threads -> ThreadStates] /\ DOMAIN q = Fields
  BY <1>1, PlacedFields
<1>3. /\ Placed(m, {t}) /\ m.curr = m.next /\ m.next \in Threads \ {t}
      /\ TopRuns(m) /\ Frame(q, m) /\ m.prio = q.prio /\ m.kstate = q.kstate
      /\ \A u \in Threads \ {t} :
           /\ \/ m.state[u] = q.state[u]
              \/ m.state[u] \in Runnable /\ q.state[u] \in Runnable
           /\ m.state[u] = "Running" <=> u = m.next
      /\ HeadPositive(q) => HeadPositive(m)
  <2>1. CASE t = q.curr
    <3> DEFINE h == Head(q.ready)
    <3>1. q.ready # <<>>
      BY <1>1, <2>1, IdleReady
    <3>2. k1 = SwitchToReady(q) /\ Frame(q, k1)
      BY <1>2, <2>1, FrameCalls
    <3>3. /\ h \in Threads \ {t} /\ q.state[h] = "Ready"
          /\ Placed(k1, {t}) /\ Keeps(q, k1) /\ k1.next = h
          /\ SameDelays(q, k1)
          /\ k1.state = [q.state EXCEPT ![h] = "Running"]
          /\ TopRuns(k1)
      BY <1>1, <3>1, <3>2, SwitchToReadyPlaced
    <3> HIDE DEF h, m
    <3>4. /\ Placed(m, {t}) /\ m.curr = h /\ m.kstate = k1.kstate
          /\ m.prio = k1.prio /\ SameStates(k1, m) /\ SameDelays(k1, m)
          /\ m.ready = k1.ready /\ Frame(k1, m)
      BY <3>3, ReturnPlaced DEF m
    <3>5. \A u \in Threads : m.state[u] = IF u = h THEN "Running" ELSE q.state[u]
      BY <1>2, <3>3, <3>4 DEF SameStates
    <3>6. \A u \in Threads : q.state[u] = "Running" <=> u = t
      BY <1>1, <2>1 DEF OneRuns
    <3>7. /\ m.next = h /\ m.prio = q.prio /\ m.kstate = q.kstate
          /\ TopRuns(m) /\ Frame(q, m)
          /\ HeadPositive(q) => HeadPositive(m)
      BY <3>2, <3>3, <3>4
         DEF SameStates, Keeps, TopRuns, Frame, HeadPositive, SameDelays
    <3>8. QED
      BY <3>3, <3>4, <3>5, <3>6, <3>7 DEF Runnable
  <2>2. CASE t # q.curr
    <3>1. m = Return(DispatchReady(q)) /\ {t} \in SUBSET Threads /\ q.curr \notin {t}
      BY <1>1, <2>2
    <3> HIDE DEF m
    <3>2. /\ KernelOK(m, {t}) /\ TopRuns(m) /\ Frame(q, m)
          /\ m.prio = q.prio /\ SameBlocked(q, m) /\ m.state[t] = q.state[t]
          /\ HeadPositive(q) => HeadPositive(m)
      BY <3>1, Dispatched
    <3>3. /\ Placed(m, {t}) /\ OneRuns(m) /\ m.next = m.curr
          /\ m.curr \in Threads /\ m.kstate = "Running"
      BY <3>2 DEF KernelOK, Runs
    <3>4. m.next # t
      BY <1>1, <2>2, <3>2, <3>3 DEF OneRuns
    <3>5. QED
      BY <1>1, <3>2, <3>3, <3>4 DEF OneRuns, SameBlocked
  <2>3. QED
    BY <2>1, <2>2
<1>4. r = SetState(m, t, "Inactive") /\ r = [m EXCEPT !.state[t] = "Inactive"]
  BY DEF SetState
<1> HIDE DEF m
<1>5. /\ Placed(r, {}) /\ Keeps(m, r) /\ SameRun(m, r)
      /\ SameDelays(m, r) /\ StateSet(m, r, t, "Inactive")
  <2>1. "Inactive" \in ThreadStates
    BY DEF ThreadStates
  <2> DEFINE F == {t}
  <2>2. t \in F /\ F \ {t} = {} /\ Placed(m, F)
    BY <1>3
  <2> HIDE DEF F
  <2>3. QED
    BY <1>1, <1>4, <2>1, <2>2, SetStatePlaced
<1>6. Frame(q, r)
  <2>1. DOMAIN m = Fields
    BY <1>3, PlacedFields
  <2>2. Frame(m, r)
    BY <1>4, <2>1 DEF Frame, Fields
  <2>3. QED
    BY <1>3, <2>2 DEF Frame
<1>7. /\ r.curr = r.next /\ r.next \in Threads \ {t} /\ r.prio = q.prio
      /\ r.kstate = q.kstate /\ r.next = m.next
      /\ TopRuns(r)
      /\ HeadPositive(q) => HeadPositive(r)
  BY <1>3, <1>5 DEF Keeps, SameRun, TopRuns, HeadPositive, SameDelays
<1>8. m.state \in [Threads -> ThreadStates]
  BY <1>3, PlacedFields
<1>9. \A u \in Threads : r.state[u] = IF u = t THEN "Inactive" ELSE m.state[u]
  BY <1>5, <1>8 DEF StateSet
<1>10. \A u \in Threads \ {t} :
         \/ r.state[u] = q.state[u]
         \/ r.state[u] \in Runnable /\ q.state[u] \in Runnable
  BY <1>3, <1>9
<1>11. OneRuns(r)
  BY <1>3, <1>7, <1>9 DEF OneRuns
<1>12. Runs(r)
  <2>1. r.state \in [Threads -> ThreadStates]
    BY <1>5, PlacedFields
  <2>2. \A u \in Threads : r.state[u] \in MutexStates
    BY <1>1, <1>9, <1>10 DEF Runs, MutexStates, Runnable
  <2>3. r.state[Idle] \in Runnable
    BY <1>1, <1>10, IdleIsThread DEF Runs, Runnable
  <2>4. QED
    BY <1>1, <1>7, <1>11, <2>1, <2>2, <2>3 DEF Runs
<1>13. Queued(r, {})
  <2>1. \A u \in Threads : (r.state[u] = "WaitingMutex" /\ u \notin {}) <=>
                           (q.state[u] = "WaitingMutex" /\ u \notin {t})
    BY <1>9, <1>10 DEF Runnable
  <2>2. QED
    BY <1>1, <1>6, <1>7, <2>1 DEF Frame, Queued
<1>14. PriosOK(r)
  BY <1>1, <1>6, <1>7 DEF PriosOK, Frame
<1>15. QED
  BY <1>1, <1>5, <1>6, <1>7, <1>9, <1>10, <1>12, <1>13, <1>14 DEF KernelOK

-----------------------------------------------------------------------------
(* A new thread in a free control block runs or becomes ready. *)
LEMMA Created ==
  ASSUME NEW q, KernelOK(q, {}), TopRuns(q), NEW t \in User,
         q.state[t] = "Inactive", NEW p \in PrioRange,
         NEW r, r = Return(Dispatch(Fresh(q, t, p), t))
  PROVE  /\ KernelOK(r, {}) /\ TopRuns(r) /\ r.objq = q.objq
         /\ r.prio = [q.prio EXCEPT ![t] = p]
         /\ r.base = [q.base EXCEPT ![t] = p]
         /\ r.state[t] \in Runnable
         /\ \A u \in Threads \ {t} :
              \/ r.state[u] = q.state[u]
              \/ r.state[u] \in Runnable /\ q.state[u] \in Runnable
         /\ HeadPositive(q) => HeadPositive(r)
<1> DEFINE f == Fresh(q, t, p)
           d == Dispatch(f, t)
           new == [q.prio EXCEPT ![t] = p]
<1>1. /\ Placed(q, {}) /\ Queued(q, {}) /\ PriosOK(q) /\ Runs(q)
      /\ OneRuns(q) /\ q.next = q.curr /\ t \in Threads /\ t # Idle
      /\ q.curr \in Threads /\ q.kstate = "Running" /\ p \in Int
  BY DEF KernelOK, Runs, User, PrioRange
<1>2. /\ q.state \in [Threads -> ThreadStates] /\ DOMAIN q = Fields
      /\ q.prio \in [Threads -> Int]
  BY <1>1, PlacedFields
<1>3. /\ f.prio = new /\ f.base = [q.base EXCEPT ![t] = p]
      /\ f.objq = q.objq /\ DOMAIN f = Fields
  BY <1>2 DEF Fresh, Fields
<1> HIDE DEF f, new
<1>4. /\ Placed(f, {t}) /\ OneRuns(f)
      /\ f.kstate = q.kstate /\ f.curr = q.curr /\ f.next = q.next
      /\ StateSet(q, f, t, "Ready")
      /\ HeadPositive(q) => HeadPositive(f)
      /\ TopRuns(f)
  BY <1>1, FreshPlaced DEF f
<1>5. \A u \in Threads : f.state[u] = IF u = t THEN "Ready" ELSE q.state[u]
  BY <1>2, <1>4 DEF StateSet
<1>6. /\ Placed(d, {}) /\ OneRuns(d) /\ Keeps(f, d) /\ SameDelays(f, d)
      /\ d.state[t] \in Runnable
      /\ \A u \in Threads \ {t} :
           \/ d.state[u] = f.state[u]
           \/ d.state[u] \in Runnable /\ f.state[u] \in Runnable
      /\ d.next \in Threads /\ TopRuns(d)
  <2>1. f.state[t] # "Running"
    BY <1>1, <1>5
  <2>2. QED
    BY <1>1, <1>4, <2>1, DispatchPlaced
<1>7. Frame(f, d)
  BY <1>3, FrameCalls
<1> HIDE DEF d
<1>8. /\ Placed(r, {}) /\ r.curr = d.next /\ r.kstate = d.kstate
      /\ r.prio = d.prio /\ SameStates(d, r)
      /\ SameDelays(d, r) /\ r.ready = d.ready /\ Frame(d, r)
  BY <1>6, ReturnPlaced DEF d, f
<1>9. /\ r.prio = new /\ r.base = [q.base EXCEPT ![t] = p]
      /\ r.objq = q.objq /\ r.curr = r.next /\ r.next \in Threads
      /\ r.kstate = "Running" /\ r.state = d.state
  BY <1>1, <1>3, <1>4, <1>6, <1>7, <1>8 DEF Keeps, SameStates, Frame
<1>10. /\ r.state[t] \in Runnable
       /\ \A u \in Threads \ {t} :
            \/ r.state[u] = q.state[u]
            \/ r.state[u] \in Runnable /\ q.state[u] \in Runnable
  BY <1>5, <1>6, <1>9
<1>11. OneRuns(r)
  BY <1>6, <1>8, <1>9 DEF OneRuns, SameStates
<1>12. Runs(r)
  <2>1. r.state \in [Threads -> ThreadStates]
    BY <1>8, PlacedFields
  <2>2. \A u \in Threads : r.state[u] \in MutexStates
    BY <1>1, <1>10 DEF Runs, MutexStates, Runnable
  <2>3. r.state[Idle] \in Runnable
    BY <1>1, <1>10, IdleIsThread DEF Runs, Runnable
  <2>4. QED
    BY <1>9, <1>11, <2>1, <2>2, <2>3 DEF Runs
<1>13. Queued(r, {})
  <2>1. \A x \in Mutexes : t \notin ToSet(q.objq[x])
    BY <1>1 DEF Queued
  <2>2. \A u \in Threads \ {t} : new[u] = q.prio[u]
    BY <1>2 DEF new
  <2>3. \A x \in Mutexes : Sorted(new, q.objq[x])
    <3> SUFFICES ASSUME NEW x \in Mutexes PROVE Sorted(new, q.objq[x])
      OBVIOUS
    <3> DEFINE s == q.objq[x]
    <3>1. IsList(s) /\ Sorted(q.prio, s) /\ t \notin ToSet(s)
      BY <1>1, <2>1 DEF Queued
    <3> HIDE DEF s
    <3>2. \A i \in DOMAIN s : s[i] \in Threads \ {t}
      BY <3>1 DEF IsList, ToSet
    <3>3. Sorted(new, s)
      BY <2>2, <3>1, <3>2 DEF Sorted
    <3>4. QED
      BY <3>3 DEF s
  <2>4. \A u \in Threads : r.state[u] = "WaitingMutex" <=>
                           q.state[u] = "WaitingMutex"
    BY <1>1, <1>10 DEF Runnable
  <2>5. QED
    BY <1>1, <1>9, <2>3, <2>4 DEF Queued
<1>14. PriosOK(r)
  BY <1>1, <1>9 DEF PriosOK, new
<1>15. r.prio = [q.prio EXCEPT ![t] = p]
  BY <1>9 DEF new
<1>16. HeadPositive(q) => HeadPositive(r)
  BY <1>4, <1>6, <1>8 DEF HeadPositive, SameDelays
<1>17. TopRuns(r)
  BY <1>6, <1>8, <1>9 DEF TopRuns, SameStates
<1>18. QED
  BY <1>8, <1>9, <1>10, <1>12, <1>13, <1>14, <1>15, <1>16, <1>17 DEF KernelOK

-----------------------------------------------------------------------------
(* The tick. *)

(* Counting changes the delays only. *)
LEMMA Counted ==
  ASSUME NEW q, KernelOK(q, {}), HeadPositive(q), NEW r, r = DelayCount(q)
  PROVE  /\ KernelOK(r, {}) /\ r.prio = q.prio /\ Frame(q, r)
         /\ r.state = q.state /\ r.curr = q.curr
<1>1. /\ Placed(q, {}) /\ Queued(q, {}) /\ PriosOK(q) /\ Runs(q)
      /\ DOMAIN q = Fields
  BY PlacedFields DEF KernelOK
<1>2. /\ Placed(r, {}) /\ Keeps(q, r) /\ r.next = q.next
      /\ r.state = q.state
  BY <1>1, DelayCountPlaced
<1>3. Frame(q, r)
  BY <1>1, FrameSteps
<1>4. QED
  BY <1>1, <1>2, <1>3
     DEF KernelOK, Queued, PriosOK, Runs, OneRuns, Keeps, Frame

(* A thread whose time is up leaves the list of the mutex it waits for. *)
LEMMA TimedOut ==
  ASSUME NEW q, KernelOK(q, {}), DelayExpired(q), NEW r, r = DelayWake(q),
         NEW t, t = Head(q.dlist)
  PROVE  /\ KernelOK(r, {}) /\ r.prio = q.prio /\ r.base = q.base
         /\ t \in Threads /\ r.curr = q.curr
         /\ q.state[t] = "WaitingMutex"
         /\ r.state = [q.state EXCEPT ![t] = "Ready"]
         /\ \A x \in Mutexes : ToSet(r.objq[x]) = ToSet(q.objq[x]) \ {t}
<1> DEFINE g == [o \in Objects |-> Unlink(q.objq[o], t)]
<1>1. /\ Placed(q, {}) /\ Queued(q, {}) /\ PriosOK(q) /\ Runs(q)
      /\ OneRuns(q)
  BY DEF KernelOK, Runs
<1>2. /\ DOMAIN q = Fields /\ q.objq \in [Objects -> Seq(Threads)]
      /\ q.prio \in [Threads -> Int] /\ q.state \in [Threads -> ThreadStates]
  BY <1>1, PlacedFields
<1>3. /\ t \in Threads /\ q.state[t] \in BlockedStates
      /\ Placed(r, {}) /\ Keeps(q, r) /\ r.next = q.next
      /\ r.state = [q.state EXCEPT ![t] = "Ready"]
  BY <1>1, DelayWakePlaced
<1>4. r.objq = g /\ r.base = q.base
  <2> DEFINE l == ListRemove(q, t)
             m == [l EXCEPT !.dlist = Tail(@)]
  <2>1. DOMAIN l = Fields /\ l.objq = g /\ l.base = q.base
    BY <1>2 DEF ListRemove, Fields
  <2> HIDE DEF l, g
  <2>2. DOMAIN m = Fields /\ m.objq = g /\ m.base = q.base
    BY <2>1 DEF Fields
  <2>3. r = ReadyPut(m, t)
    BY DEF DelayWake, l
  <2> HIDE DEF m
  <2>4. Frame(m, r)
    BY <2>2, <2>3, FrameSteps
  <2>5. QED
    BY <2>2, <2>4 DEF Frame
<1> HIDE DEF g
<1>5. q.state[t] = "WaitingMutex" /\ t # Idle
  BY <1>1, <1>3, IdleIsThread
     DEF Runs, MutexStates, BlockedStates, WaitStates, Runnable
<1>6. \A x \in Mutexes : /\ IsList(g[x]) /\ Sorted(q.prio, g[x])
                         /\ ToSet(g[x]) = ToSet(q.objq[x]) \ {t}
  <2> SUFFICES ASSUME NEW x \in Mutexes
               PROVE  /\ IsList(g[x]) /\ Sorted(q.prio, g[x])
                      /\ ToSet(g[x]) = ToSet(q.objq[x]) \ {t}
    OBVIOUS
  <2>1. g[x] = Unlink(q.objq[x], t)
    BY DEF g, Mutexes
  <2>2. IsList(q.objq[x]) /\ Sorted(q.prio, q.objq[x])
    BY <1>1 DEF Queued
  <2>3. QED
    BY <1>2, <2>1, <2>2, UnlinkList
<1>7. \A u \in Threads : r.state[u] = IF u = t THEN "Ready" ELSE q.state[u]
  BY <1>2, <1>3
<1>8. Queued(r, {})
  <2>1. \A x \in Mutexes, u \in Threads :
          u \in ToSet(g[x]) <=> u \in ToSet(q.objq[x]) /\ u # t
    BY <1>6
  <2>2. \A u \in Threads : (\E x \in Mutexes : u \in ToSet(g[x])) <=>
                             r.state[u] = "WaitingMutex"
    BY <1>1, <1>7, <2>1 DEF Queued
  <2>3. \A x, y \in Mutexes, u \in Threads :
          u \in ToSet(g[x]) /\ u \in ToSet(g[y]) => x = y
    BY <1>1, <2>1 DEF Queued
  <2>4. QED
    BY <1>3, <1>4, <1>6, <2>2, <2>3 DEF Queued, Keeps
<1>9. Runs(r)
  <2>1. r.state \in [Threads -> MutexStates]
    BY <1>1, <1>3 DEF Runs, MutexStates
  <2>2. OneRuns(r)
    BY <1>1, <1>3, <1>5, <1>7 DEF OneRuns
  <2>3. QED
    BY <1>1, <1>3, <1>5, <1>7, <2>1, <2>2, IdleIsThread DEF Runs, Keeps
<1>10. PriosOK(r)
  BY <1>1, <1>3, <1>4 DEF PriosOK, Keeps
<1>11. QED
  BY <1>3, <1>4, <1>5, <1>6, <1>8, <1>9, <1>10 DEF KernelOK, Keeps

-----------------------------------------------------------------------------
(* The start. *)
LEMMA KernelStarts ==
  ASSUME NEW E \in SUBSET User, IsFiniteSet(E), KernelInit(E)
  PROVE  /\ KernelOK(k, {}) /\ TopRuns(k) /\ HeadPositive(k)
         /\ k.base = k.prio /\ handler = "thread"
         /\ \A t \in Threads : k.state[t] # "WaitingMutex"
         /\ \A x \in Mutexes : k.objq[x] = <<>>
<1>1. PICK p \in [E -> Prios], s \in SetToSeqs(E \cup {Idle}) :
        LET prio == [t \in Threads |-> IF t \in E THEN p[t] ELSE 0]
        IN  Sorted(prio, s) /\ k = Started(prio, s)
  BY DEF KernelInit
<1> DEFINE prio == [t \in Threads |-> IF t \in E THEN p[t] ELSE 0]
           All == E \cup {Idle}
<1>2. Sorted(prio, s) /\ k = Started(prio, s)
  BY <1>1
<1>3. All \subseteq Threads /\ All # {} /\ IsFiniteSet(All)
  BY IdleIsThread, FS_AddElement DEF User
<1>4. prio \in [Threads -> PrioRange]
  <2>1. \A t \in E : p[t] \in 1 .. 56
    BY PriosInRange
  <2>2. \A t \in Threads : prio[t] \in PrioRange
    BY <2>1 DEF PrioRange
  <2>3. QED
    BY <2>2
<1>5. prio \in [Threads -> Int]
  BY <1>4 DEF PrioRange
<1> HIDE DEF prio, All
<1>6. IsList(s) /\ ToSet(s) = All /\ s # <<>>
  <2> DEFINE n == Cardinality(All)
  <2>1. n \in Nat /\ IsFiniteSet(1 .. n) /\ Cardinality(1 .. n) = n
    BY <1>3, FS_CardinalityType, FS_Interval
  <2>2. s \in [1 .. n -> All] /\ \A i, j \in 1 .. n : i # j => s[i] # s[j]
    BY DEF SetToSeqs, All
  <2> HIDE DEF n
  <2>3. s \in Injection(1 .. n, All)
    BY <2>2 DEF Injection, IsInjective
  <2>4. s \in Surjection(1 .. n, All)
    BY <1>3, <2>1, <2>3, FS_Injection DEF n
  <2>5. ToSet(s) = All
    BY <2>2, <2>4 DEF Surjection, ToSet
  <2>6. s \in Seq(Threads) /\ IsInjective(s)
    BY <1>3, <2>1, <2>2, <2>3 DEF Injection
  <2>7. s # <<>>
    BY <1>3, <2>5 DEF ToSet
  <2>8. QED
    BY <2>5, <2>6, <2>7 DEF IsList
<1> DEFINE h == Head(s)
<1>7. /\ h \in All /\ h \in Threads /\ IsList(Tail(s))
      /\ ToSet(Tail(s)) = All \ {h} /\ Sorted(prio, Tail(s))
      /\ \A t \in All : prio[t] <= prio[h]
  BY <1>2, <1>5, <1>6, TailList
<1> HIDE DEF h
<1>8. /\ k.kstate = "Running" /\ k.curr = h /\ k.next = h
      /\ k.prio = prio /\ k.base = prio /\ k.ready = Tail(s)
      /\ k.dlist = <<>> /\ k.wait = {}
      /\ k.objq = [o \in Objects |-> <<>>]
      /\ k.state = [t \in Threads |-> IF t = h THEN "Running"
                                      ELSE IF t \in All THEN "Ready"
                                      ELSE "Inactive"]
  BY <1>2, <1>6 DEF Started, h
<1>9. k \in KernelType
  <2>1. "Running" \in KernelStates /\ "osOK" \in Results
        /\ {"Running", "Ready", "Inactive"} \subseteq ThreadStates
    BY DEF KernelStates, Results, ThreadStates
  <2>2. Tail(s) \in Seq(Threads) /\ <<>> \in Seq(Threads)
    BY <1>7 DEF IsList
  <2> DEFINE zero == [t \in Threads |-> 0]
             ok == [t \in Threads |-> "osOK"]
  <2>3. zero \in [Threads -> Int] /\ ok \in [Threads -> Results]
    BY <2>1
  <2>4. /\ k.state \in [Threads -> ThreadStates]
        /\ k.objq \in [Objects -> Seq(Threads)]
    BY <1>8, <2>1, <2>2
  <2>5. k = [kstate |-> "Running", curr |-> h, next |-> h, state |-> k.state,
             prio |-> prio, base |-> prio, delay |-> zero, ret |-> ok,
             ready |-> Tail(s), objq |-> k.objq, dlist |-> <<>>, wait |-> {}]
    BY <1>2 DEF Started, h
  <2> DEFINE Refs == Threads \cup {NoThread}
             States == [Threads -> ThreadStates]
             Ints == [Threads -> Int]
             Rets == [Threads -> Results]
             Lists == Seq(Threads)
             Queues == [Objects -> Seq(Threads)]
             Sets == SUBSET Threads
             st == k.state
             oq == k.objq
  <2>6. /\ h \in Refs /\ st \in States /\ prio \in Ints /\ zero \in Ints
        /\ ok \in Rets /\ Tail(s) \in Lists /\ oq \in Queues
        /\ <<>> \in Lists /\ {} \in Sets
    BY <1>5, <1>7, <2>2, <2>3, <2>4
  <2>7. KernelType =
          [kstate: KernelStates, curr: Refs, next: Refs, state: States,
           prio: Ints, base: Ints, delay: Ints, ret: Rets, ready: Lists,
           objq: Queues, dlist: Lists, wait: Sets]
    BY DEF KernelType
  <2>8. k = [kstate |-> "Running", curr |-> h, next |-> h, state |-> st,
             prio |-> prio, base |-> prio, delay |-> zero, ret |-> ok,
             ready |-> Tail(s), objq |-> oq, dlist |-> <<>>, wait |-> {}]
    BY <2>5
  <2> HIDE DEF zero, ok, Refs, States, Ints, Rets, Lists, Queues, Sets, st, oq
  <2>9. QED
    BY <2>1, <2>6, <2>7, <2>8
<1>10. \A t \in Threads : k.state[t] = IF t = h THEN "Running"
                                       ELSE IF t \in All THEN "Ready"
                                       ELSE "Inactive"
  BY <1>8
<1>11. ToSet(<<>>) = {}
  BY DEF ToSet
<1>12. IsList(<<>>) /\ \A q : Sorted(q, <<>>)
  BY DEF IsList, IsInjective, Sorted
<1>13. Placed(k, {})
  <2>1. ListsOK(k)
    BY <1>7, <1>8, <1>12 DEF ListsOK
  <2>2. \A t \in Threads : ThreadPlaced(k, t)
    BY <1>7, <1>8, <1>10, <1>11 DEF ThreadPlaced, BlockedStates, WaitStates
  <2>3. QED
    BY <1>9, <2>1, <2>2 DEF Placed
<1>14. Queued(k, {})
  <2>1. \A x \in Mutexes : k.objq[x] = <<>>
    BY <1>8 DEF Mutexes
  <2>2. QED
    BY <1>10, <1>11, <1>12, <2>1 DEF Queued
<1>15. PriosOK(k)
  BY <1>4, <1>8 DEF PriosOK
<1>16. Runs(k)
  <2>1. k.state[Idle] \in Runnable
    BY <1>10, IdleIsThread DEF All, Runnable
  <2>2. k.state \in [Threads -> MutexStates]
    BY <1>8 DEF MutexStates
  <2>3. OneRuns(k)
    BY <1>8, <1>10 DEF OneRuns
  <2>4. QED
    BY <1>7, <1>8, <2>1, <2>2, <2>3 DEF Runs
<1>17. TopRuns(k) /\ HeadPositive(k)
  BY <1>7, <1>8 DEF TopRuns, HeadPositive
<1>18. \A x \in Mutexes : k.objq[x] = <<>>
  BY <1>8 DEF Mutexes
<1>19. QED
  BY <1>8, <1>10, <1>13, <1>14, <1>15, <1>16, <1>17, <1>18
     DEF KernelOK, KernelInit

-----------------------------------------------------------------------------
(* The mutexes and the lists of their owners. *)

Nodes == Mutexes \cup {NoMutex}
MutexType ==
  [active: BOOLEAN, lock: Nat, owner: Threads \cup {NoThread},
   prev: Nodes, next: Nodes]

(* A locked mutex has an owner. *)
MutexesOK(m) ==
  /\ m \in [Mutexes -> MutexType]
  /\ \A x \in Mutexes : m[x].lock > 0 => m[x].owner \in Threads

StateOK(s) ==
  /\ DOMAIN s = {"k", "mx", "mlist"}
  /\ MutexesOK(s.mx) /\ s.mlist \in [Threads -> Nodes]

LEMMA StateFields ==
  ASSUME MutexesOK(mx), mlist \in [Threads -> Nodes]
  PROVE  StateOK(State) /\ State.k = k /\ State.mx = mx /\ State.mlist = mlist
BY DEF StateOK, State

LEMMA MutexFields ==
  ASSUME NEW m \in [Mutexes -> MutexType], NEW x \in Mutexes
  PROVE  /\ m[x].active \in BOOLEAN /\ m[x].lock \in Nat
         /\ m[x].owner \in Threads \cup {NoThread}
         /\ m[x].prev \in Nodes /\ m[x].next \in Nodes
BY DEF MutexType

(* One field of one mutex. *)
LEMMA MutexUpdates ==
  ASSUME NEW m \in [Mutexes -> MutexType], NEW x \in Mutexes
  PROVE  /\ \A v \in BOOLEAN :
              [m EXCEPT ![x].active = v] \in [Mutexes -> MutexType]
         /\ \A v \in Nat : [m EXCEPT ![x].lock = v] \in [Mutexes -> MutexType]
         /\ \A v \in Threads \cup {NoThread} :
              [m EXCEPT ![x].owner = v] \in [Mutexes -> MutexType]
         /\ \A v \in Nodes :
              /\ [m EXCEPT ![x].prev = v] \in [Mutexes -> MutexType]
              /\ [m EXCEPT ![x].next = v] \in [Mutexes -> MutexType]
<1> DEFINE Refs == Threads \cup {NoThread}
<1>1. MutexType = [active: BOOLEAN, lock: Nat, owner: Refs,
                   prev: Nodes, next: Nodes]
  BY DEF MutexType
<1> HIDE DEF Refs
<1>2. \A v \in BOOLEAN : [m[x] EXCEPT !.active = v] \in MutexType
  BY <1>1
<1>3. \A v \in Nat : [m[x] EXCEPT !.lock = v] \in MutexType
  BY <1>1
<1>4. \A v \in Refs : [m[x] EXCEPT !.owner = v] \in MutexType
  BY <1>1
<1>5. \A v \in Nodes : /\ [m[x] EXCEPT !.prev = v] \in MutexType
                       /\ [m[x] EXCEPT !.next = v] \in MutexType
  BY <1>1
<1>6. QED
  BY <1>2, <1>3, <1>4, <1>5 DEF Refs

(* r is m with the fields of mutex x replaced. *)
MutexSet(m, r, x, a, l, o, p, n) ==
  /\ r \in [Mutexes -> MutexType]
  /\ \A z \in Mutexes :
       /\ r[z].active = IF z = x THEN a ELSE m[z].active
       /\ r[z].lock = IF z = x THEN l ELSE m[z].lock
       /\ r[z].owner = IF z = x THEN o ELSE m[z].owner
       /\ r[z].prev = IF z = x THEN p ELSE m[z].prev
       /\ r[z].next = IF z = x THEN n ELSE m[z].next

LEMMA MutexPoint ==
  ASSUME NEW m \in [Mutexes -> MutexType], NEW x \in Mutexes,
         NEW a, a = m[x].active, NEW l, l = m[x].lock,
         NEW o, o = m[x].owner, NEW p, p = m[x].prev, NEW n, n = m[x].next
  PROVE  /\ \A v \in BOOLEAN :
              MutexSet(m, [m EXCEPT ![x].active = v], x, v, l, o, p, n)
         /\ \A v \in Nat :
              MutexSet(m, [m EXCEPT ![x].lock = v], x, a, v, o, p, n)
         /\ \A v \in Threads \cup {NoThread} :
              MutexSet(m, [m EXCEPT ![x].owner = v], x, a, l, v, p, n)
         /\ \A v \in Nodes :
              /\ MutexSet(m, [m EXCEPT ![x].prev = v], x, a, l, o, v, n)
              /\ MutexSet(m, [m EXCEPT ![x].next = v], x, a, l, o, p, v)
<1>1. ASSUME NEW v \in BOOLEAN
      PROVE  MutexSet(m, [m EXCEPT ![x].active = v], x, v, l, o, p, n)
  BY MutexUpdates DEF MutexSet, MutexType
<1>2. ASSUME NEW v \in Nat
      PROVE  MutexSet(m, [m EXCEPT ![x].lock = v], x, a, v, o, p, n)
  <2> DEFINE r == [m EXCEPT ![x].lock = v]
  <2>1. r \in [Mutexes -> MutexType]
    BY MutexUpdates
  <2>2. \A z \in Mutexes :
          /\ r[z].active = m[z].active
          /\ r[z].lock = IF z = x THEN v ELSE m[z].lock
          /\ r[z].owner = m[z].owner
          /\ r[z].prev = m[z].prev
          /\ r[z].next = m[z].next
    BY DEF MutexType
  <2>3. QED
    BY <2>1, <2>2 DEF MutexSet
<1>3. ASSUME NEW v \in Threads \cup {NoThread}
      PROVE  MutexSet(m, [m EXCEPT ![x].owner = v], x, a, l, v, p, n)
  BY MutexUpdates DEF MutexSet, MutexType
<1>4. ASSUME NEW v \in Nodes
      PROVE  MutexSet(m, [m EXCEPT ![x].prev = v], x, a, l, o, v, n)
  BY MutexUpdates DEF MutexSet, MutexType
<1>5. ASSUME NEW v \in Nodes
      PROVE  MutexSet(m, [m EXCEPT ![x].next = v], x, a, l, o, p, v)
  BY MutexUpdates DEF MutexSet, MutexType
<1>6. QED
  BY <1>1, <1>2, <1>3, <1>4, <1>5

(* svcRtxMutexAcquire of a mutex nobody has *)
LEMMA TakeFacts ==
  ASSUME NEW s, StateOK(s), NEW t \in Threads, NEW x \in Mutexes,
         NEW h, h = s.mlist[t], NEW r, r = Take(s, t, x)
  PROVE  /\ StateOK(r) /\ r.k = s.k
         /\ r.mlist = [s.mlist EXCEPT ![t] = x]
         /\ \A z \in Mutexes :
              /\ r.mx[z].active = s.mx[z].active
              /\ r.mx[z].lock = IF z = x THEN 1 ELSE s.mx[z].lock
              /\ r.mx[z].owner = IF z = x THEN t ELSE s.mx[z].owner
              /\ r.mx[z].next = IF z = x THEN h ELSE s.mx[z].next
              /\ r.mx[z].prev = IF z = h THEN x
                                ELSE IF z = x THEN NoMutex ELSE s.mx[z].prev
<1> DEFINE m == s.mx
           m1 == [m EXCEPT ![x].owner = t]
           m2 == [m1 EXCEPT ![x].next = h]
           m3 == [m2 EXCEPT ![x].prev = NoMutex]
           m4 == IF h = NoMutex THEN m3 ELSE [m3 EXCEPT ![h].prev = x]
           m5 == [m4 EXCEPT ![x].lock = 1]
<1>1. /\ m \in [Mutexes -> MutexType] /\ h \in Nodes
      /\ DOMAIN s = {"k", "mx", "mlist"} /\ s.mlist \in [Threads -> Nodes]
      /\ \A z \in Mutexes : m[z].lock > 0 => m[z].owner \in Threads
  BY DEF StateOK, MutexesOK
<1>2. r = [s EXCEPT !.mx = m5, !.mlist = [s.mlist EXCEPT ![t] = x]]
  <2> DEFINE s1 == [s EXCEPT !.mx[x].owner = t, !.mx[x].next = h,
                             !.mx[x].prev = NoMutex]
             s2 == IF h = NoMutex THEN s1 ELSE [s1 EXCEPT !.mx[h].prev = x]
  <2>1. s1 = [s EXCEPT !.mx = m3]
    BY <1>1
  <2>2. r = [s2 EXCEPT !.mlist[t] = x, !.mx[x].lock = 1]
    BY DEF Take
  <2> HIDE DEF s1, m3
  <2>3. s2 = [s EXCEPT !.mx = m4]
    BY <1>1, <2>1
  <2> HIDE DEF s2, m4
  <2>4. QED
    BY <1>1, <2>2, <2>3
<1> HIDE DEF m
<1>3. MutexSet(m, m1, x, m[x].active, m[x].lock, t, m[x].prev, m[x].next)
  BY <1>1, MutexPoint
<1> HIDE DEF m1
<1>4. MutexSet(m1, m2, x, m1[x].active, m1[x].lock, m1[x].owner,
               m1[x].prev, h)
  <2>1. m1 \in [Mutexes -> MutexType]
    BY <1>3 DEF MutexSet
  <2>2. QED
    BY <1>1, <2>1, MutexPoint
<1> HIDE DEF m2
<1>5. MutexSet(m2, m3, x, m2[x].active, m2[x].lock, m2[x].owner,
               NoMutex, m2[x].next)
  <2>1. m2 \in [Mutexes -> MutexType] /\ NoMutex \in Nodes
    BY <1>4 DEF MutexSet, Nodes
  <2>2. QED
    BY <2>1, MutexPoint
<1> HIDE DEF m3
<1>6. h # NoMutex =>
        MutexSet(m3, m4, h, m3[h].active, m3[h].lock, m3[h].owner,
                 x, m3[h].next)
  <2>1. /\ m3 \in [Mutexes -> MutexType] /\ x \in Nodes
        /\ h # NoMutex => h \in Mutexes
    BY <1>1, <1>5 DEF MutexSet, Nodes
  <2>2. QED
    BY <2>1, MutexPoint
<1>7. h = NoMutex => m4 = m3
  OBVIOUS
<1>8. m4 \in [Mutexes -> MutexType]
  BY <1>5, <1>6, <1>7 DEF MutexSet
<1> HIDE DEF m4
<1>9. MutexSet(m4, m5, x, m4[x].active, 1, m4[x].owner, m4[x].prev,
               m4[x].next)
  BY <1>8, MutexPoint
<1> HIDE DEF m5
<1>10. r.mx = m5 /\ r.k = s.k /\ r.mlist = [s.mlist EXCEPT ![t] = x]
       /\ DOMAIN r = {"k", "mx", "mlist"}
  BY <1>1, <1>2
<1>11. \A z \in Mutexes :
         /\ m3[z].active = m[z].active
         /\ m3[z].lock = m[z].lock
         /\ m3[z].owner = IF z = x THEN t ELSE m[z].owner
         /\ m3[z].next = IF z = x THEN h ELSE m[z].next
         /\ m3[z].prev = IF z = x THEN NoMutex ELSE m[z].prev
  BY <1>3, <1>4, <1>5 DEF MutexSet
<1>12. \A z \in Mutexes :
         /\ m5[z].active = m[z].active
         /\ m5[z].lock = IF z = x THEN 1 ELSE m[z].lock
         /\ m5[z].owner = IF z = x THEN t ELSE m[z].owner
         /\ m5[z].next = IF z = x THEN h ELSE m[z].next
         /\ m5[z].prev = IF z = h THEN x
                         ELSE IF z = x THEN NoMutex ELSE m[z].prev
  <2>1. CASE h = NoMutex
    BY <1>7, <1>9, <1>11, <2>1, NoMutexNotMutex DEF MutexSet
  <2>2. CASE h # NoMutex
    BY <1>6, <1>9, <1>11, <2>2 DEF MutexSet
  <2>3. QED
    BY <2>1, <2>2
<1>13. StateOK(r)
  BY <1>1, <1>9, <1>10, <1>12 DEF StateOK, MutexesOK, MutexSet, m, Nodes
<1>14. QED
  BY <1>10, <1>12, <1>13 DEF m

(* A mutex goes to the first of the threads waiting for it. *)
LEMMA HandOverFacts ==
  ASSUME NEW s, StateOK(s), NEW x \in Mutexes,
         NEW t, t = Head(s.k.objq[x]), t \in Threads,
         NEW r, r = HandOver(s, x)
  PROVE  /\ StateOK(r)
         /\ r.k = WaitExitReady(Dequeue(s.k, x), t, "osOK")
         /\ r.mlist = [s.mlist EXCEPT ![t] = x]
         /\ \A z \in Mutexes :
              /\ r.mx[z].active = s.mx[z].active
              /\ r.mx[z].lock = IF z = x THEN 1 ELSE s.mx[z].lock
              /\ r.mx[z].owner = IF z = x THEN t ELSE s.mx[z].owner
              /\ r.mx[z].next = IF z = x THEN s.mlist[t] ELSE s.mx[z].next
              /\ r.mx[z].prev = IF z = x THEN NoMutex ELSE s.mx[z].prev
<1> DEFINE m == s.mx
           h == s.mlist[t]
           m1 == [m EXCEPT ![x].owner = t]
           m2 == [m1 EXCEPT ![x].next = h]
           m3 == [m2 EXCEPT ![x].prev = NoMutex]
           m4 == [m3 EXCEPT ![x].lock = 1]
           q == WaitExitReady(Dequeue(s.k, x), t, "osOK")
<1>1. /\ m \in [Mutexes -> MutexType] /\ h \in Nodes
      /\ DOMAIN s = {"k", "mx", "mlist"} /\ s.mlist \in [Threads -> Nodes]
      /\ \A z \in Mutexes : m[z].lock > 0 => m[z].owner \in Threads
  BY DEF StateOK, MutexesOK
<1>2. r = [s EXCEPT !.k = q, !.mx = m4, !.mlist = [s.mlist EXCEPT ![t] = x]]
  BY <1>1, ZenonT(90) DEF HandOver
<1> HIDE DEF m, h, q
<1>3. MutexSet(m, m1, x, m[x].active, m[x].lock, t, m[x].prev, m[x].next)
  BY <1>1, MutexPoint
<1> HIDE DEF m1
<1>4. MutexSet(m1, m2, x, m1[x].active, m1[x].lock, m1[x].owner,
               m1[x].prev, h)
  <2>1. m1 \in [Mutexes -> MutexType]
    BY <1>3 DEF MutexSet
  <2>2. QED
    BY <1>1, <2>1, MutexPoint
<1> HIDE DEF m2
<1>5. MutexSet(m2, m3, x, m2[x].active, m2[x].lock, m2[x].owner,
               NoMutex, m2[x].next)
  <2>1. m2 \in [Mutexes -> MutexType] /\ NoMutex \in Nodes
    BY <1>4 DEF MutexSet, Nodes
  <2>2. QED
    BY <2>1, MutexPoint
<1> HIDE DEF m3
<1>6. MutexSet(m3, m4, x, m3[x].active, 1, m3[x].owner, m3[x].prev,
               m3[x].next)
  <2>1. m3 \in [Mutexes -> MutexType]
    BY <1>5 DEF MutexSet
  <2>2. QED
    BY <2>1, MutexPoint
<1> HIDE DEF m4
<1>7. r.mx = m4 /\ r.k = q /\ r.mlist = [s.mlist EXCEPT ![t] = x]
      /\ DOMAIN r = {"k", "mx", "mlist"}
  BY <1>1, <1>2
<1>8. \A z \in Mutexes :
        /\ m4[z].active = m[z].active
        /\ m4[z].lock = IF z = x THEN 1 ELSE m[z].lock
        /\ m4[z].owner = IF z = x THEN t ELSE m[z].owner
        /\ m4[z].next = IF z = x THEN h ELSE m[z].next
        /\ m4[z].prev = IF z = x THEN NoMutex ELSE m[z].prev
  BY <1>3, <1>4, <1>5, <1>6 DEF MutexSet
<1>9. StateOK(r)
  BY <1>1, <1>6, <1>7, <1>8 DEF StateOK, MutexesOK, MutexSet, m, Nodes
<1>10. QED
  BY <1>7, <1>8, <1>9 DEF m, h, q

(* A mutex is taken out of the list of its owner. *)
LEMMA UnchainFacts ==
  ASSUME NEW s, StateOK(s), NEW x \in Mutexes,
         NEW n, n = s.mx[x].next, NEW p, p = s.mx[x].prev,
         NEW o, o = s.mx[x].owner, o \in Threads,
         NEW r, r = Unchain(s, x)
  PROVE  /\ StateOK(r) /\ r.k = s.k
         /\ r.mlist = IF p = NoMutex THEN [s.mlist EXCEPT ![o] = n] ELSE s.mlist
         /\ \A z \in Mutexes :
              /\ r.mx[z].active = s.mx[z].active
              /\ r.mx[z].lock = s.mx[z].lock
              /\ r.mx[z].owner = s.mx[z].owner
              /\ r.mx[z].next = IF z = p THEN n ELSE s.mx[z].next
              /\ r.mx[z].prev = IF z = n THEN p ELSE s.mx[z].prev
<1> DEFINE m == s.mx
           m1 == IF n = NoMutex THEN m ELSE [m EXCEPT ![n].prev = p]
           m2 == IF p = NoMutex THEN m1 ELSE [m1 EXCEPT ![p].next = n]
           l == IF p = NoMutex THEN [s.mlist EXCEPT ![o] = n] ELSE s.mlist
<1>1. /\ m \in [Mutexes -> MutexType] /\ n \in Nodes /\ p \in Nodes
      /\ DOMAIN s = {"k", "mx", "mlist"} /\ s.mlist \in [Threads -> Nodes]
      /\ \A z \in Mutexes : m[z].lock > 0 => m[z].owner \in Threads
  BY MutexFields DEF StateOK, MutexesOK
<1>2. r.k = s.k /\ r.mx = m2 /\ r.mlist = l /\ DOMAIN r = {"k", "mx", "mlist"}
  <2>1. CASE n = NoMutex
    BY <1>1, <2>1 DEF Unchain
  <2>2. CASE n # NoMutex
    BY <1>1, <2>2 DEF Unchain
  <2>3. QED
    BY <2>1, <2>2
<1> HIDE DEF m
<1>3. n # NoMutex =>
        MutexSet(m, m1, n, m[n].active, m[n].lock, m[n].owner, p, m[n].next)
  BY <1>1, MutexPoint DEF Nodes
<1>4. n = NoMutex => m1 = m
  OBVIOUS
<1>5. m1 \in [Mutexes -> MutexType]
  BY <1>1, <1>3, <1>4 DEF MutexSet
<1>6. \A z \in Mutexes :
        /\ m1[z].active = m[z].active /\ m1[z].lock = m[z].lock
        /\ m1[z].owner = m[z].owner /\ m1[z].next = m[z].next
        /\ m1[z].prev = IF z = n THEN p ELSE m[z].prev
  <2>1. CASE n = NoMutex
    BY <1>4, <2>1, NoMutexNotMutex
  <2>2. CASE n # NoMutex
    BY <1>3, <2>2 DEF MutexSet
  <2>3. QED
    BY <2>1, <2>2
<1> HIDE DEF m1
<1>7. p # NoMutex =>
        MutexSet(m1, m2, p, m1[p].active, m1[p].lock, m1[p].owner,
                 m1[p].prev, n)
  BY <1>1, <1>5, MutexPoint, ZenonT(60) DEF Nodes
<1>8. p = NoMutex => m2 = m1
  OBVIOUS
<1>9. m2 \in [Mutexes -> MutexType]
  BY <1>5, <1>7, <1>8 DEF MutexSet
<1>10. \A z \in Mutexes :
        /\ m2[z].active = m[z].active /\ m2[z].lock = m[z].lock
        /\ m2[z].owner = m[z].owner
        /\ m2[z].next = IF z = p THEN n ELSE m[z].next
        /\ m2[z].prev = IF z = n THEN p ELSE m[z].prev
  <2>1. CASE p = NoMutex
    BY <1>6, <1>8, <2>1, NoMutexNotMutex
  <2>2. CASE p # NoMutex
    BY <1>6, <1>7, <2>2 DEF MutexSet
  <2>3. QED
    BY <2>1, <2>2
<1> HIDE DEF m2
<1>11. l \in [Threads -> Nodes]
  BY <1>1
<1>12. StateOK(r)
  BY <1>1, <1>2, <1>9, <1>10, <1>11 DEF StateOK, MutexesOK, m
<1>13. QED
  BY <1>2, <1>10, <1>12 DEF m

-----------------------------------------------------------------------------
(* The loop along owner_next.  Walk is defined by recursion, so that it    *)
(* has a value at all is shown first.                                      *)
IsWalk(y, n, m, x) ==
  /\ y \in [1 .. n -> Nodes]
  /\ y[1] = x
  /\ \A i \in 2 .. n :
       y[i] = IF y[i - 1] = NoMutex THEN NoMutex ELSE m[y[i - 1]].next

LEMMA WalkExists ==
  ASSUME NEW m \in [Mutexes -> MutexType], NEW x \in Nodes, NEW n \in Nat \ {0}
  PROVE  \E y : IsWalk(y, n, m, x)
<1> DEFINE T == {i \in 1 .. n : ~ \E y : IsWalk(y, i, m, x)}
<1> SUFFICES ASSUME T # {} PROVE FALSE
  OBVIOUS
<1>1. T \subseteq Nat
  OBVIOUS
<1> HIDE DEF T
<1>2. PICK i \in T : \A j \in T : ~(j < i)
  BY <1>1, MinNat
<1>3. i \in 1 .. n /\ ~ \E y : IsWalk(y, i, m, x)
  BY DEF T
<1>4. CASE i = 1
  <2>1. IsWalk([j \in 1 .. 1 |-> x], 1, m, x)
    BY DEF IsWalk
  <2>2. QED
    BY <1>3, <1>4, <2>1
<1>5. CASE i # 1
  <2>1. i - 1 \in 1 .. n /\ i - 1 < i
    BY <1>3, <1>5
  <2>2. PICK y : IsWalk(y, i - 1, m, x)
    BY <1>2, <2>1 DEF T
  <2> DEFINE v == IF y[i - 1] = NoMutex THEN NoMutex ELSE m[y[i - 1]].next
             z == [j \in 1 .. i |-> IF j = i THEN v ELSE y[j]]
  <2>3. y[i - 1] \in Nodes /\ \A j \in 1 .. i - 1 : y[j] \in Nodes
    BY <1>3, <2>1, <2>2 DEF IsWalk
  <2>4. v \in Nodes
    BY <2>3, MutexFields DEF Nodes
  <2> HIDE DEF v
  <2>5. z \in [1 .. i -> Nodes]
    BY <1>3, <2>3, <2>4
  <2>6. z[1] = x
    BY <1>3, <1>5, <2>2 DEF IsWalk
  <2>7. \A j \in 2 .. i :
          z[j] = IF z[j - 1] = NoMutex THEN NoMutex ELSE m[z[j - 1]].next
    <3> SUFFICES ASSUME NEW j \in 2 .. i
                 PROVE  z[j] = IF z[j - 1] = NoMutex THEN NoMutex
                               ELSE m[z[j - 1]].next
      OBVIOUS
    <3>1. z[j - 1] = y[j - 1]
      BY <1>3
    <3>2. CASE j = i
      BY <1>3, <3>1, <3>2 DEF v
    <3>3. CASE j # i
      <4>1. j \in 2 .. i - 1 /\ z[j] = y[j]
        BY <1>3, <3>3
      <4>2. QED
        BY <2>2, <3>1, <4>1 DEF IsWalk
    <3>4. QED
      BY <3>2, <3>3
  <2>8. IsWalk(z, i, m, x)
    BY <2>5, <2>6, <2>7 DEF IsWalk
  <2>9. QED
    BY <1>3, <2>8
<1>6. QED
  BY <1>4, <1>5

LEMMA WalkFacts ==
  ASSUME NEW s, StateOK(s), NEW x \in Nodes,
         NEW N, N = Cardinality(Mutexes) + 1
  PROVE  N \in Nat \ {0} /\ IsWalk(Walk(s, x), N, s.mx, x)
<1> DEFINE m == s.mx
           D(f) == [i \in 1 .. N |->
                      IF i = 1 THEN x
                      ELSE IF f[i - 1] = NoMutex THEN NoMutex
                           ELSE m[f[i - 1]].next]
           w == Walk(s, x)
<1>1. N \in Nat \ {0} /\ m \in [Mutexes -> MutexType]
  BY MutexesFinite, FS_CardinalityType DEF StateOK, MutexesOK
<1>2. PICK g : IsWalk(g, N, m, x)
  BY <1>1, WalkExists
<1>3. g = D(g)
  <2>1. g \in [1 .. N -> Nodes]
    BY <1>2 DEF IsWalk
  <2>2. \A i \in 1 .. N : g[i] = D(g)[i]
    BY <1>1, <1>2 DEF IsWalk
  <2>3. QED
    BY <2>1, <2>2
<1>4. w = CHOOSE f : f = D(f)
  BY DEF Walk
<1>5. w = D(w)
  <2>1. \E f : f = D(f)
    BY <1>3, Zenon
  <2> HIDE DEF D
  <2>2. QED
    BY <1>4, <2>1
<1> HIDE DEF w
<1>6. DOMAIN w = 1 .. N /\ w = [i \in 1 .. N |-> w[i]]
  BY <1>5
<1> DEFINE T == {i \in 1 .. N : w[i] # g[i]}
<1>7. T = {}
  <2> SUFFICES ASSUME T # {} PROVE FALSE
    OBVIOUS
  <2>1. T \subseteq Nat
    BY <1>1
  <2> HIDE DEF T
  <2>2. PICK i \in T : \A j \in T : ~(j < i)
    BY <2>1, MinNat
  <2>3. i \in 1 .. N /\ w[i] # g[i]
    BY DEF T
  <2>4. CASE i = 1
    BY <1>2, <1>5, <2>3, <2>4 DEF IsWalk
  <2>5. CASE i # 1
    <3>1. i \in 2 .. N /\ i - 1 \in 1 .. N /\ i - 1 < i
      BY <1>1, <2>3, <2>5
    <3>2. w[i - 1] = g[i - 1]
      BY <2>2, <3>1 DEF T
    <3>3. w[i] = IF w[i - 1] = NoMutex THEN NoMutex ELSE m[w[i - 1]].next
      BY <1>5, <2>3, <2>5
    <3>4. g[i] = IF g[i - 1] = NoMutex THEN NoMutex ELSE m[g[i - 1]].next
      BY <1>2, <3>1 DEF IsWalk
    <3>5. QED
      BY <2>3, <3>2, <3>3, <3>4
  <2>6. QED
    BY <2>4, <2>5
<1>8. w = g
  <2>1. g \in [1 .. N -> Nodes] /\ \A i \in 1 .. N : w[i] = g[i]
    BY <1>2, <1>7 DEF IsWalk
  <2>2. QED
    BY <1>6, <2>1
<1>9. QED
  BY <1>1, <1>2, <1>8 DEF w

(* The loop visits mutexes. *)
LEMMA VisitedMutexes ==
  ASSUME NEW s, StateOK(s), NEW x \in Nodes
  PROVE  Visited(s, x) \subseteq Mutexes
<1> DEFINE N == Cardinality(Mutexes) + 1
<1>1. N \in Nat /\ IsWalk(Walk(s, x), N, s.mx, x)
  BY WalkFacts
<1>2. \A i \in 1 .. N : Walk(s, x)[i] \in Nodes
  BY <1>1 DEF IsWalk
<1>3. QED
  BY <1>2 DEF Visited, Nodes

(* The list of an owner, from mutex h on *)
Links(m, c, h) ==
  /\ c \in Seq(Mutexes) /\ IsInjective(c)
  /\ h = IF c = <<>> THEN NoMutex ELSE c[1]
  /\ \A i \in 1 .. Len(c) :
       m[c[i]].next = IF i = Len(c) THEN NoMutex ELSE c[i + 1]

(* ... is what the loop visits, and the loop ends. *)
LEMMA LinksVisited ==
  ASSUME NEW s, StateOK(s), NEW h \in Nodes, NEW c, Links(s.mx, c, h)
  PROVE  ~Cyclic(s, h) /\ Visited(s, h) = ToSet(c)
<1> DEFINE N == Cardinality(Mutexes)
           w == Walk(s, h)
           n == Len(c)
<1>1. N \in Nat /\ IsWalk(w, N + 1, s.mx, h)
  BY WalkFacts, MutexesFinite, FS_CardinalityType
<1>2. /\ c \in Seq(Mutexes) /\ IsInjective(c) /\ n \in Nat /\ DOMAIN c = 1 .. n
      /\ \A i \in 1 .. n : c[i] \in Mutexes
      /\ h = IF c = <<>> THEN NoMutex ELSE c[1]
      /\ \A i \in 1 .. n :
           s.mx[c[i]].next = IF i = n THEN NoMutex ELSE c[i + 1]
  BY DEF Links
<1> HIDE DEF w, N, n
<1>3. n <= N
  <2>1. c \in [1 .. n -> Mutexes]
    BY <1>2
  <2>2. c \in Injection(1 .. n, Mutexes)
    BY <1>2, <2>1 DEF Injection
  <2>3. Cardinality(1 .. n) = n
    BY <1>2, FS_Interval
  <2>4. QED
    BY <2>2, <2>3, MutexesFinite, FS_Injection DEF N
<1>4. \A i \in 1 .. N + 1 : w[i] = IF i <= n THEN c[i] ELSE NoMutex
  <2> DEFINE T == {i \in 1 .. N + 1 :
                     w[i] # IF i <= n THEN c[i] ELSE NoMutex}
  <2> SUFFICES ASSUME T # {} PROVE FALSE
    OBVIOUS
  <2>1. T \subseteq Nat
    BY <1>1
  <2> HIDE DEF T
  <2>2. PICK i \in T : \A j \in T : ~(j < i)
    BY <2>1, MinNat
  <2>3. i \in 1 .. N + 1 /\ w[i] # IF i <= n THEN c[i] ELSE NoMutex
    BY DEF T
  <2>4. CASE i = 1
    <3>1. c = <<>> <=> n = 0
      <4>1. c \in Seq(Mutexes)
        BY <1>2
      <4>2. QED
        BY <4>1, EmptySeq DEF n
    <3>2. QED
      BY <1>1, <1>2, <2>3, <2>4, <3>1 DEF IsWalk
  <2>5. CASE i # 1
    <3>1. i \in 2 .. N + 1 /\ i - 1 \in 1 .. N + 1 /\ i - 1 < i
      BY <1>1, <2>3, <2>5
    <3>2. w[i - 1] = IF i - 1 <= n THEN c[i - 1] ELSE NoMutex
      BY <2>2, <3>1 DEF T
    <3>3. w[i] = IF w[i - 1] = NoMutex THEN NoMutex ELSE s.mx[w[i - 1]].next
      BY <1>1, <3>1 DEF IsWalk
    <3>4. CASE i - 1 <= n
      <4>1. i - 1 \in 1 .. n /\ w[i - 1] = c[i - 1] /\ w[i - 1] \in Mutexes
        BY <1>2, <3>1, <3>2, <3>4
      <4>2. w[i] = IF i - 1 = n THEN NoMutex ELSE c[i - 1 + 1]
        BY <1>2, <3>3, <4>1, NoMutexNotMutex
      <4>3. QED
        BY <1>2, <2>3, <3>1, <3>4, <4>2
    <3>5. CASE ~(i - 1 <= n)
      BY <1>2, <2>3, <3>1, <3>2, <3>3, <3>5
    <3>6. QED
      BY <3>4, <3>5
  <2>6. QED
    BY <2>4, <2>5
<1>5. ~Cyclic(s, h)
  <2>1. w[N + 1] = NoMutex
    BY <1>1, <1>2, <1>3, <1>4
  <2>2. QED
    BY <2>1 DEF Cyclic, w, N
<1>6. Visited(s, h) = ToSet(c)
  <2>1. Visited(s, h) = {w[i] : i \in 1 .. N + 1} \ {NoMutex}
    BY DEF Visited, w, N
  <2>2. \A i \in 1 .. n : i \in 1 .. N + 1 /\ w[i] = c[i] /\ c[i] # NoMutex
    BY <1>1, <1>2, <1>3, <1>4, NoMutexNotMutex
  <2>3. \A i \in 1 .. N + 1 : w[i] # NoMutex => i \in 1 .. n
    BY <1>1, <1>2, <1>4
  <2>4. ToSet(c) = {c[i] : i \in 1 .. n}
    BY <1>2 DEF ToSet
  <2>5. ToSet(c) \subseteq Visited(s, h)
    BY <2>1, <2>2, <2>4
  <2>6. Visited(s, h) \subseteq ToSet(c)
    BY <2>1, <2>2, <2>3, <2>4
  <2>7. QED
    BY <2>5, <2>6
<1>7. QED
  BY <1>5, <1>6

-----------------------------------------------------------------------------
(* The priority an owner is left with. *)
LEMMA MaxFacts ==
  ASSUME NEW S, S \subseteq PrioRange, S # {}
  PROVE  Max(S) \in S /\ \A y \in S : Max(S) >= y
<1> DEFINE T == {56 - y : y \in S}
<1>1. T \subseteq Nat /\ T # {}
  <2>1. \A y \in S : y \in 0 .. 56
    BY DEF PrioRange
  <2>2. \A y \in S : 56 - y \in Nat
    BY <2>1
  <2>3. QED
    BY <2>2
<1> HIDE DEF T
<1>2. PICK i \in T : \A j \in T : ~(j < i)
  BY <1>1, MinNat
<1>3. PICK x \in S : i = 56 - x
  BY DEF T
<1>4. \A y \in S : 56 - y \in T
  BY DEF T
<1>5. \A y \in S : x >= y
  BY <1>2, <1>3, <1>4 DEF PrioRange
<1>6. QED
  BY <1>5 DEF Max

Leaves(s, t, p, Y) ==
  /\ p = PriorityLeft(s, t)
  /\ Y = {y \in Visited(s, s.mlist[t]) : s.k.objq[y] # <<>>}

LEMMA PriorityLeftFacts ==
  ASSUME NEW s, StateOK(s), NEW F, KernelOK(s.k, F), NEW t \in Threads,
         NEW p, NEW Y, Leaves(s, t, p, Y)
  PROVE  /\ p \in PrioRange /\ Y \subseteq Mutexes
         /\ p >= s.k.base[t]
         /\ \A y \in Y : p >= s.k.prio[Head(s.k.objq[y])]
         /\ \/ p = s.k.base[t]
            \/ \E y \in Y : p = s.k.prio[Head(s.k.objq[y])]
<1> DEFINE S == {s.k.base[t]} \cup {s.k.prio[Head(s.k.objq[y])] : y \in Y}
<1>1. s.mlist[t] \in Nodes
  BY DEF StateOK
<1>2. Y \subseteq Mutexes
  BY <1>1, VisitedMutexes DEF Leaves
<1>3. \A y \in Y : s.k.prio[Head(s.k.objq[y])] \in PrioRange
  <2> SUFFICES ASSUME NEW y \in Y
               PROVE  s.k.prio[Head(s.k.objq[y])] \in PrioRange
    OBVIOUS
  <2>1. IsList(s.k.objq[y]) /\ s.k.objq[y] # <<>>
    BY <1>2 DEF KernelOK, Queued, Leaves
  <2>2. Head(s.k.objq[y]) \in Threads
    BY <2>1, TailList
  <2>3. QED
    BY <2>2 DEF KernelOK, PriosOK
<1>4. S \subseteq PrioRange /\ S # {}
  BY <1>3 DEF KernelOK, PriosOK
<1>5. p = Max(S)
  BY DEF PriorityLeft, Leaves
<1> HIDE DEF S
<1>6. p \in S /\ \A y \in S : p >= y
  BY <1>4, <1>5, MaxFacts
<1>7. QED
  BY <1>2, <1>4, <1>6 DEF S

-----------------------------------------------------------------------------
(* The inductive invariant of any program. *)

Leaving == {ending} \cap Threads

TypeInv ==
  /\ MutexesOK(mx) /\ mlist \in [Threads -> Nodes]
  /\ program \in Programs
  /\ ending \in User \cup {NoThread} /\ at \in Nodes
  /\ handler = "release" <=> ending # NoThread
  /\ handler = "unblock" => at \in Mutexes

(* While the tick is handled, or a thread that ends is neither in a list   *)
(* nor freed, the kernel is on its way to what it is between the calls.    *)
KInv ==
  /\ KernelOK(k, Leaving)
  /\ handler # "tick" => HeadPositive(k)
  /\ handler = "thread" => TopRuns(k)
  /\ ending # NoThread => k.state[ending] # "Inactive"

Served ==
  \A x \in Mutexes : ToSet(k.objq[x]) # {} =>
    \/ mx[x].active /\ mx[x].lock > 0
    \/ handler = "unblock" /\ x = at

Inv1 == TypeInv /\ KInv /\ Served

(* What a step does to the threads outside S: they become ready, or run. *)
Others(S) ==
  \A u \in Threads \ S :
    \/ k'.state[u] = k.state[u]
    \/ k'.state[u] \in Runnable /\ k.state[u] \in Runnable
SameWaiters == \A x \in Mutexes : ToSet(k'.objq[x]) = ToSet(k.objq[x])
SamePrios == k'.prio = k.prio /\ k'.base = k.base

LEMMA EmptyList ==
  ASSUME NEW s, IsList(s)
  PROVE  s = <<>> <=> ToSet(s) = {}
<1>1. CASE s = <<>>
  BY <1>1 DEF ToSet
<1>2. CASE s # <<>>
  BY <1>2, TailList
<1>3. QED
  BY <1>1, <1>2

(* ... of a kernel value *)
LEMMA NoWaiters ==
  ASSUME NEW q, NEW F, KernelOK(q, F), NEW x \in Mutexes
  PROVE  q.objq[x] = <<>> <=> ToSet(q.objq[x]) = {}
BY EmptyList DEF KernelOK, Queued

(* What a service call starts with, *)
LEMMA CallStarts ==
  ASSUME Inv1, Calling
  PROVE  /\ KernelOK(k, {}) /\ HeadPositive(k) /\ TopRuns(k)
         /\ k.curr \in User /\ k.state[k.curr] = "Running"
         /\ handler = "thread" /\ ending = NoThread /\ at \in Nodes
         /\ program \in Programs
         /\ MutexesOK(mx) /\ mlist \in [Threads -> Nodes]
         /\ StateOK(State) /\ State.k = k /\ State.mx = mx
         /\ State.mlist = mlist
         /\ \A x \in Mutexes :
              ToSet(k.objq[x]) # {} => mx[x].active /\ mx[x].lock > 0
<1>1. handler = "thread" /\ k.curr # Idle
  BY DEF Calling
<1>2. ending = NoThread /\ Leaving = {}
  BY <1>1, NoThreadNotThread DEF Inv1, TypeInv, Leaving
<1>3. KernelOK(k, {}) /\ HeadPositive(k) /\ TopRuns(k)
  BY <1>1, <1>2 DEF Inv1, KInv
<1>4. k.curr \in User /\ k.state[k.curr] = "Running"
  BY <1>1, <1>3 DEF KernelOK, Runs, OneRuns, User
<1>5. MutexesOK(mx) /\ mlist \in [Threads -> Nodes]
  BY DEF Inv1, TypeInv
<1>6. QED
  BY <1>1, <1>2, <1>3, <1>4, <1>5, StateFields DEF Inv1, TypeInv, Served

(* ... and what it has to end with *)
LEMMA CallEnds ==
  ASSUME KernelOK(k', {}), HeadPositive(k'), TopRuns(k'),
         handler' = "thread", ending' = NoThread, at' \in Nodes,
         program' \in Programs,
         MutexesOK(mx'), mlist' \in [Threads -> Nodes],
         \A x \in Mutexes :
           ToSet(k'.objq[x]) # {} => mx'[x].active /\ mx'[x].lock > 0
  PROVE  Inv1'
<1>1. Leaving' = {}
  BY NoThreadNotThread DEF Leaving
<1>2. TypeInv'
  BY DEF TypeInv
<1>3. KInv' /\ Served'
  BY <1>1 DEF KInv, Served
<1>4. QED
  BY <1>2, <1>3 DEF Inv1

-----------------------------------------------------------------------------
(* The service calls keep it. *)

LEMMA MutexNewStep ==
  ASSUME Inv1, UNCHANGED program, NEW x \in Mutexes, MutexNew(x)
  PROVE  /\ Inv1' /\ k' = k
         /\ MutexesOK(mx) /\ \A z \in Mutexes \ {x} : mx'[z] = mx[z]
         /\ mx'[x] = Unlocked
<1>1. Calling /\ ~mx[x].active
  BY DEF MutexNew
<1>2. /\ KernelOK(k, {}) /\ MutexesOK(mx) /\ HeadPositive(k) /\ TopRuns(k)
      /\ \A z \in Mutexes :
           ToSet(k.objq[z]) # {} => mx[z].active /\ mx[z].lock > 0
  BY <1>1, CallStarts
<1>3. k.objq[x] = <<>>
  BY <1>1, <1>2, NoWaiters
<1>4. k' = k
  <2>1. k.objq \in [Objects -> Seq(Threads)] /\ DOMAIN k = Fields
    BY <1>2, PlacedFields DEF KernelOK
  <2>2. k \in KernelType
    BY <1>2, PlacedFields DEF KernelOK
  <2>3. [k.objq EXCEPT ![x] = <<>>] = k.objq
    BY <1>3, <2>1 DEF Mutexes
  <2>4. k' = [k EXCEPT !.objq = k.objq]
    BY <2>3 DEF MutexNew
  <2>5. QED
    BY <2>2, <2>4 DEF KernelType
<1>5. Unlocked \in MutexType
  BY DEF Unlocked, MutexType, Nodes
<1>6. /\ mx' = [mx EXCEPT ![x] = Unlocked]
      /\ mx \in [Mutexes -> MutexType] /\ mx' \in [Mutexes -> MutexType]
  BY <1>2, <1>5 DEF MutexNew, MutexesOK
<1>7. mx'[x] = Unlocked /\ \A z \in Mutexes \ {x} : mx'[z] = mx[z]
  BY <1>6
<1>8. MutexesOK(mx')
  BY <1>2, <1>6, <1>7 DEF MutexesOK, Unlocked
<1>9. Inv1'
  <2>1. \A z \in Mutexes :
          ToSet(k'.objq[z]) # {} => mx'[z].active /\ mx'[z].lock > 0
    BY <1>1, <1>2, <1>4, <1>7
  <2>2. /\ handler' = "thread" /\ ending' = NoThread /\ at' \in Nodes
        /\ program' \in Programs /\ mlist' \in [Threads -> Nodes]
    BY <1>1, CallStarts DEF MutexNew, loop
  <2>3. QED
    BY <1>2, <1>4, <1>8, <2>1, <2>2, CallEnds
<1>10. QED
  BY <1>2, <1>4, <1>7, <1>9

(* A free mutex is taken. *)
LEMMA AcquireStep ==
  ASSUME Inv1, UNCHANGED program, NEW x \in Mutexes, Acquire(x),
         NEW t, t = k.curr, NEW h, h = mlist[t]
  PROVE  /\ Inv1' /\ k' = k /\ t \in User /\ UNCHANGED <<ending, at, handler>>
         /\ mx[x].active /\ mx[x].lock = 0
         /\ mlist' = [mlist EXCEPT ![t] = x]
         /\ \A z \in Mutexes :
              /\ mx'[z].active = mx[z].active
              /\ mx'[z].lock = IF z = x THEN 1 ELSE mx[z].lock
              /\ mx'[z].owner = IF z = x THEN t ELSE mx[z].owner
              /\ mx'[z].next = IF z = x THEN h ELSE mx[z].next
              /\ mx'[z].prev = IF z = h THEN x
                               ELSE IF z = x THEN NoMutex ELSE mx[z].prev
<1> DEFINE r == Take(State, t, x)
<1>1. Calling /\ mx[x].active /\ mx[x].lock = 0 /\ Become(r)
      /\ UNCHANGED <<handler, loop>>
  BY DEF Acquire
<1>2. /\ KernelOK(k, {}) /\ HeadPositive(k) /\ TopRuns(k) /\ t \in User
      /\ StateOK(State) /\ State.k = k /\ State.mx = mx
      /\ State.mlist = mlist
      /\ handler = "thread" /\ ending = NoThread /\ at \in Nodes
      /\ program \in Programs
      /\ \A z \in Mutexes :
           ToSet(k.objq[z]) # {} => mx[z].active /\ mx[z].lock > 0
  BY <1>1, CallStarts
<1> HIDE DEF r
<1>3. /\ StateOK(r) /\ r.k = k /\ r.mlist = [mlist EXCEPT ![t] = x]
      /\ \A z \in Mutexes :
           /\ r.mx[z].active = mx[z].active
           /\ r.mx[z].lock = IF z = x THEN 1 ELSE mx[z].lock
           /\ r.mx[z].owner = IF z = x THEN t ELSE mx[z].owner
           /\ r.mx[z].next = IF z = x THEN h ELSE mx[z].next
           /\ r.mx[z].prev = IF z = h THEN x
                             ELSE IF z = x THEN NoMutex ELSE mx[z].prev
  <2>1. t \in Threads
    BY <1>2 DEF User
  <2>2. h = State.mlist[t] /\ r = Take(State, t, x)
    BY <1>2 DEF r
  <2>3. /\ StateOK(r) /\ r.k = State.k
        /\ r.mlist = [State.mlist EXCEPT ![t] = x]
        /\ \A z \in Mutexes :
             /\ r.mx[z].active = State.mx[z].active
             /\ r.mx[z].lock = IF z = x THEN 1 ELSE State.mx[z].lock
             /\ r.mx[z].owner = IF z = x THEN t ELSE State.mx[z].owner
             /\ r.mx[z].next = IF z = x THEN h ELSE State.mx[z].next
             /\ r.mx[z].prev = IF z = h THEN x
                               ELSE IF z = x THEN NoMutex ELSE State.mx[z].prev
    BY <1>2, <2>1, <2>2, TakeFacts
  <2>4. QED
    BY <1>2, <2>3
<1>4. k' = r.k /\ mx' = r.mx /\ mlist' = r.mlist
  BY <1>1 DEF Become
<1>5. MutexesOK(mx') /\ mlist' \in [Threads -> Nodes]
  BY <1>3, <1>4 DEF StateOK
<1>6. \A z \in Mutexes :
        ToSet(k'.objq[z]) # {} => mx'[z].active /\ mx'[z].lock > 0
  BY <1>2, <1>3, <1>4
<1>7. UNCHANGED <<ending, at, handler>>
  BY <1>1 DEF loop
<1>8. Inv1'
  BY <1>2, <1>3, <1>4, <1>5, <1>6, <1>7, CallEnds
<1>9. QED
  BY <1>1, <1>2, <1>3, <1>4, <1>7, <1>8

(* A recursive mutex is locked once more, or released without becoming     *)
(* free.                                                                   *)
LEMMA CountStep ==
  ASSUME Inv1, UNCHANGED program, NEW x \in Mutexes,
         AcquireAgain(x) \/ (Release(x) /\ mx[x].lock > 1)
  PROVE  /\ Inv1' /\ k' = k /\ k.curr \in User /\ Owns(k.curr, x)
         /\ UNCHANGED <<handler, mlist, ending, at>>
         /\ mx'[x].lock \in Nat \ {0}
         /\ \A z \in Mutexes :
              /\ mx'[z].active = mx[z].active
              /\ z # x => mx'[z].lock = mx[z].lock
              /\ mx'[z].owner = mx[z].owner
              /\ mx'[z].next = mx[z].next /\ mx'[z].prev = mx[z].prev
<1>1. /\ Calling /\ Owns(k.curr, x) /\ UNCHANGED <<k, handler, mlist, loop>>
      /\ \/ mx' = [mx EXCEPT ![x].lock = @ + 1]
         \/ mx' = [mx EXCEPT ![x].lock = @ - 1] /\ mx[x].lock > 1
  BY DEF AcquireAgain, Release
<1>2. /\ KernelOK(k, {}) /\ HeadPositive(k) /\ TopRuns(k) /\ k.curr \in User
      /\ MutexesOK(mx) /\ mlist \in [Threads -> Nodes]
      /\ handler = "thread" /\ ending = NoThread /\ at \in Nodes
      /\ program \in Programs
      /\ \A z \in Mutexes :
           ToSet(k.objq[z]) # {} => mx[z].active /\ mx[z].lock > 0
  BY <1>1, CallStarts
<1>3. mx[x].lock \in Nat \ {0} /\ mx \in [Mutexes -> MutexType]
  BY <1>1, <1>2, MutexFields DEF MutexesOK, Owns
<1>4. PICK v \in Nat \ {0} : mx' = [mx EXCEPT ![x].lock = v]
  BY <1>1, <1>3
<1>5. MutexSet(mx, mx', x, mx[x].active, v, mx[x].owner, mx[x].prev,
               mx[x].next)
  BY <1>3, <1>4, MutexPoint
<1>6. /\ mx'[x].lock = v
      /\ \A z \in Mutexes :
              /\ mx'[z].active = mx[z].active
              /\ z # x => mx'[z].lock = mx[z].lock
              /\ mx'[z].owner = mx[z].owner
              /\ mx'[z].next = mx[z].next /\ mx'[z].prev = mx[z].prev
  BY <1>5 DEF MutexSet
<1>7. MutexesOK(mx')
  BY <1>1, <1>2, <1>3, <1>5, <1>6 DEF MutexesOK, MutexSet, Owns
<1>8. \A z \in Mutexes :
        ToSet(k'.objq[z]) # {} => mx'[z].active /\ mx'[z].lock > 0
  BY <1>1, <1>2, <1>6
<1>9. UNCHANGED <<handler, mlist, ending, at>> /\ k' = k
  BY <1>1 DEF loop
<1>10. Inv1'
  BY <1>2, <1>7, <1>8, <1>9, CallEnds
<1>11. QED
  BY <1>1, <1>2, <1>4, <1>6, <1>9, <1>10

(* A priority is inherited or restored, the base priority stays. *)
LEMMA Moved ==
  ASSUME NEW q, NEW F, KernelOK(q, F), NEW t \in Threads, NEW p \in PrioRange,
         NEW r, r = ListSort([q EXCEPT !.prio[t] = p], t)
  PROVE  /\ KernelOK(r, F) /\ r.prio = [q.prio EXCEPT ![t] = p]
         /\ r.base = q.base /\ r.curr = q.curr /\ r.state = q.state
         /\ \A x \in Mutexes : ToSet(r.objq[x]) = ToSet(q.objq[x])
         /\ HeadPositive(q) => HeadPositive(r)
<1>1. q.base \in [Threads -> PrioRange] /\ q \in KernelType
  BY PlacedFields DEF KernelOK, PriosOK
<1>2. [q EXCEPT !.prio[t] = p] = Reprio(q, t, p, q.base)
  BY <1>1 DEF Reprio, KernelType
<1>3. QED
  BY <1>1, <1>2, Resorted

LEMMA Inherited ==
  ASSUME NEW s, KernelOK(s.k, {}), NEW x, NEW p \in PrioRange,
         NEW o, o = s.mx[x].owner, o \in Threads, NEW r, r = Inherit(s, x, p)
  PROVE  /\ KernelOK(r, {}) /\ r.base = s.k.base /\ r.curr = s.k.curr
         /\ r.state = s.k.state
         /\ r.prio = IF x \in PrioInherit /\ s.k.prio[o] < p
                       THEN [s.k.prio EXCEPT ![o] = p] ELSE s.k.prio
         /\ \A y \in Mutexes : ToSet(r.objq[y]) = ToSet(s.k.objq[y])
         /\ HeadPositive(s.k) => HeadPositive(r)
<1>1. CASE x \in PrioInherit /\ s.k.prio[o] < p
  <2>1. r = ListSort([s.k EXCEPT !.prio[o] = p], o)
    BY <1>1 DEF Inherit
  <2>2. QED
    BY <1>1, <2>1, Moved
<1>2. CASE ~(x \in PrioInherit /\ s.k.prio[o] < p)
  <2>1. r = s.k
    BY <1>2 DEF Inherit
  <2>2. QED
    BY <1>2, <2>1
<1>3. QED
  BY <1>1, <1>2

(* The running thread waits for a mutex somebody else has. *)
LEMMA AcquireWaitStep ==
  ASSUME Inv1, UNCHANGED program, NEW x \in Mutexes,
         NEW d \in program.timeouts, AcquireWait(x, d),
         NEW c, c = k.curr, NEW o, o = mx[x].owner
  PROVE  /\ Inv1' /\ UNCHANGED <<handler, mx, mlist, ending, at>>
         /\ c \in User /\ o \in Threads /\ mx[x].active /\ mx[x].lock > 0
         /\ k'.base = k.base
         /\ k'.prio = IF x \in PrioInherit /\ k.prio[o] < k.prio[c]
                        THEN [k.prio EXCEPT ![o] = k.prio[c]] ELSE k.prio
         /\ Others({c}) /\ k'.state[c] = "WaitingMutex"
         /\ \A y \in Mutexes : ToSet(k'.objq[y]) =
              IF y = x THEN ToSet(k.objq[y]) \cup {c} ELSE ToSet(k.objq[y])
<1> DEFINE k1 == Inherit(State, x, k.prio[c])
           r == Return(Enqueue(WaitEnter(k1, "WaitingMutex", d,
                                         "osErrorTimeout"), x, c))
<1>1. /\ Calling /\ mx[x].active /\ mx[x].lock > 0 /\ d # 0
      /\ k' = r /\ UNCHANGED <<handler, mx, mlist, loop>>
  BY DEF AcquireWait
<1>2. /\ KernelOK(k, {}) /\ HeadPositive(k) /\ c \in User
      /\ State.k = k /\ State.mx = mx
      /\ MutexesOK(mx) /\ mlist \in [Threads -> Nodes]
      /\ handler = "thread" /\ ending = NoThread /\ at \in Nodes
      /\ program \in Programs
      /\ \A z \in Mutexes :
           ToSet(k.objq[z]) # {} => mx[z].active /\ mx[z].lock > 0
  BY <1>1, CallStarts
<1>3. o \in Threads /\ k.prio[c] \in PrioRange /\ c \in Threads /\ c # Idle
  BY <1>1, <1>2 DEF MutexesOK, KernelOK, PriosOK, User
<1>4. d = Forever \/ d \in Nat \ {0}
  BY <1>1, <1>2, ProgramsOK
<1>5. /\ KernelOK(k1, {}) /\ k1.base = k.base /\ k1.curr = c
      /\ k1.state = k.state
      /\ k1.prio = IF x \in PrioInherit /\ k.prio[o] < k.prio[c]
                     THEN [k.prio EXCEPT ![o] = k.prio[c]] ELSE k.prio
      /\ \A y \in Mutexes : ToSet(k1.objq[y]) = ToSet(k.objq[y])
      /\ HeadPositive(k1)
  <2> DEFINE i == k1
             s == State
  <2>1. /\ s.k = k /\ s.mx[x].owner = o /\ KernelOK(s.k, {})
        /\ i = Inherit(s, x, k.prio[c])
    BY <1>2
  <2> HIDE DEF i, s
  <2>2. /\ KernelOK(i, {}) /\ i.base = s.k.base /\ i.curr = s.k.curr
        /\ i.state = s.k.state
        /\ i.prio = IF x \in PrioInherit /\ s.k.prio[o] < k.prio[c]
                      THEN [s.k.prio EXCEPT ![o] = k.prio[c]] ELSE s.k.prio
        /\ \A y \in Mutexes : ToSet(i.objq[y]) = ToSet(s.k.objq[y])
        /\ HeadPositive(s.k) => HeadPositive(i)
    BY <1>3, <2>1, Inherited
  <2>3. QED
    BY <1>2, <2>1, <2>2 DEF i
<1> HIDE DEF k1
<1>6. /\ KernelOK(r, {}) /\ TopRuns(r)
      /\ r.prio = k1.prio /\ r.base = k1.base
      /\ r.state[c] = "WaitingMutex"
      /\ \A u \in Threads \ {c} :
           \/ r.state[u] = k1.state[u]
           \/ r.state[u] \in Runnable /\ k1.state[u] \in Runnable
      /\ \A y \in Mutexes : ToSet(r.objq[y]) =
           IF y = x THEN ToSet(k1.objq[y]) \cup {c} ELSE ToSet(k1.objq[y])
      /\ HeadPositive(r)
  BY <1>3, <1>4, <1>5, Waits, SMTT(60)
<1> HIDE DEF r
<1>7. \A y \in Mutexes : ToSet(k'.objq[y]) =
        IF y = x THEN ToSet(k.objq[y]) \cup {c} ELSE ToSet(k.objq[y])
  BY <1>1, <1>5, <1>6
<1>8. UNCHANGED <<handler, mx, mlist, ending, at>>
  BY <1>1 DEF loop
<1>9. Inv1'
  <2>1. \A y \in Mutexes :
          ToSet(k'.objq[y]) # {} => mx'[y].active /\ mx'[y].lock > 0
    BY <1>1, <1>2, <1>7
  <2>2. MutexesOK(mx') /\ mlist' \in [Threads -> Nodes]
    BY <1>2, <1>8
  <2>3. QED
    BY <1>1, <1>2, <1>6, <1>8, <2>1, <2>2, CallEnds
<1>10. QED
  BY <1>1, <1>2, <1>3, <1>5, <1>6, <1>7, <1>8, <1>9 DEF Others

(* The loop over a list that does not end *)
LEMMA HangStep ==
  ASSUME Inv1, Calling, UNCHANGED program, Hang
  PROVE  Inv1'
<1>1. /\ KernelOK(k, {}) /\ HeadPositive(k) /\ ending = NoThread
      /\ at \in Nodes /\ program \in Programs
      /\ MutexesOK(mx) /\ mlist \in [Threads -> Nodes]
      /\ \A x \in Mutexes :
           ToSet(k.objq[x]) # {} => mx[x].active /\ mx[x].lock > 0
  BY CallStarts
<1>2. UNCHANGED <<k, mx, mlist, ending, at>> /\ handler' = "hung"
  BY DEF Hang, loop
<1>3. Leaving' = {}
  BY <1>1, <1>2, NoThreadNotThread DEF Leaving
<1>4. TypeInv'
  BY <1>1, <1>2 DEF TypeInv
<1>5. KInv' /\ Served'
  BY <1>1, <1>2, <1>3 DEF KInv, Served
<1>6. QED
  BY <1>4, <1>5 DEF Inv1

(* A mutex is handed over if somebody waits for it. *)
Hands(s, x, t, W, r) ==
  /\ t = Head(s.k.objq[x]) /\ W = ToSet(s.k.objq[x])
  /\ r = HandOverIfWaiting(s, x)

HandsTo(s, F, x, t, W, r) ==
  /\ StateOK(r) /\ KernelOK(r.k, F)
  /\ r.k.prio = s.k.prio /\ r.k.base = s.k.base
  /\ r.k.curr = s.k.curr
  /\ HeadPositive(s.k) => HeadPositive(r.k)
  /\ W = {} => r = s
  /\ W # {} =>
       /\ t \in Threads \ F /\ t \in W
       /\ s.k.state[t] = "WaitingMutex"
       /\ \A u \in W : s.k.prio[u] <= s.k.prio[t]
       /\ \A u \in Threads :
            r.k.state[u] = IF u = t THEN "Ready" ELSE s.k.state[u]
       /\ \A u \in Threads :
            r.mlist[u] = IF u = t THEN x ELSE s.mlist[u]
       /\ ToSet(r.k.objq[x]) = W \ {t}
       /\ \A z \in Mutexes \ {x} :
            ToSet(r.k.objq[z]) = ToSet(s.k.objq[z])
       /\ \A z \in Mutexes :
            /\ r.mx[z].active = s.mx[z].active
            /\ r.mx[z].lock = IF z = x THEN 1 ELSE s.mx[z].lock
            /\ r.mx[z].owner = IF z = x THEN t ELSE s.mx[z].owner
            /\ r.mx[z].next = IF z = x THEN s.mlist[t]
                              ELSE s.mx[z].next
            /\ r.mx[z].prev = IF z = x THEN NoMutex ELSE s.mx[z].prev

LEMMA HandedOver ==
  ASSUME NEW s, StateOK(s), NEW F \in SUBSET Threads, KernelOK(s.k, F),
         NEW x \in Mutexes, NEW t, NEW W, NEW r, Hands(s, x, t, W, r)
  PROVE  HandsTo(s, F, x, t, W, r)
<1>0. /\ t = Head(s.k.objq[x]) /\ W = ToSet(s.k.objq[x])
      /\ r = HandOverIfWaiting(s, x)
  BY DEF Hands
<1>1. s.k.objq[x] = <<>> <=> W = {}
  BY <1>0, NoWaiters
<1>2. CASE W = {}
  BY <1>0, <1>1, <1>2 DEF HandOverIfWaiting, HandsTo
<1>3. CASE W # {}
  <2> DEFINE kk == s.k
             ok == "osOK"
             q == WaitExitReady(Dequeue(kk, x), t, ok)
  <2>1. /\ r = HandOver(s, x) /\ ok \in Results /\ Wakes(kk, x, t, ok, q)
        /\ KernelOK(kk, F) /\ W = ToSet(kk.objq[x]) /\ kk = s.k
        /\ q = WaitExitReady(Dequeue(kk, x), t, ok)
    BY <1>0, <1>1, <1>3 DEF HandOverIfWaiting, Results, Wakes
  <2> HIDE DEF kk, q, ok
  <2>2. /\ t \in Threads \ F /\ kk.state[t] = "WaitingMutex"
        /\ t \in ToSet(kk.objq[x])
        /\ \A u \in ToSet(kk.objq[x]) : kk.prio[u] <= kk.prio[t]
        /\ KernelOK(q, F) /\ q.prio = kk.prio /\ q.base = kk.base
        /\ q.curr = kk.curr
        /\ \A u \in Threads :
             q.state[u] = IF u = t THEN "Ready" ELSE kk.state[u]
        /\ ToSet(q.objq[x]) = ToSet(kk.objq[x]) \ {t}
        /\ \A y \in Mutexes \ {x} : ToSet(q.objq[y]) = ToSet(kk.objq[y])
        /\ HeadPositive(kk) => HeadPositive(q)
    BY <2>1, Woken
  <2>3. /\ StateOK(r) /\ r.k = q
        /\ r.mlist = [s.mlist EXCEPT ![t] = x]
        /\ \A z \in Mutexes :
             /\ r.mx[z].active = s.mx[z].active
             /\ r.mx[z].lock = IF z = x THEN 1 ELSE s.mx[z].lock
             /\ r.mx[z].owner = IF z = x THEN t ELSE s.mx[z].owner
             /\ r.mx[z].next = IF z = x THEN s.mlist[t] ELSE s.mx[z].next
             /\ r.mx[z].prev = IF z = x THEN NoMutex ELSE s.mx[z].prev
    <3>1. t \in Threads /\ t = Head(s.k.objq[x])
      BY <1>0, <2>1, <2>2
    <3>2. q = WaitExitReady(Dequeue(s.k, x), t, "osOK")
      BY <2>1 DEF ok
    <3>3. r = HandOver(s, x)
      BY <2>1
    <3>4. /\ StateOK(r)
          /\ r.k = WaitExitReady(Dequeue(s.k, x), t, "osOK")
          /\ r.mlist = [s.mlist EXCEPT ![t] = x]
          /\ \A z \in Mutexes :
               /\ r.mx[z].active = s.mx[z].active
               /\ r.mx[z].lock = IF z = x THEN 1 ELSE s.mx[z].lock
               /\ r.mx[z].owner = IF z = x THEN t ELSE s.mx[z].owner
               /\ r.mx[z].next = IF z = x THEN s.mlist[t] ELSE s.mx[z].next
               /\ r.mx[z].prev = IF z = x THEN NoMutex ELSE s.mx[z].prev
      BY <3>1, <3>3, HandOverFacts
    <3>5. QED
      BY <3>2, <3>4
  <2>4. \A z \in Mutexes : ToSet(q.objq[z]) =
          IF z = x THEN W \ {t} ELSE ToSet(kk.objq[z])
    BY <2>1, <2>2 DEF Mutexes
  <2>5. \A u \in Threads :
          r.mlist[u] = IF u = t THEN x ELSE s.mlist[u]
    BY <2>3 DEF StateOK
  <2>6. QED
    BY <1>3, <2>1, <2>2, <2>3, <2>4, <2>5 DEF HandsTo
<1>4. QED
  BY <1>2, <1>3

(* Mutex x out of the list of its owner, with new fields active and lock *)
Unchained(r, x, a, l) ==
  LET n == mx[x].next
      p == mx[x].prev
      o == mx[x].owner
  IN  /\ StateOK(r) /\ r.k = k
      /\ \A u \in Threads :
           r.mlist[u] = IF p = NoMutex /\ u = o THEN n ELSE mlist[u]
      /\ \A z \in Mutexes :
           /\ r.mx[z].active = IF z = x THEN a ELSE mx[z].active
           /\ r.mx[z].lock = IF z = x THEN l ELSE mx[z].lock
           /\ r.mx[z].owner = mx[z].owner
           /\ r.mx[z].next = IF z = p THEN n ELSE mx[z].next
           /\ r.mx[z].prev = IF z = n THEN p ELSE mx[z].prev

LEMMA UnchainedState ==
  ASSUME MutexesOK(mx), mlist \in [Threads -> Nodes], NEW x \in Mutexes,
         mx[x].owner \in Threads, NEW r,
         NEW a \in BOOLEAN, NEW l \in Nat,
         \/ /\ r = Unchain([State EXCEPT !.mx[x].lock = 0], x)
            /\ a = mx[x].active /\ l = 0
         \/ /\ r = Unchain([State EXCEPT !.mx[x].active = FALSE], x)
            /\ a = FALSE /\ l = mx[x].lock
  PROVE  Unchained(r, x, a, l)
<1> DEFINE n == mx[x].next
           p == mx[x].prev
           o == mx[x].owner
<1>1. /\ StateOK(State) /\ State.k = k /\ State.mx = mx
      /\ State.mlist = mlist /\ mx \in [Mutexes -> MutexType]
  BY StateFields DEF MutexesOK
<1>2. PICK m : /\ r = Unchain([State EXCEPT !.mx = m], x)
               /\ MutexSet(mx, m, x, a, l, o, p, n)
  <2>1. CASE /\ r = Unchain([State EXCEPT !.mx[x].lock = 0], x)
             /\ a = mx[x].active /\ l = 0
    <3> DEFINE m == [mx EXCEPT ![x].lock = 0]
    <3>1. MutexSet(mx, m, x, a, l, o, p, n)
      BY <1>1, <2>1, MutexPoint
    <3>2. [State EXCEPT !.mx[x].lock = 0] = [State EXCEPT !.mx = m]
      BY <1>1 DEF State
    <3>3. QED
      BY <2>1, <3>1, <3>2
  <2>2. CASE /\ r = Unchain([State EXCEPT !.mx[x].active = FALSE], x)
             /\ a = FALSE /\ l = mx[x].lock
    <3> DEFINE m == [mx EXCEPT ![x].active = FALSE]
    <3>1. MutexSet(mx, m, x, a, l, o, p, n)
      BY <1>1, <2>2, MutexPoint
    <3>2. [State EXCEPT !.mx[x].active = FALSE] = [State EXCEPT !.mx = m]
      BY <1>1 DEF State
    <3>3. QED
      BY <2>2, <3>1, <3>2
  <2>3. QED
    BY <2>1, <2>2
<1> DEFINE s == [State EXCEPT !.mx = m]
<1>3. /\ s.k = k /\ s.mx = m /\ s.mlist = mlist
      /\ DOMAIN s = {"k", "mx", "mlist"}
  BY <1>1 DEF State
<1> HIDE DEF s
<1>4. /\ m[x].next = n /\ m[x].prev = p /\ m[x].owner = o /\ o \in Threads
      /\ m \in [Mutexes -> MutexType]
      /\ \A z \in Mutexes :
           /\ m[z].active = IF z = x THEN a ELSE mx[z].active
           /\ m[z].lock = IF z = x THEN l ELSE mx[z].lock
           /\ m[z].owner = mx[z].owner /\ m[z].next = mx[z].next
           /\ m[z].prev = mx[z].prev
  BY <1>2 DEF MutexSet
<1>5. StateOK(s)
  BY <1>3, <1>4 DEF StateOK, MutexesOK
<1>6. /\ StateOK(r) /\ r.k = s.k
      /\ r.mlist = IF p = NoMutex THEN [s.mlist EXCEPT ![o] = n] ELSE s.mlist
      /\ \A z \in Mutexes :
           /\ r.mx[z].active = s.mx[z].active
           /\ r.mx[z].lock = s.mx[z].lock
           /\ r.mx[z].owner = s.mx[z].owner
           /\ r.mx[z].next = IF z = p THEN n ELSE s.mx[z].next
           /\ r.mx[z].prev = IF z = n THEN p ELSE s.mx[z].prev
  <2>1. r = Unchain(s, x)
    BY <1>2 DEF s
  <2>2. n = s.mx[x].next /\ p = s.mx[x].prev /\ o = s.mx[x].owner
    BY <1>3, <1>4
  <2> HIDE DEF n, p, o
  <2>3. QED
    BY <1>4, <1>5, <2>1, <2>2, UnchainFacts
<1>7. \A u \in Threads :
        r.mlist[u] = IF p = NoMutex /\ u = o THEN n ELSE mlist[u]
  BY <1>3, <1>6
<1>8. \A z \in Mutexes :
           /\ r.mx[z].active = IF z = x THEN a ELSE mx[z].active
           /\ r.mx[z].lock = IF z = x THEN l ELSE mx[z].lock
           /\ r.mx[z].owner = mx[z].owner
           /\ r.mx[z].next = IF z = p THEN n ELSE mx[z].next
           /\ r.mx[z].prev = IF z = n THEN p ELSE mx[z].prev
  BY <1>3, <1>4, <1>6
<1>9. QED
  BY <1>3, <1>6, <1>7, <1>8 DEF Unchained

(* The effect of handing x over to t, one of the threads W that wait for   *)
(* it, on a state with mutexes m and lists l *)
GoesTo(x, t, W, m, l) ==
  /\ t \in Threads /\ t \in W /\ k.state[t] = "WaitingMutex"
  /\ \A u \in W : k.prio[u] <= k.prio[t]
  /\ k'.state[t] \in Runnable /\ Others({t})
  /\ \A u \in Threads : mlist'[u] = IF u = t THEN x ELSE l[u]
  /\ ToSet(k'.objq[x]) = W \ {t}
  /\ \A z \in Mutexes \ {x} : ToSet(k'.objq[z]) = ToSet(k.objq[z])
  /\ \A z \in Mutexes :
       /\ mx'[z].active = m[z].active
       /\ mx'[z].lock = IF z = x THEN 1 ELSE m[z].lock
       /\ mx'[z].owner = IF z = x THEN t ELSE m[z].owner
       /\ mx'[z].next = IF z = x THEN l[t] ELSE m[z].next
       /\ mx'[z].prev = IF z = x THEN NoMutex ELSE m[z].prev

(* Who waits is a thread that does not run. *)
LEMMA WaitersWait ==
  ASSUME NEW q, NEW F, KernelOK(q, F), NEW x \in Mutexes,
         NEW W, W = ToSet(q.objq[x])
  PROVE  /\ W \subseteq Threads
         /\ \A u \in W : q.state[u] = "WaitingMutex" /\ u \notin F
<1>1. IsList(q.objq[x]) /\ Queued(q, F)
  BY DEF KernelOK, Queued
<1>2. W \subseteq Threads
  BY <1>1 DEF IsList, ToSet
<1>3. QED
  BY <1>1, <1>2 DEF Queued

(* The owner of a mutex releases it for good; s is the state in which its  *)
(* priority is worked out. *)
LEMMA ReleaseStep ==
  ASSUME Inv1, UNCHANGED program, NEW x \in Mutexes, Release(x),
         ~(mx[x].lock > 1), handler' # "hung",
         NEW c, c = k.curr,
         NEW s, s = Unchain([State EXCEPT !.mx[x].lock = 0], x),
         NEW W, W = ToSet(k.objq[x]), NEW t, t = Head(k.objq[x])
  PROVE  /\ Inv1' /\ UNCHANGED <<handler, ending, at>>
         /\ c \in User /\ Owns(c, x) /\ mx[x].lock = 1
         /\ Rule("stacked") => mlist[c] = x
         /\ Unchained(s, x, mx[x].active, 0)
         /\ k'.base = k.base
         /\ \A u \in Threads \ {c} : k'.prio[u] = k.prio[u]
         /\ k'.prio[c] = IF x \in PrioInherit THEN PriorityLeft(s, c)
                         ELSE k.prio[c]
         /\ W = {} => Others({}) /\ SameWaiters /\ mx' = s.mx /\ mlist' = s.mlist
         /\ W # {} => GoesTo(x, t, W, s.mx, s.mlist)
         /\ held' = Told([held EXCEPT ![c][x] = @ - 1], x)
<1> DEFINE pl == PriorityLeft(s, c)
           s2 == IF x \in PrioInherit THEN [s EXCEPT !.k.prio[c] = pl] ELSE s
           s3 == HandOverIfWaiting(s2, x)
           r == Return(DispatchReady(s3.k))
<1>1. /\ Calling /\ Owns(c, x)
      /\ Rule("stacked") => mlist[c] = x
      /\ ReleaseLast(x)
  BY DEF Release
<1>2. /\ Become([s3 EXCEPT !.k = Return(DispatchReady(@))])
      /\ UNCHANGED <<handler, loop>>
      /\ held' = Told([held EXCEPT ![c][x] = @ - 1], x)
  BY <1>1 DEF ReleaseLast, Hang
<1> HIDE DEF s2, s3, pl
<1>3. /\ KernelOK(k, {}) /\ HeadPositive(k) /\ c \in User /\ c \in Threads
      /\ MutexesOK(mx) /\ mlist \in [Threads -> Nodes]
      /\ handler = "thread" /\ ending = NoThread /\ at \in Nodes
      /\ program \in Programs
      /\ \A z \in Mutexes :
           ToSet(k.objq[z]) # {} => mx[z].active /\ mx[z].lock > 0
  BY <1>1, CallStarts DEF User
<1>4. /\ mx[x].active \in BOOLEAN /\ mx[x].active
      /\ mx[x].lock = 1 /\ mx[x].owner = c
  BY <1>1, <1>3, MutexFields DEF MutexesOK, Owns
<1>5. Unchained(s, x, mx[x].active, 0)
  BY <1>3, <1>4, UnchainedState
<1>6. StateOK(s) /\ s.k = k /\ DOMAIN s = {"k", "mx", "mlist"}
  BY <1>5 DEF Unchained, StateOK
<1>7. pl \in PrioRange
  <2>1. KernelOK(s.k, {})
    BY <1>3, <1>6
  <2>2. QED
    <3> DEFINE Y == {y \in Visited(s, s.mlist[c]) : s.k.objq[y] # <<>>}
    <3>1. Leaves(s, c, pl, Y)
      BY DEF pl, Leaves
    <3> HIDE DEF Y
    <3>2. QED
      BY <1>3, <1>6, <2>1, <3>1, PriorityLeftFacts
<1>8. /\ StateOK(s2) /\ s2.mx = s.mx /\ s2.mlist = s.mlist
      /\ KernelOK(s2.k, {}) /\ HeadPositive(s2.k)
      /\ s2.k.base = k.base /\ s2.k.curr = c /\ s2.k.state = k.state
      /\ s2.k.objq = k.objq
      /\ \A u \in Threads \ {c} : s2.k.prio[u] = k.prio[u]
      /\ s2.k.prio[c] = IF x \in PrioInherit THEN pl ELSE k.prio[c]
  <2>1. CASE x \in PrioInherit
    <3> DEFINE q == [k EXCEPT !.prio[k.curr] = pl]
    <3>1. s2 = [s EXCEPT !.k = q]
      BY <1>6, <2>1 DEF s2
    <3>2. /\ KernelOK(q, {}) /\ q.prio = [k.prio EXCEPT ![k.curr] = pl]
          /\ q.base = k.base /\ q.curr = k.curr /\ q.state = k.state
          /\ q.objq = k.objq
          /\ HeadPositive(k) => HeadPositive(q)
      <4> DEFINE w == q
      <4>1. Lowers(k, pl, w)
        BY DEF Lowers
      <4> HIDE DEF w
      <4>2. /\ KernelOK(w, {}) /\ w.prio = [k.prio EXCEPT ![k.curr] = pl]
            /\ w.base = k.base /\ w.curr = k.curr /\ w.state = k.state
            /\ w.objq = k.objq
            /\ HeadPositive(k) => HeadPositive(w)
        BY <1>3, <1>7, <4>1, Lowered
      <4>3. QED
        BY <4>2 DEF w
    <3> HIDE DEF q
    <3>3. k.prio \in [Threads -> Int]
      BY <1>3, PlacedFields DEF KernelOK
    <3>4. s2.k = q /\ s2.mx = s.mx /\ s2.mlist = s.mlist
          /\ DOMAIN s2 = {"k", "mx", "mlist"}
      BY <1>6, <3>1
    <3>5. QED
      BY <1>3, <1>6, <2>1, <3>2, <3>3, <3>4 DEF StateOK
  <2>2. CASE x \notin PrioInherit
    BY <1>3, <1>6, <2>2 DEF s2
  <2>3. QED
    BY <2>1, <2>2
<1>9. /\ StateOK(s3) /\ KernelOK(s3.k, {})
      /\ s3.k.prio = s2.k.prio /\ s3.k.base = s2.k.base
      /\ s3.k.curr = s2.k.curr
      /\ HeadPositive(s3.k)
      /\ W = {} => s3 = s2
      /\ W # {} =>
           /\ t \in Threads /\ t \in W
           /\ k.state[t] = "WaitingMutex"
           /\ \A u \in W : s2.k.prio[u] <= s2.k.prio[t]
           /\ \A u \in Threads :
                s3.k.state[u] = IF u = t THEN "Ready" ELSE k.state[u]
           /\ \A u \in Threads :
                s3.mlist[u] = IF u = t THEN x ELSE s.mlist[u]
           /\ ToSet(s3.k.objq[x]) = W \ {t}
           /\ \A z \in Mutexes \ {x} :
                ToSet(s3.k.objq[z]) = ToSet(k.objq[z])
           /\ \A z \in Mutexes :
                /\ s3.mx[z].active = s.mx[z].active
                /\ s3.mx[z].lock = IF z = x THEN 1 ELSE s.mx[z].lock
                /\ s3.mx[z].owner = IF z = x THEN t ELSE s.mx[z].owner
                /\ s3.mx[z].next = IF z = x THEN s.mlist[t]
                                   ELSE s.mx[z].next
                /\ s3.mx[z].prev = IF z = x THEN NoMutex ELSE s.mx[z].prev
  <2> DEFINE F == {}
  <2>1. /\ F \in SUBSET Threads /\ KernelOK(s2.k, F)
        /\ Hands(s2, x, t, W, s3) /\ StateOK(s2)
    BY <1>8 DEF s3, Hands
  <2> HIDE DEF F
  <2>2. HandsTo(s2, F, x, t, W, s3)
    BY <2>1, HandedOver
  <2>3. /\ StateOK(s3) /\ KernelOK(s3.k, {})
        /\ s3.k.prio = s2.k.prio /\ s3.k.base = s2.k.base
        /\ s3.k.curr = s2.k.curr
        /\ HeadPositive(s3.k)
        /\ W = {} => s3 = s2
    BY <1>8, <2>2 DEF F, HandsTo
  <2>4. ASSUME W # {}
        PROVE  /\ t \in Threads /\ t \in W
               /\ k.state[t] = "WaitingMutex"
               /\ \A u \in W : s2.k.prio[u] <= s2.k.prio[t]
               /\ \A u \in Threads :
                    s3.k.state[u] = IF u = t THEN "Ready" ELSE k.state[u]
               /\ \A u \in Threads :
                    s3.mlist[u] = IF u = t THEN x ELSE s.mlist[u]
               /\ ToSet(s3.k.objq[x]) = W \ {t}
               /\ \A z \in Mutexes \ {x} :
                    ToSet(s3.k.objq[z]) = ToSet(k.objq[z])
               /\ \A z \in Mutexes :
                    /\ s3.mx[z].active = s.mx[z].active
                    /\ s3.mx[z].lock = IF z = x THEN 1 ELSE s.mx[z].lock
                    /\ s3.mx[z].owner = IF z = x THEN t ELSE s.mx[z].owner
                    /\ s3.mx[z].next = IF z = x THEN s.mlist[t]
                                       ELSE s.mx[z].next
                    /\ s3.mx[z].prev = IF z = x THEN NoMutex ELSE s.mx[z].prev
    <3>1. /\ t \in Threads /\ t \in W
          /\ s2.k.state[t] = "WaitingMutex"
          /\ \A u \in W : s2.k.prio[u] <= s2.k.prio[t]
          /\ \A u \in Threads :
               s3.k.state[u] = IF u = t THEN "Ready" ELSE s2.k.state[u]
          /\ \A u \in Threads :
               s3.mlist[u] = IF u = t THEN x ELSE s2.mlist[u]
          /\ ToSet(s3.k.objq[x]) = W \ {t}
          /\ \A z \in Mutexes \ {x} :
               ToSet(s3.k.objq[z]) = ToSet(s2.k.objq[z])
      BY <2>2, <2>4 DEF HandsTo
    <3>2. \A z \in Mutexes :
            /\ s3.mx[z].active = s2.mx[z].active
            /\ s3.mx[z].lock = IF z = x THEN 1 ELSE s2.mx[z].lock
            /\ s3.mx[z].owner = IF z = x THEN t ELSE s2.mx[z].owner
            /\ s3.mx[z].next = IF z = x THEN s2.mlist[t]
                               ELSE s2.mx[z].next
            /\ s3.mx[z].prev = IF z = x THEN NoMutex ELSE s2.mx[z].prev
      BY <2>2, <2>4 DEF HandsTo
    <3>3. /\ s2.k.state = k.state /\ s2.k.objq = k.objq
          /\ s2.mx = s.mx /\ s2.mlist = s.mlist
      BY <1>8
    <3>4. /\ t \in Threads /\ t \in W
          /\ k.state[t] = "WaitingMutex"
          /\ \A u \in W : s2.k.prio[u] <= s2.k.prio[t]
          /\ \A u \in Threads :
               s3.k.state[u] = IF u = t THEN "Ready" ELSE k.state[u]
          /\ \A u \in Threads :
               s3.mlist[u] = IF u = t THEN x ELSE s.mlist[u]
      BY <3>1, <3>3
    <3>5. /\ ToSet(s3.k.objq[x]) = W \ {t}
          /\ \A z \in Mutexes \ {x} :
               ToSet(s3.k.objq[z]) = ToSet(k.objq[z])
      BY <3>1, <3>3
    <3>6. \A z \in Mutexes :
            /\ s3.mx[z].active = s.mx[z].active
            /\ s3.mx[z].lock = IF z = x THEN 1 ELSE s.mx[z].lock
            /\ s3.mx[z].owner = IF z = x THEN t ELSE s.mx[z].owner
            /\ s3.mx[z].next = IF z = x THEN s.mlist[t]
                               ELSE s.mx[z].next
            /\ s3.mx[z].prev = IF z = x THEN NoMutex ELSE s.mx[z].prev
      BY <3>2, <3>3
    <3>7. QED
      BY <3>4, <3>5, <3>6
  <2>5. QED
    BY <2>3, <2>4
<1>10. k' = r /\ mx' = s3.mx /\ mlist' = s3.mlist
  BY <1>2, <1>9 DEF Become, StateOK
<1>11. /\ KernelOK(r, {}) /\ TopRuns(r) /\ Frame(s3.k, r)
       /\ r.prio = s3.k.prio /\ SameBlocked(s3.k, r)
       /\ HeadPositive(r)
  <2> DEFINE F == {}
             q == s3.k
  <2>1. /\ F \in SUBSET Threads /\ KernelOK(q, F) /\ q.curr \notin F
        /\ HeadPositive(q) /\ r = Return(DispatchReady(q))
    BY <1>9
  <2> HIDE DEF F, q, r
  <2>2. /\ KernelOK(r, F) /\ TopRuns(r) /\ Frame(q, r) /\ r.prio = q.prio
        /\ SameBlocked(q, r)
        /\ HeadPositive(q) => HeadPositive(r)
    BY <2>1, Dispatched
  <2>3. QED
    BY <2>1, <2>2 DEF F, q
<1> HIDE DEF r
<1>12. /\ k'.base = k.base /\ k'.objq = s3.k.objq
       /\ \A u \in Threads \ {c} : k'.prio[u] = k.prio[u]
       /\ k'.prio[c] = IF x \in PrioInherit THEN PriorityLeft(s, c)
                       ELSE k.prio[c]
  BY <1>8, <1>9, <1>10, <1>11 DEF Frame, pl
<1>13. UNCHANGED <<handler, ending, at>>
  BY <1>2 DEF loop
<1>14. ASSUME W = {}
       PROVE  Others({}) /\ SameWaiters /\ mx' = s.mx /\ mlist' = s.mlist
  BY <1>8, <1>9, <1>10, <1>11, <1>12, <1>14
     DEF Others, SameWaiters, SameBlocked
<1>15. ASSUME W # {} PROVE GoesTo(x, t, W, s.mx, s.mlist)
  <2>1. /\ t \in Threads /\ t \in W /\ k.state[t] = "WaitingMutex"
        /\ \A u \in Threads :
             s3.k.state[u] = IF u = t THEN "Ready" ELSE k.state[u]
    BY <1>9, <1>15
  <2>2. \A u \in W : k.prio[u] <= k.prio[t]
    <3>1. W \subseteq Threads /\ c \notin W
      <4>1. k.state[c] = "Running"
        BY <1>1, CallStarts
      <4>2. W \subseteq Threads /\ \A u \in W : k.state[u] = "WaitingMutex"
        BY <1>3, WaitersWait
      <4>3. QED
        BY <4>1, <4>2
    <3>2. QED
      BY <1>8, <1>9, <1>15, <2>1, <3>1
  <2>3. k'.state[t] \in Runnable /\ Others({t})
    BY <1>10, <1>11, <2>1 DEF SameBlocked, Runnable, Others
  <2>4. \A u \in Threads : mlist'[u] = IF u = t THEN x ELSE s.mlist[u]
    BY <1>9, <1>10, <1>15
  <2>5. /\ ToSet(k'.objq[x]) = W \ {t}
        /\ \A z \in Mutexes \ {x} : ToSet(k'.objq[z]) = ToSet(k.objq[z])
    BY <1>9, <1>12, <1>15
  <2>6. \A z \in Mutexes :
       /\ mx'[z].active = s.mx[z].active
       /\ mx'[z].lock = IF z = x THEN 1 ELSE s.mx[z].lock
       /\ mx'[z].owner = IF z = x THEN t ELSE s.mx[z].owner
       /\ mx'[z].next = IF z = x THEN s.mlist[t] ELSE s.mx[z].next
       /\ mx'[z].prev = IF z = x THEN NoMutex ELSE s.mx[z].prev
    BY <1>9, <1>10, <1>15
  <2>7. QED
    BY <2>1, <2>2, <2>3, <2>4, <2>5, <2>6 DEF GoesTo
<1>16. Inv1'
  <2>1. MutexesOK(mx') /\ mlist' \in [Threads -> Nodes]
    BY <1>9, <1>10 DEF StateOK
  <2>2. \A z \in Mutexes :
          /\ s.mx[z].active = mx[z].active
          /\ s.mx[z].lock = IF z = x THEN 0 ELSE mx[z].lock
    BY <1>5 DEF Unchained
  <2>3. \A z \in Mutexes :
          ToSet(k'.objq[z]) # {} => mx'[z].active /\ mx'[z].lock > 0
    <3>1. CASE W = {}
      BY <1>3, <1>14, <2>2, <3>1 DEF SameWaiters
    <3>2. CASE W # {}
      <4>1. /\ W = ToSet(k.objq[x]) /\ GoesTo(x, t, W, s.mx, s.mlist)
        BY <1>15, <3>2
      <4>2. mx'[x].active /\ mx'[x].lock > 0
        BY <1>4, <2>2, <4>1 DEF GoesTo
      <4>3. ASSUME NEW z \in Mutexes \ {x}, ToSet(k'.objq[z]) # {}
            PROVE  mx'[z].active /\ mx'[z].lock > 0
        <5>1. /\ ToSet(k.objq[z]) # {} /\ mx'[z].active = s.mx[z].active
              /\ mx'[z].lock = s.mx[z].lock
          BY <4>1, <4>3 DEF GoesTo
        <5>2. QED
          BY <1>3, <2>2, <4>3, <5>1
      <4>4. QED
        BY <4>2, <4>3
    <3>3. QED
      BY <3>1, <3>2
  <2>4. QED
    BY <1>3, <1>10, <1>11, <1>13, <2>1, <2>3, CallEnds
<1>17. QED
  BY <1>1, <1>2, <1>3, <1>4, <1>5, <1>12, <1>13, <1>14, <1>15, <1>16

(* A free mutex is deleted. *)
LEMMA DeleteFreeStep ==
  ASSUME Inv1, UNCHANGED program, NEW x \in Mutexes, Delete(x),
         mx[x].lock = 0
  PROVE  /\ Inv1' /\ k' = k /\ UNCHANGED <<handler, mlist, ending, at, held>>
         /\ \A z \in Mutexes :
              /\ mx'[z].active = (IF z = x THEN FALSE ELSE mx[z].active)
              /\ mx'[z].lock = mx[z].lock /\ mx'[z].owner = mx[z].owner
              /\ mx'[z].next = mx[z].next /\ mx'[z].prev = mx[z].prev
<1>1. /\ Calling /\ mx' = [mx EXCEPT ![x].active = FALSE]
      /\ UNCHANGED <<k, handler, mlist, loop, held>>
  BY DEF Delete
<1>2. /\ KernelOK(k, {}) /\ HeadPositive(k) /\ TopRuns(k)
      /\ MutexesOK(mx) /\ mlist \in [Threads -> Nodes]
      /\ handler = "thread" /\ ending = NoThread /\ at \in Nodes
      /\ program \in Programs
      /\ \A z \in Mutexes :
           ToSet(k.objq[z]) # {} => mx[z].active /\ mx[z].lock > 0
  BY <1>1, CallStarts
<1>3. mx \in [Mutexes -> MutexType]
  BY <1>2 DEF MutexesOK
<1>4. MutexSet(mx, mx', x, FALSE, mx[x].lock, mx[x].owner, mx[x].prev,
               mx[x].next)
  BY <1>1, <1>3, MutexPoint
<1>5. /\ mx' \in [Mutexes -> MutexType]
      /\ \A z \in Mutexes :
           /\ mx'[z].active = (IF z = x THEN FALSE ELSE mx[z].active)
           /\ mx'[z].lock = mx[z].lock /\ mx'[z].owner = mx[z].owner
           /\ mx'[z].next = mx[z].next /\ mx'[z].prev = mx[z].prev
  BY <1>4 DEF MutexSet
<1>6. MutexesOK(mx')
  BY <1>2, <1>5 DEF MutexesOK
<1>7. UNCHANGED <<k, handler, mlist, ending, at, held>>
  BY <1>1 DEF loop
<1>8. \A z \in Mutexes :
        ToSet(k'.objq[z]) # {} => mx'[z].active /\ mx'[z].lock > 0
  <2> SUFFICES ASSUME NEW z \in Mutexes, ToSet(k'.objq[z]) # {}
               PROVE  mx'[z].active /\ mx'[z].lock > 0
    OBVIOUS
  <2>1. mx[z].active /\ mx[z].lock > 0
    BY <1>2, <1>7
  <2>2. z # x
    BY <2>1
  <2>3. QED
    BY <1>5, <2>1, <2>2
<1>9. Inv1'
  BY <1>2, <1>6, <1>7, <1>8, CallEnds
<1>10. QED
  BY <1>5, <1>7, <1>9

(* A locked mutex is deleted: s is the state in which its owner's priority *)
(* is worked out.                                                          *)
LEMMA DeleteStep ==
  ASSUME Inv1, UNCHANGED program, NEW x \in Mutexes, Delete(x),
         mx[x].lock # 0, handler' # "hung",
         NEW o, o = mx[x].owner,
         NEW s, s = Unchain([State EXCEPT !.mx[x].active = FALSE], x)
  PROVE  /\ Inv1' /\ handler' = "unblock" /\ at' = x /\ UNCHANGED ending
         /\ Owns(o, x) /\ o \in Threads /\ ~Rule("lasting")
         /\ Rule("stacked") => mlist[o] = x
         /\ Unchained(s, x, FALSE, mx[x].lock)
         /\ k'.base = k.base /\ k'.state = k.state /\ SameWaiters
         /\ \A u \in Threads \ {o} : k'.prio[u] = k.prio[u]
         /\ k'.prio[o] = (IF x \in PrioInherit THEN PriorityLeft(s, o)
                          ELSE k.prio[o])
         /\ mx' = s.mx /\ mlist' = s.mlist
         /\ held' = [u \in Threads |-> [held[u] EXCEPT ![x] = 0]]
<1> DEFINE pl == PriorityLeft(s, o)
           k1 == IF x \in PrioInherit /\ s.k.prio[o] # pl
                   THEN ListSort([s.k EXCEPT !.prio[o] = pl], o) ELSE s.k
<1>1. /\ Calling /\ mx[x].active /\ ~Rule("lasting")
      /\ Rule("stacked") => mlist[o] = x
      /\ DeleteLocked(x)
  BY DEF Delete
<1>2. /\ Become([s EXCEPT !.k = k1]) /\ handler' = "unblock" /\ at' = x
      /\ UNCHANGED ending
      /\ held' = [u \in Threads |-> [held[u] EXCEPT ![x] = 0]]
  BY <1>1 DEF DeleteLocked, Hang
<1> HIDE DEF pl, k1
<1>3. /\ KernelOK(k, {}) /\ HeadPositive(k)
      /\ MutexesOK(mx) /\ mlist \in [Threads -> Nodes]
      /\ handler = "thread" /\ ending = NoThread /\ at \in Nodes
      /\ program \in Programs
      /\ \A z \in Mutexes :
           ToSet(k.objq[z]) # {} => mx[z].active /\ mx[z].lock > 0
  BY <1>1, CallStarts
<1>4. mx[x].lock \in Nat /\ mx[x].lock > 0 /\ o \in Threads /\ Owns(o, x)
  BY <1>1, <1>3, MutexFields DEF MutexesOK, Owns
<1>5. Unchained(s, x, FALSE, mx[x].lock)
  BY <1>3, <1>4, UnchainedState
<1>6. StateOK(s) /\ s.k = k /\ DOMAIN s = {"k", "mx", "mlist"}
  BY <1>5 DEF Unchained, StateOK
<1>7. pl \in PrioRange
  <2> DEFINE Y == {y \in Visited(s, s.mlist[o]) : s.k.objq[y] # <<>>}
  <2>1. Leaves(s, o, pl, Y)
    BY DEF pl, Leaves
  <2>2. KernelOK(s.k, {})
    BY <1>3, <1>6
  <2> HIDE DEF Y
  <2>3. QED
    BY <1>4, <1>6, <2>1, <2>2, PriorityLeftFacts
<1>8. /\ KernelOK(k1, {}) /\ HeadPositive(k1)
      /\ k1.base = k.base /\ k1.state = k.state
      /\ \A z \in Mutexes : ToSet(k1.objq[z]) = ToSet(k.objq[z])
      /\ \A u \in Threads \ {o} : k1.prio[u] = k.prio[u]
      /\ k1.prio[o] = (IF x \in PrioInherit THEN pl ELSE k.prio[o])
  <2>1. CASE x \in PrioInherit /\ k.prio[o] # pl
    <3> DEFINE F == {}
               q == k1
    <3>1. KernelOK(k, F) /\ q = ListSort([k EXCEPT !.prio[o] = pl], o)
      BY <1>3, <1>6, <2>1 DEF k1
    <3> HIDE DEF F, q
    <3>2. /\ KernelOK(q, F) /\ q.prio = [k.prio EXCEPT ![o] = pl]
          /\ q.base = k.base /\ q.curr = k.curr /\ q.state = k.state
          /\ \A z \in Mutexes : ToSet(q.objq[z]) = ToSet(k.objq[z])
          /\ HeadPositive(k) => HeadPositive(q)
      BY <1>4, <1>7, <3>1, Moved
    <3>3. k.prio \in [Threads -> Int]
      BY <1>3, PlacedFields DEF KernelOK
    <3>4. QED
      BY <1>3, <1>4, <2>1, <3>2, <3>3 DEF F, q
  <2>2. CASE ~(x \in PrioInherit /\ k.prio[o] # pl)
    BY <1>3, <1>6, <2>2 DEF k1
  <2>3. QED
    BY <2>1, <2>2
<1>9. k' = k1 /\ mx' = s.mx /\ mlist' = s.mlist
  BY <1>2, <1>6 DEF Become
<1>10. Inv1'
  <2>1. Leaving' = {}
    BY <1>2, <1>3, NoThreadNotThread DEF Leaving
  <2>2. TypeInv'
    <3>1. MutexesOK(mx') /\ mlist' \in [Threads -> Nodes]
      BY <1>6, <1>9 DEF StateOK
    <3>2. QED
      BY <1>2, <1>3, <3>1 DEF TypeInv, Nodes
  <2>3. KInv'
    BY <1>2, <1>3, <1>8, <1>9, <2>1 DEF KInv
  <2>4. Served'
    <3> SUFFICES ASSUME NEW z \in Mutexes, ToSet(k'.objq[z]) # {}, z # x
                 PROVE  mx'[z].active /\ mx'[z].lock > 0
      BY <1>2 DEF Served
    <3>1. mx[z].active /\ mx[z].lock > 0
      BY <1>3, <1>8, <1>9
    <3>2. QED
      BY <1>5, <1>9, <3>1 DEF Unchained
  <2>5. QED
    BY <2>2, <2>3, <2>4 DEF Inv1
<1>11. SameWaiters
  BY <1>8, <1>9 DEF SameWaiters
<1>12. QED
  BY <1>1, <1>2, <1>4, <1>5, <1>8, <1>9, <1>10, <1>11 DEF pl

(* The first of the threads waiting for the deleted mutex becomes ready. *)
LEMMA DeleteUnblockStep ==
  ASSUME Inv1, UNCHANGED program, DeleteUnblock,
         NEW t, t = Head(k.objq[at])
  PROVE  /\ Inv1' /\ UNCHANGED <<handler, mx, mlist, ending, at, held>>
         /\ ending = NoThread /\ SamePrios
         /\ t \in Threads /\ k.state[t] = "WaitingMutex"
         /\ k'.state[t] = "Ready"
         /\ \A u \in Threads \ {t} : k'.state[u] = k.state[u]
         /\ \A z \in Mutexes : ToSet(k'.objq[z]) = ToSet(k.objq[z]) \ {t}
<1> DEFINE F == {}
           e == "osErrorResource"
           y == at
           q == k'
<1>1. /\ handler = "unblock" /\ k.objq[y] # <<>> /\ e \in Results
      /\ q = WaitExitReady(Dequeue(k, y), t, e)
      /\ UNCHANGED <<handler, mx, mlist, loop, held>>
  BY DEF DeleteUnblock, Results
<1>2. ending = NoThread /\ at \in Mutexes /\ Leaving = {}
  BY <1>1, NoThreadNotThread DEF Inv1, TypeInv, Leaving
<1>3. KernelOK(k, F) /\ HeadPositive(k) /\ F \in SUBSET Threads
  BY <1>1, <1>2 DEF Inv1, KInv
<1>4. Wakes(k, y, t, e, q) /\ y \in Mutexes
  BY <1>1, <1>2 DEF Wakes
<1> HIDE DEF F, e, y, q
<1>5. /\ t \in Threads \ F /\ k.state[t] = "WaitingMutex"
      /\ t \in ToSet(k.objq[y])
      /\ \A u \in ToSet(k.objq[y]) : k.prio[u] <= k.prio[t]
      /\ KernelOK(q, F) /\ q.prio = k.prio /\ q.base = k.base
      /\ q.curr = k.curr
      /\ \A u \in Threads :
           q.state[u] = IF u = t THEN "Ready" ELSE k.state[u]
      /\ ToSet(q.objq[y]) = ToSet(k.objq[y]) \ {t}
      /\ \A z \in Mutexes \ {y} : ToSet(q.objq[z]) = ToSet(k.objq[z])
      /\ HeadPositive(k) => HeadPositive(q)
  BY <1>1, <1>3, <1>4, Woken
<1>6. UNCHANGED <<handler, mx, mlist, ending, at, held>>
  BY <1>1 DEF loop
<1>7. \A z \in Mutexes : ToSet(q.objq[z]) = ToSet(k.objq[z]) \ {t}
  <2> SUFFICES ASSUME NEW z \in Mutexes \ {y}
               PROVE  t \notin ToSet(k.objq[z])
    BY <1>5
  <2>1. Queued(k, F)
    BY <1>3 DEF KernelOK
  <2>2. QED
    BY <1>4, <1>5, <2>1 DEF Queued
<1>8. Inv1'
  <2>1. Leaving' = {} /\ TypeInv'
    BY <1>2, <1>6 DEF Leaving, TypeInv, Inv1
  <2>2. KInv'
    BY <1>1, <1>2, <1>3, <1>5, <1>6, <2>1 DEF KInv, q, F
  <2>3. Served'
    <3> SUFFICES ASSUME NEW z \in Mutexes, ToSet(k'.objq[z]) # {}
                 PROVE  \/ mx[z].active /\ mx[z].lock > 0
                        \/ handler = "unblock" /\ z = at
      BY <1>6 DEF Served
    <3>1. ToSet(k.objq[z]) # {}
      BY <1>7 DEF q
    <3>2. QED
      BY <3>1 DEF Inv1, Served
  <2>4. QED
    BY <2>1, <2>2, <2>3 DEF Inv1
<1>9. QED
  BY <1>2, <1>5, <1>6, <1>7, <1>8 DEF q, SamePrios

(* The deletion is over. *)
LEMMA DeleteEndStep ==
  ASSUME Inv1, UNCHANGED program, DeleteEnd
  PROVE  /\ Inv1' /\ handler' = "thread" /\ UNCHANGED <<mx, mlist, ending, held>>
         /\ ending = NoThread /\ SamePrios /\ Others({}) /\ SameWaiters
<1> DEFINE F == {}
           q == k
           r == Return(DispatchReady(q))
<1>1. /\ handler = "unblock" /\ k.objq[at] = <<>> /\ k' = r
      /\ handler' = "thread" /\ at' = NoMutex
      /\ UNCHANGED <<mx, mlist, ending, held>>
  BY DEF DeleteEnd
<1>2. ending = NoThread /\ at \in Mutexes /\ Leaving = {}
  BY <1>1, NoThreadNotThread DEF Inv1, TypeInv, Leaving
<1>3. /\ KernelOK(q, F) /\ HeadPositive(q) /\ F \in SUBSET Threads
      /\ q.curr \notin F /\ r = Return(DispatchReady(q))
  BY <1>1, <1>2 DEF Inv1, KInv
<1> HIDE DEF F, q, r
<1>4. /\ KernelOK(r, F) /\ TopRuns(r) /\ Frame(q, r) /\ r.prio = q.prio
      /\ SameBlocked(q, r) /\ \A u \in F : r.state[u] = q.state[u]
      /\ HeadPositive(q) => HeadPositive(r)
  BY <1>3, Dispatched
<1>5. k'.objq = k.objq /\ SamePrios /\ Others({}) /\ SameWaiters
  BY <1>1, <1>4 DEF Frame, SamePrios, q, Others, SameBlocked, SameWaiters
<1>6. Inv1'
  <2>1. \A z \in Mutexes :
          ToSet(k'.objq[z]) # {} => mx'[z].active /\ mx'[z].lock > 0
    <3> SUFFICES ASSUME NEW z \in Mutexes, ToSet(k.objq[z]) # {}
                 PROVE  mx[z].active /\ mx[z].lock > 0
      BY <1>1, <1>5
    <3>1. ToSet(k.objq[at]) = {}
      BY <1>1 DEF ToSet
    <3>2. QED
      BY <1>1, <3>1 DEF Inv1, Served
  <2>2. /\ KernelOK(k', {}) /\ HeadPositive(k') /\ TopRuns(k')
        /\ handler' = "thread" /\ ending' = NoThread /\ at' \in Nodes
    BY <1>1, <1>2, <1>3, <1>4 DEF F, Nodes
  <2>3. /\ program' \in Programs /\ MutexesOK(mx')
        /\ mlist' \in [Threads -> Nodes]
    BY <1>1 DEF Inv1, TypeInv
  <2>4. QED
    BY <2>1, <2>2, <2>3, CallEnds
<1>7. QED
  BY <1>1, <1>2, <1>5, <1>6

(* A thread is taken out of its lists to end. *)
LEMMA TerminateStep ==
  ASSUME Inv1, UNCHANGED program, NEW t \in User, Terminate(t)
  PROVE  /\ Inv1' /\ handler' = "release" /\ ending' = t /\ at' = mlist[t]
         /\ UNCHANGED <<mx, mlist, held>> /\ ending = NoThread
         /\ ~Rule("lasting")
         /\ k.state[t] # "Inactive" /\ SamePrios /\ k'.state = k.state
         /\ \A z \in Mutexes : ToSet(k'.objq[z]) \subseteq ToSet(k.objq[z])
<1> DEFINE k1 == ListRemove(k, t)
           r == k'
<1>1. /\ Calling /\ k.state[t] # "Inactive" /\ ~Rule("lasting")
      /\ Unlinks(k, t, k1, r)
      /\ handler' = "release" /\ ending' = t /\ at' = mlist[t]
      /\ UNCHANGED <<mx, mlist, held>>
  BY DEF Terminate, Unlinks
<1> HIDE DEF r, k1
<1>2. /\ KernelOK(k, {}) /\ HeadPositive(k) /\ ending = NoThread
      /\ program \in Programs
      /\ MutexesOK(mx) /\ mlist \in [Threads -> Nodes]
      /\ \A z \in Mutexes :
           ToSet(k.objq[z]) # {} => mx[z].active /\ mx[z].lock > 0
  BY <1>1, CallStarts
<1>3. t \in Threads
  BY DEF User
<1>4. /\ KernelOK(r, {t}) /\ r.prio = k.prio /\ r.base = k.base
      /\ r.curr = k.curr /\ r.state = k.state
      /\ \A x \in Mutexes : ToSet(r.objq[x]) = ToSet(k.objq[x]) \ {t}
      /\ HeadPositive(k) => HeadPositive(r)
  BY <1>1, <1>2, <1>3, Unlinked
<1>5. Inv1'
  <2>1. Leaving' = {t} /\ ending' # NoThread
    BY <1>1, <1>3, NoThreadNotThread DEF Leaving
  <2>2. TypeInv'
    BY <1>1, <1>2, <1>3, <2>1 DEF TypeInv
  <2>3. KInv'
    BY <1>1, <1>2, <1>4, <2>1 DEF KInv, r
  <2>4. Served'
    BY <1>1, <1>2, <1>4 DEF Served, r
  <2>5. QED
    BY <2>2, <2>3, <2>4 DEF Inv1
<1>6. QED
  BY <1>1, <1>2, <1>4, <1>5 DEF r, SamePrios

(* What the end of the thread e does with its mutex x: a robust one goes   *)
(* to the first of the threads W that wait for it.                         *)
Releases(e, x, W, t, m) ==
  /\ e = ending /\ x = at /\ W = ToSet(k.objq[x]) /\ t = Head(k.objq[x])
  /\ m = [mx EXCEPT ![x].lock = 0]

LEMMA OwnerReleaseStep ==
  ASSUME Inv1, UNCHANGED program, OwnerRelease,
         NEW e, NEW x, NEW W, NEW t, NEW m, Releases(e, x, W, t, m)
  PROVE  /\ Inv1' /\ UNCHANGED <<handler, ending>> /\ handler = "release"
         /\ e \in User /\ x \in Mutexes /\ k.state[e] # "Inactive"
         /\ at' = mx[x].next
         /\ MutexSet(mx, m, x, mx[x].active, 0, mx[x].owner, mx[x].prev,
                     mx[x].next)
         /\ k'.prio = k.prio /\ k'.base = k.base
         /\ x \notin Robust => UNCHANGED <<k, mx, mlist, held>>
         /\ x \in Robust => held' = Told([held EXCEPT ![e][x] = 0], x)
         /\ x \in Robust /\ W = {} => mx' = m /\ UNCHANGED <<k, mlist>>
         /\ x \in Robust /\ W # {} => GoesTo(x, t, W, m, mlist) /\ t # e
<1> DEFINE F == {e}
           s == [State EXCEPT !.mx[x].lock = 0]
           r == HandOverIfWaiting(s, x)
<1> /\ e = ending /\ x = at /\ W = ToSet(k.objq[x]) /\ t = Head(k.objq[x])
    /\ m = [mx EXCEPT ![x].lock = 0]
  BY DEF Releases
<1>1. /\ handler = "release" /\ x # NoMutex /\ at' = mx[x].next
      /\ Become(IF x \in Robust THEN r ELSE State)
      /\ UNCHANGED <<handler, ending>>
      /\ held' = IF x \in Robust
                   THEN Told([held EXCEPT ![e][x] = 0], x) ELSE held
  BY DEF OwnerRelease, ReleaseRobust
<1>2. /\ e \in User /\ e \in Threads /\ x \in Mutexes /\ e # NoThread
      /\ Leaving = F /\ k.state[e] # "Inactive"
      /\ KernelOK(k, F) /\ HeadPositive(k) /\ F \in SUBSET Threads
      /\ MutexesOK(mx) /\ mlist \in [Threads -> Nodes]
      /\ mx \in [Mutexes -> MutexType]
      /\ program \in Programs
      /\ \A z \in Mutexes :
           ToSet(k.objq[z]) # {} => mx[z].active /\ mx[z].lock > 0
  <2>1. e # NoThread /\ e \in User /\ x \in Mutexes
    BY <1>1 DEF Inv1, TypeInv, Nodes
  <2>2. e \in Threads /\ Leaving = F
    BY <2>1 DEF Leaving, User
  <2>3. QED
    BY <1>1, <2>1, <2>2 DEF Inv1, TypeInv, KInv, Served, MutexesOK
<1>3. MutexSet(mx, m, x, mx[x].active, 0, mx[x].owner, mx[x].prev, mx[x].next)
  BY <1>2, MutexPoint
<1>4. StateOK(State) /\ State.k = k /\ State.mx = mx /\ State.mlist = mlist
  BY <1>2, StateFields
<1>5. /\ s.k = k /\ s.mx = m /\ s.mlist = mlist
      /\ DOMAIN s = {"k", "mx", "mlist"}
  BY <1>2, <1>4 DEF State
<1> HIDE DEF s, r, F
<1>6. StateOK(s)
  BY <1>2, <1>3, <1>5 DEF StateOK, MutexesOK, MutexSet
<1>7. HandsTo(s, F, x, t, W, r)
  <2>1. Hands(s, x, t, W, r) /\ KernelOK(s.k, F)
    BY <1>2, <1>5 DEF Hands, r
  <2>2. QED
    BY <1>2, <1>6, <2>1, HandedOver
<1>8. CASE x \notin Robust
  <2>1. UNCHANGED <<k, mx, mlist, held>>
    BY <1>1, <1>4, <1>8 DEF Become
  <2>2. mx[x].next \in Nodes
    BY <1>2, MutexFields
  <2>3. Leaving' = Leaving
    BY <1>1 DEF Leaving
  <2>4. TypeInv' /\ KInv' /\ Served'
    BY <1>1, <1>2, <2>1, <2>2, <2>3 DEF Inv1, TypeInv, KInv, Served
  <2>5. QED
    BY <1>1, <1>2, <1>3, <1>8, <2>1, <2>4 DEF Inv1
<1>9. CASE x \in Robust
  <2>1. k' = r.k /\ mx' = r.mx /\ mlist' = r.mlist
    BY <1>1, <1>9 DEF Become
  <2>2. /\ StateOK(r) /\ KernelOK(k', F) /\ HeadPositive(k')
        /\ k'.prio = k.prio /\ k'.base = k.base
    BY <1>2, <1>5, <1>7, <2>1 DEF HandsTo
  <2>3. W = {} => mx' = m /\ UNCHANGED <<k, mlist>>
    BY <1>5, <1>7, <2>1 DEF HandsTo
  <2>4. ASSUME W # {} PROVE GoesTo(x, t, W, m, mlist) /\ t # e
    <3>1. t \in Threads /\ t \in W /\ t # e /\ k.state[t] = "WaitingMutex"
      BY <1>5, <1>7, <2>4 DEF HandsTo, F
    <3>2. \A u \in Threads :
            k'.state[u] = IF u = t THEN "Ready" ELSE k.state[u]
      BY <1>5, <1>7, <2>1, <2>4 DEF HandsTo
    <3>3. k'.state[t] \in Runnable /\ Others({t})
      BY <3>1, <3>2 DEF Runnable, Others
    <3>4. /\ \A u \in W : k.prio[u] <= k.prio[t]
          /\ \A u \in Threads : mlist'[u] = IF u = t THEN x ELSE mlist[u]
          /\ ToSet(k'.objq[x]) = W \ {t}
          /\ \A z \in Mutexes \ {x} : ToSet(k'.objq[z]) = ToSet(k.objq[z])
      BY <1>5, <1>7, <2>1, <2>4 DEF HandsTo
    <3>5. \A z \in Mutexes :
            /\ mx'[z].active = m[z].active
            /\ mx'[z].lock = IF z = x THEN 1 ELSE m[z].lock
            /\ mx'[z].owner = IF z = x THEN t ELSE m[z].owner
            /\ mx'[z].next = IF z = x THEN mlist[t] ELSE m[z].next
            /\ mx'[z].prev = IF z = x THEN NoMutex ELSE m[z].prev
      BY <1>5, <1>7, <2>1, <2>4 DEF HandsTo
    <3>6. QED
      BY <3>1, <3>3, <3>4, <3>5 DEF GoesTo
  <2>5. mx[x].next \in Nodes
    BY <1>2, MutexFields
  <2>6. TypeInv'
    BY <1>1, <1>2, <2>1, <2>2, <2>5 DEF StateOK, TypeInv
  <2>7. KInv'
    <3>1. Leaving' = F
      BY <1>1, <1>2 DEF Leaving
    <3>2. k'.state[e] # "Inactive"
      <4>1. CASE W = {}
        BY <1>2, <2>3, <4>1
      <4>2. CASE W # {}
        BY <1>2, <2>4, <4>2 DEF GoesTo, Others, Runnable
      <4>3. QED
        BY <4>1, <4>2
    <3>3. QED
      BY <1>1, <2>2, <3>1, <3>2 DEF KInv
  <2>8. Served'
    <3> SUFFICES ASSUME NEW z \in Mutexes, ToSet(k'.objq[z]) # {}
                 PROVE  mx'[z].active /\ mx'[z].lock > 0
      BY DEF Served
    <3>1. CASE W = {}
      <4>1. z # x /\ mx[z].active /\ mx[z].lock > 0
        BY <1>2, <2>3, <3>1
      <4>2. mx'[z].active = mx[z].active /\ mx'[z].lock = mx[z].lock
        BY <1>3, <2>3, <3>1, <4>1 DEF MutexSet
      <4>3. QED
        BY <4>1, <4>2
    <3>2. CASE W # {}
      <4>1. GoesTo(x, t, W, m, mlist)
        BY <2>4, <3>2
      <4>2. ToSet(k.objq[z]) # {}
        BY <3>2, <4>1 DEF GoesTo
      <4>3. mx[z].active /\ mx[z].lock > 0
        BY <1>2, <4>2
      <4>4. /\ mx'[z].active = m[z].active
            /\ mx'[z].lock = IF z = x THEN 1 ELSE m[z].lock
        BY <4>1 DEF GoesTo
      <4>5. QED
        BY <1>3, <4>3, <4>4 DEF MutexSet
    <3>3. QED
      BY <3>1, <3>2
  <2>9. QED
    BY <1>1, <1>2, <1>3, <1>9, <2>2, <2>3, <2>4, <2>6, <2>7, <2>8 DEF Inv1
<1>10. QED
  BY <1>8, <1>9

(* The thread has ended. *)
LEMMA TerminateEndStep ==
  ASSUME Inv1, UNCHANGED program, TerminateEnd, NEW e, e = ending
  PROVE  /\ Inv1' /\ handler' = "thread" /\ ending' = NoThread
         /\ UNCHANGED <<mx, mlist, at, held>> /\ at = NoMutex
         /\ e \in User /\ k.state[e] # "Inactive" /\ k'.state[e] = "Inactive"
         /\ SamePrios /\ Others({e}) /\ SameWaiters
<1> DEFINE k1 == IF e = k.curr THEN SwitchToReady(k) ELSE DispatchReady(k)
           r == k'
<1>1. /\ handler = "release" /\ at = NoMutex /\ handler' = "thread"
      /\ ending' = NoThread /\ UNCHANGED <<mx, mlist, at, held>>
      /\ Ends(k, e, k1, r)
  BY DEF TerminateEnd, Ends
<1> HIDE DEF r, k1
<1>2. /\ e \in User /\ e \in Threads /\ Leaving = {e}
      /\ k.state[e] # "Inactive" /\ KernelOK(k, {e}) /\ HeadPositive(k)
      /\ MutexesOK(mx) /\ mlist \in [Threads -> Nodes]
      /\ program \in Programs
      /\ \A z \in Mutexes :
           ToSet(k.objq[z]) # {} => mx[z].active /\ mx[z].lock > 0
  <2>1. e # NoThread /\ e \in User
    BY <1>1 DEF Inv1, TypeInv
  <2>2. e \in Threads /\ Leaving = {e}
    BY <2>1 DEF Leaving, User
  <2>3. QED
    BY <1>1, <2>1, <2>2 DEF Inv1, TypeInv, KInv, Served
<1>3. /\ KernelOK(r, {}) /\ TopRuns(r) /\ Frame(k, r) /\ r.prio = k.prio
      /\ r.state[e] = "Inactive"
      /\ \A u \in Threads \ {e} :
           \/ r.state[u] = k.state[u]
           \/ r.state[u] \in Runnable /\ k.state[u] \in Runnable
      /\ HeadPositive(k) => HeadPositive(r)
  BY <1>1, <1>2, Ended
<1>4. SamePrios /\ Others({e}) /\ SameWaiters
  BY <1>3 DEF Frame, r, SamePrios, Others, SameWaiters
<1>5. Inv1'
  <2>1. /\ KernelOK(k', {}) /\ HeadPositive(k') /\ TopRuns(k')
        /\ at' \in Nodes /\ program' \in Programs
        /\ MutexesOK(mx') /\ mlist' \in [Threads -> Nodes]
    BY <1>1, <1>2, <1>3 DEF r, Nodes
  <2>2. \A x \in Mutexes :
           ToSet(k'.objq[x]) # {} => mx'[x].active /\ mx'[x].lock > 0
    BY <1>1, <1>2, <1>4 DEF SameWaiters
  <2>3. QED
    BY <1>1, <2>1, <2>2, CallEnds
<1>6. QED
  BY <1>1, <1>2, <1>3, <1>4, <1>5 DEF r

(* A thread is created in a free control block. *)
LEMMA ThreadNewStep ==
  ASSUME Inv1, UNCHANGED program, NEW t \in User, NEW p \in Prios,
         ThreadNew(t, p)
  PROVE  /\ Inv1' /\ UNCHANGED <<handler, mx, ending, at>>
         /\ ending = NoThread
         /\ k.state[t] = "Inactive" /\ k'.state[t] \in Runnable
         /\ Others({t}) /\ SameWaiters
         /\ \A u \in Threads :
              /\ mlist'[u] = (IF u = t THEN NoMutex ELSE mlist[u])
              /\ k'.prio[u] = (IF u = t THEN p ELSE k.prio[u])
              /\ k'.base[u] = (IF u = t THEN p ELSE k.base[u])
<1> DEFINE r == Return(Dispatch(Fresh(k, t, p), t))
<1>1. /\ Calling /\ k.state[t] = "Inactive" /\ k' = r
      /\ mlist' = [mlist EXCEPT ![t] = NoMutex]
      /\ UNCHANGED <<handler, mx, loop>>
  BY DEF ThreadNew, Fresh
<1>2. /\ KernelOK(k, {}) /\ HeadPositive(k) /\ TopRuns(k)
      /\ handler = "thread" /\ ending = NoThread /\ at \in Nodes
      /\ program \in Programs
      /\ MutexesOK(mx) /\ mlist \in [Threads -> Nodes]
      /\ \A z \in Mutexes :
           ToSet(k.objq[z]) # {} => mx[z].active /\ mx[z].lock > 0
  BY <1>1, CallStarts
<1>3. t \in Threads /\ p \in PrioRange
  BY PriosInRange DEF User, PrioRange
<1>4. k.prio \in [Threads -> PrioRange] /\ k.base \in [Threads -> PrioRange]
  BY <1>2 DEF KernelOK, PriosOK
<1>5. /\ KernelOK(k', {}) /\ TopRuns(k') /\ k'.objq = k.objq
      /\ k'.prio = [k.prio EXCEPT ![t] = p]
      /\ k'.base = [k.base EXCEPT ![t] = p]
      /\ k'.state[t] \in Runnable
      /\ \A u \in Threads \ {t} :
           \/ k'.state[u] = k.state[u]
           \/ k'.state[u] \in Runnable /\ k.state[u] \in Runnable
      /\ HeadPositive(k) => HeadPositive(k')
  BY <1>1, <1>2, <1>3, Created
<1>6. /\ mlist' \in [Threads -> Nodes]
      /\ \A u \in Threads :
           /\ mlist'[u] = (IF u = t THEN NoMutex ELSE mlist[u])
           /\ k'.prio[u] = (IF u = t THEN p ELSE k.prio[u])
           /\ k'.base[u] = (IF u = t THEN p ELSE k.base[u])
  BY <1>1, <1>2, <1>3, <1>4, <1>5 DEF Nodes
<1>7. Others({t}) /\ SameWaiters
  BY <1>5 DEF Others, SameWaiters
<1>8. UNCHANGED <<handler, mx, ending, at>>
  BY <1>1 DEF loop
<1>9. Inv1'
  <2>1. \A x \in Mutexes :
           ToSet(k'.objq[x]) # {} => mx'[x].active /\ mx'[x].lock > 0
    BY <1>2, <1>5, <1>8
  <2>2. QED
    BY <1>2, <1>5, <1>6, <1>8, <2>1, CallEnds
<1>10. QED
  BY <1>1, <1>2, <1>5, <1>6, <1>7, <1>8, <1>9

(* The priority of a thread changes. *)
LEMMA SetPriorityStep ==
  ASSUME Inv1, UNCHANGED program, NEW t \in User, NEW p \in Prios,
         SetPriority(t, p)
  PROVE  /\ Inv1' /\ UNCHANGED <<handler, mx, mlist, ending, at, held>>
         /\ Others({}) /\ SameWaiters
         /\ \/ k' = k /\ k.prio[t] = p
            \/ \A u \in Threads :
                 /\ k'.prio[u] = (IF u = t THEN p ELSE k.prio[u])
                 /\ k'.base[u] = (IF u = t THEN p ELSE k.base[u])
<1>1. /\ Calling /\ UNCHANGED <<handler, mx, mlist, loop, held>>
      /\ k' = IF k.prio[t] = p THEN k
              ELSE Return(DispatchReady(ListSort(
                     [k EXCEPT !.prio[t] = p, !.base[t] = p], t)))
  BY DEF SetPriority
<1>2. /\ KernelOK(k, {}) /\ HeadPositive(k) /\ TopRuns(k)
      /\ handler = "thread" /\ ending = NoThread /\ at \in Nodes
      /\ program \in Programs
      /\ MutexesOK(mx) /\ mlist \in [Threads -> Nodes]
      /\ \A z \in Mutexes :
           ToSet(k.objq[z]) # {} => mx[z].active /\ mx[z].lock > 0
  BY <1>1, CallStarts
<1>3. t \in Threads /\ p \in PrioRange
  BY PriosInRange DEF User, PrioRange
<1>4. k.prio \in [Threads -> PrioRange] /\ k.base \in [Threads -> PrioRange]
  BY <1>2 DEF KernelOK, PriosOK
<1>5. UNCHANGED <<handler, mx, mlist, ending, at, held>>
  BY <1>1 DEF loop
<1>6. /\ KernelOK(k', {}) /\ TopRuns(k') /\ HeadPositive(k')
      /\ Others({}) /\ SameWaiters
      /\ \/ k' = k /\ k.prio[t] = p
         \/ \A u \in Threads :
              /\ k'.prio[u] = (IF u = t THEN p ELSE k.prio[u])
              /\ k'.base[u] = (IF u = t THEN p ELSE k.base[u])
  <2>1. CASE k.prio[t] = p
    BY <1>1, <1>2, <2>1 DEF Others, SameWaiters
  <2>2. CASE k.prio[t] # p
    <3> DEFINE F == {}
               b == [k.base EXCEPT ![t] = p]
               q == ListSort(Reprio(k, t, p, b), t)
               r == k'
    <3>1. b \in [Threads -> PrioRange]
      BY <1>3, <1>4
    <3>2. /\ KernelOK(k, F) /\ F \in SUBSET Threads
          /\ r = Return(DispatchReady(q))
      <4>1. [k EXCEPT !.prio[t] = p, !.base[t] = p] = Reprio(k, t, p, b)
        BY DEF Reprio
      <4>2. QED
        BY <1>1, <1>2, <2>2, <4>1
    <3>3. q = ListSort(Reprio(k, t, p, b), t)
      OBVIOUS
    <3>4. \A u \in Threads :
            /\ b[u] = (IF u = t THEN p ELSE k.base[u])
            /\ [k.prio EXCEPT ![t] = p][u] = (IF u = t THEN p ELSE k.prio[u])
      BY <1>4
    <3> HIDE DEF F, b, q, r
    <3>5. /\ KernelOK(q, F) /\ q.prio = [k.prio EXCEPT ![t] = p]
          /\ q.base = b /\ q.curr = k.curr /\ q.state = k.state
          /\ \A x \in Mutexes : ToSet(q.objq[x]) = ToSet(k.objq[x])
          /\ HeadPositive(k) => HeadPositive(q)
      BY <1>3, <3>1, <3>2, <3>3, Resorted
    <3>6. q.curr \notin F
      BY DEF F
    <3>7. /\ KernelOK(r, F) /\ TopRuns(r) /\ Frame(q, r) /\ r.prio = q.prio
          /\ SameBlocked(q, r) /\ \A u \in F : r.state[u] = q.state[u]
          /\ HeadPositive(q) => HeadPositive(r)
      BY <3>2, <3>5, <3>6, Dispatched
    <3>8. KernelOK(k', {}) /\ TopRuns(k') /\ HeadPositive(k')
      BY <1>2, <3>5, <3>7 DEF F, r
    <3>9. Others({}) /\ SameWaiters
      BY <3>5, <3>7 DEF r, Frame, SameBlocked, Others, SameWaiters
    <3>10. \A u \in Threads :
              /\ k'.prio[u] = (IF u = t THEN p ELSE k.prio[u])
              /\ k'.base[u] = (IF u = t THEN p ELSE k.base[u])
      BY <3>4, <3>5, <3>7 DEF r, Frame
    <3>11. QED
      BY <3>8, <3>9, <3>10
  <2>3. QED
    BY <2>1, <2>2
<1>7. Inv1'
  <2>1. \A x \in Mutexes :
           ToSet(k'.objq[x]) # {} => mx'[x].active /\ mx'[x].lock > 0
    BY <1>2, <1>5, <1>6 DEF SameWaiters
  <2>2. QED
    BY <1>2, <1>5, <1>6, <2>1, CallEnds
<1>8. QED
  BY <1>5, <1>6, <1>7

(* What the tick, and the loop of a deletion, do to threads: some become   *)
(* ready and leave the list they are in.                                   *)
Wakening ==
  /\ SamePrios
  /\ \A u \in Threads :
       \/ k'.state[u] = k.state[u]
       \/ k'.state[u] \in Runnable /\ k.state[u] # "Inactive"
  /\ \A z \in Mutexes : ToSet(k'.objq[z]) \subseteq ToSet(k.objq[z])

LEMMA TickStep ==
  ASSUME Inv1, Tick, UNCHANGED <<mx, mlist, loop, program>>
  PROVE  /\ Inv1' /\ UNCHANGED <<mx, mlist, ending, at>> /\ Wakening
         /\ handler' \in {"thread", "tick"} /\ ending = NoThread
<1> DEFINE F == {}
           q == k
           r == k'
<1>1. /\ handler \in {"thread", "tick"} /\ handler' \in {"thread", "tick"}
      /\ UNCHANGED <<mx, mlist, ending, at, program>>
  BY DEF Tick, TickBegin, TickWake, TickEnd, loop
<1>2. ending = NoThread /\ Leaving = F /\ Leaving' = F
  BY <1>1, NoThreadNotThread DEF Inv1, TypeInv, Leaving
<1>3. KernelOK(q, F) /\ F \in SUBSET Threads
  BY <1>2 DEF Inv1, KInv
<1>4. /\ KernelOK(k', F) /\ Wakening
      /\ handler' = "thread" => HeadPositive(k') /\ TopRuns(k')
  <2>1. CASE TickBegin
    <3>1. r = DelayCount(q) /\ HeadPositive(q) /\ handler' = "tick"
      BY <2>1 DEF TickBegin, Inv1, KInv
    <3>2. KernelOK(q, {})
      BY <1>3
    <3> HIDE DEF q, r, F
    <3>3. /\ KernelOK(r, {}) /\ r.prio = q.prio /\ Frame(q, r)
          /\ r.state = q.state /\ r.curr = q.curr
      BY <3>1, <3>2, Counted
    <3>4. QED
      BY <3>1, <3>3 DEF q, r, F, Frame, Wakening, SamePrios
  <2>2. CASE TickWake
    <3> DEFINE t == Head(q.dlist)
    <3>1. /\ r = DelayWake(q) /\ DelayExpired(q) /\ handler' = "tick"
          /\ KernelOK(q, {}) /\ t = Head(q.dlist)
      BY <1>3, <2>2 DEF TickWake
    <3> HIDE DEF q, r, F, t
    <3>2. /\ KernelOK(r, {}) /\ r.prio = q.prio /\ r.base = q.base
          /\ t \in Threads /\ r.curr = q.curr
          /\ q.state[t] = "WaitingMutex"
          /\ r.state = [q.state EXCEPT ![t] = "Ready"]
          /\ \A x \in Mutexes : ToSet(r.objq[x]) = ToSet(q.objq[x]) \ {t}
      BY <3>1, TimedOut
    <3>3. q.state \in [Threads -> MutexStates]
      BY <3>1 DEF KernelOK, Runs
    <3>4. \A u \in Threads :
            r.state[u] = IF u = t THEN "Ready" ELSE q.state[u]
      BY <3>2, <3>3
    <3>5. \A z \in Mutexes : ToSet(r.objq[z]) \subseteq ToSet(q.objq[z])
      BY <3>2
    <3>6. QED
      BY <3>1, <3>2, <3>4, <3>5 DEF q, r, F, Wakening, SamePrios, Runnable
  <2>3. CASE TickEnd
    <3>1. /\ r = Return(DispatchReady(q)) /\ ~DelayExpired(q)
          /\ q.curr \notin F
      BY <2>3 DEF TickEnd
    <3>2. HeadPositive(q)
      <4> SUFFICES ASSUME q.dlist # <<>>
                   PROVE  q.delay[Head(q.dlist)] > 0
        BY DEF HeadPositive
      <4>1. q.delay[Head(q.dlist)] # 0
        BY <3>1 DEF DelayExpired
      <4>2. IsList(q.dlist) /\ Placed(q, {}) /\ q \in KernelType
        BY <1>3 DEF KernelOK, Placed, ListsOK
      <4>3. Head(q.dlist) \in Threads /\ Head(q.dlist) \in ToSet(q.dlist)
        BY <4>2, TailList
      <4>4. ThreadPlaced(q, Head(q.dlist))
        BY <4>2, <4>3 DEF Placed
      <4>5. q.delay[Head(q.dlist)] \in Int
        BY <4>2, <4>3 DEF KernelType
      <4>6. QED
        BY <4>1, <4>3, <4>4, <4>5 DEF ThreadPlaced
    <3> HIDE DEF q, r, F
    <3>3. /\ KernelOK(r, F) /\ TopRuns(r) /\ Frame(q, r) /\ r.prio = q.prio
          /\ SameBlocked(q, r) /\ \A u \in F : r.state[u] = q.state[u]
          /\ HeadPositive(q) => HeadPositive(r)
      BY <1>3, <3>1, Dispatched
    <3>4. Wakening
      BY <3>3 DEF q, r, Frame, Wakening, SamePrios, SameBlocked, Runnable
    <3>5. QED
      BY <3>2, <3>3, <3>4 DEF r
  <2>4. QED
    BY <2>1, <2>2, <2>3 DEF Tick
<1>5. Inv1'
  <2>1. TypeInv'
    BY <1>1, <1>2 DEF Inv1, TypeInv
  <2>2. KInv'
    BY <1>1, <1>2, <1>4 DEF KInv
  <2>3. Served'
    <3> SUFFICES ASSUME NEW x \in Mutexes, ToSet(k'.objq[x]) # {}
                 PROVE  mx[x].active /\ mx[x].lock > 0
      BY <1>1 DEF Served
    <3>1. ToSet(k.objq[x]) # {}
      BY <1>4 DEF Wakening
    <3>2. QED
      BY <1>1, <3>1 DEF Inv1, Served
  <2>4. QED
    BY <2>1, <2>2, <2>3 DEF Inv1
<1>6. QED
  BY <1>1, <1>2, <1>4, <1>5

LEMMA Inv1Starts ==
  ASSUME Init
  PROVE  Inv1 /\ k.base = k.prio /\ \A t \in Threads : k.state[t] # "WaitingMutex"
<1>1. /\ program \in Programs /\ KernelInit(program.threads)
      /\ mx = [x \in Mutexes |-> Unlocked]
      /\ mlist = [t \in Threads |-> NoMutex]
      /\ ending = NoThread /\ at = NoMutex
  BY DEF Init
<1>2. /\ KernelOK(k, {}) /\ TopRuns(k) /\ HeadPositive(k)
      /\ k.base = k.prio /\ handler = "thread"
      /\ \A t \in Threads : k.state[t] # "WaitingMutex"
      /\ \A x \in Mutexes : k.objq[x] = <<>>
  <2> DEFINE E == program.threads
  <2>1. E \in SUBSET User /\ IsFiniteSet(E) /\ KernelInit(E)
    BY <1>1, ProgramsOK
  <2> HIDE DEF E
  <2>2. QED
    BY <2>1, KernelStarts
<1>3. Leaving = {}
  BY <1>1, NoThreadNotThread DEF Leaving
<1>4. MutexesOK(mx)
  BY <1>1 DEF MutexesOK, Unlocked, MutexType, Nodes
<1>5. mlist \in [Threads -> Nodes]
  BY <1>1 DEF Nodes
<1>6. TypeInv
  BY <1>1, <1>2, <1>4, <1>5 DEF TypeInv, Nodes
<1>7. KInv
  BY <1>1, <1>2, <1>3 DEF KInv
<1>8. Served
  BY <1>2 DEF Served, ToSet
<1>9. QED
  BY <1>2, <1>6, <1>7, <1>8 DEF Inv1

-----------------------------------------------------------------------------
(* What holds of any program. *)

LEMMA Inv1Kept ==
  ASSUME Inv1, [Next]_vars
  PROVE  Inv1'
<1>1. ASSUME NEW x \in Mutexes, MutexNew(x), UNCHANGED program
      PROVE  Inv1'
  BY <1>1, MutexNewStep
<1>2. ASSUME NEW x \in Mutexes, Acquire(x), UNCHANGED program
      PROVE  Inv1'
  BY <1>2, AcquireStep
<1>3. ASSUME NEW x \in Mutexes, AcquireAgain(x), UNCHANGED program
      PROVE  Inv1'
  BY <1>3, CountStep
<1>4. ASSUME NEW x \in Mutexes, NEW d \in program.timeouts, AcquireWait(x, d),
             UNCHANGED program
      PROVE  Inv1'
  BY <1>4, AcquireWaitStep
<1>5. ASSUME NEW x \in Mutexes, Release(x), UNCHANGED program
      PROVE  Inv1'
  <2>1. CASE mx[x].lock > 1
    BY <1>5, <2>1, CountStep
  <2>2. CASE ~(mx[x].lock > 1) /\ handler' # "hung"
    <3> DEFINE c == k.curr
               s == Unchain([State EXCEPT !.mx[x].lock = 0], x)
               W == ToSet(k.objq[x])
               t == Head(k.objq[x])
    <3>1. /\ c = k.curr /\ s = Unchain([State EXCEPT !.mx[x].lock = 0], x)
          /\ W = ToSet(k.objq[x]) /\ t = Head(k.objq[x])
      OBVIOUS
    <3> HIDE DEF c, s, W, t
    <3>2. QED
      BY <1>5, <2>2, <3>1, ReleaseStep
  <2>3. CASE ~(mx[x].lock > 1) /\ handler' = "hung"
    <3>1. Calling /\ handler = "thread"
      BY <1>5 DEF Release, Calling
    <3>2. Hang
      BY <1>5, <2>3, <3>1 DEF Release, ReleaseLast
    <3>3. QED
      BY <1>5, <3>1, <3>2, HangStep
  <2>4. QED
    BY <2>1, <2>2, <2>3
<1>6. ASSUME NEW x \in Mutexes, Delete(x), UNCHANGED program
      PROVE  Inv1'
  <2>1. CASE mx[x].lock = 0
    BY <1>6, <2>1, DeleteFreeStep
  <2>2. CASE mx[x].lock # 0 /\ handler' # "hung"
    <3> DEFINE o == mx[x].owner
               s == Unchain([State EXCEPT !.mx[x].active = FALSE], x)
    <3>1. o = mx[x].owner /\ s = Unchain([State EXCEPT !.mx[x].active = FALSE], x)
      OBVIOUS
    <3> HIDE DEF o, s
    <3>2. QED
      BY <1>6, <2>2, <3>1, DeleteStep
  <2>3. CASE mx[x].lock # 0 /\ handler' = "hung"
    <3>1. Calling /\ Hang
      BY <1>6, <2>3 DEF Delete, DeleteLocked
    <3>2. QED
      BY <1>6, <3>1, HangStep
  <2>4. QED
    BY <2>1, <2>2, <2>3
<1>7. ASSUME DeleteUnblock \/ DeleteEnd, UNCHANGED program
      PROVE  Inv1'
  BY <1>7, DeleteUnblockStep, DeleteEndStep
<1>8. ASSUME NEW t \in User, Terminate(t), UNCHANGED program
      PROVE  Inv1'
  BY <1>8, TerminateStep
<1>9. ASSUME OwnerRelease, UNCHANGED program
      PROVE  Inv1'
  <2> DEFINE W == ToSet(k.objq[at])
             t == Head(k.objq[at])
             m == [mx EXCEPT ![at].lock = 0]
  <2>1. Releases(ending, at, W, t, m)
    BY DEF Releases
  <2> HIDE DEF W, t, m
  <2>2. QED
    BY <1>9, <2>1, OwnerReleaseStep
<1>10. ASSUME TerminateEnd, UNCHANGED program
       PROVE  Inv1'
  BY <1>10, TerminateEndStep
<1>11. ASSUME NEW t \in User, NEW p \in Prios, UNCHANGED program,
              ThreadNew(t, p) \/ SetPriority(t, p)
       PROVE  Inv1'
  BY <1>11, ThreadNewStep, SetPriorityStep
<1>12. ASSUME Tick, UNCHANGED <<mx, mlist, loop, held, asked, program>>
       PROVE  Inv1'
  BY <1>12, TickStep
<1>13. ASSUME UNCHANGED vars
       PROVE  Inv1'
  BY <1>13 DEF vars, loop, Inv1, TypeInv, KInv, Served, Leaving
<1>14. QED
  BY <1>1, <1>2, <1>3, <1>4, <1>5, <1>6, <1>7, <1>8, <1>9, <1>10, <1>11,
     <1>12, <1>13 DEF Next, ServiceCall

LEMMA Inv1Holds == Spec => []Inv1
<1>1. Init => Inv1
  BY Inv1Starts
<1>2. Inv1 /\ [Next]_vars => Inv1'
  BY Inv1Kept
<1>3. QED
  BY <1>1, <1>2, PTL DEF Spec

(* Every thread that waits for a mutex is in its list, in the order of     *)
(* priority, and only mutexes that are locked, or being deleted, have any, *)
(* whatever is acquired, released, deleted, terminated or reprioritised.   *)
THEOREM WaitersServedHolds == Spec => []WaitersServed
<1>1. Inv1 => WaitersServed
  <2> SUFFICES ASSUME Inv1 PROVE WaitersServed
    OBVIOUS
  <2>1. KernelOK(k, Leaving) /\ Queued(k, Leaving)
    BY DEF Inv1, KInv, KernelOK
  <2>2. ASSUME handler # "release" PROVE WaitersListed("WaitingMutex")
    <3>1. Leaving = {}
      BY <2>2, NoThreadNotThread DEF Inv1, TypeInv, Leaving
    <3>2. Queued(k, {})
      BY <2>1, <3>1
    <3>3. ASSUME NEW t \in Threads
          PROVE  Cardinality({o \in Objects : t \in ToSet(k.objq[o])}) =
                   IF k.state[t] = "WaitingMutex" THEN 1 ELSE 0
      <4> DEFINE S == {o \in Objects : t \in ToSet(k.objq[o])}
      <4>1. CASE k.state[t] = "WaitingMutex"
        <5>1. PICK x \in Mutexes : t \in ToSet(k.objq[x])
          BY <3>2, <4>1 DEF Queued
        <5>2. S = {x}
          BY <3>2, <5>1 DEF Queued, Mutexes
        <5>3. Cardinality(S) = 1
          BY <5>2, FS_Singleton
        <5>4. QED
          BY <4>1, <5>3
      <4>2. CASE k.state[t] # "WaitingMutex"
        <5>1. S = {}
          BY <3>2, <4>2 DEF Queued, Mutexes
        <5>2. Cardinality(S) = 0
          BY <5>1, FS_EmptySet
        <5>3. QED
          BY <4>2, <5>2
      <4>3. QED
        BY <4>1, <4>2
    <3>4. \A o \in Objects : IsInjective(k.objq[o]) /\ Sorted(k.prio, k.objq[o])
      BY <3>2 DEF Queued, Mutexes, IsList
    <3>5. QED
      BY <3>3, <3>4 DEF WaitersListed
  <2>3. ASSUME NEW x \in Mutexes, k.objq[x] # <<>>
        PROVE  \/ mx[x].active /\ mx[x].lock > 0
               \/ handler = "unblock" /\ x = at
    <3>1. ToSet(k.objq[x]) # {}
      BY <2>1, <2>3, NoWaiters
    <3>2. QED
      BY <3>1 DEF Inv1, Served
  <2>4. QED
    BY <2>2, <2>3 DEF WaitersServed
<1>2. QED
  BY <1>1, Inv1Holds, PTL

(* Between the calls the thread that runs has the highest priority, with   *)
(* what it has inherited, of those that could run.                         *)
THEOREM HighestPriorityRunsHolds == Spec => []HighestPriorityRuns
<1>1. Inv1 => HighestPriorityRuns
  <2> SUFFICES ASSUME Inv1, handler = "thread", NEW i \in DOMAIN k.ready
               PROVE  k.prio[k.ready[i]] <= k.prio[k.curr]
    BY DEF HighestPriorityRuns, NoneHigherReady
  <2>1. TopRuns(k) /\ k.next = k.curr
    BY DEF Inv1, KInv, KernelOK, Runs
  <2>2. k.ready[i] \in ToSet(k.ready)
    BY DEF ToSet
  <2>3. QED
    BY <2>1, <2>2 DEF TopRuns
<1>2. QED
  BY <1>1, Inv1Holds, PTL

-----------------------------------------------------------------------------
(* The lists of owned mutexes, as sequences.                               *)

OwnedBy(m, t) == {x \in Mutexes : m[x].active /\ m[x].lock > 0 /\ m[x].owner = t}

(* owner_prev leads back, except where a mutex was handed over to a thread *)
(* that had others, when the list is loose.                                *)
Backs(m, c, loose) ==
  \A i \in 1 .. Len(c) :
    \/ m[c[i]].prev = IF i = 1 THEN NoMutex ELSE c[i - 1]
    \/ loose /\ m[c[i]].prev = NoMutex

(* From h the links lead to the mutexes of S and to no other ... *)
Path(m, h, S) == \E c : Links(m, c, h) /\ ToSet(c) = S

(* ... and back *)
Chain(m, h, S, loose) ==
  \E c : Links(m, c, h) /\ Backs(m, c, loose) /\ ToSet(c) = S

LEMMA LinksFacts ==
  ASSUME NEW m, NEW c, NEW h, Links(m, c, h), NEW n, n = Len(c)
  PROVE  /\ c \in Seq(Mutexes) /\ n \in Nat /\ DOMAIN c = 1 .. n
         /\ \A i \in 1 .. n : c[i] \in Mutexes
         /\ \A i, j \in 1 .. n : c[i] = c[j] => i = j
         /\ n = 0 => h = NoMutex
         /\ n > 0 => h = c[1] /\ h \in Mutexes
         /\ \A i \in 1 .. n : m[c[i]].next = IF i = n THEN NoMutex ELSE c[i + 1]
         /\ \A z \in ToSet(c) : \E i \in 1 .. n : z = c[i]
         /\ \A i \in 1 .. n : c[i] \in ToSet(c)
<1>1. /\ c \in Seq(Mutexes) /\ n \in Nat /\ DOMAIN c = 1 .. n
      /\ \A i \in 1 .. n : c[i] \in Mutexes
  BY DEF Links
<1>2. \A i, j \in 1 .. n : c[i] = c[j] => i = j
  BY <1>1 DEF Links, IsInjective
<1>3. n = 0 => h = NoMutex
  BY <1>1 DEF Links
<1>4. n > 0 => h = c[1] /\ h \in Mutexes
  BY <1>1 DEF Links
<1>5. \A i \in 1 .. n : m[c[i]].next = IF i = n THEN NoMutex ELSE c[i + 1]
  BY DEF Links
<1>6. /\ \A z \in ToSet(c) : \E i \in 1 .. n : z = c[i]
      /\ \A i \in 1 .. n : c[i] \in ToSet(c)
  BY <1>1 DEF ToSet
<1>7. QED
  BY <1>1, <1>2, <1>3, <1>4, <1>5, <1>6

Linked(m, c, h, n) ==
  /\ c \in Seq(Mutexes) /\ n = Len(c)
  /\ \A i, j \in 1 .. n : c[i] = c[j] => i = j
  /\ n = 0 => h = NoMutex
  /\ n > 0 => h = c[1]
  /\ \A i \in 1 .. n : m[c[i]].next = IF i = n THEN NoMutex ELSE c[i + 1]

LEMMA LinksFrom ==
  ASSUME NEW m, NEW c, NEW h, NEW n, Linked(m, c, h, n)
  PROVE  Links(m, c, h)
<1>1. c \in Seq(Mutexes) /\ DOMAIN c = 1 .. n /\ n \in Nat /\ n = Len(c)
  BY DEF Linked
<1>2. IsInjective(c)
  BY <1>1 DEF IsInjective, Linked
<1>3. h = IF c = <<>> THEN NoMutex ELSE c[1]
  BY <1>1 DEF Linked
<1>4. QED
  BY <1>1, <1>2, <1>3 DEF Links, Linked

(* The empty list *)
LEMMA ChainEmpty ==
  ASSUME NEW m, NEW l
  PROVE  Chain(m, NoMutex, {}, l)
<1> DEFINE c == <<>>
<1>1. c \in Seq(Mutexes) /\ Len(c) = 0 /\ ToSet(c) = {}
  BY DEF ToSet
<1> HIDE DEF c
<1>2. Links(m, c, NoMutex)
  <2>1. Linked(m, c, NoMutex, 0)
    BY <1>1 DEF Linked
  <2>2. QED
    BY <2>1, LinksFrom
<1>3. Backs(m, c, l)
  BY <1>1 DEF Backs
<1>4. QED
  BY <1>1, <1>2, <1>3 DEF Chain

(* The first mutex *)
LEMMA PathHead ==
  ASSUME NEW m, NEW h, NEW S, Path(m, h, S)
  PROVE  /\ S \subseteq Mutexes /\ h \in S \cup {NoMutex}
         /\ h = NoMutex <=> S = {}
<1>1. PICK c : Links(m, c, h) /\ ToSet(c) = S
  BY DEF Path
<1> DEFINE n == Len(c)
<1>2. /\ c \in Seq(Mutexes) /\ n \in Nat /\ DOMAIN c = 1 .. n
      /\ \A i \in 1 .. n : c[i] \in Mutexes
      /\ n = 0 => h = NoMutex
      /\ n > 0 => h = c[1] /\ h \in Mutexes
      /\ \A z \in ToSet(c) : \E i \in 1 .. n : z = c[i]
      /\ \A i \in 1 .. n : c[i] \in ToSet(c)
  BY <1>1, LinksFacts
<1> HIDE DEF n
<1>3. QED
  BY <1>1, <1>2, NoMutexNotMutex

LEMMA ChainPath ==
  ASSUME NEW m, NEW h, NEW S, NEW l, Chain(m, h, S, l)
  PROVE  Path(m, h, S)
BY DEF Chain, Path

(* What is not in the list may change. *)
LEMMA PathKept ==
  ASSUME NEW m, NEW h, NEW S, Path(m, h, S), NEW r,
         \A z \in S : r[z].next = m[z].next
  PROVE  Path(r, h, S)
<1>1. PICK c : Links(m, c, h) /\ ToSet(c) = S
  BY DEF Path
<1>2. \A i \in DOMAIN c : c[i] \in S
  BY <1>1 DEF ToSet
<1>3. Links(r, c, h)
  BY <1>1, <1>2 DEF Links
<1>4. QED
  BY <1>1, <1>3 DEF Path

LEMMA ChainKept ==
  ASSUME NEW m, NEW h, NEW S, NEW l, Chain(m, h, S, l), NEW r,
         \A z \in S : r[z].next = m[z].next /\ r[z].prev = m[z].prev
  PROVE  Chain(r, h, S, l)
<1>1. PICK c : Links(m, c, h) /\ Backs(m, c, l) /\ ToSet(c) = S
  BY DEF Chain
<1>2. c \in Seq(Mutexes) /\ \A i \in 1 .. Len(c) : c[i] \in S
  BY <1>1 DEF ToSet, Links
<1>3. Links(r, c, h)
  BY <1>1, <1>2 DEF Links
<1>4. Backs(r, c, l)
  BY <1>1, <1>2 DEF Backs
<1>5. QED
  BY <1>1, <1>3, <1>4 DEF Chain

(* A new head: the old one leads back to it, or the list is loose *)
Pushes(m, h, S, l, x, r) ==
  /\ r[x].next = h /\ r[x].prev = NoMutex
  /\ \A z \in S : r[z].next = m[z].next
  /\ \/ \A z \in S : r[z].prev = IF z = h THEN x ELSE m[z].prev
     \/ (l \/ S = {}) /\ \A z \in S : r[z].prev = m[z].prev

LEMMA ChainPush ==
  ASSUME NEW m, NEW h, NEW S, NEW l \in BOOLEAN, Chain(m, h, S, l),
         NEW x \in Mutexes \ S, NEW r, Pushes(m, h, S, l, x, r)
  PROVE  Chain(r, x, S \cup {x}, l)
<1> /\ r[x].next = h /\ r[x].prev = NoMutex
    /\ \A z \in S : r[z].next = m[z].next
    /\ \/ \A z \in S : r[z].prev = IF z = h THEN x ELSE m[z].prev
       \/ (l \/ S = {}) /\ \A z \in S : r[z].prev = m[z].prev
  BY DEF Pushes
<1>1. PICK c : Links(m, c, h) /\ Backs(m, c, l) /\ ToSet(c) = S
  BY DEF Chain
<1> DEFINE n == Len(c)
           y == <<x>>
           d == y \o c
<1>2. /\ c \in Seq(Mutexes) /\ n \in Nat /\ DOMAIN c = 1 .. n
      /\ \A i \in 1 .. n : c[i] \in Mutexes
      /\ \A i, j \in 1 .. n : c[i] = c[j] => i = j
      /\ n = 0 => h = NoMutex
      /\ n > 0 => h = c[1] /\ h \in Mutexes
      /\ \A i \in 1 .. n : m[c[i]].next = IF i = n THEN NoMutex ELSE c[i + 1]
      /\ \A z \in ToSet(c) : \E i \in 1 .. n : z = c[i]
      /\ \A i \in 1 .. n : c[i] \in ToSet(c)
  BY <1>1, LinksFacts
<1>3. \A i \in 1 .. n :
        \/ m[c[i]].prev = IF i = 1 THEN NoMutex ELSE c[i - 1]
        \/ l /\ m[c[i]].prev = NoMutex
  BY <1>1 DEF Backs
<1>4. /\ d \in Seq(Mutexes) /\ Len(d) = n + 1
      /\ \A i \in 1 .. n + 1 : d[i] = IF i = 1 THEN x ELSE c[i - 1]
  <2>1. y \in Seq(Mutexes) /\ Len(y) = 1 /\ y[1] = x /\ c \in Seq(Mutexes)
    <3>1. x \in Mutexes /\ c \in Seq(Mutexes)
      BY <1>2
    <3>2. y \in Seq(Mutexes)
      BY <3>1
    <3>3. Len(y) = 1 /\ y[1] = x
      OBVIOUS
    <3>4. QED
      BY <3>1, <3>2, <3>3
  <2> HIDE DEF y
  <2>2. /\ d \in Seq(Mutexes) /\ Len(d) = Len(y) + Len(c)
        /\ \A i \in 1 .. Len(y) + Len(c) :
             d[i] = IF i <= Len(y) THEN y[i] ELSE c[i - Len(y)]
    BY <2>1, ConcatProperties
  <2> HIDE DEF d, n
  <2>3. n = Len(c) /\ n \in Nat
    BY <1>2 DEF n
  <2>4. QED
    BY <2>1, <2>2, <2>3
<1> HIDE DEF n, d, y
<1>5. d[1] = x /\ \A i \in 1 .. n : d[i + 1] = c[i]
  BY <1>2, <1>4
<1>6. \A i \in 2 .. n + 1 : d[i] = c[i - 1] /\ i - 1 \in 1 .. n
  BY <1>2, <1>4
<1>7. ToSet(d) = S \cup {x}
  <2>1. DOMAIN d = 1 .. n + 1
    BY <1>4
  <2>2. \A z \in ToSet(d) : z \in S \cup {x}
    <3> SUFFICES ASSUME NEW i \in 1 .. n + 1 PROVE d[i] \in S \cup {x}
      BY <2>1 DEF ToSet
    <3>1. CASE i = 1
      BY <1>5, <3>1
    <3>2. CASE i # 1
      BY <1>1, <1>2, <1>6, <3>2
    <3>3. QED
      BY <3>1, <3>2
  <2>3. x \in ToSet(d)
    BY <1>2, <1>5, <2>1 DEF ToSet
  <2>4. ASSUME NEW z \in S PROVE z \in ToSet(d)
    <3>1. PICK i \in 1 .. n : z = c[i]
      BY <1>1, <1>2
    <3>2. d[i + 1] = z /\ i + 1 \in 1 .. n + 1
      BY <1>2, <1>5, <3>1
    <3>3. QED
      BY <2>1, <3>2 DEF ToSet
  <2>5. QED
    BY <2>2, <2>3, <2>4
<1>8. \A i, j \in 1 .. n + 1 : d[i] = d[j] => i = j
  <2>1. \A i \in 2 .. n + 1 : d[i] # x
    BY <1>1, <1>2, <1>6
  <2>2. ASSUME NEW i \in 2 .. n + 1, NEW j \in 2 .. n + 1, d[i] = d[j]
        PROVE  i = j
    <3> DEFINE a == i - 1
               b == j - 1
    <3>1. d[i] = c[a] /\ a \in 1 .. n /\ d[j] = c[b] /\ b \in 1 .. n
      BY <1>6
    <3> HIDE DEF a, b
    <3>2. \A e, f \in 1 .. n : c[e] = c[f] => e = f
      BY <1>2
    <3>3. c[a] = c[b]
      BY <2>2, <3>1
    <3>4. a = b
      BY <3>1, <3>2, <3>3
    <3>5. QED
      BY <1>2, <3>4 DEF a, b
  <2>3. QED
    BY <1>2, <1>5, <2>1, <2>2
<1>9. \A i \in 1 .. n + 1 : r[d[i]].next = IF i = n + 1 THEN NoMutex ELSE d[i + 1]
  <2> SUFFICES ASSUME NEW i \in 1 .. n + 1
               PROVE  r[d[i]].next = IF i = n + 1 THEN NoMutex ELSE d[i + 1]
    OBVIOUS
  <2>1. CASE i = 1
    <3>1. r[d[i]].next = h
      BY <1>5, <2>1
    <3>2. CASE n = 0
      BY <1>2, <2>1, <3>1, <3>2
    <3>3. CASE n > 0
      <4>1. d[i + 1] = c[1] /\ i # n + 1
        BY <1>2, <1>5, <2>1, <3>3
      <4>2. QED
        BY <1>2, <3>1, <3>3, <4>1
    <3>4. QED
      BY <1>2, <3>2, <3>3
  <2>2. CASE i # 1
    <3> DEFINE j == i - 1
    <3>1. j \in 1 .. n /\ d[i] = c[j] /\ i = j + 1 /\ (i = n + 1 <=> j = n)
      BY <1>2, <1>6, <2>2
    <3> HIDE DEF j
    <3>2. r[c[j]].next = m[c[j]].next
      BY <1>1, <1>2, <3>1
    <3>3. m[c[j]].next = IF j = n THEN NoMutex ELSE c[j + 1]
      BY <1>2, <3>1
    <3>4. j # n => d[i + 1] = c[j + 1]
      BY <1>2, <1>5, <3>1
    <3>5. QED
      BY <3>1, <3>2, <3>3, <3>4
  <2>3. QED
    BY <2>1, <2>2
<1>10. Links(r, d, x)
  <2>1. Linked(r, d, x, n + 1)
    BY <1>2, <1>4, <1>5, <1>8, <1>9 DEF Linked
  <2>2. QED
    BY <2>1, LinksFrom
<1>11. Backs(r, d, l)
  <2> SUFFICES ASSUME NEW i \in 1 .. n + 1
               PROVE  \/ r[d[i]].prev = IF i = 1 THEN NoMutex ELSE d[i - 1]
                      \/ l /\ r[d[i]].prev = NoMutex
    BY <1>4 DEF Backs
  <2>1. CASE i = 1
    BY <1>5, <2>1
  <2>2. CASE i = 2
    <3>1. d[i] = c[1] /\ d[i - 1] = x /\ n > 0 /\ c[1] \in S /\ h = c[1]
      BY <1>1, <1>2, <1>5, <1>6, <2>2
    <3>2. m[c[1]].prev = NoMutex
      BY <1>2, <1>3, <3>1
    <3>3. \/ r[c[1]].prev = x
          \/ l /\ r[c[1]].prev = NoMutex
      BY <3>1, <3>2
    <3>4. QED
      BY <2>2, <3>1, <3>3
  <2>3. CASE i > 2
    <3> DEFINE j == i - 1
    <3>1. j \in 1 .. n /\ d[i] = c[j] /\ i = j + 1 /\ j # 1 /\ j - 1 \in 1 .. n
      BY <1>2, <1>6, <2>3
    <3> HIDE DEF j
    <3>2. d[i - 1] = c[j - 1]
      <4>1. d[(j - 1) + 1] = c[j - 1] /\ i - 1 = (j - 1) + 1
        BY <1>2, <1>5, <3>1
      <4>2. QED
        BY <4>1
    <3>3. c[j] # h /\ c[j] \in S
      BY <1>1, <1>2, <3>1
    <3>4. r[c[j]].prev = m[c[j]].prev
      BY <3>3
    <3>5. \/ m[c[j]].prev = c[j - 1]
          \/ l /\ m[c[j]].prev = NoMutex
      BY <1>3, <3>1
    <3>6. QED
      BY <2>3, <3>1, <3>2, <3>4, <3>5
  <2>4. QED
    BY <1>2, <2>1, <2>2, <2>3
<1>12. QED
  BY <1>7, <1>10, <1>11 DEF Chain

(* The head gone, whatever becomes of it *)
LEMMA PathTail ==
  ASSUME NEW m, NEW h \in Mutexes, NEW S, Path(m, h, S), NEW r,
         \A z \in S \ {h} : r[z].next = m[z].next
  PROVE  h \in S /\ Path(r, m[h].next, S \ {h})
<1>1. PICK c : Links(m, c, h) /\ ToSet(c) = S
  BY DEF Path
<1> DEFINE n == Len(c)
           d == Tail(c)
           g == m[h].next
<1>2. /\ c \in Seq(Mutexes) /\ n \in Nat /\ DOMAIN c = 1 .. n
      /\ n = 0 => h = NoMutex
      /\ n > 0 => h = c[1] /\ h \in Mutexes
      /\ \A i \in 1 .. n : m[c[i]].next = IF i = n THEN NoMutex ELSE c[i + 1]
      /\ \A z \in ToSet(c) : \E i \in 1 .. n : z = c[i]
      /\ \A i \in 1 .. n : c[i] \in ToSet(c)
  BY <1>1, LinksFacts
<1>3. \A i, j \in 1 .. n : c[i] = c[j] => i = j
  BY <1>1, LinksFacts
<1>4. n > 0 /\ h = c[1] /\ h \in S /\ c # <<>>
  <2> HIDE DEF n
  <2>1. n # 0
    BY <1>2, NoMutexNotMutex
  <2>2. n > 0 /\ 1 \in 1 .. n
    BY <1>2, <2>1
  <2>3. h = c[1] /\ c[1] \in S
    BY <1>1, <1>2, <2>2
  <2>4. c # <<>>
    BY <2>2 DEF n
  <2>5. QED
    BY <2>2, <2>3, <2>4
<1>5. /\ d \in Seq(Mutexes) /\ Len(d) = n - 1
      /\ \A i \in 1 .. n - 1 : d[i] = c[i + 1]
  <2>1. c \in Seq(Mutexes) /\ c # <<>>
    BY <1>2, <1>4
  <2>2. QED
    BY <2>1
<1> HIDE DEF n, d, g
<1>6. \A i \in 1 .. n - 1 : i + 1 \in 1 .. n /\ d[i] = c[i + 1] /\ d[i] \in S \ {h}
  <2> SUFFICES ASSUME NEW i \in 1 .. n - 1
               PROVE  i + 1 \in 1 .. n /\ d[i] = c[i + 1] /\ d[i] \in S \ {h}
    OBVIOUS
  <2>1. i + 1 \in 1 .. n /\ 1 \in 1 .. n /\ i + 1 # 1
    BY <1>2, <1>4
  <2>2. d[i] = c[i + 1] /\ c[i + 1] \in S
    BY <1>1, <1>2, <1>5, <2>1
  <2>3. c[i + 1] # c[1]
    BY <1>3, <2>1
  <2>4. QED
    BY <1>4, <2>1, <2>2, <2>3
<1>7. ToSet(d) = S \ {h}
  <2>1. DOMAIN d = 1 .. n - 1
    BY <1>2, <1>5
  <2>2. \A z \in ToSet(d) : z \in S \ {h}
    BY <1>6, <2>1 DEF ToSet
  <2>3. ASSUME NEW z \in S \ {h} PROVE z \in ToSet(d)
    <3>1. PICK i \in 1 .. n : z = c[i]
      BY <1>1, <1>2
    <3>2. i # 1
      BY <1>4, <3>1
    <3>3. i - 1 \in 1 .. n - 1 /\ d[i - 1] = c[(i - 1) + 1] /\ (i - 1) + 1 = i
      <4>1. n \in Nat
        BY <1>2
      <4>2. i - 1 \in 1 .. n - 1 /\ (i - 1) + 1 = i
        BY <3>2, <4>1
      <4>3. QED
        BY <1>5, <4>2
    <3>4. QED
      BY <2>1, <3>1, <3>3 DEF ToSet
  <2>4. QED
    BY <2>2, <2>3
<1>8. \A i, j \in 1 .. n - 1 : d[i] = d[j] => i = j
  <2> SUFFICES ASSUME NEW i \in 1 .. n - 1, NEW j \in 1 .. n - 1, d[i] = d[j]
               PROVE  i = j
    OBVIOUS
  <2> DEFINE a == i + 1
             b == j + 1
  <2>1. d[i] = c[a] /\ a \in 1 .. n /\ d[j] = c[b] /\ b \in 1 .. n
    BY <1>6
  <2> HIDE DEF a, b
  <2>2. c[a] = c[b]
    BY <2>1
  <2>3. a = b
    BY <1>3, <2>1, <2>2
  <2>4. QED
    BY <1>2, <2>3 DEF a, b
<1>9. \A i \in 1 .. n - 1 :
        r[d[i]].next = IF i = n - 1 THEN NoMutex ELSE d[i + 1]
  <2> SUFFICES ASSUME NEW i \in 1 .. n - 1
               PROVE  r[d[i]].next = IF i = n - 1 THEN NoMutex ELSE d[i + 1]
    OBVIOUS
  <2> DEFINE j == i + 1
  <2>1. /\ j \in 1 .. n /\ d[i] = c[j] /\ d[i] \in S \ {h}
        /\ i = n - 1 <=> j = n
    BY <1>2, <1>6
  <2>2. r[d[i]].next = m[c[j]].next
    BY <2>1
  <2>3. m[c[j]].next = IF j = n THEN NoMutex ELSE c[j + 1]
    BY <1>2, <2>1
  <2>4. i # n - 1 => d[i + 1] = c[j + 1]
    <3>1. i # n - 1 => i + 1 \in 1 .. n - 1
      BY <1>2
    <3>2. QED
      BY <1>5, <3>1
  <2>5. QED
    BY <2>1, <2>2, <2>3, <2>4
<1>10. g = IF n = 1 THEN NoMutex ELSE c[2]
  BY <1>2, <1>4 DEF g
<1>11. n > 1 => d[1] = c[2]
  BY <1>2, <1>5
<1>12. Linked(r, d, g, n - 1)
  BY <1>2, <1>4, <1>5, <1>8, <1>9, <1>10, <1>11 DEF Linked
<1>13. Links(r, d, g)
  BY <1>12, LinksFrom
<1>14. QED
  BY <1>4, <1>7, <1>13 DEF Path, g

(* A mutex out of the list: the head, if the list is loose *)
Cuts(m, h, S, x, r) ==
  /\ x \in S
  /\ \A z \in Mutexes :
       /\ r[z].next = (IF z = m[x].prev THEN m[x].next ELSE m[z].next)
       /\ r[z].prev = (IF z = m[x].next THEN m[x].prev ELSE m[z].prev)

LEMMA ChainCut ==
  ASSUME NEW m, NEW h, NEW S, NEW l \in BOOLEAN, Chain(m, h, S, l),
         NEW x, NEW r, Cuts(m, h, S, x, r), l => h = x,
         NEW p, p = m[x].prev, NEW n, n = m[x].next,
         NEW f, f = IF p = NoMutex THEN n ELSE h, NEW T, T = S \ {x}
  PROVE  /\ p \in T \cup {NoMutex} /\ n \in T \cup {NoMutex}
         /\ Chain(r, f, T, l)
<1>1. PICK c : Links(m, c, h) /\ Backs(m, c, l) /\ ToSet(c) = S
  BY DEF Chain
<1> DEFINE N == Len(c)
           g == IF p = NoMutex THEN n ELSE h
<1>2. /\ c \in Seq(Mutexes) /\ N \in Nat /\ DOMAIN c = 1 .. N
      /\ \A i \in 1 .. N : c[i] \in Mutexes
      /\ N = 0 => h = NoMutex
      /\ N > 0 => h = c[1] /\ h \in Mutexes
      /\ \A i \in 1 .. N : m[c[i]].next = IF i = N THEN NoMutex ELSE c[i + 1]
      /\ \A z \in ToSet(c) : \E i \in 1 .. N : z = c[i]
      /\ \A i \in 1 .. N : c[i] \in ToSet(c)
  BY <1>1, LinksFacts
<1>3. \A i, j \in 1 .. N : c[i] = c[j] => i = j
  BY <1>1, LinksFacts
<1>4. \A i \in 1 .. N :
        \/ m[c[i]].prev = IF i = 1 THEN NoMutex ELSE c[i - 1]
        \/ l /\ m[c[i]].prev = NoMutex
  BY <1>1 DEF Backs
<1>5. x \in S /\ \A z \in Mutexes :
        /\ r[z].next = (IF z = p THEN n ELSE m[z].next)
        /\ r[z].prev = (IF z = n THEN p ELSE m[z].prev)
  BY DEF Cuts
<1>6. PICK j \in 1 .. N : x = c[j]
  BY <1>1, <1>2, <1>5
<1> DEFINE d == RemoveAt(c, j)
<1>7. /\ d \in Seq(Mutexes) /\ Len(d) = N - 1
      /\ \A i \in 1 .. N - 1 : d[i] = IF i < j THEN c[i] ELSE c[i + 1]
  BY <1>2, RemoveAtFacts
<1> HIDE DEF N, d, g
<1>8. l => j = 1
  BY <1>2, <1>3, <1>6
<1>9. p = IF j = 1 THEN NoMutex ELSE c[j - 1]
  BY <1>4, <1>6, <1>8
<1>10. n = IF j = N THEN NoMutex ELSE c[j + 1]
  BY <1>2, <1>6
<1>11. /\ j # 1 => j - 1 \in 1 .. N /\ p = c[j - 1] /\ p # x
       /\ j # N => j + 1 \in 1 .. N /\ n = c[j + 1] /\ n # x
  <2>1. j # 1 => j - 1 \in 1 .. N /\ j - 1 # j
    BY <1>2
  <2>2. j # N => j + 1 \in 1 .. N /\ j + 1 # j
    BY <1>2
  <2>3. \A i \in 1 .. N : i # j => c[i] # x
    BY <1>3, <1>6
  <2>4. QED
    BY <1>9, <1>10, <2>1, <2>2, <2>3
<1>12. p \in (S \ {x}) \cup {NoMutex} /\ n \in (S \ {x}) \cup {NoMutex}
  BY <1>1, <1>2, <1>9, <1>10, <1>11
(* The rest, mutex by mutex *)
<1>13. \A i \in 1 .. N : c[i] # p <=> ~(j # 1 /\ i = j - 1)
  <2> SUFFICES ASSUME NEW i \in 1 .. N
               PROVE  c[i] # p <=> ~(j # 1 /\ i = j - 1)
    OBVIOUS
  <2>1. CASE j = 1
    BY <1>2, <1>9, <2>1, NoMutexNotMutex
  <2>2. CASE j # 1
    BY <1>3, <1>11, <2>2
  <2>3. QED
    BY <2>1, <2>2
<1>14. \A i \in 1 .. N : c[i] # n <=> ~(j # N /\ i = j + 1)
  <2> SUFFICES ASSUME NEW i \in 1 .. N
               PROVE  c[i] # n <=> ~(j # N /\ i = j + 1)
    OBVIOUS
  <2>1. CASE j = N
    BY <1>2, <1>10, <2>1, NoMutexNotMutex
  <2>2. CASE j # N
    BY <1>3, <1>11, <2>2
  <2>3. QED
    BY <2>1, <2>2
<1>15. \A i \in 1 .. N :
         /\ r[c[i]].next = (IF j # 1 /\ i = j - 1 THEN n ELSE m[c[i]].next)
         /\ r[c[i]].prev = (IF j # N /\ i = j + 1 THEN p ELSE m[c[i]].prev)
  BY <1>2, <1>5, <1>13, <1>14
<1>16. \A i \in 1 .. N - 1 :
         /\ i < j => d[i] = c[i] /\ i \in 1 .. N
         /\ i >= j => d[i] = c[i + 1] /\ i + 1 \in 1 .. N
  BY <1>2, <1>7
<1>17. \A i \in 1 .. N - 1 :
         r[d[i]].next = IF i = N - 1 THEN NoMutex ELSE d[i + 1]
  <2> SUFFICES ASSUME NEW i \in 1 .. N - 1
               PROVE  r[d[i]].next = IF i = N - 1 THEN NoMutex ELSE d[i + 1]
    OBVIOUS
  <2>1. CASE i < j /\ i # j - 1
    <3>1. d[i] = c[i] /\ i \in 1 .. N
      BY <1>16, <2>1
    <3>6. /\ i # N /\ i # N - 1 /\ i + 1 \in 1 .. N - 1 /\ i + 1 < j
      BY <1>2, <2>1
    <3>2. r[c[i]].next = m[c[i]].next
      BY <1>15, <2>1, <3>1
    <3>3. m[c[i]].next = c[i + 1]
      BY <1>2, <3>1, <3>6
    <3>4. d[i + 1] = c[i + 1]
      BY <1>16, <3>6
    <3>5. QED
      BY <3>1, <3>2, <3>3, <3>4, <3>6
  <2>2. CASE i = j - 1
    <3>2. r[c[i]].next = n
      <4>1. i \in 1 .. N /\ j # 1
        BY <1>2, <2>2
      <4>2. QED
        BY <1>15, <2>2, <4>1
    <3>3. d[i] = c[i] /\ (i = N - 1 <=> j = N)
      BY <1>2, <1>16, <2>2
    <3>4. j # N => d[i + 1] = c[j + 1]
      <4>1. ASSUME j # N PROVE i + 1 \in 1 .. N - 1 /\ i + 1 >= j /\ i + 1 = j
        BY <1>2, <2>2, <4>1
      <4>2. QED
        BY <1>16, <4>1
    <3>5. QED
      BY <1>10, <3>2, <3>3, <3>4
  <2>3. CASE i >= j
    <3> DEFINE a == i + 1
    <3>1. /\ d[i] = c[a] /\ a \in 1 .. N /\ (i = N - 1 <=> a = N)
          /\ a # j - 1
      BY <1>2, <1>16, <2>3
    <3>2. i # N - 1 => d[i + 1] = c[a + 1]
      <4>1. ASSUME i # N - 1 PROVE i + 1 \in 1 .. N - 1
        <5>1. N \in Nat
          BY <1>2
        <5>2. QED
          BY <4>1, <5>1
      <4>2. i + 1 >= j
        BY <1>2, <2>3
      <4>3. QED
        BY <1>16, <4>1, <4>2
    <3> HIDE DEF a
    <3>3. r[c[a]].next = m[c[a]].next
      BY <1>15, <3>1
    <3>4. m[c[a]].next = IF a = N THEN NoMutex ELSE c[a + 1]
      BY <1>2, <3>1
    <3>5. QED
      BY <3>1, <3>2, <3>3, <3>4
  <2>4. QED
    BY <1>2, <2>1, <2>2, <2>3
<1>18. \A i \in 1 .. N - 1 :
         \/ r[d[i]].prev = IF i = 1 THEN NoMutex ELSE d[i - 1]
         \/ l /\ r[d[i]].prev = NoMutex
  <2> SUFFICES ASSUME NEW i \in 1 .. N - 1
               PROVE  \/ r[d[i]].prev = IF i = 1 THEN NoMutex ELSE d[i - 1]
                      \/ l /\ r[d[i]].prev = NoMutex
    OBVIOUS
  <2>1. CASE i < j
    <3>1. d[i] = c[i] /\ i \in 1 .. N /\ i # j + 1
      BY <1>2, <1>16, <2>1
    <3>2. r[c[i]].prev = m[c[i]].prev
      BY <1>15, <3>1
    <3>3. i # 1 => d[i - 1] = c[i - 1]
      <4>1. ASSUME i # 1 PROVE i - 1 \in 1 .. N - 1 /\ i - 1 < j
        BY <1>2, <2>1, <4>1
      <4>2. QED
        BY <1>16, <4>1
    <3>4. QED
      BY <1>4, <3>1, <3>2, <3>3
  <2>2. CASE i = j
    <3>1. d[i] = c[i + 1] /\ i + 1 \in 1 .. N /\ j # N /\ i + 1 = j + 1
      BY <1>2, <1>16, <2>2
    <3>2. r[c[i + 1]].prev = p
      BY <1>15, <3>1
    <3>3. i # 1 => d[i - 1] = c[i - 1]
      <4>1. ASSUME i # 1 PROVE i - 1 \in 1 .. N - 1 /\ i - 1 < j
        BY <1>2, <2>2, <4>1
      <4>2. QED
        BY <1>16, <4>1
    <3>4. QED
      BY <1>9, <2>2, <3>1, <3>2, <3>3
  <2>3. CASE i > j
    <3> DEFINE a == i + 1
    <3>1. d[i] = c[a] /\ a \in 1 .. N /\ a # j + 1 /\ a # 1 /\ a - 1 = i /\ i # 1
      BY <1>2, <1>16, <2>3
    <3>2. d[i - 1] = c[i]
      <4>1. /\ i - 1 \in 1 .. N - 1 /\ i - 1 >= j /\ (i - 1) + 1 = i
        BY <1>2, <2>3
      <4>2. QED
        BY <1>16, <4>1
    <3> HIDE DEF a
    <3>3. r[c[a]].prev = m[c[a]].prev
      BY <1>15, <3>1
    <3>4. \/ m[c[a]].prev = c[a - 1]
          \/ l /\ m[c[a]].prev = NoMutex
      BY <1>4, <3>1
    <3>5. QED
      BY <3>1, <3>2, <3>3, <3>4
  <2>4. QED
    BY <1>2, <2>1, <2>2, <2>3
<1>19. \A i, e \in 1 .. N - 1 : d[i] = d[e] => i = e
  <2> SUFFICES ASSUME NEW i \in 1 .. N - 1, NEW e \in 1 .. N - 1, d[i] = d[e]
               PROVE  i = e
    OBVIOUS
  <2> DEFINE a == IF i < j THEN i ELSE i + 1
             b == IF e < j THEN e ELSE e + 1
  <2>1. d[i] = c[a] /\ a \in 1 .. N /\ d[e] = c[b] /\ b \in 1 .. N
    BY <1>2, <1>16
  <2>2. a = b => i = e
    BY <1>2
  <2> HIDE DEF a, b
  <2>3. c[a] = c[b]
    BY <2>1
  <2>4. a = b
    BY <1>3, <2>1, <2>3
  <2>5. QED
    BY <2>2, <2>4
<1>20. ToSet(d) = S \ {x}
  <2>1. DOMAIN d = 1 .. N - 1
    BY <1>2, <1>7
  <2>2. ASSUME NEW i \in 1 .. N - 1 PROVE d[i] \in S \ {x}
    <3> DEFINE a == IF i < j THEN i ELSE i + 1
    <3>1. d[i] = c[a] /\ a \in 1 .. N /\ a # j
      BY <1>2, <1>16
    <3> HIDE DEF a
    <3>2. c[a] # c[j] /\ c[a] \in S
      BY <1>1, <1>2, <1>3, <3>1
    <3>3. QED
      BY <1>6, <3>1, <3>2
  <2>3. ASSUME NEW z \in S \ {x} PROVE \E i \in 1 .. N - 1 : d[i] = z
    <3>1. PICK i \in 1 .. N : z = c[i]
      BY <1>1, <1>2
    <3>2. i # j
      BY <1>6, <3>1
    <3>3. CASE i < j
      <4>1. i \in 1 .. N - 1
        BY <1>2, <3>3
      <4>2. QED
        BY <1>16, <3>1, <3>3, <4>1
    <3>4. CASE i > j
      <4>1. i - 1 \in 1 .. N - 1 /\ i - 1 >= j /\ (i - 1) + 1 = i
        BY <1>2, <3>4
      <4>2. d[i - 1] = z
        BY <1>16, <3>1, <4>1
      <4>3. QED
        BY <4>1, <4>2
    <3>5. QED
      BY <1>2, <3>2, <3>3, <3>4
  <2>4. QED
    BY <2>1, <2>2, <2>3 DEF ToSet
<1>21. N - 1 = 0 => g = NoMutex
  BY <1>2, <1>9, <1>10 DEF g
<1>22. N - 1 > 0 => g = d[1]
  <2>1. CASE j = 1
    BY <1>2, <1>9, <1>10, <1>16, <2>1 DEF g
  <2>2. CASE j # 1
    <3>1. p \in Mutexes /\ p # NoMutex
      BY <1>2, <1>11, <2>2, NoMutexNotMutex
    <3>2. g = c[1]
      BY <1>2, <2>2, <3>1 DEF g
    <3>3. ASSUME N - 1 > 0 PROVE d[1] = c[1]
      <4>1. 1 \in 1 .. N - 1 /\ 1 < j
        BY <1>2, <2>2, <3>3
      <4>2. QED
        BY <1>16, <4>1
    <3>4. QED
      BY <3>2, <3>3
  <2>3. QED
    BY <2>1, <2>2
<1>23. Linked(r, d, g, N - 1)
  BY <1>2, <1>7, <1>17, <1>19, <1>21, <1>22 DEF Linked
<1>24. Links(r, d, g)
  BY <1>23, LinksFrom
<1>25. Backs(r, d, l)
  BY <1>7, <1>18 DEF Backs
<1>26. Chain(r, g, S \ {x}, l)
  BY <1>20, <1>24, <1>25 DEF Chain
<1>27. f = g /\ T = S \ {x}
  BY DEF g
<1>28. QED
  BY <1>12, <1>26, <1>27

(* The list is what the loop visits. *)
LEMMA PathVisited ==
  ASSUME NEW s, StateOK(s), NEW h, NEW S, Path(s.mx, h, S)
  PROVE  ~Cyclic(s, h) /\ Visited(s, h) = S
<1>1. PICK c : Links(s.mx, c, h) /\ ToSet(c) = S
  BY DEF Path
<1>2. h \in Nodes
  BY PathHead DEF Nodes
<1>3. QED
  BY <1>1, <1>2, LinksVisited

-----------------------------------------------------------------------------
(* The inductive invariant of programs that release their mutexes in the   *)
(* opposite order, or own at most those they got without waiting, when     *)
(* every mutex is robust.                                                  *)

(* The list of a thread that does not end leads to what it owns; *)
Chained(m, l, t) ==
  IF k.state[t] = "Inactive" THEN OwnedBy(m, t) = {}
  ELSE Chain(m, l[t], OwnedBy(m, t), Rule("stacked"))

(* that of the thread that ends is still to be walked from at on. *)
Chains ==
  \A t \in Threads :
    IF t = ending THEN Path(mx, at, OwnedBy(mx, t)) ELSE Chained(mx, mlist, t)

WaitersOwnNone ==
  Rule("unnested") =>
    \A t \in Threads : k.state[t] = "WaitingMutex" => OwnedBy(mx, t) = {}

(* What the threads have been told, for mutexes m *)
HeldFor(h, m) ==
  /\ h \in [Threads -> [Mutexes -> Nat]]
  /\ \A t \in Threads, x \in Mutexes :
       h[t][x] = IF x \in OwnedBy(m, t) THEN m[x].lock ELSE 0
HeldInv == HeldFor(held, mx)

Inv2 == Chains /\ WaitersOwnNone /\ HeldInv /\ handler # "hung"

(* A step that leaves the lists alone *)
SameOwned ==
  \A t \in Threads :
    /\ OwnedBy(mx', t) = OwnedBy(mx, t) /\ mlist'[t] = mlist[t]
    /\ \A z \in OwnedBy(mx, t) :
         mx'[z].next = mx[z].next /\ mx'[z].prev = mx[z].prev
SameLife ==
  \A t \in Threads : k'.state[t] = "Inactive" <=> k.state[t] = "Inactive"

(* ... that of one thread, from some mutexes and lists to others *)
LEMMA ChainedKept ==
  ASSUME NEW t, NEW m, NEW l, Chained(m, l, t), NEW r, NEW n,
         n[t] = l[t], OwnedBy(r, t) = OwnedBy(m, t),
         \A z \in OwnedBy(m, t) : r[z].next = m[z].next /\ r[z].prev = m[z].prev
  PROVE  Chained(r, n, t)
<1>1. CASE k.state[t] = "Inactive"
  BY <1>1 DEF Chained
<1>2. CASE k.state[t] # "Inactive"
  <2> DEFINE S == OwnedBy(m, t)
             h == l[t]
             b == Rule("stacked")
  <2>1. Chain(m, h, S, b)
    BY <1>2 DEF Chained
  <2>2. \A z \in S : r[z].next = m[z].next /\ r[z].prev = m[z].prev
    OBVIOUS
  <2> HIDE DEF S, h, b
  <2>3. Chain(r, h, S, b)
    BY <2>1, <2>2, ChainKept
  <2>4. QED
    BY <1>2, <2>3 DEF Chained, S, h, b
<1>3. QED
  BY <1>1, <1>2

LEMMA ChainedNext ==
  ASSUME NEW t, Chained(mx', mlist', t), program' = program,
         k'.state[t] = "Inactive" <=> k.state[t] = "Inactive"
  PROVE  Chained(mx, mlist, t)'
BY DEF Chained, Rule

LEMMA ChainsFrame ==
  ASSUME Chains, UNCHANGED <<program, ending>>,
         ending \in Threads => at' = at, SameOwned, SameLife
  PROVE  Chains'
<1> SUFFICES ASSUME NEW t \in Threads
             PROVE  IF t = ending' THEN Path(mx, at, OwnedBy(mx, t))'
                    ELSE Chained(mx, mlist, t)'
  BY DEF Chains
<1>1. CASE t = ending
  <2> DEFINE S == OwnedBy(mx, t)
  <2>1. Path(mx, at, S) /\ \A z \in S : mx'[z].next = mx[z].next
    BY <1>1 DEF Chains, SameOwned
  <2> HIDE DEF S
  <2>2. Path(mx', at, S)
    BY <2>1, PathKept
  <2>3. S = OwnedBy(mx', t) /\ at' = at
    BY <1>1 DEF S, SameOwned
  <2>4. QED
    BY <1>1, <2>2, <2>3
<1>2. CASE t # ending
  <2>1. Chained(mx, mlist, t)
    BY <1>2 DEF Chains
  <2>2. /\ OwnedBy(mx', t) = OwnedBy(mx, t) /\ mlist'[t] = mlist[t]
        /\ \A z \in OwnedBy(mx, t) :
             mx'[z].next = mx[z].next /\ mx'[z].prev = mx[z].prev
    BY DEF SameOwned
  <2>3. Chained(mx', mlist', t)
    BY <2>1, <2>2, ChainedKept
  <2>4. k'.state[t] = "Inactive" <=> k.state[t] = "Inactive"
    BY DEF SameLife
  <2>5. Chained(mx, mlist, t)'
    BY <2>3, <2>4, ChainedNext
  <2>6. QED
    BY <1>2, <2>5
<1>3. QED
  BY <1>1, <1>2

LEMMA HeldFrame ==
  ASSUME HeldInv, held' = held, SameOwned,
         \A t \in Threads : \A z \in OwnedBy(mx, t) : mx'[z].lock = mx[z].lock
  PROVE  HeldInv'
BY DEF HeldInv, HeldFor, SameOwned

(* A step that changes neither the mutexes nor the lists *)
Steady ==
  /\ UNCHANGED <<program, mx, mlist, held, ending>>
  /\ ending \in Threads => at' = at
  /\ handler' # "hung"
  /\ \A u \in Threads :
       \/ k'.state[u] = k.state[u]
       \/ k'.state[u] \in Runnable /\ k.state[u] # "Inactive"

LEMMA Inv2Steady ==
  ASSUME Inv2, Steady
  PROVE  Inv2'
<1>1. SameOwned
  BY DEF Steady, SameOwned, OwnedBy
<1>2. SameLife
  BY DEF Steady, SameLife, Runnable
<1>3. Chains'
  BY <1>1, <1>2, ChainsFrame DEF Inv2, Steady
<1>4. HeldInv'
  BY <1>1, HeldFrame DEF Inv2, Steady
<1>5. WaitersOwnNone'
  <2>1. \A t \in Threads :
          k'.state[t] = "WaitingMutex" => k.state[t] = "WaitingMutex"
    BY DEF Steady, Runnable
  <2>2. QED
    BY <1>1, <2>1 DEF Inv2, WaitersOwnNone, Rule, Steady, SameOwned
<1>6. QED
  BY <1>3, <1>4, <1>5 DEF Inv2, Steady

LEMMA Inv2MutexNew ==
  ASSUME Inv1, Inv2, UNCHANGED program, NEW x \in Mutexes, MutexNew(x)
  PROVE  Inv2'
<1>1. /\ k' = k /\ \A z \in Mutexes \ {x} : mx'[z] = mx[z]
      /\ mx'[x] = Unlocked
  BY MutexNewStep
<1>2. /\ Calling /\ ~mx[x].active
      /\ UNCHANGED <<handler, mlist, ending, at, held>>
  BY DEF MutexNew, loop
<1>3. SameOwned /\ \A t \in Threads : x \notin OwnedBy(mx, t)
  <2> SUFFICES ASSUME NEW t \in Threads
               PROVE  /\ OwnedBy(mx', t) = OwnedBy(mx, t)
                      /\ x \notin OwnedBy(mx, t)
                      /\ \A z \in OwnedBy(mx, t) : mx'[z] = mx[z]
    BY <1>2 DEF SameOwned
  <2>1. x \notin OwnedBy(mx', t) /\ x \notin OwnedBy(mx, t)
    BY <1>1, <1>2 DEF OwnedBy, Unlocked
  <2>2. QED
    BY <1>1, <2>1 DEF OwnedBy
<1>4. Chains'
  BY <1>1, <1>2, <1>3, ChainsFrame DEF Inv2, SameLife
<1>5. HeldInv'
  <2>1. \A t \in Threads : \A z \in OwnedBy(mx, t) : mx'[z].lock = mx[z].lock
    BY <1>1, <1>3 DEF OwnedBy
  <2>2. QED
    BY <1>2, <1>3, <2>1, HeldFrame DEF Inv2
<1>6. WaitersOwnNone'
  BY <1>1, <1>3 DEF Inv2, WaitersOwnNone, SameOwned, Rule
<1>7. QED
  BY <1>2, <1>4, <1>5, <1>6 DEF Inv2

LEMMA Inv2DeleteFree ==
  ASSUME Inv1, Inv2, UNCHANGED program, NEW x \in Mutexes, Delete(x),
         mx[x].lock = 0
  PROVE  Inv2'
<1>1. /\ k' = k /\ UNCHANGED <<handler, mlist, ending, at, held>>
      /\ \A z \in Mutexes :
           /\ mx'[z].active = (IF z = x THEN FALSE ELSE mx[z].active)
           /\ mx'[z].lock = mx[z].lock /\ mx'[z].owner = mx[z].owner
           /\ mx'[z].next = mx[z].next /\ mx'[z].prev = mx[z].prev
  BY DeleteFreeStep
<1>2. SameOwned
  <2>1. \A t \in Threads : x \notin OwnedBy(mx', t) /\ x \notin OwnedBy(mx, t)
    <3>1. mx'[x].lock = mx[x].lock
      BY <1>1, Zenon
    <3>2. mx'[x].lock = 0 /\ ~(0 > 0)
      BY <3>1
    <3>3. QED
      BY <3>2 DEF OwnedBy
  <2>2. \A t \in Threads : OwnedBy(mx', t) = OwnedBy(mx, t)
    BY <1>1, <2>1 DEF OwnedBy
  <2>3. QED
    BY <1>1, <2>2 DEF SameOwned, OwnedBy
<1>3. Chains'
  BY <1>1, <1>2, ChainsFrame DEF Inv2, SameLife
<1>4. HeldInv'
  BY <1>1, <1>2, HeldFrame DEF Inv2, OwnedBy
<1>5. WaitersOwnNone'
  BY <1>1, <1>2 DEF Inv2, WaitersOwnNone, SameOwned, Rule
<1>6. QED
  BY <1>1, <1>3, <1>4, <1>5 DEF Inv2

LEMMA Inv2AcquireWait ==
  ASSUME Inv1, Inv2, UNCHANGED program, NEW x \in Mutexes,
         NEW d \in program.timeouts, AcquireWait(x, d)
  PROVE  Inv2'
<1> DEFINE c == k.curr
           o == mx[x].owner
<1>1. c = k.curr /\ o = mx[x].owner
  OBVIOUS
<1> HIDE DEF c, o
<1>2. /\ UNCHANGED <<handler, mx, mlist, ending, at>>
      /\ c \in User /\ Others({c}) /\ k'.state[c] = "WaitingMutex"
  BY <1>1, AcquireWaitStep
<1>3. /\ Calling
      /\ Rule("unnested") => OwnsNone(c)
      /\ UNCHANGED held
  BY <1>1 DEF AcquireWait
<1>4. c \in Threads /\ k.state[c] = "Running"
  BY <1>1, <1>2, <1>3, CallStarts DEF User
<1>5. SameOwned
  BY <1>2 DEF SameOwned, OwnedBy
<1>6. SameLife
  BY <1>2, <1>4 DEF SameLife, Others, Runnable
<1>7. Chains'
  BY <1>2, <1>5, <1>6, ChainsFrame DEF Inv2
<1>8. HeldInv'
  BY <1>2, <1>3, <1>5, HeldFrame DEF Inv2
<1>9. WaitersOwnNone'
  <2> SUFFICES ASSUME Rule("unnested"), NEW t \in Threads,
                      k'.state[t] = "WaitingMutex"
               PROVE  OwnedBy(mx, t) = {}
    BY <1>5 DEF WaitersOwnNone, Rule, SameOwned
  <2>1. CASE t = c
    BY <1>3, <2>1 DEF OwnsNone, Owns, OwnedBy
  <2>2. CASE t # c
    <3>1. k.state[t] = "WaitingMutex"
      BY <1>2, <2>2 DEF Others, Runnable
    <3>2. QED
      BY <3>1 DEF Inv2, WaitersOwnNone
  <2>3. QED
    BY <2>1, <2>2
<1>10. QED
  BY <1>2, <1>7, <1>8, <1>9 DEF Inv2

LEMMA Inv2Count ==
  ASSUME Inv1, Inv2, UNCHANGED program, NEW x \in Mutexes,
         AcquireAgain(x) \/ (Release(x) /\ mx[x].lock > 1)
  PROVE  Inv2'
<1> DEFINE c == k.curr
<1>1. /\ k' = k /\ c \in User /\ Owns(c, x)
      /\ UNCHANGED <<handler, mlist, ending, at>>
      /\ mx'[x].lock \in Nat \ {0}
      /\ \A z \in Mutexes :
           /\ mx'[z].active = mx[z].active
           /\ z # x => mx'[z].lock = mx[z].lock
           /\ mx'[z].owner = mx[z].owner
           /\ mx'[z].next = mx[z].next /\ mx'[z].prev = mx[z].prev
  BY CountStep
<1>2. /\ mx \in [Mutexes -> MutexType] /\ c \in Threads
      /\ mx[x].lock \in Nat \ {0}
  <2>1. mx \in [Mutexes -> MutexType]
    BY DEF Inv1, TypeInv, MutexesOK
  <2>2. QED
    BY <1>1, <2>1, MutexFields DEF User, Owns
<1>3. \/ /\ mx' = [mx EXCEPT ![x].lock = @ + 1]
         /\ held' = [held EXCEPT ![c][x] = @ + 1]
      \/ /\ mx' = [mx EXCEPT ![x].lock = @ - 1] /\ mx[x].lock > 1
         /\ held' = [held EXCEPT ![c][x] = @ - 1]
  BY DEF AcquireAgain, Release
<1> HIDE DEF c
<1>4. \A t \in Threads : OwnedBy(mx', t) = OwnedBy(mx, t)
  BY <1>1, <1>2 DEF OwnedBy
<1>5. SameOwned
  BY <1>1, <1>4 DEF SameOwned, OwnedBy
<1>6. Chains'
  BY <1>1, <1>5, ChainsFrame DEF Inv2, SameLife
<1>7. WaitersOwnNone'
  BY <1>1, <1>4 DEF Inv2, WaitersOwnNone, Rule
<1>8. HeldInv'
  <2>1. /\ held \in [Threads -> [Mutexes -> Nat]]
        /\ \A t \in Threads, z \in Mutexes :
             held[t][z] = IF z \in OwnedBy(mx, t) THEN mx[z].lock ELSE 0
    BY DEF Inv2, HeldInv, HeldFor
  <2>2. x \in OwnedBy(mx, c) /\ \A t \in Threads \ {c} : x \notin OwnedBy(mx, t)
    BY <1>1 DEF OwnedBy, Owns
  <2>3. held[c][x] = mx[x].lock
    BY <1>2, <2>1, <2>2
  <2>4. held' = [held EXCEPT ![c][x] = mx'[x].lock]
    <3>1. CASE /\ mx' = [mx EXCEPT ![x].lock = @ + 1]
               /\ held' = [held EXCEPT ![c][x] = @ + 1]
      BY <1>2, <2>1, <2>3, <3>1 DEF MutexType
    <3>2. CASE /\ mx' = [mx EXCEPT ![x].lock = @ - 1]
               /\ held' = [held EXCEPT ![c][x] = @ - 1]
      BY <1>2, <2>1, <2>3, <3>2 DEF MutexType
    <3>3. QED
      BY <1>3, <3>1, <3>2
  <2>5. held' \in [Threads -> [Mutexes -> Nat]]
    BY <1>1, <1>2, <2>1, <2>4
  <2>6. \A t \in Threads, z \in Mutexes :
          held'[t][z] = IF t = c /\ z = x THEN mx'[x].lock ELSE held[t][z]
    BY <1>2, <2>1, <2>4
  <2>7. \A t \in Threads, z \in Mutexes :
          held'[t][z] = IF z \in OwnedBy(mx', t) THEN mx'[z].lock ELSE 0
    <3> SUFFICES ASSUME NEW t \in Threads, NEW z \in Mutexes
                 PROVE held'[t][z] = IF z \in OwnedBy(mx, t) THEN mx'[z].lock ELSE 0
      BY <1>4
    <3>1. CASE t = c /\ z = x
      BY <2>2, <2>6, <3>1
    <3>2. CASE ~(t = c /\ z = x)
      <4>1. held'[t][z] = IF z \in OwnedBy(mx, t) THEN mx[z].lock ELSE 0
        BY <2>1, <2>6, <3>2
      <4>2. z \in OwnedBy(mx, t) => z # x
        BY <2>2, <3>2
      <4>3. QED
        BY <1>1, <4>1, <4>2
    <3>3. QED
      BY <3>1, <3>2
  <2>8. QED
    BY <2>5, <2>7 DEF HeldInv, HeldFor
<1>9. QED
  BY <1>1, <1>6, <1>7, <1>8 DEF Inv2

LEMMA Inv2Acquire ==
  ASSUME Inv1, Inv2, UNCHANGED program, NEW x \in Mutexes, Acquire(x)
  PROVE  Inv2'
<1> DEFINE t == k.curr
           h == mlist[t]
           S == OwnedBy(mx, t)
           b == Rule("stacked")
<1>1. t = k.curr /\ h = mlist[t]
  OBVIOUS
<1> HIDE DEF t, h, S, b
<1>2. /\ k' = k /\ t \in User /\ UNCHANGED <<ending, at, handler>>
      /\ mx[x].active /\ mx[x].lock = 0
      /\ mlist' = [mlist EXCEPT ![t] = x]
      /\ \A z \in Mutexes :
           /\ mx'[z].active = mx[z].active
           /\ mx'[z].lock = IF z = x THEN 1 ELSE mx[z].lock
           /\ mx'[z].owner = IF z = x THEN t ELSE mx[z].owner
           /\ mx'[z].next = IF z = x THEN h ELSE mx[z].next
           /\ mx'[z].prev = IF z = h THEN x
                            ELSE IF z = x THEN NoMutex ELSE mx[z].prev
  BY <1>1, AcquireStep
<1>3. Calling /\ held' = [held EXCEPT ![t][x] = @ + 1]
  BY <1>1 DEF Acquire
<1>4. /\ ending = NoThread /\ mlist \in [Threads -> Nodes]
      /\ k.state[t] = "Running" /\ t \in Threads /\ t # ending
  <2>1. /\ ending = NoThread /\ mlist \in [Threads -> Nodes]
        /\ k.state[k.curr] = "Running"
    BY <1>3, CallStarts
  <2>2. QED
    BY <1>1, <1>2, <2>1, NoThreadNotThread DEF User
<1>5. Chain(mx, h, S, b) /\ b \in BOOLEAN
  BY <1>1, <1>4 DEF Inv2, Chains, Chained, S, b, Rule
<1>6. \A u \in Threads : x \notin OwnedBy(mx, u)
  <2>1. ~(mx[x].lock > 0)
    BY <1>2
  <2>2. QED
    BY <2>1 DEF OwnedBy
<1>7. h \in S \cup {NoMutex} /\ h # x /\ x \notin S
  <2>1. Path(mx, h, S)
    BY <1>5, ChainPath
  <2>2. h \in S \cup {NoMutex}
    BY <2>1, PathHead
  <2>3. QED
    BY <1>4, <1>6, <2>2, NoMutexNotMutex DEF S
<1>8. \A u \in Threads :
        OwnedBy(mx', u) = IF u = t THEN S \cup {x} ELSE OwnedBy(mx, u)
  <2>1. /\ \A z \in Mutexes \ {x} :
             /\ mx'[z].active = mx[z].active /\ mx'[z].lock = mx[z].lock
             /\ mx'[z].owner = mx[z].owner
        /\ mx'[x].active /\ mx'[x].lock > 0 /\ mx'[x].owner = t
    BY <1>2
  <2>2. QED
    BY <1>6, <2>1 DEF OwnedBy, S
<1>9. Chain(mx', x, S \cup {x}, b)
  <2>1. Pushes(mx, h, S, b, x, mx')
    <3>1. mx'[x].next = h /\ mx'[x].prev = NoMutex
      BY <1>2, <1>7
    <3>2. \A z \in S : z \in Mutexes /\ z # x
      BY <1>7 DEF S, OwnedBy
    <3>3. /\ \A z \in S : mx'[z].next = mx[z].next
          /\ \A z \in S : mx'[z].prev = IF z = h THEN x ELSE mx[z].prev
      BY <1>2, <3>2
    <3>4. QED
      BY <3>1, <3>3 DEF Pushes
  <2>2. QED
    BY <1>5, <1>7, <2>1, ChainPush
<1>10. \A u \in Threads : Chained(mx', mlist', u)
  <2> SUFFICES ASSUME NEW u \in Threads PROVE Chained(mx', mlist', u)
    OBVIOUS
  <2>1. CASE u = t
    <3>1. mlist'[t] = x
      BY <1>2, <1>4
    <3>2. QED
      BY <1>4, <1>8, <1>9, <2>1, <3>1 DEF Chained, b
  <2>2. CASE u # t
    <3>1. Chained(mx, mlist, u)
      BY <1>4, NoThreadNotThread DEF Inv2, Chains
    <3>2. mlist'[u] = mlist[u] /\ OwnedBy(mx', u) = OwnedBy(mx, u)
      BY <1>2, <1>4, <1>8, <2>2
    <3>3. \A z \in OwnedBy(mx, u) : z \in Mutexes /\ z # x /\ z # h
      BY <1>6, <1>7, <2>2, NoMutexNotMutex DEF OwnedBy, S
    <3>4. \A z \in OwnedBy(mx, u) :
            mx'[z].next = mx[z].next /\ mx'[z].prev = mx[z].prev
      BY <1>2, <3>3
    <3>5. QED
      BY <3>1, <3>2, <3>4, ChainedKept
  <2>3. QED
    BY <2>1, <2>2
<1>11. Chains'
  <2>1. \A u \in Threads : Chained(mx, mlist, u)'
    BY <1>2, <1>10, ChainedNext
  <2>2. \A u \in Threads : u # ending'
    BY <1>2, <1>4, NoThreadNotThread
  <2>3. QED
    BY <2>1, <2>2 DEF Chains
<1>12. WaitersOwnNone'
  BY <1>2, <1>4, <1>8 DEF Inv2, WaitersOwnNone, Rule
<1>13. HeldInv'
  <2>1. /\ held \in [Threads -> [Mutexes -> Nat]]
        /\ \A u \in Threads, z \in Mutexes :
             held[u][z] = IF z \in OwnedBy(mx, u) THEN mx[z].lock ELSE 0
    BY DEF Inv2, HeldInv, HeldFor
  <2>2. held[t][x] = 0
    BY <1>4, <1>6, <2>1
  <2>3. /\ held' \in [Threads -> [Mutexes -> Nat]]
        /\ \A u \in Threads, z \in Mutexes :
             held'[u][z] = IF u = t /\ z = x THEN 1 ELSE held[u][z]
    BY <1>3, <1>4, <2>1, <2>2
  <2>4. ASSUME NEW u \in Threads, NEW z \in Mutexes
        PROVE  held'[u][z] = IF z \in OwnedBy(mx', u) THEN mx'[z].lock ELSE 0
    <3>1. CASE u = t /\ z = x
      BY <1>2, <1>8, <2>3, <3>1
    <3>2. CASE ~(u = t /\ z = x)
      <4>1. z \in OwnedBy(mx', u) <=> z \in OwnedBy(mx, u)
        BY <1>8, <3>2 DEF S
      <4>2. z \in OwnedBy(mx, u) => mx'[z].lock = mx[z].lock
        BY <1>2, <1>6
      <4>3. held'[u][z] = held[u][z]
        BY <2>3, <3>2
      <4>4. QED
        BY <2>1, <4>1, <4>2, <4>3
    <3>3. QED
      BY <3>1, <3>2
  <2>5. QED
    BY <2>3, <2>4 DEF HeldInv, HeldFor
<1>14. QED
  BY <1>2, <1>11, <1>12, <1>13 DEF Inv2

(* A mutex out of the list of its owner, and not owned any more *)
CutFrom(s, x, o) ==
  /\ x \in OwnedBy(mx, o)
  /\ \A u \in Threads : OwnedBy(s.mx, u) = OwnedBy(mx, u) \ {x}
  /\ \A u \in Threads \ {o} : x \notin OwnedBy(mx, u)
  /\ \A u \in Threads : Chained(s.mx, s.mlist, u)
  /\ ~Cyclic(s, s.mlist[o])
  /\ Visited(s, s.mlist[o]) = OwnedBy(mx, o) \ {x}
  /\ k.state[o] # "Inactive"

LEMMA CutChains ==
  ASSUME Inv1, Inv2, handler = "thread", NEW x \in Mutexes, NEW o \in Threads,
         Owns(o, x), Rule("stacked") => mlist[o] = x,
         NEW s, NEW a, NEW l, Unchained(s, x, a, l), a = FALSE \/ l = 0
  PROVE  CutFrom(s, x, o)
<1> DEFINE p == mx[x].prev
           n == mx[x].next
           S == OwnedBy(mx, o)
           h == mlist[o]
           b == Rule("stacked")
<1>1. /\ StateOK(s) /\ s.k = k
      /\ \A u \in Threads :
           s.mlist[u] = IF p = NoMutex /\ u = o THEN n ELSE mlist[u]
      /\ \A z \in Mutexes :
           /\ s.mx[z].active = IF z = x THEN a ELSE mx[z].active
           /\ s.mx[z].lock = IF z = x THEN l ELSE mx[z].lock
           /\ s.mx[z].owner = mx[z].owner
           /\ s.mx[z].next = IF z = p THEN n ELSE mx[z].next
           /\ s.mx[z].prev = IF z = n THEN p ELSE mx[z].prev
  BY DEF Unchained, Owns
<1>2. ending = NoThread
  BY DEF Inv1, TypeInv
<1>3. x \in S /\ \A u \in Threads \ {o} : x \notin OwnedBy(mx, u)
  BY DEF Owns, OwnedBy
<1>4. \A u \in Threads : Chained(mx, mlist, u)
  BY <1>2, NoThreadNotThread DEF Inv2, Chains
<1>5. k.state[o] # "Inactive" /\ Chain(mx, h, S, b) /\ b \in BOOLEAN
  BY <1>3, <1>4 DEF Chained, Rule
<1>6. \A u \in Threads : x \notin OwnedBy(s.mx, u)
  <2>1. ~(s.mx[x].active /\ s.mx[x].lock > 0)
    BY <1>1
  <2>2. QED
    BY <2>1 DEF OwnedBy
<1>7. \A u \in Threads : OwnedBy(s.mx, u) = OwnedBy(mx, u) \ {x}
  <2>1. \A z \in Mutexes \ {x} :
          /\ s.mx[z].active = mx[z].active /\ s.mx[z].lock = mx[z].lock
          /\ s.mx[z].owner = mx[z].owner
    BY <1>1
  <2>2. QED
    BY <1>6, <2>1 DEF OwnedBy
<1>13. \A u \in Threads \ {o} : OwnedBy(s.mx, u) = OwnedBy(mx, u)
  <2> SUFFICES ASSUME NEW u \in Threads \ {o}
               PROVE  OwnedBy(s.mx, u) = OwnedBy(mx, u)
    OBVIOUS
  <2>1. OwnedBy(s.mx, u) = OwnedBy(mx, u) \ {x} /\ x \notin OwnedBy(mx, u)
    BY <1>3, <1>7
  <2>2. QED
    BY <2>1
<1> HIDE DEF p, n, S, h, b
<1>8. /\ p \in (S \ {x}) \cup {NoMutex} /\ n \in (S \ {x}) \cup {NoMutex}
      /\ Chain(s.mx, IF p = NoMutex THEN n ELSE h, S \ {x}, b)
  <2> DEFINE r == s.mx
             f == IF p = NoMutex THEN n ELSE h
             T == S \ {x}
  <2>1. Cuts(mx, h, S, x, r)
    BY <1>1, <1>3 DEF Cuts, p, n
  <2>2. b => h = x
    BY DEF b, h
  <2>3. /\ p = mx[x].prev /\ n = mx[x].next
        /\ f = (IF p = NoMutex THEN n ELSE h) /\ T = S \ {x}
    BY DEF p, n
  <2> HIDE DEF r, f, T
  <2>4. /\ p \in T \cup {NoMutex} /\ n \in T \cup {NoMutex}
        /\ Chain(r, f, T, b)
    BY <1>5, <2>1, <2>2, <2>3, ChainCut
  <2>5. QED
    BY <2>4 DEF r, f, T
<1>9. Chain(s.mx, s.mlist[o], S \ {x}, b)
  <2>1. s.mlist[o] = IF p = NoMutex THEN n ELSE h
    BY <1>1 DEF h
  <2>2. QED
    BY <1>8, <2>1
<1>10. ASSUME NEW u \in Threads PROVE Chained(s.mx, s.mlist, u)
  <2>1. CASE u = o
    BY <1>5, <1>7, <1>9, <2>1 DEF Chained, S, b
  <2>2. CASE u # o
    <3>1. s.mlist[u] = mlist[u] /\ OwnedBy(s.mx, u) = OwnedBy(mx, u)
      <4>1. s.mlist[u] = mlist[u]
        BY <1>1, <2>2
      <4>2. QED
        BY <1>13, <2>2, <4>1
    <3>2. \A z \in OwnedBy(mx, u) : z \in Mutexes /\ z # p /\ z # n
      BY <1>8, <2>2, NoMutexNotMutex DEF OwnedBy, S
    <3>3. \A z \in OwnedBy(mx, u) :
            s.mx[z].next = mx[z].next /\ s.mx[z].prev = mx[z].prev
      BY <1>1, <3>2
    <3>4. QED
      BY <1>4, <3>1, <3>3, ChainedKept
  <2>3. QED
    BY <2>1, <2>2
<1>11. ~Cyclic(s, s.mlist[o]) /\ Visited(s, s.mlist[o]) = S \ {x}
  <2> DEFINE g == s.mlist[o]
             T == S \ {x}
  <2>1. Path(s.mx, g, T)
    BY <1>9, ChainPath
  <2> HIDE DEF g, T
  <2>2. ~Cyclic(s, g) /\ Visited(s, g) = T
    BY <1>1, <2>1, PathVisited
  <2>3. QED
    BY <2>2 DEF g, T
<1>12. QED
  BY <1>3, <1>5, <1>7, <1>10, <1>11 DEF S, CutFrom

(* A mutex of nobody handed over *)
Handed(x, t, m, l) ==
  /\ \A u \in Threads :
       OwnedBy(mx', u) = IF u = t THEN OwnedBy(m, t) \cup {x} ELSE OwnedBy(m, u)
  /\ Chained(mx', mlist', t)
  /\ \A u \in Threads \ {t} : Chained(m, l, u) => Chained(mx', mlist', u)
  /\ \A u \in Threads : x \notin OwnedBy(m, u)
  /\ \A z \in Mutexes \ {x} :
       /\ mx'[z].next = m[z].next /\ mx'[z].prev = m[z].prev
       /\ mx'[z].lock = m[z].lock
  /\ mx'[x].lock = 1

LEMMA HandedChains ==
  ASSUME NEW x \in Mutexes, NEW t, NEW W, NEW m, NEW l,
         GoesTo(x, t, W, m, l), m[x].active, m[x].lock = 0,
         Chained(m, l, t), Rule("stacked") \/ OwnedBy(m, t) = {}
  PROVE  Handed(x, t, m, l)
<1> DEFINE S == OwnedBy(m, t)
           h == l[t]
           b == Rule("stacked")
<1>1. /\ t \in Threads /\ k.state[t] = "WaitingMutex"
      /\ \A u \in Threads : mlist'[u] = IF u = t THEN x ELSE l[u]
      /\ \A z \in Mutexes :
           /\ mx'[z].active = m[z].active
           /\ mx'[z].lock = IF z = x THEN 1 ELSE m[z].lock
           /\ mx'[z].owner = IF z = x THEN t ELSE m[z].owner
           /\ mx'[z].next = IF z = x THEN l[t] ELSE m[z].next
           /\ mx'[z].prev = IF z = x THEN NoMutex ELSE m[z].prev
  BY DEF GoesTo
<1>2. \A u \in Threads : x \notin OwnedBy(m, u)
  <2>1. ~(m[x].lock > 0)
    OBVIOUS
  <2>2. QED
    BY <2>1 DEF OwnedBy
<1>3. /\ \A z \in Mutexes \ {x} :
           /\ mx'[z].active = m[z].active /\ mx'[z].owner = m[z].owner
           /\ mx'[z].next = m[z].next /\ mx'[z].prev = m[z].prev
           /\ mx'[z].lock = m[z].lock
      /\ mx'[x].lock = 1 /\ mx'[x].lock > 0 /\ mx'[x].active
      /\ mx'[x].owner = t /\ mx'[x].next = h /\ mx'[x].prev = NoMutex
  BY <1>1
<1>4. OwnedBy(mx', t) = S \cup {x}
  BY <1>2, <1>3 DEF OwnedBy
<1>5. \A u \in Threads \ {t} : OwnedBy(mx', u) = OwnedBy(m, u) /\ mlist'[u] = l[u]
  BY <1>1, <1>2, <1>3 DEF OwnedBy
<1>6. Chain(m, h, S, b) /\ b \in BOOLEAN /\ x \in Mutexes \ S
  BY <1>1, <1>2 DEF Chained, Rule
<1>7. \A u \in Threads : \A z \in OwnedBy(m, u) :
        mx'[z].next = m[z].next /\ mx'[z].prev = m[z].prev
  BY <1>2, <1>3 DEF OwnedBy
<1>8. Chain(mx', x, S \cup {x}, b)
  <2>1. Pushes(m, h, S, b, x, mx')
    BY <1>1, <1>3, <1>7 DEF Pushes
  <2> HIDE DEF S, h, b
  <2>2. QED
    BY <1>6, <2>1, ChainPush
<1>9. Chained(mx', mlist', t)
  BY <1>1, <1>4, <1>8 DEF Chained
<1>10. ASSUME NEW u \in Threads \ {t}, Chained(m, l, u)
       PROVE  Chained(mx', mlist', u)
  <2>1. /\ mlist'[u] = l[u] /\ OwnedBy(mx', u) = OwnedBy(m, u)
        /\ \A z \in OwnedBy(m, u) :
             mx'[z].next = m[z].next /\ mx'[z].prev = m[z].prev
    BY <1>5, <1>7
  <2>2. QED
    BY <1>10, <2>1, ChainedKept
<1>11. QED
  BY <1>2, <1>3, <1>4, <1>5, <1>9, <1>10 DEF Handed

(* What the threads have been told, with x nobody's *)
LEMMA HeldCut ==
  ASSUME HeldInv, NEW x \in Mutexes, NEW m, NEW h,
         \A u \in Threads : OwnedBy(m, u) = OwnedBy(mx, u) \ {x},
         \A z \in Mutexes \ {x} : m[z].lock = mx[z].lock,
         h \in [Threads -> [Mutexes -> Nat]],
         \A u \in Threads, z \in Mutexes :
           h[u][z] = IF z = x THEN 0 ELSE held[u][z]
  PROVE  HeldFor(h, m)
<1>1. \A u \in Threads, z \in Mutexes :
        held[u][z] = IF z \in OwnedBy(mx, u) THEN mx[z].lock ELSE 0
  BY DEF HeldInv, HeldFor
<1>2. ASSUME NEW u \in Threads, NEW z \in Mutexes
      PROVE  h[u][z] = IF z \in OwnedBy(m, u) THEN m[z].lock ELSE 0
  <2>1. CASE z = x
    BY <2>1
  <2>2. CASE z # x
    <3>1. z \in OwnedBy(m, u) <=> z \in OwnedBy(mx, u)
      BY <2>2
    <3>2. h[u][z] = held[u][z] /\ m[z].lock = mx[z].lock
      BY <2>2
    <3>3. QED
      BY <1>1, <3>1, <3>2
  <2>3. QED
    BY <2>1, <2>2
<1>3. QED
  BY <1>2 DEF HeldFor

(* ... and then somebody's *)
Tells(h, r, x, t, W) ==
  /\ W = ToSet(k.objq[x]) /\ t = Head(k.objq[x]) /\ r = Told(h, x)
  /\ h \in [Threads -> [Mutexes -> Nat]]

LEMMA ToldFacts ==
  ASSUME NEW F, KernelOK(k, F), NEW x \in Mutexes, NEW W, NEW t, NEW h, NEW r,
         W # {} => t \in Threads, Tells(h, r, x, t, W)
  PROVE  /\ r \in [Threads -> [Mutexes -> Nat]]
         /\ \A u \in Threads, z \in Mutexes :
              r[u][z] = IF W # {} /\ u = t /\ z = x THEN 1 ELSE h[u][z]
<1> /\ W = ToSet(k.objq[x]) /\ t = Head(k.objq[x]) /\ r = Told(h, x)
    /\ h \in [Threads -> [Mutexes -> Nat]]
  BY DEF Tells
<1>1. k.objq[x] = <<>> <=> W = {}
  BY NoWaiters
<1>2. CASE W = {}
  BY <1>1, <1>2 DEF Told
<1>3. CASE W # {}
  <2>1. r = [h EXCEPT ![t][x] = 1]
    BY <1>1, <1>3 DEF Told
  <2>2. QED
    BY <1>3, <2>1
<1>4. QED
  BY <1>2, <1>3

LEMMA HeldTold ==
  ASSUME NEW F, KernelOK(k, F), NEW x \in Mutexes,
         NEW W, W = ToSet(k.objq[x]), NEW t, t = Head(k.objq[x]),
         NEW m, NEW l, NEW h, HeldFor(h, m), held' = Told(h, x),
         W = {} => mx' = m, W # {} => t \in Threads /\ Handed(x, t, m, l)
  PROVE  HeldInv'
<1>1. /\ h \in [Threads -> [Mutexes -> Nat]]
      /\ \A u \in Threads, z \in Mutexes :
           h[u][z] = IF z \in OwnedBy(m, u) THEN m[z].lock ELSE 0
  BY DEF HeldFor
<1>2. /\ held' \in [Threads -> [Mutexes -> Nat]]
      /\ \A u \in Threads, z \in Mutexes :
           held'[u][z] = IF W # {} /\ u = t /\ z = x THEN 1 ELSE h[u][z]
  <2> DEFINE r == held'
  <2>1. Tells(h, r, x, t, W)
    BY <1>1 DEF Tells
  <2> HIDE DEF r
  <2>2. /\ r \in [Threads -> [Mutexes -> Nat]]
        /\ \A u \in Threads, z \in Mutexes :
             r[u][z] = IF W # {} /\ u = t /\ z = x THEN 1 ELSE h[u][z]
    BY <2>1, ToldFacts
  <2>3. QED
    BY <2>2 DEF r
<1>3. ASSUME NEW u \in Threads, NEW z \in Mutexes
      PROVE  held'[u][z] = IF z \in OwnedBy(mx', u) THEN mx'[z].lock ELSE 0
  <2>1. CASE W = {}
    BY <1>1, <1>2, <2>1
  <2>2. CASE W # {} /\ u = t /\ z = x
    <3>1. x \in OwnedBy(mx', t) /\ mx'[x].lock = 1
      BY <2>2 DEF Handed
    <3>2. QED
      BY <1>2, <2>2, <3>1
  <2>3. CASE W # {} /\ ~(u = t /\ z = x)
    <3>1. z \in OwnedBy(mx', u) <=> z \in OwnedBy(m, u)
      BY <2>3 DEF Handed
    <3>2. z \in OwnedBy(m, u) => mx'[z].lock = m[z].lock
      BY <2>3 DEF Handed
    <3>3. held'[u][z] = h[u][z]
      BY <1>2, <2>3
    <3>4. QED
      BY <1>1, <3>1, <3>2, <3>3
  <2>4. QED
    BY <2>1, <2>2, <2>3
<1>4. QED
  BY <1>2, <1>3 DEF HeldInv, HeldFor

(* The loops over the rest of the list end. *)
LEMMA ReleaseGoes ==
  ASSUME Inv1, Inv2, NEW x \in Mutexes, Release(x), ~(mx[x].lock > 1),
         NEW c, c = k.curr,
         NEW s, s = Unchain([State EXCEPT !.mx[x].lock = 0], x)
  PROVE  handler' # "hung" /\ CutFrom(s, x, c)
<1>1. /\ Calling /\ Owns(c, x) /\ ReleaseLast(x)
      /\ Rule("stacked") => mlist[c] = x
  BY DEF Release
<1>2. /\ MutexesOK(mx) /\ mlist \in [Threads -> Nodes]
      /\ handler = "thread" /\ c \in Threads
  BY <1>1, CallStarts DEF User
<1>3. mx[x].owner \in Threads /\ mx[x].active \in BOOLEAN
  BY <1>1, <1>2 DEF Owns
<1> DEFINE a == mx[x].active
           l == 0
<1>4. Unchained(s, x, a, l) /\ l = 0
  BY <1>2, <1>3, UnchainedState
<1> HIDE DEF a, l
<1>5. CutFrom(s, x, c)
  BY <1>1, <1>2, <1>4, CutChains
<1>6. handler' = handler
  BY <1>1, <1>5 DEF ReleaseLast, CutFrom
<1>7. QED
  BY <1>2, <1>5, <1>6

LEMMA DeleteGoes ==
  ASSUME Inv1, Inv2, NEW x \in Mutexes, Delete(x), mx[x].lock # 0,
         NEW o, o = mx[x].owner,
         NEW s, s = Unchain([State EXCEPT !.mx[x].active = FALSE], x)
  PROVE  handler' # "hung" /\ CutFrom(s, x, o)
<1>1. /\ Calling /\ mx[x].active /\ DeleteLocked(x)
      /\ Rule("stacked") => mlist[o] = x
  BY DEF Delete
<1>2. /\ MutexesOK(mx) /\ mlist \in [Threads -> Nodes]
      /\ handler = "thread"
  BY <1>1, CallStarts
<1>3. o \in Threads /\ Owns(o, x) /\ mx[x].lock \in Nat
  BY <1>1, <1>2, MutexFields DEF MutexesOK, Owns
<1> DEFINE a == FALSE
           l == mx[x].lock
<1>4. Unchained(s, x, a, l) /\ a = FALSE
  BY <1>2, <1>3, UnchainedState
<1> HIDE DEF a, l
<1>5. CutFrom(s, x, o)
  BY <1>1, <1>2, <1>3, <1>4, CutChains
<1>6. handler' = "unblock"
  BY <1>1, <1>5 DEF DeleteLocked, CutFrom
<1>7. QED
  BY <1>5, <1>6

(* The lists of all threads, while none ends *)
LEMMA ChainsNext ==
  ASSUME UNCHANGED program, ending' = NoThread, SameLife,
         \A u \in Threads : Chained(mx', mlist', u)
  PROVE  Chains'
<1>1. \A u \in Threads : Chained(mx, mlist, u)'
  BY ChainedNext DEF SameLife
<1>2. \A u \in Threads : u # ending'
  BY NoThreadNotThread
<1>3. QED
  BY <1>1, <1>2 DEF Chains

(* A mutex that its owner had no more goes to whom it goes. *)
LEMMA HandedOwners ==
  ASSUME Inv2, NEW x \in Mutexes, NEW t, NEW W, NEW m, NEW l,
         GoesTo(x, t, W, m, l), Handed(x, t, m, l), UNCHANGED program,
         \A u \in Threads : OwnedBy(m, u) \subseteq OwnedBy(mx, u)
  PROVE  SameLife /\ WaitersOwnNone'
<1>1. t \in Threads /\ k'.state[t] \in Runnable /\ Others({t})
      /\ k.state[t] = "WaitingMutex"
  BY DEF GoesTo
<1>2. SameLife
  BY <1>1 DEF SameLife, Others, Runnable
<1>3. \A u \in Threads : k'.state[u] = "WaitingMutex" =>
        u # t /\ k.state[u] = "WaitingMutex"
  BY <1>1 DEF Others, Runnable
<1>4. \A u \in Threads \ {t} : OwnedBy(mx', u) = OwnedBy(m, u)
  BY DEF Handed
<1>5. WaitersOwnNone'
  <2> SUFFICES ASSUME Rule("unnested"), NEW u \in Threads,
                      k'.state[u] = "WaitingMutex"
               PROVE  OwnedBy(mx', u) = {}
    BY DEF WaitersOwnNone, Rule
  <2>1. u # t /\ k.state[u] = "WaitingMutex"
    BY <1>3
  <2>2. OwnedBy(mx, u) = {}
    BY <2>1 DEF Inv2, WaitersOwnNone
  <2>3. OwnedBy(mx', u) = OwnedBy(m, u)
    BY <1>4, <2>1
  <2>4. QED
    BY <2>2, <2>3
<1>6. QED
  BY <1>2, <1>5

LEMMA Inv2Release ==
  ASSUME Inv1, Inv2, UNCHANGED program, NEW x \in Mutexes, Release(x),
         ~(mx[x].lock > 1), Rule("stacked") \/ Rule("unnested")
  PROVE  Inv2'
<1> DEFINE c == k.curr
           s == Unchain([State EXCEPT !.mx[x].lock = 0], x)
           W == ToSet(k.objq[x])
           t == Head(k.objq[x])
           m == s.mx
           l == s.mlist
           h == [held EXCEPT ![c][x] = @ - 1]
           F == {}
<1>1. /\ c = k.curr /\ s = Unchain([State EXCEPT !.mx[x].lock = 0], x)
      /\ W = ToSet(k.objq[x]) /\ t = Head(k.objq[x])
      /\ m = s.mx /\ l = s.mlist
  OBVIOUS
<1>2. KernelOK(k, F) /\ handler = "thread" /\ ending = NoThread
  BY CallStarts DEF Release
<1> HIDE DEF c, s, W, t, m, l, h, F
<1>3. handler' # "hung" /\ CutFrom(s, x, c)
  BY <1>1, ReleaseGoes
<1>4. /\ Inv1' /\ UNCHANGED <<handler, ending, at>>
      /\ c \in User /\ Owns(c, x) /\ mx[x].lock = 1
      /\ Unchained(s, x, mx[x].active, 0)
      /\ W = {} => Others({}) /\ mx' = m /\ mlist' = l
      /\ W # {} => GoesTo(x, t, W, m, l)
      /\ held' = Told([held EXCEPT ![c][x] = @ - 1], x)
  BY <1>1, <1>3, ReleaseStep
<1>5. /\ x \in OwnedBy(mx, c)
      /\ \A u \in Threads : OwnedBy(m, u) = OwnedBy(mx, u) \ {x}
      /\ \A u \in Threads \ {c} : x \notin OwnedBy(mx, u)
      /\ \A u \in Threads : Chained(m, l, u)
  BY <1>1, <1>3 DEF CutFrom
<1>6. /\ m[x].active /\ m[x].lock = 0
      /\ \A z \in Mutexes \ {x} : m[z].lock = mx[z].lock
  BY <1>1, <1>4 DEF Unchained, Owns
<1>7. W # {} => t \in Threads /\ Handed(x, t, m, l)
  <2> SUFFICES ASSUME W # {} PROVE t \in Threads /\ Handed(x, t, m, l)
    OBVIOUS
  <2>1. GoesTo(x, t, W, m, l) /\ t \in Threads /\ k.state[t] = "WaitingMutex"
    BY <1>4 DEF GoesTo
  <2>2. Rule("stacked") \/ OwnedBy(m, t) = {}
    <3>1. Rule("unnested") => OwnedBy(mx, t) = {}
      BY <2>1 DEF Inv2, WaitersOwnNone
    <3>2. OwnedBy(m, t) = OwnedBy(mx, t) \ {x}
      BY <1>5, <2>1
    <3>3. QED
      BY <3>1, <3>2
  <2>3. QED
    BY <1>5, <1>6, <2>1, <2>2, HandedChains
<1>8. SameLife /\ WaitersOwnNone'
  <2>1. CASE W = {}
    <3>1. Others({}) /\ mx' = m
      BY <1>4, <2>1
    <3>2. \A u \in Threads : k'.state[u] = "WaitingMutex" =>
            k.state[u] = "WaitingMutex"
      BY <3>1 DEF Others, Runnable
    <3>3. SameLife
      BY <3>1 DEF SameLife, Others, Runnable
    <3>4. QED
      BY <1>5, <3>1, <3>2, <3>3 DEF Inv2, WaitersOwnNone, Rule
  <2>2. CASE W # {}
    BY <1>4, <1>5, <1>7, <2>2, HandedOwners
  <2>3. QED
    BY <2>1, <2>2
<1>9. \A u \in Threads : Chained(mx', mlist', u)
  <2>1. CASE W = {}
    BY <1>4, <1>5, <2>1
  <2>2. CASE W # {}
    <3>1. /\ Chained(mx', mlist', t)
          /\ \A u \in Threads \ {t} :
               Chained(m, l, u) => Chained(mx', mlist', u)
      BY <1>7, <2>2, Zenon DEF Handed
    <3>2. QED
      BY <1>5, <3>1
  <2>3. QED
    BY <2>1, <2>2
<1>10. Chains'
  BY <1>2, <1>4, <1>8, <1>9, ChainsNext
<1>11. HeldInv'
  <2>1. /\ held \in [Threads -> [Mutexes -> Nat]]
        /\ \A u \in Threads, z \in Mutexes :
             held[u][z] = IF z \in OwnedBy(mx, u) THEN mx[z].lock ELSE 0
    BY DEF Inv2, HeldInv, HeldFor
  <2>2. c \in Threads
    BY <1>4 DEF User
  <2>3. held[c][x] = 1 /\ \A u \in Threads \ {c} : held[u][x] = 0
    BY <1>4, <1>5, <2>1, <2>2
  <2>4. h = [held EXCEPT ![c][x] = 0]
    BY <2>1, <2>2, <2>3 DEF h
  <2>5. h \in [Threads -> [Mutexes -> Nat]]
    BY <2>1, <2>4
  <2>6. \A u \in Threads, z \in Mutexes :
          h[u][z] = IF z = x THEN 0 ELSE held[u][z]
    BY <2>1, <2>2, <2>3, <2>4
  <2>7. HeldFor(h, m)
    BY <1>5, <1>6, <2>5, <2>6, HeldCut DEF Inv2
  <2>8. held' = Told(h, x)
    BY <1>4 DEF h
  <2>9. QED
    BY <1>1, <1>2, <1>4, <1>7, <2>7, <2>8, HeldTold
<1>12. QED
  BY <1>3, <1>8, <1>10, <1>11 DEF Inv2

LEMMA Inv2Delete ==
  ASSUME Inv1, Inv2, UNCHANGED program, NEW x \in Mutexes, Delete(x),
         mx[x].lock # 0
  PROVE  Inv2'
<1> DEFINE o == mx[x].owner
           s == Unchain([State EXCEPT !.mx[x].active = FALSE], x)
           h == held'
<1>1. o = mx[x].owner /\ s = Unchain([State EXCEPT !.mx[x].active = FALSE], x)
  OBVIOUS
<1>2. ending = NoThread
  BY CallStarts DEF Delete
<1> HIDE DEF o, s, h
<1>3. handler' # "hung" /\ CutFrom(s, x, o)
  BY <1>1, DeleteGoes
<1>4. /\ UNCHANGED ending /\ o \in Threads
      /\ Unchained(s, x, FALSE, mx[x].lock) /\ k'.state = k.state
      /\ mx' = s.mx /\ mlist' = s.mlist
      /\ held' = [u \in Threads |-> [held[u] EXCEPT ![x] = 0]]
  BY <1>1, <1>3, DeleteStep
<1>5. /\ x \in OwnedBy(mx, o)
      /\ \A u \in Threads : OwnedBy(mx', u) = OwnedBy(mx, u) \ {x}
      /\ \A u \in Threads : Chained(mx', mlist', u)
  BY <1>3, <1>4 DEF CutFrom
<1>6. SameLife
  BY <1>4 DEF SameLife
<1>7. Chains'
  BY <1>2, <1>4, <1>5, <1>6, ChainsNext
<1>8. WaitersOwnNone'
  BY <1>4, <1>5 DEF Inv2, WaitersOwnNone, Rule
<1>9. HeldInv'
  <2>1. /\ held \in [Threads -> [Mutexes -> Nat]]
    BY DEF Inv2, HeldInv, HeldFor
  <2>2. /\ h \in [Threads -> [Mutexes -> Nat]]
        /\ \A u \in Threads, z \in Mutexes :
             h[u][z] = IF z = x THEN 0 ELSE held[u][z]
    BY <1>4, <2>1 DEF h
  <2>3. \A z \in Mutexes \ {x} : mx'[z].lock = mx[z].lock
    BY <1>4 DEF Unchained
  <2>4. HeldFor(h, mx')
    BY <1>5, <2>2, <2>3, HeldCut DEF Inv2
  <2>5. QED
    BY <2>4 DEF HeldInv, h
<1>10. QED
  BY <1>3, <1>7, <1>8, <1>9 DEF Inv2

(* A thread is on its way to its end: its list is the one to be walked. *)
LEMMA Inv2Terminate ==
  ASSUME Inv1, Inv2, UNCHANGED program, NEW t \in User, Terminate(t)
  PROVE  Inv2'
<1>1. /\ Inv1' /\ handler' = "release" /\ ending' = t /\ at' = mlist[t]
      /\ UNCHANGED <<mx, mlist, held>> /\ ending = NoThread
      /\ k.state[t] # "Inactive" /\ k'.state = k.state /\ t \in Threads
  BY TerminateStep DEF User
<1>2. Chains'
  <2> SUFFICES ASSUME NEW u \in Threads
               PROVE  IF u = ending' THEN Path(mx, at, OwnedBy(mx, u))'
                      ELSE Chained(mx, mlist, u)'
    BY DEF Chains
  <2>1. Chained(mx, mlist, u)
    BY <1>1, NoThreadNotThread DEF Inv2, Chains
  <2>2. CASE u = t
    <3>1. Chain(mx, mlist[t], OwnedBy(mx, t), Rule("stacked"))
      BY <1>1, <2>1, <2>2 DEF Chained
    <3>2. Path(mx, mlist[t], OwnedBy(mx, t))
      BY <3>1, ChainPath
    <3>3. QED
      BY <1>1, <2>2, <3>2
  <2>3. CASE u # t
    <3>1. Chained(mx', mlist', u)
      BY <1>1, <2>1
    <3>2. Chained(mx, mlist, u)'
      BY <1>1, <3>1, ChainedNext
    <3>3. QED
      BY <1>1, <2>3, <3>2
  <2>4. QED
    BY <2>2, <2>3
<1>3. WaitersOwnNone' /\ HeldInv'
  BY <1>1 DEF Inv2, WaitersOwnNone, HeldInv, HeldFor, Rule
<1>4. QED
  BY <1>1, <1>2, <1>3 DEF Inv2

(* One mutex of the thread that ends *)
LEMMA Inv2OwnerRelease ==
  ASSUME Inv1, Inv2, UNCHANGED program, OwnerRelease, Robust = Mutexes,
         Rule("stacked") \/ Rule("unnested")
  PROVE  Inv2'
<1> DEFINE e == ending
           x == at
           W == ToSet(k.objq[x])
           t == Head(k.objq[x])
           m == [mx EXCEPT ![x].lock = 0]
           h == [held EXCEPT ![e][x] = 0]
           F == Leaving
           S == OwnedBy(mx, e)
           l == mlist
<1>1. /\ e = ending /\ x = at /\ W = ToSet(k.objq[x]) /\ t = Head(k.objq[x])
      /\ F = Leaving /\ l = mlist /\ Releases(e, x, W, t, m)
  BY DEF Releases
<1> HIDE DEF e, x, W, t, m, h, F, S, l
<1>2. KernelOK(k, F)
  BY <1>1 DEF Inv1, KInv
<1>3. /\ UNCHANGED <<handler, ending>> /\ handler = "release"
      /\ e \in User /\ x \in Mutexes /\ k.state[e] # "Inactive"
      /\ at' = mx[x].next
      /\ MutexSet(mx, m, x, mx[x].active, 0, mx[x].owner, mx[x].prev,
                  mx[x].next)
      /\ x \in Robust => held' = Told([held EXCEPT ![e][x] = 0], x)
      /\ x \in Robust /\ W = {} => mx' = m /\ UNCHANGED <<k, mlist>>
      /\ x \in Robust /\ W # {} => GoesTo(x, t, W, m, mlist) /\ t # e
  BY <1>1, OwnerReleaseStep, ZenonT(60)
<1>4. /\ e \in Threads /\ x \in Robust
      /\ held' = Told(h, x)
      /\ W = {} => mx' = m /\ UNCHANGED <<k, mlist>>
      /\ W # {} => GoesTo(x, t, W, m, l) /\ t # e
  BY <1>1, <1>3 DEF User, h
<1>5. \A z \in Mutexes :
        /\ m[z].active = mx[z].active
        /\ m[z].lock = (IF z = x THEN 0 ELSE mx[z].lock)
        /\ m[z].owner = mx[z].owner /\ m[z].next = mx[z].next
        /\ m[z].prev = mx[z].prev
  BY <1>3 DEF MutexSet
<1>6. Path(mx, x, S)
  BY <1>1, <1>4 DEF Inv2, Chains, S
<1>7. x \in S /\ Path(m, mx[x].next, S \ {x})
  <2>1. \A z \in S \ {x} : m[z].next = mx[z].next
    BY <1>5 DEF S, OwnedBy
  <2>2. QED
    BY <1>3, <1>6, <2>1, PathTail
<1>8. \A u \in Threads \ {e} : x \notin OwnedBy(mx, u)
  BY <1>7 DEF S, OwnedBy
<1>9. \A u \in Threads : OwnedBy(m, u) = OwnedBy(mx, u) \ {x}
  <2>1. ~(m[x].lock > 0)
    BY <1>3, <1>5
  <2>2. \A z \in Mutexes \ {x} :
          /\ m[z].active = mx[z].active /\ m[z].lock = mx[z].lock
          /\ m[z].owner = mx[z].owner
    BY <1>5
  <2>3. QED
    BY <2>1, <2>2 DEF OwnedBy
<1>10. ASSUME NEW u \in Threads \ {e} PROVE Chained(m, l, u)
  <2>1. Chained(mx, l, u)
    BY <1>1 DEF Inv2, Chains
  <2>2. OwnedBy(m, u) = OwnedBy(mx, u)
    <3>1. OwnedBy(m, u) = OwnedBy(mx, u) \ {x} /\ x \notin OwnedBy(mx, u)
      BY <1>8, <1>9
    <3>2. QED
      BY <3>1
  <2>3. \A z \in OwnedBy(mx, u) : m[z].next = mx[z].next /\ m[z].prev = mx[z].prev
    BY <1>5 DEF OwnedBy
  <2>4. QED
    BY <2>1, <2>2, <2>3, ChainedKept
<1>11. W # {} => t \in Threads /\ Handed(x, t, m, l)
  <2> SUFFICES ASSUME W # {} PROVE t \in Threads /\ Handed(x, t, m, l)
    OBVIOUS
  <2>1. /\ GoesTo(x, t, W, m, l) /\ t \in Threads /\ k.state[t] = "WaitingMutex"
        /\ t # e
    BY <1>4 DEF GoesTo
  <2>2. Rule("stacked") \/ OwnedBy(m, t) = {}
    <3>1. Rule("unnested") => OwnedBy(mx, t) = {}
      BY <2>1 DEF Inv2, WaitersOwnNone
    <3>2. OwnedBy(m, t) = OwnedBy(mx, t) \ {x}
      BY <1>9, <2>1
    <3>3. QED
      BY <3>1, <3>2
  <2>3. m[x].active /\ m[x].lock = 0
    BY <1>3, <1>5, <1>7 DEF S, OwnedBy
  <2>4. Chained(m, l, t)
    BY <1>10, <2>1
  <2>5. QED
    BY <1>3, <2>1, <2>2, <2>3, <2>4, HandedChains
<1>12. SameLife /\ WaitersOwnNone'
  <2>1. CASE W = {}
    <3>1. k' = k /\ mx' = m
      BY <1>4, <2>1
    <3>2. QED
      BY <1>9, <3>1 DEF Inv2, WaitersOwnNone, Rule, SameLife
  <2>2. CASE W # {}
    BY <1>3, <1>4, <1>9, <1>11, <2>2, HandedOwners
  <2>3. QED
    BY <2>1, <2>2
<1>13. Path(mx', at', OwnedBy(mx', e))
  <2> DEFINE g == mx[x].next
             T == S \ {x}
  <2>1. Path(m, g, T) /\ at' = g /\ OwnedBy(m, e) = T
    BY <1>3, <1>4, <1>7, <1>9 DEF S
  <2>2. \A z \in T : z \in Mutexes \ {x}
    BY DEF S, OwnedBy
  <2> HIDE DEF g, T
  <2>3. CASE W = {}
    BY <1>4, <2>1, <2>3
  <2>4. CASE W # {}
    <3>1. t # e /\ Handed(x, t, m, l)
      BY <1>4, <1>11, <2>4
    <3>2. OwnedBy(mx', e) = T
      BY <1>4, <2>1, <3>1 DEF Handed
    <3>3. \A z \in T : mx'[z].next = m[z].next
      BY <2>2, <3>1 DEF Handed
    <3>4. Path(mx', g, T)
      BY <2>1, <3>3, PathKept
    <3>5. QED
      BY <2>1, <3>2, <3>4
  <2>5. QED
    BY <2>3, <2>4
<1>14. ASSUME NEW u \in Threads \ {e} PROVE Chained(mx', mlist', u)
  <2>1. CASE W = {}
    BY <1>1, <1>4, <1>10, <2>1
  <2>2. CASE W # {}
    <3>1. /\ Chained(mx', mlist', t)
          /\ \A v \in Threads \ {t} :
               Chained(m, l, v) => Chained(mx', mlist', v)
      BY <1>11, <2>2, Zenon DEF Handed
    <3>2. QED
      BY <1>10, <3>1
  <2>3. QED
    BY <2>1, <2>2
<1>15. Chains'
  <2> SUFFICES ASSUME NEW u \in Threads
               PROVE  IF u = ending' THEN Path(mx, at, OwnedBy(mx, u))'
                      ELSE Chained(mx, mlist, u)'
    BY DEF Chains
  <2>1. ending' = e
    BY <1>1, <1>3
  <2>2. CASE u = e
    BY <1>13, <2>1, <2>2
  <2>3. CASE u # e
    <3>1. Chained(mx', mlist', u)
      BY <1>14, <2>3
    <3>2. Chained(mx, mlist, u)'
      BY <1>12, <3>1, ChainedNext DEF SameLife
    <3>3. QED
      BY <2>1, <2>3, <3>2
  <2>4. QED
    BY <2>2, <2>3
<1>16. HeldInv'
  <2>1. /\ held \in [Threads -> [Mutexes -> Nat]]
        /\ \A u \in Threads, z \in Mutexes :
             held[u][z] = IF z \in OwnedBy(mx, u) THEN mx[z].lock ELSE 0
    BY DEF Inv2, HeldInv, HeldFor
  <2>2. \A u \in Threads \ {e} : held[u][x] = 0
    BY <1>3, <1>8, <2>1
  <2>3. h \in [Threads -> [Mutexes -> Nat]]
    BY <1>3, <1>4, <2>1 DEF h
  <2>4. \A u \in Threads, z \in Mutexes :
          h[u][z] = IF z = x THEN 0 ELSE held[u][z]
    BY <1>3, <1>4, <2>1, <2>2 DEF h
  <2>5. \A z \in Mutexes \ {x} : m[z].lock = mx[z].lock
    BY <1>5
  <2>6. HeldFor(h, m)
    BY <1>3, <1>9, <2>3, <2>4, <2>5, HeldCut DEF Inv2
  <2>7. QED
    BY <1>1, <1>2, <1>3, <1>4, <1>11, <2>6, HeldTold
<1>17. QED
  BY <1>3, <1>12, <1>15, <1>16 DEF Inv2

LEMMA Inv2TerminateEnd ==
  ASSUME Inv1, Inv2, UNCHANGED program, TerminateEnd
  PROVE  Inv2'
<1> DEFINE e == ending
<1>1. e = ending
  OBVIOUS
<1> HIDE DEF e
<1>2. /\ handler' = "thread" /\ ending' = NoThread
      /\ UNCHANGED <<mx, mlist, at, held>> /\ at = NoMutex
      /\ e \in User /\ k.state[e] # "Inactive" /\ k'.state[e] = "Inactive"
      /\ Others({e})
  BY <1>1, TerminateEndStep
<1>3. e \in Threads
  BY <1>2 DEF User
<1>4. OwnedBy(mx, e) = {}
  <2>1. Path(mx, NoMutex, OwnedBy(mx, e))
    BY <1>1, <1>2, <1>3 DEF Inv2, Chains
  <2>2. QED
    BY <2>1, PathHead
<1>5. Chains'
  <2> SUFFICES ASSUME NEW u \in Threads PROVE Chained(mx, mlist, u)'
    BY <1>2, NoThreadNotThread DEF Chains
  <2>1. CASE u = e
    BY <1>2, <1>4, <2>1 DEF Chained
  <2>2. CASE u # e
    <3>1. Chained(mx', mlist', u)
      BY <1>1, <1>2, <2>2 DEF Inv2, Chains
    <3>2. k'.state[u] = "Inactive" <=> k.state[u] = "Inactive"
      BY <1>2, <2>2 DEF Others, Runnable
    <3>3. QED
      BY <3>1, <3>2, ChainedNext
  <2>3. QED
    BY <2>1, <2>2
<1>6. WaitersOwnNone'
  <2>1. \A u \in Threads :
          k'.state[u] = "WaitingMutex" => k.state[u] = "WaitingMutex"
    BY <1>2 DEF Others, Runnable
  <2>2. QED
    BY <1>2, <2>1 DEF Inv2, WaitersOwnNone, Rule
<1>7. HeldInv'
  BY <1>2 DEF Inv2, HeldInv, HeldFor
<1>8. QED
  BY <1>2, <1>5, <1>6, <1>7 DEF Inv2

LEMMA Inv2ThreadNew ==
  ASSUME Inv1, Inv2, UNCHANGED program, NEW t \in User, NEW p \in Prios,
         ThreadNew(t, p)
  PROVE  Inv2'
<1>1. /\ UNCHANGED <<handler, mx, ending, at>> /\ ending = NoThread
      /\ k.state[t] = "Inactive" /\ k'.state[t] \in Runnable /\ Others({t})
      /\ \A u \in Threads : mlist'[u] = (IF u = t THEN NoMutex ELSE mlist[u])
  BY ThreadNewStep
<1>2. t \in Threads /\ held' = [held EXCEPT ![t] = [x \in Mutexes |-> 0]]
  BY DEF User, ThreadNew
<1>3. \A u \in Threads : Chained(mx, mlist, u)
  BY <1>1, NoThreadNotThread DEF Inv2, Chains
<1>4. OwnedBy(mx, t) = {}
  BY <1>1, <1>2, <1>3 DEF Chained
<1>5. Chains'
  <2> SUFFICES ASSUME NEW u \in Threads PROVE Chained(mx, mlist, u)'
    BY <1>1, NoThreadNotThread DEF Chains
  <2>1. CASE u = t
    <3> DEFINE b == Rule("stacked")'
               h == mlist'[t]
               S == OwnedBy(mx', t)
    <3>1. h = NoMutex /\ S = {}
      BY <1>1, <1>2, <1>4
    <3> HIDE DEF b, h, S
    <3>2. Chain(mx', h, S, b)
      BY <3>1, ChainEmpty
    <3>3. Chain(mx', mlist'[u], OwnedBy(mx', u), Rule("stacked")')
      BY <2>1, <3>2 DEF b, h, S
    <3>4. Chain(mx, mlist[u], OwnedBy(mx, u), Rule("stacked"))'
      BY <3>3
    <3>5. k'.state[u] # "Inactive"
      BY <1>1, <2>1 DEF Runnable
    <3>6. QED
      BY <3>4, <3>5 DEF Chained
  <2>2. CASE u # t
    <3>1. k'.state[u] = "Inactive" <=> k.state[u] = "Inactive"
      BY <1>1, <2>2 DEF Others, Runnable
    <3>2. Chained(mx', mlist', u)
      <4>1. /\ mlist'[u] = mlist[u] /\ OwnedBy(mx', u) = OwnedBy(mx, u)
            /\ \A z \in OwnedBy(mx, u) :
                 mx'[z].next = mx[z].next /\ mx'[z].prev = mx[z].prev
        BY <1>1, <2>2
      <4>2. Chained(mx, mlist, u)
        BY <1>3
      <4>3. QED
        BY <4>1, <4>2, ChainedKept
    <3>3. QED
      BY <3>1, <3>2, ChainedNext
  <2>3. QED
    BY <2>1, <2>2
<1>6. WaitersOwnNone'
  <2>1. \A u \in Threads :
          k'.state[u] = "WaitingMutex" => k.state[u] = "WaitingMutex"
    BY <1>1 DEF Others, Runnable
  <2>2. QED
    BY <1>1, <2>1 DEF Inv2, WaitersOwnNone, Rule
<1>7. HeldInv'
  <2>1. /\ held \in [Threads -> [Mutexes -> Nat]]
        /\ \A u \in Threads, z \in Mutexes :
             held[u][z] = IF z \in OwnedBy(mx, u) THEN mx[z].lock ELSE 0
    BY DEF Inv2, HeldInv, HeldFor
  <2>2. held' \in [Threads -> [Mutexes -> Nat]]
    BY <1>2, <2>1
  <2>3. \A u \in Threads, z \in Mutexes :
          held'[u][z] = IF u = t THEN 0 ELSE held[u][z]
    BY <1>2, <2>1
  <2>4. \A u \in Threads, z \in Mutexes :
          held'[u][z] = IF z \in OwnedBy(mx, u) THEN mx[z].lock ELSE 0
    BY <1>4, <2>1, <2>3
  <2>5. QED
    BY <1>1, <2>2, <2>4 DEF HeldInv, HeldFor
<1>8. QED
  BY <1>1, <1>5, <1>6, <1>7 DEF Inv2

LEMMA Inv2Starts ==
  ASSUME Init
  PROVE  Inv2
<1>1. /\ mx = [x \in Mutexes |-> Unlocked] /\ handler # "hung"
      /\ mlist = [t \in Threads |-> NoMutex] /\ ending = NoThread
      /\ held = [t \in Threads |-> [x \in Mutexes |-> 0]]
  BY DEF Init, KernelInit
<1>2. \A t \in Threads : OwnedBy(mx, t) = {}
  BY <1>1 DEF OwnedBy, Unlocked
<1>3. Chains
  <2> SUFFICES ASSUME NEW t \in Threads PROVE Chained(mx, mlist, t)
    BY <1>1, NoThreadNotThread DEF Chains
  <2> DEFINE b == Rule("stacked")
             h == mlist[t]
             S == OwnedBy(mx, t)
  <2>1. h = NoMutex /\ S = {}
    BY <1>1, <1>2
  <2> HIDE DEF b, h, S
  <2>2. Chain(mx, h, S, b)
    BY <2>1, ChainEmpty
  <2>3. QED
    BY <2>1, <2>2 DEF Chained, b, h, S
<1>4. HeldInv
  BY <1>1, <1>2 DEF HeldInv, HeldFor
<1>5. WaitersOwnNone
  BY <1>2 DEF WaitersOwnNone
<1>6. QED
  BY <1>1, <1>3, <1>4, <1>5 DEF Inv2

(* Every mutex of the C++ class Mutex is robust (and inherits priorities); *)
(* its RAII users release in the opposite order.                           *)
Disciplined ==
  /\ Robust = Mutexes
  /\ \A q \in Programs : "stacked" \in q.rules \/ "unnested" \in q.rules

LEMMA Inv2Kept ==
  ASSUME Inv1, Inv2, [Next]_vars, Disciplined
  PROVE  Inv2'
<1>0. Rule("stacked") \/ Rule("unnested")
  BY DEF Disciplined, Rule, Inv1, TypeInv
<1>1. ASSUME NEW x \in Mutexes, MutexNew(x), UNCHANGED program
      PROVE  Inv2'
  BY <1>1, Inv2MutexNew
<1>2. ASSUME NEW x \in Mutexes, Acquire(x), UNCHANGED program
      PROVE  Inv2'
  BY <1>2, Inv2Acquire
<1>3. ASSUME NEW x \in Mutexes, AcquireAgain(x), UNCHANGED program
      PROVE  Inv2'
  BY <1>3, Inv2Count
<1>4. ASSUME NEW x \in Mutexes, NEW d \in program.timeouts, AcquireWait(x, d),
             UNCHANGED program
      PROVE  Inv2'
  BY <1>4, Inv2AcquireWait
<1>5. ASSUME NEW x \in Mutexes, Release(x), UNCHANGED program
      PROVE  Inv2'
  BY <1>0, <1>5, Inv2Count, Inv2Release
<1>6. ASSUME NEW x \in Mutexes, Delete(x), UNCHANGED program
      PROVE  Inv2'
  BY <1>6, Inv2DeleteFree, Inv2Delete
<1>7. ASSUME DeleteUnblock, UNCHANGED program
      PROVE  Inv2'
  <2> DEFINE t == Head(k.objq[at])
  <2>1. t = Head(k.objq[at])
    OBVIOUS
  <2> HIDE DEF t
  <2>2. /\ UNCHANGED <<handler, mx, mlist, ending, at, held>>
        /\ k.state[t] = "WaitingMutex" /\ k'.state[t] = "Ready"
        /\ \A u \in Threads \ {t} : k'.state[u] = k.state[u]
    BY <1>7, <2>1, DeleteUnblockStep
  <2>3. Steady
    BY <1>7, <2>2 DEF Steady, Runnable, Inv2
  <2>4. QED
    BY <2>3, Inv2Steady
<1>8. ASSUME DeleteEnd, UNCHANGED program
      PROVE  Inv2'
  <2>1. /\ handler' = "thread" /\ UNCHANGED <<mx, mlist, ending, held>>
        /\ ending = NoThread /\ Others({})
    BY <1>8, DeleteEndStep
  <2>2. Steady
    BY <1>8, <2>1, NoThreadNotThread DEF Steady, Others, Runnable
  <2>3. QED
    BY <2>2, Inv2Steady
<1>9. ASSUME NEW t \in User, Terminate(t), UNCHANGED program
      PROVE  Inv2'
  BY <1>9, Inv2Terminate
<1>10. ASSUME OwnerRelease, UNCHANGED program
       PROVE  Inv2'
  BY <1>0, <1>10, Inv2OwnerRelease DEF Disciplined
<1>11. ASSUME TerminateEnd, UNCHANGED program
       PROVE  Inv2'
  BY <1>11, Inv2TerminateEnd
<1>12. ASSUME NEW t \in User, NEW p \in Prios, UNCHANGED program,
              ThreadNew(t, p)
       PROVE  Inv2'
  BY <1>12, Inv2ThreadNew
<1>13. ASSUME NEW t \in User, NEW p \in Prios, UNCHANGED program,
              SetPriority(t, p)
       PROVE  Inv2'
  <2>1. UNCHANGED <<handler, mx, mlist, ending, at, held>> /\ Others({})
    BY <1>13, SetPriorityStep
  <2>2. Steady
    BY <1>13, <2>1 DEF Steady, Others, Runnable, Inv2
  <2>3. QED
    BY <2>2, Inv2Steady
<1>14. ASSUME Tick, UNCHANGED <<mx, mlist, loop, held, asked, program>>
       PROVE  Inv2'
  <2>1. UNCHANGED <<mx, mlist, ending, at>> /\ Wakening
        /\ handler' \in {"thread", "tick"}
    BY <1>14, TickStep
  <2>2. Steady
    BY <1>14, <2>1 DEF Steady, Wakening
  <2>3. QED
    BY <2>2, Inv2Steady
<1>15. ASSUME UNCHANGED vars
       PROVE  Inv2'
  <2>1. Steady
    BY <1>15 DEF Steady, vars, loop, Inv2
  <2>2. QED
    BY <2>1, Inv2Steady
<1>16. QED
  BY <1>1, <1>2, <1>3, <1>4, <1>5, <1>6, <1>7, <1>8, <1>9, <1>10, <1>11,
     <1>12, <1>13, <1>14, <1>15 DEF Next, ServiceCall

LEMMA Inv2Holds ==
  ASSUME Disciplined
  PROVE  Spec => [](Inv1 /\ Inv2)
<1>1. Init => Inv1 /\ Inv2
  BY Inv1Starts, Inv2Starts
<1>2. Inv1 /\ Inv2 /\ [Next]_vars => (Inv1 /\ Inv2)'
  BY Inv1Kept, Inv2Kept
<1>3. QED
  BY <1>1, <1>2, PTL DEF Spec

(* The list of a thread, which the code does not keep consistent in every  *)
(* program, leads to exactly the mutexes the thread owns, if its mutexes   *)
(* are robust and no program both waits with mutexes in hand and releases  *)
(* them out of order: after handovers, timeouts, deletions and in the      *)
(* midst of the end of a thread.                                           *)
THEOREM OwnedListExactHolds ==
  ASSUME Disciplined
  PROVE  Spec => []OwnedListExact
<1>1. Inv1 /\ Inv2 => OwnedListExact
  <2> SUFFICES ASSUME Inv1, Inv2, NEW t \in Threads
               PROVE  LET owned == {x \in Mutexes : Owns(t, x)}
                          first == IF t = ending THEN at ELSE mlist[t]
                      IN  IF k.state[t] = "Inactive" THEN owned \cap Robust = {}
                          ELSE /\ ~Cyclic(State, first)
                               /\ Visited(State, first) = owned
    BY DEF OwnedListExact
  <2> DEFINE S == OwnedBy(mx, t)
             first == IF t = ending THEN at ELSE mlist[t]
             s == State
  <2>1. {x \in Mutexes : Owns(t, x)} = S
    BY DEF Owns, OwnedBy
  <2>2. k.state[t] = "Inactive" => S = {}
    <3>1. k.state[t] = "Inactive" => t # ending
      BY NoThreadNotThread DEF Inv1, KInv
    <3>2. QED
      BY <3>1 DEF Inv2, Chains, Chained
  <2>3. ASSUME k.state[t] # "Inactive"
        PROVE  ~Cyclic(State, first) /\ Visited(State, first) = S
    <3>1. Path(mx, first, S)
      <4>1. CASE t = ending
        BY <4>1 DEF Inv2, Chains
      <4>2. CASE t # ending
        <5>1. Chain(mx, mlist[t], S, Rule("stacked"))
          BY <2>3, <4>2 DEF Inv2, Chains, Chained
        <5>2. QED
          BY <4>2, <5>1, ChainPath
      <4>3. QED
        BY <4>1, <4>2
    <3>2. StateOK(s) /\ s.mx = mx
      BY StateFields DEF Inv1, TypeInv
    <3> HIDE DEF s, S, first
    <3>3. ~Cyclic(s, first) /\ Visited(s, first) = S
      BY <3>1, <3>2, PathVisited
    <3>4. QED
      BY <3>3 DEF s
  <2>4. QED
    BY <2>1, <2>2, <2>3
<1>2. QED
  BY <1>1, Inv2Holds, PTL

(* A mutex is locked as often as its owner has been told that it got it,   *)
(* and nobody else holds it, under the same conditions.                    *)
THEOREM HeldIsOwnedHolds ==
  ASSUME Disciplined
  PROVE  Spec => []HeldIsOwned
<1>1. Inv2 => HeldIsOwned
  BY DEF Inv2, HeldInv, HeldFor, HeldIsOwned, OwnedBy, Owns
<1>2. QED
  BY <1>1, Inv2Holds, PTL

-----------------------------------------------------------------------------
(* Priorities, when every mutex inherits them.                             *)

AskedInv ==
  /\ asked \in [Threads -> Int]
  /\ Rule("settled") =>
       \A t \in Threads : k.state[t] # "Inactive" => asked[t] = k.base[t]

PrioInv ==
  \A t \in Threads :
    t # ending /\ k.state[t] # "Inactive" /\ OwnedBy(mx, t) = {} =>
      k.prio[t] = k.base[t]

OwnersHigh ==
  Rule("unnested") /\ Rule("settled") =>
    \A x \in Mutexes : \A u \in ToSet(k.objq[x]) :
      mx[x].active => k.prio[u] <= k.prio[mx[x].owner]

Inv3 == AskedInv /\ PrioInv /\ OwnersHigh

(* A step that changes no priority *)
Calm ==
  /\ UNCHANGED <<program, asked>> /\ SamePrios
  /\ \A t \in Threads : k'.state[t] # "Inactive" =>
       /\ k.state[t] # "Inactive"
       /\ t # ending' =>
            t # ending /\ (OwnedBy(mx', t) = {} => OwnedBy(mx, t) = {})
  /\ \A x \in Mutexes : ToSet(k'.objq[x]) \subseteq ToSet(k.objq[x])
  /\ \A x \in Mutexes : \A u \in ToSet(k'.objq[x]) :
       mx'[x].active => \/ mx[x].active /\ mx'[x].owner = mx[x].owner
                        \/ k.prio[u] <= k.prio[mx'[x].owner]

LEMMA Inv3Calm ==
  ASSUME Inv3, Calm
  PROVE  Inv3'
<1>1. AskedInv'
  BY DEF Inv3, AskedInv, Calm, SamePrios, Rule
<1>2. PrioInv'
  BY DEF Inv3, PrioInv, Calm, SamePrios
<1>3. OwnersHigh'
  <2> SUFFICES ASSUME Rule("unnested"), Rule("settled"),
                      NEW x \in Mutexes, NEW u \in ToSet(k'.objq[x]),
                      mx'[x].active
               PROVE  k'.prio[u] <= k'.prio[mx'[x].owner]
    BY DEF OwnersHigh, Calm, Rule
  <2>1. u \in ToSet(k.objq[x]) /\ k'.prio = k.prio
    BY DEF Calm, SamePrios
  <2>2. CASE mx[x].active /\ mx'[x].owner = mx[x].owner
    BY <2>1, <2>2 DEF Inv3, OwnersHigh
  <2>3. CASE k.prio[u] <= k.prio[mx'[x].owner]
    BY <2>1, <2>3
  <2>4. QED
    BY <2>2, <2>3 DEF Calm
<1>4. QED
  BY <1>1, <1>2, <1>3 DEF Inv3

(* The first that waits has the highest priority. *)
LEMMA HeadHighest ==
  ASSUME NEW q, NEW F, KernelOK(q, F), NEW x \in Mutexes,
         NEW u \in ToSet(q.objq[x])
  PROVE  q.objq[x] # <<>> /\ q.prio[u] <= q.prio[Head(q.objq[x])]
<1>1. IsList(q.objq[x]) /\ Sorted(q.prio, q.objq[x])
  BY DEF KernelOK, Queued
<1>2. q.prio \in [Threads -> Int]
  BY PlacedFields DEF KernelOK
<1>3. q.objq[x] # <<>>
  BY DEF ToSet
<1>4. QED
  BY <1>1, <1>2, <1>3, TailList

(* What an owner is left with: S are its other mutexes. *)
LEMMA LeftPrio ==
  ASSUME NEW F, KernelOK(k, F), NEW s, StateOK(s), s.k = k,
         NEW o \in Threads, NEW S \in SUBSET Mutexes,
         Visited(s, s.mlist[o]) = S, NEW p, p = PriorityLeft(s, o)
  PROVE  /\ p \in PrioRange
         /\ S = {} => p = k.base[o]
         /\ \A y \in S : \A u \in ToSet(k.objq[y]) : k.prio[u] <= p
<1> DEFINE Y == {y \in Visited(s, s.mlist[o]) : s.k.objq[y] # <<>>}
<1>1. Leaves(s, o, p, Y)
  BY DEF Leaves
<1>2. \A y \in S : k.objq[y] # <<>> => y \in Y
  OBVIOUS
<1>3. S = {} => Y = {}
  OBVIOUS
<1> HIDE DEF Y
<1>4. /\ p \in PrioRange /\ Y \subseteq Mutexes
      /\ \A y \in Y : p >= k.prio[Head(k.objq[y])]
      /\ \/ p = k.base[o]
         \/ \E y \in Y : p = k.prio[Head(k.objq[y])]
  BY <1>1, PriorityLeftFacts, SMTT(60)
<1>5. ASSUME NEW y \in S, NEW u \in ToSet(k.objq[y])
      PROVE  k.prio[u] <= p
  <2>1. /\ IsList(k.objq[y]) /\ k.prio \in [Threads -> PrioRange]
        /\ k.objq[y] # <<>> /\ k.prio[u] <= k.prio[Head(k.objq[y])]
    BY HeadHighest DEF KernelOK, Queued, PriosOK
  <2>2. Head(k.objq[y]) \in Threads /\ u \in Threads
    BY <2>1, TailList DEF IsList, ToSet
  <2>3. k.prio[u] \in Int /\ k.prio[Head(k.objq[y])] \in Int /\ p \in Int
    <3>1. /\ k.prio[u] \in PrioRange /\ k.prio[Head(k.objq[y])] \in PrioRange
          /\ p \in PrioRange
      BY <1>4, <2>1, <2>2
    <3>2. QED
      BY <3>1 DEF PrioRange
  <2>4. p >= k.prio[Head(k.objq[y])]
    BY <1>2, <1>4, <2>1
  <2>5. QED
    BY <2>1, <2>3, <2>4
<1>6. QED
  BY <1>3, <1>4, <1>5

(* The owner o of x loses it, and is left with priority p. *)
Lowering(x, o, p) ==
  /\ UNCHANGED <<program, asked>> /\ k'.base = k.base
  /\ \A u \in Threads \ {o} : k'.prio[u] = k.prio[u]
  /\ k'.prio[o] = p
  /\ OwnedBy(mx, o) \ {x} = {} => p = k.base[o]
  /\ \A y \in OwnedBy(mx, o) \ {x} : \A u \in ToSet(k.objq[y]) : k.prio[u] <= p
  /\ x \in OwnedBy(mx, o)
  /\ \A u \in Threads : OwnedBy(mx, u) \ {x} \subseteq OwnedBy(mx', u)
  /\ \A u \in Threads :
       k'.state[u] # "Inactive" => k.state[u] # "Inactive" /\ u # ending
  /\ \A z \in Mutexes : ToSet(k'.objq[z]) \subseteq ToSet(k.objq[z])
  /\ \A z \in Mutexes \ {x} : /\ mx'[z].active = mx[z].active
                              /\ mx'[z].owner = mx[z].owner
  /\ mx'[x].active => \A u \in ToSet(k'.objq[x]) :
       /\ mx'[x].owner \in Threads \ {o}
       /\ k.prio[u] <= k.prio[mx'[x].owner]

LEMMA Inv3Lowering ==
  ASSUME Inv1, Inv2, Inv3, handler = "thread", NEW x \in Mutexes,
         NEW o \in Threads, NEW p, Lowering(x, o, p)
  PROVE  Inv3'
<1>1. AskedInv'
  BY DEF Inv3, AskedInv, Lowering, Rule
<1>2. \A u \in Threads \ {o} : x \notin OwnedBy(mx, u)
  BY DEF Lowering, OwnedBy
<1>3. PrioInv'
  <2> SUFFICES ASSUME NEW u \in Threads, k'.state[u] # "Inactive",
                      OwnedBy(mx', u) = {}
               PROVE  k'.prio[u] = k'.base[u]
    BY DEF PrioInv
  <2>1. /\ k.state[u] # "Inactive" /\ u # ending /\ k'.base = k.base
        /\ OwnedBy(mx, u) \ {x} = {}
    BY DEF Lowering
  <2>2. CASE u = o
    BY <2>1, <2>2 DEF Lowering
  <2>3. CASE u # o
    <3>1. OwnedBy(mx, u) = {}
      BY <1>2, <2>1, <2>3
    <3>2. k'.prio[u] = k.prio[u]
      BY <2>3 DEF Lowering
    <3>3. QED
      BY <2>1, <3>1, <3>2 DEF Inv3, PrioInv
  <2>4. QED
    BY <2>2, <2>3
<1>4. OwnersHigh'
  <2> SUFFICES ASSUME Rule("unnested"), Rule("settled"),
                      NEW z \in Mutexes, NEW u \in ToSet(k'.objq[z]),
                      mx'[z].active
               PROVE  k'.prio[u] <= k'.prio[mx'[z].owner]
    BY DEF OwnersHigh, Lowering, Rule
  <2>1. u \in ToSet(k.objq[z])
    BY DEF Lowering
  <2>2. u \in Threads /\ k.state[u] = "WaitingMutex"
    <3> DEFINE W == ToSet(k.objq[z])
    <3>1. W = ToSet(k.objq[z]) /\ KernelOK(k, Leaving) /\ u \in W
      BY <2>1 DEF Inv1, KInv
    <3> HIDE DEF W
    <3>2. QED
      BY <3>1, WaitersWait
  <2>3. u # o /\ k'.prio[u] = k.prio[u]
    <3>1. OwnedBy(mx, o) # {}
      BY DEF Lowering
    <3>2. u # o
      BY <2>2, <3>1 DEF Inv2, WaitersOwnNone
    <3>3. QED
      BY <2>2, <3>2 DEF Lowering
  <2>4. CASE z = x
    <3>1. /\ mx'[x].owner \in Threads \ {o}
          /\ k.prio[u] <= k.prio[mx'[x].owner]
      BY <2>4 DEF Lowering
    <3>2. k'.prio[mx'[x].owner] = k.prio[mx'[x].owner]
      BY <3>1 DEF Lowering
    <3>3. QED
      BY <2>3, <2>4, <3>1, <3>2
  <2>5. CASE z # x
    <3> DEFINE w == mx[z].owner
    <3>1. mx[z].active /\ mx'[z].owner = w
      BY <2>5 DEF Lowering
    <3>2. mx[z].lock > 0
      <4>1. ToSet(k.objq[z]) # {}
        BY <2>1
      <4>2. QED
        BY <4>1 DEF Inv1, Served
    <3>3. w \in Threads /\ z \in OwnedBy(mx, w)
      BY <3>1, <3>2 DEF Inv1, TypeInv, MutexesOK, OwnedBy
    <3> HIDE DEF w
    <3>4. CASE w = o
      <4>1. k.prio[u] <= p /\ k'.prio[o] = p
        BY <2>1, <2>5, <3>3, <3>4 DEF Lowering
      <4>2. QED
        BY <2>3, <3>1, <3>4, <4>1
    <3>5. CASE w # o
      <4>1. k'.prio[w] = k.prio[w]
        BY <3>3, <3>5 DEF Lowering
      <4>2. k.prio[u] <= k.prio[w]
        BY <2>1, <3>1 DEF Inv3, OwnersHigh, w
      <4>3. QED
        BY <2>3, <3>1, <4>1, <4>2
    <3>6. QED
      BY <3>4, <3>5
  <2>6. QED
    BY <2>4, <2>5
<1>5. QED
  BY <1>1, <1>3, <1>4 DEF Inv3

LEMMA Inv3Release ==
  ASSUME Inv1, Inv2, Inv3, UNCHANGED program, NEW x \in Mutexes, Release(x),
         ~(mx[x].lock > 1), Rule("stacked") \/ Rule("unnested"),
         PrioInherit = Mutexes
  PROVE  Inv3'
<1> DEFINE c == k.curr
           s == Unchain([State EXCEPT !.mx[x].lock = 0], x)
           W == ToSet(k.objq[x])
           t == Head(k.objq[x])
           p == PriorityLeft(s, c)
           F == {}
           S == OwnedBy(mx, c) \ {x}
<1>1. /\ c = k.curr /\ s = Unchain([State EXCEPT !.mx[x].lock = 0], x)
      /\ W = ToSet(k.objq[x]) /\ t = Head(k.objq[x]) /\ p = PriorityLeft(s, c)
  OBVIOUS
<1>2. /\ KernelOK(k, F) /\ handler = "thread" /\ ending = NoThread
      /\ k.state[k.curr] = "Running"
  BY CallStarts DEF Release
<1> HIDE DEF c, s, W, t, p, F, S
<1>3. handler' # "hung" /\ CutFrom(s, x, c)
  BY <1>1, ReleaseGoes
<1>4. /\ UNCHANGED <<handler, ending>> /\ c \in User /\ Owns(c, x)
      /\ Unchained(s, x, mx[x].active, 0)
      /\ k'.base = k.base
      /\ \A u \in Threads \ {c} : k'.prio[u] = k.prio[u]
      /\ k'.prio[c] = IF x \in PrioInherit THEN PriorityLeft(s, c)
                      ELSE k.prio[c]
      /\ W = {} => Others({}) /\ SameWaiters /\ mx' = s.mx /\ mlist' = s.mlist
      /\ W # {} => GoesTo(x, t, W, s.mx, s.mlist)
  BY <1>1, <1>3, ReleaseStep, ZenonT(60)
<1>5. c \in Threads /\ k'.prio[c] = p
  BY <1>1, <1>4 DEF User
<1>6. /\ S = {} => p = k.base[c]
      /\ \A y \in S : \A u \in ToSet(k.objq[y]) : k.prio[u] <= p
  <2>1. Visited(s, s.mlist[c]) = S
    BY <1>3 DEF CutFrom, S
  <2>2. S \in SUBSET Mutexes
    BY DEF S, OwnedBy
  <2>3. StateOK(s) /\ s.k = k
    BY <1>4 DEF Unchained
  <2>4. QED
    BY <1>1, <1>2, <1>5, <2>1, <2>2, <2>3, LeftPrio
<1>7. /\ \A z \in Mutexes : ToSet(k'.objq[z]) \subseteq ToSet(k.objq[z])
      /\ \A u \in Threads : k'.state[u] # "Inactive" => k.state[u] # "Inactive"
  <2>1. CASE W = {}
    BY <1>4, <2>1 DEF SameWaiters, Others, Runnable
  <2>2. CASE W # {}
    <3>1. /\ ToSet(k'.objq[x]) = W \ {t} /\ k.state[t] = "WaitingMutex"
          /\ \A z \in Mutexes \ {x} : ToSet(k'.objq[z]) = ToSet(k.objq[z])
          /\ Others({t})
      BY <1>4, <2>2 DEF GoesTo
    <3>2. QED
      BY <1>1, <3>1 DEF Others, Runnable
  <2>3. QED
    BY <2>1, <2>2
<1>8. \A z \in Mutexes :
        /\ s.mx[z].active = mx[z].active /\ s.mx[z].owner = mx[z].owner
        /\ s.mx[z].lock = (IF z = x THEN 0 ELSE mx[z].lock)
  BY <1>4 DEF Unchained
<1>9. /\ \A z \in Mutexes \ {x} :
           /\ mx'[z].active = mx[z].active /\ mx'[z].owner = mx[z].owner
           /\ mx'[z].lock = mx[z].lock
      /\ \A u \in ToSet(k'.objq[x]) :
           /\ mx'[x].owner \in Threads \ {c}
           /\ k.prio[u] <= k.prio[mx'[x].owner]
  <2>1. CASE W = {}
    <3>1. mx' = s.mx /\ ToSet(k'.objq[x]) = {}
      BY <1>1, <1>4, <2>1 DEF SameWaiters
    <3>2. QED
      BY <1>8, <3>1
  <2>2. CASE W # {}
    <3>1. /\ t \in Threads /\ k.state[t] = "WaitingMutex"
          /\ ToSet(k'.objq[x]) = W \ {t}
          /\ \A u \in W : k.prio[u] <= k.prio[t]
      BY <1>4, <2>2 DEF GoesTo
    <3>2. \A z \in Mutexes :
            /\ mx'[z].active = s.mx[z].active
            /\ mx'[z].lock = IF z = x THEN 1 ELSE s.mx[z].lock
            /\ mx'[z].owner = IF z = x THEN t ELSE s.mx[z].owner
      BY <1>4, <2>2 DEF GoesTo
    <3>3. t # c
      BY <1>1, <1>2, <3>1
    <3>4. QED
      BY <1>8, <3>1, <3>2, <3>3
  <2>3. QED
    BY <2>1, <2>2
<1>10. \A u \in Threads : OwnedBy(mx, u) \ {x} \subseteq OwnedBy(mx', u)
  BY <1>9 DEF OwnedBy
<1>11. UNCHANGED asked
  BY <1>3 DEF Release, ReleaseLast, Hang
<1>12. Lowering(x, c, p)
  <2>1. x \in OwnedBy(mx, c)
    BY <1>3 DEF CutFrom
  <2>2. \A u \in Threads : u # ending
    BY <1>2, NoThreadNotThread
  <2>3. QED
    BY <1>4, <1>5, <1>6, <1>7, <1>9, <1>10, <1>11, <2>1, <2>2 DEF Lowering, S
<1>13. QED
  BY <1>2, <1>5, <1>12, Inv3Lowering

LEMMA Inv3Delete ==
  ASSUME Inv1, Inv2, Inv3, UNCHANGED program, NEW x \in Mutexes, Delete(x),
         mx[x].lock # 0, PrioInherit = Mutexes
  PROVE  Inv3'
<1> DEFINE o == mx[x].owner
           s == Unchain([State EXCEPT !.mx[x].active = FALSE], x)
           p == PriorityLeft(s, o)
           F == {}
           S == OwnedBy(mx, o) \ {x}
<1>1. /\ o = mx[x].owner /\ s = Unchain([State EXCEPT !.mx[x].active = FALSE], x)
      /\ p = PriorityLeft(s, o)
  OBVIOUS
<1>2. KernelOK(k, F) /\ handler = "thread" /\ ending = NoThread
  BY CallStarts DEF Delete
<1> HIDE DEF o, s, p, F, S
<1>3. handler' # "hung" /\ CutFrom(s, x, o)
  BY <1>1, DeleteGoes
<1>4. /\ o \in Threads /\ Unchained(s, x, FALSE, mx[x].lock)
      /\ k'.base = k.base /\ k'.state = k.state /\ SameWaiters
      /\ \A u \in Threads \ {o} : k'.prio[u] = k.prio[u]
      /\ k'.prio[o] = (IF x \in PrioInherit THEN PriorityLeft(s, o)
                       ELSE k.prio[o])
      /\ mx' = s.mx
  BY <1>1, <1>3, DeleteStep
<1>5. k'.prio[o] = p
  BY <1>1, <1>4
<1>6. /\ S = {} => p = k.base[o]
      /\ \A y \in S : \A u \in ToSet(k.objq[y]) : k.prio[u] <= p
  <2>1. Visited(s, s.mlist[o]) = S
    BY <1>3 DEF CutFrom, S
  <2>2. S \in SUBSET Mutexes
    BY DEF S, OwnedBy
  <2>3. StateOK(s) /\ s.k = k
    BY <1>4 DEF Unchained
  <2>4. KernelOK(k, F) /\ o \in Threads /\ p = PriorityLeft(s, o)
    BY <1>1, <1>2, <1>4
  <2>5. QED
    BY <2>1, <2>2, <2>3, <2>4, LeftPrio
<1>7. \A z \in Mutexes :
        /\ mx'[z].active = (IF z = x THEN FALSE ELSE mx[z].active)
        /\ mx'[z].lock = (IF z = x THEN mx[x].lock ELSE mx[z].lock)
        /\ mx'[z].owner = mx[z].owner
  BY <1>4 DEF Unchained
<1>8. \A u \in Threads : OwnedBy(mx, u) \ {x} \subseteq OwnedBy(mx', u)
  BY <1>7 DEF OwnedBy
<1>9. UNCHANGED asked
  BY <1>3 DEF Delete, DeleteLocked, Hang
<1>10. Lowering(x, o, p)
  <2>1. x \in OwnedBy(mx, o)
    BY <1>3 DEF CutFrom
  <2>2. \A u \in Threads : u # ending
    BY <1>2, NoThreadNotThread
  <2>3. QED
    BY <1>4, <1>5, <1>6, <1>7, <1>8, <1>9, <2>1, <2>2
       DEF Lowering, S, SameWaiters
<1>11. QED
  BY <1>2, <1>4, <1>10, Inv3Lowering

(* The owner inherits the priority of the thread that is to wait. *)
LEMMA Inv3AcquireWait ==
  ASSUME Inv1, Inv2, Inv3, UNCHANGED program, NEW x \in Mutexes,
         NEW d \in program.timeouts, AcquireWait(x, d), PrioInherit = Mutexes
  PROVE  Inv3'
<1> DEFINE c == k.curr
           o == mx[x].owner
<1>1. c = k.curr /\ o = mx[x].owner
  OBVIOUS
<1>2. /\ k.prio \in [Threads -> Int] /\ ending = NoThread
      /\ k.state[k.curr] = "Running" /\ handler = "thread"
      /\ KernelOK(k, {})
  <2>1. /\ KernelOK(k, {}) /\ ending = NoThread
        /\ k.state[k.curr] = "Running" /\ handler = "thread"
    BY CallStarts DEF AcquireWait
  <2>2. QED
    BY <2>1, PlacedFields DEF KernelOK
<1> HIDE DEF c, o
<1>3. /\ UNCHANGED <<handler, mx, mlist, ending, at>>
      /\ c \in User /\ o \in Threads /\ mx[x].active /\ mx[x].lock > 0
      /\ k'.base = k.base
      /\ k'.prio = IF x \in PrioInherit /\ k.prio[o] < k.prio[c]
                     THEN [k.prio EXCEPT ![o] = k.prio[c]] ELSE k.prio
      /\ Others({c}) /\ k'.state[c] = "WaitingMutex"
      /\ \A y \in Mutexes : ToSet(k'.objq[y]) =
           IF y = x THEN ToSet(k.objq[y]) \cup {c} ELSE ToSet(k.objq[y])
  BY <1>1, AcquireWaitStep, SMTT(60)
<1>4. c \in Threads /\ UNCHANGED asked /\ (Rule("unnested") => OwnsNone(c))
  BY <1>1, <1>3 DEF User, AcquireWait
<1>5. /\ \A u \in Threads \ {o} : k'.prio[u] = k.prio[u]
      /\ k'.prio[o] >= k.prio[o] /\ k'.prio[o] >= k.prio[c]
      /\ k'.prio \in [Threads -> Int]
  <2>1. CASE k.prio[o] < k.prio[c]
    <3>1. k'.prio = [k.prio EXCEPT ![o] = k.prio[c]]
      BY <1>3, <2>1
    <3>2. QED
      BY <1>2, <1>3, <1>4, <2>1, <3>1
  <2>2. CASE ~(k.prio[o] < k.prio[c])
    <3>1. k'.prio = k.prio /\ k.prio[o] \in Int /\ k.prio[c] \in Int
      BY <1>2, <1>3, <1>4, <2>2
    <3>2. QED
      BY <1>2, <2>2, <3>1
  <2>3. QED
    BY <2>1, <2>2
<1>6. x \in OwnedBy(mx, o)
  BY <1>1, <1>3 DEF OwnedBy
<1>7. \A u \in Threads : k'.state[u] # "Inactive" => k.state[u] # "Inactive"
  BY <1>1, <1>2, <1>3 DEF Others, Runnable
<1>8. AskedInv'
  BY <1>3, <1>4, <1>7 DEF Inv3, AskedInv, Rule
<1>9. PrioInv'
  <2> SUFFICES ASSUME NEW u \in Threads, k'.state[u] # "Inactive",
                      u # ending', OwnedBy(mx, u) = {}
               PROVE  k'.prio[u] = k'.base[u]
    BY <1>3 DEF PrioInv
  <2>1. u # o /\ k.prio[u] = k.base[u]
    BY <1>3, <1>6, <1>7 DEF Inv3, PrioInv
  <2>2. QED
    BY <1>3, <1>5, <2>1
<1>10. OwnersHigh'
  <2> SUFFICES ASSUME Rule("unnested"), Rule("settled"),
                      NEW z \in Mutexes, NEW u \in ToSet(k'.objq[z]),
                      mx[z].active
               PROVE  k'.prio[u] <= k'.prio[mx[z].owner]
    BY <1>3 DEF OwnersHigh, Rule
  <2>1. c # o
    BY <1>4, <1>6 DEF OwnsNone, Owns, OwnedBy
  <2>2. CASE u \in ToSet(k.objq[z])
    <3>1. u \in Threads /\ k.state[u] = "WaitingMutex"
      <4> DEFINE W == ToSet(k.objq[z])
                 F == {}
      <4>1. W = ToSet(k.objq[z]) /\ KernelOK(k, F) /\ u \in W
        BY <1>2, <2>2
      <4> HIDE DEF W, F
      <4>2. QED
        BY <4>1, WaitersWait
    <3>2. u # o
      BY <1>6, <3>1 DEF Inv2, WaitersOwnNone
    <3>3. k'.prio[u] = k.prio[u] /\ k.prio[u] <= k.prio[mx[z].owner]
      BY <1>5, <2>2, <3>1, <3>2 DEF Inv3, OwnersHigh
    <3>4. mx[z].owner \in Threads
      <4>1. ToSet(k.objq[z]) # {}
        BY <2>2
      <4>2. QED
        BY <1>2, <4>1 DEF Inv1, Served, TypeInv, MutexesOK
    <3>5. CASE mx[z].owner = o
      BY <1>2, <1>3, <1>5, <3>1, <3>3, <3>5
    <3>6. CASE mx[z].owner # o
      BY <1>5, <3>3, <3>4, <3>6
    <3>7. QED
      BY <3>5, <3>6
  <2>3. CASE u \notin ToSet(k.objq[z])
    <3>1. z = x /\ u = c
      BY <1>3, <2>3
    <3>2. QED
      BY <1>1, <1>4, <1>5, <2>1, <3>1, <1>2, <1>3
  <2>4. QED
    BY <2>2, <2>3
<1>11. QED
  BY <1>8, <1>9, <1>10 DEF Inv3

LEMMA Inv3ThreadNew ==
  ASSUME Inv1, Inv2, Inv3, UNCHANGED program, NEW t \in User, NEW p \in Prios,
         ThreadNew(t, p)
  PROVE  Inv3'
<1>1. /\ UNCHANGED <<handler, mx, ending, at>> /\ ending = NoThread
      /\ k.state[t] = "Inactive"
      /\ Others({t}) /\ SameWaiters
      /\ \A u \in Threads :
           /\ k'.prio[u] = (IF u = t THEN p ELSE k.prio[u])
           /\ k'.base[u] = (IF u = t THEN p ELSE k.base[u])
  BY ThreadNewStep
<1>2. /\ t \in Threads /\ p \in Int /\ handler = "thread"
      /\ asked' = [asked EXCEPT ![t] = p] /\ KernelOK(k, {})
  <2>1. t \in Threads /\ p \in Int
    BY PriosInRange DEF User
  <2>2. QED
    BY <2>1, CallStarts DEF ThreadNew, Calling
<1>3. \A u \in Threads \ {t} : k'.state[u] # "Inactive" => k.state[u] # "Inactive"
  BY <1>1 DEF Others, Runnable
<1>4. AskedInv'
  BY <1>1, <1>2, <1>3 DEF Inv3, AskedInv, Rule
<1>5. PrioInv'
  BY <1>1, <1>3 DEF Inv3, PrioInv
<1>6. OwnersHigh'
  <2> SUFFICES ASSUME Rule("unnested"), Rule("settled"),
                      NEW z \in Mutexes, NEW u \in ToSet(k.objq[z]),
                      mx[z].active
               PROVE  k'.prio[u] <= k'.prio[mx[z].owner]
    BY <1>1 DEF OwnersHigh, Rule, SameWaiters
  <2> DEFINE w == mx[z].owner
  <2>1. u \in Threads /\ u # t
    <3> DEFINE W == ToSet(k.objq[z])
               F == {}
    <3>1. W = ToSet(k.objq[z]) /\ KernelOK(k, F) /\ u \in W
      BY <1>2
    <3> HIDE DEF W, F
    <3>2. u \in Threads /\ k.state[u] = "WaitingMutex"
      BY <3>1, WaitersWait
    <3>3. QED
      BY <1>1, <3>2
  <2>2. mx[z].lock > 0
    <3>1. ToSet(k.objq[z]) # {}
      OBVIOUS
    <3>2. QED
      BY <1>2, <3>1 DEF Inv1, Served
  <2>3. w \in Threads /\ w # t
    <3>1. w \in Threads /\ z \in OwnedBy(mx, w)
      BY <2>2 DEF Inv1, TypeInv, MutexesOK, OwnedBy
    <3>2. OwnedBy(mx, t) = {}
      BY <1>1, <1>2, NoThreadNotThread DEF Inv2, Chains, Chained
    <3>3. QED
      BY <3>1, <3>2
  <2>4. k.prio[u] <= k.prio[w]
    BY DEF Inv3, OwnersHigh
  <2> HIDE DEF w
  <2>5. k'.prio[u] = k.prio[u] /\ k'.prio[w] = k.prio[w]
    BY <1>1, <2>1, <2>3
  <2>6. QED
    BY <2>4, <2>5 DEF w
<1>7. QED
  BY <1>4, <1>5, <1>6 DEF Inv3

LEMMA Inv3SetPriority ==
  ASSUME Inv1, Inv2, Inv3, UNCHANGED program, NEW t \in User, NEW p \in Prios,
         SetPriority(t, p)
  PROVE  Inv3'
<1>1. /\ UNCHANGED <<handler, mx, mlist, ending, at, held>>
      /\ Others({}) /\ SameWaiters
      /\ \/ k' = k /\ k.prio[t] = p
         \/ \A u \in Threads :
              /\ k'.prio[u] = (IF u = t THEN p ELSE k.prio[u])
              /\ k'.base[u] = (IF u = t THEN p ELSE k.base[u])
  BY SetPriorityStep
<1>2. /\ t \in Threads /\ p \in Int /\ handler = "thread" /\ ending = NoThread
      /\ asked' = [asked EXCEPT ![t] = p] /\ KernelOK(k, {})
      /\ k.state[t] # "Inactive"
      /\ Rule("settled") =>
           OwnsNone(t) /\ \A x \in Mutexes : t \notin ToSet(k.objq[x])
  <2>1. t \in Threads /\ p \in Int
    BY PriosInRange DEF User
  <2>2. QED
    BY <2>1, CallStarts DEF SetPriority, Calling
<1>3. \A u \in Threads : k'.state[u] # "Inactive" => k.state[u] # "Inactive"
  BY <1>1 DEF Others, Runnable
<1>4. Rule("settled") => OwnedBy(mx, t) = {}
  BY <1>2 DEF OwnsNone, Owns, OwnedBy
<1>5. AskedInv'
  <2>1. asked' \in [Threads -> Int]
    BY <1>2 DEF Inv3, AskedInv
  <2>2. ASSUME Rule("settled"), NEW u \in Threads, k'.state[u] # "Inactive"
        PROVE  asked'[u] = k'.base[u]
    <3>1. asked'[u] = IF u = t THEN p ELSE asked[u]
      BY <1>2 DEF Inv3, AskedInv
    <3>2. k.state[u] # "Inactive" /\ asked[u] = k.base[u]
      BY <1>3, <2>2 DEF Inv3, AskedInv
    <3>3. k'.base[u] = IF u = t THEN p ELSE k.base[u]
      <4>1. CASE k' = k /\ k.prio[t] = p
        <5>1. k.prio[t] = k.base[t]
          BY <1>2, <1>4, <2>2, NoThreadNotThread DEF Inv3, PrioInv
        <5>2. QED
          BY <4>1, <5>1
      <4>2. CASE \A v \in Threads : k'.base[v] = (IF v = t THEN p ELSE k.base[v])
        BY <4>2
      <4>3. QED
        BY <1>1, <4>1, <4>2
    <3>4. QED
      BY <3>1, <3>2, <3>3
  <2>3. QED
    BY <2>1, <2>2 DEF AskedInv, Rule
<1>6. PrioInv'
  <2> SUFFICES ASSUME NEW u \in Threads, k'.state[u] # "Inactive",
                      OwnedBy(mx, u) = {}
               PROVE  k'.prio[u] = k'.base[u]
    BY <1>1 DEF PrioInv
  <2>1. k.prio[u] = k.base[u]
    BY <1>2, <1>3, NoThreadNotThread DEF Inv3, PrioInv
  <2>2. QED
    BY <1>1, <2>1
<1>7. OwnersHigh'
  <2> SUFFICES ASSUME Rule("unnested"), Rule("settled"),
                      NEW z \in Mutexes, NEW u \in ToSet(k.objq[z]),
                      mx[z].active
               PROVE  k'.prio[u] <= k'.prio[mx[z].owner]
    BY <1>1 DEF OwnersHigh, Rule, SameWaiters
  <2> DEFINE w == mx[z].owner
  <2>1. u \in Threads /\ u # t
    <3> DEFINE W == ToSet(k.objq[z])
               F == {}
    <3>1. W = ToSet(k.objq[z]) /\ KernelOK(k, F) /\ u \in W
      BY <1>2
    <3> HIDE DEF W, F
    <3>2. u \in Threads
      BY <3>1, WaitersWait
    <3>3. QED
      BY <1>2, <3>2
  <2>2. mx[z].lock > 0
    <3>1. ToSet(k.objq[z]) # {}
      OBVIOUS
    <3>2. QED
      BY <1>2, <3>1 DEF Inv1, Served
  <2>3. w \in Threads /\ w # t
    <3>1. w \in Threads /\ z \in OwnedBy(mx, w)
      BY <2>2 DEF Inv1, TypeInv, MutexesOK, OwnedBy
    <3>2. QED
      BY <1>4, <3>1
  <2>4. k.prio[u] <= k.prio[w]
    BY DEF Inv3, OwnersHigh
  <2> HIDE DEF w
  <2>5. k'.prio[u] = k.prio[u] /\ k'.prio[w] = k.prio[w]
    BY <1>1, <2>1, <2>3
  <2>6. QED
    BY <2>4, <2>5 DEF w
<1>8. QED
  BY <1>5, <1>6, <1>7 DEF Inv3

LEMMA Inv3OwnerRelease ==
  ASSUME Inv1, Inv2, Inv3, UNCHANGED program, OwnerRelease
  PROVE  Inv3'
<1> DEFINE e == ending
           x == at
           W == ToSet(k.objq[x])
           t == Head(k.objq[x])
           m == [mx EXCEPT ![x].lock = 0]
<1>1. /\ e = ending /\ x = at /\ W = ToSet(k.objq[x])
      /\ Releases(e, x, W, t, m)
  BY DEF Releases
<1> HIDE DEF e, x, W, t, m
<1>2. /\ UNCHANGED <<handler, ending>> /\ handler = "release"
      /\ e \in User /\ x \in Mutexes /\ k.state[e] # "Inactive"
      /\ MutexSet(mx, m, x, mx[x].active, 0, mx[x].owner, mx[x].prev,
                  mx[x].next)
      /\ k'.prio = k.prio /\ k'.base = k.base
      /\ x \notin Robust => UNCHANGED <<k, mx, mlist, held>>
      /\ x \in Robust /\ W = {} => mx' = m /\ UNCHANGED <<k, mlist>>
      /\ x \in Robust /\ W # {} => GoesTo(x, t, W, m, mlist) /\ t # e
  BY <1>1, OwnerReleaseStep
<1>3. UNCHANGED asked /\ SamePrios /\ e \in Threads
  BY <1>2 DEF OwnerRelease, SamePrios, User
<1>4. \A z \in Mutexes :
        /\ m[z].active = mx[z].active
        /\ m[z].lock = (IF z = x THEN 0 ELSE mx[z].lock)
        /\ m[z].owner = mx[z].owner
  BY <1>2 DEF MutexSet
<1>5. x \in OwnedBy(mx, e)
  <2>1. Path(mx, x, OwnedBy(mx, e))
    BY <1>1, <1>3 DEF Inv2, Chains
  <2>2. QED
    BY <1>2, <2>1, PathHead, NoMutexNotMutex
<1>6. CASE x \notin Robust
  <2>1. Calm
    BY <1>2, <1>3, <1>6 DEF Calm
  <2>2. QED
    BY <2>1, Inv3Calm
<1>7. CASE x \in Robust /\ W = {}
  <2>1. k' = k /\ mx' = m
    BY <1>2, <1>7
  <2>2. \A u \in Threads \ {e} : OwnedBy(mx', u) = {} => OwnedBy(mx, u) = {}
    BY <1>4, <1>5, <2>1 DEF OwnedBy
  <2>3. Calm
    BY <1>1, <1>2, <1>3, <1>4, <2>1, <2>2 DEF Calm
  <2>4. QED
    BY <2>3, Inv3Calm
<1>8. CASE x \in Robust /\ W # {}
  <2>1. /\ t \in Threads /\ k.state[t] = "WaitingMutex"
        /\ \A u \in W : k.prio[u] <= k.prio[t]
        /\ Others({t}) /\ ToSet(k'.objq[x]) = W \ {t}
        /\ \A z \in Mutexes \ {x} : ToSet(k'.objq[z]) = ToSet(k.objq[z])
    BY <1>2, <1>8 DEF GoesTo
  <2>2. \A z \in Mutexes :
          /\ mx'[z].active = m[z].active
          /\ mx'[z].lock = IF z = x THEN 1 ELSE m[z].lock
          /\ mx'[z].owner = IF z = x THEN t ELSE m[z].owner
    BY <1>2, <1>8 DEF GoesTo
  <2>3. \A u \in Threads \ {e} : OwnedBy(mx', u) = {} => OwnedBy(mx, u) = {}
    <3>1. \A u \in Threads \ {e} : \A z \in OwnedBy(mx, u) : z # x
      BY <1>5 DEF OwnedBy
    <3>2. \A u \in Threads \ {e} : OwnedBy(mx, u) \subseteq OwnedBy(mx', u)
      BY <1>4, <2>2, <3>1 DEF OwnedBy
    <3>3. QED
      BY <3>2
  <2>4. \A u \in Threads : k'.state[u] # "Inactive" => k.state[u] # "Inactive"
    BY <2>1 DEF Others, Runnable
  <2>5. \A z \in Mutexes : ToSet(k'.objq[z]) \subseteq ToSet(k.objq[z])
    BY <1>1, <2>1
  <2>6. \A z \in Mutexes : \A u \in ToSet(k'.objq[z]) :
          mx'[z].active => \/ mx[z].active /\ mx'[z].owner = mx[z].owner
                           \/ k.prio[u] <= k.prio[mx'[z].owner]
    <3>1. \A z \in Mutexes \ {x} :
            mx'[z].active = mx[z].active /\ mx'[z].owner = mx[z].owner
      BY <1>4, <2>2
    <3>2. mx'[x].owner = t
      BY <1>2, <2>2
    <3>3. QED
      BY <2>1, <3>1, <3>2
  <2>7. Calm
    BY <1>1, <1>2, <1>3, <2>3, <2>4, <2>5, <2>6 DEF Calm
  <2>8. QED
    BY <2>7, Inv3Calm
<1>9. QED
  BY <1>6, <1>7, <1>8

(* A call that leaves the kernel alone *)
LEMMA Inv3Still ==
  ASSUME Inv3, UNCHANGED <<k, program, asked, ending>>,
         \A t \in Threads : OwnedBy(mx, t) \subseteq OwnedBy(mx', t),
         \A z \in Mutexes : ToSet(k.objq[z]) # {} /\ mx'[z].active =>
           mx[z].active /\ mx'[z].owner = mx[z].owner
  PROVE  Inv3'
<1>1. Calm
  BY DEF Calm, SamePrios
<1>2. QED
  BY <1>1, Inv3Calm

(* ... or the mutexes and the priorities *)
LEMMA Inv3Same ==
  ASSUME Inv3, UNCHANGED <<program, asked, mx>>, SamePrios,
         \A t \in Threads : k'.state[t] # "Inactive" =>
           k.state[t] # "Inactive" /\ (t # ending' => t # ending),
         \A x \in Mutexes : ToSet(k'.objq[x]) \subseteq ToSet(k.objq[x])
  PROVE  Inv3'
<1>1. Calm
  BY DEF Calm
<1>2. QED
  BY <1>1, Inv3Calm

LEMMA Inv3Free ==
  ASSUME Inv1, Inv3, UNCHANGED program, NEW x \in Mutexes,
         MutexNew(x) \/ Acquire(x) \/ (Delete(x) /\ mx[x].lock = 0)
  PROVE  Inv3'
<1>1. /\ Calling /\ UNCHANGED asked /\ ~(mx[x].active /\ mx[x].lock > 0)
  BY DEF MutexNew, Acquire, Delete
<1>2. ToSet(k.objq[x]) = {}
  BY <1>1, CallStarts
<1>3. \A t \in Threads : x \notin OwnedBy(mx, t)
  BY <1>1 DEF OwnedBy
<1>4. /\ k' = k /\ ending' = ending
      /\ \A z \in Mutexes \ {x} :
           /\ mx'[z].active = mx[z].active /\ mx'[z].lock = mx[z].lock
           /\ mx'[z].owner = mx[z].owner
  <2>1. CASE MutexNew(x)
    BY <2>1, MutexNewStep DEF MutexNew, loop
  <2>2. CASE Acquire(x)
    <3> DEFINE t == k.curr
               h == mlist[t]
    <3>1. t = k.curr /\ h = mlist[t]
      OBVIOUS
    <3> HIDE DEF t, h
    <3>2. /\ k' = k /\ UNCHANGED <<ending, at, handler>>
          /\ \A z \in Mutexes :
               /\ mx'[z].active = mx[z].active
               /\ mx'[z].lock = IF z = x THEN 1 ELSE mx[z].lock
               /\ mx'[z].owner = IF z = x THEN t ELSE mx[z].owner
      BY <2>2, <3>1, AcquireStep
    <3>3. QED
      BY <3>2
  <2>3. CASE Delete(x) /\ mx[x].lock = 0
    BY <2>3, DeleteFreeStep
  <2>4. QED
    BY <2>1, <2>2, <2>3
<1>5. \A t \in Threads : OwnedBy(mx, t) \subseteq OwnedBy(mx', t)
  BY <1>3, <1>4 DEF OwnedBy
<1>6. QED
  BY <1>1, <1>2, <1>4, <1>5, Inv3Still

LEMMA Inv3Count ==
  ASSUME Inv1, Inv3, UNCHANGED program, NEW x \in Mutexes,
         AcquireAgain(x) \/ (Release(x) /\ mx[x].lock > 1)
  PROVE  Inv3'
<1> DEFINE c == k.curr
<1>1. /\ k' = k /\ UNCHANGED <<handler, mlist, ending, at>>
      /\ mx'[x].lock \in Nat \ {0}
      /\ \A z \in Mutexes :
           /\ mx'[z].active = mx[z].active
           /\ z # x => mx'[z].lock = mx[z].lock
           /\ mx'[z].owner = mx[z].owner
  BY CountStep
<1>2. UNCHANGED asked
  BY DEF AcquireAgain, Release
<1>3. \A t \in Threads : OwnedBy(mx, t) \subseteq OwnedBy(mx', t)
  BY <1>1 DEF OwnedBy
<1>4. QED
  BY <1>1, <1>2, <1>3, Inv3Still

LEMMA Inv3Starts ==
  ASSUME Init
  PROVE  Inv3
<1>1. /\ k.base = k.prio /\ \A t \in Threads : k.state[t] # "WaitingMutex"
      /\ Inv1 /\ asked = k.base /\ ending = NoThread /\ handler = "thread"
  BY Inv1Starts DEF Init, KernelInit
<1>2. KernelOK(k, {})
  <2>1. Leaving = {}
    BY <1>1, NoThreadNotThread DEF Leaving
  <2>2. QED
    BY <1>1, <2>1 DEF Inv1, KInv
<1>3. asked \in [Threads -> Int]
  BY <1>1, <1>2, PlacedFields DEF KernelOK
<1>4. \A x \in Mutexes : \A u \in ToSet(k.objq[x]) : FALSE
  <2> SUFFICES ASSUME NEW x \in Mutexes, NEW u \in ToSet(k.objq[x])
               PROVE  FALSE
    OBVIOUS
  <2> DEFINE W == ToSet(k.objq[x])
             F == {}
  <2>1. W = ToSet(k.objq[x]) /\ KernelOK(k, F) /\ u \in W
    BY <1>2
  <2> HIDE DEF W, F
  <2>2. u \in Threads /\ k.state[u] = "WaitingMutex"
    BY <2>1, WaitersWait
  <2>3. QED
    BY <1>1, <2>2
<1>5. QED
  BY <1>1, <1>3, <1>4 DEF Inv3, AskedInv, PrioInv, OwnersHigh

LEMMA Inv3Kept ==
  ASSUME Inv1, Inv2, Inv3, [Next]_vars, Disciplined, PrioInherit = Mutexes
  PROVE  Inv3'
<1>0. Rule("stacked") \/ Rule("unnested")
  BY DEF Disciplined, Rule, Inv1, TypeInv
<1>1. ASSUME NEW x \in Mutexes, UNCHANGED program,
             MutexNew(x) \/ Acquire(x) \/ (Delete(x) /\ mx[x].lock = 0)
      PROVE  Inv3'
  BY <1>1, Inv3Free
<1>2. ASSUME NEW x \in Mutexes, UNCHANGED program,
             AcquireAgain(x) \/ (Release(x) /\ mx[x].lock > 1)
      PROVE  Inv3'
  BY <1>2, Inv3Count
<1>3. ASSUME NEW x \in Mutexes, NEW d \in program.timeouts, AcquireWait(x, d),
             UNCHANGED program
      PROVE  Inv3'
  BY <1>3, Inv3AcquireWait
<1>4. ASSUME NEW x \in Mutexes, Release(x), ~(mx[x].lock > 1), UNCHANGED program
      PROVE  Inv3'
  BY <1>0, <1>4, Inv3Release
<1>5. ASSUME NEW x \in Mutexes, Delete(x), mx[x].lock # 0, UNCHANGED program
      PROVE  Inv3'
  BY <1>5, Inv3Delete
<1>6. ASSUME DeleteUnblock, UNCHANGED program
      PROVE  Inv3'
  <2> DEFINE t == Head(k.objq[at])
  <2>1. t = Head(k.objq[at])
    OBVIOUS
  <2> HIDE DEF t
  <2>2. /\ UNCHANGED <<handler, mx, mlist, ending, at, held>> /\ SamePrios
        /\ k.state[t] = "WaitingMutex"
        /\ \A u \in Threads \ {t} : k'.state[u] = k.state[u]
        /\ \A z \in Mutexes : ToSet(k'.objq[z]) = ToSet(k.objq[z]) \ {t}
    BY <1>6, <2>1, DeleteUnblockStep
  <2>3. UNCHANGED asked
    BY <1>6 DEF DeleteUnblock
  <2>4. QED
    BY <1>6, <2>2, <2>3, Inv3Same
<1>7. ASSUME DeleteEnd, UNCHANGED program
      PROVE  Inv3'
  <2>1. /\ UNCHANGED <<mx, mlist, ending, held>> /\ SamePrios /\ Others({})
        /\ SameWaiters
    BY <1>7, DeleteEndStep
  <2>2. UNCHANGED asked
    BY <1>7 DEF DeleteEnd
  <2>3. QED
    BY <1>7, <2>1, <2>2, Inv3Same DEF Others, Runnable, SameWaiters
<1>8. ASSUME NEW t \in User, Terminate(t), UNCHANGED program
      PROVE  Inv3'
  <2>1. /\ UNCHANGED <<mx, mlist, held>> /\ SamePrios /\ k'.state = k.state
        /\ ending = NoThread
        /\ \A z \in Mutexes : ToSet(k'.objq[z]) \subseteq ToSet(k.objq[z])
    BY <1>8, TerminateStep
  <2>2. UNCHANGED asked
    BY <1>8 DEF Terminate
  <2>3. QED
    BY <1>8, <2>1, <2>2, NoThreadNotThread, Inv3Same
<1>9. ASSUME OwnerRelease, UNCHANGED program
      PROVE  Inv3'
  BY <1>9, Inv3OwnerRelease
<1>10. ASSUME TerminateEnd, UNCHANGED program
       PROVE  Inv3'
  <2> DEFINE e == ending
  <2>1. e = ending
    OBVIOUS
  <2> HIDE DEF e
  <2>2. /\ UNCHANGED <<mx, mlist, at, held>> /\ SamePrios /\ Others({e})
        /\ SameWaiters /\ k'.state[e] = "Inactive"
    BY <1>10, <2>1, TerminateEndStep
  <2>3. UNCHANGED asked
    BY <1>10 DEF TerminateEnd
  <2>4. \A u \in Threads :
          k'.state[u] # "Inactive" => u # e /\ k.state[u] # "Inactive"
    BY <2>2 DEF Others, Runnable
  <2>5. QED
    BY <1>10, <2>1, <2>2, <2>3, <2>4, Inv3Same DEF SameWaiters
<1>11. ASSUME NEW t \in User, NEW p \in Prios, UNCHANGED program,
              ThreadNew(t, p) \/ SetPriority(t, p)
       PROVE  Inv3'
  BY <1>11, Inv3ThreadNew, Inv3SetPriority
<1>12. ASSUME Tick, UNCHANGED <<mx, mlist, loop, held, asked, program>>
       PROVE  Inv3'
  <2>1. UNCHANGED <<mx, mlist, ending, at>> /\ Wakening
    BY <1>12, TickStep
  <2>2. QED
    BY <1>12, <2>1, Inv3Same DEF Wakening
<1>13. ASSUME UNCHANGED vars
       PROVE  Inv3'
  BY <1>13, Inv3Same DEF vars, loop, SamePrios
<1>14. QED
  BY <1>1, <1>2, <1>3, <1>4, <1>5, <1>6, <1>7, <1>8, <1>9, <1>10, <1>11,
     <1>12, <1>13 DEF Next, ServiceCall

LEMMA Inv3Holds ==
  ASSUME Disciplined, PrioInherit = Mutexes
  PROVE  Spec => [](Inv1 /\ Inv2 /\ Inv3)
<1>1. Init => Inv1 /\ Inv2 /\ Inv3
  BY Inv1Starts, Inv2Starts, Inv3Starts
<1>2. Inv1 /\ Inv2 /\ Inv3 /\ [Next]_vars => (Inv1 /\ Inv2 /\ Inv3)'
  BY Inv1Kept, Inv2Kept, Inv3Kept
<1>3. QED
  BY <1>1, <1>2, PTL DEF Spec

(* If every mutex also inherits priorities, a raised priority does not     *)
(* outlive the mutexes it was raised for, and where threads do not wait    *)
(* with mutexes in hand and keep their priorities, no thread waits for an  *)
(* owner of lower priority: through handovers, timeouts, deletions, and    *)
(* the end and rebirth of threads.                                         *)
THEOREM InheritanceOKHolds ==
  ASSUME Disciplined, PrioInherit = Mutexes
  PROVE  Spec => []InheritanceOK
<1>1. Inv1 /\ Inv2 /\ Inv3 => InheritanceOK
  <2> SUFFICES ASSUME Inv1, Inv2, Inv3 PROVE InheritanceOK
    OBVIOUS
  <2>1. ASSUME Rule("unnested"), Rule("settled"), NEW x \in Mutexes,
               NEW i \in DOMAIN k.objq[x], mx[x].active
        PROVE  k.prio[mx[x].owner] >= k.prio[k.objq[x][i]]
    <3> DEFINE u == k.objq[x][i]
               w == mx[x].owner
    <3>1. u \in ToSet(k.objq[x])
      BY DEF ToSet
    <3>2. k.prio[u] <= k.prio[w]
      BY <2>1, <3>1 DEF Inv3, OwnersHigh
    <3>3. QED
      BY <3>2
  <2>2. ASSUME NEW t \in Threads \ {ending}, k.state[t] # "Inactive",
               \A x \in PrioInherit : ~Owns(t, x)
        PROVE  k.prio[t] = IF Rule("settled") THEN asked[t] ELSE k.base[t]
    <3>1. OwnedBy(mx, t) = {}
      BY <2>2 DEF Owns, OwnedBy
    <3>2. k.prio[t] = k.base[t]
      BY <2>2, <3>1 DEF Inv3, PrioInv
    <3>3. Rule("settled") => asked[t] = k.base[t]
      BY <2>2 DEF Inv3, AskedInv
    <3>4. QED
      BY <3>2, <3>3
  <2>3. QED
    BY <2>1, <2>2 DEF InheritanceOK
<1>2. QED
  BY <1>1, Inv3Holds, PTL
=============================================================================
