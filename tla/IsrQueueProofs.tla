--------------------------- MODULE IsrQueueProofs ---------------------------
(***************************************************************************)
(* The interrupt queue for any objects, any levels and any size: as long   *)
(* as handlers leave the slot alone that PendSV is reading (OneSpare), an  *)
(* accepted object is processed exactly once.                              *)
(***************************************************************************)
EXTENDS IsrQueue, FiniteSetTheorems, TLAPS

(* The distance of slot s from slot o in the direction of IncLim *)
Dist(o, s) == IF s >= o THEN s - o ELSE s - o + Max

(* The k slots from slot o on *)
Ring(o, k) == {s \in Slots : Dist(o, s) < k}

TypeInv ==
  /\ cnt \in Nat /\ in \in Slots /\ out \in Slots /\ n \in Slots
  /\ data \in [Slots -> Objects \cup {None}]
  /\ put \in [Isrs -> Objects \cup {None}]
  /\ slot \in [Isrs -> Slots \cup {Unset}]
  /\ get \in {"idle", "next", "out", "data"}
  /\ pendSV \in BOOLEAN /\ halted \in BOOLEAN
  /\ owed \in [Objects -> Int]

(* The ring: in is Used slots ahead of out, and the slot that PendSV reads *)
(* is the one just behind out.                                             *)
RingInv ==
  /\ IsFiniteSet(Counted)
  /\ cnt + (IF Fetching THEN 1 ELSE 0) <= Max
  /\ Used >= 0
  /\ in = IF out + Used < Max THEN out + Used ELSE out + Used - Max
  /\ get = "data" => Dist(out, n) = Max - 1

(* The reserved slots are in the ring, each of one active handler. *)
SlotInv ==
  \A i \in Isrs : slot[i] # Unset =>
    /\ Active(i)
    /\ slot[i] \in Ring(out, Used)
    /\ \A j \in Isrs : slot[j] = slot[i] => i = j

(* The written slots: what Queued is in terms of the ring *)
Written ==
  (Ring(out, Used) \ {slot[i] : i \in Isrs})
    \cup (IF get = "data" THEN {n} ELSE {})

QueueInv ==
  /\ \A s \in Written : data[s] \in Objects
  /\ \A o \in Objects : owed[o] = Cardinality({s \in Written : data[s] = o})
  /\ get = "idle" /\ ~pendSV => Written = {}

IInv == TypeInv /\ RingInv /\ SlotInv /\ QueueInv

-----------------------------------------------------------------------------
(* Arithmetic of the ring. *)

(* The remainder of a sum of two slots is what IncLim computes. *)
LEMMA ModSum ==
  ASSUME NEW a \in Slots, NEW j \in Slots
  PROVE  (a + j) % Max = IF a + j < Max THEN a + j ELSE a + j - Max
<1> USE MaxPositive DEF Slots
<1>1. CASE a + j < Max
  BY <1>1
<1>2. CASE a + j >= Max
  <2>1. a + j - Max \in 0 .. Max - 1
    BY <1>2
  <2>2. (a + j - Max) % Max = a + j - Max
    BY <2>1
  <2>3. (a + j) % Max = (a + j - Max) % Max
    BY <1>2, Z3
  <2>4. QED
    BY <1>2, <2>2, <2>3
<1>3. QED
  BY <1>1, <1>2

(* The set that Queued counts through is the ring. *)
LEMMA RingIsImage ==
  ASSUME NEW o \in Slots, NEW k \in 0 .. Max
  PROVE  {(o + j) % Max : j \in 0 .. k - 1} = Ring(o, k)
<1> USE MaxPositive DEF Slots
<1>1. ASSUME NEW j \in 0 .. k - 1 PROVE (o + j) % Max \in Ring(o, k)
  <2>1. (o + j) % Max = IF o + j < Max THEN o + j ELSE o + j - Max
    BY ModSum
  <2>2. QED
    BY <2>1 DEF Ring, Dist
<1>2. ASSUME NEW s \in Ring(o, k) PROVE \E j \in 0 .. k - 1 : s = (o + j) % Max
  <2>1. Dist(o, s) \in 0 .. k - 1 /\ Dist(o, s) \in Slots
    BY DEF Ring, Dist
  <2>2. (o + Dist(o, s)) % Max
          = IF o + Dist(o, s) < Max THEN o + Dist(o, s) ELSE o + Dist(o, s) - Max
    BY <2>1, ModSum
  <2>3. (o + Dist(o, s)) % Max = s
    BY <2>2 DEF Ring, Dist
  <2>4. QED
    BY <2>1, <2>3
<1>3. QED
  BY <1>1, <1>2

(* A ring grows by the slot at its end, where in is. *)
LEMMA RingGrows ==
  ASSUME NEW o \in Slots, NEW k \in 0 .. Max - 1,
         NEW s \in Slots, s = IF o + k < Max THEN o + k ELSE o + k - Max
  PROVE  /\ Ring(o, k + 1) = Ring(o, k) \cup {s}
         /\ s \notin Ring(o, k)
         /\ IncLim(s) \in Slots
         /\ IncLim(s) = IF o + (k + 1) < Max THEN o + (k + 1) ELSE o + (k + 1) - Max
BY MaxPositive DEF Ring, Dist, IncLim, Slots

(* A ring loses the slot at its start, where out is. *)
LEMMA RingShrinks ==
  ASSUME NEW o \in Slots, NEW k \in 1 .. Max
  PROVE  /\ Ring(o, k) = Ring(IncLim(o), k - 1) \cup {o}
         /\ Dist(IncLim(o), o) = Max - 1
         /\ IncLim(o) \in Slots
         /\ (IF o + k < Max THEN o + k ELSE o + k - Max)
              = (IF IncLim(o) + (k - 1) < Max THEN IncLim(o) + (k - 1)
                 ELSE IncLim(o) + (k - 1) - Max)
BY MaxPositive DEF Ring, Dist, IncLim, Slots

(* The slots, and so the written ones among them, are finitely many. *)
LEMMA WrittenFinite ==
  ASSUME TypeInv, NEW S, S \subseteq Written
  PROVE  IsFiniteSet(S)
<1>1. IsFiniteSet(Slots)
  BY FS_Interval, MaxPositive DEF Slots
<1>2. S \subseteq Slots
  BY DEF Written, Ring, TypeInv
<1>3. QED
  BY <1>1, <1>2, FS_Subset

(* While no handler is active none has counted or reserved anything. *)
LEMMA QuietRing ==
  ASSUME IInv, NoIsr
  PROVE  /\ Cardinality(Counted) = 0
         /\ Used = cnt + (IF get = "out" THEN 1 ELSE 0)
         /\ {slot[i] : i \in Isrs} \cap Slots = {}
<1>1. Counted = {}
  BY DEF NoIsr, Counted
<1>2. Cardinality(Counted) = 0
  BY <1>1, FS_EmptySet
<1>3. cnt \in Nat
  BY DEF IInv, TypeInv
<1>4. \A i \in Isrs : slot[i] = Unset
  BY DEF IInv, SlotInv, NoIsr
<1>5. QED
  BY <1>2, <1>3, <1>4 DEF Used, Slots, Unset

-----------------------------------------------------------------------------
(* The steps. *)

(* The empty queue satisfies the inductive invariant. *)
LEMMA InitIInv == Init => IInv
<1> SUFFICES ASSUME Init PROVE IInv
  OBVIOUS
<1> USE MaxPositive, NoneIsNoObject DEF Init, Unset
<1>1. TypeInv
  <2>1. 0 \in Slots
    BY DEF Slots
  <2>2. owed \in [Objects -> Int] /\ slot \in [Isrs -> Slots \cup {-1}]
    OBVIOUS
  <2>3. QED
    BY <2>1, <2>2 DEF TypeInv
<1>2. Counted = {} /\ Used = 0
  <2>1. Counted = {}
    BY DEF Counted, Active
  <2>2. QED
    BY <2>1, FS_EmptySet DEF Used
<1>3. Written = {}
  BY <1>2 DEF Written, Ring, Dist, Slots
<1>4. RingInv
  <2>1. IsFiniteSet(Counted)
    BY <1>2, FS_EmptySet
  <2>2. QED
    BY <1>2, <2>1 DEF RingInv, Fetching
<1>5. SlotInv
  BY DEF SlotInv
<1>6. QueueInv
  <2>1. \A o \in Objects : {s \in Written : data[s] = o} = {}
    BY <1>3
  <2>2. QED
    BY <1>3, <2>1, FS_EmptySet DEF QueueInv
<1>7. QED
  BY <1>1, <1>4, <1>5, <1>6 DEF IInv

(* atomic_inc16_lt: the handler counts its object, and owns no slot yet. *)
LEMMA PutCountIInv ==
  ASSUME IInv, OneSpare, NEW i \in Isrs, NEW o \in Objects, PutCount(i, o)
  PROVE  IInv'
<1> USE MaxPositive, NoneIsNoObject
<1>1. CASE HasRoom(cnt)
  <2> USE DEF PutCount, pendsv
  <2>0. ~Active(i) /\ slot[i] = Unset
    <3>1. ~Active(i)
      BY IsrsAreLevels
    <3>2. QED
      BY <3>1 DEF IInv, SlotInv
  <2>1. i \notin Counted /\ Counted' = Counted \cup {i}
    <3>1. put \in [Isrs -> Objects \cup {None}] /\ put' = [put EXCEPT ![i] = o]
      BY <1>1 DEF IInv, TypeInv
    <3>2. \A j \in Isrs : Active(j)' <=> (j = i \/ Active(j))
      BY <2>0, <3>1 DEF Active
    <3>3. QED
      BY <2>0, <3>2 DEF Counted
  <2>2. /\ IsFiniteSet(Counted)
        /\ Cardinality(Counted) \in Nat
        /\ IsFiniteSet(Counted')
        /\ Cardinality(Counted') = Cardinality(Counted) + 1
    BY <2>1, FS_AddElement, FS_CardinalityType DEF IInv, RingInv
  <2>3. TypeInv'
    BY <1>1 DEF IInv, TypeInv
  <2>4. Used' = Used /\ Used \in Int
    BY <1>1, <2>2 DEF Used, IInv, TypeInv
  <2>5. Written' = Written
    BY <2>4 DEF Written
  <2>6. RingInv'
    BY <1>1, <2>2, <2>4 DEF IInv, TypeInv, RingInv, Fetching, HasRoom
  <2>7. SlotInv'
    BY <1>1, <2>4 DEF IInv, TypeInv, SlotInv, Active
  <2>8. QueueInv'
    BY <2>5 DEF IInv, QueueInv
  <2>9. QED
    BY <2>3, <2>6, <2>7, <2>8 DEF IInv
<1>2. CASE ~HasRoom(cnt)
  <2>1. UNCHANGED <<cnt, in, out, data, put, slot, get, n, pendSV, owed>>
        /\ halted' = TRUE
    BY <1>2 DEF PutCount, pendsv
  <2>2. Counted' = Counted
    BY <2>1 DEF Counted, Active
  <2>3. Used' = Used
    BY <2>1, <2>2 DEF Used
  <2>4. Written' = Written
    BY <2>1, <2>3 DEF Written
  <2>5. QED
    BY <2>1, <2>2, <2>3, <2>4 DEF IInv, TypeInv, RingInv, SlotInv, QueueInv,
       Active, Fetching
<1>3. QED
  BY <1>1, <1>2

(* atomic_inc16_lim on in: the slot is the next one of the ring, which no  *)
(* other handler has and which is neither unread nor being read.           *)
LEMMA PutSlotIInv ==
  ASSUME IInv, NEW i \in Isrs, PutSlot(i)
  PROVE  IInv'
<1> USE MaxPositive, NoneIsNoObject
<1>0. /\ Active(i) /\ slot[i] = Unset /\ slot' = [slot EXCEPT ![i] = in]
      /\ in' = IncLim(in)
      /\ UNCHANGED <<cnt, out, data, put, get, n, pendSV, halted, owed>>
  BY DEF PutSlot, pendsv, Executes
<1>1. i \in Counted /\ Counted' = Counted \ {i}
  <2>1. \A j \in Isrs : slot'[j] = IF j = i THEN in ELSE slot[j]
    BY <1>0 DEF IInv, TypeInv
  <2>2. in # Unset
    BY DEF IInv, TypeInv, Slots, Unset
  <2>3. QED
    BY <1>0, <2>1, <2>2 DEF Counted, Active
<1>2. /\ IsFiniteSet(Counted')
      /\ Cardinality(Counted) \in Nat /\ Cardinality(Counted') \in Nat
      /\ Cardinality(Counted') = Cardinality(Counted) - 1
  BY <1>1, FS_RemoveElement, FS_CardinalityType DEF IInv, RingInv
<1>3. Used' = Used + 1 /\ Used \in 0 .. Max - 1
  BY <1>0, <1>2 DEF Used, IInv, TypeInv, RingInv, Fetching
<1>4. get = "data" => Used + 1 <= Max - 1
  BY <1>0, <1>2 DEF Used, IInv, TypeInv, RingInv, Fetching
<1>5. /\ Ring(out, Used') = Ring(out, Used) \cup {in}
      /\ in \notin Ring(out, Used)
      /\ IncLim(in) \in Slots
      /\ IncLim(in) = IF out + Used' < Max THEN out + Used' ELSE out + Used' - Max
  <2>1. /\ in \in Slots /\ out \in Slots
        /\ in = IF out + Used < Max THEN out + Used ELSE out + Used - Max
    BY DEF IInv, TypeInv, RingInv
  <2>2. /\ Ring(out, Used + 1) = Ring(out, Used) \cup {in}
        /\ in \notin Ring(out, Used)
        /\ IncLim(in) \in Slots
        /\ IncLim(in) = IF out + (Used + 1) < Max THEN out + (Used + 1)
                        ELSE out + (Used + 1) - Max
    BY <1>3, <2>1, RingGrows
  <2>3. QED
    BY <1>3, <2>2
<1>6. TypeInv'
  BY <1>0, <1>5 DEF IInv, TypeInv
<1>7. RingInv'
  BY <1>0, <1>2, <1>3, <1>5 DEF IInv, RingInv, Fetching
<1>8. \A j \in Isrs : slot'[j] = IF j = i THEN in ELSE slot[j]
  BY <1>0 DEF IInv, TypeInv
<1>9. SlotInv'
  BY <1>0, <1>5, <1>8 DEF IInv, SlotInv, Active
<1>10. Written' = Written
  <2>1. {slot'[j] : j \in Isrs} \cap Slots = ({slot[j] : j \in Isrs} \cap Slots) \cup {in}
    <3>1. Unset \notin Slots /\ in \in Slots
      BY DEF IInv, TypeInv, Slots, Unset
    <3>2. QED
      BY <1>0, <1>8, <3>1
  <2>2. Ring(out, Used') \ {slot'[j] : j \in Isrs} = Ring(out, Used) \ {slot[j] : j \in Isrs}
    BY <1>5, <2>1 DEF Ring
  <2>3. QED
    BY <1>0, <2>2 DEF Written
<1>11. QueueInv'
  BY <1>0, <1>10 DEF IInv, QueueInv
<1>12. QED
  BY <1>6, <1>7, <1>9, <1>11 DEF IInv

(* The write: the slot of the handler joins the written ones. *)
LEMMA PutDataIInv ==
  ASSUME IInv, NEW i \in Isrs, PutData(i)
  PROVE  IInv'
<1> USE MaxPositive, NoneIsNoObject
<1> DEFINE o == put[i]
           s == slot[i]
<1>0. /\ Active(i) /\ s # Unset
      /\ data' = [data EXCEPT ![s] = o]
      /\ owed' = [owed EXCEPT ![o] = @ + 1]
      /\ pendSV' = TRUE
      /\ put' = [put EXCEPT ![i] = None] /\ slot' = [slot EXCEPT ![i] = Unset]
      /\ UNCHANGED <<cnt, in, out, get, n, halted>>
  BY DEF PutData, pendsv, Executes
<1>1. o \in Objects /\ s \in Slots /\ s \in Ring(out, Used)
  BY <1>0 DEF IInv, TypeInv, SlotInv, Active
<1>2. /\ \A j \in Isrs : slot'[j] = IF j = i THEN Unset ELSE slot[j]
      /\ \A j \in Isrs : put'[j] = IF j = i THEN None ELSE put[j]
  BY <1>0 DEF IInv, TypeInv
<1>3. Counted' = Counted
  BY <1>0, <1>2 DEF Counted, Active
<1>4. Used' = Used /\ Used \in 0 .. Max /\ (get = "data" => Used <= Max - 1)
  <2>1. Used' = Used
    BY <1>0, <1>3 DEF Used
  <2>2. Cardinality(Counted) \in Nat
    BY FS_CardinalityType DEF IInv, RingInv
  <2>3. QED
    BY <2>1, <2>2 DEF Used, IInv, TypeInv, RingInv, Fetching
<1>5. s \notin Written
  <2>1. get = "data" => s # n
    BY <1>1, <1>4 DEF IInv, TypeInv, RingInv, Ring, Dist, Slots
  <2>2. QED
    BY <1>1, <2>1 DEF Written
<1>6. Written' = Written \cup {s}
  <2>1. {slot'[j] : j \in Isrs} \cap Slots = ({slot[j] : j \in Isrs} \cap Slots) \ {s}
    <3>1. Unset \notin Slots
      BY DEF Slots, Unset
    <3>2. \A j \in Isrs : slot[j] = s => j = i
      BY <1>0 DEF IInv, SlotInv
    <3>3. QED
      BY <1>1, <1>2, <3>1, <3>2
  <2>2. Ring(out, Used) \ {slot'[j] : j \in Isrs}
          = (Ring(out, Used) \ {slot[j] : j \in Isrs}) \cup {s}
    BY <1>1, <2>1 DEF Ring
  <2>3. QED
    BY <1>0, <1>4, <2>2 DEF Written
<1>7. TypeInv'
  BY <1>0, <1>1 DEF IInv, TypeInv
<1>8. RingInv'
  BY <1>0, <1>3, <1>4 DEF IInv, RingInv, Fetching
<1>9. SlotInv'
  BY <1>0, <1>2, <1>4 DEF IInv, SlotInv, Active
<1>10. Written \subseteq Slots
  BY DEF Written, Ring, IInv, TypeInv
<1>11. \A r \in Written : data'[r] = data[r]
  BY <1>0, <1>5, <1>10 DEF IInv, TypeInv
<1>12. data'[s] = o
  BY <1>0, <1>1 DEF IInv, TypeInv
<1>13. ASSUME NEW q \in Objects
       PROVE  owed'[q] = Cardinality({r \in Written' : data'[r] = q})
  <2> DEFINE Q == {r \in Written : data[r] = q}
  <2>1. IsFiniteSet(Q)
    BY WrittenFinite DEF IInv
  <2>2. owed[q] = Cardinality(Q)
    BY DEF IInv, QueueInv
  <2>3. CASE q = o
    <3>1. {r \in Written' : data'[r] = q} = Q \cup {s}
      BY <1>6, <1>11, <1>12, <2>3
    <3>2. Cardinality(Q \cup {s}) = Cardinality(Q) + 1
      BY <1>5, <2>1, FS_AddElement
    <3>3. owed'[q] = owed[q] + 1
      BY <1>0, <2>3 DEF IInv, TypeInv
    <3>4. QED
      BY <2>2, <3>1, <3>2, <3>3
  <2>4. CASE q # o
    <3>1. {r \in Written' : data'[r] = q} = Q
      BY <1>6, <1>11, <1>12, <2>4
    <3>2. owed'[q] = owed[q]
      BY <1>0, <2>4 DEF IInv, TypeInv
    <3>3. QED
      BY <2>2, <3>1, <3>2
  <2>5. QED
    BY <2>3, <2>4
<1>14. QueueInv'
  BY <1>0, <1>1, <1>6, <1>11, <1>12, <1>13 DEF IInv, QueueInv
<1>15. QED
  BY <1>7, <1>8, <1>9, <1>14 DEF IInv

(* PendSV is entered with whatever is written. *)
LEMMA PendSvEntryIInv ==
  ASSUME IInv, PendSvEntry
  PROVE  IInv'
<1>0. /\ get = "idle" /\ get' = "next" /\ pendSV' = FALSE
      /\ UNCHANGED <<cnt, in, out, data, put, slot, n, halted, owed>>
  BY DEF PendSvEntry, queue
<1>1. Counted' = Counted
  BY <1>0 DEF Counted, Active
<1>2. Used' = Used
  BY <1>0, <1>1 DEF Used
<1>3. Written' = Written
  BY <1>0, <1>2 DEF Written
<1>4. QED
  BY <1>0, <1>1, <1>2, <1>3 DEF IInv, TypeInv, RingInv, SlotInv, QueueInv,
     Active, Fetching

(* atomic_dec16_nz: PendSV is through only when nothing is written. *)
LEMMA GetCountIInv ==
  ASSUME IInv, GetCount
  PROVE  IInv'
<1> USE MaxPositive
<1>0. /\ NoIsr /\ get = "next"
      /\ UNCHANGED <<in, out, data, put, slot, n, pendSV, halted, owed>>
      /\ IF cnt = 0 THEN get' = "idle" /\ cnt' = cnt ELSE get' = "out" /\ cnt' = cnt - 1
  BY DEF GetCount
<1>1. Counted' = Counted
  BY <1>0 DEF Counted, Active
<1>2. Used' = Used
  <2>1. cnt \in Nat /\ Cardinality(Counted) = 0
    BY <1>0, QuietRing DEF IInv, TypeInv
  <2>2. QED
    BY <1>0, <1>1, <2>1 DEF Used
<1>3. Written' = Written
  BY <1>0, <1>2 DEF Written
<1>4. cnt = 0 => Written = {}
  <2>1. cnt = 0 => Used = 0
    BY <1>0, QuietRing
  <2>2. QED
    BY <1>0, <2>1 DEF Written, Ring, Dist, Slots, IInv, TypeInv
<1>5. TypeInv'
  BY <1>0 DEF IInv, TypeInv
<1>6. RingInv'
  BY <1>0, <1>1, <1>2 DEF IInv, TypeInv, RingInv, Fetching
<1>7. SlotInv'
  BY <1>0, <1>2 DEF IInv, SlotInv, Active
<1>8. QueueInv'
  BY <1>0, <1>3, <1>4 DEF IInv, QueueInv
<1>9. QED
  BY <1>5, <1>6, <1>7, <1>8 DEF IInv

(* atomic_inc16_lim on out: the first slot of the ring becomes the one     *)
(* that is read.                                                           *)
LEMMA GetOutIInv ==
  ASSUME IInv, GetOut
  PROVE  IInv'
<1> USE MaxPositive
<1>0. /\ NoIsr /\ get = "out" /\ get' = "data"
      /\ n' = out /\ out' = IncLim(out)
      /\ UNCHANGED <<cnt, in, data, put, slot, pendSV, halted, owed>>
  BY DEF GetOut
<1>1. Counted' = Counted
  BY <1>0 DEF Counted, Active
<1>2. Used' = Used - 1 /\ Used \in 1 .. Max /\ out \in Slots
  <2>1. cnt \in Nat /\ Cardinality(Counted) = 0 /\ cnt + 1 <= Max
    BY <1>0, QuietRing DEF IInv, TypeInv, RingInv, Fetching
  <2>2. QED
    BY <1>0, <1>1, <2>1 DEF Used, IInv, TypeInv
<1>3. /\ Ring(out, Used) = Ring(out', Used') \cup {out}
      /\ Dist(out', out) = Max - 1
      /\ out' \in Slots
      /\ in = IF out' + Used' < Max THEN out' + Used' ELSE out' + Used' - Max
  <2>1. /\ Ring(out, Used) = Ring(IncLim(out), Used - 1) \cup {out}
        /\ Dist(IncLim(out), out) = Max - 1
        /\ IncLim(out) \in Slots
        /\ (IF out + Used < Max THEN out + Used ELSE out + Used - Max)
             = (IF IncLim(out) + (Used - 1) < Max THEN IncLim(out) + (Used - 1)
                ELSE IncLim(out) + (Used - 1) - Max)
    BY <1>2, RingShrinks
  <2>2. QED
    BY <1>0, <1>2, <2>1 DEF IInv, RingInv
<1>4. \A i \in Isrs : slot[i] = Unset
  BY <1>0 DEF IInv, SlotInv, NoIsr
<1>5. Written' = Written
  <2>1. Unset \notin Slots
    BY DEF Slots, Unset
  <2>2. Ring(out, Used) \ {slot[i] : i \in Isrs} = Ring(out, Used)
    BY <1>4, <2>1 DEF Ring
  <2>3. Ring(out', Used') \ {slot'[i] : i \in Isrs} = Ring(out', Used')
    BY <1>0, <1>4, <2>1 DEF Ring
  <2>4. QED
    BY <1>0, <1>3, <2>2, <2>3 DEF Written
<1>6. TypeInv'
  BY <1>0, <1>2, <1>3 DEF IInv, TypeInv
<1>7. RingInv'
  BY <1>0, <1>1, <1>2, <1>3 DEF IInv, RingInv, Fetching
<1>8. SlotInv'
  BY <1>0, <1>4 DEF SlotInv
<1>9. QueueInv'
  BY <1>0, <1>5 DEF IInv, QueueInv
<1>10. QED
  BY <1>6, <1>7, <1>8, <1>9 DEF IInv

(* The slot is read, and written no more. *)
LEMMA GetDataIInv ==
  ASSUME IInv, GetData
  PROVE  IInv'
<1> USE MaxPositive
<1> DEFINE o == data[n]
<1>0. /\ NoIsr /\ get = "data" /\ get' = "next"
      /\ owed' = [owed EXCEPT ![o] = @ - 1]
      /\ UNCHANGED <<cnt, in, out, data, put, slot, n, pendSV, halted>>
  BY DEF GetData, queue
<1>1. Counted' = Counted
  BY <1>0 DEF Counted, Active
<1>2. Used' = Used /\ Used \in 0 .. Max - 1
  <2>1. cnt \in Nat /\ Cardinality(Counted) = 0 /\ cnt + 1 <= Max
    BY <1>0, QuietRing DEF IInv, TypeInv, RingInv, Fetching
  <2>2. QED
    BY <1>0, <1>1, <2>1 DEF Used
<1>3. n \in Written /\ Written' = Written \ {n}
  <2>1. n \notin Ring(out, Used)
    BY <1>0, <1>2 DEF Ring, IInv, RingInv
  <2>2. QED
    BY <1>0, <1>2, <2>1 DEF Written
<1>4. o \in Objects
  BY <1>3 DEF IInv, QueueInv
<1>5. TypeInv'
  BY <1>0, <1>4 DEF IInv, TypeInv
<1>6. RingInv'
  BY <1>0, <1>1, <1>2 DEF IInv, TypeInv, RingInv, Fetching
<1>7. SlotInv'
  BY <1>0, <1>2 DEF IInv, SlotInv, Active
<1>8. ASSUME NEW q \in Objects
      PROVE  owed'[q] = Cardinality({r \in Written' : data'[r] = q})
  <2> DEFINE Q == {r \in Written : data[r] = q}
  <2>1. IsFiniteSet(Q)
    BY WrittenFinite DEF IInv
  <2>2. owed[q] = Cardinality(Q) /\ Cardinality(Q) \in Nat
    BY <2>1, FS_CardinalityType DEF IInv, QueueInv
  <2>3. CASE q = o
    <3>1. {r \in Written' : data'[r] = q} = Q \ {n} /\ n \in Q
      BY <1>0, <1>3, <2>3
    <3>2. Cardinality(Q \ {n}) = Cardinality(Q) - 1
      BY <2>1, <3>1, FS_RemoveElement
    <3>3. owed'[q] = owed[q] - 1
      BY <1>0, <2>3 DEF IInv, TypeInv
    <3>4. QED
      BY <2>2, <3>1, <3>2, <3>3
  <2>4. CASE q # o
    <3>1. {r \in Written' : data'[r] = q} = Q
      BY <1>0, <1>3, <2>4
    <3>2. owed'[q] = owed[q]
      BY <1>0, <2>4 DEF IInv, TypeInv
    <3>3. QED
      BY <2>2, <3>1, <3>2
  <2>5. QED
    BY <2>3, <2>4
<1>9. QueueInv'
  BY <1>0, <1>3, <1>8 DEF IInv, QueueInv
<1>10. QED
  BY <1>5, <1>6, <1>7, <1>9 DEF IInv

(* Every access of a handler or of PendSV keeps the inductive invariant. *)
LEMMA NextIInv == OneSpare /\ IInv /\ [Next]_vars => IInv'
<1> SUFFICES ASSUME OneSpare, IInv, [Next]_vars PROVE IInv'
  OBVIOUS
<1>1. ASSUME NEW i \in Isrs, Put(i) PROVE IInv'
  BY <1>1, PutCountIInv, PutSlotIInv, PutDataIInv DEF Put
<1>2. CASE PendSV
  BY <1>2, PendSvEntryIInv, GetCountIInv, GetOutIInv, GetDataIInv DEF PendSV
<1>3. CASE UNCHANGED vars
  <2>1. Counted' = Counted
    BY <1>3 DEF vars, Counted, Active
  <2>2. Used' = Used
    BY <1>3, <2>1 DEF vars, Used
  <2>3. Written' = Written
    BY <1>3, <2>2 DEF vars, Written
  <2>4. QED
    BY <1>3, <2>1, <2>2, <2>3 DEF vars, IInv, TypeInv, RingInv, SlotInv, QueueInv,
       Active, Fetching
<1>4. QED
  BY <1>1, <1>2, <1>3 DEF Next, Halt

-----------------------------------------------------------------------------
(* The theorems. *)

(* The inductive invariant holds in every reachable state. *)
THEOREM Invariance == OneSpare => (Spec => []IInv)
<1> SUFFICES ASSUME OneSpare PROVE Spec => []IInv
  OBVIOUS
<1>1. IInv /\ [Next]_vars => IInv'
  BY NextIInv
<1>2. QED
  BY InitIInv, <1>1, PTL DEF Spec

(* The slots that the property counts are the written slots of the ring. *)
LEMMA QueuedIsWritten == IInv => Queued = Written
<1> SUFFICES ASSUME IInv PROVE Queued = Written
  OBVIOUS
<1>1. Used \in 0 .. Max /\ out \in Slots
  <2>1. Cardinality(Counted) \in Nat
    BY FS_CardinalityType DEF IInv, RingInv
  <2>2. QED
    BY <2>1, MaxPositive DEF Used, IInv, TypeInv, RingInv, Fetching
<1>2. {(out + j) % Max : j \in 0 .. Used - 1} = Ring(out, Used)
  BY <1>1, RingIsImage
<1>3. QED
  BY <1>2 DEF Queued, Written

(* isr_queue_put and isr_queue_get agree on where every accepted object is *)
(* at each of their atomic accesses: none overwrites or reads another's    *)
(* slot, for any number of nested handlers and any size of the queue.      *)
THEOREM EveryObjectQueuedHolds == OneSpare => (Spec => []EveryObjectQueued)
<1> SUFFICES ASSUME OneSpare PROVE Spec => []EveryObjectQueued
  OBVIOUS
<1>1. IInv => EveryObjectQueued
  BY QueuedIsWritten DEF IInv, QueueInv, EveryObjectQueued
<1>2. QED
  BY <1>1, Invariance, PTL

(* Every object accepted by isr_queue_put is processed by PendSV exactly   *)
(* once: never more often, and not less when PendSV is through.            *)
THEOREM ProcessedOnceHolds == OneSpare => (Spec => []ProcessedOnce)
<1> SUFFICES ASSUME OneSpare PROVE Spec => []ProcessedOnce
  OBVIOUS
<1>1. IInv => ProcessedOnce
  <2> SUFFICES ASSUME IInv PROVE ProcessedOnce
    OBVIOUS
  <2>1. ASSUME NEW o \in Objects PROVE owed[o] >= 0
    <3>1. IsFiniteSet({s \in Written : data[s] = o})
      BY WrittenFinite DEF IInv
    <3>2. Cardinality({s \in Written : data[s] = o}) \in Nat
      BY <3>1, FS_CardinalityType
    <3>3. owed[o] = Cardinality({s \in Written : data[s] = o})
      BY DEF IInv, QueueInv
    <3>4. QED
      BY <3>2, <3>3
  <2>2. ASSUME get = "idle", ~pendSV, NEW o \in Objects PROVE owed[o] = 0
    <3>1. {s \in Written : data[s] = o} = {}
      BY <2>2 DEF IInv, QueueInv
    <3>2. QED
      BY <3>1, FS_EmptySet DEF IInv, QueueInv
  <2>3. QED
    BY <2>1, <2>2 DEF ProcessedOnce
<1>2. QED
  BY <1>1, Invariance, PTL
=============================================================================
