--------------------------- MODULE RtxCoreProofs ---------------------------
(***************************************************************************)
(* Lemmas on the operators of RtxCore: what the list operations do to the  *)
(* set of the listed threads, to uniqueness and to the order, and what the *)
(* scheduler operations do to the place of a thread.                       *)
(***************************************************************************)
EXTENDS RtxCore, SequenceTheorems, WellFoundedInduction, TLAPS

(* A scan stops: it has a first stopping index, or the end. *)
LEMMA FirstIndex ==
  ASSUME NEW n \in Nat, NEW Stop
  PROVE  \E i \in 1 .. n + 1 : /\ i \in Stop \cup {n + 1}
                               /\ \A j \in 1 .. i - 1 : j \notin Stop
<1> DEFINE T == {i \in 1 .. n + 1 : i \in Stop \cup {n + 1}}
<1>1. T \subseteq Nat /\ T # {}
  OBVIOUS
<1> HIDE DEF T
<1>2. PICK i \in T : \A y \in T : ~ (<<y, i>> \in OpToRel(<, Nat))
  BY <1>1, WFMin, NatLessThanWellFounded
<1>3. \A y \in T : ~ (y < i)
  BY <1>1, <1>2 DEF OpToRel
<1>4. QED
  BY <1>3 DEF T

(* ScanPos finds that index. *)
LEMMA ScanPosFacts ==
  ASSUME NEW S, NEW s \in Seq(S), NEW Stop
  PROVE  /\ ScanPos(s, Stop) \in 1 .. Len(s) + 1
         /\ ScanPos(s, Stop) \in Stop \cup {Len(s) + 1}
         /\ \A j \in 1 .. ScanPos(s, Stop) - 1 : j \notin Stop
<1>1. Len(s) \in Nat
  OBVIOUS
<1>2. \E i \in 1 .. Len(s) + 1 : /\ i \in Stop \cup {Len(s) + 1}
                                 /\ \A j \in 1 .. i - 1 : j \notin Stop
  BY <1>1, FirstIndex
<1>3. QED
  BY <1>2 DEF ScanPos

(* InsertAt, element by element. *)
LEMMA InsertAtFacts ==
  ASSUME NEW S, NEW s \in Seq(S), NEW p \in 1 .. Len(s) + 1, NEW t \in S
  PROVE  /\ InsertAt(s, p, t) \in Seq(S)
         /\ Len(InsertAt(s, p, t)) = Len(s) + 1
         /\ \A i \in 1 .. Len(s) + 1 :
              InsertAt(s, p, t)[i] = IF i < p THEN s[i]
                                     ELSE IF i = p THEN t ELSE s[i - 1]
<1> DEFINE x == SubSeq(s, 1, p - 1)
           y == SubSeq(s, p, Len(s))
           z == x \o <<t>>
           r == z \o y
<1>1. Len(s) \in Nat /\ p \in Int /\ \A i \in 1 .. Len(s) : s[i] \in S
  OBVIOUS
<1>2. x \in Seq(S) /\ Len(x) = p - 1 /\ \A i \in 1 .. p - 1 : x[i] = s[i]
  BY <1>1, SubSeqProperties
<1>3. /\ y \in Seq(S) /\ Len(y) = Len(s) - p + 1
      /\ \A i \in 1 .. Len(s) - p + 1 : y[i] = s[p + i - 1]
  BY <1>1, SubSeqProperties
<1>4. <<t>> \in Seq(S) /\ Len(<<t>>) = 1 /\ <<t>>[1] = t
  OBVIOUS
<1> HIDE DEF x, y
<1>5. /\ z \in Seq(S) /\ Len(z) = p
      /\ \A i \in 1 .. p : z[i] = IF i < p THEN s[i] ELSE t
  BY <1>2, <1>4, ConcatProperties
<1> HIDE DEF z
<1>6. /\ r \in Seq(S) /\ Len(r) = Len(z) + Len(y)
      /\ \A i \in 1 .. Len(z) + Len(y) :
           r[i] = IF i <= Len(z) THEN z[i] ELSE y[i - Len(z)]
  BY <1>3, <1>5, ConcatProperties
<1>7. InsertAt(s, p, t) = r
  BY DEF InsertAt, r, z, x, y
<1> HIDE DEF r
<1>8. Len(r) = Len(s) + 1
  BY <1>1, <1>3, <1>5, <1>6
<1>9. ASSUME NEW i \in 1 .. Len(s) + 1
      PROVE r[i] = IF i < p THEN s[i] ELSE IF i = p THEN t ELSE s[i - 1]
  <2>1. i \in 1 .. Len(z) + Len(y)
    BY <1>1, <1>3, <1>5
  <2>2. CASE i <= p
    BY <2>1, <2>2, <1>1, <1>5, <1>6
  <2>3. CASE i > p
    <3>1. r[i] = y[i - p] /\ i - p \in 1 .. Len(s) - p + 1
      BY <2>1, <2>3, <1>1, <1>5, <1>6
    <3>2. y[i - p] = s[p + (i - p) - 1]
      BY <3>1, <1>3
    <3>3. p + (i - p) - 1 = i - 1
      BY <1>1
    <3>4. QED
      BY <3>1, <3>2, <3>3, <2>3, <1>1
  <2>4. QED
    BY <2>2, <2>3, <1>1
<1>10. QED
  BY <1>6, <1>7, <1>8, <1>9

(* RemoveAt, element by element. *)
LEMMA RemoveAtFacts ==
  ASSUME NEW S, NEW s \in Seq(S), NEW p \in 1 .. Len(s)
  PROVE  /\ RemoveAt(s, p) \in Seq(S)
         /\ Len(RemoveAt(s, p)) = Len(s) - 1
         /\ \A i \in 1 .. Len(s) - 1 :
              RemoveAt(s, p)[i] = IF i < p THEN s[i] ELSE s[i + 1]
<1> DEFINE x == SubSeq(s, 1, p - 1)
           y == SubSeq(s, p + 1, Len(s))
           r == x \o y
<1>1. Len(s) \in Nat /\ p \in Int /\ \A i \in 1 .. Len(s) : s[i] \in S
  OBVIOUS
<1>2. x \in Seq(S) /\ Len(x) = p - 1 /\ \A i \in 1 .. p - 1 : x[i] = s[i]
  BY <1>1, SubSeqProperties
<1>3. /\ y \in Seq(S) /\ Len(y) = Len(s) - p
      /\ \A i \in 1 .. Len(s) - p : y[i] = s[p + i]
  BY <1>1, SubSeqProperties
<1> HIDE DEF x, y
<1>4. /\ r \in Seq(S) /\ Len(r) = Len(x) + Len(y)
      /\ \A i \in 1 .. Len(x) + Len(y) :
           r[i] = IF i <= Len(x) THEN x[i] ELSE y[i - Len(x)]
  BY <1>2, <1>3, ConcatProperties
<1>5. RemoveAt(s, p) = r
  BY DEF RemoveAt, r, x, y
<1> HIDE DEF r
<1>6. Len(r) = Len(s) - 1
  BY <1>1, <1>2, <1>3, <1>4
<1>7. ASSUME NEW i \in 1 .. Len(s) - 1
      PROVE r[i] = IF i < p THEN s[i] ELSE s[i + 1]
  <2>1. i \in 1 .. Len(x) + Len(y)
    BY <1>1, <1>2, <1>3
  <2>2. CASE i < p
    BY <2>1, <2>2, <1>1, <1>2, <1>4
  <2>3. CASE i >= p
    <3>1. r[i] = y[i - (p - 1)] /\ i - (p - 1) \in 1 .. Len(s) - p
      BY <2>1, <2>3, <1>1, <1>2, <1>4
    <3>2. y[i - (p - 1)] = s[p + (i - (p - 1))]
      BY <3>1, <1>3
    <3>3. p + (i - (p - 1)) = i + 1
      BY <1>1
    <3>4. QED
      BY <3>1, <3>2, <3>3, <2>3, <1>1
  <2>4. QED
    BY <2>2, <2>3, <1>1
<1>8. QED
  BY <1>4, <1>5, <1>6, <1>7

-----------------------------------------------------------------------------
(* A list of threads: every thread at most once. *)
IsList(s) == s \in Seq(Threads) /\ IsInjective(s)

(* Inserting a thread that is not listed adds just this thread. *)
LEMMA InsertList ==
  ASSUME NEW s, IsList(s), NEW p \in 1 .. Len(s) + 1,
         NEW t \in Threads, t \notin ToSet(s)
  PROVE  /\ IsList(InsertAt(s, p, t))
         /\ ToSet(InsertAt(s, p, t)) = ToSet(s) \cup {t}
<1> DEFINE r == InsertAt(s, p, t)
<1>1. s \in Seq(Threads) /\ Len(s) \in Nat /\ DOMAIN s = 1 .. Len(s)
  BY DEF IsList
<1>2. /\ r \in Seq(Threads) /\ Len(r) = Len(s) + 1
      /\ DOMAIN r = 1 .. Len(s) + 1
      /\ \A i \in 1 .. Len(s) + 1 :
           r[i] = IF i < p THEN s[i] ELSE IF i = p THEN t ELSE s[i - 1]
  BY <1>1, InsertAtFacts, SMTT(30)
<1> HIDE DEF r
<1>3. \A i \in 1 .. Len(s) : s[i] \in ToSet(s) /\ s[i] # t
  BY <1>1 DEF ToSet
<1>4. ToSet(r) \subseteq ToSet(s) \cup {t}
  BY <1>1, <1>2 DEF ToSet
<1>5. t \in ToSet(r)
  BY <1>1, <1>2 DEF ToSet
<1>6. ASSUME NEW u \in ToSet(s) PROVE u \in ToSet(r)
  <2>1. PICK i \in 1 .. Len(s) : u = s[i]
    BY <1>1 DEF ToSet
  <2>2. CASE i < p
    BY <1>1, <1>2, <2>1, <2>2 DEF ToSet
  <2>3. CASE i >= p
    <3>1. i + 1 \in 1 .. Len(s) + 1 /\ i + 1 > p /\ (i + 1) - 1 = i
      BY <1>1, <2>3
    <3>2. r[i + 1] = s[i]
      BY <1>1, <1>2, <3>1
    <3>3. QED
      BY <1>2, <2>1, <3>1, <3>2 DEF ToSet
  <2>4. QED
    BY <1>1, <2>2, <2>3
<1>7. IsInjective(r)
  <2> SUFFICES ASSUME NEW i \in 1 .. Len(s) + 1, NEW j \in 1 .. Len(s) + 1,
                      r[i] = r[j]
               PROVE  i = j
    BY <1>2 DEF IsInjective
  <2>1. \A m, n \in 1 .. Len(s) : s[m] = s[n] => m = n
    BY <1>1 DEF IsList, IsInjective
  <2>2. CASE i = p \/ j = p
    BY <1>1, <1>2, <1>3, <2>2
  <2>3. CASE i # p /\ j # p
    BY <1>1, <1>2, <2>1, <2>3
  <2>4. QED
    BY <2>2, <2>3
<1>8. QED
  BY <1>2, <1>4, <1>5, <1>6, <1>7 DEF IsList, r

(* Unlinking a thread removes just this thread and keeps the order. *)
LEMMA UnlinkList ==
  ASSUME NEW s, IsList(s), NEW t
  PROVE  /\ IsList(Unlink(s, t))
         /\ ToSet(Unlink(s, t)) = ToSet(s) \ {t}
         /\ \A prio \in [Threads -> Int] :
              Sorted(prio, s) => Sorted(prio, Unlink(s, t))
<1>1. s \in Seq(Threads) /\ Len(s) \in Nat /\ DOMAIN s = 1 .. Len(s)
  BY DEF IsList
<1>2. CASE t \notin ToSet(s)
  BY <1>2 DEF Unlink
<1>3. CASE t \in ToSet(s)
  <2> DEFINE p == CHOOSE i \in DOMAIN s : s[i] = t
             r == RemoveAt(s, p)
  <2>1. p \in 1 .. Len(s) /\ s[p] = t
    BY <1>1, <1>3 DEF ToSet
  <2>2. Unlink(s, t) = r
    BY <1>3 DEF Unlink
  <2> HIDE DEF p
  <2>3. /\ r \in Seq(Threads) /\ Len(r) = Len(s) - 1
        /\ DOMAIN r = 1 .. Len(s) - 1
        /\ \A i \in 1 .. Len(s) - 1 : r[i] = IF i < p THEN s[i] ELSE s[i + 1]
    <3>1. /\ r \in Seq(Threads) /\ Len(r) = Len(s) - 1
          /\ \A i \in 1 .. Len(s) - 1 :
               r[i] = IF i < p THEN s[i] ELSE s[i + 1]
      BY <1>1, <2>1, RemoveAtFacts
    <3>2. DOMAIN r = 1 .. Len(r)
      BY <3>1
    <3>3. QED
      BY <3>1, <3>2
  <2> HIDE DEF r
  <2>4. \A m, n \in 1 .. Len(s) : s[m] = s[n] => m = n
    BY <1>1 DEF IsList, IsInjective
  <2>5. IsInjective(r)
    BY <1>1, <2>1, <2>3, <2>4 DEF IsInjective
  <2>6. ToSet(r) \subseteq ToSet(s) \ {t}
    BY <1>1, <2>1, <2>3, <2>4 DEF ToSet
  <2>7. ASSUME NEW u \in ToSet(s), u # t PROVE u \in ToSet(r)
    <3>1. PICK i \in 1 .. Len(s) : u = s[i]
      BY <1>1 DEF ToSet
    <3>2. CASE i < p
      BY <1>1, <2>1, <2>3, <3>1, <3>2, SMTT(30) DEF ToSet
    <3>3. CASE i > p
      <4>1. i - 1 \in 1 .. Len(s) - 1 /\ r[i - 1] = s[i - 1 + 1]
        BY <1>1, <2>1, <2>3, <3>3
      <4>2. QED
        BY <1>1, <2>3, <3>1, <4>1 DEF ToSet
    <3>4. QED
      BY <1>1, <2>1, <2>7, <3>1, <3>2, <3>3
  <2>8. ASSUME NEW prio \in [Threads -> Int], Sorted(prio, s)
        PROVE  Sorted(prio, r)
    <3> SUFFICES ASSUME NEW i \in 1 .. Len(s) - 1, NEW j \in 1 .. Len(s) - 1,
                        i < j
                 PROVE  prio[r[i]] >= prio[r[j]]
      BY <2>3 DEF Sorted
    <3>1. \A m, n \in 1 .. Len(s) : m < n => prio[s[m]] >= prio[s[n]]
      BY <1>1, <2>8 DEF Sorted
    <3> DEFINE m == IF i < p THEN i ELSE i + 1
               n == IF j < p THEN j ELSE j + 1
    <3>2. m \in 1 .. Len(s) /\ n \in 1 .. Len(s) /\ m < n
      BY <1>1, <2>1
    <3>3. r[i] = s[m] /\ r[j] = s[n]
      BY <1>1, <2>1, <2>3
    <3>4. QED
      BY <3>1, <3>2, <3>3
  <2>9. QED
    BY <2>2, <2>3, <2>5, <2>6, <2>7, <2>8 DEF IsList
<1>4. QED
  BY <1>2, <1>3

(* The head of a list is listed; the tail is the rest. *)
LEMMA TailList ==
  ASSUME NEW s, IsList(s), s # <<>>
  PROVE  /\ Head(s) \in Threads /\ Head(s) \in ToSet(s)
         /\ IsList(Tail(s))
         /\ ToSet(Tail(s)) = ToSet(s) \ {Head(s)}
         /\ \A prio \in [Threads -> Int] :
              Sorted(prio, s) =>
                /\ Sorted(prio, Tail(s))
                /\ \A t \in ToSet(s) : prio[t] <= prio[Head(s)]
<1> DEFINE r == Tail(s)
<1>1. /\ s \in Seq(Threads) /\ Len(s) \in Nat /\ DOMAIN s = 1 .. Len(s)
      /\ Len(s) >= 1 /\ Head(s) = s[1] /\ s[1] \in Threads
      /\ \A m \in 1 .. Len(s) : s[m] \in Threads
  BY DEF IsList
<1>2. /\ r \in Seq(Threads) /\ Len(r) = Len(s) - 1
      /\ DOMAIN r = 1 .. Len(s) - 1
      /\ \A i \in 1 .. Len(s) - 1 : r[i] = s[i + 1]
  BY <1>1, HeadTailProperties
<1> HIDE DEF r
<1>3. \A m, n \in 1 .. Len(s) : s[m] = s[n] => m = n
  BY <1>1 DEF IsList, IsInjective
<1>4. IsInjective(r)
  BY <1>1, <1>2, <1>3 DEF IsInjective
<1>5. ToSet(r) \subseteq ToSet(s) \ {Head(s)}
  BY <1>1, <1>2, <1>3 DEF ToSet
<1>6. ASSUME NEW u \in ToSet(s), u # Head(s) PROVE u \in ToSet(r)
  <2>1. PICK i \in 1 .. Len(s) : u = s[i]
    BY <1>1 DEF ToSet
  <2>2. i - 1 \in 1 .. Len(s) - 1 /\ r[i - 1] = s[i - 1 + 1]
    BY <1>1, <1>2, <1>6, <2>1
  <2>3. QED
    BY <1>1, <1>2, <2>1, <2>2, SMTT(30) DEF ToSet
<1>7. ASSUME NEW prio \in [Threads -> Int], Sorted(prio, s)
      PROVE  Sorted(prio, r) /\ \A t \in ToSet(s) : prio[t] <= prio[Head(s)]
  <2>1. \A m, n \in 1 .. Len(s) : m < n => prio[s[m]] >= prio[s[n]]
    BY <1>1, <1>7 DEF Sorted
  <2>2. Sorted(prio, r)
    <3> SUFFICES ASSUME NEW i \in 1 .. Len(s) - 1, NEW j \in 1 .. Len(s) - 1,
                        i < j
                 PROVE  prio[r[i]] >= prio[r[j]]
      BY <1>2 DEF Sorted
    <3>1. i + 1 \in 1 .. Len(s) /\ j + 1 \in 1 .. Len(s) /\ i + 1 < j + 1
      BY <1>1
    <3>2. QED
      BY <1>2, <2>1, <3>1
  <2>3. ASSUME NEW t \in ToSet(s) PROVE prio[t] <= prio[Head(s)]
    <3>1. PICK i \in 1 .. Len(s) : t = s[i]
      BY <1>1 DEF ToSet
    <3>2. CASE i = 1
      BY <1>1, <3>1, <3>2
    <3>3. CASE i # 1
      BY <1>1, <2>1, <3>1, <3>3
    <3>4. QED
      BY <3>2, <3>3
  <2>4. QED
    BY <2>2, <2>3
<1>8. Head(s) \in ToSet(s)
  BY <1>1 DEF ToSet
<1>9. QED
  BY <1>1, <1>2, <1>4, <1>5, <1>6, <1>7, <1>8 DEF IsList, r

(* Inserting where everything before is at least as urgent and everything  *)
(* from there on at most as urgent keeps the list sorted.                  *)
LEMMA InsertSorted ==
  ASSUME NEW s, IsList(s), NEW prio \in [Threads -> Int], Sorted(prio, s),
         NEW p \in 1 .. Len(s) + 1, NEW t \in Threads,
         \A j \in 1 .. p - 1 : prio[s[j]] >= prio[t],
         p <= Len(s) => prio[s[p]] <= prio[t]
  PROVE  Sorted(prio, InsertAt(s, p, t))
<1> DEFINE r == InsertAt(s, p, t)
<1>1. /\ s \in Seq(Threads) /\ Len(s) \in Nat /\ DOMAIN s = 1 .. Len(s)
      /\ \A m \in 1 .. Len(s) : prio[s[m]] \in Int
  BY DEF IsList
<1>2. /\ DOMAIN r = 1 .. Len(s) + 1
      /\ \A i \in 1 .. Len(s) + 1 :
           r[i] = IF i < p THEN s[i] ELSE IF i = p THEN t ELSE s[i - 1]
  <2>1. Len(r) = Len(s) + 1 /\ r \in Seq(Threads)
    BY <1>1, InsertAtFacts
  <2>2. \A i \in 1 .. Len(s) + 1 :
          r[i] = IF i < p THEN s[i] ELSE IF i = p THEN t ELSE s[i - 1]
    BY <1>1, InsertAtFacts, SMTT(30)
  <2>3. DOMAIN r = 1 .. Len(r)
    BY <2>1
  <2>4. QED
    BY <2>1, <2>2, <2>3
<1> HIDE DEF r
<1>3. \A m, n \in 1 .. Len(s) : m < n => prio[s[m]] >= prio[s[n]]
  BY <1>1 DEF Sorted
<1>4. \A m \in p .. Len(s) : prio[s[m]] <= prio[t]
  BY <1>1, <1>3
<1> SUFFICES ASSUME NEW i \in 1 .. Len(s) + 1, NEW j \in 1 .. Len(s) + 1,
                    i < j
             PROVE  prio[r[i]] >= prio[r[j]]
  BY <1>2 DEF Sorted, r
<1>5. CASE j < p
  BY <1>1, <1>2, <1>3, <1>5
<1>6. CASE j = p
  BY <1>1, <1>2, <1>6
<1>7. CASE j > p /\ i < p
  <2>1. i \in 1 .. Len(s) /\ j - 1 \in 1 .. Len(s) /\ i < j - 1
    BY <1>1, <1>7
  <2>2. r[i] = s[i] /\ r[j] = s[j - 1]
    BY <1>1, <1>2, <1>7
  <2>3. QED
    BY <1>3, <2>1, <2>2
<1>8. CASE j > p /\ i = p
  BY <1>1, <1>2, <1>4, <1>8
<1>9. CASE j > p /\ i > p
  <2>1. i - 1 \in 1 .. Len(s) /\ j - 1 \in 1 .. Len(s) /\ i - 1 < j - 1
    BY <1>1, <1>9
  <2>2. r[i] = s[i - 1] /\ r[j] = s[j - 1]
    BY <1>1, <1>2, <1>9
  <2>3. QED
    BY <1>3, <2>1, <2>2
<1>10. QED
  BY <1>1, <1>5, <1>6, <1>7, <1>8, <1>9

(* osRtxThreadListPut and the insertion of osRtxThreadBlock. *)
LEMMA ListPutSorted ==
  ASSUME NEW s, IsList(s), NEW prio \in [Threads -> Int], Sorted(prio, s),
         NEW t \in Threads, t \notin ToSet(s),
         NEW p, p = PutPos(prio, s, t) \/
                p = ScanPos(s, {i \in DOMAIN s : prio[s[i]] <= prio[t]})
  PROVE  /\ IsList(InsertAt(s, p, t))
         /\ ToSet(InsertAt(s, p, t)) = ToSet(s) \cup {t}
         /\ Sorted(prio, InsertAt(s, p, t))
<1>1. /\ s \in Seq(Threads) /\ Len(s) \in Nat /\ DOMAIN s = 1 .. Len(s)
      /\ \A m \in 1 .. Len(s) : prio[s[m]] \in Int
      /\ prio[t] \in Int
  BY DEF IsList
<1>2. p \in 1 .. Len(s) + 1
  BY <1>1, ScanPosFacts DEF PutPos
<1>3. CASE p = PutPos(prio, s, t)
  <2> DEFINE Stop == {i \in DOMAIN s : prio[s[i]] < prio[t]}
  <2>1. p \in Stop \cup {Len(s) + 1} /\ \A j \in 1 .. p - 1 : j \notin Stop
    BY <1>1, <1>3, ScanPosFacts DEF PutPos
  <2>2. (p <= Len(s) => prio[s[p]] <= prio[t])
        /\ \A j \in 1 .. p - 1 : prio[s[j]] >= prio[t]
    BY <1>1, <1>2, <2>1
  <2>3. QED
    BY <1>1, <1>2, <2>2, InsertList, InsertSorted
<1>4. CASE p = ScanPos(s, {i \in DOMAIN s : prio[s[i]] <= prio[t]})
  <2> DEFINE Stop == {i \in DOMAIN s : prio[s[i]] <= prio[t]}
  <2>1. p \in Stop \cup {Len(s) + 1} /\ \A j \in 1 .. p - 1 : j \notin Stop
    BY <1>1, <1>4, ScanPosFacts
  <2>2. (p <= Len(s) => prio[s[p]] <= prio[t])
        /\ \A j \in 1 .. p - 1 : prio[s[j]] >= prio[t]
    BY <1>1, <1>2, <2>1
  <2>3. QED
    BY <1>1, <1>2, <2>2, InsertList, InsertSorted
<1>5. QED
  BY <1>3, <1>4

-----------------------------------------------------------------------------
(* The delay list.  Due is defined by recursion, so that it has a value at *)
(* all is shown first, by the least length for which it would not.         *)
LEMMA MinNat ==
  ASSUME NEW T, T \subseteq Nat, T # {}
  PROVE  \E i \in T : \A y \in T : ~(y < i)
<1>1. PICK i \in T : \A y \in T : ~ (<<y, i>> \in OpToRel(<, Nat))
  BY WFMin, NatLessThanWellFounded
<1>2. QED
  BY <1>1 DEF OpToRel

IsDue(g, n, delay, s) ==
  /\ g \in [0 .. n -> Int]
  /\ g[0] = 0
  /\ \A i \in 1 .. n : g[i] = g[i - 1] + delay[s[i]]

(* The sums of the first m delays of a list exist. *)
LEMMA DueExists ==
  ASSUME NEW delay \in [Threads -> Int], NEW s \in Seq(Threads),
         NEW m \in 0 .. Len(s)
  PROVE  \E g : IsDue(g, m, delay, s)
<1> DEFINE T == {n \in 0 .. Len(s) : ~ \E g : IsDue(g, n, delay, s)}
<1> SUFFICES ASSUME T # {} PROVE FALSE
  OBVIOUS
<1>1. T \subseteq Nat
  OBVIOUS
<1> HIDE DEF T
<1>2. PICK n \in T : \A y \in T : ~(y < n)
  BY <1>1, MinNat
<1>3. n \in 0 .. Len(s) /\ ~ \E g : IsDue(g, n, delay, s)
  BY DEF T
<1>4. n # 0
  <2>1. IsDue([i \in 0 .. 0 |-> 0], 0, delay, s)
    BY DEF IsDue
  <2>2. QED
    BY <1>3, <2>1
<1>5. n - 1 \in 0 .. Len(s) /\ n \in 1 .. Len(s) /\ ~(n - 1 \in T)
  BY <1>2, <1>3, <1>4
<1>6. PICK g : IsDue(g, n - 1, delay, s)
  BY <1>5 DEF T
<1> DEFINE h == [i \in 0 .. n |->
                   IF i = n THEN g[n - 1] + delay[s[n]] ELSE g[i]]
<1>7. IsDue(h, n, delay, s)
  <2>1. /\ delay[s[n]] \in Int /\ g[n - 1] \in Int
        /\ \A i \in 0 .. n - 1 : g[i] \in Int
    BY <1>5, <1>6 DEF IsDue
  <2>2. h \in [0 .. n -> Int] /\ h[0] = 0
    BY <1>4, <1>5, <1>6, <2>1 DEF IsDue
  <2>3. ASSUME NEW i \in 1 .. n PROVE h[i] = h[i - 1] + delay[s[i]]
    BY <1>5, <1>6, <2>1, SMTT(30) DEF IsDue
  <2>4. QED
    BY <2>2, <2>3 DEF IsDue
<1>8. QED
  BY <1>3, <1>7

(* Due(delay, s) is the function of these sums. *)
LEMMA DueFacts ==
  ASSUME NEW delay \in [Threads -> Int], NEW s \in Seq(Threads)
  PROVE  IsDue(Due(delay, s), Len(s), delay, s)
<1> DEFINE D(f) == [i \in 0 .. Len(s) |->
                      IF i = 0 THEN 0 ELSE f[i - 1] + delay[s[i]]]
           d == Due(delay, s)
<1>1. Len(s) \in Nat
  OBVIOUS
<1>2. PICK g : IsDue(g, Len(s), delay, s)
  BY <1>1, DueExists
<1>3. g = D(g)
  BY <1>1, <1>2 DEF IsDue
<1>4. d = CHOOSE f : f = D(f)
  BY DEF Due
<1>5. d = D(d)
  BY <1>3, <1>4
<1> HIDE DEF d
<1> DEFINE T == {i \in 0 .. Len(s) : d[i] # g[i]}
<1>6. T = {}
  <2> SUFFICES ASSUME T # {} PROVE FALSE
    OBVIOUS
  <2>1. T \subseteq Nat
    BY <1>1
  <2> HIDE DEF T
  <2>2. PICK i \in T : \A y \in T : ~(y < i)
    BY <2>1, MinNat
  <2>3. i \in 0 .. Len(s) /\ d[i] # g[i]
    BY DEF T
  <2>4. CASE i = 0
    BY <1>2, <1>5, <2>3, <2>4 DEF IsDue
  <2>5. CASE i # 0
    <3>1. i \in 1 .. Len(s) /\ i - 1 \in 0 .. Len(s) /\ i - 1 < i
      BY <1>1, <2>3, <2>5
    <3>2. d[i - 1] = g[i - 1]
      BY <2>2, <3>1 DEF T
    <3>3. d[i] = d[i - 1] + delay[s[i]]
      BY <1>5, <2>3, <2>5
    <3>4. g[i] = g[i - 1] + delay[s[i]]
      BY <1>2, <3>1 DEF IsDue
    <3>5. QED
      BY <2>3, <3>2, <3>3, <3>4
  <2>6. QED
    BY <2>4, <2>5
<1>7. \A i \in 0 .. Len(s) : d[i] = g[i]
  BY <1>6
<1>8. d \in [0 .. Len(s) -> Int]
  <2>1. \A i \in 0 .. Len(s) : g[i] \in Int
    BY <1>2 DEF IsDue
  <2>2. D(d) \in [0 .. Len(s) -> Int]
    <3>1. \A i \in 0 .. Len(s) : D(d)[i] \in Int
      BY <1>5, <1>7, <2>1
    <3>2. QED
      BY <3>1
  <2>3. QED
    BY <1>5, <2>2
<1>9. d[0] = 0 /\ \A i \in 1 .. Len(s) : d[i] = d[i - 1] + delay[s[i]]
  <2>1. 0 \in 0 .. Len(s) /\ \A i \in 1 .. Len(s) : i \in 0 .. Len(s) /\ i # 0
    BY <1>1
  <2>2. QED
    BY <1>5, <2>1
<1>10. QED
  BY <1>8, <1>9 DEF IsDue, d

-----------------------------------------------------------------------------
(* Placed(k, F): every thread outside F is in the lists its state says,    *)
(* and the threads of F, which a handler is moving, are in none.           *)
ThreadPlaced(k, t) ==
  /\ k.state[t] = "Ready" <=> t \in ToSet(k.ready)
  /\ k.state[t] \in BlockedStates <=> t \in ToSet(k.dlist) \cup k.wait
  /\ t \in k.wait => k.delay[t] = Forever /\ t \notin ToSet(k.dlist)
  /\ t \in ToSet(k.dlist) => k.delay[t] >= 0

Unlisted(k, t) ==
  t \notin ToSet(k.ready) /\ t \notin ToSet(k.dlist) /\ t \notin k.wait

ListsOK(k) ==
  IsList(k.ready) /\ Sorted(k.prio, k.ready) /\ IsList(k.dlist)

Placed(k, F) ==
  /\ k \in KernelType
  /\ ListsOK(k)
  /\ \A t \in Threads \ F : ThreadPlaced(k, t)
  /\ \A t \in Threads \cap F : Unlisted(k, t)

(* Replacing one field of a kernel value by a value of its type. *)
LEMMA FieldUpdates ==
  ASSUME NEW k \in KernelType
  PROVE  /\ \A x \in KernelStates : [k EXCEPT !.kstate = x] \in KernelType
         /\ \A x \in Threads \cup {NoThread} :
              /\ [k EXCEPT !.curr = x] \in KernelType
              /\ [k EXCEPT !.next = x] \in KernelType
         /\ \A x \in [Threads -> ThreadStates] :
              [k EXCEPT !.state = x] \in KernelType
         /\ \A x \in [Threads -> Int] :
              /\ [k EXCEPT !.prio = x] \in KernelType
              /\ [k EXCEPT !.base = x] \in KernelType
              /\ [k EXCEPT !.delay = x] \in KernelType
         /\ \A x \in [Threads -> Results] : [k EXCEPT !.ret = x] \in KernelType
         /\ \A x \in Seq(Threads) :
              /\ [k EXCEPT !.ready = x] \in KernelType
              /\ [k EXCEPT !.dlist = x] \in KernelType
         /\ \A x \in [Objects -> Seq(Threads)] :
              [k EXCEPT !.objq = x] \in KernelType
         /\ \A x \in SUBSET Threads : [k EXCEPT !.wait = x] \in KernelType
<1> DEFINE Nodes == Threads \cup {NoThread}
           States == [Threads -> ThreadStates]
           Ints == [Threads -> Int]
           Rets == [Threads -> Results]
           Lists == Seq(Threads)
           Queues == [Objects -> Seq(Threads)]
           Sets == SUBSET Threads
<1>1. KernelType =
        [kstate: KernelStates, curr: Nodes, next: Nodes, state: States,
         prio: Ints, base: Ints, delay: Ints, ret: Rets, ready: Lists,
         objq: Queues, dlist: Lists, wait: Sets]
  BY DEF KernelType
<1> HIDE DEF Nodes, States, Ints, Rets, Lists, Queues, Sets
<1>2. /\ \A x \in KernelStates : [k EXCEPT !.kstate = x] \in KernelType
      /\ \A x \in Nodes : [k EXCEPT !.curr = x] \in KernelType
      /\ \A x \in Nodes : [k EXCEPT !.next = x] \in KernelType
  BY <1>1
<1>3. /\ \A x \in States : [k EXCEPT !.state = x] \in KernelType
      /\ \A x \in Rets : [k EXCEPT !.ret = x] \in KernelType
  BY <1>1
<1>4. /\ \A x \in Ints : [k EXCEPT !.prio = x] \in KernelType
      /\ \A x \in Ints : [k EXCEPT !.base = x] \in KernelType
      /\ \A x \in Ints : [k EXCEPT !.delay = x] \in KernelType
  BY <1>1
<1>5. /\ \A x \in Lists : [k EXCEPT !.ready = x] \in KernelType
      /\ \A x \in Lists : [k EXCEPT !.dlist = x] \in KernelType
  BY <1>1
<1>6. /\ \A x \in Queues : [k EXCEPT !.objq = x] \in KernelType
      /\ \A x \in Sets : [k EXCEPT !.wait = x] \in KernelType
  BY <1>1
<1>7. QED
  BY <1>2, <1>3, <1>4, <1>5, <1>6
     DEF Nodes, States, Ints, Rets, Lists, Queues, Sets

(* What an operation that moves threads leaves alone. *)
Keeps(k, q) == q.kstate = k.kstate /\ q.curr = k.curr /\ q.prio = k.prio
SameStates(k, q) == q.next = k.next /\ q.state = k.state
SameRun(k, q) == q.next = k.next /\ q.ready = k.ready
StateSet(k, q, t, st) == q.state = [k.state EXCEPT ![t] = st]
StateSwap(k, q, c, st, h) ==
  q.state = [k.state EXCEPT ![c] = st, ![h] = "Running"]
WaitGrows(k, q, t, d) ==
  q.wait = IF d = Forever THEN k.wait \cup {t} ELSE k.wait
SameDelays(k, q) ==
  q.dlist = k.dlist /\ q.delay = k.delay /\ q.wait = k.wait

(* A moving thread put into the ready list, at a place that keeps it       *)
(* sorted, is placed.                                                      *)
LEMMA IntoReady ==
  ASSUME NEW k, NEW F, Placed(k, F), NEW t \in Threads, t \in F,
         NEW q \in KernelType, Keeps(k, q), IsList(q.ready),
         ToSet(q.ready) = ToSet(k.ready) \cup {t}, Sorted(k.prio, q.ready),
         q.dlist = k.dlist, q.wait = k.wait, q.delay = k.delay,
         q.state = [k.state EXCEPT ![t] = "Ready"]
  PROVE  Placed(q, F \ {t})
<1>1. k \in KernelType /\ ListsOK(k) /\ Unlisted(k, t)
  BY DEF Placed
<1>2. k.state \in [Threads -> ThreadStates]
  BY <1>1 DEF KernelType
<1>3. ListsOK(q)
  BY <1>1 DEF ListsOK, Keeps
<1>4. ASSUME NEW u \in Threads, u \notin F \ {t} PROVE ThreadPlaced(q, u)
  BY <1>1, <1>2, <1>4
     DEF Placed, ThreadPlaced, Unlisted, BlockedStates, WaitStates
<1>5. ASSUME NEW u \in Threads \cap (F \ {t}) PROVE Unlisted(q, u)
  BY DEF Placed, Unlisted
<1>6. QED
  BY <1>3, <1>4, <1>5 DEF Placed

(* osRtxThreadReadyPut and osRtxThreadBlock place a moving thread. *)
LEMMA ReadyPutPlaced ==
  ASSUME NEW k, NEW F, Placed(k, F), NEW t \in Threads, t \in F,
         NEW q, q = ReadyPut(k, t) \/ q = Block(k, t)
  PROVE  /\ Placed(q, F \ {t})
         /\ Keeps(k, q) /\ q.next = k.next
         /\ SameDelays(k, q)
         /\ q.state = [k.state EXCEPT ![t] = "Ready"]
         /\ ToSet(q.ready) = ToSet(k.ready) \cup {t}
<1> DEFINE p == ScanPos(k.ready,
                  {i \in DOMAIN k.ready : k.prio[k.ready[i]] <= k.prio[t]})
           P(r) == /\ IsList(r) /\ ToSet(r) = ToSet(k.ready) \cup {t}
                   /\ Sorted(k.prio, r)
<1>1. /\ k \in KernelType /\ ListsOK(k) /\ Unlisted(k, t)
      /\ k.prio \in [Threads -> Int]
  BY DEF Placed, KernelType
<1>2. P(InsertAt(k.ready, PutPos(k.prio, k.ready, t), t))
  BY <1>1, ListPutSorted DEF ListsOK, Unlisted
<1>3. P(InsertAt(k.ready, p, t))
  BY <1>1, ListPutSorted DEF ListsOK, Unlisted
<1>4. PICK r : P(r) /\ q = [k EXCEPT !.state[t] = "Ready", !.ready = r]
  <2>1. CASE q = ReadyPut(k, t)
    BY <1>2, <2>1 DEF ReadyPut, ListPut
  <2>2. CASE q = Block(k, t)
    BY <1>3, <2>2 DEF Block
  <2>3. QED
    BY <2>1, <2>2
<1> DEFINE f == [k.state EXCEPT ![t] = "Ready"]
<1>5. r \in Seq(Threads) /\ f \in [Threads -> ThreadStates]
  BY <1>1, <1>4 DEF IsList, ThreadStates, KernelType
<1>6. /\ q \in KernelType /\ Keeps(k, q) /\ q.next = k.next
      /\ q.ready = r /\ q.dlist = k.dlist /\ q.wait = k.wait
      /\ q.delay = k.delay /\ q.state = [k.state EXCEPT ![t] = "Ready"]
  <2> DEFINE m == [k EXCEPT !.state = f]
  <2>1. q = [m EXCEPT !.ready = r]
    BY <1>4
  <2>2. m \in KernelType
    <3> HIDE DEF f
    <3>1. QED
      BY <1>1, <1>5, FieldUpdates
  <2>3. q \in KernelType
    <3> HIDE DEF m
    <3>1. QED
      BY <1>5, <2>1, <2>2, FieldUpdates
  <2>4. QED
    BY <1>1, <1>4, <2>3 DEF KernelType, Keeps
<1>7. Placed(q, F \ {t})
  BY <1>4, <1>6, IntoReady
<1>8. QED
  BY <1>4, <1>6, <1>7 DEF SameDelays

(* A moving thread may be given a new state and stay in no list. *)
SetState(k, t, st) == [k EXCEPT !.state[t] = st]

(* Giving a moving thread the state st keeps every other thread placed; a  *)
(* state that belongs in no list ends its move.                            *)
LEMMA SetStatePlaced ==
  ASSUME NEW k, NEW F, Placed(k, F), NEW t \in Threads, t \in F,
         NEW st \in ThreadStates,
         NEW q, q = SetState(k, t, st)
  PROVE  /\ Placed(q, F)
         /\ st \in {"Running", "Inactive", "Terminated"} => Placed(q, F \ {t})
         /\ Keeps(k, q) /\ SameRun(k, q)
         /\ SameDelays(k, q)
         /\ StateSet(k, q, t, st)
<1>1. k \in KernelType /\ ListsOK(k) /\ Unlisted(k, t)
  BY DEF Placed
<1>2. k.state \in [Threads -> ThreadStates]
  BY <1>1 DEF KernelType
<1>3. [k.state EXCEPT ![t] = st] \in [Threads -> ThreadStates]
  BY <1>2
<1>4. q \in KernelType
  <2>1. q = [k EXCEPT !.state = [k.state EXCEPT ![t] = st]]
    BY DEF SetState
  <2>2. QED
    BY <1>1, <1>3, <2>1, FieldUpdates, ZenonT(60)
<1>5. /\ Keeps(k, q) /\ q.next = k.next /\ q.ready = k.ready
      /\ q.dlist = k.dlist /\ q.wait = k.wait /\ q.delay = k.delay
      /\ q.state = [k.state EXCEPT ![t] = st]
  BY <1>1 DEF KernelType, Keeps, SetState
<1>6. ListsOK(q)
  BY <1>1, <1>5 DEF ListsOK, Keeps
<1>7. ASSUME NEW u \in Threads, u \notin F PROVE ThreadPlaced(q, u)
  BY <1>2, <1>5, <1>7 DEF Placed, ThreadPlaced
<1>8. ASSUME NEW u \in Threads \cap F PROVE Unlisted(q, u)
  BY <1>5 DEF Placed, Unlisted
<1>9. ASSUME st \in {"Running", "Inactive", "Terminated"}
      PROVE  ThreadPlaced(q, t)
  BY <1>1, <1>2, <1>5, <1>9
     DEF ThreadPlaced, Unlisted, BlockedStates, WaitStates
<1>10. QED
  BY <1>4, <1>5, <1>6, <1>7, <1>8, <1>9
      DEF Placed, SameDelays, SameRun, StateSet

(* A thread that is in no list may start moving. *)
LEMMA FloatPlaced ==
  ASSUME NEW k, NEW F, Placed(k, F), NEW t \in Threads,
         k.state[t] \in {"Running", "Inactive", "Terminated"}
  PROVE  Placed(k, F \cup {t})
<1>1. Unlisted(k, t)
  BY DEF Placed, ThreadPlaced, Unlisted, BlockedStates, WaitStates
<1>2. QED
  BY <1>1 DEF Placed

(* Taking the head of the ready list. *)
LEMMA PopPlaced ==
  ASSUME NEW k, NEW F, Placed(k, F), k.ready # <<>>,
         NEW q, q = [k EXCEPT !.ready = Tail(@)]
  PROVE  /\ Head(k.ready) \in Threads /\ Head(k.ready) \in ToSet(k.ready)
         /\ Placed(q, F \cup {Head(k.ready)})
         /\ Keeps(k, q) /\ q.next = k.next
         /\ SameDelays(k, q) /\ q.state = k.state
         /\ ToSet(q.ready) = ToSet(k.ready) \ {Head(k.ready)}
         /\ \A u \in ToSet(k.ready) : k.prio[u] <= k.prio[Head(k.ready)]
<1> DEFINE h == Head(k.ready)
<1>1. /\ k \in KernelType /\ ListsOK(k) /\ k.prio \in [Threads -> Int]
  BY DEF Placed, KernelType
<1>2. /\ h \in Threads /\ h \in ToSet(k.ready) /\ IsList(Tail(k.ready))
      /\ ToSet(Tail(k.ready)) = ToSet(k.ready) \ {h}
      /\ Sorted(k.prio, Tail(k.ready))
      /\ \A u \in ToSet(k.ready) : k.prio[u] <= k.prio[h]
  BY <1>1, TailList DEF ListsOK
<1>3. q \in KernelType
  BY <1>1, <1>2, FieldUpdates DEF IsList
<1>4. /\ Keeps(k, q) /\ q.next = k.next /\ q.ready = Tail(k.ready)
      /\ q.dlist = k.dlist /\ q.wait = k.wait /\ q.delay = k.delay
      /\ q.state = k.state
  BY <1>1 DEF KernelType, Keeps
<1> HIDE DEF h
<1>5. ListsOK(q)
  BY <1>1, <1>2, <1>4 DEF ListsOK, Keeps
<1>6. ThreadPlaced(k, h)
  BY <1>2 DEF Placed, Unlisted
<1>7. ASSUME NEW u \in Threads, u \notin F \cup {h} PROVE ThreadPlaced(q, u)
  BY <1>2, <1>4, <1>7 DEF Placed, ThreadPlaced
<1>8. ASSUME NEW u \in Threads, u \in F \cup {h} PROVE Unlisted(q, u)
  BY <1>2, <1>4, <1>6, <1>8
     DEF Placed, ThreadPlaced, Unlisted, BlockedStates, WaitStates
<1>9. QED
  BY <1>2, <1>3, <1>4, <1>5, <1>7, <1>8 DEF Placed, SameDelays, h

-----------------------------------------------------------------------------
(* The delay list. *)

(* The head of the delay list, if there is one, is not due yet. *)
HeadPositive(k) == k.dlist # <<>> => k.delay[Head(k.dlist)] > 0

(* Where osRtxThreadDelayInsert puts a thread, what is left of its delay   *)
(* there is not negative, and its successor, if any, keeps a positive      *)
(* rest.                                                                   *)
LEMMA InsertDelays ==
  ASSUME NEW delay \in [Threads -> Int], NEW s, IsList(s), NEW d \in Nat,
         NEW i, i = ScanPos(s, {j \in DOMAIN s : Due(delay, s)[j] > d})
  PROVE  /\ i \in 1 .. Len(s) + 1
         /\ Due(delay, s)[i - 1] \in Int /\ Due(delay, s)[i - 1] <= d
         /\ i = 1 => Due(delay, s)[i - 1] = 0
         /\ i <= Len(s) => delay[s[i]] - (d - Due(delay, s)[i - 1]) > 0
<1> DEFINE g == Due(delay, s)
<1>1. s \in Seq(Threads) /\ Len(s) \in Nat /\ DOMAIN s = 1 .. Len(s)
  BY DEF IsList
<1>2. IsDue(g, Len(s), delay, s)
  BY <1>1, DueFacts
<1> HIDE DEF g
<1> DEFINE Stop == {j \in DOMAIN s : g[j] > d}
<1>3. i = ScanPos(s, Stop)
  BY DEF g
<1> HIDE DEF Stop
<1>4. /\ i \in 1 .. Len(s) + 1 /\ i \in Stop \cup {Len(s) + 1}
      /\ \A j \in 1 .. i - 1 : j \notin Stop
  <2> DEFINE p == ScanPos(s, Stop)
  <2>1. /\ p \in 1 .. Len(s) + 1 /\ p \in Stop \cup {Len(s) + 1}
        /\ \A j \in 1 .. p - 1 : j \notin Stop
    BY <1>1, ScanPosFacts
  <2> HIDE DEF p
  <2>2. i = p
    BY <1>3 DEF p
  <2>3. QED
    BY <2>1, <2>2
<1>5. \A j \in 0 .. Len(s) : g[j] \in Int
  BY <1>1, <1>2 DEF IsDue
<1>6. g[i - 1] \in Int /\ g[i - 1] <= d /\ (i = 1 => g[i - 1] = 0)
  <2>1. i - 1 \in 0 .. Len(s)
    BY <1>1, <1>4
  <2>2. CASE i = 1
    BY <1>2, <2>2 DEF IsDue
  <2>3. CASE i # 1
    <3>1. i - 1 \in 1 .. i - 1 /\ i - 1 \in DOMAIN s
      BY <1>1, <1>4, <2>3
    <3>2. ~(g[i - 1] > d)
      BY <1>4, <3>1 DEF Stop
    <3>3. QED
      BY <1>5, <2>1, <2>3, <3>2
  <2>4. QED
    BY <2>2, <2>3
<1>7. ASSUME i <= Len(s) PROVE delay[s[i]] - (d - g[i - 1]) > 0
  <2>1. i \in 1 .. Len(s) /\ i \in Stop
    BY <1>1, <1>4, <1>7
  <2>2. g[i] > d /\ g[i] = g[i - 1] + delay[s[i]]
    BY <1>2, <2>1 DEF Stop, IsDue
  <2>3. delay[s[i]] \in Int
    BY <1>1, <2>1
  <2>4. QED
    BY <1>6, <2>2, <2>3
<1>8. QED
  BY <1>4, <1>6, <1>7 DEF g

(* osRtxThreadDelayInsert places a moving thread in the delay list or in   *)
(* the wait list; a positive delay keeps the head positive.                *)
LEMMA DelayInsertPlaced ==
  ASSUME NEW k, NEW F, Placed(k, F), NEW t \in Threads, t \in F,
         k.state[t] \in BlockedStates, NEW d, d = Forever \/ d \in Nat \ {0},
         NEW q, q = DelayInsert(k, t, d)
  PROVE  /\ Placed(q, F \ {t})
         /\ Keeps(k, q) /\ q.next = k.next
         /\ q.state = k.state /\ q.ready = k.ready
         /\ WaitGrows(k, q, t, d)
         /\ HeadPositive(k) => HeadPositive(q)
<1>1. /\ k \in KernelType /\ ListsOK(k) /\ Unlisted(k, t)
      /\ k.delay \in [Threads -> Int] /\ k.wait \in SUBSET Threads
      /\ k.state \in [Threads -> ThreadStates]
  BY DEF Placed, KernelType
<1>2. CASE d = Forever
  <2> DEFINE f == [k.delay EXCEPT ![t] = Forever]
             w == k.wait \cup {t}
             m == [k EXCEPT !.delay = f]
  <2>1. q = [m EXCEPT !.wait = w]
    BY <1>2 DEF DelayInsert
  <2>2. f \in [Threads -> Int] /\ w \in SUBSET Threads
    BY <1>1 DEF Forever
  <2>3. /\ Keeps(k, q) /\ q.next = k.next /\ q.state = k.state
        /\ q.ready = k.ready /\ q.dlist = k.dlist /\ q.wait = w
        /\ q.delay = f
    BY <1>1, <2>1 DEF KernelType, Keeps
  <2>4. q \in KernelType
    <3> HIDE DEF f, w
    <3>1. m \in KernelType
      BY <1>1, <2>2, FieldUpdates
    <3> HIDE DEF m
    <3>2. QED
      BY <2>1, <2>2, <3>1, FieldUpdates
  <2>5. ListsOK(q)
    BY <1>1, <2>3 DEF ListsOK, Keeps
  <2>6. ASSUME NEW u \in Threads, u \notin F \ {t} PROVE ThreadPlaced(q, u)
    BY <1>1, <2>3, <2>6
       DEF Placed, ThreadPlaced, Unlisted, BlockedStates, WaitStates
  <2>7. ASSUME NEW u \in Threads \cap (F \ {t}) PROVE Unlisted(q, u)
    BY <2>3 DEF Placed, Unlisted
  <2>8. HeadPositive(k) => HeadPositive(q)
    <3>1. ASSUME k.dlist # <<>> PROVE Head(k.dlist) \in Threads /\ Head(k.dlist) # t
      BY <1>1, <3>1, TailList DEF ListsOK, Unlisted
    <3>2. QED
      BY <1>1, <2>3, <3>1 DEF HeadPositive
  <2>9. QED
    BY <1>2, <2>3, <2>4, <2>5, <2>6, <2>7, <2>8 DEF Placed, WaitGrows
<1>3. CASE d \in Nat \ {0}
  <2> DEFINE s == k.dlist
             i == ScanPos(s, {j \in DOMAIN s : Due(k.delay, s)[j] > d})
             rest == d - Due(k.delay, s)[i - 1]
             f == [ShortenSuccessor(k.delay, s, i, rest) EXCEPT ![t] = rest]
             r == InsertAt(s, i, t)
  <2>1. IsList(s) /\ t \notin ToSet(s)
    BY <1>1 DEF ListsOK, Unlisted
  <2>2. /\ i \in 1 .. Len(s) + 1
        /\ rest \in Int /\ rest >= 0
        /\ i = 1 => rest > 0
        /\ i <= Len(s) => k.delay[s[i]] - rest > 0
    <3>1. /\ i \in 1 .. Len(s) + 1
          /\ Due(k.delay, s)[i - 1] \in Int /\ Due(k.delay, s)[i - 1] <= d
          /\ i = 1 => Due(k.delay, s)[i - 1] = 0
          /\ i <= Len(s) => k.delay[s[i]] - (d - Due(k.delay, s)[i - 1]) > 0
      BY <1>1, <1>3, <2>1, InsertDelays
    <3> HIDE DEF i
    <3>2. QED
      BY <1>3, <3>1
  <2>3. q = [k EXCEPT !.delay = f, !.dlist = r]
    <3>1. d # Forever
      BY <1>3 DEF Forever
    <3>2. QED
      BY <3>1 DEF DelayInsert
  <2> HIDE DEF i, rest
  <2>4. IsList(r) /\ ToSet(r) = ToSet(s) \cup {t}
    BY <2>1, <2>2, InsertList
  <2>5. s \in Seq(Threads) /\ Len(s) \in Nat /\ \A j \in 1 .. Len(s) : s[j] \in Threads
    BY <2>1 DEF IsList
  <2>6. /\ f \in [Threads -> Int] /\ f[t] = rest
        /\ \A u \in Threads : u # t =>
             \/ f[u] = k.delay[u]
             \/ i <= Len(s) /\ u = s[i] /\ f[u] > 0
    <3> DEFINE e == ShortenSuccessor(k.delay, s, i, rest)
    <3>1. /\ e \in [Threads -> Int]
          /\ \A u \in Threads :
               \/ e[u] = k.delay[u]
               \/ i <= Len(s) /\ u = s[i] /\ e[u] > 0
      <4>1. CASE i <= Len(s)
        <5>1. i \in 1 .. Len(s) /\ s[i] \in Threads
          BY <2>2, <2>5, <4>1
        <5>2. e = [k.delay EXCEPT ![s[i]] = @ - rest]
          BY <4>1 DEF ShortenSuccessor
        <5> HIDE DEF e
        <5>3. k.delay[s[i]] - rest > 0 /\ k.delay[s[i]] - rest \in Int
          BY <1>1, <2>2, <4>1, <5>1
        <5>4. /\ e \in [Threads -> Int] /\ e[s[i]] = k.delay[s[i]] - rest
              /\ \A u \in Threads : u # s[i] => e[u] = k.delay[u]
          BY <1>1, <5>1, <5>2, <5>3
        <5>5. QED
          BY <4>1, <5>3, <5>4
      <4>2. CASE ~(i <= Len(s))
        <5>1. e = k.delay
          BY <4>2 DEF ShortenSuccessor
        <5> HIDE DEF e
        <5>2. QED
          BY <1>1, <5>1
      <4>3. QED
        BY <4>1, <4>2
    <3>2. f = [e EXCEPT ![t] = rest]
      OBVIOUS
    <3> HIDE DEF e, f
    <3>3. QED
      BY <2>2, <3>1, <3>2
  <2> HIDE DEF f, r
  <2>7. r \in Seq(Threads)
    BY <2>4 DEF IsList
  <2>8. /\ q \in KernelType /\ Keeps(k, q) /\ q.next = k.next
        /\ q.state = k.state /\ q.ready = k.ready /\ q.wait = k.wait
        /\ q.delay = f /\ q.dlist = r
    <3> DEFINE m == [k EXCEPT !.delay = f]
    <3>1. q = [m EXCEPT !.dlist = r]
      BY <2>3
    <3>2. m \in KernelType
      BY <1>1, <2>6, FieldUpdates
    <3>3. q \in KernelType
      <4> HIDE DEF m
      <4>1. QED
        BY <2>7, <3>1, <3>2, FieldUpdates
    <3>4. QED
      BY <1>1, <2>3, <3>3 DEF KernelType, Keeps
  <2>9. ListsOK(q)
    BY <1>1, <2>4, <2>8 DEF ListsOK, Keeps
  <2>10. ASSUME NEW u \in Threads, u \notin F \ {t} PROVE ThreadPlaced(q, u)
    <3>1. CASE u = t
      BY <1>1, <2>2, <2>4, <2>6, <2>8, <3>1
         DEF ThreadPlaced, Unlisted, BlockedStates, WaitStates
    <3>2. CASE u # t
      <4>1. ThreadPlaced(k, u)
        BY <2>10, <3>2 DEF Placed
      <4>2. i <= Len(s) /\ u = s[i] => u \in ToSet(s)
        BY <2>2, <2>5 DEF ToSet
      <4>3. QED
        BY <1>1, <2>4, <2>6, <2>8, <3>2, <4>1, <4>2 DEF ThreadPlaced
    <3>3. QED
      BY <3>1, <3>2
  <2>11. ASSUME NEW u \in Threads \cap (F \ {t}) PROVE Unlisted(q, u)
    BY <2>4, <2>8 DEF Placed, Unlisted
  <2>12. ASSUME HeadPositive(k) PROVE HeadPositive(q)
    <3>1. /\ r \in Seq(Threads) /\ Len(r) = Len(s) + 1
          /\ r[1] = IF 1 < i THEN s[1] ELSE IF 1 = i THEN t ELSE s[0]
      <4>1. 1 \in 1 .. Len(s) + 1
        BY <2>5
      <4>2. QED
        BY <2>2, <2>5, <4>1, InsertAtFacts DEF r
    <3>2. Head(r) = r[1]
      BY <2>5, <3>1
    <3>3. CASE i = 1
      BY <2>2, <2>6, <2>8, <3>1, <3>2, <3>3 DEF HeadPositive
    <3>4. CASE i # 1
      <4>1. 1 < i /\ 1 \in 1 .. Len(s) /\ s # <<>> /\ Head(s) = s[1]
        BY <2>2, <2>5, <3>4
      <4>2. s[1] \in Threads /\ s[1] # t
        BY <2>1, <2>5, <4>1 DEF ToSet
      <4>3. k.delay[s[1]] > 0
        BY <2>12, <4>1 DEF HeadPositive
      <4>4. f[s[1]] > 0
        BY <2>6, <4>2, <4>3
      <4>5. QED
        BY <2>8, <3>1, <3>2, <4>1, <4>4 DEF HeadPositive
    <3>5. QED
      BY <3>3, <3>4
  <2>13. QED
    BY <1>3, <2>8, <2>9, <2>10, <2>11, <2>12 DEF Placed, Forever, WaitGrows
<1>4. QED
  BY <1>2, <1>3

(* The head of a list after a thread is taken out of it. *)
LEMMA HeadUnlink ==
  ASSUME NEW s, IsList(s), NEW t \in ToSet(s), Unlink(s, t) # <<>>
  PROVE  \/ Head(Unlink(s, t)) = s[1] /\ 1 \in 1 .. Len(s)
         \/ /\ s[1] = t /\ 1 \in 1 .. Len(s) - 1
            /\ Head(Unlink(s, t)) = s[1 + 1]
<1> DEFINE p == CHOOSE i \in DOMAIN s : s[i] = t
           r == RemoveAt(s, p)
<1>1. s \in Seq(Threads) /\ Len(s) \in Nat /\ DOMAIN s = 1 .. Len(s)
  BY DEF IsList
<1>2. p \in 1 .. Len(s) /\ s[p] = t
  BY <1>1 DEF ToSet
<1>3. Unlink(s, t) = r
  BY DEF Unlink
<1> HIDE DEF p
<1>4. /\ r \in Seq(Threads) /\ Len(r) = Len(s) - 1
      /\ \A i \in 1 .. Len(s) - 1 : r[i] = IF i < p THEN s[i] ELSE s[i + 1]
  BY <1>1, <1>2, RemoveAtFacts
<1> HIDE DEF r
<1>5. r # <<>> /\ Head(r) = r[1] /\ 1 \in 1 .. Len(s) - 1 /\ 1 \in 1 .. Len(s)
  BY <1>1, <1>3, <1>4
<1>6. CASE p = 1
  BY <1>1, <1>2, <1>3, <1>4, <1>5, <1>6
<1>7. CASE p # 1
  BY <1>1, <1>2, <1>3, <1>4, <1>5, <1>7
<1>8. QED
  BY <1>6, <1>7

(* osRtxThreadDelayRemove takes a blocked thread out of the delay list or  *)
(* out of the wait list, and no other.                                     *)
LEMMA DelayRemovePlaced ==
  ASSUME NEW k, NEW F, Placed(k, F), NEW t \in Threads, t \notin F,
         k.state[t] \in BlockedStates,
         NEW q, q = DelayRemove(k, t)
  PROVE  /\ Placed(q, F \cup {t})
         /\ Keeps(k, q) /\ q.next = k.next
         /\ q.state = k.state /\ q.ready = k.ready
         /\ q.wait = k.wait \ {t}
         /\ HeadPositive(k) => HeadPositive(q)
<1>1. /\ k \in KernelType /\ ListsOK(k) /\ ThreadPlaced(k, t)
      /\ k.delay \in [Threads -> Int] /\ k.wait \in SUBSET Threads
      /\ k.state \in [Threads -> ThreadStates]
  BY DEF Placed, KernelType
<1>2. t \notin ToSet(k.ready)
  BY <1>1 DEF ThreadPlaced, BlockedStates, WaitStates
<1>3. CASE k.delay[t] = Forever
  <2> DEFINE w == k.wait \ {t}
  <2>1. q = [k EXCEPT !.wait = w]
    BY <1>3 DEF DelayRemove
  <2>2. w \in SUBSET Threads
    BY <1>1
  <2>3. /\ Keeps(k, q) /\ q.next = k.next /\ q.state = k.state
        /\ q.ready = k.ready /\ q.dlist = k.dlist /\ q.wait = w
        /\ q.delay = k.delay
    BY <1>1, <2>1 DEF KernelType, Keeps
  <2>4. q \in KernelType
    <3> HIDE DEF w
    <3>1. QED
      BY <1>1, <2>1, <2>2, FieldUpdates
  <2>5. ListsOK(q)
    BY <1>1, <2>3 DEF ListsOK, Keeps
  <2>6. t \notin ToSet(k.dlist)
    BY <1>1, <1>3 DEF ThreadPlaced, Forever
  <2>7. ASSUME NEW u \in Threads, u \notin F \cup {t} PROVE ThreadPlaced(q, u)
    BY <2>3, <2>7 DEF Placed, ThreadPlaced
  <2>8. ASSUME NEW u \in Threads, u \in F \cup {t} PROVE Unlisted(q, u)
    BY <1>2, <2>3, <2>6, <2>8 DEF Placed, Unlisted
  <2>9. HeadPositive(k) => HeadPositive(q)
    BY <2>3 DEF HeadPositive
  <2>10. QED
    BY <2>3, <2>4, <2>5, <2>7, <2>8, <2>9 DEF Placed
<1>4. CASE k.delay[t] # Forever
  <2> DEFINE s == k.dlist
             f == ExtendSuccessor(k.delay, s, t)
             r == Unlink(s, t)
             m == [k EXCEPT !.delay = f]
  <2>1. q = [k EXCEPT !.delay = f, !.dlist = r] /\ q = [m EXCEPT !.dlist = r]
    BY <1>4 DEF DelayRemove
  <2>2. t \in ToSet(s) /\ t \notin k.wait /\ k.delay[t] >= 0
    BY <1>1, <1>4 DEF ThreadPlaced
  <2>3. IsList(s) /\ IsList(r) /\ ToSet(r) = ToSet(s) \ {t}
    BY <1>1, UnlinkList DEF ListsOK
  <2>4. /\ f \in [Threads -> Int]
        /\ \A u \in Threads : f[u] >= k.delay[u]
        /\ \A i \in 1 .. Len(s) - 1 :
             s[i] = t => f[s[i + 1]] = k.delay[s[i + 1]] + k.delay[t]
        /\ \A u \in Threads \ ToSet(s) : f[u] = k.delay[u]
    <3>1. s \in Seq(Threads) /\ Len(s) \in Nat /\ DOMAIN s = 1 .. Len(s)
      BY <2>3 DEF IsList
    <3>2. \A i \in 1 .. Len(s) - 1 :
            i + 1 \in 1 .. Len(s) /\ s[i + 1] \in Threads
      BY <3>1
    <3>3. f = [u \in Threads |->
                 IF \E i \in 1 .. Len(s) - 1 : s[i] = t /\ s[i + 1] = u
                   THEN k.delay[u] + k.delay[t] ELSE k.delay[u]]
      BY <1>1 DEF ExtendSuccessor
    <3> HIDE DEF f
    <3>4. f \in [Threads -> Int] /\ \A u \in Threads : f[u] >= k.delay[u]
      BY <1>1, <2>2, <3>3
    <3>5. ASSUME NEW i \in 1 .. Len(s) - 1, s[i] = t
          PROVE  f[s[i + 1]] = k.delay[s[i + 1]] + k.delay[t]
      BY <3>2, <3>3, <3>5
    <3>6. ASSUME NEW u \in Threads \ ToSet(s) PROVE f[u] = k.delay[u]
      <4>1. ~ \E i \in 1 .. Len(s) - 1 : s[i] = t /\ s[i + 1] = u
        BY <3>1, <3>2 DEF ToSet
      <4>2. QED
        BY <3>3, <4>1
    <3>7. QED
      BY <3>4, <3>5, <3>6
  <2>5. /\ Keeps(k, q) /\ q.next = k.next /\ q.state = k.state
        /\ q.ready = k.ready /\ q.dlist = r /\ q.wait = k.wait
        /\ q.delay = f
    BY <1>1, <2>1 DEF KernelType, Keeps
  <2> HIDE DEF f, r
  <2>6. q \in KernelType
    <3>1. m \in KernelType
      BY <1>1, <2>4, FieldUpdates
    <3> HIDE DEF m
    <3>2. QED
      BY <2>1, <2>3, <3>1, FieldUpdates, ZenonT(60) DEF IsList
  <2>7. ListsOK(q)
    BY <1>1, <2>3, <2>5 DEF ListsOK, Keeps
  <2>8. ASSUME NEW u \in Threads, u \notin F \cup {t} PROVE ThreadPlaced(q, u)
    <3>1. ThreadPlaced(k, u)
      BY <2>8 DEF Placed
    <3>2. u \in k.wait => q.delay[u] = Forever
      BY <2>4, <2>5, <3>1 DEF ThreadPlaced
    <3>3. u \in ToSet(s) => q.delay[u] >= 0
      BY <1>1, <2>4, <2>5, <3>1 DEF ThreadPlaced
    <3>4. QED
      BY <2>3, <2>5, <2>8, <3>1, <3>2, <3>3 DEF ThreadPlaced
  <2>9. ASSUME NEW u \in Threads, u \in F \cup {t} PROVE Unlisted(q, u)
    BY <1>2, <2>2, <2>3, <2>5, <2>9 DEF Placed, Unlisted
  <2>10. ASSUME HeadPositive(k) PROVE HeadPositive(q)
    <3>1. SUFFICES ASSUME r # <<>> PROVE f[Head(r)] > 0
      BY <2>5 DEF HeadPositive
    <3>2. s \in Seq(Threads) /\ Len(s) \in Nat
      BY <2>3 DEF IsList
    <3>3. /\ 1 \in 1 .. Len(s) /\ s # <<>> /\ Head(s) = s[1]
          /\ \/ Head(r) = s[1]
             \/ /\ s[1] = t /\ 1 \in 1 .. Len(s) - 1
                /\ Head(r) = s[1 + 1]
      <4>1. \/ Head(r) = s[1] /\ 1 \in 1 .. Len(s)
            \/ /\ s[1] = t /\ 1 \in 1 .. Len(s) - 1
               /\ Head(r) = s[1 + 1]
        BY <2>2, <2>3, <3>1, HeadUnlink DEF r
      <4>2. 1 \in 1 .. Len(s)
        BY <3>2, <4>1
      <4>3. QED
        BY <3>2, <4>1, <4>2
    <3>4. k.delay[s[1]] > 0 /\ s[1] \in Threads
      BY <2>10, <3>2, <3>3 DEF HeadPositive
    <3>5. CASE Head(r) = s[1]
      BY <1>1, <2>4, <3>4, <3>5
    <3>6. CASE s[1] = t /\ 1 \in 1 .. Len(s) - 1 /\ Head(r) = s[1 + 1]
      <4>1. 1 + 1 \in 1 .. Len(s) /\ s[1 + 1] \in Threads
        BY <3>2, <3>6
      <4>2. s[1 + 1] \in ToSet(s) /\ s[1 + 1] \notin k.wait
        <5>1. s[1 + 1] \in ToSet(s)
          BY <3>2, <4>1 DEF ToSet
        <5>2. s[1 + 1] \in F => Unlisted(k, s[1 + 1])
          BY <4>1 DEF Placed
        <5>3. QED
          BY <4>1, <5>1, <5>2 DEF Placed, ThreadPlaced, Unlisted
      <4>3. k.delay[s[1 + 1]] >= 0
        BY <4>1, <4>2 DEF Placed, ThreadPlaced, Unlisted
      <4>4. f[s[1 + 1]] = k.delay[s[1 + 1]] + k.delay[t]
        BY <2>4, <3>6
      <4>5. QED
        BY <1>1, <3>4, <3>6, <4>1, <4>3, <4>4
    <3>7. QED
      BY <3>3, <3>5, <3>6
  <2>11. QED
    BY <2>2, <2>5, <2>6, <2>7, <2>8, <2>9, <2>10 DEF Placed
<1>5. QED
  BY <1>3, <1>4

-----------------------------------------------------------------------------
(* Lists of waiting threads. *)

(* The queues of the objects stay lists of threads. *)
LEMMA UnlinkSeq ==
  ASSUME NEW s \in Seq(Threads), NEW t
  PROVE  Unlink(s, t) \in Seq(Threads)
<1> DEFINE p == CHOOSE i \in DOMAIN s : s[i] = t
<1>1. CASE t \in ToSet(s)
  <2>1. p \in 1 .. Len(s)
    BY <1>1 DEF ToSet
  <2>2. Unlink(s, t) = RemoveAt(s, p)
    BY <1>1 DEF Unlink
  <2> HIDE DEF p
  <2>3. QED
    BY <2>1, <2>2, RemoveAtFacts
<1>2. CASE t \notin ToSet(s)
  BY <1>2 DEF Unlink
<1>3. QED
  BY <1>1, <1>2

(* Sorting a thread in again gives a list of threads. *)
LEMMA ResortSeq ==
  ASSUME NEW s \in Seq(Threads), NEW t \in Threads, NEW prio
  PROVE  Resort(prio, s, t) \in Seq(Threads)
<1> DEFINE u == Unlink(s, t)
           Stop == {i \in DOMAIN u : prio[u[i]] < prio[t]}
<1>1. u \in Seq(Threads)
  BY UnlinkSeq
<1>2. PutPos(prio, u, t) = ScanPos(u, Stop)
  BY DEF PutPos
<1> HIDE DEF u, Stop
<1>3. ScanPos(u, Stop) \in 1 .. Len(u) + 1
  BY <1>1, ScanPosFacts
<1>4. InsertAt(u, PutPos(prio, u, t), t) \in Seq(Threads)
  BY <1>1, <1>2, <1>3, InsertAtFacts
<1>5. QED
  BY <1>4 DEF Resort, ListPut, u

(* A sorted list in which one thread's priority has changed is sorted      *)
(* again by taking this thread out and putting it back.                    *)
LEMMA ResortSorted ==
  ASSUME NEW s, IsList(s), NEW prio \in [Threads -> Int], Sorted(prio, s),
         NEW t \in Threads, NEW p \in Int,
         NEW new, new = [prio EXCEPT ![t] = p]
  PROVE  /\ IsList(Resort(new, s, t)) /\ ToSet(Resort(new, s, t)) = ToSet(s)
         /\ Sorted(new, Resort(new, s, t))
<1> DEFINE u == Unlink(s, t)
<1>1. /\ IsList(u) /\ ToSet(u) = ToSet(s) \ {t} /\ Sorted(prio, u)
      /\ new \in [Threads -> Int]
  BY UnlinkList
<1> HIDE DEF u
<1>2. u \in Seq(Threads) /\ Len(u) \in Nat /\ DOMAIN u = 1 .. Len(u)
  BY <1>1 DEF IsList
<1>3. \A i \in DOMAIN u : u[i] \in Threads /\ u[i] # t
  <2>1. \A i \in DOMAIN u : u[i] \in Threads /\ u[i] \in ToSet(u)
    BY <1>2 DEF ToSet
  <2>2. QED
    BY <1>1, <2>1
<1>4. Sorted(new, u)
  BY <1>1, <1>3 DEF Sorted
<1>5. CASE t \in ToSet(s)
  <2> DEFINE r == InsertAt(u, PutPos(new, u, t), t)
  <2>1. IsList(r) /\ ToSet(r) = ToSet(u) \cup {t} /\ Sorted(new, r)
    BY <1>1, <1>4, ListPutSorted
  <2>2. Resort(new, s, t) = r
    BY <1>5 DEF Resort, ListPut, u
  <2> HIDE DEF r
  <2>3. QED
    BY <1>1, <1>5, <2>1, <2>2
<1>6. CASE t \notin ToSet(s)
  <2>1. Resort(new, s, t) = s /\ u = s
    BY <1>6 DEF Resort, Unlink, u
  <2>2. QED
    BY <1>1, <1>4, <2>1
<1>7. QED
  BY <1>5, <1>6

(* osRtxThreadListRemove takes a ready thread out of the ready list and    *)
(* leaves the ready list alone for any other thread.                       *)
LEMMA ListRemovePlaced ==
  ASSUME NEW k, NEW F, Placed(k, F), NEW t \in Threads, t \notin F,
         NEW q, q = ListRemove(k, t)
  PROVE  /\ Placed(q, IF k.state[t] = "Ready" THEN F \cup {t} ELSE F)
         /\ ToSet(q.ready) = ToSet(k.ready) \ {t}
         /\ Keeps(k, q) /\ SameStates(k, q) /\ SameDelays(k, q)
<1> DEFINE r == Unlink(k.ready, t)
           g == [o \in Objects |-> Unlink(k.objq[o], t)]
           m == [k EXCEPT !.ready = r]
<1>1. /\ k \in KernelType /\ ListsOK(k) /\ ThreadPlaced(k, t)
      /\ k.prio \in [Threads -> Int] /\ k.objq \in [Objects -> Seq(Threads)]
  BY DEF Placed, KernelType
<1>2. IsList(r) /\ ToSet(r) = ToSet(k.ready) \ {t} /\ Sorted(k.prio, r)
  BY <1>1, UnlinkList DEF ListsOK
<1>3. g \in [Objects -> Seq(Threads)]
  BY <1>1, UnlinkSeq
<1>4. q = [m EXCEPT !.objq = g]
  BY DEF ListRemove
<1>5. /\ q.ready = r /\ Keeps(k, q) /\ q.next = k.next /\ q.state = k.state
      /\ q.dlist = k.dlist /\ q.delay = k.delay /\ q.wait = k.wait
  BY <1>1, <1>4 DEF KernelType, Keeps
<1> HIDE DEF r, g
<1>6. q \in KernelType
  <2>1. m \in KernelType
    BY <1>1, <1>2, FieldUpdates DEF IsList
  <2> HIDE DEF m
  <2>2. QED
    BY <1>3, <1>4, <2>1, FieldUpdates
<1>7. ListsOK(q)
  BY <1>1, <1>2, <1>5 DEF ListsOK, Keeps
<1>8. ASSUME NEW u \in Threads, u \notin F, u # t PROVE ThreadPlaced(q, u)
  BY <1>2, <1>5, <1>8 DEF Placed, ThreadPlaced
<1>9. ASSUME NEW u \in Threads \cap F PROVE Unlisted(q, u)
  BY <1>2, <1>5 DEF Placed, Unlisted
<1>10. k.state[t] = "Ready" => Unlisted(q, t)
  BY <1>1, <1>2, <1>5 DEF ThreadPlaced, Unlisted, BlockedStates, WaitStates
<1>11. k.state[t] # "Ready" => ThreadPlaced(q, t)
  BY <1>1, <1>2, <1>5 DEF ThreadPlaced
<1>12. k.state[t] = "Ready" => Placed(q, F \cup {t})
  BY <1>6, <1>7, <1>8, <1>9, <1>10 DEF Placed
<1>13. k.state[t] # "Ready" => Placed(q, F)
  BY <1>6, <1>7, <1>8, <1>9, <1>11 DEF Placed
<1>14. QED
  <2>1. Placed(q, IF k.state[t] = "Ready" THEN F \cup {t} ELSE F)
    BY <1>12, <1>13
  <2>2. QED
    BY <1>2, <1>5, <2>1 DEF SameDelays, SameStates

(* A change of priority followed by osRtxThreadListSort. *)
SetPrio(k, t, p) == [k EXCEPT !.prio[t] = p, !.base[t] = p]

(* svcRtxThreadSetPriority up to its dispatch: after a new priority and    *)
(* osRtxThreadListSort the lists are sorted again and no thread has moved  *)
(* between them.                                                           *)
LEMMA ListSortPlaced ==
  ASSUME NEW k, NEW F, Placed(k, F), NEW t \in Threads, NEW p \in Int,
         NEW q, q = ListSort(SetPrio(k, t, p), t)
  PROVE  /\ Placed(q, F) /\ q.kstate = k.kstate /\ q.curr = k.curr
         /\ SameStates(k, q) /\ SameDelays(k, q)
<1> DEFINE new == [k.prio EXCEPT ![t] = p]
           base == [k.base EXCEPT ![t] = p]
           r == Resort(new, k.ready, t)
           g == [o \in Objects |-> Resort(new, k.objq[o], t)]
           m1 == [k EXCEPT !.prio = new]
           m2 == [m1 EXCEPT !.base = base]
           m3 == [m2 EXCEPT !.ready = r]
<1>1. /\ k \in KernelType /\ ListsOK(k)
      /\ k.prio \in [Threads -> Int] /\ k.base \in [Threads -> Int]
      /\ k.objq \in [Objects -> Seq(Threads)]
  BY DEF Placed, KernelType
<1>2. new \in [Threads -> Int] /\ base \in [Threads -> Int]
  BY <1>1
<1>3. q = [m3 EXCEPT !.objq = g]
  <2>1. SetPrio(k, t, p) = m2
    BY DEF SetPrio
  <2>2. m2.prio = new /\ m2.objq = k.objq /\ m2.ready = k.ready
    BY <1>1 DEF KernelType
  <2> HIDE DEF m2, new
  <2>3. ListSort(m2, t) = [m3 EXCEPT !.objq = g]
    BY <2>2 DEF ListSort
  <2>4. QED
    BY <2>1, <2>3
<1>4. /\ q.kstate = k.kstate /\ q.curr = k.curr /\ q.prio = new
      /\ q.ready = r /\ q.next = k.next /\ q.state = k.state
      /\ q.dlist = k.dlist /\ q.delay = k.delay /\ q.wait = k.wait
  <2> HIDE DEF new, base, r, g
  <2>1. QED
    BY <1>1, <1>3 DEF KernelType
<1>5. IsList(r) /\ ToSet(r) = ToSet(k.ready) /\ Sorted(new, r)
  BY <1>1, ResortSorted DEF ListsOK
<1>6. g \in [Objects -> Seq(Threads)]
  <2> HIDE DEF new
  <2>1. QED
    BY <1>1, ResortSeq
<1> HIDE DEF new, base, r, g
<1>7. q \in KernelType
  <2>1. m1 \in KernelType
    BY <1>1, <1>2, FieldUpdates
  <2> HIDE DEF m1
  <2>2. m2 \in KernelType
    BY <1>2, <2>1, FieldUpdates
  <2> HIDE DEF m2
  <2>3. m3 \in KernelType
    BY <1>5, <2>2, FieldUpdates DEF IsList
  <2> HIDE DEF m3
  <2>4. QED
    BY <1>3, <1>6, <2>3, FieldUpdates
<1>8. ListsOK(q)
  BY <1>1, <1>4, <1>5 DEF ListsOK
<1>9. ASSUME NEW u \in Threads, u \notin F PROVE ThreadPlaced(q, u)
  BY <1>4, <1>5, <1>9 DEF Placed, ThreadPlaced
<1>10. ASSUME NEW u \in Threads \cap F PROVE Unlisted(q, u)
  BY <1>4, <1>5 DEF Placed, Unlisted
<1>11. QED
  BY <1>4, <1>5, <1>7, <1>8, <1>9, <1>10 DEF Placed, SameDelays, SameStates

-----------------------------------------------------------------------------
(* Dispatching. *)

(* Exactly the thread that will run is in state Running, and no ready      *)
(* thread has a higher priority.                                           *)
OneRuns(k) == \A t \in Threads : k.state[t] = "Running" <=> t = k.next
TopRuns(k) == \A t \in ToSet(k.ready) : k.prio[t] <= k.prio[k.next]

(* Threads only change between Ready and Running. *)
Runnable == {"Ready", "Running"}
SameBlocked(k, q) ==
  \A t \in Threads : \/ q.state[t] = k.state[t]
                     \/ q.state[t] \in Runnable /\ k.state[t] \in Runnable

(* osRtxThreadSwitch *)
LEMMA SwitchPlaced ==
  ASSUME NEW k, NEW F, Placed(k, F), NEW t \in Threads, t \in F,
         NEW q, q = Switch(k, t)
  PROVE  /\ Placed(q, F \ {t}) /\ Keeps(k, q) /\ q.next = t
         /\ q.ready = k.ready /\ SameDelays(k, q)
         /\ q.state = [k.state EXCEPT ![t] = "Running"]
<1> DEFINE m == [k EXCEPT !.state[t] = "Running"]
<1>1. q = [m EXCEPT !.next = t]
  BY DEF Switch
<1>2. /\ Placed(m, F \ {t}) /\ Keeps(k, m) /\ m.ready = k.ready
      /\ SameDelays(k, m) /\ m.state = [k.state EXCEPT ![t] = "Running"]
  <2> DEFINE st == "Running"
  <2>1. st \in ThreadStates /\ st \in {"Running", "Inactive", "Terminated"}
    BY DEF ThreadStates
  <2>2. m = SetState(k, t, st)
    BY DEF SetState
  <2> HIDE DEF m, st
  <2>3. /\ Placed(m, F \ {t}) /\ Keeps(k, m) /\ SameRun(k, m)
        /\ SameDelays(k, m) /\ StateSet(k, m, t, st)
    BY <2>1, <2>2, SetStatePlaced
  <2>4. QED
    BY <2>3 DEF st, StateSet, SameRun
<1> HIDE DEF m
<1>3. m \in KernelType
  BY <1>2 DEF Placed
<1>4. q \in KernelType
  BY <1>1, <1>3, FieldUpdates
<1>5. /\ q.kstate = m.kstate /\ q.curr = m.curr /\ q.prio = m.prio
      /\ q.next = t /\ q.ready = m.ready /\ q.dlist = m.dlist
      /\ q.delay = m.delay /\ q.wait = m.wait /\ q.state = m.state
  BY <1>1, <1>3 DEF KernelType
<1>6. Placed(q, F \ {t})
  BY <1>2, <1>4, <1>5 DEF Placed, ListsOK, ThreadPlaced, Unlisted
<1>7. QED
  BY <1>2, <1>5, <1>6 DEF Keeps, SameDelays

(* The head of the ready list becomes the running thread. *)
LEMMA SwitchToReadyPlaced ==
  ASSUME NEW k, NEW F, Placed(k, F), k.ready # <<>>,
         NEW q, q = SwitchToReady(k)
  PROVE  /\ Head(k.ready) \in Threads \ F /\ k.state[Head(k.ready)] = "Ready"
         /\ Placed(q, F) /\ Keeps(k, q) /\ q.next = Head(k.ready)
         /\ SameDelays(k, q)
         /\ q.state = [k.state EXCEPT ![Head(k.ready)] = "Running"]
         /\ ToSet(q.ready) = ToSet(k.ready) \ {Head(k.ready)}
         /\ TopRuns(q)
<1> DEFINE h == Head(k.ready)
           m == [k EXCEPT !.ready = Tail(@)]
<1>1. /\ h \in Threads /\ h \in ToSet(k.ready) /\ Placed(m, F \cup {h})
      /\ Keeps(k, m) /\ SameDelays(k, m) /\ m.state = k.state
      /\ ToSet(m.ready) = ToSet(k.ready) \ {h}
      /\ \A u \in ToSet(k.ready) : k.prio[u] <= k.prio[h]
  <2>1. m = [k EXCEPT !.ready = Tail(@)]
    OBVIOUS
  <2> HIDE DEF m
  <2>2. QED
    BY <2>1, PopPlaced
<1>2. q = Switch(m, h)
  BY DEF SwitchToReady
<1> HIDE DEF h, m
<1>3. h \notin F /\ k.state[h] = "Ready"
  BY <1>1 DEF Placed, ThreadPlaced, Unlisted
<1>4. /\ Placed(q, (F \cup {h}) \ {h}) /\ Keeps(m, q) /\ q.next = h
      /\ q.ready = m.ready /\ SameDelays(m, q)
      /\ q.state = [m.state EXCEPT ![h] = "Running"]
  <2> DEFINE G == F \cup {h}
  <2>1. h \in Threads /\ h \in G /\ Placed(m, G)
    BY <1>1
  <2> HIDE DEF G
  <2>2. /\ Placed(q, G \ {h}) /\ Keeps(m, q) /\ q.next = h
        /\ q.ready = m.ready /\ SameDelays(m, q)
        /\ q.state = [m.state EXCEPT ![h] = "Running"]
    BY <1>2, <2>1, SwitchPlaced
  <2>3. QED
    BY <2>2 DEF G
<1>5. (F \cup {h}) \ {h} = F
  BY <1>3
<1>6. TopRuns(q)
  BY <1>1, <1>4 DEF TopRuns, Keeps
<1>7. QED
  BY <1>1, <1>3, <1>4, <1>5, <1>6 DEF Keeps, SameDelays, h

(* The preempted thread curr is put back and t, which is moving, runs. *)
LEMMA PreemptPlaced ==
  ASSUME NEW k, NEW F, Placed(k, F), NEW t \in Threads, t \in F,
         NEW c \in Threads, c # t, c \notin F,
         k.state[c] = "Running",
         \A u \in ToSet(k.ready) : k.prio[u] <= k.prio[t],
         k.prio[c] <= k.prio[t],
         NEW q, q = Switch(Block(k, c), t) \/ q = Switch(ReadyPut(k, c), t)
  PROVE  /\ Placed(q, F \ {t}) /\ Keeps(k, q) /\ q.next = t
         /\ SameDelays(k, q) /\ TopRuns(q)
         /\ q.state = [k.state EXCEPT ![c] = "Ready", ![t] = "Running"]
<1>1. Placed(k, F \cup {c})
  BY FloatPlaced
<1>2. PICK m : /\ m = Block(k, c) \/ m = ReadyPut(k, c)
               /\ q = Switch(m, t)
  OBVIOUS
<1>3. /\ Placed(m, (F \cup {c}) \ {c}) /\ Keeps(k, m) /\ SameDelays(k, m)
      /\ m.state = [k.state EXCEPT ![c] = "Ready"]
      /\ ToSet(m.ready) = ToSet(k.ready) \cup {c}
  <2> DEFINE G == F \cup {c}
  <2>1. c \in G /\ Placed(k, G) /\ (m = ReadyPut(k, c) \/ m = Block(k, c))
    BY <1>1, <1>2
  <2> HIDE DEF G
  <2>2. /\ Placed(m, G \ {c}) /\ Keeps(k, m) /\ SameDelays(k, m)
        /\ m.state = [k.state EXCEPT ![c] = "Ready"]
        /\ ToSet(m.ready) = ToSet(k.ready) \cup {c}
    BY ONLY <2>1, c \in Threads, ReadyPutPlaced
  <2>3. QED
    BY <2>2 DEF G
<1>4. (F \cup {c}) \ {c} = F
  OBVIOUS
<1>5. /\ Placed(q, F \ {t}) /\ Keeps(m, q) /\ q.next = t
      /\ q.ready = m.ready /\ SameDelays(m, q)
      /\ q.state = [m.state EXCEPT ![t] = "Running"]
  BY <1>2, <1>3, <1>4, SwitchPlaced
<1>6. TopRuns(q)
  BY <1>3, <1>5 DEF TopRuns, Keeps
<1>7. QED
  BY <1>3, <1>5, <1>6 DEF Keeps, SameDelays

(* osRtxThreadDispatch(NULL) *)
LEMMA DispatchReadyPlaced ==
  ASSUME NEW k, NEW F, F \subseteq Threads, Placed(k, F), OneRuns(k),
         k.next = k.curr, k.curr \notin F, NEW q, q = DispatchReady(k)
  PROVE  /\ Placed(q, F) /\ OneRuns(q) /\ Keeps(k, q)
         /\ SameDelays(k, q) /\ SameBlocked(k, q)
         /\ \A u \in F : q.state[u] = k.state[u]
         /\ k.curr \in Threads => q.next \in Threads
         /\ k.curr \notin Threads => q = k
         /\ k.kstate = "Running" /\ k.curr \in Threads => TopRuns(q)
<1>1. /\ k \in KernelType /\ k.state \in [Threads -> ThreadStates]
      /\ k.prio \in [Threads -> Int] /\ ListsOK(k)
      /\ k.curr \in Threads \cup {NoThread}
  BY DEF Placed, KernelType
<1>2. CASE k.ready # <<>> /\ CanPreempt(k, Head(k.ready))
  <2> DEFINE h == Head(k.ready)
             m == [k EXCEPT !.ready = Tail(@)]
             G == F \cup {h}
  <2>1. q = Switch(Block(m, k.curr), h)
    BY <1>2 DEF DispatchReady
  <2>2. /\ h \in Threads /\ h \in ToSet(k.ready) /\ Placed(m, G)
        /\ Keeps(k, m) /\ SameDelays(k, m) /\ m.state = k.state
        /\ ToSet(m.ready) = ToSet(k.ready) \ {h}
        /\ \A u \in ToSet(k.ready) : k.prio[u] <= k.prio[h]
    <3>1. m = [k EXCEPT !.ready = Tail(@)]
      OBVIOUS
    <3> HIDE DEF m
    <3>2. QED
      BY <1>2, <3>1, PopPlaced
  <2>3. k.curr \in Threads /\ k.prio[h] > k.prio[k.curr]
    BY <1>1, <1>2 DEF CanPreempt
  <2> HIDE DEF h, m
  <2>4. /\ k.state[k.curr] = "Running" /\ k.state[h] = "Ready" /\ k.curr # h
        /\ h \notin F
    BY <2>2, <2>3 DEF OneRuns, Placed, ThreadPlaced, Unlisted
  <2>5. k.prio[k.curr] <= k.prio[h]
    BY <1>1, <2>2, <2>3
  <2>6. /\ Placed(q, G \ {h}) /\ Keeps(m, q) /\ q.next = h
        /\ SameDelays(m, q) /\ TopRuns(q)
        /\ q.state = [m.state EXCEPT ![k.curr] = "Ready", ![h] = "Running"]
    <3>1. Placed(m, G) /\ h \in G /\ k.curr \notin G
      BY <2>2, <2>4
    <3>2. /\ m.prio = k.prio /\ m.state[k.curr] = "Running"
          /\ \A u \in ToSet(m.ready) : m.prio[u] <= m.prio[h]
          /\ m.prio[k.curr] <= m.prio[h]
      BY <2>2, <2>4, <2>5 DEF Keeps
    <3>3. h \in Threads
      BY <2>2
    <3> HIDE DEF G
    <3>4. QED
      BY <2>1, <2>3, <2>4, <3>1, <3>2, <3>3, PreemptPlaced
  <2>7. G \ {h} = F
    BY <2>4
  <2>8. /\ OneRuns(q) /\ SameBlocked(k, q)
        /\ \A u \in F : q.state[u] = k.state[u]
    BY <1>1, <2>2, <2>3, <2>4, <2>6 DEF OneRuns, SameBlocked, Runnable
  <2>9. QED
    BY <2>2, <2>3, <2>6, <2>7, <2>8 DEF Keeps, SameDelays
<1>3. CASE ~(k.ready # <<>> /\ CanPreempt(k, Head(k.ready)))
  <2>1. q = k
    BY <1>3 DEF DispatchReady
  <2>2. ASSUME k.kstate = "Running", k.curr \in Threads PROVE TopRuns(k)
    <3>1. CASE k.ready = <<>>
      BY <3>1 DEF TopRuns, ToSet
    <3>2. CASE k.ready # <<>>
      <4>1. /\ Head(k.ready) \in Threads
            /\ \A u \in ToSet(k.ready) : k.prio[u] <= k.prio[Head(k.ready)]
        BY <1>1, <3>2, TailList DEF ListsOK
      <4>2. ~(k.prio[Head(k.ready)] > k.prio[k.curr])
        BY <1>3, <2>2, <3>2, NoThreadNotThread DEF CanPreempt
      <4>3. \A u \in ToSet(k.ready) : u \in Threads
        BY <1>1 DEF ListsOK, IsList, ToSet
      <4> DEFINE h == Head(k.ready)
      <4> HIDE DEF h
      <4>4. h \in Threads /\ ~(k.prio[h] > k.prio[k.curr])
            /\ \A u \in ToSet(k.ready) : k.prio[u] <= k.prio[h]
        BY <4>1, <4>2 DEF h
      <4>5. QED
        BY <1>1, <2>2, <4>3, <4>4 DEF TopRuns
    <3>3. QED
      BY <3>1, <3>2
  <2>3. QED
    BY <2>1, <2>2 DEF Keeps, SameDelays, SameBlocked
<1>4. QED
  BY <1>2, <1>3

(* osRtxThreadDispatch(thread) for a moving thread *)
OnlyReady(k, q, t) ==
  /\ q.next = k.next /\ q.state = [k.state EXCEPT ![t] = "Ready"]
  /\ t \in ToSet(q.ready)

(* osRtxThreadDispatch(thread) puts the moving thread on the core or into  *)
(* the ready list, and the thread it preempts into the ready list; the     *)
(* highest priority runs if it did before.                                 *)
LEMMA DispatchPlaced ==
  ASSUME NEW k, NEW t \in Threads, Placed(k, {t}), OneRuns(k),
         k.next = k.curr, k.state[t] # "Running",
         k.kstate = "Running" => k.curr \in Threads,
         NEW q, q = Dispatch(k, t)
  PROVE  /\ Placed(q, {}) /\ OneRuns(q) /\ Keeps(k, q) /\ SameDelays(k, q)
         /\ q.state[t] \in Runnable
         /\ \A u \in Threads \ {t} :
              \/ q.state[u] = k.state[u]
              \/ q.state[u] \in Runnable /\ k.state[u] \in Runnable
         /\ k.curr \in Threads => q.next \in Threads
         /\ k.kstate # "Running" => OnlyReady(k, q, t)
         /\ k.kstate = "Running" /\ TopRuns(k) => TopRuns(q)
<1>1. /\ k \in KernelType /\ k.state \in [Threads -> ThreadStates]
      /\ k.prio \in [Threads -> Int] /\ ListsOK(k)
      /\ k.curr \in Threads \cup {NoThread}
      /\ \A u \in ToSet(k.ready) : u \in Threads
  BY DEF Placed, KernelType, ListsOK, IsList, ToSet
<1>2. {t} \ {t} = {} /\ t \in {t}
  OBVIOUS
<1>3. CASE CanPreempt(k, t)
  <2>1. q = Switch(Block(k, k.curr), t)
    BY <1>3 DEF Dispatch
  <2>2. /\ k.kstate = "Running" /\ k.curr \in Threads
        /\ k.prio[t] > k.prio[k.curr]
    BY <1>1, <1>3 DEF CanPreempt
  <2>3. k.state[k.curr] = "Running" /\ k.curr # t /\ k.curr \notin {t}
    BY <2>2 DEF OneRuns
  <2>4. CASE TopRuns(k)
    <3>1. /\ \A u \in ToSet(k.ready) : k.prio[u] <= k.prio[t]
          /\ k.prio[k.curr] <= k.prio[t]
      BY <1>1, <2>2, <2>4 DEF TopRuns
    <3>2. /\ Placed(q, {t} \ {t}) /\ Keeps(k, q) /\ q.next = t
          /\ SameDelays(k, q) /\ TopRuns(q)
          /\ q.state = [k.state EXCEPT ![k.curr] = "Ready", ![t] = "Running"]
      BY <1>2, <2>1, <2>2, <2>3, <3>1, PreemptPlaced
    <3>3. QED
      BY <1>1, <1>2, <2>2, <2>3, <3>2, SMTT(30) DEF OneRuns, Runnable
  <2>5. CASE ~TopRuns(k)
    <3> DEFINE m == Block(k, k.curr)
               F == {t} \cup {k.curr}
    <3>1. Placed(k, F)
      BY <2>2, <2>3, FloatPlaced
    <3>2. /\ Placed(m, F \ {k.curr}) /\ Keeps(k, m) /\ SameDelays(k, m)
          /\ m.state = [k.state EXCEPT ![k.curr] = "Ready"]
      <4>1. m = Block(k, k.curr) /\ k.curr \in F
        OBVIOUS
      <4> HIDE DEF m, F
      <4>2. QED
        BY <2>2, <3>1, <4>1, ReadyPutPlaced
    <3>3. F \ {k.curr} = {t}
      BY <2>3
    <3> HIDE DEF m, F
    <3>4. q = Switch(m, t)
      BY <2>1 DEF m
    <3>5. /\ Placed(q, {t} \ {t}) /\ Keeps(m, q) /\ q.next = t
          /\ SameDelays(m, q)
          /\ q.state = [m.state EXCEPT ![t] = "Running"]
      BY <1>2, <3>2, <3>3, <3>4, SwitchPlaced
    <3>6. q.state = [k.state EXCEPT ![k.curr] = "Ready", ![t] = "Running"]
      BY <3>2, <3>5
    <3>7. QED
      BY <1>1, <1>2, <2>2, <2>3, <2>5, <3>2, <3>5, <3>6
         DEF OneRuns, Runnable, Keeps, SameDelays
  <2>6. QED
    BY <2>4, <2>5
<1>4. CASE ~CanPreempt(k, t)
  <2>1. q = ReadyPut(k, t)
    BY <1>4 DEF Dispatch
  <2>2. /\ Placed(q, {t} \ {t}) /\ Keeps(k, q) /\ q.next = k.next
        /\ SameDelays(k, q) /\ q.state = [k.state EXCEPT ![t] = "Ready"]
        /\ ToSet(q.ready) = ToSet(k.ready) \cup {t}
    BY <1>2, <2>1, ReadyPutPlaced
  <2>3. OneRuns(q) /\ q.state[t] = "Ready"
        /\ \A u \in Threads \ {t} : q.state[u] = k.state[u]
    BY <1>1, <2>2 DEF OneRuns
  <2>4. ASSUME k.kstate = "Running", TopRuns(k) PROVE TopRuns(q)
    <3>1. k.curr \in Threads /\ ~(k.prio[t] > k.prio[k.curr])
      BY <1>4, <2>4, NoThreadNotThread DEF CanPreempt
    <3>2. k.prio[t] <= k.prio[k.curr]
      BY <1>1, <3>1
    <3>3. QED
      BY <2>2, <2>4, <3>2 DEF TopRuns, Keeps
  <2>5. QED
    BY <1>2, <2>2, <2>3, <2>4 DEF Runnable, OnlyReady
<1>5. QED
  BY <1>3, <1>4

-----------------------------------------------------------------------------
(* Waiting and waking. *)

SetRet(k, t, r) == [k EXCEPT !.ret[t] = r]

(* The value a service call will return moves no thread. *)
LEMMA SetRetPlaced ==
  ASSUME NEW k, NEW F, Placed(k, F), NEW t \in Threads, NEW r \in Results,
         NEW q, q = SetRet(k, t, r)
  PROVE  /\ Placed(q, F) /\ Keeps(k, q) /\ q.next = k.next
         /\ q.ready = k.ready /\ SameDelays(k, q) /\ q.state = k.state
<1> DEFINE f == [k.ret EXCEPT ![t] = r]
<1>1. k \in KernelType
  BY DEF Placed
<1>2. f \in [Threads -> Results]
  BY <1>1 DEF KernelType
<1>3. q = [k EXCEPT !.ret = f]
  BY DEF SetRet
<1> HIDE DEF f
<1>4. q \in KernelType
  BY <1>1, <1>2, <1>3, FieldUpdates
<1>5. /\ q.kstate = k.kstate /\ q.curr = k.curr /\ q.prio = k.prio
      /\ q.next = k.next /\ q.ready = k.ready /\ q.dlist = k.dlist
      /\ q.delay = k.delay /\ q.wait = k.wait /\ q.state = k.state
  BY <1>1, <1>3 DEF KernelType
<1>6. Placed(q, F)
  BY <1>4, <1>5 DEF Placed, ListsOK, ThreadPlaced, Unlisted
<1>7. QED
  BY <1>5, <1>6 DEF Keeps, SameDelays

(* osRtxThreadWaitEnter *)
LEMMA WaitEnterPlaced ==
  ASSUME NEW k, Placed(k, {}), OneRuns(k), k.next = k.curr, CanWait(k),
         NEW st \in WaitStates, NEW r \in Results,
         NEW d, d = Forever \/ d \in Nat \ {0},
         NEW q, q = WaitEnter(k, st, d, r)
  PROVE  /\ k.curr \in Threads /\ k.curr # Head(k.ready)
         /\ Head(k.ready) \in Threads /\ k.state[Head(k.ready)] = "Ready"
         /\ Placed(q, {}) /\ OneRuns(q) /\ Keeps(k, q) /\ TopRuns(q)
         /\ q.next \in Threads
         /\ StateSwap(k, q, k.curr, st, Head(k.ready))
         /\ WaitGrows(k, q, k.curr, d)
         /\ HeadPositive(k) => HeadPositive(q)
<1> DEFINE c == k.curr
           h == Head(k.ready)
           m1 == SetState(k, c, st)
           m2 == SetRet(m1, c, r)
           m3 == DelayInsert(m2, c, d)
           G == {c}
<1>1. /\ k \in KernelType /\ k.state \in [Threads -> ThreadStates]
      /\ c \in Threads /\ k.ready # <<>> /\ k.state[c] = "Running"
      /\ k.kstate = "Running"
  <2>1. /\ k \in KernelType /\ k.state \in [Threads -> ThreadStates]
        /\ k.curr \in Threads \cup {NoThread}
    BY DEF Placed, KernelType
  <2>2. QED
    BY <2>1 DEF CanWait, OneRuns
<1>2. q = SwitchToReady(m3)
  <2>1. [k EXCEPT !.state[k.curr] = st, !.ret[k.curr] = r] = m2
    BY DEF SetState, SetRet
  <2> HIDE DEF m2
  <2>2. QED
    BY <2>1 DEF WaitEnter
<1>3. st \in ThreadStates /\ st \in BlockedStates
  BY DEF ThreadStates, BlockedStates
<1>4. c \in Threads /\ Placed(k, G) /\ c \in G /\ G \ {c} = {}
  <2>1. Placed(k, {} \cup {c})
    BY <1>1, FloatPlaced
  <2>2. {} \cup {c} = {c}
    OBVIOUS
  <2>3. QED
    BY <1>1, <2>1, <2>2
<1> HIDE DEF c, h, G
<1>5. /\ Placed(m1, G) /\ Keeps(k, m1) /\ SameRun(k, m1)
      /\ SameDelays(k, m1)
      /\ StateSet(k, m1, c, st)
  BY <1>3, <1>4, SetStatePlaced
<1> HIDE DEF m1
<1>6. /\ Placed(m2, G) /\ Keeps(m1, m2) /\ m2.next = m1.next
      /\ m2.ready = m1.ready /\ SameDelays(m1, m2) /\ m2.state = m1.state
  BY <1>4, <1>5, SetRetPlaced
<1> HIDE DEF m2
<1>7. m2.state[c] \in BlockedStates
  BY <1>1, <1>3, <1>5, <1>6 DEF StateSet
<1>8. /\ Placed(m3, G \ {c}) /\ Keeps(m2, m3) /\ m3.next = m2.next
      /\ m3.state = m2.state /\ m3.ready = m2.ready
      /\ WaitGrows(m2, m3, c, d)
      /\ HeadPositive(m2) => HeadPositive(m3)
  <2>1. Placed(m2, G) /\ m3 = DelayInsert(m2, c, d)
    BY <1>6
  <2> HIDE DEF m3
  <2>2. QED
    BY <1>4, <1>7, <2>1, DelayInsertPlaced
<1> HIDE DEF m3
<1>9. /\ h = Head(m3.ready) /\ m3.ready # <<>>
      /\ m3.state = [k.state EXCEPT ![c] = st]
      /\ m3.wait = IF d = Forever THEN k.wait \cup {c} ELSE k.wait
      /\ Keeps(k, m3)
      /\ HeadPositive(k) => HeadPositive(m3)
  BY <1>1, <1>5, <1>6, <1>8
     DEF h, Keeps, SameDelays, HeadPositive, WaitGrows, StateSet,
         SameRun
<1>10. /\ h \in Threads /\ m3.state[h] = "Ready"
       /\ Placed(q, {}) /\ Keeps(m3, q) /\ q.next = h
       /\ SameDelays(m3, q) /\ q.state = [m3.state EXCEPT ![h] = "Running"]
       /\ TopRuns(q)
  BY <1>2, <1>4, <1>8, <1>9, SwitchToReadyPlaced, ZenonT(60)
<1>11. c # h /\ k.state[h] = "Ready"
  BY <1>1, <1>3, <1>9, <1>10 DEF BlockedStates, WaitStates
<1>12. OneRuns(q)
  BY <1>1, <1>3, <1>9, <1>10, <1>11
     DEF OneRuns, BlockedStates, WaitStates, c
<1>13. HeadPositive(k) => HeadPositive(q)
  BY <1>9, <1>10 DEF HeadPositive, SameDelays
<1>14. QED
  <2>1. StateSwap(k, q, c, st, h) /\ WaitGrows(k, q, c, d)
    BY <1>9, <1>10 DEF StateSwap, WaitGrows, SameDelays
  <2>2. QED
    BY <1>1, <1>9, <1>10, <1>11, <1>12, <1>13, <2>1 DEF Keeps, c, h

(* osRtxThreadWaitExit without dispatch *)
LEMMA WaitExitReadyPlaced ==
  ASSUME NEW k, NEW F, Placed(k, F), NEW t \in Threads, t \notin F,
         k.state[t] \in BlockedStates, NEW r \in Results,
         NEW q, q = WaitExitReady(k, t, r)
  PROVE  /\ Placed(q, F) /\ Keeps(k, q) /\ q.next = k.next
         /\ q.state = [k.state EXCEPT ![t] = "Ready"]
         /\ ToSet(q.ready) = ToSet(k.ready) \cup {t}
         /\ q.wait = k.wait \ {t}
         /\ HeadPositive(k) => HeadPositive(q)
<1> DEFINE m1 == SetRet(k, t, r)
           m2 == DelayRemove(m1, t)
           G == F \cup {t}
<1>1. q = ReadyPut(m2, t)
  BY DEF WaitExitReady, SetRet
<1>2. /\ Placed(m1, F) /\ Keeps(k, m1) /\ m1.next = k.next
      /\ m1.ready = k.ready /\ SameDelays(k, m1) /\ m1.state = k.state
  BY SetRetPlaced
<1> HIDE DEF m1
<1>3. /\ Placed(m2, G) /\ Keeps(m1, m2) /\ m2.next = m1.next
      /\ m2.state = m1.state /\ m2.ready = m1.ready
      /\ m2.wait = m1.wait \ {t}
      /\ HeadPositive(m1) => HeadPositive(m2)
  BY <1>2, DelayRemovePlaced
<1>4. t \in G /\ G \ {t} = F
  OBVIOUS
<1> HIDE DEF m2, G
<1>5. /\ Placed(q, G \ {t}) /\ Keeps(m2, q) /\ q.next = m2.next
      /\ SameDelays(m2, q) /\ q.state = [m2.state EXCEPT ![t] = "Ready"]
      /\ ToSet(q.ready) = ToSet(m2.ready) \cup {t}
  BY <1>1, <1>3, <1>4, ReadyPutPlaced
<1>6. HeadPositive(k) => HeadPositive(q)
  BY <1>2, <1>3, <1>5 DEF HeadPositive, SameDelays
<1>7. QED
  BY <1>2, <1>3, <1>4, <1>5, <1>6 DEF Keeps, SameDelays

(* The tick counts the head of the delay list down ... *)
LEMMA DelayCountPlaced ==
  ASSUME NEW k, Placed(k, {}), HeadPositive(k), NEW q, q = DelayCount(k)
  PROVE  /\ Placed(q, {}) /\ Keeps(k, q) /\ q.next = k.next
         /\ q.state = k.state /\ q.ready = k.ready /\ q.wait = k.wait
<1>1. k \in KernelType /\ ListsOK(k) /\ k.delay \in [Threads -> Int]
  BY DEF Placed, KernelType
<1>2. CASE k.dlist = <<>>
  <2>1. q = k
    BY <1>2 DEF DelayCount
  <2>2. QED
    BY <2>1 DEF Keeps
<1>3. CASE k.dlist # <<>>
  <2> DEFINE h == Head(k.dlist)
             f == [k.delay EXCEPT ![h] = @ - 1]
  <2>1. h \in Threads /\ h \in ToSet(k.dlist)
    BY <1>1, <1>3, TailList DEF ListsOK
  <2>2. k.delay[h] > 0
    BY <1>3 DEF HeadPositive
  <2>3. q = [k EXCEPT !.delay = f]
    BY <1>3 DEF DelayCount
  <2> HIDE DEF h
  <2>4. f \in [Threads -> Int] /\ f[h] >= 0
        /\ \A u \in Threads : u # h => f[u] = k.delay[u]
    BY <1>1, <2>1, <2>2
  <2> HIDE DEF f
  <2>5. q \in KernelType
    BY <1>1, <2>3, <2>4, FieldUpdates
  <2>6. /\ Keeps(k, q) /\ q.next = k.next /\ q.state = k.state
        /\ q.ready = k.ready /\ q.wait = k.wait /\ q.dlist = k.dlist
        /\ q.delay = f
    BY <1>1, <2>3 DEF KernelType, Keeps
  <2>7. ListsOK(q)
    BY <1>1, <2>6 DEF ListsOK, Keeps
  <2>8. ASSUME NEW u \in Threads PROVE ThreadPlaced(q, u)
    <3>1. ThreadPlaced(k, u)
      BY DEF Placed
    <3>2. QED
      BY <2>1, <2>4, <2>6, <3>1 DEF ThreadPlaced
  <2>9. QED
    BY <2>5, <2>6, <2>7, <2>8 DEF Placed
<1>4. QED
  BY <1>2, <1>3

(* ... and makes it ready when its delay has run out. *)
LEMMA DelayWakePlaced ==
  ASSUME NEW k, Placed(k, {}), DelayExpired(k), NEW q, q = DelayWake(k)
  PROVE  /\ Head(k.dlist) \in Threads /\ Head(k.dlist) \notin k.wait
         /\ k.state[Head(k.dlist)] \in BlockedStates
         /\ Placed(q, {}) /\ Keeps(k, q) /\ q.next = k.next
         /\ q.state = [k.state EXCEPT ![Head(k.dlist)] = "Ready"]
         /\ q.wait = k.wait
<1> DEFINE h == Head(k.dlist)
           m1 == ListRemove(k, h)
           m2 == [m1 EXCEPT !.dlist = Tail(@)]
<1>1. /\ k \in KernelType /\ ListsOK(k) /\ k.dlist # <<>>
      /\ \A t \in Threads : ThreadPlaced(k, t)
  BY DEF Placed, DelayExpired
<1>2. /\ h \in Threads /\ h \in ToSet(k.dlist) /\ IsList(Tail(k.dlist))
      /\ ToSet(Tail(k.dlist)) = ToSet(k.dlist) \ {h}
  BY <1>1, TailList DEF ListsOK
<1>3. q = ReadyPut(m2, h)
  BY DEF DelayWake
<1> HIDE DEF h
<1>4. h \notin k.wait /\ k.state[h] \in BlockedStates /\ k.state[h] # "Ready"
  BY <1>1, <1>2 DEF ThreadPlaced, BlockedStates, WaitStates
<1>5. /\ Placed(m1, {}) /\ Keeps(k, m1) /\ m1.next = k.next
      /\ m1.state = k.state /\ SameDelays(k, m1)
  <2> DEFINE G == {}
  <2>1. /\ h \in Threads /\ h \notin G /\ Placed(k, G)
        /\ m1 = ListRemove(k, h)
    BY <1>2
  <2> HIDE DEF G, m1
  <2>2. /\ Placed(m1, IF k.state[h] = "Ready" THEN G \cup {h} ELSE G)
        /\ Keeps(k, m1) /\ SameStates(k, m1) /\ SameDelays(k, m1)
    BY <2>1, ListRemovePlaced
  <2>3. QED
    BY <1>4, <2>2 DEF G, SameStates
<1> HIDE DEF m1
<1>6. m1 \in KernelType /\ ListsOK(m1) /\ \A t \in Threads : ThreadPlaced(m1, t)
  BY <1>5 DEF Placed
<1>7. /\ m2.kstate = m1.kstate /\ m2.curr = m1.curr /\ m2.prio = m1.prio
      /\ m2.next = m1.next /\ m2.ready = m1.ready
      /\ m2.dlist = Tail(m1.dlist)
      /\ m2.delay = m1.delay /\ m2.wait = m1.wait /\ m2.state = m1.state
  BY <1>6 DEF KernelType
<1>8. m1.dlist = k.dlist
  BY <1>5 DEF SameDelays
<1>9. m2 \in KernelType
  <2>1. Tail(m1.dlist) \in Seq(Threads)
    BY <1>2, <1>8 DEF IsList
  <2>2. QED
    BY <1>6, <2>1, FieldUpdates
<1> HIDE DEF m2
<1>10. Placed(m2, {h})
  <2>1. ListsOK(m2)
    BY <1>2, <1>6, <1>7, <1>8 DEF ListsOK
  <2>2. ASSUME NEW u \in Threads \ {h} PROVE ThreadPlaced(m2, u)
    BY <1>2, <1>6, <1>7, <1>8 DEF ThreadPlaced
  <2>3. Unlisted(m2, h)
    BY <1>2, <1>4, <1>5, <1>6, <1>7, <1>8
       DEF ThreadPlaced, Unlisted, SameDelays
  <2>4. QED
    BY <1>9, <2>1, <2>2, <2>3 DEF Placed
<1>11. h \in {h} /\ {h} \ {h} = {}
  OBVIOUS
<1>12. /\ Placed(q, {h} \ {h}) /\ Keeps(m2, q) /\ q.next = m2.next
       /\ SameDelays(m2, q) /\ q.state = [m2.state EXCEPT ![h] = "Ready"]
  <2> DEFINE G == {h}
  <2>1. h \in Threads /\ h \in G /\ Placed(m2, G)
    BY <1>2, <1>10
  <2> HIDE DEF G
  <2>2. /\ Placed(q, G \ {h}) /\ Keeps(m2, q) /\ q.next = m2.next
        /\ SameDelays(m2, q) /\ q.state = [m2.state EXCEPT ![h] = "Ready"]
    BY <1>3, <2>1, ReadyPutPlaced
  <2>3. QED
    BY <2>2 DEF G
<1>13. QED
  BY <1>2, <1>4, <1>5, <1>7, <1>11, <1>12 DEF Keeps, SameDelays, h

-----------------------------------------------------------------------------
(* The control block that svcRtxThreadNew prepares. *)
Fresh(kk, t, p) ==
  [kk EXCEPT !.state[t] = "Ready", !.prio[t] = p, !.base[t] = p,
             !.delay[t] = 0]

(* An inactive control block that svcRtxThreadNew fills in is a moving     *)
(* thread.                                                                 *)
LEMMA FreshPlaced ==
  ASSUME NEW kk, Placed(kk, {}), OneRuns(kk), NEW t \in Threads,
         kk.state[t] = "Inactive", NEW p \in Int,
         NEW q, q = Fresh(kk, t, p)
  PROVE  /\ Placed(q, {t}) /\ OneRuns(q)
         /\ q.kstate = kk.kstate /\ q.curr = kk.curr /\ q.next = kk.next
         /\ StateSet(kk, q, t, "Ready") /\ q.wait = kk.wait
         /\ HeadPositive(kk) => HeadPositive(q)
         /\ TopRuns(kk) /\ kk.next \in Threads => TopRuns(q)
<1> DEFINE st == [kk.state EXCEPT ![t] = "Ready"]
           pr == [kk.prio EXCEPT ![t] = p]
           ba == [kk.base EXCEPT ![t] = p]
           de == [kk.delay EXCEPT ![t] = 0]
           m1 == [kk EXCEPT !.state = st]
           m2 == [m1 EXCEPT !.prio = pr]
           m3 == [m2 EXCEPT !.base = ba]
<1>1. /\ kk \in KernelType /\ kk.state \in [Threads -> ThreadStates]
      /\ kk.prio \in [Threads -> Int] /\ kk.base \in [Threads -> Int]
      /\ kk.delay \in [Threads -> Int] /\ ListsOK(kk)
      /\ \A u \in Threads : ThreadPlaced(kk, u)
  BY DEF Placed, KernelType
<1>2. Unlisted(kk, t)
  BY <1>1 DEF ThreadPlaced, Unlisted, BlockedStates, WaitStates
<1>3. /\ st \in [Threads -> ThreadStates] /\ pr \in [Threads -> Int]
      /\ ba \in [Threads -> Int] /\ de \in [Threads -> Int]
  BY <1>1 DEF ThreadStates
<1>4. q = [m3 EXCEPT !.delay = de]
  BY DEF Fresh
<1> HIDE DEF st, pr, ba, de
<1>5. /\ q.kstate = kk.kstate /\ q.curr = kk.curr /\ q.next = kk.next
      /\ q.state = st /\ q.prio = pr /\ q.delay = de /\ q.wait = kk.wait
      /\ q.ready = kk.ready /\ q.dlist = kk.dlist
  BY <1>1, <1>4 DEF KernelType
<1>6. q \in KernelType
  <2>1. m1 \in KernelType
    BY <1>1, <1>3, FieldUpdates
  <2> HIDE DEF m1
  <2>2. m2 \in KernelType
    BY <1>3, <2>1, FieldUpdates
  <2> HIDE DEF m2
  <2>3. m3 \in KernelType
    BY <1>3, <2>2, FieldUpdates
  <2> HIDE DEF m3
  <2>4. QED
    BY <1>3, <1>4, <2>3, FieldUpdates
<1>7. /\ \A u \in Threads \ {t} :
           st[u] = kk.state[u] /\ pr[u] = kk.prio[u] /\ de[u] = kk.delay[u]
      /\ st[t] = "Ready"
  BY <1>1 DEF st, pr, de
<1>8. \A u \in ToSet(kk.ready) \cup ToSet(kk.dlist) : u \in Threads \ {t}
  BY <1>1, <1>2 DEF ListsOK, IsList, ToSet, Unlisted
<1>9. ListsOK(q)
  <2>1. kk.ready \in Seq(Threads)
    BY <1>1 DEF ListsOK, IsList
  <2>2. \A i \in DOMAIN kk.ready : kk.ready[i] \in ToSet(kk.ready)
    BY <2>1 DEF ToSet
  <2>3. \A i \in DOMAIN kk.ready : pr[kk.ready[i]] = kk.prio[kk.ready[i]]
    BY <1>7, <1>8, <2>2
  <2>4. Sorted(pr, kk.ready)
    BY <1>1, <2>3 DEF ListsOK, Sorted
  <2>5. QED
    BY <1>1, <1>5, <2>4 DEF ListsOK
<1>10. Placed(q, {t})
  <2>1. \A u \in Threads \ {t} : ThreadPlaced(q, u)
    BY <1>1, <1>5, <1>7 DEF ThreadPlaced
  <2>2. Unlisted(q, t)
    BY <1>2, <1>5 DEF Unlisted
  <2>3. QED
    BY <1>6, <1>9, <2>1, <2>2 DEF Placed
<1>11. OneRuns(q)
  BY <1>5, <1>7 DEF OneRuns
<1>12. HeadPositive(kk) => HeadPositive(q)
  <2>1. kk.dlist # <<>> => Head(kk.dlist) \in ToSet(kk.dlist)
    BY <1>1, TailList DEF ListsOK
  <2>2. QED
    BY <1>5, <1>7, <1>8, <2>1 DEF HeadPositive
<1>13. ASSUME TopRuns(kk), kk.next \in Threads PROVE TopRuns(q)
  <2>1. kk.next # t
    BY <1>13 DEF OneRuns
  <2>2. QED
    BY <1>5, <1>7, <1>8, <1>13, <2>1 DEF TopRuns
<1>14. QED
  BY <1>5, <1>10, <1>11, <1>12, <1>13 DEF StateSet, st
=============================================================================
