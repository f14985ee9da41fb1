---------------------------- MODULE NVStoreProofs ----------------------------
(***************************************************************************)
(* Proofs about NVStore: for every number of keys, values, threads and     *)
(* slots, and for any number of collections before the version wraps.      *)
(***************************************************************************)
EXTENDS NVStore, TLAPS, FiniteSetTheorems, WellFoundedInduction

(* The callers heed errors, and only set is called when the area is full.  *)
Careful == {"heed errors", "plain at the limit"} \subseteq Rules

-----------------------------------------------------------------------------
(* The inductive invariant. *)

Cells == Contents \cup {Blank, Bad}
Stages == {"idle", "init", "write", "gcItem", "gcCopy", "gcMaster", "gcErase"}
Entries == [area : Areas, slot : 0 .. Slots, once : BOOLEAN]

(* Master records hold versions from 1 on, the other slots records. *)
FlashOK(f) ==
  /\ f \in [Areas -> [0 .. Slots -> Cells]]
  /\ \A a \in Areas : ValidArea(f, a) => f[a][0] \in Nat /\ f[a][0] >= 1
  /\ \A a \in Areas, s \in 1 .. Slots : ValidCell(f[a][s]) => f[a][s] \in Records

TypeInv ==
  /\ FlashOK(flash)
  /\ items = Recovered(flash)
  /\ up \in {"off", "init", "on"}
  /\ ram \in [active : Areas, version : Nat, free : Nat, index : [Keys -> Entries]]
  /\ pend \in [Threads -> Calls \cup {NoCall}]
  /\ job \in [stage : Stages, call : Calls \cup {NoCall}, slot : Nat]
  /\ failed \in BOOLEAN

(* Who is at work in which phase. *)
PhaseInv ==
  /\ job.stage \in {"idle", "init"} => job.call = NoCall
  /\ job.stage = "idle" => job = Idle
  /\ up = "off" => job = Idle
  /\ up = "init" => /\ job.stage \in {"init", "gcCopy", "gcMaster", "gcErase"}
                    /\ job.call = NoCall
  /\ job.stage = "init" => up = "init"
  /\ up # "on" => pend = [t \in Threads |-> NoCall]
  /\ failed => up = "on" /\ job = Idle
  /\ job.stage \in {"write", "gcItem"} => job.call # NoCall

(* The records of an area end before slot n, and nothing is behind them. *)
Filled(f, a, n) ==
  /\ n \in 1 .. Slots + 1
  /\ \A s \in 1 .. n - 1 : ValidCell(f[a][s])
  /\ \A s \in n .. Slots : f[a][s] = Blank

(* The version in RAM; after a format it is one behind. *)
VersionOK ==
  \/ ram.version = flash[ram.active][0]
  \/ ram.active = 0 /\ ram.version = 0 /\ flash[0][0] = 1

ActiveOK == ValidArea(flash, ram.active) /\ VersionOK

(* Between calls, and up to the first record a call writes, RAM is what    *)
(* init would make of the flash and the other area is blank.               *)
Steady(n) ==
  /\ ActiveOK
  /\ Filled(flash, ram.active, n)
  /\ ram.index = IndexOf(flash, ram.active)
  /\ flash[Other(ram.active)] = BlankArea

(* An entry points to a record of its key. *)
EntryOK(f, k, e) ==
  \/ e = NoEntry
  \/ /\ e.slot \in 1 .. Slots
     /\ f[e.area][e.slot] \in Records
     /\ f[e.area][e.slot].key = k
     /\ ~f[e.area][e.slot].deleted
     /\ f[e.area][e.slot].once = e.once

(* The items a collection must leave. *)
Target == IF job.call = NoCall THEN items ELSE ApplyCall(items, job.call)

(* The area b that a collection fills has no master record yet; each of    *)
(* its records is the one the entry of its key points to; every entry      *)
(* leads to the item its key must have.                                    *)
Gathered(f, b, index, n, target) ==
  /\ f[b][0] = Blank
  /\ Filled(f, b, n)
  /\ \A k \in Keys : EntryOK(f, k, index[k])
  /\ \A s \in 1 .. n - 1 : index[f[b][s].key].area = b /\ index[f[b][s].key].slot = s
  /\ \A k \in Keys : Get(f, index[k]) = target[k]

Collecting ==
  /\ ActiveOK
  /\ ram.version < MaxVersion
  /\ job.call # NoCall => job.call.op = "set"
  /\ Gathered(flash, Other(ram.active), ram.index, job.slot, Target)

(* The new area counts, and the old one is yet to be erased. *)
Collected ==
  /\ ActiveOK
  /\ Filled(flash, ram.active, ram.free)
  /\ ram.index = IndexOf(flash, ram.active)
  /\ Chosen(flash) = ram.active
  /\ job.call # NoCall => items = ApplyCall(items, job.call)

JobInv ==
  /\ up = "on" /\ job = Idle /\ ~failed => Steady(ram.free)
  /\ job.stage = "write" =>
       Steady(job.slot) /\ job.slot <= Slots /\ ram.free = job.slot + 1
  /\ job.stage = "gcItem" =>
       /\ Steady(ram.free)
       /\ job.call.op = "set" /\ ram.version < MaxVersion
  /\ job.stage = "gcCopy" => Collecting
  /\ job.stage = "gcMaster" => Collecting /\ Live = {}
  /\ job.stage = "gcErase" => Collected

IsOnce(item) == item # Absent /\ item.once

(* A call that passed the checks can still be made: its key has not become *)
(* one that was set once, because no call for the key ran meanwhile.       *)
OnceInv ==
  "set_once apart" \in Rules =>
    /\ \A t \in Threads : pend[t] # NoCall =>
         /\ ~Conflict(pend[t], job.call)
         /\ \A u \in Threads \ {t} : ~Conflict(pend[t], pend[u])
         /\ up = "on" /\ ~failed => ~Entry(pend[t].key).once
    /\ job.call # NoCall /\ job.stage # "gcErase" => ~IsOnce(items[job.call.key])

IInv == TypeInv /\ PhaseInv /\ JobInv /\ OnceInv

-----------------------------------------------------------------------------
(* Smallest and largest elements. *)

(* A set of numbers that is not empty has its Min: garbage_collection and  *)
(* init find the next key and the next area they look for.                 *)
LEMMA MinIn ==
  ASSUME NEW S, S \subseteq Nat, S # {}
  PROVE  Min(S) \in S /\ \A y \in S : Min(S) <= y
<1> DEFINE R == OpToRel(<, Nat)
<1>1. IsWellFoundedOn(R, Nat)
  BY NatLessThanWellFounded
<1>2. PICK x \in S : \A y \in S : ~(<<y, x>> \in R)
  <2> HIDE DEF R
  <2> QED  BY <1>1, WFMin
<1>3. \A y \in S : x <= y
  <2> TAKE y \in S
  <2>1. x \in Nat /\ y \in Nat
    OBVIOUS
  <2>2. y < x => <<y, x>> \in R
    BY <2>1 DEF OpToRel
  <2> HIDE DEF R
  <2>3. ~(y < x)
    BY <1>2, <2>2
  <2> QED  BY <2>1, <2>3
<1> QED  BY <1>3 DEF Min

(* A bounded set of numbers that is not empty has its Max. *)
LEMMA MaxIn ==
  ASSUME NEW n \in Nat, NEW S, S \subseteq 0 .. n, S # {}
  PROVE  Max(S) \in S /\ \A y \in S : y <= Max(S)
<1> DEFINE T == {n - s : s \in S}
<1>a. \A s \in S : s \in Nat /\ s <= n
  OBVIOUS
<1>b. PICK s \in S : n - s \in T
  OBVIOUS
<1>1. T \subseteq Nat /\ T # {}
  BY <1>a, <1>b
<1>2. PICK m \in T : \A y \in T : m <= y
  <2> HIDE DEF T
  <2> QED  BY <1>1, MinIn
<1>3. PICK x \in S : m = n - x
  OBVIOUS
<1>4. \A y \in S : x >= y
  <2> TAKE y \in S
  <2>1. n - y \in T
    OBVIOUS
  <2>2. m <= n - y
    BY <1>2, <2>1
  <2> QED  BY <1>a, <1>3, <2>2
<1> QED  BY <1>4 DEF Max

-----------------------------------------------------------------------------
(* What init makes of the flash. *)

(* There are two areas, and Other leads from each to the other one. *)
LEMMA Areas01 == Areas = {0, 1} /\ \A a \in Areas : Other(a) \in Areas /\ Other(a) # a /\ Other(Other(a)) = a
BY DEF Areas, Other

(* The traversal stops before the first slot that is not a record. *)
LEMMA TraversedPrefix ==
  ASSUME NEW f, NEW a \in Areas
  PROVE  \E m \in 0 .. Slots : Traversed(f, a) = 1 .. m
<1> USE SlotsPositive
<1> DEFINE T == Traversed(f, a)
           m == Max({0} \cup T)
<1>1. T \subseteq 1 .. Slots
  BY DEF Traversed
<1>2. m \in {0} \cup T /\ \A y \in T : y <= m
  <2> HIDE DEF T
  <2> DEFINE S == {0} \cup T
  <2>1. S \subseteq 0 .. Slots /\ S # {}
    BY <1>1
  <2>2. Max(S) \in S /\ \A y \in S : y <= Max(S)
    <3> HIDE DEF S
    <3> QED  BY <2>1, MaxIn
  <2> QED  BY <2>2
<1>3. \A s \in 1 .. m : s \in T
  <2> HIDE DEF m
  <2> TAKE s \in 1 .. m
  <2>1. m \in T /\ m \in 1 .. Slots /\ s \in 1 .. Slots
    BY <1>1, <1>2
  <2>2. \A r \in 0 .. m : ValidCell(f[a][r])
    BY <2>1 DEF Traversed
  <2>3. \A r \in 0 .. s : r \in 0 .. m
    BY <2>1
  <2> QED  BY <2>1, <2>2, <2>3 DEF Traversed
<1>4. m \in 0 .. Slots /\ T = 1 .. m
  <2> HIDE DEF m, T
  <2>1. m \in 0 .. Slots
    BY <1>1, <1>2
  <2>2. T \subseteq 1 .. m
    BY <1>1, <1>2, <2>1
  <2> QED  BY <1>3, <2>1, <2>2
<1> QED  BY <1>4

(* The records of an area without a gap are all traversed. *)
LEMMA FilledTraversed ==
  ASSUME NEW f, NEW a \in Areas, NEW n, ValidArea(f, a), Filled(f, a, n)
  PROVE  Traversed(f, a) = 1 .. n - 1
<1> USE SlotsPositive, CellsDistinct
<1>1. n \in Nat /\ n >= 1 /\ n <= Slots + 1
  BY DEF Filled
<1>2. \A s \in 1 .. Slots : s <= n - 1 => s \in Traversed(f, a)
  <2> SUFFICES ASSUME NEW s \in 1 .. Slots, s <= n - 1
               PROVE  \A r \in 0 .. s : ValidCell(f[a][r])
    BY DEF Traversed
  <2> TAKE r \in 0 .. s
  <2>1. r = 0 \/ r \in 1 .. n - 1
    BY <1>1
  <2> QED  BY <2>1 DEF Filled, ValidArea
<1>3. \A s \in Traversed(f, a) : s \in 1 .. n - 1
  <2> TAKE s \in Traversed(f, a)
  <2>1. s \in 1 .. Slots /\ ValidCell(f[a][s])
    BY DEF Traversed
  <2>2. s \in n .. Slots => ~ValidCell(f[a][s])
    BY DEF Filled, ValidCell
  <2> QED  BY <1>1, <2>1, <2>2
<1>4. \A s \in 1 .. n - 1 : s \in Traversed(f, a)
  BY <1>1, <1>2
<1> QED  BY <1>3, <1>4

(* Last is 0 or the last slot traversed with a record of the key. *)
LEMMA LastIn ==
  ASSUME NEW f, NEW a \in Areas, NEW k
  PROVE  /\ Last(f, a, k) \in 0 .. Slots
         /\ Last(f, a, k) # 0 => /\ Last(f, a, k) \in Traversed(f, a)
                                 /\ f[a][Last(f, a, k)].key = k
         /\ \A s \in Traversed(f, a) : f[a][s].key = k => s <= Last(f, a, k)
<1> USE SlotsPositive
<1> DEFINE S == {0} \cup {s \in Traversed(f, a) : f[a][s].key = k}
<1>1. S \subseteq 0 .. Slots /\ S # {}
  BY DEF Traversed
<1>2. Max(S) \in S /\ \A y \in S : y <= Max(S)
  <2> HIDE DEF S
  <2> QED  BY <1>1, MaxIn
<1>3. Last(f, a, k) = Max(S)
  BY DEF Last
<1> DEFINE m == Max(S)
<1>4. /\ m \in 0 .. Slots
      /\ m # 0 => m \in Traversed(f, a) /\ f[a][m].key = k
      /\ \A s \in Traversed(f, a) : f[a][s].key = k => s <= m
  <2>1. m \in S /\ S \subseteq 0 .. Slots
    BY <1>1, <1>2
  <2> HIDE DEF m
  <2>2. m = 0 \/ (m \in Traversed(f, a) /\ f[a][m].key = k)
    BY <2>1
  <2>3. \A s \in Traversed(f, a) : f[a][s].key = k => s \in S
    OBVIOUS
  <2>4. \A y \in S : y <= m
    BY <1>2 DEF m
  <2> HIDE DEF S
  <2> QED  BY <2>1, <2>2, <2>3, <2>4
<1> HIDE DEF m, S
<1> QED  BY <1>3, <1>4 DEF m

(* A record of the key that no later one follows is the last one. *)
LEMMA LastIs ==
  ASSUME NEW f, NEW a \in Areas, NEW k, NEW s \in Traversed(f, a), f[a][s].key = k,
         \A r \in Traversed(f, a) : f[a][r].key = k => r <= s
  PROVE  Last(f, a, k) = s
<1>1. s \in Nat /\ s >= 1
  BY SlotsPositive DEF Traversed
<1>2. Last(f, a, k) \in Nat /\ s <= Last(f, a, k)
  BY LastIn, SlotsPositive
<1>3. Last(f, a, k) <= s
  BY <1>1, <1>2, LastIn
<1> QED  BY <1>1, <1>2, <1>3

(* Without a record of the key there is no last one. *)
LEMMA LastNone ==
  ASSUME NEW f, NEW a \in Areas, NEW k, \A r \in Traversed(f, a) : f[a][r].key # k
  PROVE  Last(f, a, k) = 0
BY LastIn

(* A record that is traversed is one. *)
LEMMA TraversedRecord ==
  ASSUME NEW f, NEW a \in Areas, FlashOK(f), NEW s \in Traversed(f, a)
  PROVE  s \in 1 .. Slots /\ f[a][s] \in Records /\ f[a][s].key \in Keys
<1>1. s \in 1 .. Slots /\ ValidCell(f[a][s])
  BY SlotsPositive DEF Traversed
<1> QED  BY <1>1 DEF FlashOK, Records

(* The entries init builds point to records of their keys in that area. *)
LEMMA IndexEntry ==
  ASSUME NEW f, NEW a \in Areas, FlashOK(f), NEW k \in Keys
  PROVE  LET e == IndexOf(f, a)[k]
         IN /\ e \in Entries
            /\ EntryOK(f, k, e)
            /\ e # NoEntry => e.area = a /\ e.slot \in Traversed(f, a)
            /\ e = NoEntry <=> e.slot = 0
<1> DEFINE s == Last(f, a, k)
<1> HIDE DEF s
<1>1. IndexOf(f, a)[k] = IF s = 0 \/ f[a][s].deleted THEN NoEntry
                         ELSE [area |-> a, slot |-> s, once |-> f[a][s].once]
  BY DEF IndexOf, s
<1>2. CASE s = 0 \/ f[a][s].deleted
  <2>1. NoEntry \in Entries /\ NoEntry.slot = 0
    BY SlotsPositive DEF NoEntry, Entries, Areas
  <2> QED  BY <1>1, <1>2, <2>1 DEF EntryOK
<1>3. CASE s # 0 /\ ~f[a][s].deleted
  <2>1. s \in Traversed(f, a) /\ f[a][s].key = k
    BY <1>3, LastIn DEF s
  <2>2. s \in 1 .. Slots /\ f[a][s] \in Records
    BY <2>1, TraversedRecord
  <2> DEFINE e == [area |-> a, slot |-> s, once |-> f[a][s].once]
  <2>3. IndexOf(f, a)[k] = e
    BY <1>1, <1>3
  <2>4. e \in Entries
    BY <2>2, SlotsPositive DEF Entries, Records
  <2>5. e.slot # 0 /\ e # NoEntry
    BY <1>3 DEF NoEntry
  <2>6. EntryOK(f, k, e)
    BY <1>3, <2>1, <2>2 DEF EntryOK
  <2> QED  BY <2>1, <2>3, <2>4, <2>5, <2>6
<1> QED  BY <1>2, <1>3

(* The items of a flash are those of the area init chooses. *)
LEMMA ChosenIn == ASSUME NEW f PROVE Chosen(f) \in Areas
BY DEF Chosen, Newer, Areas

(* What a restart finds depends on the area it chooses only. *)
LEMMA RecoveredSame ==
  ASSUME NEW f, NEW g, NEW a \in Areas, FlashOK(f), Chosen(f) = a, Chosen(g) = a, f[a] = g[a]
  PROVE  Recovered(f) = Recovered(g) /\ IndexOf(f, a) = IndexOf(g, a)
<1>1. Traversed(f, a) = Traversed(g, a)
  BY DEF Traversed
<1>2. \A k : Last(f, a, k) = Last(g, a, k)
  BY <1>1 DEF Last
<1>3. IndexOf(f, a) = IndexOf(g, a)
  BY <1>2 DEF IndexOf
<1>4. \A k \in Keys : Get(f, IndexOf(f, a)[k]) = Get(g, IndexOf(f, a)[k])
  <2> TAKE k \in Keys
  <2> DEFINE e == IndexOf(f, a)[k]
  <2>1. e.slot = 0 \/ e.area = a
    BY IndexEntry
  <2> HIDE DEF e
  <2>2. Get(f, e) = Get(g, e)
    BY <2>1 DEF Get
  <2> QED  BY <2>2 DEF e
<1> QED  BY <1>3, <1>4 DEF Recovered

(* An area that alone has a master record is chosen. *)
LEMMA ChosenOne ==
  ASSUME NEW f, NEW a \in Areas, ValidArea(f, a), ~ValidArea(f, Other(a))
  PROVE  Chosen(f) = a
BY DEF Chosen, Areas, Other

(* The choice stands while the other area is erased, or left half erased. *)
LEMMA ChosenStays ==
  ASSUME NEW f, NEW g, NEW a \in Areas, Chosen(f) = a, ValidArea(f, a), g[a] = f[a],
         g[Other(a)][0] = f[Other(a)][0] \/ ~ValidArea(g, Other(a))
  PROVE  Chosen(g) = a
<1>1. ValidArea(g, a)
  BY DEF ValidArea
<1>2. CASE ~ValidArea(g, Other(a))
  BY <1>1, <1>2, ChosenOne
<1>3. CASE g[Other(a)][0] = f[Other(a)][0]
  <2>1. g[0][0] = f[0][0] /\ g[1][0] = f[1][0]
    BY <1>3 DEF Areas, Other
  <2> QED  BY <2>1 DEF Chosen, ValidArea, Areas
<1> QED  BY <1>2, <1>3

(* If one area is valid, a valid one is chosen. *)
LEMMA ChosenValid ==
  ASSUME NEW f, NEW a \in Areas, ValidArea(f, a)
  PROVE  ValidArea(f, Chosen(f))
BY DEF Chosen, Areas, Newer

(* A flash without a master record holds nothing. *)
LEMMA NothingRecovered ==
  ASSUME NEW f, \A a \in Areas : ~ValidArea(f, a)
  PROVE  Recovered(f) = [k \in Keys |-> Absent]
<1> DEFINE a == Chosen(f)
<1>1. a \in Areas
  BY ChosenIn
<1>2. ~ValidArea(f, a)
  BY <1>1
<1> HIDE DEF a
<1>3. Traversed(f, a) = {}
  BY <1>2, SlotsPositive DEF Traversed, ValidArea
<1>4. \A k \in Keys : Last(f, a, k) = 0
  BY <1>1, <1>3, LastNone
<1>5. \A k \in Keys : IndexOf(f, a)[k] = NoEntry
  BY <1>4 DEF IndexOf
<1>6. NoEntry.slot = 0
  BY DEF NoEntry
<1> QED  BY <1>5, <1>6 DEF Recovered, Get, a

-----------------------------------------------------------------------------
(* What operations make of the flash. *)

Put(f, a, s, x) == [f EXCEPT ![a][s] = x]
Wipe(f, a, row) == [f EXCEPT ![a] = row]

(* Cells that may be at a slot: versions at 0, records elsewhere. *)
Fits(s, x) ==
  \/ x \in {Blank, Bad}
  \/ s = 0 /\ x \in Nat /\ x >= 1
  \/ s # 0 /\ x \in Records

(* A version or a record read from a cell has a correct CRC; a blank or a  *)
(* spoilt cell does not.                                                   *)
LEMMA CellFacts ==
  /\ ~ValidCell(Blank) /\ ~ValidCell(Bad)
  /\ \A x \in Nat : ValidCell(x)
  /\ \A x \in Records : ValidCell(x)
BY CellsDistinct DEF ValidCell, Contents

(* A program operation changes one cell. *)
LEMMA PutFacts ==
  ASSUME NEW f, FlashOK(f), NEW a \in Areas, NEW s \in 0 .. Slots, NEW x, Fits(s, x)
  PROVE  /\ FlashOK(Put(f, a, s, x))
         /\ Put(f, a, s, x)[a][s] = x
         /\ \A r \in 0 .. Slots : r # s => Put(f, a, s, x)[a][r] = f[a][r]
         /\ Put(f, a, s, x)[Other(a)] = f[Other(a)]
<1> USE SlotsPositive
<1> DEFINE g == Put(f, a, s, x)
<1>1. f \in [Areas -> [0 .. Slots -> Cells]]
  BY DEF FlashOK
<1>2. x \in Cells
  BY DEF Fits, Cells, Contents
<1>3. g \in [Areas -> [0 .. Slots -> Cells]]
  BY <1>1, <1>2 DEF Put
<1>4. /\ g[a][s] = x
      /\ \A r \in 0 .. Slots : r # s => g[a][r] = f[a][r]
      /\ \A b \in Areas : b # a => g[b] = f[b]
  BY <1>1 DEF Put
<1> HIDE DEF g
<1>5. \A b \in Areas : ValidArea(g, b) => g[b][0] \in Nat /\ g[b][0] >= 1
  <2> SUFFICES ASSUME NEW b \in Areas, ValidArea(g, b) PROVE g[b][0] \in Nat /\ g[b][0] >= 1
    OBVIOUS
  <2>1. CASE b = a /\ s = 0
    BY <1>4, <2>1, CellFacts DEF Fits, ValidArea
  <2>2. CASE b # a \/ s # 0
    <3>1. g[b][0] = f[b][0]
      BY <1>4, <2>2
    <3> QED  BY <3>1 DEF FlashOK, ValidArea
  <2> QED  BY <2>1, <2>2
<1>6. \A b \in Areas, r \in 1 .. Slots : ValidCell(g[b][r]) => g[b][r] \in Records
  <2> SUFFICES ASSUME NEW b \in Areas, NEW r \in 1 .. Slots, ValidCell(g[b][r])
               PROVE  g[b][r] \in Records
    OBVIOUS
  <2>1. CASE b = a /\ r = s
    BY <1>4, <2>1, CellFacts DEF Fits
  <2>2. CASE b # a \/ r # s
    <3>1. g[b][r] = f[b][r]
      BY <1>4, <2>2
    <3> QED  BY <3>1 DEF FlashOK
  <2> QED  BY <2>1, <2>2
<1>7. g[Other(a)] = f[Other(a)]
  BY <1>4, Areas01
<1> QED  BY <1>3, <1>4, <1>5, <1>6, <1>7 DEF FlashOK, g

(* An erase, complete or not, leaves in each cell what was there, Bad or   *)
(* Blank.                                                                  *)
Erased(f, a, row) ==
  /\ row \in [0 .. Slots -> Cells]
  /\ \A s \in 0 .. Slots : row[s] = f[a][s] \/ row[s] \in {Blank, Bad}

(* An erase operation, complete or cut short, leaves a flash init can read *)
(* and does not touch the other area.                                      *)
LEMMA EraseFacts ==
  ASSUME NEW f, FlashOK(f), NEW a \in Areas, NEW row, Erased(f, a, row),
         NEW g, g = Wipe(f, a, row)
  PROVE  FlashOK(g) /\ g[a] = row /\ g[Other(a)] = f[Other(a)]
<1> USE SlotsPositive
<1>1. f \in [Areas -> [0 .. Slots -> Cells]]
  BY DEF FlashOK
<1>2. g \in [Areas -> [0 .. Slots -> Cells]] /\ g[a] = row /\ \A b \in Areas : b # a => g[b] = f[b]
  BY <1>1 DEF Erased, Wipe
<1>3. \A b \in Areas, r \in 0 .. Slots : ValidCell(g[b][r]) => g[b][r] = f[b][r]
  <2> TAKE b \in Areas, r \in 0 .. Slots
  <2>1. CASE b = a
    BY <1>2, <2>1, CellFacts DEF Erased
  <2>2. CASE b # a
    BY <1>2, <2>2
  <2> QED  BY <2>1, <2>2
<1>4. 0 \in 0 .. Slots /\ 1 .. Slots \subseteq 0 .. Slots
  OBVIOUS
<1>5. FlashOK(g)
  <2>1. \A b \in Areas : ValidArea(g, b) => ValidArea(f, b) /\ g[b][0] = f[b][0]
    BY <1>3, <1>4 DEF ValidArea
  <2>2. \A b \in Areas, r \in 1 .. Slots :
          ValidCell(g[b][r]) => ValidCell(f[b][r]) /\ g[b][r] = f[b][r]
    BY <1>3, <1>4
  <2> QED  BY <1>2, <2>1, <2>2 DEF FlashOK
<1>6. g[Other(a)] = f[Other(a)]
  BY <1>2, Areas01
<1> QED  BY <1>2, <1>5, <1>6

(* The entry and the item a record stands for. *)
EntryOf(a, s, x) == IF x.deleted THEN NoEntry ELSE [area |-> a, slot |-> s, once |-> x.once]
ItemIn(x) == IF x.deleted THEN Absent ELSE [val |-> x.val, once |-> x.once]

(* The item of a key is the one in its last record. *)
LEMMA RecoveredItem ==
  ASSUME NEW f, FlashOK(f), NEW a \in Areas, Chosen(f) = a, NEW k \in Keys
  PROVE  /\ IndexOf(f, a)[k] = IF Last(f, a, k) = 0 THEN NoEntry
                               ELSE EntryOf(a, Last(f, a, k), f[a][Last(f, a, k)])
         /\ Recovered(f)[k] = IF Last(f, a, k) = 0 THEN Absent
                              ELSE ItemIn(f[a][Last(f, a, k)])
<1> DEFINE s == Last(f, a, k)
           e == IndexOf(f, a)[k]
<1> HIDE DEF s, e
<1>1. e = IF s = 0 THEN NoEntry ELSE EntryOf(a, s, f[a][s])
  BY DEF IndexOf, s, e, EntryOf
<1>2. Recovered(f)[k] = Get(f, e)
  BY DEF Recovered, e
<1>3. s # 0 => f[a][s] \in Records
  BY LastIn, TraversedRecord DEF s
<1>4. NoEntry.slot = 0
  BY DEF NoEntry
<1>5. Get(f, e) = IF s = 0 THEN Absent ELSE ItemIn(f[a][s])
  <2>1. CASE s = 0 \/ f[a][s].deleted
    BY <1>1, <1>4, <2>1 DEF Get, EntryOf, ItemIn
  <2>2. CASE s # 0 /\ ~f[a][s].deleted
    <3>1. e = [area |-> a, slot |-> s, once |-> f[a][s].once]
      BY <1>1, <2>2 DEF EntryOf
    <3>2. ValidCell(f[a][s])
      BY <1>3, <2>2, CellFacts
    <3> QED  BY <2>2, <3>1, <3>2 DEF Get, ItemIn
  <2> QED  BY <2>1, <2>2
<1> QED  BY <1>1, <1>2, <1>5 DEF s, e

(* write_record behind the last record of the only valid area: the entry   *)
(* and the item of its key, and no other, become those of the record.      *)
LEMMA Appended ==
  ASSUME NEW f, FlashOK(f), NEW a \in Areas, ValidArea(f, a), ~ValidArea(f, Other(a)),
         NEW n \in 1 .. Slots, Filled(f, a, n), NEW x \in Records,
         NEW g, g = Put(f, a, n, x)
  PROVE  /\ Filled(g, a, n + 1)
         /\ Chosen(g) = a
         /\ IndexOf(g, a) = [IndexOf(f, a) EXCEPT ![x.key] = EntryOf(a, n, x)]
         /\ Recovered(g) = [Recovered(f) EXCEPT ![x.key] = ItemIn(x)]
<1> USE SlotsPositive
<1>1. /\ FlashOK(g)
      /\ g[a][n] = x
      /\ \A r \in 0 .. Slots : r # n => g[a][r] = f[a][r]
      /\ g[Other(a)] = f[Other(a)]
  <2>1. n \in 0 .. Slots /\ Fits(n, x)
    BY DEF Fits
  <2> QED  BY <2>1, PutFacts
<1>2. ValidArea(g, a) /\ ~ValidArea(g, Other(a))
  BY <1>1 DEF ValidArea
<1>3. Chosen(g) = a /\ Chosen(f) = a
  BY <1>2, ChosenOne
<1>4. Filled(g, a, n + 1)
  <2>1. \A s \in 1 .. (n + 1) - 1 : ValidCell(g[a][s])
    <3> TAKE s \in 1 .. (n + 1) - 1
    <3>1. CASE s = n
      BY <1>1, <3>1, CellFacts
    <3>2. CASE s # n
      <4>1. s \in 1 .. n - 1 /\ g[a][s] = f[a][s]
        BY <1>1, <3>2
      <4> QED  BY <4>1 DEF Filled
    <3> QED  BY <3>1, <3>2
  <2>2. \A s \in n + 1 .. Slots : g[a][s] = Blank
    <3> TAKE s \in n + 1 .. Slots
    <3>1. s \in n .. Slots /\ g[a][s] = f[a][s]
      BY <1>1
    <3> QED  BY <3>1 DEF Filled
  <2> QED  BY <2>1, <2>2 DEF Filled
<1>5. Traversed(f, a) = 1 .. n - 1 /\ Traversed(g, a) = 1 .. n
  <2>1. Traversed(g, a) = 1 .. (n + 1) - 1
    BY <1>2, <1>4, FilledTraversed
  <2>2. (n + 1) - 1 = n
    OBVIOUS
  <2> QED  BY <2>1, <2>2, FilledTraversed
<1>6. Last(g, a, x.key) = n
  <2>1. n \in Traversed(g, a) /\ \A r \in Traversed(g, a) : r <= n
    BY <1>5
  <2> QED  BY <1>1, <2>1, LastIs
<1>7. \A k \in Keys : k # x.key => Last(g, a, k) = Last(f, a, k)
  <2> SUFFICES ASSUME NEW k \in Keys, k # x.key PROVE Last(g, a, k) = Last(f, a, k)
    OBVIOUS
  <2>1. \A r \in 1 .. n - 1 : g[a][r] = f[a][r]
    BY <1>1
  <2>2. \A r \in 1 .. n : g[a][r].key = k => r \in 1 .. n - 1
    BY <1>1
  <2>3. CASE Last(f, a, k) = 0
    <3>1. \A r \in 1 .. n - 1 : f[a][r].key # k
      BY <1>5, <2>3, LastIn
    <3>2. \A r \in Traversed(g, a) : g[a][r].key # k
      BY <1>5, <2>1, <2>2, <3>1
    <3> QED  BY <2>3, <3>2, LastNone
  <2>4. CASE Last(f, a, k) # 0
    <3> DEFINE m == Last(f, a, k)
    <3>1. m \in 1 .. n - 1 /\ f[a][m].key = k /\ \A r \in 1 .. n - 1 : f[a][r].key = k => r <= m
      BY <1>5, <2>4, LastIn
    <3> HIDE DEF m
    <3>2. m \in Traversed(g, a) /\ g[a][m].key = k
      BY <1>5, <2>1, <3>1
    <3>3. \A r \in Traversed(g, a) : g[a][r].key = k => r <= m
      BY <1>5, <2>1, <2>2, <3>1
    <3>4. Last(g, a, k) = m
      BY <3>2, <3>3, LastIs
    <3> QED  BY <3>4 DEF m
  <2> QED  BY <2>3, <2>4
<1>8. x.key \in Keys /\ n # 0
  BY DEF Records
<1>9. \A k \in Keys :
        /\ IndexOf(g, a)[k] = IF k = x.key THEN EntryOf(a, n, x) ELSE IndexOf(f, a)[k]
        /\ Recovered(g)[k] = IF k = x.key THEN ItemIn(x) ELSE Recovered(f)[k]
  <2> TAKE k \in Keys
  <2>1. CASE k = x.key
    BY <1>1, <1>3, <1>6, <1>8, <2>1, RecoveredItem
  <2>2. CASE k # x.key
    <3> DEFINE m == Last(f, a, k)
    <3>1. Last(g, a, k) = m
      BY <1>7, <2>2
    <3>2. m # 0 => m \in 1 .. n - 1
      BY <1>5, LastIn
    <3>3. m # 0 => g[a][m] = f[a][m]
      <4> HIDE DEF m
      <4> QED  BY <1>1, <3>2
    <3> QED  BY <1>1, <1>3, <2>2, <3>1, <3>3, RecoveredItem
  <2> QED  BY <2>1, <2>2
<1>10. IndexOf(g, a) = [IndexOf(f, a) EXCEPT ![x.key] = EntryOf(a, n, x)]
  <2>1. \A h : IndexOf(h, a) = [k \in Keys |-> IndexOf(h, a)[k]]
    BY DEF IndexOf
  <2> QED  BY <1>9, <2>1
<1>11. Recovered(g) = [Recovered(f) EXCEPT ![x.key] = ItemIn(x)]
  <2>1. \A h : Recovered(h) = [k \in Keys |-> Recovered(h)[k]]
    BY DEF Recovered
  <2> QED  BY <1>9, <2>1
<1>12. QED
  BY <1>3, <1>4, <1>10, <1>11

(* A record cut short behind the last one changes nothing. *)
LEMMA AppendedTorn ==
  ASSUME NEW f, FlashOK(f), NEW a \in Areas, ValidArea(f, a), ~ValidArea(f, Other(a)),
         NEW n \in 1 .. Slots, Filled(f, a, n)
  PROVE  Recovered(Put(f, a, n, Bad)) = Recovered(f)
<1> USE SlotsPositive
<1> DEFINE g == Put(f, a, n, Bad)
<1>1. /\ FlashOK(g)
      /\ g[a][n] = Bad
      /\ \A r \in 0 .. Slots : r # n => g[a][r] = f[a][r]
      /\ g[Other(a)] = f[Other(a)]
  <2>1. n \in 0 .. Slots /\ Fits(n, Bad)
    BY DEF Fits
  <2> QED  BY <2>1, PutFacts
<1> HIDE DEF g
<1>2. ValidArea(g, a) /\ ~ValidArea(g, Other(a))
  BY <1>1 DEF ValidArea
<1>3. Chosen(g) = a /\ Chosen(f) = a
  BY <1>2, ChosenOne
<1>4. Traversed(f, a) = 1 .. n - 1
  BY FilledTraversed
<1>5. Traversed(g, a) = Traversed(f, a)
  <2>1. \A s \in Traversed(g, a) : s \in 1 .. n - 1
    <3> TAKE s \in Traversed(g, a)
    <3>1. s \in 1 .. Slots /\ \A r \in 0 .. s : ValidCell(g[a][r])
      BY DEF Traversed
    <3>2. n \notin 0 .. s
      BY <1>1, <3>1, CellFacts
    <3> QED  BY <3>1, <3>2
  <2>2. \A s \in 1 .. n - 1 : s \in Traversed(g, a)
    <3> TAKE s \in 1 .. n - 1
    <3>1. s \in 1 .. Slots /\ \A r \in 0 .. s : ValidCell(f[a][r])
      BY <1>4 DEF Traversed
    <3>2. \A r \in 0 .. s : r \in 0 .. Slots /\ r # n
      BY <3>1
    <3> QED  BY <1>1, <3>1, <3>2 DEF Traversed
  <2> QED  BY <1>4, <2>1, <2>2
<1>6. \A r \in Traversed(f, a) : g[a][r] = f[a][r]
  BY <1>1, <1>4
<1>7. \A k \in Keys : Last(g, a, k) = Last(f, a, k)
  <2> TAKE k \in Keys
  <2>1. {s \in Traversed(g, a) : g[a][s].key = k} = {s \in Traversed(f, a) : f[a][s].key = k}
    BY <1>5, <1>6
  <2> QED  BY <2>1 DEF Last
<1>8. \A k \in Keys : Recovered(g)[k] = Recovered(f)[k]
  <2> TAKE k \in Keys
  <2> DEFINE m == Last(f, a, k)
  <2>1. Last(g, a, k) = m
    BY <1>7
  <2>2. m # 0 => g[a][m] = f[a][m]
    BY <1>6, LastIn
  <2> QED  BY <1>1, <1>3, <2>1, <2>2, RecoveredItem
<1>9. \A h : Recovered(h) = [k \in Keys |-> Recovered(h)[k]]
  BY DEF Recovered
<1> QED  BY <1>8, <1>9 DEF g

(* A record or a spoilt cell in the area that is not valid changes nothing. *)
LEMMA OtherPut ==
  ASSUME NEW f, FlashOK(f), NEW a \in Areas, ValidArea(f, a), ~ValidArea(f, Other(a)),
         NEW s \in 0 .. Slots, NEW x, Fits(s, x), s = 0 => ~ValidCell(x),
         NEW g, g = Put(f, Other(a), s, x)
  PROVE  /\ FlashOK(g) /\ Chosen(g) = a /\ g[a] = f[a]
         /\ ~ValidArea(g, Other(a))
         /\ Recovered(g) = Recovered(f)
<1>1. Other(a) \in Areas /\ Other(Other(a)) = a
  BY Areas01
<1>2. /\ FlashOK(g)
      /\ g[Other(a)][s] = x
      /\ \A r \in 0 .. Slots : r # s => g[Other(a)][r] = f[Other(a)][r]
      /\ g[a] = f[a]
  BY <1>1, PutFacts
<1>3. ~ValidArea(g, Other(a)) /\ ValidArea(g, a)
  BY <1>2, SlotsPositive DEF ValidArea
<1>4. Chosen(g) = a /\ Chosen(f) = a
  BY <1>3, ChosenOne
<1> QED  BY <1>2, <1>3, <1>4, RecoveredSame

(* Erasing the area that is not chosen, or spoiling it, changes nothing. *)
LEMMA OtherErased ==
  ASSUME NEW f, FlashOK(f), NEW a \in Areas, ValidArea(f, a), Chosen(f) = a,
         NEW row, Erased(f, Other(a), row), NEW g, g = Wipe(f, Other(a), row)
  PROVE  /\ FlashOK(g) /\ Chosen(g) = a /\ g[a] = f[a]
         /\ g[Other(a)] = row
         /\ Recovered(g) = Recovered(f)
<1>1. Other(a) \in Areas /\ Other(Other(a)) = a
  BY Areas01
<1>2. FlashOK(g) /\ g[Other(a)] = row /\ g[a] = f[a]
  BY <1>1, EraseFacts
<1>3. g[Other(a)][0] = f[Other(a)][0] \/ ~ValidArea(g, Other(a))
  BY <1>2, SlotsPositive, CellFacts DEF Erased, ValidArea
<1>4. Chosen(g) = a
  BY <1>2, <1>3, ChosenStays
<1> QED  BY <1>2, <1>4, RecoveredSame

-----------------------------------------------------------------------------
(* The operation in progress. *)

(* The steps of the program operation, complete and cut short. *)
LEMMA ProgramFacts ==
  ASSUME FlashOK(flash), NEW a \in Areas, NEW s \in 0 .. Slots, NEW x, Fits(s, x),
         flash[a][s] = Blank
  PROVE  /\ Program(a, s, x) # NoOp /\ ~IsErase(Program(a, s, x))
         /\ Done(Program(a, s, x)) = Put(flash, a, s, x)
         /\ Torn(Program(a, s, x)) = {flash, Put(flash, a, s, x), Put(flash, a, s, Bad)}
<1> USE SlotsPositive
<1> DEFINE op == Program(a, s, x)
<1>1. x \in Contents \cup {Blank, Bad}
  BY DEF Fits, Contents
<1>2. op \in [area : Areas, slot : Int, cell : Contents \cup {Blank, Bad}]
  BY <1>1 DEF Program
<1>3. op # NoOp
  BY <1>2, OpsDistinct
<1>4. op.slot = s /\ op.area = a /\ op.cell = x /\ ~IsErase(op)
  BY DEF Program, IsErase
<1> HIDE DEF op
<1>5. flash \in [Areas -> [0 .. Slots -> Cells]]
  BY DEF FlashOK
<1>6. Done(op) = Put(flash, a, s, x)
  BY <1>4, <1>5 DEF Done, Put
<1>7. Torn(op) = {flash, Put(flash, a, s, x), Put(flash, a, s, Bad)}
  BY <1>3, <1>4, <1>6 DEF Torn, Put
<1> QED  BY <1>3, <1>4, <1>6, <1>7 DEF op

(* The steps of the erase operation, complete and cut short. *)
LEMMA EraseOpFacts ==
  ASSUME FlashOK(flash), NEW a \in Areas
  PROVE  /\ Erase(a) # NoOp /\ IsErase(Erase(a))
         /\ Erased(flash, a, BlankArea)
         /\ Done(Erase(a)) = Wipe(flash, a, BlankArea)
         /\ \A g \in Torn(Erase(a)) :
              \E row : Erased(flash, a, row) /\ g = Wipe(flash, a, row)
<1> USE SlotsPositive
<1> DEFINE op == Erase(a)
<1>1. op \in [area : Areas, slot : Int, cell : Contents \cup {Blank, Bad}]
  BY DEF Erase
<1>2. op # NoOp
  BY <1>1, OpsDistinct
<1>3. op.slot = -1 /\ op.area = a /\ IsErase(op)
  BY DEF Erase, IsErase
<1> HIDE DEF op
<1>4. Erased(flash, a, BlankArea)
  BY DEF Erased, BlankArea, Cells
<1>5. Done(op) = Wipe(flash, a, BlankArea)
  BY <1>3 DEF Done, Wipe
<1>6. ASSUME NEW g \in Torn(op)
      PROVE  \E row : Erased(flash, a, row) /\ g = Wipe(flash, a, row)
  <2>1. PICK kept \in SUBSET (0 .. Slots), bad \in SUBSET (0 .. Slots) :
          g = HalfErased(a, kept, bad)
    BY <1>2, <1>3 DEF Torn
  <2> DEFINE row == [s \in 0 .. Slots |->
                       IF s \in kept THEN flash[a][s] ELSE IF s \in bad THEN Bad ELSE Blank]
  <2>2. \A s \in 0 .. Slots : flash[a][s] \in Cells
    BY DEF FlashOK
  <2>3. Erased(flash, a, row)
    BY <2>2 DEF Erased, Cells
  <2>4. g = Wipe(flash, a, row)
    BY <2>1 DEF HalfErased, Wipe
  <2> HIDE DEF row
  <2> QED  BY <2>3, <2>4
<1> QED  BY <1>2, <1>3, <1>4, <1>5, <1>6 DEF op

(* The operation of each stage (flash_write_area, flash_erase_area). *)
LEMMA OpOf ==
  /\ job.stage = "idle" => Op = NoOp
  /\ job.stage = "init" => Op = InitOp
  /\ job.stage = "write" => Op = Program(ram.active, job.slot, Record(job.call))
  /\ job.stage = "gcItem" => Op = Program(Other(ram.active), 1, GcRecord(job.call))
  /\ job.stage = "gcCopy" => Op = GcCopyOp
  /\ job.stage = "gcMaster" => Op = Program(Other(ram.active), 0, NextVersion)
  /\ job.stage = "gcErase" => Op = Erase(Other(ram.active))
BY DEF Op

(* The record of a call, and the item it stands for. *)
LEMMA RecordFacts ==
  ASSUME NEW c \in Calls
  PROVE  /\ Record(c) \in Records /\ Record(c).key = c.key
         /\ ItemIn(Record(c)) = ItemOf(c)
         /\ \A a, s : EntryOf(a, s, Record(c)) =
              IF c.op = "remove" THEN NoEntry
              ELSE [area |-> a, slot |-> s, once |-> c.op = "set_once"]
         /\ c.key \in Keys /\ c # NoCall
<1>1. /\ c.key \in Keys /\ c.op \in {"set", "set_once", "remove"}
      /\ c.val \in Values \cup {Absent}
  BY DEF Calls
<1>2. Record(c) \in Records
  BY <1>1 DEF Record, Records
<1>3. /\ Record(c).key = c.key /\ Record(c).val = c.val
      /\ Record(c).deleted = (c.op = "remove") /\ Record(c).once = (c.op = "set_once")
  BY DEF Record
<1>4. ItemIn(Record(c)) = ItemOf(c)
  BY <1>3 DEF ItemIn, ItemOf
<1>5. \A a, s : EntryOf(a, s, Record(c)) =
        IF c.op = "remove" THEN NoEntry
        ELSE [area |-> a, slot |-> s, once |-> c.op = "set_once"]
  BY <1>3 DEF EntryOf
<1> QED  BY <1>1, <1>2, <1>3, <1>4, <1>5, CallsDistinct

-----------------------------------------------------------------------------
(* The steps.  Each keeps IInv and is a step of KeyStore or changes none   *)
(* of its variables.                                                       *)

StoreStep == [Store!Next]_(Store!vars)

(* Conflicts are mutual. *)
LEMMA ConflictSymmetric ==
  ASSUME NEW c, NEW d, c # NoCall, d # NoCall, Conflict(c, d)
  PROVE  Conflict(d, c)
BY DEF Conflict

(* RAM and flash in a steady state: the entries lead to the items. *)
LEMMA SteadyItems ==
  ASSUME TypeInv, NEW n, Steady(n)
  PROVE  /\ Chosen(flash) = ram.active /\ ~ValidArea(flash, Other(ram.active))
         /\ \A k \in Keys : /\ EntryOK(flash, k, Entry(k))
                            /\ Entry(k) # NoEntry => Entry(k).area = ram.active
                            /\ Get(flash, Entry(k)) = items[k]
                            /\ IsOnce(items[k]) => Entry(k).once
<1>1. ram.active \in Areas /\ Other(ram.active) \in Areas /\ FlashOK(flash)
  BY Areas01 DEF TypeInv
<1>2. ValidArea(flash, ram.active) /\ ~ValidArea(flash, Other(ram.active))
  BY CellFacts, SlotsPositive DEF Steady, ActiveOK, ValidArea, BlankArea
<1>3. Chosen(flash) = ram.active
  BY <1>1, <1>2, ChosenOne
<1>4. ram.index = IndexOf(flash, ram.active)
  BY DEF Steady
<1>5. \A k \in Keys : /\ EntryOK(flash, k, Entry(k))
                      /\ Entry(k) # NoEntry => Entry(k).area = ram.active
                      /\ Get(flash, Entry(k)) = items[k]
                      /\ IsOnce(items[k]) => Entry(k).once
  <2> TAKE k \in Keys
  <2>1. Entry(k) = IndexOf(flash, ram.active)[k]
    BY <1>4 DEF Entry
  <2>2. /\ EntryOK(flash, k, Entry(k))
        /\ Entry(k) # NoEntry => Entry(k).area = ram.active
    BY <1>1, <2>1, IndexEntry
  <2>3. Get(flash, Entry(k)) = items[k]
    BY <1>3, <2>1 DEF TypeInv, Recovered
  <2>4. IsOnce(items[k]) => Entry(k).once
    <3> SUFFICES ASSUME IsOnce(items[k]) PROVE Entry(k).once
      OBVIOUS
    <3>1. Entry(k).slot # 0
      BY <2>3 DEF IsOnce, Get
    <3>2. EntryOK(flash, k, Entry(k)) /\ Entry(k) # NoEntry
      BY <2>2, <3>1 DEF NoEntry
    <3>3. ValidCell(flash[Entry(k).area][Entry(k).slot])
      BY <3>2, CellFacts DEF EntryOK
    <3>4. items[k].once = Entry(k).once
      BY <2>3, <3>1, <3>3 DEF Get
    <3> QED  BY <3>4 DEF IsOnce
  <2> QED  BY <2>2, <2>3, <2>4
<1> QED  BY <1>2, <1>3, <1>5

(* The checks of do_set before it locks: the call may still be made later, *)
(* because set_once is kept apart.                                         *)
LEMMA CallStep ==
  ASSUME IInv, NEW t \in Threads, NEW c \in Calls, Call(t, c)
  PROVE  IInv' /\ StoreStep
<1>1. /\ up = "on" /\ pend[t] = NoCall /\ MayCall(c) /\ Passes(c)
      /\ pend' = [pend EXCEPT ![t] = c]
      /\ flash' = flash /\ items' = items /\ up' = up /\ ram' = ram /\ job' = job
      /\ failed' = failed /\ reply' = reply
  BY DEF Call, mem
<1>2. pend' \in [Threads -> Calls \cup {NoCall}]
  BY <1>1 DEF IInv, TypeInv
<1>3. TypeInv' /\ PhaseInv'
  BY <1>1, <1>2 DEF IInv, TypeInv, PhaseInv
<1>4. JobInv'
  BY <1>1 DEF IInv, JobInv, Steady, Collecting, Collected, ActiveOK, VersionOK, Entry, Target, Live
<1>5. OnceInv'
  <2> SUFFICES ASSUME "set_once apart" \in Rules PROVE OnceInv'
    BY DEF OnceInv
  <2>1. c # NoCall /\ ~Entry(c.key).once
    BY <1>1, RecordFacts DEF Passes
  <2>2. ~Conflict(c, job.call) /\ \A u \in Threads : ~Conflict(c, pend[u])
    BY <1>1 DEF MayCall
  <2>3. pend'[t] = c /\ \A u \in Threads : u # t => pend'[u] = pend[u]
    BY <1>1 DEF IInv, TypeInv
  <2>4. ASSUME NEW u \in Threads, pend'[u] # NoCall
        PROVE  /\ ~Conflict(pend'[u], job.call)
               /\ \A w \in Threads \ {u} : ~Conflict(pend'[u], pend'[w])
               /\ up = "on" /\ ~failed => ~Entry(pend'[u].key).once
    <3>1. CASE u = t
      BY <2>1, <2>2, <2>3, <3>1
    <3>2. CASE u # t
      <4>1. ~Conflict(pend[u], c)
        BY <2>1, <2>2, <2>3, <2>4, <3>2, ConflictSymmetric
      <4>2. \A w \in Threads \ {u} : ~Conflict(pend'[u], pend'[w])
        BY <2>3, <2>4, <3>2, <4>1 DEF IInv, OnceInv
      <4> QED  BY <2>3, <2>4, <3>2, <4>2 DEF IInv, OnceInv
    <3> QED  BY <3>1, <3>2
  <2> QED  BY <1>1, <2>4 DEF IInv, OnceInv, Entry
<1>6. StoreStep
  BY <1>1 DEF StoreStep, Store!vars
<1> QED  BY <1>3, <1>4, <1>5, <1>6 DEF IInv

(* do_set has the lock: it takes the next slot, or starts                  *)
(* garbage_collection when the area is full.                               *)
LEMMA LockStep ==
  ASSUME Careful, IInv, NEW t \in Threads, Lock(t)
  PROVE  IInv' /\ StoreStep
<1> DEFINE c == pend[t]
           full == ram.free > Slots
<1>1. /\ up = "on" /\ c # NoCall /\ job = Idle /\ ~failed
      /\ full => ram.version < MaxVersion /\ c.op = "set"
      /\ pend' = [pend EXCEPT ![t] = NoCall]
      /\ job' = [stage |-> IF ~full THEN "write"
                           ELSE IF c.op = "remove" THEN "gcCopy" ELSE "gcItem",
                 call |-> c, slot |-> IF full THEN 1 ELSE ram.free]
      /\ ram' = IF full THEN ram ELSE [ram EXCEPT !.free = @ + 1]
      /\ flash' = flash /\ items' = items /\ up' = up /\ failed' = failed /\ reply' = "none"
  BY DEF Lock, mem, Careful
<1>2. c \in Calls /\ c.key \in Keys
  <2>1. c \in Calls
    BY <1>1 DEF IInv, TypeInv
  <2> QED  BY <2>1, RecordFacts
<1>3. Steady(ram.free) /\ ram.free \in Nat /\ ram.free >= 1 /\ ram.free <= Slots + 1
  BY <1>1, SlotsPositive DEF IInv, JobInv, Steady, Filled
<1>4. /\ ram'.index = ram.index /\ ram'.active = ram.active /\ ram'.version = ram.version
      /\ ram'.free = IF full THEN ram.free ELSE ram.free + 1
      /\ ram' \in [active : Areas, version : Nat, free : Nat, index : [Keys -> Entries]]
  BY <1>1, <1>3 DEF IInv, TypeInv
<1>5. pend' \in [Threads -> Calls \cup {NoCall}]
  BY <1>1 DEF IInv, TypeInv
<1>6. /\ job'.call = c /\ job'.slot = IF full THEN 1 ELSE ram.free
      /\ job'.stage = IF full THEN "gcItem" ELSE "write"
  BY <1>1
<1>7. TypeInv'
  <2>1. job' \in [stage : Stages, call : Calls \cup {NoCall}, slot : Nat]
    BY <1>1, <1>2, <1>3 DEF Stages
  <2> QED  BY <1>1, <1>4, <1>5, <2>1 DEF IInv, TypeInv
<1>8. PhaseInv'
  BY <1>1, <1>6 DEF PhaseInv
<1>10. /\ ActiveOK' /\ ram'.index = IndexOf(flash', ram'.active)
       /\ flash'[Other(ram'.active)] = BlankArea /\ Filled(flash', ram'.active, ram.free)
  BY <1>1, <1>3, <1>4 DEF Steady, ActiveOK, VersionOK
<1>11. JobInv'
  <2>1. CASE full
    <3>1. job'.stage = "gcItem" /\ ram'.free = ram.free /\ c.op = "set"
      BY <1>1, <1>4, <1>6, <2>1
    <3>2. Steady(ram.free)'
      BY <1>10, <3>1 DEF Steady
    <3> QED  BY <1>1, <1>4, <1>6, <2>1, <3>1, <3>2 DEF JobInv, Idle
  <2>2. CASE ~full
    <3>1. job'.stage = "write" /\ job'.slot = ram.free /\ ram'.free = ram.free + 1
      BY <1>4, <1>6, <2>2
    <3>2. Steady(job.slot)'
      BY <1>10, <3>1 DEF Steady
    <3>3. ram.free <= Slots
      BY <1>3, <2>2, SlotsPositive
    <3> QED  BY <3>1, <3>2, <3>3 DEF JobInv, Idle
  <2> QED  BY <2>1, <2>2
<1>12. OnceInv'
  <2> SUFFICES ASSUME "set_once apart" \in Rules PROVE OnceInv'
    BY DEF OnceInv
  <2>1. pend'[t] = NoCall /\ \A u \in Threads : u # t => pend'[u] = pend[u]
    BY <1>1 DEF IInv, TypeInv
  <2>2. ASSUME NEW u \in Threads, pend'[u] # NoCall
        PROVE  /\ ~Conflict(pend'[u], job'.call)
               /\ \A w \in Threads \ {u} : ~Conflict(pend'[u], pend'[w])
               /\ up' = "on" /\ ~failed' => ~ram'.index[pend'[u].key].once
    <3>1. u # t /\ pend'[u] = pend[u] /\ pend[u] # NoCall
      BY <2>1, <2>2
    <3>2. ~Conflict(pend[u], c)
      BY <3>1 DEF IInv, OnceInv
    <3>3. \A w \in Threads \ {u} : ~Conflict(pend[u], pend[w])
      BY <3>1 DEF IInv, OnceInv
    <3>4. \A w : ~Conflict(pend[u], NoCall)
      BY DEF Conflict
    <3>5. ~Entry(pend[u].key).once
      BY <1>1, <3>1 DEF IInv, OnceInv
    <3> QED  BY <1>4, <1>6, <2>1, <3>1, <3>2, <3>3, <3>4, <3>5 DEF Entry
  <2>3. ~IsOnce(items'[c.key])
    <3>1. ~Entry(c.key).once
      BY <1>1 DEF IInv, OnceInv
    <3> QED  BY <1>1, <1>2, <1>3, <3>1, SteadyItems DEF IInv
  <2> QED  BY <1>6, <2>2, <2>3 DEF OnceInv, Entry
<1>13. StoreStep
  <2>1. job.call = NoCall
    BY <1>1 DEF Idle
  <2> QED  BY <1>1, <1>2, <1>6, <2>1 DEF StoreStep, Store!Next, Store!Begin
<1> QED  BY <1>7, <1>8, <1>11, <1>12, <1>13 DEF IInv

(* write_record of do_set: the slot is blank, and the record, when all of  *)
(* it is there, is the item of the call.                                   *)
LEMMA WriteOp ==
  ASSUME IInv, job.stage = "write"
  PROVE  /\ job.call \in Calls /\ job.call # NoCall /\ up = "on" /\ ~failed
         /\ Op # NoOp /\ ~IsErase(Op) /\ flash[Op.area][Op.slot] = Blank
         /\ Done(Op) = Put(flash, ram.active, job.slot, Record(job.call))
         /\ Torn(Op) = {flash, Done(Op), Put(flash, ram.active, job.slot, Bad)}
         /\ FlashOK(Done(Op)) /\ FlashOK(Put(flash, ram.active, job.slot, Bad))
         /\ Recovered(Done(Op)) = ApplyCall(items, job.call)
         /\ Recovered(Put(flash, ram.active, job.slot, Bad)) = items
<1> USE SlotsPositive
<1> DEFINE a == ram.active
           n == job.slot
           x == Record(job.call)
<1>1. /\ job.call \in Calls /\ job.call # NoCall
      /\ up = "on" /\ ~failed
  BY DEF IInv, TypeInv, PhaseInv, Idle
<1>2. a \in Areas /\ FlashOK(flash) /\ items = Recovered(flash)
  BY DEF IInv, TypeInv
<1>3. Steady(n) /\ n \in 1 .. Slots
  BY DEF IInv, JobInv, Steady, Filled
<1>4. ValidArea(flash, a) /\ ~ValidArea(flash, Other(a)) /\ Filled(flash, a, n)
  BY <1>3, SteadyItems DEF IInv, Steady, ActiveOK
<1>5. flash[a][n] = Blank
  BY <1>3, <1>4 DEF Filled
<1>6. x \in Records /\ x.key = job.call.key /\ ItemIn(x) = ItemOf(job.call)
  BY <1>1, RecordFacts
<1>7. n \in 0 .. Slots /\ Fits(n, x) /\ Fits(n, Bad)
  BY <1>3, <1>6 DEF Fits
<1>8. Op = Program(a, n, x) /\ Op.area = a /\ Op.slot = n
  BY OpOf DEF Program
<1> HIDE DEF a, n, x
<1>9. /\ Op # NoOp /\ ~IsErase(Op)
      /\ Done(Op) = Put(flash, a, n, x)
      /\ Torn(Op) = {flash, Done(Op), Put(flash, a, n, Bad)}
  BY <1>2, <1>5, <1>7, <1>8, ProgramFacts
<1>10. FlashOK(Put(flash, a, n, x)) /\ FlashOK(Put(flash, a, n, Bad))
  BY <1>2, <1>7, PutFacts
<1>11. Recovered(Put(flash, a, n, x)) = [items EXCEPT ![x.key] = ItemIn(x)]
  BY <1>2, <1>3, <1>4, <1>6, Appended
<1>12. Recovered(Put(flash, a, n, Bad)) = items
  BY <1>2, <1>3, <1>4, AppendedTorn
<1> QED  BY <1>1, <1>5, <1>6, <1>8, <1>9, <1>10, <1>11, <1>12 DEF ApplyCall, a, n, x

(* write_record of do_set completes: the call takes effect, and the entry  *)
(* leads to the new record.                                                *)
LEMMA WriteRecordStep ==
  ASSUME IInv, WriteRecord
  PROVE  IInv' /\ StoreStep
<1> USE SlotsPositive
<1> DEFINE a == ram.active
           n == job.slot
           c == job.call
<1>1. /\ job.stage = "write"
      /\ flash' = Done(Op) /\ items' = Recovered(flash')
      /\ ram' = [ram EXCEPT !.index[c.key] =
                   IF c.op = "remove" THEN NoEntry
                   ELSE [area |-> a, slot |-> n, once |-> c.op = "set_once"]]
      /\ job' = Idle /\ up' = up /\ pend' = pend /\ failed' = failed
      /\ reply' = IF c = NoCall THEN reply ELSE "success"
  BY DEF WriteRecord, Becomes, Answer
<1>2. /\ c \in Calls /\ c # NoCall /\ up = "on" /\ ~failed
      /\ flash' = Put(flash, a, n, Record(c)) /\ FlashOK(flash')
      /\ items' = ApplyCall(items, c)
  BY <1>1, WriteOp
<1>3. a \in Areas /\ FlashOK(flash) /\ ram.index \in [Keys -> Entries]
  BY DEF IInv, TypeInv
<1>4. Steady(n) /\ n \in 1 .. Slots /\ ram.free = n + 1
  BY <1>1 DEF IInv, JobInv, Steady, Filled
<1>5. ValidArea(flash, a) /\ ~ValidArea(flash, Other(a)) /\ Filled(flash, a, n)
      /\ ram.index = IndexOf(flash, a) /\ flash[Other(a)] = BlankArea /\ VersionOK
  BY <1>4, SteadyItems DEF IInv, Steady, ActiveOK
<1>6. /\ Record(c) \in Records /\ Record(c).key = c.key /\ c.key \in Keys
      /\ EntryOf(a, n, Record(c)) = IF c.op = "remove" THEN NoEntry
            ELSE [area |-> a, slot |-> n, once |-> c.op = "set_once"]
  BY <1>2, RecordFacts
<1> DEFINE e == EntryOf(a, n, Record(c))
<1>7. e \in Entries /\ (e.once => c.op = "set_once")
  <2> HIDE DEF a, n, c
  <2>1. CASE c.op = "remove"
    <3>1. e = NoEntry
      BY <1>6, <2>1
    <3> HIDE DEF e
    <3> QED  BY <3>1 DEF Entries, NoEntry, Areas
  <2>2. CASE c.op # "remove"
    <3>1. e = [area |-> a, slot |-> n, once |-> c.op = "set_once"]
      BY <1>6, <2>2
    <3>2. (c.op = "set_once") \in BOOLEAN /\ n \in 0 .. Slots
      BY <1>4 DEF n
    <3>3. a \in Areas
      BY <1>3 DEF a
    <3> HIDE DEF e
    <3> QED  BY <3>1, <3>2, <3>3 DEF Entries
  <2> QED  BY <2>1, <2>2
<1>8. /\ ram'.index = [ram.index EXCEPT ![c.key] = e] /\ ram'.active = a
      /\ ram'.version = ram.version /\ ram'.free = ram.free
      /\ ram' \in [active : Areas, version : Nat, free : Nat, index : [Keys -> Entries]]
  <2> HIDE DEF e
  <2>1. ram' = [ram EXCEPT !.index[c.key] = e]
    BY <1>1, <1>6 DEF e
  <2> QED  BY <1>7, <2>1 DEF IInv, TypeInv
<1> HIDE DEF e
<1>9. Filled(flash', a, n + 1) /\ IndexOf(flash', a) = [ram.index EXCEPT ![c.key] = e]
  BY <1>2, <1>3, <1>4, <1>5, <1>6, Appended DEF e
<1>10. flash'[Other(a)] = BlankArea /\ flash'[a][0] = flash[a][0]
  <2>1. n \in 0 .. Slots /\ Fits(n, Record(c)) /\ n # 0 /\ 0 \in 0 .. Slots
    BY <1>4, <1>6 DEF Fits
  <2>2. flash'[a][0] = flash[a][0] /\ flash'[Other(a)] = flash[Other(a)]
    BY <1>2, <1>3, <2>1, PutFacts
  <2> QED  BY <1>5, <2>2
<1>11. TypeInv'
  <2>1. Idle \in [stage : Stages, call : Calls \cup {NoCall}, slot : Nat]
    BY DEF Idle, Stages
  <2> QED  BY <1>1, <1>2, <1>8, <2>1 DEF IInv, TypeInv
<1>12. PhaseInv'
  BY <1>1, <1>2 DEF PhaseInv, Idle
<1>13. Steady(ram.free)'
  <2>1. VersionOK' /\ ValidArea(flash, ram.active)'
    <3>1. a = 0 => flash'[0][0] = flash[0][0]
      BY <1>10
    <3> QED  BY <1>5, <1>8, <1>10, <3>1 DEF VersionOK, ValidArea
  <2> QED  BY <1>4, <1>8, <1>9, <1>10, <2>1 DEF Steady, ActiveOK
<1>14. JobInv'
  BY <1>1, <1>13 DEF JobInv, Idle
<1>15. OnceInv'
  <2> SUFFICES ASSUME "set_once apart" \in Rules PROVE OnceInv'
    BY DEF OnceInv
  <2>1. ASSUME NEW u \in Threads, pend[u] # NoCall
        PROVE  /\ ~Conflict(pend[u], NoCall)
               /\ \A w \in Threads \ {u} : ~Conflict(pend[u], pend[w])
               /\ ~ram'.index[pend[u].key].once
    <3>1. /\ ~Conflict(pend[u], c) /\ ~ram.index[pend[u].key].once
          /\ \A w \in Threads \ {u} : ~Conflict(pend[u], pend[w])
      BY <1>2, <2>1 DEF IInv, OnceInv, Entry
    <3>2. pend[u].key = c.key => c.op # "set_once"
      BY <1>2, <3>1 DEF Conflict
    <3>3. pend[u].key \in Keys
      BY <2>1, RecordFacts DEF IInv, TypeInv
    <3>4. ~ram'.index[pend[u].key].once
      BY <1>3, <1>6, <1>7, <1>8, <3>1, <3>2, <3>3
    <3>5. ~Conflict(pend[u], NoCall)
      BY DEF Conflict
    <3> QED  BY <3>1, <3>4, <3>5
  <2>2. job'.call = NoCall
    BY <1>1 DEF Idle
  <2> QED  BY <1>1, <2>1, <2>2 DEF OnceInv, Entry
<1>16. StoreStep
  <2>1. job'.call = NoCall
    BY <1>1 DEF Idle
  <2> QED  BY <1>1, <1>2, <2>1 DEF StoreStep, Store!Next, Store!Succeed
<1> QED  BY <1>11, <1>12, <1>14, <1>15, <1>16 DEF IInv

-----------------------------------------------------------------------------
(* garbage_collection. *)

(* An entry is as good in a flash that has the same record there. *)
LEMMA EntryKept ==
  ASSUME NEW f, NEW g, NEW k, NEW e, EntryOK(f, k, e),
         e # NoEntry => g[e.area][e.slot] = f[e.area][e.slot]
  PROVE  EntryOK(g, k, e) /\ Get(g, e) = Get(f, e)
<1>1. CASE e = NoEntry
  BY <1>1 DEF EntryOK, Get, NoEntry
<1>2. CASE e # NoEntry
  BY <1>2 DEF EntryOK, Get
<1> QED  BY <1>1, <1>2

Enter(index, k, e) == [index EXCEPT ![k] = e]

(* copy_record, and the record of the call: one more record in the area. *)
LEMMA Gather ==
  ASSUME NEW f, FlashOK(f), NEW b \in Areas, NEW n \in 1 .. Slots,
         NEW i \in [Keys -> Entries], NEW old, Gathered(f, b, i, n, old),
         NEW x \in Records, x.deleted = FALSE, \A s \in 1 .. n - 1 : f[b][s].key # x.key,
         NEW new, new[x.key] = ItemIn(x), \A k \in Keys : k # x.key => new[k] = old[k],
         NEW g, g = Put(f, b, n, x),
         NEW j, j = Enter(i, x.key, EntryOf(b, n, x))
  PROVE  Gathered(g, b, j, n + 1, new)
<1> USE SlotsPositive
<1>1. /\ FlashOK(g) /\ g[b][n] = x
      /\ \A r \in 0 .. Slots : r # n => g[b][r] = f[b][r]
      /\ g[Other(b)] = f[Other(b)]
  <2>1. n \in 0 .. Slots /\ Fits(n, x)
    BY DEF Fits
  <2> QED  BY <2>1, PutFacts
<1>2. x.key \in Keys
  BY DEF Records
<1> DEFINE e == EntryOf(b, n, x)
<1>3. j[x.key] = e /\ \A k \in Keys : k # x.key => j[k] = i[k]
  BY <1>2 DEF Enter
<1>e. EntryOK(g, x.key, e) /\ Get(g, e) = ItemIn(x) /\ e.area = b /\ e.slot = n
  <2>1. e.area = b /\ e.slot = n /\ e.once = x.once
    BY DEF EntryOf
  <2> HIDE DEF e
  <2>2. n # 0 /\ ValidCell(x)
    BY CellFacts
  <2>3. EntryOK(g, x.key, e)
    BY <1>1, <2>1 DEF EntryOK
  <2>4. Get(g, e) = ItemIn(x)
    BY <1>1, <2>1, <2>2 DEF Get, ItemIn
  <2> QED  BY <2>1, <2>3, <2>4
<1> HIDE DEF e
<1>4. g[b][0] = Blank
  BY <1>1 DEF Gathered
<1>5. Filled(g, b, n + 1)
  <2>1. \A s \in 1 .. (n + 1) - 1 : ValidCell(g[b][s])
    <3> TAKE s \in 1 .. (n + 1) - 1
    <3>1. CASE s = n
      BY <1>1, <3>1, CellFacts
    <3>2. CASE s # n
      <4>1. s \in 1 .. n - 1 /\ g[b][s] = f[b][s]
        BY <1>1, <3>2
      <4> QED  BY <4>1 DEF Gathered, Filled
    <3> QED  BY <3>1, <3>2
  <2>2. \A s \in n + 1 .. Slots : g[b][s] = Blank
    <3> TAKE s \in n + 1 .. Slots
    <3>1. s \in n .. Slots /\ g[b][s] = f[b][s]
      BY <1>1
    <3> QED  BY <3>1 DEF Gathered, Filled
  <2> QED  BY <2>1, <2>2 DEF Filled
<1>6. \A k \in Keys : EntryOK(g, k, j[k]) /\ Get(g, j[k]) = new[k]
  <2> TAKE k \in Keys
  <2>1. CASE k = x.key
    BY <1>1, <1>3, <1>e, <2>1
  <2>2. CASE k # x.key
    <3> DEFINE d == i[k]
    <3>1. j[k] = d /\ EntryOK(f, k, d) /\ Get(f, d) = new[k] /\ d \in Entries
      BY <1>3, <2>2 DEF Gathered
    <3> HIDE DEF d
    <3>2. d # NoEntry => g[d.area][d.slot] = f[d.area][d.slot]
      <4> SUFFICES ASSUME d # NoEntry PROVE g[d.area][d.slot] = f[d.area][d.slot]
        OBVIOUS
      <4>1. d.area \in Areas /\ d.slot \in 1 .. Slots /\ f[d.area][d.slot] \in Records
        BY <3>1 DEF EntryOK, Entries
      <4>2. CASE d.area = b
        <5>1. f[b][n] = Blank
          BY DEF Gathered, Filled
        <5>2. d.slot # n
          BY <4>1, <4>2, <5>1, CellFacts
        <5> QED  BY <1>1, <4>1, <4>2, <5>2
      <4>3. CASE d.area # b
        <5>1. d.area = Other(b)
          BY <4>1, <4>3 DEF Areas, Other
        <5> QED  BY <1>1, <5>1
      <4> QED  BY <4>2, <4>3
    <3> QED  BY <3>1, <3>2, EntryKept
  <2> QED  BY <2>1, <2>2
<1>7. \A s \in 1 .. (n + 1) - 1 : j[g[b][s].key].area = b /\ j[g[b][s].key].slot = s
  <2> TAKE s \in 1 .. (n + 1) - 1
  <2>1. CASE s = n
    BY <1>1, <1>3, <1>e, <2>1
  <2>2. CASE s # n
    <3>1. s \in 1 .. n - 1 /\ g[b][s] = f[b][s] /\ s \in 1 .. Slots
      BY <1>1, <2>2
    <3>2. f[b][s].key # x.key /\ f[b][s].key \in Keys
      BY <3>1 DEF Gathered, Filled, FlashOK, Records
    <3> QED  BY <1>3, <3>1, <3>2 DEF Gathered
  <2> QED  BY <2>1, <2>2
<1> QED  BY <1>4, <1>5, <1>6, <1>7 DEF Gathered

AllIn(index, b) == \A k \in Keys : index[k].slot = 0 \/ index[k].area = b

(* The master record: the entries collected are those init would build, and *)
(* the items found are those the collection was to leave.                  *)
LEMMA MasterWritten ==
  ASSUME NEW f, FlashOK(f), NEW b \in Areas, NEW n, NEW i \in [Keys -> Entries], NEW target,
         Gathered(f, b, i, n, target), AllIn(i, b),
         NEW v \in Nat, v >= 1, NEW g, g = Put(f, b, 0, v), Chosen(g) = b
  PROVE  /\ Filled(g, b, n) /\ IndexOf(g, b) = i
         /\ \A k \in Keys : Recovered(g)[k] = target[k]
<1> USE SlotsPositive
<1>1. /\ FlashOK(g) /\ g[b][0] = v
      /\ \A r \in 0 .. Slots : r # 0 => g[b][r] = f[b][r]
      /\ g[Other(b)] = f[Other(b)]
  <2>1. 0 \in 0 .. Slots /\ Fits(0, v)
    BY DEF Fits
  <2> QED  BY <2>1, PutFacts
<1>2. n \in 1 .. Slots + 1 /\ Filled(f, b, n)
  BY DEF Gathered, Filled
<1>3. \A s \in 1 .. Slots : g[b][s] = f[b][s]
  BY <1>1
<1>4. Filled(g, b, n)
  BY <1>2, <1>3 DEF Filled
<1>5. ValidArea(g, b)
  BY <1>1, CellFacts DEF ValidArea
<1>6. Traversed(g, b) = 1 .. n - 1
  BY <1>4, <1>5, FilledTraversed
<1>7. ASSUME NEW k \in Keys
      PROVE  IndexOf(g, b)[k] = i[k]
  <2> DEFINE e == i[k]
  <2>1. e \in Entries /\ EntryOK(f, k, e) /\ (e.slot = 0 \/ e.area = b)
    BY DEF Gathered, AllIn
  <2>2. \A s \in 1 .. n - 1 : f[b][s].key = k => e.area = b /\ e.slot = s
    BY DEF Gathered
  <2> HIDE DEF e
  <2>3. CASE e = NoEntry
    <3>1. e.slot = 0
      BY <2>3 DEF NoEntry
    <3>2. \A r \in Traversed(g, b) : g[b][r].key # k
      BY <1>2, <1>3, <1>6, <2>2, <3>1
    <3>3. Last(g, b, k) = 0
      BY <3>2, LastNone
    <3> QED  BY <1>1, <2>3, <3>3, RecoveredItem DEF e
  <2>4. CASE e # NoEntry
    <3> DEFINE s == e.slot
               x == f[b][s]
    <3>1. s \in 1 .. Slots /\ e.area = b /\ x \in Records /\ x.key = k /\ ~x.deleted
          /\ x.once = e.once
      BY <2>1, <2>4 DEF EntryOK
    <3>2. s \in 1 .. n - 1
      <4>1. s \notin n .. Slots
        BY <1>2, <3>1, CellFacts DEF Filled
      <4> QED  BY <1>2, <3>1, <4>1
    <3>3. \A r \in Traversed(g, b) : g[b][r].key = k => r <= s
      <4> TAKE r \in Traversed(g, b)
      <4>1. r \in 1 .. n - 1 /\ g[b][r] = f[b][r]
        BY <1>2, <1>3, <1>6
      <4>2. f[b][r].key = k => s = r
        BY <2>2, <4>1
      <4> QED  BY <3>2, <4>1, <4>2
    <3>4. s \in Traversed(g, b) /\ g[b][s] = x
      BY <1>3, <1>6, <3>1, <3>2
    <3>5. Last(g, b, k) = s /\ s # 0
      BY <3>1, <3>3, <3>4, LastIs
    <3>6. IndexOf(g, b)[k] = EntryOf(b, s, x)
      BY <1>1, <3>4, <3>5, RecoveredItem
    <3>7. EntryOf(b, s, x) = [area |-> e.area, slot |-> e.slot, once |-> e.once]
      BY <3>1 DEF EntryOf
    <3>8. e = [area |-> e.area, slot |-> e.slot, once |-> e.once]
      BY <2>1 DEF Entries
    <3> QED  BY <3>6, <3>7, <3>8 DEF e
  <2> QED  BY <2>3, <2>4
<1>8. IndexOf(g, b) = i
  <2>1. IndexOf(g, b) = [k \in Keys |-> IndexOf(g, b)[k]]
    BY DEF IndexOf
  <2> QED  BY <1>7, <2>1
<1>9. ASSUME NEW k \in Keys
      PROVE  Recovered(g)[k] = target[k]
  <2> DEFINE e == i[k]
  <2>1. e \in Entries /\ EntryOK(f, k, e) /\ (e.slot = 0 \/ e.area = b) /\ Get(f, e) = target[k]
    BY DEF Gathered, AllIn
  <2>2. Recovered(g)[k] = Get(g, e)
    BY <1>8 DEF Recovered
  <2> HIDE DEF e
  <2>3. e # NoEntry => g[e.area][e.slot] = f[e.area][e.slot]
    BY <1>3, <2>1 DEF EntryOK
  <2>4. Get(g, e) = Get(f, e)
    BY <2>1, <2>3, EntryKept
  <2> QED  BY <2>1, <2>2, <2>4
<1> QED  BY <1>4, <1>8, <1>9

(* A collection starts with a blank area and the entries of the other. *)
LEMMA GatherNone ==
  ASSUME NEW f, FlashOK(f), NEW a \in Areas, ValidArea(f, a), f[Other(a)] = BlankArea
  PROVE  Gathered(f, Other(a), IndexOf(f, a), 1, Recovered(f))
<1> USE SlotsPositive
<1>1. f[Other(a)][0] = Blank /\ Filled(f, Other(a), 1)
  BY DEF BlankArea, Filled
<1>2. Chosen(f) = a
  BY <1>1, CellFacts, ChosenOne DEF ValidArea
<1>3. \A k \in Keys : EntryOK(f, k, IndexOf(f, a)[k])
  BY IndexEntry
<1>4. \A k \in Keys : Get(f, IndexOf(f, a)[k]) = Recovered(f)[k]
  BY <1>2 DEF Recovered
<1>5. 1 .. 1 - 1 = {}
  OBVIOUS
<1> QED  BY <1>1, <1>3, <1>4, <1>5 DEF Gathered

(* A record programmed in the other area: it was blank, and nothing shows. *)
LEMMA OtherProgrammed ==
  ASSUME TypeInv, ValidArea(flash, ram.active), NEW n \in 1 .. Slots, NEW x \in Records,
         flash[Other(ram.active)][0] = Blank, flash[Other(ram.active)][n] = Blank,
         Op = Program(Other(ram.active), n, x)
  PROVE  /\ Op # NoOp /\ ~IsErase(Op) /\ flash[Op.area][Op.slot] = Blank
         /\ Done(Op) = Put(flash, Other(ram.active), n, x)
         /\ Done(Op) \in Torn(Op)
         /\ \A g \in Torn(Op) : /\ FlashOK(g) /\ Recovered(g) = items
                                /\ g[ram.active] = flash[ram.active]
<1> USE SlotsPositive
<1> DEFINE a == ram.active
           b == Other(ram.active)
<1>1. a \in Areas /\ b \in Areas /\ FlashOK(flash) /\ items = Recovered(flash)
  BY Areas01 DEF TypeInv
<1>2. ~ValidArea(flash, b)
  BY CellFacts DEF ValidArea
<1>3. n \in 0 .. Slots /\ n # 0 /\ Fits(n, x) /\ Fits(n, Bad)
  BY DEF Fits
<1>4. Op.area = b /\ Op.slot = n
  BY DEF Program
<1>5. /\ Op # NoOp /\ ~IsErase(Op) /\ Done(Op) = Put(flash, b, n, x)
      /\ Torn(Op) = {flash, Put(flash, b, n, x), Put(flash, b, n, Bad)}
  BY <1>1, <1>3, ProgramFacts
<1>6. \A y : Fits(n, y) => LET g == Put(flash, b, n, y)
                           IN FlashOK(g) /\ Recovered(g) = items /\ g[a] = flash[a]
  BY <1>1, <1>2, <1>3, OtherPut
<1> QED  BY <1>1, <1>3, <1>4, <1>5, <1>6

(* The first record of a collection is that of the call. *)
LEMMA GcItemOp ==
  ASSUME IInv, job.stage = "gcItem"
  PROVE  /\ job.call \in Calls /\ job.call # NoCall /\ up = "on" /\ ~failed
         /\ GcRecord(job.call) \in Records /\ GcRecord(job.call).key = job.call.key
         /\ GcRecord(job.call).deleted = FALSE /\ GcRecord(job.call).once = FALSE
         /\ ItemIn(GcRecord(job.call)) = ItemOf(job.call)
         /\ Op # NoOp /\ ~IsErase(Op) /\ flash[Op.area][Op.slot] = Blank
         /\ Done(Op) = Put(flash, Other(ram.active), 1, GcRecord(job.call))
         /\ Done(Op) \in Torn(Op)
         /\ \A g \in Torn(Op) : /\ FlashOK(g) /\ Recovered(g) = items
                                /\ g[ram.active] = flash[ram.active]
<1> USE SlotsPositive
<1> DEFINE c == job.call
<1>1. c \in Calls /\ c # NoCall /\ up = "on" /\ ~failed /\ TypeInv
  BY DEF IInv, TypeInv, PhaseInv, Idle
<1>2. Steady(ram.free) /\ c.op = "set"
  BY DEF IInv, JobInv
<1>3. ValidArea(flash, ram.active) /\ flash[Other(ram.active)] = BlankArea
  BY <1>2 DEF Steady, ActiveOK
<1>4. 1 \in 1 .. Slots /\ flash[Other(ram.active)][0] = Blank /\ flash[Other(ram.active)][1] = Blank
  BY <1>3 DEF BlankArea
<1>5. Op = Program(Other(ram.active), 1, GcRecord(c))
  BY OpOf
<1>6. Record(c) \in Records /\ c.key \in Keys
  BY <1>1, RecordFacts
<1>7. /\ GcRecord(c) \in Records /\ GcRecord(c).key = c.key /\ GcRecord(c).val = c.val
      /\ GcRecord(c).deleted = FALSE /\ GcRecord(c).once = FALSE
  BY <1>2, <1>6 DEF GcRecord, Record, Records
<1>8. ItemIn(GcRecord(c)) = ItemOf(c)
  BY <1>2, <1>7 DEF ItemIn, ItemOf
<1> QED  BY <1>1, <1>3, <1>4, <1>5, <1>7, <1>8, OtherProgrammed

(* A later one is a copy of the record of the next live key. *)
LEMMA GcCopyOpIs ==
  ASSUME IInv, job.stage = "gcCopy", Live # {}, job.slot <= Slots
  PROVE  LET x == flash[ram.active][Entry(NextLive).slot]
         IN /\ NextLive \in Keys /\ x \in Records /\ x.key = NextLive /\ x.deleted = FALSE
            /\ Entry(NextLive).area = ram.active /\ x.once = Entry(NextLive).once
            /\ Entry(NextLive) # NoEntry /\ job.slot \in 1 .. Slots
            /\ Op # NoOp /\ ~IsErase(Op) /\ flash[Op.area][Op.slot] = Blank
            /\ Done(Op) = Put(flash, Other(ram.active), job.slot, x)
            /\ Done(Op) \in Torn(Op)
            /\ \A g \in Torn(Op) : /\ FlashOK(g) /\ Recovered(g) = items
                                   /\ g[ram.active] = flash[ram.active]
<1> USE SlotsPositive
<1> DEFINE k == NextLive
           y == flash[ram.active][Entry(NextLive).slot]
<1>1. Live \subseteq Nat /\ Live \subseteq Keys
  BY SizesAreNats DEF Live, Keys
<1>2. k \in Live
  BY <1>1, MinIn DEF NextLive
<1>3. k \in Keys /\ Entry(k).slot # 0 /\ Entry(k).area = ram.active
  BY <1>2 DEF Live, Entry
<1>4. TypeInv /\ Collecting
  BY DEF IInv, JobInv
<1>5. EntryOK(flash, k, Entry(k)) /\ Entry(k) # NoEntry
  BY <1>3, <1>4 DEF Collecting, Gathered, Entry, NoEntry
<1>6. y \in Records /\ y.key = k /\ y.deleted = FALSE /\ y.once = Entry(k).once
  <2>1. y \in Records /\ y.key = k /\ ~y.deleted /\ y.once = Entry(k).once
    BY <1>3, <1>5 DEF EntryOK
  <2>2. y.deleted \in BOOLEAN
    BY <2>1 DEF Records
  <2> HIDE DEF y
  <2> QED  BY <2>1, <2>2
<1>7. /\ job.slot \in 1 .. Slots /\ ValidArea(flash, ram.active)
      /\ flash[Other(ram.active)][0] = Blank /\ flash[Other(ram.active)][job.slot] = Blank
  BY <1>4 DEF Collecting, Gathered, Filled, ActiveOK
<1>8. Op = Program(Other(ram.active), job.slot, y)
  BY OpOf DEF GcCopyOp, Entry
<1> HIDE DEF k, y
<1>9. /\ Op # NoOp /\ ~IsErase(Op) /\ flash[Op.area][Op.slot] = Blank
      /\ Done(Op) = Put(flash, Other(ram.active), job.slot, y)
      /\ Done(Op) \in Torn(Op)
      /\ \A g \in Torn(Op) : /\ FlashOK(g) /\ Recovered(g) = items
                             /\ g[ram.active] = flash[ram.active]
  BY <1>4, <1>6, <1>7, <1>8, OtherProgrammed
<1> QED  BY <1>3, <1>5, <1>6, <1>7, <1>9 DEF k, y

(* Steps of a collection make no key one that was set once. *)
LEMMA OnceKept ==
  ASSUME IInv, pend' = pend, job'.call \in {job.call, NoCall}, failed => failed',
         up' = "on" /\ ~failed' =>
           \A k \in Keys : ram'.index[k].once => ram.index[k].once,
         job'.call # NoCall /\ job'.stage # "gcErase" =>
           job.stage # "gcErase" /\ items' = items
  PROVE  OnceInv'
<1> SUFFICES ASSUME "set_once apart" \in Rules PROVE OnceInv'
  BY DEF OnceInv
<1>1. ASSUME NEW t \in Threads, pend[t] # NoCall
      PROVE  /\ ~Conflict(pend[t], job'.call)
             /\ \A u \in Threads \ {t} : ~Conflict(pend[t], pend[u])
             /\ up' = "on" /\ ~failed' => ~ram'.index[pend[t].key].once
  <2>1. /\ ~Conflict(pend[t], job.call)
        /\ \A u \in Threads \ {t} : ~Conflict(pend[t], pend[u])
        /\ up = "on" /\ ~failed => ~ram.index[pend[t].key].once
    BY <1>1 DEF IInv, OnceInv, Entry
  <2>2. up = "on"
    BY <1>1 DEF IInv, PhaseInv
  <2>3. ~Conflict(pend[t], NoCall)
    BY DEF Conflict
  <2>4. pend[t].key \in Keys
    BY <1>1, RecordFacts DEF IInv, TypeInv
  <2> QED  BY <2>1, <2>2, <2>3, <2>4
<1>2. job'.call # NoCall /\ job'.stage # "gcErase" => ~IsOnce(items'[job'.call.key])
  BY DEF IInv, OnceInv
<1> QED  BY <1>1, <1>2 DEF OnceInv, Entry

(* garbage_collection writes the record of the call first: nothing shows   *)
(* before the master record is there.                                      *)
LEMMA GcItemStep ==
  ASSUME IInv, GcItem
  PROVE  IInv' /\ StoreStep
<1> USE SlotsPositive
<1> DEFINE a == ram.active
           b == Other(ram.active)
           c == job.call
           x == GcRecord(job.call)
<1>1. /\ job.stage = "gcItem"
      /\ flash' = Done(Op) /\ items' = Recovered(flash')
      /\ ram' = [ram EXCEPT !.index[c.key] =
                   [area |-> b, slot |-> 1, once |-> c.op = "set_once"]]
      /\ job' = [job EXCEPT !.stage = "gcCopy", !.slot = 2]
      /\ up' = up /\ pend' = pend /\ failed' = failed /\ reply' = reply
  BY DEF GcItem, Becomes
<1>2. /\ c \in Calls /\ c # NoCall /\ up = "on" /\ ~failed
      /\ x \in Records /\ x.key = c.key /\ x.deleted = FALSE /\ x.once = FALSE
      /\ ItemIn(x) = ItemOf(c)
      /\ flash' = Put(flash, b, 1, x)
      /\ FlashOK(flash') /\ items' = items /\ flash'[a] = flash[a]
  BY <1>1, GcItemOp
<1>3. /\ a \in Areas /\ b \in Areas /\ FlashOK(flash) /\ ram.index \in [Keys -> Entries]
      /\ items = Recovered(flash) /\ c.key \in Keys
  BY <1>2, Areas01, RecordFacts DEF IInv, TypeInv
<1>4. Steady(ram.free) /\ c.op = "set" /\ ram.version < MaxVersion
  BY <1>1 DEF IInv, JobInv
<1>5. ActiveOK /\ ValidArea(flash, a) /\ ram.index = IndexOf(flash, a) /\ flash[b] = BlankArea
  BY <1>4 DEF Steady, ActiveOK
<1>6. EntryOf(b, 1, x) = [area |-> b, slot |-> 1, once |-> c.op = "set_once"]
  <2>1. (c.op = "set_once") = FALSE
    BY <1>4
  <2>2. EntryOf(b, 1, x) = [area |-> b, slot |-> 1, once |-> FALSE]
    BY <1>2 DEF EntryOf
  <2> QED  BY <2>1, <2>2
<1> DEFINE e == EntryOf(b, 1, x)
<1>7. e \in Entries /\ ~e.once
  <2>1. e = [area |-> b, slot |-> 1, once |-> FALSE]
    BY <1>2 DEF EntryOf
  <2>2. 1 \in 0 .. Slots
    OBVIOUS
  <2> HIDE DEF e
  <2> QED  BY <1>3, <2>1, <2>2 DEF Entries
<1>8. /\ ram'.index = [ram.index EXCEPT ![c.key] = e] /\ ram'.active = a
      /\ ram'.version = ram.version /\ ram'.free = ram.free
      /\ ram' \in [active : Areas, version : Nat, free : Nat, index : [Keys -> Entries]]
  <2> HIDE DEF e
  <2>1. ram' = [ram EXCEPT !.index[c.key] = e]
    BY <1>1, <1>6 DEF e
  <2> QED  BY <1>7, <2>1 DEF IInv, TypeInv
<1>9. /\ job'.stage = "gcCopy" /\ job'.slot = 2 /\ job'.call = c
      /\ job' \in [stage : Stages, call : Calls \cup {NoCall}, slot : Nat]
  BY <1>1 DEF IInv, TypeInv, Stages
<1>10. Gathered(flash', b, ram'.index, 2, ApplyCall(items, c))
  <2> DEFINE new == ApplyCall(items, c)
             n == 1
  <2>1. Gathered(flash, b, ram.index, n, items)
    BY <1>3, <1>5, GatherNone
  <2>2. items = [k \in Keys |-> items[k]]
    BY <1>3 DEF Recovered
  <2>3. new[x.key] = ItemIn(x) /\ \A k \in Keys : k # x.key => new[k] = items[k]
    BY <1>2, <1>3, <2>2 DEF ApplyCall
  <2>4. \A s \in 1 .. n - 1 : flash[b][s].key # x.key
    OBVIOUS
  <2>5. ram'.index = Enter(ram.index, x.key, EntryOf(b, n, x)) /\ n \in 1 .. Slots
    BY <1>2, <1>8 DEF Enter
  <2>6. flash' = Put(flash, b, n, x)
    BY <1>2
  <2> HIDE DEF new, n, x, a, b, c
  <2>a. FlashOK(flash) /\ b \in Areas /\ ram.index \in [Keys -> Entries]
    BY <1>3
  <2>b. x \in Records /\ x.deleted = FALSE
    BY <1>2
  <2>c. new[x.key] = ItemIn(x)
    BY <2>3
  <2>d. \A k \in Keys : k # x.key => new[k] = items[k]
    BY <2>3
  <2>7. Gathered(flash', b, ram'.index, n + 1, new)
    BY <2>1, <2>4, <2>5, <2>6, <2>a, <2>b, <2>c, <2>d, Gather
  <2> QED  BY <2>7 DEF new, n
<1>11. Collecting'
  <2>1. ActiveOK'
    <3>1. a = 0 => flash'[0] = flash[0]
      BY <1>2
    <3> QED  BY <1>2, <1>5, <1>8, <3>1 DEF ActiveOK, VersionOK, ValidArea
  <2>2. Target' = ApplyCall(items, c)
    BY <1>2, <1>9 DEF Target, ApplyCall
  <2> QED  BY <1>4, <1>8, <1>9, <1>10, <2>1, <2>2 DEF Collecting
<1>12. TypeInv'
  BY <1>1, <1>2, <1>8, <1>9 DEF IInv, TypeInv
<1>13. PhaseInv'
  BY <1>1, <1>2, <1>9 DEF PhaseInv
<1>14. JobInv'
  BY <1>9, <1>11 DEF JobInv, Idle
<1>15. OnceInv'
  <2>1. \A k \in Keys : ram'.index[k].once => ram.index[k].once
    <3> HIDE DEF e
    <3> QED  BY <1>3, <1>7, <1>8
  <2> QED  BY <1>1, <1>2, <1>9, <2>1, OnceKept
<1>16. StoreStep
  BY <1>1, <1>2, <1>9 DEF StoreStep, Store!vars
<1> QED  BY <1>12, <1>13, <1>14, <1>15, <1>16 DEF IInv

(* garbage_collection copies the record of the next live key: its entry    *)
(* leads to the copy, which is the same item.                              *)
LEMMA GcCopyStep ==
  ASSUME IInv, GcCopy
  PROVE  IInv' /\ StoreStep
<1> USE SlotsPositive
<1> DEFINE a == ram.active
           b == Other(ram.active)
           k == NextLive
           n == job.slot
           x == flash[ram.active][Entry(NextLive).slot]
<1>1. /\ job.stage = "gcCopy" /\ Op # NoOp
      /\ flash' = Done(Op) /\ items' = Recovered(flash')
      /\ ram' = [ram EXCEPT !.index[k] = Moved(ram.index[k], n)]
      /\ job' = [job EXCEPT !.slot = @ + 1]
      /\ up' = up /\ pend' = pend /\ failed' = failed /\ reply' = reply
  BY DEF GcCopy, Becomes
<1>2. Live # {} /\ n <= Slots
  BY <1>1, OpOf DEF GcCopyOp
<1>3. /\ k \in Keys /\ x \in Records /\ x.key = k /\ x.deleted = FALSE
      /\ Entry(k).area = a /\ x.once = Entry(k).once /\ n \in 1 .. Slots
      /\ flash' = Put(flash, b, n, x)
      /\ FlashOK(flash') /\ items' = items /\ flash'[a] = flash[a]
  BY <1>1, <1>2, GcCopyOpIs
<1> HIDE DEF x, k, n
<1>4. /\ a \in Areas /\ b \in Areas /\ a # b /\ FlashOK(flash) /\ ram.index \in [Keys -> Entries]
      /\ items = Recovered(flash)
  BY Areas01 DEF IInv, TypeInv
<1>5. ActiveOK /\ ValidArea(flash, a) /\ ram.version < MaxVersion
      /\ (job.call # NoCall => job.call.op = "set")
      /\ Gathered(flash, b, ram.index, n, Target)
  BY <1>1 DEF IInv, JobInv, Collecting, ActiveOK, n
<1> DEFINE e == EntryOf(b, n, x)
<1>6. Moved(ram.index[k], n) = e
  <2>1. ram.index[k] \in Entries /\ ram.index[k].area = a /\ ram.index[k].once = x.once
    BY <1>3, <1>4 DEF Entry
  <2> DEFINE d == ram.index[k]
             m == Moved(d, n)
  <2>2. m = [d EXCEPT !.area = Other(d.area), !.slot = n] /\ Other(d.area) = b
    BY <2>1 DEF Moved
  <2>3. d \in Entries /\ d.once = x.once /\ n \in 0 .. Slots
    BY <1>3, <2>1
  <2> HIDE DEF d, m
  <2>4. m \in Entries /\ m.area = b /\ m.slot = n /\ m.once = x.once
    BY <1>4, <2>2, <2>3 DEF Entries
  <2>5. m = [area |-> m.area, slot |-> m.slot, once |-> m.once]
    BY <2>4 DEF Entries
  <2> QED  BY <1>3, <2>4, <2>5 DEF EntryOf, d, m
<1>7. e \in Entries /\ e.once = x.once
  BY <1>3, <1>4 DEF EntryOf, Entries, Records
<1> HIDE DEF e
<1>8. /\ ram'.index = [ram.index EXCEPT ![k] = e] /\ ram'.active = a
      /\ ram'.version = ram.version /\ ram'.free = ram.free
      /\ ram' \in [active : Areas, version : Nat, free : Nat, index : [Keys -> Entries]]
  <2>1. ram' = [ram EXCEPT !.index[k] = e]
    BY <1>1, <1>6
  <2> QED  BY <1>7, <2>1 DEF IInv, TypeInv
<1>9. /\ job'.stage = "gcCopy" /\ job'.slot = n + 1 /\ job'.call = job.call
      /\ job' \in [stage : Stages, call : Calls \cup {NoCall}, slot : Nat]
  BY <1>1 DEF IInv, TypeInv, Stages, n
<1>10. Gathered(flash', b, ram'.index, n + 1, Target)
  <2>1. Target[x.key] = ItemIn(x)
    <3>1. Get(flash, ram.index[k]) = Target[k]
      BY <1>3, <1>5 DEF Gathered
    <3>a. ram.index[k] # NoEntry
      BY <1>1, <1>2, GcCopyOpIs DEF Entry, k, n
    <3>b. EntryOK(flash, k, ram.index[k])
      BY <1>3, <1>5 DEF Gathered
    <3>2. ram.index[k].slot # 0 /\ ram.index[k].area = a
      BY <1>3, <3>a, <3>b DEF EntryOK, Entry
    <3>3. ValidCell(x) /\ x = flash[a][ram.index[k].slot] /\ x.once = ram.index[k].once
      BY <1>3, CellFacts DEF Entry, x, k
    <3> QED  BY <1>3, <3>1, <3>2, <3>3 DEF Get, ItemIn
  <2>2. \A s \in 1 .. n - 1 : flash[b][s].key # x.key
    BY <1>3, <1>4, <1>5 DEF Gathered, Entry
  <2>3. ram'.index = Enter(ram.index, x.key, EntryOf(b, n, x))
    BY <1>3, <1>8 DEF e, Enter
  <2>4. \A j \in Keys : j # x.key => Target[j] = Target[j]
    OBVIOUS
  <2> QED  BY <1>3, <1>4, <1>5, <2>1, <2>2, <2>3, <2>4, Gather
<1>11. Collecting'
  <2>1. ActiveOK'
    <3>1. a = 0 => flash'[0] = flash[0]
      BY <1>3
    <3> QED  BY <1>3, <1>5, <1>8, <3>1 DEF ActiveOK, VersionOK, ValidArea
  <2>2. Target' = Target
    BY <1>3, <1>9 DEF Target, ApplyCall
  <2> QED  BY <1>5, <1>8, <1>9, <1>10, <2>1, <2>2 DEF Collecting
<1>12. TypeInv'
  BY <1>1, <1>3, <1>8, <1>9 DEF IInv, TypeInv
<1>13. PhaseInv'
  BY <1>1, <1>9 DEF IInv, PhaseInv, Idle
<1>14. JobInv'
  BY <1>9, <1>11 DEF JobInv, Idle
<1>15. OnceInv'
  <2>1. \A j \in Keys : ram'.index[j].once => ram.index[j].once
    BY <1>3, <1>4, <1>7, <1>8 DEF Entry
  <2> QED  BY <1>1, <1>3, <1>9, <2>1, OnceKept
<1>16. StoreStep
  BY <1>1, <1>3, <1>9 DEF StoreStep, Store!vars
<1> QED  BY <1>12, <1>13, <1>14, <1>15, <1>16 DEF IInv

(* A call that fails: its item is written wholly or not at all. *)
LEMMA FailStep ==
  ASSUME IInv, failed' = TRUE, job' = Idle, up' = "on", pend' = pend, Answer("error"),
         ram' \in [active : Areas, version : Nat, free : Nat, index : [Keys -> Entries]],
         FlashOK(flash)', items' = Recovered(flash'),
         items' = items \/ (job.call # NoCall /\ items' = ApplyCall(items, job.call))
  PROVE  IInv' /\ StoreStep
<1>1. job'.stage = "idle" /\ job'.call = NoCall
  BY DEF Idle
<1>2. TypeInv'
  <2>1. Idle \in [stage : Stages, call : Calls \cup {NoCall}, slot : Nat]
    BY DEF Idle, Stages
  <2> QED  BY <2>1 DEF IInv, TypeInv
<1>3. PhaseInv' /\ JobInv'
  BY <1>1 DEF PhaseInv, JobInv
<1>4. OnceInv'
  BY <1>1, OnceKept
<1>5. StoreStep
  <2>1. CASE job.call = NoCall
    BY <1>1, <2>1 DEF StoreStep, Store!vars, Answer
  <2>2. CASE job.call # NoCall
    BY <1>1, <2>2 DEF StoreStep, Store!Next, Store!Fail, Answer
  <2> QED  BY <2>1, <2>2
<1> QED  BY <1>2, <1>3, <1>4, <1>5 DEF IInv

(* garbage_collection finds no room (NVSTORE_FLASH_AREA_TOO_SMALL): the    *)
(* call fails without effect.                                              *)
LEMMA GcTooSmallStep ==
  ASSUME IInv, GcTooSmall
  PROVE  IInv' /\ StoreStep
<1>1. /\ failed' = TRUE /\ job' = Idle /\ up' = "on" /\ pend' = pend
      /\ ram' = ram /\ flash' = flash /\ items' = items /\ Answer("error")
  BY DEF GcTooSmall, mem
<1>2. FlashOK(flash)' /\ items' = Recovered(flash')
      /\ ram' \in [active : Areas, version : Nat, free : Nat, index : [Keys -> Entries]]
  BY <1>1 DEF IInv, TypeInv
<1> QED  BY <1>1, <1>2, FailStep

(* garbage_collection has copied every live record. *)
LEMMA GcCopiedStep ==
  ASSUME IInv, GcCopied
  PROVE  IInv' /\ StoreStep
<1>1. /\ job.stage = "gcCopy" /\ Live = {}
      /\ job' = [job EXCEPT !.stage = "gcMaster"]
      /\ flash' = flash /\ items' = items /\ up' = up /\ ram' = ram /\ pend' = pend
      /\ failed' = failed /\ reply' = reply
  BY DEF GcCopied, mem
<1>2. /\ job'.stage = "gcMaster" /\ job'.slot = job.slot /\ job'.call = job.call
      /\ job' \in [stage : Stages, call : Calls \cup {NoCall}, slot : Nat]
  BY <1>1 DEF IInv, TypeInv, Stages
<1>3. TypeInv' /\ PhaseInv'
  BY <1>1, <1>2 DEF IInv, TypeInv, PhaseInv, Idle
<1>4. Collecting' /\ Live' = {}
  BY <1>1, <1>2 DEF IInv, JobInv, Collecting, ActiveOK, VersionOK, Target, Live
<1>5. JobInv'
  BY <1>2, <1>4 DEF JobInv, Idle
<1>6. OnceInv'
  BY <1>1, <1>2, OnceKept
<1>7. StoreStep
  BY <1>1, <1>2 DEF StoreStep, Store!vars
<1> QED  BY <1>3, <1>5, <1>6, <1>7 DEF IInv

(* write_master_record makes the new area count, wholly or not at all. *)
LEMMA GcMasterOp ==
  ASSUME IInv, job.stage = "gcMaster"
  PROVE  /\ NextVersion \in Nat /\ NextVersion >= 1
         /\ Op # NoOp /\ ~IsErase(Op) /\ flash[Op.area][Op.slot] = Blank
         /\ Done(Op) = Put(flash, Other(ram.active), 0, NextVersion)
         /\ Torn(Op) = {flash, Done(Op), Put(flash, Other(ram.active), 0, Bad)}
         /\ FlashOK(Done(Op)) /\ Done(Op)[Other(ram.active)][0] = NextVersion
         /\ Chosen(Done(Op)) = Other(ram.active)
         /\ Filled(Done(Op), Other(ram.active), job.slot)
         /\ IndexOf(Done(Op), Other(ram.active)) = ram.index
         /\ Recovered(Done(Op)) = Target
         /\ FlashOK(Put(flash, Other(ram.active), 0, Bad))
         /\ Recovered(Put(flash, Other(ram.active), 0, Bad)) = items
<1> USE SlotsPositive
<1> DEFINE a == ram.active
           b == Other(ram.active)
           v == NextVersion
<1>1. /\ a \in Areas /\ b \in Areas /\ b # a /\ Other(b) = a /\ FlashOK(flash)
      /\ items = Recovered(flash) /\ ram.index \in [Keys -> Entries] /\ ram.version \in Nat
  BY Areas01 DEF IInv, TypeInv
<1>2. Collecting /\ Live = {}
  BY DEF IInv, JobInv
<1>3. /\ ValidArea(flash, a) /\ VersionOK /\ ram.version < MaxVersion
      /\ Gathered(flash, b, ram.index, job.slot, Target) /\ flash[b][0] = Blank
  BY <1>2 DEF Collecting, ActiveOK, Gathered
<1>4. v = ram.version + 1
  BY <1>1, <1>3, SizesAreNats, VersionsDoNotWrap DEF NextVersion
<1>5. v \in Nat /\ v >= 1
  BY <1>1, <1>4
<1>6. 0 \in 0 .. Slots /\ Fits(0, v) /\ Fits(0, Bad) /\ ~ValidCell(Bad)
  BY <1>5, CellFacts DEF Fits
<1>7. Op = Program(b, 0, v) /\ Op.area = b /\ Op.slot = 0
  BY OpOf DEF Program
<1> HIDE DEF v, a, b
<1>8. /\ Op # NoOp /\ ~IsErase(Op) /\ Done(Op) = Put(flash, b, 0, v)
      /\ Torn(Op) = {flash, Done(Op), Put(flash, b, 0, Bad)}
  BY <1>1, <1>3, <1>6, <1>7, ProgramFacts
<1> DEFINE g == Put(flash, b, 0, v)
<1>9. FlashOK(g) /\ g[b][0] = v /\ g[Other(b)] = flash[Other(b)]
  BY <1>1, <1>6, PutFacts
<1> HIDE DEF g
<1>10. g[a][0] = flash[a][0] /\ g[b][0] = v /\ ValidArea(g, a) /\ ValidArea(g, b)
  BY <1>1, <1>3, <1>5, <1>9, CellFacts DEF ValidArea
<1>11. Chosen(g) = b
  <2>1. \A c \in Areas : ValidArea(g, c)
    BY <1>1, <1>10 DEF Areas
  <2>2. Chosen(g) = Newer(g[0][0], g[1][0])
    BY <2>1 DEF Chosen
  <2>3. flash[a][0] \in Nat /\ flash[a][0] >= 1
    BY <1>1, <1>3 DEF FlashOK
  <2>4. flash[a][0] = ram.version \/ (a = 0 /\ ram.version = 0 /\ flash[a][0] = 1)
    BY <1>3 DEF VersionOK, a
  <2>5. CASE a = 0
    <3>1. b = 1 /\ g[0][0] = flash[a][0] /\ g[1][0] = v
      BY <1>1, <1>10, <2>5 DEF Areas
    <3>2. ~(flash[a][0] > v) /\ flash[a][0] # 0
      BY <1>1, <1>4, <2>3, <2>4
    <3> QED  BY <2>2, <3>1, <3>2 DEF Newer
  <2>6. CASE a = 1
    <3>1. b = 0 /\ g[1][0] = flash[a][0] /\ g[0][0] = v
      BY <1>1, <1>10, <2>6 DEF Areas
    <3>2. v > flash[a][0]
      BY <1>1, <1>4, <2>3, <2>4, <2>6
    <3> QED  BY <2>2, <3>1, <3>2 DEF Newer
  <2> QED  BY <1>1, <2>5, <2>6 DEF Areas
<1>12. AllIn(ram.index, b)
  <2> SUFFICES ASSUME NEW k \in Keys PROVE ram.index[k].slot = 0 \/ ram.index[k].area = b
    BY DEF AllIn
  <2>1. ram.index[k].slot # 0 => ram.index[k].area # a
    BY <1>2 DEF Live, a
  <2>2. ram.index[k].area \in Areas
    BY <1>1 DEF Entries
  <2> QED  BY <1>1, <2>1, <2>2 DEF Areas
<1>13. /\ Filled(g, b, job.slot) /\ IndexOf(g, b) = ram.index
       /\ \A k \in Keys : Recovered(g)[k] = Target[k]
  <2>1. g = Put(flash, b, 0, v)
    BY DEF g
  <2>2. Gathered(flash, b, ram.index, job.slot, Target)
    BY <1>3
  <2>3. FlashOK(flash) /\ b \in Areas /\ ram.index \in [Keys -> Entries]
    BY <1>1
  <2>4. v \in Nat
    BY <1>5
  <2>5. v >= 1
    BY <1>5
  <2> QED  BY <1>11, <1>12, <2>1, <2>2, <2>3, <2>4, <2>5, MasterWritten
<1>14. Recovered(g) = Target
  <2>1. \A f : Recovered(f) = [k \in Keys |-> Recovered(f)[k]]
    BY DEF Recovered
  <2>2. Target = [k \in Keys |-> Target[k]]
    BY <1>1, <2>1 DEF Target, ApplyCall
  <2> QED  BY <1>13, <2>1, <2>2
<1>15. FlashOK(Put(flash, b, 0, Bad)) /\ Recovered(Put(flash, b, 0, Bad)) = items
  <2>1. ~ValidArea(flash, b) /\ b = Other(a)
    BY <1>3, CellFacts DEF ValidArea, a, b
  <2> QED  BY <1>1, <1>3, <1>6, <2>1, OtherPut
<1> QED  BY <1>3, <1>5, <1>7, <1>8, <1>9, <1>11, <1>13, <1>14, <1>15 DEF g, a, b, v

(* garbage_collection writes the master record: the call takes effect and  *)
(* the new area is active.                                                 *)
LEMMA GcMasterStep ==
  ASSUME IInv, GcMaster
  PROVE  IInv' /\ StoreStep
<1> DEFINE b == Other(ram.active)
           c == job.call
<1>1. /\ job.stage = "gcMaster"
      /\ flash' = Done(Op) /\ items' = Recovered(flash')
      /\ ram' = [ram EXCEPT !.version = NextVersion, !.free = job.slot, !.active = b]
      /\ job' = [job EXCEPT !.stage = "gcErase"]
      /\ up' = up /\ pend' = pend /\ failed' = failed /\ reply' = reply
  BY DEF GcMaster, Becomes
<1>2. /\ NextVersion \in Nat /\ NextVersion >= 1 /\ FlashOK(flash')
      /\ flash'[b][0] = NextVersion /\ Chosen(flash') = b /\ Filled(flash', b, job.slot)
      /\ IndexOf(flash', b) = ram.index /\ items' = Target
  BY <1>1, GcMasterOp
<1>3. b \in Areas /\ job.slot \in Nat
  BY Areas01 DEF IInv, TypeInv
<1>4. /\ ram'.index = ram.index /\ ram'.active = b /\ ram'.version = NextVersion
      /\ ram'.free = job.slot
      /\ ram' \in [active : Areas, version : Nat, free : Nat, index : [Keys -> Entries]]
  <2> HIDE DEF b
  <2> QED  BY <1>1, <1>2, <1>3 DEF IInv, TypeInv
<1>5. /\ job'.stage = "gcErase" /\ job'.call = c
      /\ job' \in [stage : Stages, call : Calls \cup {NoCall}, slot : Nat]
  BY <1>1 DEF IInv, TypeInv, Stages
<1>6. c # NoCall => items' = ApplyCall(items, c) /\ items' = ApplyCall(items', c)
  <2> SUFFICES ASSUME c # NoCall PROVE items' = ApplyCall(items, c) /\ items' = ApplyCall(items', c)
    OBVIOUS
  <2>1. items' = ApplyCall(items, c)
    BY <1>2 DEF Target
  <2>2. items = [k \in Keys |-> items[k]] /\ c.key \in Keys
    BY RecordFacts DEF IInv, TypeInv, Recovered
  <2>3. \A m : m = [k \in Keys |-> m[k]] => ApplyCall(ApplyCall(m, c), c) = ApplyCall(m, c)
    BY <2>2 DEF ApplyCall
  <2> QED  BY <2>1, <2>2, <2>3
<1>7. Collected'
  <2>1. ActiveOK'
    BY <1>2, <1>4, CellFacts DEF ActiveOK, VersionOK, ValidArea
  <2> QED  BY <1>2, <1>4, <1>5, <1>6, <2>1 DEF Collected, ApplyCall
<1>8. TypeInv'
  BY <1>1, <1>2, <1>4, <1>5 DEF IInv, TypeInv
<1>9. PhaseInv'
  BY <1>1, <1>5 DEF IInv, PhaseInv, Idle
<1>10. JobInv'
  BY <1>5, <1>7 DEF JobInv, Idle
<1>11. OnceInv'
  BY <1>1, <1>4, <1>5, OnceKept
<1>12. StoreStep
  <2>1. CASE c = NoCall
    BY <1>1, <1>2, <1>5, <2>1 DEF StoreStep, Store!vars, Target
  <2>2. CASE c # NoCall
    BY <1>1, <1>5, <1>6, <2>2 DEF StoreStep, Store!Next, Store!TakeEffect
  <2> QED  BY <2>1, <2>2
<1> QED  BY <1>8, <1>9, <1>10, <1>11, <1>12 DEF IInv

(* The old area is erased behind the new one: nothing shows. *)
LEMMA GcEraseOp ==
  ASSUME IInv, job.stage = "gcErase"
  PROVE  /\ Op # NoOp /\ IsErase(Op)
         /\ Done(Op) = Wipe(flash, Other(ram.active), BlankArea)
         /\ FlashOK(Done(Op)) /\ Recovered(Done(Op)) = items
         /\ Done(Op)[ram.active] = flash[ram.active]
         /\ Done(Op)[Other(ram.active)] = BlankArea
         /\ \A g \in Torn(Op) : FlashOK(g) /\ Recovered(g) = items
<1> DEFINE a == ram.active
           b == Other(ram.active)
<1>1. a \in Areas /\ b \in Areas /\ FlashOK(flash) /\ items = Recovered(flash)
  BY Areas01 DEF IInv, TypeInv
<1>2. ValidArea(flash, a) /\ Chosen(flash) = a
  BY DEF IInv, JobInv, Collected, ActiveOK
<1>3. Op = Erase(b)
  BY OpOf
<1>4. /\ Op # NoOp /\ IsErase(Op) /\ Erased(flash, b, BlankArea)
      /\ Done(Op) = Wipe(flash, b, BlankArea)
      /\ \A g \in Torn(Op) : \E row : Erased(flash, b, row) /\ g = Wipe(flash, b, row)
  BY <1>1, <1>3, EraseOpFacts
<1>5. \A row : Erased(flash, b, row) =>
        LET g == Wipe(flash, b, row)
        IN /\ FlashOK(g) /\ Recovered(g) = items /\ g[a] = flash[a] /\ g[b] = row
  BY <1>1, <1>2, OtherErased
<1> QED  BY <1>4, <1>5

(* garbage_collection erases the old area: the store is steady again. *)
LEMMA GcEraseStep ==
  ASSUME IInv, GcErase
  PROVE  IInv' /\ StoreStep
<1> DEFINE a == ram.active
           b == Other(ram.active)
<1>1. /\ job.stage = "gcErase"
      /\ flash' = Done(Op) /\ items' = Recovered(flash')
      /\ job' = Idle /\ up' = "on" /\ ram' = ram /\ pend' = pend /\ failed' = failed
      /\ reply' = IF job.call = NoCall THEN reply ELSE "success"
  BY DEF GcErase, Becomes, Answer
<1>2. /\ FlashOK(flash') /\ items' = items /\ flash'[a] = flash[a] /\ flash'[b] = BlankArea
  BY <1>1, GcEraseOp
<1>3. /\ ActiveOK /\ Filled(flash, a, ram.free) /\ ram.index = IndexOf(flash, a)
      /\ Chosen(flash) = a /\ (job.call # NoCall => items = ApplyCall(items, job.call))
  BY <1>1 DEF IInv, JobInv, Collected
<1>4. a \in Areas /\ b \in Areas /\ FlashOK(flash) /\ ~failed
  BY <1>1, Areas01 DEF IInv, TypeInv, PhaseInv, Idle
<1>5. job'.stage = "idle" /\ job'.call = NoCall
  BY <1>1 DEF Idle
<1>6. Steady(ram.free)'
  <2>1. ActiveOK'
    <3>1. a = 0 => flash'[0] = flash[0]
      BY <1>2
    <3> QED  BY <1>1, <1>2, <1>3, <3>1 DEF ActiveOK, VersionOK, ValidArea
  <2>2. Filled(flash', a, ram.free)
    BY <1>2, <1>3 DEF Filled
  <2>3. IndexOf(flash', a) = ram.index
    <3>1. ~ValidArea(flash', b) /\ ValidArea(flash', a)
      BY <1>2, <1>3, CellFacts, SlotsPositive DEF ValidArea, BlankArea, ActiveOK
    <3>2. Chosen(flash') = a
      BY <1>4, <3>1, ChosenOne
    <3> QED  BY <1>2, <1>3, <1>4, <3>2, RecoveredSame
  <2> QED  BY <1>1, <1>2, <2>1, <2>2, <2>3 DEF Steady
<1>7. TypeInv'
  <2>1. Idle \in [stage : Stages, call : Calls \cup {NoCall}, slot : Nat]
    BY DEF Idle, Stages
  <2> QED  BY <1>1, <1>2, <2>1 DEF IInv, TypeInv
<1>8. PhaseInv' /\ JobInv'
  BY <1>1, <1>4, <1>5, <1>6 DEF PhaseInv, JobInv
<1>9. OnceInv'
  BY <1>1, <1>5, OnceKept
<1>10. StoreStep
  <2>1. CASE job.call = NoCall
    BY <1>1, <1>2, <1>5, <2>1 DEF StoreStep, Store!vars
  <2>2. CASE job.call # NoCall
    BY <1>1, <1>2, <1>3, <1>5, <2>2 DEF StoreStep, Store!Next, Store!Succeed
  <2> QED  BY <2>1, <2>2
<1> QED  BY <1>7, <1>8, <1>9, <1>10 DEF IInv

(* What an operation that fails or is cut short leaves: the items, with or *)
(* without the call.                                                       *)
LEMMA TornItems ==
  ASSUME IInv, job.stage \notin {"idle", "init"}, Op # NoOp, NEW g \in Torn(Op)
  PROVE  /\ FlashOK(g)
         /\ \/ Recovered(g) = items
            \/ job.call # NoCall /\ Recovered(g) = ApplyCall(items, job.call)
<1>1. job.stage \in {"write", "gcItem", "gcCopy", "gcMaster", "gcErase"}
  BY DEF IInv, TypeInv, Stages
<1>2. FlashOK(flash) /\ Recovered(flash) = items
  BY DEF IInv, TypeInv
<1>3. CASE job.stage = "write"
  BY <1>2, <1>3, WriteOp
<1>4. CASE job.stage = "gcItem"
  BY <1>4, GcItemOp
<1>5. CASE job.stage = "gcCopy"
  <2>1. Live # {} /\ job.slot <= Slots
    BY <1>5, OpOf DEF GcCopyOp
  <2> QED  BY <1>5, <2>1, GcCopyOpIs
<1>6. CASE job.stage = "gcMaster"
  BY <1>2, <1>6, GcMasterOp DEF Target
<1>7. CASE job.stage = "gcErase"
  BY <1>7, GcEraseOp
<1> QED  BY <1>1, <1>3, <1>4, <1>5, <1>6, <1>7

(* A flash operation of do_set or garbage_collection fails: the call had   *)
(* its effect or none.                                                     *)
LEMMA FlashFailsStep ==
  ASSUME IInv, FlashFails
  PROVE  IInv' /\ StoreStep
<1>1. /\ job.stage \notin {"idle", "init"} /\ Op # NoOp
      /\ flash' \in Torn(Op) /\ items' = Recovered(flash')
      /\ ram' = IF job.stage = "gcMaster" THEN [ram EXCEPT !.version = NextVersion] ELSE ram
      /\ job' = Idle /\ up' = "on" /\ failed' = TRUE /\ pend' = pend /\ Answer("error")
  BY DEF FlashFails, Becomes
<1>2. /\ FlashOK(flash)'
      /\ items' = items \/ (job.call # NoCall /\ items' = ApplyCall(items, job.call))
  BY <1>1, TornItems
<1>3. ram' \in [active : Areas, version : Nat, free : Nat, index : [Keys -> Entries]]
  BY <1>1, GcMasterOp DEF IInv, TypeInv
<1> QED  BY <1>1, <1>2, <1>3, FailStep

-----------------------------------------------------------------------------
(* init, and the power. *)

(* Erasing an area without a master record, or spoiling it, changes nothing. *)
LEMMA StaleErased ==
  ASSUME NEW f, FlashOK(f), NEW a \in Areas, ~ValidArea(f, a),
         NEW row, Erased(f, a, row), NEW g, g = Wipe(f, a, row)
  PROVE  FlashOK(g) /\ Recovered(g) = Recovered(f)
<1> DEFINE c == Other(a)
<1>1. c \in Areas /\ Other(c) = a /\ Areas = {a, c}
  BY DEF Areas, Other
<1>2. FlashOK(g) /\ g[a] = row /\ g[c] = f[c]
  BY EraseFacts
<1> HIDE DEF c
<1>3. ~ValidArea(g, a)
  BY <1>2, SlotsPositive, CellFacts DEF Erased, ValidArea
<1>4. CASE ValidArea(f, c)
  <2>1. ValidArea(g, c)
    BY <1>2, <1>4 DEF ValidArea
  <2>2. Chosen(f) = c /\ Chosen(g) = c
    BY <1>1, <1>3, <1>4, <2>1, ChosenOne
  <2> QED  BY <1>1, <1>2, <2>2, RecoveredSame
<1>5. CASE ~ValidArea(f, c)
  <2>1. ~ValidArea(g, c)
    BY <1>2, <1>5 DEF ValidArea
  <2>2. (\A d \in Areas : ~ValidArea(f, d)) /\ (\A d \in Areas : ~ValidArea(g, d))
    BY <1>1, <1>3, <1>5, <2>1
  <2>3. Recovered(f) = [k \in Keys |-> Absent]
    BY <2>2, NothingRecovered
  <2>4. Recovered(g) = [k \in Keys |-> Absent]
    BY <2>2, NothingRecovered
  <2> QED  BY <1>2, <2>3, <2>4
<1> QED  BY <1>4, <1>5

(* The first master record on a blank flash. *)
LEMMA Formatted ==
  ASSUME NEW f, FlashOK(f), \A a \in Areas : EmptyArea(f, a), NEW g, g = Put(f, 0, 0, 1)
  PROVE  /\ FlashOK(g) /\ Recovered(g) = Recovered(f) /\ Filled(g, 0, 1)
         /\ g[0][0] = 1 /\ g[1] = BlankArea /\ ValidArea(g, 0)
         /\ IndexOf(g, 0) = [k \in Keys |-> NoEntry]
<1> USE SlotsPositive
<1>1. f[0] = BlankArea /\ f[1] = BlankArea /\ 0 \in Areas /\ Other(0) = 1
  BY DEF EmptyArea, Areas, Other
<1>2. /\ FlashOK(g) /\ g[0][0] = 1 /\ \A r \in 0 .. Slots : r # 0 => g[0][r] = f[0][r]
      /\ g[1] = f[1]
  <2>1. 0 \in 0 .. Slots /\ Fits(0, 1)
    BY DEF Fits
  <2> QED  BY <1>1, <2>1, PutFacts
<1>3. ValidArea(g, 0) /\ ~ValidArea(g, 1)
  BY <1>1, <1>2, CellFacts DEF ValidArea, BlankArea
<1>4. \A s \in 1 .. Slots : g[0][s] = Blank
  BY <1>1, <1>2 DEF BlankArea
<1>5. Filled(g, 0, 1)
  BY <1>4 DEF Filled
<1>6. Traversed(g, 0) = {}
  <2>1. Traversed(g, 0) = 1 .. 1 - 1
    BY <1>1, <1>3, <1>5, FilledTraversed
  <2> QED  BY <2>1
<1>7. Chosen(g) = 0
  BY <1>1, <1>3, ChosenOne
<1>8. \A k \in Keys : Last(g, 0, k) = 0
  BY <1>1, <1>6, LastNone
<1>9. IndexOf(g, 0) = [k \in Keys |-> NoEntry]
  BY <1>8 DEF IndexOf
<1>10. Recovered(g) = [k \in Keys |-> Absent]
  <2>1. \A k \in Keys : Recovered(g)[k] = Absent
    BY <1>1, <1>2, <1>7, <1>8, RecoveredItem
  <2>2. Recovered(g) = [k \in Keys |-> Recovered(g)[k]]
    BY DEF Recovered
  <2> QED  BY <2>1, <2>2
<1>11. Recovered(f) = [k \in Keys |-> Absent]
  <2>1. \A a \in Areas : ~ValidArea(f, a)
    BY CellFacts DEF EmptyArea, ValidArea, BlankArea
  <2> QED  BY <2>1, NothingRecovered
<1> QED  BY <1>1, <1>2, <1>3, <1>5, <1>9, <1>10, <1>11

(* The operations of init, complete or cut short, change no item; init     *)
(* programs only a blank flash.                                            *)
LEMMA InitOpFacts ==
  ASSUME IInv, job.stage = "init", Op # NoOp
  PROVE  /\ IsErase(Op) => FlashOK(Done(Op)) /\ Recovered(Done(Op)) = items
         /\ ~IsErase(Op) => /\ \A a \in Areas : EmptyArea(flash, a)
                            /\ Op = Program(0, 0, 1) /\ flash[0][0] = Blank
                            /\ Done(Op) = Put(flash, 0, 0, 1)
         /\ \A g \in Torn(Op) : FlashOK(g) /\ Recovered(g) = items
<1> USE SlotsPositive
<1> DEFINE stale == {a \in Areas : ~EmptyArea(flash, a) /\ ~ValidArea(flash, a)}
<1>1. FlashOK(flash) /\ items = Recovered(flash) /\ Op = InitOp
  BY OpOf DEF IInv, TypeInv
<1>2. CASE stale # {}
  <2> DEFINE a == Min(stale)
  <2>1. stale \subseteq Nat
    BY DEF Areas
  <2>2. a \in stale
    <3> HIDE DEF stale
    <3> QED  BY <1>2, <2>1, MinIn
  <2>3. a \in Areas /\ ~ValidArea(flash, a)
    BY <2>2
  <2>4. Op = Erase(a)
    BY <1>1, <1>2 DEF InitOp
  <2> HIDE DEF a
  <2>5. /\ IsErase(Op) /\ Erased(flash, a, BlankArea)
        /\ Done(Op) = Wipe(flash, a, BlankArea)
        /\ \A g \in Torn(Op) : \E row : Erased(flash, a, row) /\ g = Wipe(flash, a, row)
    BY <1>1, <2>3, <2>4, EraseOpFacts
  <2>6. \A row : Erased(flash, a, row) =>
          FlashOK(Wipe(flash, a, row)) /\ Recovered(Wipe(flash, a, row)) = items
    BY <1>1, <2>3, StaleErased
  <2> QED  BY <2>5, <2>6
<1>3. CASE stale = {} /\ \A a \in Areas : ValidArea(flash, a)
  <2> DEFINE a == Chosen(flash)
  <2>1. a \in Areas /\ ValidArea(flash, a) /\ Other(a) \in Areas
    BY <1>3, ChosenIn, Areas01
  <2>2. Op = Erase(Other(a))
    BY <1>1, <1>3 DEF InitOp
  <2>3. /\ IsErase(Op) /\ Erased(flash, Other(a), BlankArea)
        /\ Done(Op) = Wipe(flash, Other(a), BlankArea)
        /\ \A g \in Torn(Op) :
             \E row : Erased(flash, Other(a), row) /\ g = Wipe(flash, Other(a), row)
    BY <1>1, <2>1, <2>2, EraseOpFacts
  <2>4. \A row : Erased(flash, Other(a), row) =>
          /\ FlashOK(Wipe(flash, Other(a), row))
          /\ Recovered(Wipe(flash, Other(a), row)) = items
    BY <1>1, <2>1, OtherErased
  <2> QED  BY <2>3, <2>4
<1>4. CASE stale = {} /\ ~(\A a \in Areas : ValidArea(flash, a))
  <2>1. (\A a \in Areas : EmptyArea(flash, a)) /\ Op = Program(0, 0, 1)
    BY <1>1, <1>4 DEF InitOp
  <2>2. 0 \in Areas /\ Other(0) = 1 /\ flash[0] = BlankArea /\ flash[0][0] = Blank
    BY <2>1 DEF Areas, Other, EmptyArea, BlankArea
  <2>3. 0 \in 0 .. Slots /\ Fits(0, 1) /\ Fits(0, Bad)
    BY DEF Fits
  <2>4. /\ ~IsErase(Op) /\ Done(Op) = Put(flash, 0, 0, 1)
        /\ Torn(Op) = {flash, Put(flash, 0, 0, 1), Put(flash, 0, 0, Bad)}
    BY <1>1, <2>1, <2>2, <2>3, ProgramFacts
  <2>5. FlashOK(Put(flash, 0, 0, 1)) /\ Recovered(Put(flash, 0, 0, 1)) = items
    BY <1>1, <2>1, Formatted
  <2>6. FlashOK(Put(flash, 0, 0, Bad)) /\ Recovered(Put(flash, 0, 0, Bad)) = items
    <3> DEFINE g == Put(flash, 0, 0, Bad)
    <3>1. FlashOK(g) /\ g[0][0] = Bad /\ g[1] = flash[1]
      BY <1>1, <2>2, <2>3, PutFacts
    <3> HIDE DEF g
    <3>2. flash[1][0] = Blank
      BY <2>1 DEF EmptyArea, BlankArea, Areas
    <3>3. ~ValidArea(g, 0) /\ ~ValidArea(g, 1) /\ ~ValidArea(flash, 0) /\ ~ValidArea(flash, 1)
      BY <2>2, <3>1, <3>2, CellFacts DEF ValidArea
    <3>4. (\A a \in Areas : ~ValidArea(g, a)) /\ (\A a \in Areas : ~ValidArea(flash, a))
      BY <3>3 DEF Areas
    <3>5. Recovered(g) = [k \in Keys |-> Absent]
      BY <3>4, NothingRecovered
    <3>6. Recovered(flash) = [k \in Keys |-> Absent]
      BY <3>4, NothingRecovered
    <3> QED  BY <1>1, <3>1, <3>5, <3>6 DEF g
  <2> QED  BY <1>1, <2>1, <2>2, <2>4, <2>5, <2>6
<1> QED  BY <1>2, <1>3, <1>4

(* Without calls there is nothing to keep apart. *)
LEMMA OnceVacuous ==
  ASSUME pend' = [t \in Threads |-> NoCall], job'.call = NoCall
  PROVE  OnceInv'
BY DEF OnceInv

(* While init runs nobody has called. *)
LEMMA InitFacts ==
  ASSUME IInv, job.stage = "init"
  PROVE  /\ up = "init" /\ ~failed /\ job.call = NoCall
         /\ pend = [t \in Threads |-> NoCall]
         /\ FlashOK(flash) /\ items = Recovered(flash)
BY DEF IInv, TypeInv, PhaseInv, Idle

(* init starts, and nobody has called yet. *)
LEMMA PowerOnStep ==
  ASSUME IInv, PowerOn
  PROVE  IInv' /\ StoreStep
<1>1. /\ up = "off" /\ up' = "init" /\ job' = Stage("init")
      /\ flash' = flash /\ items' = items /\ ram' = ram /\ pend' = pend /\ failed' = failed /\ reply' = reply
  BY DEF PowerOn, mem
<1>2. job = Idle /\ job.call = NoCall /\ ~failed /\ pend = [t \in Threads |-> NoCall]
  BY <1>1 DEF IInv, PhaseInv, Idle
<1>3. /\ job'.stage = "init" /\ job'.call = NoCall
      /\ job' \in [stage : Stages, call : Calls \cup {NoCall}, slot : Nat]
  BY <1>1 DEF Stage, Idle, Stages
<1>4. TypeInv'
  BY <1>1, <1>3 DEF IInv, TypeInv
<1>5. PhaseInv' /\ JobInv'
  BY <1>1, <1>2, <1>3 DEF PhaseInv, JobInv, Idle
<1>6. OnceInv'
  BY <1>1, <1>2, <1>3, OnceVacuous
<1>7. StoreStep
  BY <1>1, <1>2, <1>3 DEF StoreStep, Store!vars
<1> QED  BY <1>4, <1>5, <1>6, <1>7 DEF IInv

(* init erases an area without a master record, or the older area: no item *)
(* changes.                                                                *)
LEMMA InitEraseStep ==
  ASSUME IInv, InitErase
  PROVE  IInv' /\ StoreStep
<1>1. /\ job.stage = "init" /\ Op # NoOp /\ IsErase(Op)
      /\ flash' = Done(Op) /\ items' = Recovered(flash')
      /\ up' = up /\ ram' = ram /\ pend' = pend /\ job' = job /\ failed' = failed /\ reply' = reply
  BY DEF InitErase, Becomes
<1>2. FlashOK(flash') /\ items' = items
  BY <1>1, InitOpFacts
<1>3. job.call = NoCall /\ pend = [t \in Threads |-> NoCall] /\ up = "init"
  BY <1>1, InitFacts
<1>4. TypeInv' /\ PhaseInv'
  BY <1>1, <1>2 DEF IInv, TypeInv, PhaseInv
<1>5. JobInv'
  BY <1>1, <1>3 DEF JobInv
<1>6. OnceInv'
  BY <1>1, <1>3, OnceVacuous
<1>7. StoreStep
  BY <1>1, <1>2 DEF StoreStep, Store!vars
<1> QED  BY <1>4, <1>5, <1>6, <1>7 DEF IInv

(* init writes the first master record to a blank flash: there is still no *)
(* item.                                                                   *)
LEMMA InitFormatStep ==
  ASSUME IInv, InitFormat
  PROVE  IInv' /\ StoreStep
<1> USE SlotsPositive
<1>1. /\ job.stage = "init" /\ Op # NoOp /\ ~IsErase(Op)
      /\ flash' = Done(Op) /\ items' = Recovered(flash')
      /\ ram' = [NoRam EXCEPT !.free = 1]
      /\ up' = "on" /\ job' = Idle /\ pend' = pend /\ failed' = failed /\ reply' = reply
  BY DEF InitFormat, Becomes
<1>2. /\ job.call = NoCall /\ pend = [t \in Threads |-> NoCall] /\ up = "init"
      /\ FlashOK(flash) /\ items = Recovered(flash) /\ ~failed
  BY <1>1, InitFacts
<1>3. (\A a \in Areas : EmptyArea(flash, a)) /\ flash' = Put(flash, 0, 0, 1)
  BY <1>1, InitOpFacts
<1>4. /\ FlashOK(flash') /\ items' = items /\ Filled(flash', 0, 1)
      /\ flash'[0][0] = 1 /\ flash'[1] = BlankArea /\ ValidArea(flash', 0)
      /\ IndexOf(flash', 0) = [k \in Keys |-> NoEntry]
  BY <1>1, <1>2, <1>3, Formatted
<1>5. /\ ram'.active = 0 /\ ram'.version = 0 /\ ram'.free = 1
      /\ ram'.index = [k \in Keys |-> NoEntry]
      /\ ram' \in [active : Areas, version : Nat, free : Nat, index : [Keys -> Entries]]
  <2>1. NoEntry \in Entries
    BY DEF NoEntry, Entries, Areas
  <2>2. [k \in Keys |-> NoEntry] \in [Keys -> Entries]
    BY <2>1
  <2>3. ram' = [active |-> 0, version |-> 0, free |-> 1, index |-> [k \in Keys |-> NoEntry]]
    BY <1>1 DEF NoRam
  <2> QED  BY <2>2, <2>3 DEF Areas
<1>6. job'.stage = "idle" /\ job'.call = NoCall
  BY <1>1 DEF Idle
<1>7. TypeInv'
  <2>1. Idle \in [stage : Stages, call : Calls \cup {NoCall}, slot : Nat]
    BY DEF Idle, Stages
  <2> QED  BY <1>1, <1>4, <1>5, <2>1 DEF IInv, TypeInv
<1>8. Steady(ram.free)'
  <2>1. Other(0) = 1
    BY DEF Other
  <2> QED  BY <1>4, <1>5, <2>1 DEF Steady, ActiveOK, VersionOK
<1>9. PhaseInv' /\ JobInv'
  BY <1>1, <1>2, <1>6, <1>8 DEF PhaseInv, JobInv
<1>10. OnceInv'
  BY <1>1, <1>2, <1>6, OnceVacuous
<1>11. StoreStep
  BY <1>1, <1>2, <1>4, <1>6 DEF StoreStep, Store!vars
<1> QED  BY <1>7, <1>9, <1>10, <1>11 DEF IInv

(* init traverses the active area: its entries are those of a steady       *)
(* store, and a collection follows behind a faulty record.                 *)
LEMMA InitTraverseStep ==
  ASSUME IInv, InitTraverse
  PROVE  IInv' /\ StoreStep
<1> USE SlotsPositive
<1> DEFINE a == Chosen(flash)
           b == Other(Chosen(flash))
           T == Traversed(flash, Chosen(flash))
<1>1. /\ job.stage = "init" /\ Op = NoOp
      /\ ram' = [active |-> a, version |-> flash[a][0],
                 free |-> Cardinality(T) + 1, index |-> IndexOf(flash, a)]
      /\ \/ /\ Faulty(flash, a) /\ flash[a][0] < MaxVersion
            /\ job' = [Stage("gcCopy") EXCEPT !.slot = 1] /\ up' = up
         \/ ~Faulty(flash, a) /\ job' = Idle /\ up' = "on"
      /\ flash' = flash /\ items' = items /\ pend' = pend /\ failed' = failed /\ reply' = reply
  BY DEF InitTraverse, mem
<1>2. /\ job.call = NoCall /\ pend = [t \in Threads |-> NoCall] /\ up = "init"
      /\ FlashOK(flash) /\ items = Recovered(flash) /\ ~failed
  BY <1>1, InitFacts
<1>3. a \in Areas /\ b \in Areas /\ Areas = {a, b} /\ a # b
  BY ChosenIn DEF Areas, Other
<1>4. ValidArea(flash, a) /\ flash[b] = BlankArea
  <2> DEFINE stale == {c \in Areas : ~EmptyArea(flash, c) /\ ~ValidArea(flash, c)}
  <2>1. InitOp = NoOp
    BY <1>1, OpOf
  <2>2. \A c \in Areas : Erase(c) # NoOp
    BY <1>2, EraseOpFacts
  <2>3. stale = {}
    <3>1. SUFFICES ASSUME stale # {} PROVE FALSE
      OBVIOUS
    <3>2. Min(stale) \in Areas
      <4>1. stale \subseteq Nat /\ stale \subseteq Areas
        BY DEF Areas
      <4> HIDE DEF stale
      <4> QED  BY <3>1, <4>1, MinIn
    <3>3. InitOp = Erase(Min(stale))
      BY <3>1 DEF InitOp
    <3> QED  BY <2>1, <2>2, <3>2, <3>3
  <2>4. ~(\A c \in Areas : ValidArea(flash, c))
    <3>1. SUFFICES ASSUME \A c \in Areas : ValidArea(flash, c) PROVE FALSE
      OBVIOUS
    <3>2. InitOp = Erase(b)
      BY <2>3, <3>1 DEF InitOp
    <3> QED  BY <1>3, <2>1, <2>2, <3>2
  <2>5. ~(\A c \in Areas : EmptyArea(flash, c))
    <3>1. SUFFICES ASSUME \A c \in Areas : EmptyArea(flash, c) PROVE FALSE
      OBVIOUS
    <3>2. InitOp = Program(0, 0, 1)
      BY <2>3, <2>4, <3>1 DEF InitOp
    <3>3. 0 \in Areas /\ flash[0][0] = Blank /\ 0 \in 0 .. Slots /\ Fits(0, 1)
      BY <3>1 DEF Areas, EmptyArea, BlankArea, Fits
    <3> QED  BY <1>2, <2>1, <3>2, <3>3, ProgramFacts
  <2>6. \A c \in Areas : EmptyArea(flash, c) \/ ValidArea(flash, c)
    BY <2>3
  <2>7. ValidArea(flash, a)
    BY <2>5, <2>6, ChosenValid
  <2>8. ~ValidArea(flash, b)
    BY <1>3, <2>4, <2>7
  <2> QED  BY <1>3, <2>6, <2>7, <2>8 DEF EmptyArea
<1>5. flash[a][0] \in Nat /\ flash[a][0] >= 1
  BY <1>2, <1>3, <1>4 DEF FlashOK
<1>6. PICK m \in 0 .. Slots : T = 1 .. m
  BY <1>3, TraversedPrefix
<1>7. Cardinality(T) = m
  <2>1. Cardinality(1 .. m) = IF 1 > m THEN 0 ELSE m - 1 + 1
    BY FS_Interval
  <2> QED  BY <1>6, <2>1
<1>8. IndexOf(flash, a) \in [Keys -> Entries]
  <2>1. \A k \in Keys : IndexOf(flash, a)[k] \in Entries
    BY <1>2, <1>3, IndexEntry
  <2>2. IndexOf(flash, a) = [k \in Keys |-> IndexOf(flash, a)[k]]
    BY DEF IndexOf
  <2> QED  BY <2>1, <2>2
<1> HIDE DEF a, b, T
<1>9. /\ ram'.active = a /\ ram'.version = flash[a][0] /\ ram'.free = m + 1
      /\ ram'.index = IndexOf(flash, a)
      /\ ram' \in [active : Areas, version : Nat, free : Nat, index : [Keys -> Entries]]
  BY <1>1, <1>3, <1>5, <1>7, <1>8
<1>10. ActiveOK'
  BY <1>1, <1>4, <1>9 DEF ActiveOK, VersionOK
<1>11. b = Other(a)
  BY DEF a, b
<1>12. CASE Faulty(flash, a)
  <2>1. flash[a][0] < MaxVersion /\ job' = [Stage("gcCopy") EXCEPT !.slot = 1] /\ up' = up
    BY <1>1, <1>12
  <2>2. /\ job'.stage = "gcCopy" /\ job'.call = NoCall /\ job'.slot = 1
        /\ job' \in [stage : Stages, call : Calls \cup {NoCall}, slot : Nat]
    BY <2>1 DEF Stage, Idle, Stages
  <2>3. Gathered(flash, b, IndexOf(flash, a), 1, items)
    BY <1>2, <1>3, <1>4, <1>11, GatherNone
  <2>4. Target' = items
    BY <1>1, <2>2 DEF Target
  <2>5. Collecting'
    BY <1>1, <1>9, <1>10, <1>11, <2>1, <2>2, <2>3, <2>4 DEF Collecting
  <2>6. TypeInv'
    BY <1>1, <1>9, <2>1, <2>2 DEF IInv, TypeInv
  <2>7. PhaseInv' /\ JobInv'
    BY <1>1, <1>2, <2>1, <2>2, <2>5 DEF PhaseInv, JobInv, Idle
  <2>8. OnceInv'
    BY <1>1, <1>2, <2>2, OnceVacuous
  <2>9. StoreStep
    BY <1>1, <1>2, <2>2 DEF StoreStep, Store!vars
  <2> QED  BY <2>6, <2>7, <2>8, <2>9 DEF IInv
<1>13. CASE ~Faulty(flash, a)
  <2>1. job' = Idle /\ up' = "on" /\ job'.stage = "idle" /\ job'.call = NoCall
    BY <1>1, <1>13 DEF Idle
  <2>2. Filled(flash, a, m + 1)
    <3>1. \A s \in 1 .. (m + 1) - 1 : ValidCell(flash[a][s])
      <4> TAKE s \in 1 .. (m + 1) - 1
      <4>1. s \in Traversed(flash, a) /\ s \in 0 .. s
        BY <1>6 DEF T, a
      <4> QED  BY <4>1 DEF Traversed
    <3>2. \A s \in m + 1 .. Slots : flash[a][s] = Blank
      <4> TAKE s \in m + 1 .. Slots
      <4>1. s \in (1 .. Slots) \ Traversed(flash, a)
        BY <1>6 DEF T, a
      <4> QED  BY <1>13, <4>1 DEF Faulty
    <3> QED  BY <3>1, <3>2 DEF Filled
  <2>3. Steady(ram.free)'
    BY <1>1, <1>4, <1>9, <1>10, <1>11, <2>2 DEF Steady
  <2>4. TypeInv'
    <3>1. Idle \in [stage : Stages, call : Calls \cup {NoCall}, slot : Nat]
      BY DEF Idle, Stages
    <3> QED  BY <1>1, <1>9, <2>1, <3>1 DEF IInv, TypeInv
  <2>5. PhaseInv' /\ JobInv'
    BY <1>1, <1>2, <2>1, <2>3 DEF PhaseInv, JobInv
  <2>6. OnceInv'
    BY <1>1, <1>2, <2>1, OnceVacuous
  <2>7. StoreStep
    BY <1>1, <1>2, <2>1 DEF StoreStep, Store!vars
  <2> QED  BY <2>4, <2>5, <2>6, <2>7 DEF IInv
<1> QED  BY <1>12, <1>13

(* Power is lost during any operation: the call in progress had its effect *)
(* or none.                                                                *)
LEMMA PowerLossStep ==
  ASSUME IInv, PowerLoss
  PROVE  IInv' /\ StoreStep
<1>1. /\ flash' \in Torn(Op) /\ items' = Recovered(flash')
      /\ up' = "off" /\ ram' = NoRam /\ pend' = [t \in Threads |-> NoCall]
      /\ job' = Idle /\ failed' = FALSE /\ reply' = "lost"
  BY DEF PowerLoss, Becomes
<1>2. /\ FlashOK(flash')
      /\ items' = items \/ (job.call # NoCall /\ items' = ApplyCall(items, job.call))
  <2>1. FlashOK(flash) /\ items = Recovered(flash)
    BY DEF IInv, TypeInv
  <2>2. CASE Op = NoOp
    <3>1. Torn(Op) = {flash}
      BY <2>2 DEF Torn
    <3>2. flash' = flash
      BY <1>1, <3>1
    <3> QED  BY <1>1, <2>1, <3>2
  <2>3. CASE Op # NoOp /\ job.stage = "init"
    BY <1>1, <2>3, InitOpFacts
  <2>4. CASE Op # NoOp /\ job.stage # "init"
    <3>1. job.stage # "idle"
      BY <2>4, OpOf
    <3> QED  BY <1>1, <2>4, <3>1, TornItems
  <2> QED  BY <2>2, <2>3, <2>4
<1>3. job'.stage = "idle" /\ job'.call = NoCall
  BY <1>1 DEF Idle
<1>4. TypeInv'
  <2>1. Idle \in [stage : Stages, call : Calls \cup {NoCall}, slot : Nat]
    BY DEF Idle, Stages
  <2>2. NoEntry \in Entries
    BY SlotsPositive DEF NoEntry, Entries, Areas
  <2>3. NoRam \in [active : Areas, version : Nat, free : Nat, index : [Keys -> Entries]]
    BY <2>2 DEF NoRam, Areas
  <2>4. [t \in Threads |-> NoCall] \in [Threads -> Calls \cup {NoCall}]
    OBVIOUS
  <2> QED  BY <1>1, <1>2, <2>1, <2>3, <2>4 DEF TypeInv
<1>5. PhaseInv' /\ JobInv'
  BY <1>1, <1>3 DEF PhaseInv, JobInv
<1>6. OnceInv'
  BY <1>1, <1>3, OnceVacuous
<1>7. StoreStep
  BY <1>1, <1>2, <1>3 DEF StoreStep, Store!Next, Store!LosePower
<1> QED  BY <1>4, <1>5, <1>6, <1>7 DEF IInv

-----------------------------------------------------------------------------
(* The theorems. *)

(* A blank flash, as nvstore.cpp first meets it, satisfies the invariant   *)
(* and holds no item.                                                      *)
LEMMA InitIInv == Init => IInv /\ Store!Init
<1> SUFFICES ASSUME Init PROVE IInv /\ Store!Init
  OBVIOUS
<1>1. /\ flash = [a \in Areas |-> BlankArea] /\ up = "off" /\ ram = NoRam
      /\ pend = [t \in Threads |-> NoCall] /\ job = Idle /\ failed = FALSE /\ reply = "none"
      /\ items = [k \in Keys |-> Absent]
  BY DEF Init
<1>2. job.stage = "idle" /\ job.call = NoCall
  BY <1>1 DEF Idle
<1>3. /\ flash \in [Areas -> [0 .. Slots -> Cells]]
      /\ \A a \in Areas : \A s \in 0 .. Slots : flash[a][s] = Blank
  BY <1>1 DEF BlankArea, Cells
<1>4. \A a \in Areas : ~ValidArea(flash, a)
  BY <1>3, CellFacts, SlotsPositive DEF ValidArea
<1>5. \A a \in Areas, s \in 1 .. Slots : ~ValidCell(flash[a][s])
  BY <1>3, CellFacts, SlotsPositive
<1>6. FlashOK(flash)
  BY <1>3, <1>4, <1>5 DEF FlashOK
<1>7. items = Recovered(flash)
  BY <1>1, <1>4, NothingRecovered
<1>8. TypeInv
  <2>1. Idle \in [stage : Stages, call : Calls \cup {NoCall}, slot : Nat]
    BY DEF Idle, Stages
  <2>2. NoEntry \in Entries
    BY SlotsPositive DEF NoEntry, Entries, Areas
  <2>3. NoRam \in [active : Areas, version : Nat, free : Nat, index : [Keys -> Entries]]
    BY <2>2 DEF NoRam, Areas
  <2> QED  BY <1>1, <1>6, <1>7, <2>1, <2>3 DEF TypeInv
<1>9. PhaseInv /\ JobInv
  BY <1>1, <1>2 DEF PhaseInv, JobInv
<1>10. OnceInv
  BY <1>1, <1>2 DEF OnceInv
<1>11. Store!Init
  BY <1>1, <1>2 DEF Store!Init
<1> QED  BY <1>8, <1>9, <1>10, <1>11 DEF IInv

(* Every step of nvstore.cpp keeps the invariant, and is a step of         *)
(* KeyStore or leaves its state alone.                                     *)
LEMMA NextIInv ==
  ASSUME Careful, IInv, [Next]_vars
  PROVE  IInv' /\ StoreStep
<1>1. CASE UNCHANGED vars
  <2>1. /\ flash' = flash /\ items' = items /\ up' = up /\ ram' = ram
        /\ pend' = pend /\ job' = job /\ failed' = failed /\ reply' = reply
    BY <1>1 DEF vars, mem
  <2>2. TypeInv' /\ PhaseInv'
    BY <2>1 DEF IInv, TypeInv, PhaseInv
  <2>3. JobInv'
    BY <2>1 DEF IInv, JobInv, Steady, ActiveOK, VersionOK, Collecting, Collected, Target, Live
  <2>4. OnceInv'
    BY <2>1 DEF IInv, OnceInv, Entry
  <2>5. StoreStep
    BY <2>1 DEF StoreStep, Store!vars
  <2> QED  BY <2>2, <2>3, <2>4, <2>5 DEF IInv
<1>2. CASE \E t \in Threads, c \in Calls : Call(t, c)
  BY <1>2, CallStep
<1>3. CASE \E t \in Threads : Lock(t)
  BY <1>3, LockStep
<1>4. CASE WriteRecord
  BY <1>4, WriteRecordStep
<1>5. CASE GcItem
  BY <1>5, GcItemStep
<1>6. CASE GcCopy
  BY <1>6, GcCopyStep
<1>7. CASE GcTooSmall
  BY <1>7, GcTooSmallStep
<1>8. CASE GcCopied
  BY <1>8, GcCopiedStep
<1>9. CASE GcMaster
  BY <1>9, GcMasterStep
<1>10. CASE GcErase
  BY <1>10, GcEraseStep
<1>11. CASE FlashFails
  BY <1>11, FlashFailsStep
<1>12. CASE PowerOn
  BY <1>12, PowerOnStep
<1>13. CASE InitErase
  BY <1>13, InitEraseStep
<1>14. CASE InitFormat
  BY <1>14, InitFormatStep
<1>15. CASE InitTraverse
  BY <1>15, InitTraverseStep
<1>16. CASE PowerLoss
  BY <1>16, PowerLossStep
<1> QED
  BY <1>1, <1>2, <1>3, <1>4, <1>5, <1>6, <1>7, <1>8, <1>9, <1>10, <1>11, <1>12,
     <1>13, <1>14, <1>15, <1>16 DEF Next

(* The inductive invariant holds throughout. *)
THEOREM Invariance == Careful => (Spec => []IInv)
<1> SUFFICES ASSUME Careful PROVE Spec => []IInv
  OBVIOUS
<1>1. Init => IInv
  BY InitIInv
<1>2. IInv /\ [Next]_vars => IInv'
  BY NextIInv
<1> QED  BY <1>1, <1>2, PTL DEF Spec

(* Between calls get answers what a restart would find, for every size of  *)
(* the store: the entries that do_set and garbage_collection keep in RAM   *)
(* lead to the records init would find.                                    *)
THEOREM IndexMatchesFlashHolds == Careful => (Spec => []IndexMatchesFlash)
<1> SUFFICES ASSUME Careful PROVE Spec => []IndexMatchesFlash
  OBVIOUS
<1>1. IInv => IndexMatchesFlash
  BY SteadyItems DEF IInv, JobInv, IndexMatchesFlash
<1>2. Spec => []IInv
  BY Invariance
<1> QED  BY <1>1, <1>2, PTL

(* do_set, garbage_collection and init only program blank flash. *)
THEOREM BlankBeforeWriteHolds == Careful => (Spec => []BlankBeforeWrite)
<1> SUFFICES ASSUME Careful PROVE Spec => []BlankBeforeWrite
  OBVIOUS
<1>1. IInv => BlankBeforeWrite
  <2> SUFFICES ASSUME IInv, Op # NoOp, ~IsErase(Op)
               PROVE  flash[Op.area][Op.slot] = Blank
    BY DEF BlankBeforeWrite
  <2>1. job.stage \in Stages
    BY DEF IInv, TypeInv
  <2>2. CASE job.stage = "write"
    BY <2>2, WriteOp
  <2>3. CASE job.stage = "gcItem"
    BY <2>3, GcItemOp
  <2>4. CASE job.stage = "gcCopy"
    <3>1. Live # {} /\ job.slot <= Slots
      BY <2>4, OpOf DEF GcCopyOp
    <3> QED  BY <2>4, <3>1, GcCopyOpIs
  <2>5. CASE job.stage = "gcMaster"
    BY <2>5, GcMasterOp
  <2>6. CASE job.stage = "gcErase"
    BY <2>6, GcEraseOp
  <2>7. CASE job.stage = "init"
    <3>1. Op = Program(0, 0, 1) /\ flash[0][0] = Blank
      BY <2>7, InitOpFacts
    <3>2. Op.area = 0 /\ Op.slot = 0
      BY <3>1 DEF Program
    <3> QED  BY <3>1, <3>2
  <2>8. job.stage # "idle"
    BY OpOf
  <2> QED  BY <2>1, <2>2, <2>3, <2>4, <2>5, <2>6, <2>7, <2>8 DEF Stages
<1>2. Spec => []IInv
  BY Invariance
<1> QED  BY <1>1, <1>2, PTL

(* NVStore implements KeyStore: whatever fails or is cut short, the items  *)
(* a restart would find change only by the call in progress, as a whole.   *)
THEOREM ImplementsStoreHolds == Careful => (Spec => ImplementsStore)
<1> SUFFICES ASSUME Careful PROVE Spec => ImplementsStore
  OBVIOUS
<1>1. Init => Store!Init
  BY InitIInv
<1>2. IInv /\ [Next]_vars => [Store!Next]_(Store!vars)
  BY NextIInv DEF StoreStep
<1>3. Spec => []IInv
  BY Invariance
<1> QED  BY <1>1, <1>2, <1>3, PTL DEF Spec, ImplementsStore, Store!Spec

(* A step of KeyStore leaves the items alone or applies the call that is   *)
(* in progress: the checks do_set makes before it locks still hold then.   *)
LEMMA OnceStep ==
  ASSUME "set_once apart" \in Rules, IInv, StoreStep, NEW k \in Keys, IsOnce(items[k])
  PROVE  items'[k] = items[k]
<1>1. \/ items' = items
      \/ job.call # NoCall /\ items' = ApplyCall(items, job.call)
  BY DEF StoreStep, Store!Next, Store!vars, Store!Begin, Store!TakeEffect, Store!Succeed,
         Store!Fail, Store!LosePower
<1>2. CASE items' = items
  BY <1>2
<1>3. CASE job.call # NoCall /\ items' = ApplyCall(items, job.call)
  <2>1. CASE job.stage = "gcErase"
    BY <1>3, <2>1 DEF IInv, JobInv, Collected
  <2>2. CASE job.stage # "gcErase"
    <3>1. ~IsOnce(items[job.call.key])
      BY <1>3, <2>2 DEF IInv, OnceInv
    <3>2. k # job.call.key
      BY <3>1
    <3>3. items = [j \in Keys |-> items[j]]
      <4>1. items = Recovered(flash)
        BY DEF IInv, TypeInv
      <4> QED  BY <4>1 DEF Recovered
    <3> QED  BY <1>3, <3>2, <3>3 DEF ApplyCall
  <2> QED  BY <2>1, <2>2
<1> QED  BY <1>1, <1>2, <1>3

(* A call that is in progress has not been answered. *)
Unanswered == job.call # NoCall => reply = "none"

(* Only the end of a call answers it (do_set). *)
LEMMA UnansweredStep ==
  ASSUME Unanswered, StoreStep
  PROVE  Unanswered'
<1>1. CASE UNCHANGED Store!vars
  BY <1>1 DEF Unanswered, Store!vars
<1>2. CASE Store!Next
  BY <1>2 DEF Unanswered, Store!Next, Store!Begin, Store!TakeEffect, Store!Succeed,
              Store!Fail, Store!LosePower
<1> QED  BY <1>1, <1>2 DEF StoreStep

(* do_set has returned success: the item of the call is on the flash. *)
LEMMA SuccessStep ==
  ASSUME IInv, Unanswered, StoreStep, job.call # NoCall, reply' = "success"
  PROVE  items'[job.call.key] = ItemOf(job.call)
<1>1. reply = "none"
  BY DEF Unanswered
<1>2. items' = ApplyCall(items, job.call)
  BY <1>1 DEF StoreStep, Store!vars, Store!Next, Store!Begin, Store!TakeEffect,
              Store!Succeed, Store!Fail, Store!LosePower
<1>3. items = [k \in Keys |-> items[k]]
  <2>1. items = Recovered(flash)
    BY DEF IInv, TypeInv
  <2> QED  BY <2>1 DEF Recovered
<1>4. job.call \in Calls
  BY DEF IInv, TypeInv
<1>5. job.call.key \in Keys
  BY <1>4 DEF Calls
<1> QED  BY <1>2, <1>3, <1>5 DEF ApplyCall

(* When set_once has returned success a restart finds its item, marked,    *)
(* and an item that is marked is never changed again, through collections  *)
(* and restarts.  Three things are assumed of the callers, all named in    *)
(* the hypothesis: nobody goes on after an operation has failed (init does *)
(* not report a failure of its own collection); no other call for a key    *)
(* runs beside set_once; and only set is called when the area is full.     *)
(* The last is not for a caller to know: without it set_once may return    *)
(* success for an item that is not marked (nvstore.cpp:532).               *)
THEOREM SetOnceKeptHolds ==
  {"heed errors", "plain at the limit", "set_once apart"} \subseteq Rules =>
    (Spec => SetOnceKept)
<1> SUFFICES ASSUME {"heed errors", "plain at the limit", "set_once apart"} \subseteq Rules
             PROVE  Spec => SetOnceKept
  OBVIOUS
<1>1. Careful /\ "set_once apart" \in Rules
  BY DEF Careful
<1>2. Init => Unanswered
  BY DEF Init, Unanswered
<1>3. IInv /\ Unanswered /\ [Next]_vars => Unanswered'
  BY <1>1, NextIInv, UnansweredStep
<1>4. IInv /\ Unanswered /\ [Next]_vars =>
        [/\ \A k \in Keys :
              items[k] # Absent /\ items[k].once => items'[k] = items[k]
         /\ job.call # NoCall /\ job.call.op = "set_once" /\ reply' = "success"
              => items'[job.call.key] = ItemOf(job.call)]_vars
  BY <1>1, NextIInv, OnceStep, SuccessStep DEF IsOnce
<1>5. Spec => []IInv
  BY <1>1, Invariance
<1> QED  BY <1>2, <1>3, <1>4, <1>5, PTL DEF Spec, SetOnceKept
=============================================================================
