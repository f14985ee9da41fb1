------------------------------- MODULE NVStore -------------------------------
(***************************************************************************)
(* NVStore (nvstore.cpp): items kept in two areas of the internal flash.   *)
(* An area is a master record with a version, followed by the records in   *)
(* the order they were written; the last record of a key counts.  When the *)
(* active area is full, the live records are copied to the other one, its  *)
(* master record is written with the next version, and the old area is     *)
(* erased.  init recovers the items after a restart.                       *)
(*                                                                         *)
(* Power may be lost at any time, in the middle of a program or an erase   *)
(* operation too, and a flash operation may fail although it is tried 16   *)
(* times.  All records are of one size; an area has room for Slots.        *)
(***************************************************************************)
EXTENDS Integers, FiniteSets, FiniteSetsExt

CONSTANTS
  MaxKeys,      \* _max_keys
  Values,
  Slots,        \* the last slot a record fits in; slot 0 is the master record
  Wrap,         \* versions are counted modulo this (2^16)
  MaxVersion,   \* bound: no collection that starts from this version
  Threads,
  Rules,        \* what the callers keep to, see MayCall and Lock
  Blank, Bad, NoCall, NoOp, Absent

ASSUME SlotsPositive == Slots \in Nat \ {0}
ASSUME RulesKnown == Rules \subseteq {"heed errors", "plain at the limit", "set_once apart"}
ASSUME SizesAreNats == MaxKeys \in Nat /\ Wrap \in Nat /\ MaxVersion \in Nat
(* Newer tells versions apart only as long as they have not wrapped. *)
ASSUME VersionsDoNotWrap == MaxVersion < Wrap

Keys == 0 .. MaxKeys - 1
Areas == {0, 1}
Other(a) == 1 - a

(* do_set: the operation is the flag it is called with. *)
Calls ==
  [op : {"set", "set_once"}, key : Keys, val : Values]
    \cup [op : {"remove"}, key : Keys, val : {Absent}]

(* What a cell that is not blank or spoilt holds: a version or a record. *)
Records == [key : Keys, val : Values \cup {Absent}, once : BOOLEAN, deleted : BOOLEAN]
Contents == Nat \cup Records

ASSUME CellsDistinct == Blank # Bad /\ {Blank, Bad} \cap Contents = {}
ASSUME CallsDistinct == NoCall \notin Calls
ASSUME OpsDistinct ==
  NoOp \notin [area : Areas, slot : Int, cell : Contents \cup {Blank, Bad}]

VARIABLES
  flash,    \* flash[a][s]: Blank, Bad (wrong CRC), a version or a record
  up,       \* "off", "init" or "on" (_init_done)
  ram,      \* _active_area, _active_area_version, _free_space_offset, _offset_by_key
  pend,     \* pend[t]: a call of t that has passed the checks made before the lock
  job,      \* what the owner of _mutex, or init, is doing
  failed,   \* an operation returned an error since the last restart
  items,    \* auxiliary: the items a restart would find, Recovered(flash)
  reply     \* history: how the last call ended, see KeyStore

mem == <<flash, items>>
vars == <<mem, up, ram, pend, job, failed, reply>>

BlankArea == [s \in 0 .. Slots |-> Blank]
NoEntry == [area |-> 0, slot |-> 0, once |-> FALSE]
NoRam == [active |-> 0, version |-> 0, free |-> 0, index |-> [k \in Keys |-> NoEntry]]
Idle == [stage |-> "idle", call |-> NoCall, slot |-> 0]
Stage(stage) == [Idle EXCEPT !.stage = stage]

Init ==
  /\ flash = [a \in Areas |-> BlankArea]
  /\ up = "off" /\ ram = NoRam
  /\ pend = [t \in Threads |-> NoCall]
  /\ job = Idle /\ failed = FALSE /\ reply = "none"
  /\ items = [k \in Keys |-> Absent]

(* write_record; the CRC makes a record that was not completely written Bad *)
Record(c) ==
  [key |-> c.key, val |-> c.val, once |-> c.op = "set_once", deleted |-> c.op = "remove"]

-----------------------------------------------------------------------------
(* What init makes of the flash. *)

ValidCell(x) == x \notin {Blank, Bad}
(* calc_empty_space; the mutant looks at the master record only. *)
EmptyAreaByMaster(f, a) == f[a][0] = Blank
EmptyArea(f, a) == f[a] = BlankArea
ValidArea(f, a) == ValidCell(f[a][0])

(* The area init takes when both are valid; the mutant prefers area 0 when *)
(* the versions are equal. *)
NewerOrEqual(m, n) == IF m >= n \/ m = 0 THEN 0 ELSE 1
Newer(m, n) == IF m > n \/ m = 0 THEN 0 ELSE 1

Chosen(f) ==
  IF \A a \in Areas : ValidArea(f, a) THEN Newer(f[0][0], f[1][0])
  ELSE IF ValidArea(f, 0) THEN 0 ELSE 1

(* The slots before the first faulty or blank record of a valid area *)
Traversed(f, a) == {s \in 1 .. Slots : \A r \in 0 .. s : ValidCell(f[a][r])}
Faulty(f, a) == \E s \in (1 .. Slots) \ Traversed(f, a) : f[a][s] # Blank

(* The last record of key k in area a; 0: there is none *)
Last(f, a, k) == Max({0} \cup {s \in Traversed(f, a) : f[a][s].key = k})

(* _offset_by_key after the traversal of area a *)
IndexOf(f, a) ==
  [k \in Keys |->
     LET s == Last(f, a, k)
     IN IF s = 0 \/ f[a][s].deleted THEN NoEntry
        ELSE [area |-> a, slot |-> s, once |-> f[a][s].once]]

(* do_get *)
Get(f, entry) ==
  IF entry.slot = 0 THEN Absent
  ELSE LET x == f[entry.area][entry.slot]
       IN IF ValidCell(x) THEN [val |-> x.val, once |-> entry.once] ELSE Bad

(* The items a restart would find. *)
Recovered(f) ==
  LET index == IndexOf(f, Chosen(f))
  IN [k \in Keys |-> Get(f, index[k])]

-----------------------------------------------------------------------------
(* The flash operation in progress. *)

Program(a, s, x) == [area |-> a, slot |-> s, cell |-> x]
Erase(a) == [area |-> a, slot |-> -1, cell |-> Blank]

(* Live records still to be copied by garbage_collection, in key order *)
Live == {k \in Keys : ram.index[k].slot # 0 /\ ram.index[k].area = ram.active}
NextLive == Min(Live)
NextVersion == (ram.version + 1) % Wrap

(* The record of the call goes first, without its flags. *)
GcRecord(c) == [Record(c) EXCEPT !.once = FALSE]

(* init: erase areas without a valid master record, then the older area, *)
(* then write the first master record to a blank flash. *)
InitOp ==
  LET stale == {a \in Areas : ~EmptyArea(flash, a) /\ ~ValidArea(flash, a)}
  IN IF stale # {} THEN Erase(Min(stale))
     ELSE IF \A a \in Areas : ValidArea(flash, a) THEN Erase(Other(Chosen(flash)))
     ELSE IF \A a \in Areas : EmptyArea(flash, a) THEN Program(0, 0, 1)
     ELSE NoOp

GcCopyOp ==
  IF Live # {} /\ job.slot <= Slots
    THEN Program(Other(ram.active), job.slot,
                 flash[ram.active][ram.index[NextLive].slot])
    ELSE NoOp

Op ==
  CASE job.stage = "init"   -> InitOp
    [] job.stage = "write"  -> Program(ram.active, job.slot, Record(job.call))
    [] job.stage = "gcItem" -> Program(Other(ram.active), 1, GcRecord(job.call))
    [] job.stage = "gcCopy" -> GcCopyOp
    [] job.stage = "gcMaster" -> Program(Other(ram.active), 0, NextVersion)
    [] job.stage = "gcErase"  -> Erase(Other(ram.active))
    [] OTHER -> NoOp

IsErase(op) == op.slot = -1

(* FlashIAP: only a blank cell can be programmed. *)
Done(op) ==
  IF IsErase(op) THEN [flash EXCEPT ![op.area] = BlankArea]
  ELSE [flash EXCEPT ![op.area][op.slot] = IF @ = Blank THEN op.cell ELSE Bad]

(* An erase that is cut short keeps some cells and spoils others. *)
HalfErased(a, kept, bad) ==
  [flash EXCEPT ![a] =
     [s \in 0 .. Slots |->
        IF s \in kept THEN flash[a][s] ELSE IF s \in bad THEN Bad ELSE Blank]]

(* What an operation that is cut short may leave. *)
Torn(op) ==
  IF op = NoOp THEN {flash}
  ELSE IF IsErase(op)
    THEN {HalfErased(op.area, kept, bad) :
            kept \in SUBSET (0 .. Slots), bad \in SUBSET (0 .. Slots)}
    ELSE {flash, Done(op), [flash EXCEPT ![op.area][op.slot] = Bad]}

Becomes(contents) == flash' \in contents /\ items' = Recovered(flash')

(* What do_set returns.  Nobody is told how the collection of init ended. *)
Answer(result) == reply' = IF job.call = NoCall THEN reply ELSE result

-----------------------------------------------------------------------------
(* Calls *)

Entry(k) == ram.index[k]

Conflict(c, d) ==
  d # NoCall /\ d.key = c.key /\ "set_once" \in {c.op, d.op}

(* The checks of do_set before it locks; the mutant leaves the second out. *)
PassesWithoutOnce(c) == c.op = "remove" => Entry(c.key).slot # 0
Passes(c) ==
  /\ c.op = "remove" => Entry(c.key).slot # 0
  /\ ~Entry(c.key).once

(* Rule "set_once apart": no other call for the key while set_once runs. *)
MayCall(c) ==
  "set_once apart" \in Rules =>
    \A d \in {pend[t] : t \in Threads} \cup {job.call} : ~Conflict(c, d)

Call(t, c) ==
  /\ up = "on" /\ pend[t] = NoCall
  /\ MayCall(c) /\ Passes(c)
  /\ pend' = [pend EXCEPT ![t] = c]
  /\ UNCHANGED <<mem, up, ram, job, failed, reply>>

(* The lock, and the room for the record.  Rules: "heed errors", nobody    *)
(* goes on after an operation has failed, init's own collection included,  *)
(* which init does not report; "plain at the limit", only set is called    *)
(* when the area is full, which a caller cannot know. *)
Lock(t) ==
  LET c == pend[t]
      full == ram.free > Slots
  IN /\ up = "on" /\ c # NoCall /\ job = Idle
     /\ "heed errors" \in Rules => ~failed
     /\ full => /\ ram.version < MaxVersion
                /\ "plain at the limit" \in Rules => c.op = "set"
     /\ pend' = [pend EXCEPT ![t] = NoCall]
     /\ job' = [stage |-> IF ~full THEN "write"
                          ELSE IF c.op = "remove" THEN "gcCopy" ELSE "gcItem",
                call |-> c, slot |-> IF full THEN 1 ELSE ram.free]
     /\ ram' = IF full THEN ram ELSE [ram EXCEPT !.free = @ + 1]
     /\ reply' = "none"
     /\ UNCHANGED <<mem, up, failed>>

(* write_record, and the entry of the key *)
WriteRecord ==
  /\ job.stage = "write"
  /\ Becomes({Done(Op)})
  /\ ram' = [ram EXCEPT !.index[job.call.key] =
               IF job.call.op = "remove" THEN NoEntry
               ELSE [area |-> ram.active, slot |-> job.slot, once |-> job.call.op = "set_once"]]
  /\ job' = Idle /\ Answer("success")
  /\ UNCHANGED <<up, pend, failed>>

-----------------------------------------------------------------------------
(* garbage_collection *)

GcItem ==
  /\ job.stage = "gcItem"
  /\ Becomes({Done(Op)})
  /\ ram' = [ram EXCEPT !.index[job.call.key] =
               [area |-> Other(ram.active), slot |-> 1, once |-> job.call.op = "set_once"]]
  /\ job' = [job EXCEPT !.stage = "gcCopy", !.slot = 2]
  /\ UNCHANGED <<up, pend, failed, reply>>

(* The entry of a copied record; the mutant keeps its offset. *)
MovedSameSlot(entry, s) == [entry EXCEPT !.area = Other(@)]
Moved(entry, s) == [entry EXCEPT !.area = Other(@), !.slot = s]

GcCopy ==
  /\ job.stage = "gcCopy" /\ Op # NoOp
  /\ Becomes({Done(Op)})
  /\ ram' = [ram EXCEPT !.index[NextLive] = Moved(@, job.slot)]
  /\ job' = [job EXCEPT !.slot = @ + 1]
  /\ UNCHANGED <<up, pend, failed, reply>>

(* NVSTORE_FLASH_AREA_TOO_SMALL; init goes on as if nothing had happened. *)
GcTooSmall ==
  /\ job.stage = "gcCopy" /\ Live # {} /\ Op = NoOp
  /\ failed' = TRUE /\ job' = Idle /\ up' = "on" /\ Answer("error")
  /\ UNCHANGED <<mem, ram, pend>>

GcCopied ==
  /\ job.stage = "gcCopy" /\ Live = {}
  /\ job' = [job EXCEPT !.stage = "gcMaster"]
  /\ UNCHANGED <<mem, up, ram, pend, failed, reply>>

GcMaster ==
  /\ job.stage = "gcMaster"
  /\ Becomes({Done(Op)})
  /\ ram' = [ram EXCEPT !.version = NextVersion, !.free = job.slot,
                        !.active = Other(@)]
  /\ job' = [job EXCEPT !.stage = "gcErase"]
  /\ UNCHANGED <<up, pend, failed, reply>>

GcErase ==
  /\ job.stage = "gcErase"
  /\ Becomes({Done(Op)})
  /\ job' = Idle /\ up' = "on" /\ Answer("success")
  /\ UNCHANGED <<ram, pend, failed>>

(* A flash operation has failed 16 times: the call returns an error. *)
FlashFails ==
  /\ job.stage \notin {"idle", "init"} /\ Op # NoOp
  /\ Becomes(Torn(Op))
  /\ ram' = IF job.stage = "gcMaster" THEN [ram EXCEPT !.version = NextVersion] ELSE ram
  /\ job' = Idle /\ up' = "on" /\ failed' = TRUE /\ Answer("error")
  /\ UNCHANGED pend

-----------------------------------------------------------------------------
(* init, and the power *)

PowerOn ==
  /\ up = "off"
  /\ up' = "init" /\ job' = Stage("init")
  /\ UNCHANGED <<mem, ram, pend, failed, reply>>

InitErase ==
  /\ job.stage = "init" /\ Op # NoOp /\ IsErase(Op)
  /\ Becomes({Done(Op)})
  /\ UNCHANGED <<up, ram, pend, job, failed, reply>>

(* A blank flash: _active_area_version is left at 0. *)
InitFormat ==
  /\ job.stage = "init" /\ Op # NoOp /\ ~IsErase(Op)
  /\ Becomes({Done(Op)})
  /\ ram' = [NoRam EXCEPT !.free = 1]
  /\ up' = "on" /\ job' = Idle
  /\ UNCHANGED <<pend, failed, reply>>

InitTraverse ==
  LET a == Chosen(flash)
  IN /\ job.stage = "init" /\ Op = NoOp
     /\ ram' = [active |-> a, version |-> flash[a][0],
                free |-> Cardinality(Traversed(flash, a)) + 1,
                index |-> IndexOf(flash, a)]
     /\ IF Faulty(flash, a)
          THEN /\ flash[a][0] < MaxVersion
               /\ job' = [Stage("gcCopy") EXCEPT !.slot = 1]
               /\ UNCHANGED up
          ELSE job' = Idle /\ up' = "on"
     /\ UNCHANGED <<mem, pend, failed, reply>>

(* Also what MBED_ASSERT amounts to in init, and deinit when job is Idle. *)
PowerLoss ==
  /\ up # "off"
  /\ Becomes(Torn(Op))
  /\ up' = "off" /\ ram' = NoRam
  /\ pend' = [t \in Threads |-> NoCall]
  /\ job' = Idle /\ failed' = FALSE /\ reply' = "lost"

Next ==
  \/ \E t \in Threads, c \in Calls : Call(t, c)
  \/ \E t \in Threads : Lock(t)
  \/ WriteRecord
  \/ GcItem \/ GcCopy \/ GcTooSmall \/ GcCopied \/ GcMaster \/ GcErase
  \/ FlashFails
  \/ PowerOn \/ InitErase \/ InitFormat \/ InitTraverse
  \/ PowerLoss

Spec == Init /\ [][Next]_vars

-----------------------------------------------------------------------------
(* Properties *)

ItemOf(c) ==
  IF c.op = "remove" THEN Absent ELSE [val |-> c.val, once |-> c.op = "set_once"]
ApplyCall(store, c) == [store EXCEPT ![c.key] = ItemOf(c)]

Store == INSTANCE KeyStore WITH
  Apply <- ApplyCall, Empty <- [k \in Keys |-> Absent],
  request <- job.call

(* The items a restart would find change only by the call in progress, as  *)
(* a whole; a call that returns NVSTORE_SUCCESS has taken effect, and then  *)
(* the items stay as they are until the next call: through torn writes     *)
(* and erases, failing operations, garbage collections and restarts that   *)
(* are themselves interrupted (do_set, garbage_collection, init). *)
ImplementsStore == Store!Spec

(* Between calls get answers what a restart would find: the entries kept   *)
(* in RAM by do_set and garbage_collection are those init would build. *)
IndexMatchesFlash ==
  up = "on" /\ job = Idle /\ ~failed =>
    \A k \in Keys : Get(flash, Entry(k)) = items[k]

(* Only blank flash is ever programmed: neither what a crash left in the   *)
(* other area nor a record behind _free_space_offset is in the way. *)
BlankBeforeWrite ==
  Op # NoOp /\ ~IsErase(Op) => flash[Op.area][Op.slot] = Blank

(* nvstore.h of set_once: "allowing no consequent sets to this key".  Once *)
(* it has returned success its item is found by a restart and marked, and  *)
(* an item that is marked never changes. *)
SetOnceKept ==
  [][/\ \A k \in Keys :
          items[k] # Absent /\ items[k].once => items'[k] = items[k]
     /\ job.call # NoCall /\ job.call.op = "set_once" /\ reply' = "success"
          => items'[job.call.key] = ItemOf(job.call)]_vars

(* nvstore.h: "Remove an item from flash.": once remove has returned       *)
(* success the item is gone. *)
RemovedItemsGone ==
  [][job.call # NoCall /\ job.call.op = "remove" /\ reply' = "success"
       => items'[job.call.key] = Absent]_vars
=============================================================================
