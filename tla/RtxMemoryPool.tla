--------------------------- MODULE RtxMemoryPool ---------------------------
(***************************************************************************)
(* Memory pools of RTX5 (rtx_mempool.c): blocks of one size, allocated and *)
(* freed by threads, by interrupt handlers and, for threads that wait, by  *)
(* PendSV.  A message queue keeps its messages in a pool of its own.       *)
(*                                                                         *)
(* A pool has a count of the blocks in use and a list of the free ones,    *)
(* each changed atomically but not both at once: osRtxMemoryPoolFree gives *)
(* a block back in the count first and in the list later.  Between the two *)
(* a handler may run, and a handler of a higher level if it is a handler   *)
(* that frees.  An allocation that comes there counts a block and finds    *)
(* none.  Handlers that do so are the use "tight".                         *)
(***************************************************************************)
EXTENDS RtxPost

CONSTANTS
  Pool,       \* the memory pool
  BlocksOf,   \* the blocks of every pool
  NoBlock     \* NULL

Pools == DOMAIN BlocksOf
Blocks == UNION {BlocksOf[p] : p \in Pools}

ASSUME PoolsAreObjects == Pool \in Pools /\ Pools \subseteq Objects
ASSUME NoBlockNotBlock == NoBlock \notin Blocks

VARIABLES
  used,      \* mp_info.used_blocks
  free,      \* the blocks from mp_info.block_free on
  cur,       \* the block a service call or PendSV has at hand
  isrCur,    \* the block a handler is about to link
  holder     \* history: who was given a block and has not freed it

blockVars == <<used, free>>
poolVars == <<used, free, cur, isrCur, holder>>

Nobody == "nobody"
Holders == User \cup {"handler", Nobody}

(* osRtxMemoryPoolInit *)
AllFree(p) ==
  /\ used' = [used EXCEPT ![p] = 0]
  /\ free' = [free EXCEPT ![p] = SetToSeq(BlocksOf[p])]

PoolInit ==
  /\ used = [p \in Pools |-> 0]
  /\ free = [p \in Pools |-> SetToSeq(BlocksOf[p])]
  /\ cur = NoBlock /\ isrCur = NoBlock
  /\ holder = [b \in BlocksOf[Pool] |-> Nobody]

-----------------------------------------------------------------------------
(* osRtxMemoryPoolAlloc: the count, then the list.  Two allocations that   *)
(* meet here may swap their blocks, which makes no difference.             *)
CanCount(p) == used[p] < Cardinality(BlocksOf[p])
Gets(p) == CanCount(p) /\ free[p] # <<>>

Alloc(p) ==
  /\ used' = IF CanCount(p) THEN [used EXCEPT ![p] = @ + 1] ELSE used
  /\ free' = IF Gets(p) THEN [free EXCEPT ![p] = Tail(@)] ELSE free

(* osRtxMemoryPoolFree: the count, later the list. *)
Uncount(p) == used' = [used EXCEPT ![p] = @ - 1]
Link(p, b) == free' = [free EXCEPT ![p] = <<b>> \o @]

(* What a handler refrains from, unless the use is "tight". *)
Roomy(p) == "tight" \in use.calls \/ free[p] # <<>>

(* A handler runs to its end before anything it interrupted goes on. *)
Resumed == isrCur = NoBlock

(* The block goes to h, or to nobody. *)
AllocFor(h) ==
  /\ Alloc(Pool)
  /\ holder' = IF Gets(Pool) THEN [holder EXCEPT ![Head(free[Pool])] = h]
               ELSE holder
Release(b) == Uncount(Pool) /\ holder' = [holder EXCEPT ![b] = Nobody]

-----------------------------------------------------------------------------
(* Service calls. *)

(* svcRtxMemoryPoolAlloc *)
PoolAlloc(d) ==
  /\ Calling /\ active[Pool]
  /\ AllocFor(k.curr)
  /\ IF Gets(Pool) THEN EndCall /\ UNCHANGED <<k, pending>>
     ELSE WaitOrFail("WaitingMemoryPool", Pool, d)
  /\ UNCHANGED <<isrq, pendSV, active, use, cur, isrCur>>

(* svcRtxMemoryPoolFree, *)
PoolFree(b) ==
  /\ Calling /\ active[Pool] /\ holder[b] \in User
  /\ Release(b)
  /\ cur' = b /\ handler' = "poolLink"
  /\ UNCHANGED <<k, isrq, pendSV, active, pending, use, free, isrCur>>

PoolLink ==
  /\ handler = "poolLink"
  /\ Link(Pool, cur)
  /\ cur' = NoBlock /\ handler' = "poolWake"
  /\ UNCHANGED <<k, isrq, pendSV, active, pending, use, used, isrCur, holder>>

(* ... and the allocation for the first thread that waits. *)
WakesAlloc == Waiting(Pool) # <<>>
PoolWake ==
  /\ handler = "poolWake"
  /\ IF WakesAlloc THEN AllocFor(Head(Waiting(Pool)))
     ELSE UNCHANGED <<used, free, holder>>
  /\ IF WakesAlloc /\ Gets(Pool) THEN WakeFirst(Pool) ELSE UNCHANGED k
  /\ EndCall
  /\ UNCHANGED <<isrq, pendSV, active, pending, use, cur, isrCur>>

(* svcRtxMemoryPoolNew, in the same memory *)
PoolNew ==
  /\ Create(Pool) /\ AllFree(Pool)
  /\ holder' = [b \in BlocksOf[Pool] |-> Nobody]
  /\ UNCHANGED <<cur, isrCur>>

-----------------------------------------------------------------------------
(* Interrupt handlers and PendSV. *)

(* isrRtxMemoryPoolAlloc, of any level *)
PoolIsrAlloc ==
  /\ Interruptible /\ active[Pool] /\ Roomy(Pool)
  /\ AllocFor("handler")
  /\ UNCHANGED <<postVars, cur, isrCur>>

(* isrRtxMemoryPoolFree, in two steps; handlers of a higher level than     *)
(* this one free nothing.                                                  *)
PoolIsrFree(b) ==
  /\ Interruptible /\ Resumed /\ active[Pool] /\ holder[b] # Nobody
  /\ Release(b)
  /\ isrCur' = b
  /\ UNCHANGED <<postVars, free, cur>>

PoolIsrLink ==
  /\ Interruptible /\ ~Resumed
  /\ Link(Pool, isrCur)
  /\ isrCur' = NoBlock
  /\ PostProcess(Pool)
  /\ UNCHANGED <<k, active, pending, use, used, cur, holder>>

(* osRtxMemoryPoolPostProcess *)
PoolPost ==
  /\ PendSvGet({Pool})
  /\ IF active[Pool] /\ Waiting(Pool) # <<>>
       THEN /\ AllocFor(Head(Waiting(Pool)))
            /\ IF Gets(Pool) THEN WakeFirstLater(Pool) ELSE UNCHANGED k
       ELSE UNCHANGED <<k, used, free, holder>>
  /\ UNCHANGED <<handler, cur, isrCur>>

PoolStep ==
  \/ \E d \in use.timeouts : PoolAlloc(d)
  \/ \E b \in BlocksOf[Pool] : PoolFree(b)
  \/ PoolLink \/ PoolWake \/ PoolNew \/ PoolPost
PoolIsr ==
  \/ PoolIsrAlloc \/ PoolIsrLink
  \/ \E b \in BlocksOf[Pool] : PoolIsrFree(b)

-----------------------------------------------------------------------------
PoolTypeOK ==
  /\ \A p \in Pools : /\ used[p] \in 0 .. Cardinality(BlocksOf[p])
                      /\ free[p] \in Seq(BlocksOf[p])
  /\ cur \in Blocks \cup {NoBlock} /\ isrCur \in Blocks \cup {NoBlock}
  /\ holder \in [BlocksOf[Pool] -> Holders]

(* Every block is free, held by one, or being freed, and used_blocks       *)
(* counts the ones held: none is lost and none given to two, whoever       *)
(* allocates and frees at the same time.                                   *)
BlocksAccounted ==
  active[Pool] =>
    LET held == {b \in BlocksOf[Pool] : holder[b] # Nobody}
    IN  /\ IsInjective(free[Pool]) /\ held \cap ToSet(free[Pool]) = {}
        /\ BlocksOf[Pool] = held \cup ToSet(free[Pool])
                              \cup ({cur, isrCur} \ {NoBlock})
        /\ used[Pool] = Cardinality(held)

(* No thread waits for a block while one is free. *)
PoolServed == Waiting(Pool) = <<>> \/ free[Pool] = <<>>
=============================================================================
