-------------------------- MODULE RtxMessageQueue --------------------------
(***************************************************************************)
(* Message queues of RTX5 (rtx_msgqueue.c), with their messages in the     *)
(* blocks of a pool.                                                       *)
(*                                                                         *)
(* A message is its priority; what else it carries is copied with it.  A   *)
(* handler that puts a message takes a block and leaves it to PendSV to    *)
(* link; one that gets a message marks it (flags = 1) and leaves it to     *)
(* PendSV to unlink.  A service call and PendSV are split where a handler  *)
(* can tell the difference: between the count and the list, and between    *)
(* the two accesses of osRtxMemoryPoolFree.                                *)
(*                                                                         *)
(* Uses: "isrPut" and "isrGet", what handlers do; "getWaits", threads may  *)
(* wait to get a message.                                                  *)
(***************************************************************************)
EXTENDS RtxMemoryPool

CONSTANTS
  Queue,   \* the message queue
  Msgs,    \* messages
  NoMsg

ASSUME QueueHasBlocks == Queue \in Pools
ASSUME MsgsOK == Msgs \subseteq Nat /\ NoMsg \notin Msgs

VARIABLES
  list,      \* the blocks from msg_first to msg_last
  count,     \* mq->msg_count
  msg,       \* what every block holds
  taken,     \* the blocks with flags = 1
  args,      \* the message of a thread that waits to put it
  op,        \* what a step belongs to: "put", "get", "reset", "post", "given"
  balances   \* history: per message, times accepted less times delivered

queueVars == <<list, count, msg, taken>>
msgVars == <<list, count, msg, taken, args, op, balances>>

MsgBlocks == BlocksOf[Queue]

MsgInit ==
  /\ list = <<>> /\ count = 0 /\ taken = {}
  /\ msg = [b \in MsgBlocks |-> NoMsg]
  /\ args = [t \in User |-> NoMsg]
  /\ op = "none"
  /\ balances = [m \in Msgs |-> 0]

-----------------------------------------------------------------------------
(* Helpers. *)

(* A message is queued behind those of its priority. *)
MessageQueuePut(holds, s, b) == ListPut(holds, s, b)

(* The messages nobody has taken; a get takes the first. *)
Unclaimed == SelectSeq(list, LAMBDA b : b \notin taken)

(* A get claims a message by the count. *)
Claim == count' = count - 1

(* The first thread waits for what the queue can do now.  Only this one of *)
(* the list is looked at.                                                  *)
FirstWaits(st) ==
  Waiting(Queue) # <<>> /\ k.state[Head(Waiting(Queue))] = st

Accept(m) == balances' = [balances EXCEPT ![m] = @ + 1]
Deliver(m) == balances' = [balances EXCEPT ![m] = @ - 1]

(* A block gets message m and goes into the list; msg_count follows in a   *)
(* step of its own.  If the allocation finds no block, it has counted one. *)
Fill(m) ==
  LET new == Head(free[Queue])
  IN  msg' = [msg EXCEPT ![new] = m] /\ taken' = taken \ {new} /\ Accept(m)
Store(m) ==
  /\ Alloc(Queue)
  /\ IF Gets(Queue)
       THEN Fill(m) /\ list' = MessageQueuePut(msg', list, Head(free[Queue]))
       ELSE UNCHANGED <<list, msg, taken, balances>>

-----------------------------------------------------------------------------
(* Service calls. *)

(* svcRtxMessageQueuePut: to a thread that waits for a message, *)
PutDirect ==
  /\ Calling /\ active[Queue]
  /\ FirstWaits("WaitingMessageGet")
  /\ WakeFirst(Queue)
  /\ EndCall
  /\ UNCHANGED <<isrq, pendSV, active, pending, use, poolVars, msgVars>>

(* ... into the queue, or, if there is no block, to wait. *)
Put(m, d) ==
  /\ Calling /\ active[Queue]
  /\ ~FirstWaits("WaitingMessageGet")
  /\ Store(m)
  /\ IF Gets(Queue)
       THEN handler' = "msgCount" /\ op' = "put" /\ UNCHANGED <<k, pending, args>>
       ELSE /\ WaitOrFail("WaitingMessagePut", Queue, d)
            /\ args' = [args EXCEPT ![k.curr] = m]
            /\ UNCHANGED op
  /\ UNCHANGED <<isrq, pendSV, active, use, count, cur, isrCur, holder>>

(* svcRtxMessageQueueGet: claim a message by the count, or wait. *)
Get(d) ==
  /\ Calling /\ active[Queue]
  /\ IF count > 0
       THEN Claim /\ op' = "get" /\ handler' = "msgTake" /\ UNCHANGED <<k, pending>>
       ELSE /\ "getWaits" \in use.calls
            /\ WaitOrFail("WaitingMessageGet", Queue, d)
            /\ UNCHANGED <<count, op>>
  /\ UNCHANGED <<isrq, pendSV, active, use, poolVars, list, msg, taken, args,
                 balances>>

(* MessageQueueGet marks the first message that nobody has taken,          *)
(* MessageQueueRemove unlinks it, and osRtxMemoryPoolFree counts its       *)
(* block, ...                                                              *)
MsgTake ==
  /\ handler = "msgTake"
  /\ LET first == Head(Unclaimed)
     IN  /\ taken' = taken \cup {first}
         /\ list' = Unlink(list, first)
         /\ cur' = first /\ Deliver(msg[first])
  /\ Uncount(Queue) /\ handler' = "msgLink"
  /\ UNCHANGED <<k, isrq, pendSV, active, pending, use, free, isrCur, holder,
                 count, msg, args, op>>

(* ... and links it in the free list.  A reset goes on with the next       *)
(* message, a block whose message PendSV has handed to a thread is done    *)
(* with.                                                                   *)
MsgLink ==
  /\ handler = "msgLink"
  /\ Link(Queue, cur) /\ cur' = NoBlock
  /\ handler' = CASE op = "reset" -> "msgDrain"
                  [] op = "given" -> "pendsv"
                  [] OTHER -> "msgWake"
  /\ op' = IF op = "given" THEN "none" ELSE op
  /\ UNCHANGED <<k, isrq, pendSV, active, pending, use, used, isrCur, holder,
                 queueVars, args, balances>>

(* The end of a call, or of the work on an object in PendSV. *)
Finish(kk) ==
  /\ k' = IF op = "post" THEN kk
          ELSE Return(IF op = "reset" THEN DispatchReady(kk) ELSE kk)
  /\ handler' = IF op = "post" THEN "pendsv" ELSE "thread"
  /\ op' = "none"

(* A thread that waits to put a message puts it into the block.  From the  *)
(* second round on a reset does not look at what the thread waits for.     *)
WakesPut == FirstWaits("WaitingMessagePut") \/ handler = "msgNext"

MsgWake ==
  /\ handler \in {"msgWake", "msgNext"}
  /\ IF WakesPut THEN Store(args[Head(Waiting(Queue))])
     ELSE UNCHANGED <<blockVars, list, msg, taken, balances>>
  /\ IF WakesPut /\ Gets(Queue)
       THEN LET t  == Head(Waiting(Queue))
                k1 == Dequeue(k, Queue)
            IN  /\ k' = IF op = "get" THEN WaitExitDispatch(k1, t, "osOK")
                        ELSE WaitExitReady(k1, t, "osOK")
                /\ handler' = "msgCount" /\ UNCHANGED op
       ELSE Finish(k)
  /\ UNCHANGED <<isrq, pendSV, active, pending, use, cur, isrCur, holder,
                 count, args>>

(* MessageQueuePut counts what it has linked.  A reset goes on as long as  *)
(* threads wait, of either kind.                                           *)
MsgCount ==
  /\ handler = "msgCount"
  /\ count' = count + 1
  /\ IF op = "reset" /\ Waiting(Queue) # <<>>
       THEN handler' = "msgNext" /\ UNCHANGED <<k, op>>
       ELSE Finish(k)
  /\ UNCHANGED <<isrq, pendSV, active, pending, use, poolVars, list, msg,
                 taken, args, balances>>

(* svcRtxMessageQueueReset: every message is taken and its block freed. *)
Reset ==
  /\ Calling /\ active[Queue]
  /\ op' = "reset" /\ handler' = "msgDrain"
  /\ UNCHANGED <<k, isrq, pendSV, active, pending, use, poolVars, queueVars,
                 args, balances>>

MsgDrain ==
  /\ handler = "msgDrain"
  /\ IF count > 0 THEN Claim /\ handler' = "msgTake"
     ELSE handler' = "msgWake" /\ UNCHANGED count
  /\ UNCHANGED <<k, isrq, pendSV, active, pending, use, poolVars, list, msg,
                 taken, args, op, balances>>

(* svcRtxMessageQueueNew, in the same control block and memory *)
QueueNew ==
  /\ Create(Queue) /\ AllFree(Queue)
  /\ list' = <<>> /\ count' = 0 /\ taken' = {}
  /\ balances' = [m \in Msgs |-> 0]
  /\ UNCHANGED <<cur, isrCur, holder, msg, args, op>>

-----------------------------------------------------------------------------
(* Interrupt handlers and PendSV. *)

(* isrRtxMessageQueuePut *)
MsgIsrPut(m) ==
  /\ "isrPut" \in use.calls /\ Interruptible /\ active[Queue]
  /\ Roomy(Queue)
  /\ Alloc(Queue)
  /\ IF Gets(Queue) THEN Fill(m) /\ PostProcess(Head(free[Queue]))
     ELSE UNCHANGED <<msg, taken, balances, handler, isrq, pendSV>>
  /\ UNCHANGED <<k, active, pending, use, cur, isrCur, holder, list, count,
                 args, op>>

(* isrRtxMessageQueueGet *)
MsgIsrGet ==
  /\ "isrGet" \in use.calls /\ Interruptible /\ active[Queue]
  /\ count > 0
  /\ Claim
  /\ LET first == Head(Unclaimed)
     IN  /\ taken' = taken \cup {first}
         /\ Deliver(msg[first]) /\ PostProcess(first)
  /\ UNCHANGED <<k, active, pending, use, poolVars, list, msg, args, op>>

(* osRtxMessageQueuePostProcess: a message a handler has taken is unlinked *)
(* and its block freed, a new one given to a thread that waits or linked.  *)
PostRemove(b) ==
  /\ list' = Unlink(list, b) /\ cur' = b
  /\ Uncount(Queue)
  /\ handler' = "msgLink" /\ op' = "post"
  /\ UNCHANGED <<k, balances>>
PostGive(b) ==
  /\ WakeFirstLater(Queue)
  /\ Deliver(msg[b]) /\ cur' = b
  /\ Uncount(Queue)
  /\ handler' = "msgLink" /\ op' = "given"
  /\ UNCHANGED list
PostInsert(b) ==
  /\ list' = MessageQueuePut(msg, list, b)
  /\ handler' = "msgCount" /\ op' = "post"
  /\ UNCHANGED <<k, used, cur, balances>>

MsgPost ==
  /\ PendSvGet(MsgBlocks)
  /\ IF ~active[Queue] THEN UNCHANGED <<k, handler, list, used, cur, op, balances>>
     ELSE IF Head(isrq) \in taken THEN PostRemove(Head(isrq))
     ELSE IF FirstWaits("WaitingMessageGet") THEN PostGive(Head(isrq))
     ELSE PostInsert(Head(isrq))
  /\ UNCHANGED <<free, isrCur, holder, count, msg, taken, args>>

MsgStep ==
  \/ \E m \in Msgs, d \in use.timeouts : Put(m, d)
  \/ \E d \in use.timeouts : Get(d)
  \/ PutDirect \/ MsgTake \/ MsgLink \/ MsgWake \/ MsgCount
  \/ Reset \/ MsgDrain \/ QueueNew \/ MsgPost
MsgIsr == MsgIsrGet \/ \E m \in Msgs : MsgIsrPut(m)

-----------------------------------------------------------------------------
MsgTypeOK ==
  /\ op \in {"none", "put", "get", "reset", "post", "given"}
  /\ count \in 0 .. Cardinality(MsgBlocks) /\ taken \subseteq MsgBlocks
  /\ IsInjective(list) /\ IsInjective(free[Queue])
  /\ ToSet(list) \cap ToSet(free[Queue]) = {}

(* Every message that was accepted is delivered once or is still in the    *)
(* queue or on its way to it: none is lost, none is delivered twice,       *)
(* whoever puts and gets at the same time.  Who has claimed a message by   *)
(* the count finds one in the list, even if handlers take messages before  *)
(* it has looked.                                                          *)
Present(m) ==
  {b \in (ToSet(list) \cup ToSet(isrq)) \cap MsgBlocks :
     b \notin taken /\ msg[b] = m}
MessagesConserved ==
  active[Queue] =>
    /\ \A m \in Msgs : balances[m] = Cardinality(Present(m))
    /\ Len(Unclaimed) >= count + (IF handler = "msgTake" THEN 1 ELSE 0)

(* No thread waits to put a message while there is a block for it, or to   *)
(* get one while there is one.                                             *)
QueueServed ==
  \A i \in DOMAIN Waiting(Queue) :
    IF k.state[Waiting(Queue)[i]] = "WaitingMessagePut"
      THEN free[Queue] = <<>> ELSE count = 0

MessagesSorted == Sorted(msg, list)
=============================================================================
