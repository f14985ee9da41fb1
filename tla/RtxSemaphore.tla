---------------------------- MODULE RtxSemaphore ----------------------------
(***************************************************************************)
(* Semaphores of RTX5 (rtx_semaphore.c).  A service call is split where it *)
(* reads or writes tokens, because an interrupt handler changes them too.  *)
(***************************************************************************)
EXTENDS RtxPost

CONSTANTS
  Sem,        \* the semaphore
  MaxTokens   \* max_count

ASSUME SemIsObject == Sem \in Objects
ASSUME MaxTokensPositive == MaxTokens \in Nat \ {0}

VARIABLES
  tokens,   \* semaphore->tokens
  balance   \* history: tokens released less tokens acquired

semVars == <<tokens, balance>>

SemInit == tokens = 0 /\ balance = 0

(* SemaphoreTokenDecrement and SemaphoreTokenIncrement, and when the       *)
(* latter succeeds.  The history is what the callers are told.             *)
TokenDecrement == tokens' = tokens - 1 /\ balance' = balance - 1
TokenIncrement == tokens' = tokens + 1 /\ balance' = balance + 1
TokenFits == tokens < MaxTokens

(* svcRtxSemaphoreAcquire *)
SemAcquire(d) ==
  /\ Calling /\ active[Sem]
  /\ IF tokens > 0
       THEN TokenDecrement /\ EndCall /\ UNCHANGED <<k, pending>>
       ELSE WaitOrFail("WaitingSemaphore", Sem, d) /\ UNCHANGED semVars
  /\ UNCHANGED <<isrq, pendSV, active, use>>

(* svcRtxSemaphoreRelease: a token for a waiting thread is not counted. *)
SemRelease ==
  /\ Calling /\ active[Sem]
  /\ IF Waiting(Sem) # <<>> THEN WakeFirst(Sem) /\ EndCall
     ELSE handler' = "semCount" /\ UNCHANGED k
  /\ UNCHANGED <<isrq, pendSV, active, pending, use, semVars>>

(* ... found nobody waiting *)
SemCount ==
  /\ handler = "semCount"
  /\ IF TokenFits THEN TokenIncrement ELSE UNCHANGED semVars
  /\ EndCall
  /\ UNCHANGED <<k, isrq, pendSV, active, pending, use>>

(* svcRtxSemaphoreNew, with the control block of a deleted semaphore *)
SemNew(c) == Create(Sem) /\ tokens' = c /\ balance' = c

(* isrRtxSemaphoreAcquire, with timeout 0 *)
SemIsrAcquire ==
  /\ Interruptible /\ active[Sem] /\ tokens > 0
  /\ TokenDecrement
  /\ UNCHANGED postVars

(* isrRtxSemaphoreRelease *)
SemIsrRelease ==
  /\ Interruptible /\ active[Sem] /\ TokenFits
  /\ TokenIncrement
  /\ PostProcess(Sem)
  /\ UNCHANGED <<k, active, pending, use>>

(* osRtxSemaphorePostProcess: the waiting thread is woken with the token;  *)
(* the mutant leaves the token for others to take.                         *)
PostDecrementMissing == tokens' = tokens /\ balance' = balance - 1
PostDecrement == TokenDecrement

SemPost ==
  /\ PendSvGet({Sem})
  /\ IF active[Sem] /\ Waiting(Sem) # <<>> /\ tokens > 0
       THEN PostDecrement /\ WakeFirstLater(Sem)
       ELSE UNCHANGED <<k, semVars>>
  /\ UNCHANGED handler

SemStep ==
  \/ \E d \in use.timeouts : SemAcquire(d)
  \/ SemRelease \/ SemCount \/ SemPost
  \/ \E c \in 0 .. MaxTokens : SemNew(c)
SemIsr == SemIsrAcquire \/ SemIsrRelease

-----------------------------------------------------------------------------
SemTypeOK == tokens \in 0 .. MaxTokens

(* No token is lost or made up: what is left is what was released and not  *)
(* acquired, wherever handlers run between the check and the count.        *)
TokensConserved == tokens = balance

(* A thread does not wait for a token that is there. *)
SemServed == Waiting(Sem) = <<>> \/ tokens = 0
=============================================================================
