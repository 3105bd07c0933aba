-------------------------------- MODULE MemPool --------------------------------
(***************************************************************************)
(* rt_mempool (rt-thread/src/mempool.c): a list of free blocks of equal    *)
(* size and the threads suspended in rt_mp_alloc.  As in Mailbox, the two  *)
(* calls are operators that take the label their caller continues at.      *)
(*                                                                         *)
(* suspend_thread_count is kept beside the list of suspended threads.  It  *)
(* is incremented with every suspension and decremented with every resume  *)
(* by rt_mp_free, but a thread that times out leaves the list without      *)
(* being uncounted, and rt_mp_free trusts the counter: with a stale count  *)
(* and an empty list it takes the list head itself for a thread.  What     *)
(* follows depends on the heap words behind the pool object.  Either they  *)
(* do not look like a suspended thread and rt_thread_resume refuses, or    *)
(* they do and the list head is put into the ready table; kernel then is   *)
(* "corrupt" and the model ends.                                           *)
(***************************************************************************)
EXTENDS Thread

CONSTANTS
  Blocks,       \* the blocks of the pool
  MaxPended     \* bound of the model on suspend_thread_count

ASSUME MaxPendedAssumption == MaxPended \in Nat

VARIABLES
  block_list,             \* the free blocks, the next one to hand out first
  block_free_count,
  mp_suspend_thread,      \* threads suspended in rt_mp_alloc
  suspend_thread_count,
  kernel                  \* "ok", or "corrupt" after a wild resume

poolVars == <<block_list, block_free_count>>
mpVars == <<poolVars, mp_suspend_thread, suspend_thread_count, kernel>>

MpTypeOK ==
  /\ block_list \in Seq(Blocks)
  /\ block_free_count \in Nat
  /\ mp_suspend_thread \in Seq(Threads)
  /\ suspend_thread_count \in Nat
  /\ kernel \in {"ok", "corrupt"}

(* rt_mp_create: every block is free. *)
MpInit(order) ==
  /\ block_list = order
  /\ block_free_count = Len(order)
  /\ mp_suspend_thread = << >>
  /\ suspend_thread_count = 0
  /\ kernel = "ok"
-------------------------------------------------------------------------------
(* rt_mp_alloc(mp, timeout[t]) *)

AllocNoWait(t, failPc) ==
  /\ At(t, "alloc")
  /\ block_free_count = 0
  /\ timeout[t] = "nowait"
  /\ LeaveCall(t, failPc)
  /\ UNCHANGED <<stat, error, mpVars>>

(* Mutant: the suspension is not counted. *)
AllocSuspendUncounted(t) ==
  /\ At(t, "alloc")
  /\ block_free_count = 0
  /\ timeout[t] # "nowait"
  /\ suspend_thread_count < MaxPended
  /\ Suspend(t, "alloc_wait")
  /\ mp_suspend_thread' = <<t>> \o mp_suspend_thread
  /\ UNCHANGED <<poolVars, suspend_thread_count, kernel>>

(* rt_list_insert_after the head: the last thread to come is the first.    *)
AllocSuspend(t) ==
  /\ At(t, "alloc")
  /\ block_free_count = 0
  /\ timeout[t] # "nowait"
  /\ suspend_thread_count < MaxPended
  /\ Suspend(t, "alloc_wait")
  /\ mp_suspend_thread' = <<t>> \o mp_suspend_thread
  /\ suspend_thread_count' = suspend_thread_count + 1
  /\ UNCHANGED <<poolVars, kernel>>

AllocGivesUp(t, failPc) ==
  /\ WokenGivesUp(t, "alloc_wait", failPc)
  /\ UNCHANGED mpVars

AllocRetries(t) ==
  /\ WokenRetries(t, "alloc_wait", "alloc")
  /\ UNCHANGED mpVars

(* Mutant: the block is handed out but stays linked as the next free one. *)
AllocTakeLinked(t, okPc) ==
  /\ At(t, "alloc")
  /\ block_free_count # 0
  /\ block_free_count' = block_free_count - 1
  /\ LeaveCall(t, okPc)
  /\ UNCHANGED <<stat, error, block_list, mp_suspend_thread, suspend_thread_count, kernel>>

(* The caller receives Head(block_list). *)
AllocTake(t, okPc) ==
  /\ At(t, "alloc")
  /\ block_free_count # 0
  /\ block_free_count' = block_free_count - 1
  /\ block_list' = Tail(block_list)
  /\ LeaveCall(t, okPc)
  /\ UNCHANGED <<stat, error, mp_suspend_thread, suspend_thread_count, kernel>>
-------------------------------------------------------------------------------
(* rt_mp_free(block), called by thread t *)

Release(t, block, nextPc) ==
  /\ block_free_count' = block_free_count + 1
  /\ block_list' = <<block>> \o block_list
  /\ Goto(t, nextPc)
  /\ UNCHANGED <<error, timeout>>

FreeNoWaiter(t, block, nextPc) ==
  /\ suspend_thread_count = 0
  /\ Release(t, block, nextPc)
  /\ UNCHANGED <<stat, mp_suspend_thread, suspend_thread_count, kernel>>

(* Mutant: a thread is resumed only when the pool was empty. *)
FreeWakesOnEmpty(t, block, nextPc) ==
  /\ suspend_thread_count > 0
  /\ mp_suspend_thread # << >>
  /\ Release(t, block, nextPc)
  /\ IF block_free_count = 0
     THEN /\ Resume(Head(mp_suspend_thread))
          /\ mp_suspend_thread' = Tail(mp_suspend_thread)
          /\ suspend_thread_count' = suspend_thread_count - 1
     ELSE UNCHANGED <<stat, mp_suspend_thread, suspend_thread_count>>
  /\ UNCHANGED kernel

FreeWakesFirst(t, block, nextPc) ==
  /\ suspend_thread_count > 0
  /\ mp_suspend_thread # << >>
  /\ Release(t, block, nextPc)
  /\ Resume(Head(mp_suspend_thread))
  /\ mp_suspend_thread' = Tail(mp_suspend_thread)
  /\ suspend_thread_count' = suspend_thread_count - 1
  /\ UNCHANGED kernel

(* With a stale count and an empty list rt_mp_free takes the list's head   *)
(* for a thread: rt_thread_resume refuses it, or the kernel is broken.     *)
(* What the write of thread->error does to the memory it hits belongs to   *)
(* "corrupt".                                                              *)
FreeWild(t, block, nextPc) ==
  /\ suspend_thread_count > 0
  /\ mp_suspend_thread = << >>
  /\ Release(t, block, nextPc)
  /\ suspend_thread_count' = suspend_thread_count - 1
  /\ kernel' \in {"ok", "corrupt"}
  /\ UNCHANGED <<stat, mp_suspend_thread>>

Free(t, block, nextPc) ==
  \/ FreeNoWaiter(t, block, nextPc)
  \/ FreeWakesFirst(t, block, nextPc)
  \/ FreeWild(t, block, nextPc)

(* Mutant: the thread stays linked in its wait list. *)
MpStaysListed(t) == UNCHANGED mpVars

(* rt_thread_timeout, seen from the pool: the counter is left alone.       *)
MpLeaveList(t) ==
  /\ mp_suspend_thread' = Without(mp_suspend_thread, t)
  /\ UNCHANGED <<poolVars, suspend_thread_count, kernel>>
===============================================================================
