------------------------------- MODULE RtosQueue -------------------------------
(***************************************************************************)
(* The message queue every Beken task is built around (beken_queue of      *)
(* rttos/source/rtos_pub.c): a memory pool of message-sized blocks and a   *)
(* mailbox that carries the blocks' addresses.  A push allocates a block,  *)
(* copies the message into it and posts it; a pop receives a block, copies *)
(* the message out and frees it.  Other threads and interrupts run between *)
(* those steps.                                                            *)
(*                                                                         *)
(* The words of the mailbox are the blocks: Mail is Blocks.  Senders push  *)
(* and Receivers pop; a thread may do both (the core thread pushes to the  *)
(* queue it reads).  rtos_init_queue gives the pool and the mailbox the    *)
(* same number of elements; the module keeps the two sizes apart so that   *)
(* the error path of a push can be exercised too.                          *)
(***************************************************************************)
EXTENDS Mailbox, MemPool

CONSTANTS
  Messages,   \* message contents
  NoMessage,  \* an unset message buffer
  PushTimes,  \* PushTimes[t], PopTimes[t]: the time arguments thread t uses
  PopTimes,
  FreeOrder   \* the blocks in the order rt_mp_create links them

ASSUME BlocksAssumption == Mail = Blocks /\ NoMessage \notin Messages
ASSUME TimesAssumption ==
  /\ PushTimes \in [Threads -> SUBSET Timeouts]
  /\ PopTimes \in [Threads -> SUBSET Timeouts]
ASSUME FreeOrderAssumption ==
  /\ FreeOrder \in Seq(Blocks)
  /\ \A i, j \in 1..Len(FreeOrder) : FreeOrder[i] = FreeOrder[j] => i = j
  /\ \A b \in Blocks : \E i \in 1..Len(FreeOrder) : FreeOrder[i] = b

VARIABLES
  data,     \* data[b]: the message in block b
  arg,      \* arg[t]: the message t is pushing
  out,      \* out[t]: the buffer t's pop fills
  time_ms   \* time_ms[t]: the timeout argument of t's push

bufVars == <<data, arg, out, time_ms>>
vars == <<threadVars, mbVars, mail, mpVars, bufVars>>

PushLabels == {"alloc", "alloc_wait", "fill", "send", "send_wait", "push_free"}
PopLabels == {"recv", "recv_wait", "copy", "pop_free"}

TypeOK ==
  /\ ThreadTypeOK
  /\ MbTypeOK
  /\ MpTypeOK
  /\ pc \in [Threads -> {"idle"} \cup PushLabels \cup PopLabels]
  /\ data \in [Blocks -> Messages \cup {NoMessage}]
  /\ arg \in [Threads -> Messages \cup {NoMessage}]
  /\ out \in [Threads -> Messages \cup {NoMessage}]
  /\ time_ms \in [Threads -> Timeouts \cup {NoTimeout}]

(* rtos_init_queue *)
Init ==
  /\ ThreadInit
  /\ MbInit
  /\ MpInit(FreeOrder)
  /\ data = [b \in Blocks |-> NoMessage]
  /\ arg = [t \in Threads |-> NoMessage]
  /\ out = [t \in Threads |-> NoMessage]
  /\ time_ms = [t \in Threads |-> NoTimeout]
-------------------------------------------------------------------------------
(* rtos_push_to_queue *)

StartPush(t, m, time) ==
  /\ At(t, "idle")
  /\ time \in PushTimes[t]
  /\ arg' = [arg EXCEPT ![t] = m]
  /\ time_ms' = [time_ms EXCEPT ![t] = time]
  /\ EnterCall(t, "alloc", time)
  /\ UNCHANGED <<stat, error, mbVars, mail, mpVars, data, out>>

(* The caller's message and timeout go out of scope when a push returns.   *)
PushReturns(t) ==
  /\ arg' = [arg EXCEPT ![t] = NoMessage]
  /\ time_ms' = [time_ms EXCEPT ![t] = NoTimeout]
  /\ UNCHANGED <<data, out>>

PushNoBlock(t) ==
  /\ AllocNoWait(t, "idle") \/ AllocGivesUp(t, "idle")
  /\ PushReturns(t)
  /\ UNCHANGED <<mbVars, mail>>

PushWaits(t) ==
  /\ AllocSuspend(t) \/ AllocRetries(t)
  /\ UNCHANGED <<mbVars, mail, bufVars>>

PushGetsBlock(t) ==
  /\ AllocTake(t, "fill")
  /\ mail' = [mail EXCEPT ![t] = Head(block_list)]
  /\ UNCHANGED <<mbVars, bufVars>>

PushCopies(t) ==
  /\ At(t, "fill")
  /\ data' = [data EXCEPT ![mail[t]] = arg[t]]
  /\ EnterCall(t, "send", time_ms[t])
  /\ UNCHANGED <<stat, error, mbVars, mail, mpVars, arg, out, time_ms>>

(* Mutant: msg_tmp is freed whether or not the mailbox took it. *)
PushPostsAndFrees(t) ==
  /\ SendPut(t, "idle")
  /\ PushReturns(t)
  /\ block_list' = <<mail[t]>> \o block_list
  /\ block_free_count' = block_free_count + 1
  /\ UNCHANGED <<mp_suspend_thread, suspend_thread_count, kernel>>

PushPosts(t) ==
  /\ SendPut(t, "idle")
  /\ PushReturns(t)
  /\ UNCHANGED mpVars

PushFindsFull(t) ==
  /\ \/ SendFullNoWait(t, "push_free")
     \/ SendFullSuspend(t)
     \/ SendWoken(t, "push_free")
  /\ UNCHANGED <<mpVars, bufVars>>

(* Mutant: the error path returns without rt_mp_free. *)
PushLeaks(t) ==
  /\ At(t, "push_free")
  /\ Goto(t, "idle")
  /\ mail' = [mail EXCEPT ![t] = NoMail]
  /\ PushReturns(t)
  /\ UNCHANGED <<stat, error, timeout, mbVars, mpVars>>

PushFrees(t) ==
  /\ At(t, "push_free")
  /\ Free(t, mail[t], "idle")
  /\ mail' = [mail EXCEPT ![t] = NoMail]
  /\ PushReturns(t)
  /\ UNCHANGED mbVars
-------------------------------------------------------------------------------
(* rtos_pop_from_queue *)

StartPop(t, time) ==
  /\ At(t, "idle")
  /\ time \in PopTimes[t]
  /\ out' = [out EXCEPT ![t] = NoMessage]
  /\ EnterCall(t, "recv", time)
  /\ UNCHANGED <<stat, error, mbVars, mail, mpVars, data, arg, time_ms>>

PopEmpty(t) ==
  /\ \/ RecvEmptyNoWait(t, "idle")
     \/ RecvEmptySuspend(t)
     \/ RecvWoken(t, "idle")
  /\ UNCHANGED <<mpVars, bufVars>>

PopTakes(t) ==
  /\ RecvTake(t, "copy")
  /\ UNCHANGED <<mpVars, bufVars>>

PopCopies(t) ==
  /\ At(t, "copy")
  /\ out' = [out EXCEPT ![t] = data[mail[t]]]
  /\ Goto(t, "pop_free")
  /\ UNCHANGED <<stat, error, timeout, mbVars, mail, mpVars, data, arg, time_ms>>

PopFrees(t) ==
  /\ At(t, "pop_free")
  /\ Free(t, mail[t], "idle")
  /\ mail' = [mail EXCEPT ![t] = NoMail]
  /\ UNCHANGED <<mbVars, bufVars>>
-------------------------------------------------------------------------------
(* rt_thread_timeout takes t off the list it waits on, whichever it is.    *)
WaitExpires(t) ==
  /\ TimedOut(t)
  /\ MbLeaveLists(t)
  /\ MpLeaveList(t)
  /\ UNCHANGED bufVars

PushSteps(t) ==
  \/ PushNoBlock(t) \/ PushWaits(t) \/ PushGetsBlock(t) \/ PushCopies(t)
  \/ PushPosts(t) \/ PushFindsFull(t) \/ PushFrees(t)

PopSteps(t) == PopEmpty(t) \/ PopTakes(t) \/ PopCopies(t) \/ PopFrees(t)

Next ==
  /\ kernel = "ok"
  /\ \/ \E t \in Senders, m \in Messages, time \in Timeouts : StartPush(t, m, time)
     \/ \E t \in Receivers, time \in Timeouts : StartPop(t, time)
     \/ \E t \in Threads : PushSteps(t) \/ PopSteps(t) \/ WaitExpires(t)

Spec == Init /\ [][Next]_vars

(* A ready thread is scheduled again and again, and a reader that serves a *)
(* queue returns to rtos_pop_from_queue forever.                           *)
Fairness ==
  /\ \A t \in Threads : WF_vars(kernel = "ok" /\ (PushSteps(t) \/ PopSteps(t)))
  /\ \A t \in Receivers : WF_vars(kernel = "ok" /\ \E time \in Timeouts : StartPop(t, time))

FairSpec == Spec /\ Fairness
-------------------------------------------------------------------------------
(* Where a block can be. *)
FreeBlocks == {block_list[i] : i \in 1..Len(block_list)}
RingBlocks == {msg_pool[Slot(k)] : k \in 0..(entry - 1)}
Holders == {t \in Threads : mail[t] # NoMail}

(* Every block is in exactly one place - free, posted, or in the hands of  *)
(* one thread - and the pool's counter agrees with its list: no path of    *)
(* push or pop, timeouts and failures included, leaks or doubles a block.  *)
BlocksConserved ==
  /\ block_free_count = Len(block_list)
  /\ \A i, j \in 1..Len(block_list) : block_list[i] = block_list[j] => i = j
  /\ \A j, k \in 0..(entry - 1) : msg_pool[Slot(j)] = msg_pool[Slot(k)] => j = k
  /\ \A t, u \in Holders : mail[t] = mail[u] => t = u
  /\ FreeBlocks \cap RingBlocks = {}
  /\ \A t \in Holders : mail[t] \notin FreeBlocks \cup RingBlocks
  /\ \A b \in Blocks : b \in FreeBlocks \cup RingBlocks \/ \E t \in Holders : mail[t] = b

(* A thread holds a block from the allocation to the posting, and from the *)
(* reception to the free; the live words of the ring are blocks.           *)
HoldLabels == {"fill", "send", "send_wait", "push_free", "copy", "pop_free"}

HeldWhereUsed == \A t \in Threads : (mail[t] # NoMail) <=> (pc[t] \in HoldLabels)

RingOfBlocks ==
  /\ in_offset = Slot(entry)
  /\ \A k \in 0..(entry - 1) : msg_pool[Slot(k)] \in Blocks

(* The inductive invariant behind the theorems of RtosQueueProofs.         *)
Inv == TypeOK /\ HeldWhereUsed /\ RingOfBlocks /\ BlocksConserved

(* rtos_push_to_queue's second wait and its error path are never needed:   *)
(* a thread that got a block finds room in the mailbox.                    *)
SendNeverFull == \A t \in Threads : pc[t] = "send" => entry < Size

(* rtos_is_queue_full answers yes only when a push with no wait would fail *)
(* and no thread holds a block of it.                                      *)
FullMeansExhausted ==
  entry = Size => /\ block_list = << >>
                  /\ Holders = {}

(* No lost wake-up in the pool, in spite of its stale counter: while a     *)
(* thread sleeps in rt_mp_alloc, every free block has a thread on its way. *)
AllocNoLostWakeup ==
  mp_suspend_thread # << >> =>
    block_free_count <= Cardinality(Looking("alloc", "alloc_wait"))

(* A thread is suspended exactly when it is on one of the three lists, the *)
(* one of the call it is in.                                               *)
ListsExact ==
  /\ OnList(mp_suspend_thread, "alloc_wait")
  /\ OnList(mb_suspend_thread, "recv_wait")
  /\ OnList(mb_suspend_sender, "send_wait")
  /\ \A t \in Threads :
       stat[t] = "SUSPEND" => pc[t] \in {"alloc_wait", "recv_wait", "send_wait"}

(* The counter never misses a sleeping thread, so rt_mp_free never leaves  *)
(* one asleep.  It may exceed the "numbers of thread pended on this        *)
(* resource" (rtdef.h:766): a timed-out allocation does not count down.    *)
PendedCounted == suspend_thread_count >= Len(mp_suspend_thread)

(* The queue implements the bounded queue: what a reader gets is what some *)
(* writer pushed, in the order of posting, although the copies in and out  *)
(* happen with the scheduler unlocked.                                     *)
Abstract == INSTANCE BoundedQueue WITH
  Writers <- Threads, Readers <- Threads, None <- NoMessage, Capacity <- Size,
  queue <- [k \in 1..entry |-> data[Waiting[k]]],
  want <- arg,
  got <- [t \in Threads |-> IF pc[t] = "copy" THEN data[mail[t]] ELSE out[t]]

IsBoundedQueue == Abstract!Spec

(* Every posted message is received, whatever the other threads do.        *)
Delivered == \A b \in Blocks : b \in RingBlocks ~> b \notin RingBlocks
===============================================================================
