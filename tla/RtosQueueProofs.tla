---------------------------- MODULE RtosQueueProofs ----------------------------
(***************************************************************************)
(* What TLAPS proves of the message queue, for any number of threads,      *)
(* messages and blocks and any assignment of roles and timeouts.           *)
(***************************************************************************)
EXTENDS RtosQueue, MailboxProofs

-------------------------------------------------------------------------------
(* Lists of threads and of blocks.                                         *)

(* Removing a timed-out thread from a wait list leaves a list of threads.  *)
LEMMA WithoutType ==
  ASSUME NEW S, NEW list \in Seq(S), NEW t
  PROVE  Without(list, t) \in Seq(S)
<1> DEFINE hit == {i \in DOMAIN list : list[i] = t}
<1>1. CASE hit = {}
  BY <1>1 DEF Without
<1>2. CASE hit # {}
  <2>1. (CHOOSE k \in hit : TRUE) \in 1..Len(list)
    BY <1>2
  <2> QED
    BY <1>2, <2>1, RemoveAtElements DEF Without
<1> QED
  BY <1>1, <1>2

(* Taking the first thread off a wait list leaves a list of threads.       *)
LEMMA RestType ==
  ASSUME NEW S, NEW list \in Seq(S)
  PROVE  Rest(list) \in Seq(S)
BY HeadTailProperties DEF Rest

(* Linking an element at the front of a list.                              *)
LEMMA ConsProperties ==
  ASSUME NEW S, NEW list \in Seq(S), NEW e \in S
  PROVE  /\ <<e>> \o list \in Seq(S)
         /\ Len(<<e>> \o list) = Len(list) + 1
         /\ (<<e>> \o list)[1] = e
         /\ \A i \in 1..Len(list) : (<<e>> \o list)[i + 1] = list[i]
<1>1. <<e>> \in Seq(S) /\ Len(<<e>>) = 1 /\ <<e>>[1] = e
  OBVIOUS
<1>2. Len(list) \in Nat
  OBVIOUS
<1>3. /\ <<e>> \o list \in Seq(S)
      /\ Len(<<e>> \o list) = 1 + Len(list)
      /\ \A i \in 1..(1 + Len(list)) :
           (<<e>> \o list)[i] = IF i <= 1 THEN <<e>>[i] ELSE list[i - 1]
  BY <1>1, ConcatProperties
<1> QED
  BY <1>1, <1>2, <1>3

-------------------------------------------------------------------------------
(* Type correctness.  A step may rely on the whole invariant: that a free  *)
(* block exists when the counter says so, and that a thread about to free  *)
(* a block holds one.                                                      *)

LEMMA WaitListTypes ==
  ASSUME NEW t \in Threads, TypeOK
  PROVE  /\ mp_suspend_thread \in Seq(Threads)
         /\ Append(mb_suspend_thread, t) \in Seq(Threads)
         /\ Append(mb_suspend_sender, t) \in Seq(Threads)
         /\ <<t>> \o mp_suspend_thread \in Seq(Threads)
         /\ Rest(mb_suspend_thread) \in Seq(Threads)
         /\ Rest(mb_suspend_sender) \in Seq(Threads)
         /\ Without(mb_suspend_thread, t) \in Seq(Threads)
         /\ Without(mb_suspend_sender, t) \in Seq(Threads)
         /\ Without(mp_suspend_thread, t) \in Seq(Threads)
         /\ mp_suspend_thread # << >> => Tail(mp_suspend_thread) \in Seq(Threads)
BY AppendProperties, ConsProperties, RestType, WithoutType, HeadTailProperties
   DEF TypeOK, MbTypeOK, MpTypeOK

(* The offsets stay inside the ring. *)
LEMMA AdvanceType ==
  ASSUME NEW i \in 0..(Size - 1)
  PROVE  Advance(i) \in 0..(Size - 1)
BY SizeAssumption DEF Advance

LEMMA TypeInit == Init => TypeOK
BY SizeAssumption, BlocksAssumption, FreeOrderAssumption
   DEF Init, TypeOK, ThreadInit, MbInit, MpInit, ThreadTypeOK, MbTypeOK, MpTypeOK,
       Timeouts, NoTimeout

LEMMA FreeType ==
  ASSUME Inv, NEW t \in Threads, mail[t] # NoMail, Free(t, mail[t], "idle")
  PROVE  ThreadTypeOK' /\ MpTypeOK' /\ pc' \in [Threads -> {"idle"} \cup PushLabels \cup PopLabels]
<1>1. mail[t] \in Blocks
  BY BlocksAssumption DEF Inv, TypeOK, MbTypeOK
<1>2. <<mail[t]>> \o block_list \in Seq(Blocks)
  BY <1>1, ConsProperties DEF Inv, TypeOK, MpTypeOK
<1>3. mp_suspend_thread # << >> => /\ Head(mp_suspend_thread) \in Threads
                                   /\ Tail(mp_suspend_thread) \in Seq(Threads)
  BY HeadTailProperties DEF Inv, TypeOK, MpTypeOK
<1> USE DEF Inv, TypeOK, ThreadTypeOK, MpTypeOK, Release, Goto
<1>4. CASE FreeNoWaiter(t, mail[t], "idle")
  BY <1>2, <1>4 DEF FreeNoWaiter
<1>5. CASE FreeWakesFirst(t, mail[t], "idle")
  BY <1>2, <1>3, <1>5 DEF FreeWakesFirst, Resume
<1>6. CASE FreeWild(t, mail[t], "idle")
  BY <1>2, <1>6 DEF FreeWild
<1> QED
  BY <1>4, <1>5, <1>6 DEF Free

LEMMA TypeStep ==
  ASSUME Inv, [Next]_vars
  PROVE  TypeOK'
<1> USE DEF TypeOK, ThreadTypeOK, MbTypeOK, MpTypeOK, PushLabels, PopLabels, Timeouts,
            NoTimeout, At, Goto, EnterCall, LeaveCall, threadVars, ringVars, mbVars,
            poolVars, mpVars, bufVars
<1>0. TypeOK
  BY DEF Inv
<1>1. ASSUME NEW t \in Senders, NEW x \in Messages, NEW time \in Timeouts, StartPush(t, x, time)
      PROVE  TypeOK'
  BY <1>0, <1>1, RoleAssumption DEF StartPush
<1>2. ASSUME NEW t \in Receivers, NEW time \in Timeouts, StartPop(t, time)
      PROVE  TypeOK'
  BY <1>0, <1>2, RoleAssumption DEF StartPop
<1>3. ASSUME NEW t \in Threads, PushNoBlock(t)
      PROVE  TypeOK'
  BY <1>0, <1>3 DEF PushNoBlock, AllocNoWait, AllocGivesUp, WokenGivesUp, PushReturns
<1>4. ASSUME NEW t \in Threads, PushWaits(t)
      PROVE  TypeOK'
  <2>1. CASE AllocSuspend(t)
    BY <1>0, <1>4, <2>1, WaitListTypes DEF PushWaits, AllocSuspend, Suspend
  <2>2. CASE AllocRetries(t)
    BY <1>0, <1>4, <2>2 DEF PushWaits, AllocRetries, WokenRetries, Remaining
  <2> QED
    BY <1>4, <2>1, <2>2 DEF PushWaits
<1>5. ASSUME NEW t \in Threads, PushGetsBlock(t)
      PROVE  TypeOK'
  <2>1. block_list # << >> /\ block_free_count - 1 \in Nat
    BY <1>0, <1>5 DEF PushGetsBlock, AllocTake, Inv, BlocksConserved
  <2>2. Head(block_list) \in Blocks /\ Tail(block_list) \in Seq(Blocks)
    BY <1>0, <2>1, HeadTailProperties
  <2> QED
    BY <1>0, <1>5, <2>1, <2>2, BlocksAssumption DEF PushGetsBlock, AllocTake
<1>6. ASSUME NEW t \in Threads, PushCopies(t)
      PROVE  TypeOK'
  BY <1>0, <1>6 DEF PushCopies
<1>7. ASSUME NEW t \in Threads, PushPosts(t)
      PROVE  TypeOK'
  <2>1. Advance(in_offset) \in 0..(Size - 1)
    BY <1>0, AdvanceType
  <2>2. mb_suspend_thread # << >> => Head(mb_suspend_thread) \in Threads
    BY <1>0, HeadTailProperties
  <2>3. stat' \in [Threads -> {"READY", "SUSPEND"}]
    BY <1>0, <1>7, <2>2 DEF PushPosts, SendPut, ResumeFirst, Resume
  <2>4. entry' \in 0..Size
    <3>1. entry' = entry + 1 /\ entry # Size
      BY <1>7 DEF PushPosts, SendPut
    <3> QED
      BY <1>0, <3>1, SizeAssumption
  <2>5. msg_pool' \in [0..(Size - 1) -> Mail \cup {NoMail}]
    BY <1>0, <1>7 DEF PushPosts, SendPut
  <2>6. mb_suspend_thread' \in Seq(Threads)
    BY <1>0, <1>7, WaitListTypes DEF PushPosts, SendPut
  <2>7. in_offset' \in 0..(Size - 1)
    BY <1>7, <2>1 DEF PushPosts, SendPut
  <2> QED
    BY <1>0, <1>7, <2>3, <2>4, <2>5, <2>6, <2>7 DEF PushPosts, SendPut, PushReturns
<1>8. ASSUME NEW t \in Threads, PushFindsFull(t)
      PROVE  TypeOK'
  <2>1. CASE SendFullNoWait(t, "push_free")
    BY <1>0, <1>8, <2>1 DEF PushFindsFull, SendFullNoWait
  <2>2. CASE SendFullSuspend(t)
    BY <1>0, <1>8, <2>2, WaitListTypes DEF PushFindsFull, SendFullSuspend, Suspend
  <2>3. CASE SendWoken(t, "push_free")
    <3>1. CASE WokenGivesUp(t, "send_wait", "push_free")
      BY <1>0, <1>8, <2>3, <3>1 DEF PushFindsFull, SendWoken, WokenGivesUp
    <3>2. CASE WokenRetries(t, "send_wait", "send")
      BY <1>0, <1>8, <2>3, <3>2, SMTT(20) DEF PushFindsFull, SendWoken, WokenRetries, Remaining
    <3> QED
      BY <2>3, <3>1, <3>2 DEF SendWoken
  <2> QED
    BY <1>8, <2>1, <2>2, <2>3 DEF PushFindsFull
<1>9. ASSUME NEW t \in Threads, PushFrees(t)
      PROVE  TypeOK'
  <2>1. mail[t] # NoMail
    BY <1>9 DEF PushFrees, Inv, HeldWhereUsed, HoldLabels
  <2>2. ThreadTypeOK' /\ MpTypeOK' /\ pc' \in [Threads -> {"idle"} \cup PushLabels \cup PopLabels]
    BY <1>9, <2>1, FreeType DEF PushFrees
  <2> QED
    BY <1>0, <1>9, <2>2 DEF PushFrees, PushReturns
<1>10. ASSUME NEW t \in Threads, PopEmpty(t)
       PROVE  TypeOK'
  <2>1. CASE RecvEmptyNoWait(t, "idle")
    BY <1>0, <1>10, <2>1 DEF PopEmpty, RecvEmptyNoWait
  <2>2. CASE RecvEmptySuspend(t)
    BY <1>0, <1>10, <2>2, WaitListTypes DEF PopEmpty, RecvEmptySuspend, Suspend
  <2>3. CASE RecvWoken(t, "idle")
    <3>1. CASE WokenGivesUp(t, "recv_wait", "idle")
      BY <1>0, <1>10, <2>3, <3>1 DEF PopEmpty, RecvWoken, WokenGivesUp
    <3>2. CASE WokenRetries(t, "recv_wait", "recv")
      BY <1>0, <1>10, <2>3, <3>2, SMTT(20) DEF PopEmpty, RecvWoken, WokenRetries, Remaining
    <3> QED
      BY <2>3, <3>1, <3>2 DEF RecvWoken
  <2> QED
    BY <1>10, <2>1, <2>2, <2>3 DEF PopEmpty
<1>11. ASSUME NEW t \in Threads, PopTakes(t)
       PROVE  TypeOK'
  <2>1. Advance(out_offset) \in 0..(Size - 1)
    BY <1>0, AdvanceType
  <2>2. mb_suspend_sender # << >> => Head(mb_suspend_sender) \in Threads
    BY <1>0, HeadTailProperties
  <2>3. stat' \in [Threads -> {"READY", "SUSPEND"}]
    BY <1>0, <1>11, <2>2 DEF PopTakes, RecvTake, ResumeFirst, Resume
  <2>4. entry' \in 0..Size
    <3>1. entry' = entry - 1 /\ entry # 0
      BY <1>11 DEF PopTakes, RecvTake
    <3> QED
      BY <1>0, <3>1, SizeAssumption
  <2>5. mail' \in [Threads -> Mail \cup {NoMail}]
    BY <1>0, <1>11 DEF PopTakes, RecvTake
  <2>6. mb_suspend_sender' \in Seq(Threads)
    BY <1>0, <1>11, WaitListTypes DEF PopTakes, RecvTake
  <2>7. out_offset' \in 0..(Size - 1)
    BY <1>11, <2>1 DEF PopTakes, RecvTake
  <2> QED
    BY <1>0, <1>11, <2>3, <2>4, <2>5, <2>6, <2>7 DEF PopTakes, RecvTake
<1>12. ASSUME NEW t \in Threads, PopCopies(t)
       PROVE  TypeOK'
  <2>1. mail[t] \in Blocks
    BY <1>0, <1>12, BlocksAssumption DEF PopCopies, Inv, HeldWhereUsed, HoldLabels
  <2> QED
    BY <1>0, <1>12, <2>1 DEF PopCopies
<1>13. ASSUME NEW t \in Threads, PopFrees(t)
       PROVE  TypeOK'
  <2>1. mail[t] # NoMail
    BY <1>13 DEF PopFrees, Inv, HeldWhereUsed, HoldLabels
  <2>2. ThreadTypeOK' /\ MpTypeOK' /\ pc' \in [Threads -> {"idle"} \cup PushLabels \cup PopLabels]
    BY <1>13, <2>1, FreeType DEF PopFrees
  <2> QED
    BY <1>0, <1>13, <2>2 DEF PopFrees
<1>14. ASSUME NEW t \in Threads, WaitExpires(t)
       PROVE  TypeOK'
  BY <1>0, <1>14, WaitListTypes DEF WaitExpires, TimedOut, MbLeaveLists, MpLeaveList
<1>15. CASE UNCHANGED vars
  BY <1>0, <1>15 DEF vars
<1> QED
  BY <1>1, <1>2, <1>3, <1>4, <1>5, <1>6, <1>7, <1>8, <1>9, <1>10, <1>11, <1>12, <1>13, <1>14, <1>15
     DEF Next, PushSteps, PopSteps
-------------------------------------------------------------------------------
(* Conservation of blocks.                                                 *)

(* A thread holds a block exactly between the calls that give and take it. *)
LEMMA HeldStep ==
  ASSUME Inv, [Next]_vars
  PROVE  HeldWhereUsed'
<1> USE DEF HeldWhereUsed, HoldLabels, At, Goto, EnterCall, LeaveCall, threadVars, ringVars,
            mbVars, poolVars, mpVars, bufVars
<1>0. TypeOK /\ HeldWhereUsed
  BY DEF Inv
<1>00. /\ pc \in [Threads -> {"idle"} \cup PushLabels \cup PopLabels]
       /\ mail \in [Threads -> Blocks \cup {NoMail}]
       /\ NoMail \notin Blocks
  BY <1>0, BlocksAssumption, NoMailAssumption DEF TypeOK, MbTypeOK
<1> USE <1>0, <1>00
<1>1. ASSUME NEW t \in Senders, NEW x \in Messages, NEW time \in Timeouts, StartPush(t, x, time)
      PROVE  HeldWhereUsed'
  BY <1>1, RoleAssumption DEF StartPush
<1>2. ASSUME NEW t \in Receivers, NEW time \in Timeouts, StartPop(t, time)
      PROVE  HeldWhereUsed'
  BY <1>2, RoleAssumption DEF StartPop
<1>3. ASSUME NEW t \in Threads, PushNoBlock(t)
      PROVE  HeldWhereUsed'
  BY <1>3 DEF PushNoBlock, AllocNoWait, AllocGivesUp, WokenGivesUp
<1>4. ASSUME NEW t \in Threads, PushWaits(t)
      PROVE  HeldWhereUsed'
  BY <1>4 DEF PushWaits, AllocSuspend, Suspend, AllocRetries, WokenRetries
<1>5. ASSUME NEW t \in Threads, PushGetsBlock(t)
      PROVE  HeldWhereUsed'
  <2>1. Head(block_list) \in Blocks
    <3>1. block_list # << >>
      BY <1>5 DEF PushGetsBlock, AllocTake, Inv, BlocksConserved
    <3> QED
      BY <3>1, HeadTailProperties DEF TypeOK, MpTypeOK
  <2> QED
    BY <1>5, <2>1 DEF PushGetsBlock, AllocTake
<1>6. ASSUME NEW t \in Threads, PushCopies(t)
      PROVE  HeldWhereUsed'
  BY <1>6 DEF PushCopies
<1>7. ASSUME NEW t \in Threads, PushPosts(t)
      PROVE  HeldWhereUsed'
  BY <1>7 DEF PushPosts, SendPut
<1>8. ASSUME NEW t \in Threads, PushFindsFull(t)
      PROVE  HeldWhereUsed'
  BY <1>8 DEF PushFindsFull, SendFullNoWait, SendFullSuspend, Suspend, SendWoken,
              WokenGivesUp, WokenRetries
<1>9. ASSUME NEW t \in Threads, PushFrees(t)
      PROVE  HeldWhereUsed'
  BY <1>9 DEF PushFrees, Free, FreeNoWaiter, FreeWakesFirst, FreeWild, Release
<1>10. ASSUME NEW t \in Threads, PopEmpty(t)
       PROVE  HeldWhereUsed'
  BY <1>10 DEF PopEmpty, RecvEmptyNoWait, RecvEmptySuspend, Suspend, RecvWoken,
               WokenGivesUp, WokenRetries
<1>11. ASSUME NEW t \in Threads, PopTakes(t)
       PROVE  HeldWhereUsed'
  <2>1. msg_pool[out_offset] \in Blocks
    <3>1. entry # 0
      BY <1>11 DEF PopTakes, RecvTake
    <3>2. 0 \in 0..(entry - 1) /\ Slot(0) = out_offset
      BY <3>1, SizeAssumption DEF TypeOK, MbTypeOK, Slot
    <3> QED
      BY <3>2 DEF Inv, RingOfBlocks
  <2> QED
    BY <1>11, <2>1 DEF PopTakes, RecvTake
<1>12. ASSUME NEW t \in Threads, PopCopies(t)
       PROVE  HeldWhereUsed'
  BY <1>12 DEF PopCopies
<1>13. ASSUME NEW t \in Threads, PopFrees(t)
       PROVE  HeldWhereUsed'
  BY <1>13 DEF PopFrees, Free, FreeNoWaiter, FreeWakesFirst, FreeWild, Release
<1>14. ASSUME NEW t \in Threads, WaitExpires(t)
       PROVE  HeldWhereUsed'
  BY <1>14 DEF WaitExpires, TimedOut, MbLeaveLists
<1>15. CASE UNCHANGED vars
  BY <1>15 DEF vars
<1> QED
  BY <1>1, <1>2, <1>3, <1>4, <1>5, <1>6, <1>7, <1>8, <1>9, <1>10, <1>11, <1>12, <1>13, <1>14, <1>15
     DEF Next, PushSteps, PopSteps

(* A step that touches neither the pool, the ring nor a thread's block.    *)
LEMMA QuietStep ==
  ASSUME Inv, UNCHANGED <<poolVars, ringVars, mail>>
  PROVE  RingOfBlocks' /\ BlocksConserved'
BY DEF Inv, RingOfBlocks, BlocksConserved, FreeBlocks, RingBlocks, Holders, Slot, poolVars,
       ringVars

(* The consecutive positions of the ring.                                  *)
LEMMA SlotProperties ==
  ASSUME TypeOK
  PROVE  /\ Slot(0) = out_offset
         /\ \A k \in 0..Size : Slot(k) \in 0..(Size - 1)
         /\ \A j, k \in 0..(Size - 1) : Slot(j) = Slot(k) => j = k
         /\ \A k \in 0..(Size - 1) : Advance(Slot(k)) = Slot(k + 1)
BY MbSlotProperties DEF TypeOK

(* The three ways a block can be in use, told apart.                       *)
LEMMA GetsBlockConserves ==
  ASSUME Inv, TypeOK', NEW t \in Threads, PushGetsBlock(t)
  PROVE  RingOfBlocks' /\ BlocksConserved'
<1>0. TypeOK /\ HeldWhereUsed /\ RingOfBlocks /\ BlocksConserved
  BY DEF Inv
<1> DEFINE b == Head(block_list)
<1>1. /\ block_list # << >>
      /\ block_list' = Tail(block_list)
      /\ block_free_count' = block_free_count - 1
      /\ mail' = [mail EXCEPT ![t] = b]
      /\ mail[t] = NoMail
      /\ UNCHANGED ringVars
  BY <1>0 DEF PushGetsBlock, AllocTake, At, mbVars, HeldWhereUsed, HoldLabels, BlocksConserved
<1>2. /\ block_list \in Seq(Blocks)
      /\ Len(block_list) \in Nat \ {0}
      /\ b = block_list[1]
      /\ b \in Blocks
      /\ Len(block_list') = Len(block_list) - 1
      /\ \A i \in 1..Len(block_list') : block_list'[i] = block_list[i + 1]
  BY <1>0, <1>1, HeadTailProperties DEF TypeOK, MpTypeOK
<1>3. NoMail \notin Blocks /\ mail \in [Threads -> Blocks \cup {NoMail}]
  BY <1>0, BlocksAssumption, NoMailAssumption DEF TypeOK, MbTypeOK
<1>4. RingOfBlocks' /\ RingBlocks' = RingBlocks
  BY <1>0, <1>1 DEF RingOfBlocks, RingBlocks, Slot, ringVars
<1>5. FreeBlocks' = FreeBlocks \ {b}
  <2>1. ASSUME NEW i \in 1..Len(block_list'), block_list'[i] = b
        PROVE  FALSE
    BY <1>0, <1>2, <2>1 DEF BlocksConserved
  <2>2. ASSUME NEW i \in 1..Len(block_list'), block_list'[i] # b
        PROVE  block_list'[i] \in FreeBlocks
    <3>1. i + 1 \in 1..Len(block_list) /\ block_list'[i] = block_list[i + 1]
      BY <1>2
    <3> QED
      BY <3>1 DEF FreeBlocks
  <2>3. ASSUME NEW i \in 1..Len(block_list), block_list[i] # b
        PROVE  \E j \in 1..Len(block_list') : block_list[i] = block_list'[j]
    <3>1. i - 1 \in 1..Len(block_list') /\ block_list'[i - 1] = block_list[i]
      BY <1>2, <2>3
    <3> QED
      BY <3>1
  <2> QED
    BY <2>1, <2>2, <2>3 DEF FreeBlocks
<1>6. Holders' = Holders \cup {t}
  BY <1>1, <1>2, <1>3 DEF Holders
<1>7. \A u \in Holders' : mail'[u] = IF u = t THEN b ELSE mail[u]
  BY <1>1, <1>3, <1>6 DEF Holders
<1>8. b \in FreeBlocks
  BY <1>2 DEF FreeBlocks
<1>9. (block_free_count = Len(block_list))'
  BY <1>0, <1>1, <1>2 DEF BlocksConserved
<1>10. (\A i, j \in 1..Len(block_list) : block_list[i] = block_list[j] => i = j)'
  BY <1>0, <1>2 DEF BlocksConserved
<1>11. (\A j, k \in 0..(entry - 1) : msg_pool[Slot(j)] = msg_pool[Slot(k)] => j = k)'
  BY <1>0, <1>1 DEF BlocksConserved, Slot, ringVars
<1>12. (\A u, v \in Holders : mail[u] = mail[v] => u = v)'
  BY <1>0, <1>6, <1>7, <1>8 DEF BlocksConserved, Holders
<1>13. /\ (FreeBlocks \cap RingBlocks = {})'
       /\ (\A u \in Holders : mail[u] \notin FreeBlocks \cup RingBlocks)'
  BY <1>0, <1>4, <1>5, <1>6, <1>7, <1>8 DEF BlocksConserved
<1>14. (\A x \in Blocks : x \in FreeBlocks \cup RingBlocks \/ \E u \in Holders : mail[u] = x)'
  BY <1>0, <1>1, <1>4, <1>5, <1>6, <1>7 DEF BlocksConserved, Holders
<1> QED
  BY <1>4, <1>9, <1>10, <1>11, <1>12, <1>13, <1>14 DEF BlocksConserved

LEMMA FreeConserves ==
  ASSUME Inv, TypeOK', NEW t \in Threads, pc[t] \in HoldLabels, Free(t, mail[t], "idle"),
         mail' = [mail EXCEPT ![t] = NoMail], UNCHANGED mbVars
  PROVE  RingOfBlocks' /\ BlocksConserved'
<1>0. TypeOK /\ HeldWhereUsed /\ RingOfBlocks /\ BlocksConserved
  BY DEF Inv
<1> DEFINE b == mail[t]
<1>1. /\ block_list' = <<b>> \o block_list
      /\ block_free_count' = block_free_count + 1
      /\ UNCHANGED ringVars
  BY DEF Free, FreeNoWaiter, FreeWakesFirst, FreeWild, Release, mbVars
<1>2. /\ NoMail \notin Blocks
      /\ mail \in [Threads -> Blocks \cup {NoMail}]
      /\ b \in Blocks
      /\ t \in Holders
  BY <1>0, BlocksAssumption, NoMailAssumption DEF TypeOK, MbTypeOK, HeldWhereUsed, Holders
<1>3. /\ block_list \in Seq(Blocks)
      /\ Len(block_list) \in Nat
      /\ Len(block_list') = Len(block_list) + 1
      /\ block_list'[1] = b
      /\ \A i \in 1..Len(block_list) : block_list'[i + 1] = block_list[i]
  BY <1>0, <1>1, <1>2, ConsProperties DEF TypeOK, MpTypeOK
<1>4. \A i \in 1..Len(block_list') :
        \/ i = 1
        \/ i - 1 \in 1..Len(block_list) /\ block_list'[i] = block_list[i - 1]
  BY <1>3
<1>5. RingOfBlocks' /\ RingBlocks' = RingBlocks
  BY <1>0, <1>1 DEF RingOfBlocks, RingBlocks, Slot, ringVars
<1>6. FreeBlocks' = FreeBlocks \cup {b}
  <2>1. \A i \in 1..Len(block_list) : i + 1 \in 1..Len(block_list')
    BY <1>3
  <2>2. ASSUME NEW x \in FreeBlocks
        PROVE  x \in FreeBlocks'
    <3>1. PICK i \in 1..Len(block_list) : x = block_list[i]
      BY DEF FreeBlocks
    <3> QED
      BY <1>3, <2>1, <3>1 DEF FreeBlocks
  <2>3. b \in FreeBlocks'
    <3>1. 1 \in 1..Len(block_list') /\ block_list'[1] = b
      BY <1>3
    <3> QED
      BY <3>1 DEF FreeBlocks
  <2>4. ASSUME NEW x \in FreeBlocks', x # b
        PROVE  x \in FreeBlocks
    <3>1. PICK i \in 1..Len(block_list') : x = block_list'[i]
      BY DEF FreeBlocks
    <3> QED
      BY <1>3, <1>4, <2>4, <3>1 DEF FreeBlocks
  <2> QED
    BY <2>2, <2>3, <2>4
<1>7. Holders' = Holders \ {t} /\ \A u \in Holders' : mail'[u] = mail[u]
  BY <1>2 DEF Holders
<1>8. b \notin FreeBlocks /\ b \notin RingBlocks
  BY <1>0, <1>2 DEF BlocksConserved
<1>9. (block_free_count = Len(block_list))'
  BY <1>0, <1>1, <1>3 DEF BlocksConserved
<1>10. (\A i, j \in 1..Len(block_list) : block_list[i] = block_list[j] => i = j)'
  <2>1. \A i \in 1..Len(block_list) : block_list[i] # b
    BY <1>8 DEF FreeBlocks
  <2>2. \A i, j \in 1..Len(block_list) : block_list[i] = block_list[j] => i = j
    BY <1>0 DEF BlocksConserved
  <2>3. ASSUME NEW i \in 1..Len(block_list'), NEW j \in 1..Len(block_list'),
               block_list'[i] = block_list'[j]
        PROVE  i = j
    <3>1. CASE i = 1 \/ j = 1
      BY <1>3, <1>4, <2>1, <2>3, <3>1
    <3>2. CASE i # 1 /\ j # 1
      <4>1. i - 1 = j - 1
        BY <1>4, <2>2, <2>3, <3>2
      <4> QED
        BY <1>3, <4>1
    <3> QED
      BY <3>1, <3>2
  <2> QED
    BY <2>3
<1>11. (\A j, k \in 0..(entry - 1) : msg_pool[Slot(j)] = msg_pool[Slot(k)] => j = k)'
  BY <1>0, <1>1 DEF BlocksConserved, Slot, ringVars
<1>12. (\A u, v \in Holders : mail[u] = mail[v] => u = v)'
  BY <1>0, <1>7 DEF BlocksConserved
<1>13. /\ (FreeBlocks \cap RingBlocks = {})'
       /\ (\A u \in Holders : mail[u] \notin FreeBlocks \cup RingBlocks)'
  BY <1>0, <1>2, <1>5, <1>6, <1>7, <1>8 DEF BlocksConserved
<1>14. (\A x \in Blocks : x \in FreeBlocks \cup RingBlocks \/ \E u \in Holders : mail[u] = x)'
  BY <1>0, <1>2, <1>5, <1>6, <1>7 DEF BlocksConserved
<1> QED
  BY <1>5, <1>9, <1>10, <1>11, <1>12, <1>13, <1>14 DEF BlocksConserved

LEMMA PostConserves ==
  ASSUME Inv, TypeOK', NEW t \in Threads, PushPosts(t)
  PROVE  RingOfBlocks' /\ BlocksConserved'
<1>0. TypeOK /\ HeldWhereUsed /\ RingOfBlocks /\ BlocksConserved
  BY DEF Inv
<1> DEFINE b == mail[t]
<1>1. /\ pc[t] = "send"
      /\ entry # Size
      /\ msg_pool' = [msg_pool EXCEPT ![in_offset] = b]
      /\ in_offset' = Advance(in_offset)
      /\ entry' = entry + 1
      /\ mail' = [mail EXCEPT ![t] = NoMail]
      /\ out_offset' = out_offset
      /\ UNCHANGED poolVars
  BY DEF PushPosts, SendPut, At, mpVars
<1>2. /\ NoMail \notin Blocks
      /\ mail \in [Threads -> Blocks \cup {NoMail}]
      /\ b \in Blocks
      /\ t \in Holders
  BY <1>0, <1>1, BlocksAssumption, NoMailAssumption
     DEF TypeOK, MbTypeOK, HeldWhereUsed, HoldLabels, Holders
<1>3. Size \in Nat /\ entry \in 0..(Size - 1)
  BY <1>0, <1>1, SizeAssumption DEF TypeOK, MbTypeOK
<1>4. \A k \in 0..Size : Slot(k)' = Slot(k)
  BY <1>1 DEF Slot
<1>5. /\ msg_pool'[Slot(entry)] = b
      /\ \A k \in 0..(entry - 1) : msg_pool'[Slot(k)] = msg_pool[Slot(k)]
  <2>1. in_offset = Slot(entry) /\ in_offset \in DOMAIN msg_pool
    BY <1>0 DEF RingOfBlocks, TypeOK, MbTypeOK
  <2>2. \A k \in 0..(entry - 1) : Slot(k) # Slot(entry)
    BY <1>0, <1>3, SlotProperties
  <2> QED
    BY <1>1, <2>1, <2>2
<1>6. RingOfBlocks'
  <2>1. (in_offset = Slot(entry))'
    <3>1. in_offset' = Slot(entry + 1)
      BY <1>0, <1>1, <1>3, SlotProperties DEF RingOfBlocks
    <3> QED
      BY <1>1, <3>1 DEF Slot
  <2>2. (\A k \in 0..(entry - 1) : msg_pool[Slot(k)] \in Blocks)'
    <3>1. \A k \in 0..(entry' - 1) : k \in 0..Size /\ (k = entry \/ k \in 0..(entry - 1))
      BY <1>1, <1>3
    <3> QED
      BY <1>0, <1>2, <1>4, <1>5, <3>1 DEF RingOfBlocks
  <2> QED
    BY <2>1, <2>2 DEF RingOfBlocks
<1>7. RingBlocks' = RingBlocks \cup {b}
  <2>1. \A k \in 0..(entry' - 1) : k \in 0..Size /\ (k = entry \/ k \in 0..(entry - 1))
    BY <1>1, <1>3
  <2>2. entry \in 0..(entry' - 1) /\ \A k \in 0..(entry - 1) : k \in 0..(entry' - 1)
    BY <1>1, <1>3
  <2>3. ASSUME NEW x \in RingBlocks'
        PROVE  x \in RingBlocks \cup {b}
    <3>1. PICK k \in 0..(entry' - 1) : x = msg_pool'[Slot(k)']
      BY DEF RingBlocks
    <3> QED
      BY <1>4, <1>5, <2>1, <3>1 DEF RingBlocks
  <2>4. ASSUME NEW x \in RingBlocks
        PROVE  x \in RingBlocks'
    <3>1. PICK k \in 0..(entry - 1) : x = msg_pool[Slot(k)]
      BY DEF RingBlocks
    <3>2. x = msg_pool'[Slot(k)']
      BY <1>4, <1>5, <2>1, <2>2, <3>1
    <3> QED
      BY <2>2, <3>2 DEF RingBlocks
  <2>5. b \in RingBlocks'
    <3>1. PICK k \in 0..(entry' - 1) : k = entry
      BY <2>2
    <3>2. b = msg_pool'[Slot(k)']
      BY <1>3, <1>4, <1>5, <3>1
    <3> QED
      BY <3>2 DEF RingBlocks
  <2> QED
    BY <2>3, <2>4, <2>5
<1>8. FreeBlocks' = FreeBlocks /\ block_list' = block_list /\ block_free_count' = block_free_count
  BY <1>1 DEF FreeBlocks, poolVars
<1>9. Holders' = Holders \ {t} /\ \A u \in Holders' : mail'[u] = mail[u]
  BY <1>1, <1>2 DEF Holders
<1>10. b \notin FreeBlocks /\ b \notin RingBlocks
  BY <1>0, <1>2 DEF BlocksConserved
<1>11. (\A j, k \in 0..(entry - 1) : msg_pool[Slot(j)] = msg_pool[Slot(k)] => j = k)'
  <2>1. \A k \in 0..(entry' - 1) : k \in 0..Size /\ (k = entry \/ k \in 0..(entry - 1))
    BY <1>1, <1>3
  <2>2. \A k \in 0..(entry - 1) : msg_pool[Slot(k)] # b
    BY <1>10 DEF RingBlocks
  <2>3. \A j, k \in 0..(entry - 1) : msg_pool[Slot(j)] = msg_pool[Slot(k)] => j = k
    BY <1>0 DEF BlocksConserved
  <2> QED
    BY <1>4, <1>5, <2>1, <2>2, <2>3
<1>12. (\A u, v \in Holders : mail[u] = mail[v] => u = v)'
  BY <1>0, <1>9 DEF BlocksConserved
<1>13. /\ (FreeBlocks \cap RingBlocks = {})'
       /\ (\A u \in Holders : mail[u] \notin FreeBlocks \cup RingBlocks)'
  BY <1>0, <1>2, <1>7, <1>8, <1>9, <1>10 DEF BlocksConserved
<1>14. (\A x \in Blocks : x \in FreeBlocks \cup RingBlocks \/ \E u \in Holders : mail[u] = x)'
  BY <1>0, <1>2, <1>7, <1>8, <1>9 DEF BlocksConserved
<1> QED
  BY <1>0, <1>6, <1>8, <1>11, <1>12, <1>13, <1>14 DEF BlocksConserved

LEMMA TakeConserves ==
  ASSUME Inv, TypeOK', NEW t \in Threads, PopTakes(t)
  PROVE  RingOfBlocks' /\ BlocksConserved'
<1>0. TypeOK /\ HeldWhereUsed /\ RingOfBlocks /\ BlocksConserved
  BY DEF Inv
<1> DEFINE b == msg_pool[out_offset]
<1>1. /\ pc[t] = "recv"
      /\ entry # 0
      /\ mail' = [mail EXCEPT ![t] = b]
      /\ out_offset' = Advance(out_offset)
      /\ entry' = entry - 1
      /\ in_offset' = in_offset
      /\ msg_pool' = msg_pool
      /\ UNCHANGED poolVars
  BY DEF PopTakes, RecvTake, At, mpVars
<1>2. /\ Size \in Nat
      /\ entry \in 1..Size
      /\ entry' \in 0..(Size - 1)
      /\ \A k \in 0..(entry' - 1) :
           k \in 0..(Size - 1) /\ k + 1 \in 0..(entry - 1) /\ k + 1 # 0
      /\ \A k \in 0..(entry - 1) :
           k = 0 \/ (k - 1 \in 0..(entry' - 1) /\ k - 1 \in 0..(Size - 1) /\ (k - 1) + 1 = k)
  BY <1>0, <1>1, SizeAssumption DEF TypeOK, MbTypeOK
<1>3. \A k \in 0..(Size - 1) : Slot(k)' = Slot(k + 1)
  <2>1. Size > 0 /\ out_offset \in 0..(Size - 1)
    BY <1>0, <1>2 DEF TypeOK, MbTypeOK
  <2> QED
    BY <1>1, <1>2, <2>1 DEF Slot, Advance
<1>4. 0 \in 0..(entry - 1) /\ Slot(0) = out_offset
  BY <1>0, <1>2, SlotProperties
<1>5. /\ NoMail \notin Blocks
      /\ mail \in [Threads -> Blocks \cup {NoMail}]
      /\ mail[t] = NoMail
      /\ b \in Blocks
      /\ b \in RingBlocks
  BY <1>0, <1>1, <1>4, BlocksAssumption, NoMailAssumption
     DEF TypeOK, MbTypeOK, HeldWhereUsed, HoldLabels, RingOfBlocks, RingBlocks
<1>6. RingOfBlocks'
  <2>1. (in_offset = Slot(entry))'
    <3>1. in_offset = Slot(entry)
      BY <1>0 DEF RingOfBlocks
    <3>2. out_offset \in 0..(Size - 1)
      BY <1>0 DEF TypeOK, MbTypeOK
    <3> QED
      BY <1>1, <1>2, <3>1, <3>2 DEF Slot, Advance
  <2>2. (\A k \in 0..(entry - 1) : msg_pool[Slot(k)] \in Blocks)'
    <3>1. \A k \in 0..(entry' - 1) : k \in 0..(Size - 1)
      BY <1>2
    <3> QED
      BY <1>0, <1>1, <1>2, <1>3, <3>1 DEF RingOfBlocks
  <2> QED
    BY <2>1, <2>2 DEF RingOfBlocks
<1>7. \A j, k \in 0..(entry - 1) : msg_pool[Slot(j)] = msg_pool[Slot(k)] => j = k
  BY <1>0 DEF BlocksConserved
<1>8. RingBlocks' = RingBlocks \ {b}
  <2>1. ASSUME NEW x \in RingBlocks'
        PROVE  x \in RingBlocks /\ x # b
    <3>1. PICK k \in 0..(entry' - 1) : x = msg_pool[Slot(k)']
      BY <1>1 DEF RingBlocks
    <3>2. k + 1 \in 0..(entry - 1) /\ k \in 0..(Size - 1) /\ k + 1 # 0
      BY <1>2
    <3>3. x = msg_pool[Slot(k + 1)]
      BY <1>3, <3>1, <3>2
    <3> QED
      BY <1>4, <1>7, <3>2, <3>3 DEF RingBlocks
  <2>2. ASSUME NEW x \in RingBlocks, x # b
        PROVE  x \in RingBlocks'
    <3>1. PICK k \in 0..(entry - 1) : x = msg_pool[Slot(k)]
      BY DEF RingBlocks
    <3>2. k - 1 \in 0..(entry' - 1) /\ k - 1 \in 0..(Size - 1) /\ (k - 1) + 1 = k
      BY <1>2, <1>4, <2>2, <3>1
    <3>3. x = msg_pool'[Slot(k - 1)']
      <4>1. PICK j \in 0..(Size - 1) : j = k - 1 /\ j + 1 = k
        BY <3>2
      <4> QED
        BY <1>1, <1>3, <3>1, <4>1
    <3> QED
      BY <3>2, <3>3 DEF RingBlocks
  <2> QED
    BY <2>1, <2>2
<1>9. FreeBlocks' = FreeBlocks /\ block_list' = block_list /\ block_free_count' = block_free_count
  BY <1>1 DEF FreeBlocks, poolVars
<1>10. Holders' = Holders \cup {t} /\ \A u \in Holders' : mail'[u] = IF u = t THEN b ELSE mail[u]
  BY <1>1, <1>5 DEF Holders
<1>11. (\A j, k \in 0..(entry - 1) : msg_pool[Slot(j)] = msg_pool[Slot(k)] => j = k)'
  <2>1. \A k \in 0..(entry' - 1) : k \in 0..(Size - 1) /\ k + 1 \in 0..(entry - 1)
    BY <1>2
  <2>2. ASSUME NEW j \in 0..(entry' - 1), NEW k \in 0..(entry' - 1),
               msg_pool'[Slot(j)'] = msg_pool'[Slot(k)']
        PROVE  j = k
    <3>1. j + 1 = k + 1
      BY <1>1, <1>3, <1>7, <2>1, <2>2
    <3> QED
      BY <2>1, <3>1
  <2> QED
    BY <2>2
<1>12. (\A u, v \in Holders : mail[u] = mail[v] => u = v)'
  BY <1>0, <1>5, <1>10 DEF BlocksConserved, Holders
<1>13. /\ (FreeBlocks \cap RingBlocks = {})'
       /\ (\A u \in Holders : mail[u] \notin FreeBlocks \cup RingBlocks)'
  BY <1>0, <1>5, <1>8, <1>9, <1>10 DEF BlocksConserved, Holders
<1>14. (\A x \in Blocks : x \in FreeBlocks \cup RingBlocks \/ \E u \in Holders : mail[u] = x)'
  BY <1>0, <1>5, <1>8, <1>9, <1>10 DEF BlocksConserved, Holders
<1> QED
  BY <1>0, <1>6, <1>9, <1>11, <1>12, <1>13, <1>14 DEF BlocksConserved

-------------------------------------------------------------------------------
(* The inductive invariant.                                                *)

LEMMA InvInit == Init => Inv
<1> SUFFICES ASSUME Init PROVE Inv
  OBVIOUS
<1>1. TypeOK
  BY TypeInit
<1>2. /\ entry = 0
      /\ block_list = FreeOrder
      /\ block_free_count = Len(block_list)
      /\ Holders = {}
      /\ RingBlocks = {}
  BY DEF Init, MbInit, MpInit, Holders, RingBlocks
<1>3. HeldWhereUsed
  BY DEF Init, ThreadInit, MbInit, HeldWhereUsed, HoldLabels
<1>4. RingOfBlocks
  BY SizeAssumption DEF Init, MbInit, RingOfBlocks, Slot
<1>5. BlocksConserved
  BY <1>2, FreeOrderAssumption DEF BlocksConserved, FreeBlocks
<1> QED
  BY <1>1, <1>3, <1>4, <1>5 DEF Inv

LEMMA InvStep == Inv /\ [Next]_vars => Inv'
<1> SUFFICES ASSUME Inv, [Next]_vars PROVE Inv'
  OBVIOUS
<1> USE DEF mbVars, mpVars, poolVars, ringVars
<1>1. TypeOK' /\ HeldWhereUsed'
  BY TypeStep, HeldStep
<1>2. ASSUME UNCHANGED <<poolVars, ringVars, mail>>
      PROVE  RingOfBlocks' /\ BlocksConserved'
  BY <1>2, QuietStep
<1>3. ASSUME NEW t \in Senders, NEW x \in Messages, NEW time \in Timeouts, StartPush(t, x, time)
      PROVE  UNCHANGED <<poolVars, ringVars, mail>>
  BY <1>3 DEF StartPush
<1>4. ASSUME NEW t \in Receivers, NEW time \in Timeouts, StartPop(t, time)
      PROVE  UNCHANGED <<poolVars, ringVars, mail>>
  BY <1>4 DEF StartPop
<1>5. ASSUME NEW t \in Threads, PushNoBlock(t) \/ PushWaits(t) \/ PushCopies(t) \/ PushFindsFull(t)
      PROVE  UNCHANGED <<poolVars, ringVars, mail>>
  BY <1>5 DEF PushNoBlock, AllocNoWait, AllocGivesUp, PushWaits, AllocSuspend, AllocRetries,
              PushCopies, PushFindsFull, SendFullNoWait, SendFullSuspend, SendWoken
<1>6. ASSUME NEW t \in Threads, PopEmpty(t) \/ PopCopies(t) \/ WaitExpires(t)
      PROVE  UNCHANGED <<poolVars, ringVars, mail>>
  BY <1>6 DEF PopEmpty, RecvEmptyNoWait, RecvEmptySuspend, RecvWoken, PopCopies, WaitExpires,
              MbLeaveLists, MpLeaveList
<1>7. ASSUME NEW t \in Threads, PushFrees(t) \/ PopFrees(t)
      PROVE  RingOfBlocks' /\ BlocksConserved'
  <2>1. pc[t] \in HoldLabels
    BY <1>7 DEF PushFrees, PopFrees, At, HoldLabels
  <2> QED
    BY <1>1, <1>7, <2>1, FreeConserves DEF PushFrees, PopFrees
<1>8. CASE UNCHANGED vars
  BY <1>1, <1>2, <1>8 DEF vars, Inv
<1> QED
  BY <1>1, <1>2, <1>3, <1>4, <1>5, <1>6, <1>7, <1>8,
     GetsBlockConserves, PostConserves, TakeConserves
     DEF Next, PushSteps, PopSteps, Inv

LEMMA Invariance == Spec => []Inv
BY InvInit, InvStep, PTL DEF Spec

(* The values of every variable keep their type: the ring offsets and the  *)
(* entry count never leave the ring, the counters never go below zero.     *)
THEOREM TypeCorrect == Spec => []TypeOK
<1>1. Inv => TypeOK
  BY DEF Inv
<1> QED
  BY <1>1, Invariance, PTL

(* However pushes, pops, timeouts and failures interleave, each block of   *)
(* the pool is free, posted or in one thread's hands - and in one only.    *)
THEOREM Conservation == Spec => []BlocksConserved
<1>1. Inv => BlocksConserved
  BY DEF Inv
<1> QED
  BY <1>1, Invariance, PTL

-------------------------------------------------------------------------------
(* rtos_init_queue gives the pool and the mailbox the same number of       *)
(* elements.  Under that assumption a block that is not in the ring leaves *)
(* room for itself there.                                                  *)

LEMMA RoomForBlock ==
  ASSUME Inv, Len(FreeOrder) <= Size, NEW b \in Blocks, b \notin RingBlocks
  PROVE  entry < Size
<1>0. /\ Size \in Nat
      /\ entry \in 0..Size
      /\ RingOfBlocks
      /\ \A j, k \in 0..(entry - 1) : msg_pool[Slot(j)] = msg_pool[Slot(k)] => j = k
  BY SizeAssumption DEF Inv, TypeOK, MbTypeOK, BlocksConserved
<1>1. IsFiniteSet(Blocks) /\ Cardinality(Blocks) \in Nat /\ Cardinality(Blocks) <= Size
  <2>1. FreeOrder \in [1..Len(FreeOrder) -> Blocks] /\ Len(FreeOrder) \in Nat
    BY FreeOrderAssumption
  <2>2. FreeOrder \in Surjection(1..Len(FreeOrder), Blocks)
    BY <2>1, FreeOrderAssumption DEF Surjection
  <2>3. /\ IsFiniteSet(1..Len(FreeOrder))
        /\ Cardinality(1..Len(FreeOrder)) = Len(FreeOrder)
    <3>1. \A n \in Nat : IsFiniteSet(1..n) /\ Cardinality(1..n) = IF 1 > n THEN 0 ELSE n - 1 + 1
      BY FS_Interval
    <3>2. \A n \in Nat : (IF 1 > n THEN 0 ELSE n - 1 + 1) = n
      OBVIOUS
    <3> QED
      BY <2>1, <3>1, <3>2
  <2>4. IsFiniteSet(Blocks) /\ Cardinality(Blocks) <= Len(FreeOrder)
    BY <2>2, <2>3, FS_Surjection
  <2> QED
    BY <1>0, <2>1, <2>4, FS_CardinalityType
<1> DEFINE f == [k \in 0..entry |-> IF k = entry THEN b ELSE msg_pool[Slot(k)]]
<1>2. f \in Injection(0..entry, Blocks)
  <2>1. \A k \in 0..entry : k # entry => k \in 0..(entry - 1)
    BY <1>0
  <2>2. f \in [0..entry -> Blocks]
    BY <1>0, <2>1 DEF RingOfBlocks
  <2>3. \A k \in 0..(entry - 1) : msg_pool[Slot(k)] # b
    BY DEF RingBlocks
  <2>4. ASSUME NEW j \in 0..entry, NEW k \in 0..entry, f[j] = f[k]
        PROVE  j = k
    BY <1>0, <2>1, <2>3, <2>4
  <2> QED
    <3>1. DOMAIN f = 0..entry
      OBVIOUS
    <3> HIDE DEF f
    <3> QED
      BY <2>2, <2>4, <3>1 DEF Injection, IsInjective
<1>3. Cardinality(0..entry) <= Cardinality(Blocks)
  BY <1>1, <1>2, FS_Injection
<1>4. Cardinality(0..entry) = entry + 1
  BY <1>0, FS_Interval
<1> QED
  BY <1>0, <1>1, <1>3, <1>4

(* A thread that was given a block always finds room to post it: the wait  *)
(* and the error path of rt_mb_send_wait are never taken by a push.        *)
THEOREM RoomToPost ==
  ASSUME Len(FreeOrder) <= Size
  PROVE  Spec => []SendNeverFull
<1>1. Inv => SendNeverFull
  <2> SUFFICES ASSUME Inv, NEW t \in Threads, pc[t] = "send" PROVE entry < Size
    BY DEF SendNeverFull
  <2>1. mail[t] \in Blocks /\ t \in Holders
    BY BlocksAssumption
       DEF Inv, TypeOK, MbTypeOK, HeldWhereUsed, HoldLabels, Holders
  <2>2. mail[t] \notin RingBlocks
    BY <2>1 DEF Inv, BlocksConserved
  <2> QED
    BY <2>1, <2>2, RoomForBlock
<1> QED
  BY <1>1, Invariance, PTL

(* rtos_is_queue_full, which looks at the mailbox only, says yes exactly   *)
(* when the pool is exhausted by posted messages.                          *)
THEOREM FullIsExhausted ==
  ASSUME Len(FreeOrder) <= Size
  PROVE  Spec => []FullMeansExhausted
<1>1. Inv => FullMeansExhausted
  <2> SUFFICES ASSUME Inv, entry = Size PROVE block_list = << >> /\ Holders = {}
    BY DEF FullMeansExhausted
  <2>0. TypeOK /\ BlocksConserved
    BY DEF Inv
  <2>1. \A b \in Blocks : b \in RingBlocks
    <3>1. Size \in Nat
      BY SizeAssumption
    <3> QED
      BY <3>1, RoomForBlock
  <2>2. Holders = {}
    BY <2>0, <2>1, BlocksAssumption DEF TypeOK, MbTypeOK, BlocksConserved, Holders
  <2>3. block_list = << >>
    <3>1. SUFFICES ASSUME block_list # << >> PROVE FALSE
      OBVIOUS
    <3>2. 1 \in 1..Len(block_list) /\ block_list[1] \in Blocks
      BY <2>0, <3>1 DEF TypeOK, MpTypeOK
    <3> QED
      BY <2>0, <2>1, <3>2 DEF BlocksConserved, FreeBlocks
  <2> QED
    BY <2>2, <2>3
<1> QED
  BY <1>1, Invariance, PTL

(* Counting the blocks by where they are.                                  *)
LEMMA CountOnce ==
  ASSUME NEW S, NEW T, IsFiniteSet(S), NEW f \in [S -> T],
         \A x, y \in S : f[x] = f[y] => x = y,
         \A y \in T : \E x \in S : f[x] = y
  PROVE  IsFiniteSet(T) /\ Cardinality(T) = Cardinality(S)
<1>1. f \in Injection(S, T)
  BY DEF Injection, IsInjective
<1>2. f \in Bijection(S, T)
  BY <1>1 DEF Surjection, Bijection
<1> QED
  BY <1>2, FS_Bijection DEF ExistsBijection

LEMMA CountInterval ==
  ASSUME NEW n \in Nat
  PROVE  /\ IsFiniteSet(1..n) /\ Cardinality(1..n) = n
         /\ IsFiniteSet(0..(n - 1)) /\ Cardinality(0..(n - 1)) = n
<1>1. IsFiniteSet(1..n) /\ Cardinality(1..n) = IF 1 > n THEN 0 ELSE n - 1 + 1
  BY FS_Interval
<1>2. IsFiniteSet(0..(n - 1)) /\ Cardinality(0..(n - 1)) = IF 0 > n - 1 THEN 0 ELSE n - 1 - 0 + 1
  BY FS_Interval
<1> QED
  BY <1>1, <1>2

InUse == entry + Cardinality(Holders)

(* Every block is free, or holds a message in the queue, or is in the      *)
(* hands of a thread in the middle of a push or a pop: the numbers add up. *)
(* So a push without waiting that finds no block has found the queue full  *)
(* but for the blocks in hand, which is all WifiCore's PushFailed assumes  *)
(* of the queue; that Pushed finds room is RoomToPost.                     *)
THEOREM BlocksAddUp == Spec => [](IsFiniteSet(Holders) /\ block_free_count + InUse = Len(FreeOrder))
<1>1. ASSUME Inv
      PROVE  IsFiniteSet(Holders) /\ block_free_count + InUse = Len(FreeOrder)
  <2> DEFINE Held == {mail[t] : t \in Holders}
             free == Len(block_list)
  <2>1. TypeOK /\ BlocksConserved /\ RingOfBlocks
    BY <1>1 DEF Inv
  <2>2. block_list \in Seq(Blocks) /\ free \in Nat /\ Size \in Nat /\ entry \in 0..Size
    BY <2>1, SizeAssumption DEF TypeOK, MbTypeOK, MpTypeOK
  <2>3. entry \in Nat /\ block_free_count = free
    BY <2>1, <2>2 DEF BlocksConserved
  <2>4. IsFiniteSet(Blocks) /\ Cardinality(Blocks) = Len(FreeOrder)
    <3>1. FreeOrder \in [1..Len(FreeOrder) -> Blocks] /\ Len(FreeOrder) \in Nat
      BY FreeOrderAssumption
    <3>2. \A x, y \in 1..Len(FreeOrder) : FreeOrder[x] = FreeOrder[y] => x = y
      BY FreeOrderAssumption
    <3>3. \A y \in Blocks : \E x \in 1..Len(FreeOrder) : FreeOrder[x] = y
      BY FreeOrderAssumption
    <3>4. IsFiniteSet(1..Len(FreeOrder)) /\ Cardinality(1..Len(FreeOrder)) = Len(FreeOrder)
      BY <3>1, CountInterval
    <3> QED
      BY <3>1, <3>2, <3>3, <3>4, CountOnce
  <2>5. IsFiniteSet(FreeBlocks) /\ Cardinality(FreeBlocks) = free /\ FreeBlocks \subseteq Blocks
    <3>1. block_list \in [1..free -> FreeBlocks] /\ FreeBlocks \subseteq Blocks
      BY <2>2 DEF FreeBlocks
    <3>2. \A x, y \in 1..free : block_list[x] = block_list[y] => x = y
      BY <2>1 DEF BlocksConserved
    <3>3. \A y \in FreeBlocks : \E x \in 1..free : block_list[x] = y
      BY DEF FreeBlocks
    <3>4. IsFiniteSet(1..free) /\ Cardinality(1..free) = free
      BY <2>2, CountInterval
    <3> QED
      BY <3>1, <3>2, <3>3, <3>4, CountOnce
  <2>6. IsFiniteSet(RingBlocks) /\ Cardinality(RingBlocks) = entry /\ RingBlocks \subseteq Blocks
    <3> DEFINE Pos == 0..(entry - 1)
               g == [k \in Pos |-> msg_pool[Slot(k)]]
    <3>1. RingBlocks \subseteq Blocks
      BY <2>1 DEF RingBlocks, RingOfBlocks
    <3>2. \A k \in Pos : msg_pool[Slot(k)] \in RingBlocks
      BY DEF RingBlocks
    <3>3. \A x, y \in Pos : msg_pool[Slot(x)] = msg_pool[Slot(y)] => x = y
      BY <2>1 DEF BlocksConserved
    <3>4. \A y \in RingBlocks : \E x \in Pos : msg_pool[Slot(x)] = y
      BY DEF RingBlocks
    <3>5. IsFiniteSet(Pos) /\ Cardinality(Pos) = entry
      BY <2>3, CountInterval
    <3> HIDE DEF Pos
    <3>6. \A x \in Pos : g[x] = msg_pool[Slot(x)]
      OBVIOUS
    <3>7. g \in [Pos -> RingBlocks]
      BY <3>2
    <3> HIDE DEF g
    <3>8. \A x, y \in Pos : g[x] = g[y] => x = y
      BY <3>3, <3>6
    <3>9. \A y \in RingBlocks : \E x \in Pos : g[x] = y
      BY <3>4, <3>6
    <3>10. IsFiniteSet(RingBlocks) /\ Cardinality(RingBlocks) = Cardinality(Pos)
      BY <3>5, <3>7, <3>8, <3>9, CountOnce
    <3> QED
      BY <3>1, <3>5, <3>10
  <2>7. IsFiniteSet(Held) /\ IsFiniteSet(Holders) /\ Cardinality(Held) = Cardinality(Holders)
    <3>1. Held \in SUBSET Blocks
      BY <2>1, BlocksAssumption DEF TypeOK, MbTypeOK, Holders
    <3>2. IsFiniteSet(Held)
      BY <2>4, <3>1, FS_Subset
    <3> DEFINE h == [b \in Held |-> CHOOSE t \in Holders : mail[t] = b]
    <3>3. \A b \in Held : h[b] \in Holders /\ mail[h[b]] = b
      OBVIOUS
    <3>4. \A t \in Holders : h[mail[t]] = t
      <4>1. \A t, u \in Holders : mail[t] = mail[u] => t = u
        BY <2>1 DEF BlocksConserved
      <4>2. \A t \in Holders : mail[t] \in Held
        OBVIOUS
      <4> HIDE DEF h, Held
      <4> QED
        BY <3>3, <4>1, <4>2
    <3>5. h \in [Held -> Holders]
      BY <3>3
    <3>6. \A t \in Holders : mail[t] \in Held
      OBVIOUS
    <3> HIDE DEF h, Held
    <3>7. \A x, y \in Held : h[x] = h[y] => x = y
      BY <3>3
    <3>8. \A t \in Holders : \E b \in Held : h[b] = t
      BY <3>4, <3>6
    <3> QED
      BY <3>2, <3>5, <3>7, <3>8, CountOnce
  <2>8. FreeBlocks \cap RingBlocks = {} /\ (FreeBlocks \cup RingBlocks) \cap Held = {}
    BY <2>1 DEF BlocksConserved
  <2>9. Blocks = (FreeBlocks \cup RingBlocks) \cup Held
    <3>1. Held \subseteq Blocks
      BY <2>1, BlocksAssumption DEF TypeOK, MbTypeOK, Holders
    <3>2. \A b \in Blocks : b \in FreeBlocks \cup RingBlocks \/ b \in Held
      BY <2>1 DEF BlocksConserved
    <3> QED
      BY <2>5, <2>6, <3>1, <3>2
  <2> HIDE DEF Held, free
  <2>10. Cardinality({}) = 0
    BY FS_EmptySet
  <2>11. /\ IsFiniteSet(FreeBlocks \cup RingBlocks)
         /\ Cardinality(FreeBlocks \cup RingBlocks) = free + entry
    BY <2>2, <2>3, <2>5, <2>6, <2>8, <2>10, FS_Union
  <2>12. Cardinality(Holders) \in Nat
    BY <2>7, FS_CardinalityType
  <2>13. Cardinality(Blocks) = free + entry + Cardinality(Holders)
    <3> DEFINE Filled == FreeBlocks \cup RingBlocks
    <3>1. IsFiniteSet(Filled) /\ Cardinality(Filled) = free + entry
      BY <2>11
    <3>2. Filled \cap Held = {} /\ Blocks = Filled \cup Held
      BY <2>8, <2>9
    <3> HIDE DEF Filled
    <3>3. Cardinality(Filled \cup Held) = Cardinality(Filled) + Cardinality(Held) - Cardinality(Filled \cap Held)
      BY <2>7, <3>1, FS_Union
    <3>4. Cardinality(Filled \cap Held) = 0 /\ Cardinality(Filled \cup Held) = Cardinality(Blocks)
      BY <2>10, <3>2
    <3> QED
      BY <2>2, <2>3, <2>7, <2>12, <3>1, <3>3, <3>4
  <2> QED
    BY <2>2, <2>3, <2>4, <2>7, <2>12, <2>13 DEF InUse
<1> QED
  BY <1>1, Invariance, PTL

-------------------------------------------------------------------------------
(* The pool's counter of suspended threads.                                *)

LEMMA WithoutLen ==
  ASSUME NEW S, NEW list \in Seq(S), NEW t
  PROVE  Len(Without(list, t)) <= Len(list)
<1> DEFINE hit == {i \in DOMAIN list : list[i] = t}
<1>0. Len(list) \in Nat
  OBVIOUS
<1>1. CASE hit = {}
  BY <1>0, <1>1 DEF Without
<1>2. CASE hit # {}
  <2> DEFINE i == CHOOSE k \in hit : TRUE
  <2>1. i \in 1..Len(list)
    BY <1>2
  <2>2. /\ SubSeq(list, 1, i - 1) \in Seq(S)
        /\ Len(SubSeq(list, 1, i - 1)) = i - 1
    <3>1. \A k \in 1..(i - 1) : list[k] \in S
      BY <1>0, <2>1
    <3> HIDE DEF i
    <3> QED
      BY <1>0, <2>1, <3>1, SubSeqProperties
  <2>3. /\ SubSeq(list, i + 1, Len(list)) \in Seq(S)
        /\ Len(SubSeq(list, i + 1, Len(list))) = Len(list) - i
    <3>1. \A k \in (i + 1)..Len(list) : list[k] \in S
      BY <1>0, <2>1
    <3> HIDE DEF i
    <3> QED
      BY <1>0, <2>1, <3>1, SubSeqProperties
  <2>4. Len(RemoveAt(list, i)) = (i - 1) + (Len(list) - i)
    BY <2>2, <2>3, ConcatProperties DEF RemoveAt
  <2> QED
    BY <1>0, <1>2, <2>1, <2>4 DEF Without
<1> QED
  BY <1>1, <1>2

LEMMA PendedStep == Inv /\ PendedCounted /\ [Next]_vars => PendedCounted'
<1> SUFFICES ASSUME Inv, PendedCounted, [Next]_vars PROVE PendedCounted'
  OBVIOUS
<1> USE DEF PendedCounted, mpVars
<1>0. /\ mp_suspend_thread \in Seq(Threads)
      /\ Len(mp_suspend_thread) \in Nat
      /\ suspend_thread_count \in Nat
  BY DEF Inv, TypeOK, MpTypeOK
<1>1. ASSUME UNCHANGED <<mp_suspend_thread, suspend_thread_count>>
      PROVE  PendedCounted'
  BY <1>1
<1>2. ASSUME NEW t \in Threads, AllocSuspend(t)
      PROVE  PendedCounted'
  BY <1>0, <1>2, ConsProperties DEF AllocSuspend
<1>3. ASSUME NEW t \in Threads, PushFrees(t) \/ PopFrees(t)
      PROVE  PendedCounted'
  <2>1. CASE FreeNoWaiter(t, mail[t], "idle")
    BY <2>1 DEF FreeNoWaiter
  <2>2. CASE FreeWakesFirst(t, mail[t], "idle")
    <3>1. Len(Tail(mp_suspend_thread)) = Len(mp_suspend_thread) - 1
      BY <1>0, <2>2, HeadTailProperties DEF FreeWakesFirst
    <3> QED
      BY <1>0, <2>2, <3>1 DEF FreeWakesFirst
  <2>3. CASE FreeWild(t, mail[t], "idle")
    BY <1>0, <2>3 DEF FreeWild
  <2> QED
    BY <1>3, <2>1, <2>2, <2>3 DEF PushFrees, PopFrees, Free
<1>4. ASSUME NEW t \in Threads, WaitExpires(t)
      PROVE  PendedCounted'
  <2>1. Len(Without(mp_suspend_thread, t)) \in Nat
    BY <1>0, WithoutType
  <2> QED
    BY <1>0, <1>4, <2>1, WithoutLen DEF WaitExpires, MpLeaveList
<1>5. ASSUME NEW t \in Threads, PushSteps(t) \/ PopSteps(t),
             ~ AllocSuspend(t), ~ PushFrees(t), ~ PopFrees(t)
      PROVE  UNCHANGED <<mp_suspend_thread, suspend_thread_count>>
  BY <1>5 DEF PushSteps, PopSteps, PushNoBlock, AllocNoWait, AllocGivesUp, PushWaits,
              AllocRetries, PushGetsBlock, AllocTake, PushCopies, PushPosts, PushFindsFull,
              PopEmpty, PopTakes, PopCopies
<1>6. ASSUME NEW t \in Senders, NEW x \in Messages, NEW time \in Timeouts, StartPush(t, x, time)
      PROVE  UNCHANGED <<mp_suspend_thread, suspend_thread_count>>
  BY <1>6 DEF StartPush
<1>7. ASSUME NEW t \in Receivers, NEW time \in Timeouts, StartPop(t, time)
      PROVE  UNCHANGED <<mp_suspend_thread, suspend_thread_count>>
  BY <1>7 DEF StartPop
<1>8. CASE UNCHANGED vars
  BY <1>1, <1>8 DEF vars
<1> QED
  BY <1>1, <1>2, <1>3, <1>4, <1>5, <1>6, <1>7, <1>8 DEF Next

(* suspend_thread_count never falls below the number of threads on the     *)
(* list, so rt_mp_free never takes the path that wakes nobody while a      *)
(* thread sleeps in rt_mp_alloc.                                           *)
THEOREM PendedNeverMissed == Spec => []PendedCounted
<1>1. Init => PendedCounted
  BY DEF Init, MpInit, PendedCounted
<1> QED
  BY <1>1, PendedStep, Invariance, PTL DEF Spec

-------------------------------------------------------------------------------
(***************************************************************************)
(* The three wait lists of the queue.  The lemmas of MailboxProofs say     *)
(* what the mailbox's operations do to its two lists; the pool's list is   *)
(* last in, first out.                                                     *)
(***************************************************************************)
QueueOnLists ==
  /\ MbOnLists
  /\ mp_suspend_thread \in Seq(Threads) /\ OnList(mp_suspend_thread, "alloc_wait")

(* A sleeping thread is in one of the three waits and has no error yet.    *)
Settled ==
  /\ \A t \in Threads : stat[t] = "SUSPEND" => pc[t] \in {"alloc_wait", "recv_wait", "send_wait"}
  /\ SleepsWithoutError

LEMMA QueueTypes ==
  ASSUME Inv
  PROVE  /\ ThreadTypes /\ MbTypeOK /\ Size \in Nat /\ entry \in 0..Size
         /\ mp_suspend_thread \in Seq(Threads)
         /\ mb_suspend_thread \in Seq(Threads) /\ mb_suspend_sender \in Seq(Threads)
         /\ block_free_count \in Nat /\ suspend_thread_count \in Nat
         /\ Blocks = Mail /\ NoMail \notin Blocks /\ NoMessage \notin Messages
         /\ Senders \subseteq Threads /\ Receivers \subseteq Threads
BY SizeAssumption, BlocksAssumption, NoMailAssumption, RoleAssumption
   DEF Inv, TypeOK, ThreadTypeOK, MbTypeOK, MpTypeOK, ThreadTypes

(* The steps that wake nobody and put nobody to sleep.                     *)
QueueQuiet(t) ==
  \/ \E x \in Messages, time \in Timeouts : t \in Senders /\ StartPush(t, x, time)
  \/ \E time \in Timeouts : t \in Receivers /\ StartPop(t, time)
  \/ PushNoBlock(t) \/ (PushWaits(t) /\ AllocRetries(t)) \/ PushGetsBlock(t) \/ PushCopies(t)
  \/ PushFindsFull(t) /\ (SendFullNoWait(t, "push_free") \/ SendWoken(t, "push_free"))
  \/ PopEmpty(t) /\ (RecvEmptyNoWait(t, "idle") \/ RecvWoken(t, "idle"))
  \/ PopCopies(t)

LEMMA QueueStepKinds ==
  ASSUME [Next]_vars
  PROVE  \/ \E t \in Threads :
              \/ QueueQuiet(t)
              \/ PushWaits(t) /\ AllocSuspend(t)
              \/ PushFindsFull(t) /\ SendFullSuspend(t)
              \/ PopEmpty(t) /\ RecvEmptySuspend(t)
              \/ PushPosts(t) \/ PopTakes(t)
              \/ PushFrees(t) \/ PopFrees(t)
              \/ WaitExpires(t)
         \/ UNCHANGED vars
<1>1. \A t \in Threads : PushWaits(t) => AllocSuspend(t) \/ AllocRetries(t)
  BY DEF PushWaits
<1>2. \A t \in Threads : PushFindsFull(t) =>
        SendFullNoWait(t, "push_free") \/ SendFullSuspend(t) \/ SendWoken(t, "push_free")
  BY DEF PushFindsFull
<1>3. \A t \in Threads : PopEmpty(t) =>
        RecvEmptyNoWait(t, "idle") \/ RecvEmptySuspend(t) \/ RecvWoken(t, "idle")
  BY DEF PopEmpty
<1> QED
  BY <1>1, <1>2, <1>3, RoleAssumption DEF Next, PushSteps, PopSteps, QueueQuiet

LEMMA QueueQuietMeans ==
  ASSUME Inv, NEW t \in Threads, QueueQuiet(t)
  PROVE  /\ stat[t] = "READY"
         /\ UNCHANGED <<stat, mb_suspend_thread, mb_suspend_sender, mp_suspend_thread>>
         /\ \E next : pc' = [pc EXCEPT ![t] = next]
         /\ error' = [error EXCEPT ![t] = error'[t]]
<1> USE DEF At, Goto, EnterCall, LeaveCall, mbVars, mpVars
<1>0. error' = error => error' = [error EXCEPT ![t] = error'[t]]
  BY QueueTypes DEF ThreadTypes
<1>1. error' = [error EXCEPT ![t] = "EOK"] => error' = [error EXCEPT ![t] = error'[t]]
  BY QueueTypes DEF ThreadTypes
<1>2. ASSUME NEW x \in Messages, NEW time \in Timeouts, StartPush(t, x, time)
      PROVE  /\ stat[t] = "READY" /\ UNCHANGED <<stat, mbVars, mp_suspend_thread, error>>
             /\ pc' = [pc EXCEPT ![t] = "alloc"]
  BY <1>2 DEF StartPush
<1>3. ASSUME NEW time \in Timeouts, StartPop(t, time)
      PROVE  /\ stat[t] = "READY" /\ UNCHANGED <<stat, mbVars, mp_suspend_thread, error>>
             /\ pc' = [pc EXCEPT ![t] = "recv"]
  BY <1>3 DEF StartPop
<1>4. ASSUME PushGetsBlock(t) \/ PushCopies(t) \/ PopCopies(t)
      PROVE  /\ stat[t] = "READY" /\ UNCHANGED <<stat, mbVars, mp_suspend_thread, error>>
             /\ \E next : pc' = [pc EXCEPT ![t] = next]
  BY <1>4 DEF PushGetsBlock, AllocTake, PushCopies, PopCopies
<1>5. ASSUME AllocNoWait(t, "idle") \/ SendFullNoWait(t, "push_free") \/ RecvEmptyNoWait(t, "idle")
      PROVE  /\ stat[t] = "READY" /\ UNCHANGED <<stat, error>>
             /\ \E next : pc' = [pc EXCEPT ![t] = next]
  BY <1>5 DEF AllocNoWait, SendFullNoWait, RecvEmptyNoWait
<1>6. ASSUME NEW wait, NEW next, WokenGivesUp(t, wait, next)
      PROVE  /\ stat[t] = "READY" /\ UNCHANGED stat
             /\ error' = [error EXCEPT ![t] = "EOK"]
             /\ pc' = [pc EXCEPT ![t] = next]
  BY <1>6 DEF WokenGivesUp
<1>7. ASSUME NEW wait, NEW next, WokenRetries(t, wait, next)
      PROVE  /\ stat[t] = "READY" /\ UNCHANGED <<stat, error>>
             /\ pc' = [pc EXCEPT ![t] = next]
  BY <1>7 DEF WokenRetries
<1>8. CASE PushNoBlock(t)
  <2>1. UNCHANGED <<mbVars, mp_suspend_thread>>
    BY <1>8 DEF PushNoBlock, AllocNoWait, AllocGivesUp
  <2> QED
    BY <1>0, <1>1, <1>5, <1>6, <1>8, <2>1 DEF PushNoBlock, AllocGivesUp
<1>9. CASE PushWaits(t) /\ AllocRetries(t)
  <2>1. UNCHANGED <<mbVars, mp_suspend_thread>>
    BY <1>9 DEF PushWaits, AllocRetries
  <2> QED
    BY <1>0, <1>7, <1>9, <2>1 DEF AllocRetries
<1>10. CASE PushFindsFull(t) /\ (SendFullNoWait(t, "push_free") \/ SendWoken(t, "push_free"))
  <2>1. UNCHANGED <<mbVars, mp_suspend_thread>>
    BY <1>10 DEF PushFindsFull, SendFullNoWait, SendWoken
  <2> QED
    BY <1>0, <1>1, <1>5, <1>6, <1>7, <1>10, <2>1 DEF SendWoken
<1>11. CASE PopEmpty(t) /\ (RecvEmptyNoWait(t, "idle") \/ RecvWoken(t, "idle"))
  <2>1. UNCHANGED <<mbVars, mp_suspend_thread>>
    BY <1>11 DEF PopEmpty, RecvEmptyNoWait, RecvWoken
  <2> QED
    BY <1>0, <1>1, <1>5, <1>6, <1>7, <1>11, <2>1 DEF RecvWoken
<1>12. CASE \/ \E x \in Messages, time \in Timeouts : StartPush(t, x, time)
            \/ \E time \in Timeouts : StartPop(t, time)
  BY <1>0, <1>2, <1>3, <1>12
<1>13. CASE PushGetsBlock(t) \/ PushCopies(t) \/ PopCopies(t)
  BY <1>0, <1>4, <1>13
<1> QED
  BY <1>8, <1>9, <1>10, <1>11, <1>12, <1>13 DEF QueueQuiet

(* What rt_mp_free does to the threads that wait for a block.              *)
LEMMA FreeMeans ==
  ASSUME Inv, NEW t \in Threads, PushFrees(t) \/ PopFrees(t)
  PROVE  /\ stat[t] = "READY" /\ pc' = [pc EXCEPT ![t] = "idle"] /\ UNCHANGED error
         /\ block_free_count' = block_free_count + 1
         /\ UNCHANGED <<mb_suspend_thread, mb_suspend_sender>>
         /\ \/ suspend_thread_count = 0 /\ UNCHANGED <<stat, mp_suspend_thread>>
            \/ mp_suspend_thread = << >> /\ UNCHANGED <<stat, mp_suspend_thread>>
            \/ /\ mp_suspend_thread # << >>
               /\ ResumeFirst(mp_suspend_thread)
               /\ mp_suspend_thread' = Rest(mp_suspend_thread)
<1>1. stat[t] = "READY" /\ Free(t, mail[t], "idle") /\ UNCHANGED mbVars
  BY DEF PushFrees, PopFrees, At
<1>2. pc' = [pc EXCEPT ![t] = "idle"] /\ UNCHANGED error /\ block_free_count' = block_free_count + 1
  BY <1>1 DEF Free, FreeNoWaiter, FreeWakesFirst, FreeWild, Release, Goto
<1>3. CASE FreeNoWaiter(t, mail[t], "idle")
  BY <1>1, <1>2, <1>3 DEF FreeNoWaiter, mbVars
<1>4. CASE FreeWakesFirst(t, mail[t], "idle")
  BY <1>1, <1>2, <1>4 DEF FreeWakesFirst, ResumeFirst, Rest, mbVars
<1>5. CASE FreeWild(t, mail[t], "idle")
  BY <1>1, <1>2, <1>5 DEF FreeWild, mbVars
<1> QED
  BY <1>1, <1>3, <1>4, <1>5 DEF Free

LEMMA QueueListsStep ==
  ASSUME Inv, QueueOnLists, Settled, [Next]_vars
  PROVE  QueueOnLists' /\ Settled'
<1>0. /\ ThreadTypes /\ MbOnLists
      /\ mp_suspend_thread \in Seq(Threads) /\ OnList(mp_suspend_thread, "alloc_wait")
  BY QueueTypes DEF QueueOnLists
<1>00. \A u \in Threads : stat[u] = "SUSPEND" =>
         pc[u] \in {"alloc_wait", "recv_wait", "send_wait"} /\ error[u] = "EOK"
  BY DEF Settled, SleepsWithoutError
<1>01. ASSUME mp_suspend_thread' \in Seq(Threads), IsInjective(mp_suspend_thread'),
              Range(mp_suspend_thread') = Asleep("alloc_wait")', MbOnLists'
       PROVE  QueueOnLists'
  BY <1>01 DEF QueueOnLists, OnList, Asleep, ToSet, Range, IsInjective
<1>02. ASSUME Asleep("alloc_wait")' = Asleep("alloc_wait"), UNCHANGED mp_suspend_thread
       PROVE  /\ mp_suspend_thread' \in Seq(Threads) /\ IsInjective(mp_suspend_thread')
              /\ Range(mp_suspend_thread') = Asleep("alloc_wait")'
  BY <1>0, <1>02, ExactKept
(* The sleeping threads were sleeping before, or are put to sleep now.     *)
<1>03. ASSUME \A u \in Threads : stat'[u] = "SUSPEND" =>
                \/ stat[u] = "SUSPEND" /\ pc'[u] = pc[u] /\ error'[u] = error[u]
                \/ pc'[u] \in {"alloc_wait", "recv_wait", "send_wait"} /\ error'[u] = "EOK"
       PROVE  Settled'
  BY <1>00, <1>03 DEF Settled, SleepsWithoutError
<1>1. ASSUME NEW t \in Threads, QueueQuiet(t)
      PROVE  QueueOnLists' /\ Settled'
  <2>1. PICK next : /\ pc' = [pc EXCEPT ![t] = next] /\ stat[t] = "READY"
                    /\ UNCHANGED <<stat, mb_suspend_thread, mb_suspend_sender, mp_suspend_thread>>
                    /\ error' = [error EXCEPT ![t] = error'[t]]
    BY <1>1, QueueQuietMeans
  <2>2. MbOnLists'
    BY <1>0, <2>1, RunningKeepsLists
  <2>3. Asleep("alloc_wait")' = Asleep("alloc_wait")
    BY <1>0, <2>1, RunningKeepsAsleep
  <2>4. Settled'
    BY <1>0, <1>03, <2>1 DEF ThreadTypes
  <2> QED
    BY <1>01, <1>02, <2>1, <2>2, <2>3, <2>4
<1>2. ASSUME NEW t \in Threads, PushWaits(t), AllocSuspend(t)
      PROVE  QueueOnLists' /\ Settled'
  <2>1. /\ stat[t] = "READY"
        /\ stat' = [stat EXCEPT ![t] = "SUSPEND"] /\ pc' = [pc EXCEPT ![t] = "alloc_wait"]
        /\ error' = [error EXCEPT ![t] = "EOK"]
        /\ mp_suspend_thread' = <<t>> \o mp_suspend_thread
        /\ UNCHANGED <<mb_suspend_thread, mb_suspend_sender>>
    BY <1>2 DEF PushWaits, AllocSuspend, Suspend, At, Goto, mbVars
  <2>2. \A label : Asleep(label)' = IF label = "alloc_wait" THEN Asleep(label) \cup {t} ELSE Asleep(label)
    BY <1>0, <2>1, SuspendedIsAsleep
  <2>3. /\ mp_suspend_thread' \in Seq(Threads) /\ IsInjective(mp_suspend_thread')
        /\ Range(mp_suspend_thread') = Asleep("alloc_wait")'
    BY <1>0, <2>1, <2>2, ExactCons
  <2>4. MbOnLists'
    BY <1>0, <2>1, <2>2, ExactKept, MbOnListsNext DEF MbOnLists
  <2>5. Settled'
    BY <1>0, <1>03, <2>1 DEF ThreadTypes
  <2> QED
    BY <1>01, <2>3, <2>4, <2>5
<1>3. ASSUME NEW t \in Threads,
             (PushFindsFull(t) /\ SendFullSuspend(t)) \/ (PopEmpty(t) /\ RecvEmptySuspend(t))
      PROVE  QueueOnLists' /\ Settled'
  <2>1. MbOnLists' /\ Asleep("alloc_wait")' = Asleep("alloc_wait")
    BY <1>0, <1>3, MbSuspendLists
  <2>2. UNCHANGED mp_suspend_thread
    BY <1>3 DEF PushFindsFull, PopEmpty, mpVars
  <2>3. \E next \in {"recv_wait", "send_wait"} :
          /\ stat' = [stat EXCEPT ![t] = "SUSPEND"] /\ pc' = [pc EXCEPT ![t] = next]
          /\ error' = [error EXCEPT ![t] = "EOK"]
    BY <1>3 DEF SendFullSuspend, RecvEmptySuspend, Suspend, Goto
  <2>4. Settled'
    BY <1>0, <1>03, <2>3 DEF ThreadTypes
  <2> QED
    BY <1>01, <1>02, <2>1, <2>2, <2>4
<1>4. ASSUME NEW t \in Threads, PushPosts(t) \/ PopTakes(t)
      PROVE  QueueOnLists' /\ Settled'
  <2>1. SendPut(t, "idle") \/ RecvTake(t, "copy")
    BY <1>4 DEF PushPosts, PopTakes
  <2>2. MbOnLists' /\ Asleep("alloc_wait")' = Asleep("alloc_wait")
    BY <1>0, <2>1, MbWakeLists
  <2>3. UNCHANGED mp_suspend_thread
    BY <1>4 DEF PushPosts, PopTakes, mpVars
  <2>4. PICK list \in Seq(Threads) : ResumeFirst(list)
    BY <1>0, <2>1 DEF SendPut, RecvTake, MbOnLists
  <2>5. \A u \in Threads : stat'[u] = "SUSPEND" => stat[u] = "SUSPEND"
    BY <1>0, <2>4 DEF ThreadTypes, ResumeFirst, Resume
  <2>6. /\ stat[t] = "READY" /\ UNCHANGED error
        /\ \E next \in {"idle", "copy"} : pc' = [pc EXCEPT ![t] = next]
    BY <2>1 DEF SendPut, RecvTake, At, LeaveCall, EnterCall, Goto
  <2>7. Settled'
    BY <1>0, <1>03, <2>5, <2>6 DEF ThreadTypes
  <2> QED
    BY <1>01, <1>02, <2>2, <2>3, <2>7
<1>5. ASSUME NEW t \in Threads, PushFrees(t) \/ PopFrees(t)
      PROVE  QueueOnLists' /\ Settled'
  <2>1. /\ stat[t] = "READY" /\ pc' = [pc EXCEPT ![t] = "idle"] /\ UNCHANGED error
        /\ UNCHANGED <<mb_suspend_thread, mb_suspend_sender>>
    BY <1>5, FreeMeans
  <2>2. CASE UNCHANGED <<stat, mp_suspend_thread>>
    <3>1. MbOnLists'
      BY <1>0, <2>1, <2>2, RunningKeepsLists
    <3>2. Asleep("alloc_wait")' = Asleep("alloc_wait")
      BY <1>0, <2>1, <2>2, RunningKeepsAsleep
    <3>3. Settled'
      BY <1>0, <1>03, <2>1, <2>2 DEF ThreadTypes
    <3> QED
      BY <1>01, <1>02, <2>2, <3>1, <3>2, <3>3
  <2>3. CASE /\ ResumeFirst(mp_suspend_thread)
             /\ mp_suspend_thread' = Rest(mp_suspend_thread)
    <3>1. \A label : Asleep(label)' =
            IF label = "alloc_wait" /\ mp_suspend_thread # << >>
            THEN Asleep(label) \ {Head(mp_suspend_thread)} ELSE Asleep(label)
      BY <1>0, <2>1, <2>3, ResumedIsAwake
    <3>2. /\ mp_suspend_thread' \in Seq(Threads) /\ IsInjective(mp_suspend_thread')
          /\ Range(mp_suspend_thread') = Asleep("alloc_wait")'
      BY <1>0, <2>3, <3>1, ExactRest
    <3>3. MbOnLists'
      BY <1>0, <2>1, <3>1, ExactKept, MbOnListsNext DEF MbOnLists
    <3>4. \A u \in Threads : stat'[u] = "SUSPEND" => stat[u] = "SUSPEND"
      BY <1>0, <2>3 DEF ThreadTypes, ResumeFirst, Resume
    <3>5. Settled'
      BY <1>0, <1>03, <2>1, <3>4 DEF ThreadTypes
    <3> QED
      BY <1>01, <3>2, <3>3, <3>5
  <2> QED
    BY <1>5, <2>2, <2>3, FreeMeans
<1>6. ASSUME NEW t \in Threads, WaitExpires(t)
      PROVE  QueueOnLists' /\ Settled'
  <2>1. TimedOut(t) /\ MbLeaveLists(t) /\ mp_suspend_thread' = Without(mp_suspend_thread, t)
    BY <1>6 DEF WaitExpires, MpLeaveList
  <2>2. MbOnLists'
    BY <1>0, <2>1, MbTimeoutLists
  <2>3. Asleep("alloc_wait")' = Asleep("alloc_wait") \ {t}
    BY <1>0, <2>1, TimedOutIsAwake
  <2>4. /\ mp_suspend_thread' \in Seq(Threads) /\ IsInjective(mp_suspend_thread')
        /\ Range(mp_suspend_thread') = Asleep("alloc_wait")'
    BY <1>0, <2>1, <2>3, ExactWithout
  <2>5. Settled'
    BY <1>0, <1>03, <2>1 DEF ThreadTypes, TimedOut
  <2> QED
    BY <1>01, <2>2, <2>4, <2>5
<1>7. CASE UNCHANGED vars
  BY <1>7 DEF vars, threadVars, mbVars, mpVars, QueueOnLists, MbOnLists, OnList, IsInjective,
              ToSet, Settled, SleepsWithoutError
<1> QED
  BY <1>1, <1>2, <1>3, <1>4, <1>5, <1>6, <1>7, QueueStepKinds

LEMMA QueueLists == Spec => [](Inv /\ QueueOnLists /\ Settled)
<1>1. Init => QueueOnLists /\ Settled
  <2> SUFFICES ASSUME Init PROVE QueueOnLists /\ Settled
    OBVIOUS
  <2> USE DEF Init, ThreadInit, MbInit, MpInit
  <2>1. \A label : OnList(<< >>, label)
    BY DEF OnList, IsInjective, ToSet
  <2> QED
    BY <2>1 DEF QueueOnLists, MbOnLists, Settled, SleepsWithoutError
<1>2. Inv /\ QueueOnLists /\ Settled /\ [Next]_vars => QueueOnLists' /\ Settled'
  BY QueueListsStep
<1> QED
  BY <1>1, <1>2, Invariance, PTL DEF Spec

(* Whatever the order of posts, frees, timeouts and errors, a thread of    *)
(* rtos_push_to_queue or rtos_pop_from_queue is suspended exactly when it  *)
(* is, once, on the list of the kernel call it is in.                      *)
THEOREM ListsCorrect == Spec => []ListsExact
<1>1. QueueOnLists /\ Settled => ListsExact
  BY DEF QueueOnLists, MbOnLists, Settled, ListsExact
<1> QED
  BY <1>1, QueueLists, PTL

-------------------------------------------------------------------------------
(***************************************************************************)
(* No wake-up is lost, in the pool and in the mailbox of the queue.  Each  *)
(* step changes one of the two objects at most, and the thread that takes  *)
(* it looks at neither or at the one it changes.                           *)
(***************************************************************************)
LookingToAlloc == Looking("alloc", "alloc_wait")

LEMMA QueueDisturbsNobody ==
  ASSUME Inv, QueueOnLists, NEW t \in Threads,
         QueueQuiet(t) \/ AllocSuspend(t) \/ SendFullSuspend(t) \/ RecvEmptySuspend(t)
           \/ PushPosts(t) \/ PopTakes(t) \/ PushFrees(t) \/ PopFrees(t) \/ WaitExpires(t)
  PROVE  OthersUndisturbed(t)
<1>0. /\ ThreadTypes /\ mp_suspend_thread \in Seq(Threads)
      /\ mb_suspend_thread \in Seq(Threads) /\ mb_suspend_sender \in Seq(Threads)
  BY QueueTypes
<1>1. CASE QueueQuiet(t)
  <2>1. PICK next : /\ pc' = [pc EXCEPT ![t] = next] /\ UNCHANGED stat
                    /\ error' = [error EXCEPT ![t] = error'[t]]
    BY <1>1, QueueQuietMeans
  <2> QED
    BY <1>0, <2>1 DEF OthersUndisturbed, ThreadTypes
<1>2. CASE AllocSuspend(t) \/ SendFullSuspend(t) \/ RecvEmptySuspend(t)
  <2>1. \E next : Suspend(t, next)
    BY <1>2 DEF AllocSuspend, SendFullSuspend, RecvEmptySuspend
  <2> QED
    BY <1>0, <2>1 DEF OthersUndisturbed, ThreadTypes, Suspend, Goto
<1>3. CASE PushPosts(t) \/ PopTakes(t)
  <2>1. /\ UNCHANGED error /\ \E next : pc' = [pc EXCEPT ![t] = next]
        /\ ResumeFirst(mb_suspend_thread) \/ ResumeFirst(mb_suspend_sender)
    BY <1>3 DEF PushPosts, PopTakes, SendPut, RecvTake, LeaveCall, EnterCall, Goto
  <2> QED
    BY <1>0, <2>1, ResumeDisturbsNobody
<1>4. CASE PushFrees(t) \/ PopFrees(t)
  <2>1. /\ pc' = [pc EXCEPT ![t] = "idle"] /\ UNCHANGED error
        /\ UNCHANGED stat \/ ResumeFirst(mp_suspend_thread)
    BY <1>4, FreeMeans
  <2>2. CASE UNCHANGED stat
    BY <1>0, <2>1, <2>2 DEF OthersUndisturbed, ThreadTypes
  <2> QED
    BY <1>0, <2>1, <2>2, ResumeDisturbsNobody
<1>5. CASE WaitExpires(t)
  BY <1>0, <1>5 DEF WaitExpires, TimedOut, OthersUndisturbed, ThreadTypes
<1> QED
  BY <1>1, <1>2, <1>3, <1>4, <1>5

(* The pool.  A free gives one block and resumes one thread, if there is   *)
(* one: PendedCounted is why its counter is not zero then.                 *)
LEMMA AllocWakeupsStep ==
  ASSUME IsFiniteSet(Threads), Inv, QueueOnLists, Settled, PendedCounted,
         AllocNoLostWakeup, [Next]_vars
  PROVE  AllocNoLostWakeup'
<1> USE DEF At, Goto, EnterCall, LeaveCall
<1>0. /\ ThreadTypes /\ SleepsWithoutError /\ block_free_count \in Nat
      /\ mp_suspend_thread \in Seq(Threads) /\ IsInjective(mp_suspend_thread)
      /\ Range(mp_suspend_thread) = Asleep("alloc_wait")
  BY QueueTypes, OnListMeans DEF QueueOnLists, Settled
<1>00. /\ IsFiniteSet(LookingToAlloc) /\ IsFiniteSet(LookingToAlloc')
       /\ Cardinality(LookingToAlloc) \in Nat /\ Cardinality(LookingToAlloc') \in Nat
  BY LookingFinite DEF LookingToAlloc
<1>01. mp_suspend_thread # << >> => block_free_count <= Cardinality(LookingToAlloc)
  BY DEF AllocNoLostWakeup, LookingToAlloc
<1> SUFFICES mp_suspend_thread' # << >> => block_free_count' <= Cardinality(LookingToAlloc')
  BY DEF AllocNoLostWakeup, LookingToAlloc
<1> DEFINE Goal == mp_suspend_thread' # << >> => block_free_count' <= Cardinality(LookingToAlloc')
<1>1. ASSUME LookingToAlloc \subseteq LookingToAlloc', block_free_count' = block_free_count,
             mp_suspend_thread' # << >> => mp_suspend_thread # << >>
      PROVE  Goal
  BY <1>0, <1>00, <1>01, <1>1, CardKept
<1>2. ASSUME NEW t \in Threads, OthersUndisturbed(t)
      PROVE  LookingToAlloc \ {t} \subseteq LookingToAlloc'
  BY <1>2, OthersKeepLooking DEF LookingToAlloc
<1>3. ASSUME block_free_count = 0, UNCHANGED block_free_count
      PROVE  Goal
  BY <1>00, <1>3
<1>4. ASSUME NEW t \in Threads, QueueQuiet(t)
      PROVE  Goal
  <2>1. OthersUndisturbed(t) /\ mp_suspend_thread' = mp_suspend_thread
    BY <1>4, QueueDisturbsNobody, QueueQuietMeans
  <2>2. LookingToAlloc \ {t} \subseteq LookingToAlloc'
    BY <1>2, <2>1
  <2>3. ASSUME t \notin LookingToAlloc \/ t \in LookingToAlloc', UNCHANGED block_free_count
        PROVE  Goal
    BY <1>1, <2>1, <2>2, <2>3
  <2>4. CASE AllocNoWait(t, "idle")
    BY <1>3, <2>4 DEF AllocNoWait, mpVars, poolVars
  <2>5. CASE AllocGivesUp(t, "idle")
    BY <2>3, <2>5 DEF AllocGivesUp, WokenGivesUp, mpVars, poolVars, LookingToAlloc, Looking
  <2>6. CASE AllocRetries(t)
    <3>1. t \in LookingToAlloc' /\ UNCHANGED block_free_count
      BY <1>0, <2>6
         DEF AllocRetries, WokenRetries, mpVars, poolVars, LookingToAlloc, Looking, ThreadTypes
    <3> QED
      BY <2>3, <3>1
  <2>7. CASE PushGetsBlock(t)
    <3>1. block_free_count' = block_free_count - 1
      BY <2>7 DEF PushGetsBlock, AllocTake
    <3>2. Cardinality(LookingToAlloc) - 1 <= Cardinality(LookingToAlloc')
      BY <1>00, <2>2, CardLoses
    <3> QED
      BY <1>0, <1>00, <1>01, <2>1, <3>1, <3>2
  <2>8. ASSUME pc[t] \notin {"alloc", "alloc_wait"}, UNCHANGED block_free_count
        PROVE  Goal
    BY <2>3, <2>8 DEF LookingToAlloc, Looking
  <2>9. CASE \/ \E x \in Messages, time \in Timeouts : StartPush(t, x, time)
             \/ \E time \in Timeouts : StartPop(t, time)
             \/ PushCopies(t) \/ PopCopies(t)
    BY <2>8, <2>9 DEF StartPush, StartPop, PushCopies, PopCopies, mpVars, poolVars
  <2>10. CASE \/ PushFindsFull(t) /\ (SendFullNoWait(t, "push_free") \/ SendWoken(t, "push_free"))
              \/ PopEmpty(t) /\ (RecvEmptyNoWait(t, "idle") \/ RecvWoken(t, "idle"))
    <3>1. pc[t] \in {"send", "send_wait", "recv", "recv_wait"}
      BY <2>10 DEF SendFullNoWait, SendWoken, RecvEmptyNoWait, RecvWoken, WokenGivesUp, WokenRetries
    <3>2. UNCHANGED block_free_count
      BY <2>10 DEF PushFindsFull, PopEmpty, mpVars, poolVars
    <3> QED
      BY <2>8, <3>1, <3>2
  <2> HIDE DEF Goal
  <2> QED
    BY <1>4, <2>4, <2>5, <2>6, <2>7, <2>9, <2>10 DEF QueueQuiet, PushNoBlock
<1>5. ASSUME NEW t \in Threads, PushWaits(t), AllocSuspend(t)
      PROVE  Goal
  BY <1>3, <1>5 DEF AllocSuspend, poolVars
<1>6. ASSUME NEW t \in Threads,
             \/ PushFindsFull(t) /\ SendFullSuspend(t)
             \/ PopEmpty(t) /\ RecvEmptySuspend(t)
             \/ PushPosts(t) \/ PopTakes(t)
      PROVE  Goal
  <2>1. OthersUndisturbed(t)
    BY <1>6, QueueDisturbsNobody
  <2>2. t \notin LookingToAlloc
    BY <1>6 DEF LookingToAlloc, Looking, SendFullSuspend, RecvEmptySuspend, PushPosts, SendPut,
                PopTakes, RecvTake
  <2>3. UNCHANGED <<block_free_count, mp_suspend_thread>>
    BY <1>6 DEF PushFindsFull, PopEmpty, PushPosts, PopTakes, mpVars, poolVars
  <2> QED
    BY <1>1, <1>2, <2>1, <2>2, <2>3
<1>7. ASSUME NEW t \in Threads, PushFrees(t) \/ PopFrees(t)
      PROVE  Goal
  <2>1. OthersUndisturbed(t) /\ stat[t] = "READY"
    BY <1>7, QueueDisturbsNobody, FreeMeans
  <2>2. t \notin LookingToAlloc
    BY <1>7 DEF LookingToAlloc, Looking, PushFrees, PopFrees
  <2>3. LookingToAlloc \subseteq LookingToAlloc'
    BY <1>2, <2>1, <2>2
  <2>4. block_free_count' = block_free_count + 1
    BY <1>7, FreeMeans
  <2>5. CASE mp_suspend_thread = << >> /\ UNCHANGED mp_suspend_thread
    BY <2>5
  <2>6. CASE suspend_thread_count = 0 /\ UNCHANGED mp_suspend_thread
    <3>1. Len(mp_suspend_thread) = 0
      BY <1>0, <2>6 DEF PendedCounted
    <3>2. mp_suspend_thread = << >>
      BY <1>0, <3>1
    <3> QED
      BY <2>6, <3>2
  <2>7. CASE mp_suspend_thread # << >> /\ ResumeFirst(mp_suspend_thread)
    <3>1. /\ Head(mp_suspend_thread) \in LookingToAlloc'
          /\ Head(mp_suspend_thread) \notin LookingToAlloc
      BY <1>0, <2>1, <2>7, ResumedLooks DEF LookingToAlloc
    <3>2. Cardinality(LookingToAlloc) + 1 <= Cardinality(LookingToAlloc')
      BY <1>00, <2>3, <3>1, CardGains
    <3> QED
      BY <1>0, <1>00, <1>01, <2>4, <2>7, <3>2
  <2> HIDE DEF Goal
  <2> QED
    BY <1>7, <2>5, <2>6, <2>7, FreeMeans
<1>8. ASSUME NEW t \in Threads, WaitExpires(t)
      PROVE  Goal
  <2>1. OthersUndisturbed(t) /\ stat[t] = "SUSPEND"
    BY <1>8, QueueDisturbsNobody DEF WaitExpires, TimedOut
  <2>2. t \notin LookingToAlloc
    BY <2>1 DEF LookingToAlloc, Looking
  <2>3. mp_suspend_thread' = Without(mp_suspend_thread, t) /\ UNCHANGED block_free_count
    BY <1>8 DEF WaitExpires, MpLeaveList, poolVars
  <2>4. mp_suspend_thread = << >> => mp_suspend_thread' = << >>
    BY <1>0, <2>3, WithoutRange
  <2> QED
    BY <1>1, <1>2, <2>1, <2>2, <2>3, <2>4
<1>9. ASSUME UNCHANGED vars
      PROVE  Goal
  <2>1. LookingToAlloc' = LookingToAlloc
    BY <1>9 DEF LookingToAlloc, Looking, vars, threadVars
  <2>2. block_free_count' = block_free_count /\ mp_suspend_thread' = mp_suspend_thread
    BY <1>9 DEF vars, mpVars, poolVars
  <2> QED
    BY <1>1, <2>1, <2>2
<1> HIDE DEF Goal
<1>10. Goal
  BY <1>4, <1>5, <1>6, <1>7, <1>8, <1>9, QueueStepKinds
<1> QED
  BY <1>10 DEF Goal

(* While a push sleeps in rt_mp_alloc, every free block has a push on its  *)
(* way to take it, although suspend_thread_count is stale after a timeout. *)
THEOREM AllocWakeups ==
  ASSUME IsFiniteSet(Threads)
  PROVE  Spec => []AllocNoLostWakeup
<1>1. Init => AllocNoLostWakeup
  BY DEF Init, MpInit, AllocNoLostWakeup
<1>2. Inv /\ QueueOnLists /\ Settled /\ PendedCounted /\ AllocNoLostWakeup /\ [Next]_vars
        => AllocNoLostWakeup'
  BY AllocWakeupsStep
<1> QED
  BY <1>1, <1>2, QueueLists, PendedNeverMissed, PTL DEF Spec

(* The mailbox.                                                            *)
LEMMA QueueWakeupsStep ==
  ASSUME IsFiniteSet(Threads), Inv, QueueOnLists, Settled, NoLostWakeup, [Next]_vars
  PROVE  NoLostWakeup'
<1>0. WakeupsSetting /\ ThreadTypes /\ mp_suspend_thread \in Seq(Threads)
  BY QueueTypes DEF WakeupsSetting, QueueOnLists, Settled
<1>1. ASSUME NEW t \in Threads, OthersUndisturbed(t),
             pc[t] \notin {"recv", "recv_wait", "send", "send_wait"}, UNCHANGED mbVars
      PROVE  NoLostWakeup'
  BY <1>0, <1>1, ElsewhereKeepsWakeups DEF mbVars, ringVars
<1>2. ASSUME NEW t \in Threads, QueueQuiet(t)
      PROVE  NoLostWakeup'
  <2>1. OthersUndisturbed(t)
    BY <1>2, QueueDisturbsNobody
  <2>2. CASE \/ PushFindsFull(t) /\ (SendFullNoWait(t, "push_free") \/ SendWoken(t, "push_free"))
             \/ PopEmpty(t) /\ (RecvEmptyNoWait(t, "idle") \/ RecvWoken(t, "idle"))
    BY <1>0, <2>2, MbFailingWakeups
  <2>3. CASE \/ \E x \in Messages, time \in Timeouts : StartPush(t, x, time)
             \/ \E time \in Timeouts : StartPop(t, time)
             \/ PushNoBlock(t) \/ (PushWaits(t) /\ AllocRetries(t)) \/ PushGetsBlock(t)
             \/ PushCopies(t) \/ PopCopies(t)
    <3>1. UNCHANGED mbVars
      BY <2>3 DEF StartPush, StartPop, PushNoBlock, PushWaits, PushGetsBlock, PushCopies, PopCopies
    <3>2. pc[t] \in {"idle", "alloc", "alloc_wait", "fill", "copy"}
      BY <2>3 DEF StartPush, StartPop, PushNoBlock, AllocNoWait, AllocGivesUp, WokenGivesUp,
                  AllocRetries, WokenRetries, PushGetsBlock, AllocTake, PushCopies, PopCopies, At
    <3> QED
      BY <1>1, <2>1, <3>1, <3>2
  <2> QED
    BY <1>2, <2>2, <2>3 DEF QueueQuiet
<1>3. ASSUME NEW t \in Threads, PushWaits(t), AllocSuspend(t)
      PROVE  NoLostWakeup'
  BY <1>1, <1>3, QueueDisturbsNobody DEF PushWaits, AllocSuspend, At
<1>4. ASSUME NEW t \in Threads, PushFrees(t) \/ PopFrees(t)
      PROVE  NoLostWakeup'
  BY <1>1, <1>4, QueueDisturbsNobody DEF PushFrees, PopFrees, At
<1>5. ASSUME NEW t \in Threads, PushPosts(t) \/ PopTakes(t)
      PROVE  NoLostWakeup'
  BY <1>0, <1>5, MbRingWakeups DEF PushPosts, PopTakes
<1>6. ASSUME NEW t \in Threads, SendFullSuspend(t) \/ RecvEmptySuspend(t)
      PROVE  NoLostWakeup'
  BY <1>0, <1>6, MbRingWakeups
<1>7. ASSUME NEW t \in Threads, WaitExpires(t)
      PROVE  NoLostWakeup'
  BY <1>0, <1>7, MbTimeoutWakeups DEF WaitExpires
<1>8. CASE UNCHANGED vars
  <2>1. LookingToRecv' = LookingToRecv /\ LookingToSend' = LookingToSend
    BY <1>8 DEF LookingToRecv, LookingToSend, Looking, At, vars, threadVars
  <2> QED
    BY <1>0, <1>8, <2>1, LookersKept DEF vars, mbVars, ringVars
<1> QED
  BY <1>2, <1>3, <1>4, <1>5, <1>6, <1>7, <1>8, QueueStepKinds

(* In the mailbox of the queue as in the mailbox alone: while a reader     *)
(* sleeps in rtos_pop_from_queue, every posted message has a reader on its *)
(* way to take it.                                                         *)
THEOREM QueueWakeups ==
  ASSUME IsFiniteSet(Threads)
  PROVE  Spec => []NoLostWakeup
<1>1. Init => NoLostWakeup
  BY DEF Init, MbInit, NoLostWakeup
<1>2. Inv /\ QueueOnLists /\ Settled /\ NoLostWakeup /\ [Next]_vars => NoLostWakeup'
  BY QueueWakeupsStep
<1> QED
  BY <1>1, <1>2, QueueLists, PTL DEF Spec

-------------------------------------------------------------------------------
(***************************************************************************)
(* The queue implements the bounded queue.  Inv says where each block is;  *)
(* what is added is whose message is in it: a push has an argument from    *)
(* its start to its end, and from the copy to the post that argument is    *)
(* in the block it holds.  PushCopies then changes neither what waits in   *)
(* the ring nor what another thread is about to copy out.                  *)
(***************************************************************************)
ArgWhereUsed == \A t \in Threads : (arg[t] # NoMessage) <=> (pc[t] \in PushLabels)

Copied == \A t \in Threads : pc[t] \in {"send", "send_wait"} => data[mail[t]] = arg[t]

(* The abstract variables that are functions of the state. *)
Queued == [k \in 1..entry |-> data[Waiting[k]]]
Got == [t \in Threads |-> IF pc[t] = "copy" THEN data[mail[t]] ELSE out[t]]

LEMMA CopiesSetting ==
  ASSUME Inv
  PROVE  /\ pc \in [Threads -> {"idle"} \cup PushLabels \cup PopLabels]
         /\ data \in [Blocks -> Messages \cup {NoMessage}]
         /\ arg \in [Threads -> Messages \cup {NoMessage}]
         /\ out \in [Threads -> Messages \cup {NoMessage}]
         /\ mail \in [Threads -> Blocks \cup {NoMail}]
         /\ NoMessage \notin Messages /\ NoMail \notin Blocks
         /\ \A t \in Threads : (mail[t] \in Blocks) <=> (pc[t] \in HoldLabels)
         /\ Senders \subseteq Threads /\ Receivers \subseteq Threads
<1>1. /\ pc \in [Threads -> {"idle"} \cup PushLabels \cup PopLabels]
      /\ data \in [Blocks -> Messages \cup {NoMessage}]
      /\ arg \in [Threads -> Messages \cup {NoMessage}]
      /\ out \in [Threads -> Messages \cup {NoMessage}]
      /\ mail \in [Threads -> Blocks \cup {NoMail}]
  BY BlocksAssumption DEF Inv, TypeOK, MbTypeOK
<1> QED
  BY <1>1, BlocksAssumption, NoMailAssumption, RoleAssumption DEF Inv, HeldWhereUsed

(* The block a thread fills is not in the ring, nor in another's hands.    *)
LEMMA HeldApart ==
  ASSUME Inv, NEW t \in Threads, mail[t] \in Blocks
  PROVE  /\ mail[t] \notin RingBlocks
         /\ \A u \in Threads \ {t} : mail[u] # mail[t]
<1>1. mail[t] # NoMail
  BY BlocksAssumption, NoMailAssumption
<1> QED
  BY <1>1 DEF Inv, BlocksConserved, Holders

LEMMA WaitingInRing ==
  ASSUME Inv
  PROVE  /\ entry \in Nat /\ Waiting \in [1..entry -> Blocks]
         /\ \A k \in 1..entry : Waiting[k] \in RingBlocks
<1>1. MbTypeOK /\ entry \in Nat
  BY SizeAssumption DEF Inv, TypeOK, MbTypeOK
<1>2. Waiting \in [1..entry -> Blocks]
  BY <1>1, WaitingType DEF Inv, RingOfBlocks
<1>3. \A k \in 1..entry : k - 1 \in 0..(entry - 1)
  BY <1>1
<1> QED
  BY <1>1, <1>2, <1>3 DEF Waiting, RingBlocks

LEMMA WaitingBlocks == Inv => Waiting \in [1..entry -> Blocks]
BY WaitingInRing

LEMMA QueuedSame ==
  ASSUME Inv, UNCHANGED ringVars, \A b \in RingBlocks : data'[b] = data[b]
  PROVE  Queued' = Queued
<1>1. Waiting' = Waiting /\ entry' = entry
  BY WaitingSame DEF ringVars
<1> QED
  BY <1>1, WaitingInRing DEF Queued

(* A step of thread t that leaves t outside pop's copy, and copies nothing *)
(* into t's buffer.                                                        *)
LEMMA GotSame ==
  ASSUME Inv, NEW t \in Threads, pc[t] # "copy", pc'[t] # "copy", UNCHANGED <<data, out>>,
         \A u \in Threads \ {t} : pc'[u] = pc[u] /\ mail'[u] = mail[u]
  PROVE  Got' = Got
BY DEF Got

(* The steps of t that move no message: no copy, no post, no reception, no *)
(* new request.                                                            *)
QueueMoves(t) ==
  \/ PushWaits(t) \/ PushGetsBlock(t) \/ PushFindsFull(t) \/ PopEmpty(t) \/ PopFrees(t)

LEMMA QueueMovesMeans ==
  ASSUME Inv, NEW t \in Threads, QueueMoves(t)
  PROVE  /\ UNCHANGED <<ringVars, bufVars>>
         /\ pc[t] # "copy" /\ pc'[t] # "copy"
         /\ (pc'[t] \in PushLabels) <=> (pc[t] \in PushLabels)
         /\ pc'[t] \in {"send", "send_wait"} => pc[t] \in {"send", "send_wait"} /\ mail'[t] = mail[t]
         /\ \A u \in Threads \ {t} : pc'[u] = pc[u] /\ mail'[u] = mail[u]
<1> USE DEF At, Goto, EnterCall, LeaveCall, PushLabels
<1>0. /\ pc \in [Threads -> {"idle"} \cup PushLabels \cup PopLabels]
      /\ mail \in [Threads -> Blocks \cup {NoMail}]
  BY CopiesSetting
<1>1. CASE PushWaits(t)
  <2>1. /\ UNCHANGED <<ringVars, bufVars, mail>> /\ pc[t] \in {"alloc", "alloc_wait"}
        /\ \E next \in {"alloc", "alloc_wait"} : pc' = [pc EXCEPT ![t] = next]
    BY <1>1 DEF PushWaits, AllocSuspend, Suspend, AllocRetries, WokenRetries, mbVars
  <2> QED
    BY <1>0, <2>1
<1>2. CASE PushGetsBlock(t)
  <2>1. /\ UNCHANGED <<ringVars, bufVars>> /\ pc[t] = "alloc" /\ pc' = [pc EXCEPT ![t] = "fill"]
        /\ mail' = [mail EXCEPT ![t] = Head(block_list)]
    BY <1>2 DEF PushGetsBlock, AllocTake, mbVars
  <2> QED
    BY <1>0, <2>1
<1>3. CASE PushFindsFull(t)
  <2>1. /\ UNCHANGED <<ringVars, bufVars, mail>> /\ pc[t] \in {"send", "send_wait"}
        /\ \E next \in {"send", "send_wait", "push_free"} : pc' = [pc EXCEPT ![t] = next]
    BY <1>3 DEF PushFindsFull, SendFullNoWait, SendFullSuspend, Suspend, SendWoken, WokenGivesUp,
                WokenRetries, mbVars
  <2> QED
    BY <1>0, <2>1
<1>4. CASE PopEmpty(t)
  <2>1. /\ UNCHANGED <<ringVars, bufVars, mail>> /\ pc[t] \in {"recv", "recv_wait"}
        /\ \E next \in {"recv", "recv_wait", "idle"} : pc' = [pc EXCEPT ![t] = next]
    BY <1>4 DEF PopEmpty, RecvEmptyNoWait, RecvEmptySuspend, Suspend, RecvWoken, WokenGivesUp,
                WokenRetries, mbVars
  <2> QED
    BY <1>0, <2>1
<1>5. CASE PopFrees(t)
  <2>1. /\ UNCHANGED <<ringVars, bufVars>> /\ pc[t] = "pop_free"
        /\ mail' = [mail EXCEPT ![t] = NoMail]
    BY <1>5 DEF PopFrees, mbVars
  <2>2. pc' = [pc EXCEPT ![t] = "idle"]
    BY <1>5, FreeMeans
  <2> QED
    BY <1>0, <2>1, <2>2
<1> QED
  BY <1>1, <1>2, <1>3, <1>4, <1>5 DEF QueueMoves

(* A push that ends: it failed, or its block is posted.                    *)
LEMMA PushEndsMeans ==
  ASSUME Inv, NEW t \in Threads, PushNoBlock(t) \/ PushPosts(t) \/ PushFrees(t)
  PROVE  /\ pc[t] \in PushLabels /\ pc' = [pc EXCEPT ![t] = "idle"]
         /\ arg' = [arg EXCEPT ![t] = NoMessage] /\ UNCHANGED <<data, out>>
         /\ \A u \in Threads \ {t} : mail'[u] = mail[u]
         /\ ~ PushPosts(t) => UNCHANGED ringVars
<1> USE DEF At, Goto, EnterCall, LeaveCall, PushLabels
<1>0. mail \in [Threads -> Blocks \cup {NoMail}]
  BY CopiesSetting
<1>1. arg' = [arg EXCEPT ![t] = NoMessage] /\ UNCHANGED <<data, out>>
  BY DEF PushNoBlock, PushPosts, PushFrees, PushReturns
<1>2. CASE PushNoBlock(t)
  BY <1>0, <1>1, <1>2 DEF PushNoBlock, AllocNoWait, AllocGivesUp, WokenGivesUp, mbVars
<1>3. CASE PushPosts(t)
  BY <1>0, <1>1, <1>3 DEF PushPosts, SendPut
<1>4. CASE PushFrees(t)
  <2>1. pc' = [pc EXCEPT ![t] = "idle"]
    BY <1>4, FreeMeans
  <2> QED
    BY <1>0, <1>1, <1>4, <2>1 DEF PushFrees, mbVars
<1> QED
  BY <1>2, <1>3, <1>4

LEMMA CopiesStep ==
  ASSUME Inv, ArgWhereUsed, Copied, [Next]_vars
  PROVE  ArgWhereUsed' /\ Copied'
<1> USE DEF At, Goto, EnterCall, LeaveCall
<1>0. /\ pc \in [Threads -> {"idle"} \cup PushLabels \cup PopLabels]
      /\ data \in [Blocks -> Messages \cup {NoMessage}]
      /\ arg \in [Threads -> Messages \cup {NoMessage}]
      /\ mail \in [Threads -> Blocks \cup {NoMail}]
      /\ NoMessage \notin Messages
      /\ \A t \in Threads : (mail[t] \in Blocks) <=> (pc[t] \in HoldLabels)
      /\ Senders \subseteq Threads /\ Receivers \subseteq Threads
  BY CopiesSetting
(* It is enough that the others are left alone and t is as it should be.   *)
<1>1. ASSUME NEW t \in Threads,
             \A u \in Threads \ {t} : pc'[u] = pc[u] /\ arg'[u] = arg[u],
             (arg'[t] # NoMessage) <=> (pc'[t] \in PushLabels),
             \A u \in Threads \ {t} : pc[u] \in {"send", "send_wait"} => data'[mail'[u]] = data[mail[u]],
             pc'[t] \in {"send", "send_wait"} => data'[mail'[t]] = arg'[t]
      PROVE  ArgWhereUsed' /\ Copied'
  BY <1>1 DEF ArgWhereUsed, Copied
<1>2. ASSUME NEW t \in Senders, NEW x \in Messages, NEW time \in Timeouts, StartPush(t, x, time)
      PROVE  ArgWhereUsed' /\ Copied'
  <2>1. /\ pc' = [pc EXCEPT ![t] = "alloc"] /\ arg' = [arg EXCEPT ![t] = x] /\ UNCHANGED <<mail, data>>
    BY <1>2 DEF StartPush
  <2> QED
    BY <1>0, <1>1, <2>1 DEF PushLabels
<1>3. ASSUME NEW t \in Receivers, NEW time \in Timeouts, StartPop(t, time)
      PROVE  ArgWhereUsed' /\ Copied'
  <2>1. /\ pc[t] = "idle" /\ pc' = [pc EXCEPT ![t] = "recv"] /\ UNCHANGED <<arg, mail, data>>
    BY <1>3 DEF StartPop
  <2> QED
    BY <1>0, <1>1, <2>1 DEF PushLabels, ArgWhereUsed
<1>4. ASSUME NEW t \in Threads, QueueMoves(t)
      PROVE  ArgWhereUsed' /\ Copied'
  <2>1. /\ UNCHANGED <<arg, data>>
        /\ (pc'[t] \in PushLabels) <=> (pc[t] \in PushLabels)
        /\ pc'[t] \in {"send", "send_wait"} => pc[t] \in {"send", "send_wait"} /\ mail'[t] = mail[t]
        /\ \A u \in Threads \ {t} : pc'[u] = pc[u] /\ mail'[u] = mail[u]
    BY <1>4, QueueMovesMeans DEF bufVars
  <2> QED
    BY <1>1, <2>1 DEF ArgWhereUsed, Copied
<1>5. ASSUME NEW t \in Threads, PushNoBlock(t) \/ PushPosts(t) \/ PushFrees(t)
      PROVE  ArgWhereUsed' /\ Copied'
  <2>1. /\ pc' = [pc EXCEPT ![t] = "idle"]
        /\ arg' = [arg EXCEPT ![t] = NoMessage] /\ UNCHANGED data
        /\ \A u \in Threads \ {t} : mail'[u] = mail[u]
    BY <1>5, PushEndsMeans
  <2> QED
    BY <1>0, <1>1, <2>1 DEF PushLabels
<1>6. ASSUME NEW t \in Threads, PushCopies(t)
      PROVE  ArgWhereUsed' /\ Copied'
  <2>1. /\ pc[t] = "fill" /\ pc' = [pc EXCEPT ![t] = "send"] /\ UNCHANGED <<arg, mail>>
        /\ data' = [data EXCEPT ![mail[t]] = arg[t]]
    BY <1>6 DEF PushCopies
  <2>2. mail[t] \in Blocks
    BY <1>0, <2>1 DEF HoldLabels
  <2>3. \A u \in Threads \ {t} : mail[u] # mail[t]
    BY <2>2, HeldApart
  <2>4. /\ data'[mail[t]] = arg[t]
        /\ \A u \in Threads \ {t} : pc[u] \in {"send", "send_wait"} => data'[mail[u]] = data[mail[u]]
    <3>1. \A u \in Threads \ {t} : pc[u] \in {"send", "send_wait"} => mail[u] \in Blocks
      BY <1>0 DEF HoldLabels
    <3> QED
      BY <1>0, <2>1, <2>2, <2>3, <3>1
  <2> QED
    BY <1>0, <1>1, <2>1, <2>4 DEF PushLabels, ArgWhereUsed
<1>7. ASSUME NEW t \in Threads, PopTakes(t)
      PROVE  ArgWhereUsed' /\ Copied'
  <2>1. /\ pc[t] = "recv" /\ pc' = [pc EXCEPT ![t] = "copy"] /\ UNCHANGED <<arg, data>>
        /\ \A u \in Threads \ {t} : mail'[u] = mail[u]
    BY <1>0, <1>7 DEF PopTakes, RecvTake, bufVars
  <2> QED
    BY <1>0, <1>1, <2>1 DEF PushLabels, ArgWhereUsed
<1>8. ASSUME NEW t \in Threads, PopCopies(t)
      PROVE  ArgWhereUsed' /\ Copied'
  <2>1. /\ pc[t] = "copy" /\ pc' = [pc EXCEPT ![t] = "pop_free"] /\ UNCHANGED <<arg, mail, data>>
    BY <1>8 DEF PopCopies
  <2> QED
    BY <1>0, <1>1, <2>1 DEF PushLabels, ArgWhereUsed
<1>9. ASSUME NEW t \in Threads, WaitExpires(t)
      PROVE  ArgWhereUsed' /\ Copied'
  BY <1>9 DEF WaitExpires, TimedOut, MbLeaveLists, bufVars, ArgWhereUsed, Copied
<1>10. CASE UNCHANGED vars
  BY <1>10 DEF vars, threadVars, bufVars, ArgWhereUsed, Copied
<1> QED
  BY <1>2, <1>3, <1>4, <1>5, <1>6, <1>7, <1>8, <1>9, <1>10
     DEF Next, PushSteps, PopSteps, QueueMoves

LEMMA QueueAbstractInit == Init => Abstract!Init
<1> SUFFICES ASSUME Init PROVE Abstract!Init
  OBVIOUS
<1> USE DEF Init, ThreadInit, MbInit
<1>1. Queued = << >>
  <2>1. entry = 0 /\ 1..0 = {}
    OBVIOUS
  <2>2. Queued = [k \in {} |-> data[Waiting[k]]]
    BY <2>1 DEF Queued
  <2> QED
    BY <2>2
<1>2. \A t \in Threads : pc[t] = "idle" /\ out[t] = NoMessage
  OBVIOUS
<1>3. Got = [t \in Threads |-> NoMessage]
  BY <1>2 DEF Got
<1> QED
  BY <1>1, <1>3 DEF Abstract!Init, Queued, Got

(* Every step of the queue is a step of the bounded queue, or none.  The   *)
(* post is where a message enters it and the reception is where it leaves, *)
(* wherever the scheduler puts the copies.                                 *)
LEMMA QueueAbstractStep ==
  ASSUME Inv, ArgWhereUsed, Copied, [Next]_vars, Inv'
  PROVE  [Abstract!Next]_(Abstract!vars)
<1> USE DEF At, Goto, EnterCall, LeaveCall
<1>0. /\ pc \in [Threads -> {"idle"} \cup PushLabels \cup PopLabels]
      /\ data \in [Blocks -> Messages \cup {NoMessage}]
      /\ arg \in [Threads -> Messages \cup {NoMessage}]
      /\ out \in [Threads -> Messages \cup {NoMessage}]
      /\ mail \in [Threads -> Blocks \cup {NoMail}]
      /\ NoMessage \notin Messages /\ NoMail \notin Blocks
      /\ \A t \in Threads : (mail[t] \in Blocks) <=> (pc[t] \in HoldLabels)
      /\ Senders \subseteq Threads /\ Receivers \subseteq Threads
  BY CopiesSetting
<1>1. /\ MbTypeOK /\ in_offset = Slot(entry)
      /\ Size \in Nat /\ entry \in 0..Size /\ entry \in Nat
      /\ Waiting \in [1..entry -> Blocks]
  BY QueueTypes, WaitingInRing DEF Inv, RingOfBlocks
<1>2. Queued \in [1..entry -> Messages \cup {NoMessage}]
  BY <1>0, <1>1 DEF Queued
<1>3. Queued \in Seq(Messages \cup {NoMessage}) /\ Len(Queued) = entry
  BY <1>1, <1>2, SeqDef
<1>4. /\ (Waiting \in [1..entry -> Blocks])'
      /\ data' \in [Blocks -> Messages \cup {NoMessage}]
  <2>1. (Waiting \in [1..entry -> Blocks])'
    BY WaitingBlocks, PTL
  <2> QED
    BY <2>1 DEF Inv, TypeOK
<1> DEFINE Req(t, m) == /\ arg[t] = NoMessage /\ arg' = [arg EXCEPT ![t] = m]
                        /\ UNCHANGED <<Queued, Got>>
           PutS(t) == /\ arg[t] # NoMessage /\ Len(Queued) < Size
                      /\ Queued' = Append(Queued, arg[t])
                      /\ arg' = [arg EXCEPT ![t] = NoMessage] /\ UNCHANGED Got
           Wdraw(t) == /\ arg[t] # NoMessage /\ arg' = [arg EXCEPT ![t] = NoMessage]
                       /\ UNCHANGED <<Queued, Got>>
           GetS(t) == /\ Queued # << >> /\ Got' = [Got EXCEPT ![t] = Head(Queued)]
                      /\ Queued' = Tail(Queued) /\ UNCHANGED arg
           Fgt(t) == Got' = [Got EXCEPT ![t] = NoMessage] /\ UNCHANGED <<Queued, arg>>
           Step == \/ \E t \in Threads, m \in Messages : Req(t, m)
                   \/ \E t \in Threads : PutS(t) \/ Wdraw(t)
                   \/ \E t \in Threads : GetS(t) \/ Fgt(t)
                   \/ UNCHANGED <<Queued, arg, Got>>
<1>5. SUFFICES Step
  BY DEF Abstract!Next, Abstract!vars, Abstract!Request, Abstract!Put, Abstract!Withdraw,
         Abstract!Get, Abstract!Forget, Queued, Got
<1>6. ASSUME UNCHANGED <<ringVars, data>>
      PROVE  Queued' = Queued
  BY <1>6, QueuedSame
<1>7. ASSUME NEW t \in Senders, NEW x \in Messages, NEW time \in Timeouts, StartPush(t, x, time)
      PROVE  Step
  <2>1. /\ pc[t] = "idle" /\ pc' = [pc EXCEPT ![t] = "alloc"]
        /\ arg' = [arg EXCEPT ![t] = x] /\ UNCHANGED <<ringVars, mail, data, out>>
    BY <1>7 DEF StartPush, mbVars
  <2>2. arg[t] = NoMessage
    BY <1>0, <2>1 DEF ArgWhereUsed, PushLabels
  <2>3. Got' = Got
    BY <1>0, <2>1, GotSame
  <2>4. Queued' = Queued
    BY <1>6, <2>1
  <2>5. Req(t, x)
    BY <2>1, <2>2, <2>3, <2>4
  <2> QED
    BY <1>0, <2>5
<1>8. ASSUME NEW t \in Receivers, NEW time \in Timeouts, StartPop(t, time)
      PROVE  Step
  <2>1. /\ pc[t] = "idle" /\ pc' = [pc EXCEPT ![t] = "recv"]
        /\ out' = [out EXCEPT ![t] = NoMessage] /\ UNCHANGED <<ringVars, mail, data, arg>>
    BY <1>8 DEF StartPop, mbVars
  <2>2. Got' = [Got EXCEPT ![t] = NoMessage]
    BY <1>0, <2>1 DEF Got
  <2>3. Queued' = Queued
    BY <1>6, <2>1
  <2>4. Fgt(t)
    BY <2>1, <2>2, <2>3
  <2> QED
    BY <1>0, <2>4
<1>9. ASSUME NEW t \in Threads, QueueMoves(t)
      PROVE  Step
  <2>1. /\ UNCHANGED <<ringVars, data, arg, out>>
        /\ pc[t] # "copy" /\ pc'[t] # "copy"
        /\ \A u \in Threads \ {t} : pc'[u] = pc[u] /\ mail'[u] = mail[u]
    BY <1>9, QueueMovesMeans DEF bufVars
  <2>2. Got' = Got /\ Queued' = Queued
    BY <1>6, <2>1, GotSame
  <2> QED
    BY <2>1, <2>2
<1>10. ASSUME NEW t \in Threads, PushNoBlock(t) \/ PushPosts(t) \/ PushFrees(t)
       PROVE  Step
  <2>1. /\ pc[t] \in PushLabels /\ pc' = [pc EXCEPT ![t] = "idle"]
        /\ arg' = [arg EXCEPT ![t] = NoMessage] /\ UNCHANGED <<data, out>>
        /\ \A u \in Threads \ {t} : mail'[u] = mail[u]
        /\ ~ PushPosts(t) => UNCHANGED ringVars
    BY <1>10, PushEndsMeans
  <2>2. arg[t] # NoMessage
    BY <2>1 DEF ArgWhereUsed
  <2>3. Got' = Got
    BY <1>0, <2>1, GotSame DEF PushLabels
  <2>4. CASE ~ PushPosts(t)
    <3>1. Queued' = Queued
      BY <1>6, <2>1, <2>4
    <3>2. Wdraw(t)
      BY <2>1, <2>2, <2>3, <3>1
    <3> QED
      BY <3>2
  <2>5. CASE PushPosts(t)
    <3>1. SendPut(t, "idle") /\ pc[t] = "send" /\ entry # Size /\ entry' = entry + 1
      BY <2>5 DEF PushPosts, SendPut
    <3>2. /\ \A k \in 1..entry : Waiting'[k] = Waiting[k]
          /\ Waiting'[entry + 1] = mail[t]
      BY <1>1, <3>1, WaitingPut
    <3>3. data[mail[t]] = arg[t]
      BY <3>1 DEF Copied
    <3>4. Queued' = [k \in 1..(entry + 1) |-> data[Waiting'[k]]]
      BY <2>1, <3>1 DEF Queued
    <3>5. Waiting' \in [1..(entry + 1) -> Blocks]
      BY <1>4, <3>1
    <3>6. /\ Queued' \in [1..(entry + 1) -> Messages \cup {NoMessage}]
          /\ Queued'[entry + 1] = arg[t]
      BY <1>0, <1>1, <3>2, <3>3, <3>4, <3>5
    <3>7. \A k \in 1..entry : Queued'[k] = Queued[k]
      <4>1. \A k \in 1..entry : k \in 1..(entry + 1)
        BY <1>1
      <4>2. \A k \in 1..entry : Queued'[k] = data[Waiting'[k]]
        BY <3>4, <4>1
      <4> QED
        BY <3>2, <4>2 DEF Queued
    <3>8. Queued' = Append(Queued, arg[t])
      BY <1>1, <1>2, <3>6, <3>7, IsAppend
    <3>9. Len(Queued) < Size
      BY <1>1, <1>3, <3>1
    <3>10. PutS(t)
      BY <2>1, <2>2, <2>3, <3>8, <3>9
    <3> QED
      BY <3>10
  <2> QED
    BY <2>4, <2>5
<1>11. ASSUME NEW t \in Threads, PushCopies(t)
       PROVE  Step
  <2>1. /\ pc[t] = "fill" /\ pc' = [pc EXCEPT ![t] = "send"]
        /\ data' = [data EXCEPT ![mail[t]] = arg[t]] /\ UNCHANGED <<ringVars, arg, mail, out>>
    BY <1>11 DEF PushCopies, mbVars
  <2>2. mail[t] \in Blocks
    BY <1>0, <2>1 DEF HoldLabels
  <2>3. \A b \in Blocks : b # mail[t] => data'[b] = data[b]
    BY <1>0, <2>1
  <2>4. \A b \in RingBlocks : data'[b] = data[b]
    <3>1. RingBlocks \subseteq Blocks
      BY DEF RingBlocks, Inv, RingOfBlocks
    <3> QED
      BY <2>2, <2>3, <3>1, HeldApart
  <2>5. Queued' = Queued
    BY <2>1, <2>4, QueuedSame
  <2>6. \A u \in Threads : pc[u] = "copy" => data'[mail[u]] = data[mail[u]]
    <3>1. \A u \in Threads : pc[u] = "copy" => mail[u] \in Blocks /\ u # t
      BY <1>0, <2>1 DEF HoldLabels
    <3> QED
      BY <2>2, <2>3, <3>1, HeldApart
  <2>7. Got' = Got
    BY <1>0, <2>1, <2>6 DEF Got
  <2> QED
    BY <2>1, <2>5, <2>7
<1>12. ASSUME NEW t \in Threads, PopTakes(t)
       PROVE  Step
  <2>1. /\ RecvTake(t, "copy") /\ pc[t] = "recv" /\ pc' = [pc EXCEPT ![t] = "copy"]
        /\ entry' = entry - 1 /\ mail' = [mail EXCEPT ![t] = mail'[t]]
        /\ UNCHANGED <<data, arg, out>>
    BY <1>0, <1>12 DEF PopTakes, RecvTake, bufVars
  <2>2. /\ entry \in 1..Size
        /\ \A k \in 1..(entry - 1) : Waiting'[k] = Waiting[k + 1]
        /\ Waiting[1] = mail'[t]
    BY <1>1, <2>1, WaitingTake
  <2>3. Queued' = [k \in 1..(entry - 1) |-> data[Waiting'[k]]]
    BY <2>1 DEF Queued
  <2>4. Waiting' \in [1..(entry - 1) -> Blocks]
    BY <1>4, <2>1
  <2>5. Queued' \in [1..(entry - 1) -> Messages \cup {NoMessage}]
    BY <1>0, <2>3, <2>4
  <2>6. \A k \in 1..(entry - 1) : Queued'[k] = Queued[k + 1]
    <3>1. \A k \in 1..(entry - 1) : k + 1 \in 1..entry
      BY <1>1
    <3> QED
      BY <2>2, <2>3, <3>1 DEF Queued
  <2>7. Queued # << >> /\ Head(Queued) = Queued[1] /\ Queued' = Tail(Queued)
    <3>1. entry \in Nat \ {0}
      BY <1>1, <2>2
    <3> QED
      BY <1>2, <2>5, <2>6, <3>1, IsTail
  <2>8. Queued[1] = data[mail'[t]]
    <3>1. 1 \in 1..entry
      BY <1>1, <2>2
    <3> QED
      BY <2>2, <3>1 DEF Queued
  <2>9. Got' = [Got EXCEPT ![t] = data[mail'[t]]]
    BY <1>0, <2>1 DEF Got
  <2>10. GetS(t)
    BY <2>1, <2>7, <2>8, <2>9
  <2> QED
    BY <2>10
<1>13. ASSUME NEW t \in Threads, PopCopies(t)
       PROVE  Step
  <2>1. /\ pc[t] = "copy" /\ pc' = [pc EXCEPT ![t] = "pop_free"]
        /\ out' = [out EXCEPT ![t] = data[mail[t]]] /\ UNCHANGED <<ringVars, mail, data, arg>>
    BY <1>13 DEF PopCopies, mbVars
  <2>2. Got' = Got
    BY <1>0, <2>1 DEF Got
  <2>3. Queued' = Queued
    BY <1>6, <2>1
  <2> QED
    BY <2>1, <2>2, <2>3
<1>14. ASSUME UNCHANGED <<pc, ringVars, mail, bufVars>>
       PROVE  Step
  <2>1. Queued' = Queued /\ Got' = Got
    BY <1>6, <1>14 DEF bufVars, Got
  <2> QED
    BY <1>14, <2>1 DEF bufVars
<1>15. ASSUME NEW t \in Threads, WaitExpires(t)
       PROVE  Step
  BY <1>14, <1>15 DEF WaitExpires, TimedOut, MbLeaveLists
<1>16. CASE UNCHANGED vars
  BY <1>14, <1>16 DEF vars, threadVars, mbVars
<1> HIDE DEF Step
<1> QED
  BY <1>7, <1>8, <1>9, <1>10, <1>11, <1>12, <1>13, <1>15, <1>16
     DEF Next, PushSteps, PopSteps, QueueMoves

(* The queue implements the bounded queue: every message that was posted   *)
(* is received once, by one reader, unchanged and in the order of posting, *)
(* although a push and a pop copy it with the scheduler unlocked; a push   *)
(* that fails, for want of a block or of room, leaves no trace.            *)
THEOREM QueueRefines == Spec => IsBoundedQueue
<1>1. Init => ArgWhereUsed /\ Copied
  BY DEF Init, ThreadInit, ArgWhereUsed, Copied, PushLabels
<1>2. Inv /\ ArgWhereUsed /\ Copied /\ [Next]_vars => ArgWhereUsed' /\ Copied'
  BY CopiesStep
<1>3. Inv /\ ArgWhereUsed /\ Copied /\ [Next]_vars /\ Inv' => [Abstract!Next]_(Abstract!vars)
  BY QueueAbstractStep
<1> QED
  BY <1>1, <1>2, <1>3, QueueAbstractInit, Invariance, PTL DEF Spec, IsBoundedQueue, Abstract!Spec
===============================================================================
