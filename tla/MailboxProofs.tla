----------------------------- MODULE MailboxProofs -----------------------------
(***************************************************************************)
(* What TLAPS proves of rt_mailbox, for any number of threads and words    *)
(* and any size of the ring: the wait lists hold exactly the sleeping      *)
(* threads, no wake-up is lost, and the ring implements a bounded queue.   *)
(*                                                                         *)
(* The first part is about the wait lists and the wake-ups of the kernel   *)
(* in general; RtosQueueProofs uses it for the pool's list as well.        *)
(***************************************************************************)
EXTENDS Mailbox, ListLemmas

-------------------------------------------------------------------------------
(* Wait lists.                                                             *)

(* The threads that sleep at a label. *)
Asleep(label) == {t \in Threads : stat[t] = "SUSPEND" /\ pc[t] = label}

ThreadTypes ==
  /\ pc = [t \in Threads |-> pc[t]]
  /\ stat \in [Threads -> {"READY", "SUSPEND"}]
  /\ error \in [Threads -> {"EOK", "ETIMEOUT"}]

(* rt_list_remove of a timed-out thread takes it off the list it is on.    *)
LEMMA WithoutRange ==
  ASSUME NEW S, NEW list \in Seq(S), IsInjective(list), NEW t
  PROVE  /\ Without(list, t) \in Seq(S)
         /\ IsInjective(Without(list, t))
         /\ Range(Without(list, t)) = Range(list) \ {t}
         /\ list = << >> => Without(list, t) = << >>
<1> DEFINE hit == {i \in DOMAIN list : list[i] = t}
<1>1. CASE hit = {}
  BY <1>1 DEF Without, Range
<1>2. CASE hit # {}
  <2> DEFINE k == CHOOSE i \in hit : TRUE
  <2>1. k \in 1..Len(list) /\ list[k] = t
    BY <1>2
  <2>2. Without(list, t) = RemoveAt(list, k) /\ list # << >>
    BY <1>2 DEF Without
  <2> HIDE DEF k
  <2> QED
    BY <2>1, <2>2, RemoveAtRange
<1> QED
  BY <1>1, <1>2

(* rt_ipc_list_resume takes the first thread off a list.                   *)
LEMMA RestRange ==
  ASSUME NEW S, NEW list \in Seq(S), IsInjective(list)
  PROVE  /\ Rest(list) \in Seq(S)
         /\ IsInjective(Rest(list))
         /\ Range(Rest(list)) = IF list = << >> THEN {} ELSE Range(list) \ {Head(list)}
         /\ list # << >> => Head(list) \in Range(list)
<1>1. CASE list = << >>
  BY <1>1 DEF Rest, Range
<1>2. CASE list # << >>
  BY <1>2, TailRange DEF Rest
<1> QED
  BY <1>1, <1>2

(* What the list of a label is when it is exact.                           *)
LEMMA OnListMeans ==
  ASSUME NEW list, NEW label
  PROVE  OnList(list, label) <=> IsInjective(list) /\ Range(list) = Asleep(label)
BY DEF OnList, Asleep, ToSet, Range

(* A running thread that goes on to another section leaves every sleeping  *)
(* thread where it is.                                                     *)
LEMMA RunningKeepsAsleep ==
  ASSUME ThreadTypes, NEW t \in Threads, stat[t] = "READY", UNCHANGED stat,
         NEW next, pc' = [pc EXCEPT ![t] = next], NEW label
  PROVE  Asleep(label)' = Asleep(label)
BY DEF Asleep, ThreadTypes

LEMMA SuspendedIsAsleep ==
  ASSUME ThreadTypes, NEW t \in Threads, stat[t] = "READY", NEW next,
         stat' = [stat EXCEPT ![t] = "SUSPEND"], pc' = [pc EXCEPT ![t] = next], NEW label
  PROVE  Asleep(label)' = IF label = next THEN Asleep(label) \cup {t} ELSE Asleep(label)
BY DEF Asleep, ThreadTypes

(* Thread t resumes the first thread of the list of wait, or nobody.       *)
LEMMA ResumedIsAwake ==
  ASSUME ThreadTypes, NEW t \in Threads, stat[t] = "READY",
         NEW next, pc' = [pc EXCEPT ![t] = next],
         NEW wait, NEW list \in Seq(Threads), OnList(list, wait), ResumeFirst(list), NEW label
  PROVE  Asleep(label)' = IF label = wait /\ list # << >> THEN Asleep(label) \ {Head(list)}
                          ELSE Asleep(label)
<1>1. CASE list = << >>
  BY <1>1, RunningKeepsAsleep DEF ResumeFirst
<1>2. CASE list # << >>
  <2>1. Head(list) \in Asleep(wait)
    <3>1. IsInjective(list) /\ Range(list) = Asleep(wait)
      BY OnListMeans
    <3>2. Head(list) \in Range(list)
      BY <1>2, <3>1, TailRange
    <3> QED
      BY <3>1, <3>2
  <2>2. stat' = [stat EXCEPT ![Head(list)] = "READY"]
    BY <1>2 DEF ResumeFirst, Resume
  <2> HIDE DEF ResumeFirst, OnList
  <2> QED
    BY <1>2, <2>1, <2>2 DEF Asleep, ThreadTypes
<1> QED
  BY <1>1, <1>2

LEMMA TimedOutIsAwake ==
  ASSUME ThreadTypes, NEW t \in Threads, TimedOut(t), NEW label
  PROVE  Asleep(label)' = Asleep(label) \ {t}
BY DEF Asleep, ThreadTypes, TimedOut

(* What the steps above do to an exact list of threads.                    *)
LEMMA ExactKept ==
  ASSUME NEW list, NEW label, OnList(list, label), Asleep(label)' = Asleep(label)
  PROVE  IsInjective(list) /\ Range(list) = Asleep(label)'
BY OnListMeans

LEMMA ExactAppend ==
  ASSUME NEW list \in Seq(Threads), NEW label, OnList(list, label), NEW t \in Threads,
         stat[t] = "READY", Asleep(label)' = Asleep(label) \cup {t}
  PROVE  /\ Append(list, t) \in Seq(Threads)
         /\ IsInjective(Append(list, t)) /\ Range(Append(list, t)) = Asleep(label)'
<1>1. t \notin Range(list) /\ IsInjective(list) /\ Range(list) = Asleep(label)
  BY OnListMeans DEF Asleep
<1> QED
  BY <1>1, RangeAppend

LEMMA ExactCons ==
  ASSUME NEW list \in Seq(Threads), NEW label, OnList(list, label), NEW t \in Threads,
         stat[t] = "READY", Asleep(label)' = Asleep(label) \cup {t}
  PROVE  /\ <<t>> \o list \in Seq(Threads)
         /\ IsInjective(<<t>> \o list) /\ Range(<<t>> \o list) = Asleep(label)'
<1>1. t \notin Range(list) /\ IsInjective(list) /\ Range(list) = Asleep(label)
  BY OnListMeans DEF Asleep
<1> QED
  BY <1>1, ConsRange

LEMMA ExactRest ==
  ASSUME NEW list \in Seq(Threads), NEW label, OnList(list, label),
         Asleep(label)' = IF list # << >> THEN Asleep(label) \ {Head(list)} ELSE Asleep(label)
  PROVE  /\ Rest(list) \in Seq(Threads)
         /\ IsInjective(Rest(list)) /\ Range(Rest(list)) = Asleep(label)'
<1>1. IsInjective(list) /\ Range(list) = Asleep(label)
  BY OnListMeans
<1>2. list = << >> => Range(list) = {}
  BY DEF Range
<1> QED
  BY <1>1, <1>2, RestRange

LEMMA ExactWithout ==
  ASSUME NEW list \in Seq(Threads), NEW label, OnList(list, label), NEW t,
         Asleep(label)' = Asleep(label) \ {t}
  PROVE  /\ Without(list, t) \in Seq(Threads)
         /\ IsInjective(Without(list, t)) /\ Range(Without(list, t)) = Asleep(label)'
BY OnListMeans, WithoutRange

(* The two lists of the mailbox hold exactly the threads asleep in its     *)
(* calls.  Each lemma below says what one operation does to them, and that *)
(* it disturbs no other sleeping thread.                                   *)
MbOnLists ==
  /\ mb_suspend_thread \in Seq(Threads) /\ OnList(mb_suspend_thread, "recv_wait")
  /\ mb_suspend_sender \in Seq(Threads) /\ OnList(mb_suspend_sender, "send_wait")

LEMMA MbOnListsMeans ==
  MbOnLists <=>
    /\ mb_suspend_thread \in Seq(Threads) /\ IsInjective(mb_suspend_thread)
    /\ Range(mb_suspend_thread) = Asleep("recv_wait")
    /\ mb_suspend_sender \in Seq(Threads) /\ IsInjective(mb_suspend_sender)
    /\ Range(mb_suspend_sender) = Asleep("send_wait")
BY OnListMeans DEF MbOnLists

LEMMA MbOnListsNext ==
  ASSUME mb_suspend_thread' \in Seq(Threads), IsInjective(mb_suspend_thread'),
         Range(mb_suspend_thread') = Asleep("recv_wait")',
         mb_suspend_sender' \in Seq(Threads), IsInjective(mb_suspend_sender'),
         Range(mb_suspend_sender') = Asleep("send_wait")'
  PROVE  MbOnLists'
BY DEF MbOnLists, OnList, Asleep, ToSet, Range, IsInjective

LEMMA RunningKeepsLists ==
  ASSUME ThreadTypes, MbOnLists, NEW t \in Threads, stat[t] = "READY",
         UNCHANGED <<stat, mb_suspend_thread, mb_suspend_sender>>,
         NEW next, pc' = [pc EXCEPT ![t] = next]
  PROVE  MbOnLists'
BY RunningKeepsAsleep, MbOnListsMeans, MbOnListsNext

LEMMA MbSuspendLists ==
  ASSUME ThreadTypes, MbOnLists, NEW t \in Threads, SendFullSuspend(t) \/ RecvEmptySuspend(t)
  PROVE  /\ MbOnLists'
         /\ \A label : label \notin {"send_wait", "recv_wait"} => Asleep(label)' = Asleep(label)
<1>0. /\ mb_suspend_thread \in Seq(Threads) /\ OnList(mb_suspend_thread, "recv_wait")
      /\ mb_suspend_sender \in Seq(Threads) /\ OnList(mb_suspend_sender, "send_wait")
      /\ stat[t] = "READY"
  BY DEF MbOnLists, SendFullSuspend, RecvEmptySuspend, At
<1>1. CASE SendFullSuspend(t)
  <2>1. /\ stat' = [stat EXCEPT ![t] = "SUSPEND"] /\ pc' = [pc EXCEPT ![t] = "send_wait"]
        /\ mb_suspend_sender' = Append(mb_suspend_sender, t)
        /\ mb_suspend_thread' = mb_suspend_thread
    BY <1>1 DEF SendFullSuspend, Suspend, Goto
  <2>2. \A label : Asleep(label)' = IF label = "send_wait" THEN Asleep(label) \cup {t} ELSE Asleep(label)
    BY <1>0, <2>1, SuspendedIsAsleep
  <2> QED
    BY <1>0, <2>1, <2>2, ExactAppend, ExactKept, MbOnListsNext
<1>2. CASE RecvEmptySuspend(t)
  <2>1. /\ stat' = [stat EXCEPT ![t] = "SUSPEND"] /\ pc' = [pc EXCEPT ![t] = "recv_wait"]
        /\ mb_suspend_thread' = Append(mb_suspend_thread, t)
        /\ mb_suspend_sender' = mb_suspend_sender
    BY <1>2 DEF RecvEmptySuspend, Suspend, Goto
  <2>2. \A label : Asleep(label)' = IF label = "recv_wait" THEN Asleep(label) \cup {t} ELSE Asleep(label)
    BY <1>0, <2>1, SuspendedIsAsleep
  <2> QED
    BY <1>0, <2>1, <2>2, ExactAppend, ExactKept, MbOnListsNext
<1> QED
  BY <1>1, <1>2

LEMMA MbWakeLists ==
  ASSUME ThreadTypes, MbOnLists, NEW t \in Threads, NEW okPc,
         SendPut(t, okPc) \/ RecvTake(t, okPc)
  PROVE  /\ MbOnLists'
         /\ \A label : label \notin {"send_wait", "recv_wait"} => Asleep(label)' = Asleep(label)
<1>0. /\ mb_suspend_thread \in Seq(Threads) /\ OnList(mb_suspend_thread, "recv_wait")
      /\ mb_suspend_sender \in Seq(Threads) /\ OnList(mb_suspend_sender, "send_wait")
      /\ stat[t] = "READY" /\ pc' = [pc EXCEPT ![t] = okPc]
  BY DEF MbOnLists, SendPut, RecvTake, At, LeaveCall, EnterCall, Goto
<1>1. CASE SendPut(t, okPc)
  <2>1. /\ ResumeFirst(mb_suspend_thread)
        /\ mb_suspend_thread' = Rest(mb_suspend_thread)
        /\ mb_suspend_sender' = mb_suspend_sender
    BY <1>1 DEF SendPut
  <2>2. \A label : Asleep(label)' =
          IF label = "recv_wait" /\ mb_suspend_thread # << >>
          THEN Asleep(label) \ {Head(mb_suspend_thread)} ELSE Asleep(label)
    BY <1>0, <2>1, ResumedIsAwake
  <2> QED
    BY <1>0, <2>1, <2>2, ExactRest, ExactKept, MbOnListsNext
<1>2. CASE RecvTake(t, okPc)
  <2>1. /\ ResumeFirst(mb_suspend_sender)
        /\ mb_suspend_sender' = Rest(mb_suspend_sender)
        /\ mb_suspend_thread' = mb_suspend_thread
    BY <1>2 DEF RecvTake
  <2>2. \A label : Asleep(label)' =
          IF label = "send_wait" /\ mb_suspend_sender # << >>
          THEN Asleep(label) \ {Head(mb_suspend_sender)} ELSE Asleep(label)
    BY <1>0, <2>1, ResumedIsAwake
  <2> QED
    BY <1>0, <2>1, <2>2, ExactRest, ExactKept, MbOnListsNext
<1> QED
  BY <1>1, <1>2

LEMMA MbTimeoutLists ==
  ASSUME ThreadTypes, MbOnLists, NEW t \in Threads, TimedOut(t), MbLeaveLists(t)
  PROVE  MbOnLists'
<1>1. \A label : Asleep(label)' = Asleep(label) \ {t}
  BY TimedOutIsAwake
<1>2. /\ mb_suspend_thread' = Without(mb_suspend_thread, t)
      /\ mb_suspend_sender' = Without(mb_suspend_sender, t)
  BY DEF MbLeaveLists
<1> QED
  BY <1>1, <1>2, ExactWithout, MbOnListsNext DEF MbOnLists
-------------------------------------------------------------------------------
(* Wake-ups.  The threads of a kernel are finitely many; what a step does  *)
(* to the number of those that look at an object.                          *)

LEMMA LookingFinite ==
  ASSUME IsFiniteSet(Threads), NEW label, NEW wait
  PROVE  /\ IsFiniteSet(Looking(label, wait)) /\ IsFiniteSet(Looking(label, wait)')
         /\ Cardinality(Looking(label, wait)) \in Nat
         /\ Cardinality(Looking(label, wait)') \in Nat
<1>1. Looking(label, wait) \in SUBSET Threads /\ Looking(label, wait)' \in SUBSET Threads
  BY DEF Looking
<1> QED
  BY <1>1, FS_Subset, FS_CardinalityType

(* A thread that sleeps has no error yet: whoever resumes it sends it to   *)
(* look again, only its timer leaves it an error.                          *)
SleepsWithoutError == \A t \in Threads : stat[t] = "SUSPEND" => error[t] = "EOK"

(* The step of one thread, which may wake others up, leaves those that     *)
(* look looking.                                                           *)
OthersUndisturbed(t) ==
  \A u \in Threads \ {t} :
    /\ pc'[u] = pc[u]
    /\ error'[u] = error[u]
    /\ stat[u] = "READY" => stat'[u] = "READY"

LEMMA OthersKeepLooking ==
  ASSUME NEW t \in Threads, OthersUndisturbed(t), NEW label, NEW wait
  PROVE  Looking(label, wait) \ {t} \subseteq Looking(label, wait)'
<1> SUFFICES ASSUME NEW u \in Looking(label, wait), u # t
             PROVE  u \in Looking(label, wait)'
  OBVIOUS
<1>1. u \in Threads /\ (At(u, label) \/ (At(u, wait) /\ error[u] = "EOK"))
  BY DEF Looking
<1>2. pc'[u] = pc[u] /\ error'[u] = error[u] /\ (stat[u] = "READY" => stat'[u] = "READY")
  BY <1>1 DEF OthersUndisturbed
<1> QED
  BY <1>1, <1>2 DEF Looking, At

(* The first thread of a list, once resumed, looks at the object.          *)
LEMMA ResumedLooks ==
  ASSUME ThreadTypes, NEW t \in Threads, stat[t] = "READY",
         NEW list \in Seq(Threads), list # << >>, NEW label, NEW wait,
         IsInjective(list), Range(list) = Asleep(wait), SleepsWithoutError, ResumeFirst(list),
         OthersUndisturbed(t)
  PROVE  /\ Head(list) \in Looking(label, wait)'
         /\ Head(list) \notin Looking(label, wait)
         /\ Head(list) # t
<1> DEFINE u == Head(list)
<1>1. u \in Asleep(wait)
  <2>1. u \in Range(list)
    BY TailRange
  <2> QED
    BY <2>1
<1>2. stat' = [stat EXCEPT ![u] = "READY"]
  BY DEF ResumeFirst, Resume
<1> HIDE DEF u
<1>3. /\ u \in Threads /\ stat[u] = "SUSPEND" /\ pc[u] = wait /\ error[u] = "EOK" /\ u # t
      /\ stat'[u] = "READY" /\ pc'[u] = wait /\ error'[u] = "EOK"
  BY <1>1, <1>2 DEF Asleep, SleepsWithoutError, ThreadTypes, OthersUndisturbed
<1> QED
  BY <1>3 DEF Looking, At, u

(* Resuming a thread and going on disturbs nobody else.                    *)
LEMMA ResumeDisturbsNobody ==
  ASSUME ThreadTypes, NEW t \in Threads, NEW next, pc' = [pc EXCEPT ![t] = next],
         UNCHANGED error, NEW list \in Seq(Threads), ResumeFirst(list)
  PROVE  OthersUndisturbed(t)
<1>1. CASE list = << >>
  BY <1>1 DEF ResumeFirst, OthersUndisturbed, ThreadTypes
<1>2. CASE list # << >>
  BY <1>2 DEF ResumeFirst, Resume, OthersUndisturbed, ThreadTypes
<1> QED
  BY <1>1, <1>2
-------------------------------------------------------------------------------
(***************************************************************************)
(* The inductive invariant of the mailbox on its own.  MbListsExact alone  *)
(* is not inductive for the wake-ups: they need that a sleeping thread     *)
(* has no error; and the bounded queue needs that each thread stays in its *)
(* role, that a sender has a word and that in_offset is where the next     *)
(* word goes.                                                              *)
(***************************************************************************)
MbPcType == pc \in [Threads -> {"idle", "send", "send_wait", "recv", "recv_wait"}]

RolesKept ==
  \A t \in Threads :
    /\ pc[t] \in {"send", "send_wait"} => t \in Senders /\ mail[t] \in Mail
    /\ pc[t] \in {"recv", "recv_wait"} => t \in Receivers

RingAligned ==
  /\ in_offset = Slot(entry)
  /\ \A k \in 0..(entry - 1) : msg_pool[Slot(k)] \in Mail

MbInv ==
  /\ ThreadTypeOK /\ MbTypeOK /\ MbPcType
  /\ MbListsExact
  /\ SleepsWithoutError
  /\ RolesKept
  /\ RingAligned

LEMMA MbInvTypes ==
  ASSUME MbInv
  PROVE  /\ ThreadTypes /\ MbOnLists
         /\ Size \in Nat /\ Size > 0 /\ entry \in 0..Size
         /\ mb_suspend_thread \in Seq(Threads) /\ mb_suspend_sender \in Seq(Threads)
BY SizeAssumption
   DEF MbInv, ThreadTypes, MbOnLists, MbListsExact, MbPcType, ThreadTypeOK, MbTypeOK

LEMMA MbInvInit == MbClientInit => MbInv
<1> SUFFICES ASSUME MbClientInit PROVE MbInv
  OBVIOUS
<1> USE SizeAssumption DEF MbClientInit, ThreadInit, MbInit
<1>1. ThreadTypeOK /\ MbTypeOK /\ MbPcType
  BY DEF ThreadTypeOK, MbTypeOK, MbPcType, Timeouts, NoTimeout
<1>2. MbListsExact
  <2>1. \A label : OnList(<< >>, label)
    BY DEF OnList, IsInjective, ToSet
  <2> QED
    BY <2>1 DEF MbListsExact
<1>3. SleepsWithoutError /\ RolesKept /\ RingAligned
  BY DEF SleepsWithoutError, RolesKept, RingAligned, Slot
<1> QED
  BY <1>1, <1>2, <1>3 DEF MbInv

(* The steps that change neither the ring nor a wait list.                 *)
MbQuiet(t) ==
  \/ \E word \in Mail, time \in Timeouts : t \in Senders /\ CallSend(t, word, time)
  \/ \E time \in Timeouts : t \in Receivers /\ CallRecv(t, time)
  \/ SendFullNoWait(t, "idle") \/ SendWoken(t, "idle")
  \/ RecvEmptyNoWait(t, "idle") \/ RecvWoken(t, "idle")

LEMMA MbStepKinds ==
  ASSUME [MbNext]_mbAllVars
  PROVE  \/ \E t \in Threads :
              \/ MbQuiet(t)
              \/ SendFullSuspend(t) \/ RecvEmptySuspend(t)
              \/ SendPut(t, "idle") \/ RecvTake(t, "idle")
              \/ MbTimeout(t)
         \/ UNCHANGED mbAllVars
BY RoleAssumption DEF MbNext, MbQuiet, MbSender, MbReceiver

LEMMA MbQuietMeans ==
  ASSUME MbInv, NEW t \in Threads, MbQuiet(t)
  PROVE  /\ stat[t] = "READY" /\ UNCHANGED <<stat, mbVars>>
         /\ \E next \in {"idle", "send", "send_wait", "recv", "recv_wait"} :
              pc' = [pc EXCEPT ![t] = next]
         /\ error' = [error EXCEPT ![t] = error'[t]] /\ error'[t] \in {"EOK", "ETIMEOUT"}
         /\ \E time \in Timeouts \cup {NoTimeout} : timeout' = [timeout EXCEPT ![t] = time]
<1> USE DEF At, Goto, EnterCall, LeaveCall
<1>0. error \in [Threads -> {"EOK", "ETIMEOUT"}] /\ timeout \in [Threads -> Timeouts \cup {NoTimeout}]
  BY DEF MbInv, ThreadTypeOK
<1>1. ASSUME NEW word \in Mail, NEW time \in Timeouts, CallSend(t, word, time)
      PROVE  /\ stat[t] = "READY" /\ UNCHANGED <<stat, mbVars>>
             /\ pc' = [pc EXCEPT ![t] = "send"] /\ UNCHANGED error
             /\ timeout' = [timeout EXCEPT ![t] = time]
  BY <1>1 DEF CallSend
<1>2. ASSUME NEW time \in Timeouts, CallRecv(t, time)
      PROVE  /\ stat[t] = "READY" /\ UNCHANGED <<stat, mbVars>>
             /\ pc' = [pc EXCEPT ![t] = "recv"] /\ UNCHANGED error
             /\ timeout' = [timeout EXCEPT ![t] = time]
  BY <1>2 DEF CallRecv
<1>3. ASSUME SendFullNoWait(t, "idle") \/ RecvEmptyNoWait(t, "idle")
      PROVE  /\ stat[t] = "READY" /\ UNCHANGED <<stat, mbVars>>
             /\ pc' = [pc EXCEPT ![t] = "idle"] /\ UNCHANGED error
             /\ timeout' = [timeout EXCEPT ![t] = NoTimeout]
  BY <1>3 DEF SendFullNoWait, RecvEmptyNoWait
<1>4. ASSUME NEW wait, WokenGivesUp(t, wait, "idle"), UNCHANGED mbVars
      PROVE  /\ stat[t] = "READY" /\ UNCHANGED <<stat, mbVars>>
             /\ pc' = [pc EXCEPT ![t] = "idle"]
             /\ error' = [error EXCEPT ![t] = "EOK"]
             /\ timeout' = [timeout EXCEPT ![t] = NoTimeout]
  BY <1>4 DEF WokenGivesUp
<1>5. ASSUME NEW wait, NEW again, WokenRetries(t, wait, again), UNCHANGED mbVars
      PROVE  /\ stat[t] = "READY" /\ UNCHANGED <<stat, mbVars>>
             /\ pc' = [pc EXCEPT ![t] = again] /\ UNCHANGED error
             /\ \E time \in Timeouts \cup {NoTimeout} : timeout' = [timeout EXCEPT ![t] = time]
  <2>1. Remaining(t) \subseteq Timeouts \cup {NoTimeout}
    BY <1>0 DEF Remaining, Timeouts
  <2> QED
    BY <1>5, <2>1 DEF WokenRetries
<1>6. UNCHANGED error => error' = [error EXCEPT ![t] = error'[t]] /\ error'[t] \in {"EOK", "ETIMEOUT"}
  BY <1>0
<1>7. error' = [error EXCEPT ![t] = "EOK"] =>
        error' = [error EXCEPT ![t] = error'[t]] /\ error'[t] \in {"EOK", "ETIMEOUT"}
  BY <1>0
<1>8. CASE SendWoken(t, "idle") \/ RecvWoken(t, "idle")
  BY <1>4, <1>5, <1>6, <1>7, <1>8 DEF SendWoken, RecvWoken
<1>9. CASE \/ \E word \in Mail, time \in Timeouts : CallSend(t, word, time)
           \/ \E time \in Timeouts : CallRecv(t, time)
  BY <1>1, <1>2, <1>6, <1>9
<1>10. CASE SendFullNoWait(t, "idle") \/ RecvEmptyNoWait(t, "idle")
  BY <1>3, <1>6, <1>10
<1> QED
  BY <1>8, <1>9, <1>10 DEF MbQuiet

LEMMA MbTypeStep ==
  ASSUME MbInv, [MbNext]_mbAllVars
  PROVE  ThreadTypeOK' /\ MbTypeOK' /\ MbPcType'
<1> USE DEF MbTypeOK, MbPcType, ThreadTypeOK
<1>0. /\ ThreadTypeOK /\ MbTypeOK /\ MbPcType /\ NoTimeout \in Timeouts \cup {NoTimeout}
      /\ Size \in Nat /\ Size > 0
  BY SizeAssumption DEF MbInv
<1>1. ASSUME NEW t \in Threads, MbQuiet(t)
      PROVE  ThreadTypeOK' /\ MbTypeOK' /\ MbPcType'
  <2>1. ThreadTypeOK' /\ MbPcType' /\ UNCHANGED mbVars
    <3>1. PICK next \in {"idle", "send", "send_wait", "recv", "recv_wait"} :
            pc' = [pc EXCEPT ![t] = next]
      BY <1>1, MbQuietMeans
    <3>2. PICK time \in Timeouts \cup {NoTimeout} : timeout' = [timeout EXCEPT ![t] = time]
      BY <1>1, MbQuietMeans
    <3>3. /\ UNCHANGED <<stat, mbVars>>
          /\ error' = [error EXCEPT ![t] = error'[t]] /\ error'[t] \in {"EOK", "ETIMEOUT"}
      BY <1>1, MbQuietMeans
    <3> QED
      BY <1>0, <3>1, <3>2, <3>3
  <2>2. mail' \in [Threads -> Mail \cup {NoMail}]
    BY <1>0, <1>1 DEF MbQuiet, CallSend, CallRecv, SendFullNoWait, SendWoken, RecvEmptyNoWait, RecvWoken
  <2> QED
    BY <1>0, <2>1, <2>2 DEF mbVars, ringVars
<1>2. ASSUME NEW t \in Threads, SendFullSuspend(t) \/ RecvEmptySuspend(t)
      PROVE  ThreadTypeOK' /\ MbTypeOK' /\ MbPcType'
  <2>1. /\ Append(mb_suspend_thread, t) \in Seq(Threads)
        /\ Append(mb_suspend_sender, t) \in Seq(Threads)
    BY <1>0
  <2> QED
    BY <1>0, <1>2, <2>1 DEF SendFullSuspend, RecvEmptySuspend, Suspend, Goto, ringVars
<1>3. ASSUME NEW t \in Threads, SendPut(t, "idle") \/ RecvTake(t, "idle")
      PROVE  ThreadTypeOK' /\ MbTypeOK' /\ MbPcType'
  <2> USE DEF LeaveCall, EnterCall, Goto
  <2>1. MbOnLists'
    BY <1>3, MbInvTypes, MbWakeLists
  <2>2. mb_suspend_thread' \in Seq(Threads) /\ mb_suspend_sender' \in Seq(Threads)
    BY <2>1 DEF MbOnLists
  <2>3. \A list \in Seq(Threads) : ResumeFirst(list) => stat' \in [Threads -> {"READY", "SUSPEND"}]
    BY <1>0 DEF ResumeFirst, Resume
  <2>4. ThreadTypeOK' /\ MbPcType'
    BY <1>0, <1>3, <2>3 DEF SendPut, RecvTake
  <2>5. Advance(in_offset) \in 0..(Size - 1) /\ Advance(out_offset) \in 0..(Size - 1)
    BY <1>0 DEF Advance
  <2>6. entry' \in 0..Size
    BY <1>0, <1>3 DEF SendPut, RecvTake
  <2>7. /\ in_offset' \in 0..(Size - 1) /\ out_offset' \in 0..(Size - 1)
        /\ msg_pool' \in [0..(Size - 1) -> Mail \cup {NoMail}]
        /\ mail' \in [Threads -> Mail \cup {NoMail}]
    <3>1. /\ in_offset' \in {in_offset, Advance(in_offset)}
          /\ out_offset' \in {out_offset, Advance(out_offset)}
      BY <1>3 DEF SendPut, RecvTake
    <3>2. UNCHANGED msg_pool \/ msg_pool' = [msg_pool EXCEPT ![in_offset] = mail[t]]
      BY <1>3 DEF SendPut, RecvTake
    <3>3. \/ mail' = [mail EXCEPT ![t] = NoMail]
          \/ mail' = [mail EXCEPT ![t] = msg_pool[out_offset]]
          \/ UNCHANGED mail
      BY <1>3 DEF SendPut, RecvTake
    <3> HIDE DEF Advance, LeaveCall, EnterCall, Goto
    <3>4. in_offset' \in 0..(Size - 1) /\ out_offset' \in 0..(Size - 1)
      BY <1>0, <2>5, <3>1
    <3>5. msg_pool' \in [0..(Size - 1) -> Mail \cup {NoMail}]
      BY <1>0, <3>2
    <3>6. mail' \in [Threads -> Mail \cup {NoMail}]
      BY <1>0, <3>3
    <3> QED
      BY <3>4, <3>5, <3>6
  <2>8. MbTypeOK'
    BY <2>2, <2>6, <2>7
  <2> HIDE DEF MbTypeOK, MbPcType, ThreadTypeOK, LeaveCall, EnterCall, Goto
  <2> QED
    BY <2>4, <2>8
<1>4. ASSUME NEW t \in Threads, MbTimeout(t)
      PROVE  ThreadTypeOK' /\ MbTypeOK' /\ MbPcType'
  <2>1. MbOnLists'
    BY <1>4, MbInvTypes, MbTimeoutLists DEF MbTimeout
  <2> QED
    BY <1>0, <1>4, <2>1 DEF MbTimeout, TimedOut, MbLeaveLists, MbOnLists, ringVars
<1>5. CASE UNCHANGED mbAllVars
  BY <1>0, <1>5 DEF mbAllVars, threadVars, mbVars, ringVars
<1> QED
  BY <1>1, <1>2, <1>3, <1>4, <1>5, MbStepKinds

LEMMA MbListsStep ==
  ASSUME MbInv, [MbNext]_mbAllVars
  PROVE  MbListsExact' /\ SleepsWithoutError'
<1> DEFINE Settled == /\ \A u \in Threads : stat[u] = "SUSPEND" => pc[u] \in {"recv_wait", "send_wait"}
                      /\ SleepsWithoutError
<1>0. ThreadTypes /\ MbOnLists /\ Settled
  BY MbInvTypes DEF MbInv, MbListsExact
<1>1. ASSUME NEW t \in Threads, MbQuiet(t)
      PROVE  MbOnLists' /\ Settled'
  <2>1. PICK next : /\ pc' = [pc EXCEPT ![t] = next] /\ stat[t] = "READY"
                    /\ UNCHANGED <<stat, mbVars>> /\ error' = [error EXCEPT ![t] = error'[t]]
    BY <1>1, MbQuietMeans
  <2>2. MbOnLists'
    BY <1>0, <2>1, RunningKeepsLists DEF mbVars
  <2> QED
    BY <1>0, <2>1, <2>2 DEF ThreadTypes, SleepsWithoutError
<1>2. ASSUME NEW t \in Threads, SendFullSuspend(t) \/ RecvEmptySuspend(t)
      PROVE  MbOnLists' /\ Settled'
  <2>1. MbOnLists'
    BY <1>0, <1>2, MbSuspendLists
  <2> QED
    BY <1>0, <1>2, <2>1
       DEF ThreadTypes, SleepsWithoutError, SendFullSuspend, RecvEmptySuspend, Suspend, Goto
<1>3. ASSUME NEW t \in Threads, SendPut(t, "idle") \/ RecvTake(t, "idle")
      PROVE  MbOnLists' /\ Settled'
  <2>1. MbOnLists'
    BY <1>0, <1>3, MbWakeLists
  <2>2. PICK list \in Seq(Threads) : ResumeFirst(list)
    BY <1>0, <1>3 DEF SendPut, RecvTake, MbOnLists
  <2>3. \A u \in Threads : stat'[u] = "SUSPEND" => stat[u] = "SUSPEND"
    BY <1>0, <2>2 DEF ThreadTypes, ResumeFirst, Resume
  <2>4. stat[t] = "READY" /\ pc' = [pc EXCEPT ![t] = "idle"] /\ UNCHANGED error
    BY <1>3 DEF SendPut, RecvTake, At, LeaveCall, EnterCall, Goto
  <2> QED
    BY <1>0, <2>1, <2>3, <2>4 DEF ThreadTypes, SleepsWithoutError
<1>4. ASSUME NEW t \in Threads, MbTimeout(t)
      PROVE  MbOnLists' /\ Settled'
  <2>1. MbOnLists'
    BY <1>0, <1>4, MbTimeoutLists DEF MbTimeout
  <2> QED
    BY <1>0, <1>4, <2>1 DEF ThreadTypes, SleepsWithoutError, MbTimeout, TimedOut
<1>5. ASSUME UNCHANGED mbAllVars
      PROVE  MbOnLists' /\ Settled'
  BY <1>0, <1>5
     DEF mbAllVars, threadVars, mbVars, MbOnLists, OnList, IsInjective, ToSet, SleepsWithoutError
<1>6. MbOnLists' /\ Settled'
  BY <1>1, <1>2, <1>3, <1>4, <1>5, MbStepKinds
<1> QED
  BY <1>6 DEF MbOnLists, MbListsExact

(* The positions of the ring, in order.                                    *)
LEMMA MbSlotProperties ==
  ASSUME MbTypeOK
  PROVE  /\ Slot(0) = out_offset
         /\ \A k \in 0..Size : Slot(k) \in 0..(Size - 1)
         /\ \A j, k \in 0..(Size - 1) : Slot(j) = Slot(k) => j = k
         /\ \A k \in 0..(Size - 1) : Advance(Slot(k)) = Slot(k + 1)
<1>1. Size \in Nat /\ Size > 0 /\ out_offset \in 0..(Size - 1)
  BY SizeAssumption DEF MbTypeOK
<1> QED
  BY <1>1 DEF Slot, Advance

(* A word is put after those that wait, which stay what they were.         *)
LEMMA PutInRing ==
  ASSUME MbTypeOK, in_offset = Slot(entry), NEW t \in Threads, NEW okPc, SendPut(t, okPc)
  PROVE  /\ entry \in 0..(Size - 1) /\ entry' = entry + 1
         /\ \A k \in 0..Size : Slot(k)' = Slot(k)
         /\ (in_offset = Slot(entry))'
         /\ msg_pool'[Slot(entry)] = mail[t]
         /\ \A k \in 0..(entry - 1) : msg_pool'[Slot(k)] = msg_pool[Slot(k)]
<1>0. Size \in Nat /\ entry \in 0..(Size - 1)
  BY SizeAssumption DEF SendPut, MbTypeOK
<1>1. /\ msg_pool' = [msg_pool EXCEPT ![in_offset] = mail[t]]
      /\ in_offset' = Advance(in_offset)
      /\ entry' = entry + 1
      /\ out_offset' = out_offset
  BY DEF SendPut
<1>2. \A k \in Nat : Slot(k)' = Slot(k)
  BY <1>1 DEF Slot
<1>3. (in_offset = Slot(entry))'
  <2>1. in_offset' = Slot(entry + 1)
    BY <1>0, <1>1, MbSlotProperties
  <2> QED
    BY <1>1, <2>1 DEF Slot
<1>4. \A k \in 0..(entry - 1) : Slot(k) # Slot(entry)
  BY <1>0, MbSlotProperties
<1>5. in_offset \in DOMAIN msg_pool
  BY DEF MbTypeOK
<1>6. \A k \in 0..Size : Slot(k)' = Slot(k)
  BY <1>0, <1>2
<1>7. /\ msg_pool'[Slot(entry)] = mail[t]
      /\ \A k \in 0..(entry - 1) : msg_pool'[Slot(k)] = msg_pool[Slot(k)]
  BY <1>1, <1>4, <1>5
<1> QED
  BY <1>0, <1>1, <1>3, <1>6, <1>7

(* The oldest word is taken, the others move up by one place.              *)
LEMMA TakeFromRing ==
  ASSUME MbTypeOK, in_offset = Slot(entry), NEW t \in Threads, NEW okPc, RecvTake(t, okPc)
  PROVE  /\ entry \in 1..Size /\ entry' = entry - 1
         /\ \A k \in 0..(Size - 1) : Slot(k)' = Slot(k + 1)
         /\ (in_offset = Slot(entry))'
         /\ mail' = [mail EXCEPT ![t] = msg_pool[Slot(0)]]
         /\ msg_pool' = msg_pool
<1>0. Size \in Nat /\ entry \in 1..Size /\ out_offset \in 0..(Size - 1)
  BY SizeAssumption DEF RecvTake, MbTypeOK
<1>1. /\ mail' = [mail EXCEPT ![t] = msg_pool[out_offset]]
      /\ out_offset' = Advance(out_offset)
      /\ entry' = entry - 1
      /\ in_offset' = in_offset /\ msg_pool' = msg_pool
  BY DEF RecvTake
<1>2. \A k \in 0..(Size - 1) : Slot(k)' = Slot(k + 1)
  BY <1>0, <1>1 DEF Slot, Advance
<1>4. (in_offset = Slot(entry))'
  BY <1>0, <1>1 DEF Slot, Advance
<1> QED
  BY <1>0, <1>1, <1>2, <1>4, MbSlotProperties

(* Each thread stays in its role; the live words of the ring are words.    *)
LEMMA MbRolesStep ==
  ASSUME MbInv, [MbNext]_mbAllVars
  PROVE  RolesKept' /\ RingAligned'
<1> USE DEF At, Goto, EnterCall, LeaveCall
<1>0. /\ ThreadTypes /\ MbTypeOK /\ RolesKept /\ RingAligned
      /\ mail \in [Threads -> Mail \cup {NoMail}]
      /\ stat \in [Threads -> {"READY", "SUSPEND"}]
      /\ Size \in Nat
  BY MbInvTypes DEF MbInv, MbTypeOK, ThreadTypes
<1>1. ASSUME UNCHANGED mbVars
      PROVE  RingAligned'
  BY <1>0, <1>1 DEF RingAligned, mbVars, ringVars, Slot
<1>2. ASSUME UNCHANGED ringVars
      PROVE  RingAligned'
  BY <1>0, <1>2 DEF RingAligned, ringVars, Slot
<1>3. ASSUME NEW t \in Threads, MbQuiet(t)
      PROVE  RolesKept' /\ RingAligned'
  <2>1. UNCHANGED mbVars
    BY <1>3, MbQuietMeans
  <2>2. ASSUME NEW next \in {"idle", "send", "send_wait", "recv", "recv_wait"},
               pc' = [pc EXCEPT ![t] = next],
               \A u \in Threads \ {t} : mail'[u] = mail[u],
               next \in {"send", "send_wait"} => t \in Senders /\ mail'[t] \in Mail,
               next \in {"recv", "recv_wait"} => t \in Receivers
        PROVE  RolesKept'
    <3> SUFFICES ASSUME NEW u \in Threads
                 PROVE  /\ pc'[u] \in {"send", "send_wait"} => u \in Senders /\ mail'[u] \in Mail
                        /\ pc'[u] \in {"recv", "recv_wait"} => u \in Receivers
      BY DEF RolesKept
    <3>1. pc'[u] = IF u = t THEN next ELSE pc[u]
      BY <1>0, <2>2 DEF ThreadTypes
    <3> QED
      BY <1>0, <2>2, <3>1 DEF RolesKept
  <2>3. ASSUME NEW word \in Mail, NEW time \in Timeouts, t \in Senders, CallSend(t, word, time)
        PROVE  RolesKept'
    <3>1. pc' = [pc EXCEPT ![t] = "send"] /\ mail' = [mail EXCEPT ![t] = word]
      BY <2>3 DEF CallSend
    <3>2. mail'[t] = word /\ \A u \in Threads \ {t} : mail'[u] = mail[u]
      BY <1>0, <3>1
    <3> QED
      BY <2>2, <2>3, <3>1, <3>2
  <2>4. ASSUME NEW time \in Timeouts, t \in Receivers, CallRecv(t, time)
        PROVE  RolesKept'
    <3>1. pc' = [pc EXCEPT ![t] = "recv"] /\ \A u \in Threads \ {t} : mail'[u] = mail[u]
      BY <1>0, <2>4 DEF CallRecv
    <3> QED
      BY <2>2, <2>4, <3>1
  <2>5. ASSUME SendFullNoWait(t, "idle") \/ RecvEmptyNoWait(t, "idle")
        PROVE  RolesKept'
    <3>1. pc' = [pc EXCEPT ![t] = "idle"] /\ \A u \in Threads \ {t} : mail'[u] = mail[u]
      BY <2>5 DEF SendFullNoWait, RecvEmptyNoWait
    <3> QED
      BY <2>2, <3>1
  <2>6. ASSUME SendWoken(t, "idle")
        PROVE  RolesKept'
    <3>1. /\ pc' = [pc EXCEPT ![t] = "idle"] \/ pc' = [pc EXCEPT ![t] = "send"]
          /\ pc[t] = "send_wait" /\ \A u \in Threads : mail'[u] = mail[u]
      BY <2>6 DEF SendWoken, WokenGivesUp, WokenRetries
    <3>2. t \in Senders /\ mail'[t] \in Mail
      BY <1>0, <3>1 DEF RolesKept
    <3>3. CASE pc' = [pc EXCEPT ![t] = "idle"]
      BY <2>2, <3>1, <3>3
    <3>4. CASE pc' = [pc EXCEPT ![t] = "send"]
      BY <2>2, <3>1, <3>2, <3>4
    <3> QED
      BY <3>1, <3>3, <3>4
  <2>7. ASSUME RecvWoken(t, "idle")
        PROVE  RolesKept'
    <3>1. /\ pc' = [pc EXCEPT ![t] = "idle"] \/ pc' = [pc EXCEPT ![t] = "recv"]
          /\ pc[t] = "recv_wait" /\ \A u \in Threads : mail'[u] = mail[u]
      BY <2>7 DEF RecvWoken, WokenGivesUp, WokenRetries
    <3>2. t \in Receivers
      BY <1>0, <3>1 DEF RolesKept
    <3>3. CASE pc' = [pc EXCEPT ![t] = "idle"]
      BY <2>2, <3>1, <3>3
    <3>4. CASE pc' = [pc EXCEPT ![t] = "recv"]
      BY <2>2, <3>1, <3>2, <3>4
    <3> QED
      BY <3>1, <3>3, <3>4
  <2> QED
    BY <1>1, <1>3, <2>1, <2>3, <2>4, <2>5, <2>6, <2>7 DEF MbQuiet
<1>4. ASSUME NEW t \in Threads, SendFullSuspend(t) \/ RecvEmptySuspend(t)
      PROVE  RolesKept' /\ RingAligned'
  BY <1>0, <1>2, <1>4 DEF RolesKept, SendFullSuspend, RecvEmptySuspend, Suspend, ThreadTypes
<1>5. ASSUME NEW t \in Threads, SendPut(t, "idle")
      PROVE  RolesKept' /\ RingAligned'
  <2>1. RolesKept'
    BY <1>0, <1>5 DEF RolesKept, SendPut, ThreadTypes
  <2>2. mail[t] \in Mail
    BY <1>0, <1>5 DEF RolesKept, SendPut
  <2>3. /\ entry \in 0..(Size - 1) /\ entry' = entry + 1
        /\ \A k \in 0..Size : Slot(k)' = Slot(k)
        /\ (in_offset = Slot(entry))'
        /\ msg_pool'[Slot(entry)] = mail[t]
        /\ \A k \in 0..(entry - 1) : msg_pool'[Slot(k)] = msg_pool[Slot(k)]
    BY <1>0, <1>5, PutInRing DEF RingAligned
  <2>4. \A k \in 0..(entry' - 1) : k \in 0..Size /\ (k = entry \/ k \in 0..(entry - 1))
    BY <1>0, <2>3
  <2>5. (\A k \in 0..(entry - 1) : msg_pool[Slot(k)] \in Mail)'
    BY <1>0, <2>2, <2>3, <2>4 DEF RingAligned
  <2> QED
    BY <2>1, <2>3, <2>5 DEF RingAligned
<1>6. ASSUME NEW t \in Threads, RecvTake(t, "idle")
      PROVE  RolesKept' /\ RingAligned'
  <2>1. RolesKept'
    BY <1>0, <1>6 DEF RolesKept, RecvTake, ThreadTypes
  <2>2. /\ entry \in 1..Size /\ entry' = entry - 1
        /\ \A k \in 0..(Size - 1) : Slot(k)' = Slot(k + 1)
        /\ (in_offset = Slot(entry))'
        /\ msg_pool' = msg_pool
    BY <1>0, <1>6, TakeFromRing DEF RingAligned
  <2>3. \A k \in 0..(entry' - 1) : k \in 0..(Size - 1) /\ k + 1 \in 0..(entry - 1)
    BY <1>0, <2>2
  <2>4. (\A k \in 0..(entry - 1) : msg_pool[Slot(k)] \in Mail)'
    BY <1>0, <2>2, <2>3 DEF RingAligned
  <2> QED
    BY <2>1, <2>2, <2>4 DEF RingAligned
<1>7. ASSUME NEW t \in Threads, MbTimeout(t)
      PROVE  RolesKept' /\ RingAligned'
  BY <1>0, <1>2, <1>7 DEF RolesKept, MbTimeout, TimedOut, MbLeaveLists
<1>8. CASE UNCHANGED mbAllVars
  BY <1>0, <1>1, <1>8 DEF RolesKept, mbAllVars, threadVars
<1> QED
  BY <1>3, <1>4, <1>5, <1>6, <1>7, <1>8, MbStepKinds

LEMMA MbInvStep == MbInv /\ [MbNext]_mbAllVars => MbInv'
<1> SUFFICES ASSUME MbInv, [MbNext]_mbAllVars PROVE MbInv'
  OBVIOUS
<1> QED
  BY MbTypeStep, MbListsStep, MbRolesStep DEF MbInv

LEMMA MbInvariance == MbSpec => []MbInv
BY MbInvInit, MbInvStep, PTL DEF MbSpec

(* The offsets never leave the ring, its count never passes its size.      *)
THEOREM MbTypeCorrect == MbSpec => []MbTypeOK
<1>1. MbInv => MbTypeOK
  BY DEF MbInv
<1> QED
  BY <1>1, MbInvariance, PTL

(* Whatever the order of wake-ups and timeouts, a thread of rt_mb_recv or  *)
(* rt_mb_send_wait is suspended exactly when it is, once, on its list.     *)
THEOREM MbListsCorrect == MbSpec => []MbListsExact
<1>1. MbInv => MbListsExact
  BY DEF MbInv
<1> QED
  BY <1>1, MbInvariance, PTL

-------------------------------------------------------------------------------
(***************************************************************************)
(* No wake-up is lost.  Put and take each resume one thread for the one    *)
(* word, or the one place, they give; what has to be shown is that nothing *)
(* else takes away a thread that looks without taking what it looks for.   *)
(***************************************************************************)
LookingToRecv == Looking("recv", "recv_wait")
LookingToSend == Looking("send", "send_wait")

(* The hypotheses of the lemmas below, which both inductive invariants     *)
(* give: that of the mailbox and that of the queue built on it.            *)
WakeupsSetting ==
  /\ ThreadTypes /\ MbOnLists /\ SleepsWithoutError
  /\ Size \in Nat /\ entry \in 0..Size
  /\ NoLostWakeup

LEMMA LookersFinite ==
  ASSUME IsFiniteSet(Threads)
  PROVE  /\ IsFiniteSet(LookingToRecv) /\ IsFiniteSet(LookingToRecv')
         /\ IsFiniteSet(LookingToSend) /\ IsFiniteSet(LookingToSend')
         /\ Cardinality(LookingToRecv) \in Nat /\ Cardinality(LookingToRecv') \in Nat
         /\ Cardinality(LookingToSend) \in Nat /\ Cardinality(LookingToSend') \in Nat
BY LookingFinite DEF LookingToRecv, LookingToSend

(* Nobody stops looking, and there is no more to look for.                 *)
LEMMA LookersKept ==
  ASSUME IsFiniteSet(Threads), WakeupsSetting,
         LookingToRecv \subseteq LookingToRecv', LookingToSend \subseteq LookingToSend',
         entry' = entry,
         mb_suspend_thread' # << >> => mb_suspend_thread # << >>,
         mb_suspend_sender' # << >> => mb_suspend_sender # << >>
  PROVE  NoLostWakeup'
<1>1. /\ Cardinality(LookingToRecv) <= Cardinality(LookingToRecv')
      /\ Cardinality(LookingToSend) <= Cardinality(LookingToSend')
  BY LookersFinite, CardKept
<1> QED
  BY <1>1, LookersFinite DEF NoLostWakeup, LookingToRecv, LookingToSend, WakeupsSetting

(* A step of a thread that does not look at the ring, and leaves it alone. *)
LEMMA ElsewhereKeepsWakeups ==
  ASSUME IsFiniteSet(Threads), WakeupsSetting, NEW t \in Threads, OthersUndisturbed(t),
         pc[t] \notin {"recv", "recv_wait", "send", "send_wait"} \/ stat[t] = "SUSPEND",
         entry' = entry,
         mb_suspend_thread' # << >> => mb_suspend_thread # << >>,
         mb_suspend_sender' # << >> => mb_suspend_sender # << >>
  PROVE  NoLostWakeup'
<1>1. t \notin LookingToRecv /\ t \notin LookingToSend
  BY DEF LookingToRecv, LookingToSend, Looking, At
<1>2. LookingToRecv \subseteq LookingToRecv' /\ LookingToSend \subseteq LookingToSend'
  BY <1>1, OthersKeepLooking DEF LookingToRecv, LookingToSend
<1> QED
  BY <1>2, LookersKept

(* The mailbox's calls: suspensions, puts and takes.                       *)
LEMMA MbRingWakeups ==
  ASSUME IsFiniteSet(Threads), WakeupsSetting, NEW t \in Threads, NEW okPc,
         \/ SendFullSuspend(t) \/ RecvEmptySuspend(t)
         \/ SendPut(t, okPc) \/ RecvTake(t, okPc)
  PROVE  NoLostWakeup'
<1> USE DEF At, Goto, EnterCall, LeaveCall
<1>0. /\ ThreadTypes /\ MbOnLists /\ SleepsWithoutError
      /\ Size \in Nat /\ entry \in 0..Size
      /\ mb_suspend_thread \in Seq(Threads) /\ mb_suspend_sender \in Seq(Threads)
  BY DEF WakeupsSetting, MbOnLists
<1>00. /\ IsFiniteSet(LookingToRecv) /\ IsFiniteSet(LookingToRecv')
       /\ IsFiniteSet(LookingToSend) /\ IsFiniteSet(LookingToSend')
       /\ Cardinality(LookingToRecv) \in Nat /\ Cardinality(LookingToRecv') \in Nat
       /\ Cardinality(LookingToSend) \in Nat /\ Cardinality(LookingToSend') \in Nat
  BY LookersFinite
<1>01. /\ mb_suspend_thread # << >> => entry <= Cardinality(LookingToRecv)
       /\ mb_suspend_sender # << >> => Size - entry <= Cardinality(LookingToSend)
  BY DEF NoLostWakeup, LookingToRecv, LookingToSend, WakeupsSetting
<1> SUFFICES /\ mb_suspend_thread' # << >> => entry' <= Cardinality(LookingToRecv')
             /\ mb_suspend_sender' # << >> => Size - entry' <= Cardinality(LookingToSend')
  BY DEF NoLostWakeup, LookingToRecv, LookingToSend
<1>2. CASE SendFullSuspend(t)
  <2>1. /\ entry = Size /\ entry' = entry /\ mb_suspend_thread' = mb_suspend_thread
        /\ t \notin LookingToRecv
    BY <1>2 DEF SendFullSuspend, ringVars, LookingToRecv, Looking
  <2>2. LookingToRecv \subseteq LookingToRecv'
    BY <1>0, <1>2, <2>1
       DEF SendFullSuspend, Suspend, LookingToRecv, Looking, ThreadTypes
  <2> QED
    BY <1>0, <1>00, <1>01, <2>1, <2>2, CardKept
<1>3. CASE RecvEmptySuspend(t)
  <2>1. /\ entry = 0 /\ entry' = entry /\ mb_suspend_sender' = mb_suspend_sender
        /\ t \notin LookingToSend
    BY <1>3 DEF RecvEmptySuspend, ringVars, LookingToSend, Looking
  <2>2. LookingToSend \subseteq LookingToSend'
    BY <1>0, <1>3, <2>1
       DEF RecvEmptySuspend, Suspend, LookingToSend, Looking, ThreadTypes
  <2> QED
    BY <1>0, <1>00, <1>01, <2>1, <2>2, CardKept
<1>4. CASE SendPut(t, okPc)
  <2>1. /\ pc[t] = "send" /\ stat[t] = "READY" /\ pc' = [pc EXCEPT ![t] = okPc]
        /\ UNCHANGED error /\ entry' = entry + 1
        /\ ResumeFirst(mb_suspend_thread) /\ mb_suspend_thread' = Rest(mb_suspend_thread)
        /\ mb_suspend_sender' = mb_suspend_sender
    BY <1>4 DEF SendPut
  <2>2. OthersUndisturbed(t)
    BY <1>0, <2>1, ResumeDisturbsNobody
  <2>3. /\ LookingToRecv \ {t} \subseteq LookingToRecv'
        /\ LookingToSend \ {t} \subseteq LookingToSend'
    BY <2>2, OthersKeepLooking DEF LookingToRecv, LookingToSend
  <2>4. t \notin LookingToRecv
    BY <2>1 DEF LookingToRecv, Looking
  <2>5. ASSUME mb_suspend_thread' # << >>
        PROVE  entry' <= Cardinality(LookingToRecv')
    <3>1. mb_suspend_thread # << >>
      BY <2>1, <2>5 DEF Rest
    <3>2. /\ Head(mb_suspend_thread) \in LookingToRecv'
          /\ Head(mb_suspend_thread) \notin LookingToRecv
      BY <1>0, <2>1, <2>2, <3>1, MbOnListsMeans, ResumedLooks DEF LookingToRecv
    <3>3. Cardinality(LookingToRecv) + 1 <= Cardinality(LookingToRecv')
      BY <1>00, <2>3, <2>4, <3>2, CardGains
    <3> QED
      BY <1>0, <1>00, <1>01, <2>1, <3>1, <3>3
  <2>6. ASSUME mb_suspend_sender' # << >>
        PROVE  Size - entry' <= Cardinality(LookingToSend')
    <3>1. Cardinality(LookingToSend) - 1 <= Cardinality(LookingToSend')
      BY <1>00, <2>3, CardLoses
    <3> QED
      BY <1>0, <1>00, <1>01, <2>1, <2>6, <3>1
  <2> QED
    BY <2>5, <2>6
<1>5. CASE RecvTake(t, okPc)
  <2>1. /\ pc[t] = "recv" /\ stat[t] = "READY" /\ pc' = [pc EXCEPT ![t] = okPc]
        /\ UNCHANGED error /\ entry' = entry - 1
        /\ ResumeFirst(mb_suspend_sender) /\ mb_suspend_sender' = Rest(mb_suspend_sender)
        /\ mb_suspend_thread' = mb_suspend_thread
    BY <1>5 DEF RecvTake
  <2>2. OthersUndisturbed(t)
    BY <1>0, <2>1, ResumeDisturbsNobody
  <2>3. /\ LookingToRecv \ {t} \subseteq LookingToRecv'
        /\ LookingToSend \ {t} \subseteq LookingToSend'
    BY <2>2, OthersKeepLooking DEF LookingToRecv, LookingToSend
  <2>4. t \notin LookingToSend
    BY <2>1 DEF LookingToSend, Looking
  <2>5. ASSUME mb_suspend_sender' # << >>
        PROVE  Size - entry' <= Cardinality(LookingToSend')
    <3>1. mb_suspend_sender # << >>
      BY <2>1, <2>5 DEF Rest
    <3>2. /\ Head(mb_suspend_sender) \in LookingToSend'
          /\ Head(mb_suspend_sender) \notin LookingToSend
      BY <1>0, <2>1, <2>2, <3>1, MbOnListsMeans, ResumedLooks DEF LookingToSend
    <3>3. Cardinality(LookingToSend) + 1 <= Cardinality(LookingToSend')
      BY <1>00, <2>3, <2>4, <3>2, CardGains
    <3> QED
      BY <1>0, <1>00, <1>01, <2>1, <3>1, <3>3
  <2>6. ASSUME mb_suspend_thread' # << >>
        PROVE  entry' <= Cardinality(LookingToRecv')
    <3>1. Cardinality(LookingToRecv) - 1 <= Cardinality(LookingToRecv')
      BY <1>00, <2>3, CardLoses
    <3> QED
      BY <1>0, <1>00, <1>01, <2>1, <2>6, <3>1
  <2> QED
    BY <2>5, <2>6
<1> QED
  BY <1>2, <1>3, <1>4, <1>5

(* The mailbox's calls: a call that fails at once, or goes on once woken.  *)
LEMMA MbFailingWakeups ==
  ASSUME IsFiniteSet(Threads), WakeupsSetting, NEW t \in Threads, NEW failPc,
         \/ SendFullNoWait(t, failPc) \/ SendWoken(t, failPc)
         \/ RecvEmptyNoWait(t, failPc) \/ RecvWoken(t, failPc)
  PROVE  NoLostWakeup'
<1> USE DEF At, Goto, EnterCall, LeaveCall
<1>0. ThreadTypes /\ Size \in Nat /\ entry \in 0..Size
  BY DEF WakeupsSetting
<1>01. /\ mb_suspend_thread # << >> => entry <= Cardinality(LookingToRecv)
       /\ mb_suspend_sender # << >> => Size - entry <= Cardinality(LookingToSend)
  BY DEF NoLostWakeup, LookingToRecv, LookingToSend, WakeupsSetting
<1>1. UNCHANGED <<stat, entry, mb_suspend_thread, mb_suspend_sender>>
  BY DEF SendFullNoWait, SendWoken, RecvEmptyNoWait, RecvWoken, WokenGivesUp, WokenRetries,
         mbVars, ringVars
<1>2. OthersUndisturbed(t)
  BY <1>0 DEF OthersUndisturbed, ThreadTypes, SendFullNoWait, SendWoken, RecvEmptyNoWait,
              RecvWoken, WokenGivesUp, WokenRetries
<1>3. /\ LookingToRecv \ {t} \subseteq LookingToRecv'
      /\ LookingToSend \ {t} \subseteq LookingToSend'
  BY <1>2, OthersKeepLooking DEF LookingToRecv, LookingToSend
<1>4. CASE SendFullNoWait(t, failPc)
  <2>1. t \notin LookingToRecv /\ entry = Size
    BY <1>4 DEF LookingToRecv, Looking, SendFullNoWait
  <2>2. Cardinality(LookingToRecv) <= Cardinality(LookingToRecv')
    BY <1>3, <2>1, LookersFinite, CardKept
  <2>3. Size - entry' <= Cardinality(LookingToSend')
    BY <1>0, <1>1, <2>1, LookersFinite
  <2> QED
    BY <1>0, <1>01, <1>1, <2>2, <2>3, LookersFinite DEF NoLostWakeup, LookingToRecv, LookingToSend
<1>5. CASE RecvEmptyNoWait(t, failPc)
  <2>1. t \notin LookingToSend /\ entry = 0
    BY <1>5 DEF LookingToSend, Looking, RecvEmptyNoWait
  <2>2. Cardinality(LookingToSend) <= Cardinality(LookingToSend')
    BY <1>3, <2>1, LookersFinite, CardKept
  <2>3. entry' <= Cardinality(LookingToRecv')
    BY <1>0, <1>1, <2>1, LookersFinite
  <2> QED
    BY <1>0, <1>01, <1>1, <2>2, <2>3, LookersFinite DEF NoLostWakeup, LookingToRecv, LookingToSend
<1>6. CASE SendWoken(t, failPc)
  <2>1. t \notin LookingToRecv
    BY <1>6 DEF LookingToRecv, Looking, SendWoken, WokenGivesUp, WokenRetries
  <2>2. t \notin LookingToSend \/ t \in LookingToSend'
    BY <1>0, <1>6
       DEF LookingToSend, Looking, SendWoken, WokenGivesUp, WokenRetries, ThreadTypes
  <2> QED
    BY <1>1, <1>3, <2>1, <2>2, LookersKept
<1>7. CASE RecvWoken(t, failPc)
  <2>1. t \notin LookingToSend
    BY <1>7 DEF LookingToSend, Looking, RecvWoken, WokenGivesUp, WokenRetries
  <2>2. t \notin LookingToRecv \/ t \in LookingToRecv'
    BY <1>0, <1>7
       DEF LookingToRecv, Looking, RecvWoken, WokenGivesUp, WokenRetries, ThreadTypes
  <2> QED
    BY <1>1, <1>3, <2>1, <2>2, LookersKept
<1> QED
  BY <1>4, <1>5, <1>6, <1>7

LEMMA MbTimeoutWakeups ==
  ASSUME IsFiniteSet(Threads), WakeupsSetting, NEW t \in Threads, TimedOut(t), MbLeaveLists(t)
  PROVE  NoLostWakeup'
<1>1. stat[t] = "SUSPEND" /\ OthersUndisturbed(t)
  BY DEF TimedOut, OthersUndisturbed, ThreadTypes, WakeupsSetting
<1>2. /\ entry' = entry
      /\ mb_suspend_thread' = Without(mb_suspend_thread, t)
      /\ mb_suspend_sender' = Without(mb_suspend_sender, t)
  BY DEF MbLeaveLists, ringVars
<1>3. /\ mb_suspend_thread = << >> => mb_suspend_thread' = << >>
      /\ mb_suspend_sender = << >> => mb_suspend_sender' = << >>
  BY <1>2, MbOnListsMeans, WithoutRange DEF WakeupsSetting
<1> QED
  BY <1>1, <1>2, <1>3, ElsewhereKeepsWakeups

LEMMA MbWakeupsStep ==
  ASSUME IsFiniteSet(Threads), MbInv, NoLostWakeup, [MbNext]_mbAllVars
  PROVE  NoLostWakeup'
<1>0. WakeupsSetting /\ ThreadTypes
  BY MbInvTypes DEF MbInv, WakeupsSetting
<1>1. ASSUME NEW t \in Threads, \/ \E word \in Mail, time \in Timeouts : CallSend(t, word, time)
                                \/ \E time \in Timeouts : CallRecv(t, time)
      PROVE  NoLostWakeup'
  <2>1. /\ pc[t] = "idle" /\ OthersUndisturbed(t)
        /\ UNCHANGED <<entry, mb_suspend_thread, mb_suspend_sender>>
    BY <1>0, <1>1 DEF CallSend, CallRecv, At, EnterCall, Goto, OthersUndisturbed, ThreadTypes,
                      mbVars, ringVars
  <2> QED
    BY <1>0, <2>1, ElsewhereKeepsWakeups
<1>2. CASE UNCHANGED mbAllVars
  <2>1. LookingToRecv' = LookingToRecv /\ LookingToSend' = LookingToSend
    BY <1>2 DEF LookingToRecv, LookingToSend, Looking, At, mbAllVars, threadVars
  <2> QED
    BY <1>0, <1>2, <2>1, LookersKept DEF mbAllVars, mbVars, ringVars
<1> QED
  BY <1>0, <1>1, <1>2, MbRingWakeups, MbFailingWakeups, MbTimeoutWakeups, MbStepKinds
     DEF MbQuiet, MbTimeout

(* While a receiver sleeps, every word in the ring has a receiver on its   *)
(* way; while a sender sleeps, every free place has a sender on its way.   *)
THEOREM MbWakeups ==
  ASSUME IsFiniteSet(Threads)
  PROVE  MbSpec => []NoLostWakeup
<1>1. MbClientInit => NoLostWakeup
  BY DEF MbClientInit, MbInit, NoLostWakeup
<1>2. MbInv /\ NoLostWakeup /\ [MbNext]_mbAllVars => NoLostWakeup'
  BY MbWakeupsStep
<1> QED
  BY <1>1, <1>2, MbInvariance, PTL DEF MbSpec
-------------------------------------------------------------------------------
(***************************************************************************)
(* The ring implements the bounded queue.  The lemmas are about the words  *)
(* that wait; they are used for the queue of RtosQueue as well.            *)
(***************************************************************************)

LEMMA WaitingType ==
  ASSUME MbTypeOK, NEW S, \A k \in 0..(entry - 1) : msg_pool[Slot(k)] \in S
  PROVE  Waiting \in [1..entry -> S] /\ entry \in Nat
<1>1. entry \in Nat
  BY SizeAssumption DEF MbTypeOK
<1>2. \A k \in 1..entry : k - 1 \in 0..(entry - 1)
  BY <1>1
<1> QED
  BY <1>1, <1>2 DEF Waiting

LEMMA WaitingWords == MbInv => Waiting \in [1..entry -> Mail]
BY WaitingType DEF MbInv, RingAligned

LEMMA WaitingSame ==
  ASSUME UNCHANGED ringVars
  PROVE  Waiting' = Waiting
BY DEF Waiting, Slot, ringVars

LEMMA WaitingPut ==
  ASSUME MbTypeOK, in_offset = Slot(entry), NEW t \in Threads, NEW okPc, SendPut(t, okPc)
  PROVE  /\ \A k \in 1..entry : Waiting'[k] = Waiting[k]
         /\ Waiting'[entry + 1] = mail[t]
<1>1. /\ Size \in Nat /\ entry \in 0..(Size - 1) /\ entry' = entry + 1
      /\ \A k \in 0..Size : Slot(k)' = Slot(k)
      /\ msg_pool'[Slot(entry)] = mail[t]
      /\ \A k \in 0..(entry - 1) : msg_pool'[Slot(k)] = msg_pool[Slot(k)]
  BY PutInRing, SizeAssumption
<1>2. Waiting' = [k \in 1..(entry + 1) |-> msg_pool'[Slot(k - 1)']]
  BY <1>1 DEF Waiting
<1>3. \A k \in 1..(entry + 1) : k - 1 \in 0..Size /\ (k - 1 \in 0..(entry - 1) \/ k = entry + 1)
  BY <1>1
<1>4. \A k \in 1..(entry + 1) : Waiting'[k] = msg_pool'[Slot(k - 1)]
  BY <1>1, <1>2, <1>3
<1>5. \A k \in 1..entry : k \in 1..(entry + 1) /\ k - 1 \in 0..(entry - 1)
  BY <1>1
<1>6. \A k \in 1..entry : Waiting'[k] = msg_pool[Slot(k - 1)]
  BY <1>1, <1>4, <1>5
<1>7. entry + 1 \in 1..(entry + 1) /\ (entry + 1) - 1 = entry
  BY <1>1
<1> QED
  BY <1>1, <1>4, <1>6, <1>7 DEF Waiting

LEMMA WaitingTake ==
  ASSUME MbTypeOK, in_offset = Slot(entry), NEW t \in Threads, NEW okPc, RecvTake(t, okPc)
  PROVE  /\ entry \in 1..Size
         /\ \A k \in 1..(entry - 1) : Waiting'[k] = Waiting[k + 1]
         /\ Waiting[1] = mail'[t]
<1>1. /\ Size \in Nat /\ entry \in 1..Size /\ entry' = entry - 1
      /\ \A k \in 0..(Size - 1) : Slot(k)' = Slot(k + 1)
      /\ mail' = [mail EXCEPT ![t] = msg_pool[Slot(0)]]
      /\ msg_pool' = msg_pool
  BY TakeFromRing, SizeAssumption
<1>2. Waiting' = [k \in 1..(entry - 1) |-> msg_pool[Slot(k - 1)']]
  BY <1>1 DEF Waiting
<1>3. \A k \in 1..(entry - 1) :
        k - 1 \in 0..(Size - 1) /\ (k - 1) + 1 = k /\ k + 1 \in 1..entry /\ (k + 1) - 1 = k
  BY <1>1
<1>4. \A k \in 1..(entry - 1) : Waiting'[k] = msg_pool[Slot(k)]
  BY <1>1, <1>2, <1>3
<1>5. \A k \in 1..(entry - 1) : Waiting[k + 1] = msg_pool[Slot(k)]
  BY <1>1, <1>3 DEF Waiting
<1>6. Waiting[1] = msg_pool[Slot(0)]
  <2>1. 1 \in 1..entry /\ 1 - 1 = 0
    BY <1>1
  <2> QED
    BY <2>1 DEF Waiting
<1>7. mail'[t] = msg_pool[Slot(0)]
  BY <1>1 DEF MbTypeOK
<1> QED
  BY <1>1, <1>4, <1>5, <1>6, <1>7

(* The abstract variables that are functions of the threads.               *)
Wanted == [t \in Senders |-> IF pc[t] \in {"send", "send_wait"} THEN mail[t] ELSE NoMail]
Given == [t \in Receivers |-> mail[t]]

LEMMA MbAbstractInit == MbClientInit => MbAbstract!Init
<1> SUFFICES ASSUME MbClientInit PROVE MbAbstract!Init
  OBVIOUS
<1> USE DEF MbClientInit, ThreadInit, MbInit
<1>1. Waiting = << >>
  <2>1. entry = 0 /\ 1..0 = {}
    OBVIOUS
  <2>2. Waiting = [k \in {} |-> msg_pool[Slot(k - 1)]]
    BY <2>1 DEF Waiting
  <2> QED
    BY <2>2
<1>2. \A t \in Threads : pc[t] = "idle" /\ mail[t] = NoMail
  OBVIOUS
<1>3. Wanted = [t \in Senders |-> NoMail] /\ Given = [t \in Receivers |-> NoMail]
  BY <1>2, RoleAssumption DEF Wanted, Given
<1> QED
  BY <1>1, <1>3 DEF MbAbstract!Init, Wanted, Given

(* What a step of thread t in the role of a sender does to what is wanted. *)
LEMMA WantedChange ==
  ASSUME ThreadTypes, mail \in [Threads -> Mail \cup {NoMail}], NEW t \in Senders,
         NEW next, NEW word, pc' = [pc EXCEPT ![t] = next], mail' = [mail EXCEPT ![t] = word]
  PROVE  Wanted' = [Wanted EXCEPT ![t] =
                      IF next \in {"send", "send_wait"} THEN word ELSE NoMail]
<1>1. \A u \in Senders : /\ pc'[u] = IF u = t THEN next ELSE pc[u]
                         /\ mail'[u] = IF u = t THEN word ELSE mail[u]
  BY RoleAssumption DEF ThreadTypes
<1> QED
  BY <1>1 DEF Wanted

LEMMA WantedSame ==
  ASSUME ThreadTypes, mail \in [Threads -> Mail \cup {NoMail}], NEW t \in Receivers, t \notin Senders,
         NEW next, NEW word, pc' = [pc EXCEPT ![t] = next], mail' = [mail EXCEPT ![t] = word]
  PROVE  Wanted' = Wanted
<1>1. \A u \in Senders : pc'[u] = pc[u] /\ mail'[u] = mail[u]
  BY RoleAssumption DEF ThreadTypes
<1> QED
  BY <1>1 DEF Wanted

(* Every step of the mailbox is a step of the bounded queue, or none.      *)
LEMMA MbAbstractStep ==
  ASSUME Senders \cap Receivers = {}, MbInv, [MbNext]_mbAllVars
  PROVE  [MbAbstract!Next]_(MbAbstract!vars)
<1> USE DEF At, Goto, EnterCall, LeaveCall
<1>0. /\ ThreadTypes /\ MbTypeOK /\ RolesKept /\ MbListsExact
      /\ in_offset = Slot(entry)
      /\ mail \in [Threads -> Mail \cup {NoMail}] /\ NoMail \notin Mail
      /\ Size \in Nat /\ entry \in 0..Size
      /\ Senders \subseteq Threads /\ Receivers \subseteq Threads
  BY MbInvTypes, NoMailAssumption, RoleAssumption DEF MbInv, MbTypeOK, RingAligned
<1>1. Waiting \in [1..entry -> Mail] /\ entry \in Nat
  BY <1>0, WaitingType DEF MbInv, RingAligned
<1>2. Waiting \in Seq(Mail) /\ Len(Waiting) = entry
  BY <1>1, SeqDef
<1> DEFINE Req(t, m) == /\ Wanted[t] = NoMail /\ Wanted' = [Wanted EXCEPT ![t] = m]
                        /\ UNCHANGED <<Waiting, Given>>
           PutS(t) == /\ Wanted[t] # NoMail /\ Len(Waiting) < Size
                      /\ Waiting' = Append(Waiting, Wanted[t])
                      /\ Wanted' = [Wanted EXCEPT ![t] = NoMail] /\ UNCHANGED Given
           Wdraw(t) == /\ Wanted[t] # NoMail /\ Wanted' = [Wanted EXCEPT ![t] = NoMail]
                       /\ UNCHANGED <<Waiting, Given>>
           GetS(t) == /\ Waiting # << >> /\ Given' = [Given EXCEPT ![t] = Head(Waiting)]
                      /\ Waiting' = Tail(Waiting) /\ UNCHANGED Wanted
           Fgt(t) == Given' = [Given EXCEPT ![t] = NoMail] /\ UNCHANGED <<Waiting, Wanted>>
           Step == \/ \E t \in Senders, m \in Mail : Req(t, m)
                   \/ \E t \in Senders : PutS(t) \/ Wdraw(t)
                   \/ \E t \in Receivers : GetS(t) \/ Fgt(t)
                   \/ UNCHANGED <<Waiting, Wanted, Given>>
<1>3. SUFFICES Step
  BY DEF MbAbstract!Next, MbAbstract!vars, MbAbstract!Request, MbAbstract!Put,
         MbAbstract!Withdraw, MbAbstract!Get, MbAbstract!Forget, Wanted, Given
<1>4. \A t \in Senders : \A word : mail' = [mail EXCEPT ![t] = word] => Given' = Given
  BY <1>0 DEF Given
<1>5. UNCHANGED ringVars => Waiting' = Waiting
  BY WaitingSame
<1>6. UNCHANGED mail => Given' = Given
  BY DEF Given
<1>7. \A t \in Threads : mail' = mail => mail' = [mail EXCEPT ![t] = mail[t]]
  BY <1>0
<1>8. ASSUME NEW t \in Senders, NEW word \in Mail, NEW time \in Timeouts, CallSend(t, word, time)
      PROVE  Step
  <2>1. /\ pc[t] = "idle" /\ pc' = [pc EXCEPT ![t] = "send"]
        /\ mail' = [mail EXCEPT ![t] = word] /\ UNCHANGED ringVars
    BY <1>8 DEF CallSend, mbVars
  <2>2. Wanted' = [Wanted EXCEPT ![t] = word]
    BY <1>0, <2>1, WantedChange
  <2>3. Wanted[t] = NoMail
    BY <2>1 DEF Wanted
  <2>4. Req(t, word)
    BY <1>4, <1>5, <2>1, <2>2, <2>3
  <2> QED
    BY <2>4
<1>9. ASSUME NEW t \in Receivers, NEW time \in Timeouts, CallRecv(t, time)
      PROVE  Step
  <2>1. /\ pc' = [pc EXCEPT ![t] = "recv"] /\ mail' = [mail EXCEPT ![t] = NoMail]
        /\ UNCHANGED ringVars
    BY <1>9 DEF CallRecv, mbVars
  <2>2. Wanted' = Wanted
    BY <1>0, <2>1, WantedSame
  <2>3. Given' = [Given EXCEPT ![t] = NoMail]
    BY <1>0, <2>1 DEF Given
  <2>4. Fgt(t)
    BY <1>5, <2>1, <2>2, <2>3
  <2> QED
    BY <2>4
(* A sender that leaves the call without having put its word.              *)
<1>10. ASSUME NEW t \in Threads, pc[t] \in {"send", "send_wait"}, pc' = [pc EXCEPT ![t] = "idle"],
              UNCHANGED <<ringVars, mail>>
       PROVE  Step
  <2>1. t \in Senders /\ mail[t] \in Mail
    BY <1>0, <1>10 DEF RolesKept
  <2>2. Wanted' = [Wanted EXCEPT ![t] = NoMail]
    <3>1. mail' = [mail EXCEPT ![t] = mail[t]]
      BY <1>7, <1>10
    <3> HIDE DEF Step
    <3>2. ThreadTypes /\ mail \in [Threads -> Mail \cup {NoMail}] /\ t \in Senders
      BY <1>0, <2>1
    <3>3. pc' = [pc EXCEPT ![t] = "idle"]
      BY <1>10
    <3>4. Wanted' = [Wanted EXCEPT ![t] =
                       IF "idle" \in {"send", "send_wait"} THEN mail[t] ELSE NoMail]
      BY <3>1, <3>2, <3>3, WantedChange
    <3> QED
      BY <3>4
  <2>3. Wanted[t] # NoMail
    BY <1>0, <1>10, <2>1 DEF Wanted
  <2>4. Wdraw(t)
    BY <1>5, <1>6, <1>10, <2>2, <2>3
  <2> QED
    BY <2>1, <2>4
(* A step inside a call.                                                   *)
<1>11. ASSUME UNCHANGED <<ringVars, mail>>,
              \A u \in Threads : (pc'[u] \in {"send", "send_wait"}) <=> (pc[u] \in {"send", "send_wait"})
       PROVE  Step
  <2>1. Wanted' = Wanted
    BY <1>0, <1>11 DEF Wanted
  <2> QED
    BY <1>5, <1>6, <1>11, <2>1
<1>12. ASSUME NEW t \in Threads, SendFullNoWait(t, "idle") \/ SendWoken(t, "idle")
       PROVE  Step
  <2>1. CASE SendFullNoWait(t, "idle")
    BY <1>10, <2>1 DEF SendFullNoWait, mbVars
  <2>2. CASE WokenGivesUp(t, "send_wait", "idle") /\ UNCHANGED <<mbVars, mail>>
    BY <1>10, <2>2 DEF WokenGivesUp, mbVars
  <2>3. CASE WokenRetries(t, "send_wait", "send") /\ UNCHANGED <<mbVars, mail>>
    <3>1. pc[t] = "send_wait" /\ pc' = [pc EXCEPT ![t] = "send"]
      BY <2>3 DEF WokenRetries
    <3>2. \A u \in Threads : (pc'[u] \in {"send", "send_wait"}) <=> (pc[u] \in {"send", "send_wait"})
      BY <1>0, <3>1 DEF ThreadTypes
    <3> QED
      BY <1>11, <2>3, <3>2 DEF mbVars
  <2> QED
    BY <1>12, <2>1, <2>2, <2>3 DEF SendWoken
<1>13. ASSUME NEW t \in Threads, RecvEmptyNoWait(t, "idle") \/ RecvWoken(t, "idle") \/ RecvEmptySuspend(t)
       PROVE  Step
  <2>1. /\ pc[t] \in {"recv", "recv_wait"} /\ UNCHANGED <<ringVars, mail>>
        /\ \E next \in {"idle", "recv", "recv_wait"} : pc' = [pc EXCEPT ![t] = next]
    BY <1>13 DEF RecvEmptyNoWait, RecvWoken, WokenGivesUp, WokenRetries, RecvEmptySuspend,
                 Suspend, mbVars
  <2>2. \A u \in Threads : (pc'[u] \in {"send", "send_wait"}) <=> (pc[u] \in {"send", "send_wait"})
    BY <1>0, <2>1 DEF ThreadTypes
  <2> QED
    BY <1>11, <2>1, <2>2
<1>14. ASSUME NEW t \in Threads, SendFullSuspend(t)
       PROVE  Step
  <2>1. /\ pc[t] = "send" /\ UNCHANGED <<ringVars, mail>> /\ pc' = [pc EXCEPT ![t] = "send_wait"]
    BY <1>14 DEF SendFullSuspend, Suspend
  <2>2. \A u \in Threads : (pc'[u] \in {"send", "send_wait"}) <=> (pc[u] \in {"send", "send_wait"})
    BY <1>0, <2>1 DEF ThreadTypes
  <2> QED
    BY <1>11, <2>1, <2>2
<1>15. ASSUME NEW t \in Threads, SendPut(t, "idle")
       PROVE  Step
  <2>1. /\ pc[t] = "send" /\ pc' = [pc EXCEPT ![t] = "idle"] /\ mail' = [mail EXCEPT ![t] = NoMail]
        /\ entry # Size /\ entry' = entry + 1
    BY <1>15 DEF SendPut
  <2>2. t \in Senders /\ mail[t] \in Mail
    BY <1>0, <2>1 DEF RolesKept
  <2>3. Wanted[t] = mail[t] /\ Wanted[t] # NoMail
    BY <1>0, <2>1, <2>2 DEF Wanted
  <2>4. Wanted' = [Wanted EXCEPT ![t] = NoMail]
    BY <1>0, <2>1, <2>2, WantedChange
  <2>5. Given' = Given
    BY <1>4, <2>1, <2>2
  <2>6. Waiting' = Append(Waiting, mail[t])
    <3>1. MbInv'
      BY MbInvStep
    <3>2. Waiting' \in [1..(entry + 1) -> Mail]
      <4>1. (Waiting \in [1..entry -> Mail])'
        BY <3>1, WaitingWords, PTL
      <4> QED
        BY <2>1, <4>1
    <3>3. /\ \A k \in 1..entry : Waiting'[k] = Waiting[k]
          /\ Waiting'[entry + 1] = mail[t]
      BY <1>0, <1>15, WaitingPut
    <3> QED
      BY <1>1, <3>2, <3>3, IsAppend
  <2>7. Len(Waiting) < Size
    BY <1>0, <1>2, <2>1
  <2>8. PutS(t)
    BY <2>3, <2>4, <2>5, <2>6, <2>7
  <2> QED
    BY <2>2, <2>8
<1>16. ASSUME NEW t \in Threads, RecvTake(t, "idle")
       PROVE  Step
  <2>1. /\ pc[t] = "recv" /\ pc' = [pc EXCEPT ![t] = "idle"] /\ entry' = entry - 1
        /\ mail' = [mail EXCEPT ![t] = mail'[t]]
    BY <1>0, <1>16 DEF RecvTake
  <2>2. t \in Receivers /\ t \notin Senders
    BY <1>0, <2>1 DEF RolesKept
  <2>3. Wanted' = Wanted
    BY <1>0, <2>1, <2>2, WantedSame
  <2>4. Given' = [Given EXCEPT ![t] = mail'[t]]
    BY <1>0, <2>1, <2>2 DEF Given
  <2>5. Waiting # << >> /\ Head(Waiting) = mail'[t] /\ Waiting' = Tail(Waiting)
    <3>1. MbInv'
      BY MbInvStep
    <3>2. Waiting' \in [1..(entry - 1) -> Mail]
      <4>1. (Waiting \in [1..entry -> Mail])'
        BY <3>1, WaitingWords, PTL
      <4> QED
        BY <2>1, <4>1
    <3>3. /\ entry \in 1..Size
          /\ \A k \in 1..(entry - 1) : Waiting'[k] = Waiting[k + 1]
          /\ Waiting[1] = mail'[t]
      BY <1>0, <1>16, WaitingTake
    <3>4. entry \in Nat \ {0}
      BY <1>0, <3>3
    <3> QED
      BY <1>1, <3>2, <3>3, <3>4, IsTail
  <2>6. GetS(t)
    BY <2>3, <2>4, <2>5
  <2> QED
    BY <2>2, <2>6
<1>17. ASSUME NEW t \in Threads, MbTimeout(t)
       PROVE  Step
  BY <1>11, <1>17 DEF MbTimeout, TimedOut, MbLeaveLists
<1>18. CASE UNCHANGED mbAllVars
  BY <1>11, <1>18 DEF mbAllVars, threadVars, mbVars
<1> HIDE DEF Step
<1>19. ASSUME NEW t \in Threads, MbQuiet(t)
       PROVE  Step
  BY <1>8, <1>9, <1>12, <1>13, <1>19 DEF MbQuiet
<1> QED
  BY <1>13, <1>14, <1>15, <1>16, <1>17, <1>18, <1>19, MbStepKinds

(* The mailbox implements the bounded queue: each word that is sent is     *)
(* received once, by one receiver, unchanged and in order, across every    *)
(* wrap of the ring; a send that fails leaves no trace.                    *)
THEOREM MbRefines ==
  ASSUME Senders \cap Receivers = {}
  PROVE  MbSpec => MbIsBoundedQueue
<1>1. MbInv /\ [MbNext]_mbAllVars => [MbAbstract!Next]_(MbAbstract!vars)
  BY MbAbstractStep
<1> QED
  BY <1>1, MbAbstractInit, MbInvariance, PTL
     DEF MbSpec, MbIsBoundedQueue, MbAbstract!Spec
===============================================================================
