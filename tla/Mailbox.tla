-------------------------------- MODULE Mailbox --------------------------------
(***************************************************************************)
(* rt_mailbox (rt-thread/src/ipc.c): a ring of Size words, a FIFO list of  *)
(* receivers suspended on an empty ring and a FIFO list of senders         *)
(* suspended on a full one.  rt_mb_send_wait and rt_mb_recv are written as *)
(* operators that take the label the caller continues at, so that the      *)
(* beken queue can be composed from them; MbSpec at the end is the mailbox *)
(* with its most general clients.                                          *)
(*                                                                         *)
(* rt_mb_delete is not modelled: see the README.                           *)
(***************************************************************************)
EXTENDS Thread, FiniteSets

CONSTANTS
  Size,     \* number of words of the ring (mb->size)
  Mail,     \* the words that are sent
  NoMail    \* what an unwritten word or an unset local variable holds

ASSUME SizeAssumption == Size \in Nat \ {0}
ASSUME NoMailAssumption == NoMail \notin Mail

VARIABLES
  msg_pool, entry, in_offset, out_offset,   \* the ring
  mb_suspend_thread,                        \* suspended receivers
  mb_suspend_sender,                        \* suspended senders
  mail                                      \* mail[t]: t's word to send, or the one received

ringVars == <<msg_pool, entry, in_offset, out_offset>>
mbVars == <<ringVars, mb_suspend_thread, mb_suspend_sender>>

MbTypeOK ==
  /\ msg_pool \in [0..(Size - 1) -> Mail \cup {NoMail}]
  /\ entry \in 0..Size
  /\ in_offset \in 0..(Size - 1)
  /\ out_offset \in 0..(Size - 1)
  /\ mb_suspend_thread \in Seq(Threads)
  /\ mb_suspend_sender \in Seq(Threads)
  /\ mail \in [Threads -> Mail \cup {NoMail}]

(* rt_mb_create *)
MbInit ==
  /\ msg_pool = [i \in 0..(Size - 1) |-> NoMail]
  /\ entry = 0 /\ in_offset = 0 /\ out_offset = 0
  /\ mb_suspend_thread = << >>
  /\ mb_suspend_sender = << >>
  /\ mail = [t \in Threads |-> NoMail]

(* Mutant: the wrap test is off by one. *)
AdvancePastEnd(offset) == IF offset + 1 > Size THEN 0 ELSE offset + 1

(* ++offset, wrapped to 0 at the end of the ring. *)
Advance(offset) == IF offset + 1 >= Size THEN 0 ELSE offset + 1

(* The ring position of the k-th waiting word, the oldest being number 0.  *)
Slot(k) == IF out_offset + k >= Size THEN out_offset + k - Size ELSE out_offset + k

(* The words in the ring, oldest first. *)
Waiting == [k \in 1..entry |-> msg_pool[Slot(k - 1)]]
-------------------------------------------------------------------------------
(* rt_mb_send_wait(mb, mail[t], timeout[t]) *)

SendFullNoWait(t, failPc) ==
  /\ At(t, "send")
  /\ entry = Size
  /\ timeout[t] = "nowait"
  /\ LeaveCall(t, failPc)
  /\ UNCHANGED <<stat, error, mbVars, mail>>

SendFullSuspend(t) ==
  /\ At(t, "send")
  /\ entry = Size
  /\ timeout[t] # "nowait"
  /\ Suspend(t, "send_wait")
  /\ mb_suspend_sender' = Append(mb_suspend_sender, t)
  /\ UNCHANGED <<ringVars, mb_suspend_thread, mail>>

SendWoken(t, failPc) ==
  /\ \/ WokenGivesUp(t, "send_wait", failPc)
     \/ WokenRetries(t, "send_wait", "send")
  /\ UNCHANGED <<mbVars, mail>>

(* Mutant: a receiver is resumed only when the ring was empty. *)
SendPutWakesOnEmpty(t, okPc) ==
  /\ At(t, "send")
  /\ entry # Size
  /\ msg_pool' = [msg_pool EXCEPT ![in_offset] = mail[t]]
  /\ in_offset' = Advance(in_offset)
  /\ entry' = entry + 1
  /\ IF entry = 0 THEN /\ ResumeFirst(mb_suspend_thread)
                       /\ mb_suspend_thread' = Rest(mb_suspend_thread)
                  ELSE UNCHANGED <<stat, mb_suspend_thread>>
  /\ mail' = [mail EXCEPT ![t] = NoMail]
  /\ LeaveCall(t, okPc)
  /\ UNCHANGED <<error, out_offset, mb_suspend_sender>>

(* Mutant: the suspended receivers are forgotten. *)
SendPutNoWake(t, okPc) ==
  /\ At(t, "send")
  /\ entry # Size
  /\ msg_pool' = [msg_pool EXCEPT ![in_offset] = mail[t]]
  /\ in_offset' = Advance(in_offset)
  /\ entry' = entry + 1
  /\ mail' = [mail EXCEPT ![t] = NoMail]
  /\ LeaveCall(t, okPc)
  /\ UNCHANGED <<stat, error, out_offset, mb_suspend_thread, mb_suspend_sender>>

(* The word belongs to the mailbox from here on. *)
SendPut(t, okPc) ==
  /\ At(t, "send")
  /\ entry # Size
  /\ msg_pool' = [msg_pool EXCEPT ![in_offset] = mail[t]]
  /\ in_offset' = Advance(in_offset)
  /\ entry' = entry + 1
  /\ ResumeFirst(mb_suspend_thread)
  /\ mb_suspend_thread' = Rest(mb_suspend_thread)
  /\ mail' = [mail EXCEPT ![t] = NoMail]
  /\ LeaveCall(t, okPc)
  /\ UNCHANGED <<error, out_offset, mb_suspend_sender>>
-------------------------------------------------------------------------------
(* rt_mb_recv(mb, &mail[t], timeout[t]) *)

RecvEmptyNoWait(t, failPc) ==
  /\ At(t, "recv")
  /\ entry = 0
  /\ timeout[t] = "nowait"
  /\ LeaveCall(t, failPc)
  /\ UNCHANGED <<stat, error, mbVars, mail>>

RecvEmptySuspend(t) ==
  /\ At(t, "recv")
  /\ entry = 0
  /\ timeout[t] # "nowait"
  /\ Suspend(t, "recv_wait")
  /\ mb_suspend_thread' = Append(mb_suspend_thread, t)
  /\ UNCHANGED <<ringVars, mb_suspend_sender, mail>>

RecvWoken(t, failPc) ==
  /\ \/ WokenGivesUp(t, "recv_wait", failPc)
     \/ WokenRetries(t, "recv_wait", "recv")
  /\ UNCHANGED <<mbVars, mail>>

(* Mutant: the offset is advanced before the word is read. *)
RecvTakeNext(t, okPc) ==
  /\ At(t, "recv")
  /\ entry # 0
  /\ mail' = [mail EXCEPT ![t] = msg_pool[Advance(out_offset)]]
  /\ out_offset' = Advance(out_offset)
  /\ entry' = entry - 1
  /\ ResumeFirst(mb_suspend_sender)
  /\ mb_suspend_sender' = Rest(mb_suspend_sender)
  /\ LeaveCall(t, okPc)
  /\ UNCHANGED <<error, msg_pool, in_offset, mb_suspend_thread>>

RecvTake(t, okPc) ==
  /\ At(t, "recv")
  /\ entry # 0
  /\ mail' = [mail EXCEPT ![t] = msg_pool[out_offset]]
  /\ out_offset' = Advance(out_offset)
  /\ entry' = entry - 1
  /\ ResumeFirst(mb_suspend_sender)
  /\ mb_suspend_sender' = Rest(mb_suspend_sender)
  /\ LeaveCall(t, okPc)
  /\ UNCHANGED <<error, msg_pool, in_offset, mb_suspend_thread>>

(* Mutant: the thread stays linked in its wait list. *)
MbStaysListed(t) == UNCHANGED <<mbVars, mail>>

(* rt_thread_timeout, seen from the mailbox: t leaves the list it is on.   *)
MbLeaveLists(t) ==
  /\ mb_suspend_thread' = Without(mb_suspend_thread, t)
  /\ mb_suspend_sender' = Without(mb_suspend_sender, t)
  /\ UNCHANGED <<ringVars, mail>>
-------------------------------------------------------------------------------
(***************************************************************************)
(* The mailbox on its own.  Senders and Receivers are the threads of each  *)
(* role; a call may use any of the three kinds of time argument.           *)
(***************************************************************************)
CONSTANTS Senders, Receivers

ASSUME RoleAssumption == Senders \cup Receivers = Threads

MbClientInit == ThreadInit /\ MbInit

CallSend(t, word, time) ==
  /\ At(t, "idle")
  /\ mail' = [mail EXCEPT ![t] = word]
  /\ EnterCall(t, "send", time)
  /\ UNCHANGED <<stat, error, mbVars>>

CallRecv(t, time) ==
  /\ At(t, "idle")
  /\ mail' = [mail EXCEPT ![t] = NoMail]
  /\ EnterCall(t, "recv", time)
  /\ UNCHANGED <<stat, error, mbVars>>

MbTimeout(t) == TimedOut(t) /\ MbLeaveLists(t)

MbSender(t) ==
  \/ SendFullNoWait(t, "idle")
  \/ SendFullSuspend(t)
  \/ SendWoken(t, "idle")
  \/ SendPut(t, "idle")

MbReceiver(t) ==
  \/ RecvEmptyNoWait(t, "idle")
  \/ RecvEmptySuspend(t)
  \/ RecvWoken(t, "idle")
  \/ RecvTake(t, "idle")

MbNext ==
  \/ \E t \in Senders, word \in Mail, time \in Timeouts : CallSend(t, word, time)
  \/ \E t \in Receivers, time \in Timeouts : CallRecv(t, time)
  \/ \E t \in Threads : MbSender(t) \/ MbReceiver(t) \/ MbTimeout(t)

mbAllVars == <<threadVars, mbVars, mail>>

MbSpec == MbClientInit /\ [][MbNext]_mbAllVars
-------------------------------------------------------------------------------
(* The threads that will look at the ring again without being woken.       *)
Looking(label, waitLabel) ==
  {t \in Threads : At(t, label) \/ (At(t, waitLabel) /\ error[t] = "EOK")}

(* No lost wake-up: while a receiver sleeps in rt_mb_recv, every word in   *)
(* the ring has a receiver on its way to take it; while a sender sleeps in *)
(* rt_mb_send_wait, every free word has a sender on its way to fill it.    *)
NoLostWakeup ==
  /\ mb_suspend_thread # << >> =>
       entry <= Cardinality(Looking("recv", "recv_wait"))
  /\ mb_suspend_sender # << >> =>
       Size - entry <= Cardinality(Looking("send", "send_wait"))

(* A thread is suspended exactly when it is on one wait list, once, and it *)
(* is the list of the call it is in: no wake-up or timeout leaves a ready  *)
(* thread on a list or a sleeping thread on none.                          *)
OnList(list, label) ==
  /\ IsInjective(list)
  /\ ToSet(list) = {t \in Threads : stat[t] = "SUSPEND" /\ pc[t] = label}

MbListsExact ==
  /\ OnList(mb_suspend_thread, "recv_wait")
  /\ OnList(mb_suspend_sender, "send_wait")
  /\ \A t \in Threads : stat[t] = "SUSPEND" => pc[t] \in {"recv_wait", "send_wait"}

(* The ring implements the bounded queue: each word that is sent is        *)
(* received once, in order, whatever the offsets' wrap-around.  (mail[t]   *)
(* plays both parts of the mapping, so the roles must be disjoint here.)   *)
MbAbstract == INSTANCE BoundedQueue WITH
  Writers <- Senders, Readers <- Receivers, Messages <- Mail, None <- NoMail,
  Capacity <- Size,
  queue <- Waiting,
  want <- [t \in Senders |-> IF pc[t] \in {"send", "send_wait"} THEN mail[t] ELSE NoMail],
  got <- [t \in Receivers |-> mail[t]]

MbIsBoundedQueue == MbAbstract!Spec
===============================================================================
