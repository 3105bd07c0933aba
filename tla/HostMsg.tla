--------------------------------- MODULE HostMsg ---------------------------------
(***************************************************************************)
(* Requests to the MAC firmware and their confirmations: rw_msg_send       *)
(* (rw_msg_tx.c), which posts a request to the core thread's queue and may *)
(* wait for the answer, and the kmsg thread (kmsg_bk_thread_main and       *)
(* rwnx_recv_msg), which matches answers to waiting requests by their id.  *)
(*                                                                         *)
(* A member of Reqs is one call of rw_msg_send, its ke_msg and, when it    *)
(* waits, its MSG_SND_NODE_ST.  The senders' threads have lower priority   *)
(* than kmsg (sys_config.h: 3, against 4 and more), and kmsg does not      *)
(* block between finding a node and signalling it, so no sender runs       *)
(* there; only the tick interrupt and the core thread do.  A call whose    *)
(* post fails ends in a failed assertion, which spins at the priority of   *)
(* its thread: the callers below it never run again.                       *)
(***************************************************************************)
EXTENDS WifiCore, SequencesExt

CONSTANTS
  Reqs,     \* the calls of rw_msg_send
  Ids,      \* message ids
  IdOf,     \* IdOf[r]: the id of r's confirmation (reqid)
  NeedCfm,  \* the calls with a cfm argument
  Priority, \* Priority[r]: of the thread that makes the call, 0 the most urgent
  NoReq     \* no request

ASSUME ReqsAssumption ==
  /\ IdOf \in [Reqs -> Ids]
  /\ NeedCfm \subseteq Reqs
  /\ Priority \in [Reqs -> Nat]
  /\ NoReq \notin Reqs

VARIABLES
  pc,           \* pc[r]: progress of the call
  node,         \* node[r]: whether tx_msg is allocated
  rw_msg_tx_head, rw_msg_rx_head,   \* waiting calls; confirmations not yet read
  semaphore,    \* semaphore[r]: the value of tx_msg->semaphore
  cfm,          \* cfm[r]: the request whose confirmation was copied to r's cfm
  heap,         \* "bad_free": os_free was given the inside of a block
  lmac,         \* requests the MAC library has and has not confirmed
  app_sema,     \* value of the kmsg thread's semaphore
  kmsg,         \* what kmsg does next
  found,        \* the node rwnx_recv_msg matched, and the message it pairs
  rx_msg        \* with it

callVars == <<pc, node, semaphore, cfm, heap>>
kmsgVars == <<kmsg, found, rx_msg>>
hostVars == <<callVars, rw_msg_tx_head, rw_msg_rx_head, lmac, app_sema, kmsgVars>>
hmVars == <<wifiVars, hostVars>>

Labels == {"idle", "post", "wait", "suspended", "expired", "confirmed", "extracted",
           "ok", "failed", "hung"}

HmTypeOK ==
  /\ pc \in [Reqs -> Labels]
  /\ node \in [Reqs -> {"none", "live", "freed"}]
  /\ rw_msg_tx_head \in Seq(NeedCfm)
  /\ rw_msg_rx_head \in Seq(Reqs)
  /\ semaphore \in [Reqs -> 0..1]
  /\ cfm \in [Reqs -> Reqs \cup {NoReq}]
  /\ heap \in {"ok", "bad_free"}
  /\ lmac \subseteq Reqs
  /\ app_sema \in 0..Cardinality(Reqs)
  /\ kmsg \in {"take", "receive", "found", "events"}
  /\ found \in Reqs \cup {NoReq}
  /\ rx_msg \in Reqs \cup {NoReq}

(* mr_kmsg_init has run: kmsg starts before the core thread exists. *)
HmInit ==
  /\ CoreInit
  /\ pc = [r \in Reqs |-> "idle"]
  /\ node = [r \in Reqs |-> "none"]
  /\ rw_msg_tx_head = << >> /\ rw_msg_rx_head = << >>
  /\ semaphore = [r \in Reqs |-> 0]
  /\ cfm = [r \in Reqs |-> NoReq]
  /\ heap = "ok"
  /\ lmac = {}
  /\ app_sema = 0
  /\ kmsg = "take" /\ found = NoReq /\ rx_msg = NoReq

(* co_list_extract: nothing happens when the element is not in the list. *)
Extract(list, r) ==
  LET at == {i \in DOMAIN list : list[i] = r}
  IN  IF at = {} THEN list ELSE RemoveAt(list, CHOOSE i \in at : TRUE)

Move(r, label) == pc' = [pc EXCEPT ![r] = label]

(* rt_assert_handler has no hook and loops for ever: nothing below the     *)
(* caller's priority runs any more, and its equals share the time with it. *)
Starved(r) == \E s \in Reqs : pc[s] = "hung" /\ Priority[s] < Priority[r]

(* Mutant: the callers outrank kmsg. *)
AnySenderRuns(r) == TRUE

(* kmsg outranks the callers of rw_msg_send. *)
SenderRuns(r) == kmsg # "found" /\ ~Starved(r)
-------------------------------------------------------------------------------
(* rw_msg_send *)

(* os_malloc fails: the ke_msg is never freed. *)
CallNoMemory(r) ==
  /\ pc[r] = "idle" /\ SenderRuns(r)
  /\ r \in NeedCfm
  /\ Move(r, "failed")
  /\ UNCHANGED <<wifiVars, node, semaphore, cfm, heap, rw_msg_tx_head, rw_msg_rx_head, lmac,
                 app_sema, kmsgVars>>

Call(r) ==
  /\ pc[r] = "idle" /\ SenderRuns(r)
  /\ Move(r, "post")
  /\ IF r \in NeedCfm
     THEN /\ node' = [node EXCEPT ![r] = "live"]
          /\ rw_msg_tx_head' = Append(rw_msg_tx_head, r)
     ELSE UNCHANGED <<node, rw_msg_tx_head>>
  /\ UNCHANGED <<wifiVars, semaphore, cfm, heap, rw_msg_rx_head, lmac, app_sema, kmsgVars>>

(* bmsg_ioctl_sender *)
Post(r) ==
  /\ pc[r] = "post" /\ SenderRuns(r)
  /\ Pushed("IOCTL", r)
  /\ Move(r, IF r \in NeedCfm THEN "wait" ELSE "ok")
  /\ UNCHANGED <<coreVars, rxVars, txVars, node, semaphore, cfm, heap, rw_msg_tx_head,
                 rw_msg_rx_head, lmac, app_sema, kmsgVars>>

(* os_free(msg_params): the parameters are the inside of the ke_msg block, *)
(* so rt_memheap_free finds no block header before them; its assertion     *)
(* fails and the thread spins there, with its node still linked.           *)
PostFails(r) ==
  /\ pc[r] = "post" /\ SenderRuns(r)
  /\ PushFailed
  /\ heap' = "bad_free"
  /\ Move(r, "hung")
  /\ UNCHANGED <<coreVars, rxVars, txVars, node, semaphore, cfm, rw_msg_tx_head,
                 rw_msg_rx_head, lmac, app_sema, kmsgVars>>

(* Mutant: the wait has no limit. *)
WaitForever(r) ==
  /\ pc[r] = "wait" /\ SenderRuns(r)
  /\ semaphore[r] > 0
  /\ semaphore' = [semaphore EXCEPT ![r] = 0] /\ Move(r, "confirmed")
  /\ UNCHANGED <<wifiVars, node, cfm, heap, rw_msg_tx_head, rw_msg_rx_head, lmac,
                 app_sema, kmsgVars>>

(* rtos_get_semaphore(&tx_msg->semaphore, 5 s) *)
Wait(r) ==
  /\ pc[r] = "wait" /\ SenderRuns(r)
  /\ IF semaphore[r] > 0
     THEN semaphore' = [semaphore EXCEPT ![r] = 0] /\ Move(r, "confirmed")
     ELSE Move(r, "suspended") /\ UNCHANGED semaphore
  /\ UNCHANGED <<wifiVars, node, cfm, heap, rw_msg_tx_head, rw_msg_rx_head, lmac,
                 app_sema, kmsgVars>>

(* The tick interrupt makes the caller runnable, whatever kmsg is doing.   *)
Expire(r) ==
  /\ pc[r] = "suspended"
  /\ Move(r, "expired")
  /\ UNCHANGED <<wifiVars, node, semaphore, cfm, heap, rw_msg_tx_head, rw_msg_rx_head, lmac,
                 app_sema, kmsgVars>>

(* Mutant: the node is freed without leaving the list. *)
GiveUpLinked(r) ==
  /\ pc[r] = "expired" /\ SenderRuns(r)
  /\ Move(r, "extracted")
  /\ UNCHANGED <<wifiVars, node, semaphore, cfm, heap, rw_msg_tx_head, rw_msg_rx_head, lmac,
                 app_sema, kmsgVars>>

(* The node leaves the list, if it is still there. *)
GiveUp(r) ==
  /\ pc[r] = "expired" /\ SenderRuns(r)
  /\ rw_msg_tx_head' = Extract(rw_msg_tx_head, r)
  /\ Move(r, "extracted")
  /\ UNCHANGED <<wifiVars, node, semaphore, cfm, heap, rw_msg_rx_head, lmac, app_sema,
                 kmsgVars>>

(* rtos_deinit_semaphore and os_free, on either way out. *)
Return(r) ==
  /\ pc[r] \in {"extracted", "confirmed"} /\ SenderRuns(r)
  /\ node' = [node EXCEPT ![r] = "freed"]
  /\ semaphore' = [semaphore EXCEPT ![r] = 0]
  /\ Move(r, IF pc[r] = "confirmed" THEN "ok" ELSE "failed")
  /\ UNCHANGED <<wifiVars, cfm, heap, rw_msg_tx_head, rw_msg_rx_head, lmac, app_sema,
                 kmsgVars>>

Sender(r) ==
  Call(r) \/ CallNoMemory(r) \/ Post(r) \/ PostFails(r) \/ Wait(r) \/ GiveUp(r) \/ Return(r)
-------------------------------------------------------------------------------
(* The core thread's part: bmsg_ioctl_handler hands the request to the MAC *)
(* library, which confirms it in a later pass of its event scheduler.      *)

HandleIoctl ==
  /\ core = "dispatch"
  /\ msg.type = "IOCTL"
  /\ lmac' = lmac \cup {msg.arg}
  /\ core' = "events"
  /\ UNCHANGED <<io_queue, msg, rxVars, txVars, callVars, rw_msg_tx_head, rw_msg_rx_head,
                 app_sema, kmsgVars>>

(* Mutant: app_set_sema is not called. *)
ForwardSilently(r) ==
  /\ r \in lmac
  /\ core = "events" \/ kmsg = "events"
  /\ lmac' = lmac \ {r}
  /\ rw_msg_rx_head' = Append(rw_msg_rx_head, r)
  /\ UNCHANGED <<wifiVars, callVars, rw_msg_tx_head, app_sema, kmsgVars>>

(* mr_kmsg_fwd, called by the library in either thread that runs its       *)
(* scheduler.                                                              *)
Forward(r) ==
  /\ r \in lmac
  /\ core = "events" \/ kmsg = "events"
  /\ lmac' = lmac \ {r}
  /\ rw_msg_rx_head' = Append(rw_msg_rx_head, r)
  /\ app_sema' = app_sema + 1
  /\ UNCHANGED <<wifiVars, callVars, rw_msg_tx_head, kmsgVars>>
-------------------------------------------------------------------------------
(* kmsg_bk_thread_main *)

KmsgTake ==
  /\ kmsg = "take"
  /\ app_sema > 0
  /\ app_sema' = app_sema - 1
  /\ kmsg' = "receive"
  /\ UNCHANGED <<wifiVars, callVars, rw_msg_tx_head, rw_msg_rx_head, lmac, found, rx_msg>>

(* Mutant: the ids are not compared. *)
AnswersAny(m, r) == TRUE

Answers(m, r) == IdOf[m] = IdOf[r]

(* rwnx_recv_msg: the first waiting call with the id of the message.  A    *)
(* message nobody waits for goes to rwnx_handle_recv_msg.                  *)
KmsgReceive ==
  /\ kmsg = "receive"
  /\ rw_msg_rx_head # << >>
  /\ rw_msg_rx_head' = Tail(rw_msg_rx_head)
  /\ LET answered == {i \in DOMAIN rw_msg_tx_head :
                        Answers(Head(rw_msg_rx_head), rw_msg_tx_head[i])}
     IN  \/ answered = {} /\ UNCHANGED kmsgVars
         \/ \E i \in answered :
              /\ \A j \in answered : i <= j
              /\ kmsg' = "found"
              /\ found' = rw_msg_tx_head[i] /\ rx_msg' = Head(rw_msg_rx_head)
  /\ UNCHANGED <<wifiVars, callVars, rw_msg_tx_head, lmac, app_sema>>

(* Mutant: the answered node stays linked. *)
KmsgAnswerLinked ==
  /\ kmsg = "found"
  /\ cfm' = [cfm EXCEPT ![found] = rx_msg]
  /\ IF pc[found] = "suspended"
     THEN Move(found, "confirmed") /\ UNCHANGED semaphore
     ELSE semaphore' = [semaphore EXCEPT ![found] = @ + 1] /\ UNCHANGED pc
  /\ kmsg' = "receive" /\ found' = NoReq /\ rx_msg' = NoReq
  /\ UNCHANGED <<wifiVars, node, heap, rw_msg_tx_head, rw_msg_rx_head, lmac, app_sema>>

(* The node leaves the list, its confirmation is copied out, its semaphore *)
(* released.                                                               *)
KmsgAnswer ==
  /\ kmsg = "found"
  /\ rw_msg_tx_head' = Extract(rw_msg_tx_head, found)
  /\ cfm' = [cfm EXCEPT ![found] = rx_msg]
  /\ IF pc[found] = "suspended"
     THEN Move(found, "confirmed") /\ UNCHANGED semaphore
     ELSE semaphore' = [semaphore EXCEPT ![found] = @ + 1] /\ UNCHANGED pc
  /\ kmsg' = "receive" /\ found' = NoReq /\ rx_msg' = NoReq
  /\ UNCHANGED <<wifiVars, node, heap, rw_msg_rx_head, lmac, app_sema>>

(* The list is empty: ke_evt_none_core_scheduler, then the semaphore. *)
KmsgDrained ==
  /\ kmsg = "receive"
  /\ rw_msg_rx_head = << >>
  /\ kmsg' = "events"
  /\ UNCHANGED <<wifiVars, callVars, rw_msg_tx_head, rw_msg_rx_head, lmac, app_sema, found,
                 rx_msg>>

KmsgLoop ==
  /\ kmsg = "events"
  /\ kmsg' = "take"
  /\ UNCHANGED <<wifiVars, callVars, rw_msg_tx_head, rw_msg_rx_head, lmac, app_sema, found,
                 rx_msg>>

Kmsg == KmsgTake \/ KmsgReceive \/ KmsgAnswer \/ KmsgDrained \/ KmsgLoop

HmNext ==
  \/ CoreNext /\ UNCHANGED hostVars
  \/ HandleIoctl
  \/ \E r \in Reqs : Sender(r) \/ Expire(r) \/ Forward(r)
  \/ Kmsg

(* Every thread gets to run when those above it are blocked (SenderRuns is *)
(* false of those below one that spins); ticks pass.                       *)
HmFairness ==
  /\ CoreFairness
  /\ WF_hmVars(HandleIoctl)
  /\ WF_hmVars(Kmsg)
  /\ \A r \in Reqs : WF_hmVars(Sender(r)) /\ WF_hmVars(Expire(r))

HmSpec == HmInit /\ [][HmNext]_hmVars /\ HmFairness
-------------------------------------------------------------------------------
(* rw_msg_send frees its node after a timeout while kmsg searches the list *)
(* and signals the node it found: no node that is freed is ever reachable  *)
(* from the list or in kmsg's hands, though the two race on every timeout. *)
NodesAlive ==
  /\ \A i \in 1..Len(rw_msg_tx_head) : node[rw_msg_tx_head[i]] = "live"
  /\ found # NoReq => node[found] = "live"

(* rw_msg_tx_head holds each call that asked for a confirmation and has    *)
(* neither been answered nor given up, once, and nothing else - also the   *)
(* node of a call that hangs in os_free, which nothing removes.            *)
TxHeadExact ==
  /\ IsInjective(rw_msg_tx_head)
  /\ Range(rw_msg_tx_head) =
       {r \in NeedCfm : /\ pc[r] \in {"post", "wait", "suspended", "expired", "hung"}
                        /\ semaphore[r] = 0}

(* app_sema counts messages, but kmsg takes it once and drains the list:   *)
(* whenever a confirmation waits, kmsg is on its way to it or will be.     *)
RxNotForgotten == rw_msg_rx_head # << >> => app_sema > 0 \/ kmsg = "receive" \/ kmsg = "found"

(* A call that succeeds was given a confirmation with the id it waits for, *)
(* and no confirmation answers two calls.  It may be that of another call  *)
(* with the same id, sent before it: ids are all rwnx_recv_msg compares.   *)
ConfirmationsMatch ==
  /\ \A r \in NeedCfm : pc[r] = "ok" => cfm[r] \in Reqs /\ IdOf[cfm[r]] = IdOf[r]
  /\ \A r1, r2 \in NeedCfm : cfm[r1] = cfm[r2] => r1 = r2 \/ cfm[r1] = NoReq

(* Every call comes back within its five seconds, whatever the firmware    *)
(* does - unless its post fails, which hangs its thread in os_free, or     *)
(* that of a more urgent thread does, which then keeps the processor.      *)
EveryCallReturns ==
  \A r \in Reqs : pc[r] = "post" ~> pc[r] \in {"ok", "failed", "hung"} \/ Starved(r)

(* memheap.c:575 asserts that what is freed is a block of the heap.        *)
FreesWholeBlocks == heap # "bad_free"
===============================================================================
