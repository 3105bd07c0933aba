-------------------------------- MODULE WifiCore --------------------------------
(***************************************************************************)
(* The core thread of the Wi-Fi stack (beken378/app/app.c) and the callers *)
(* that feed its queue: the receive interrupt, lwIP's transmission, and    *)
(* everybody else (power save, fake socket, events: "OTHER").              *)
(*                                                                         *)
(* io_queue is used through its specification, BoundedQueue: a push is     *)
(* atomic, and it fails when the waiting messages and the blocks in the    *)
(* hands of other threads exhaust the pool (RtosQueue, FullMeansExhausted).*)
(* The MAC library behind rxl_cntrl_evt and ke_evt_core_scheduler is       *)
(* external: the first empties the receive descriptors.                    *)
(***************************************************************************)
EXTENDS Naturals, Sequences, FiniteSets

CONSTANTS
  QItems,     \* CORE_QITEM_COUNT
  InHand,     \* bound: blocks other threads may hold while a push looks for one
  Pbufs,      \* packets lwIP transmits, each one once
  MaxFrames,  \* bound: received frames waiting in the descriptors
  NoMsg       \* no message being handled

ASSUME QItemsAssumption == QItems \in Nat \ {0} /\ InHand \in Nat /\ MaxFrames \in Nat

VARIABLES
  io_queue,       \* g_wifi_core.io_queue, oldest message first
  core,           \* what the core thread does next
  msg,            \* the message it popped
  bmsg_rx_count,
  rx_stage,       \* progress of bmsg_rx_sender
  rx_frames,      \* frames in the receive descriptors
  rx_failed,      \* pushes of bmsg_rx_sender that failed so far
  tx_stage,       \* tx_stage[p]: progress of the transmission of p
  ref             \* ref[p]: p->ref

rxVars == <<bmsg_rx_count, rx_stage, rx_frames, rx_failed>>
txVars == <<tx_stage, ref>>
coreVars == <<core, msg>>
wifiVars == <<io_queue, coreVars, rxVars, txVars>>

Message(type, arg) == [type |-> type, arg |-> arg]

(* The bound of two on queued RX messages is what CoreTypeOK is about; a   *)
(* queued packet is always counted in its ref.                             *)
CoreTypeOK ==
  /\ Len(io_queue) <= QItems
  /\ core \in {"pop", "dispatch", "rxl", "events"}
  /\ bmsg_rx_count \in 0..2
  /\ rx_stage \in {"idle", "count", "push"}
  /\ rx_frames \in 0..MaxFrames
  /\ rx_failed \in 0..2
  /\ tx_stage \in [Pbufs -> {"new", "push", "returned", "released"}]
  /\ ref \in [Pbufs -> 0..2]

CoreInit ==
  /\ io_queue = << >>
  /\ core = "pop" /\ msg = NoMsg
  /\ bmsg_rx_count = 0 /\ rx_stage = "idle" /\ rx_frames = 0 /\ rx_failed = 0
  /\ tx_stage = [p \in Pbufs |-> "new"]
  /\ ref = [p \in Pbufs |-> 1]

(* rtos_push_to_queue: one of its two outcomes. *)
Pushed(type, arg) ==
  /\ Len(io_queue) < QItems
  /\ io_queue' = Append(io_queue, Message(type, arg))

PushFailed ==
  /\ Len(io_queue) + InHand >= QItems
  /\ UNCHANGED io_queue
-------------------------------------------------------------------------------
(* bmsg_rx_sender, called by the receive interrupt of the MAC library.     *)

FrameArrives ==
  /\ rx_stage = "idle"
  /\ rx_frames < MaxFrames
  /\ rx_frames' = rx_frames + 1
  /\ rx_stage' = "count"
  /\ UNCHANGED <<io_queue, coreVars, bmsg_rx_count, rx_failed, txVars>>

(* Mutant: the test lets a third message through. *)
RxCountPastTwo ==
  /\ rx_stage = "count"
  /\ IF bmsg_rx_count > 2
     THEN rx_stage' = "idle" /\ UNCHANGED bmsg_rx_count
     ELSE rx_stage' = "push" /\ bmsg_rx_count' = bmsg_rx_count + 1
  /\ UNCHANGED <<io_queue, coreVars, rx_frames, rx_failed, txVars>>

RxCount ==
  /\ rx_stage = "count"
  /\ IF bmsg_rx_count >= 2
     THEN rx_stage' = "idle" /\ UNCHANGED bmsg_rx_count
     ELSE rx_stage' = "push" /\ bmsg_rx_count' = bmsg_rx_count + 1
  /\ UNCHANGED <<io_queue, coreVars, rx_frames, rx_failed, txVars>>

(* A failed push does not give its count back. *)
RxPush ==
  /\ rx_stage = "push"
  /\ rx_stage' = "idle"
  /\ \/ Pushed("RX", 0) /\ UNCHANGED rx_failed
     \/ PushFailed /\ rx_failed' = rx_failed + 1
  /\ UNCHANGED <<coreVars, bmsg_rx_count, rx_frames, txVars>>
-------------------------------------------------------------------------------
(* low_level_output and bmsg_tx_sender: pbuf_ref, then a push that waits   *)
(* up to a second; lwIP drops its own reference after the call.            *)

(* Mutant: the queue's reference is not taken. *)
TxRefNotTaken(p) ==
  /\ tx_stage[p] = "new"
  /\ tx_stage' = [tx_stage EXCEPT ![p] = "push"]
  /\ UNCHANGED <<io_queue, coreVars, rxVars, ref>>

TxRef(p) ==
  /\ tx_stage[p] = "new"
  /\ ref' = [ref EXCEPT ![p] = @ + 1]
  /\ tx_stage' = [tx_stage EXCEPT ![p] = "push"]
  /\ UNCHANGED <<io_queue, coreVars, rxVars>>

TxPush(p) ==
  /\ tx_stage[p] = "push"
  /\ tx_stage' = [tx_stage EXCEPT ![p] = "returned"]
  /\ \/ Pushed("TX", p) /\ UNCHANGED ref
     \/ PushFailed /\ ref' = [ref EXCEPT ![p] = @ - 1]
  /\ UNCHANGED <<coreVars, rxVars>>

TxRelease(p) ==
  /\ tx_stage[p] = "returned"
  /\ ref' = [ref EXCEPT ![p] = @ - 1]
  /\ tx_stage' = [tx_stage EXCEPT ![p] = "released"]
  /\ UNCHANGED <<io_queue, coreVars, rxVars>>

(* bmsg_ps_sender; bmsg_skt_tx_sender, bmsg_txing_sender and others alike: *)
(* a push without waiting whose failure is only printed.                  *)
OtherPush ==
  /\ Pushed("OTHER", 0)
  /\ UNCHANGED <<coreVars, rxVars, txVars>>
-------------------------------------------------------------------------------
(* core_thread_main *)

CorePop ==
  /\ core = "pop"
  /\ io_queue # << >>
  /\ msg' = Head(io_queue)
  /\ io_queue' = Tail(io_queue)
  /\ core' = "dispatch"
  /\ UNCHANGED <<rxVars, txVars>>

(* Mutant: the count is not given back. *)
HandleRxKeepsCount ==
  /\ msg.type = "RX"
  /\ core' = "rxl"
  /\ UNCHANGED <<rxVars, txVars>>

(* bmsg_rx_handler: the count goes down before rxl_cntrl_evt looks at the  *)
(* descriptors.                                                            *)
HandleRx ==
  /\ msg.type = "RX"
  /\ bmsg_rx_count' = IF bmsg_rx_count > 0 THEN bmsg_rx_count - 1 ELSE 0
  /\ core' = "rxl"
  /\ UNCHANGED <<rx_stage, rx_frames, rx_failed, txVars>>

(* bmsg_tx_handler: coalesced or not, transferred or not, the packet loses *)
(* the reference of the queue.                                             *)
HandleTx ==
  /\ msg.type = "TX"
  /\ ref' = [ref EXCEPT ![msg.arg] = @ - 1]
  /\ core' = "events"
  /\ UNCHANGED <<rxVars, tx_stage>>

HandleOther ==
  /\ msg.type = "OTHER"
  /\ core' = "events"
  /\ UNCHANGED <<rxVars, txVars>>

CoreDispatch ==
  /\ core = "dispatch"
  /\ HandleRx \/ HandleTx \/ HandleOther
  /\ UNCHANGED <<io_queue, msg>>

(* rxl_cntrl_evt *)
ServeFrames ==
  /\ core = "rxl"
  /\ rx_frames' = 0
  /\ core' = "events"
  /\ UNCHANGED <<io_queue, msg, bmsg_rx_count, rx_stage, rx_failed, txVars>>

(* ke_evt_core_scheduler, and back to the queue. *)
CoreLoop ==
  /\ core = "events"
  /\ core' = "pop"
  /\ msg' = NoMsg
  /\ UNCHANGED <<io_queue, rxVars, txVars>>

RxInterrupt == RxCount \/ RxPush

CoreThread == CorePop \/ CoreDispatch \/ ServeFrames \/ CoreLoop

CoreNext ==
  \/ FrameArrives \/ RxInterrupt \/ OtherPush \/ CoreThread
  \/ \E p \in Pbufs : TxRef(p) \/ TxPush(p) \/ TxRelease(p)

(* Interrupts complete and the core thread has the highest priority. *)
CoreFairness == WF_wifiVars(RxInterrupt) /\ WF_wifiVars(CoreThread)

CoreSpec == CoreInit /\ [][CoreNext]_wifiVars /\ CoreFairness
-------------------------------------------------------------------------------
(* How many messages of a kind the queue holds, the one popped but not yet *)
(* dispatched included.                                                    *)
Positions(q, m) == {i \in 1..Len(q) : q[i] = m}

Occurrences(q, m) == Cardinality(Positions(q, m))

Unhandled(type, arg) ==
  Occurrences(io_queue, Message(type, arg))
    + (IF core = "dispatch" /\ msg = Message(type, arg) THEN 1 ELSE 0)

(* bmsg_rx_count counts the RX messages on their way - and every push that *)
(* failed: nothing gives those back, and after two of them no RX message   *)
(* is ever posted again (CoreTypeOK: the count stays at most 2).           *)
RxCountExact ==
  bmsg_rx_count = Unhandled("RX", 0) + (IF rx_stage = "push" THEN 1 ELSE 0) + rx_failed

(* Until a push failed, a frame in the descriptors always has an RX        *)
(* message ahead that will empty them, though most frames post none.       *)
FramesCovered ==
  rx_frames > 0 /\ rx_failed = 0 =>
    \/ rx_stage # "idle"
    \/ Unhandled("RX", 0) > 0
    \/ core = "rxl"

(* A packet is referenced once by lwIP until it drops it and once by each  *)
(* place of the driver that will still read it: it is never freed under    *)
(* the core thread and never leaks, whatever fails.                        *)
RefsExact ==
  \A p \in Pbufs :
    ref[p] = (IF tx_stage[p] = "released" THEN 0 ELSE 1)
               + (IF tx_stage[p] = "push" THEN 1 ELSE 0)
               + Unhandled("TX", p)

(* Received frames do not wait forever, as long as no push failed.         *)
FramesServed == rx_frames > 0 ~> (rx_frames = 0 \/ rx_failed > 0)
===============================================================================
