----------------------------- MODULE WifiCoreProofs -----------------------------
(***************************************************************************)
(* What TLAPS proves of the core thread and its senders, for any queue     *)
(* size, any set of packets and any number of frames.                      *)
(***************************************************************************)
EXTENDS WifiCore, SequenceTheorems, FiniteSetTheorems, TLAPS

(* The messages of WifiCore, and a set M of messages that may be in its    *)
(* queue: other senders' as well, of types of their own.                   *)
CoreMessages ==
  {Message("RX", 0), Message("OTHER", 0)} \cup {Message("TX", p) : p \in Pbufs}

Carries(M) ==
  /\ CoreMessages \subseteq M
  /\ \A m \in M : m.type \in {"RX", "TX", "OTHER"} => m \in CoreMessages

-------------------------------------------------------------------------------
(* Counting the occurrences of a message in a queue.                       *)

LEMMA OccurrencesType ==
  ASSUME NEW S, NEW q \in Seq(S), NEW m
  PROVE  /\ IsFiniteSet(Positions(q, m))
         /\ Occurrences(q, m) \in Nat
<1>1. IsFiniteSet(1..Len(q))
  BY FS_Interval
<1>2. Positions(q, m) \in SUBSET (1..Len(q))
  BY DEF Positions
<1>3. IsFiniteSet(Positions(q, m))
  BY <1>1, <1>2, FS_Subset
<1> QED
  BY <1>3, FS_CardinalityType DEF Occurrences

LEMMA OccurrencesEmpty ==
  ASSUME NEW m
  PROVE  Occurrences(<< >>, m) = 0
<1>1. Positions(<< >>, m) = {}
  BY DEF Positions
<1> QED
  BY <1>1, FS_EmptySet DEF Occurrences

LEMMA OccurrencesAppend ==
  ASSUME NEW S, NEW q \in Seq(S), NEW e \in S, NEW m
  PROVE  Occurrences(Append(q, e), m) = Occurrences(q, m) + (IF e = m THEN 1 ELSE 0)
<1> DEFINE n == Len(q)
<1>1. n \in Nat /\ IsFiniteSet(Positions(q, m)) /\ Occurrences(q, m) \in Nat
  BY OccurrencesType
<1>2. /\ Len(Append(q, e)) = n + 1
      /\ \A i \in 1..n : Append(q, e)[i] = q[i]
      /\ Append(q, e)[n + 1] = e
  BY AppendProperties
<1>3. CASE e = m
  <2>1. Positions(Append(q, e), m) = Positions(q, m) \cup {n + 1}
    BY <1>1, <1>2, <1>3 DEF Positions
  <2>2. n + 1 \notin Positions(q, m)
    BY <1>1 DEF Positions
  <2> QED
    BY <1>1, <1>3, <2>1, <2>2, FS_AddElement DEF Occurrences
<1>4. CASE e # m
  <2>1. Positions(Append(q, e), m) = Positions(q, m)
    BY <1>1, <1>2, <1>4 DEF Positions
  <2> QED
    BY <1>1, <1>4, <2>1 DEF Occurrences
<1> QED
  BY <1>3, <1>4

LEMMA OccurrencesTail ==
  ASSUME NEW S, NEW q \in Seq(S), q # << >>, NEW m
  PROVE  Occurrences(q, m) = Occurrences(Tail(q), m) + (IF Head(q) = m THEN 1 ELSE 0)
<1> DEFINE n == Len(q)
           later == Positions(q, m) \ {1}
           rest == Positions(Tail(q), m)
           Shift == [i \in rest |-> i + 1]
<1>1. n \in Nat /\ n > 0 /\ IsFiniteSet(Positions(q, m)) /\ Occurrences(q, m) \in Nat
  BY OccurrencesType, EmptySeq
<1>2. /\ Len(Tail(q)) = n - 1
      /\ \A i \in 1..(n - 1) : Tail(q)[i] = q[i + 1]
      /\ Head(q) = q[1]
      /\ Tail(q) \in Seq(S)
  BY <1>1, HeadTailProperties
<1>3. IsFiniteSet(rest) /\ Occurrences(Tail(q), m) \in Nat
  BY <1>2, OccurrencesType
<1>4. Shift \in Bijection(rest, later)
  <2>1. \A i \in rest : i \in Nat /\ i + 1 \in later
    BY <1>1, <1>2 DEF Positions
  <2>2. \A j \in later : j \in Nat /\ j - 1 \in rest
    BY <1>1, <1>2 DEF Positions
  <2>3. \A i, j \in rest : i + 1 = j + 1 => i = j
    BY <2>1
  <2> HIDE DEF rest, later
  <2>4. Shift \in Injection(rest, later)
    BY <2>1, <2>3 DEF Injection, IsInjective
  <2>5. Shift \in Surjection(rest, later)
    <3>1. \A j \in later : Shift[j - 1] = j
      BY <2>2
    <3> QED
      BY <2>1, <2>2, <3>1 DEF Surjection
  <2> QED
    BY <2>4, <2>5 DEF Bijection
<1>5. Cardinality(later) = Cardinality(rest)
  <2> HIDE DEF rest, later, Shift
  <2> QED
    BY <1>3, <1>4, FS_Bijection DEF ExistsBijection
<1>6. Cardinality(later) = IF 1 \in Positions(q, m) THEN Occurrences(q, m) - 1
                                                    ELSE Occurrences(q, m)
  BY <1>1, FS_RemoveElement DEF Occurrences
<1>7. 1 \in Positions(q, m) <=> Head(q) = m
  BY <1>1, <1>2 DEF Positions
<1> QED
  BY <1>1, <1>3, <1>5, <1>6, <1>7 DEF Occurrences
-------------------------------------------------------------------------------
(* The inductive invariant.  Beyond the properties of WifiCore it says     *)
(* which messages there are, and that a packet is queued at most once and  *)
(* only after its push: without that, ref is not bounded.                  *)

CoreTypes(M) ==
  /\ io_queue \in Seq(M) /\ Len(io_queue) <= QItems
  /\ core \in {"pop", "dispatch", "rxl", "events"}
  /\ core = "dispatch" => msg \in M
  /\ bmsg_rx_count \in 0..2
  /\ rx_stage \in {"idle", "count", "push"}
  /\ rx_frames \in 0..MaxFrames
  /\ rx_failed \in Nat
  /\ tx_stage \in [Pbufs -> {"new", "push", "returned", "released"}]
  /\ ref \in [Pbufs -> Nat]

PacketQueuedOnce ==
  \A p \in Pbufs : /\ Unhandled("TX", p) <= 1
                   /\ tx_stage[p] \in {"new", "push"} => Unhandled("TX", p) = 0

(* RefsExact for one packet. *)
References(stage, queued) ==
  (IF stage = "released" THEN 0 ELSE 1) + (IF stage = "push" THEN 1 ELSE 0) + queued

CoreInv(M) == CoreTypes(M) /\ RxCountExact /\ FramesCovered /\ RefsExact /\ PacketQueuedOnce

-------------------------------------------------------------------------------
(* What the steps do to the messages that are not yet handled.             *)

LEMMA UnhandledType ==
  ASSUME NEW M, CoreTypes(M), NEW type, NEW arg
  PROVE  Unhandled(type, arg) \in Nat
BY OccurrencesType DEF CoreTypes, Unhandled

LEMMA UnhandledKept ==
  ASSUME UNCHANGED <<io_queue, coreVars>>, NEW type, NEW arg
  PROVE  Unhandled(type, arg)' = Unhandled(type, arg)
BY DEF Unhandled, coreVars

LEMMA UnhandledPushed ==
  ASSUME NEW M, CoreTypes(M), NEW type, NEW arg, Message(type, arg) \in M,
         Pushed(type, arg), UNCHANGED coreVars, NEW ty, NEW a
  PROVE  /\ io_queue' \in Seq(M) /\ Len(io_queue') <= QItems
         /\ Unhandled(ty, a)' =
              Unhandled(ty, a) + (IF Message(type, arg) = Message(ty, a) THEN 1 ELSE 0)
<1>1. /\ Len(io_queue) \in Nat /\ Len(io_queue') = Len(io_queue) + 1
      /\ io_queue' \in Seq(M)
  BY AppendProperties DEF CoreTypes, Pushed
<1>2. Len(io_queue') <= QItems
  BY <1>1, QItemsAssumption DEF CoreTypes, Pushed
<1>3. Occurrences(io_queue', Message(ty, a)) =
        Occurrences(io_queue, Message(ty, a))
          + (IF Message(type, arg) = Message(ty, a) THEN 1 ELSE 0)
  BY OccurrencesAppend DEF CoreTypes, Pushed
<1>4. Occurrences(io_queue, Message(ty, a)) \in Nat
  BY OccurrencesType DEF CoreTypes
<1>5. Unhandled(ty, a)' = Occurrences(io_queue', Message(ty, a))
        + (IF core = "dispatch" /\ msg = Message(ty, a) THEN 1 ELSE 0)
  BY DEF Unhandled, coreVars, Message
<1> QED
  BY <1>1, <1>2, <1>3, <1>4, <1>5 DEF Unhandled

LEMMA UnhandledPopped ==
  ASSUME NEW M, CoreTypes(M), CorePop, NEW ty, NEW a
  PROVE  /\ io_queue' \in Seq(M) /\ Len(io_queue') <= QItems
         /\ msg' \in M
         /\ Unhandled(ty, a)' = Unhandled(ty, a)
<1>1. /\ io_queue' \in Seq(M) /\ Len(io_queue') = Len(io_queue) - 1
      /\ Len(io_queue) \in Nat /\ Head(io_queue) \in M
  BY HeadTailProperties DEF CoreTypes, CorePop
<1>2. Len(io_queue') <= QItems
  BY <1>1, QItemsAssumption DEF CoreTypes
<1>3. Occurrences(io_queue, Message(ty, a)) =
        Occurrences(io_queue', Message(ty, a))
          + (IF msg' = Message(ty, a) THEN 1 ELSE 0)
  BY OccurrencesTail DEF CoreTypes, CorePop
<1>4. Occurrences(io_queue', Message(ty, a)) \in Nat
  BY <1>1, OccurrencesType
<1>5. /\ Unhandled(ty, a)' = Occurrences(io_queue', Message(ty, a))
                               + (IF msg' = Message(ty, a) THEN 1 ELSE 0)
      /\ Unhandled(ty, a) = Occurrences(io_queue, Message(ty, a)) + 0
  BY DEF Unhandled, CorePop, Message
<1>6. Occurrences(io_queue, Message(ty, a)) \in Nat
  BY OccurrencesType DEF CoreTypes
<1> QED
  BY <1>1, <1>2, <1>3, <1>4, <1>5, <1>6 DEF CorePop

LEMMA UnhandledDispatched ==
  ASSUME NEW M, CoreTypes(M), core = "dispatch", core' # "dispatch", UNCHANGED <<io_queue, msg>>,
         NEW ty, NEW a
  PROVE  Unhandled(ty, a) = Unhandled(ty, a)' + (IF msg = Message(ty, a) THEN 1 ELSE 0)
<1>1. Occurrences(io_queue, Message(ty, a)) \in Nat
  BY OccurrencesType DEF CoreTypes
<1>2. Unhandled(ty, a)' = Occurrences(io_queue, Message(ty, a)) + 0
  BY DEF Unhandled, Message
<1> QED
  BY <1>1, <1>2 DEF Unhandled

LEMMA UnhandledIdle ==
  ASSUME core # "dispatch", core' # "dispatch", UNCHANGED io_queue, NEW ty, NEW a
  PROVE  Unhandled(ty, a)' = Unhandled(ty, a)
BY DEF Unhandled, Message

LEMMA MessagesDiffer ==
  ASSUME NEW ty, NEW a, NEW type, NEW arg
  PROVE  Message(ty, a) = Message(type, arg) <=> (ty = type /\ a = arg)
BY DEF Message

-------------------------------------------------------------------------------
(* Initiation and consecution.                                             *)

LEMMA CoreInvInit ==
  ASSUME NEW M, CoreInit
  PROVE  CoreInv(M)
<1>1. CoreTypes(M)
  BY QItemsAssumption DEF CoreInit, CoreTypes
<1>2. \A ty, a : Unhandled(ty, a) = 0
  BY OccurrencesEmpty DEF CoreInit, Unhandled
<1> QED
  BY <1>1, <1>2
     DEF CoreInv, CoreInit, RxCountExact, FramesCovered, RefsExact, PacketQueuedOnce

(* The interrupt.  A count of two with no failed push means two RX         *)
(* messages ahead, which is why dropping the third one is safe.            *)
LEMMA InterruptStep ==
  ASSUME NEW M, Carries(M), CoreInv(M), FrameArrives \/ RxInterrupt
  PROVE  CoreInv(M)'
<1> USE DEF CoreInv, CoreTypes, rxVars, txVars
<1>0. Unhandled("RX", 0) \in Nat /\ \A p \in Pbufs : Unhandled("TX", p) \in Nat
  BY UnhandledType
<1>1. CASE FrameArrives
  <2>1. \A ty, a : Unhandled(ty, a)' = Unhandled(ty, a)
    BY <1>1, UnhandledKept DEF FrameArrives
  <2> QED
    BY <1>0, <1>1, <2>1, QItemsAssumption
       DEF FrameArrives, coreVars, RxCountExact, FramesCovered, RefsExact, PacketQueuedOnce
<1>2. CASE RxCount
  <2>1. \A ty, a : Unhandled(ty, a)' = Unhandled(ty, a)
    BY <1>2, UnhandledKept DEF RxCount
  <2> QED
    BY <1>0, <1>2, <2>1
       DEF RxCount, coreVars, RxCountExact, FramesCovered, RefsExact, PacketQueuedOnce
<1>3. CASE RxPush /\ Pushed("RX", 0)
  <2>0. Message("RX", 0) \in M
    BY DEF CoreMessages, Carries
  <2>1. /\ io_queue' \in Seq(M) /\ Len(io_queue') <= QItems
        /\ Unhandled("RX", 0)' = Unhandled("RX", 0) + 1
        /\ \A p \in Pbufs : Unhandled("TX", p)' = Unhandled("TX", p)
    <3>1. Pushed("RX", 0) /\ UNCHANGED coreVars /\ CoreTypes(M)
      BY <1>3 DEF RxPush
    <3> HIDE DEF CoreTypes
    <3>2. io_queue' \in Seq(M) /\ Len(io_queue') <= QItems
      BY <2>0, <3>1, UnhandledPushed
    <3>3. \A ty, a : Unhandled(ty, a)' =
            Unhandled(ty, a) + (IF Message("RX", 0) = Message(ty, a) THEN 1 ELSE 0)
      BY <2>0, <3>1, UnhandledPushed
    <3> QED
      BY <1>0, <3>2, <3>3, MessagesDiffer
  <2>2. rx_failed' = rx_failed
    BY <1>3 DEF RxPush, Pushed, PushFailed
  <2> QED
    BY <1>0, <1>3, <2>1, <2>2
       DEF RxPush, coreVars, RxCountExact, FramesCovered, RefsExact, PacketQueuedOnce
<1>4. CASE RxPush /\ PushFailed /\ rx_failed' = rx_failed + 1
  <2>1. \A ty, a : Unhandled(ty, a)' = Unhandled(ty, a)
    BY <1>4, UnhandledKept DEF RxPush, PushFailed
  <2> QED
    BY <1>0, <1>4, <2>1
       DEF RxPush, PushFailed, coreVars, RxCountExact, FramesCovered, RefsExact, PacketQueuedOnce
<1> QED
  BY <1>1, <1>2, <1>3, <1>4 DEF RxInterrupt, RxPush

(* Transmission and the other senders.                                     *)
LEMMA SenderStep ==
  ASSUME NEW M, Carries(M), CoreInv(M),
         OtherPush \/ \E p \in Pbufs : TxRef(p) \/ TxPush(p) \/ TxRelease(p)
  PROVE  CoreInv(M)'
<1> USE DEF CoreInv, CoreTypes, rxVars, txVars
<1>0. Unhandled("RX", 0) \in Nat /\ \A p \in Pbufs : Unhandled("TX", p) \in Nat
  BY UnhandledType
<1>1. CASE OtherPush
  <2>0. Message("OTHER", 0) \in M
    BY DEF CoreMessages, Carries
  <2>1. /\ io_queue' \in Seq(M) /\ Len(io_queue') <= QItems
        /\ Unhandled("RX", 0)' = Unhandled("RX", 0)
        /\ \A p \in Pbufs : Unhandled("TX", p)' = Unhandled("TX", p)
    BY <1>0, <1>1, <2>0, UnhandledPushed, MessagesDiffer DEF OtherPush
  <2> QED
    BY <1>0, <1>1, <2>1
       DEF OtherPush, coreVars, RxCountExact, FramesCovered, RefsExact, PacketQueuedOnce
<1>2. ASSUME NEW p \in Pbufs, TxRef(p) \/ TxRelease(p)
      PROVE  CoreInv(M)'
  <2>1. \A ty, a : Unhandled(ty, a)' = Unhandled(ty, a)
    BY <1>2, UnhandledKept DEF TxRef, TxRelease
  <2>2. ref[p] \in Nat /\ (tx_stage[p] = "returned" => ref[p] > 0)
    <3>1. Unhandled("TX", p) \in Nat
      BY <1>0
    <3>2. tx_stage[p] = "returned" => ref[p] = 1 + 0 + Unhandled("TX", p)
      BY DEF RefsExact
    <3> QED
      BY <3>1, <3>2
  <2>3. CoreTypes(M)'
    <3>1. ref' = [ref EXCEPT ![p] = @ + 1] \/ (ref' = [ref EXCEPT ![p] = @ - 1] /\ ref[p] > 0)
      BY <1>2, <2>2 DEF TxRef, TxRelease
    <3>2. ref' \in [Pbufs -> Nat]
      BY <2>2, <3>1
    <3> QED
      BY <1>2, <3>2 DEF TxRef, TxRelease, coreVars
  <2>4. RefsExact'
    <3> SUFFICES ASSUME NEW r \in Pbufs
                 PROVE  ref'[r] = References(tx_stage'[r], Unhandled("TX", r)')
      BY DEF RefsExact, References
    <3>1. /\ ref[r] = References(tx_stage[r], Unhandled("TX", r))
          /\ Unhandled("TX", r) \in Nat
          /\ Unhandled("TX", r)' = Unhandled("TX", r)
      BY <1>0, <2>1 DEF RefsExact, References
    <3>2. CASE r # p
      <4>1. ref'[r] = ref[r] /\ tx_stage'[r] = tx_stage[r]
        BY <1>2, <3>2 DEF TxRef, TxRelease
      <4> QED
        BY <3>1, <4>1
    <3>3. CASE r = p /\ TxRef(p)
      <4>1. ref'[p] = ref[p] + 1 /\ tx_stage[p] = "new" /\ tx_stage'[p] = "push"
        BY <3>3 DEF TxRef
      <4> QED
        BY <3>1, <3>3, <4>1 DEF References
    <3>4. CASE r = p /\ TxRelease(p)
      <4>1. ref'[p] = ref[p] - 1 /\ tx_stage[p] = "returned" /\ tx_stage'[p] = "released"
        BY <3>4 DEF TxRelease
      <4> QED
        BY <3>1, <3>4, <4>1 DEF References
    <3> QED
      BY <1>2, <3>2, <3>3, <3>4
  <2> QED
    BY <1>0, <1>2, <2>1, <2>3, <2>4
       DEF TxRef, TxRelease, coreVars, RxCountExact, FramesCovered, PacketQueuedOnce
<1>3. ASSUME NEW p \in Pbufs, TxPush(p), Pushed("TX", p)
      PROVE  CoreInv(M)'
  <2>0. Message("TX", p) \in M
    BY DEF CoreMessages, Carries
  <2>1. /\ io_queue' \in Seq(M) /\ Len(io_queue') <= QItems
        /\ Unhandled("RX", 0)' = Unhandled("RX", 0)
        /\ Unhandled("TX", p)' = Unhandled("TX", p) + 1
        /\ \A r \in Pbufs \ {p} : Unhandled("TX", r)' = Unhandled("TX", r)
    <3>1. Pushed("TX", p) /\ UNCHANGED coreVars /\ CoreTypes(M)
      BY <1>3 DEF TxPush
    <3> HIDE DEF CoreTypes
    <3>2. io_queue' \in Seq(M) /\ Len(io_queue') <= QItems
      BY <2>0, <3>1, UnhandledPushed
    <3>3. \A ty, a : Unhandled(ty, a)' =
            Unhandled(ty, a) + (IF Message("TX", p) = Message(ty, a) THEN 1 ELSE 0)
      BY <2>0, <3>1, UnhandledPushed
    <3> QED
      BY <1>0, <3>2, <3>3, MessagesDiffer
  <2>2. ref' = ref
    BY <1>3, QItemsAssumption DEF TxPush, Pushed, PushFailed
  <2>3. CoreTypes(M)'
    BY <1>3, <2>1, <2>2 DEF TxPush, coreVars
  <2>4. RefsExact' /\ PacketQueuedOnce'
    BY <1>0, <1>3, <2>1, <2>2 DEF TxPush, RefsExact, PacketQueuedOnce
  <2> QED
    BY <1>0, <1>3, <2>1, <2>3, <2>4 DEF TxPush, coreVars, RxCountExact, FramesCovered
<1>4. ASSUME NEW p \in Pbufs, TxPush(p), PushFailed, ref' = [ref EXCEPT ![p] = @ - 1]
      PROVE  CoreInv(M)'
  <2>1. \A ty, a : Unhandled(ty, a)' = Unhandled(ty, a)
    BY <1>4, UnhandledKept DEF TxPush, PushFailed
  <2>2. ref[p] \in Nat /\ ref[p] > 0
    <3>1. Unhandled("TX", p) \in Nat
      BY <1>0
    <3>2. tx_stage[p] = "push"
      BY <1>4 DEF TxPush
    <3>3. ref[p] = 1 + 1 + Unhandled("TX", p)
      BY <3>2 DEF RefsExact
    <3> QED
      BY <3>1, <3>3
  <2>3. CoreTypes(M)'
    BY <1>4, <2>2 DEF TxPush, PushFailed, coreVars
  <2>4. RefsExact' /\ PacketQueuedOnce'
    BY <1>0, <1>4, <2>1, <2>2 DEF TxPush, RefsExact, PacketQueuedOnce
  <2> QED
    BY <1>0, <1>4, <2>1, <2>3, <2>4 DEF TxPush, coreVars, RxCountExact, FramesCovered
<1> QED
  BY <1>1, <1>2, <1>3, <1>4 DEF TxPush

(* The core thread.                                                        *)
LEMMA CoreThreadStep ==
  ASSUME NEW M, Carries(M), CoreInv(M), CoreThread
  PROVE  CoreInv(M)'
<1> USE DEF CoreInv, CoreTypes, rxVars, txVars
<1>0. Unhandled("RX", 0) \in Nat /\ \A p \in Pbufs : Unhandled("TX", p) \in Nat
  BY UnhandledType
<1>1. CASE CorePop
  <2>1. /\ io_queue' \in Seq(M) /\ Len(io_queue') <= QItems
        /\ msg' \in M
        /\ \A ty, a : Unhandled(ty, a)' = Unhandled(ty, a)
    BY <1>1, UnhandledPopped
  <2> QED
    BY <1>0, <1>1, <2>1
       DEF CorePop, RxCountExact, FramesCovered, RefsExact, PacketQueuedOnce
<1>2. CASE CoreDispatch /\ HandleRx
  <2>1. msg = Message("RX", 0)
    BY <1>2 DEF CoreDispatch, HandleRx, CoreMessages, Carries, Message
  <2>2. /\ Unhandled("RX", 0) = Unhandled("RX", 0)' + 1
        /\ \A p \in Pbufs : Unhandled("TX", p) = Unhandled("TX", p)' + 0
    BY <1>2, <2>1, UnhandledDispatched, MessagesDiffer DEF CoreDispatch, HandleRx
  <2>3. Unhandled("RX", 0)' \in Nat /\ \A p \in Pbufs : Unhandled("TX", p)' \in Nat
    BY <1>2, OccurrencesType DEF CoreDispatch, HandleRx, Unhandled
  <2>4. bmsg_rx_count = Unhandled("RX", 0) + (IF rx_stage = "push" THEN 1 ELSE 0) + rx_failed
    BY DEF RxCountExact
  <2>5. bmsg_rx_count > 0 /\ bmsg_rx_count' = bmsg_rx_count - 1
    BY <1>2, <2>2, <2>3, <2>4 DEF HandleRx
  <2>6. CoreTypes(M)' /\ RxCountExact'
    <3>1. CoreTypes(M)'
      BY <1>2, <2>5 DEF CoreDispatch, HandleRx
    <3>2. rx_stage' = rx_stage /\ rx_failed' = rx_failed
      BY <1>2 DEF HandleRx
    <3>3. bmsg_rx_count' =
            Unhandled("RX", 0)' + (IF rx_stage' = "push" THEN 1 ELSE 0) + rx_failed'
      BY <2>2, <2>3, <2>4, <2>5, <3>2
    <3> QED
      BY <3>1, <3>3 DEF RxCountExact
  <2>7. RefsExact' /\ PacketQueuedOnce'
    BY <1>0, <1>2, <2>2, <2>3 DEF CoreDispatch, HandleRx, RefsExact, PacketQueuedOnce
  <2> QED
    BY <1>2, <2>6, <2>7 DEF HandleRx, FramesCovered
<1>3. CASE CoreDispatch /\ HandleTx
  <2>1. PICK p \in Pbufs : msg = Message("TX", p)
    BY <1>3 DEF CoreDispatch, HandleTx, CoreMessages, Carries, Message
  <2>2. /\ Unhandled("RX", 0) = Unhandled("RX", 0)' + 0
        /\ Unhandled("TX", p) = Unhandled("TX", p)' + 1
        /\ \A r \in Pbufs \ {p} : Unhandled("TX", r) = Unhandled("TX", r)' + 0
    BY <1>3, <2>1, UnhandledDispatched, MessagesDiffer DEF CoreDispatch, HandleTx
  <2>3. Unhandled("RX", 0)' \in Nat /\ \A r \in Pbufs : Unhandled("TX", r)' \in Nat
    BY <1>3, OccurrencesType DEF CoreDispatch, HandleTx, Unhandled
  <2>4. ref' = [ref EXCEPT ![p] = @ - 1] /\ ref[p] \in Nat /\ ref[p] > 0
    <3>1. ref' = [ref EXCEPT ![p] = @ - 1]
      BY <1>3, <2>1 DEF HandleTx, Message
    <3>2. Unhandled("TX", p) \in Nat /\ Unhandled("TX", p) > 0
      BY <1>0, <2>2, <2>3
    <3>3. ref[p] = References(tx_stage[p], Unhandled("TX", p))
      BY DEF RefsExact, References
    <3>4. References(tx_stage[p], Unhandled("TX", p)) > 0
      BY <3>2 DEF References
    <3> QED
      BY <3>1, <3>3, <3>4
  <2>5. CoreTypes(M)'
    BY <1>3, <2>4 DEF CoreDispatch, HandleTx
  <2>6. RefsExact'
    <3>1. tx_stage' = tx_stage
      BY <1>3 DEF HandleTx
    <3>2. ASSUME NEW r \in Pbufs
          PROVE  ref'[r] = References(tx_stage'[r], Unhandled("TX", r)')
      <4>1. ref[r] = References(tx_stage[r], Unhandled("TX", r))
        BY DEF RefsExact, References
      <4>2. Unhandled("TX", r)' \in Nat
        BY <2>3
      <4>3. ref'[r] = IF r = p THEN ref[r] - 1 ELSE ref[r]
        BY <2>4
      <4>4. Unhandled("TX", r) = Unhandled("TX", r)' + (IF r = p THEN 1 ELSE 0)
        BY <2>2
      <4> QED
        BY <3>1, <4>1, <4>2, <4>3, <4>4 DEF References
    <3> QED
      BY <3>2 DEF RefsExact, References
  <2>7. PacketQueuedOnce'
    BY <1>0, <1>3, <2>2, <2>3 DEF CoreDispatch, HandleTx, PacketQueuedOnce
  <2> QED
    <3>1. /\ bmsg_rx_count' = bmsg_rx_count /\ rx_stage' = rx_stage
          /\ rx_frames' = rx_frames /\ rx_failed' = rx_failed /\ core # "rxl"
      BY <1>3 DEF CoreDispatch, HandleTx
    <3>2. Unhandled("RX", 0)' = Unhandled("RX", 0)
      BY <1>0, <2>2, <2>3
    <3>3. RxCountExact' /\ FramesCovered'
      BY <3>1, <3>2 DEF RxCountExact, FramesCovered
    <3> QED
      BY <2>5, <2>6, <2>7, <3>3
<1>4. CASE CoreDispatch /\ HandleOther
  <2>1. msg = Message("OTHER", 0)
    BY <1>4 DEF CoreDispatch, HandleOther, CoreMessages, Carries, Message
  <2>2. /\ Unhandled("RX", 0) = Unhandled("RX", 0)' + 0
        /\ \A p \in Pbufs : Unhandled("TX", p) = Unhandled("TX", p)' + 0
    BY <1>4, <2>1, UnhandledDispatched, MessagesDiffer DEF CoreDispatch, HandleOther
  <2>3. Unhandled("RX", 0)' \in Nat /\ \A p \in Pbufs : Unhandled("TX", p)' \in Nat
    BY <1>4, OccurrencesType DEF CoreDispatch, HandleOther, Unhandled
  <2> QED
    BY <1>0, <1>4, <2>2, <2>3
       DEF CoreDispatch, HandleOther, RxCountExact, FramesCovered, RefsExact, PacketQueuedOnce
<1>5. CASE ServeFrames \/ CoreLoop
  <2>1. \A ty, a : Unhandled(ty, a)' = Unhandled(ty, a)
    BY <1>5, UnhandledIdle DEF ServeFrames, CoreLoop
  <2> QED
    <3>1. CASE ServeFrames
      BY <1>0, <2>1, <3>1, QItemsAssumption
         DEF ServeFrames, RxCountExact, FramesCovered, RefsExact, PacketQueuedOnce
    <3>2. CASE CoreLoop
      BY <1>0, <2>1, <3>2
         DEF CoreLoop, RxCountExact, FramesCovered, RefsExact, PacketQueuedOnce
    <3> QED
      BY <1>5, <3>1, <3>2
<1> QED
  BY <1>1, <1>2, <1>3, <1>4, <1>5 DEF CoreThread, CoreDispatch

LEMMA CoreInvStep ==
  ASSUME NEW M, Carries(M), CoreInv(M), [CoreNext]_wifiVars
  PROVE  CoreInv(M)'
<1>1. CASE CoreNext
  BY <1>1, InterruptStep, SenderStep, CoreThreadStep DEF CoreNext
<1>2. CASE UNCHANGED wifiVars
  <2>1. \A ty, a : Unhandled(ty, a)' = Unhandled(ty, a)
    BY <1>2, UnhandledKept DEF wifiVars
  <2> QED
    BY <1>2, <2>1
       DEF wifiVars, rxVars, txVars, coreVars, CoreInv, CoreTypes,
           RxCountExact, FramesCovered, RefsExact, PacketQueuedOnce
<1> QED
  BY <1>1, <1>2

LEMMA CoreInvKeeps ==
  ASSUME NEW M, CoreInv(M)
  PROVE  CoreTypeOK /\ RxCountExact /\ FramesCovered /\ RefsExact
<1>1. Unhandled("RX", 0) \in Nat /\ \A p \in Pbufs : Unhandled("TX", p) \in Nat
  BY UnhandledType DEF CoreInv
<1>2. rx_failed \in 0..2
  BY <1>1 DEF CoreInv, CoreTypes, RxCountExact
<1>3. \A p \in Pbufs : ref[p] \in 0..2
  BY <1>1 DEF CoreInv, CoreTypes, RefsExact, PacketQueuedOnce
<1> QED
  BY <1>2, <1>3 DEF CoreInv, CoreTypes, CoreTypeOK

LEMMA CoreInvariance == CoreSpec => []CoreInv(CoreMessages)
<1>1. CoreInit => CoreInv(CoreMessages)
  BY CoreInvInit
<1>2. CoreInv(CoreMessages) /\ [CoreNext]_wifiVars => CoreInv(CoreMessages)'
  BY CoreInvStep DEF Carries
<1> QED
  BY <1>1, <1>2, PTL DEF CoreSpec

-------------------------------------------------------------------------------
(* Every variable has its type: in particular at most two RX messages are  *)
(* counted and at most two pushes of the interrupt ever fail               *)
(* (bmsg_rx_sender), and a packet has at most two references.              *)
THEOREM CoreTypeCorrect == CoreSpec => []CoreTypeOK
<1>1. CoreInv(CoreMessages) => CoreTypeOK
  BY CoreInvKeeps
<1> QED
  BY <1>1, CoreInvariance, PTL

(* bmsg_rx_count is the number of RX messages on their way plus the number *)
(* of pushes that failed (bmsg_rx_sender, bmsg_rx_handler).                *)
THEOREM RxCounted == CoreSpec => []RxCountExact
<1>1. CoreInv(CoreMessages) => RxCountExact
  BY CoreInvKeeps
<1> QED
  BY <1>1, CoreInvariance, PTL

(* A received frame always has an RX message ahead of it, although an      *)
(* interrupt that finds two of them posts none, until a push fails         *)
(* (bmsg_rx_sender, bmsg_rx_handler).                                      *)
THEOREM FramesAlwaysCovered == CoreSpec => []FramesCovered
<1>1. CoreInv(CoreMessages) => FramesCovered
  BY CoreInvKeeps
<1> QED
  BY <1>1, CoreInvariance, PTL

(* The references of a packet are exactly those lwIP and the core thread   *)
(* still hold, also after a push that failed (bmsg_tx_sender,              *)
(* bmsg_tx_handler).                                                       *)
THEOREM ReferencesExact == CoreSpec => []RefsExact
<1>1. CoreInv(CoreMessages) => RefsExact
  BY CoreInvKeeps
<1> QED
  BY <1>1, CoreInvariance, PTL
===============================================================================
