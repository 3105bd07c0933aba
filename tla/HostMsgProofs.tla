----------------------------- MODULE HostMsgProofs -----------------------------
(***************************************************************************)
(* What TLAPS proves of requests and confirmations, for any number of      *)
(* calls, any assignment of ids and any choice of the calls that wait.     *)
(***************************************************************************)
EXTENDS HostMsg, WifiCoreProofs, ListLemmas

-------------------------------------------------------------------------------
(* The list of waiting calls.                                              *)

(* co_list_extract takes its element out of a list without duplicates, and *)
(* nothing else.                                                           *)
LEMMA ExtractElements ==
  ASSUME NEW S, NEW list \in Seq(S), IsInjective(list), NEW e
  PROVE  /\ Extract(list, e) \in Seq(S)
         /\ IsInjective(Extract(list, e))
         /\ Range(Extract(list, e)) = Range(list) \ {e}
<1> DEFINE at == {i \in DOMAIN list : list[i] = e}
<1>1. CASE at = {}
  <2>1. e \notin Range(list)
    BY <1>1 DEF Range
  <2>2. Extract(list, e) = list
    BY <1>1 DEF Extract
  <2> QED
    BY <2>1, <2>2
<1>2. CASE at # {}
  <2> DEFINE k == CHOOSE i \in at : TRUE
  <2>1. k \in 1..Len(list) /\ list[k] = e
    BY <1>2
  <2>2. Extract(list, e) = RemoveAt(list, k)
    BY <1>2 DEF Extract
  <2> HIDE DEF k, at
  <2> QED
    BY <2>1, <2>2, RemoveAtRange
<1> QED
  BY <1>1, <1>2
-------------------------------------------------------------------------------
(* The inductive invariant.  TxHeadExact says who is in the list; what     *)
(* keeps the nodes alive is that kmsg holds only a listed one while it     *)
(* answers, that a call owns its node until Return, and that a posted      *)
(* semaphore means the answer already came.                                *)

HmTypes ==
  /\ pc \in [Reqs -> Labels]
  /\ node \in [Reqs -> {"none", "live", "freed"}]
  /\ rw_msg_tx_head \in Seq(NeedCfm)
  /\ semaphore \in [Reqs -> 0..1]
  /\ kmsg \in {"take", "receive", "found", "events"}
  /\ found \in Reqs \cup {NoReq}

Waiting ==
  {r \in NeedCfm : /\ pc[r] \in {"post", "wait", "suspended", "expired", "hung"}
                   /\ semaphore[r] = 0}

NodeOwned ==
  \A r \in NeedCfm :
    pc[r] \in {"post", "wait", "suspended", "expired", "confirmed", "extracted", "hung"}
      => node[r] = "live"

FoundWaits == IF kmsg = "found" THEN found \in Waiting ELSE found = NoReq

PostedLate ==
  \A r \in Reqs : semaphore[r] = 1 =>
    r \in NeedCfm /\ pc[r] \in {"post", "wait", "expired", "extracted", "hung"}

HmInv ==
  /\ HmTypes
  /\ IsInjective(rw_msg_tx_head) /\ Range(rw_msg_tx_head) = Waiting
  /\ NodeOwned
  /\ FoundWaits
  /\ PostedLate

LEMMA HmInvInit == HmInit => HmInv
<1> SUFFICES ASSUME HmInit PROVE HmInv
  OBVIOUS
<1>1. HmTypes /\ FoundWaits /\ NodeOwned /\ PostedLate
  BY ReqsAssumption DEF HmInit, HmTypes, Labels, FoundWaits, NodeOwned, PostedLate
<1>2. Waiting = {}
  BY ReqsAssumption DEF HmInit, Waiting
<1>3. Range(rw_msg_tx_head) = {} /\ IsInjective(rw_msg_tx_head)
  BY DEF HmInit, Range, IsInjective
<1> QED
  BY <1>1, <1>2, <1>3 DEF HmInv

(* Steps that leave the calls, their list and kmsg alone.                  *)
LEMMA HmElsewhere ==
  ASSUME HmInv, UNCHANGED <<pc, node, semaphore, rw_msg_tx_head, kmsg, found>>
  PROVE  HmInv'
<1>1. Waiting' = Waiting
  BY DEF Waiting
<1> QED
  BY <1>1 DEF HmInv, HmTypes, NodeOwned, FoundWaits, PostedLate

LEMMA CallStep ==
  ASSUME HmInv, NEW r \in Reqs, Call(r) \/ CallNoMemory(r)
  PROVE  HmInv'
<1> USE DEF HmInv, HmTypes, Labels, Move, callVars, kmsgVars
<1>0. pc[r] = "idle" /\ semaphore[r] = 0 /\ kmsg # "found"
  BY DEF Call, CallNoMemory, SenderRuns, PostedLate
<1>1. CASE CallNoMemory(r)
  <2>1. pc' = [pc EXCEPT ![r] = "failed"]
    BY <1>1 DEF CallNoMemory
  <2>2. UNCHANGED <<node, semaphore, rw_msg_tx_head, kmsg, found>>
    BY <1>1 DEF CallNoMemory
  <2>3. Waiting' = Waiting
    BY <1>0, <2>1, <2>2, ReqsAssumption DEF Waiting
  <2> QED
    BY <1>0, <2>1, <2>2, <2>3, ReqsAssumption DEF NodeOwned, FoundWaits, PostedLate
<1>2. CASE Call(r) /\ r \notin NeedCfm
  <2>1. pc' = [pc EXCEPT ![r] = "post"]
    BY <1>2 DEF Call
  <2>2. UNCHANGED <<node, semaphore, rw_msg_tx_head, kmsg, found>>
    BY <1>2 DEF Call
  <2>3. Waiting' = Waiting
    BY <1>2, <2>1, <2>2, ReqsAssumption DEF Waiting
  <2> QED
    BY <1>0, <1>2, <2>1, <2>2, <2>3, ReqsAssumption DEF NodeOwned, FoundWaits, PostedLate
<1>3. CASE Call(r) /\ r \in NeedCfm
  <2>1. /\ pc' = [pc EXCEPT ![r] = "post"] /\ node' = [node EXCEPT ![r] = "live"]
        /\ rw_msg_tx_head' = Append(rw_msg_tx_head, r)
    BY <1>3 DEF Call
  <2>2. UNCHANGED <<semaphore, kmsg, found>>
    BY <1>3 DEF Call
  <2>3. Waiting' = Waiting \cup {r}
    BY <1>0, <1>3, <2>1, <2>2, ReqsAssumption DEF Waiting
  <2>4. r \notin Waiting
    BY <1>0 DEF Waiting
  <2>5. /\ rw_msg_tx_head' \in Seq(NeedCfm) /\ IsInjective(rw_msg_tx_head')
        /\ Range(rw_msg_tx_head') = Waiting'
    BY <1>3, <2>1, <2>3, <2>4, RangeAppend
  <2>6. NodeOwned' /\ FoundWaits' /\ PostedLate'
    BY <1>0, <2>1, <2>2, ReqsAssumption DEF NodeOwned, FoundWaits, PostedLate
  <2>7. HmTypes'
    BY <2>1, <2>2, <2>5
  <2> QED
    BY <2>5, <2>6, <2>7
<1> QED
  BY <1>1, <1>2, <1>3

LEMMA PostStep ==
  ASSUME HmInv, NEW r \in Reqs, Post(r) \/ PostFails(r)
  PROVE  HmInv'
<1> USE DEF HmInv, HmTypes, Labels, Move, callVars, kmsgVars
<1>1. PICK label \in {"wait", "ok", "hung"} :
        /\ pc' = [pc EXCEPT ![r] = label]
        /\ r \in NeedCfm => label # "ok"
        /\ r \notin NeedCfm => label # "wait"
  BY DEF Post, PostFails
<1>2. /\ UNCHANGED <<node, semaphore, rw_msg_tx_head, kmsg, found>>
      /\ pc[r] = "post" /\ kmsg # "found"
  BY DEF Post, PostFails, SenderRuns
<1>3. Waiting' = Waiting
  BY <1>1, <1>2, ReqsAssumption DEF Waiting
<1>4. NodeOwned' /\ FoundWaits'
  BY <1>1, <1>2, ReqsAssumption DEF NodeOwned, FoundWaits
<1>5. r \notin NeedCfm => semaphore[r] = 0
  BY DEF PostedLate
<1> QED
  BY <1>1, <1>2, <1>3, <1>4, <1>5 DEF PostedLate

(* Waiting, and giving up: a call that timed out leaves the list also when *)
(* its answer came meanwhile, and then is not in it.                       *)
LEMMA WaitStep ==
  ASSUME HmInv, NEW r \in Reqs, Wait(r) \/ Expire(r) \/ GiveUp(r)
  PROVE  HmInv'
<1> USE DEF HmInv, HmTypes, Labels, Move, callVars, kmsgVars
<1>1. CASE Wait(r) /\ semaphore[r] > 0
  <2>1. /\ semaphore' = [semaphore EXCEPT ![r] = 0] /\ pc' = [pc EXCEPT ![r] = "confirmed"]
        /\ UNCHANGED <<node, rw_msg_tx_head, kmsg, found>>
        /\ pc[r] = "wait" /\ kmsg # "found"
    BY <1>1 DEF Wait, SenderRuns
  <2>2. Waiting' = Waiting
    BY <1>1, <2>1, ReqsAssumption DEF Waiting
  <2>3. NodeOwned' /\ FoundWaits'
    BY <2>1, <2>2, ReqsAssumption DEF NodeOwned, FoundWaits
  <2>4. PostedLate'
    BY <2>1 DEF PostedLate
  <2> QED
    BY <2>1, <2>2, <2>3, <2>4
<1>2. CASE Wait(r) /\ ~(semaphore[r] > 0)
  <2>1. /\ pc' = [pc EXCEPT ![r] = "suspended"]
        /\ UNCHANGED <<semaphore, node, rw_msg_tx_head, kmsg, found>>
        /\ pc[r] = "wait" /\ kmsg # "found"
    BY <1>2 DEF Wait, SenderRuns
  <2>2. semaphore[r] = 0
    BY <1>2
  <2>3. Waiting' = Waiting
    BY <2>1, ReqsAssumption DEF Waiting
  <2>4. NodeOwned' /\ FoundWaits'
    BY <2>1, <2>3, ReqsAssumption DEF NodeOwned, FoundWaits
  <2>5. PostedLate'
    BY <2>1, <2>2 DEF PostedLate
  <2> QED
    BY <2>1, <2>3, <2>4, <2>5
<1>3. CASE Expire(r)
  <2>1. /\ pc' = [pc EXCEPT ![r] = "expired"]
        /\ UNCHANGED <<semaphore, node, rw_msg_tx_head, kmsg, found>>
        /\ pc[r] = "suspended"
    BY <1>3 DEF Expire
  <2>2. Waiting' = Waiting
    BY <2>1, ReqsAssumption DEF Waiting
  <2>3. NodeOwned' /\ FoundWaits'
    BY <2>1, <2>2, ReqsAssumption DEF NodeOwned, FoundWaits
  <2>4. PostedLate'
    BY <2>1 DEF PostedLate
  <2> QED
    BY <2>1, <2>2, <2>3, <2>4
<1>4. CASE GiveUp(r)
  <2>1. /\ pc' = [pc EXCEPT ![r] = "extracted"]
        /\ rw_msg_tx_head' = Extract(rw_msg_tx_head, r)
        /\ UNCHANGED <<semaphore, node, kmsg, found>>
        /\ pc[r] = "expired" /\ kmsg # "found"
    BY <1>4 DEF GiveUp, SenderRuns
  <2>2. Waiting' = Waiting \ {r}
    BY <2>1, ReqsAssumption DEF Waiting
  <2>3. /\ rw_msg_tx_head' \in Seq(NeedCfm) /\ IsInjective(rw_msg_tx_head')
        /\ Range(rw_msg_tx_head') = Waiting'
    BY <2>1, <2>2, ExtractElements
  <2>4. NodeOwned' /\ FoundWaits'
    BY <2>1, ReqsAssumption DEF NodeOwned, FoundWaits
  <2>5. PostedLate'
    BY <2>1 DEF PostedLate
  <2> QED
    BY <2>1, <2>3, <2>4, <2>5
<1> QED
  BY <1>1, <1>2, <1>3, <1>4

(* Only a call that is out of the list frees its node.                     *)
LEMMA ReturnStep ==
  ASSUME HmInv, NEW r \in Reqs, Return(r)
  PROVE  HmInv'
<1> USE DEF HmInv, HmTypes, Labels, Move, callVars, kmsgVars
<1>1. PICK label \in {"ok", "failed"} : pc' = [pc EXCEPT ![r] = label]
  BY DEF Return
<1>2. /\ node' = [node EXCEPT ![r] = "freed"] /\ semaphore' = [semaphore EXCEPT ![r] = 0]
      /\ UNCHANGED <<rw_msg_tx_head, kmsg, found>>
      /\ pc[r] \in {"extracted", "confirmed"} /\ kmsg # "found"
  BY DEF Return, SenderRuns
<1>3. Waiting' = Waiting
  BY <1>1, <1>2, ReqsAssumption DEF Waiting
<1>4. NodeOwned' /\ FoundWaits'
  BY <1>1, <1>2, <1>3, ReqsAssumption DEF NodeOwned, FoundWaits
<1>5. PostedLate'
  BY <1>1, <1>2 DEF PostedLate
<1> QED
  BY <1>1, <1>2, <1>3, <1>4, <1>5

(* kmsg.  No sender runs between KmsgReceive and KmsgAnswer, so the node   *)
(* it found still waits when it answers.                                   *)
LEMMA KmsgStep ==
  ASSUME HmInv, Kmsg
  PROVE  HmInv'
<1> USE DEF HmInv, HmTypes, Labels, Move, callVars, kmsgVars
<1>1. CASE KmsgTake \/ KmsgDrained \/ KmsgLoop
  <2>1. /\ UNCHANGED <<pc, node, semaphore, rw_msg_tx_head, found>>
        /\ kmsg # "found" /\ kmsg' \in {"take", "receive", "events"}
    BY <1>1 DEF KmsgTake, KmsgDrained, KmsgLoop
  <2>2. Waiting' = Waiting
    BY <2>1 DEF Waiting
  <2> QED
    BY <2>1, <2>2 DEF NodeOwned, FoundWaits, PostedLate
<1>2. CASE KmsgReceive /\ UNCHANGED kmsgVars
  <2>1. UNCHANGED <<pc, node, semaphore, rw_msg_tx_head, kmsg, found>>
    BY <1>2 DEF KmsgReceive
  <2> QED
    BY <2>1, HmElsewhere
<1>3. CASE KmsgReceive /\ kmsg' = "found"
  <2>1. UNCHANGED <<pc, node, semaphore, rw_msg_tx_head>>
    BY <1>3 DEF KmsgReceive
  <2>2. \E i \in DOMAIN rw_msg_tx_head : found' = rw_msg_tx_head[i]
    BY <1>3 DEF KmsgReceive
  <2>3. found' \in Waiting
    BY <2>2 DEF Range
  <2>4. Waiting' = Waiting /\ Waiting \subseteq Reqs
    BY <2>1, ReqsAssumption DEF Waiting
  <2> QED
    BY <1>3, <2>1, <2>3, <2>4 DEF NodeOwned, FoundWaits, PostedLate
<1>4. CASE KmsgAnswer
  <2>0. found \in Waiting /\ found \in NeedCfm /\ found \in Reqs /\ semaphore[found] = 0
    BY <1>4, ReqsAssumption DEF KmsgAnswer, FoundWaits, Waiting
  <2>1. /\ rw_msg_tx_head' = Extract(rw_msg_tx_head, found)
        /\ UNCHANGED node /\ kmsg' = "receive" /\ found' = NoReq
    BY <1>4 DEF KmsgAnswer
  <2>2. \/ /\ pc[found] = "suspended" /\ UNCHANGED semaphore
           /\ pc' = [pc EXCEPT ![found] = "confirmed"]
        \/ /\ pc[found] \in {"post", "wait", "expired", "hung"} /\ UNCHANGED pc
           /\ semaphore' = [semaphore EXCEPT ![found] = 1]
    <3>1. CASE pc[found] = "suspended"
      BY <1>4, <3>1 DEF KmsgAnswer
    <3>2. CASE pc[found] # "suspended"
      <4>1. UNCHANGED pc /\ semaphore' = [semaphore EXCEPT ![found] = @ + 1]
        BY <1>4, <3>2 DEF KmsgAnswer
      <4>2. pc[found] \in {"post", "wait", "expired", "hung"}
        BY <2>0, <3>2 DEF Waiting
      <4> QED
        BY <2>0, <4>1, <4>2
    <3> QED
      BY <3>1, <3>2
  <2>3. Waiting' = Waiting \ {found}
    BY <2>0, <2>2, ReqsAssumption DEF Waiting
  <2>4. /\ rw_msg_tx_head' \in Seq(NeedCfm) /\ IsInjective(rw_msg_tx_head')
        /\ Range(rw_msg_tx_head') = Waiting'
    BY <2>1, <2>3, ExtractElements
  <2>5. HmTypes'
    BY <2>0, <2>1, <2>2, <2>4
  <2>6. NodeOwned'
    BY <2>1, <2>2, ReqsAssumption DEF NodeOwned
  <2>7. PostedLate'
    BY <2>0, <2>2 DEF PostedLate
  <2> QED
    BY <2>1, <2>4, <2>5, <2>6, <2>7 DEF FoundWaits
<1> QED
  BY <1>1, <1>2, <1>3, <1>4 DEF Kmsg, KmsgReceive

LEMMA HmInvStep == HmInv /\ [HmNext]_hmVars => HmInv'
<1> SUFFICES ASSUME HmInv, [HmNext]_hmVars PROVE HmInv'
  OBVIOUS
<1>1. CASE HandleIoctl \/ (CoreNext /\ UNCHANGED hostVars) \/ UNCHANGED hmVars
           \/ \E r \in Reqs : Forward(r)
  <2>1. UNCHANGED <<pc, node, semaphore, rw_msg_tx_head, kmsg, found>>
    BY <1>1 DEF HandleIoctl, Forward, hostVars, hmVars, callVars, kmsgVars
  <2> QED
    BY <2>1, HmElsewhere
<1>2. CASE \E r \in Reqs : Sender(r) \/ Expire(r)
  BY <1>2, CallStep, PostStep, WaitStep, ReturnStep DEF Sender
<1>3. CASE Kmsg
  BY <1>3, KmsgStep
<1> QED
  BY <1>1, <1>2, <1>3 DEF HmNext

LEMMA HmInvariance == HmSpec => []HmInv
BY HmInvInit, HmInvStep, PTL DEF HmSpec

-------------------------------------------------------------------------------
(* rw_msg_tx_head holds exactly the calls that asked for a confirmation    *)
(* and were neither answered nor gave up, once (rw_msg_send,               *)
(* rwnx_recv_msg).                                                         *)
THEOREM TxHeadIsExact == HmSpec => []TxHeadExact
<1>1. HmInv => TxHeadExact
  BY DEF HmInv, TxHeadExact, Waiting
<1> QED
  BY <1>1, HmInvariance, PTL

(* A node that rw_msg_send freed is neither in the list nor in the hands   *)
(* of rwnx_recv_msg, however timeouts and confirmations race.              *)
THEOREM NodesNeverDangle == HmSpec => []NodesAlive
<1>1. HmInv => NodesAlive
  <2> SUFFICES ASSUME HmInv PROVE NodesAlive
    OBVIOUS
  <2>1. \A r \in Waiting : node[r] = "live"
    BY DEF HmInv, NodeOwned, Waiting
  <2>2. \A i \in 1..Len(rw_msg_tx_head) : rw_msg_tx_head[i] \in Waiting
    BY DEF HmInv, HmTypes, Range
  <2>3. found # NoReq => found \in Waiting
    BY DEF HmInv, FoundWaits
  <2> QED
    BY <2>1, <2>2, <2>3 DEF NodesAlive
<1> QED
  BY <1>1, HmInvariance, PTL

-------------------------------------------------------------------------------
(***************************************************************************)
(* The way of a request.  It is in one place at a time: not yet posted, in *)
(* the core thread's queue, in the hands of the core thread, in the MAC    *)
(* library, in rw_msg_rx_head, with kmsg, or copied out as a confirmation. *)
(* It only ever goes forward, and this is why no confirmation answers two  *)
(* calls and why app_sema has a bound.                                     *)
(***************************************************************************)
HostMessages ==
  [type : {"RX", "TX", "OTHER"}, arg : {0} \cup Pbufs] \cup [type : {"IOCTL"}, arg : Reqs]

HostTypes ==
  /\ io_queue \in Seq(HostMessages)
  /\ core = "dispatch" => msg \in HostMessages
  /\ rw_msg_rx_head \in Seq(Reqs)
  /\ cfm \in [Reqs -> Reqs \cup {NoReq}]
  /\ heap \in {"ok", "bad_free"}
  /\ lmac \subseteq Reqs
  /\ app_sema \in Nat
  /\ rx_msg \in Reqs \cup {NoReq}
  /\ kmsg = "found" => rx_msg \in Reqs

Unposted == {r \in Reqs : pc[r] \in {"idle", "post"}}
Queued == {r \in Reqs : \E i \in 1..Len(io_queue) : io_queue[i] = Message("IOCTL", r)}
InCore == {r \in Reqs : core = "dispatch" /\ msg = Message("IOCTL", r)}
InKmsg == {r \in Reqs : kmsg = "found" /\ rx_msg = r}
Given == {r \in Reqs : \E c \in Reqs : cfm[c] = r}

Stages == {"call", "queue", "core", "lmac", "rx", "kmsg", "given"}

Place(stage) ==
  CASE stage = "call" -> Unposted
    [] stage = "queue" -> Queued
    [] stage = "core" -> InCore
    [] stage = "lmac" -> lmac
    [] stage = "rx" -> Range(rw_msg_rx_head)
    [] stage = "kmsg" -> InKmsg
    [] stage = "given" -> Given

InOnePlace == \A s, u \in Stages : s # u => Place(s) \cap Place(u) = {}

(* Once in its place, too.                                                 *)
QueuedOnce ==
  \A i, j \in 1..Len(io_queue) : io_queue[i] = io_queue[j] /\ io_queue[i].type = "IOCTL" => i = j

GivenOnce == \A c, d \in Reqs : cfm[c] = cfm[d] => c = d \/ cfm[c] = NoReq

JourneyInv ==
  /\ HostTypes /\ InOnePlace /\ QueuedOnce /\ GivenOnce
  /\ IsInjective(rw_msg_rx_head)

(* A request that moves on, others that may disappear: still one place.    *)
LEMMA PlacesMove ==
  ASSUME InOnePlace, NEW from \in Stages, NEW to \in Stages, NEW r \in Place(from),
         \A s \in Stages : Place(s)' \subseteq IF s = to THEN Place(s) \cup {r}
                                              ELSE IF s = from THEN Place(s) \ {r} ELSE Place(s)
  PROVE  InOnePlace'
<1> SUFFICES ASSUME NEW s \in Stages, NEW u \in Stages, s # u, NEW x \in Place(s)', x \in Place(u)'
             PROVE  FALSE
  BY DEF InOnePlace
<1>1. \A v \in Stages : r \in Place(v) => v = from
  BY DEF InOnePlace
<1>2. x \in Place(s) \/ (s = to /\ x = r)
  OBVIOUS
<1>3. x \in Place(u) \/ (u = to /\ x = r)
  OBVIOUS
<1> QED
  BY <1>1, <1>2, <1>3 DEF InOnePlace

LEMMA PlacesStay ==
  ASSUME InOnePlace, \A s \in Stages : Place(s)' \subseteq Place(s)
  PROVE  InOnePlace'
<1> SUFFICES ASSUME NEW s \in Stages, NEW u \in Stages, s # u, NEW x \in Place(s)', x \in Place(u)'
             PROVE  FALSE
  BY DEF InOnePlace
<1>1. x \in Place(s) /\ x \in Place(u)
  OBVIOUS
<1> QED
  BY <1>1 DEF InOnePlace

LEMMA PlacesAre ==
  /\ Place("call") = Unposted /\ Place("queue") = Queued /\ Place("core") = InCore
  /\ Place("lmac") = lmac /\ Place("rx") = Range(rw_msg_rx_head) /\ Place("kmsg") = InKmsg
  /\ Place("given") = Given
BY DEF Place

LEMMA PlacesAreNext ==
  /\ Place("call")' = Unposted' /\ Place("queue")' = Queued' /\ Place("core")' = InCore'
  /\ Place("lmac")' = lmac' /\ Place("rx")' = Range(rw_msg_rx_head)'
  /\ Place("kmsg")' = InKmsg' /\ Place("given")' = Given'
BY DEF Place

LEMMA StagesAre ==
  ASSUME NEW s \in Stages
  PROVE  s \in {"call", "queue", "core", "lmac", "rx", "kmsg", "given"}
BY DEF Stages

(* The queue gains a message, or gives its oldest one.                     *)
LEMMA IoctlMeans ==
  ASSUME NEW m \in HostMessages
  PROVE  /\ m.type = "IOCTL" => m.arg \in Reqs /\ m = Message("IOCTL", m.arg)
         /\ \A r : m = Message("IOCTL", r) => m.type = "IOCTL" /\ m.arg = r
BY DEF HostMessages, Message

LEMMA QueueGains ==
  ASSUME io_queue \in Seq(HostMessages), QueuedOnce, NEW m \in HostMessages,
         io_queue' = Append(io_queue, m), m.type = "IOCTL" => m.arg \notin Queued
  PROVE  /\ io_queue' \in Seq(HostMessages) /\ QueuedOnce'
         /\ Queued' \subseteq IF m.type = "IOCTL" THEN Queued \cup {m.arg} ELSE Queued
<1> DEFINE n == Len(io_queue)
<1>1. /\ n \in Nat /\ io_queue' \in Seq(HostMessages) /\ Len(io_queue') = n + 1
      /\ io_queue'[n + 1] = m /\ \A i \in 1..n : io_queue'[i] = io_queue[i]
  BY AppendProperties
<1>2. \A i \in 1..(n + 1) : i \in 1..n \/ i = n + 1
  BY <1>1
<1>3. Queued' \subseteq IF m.type = "IOCTL" THEN Queued \cup {m.arg} ELSE Queued
  <2> SUFFICES ASSUME NEW r \in Queued', r \notin Queued
               PROVE  m.type = "IOCTL" /\ r = m.arg
    OBVIOUS
  <2>1. r \in Reqs /\ m = Message("IOCTL", r)
    BY <1>1, <1>2 DEF Queued
  <2> QED
    BY <2>1, IoctlMeans
<1>4. \A i \in 1..n : io_queue[i] = m /\ m.type = "IOCTL" => m.arg \in Queued
  BY IoctlMeans DEF Queued
<1>5. QueuedOnce'
  <2> SUFFICES ASSUME NEW i \in 1..(n + 1), NEW j \in 1..(n + 1), io_queue'[i] = io_queue'[j],
                      io_queue'[i].type = "IOCTL"
               PROVE  i = j
    BY <1>1 DEF QueuedOnce
  <2>1. CASE i \in 1..n /\ j \in 1..n
    BY <1>1, <2>1 DEF QueuedOnce
  <2>2. CASE i = n + 1 \/ j = n + 1
    BY <1>1, <1>2, <1>4, <2>2
  <2> QED
    BY <1>2, <2>1, <2>2
<1> QED
  BY <1>1, <1>3, <1>5

LEMMA QueueGives ==
  ASSUME io_queue \in Seq(HostMessages), QueuedOnce, io_queue # << >>, io_queue' = Tail(io_queue)
  PROVE  /\ io_queue' \in Seq(HostMessages) /\ QueuedOnce' /\ Head(io_queue) \in HostMessages
         /\ Queued' \subseteq Queued
         /\ \A r \in Reqs : Head(io_queue) = Message("IOCTL", r) => r \in Queued /\ r \notin Queued'
<1> DEFINE n == Len(io_queue)
<1>1. /\ n \in Nat \ {0} /\ io_queue' \in Seq(HostMessages) /\ Len(io_queue') = n - 1
      /\ Head(io_queue) = io_queue[1] /\ 1 \in 1..n /\ io_queue[1] \in HostMessages
      /\ \A i \in 1..(n - 1) : io_queue'[i] = io_queue[i + 1]
  BY HeadTailProperties, EmptySeq
<1>2. \A i \in 1..(n - 1) : i + 1 \in 1..n /\ i + 1 # 1
  BY <1>1
<1>3. Queued' \subseteq Queued
  BY <1>1, <1>2 DEF Queued
<1>4. QueuedOnce'
  <2> SUFFICES ASSUME NEW i \in 1..(n - 1), NEW j \in 1..(n - 1), io_queue'[i] = io_queue'[j],
                      io_queue'[i].type = "IOCTL"
               PROVE  i = j
    BY <1>1 DEF QueuedOnce
  <2>1. i + 1 = j + 1
    BY <1>1, <1>2 DEF QueuedOnce
  <2> QED
    BY <2>1
<1>5. ASSUME NEW r \in Reqs, Head(io_queue) = Message("IOCTL", r)
      PROVE  r \in Queued /\ r \notin Queued'
  <2>1. r \in Queued
    BY <1>1, <1>5 DEF Queued
  <2>2. ASSUME NEW i \in 1..(n - 1), io_queue'[i] = Message("IOCTL", r)
        PROVE  FALSE
    <3>1. io_queue[i + 1] = io_queue[1] /\ io_queue[1].type = "IOCTL"
      BY <1>1, <1>5, <2>2 DEF Message
    <3> QED
      BY <1>1, <1>2, <3>1 DEF QueuedOnce
  <2> QED
    BY <1>1, <2>1, <2>2 DEF Queued
<1> QED
  BY <1>1, <1>3, <1>4, <1>5
-------------------------------------------------------------------------------
(* What the library has not confirmed yet.                                 *)
Ahead == Unposted \cup Queued \cup InCore \cup lmac

OnItsWay == JourneyInv' /\ Ahead' \subseteq Ahead

LEMMA PlacesShrink ==
  ASSUME InOnePlace, Unposted' \subseteq Unposted, Queued' \subseteq Queued, InCore' \subseteq InCore,
         lmac' \subseteq lmac, Range(rw_msg_rx_head)' \subseteq Range(rw_msg_rx_head),
         InKmsg' \subseteq InKmsg, Given' \subseteq Given
  PROVE  InOnePlace'
BY PlacesAre, PlacesAreNext, StagesAre, PlacesStay

(* Steps that neither post, handle nor confirm a request.                  *)
LEMMA JourneyKept ==
  ASSUME JourneyInv, UNCHANGED <<io_queue, core, msg, cfm, rw_msg_rx_head, lmac, rx_msg>>,
         heap' \in {"ok", "bad_free"}, app_sema' \in Nat, Unposted' \subseteq Unposted,
         kmsg' = "found" => kmsg = "found"
  PROVE  OnItsWay
<1> USE DEF JourneyInv
<1>1. HostTypes' /\ QueuedOnce' /\ GivenOnce' /\ IsInjective(rw_msg_rx_head)'
  BY DEF HostTypes, QueuedOnce, GivenOnce
<1>2. /\ Queued' = Queued /\ InCore' = InCore /\ Given' = Given
      /\ Range(rw_msg_rx_head)' = Range(rw_msg_rx_head) /\ InKmsg' \subseteq InKmsg
  BY DEF Queued, InCore, Given, InKmsg
<1>3. InOnePlace'
  BY <1>2, PlacesShrink
<1> QED
  BY <1>1, <1>2, <1>3 DEF OnItsWay, Ahead

LEMMA CallerJourney ==
  ASSUME HmTypes, JourneyInv, NEW r \in Reqs,
         \/ Call(r) \/ CallNoMemory(r) \/ PostFails(r) \/ Wait(r) \/ GiveUp(r) \/ Return(r)
         \/ Expire(r)
  PROVE  OnItsWay
<1>1. /\ UNCHANGED <<io_queue, core, msg, cfm, rw_msg_rx_head, lmac, rx_msg, kmsg, app_sema>>
      /\ heap' \in {heap, "bad_free"}
  BY DEF Call, CallNoMemory, PostFails, Wait, GiveUp, Return, Expire, PushFailed, wifiVars,
         coreVars, kmsgVars
<1>2. \E label \in Labels :
        /\ pc' = [pc EXCEPT ![r] = label]
        /\ label \in {"idle", "post"} => pc[r] \in {"idle", "post"}
  BY DEF Call, CallNoMemory, PostFails, Wait, GiveUp, Return, Expire, Move, Labels
<1>3. Unposted' \subseteq Unposted
  BY <1>2 DEF Unposted, HmTypes
<1>4. heap' \in {"ok", "bad_free"} /\ app_sema' \in Nat
  BY <1>1 DEF JourneyInv, HostTypes
<1> QED
  BY <1>1, <1>3, <1>4, JourneyKept

LEMMA PostJourney ==
  ASSUME HmTypes, JourneyInv, NEW r \in Reqs, Post(r)
  PROVE  OnItsWay
<1> USE DEF JourneyInv
<1>1. /\ UNCHANGED <<core, msg, cfm, rw_msg_rx_head, lmac, rx_msg, kmsg, app_sema, heap>>
      /\ io_queue' = Append(io_queue, Message("IOCTL", r))
  BY DEF Post, Pushed, coreVars, kmsgVars
<1>2. /\ r \in Unposted
      /\ Unposted' \subseteq Unposted \ {r}
  <2>1. PICK label \in {"wait", "ok"} : pc' = [pc EXCEPT ![r] = label]
    BY DEF Post, Move
  <2>2. pc[r] = "post"
    BY DEF Post
  <2> QED
    BY <2>1, <2>2 DEF Unposted, HmTypes
<1>3. r \notin Queued
  BY <1>2, PlacesAre DEF InOnePlace, Stages
<1>4. /\ Message("IOCTL", r) \in HostMessages
      /\ Message("IOCTL", r).type = "IOCTL" /\ Message("IOCTL", r).arg = r
  BY DEF HostMessages, Message
<1>5. io_queue' \in Seq(HostMessages) /\ QueuedOnce' /\ Queued' \subseteq Queued \cup {r}
  BY <1>1, <1>3, <1>4, QueueGains DEF HostTypes
<1>6. HostTypes' /\ GivenOnce' /\ IsInjective(rw_msg_rx_head)'
  BY <1>1, <1>5 DEF HostTypes, GivenOnce
<1>7. /\ InCore' = InCore /\ Given' = Given /\ lmac' = lmac
      /\ Range(rw_msg_rx_head)' = Range(rw_msg_rx_head) /\ InKmsg' = InKmsg
  BY <1>1 DEF InCore, Given, InKmsg
<1>8. InOnePlace'
  <2>1. r \in Place("call") /\ "call" \in Stages /\ "queue" \in Stages
    BY <1>2, PlacesAre DEF Stages
  <2>2. \A s \in Stages : Place(s)' \subseteq IF s = "queue" THEN Place(s) \cup {r}
                                              ELSE IF s = "call" THEN Place(s) \ {r} ELSE Place(s)
    BY <1>2, <1>5, <1>7, PlacesAre, PlacesAreNext, StagesAre
  <2> QED
    BY <2>1, <2>2, PlacesMove
<1>9. Ahead' \subseteq Ahead
  BY <1>2, <1>5, <1>7 DEF Ahead
<1> QED
  BY <1>5, <1>6, <1>8, <1>9 DEF OnItsWay

LEMMA HandleJourney ==
  ASSUME JourneyInv, HandleIoctl
  PROVE  OnItsWay
<1> USE DEF JourneyInv
<1> DEFINE r == msg.arg
<1>1. /\ UNCHANGED <<io_queue, msg, pc, cfm, rw_msg_rx_head, rx_msg, kmsg, app_sema, heap>>
      /\ core = "dispatch" /\ core' = "events" /\ msg.type = "IOCTL" /\ lmac' = lmac \cup {r}
  BY DEF HandleIoctl, callVars, kmsgVars
<1>2. r \in Reqs /\ msg = Message("IOCTL", r)
  BY <1>1, IoctlMeans DEF HostTypes
<1> HIDE DEF r
<1>3. r \in InCore /\ InCore' \subseteq InCore \ {r}
  BY <1>1, <1>2 DEF InCore
<1>4. HostTypes' /\ QueuedOnce' /\ GivenOnce' /\ IsInjective(rw_msg_rx_head)'
  BY <1>1, <1>2 DEF HostTypes, QueuedOnce, GivenOnce
<1>5. /\ Unposted' = Unposted /\ Queued' = Queued /\ Given' = Given
      /\ Range(rw_msg_rx_head)' = Range(rw_msg_rx_head) /\ InKmsg' = InKmsg
  BY <1>1 DEF Unposted, Queued, Given, InKmsg
<1>6. InOnePlace'
  <2>1. r \in Place("core") /\ "core" \in Stages /\ "lmac" \in Stages
    BY <1>3, PlacesAre DEF Stages
  <2>2. \A s \in Stages : Place(s)' \subseteq IF s = "lmac" THEN Place(s) \cup {r}
                                              ELSE IF s = "core" THEN Place(s) \ {r} ELSE Place(s)
    BY <1>1, <1>3, <1>5, PlacesAre, PlacesAreNext, StagesAre
  <2> QED
    BY <2>1, <2>2, PlacesMove
<1>7. Ahead' \subseteq Ahead
  BY <1>1, <1>3, <1>5 DEF Ahead
<1> QED
  BY <1>4, <1>6, <1>7 DEF OnItsWay

LEMMA ForwardJourney ==
  ASSUME JourneyInv, NEW r \in Reqs, Forward(r)
  PROVE  OnItsWay
<1> USE DEF JourneyInv
<1>1. /\ UNCHANGED <<io_queue, core, msg, pc, cfm, rx_msg, kmsg, heap>>
      /\ r \in lmac /\ lmac' = lmac \ {r} /\ app_sema' = app_sema + 1
      /\ rw_msg_rx_head' = Append(rw_msg_rx_head, r)
  BY DEF Forward, wifiVars, coreVars, callVars, kmsgVars
<1>2. r \notin Range(rw_msg_rx_head)
  BY <1>1, PlacesAre DEF InOnePlace, Stages
<1>3. /\ rw_msg_rx_head' \in Seq(Reqs) /\ IsInjective(rw_msg_rx_head')
      /\ Range(rw_msg_rx_head') = Range(rw_msg_rx_head) \cup {r}
  BY <1>1, <1>2, RangeAppend DEF HostTypes
<1>4. HostTypes' /\ QueuedOnce' /\ GivenOnce' /\ IsInjective(rw_msg_rx_head)'
  BY <1>1, <1>3 DEF HostTypes, QueuedOnce, GivenOnce
<1>5. /\ Unposted' = Unposted /\ Queued' = Queued /\ Given' = Given
      /\ InCore' = InCore /\ InKmsg' = InKmsg
  BY <1>1 DEF Unposted, Queued, Given, InCore, InKmsg
<1>6. InOnePlace'
  <2>1. r \in Place("lmac") /\ "lmac" \in Stages /\ "rx" \in Stages
    BY <1>1, PlacesAre DEF Stages
  <2>2. \A s \in Stages : Place(s)' \subseteq IF s = "rx" THEN Place(s) \cup {r}
                                              ELSE IF s = "lmac" THEN Place(s) \ {r} ELSE Place(s)
    BY <1>1, <1>3, <1>5, PlacesAre, PlacesAreNext, StagesAre
  <2> QED
    BY <2>1, <2>2, PlacesMove
<1>7. Ahead' \subseteq Ahead
  BY <1>1, <1>5 DEF Ahead
<1> QED
  BY <1>4, <1>6, <1>7 DEF OnItsWay
LEMMA KmsgJourney ==
  ASSUME HmTypes, FoundWaits, JourneyInv, Kmsg
  PROVE  OnItsWay
<1> USE DEF JourneyInv
<1>1. CASE KmsgTake \/ KmsgDrained \/ KmsgLoop
  <2>1. /\ UNCHANGED <<io_queue, core, msg, pc, cfm, rw_msg_rx_head, lmac, rx_msg, heap>>
        /\ app_sema' = app_sema \/ (app_sema > 0 /\ app_sema' = app_sema - 1)
        /\ kmsg' # "found"
    BY <1>1 DEF KmsgTake, KmsgDrained, KmsgLoop, wifiVars, coreVars, callVars
  <2>2. heap' \in {"ok", "bad_free"} /\ app_sema' \in Nat /\ Unposted' \subseteq Unposted
    BY <2>1 DEF HostTypes, Unposted
  <2> QED
    BY <2>1, <2>2, JourneyKept
<1>2. CASE KmsgReceive
  <2> DEFINE m == Head(rw_msg_rx_head)
  <2>1. /\ UNCHANGED <<io_queue, core, msg, pc, cfm, lmac, app_sema, heap>>
        /\ kmsg = "receive" /\ rw_msg_rx_head # << >> /\ rw_msg_rx_head' = Tail(rw_msg_rx_head)
        /\ \/ UNCHANGED <<kmsg, rx_msg>>
           \/ kmsg' = "found" /\ rx_msg' = m
    BY <1>2 DEF KmsgReceive, wifiVars, coreVars, callVars, kmsgVars
  <2> HIDE DEF m
  <2>2. /\ m \in Range(rw_msg_rx_head) /\ m \in Reqs
        /\ rw_msg_rx_head' \in Seq(Reqs) /\ IsInjective(rw_msg_rx_head')
        /\ Range(rw_msg_rx_head') = Range(rw_msg_rx_head) \ {m}
    <3>1. rw_msg_rx_head \in Seq(Reqs) /\ IsInjective(rw_msg_rx_head)
      BY DEF HostTypes
    <3>2. Head(rw_msg_rx_head) \in Reqs
      BY <2>1, <3>1, HeadTailProperties
    <3> QED
      BY <2>1, <3>1, <3>2, TailRange DEF m
  <2>3. HostTypes' /\ QueuedOnce' /\ GivenOnce' /\ IsInjective(rw_msg_rx_head)'
    BY <2>1, <2>2 DEF HostTypes, QueuedOnce, GivenOnce
  <2>4. /\ Unposted' = Unposted /\ Queued' = Queued /\ Given' = Given /\ InCore' = InCore
        /\ InKmsg' \subseteq {m} /\ lmac' = lmac
    BY <2>1 DEF Unposted, Queued, Given, InCore, InKmsg
  <2>5. InOnePlace'
    <3>1. m \in Place("rx") /\ "rx" \in Stages /\ "kmsg" \in Stages
      BY <2>2, PlacesAre DEF Stages
    <3>2. \A s \in Stages : Place(s)' \subseteq IF s = "kmsg" THEN Place(s) \cup {m}
                                                ELSE IF s = "rx" THEN Place(s) \ {m} ELSE Place(s)
      BY <2>2, <2>4, PlacesAre, PlacesAreNext, StagesAre
    <3> QED
      BY <3>1, <3>2, PlacesMove
  <2>6. Ahead' \subseteq Ahead
    BY <2>4 DEF Ahead
  <2> QED
    BY <2>3, <2>5, <2>6 DEF OnItsWay
<1>3. CASE KmsgAnswer
  <2>1. /\ UNCHANGED <<io_queue, core, msg, lmac, app_sema, heap, rw_msg_rx_head>>
        /\ kmsg = "found" /\ kmsg' = "receive" /\ rx_msg' = NoReq
        /\ cfm' = [cfm EXCEPT ![found] = rx_msg]
    BY <1>3 DEF KmsgAnswer, wifiVars, coreVars
  <2>2. found \in Reqs /\ rx_msg \in Reqs
    BY <2>1, ReqsAssumption DEF FoundWaits, Waiting, HostTypes
  <2>3. pc' = pc \/ pc' = [pc EXCEPT ![found] = "confirmed"]
    BY <1>3 DEF KmsgAnswer, Move
  <2>4. Unposted' \subseteq Unposted
    BY <2>2, <2>3 DEF Unposted, HmTypes
  <2>5. rx_msg \in InKmsg /\ InKmsg' = {}
    BY <2>1, <2>2 DEF InKmsg
  <2>6. rx_msg \notin Given
    BY <2>5, PlacesAre DEF InOnePlace, Stages
  <2>7. /\ \A c \in Reqs : cfm'[c] = IF c = found THEN rx_msg ELSE cfm[c]
        /\ cfm' \in [Reqs -> Reqs \cup {NoReq}]
    BY <2>1, <2>2 DEF HostTypes
  <2>8. Given' \subseteq Given \cup {rx_msg}
    BY <2>7 DEF Given
  <2>9. GivenOnce'
    <3>1. \A c \in Reqs : cfm[c] # rx_msg
      BY <2>2, <2>6 DEF Given
    <3> QED
      BY <2>7, <3>1 DEF GivenOnce
  <2>10. HostTypes' /\ QueuedOnce' /\ IsInjective(rw_msg_rx_head)'
    BY <2>1, <2>7 DEF HostTypes, QueuedOnce
  <2>11. /\ Queued' = Queued /\ InCore' = InCore /\ lmac' = lmac
         /\ Range(rw_msg_rx_head)' = Range(rw_msg_rx_head)
    BY <2>1 DEF Queued, InCore
  <2>12. InOnePlace'
    <3>1. rx_msg \in Place("kmsg") /\ "kmsg" \in Stages /\ "given" \in Stages
      BY <2>5, PlacesAre DEF Stages
    <3>2. \A s \in Stages : Place(s)' \subseteq
            IF s = "given" THEN Place(s) \cup {rx_msg}
            ELSE IF s = "kmsg" THEN Place(s) \ {rx_msg} ELSE Place(s)
      BY <2>4, <2>5, <2>8, <2>11, PlacesAre, PlacesAreNext, StagesAre
    <3> QED
      BY <3>1, <3>2, PlacesMove
  <2>13. Ahead' \subseteq Ahead
    BY <2>4, <2>11 DEF Ahead
  <2> QED
    BY <2>9, <2>10, <2>12, <2>13 DEF OnItsWay
<1> QED
  BY <1>1, <1>2, <1>3 DEF Kmsg

(* What the core thread and its other callers do to the queue.             *)
LEMMA WifiJourney ==
  ASSUME JourneyInv, CoreNext, UNCHANGED hostVars
  PROVE  OnItsWay
<1> USE DEF JourneyInv
<1>1. UNCHANGED <<pc, cfm, heap, rw_msg_rx_head, lmac, app_sema, kmsg, rx_msg>>
  BY DEF hostVars, callVars, kmsgVars
<1>2. /\ Unposted' = Unposted /\ lmac' = lmac /\ Given' = Given /\ InKmsg' = InKmsg
      /\ Range(rw_msg_rx_head)' = Range(rw_msg_rx_head)
  BY <1>1 DEF Unposted, Given, InKmsg
<1>3. GivenOnce' /\ IsInjective(rw_msg_rx_head)'
  BY <1>1 DEF GivenOnce
<1>4. CASE UNCHANGED <<io_queue, coreVars>>
  <2>1. app_sema' \in Nat /\ heap' \in {"ok", "bad_free"}
    BY <1>1 DEF HostTypes
  <2> QED
    BY <1>1, <1>2, <1>4, <2>1, JourneyKept DEF coreVars
<1>5. ASSUME NEW type \in {"RX", "TX", "OTHER"}, NEW arg \in {0} \cup Pbufs,
             Pushed(type, arg), UNCHANGED coreVars
      PROVE  OnItsWay
  <2>1. io_queue' = Append(io_queue, Message(type, arg)) /\ UNCHANGED <<core, msg>>
    BY <1>5 DEF Pushed, coreVars
  <2>2. /\ Message(type, arg) \in HostMessages
        /\ Message(type, arg).type # "IOCTL"
    BY <1>5 DEF HostMessages, Message
  <2>3. io_queue' \in Seq(HostMessages) /\ QueuedOnce' /\ Queued' \subseteq Queued
    BY <2>1, <2>2, QueueGains DEF HostTypes
  <2>4. HostTypes' /\ InCore' = InCore
    BY <1>1, <2>1, <2>3 DEF HostTypes, InCore
  <2>5. InOnePlace'
    BY <1>2, <2>3, <2>4, PlacesShrink
  <2> QED
    BY <1>2, <1>3, <2>3, <2>4, <2>5 DEF OnItsWay, Ahead
<1>6. CASE CorePop
  <2>1. /\ core = "pop" /\ core' = "dispatch" /\ io_queue # << >>
        /\ msg' = Head(io_queue) /\ io_queue' = Tail(io_queue)
    BY <1>6 DEF CorePop
  <2>2. /\ io_queue' \in Seq(HostMessages) /\ QueuedOnce' /\ msg' \in HostMessages
        /\ Queued' \subseteq Queued
        /\ \A r \in Reqs : msg' = Message("IOCTL", r) => r \in Queued /\ r \notin Queued'
    BY <2>1, QueueGives DEF HostTypes
  <2>3. HostTypes'
    BY <1>1, <2>2 DEF HostTypes
  <2>4. CASE \A r \in Reqs : msg' # Message("IOCTL", r)
    <3>1. InCore' = {}
      BY <2>4 DEF InCore
    <3>2. InOnePlace'
      BY <1>2, <2>2, <3>1, PlacesShrink
    <3> QED
      BY <1>2, <1>3, <2>2, <2>3, <3>1, <3>2 DEF OnItsWay, Ahead
  <2>5. ASSUME NEW r \in Reqs, msg' = Message("IOCTL", r)
        PROVE  OnItsWay
    <3>1. InCore' \subseteq {r}
      <4>1. \A x \in Reqs : Message("IOCTL", x) = Message("IOCTL", r) => x = r
        BY DEF Message
      <4> QED
        BY <2>5, <4>1 DEF InCore
    <3>2. r \in Place("queue") /\ "queue" \in Stages /\ "core" \in Stages
      BY <2>2, <2>5, PlacesAre DEF Stages
    <3>3. \A s \in Stages : Place(s)' \subseteq
            IF s = "core" THEN Place(s) \cup {r}
            ELSE IF s = "queue" THEN Place(s) \ {r} ELSE Place(s)
      BY <1>2, <2>2, <2>5, <3>1, PlacesAre, PlacesAreNext, StagesAre
    <3>4. InOnePlace'
      BY <3>2, <3>3, PlacesMove
    <3>5. Ahead' \subseteq Ahead
      BY <1>2, <2>2, <2>5, <3>1 DEF Ahead
    <3> QED
      BY <1>3, <2>2, <2>3, <3>4, <3>5 DEF OnItsWay
  <2> QED
    BY <2>4, <2>5
<1>7. CASE CoreDispatch \/ ServeFrames \/ CoreLoop
  <2>1. UNCHANGED io_queue /\ core' # "dispatch"
    BY <1>7 DEF CoreDispatch, ServeFrames, CoreLoop, HandleRx, HandleTx, HandleOther
  <2>2. HostTypes' /\ QueuedOnce' /\ Queued' = Queued /\ InCore' = {}
    BY <1>1, <2>1 DEF HostTypes, QueuedOnce, Queued, InCore
  <2>3. InOnePlace'
    BY <1>2, <2>2, PlacesShrink
  <2> QED
    BY <1>2, <1>3, <2>2, <2>3 DEF OnItsWay, Ahead
<1>8. CASE FrameArrives \/ RxCount \/ \E p \in Pbufs : TxRef(p) \/ TxRelease(p)
  <2>1. UNCHANGED <<io_queue, coreVars>>
    BY <1>8 DEF FrameArrives, RxCount, TxRef, TxRelease
  <2> QED
    BY <1>4, <2>1
<1>9. CASE RxPush \/ OtherPush \/ \E p \in Pbufs : TxPush(p)
  <2>1. UNCHANGED coreVars
    BY <1>9 DEF RxPush, OtherPush, TxPush
  <2>2. \/ UNCHANGED io_queue
        \/ Pushed("RX", 0) \/ Pushed("OTHER", 0) \/ \E p \in Pbufs : Pushed("TX", p)
    BY <1>9 DEF RxPush, OtherPush, TxPush, PushFailed
  <2> QED
    BY <1>4, <1>5, <2>1, <2>2
<1> QED
  BY <1>6, <1>7, <1>8, <1>9 DEF CoreNext, RxInterrupt, CoreThread
LEMMA JourneyInit == HmInit => JourneyInv
<1> SUFFICES ASSUME HmInit PROVE JourneyInv
  OBVIOUS
<1>1. /\ io_queue = << >> /\ core = "pop" /\ rw_msg_rx_head = << >> /\ lmac = {}
      /\ cfm = [r \in Reqs |-> NoReq] /\ heap = "ok" /\ app_sema = 0 /\ kmsg = "take"
      /\ rx_msg = NoReq
  BY DEF HmInit, CoreInit
<1>2. HostTypes
  BY <1>1 DEF HostTypes
<1>3. QueuedOnce /\ GivenOnce /\ IsInjective(rw_msg_rx_head)
  BY <1>1 DEF QueuedOnce, GivenOnce, IsInjective
<1>4. /\ Queued = {} /\ InCore = {} /\ lmac = {} /\ Range(rw_msg_rx_head) = {} /\ InKmsg = {}
      /\ Given = {}
  BY <1>1, ReqsAssumption DEF Queued, InCore, InKmsg, Given, Range
<1>5. InOnePlace
  BY <1>4, PlacesAre, StagesAre DEF InOnePlace
<1> QED
  BY <1>2, <1>3, <1>5 DEF JourneyInv

LEMMA JourneyStep ==
  ASSUME HmInv, JourneyInv, [HmNext]_hmVars
  PROVE  OnItsWay
<1>1. HmTypes /\ FoundWaits
  BY DEF HmInv
<1>2. CASE UNCHANGED hmVars
  <2>1. /\ UNCHANGED <<io_queue, core, msg, pc, cfm, rw_msg_rx_head, lmac, rx_msg, kmsg>>
        /\ UNCHANGED <<app_sema, heap>>
    BY <1>2 DEF hmVars, wifiVars, coreVars, hostVars, callVars, kmsgVars
  <2>2. heap' \in {"ok", "bad_free"} /\ app_sema' \in Nat /\ Unposted' \subseteq Unposted
    BY <2>1 DEF JourneyInv, HostTypes, Unposted
  <2> QED
    BY <2>1, <2>2, JourneyKept
<1>3. CASE \E r \in Reqs : Sender(r) \/ Expire(r) \/ Forward(r)
  BY <1>1, <1>3, CallerJourney, PostJourney, ForwardJourney DEF Sender
<1>4. CASE HandleIoctl
  BY <1>4, HandleJourney
<1>5. CASE Kmsg
  BY <1>1, <1>5, KmsgJourney
<1>6. CASE CoreNext /\ UNCHANGED hostVars
  BY <1>6, WifiJourney
<1> QED
  BY <1>2, <1>3, <1>4, <1>5, <1>6 DEF HmNext

LEMMA JourneyInvariance == HmSpec => []JourneyInv
<1>1. HmInv /\ JourneyInv /\ [HmNext]_hmVars => JourneyInv'
  BY JourneyStep DEF OnItsWay
<1> QED
  BY <1>1, JourneyInit, HmInvariance, PTL DEF HmSpec
-------------------------------------------------------------------------------
(* Ids.  kmsg pairs a message and a call of the same id, and nothing       *)
(* writes to a call's cfm after that.                                      *)

Matches(r, m) == m \in Reqs /\ IdOf[m] = IdOf[r]

AnswersMatch ==
  /\ kmsg = "found" => Matches(found, rx_msg)
  /\ \A r \in NeedCfm :
       pc[r] \in {"confirmed", "ok"} \/ semaphore[r] = 1 => Matches(r, cfm[r])

LEMMA MatchesInit == HmInit => AnswersMatch
<1> SUFFICES ASSUME HmInit PROVE AnswersMatch
  OBVIOUS
<1>1. kmsg = "take" /\ \A r \in Reqs : pc[r] = "idle" /\ semaphore[r] = 0
  BY DEF HmInit
<1> QED
  BY <1>1, ReqsAssumption DEF AnswersMatch

LEMMA CallerMatches ==
  ASSUME HmTypes, AnswersMatch, NEW r \in Reqs, Sender(r) \/ Expire(r)
  PROVE  AnswersMatch'
<1>1. UNCHANGED <<cfm, kmsg, found, rx_msg>>
  BY DEF Sender, Call, CallNoMemory, Post, PostFails, Wait, GiveUp, Return, Expire, kmsgVars
<1>2. PICK label \in Labels, s \in {0, semaphore[r]} :
        /\ pc' = [pc EXCEPT ![r] = label] /\ semaphore' = [semaphore EXCEPT ![r] = s]
        /\ r \in NeedCfm /\ label \in {"confirmed", "ok"} =>
             pc[r] = "confirmed" \/ semaphore[r] = 1
  <2>1. semaphore = [semaphore EXCEPT ![r] = semaphore[r]] /\ semaphore[r] \in 0..1
    BY DEF HmTypes
  <2>2. CASE Call(r) \/ CallNoMemory(r) \/ PostFails(r) \/ GiveUp(r) \/ Expire(r)
    BY <2>1, <2>2 DEF Call, CallNoMemory, PostFails, GiveUp, Expire, Move, Labels
  <2>3. CASE Post(r)
    <3>1. PICK label \in {"wait", "ok"} :
            pc' = [pc EXCEPT ![r] = label] /\ (r \in NeedCfm => label = "wait")
      BY <2>3 DEF Post, Move
    <3>2. UNCHANGED semaphore
      BY <2>3 DEF Post
    <3> QED
      BY <2>1, <3>1, <3>2 DEF Labels
  <2>4. CASE Wait(r)
    BY <2>1, <2>4 DEF Wait, Move, Labels
  <2>5. CASE Return(r)
    <3>1. PICK label \in {"failed", "ok"} :
            pc' = [pc EXCEPT ![r] = label] /\ (label = "ok" => pc[r] = "confirmed")
      BY <2>5 DEF Return, Move
    <3>2. semaphore' = [semaphore EXCEPT ![r] = 0]
      BY <2>5 DEF Return
    <3> QED
      BY <3>1, <3>2 DEF Labels
  <2> QED
    BY <2>2, <2>3, <2>4, <2>5 DEF Sender
<1>3. ASSUME NEW c \in NeedCfm, pc'[c] \in {"confirmed", "ok"} \/ semaphore'[c] = 1
      PROVE  pc[c] \in {"confirmed", "ok"} \/ semaphore[c] = 1
  BY <1>2, <1>3, ReqsAssumption DEF HmTypes
<1> QED
  BY <1>1, <1>3 DEF AnswersMatch, Matches

LEMMA KmsgMatches ==
  ASSUME HmTypes, FoundWaits, HostTypes, AnswersMatch, Kmsg
  PROVE  AnswersMatch'
<1>1. CASE KmsgTake \/ KmsgDrained \/ KmsgLoop
  <2>1. UNCHANGED <<pc, semaphore, cfm>> /\ kmsg' # "found"
    BY <1>1 DEF KmsgTake, KmsgDrained, KmsgLoop, callVars
  <2> QED
    BY <2>1 DEF AnswersMatch, Matches
<1>2. CASE KmsgReceive
  <2>1. UNCHANGED <<pc, semaphore, cfm>> /\ kmsg = "receive" /\ rw_msg_rx_head # << >>
    BY <1>2 DEF KmsgReceive, callVars
  <2>2. Head(rw_msg_rx_head) \in Reqs
    BY <2>1, HeadTailProperties DEF HostTypes
  <2>3. \/ kmsg' = kmsg
        \/ rx_msg' = Head(rw_msg_rx_head) /\ IdOf[rx_msg'] = IdOf[found']
    BY <1>2 DEF KmsgReceive, kmsgVars, Answers
  <2> QED
    BY <2>1, <2>2, <2>3 DEF AnswersMatch, Matches
<1>3. CASE KmsgAnswer
  <2>1. kmsg = "found" /\ kmsg' = "receive" /\ cfm' = [cfm EXCEPT ![found] = rx_msg]
    BY <1>3 DEF KmsgAnswer
  <2>2. found \in Reqs /\ Matches(found, rx_msg)
    BY <2>1, ReqsAssumption DEF FoundWaits, Waiting, AnswersMatch
  <2>3. \A c \in Reqs : c # found => pc'[c] = pc[c] /\ semaphore'[c] = semaphore[c]
    BY <1>3, <2>2 DEF KmsgAnswer, Move, HmTypes
  <2>4. \A c \in Reqs : cfm'[c] = IF c = found THEN rx_msg ELSE cfm[c]
    BY <2>1 DEF HostTypes
  <2> QED
    BY <2>1, <2>2, <2>3, <2>4, ReqsAssumption DEF AnswersMatch, Matches
<1> QED
  BY <1>1, <1>2, <1>3 DEF Kmsg

LEMMA MatchesStep ==
  ASSUME HmInv, HostTypes, AnswersMatch, [HmNext]_hmVars
  PROVE  AnswersMatch'
<1>1. HmTypes /\ FoundWaits
  BY DEF HmInv
<1>2. CASE HandleIoctl \/ (CoreNext /\ UNCHANGED hostVars) \/ UNCHANGED hmVars
           \/ \E r \in Reqs : Forward(r)
  <2>1. UNCHANGED <<pc, semaphore, cfm, kmsg, found, rx_msg>>
    BY <1>2 DEF HandleIoctl, Forward, hostVars, hmVars, callVars, kmsgVars
  <2> QED
    BY <2>1 DEF AnswersMatch, Matches
<1>3. CASE \E r \in Reqs : Sender(r) \/ Expire(r)
  BY <1>1, <1>3, CallerMatches
<1>4. CASE Kmsg
  BY <1>1, <1>4, KmsgMatches
<1> QED
  BY <1>2, <1>3, <1>4 DEF HmNext

(* A call of rw_msg_send that succeeds was given a confirmation with its   *)
(* own id, and a confirmation is never given to two calls, whatever times  *)
(* out meanwhile (rwnx_recv_msg).                                          *)
THEOREM ConfirmedOnceById == HmSpec => []ConfirmationsMatch
<1>1. HmInv /\ JourneyInv /\ AnswersMatch /\ [HmNext]_hmVars => AnswersMatch'
  BY MatchesStep DEF JourneyInv
<1>2. JourneyInv /\ AnswersMatch => ConfirmationsMatch
  BY ReqsAssumption DEF JourneyInv, GivenOnce, AnswersMatch, Matches, ConfirmationsMatch
<1> QED
  BY <1>1, <1>2, MatchesInit, HmInvariance, JourneyInvariance, PTL DEF HmSpec
-------------------------------------------------------------------------------
LEMMA RxStep ==
  ASSUME HostTypes, RxNotForgotten, [HmNext]_hmVars
  PROVE  RxNotForgotten'
<1> USE DEF RxNotForgotten
<1>1. CASE \/ HandleIoctl \/ (CoreNext /\ UNCHANGED hostVars) \/ UNCHANGED hmVars
           \/ \E r \in Reqs : Sender(r) \/ Expire(r)
  <2>1. UNCHANGED <<rw_msg_rx_head, app_sema, kmsg>>
    BY <1>1 DEF HandleIoctl, hostVars, hmVars, kmsgVars, Sender, Call, CallNoMemory, Post,
                PostFails, Wait, GiveUp, Return, Expire
  <2> QED
    BY <2>1
<1>2. CASE \E r \in Reqs : Forward(r)
  <2>1. app_sema' = app_sema + 1 /\ app_sema \in Nat
    BY <1>2 DEF Forward, HostTypes
  <2> QED
    BY <2>1
<1>3. CASE Kmsg
  BY <1>3 DEF Kmsg, KmsgTake, KmsgReceive, KmsgAnswer, KmsgDrained, KmsgLoop, kmsgVars
<1> QED
  BY <1>1, <1>2, <1>3 DEF HmNext

(* kmsg takes app_sema once for all the confirmations it finds, yet none   *)
(* waits in rw_msg_rx_head without kmsg draining it or app_sema posted     *)
(* (mr_kmsg_fwd, kmsg_bk_thread_main).                                     *)
THEOREM NoConfirmationForgotten == HmSpec => []RxNotForgotten
<1>1. HmInit => RxNotForgotten
  BY DEF HmInit, RxNotForgotten
<1>2. JourneyInv /\ RxNotForgotten /\ [HmNext]_hmVars => RxNotForgotten'
  BY RxStep DEF JourneyInv
<1> QED
  BY <1>1, <1>2, JourneyInvariance, PTL DEF HmSpec
-------------------------------------------------------------------------------
(* app_sema goes up once for each request the library confirms, which it   *)
(* does once: it never exceeds the requests that are past it.              *)
SemaBound == app_sema <= Cardinality(Reqs \ Ahead)

LEMMA SemaStep ==
  ASSUME IsFiniteSet(Reqs), HmInv, JourneyInv, SemaBound, [HmNext]_hmVars
  PROVE  SemaBound'
<1> DEFINE past == Reqs \ Ahead
<1>1. OnItsWay
  BY JourneyStep
<1>2. JourneyInv' /\ past \subseteq past'
  BY <1>1 DEF OnItsWay
<1>3. IsFiniteSet(past')
  <2>1. past' \subseteq Reqs
    OBVIOUS
  <2> QED
    BY <2>1, FS_Subset
<1>4. app_sema \in Nat
  BY DEF JourneyInv, HostTypes
<1> HIDE DEF past
<1>5. Cardinality(past) \in Nat /\ Cardinality(past') \in Nat /\ Cardinality(past) <= Cardinality(past')
  BY <1>2, <1>3, CardKept
<1>6. app_sema <= Cardinality(past)
  BY DEF SemaBound, past
<1>7. CASE app_sema' <= app_sema /\ app_sema' \in Nat
  <2>1. app_sema' <= Cardinality(past')
    BY <1>4, <1>5, <1>6, <1>7
  <2> QED
    BY <2>1 DEF SemaBound, past
<1>8. ASSUME NEW r \in Reqs, Forward(r)
      PROVE  SemaBound'
  <2>1. r \in lmac /\ app_sema' = app_sema + 1 /\ rw_msg_rx_head' = Append(rw_msg_rx_head, r)
    BY <1>8 DEF Forward
  <2>2. r \in Range(rw_msg_rx_head)'
    BY <2>1, RangeAppend DEF JourneyInv, HostTypes
  <2>3. r \notin Ahead'
    <3>1. InOnePlace'
      BY <1>2 DEF JourneyInv
    <3>2. \A s \in Stages : s # "rx" => r \notin Place(s)'
      <4>1. r \in Place("rx")' /\ "rx" \in Stages
        BY <2>2, PlacesAreNext DEF Stages
      <4> QED
        BY <3>1, <4>1 DEF InOnePlace
    <3> QED
      BY <3>2, PlacesAreNext DEF Ahead, Stages
  <2>4. r \in past' /\ r \notin past
    BY <2>1, <2>3 DEF past, Ahead
  <2>5. Cardinality(past) + 1 <= Cardinality(past')
    BY <1>2, <1>3, <2>4, CardGains
  <2>6. app_sema' <= Cardinality(past')
    BY <1>4, <1>5, <1>6, <2>1, <2>5
  <2> QED
    BY <2>6 DEF SemaBound, past
<1>9. CASE \/ HandleIoctl \/ (CoreNext /\ UNCHANGED hostVars) \/ UNCHANGED hmVars \/ Kmsg
           \/ \E r \in Reqs : Sender(r) \/ Expire(r)
  <2>1. app_sema' = app_sema \/ (app_sema > 0 /\ app_sema' = app_sema - 1)
    BY <1>9 DEF HandleIoctl, hostVars, hmVars, kmsgVars, Sender, Call, CallNoMemory, Post,
                PostFails, Wait, GiveUp, Return, Expire, Kmsg, KmsgTake, KmsgReceive,
                KmsgAnswer, KmsgDrained, KmsgLoop
  <2> QED
    BY <1>4, <1>7, <2>1
<1> QED
  BY <1>8, <1>9 DEF HmNext

(* Every variable of rw_msg_send and of kmsg keeps its type; app_sema,     *)
(* that each confirmation raises, never counts more than the calls.        *)
THEOREM HostTypeCorrect ==
  ASSUME IsFiniteSet(Reqs)
  PROVE  HmSpec => []HmTypeOK
<1>1. HmInit => SemaBound
  <2> SUFFICES ASSUME HmInit PROVE SemaBound
    OBVIOUS
  <2>1. app_sema = 0
    BY DEF HmInit
  <2>2. Cardinality(Reqs \ Ahead) \in Nat
    BY CardKept
  <2> QED
    BY <2>1, <2>2 DEF SemaBound
<1>2. HmInv /\ JourneyInv /\ SemaBound /\ [HmNext]_hmVars => SemaBound'
  BY SemaStep
<1>3. HmInv /\ JourneyInv /\ SemaBound => HmTypeOK
  <2> SUFFICES ASSUME HmInv, JourneyInv, SemaBound PROVE HmTypeOK
    OBVIOUS
  <2>1. app_sema \in 0..Cardinality(Reqs)
    <3>1. /\ Cardinality(Reqs \ Ahead) \in Nat /\ Cardinality(Reqs) \in Nat
          /\ Cardinality(Reqs \ Ahead) <= Cardinality(Reqs)
      BY CardKept
    <3>2. app_sema \in Nat /\ app_sema <= Cardinality(Reqs \ Ahead)
      BY DEF JourneyInv, HostTypes, SemaBound
    <3> QED
      BY <3>1, <3>2
  <2> QED
    BY <2>1 DEF HmInv, HmTypes, JourneyInv, HostTypes, HmTypeOK
<1> QED
  BY <1>1, <1>2, <1>3, HmInvariance, JourneyInvariance, PTL DEF HmSpec
-------------------------------------------------------------------------------
(* What WifiCore promises holds of the whole: the requests share the core  *)
(* thread's queue with its own messages, are of a type of their own, and   *)
(* nothing else of this module touches its variables.                      *)
AllMessages == CoreMessages \cup {Message("IOCTL", r) : r \in Reqs}

LEMMA AllCarries == Carries(AllMessages)
BY DEF Carries, AllMessages, Message

(* The steps that leave the core thread's part alone.                      *)
LEMMA CoreKept ==
  ASSUME CoreInv(AllMessages), UNCHANGED wifiVars
  PROVE  CoreInv(AllMessages)'
BY AllCarries, CoreInvStep

LEMMA CorePosted ==
  ASSUME CoreInv(AllMessages), NEW r \in Reqs, Pushed("IOCTL", r),
         UNCHANGED <<coreVars, rxVars, txVars>>
  PROVE  CoreInv(AllMessages)'
<1>1. CoreTypes(AllMessages) /\ Message("IOCTL", r) \in AllMessages
  BY DEF CoreInv, AllMessages
<1>2. /\ io_queue' \in Seq(AllMessages) /\ Len(io_queue') <= QItems
      /\ \A ty, a : Unhandled(ty, a)' =
           Unhandled(ty, a) + (IF Message("IOCTL", r) = Message(ty, a) THEN 1 ELSE 0)
  BY <1>1, UnhandledPushed
<1>3. /\ Unhandled("RX", 0) \in Nat
      /\ \A p \in Pbufs : Unhandled("TX", p) \in Nat
  BY <1>1, UnhandledType
<1>4. /\ Unhandled("RX", 0)' = Unhandled("RX", 0)
      /\ \A p \in Pbufs : Unhandled("TX", p)' = Unhandled("TX", p)
  BY <1>2, <1>3, MessagesDiffer
<1>5. CoreTypes(AllMessages)'
  BY <1>1, <1>2 DEF CoreTypes, coreVars, rxVars, txVars
<1> QED
  BY <1>4, <1>5
     DEF CoreInv, coreVars, rxVars, txVars, RxCountExact, FramesCovered, RefsExact,
         PacketQueuedOnce

LEMMA CoreHandles ==
  ASSUME CoreInv(AllMessages), HandleIoctl
  PROVE  CoreInv(AllMessages)'
<1>1. /\ CoreTypes(AllMessages) /\ core = "dispatch" /\ core' = "events"
      /\ UNCHANGED <<io_queue, msg, rxVars, txVars>> /\ msg.type = "IOCTL"
  BY DEF CoreInv, HandleIoctl
<1>2. \A ty, a : Unhandled(ty, a) = Unhandled(ty, a)' + (IF msg = Message(ty, a) THEN 1 ELSE 0)
  BY <1>1, UnhandledDispatched
<1>3. msg # Message("RX", 0) /\ \A p \in Pbufs : msg # Message("TX", p)
  BY <1>1 DEF Message
<1>4. CoreTypes(AllMessages)'
  BY <1>1 DEF CoreTypes, rxVars, txVars
<1>5. Unhandled("RX", 0)' \in Nat /\ \A p \in Pbufs : Unhandled("TX", p)' \in Nat
  BY <1>1, OccurrencesType DEF CoreTypes, Unhandled
<1>6. /\ Unhandled("RX", 0)' = Unhandled("RX", 0)
      /\ \A p \in Pbufs : Unhandled("TX", p)' = Unhandled("TX", p)
  BY <1>2, <1>3, <1>5
<1>7. UNCHANGED <<bmsg_rx_count, rx_stage, rx_frames, rx_failed, tx_stage, ref>>
  BY <1>1 DEF rxVars, txVars
<1> QED
  BY <1>1, <1>4, <1>6, <1>7
     DEF CoreInv, RxCountExact, FramesCovered, RefsExact, PacketQueuedOnce

LEMMA CoreComposes == HmSpec => []CoreInv(AllMessages)
<1>1. HmInit => CoreInv(AllMessages)
  BY CoreInvInit DEF HmInit
<1>2. CoreInv(AllMessages) /\ [HmNext]_hmVars => CoreInv(AllMessages)'
  <2> SUFFICES ASSUME CoreInv(AllMessages), [HmNext]_hmVars PROVE CoreInv(AllMessages)'
    OBVIOUS
  <2>1. CASE UNCHANGED hmVars
    BY <2>1, CoreKept DEF hmVars
  <2>2. CASE CoreNext
    BY <2>2, AllCarries, CoreInvStep
  <2>3. CASE HandleIoctl
    BY <2>3, CoreHandles
  <2>4. ASSUME NEW r \in Reqs, Sender(r) \/ Expire(r) \/ Forward(r)
        PROVE  CoreInv(AllMessages)'
    <3>1. CASE Post(r)
      BY <3>1, CorePosted DEF Post
    <3>2. CASE ~Post(r)
      <4>1. UNCHANGED wifiVars
        BY <2>4, <3>2 DEF Sender, Call, CallNoMemory, PostFails, PushFailed, Wait, GiveUp, Return,
                          Expire, Forward, wifiVars
      <4> QED
        BY <4>1, CoreKept
    <3> QED
      BY <3>1, <3>2
  <2>5. CASE Kmsg
    <3>1. UNCHANGED wifiVars
      BY <2>5 DEF Kmsg, KmsgTake, KmsgReceive, KmsgAnswer, KmsgDrained, KmsgLoop
    <3> QED
      BY <3>1, CoreKept
  <2> QED
    BY <2>1, <2>2, <2>3, <2>4, <2>5 DEF HmNext
<1> QED
  BY <1>1, <1>2, PTL DEF HmSpec

(* With requests and confirmations in the same queue, bmsg_rx_count still  *)
(* counts the RX messages on their way and the pushes that failed.         *)
THEOREM RxCountedWithRequests == HmSpec => []RxCountExact
<1>1. CoreInv(AllMessages) => RxCountExact
  BY CoreInvKeeps
<1> QED
  BY <1>1, CoreComposes, PTL

(* A frame in the descriptors has an RX message ahead of it, requests in   *)
(* between or not, until a push fails.                                     *)
THEOREM FramesCoveredWithRequests == HmSpec => []FramesCovered
<1>1. CoreInv(AllMessages) => FramesCovered
  BY CoreInvKeeps
<1> QED
  BY <1>1, CoreComposes, PTL

(* The references of a packet stay exact, though requests fill the queue   *)
(* its push needs.                                                         *)
THEOREM ReferencesExactWithRequests == HmSpec => []RefsExact
<1>1. CoreInv(AllMessages) => RefsExact
  BY CoreInvKeeps
<1> QED
  BY <1>1, CoreComposes, PTL
===============================================================================
