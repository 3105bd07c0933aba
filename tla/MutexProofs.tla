----------------------------- MODULE MutexProofs -----------------------------
(***************************************************************************)
(* What TLAPS proves of the kernel mutex, for any number of threads and    *)
(* mutexes, any priorities and flags, and any choice of the threads that   *)
(* nest mutexes.                                                           *)
(***************************************************************************)
EXTENDS Mutex, ListLemmas

-------------------------------------------------------------------------------
(* The inductive invariant.                                                *)

(* What a blocking call leaves in a thread.                                *)
CallInv ==
  \A t \in Threads :
    /\ pc[t] = "take" <=> waits[t] # None
    /\ stat[t] = "SUSPEND" => pc[t] = "take" /\ error[t] = "EOK"
    /\ error[t] # "EOK" => pc[t] = "take"

(* A mutex lists suspended threads that wait for it, each of them once.    *)
WaitersInv ==
  \A m \in Mutexes :
    /\ IsInjective(suspend_thread[m])
    /\ \A t \in Range(suspend_thread[m]) : waits[t] = m /\ stat[t] = "SUSPEND"

HoldInv == \A m \in Mutexes : hold[m] = 0 <=> owner[m] = None

OwnInv == OwnershipExact /\ HoldInv /\ AvailableExact

(* A thread that nests no mutexes holds at most one, and none while it     *)
(* waits.                                                                  *)
NestInv ==
  \A t \in Threads \ Nesting :
    /\ \A i, j \in DOMAIN held[t] : held[t][i] = held[t][j]
    /\ waits[t] # None => held[t] = << >>

(* The mutex t took first keeps the priority t had before it inherited     *)
(* any; releases come in the reverse order of the takes, so it is the last *)
(* one that is restored.                                                   *)
Owning(t) == held[t] # << >> \/ (\E m \in Mutexes : Coming(t, m))
FirstOwned(t) == IF held[t] # << >> THEN held[t][1] ELSE waits[t]
FirstKept(t) ==
  IF Owning(t) THEN original_priority[FirstOwned(t)] = Priority[t]
               ELSE current_priority[t] = Priority[t]
FirstInv == \A t \in Threads : FirstKept(t)

(* Nobody stands in the list of a mutex that queues by priority before a   *)
(* thread of higher priority, unless that one nests mutexes and inherited  *)
(* its priority while it stood there.                                      *)
InOrder(list) ==
  \A i, j \in DOMAIN list :
    i < j /\ list[j] \notin Nesting => ~Lower(current_priority[list[i]], current_priority[list[j]])
SortedInv == \A m \in Mutexes : Flag[m] = "PRIO" => InOrder(suspend_thread[m])

MInv ==
  /\ TypeOK /\ CallInv /\ WaitersInv /\ OwnInv
  /\ NestInv /\ FirstInv /\ SortedInv /\ OwnerInherits
-------------------------------------------------------------------------------
(* Counting the takes a thread holds.                                      *)

LEMMA CountType ==
  ASSUME NEW S, NEW s \in Seq(S), NEW m
  PROVE  /\ IsFiniteSet({i \in DOMAIN s : s[i] = m})
         /\ Count(s, m) \in Nat
         /\ Count(s, m) = 0 <=> \A i \in DOMAIN s : s[i] # m
<1> DEFINE at == {i \in DOMAIN s : s[i] = m}
<1>1. IsFiniteSet(1..Len(s)) /\ DOMAIN s = 1..Len(s)
  BY FS_Interval
<1>2. IsFiniteSet(at)
  BY <1>1, FS_Subset
<1>3. Cardinality(at) \in Nat /\ (Cardinality(at) = 0 <=> at = {})
  BY <1>2, FS_CardinalityType, FS_EmptySet
<1> QED
  BY <1>2, <1>3 DEF Count

LEMMA CountAppend ==
  ASSUME NEW S, NEW s \in Seq(S), NEW e \in S, NEW m
  PROVE  Count(Append(s, e), m) = Count(s, m) + (IF e = m THEN 1 ELSE 0)
<1> DEFINE n == Len(s)
           longer == Append(s, e)
           before == {i \in DOMAIN s : s[i] = m}
           after == {i \in DOMAIN longer : longer[i] = m}
<1>1. n \in Nat /\ IsFiniteSet(before) /\ Count(s, m) \in Nat
  BY CountType
<1>2. /\ DOMAIN s = 1..n /\ DOMAIN longer = 1..(n + 1)
      /\ \A i \in 1..n : longer[i] = s[i]
      /\ longer[n + 1] = e
  BY AppendProperties
<1>3. Count(s, m) = Cardinality(before) /\ Count(longer, m) = Cardinality(after)
  BY DEF Count
<1> HIDE DEF longer
<1>4. CASE e = m
  <2>1. after = before \cup {n + 1} /\ n + 1 \notin before
    BY <1>1, <1>2, <1>4
  <2> HIDE DEF before, after, n
  <2>2. Cardinality(after) = Cardinality(before) + 1
    BY <1>1, <2>1, FS_AddElement
  <2> QED
    BY <1>3, <1>4, <2>2 DEF longer
<1>5. CASE e # m
  <2>1. after = before
    BY <1>1, <1>2, <1>5
  <2> HIDE DEF before, after
  <2> QED
    BY <1>1, <1>3, <1>5, <2>1 DEF longer
<1> QED
  BY <1>4, <1>5

LEMMA FrontElements ==
  ASSUME NEW S, NEW s \in Seq(S), s # << >>
  PROVE  /\ Front(s) \in Seq(S) /\ Last(s) \in S
         /\ Len(Front(s)) = Len(s) - 1
         /\ \A i \in 1..(Len(s) - 1) : Front(s)[i] = s[i]
         /\ s = Append(Front(s), Last(s))
<1>1. Len(s) \in Nat /\ Len(s) > 0 /\ \A i \in 1..Len(s) : s[i] \in S
  BY EmptySeq, ElementOfSeq
<1>2. /\ Front(s) \in Seq(S)
      /\ Len(Front(s)) = Len(s) - 1
      /\ \A i \in 1..(Len(s) - 1) : Front(s)[i] = s[i]
  <2>1. \A i \in 1..(Len(s) - 1) : s[i] \in S
    BY <1>1
  <2>2. /\ Front(s) \in Seq(S)
        /\ Len(Front(s)) = IF 1 <= Len(s) - 1 THEN (Len(s) - 1) - 1 + 1 ELSE 0
        /\ \A i \in 1..((Len(s) - 1) - 1 + 1) : Front(s)[i] = s[1 + i - 1]
    BY <1>1, <2>1, SubSeqProperties DEF Front
  <2>3. \A n \in Nat : n > 0 =>
          /\ (n - 1) - 1 + 1 = n - 1
          /\ (IF 1 <= n - 1 THEN (n - 1) - 1 + 1 ELSE 0) = n - 1
          /\ \A i \in 1..(n - 1) : 1 + i - 1 = i
    OBVIOUS
  <2>4. Len(Front(s)) = Len(s) - 1
    BY <1>1, <2>2, <2>3
  <2>5. \A i \in 1..(Len(s) - 1) : Front(s)[i] = s[i]
    BY <1>1, <2>2, <2>3
  <2> QED
    BY <2>2, <2>4, <2>5
<1>3. Last(s) = s[Len(s)] /\ Last(s) \in S
  BY <1>1 DEF Last
<1>4. s = Append(Front(s), Last(s))
  <2> DEFINE r == Append(Front(s), Last(s))
  <2>1. /\ r \in Seq(S) /\ Len(r) = Len(s)
        /\ \A i \in 1..(Len(s) - 1) : r[i] = Front(s)[i]
        /\ r[Len(s)] = Last(s)
    <3>1. /\ r \in Seq(S) /\ Len(r) = Len(Front(s)) + 1
          /\ \A i \in 1..Len(Front(s)) : r[i] = Front(s)[i]
          /\ r[Len(Front(s)) + 1] = Last(s)
      BY <1>2, <1>3, AppendProperties
    <3> QED
      BY <1>1, <1>2, <3>1
  <2> HIDE DEF r
  <2>2. \A i \in 1..Len(s) : r[i] = s[i]
    BY <1>1, <1>2, <1>3, <2>1
  <2>3. r = s
    BY <2>1, <2>2, SeqEqual
  <2> QED
    BY <2>3 DEF r
<1> QED
  BY <1>2, <1>3, <1>4

LEMMA TakesType ==
  ASSUME held \in [Threads -> Seq(Mutexes)], NEW t \in Threads, NEW m \in Mutexes
  PROVE  /\ Takes(t, m) \in Nat
         /\ Takes(t, m) = 0 <=> \A i \in DOMAIN held[t] : held[t][i] # m
BY CountType DEF Takes

LEMMA GotTakes ==
  ASSUME held \in [Threads -> Seq(Mutexes)], NEW t \in Threads, NEW m \in Mutexes, Got(t, m)
  PROVE  /\ held' \in [Threads -> Seq(Mutexes)]
         /\ \A u \in Threads \ {t} : held'[u] = held[u]
         /\ held'[t] # << >>
         /\ held'[t][1] = IF held[t] = << >> THEN m ELSE held[t][1]
         /\ \A i \in DOMAIN held'[t] :
              (i \in DOMAIN held[t] /\ held'[t][i] = held[t][i]) \/ held'[t][i] = m
         /\ \A u \in Threads, k \in Mutexes :
              Takes(u, k)' = Takes(u, k) + (IF u = t /\ k = m THEN 1 ELSE 0)
<1> DEFINE s == held[t]
<1>1. s \in Seq(Mutexes) /\ Len(s) \in Nat /\ (s = << >> <=> Len(s) = 0)
  BY EmptySeq
<1>2. held' = [held EXCEPT ![t] = Append(s, m)]
  BY DEF Got
<1>3. /\ Append(s, m) \in Seq(Mutexes) /\ Len(Append(s, m)) = Len(s) + 1
      /\ \A i \in 1..Len(s) : Append(s, m)[i] = s[i]
      /\ Append(s, m)[Len(s) + 1] = m
  BY <1>1, AppendProperties
<1>4. held' \in [Threads -> Seq(Mutexes)] /\ held'[t] = Append(s, m)
  BY <1>2, <1>3
<1>5. \A u \in Threads \ {t} : held'[u] = held[u]
  BY <1>2
<1>6. ASSUME NEW u \in Threads, NEW k \in Mutexes
      PROVE  Takes(u, k)' = Takes(u, k) + (IF u = t /\ k = m THEN 1 ELSE 0)
  <2>0. Takes(u, k) \in Nat
    BY TakesType
  <2>1. CASE u = t
    <3>1. Count(Append(s, m), k) = Count(s, k) + (IF m = k THEN 1 ELSE 0)
      BY <1>1, CountAppend
    <3>2. Takes(u, k)' = Count(Append(s, m), k) /\ Takes(u, k) = Count(s, k)
      BY <1>4, <2>1 DEF Takes
    <3> QED
      BY <2>1, <3>1, <3>2
  <2>2. CASE u # t
    BY <1>5, <2>0, <2>2 DEF Takes
  <2> QED
    BY <2>1, <2>2
<1>7. held'[t] # << >>
  BY <1>1, <1>3, <1>4, EmptySeq
<1>8. held'[t][1] = IF s = << >> THEN m ELSE s[1]
  BY <1>1, <1>3, <1>4
<1>9. ASSUME NEW i \in DOMAIN held'[t]
      PROVE  (i \in DOMAIN s /\ held'[t][i] = s[i]) \/ held'[t][i] = m
  <2>1. i \in 1..(Len(s) + 1) /\ DOMAIN s = 1..Len(s)
    BY <1>1, <1>3, <1>4, <1>9
  <2>2. i \in 1..Len(s) \/ i = Len(s) + 1
    BY <1>1, <2>1
  <2> QED
    BY <1>3, <1>4, <2>1, <2>2
<1> QED
  BY <1>4, <1>5, <1>6, <1>7, <1>8, <1>9

LEMMA GoneTakes ==
  ASSUME held \in [Threads -> Seq(Mutexes)], NEW t \in Threads, NEW m, GivesUp(t, m), Gone(t)
  PROVE  /\ held' \in [Threads -> Seq(Mutexes)] /\ m \in Mutexes
         /\ \A u \in Threads \ {t} : held'[u] = held[u]
         /\ held'[t] # << >> => held'[t][1] = held[t][1]
         /\ \A i \in DOMAIN held'[t] : i \in DOMAIN held[t] /\ held'[t][i] = held[t][i]
         /\ \A u \in Threads, k \in Mutexes :
              Takes(u, k) = Takes(u, k)' + (IF u = t /\ k = m THEN 1 ELSE 0)
         /\ held'[t] = << >> => held[t][1] = m
<1> DEFINE s == held[t]
           f == Front(s)
<1>1. /\ s \in Seq(Mutexes) /\ Len(s) \in Nat /\ s # << >> /\ m = Last(s) /\ Len(s) > 0
      /\ DOMAIN s = 1..Len(s)
  BY EmptySeq DEF GivesUp
<1>2. held' = [held EXCEPT ![t] = f]
  BY DEF Gone
<1>3. /\ f \in Seq(Mutexes) /\ Len(f) = Len(s) - 1 /\ DOMAIN f = 1..(Len(s) - 1)
      /\ \A i \in 1..(Len(s) - 1) : f[i] = s[i]
      /\ s = Append(f, m) /\ m \in Mutexes
  <2>1. /\ f \in Seq(Mutexes) /\ Len(f) = Len(s) - 1
        /\ \A i \in 1..(Len(s) - 1) : f[i] = s[i]
        /\ s = Append(f, m) /\ m \in Mutexes
    BY <1>1, FrontElements
  <2> HIDE DEF f
  <2> QED
    BY <2>1
<1>4. held' \in [Threads -> Seq(Mutexes)] /\ held'[t] = f
  BY <1>2, <1>3
<1>5. \A u \in Threads \ {t} : held'[u] = held[u]
  BY <1>2
<1> HIDE DEF f
<1>6. ASSUME NEW u \in Threads, NEW k \in Mutexes
      PROVE  Takes(u, k) = Takes(u, k)' + (IF u = t /\ k = m THEN 1 ELSE 0)
  <2>0. Takes(u, k) \in Nat
    BY TakesType
  <2>1. CASE u = t
    <3>1. Count(Append(f, m), k) = Count(f, k) + (IF m = k THEN 1 ELSE 0)
      BY <1>3, CountAppend
    <3>2. Takes(u, k) = Count(Append(f, m), k) /\ Takes(u, k)' = Count(f, k)
      BY <1>3, <1>4, <2>1 DEF Takes
    <3> QED
      BY <2>1, <3>1, <3>2
  <2>2. CASE u # t
    BY <1>5, <2>0, <2>2 DEF Takes
  <2> QED
    BY <2>1, <2>2
<1>7. f # << >> => f[1] = s[1]
  BY <1>1, <1>3, EmptySeq
<1>8. f = << >> => s[1] = m
  <2>1. f = << >> => Len(s) = 1
    BY <1>1, <1>3, EmptySeq
  <2> QED
    BY <1>1, <2>1 DEF Last
<1>9. \A i \in 1..(Len(s) - 1) : i \in 1..Len(s)
  BY <1>1
<1> QED
  BY <1>1, <1>3, <1>4, <1>5, <1>6, <1>7, <1>8, <1>9
-------------------------------------------------------------------------------
(* The lists of waiters.                                                   *)

(* rt_ipc_list_suspend finds a place: before the first waiter of lower     *)
(* priority, or at the end.                                                *)
LEMMA PlaceFound ==
  ASSUME NEW list \in Seq(Threads), NEW t \in Threads, NEW flag
  PROVE  LET n == Place(list, t, flag)
         IN  /\ n \in 1..Len(list) + 1
             /\ n <= Len(list) => Lower(current_priority[list[n]], current_priority[t])
             /\ flag = "PRIO" => \A k \in 1..n-1 :
                                   ~Lower(current_priority[list[k]], current_priority[t])
<1> DEFINE before(k) == flag = "PRIO" /\ Lower(current_priority[list[k]], current_priority[t])
           at == {k \in 1..Len(list) : before(k)}
<1>1. Len(list) \in Nat
  OBVIOUS
<1>2. \E n \in 1..Len(list) + 1 : /\ n <= Len(list) => before(n)
                                  /\ \A k \in 1..n-1 : ~before(k)
  <2>1. CASE at = {}
    <3>1. \A k \in 1..Len(list) : ~before(k)
      BY <2>1
    <3> HIDE DEF before
    <3>2. /\ Len(list) + 1 \in 1..Len(list) + 1 /\ ~(Len(list) + 1 <= Len(list))
          /\ (Len(list) + 1) - 1 = Len(list)
      BY <1>1
    <3> QED
      BY <3>1, <3>2
  <2>2. CASE at # {}
    <3>1. at \subseteq Nat
      BY <1>1
    <3>2. \E n \in at : \A k \in at : n <= k
      <4> HIDE DEF at
      <4> QED
        BY <2>2, <3>1, LeastElement
    <3>3. PICK n \in 1..Len(list) : before(n) /\ \A k \in at : n <= k
      BY <3>2
    <3>4. \A k \in 1..n-1 : k \in 1..Len(list) /\ ~(n <= k)
      BY <1>1
    <3>5. \A k \in 1..n-1 : ~before(k)
      BY <3>3, <3>4
    <3> HIDE DEF before, at
    <3>6. n \in 1..Len(list) + 1
      BY <1>1
    <3> QED
      BY <3>3, <3>5, <3>6
  <2> QED
    BY <2>1, <2>2
<1> DEFINE n == Place(list, t, flag)
<1>3. n \in 1..Len(list) + 1 /\ (n <= Len(list) => before(n)) /\ \A k \in 1..n-1 : ~before(k)
  BY <1>2 DEF Place
<1> HIDE DEF n
<1>4. flag = "PRIO" => \A k \in 1..n-1 : ~Lower(current_priority[list[k]], current_priority[t])
  BY <1>3
<1> QED
  BY <1>3, <1>4 DEF n

(* A thread that timed out is taken off the list it was on, the others     *)
(* keep their order.                                                       *)
LEMMA WithoutElements ==
  ASSUME NEW S, NEW list \in Seq(S), IsInjective(list), NEW t
  PROVE  /\ Without(list, t) \in Seq(S)
         /\ IsInjective(Without(list, t))
         /\ Range(Without(list, t)) = Range(list) \ {t}
         /\ \A i, j \in DOMAIN Without(list, t) : i < j =>
              \E p, q \in DOMAIN list : /\ p < q
                                        /\ Without(list, t)[i] = list[p]
                                        /\ Without(list, t)[j] = list[q]
<1> DEFINE at == {i \in DOMAIN list : list[i] = t}
<1>1. CASE at = {}
  <2>1. t \notin Range(list)
    BY <1>1 DEF Range
  <2>2. Without(list, t) = list
    BY <1>1 DEF Without
  <2> QED
    BY <2>1, <2>2
<1>2. CASE at # {}
  <2> DEFINE k == CHOOSE i \in at : TRUE
             rest == RemoveAt(list, k)
  <2>1. k \in 1..Len(list) /\ list[k] = t
    BY <1>2
  <2>2. Without(list, t) = rest
    BY <1>2 DEF Without
  <2> HIDE DEF k, at
  <2>3. rest \in Seq(S) /\ IsInjective(rest) /\ Range(rest) = Range(list) \ {t}
    BY <2>1, RemoveAtRange
  <2>4. /\ Len(rest) = Len(list) - 1
        /\ \A i \in 1..(Len(list) - 1) : rest[i] = IF i < k THEN list[i] ELSE list[i + 1]
    BY <2>1, RemoveAtElements
  <2> HIDE DEF rest
  <2>5. ASSUME NEW i \in DOMAIN rest, NEW j \in DOMAIN rest, i < j
        PROVE  \E p, q \in DOMAIN list : p < q /\ rest[i] = list[p] /\ rest[j] = list[q]
    <3> DEFINE p == IF i < k THEN i ELSE i + 1
               q == IF j < k THEN j ELSE j + 1
    <3>1. i \in 1..(Len(list) - 1) /\ j \in 1..(Len(list) - 1) /\ Len(list) \in Nat
      BY <2>3, <2>4
    <3>2. p \in DOMAIN list /\ q \in DOMAIN list /\ p < q
      BY <2>1, <2>5, <3>1
    <3>3. rest[i] = list[p] /\ rest[j] = list[q]
      BY <2>4, <3>1
    <3> QED
      BY <3>2, <3>3
  <2> QED
    BY <2>2, <2>3, <2>5
<1> QED
  BY <1>1, <1>2

(* The new owner is taken off the list.                                    *)
LEMMA TailElements ==
  ASSUME NEW S, NEW list \in Seq(S), IsInjective(list), list # << >>
  PROVE  /\ Tail(list) \in Seq(S) /\ Head(list) \in S
         /\ IsInjective(Tail(list))
         /\ Range(Tail(list)) = Range(list) \ {Head(list)}
         /\ Len(Tail(list)) = Len(list) - 1 /\ Len(list) \in Nat /\ Len(list) > 0
         /\ Head(list) = list[1]
         /\ \A i \in 1..(Len(list) - 1) : Tail(list)[i] = list[i + 1]
         /\ Head(list) \in Range(list)
<1> DEFINE n == Len(list)
           rest == Tail(list)
<1>1. n \in Nat /\ n > 0 /\ DOMAIN list = 1..n
  BY EmptySeq
<1>2. /\ rest \in Seq(S) /\ Len(rest) = n - 1 /\ Head(list) = list[1] /\ Head(list) \in S
      /\ \A i \in 1..(n - 1) : rest[i] = list[i + 1]
  BY <1>1, HeadTailProperties
<1>3. DOMAIN rest = 1..(n - 1)
  BY <1>2
<1> HIDE DEF n, rest
<1>4. \A i, j \in 1..n : list[i] = list[j] => i = j
  BY <1>1 DEF IsInjective
<1>5. \A i \in 1..(n - 1) : i + 1 \in 1..n /\ i + 1 # 1
  BY <1>1
<1>6. IsInjective(rest)
  <2> SUFFICES ASSUME NEW i \in 1..(n - 1), NEW j \in 1..(n - 1), rest[i] = rest[j]
               PROVE  i = j
    BY <1>3 DEF IsInjective
  <2>1. i + 1 = j + 1
    BY <1>2, <1>4, <1>5
  <2> QED
    BY <1>1, <2>1
<1>7. Range(rest) = Range(list) \ {Head(list)}
  <2>1. ASSUME NEW x \in Range(rest) PROVE x \in Range(list) \ {Head(list)}
    <3>1. PICK i \in 1..(n - 1) : x = rest[i]
      BY <1>3 DEF Range
    <3>2. x = list[i + 1] /\ 1 \in 1..n
      BY <1>1, <1>2, <3>1
    <3> QED
      BY <1>1, <1>2, <1>4, <1>5, <3>2 DEF Range
  <2>2. ASSUME NEW x \in Range(list) \ {Head(list)} PROVE x \in Range(rest)
    <3>1. PICK i \in 1..n : x = list[i]
      BY <1>1 DEF Range
    <3>2. i - 1 \in 1..(n - 1) /\ (i - 1) + 1 = i
      BY <1>1, <1>2, <3>1
    <3>3. x = rest[i - 1]
      BY <1>2, <3>1, <3>2
    <3> QED
      BY <1>3, <3>2, <3>3 DEF Range
  <2> QED
    BY <2>1, <2>2
<1>8. Head(list) \in Range(list)
  BY <1>1, <1>2 DEF Range
<1> QED
  BY <1>1, <1>2, <1>6, <1>7, <1>8 DEF n, rest
-------------------------------------------------------------------------------
(* Owners and what they hold.                                              *)

LEMMA OwnFacts ==
  ASSUME TypeOK, CallInv, OwnInv, NEW t \in Threads, NEW m \in Mutexes
  PROVE  /\ Takes(t, m) \in Nat /\ hold[m] \in Nat
         /\ owner[m] = t /\ ~Coming(t, m) => Takes(t, m) = hold[m] /\ hold[m] > 0
         /\ owner[m] # t => Takes(t, m) = 0 /\ ~Coming(t, m)
         /\ At(t, "idle") => ~Coming(t, m) /\ waits[t] = None
         /\ value[m] = 0 => owner[m] \in Threads
         /\ value[m] > 0 => owner[m] = None /\ hold[m] = 0 /\ value[m] = 1
<1>1. /\ hold[m] \in Nat /\ value[m] \in {0, 1} /\ owner[m] \in Threads \cup {None}
      /\ held \in [Threads -> Seq(Mutexes)] /\ None \notin Threads /\ None \notin Mutexes
  BY MutexAssumption DEF TypeOK
<1>2. Takes(t, m) \in Nat
  BY <1>1, TakesType
<1>3. Takes(t, m) + (IF Coming(t, m) THEN 1 ELSE 0) = IF owner[m] = t THEN hold[m] ELSE 0
  BY DEF OwnInv, OwnershipExact, Granted
<1>4. hold[m] = 0 <=> owner[m] = None
  BY DEF OwnInv, HoldInv
<1>5. value[m] = 1 <=> owner[m] = None
  BY DEF OwnInv, AvailableExact
<1>6. At(t, "idle") => waits[t] = None
  BY DEF At, CallInv
<1>7. waits[t] = None => ~Coming(t, m)
  BY <1>1 DEF Coming
<1>8. owner[m] = t /\ ~Coming(t, m) => Takes(t, m) = hold[m] /\ hold[m] > 0
  BY <1>1, <1>2, <1>3, <1>4
<1>9. owner[m] # t => Takes(t, m) = 0 /\ ~Coming(t, m)
  BY <1>2, <1>3
<1> QED
  BY <1>1, <1>2, <1>4, <1>5, <1>6, <1>7, <1>8, <1>9

LEMMA SmallModulo ==
  ASSUME NEW a \in Nat, NEW b \in Nat, a < b
  PROVE  a % b = a
OBVIOUS

(* The holds a take or a release of one take leaves never wrap.            *)
LEMMA HoldKept ==
  ASSUME TypeOK, CallInv, OwnInv, NEW t \in Threads, NEW m \in Mutexes
  PROVE  /\ Wants(t, m) /\ owner[m] = t =>
              (hold[m] + 1) % HoldRange = hold[m] + 1 /\ hold[m] + 1 <= MaxTakes
         /\ Wants(t, m) /\ value[m] > 0 => (hold[m] + 1) % HoldRange = 1
         /\ GivesUp(t, m) /\ owner[m] = t =>
              (hold[m] - 1) % HoldRange = hold[m] - 1 /\ hold[m] - 1 \in 0..MaxTakes
<1>1. /\ hold[m] \in 0..MaxTakes /\ MaxTakes \in Nat /\ HoldRange \in Nat
      /\ 0 < MaxTakes /\ MaxTakes < HoldRange
  BY MutexAssumption DEF TypeOK
<1>2. ASSUME Wants(t, m), owner[m] = t
      PROVE  (hold[m] + 1) % HoldRange = hold[m] + 1 /\ hold[m] + 1 <= MaxTakes
  <2>1. At(t, "idle")
    BY <1>2 DEF Wants
  <2>2. Takes(t, m) = hold[m] /\ hold[m] > 0
    BY <1>2, <2>1, OwnFacts
  <2>3. held[t] \in Seq(Mutexes) /\ Mutexes \subseteq Nat
    BY MutexAssumption DEF TypeOK
  <2>4. ~(\A i \in DOMAIN held[t] : held[t][i] < m)
    <3>1. PICK i \in DOMAIN held[t] : held[t][i] = m
      <4>1. Takes(t, m) # 0 /\ held \in [Threads -> Seq(Mutexes)]
        BY <1>1, <2>2 DEF TypeOK
      <4> QED
        BY <4>1, TakesType
    <3>2. ~(m < m)
      BY <2>3
    <3> QED
      BY <3>1, <3>2
  <2>5. Takes(t, m) \in 1..MaxTakes-1
    BY <1>2, <2>4 DEF Wants
  <2>6. hold[m] + 1 \in Nat /\ hold[m] + 1 < HoldRange /\ hold[m] + 1 <= MaxTakes
    BY <1>1, <2>2, <2>5
  <2> QED
    BY <1>1, <2>6, SmallModulo
<1>3. ASSUME value[m] > 0
      PROVE  (hold[m] + 1) % HoldRange = 1
  <2>1. hold[m] + 1 = 1 /\ 1 < HoldRange
    BY <1>1, <1>3, OwnFacts
  <2> QED
    BY <1>1, <2>1, SmallModulo
<1>4. ASSUME GivesUp(t, m), owner[m] = t
      PROVE  (hold[m] - 1) % HoldRange = hold[m] - 1 /\ hold[m] - 1 \in 0..MaxTakes
  <2>1. At(t, "idle")
    BY <1>4 DEF GivesUp
  <2>2. hold[m] > 0
    BY <1>4, <2>1, OwnFacts
  <2>3. hold[m] - 1 \in Nat /\ hold[m] - 1 < HoldRange /\ hold[m] - 1 \in 0..MaxTakes
    BY <1>1, <2>2
  <2> QED
    BY <1>1, <2>3, SmallModulo
<1> QED
  BY <1>2, <1>3, <1>4
-------------------------------------------------------------------------------
(* Types.                                                                  *)

LEMMA TypeStep == MInv /\ [Next]_vars => TypeOK'
<1> SUFFICES ASSUME MInv, [Next]_vars PROVE TypeOK'
  OBVIOUS
<1>1. TypeOK /\ CallInv /\ OwnInv
  BY DEF MInv
<1>2. /\ ThreadTypeOK /\ pc \in [Threads -> {"idle", "take"}]
      /\ value \in [Mutexes -> {0, 1}] /\ owner \in [Mutexes -> Threads \cup {None}]
      /\ hold \in [Mutexes -> 0..MaxTakes] /\ original_priority \in [Mutexes -> Nat]
      /\ suspend_thread \in [Mutexes -> Seq(Threads)]
      /\ current_priority \in [Threads -> Nat]
      /\ waits \in [Threads -> Mutexes \cup {None}]
      /\ held \in [Threads -> Seq(Mutexes)]
      /\ MaxTakes \in Nat /\ 0 < MaxTakes
  BY <1>1, MutexAssumption DEF TypeOK
<1>3. ASSUME NEW t \in Threads, NEW m \in Mutexes, TakeAgain(t, m)
      PROVE  TypeOK'
  <2>1. hold' \in [Mutexes -> 0..MaxTakes]
    <3>1. hold[m] + 1 \in 0..MaxTakes /\ (hold[m] + 1) % HoldRange = hold[m] + 1
      BY <1>1, <1>2, <1>3, HoldKept DEF TakeAgain
    <3>2. hold' = [hold EXCEPT ![m] = hold[m] + 1]
      BY <1>3, <3>1 DEF TakeAgain
    <3> QED
      BY <1>2, <3>1, <3>2
  <2>2. held' \in [Threads -> Seq(Mutexes)]
    BY <1>2, <1>3, GotTakes DEF TakeAgain
  <2> QED
    BY <1>2, <1>3, <2>1, <2>2 DEF TakeAgain, TypeOK, ThreadTypeOK, threadVars
<1>4. ASSUME NEW t \in Threads, NEW m \in Mutexes, TakeAvailable(t, m)
      PROVE  TypeOK'
  <2>1. hold' \in [Mutexes -> 0..MaxTakes] /\ value' \in [Mutexes -> {0, 1}]
    <3>1. 1 \in 0..MaxTakes /\ (hold[m] + 1) % HoldRange = 1 /\ value[m] - 1 \in {0, 1}
      BY <1>1, <1>2, <1>4, HoldKept DEF TakeAvailable
    <3>2. hold' = [hold EXCEPT ![m] = 1] /\ value' = [value EXCEPT ![m] = value[m] - 1]
      BY <1>4, <3>1 DEF TakeAvailable
    <3> QED
      BY <1>2, <3>1, <3>2
  <2>2. held' \in [Threads -> Seq(Mutexes)]
    BY <1>2, <1>4, GotTakes DEF TakeAvailable
  <2>3. owner' \in [Mutexes -> Threads \cup {None}] /\ original_priority' \in [Mutexes -> Nat]
    BY <1>2, <1>4 DEF TakeAvailable
  <2> QED
    BY <1>2, <1>4, <2>1, <2>2, <2>3 DEF TakeAvailable, TypeOK, ThreadTypeOK, threadVars
<1>5. ASSUME NEW t \in Threads, NEW m \in Mutexes, NEW time \in Timeouts, TakeWaits(t, m, time)
      PROVE  TypeOK'
  <2>1. suspend_thread' \in [Mutexes -> Seq(Threads)]
    <3> DEFINE n == Place(suspend_thread[m], t, Flag[m])
    <3>1. suspend_thread[m] \in Seq(Threads)
      BY <1>2
    <3>2. n \in 1..Len(suspend_thread[m]) + 1
      BY <3>1, PlaceFound
    <3> HIDE DEF n
    <3>3. InsertAt(suspend_thread[m], n, t) \in Seq(Threads)
      BY <3>1, <3>2, InsertAtElements
    <3>4. suspend_thread' = [suspend_thread EXCEPT ![m] = InsertAt(suspend_thread[m], n, t)]
      BY <1>5 DEF TakeWaits, Listed, n
    <3> QED
      BY <1>2, <3>3, <3>4
  <2>2. current_priority' \in [Threads -> Nat]
    BY <1>2, <1>5 DEF TakeWaits
  <2>3. ThreadTypeOK' /\ pc' \in [Threads -> {"idle", "take"}] /\ waits' \in [Threads -> Mutexes \cup {None}]
    BY <1>2, <1>5 DEF TakeWaits, ThreadTypeOK, EnterCall, Goto
  <2> QED
    BY <1>2, <1>5, <2>1, <2>2, <2>3 DEF TakeWaits, TypeOK
<1>6. ASSUME NEW t \in Threads, TakeExpires(t)
      PROVE  TypeOK'
  <2>1. suspend_thread' \in [Mutexes -> Seq(Threads)]
    <3>1. CASE waits[t] \in Mutexes
      <4>1. suspend_thread[waits[t]] \in Seq(Threads) /\ IsInjective(suspend_thread[waits[t]])
        BY <1>2, <3>1 DEF MInv, WaitersInv
      <4>2. Without(suspend_thread[waits[t]], t) \in Seq(Threads)
        BY <4>1, WithoutElements
      <4> QED
        BY <1>2, <1>6, <3>1, <4>2 DEF TakeExpires
    <3>2. CASE waits[t] \notin Mutexes
      BY <1>2, <1>6, <3>2 DEF TakeExpires
    <3> QED
      BY <3>1, <3>2
  <2>2. ThreadTypeOK' /\ pc' \in [Threads -> {"idle", "take"}]
    BY <1>2, <1>6 DEF TakeExpires, TimedOut, ThreadTypeOK
  <2> QED
    BY <1>2, <1>6, <2>1, <2>2 DEF TakeExpires, TypeOK
<1>7. ASSUME NEW t \in Threads, TakeFails(t)
      PROVE  TypeOK'
  <2>1. ThreadTypeOK' /\ pc' \in [Threads -> {"idle", "take"}] /\ waits' \in [Threads -> Mutexes \cup {None}]
    BY <1>2, <1>7 DEF TakeFails, ThreadTypeOK, LeaveCall, EnterCall, Goto
  <2> QED
    BY <1>2, <1>7, <2>1 DEF TakeFails, TypeOK, mutexVars
<1>8. ASSUME NEW t \in Threads, TakeReturns(t)
      PROVE  TypeOK'
  <2>1. ThreadTypeOK' /\ pc' \in [Threads -> {"idle", "take"}] /\ waits' \in [Threads -> Mutexes \cup {None}]
    BY <1>2, <1>8 DEF TakeReturns, ThreadTypeOK, LeaveCall, EnterCall, Goto
  <2>2. waits[t] \in Mutexes
    BY <1>1, <1>2, <1>8 DEF TakeReturns, CallInv, At
  <2>3. held' \in [Threads -> Seq(Mutexes)]
    BY <1>2, <1>8, <2>2, GotTakes DEF TakeReturns
  <2> QED
    BY <1>2, <1>8, <2>1, <2>3 DEF TakeReturns, TypeOK, mutexVars
<1>9. ASSUME NEW t \in Threads, NEW m \in Mutexes, ReleaseOnce(t, m)
      PROVE  TypeOK'
  <2>1. hold' \in [Mutexes -> 0..MaxTakes]
    <3>1. hold[m] - 1 \in 0..MaxTakes /\ (hold[m] - 1) % HoldRange = hold[m] - 1
      BY <1>1, <1>9, HoldKept DEF ReleaseOnce
    <3>2. hold' = [hold EXCEPT ![m] = hold[m] - 1]
      BY <1>9, <3>1 DEF ReleaseOnce
    <3> QED
      BY <1>2, <3>1, <3>2
  <2>2. held' \in [Threads -> Seq(Mutexes)]
    BY <1>2, <1>9, GoneTakes DEF ReleaseOnce
  <2> QED
    BY <1>2, <1>9, <2>1, <2>2 DEF ReleaseOnce, TypeOK, ThreadTypeOK, threadVars
<1>10. ASSUME NEW t \in Threads, NEW m \in Mutexes, ReleaseFrees(t, m)
       PROVE  TypeOK'
  <2>1. value' \in [Mutexes -> {0, 1}]
    <3>1. value[m] + 1 \in {0, 1}
      <4>1. value[m] # 1
        BY <1>1, <1>2, <1>10, MutexAssumption DEF ReleaseFrees, OwnInv, AvailableExact
      <4> QED
        BY <1>2, <4>1
    <3>2. value' = [value EXCEPT ![m] = value[m] + 1]
      BY <1>10 DEF ReleaseFrees
    <3> QED
      BY <1>2, <3>1, <3>2
  <2>2. held' \in [Threads -> Seq(Mutexes)]
    BY <1>2, <1>10, GoneTakes DEF ReleaseFrees
  <2>3. /\ owner' \in [Mutexes -> Threads \cup {None}] /\ original_priority' \in [Mutexes -> Nat]
        /\ hold' \in [Mutexes -> 0..MaxTakes] /\ current_priority' \in [Threads -> Nat]
    BY <1>2, <1>10 DEF ReleaseFrees, Restore, Initial
  <2> QED
    BY <1>2, <1>10, <2>1, <2>2, <2>3 DEF ReleaseFrees, TypeOK, ThreadTypeOK, threadVars
<1>11. ASSUME NEW t \in Threads, NEW m \in Mutexes, ReleaseHandsOver(t, m)
       PROVE  TypeOK'
  <2> DEFINE next == Head(suspend_thread[m])
  <2>1. next \in Threads /\ Tail(suspend_thread[m]) \in Seq(Threads)
    <3>1. suspend_thread[m] \in Seq(Threads) /\ suspend_thread[m] # << >>
      BY <1>2, <1>11 DEF ReleaseHandsOver
    <3> QED
      BY <3>1, HeadTailProperties
  <2>2. held' \in [Threads -> Seq(Mutexes)]
    BY <1>2, <1>11, GoneTakes DEF ReleaseHandsOver
  <2>3. /\ owner' = [owner EXCEPT ![m] = next]
        /\ original_priority' = [original_priority EXCEPT ![m] = current_priority[next]]
        /\ stat' = [stat EXCEPT ![next] = "READY"]
        /\ suspend_thread' = [suspend_thread EXCEPT ![m] = Tail(suspend_thread[m])]
        /\ current_priority' = [current_priority EXCEPT ![t] = original_priority[m]]
    BY <1>11 DEF ReleaseHandsOver, Resume, Restore
  <2> HIDE DEF next
  <2>4. /\ owner' \in [Mutexes -> Threads \cup {None}] /\ original_priority' \in [Mutexes -> Nat]
        /\ stat' \in [Threads -> {"READY", "SUSPEND"}]
        /\ suspend_thread' \in [Mutexes -> Seq(Threads)] /\ current_priority' \in [Threads -> Nat]
    BY <1>2, <2>1, <2>3 DEF ThreadTypeOK
  <2> QED
    BY <1>2, <1>11, <2>2, <2>4 DEF ReleaseHandsOver, TypeOK, ThreadTypeOK
<1>12. CASE UNCHANGED vars
  BY <1>2, <1>12 DEF vars, threadVars, mutexVars, TypeOK, ThreadTypeOK
<1>13. ASSUME NEW t \in Threads, NEW m \in Mutexes, Refused(t, m)
       PROVE  TypeOK'
  BY <1>12, <1>13 DEF Refused
<1> QED
  BY <1>3, <1>4, <1>5, <1>6, <1>7, <1>8, <1>9, <1>10, <1>11, <1>12, <1>13
     DEF Next, Returns, Releases
-------------------------------------------------------------------------------
(* What blocking calls leave in a thread, and who is on a list.            *)

LEMMA CallStep == MInv /\ [Next]_vars => CallInv'
<1> SUFFICES ASSUME MInv, [Next]_vars PROVE CallInv'
  OBVIOUS
<1>1. TypeOK /\ CallInv /\ OwnInv /\ WaitersInv
  BY DEF MInv
<1>2. /\ stat \in [Threads -> {"READY", "SUSPEND"}] /\ error \in [Threads -> {"EOK", "ETIMEOUT"}]
      /\ pc \in [Threads -> {"idle", "take"}] /\ waits \in [Threads -> Mutexes \cup {None}]
      /\ suspend_thread \in [Mutexes -> Seq(Threads)] /\ None \notin Mutexes
  BY <1>1, MutexAssumption DEF TypeOK, ThreadTypeOK
<1> USE <1>1, <1>2 DEF CallInv
<1>3. CASE UNCHANGED <<pc, stat, error, waits>>
  BY <1>3
<1>4. ASSUME NEW t \in Threads, NEW m \in Mutexes, NEW time \in Timeouts, TakeWaits(t, m, time)
      PROVE  CallInv'
  BY <1>4 DEF TakeWaits, EnterCall, Goto
<1>5. ASSUME NEW t \in Threads, TakeExpires(t)
      PROVE  CallInv'
  BY <1>5 DEF TakeExpires, TimedOut
<1>6. ASSUME NEW t \in Threads, TakeFails(t)
      PROVE  CallInv'
  BY <1>6 DEF TakeFails, At, LeaveCall, EnterCall, Goto
<1>7. ASSUME NEW t \in Threads, TakeReturns(t)
      PROVE  CallInv'
  BY <1>7 DEF TakeReturns, At, LeaveCall, EnterCall, Goto
<1>8. ASSUME NEW t \in Threads, NEW m \in Mutexes, ReleaseHandsOver(t, m)
      PROVE  CallInv'
  <2>1. PICK next \in Threads : stat' = [stat EXCEPT ![next] = "READY"]
    <3>1. suspend_thread[m] \in Seq(Threads) /\ suspend_thread[m] # << >>
      BY <1>8 DEF ReleaseHandsOver
    <3>2. Head(suspend_thread[m]) \in Threads
      BY <3>1, HeadTailProperties
    <3> QED
      BY <1>8, <3>2 DEF ReleaseHandsOver, Resume
  <2> QED
    BY <1>8, <2>1 DEF ReleaseHandsOver
<1>9. ASSUME NEW t \in Threads, NEW m \in Mutexes,
             TakeAgain(t, m) \/ TakeAvailable(t, m) \/ ReleaseOnce(t, m) \/ ReleaseFrees(t, m)
               \/ Refused(t, m)
      PROVE  CallInv'
  BY <1>3, <1>9 DEF TakeAgain, TakeAvailable, ReleaseOnce, ReleaseFrees, Refused, vars, threadVars
<1>10. CASE UNCHANGED vars
  BY <1>3, <1>10 DEF vars, threadVars
<1> QED
  BY <1>4, <1>5, <1>6, <1>7, <1>8, <1>9, <1>10 DEF Next, Returns, Releases

LEMMA WaitersStep == MInv /\ [Next]_vars => WaitersInv'
<1> SUFFICES ASSUME MInv, [Next]_vars PROVE WaitersInv'
  OBVIOUS
<1>1. TypeOK /\ CallInv /\ OwnInv /\ WaitersInv
  BY DEF MInv
<1>2. /\ stat \in [Threads -> {"READY", "SUSPEND"}] /\ error \in [Threads -> {"EOK", "ETIMEOUT"}]
      /\ pc \in [Threads -> {"idle", "take"}] /\ waits \in [Threads -> Mutexes \cup {None}]
      /\ suspend_thread \in [Mutexes -> Seq(Threads)] /\ None \notin Mutexes
  BY <1>1, MutexAssumption DEF TypeOK, ThreadTypeOK
<1>3. \A m \in Mutexes : Range(suspend_thread[m]) \subseteq Threads
  BY <1>2, ElementOfSeq DEF Range
<1>4. ASSUME UNCHANGED suspend_thread,
             \A u \in Threads : stat[u] = "SUSPEND" => stat'[u] = stat[u] /\ waits'[u] = waits[u]
      PROVE  WaitersInv'
  <2> SUFFICES ASSUME NEW m \in Mutexes
               PROVE  /\ IsInjective(suspend_thread[m])
                      /\ \A u \in Range(suspend_thread[m]) : waits'[u] = m /\ stat'[u] = "SUSPEND"
    BY <1>4 DEF WaitersInv
  <2> QED
    BY <1>1, <1>3, <1>4 DEF WaitersInv
<1>5. ASSUME NEW t \in Threads, NEW m \in Mutexes, NEW time \in Timeouts, TakeWaits(t, m, time)
      PROVE  WaitersInv'
  <2> DEFINE list == suspend_thread[m]
             n == Place(list, t, Flag[m])
             more == InsertAt(list, n, t)
  <2>1. list \in Seq(Threads) /\ IsInjective(list) /\ stat[t] = "READY"
    BY <1>1, <1>2, <1>5 DEF WaitersInv, TakeWaits, Wants, At
  <2>2. t \notin Range(list) /\ n \in 1..Len(list) + 1
    BY <1>1, <2>1, PlaceFound DEF WaitersInv
  <2>3. suspend_thread' = [suspend_thread EXCEPT ![m] = more]
    BY <1>5 DEF TakeWaits, Listed
  <2> HIDE DEF n
  <2>4. IsInjective(more) /\ Range(more) = Range(list) \cup {t}
    BY <2>1, <2>2, InsertAtRange
  <2>5. /\ stat' = [stat EXCEPT ![t] = "SUSPEND"] /\ waits' = [waits EXCEPT ![t] = m]
    BY <1>5 DEF TakeWaits
  <2> HIDE DEF more
  <2> SUFFICES ASSUME NEW k \in Mutexes
               PROVE  /\ IsInjective(suspend_thread'[k])
                      /\ \A u \in Range(suspend_thread'[k]) : waits'[u] = k /\ stat'[u] = "SUSPEND"
    BY DEF WaitersInv
  <2>6. CASE k = m
    <3>1. suspend_thread'[k] = more
      BY <1>2, <2>3, <2>6
    <3>2. \A u \in Range(list) : u \in Threads /\ waits[u] = m /\ stat[u] = "SUSPEND"
      BY <1>1, <1>3 DEF WaitersInv
    <3>3. \A u \in Range(more) : waits'[u] = m /\ stat'[u] = "SUSPEND"
      BY <1>2, <2>4, <2>5, <3>2
    <3> QED
      BY <2>4, <2>6, <3>1, <3>3
  <2>7. CASE k # m
    <3>1. suspend_thread'[k] = suspend_thread[k]
      BY <1>2, <2>3, <2>7
    <3>2. \A u \in Range(suspend_thread[k]) : u \in Threads /\ waits[u] = k /\ stat[u] = "SUSPEND"
      BY <1>1, <1>3 DEF WaitersInv
    <3>3. \A u \in Range(suspend_thread[k]) : waits'[u] = k /\ stat'[u] = "SUSPEND"
      BY <1>2, <2>1, <2>5, <3>2
    <3> QED
      BY <1>1, <3>1, <3>3 DEF WaitersInv
  <2> QED
    BY <2>6, <2>7
<1>6. ASSUME NEW t \in Threads, NEW m \in Mutexes, waits[t] = m,
             stat' = [stat EXCEPT ![t] = "READY"], waits' = waits,
             \A k \in Mutexes \ {m} : suspend_thread'[k] = suspend_thread[k],
             IsInjective(suspend_thread'[m]),
             Range(suspend_thread'[m]) = Range(suspend_thread[m]) \ {t}
      PROVE  WaitersInv'
  <2> SUFFICES ASSUME NEW k \in Mutexes
               PROVE  /\ IsInjective(suspend_thread'[k])
                      /\ \A u \in Range(suspend_thread'[k]) : waits'[u] = k /\ stat'[u] = "SUSPEND"
    BY DEF WaitersInv
  <2>1. \A u \in Range(suspend_thread[k]) : u \in Threads /\ waits[u] = k /\ stat[u] = "SUSPEND"
    BY <1>1, <1>3 DEF WaitersInv
  <2>2. \A u \in Range(suspend_thread'[k]) : u \in Range(suspend_thread[k]) /\ u # t
    BY <1>6, <2>1
  <2>3. \A u \in Range(suspend_thread'[k]) : waits'[u] = k /\ stat'[u] = "SUSPEND"
    BY <1>2, <1>6, <2>1, <2>2
  <2> QED
    BY <1>1, <1>6, <2>3 DEF WaitersInv
<1>7. ASSUME NEW t \in Threads, TakeExpires(t)
      PROVE  WaitersInv'
  <2>1. waits[t] \in Mutexes
    BY <1>1, <1>2, <1>7 DEF TakeExpires, TimedOut, CallInv
  <2> DEFINE m == waits[t]
  <2>2. suspend_thread' = [suspend_thread EXCEPT ![m] = Without(suspend_thread[m], t)]
    BY <1>7 DEF TakeExpires
  <2>3. suspend_thread[m] \in Seq(Threads) /\ IsInjective(suspend_thread[m])
    BY <1>1, <1>2, <2>1 DEF WaitersInv
  <2>4. /\ IsInjective(Without(suspend_thread[m], t))
        /\ Range(Without(suspend_thread[m], t)) = Range(suspend_thread[m]) \ {t}
    BY <2>3, WithoutElements
  <2>5. /\ suspend_thread'[m] = Without(suspend_thread[m], t)
        /\ \A k \in Mutexes \ {m} : suspend_thread'[k] = suspend_thread[k]
    BY <1>2, <2>1, <2>2
  <2> QED
    BY <1>6, <1>7, <2>1, <2>4, <2>5 DEF TakeExpires, TimedOut
<1>8. ASSUME NEW t \in Threads, NEW m \in Mutexes, ReleaseHandsOver(t, m)
      PROVE  WaitersInv'
  <2> DEFINE list == suspend_thread[m]
             next == Head(list)
  <2>1. list \in Seq(Threads) /\ IsInjective(list) /\ list # << >>
    BY <1>1, <1>2, <1>8 DEF WaitersInv, ReleaseHandsOver
  <2>2. /\ next \in Threads /\ IsInjective(Tail(list)) /\ Range(Tail(list)) = Range(list) \ {next}
        /\ next \in Range(list)
    BY <2>1, TailElements
  <2>3. waits[next] = m
    BY <1>1, <2>2 DEF WaitersInv
  <2>4. /\ stat' = [stat EXCEPT ![next] = "READY"] /\ waits' = waits
        /\ suspend_thread' = [suspend_thread EXCEPT ![m] = Tail(list)]
    BY <1>8 DEF ReleaseHandsOver, Resume
  <2>5. /\ suspend_thread'[m] = Tail(list)
        /\ \A k \in Mutexes \ {m} : suspend_thread'[k] = suspend_thread[k]
    BY <1>2, <2>4
  <2> HIDE DEF next, list
  <2> QED
    BY <1>6, <2>2, <2>3, <2>4, <2>5 DEF list
<1>9. ASSUME NEW t \in Threads, TakeFails(t) \/ TakeReturns(t)
      PROVE  WaitersInv'
  BY <1>2, <1>4, <1>9 DEF TakeFails, TakeReturns, At, mutexVars
<1>10. ASSUME NEW t \in Threads, NEW m \in Mutexes,
              TakeAgain(t, m) \/ TakeAvailable(t, m) \/ ReleaseOnce(t, m) \/ ReleaseFrees(t, m)
                \/ Refused(t, m)
       PROVE  WaitersInv'
  BY <1>4, <1>10 DEF TakeAgain, TakeAvailable, ReleaseOnce, ReleaseFrees, Refused, vars,
                     threadVars, mutexVars
<1>11. CASE UNCHANGED vars
  BY <1>4, <1>11 DEF vars, threadVars, mutexVars
<1> QED
  BY <1>5, <1>7, <1>8, <1>9, <1>10, <1>11 DEF Next, Returns, Releases
-------------------------------------------------------------------------------
(* Ownership.                                                              *)

LEMMA OwnStep == MInv /\ [Next]_vars => OwnInv'
<1> SUFFICES ASSUME MInv, [Next]_vars PROVE OwnInv'
  OBVIOUS
<1>1. TypeOK /\ CallInv /\ OwnInv /\ WaitersInv
  BY DEF MInv
<1>2. /\ stat \in [Threads -> {"READY", "SUSPEND"}] /\ error \in [Threads -> {"EOK", "ETIMEOUT"}]
      /\ pc \in [Threads -> {"idle", "take"}] /\ waits \in [Threads -> Mutexes \cup {None}]
      /\ value \in [Mutexes -> {0, 1}] /\ owner \in [Mutexes -> Threads \cup {None}]
      /\ hold \in [Mutexes -> 0..MaxTakes] /\ held \in [Threads -> Seq(Mutexes)]
      /\ suspend_thread \in [Mutexes -> Seq(Threads)]
      /\ None \notin Mutexes /\ None \notin Threads /\ MaxTakes \in Nat
  BY <1>1, MutexAssumption DEF TypeOK, ThreadTypeOK
<1>3. \A u \in Threads, k \in Mutexes :
        /\ Takes(u, k) \in Nat /\ hold[k] \in Nat
        /\ Takes(u, k) + (IF Coming(u, k) THEN 1 ELSE 0) = IF owner[k] = u THEN hold[k] ELSE 0
  BY <1>1, OwnFacts DEF OwnInv, OwnershipExact, Granted
<1>4. ASSUME \A u \in Threads, k \in Mutexes :
               Takes(u, k)' + (IF Coming(u, k)' THEN 1 ELSE 0) = IF owner'[k] = u THEN hold'[k] ELSE 0
      PROVE  OwnershipExact'
  BY <1>4 DEF OwnershipExact, Granted
<1>5. \A k \in Mutexes : /\ hold[k] = 0 <=> owner[k] = None
                         /\ value[k] = 1 <=> owner[k] = None
                         /\ owner[k] = None => suspend_thread[k] = << >>
  BY <1>1 DEF OwnInv, HoldInv, AvailableExact
<1>6. ASSUME \A k \in Mutexes : /\ hold'[k] = 0 <=> owner'[k] = None
                                /\ value'[k] = 1 <=> owner'[k] = None
                                /\ owner'[k] = None => suspend_thread'[k] = << >>
      PROVE  HoldInv' /\ AvailableExact'
  BY <1>6 DEF HoldInv, AvailableExact
<1>7. \A u \in Threads, k \in Mutexes : held' = held => Takes(u, k)' = Takes(u, k)
  BY DEF Takes
<1>8. \A u \in Threads, k \in Mutexes :
        waits' = waits /\ stat' = stat /\ error' = error => (Coming(u, k)' <=> Coming(u, k))
  BY DEF Coming
<1>9. ASSUME NEW t \in Threads, NEW m \in Mutexes, TakeAgain(t, m)
      PROVE  OwnInv'
  <2>1. hold' = [hold EXCEPT ![m] = hold[m] + 1]
    BY <1>1, <1>9, HoldKept DEF TakeAgain
  <2>2. /\ owner[m] = t /\ UNCHANGED <<value, owner, suspend_thread, waits, stat, error>>
        /\ Got(t, m)
    BY <1>9 DEF TakeAgain, threadVars
  <2>3. \A u \in Threads, k \in Mutexes :
          Takes(u, k)' = Takes(u, k) + (IF u = t /\ k = m THEN 1 ELSE 0)
    BY <1>2, <2>2, GotTakes
  <2>4. \A u \in Threads, k \in Mutexes : Coming(u, k)' <=> Coming(u, k)
    BY <1>8, <2>2
  <2>5. \A k \in Mutexes : hold'[k] = IF k = m THEN hold[k] + 1 ELSE hold[k]
    BY <1>2, <2>1
  <2>6. OwnershipExact'
    BY <1>3, <1>4, <2>2, <2>3, <2>4, <2>5
  <2>7. HoldInv' /\ AvailableExact'
    BY <1>2, <1>3, <1>5, <1>6, <2>2, <2>5
  <2> QED
    BY <2>6, <2>7 DEF OwnInv
<1>10. ASSUME NEW t \in Threads, NEW m \in Mutexes, TakeAvailable(t, m)
       PROVE  OwnInv'
  <2>1. /\ hold' = [hold EXCEPT ![m] = 1] /\ value' = [value EXCEPT ![m] = 0]
        /\ owner' = [owner EXCEPT ![m] = t]
        /\ owner[m] = None /\ hold[m] = 0
    <3>1. Wants(t, m) /\ value[m] > 0
      BY <1>10 DEF TakeAvailable
    <3>2. (hold[m] + 1) % HoldRange = 1 /\ owner[m] = None /\ hold[m] = 0 /\ value[m] = 1
      BY <1>1, <3>1, HoldKept, OwnFacts
    <3>3. 1 - 1 = 0
      OBVIOUS
    <3> QED
      BY <1>10, <3>2, <3>3 DEF TakeAvailable
  <2>2. UNCHANGED <<suspend_thread, waits, stat, error>> /\ Got(t, m)
    BY <1>10 DEF TakeAvailable, threadVars
  <2>3. \A u \in Threads, k \in Mutexes :
          Takes(u, k)' = Takes(u, k) + (IF u = t /\ k = m THEN 1 ELSE 0)
    BY <1>2, <2>2, GotTakes
  <2>4. \A u \in Threads, k \in Mutexes : Coming(u, k)' <=> Coming(u, k)
    BY <1>8, <2>2
  <2>5. \A k \in Mutexes : /\ hold'[k] = IF k = m THEN 1 ELSE hold[k]
                           /\ owner'[k] = IF k = m THEN t ELSE owner[k]
                           /\ value'[k] = IF k = m THEN 0 ELSE value[k]
    BY <1>2, <2>1
  <2>6. OwnershipExact'
    <3> SUFFICES ASSUME NEW u \in Threads, NEW k \in Mutexes
                 PROVE  Takes(u, k)' + (IF Coming(u, k)' THEN 1 ELSE 0)
                          = IF owner'[k] = u THEN hold'[k] ELSE 0
      BY <1>4
    <3>1. CASE k # m
      BY <1>3, <2>3, <2>4, <2>5, <3>1
    <3>2. CASE k = m
      <4>1. Takes(u, m) = 0 /\ ~Coming(u, m)
        BY <1>2, <1>3, <2>1
      <4> QED
        BY <2>3, <2>4, <2>5, <3>2, <4>1
    <3> QED
      BY <3>1, <3>2
  <2>7. HoldInv' /\ AvailableExact'
    <3> SUFFICES ASSUME NEW k \in Mutexes
                 PROVE  /\ hold'[k] = 0 <=> owner'[k] = None
                        /\ value'[k] = 1 <=> owner'[k] = None
                        /\ owner'[k] = None => suspend_thread'[k] = << >>
      BY <1>6
    <3>1. CASE k = m
      BY <1>2, <2>5, <3>1
    <3>2. CASE k # m
      BY <1>5, <2>2, <2>5, <3>2
    <3> QED
      BY <3>1, <3>2
  <2> QED
    BY <2>6, <2>7 DEF OwnInv
<1>11. ASSUME UNCHANGED <<value, owner, hold, held>>,
              \A u \in Threads, k \in Mutexes : Coming(u, k)' <=> Coming(u, k),
              \A k \in Mutexes : owner[k] = None => suspend_thread'[k] = << >>
       PROVE  OwnInv'
  <2>1. OwnershipExact'
    BY <1>3, <1>4, <1>7, <1>11
  <2>2. HoldInv' /\ AvailableExact'
    BY <1>5, <1>6, <1>11
  <2> QED
    BY <2>1, <2>2 DEF OwnInv
<1>12. ASSUME NEW t \in Threads, NEW m \in Mutexes, NEW time \in Timeouts, TakeWaits(t, m, time)
       PROVE  OwnInv'
  <2>1. /\ waits[t] = None /\ value[m] = 0 /\ UNCHANGED <<value, owner, hold, held>>
        /\ waits' = [waits EXCEPT ![t] = m] /\ stat' = [stat EXCEPT ![t] = "SUSPEND"]
        /\ error' = [error EXCEPT ![t] = "EOK"]
    BY <1>1, <1>12 DEF TakeWaits, Wants, At, CallInv
  <2>2. \A u \in Threads, k \in Mutexes : Coming(u, k)' <=> Coming(u, k)
    BY <1>2, <2>1 DEF Coming
  <2>3. \A k \in Mutexes : owner[k] = None => suspend_thread'[k] = << >>
    <3>1. owner[m] # None
      BY <1>5, <2>1
    <3>2. \A k \in Mutexes \ {m} : suspend_thread'[k] = suspend_thread[k]
      BY <1>2, <1>12 DEF TakeWaits, Listed
    <3> QED
      BY <1>5, <3>1, <3>2
  <2> QED
    BY <1>11, <2>1, <2>2, <2>3
<1>13. ASSUME NEW t \in Threads, TakeExpires(t)
       PROVE  OwnInv'
  <2>1. /\ stat[t] = "SUSPEND" /\ stat' = [stat EXCEPT ![t] = "READY"]
        /\ error' = [error EXCEPT ![t] = "ETIMEOUT"] /\ UNCHANGED <<value, owner, hold, held, waits>>
        /\ suspend_thread' = [suspend_thread EXCEPT ![waits[t]] = Without(suspend_thread[waits[t]], t)]
    BY <1>13 DEF TakeExpires, TimedOut
  <2>2. \A u \in Threads, k \in Mutexes : Coming(u, k)' <=> Coming(u, k)
    BY <1>2, <2>1 DEF Coming
  <2>3. Without(<< >>, t) = << >>
    BY DEF Without
  <2>4. \A k \in Mutexes : owner[k] = None => suspend_thread'[k] = << >>
    BY <1>2, <1>5, <2>1, <2>3
  <2> QED
    BY <1>11, <2>1, <2>2, <2>4
<1>14. ASSUME NEW t \in Threads, TakeFails(t)
       PROVE  OwnInv'
  <2>1. /\ error[t] # "EOK" /\ waits' = [waits EXCEPT ![t] = None] /\ stat' = stat
        /\ error' = [error EXCEPT ![t] = "EOK"] /\ UNCHANGED <<value, owner, hold, held, suspend_thread>>
    BY <1>14 DEF TakeFails, mutexVars
  <2>2. \A u \in Threads, k \in Mutexes : Coming(u, k)' <=> Coming(u, k)
    BY <1>2, <2>1 DEF Coming
  <2> QED
    BY <1>5, <1>11, <2>1, <2>2
<1>15. ASSUME NEW t \in Threads, TakeReturns(t)
       PROVE  OwnInv'
  <2> DEFINE m == waits[t]
  <2>1. /\ m \in Mutexes /\ Coming(t, m) /\ Got(t, m) /\ waits' = [waits EXCEPT ![t] = None]
        /\ UNCHANGED <<stat, error, value, owner, hold, suspend_thread>>
    BY <1>1, <1>2, <1>15 DEF TakeReturns, At, CallInv, Coming, mutexVars
  <2>2. \A u \in Threads, k \in Mutexes :
          Takes(u, k)' = Takes(u, k) + (IF u = t /\ k = m THEN 1 ELSE 0)
    BY <1>2, <2>1, GotTakes
  <2>3. \A u \in Threads, k \in Mutexes :
          Coming(u, k)' <=> (Coming(u, k) /\ ~(u = t /\ k = m))
    BY <1>2, <2>1 DEF Coming
  <2> HIDE DEF m
  <2>4. OwnershipExact'
    BY <1>3, <1>4, <2>1, <2>2, <2>3
  <2>5. HoldInv' /\ AvailableExact'
    BY <1>5, <1>6, <2>1
  <2> QED
    BY <2>4, <2>5 DEF OwnInv
<1>16. ASSUME NEW t \in Threads, NEW m \in Mutexes, ReleaseOnce(t, m)
       PROVE  OwnInv'
  <2>1. hold' = [hold EXCEPT ![m] = hold[m] - 1]
    BY <1>1, <1>16, HoldKept DEF ReleaseOnce
  <2>2. /\ owner[m] = t /\ UNCHANGED <<value, owner, suspend_thread, waits, stat, error>>
        /\ GivesUp(t, m) /\ Gone(t) /\ hold[m] # 1
    BY <1>16 DEF ReleaseOnce, threadVars
  <2>3. \A u \in Threads, k \in Mutexes :
          Takes(u, k) = Takes(u, k)' + (IF u = t /\ k = m THEN 1 ELSE 0)
    BY <1>2, <2>2, GoneTakes
  <2>4. \A u \in Threads, k \in Mutexes : Coming(u, k)' <=> Coming(u, k)
    BY <1>8, <2>2
  <2>5. \A k \in Mutexes : hold'[k] = IF k = m THEN hold[k] - 1 ELSE hold[k]
    BY <1>2, <2>1
  <2>6. \A u \in Threads, k \in Mutexes : Takes(u, k)' \in Nat
    <3>1. held' \in [Threads -> Seq(Mutexes)]
      BY <1>2, <2>2, GoneTakes
    <3> QED
      BY <3>1, CountType DEF Takes
  <2>7. OwnershipExact'
    <3> SUFFICES ASSUME NEW u \in Threads, NEW k \in Mutexes
                 PROVE  Takes(u, k)' + (IF Coming(u, k)' THEN 1 ELSE 0)
                          = IF owner'[k] = u THEN hold'[k] ELSE 0
      BY <1>4
    <3>1. Takes(u, k)' \in Nat /\ Takes(u, k) \in Nat /\ hold[k] \in Nat
      BY <1>3, <2>6
    <3>2. CASE u = t /\ k = m
      BY <1>3, <2>2, <2>3, <2>4, <2>5, <3>1, <3>2
    <3>3. CASE ~(u = t /\ k = m)
      BY <1>3, <2>2, <2>3, <2>4, <2>5, <3>1, <3>3
    <3> QED
      BY <3>2, <3>3
  <2>8. HoldInv' /\ AvailableExact'
    <3> SUFFICES ASSUME NEW k \in Mutexes
                 PROVE  /\ hold'[k] = 0 <=> owner'[k] = None
                        /\ value'[k] = 1 <=> owner'[k] = None
                        /\ owner'[k] = None => suspend_thread'[k] = << >>
      BY <1>6
    <3>1. CASE k = m
      <4>1. hold[m] \in Nat /\ hold[m] # 0 /\ hold'[m] = hold[m] - 1 /\ owner[m] # None
        BY <1>2, <1>3, <1>5, <2>2, <2>5
      <4> QED
        BY <1>5, <2>2, <3>1, <4>1
    <3>2. CASE k # m
      BY <1>5, <2>2, <2>5, <3>2
    <3> QED
      BY <3>1, <3>2
  <2> QED
    BY <2>7, <2>8 DEF OwnInv
<1>17. ASSUME NEW t \in Threads, NEW m \in Mutexes, ReleaseFrees(t, m)
       PROVE  OwnInv'
  <2>1. /\ owner[m] = t /\ hold[m] = 1 /\ suspend_thread[m] = << >>
        /\ GivesUp(t, m) /\ Gone(t) /\ UNCHANGED <<suspend_thread, waits, stat, error>>
        /\ value' = [value EXCEPT ![m] = value[m] + 1] /\ owner' = [owner EXCEPT ![m] = None]
        /\ hold' = [hold EXCEPT ![m] = 0]
    BY <1>17 DEF ReleaseFrees, threadVars
  <2>2. \A u \in Threads, k \in Mutexes :
          Takes(u, k) = Takes(u, k)' + (IF u = t /\ k = m THEN 1 ELSE 0)
    BY <1>2, <2>1, GoneTakes
  <2>3. \A u \in Threads, k \in Mutexes : Coming(u, k)' <=> Coming(u, k)
    BY <1>8, <2>1
  <2>4. \A k \in Mutexes : /\ hold'[k] = IF k = m THEN 0 ELSE hold[k]
                           /\ owner'[k] = IF k = m THEN None ELSE owner[k]
                           /\ value'[k] = IF k = m THEN 1 ELSE value[k]
    <3>1. value[m] + 1 = 1
      <4>1. value[m] \in {0, 1} /\ owner[m] # None
        BY <1>2, <2>1
      <4>2. value[m] = 0
        BY <1>5, <4>1
      <4> QED
        BY <4>2
    <3> QED
      BY <1>2, <2>1, <3>1
  <2>5. \A u \in Threads, k \in Mutexes : Takes(u, k)' \in Nat
    <3>1. held' \in [Threads -> Seq(Mutexes)]
      BY <1>2, <2>1, GoneTakes
    <3> QED
      BY <3>1, CountType DEF Takes
  <2>6. OwnershipExact'
    BY <1>2, <1>3, <1>4, <2>1, <2>2, <2>3, <2>4, <2>5
  <2>7. HoldInv' /\ AvailableExact'
    BY <1>2, <1>5, <1>6, <2>1, <2>4
  <2> QED
    BY <2>6, <2>7 DEF OwnInv
<1>18. ASSUME NEW t \in Threads, NEW m \in Mutexes, ReleaseHandsOver(t, m)
       PROVE  OwnInv'
  <2> DEFINE list == suspend_thread[m]
             next == Head(list)
  <2>1. list \in Seq(Threads) /\ IsInjective(list) /\ list # << >>
    BY <1>1, <1>2, <1>18 DEF WaitersInv, ReleaseHandsOver
  <2>2. next \in Threads /\ next \in Range(list)
    BY <2>1, TailElements
  <2>3. waits[next] = m /\ stat[next] = "SUSPEND" /\ error[next] = "EOK"
    BY <1>1, <2>2 DEF WaitersInv, CallInv
  <2>4. /\ owner[m] = t /\ hold[m] = 1 /\ GivesUp(t, m) /\ Gone(t)
        /\ UNCHANGED <<waits, error, value, hold>>
        /\ owner' = [owner EXCEPT ![m] = next] /\ stat' = [stat EXCEPT ![next] = "READY"]
        /\ suspend_thread' = [suspend_thread EXCEPT ![m] = Tail(list)]
    BY <1>18 DEF ReleaseHandsOver, Resume
  <2> HIDE DEF next, list
  <2>5. \A u \in Threads, k \in Mutexes :
          Takes(u, k) = Takes(u, k)' + (IF u = t /\ k = m THEN 1 ELSE 0)
    BY <1>2, <2>4, GoneTakes
  <2>6. \A u \in Threads, k \in Mutexes :
          Coming(u, k)' <=> (Coming(u, k) \/ (u = next /\ k = m))
    BY <1>2, <2>2, <2>3, <2>4 DEF Coming
  <2>7. ~Coming(next, m) /\ next # t
    <3>1. stat[t] = "READY"
      BY <2>4 DEF GivesUp, At
    <3> QED
      BY <2>3, <3>1 DEF Coming
  <2>8. \A k \in Mutexes : owner'[k] = IF k = m THEN next ELSE owner[k]
    BY <1>2, <2>4
  <2>9. \A u \in Threads, k \in Mutexes : Takes(u, k)' \in Nat
    <3>1. held' \in [Threads -> Seq(Mutexes)]
      BY <1>2, <2>4, GoneTakes
    <3> QED
      BY <3>1, CountType DEF Takes
  <2>10. ASSUME NEW u \in Threads, NEW k \in Mutexes
         PROVE  Takes(u, k)' + (IF Coming(u, k)' THEN 1 ELSE 0) = IF owner'[k] = u THEN hold'[k] ELSE 0
    <3>1. CASE k # m
      BY <1>3, <2>4, <2>5, <2>6, <2>8, <2>9, <3>1
    <3>2. CASE k = m /\ u = t
      BY <1>3, <2>4, <2>5, <2>6, <2>7, <2>8, <2>9, <3>2
    <3>3. CASE k = m /\ u = next
      BY <1>3, <2>4, <2>5, <2>6, <2>7, <2>8, <2>9, <3>3
    <3>4. CASE k = m /\ u # next /\ u # t
      BY <1>3, <2>4, <2>5, <2>6, <2>7, <2>8, <2>9, <3>4
    <3> QED
      BY <3>1, <3>2, <3>3, <3>4
  <2>11. OwnershipExact'
    BY <1>4, <2>10
  <2>12. HoldInv' /\ AvailableExact'
    BY <1>2, <1>5, <1>6, <2>2, <2>4, <2>8
  <2> QED
    BY <2>11, <2>12 DEF OwnInv
<1>19. CASE UNCHANGED vars
  BY <1>5, <1>8, <1>11, <1>19 DEF vars, threadVars, mutexVars
<1>20. ASSUME NEW t \in Threads, NEW m \in Mutexes, Refused(t, m)
       PROVE  OwnInv'
  BY <1>19, <1>20 DEF Refused
<1> QED
  BY <1>9, <1>10, <1>12, <1>13, <1>14, <1>15, <1>16, <1>17, <1>18, <1>19, <1>20
     DEF Next, Returns, Releases
-------------------------------------------------------------------------------
(* Priorities.                                                             *)

(* What the last release of m by t needs: m is the first mutex t took when *)
(* it holds nothing else, and t's first mutex stays the same otherwise.    *)
LEMMA NestStep == MInv /\ [Next]_vars => NestInv'
<1> SUFFICES ASSUME MInv, [Next]_vars PROVE NestInv'
  OBVIOUS
<1>1. TypeOK /\ CallInv /\ OwnInv /\ NestInv
  BY DEF MInv
<1>2. /\ waits \in [Threads -> Mutexes \cup {None}] /\ held \in [Threads -> Seq(Mutexes)]
      /\ None \notin Mutexes /\ None \notin Threads
  BY <1>1, MutexAssumption DEF TypeOK
<1>3. \A u \in Threads \ Nesting :
        /\ \A i, j \in DOMAIN held[u] : held[u][i] = held[u][j]
        /\ waits[u] # None => held[u] = << >>
  BY <1>1 DEF NestInv
<1>4. ASSUME \A u \in Threads \ Nesting :
               /\ \A i, j \in DOMAIN held'[u] : held'[u][i] = held'[u][j]
               /\ waits'[u] # None => held'[u] = << >>
      PROVE  NestInv'
  BY <1>4 DEF NestInv
(* A thread that may not nest takes what it already holds, or nothing yet. *)
<1>5. ASSUME NEW t \in Threads \ Nesting, NEW m \in Mutexes, Wants(t, m)
      PROVE  /\ \A i \in DOMAIN held[t] : held[t][i] = m
             /\ owner[m] # t => held[t] = << >>
  <2>1. CASE Takes(t, m) = 0
    <3>1. held[t] = << >>
      BY <1>5, <2>1 DEF Wants
    <3> QED
      BY <3>1
  <2>2. CASE Takes(t, m) # 0
    <3>1. PICK i \in DOMAIN held[t] : held[t][i] = m
      BY <1>2, <2>2, TakesType
    <3>2. owner[m] = t
      BY <1>1, <2>2, OwnFacts
    <3> QED
      BY <1>3, <3>1, <3>2
  <2> QED
    BY <2>1, <2>2
<1>6. ASSUME NEW t \in Threads, NEW m \in Mutexes, Got(t, m),
             t \notin Nesting => \A i \in DOMAIN held[t] : held[t][i] = m,
             \A u \in Threads : waits'[u] = IF u = t THEN None ELSE waits[u]
      PROVE  NestInv'
  <2> SUFFICES ASSUME NEW u \in Threads \ Nesting
               PROVE  /\ \A i, j \in DOMAIN held'[u] : held'[u][i] = held'[u][j]
                      /\ waits'[u] # None => held'[u] = << >>
    BY <1>4
  <2>1. CASE u = t
    <3>1. \A i \in DOMAIN held'[t] : held'[t][i] = m
      BY <1>2, <1>6, <2>1, GotTakes
    <3>2. waits'[t] = None
      BY <1>6
    <3> QED
      BY <2>1, <3>1, <3>2
  <2>2. CASE u # t
    <3>1. held'[u] = held[u]
      BY <1>2, <1>6, <2>2, GotTakes
    <3>2. waits'[u] = waits[u]
      BY <1>6, <2>2
    <3> QED
      BY <1>3, <3>1, <3>2
  <2> QED
    BY <2>1, <2>2
<1>7. ASSUME NEW t \in Threads, NEW m \in Mutexes, TakeAgain(t, m) \/ TakeAvailable(t, m)
      PROVE  NestInv'
  <2>1. Wants(t, m) /\ Got(t, m) /\ waits' = waits /\ waits[t] = None
    BY <1>1, <1>7 DEF TakeAgain, TakeAvailable, Wants, At, CallInv
  <2>2. t \notin Nesting => \A i \in DOMAIN held[t] : held[t][i] = m
    BY <1>5, <2>1
  <2> QED
    BY <1>6, <2>1, <2>2
<1>8. ASSUME NEW t \in Threads, TakeReturns(t)
      PROVE  NestInv'
  <2>1. waits[t] \in Mutexes /\ Got(t, waits[t]) /\ waits' = [waits EXCEPT ![t] = None]
    BY <1>1, <1>2, <1>8 DEF TakeReturns, At, CallInv
  <2>2. t \notin Nesting => held[t] = << >>
    BY <1>2, <1>3, <2>1
  <2>3. t \notin Nesting => \A i \in DOMAIN held[t] : held[t][i] = waits[t]
    BY <2>2
  <2>4. \A u \in Threads : waits'[u] = IF u = t THEN None ELSE waits[u]
    BY <1>2, <2>1
  <2> QED
    BY <1>6, <2>1, <2>3, <2>4
<1>9. ASSUME NEW t \in Threads, NEW m, GivesUp(t, m), Gone(t), UNCHANGED waits
      PROVE  NestInv'
  <2> SUFFICES ASSUME NEW u \in Threads \ Nesting
               PROVE  /\ \A i, j \in DOMAIN held'[u] : held'[u][i] = held'[u][j]
                      /\ waits'[u] # None => held'[u] = << >>
    BY <1>4
  <2>1. CASE u = t
    <3>1. \A i \in DOMAIN held'[t] : i \in DOMAIN held[t] /\ held'[t][i] = held[t][i]
      BY <1>2, <1>9, GoneTakes
    <3>2. waits[t] = None
      BY <1>1, <1>9 DEF GivesUp, At, CallInv
    <3> QED
      BY <1>3, <1>9, <2>1, <3>1, <3>2
  <2>2. CASE u # t
    <3>1. held'[u] = held[u]
      BY <1>2, <1>9, <2>2, GoneTakes
    <3> QED
      BY <1>3, <1>9, <3>1
  <2> QED
    BY <2>1, <2>2
<1>10. ASSUME NEW t \in Threads, NEW m \in Mutexes,
              ReleaseOnce(t, m) \/ ReleaseFrees(t, m) \/ ReleaseHandsOver(t, m)
       PROVE  NestInv'
  BY <1>9, <1>10 DEF ReleaseOnce, ReleaseFrees, ReleaseHandsOver
<1>11. ASSUME NEW t \in Threads, NEW m \in Mutexes, NEW time \in Timeouts, TakeWaits(t, m, time)
       PROVE  NestInv'
  <2>1. Wants(t, m) /\ owner[m] # t /\ held' = held /\ waits' = [waits EXCEPT ![t] = m]
    BY <1>11 DEF TakeWaits
  <2>2. t \notin Nesting => held[t] = << >>
    BY <1>5, <2>1
  <2> QED
    BY <1>2, <1>3, <1>4, <2>1, <2>2
<1>12. ASSUME UNCHANGED held, \A u \in Threads : waits'[u] # None => waits[u] # None
       PROVE  NestInv'
  BY <1>3, <1>4, <1>12
<1>13. ASSUME NEW t \in Threads, TakeExpires(t) \/ TakeFails(t)
       PROVE  NestInv'
  BY <1>2, <1>12, <1>13 DEF TakeExpires, TakeFails
<1>14. CASE UNCHANGED vars
  BY <1>12, <1>14 DEF vars
<1>15. ASSUME NEW t \in Threads, NEW m \in Mutexes, Refused(t, m)
       PROVE  NestInv'
  BY <1>14, <1>15 DEF Refused
<1> QED
  BY <1>7, <1>8, <1>10, <1>11, <1>13, <1>14, <1>15 DEF Next, Returns, Releases

(* A thread owns a mutex if it holds one or is about to find itself the    *)
(* owner of one.                                                           *)
LEMMA OwningOwner ==
  ASSUME TypeOK, CallInv, OwnInv, NEW t \in Threads
  PROVE  /\ Owning(t) <=> \E m \in Mutexes : owner[m] = t
         /\ Owning(t) => FirstOwned(t) \in Mutexes /\ owner[FirstOwned(t)] = t
         /\ At(t, "idle") => (Owning(t) <=> held[t] # << >>)
<1>1. held \in [Threads -> Seq(Mutexes)] /\ None \notin Threads
  BY MutexAssumption DEF TypeOK
<1>2. ASSUME held[t] # << >>
      PROVE  held[t][1] \in Mutexes /\ owner[held[t][1]] = t
  <2>1. 1 \in DOMAIN held[t] /\ held[t][1] \in Mutexes
    <3>1. held[t] \in Seq(Mutexes) /\ Len(held[t]) \in Nat /\ Len(held[t]) > 0
      BY <1>1, <1>2, EmptySeq
    <3>2. 1 \in 1..Len(held[t])
      BY <3>1
    <3> QED
      BY <3>1, <3>2, ElementOfSeq
  <2>2. Takes(t, held[t][1]) # 0
    BY <1>1, <2>1, TakesType
  <2> QED
    BY <2>1, <2>2, OwnFacts
<1>3. \A m \in Mutexes : Coming(t, m) => owner[m] = t /\ m = waits[t]
  BY OwnFacts DEF Coming
<1>4. ASSUME NEW m \in Mutexes, owner[m] = t
      PROVE  Owning(t)
  <2>1. CASE Coming(t, m)
    BY <2>1 DEF Owning
  <2>2. CASE ~Coming(t, m)
    <3>1. Takes(t, m) # 0
      BY <1>4, <2>2, OwnFacts
    <3>2. PICK i \in DOMAIN held[t] : held[t][i] = m
      BY <1>1, <3>1, TakesType
    <3>3. held[t] # << >>
      BY <3>2
    <3> QED
      BY <3>3 DEF Owning
  <2> QED
    BY <2>1, <2>2
<1>5. At(t, "idle") => (Owning(t) <=> held[t] # << >>)
  BY OwnFacts DEF Owning
<1> QED
  BY <1>2, <1>3, <1>4, <1>5 DEF Owning, FirstOwned

LEMMA FirstStep == MInv /\ [Next]_vars => FirstInv'
<1> SUFFICES ASSUME MInv, [Next]_vars PROVE FirstInv'
  OBVIOUS
<1>1. TypeOK /\ CallInv /\ OwnInv /\ WaitersInv /\ FirstInv
  BY DEF MInv
<1>2. /\ stat \in [Threads -> {"READY", "SUSPEND"}] /\ error \in [Threads -> {"EOK", "ETIMEOUT"}]
      /\ waits \in [Threads -> Mutexes \cup {None}] /\ held \in [Threads -> Seq(Mutexes)]
      /\ owner \in [Mutexes -> Threads \cup {None}]
      /\ original_priority \in [Mutexes -> Nat] /\ current_priority \in [Threads -> Nat]
      /\ suspend_thread \in [Mutexes -> Seq(Threads)]
      /\ None \notin Mutexes /\ None \notin Threads
  BY <1>1, MutexAssumption DEF TypeOK, ThreadTypeOK
<1>3. \A u \in Threads :
        /\ Owning(u) => /\ original_priority[FirstOwned(u)] = Priority[u]
                        /\ FirstOwned(u) \in Mutexes /\ owner[FirstOwned(u)] = u
        /\ ~Owning(u) => current_priority[u] = Priority[u]
  BY <1>1, OwningOwner DEF FirstInv, FirstKept
<1>4. ASSUME NEW u \in Threads, Owning(u)' <=> Owning(u),
             Owning(u) => /\ FirstOwned(u)' = FirstOwned(u)
                          /\ original_priority'[FirstOwned(u)] = original_priority[FirstOwned(u)],
             ~Owning(u) => current_priority'[u] = current_priority[u]
      PROVE  FirstKept(u)'
  BY <1>3, <1>4 DEF FirstKept
<1>5. \A u \in Threads :
        held'[u] = held[u] /\ (\A k \in Mutexes : Coming(u, k)' <=> Coming(u, k))
          => /\ Owning(u)' <=> Owning(u)
             /\ Owning(u) => FirstOwned(u)' = FirstOwned(u)
  <2>1. \A u \in Threads : held[u] = << >> /\ Owning(u) => \E k \in Mutexes : Coming(u, k)
    BY DEF Owning
  <2>2. \A u \in Threads, k \in Mutexes : Coming(u, k)' => waits'[u] = k
    BY DEF Coming
  <2>3. \A u \in Threads, k \in Mutexes : Coming(u, k) => waits[u] = k
    BY DEF Coming
  <2> QED
    BY <2>1, <2>2, <2>3 DEF Owning, FirstOwned
<1>6. \A u \in Threads, k \in Mutexes :
        waits'[u] = waits[u] /\ stat'[u] = stat[u] /\ error'[u] = error[u]
          => (Coming(u, k)' <=> Coming(u, k))
  BY DEF Coming
<1>7. ASSUME NEW t \in Threads, NEW m \in Mutexes, TakeAgain(t, m)
      PROVE  FirstInv'
  <2>1. /\ At(t, "idle") /\ owner[m] = t /\ Got(t, m)
        /\ UNCHANGED <<waits, stat, error, original_priority, current_priority>>
    BY <1>7 DEF TakeAgain, Wants, threadVars
  <2>2. held[t] # << >> /\ Owning(t)
    BY <1>1, <2>1, OwningOwner
  <2>3. held'[t] # << >> /\ held'[t][1] = held[t][1] /\ \A u \in Threads \ {t} : held'[u] = held[u]
    BY <1>2, <2>1, <2>2, GotTakes
  <2>4. Owning(t)' /\ FirstOwned(t)' = FirstOwned(t)
    BY <2>2, <2>3 DEF Owning, FirstOwned
  <2>5. ASSUME NEW u \in Threads PROVE FirstKept(u)'
    <3>1. CASE u = t
      BY <1>4, <2>1, <2>2, <2>4, <3>1
    <3>2. CASE u # t
      BY <1>4, <1>5, <1>6, <2>1, <2>3, <3>2
    <3> QED
      BY <3>1, <3>2
  <2> QED
    BY <2>5 DEF FirstInv
<1>8. ASSUME NEW t \in Threads, NEW m \in Mutexes, TakeAvailable(t, m)
      PROVE  FirstInv'
  <2>1. /\ At(t, "idle") /\ owner[m] = None /\ Got(t, m)
        /\ original_priority' = [original_priority EXCEPT ![m] = current_priority[t]]
        /\ UNCHANGED <<waits, stat, error, current_priority>>
    BY <1>1, <1>8, OwnFacts DEF TakeAvailable, Wants, threadVars
  <2>2. /\ held'[t] # << >> /\ held'[t][1] = (IF held[t] = << >> THEN m ELSE held[t][1])
        /\ \A u \in Threads \ {t} : held'[u] = held[u]
    BY <1>2, <2>1, GotTakes
  <2>3. \A u \in Threads : Owning(u) => original_priority'[FirstOwned(u)] = original_priority[FirstOwned(u)]
    <3>1. \A u \in Threads : Owning(u) => FirstOwned(u) # m
      BY <1>2, <1>3, <2>1
    <3> QED
      BY <1>2, <1>3, <2>1, <3>1
  <2>4. Owning(t)' /\ FirstOwned(t)' = held'[t][1]
    BY <2>2 DEF Owning, FirstOwned
  <2>5. Owning(t) <=> held[t] # << >>
    BY <1>1, <2>1, OwningOwner
  <2>6. FirstKept(t)'
    <3>1. CASE held[t] = << >>
      <4>1. current_priority[t] = Priority[t] /\ FirstOwned(t)' = m
        BY <1>3, <2>2, <2>4, <2>5, <3>1
      <4>2. original_priority'[m] = Priority[t]
        BY <1>2, <2>1, <4>1
      <4> QED
        BY <2>4, <4>1, <4>2 DEF FirstKept
    <3>2. CASE held[t] # << >>
      <4>1. Owning(t) /\ FirstOwned(t)' = FirstOwned(t)
        BY <2>2, <2>4, <2>5, <3>2 DEF FirstOwned
      <4> QED
        BY <1>4, <2>3, <2>4, <4>1
    <3> QED
      BY <3>1, <3>2
  <2>7. ASSUME NEW u \in Threads, u # t PROVE FirstKept(u)'
    BY <1>4, <1>5, <1>6, <2>1, <2>2, <2>3, <2>7
  <2> QED
    BY <2>6, <2>7 DEF FirstInv
<1>9. ASSUME NEW t \in Threads, NEW m \in Mutexes, NEW time \in Timeouts, TakeWaits(t, m, time)
      PROVE  FirstInv'
  <2>1. /\ At(t, "idle") /\ waits[t] = None /\ value[m] = 0
        /\ waits' = [waits EXCEPT ![t] = m] /\ stat' = [stat EXCEPT ![t] = "SUSPEND"]
        /\ error' = [error EXCEPT ![t] = "EOK"] /\ UNCHANGED <<original_priority, held>>
    BY <1>1, <1>9 DEF TakeWaits, Wants, At, CallInv
  <2>2. \A u \in Threads, k \in Mutexes : Coming(u, k)' <=> Coming(u, k)
    BY <1>2, <2>1 DEF Coming
  <2>3. owner[m] \in Threads /\ Owning(owner[m])
    BY <1>1, <2>1, OwnFacts, OwningOwner
  <2>4. \A u \in Threads : u # owner[m] => current_priority'[u] = current_priority[u]
    BY <1>2, <1>9 DEF TakeWaits
  <2>5. ASSUME NEW u \in Threads PROVE FirstKept(u)'
    BY <1>4, <1>5, <2>1, <2>2, <2>3, <2>4
  <2> QED
    BY <2>5 DEF FirstInv
<1>10. ASSUME UNCHANGED <<held, original_priority, current_priority>>,
              \A u \in Threads, k \in Mutexes : Coming(u, k)' <=> Coming(u, k)
       PROVE  FirstInv'
  <2>1. ASSUME NEW u \in Threads PROVE FirstKept(u)'
    BY <1>4, <1>5, <1>10
  <2> QED
    BY <2>1 DEF FirstInv
<1>11. ASSUME NEW t \in Threads, TakeExpires(t)
       PROVE  FirstInv'
  <2>1. /\ stat[t] = "SUSPEND" /\ stat' = [stat EXCEPT ![t] = "READY"]
        /\ error' = [error EXCEPT ![t] = "ETIMEOUT"]
        /\ UNCHANGED <<waits, held, original_priority, current_priority>>
    BY <1>11 DEF TakeExpires, TimedOut
  <2>2. \A u \in Threads, k \in Mutexes : Coming(u, k)' <=> Coming(u, k)
    BY <1>2, <2>1 DEF Coming
  <2> QED
    BY <1>10, <2>1, <2>2
<1>12. ASSUME NEW t \in Threads, TakeFails(t)
       PROVE  FirstInv'
  <2>1. /\ error[t] # "EOK" /\ waits' = [waits EXCEPT ![t] = None] /\ stat' = stat
        /\ error' = [error EXCEPT ![t] = "EOK"]
        /\ UNCHANGED <<held, original_priority, current_priority>>
    BY <1>12 DEF TakeFails, mutexVars
  <2>2. \A u \in Threads, k \in Mutexes : Coming(u, k)' <=> Coming(u, k)
    BY <1>2, <2>1 DEF Coming
  <2> QED
    BY <1>10, <2>1, <2>2
<1>13. ASSUME NEW t \in Threads, TakeReturns(t)
       PROVE  FirstInv'
  <2> DEFINE m == waits[t]
  <2>1. /\ m \in Mutexes /\ Coming(t, m) /\ Got(t, m) /\ waits' = [waits EXCEPT ![t] = None]
        /\ UNCHANGED <<stat, error, original_priority, current_priority>>
    BY <1>1, <1>2, <1>13 DEF TakeReturns, At, CallInv, Coming, mutexVars
  <2>2. /\ held'[t] # << >> /\ held'[t][1] = (IF held[t] = << >> THEN m ELSE held[t][1])
        /\ \A u \in Threads \ {t} : held'[u] = held[u]
    BY <1>2, <2>1, GotTakes
  <2>3. /\ Owning(t) /\ Owning(t)' /\ FirstOwned(t)' = FirstOwned(t)
    BY <2>1, <2>2 DEF Owning, FirstOwned
  <2>4. ASSUME NEW u \in Threads PROVE FirstKept(u)'
    <3>1. CASE u = t
      BY <1>4, <2>1, <2>3, <3>1
    <3>2. CASE u # t
      <4>1. waits'[u] = waits[u]
        BY <1>2, <2>1, <3>2
      <4> QED
        BY <1>4, <1>5, <1>6, <2>1, <2>2, <3>2, <4>1
    <3> QED
      BY <3>1, <3>2
  <2> QED
    BY <2>4 DEF FirstInv
<1>14. ASSUME NEW t \in Threads, NEW m \in Mutexes, ReleaseOnce(t, m)
       PROVE  FirstInv'
  <2>1. /\ At(t, "idle") /\ owner[m] = t /\ hold[m] # 1 /\ GivesUp(t, m) /\ Gone(t)
        /\ UNCHANGED <<waits, stat, error, original_priority, current_priority>>
    BY <1>14 DEF ReleaseOnce, GivesUp, threadVars
  <2>2. held'[t] # << >>
    <3>1. Takes(t, m) = hold[m] /\ hold[m] > 0 /\ hold[m] \in Nat
      BY <1>1, <2>1, OwnFacts
    <3>2. Takes(t, m) = Takes(t, m)' + 1 /\ held' \in [Threads -> Seq(Mutexes)]
      BY <1>2, <2>1, GoneTakes
    <3>3. Takes(t, m)' \in Nat /\ (Takes(t, m)' = 0 <=> \A i \in DOMAIN held'[t] : held'[t][i] # m)
      BY <3>2, CountType DEF Takes
    <3>4. Takes(t, m)' # 0
      BY <2>1, <3>1, <3>2, <3>3
    <3> QED
      BY <3>3, <3>4
  <2>3. held'[t][1] = held[t][1] /\ held[t] # << >> /\ \A u \in Threads \ {t} : held'[u] = held[u]
    BY <1>2, <2>1, <2>2, GoneTakes DEF GivesUp
  <2>4. Owning(t) /\ Owning(t)' /\ FirstOwned(t)' = FirstOwned(t)
    BY <2>2, <2>3 DEF Owning, FirstOwned
  <2>5. ASSUME NEW u \in Threads PROVE FirstKept(u)'
    <3>1. CASE u = t
      BY <1>4, <2>1, <2>4, <3>1
    <3>2. CASE u # t
      BY <1>4, <1>5, <1>6, <2>1, <2>3, <3>2
    <3> QED
      BY <3>1, <3>2
  <2> QED
    BY <2>5 DEF FirstInv
(* The thread that gives up its last take of m. *)
<1>15. ASSUME NEW t \in Threads, NEW m \in Mutexes, GivesUp(t, m), Gone(t), owner[m] = t, hold[m] = 1,
              current_priority'[t] = original_priority[m],
              \A k \in Mutexes \ {m} : original_priority'[k] = original_priority[k],
              waits'[t] = waits[t], stat'[t] = stat[t], error'[t] = error[t]
       PROVE  FirstKept(t)'
  <2>1. At(t, "idle") /\ held[t] # << >>
    BY <1>15 DEF GivesUp
  <2>2. Owning(t) /\ FirstOwned(t) = held[t][1] /\ \A k \in Mutexes : ~Coming(t, k)'
    BY <1>1, <1>6, <1>15, <2>1, OwnFacts DEF Owning, FirstOwned
  <2>3. CASE held'[t] = << >>
    <3>1. held[t][1] = m
      BY <1>2, <1>15, <2>3, GoneTakes
    <3>2. ~Owning(t)' /\ current_priority'[t] = Priority[t]
      BY <1>3, <1>15, <2>2, <2>3, <3>1 DEF Owning
    <3> QED
      BY <3>2 DEF FirstKept
  <2>4. CASE held'[t] # << >>
    <3>1. held'[t][1] = held[t][1]
      BY <1>2, <1>15, <2>4, GoneTakes
    <3>2. held[t][1] # m
      <4>1. Takes(t, m) = 1
        BY <1>1, <1>15, <2>1, OwnFacts
      <4>2. Takes(t, m) = Takes(t, m)' + 1 /\ held' \in [Threads -> Seq(Mutexes)]
        BY <1>2, <1>15, GoneTakes
      <4>3. Takes(t, m)' \in Nat /\ (Takes(t, m)' = 0 <=> \A i \in DOMAIN held'[t] : held'[t][i] # m)
        BY <4>2, CountType DEF Takes
      <4>4. 1 \in DOMAIN held'[t]
        <5>1. held'[t] \in Seq(Mutexes)
          BY <4>2
        <5> QED
          BY <2>4, <5>1, EmptySeq
      <4> QED
        BY <3>1, <4>1, <4>2, <4>3, <4>4
    <3>3. Owning(t)' /\ FirstOwned(t)' = FirstOwned(t)
      BY <2>2, <2>4, <3>1 DEF Owning, FirstOwned
    <3>4. original_priority'[FirstOwned(t)] = original_priority[FirstOwned(t)]
      BY <1>3, <1>15, <2>2, <3>2
    <3> QED
      BY <1>4, <2>2, <3>3, <3>4
  <2> QED
    BY <2>3, <2>4
<1>16. ASSUME NEW t \in Threads, NEW m \in Mutexes, ReleaseFrees(t, m)
       PROVE  FirstInv'
  <2>1. /\ owner[m] = t /\ hold[m] = 1 /\ GivesUp(t, m) /\ Gone(t)
        /\ UNCHANGED <<waits, stat, error>>
        /\ current_priority' = [current_priority EXCEPT ![t] = original_priority[m]]
        /\ original_priority' = [original_priority EXCEPT ![m] = Initial]
    BY <1>16 DEF ReleaseFrees, Restore, threadVars
  <2>2. /\ current_priority'[t] = original_priority[m]
        /\ \A u \in Threads \ {t} : current_priority'[u] = current_priority[u]
        /\ \A k \in Mutexes \ {m} : original_priority'[k] = original_priority[k]
    BY <1>2, <2>1
  <2>3. FirstKept(t)'
    BY <1>15, <2>1, <2>2
  <2>4. ASSUME NEW u \in Threads, u # t PROVE FirstKept(u)'
    <3>1. held'[u] = held[u]
      BY <1>2, <2>1, <2>4, GoneTakes
    <3>2. Owning(u) => FirstOwned(u) \in Mutexes \ {m}
      BY <1>3, <2>1, <2>4
    <3> QED
      BY <1>4, <1>5, <1>6, <2>1, <2>2, <2>4, <3>1, <3>2
  <2> QED
    BY <2>3, <2>4 DEF FirstInv
<1>17. ASSUME NEW t \in Threads, NEW m \in Mutexes, ReleaseHandsOver(t, m)
       PROVE  FirstInv'
  <2> DEFINE list == suspend_thread[m]
  <2>1. list \in Seq(Threads) /\ IsInjective(list) /\ list # << >>
    BY <1>1, <1>2, <1>17 DEF WaitersInv, ReleaseHandsOver
  <2>2. PICK next \in Threads : next = Head(list) /\ next \in Range(list)
    BY <2>1, TailElements
  <2>3. waits[next] = m /\ stat[next] = "SUSPEND" /\ error[next] = "EOK"
    BY <1>1, <2>2 DEF WaitersInv, CallInv
  <2>4. /\ owner[m] = t /\ hold[m] = 1 /\ GivesUp(t, m) /\ Gone(t) /\ UNCHANGED <<waits, error>>
        /\ stat' = [stat EXCEPT ![next] = "READY"]
        /\ current_priority' = [current_priority EXCEPT ![t] = original_priority[m]]
        /\ original_priority' = [original_priority EXCEPT ![m] = current_priority[next]]
    BY <1>17, <2>2 DEF ReleaseHandsOver, Resume, Restore
  <2> HIDE DEF list
  <2>5. next # t
    BY <2>3, <2>4 DEF GivesUp, At
  <2>6. /\ current_priority'[t] = original_priority[m]
        /\ \A u \in Threads \ {t} : current_priority'[u] = current_priority[u]
        /\ \A k \in Mutexes \ {m} : original_priority'[k] = original_priority[k]
        /\ original_priority'[m] = current_priority[next]
        /\ \A u \in Threads \ {next} : stat'[u] = stat[u]
        /\ stat'[next] = "READY"
    BY <1>2, <2>2, <2>4
  <2>7. FirstKept(t)'
    BY <1>15, <2>4, <2>5, <2>6
  <2>8. \A u \in Threads \ {t} : held'[u] = held[u]
    BY <1>2, <2>4, GoneTakes
  <2>9. \A u \in Threads \ {t} : Owning(u) => FirstOwned(u) \in Mutexes \ {m}
    BY <1>3, <2>4
  <2>10. FirstKept(next)'
    <3>1. Coming(next, m)' /\ \A k \in Mutexes : ~Coming(next, k)
      BY <2>3, <2>4, <2>6 DEF Coming
    <3>2. Owning(next)' /\ (Owning(next) <=> held[next] # << >>)
      BY <3>1 DEF Owning
    <3>3. CASE held[next] = << >>
      <4>1. FirstOwned(next)' = m /\ current_priority[next] = Priority[next]
        BY <1>3, <2>2, <2>3, <2>4, <2>5, <2>8, <3>2, <3>3 DEF FirstOwned
      <4> QED
        BY <2>6, <3>2, <4>1 DEF FirstKept
    <3>4. CASE held[next] # << >>
      <4>1. FirstOwned(next)' = FirstOwned(next)
        BY <2>2, <2>5, <2>8, <3>4 DEF FirstOwned
      <4> QED
        BY <1>4, <2>2, <2>5, <2>6, <2>9, <3>2, <3>4, <4>1
    <3> QED
      BY <3>3, <3>4
  <2>11. ASSUME NEW u \in Threads, u # t, u # next PROVE FirstKept(u)'
    BY <1>4, <1>5, <1>6, <2>4, <2>6, <2>8, <2>9, <2>11
  <2> QED
    BY <2>7, <2>10, <2>11 DEF FirstInv
<1>18. CASE UNCHANGED vars
  BY <1>6, <1>10, <1>18 DEF vars, threadVars, mutexVars
<1>19. ASSUME NEW t \in Threads, NEW m \in Mutexes, Refused(t, m)
       PROVE  FirstInv'
  BY <1>18, <1>19 DEF Refused
<1> QED
  BY <1>7, <1>8, <1>9, <1>11, <1>12, <1>13, <1>14, <1>16, <1>17, <1>18, <1>19
     DEF Next, Returns, Releases

(* A thread that nests no mutexes owns none while it is on a list, so      *)
(* nobody changes its priority there.                                      *)
LEMMA WaiterFacts ==
  ASSUME MInv, NEW m \in Mutexes
  PROVE  /\ suspend_thread[m] \in Seq(Threads) /\ IsInjective(suspend_thread[m])
         /\ \A u \in Range(suspend_thread[m]) :
              /\ u \in Threads /\ waits[u] = m /\ stat[u] = "SUSPEND" /\ ~At(u, "idle")
              /\ u \notin Nesting => \A k \in Mutexes : owner[k] # u
<1>1. TypeOK /\ CallInv /\ OwnInv /\ WaitersInv /\ NestInv
  BY DEF MInv
<1>2. suspend_thread[m] \in Seq(Threads) /\ None \notin Mutexes
  BY <1>1, MutexAssumption DEF TypeOK
<1>3. IsInjective(suspend_thread[m])
  BY <1>1 DEF WaitersInv
<1>4. ASSUME NEW u \in Range(suspend_thread[m])
      PROVE  /\ u \in Threads /\ waits[u] = m /\ stat[u] = "SUSPEND" /\ ~At(u, "idle")
             /\ u \notin Nesting => \A k \in Mutexes : owner[k] # u
  <2>1. u \in Threads
    BY <1>2, <1>4, ElementOfSeq DEF Range
  <2>2. waits[u] = m /\ stat[u] = "SUSPEND"
    BY <1>1, <1>4 DEF WaitersInv
  <2>3. ~At(u, "idle")
    BY <2>2 DEF At
  <2>4. u \notin Nesting => ~Owning(u)
    BY <1>1, <1>2, <2>1, <2>2 DEF NestInv, Owning, Coming
  <2> QED
    BY <1>1, <2>1, <2>2, <2>3, <2>4, OwningOwner
<1> QED
  BY <1>2, <1>3, <1>4

(* Raising the priorities of threads that nest mutexes, and taking threads *)
(* off a list, keeps the order of the others.                              *)
LEMMA StaysInOrder ==
  ASSUME MInv, NEW m \in Mutexes, InOrder(suspend_thread[m]),
         current_priority' \in [Threads -> Nat],
         \A u \in Range(suspend_thread[m]) :
           /\ current_priority'[u] <= current_priority[u]
           /\ u \notin Nesting => current_priority'[u] = current_priority[u],
         \A i, j \in DOMAIN suspend_thread'[m] : i < j =>
           \E p, q \in DOMAIN suspend_thread[m] :
             p < q /\ suspend_thread'[m][i] = suspend_thread[m][p]
                   /\ suspend_thread'[m][j] = suspend_thread[m][q]
  PROVE  InOrder(suspend_thread[m])'
<1> DEFINE list == suspend_thread[m]
<1>1. current_priority \in [Threads -> Nat] /\ list \in Seq(Threads)
  BY DEF MInv, TypeOK
<1>2. \A p \in DOMAIN list : list[p] \in Range(list) /\ list[p] \in Threads
  BY <1>1, ElementOfSeq DEF Range
<1> SUFFICES ASSUME NEW i \in DOMAIN suspend_thread'[m], NEW j \in DOMAIN suspend_thread'[m],
                    i < j, suspend_thread'[m][j] \notin Nesting
             PROVE  ~Lower(current_priority'[suspend_thread'[m][i]],
                           current_priority'[suspend_thread'[m][j]])
  BY DEF InOrder, Lower
<1>3. PICK p \in DOMAIN list, q \in DOMAIN list :
        p < q /\ suspend_thread'[m][i] = list[p] /\ suspend_thread'[m][j] = list[q]
  OBVIOUS
<1> DEFINE x == list[p]
           y == list[q]
<1>4. x \in Threads /\ y \in Threads /\ x \in Range(list) /\ y \in Range(list) /\ y \notin Nesting
  BY <1>2, <1>3
<1>5. current_priority[x] <= current_priority[y]
  <2>1. ~(current_priority[x] > current_priority[y])
    BY <1>3, <1>4 DEF InOrder, Lower
  <2>2. current_priority[x] \in Nat /\ current_priority[y] \in Nat
    BY <1>1, <1>4
  <2> HIDE DEF x, y
  <2> QED
    BY <2>1, <2>2
<1>6. current_priority'[x] <= current_priority[x] /\ current_priority'[y] = current_priority[y]
  BY <1>4
<1>7. /\ current_priority'[x] \in Nat /\ current_priority'[y] \in Nat
      /\ current_priority[x] \in Nat
  BY <1>1, <1>4
<1>8. suspend_thread'[m][i] = x /\ suspend_thread'[m][j] = y
  BY <1>3
<1> HIDE DEF x, y
<1>9. ~(current_priority'[x] > current_priority'[y])
  BY <1>5, <1>6, <1>7
<1> QED
  BY <1>8, <1>9 DEF Lower

(* What a take that waits does to priorities: only the owner's may rise.   *)
LEMMA BoostFacts ==
  ASSUME MInv, NEW t \in Threads, NEW m \in Mutexes, NEW time \in Timeouts, TakeWaits(t, m, time)
  PROVE  /\ owner[m] \in Threads /\ owner[m] # t
         /\ current_priority \in [Threads -> Nat] /\ current_priority' \in [Threads -> Nat]
         /\ \A u \in Threads : current_priority'[u] <= current_priority[u]
         /\ \A u \in Threads : u # owner[m] => current_priority'[u] = current_priority[u]
         /\ current_priority'[owner[m]] <= current_priority[t]
<1>1. TypeOK /\ CallInv /\ OwnInv
  BY DEF MInv
<1>2. value[m] = 0 /\ owner[m] # t
  BY DEF TakeWaits
<1>3. owner[m] \in Threads /\ current_priority \in [Threads -> Nat]
  BY <1>1, <1>2, OwnFacts DEF TypeOK
<1> DEFINE o == owner[m]
           p == IF Lower(current_priority[o], current_priority[t]) THEN current_priority[t]
                                                                   ELSE current_priority[o]
<1>4. current_priority' = [current_priority EXCEPT ![o] = p]
  BY DEF TakeWaits
<1>5. p \in Nat /\ p <= current_priority[o] /\ p <= current_priority[t]
  BY <1>3 DEF Lower
<1> HIDE DEF p, o
<1>6. current_priority' \in [Threads -> Nat] /\ current_priority'[o] = p
  BY <1>3, <1>4, <1>5 DEF o
<1>7. \A u \in Threads : u # o => current_priority'[u] = current_priority[u]
  BY <1>3, <1>4
<1>8. \A u \in Threads : current_priority'[u] <= current_priority[u]
  BY <1>3, <1>5, <1>6, <1>7
<1> QED
  BY <1>2, <1>3, <1>5, <1>6, <1>7, <1>8 DEF o

LEMMA InsertedInOrder ==
  ASSUME MInv, NEW t \in Threads, NEW m \in Mutexes, NEW time \in Timeouts, TakeWaits(t, m, time),
         Flag[m] = "PRIO"
  PROVE  InOrder(suspend_thread[m])'
<1> DEFINE list == suspend_thread[m]
           n == Place(list, t, Flag[m])
           more == InsertAt(list, n, t)
<1>1. /\ list \in Seq(Threads) /\ Len(list) \in Nat /\ IsInjective(list) /\ InOrder(list)
      /\ suspend_thread \in [Mutexes -> Seq(Threads)] /\ Flag[m] = "PRIO"
  BY WaiterFacts DEF MInv, SortedInv, TypeOK
<1>2. /\ owner[m] \in Threads /\ owner[m] # t
      /\ current_priority \in [Threads -> Nat] /\ current_priority' \in [Threads -> Nat]
      /\ \A u \in Threads : current_priority'[u] <= current_priority[u]
      /\ \A u \in Threads : u # owner[m] => current_priority'[u] = current_priority[u]
  BY BoostFacts
<1>3. /\ n \in 1..(Len(list) + 1)
      /\ n <= Len(list) => Lower(current_priority[list[n]], current_priority[t])
      /\ \A k \in 1..n-1 : ~Lower(current_priority[list[k]], current_priority[t])
  BY <1>1, PlaceFound
<1>4. suspend_thread'[m] = more
  BY <1>1 DEF TakeWaits, Listed
<1> HIDE DEF n
<1>5. /\ more \in Seq(Threads) /\ Len(more) = Len(list) + 1
      /\ \A i \in 1..(Len(list) + 1) :
           more[i] = IF i < n THEN list[i] ELSE IF i = n THEN t ELSE list[i - 1]
  <2>1. list \in Seq(Threads) /\ n \in 1..Len(list) + 1
    BY <1>1, <1>3
  <2> HIDE DEF list, more
  <2>2. InsertAt(list, n, t) \in Seq(Threads) /\ Len(InsertAt(list, n, t)) = Len(list) + 1
    BY <2>1, InsertAtElements
  <2>3. ASSUME NEW i \in 1..(Len(list) + 1)
        PROVE  InsertAt(list, n, t)[i] = IF i < n THEN list[i] ELSE IF i = n THEN t ELSE list[i - 1]
    BY <2>1, InsertAtElements
  <2> QED
    BY <2>2, <2>3 DEF more
<1>6. \A i \in 1..Len(list) :
        /\ list[i] \in Threads
        /\ list[i] \notin Nesting => current_priority'[list[i]] = current_priority[list[i]]
  <2>1. \A i \in 1..Len(list) : list[i] \in Threads /\ list[i] \in Range(list)
    BY <1>1, ElementOfSeq DEF Range
  <2>2. \A u \in Range(list) : u \notin Nesting => u # owner[m]
    BY WaiterFacts
  <2> QED
    BY <1>2, <2>1, <2>2
<1> HIDE DEF more
<1> SUFFICES ASSUME NEW i \in 1..(Len(list) + 1), NEW j \in 1..(Len(list) + 1), i < j,
                    more[j] \notin Nesting
             PROVE  current_priority'[more[i]] <= current_priority'[more[j]]
  <2>1. DOMAIN more = 1..(Len(list) + 1)
    BY <1>5
  <2>2. \A i \in 1..(Len(list) + 1) : current_priority'[more[i]] \in Nat
    BY <1>2, <1>5, ElementOfSeq
  <2>3. \A p, q \in Nat : p <= q => ~(p > q)
    OBVIOUS
  <2> QED
    BY <1>4, <2>1, <2>2, <2>3 DEF InOrder, Lower
<1>7. \A p, q \in 1..Len(list) : p < q /\ list[q] \notin Nesting
        => current_priority[list[p]] <= current_priority[list[q]]
  <2>1. \A p \in 1..Len(list) : current_priority[list[p]] \in Nat
    BY <1>2, <1>6
  <2>2. \A p, q \in 1..Len(list) : p < q /\ list[q] \notin Nesting
          => ~(current_priority[list[p]] > current_priority[list[q]])
    BY <1>1 DEF InOrder, Lower
  <2>3. \A p, q \in Nat : ~(p > q) => p <= q
    OBVIOUS
  <2> QED
    BY <2>1, <2>2, <2>3
<1>8. \A u, w \in Threads : current_priority[u] <= current_priority[w]
        /\ current_priority'[w] = current_priority[w] => current_priority'[u] <= current_priority'[w]
  <2> SUFFICES ASSUME NEW u \in Threads, NEW w \in Threads, current_priority[u] <= current_priority[w],
                      current_priority'[w] = current_priority[w]
               PROVE  current_priority'[u] <= current_priority'[w]
    OBVIOUS
  <2>1. /\ current_priority[u] \in Nat /\ current_priority[w] \in Nat /\ current_priority'[u] \in Nat
        /\ current_priority'[u] <= current_priority[u]
    BY <1>2
  <2> QED
    BY <2>1
<1>9. CASE i # n /\ j # n
  <2>1. PICK p \in 1..Len(list), q \in 1..Len(list) : p < q /\ more[i] = list[p] /\ more[j] = list[q]
    <3> DEFINE p == IF i < n THEN i ELSE i - 1
               q == IF j < n THEN j ELSE j - 1
    <3>1. p \in 1..Len(list) /\ q \in 1..Len(list) /\ p < q
      BY <1>1, <1>3, <1>9
    <3>2. more[i] = list[p] /\ more[j] = list[q]
      BY <1>5, <1>9
    <3> QED
      BY <3>1, <3>2
  <2> QED
    BY <1>6, <1>7, <1>8, <2>1
<1>10. CASE j = n
  <2>1. i \in 1..Len(list) /\ i \in 1..n-1 /\ more[i] = list[i] /\ more[j] = t
    BY <1>1, <1>3, <1>5, <1>10
  <2>2. ~(current_priority[list[i]] > current_priority[t])
    BY <1>3, <2>1 DEF Lower
  <2>3. current_priority[list[i]] <= current_priority[t] /\ current_priority'[t] = current_priority[t]
    <3>1. current_priority[list[i]] \in Nat /\ current_priority[t] \in Nat
      BY <1>2, <1>6, <2>1
    <3> QED
      BY <1>2, <2>2, <3>1
  <2> QED
    BY <1>6, <1>8, <2>1, <2>3
<1>11. CASE i = n
  <2> DEFINE q == j - 1
  <2>1. q \in 1..Len(list) /\ n \in 1..Len(list) /\ n <= q /\ more[i] = t /\ more[j] = list[q]
    BY <1>1, <1>3, <1>5, <1>11
  <2> HIDE DEF q
  <2>2. current_priority[list[n]] > current_priority[t]
    BY <1>3, <2>1 DEF Lower
  <2>3. current_priority[list[n]] <= current_priority[list[q]]
    <3>1. current_priority[list[n]] \in Nat
      BY <1>2, <1>6, <2>1
    <3>2. n = q \/ n < q
      BY <2>1
    <3> QED
      BY <1>7, <2>1, <3>1, <3>2
  <2>4. current_priority[t] <= current_priority[list[q]]
    <3>1. /\ current_priority[list[n]] \in Nat /\ current_priority[t] \in Nat
          /\ current_priority[list[q]] \in Nat
      BY <1>2, <1>6, <2>1
    <3> QED
      BY <2>2, <2>3, <3>1
  <2> QED
    BY <1>6, <1>8, <2>1, <2>4
<1> QED
  BY <1>9, <1>10, <1>11

LEMMA SortedStep == MInv /\ [Next]_vars => SortedInv'
<1> SUFFICES ASSUME MInv, [Next]_vars, NEW m \in Mutexes, Flag[m] = "PRIO"
             PROVE  InOrder(suspend_thread[m])'
  BY DEF SortedInv
<1>1. /\ InOrder(suspend_thread[m]) /\ suspend_thread \in [Mutexes -> Seq(Threads)]
      /\ current_priority \in [Threads -> Nat] /\ current_priority' \in [Threads -> Nat]
      /\ \A u \in Threads : current_priority[u] <= current_priority[u]
  <2>1. TypeOK'
    BY TypeStep
  <2> QED
    BY <2>1 DEF MInv, SortedInv, TypeOK
<1>2. \A u \in Range(suspend_thread[m]) : u \in Threads /\ ~At(u, "idle")
  BY WaiterFacts
<1>3. ASSUME suspend_thread'[m] = suspend_thread[m],
             \A u \in Range(suspend_thread[m]) :
               /\ current_priority'[u] <= current_priority[u]
               /\ u \notin Nesting => current_priority'[u] = current_priority[u]
      PROVE  InOrder(suspend_thread[m])'
  BY <1>1, <1>3, StaysInOrder
<1>4. ASSUME UNCHANGED <<suspend_thread, current_priority>>
      PROVE  InOrder(suspend_thread[m])'
  BY <1>1, <1>2, <1>3, <1>4
<1>5. ASSUME NEW t \in Threads, At(t, "idle"), NEW p,
             current_priority' = [current_priority EXCEPT ![t] = p]
      PROVE  \A u \in Range(suspend_thread[m]) :
               /\ current_priority'[u] <= current_priority[u]
               /\ u \notin Nesting => current_priority'[u] = current_priority[u]
  <2>1. \A u \in Range(suspend_thread[m]) : u \in Threads /\ u # t
    BY <1>2, <1>5
  <2> QED
    BY <1>1, <1>5, <2>1
<1>6. ASSUME NEW t \in Threads, NEW k \in Mutexes, NEW time \in Timeouts, TakeWaits(t, k, time)
      PROVE  InOrder(suspend_thread[m])'
  <2>1. CASE k = m
    BY <1>6, <2>1, InsertedInOrder
  <2>2. CASE k # m
    <3>1. suspend_thread'[m] = suspend_thread[m]
      BY <1>1, <1>6, <2>2 DEF TakeWaits, Listed
    <3>2. \A u \in Range(suspend_thread[m]) : u \in Threads /\ (u \notin Nesting => u # owner[k])
      BY WaiterFacts
    <3>3. \A u \in Range(suspend_thread[m]) :
            /\ current_priority'[u] <= current_priority[u]
            /\ u \notin Nesting => current_priority'[u] = current_priority[u]
      BY <1>6, <3>2, BoostFacts
    <3> QED
      BY <1>3, <3>1, <3>3
  <2> QED
    BY <2>1, <2>2
<1>7. ASSUME NEW t \in Threads, TakeExpires(t)
      PROVE  InOrder(suspend_thread[m])'
  <2>1. CASE waits[t] = m
    <3>1. suspend_thread'[m] = Without(suspend_thread[m], t)
      BY <1>1, <1>7, <2>1 DEF TakeExpires
    <3>2. suspend_thread[m] \in Seq(Threads) /\ IsInjective(suspend_thread[m])
      BY WaiterFacts
    <3>3. \A i, j \in DOMAIN suspend_thread'[m] : i < j =>
            \E p, q \in DOMAIN suspend_thread[m] :
              p < q /\ suspend_thread'[m][i] = suspend_thread[m][p]
                    /\ suspend_thread'[m][j] = suspend_thread[m][q]
      BY <3>1, <3>2, WithoutElements
    <3>4. current_priority' = current_priority
      BY <1>7 DEF TakeExpires
    <3> QED
      BY <1>1, <1>2, <3>3, <3>4, StaysInOrder
  <2>2. CASE waits[t] # m
    BY <1>1, <1>2, <1>3, <1>7, <2>2 DEF TakeExpires
  <2> QED
    BY <2>1, <2>2
<1>8. ASSUME NEW t \in Threads, NEW k \in Mutexes, ReleaseFrees(t, k)
      PROVE  InOrder(suspend_thread[m])'
  BY <1>3, <1>5, <1>8 DEF ReleaseFrees, Restore, GivesUp
<1>9. ASSUME NEW t \in Threads, NEW k \in Mutexes, ReleaseHandsOver(t, k)
      PROVE  InOrder(suspend_thread[m])'
  <2>1. \A u \in Range(suspend_thread[m]) :
          /\ current_priority'[u] <= current_priority[u]
          /\ u \notin Nesting => current_priority'[u] = current_priority[u]
    BY <1>5, <1>9 DEF ReleaseHandsOver, Restore, GivesUp
  <2>2. CASE k = m
    <3>1. suspend_thread'[m] = Tail(suspend_thread[m]) /\ suspend_thread[m] # << >>
      BY <1>1, <1>9, <2>2 DEF ReleaseHandsOver
    <3> DEFINE list == suspend_thread[m]
               rest == Tail(list)
    <3>2. /\ rest \in Seq(Threads) /\ Len(rest) = Len(list) - 1 /\ Len(list) \in Nat
          /\ \A i \in 1..(Len(list) - 1) : rest[i] = list[i + 1]
      BY <3>1, WaiterFacts, TailElements
    <3>3. DOMAIN rest = 1..(Len(list) - 1) /\ DOMAIN list = 1..Len(list)
      <4>1. list \in Seq(Threads)
        BY WaiterFacts
      <4> HIDE DEF rest, list
      <4> QED
        BY <3>2, <4>1
    <3> HIDE DEF rest, list
    <3>4. ASSUME NEW i \in DOMAIN rest, NEW j \in DOMAIN rest, i < j
          PROVE  \E p, q \in DOMAIN list : p < q /\ rest[i] = list[p] /\ rest[j] = list[q]
      <4>1. i + 1 \in DOMAIN list /\ j + 1 \in DOMAIN list /\ i + 1 < j + 1
        BY <3>2, <3>3, <3>4
      <4>2. rest[i] = list[i + 1] /\ rest[j] = list[j + 1]
        BY <3>2, <3>3, <3>4
      <4> QED
        BY <4>1, <4>2
    <3>5. \A i, j \in DOMAIN suspend_thread'[m] : i < j =>
            \E p, q \in DOMAIN suspend_thread[m] :
              p < q /\ suspend_thread'[m][i] = suspend_thread[m][p]
                    /\ suspend_thread'[m][j] = suspend_thread[m][q]
      BY <3>1, <3>4 DEF rest, list
    <3> QED
      BY <1>1, <2>1, <3>5, StaysInOrder
  <2>3. CASE k # m
    BY <1>1, <1>3, <1>9, <2>1, <2>3 DEF ReleaseHandsOver
  <2> QED
    BY <2>2, <2>3
<1>10. ASSUME NEW t \in Threads, NEW k \in Mutexes,
              TakeAgain(t, k) \/ TakeAvailable(t, k) \/ ReleaseOnce(t, k) \/ Refused(t, k)
       PROVE  InOrder(suspend_thread[m])'
  BY <1>4, <1>10 DEF TakeAgain, TakeAvailable, ReleaseOnce, Refused, vars, mutexVars
<1>11. ASSUME NEW t \in Threads, TakeFails(t) \/ TakeReturns(t)
       PROVE  InOrder(suspend_thread[m])'
  BY <1>4, <1>11 DEF TakeFails, TakeReturns, mutexVars
<1>12. CASE UNCHANGED vars
  BY <1>4, <1>12 DEF vars, mutexVars
<1> QED
  BY <1>6, <1>7, <1>8, <1>9, <1>10, <1>11, <1>12 DEF Next, Returns, Releases

(* A thread that nests no mutexes owns only the one it releases.           *)
LEMMA OwnsOne ==
  ASSUME MInv, NEW t \in Threads \ Nesting, At(t, "idle"), NEW k \in Mutexes, NEW m \in Mutexes,
         owner[k] = t, owner[m] = t
  PROVE  k = m
<1>1. TypeOK /\ CallInv /\ OwnInv /\ NestInv /\ held \in [Threads -> Seq(Mutexes)]
  BY DEF MInv, TypeOK
<1>2. \A n \in {k, m} : ~Coming(t, n) /\ Takes(t, n) = hold[n] /\ hold[n] > 0
  BY <1>1, OwnFacts
<1>3. \A n \in {k, m} : \E i \in DOMAIN held[t] : held[t][i] = n
  <2> SUFFICES ASSUME NEW n \in {k, m} PROVE \E i \in DOMAIN held[t] : held[t][i] = n
    OBVIOUS
  <2>1. n \in Mutexes /\ t \in Threads /\ Takes(t, n) # 0
    BY <1>1, <1>2, OwnFacts
  <2> QED
    BY <1>1, <2>1, TakesType
<1> QED
  BY <1>1, <1>3 DEF NestInv

(* What OwnerInherits says of one waiter.                                  *)
Boosts(m, u) ==
  Flag[m] = "PRIO" /\ owner[m] \notin Nesting /\ u \notin Nesting
    => current_priority[owner[m]] <= current_priority[u]

LEMMA InheritStep == MInv /\ [Next]_vars => OwnerInherits'
<1> SUFFICES ASSUME MInv, [Next]_vars PROVE OwnerInherits'
  OBVIOUS
<1>1. /\ TypeOK /\ OwnInv /\ WaitersInv /\ SortedInv
      /\ suspend_thread \in [Mutexes -> Seq(Threads)] /\ waits \in [Threads -> Mutexes \cup {None}]
      /\ owner \in [Mutexes -> Threads \cup {None}]
      /\ current_priority \in [Threads -> Nat]
  BY DEF MInv, TypeOK
<1>2. /\ suspend_thread' \in [Mutexes -> Seq(Threads)] /\ owner' \in [Mutexes -> Threads \cup {None}]
      /\ current_priority' \in [Threads -> Nat] /\ AvailableExact'
  BY TypeStep, OwnStep DEF TypeOK, OwnInv
<1>3. ASSUME NEW m \in Mutexes, NEW u \in Range(suspend_thread[m])
      PROVE  Boosts(m, u)
  <2>1. PICK n \in DOMAIN suspend_thread[m] : u = suspend_thread[m][n]
    BY DEF Range
  <2>2. suspend_thread[m] # << >> /\ u \in Threads
    BY <1>1, <2>1, ElementOfSeq
  <2>3. owner[m] \in Threads
    BY <1>1, <2>2 DEF OwnInv, AvailableExact
  <2>4. current_priority[owner[m]] \in Nat /\ current_priority[u] \in Nat
    BY <1>1, <2>2, <2>3
  <2>5. ASSUME Flag[m] = "PRIO", owner[m] \notin Nesting, u \notin Nesting
        PROVE  ~(current_priority[owner[m]] > current_priority[u])
    BY <2>1, <2>5 DEF MInv, OwnerInherits, Lower
  <2> QED
    BY <2>4, <2>5 DEF Boosts
<1> SUFFICES ASSUME NEW m \in Mutexes, Flag[m] = "PRIO", owner'[m] \notin Nesting,
                    NEW u \in Range(suspend_thread'[m]), u \notin Nesting
             PROVE  current_priority'[owner'[m]] <= current_priority'[u]
  <2> SUFFICES ASSUME NEW k \in Mutexes, Flag[k] = "PRIO", owner'[k] \notin Nesting,
                      NEW n \in DOMAIN suspend_thread'[k], suspend_thread'[k][n] \notin Nesting
               PROVE  ~Lower(current_priority'[owner'[k]], current_priority'[suspend_thread'[k][n]])
    BY DEF OwnerInherits, Lower
  <2>1. suspend_thread'[k][n] \in Threads /\ suspend_thread'[k] # << >>
    BY <1>2, ElementOfSeq
  <2>2. owner'[k] \in Threads
    BY <1>2, <2>1 DEF AvailableExact
  <2>3. suspend_thread'[k][n] \in Range(suspend_thread'[k])
    BY DEF Range
  <2>4. current_priority'[owner'[k]] <= current_priority'[suspend_thread'[k][n]]
    BY <2>3
  <2>5. /\ current_priority'[owner'[k]] \in Nat
        /\ current_priority'[suspend_thread'[k][n]] \in Nat
    BY <1>2, <2>1, <2>2
  <2> QED
    BY <2>4, <2>5 DEF Lower
<1>4. u \in Threads /\ owner'[m] \in Threads
  <2>1. PICK n \in DOMAIN suspend_thread'[m] : u = suspend_thread'[m][n]
    BY DEF Range
  <2> QED
    BY <1>2, <2>1, ElementOfSeq DEF AvailableExact
<1>5. ASSUME owner'[m] = owner[m], u \in Range(suspend_thread[m]),
             current_priority'[owner[m]] <= current_priority[owner[m]],
             current_priority'[u] = current_priority[u]
      PROVE  current_priority'[owner'[m]] <= current_priority'[u]
  <2>1. current_priority[owner[m]] <= current_priority[u]
    BY <1>3, <1>5 DEF Boosts
  <2>2. /\ current_priority[owner[m]] \in Nat /\ current_priority[u] \in Nat
        /\ current_priority'[owner[m]] \in Nat
    BY <1>1, <1>2, <1>4, <1>5
  <2> QED
    BY <1>5, <2>1, <2>2
<1>6. \A w \in Range(suspend_thread[m]) : w \in Threads /\ ~At(w, "idle")
  BY WaiterFacts
<1>7. u \in Range(suspend_thread[m]) => \A k \in Mutexes : owner[k] # u
  BY WaiterFacts
<1>8. ASSUME UNCHANGED <<owner, suspend_thread, current_priority>>
      PROVE  current_priority'[owner'[m]] <= current_priority'[u]
  BY <1>1, <1>4, <1>5, <1>8
<1>9. ASSUME NEW t \in Threads, NEW k \in Mutexes, NEW time \in Timeouts, TakeWaits(t, k, time)
      PROVE  current_priority'[owner'[m]] <= current_priority'[u]
  <2>1. /\ owner[k] \in Threads /\ owner[k] # t /\ owner' = owner /\ At(t, "idle")
        /\ \A w \in Threads : current_priority'[w] <= current_priority[w]
        /\ \A w \in Threads : w # owner[k] => current_priority'[w] = current_priority[w]
        /\ current_priority'[owner[k]] <= current_priority[t]
    BY <1>9, BoostFacts DEF TakeWaits, Wants
  <2>2. CASE u \in Range(suspend_thread[m])
    BY <1>4, <1>5, <1>7, <2>1, <2>2
  <2>3. CASE u \notin Range(suspend_thread[m])
    <3>1. k = m
      BY <1>1, <1>9, <2>3 DEF TakeWaits, Listed
    <3> DEFINE list == suspend_thread[m]
               n == Place(list, t, Flag[m])
    <3>2. list \in Seq(Threads) /\ IsInjective(list) /\ t \notin Range(list)
      BY <1>6, <2>1, WaiterFacts
    <3>3. n \in 1..Len(list) + 1
      BY <3>2, PlaceFound
    <3>4. suspend_thread'[m] = InsertAt(list, n, t)
      BY <1>1, <1>9, <3>1 DEF TakeWaits, Listed
    <3> HIDE DEF n, list
    <3>5. Range(suspend_thread'[m]) = Range(list) \cup {t}
      <4>1. Range(InsertAt(list, n, t)) = Range(list) \cup {t}
        BY <3>2, <3>3, InsertAtRange
      <4> QED
        BY <3>4, <4>1
    <3>6. u = t
      BY <2>3, <3>5 DEF list
    <3> QED
      BY <2>1, <3>1, <3>6
  <2> QED
    BY <2>2, <2>3
<1>10. ASSUME NEW t \in Threads, TakeExpires(t)
       PROVE  current_priority'[owner'[m]] <= current_priority'[u]
  <2>1. UNCHANGED <<owner, current_priority>>
        /\ suspend_thread' = [suspend_thread EXCEPT ![waits[t]] = Without(@, t)]
    BY <1>10 DEF TakeExpires
  <2>2. u \in Range(suspend_thread[m])
    <3>1. CASE waits[t] = m
      <4>1. suspend_thread'[m] = Without(suspend_thread[m], t)
        BY <1>1, <2>1, <3>1
      <4> QED
        BY <4>1, WaiterFacts, WithoutElements
    <3>2. CASE waits[t] # m
      BY <1>1, <2>1, <3>2
    <3> QED
      BY <3>1, <3>2
  <2>3. current_priority'[owner[m]] <= current_priority[owner[m]]
    BY <1>1, <1>4, <2>1
  <2> QED
    BY <1>5, <2>1, <2>2, <2>3
<1>11. ASSUME NEW t \in Threads, NEW k \in Mutexes, TakeAvailable(t, k)
       PROVE  current_priority'[owner'[m]] <= current_priority'[u]
  <2>1. /\ value[k] > 0 /\ owner' = [owner EXCEPT ![k] = t]
        /\ UNCHANGED <<suspend_thread, current_priority>>
    BY <1>11 DEF TakeAvailable
  <2>2. suspend_thread[k] = << >>
    <3>1. owner[k] = None
      BY <1>11, <2>1, OwnFacts DEF MInv
    <3> QED
      BY <1>1, <3>1 DEF OwnInv, AvailableExact
  <2>3. k # m
    BY <2>1, <2>2 DEF Range
  <2>4. owner'[m] = owner[m]
    BY <1>1, <2>1, <2>3
  <2>5. current_priority'[owner[m]] <= current_priority[owner[m]]
    BY <1>1, <1>4, <2>1, <2>4
  <2> QED
    BY <1>5, <2>1, <2>4, <2>5
(* The release of another mutex takes nothing from the owner of m.         *)
<1>12. ASSUME NEW t \in Threads, NEW k \in Mutexes, k # m, At(t, "idle"), owner[k] = t, NEW p,
              current_priority' = [current_priority EXCEPT ![t] = p],
              owner'[m] = owner[m], suspend_thread'[m] = suspend_thread[m]
       PROVE  current_priority'[owner'[m]] <= current_priority'[u]
  <2>1. owner[m] # t /\ u # t
    BY <1>6, <1>12, OwnsOne
  <2>2. current_priority'[owner[m]] = current_priority[owner[m]] /\ current_priority'[u] = current_priority[u]
    BY <1>1, <1>4, <1>12, <2>1
  <2>3. current_priority'[owner[m]] <= current_priority[owner[m]]
    BY <1>1, <1>4, <1>12, <2>2
  <2> QED
    BY <1>5, <1>12, <2>2, <2>3
<1>13. ASSUME NEW t \in Threads, NEW k \in Mutexes, ReleaseFrees(t, k)
       PROVE  current_priority'[owner'[m]] <= current_priority'[u]
  <2>1. /\ At(t, "idle") /\ owner[k] = t /\ owner' = [owner EXCEPT ![k] = None]
        /\ suspend_thread' = suspend_thread /\ suspend_thread[k] = << >>
        /\ current_priority' = [current_priority EXCEPT ![t] = original_priority[k]]
    BY <1>13 DEF ReleaseFrees, Restore, GivesUp
  <2>2. k # m
    BY <2>1 DEF Range
  <2>3. owner'[m] = owner[m]
    BY <1>1, <2>1, <2>2
  <2> QED
    BY <1>12, <2>1, <2>2, <2>3
<1>14. ASSUME NEW t \in Threads, NEW k \in Mutexes, ReleaseHandsOver(t, k)
       PROVE  current_priority'[owner'[m]] <= current_priority'[u]
  <2>1. /\ At(t, "idle") /\ owner[k] = t /\ suspend_thread[k] # << >>
        /\ owner' = [owner EXCEPT ![k] = Head(suspend_thread[k])]
        /\ suspend_thread' = [suspend_thread EXCEPT ![k] = Tail(@)]
        /\ current_priority' = [current_priority EXCEPT ![t] = original_priority[k]]
    BY <1>14 DEF ReleaseHandsOver, Restore, GivesUp
  <2>2. CASE k # m
    <3>1. owner'[m] = owner[m] /\ suspend_thread'[m] = suspend_thread[m]
      BY <1>1, <2>1, <2>2
    <3> QED
      BY <1>12, <2>1, <2>2, <3>1
  <2>3. CASE k = m
    <3> DEFINE list == suspend_thread[m]
    <3>1. /\ list \in Seq(Threads) /\ IsInjective(list) /\ list # << >> /\ InOrder(list)
          /\ suspend_thread'[m] = Tail(list) /\ owner'[m] = Head(list)
      BY <1>1, <2>1, <2>3, WaiterFacts DEF SortedInv
    <3>2. /\ Tail(list) \in Seq(Threads) /\ Range(Tail(list)) = Range(list) \ {Head(list)}
          /\ Head(list) = list[1] /\ Head(list) \in Range(list)
          /\ Len(Tail(list)) = Len(list) - 1 /\ Len(list) \in Nat /\ Len(list) > 0
          /\ \A i \in 1..(Len(list) - 1) : Tail(list)[i] = list[i + 1]
      BY <3>1, TailElements
    <3>3. DOMAIN list = 1..Len(list) /\ DOMAIN Tail(list) = 1..(Len(list) - 1)
      <4> HIDE DEF list
      <4> QED
        BY <3>1, <3>2
    <3>4. PICK i \in 1..(Len(list) - 1) : u = list[i + 1]
      BY <3>1, <3>2, <3>3 DEF Range
    <3>5. 1 \in DOMAIN list /\ i + 1 \in DOMAIN list /\ 1 < i + 1
      BY <3>2, <3>3
    <3>6. ~(current_priority[Head(list)] > current_priority[u])
      BY <3>1, <3>2, <3>4, <3>5 DEF InOrder, Lower
    <3>7. u \in Range(list) /\ u # t /\ Head(list) # t /\ Head(list) \in Threads
      BY <1>6, <2>1, <3>1, <3>2
    <3>8. current_priority[Head(list)] \in Nat /\ current_priority[u] \in Nat
      BY <1>1, <1>4, <3>7
    <3>9. /\ current_priority'[Head(list)] = current_priority[Head(list)]
          /\ current_priority'[u] = current_priority[u]
      BY <1>1, <1>4, <2>1, <3>7
    <3> QED
      BY <3>1, <3>6, <3>8, <3>9
  <2> QED
    BY <2>2, <2>3
<1>15. ASSUME NEW t \in Threads, NEW k \in Mutexes,
              TakeAgain(t, k) \/ ReleaseOnce(t, k) \/ Refused(t, k)
       PROVE  current_priority'[owner'[m]] <= current_priority'[u]
  BY <1>8, <1>15 DEF TakeAgain, ReleaseOnce, Refused, vars, mutexVars
<1>16. ASSUME NEW t \in Threads, TakeFails(t) \/ TakeReturns(t)
       PROVE  current_priority'[owner'[m]] <= current_priority'[u]
  BY <1>8, <1>16 DEF TakeFails, TakeReturns, mutexVars
<1>17. CASE UNCHANGED vars
  BY <1>8, <1>17 DEF vars, mutexVars
<1> QED
  BY <1>9, <1>10, <1>11, <1>13, <1>14, <1>15, <1>16, <1>17 DEF Next, Returns, Releases
-------------------------------------------------------------------------------
(* The theorems.                                                           *)

LEMMA InitInv == Init => MInv
<1> SUFFICES ASSUME Init PROVE MInv
  OBVIOUS
<1>1. /\ Mutexes \subseteq Nat /\ Priority \in [Threads -> Nat] /\ MaxTakes \in Nat
      /\ None \notin Threads /\ None \notin Mutexes
  BY MutexAssumption
<1>2. TypeOK
  <2>1. << >> \in Seq(Threads) /\ << >> \in Seq(Mutexes)
    BY EmptySeq
  <2>2. 0 \in 0..MaxTakes
    BY <1>1
  <2> QED
    BY <1>1, <2>1, <2>2 DEF Init, ThreadInit, TypeOK, ThreadTypeOK, Initial
<1>3. CallInv
  BY <1>1 DEF Init, ThreadInit, CallInv
<1>4. \A m \in Mutexes : suspend_thread[m] = << >> /\ owner[m] = None /\ hold[m] = 0 /\ value[m] = 1
  BY DEF Init
<1>5. \A t \in Threads : held[t] = << >> /\ waits[t] = None /\ current_priority[t] = Priority[t]
  BY DEF Init
<1>6. WaitersInv /\ SortedInv /\ OwnerInherits
  BY <1>4 DEF WaitersInv, SortedInv, OwnerInherits, InOrder, Range, IsInjective
<1>7. \A t \in Threads, m \in Mutexes : Takes(t, m) = 0 /\ ~Coming(t, m)
  <2>1. held \in [Threads -> Seq(Mutexes)]
    BY <1>2 DEF TypeOK
  <2> QED
    BY <1>1, <1>5, <2>1, TakesType DEF Coming
<1>8. OwnInv
  BY <1>1, <1>4, <1>7 DEF OwnInv, OwnershipExact, HoldInv, AvailableExact, Granted
<1>9. NestInv
  BY <1>5 DEF NestInv
<1>10. FirstInv
  BY <1>5, <1>7 DEF FirstInv, FirstKept, Owning
<1> QED
  BY <1>2, <1>3, <1>6, <1>8, <1>9, <1>10 DEF MInv

(* The inductive invariant holds in every reachable state.                 *)
THEOREM Invariance == Spec => []MInv
<1>1. MInv /\ [Next]_vars => MInv'
  BY TypeStep, CallStep, WaitersStep, OwnStep, NestStep, FirstStep, SortedStep, InheritStep DEF MInv
<1> QED
  BY InitInv, <1>1, PTL DEF Spec

(* Every variable keeps its type: no take or release of the kernel mutex   *)
(* lets the recursion count wrap.                                          *)
THEOREM TypeCorrect == Spec => []TypeOK
<1>1. MInv => TypeOK
  BY DEF MInv
<1> QED
  BY Invariance, <1>1, PTL

(* The takes granted to the threads are those each mutex counts for its    *)
(* owner, whatever races with a timeout.                                   *)
THEOREM OwnershipIsExact == Spec => []OwnershipExact
<1>1. MInv => OwnershipExact
  BY DEF MInv, OwnInv
<1> QED
  BY Invariance, <1>1, PTL

(* A mutex is available exactly when it has no owner, and then nobody      *)
(* waits for it.                                                           *)
THEOREM AvailableIsExact == Spec => []AvailableExact
<1>1. MInv => AvailableExact
  BY DEF MInv, OwnInv
<1> QED
  BY Invariance, <1>1, PTL

(* A thread that owns no mutex has the priority it was created with.       *)
THEOREM PriorityAlwaysRestored == Spec => []PriorityRestored
<1>1. MInv => PriorityRestored
  <2> SUFFICES ASSUME MInv, NEW t \in Threads, \A m \in Mutexes : owner[m] # t
               PROVE  current_priority[t] = Priority[t]
    BY DEF PriorityRestored
  <2>1. ~Owning(t)
    BY OwningOwner DEF MInv
  <2> QED
    BY <2>1 DEF MInv, FirstInv, FirstKept
<1> QED
  BY Invariance, <1>1, PTL

(* The owner of a mutex that queues by priority runs at no lower priority  *)
(* than the waiters, where neither nests mutexes: also after a release has *)
(* made the first waiter the owner, which inherits nothing from the rest.  *)
THEOREM OwnerAlwaysInherits == Spec => []OwnerInherits
<1>1. MInv => OwnerInherits
  BY DEF MInv
<1> QED
  BY Invariance, <1>1, PTL
===============================================================================
