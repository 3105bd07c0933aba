---------------------------- MODULE SoftTimerProofs ----------------------------
(***************************************************************************)
(* What TLAPS proves of the soft timers, for any number of timers and      *)
(* threads, any periods and any range of the tick.                         *)
(***************************************************************************)
EXTENDS SoftTimer, ListLemmas

-------------------------------------------------------------------------------
(* Ticks.  All that the code compares lies within half the range of        *)
(* rt_tick - MaxLate, and there the wrapping comparison is an order.       *)

Offset(x) == Minus(x + MaxLate, rt_tick)

Soon(x) == Offset(x) < Half

LEMMA HalfIs ==
  /\ Ticks \in Nat \ {0} /\ TickMax \in Nat /\ Half \in Nat /\ 2 * Half <= TickMax
  /\ TickMax = Ticks - 1 /\ MaxLate \in Nat
  /\ \A t \in Timers : InitTick[t] \in Nat /\ InitTick[t] + MaxLate < Half
BY TimersAssumption DEF TickMax, Half

LEMMA MinusIs ==
  ASSUME NEW a \in 0..TickMax, NEW b \in 0..TickMax
  PROVE  Minus(a, b) = IF a >= b THEN a - b ELSE a - b + Ticks
<1>1. Ticks \in Nat \ {0} /\ TickMax = Ticks - 1
  BY HalfIs
<1> HIDE DEF TickMax
<1> QED
  BY <1>1 DEF Minus

LEMMA OffsetIs ==
  ASSUME MaxLate < Half, rt_tick \in 0..TickMax, NEW x \in 0..TickMax
  PROVE  LET d == x + MaxLate - rt_tick
         IN  Offset(x) = IF d < 0 THEN d + Ticks ELSE IF d < Ticks THEN d ELSE d - Ticks
<1>1. /\ Ticks \in Nat \ {0} /\ TickMax = Ticks - 1 /\ MaxLate \in Nat
      /\ Half \in Nat /\ 2 * Half <= TickMax
  BY HalfIs
<1> DEFINE d == x + MaxLate - rt_tick
           o == IF d < 0 THEN d + Ticks ELSE IF d < Ticks THEN d ELSE d - Ticks
<1> HIDE DEF TickMax, Half
<1>2. o \in 0..(Ticks - 1) /\ (d = o \/ d = o + Ticks \/ d = o - Ticks)
  BY <1>1
<1> HIDE DEF o
<1>3. d % Ticks = o
  BY <1>1, <1>2
<1>4. Offset(x) = d % Ticks
  BY <1>1 DEF Offset, Minus
<1> HIDE DEF d
<1>5. Offset(x) = o
  BY <1>3, <1>4
<1> QED
  BY <1>5 DEF o, d

LEMMA SoonOrdered ==
  ASSUME MaxLate < Half, rt_tick \in 0..TickMax,
         NEW x \in 0..TickMax, NEW y \in 0..TickMax, Soon(x), Soon(y)
  PROVE  /\ Offset(x) \in Nat /\ Offset(y) \in Nat
         /\ NotBefore(x, y) <=> Offset(y) <= Offset(x)
         /\ Offset(x) = Offset(y) => x = y
<1>1. /\ Ticks \in Nat \ {0} /\ TickMax = Ticks - 1 /\ MaxLate \in Nat
      /\ Half \in Nat /\ 2 * Half <= TickMax
  BY HalfIs
<1> DEFINE dx == x + MaxLate - rt_tick
           dy == y + MaxLate - rt_tick
<1>2. /\ Offset(x) = IF dx < 0 THEN dx + Ticks ELSE IF dx < Ticks THEN dx ELSE dx - Ticks
      /\ Offset(y) = IF dy < 0 THEN dy + Ticks ELSE IF dy < Ticks THEN dy ELSE dy - Ticks
  BY OffsetIs
<1>3. Minus(x, y) = IF x >= y THEN x - y ELSE x - y + Ticks
  BY MinusIs
<1> HIDE DEF TickMax, Half
<1> QED
  BY <1>1, <1>2, <1>3 DEF Soon, NotBefore

(* No deadline leaves that half while none is Late.                        *)
LEMMA SoonKept ==
  ASSUME MaxLate < Half, rt_tick \in 0..TickMax, rt_tick' = (rt_tick + 1) % Ticks,
         NEW CONSTANT x \in 0..TickMax, Soon(x), ~Late(x)
  PROVE  rt_tick' \in 0..TickMax /\ Soon(x)'
<1>1. /\ Ticks \in Nat \ {0} /\ TickMax = Ticks - 1 /\ MaxLate \in Nat
      /\ Half \in Nat /\ 2 * Half <= TickMax
  BY HalfIs
<1> DEFINE r == rt_tick
           s == (rt_tick + 1) % Ticks
           d == x + MaxLate - r
           e == x + MaxLate - s
<1>2. r \in 0..TickMax /\ s = IF r = Ticks - 1 THEN 0 ELSE r + 1
  BY <1>1
<1>3. Offset(x) = IF d < 0 THEN d + Ticks ELSE IF d < Ticks THEN d ELSE d - Ticks
  BY OffsetIs
<1>4. s \in 0..TickMax
  BY <1>1, <1>2
<1>5. Offset(x)' = e % Ticks
  BY <1>1, <1>4 DEF Offset, Minus
<1>6. Minus(r, x) = IF r >= x THEN r - x ELSE r - x + Ticks
  BY MinusIs
<1>7. ~(Minus(r, x) < Half /\ Minus(r, x) >= MaxLate)
  BY DEF Late, NotBefore
<1>8. Offset(x) < Half
  BY DEF Soon
<1> HIDE DEF TickMax, Half, r, s
<1>9. Offset(x) \in 1..(Half - 1)
  BY <1>1, <1>2, <1>3, <1>6, <1>7, <1>8
<1>10. e % Ticks = Offset(x) - 1
  <2>1. e = Offset(x) - 1 \/ e = Offset(x) - 1 + Ticks \/ e = Offset(x) - 1 - Ticks
    BY <1>1, <1>2, <1>3
  <2> HIDE DEF e, d
  <2>2. Offset(x) - 1 \in 0..(Ticks - 1)
    BY <1>1, <1>9
  <2> DEFINE o == Offset(x) - 1
  <2> HIDE DEF o
  <2>3. o \in 0..(Ticks - 1) /\ (e = o \/ e = o + Ticks \/ e = o - Ticks)
    BY <2>1, <2>2 DEF o
  <2>4. e % Ticks = o
    BY <1>1, <2>3
  <2> QED
    BY <2>4 DEF o
<1>11. Offset(x)' < Half
  BY <1>1, <1>5, <1>9, <1>10
<1>12. rt_tick' = s
  BY DEF s
<1> QED
  BY <1>4, <1>11, <1>12 DEF Soon

(* What rt_timer_start sets.                                               *)
LEMMA StartSoon ==
  ASSUME rt_tick \in 0..TickMax, NEW t \in Timers
  PROVE  /\ (rt_tick + InitTick[t]) % Ticks \in 0..TickMax
         /\ Soon((rt_tick + InitTick[t]) % Ticks) /\ MaxLate < Half
<1>1. /\ Ticks \in Nat \ {0} /\ TickMax = Ticks - 1 /\ MaxLate \in Nat
      /\ Half \in Nat /\ 2 * Half <= TickMax /\ InitTick[t] \in Nat /\ InitTick[t] + MaxLate < Half
  BY HalfIs
<1> DEFINE r == rt_tick
           i == InitTick[t]
           x == (r + i) % Ticks
<1> HIDE DEF TickMax, Half
<1> DEFINE o == IF r + i < Ticks THEN r + i ELSE r + i - Ticks
<1>2. MaxLate < Half /\ x = o
  <2>1. MaxLate < Half /\ o \in 0..(Ticks - 1) /\ (r + i = o \/ r + i = o + Ticks)
    BY <1>1
  <2> HIDE DEF o, r, i
  <2>2. (r + i) % Ticks = o
    BY <1>1, <2>1
  <2> QED
    BY <2>1, <2>2
<1>3. x \in 0..TickMax
  BY <1>1, <1>2
<1> HIDE DEF x
<1>4. LET d == x + MaxLate - rt_tick
      IN  Offset(x) = IF d < 0 THEN d + Ticks ELSE IF d < Ticks THEN d ELSE d - Ticks
  BY <1>2, <1>3, OffsetIs
<1>5. Offset(x) < Half
  BY <1>1, <1>2, <1>3, <1>4
<1> QED
  BY <1>2, <1>3, <1>5 DEF Soon, x
-------------------------------------------------------------------------------
(* The list.                                                               *)

Ordered(list, tt) ==
  \A i, j \in 1..Len(list) : i < j => NotBefore(tt[list[j]], tt[list[i]])

LEMMA RemovedOrder ==
  ASSUME NEW list \in Seq(Timers), NEW t, NEW tt, Ordered(list, tt)
  PROVE  Ordered(RemoveFirst(list, t), tt)
<1>1. CASE RemoveFirst(list, t) = list
  BY <1>1
<1>2. ASSUME NEW k \in 1..Len(list), RemoveFirst(list, t) = RemoveAt(list, k)
      PROVE  Ordered(RemoveFirst(list, t), tt)
  <2> DEFINE len == Len(list)
             rest == RemoveAt(list, k)
  <2>1. /\ len \in Nat /\ k \in 1..len /\ Len(rest) = len - 1
        /\ \A i \in 1..(len - 1) : rest[i] = IF i < k THEN list[i] ELSE list[i + 1]
    BY RemoveAtElements
  <2> HIDE DEF len, rest
  <2>2. \A i, j \in 1..len : i < j => NotBefore(tt[list[j]], tt[list[i]])
    BY DEF Ordered, len
  <2> SUFFICES ASSUME NEW i \in 1..(len - 1), NEW j \in 1..(len - 1), i < j
               PROVE  NotBefore(tt[rest[j]], tt[rest[i]])
    BY <1>2, <2>1 DEF Ordered, rest
  <2> DEFINE p == IF i < k THEN i ELSE i + 1
             q == IF j < k THEN j ELSE j + 1
  <2>3. p \in 1..len /\ q \in 1..len /\ p < q /\ rest[i] = list[p] /\ rest[j] = list[q]
    <3>1. len \in Nat /\ k \in Int /\ i \in 1..(len - 1) /\ j \in 1..(len - 1)
      BY <2>1
    <3>2. p \in 1..len /\ q \in 1..len /\ p < q
      BY <3>1
    <3>3. rest[i] = list[p] /\ rest[j] = list[q]
      BY <2>1
    <3> QED
      BY <3>2, <3>3
  <2> HIDE DEF p, q
  <2>4. NotBefore(tt[list[q]], tt[list[p]])
    BY <2>2, <2>3
  <2> QED
    BY <2>3, <2>4
<1> QED
  BY <1>1, <1>2, RemoveFirstElements

(* rt_timer_start inserts behind those not Later than the timer, in front  *)
(* of the first that is.                                                   *)
Later(x, timeout) == timeout_tick[x] # timeout /\ NotBefore(timeout_tick[x], timeout)

(* more is list with t at the k-th place.                                  *)
PutAt(more, list, t, timeout, k) ==
  /\ k = Len(list) + 1 => more = Append(list, t)
  /\ k # Len(list) + 1 => more = InsertAt(list, k, t) /\ Later(list[k], timeout)
  /\ \A i \in 1..(k - 1) : ~Later(list[i], timeout)
  /\ Len(more) = Len(list) + 1
  /\ \A i \in 1..(Len(list) + 1) :
       more[i] = IF i < k THEN list[i] ELSE IF i = k THEN t ELSE list[i - 1]

LEMMA InsertedElements ==
  ASSUME NEW list \in Seq(Timers), NEW t \in Timers, NEW timeout
  PROVE  \E k \in 1..(Len(list) + 1) : PutAt(Inserted(list, t, timeout), list, t, timeout, k)
<1> DEFINE len == Len(list)
           later == {i \in 1..len : Later(list[i], timeout)}
           more == Inserted(list, t, timeout)
<1>1. len \in Nat
  OBVIOUS
<1>2. CASE later = {}
  <2>1. more = Append(list, t)
    BY <1>2 DEF Inserted, Later
  <2>2. /\ Len(Append(list, t)) = len + 1
        /\ \A i \in 1..len : Append(list, t)[i] = list[i]
        /\ Append(list, t)[len + 1] = t
    BY AppendProperties
  <2>3. \A i \in 1..len : ~Later(list[i], timeout)
    BY <1>2
  <2>4. /\ len + 1 \in 1..(len + 1) /\ (len + 1) - 1 = len
        /\ \A i \in 1..(len + 1) : (i < len + 1 => i \in 1..len) /\ (~(i < len + 1) => i = len + 1)
    BY <1>1
  <2> HIDE DEF len, later, more, Later
  <2>5. \A i \in 1..(len + 1) :
          more[i] = IF i < len + 1 THEN list[i] ELSE IF i = len + 1 THEN t ELSE list[i - 1]
    BY <2>1, <2>2, <2>4
  <2>6. Len(more) = len + 1 /\ \A i \in 1..(len + 1 - 1) : ~Later(list[i], timeout)
    BY <1>1, <2>1, <2>2, <2>3
  <2>7. PutAt(more, list, t, timeout, len + 1)
    BY <2>1, <2>5, <2>6 DEF PutAt, len
  <2> QED
    BY <2>4, <2>7 DEF len, more
<1>3. CASE later # {}
  <2> DEFINE k == Min(later)
  <2>1. later \subseteq Nat
    OBVIOUS
  <2>2. more = InsertAt(list, k, t)
    BY <1>3 DEF Inserted, Later, SelectInSeq
  <2>3. k \in later /\ \A i \in later : k <= i
    <3> HIDE DEF later
    <3> QED
      BY <1>3, <2>1, MinIsLeast
  <2> HIDE DEF k
  <2>4. k \in 1..len /\ Later(list[k], timeout)
    BY <2>3
  <2>5. \A i \in 1..(k - 1) : ~Later(list[i], timeout)
    <3>1. \A i \in 1..(k - 1) : i \in 1..len /\ ~(k <= i)
      BY <1>1, <2>4
    <3> QED
      BY <2>3, <3>1
  <2>6. k \in 1..(len + 1) /\ k # len + 1
    BY <1>1, <2>4
  <2> HIDE DEF len, later, more, Later
  <2>7. /\ Len(more) = len + 1
        /\ \A i \in 1..(len + 1) :
             more[i] = IF i < k THEN list[i] ELSE IF i = k THEN t ELSE list[i - 1]
    <3>1. k \in 1..Len(list) + 1
      BY <2>6 DEF len
    <3>2. /\ Len(InsertAt(list, k, t)) = Len(list) + 1
          /\ \A i \in 1..(Len(list) + 1) :
               InsertAt(list, k, t)[i] = IF i < k THEN list[i] ELSE IF i = k THEN t ELSE list[i - 1]
      BY <3>1, InsertAtElements
    <3> QED
      BY <2>2, <3>2 DEF len
  <2>8. PutAt(more, list, t, timeout, k)
    BY <2>2, <2>4, <2>5, <2>6, <2>7 DEF PutAt, len
  <2> QED
    BY <2>6, <2>8 DEF len, more
<1> QED
  BY <1>2, <1>3

LEMMA InsertedRange ==
  ASSUME NEW list \in Seq(Timers), IsInjective(list), NEW t \in Timers, t \notin Range(list),
         NEW timeout
  PROVE  /\ Inserted(list, t, timeout) \in Seq(Timers)
         /\ IsInjective(Inserted(list, t, timeout))
         /\ Range(Inserted(list, t, timeout)) = Range(list) \cup {t}
<1>1. \/ Inserted(list, t, timeout) = Append(list, t)
      \/ \E k \in 1..(Len(list) + 1) : Inserted(list, t, timeout) = InsertAt(list, k, t)
  BY InsertedElements DEF PutAt
<1>2. CASE Inserted(list, t, timeout) = Append(list, t)
  BY <1>2, RangeAppend
<1>3. ASSUME NEW k \in 1..(Len(list) + 1), Inserted(list, t, timeout) = InsertAt(list, k, t)
      PROVE  /\ Inserted(list, t, timeout) \in Seq(Timers)
             /\ IsInjective(Inserted(list, t, timeout))
             /\ Range(Inserted(list, t, timeout)) = Range(list) \cup {t}
  BY <1>3, InsertAtRange
<1> QED
  BY <1>1, <1>2, <1>3

LEMMA InsertedOrder ==
  ASSUME MaxLate < Half, rt_tick \in 0..TickMax, timeout_tick \in [Timers -> 0..TickMax],
         NEW list \in Seq(Timers), Ordered(list, timeout_tick),
         \A x \in Range(list) : Soon(timeout_tick[x]),
         NEW t \in Timers, t \notin Range(list), NEW timeout \in 0..TickMax, Soon(timeout)
  PROVE  Ordered(Inserted(list, t, timeout), [timeout_tick EXCEPT ![t] = timeout])
<1> DEFINE len == Len(list)
           more == Inserted(list, t, timeout)
           tt == [timeout_tick EXCEPT ![t] = timeout]
           At(i) == timeout_tick[list[i]]
<1>1. len \in Nat /\ \A i \in 1..len : list[i] \in Timers /\ list[i] \in Range(list)
  BY ElementOfSeq DEF Range
<1>2. \A i \in 1..len : tt[list[i]] = At(i) /\ At(i) \in 0..TickMax /\ Soon(At(i))
  BY <1>1
<1>3. tt[t] = timeout
  OBVIOUS
<1>4. \A i, j \in 1..len : i < j => NotBefore(At(j), At(i))
  BY DEF Ordered
<1>5. PICK k \in 1..(len + 1) :
        /\ k = len + 1 => more = Append(list, t)
        /\ k # len + 1 => more = InsertAt(list, k, t) /\ Later(list[k], timeout)
        /\ \A i \in 1..(k - 1) : ~Later(list[i], timeout)
        /\ Len(more) = len + 1
        /\ \A i \in 1..(len + 1) : more[i] = IF i < k THEN list[i] ELSE IF i = k THEN t ELSE list[i - 1]
  <2> HIDE DEF more
  <2>1. PICK k \in 1..(len + 1) : PutAt(more, list, t, timeout, k)
    BY InsertedElements DEF more
  <2> QED
    BY <2>1 DEF PutAt
<1>6. \A x, y \in 0..TickMax : Soon(x) /\ Soon(y) =>
        /\ Offset(x) \in Nat /\ Offset(y) \in Nat
        /\ NotBefore(x, y) <=> Offset(y) <= Offset(x)
        /\ Offset(x) = Offset(y) => x = y
  BY SoonOrdered
<1> HIDE DEF len, more, tt
<1>7. ASSUME NEW i \in 1..len, i < k PROVE NotBefore(timeout, At(i))
  <2>1. i \in 1..(k - 1)
    BY <1>1, <1>7
  <2>2. At(i) = timeout \/ ~NotBefore(At(i), timeout)
    BY <1>5, <2>1 DEF Later
  <2> QED
    BY <1>2, <1>6, <2>2
<1>8. ASSUME NEW i \in 1..len, k <= i PROVE NotBefore(At(i), timeout)
  <2>1. k \in 1..len /\ NotBefore(At(k), timeout)
    BY <1>1, <1>5, <1>8 DEF Later
  <2>2. k = i \/ k < i
    BY <1>1, <1>8
  <2>3. k = i \/ NotBefore(At(i), At(k))
    BY <1>4, <2>1, <2>2
  <2> QED
    BY <1>2, <1>6, <2>1, <2>3
<1> SUFFICES ASSUME NEW i \in 1..(len + 1), NEW j \in 1..(len + 1), i < j
             PROVE  NotBefore(tt[more[j]], tt[more[i]])
  BY <1>5 DEF Ordered, more, tt
<1>9. CASE j < k
  <2>1. i \in 1..len /\ j \in 1..len /\ more[i] = list[i] /\ more[j] = list[j]
    BY <1>1, <1>5, <1>9
  <2> QED
    BY <1>2, <1>4, <2>1
<1>10. CASE j = k
  <2>1. i \in 1..len /\ i < k /\ more[i] = list[i] /\ more[j] = t
    BY <1>1, <1>5, <1>10
  <2> QED
    BY <1>2, <1>3, <1>7, <2>1
<1>11. CASE j > k /\ i = k
  <2>1. j - 1 \in 1..len /\ k <= j - 1 /\ more[j] = list[j - 1] /\ more[i] = t
    BY <1>1, <1>5, <1>11
  <2> QED
    BY <1>2, <1>3, <1>8, <2>1
<1>12. CASE j > k /\ i < k
  <2>1. i \in 1..len /\ j - 1 \in 1..len /\ i < j - 1 /\ more[j] = list[j - 1] /\ more[i] = list[i]
    BY <1>1, <1>5, <1>12
  <2> QED
    BY <1>2, <1>4, <2>1
<1>13. CASE i > k
  <2>1. /\ i - 1 \in 1..len /\ j - 1 \in 1..len /\ i - 1 < j - 1
        /\ more[j] = list[j - 1] /\ more[i] = list[i - 1]
    BY <1>1, <1>5, <1>13
  <2> QED
    BY <1>2, <1>4, <2>1
<1> QED
  BY <1>1, <1>9, <1>10, <1>11, <1>12, <1>13
-------------------------------------------------------------------------------
(* The inductive invariant.  What rt_timer_start does in two critical      *)
(* sections leaves a timer unlinked with its deadline set: such a deadline *)
(* must stay comparable until the timer is linked, as those in the list.   *)
(* The order is kept only if one thread starts each timer: another would   *)
(* link it before the first sets its deadline.                             *)

Linked == Range(rt_soft_timer_list)

Linking(t) == \E c \in Threads : call[c].in = "start" /\ call[c].timer = t

TimerTypes ==
  /\ TypeOK
  /\ \A c \in Threads : IF call[c].in = "none" THEN call[c] = Idle ELSE call[c].timer \in Timers
  /\ call[TimerThread].in \in {"none", "unlinked", "start"}
  /\ t_fired # NoTimer <=> pc \in {"callback", "returning"}
  /\ IsInjective(rt_soft_timer_list)

InWindow == \A t \in Timers : t \in Linked \/ Linking(t) => Soon(timeout_tick[t])

InOrder == InWindow /\ SortedByTimeout

TimerInv == TimerTypes /\ ActiveIsListed /\ (OneStarter => InOrder)

LEMMA ListedIs ==
  ASSUME TypeOK, NEW t
  PROVE  Listed(t) <=> t \in Linked
<1>1. DOMAIN rt_soft_timer_list = 1..Len(rt_soft_timer_list)
  BY DEF TypeOK
<1> QED
  BY <1>1 DEF Listed, Contains, Linked, Range

LEMMA LinkedIs == ASSUME TypeOK PROVE Linked \subseteq Timers
<1>1. \A i \in DOMAIN rt_soft_timer_list : rt_soft_timer_list[i] \in Timers
  BY DEF TypeOK
<1> QED
  BY <1>1 DEF Linked, Range

LEMMA SoonSame ==
  ASSUME UNCHANGED rt_tick
  PROVE  \A x : Soon(x)' <=> Soon(x)
BY DEF Soon, Offset, Minus

LEMMA OrderedSame ==
  ASSUME NEW list \in Seq(Timers), NEW tt, NEW uu, \A x \in Range(list) : uu[x] = tt[x],
         Ordered(list, tt)
  PROVE  Ordered(list, uu)
<1>1. \A i \in 1..Len(list) : list[i] \in Range(list)
  BY DEF Range
<1> QED
  BY <1>1 DEF Ordered

LEMMA TimerInvInit == Init => TimerInv
<1> SUFFICES ASSUME Init PROVE TimerInv
  OBVIOUS
<1>1. /\ rt_soft_timer_list = << >> /\ call = [c \in Threads |-> Idle] /\ pc = "next"
      /\ t_fired = NoTimer /\ activated = [t \in Timers |-> FALSE]
  BY DEF Init
<1>2. 0 \in 0..TickMax
  BY HalfIs
<1>3. Idle \in [in : {"none", "unlinked", "start", "resume", "stop", "stopped"}, timer : Timers \cup {NoTimer}]
  BY DEF Idle
<1>4. TypeOK
  <2>1. {rt_tick, wake, next_timeout, current_tick} \subseteq 0..TickMax
    BY <1>2 DEF Init
  <2>2. timeout_tick \in [Timers -> 0..TickMax]
    BY <1>2 DEF Init
  <2>3. call \in [Threads -> [in : {"none", "unlinked", "start", "resume", "stop", "stopped"},
                              timer : Timers \cup {NoTimer}]]
    BY <1>1, <1>3
  <2>4. rt_soft_timer_list \in Seq(Timers)
    BY <1>1
  <2>5. activated \in [Timers -> BOOLEAN] /\ stopped \in [Timers -> BOOLEAN] /\ linked_twice \in BOOLEAN
    BY DEF Init
  <2>6. /\ stat \in {"ready", "suspended", "delayed"} /\ (stat # "delayed" => wake = 0)
        /\ pc \in {"next", "suspend", "delay", "check", "loop", "callback", "returning"}
        /\ n \in Timers \cup {NoTimer} /\ t_fired \in Timers \cup {NoTimer}
    BY DEF Init
  <2> QED
    BY <2>1, <2>2, <2>3, <2>4, <2>5, <2>6 DEF TypeOK
<1>5. \A c \in Threads : call[c] = Idle /\ call[c].in = "none"
  BY <1>1 DEF Idle
<1>6. Linked = {} /\ IsInjective(rt_soft_timer_list)
  BY <1>1 DEF Linked, Range, IsInjective
<1>7. TimerTypes
  <2>1. TimerThread \in Threads
    BY DEF Threads
  <2>2. call[TimerThread].in \in {"none", "unlinked", "start"}
    BY <1>5, <2>1
  <2>3. \A c \in Threads : IF call[c].in = "none" THEN call[c] = Idle ELSE call[c].timer \in Timers
    BY <1>5
  <2>4. t_fired # NoTimer <=> pc \in {"callback", "returning"}
    BY <1>1
  <2> QED
    BY <1>4, <1>6, <2>2, <2>3, <2>4 DEF TimerTypes
<1>8. InWindow
  BY <1>5, <1>6 DEF InWindow, Linking
<1>9. SortedByTimeout /\ ActiveIsListed
  BY <1>1 DEF SortedByTimeout, ActiveIsListed
<1> QED
  BY <1>7, <1>8, <1>9 DEF TimerInv, InOrder

(* rt_timer_start and rt_timer_stop by a thread c: what the steps do to    *)
(* calls.                                                                  *)
LEMMA CallChanges ==
  ASSUME TimerTypes, NEW c \in Threads, NEW where \in {"none", "unlinked", "start", "resume", "stop", "stopped"},
         NEW t, where = "none" => t = NoTimer, where # "none" => t \in Timers,
         c = TimerThread => where \in {"none", "unlinked", "start"},
         call' = [call EXCEPT ![c] = [in |-> where, timer |-> t]]
  PROVE  /\ call' \in [Threads -> [in : {"none", "unlinked", "start", "resume", "stop", "stopped"},
                                   timer : Timers \cup {NoTimer}]]
         /\ call'[c].in = where /\ call'[c].timer = t
         /\ \A d \in Threads : d # c => call'[d] = call[d]
         /\ \A d \in Threads : IF call'[d].in = "none" THEN call'[d] = Idle
                               ELSE call'[d].timer \in Timers
         /\ call'[TimerThread].in \in {"none", "unlinked", "start"}
<1>1. call \in [Threads -> [in : {"none", "unlinked", "start", "resume", "stop", "stopped"},
                            timer : Timers \cup {NoTimer}]]
  BY DEF TimerTypes, TypeOK
<1>2. [in |-> where, timer |-> t] \in [in : {"none", "unlinked", "start", "resume", "stop", "stopped"},
                                       timer : Timers \cup {NoTimer}]
  OBVIOUS
<1>3. \A d \in Threads : call'[d] = IF d = c THEN [in |-> where, timer |-> t] ELSE call[d]
  BY <1>1
<1>4. \A d \in Threads : IF call[d].in = "none" THEN call[d] = Idle ELSE call[d].timer \in Timers
  BY DEF TimerTypes
<1>5. TimerThread \in Threads /\ call[TimerThread].in \in {"none", "unlinked", "start"}
  BY DEF Threads, TimerTypes
<1> QED
  BY <1>1, <1>2, <1>3, <1>4, <1>5 DEF Idle
ListTypes ==
  /\ rt_soft_timer_list \in Seq(Timers)
  /\ timeout_tick \in [Timers -> 0..TickMax]
  /\ activated \in [Timers -> BOOLEAN] /\ stopped \in [Timers -> BOOLEAN]
  /\ linked_twice \in BOOLEAN

CheckTypes ==
  /\ rt_tick \in 0..TickMax /\ wake \in 0..TickMax
  /\ next_timeout \in 0..TickMax /\ current_tick \in 0..TickMax
  /\ stat \in {"ready", "suspended", "delayed"} /\ (stat # "delayed" => wake = 0)
  /\ pc \in {"next", "suspend", "delay", "check", "loop", "callback", "returning"}
  /\ n \in Timers \cup {NoTimer} /\ t_fired \in Timers \cup {NoTimer}

CallTypes ==
  /\ call \in [Threads -> [in : {"none", "unlinked", "start", "resume", "stop", "stopped"},
                           timer : Timers \cup {NoTimer}]]
  /\ \A c \in Threads : IF call[c].in = "none" THEN call[c] = Idle ELSE call[c].timer \in Timers
  /\ call[TimerThread].in \in {"none", "unlinked", "start"}

Fired == t_fired # NoTimer <=> pc \in {"callback", "returning"}

LEMMA TypesAre ==
  TimerTypes <=> ListTypes /\ CheckTypes /\ CallTypes /\ Fired /\ IsInjective(rt_soft_timer_list)
BY DEF TimerTypes, TypeOK, ListTypes, CheckTypes, CallTypes, Fired

LEMMA TypesAreNext ==
  TimerTypes' <=> ListTypes' /\ CheckTypes' /\ CallTypes' /\ Fired' /\ IsInjective(rt_soft_timer_list)'
BY DEF TimerTypes, TypeOK, ListTypes, CheckTypes, CallTypes, Fired

LEMMA ListedNext ==
  ASSUME ListTypes', NEW CONSTANT t
  PROVE  Listed(t)' <=> t \in Linked'
<1>1. DOMAIN rt_soft_timer_list' = 1..Len(rt_soft_timer_list')
  BY DEF ListTypes
<1> QED
  BY <1>1 DEF Listed, Contains, Linked, Range

(* Steps of the timer thread that neither call nor link.                   *)
LEMMA QuietKeeps ==
  ASSUME TimerInv, UNCHANGED <<rt_tick, listVars, call, stopped, t_fired>>, CheckTypes', Fired'
  PROVE  TimerInv'
<1>1. UNCHANGED <<rt_tick, rt_soft_timer_list, timeout_tick, activated, linked_twice, call, stopped,
                  t_fired>>
  BY DEF listVars
<1>2. ListTypes' /\ CallTypes' /\ IsInjective(rt_soft_timer_list)'
  BY <1>1, TypesAre DEF TimerInv, ListTypes, CallTypes
<1>3. InWindow => InWindow'
  BY <1>1, SoonSame DEF InWindow, Linked, Linking
<1>4. SortedByTimeout => SortedByTimeout'
  BY <1>1 DEF SortedByTimeout
<1>5. ActiveIsListed'
  BY <1>1 DEF TimerInv, ActiveIsListed, Listed, In
<1> QED
  BY <1>2, <1>3, <1>4, <1>5, TypesAreNext DEF TimerInv, InOrder

LEMMA QuietStep ==
  ASSUME TimerInv, NextTimeout \/ SuspendSelf \/ Delay \/ Check \/ CheckEnds
  PROVE  TimerInv'
<1>1. CheckTypes /\ Fired /\ ListTypes
  BY TypesAre DEF TimerInv
<1>2. 0 \in 0..TickMax /\ TickMax \in 0..TickMax
  BY HalfIs
<1>3. First \in Timers \cup {NoTimer} /\ (rt_soft_timer_list # << >> => First \in Timers)
  <2>1. CASE rt_soft_timer_list = << >>
    BY <2>1 DEF First
  <2>2. CASE rt_soft_timer_list # << >>
    <3>1. rt_soft_timer_list[1] \in Timers
      BY <1>1, <2>2, EmptySeq, ElementOfSeq DEF ListTypes
    <3> QED
      BY <2>2, <3>1 DEF First
  <2> QED
    BY <2>1, <2>2
<1>4. UNCHANGED <<rt_tick, listVars, call, stopped, t_fired>>
  BY DEF NextTimeout, SuspendSelf, Delay, Check, CheckEnds
<1> HIDE DEF TickMax
<1>5. CASE NextTimeout
  <2>1. next_timeout' \in 0..TickMax
    BY <1>1, <1>2, <1>3, <1>5 DEF NextTimeout, ListTypes
  <2>2. UNCHANGED <<rt_tick, wake, current_tick, stat, n, t_fired>> /\ pc = "next"
        /\ pc' \in {"suspend", "delay"}
    BY <1>5 DEF NextTimeout, threadVars
  <2>3. CheckTypes' /\ Fired'
    BY <1>1, <2>1, <2>2 DEF CheckTypes, Fired
  <2> QED
    BY <1>4, <2>3, QuietKeeps
<1>6. CASE SuspendSelf
  <2>1. CheckTypes' /\ Fired'
    BY <1>1, <1>2, <1>6 DEF SuspendSelf, TimerThreadRuns, CheckTypes, Fired
  <2> QED
    BY <1>4, <2>1, QuietKeeps
<1>7. CASE Delay
  <2>1. CheckTypes' /\ Fired'
    BY <1>1, <1>2, <1>7 DEF Delay, threadVars, CheckTypes, Fired
  <2> QED
    BY <1>4, <2>1, QuietKeeps
<1>8. CASE Check
  <2>1. CheckTypes' /\ Fired'
    BY <1>1, <1>3, <1>8 DEF Check, threadVars, CheckTypes, Fired
  <2> QED
    BY <1>4, <2>1, QuietKeeps
<1>9. CASE CheckEnds
  <2>1. CheckTypes' /\ Fired'
    BY <1>1, <1>2, <1>9 DEF CheckEnds, threadVars, CheckTypes, Fired
  <2> QED
    BY <1>4, <2>1, QuietKeeps
<1> QED
  BY <1>5, <1>6, <1>7, <1>8, <1>9

(* Time.                                                                   *)
LEMMA TickStep ==
  ASSUME TimerInv, Tick
  PROVE  TimerInv'
<1>1. /\ UNCHANGED <<rt_soft_timer_list, timeout_tick, activated, linked_twice, call, stopped,
                     pc, next_timeout, current_tick, n, t_fired>>
      /\ rt_tick' = (rt_tick + 1) % Ticks
  BY DEF Tick, listVars, checkVars
<1>2. CheckTypes /\ Fired /\ ListTypes /\ CallTypes
  BY TypesAre DEF TimerInv
<1>3. rt_tick' \in 0..TickMax /\ 0 \in 0..TickMax
  <2>1. Ticks \in Nat \ {0} /\ TickMax = Ticks - 1 /\ rt_tick \in 0..TickMax
    BY <1>2, HalfIs DEF CheckTypes
  <2> HIDE DEF TickMax
  <2> QED
    BY <1>1, <2>1
<1>4. CheckTypes'
  <2> HIDE DEF TickMax
  <2> QED
    BY <1>1, <1>2, <1>3 DEF Tick, threadVars, CheckTypes
<1>5. Fired' /\ ListTypes' /\ CallTypes' /\ IsInjective(rt_soft_timer_list)'
  BY <1>1, <1>2, TypesAre DEF TimerInv, Fired, ListTypes, CallTypes
<1>6. InWindow => InWindow'
  <2> SUFFICES ASSUME InWindow, NEW t \in Timers, t \in Linked' \/ Linking(t)'
               PROVE  Soon(timeout_tick[t])'
    BY DEF InWindow
  <2>1. t \in Linked \/ Linking(t)
    BY <1>1 DEF Linked, Linking
  <2>2. timeout_tick[t] \in Deadlines
    <3>1. t \in Linked => t \in ToSet(rt_soft_timer_list)
      BY DEF Linked, Range, ToSet
    <3>2. Linking(t) => t \in {call[c].timer : c \in {x \in Threads : call[x].in = "start"}}
      BY DEF Linking
    <3> QED
      BY <2>1, <3>1, <3>2 DEF Deadlines
  <2>3. ~Late(timeout_tick[t])
    BY <2>2 DEF Tick
  <2>4. Soon(timeout_tick[t])
    BY <2>1 DEF InWindow
  <2>5. timeout_tick[t] \in 0..TickMax /\ rt_tick \in 0..TickMax
    BY <1>2 DEF ListTypes, CheckTypes
  <2>6. MaxLate < Half
    BY <2>5, StartSoon
  <2>7. PICK x \in 0..TickMax : x = timeout_tick[t]
    BY <2>5
  <2>8. Soon(x)'
    BY <1>1, <2>3, <2>4, <2>5, <2>6, <2>7, SoonKept
  <2> QED
    BY <1>1, <2>7, <2>8 DEF Soon, Offset
<1>7. SortedByTimeout => SortedByTimeout'
  BY <1>1 DEF SortedByTimeout
<1>8. ActiveIsListed'
  BY <1>1 DEF TimerInv, ActiveIsListed, Listed, In
<1> QED
  BY <1>4, <1>5, <1>6, <1>7, <1>8, TypesAreNext DEF TimerInv, InOrder

(* The two halves of rt_timer_start, and what it does in between.          *)
LEMMA WithoutIs ==
  ASSUME TimerInv, NEW t
  PROVE  /\ Without(t) \in Seq(Timers) /\ IsInjective(Without(t))
         /\ Range(Without(t)) = Linked \ {t}
         /\ SortedByTimeout => Ordered(Without(t), timeout_tick)
<1>1. rt_soft_timer_list \in Seq(Timers) /\ IsInjective(rt_soft_timer_list)
  BY TypesAre DEF TimerInv, ListTypes
<1>2. SortedByTimeout => Ordered(rt_soft_timer_list, timeout_tick)
  BY DEF SortedByTimeout, Ordered
<1> QED
  BY <1>1, <1>2, RemoveFirstRange, RemovedOrder DEF Without, Linked

LEMMA UnlinksStep ==
  ASSUME TimerInv, NEW c \in Threads, NEW t \in Timers, call[c] = Idle, StartUnlinks(c, t),
         UNCHANGED checkVars
  PROVE  TimerInv'
<1>1. /\ rt_soft_timer_list' = Without(t)
      /\ activated' = [activated EXCEPT ![t] = FALSE]
      /\ stopped' = [stopped EXCEPT ![t] = FALSE]
      /\ call' = [call EXCEPT ![c] = [in |-> "unlinked", timer |-> t]]
      /\ UNCHANGED <<rt_tick, timeout_tick, linked_twice, stat, wake, pc, next_timeout,
                     current_tick, n, t_fired>>
  BY DEF StartUnlinks, threadVars, checkVars
<1>2. CheckTypes /\ Fired /\ ListTypes /\ CallTypes /\ TimerTypes
  BY TypesAre DEF TimerInv
<1>3. /\ Without(t) \in Seq(Timers) /\ IsInjective(Without(t)) /\ Range(Without(t)) = Linked \ {t}
      /\ SortedByTimeout => Ordered(Without(t), timeout_tick)
  BY WithoutIs
<1>4. /\ CallTypes' /\ call'[c].in = "unlinked" /\ call'[c].timer = t
      /\ \A d \in Threads : d # c => call'[d] = call[d]
  BY <1>1, <1>2, CallChanges DEF CallTypes
<1>5. ListTypes' /\ IsInjective(rt_soft_timer_list')
  BY <1>1, <1>2, <1>3 DEF ListTypes
<1>6. CheckTypes' /\ Fired'
  BY <1>1, <1>2 DEF CheckTypes, Fired
<1>7. Linked' = Linked \ {t}
  BY <1>1, <1>3 DEF Linked
<1>8. InWindow => InWindow'
  BY <1>1, <1>4, <1>7 DEF InWindow, Linking, Soon, Offset
<1>9. SortedByTimeout => SortedByTimeout'
  BY <1>1, <1>3 DEF Ordered, SortedByTimeout
<1>10. ActiveIsListed'
  <2> SUFFICES ASSUME NEW u \in Timers, activated'[u]
               PROVE  Listed(u)' \/ u = t_fired' \/ In(u, {"stopped"})'
    BY DEF ActiveIsListed
  <2>1. u # t /\ activated[u]
    BY <1>1, <1>2 DEF ListTypes
  <2>2. CASE Listed(u)
    <3>1. u \in Linked'
      BY <1>2, <1>7, <2>1, <2>2, ListedIs DEF TimerTypes
    <3> QED
      BY <1>5, <3>1, ListedNext
  <2>3. CASE u = t_fired
    BY <1>1, <2>3
  <2>4. CASE In(u, {"stopped"})
    <3>1. PICK d \in Threads : call[d].timer = u /\ call[d].in = "stopped"
      BY <2>4 DEF In
    <3>2. d # c
      BY <3>1 DEF Idle
    <3> QED
      BY <1>4, <3>1, <3>2 DEF In
  <2> QED
    BY <2>1, <2>2, <2>3, <2>4 DEF TimerInv, ActiveIsListed
<1> QED
  BY <1>4, <1>5, <1>6, <1>8, <1>9, <1>10, TypesAreNext DEF TimerInv, InOrder

(* The deadline is set of a timer that nobody linked meanwhile.            *)
LEMMA ReadsStep ==
  ASSUME TimerInv, NEW c \in Threads, call[c].in = "unlinked", StartReads(c, call[c].timer),
         UNCHANGED checkVars, OneStarter => call[c].timer \notin Linked
  PROVE  TimerInv'
<1> DEFINE t == call[c].timer
           x == (rt_tick + InitTick[t]) % Ticks
<1>1. /\ timeout_tick' = [timeout_tick EXCEPT ![t] = x]
      /\ call' = [call EXCEPT ![c] = [in |-> "start", timer |-> t]]
      /\ UNCHANGED <<rt_tick, rt_soft_timer_list, activated, stopped, linked_twice, stat, wake,
                     pc, next_timeout, current_tick, n, t_fired>>
  BY DEF StartReads, threadVars, checkVars
<1>2. CheckTypes /\ Fired /\ ListTypes /\ CallTypes /\ TimerTypes /\ TypeOK
  BY TypesAre DEF TimerInv, TimerTypes
<1>3. t \in Timers
  BY <1>2 DEF CallTypes
<1>4. OneStarter => t \notin Linked
  OBVIOUS
<1>5. t = call[c].timer
  OBVIOUS
<1> HIDE DEF t
<1>6. x \in 0..TickMax /\ Soon(x)
  BY <1>2, <1>3, StartSoon DEF CheckTypes
<1> HIDE DEF x
<1>7. /\ CallTypes' /\ call'[c].in = "start" /\ call'[c].timer = t
      /\ \A d \in Threads : d # c => call'[d] = call[d]
  BY <1>1, <1>2, <1>3, CallChanges DEF CallTypes
<1>8. ListTypes' /\ IsInjective(rt_soft_timer_list)'
  BY <1>1, <1>2, <1>6 DEF ListTypes, TimerTypes
<1>9. CheckTypes' /\ Fired'
  BY <1>1, <1>2 DEF CheckTypes, Fired
<1>10. /\ timeout_tick'[t] = x
       /\ \A u \in Timers : u # t => timeout_tick'[u] = timeout_tick[u]
  BY <1>1, <1>2, <1>3 DEF ListTypes
<1>11. InWindow => InWindow'
  <2> SUFFICES ASSUME InWindow, NEW u \in Timers, u \in Linked' \/ Linking(u)'
               PROVE  Soon(timeout_tick[u])'
    BY DEF InWindow
  <2>1. CASE u = t
    BY <1>1, <1>6, <1>10, <2>1 DEF Soon, Offset
  <2>2. CASE u # t
    <3>1. u \in Linked \/ Linking(u)
      BY <1>1, <1>7, <2>2 DEF Linking, Linked
    <3>2. Soon(timeout_tick[u])
      BY <3>1 DEF InWindow
    <3> QED
      BY <1>1, <1>10, <2>2, <3>2 DEF Soon, Offset
  <2> QED
    BY <2>1, <2>2
<1>12. t \notin Linked /\ SortedByTimeout => SortedByTimeout'
  <2> SUFFICES ASSUME t \notin Linked, SortedByTimeout PROVE SortedByTimeout'
    OBVIOUS
  <2>1. \A u \in Range(rt_soft_timer_list) : timeout_tick'[u] = timeout_tick[u]
    BY <1>2, <1>10, LinkedIs DEF Linked
  <2>2. Ordered(rt_soft_timer_list, timeout_tick) /\ rt_soft_timer_list \in Seq(Timers)
    BY <1>2 DEF Ordered, SortedByTimeout, ListTypes
  <2>3. Ordered(rt_soft_timer_list, timeout_tick')
    BY <2>1, <2>2, OrderedSame
  <2> QED
    BY <1>1, <2>3 DEF Ordered, SortedByTimeout
<1>13. ActiveIsListed'
  <2> SUFFICES ASSUME NEW u \in Timers, activated'[u]
               PROVE  Listed(u)' \/ u = t_fired' \/ In(u, {"stopped"})'
    BY DEF ActiveIsListed
  <2>1. Listed(u) \/ u = t_fired \/ In(u, {"stopped"})
    BY <1>1 DEF TimerInv, ActiveIsListed
  <2>2. In(u, {"stopped"}) => In(u, {"stopped"})'
    BY <1>7 DEF In
  <2> QED
    BY <1>1, <2>1, <2>2 DEF Listed
<1> QED
  BY <1>4, <1>7, <1>8, <1>9, <1>11, <1>12, <1>13, TypesAreNext DEF TimerInv, InOrder

LEMMA LinksStep ==
  ASSUME TimerInv, NEW c \in Threads, call[c].in = "start", StartLinks(c, call[c].timer),
         CheckTypes', Fired', UNCHANGED t_fired
  PROVE  TimerInv'
<1> DEFINE t == call[c].timer
           list == rt_soft_timer_list
           after == IF c = TimerThread THEN Idle ELSE [in |-> "resume", timer |-> t]
<1>1. /\ activated' = [activated EXCEPT ![t] = TRUE]
      /\ call' = [call EXCEPT ![c] = after]
      /\ UNCHANGED <<rt_tick, timeout_tick, stopped>>
      /\ \/ Contains(list, t) /\ linked_twice' = TRUE /\ UNCHANGED rt_soft_timer_list
         \/ /\ ~Contains(list, t) /\ UNCHANGED linked_twice
            /\ rt_soft_timer_list' = Inserted(list, t, timeout_tick[t])
  BY DEF StartLinks
<1>2. CheckTypes /\ Fired /\ ListTypes /\ CallTypes /\ TimerTypes /\ TypeOK
  BY TypesAre DEF TimerInv, TimerTypes
<1>3. t \in Timers
  BY <1>2 DEF CallTypes
<1>4. Linking(t)
  BY DEF Linking
<1> HIDE DEF t
<1>5. /\ timeout_tick[t] \in 0..TickMax
      /\ InWindow => Soon(timeout_tick[t])
  BY <1>2, <1>3, <1>4 DEF InWindow, ListTypes
<1>6. /\ CallTypes' /\ call'[c].in \in {"none", "resume"}
      /\ \A d \in Threads : d # c => call'[d] = call[d]
  <2>1. CASE c = TimerThread
    BY <1>1, <1>2, <2>1, CallChanges DEF CallTypes, Idle
  <2>2. CASE c # TimerThread
    BY <1>1, <1>2, <1>3, <2>2, CallChanges DEF CallTypes
  <2> QED
    BY <2>1, <2>2
<1>7. Contains(list, t) <=> t \in Linked
  BY <1>2, ListedIs DEF Listed
<1>8. rt_soft_timer_list \in Seq(Timers) /\ IsInjective(rt_soft_timer_list)
  BY <1>2 DEF ListTypes, TimerTypes
<1>9. /\ rt_soft_timer_list' \in Seq(Timers) /\ IsInjective(rt_soft_timer_list')
      /\ Linked' = Linked \cup {t}
  <2>1. CASE Contains(list, t)
    BY <1>1, <1>7, <1>8, <2>1 DEF Linked
  <2>2. CASE ~Contains(list, t)
    BY <1>1, <1>3, <1>7, <1>8, <2>2, InsertedRange DEF Linked
  <2> QED
    BY <2>1, <2>2
<1>10. ListTypes'
  BY <1>1, <1>2, <1>9 DEF ListTypes
<1>11. InWindow => InWindow'
  <2> SUFFICES ASSUME InWindow, NEW u \in Timers, u \in Linked' \/ Linking(u)'
               PROVE  Soon(timeout_tick[u])'
    BY DEF InWindow
  <2>1. u \in Linked \/ Linking(u)
    BY <1>4, <1>6, <1>9 DEF Linking
  <2>2. Soon(timeout_tick[u])
    BY <2>1 DEF InWindow
  <2> QED
    BY <1>1, <2>2 DEF Soon, Offset
<1>12. InOrder => SortedByTimeout'
  <2> SUFFICES ASSUME InOrder PROVE SortedByTimeout'
    OBVIOUS
  <2>1. Ordered(rt_soft_timer_list, timeout_tick)
    BY DEF InOrder, SortedByTimeout, Ordered
  <2>2. Ordered(rt_soft_timer_list', timeout_tick)
    <3>1. CASE Contains(list, t)
      BY <1>1, <2>1, <3>1
    <3>2. CASE ~Contains(list, t)
      <4>1. rt_tick \in 0..TickMax /\ timeout_tick \in [Timers -> 0..TickMax]
        BY <1>2 DEF CheckTypes, ListTypes
      <4>2. MaxLate < Half
        BY <1>3, <4>1, StartSoon
      <4>3. \A u \in Range(rt_soft_timer_list) : Soon(timeout_tick[u])
        BY <1>2, LinkedIs DEF InOrder, InWindow, Linked
      <4>4. t \notin Range(rt_soft_timer_list)
        BY <1>7, <3>2 DEF Linked
      <4>5. Ordered(Inserted(rt_soft_timer_list, t, timeout_tick[t]),
                    [timeout_tick EXCEPT ![t] = timeout_tick[t]])
        BY <1>3, <1>5, <1>8, <2>1, <4>1, <4>2, <4>3, <4>4, InsertedOrder DEF InOrder
      <4>6. [timeout_tick EXCEPT ![t] = timeout_tick[t]] = timeout_tick
        BY <1>3, <4>1
      <4> QED
        BY <1>1, <3>2, <4>5, <4>6
    <3> QED
      BY <3>1, <3>2
  <2> QED
    BY <1>1, <2>2 DEF Ordered, SortedByTimeout
<1>13. ActiveIsListed'
  <2> SUFFICES ASSUME NEW u \in Timers, activated'[u]
               PROVE  Listed(u)' \/ u = t_fired' \/ In(u, {"stopped"})'
    BY DEF ActiveIsListed
  <2>1. CASE u \in Linked \cup {t}
    BY <1>9, <1>10, <2>1, ListedNext
  <2>2. CASE u \notin Linked \cup {t}
    <3>1. activated[u] /\ ~Listed(u)
      BY <1>1, <1>2, <2>2, ListedIs DEF ListTypes
    <3>2. CASE In(u, {"stopped"})
      <4>1. PICK d \in Threads : call[d].timer = u /\ call[d].in = "stopped"
        BY <3>2 DEF In
      <4> QED
        BY <1>6, <4>1 DEF In
    <3> QED
      BY <3>1, <3>2 DEF TimerInv, ActiveIsListed
  <2> QED
    BY <2>1, <2>2
<1> QED
  BY <1>6, <1>9, <1>10, <1>11, <1>12, <1>13, TypesAreNext DEF TimerInv, InOrder

(* The rest of a caller's steps, which link nothing.                       *)
LEMMA CallerStep ==
  ASSUME TimerInv, NEW c \in Callers,
         StartResumes(c) \/ (\E t \in Timers : CallStop(c, t)) \/ StopUnlinks(c) \/ StopClears(c)
  PROVE  TimerInv'
<1>1. CheckTypes /\ Fired /\ ListTypes /\ CallTypes /\ TimerTypes /\ TypeOK
  BY TypesAre DEF TimerInv, TimerTypes
<1>2. c \in Threads /\ c # TimerThread
  BY TimersAssumption DEF Threads
<1>3. UNCHANGED <<rt_tick, timeout_tick, linked_twice, pc, next_timeout, current_tick, n, t_fired>>
  BY DEF StartResumes, CallStop, StopUnlinks, StopClears, listVars, checkVars
<1>4. 0 \in 0..TickMax
  BY HalfIs
<1>5. CheckTypes' /\ Fired'
  <2>1. \/ stat' = "ready" /\ wake' = 0
        \/ UNCHANGED <<stat, wake>>
    BY DEF StartResumes, CallStop, StopUnlinks, StopClears, threadVars
  <2> HIDE DEF TickMax
  <2> QED
    BY <1>1, <1>3, <1>4, <2>1 DEF CheckTypes, Fired
<1>6. PICK where \in {"none", "stop", "stopped"}, t \in Timers \cup {NoTimer} :
        /\ where # "none" => t \in Timers
        /\ call' = [call EXCEPT ![c] = [in |-> where, timer |-> t]]
        /\ where = "none" => t = NoTimer
        /\ where = "stopped" => t = call[c].timer
  <2>1. CASE StartResumes(c) \/ StopClears(c)
    BY <2>1 DEF StartResumes, StopClears, Idle
  <2>2. CASE \E t \in Timers : CallStop(c, t)
    BY <2>2 DEF CallStop
  <2>3. CASE StopUnlinks(c)
    <3>1. call' = [call EXCEPT ![c].in = "stopped"] /\ call[c].in = "stop"
      BY <2>3 DEF StopUnlinks
    <3>2. call[c].timer \in Timers
      BY <1>1, <1>2, <3>1 DEF CallTypes
    <3>3. [call[c] EXCEPT !.in = "stopped"] = [in |-> "stopped", timer |-> call[c].timer]
      BY <1>1, <1>2 DEF CallTypes
    <3> QED
      BY <3>1, <3>2, <3>3
  <2> QED
    BY <2>1, <2>2, <2>3
<1>7. /\ CallTypes' /\ call'[c].in = where /\ call'[c].timer = t
      /\ \A d \in Threads : d # c => call'[d] = call[d]
  BY <1>1, <1>2, <1>6, CallChanges DEF CallTypes
<1>8. \A u : Linking(u)' => Linking(u)
  BY <1>2, <1>7 DEF Linking
<1>9. CASE ~StopUnlinks(c)
  <2>1. UNCHANGED rt_soft_timer_list
    BY <1>9 DEF StartResumes, CallStop, StopClears, listVars
  <2>2. /\ activated' = activated \/ activated' = [activated EXCEPT ![call[c].timer] = FALSE]
        /\ stopped' = stopped \/ stopped' = [stopped EXCEPT ![call[c].timer] = TRUE]
        /\ call[c].in = "stopped" => ~activated'[call[c].timer]
    <3>1. CASE StopClears(c)
      <4>1. call[c].timer \in Timers
        BY <1>1, <1>2, <3>1 DEF StopClears, CallTypes
      <4> QED
        BY <1>1, <3>1, <4>1 DEF StopClears, ListTypes
    <3>2. CASE StartResumes(c) \/ \E u \in Timers : CallStop(c, u)
      <4>1. UNCHANGED <<activated, stopped>>
        BY <3>2 DEF StartResumes, CallStop, listVars
      <4>2. call[c].in = "resume" \/ call[c] = Idle
        BY <3>2 DEF StartResumes, CallStop
      <4>3. call[c].in # "stopped"
        BY <4>2 DEF Idle
      <4> QED
        BY <4>1, <4>3
    <3> QED
      BY <1>9, <3>1, <3>2
  <2>3. ListTypes' /\ IsInjective(rt_soft_timer_list)'
    BY <1>1, <1>3, <2>1, <2>2 DEF ListTypes, TimerTypes
  <2>4. InWindow => InWindow'
    BY <1>3, <1>8, <2>1 DEF InWindow, Linked, Soon, Offset
  <2>5. SortedByTimeout => SortedByTimeout'
    BY <1>3, <2>1 DEF SortedByTimeout
  <2>6. ActiveIsListed'
    <3> SUFFICES ASSUME NEW u \in Timers, activated'[u]
                 PROVE  Listed(u)' \/ u = t_fired' \/ In(u, {"stopped"})'
      BY DEF ActiveIsListed
    <3>1. activated[u]
      BY <1>1, <2>2 DEF ListTypes
    <3>2. ASSUME NEW d \in Threads, call[d].timer = u, call[d].in = "stopped"
          PROVE  In(u, {"stopped"})'
      BY <1>7, <2>2, <3>2 DEF In
    <3> QED
      BY <1>3, <2>1, <3>1, <3>2 DEF TimerInv, ActiveIsListed, Listed, In
  <2> QED
    BY <1>5, <1>7, <2>3, <2>4, <2>5, <2>6, TypesAreNext DEF TimerInv, InOrder
<1>10. CASE StopUnlinks(c)
  <2> DEFINE v == call[c].timer
  <2>1. /\ rt_soft_timer_list' = Without(v) /\ UNCHANGED <<activated, stopped>>
        /\ call[c].in = "stop"
    BY <1>10 DEF StopUnlinks
  <2>2. call'[c].in = "stopped" /\ call'[c].timer = v /\ v \in Timers
    <3>1. call' = [call EXCEPT ![c].in = "stopped"]
      BY <1>10 DEF StopUnlinks
    <3> QED
      BY <1>1, <1>2, <2>1, <3>1 DEF CallTypes
  <2> HIDE DEF v
  <2>3. /\ Without(v) \in Seq(Timers) /\ IsInjective(Without(v)) /\ Range(Without(v)) = Linked \ {v}
        /\ SortedByTimeout => Ordered(Without(v), timeout_tick)
    BY WithoutIs
  <2>4. ListTypes' /\ IsInjective(rt_soft_timer_list') /\ Linked' = Linked \ {v}
    BY <1>1, <1>3, <2>1, <2>3 DEF ListTypes, Linked
  <2>5. InWindow => InWindow'
    BY <1>3, <1>8, <2>4 DEF InWindow, Soon, Offset
  <2>6. SortedByTimeout => SortedByTimeout'
    BY <1>3, <2>1, <2>3 DEF Ordered, SortedByTimeout
  <2>7. ActiveIsListed'
    <3> SUFFICES ASSUME NEW u \in Timers, activated'[u]
                 PROVE  Listed(u)' \/ u = t_fired' \/ In(u, {"stopped"})'
      BY DEF ActiveIsListed
    <3>1. CASE u = v
      BY <1>2, <2>2, <3>1 DEF In
    <3>2. CASE u # v /\ Listed(u)
      BY <1>1, <2>4, <3>2, ListedIs, ListedNext
    <3>3. ASSUME NEW d \in Threads, call[d].timer = u, call[d].in = "stopped"
          PROVE  In(u, {"stopped"})'
      BY <1>7, <2>1, <3>3 DEF In
    <3> QED
      BY <1>3, <2>1, <3>1, <3>2, <3>3 DEF TimerInv, ActiveIsListed, In
  <2> QED
    BY <1>5, <1>7, <2>4, <2>5, <2>6, <2>7, TypesAreNext DEF TimerInv, InOrder
<1> QED
  BY <1>9, <1>10
(* rt_soft_timer_check unlinks a timer, calls its function and, when that  *)
(* returned, links a periodic one anew.                                    *)
LEMMA FireStep ==
  ASSUME TimerInv, Fire
  PROVE  TimerInv'
<1>1. /\ rt_soft_timer_list' = Without(n) /\ t_fired' = n /\ n' = Following(n)
      /\ pc = "loop" /\ pc' = "callback" /\ n # NoTimer
      /\ UNCHANGED <<rt_tick, timeout_tick, activated, linked_twice, call, stat, wake,
                     next_timeout, current_tick, stopped>>
  BY DEF Fire, Due, threadVars
<1>2. CheckTypes /\ Fired /\ ListTypes /\ CallTypes /\ TimerTypes /\ TypeOK
  BY TypesAre DEF TimerInv, TimerTypes
<1>3. n \in Timers /\ t_fired = NoTimer
  BY <1>1, <1>2 DEF CheckTypes, Fired
<1>4. Following(n) \in Timers \cup {NoTimer}
  <2>1. CASE Contains(rt_soft_timer_list, n)
    <3> DEFINE at == {i \in 1..Len(rt_soft_timer_list) : rt_soft_timer_list[i] = n}
               i == Min(at)
    <3>1. at # {} /\ at \subseteq Nat
      BY <2>1 DEF Contains
    <3>2. i \in at
      <4> HIDE DEF at
      <4> QED
        BY <3>1, MinIsLeast
    <3>3. Following(n) = IF i = Len(rt_soft_timer_list) THEN NoTimer ELSE rt_soft_timer_list[i + 1]
      BY <2>1, <3>1 DEF Following, SelectInSeq
    <3> HIDE DEF i
    <3>4. i # Len(rt_soft_timer_list) => rt_soft_timer_list[i + 1] \in Timers
      BY <1>2, <3>2, ElementOfSeq DEF ListTypes
    <3> QED
      BY <3>3, <3>4
  <2>2. CASE ~Contains(rt_soft_timer_list, n)
    BY <1>3, <2>2 DEF Following
  <2> QED
    BY <2>1, <2>2
<1>5. CheckTypes' /\ Fired'
  BY <1>1, <1>2, <1>3, <1>4, TimersAssumption DEF CheckTypes, Fired
<1>6. /\ Without(n) \in Seq(Timers) /\ IsInjective(Without(n)) /\ Range(Without(n)) = Linked \ {n}
      /\ SortedByTimeout => Ordered(Without(n), timeout_tick)
  BY WithoutIs
<1>7. /\ ListTypes' /\ CallTypes' /\ IsInjective(rt_soft_timer_list') /\ Linked' = Linked \ {n}
  BY <1>1, <1>2, <1>6 DEF ListTypes, CallTypes, Linked
<1>8. InWindow => InWindow'
  BY <1>1, <1>7 DEF InWindow, Linking, Soon, Offset
<1>9. SortedByTimeout => SortedByTimeout'
  BY <1>1, <1>6 DEF Ordered, SortedByTimeout
<1>10. ActiveIsListed'
  <2> SUFFICES ASSUME NEW u \in Timers, activated'[u], u # n
               PROVE  Listed(u)' \/ In(u, {"stopped"})'
    BY <1>1 DEF ActiveIsListed
  <2>1. Listed(u) \/ In(u, {"stopped"})
    BY <1>1, <1>3, TimersAssumption DEF TimerInv, ActiveIsListed
  <2>2. Listed(u) => Listed(u)'
    BY <1>2, <1>7, ListedIs, ListedNext
  <2> QED
    BY <1>1, <2>1, <2>2 DEF In
<1> QED
  BY <1>5, <1>7, <1>8, <1>9, <1>10, TypesAreNext DEF TimerInv, InOrder

LEMMA ReturnsStep ==
  ASSUME TimerInv, CallbackReturns
  PROVE  TimerInv'
<1> DEFINE t == t_fired
           x == (rt_tick + InitTick[t]) % Ticks
<1>1. /\ pc \in {"callback", "returning"} /\ pc' = "loop" /\ t_fired' = NoTimer
      /\ current_tick' = rt_tick
      /\ UNCHANGED <<rt_tick, linked_twice, call, stat, wake, next_timeout, n>>
  BY DEF CallbackReturns, threadVars
<1>2. CheckTypes /\ Fired /\ ListTypes /\ CallTypes /\ TimerTypes /\ TypeOK
  BY TypesAre DEF TimerInv, TimerTypes
<1>3. t \in Timers
  BY <1>1, <1>2 DEF CheckTypes, Fired
<1>4. CheckTypes' /\ Fired' /\ CallTypes'
  BY <1>1, <1>2 DEF CheckTypes, Fired, CallTypes
<1>5. CASE StartsAgain(t)
  <2>1. /\ timeout_tick' = [timeout_tick EXCEPT ![t] = x]
        /\ rt_soft_timer_list' = Inserted(Without(t), t, x)
        /\ stopped' = [stopped EXCEPT ![t] = FALSE]
        /\ UNCHANGED activated
    BY <1>5 DEF CallbackReturns
  <2>2. rt_tick \in 0..TickMax /\ timeout_tick \in [Timers -> 0..TickMax]
    BY <1>2 DEF CheckTypes, ListTypes
  <2>3. x \in 0..TickMax /\ Soon(x) /\ MaxLate < Half
    BY <1>3, <2>2, StartSoon
  <2> HIDE DEF t, x
  <2>4. /\ Without(t) \in Seq(Timers) /\ IsInjective(Without(t)) /\ Range(Without(t)) = Linked \ {t}
        /\ SortedByTimeout => Ordered(Without(t), timeout_tick)
    BY WithoutIs
  <2>5. /\ rt_soft_timer_list' \in Seq(Timers) /\ IsInjective(rt_soft_timer_list')
        /\ Linked' = Linked \cup {t}
    BY <1>3, <2>1, <2>4, InsertedRange DEF Linked
  <2>6. ListTypes'
    BY <1>1, <1>2, <2>1, <2>3, <2>5 DEF ListTypes
  <2>7. /\ timeout_tick'[t] = x
        /\ \A u \in Timers : u # t => timeout_tick'[u] = timeout_tick[u]
    BY <1>3, <2>1, <2>2
  <2>8. InWindow => InWindow'
    <3> SUFFICES ASSUME InWindow, NEW u \in Timers, u \in Linked' \/ Linking(u)'
                 PROVE  Soon(timeout_tick[u])'
      BY DEF InWindow
    <3>1. CASE u = t
      BY <1>1, <2>3, <2>7, <3>1 DEF Soon, Offset
    <3>2. CASE u # t
      <4>1. u \in Linked \/ Linking(u)
        BY <1>1, <2>5, <3>2 DEF Linking
      <4>2. Soon(timeout_tick[u])
        BY <4>1 DEF InWindow
      <4> QED
        BY <1>1, <2>7, <3>2, <4>2 DEF Soon, Offset
    <3> QED
      BY <3>1, <3>2
  <2>9. InOrder => SortedByTimeout'
    <3> SUFFICES ASSUME InOrder PROVE SortedByTimeout'
      OBVIOUS
    <3>1. \A u \in Range(Without(t)) : Soon(timeout_tick[u])
      BY <1>2, <2>4, LinkedIs DEF InOrder, InWindow
    <3>2. t \notin Range(Without(t))
      BY <2>4
    <3>3. Ordered(rt_soft_timer_list', timeout_tick')
      BY <1>3, <2>1, <2>2, <2>3, <2>4, <3>1, <3>2, InsertedOrder DEF InOrder
    <3> QED
      BY <3>3 DEF Ordered, SortedByTimeout
  <2>10. ActiveIsListed'
    <3> SUFFICES ASSUME NEW u \in Timers, activated'[u]
                 PROVE  Listed(u)' \/ In(u, {"stopped"})'
      BY DEF ActiveIsListed
    <3>1. CASE u \in Linked \cup {t}
      BY <2>5, <2>6, <3>1, ListedNext
    <3>2. CASE u \notin Linked \cup {t}
      <4>1. In(u, {"stopped"})
        BY <1>2, <2>1, <3>2, ListedIs DEF TimerInv, ActiveIsListed, t
      <4> QED
        BY <1>1, <4>1 DEF In
    <3> QED
      BY <3>1, <3>2
  <2> QED
    BY <1>4, <2>5, <2>6, <2>8, <2>9, <2>10, TypesAreNext DEF TimerInv, InOrder
<1>6. CASE ~StartsAgain(t)
  <2>1. /\ activated' = [activated EXCEPT ![t] = FALSE]
        /\ UNCHANGED <<timeout_tick, rt_soft_timer_list, stopped>>
    BY <1>6 DEF CallbackReturns, MarkInactive
  <2>2. ListTypes' /\ IsInjective(rt_soft_timer_list)'
    BY <1>1, <1>2, <2>1 DEF ListTypes, TimerTypes
  <2>3. (InWindow => InWindow') /\ (SortedByTimeout => SortedByTimeout')
    BY <1>1, <2>1 DEF InWindow, SortedByTimeout, Linked, Linking, Soon, Offset
  <2>4. ActiveIsListed'
    <3> SUFFICES ASSUME NEW u \in Timers, activated'[u]
                 PROVE  Listed(u)' \/ In(u, {"stopped"})'
      BY DEF ActiveIsListed
    <3>1. activated[u] /\ u # t_fired
      BY <1>2, <1>3, <2>1 DEF ListTypes
    <3> QED
      BY <1>1, <2>1, <3>1 DEF TimerInv, ActiveIsListed, Listed, In
  <2> QED
    BY <1>4, <2>2, <2>3, <2>4, TypesAreNext DEF TimerInv, InOrder
<1> QED
  BY <1>5, <1>6

-------------------------------------------------------------------------------
(* One starting thread per timer.  Between the two halves of its call      *)
(* nobody else links the timer: a second start would, and a periodic timer *)
(* whose function just returned is linked again only when marked active,   *)
(* which the first half cleared.                                           *)

StartsAlone ==
  \A c \in Threads : call[c].in \in {"unlinked", "start"} =>
    /\ c \in Starters(call[c].timer)
    /\ ~activated[call[c].timer]
    /\ call[c].timer \notin Linked

OnceInv == TimerInv /\ ~linked_twice /\ StartsAlone

(* Of TimerInv only the order of the list rests on that.                   *)
LEMMA TimerInvStep ==
  ASSUME TimerInv, [Next]_vars, OneStarter => StartsAlone
  PROVE  TimerInv'
<1>1. CheckTypes /\ Fired /\ CallTypes /\ TimerThread \in Threads
  BY TypesAre DEF TimerInv, Threads
<1>2. CASE UNCHANGED vars
  <2>1. /\ UNCHANGED <<rt_tick, listVars, call, stopped, t_fired>>
        /\ UNCHANGED <<wake, stat, pc, next_timeout, current_tick, n>>
    BY <1>2 DEF vars, threadVars, checkVars
  <2>2. CheckTypes' /\ Fired'
    BY <1>1, <2>1 DEF CheckTypes, Fired
  <2> QED
    BY <2>1, <2>2, QuietKeeps
<1>3. CASE Tick
  BY <1>3, TickStep
<1>4. CASE NextTimeout \/ SuspendSelf \/ Delay \/ Check \/ CheckEnds
  BY <1>4, QuietStep
<1>5. CASE Fire \/ CallbackReturns
  BY <1>5, FireStep, ReturnsStep
<1>6. ASSUME NEW t \in Timers, CallbackStarts(t)
      PROVE  TimerInv'
  BY <1>1, <1>6, UnlinksStep DEF CallbackStarts
<1>7. ASSUME NEW c \in Threads, call[c].in = "unlinked"
      PROVE  OneStarter => call[c].timer \notin Linked
  BY <1>7 DEF StartsAlone
<1>8. CASE CallbackReads
  BY <1>1, <1>7, <1>8, ReadsStep DEF CallbackReads
<1>9. CASE CallbackLinks
  <2>1. call[TimerThread].in = "start" /\ StartLinks(TimerThread, call[TimerThread].timer)
    BY <1>9 DEF CallbackLinks
  <2>2. /\ UNCHANGED <<rt_tick, wake, stat, next_timeout, current_tick, n, t_fired>>
        /\ pc = "callback" /\ pc' = "returning"
    BY <1>9 DEF CallbackLinks, StartLinks, threadVars
  <2>3. CheckTypes' /\ Fired'
    BY <1>1, <2>2 DEF CheckTypes, Fired
  <2> QED
    BY <1>1, <2>1, <2>2, <2>3, LinksStep
<1>10. ASSUME NEW c \in Callers
       PROVE  /\ CallerSteps(c) => TimerInv'
              /\ \A t \in Timers : CallStart(c, t) \/ CallStop(c, t) => TimerInv'
  <2>1. c \in Threads
    BY DEF Threads
  <2>2. ASSUME CallerLinks(c)
        PROVE  TimerInv'
    <3>1. call[c].in = "start" /\ StartLinks(c, call[c].timer)
      BY <2>2 DEF CallerLinks
    <3>2. UNCHANGED <<rt_tick, wake, stat, pc, next_timeout, current_tick, n, t_fired>>
      BY <2>2 DEF CallerLinks, StartLinks, threadVars, checkVars
    <3>3. CheckTypes' /\ Fired'
      BY <1>1, <3>2 DEF CheckTypes, Fired
    <3> QED
      BY <2>1, <3>1, <3>2, <3>3, LinksStep
  <2>3. ASSUME CallerReads(c)
        PROVE  TimerInv'
    BY <1>7, <2>1, <2>3, ReadsStep DEF CallerReads
  <2>4. ASSUME NEW t \in Timers, CallStart(c, t)
        PROVE  TimerInv'
    BY <2>1, <2>4, UnlinksStep DEF CallStart
  <2> QED
    BY <2>2, <2>3, <2>4, CallerStep DEF CallerSteps
<1> QED
  BY <1>2, <1>3, <1>4, <1>5, <1>6, <1>9, <1>10, <1>8 DEF Next, TimerThreadStep

LEMMA StartsKept ==
  ASSUME OnceInv, TimerInv', UNCHANGED linked_twice,
         \A d \in Threads : call'[d].in \in {"unlinked", "start"} =>
           call[d].in \in {"unlinked", "start"} /\ call'[d].timer = call[d].timer,
         \A t \in Timers : activated'[t] => activated[t],
         \A t \in Timers : t \in Linked' => t \in Linked \/ activated[t]
  PROVE  OnceInv'
<1>1. CallTypes
  BY TypesAre DEF OnceInv, TimerInv
<1>2. StartsAlone'
  <2> SUFFICES ASSUME NEW d \in Threads, call'[d].in \in {"unlinked", "start"}
               PROVE  /\ d \in Starters(call'[d].timer)
                      /\ ~activated'[call'[d].timer]
                      /\ call'[d].timer \notin Linked'
    BY DEF StartsAlone, Starters
  <2>1. /\ call'[d].timer = call[d].timer /\ call[d].timer \in Timers
        /\ call[d].in \in {"unlinked", "start"}
    BY <1>1 DEF CallTypes
  <2> QED
    BY <2>1 DEF OnceInv, StartsAlone
<1> QED
  BY <1>2 DEF OnceInv

LEMMA StartOnce ==
  ASSUME OnceInv, TimerInv', NEW c \in Threads, NEW t \in Timers, c \in Starters(t),
         StartUnlinks(c, t)
  PROVE  OnceInv'
<1>1. ListTypes /\ CallTypes /\ TimerTypes
  BY TypesAre DEF OnceInv, TimerInv
<1>2. /\ rt_soft_timer_list' = Without(t) /\ UNCHANGED linked_twice
      /\ activated' = [activated EXCEPT ![t] = FALSE]
      /\ call' = [call EXCEPT ![c] = [in |-> "unlinked", timer |-> t]]
  BY DEF StartUnlinks
<1>3. Linked' = Linked \ {t}
  BY <1>2, WithoutIs DEF OnceInv, Linked
<1>4. \A d \in Threads : call'[d] = IF d = c THEN [in |-> "unlinked", timer |-> t] ELSE call[d]
  BY <1>1, <1>2 DEF CallTypes
<1>5. \A u \in Timers : activated'[u] => activated[u] /\ u # t
  BY <1>1, <1>2 DEF ListTypes
<1>6. StartsAlone'
  <2> SUFFICES ASSUME NEW d \in Threads, call'[d].in \in {"unlinked", "start"}
               PROVE  /\ d \in Starters(call'[d].timer)
                      /\ ~activated'[call'[d].timer]
                      /\ call'[d].timer \notin Linked'
    BY DEF StartsAlone, Starters
  <2>1. CASE d = c
    BY <1>3, <1>4, <1>5, <2>1
  <2>2. CASE d # c
    <3>1. call'[d] = call[d] /\ call[d].timer \in Timers
      BY <1>1, <1>4, <2>2 DEF CallTypes
    <3> QED
      BY <1>3, <1>5, <3>1 DEF OnceInv, StartsAlone
  <2> QED
    BY <2>1, <2>2
<1> QED
  BY <1>2, <1>6 DEF OnceInv

LEMMA ReadOnce ==
  ASSUME OnceInv, TimerInv', NEW c \in Threads, call[c].in = "unlinked",
         StartReads(c, call[c].timer)
  PROVE  OnceInv'
<1>1. CallTypes
  BY TypesAre DEF OnceInv, TimerInv
<1>2. /\ UNCHANGED <<rt_soft_timer_list, activated, linked_twice>>
      /\ call' = [call EXCEPT ![c] = [in |-> "start", timer |-> call[c].timer]]
  BY DEF StartReads
<1>3. \A d \in Threads : /\ call'[d].timer = call[d].timer
                         /\ d # c => call'[d] = call[d]
  BY <1>1, <1>2 DEF CallTypes
<1> QED
  BY <1>2, <1>3, StartsKept DEF Linked

LEMMA LinkOnce ==
  ASSUME OneStarter, OnceInv, TimerInv', NEW c \in Threads, call[c].in = "start",
         StartLinks(c, call[c].timer)
  PROVE  OnceInv' /\ Linked' = Linked \cup {call[c].timer}
<1> DEFINE t == call[c].timer
<1>1. ListTypes /\ CallTypes /\ TimerTypes /\ TypeOK
  BY TypesAre DEF OnceInv, TimerInv, TimerTypes
<1>2. t \in Timers /\ c \in Starters(t) /\ t \notin Linked
  BY <1>1 DEF CallTypes, OnceInv, StartsAlone
<1>3. ~Contains(rt_soft_timer_list, t)
  BY <1>1, <1>2, ListedIs DEF Listed
<1>4. /\ rt_soft_timer_list' = Inserted(rt_soft_timer_list, t, timeout_tick[t])
      /\ UNCHANGED linked_twice
      /\ activated' = [activated EXCEPT ![t] = TRUE]
  BY <1>3 DEF StartLinks
<1>7. PICK where \in {"none", "resume"} : \E u : call' = [call EXCEPT ![c] = [in |-> where, timer |-> u]]
  <2>1. CASE c = TimerThread
    BY <2>1 DEF StartLinks, Idle
  <2>2. CASE c # TimerThread
    BY <2>2 DEF StartLinks
  <2> QED
    BY <2>1, <2>2
<1>8. \A d \in Threads : d # c => call'[d] = call[d]
  BY <1>1, <1>7 DEF CallTypes
<1>9. call'[c].in \notin {"unlinked", "start"}
  BY <1>1, <1>7 DEF CallTypes
<1> HIDE DEF t
<1>5. Linked' = Linked \cup {t}
  BY <1>1, <1>2, <1>4, InsertedRange DEF Linked, ListTypes, TimerTypes
<1>6. StartsAlone'
  <2> SUFFICES ASSUME NEW d \in Threads, call'[d].in \in {"unlinked", "start"}
               PROVE  /\ d \in Starters(call'[d].timer)
                      /\ ~activated'[call'[d].timer]
                      /\ call'[d].timer \notin Linked'
    BY DEF StartsAlone, Starters
  <2>1. d # c /\ call'[d] = call[d]
    BY <1>8, <1>9
  <2>2. call[d].timer \in Timers /\ d \in Starters(call[d].timer)
    BY <1>1, <2>1 DEF CallTypes, OnceInv, StartsAlone
  <2>3. call[d].timer # t
    BY <1>2, <2>1, <2>2 DEF OneStarter
  <2> QED
    BY <1>1, <1>4, <1>5, <2>1, <2>2, <2>3 DEF ListTypes, OnceInv, StartsAlone
<1> QED
  BY <1>4, <1>5, <1>6 DEF OnceInv, t
(* What the other steps of a caller do to the calls and the list.          *)
LEMMA CallerLinksNone ==
  ASSUME TimerInv, NEW c \in Callers,
         StartResumes(c) \/ (\E t \in Timers : CallStop(c, t)) \/ StopUnlinks(c) \/ StopClears(c)
  PROVE  /\ UNCHANGED linked_twice /\ Linked' \subseteq Linked
         /\ call'[c].in \notin {"unlinked", "start"}
         /\ \A d \in Threads : d # c => call'[d] = call[d]
         /\ \A t \in Timers : activated'[t] => activated[t]
<1>1. ListTypes /\ CallTypes /\ c \in Threads
  BY TypesAre DEF TimerInv, Threads
<1>2. CASE StartResumes(c)
  BY <1>1, <1>2 DEF StartResumes, listVars, Linked, CallTypes, Idle
<1>3. ASSUME NEW t \in Timers, CallStop(c, t)
      PROVE  /\ UNCHANGED linked_twice /\ Linked' \subseteq Linked
             /\ call'[c].in \notin {"unlinked", "start"}
             /\ \A d \in Threads : d # c => call'[d] = call[d]
             /\ \A u \in Timers : activated'[u] => activated[u]
  BY <1>1, <1>3 DEF CallStop, listVars, Linked, CallTypes
<1>4. CASE StopUnlinks(c)
  <2>1. Linked' \subseteq Linked
    BY <1>4, WithoutIs DEF StopUnlinks, Linked
  <2> QED
    BY <1>1, <1>4, <2>1 DEF StopUnlinks, CallTypes
<1>5. CASE StopClears(c)
  BY <1>1, <1>5 DEF StopClears, Linked, CallTypes, ListTypes, Idle
<1> QED
  BY <1>2, <1>3, <1>4, <1>5

LEMMA OnceStep ==
  ASSUME OneStarter, OnceInv, [Next]_vars
  PROVE  OnceInv'
<1>1. TimerInv /\ TimerInv' /\ ListTypes /\ CheckTypes /\ CallTypes /\ Fired
  <2>1. TimerInv /\ StartsAlone
    BY DEF OnceInv
  <2>2. TimerInv'
    BY <2>1, TimerInvStep
  <2> QED
    BY <2>1, <2>2, TypesAre DEF TimerInv
<1>2. CASE UNCHANGED vars
  BY <1>1, <1>2, StartsKept DEF vars, listVars, Linked
<1>3. CASE Tick \/ NextTimeout \/ SuspendSelf \/ Delay \/ Check \/ CheckEnds
  <2>1. UNCHANGED <<rt_soft_timer_list, activated, linked_twice, call>>
    BY <1>3 DEF Tick, NextTimeout, SuspendSelf, Delay, Check, CheckEnds, listVars
  <2> QED
    BY <1>1, <2>1, StartsKept DEF Linked
<1>4. CASE Fire
  <2>1. Linked' \subseteq Linked
    BY <1>1, <1>4, WithoutIs DEF Fire, Linked
  <2> QED
    BY <1>1, <1>4, <2>1, StartsKept DEF Fire
<1>5. CASE CallbackReturns
  <2>1. t_fired \in Timers
    BY <1>1, <1>5 DEF CallbackReturns, CheckTypes, Fired
  <2>2. CASE StartsAgain(t_fired)
    <3>1. Linked' = Linked \cup {t_fired}
      BY <1>1, <1>5, <2>1, <2>2, WithoutIs, InsertedRange DEF CallbackReturns, Linked
    <3> QED
      BY <1>1, <1>5, <2>2, <3>1, StartsKept DEF CallbackReturns, StartsAgain
  <2>3. CASE ~StartsAgain(t_fired)
    <3>1. /\ UNCHANGED <<rt_soft_timer_list, linked_twice, call>>
          /\ activated' = [activated EXCEPT ![t_fired] = FALSE]
      BY <1>5, <2>3 DEF CallbackReturns, MarkInactive
    <3>2. \A u \in Timers : activated'[u] => activated[u]
      BY <1>1, <3>1 DEF ListTypes
    <3> QED
      BY <1>1, <3>1, <3>2, StartsKept DEF Linked
  <2> QED
    BY <2>2, <2>3
<1>6. ASSUME NEW t \in Timers, CallbackStarts(t)
      PROVE  OnceInv'
  <2>1. TimerThread \in Threads /\ TimerThread \in Starters(t)
    <3>1. t_fired \in Timers /\ <<t_fired, t>> \in CallbackCalls
      BY <1>6, TimersAssumption DEF CallbackStarts
    <3> QED
      BY <3>1 DEF Threads, Starters
  <2> QED
    BY <1>1, <1>6, <2>1, StartOnce DEF CallbackStarts
<1>7. CASE CallbackReads
  BY <1>1, <1>7, ReadOnce DEF CallbackReads, Threads
<1>8. CASE CallbackLinks
  BY <1>1, <1>8, LinkOnce DEF CallbackLinks, Threads
<1>9. ASSUME NEW c \in Callers
      PROVE  /\ CallerSteps(c) => OnceInv'
             /\ \A t \in Timers : CallStart(c, t) \/ CallStop(c, t) => OnceInv'
  <2>1. c \in Threads
    BY DEF Threads
  <2>2. CASE CallerLinks(c)
    BY <1>1, <2>1, <2>2, LinkOnce DEF CallerLinks
  <2>3. CASE CallerReads(c)
    BY <1>1, <2>1, <2>3, ReadOnce DEF CallerReads
  <2>4. ASSUME NEW t \in Timers, CallStart(c, t)
        PROVE  OnceInv'
    BY <1>1, <2>1, <2>4, StartOnce DEF CallStart, Starters
  <2>5. CASE StartResumes(c) \/ (\E t \in Timers : CallStop(c, t)) \/ StopUnlinks(c) \/ StopClears(c)
    <3>1. /\ UNCHANGED linked_twice /\ Linked' \subseteq Linked
          /\ call'[c].in \notin {"unlinked", "start"}
          /\ \A d \in Threads : d # c => call'[d] = call[d]
          /\ \A t \in Timers : activated'[t] => activated[t]
      BY <1>1, <2>5, CallerLinksNone
    <3> QED
      BY <1>1, <3>1, StartsKept
  <2> QED
    BY <2>2, <2>3, <2>4, <2>5 DEF CallerSteps
<1> QED
  BY <1>2, <1>3, <1>4, <1>5, <1>6, <1>7, <1>8, <1>9 DEF Next, TimerThreadStep

LEMMA OnceInvariance ==
  ASSUME OneStarter
  PROVE  Spec => []OnceInv
<1>1. Init => OnceInv
  BY TimerInvInit DEF Init, OnceInv, StartsAlone, Idle
<1>2. OnceInv /\ [Next]_vars => OnceInv'
  BY OnceStep
<1> QED
  BY <1>1, <1>2, PTL DEF Spec

LEMMA TimerInvariance == Spec => []TimerInv
<1>1. CASE OneStarter
  <2>1. OnceInv => TimerInv
    BY DEF OnceInv
  <2>2. Spec => []OnceInv
    BY <1>1, OnceInvariance
  <2> QED
    BY <2>1, <2>2, PTL
<1>2. CASE ~OneStarter
  <2>1. TimerInv /\ [Next]_vars => TimerInv'
    BY <1>2, TimerInvStep
  <2> QED
    BY <2>1, TimerInvInit, PTL DEF Spec
<1> QED
  BY <1>1, <1>2
-------------------------------------------------------------------------------
(* Every variable keeps its type: no tick leaves its range, a call in      *)
(* progress has a timer, and so does the check while a function runs.      *)
THEOREM SoftTypeCorrect == Spec => []TypeOK
<1>1. TimerInv => TypeOK
  BY DEF TimerInv, TimerTypes
<1> QED
  BY <1>1, TimerInvariance, PTL

(* A timer marked active is listed, or its function runs, or a call of     *)
(* rt_timer_stop is about to clear the mark.                               *)
THEOREM ActiveAlwaysListed == Spec => []ActiveIsListed
<1>1. TimerInv => ActiveIsListed
  BY DEF TimerInv
<1> QED
  BY <1>1, TimerInvariance, PTL

(* If one thread starts each timer, rt_soft_timer_list is in the order of  *)
(* the timeouts although ticks wrap and timers are started, stopped and    *)
(* fire in any interleaving (rt_timer_start, rt_soft_timer_check).         *)
THEOREM AlwaysSorted ==
  ASSUME OneStarter
  PROVE  Spec => []SortedByTimeout
<1>1. OnceInv => SortedByTimeout
  BY DEF OnceInv, TimerInv, InOrder
<1> QED
  BY <1>1, OnceInvariance, PTL

(* A timer that only one thread starts is never linked while it is linked  *)
(* (rt_timer_start unlinks and links in two critical sections), whoever    *)
(* stops it and whenever it fires in between.                              *)
THEOREM LinkedOnce ==
  ASSUME OneStarter
  PROVE  Spec => []NeverLinkedTwice
<1>1. OnceInv => NeverLinkedTwice
  BY DEF OnceInv, TimerInv, TimerTypes, NeverLinkedTwice
<1> QED
  BY <1>1, OnceInvariance, PTL
-------------------------------------------------------------------------------
(* A stopped timer is out of the list.  A call of rt_timer_stop runs above *)
(* the timer thread: whoever starts the timer does not run meanwhile, and  *)
(* nobody was about to link it when the call found it active.              *)

Stopping(c) == call[c].in \in {"stop", "stopped"}

Starting(t) == \E c \in Threads : call[c].in \in {"unlinked", "start"} /\ call[c].timer = t

StopsAlone ==
  \A c \in Threads : Stopping(c) =>
    /\ <<c, call[c].timer>> \in Stops
    /\ ~Starting(call[c].timer)
    /\ call[c].in = "stopped" => call[c].timer \notin Linked

StoppedOut == \A t \in Timers : stopped[t] => t \notin Linked /\ ~Starting(t)

StopInv == OnceInv /\ StopsAlone /\ StoppedOut

LEMMA StopInvTypes ==
  ASSUME StopInv
  PROVE  /\ TimerInv /\ TypeOK /\ ListTypes /\ CheckTypes /\ CallTypes /\ Fired
         /\ \A c \in Callers : c \in Threads
         /\ TimerThread \in Threads
         /\ \A c \in Threads : call[c].in # "none" => call[c].timer \in Timers
<1>1. TimerInv /\ TypeOK /\ ListTypes /\ CheckTypes /\ CallTypes /\ Fired
  BY TypesAre DEF StopInv, OnceInv, TimerInv, TimerTypes
<1> QED
  BY <1>1 DEF CallTypes, Threads

(* A call of rt_timer_stop is by a thread above the timer thread, which    *)
(* runs neither the timer thread nor the timer's starters meanwhile.       *)
LEMMA StopperAbove ==
  ASSUME StoppersOutrank, StopInv, NEW d \in Threads, Stopping(d)
  PROVE  /\ d \in Higher /\ call[d] # Idle /\ ~TimerThreadRuns
         /\ \A c \in Lower : ~Runs(c)
         /\ Starters(call[d].timer) \subseteq {d, TimerThread} \cup Lower
<1>1. <<d, call[d].timer>> \in Stops
  BY DEF StopInv, StopsAlone
<1>2. d \in Callers /\ call[d].timer \in Timers
  BY <1>1, TimersAssumption
<1>3. d \in Higher /\ Starters(call[d].timer) \subseteq {d, TimerThread} \cup Lower
  BY <1>1, <1>2 DEF StoppersOutrank
<1>4. call[d] # Idle
  BY DEF Stopping, Idle
<1> QED
  BY <1>3, <1>4 DEF TimerThreadRuns, Runs

(* Steps that start no timer and link none.                                *)
LEMMA StopsKept ==
  ASSUME StopInv, OnceInv', Linked' \subseteq Linked,
         \A t \in Timers : Starting(t)' => Starting(t),
         \A d \in Threads : Stopping(d)' =>
           \/ call'[d] = call[d]
           \/ /\ <<d, call'[d].timer>> \in Stops /\ ~Starting(call'[d].timer)
              /\ call'[d].timer \in Timers
              /\ call'[d].in = "stopped" => call'[d].timer \notin Linked',
         \A t \in Timers : stopped'[t] => stopped[t] \/ (t \notin Linked /\ ~Starting(t))
  PROVE  StopInv'
<1>1. StopsAlone'
  <2> SUFFICES ASSUME NEW d \in Threads, Stopping(d)'
               PROVE  /\ <<d, call'[d].timer>> \in Stops
                      /\ ~(\E c \in Threads : call'[c].in \in {"unlinked", "start"}
                                         /\ call'[c].timer = call'[d].timer)
                      /\ call'[d].in = "stopped" => call'[d].timer \notin Linked'
    BY DEF StopsAlone, Starting
  <2>1. CASE call'[d] = call[d]
    <3>1. Stopping(d) /\ call[d].timer \in Timers
      BY <2>1, StopInvTypes DEF Stopping
    <3>2. PICK t \in Timers : t = call[d].timer
      BY <3>1
    <3>3. <<d, t>> \in Stops /\ ~Starting(t) /\ (call[d].in = "stopped" => t \notin Linked)
      BY <3>1, <3>2 DEF StopInv, StopsAlone
    <3>4. ~Starting(t)'
      BY <3>3
    <3> QED
      BY <2>1, <3>2, <3>3, <3>4 DEF Starting
  <2>2. CASE call'[d] # call[d]
    <3>1. /\ <<d, call'[d].timer>> \in Stops /\ ~Starting(call'[d].timer)
          /\ call'[d].timer \in Timers
          /\ call'[d].in = "stopped" => call'[d].timer \notin Linked'
      BY <2>2
    <3>2. PICK t \in Timers : t = call'[d].timer
      BY <3>1
    <3>3. ~Starting(t)'
      BY <3>1, <3>2
    <3> QED
      BY <3>1, <3>2, <3>3 DEF Starting
  <2> QED
    BY <2>1, <2>2
<1>2. StoppedOut'
  <2> SUFFICES ASSUME NEW t \in Timers, stopped'[t]
               PROVE  t \notin Linked' /\ ~Starting(t)'
    BY DEF StoppedOut
  <2>1. t \notin Linked /\ ~Starting(t)
    BY DEF StopInv, StoppedOut
  <2> QED
    BY <2>1
<1> QED
  BY <1>1, <1>2 DEF StopInv

(* The first half of rt_timer_start, while nobody stops the timer.         *)
LEMMA StopsStarted ==
  ASSUME StopInv, OnceInv', NEW c \in Threads, NEW t \in Timers, StartUnlinks(c, t),
         \A d \in Threads : Stopping(d) => call[d].timer # t
  PROVE  StopInv'
<1>1. ListTypes /\ CallTypes /\ TimerInv
  BY StopInvTypes
<1>2. /\ rt_soft_timer_list' = Without(t)
      /\ stopped' = [stopped EXCEPT ![t] = FALSE]
      /\ call' = [call EXCEPT ![c] = [in |-> "unlinked", timer |-> t]]
  BY DEF StartUnlinks
<1>3. Linked' = Linked \ {t}
  BY <1>1, <1>2, WithoutIs DEF Linked
<1>4. \A d \in Threads : call'[d] = IF d = c THEN [in |-> "unlinked", timer |-> t] ELSE call[d]
  BY <1>1, <1>2 DEF CallTypes
<1>5. \A u \in Timers : Starting(u)' => u = t \/ Starting(u)
  BY <1>4 DEF Starting
<1>6. StopsAlone'
  <2> SUFFICES ASSUME NEW d \in Threads, Stopping(d)'
               PROVE  /\ <<d, call'[d].timer>> \in Stops
                      /\ ~(\E e \in Threads : call'[e].in \in {"unlinked", "start"}
                                         /\ call'[e].timer = call'[d].timer)
                      /\ call'[d].in = "stopped" => call'[d].timer \notin Linked'
    BY DEF StopsAlone, Starting
  <2>1. call'[d] = call[d] /\ Stopping(d)
    BY <1>4 DEF Stopping
  <2>2. call[d].timer \in Timers /\ call[d].timer # t
    BY <2>1, StopInvTypes DEF Stopping
  <2>3. PICK u \in Timers : u = call[d].timer
    BY <2>2
  <2>4. <<d, u>> \in Stops /\ ~Starting(u) /\ (call[d].in = "stopped" => u \notin Linked)
    BY <2>1, <2>3 DEF StopInv, StopsAlone
  <2>5. ~Starting(u)'
    BY <1>5, <2>2, <2>3, <2>4
  <2> QED
    BY <1>3, <2>1, <2>3, <2>4, <2>5 DEF Starting
<1>7. StoppedOut'
  <2> SUFFICES ASSUME NEW u \in Timers, stopped'[u]
               PROVE  u \notin Linked' /\ ~Starting(u)'
    BY DEF StoppedOut
  <2>1. stopped[u] /\ u # t
    BY <1>1, <1>2 DEF ListTypes
  <2> QED
    BY <1>3, <1>5, <2>1 DEF StopInv, StoppedOut
<1> QED
  BY <1>6, <1>7 DEF StopInv

(* Between the halves.                                                     *)
LEMMA StopsRead ==
  ASSUME StopInv, OnceInv', NEW c \in Threads, call[c].in = "unlinked",
         StartReads(c, call[c].timer)
  PROVE  StopInv'
<1>1. CallTypes
  BY StopInvTypes
<1>2. /\ UNCHANGED <<rt_soft_timer_list, stopped>>
      /\ call' = [call EXCEPT ![c] = [in |-> "start", timer |-> call[c].timer]]
  BY DEF StartReads
<1>3. \A d \in Threads : IF d = c THEN call'[d].in = "start" /\ call'[d].timer = call[d].timer
                                 ELSE call'[d] = call[d]
  BY <1>1, <1>2 DEF CallTypes
<1>4. \A u \in Timers : Starting(u)' => Starting(u)
  BY <1>3 DEF Starting
<1>5. \A d \in Threads : Stopping(d)' => call'[d] = call[d]
  BY <1>3 DEF Stopping
<1>6. Linked' \subseteq Linked /\ \A u \in Timers : stopped'[u] => stopped[u]
  BY <1>2 DEF Linked
<1> QED
  BY <1>4, <1>5, <1>6, StopsKept

(* The second half.                                                        *)
LEMMA StopsLinked ==
  ASSUME StopInv, OnceInv', NEW c \in Threads, call[c].in = "start",
         StartLinks(c, call[c].timer), Linked' = Linked \cup {call[c].timer}
  PROVE  StopInv'
<1> DEFINE t == call[c].timer
<1>1. CallTypes /\ t \in Timers /\ Starting(t)
  BY StopInvTypes DEF Starting
<1>2. UNCHANGED stopped
  BY DEF StartLinks
<1>3. PICK where \in {"none", "resume"} : \E u : call' = [call EXCEPT ![c] = [in |-> where, timer |-> u]]
  <2>1. CASE c = TimerThread
    BY <2>1 DEF StartLinks, Idle
  <2>2. CASE c # TimerThread
    BY <2>2 DEF StartLinks
  <2> QED
    BY <2>1, <2>2
<1>4. call'[c].in = where /\ \A d \in Threads : d # c => call'[d] = call[d]
  BY <1>1, <1>3 DEF CallTypes
<1>5. \A v \in Timers : Starting(v)' => Starting(v)
  BY <1>4 DEF Starting
<1> HIDE DEF t
<1>6. StopsAlone'
  <2> SUFFICES ASSUME NEW d \in Threads, Stopping(d)'
               PROVE  /\ <<d, call'[d].timer>> \in Stops
                      /\ ~(\E e \in Threads : call'[e].in \in {"unlinked", "start"}
                                         /\ call'[e].timer = call'[d].timer)
                      /\ call'[d].in = "stopped" => call'[d].timer \notin Linked'
    BY DEF StopsAlone, Starting
  <2>1. call'[d] = call[d] /\ Stopping(d)
    BY <1>4 DEF Stopping
  <2>2. call[d].timer \in Timers
    BY <2>1, StopInvTypes DEF Stopping
  <2>3. PICK v \in Timers : v = call[d].timer
    BY <2>2
  <2>4. <<d, v>> \in Stops /\ ~Starting(v) /\ (call[d].in = "stopped" => v \notin Linked)
    BY <2>1, <2>3 DEF StopInv, StopsAlone
  <2>5. ~Starting(v)' /\ v # t
    BY <1>1, <1>5, <2>4
  <2>6. call[d].in = "stopped" => v \notin Linked'
    BY <2>4, <2>5 DEF t
  <2> QED
    BY <2>1, <2>3, <2>4, <2>5, <2>6 DEF Starting
<1>7. StoppedOut'
  <2> SUFFICES ASSUME NEW u \in Timers, stopped[u]
               PROVE  u \notin Linked' /\ ~Starting(u)'
    BY <1>2 DEF StoppedOut
  <2>1. u \notin Linked /\ ~Starting(u)
    BY DEF StopInv, StoppedOut
  <2>2. u # t
    BY <1>1, <2>1
  <2> QED
    BY <1>5, <2>1, <2>2 DEF t
<1> QED
  BY <1>6, <1>7 DEF StopInv
(* The function of the timer thread returned: no call of rt_timer_stop was *)
(* in progress.                                                            *)
LEMMA StopsReturned ==
  ASSUME StoppersOutrank, StopInv, OnceInv', CallbackReturns
  PROVE  StopInv'
<1>1. ListTypes /\ CallTypes /\ CheckTypes /\ Fired /\ TimerInv
  BY StopInvTypes
<1>2. UNCHANGED call /\ t_fired \in Timers
  BY <1>1 DEF CallbackReturns, CheckTypes, Fired
<1>3. \A d \in Threads : ~Stopping(d)
  BY StopperAbove DEF CallbackReturns
<1>4. StopsAlone'
  BY <1>2, <1>3 DEF StopsAlone, Stopping
<1>5. \A u \in Timers : Starting(u)' => Starting(u)
  BY <1>2 DEF Starting
<1>6. \A u \in Timers : stopped'[u] => stopped[u] /\ (u \in Linked' => u \in Linked)
  <2>1. CASE StartsAgain(t_fired)
    <3>1. Linked' = Linked \cup {t_fired}
      BY <1>1, <1>2, <2>1, WithoutIs, InsertedRange DEF CallbackReturns, Linked
    <3>2. stopped' = [stopped EXCEPT ![t_fired] = FALSE]
      BY <2>1 DEF CallbackReturns
    <3> QED
      BY <1>1, <3>1, <3>2 DEF ListTypes
  <2>2. CASE ~StartsAgain(t_fired)
    BY <2>2 DEF CallbackReturns, Linked
  <2> QED
    BY <2>1, <2>2
<1>7. StoppedOut'
  <2> SUFFICES ASSUME NEW u \in Timers, stopped'[u]
               PROVE  u \notin Linked' /\ ~Starting(u)'
    BY DEF StoppedOut
  <2>1. u \notin Linked /\ ~Starting(u)
    BY <1>6 DEF StopInv, StoppedOut
  <2> QED
    BY <1>5, <1>6, <2>1
<1> QED
  BY <1>4, <1>7 DEF StopInv

(* A caller stops a timer, or wakes the timer thread.                      *)
LEMMA StopsCaller ==
  ASSUME StopInv, OnceInv', NEW c \in Callers,
         StartResumes(c) \/ (\E t \in Timers : CallStop(c, t)) \/ StopUnlinks(c) \/ StopClears(c)
  PROVE  StopInv'
<1>1. ListTypes /\ CallTypes /\ TimerInv /\ c \in Threads
  BY StopInvTypes
<1>2. /\ Linked' \subseteq Linked
      /\ call'[c].in \notin {"unlinked", "start"}
      /\ \A d \in Threads : d # c => call'[d] = call[d]
  BY <1>1, CallerLinksNone
<1>3. \A u \in Timers : Starting(u)' => Starting(u)
  BY <1>1, <1>2 DEF Starting
<1>4. CASE StartResumes(c)
  <2>1. ~Stopping(c)' /\ UNCHANGED stopped
    BY <1>1, <1>4 DEF StartResumes, CallTypes, Stopping, Idle
  <2> QED
    BY <1>2, <1>3, <2>1, StopsKept
<1>5. ASSUME NEW t \in Timers, CallStop(c, t)
      PROVE  StopInv'
  <2>1. call'[c].in = "stop" /\ call'[c].timer = t /\ UNCHANGED stopped
    BY <1>1, <1>5 DEF CallStop, CallTypes
  <2>2. <<c, t>> \in Stops /\ activated[t]
    BY <1>5 DEF CallStop
  <2>3. ~Starting(t)
    BY <2>2 DEF StopInv, OnceInv, StartsAlone, Starting
  <2> QED
    BY <1>2, <1>3, <2>1, <2>2, <2>3, StopsKept
<1>6. CASE StopUnlinks(c)
  <2>1. /\ call[c].in = "stop" /\ UNCHANGED stopped
        /\ call'[c].in = "stopped" /\ call'[c].timer = call[c].timer
    BY <1>1, <1>6 DEF StopUnlinks, CallTypes
  <2>2. call[c].timer \in Timers /\ Stopping(c)
    BY <1>1, <2>1, StopInvTypes DEF Stopping
  <2>3. <<c, call[c].timer>> \in Stops /\ ~Starting(call[c].timer)
    BY <1>1, <2>2 DEF StopInv, StopsAlone
  <2>4. call[c].timer \notin Linked'
    BY <1>1, <1>6, WithoutIs DEF StopUnlinks, Linked
  <2> QED
    BY <1>2, <1>3, <2>1, <2>2, <2>3, <2>4, StopsKept
<1>7. CASE StopClears(c)
  <2>1. call[c].in = "stopped" /\ call' = [call EXCEPT ![c] = Idle]
    BY <1>7 DEF StopClears
  <2>2. ~Stopping(c)'
    BY <1>1, <2>1 DEF CallTypes, Stopping, Idle
  <2>3. call[c].timer \in Timers /\ Stopping(c)
    BY <1>1, <2>1, StopInvTypes DEF Stopping
  <2>4. ~Starting(call[c].timer) /\ call[c].timer \notin Linked
    BY <1>1, <2>1, <2>3 DEF StopInv, StopsAlone
  <2>5. \A u \in Timers : stopped'[u] => stopped[u] \/ u = call[c].timer
    BY <1>1, <1>7 DEF StopClears, ListTypes
  <2> QED
    BY <1>2, <1>3, <2>2, <2>4, <2>5, StopsKept
<1> QED
  BY <1>4, <1>5, <1>6, <1>7

LEMMA StopStep ==
  ASSUME OneStarter, StoppersOutrank, StopInv, [Next]_vars
  PROVE  StopInv'
<1>1. /\ TimerInv /\ TypeOK /\ ListTypes /\ CheckTypes /\ CallTypes /\ Fired
      /\ TimerThread \in Threads
  BY StopInvTypes
<1>2. OnceInv'
  BY OnceStep DEF StopInv
<1>3. CASE UNCHANGED vars \/ Tick \/ NextTimeout \/ SuspendSelf \/ Delay \/ Check \/ CheckEnds
  <2>1. UNCHANGED <<rt_soft_timer_list, stopped, call>>
    BY <1>3 DEF vars, Tick, NextTimeout, SuspendSelf, Delay, Check, CheckEnds, listVars
  <2>2. Linked' \subseteq Linked /\ \A t \in Timers : Starting(t)' => Starting(t)
    BY <2>1 DEF Linked, Starting
  <2> QED
    BY <1>2, <2>1, <2>2, StopsKept
<1>4. CASE Fire
  <2>1. UNCHANGED <<stopped, call>> /\ Linked' \subseteq Linked
    BY <1>1, <1>4, WithoutIs DEF Fire, Linked
  <2>2. \A t \in Timers : Starting(t)' => Starting(t)
    BY <2>1 DEF Starting
  <2> QED
    BY <1>2, <2>1, <2>2, StopsKept
<1>5. CASE CallbackReturns
  BY <1>2, <1>5, StopsReturned
<1>6. ASSUME NEW t \in Timers, CallbackStarts(t)
      PROVE  StopInv'
  <2>1. \A d \in Threads : ~Stopping(d)
    BY <1>6, StopperAbove DEF CallbackStarts
  <2> QED
    BY <1>1, <1>2, <1>6, <2>1, StopsStarted DEF CallbackStarts
<1>7. ASSUME NEW c \in Threads, call[c].in = "start", StartLinks(c, call[c].timer)
      PROVE  StopInv'
  <2>1. Linked' = Linked \cup {call[c].timer}
    BY <1>2, <1>7, LinkOnce DEF StopInv, OnceInv
  <2> QED
    BY <1>2, <1>7, <2>1, StopsLinked
<1>8. CASE CallbackReads \/ CallbackLinks
  BY <1>1, <1>2, <1>7, <1>8, StopsRead DEF CallbackReads, CallbackLinks
<1>9. ASSUME NEW c \in Callers
      PROVE  /\ CallerSteps(c) => StopInv'
             /\ \A t \in Timers : CallStart(c, t) \/ CallStop(c, t) => StopInv'
  <2>1. c \in Threads
    BY DEF Threads
  <2>2. CASE CallerLinks(c)
    BY <1>7, <2>1, <2>2 DEF CallerLinks
  <2>3. CASE CallerReads(c)
    BY <1>2, <2>1, <2>3, StopsRead DEF CallerReads
  <2>4. ASSUME NEW t \in Timers, CallStart(c, t)
        PROVE  StopInv'
    <3>1. Runs(c) /\ call[c] = Idle /\ c \in Starters(t) /\ StartUnlinks(c, t)
      BY <2>4 DEF CallStart, Starters
    <3>2. ASSUME NEW d \in Threads, Stopping(d), call[d].timer = t
          PROVE  FALSE
      <4>1. /\ call[d] # Idle /\ \A e \in Lower : ~Runs(e)
            /\ Starters(call[d].timer) \subseteq {d, TimerThread} \cup Lower
        BY <3>2, StopperAbove
      <4>2. c # TimerThread
        BY TimersAssumption
      <4> QED
        BY <3>1, <3>2, <4>1, <4>2
    <3> QED
      BY <1>2, <2>1, <3>1, <3>2, StopsStarted
  <2> QED
    BY <1>2, <2>2, <2>3, <2>4, StopsCaller DEF CallerSteps
<1> QED
  BY <1>3, <1>4, <1>5, <1>6, <1>8, <1>9 DEF Next, TimerThreadStep

(* A timer stays out of the list from the return of a successful           *)
(* rt_timer_stop to its next start, if only threads above the timer thread *)
(* stop timers: what it was about to do when the call preempted it cannot  *)
(* link the timer again.                                                   *)
THEOREM StoppedStaysOut ==
  ASSUME OneStarter, StoppersOutrank
  PROVE  Spec => []StoppedNeverListed
<1>1. Init => StopInv
  BY TimerInvInit DEF Init, StopInv, OnceInv, StartsAlone, StopsAlone, Stopping, StoppedOut, Idle
<1>2. StopInv /\ [Next]_vars => StopInv'
  BY StopStep
<1>3. StopInv => StoppedNeverListed
  BY StopInvTypes, ListedIs DEF StopInv, StoppedOut, StoppedNeverListed
<1> QED
  BY <1>1, <1>2, <1>3, PTL DEF Spec
===============================================================================
