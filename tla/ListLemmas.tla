------------------------------- MODULE ListLemmas -------------------------------
(***************************************************************************)
(* What TLAPS proves of the list operations that several components use:   *)
(* appending to, inserting into and taking out of lists without            *)
(* duplicates; of least elements; and of the size of a set that gains or   *)
(* loses an element.                                                       *)
(***************************************************************************)
EXTENDS SequencesExt, SequenceTheorems, FiniteSetTheorems, WellFoundedInduction,
        TLAPS

LEMMA RangeAppend ==
  ASSUME NEW S, NEW list \in Seq(S), NEW e \in S
  PROVE  /\ Append(list, e) \in Seq(S)
         /\ Range(Append(list, e)) = Range(list) \cup {e}
         /\ IsInjective(list) /\ e \notin Range(list) => IsInjective(Append(list, e))
<1> DEFINE n == Len(list)
           longer == Append(list, e)
<1>1. n \in Nat /\ DOMAIN list = 1..n
  OBVIOUS
<1>2. /\ longer \in Seq(S) /\ DOMAIN longer = 1..(n + 1)
      /\ \A i \in 1..n : longer[i] = list[i]
      /\ longer[n + 1] = e
  BY AppendProperties
<1>3. \A i \in 1..(n + 1) : i \in 1..n \/ i = n + 1
  BY <1>1
<1>4. 1..n \subseteq 1..(n + 1) /\ n + 1 \in 1..(n + 1)
  BY <1>1
<1> HIDE DEF longer, n
<1>5. Range(longer) = Range(list) \cup {e}
  <2>1. ASSUME NEW x \in Range(longer) PROVE x \in Range(list) \cup {e}
    <3>1. PICK i \in 1..(n + 1) : x = longer[i]
      BY <1>2 DEF Range
    <3> QED
      BY <1>1, <1>2, <1>3, <3>1 DEF Range
  <2>2. ASSUME NEW x \in Range(list) PROVE x \in Range(longer)
    <3>1. PICK i \in 1..n : x = list[i]
      BY <1>1 DEF Range
    <3>2. x = longer[i] /\ i \in DOMAIN longer
      BY <1>2, <1>4, <3>1
    <3> QED
      BY <3>2 DEF Range
  <2>3. e \in Range(longer)
    BY <1>2, <1>4 DEF Range
  <2> QED
    BY <2>1, <2>2, <2>3
<1>6. ASSUME IsInjective(list), e \notin Range(list)
      PROVE  IsInjective(longer)
  <2>1. \A i \in 1..n : list[i] # e
    BY <1>1, <1>6 DEF Range
  <2> QED
    BY <1>1, <1>2, <1>3, <1>6, <2>1 DEF IsInjective
<1> QED
  BY <1>2, <1>5, <1>6 DEF longer

(* Removing the element at a position shifts those after it.               *)
LEMMA RemoveAtElements ==
  ASSUME NEW S, NEW list \in Seq(S), NEW k \in 1..Len(list)
  PROVE  /\ RemoveAt(list, k) \in Seq(S)
         /\ Len(RemoveAt(list, k)) = Len(list) - 1
         /\ \A i \in 1..(Len(list) - 1) :
              RemoveAt(list, k)[i] = IF i < k THEN list[i] ELSE list[i + 1]
<1> DEFINE n == Len(list)
           before == SubSeq(list, 1, k - 1)
           after == SubSeq(list, k + 1, n)
<1>1. n \in Nat /\ k \in 1..n /\ \A i \in 1..n : list[i] \in S
  BY ElementOfSeq
<1>2. /\ before \in Seq(S) /\ Len(before) = k - 1
      /\ \A i \in 1..(k - 1) : before[i] = list[i]
  <2>1. \A i \in 1..(k - 1) : list[i] \in S
    BY <1>1
  <2> QED
    BY <1>1, <2>1, SubSeqProperties
<1>3. /\ after \in Seq(S) /\ Len(after) = n - k
      /\ \A i \in 1..(n - k) : after[i] = list[k + i]
  <2>1. \A i \in (k + 1)..n : list[i] \in S
    BY <1>1
  <2>2. /\ after \in Seq(S)
        /\ Len(after) = IF k + 1 <= n THEN n - (k + 1) + 1 ELSE 0
        /\ \A i \in 1..(n - (k + 1) + 1) : after[i] = list[(k + 1) + i - 1]
    BY <1>1, <2>1, SubSeqProperties
  <2> QED
    BY <1>1, <2>2
<1> HIDE DEF n, before, after
<1>4. /\ before \o after \in Seq(S)
      /\ Len(before \o after) = (k - 1) + (n - k)
      /\ \A i \in 1..((k - 1) + (n - k)) :
           (before \o after)[i] = IF i <= k - 1 THEN before[i] ELSE after[i - (k - 1)]
  <2>1. /\ before \o after \in Seq(S)
        /\ Len(before \o after) = Len(before) + Len(after)
        /\ \A i \in 1..(Len(before) + Len(after)) :
             (before \o after)[i] =
               IF i <= Len(before) THEN before[i] ELSE after[i - Len(before)]
    BY <1>2, <1>3, ConcatProperties
  <2> QED
    BY <1>2, <1>3, <2>1
<1>5. RemoveAt(list, k) = before \o after
  BY DEF RemoveAt, before, after, n
<1>6. ASSUME NEW i \in 1..(n - 1)
      PROVE  (before \o after)[i] = IF i < k THEN list[i] ELSE list[i + 1]
  <2>1. CASE i < k
    BY <1>1, <1>2, <1>4, <2>1
  <2>2. CASE ~(i < k)
    <3>1. i - (k - 1) \in 1..(n - k) /\ k + (i - (k - 1)) = i + 1
      BY <1>1, <2>2
    <3>2. (before \o after)[i] = after[i - (k - 1)]
      BY <1>1, <1>4, <2>2
    <3> QED
      BY <1>1, <1>3, <2>2, <3>1, <3>2
  <2> QED
    BY <1>1, <2>1, <2>2
<1> QED
  BY <1>1, <1>4, <1>5, <1>6 DEF n

(* Taking an element out of a list without duplicates takes it out of the  *)
(* list's elements, and nothing else.                                      *)
LEMMA RemoveAtRange ==
  ASSUME NEW S, NEW list \in Seq(S), IsInjective(list), NEW k \in 1..Len(list)
  PROVE  /\ RemoveAt(list, k) \in Seq(S)
         /\ IsInjective(RemoveAt(list, k))
         /\ Range(RemoveAt(list, k)) = Range(list) \ {list[k]}
<1> DEFINE n == Len(list)
           e == list[k]
           rest == RemoveAt(list, k)
<1>1. n \in Nat /\ DOMAIN list = 1..n /\ k \in 1..n /\ e = list[k]
  OBVIOUS
<1>2. /\ rest \in Seq(S) /\ DOMAIN rest = 1..(n - 1)
      /\ \A i \in 1..(n - 1) : rest[i] = IF i < k THEN list[i] ELSE list[i + 1]
  <2>1. /\ rest \in Seq(S) /\ Len(rest) = n - 1
        /\ \A i \in 1..(n - 1) : rest[i] = IF i < k THEN list[i] ELSE list[i + 1]
    BY <1>1, RemoveAtElements
  <2> HIDE DEF rest
  <2> QED
    BY <2>1
<1> HIDE DEF n, rest
<1>3. \A i, j \in 1..n : list[i] = list[j] => i = j
  BY <1>1 DEF IsInjective
<1>4. \A i \in 1..(n - 1) : \E j \in 1..n \ {k} : rest[i] = list[j]
  <2> SUFFICES ASSUME NEW i \in 1..(n - 1)
               PROVE  \E j \in 1..n \ {k} : rest[i] = list[j]
    OBVIOUS
  <2>1. CASE i < k
    <3>1. i \in 1..n \ {k} /\ rest[i] = list[i]
      BY <1>1, <1>2, <2>1
    <3> QED
      BY <3>1
  <2>2. CASE ~(i < k)
    <3>1. i + 1 \in 1..n \ {k} /\ rest[i] = list[i + 1]
      BY <1>1, <1>2, <2>2
    <3> QED
      BY <3>1
  <2> QED
    BY <2>1, <2>2
<1>5. \A j \in 1..n \ {k} : \E i \in 1..(n - 1) : rest[i] = list[j]
  <2> SUFFICES ASSUME NEW j \in 1..n \ {k}
               PROVE  \E i \in 1..(n - 1) : rest[i] = list[j]
    OBVIOUS
  <2>1. CASE j < k
    <3>1. j \in 1..(n - 1) /\ rest[j] = list[j]
      BY <1>1, <1>2, <2>1
    <3> QED
      BY <3>1
  <2>2. CASE ~(j < k)
    <3>1. j - 1 \in 1..(n - 1) /\ rest[j - 1] = list[j]
      BY <1>1, <1>2, <2>2
    <3> QED
      BY <3>1
  <2> QED
    BY <2>1, <2>2
<1>6. IsInjective(rest)
  <2> SUFFICES ASSUME NEW i \in 1..(n - 1), NEW j \in 1..(n - 1), rest[i] = rest[j]
               PROVE  i = j
    BY <1>2 DEF IsInjective
  <2>1. /\ rest[i] = list[IF i < k THEN i ELSE i + 1]
        /\ rest[j] = list[IF j < k THEN j ELSE j + 1]
        /\ (IF i < k THEN i ELSE i + 1) \in 1..n
        /\ (IF j < k THEN j ELSE j + 1) \in 1..n
    BY <1>1, <1>2
  <2>2. (IF i < k THEN i ELSE i + 1) = (IF j < k THEN j ELSE j + 1)
    BY <1>3, <2>1
  <2> QED
    BY <1>1, <2>2
<1>7. Range(rest) = Range(list) \ {e}
  <2>1. ASSUME NEW x \in Range(rest) PROVE x \in Range(list) \ {e}
    <3>1. PICK i \in 1..(n - 1) : x = rest[i]
      BY <1>2 DEF Range
    <3>2. PICK j \in 1..n \ {k} : x = list[j]
      BY <1>4, <3>1
    <3> QED
      BY <1>1, <1>3, <3>2 DEF Range
  <2>2. ASSUME NEW x \in Range(list) \ {e} PROVE x \in Range(rest)
    <3>1. PICK j \in 1..n : x = list[j]
      BY <1>1 DEF Range
    <3>2. j # k
      BY <1>1, <3>1
    <3>3. PICK i \in 1..(n - 1) : x = rest[i]
      BY <1>5, <3>1, <3>2
    <3> QED
      BY <1>2, <3>3 DEF Range
  <2> QED
    BY <2>1, <2>2
<1> QED
  BY <1>2, <1>6, <1>7 DEF e, rest

(* Inserting an element at a position shifts those from there on.          *)
LEMMA InsertAtElements ==
  ASSUME NEW S, NEW list \in Seq(S), NEW k \in 1..Len(list) + 1, NEW e \in S
  PROVE  /\ InsertAt(list, k, e) \in Seq(S)
         /\ Len(InsertAt(list, k, e)) = Len(list) + 1
         /\ \A i \in 1..(Len(list) + 1) :
              InsertAt(list, k, e)[i] = IF i < k THEN list[i]
                                        ELSE IF i = k THEN e ELSE list[i - 1]
<1> DEFINE n == Len(list)
           before == SubSeq(list, 1, k - 1)
           after == SubSeq(list, k, n)
           head == before \o <<e>>
<1>1. n \in Nat /\ k \in 1..(n + 1) /\ \A i \in 1..n : list[i] \in S
  BY ElementOfSeq
<1>2. /\ before \in Seq(S) /\ Len(before) = k - 1
      /\ \A i \in 1..(k - 1) : before[i] = list[i]
  <2>1. \A i \in 1..(k - 1) : list[i] \in S
    BY <1>1
  <2> QED
    BY <1>1, <2>1, SubSeqProperties
<1>3. /\ after \in Seq(S) /\ Len(after) = n - k + 1
      /\ \A i \in 1..(n - k + 1) : after[i] = list[k + i - 1]
  <2>1. \A i \in k..n : list[i] \in S
    BY <1>1
  <2>2. /\ after \in Seq(S)
        /\ Len(after) = IF k <= n THEN n - k + 1 ELSE 0
        /\ \A i \in 1..(n - k + 1) : after[i] = list[k + i - 1]
    BY <1>1, <2>1, SubSeqProperties
  <2> QED
    BY <1>1, <2>2
<1>4. <<e>> \in Seq(S) /\ Len(<<e>>) = 1 /\ <<e>>[1] = e
  OBVIOUS
<1> HIDE DEF n, before, after
<1>5. /\ head \in Seq(S) /\ Len(head) = k
      /\ \A i \in 1..k : head[i] = IF i < k THEN list[i] ELSE e
  <2>1. /\ head \in Seq(S)
        /\ Len(head) = Len(before) + Len(<<e>>)
        /\ \A i \in 1..(Len(before) + Len(<<e>>)) :
             head[i] = IF i <= Len(before) THEN before[i] ELSE <<e>>[i - Len(before)]
    BY <1>2, <1>4, ConcatProperties
  <2> HIDE DEF head
  <2>2. Len(head) = k /\ \A i \in 1..k : head[i] = IF i <= k - 1 THEN before[i] ELSE <<e>>[i - (k - 1)]
    BY <1>1, <1>2, <1>4, <2>1
  <2>3. head[k] = e
    BY <1>1, <1>4, <2>2
  <2>4. \A i \in 1..(k - 1) : head[i] = list[i]
    BY <1>1, <1>2, <2>2
  <2> QED
    BY <1>1, <2>1, <2>2, <2>3, <2>4
<1> HIDE DEF head
<1>6. /\ head \o after \in Seq(S)
      /\ Len(head \o after) = k + (n - k + 1)
      /\ \A i \in 1..(k + (n - k + 1)) :
           (head \o after)[i] = IF i <= k THEN head[i] ELSE after[i - k]
  <2>1. /\ head \o after \in Seq(S)
        /\ Len(head \o after) = Len(head) + Len(after)
        /\ \A i \in 1..(Len(head) + Len(after)) :
             (head \o after)[i] = IF i <= Len(head) THEN head[i] ELSE after[i - Len(head)]
    BY <1>3, <1>5, ConcatProperties
  <2> QED
    BY <1>3, <1>5, <2>1
<1>7. InsertAt(list, k, e) = head \o after
  BY DEF InsertAt, before, after, head, n
<1>8. ASSUME NEW i \in 1..(n + 1)
      PROVE  (head \o after)[i] = IF i < k THEN list[i] ELSE IF i = k THEN e ELSE list[i - 1]
  <2>1. CASE i <= k
    BY <1>1, <1>5, <1>6, <2>1
  <2>2. CASE ~(i <= k)
    <3>1. i - k \in 1..(n - k + 1) /\ k + (i - k) - 1 = i - 1
      BY <1>1, <2>2
    <3>2. (head \o after)[i] = after[i - k]
      BY <1>1, <1>6, <2>2
    <3> QED
      BY <1>1, <1>3, <2>2, <3>1, <3>2
  <2> QED
    BY <1>1, <2>1, <2>2
<1> QED
  BY <1>1, <1>6, <1>7, <1>8 DEF n

LEMMA InsertAtRange ==
  ASSUME NEW S, NEW list \in Seq(S), IsInjective(list),
         NEW k \in 1..Len(list) + 1, NEW e \in S, e \notin Range(list)
  PROVE  /\ InsertAt(list, k, e) \in Seq(S)
         /\ IsInjective(InsertAt(list, k, e))
         /\ Range(InsertAt(list, k, e)) = Range(list) \cup {e}
<1> DEFINE n == Len(list)
           more == InsertAt(list, k, e)
<1>1. n \in Nat /\ DOMAIN list = 1..n /\ k \in 1..(n + 1)
  OBVIOUS
<1>2. /\ more \in Seq(S) /\ DOMAIN more = 1..(n + 1)
      /\ \A i \in 1..(n + 1) :
           more[i] = IF i < k THEN list[i] ELSE IF i = k THEN e ELSE list[i - 1]
  <2>1. /\ more \in Seq(S) /\ Len(more) = n + 1
        /\ \A i \in 1..(n + 1) :
             more[i] = IF i < k THEN list[i] ELSE IF i = k THEN e ELSE list[i - 1]
    BY InsertAtElements
  <2> HIDE DEF more
  <2> QED
    BY <2>1
<1> HIDE DEF n, more
<1>3. \A i, j \in 1..n : list[i] = list[j] => i = j
  BY <1>1 DEF IsInjective
<1>4. \A i \in 1..n : list[i] # e
  BY <1>1 DEF Range
<1>5. IsInjective(more)
  <2> SUFFICES ASSUME NEW i \in 1..(n + 1), NEW j \in 1..(n + 1), more[i] = more[j]
               PROVE  i = j
    BY <1>2 DEF IsInjective
  <2>1. CASE i = k
    BY <1>1, <1>2, <1>4, <2>1
  <2>2. CASE j = k
    BY <1>1, <1>2, <1>4, <2>2
  <2>3. CASE i # k /\ j # k
    <3>1. /\ more[i] = list[IF i < k THEN i ELSE i - 1]
          /\ more[j] = list[IF j < k THEN j ELSE j - 1]
          /\ (IF i < k THEN i ELSE i - 1) \in 1..n
          /\ (IF j < k THEN j ELSE j - 1) \in 1..n
      BY <1>1, <1>2, <2>3
    <3>2. (IF i < k THEN i ELSE i - 1) = (IF j < k THEN j ELSE j - 1)
      BY <1>3, <3>1
    <3> QED
      BY <1>1, <2>3, <3>2
  <2> QED
    BY <2>1, <2>2, <2>3
<1>6. Range(more) = Range(list) \cup {e}
  <2>1. ASSUME NEW x \in Range(more) PROVE x \in Range(list) \cup {e}
    <3>1. PICK i \in 1..(n + 1) : x = more[i]
      BY <1>2 DEF Range
    <3>2. CASE i = k
      BY <1>2, <3>1, <3>2
    <3>3. CASE i # k
      <4>1. PICK j \in 1..n : x = list[j]
        BY <1>1, <1>2, <3>1, <3>3
      <4> QED
        BY <1>1, <4>1 DEF Range
    <3> QED
      BY <3>2, <3>3
  <2>2. ASSUME NEW x \in Range(list) PROVE x \in Range(more)
    <3>1. PICK j \in 1..n : x = list[j]
      BY <1>1 DEF Range
    <3>2. PICK i \in 1..(n + 1) : x = more[i]
      <4>1. CASE j < k
        <5>1. j \in 1..(n + 1) /\ more[j] = list[j]
          BY <1>1, <1>2, <4>1
        <5> QED
          BY <3>1, <5>1
      <4>2. CASE ~(j < k)
        <5>1. j + 1 \in 1..(n + 1) /\ more[j + 1] = list[j]
          BY <1>1, <1>2, <4>2
        <5> QED
          BY <3>1, <5>1
      <4> QED
        BY <4>1, <4>2
    <3> QED
      BY <1>2, <3>2 DEF Range
  <2>3. e \in Range(more)
    <3>1. k \in 1..(n + 1) /\ more[k] = e
      BY <1>1, <1>2
    <3> QED
      BY <1>2, <3>1 DEF Range
  <2> QED
    BY <2>1, <2>2, <2>3
<1> QED
  BY <1>2, <1>5, <1>6 DEF more

(* Linking an element in front of a list.                                  *)
LEMMA ConsRange ==
  ASSUME NEW S, NEW list \in Seq(S), IsInjective(list), NEW e \in S, e \notin Range(list)
  PROVE  /\ <<e>> \o list \in Seq(S)
         /\ IsInjective(<<e>> \o list)
         /\ Range(<<e>> \o list) = Range(list) \cup {e}
<1> DEFINE n == Len(list)
           longer == <<e>> \o list
<1>1. n \in Nat /\ DOMAIN list = 1..n
  OBVIOUS
<1>2. /\ longer \in Seq(S) /\ DOMAIN longer = 1..(n + 1)
      /\ \A i \in 1..(n + 1) : longer[i] = IF i = 1 THEN e ELSE list[i - 1]
  <2>1. <<e>> \in Seq(S) /\ Len(<<e>>) = 1 /\ <<e>>[1] = e
    OBVIOUS
  <2>2. /\ longer \in Seq(S) /\ Len(longer) = 1 + n
        /\ \A i \in 1..(1 + n) : longer[i] = IF i <= 1 THEN <<e>>[i] ELSE list[i - 1]
    BY <1>1, <2>1, ConcatProperties
  <2> HIDE DEF longer, n
  <2> QED
    BY <1>1, <2>1, <2>2
<1> HIDE DEF longer, n
<1>3. \A i \in 1..(n + 1) : i = 1 \/ i - 1 \in 1..n
  BY <1>1
<1>4. \A i \in 1..n : list[i] # e
  BY <1>1 DEF Range
<1>5. IsInjective(longer)
  <2> SUFFICES ASSUME NEW i \in 1..(n + 1), NEW j \in 1..(n + 1), longer[i] = longer[j]
               PROVE  i = j
    BY <1>2 DEF IsInjective
  <2>1. CASE i = 1 \/ j = 1
    BY <1>2, <1>3, <1>4, <2>1
  <2>2. CASE i # 1 /\ j # 1
    <3>1. i - 1 \in 1..n /\ j - 1 \in 1..n /\ list[i - 1] = list[j - 1]
      BY <1>2, <1>3, <2>2
    <3>2. i - 1 = j - 1
      BY <1>1, <3>1 DEF IsInjective
    <3> QED
      BY <1>1, <3>2
  <2> QED
    BY <2>1, <2>2
<1>6. Range(longer) = Range(list) \cup {e}
  <2>1. ASSUME NEW x \in Range(longer) PROVE x \in Range(list) \cup {e}
    <3>1. PICK i \in 1..(n + 1) : x = longer[i]
      BY <1>2 DEF Range
    <3> QED
      BY <1>1, <1>2, <1>3, <3>1 DEF Range
  <2>2. ASSUME NEW x \in Range(list) PROVE x \in Range(longer)
    <3>1. PICK i \in 1..n : x = list[i]
      BY <1>1 DEF Range
    <3>2. i + 1 \in 1..(n + 1) /\ longer[i + 1] = x
      BY <1>1, <1>2, <3>1
    <3> QED
      BY <1>2, <3>2 DEF Range
  <2>3. e \in Range(longer)
    <3>1. 1 \in 1..(n + 1) /\ longer[1] = e
      BY <1>1, <1>2
    <3> QED
      BY <1>2, <3>1 DEF Range
  <2> QED
    BY <2>1, <2>2, <2>3
<1> QED
  BY <1>2, <1>5, <1>6 DEF longer

(* Taking the first element off a list without duplicates.                 *)
LEMMA TailRange ==
  ASSUME NEW S, NEW list \in Seq(S), IsInjective(list), list # << >>
  PROVE  /\ Head(list) \in Range(list)
         /\ Tail(list) \in Seq(S)
         /\ IsInjective(Tail(list))
         /\ Range(Tail(list)) = Range(list) \ {Head(list)}
<1> DEFINE n == Len(list)
           rest == Tail(list)
<1>1. /\ n \in Nat \ {0} /\ DOMAIN list = 1..n /\ Head(list) = list[1]
      /\ rest \in Seq(S) /\ DOMAIN rest = 1..(n - 1)
      /\ \A i \in 1..(n - 1) : rest[i] = list[i + 1]
  BY HeadTailProperties
<1> HIDE DEF n, rest
<1>2. \A i, j \in 1..n : list[i] = list[j] => i = j
  BY <1>1 DEF IsInjective
<1>3. \A i \in 1..(n - 1) : i + 1 \in 1..n /\ i + 1 # 1
  BY <1>1
<1>4. 1 \in 1..n
  BY <1>1
<1>5. Head(list) \in Range(list)
  BY <1>1, <1>4 DEF Range
<1>6. IsInjective(rest)
  <2> SUFFICES ASSUME NEW i \in 1..(n - 1), NEW j \in 1..(n - 1), rest[i] = rest[j]
               PROVE  i = j
    BY <1>1 DEF IsInjective
  <2>1. i + 1 = j + 1
    BY <1>1, <1>2, <1>3
  <2> QED
    BY <2>1
<1>7. Range(rest) = Range(list) \ {Head(list)}
  <2>1. ASSUME NEW x \in Range(rest) PROVE x \in Range(list) \ {Head(list)}
    <3>1. PICK i \in 1..(n - 1) : x = rest[i]
      BY <1>1 DEF Range
    <3> QED
      BY <1>1, <1>2, <1>3, <1>4, <3>1 DEF Range
  <2>2. ASSUME NEW x \in Range(list) \ {Head(list)} PROVE x \in Range(rest)
    <3>1. PICK j \in 1..n : x = list[j]
      BY <1>1 DEF Range
    <3>2. j - 1 \in 1..(n - 1) /\ rest[j - 1] = x
      BY <1>1, <3>1
    <3> QED
      BY <1>1, <3>2 DEF Range
  <2> QED
    BY <2>1, <2>2
<1> QED
  BY <1>1, <1>5, <1>6, <1>7 DEF rest

(* A sequence known by its elements is the one longer, or shorter, list.   *)
LEMMA IsAppend ==
  ASSUME NEW S, NEW n \in Nat, NEW f \in [1..n -> S], NEW g \in [1..(n + 1) -> S],
         \A i \in 1..n : g[i] = f[i]
  PROVE  Len(f) = n /\ g = Append(f, g[n + 1])
<1>1. f \in Seq(S) /\ Len(f) = n /\ g \in Seq(S) /\ Len(g) = n + 1
  BY SeqDef
<1>2. n + 1 \in 1..(n + 1) /\ g[n + 1] \in S
  OBVIOUS
<1>3. /\ Append(f, g[n + 1]) \in Seq(S)
      /\ Len(Append(f, g[n + 1])) = n + 1
      /\ \A i \in 1..n : Append(f, g[n + 1])[i] = f[i]
      /\ Append(f, g[n + 1])[n + 1] = g[n + 1]
  BY <1>1, <1>2, AppendProperties
<1>4. \A i \in 1..(n + 1) : g[i] = Append(f, g[n + 1])[i]
  <2>1. \A i \in 1..(n + 1) : i \in 1..n \/ i = n + 1
    OBVIOUS
  <2> QED
    BY <1>3, <2>1
<1>5. \A i \in 1..Len(g) : g[i] = Append(f, g[n + 1])[i]
  BY <1>1, <1>4
<1> QED
  BY <1>1, <1>3, <1>5, SeqEqual

LEMMA IsTail ==
  ASSUME NEW S, NEW n \in Nat \ {0}, NEW f \in [1..n -> S], NEW g \in [1..(n - 1) -> S],
         \A i \in 1..(n - 1) : g[i] = f[i + 1]
  PROVE  f # << >> /\ Head(f) = f[1] /\ g = Tail(f)
<1>1. f \in Seq(S) /\ Len(f) = n /\ g \in Seq(S) /\ Len(g) = n - 1
  <2>1. n - 1 \in Nat
    OBVIOUS
  <2> QED
    BY <2>1, SeqDef
<1>2. f # << >> /\ Head(f) = f[1]
  BY <1>1
<1>3. /\ Tail(f) \in Seq(S) /\ Len(Tail(f)) = n - 1
      /\ \A i \in 1..(n - 1) : Tail(f)[i] = f[i + 1]
  BY <1>1, <1>2, HeadTailProperties
<1>4. \A i \in 1..Len(g) : g[i] = Tail(f)[i]
  BY <1>1, <1>3
<1> QED
  BY <1>1, <1>2, <1>3, <1>4, SeqEqual
(* The first element with a property, and removing the first occurrence.   *)
LEMMA LeastElement ==
  ASSUME NEW T, T \subseteq Nat, T # {}
  PROVE  \E x \in T : \A y \in T : x <= y
<1>1. PICK R : IsWellFoundedOn(R, Nat) /\ \A y, x \in Nat : <<y, x>> \in R <=> y < x
  <2> DEFINE Q == OpToRel(<, Nat)
  <2>1. IsWellFoundedOn(Q, Nat)
    BY NatLessThanWellFounded
  <2>2. \A y, x \in Nat : <<y, x>> \in Q <=> y < x
    BY DEF OpToRel
  <2> HIDE DEF Q
  <2> QED
    BY <2>1, <2>2, Zenon
<1>2. IsWellFoundedOn(R, Nat)
  BY <1>1
<1>3. \E x \in T : \A y \in T : ~(<<y, x>> \in R)
  BY <1>2, WFMin
<1>4. PICK x \in T : \A y \in T : ~(<<y, x>> \in R)
  BY <1>3, Zenon
<1>5. \A y \in T : ~(y < x)
  BY <1>1, <1>4, Zenon
<1>6. x \in Nat /\ \A y \in T : y \in Nat
  OBVIOUS
<1> QED
  BY <1>5, <1>6

LEMMA MinIsLeast ==
  ASSUME NEW T, T \subseteq Nat, T # {}
  PROVE  Min(T) \in T /\ \A y \in T : Min(T) <= y
<1>1. \E x \in T : \A y \in T : x <= y
  BY LeastElement
<1> QED
  BY <1>1 DEF Min

LEMMA RemoveFirstElements ==
  ASSUME NEW S, NEW list \in Seq(S), NEW e
  PROVE  \/ e \notin Range(list) /\ RemoveFirst(list, e) = list
         \/ \E k \in 1..Len(list) : list[k] = e /\ RemoveFirst(list, e) = RemoveAt(list, k)
<1> DEFINE at == {i \in 1..Len(list) : list[i] = e}
<1>1. CASE at = {}
  <2>1. e \notin Range(list)
    BY <1>1 DEF Range
  <2>2. RemoveFirst(list, e) = list
    BY <1>1 DEF RemoveFirst
  <2> QED
    BY <2>1, <2>2
<1>2. CASE at # {}
  <2>1. RemoveFirst(list, e) = RemoveAt(list, Min(at))
    BY <1>2 DEF RemoveFirst, SelectInSeq
  <2>2. at \subseteq Nat
    OBVIOUS
  <2> HIDE DEF at
  <2>3. Min(at) \in at
    BY <1>2, <2>2, MinIsLeast
  <2>4. Min(at) \in 1..Len(list) /\ list[Min(at)] = e
    BY <2>3 DEF at
  <2> QED
    BY <2>1, <2>4
<1> QED
  BY <1>1, <1>2

LEMMA RemoveFirstRange ==
  ASSUME NEW S, NEW list \in Seq(S), IsInjective(list), NEW e
  PROVE  /\ RemoveFirst(list, e) \in Seq(S)
         /\ IsInjective(RemoveFirst(list, e))
         /\ Range(RemoveFirst(list, e)) = Range(list) \ {e}
<1>1. CASE e \notin Range(list) /\ RemoveFirst(list, e) = list
  BY <1>1
<1>2. ASSUME NEW k \in 1..Len(list), list[k] = e, RemoveFirst(list, e) = RemoveAt(list, k)
      PROVE  /\ RemoveFirst(list, e) \in Seq(S)
             /\ IsInjective(RemoveFirst(list, e))
             /\ Range(RemoveFirst(list, e)) = Range(list) \ {e}
  BY <1>2, RemoveAtRange
<1> QED
  BY <1>1, <1>2, RemoveFirstElements
-------------------------------------------------------------------------------
(* The sizes of finite sets, one of which contains the other or nearly so. *)

LEMMA CardKept ==
  ASSUME NEW A, NEW B, IsFiniteSet(B), A \subseteq B
  PROVE  Cardinality(A) \in Nat /\ Cardinality(B) \in Nat /\ Cardinality(A) <= Cardinality(B)
<1>1. IsFiniteSet(A) /\ Cardinality(A) <= Cardinality(B)
  BY FS_Subset
<1> QED
  BY <1>1, FS_CardinalityType

LEMMA CardGains ==
  ASSUME NEW A, NEW B, IsFiniteSet(B), A \subseteq B, NEW x \in B, x \notin A
  PROVE  Cardinality(A) + 1 <= Cardinality(B)
<1>1. IsFiniteSet(A) /\ Cardinality(A) \in Nat
  BY FS_Subset, FS_CardinalityType
<1>2. IsFiniteSet(A \cup {x}) /\ Cardinality(A \cup {x}) = Cardinality(A) + 1
  BY <1>1, FS_AddElement
<1>3. A \cup {x} \subseteq B
  OBVIOUS
<1> QED
  BY <1>2, <1>3, CardKept

LEMMA CardLoses ==
  ASSUME NEW A, NEW B, IsFiniteSet(A), IsFiniteSet(B), NEW x, A \ {x} \subseteq B
  PROVE  Cardinality(A) - 1 <= Cardinality(B)
<1>1. Cardinality(A) \in Nat /\ Cardinality(A \ {x}) \in Nat
  BY FS_RemoveElement, FS_CardinalityType
<1>2. Cardinality(A \ {x}) = IF x \in A THEN Cardinality(A) - 1 ELSE Cardinality(A)
  BY FS_RemoveElement
<1>3. Cardinality(A \ {x}) <= Cardinality(B)
  BY CardKept
<1>4. Cardinality(B) \in Nat
  BY FS_CardinalityType
<1> QED
  BY <1>1, <1>2, <1>3, <1>4
===============================================================================
