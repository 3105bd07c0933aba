------------------------------ MODULE BoundedQueue ------------------------------
(***************************************************************************)
(* What a message queue of the SDK promises its users, whatever it is      *)
(* built from: messages are delivered once, unchanged, in the order they   *)
(* were accepted, to one reader each; at most Capacity of them wait; a     *)
(* push that fails leaves no trace.                                        *)
(***************************************************************************)
EXTENDS Naturals, Sequences

CONSTANTS Writers, Readers, Messages, None, Capacity

VARIABLES
  queue,    \* the messages waiting, oldest first
  want,     \* want[w]: the message writer w is trying to push
  got       \* got[r]: the last message reader r was given

vars == <<queue, want, got>>

Init ==
  /\ queue = << >>
  /\ want = [w \in Writers |-> None]
  /\ got = [r \in Readers |-> None]

Request(w, m) ==
  /\ want[w] = None
  /\ want' = [want EXCEPT ![w] = m]
  /\ UNCHANGED <<queue, got>>

Put(w) ==
  /\ want[w] # None
  /\ Len(queue) < Capacity
  /\ queue' = Append(queue, want[w])
  /\ want' = [want EXCEPT ![w] = None]
  /\ UNCHANGED got

Withdraw(w) ==
  /\ want[w] # None
  /\ want' = [want EXCEPT ![w] = None]
  /\ UNCHANGED <<queue, got>>

Get(r) ==
  /\ queue # << >>
  /\ got' = [got EXCEPT ![r] = Head(queue)]
  /\ queue' = Tail(queue)
  /\ UNCHANGED want

(* A reader asks again: its previous message is its own business. *)
Forget(r) ==
  /\ got' = [got EXCEPT ![r] = None]
  /\ UNCHANGED <<queue, want>>

Next ==
  \/ \E w \in Writers, m \in Messages : Request(w, m)
  \/ \E w \in Writers : Put(w) \/ Withdraw(w)
  \/ \E r \in Readers : Get(r) \/ Forget(r)

Spec == Init /\ [][Next]_vars
===============================================================================
