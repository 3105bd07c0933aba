------------------------------- MODULE MCMailbox -------------------------------
(* Two senders and two receivers on a ring of two words. *)
EXTENDS Mailbox, TLC
CONSTANTS s1, s2, r1, r2, a, b
MCThreads == {s1, s2, r1, r2}
MCSenders == {s1, s2}
MCReceivers == {r1, r2}
MCMail == {a, b}
(* Every property of the run is a safety property that treats the threads of a
   role, and the words, alike. *)
MCSymmetry ==
  Permutations(MCSenders) \cup Permutations(MCReceivers) \cup Permutations(MCMail)
===============================================================================
