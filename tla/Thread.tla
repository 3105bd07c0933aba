-------------------------------- MODULE Thread --------------------------------
(***************************************************************************)
(* The part of an RT-Thread control block that the blocking kernel calls   *)
(* use (rt-thread/src/thread.c): whether the thread is runnable, the error *)
(* a wake-up left behind, and the time a blocking call may still wait.     *)
(*                                                                         *)
(* Every operator below stands for code that runs with interrupts          *)
(* disabled, so an action built from it is one atomic step.  The lists a   *)
(* thread can wait on belong to the objects of the modules that extend     *)
(* this one.                                                               *)
(***************************************************************************)
EXTENDS Naturals, Sequences, SequencesExt

CONSTANT Threads    \* the threads that call the kernel objects

VARIABLES
  pc,       \* pc[t]: the interrupt-disabled section thread t enters next
  stat,     \* stat[t]: RT_THREAD_READY or RT_THREAD_SUSPEND
  error,    \* error[t]: thread->error, the reason of the last wake-up
  timeout   \* timeout[t]: the time the kernel call t is in may still wait

threadVars == <<pc, stat, error, timeout>>

(* A time argument is 0, a positive number of ticks or RT_WAITING_FOREVER; *)
(* a thread outside the blocking calls has none.                           *)
Timeouts == {"nowait", "ticks", "forever"}
NoTimeout == "none"

ThreadTypeOK ==
  /\ stat \in [Threads -> {"READY", "SUSPEND"}]
  /\ error \in [Threads -> {"EOK", "ETIMEOUT"}]
  /\ timeout \in [Threads -> Timeouts \cup {NoTimeout}]

ThreadInit ==
  /\ pc = [t \in Threads |-> "idle"]
  /\ stat = [t \in Threads |-> "READY"]
  /\ error = [t \in Threads |-> "EOK"]
  /\ timeout = [t \in Threads |-> NoTimeout]

(* A thread executes only while it is in the scheduler's ready table.      *)
At(t, label) == pc[t] = label /\ stat[t] = "READY"

Goto(t, label) == pc' = [pc EXCEPT ![t] = label]

(* A blocking call begins with a time argument and ends without one.       *)
EnterCall(t, label, time) ==
  /\ Goto(t, label)
  /\ timeout' = [timeout EXCEPT ![t] = time]

LeaveCall(t, label) == EnterCall(t, label, NoTimeout)

(* thread->error = RT_EOK; rt_thread_suspend(thread); the thread timer is  *)
(* armed when the call has a bounded time left.                            *)
Suspend(t, label) ==
  /\ stat' = [stat EXCEPT ![t] = "SUSPEND"]
  /\ error' = [error EXCEPT ![t] = "EOK"]
  /\ Goto(t, label)
  /\ UNCHANGED timeout

(* rt_thread_resume: the thread returns to the ready table, its timer is   *)
(* stopped.  The caller takes it off the list it was on.                   *)
Resume(t) == stat' = [stat EXCEPT ![t] = "READY"]

(* rt_ipc_list_resume of the first thread of a list, when there is one.    *)
ResumeFirst(list) ==
  IF list = << >> THEN UNCHANGED stat ELSE Resume(Head(list))

Rest(list) == IF list = << >> THEN list ELSE Tail(list)

(* rt_thread_timeout's rt_list_remove: list without thread t.              *)
Without(list, t) ==
  LET hit == {i \in DOMAIN list : list[i] = t}
  IN  IF hit = {} THEN list ELSE RemoveAt(list, CHOOSE i \in hit : TRUE)

(* rt_thread_timeout, run by the thread timer of a suspended thread.       *)
TimedOut(t) ==
  /\ stat[t] = "SUSPEND"
  /\ timeout[t] = "ticks"
  /\ stat' = [stat EXCEPT ![t] = "READY"]
  /\ error' = [error EXCEPT ![t] = "ETIMEOUT"]
  /\ UNCHANGED <<pc, timeout>>

(* After a wake-up the elapsed ticks are subtracted from a bounded wait:   *)
(* some are left, or none.  "Forever" never shrinks.                       *)
Remaining(t) ==
  IF timeout[t] = "ticks" THEN {"ticks", "nowait"} ELSE {timeout[t]}

(* The common tail of the waiting loops: a woken thread whose error is not *)
(* RT_EOK gives up, the others recompute their time and look again.  Only  *)
(* this code reads thread->error, so the model forgets it afterwards.      *)
WokenGivesUp(t, label, failPc) ==
  /\ At(t, label)
  /\ error[t] # "EOK"
  /\ error' = [error EXCEPT ![t] = "EOK"]
  /\ LeaveCall(t, failPc)
  /\ UNCHANGED stat

WokenRetries(t, label, retryPc) ==
  /\ At(t, label)
  /\ error[t] = "EOK"
  /\ \E left \in Remaining(t) : EnterCall(t, retryPc, left)
  /\ UNCHANGED <<stat, error>>
===============================================================================
