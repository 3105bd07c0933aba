--------------------------------- MODULE Mutex ---------------------------------
(***************************************************************************)
(* The kernel mutex: rt_mutex_take and rt_mutex_release                    *)
(* (rt-thread/src/ipc.c), with recursive takes, priority inheritance,      *)
(* waiters in order of arrival or of priority, and timeouts.  A release    *)
(* hands the mutex over to the first waiter, which finds itself the owner  *)
(* when it runs again.                                                     *)
(*                                                                         *)
(* Both calls run with interrupts disabled up to the point where a waiter  *)
(* is suspended, so each is one step.  Threads take mutexes in ascending   *)
(* order and release the last one taken first.                             *)
(***************************************************************************)
EXTENDS Thread, Integers, FiniteSets

CONSTANTS
  Mutexes,     \* mutexes, numbered in the order in which threads nest them
  Flag,        \* Flag[m]: RT_IPC_FLAG_FIFO or RT_IPC_FLAG_PRIO
  Priority,    \* Priority[t]: the priority thread t was created with, 0 the highest
  Nesting,     \* the threads that take a mutex while they hold another
  MaxTakes,    \* bound: how often a thread takes one mutex it already owns, and once
  HoldRange,   \* hold counts modulo HoldRange: 256 for its rt_uint8_t
  None

ASSUME MutexAssumption ==
  /\ Mutexes \subseteq Nat
  /\ Flag \in [Mutexes -> {"FIFO", "PRIO"}]
  /\ Priority \in [Threads -> Nat]
  /\ Nesting \subseteq Threads /\ None \notin Threads /\ None \notin Mutexes
  /\ MaxTakes \in Nat /\ HoldRange \in Nat /\ 0 < MaxTakes /\ MaxTakes < HoldRange

VARIABLES
  value,               \* value[m]: 1 when m is available
  owner,               \* owner[m]
  hold,                \* hold[m]: takes of the owner that it has not released
  original_priority,   \* original_priority[m]: priority of the owner when it took m
  suspend_thread,      \* suspend_thread[m]: the waiters
  current_priority,    \* current_priority[t]
  waits,               \* waits[t]: the mutex t's rt_mutex_take is suspended on
  held                 \* held[t]: the takes that returned RT_EOK to t, latest last

mutexVars == <<value, owner, hold, original_priority, suspend_thread>>
vars == <<threadVars, mutexVars, current_priority, waits, held>>

Initial == 255         \* original_priority of a mutex without owner

Lower(p, q) == p > q   \* a higher number is a lower priority

TypeOK ==
  /\ ThreadTypeOK /\ pc \in [Threads -> {"idle", "take"}]
  /\ value \in [Mutexes -> {0, 1}] /\ owner \in [Mutexes -> Threads \cup {None}]
  /\ hold \in [Mutexes -> 0..MaxTakes]
  /\ original_priority \in [Mutexes -> Nat]
  /\ suspend_thread \in [Mutexes -> Seq(Threads)]
  /\ current_priority \in [Threads -> Nat]
  /\ waits \in [Threads -> Mutexes \cup {None}]
  /\ held \in [Threads -> Seq(Mutexes)]

(* rt_mutex_create *)
Init ==
  /\ ThreadInit
  /\ value = [m \in Mutexes |-> 1] /\ owner = [m \in Mutexes |-> None]
  /\ hold = [m \in Mutexes |-> 0]
  /\ original_priority = [m \in Mutexes |-> Initial]
  /\ suspend_thread = [m \in Mutexes |-> << >>]
  /\ current_priority = Priority
  /\ waits = [t \in Threads |-> None] /\ held = [t \in Threads |-> << >>]
-------------------------------------------------------------------------------
(* What the callers do: take a mutex they own again, or one that comes     *)
(* after those they hold; release the one they took last.                  *)
Count(s, m) == Cardinality({i \in DOMAIN s : s[i] = m})
Takes(t, m) == Count(held[t], m)

Wants(t, m) ==
  /\ At(t, "idle")
  /\ \/ Takes(t, m) \in 1..MaxTakes-1
     \/ /\ \A i \in DOMAIN held[t] : held[t][i] < m
        /\ held[t] # << >> => t \in Nesting

GivesUp(t, m) == At(t, "idle") /\ held[t] # << >> /\ m = Last(held[t])

Got(t, m) == held' = [held EXCEPT ![t] = Append(@, m)]
-------------------------------------------------------------------------------
(* rt_mutex_take.  The retry after a signal (RT_EINTR) is not built: the   *)
(* kernel is configured without signals.                                   *)

TakeAgain(t, m) ==
  /\ Wants(t, m) /\ owner[m] = t
  /\ hold' = [hold EXCEPT ![m] = (@ + 1) % HoldRange]
  /\ Got(t, m)
  /\ UNCHANGED <<threadVars, value, owner, original_priority, suspend_thread,
                 current_priority, waits>>

TakeAvailable(t, m) ==
  /\ Wants(t, m) /\ owner[m] # t /\ value[m] > 0
  /\ value' = [value EXCEPT ![m] = @ - 1]
  /\ owner' = [owner EXCEPT ![m] = t]
  /\ original_priority' = [original_priority EXCEPT ![m] = current_priority[t]]
  /\ hold' = [hold EXCEPT ![m] = (@ + 1) % HoldRange]
  /\ Got(t, m)
  /\ UNCHANGED <<threadVars, suspend_thread, current_priority, waits>>

(* Mutants: waiters queue at the end whatever the flag, or at the head.    *)
PlaceLast(list, t, flag) == Len(list) + 1
PlaceFirst(list, t, flag) == 1

(* rt_ipc_list_suspend: where thread t goes in a list of waiters.          *)
Place(list, t, flag) ==
  CHOOSE n \in 1..Len(list) + 1 :
    /\ n <= Len(list) => flag = "PRIO" /\ Lower(current_priority[list[n]], current_priority[t])
    /\ \A k \in 1..n-1 : ~(flag = "PRIO" /\ Lower(current_priority[list[k]], current_priority[t]))

Listed(m, t) ==
  suspend_thread' = [suspend_thread EXCEPT ![m] = InsertAt(@, Place(@, t, Flag[m]), t)]

(* The owner's priority is raised to the caller's, and the caller waits.   *)
TakeWaits(t, m, time) ==
  /\ Wants(t, m) /\ owner[m] # t /\ value[m] = 0 /\ time # "nowait"
  /\ current_priority' = [current_priority EXCEPT ![owner[m]] =
                            IF Lower(@, current_priority[t]) THEN current_priority[t] ELSE @]
  /\ Listed(m, t)
  /\ stat' = [stat EXCEPT ![t] = "SUSPEND"] /\ error' = [error EXCEPT ![t] = "EOK"]
  /\ EnterCall(t, "take", time)
  /\ waits' = [waits EXCEPT ![t] = m]
  /\ UNCHANGED <<value, owner, hold, original_priority, held>>

(* A take that may not wait, or a release by a thread that is not the      *)
(* owner, only reports an error.                                           *)
Refused(t, m) ==
  /\ At(t, "idle") /\ owner[m] # t /\ owner[m] # None
  /\ UNCHANGED vars

(* Mutant: a thread that times out stays in the list. *)
TakeExpiresListed(t) == TimedOut(t) /\ UNCHANGED <<mutexVars, current_priority, waits, held>>

TakeExpires(t) ==
  /\ TimedOut(t)
  /\ suspend_thread' = [suspend_thread EXCEPT ![waits[t]] = Without(@, t)]
  /\ UNCHANGED <<value, owner, hold, original_priority, current_priority, waits, held>>

TakeFails(t) ==
  /\ At(t, "take") /\ error[t] # "EOK"
  /\ error' = [error EXCEPT ![t] = "EOK"]
  /\ LeaveCall(t, "idle")
  /\ waits' = [waits EXCEPT ![t] = None]
  /\ UNCHANGED <<stat, mutexVars, current_priority, held>>

(* The release has made t the owner. *)
TakeReturns(t) ==
  /\ At(t, "take") /\ error[t] = "EOK"
  /\ Got(t, waits[t])
  /\ LeaveCall(t, "idle")
  /\ waits' = [waits EXCEPT ![t] = None]
  /\ UNCHANGED <<stat, error, mutexVars, current_priority>>
-------------------------------------------------------------------------------
(* rt_mutex_release. *)

Gone(t) == held' = [held EXCEPT ![t] = Front(@)]

ReleaseOnce(t, m) ==
  /\ GivesUp(t, m) /\ owner[m] = t /\ hold[m] # 1
  /\ hold' = [hold EXCEPT ![m] = (@ - 1) % HoldRange]
  /\ Gone(t)
  /\ UNCHANGED <<threadVars, value, owner, original_priority, suspend_thread,
                 current_priority, waits>>

(* Mutant: the owner keeps what it inherited. *)
RestoreNothing(t, m) == UNCHANGED current_priority

(* The last release takes back a priority the owner inherited. *)
Restore(t, m) ==
  current_priority' = [current_priority EXCEPT ![t] = original_priority[m]]

(* Mutant: the mutex becomes available although threads wait for it. *)
ReleaseFreesAnyway(t, m) ==
  /\ GivesUp(t, m) /\ owner[m] = t /\ hold[m] = 1
  /\ Restore(t, m)
  /\ value' = [value EXCEPT ![m] = @ + 1]
  /\ owner' = [owner EXCEPT ![m] = None]
  /\ original_priority' = [original_priority EXCEPT ![m] = Initial]
  /\ hold' = [hold EXCEPT ![m] = 0]
  /\ Gone(t)
  /\ UNCHANGED <<threadVars, suspend_thread, waits>>

ReleaseFrees(t, m) ==
  /\ GivesUp(t, m) /\ owner[m] = t /\ hold[m] = 1 /\ suspend_thread[m] = << >>
  /\ Restore(t, m)
  /\ value' = [value EXCEPT ![m] = @ + 1]
  /\ owner' = [owner EXCEPT ![m] = None]
  /\ original_priority' = [original_priority EXCEPT ![m] = Initial]
  /\ hold' = [hold EXCEPT ![m] = 0]
  /\ Gone(t)
  /\ UNCHANGED <<threadVars, suspend_thread, waits>>

(* Mutant: the mutex is handed over and made available as well. *)
ReleaseHandsOverAvailable(t, m) ==
  /\ GivesUp(t, m) /\ owner[m] = t /\ hold[m] = 1 /\ suspend_thread[m] # << >>
  /\ Restore(t, m)
  /\ LET next == Head(suspend_thread[m])
     IN  /\ owner' = [owner EXCEPT ![m] = next]
         /\ original_priority' = [original_priority EXCEPT ![m] = current_priority[next]]
         /\ Resume(next)
  /\ value' = [value EXCEPT ![m] = @ + 1]
  /\ suspend_thread' = [suspend_thread EXCEPT ![m] = Tail(@)]
  /\ Gone(t)
  /\ UNCHANGED <<pc, error, timeout, hold, waits>>

(* The first waiter becomes the owner before it runs. *)
ReleaseHandsOver(t, m) ==
  /\ GivesUp(t, m) /\ owner[m] = t /\ hold[m] = 1 /\ suspend_thread[m] # << >>
  /\ Restore(t, m)
  /\ LET next == Head(suspend_thread[m])
     IN  /\ owner' = [owner EXCEPT ![m] = next]
         /\ original_priority' = [original_priority EXCEPT ![m] = current_priority[next]]
         /\ Resume(next)
  /\ suspend_thread' = [suspend_thread EXCEPT ![m] = Tail(@)]
  /\ Gone(t)
  /\ UNCHANGED <<pc, error, timeout, value, hold, waits>>
-------------------------------------------------------------------------------
Releases(t) ==
  \E m \in Mutexes : ReleaseOnce(t, m) \/ ReleaseFrees(t, m) \/ ReleaseHandsOver(t, m)

Returns(t) == TakeFails(t) \/ TakeReturns(t)

Next ==
  \E t \in Threads :
    \/ Returns(t) \/ Releases(t) \/ TakeExpires(t)
    \/ \E m \in Mutexes :
         \/ TakeAgain(t, m) \/ TakeAvailable(t, m) \/ Refused(t, m)
         \/ \E time \in Timeouts : TakeWaits(t, m, time)

Spec == Init /\ [][Next]_vars

(* A thread that was made the owner, or gave up waiting, runs again. *)
FairSpec == Spec /\ \A t \in Threads : WF_vars(Returns(t))
-------------------------------------------------------------------------------
(* Mutual exclusion, in what the callers see: the takes a thread was       *)
(* granted, or is about to find granted, are those the mutex counts for    *)
(* its owner, and nobody else has any.                                     *)
Coming(t, m) == waits[t] = m /\ stat[t] = "READY" /\ error[t] = "EOK"
Granted(t, m) == Takes(t, m) + (IF Coming(t, m) THEN 1 ELSE 0)
OwnershipExact ==
  \A t \in Threads, m \in Mutexes : Granted(t, m) = IF owner[m] = t THEN hold[m] ELSE 0

(* Nobody waits for a mutex that is available: a release between a timeout *)
(* and the next take leaves neither a waiter behind nor the mutex unowned. *)
AvailableExact ==
  \A m \in Mutexes : /\ value[m] = 1 <=> owner[m] = None
                     /\ owner[m] = None => suspend_thread[m] = << >>

(* A thread that owns no mutex runs at its own priority, whatever it       *)
(* inherited through which of its nested mutexes, and whoever timed out.   *)
PriorityRestored ==
  \A t \in Threads :
    (\A m \in Mutexes : owner[m] # t) => current_priority[t] = Priority[t]

(* "Mutex uses priority inheritance" (rtos_init_mutex): the owner runs at  *)
(* no lower priority than any waiter, if the mutex queues by priority and  *)
(* neither of the two nests mutexes.                                       *)
OwnerInherits ==
  \A m \in Mutexes :
    Flag[m] = "PRIO" /\ owner[m] \notin Nesting
      => \A n \in DOMAIN suspend_thread[m] :
           suspend_thread[m][n] \notin Nesting
             => ~Lower(current_priority[owner[m]], current_priority[suspend_thread[m][n]])

(* Every take of a mutex that queues in order of arrival comes back, if    *)
(* the threads in the end release what they took, unless they wait for     *)
(* another such mutex: a mutex that queues by priority promises nothing.   *)
KeepsNone(t) ==
  held[t] = << >> \/ (waits[t] # None /\ Flag[waits[t]] = "FIFO")
FifoTakesReturn ==
  (\A t \in Threads : []<>KeepsNone(t))
    => \A t \in Threads, m \in Mutexes :
         Flag[m] = "FIFO" => (waits[t] = m ~> waits[t] = None)
===============================================================================
