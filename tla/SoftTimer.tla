-------------------------------- MODULE SoftTimer --------------------------------
(***************************************************************************)
(* The soft timers of the kernel (rt-thread/src/timer.c), which all rtos_  *)
(* timers are: rt_timer_start and rt_timer_stop, called by threads, and    *)
(* the timer thread that runs the timers' functions (rt_thread_timer_entry,*)
(* rt_soft_timer_check).  A function may start one timer (CallbackCalls);  *)
(* the calls of rt_timer_stop that functions make are left out.            *)
(*                                                                         *)
(* A step is what runs with interrupts disabled or the scheduler locked,   *)
(* or what happens between two such sections.                              *)
(* Threads above the timer thread (Higher) may run between any two of its  *)
(* steps but finish a call before it continues; those below run only when  *)
(* it sleeps or its timer's function blocks.  The list has one level       *)
(* (RT_TIMER_SKIP_LIST_LEVEL).                                             *)
(***************************************************************************)
EXTENDS Integers, SequencesExt

CONSTANTS
  Timers,
  Periodic,    \* the timers created with RT_TIMER_FLAG_PERIODIC
  InitTick,    \* InitTick[t]: init_tick
  Higher, Lower,   \* threads above and below RT_TIMER_THREAD_PRIO
  Starts,      \* pairs <<c, t>>: thread c calls rt_timer_start(t)
  Stops,       \* pairs <<c, t>>: thread c calls rt_timer_stop(t)
  CallbackCalls,   \* pairs <<t, u>>: the function of t calls rt_timer_start(u)
  Blocking,    \* the timers whose function may block and let lower threads run
  TimerThread, NoTimer,
  Ticks,       \* RT_TICK_MAX + 1
  MaxLate      \* bound: ticks by which the timer thread may be late

Callers == Higher \cup Lower
Threads == Callers \cup {TimerThread}

TickMax == Ticks - 1   \* RT_TICK_MAX
Half == TickMax \div 2

ASSUME TimersAssumption ==
  /\ Ticks \in Nat \ {0} /\ MaxLate \in Nat
  /\ Periodic \subseteq Timers /\ Blocking \subseteq Timers
  /\ CallbackCalls \subseteq Timers \X Timers /\ NoTimer \notin Timers
  /\ InitTick \in [Timers -> Nat] /\ \A t \in Timers : InitTick[t] + MaxLate < Half
  /\ Higher \cap Lower = {} /\ TimerThread \notin Callers
  /\ Starts \subseteq Callers \X Timers /\ Stops \subseteq Callers \X Timers

VARIABLES
  rt_tick,
  rt_soft_timer_list,  \* soonest first
  timeout_tick,        \* timeout_tick[t]
  activated,           \* activated[t]: RT_TIMER_FLAG_ACTIVATED
  call,                \* call[c]: what the thread is inside, and on which timer
  stat,                \* of the timer thread
  wake,                \* timeout of the timer thread's delay, 0 without one
  pc,                  \* what the timer thread does next
  next_timeout,        \* locals of rt_thread_timer_entry
  current_tick, n,     \* and rt_soft_timer_check; NoTimer: the list's head
  t_fired,             \* t, while its function runs
  stopped,             \* stopped[t]: rt_timer_stop returned RT_EOK after the last start
  linked_twice         \* a linked timer was linked again: the list is broken

listVars == <<rt_soft_timer_list, timeout_tick, activated, linked_twice>>
threadVars == <<stat, wake>>
checkVars == <<pc, next_timeout, current_tick, n, t_fired>>
vars == <<rt_tick, listVars, call, threadVars, checkVars, stopped>>

Idle == [in |-> "none", timer |-> NoTimer]

TypeOK ==
  /\ {rt_tick, wake, next_timeout, current_tick} \subseteq 0..TickMax
  /\ rt_soft_timer_list \in Seq(Timers)
  /\ timeout_tick \in [Timers -> 0..TickMax]
  /\ activated \in [Timers -> BOOLEAN] /\ stopped \in [Timers -> BOOLEAN]
  /\ linked_twice \in BOOLEAN
  /\ call \in [Threads -> [in : {"none", "unlinked", "start", "resume", "stop", "stopped"},
                           timer : Timers \cup {NoTimer}]]
  /\ stat \in {"ready", "suspended", "delayed"} /\ (stat # "delayed" => wake = 0)
  /\ pc \in {"next", "suspend", "delay", "check", "loop", "callback", "returning"}
  /\ n \in Timers \cup {NoTimer} /\ t_fired \in Timers \cup {NoTimer}

Init ==
  /\ rt_tick = 0 /\ wake = 0 /\ next_timeout = 0 /\ current_tick = 0
  /\ rt_soft_timer_list = << >>
  /\ timeout_tick = [t \in Timers |-> 0]
  /\ activated = [t \in Timers |-> FALSE] /\ stopped = [t \in Timers |-> FALSE]
  /\ linked_twice = FALSE
  /\ call = [c \in Threads |-> Idle]
  /\ stat = "ready" /\ pc = "next"
  /\ n = NoTimer /\ t_fired = NoTimer
-------------------------------------------------------------------------------
(* Tick arithmetic is unsigned and wraps: a is not before b when the       *)
(* difference is less than half the range.                                 *)
Minus(a, b) == (a - b) % Ticks
NotBefore(a, b) == Minus(a, b) < Half

(* rt_list_remove: nothing happens when the timer is in no list. *)
Without(t) == RemoveFirst(rt_soft_timer_list, t)

(* Mutant: before the timers with the same timeout, and behind the first.  *)
InsertedSecond(list, t, timeout) ==
  IF list = << >> THEN <<t>> ELSE InsertAt(list, 2, t)

(* Behind the timers that do not time out later. *)
Inserted(list, t, timeout) ==
  LET Later(x) == timeout_tick[x] # timeout /\ NotBefore(timeout_tick[x], timeout)
  IN  IF \E i \in 1..Len(list) : Later(list[i])
      THEN InsertAt(list, SelectInSeq(list, Later), t)
      ELSE Append(list, t)

(* n->next: a node that is in no list is its own successor. *)
Following(t) ==
  IF Contains(rt_soft_timer_list, t)
  THEN LET i == SelectInSeq(rt_soft_timer_list, LAMBDA x : x = t)
       IN  IF i = Len(rt_soft_timer_list) THEN NoTimer ELSE rt_soft_timer_list[i + 1]
  ELSE t

First == IF rt_soft_timer_list = << >> THEN NoTimer ELSE rt_soft_timer_list[1]

(* Who the scheduler may run: rt_soft_timer_check locks it in its loop.    *)
TimerThreadRuns == stat = "ready" /\ \A c \in Higher : call[c] = Idle
Runs(c) ==
  /\ stat = "ready" => pc # "loop"
  /\ c \in Lower => /\ stat # "ready" \/ (pc = "callback" /\ t_fired \in Blocking)
                    /\ \A h \in Higher : call[h] = Idle
-------------------------------------------------------------------------------
(* rt_timer_start, by a thread c or by the timer's own function.           *)

(* Mutant: the timer is not removed first. *)
StartLinked(c, t) ==
  /\ activated' = [activated EXCEPT ![t] = FALSE]
  /\ stopped' = [stopped EXCEPT ![t] = FALSE]
  /\ call' = [call EXCEPT ![c] = [in |-> "unlinked", timer |-> t]]
  /\ UNCHANGED <<rt_tick, rt_soft_timer_list, timeout_tick, linked_twice, threadVars>>

StartUnlinks(c, t) ==
  /\ rt_soft_timer_list' = Without(t)
  /\ activated' = [activated EXCEPT ![t] = FALSE]
  /\ stopped' = [stopped EXCEPT ![t] = FALSE]
  /\ call' = [call EXCEPT ![c] = [in |-> "unlinked", timer |-> t]]
  /\ UNCHANGED <<rt_tick, timeout_tick, linked_twice, threadVars>>

(* The tick is read, and the timeout set, between the critical sections.   *)
StartReads(c, t) ==
  /\ timeout_tick' = [timeout_tick EXCEPT ![t] = (rt_tick + InitTick[t]) % Ticks]
  /\ call' = [call EXCEPT ![c] = [in |-> "start", timer |-> t]]
  /\ UNCHANGED <<rt_tick, rt_soft_timer_list, activated, linked_twice, threadVars, stopped>>

StartLinks(c, t) ==
  /\ IF Contains(rt_soft_timer_list, t)
     THEN linked_twice' = TRUE /\ UNCHANGED rt_soft_timer_list
     ELSE /\ rt_soft_timer_list' = Inserted(rt_soft_timer_list, t, timeout_tick[t])
          /\ UNCHANGED linked_twice
  /\ activated' = [activated EXCEPT ![t] = TRUE]
  /\ call' = [call EXCEPT ![c] = IF c = TimerThread THEN Idle
                                  ELSE [in |-> "resume", timer |-> t]]
  /\ UNCHANGED <<rt_tick, timeout_tick, threadVars, stopped>>

CallStart(c, t) ==
  /\ Runs(c) /\ call[c] = Idle /\ <<c, t>> \in Starts
  /\ StartUnlinks(c, t)
  /\ UNCHANGED checkVars

CallerReads(c) ==
  /\ Runs(c) /\ call[c].in = "unlinked"
  /\ StartReads(c, call[c].timer)
  /\ UNCHANGED checkVars

CallerLinks(c) ==
  /\ Runs(c) /\ call[c].in = "start"
  /\ StartLinks(c, call[c].timer)
  /\ UNCHANGED checkVars

(* Mutant: a sleeping timer thread is left asleep. *)
StartDoesNotResume(c) ==
  /\ Runs(c) /\ call[c].in = "resume"
  /\ call' = [call EXCEPT ![c] = Idle]
  /\ UNCHANGED <<rt_tick, listVars, threadVars, checkVars, stopped>>

(* Mutant: the timer of its delay is left running. *)
StartResumesTimed(c) ==
  /\ Runs(c) /\ call[c].in = "resume"
  /\ stat' = "ready"
  /\ call' = [call EXCEPT ![c] = Idle]
  /\ UNCHANGED <<rt_tick, listVars, wake, checkVars, stopped>>

(* A timer thread that is not ready is resumed, out of a delay too. *)
StartResumes(c) ==
  /\ Runs(c) /\ call[c].in = "resume"
  /\ stat' = "ready" /\ wake' = 0
  /\ call' = [call EXCEPT ![c] = Idle]
  /\ UNCHANGED <<rt_tick, listVars, checkVars, stopped>>

CallbackStarts(t) ==
  /\ pc = "callback" /\ TimerThreadRuns
  /\ call[TimerThread] = Idle /\ <<t_fired, t>> \in CallbackCalls
  /\ StartUnlinks(TimerThread, t)
  /\ UNCHANGED checkVars

CallbackReads ==
  /\ pc = "callback" /\ TimerThreadRuns
  /\ call[TimerThread].in = "unlinked"
  /\ StartReads(TimerThread, call[TimerThread].timer)
  /\ UNCHANGED checkVars

CallbackLinks ==
  /\ pc = "callback" /\ TimerThreadRuns
  /\ call[TimerThread].in = "start"
  /\ StartLinks(TimerThread, call[TimerThread].timer)
  /\ pc' = "returning"
  /\ UNCHANGED <<next_timeout, current_tick, n, t_fired>>
-------------------------------------------------------------------------------
(* rt_timer_stop; a timer that is not active is left alone (-RT_ERROR).    *)

CallStop(c, t) ==
  /\ Runs(c) /\ call[c] = Idle /\ <<c, t>> \in Stops
  /\ activated[t]
  /\ call' = [call EXCEPT ![c] = [in |-> "stop", timer |-> t]]
  /\ UNCHANGED <<rt_tick, listVars, threadVars, checkVars, stopped>>

(* Mutant: the timer stays in the list. *)
StopStaysLinked(c) ==
  /\ Runs(c) /\ call[c].in = "stop"
  /\ call' = [call EXCEPT ![c].in = "stopped"]
  /\ UNCHANGED <<rt_tick, listVars, threadVars, checkVars, stopped>>

StopUnlinks(c) ==
  /\ Runs(c) /\ call[c].in = "stop"
  /\ rt_soft_timer_list' = Without(call[c].timer)
  /\ call' = [call EXCEPT ![c].in = "stopped"]
  /\ UNCHANGED <<rt_tick, timeout_tick, activated, linked_twice, threadVars, checkVars,
                 stopped>>

StopClears(c) ==
  /\ Runs(c) /\ call[c].in = "stopped"
  /\ activated' = [activated EXCEPT ![call[c].timer] = FALSE]
  /\ stopped' = [stopped EXCEPT ![call[c].timer] = TRUE]
  /\ call' = [call EXCEPT ![c] = Idle]
  /\ UNCHANGED <<rt_tick, rt_soft_timer_list, timeout_tick, linked_twice, threadVars,
                 checkVars>>

CallerSteps(c) ==
  \/ CallerReads(c) \/ CallerLinks(c) \/ StartResumes(c) \/ StopUnlinks(c) \/ StopClears(c)
-------------------------------------------------------------------------------
(* rt_thread_timer_entry *)

(* rt_timer_list_next_timeout: RT_TICK_MAX stands for no timer - and is a  *)
(* tick like any other.                                                    *)
NextTimeout ==
  /\ pc = "next" /\ TimerThreadRuns
  /\ next_timeout' = IF rt_soft_timer_list = << >> THEN TickMax ELSE timeout_tick[First]
  /\ pc' = IF next_timeout' = TickMax THEN "suspend" ELSE "delay"
  /\ UNCHANGED <<rt_tick, listVars, call, threadVars, current_tick, n, t_fired, stopped>>

SuspendSelf ==
  /\ pc = "suspend" /\ TimerThreadRuns
  /\ stat' = "suspended"
  /\ pc' = "check"
  /\ next_timeout' = 0
  /\ UNCHANGED <<rt_tick, listVars, call, wake, current_tick, n, t_fired, stopped>>

(* rt_thread_delay(next_timeout - current_tick), unless that time is past. *)
Delay ==
  /\ pc = "delay" /\ TimerThreadRuns
  /\ IF NotBefore(next_timeout, rt_tick)
     THEN stat' = "delayed" /\ wake' = next_timeout
     ELSE UNCHANGED threadVars
  /\ pc' = "check"
  /\ next_timeout' = 0
  /\ UNCHANGED <<rt_tick, listVars, call, current_tick, n, t_fired, stopped>>

(* rt_soft_timer_check *)
Check ==
  /\ pc = "check" /\ TimerThreadRuns
  /\ current_tick' = rt_tick
  /\ n' = First
  /\ pc' = "loop"
  /\ UNCHANGED <<rt_tick, listVars, call, threadVars, next_timeout, t_fired, stopped>>

Due(t) == t # NoTimer /\ NotBefore(current_tick, timeout_tick[t])

(* The next timer times out: unlinked, the scheduler unlocked, its function *)
(* called.                                                                  *)
Fire ==
  /\ pc = "loop" /\ TimerThreadRuns
  /\ Due(n)
  /\ t_fired' = n
  /\ n' = Following(n)
  /\ rt_soft_timer_list' = Without(n)
  /\ pc' = "callback"
  /\ UNCHANGED <<rt_tick, timeout_tick, activated, linked_twice, call, threadVars,
                 next_timeout, current_tick, stopped>>

CheckEnds ==
  /\ pc = "loop" /\ TimerThreadRuns
  /\ ~Due(n)
  /\ pc' = "next"
  /\ n' = NoTimer /\ current_tick' = 0
  /\ UNCHANGED <<rt_tick, listVars, call, threadVars, next_timeout, t_fired, stopped>>

(* Mutant: a one-shot timer stays marked. *)
StaysMarked(t) == UNCHANGED activated

MarkInactive(t) == activated' = [activated EXCEPT ![t] = FALSE]

(* A periodic timer that its function, or another thread meanwhile, did    *)
(* not stop.                                                               *)
StartsAgain(t) == t \in Periodic /\ activated[t]

(* The function returned: a periodic timer is started (with the scheduler  *)
(* locked), any other marked inactive.                                     *)
CallbackReturns ==
  /\ pc \in {"callback", "returning"} /\ TimerThreadRuns
  /\ call[TimerThread] = Idle
  /\ current_tick' = rt_tick
  /\ IF StartsAgain(t_fired)
     THEN LET timeout == (rt_tick + InitTick[t_fired]) % Ticks IN
          /\ timeout_tick' = [timeout_tick EXCEPT ![t_fired] = timeout]
          /\ rt_soft_timer_list' = Inserted(Without(t_fired), t_fired, timeout)
          /\ stopped' = [stopped EXCEPT ![t_fired] = FALSE]
          /\ UNCHANGED activated
     ELSE /\ MarkInactive(t_fired)
          /\ UNCHANGED <<timeout_tick, rt_soft_timer_list, stopped>>
  /\ pc' = "loop"
  /\ t_fired' = NoTimer
  /\ UNCHANGED <<rt_tick, linked_twice, call, threadVars, next_timeout, n>>
-------------------------------------------------------------------------------
(* rt_tick_increase, in the tick interrupt; the timer thread's own delay   *)
(* is a hard timer.                                                        *)

(* Ticks the code compares with a later one and that must not be half the  *)
(* range away by then: real ticks have 24 days for it.                     *)
Deadlines ==
  {timeout_tick[t] : t \in ToSet(rt_soft_timer_list) \cup ({n} \ {NoTimer})
                            \cup {call[c].timer : c \in {x \in Threads : call[x].in = "start"}}}
    \cup (IF pc = "delay" THEN {next_timeout} ELSE {})
    \cup (IF pc = "loop" THEN {current_tick} ELSE {})

Late(deadline) == NotBefore(rt_tick, deadline) /\ Minus(rt_tick, deadline) >= MaxLate

Tick ==
  /\ \A d \in Deadlines : ~Late(d)
  /\ rt_tick' = (rt_tick + 1) % Ticks
  /\ IF stat = "delayed" /\ NotBefore(rt_tick', wake)
     THEN stat' = "ready" /\ wake' = 0
     ELSE UNCHANGED threadVars
  /\ UNCHANGED <<listVars, call, checkVars, stopped>>

TimerThreadStep ==
  \/ NextTimeout \/ SuspendSelf \/ Delay \/ Check \/ Fire \/ CheckEnds
  \/ (\E t \in Timers : CallbackStarts(t)) \/ CallbackReads \/ CallbackLinks
  \/ CallbackReturns

Next ==
  /\ ~linked_twice
  /\ \/ Tick \/ TimerThreadStep
     \/ \E c \in Callers : CallerSteps(c) \/ \E t \in Timers : CallStart(c, t) \/ CallStop(c, t)

(* Time passes; a thread that may run, runs on; the threads above the      *)
(* timer thread leave it some time.                                        *)
Fairness ==
  /\ WF_vars(Tick) /\ SF_vars(TimerThreadStep)
  /\ \A c \in Callers : WF_vars(CallerSteps(c))

Spec == Init /\ [][Next]_vars /\ Fairness
-------------------------------------------------------------------------------
Listed(t) == Contains(rt_soft_timer_list, t)
In(t, where) == \E c \in Threads : call[c].timer = t /\ call[c].in \in where
Firing(t) == pc = "loop" /\ pc' = "callback" /\ t_fired' = t

(* Who may call rt_timer_start(t), and two ways to use a timer: only one   *)
(* thread starts it; only threads above the timer thread stop it, and none *)
(* but the stopper or a thread below starts it.                            *)
Starters(t) ==
  {c \in Callers : <<c, t>> \in Starts}
    \cup {c \in {TimerThread} : \E u \in Timers : <<u, t>> \in CallbackCalls}

OneStarter == \A t \in Timers : \A c, d \in Starters(t) : c = d

StoppersOutrank ==
  \A c \in Callers, t \in Timers :
    <<c, t>> \in Stops => c \in Higher /\ Starters(t) \subseteq {c, TimerThread} \cup Lower

(* rt_timer_start unlinks and links in two critical sections: as long as   *)
(* no two threads start one timer, it is never linked twice, even when it  *)
(* is stopped, fires or is started again in between.                       *)
NeverLinkedTwice == ~linked_twice /\ IsInjective(rt_soft_timer_list)

(* The list is in the order of the timeouts, though ticks wrap around: the *)
(* check that ends at the first timer of the future misses none.  This     *)
(* holds as long as one thread starts each timer: rt_timer_start sets the  *)
(* deadline in neither of its critical sections, and another start may     *)
(* have linked the timer by then.                                          *)
SortedByTimeout ==
  \A i, j \in 1..Len(rt_soft_timer_list) :
    i < j => NotBefore(timeout_tick[rt_soft_timer_list[j]], timeout_tick[rt_soft_timer_list[i]])

(* A timer that is marked active will fire: it is in the list, or its      *)
(* function is running, or a call of rt_timer_stop is about to clear the   *)
(* mark.                                                                   *)
ActiveIsListed ==
  \A t \in Timers : activated[t] => Listed(t) \/ t = t_fired \/ In(t, {"stopped"})

(* A timer that was stopped fires only if the check had stepped to it      *)
(* before it called another timer's function, during which the timer was   *)
(* stopped; never from the list.                                           *)
StoppedNeverListed == \A t \in Timers : stopped[t] => ~Listed(t)

(* timer.c:414: "This function will stop the timer": one that stays        *)
(* stopped fires at most a few more times.                                 *)
StoppedFallsSilent == \A t \in Timers : <>[]stopped[t] => <>[][~Firing(t)]_vars

(* A listed timer fires, or is stopped or started anew: when only threads  *)
(* below the timer thread start timers and no function blocks, the one     *)
(* exception is a timeout of RT_TICK_MAX, taken for none.                  *)
TimerFires ==
  \A t \in Timers :
    Listed(t) ~> (~Listed(t) \/ \E u \in Timers : Listed(u) /\ timeout_tick[u] = TickMax)
===============================================================================
