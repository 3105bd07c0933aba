------------------------------- MODULE MCSoftTimer -------------------------------
(* Two soft timers, a thread above the timer thread and one below it,      *)
(* ticks that wrap around at 10 or 16.                                     *)
EXTENDS SoftTimer

CONSTANTS
  t1, t2, t3,   \* timers: one-shot, periodic, one-shot
  hi, lo        \* threads

MCTwo == {t1, t2}
MCOneShots == {t1, t3}
MCPeriodic == {t2}
MCNone == {}
MCAll == Timers
MCHigher == {hi}
MCLower == {lo}
MCInitTick == [t \in Timers |-> IF t = t2 THEN 2 ELSE 1]

(* One thread starts each timer; the one above stops both. *)
MCStarts == {<<lo, t1>>, <<hi, t2>>}
MCStops == {<<hi, t1>>, <<hi, t2>>}

(* t1's function starts t3, whose function starts it again. *)
MCChain == {<<t1, t3>>, <<t3, t3>>}
MCHiStarts == {<<hi, t1>>, <<hi, t2>>}
MCLoStartsOne == {<<lo, t1>>}

(* How these threads use the timers. *)
ASSUME UsesAssumption == OneStarter /\ StoppersOutrank
===============================================================================
