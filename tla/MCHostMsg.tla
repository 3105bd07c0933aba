-------------------------------- MODULE MCHostMsg --------------------------------
(* Two calls that wait for a confirmation with the same id (a call and its *)
(* retry after a timeout, or two threads), one that waits for none, and a  *)
(* core queue of two messages that other senders fill.  One caller is more *)
(* urgent than the two others, which have one priority.                    *)
EXTENDS HostMsg, TLC

CONSTANTS r1, r2, r3, i1, i2

MCReqs == {r1, r2, r3}
MCIds == {i1, i2}
MCIdOf == (r1 :> i1) @@ (r2 :> i1) @@ (r3 :> i2)
MCNeedCfm == {r1, r2}
MCPriority == (r1 :> 5) @@ (r2 :> 4) @@ (r3 :> 5)
===============================================================================
