------------------------------ MODULE MCRtosQueue ------------------------------
(***************************************************************************)
(* Instances of the queue.  Time arguments are those of the SDK's callers: *)
(* interrupts and senders that must not block push with BEKEN_NO_WAIT,     *)
(* bmsg_tx_sender waits 1 second, readers wait forever.                    *)
(***************************************************************************)
EXTENDS RtosQueue, TLC

CONSTANTS p1, p2, core, reader, a, b, b1, b2

MCMessages == {a, b}
MCBlocks == {b1, b2}
MCFreeOrder == <<b1, b2>>
MCThreads == {p1, p2, core}
MCSenders == {p1, p2}
MCReceivers == {core}
MCPush == [t \in Threads |-> {"nowait", "ticks"}]
MCPushForever == [t \in Threads |-> {"nowait", "forever"}]
MCPop == [t \in Threads |-> {"forever"}]
MCPopTimed == [t \in Threads |-> {"ticks", "forever"}]

(* Two readers, one of which also pushes. *)
MCThreads2 == {p1, core, reader}
MCSenders2 == {p1, core}
MCReceivers2 == {core, reader}
===============================================================================
