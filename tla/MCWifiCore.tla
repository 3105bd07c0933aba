------------------------------- MODULE MCWifiCore -------------------------------
(* A core queue of four messages, two packets and up to two frames. *)
EXTENDS WifiCore, TLC

CONSTANTS p1, p2

MCPbufs == {p1, p2}
===============================================================================
