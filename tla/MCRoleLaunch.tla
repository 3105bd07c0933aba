----------------------------- MODULE MCRoleLaunch ------------------------------
(* Small instances of RoleLaunch for TLC: each run looks at several uses.  *)
EXTENDS RoleLaunch

Use(sta, ap, may) ==
  [requests |-> [r \in Role |-> IF r = "sta" THEN sta ELSE ap], may |-> may]

(* A station beside an access point; a station alone. *)
Safety ==
  {Use({Connect}, {Connect, Delete}, {"stop"}),
   Use({Connect, Scan, Delete}, {}, {"stop", "lack memory"})}

Live ==
  {Use({Connect}, {}, {"monitor", "power save"}),
   Use({Connect, Scan}, {}, {"power save"}),
   Use({Connect, Scan}, {}, {"monitor"}),
   Use({Connect, Delete}, {}, {"stop"})}
===============================================================================
