------------------------------- MODULE MCSht20 -------------------------------
(* Readings of realistic size: one that begins with a 0 and one with a 1.   *)
EXTENDS Sht20

MCCommand == [ q \in {"rh", "t"} |-> IF q = "rh" THEN 245 ELSE 243 ]
MCReadings(q) == IF q = "rh" THEN { <<114, 178, 25>>, <<176, 18, 64>> }
                 ELSE { <<104, 176, 219>> }
=============================================================================
