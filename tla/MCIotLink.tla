----------------------------- MODULE MCIotLink -----------------------------
(* IotLink with two readings that differ; the limits are those of the code, *)
(* the counters keep only as many bits as their values need.                *)
EXTENDS IotLink
CONSTANTS r1, r2
MCReadings == {r1, r2}
MCCleanTails == {"other"}
MCSplitTails == {"other", "PUBACK"}

(* The network and the heap are well from the start: what goes wrong is     *)
(* only that polls and sends cut replies in two.                            *)
SplitInit == Init /\ netOk /\ heapOk
SplitSpec == SplitInit /\ [][Next]_vars /\ Fairness
=============================================================================
