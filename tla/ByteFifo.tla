------------------------------ MODULE ByteFifo ------------------------------
(* What a buffered serial console promises: bytes are accepted while there  *)
(* is room, leave one by one in the order of their acceptance, and none     *)
(* that was accepted stays behind.                                          *)
EXTENDS Sequences, Naturals

CONSTANTS Byte, NoByte, Capacity

VARIABLES
    queue,  \* accepted, not yet in the transmitter
    out     \* the byte in the transmitter

Init == queue = <<>> /\ out = NoByte

Accept == /\ Len(queue) < Capacity
          /\ \E b \in Byte : queue' = Append(queue, b)
          /\ UNCHANGED out

Emit == /\ queue # <<>> /\ out = NoByte
        /\ out' = Head(queue)
        /\ queue' = Tail(queue)

Leave == /\ out # NoByte
         /\ out' = NoByte
         /\ UNCHANGED queue

Next == Accept \/ Emit \/ Leave

Spec == Init /\ [][Next]_<<queue, out>>
FairSpec == Spec /\ WF_<<queue, out>>(Emit) /\ WF_<<queue, out>>(Leave)
=============================================================================
