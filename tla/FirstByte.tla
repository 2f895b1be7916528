------------------------------ MODULE FirstByte ------------------------------
(* What the supervision of the MQTT link takes the receive buffer of the    *)
(* UART for: a box that keeps the first byte that came in since it was last *)
(* emptied.  A look takes the byte out, or empties the box without having   *)
(* seen the byte that just fell in.                                         *)
CONSTANTS Byte, None, Garbled

VARIABLES
    first,  \* None: the box is empty
    taken   \* what the last look found

Init == first = None /\ taken = None

Put == /\ \E b \in Byte : first' = IF first = None THEN b ELSE first
       /\ UNCHANGED taken

Take == /\ taken' \in {first, None}
        /\ first' = None

(* A packet is sent, or a command, which may leave something unreadable. *)
Clear == first' \in {None, Garbled} /\ UNCHANGED taken

Next == Put \/ Take \/ Clear

Spec == Init /\ [][Next]_<<first, taken>>
=============================================================================
