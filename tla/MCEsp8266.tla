------------------------------ MODULE MCEsp8266 ------------------------------
(* A buffer of four bytes that never overflows, two kinds of bytes besides  *)
(* the answer, and retry arguments below and above their parameter's width. *)
EXTENDS Esp8266
CONSTANTS a, b
MCByte == {a, b, Answer}
MCRetries == {1, 2, 7}
=============================================================================
