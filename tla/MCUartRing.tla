----------------------------- MODULE MCUartRing -----------------------------
(* Four slots, so three bytes fit: texts that fit, that fill the ring and   *)
(* that are cut.                                                            *)
EXTENDS UartRing
CONSTANTS a, b
MCByte == {a, b}
MCTexts == {<<>>, <<a>>, <<b, a>>, <<a, b, b, a>>}
=============================================================================
