---------------------------- MODULE MCUsbControl ----------------------------
(* Packets of two bytes and transfers around the multiples of their size;   *)
(* one write does not fit into the control buffer.                          *)
EXTENDS UsbControl

MCRequest(in, wLength, handled, reply) ==
    [ in |-> in, wLength |-> wLength, handled |-> handled, reply |-> reply,
      set_address |-> FALSE, complete |-> handled ]

MCRequests ==
    { MCRequest(TRUE, 4, TRUE, 4), MCRequest(TRUE, 5, TRUE, 4), MCRequest(TRUE, 5, TRUE, 5),
      MCRequest(TRUE, 3, TRUE, 0), MCRequest(TRUE, 2, FALSE, 2),
      MCRequest(FALSE, 2, TRUE, 0), MCRequest(FALSE, 4, TRUE, 0), MCRequest(FALSE, 5, TRUE, 0),
      MCRequest(FALSE, 3, FALSE, 0), MCRequest(FALSE, 6, TRUE, 0),
      MCRequest(FALSE, 0, TRUE, 0), MCRequest(FALSE, 0, FALSE, 0),
      [ MCRequest(FALSE, 0, TRUE, 0) EXCEPT !.complete = FALSE ],
      [ MCRequest(TRUE, 2, TRUE, 2) EXCEPT !.complete = FALSE ],
      [ MCRequest(FALSE, 0, TRUE, 0) EXCEPT !.set_address = TRUE, !.complete = FALSE ] }

MCFewRequests ==
    { MCRequest(TRUE, 4, TRUE, 4), [ MCRequest(TRUE, 5, TRUE, 4) EXCEPT !.complete = FALSE ],
      MCRequest(TRUE, 2, FALSE, 2),
      MCRequest(FALSE, 2, TRUE, 0), MCRequest(FALSE, 5, TRUE, 0),
      MCRequest(FALSE, 3, FALSE, 0), MCRequest(FALSE, 6, TRUE, 0),
      MCRequest(FALSE, 0, TRUE, 0),
      [ MCRequest(FALSE, 0, TRUE, 0) EXCEPT !.set_address = TRUE, !.complete = FALSE ] }
=============================================================================
