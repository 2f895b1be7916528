------------------------------- MODULE UsbfsEp -------------------------------
(***************************************************************************)
(* One bidirectional endpoint of the STM32 full-speed USB peripheral, as   *)
(* lib/stm32/common/st_usbfs_core.c drives it: operators on a record       *)
(*   tx, rx          STAT_TX and STAT_RX of USB_EPnR                       *)
(*   ctr_tx, ctr_rx  the completion flags                                  *)
(*   setup           the SETUP bit, valid while ctr_rx                     *)
(*   tx_buf, rx_buf  the packet memory: what was written, what arrived     *)
(*   force_nak       st_usbfs_force_nak of the endpoint                    *)
(* A packet is the sequence of its bytes, a SETUP packet a one-element     *)
(* sequence that holds the request.                                        *)
(***************************************************************************)
EXTENDS Sequences, Integers

Stats == {"DISABLED", "STALL", "NAK", "VALID"}

(* A bus reset: it leaves the completion flags (RM0008, 23.5.2), not what   *)
(* tells a SETUP from an OUT; force_nak is the driver's.                    *)
ResetRegs(e) == [ e EXCEPT !.tx = "DISABLED", !.rx = "DISABLED", !.setup = FALSE ]

(* st_usbfs_ep_setup of endpoint 0 *)
ep_setup(e) == [ e EXCEPT !.tx = "NAK", !.rx = "VALID" ]

(* st_usbfs_ep_stall_set(0, 1): both directions *)
ep_stall_set(e) == [ e EXCEPT !.tx = "STALL", !.rx = "STALL" ]

ep_nak_set(e, nak) ==
    [ e EXCEPT !.force_nak = nak, !.rx = IF nak THEN "NAK" ELSE "VALID" ]

(* A packet that is still waiting for the host is kept, the new one is not  *)
(* written; the callers do not look at the result.                          *)
ep_write_packet(e, packet) ==
    IF e.tx = "VALID" THEN e ELSE [ e EXCEPT !.tx_buf = packet, !.tx = "VALID" ]

(* What a read of at most len bytes returns, and the endpoint after it. *)
read_packet_data(e, len) ==
    IF e.rx = "VALID" THEN <<>>
    ELSE SubSeq(e.rx_buf, 1, IF len < Len(e.rx_buf) THEN len ELSE Len(e.rx_buf))

(* A faulty variant that acknowledges only where it goes on receiving. *)
ep_read_packet_lazy(e) ==
    IF e.rx = "VALID" \/ e.force_nak THEN e
    ELSE [ e EXCEPT !.ctr_rx = FALSE, !.rx = "VALID" ]

ep_read_packet(e) ==
    IF e.rx = "VALID" THEN e
    ELSE [ e EXCEPT !.ctr_rx = FALSE, !.rx = IF e.force_nak THEN @ ELSE "VALID" ]

clear_ctr_tx(e) == [ e EXCEPT !.ctr_tx = FALSE ]

-----------------------------------------------------------------------------
(* What the peripheral does with the host's tokens (RM0008, not under src/). *)

(* A SETUP is accepted whatever STAT_RX says, unless a received packet is   *)
(* still unread; both directions fall back to NAK.                          *)
TakesSetup(e) == e.rx # "DISABLED" /\ ~e.ctr_rx
HwSetup(e, req) ==
    [ e EXCEPT !.ctr_rx = TRUE, !.setup = TRUE, !.rx_buf = [ i \in 1 .. 8 |-> req ],
               !.tx = "NAK", !.rx = "NAK" ]

HwOut(e, packet) ==
    [ e EXCEPT !.ctr_rx = TRUE, !.setup = FALSE, !.rx_buf = packet, !.rx = "NAK" ]

HwIn(e) == [ e EXCEPT !.ctr_tx = TRUE, !.tx = "NAK" ]
=============================================================================
