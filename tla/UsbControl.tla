----------------------------- MODULE UsbControl -----------------------------
(***************************************************************************)
(* Control transfers: the EP0 state machine of libopencm3 (lib/usb/        *)
(* usb_control.c) over the endpoint of UsbfsEp, polled by st_usbfs_poll,   *)
(* and a USB host that follows the specification (external).               *)
(*                                                                         *)
(* A poll takes two steps, the first of which reads and acknowledges a     *)
(* completion and names the callback that the second one runs.  The bus    *)
(* does not wait for the firmware: a token may come between any two steps. *)
(*                                                                         *)
(* What a request is about is left to the application: Requests tells      *)
(* which requests the host makes and what their handlers return.           *)
(***************************************************************************)
EXTENDS UsbfsEp

CONSTANTS
    MaxPacket,   \* bMaxPacketSize0
    BufLen,      \* ctrl_buf_len
    Requests,    \* records [in, wLength, handled, reply, set_address, complete]:
                 \* direction and length; the handler's verdict, the length of its
                 \* reply, whether it is SET_ADDRESS, whether it wants a completion
    None,
    Window,      \* a token may come between the two steps of a poll
    BackToBack   \* the host may start a transfer before the firmware has seen the
                 \* end of the last one

ASSUME ControlAssumption ==
    /\ MaxPacket \in Nat \ {0} /\ BufLen \in Nat
    /\ \A r \in Requests : /\ r.wLength \in Nat /\ r.reply \in 0 .. r.wLength
                           /\ r.set_address => r.wLength = 0 /\ r.handled
    /\ None \notin Requests
    /\ Window \in BOOLEAN /\ BackToBack \in BOOLEAN

VARIABLES
    ep,      \* the endpoint
    reset,   \* USB_ISTR_RESET
    daddr,   \* USB_DADDR: the address the device answers to, None before reset
    pc,      \* idle, or the callback that the poll is about to run
    ctl,     \* usbd_dev->control_state
    host,    \* the host's transfer
    given,   \* what the last write handler was given
    done     \* the request of which the completion callback ran

vars == <<ep, reset, daddr, pc, ctl, host, given, done>>

Bytes(n) == [ i \in 1 .. n |-> i ]
Least(a, b) == IF a < b THEN a ELSE b

(* ctl.buf: on a read what is still to be sent (ctrl_buf and ctrl_len), on a *)
(* write what has been stored.  host.well: the transfer ended well; after a *)
(* reset, it did and the firmware may not have handled its end.  host.lost: *)
(* a reset came upon a SETUP that the firmware had not read.                *)
Init ==
    /\ ep = [ tx |-> "DISABLED", rx |-> "DISABLED", ctr_tx |-> FALSE, ctr_rx |-> FALSE,
              setup |-> FALSE, tx_buf |-> <<>>, rx_buf |-> <<>>, force_nak |-> FALSE ]
    /\ reset = FALSE /\ daddr = None /\ pc = "idle"
    /\ ctl = [ state |-> "IDLE", req |-> None, buf |-> <<>>, needs_zlp |-> FALSE,
               complete |-> None ]
    /\ host = [ stage |-> "detached", req |-> None, got |-> <<>>, sent |-> 0, addr |-> 0,
                well |-> FALSE, lost |-> FALSE ]
    /\ given = None /\ done = None

States == {"IDLE", "DATA_IN", "LAST_DATA_IN", "STATUS_IN", "DATA_OUT", "LAST_DATA_OUT",
           "STATUS_OUT"}
Stages == {"detached", "idle", "data", "status", "done", "stalled"}

TypeOK ==
    /\ ep.tx \in Stats /\ ep.rx \in Stats
    /\ ep.ctr_tx \in BOOLEAN /\ ep.ctr_rx \in BOOLEAN /\ ep.setup \in BOOLEAN
    /\ ep.force_nak \in BOOLEAN
    /\ Len(ep.tx_buf) <= MaxPacket
    /\ reset \in BOOLEAN /\ daddr \in {0, 1, None}
    /\ pc \in {"idle", "setup", "out", "in"}
    /\ ctl.state \in States /\ ctl.req \in Requests \union {None}
    /\ ctl.needs_zlp \in BOOLEAN /\ ctl.complete \in Requests \union {None}
    /\ host.stage \in Stages /\ host.req \in Requests \union {None}
    /\ host.addr \in {0, 1} /\ host.well \in BOOLEAN /\ host.lost \in BOOLEAN

-----------------------------------------------------------------------------
(* usb_control.c, as operators on the pair of the endpoint and the control  *)
(* state: what a callback does to both.                                     *)

stall_transaction(d) ==
    [ d EXCEPT !.ep = ep_stall_set(@), !.ctl.state = "IDLE" ]

(* A faulty variant of the next one: no empty packet ever. *)
needs_zlp_never(len, wLength) == FALSE

(* A short reply that fills its last packet is ended by an empty packet. *)
needs_zlp(len, wLength) == len < wLength /\ len # 0 /\ len % MaxPacket = 0

(* A faulty variant that sends everything at once. *)
send_chunk_whole(d) ==
    [ d EXCEPT !.ep = ep_write_packet(@, d.ctl.buf), !.ctl.state = "LAST_DATA_IN",
               !.ctl.buf = <<>>, !.ctl.needs_zlp = FALSE ]

(* A faulty variant that leaves out a byte between two chunks. *)
send_chunk_gap(d) ==
    LET left == d.ctl.buf IN
    IF MaxPacket < Len(left)
    THEN [ d EXCEPT !.ep = ep_write_packet(@, SubSeq(left, 1, MaxPacket)),
                    !.ctl.state = "DATA_IN",
                    !.ctl.buf = SubSeq(left, MaxPacket + 2, Len(left)) ]
    ELSE [ d EXCEPT !.ep = ep_write_packet(@, left), !.ctl.state = "LAST_DATA_IN",
                    !.ctl.needs_zlp = FALSE, !.ctl.buf = <<>> ]

send_chunk(d) ==
    LET left == d.ctl.buf IN
    IF MaxPacket < Len(left)
    THEN [ d EXCEPT !.ep = ep_write_packet(@, SubSeq(left, 1, MaxPacket)),
                    !.ctl.state = "DATA_IN",
                    !.ctl.buf = SubSeq(left, MaxPacket + 1, Len(left)) ]
    ELSE [ d EXCEPT !.ep = ep_write_packet(@, left),
                    !.ctl.state = IF d.ctl.needs_zlp THEN "DATA_IN" ELSE "LAST_DATA_IN",
                    !.ctl.needs_zlp = FALSE,
                    !.ctl.buf = <<>> ]

(* usb_control_request_dispatch *)
dispatch(d) == [ d EXCEPT !.ctl.complete = IF d.ctl.req.complete THEN d.ctl.req ELSE @ ]

status_in(d) ==
    [ d EXCEPT !.ep = ep_write_packet(@, <<>>), !.ctl.state = "STATUS_IN" ]

(* A faulty variant of the next one, that does not look at the verdict. *)
setup_read_blind(d) ==
    LET req == d.ctl.req
        r   == dispatch(d)
    IN  IF req.wLength = 0 THEN status_in(r)
        ELSE send_chunk([ r EXCEPT !.ctl.buf = Bytes(req.reply),
                                   !.ctl.needs_zlp = needs_zlp(req.reply, req.wLength) ])

(* Reads, and requests without data *)
setup_read(d) ==
    LET req == d.ctl.req
        r   == dispatch(d)
    IN  IF ~req.handled THEN stall_transaction(r)
        ELSE IF req.wLength = 0 THEN status_in(r)
        ELSE send_chunk([ r EXCEPT !.ctl.buf = Bytes(req.reply),
                                   !.ctl.needs_zlp = needs_zlp(req.reply, req.wLength) ])

(* A faulty variant that refuses a write which just fits. *)
setup_write_tight(d) ==
    LET req == d.ctl.req IN
    IF req.wLength >= BufLen THEN stall_transaction(d)
    ELSE [ d EXCEPT !.ctl.buf = <<>>,
                    !.ctl.state = IF req.wLength > MaxPacket THEN "DATA_OUT"
                                  ELSE "LAST_DATA_OUT",
                    !.ep = ep_nak_set(@, FALSE) ]

setup_write(d) ==
    LET req == d.ctl.req IN
    IF req.wLength > BufLen THEN stall_transaction(d)
    ELSE [ d EXCEPT !.ctl.buf = <<>>,
                    !.ctl.state = IF req.wLength > MaxPacket THEN "DATA_OUT"
                                  ELSE "LAST_DATA_OUT",
                    !.ep = ep_nak_set(@, FALSE) ]

(* A faulty variant that keeps the last transfer's completion callback. *)
control_setup_stale(d) ==
    LET q == [ d EXCEPT !.ep = ep_nak_set(@, TRUE) ] IN
    IF d.ctl.req.in \/ d.ctl.req.wLength = 0 THEN setup_read(q) ELSE setup_write(q)

control_setup(d) ==
    LET q == [ d EXCEPT !.ctl.complete = None, !.ep = ep_nak_set(@, TRUE) ] IN
    IF d.ctl.req.in \/ d.ctl.req.wLength = 0 THEN setup_read(q) ELSE setup_write(q)

(* usb_control_recv_chunk: how much is read, and what is stored if it is    *)
(* what was expected.                                                       *)
ChunkSize(d) == Least(MaxPacket, d.ctl.req.wLength - Len(d.ctl.buf))
Received(d)  == Len(read_packet_data(d.ep, ChunkSize(d))) = ChunkSize(d)
(* A faulty variant that puts every chunk in front of the last one. *)
recv_chunk_front(d) ==
    LET r == [ d EXCEPT !.ep = ep_read_packet(@) ] IN
    IF Received(d) THEN [ r EXCEPT !.ctl.buf = read_packet_data(d.ep, ChunkSize(d)) \o @ ]
    ELSE stall_transaction(r)

recv_chunk(d) ==
    LET r == [ d EXCEPT !.ep = ep_read_packet(@) ] IN
    IF Received(d) THEN [ r EXCEPT !.ctl.buf = @ \o read_packet_data(d.ep, ChunkSize(d)) ]
    ELSE stall_transaction(r)

(* The last chunk of a write is in: the handler is called with the data. *)
Dispatches(d) == d.ctl.state = "LAST_DATA_OUT" /\ Received(d)

control_out(d) ==
    LET r == recv_chunk(d) IN
    CASE d.ctl.state = "DATA_OUT" ->
           IF Received(d) /\ d.ctl.req.wLength - Len(r.ctl.buf) <= MaxPacket
           THEN [ r EXCEPT !.ctl.state = "LAST_DATA_OUT" ] ELSE r
      [] d.ctl.state = "LAST_DATA_OUT" ->
           IF ~Received(d) THEN r
           ELSE IF d.ctl.req.handled THEN status_in(dispatch(r))
           ELSE stall_transaction(dispatch(r))
      [] d.ctl.state = "STATUS_OUT" ->
           [ d EXCEPT !.ep = ep_read_packet(@), !.ctl.state = "IDLE", !.ctl.complete = None ]
      [] OTHER -> stall_transaction(d)

control_in(d) ==
    CASE d.ctl.state = "DATA_IN" -> send_chunk(d)
      [] d.ctl.state = "LAST_DATA_IN" ->
           [ d EXCEPT !.ctl.state = "STATUS_OUT", !.ep = ep_nak_set(@, FALSE) ]
      [] d.ctl.state = "STATUS_IN" -> [ d EXCEPT !.ctl.state = "IDLE" ]
      [] OTHER -> stall_transaction(d)

-----------------------------------------------------------------------------
(* st_usbfs_poll *)

Now == [ ep |-> ep, ctl |-> ctl ]
Becomes(d) == ep' = d.ep /\ ctl' = d.ctl

(* _usbd_reset: the endpoint and the address start over, the control state  *)
(* stays as it is.                                                          *)
PollReset ==
    /\ pc = "idle" /\ reset
    /\ reset' = FALSE
    /\ ep' = ep_setup(ep)
    /\ daddr' = 0
    /\ UNCHANGED <<pc, ctl, host, given, done>>

(* A received packet goes before a sent one. *)
PollSetup ==
    /\ pc = "idle" /\ ~reset /\ ep.ctr_rx /\ ep.setup
    /\ ctl' = IF read_packet_data(ep, 8) = <<>> THEN ctl ELSE [ ctl EXCEPT !.req = ep.rx_buf[1] ]
    /\ ep' = ep_read_packet(ep)
    /\ pc' = "setup"
    /\ UNCHANGED <<reset, daddr, host, given, done>>

PollOut ==
    /\ pc = "idle" /\ ~reset /\ ep.ctr_rx /\ ~ep.setup
    /\ pc' = "out"
    /\ UNCHANGED <<ep, reset, daddr, ctl, host, given, done>>

PollIn ==
    /\ pc = "idle" /\ ~reset /\ ~ep.ctr_rx /\ ep.ctr_tx
    /\ ep' = clear_ctr_tx(ep)
    /\ pc' = "in"
    /\ UNCHANGED <<reset, daddr, ctl, host, given, done>>

(* A faulty variant of the next one, that takes the address over at once. *)
ControlSetupEarly ==
    /\ pc = "setup" /\ pc' = "idle"
    /\ Becomes(control_setup(Now))
    /\ daddr' = IF ctl.req.set_address THEN 1 ELSE daddr
    /\ UNCHANGED <<reset, host, given, done>>

(* _usbd_control_setup *)
ControlSetup ==
    /\ pc = "setup" /\ pc' = "idle"
    /\ Becomes(control_setup(Now))
    /\ UNCHANGED <<reset, daddr, host, given, done>>

(* _usbd_control_out *)
ControlOut ==
    /\ pc = "out" /\ pc' = "idle"
    /\ Becomes(control_out(Now))
    /\ given' = IF Dispatches(Now) THEN recv_chunk(Now).ctl.buf ELSE given
    /\ done' = IF ctl.state = "STATUS_OUT" /\ ctl.complete # None THEN ctl.complete ELSE done
    /\ UNCHANGED <<reset, daddr, host>>

(* _usbd_control_in: the address is taken over when its status stage ends. *)
ControlIn ==
    /\ pc = "in" /\ pc' = "idle"
    /\ Becomes(control_in(Now))
    /\ daddr' = IF ctl.state = "STATUS_IN" /\ ctl.req.set_address THEN 1 ELSE daddr
    /\ done' = IF ctl.state = "STATUS_IN" /\ ctl.complete # None THEN ctl.complete ELSE done
    /\ UNCHANGED <<reset, host, given>>

Poll == PollReset \/ PollSetup \/ PollOut \/ PollIn
Callback == ControlSetup \/ ControlOut \/ ControlIn

-----------------------------------------------------------------------------
(* The host *)

(* The firmware has handled all it was told. *)
Quiet == pc = "idle" /\ ~reset /\ ~ep.ctr_rx /\ ~ep.ctr_tx

OnBus == ~reset /\ daddr = host.addr /\ (Window \/ pc = "idle")

(* The host waits 2 ms after SET_ADDRESS, and 10 ms after a reset: the      *)
(* firmware polls more often.                                               *)
Recovered == host.stage = "idle" \/ host.req.set_address => Quiet

Start(r) ==
    /\ host.stage \in {"idle", "done", "stalled"} /\ OnBus
    /\ Recovered /\ (BackToBack \/ Quiet)
    /\ TakesSetup(ep)
    /\ ep' = HwSetup(ep, r)
    /\ host' = [ host EXCEPT !.stage = IF r.wLength = 0 THEN "status" ELSE "data",
                             !.req = r, !.got = <<>>, !.sent = 0, !.well = FALSE, !.lost = FALSE ]
    /\ given' = None /\ done' = None
    /\ UNCHANGED <<reset, daddr, pc, ctl>>

(* It reads until it has all it asked for or gets a short packet. *)
DataIn ==
    /\ host.stage = "data" /\ host.req.in /\ OnBus /\ ep.tx = "VALID"
    /\ ep' = HwIn(ep)
    /\ LET got == host.got \o ep.tx_buf IN
       host' = [ host EXCEPT !.got = got,
                             !.stage = IF Len(ep.tx_buf) < MaxPacket \/ Len(got) >= host.req.wLength
                                       THEN "status" ELSE "data" ]
    /\ UNCHANGED <<reset, daddr, pc, ctl, given, done>>

StatusOut ==
    /\ host.stage = "status" /\ host.req.in /\ host.req.wLength > 0 /\ OnBus /\ ep.rx = "VALID"
    /\ ep' = HwOut(ep, <<>>)
    /\ host' = [ host EXCEPT !.stage = "done", !.well = TRUE ]
    /\ UNCHANGED <<reset, daddr, pc, ctl, given, done>>

DataOut ==
    /\ host.stage = "data" /\ ~host.req.in /\ OnBus /\ ep.rx = "VALID"
    /\ LET upto == Least(host.req.wLength, host.sent + MaxPacket) IN
       /\ ep' = HwOut(ep, [ i \in 1 .. upto - host.sent |-> host.sent + i ])
       /\ host' = [ host EXCEPT !.sent = upto,
                                !.stage = IF upto = host.req.wLength THEN "status" ELSE "data" ]
    /\ UNCHANGED <<reset, daddr, pc, ctl, given, done>>

(* After SET_ADDRESS it uses the new address. *)
StatusIn ==
    /\ host.stage = "status" /\ (~host.req.in \/ host.req.wLength = 0)
    /\ OnBus /\ ep.tx = "VALID"
    /\ ep' = HwIn(ep)
    /\ host' = [ host EXCEPT !.stage = "done", !.well = TRUE,
                             !.addr = IF host.req.set_address THEN 1 ELSE @ ]
    /\ UNCHANGED <<reset, daddr, pc, ctl, given, done>>

(* The direction of its next token, and a STALL in answer to it. *)
NextIsIn == (host.stage = "data" /\ host.req.in)
            \/ (host.stage = "status" /\ (~host.req.in \/ host.req.wLength = 0))

Stalled ==
    /\ host.stage \in {"data", "status"} /\ OnBus
    /\ IF NextIsIn THEN ep.tx = "STALL" ELSE ep.rx = "STALL"
    /\ host' = [ host EXCEPT !.stage = "stalled" ]
    /\ UNCHANGED <<ep, reset, daddr, pc, ctl, given, done>>

(* It gives a transfer up after seconds, in which the firmware has polled. *)
Abort ==
    /\ host.stage \in {"data", "status"} /\ Quiet /\ OnBus
    /\ host' = [ host EXCEPT !.stage = "idle" ]
    /\ UNCHANGED <<ep, reset, daddr, pc, ctl, given, done>>

(* A bus reset, whatever the firmware is doing; only with Window may it come *)
(* upon a packet that has not been read.                                    *)
BusReset ==
    /\ ~reset /\ (Window \/ ~ep.ctr_rx)
    /\ reset' = TRUE
    /\ ep' = ResetRegs(ep)
    /\ daddr' = None
    /\ host' = [ host EXCEPT !.stage = "idle", !.addr = 0,
                             !.well = @ /\ (pc # "idle" \/ ep.ctr_rx \/ ep.ctr_tx),
                             !.lost = @ \/ (ep.ctr_rx /\ ep.setup) ]
    /\ given' = None /\ done' = None
    /\ UNCHANGED <<pc, ctl>>

Host == \/ \E r \in Requests : Start(r)
        \/ DataIn \/ StatusOut \/ DataOut \/ StatusIn \/ Stalled \/ Abort \/ BusReset

Next == Poll \/ Callback \/ Host

(* The firmware keeps polling, and the host keeps repeating its token. *)
Token == DataIn \/ StatusOut \/ DataOut \/ StatusIn \/ Stalled
Fairness ==
    /\ WF_vars(Poll \/ Callback)
    /\ SF_vars(Token)

Spec == Init /\ [][Next]_vars
FairSpec == Spec /\ Fairness

-----------------------------------------------------------------------------
(* Properties *)

Written(r) == ~r.in /\ r.wLength > 0
Refused(r) == ~r.handled \/ (Written(r) /\ r.wLength > BufLen)

(* A read that ended well gave the host the reply of the handler, whole and *)
(* in order, however many packets it took and wherever the last one ended.  *)
ReadDelivers ==
    host.stage = "done" /\ host.req.in => host.got = Bytes(host.req.reply)

(* The handler of a write is called with exactly what the host sent, and a  *)
(* write that ended well has been handled, though a packet may be           *)
(* overwritten before usb_control_recv_chunk reads it.  An exception: a     *)
(* SETUP that a bus reset finds unread loses its mark and, after a second   *)
(* reset, can be taken for the data of a write given up before it.          *)
WriteDelivers ==
    /\ given # None /\ ~host.lost => given = Bytes(host.req.wLength)
    /\ host.stage = "done" /\ Written(host.req) => given = Bytes(host.req.wLength)

(* The host sees a STALL exactly for the requests that the device refuses,  *)
(* never in answer to a transfer it could have carried out.                 *)
StallsOnlyRefused == host.stage = "stalled" => Refused(host.req)
RefusedNeverDone  == host.stage = "done" => ~Refused(host.req)

(* A completion callback (usb_control.c:240, 304) runs for the transfer it  *)
(* was registered in, and only when the host has ended it well: not after   *)
(* an abort or a stall, not on behalf of a later transfer, and after a bus  *)
(* reset only when the end of the transfer was still to be handled, since   *)
(* _usbd_reset leaves the control state and the reset the completion flags. *)
(* An exception, as above: a SETUP that a reset has found unread, which can *)
(* be taken for the end of a read.                                          *)
CompletionIsTrue ==
    [][done' # done /\ done' # None
         => (host.well /\ done' = host.req) \/ host.lost]_vars

(* At rest, the device answers to the address that the host believes it has: *)
(* the new one once the status stage of SET_ADDRESS is over                 *)
(* (usb_control.c:304), 0 after a bus reset (st_usbfs_core.c:239).  But when *)
(* the reset comes between the two, the completion of the status stage      *)
(* survives it and the address is taken over after it: then the device is   *)
(* not at 0 until the next reset.                                           *)
LateAddress == host.stage = "idle" /\ host.well /\ host.req.set_address
AddressAgreed == Quiet /\ host.stage # "detached" => daddr = host.addr \/ LateAddress

(* The endpoint is never deaf for good: a packet is always acknowledged in   *)
(* the end, so that the next SETUP can be received (the callbacks that       *)
(* st_usbfs_poll runs for an OUT are trusted to read it).                    *)
SetupHeard == host.stage # "detached" ~> TakesSetup(ep)

(* No transfer hangs: it ends well, with a STALL, or by the host's own will.*)
TransfersEnd == host.stage \in {"data", "status"} ~> host.stage \notin {"data", "status"}
=============================================================================
