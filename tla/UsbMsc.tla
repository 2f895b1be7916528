-------------------------------- MODULE UsbMsc --------------------------------
(***************************************************************************)
(* The mass storage class (lib/usb/usb_msc.c): commands, data and status   *)
(* over two bulk endpoints of UsbfsEp, configured by UsbStandard, polled   *)
(* by st_usbfs_poll, and a host (external).                                *)
(*                                                                         *)
(* A byte is a pair that tells what it is of and which: so a byte that is  *)
(* lost, repeated or taken for something else shows.  A command block and  *)
(* a status are sequences of such bytes.  Both endpoints have one size:    *)
(* the code cuts the packets it sends to ep_out_size.                      *)
(***************************************************************************)
EXTENDS UsbStandard, UsbfsEp

CONSTANTS
    EpSize,      \* ep_in_size and ep_out_size
    CbwLen,      \* sizeof(struct usb_msc_cbw), 31
    CswLen,      \* sizeof(struct usb_msc_csw), 13
    BlockLen,    \* 512
    NBlocks,     \* the number of blocks: block_count is one less
    LbaSpan,     \* block numbers are uint32_t: 2^32
    SenseLen,    \* sizeof(_spc3_request_sense), 18
    Commands,    \* what the host may ask for: records [op, lba, n]; n counts blocks in
                 \* a read or write, else the bytes that the host expects
    OutFirst,    \* the OUT endpoint has the lower number
    BackToBack,  \* the host may send a command before the firmware has seen that the
                 \* status of the last one was taken
    Cuts         \* the bus may be reset, or the device configured, in a command

(* msc_set_config, whatever the value: the IN half, the OUT half, and        *)
(* msc_control_request.                                                      *)
msc_set_config == <<"in", "out", "control">>

(* info: READ CAPACITY, or INQUIRY for the standard data; vpd: INQUIRY for a *)
(* page of vital product data; mode: MODE SENSE(6).                          *)
Ops == {"read", "write", "format", "info", "mode", "vpd", "sense", "ready", "unknown"}

ASSUME MscAssumption ==
    /\ EpSize \in Nat \ {0} /\ CbwLen \in Nat \ {0} /\ CswLen \in 1 .. CbwLen
    /\ BlockLen \in Nat \ {0} /\ BlockLen % EpSize = 0 /\ NBlocks \in Nat \ {0}
    /\ None \notin Commands
    /\ \A c \in Commands :
          /\ c.op \in Ops
          /\ c.op \in {"read", "write"} => c.lba \in 0 .. LbaSpan - 1 /\ c.n \in 0 .. LbaSpan
          /\ c.op \in {"info", "mode"} => c.n \in 1 .. BlockLen
          /\ c.op = "sense" => c.n \in 0 .. BlockLen
          /\ c.op \in {"vpd", "unknown"} => c.n \in Nat
    /\ LbaSpan \in Nat \ {0} /\ NBlocks <= LbaSpan /\ SenseLen \in 1 .. BlockLen
    /\ OutFirst \in BOOLEAN /\ BackToBack \in BOOLEAN /\ Cuts \in BOOLEAN
    /\ Halves = {"in", "out"} /\ Sends = {"in"}
    /\ Calls = msc_set_config /\ MaxCallbacks >= 1

VARIABLES
    ep,     \* the two bulk endpoints, with DTOG of the direction they serve
    t,      \* ms->trans; cbw and buf (msd_buf) are what they hold
    disk,   \* what read_block and write_block work on
    sense,  \* ms->sense: "none" or "illegal"
    host    \* the host's command, its stage, what was sent and received, its toggles

mscvars == <<ep, t, disk, sense, host>>
vars == <<stdvars, mscvars>>

Zero == <<"zero", 0>>
ZeroBlock == [ i \in 1 .. BlockLen |-> Zero ]
CbwBytes(c) == [ i \in 1 .. CbwLen |-> <<"cbw", c, i>> ]
CswBytes(tag, status) == [ i \in 1 .. CswLen |-> <<"csw", tag, status, i>> ]
DataOut(c) == [ i \in 1 .. c.n * BlockLen |-> <<"data", i>> ]
InfoBytes(n) == [ i \in 1 .. n |-> <<"info", i>> ]
ModeBytes(n) == [ i \in 1 .. n |-> <<"mode", i>> ]
SenseBytes(key) == [ i \in 1 .. SenseLen |-> <<"sense", key>> ]
Least(a, b) == IF a < b THEN a ELSE b

NoEp == [ tx |-> "DISABLED", rx |-> "DISABLED", ctr_tx |-> FALSE, ctr_rx |-> FALSE,
          setup |-> FALSE, tx_buf |-> <<>>, rx_buf |-> <<>>, force_nak |-> FALSE, dtog |-> 0 ]

(* usb_msc_init, and the end of a transaction; lba_start is 0xffffffff. *)
EndOf(trans) ==
    [ trans EXCEPT !.cbw = <<>>, !.to_read = 0, !.to_write = 0, !.count = 0, !.lba = None,
                   !.blocks = 0, !.cur = 0, !.csw_valid = FALSE, !.csw_sent = 0 ]

Init ==
    /\ StdInit
    /\ ep = [ in |-> NoEp, out |-> NoEp ]
    /\ t = [ cbw |-> <<>>, to_read |-> 0, to_write |-> 0, count |-> 0, lba |-> None,
             blocks |-> 0, cur |-> 0, csw_valid |-> FALSE, csw_sent |-> 0,
             tag |-> None, status |-> "passed", buf |-> ZeroBlock ]
    /\ disk = [ b \in 0 .. NBlocks - 1 |-> ZeroBlock ]
    /\ sense = "none"
    /\ host = [ stage |-> "idle", cmd |-> None, sent |-> 0, got |-> <<>>, csw |-> <<>>,
                tog |-> [ in |-> 0, out |-> 0 ] ]

-----------------------------------------------------------------------------
(* The SCSI layer, as operators on the record of all that a callback may    *)
(* change: the endpoints, the transaction, the disk and the sense data.     *)

Now == [ in |-> ep.in, out |-> ep.out, t |-> t, disk |-> disk, sense |-> sense ]

Put(buf, at, bytes) ==
    [ i \in DOMAIN buf |-> IF i \in at + 1 .. at + Len(bytes) THEN bytes[i - at] ELSE buf[i] ]

(* scsi_command(EVENT_CBW_VALID).  Of the reply to MODE SENSE the last byte  *)
(* is not set, of that to REQUEST SENSE none beyond SenseLen; a page of      *)
(* vital product data is not sent, but no error either.                      *)
scsi_command(d) ==
    LET c == d.t.cbw[1][2]
        s == [ d EXCEPT !.t.csw_sent = 0, !.t.tag = c, !.t.status = "passed",
                        !.t.to_write = 0, !.t.to_read = 0, !.t.count = 0 ]
    IN  CASE c.op = "ready"  -> [ s EXCEPT !.sense = "none" ]
          [] c.op = "format" ->
               [ s EXCEPT !.disk = [ b \in DOMAIN d.disk |->
                                       IF b < NBlocks - 1 THEN ZeroBlock ELSE d.disk[b] ],
                          !.t.buf = ZeroBlock, !.sense = "none" ]
          [] c.op = "sense"  ->
               [ s EXCEPT !.t.to_write = c.n, !.t.buf = Put(@, 0, SenseBytes(d.sense)) ]
          [] c.op = "mode"   ->
               [ s EXCEPT !.t.to_write = c.n, !.t.buf = Put(@, 0, ModeBytes(c.n - 1)) ]
          [] c.op = "vpd"    -> s
          [] c.op = "info"   ->
               [ s EXCEPT !.t.to_write = c.n, !.t.buf = Put(@, 0, InfoBytes(c.n)),
                          !.sense = "none" ]
          [] c.op = "read"   ->
               [ s EXCEPT !.t.lba = c.lba, !.t.blocks = c.n, !.t.to_write = c.n * BlockLen,
                          !.sense = "none" ]
          [] c.op = "write"  ->
               [ s EXCEPT !.t.lba = c.lba, !.t.blocks = c.n, !.t.cur = 0,
                          !.t.to_read = c.n * BlockLen ]
          [] OTHER -> [ s EXCEPT !.t.status = "failed", !.sense = "illegal" ]

(* scsi_command(EVENT_NEED_STATUS) *)
need_status(d) ==
    LET c == d.t.cbw[1][2] IN
    CASE c.op = "ready"   -> [ d EXCEPT !.sense = "none" ]
      [] c.op = "unknown" -> [ d EXCEPT !.t.status = "failed", !.sense = "illegal",
                                        !.t.to_write = 0, !.t.to_read = 0 ]
      [] OTHER -> d

-----------------------------------------------------------------------------
(* The mass storage layer *)

(* read_block and write_block of the application work on a block that the    *)
(* disk has; their results are not looked at, and nothing compares lba_start *)
(* and block_count with the size of the disk.                                *)
BlockNo(lba, i) == (lba + i) % LbaSpan
BlockRead(blocks, b, buf)    == IF b \in DOMAIN blocks THEN blocks[b] ELSE buf
BlockWritten(blocks, b, buf) == IF b \in DOMAIN blocks THEN [ blocks EXCEPT ![b] = buf ] ELSE blocks

(* What ep_write_packet returns. *)
written(e, packet) == IF e.tx = "VALID" THEN 0 ELSE Len(packet)

(* The status, or what is left of it *)
send_status(d) ==
    LET v == IF d.t.csw_valid THEN d ELSE [ need_status(d) EXCEPT !.t.csw_valid = TRUE ]
        sent == v.t.csw_sent
        packet == SubSeq(CswBytes(v.t.tag, v.t.status), sent + 1, Least(CswLen, sent + EpSize))
    IN  IF sent < CswLen
        THEN [ v EXCEPT !.in = ep_write_packet(@, packet),
                        !.t.csw_sent = @ + written(v.in, packet) ]
        ELSE v

(* A faulty variant of the next one, that reads the same block again. *)
read_block_again(d) ==
    IF d.t.blocks > 0 /\ d.t.count % BlockLen = 0
    THEN [ d EXCEPT !.t.buf = BlockRead(d.disk, BlockNo(d.t.lba, 0), @) ]
    ELSE d

(* At the start of a block, it is read. *)
read_block(d) ==
    IF d.t.blocks > 0 /\ d.t.count % BlockLen = 0
    THEN [ d EXCEPT !.t.buf = BlockRead(d.disk, BlockNo(d.t.lba, d.t.cur), @), !.t.cur = @ + 1 ]
    ELSE d

(* A faulty variant of the next one, that leaves it to the endpoint to cut   *)
(* what it is given.                                                         *)
send_data_uncut(d) ==
    LET r  == read_block(d)
        at == d.t.count % BlockLen
        packet == SubSeq(r.t.buf, at + 1, Least(BlockLen, at + d.t.to_write - d.t.count))
    IN  [ r EXCEPT !.in = ep_write_packet(@, packet), !.t.count = @ + written(d.in, packet) ]

send_data(d) ==
    LET r  == read_block(d)
        at == d.t.count % BlockLen
        packet == SubSeq(r.t.buf, at + 1, at + Least(EpSize, d.t.to_write - d.t.count))
    IN  [ r EXCEPT !.in = ep_write_packet(@, packet), !.t.count = @ + written(d.in, packet) ]

(* At the end of a block, it is written. *)
write_block(d) ==
    IF d.t.blocks > 0 /\ d.t.count % BlockLen = 0
    THEN [ d EXCEPT !.disk = BlockWritten(@, BlockNo(d.t.lba, d.t.cur), d.t.buf), !.t.cur = @ + 1 ]
    ELSE d

(* A packet of data comes in.  The status goes out behind the first one, to *)
(* wait there until the host has sent them all.                             *)
receive_data(d) ==
    LET packet == read_packet_data(d.out, Least(EpSize, d.t.to_read - d.t.count)) IN
    send_status(write_block(
        [ d EXCEPT !.out = ep_read_packet(@),
                   !.t.buf = Put(@, d.t.count % BlockLen, packet),
                   !.t.count = @ + Len(packet) ]))

(* No data left: after a read or write in full, the block behind it is      *)
(* written with whatever the buffer holds.  No command leads here then.     *)
close_rx(d) ==
    IF d.t.blocks > 0 /\ d.t.cur = d.t.blocks
    THEN [ d EXCEPT !.disk = BlockWritten(@, BlockNo(d.t.lba, d.t.cur), d.t.buf), !.t.cur = 0 ]
    ELSE d

continue_rx(d) ==
    IF d.t.count < d.t.to_read THEN receive_data(d)
    ELSE IF d.t.count < d.t.to_write THEN send_data(d)
    ELSE send_status(close_rx(d))

(* msc_data_rx_cb *)
data_rx_cb(d) ==
    LET left == CbwLen - Len(d.t.cbw)
        packet == read_packet_data(d.out, Least(EpSize, left))
        r == [ d EXCEPT !.out = ep_read_packet(@), !.t.cbw = @ \o packet ]
        whole == Len(r.t.cbw) = CbwLen
        c == scsi_command(r)
    IN  IF left <= 0 THEN continue_rx(d)
        ELSE IF ~whole THEN continue_rx(r)
        ELSE IF c.t.count < c.t.to_read THEN c
        ELSE continue_rx(c)

(* A faulty variant of the next one, that keeps the command block. *)
end_of_transaction_kept(d) == [ d EXCEPT !.t = [ EndOf(@) EXCEPT !.cbw = d.t.cbw ] ]

end_of_transaction(d) == [ d EXCEPT !.t = EndOf(@) ]

(* msc_data_tx_cb *)
data_tx_cb(d) ==
    LET closed == IF d.t.blocks > 0 /\ d.t.cur = d.t.blocks THEN [ d EXCEPT !.t.cur = 0 ] ELSE d
    IN  IF d.t.count < d.t.to_write THEN send_data(d)
        ELSE IF d.t.csw_sent = CswLen THEN end_of_transaction(send_status(closed))
        ELSE send_status(closed)

Awake(d) == { h \in Halves : IF h = "in" THEN d.in.tx # "DISABLED" ELSE d.out.rx # "DISABLED" }

Becomes(d) ==
    /\ ep' = [ in |-> d.in, out |-> d.out ] /\ t' = d.t
    /\ disk' = d.disk /\ sense' = d.sense
    /\ Enables(Awake(d))

(* st_usbfs_poll: the endpoint with the lowest number is served. *)
PollOut ==
    /\ Polling /\ ep.out.ctr_rx /\ (OutFirst \/ ~ep.in.ctr_tx)
    /\ Becomes(data_rx_cb(Now))
    /\ UNCHANGED host

PollIn ==
    /\ Polling /\ ep.in.ctr_tx /\ (~OutFirst \/ ~ep.out.ctr_rx)
    /\ Becomes(data_tx_cb([ Now EXCEPT !.in = clear_ctr_tx(@) ]))
    /\ UNCHANGED host

-----------------------------------------------------------------------------
(* Configuration, and what it does to the endpoints *)

Quiet == Polling /\ ~ep.out.ctr_rx /\ ~ep.in.ctr_tx
AtRest == host.stage = "idle" /\ Quiet

MscPollReset == PollReset /\ UNCHANGED mscvars

MscConfigure(v) == (Cuts \/ AtRest) /\ Configure(v) /\ UNCHANGED mscvars

MscSetConfiguration ==
    /\ SetConfiguration
    /\ ep' = IF req \in Configs \union {0}
             THEN [ h \in Halves |-> [ ep[h] EXCEPT !.tx = "DISABLED", !.rx = "DISABLED" ] ]
             ELSE ep
    /\ UNCHANGED <<t, disk, sense, host>>

MscCall ==
    /\ CallSetup
    /\ ep' = IF Calls[call] = "in"
             THEN [ ep EXCEPT !.in.tx = "NAK", !.in.dtog = 0 ]
             ELSE [ ep EXCEPT !.out.rx = "VALID", !.out.dtog = 0 ]
    /\ UNCHANGED <<t, disk, sense, host>>

MscRegister == CallRegister /\ UNCHANGED mscvars

MscConfigured ==
    /\ Configured
    /\ host' = [ host EXCEPT !.tog = [ in |-> 0, out |-> 0 ] ]
    /\ UNCHANGED <<ep, t, disk, sense>>

(* The host gives a command up when the device has nothing more to send.     *)
Stuck == host.stage \in {"in", "csw"} /\ ep.in.tx # "VALID"

MscBusReset ==
    /\ Cuts \/ (~ep.out.ctr_rx /\ ~ep.in.ctr_tx /\ (host.stage = "idle" \/ Stuck))
    /\ BusReset
    /\ ep' = [ h \in Halves |-> [ ResetRegs(ep[h]) EXCEPT !.dtog = 0 ] ]
    /\ host' = [ host EXCEPT !.stage = "idle", !.tog = [ in |-> 0, out |-> 0 ],
                             !.cmd = IF host.stage = "idle" THEN @ ELSE None ]
    /\ UNCHANGED <<t, disk, sense>>

OnBus == ~istr_reset /\ believed # 0 /\ wanted = None

(* SET_FEATURE and CLEAR_FEATURE of ENDPOINT_HALT, between two commands:      *)
(* usb_standard_endpoint_stall and _unstall.                                 *)
Halt(h) ==
    /\ OnBus /\ AtRest
    /\ ep' = IF h = "in" THEN [ ep EXCEPT !.in.tx = "STALL" ]
             ELSE [ ep EXCEPT !.out.rx = "STALL" ]
    /\ UNCHANGED <<stdvars, t, disk, sense, host>>

(* A faulty variant of the next one, that keeps DTOG. *)
endpoint_unstall_kept(h) ==
    IF h = "in" THEN [ ep EXCEPT !.in.tx = "NAK" ] ELSE [ ep EXCEPT !.out.rx = "VALID" ]

endpoint_unstall(h) ==
    IF h = "in" THEN [ ep EXCEPT !.in.tx = "NAK", !.in.dtog = 0 ]
    ELSE [ ep EXCEPT !.out.rx = "VALID", !.out.dtog = 0 ]

ClearHalt(h) ==
    /\ OnBus /\ AtRest
    /\ ep' = endpoint_unstall(h)
    /\ host' = [ host EXCEPT !.tog[h] = 0 ]
    /\ UNCHANGED <<stdvars, t, disk, sense>>

-----------------------------------------------------------------------------
(* The host and the bus *)

Halted == ep.in.tx = "STALL" \/ ep.out.rx = "STALL"

Writes(c) == c.op = "write" /\ c.n > 0
BytesOf(stage, c) == IF stage = "cbw" THEN CbwBytes(c) ELSE DataOut(c)
ReplyLen(c) ==
    CASE c.op = "read" -> c.n * BlockLen
      [] c.op \in {"info", "mode", "vpd", "sense", "unknown"} -> c.n
      [] OTHER -> 0

Command(c) ==
    /\ host.stage = "idle" /\ OnBus /\ ~Halted /\ (BackToBack \/ Quiet)
    /\ host' = [ host EXCEPT !.stage = "cbw", !.cmd = c, !.sent = 0, !.got = <<>>, !.csw = <<>> ]
    /\ UNCHANGED <<stdvars, ep, t, disk, sense>>

(* A packet with the wrong toggle is acknowledged and thrown away. *)
HostOut ==
    /\ host.stage \in {"cbw", "out"} /\ OnBus /\ ep.out.rx = "VALID"
    /\ LET bytes == BytesOf(host.stage, host.cmd)
           upto  == Least(Len(bytes), host.sent + EpSize)
       IN  /\ ep' = IF ep.out.dtog = host.tog.out
                    THEN [ ep EXCEPT !.out = [ HwOut(ep.out, SubSeq(bytes, host.sent + 1, upto))
                                                 EXCEPT !.dtog = 1 - @ ] ]
                    ELSE ep
           /\ host' = [ host EXCEPT !.tog.out = 1 - @,
                 !.sent  = IF upto = Len(bytes) THEN 0 ELSE upto,
                 !.stage = IF upto < Len(bytes) THEN @
                           ELSE IF @ = "cbw" /\ Writes(host.cmd) THEN "out"
                           ELSE IF ReplyLen(host.cmd) > 0 THEN "in"
                           ELSE "csw" ]
    /\ UNCHANGED <<stdvars, t, disk, sense>>

(* The host throws a packet with the wrong toggle away. *)
HostIn ==
    /\ host.stage \in {"in", "csw"} /\ OnBus /\ ep.in.tx = "VALID"
    /\ ep' = [ ep EXCEPT !.in = [ HwIn(ep.in) EXCEPT !.dtog = 1 - @ ] ]
    /\ LET packet == ep.in.tx_buf
           got == host.got \o packet
           csw == host.csw \o packet
       IN  host' = IF ep.in.dtog # host.tog.in THEN host
                   ELSE IF host.stage = "in"
                   THEN [ host EXCEPT !.got = got, !.tog.in = 1 - @,
                            !.stage = IF Len(packet) < EpSize \/ Len(got) >= ReplyLen(host.cmd)
                                      THEN "csw" ELSE @ ]
                   ELSE [ host EXCEPT !.csw = csw, !.tog.in = 1 - @,
                            !.stage = IF Len(csw) >= CswLen THEN "idle" ELSE @ ]
    /\ UNCHANGED <<stdvars, t, disk, sense>>

-----------------------------------------------------------------------------

Device == MscPollReset \/ MscSetConfiguration \/ MscCall \/ MscRegister \/ PollOut \/ PollIn

Next ==
    \/ Device
    \/ (\E v \in Values : MscConfigure(v)) \/ MscConfigured \/ MscBusReset
    \/ (\E h \in Halves : Halt(h) \/ ClearHalt(h))
    \/ (\E c \in Commands : Command(c))
    \/ HostOut \/ HostIn

Spec == Init /\ [][Next]_vars

(* The firmware polls, and the host repeats its token. *)
FairSpec == Spec /\ WF_vars(Device) /\ WF_vars(HostOut \/ HostIn)

-----------------------------------------------------------------------------
(* Properties *)

TypeOK ==
    /\ StdTypeOK
    /\ \A h \in Halves :
          /\ ep[h].tx \in Stats /\ ep[h].rx \in Stats
          /\ ep[h].ctr_tx \in BOOLEAN /\ ep[h].ctr_rx \in BOOLEAN /\ ep[h].dtog \in {0, 1}
          /\ Len(ep[h].tx_buf) <= EpSize /\ Len(ep[h].rx_buf) <= EpSize
    /\ "in" \in enabled <=> ep.in.tx # "DISABLED"
    /\ "out" \in enabled <=> ep.out.rx # "DISABLED"
    /\ Len(t.cbw) \in 0 .. CbwLen /\ t.csw_sent \in 0 .. CswLen /\ t.csw_valid \in BOOLEAN
    /\ Len(t.buf) = BlockLen /\ t.cur \in 0 .. t.blocks /\ t.status \in {"passed", "failed"}
    /\ sense \in {"none", "illegal"}
    /\ host.stage \in {"idle", "cbw", "out", "in", "csw"}

(* A device that the host believes configured has taken that configuration,  *)
(* has its endpoints in step with the host, and passes class requests to    *)
(* each callback once: SET_CONFIGURATION may come any number of times, for   *)
(* any value, with resets before, in and after it.                           *)
Ready ==
    OnBus /\ req = None /\ call = 0 =>
        /\ config = believed
        /\ callbacks = <<"control">>
        /\ ep.in.tx # "DISABLED" /\ ep.out.rx # "DISABLED"
        /\ ep.in.dtog = host.tog.in /\ ep.out.dtog = host.tog.out

(* What the commands mean.  Two things a host would not expect: of a write   *)
(* only the blocks that the disk has are written, with no error for the      *)
(* others; and a format leaves the last block as it is, since block_count,   *)
(* the limit of scsi_format_unit's loop, is the number of the last block.    *)
Addressed(c) ==
    CASE c.op = "write"  -> { BlockNo(c.lba, i) : i \in 0 .. c.n - 1 } \cap (0 .. NBlocks - 1)
      [] c.op = "format" -> 0 .. NBlocks - 2
      [] OTHER -> {}
Content(c, b) ==
    IF c.op = "write"
    THEN LET i == CHOOSE i \in 0 .. c.n - 1 : BlockNo(c.lba, i) = b
         IN  SubSeq(DataOut(c), i * BlockLen + 1, (i + 1) * BlockLen)
    ELSE ZeroBlock

(* The i-th byte of a reply.  What the disk does not have, the last byte for *)
(* MODE SENSE, and what is beyond the sense data are left open.              *)
MayReply(c, blocks, key, i, byte) ==
    CASE c.op = "read"  ->
           LET b == BlockNo(c.lba, (i - 1) \div BlockLen)
           IN  b \in DOMAIN blocks => byte = blocks[b][((i - 1) % BlockLen) + 1]
      [] c.op = "info"  -> byte = <<"info", i>>
      [] c.op = "mode"  -> i < c.n => byte = <<"mode", i>>
      [] c.op = "sense" -> i <= SenseLen => byte = <<"sense", key>>
      [] OTHER -> TRUE
IsReply(c, blocks, key, data) ==
    /\ Len(data) = ReplyLen(c)
    /\ \A i \in 1 .. Len(data) : MayReply(c, blocks, key, i, data[i])

SenseAfter(c, key) ==
    CASE c.op = "unknown" -> "illegal"
      [] c.op \in {"write", "sense", "mode", "vpd"} -> key
      [] OTHER -> "none"
Refused(c) == c.op = "unknown"

(* The device has no data for these, and the host takes their status for it. *)
Unanswered(c) == c.op \in {"vpd", "unknown"} /\ c.n > 0

(* A packet of data that the host has sent is as good as stored. *)
Stored == IF ep.out.ctr_rx /\ t.count < t.to_read THEN data_rx_cb(Now).disk ELSE disk

Answered(h) ==
    IF h.stage # "idle" \/ h.cmd = None THEN None
    ELSE [ to |-> h.cmd, data |-> h.got,
           status |-> CASE h.csw = CswBytes(h.cmd, "passed") -> "passed"
                        [] h.csw = CswBytes(h.cmd, "failed") -> "failed"
                        [] OTHER -> "garbled" ]

Blocks == INSTANCE BlockDevice WITH
    blocks <- Stored,
    cmd    <- IF host.stage = "idle" THEN None ELSE host.cmd,
    answer <- Answered(host),
    Blank  <- [ b \in 0 .. NBlocks - 1 |-> ZeroBlock ]

(* The class is a block device: every status is that of the command, a read  *)
(* returns what is on the disk, a write changes what it addresses and has    *)
(* done so when its status is there, and nothing else ever changes a block;  *)
(* the sense data tell of the last command that was refused, until one of    *)
(* those that clear them (usb_msc.c:500, 531).  That is so for addresses     *)
(* beyond the end of the disk too, which the code does not check             *)
(* (usb_msc.c:272, 334): they are answered, with whatever is in the buffer.  *)
ImplementsBlocks == Blocks!Spec

(* Every command is answered, but for one that lets the host expect data     *)
(* which the device does not have.                                           *)
CommandsAnswered == host.stage # "idle" /\ ~Unanswered(host.cmd) ~> host.stage = "idle"
=============================================================================
