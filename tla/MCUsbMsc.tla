------------------------------- MODULE MCUsbMsc -------------------------------
(* Two blocks of two packets; writes that overlap, write nothing, leave   *)
(* the disk at its end or come back to its start; replies of a packet and a *)
(* half; commands that let the host expect data which are not there.        *)
EXTENDS UsbMsc

MCSize == [ h \in {"in", "out"} |-> EpSize ]
MCLayout == [ i \in 0 .. 3 |-> 80 + 2 * Least(i, 2) ]
MCCommand(op, lba, n) == [ op |-> op, lba |-> lba, n |-> n ]
MCCommands ==
    { MCCommand("read", 1, 3), MCCommand("write", 0, 1), MCCommand("write", 1, 3),
      MCCommand("write", 1, 0), MCCommand("format", 0, 0), MCCommand("info", 0, 3),
      MCCommand("mode", 0, 3), MCCommand("vpd", 0, 2), MCCommand("sense", 0, 3),
      MCCommand("ready", 0, 0), MCCommand("unknown", 0, 0), MCCommand("unknown", 0, 3) }
=============================================================================
