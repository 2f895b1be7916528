----------------------------- MODULE UsbStandard -----------------------------
(***************************************************************************)
(* Configuration: bus resets and SET_CONFIGURATION (usb.c, usb_standard.c) *)
(* over the packet memory of the STM32 full-speed peripheral               *)
(* (st_usbfs_core.c), with the set-config callbacks of a class driver.     *)
(*                                                                         *)
(* SET_CONFIGURATION and every call that a set-config callback makes are   *)
(* steps of their own, all within one poll: the bus may be reset between   *)
(* any two of them.                                                        *)
(***************************************************************************)
EXTENDS Integers, Sequences, FiniteSets

CONSTANTS
    MaxPacket0,     \* bMaxPacketSize0
    Halves,         \* the endpoint halves of the class
    Size,           \* the size that each is set up with
    Sends,          \* those among them that are IN endpoints
    Calls,          \* the calls of the set-config callbacks, in order: a half is set
                    \* up, or a control callback registered ("control")
    Configs,        \* the values of bConfigurationValue
    Values,         \* the values that a SET_CONFIGURATION may carry
    MaxCallbacks,   \* MAX_USER_CONTROL_CALLBACK
    PmTop,          \* USBD_PM_TOP, behind the table of buffers
    PmSize,         \* the size of the packet memory
    Layout,         \* where pm_top is after so many of the calls
    None

Control == {"tx0", "rx0"}

ASSUME StandardAssumption ==
    /\ MaxPacket0 \in {8, 16, 32, 64}
    /\ Size \in [ Halves -> 1 .. 1023 ] /\ Sends \subseteq Halves
    /\ Halves \cap (Control \union {"control"}) = {}
    /\ Calls \in Seq(Halves \union {"control"})
    /\ Configs \subseteq 1 .. 255 /\ Values \subseteq 0 .. 255 /\ None \notin 0 .. 255
    /\ PmTop \in Nat /\ PmSize \in Nat /\ MaxCallbacks \in Nat

(* st_usbfs_set_ep_rx_bufsize: the next size the peripheral can express. *)
realsize(size) ==
    IF size > 62 THEN 32 * ((((size - 1) \div 32) % 32) + 1) ELSE 2 * ((size + 1) \div 2)

Room(h) == IF h \in Sends THEN Size[h] ELSE realsize(Size[h])

Base == PmTop + 2 * MaxPacket0

(* What the class asks for fits: the code does not see to it.               *)
ASSUME LayoutAssumption ==
    /\ Layout \in [ 0 .. Len(Calls) -> 0 .. PmSize ]
    /\ Layout[0] = Base
    /\ \A i \in 1 .. Len(Calls) :
          Layout[i] = Layout[i - 1] + (IF Calls[i] = "control" THEN 0 ELSE Room(Calls[i]))
    /\ \A i, j \in 0 .. Len(Calls) : i <= j => Layout[i] <= Layout[j]

VARIABLES
    config,       \* the value of the configuration current_config names, 0 for none
    pm_top,
    pm,           \* the buffer of each half: its address and length
    enabled,      \* the halves whose STAT is not DISABLED
    call,         \* the call that the set-config callbacks make next, 0 outside them
    callbacks,    \* user_control_callback, up to the first empty place
    istr_reset,   \* USB_ISTR_RESET
    req,          \* the value of a SET_CONFIGURATION before it is handled
    wanted,       \* the value that the host waits to see accepted
    believed      \* the configuration that the host believes the device to have

stdvars == <<config, pm_top, pm, enabled, call, callbacks, istr_reset, req, wanted, believed>>

Buffer == [ at : Nat, len : Nat ]

StdInit ==
    /\ config = 0 /\ pm_top = 0
    /\ pm = [ h \in Halves \union Control |-> [ at |-> 0, len |-> 0 ] ]
    /\ enabled = {} /\ call = 0 /\ callbacks = <<>>
    /\ istr_reset = FALSE
    /\ req = None /\ wanted = None /\ believed = 0

-----------------------------------------------------------------------------
(* The driver *)

(* A faulty variant of the next one, that forgets the buffers of endpoint 0. *)
endpoints_reset_low ==
    /\ enabled' = enabled \cap Control
    /\ pm_top' = PmTop

(* st_usbfs_endpoints_reset *)
endpoints_reset ==
    /\ enabled' = enabled \cap Control
    /\ pm_top' = Base

(* st_usbfs_ep_setup of a half of the class: its buffer is the next one. *)
ep_setup_half(h) ==
    /\ pm' = [ pm EXCEPT ![h] = [ at |-> pm_top, len |-> Room(h) ] ]
    /\ pm_top' = pm_top + Room(h)
    /\ enabled' = enabled \union {h}

(* _usbd_reset, and what st_usbfs_poll does before it: endpoint 0 is set up *)
(* at the bottom of the packet memory; nothing disables the other endpoints *)
(* (the bus reset has), and the callbacks stay.                             *)
PollReset ==
    /\ istr_reset /\ req = None /\ call = 0
    /\ istr_reset' = FALSE
    /\ config' = 0
    /\ pm' = [ pm EXCEPT !["tx0"] = [ at |-> PmTop, len |-> MaxPacket0 ],
                         !["rx0"] = [ at |-> PmTop + MaxPacket0, len |-> realsize(MaxPacket0) ] ]
    /\ pm_top' = PmTop + MaxPacket0 + realsize(MaxPacket0)
    /\ enabled' = enabled \union Control
    /\ UNCHANGED <<call, callbacks, req, wanted, believed>>

-----------------------------------------------------------------------------
(* The request *)

(* usb_standard_set_configuration up to the set-config callbacks: a value    *)
(* that no configuration has is refused, 0 is not, and the callbacks run     *)
(* for every value that is not refused.                                      *)
SetConfiguration ==
    /\ req # None /\ req' = None
    /\ IF req \in Configs \union {0}
       THEN /\ config' = req
            /\ endpoints_reset
            /\ call' = IF Calls = <<>> THEN 0 ELSE 1
            /\ callbacks' = IF Calls = <<>> THEN callbacks ELSE <<>>
            /\ UNCHANGED wanted
       ELSE /\ wanted' = None
            /\ UNCHANGED <<config, pm_top, enabled, call, callbacks>>
    /\ UNCHANGED <<pm, istr_reset, believed>>

(* usbd_register_control_callback takes the first free place, if any. *)
register_control_callback(list) ==
    IF Len(list) < MaxCallbacks THEN Append(list, "control") ELSE list

NextCall == IF call = Len(Calls) THEN 0 ELSE call + 1

CallSetup ==
    /\ call # 0 /\ Calls[call] # "control"
    /\ ep_setup_half(Calls[call])
    /\ call' = NextCall
    /\ UNCHANGED <<config, callbacks, istr_reset, req, wanted, believed>>

CallRegister ==
    /\ call # 0 /\ Calls[call] = "control"
    /\ callbacks' = register_control_callback(callbacks)
    /\ call' = NextCall
    /\ UNCHANGED <<config, pm_top, pm, enabled, istr_reset, req, wanted, believed>>

(* The callbacks of a class read and write packets, and so enable a half     *)
(* (st_usbfs_ep_read_packet, st_usbfs_ep_write_packet) that a reset had      *)
(* disabled: the flag of a packet that came or went before the reset is      *)
(* kept, and the callback is run for it after the reset.                     *)
Polling == ~istr_reset /\ req = None /\ call = 0

Enables(some) ==
    /\ enabled' = enabled \union some
    /\ UNCHANGED <<config, pm_top, pm, call, callbacks, istr_reset, req, wanted, believed>>

ClassCallback ==
    /\ Polling
    /\ \E some \in SUBSET { h \in Halves : pm[h].len > 0 } : Enables(some)

-----------------------------------------------------------------------------
(* The host *)

Configure(v) ==
    /\ Polling /\ "rx0" \in enabled /\ wanted = None
    /\ req' = v /\ wanted' = v
    /\ UNCHANGED <<config, pm_top, pm, enabled, call, callbacks, istr_reset, believed>>

(* It sees the status stage. *)
Configured ==
    /\ Polling /\ wanted # None
    /\ believed' = wanted /\ wanted' = None
    /\ UNCHANGED <<config, pm_top, pm, enabled, call, callbacks, istr_reset, req>>

(* All endpoints are disabled at once; a request that was only received is   *)
(* lost, one that is being handled is not.                                   *)
BusReset ==
    /\ ~istr_reset /\ istr_reset' = TRUE
    /\ enabled' = {}
    /\ req' \in {req, None}
    /\ wanted' = None /\ believed' = 0
    /\ UNCHANGED <<config, pm_top, pm, call, callbacks>>

StdNext ==
    \/ PollReset \/ SetConfiguration \/ CallSetup \/ CallRegister \/ ClassCallback
    \/ (\E v \in Values : Configure(v)) \/ Configured \/ BusReset

StdSpec == StdInit /\ [][StdNext]_stdvars

-----------------------------------------------------------------------------
(* Properties *)

StdTypeOK ==
    /\ config \in 0 .. 255 /\ believed \in 0 .. 255
    /\ req \in 0 .. 255 \union {None} /\ wanted \in 0 .. 255 \union {None}
    /\ pm_top \in Nat /\ pm \in [ Halves \union Control -> Buffer ]
    /\ enabled \subseteq Halves \union Control
    /\ call \in 0 .. Len(Calls)
    /\ callbacks \in Seq({"control"})
    /\ istr_reset \in BOOLEAN

Apart(a, b) == a.at + a.len <= b.at \/ b.at + b.len <= a.at

(* The buffers of two halves that can be addressed never overlap, nor do     *)
(* they overlap the table at the bottom: pm_top starts anew at every bus     *)
(* reset and every SET_CONFIGURATION, in two places and by two sums          *)
(* (st_usbfs_core.c:132 and 241), and a reset of the bus may fall into the   *)
(* middle of the set-config callbacks, whose endpoints then stay enabled.    *)
BuffersApart ==
    /\ \A g, h \in enabled : g # h => Apart(pm[g], pm[h])
    /\ \A h \in enabled : pm[h].at >= PmTop

(* Nor do they leave the packet memory, although nothing compares pm_top     *)
(* with its size (st_usbfs_core.c:106, 119): it does not grow from one       *)
(* configuration to the next.                                                *)
BuffersFit == \A h \in enabled : pm[h].at + pm[h].len <= PmSize
PacketMemory == BuffersApart /\ BuffersFit
=============================================================================
