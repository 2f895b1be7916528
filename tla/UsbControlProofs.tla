--------------------------- MODULE UsbControlProofs ---------------------------
(* Proofs about UsbControl, for a host that starts a transfer only when the  *)
(* firmware has seen the end of the last one: what a transfer that ends well *)
(* guarantees, for every packet size, buffer and set of requests, and for    *)
(* tokens between the two steps of a poll; and, without such tokens, that    *)
(* only what is refused is stalled.                                          *)
EXTENDS UsbControl, SequenceTheorems, TLAPS

-----------------------------------------------------------------------------
(* The types of the records *)

(* A byte; those of a SETUP packet stand for its request. *)
Byte   == Nat \union Requests
Packet == Seq(Byte)
Endpoint ==
    [ tx : Stats, rx : Stats, ctr_tx : BOOLEAN, ctr_rx : BOOLEAN, setup : BOOLEAN,
      tx_buf : Packet, rx_buf : Packet, force_nak : BOOLEAN ]
Control ==
    [ state : States, req : Requests \union {None}, buf : Packet, needs_zlp : BOOLEAN,
      complete : Requests \union {None} ]
HostState ==
    [ stage : Stages, req : Requests \union {None}, got : Packet, sent : Nat, addr : {0, 1},
      well : BOOLEAN, lost : BOOLEAN ]

Types ==
    /\ ep \in Endpoint /\ Len(ep.tx_buf) <= MaxPacket
    /\ ctl \in Control /\ host \in HostState
    /\ reset \in BOOLEAN /\ daddr \in {0, 1, None}
    /\ pc \in {"idle", "setup", "out", "in"}

-----------------------------------------------------------------------------
(* A transfer has three phases in the device: its SETUP waits in the         *)
(* endpoint, its SETUP is being handled, and the rest.                       *)

Unread == ep.ctr_rx /\ ep.setup
Live   == host.stage \in {"data", "status", "done", "stalled"}
Served == pc # "setup" /\ ~Unread

Read(r) == r.in /\ r.wLength > 0

(* The host has not sent or received anything yet. *)
Fresh ==
    /\ host.stage = IF host.req.wLength = 0 THEN "status" ELSE "data"
    /\ host.got = <<>> /\ host.sent = 0 /\ given = None

UnreadInv ==
    Unread =>
        /\ pc = "idle" /\ Live /\ host.req \in Requests /\ Fresh
        /\ ep.rx_buf = [ i \in 1 .. 8 |-> host.req ]
        /\ ep.rx \notin {"VALID", "STALL"} /\ ep.tx \notin {"VALID", "STALL"} /\ ~ep.ctr_tx

(* What of a write has come in and has not been stored. *)
Pending == IF ep.ctr_rx \/ pc = "out" THEN ep.rx_buf ELSE <<>>

(* It follows what has been stored, or some packet is lost for good. *)
Continues(stored) ==
    /\ Len(Pending) <= MaxPacket
    /\ Pending = <<>> => ~ep.ctr_rx /\ pc # "out"
    /\ host.sent <= host.req.wLength
    /\ Pending # <<>> /\ host.sent < host.req.wLength => Len(Pending) = MaxPacket
    /\ \/ stored \o Pending = Bytes(host.sent)
       \/ Window /\ Len(stored) + Len(Pending) < host.sent

SetupInv ==
    pc = "setup" =>
        /\ ctl.req \in Requests /\ ctl.req = host.req /\ given = None
        /\ ep.tx \notin {"VALID", "STALL"} /\ ep.rx # "STALL" /\ ~ep.ctr_tx
        /\ ~reset => Live
        /\ ~host.lost
        /\ ~Written(host.req) => ~ep.ctr_rx /\ (~reset => Fresh)
        /\ Written(host.req) =>
             /\ ~reset => host.stage = IF host.sent < host.req.wLength THEN "data" ELSE "status"
             /\ Continues(<<>>)
             /\ ~Window => ~ep.ctr_rx

(* A reset takes the host back, and the endpoint but for what it holds.      *)
ResetInv ==
    /\ reset => host.stage = "idle" /\ host.addr = 0
    /\ Live => /\ host.req \in Requests /\ ~host.lost
               /\ host.well <=> host.stage = "done"
    /\ pc = "setup" \/ ctl.state # "IDLE" => ctl.req \in Requests
    /\ pc = "in" => ~ep.ctr_tx

-----------------------------------------------------------------------------
(* The transfer once its SETUP is handled, state by state *)

(* The packet in the endpoint, if the host has not taken it *)
Waiting == IF ep.tx = "VALID" THEN ep.tx_buf ELSE <<>>
Sent == ep.ctr_tx \/ pc = "in"

NoTx == ep.tx # "VALID" /\ ~Sent
NoRx == ~ep.ctr_rx /\ pc # "out"

IdleInv ==
    /\ NoTx
    /\ host.stage \in {"data", "status"} => ep.tx = "STALL" /\ ep.rx = "STALL"
    /\ host.stage # "done" /\ ~Window => Refused(ctl.req)
    /\ ~Window => NoRx

DataInInv ==
    /\ Read(ctl.req) /\ ctl.req.handled
    /\ host.stage \in {"data", "status"}
    /\ NoRx /\ ep.rx \notin {"VALID", "STALL"} /\ ep.tx # "STALL"
    /\ ep.tx = "VALID" => ~Sent
    /\ host.stage = "data" => host.got \o Waiting \o ctl.buf = Bytes(ctl.req.reply)
    /\ host.stage = "status" => host.got = Bytes(ctl.req.reply)
    /\ ctl.state = "DATA_IN" /\ ep.tx = "VALID" => Len(ep.tx_buf) = MaxPacket
    /\ ctl.state = "LAST_DATA_IN" => ctl.buf = <<>>
    /\ ctl.needs_zlp => ctl.buf # <<>> /\ Len(ctl.buf) % MaxPacket = 0

StatusOutInv ==
    /\ Read(ctl.req) /\ ctl.req.handled
    /\ NoTx /\ ep.tx # "STALL" /\ ep.rx # "STALL"
    /\ host.stage \in {"data", "status", "done"}
    /\ ~NoRx => host.stage = "done" /\ ep.rx # "VALID"
    /\ host.got = Bytes(ctl.req.reply)

(* What a write has stored is what the host has sent, as far as it goes. *)
WriteInv ==
    /\ Written(ctl.req) /\ ctl.req.wLength <= BufLen /\ given = None
    /\ Len(ctl.buf) < ctl.req.wLength
    /\ ctl.state = "DATA_OUT" <=> ctl.req.wLength - Len(ctl.buf) > MaxPacket
    /\ host.req = ctl.req /\ Continues(ctl.buf)

DataOutInv ==
    /\ WriteInv
    /\ NoTx
    /\ host.stage = IF host.sent < host.req.wLength THEN "data" ELSE "status"
    /\ ep.tx # "STALL" /\ ep.rx # "STALL"
    /\ pc = "out" => ep.ctr_rx
    /\ ep.ctr_rx /\ ~Window => ep.rx # "VALID"

StatusInInv ==
    /\ ~Refused(ctl.req) /\ ~Read(ctl.req)
    /\ NoRx /\ ep.tx # "STALL"
    /\ host.stage = IF Sent THEN "done" ELSE "status"
    /\ host.stage = "status" => ep.tx = "VALID"
    /\ host.stage = "done" => ep.tx # "VALID"
    /\ IF Written(ctl.req) THEN given = Bytes(ctl.req.wLength) ELSE host.got = <<>>

ServedInv ==
    Served /\ Live =>
        /\ ctl.req = host.req
        /\ ctl.state = "IDLE" => IdleInv
        /\ ctl.state \in {"DATA_IN", "LAST_DATA_IN"} => DataInInv
        /\ ctl.state = "STATUS_OUT" => StatusOutInv
        /\ ctl.state \in {"DATA_OUT", "LAST_DATA_OUT"} => DataOutInv
        /\ ctl.state = "STATUS_IN" => StatusInInv

(* What the bus reset leaves of a transfer: a packet that had come in or     *)
(* gone out is still worked on, in the state that the transfer had reached.  *)
Cut == ~Live /\ ~host.lost /\ pc # "setup"
CutInv ==
    /\ ~Live /\ host.lost => ~Sent /\ pc # "setup"
    /\ Cut =>
        /\ ~NoRx \/ Sent => ctl.req = host.req
        /\ ctl.state \in {"DATA_IN", "LAST_DATA_IN"} => NoRx
        /\ ctl.state \in {"DATA_OUT", "LAST_DATA_OUT"} => ~Sent /\ (~NoRx => WriteInv)
        /\ ctl.state = "STATUS_OUT" /\ ~NoRx => host.well
        /\ ctl.state = "STATUS_IN" /\ Sent => host.well

-----------------------------------------------------------------------------
(* What stays once it is so *)

CompleteInv == pc # "setup" /\ ctl.complete # None => ctl.complete = ctl.req

AddressInv ==
    /\ ~reset /\ host.stage # "detached" =>
         \/ daddr = host.addr
         \/ LateAddress
         \/ /\ host.stage = "done" /\ host.req.set_address
            /\ Served /\ ctl.state = "STATUS_IN" /\ Sent
    /\ host.stage = "done" /\ host.req.set_address => host.addr = 1

DoneInv ==
    /\ given # None /\ ~host.lost => given = Bytes(host.req.wLength)
    /\ host.stage = "done" =>
         /\ ~Refused(host.req)
         /\ host.req.in => host.got = Bytes(host.req.reply)
         /\ Written(host.req) => given = Bytes(host.req.wLength)
    /\ host.stage = "stalled" /\ ~Window => Refused(host.req)

ControlInv ==
    /\ Types
    /\ UnreadInv /\ SetupInv /\ ResetInv /\ ServedInv /\ CutInv
    /\ CompleteInv /\ AddressInv /\ DoneInv

-----------------------------------------------------------------------------
(* What the driver's functions do to an endpoint *)

SameFlags(e, f) ==
    (f.ctr_tx <=> e.ctr_tx) /\ (f.ctr_rx <=> e.ctr_rx) /\ (f.setup <=> e.setup)
SameBufs(e, f) == f.tx_buf = e.tx_buf /\ f.rx_buf = e.rx_buf

LEMMA StallSet ==
    ASSUME NEW e \in Endpoint
    PROVE  LET f == ep_stall_set(e) IN
           /\ f \in Endpoint /\ SameFlags(e, f) /\ SameBufs(e, f)
           /\ f.tx = "STALL" /\ f.rx = "STALL"
  BY DEF Endpoint, ep_stall_set, SameFlags, SameBufs, Stats

LEMMA NakSet ==
    ASSUME NEW e \in Endpoint, NEW nak \in BOOLEAN
    PROVE  LET f == ep_nak_set(e, nak) IN
           /\ f \in Endpoint /\ SameFlags(e, f) /\ SameBufs(e, f)
           /\ f.tx = e.tx /\ f.rx = IF nak THEN "NAK" ELSE "VALID"
           /\ f.force_nak <=> nak
  BY DEF Endpoint, ep_nak_set, SameFlags, SameBufs, Stats

LEMMA WritePacket ==
    ASSUME NEW e \in Endpoint, NEW packet \in Packet
    PROVE  LET f == ep_write_packet(e, packet) IN
           /\ f \in Endpoint /\ SameFlags(e, f)
           /\ f.tx = "VALID" /\ f.tx_buf = IF e.tx = "VALID" THEN e.tx_buf ELSE packet
           /\ f.rx = e.rx /\ f.rx_buf = e.rx_buf
  BY DEF Endpoint, ep_write_packet, SameFlags, Stats

LEMMA ReadPacket ==
    ASSUME NEW e \in Endpoint
    PROVE  LET f == ep_read_packet(e) IN
           /\ f \in Endpoint /\ SameBufs(e, f)
           /\ f.tx = e.tx /\ (f.ctr_tx <=> e.ctr_tx) /\ (f.setup <=> e.setup)
           /\ f.force_nak <=> e.force_nak
           /\ IF e.rx = "VALID" THEN f = e
              ELSE ~f.ctr_rx /\ f.rx = IF e.force_nak THEN e.rx ELSE "VALID"
  BY DEF Endpoint, ep_read_packet, SameBufs, Stats

-----------------------------------------------------------------------------
(* Sequences *)

LEMMA BytesAreData ==
    ASSUME NEW n \in Nat
    PROVE  Bytes(n) \in Packet /\ Len(Bytes(n)) = n
  BY DEF Bytes, Packet, Byte

LEMMA NoBytes == Bytes(0) = <<>>
  BY DEF Bytes

LEMMA Joined ==
    ASSUME NEW s \in Packet, NEW t \in Packet
    PROVE  /\ s \o t \in Packet /\ Len(s \o t) = Len(s) + Len(t)
           /\ \A i \in 1 .. Len(s) + Len(t) :
                 (s \o t)[i] = IF i <= Len(s) THEN s[i] ELSE t[i - Len(s)]
  BY ConcatProperties DEF Packet

LEMMA Regrouped ==
    ASSUME NEW s \in Packet, NEW t \in Packet, NEW u \in Packet
    PROVE  (s \o t) \o u = s \o (t \o u)
  BY ConcatAssociative DEF Packet

LEMMA JoinedBytes ==
    ASSUME NEW n \in Nat, NEW packet \in Packet,
           \A i \in 1 .. Len(packet) : packet[i] = n + i
    PROVE  Bytes(n) \o packet = Bytes(n + Len(packet))
<1>1. n + Len(packet) \in Nat /\ Len(packet) \in Nat
  BY DEF Packet
<1>2. /\ Bytes(n) \in Packet /\ Len(Bytes(n)) = n
      /\ Bytes(n + Len(packet)) \in Packet
      /\ Len(Bytes(n + Len(packet))) = n + Len(packet)
  BY <1>1, BytesAreData
<1> DEFINE b == Bytes(n)
<1>b. b \in Packet /\ Len(b) = n /\ \A i \in 1 .. n : b[i] = i
  BY <1>2 DEF Bytes
<1> HIDE DEF b
<1>3. /\ b \o packet \in Packet /\ Len(b \o packet) = n + Len(packet)
      /\ \A i \in 1 .. n + Len(packet) :
            (b \o packet)[i] = IF i <= n THEN b[i] ELSE packet[i - n]
  BY <1>b, Joined
<1>4. ASSUME NEW i \in 1 .. n + Len(packet)
      PROVE  (b \o packet)[i] = Bytes(n + Len(packet))[i]
  <2>1. Bytes(n + Len(packet))[i] = i
    BY <1>1 DEF Bytes
  <2>2. CASE i <= n
    <3>1. b[i] = i
      BY <2>2, <1>b
    <3>2. (b \o packet)[i] = b[i]
      BY <1>3, <2>2
    <3> QED
      BY <2>1, <3>1, <3>2
  <2>3. CASE i > n
    <3>1. i - n \in 1 .. Len(packet) /\ ~(i <= n)
      BY <2>3, <1>1
    <3>2. packet[i - n] = n + (i - n)
      BY <3>1
    <3>3. n + (i - n) = i
      BY <1>1
    <3>4. (b \o packet)[i] = packet[i - n]
      BY <1>3, <3>1
    <3> QED
      BY <2>1, <3>2, <3>3, <3>4
  <2>4. i <= n \/ i > n
    BY <1>1, <1>4
  <2> QED
    BY <2>2, <2>3, <2>4
<1>5. b \o packet = Bytes(n + Len(packet))
  BY <1>2, <1>3, <1>4, SeqEqual DEF Packet
<1> QED
  BY <1>5 DEF b

(* What the host sends next continues what it has sent.                      *)
LEMMA NextBytes ==
    ASSUME NEW n \in Nat, NEW m \in Nat, n <= m
    PROVE  LET packet == [ i \in 1 .. m - n |-> n + i ] IN
           /\ packet \in Packet /\ Len(packet) = m - n
           /\ Bytes(n) \o packet = Bytes(m)
<1> DEFINE packet == [ i \in 1 .. m - n |-> n + i ]
<1>1. packet \in Packet /\ Len(packet) = m - n
  BY DEF Packet, Byte
<1>2. \A i \in 1 .. Len(packet) : packet[i] = n + i
  BY <1>1
<1>3. n + Len(packet) = m
  BY <1>1
<1> HIDE DEF packet
<1>4. Bytes(n) \o packet = Bytes(m)
  BY <1>1, <1>2, <1>3, JoinedBytes
<1> QED
  BY <1>1, <1>4 DEF packet

LEMMA CutPacket ==
    ASSUME NEW s \in Packet, MaxPacket < Len(s)
    PROVE  LET first == SubSeq(s, 1, MaxPacket)
               rest  == SubSeq(s, MaxPacket + 1, Len(s))
           IN  /\ first \in Packet /\ Len(first) = MaxPacket
               /\ rest \in Packet /\ Len(rest) = Len(s) - MaxPacket
               /\ first \o rest = s
<1>1. MaxPacket \in Nat \ {0}
  BY ControlAssumption
<1>2. s \in Seq(Byte) /\ Len(s) \in Nat
  BY DEF Packet
<1>3. /\ SubSeq(s, 1, MaxPacket) \in Seq(Byte) /\ Len(SubSeq(s, 1, MaxPacket)) = MaxPacket
  BY <1>1, <1>2
<1>4. /\ SubSeq(s, MaxPacket + 1, Len(s)) \in Seq(Byte)
      /\ Len(SubSeq(s, MaxPacket + 1, Len(s))) = Len(s) - MaxPacket
  BY <1>1, <1>2
<1>5. SubSeq(s, 1, MaxPacket) \o SubSeq(s, MaxPacket + 1, Len(s)) = SubSeq(s, 1, Len(s))
  <2>1. 1 \in 1 .. Len(s) + 1 /\ MaxPacket \in 1 - 1 .. Len(s) /\ Len(s) \in MaxPacket .. Len(s)
    BY <1>1, <1>2
  <2> QED
    BY <1>2, <2>1, ConcatAdjacentSubSeq
<1>6. SubSeq(s, 1, Len(s)) = s
  BY <1>2, SubSeqFull
<1> QED
  BY <1>3, <1>4, <1>5, <1>6 DEF Packet

(* A length that is a multiple of the packet stays one, and if it is one     *)
(* packet at the most it is one packet.                                      *)
LEMMA Quotient ==
    ASSUME NEW n \in Int, NEW m \in Int, m > 0
    PROVE  n \div m \in Int /\ n = m * (n \div m) + (n % m)
  BY SMT

LEMMA ProductIsMultiple ==
    ASSUME NEW m \in Nat \ {0}, NEW q \in Nat, NEW r \in 0 .. m - 1
    PROVE  (m * q + r) % m = r
  BY SMT

LEMMA Multiples ==
    ASSUME NEW n \in Nat \ {0}, n % MaxPacket = 0
    PROVE  /\ n > MaxPacket => (n - MaxPacket) % MaxPacket = 0
           /\ n <= MaxPacket => n = MaxPacket
<1> DEFINE q == n \div MaxPacket
<1>1. MaxPacket \in Nat \ {0}
  BY ControlAssumption
<1>2. q \in Int /\ n = MaxPacket * q
  BY <1>1, Quotient
<1> HIDE DEF q
<1>3. q >= 1
  BY <1>1, <1>2
<1>4. n > MaxPacket => (n - MaxPacket) % MaxPacket = 0
  <2>1. n - MaxPacket = MaxPacket * (q - 1) + 0
    BY <1>1, <1>2
  <2>2. q - 1 \in Nat /\ 0 \in 0 .. MaxPacket - 1
    BY <1>1, <1>2, <1>3
  <2>3. (MaxPacket * (q - 1) + 0) % MaxPacket = 0
    BY <1>1, <2>2, ProductIsMultiple
  <2> QED
    BY <2>1, <2>3
<1>5. n <= MaxPacket => n = MaxPacket
  BY <1>1, <1>2, <1>3
<1> QED
  BY <1>4, <1>5

-----------------------------------------------------------------------------
(* What the callbacks do to the endpoint and the control state *)

Device == [ ep : Endpoint, ctl : Control ]

LEMMA StallEffect ==
    ASSUME NEW d \in Device
    PROVE  LET r == stall_transaction(d) IN
           /\ r \in Device /\ SameFlags(d.ep, r.ep) /\ SameBufs(d.ep, r.ep)
           /\ r.ep.tx = "STALL" /\ r.ep.rx = "STALL"
           /\ r.ctl.state = "IDLE" /\ r.ctl.req = d.ctl.req /\ r.ctl.buf = d.ctl.buf
           /\ r.ctl.complete = d.ctl.complete
<1> DEFINE f == ep_stall_set(d.ep)
           c == [ d.ctl EXCEPT !.state = "IDLE" ]
<1>1. d.ep \in Endpoint /\ d.ctl \in Control
  BY DEF Device
<1>2. /\ f \in Endpoint /\ SameFlags(d.ep, f) /\ SameBufs(d.ep, f)
      /\ f.tx = "STALL" /\ f.rx = "STALL"
  BY <1>1, StallSet
<1>3. /\ c \in Control /\ c.state = "IDLE" /\ c.req = d.ctl.req /\ c.buf = d.ctl.buf
      /\ c.complete = d.ctl.complete
  BY <1>1 DEF Control, States
<1>4. stall_transaction(d) = [ ep |-> f, ctl |-> c ]
  <2>1. [ d EXCEPT !.ep = f ] = [ ep |-> f, ctl |-> d.ctl ]
    BY DEF Device
  <2>2. stall_transaction(d) = [ [ ep |-> f, ctl |-> d.ctl ] EXCEPT !.ctl.state = "IDLE" ]
    BY <2>1 DEF stall_transaction
  <2> QED
    BY <2>2
<1> HIDE DEF f, c
<1> QED
  BY <1>2, <1>3, <1>4 DEF Device

ZlpDue(c) == c.needs_zlp => c.buf # <<>> /\ Len(c.buf) % MaxPacket = 0

(* A chunk is a packet at the most, and what is left follows it.  Only a     *)
(* full one has another behind it.                                           *)
LEMMA SendEffect ==
    ASSUME NEW d \in Device
    PROVE  LET r == send_chunk(d) IN
           /\ r \in Device /\ r.ctl.req = d.ctl.req /\ r.ctl.complete = d.ctl.complete
           /\ r.ctl.state \in {"DATA_IN", "LAST_DATA_IN"}
           /\ \E packet \in Packet :
                 /\ r.ep = ep_write_packet(d.ep, packet) /\ Len(packet) <= MaxPacket
                 /\ packet \o r.ctl.buf = d.ctl.buf
                 /\ ZlpDue(d.ctl) /\ r.ctl.state = "DATA_IN" => Len(packet) = MaxPacket
           /\ r.ctl.state = "LAST_DATA_IN" => r.ctl.buf = <<>>
           /\ ZlpDue(d.ctl) => ZlpDue(r.ctl)
<1>1. d.ep \in Endpoint /\ d.ctl \in Control
  BY DEF Device
<1>2. d.ctl.buf \in Packet /\ Len(d.ctl.buf) \in Nat /\ d.ctl.needs_zlp \in BOOLEAN
  BY <1>1 DEF Control, Packet
<1>m. MaxPacket \in Nat \ {0}
  BY ControlAssumption
<1>3. CASE MaxPacket < Len(d.ctl.buf)
  <2> DEFINE packet == SubSeq(d.ctl.buf, 1, MaxPacket)
             rest   == SubSeq(d.ctl.buf, MaxPacket + 1, Len(d.ctl.buf))
             f == ep_write_packet(d.ep, packet)
             c == [ d.ctl EXCEPT !.state = "DATA_IN", !.buf = rest ]
  <2>1. /\ packet \in Packet /\ Len(packet) = MaxPacket
        /\ rest \in Packet /\ Len(rest) = Len(d.ctl.buf) - MaxPacket
        /\ packet \o rest = d.ctl.buf
    BY <1>2, <1>3, CutPacket
  <2> HIDE DEF packet, rest
  <2>2. f \in Endpoint
    BY <1>1, <2>1, WritePacket
  <2>3. /\ c \in Control /\ c.state = "DATA_IN" /\ c.buf = rest /\ c.req = d.ctl.req
        /\ c.complete = d.ctl.complete /\ (c.needs_zlp <=> d.ctl.needs_zlp)
    BY <1>1, <2>1 DEF Control, States
  <2>4. send_chunk(d) = [ ep |-> f, ctl |-> c ]
    BY <1>3 DEF send_chunk, Device, packet, rest
  <2>5. ZlpDue(d.ctl) => ZlpDue(c)
    <3> SUFFICES ASSUME ZlpDue(d.ctl), c.needs_zlp
                 PROVE  c.buf # <<>> /\ Len(c.buf) % MaxPacket = 0
      BY DEF ZlpDue
    <3>1. Len(d.ctl.buf) % MaxPacket = 0 /\ Len(d.ctl.buf) \in Nat \ {0}
      BY <2>3, <1>2, <1>3, <1>m DEF ZlpDue
    <3>2. (Len(d.ctl.buf) - MaxPacket) % MaxPacket = 0
      BY <3>1, <1>3, Multiples
    <3>3. Len(rest) % MaxPacket = 0 /\ Len(rest) # 0
      BY <3>1, <3>2, <2>1, <1>3, <1>m
    <3> QED
      BY <3>3, <2>3
  <2> DEFINE r == send_chunk(d)
  <2>6. r.ep = f /\ r.ctl = c /\ r \in Device
    BY <2>2, <2>3, <2>4 DEF Device
  <2>7. /\ r.ep = ep_write_packet(d.ep, packet) /\ packet \in Packet
        /\ Len(packet) <= MaxPacket /\ Len(packet) = MaxPacket
        /\ packet \o r.ctl.buf = d.ctl.buf
    BY <2>1, <2>3, <2>6, <1>m
  <2> HIDE DEF f, c, r
  <2>8. ZlpDue(d.ctl) => ZlpDue(r.ctl)
    BY <2>5, <2>6
  <2>9. /\ r.ctl.req = d.ctl.req /\ r.ctl.complete = d.ctl.complete
        /\ r.ctl.state = "DATA_IN"
    BY <2>3, <2>6
  <2> QED
    BY <2>6, <2>7, <2>8, <2>9 DEF r
<1>4. CASE ~(MaxPacket < Len(d.ctl.buf))
  <2> DEFINE packet == d.ctl.buf
             f == ep_write_packet(d.ep, packet)
             st == IF d.ctl.needs_zlp THEN "DATA_IN" ELSE "LAST_DATA_IN"
             c == [ d.ctl EXCEPT !.state = st, !.needs_zlp = FALSE, !.buf = <<>> ]
  <2>1. f \in Endpoint
    BY <1>1, <1>2, WritePacket
  <2>a. st \in States /\ <<>> \in Packet
    BY DEF States, Packet
  <2>b. st = "DATA_IN" \/ st = "LAST_DATA_IN"
    OBVIOUS
  <2>c. st = "DATA_IN" => d.ctl.needs_zlp
    OBVIOUS
  <2>3. send_chunk(d) = [ ep |-> f, ctl |-> c ]
    BY <1>4 DEF send_chunk, Device
  <2> HIDE DEF st
  <2>2. /\ c \in Control /\ c.buf = <<>> /\ c.req = d.ctl.req
        /\ c.complete = d.ctl.complete /\ c.state = st
    BY <1>1, <2>a DEF Control
  <2>d. ~c.needs_zlp
    BY <1>1 DEF Control
  <2>4. packet \o <<>> = packet /\ Len(packet) <= MaxPacket
    BY <1>2, <1>4, <1>m, ConcatEmptySeq DEF Packet
  <2>5. ZlpDue(d.ctl) /\ d.ctl.needs_zlp => Len(packet) = MaxPacket
    <3> SUFFICES ASSUME ZlpDue(d.ctl), d.ctl.needs_zlp PROVE Len(packet) = MaxPacket
      OBVIOUS
    <3>1. Len(packet) \in Nat \ {0} /\ Len(packet) % MaxPacket = 0
      BY <1>2 DEF ZlpDue, Packet
    <3> QED
      BY <3>1, <2>4, Multiples
  <2>6. ZlpDue(c)
    BY <2>d DEF ZlpDue
  <2> DEFINE r == send_chunk(d)
  <2>7. r.ep = f /\ r.ctl = c /\ r \in Device
    BY <2>1, <2>2, <2>3 DEF Device
  <2>8. /\ r.ep = ep_write_packet(d.ep, packet) /\ packet \in Packet
        /\ packet \o r.ctl.buf = d.ctl.buf
    BY <1>2, <2>2, <2>4, <2>7
  <2> HIDE DEF f, c, r
  <2>9. ZlpDue(r.ctl)
    BY <2>6, <2>7
  <2>10. /\ r.ctl.req = d.ctl.req /\ r.ctl.complete = d.ctl.complete
         /\ r.ctl.state \in {"DATA_IN", "LAST_DATA_IN"} /\ r.ctl.buf = <<>>
         /\ r.ctl.state = "DATA_IN" => d.ctl.needs_zlp
    BY <2>2, <2>b, <2>c, <2>7
  <2>11. ZlpDue(d.ctl) /\ r.ctl.state = "DATA_IN" => Len(packet) = MaxPacket
    BY <2>5, <2>10
  <2> HIDE DEF packet
  <2> QED
    BY <2>4, <2>7, <2>8, <2>9, <2>10, <2>11 DEF r
<1> QED
  BY <1>3, <1>4

LEMMA DispatchEffect ==
    ASSUME NEW d \in Device, d.ctl.req \in Requests
    PROVE  LET r == dispatch(d) IN
           /\ r \in Device /\ r.ep = d.ep
           /\ r.ctl.state = d.ctl.state /\ r.ctl.req = d.ctl.req /\ r.ctl.buf = d.ctl.buf
           /\ r.ctl.complete \in {d.ctl.complete, d.ctl.req}
<1>1. d.ep \in Endpoint /\ d.ctl \in Control
  BY DEF Device
<1> DEFINE x == IF d.ctl.req.complete THEN d.ctl.req ELSE d.ctl.complete
           c == [ d.ctl EXCEPT !.complete = x ]
<1>2. x \in {d.ctl.complete, d.ctl.req} /\ x \in Requests \union {None}
  BY <1>1 DEF Control
<1>3. dispatch(d) = [ ep |-> d.ep, ctl |-> c ]
  BY DEF dispatch, Device
<1> HIDE DEF x
<1>4. /\ c \in Control /\ c.state = d.ctl.state /\ c.req = d.ctl.req /\ c.buf = d.ctl.buf
      /\ c.complete = x
  BY <1>1, <1>2 DEF Control
<1> HIDE DEF c
<1> QED
  BY <1>1, <1>2, <1>3, <1>4 DEF Device

LEMMA StatusInEffect ==
    ASSUME NEW d \in Device
    PROVE  LET r == status_in(d) IN
           /\ r \in Device /\ r.ep = ep_write_packet(d.ep, <<>>)
           /\ r.ctl.state = "STATUS_IN" /\ r.ctl.req = d.ctl.req /\ r.ctl.buf = d.ctl.buf
           /\ r.ctl.complete = d.ctl.complete
<1>1. d.ep \in Endpoint /\ d.ctl \in Control
  BY DEF Device
<1> DEFINE f == ep_write_packet(d.ep, <<>>)
           c == [ d.ctl EXCEPT !.state = "STATUS_IN" ]
<1>2. <<>> \in Packet
  BY DEF Packet
<1>3. f \in Endpoint
  BY <1>1, <1>2, WritePacket
<1>4. /\ c \in Control /\ c.state = "STATUS_IN" /\ c.req = d.ctl.req /\ c.buf = d.ctl.buf
      /\ c.complete = d.ctl.complete
  BY <1>1 DEF Control, States
<1> HIDE DEF f
<1>5. [ d EXCEPT !.ep = f ] = [ ep |-> f, ctl |-> d.ctl ]
  BY DEF Device
<1>6. status_in(d) = [ [ ep |-> f, ctl |-> d.ctl ] EXCEPT !.ctl.state = "STATUS_IN" ]
  BY <1>5 DEF status_in, f
<1>7. status_in(d) = [ ep |-> f, ctl |-> c ]
  BY <1>6
<1> HIDE DEF c
<1> QED
  BY <1>3, <1>4, <1>7 DEF Device, f

(* The reply of a read begins: the packet in the endpoint and what is left   *)
(* of it.                                                                    *)
Answers(q, r) ==
    /\ r.ctl.state \in {"DATA_IN", "LAST_DATA_IN"}
    /\ r.ep.tx_buf \o r.ctl.buf = Bytes(q.reply)
    /\ r.ctl.state = "DATA_IN" => Len(r.ep.tx_buf) = MaxPacket
    /\ r.ctl.state = "LAST_DATA_IN" => r.ctl.buf = <<>>
    /\ ZlpDue(r.ctl)

Replies(e, r) ==
    /\ r.ep.tx = "VALID" /\ r.ep.rx = e.rx /\ r.ep.rx_buf = e.rx_buf /\ SameFlags(e, r.ep)
    /\ Len(r.ep.tx_buf) <= MaxPacket
    /\ Answers(r.ctl.req, r)

LEMMA ReplyEffect ==
    ASSUME NEW d \in Device, NEW q \in Requests, d.ctl.req = q, d.ep.tx # "VALID",
           d.ctl.buf = Bytes(q.reply), ZlpDue(d.ctl)
    PROVE  LET r == send_chunk(d) IN
           /\ r \in Device /\ Replies(d.ep, r)
           /\ r.ctl.req = q /\ r.ctl.complete = d.ctl.complete
<1> DEFINE r == send_chunk(d)
<1>1. /\ r \in Device /\ r.ctl.req = q /\ r.ctl.complete = d.ctl.complete
      /\ r.ctl.state \in {"DATA_IN", "LAST_DATA_IN"}
      /\ r.ctl.state = "LAST_DATA_IN" => r.ctl.buf = <<>>
      /\ ZlpDue(r.ctl)
  BY SendEffect
<1>2. PICK packet \in Packet :
        /\ r.ep = ep_write_packet(d.ep, packet) /\ Len(packet) <= MaxPacket
        /\ packet \o r.ctl.buf = d.ctl.buf
        /\ r.ctl.state = "DATA_IN" => Len(packet) = MaxPacket
  BY SendEffect
<1>3. d.ep \in Endpoint
  BY DEF Device
<1> HIDE DEF r
<1>4. /\ SameFlags(d.ep, r.ep) /\ r.ep.tx = "VALID" /\ r.ep.tx_buf = packet
      /\ r.ep.rx = d.ep.rx /\ r.ep.rx_buf = d.ep.rx_buf
  BY <1>2, <1>3, WritePacket
<1> QED
  BY <1>1, <1>2, <1>4 DEF Replies, Answers, r

(* What becomes of a SETUP: refused, data awaited, acknowledged or answered  *)
RefusedAtOnce(q) == IF Written(q) THEN q.wLength > BufLen ELSE ~q.handled

SetupDone(e, q, r) ==
    /\ r \in Device /\ r.ctl.req = q /\ r.ctl.complete \in {None, q}
    /\ SameFlags(e, r.ep) /\ r.ep.rx_buf = e.rx_buf /\ Len(r.ep.tx_buf) <= MaxPacket
    /\ \/ /\ RefusedAtOnce(q)
          /\ r.ctl.state = "IDLE" /\ r.ep.tx = "STALL" /\ r.ep.rx = "STALL"
       \/ /\ Written(q) /\ q.wLength <= BufLen
          /\ r.ctl.state = IF q.wLength > MaxPacket THEN "DATA_OUT" ELSE "LAST_DATA_OUT"
          /\ r.ctl.buf = <<>> /\ r.ep.tx = e.tx /\ r.ep.rx = "VALID"
       \/ /\ ~Written(q) /\ ~Read(q) /\ q.handled
          /\ r.ctl.state = "STATUS_IN" /\ r.ep.tx = "VALID" /\ r.ep.rx = "NAK"
       \/ /\ Read(q) /\ q.handled
          /\ Answers(q, r) /\ r.ep.tx = "VALID" /\ r.ep.rx = "NAK"

LEMMA RequestTypes ==
    ASSUME NEW q \in Requests
    PROVE  /\ q.wLength \in Nat /\ q.reply \in Nat /\ q.reply <= q.wLength
           /\ q.set_address => q.wLength = 0 /\ q.handled
           /\ q # None
  BY ControlAssumption

LEMMA SetupReadEffect ==
    ASSUME NEW d \in Device, NEW q \in Requests, d.ctl.req = q, d.ctl.complete = None,
           ~Written(q), d.ep.tx # "VALID", d.ep.rx = "NAK", Len(d.ep.tx_buf) <= MaxPacket
    PROVE  SetupDone(d.ep, q, setup_read(d))
<1> DEFINE r == dispatch(d)
<1>1. /\ r \in Device /\ r.ep = d.ep /\ r.ctl.req = q /\ r.ctl.complete \in {None, q}
  BY DispatchEffect
<1>2. d.ep \in Endpoint /\ r.ep \in Endpoint /\ r.ctl \in Control
  BY <1>1 DEF Device
<1>3. /\ q.wLength \in Nat /\ q.reply \in Nat /\ q.reply <= q.wLength
  BY RequestTypes
<1>m. MaxPacket \in Nat \ {0}
  BY ControlAssumption
<1> HIDE DEF r
<1>4. CASE ~q.handled
  <2>1. setup_read(d) = stall_transaction(r)
    BY <1>4 DEF setup_read, r
  <2>2. /\ stall_transaction(r) \in Device
        /\ SameFlags(r.ep, stall_transaction(r).ep) /\ SameBufs(r.ep, stall_transaction(r).ep)
        /\ stall_transaction(r).ep.tx = "STALL" /\ stall_transaction(r).ep.rx = "STALL"
        /\ stall_transaction(r).ctl.state = "IDLE" /\ stall_transaction(r).ctl.req = r.ctl.req
        /\ stall_transaction(r).ctl.complete = r.ctl.complete
    BY <1>1, StallEffect
  <2> QED
    BY <1>1, <1>4, <2>1, <2>2 DEF SetupDone, RefusedAtOnce, SameBufs
<1>5. CASE q.handled /\ q.wLength = 0
  <2> DEFINE u == status_in(r)
  <2>1. setup_read(d) = u
    BY <1>5 DEF setup_read, r
  <2>2. /\ u \in Device /\ u.ep = ep_write_packet(r.ep, <<>>)
        /\ u.ctl.state = "STATUS_IN" /\ u.ctl.req = r.ctl.req
        /\ u.ctl.complete = r.ctl.complete
    BY <1>1, StatusInEffect
  <2>3. <<>> \in Packet /\ Len(<<>>) = 0
    BY DEF Packet
  <2> HIDE DEF u
  <2>4. /\ SameFlags(r.ep, u.ep) /\ u.ep.tx = "VALID" /\ u.ep.tx_buf = <<>>
        /\ u.ep.rx = r.ep.rx /\ u.ep.rx_buf = r.ep.rx_buf
    BY <1>1, <1>2, <2>2, <2>3, WritePacket
  <2>5. ~Read(q)
    BY <1>5 DEF Read
  <2> QED
    BY <1>1, <1>5, <1>m, <2>1, <2>2, <2>3, <2>4, <2>5 DEF SetupDone
<1>6. CASE q.handled /\ q.wLength # 0
  <2> DEFINE z == needs_zlp(q.reply, q.wLength)
             s == [ r EXCEPT !.ctl.buf = Bytes(q.reply), !.ctl.needs_zlp = z ]
             c == [ r.ctl EXCEPT !.buf = Bytes(q.reply), !.needs_zlp = z ]
             u == send_chunk(s)
  <2>1. setup_read(d) = u
    BY <1>6 DEF setup_read, r
  <2>2. z \in BOOLEAN /\ (z <=> needs_zlp(q.reply, q.wLength))
    BY DEF needs_zlp
  <2>3. Bytes(q.reply) \in Packet /\ Len(Bytes(q.reply)) = q.reply
    BY <1>3, BytesAreData
  <2> HIDE DEF z
  <2>4. /\ c \in Control /\ c.buf = Bytes(q.reply) /\ (c.needs_zlp <=> z)
        /\ c.req = r.ctl.req /\ c.complete = r.ctl.complete
    BY <1>2, <2>2, <2>3 DEF Control
  <2>5. s = [ ep |-> r.ep, ctl |-> c ]
    <3> DEFINE s1 == [ r EXCEPT !.ctl.buf = Bytes(q.reply) ]
               c1 == [ r.ctl EXCEPT !.buf = Bytes(q.reply) ]
    <3>1. s1 = [ ep |-> r.ep, ctl |-> c1 ]
      BY <1>1 DEF Device
    <3>2. s = [ s1 EXCEPT !.ctl.needs_zlp = z ]
      OBVIOUS
    <3>3. c = [ c1 EXCEPT !.needs_zlp = z ]
      OBVIOUS
    <3> HIDE DEF s1, c1, s, c
    <3> QED
      BY <3>1, <3>2, <3>3
  <2>6. ZlpDue(c)
    <3>1. z => q.reply # 0 /\ q.reply % MaxPacket = 0
      BY <2>2 DEF needs_zlp
    <3> QED
      BY <2>3, <2>4, <3>1 DEF ZlpDue
  <2> HIDE DEF c
  <2>7. s \in Device /\ s.ep = d.ep /\ s.ctl = c
    BY <1>1, <1>2, <2>4, <2>5 DEF Device
  <2> HIDE DEF s
  <2>8. /\ u \in Device /\ Replies(s.ep, u) /\ u.ctl.req = q
        /\ u.ctl.complete = s.ctl.complete
    BY <1>1, <2>4, <2>6, <2>7, ReplyEffect
  <2> HIDE DEF u
  <2>9. Read(q)
    BY <1>3, <1>6 DEF Written, Read
  <2>10. /\ u.ep.rx = "NAK" /\ SameFlags(d.ep, u.ep) /\ u.ep.rx_buf = d.ep.rx_buf
         /\ Len(u.ep.tx_buf) <= MaxPacket
    BY <2>7, <2>8 DEF Replies
  <2>11. Answers(q, u) /\ u.ep.tx = "VALID"
    BY <2>8 DEF Replies
  <2>12. u.ctl.complete \in {None, q}
    BY <1>1, <2>4, <2>7, <2>8
  <2>13. SetupDone(d.ep, q, u)
    BY <1>6, <2>8, <2>9, <2>10, <2>11, <2>12 DEF SetupDone
  <2> QED
    BY <2>1, <2>13
<1> QED
  BY <1>4, <1>5, <1>6

LEMMA SetupWriteEffect ==
    ASSUME NEW d \in Device, NEW q \in Requests, d.ctl.req = q, d.ctl.complete = None,
           Written(q), Len(d.ep.tx_buf) <= MaxPacket
    PROVE  SetupDone(d.ep, q, setup_write(d))
<1>2. d.ep \in Endpoint /\ d.ctl \in Control
  BY DEF Device
<1>3. q.wLength \in Nat /\ BufLen \in Nat /\ MaxPacket \in Nat
  BY RequestTypes, ControlAssumption
<1>4. CASE q.wLength > BufLen
  <2> DEFINE u == stall_transaction(d)
  <2>1. setup_write(d) = u
    BY <1>4 DEF setup_write
  <2>2. /\ u \in Device /\ SameFlags(d.ep, u.ep) /\ SameBufs(d.ep, u.ep)
        /\ u.ep.tx = "STALL" /\ u.ep.rx = "STALL"
        /\ u.ctl.state = "IDLE" /\ u.ctl.req = d.ctl.req
        /\ u.ctl.complete = d.ctl.complete
    BY StallEffect
  <2> HIDE DEF u
  <2> QED
    BY <1>4, <2>1, <2>2 DEF SetupDone, RefusedAtOnce, SameBufs
<1>5. CASE ~(q.wLength > BufLen)
  <2> DEFINE st == IF q.wLength > MaxPacket THEN "DATA_OUT" ELSE "LAST_DATA_OUT"
             c == [ d.ctl EXCEPT !.buf = <<>>, !.state = st ]
             f == ep_nak_set(d.ep, FALSE)
             u == setup_write(d)
  <2>1. st \in States /\ <<>> \in Packet
    BY DEF States, Packet
  <2>2. u = [ ep |-> f, ctl |-> c ]
    BY <1>5 DEF setup_write, Device
  <2>3. /\ f \in Endpoint /\ SameFlags(d.ep, f) /\ SameBufs(d.ep, f)
        /\ f.tx = d.ep.tx /\ f.rx = "VALID"
    BY <1>2, NakSet
  <2>s. st = IF q.wLength > MaxPacket THEN "DATA_OUT" ELSE "LAST_DATA_OUT"
    OBVIOUS
  <2> HIDE DEF f, st
  <2>4. /\ c \in Control /\ c.state = st /\ c.buf = <<>> /\ c.req = q /\ c.complete = None
    BY <1>2, <2>1 DEF Control
  <2> HIDE DEF c
  <2>5. u \in Device /\ u.ep = f /\ u.ctl = c
    BY <2>2, <2>3, <2>4 DEF Device
  <2> HIDE DEF u
  <2> QED
    BY <1>3, <1>5, <2>s, <2>3, <2>4, <2>5 DEF SetupDone, SameBufs, u
<1> QED
  BY <1>4, <1>5

LEMMA SetupEffect ==
    ASSUME NEW d \in Device, NEW q \in Requests, d.ctl.req = q,
           d.ep.tx # "VALID", Len(d.ep.tx_buf) <= MaxPacket
    PROVE  SetupDone(d.ep, q, control_setup(d))
<1> DEFINE f == ep_nak_set(d.ep, TRUE)
           c == [ d.ctl EXCEPT !.complete = None ]
           p == [ d EXCEPT !.ctl.complete = None, !.ep = ep_nak_set(@, TRUE) ]
<1>1. d.ep \in Endpoint /\ d.ctl \in Control
  BY DEF Device
<1>2. /\ f \in Endpoint /\ SameFlags(d.ep, f) /\ SameBufs(d.ep, f)
      /\ f.tx = d.ep.tx /\ f.rx = "NAK"
  BY <1>1, NakSet
<1>3. p = [ ep |-> f, ctl |-> c ]
  <2> DEFINE p1 == [ d EXCEPT !.ctl.complete = None ]
  <2>1. p1 = [ ep |-> d.ep, ctl |-> c ]
    BY DEF Device
  <2>2. p = [ p1 EXCEPT !.ep = ep_nak_set(@, TRUE) ]
    OBVIOUS
  <2> HIDE DEF p1, p, c
  <2> QED
    BY <2>1, <2>2
<1>4. c \in Control /\ c.req = q /\ c.complete = None
  BY <1>1 DEF Control
<1>5. control_setup(d) = IF q.in \/ q.wLength = 0 THEN setup_read(p) ELSE setup_write(p)
  BY DEF control_setup
<1> HIDE DEF f, c
<1>6. p \in Device /\ p.ep = f /\ p.ctl = c
  BY <1>2, <1>3, <1>4 DEF Device
<1> HIDE DEF p
<1>7. Len(p.ep.tx_buf) <= MaxPacket /\ p.ep.tx # "VALID" /\ p.ep.rx = "NAK"
  BY <1>2, <1>6 DEF SameBufs
<1>8. q.wLength \in Nat
  BY RequestTypes
<1>9. SetupDone(p.ep, q, control_setup(d))
  <2>1. CASE q.in \/ q.wLength = 0
    <3>1. ~Written(q)
      BY <2>1 DEF Written
    <3> QED
      BY <1>4, <1>5, <1>6, <1>7, <2>1, <3>1, SetupReadEffect
  <2>2. CASE ~(q.in \/ q.wLength = 0)
    <3>1. Written(q)
      BY <1>8, <2>2 DEF Written
    <3> QED
      BY <1>4, <1>5, <1>6, <1>7, <2>2, <3>1, SetupWriteEffect
  <2> QED
    BY <2>1, <2>2
<1> QED
  BY <1>2, <1>6, <1>9 DEF SetupDone, SameFlags, SameBufs

-----------------------------------------------------------------------------
(* What a packet of a write or of a status stage leads to *)

Data(d) == read_packet_data(d.ep, ChunkSize(d))

LEMMA DataIsPacket ==
    ASSUME NEW d \in Device, d.ctl.req \in Requests, d.ep.rx_buf \in Packet
    PROVE  /\ ChunkSize(d) \in Int /\ Data(d) \in Packet
           /\ d.ep.rx # "VALID" =>
                Data(d) = SubSeq(d.ep.rx_buf, 1, Least(ChunkSize(d), Len(d.ep.rx_buf)))
<1>1. d.ctl.buf \in Packet
  BY DEF Device, Control
<1>2. d.ctl.req.wLength \in Nat /\ MaxPacket \in Nat
  BY RequestTypes, ControlAssumption
<1>3. ChunkSize(d) \in Int
  BY <1>1, <1>2 DEF ChunkSize, Least, Packet
<1> DEFINE n == Least(ChunkSize(d), Len(d.ep.rx_buf))
<1>4. n \in Int /\ n <= Len(d.ep.rx_buf)
  BY <1>3 DEF Least, Packet
<1>5. d.ep.rx # "VALID" => Data(d) = SubSeq(d.ep.rx_buf, 1, n)
  BY DEF Data, read_packet_data, Least
<1> HIDE DEF n
<1>6. \A i \in 1 .. n : d.ep.rx_buf[i] \in Byte
  BY <1>4 DEF Packet
<1>7. SubSeq(d.ep.rx_buf, 1, n) \in Packet
  BY <1>4, <1>6, SubSeqProperties DEF Packet
<1>8. <<>> \in Packet
  BY DEF Packet
<1>9. d.ep.rx = "VALID" => Data(d) = <<>>
  BY DEF Data, read_packet_data
<1>10. Data(d) \in Packet
  BY <1>5, <1>7, <1>8, <1>9
<1> QED
  BY <1>3, <1>5, <1>10 DEF n

ReadEp(d) == [ d EXCEPT !.ep = ep_read_packet(@) ]

LEMMA ReadEpEffect ==
    ASSUME NEW d \in Device
    PROVE  ReadEp(d) \in Device /\ ReadEp(d).ep = ep_read_packet(d.ep) /\ ReadEp(d).ctl = d.ctl
<1>1. ep_read_packet(d.ep) \in Endpoint
  BY ReadPacket DEF Device
<1> QED
  BY <1>1 DEF ReadEp, Device

(* The packet is acknowledged, if it can be. *)
Reads(d, r) == d.ep.rx # "VALID" => ~r.ep.ctr_rx

(* The device is stalled, having read the packet or not. *)
Stalls(d, r) ==
    /\ r.ctl.state = "IDLE" /\ r.ep.tx = "STALL" /\ r.ep.rx = "STALL"
    /\ SameBufs(d.ep, r.ep) /\ (r.ep.ctr_tx <=> d.ep.ctr_tx) /\ (r.ep.setup <=> d.ep.setup)
    /\ r.ep.ctr_rx => d.ep.ctr_rx

LEMMA RecvEffect ==
    ASSUME NEW d \in Device, d.ctl.req \in Requests, d.ep.rx_buf \in Packet
    PROVE  LET r == recv_chunk(d) IN
           /\ r \in Device /\ r.ctl.req = d.ctl.req /\ r.ctl.complete = d.ctl.complete
           /\ IF Received(d)
              THEN /\ r.ep = ep_read_packet(d.ep) /\ r.ctl.state = d.ctl.state
                   /\ r.ctl.buf = d.ctl.buf \o Data(d)
              ELSE Stalls(d, r) /\ Reads(d, r)
<1> DEFINE s == ReadEp(d)
           r == recv_chunk(d)
<1>1. s \in Device /\ s.ep = ep_read_packet(d.ep) /\ s.ctl = d.ctl
  BY ReadEpEffect
<1>2. d.ep \in Endpoint /\ d.ctl \in Control
  BY DEF Device
<1>3. /\ SameBufs(d.ep, s.ep) /\ (s.ep.ctr_tx <=> d.ep.ctr_tx)
      /\ (s.ep.setup <=> d.ep.setup) /\ (s.ep.ctr_rx => d.ep.ctr_rx) /\ Reads(d, s)
  BY <1>1, <1>2, ReadPacket DEF Reads
<1>4. CASE Received(d)
  <2> DEFINE c == [ d.ctl EXCEPT !.buf = @ \o Data(d) ]
  <2>1. d.ctl.buf \o Data(d) \in Packet
    BY <1>2, DataIsPacket, Joined DEF Control
  <2>2. /\ c \in Control /\ c.buf = d.ctl.buf \o Data(d) /\ c.state = d.ctl.state
        /\ c.req = d.ctl.req /\ c.complete = d.ctl.complete
    BY <1>2, <2>1 DEF Control
  <2>3. r = [ s EXCEPT !.ctl.buf = @ \o Data(d) ]
    BY <1>4 DEF recv_chunk, ReadEp, Data
  <2> HIDE DEF s, r
  <2>4. r = [ ep |-> s.ep, ctl |-> c ]
    BY <1>1, <2>3 DEF Device
  <2> HIDE DEF c
  <2>5. r \in Device /\ r.ep = s.ep /\ r.ctl = c
    BY <1>1, <2>2, <2>4 DEF Device
  <2> QED
    BY <1>1, <1>4, <2>2, <2>5 DEF r
<1>5. CASE ~Received(d)
  <2>1. r = stall_transaction(s)
    BY <1>5 DEF recv_chunk, ReadEp
  <2> HIDE DEF s, r
  <2>2. /\ r \in Device /\ SameFlags(s.ep, r.ep) /\ SameBufs(s.ep, r.ep)
        /\ r.ep.tx = "STALL" /\ r.ep.rx = "STALL"
        /\ r.ctl.state = "IDLE" /\ r.ctl.req = s.ctl.req /\ r.ctl.complete = s.ctl.complete
    BY <1>1, <2>1, StallEffect
  <2>3. Stalls(d, r) /\ Reads(d, r)
    BY <1>3, <2>2 DEF Stalls, Reads, SameFlags, SameBufs
  <2> QED
    BY <1>1, <1>5, <2>2, <2>3 DEF r
<1> QED
  BY <1>4, <1>5

Storing(d) == d.ctl.state \in {"DATA_OUT", "LAST_DATA_OUT"} /\ Received(d)
Left(d) == d.ctl.req.wLength - Len(d.ctl.buf)

(* The four ways out of the callback of a received packet                    *)
Stored(d, r) ==
    /\ d.ctl.state = "DATA_OUT" /\ Received(d)
    /\ r.ep = ep_read_packet(d.ep) /\ r.ctl.buf = d.ctl.buf \o Data(d)
    /\ r.ctl.state = IF Left(r) <= MaxPacket THEN "LAST_DATA_OUT" ELSE "DATA_OUT"
Handled(d, r) ==
    /\ Dispatches(d) /\ d.ctl.req.handled
    /\ r.ep = ep_write_packet(ep_read_packet(d.ep), <<>>) /\ r.ctl.state = "STATUS_IN"
Ended(d, r) ==
    /\ d.ctl.state = "STATUS_OUT"
    /\ r.ep = ep_read_packet(d.ep) /\ r.ctl.state = "IDLE"
GivenUp(d, r) ==
    /\ d.ctl.state # "STATUS_OUT" /\ (Storing(d) => Dispatches(d) /\ ~d.ctl.req.handled)
    /\ Stalls(d, r) /\ (d.ctl.state \in {"DATA_OUT", "LAST_DATA_OUT"} => Reads(d, r))

OutDone(d, r) ==
    /\ r \in Device /\ r.ctl.req = d.ctl.req
    /\ r.ctl.complete \in {None, d.ctl.complete, d.ctl.req}
    /\ Stored(d, r) \/ Handled(d, r) \/ Ended(d, r) \/ GivenUp(d, r)

LEMMA LastChunkEffect ==
    ASSUME NEW d \in Device, d.ctl.req \in Requests, d.ep.rx_buf \in Packet,
           d.ctl.state = "LAST_DATA_OUT"
    PROVE  OutDone(d, control_out(d))
<1> DEFINE r == recv_chunk(d)
           v == dispatch(r)
           u == control_out(d)
<1>1. /\ r \in Device /\ r.ctl.req = d.ctl.req /\ r.ctl.complete = d.ctl.complete
      /\ IF Received(d) THEN r.ep = ep_read_packet(d.ep) ELSE Stalls(d, r) /\ Reads(d, r)
  BY RecvEffect
<1>2. u = IF ~Received(d) THEN r
          ELSE IF d.ctl.req.handled THEN status_in(v) ELSE stall_transaction(v)
  BY DEF control_out
<1> HIDE DEF r, u
<1>3. CASE ~Received(d)
  BY <1>1, <1>2, <1>3 DEF OutDone, GivenUp, Storing, u
<1>4. CASE Received(d)
  <2>0. Dispatches(d) /\ Storing(d)
    BY <1>4 DEF Dispatches, Storing
  <2>1. /\ v \in Device /\ v.ep = r.ep /\ v.ctl.req = d.ctl.req
        /\ v.ctl.complete \in {r.ctl.complete, d.ctl.req}
    BY <1>1, DispatchEffect
  <2> HIDE DEF v
  <2>2. CASE d.ctl.req.handled
    <3>1. u = status_in(v)
      BY <1>2, <1>4, <2>2
    <3>2. /\ u \in Device /\ u.ep = ep_write_packet(v.ep, <<>>)
          /\ u.ctl.state = "STATUS_IN" /\ u.ctl.req = v.ctl.req
          /\ u.ctl.complete = v.ctl.complete
      BY <2>1, <3>1, StatusInEffect
    <3> QED
      BY <1>1, <1>4, <2>0, <2>1, <2>2, <3>2 DEF OutDone, Handled, u
  <2>3. CASE ~d.ctl.req.handled
    <3>1. u = stall_transaction(v)
      BY <1>2, <1>4, <2>3
    <3>2. /\ u \in Device /\ SameFlags(v.ep, u.ep) /\ SameBufs(v.ep, u.ep)
          /\ u.ep.tx = "STALL" /\ u.ep.rx = "STALL"
          /\ u.ctl.state = "IDLE" /\ u.ctl.req = v.ctl.req
          /\ u.ctl.complete = v.ctl.complete
      BY <2>1, <3>1, StallEffect
    <3>3. d.ep \in Endpoint
      BY DEF Device
    <3>4. /\ SameBufs(d.ep, v.ep) /\ (v.ep.ctr_tx <=> d.ep.ctr_tx)
          /\ (v.ep.setup <=> d.ep.setup) /\ (v.ep.ctr_rx => d.ep.ctr_rx) /\ Reads(d, v)
      BY <1>1, <1>4, <2>1, <3>3, ReadPacket DEF Reads
    <3>5. Stalls(d, u) /\ Reads(d, u)
      BY <3>2, <3>4 DEF Stalls, Reads, SameFlags, SameBufs
    <3> QED
      BY <1>1, <2>0, <2>1, <2>3, <3>2, <3>5 DEF OutDone, GivenUp, u
  <2> QED
    BY <2>2, <2>3
<1> QED
  BY <1>3, <1>4

LEMMA ChunkEffect ==
    ASSUME NEW d \in Device, d.ctl.req \in Requests, d.ep.rx_buf \in Packet,
           d.ctl.state = "DATA_OUT"
    PROVE  OutDone(d, control_out(d))
<1> DEFINE r == recv_chunk(d)
           last == Received(d) /\ d.ctl.req.wLength - Len(r.ctl.buf) <= MaxPacket
           u == control_out(d)
<1>1. /\ r \in Device /\ r.ctl.req = d.ctl.req /\ r.ctl.complete = d.ctl.complete
      /\ IF Received(d)
         THEN /\ r.ep = ep_read_packet(d.ep) /\ r.ctl.state = d.ctl.state
              /\ r.ctl.buf = d.ctl.buf \o Data(d)
         ELSE Stalls(d, r) /\ Reads(d, r)
  BY RecvEffect
<1>2. u = IF last THEN [ r EXCEPT !.ctl.state = "LAST_DATA_OUT" ] ELSE r
  BY DEF control_out
<1> HIDE DEF r, u
<1>3. CASE ~last
  <2>1. CASE Received(d)
    BY <1>1, <1>2, <1>3, <2>1 DEF OutDone, Stored, Left, u
  <2>2. CASE ~Received(d)
    BY <1>1, <1>2, <1>3, <2>2 DEF OutDone, GivenUp, Storing, u
  <2> QED
    BY <2>1, <2>2
<1>4. CASE last
  <2> DEFINE c == [ r.ctl EXCEPT !.state = "LAST_DATA_OUT" ]
  <2>1. r.ep \in Endpoint /\ r.ctl \in Control
    BY <1>1 DEF Device
  <2>2. /\ c \in Control /\ c.state = "LAST_DATA_OUT" /\ c.buf = r.ctl.buf
        /\ c.req = r.ctl.req /\ c.complete = r.ctl.complete
    BY <2>1 DEF Control, States
  <2>3. u = [ ep |-> r.ep, ctl |-> c ]
    BY <1>1, <1>2, <1>4 DEF Device
  <2> HIDE DEF c
  <2>4. u \in Device /\ u.ep = r.ep /\ u.ctl = c
    BY <2>1, <2>2, <2>3 DEF Device
  <2> QED
    BY <1>1, <1>4, <2>2, <2>4 DEF OutDone, Stored, Left, u
<1> QED
  BY <1>3, <1>4

LEMMA OutEffect ==
    ASSUME NEW d \in Device, d.ctl.state # "IDLE" => d.ctl.req \in Requests
    PROVE  OutDone(d, control_out(d))
<1>p. d.ep.rx_buf \in Packet
  BY DEF Device, Endpoint
<1>1. CASE d.ctl.state = "DATA_OUT"
  BY <1>p, <1>1, ChunkEffect
<1>2. CASE d.ctl.state = "LAST_DATA_OUT"
  BY <1>p, <1>2, LastChunkEffect
<1>3. CASE d.ctl.state = "STATUS_OUT"
  <2> DEFINE f == ep_read_packet(d.ep)
             c == [ d.ctl EXCEPT !.state = "IDLE", !.complete = None ]
             u == control_out(d)
  <2>1. d.ep \in Endpoint /\ d.ctl \in Control
    BY DEF Device
  <2>2. f \in Endpoint
    BY <2>1, ReadPacket
  <2>3. c \in Control /\ c.state = "IDLE" /\ c.complete = None /\ c.req = d.ctl.req
    BY <2>1 DEF Control, States
  <2>4. u = [ ep |-> f, ctl |-> c ]
    <3> DEFINE s == ReadEp(d)
               s1 == [ s EXCEPT !.ctl.state = "IDLE" ]
    <3>1. s = [ ep |-> f, ctl |-> d.ctl ]
      BY DEF ReadEp, Device
    <3>2. u = [ s1 EXCEPT !.ctl.complete = None ]
      BY <1>3 DEF control_out, ReadEp
    <3> HIDE DEF s, f, u
    <3>3. s1 = [ ep |-> f, ctl |-> [ d.ctl EXCEPT !.state = "IDLE" ] ]
      BY <3>1
    <3> HIDE DEF s1
    <3> QED
      BY <3>2, <3>3
  <2> HIDE DEF f, c
  <2>5. u \in Device /\ u.ep = f /\ u.ctl = c
    BY <2>2, <2>3, <2>4 DEF Device
  <2> HIDE DEF u
  <2> QED
    BY <1>3, <2>3, <2>5 DEF OutDone, Ended, f, u
<1>4. CASE d.ctl.state \notin {"DATA_OUT", "LAST_DATA_OUT", "STATUS_OUT"}
  <2> DEFINE u == control_out(d)
  <2>1. u = stall_transaction(d)
    BY <1>4 DEF control_out
  <2>2. ~Storing(d)
    BY <1>4 DEF Storing
  <2> HIDE DEF u
  <2>3. /\ u \in Device /\ SameFlags(d.ep, u.ep) /\ SameBufs(d.ep, u.ep)
        /\ u.ep.tx = "STALL" /\ u.ep.rx = "STALL"
        /\ u.ctl.state = "IDLE" /\ u.ctl.req = d.ctl.req
        /\ u.ctl.complete = d.ctl.complete
    BY <2>1, StallEffect
  <2> QED
    BY <1>4, <2>2, <2>3 DEF OutDone, GivenUp, Stalls, SameFlags, u
<1> QED
  BY <1>1, <1>2, <1>3, <1>4

-----------------------------------------------------------------------------
(* What it leads to that a packet was taken *)

InDone(d, r) ==
    /\ r \in Device /\ r.ctl.req = d.ctl.req /\ r.ctl.complete = d.ctl.complete
    /\ SameFlags(d.ep, r.ep) /\ r.ep.rx_buf = d.ep.rx_buf
    /\ Len(r.ep.tx_buf) <= MaxPacket \/ r.ep.tx_buf = d.ep.tx_buf
    /\ \/ /\ d.ctl.state = "DATA_IN" /\ r.ep.tx = "VALID" /\ r.ep.rx = d.ep.rx
          /\ r.ctl.state \in {"DATA_IN", "LAST_DATA_IN"}
          /\ r.ctl.state = "LAST_DATA_IN" => r.ctl.buf = <<>>
          /\ d.ep.tx # "VALID" => /\ r.ep.tx_buf \o r.ctl.buf = d.ctl.buf
                                  /\ Len(r.ep.tx_buf) <= MaxPacket
                                  /\ ZlpDue(d.ctl) /\ r.ctl.state = "DATA_IN"
                                       => Len(r.ep.tx_buf) = MaxPacket
          /\ ZlpDue(d.ctl) => ZlpDue(r.ctl)
       \/ /\ d.ctl.state = "LAST_DATA_IN" /\ r.ctl.state = "STATUS_OUT"
          /\ r.ep.tx = d.ep.tx /\ r.ep.rx = "VALID" /\ r.ep.tx_buf = d.ep.tx_buf
       \/ d.ctl.state = "STATUS_IN" /\ r.ctl.state = "IDLE" /\ r.ep = d.ep
       \/ /\ d.ctl.state \notin {"DATA_IN", "LAST_DATA_IN", "STATUS_IN"}
          /\ r.ctl.state = "IDLE" /\ r.ep.tx = "STALL" /\ r.ep.rx = "STALL"
          /\ r.ep.tx_buf = d.ep.tx_buf

LEMMA InEffect ==
    ASSUME NEW d \in Device
    PROVE  InDone(d, control_in(d))
<1> DEFINE u == control_in(d)
<1>1. d.ep \in Endpoint /\ d.ctl \in Control
  BY DEF Device
<1>2. CASE d.ctl.state = "DATA_IN"
  <2>1. u = send_chunk(d)
    BY <1>2 DEF control_in
  <2> HIDE DEF u
  <2>2. /\ u \in Device /\ u.ctl.req = d.ctl.req /\ u.ctl.complete = d.ctl.complete
        /\ u.ctl.state \in {"DATA_IN", "LAST_DATA_IN"}
        /\ u.ctl.state = "LAST_DATA_IN" => u.ctl.buf = <<>>
        /\ ZlpDue(d.ctl) => ZlpDue(u.ctl)
    BY <2>1, SendEffect
  <2>3. PICK packet \in Packet :
          /\ u.ep = ep_write_packet(d.ep, packet) /\ Len(packet) <= MaxPacket
          /\ packet \o u.ctl.buf = d.ctl.buf
          /\ ZlpDue(d.ctl) /\ u.ctl.state = "DATA_IN" => Len(packet) = MaxPacket
    BY <2>1, SendEffect
  <2>4. /\ SameFlags(d.ep, u.ep) /\ u.ep.tx = "VALID"
        /\ u.ep.tx_buf = IF d.ep.tx = "VALID" THEN d.ep.tx_buf ELSE packet
        /\ u.ep.rx = d.ep.rx /\ u.ep.rx_buf = d.ep.rx_buf
    BY <1>1, <2>3, WritePacket
  <2> QED
    BY <1>2, <2>2, <2>3, <2>4 DEF InDone, u
<1>3. CASE d.ctl.state = "LAST_DATA_IN"
  <2> DEFINE f == ep_nak_set(d.ep, FALSE)
             c == [ d.ctl EXCEPT !.state = "STATUS_OUT" ]
  <2>1. /\ f \in Endpoint /\ SameFlags(d.ep, f) /\ SameBufs(d.ep, f)
        /\ f.tx = d.ep.tx /\ f.rx = "VALID"
    BY <1>1, NakSet
  <2>2. /\ c \in Control /\ c.state = "STATUS_OUT" /\ c.req = d.ctl.req
        /\ c.complete = d.ctl.complete
    BY <1>1 DEF Control, States
  <2>3. u = [ ep |-> f, ctl |-> c ]
    <3> DEFINE s == [ d EXCEPT !.ctl.state = "STATUS_OUT" ]
    <3>1. s = [ ep |-> d.ep, ctl |-> c ]
      BY DEF Device
    <3>2. u = [ s EXCEPT !.ep = ep_nak_set(@, FALSE) ]
      BY <1>3 DEF control_in
    <3> HIDE DEF s, u, c
    <3> QED
      BY <3>1, <3>2
  <2> HIDE DEF f, c
  <2>4. u \in Device /\ u.ep = f /\ u.ctl = c
    BY <2>1, <2>2, <2>3 DEF Device
  <2> HIDE DEF u
  <2> QED
    BY <1>3, <2>1, <2>2, <2>4 DEF InDone, SameBufs, u
<1>4. CASE d.ctl.state = "STATUS_IN"
  <2> DEFINE c == [ d.ctl EXCEPT !.state = "IDLE" ]
  <2>1. u = [ ep |-> d.ep, ctl |-> c ]
    BY <1>4 DEF control_in, Device
  <2>2. c \in Control /\ c.state = "IDLE" /\ c.req = d.ctl.req /\ c.complete = d.ctl.complete
    BY <1>1 DEF Control, States
  <2> HIDE DEF c
  <2>3. u \in Device /\ u.ep = d.ep /\ u.ctl = c
    BY <1>1, <2>1, <2>2 DEF Device
  <2> HIDE DEF u
  <2> QED
    BY <1>4, <2>2, <2>3 DEF InDone, SameFlags, u
<1>5. CASE d.ctl.state \notin {"DATA_IN", "LAST_DATA_IN", "STATUS_IN"}
  <2>1. u = stall_transaction(d)
    BY <1>5 DEF control_in
  <2> HIDE DEF u
  <2>2. /\ u \in Device /\ SameFlags(d.ep, u.ep) /\ SameBufs(d.ep, u.ep)
        /\ u.ep.tx = "STALL" /\ u.ep.rx = "STALL"
        /\ u.ctl.state = "IDLE" /\ u.ctl.req = d.ctl.req
        /\ u.ctl.complete = d.ctl.complete
    BY <2>1, StallEffect
  <2> QED
    BY <1>5, <2>2 DEF InDone, SameBufs, u
<1> QED
  BY <1>2, <1>3, <1>4, <1>5

-----------------------------------------------------------------------------
(* The initial state, and a reset of the bus *)

LEMMA InitControl == Init => ControlInv
<1> SUFFICES ASSUME Init PROVE ControlInv
  OBVIOUS
<1>1. <<>> \in Packet /\ Len(<<>>) = 0
  BY DEF Packet
<1>2. MaxPacket \in Nat
  BY ControlAssumption
<1>3. ep \in Endpoint
  BY <1>1 DEF Init, Endpoint, Stats
<1>4. ctl \in Control /\ host \in HostState
  BY <1>1 DEF Init, Control, HostState, States, Stages
<1>5. Types
  <2>1. ep.tx_buf = <<>> /\ daddr \in {0, 1, None} /\ pc \in {"idle", "setup", "out", "in"}
    BY DEF Init
  <2>2. reset \in BOOLEAN
    BY Zenon DEF Init
  <2> QED
    BY <1>1, <1>2, <1>3, <1>4, <2>1, <2>2 DEF Types
<1>6. UnreadInv /\ SetupInv /\ ResetInv /\ ServedInv /\ CutInv
  BY DEF Init, UnreadInv, SetupInv, ResetInv, ServedInv, CutInv, Cut, Unread, Live, NoRx, Sent
<1>7. CompleteInv /\ AddressInv /\ DoneInv
  BY DEF Init, CompleteInv, AddressInv, DoneInv
<1> QED
  BY <1>5, <1>6, <1>7 DEF ControlInv

LEMMA BusResetEffect ==
    ASSUME Types, BusReset
    PROVE  /\ ep' \in Endpoint /\ SameBufs(ep, ep') /\ ep'.tx = "DISABLED" /\ ep'.rx = "DISABLED"
           /\ (ep'.ctr_tx <=> ep.ctr_tx) /\ (ep'.ctr_rx <=> ep.ctr_rx) /\ ~ep'.setup
           /\ host' \in HostState /\ host'.stage = "idle" /\ host'.addr = 0
           /\ host'.req = host.req /\ host'.sent = host.sent
           /\ host'.well <=> host.well /\ (~NoRx \/ pc # "idle" \/ Sent)
           /\ host'.lost <=> host.lost \/ Unread
           /\ ~reset /\ reset' /\ daddr' = None /\ given' = None /\ done' = None
           /\ UNCHANGED <<pc, ctl>>
<1>1. ep \in Endpoint /\ host \in HostState
  BY DEF Types
<1> DEFINE well == host.well /\ (pc # "idle" \/ ep.ctr_rx \/ ep.ctr_tx)
           lost == host.lost \/ (ep.ctr_rx /\ ep.setup)
<1>2. /\ ep' = ResetRegs(ep)
      /\ host' = [ host EXCEPT !.stage = "idle", !.addr = 0, !.well = well, !.lost = lost ]
  BY DEF BusReset
<1>3. /\ ep' \in Endpoint /\ SameBufs(ep, ep') /\ ep'.tx = "DISABLED" /\ ep'.rx = "DISABLED"
      /\ (ep'.ctr_tx <=> ep.ctr_tx) /\ (ep'.ctr_rx <=> ep.ctr_rx) /\ ~ep'.setup
  BY <1>1, <1>2 DEF ResetRegs, Endpoint, SameBufs, Stats
<1>4. /\ lost \in BOOLEAN /\ (lost <=> host.lost \/ Unread)
      /\ well \in BOOLEAN /\ (well <=> host.well /\ (~NoRx \/ pc # "idle" \/ Sent))
  BY <1>1 DEF Unread, NoRx, Sent, HostState, Endpoint
<1> HIDE DEF lost, well
<1>5. /\ host' \in HostState /\ host'.stage = "idle" /\ host'.addr = 0
      /\ host'.req = host.req /\ host'.sent = host.sent
      /\ host'.well = well /\ host'.lost = lost
  BY <1>1, <1>2, <1>4 DEF HostState, Stages
<1>6. /\ ~reset /\ reset' /\ daddr' = None /\ given' = None /\ done' = None
      /\ UNCHANGED <<pc, ctl>>
  BY Zenon DEF BusReset
<1> QED
  BY <1>3, <1>4, <1>5, <1>6

LEMMA BusResetKeeps == ControlInv /\ BusReset => ControlInv'
<1> SUFFICES ASSUME ControlInv, BusReset PROVE ControlInv'
  OBVIOUS
<1>1. /\ Types /\ UnreadInv /\ SetupInv /\ ResetInv /\ ServedInv /\ CutInv
      /\ CompleteInv /\ AddressInv /\ DoneInv
  BY DEF ControlInv
<1>2. /\ ep' \in Endpoint /\ SameBufs(ep, ep') /\ ep'.tx = "DISABLED" /\ ep'.rx = "DISABLED"
      /\ (ep'.ctr_tx <=> ep.ctr_tx) /\ (ep'.ctr_rx <=> ep.ctr_rx) /\ ~ep'.setup
      /\ host' \in HostState /\ host'.stage = "idle" /\ host'.addr = 0
      /\ host'.req = host.req /\ host'.sent = host.sent
      /\ host'.well <=> host.well /\ (~NoRx \/ pc # "idle" \/ Sent)
      /\ host'.lost <=> host.lost \/ Unread
      /\ ~reset /\ reset' /\ daddr' = None /\ given' = None /\ done' = None
      /\ UNCHANGED <<pc, ctl>>
  BY <1>1, BusResetEffect
<1>r. reset' \in BOOLEAN
  BY Zenon DEF BusReset
<1>3. Types'
  BY <1>1, <1>2, <1>r DEF Types, SameBufs
<1>4. UnreadInv' /\ CompleteInv' /\ AddressInv'
  BY <1>1, <1>2 DEF UnreadInv, Unread, CompleteInv, AddressInv
<1>5. /\ ~Live' /\ (NoRx' <=> NoRx) /\ (Sent' <=> Sent) /\ Pending' = Pending
  BY <1>2 DEF Live, NoRx, Sent, Pending, SameBufs
<1>6. ASSUME NEW stored, Continues(stored) PROVE Continues(stored)'
  BY <1>2, <1>5, <1>6 DEF Continues
<1>7. SetupInv'
  <2> SUFFICES ASSUME pc = "setup" PROVE SetupInv'
    BY <1>2 DEF SetupInv
  <2>1. ~Unread
    BY <1>1 DEF UnreadInv
  <2>2. Written(host.req) => Continues(<<>>)'
    BY <1>1, <1>6 DEF SetupInv
  <2> QED
    BY <1>1, <1>2, <2>1, <2>2 DEF SetupInv
<1>8. ResetInv'
  BY <1>1, <1>2, <1>5 DEF ResetInv
<1>9. DoneInv'
  BY <1>1, <1>2 DEF DoneInv
<1>10. ServedInv'
  BY <1>5 DEF ServedInv
<1>11. WriteInv => WriteInv'
  BY <1>2, <1>6 DEF WriteInv
<1>12. CutInv'
  <2>1. CASE Unread
    <3>1. ~Sent /\ pc = "idle"
      BY <1>1, <2>1 DEF UnreadInv, Sent
    <3> QED
      BY <1>2, <1>5, <2>1, <3>1 DEF CutInv, Cut
  <2>2. CASE ~Unread /\ ~Live
    BY <1>1, <1>2, <1>5, <1>11, <2>2 DEF CutInv, Cut
  <2>3. CASE ~Unread /\ Live
    <3>1. ~host.lost /\ ~host'.lost /\ (host.well <=> host.stage = "done")
      BY <1>1, <1>2, <2>3 DEF ResetInv
    <3> SUFFICES ASSUME pc # "setup" PROVE CutInv'
      BY <1>2, <3>1 DEF CutInv, Cut
    <3>2. Served
      BY <2>3 DEF Served
    <3>3. ctl.req = host.req
      BY <1>1, <2>3, <3>2 DEF ServedInv
    <3>4. ctl.state \in {"DATA_IN", "LAST_DATA_IN"} => NoRx
      BY <1>1, <2>3, <3>2 DEF ServedInv, DataInInv
    <3>5. ctl.state \in {"DATA_OUT", "LAST_DATA_OUT"} => ~Sent /\ WriteInv'
      BY <1>1, <1>11, <2>3, <3>2 DEF ServedInv, DataOutInv, NoTx
    <3>6. ctl.state = "STATUS_OUT" /\ ~NoRx => host.well
      BY <1>1, <2>3, <3>1, <3>2 DEF ServedInv, StatusOutInv
    <3>7. ctl.state = "STATUS_IN" /\ Sent => host.well
      BY <1>1, <2>3, <3>1, <3>2 DEF ServedInv, StatusInInv
    <3> QED
      BY <1>2, <1>5, <3>1, <3>3, <3>4, <3>5, <3>6, <3>7 DEF CutInv, Cut
  <2> QED
    BY <2>1, <2>2, <2>3
<1> QED
  BY <1>3, <1>4, <1>7, <1>8, <1>9, <1>10, <1>12 DEF ControlInv

-----------------------------------------------------------------------------
(* The driver's poll *)

LEMMA PollResetKeeps == ControlInv /\ PollReset => ControlInv'
<1> SUFFICES ASSUME ControlInv, PollReset PROVE ControlInv'
  OBVIOUS
<1>1. /\ Types /\ UnreadInv /\ SetupInv /\ ResetInv /\ ServedInv /\ CutInv
      /\ CompleteInv /\ AddressInv /\ DoneInv
  BY DEF ControlInv
<1>2. /\ pc = "idle" /\ host.stage = "idle" /\ host.addr = 0
      /\ ~reset' /\ daddr' = 0 /\ UNCHANGED <<pc, ctl, host, given, done>>
  BY <1>1 DEF PollReset, ResetInv
<1>3. /\ ep' \in Endpoint /\ SameFlags(ep, ep') /\ SameBufs(ep, ep')
  BY <1>1 DEF PollReset, Types, Endpoint, ep_setup, SameFlags, SameBufs, Stats
<1>r. reset' \in BOOLEAN
  BY Zenon DEF PollReset
<1>4. Types'
  BY <1>1, <1>2, <1>3, <1>r DEF Types, SameBufs
<1>5. ~Live /\ ~Live' /\ ~Unread /\ ~Unread'
  BY <1>1, <1>2, <1>3 DEF Live, UnreadInv, Unread, SameFlags
<1>6. UnreadInv' /\ SetupInv' /\ CompleteInv' /\ AddressInv' /\ DoneInv'
  BY <1>1, <1>2, <1>5 DEF UnreadInv, SetupInv, CompleteInv, AddressInv, DoneInv
<1>7. ResetInv' /\ ServedInv'
  BY <1>1, <1>2, <1>3, <1>5 DEF ResetInv, ServedInv, SameFlags
<1>8. (NoRx' <=> NoRx) /\ (Sent' <=> Sent) /\ Pending' = Pending
  BY <1>2, <1>3 DEF NoRx, Sent, Pending, SameFlags, SameBufs
<1>9. WriteInv => WriteInv'
  BY <1>2, <1>3, <1>8 DEF WriteInv, Continues, SameFlags
<1>10. CutInv'
  BY <1>1, <1>2, <1>5, <1>8, <1>9 DEF CutInv, Cut
<1> QED
  BY <1>4, <1>6, <1>7, <1>10 DEF ControlInv

LEMMA PollSetupKeeps == ControlInv /\ PollSetup => ControlInv'
<1> SUFFICES ASSUME ControlInv, PollSetup PROVE ControlInv'
  OBVIOUS
<1>1. /\ Types /\ UnreadInv /\ SetupInv /\ ResetInv /\ ServedInv /\ CutInv
      /\ CompleteInv /\ AddressInv /\ DoneInv
  BY DEF ControlInv
<1>2. /\ pc = "idle" /\ pc' = "setup" /\ ~reset
      /\ ep' = ep_read_packet(ep) /\ UNCHANGED <<reset, daddr, host, given, done>>
  BY DEF PollSetup
<1>3. /\ Unread /\ Live /\ host.req \in Requests /\ Fresh
      /\ ep.rx_buf = [ i \in 1 .. 8 |-> host.req ]
      /\ ep.rx \notin {"VALID", "STALL"} /\ ep.tx \notin {"VALID", "STALL"} /\ ~ep.ctr_tx
  BY <1>1 DEF PollSetup, UnreadInv, Unread
<1>4. read_packet_data(ep, 8) # <<>>
  <2>1. ep.rx_buf \in Seq(Requests) /\ Len(ep.rx_buf) = 8
    <3> DEFINE eight == [ i \in 1 .. 8 |-> host.req ]
    <3>1. eight \in Seq(Requests) /\ Len(eight) = 8
      BY <1>3
    <3> QED
      BY <1>3, <3>1
  <2>2. read_packet_data(ep, 8) = SubSeq(ep.rx_buf, 1, 8)
    BY <1>3, <2>1 DEF read_packet_data
  <2>3. Len(SubSeq(ep.rx_buf, 1, 8)) = 8
    BY <2>1
  <2> QED
    BY <2>2, <2>3
<1>5. ctl' = [ ctl EXCEPT !.req = host.req ]
  <2>1. ctl' = [ ctl EXCEPT !.req = ep.rx_buf[1] ]
    BY <1>4 DEF PollSetup
  <2>2. ep.rx_buf[1] = host.req
    BY <1>3
  <2> QED
    BY <2>1, <2>2
<1>6. ctl' \in Control /\ ctl'.req = host.req
  BY <1>1, <1>3, <1>5 DEF Types, Control
<1>7. /\ ep' \in Endpoint /\ SameBufs(ep, ep') /\ ~ep'.ctr_rx /\ ~ep'.ctr_tx
      /\ ep'.tx = ep.tx /\ ep'.rx # "STALL"
  BY <1>1, <1>2, <1>3, ReadPacket DEF Types
<1>8. Types'
  BY <1>1, <1>2, <1>6, <1>7 DEF Types, SameBufs
<1>9. UnreadInv' /\ CompleteInv' /\ DoneInv'
  BY <1>1, <1>2, <1>6, <1>7 DEF UnreadInv, Unread, CompleteInv, DoneInv
<1>10. SetupInv'
  <2>1. Continues(<<>>)'
    <3>1. Pending' = <<>> /\ Len(<<>>) = 0 /\ <<>> \o <<>> = <<>>
      BY <1>2, <1>7 DEF Pending
    <3>2. host'.sent = 0 /\ host'.req.wLength \in Nat /\ MaxPacket \in Nat
      BY <1>2, <1>3, RequestTypes, ControlAssumption DEF Fresh
    <3> QED
      BY <1>2, <1>7, <3>1, <3>2, NoBytes DEF Continues
  <2>2. Fresh' /\ Live' /\ ~host'.lost
    BY <1>1, <1>2, <1>3 DEF Fresh, Live, ResetInv
  <2>3. Written(host.req) => host.req.wLength > 0 /\ host.sent = 0 /\ host.stage = "data"
    BY <1>3 DEF Fresh, Written
  <2> QED
    BY <1>2, <1>3, <1>6, <1>7, <2>1, <2>2, <2>3 DEF SetupInv, Fresh
<1>11. ResetInv'
  BY <1>1, <1>2, <1>3, <1>6, <1>7 DEF ResetInv, Live
<1>12. AddressInv'
  <2>1. host.stage \notin {"idle", "done", "detached"}
    BY <1>3 DEF Fresh
  <2>2. ~reset => daddr = host.addr
    BY <1>1, <2>1 DEF AddressInv, LateAddress
  <2> QED
    BY <1>2, <2>1, <2>2 DEF AddressInv
<1>13. ServedInv' /\ CutInv'
  BY <1>2, <1>3, <1>7 DEF ServedInv, Served, CutInv, Cut, Live
<1> QED
  BY <1>8, <1>9, <1>10, <1>11, <1>12, <1>13 DEF ControlInv

LEMMA PollOutKeeps == ControlInv /\ PollOut => ControlInv'
<1> SUFFICES ASSUME ControlInv, PollOut PROVE ControlInv'
  OBVIOUS
<1>1. /\ Types /\ UnreadInv /\ SetupInv /\ ResetInv /\ ServedInv /\ CutInv
      /\ CompleteInv /\ AddressInv /\ DoneInv
  BY DEF ControlInv
<1>2. /\ pc = "idle" /\ pc' = "out" /\ ~reset /\ ep.ctr_rx /\ ~ep.setup
      /\ UNCHANGED <<ep, reset, daddr, ctl, host, given, done>>
  BY DEF PollOut
<1>3. Served /\ Served' /\ (Live' <=> Live)
  BY <1>2 DEF Served, Unread, Live
<1>4. Types' /\ UnreadInv' /\ SetupInv' /\ ResetInv' /\ CompleteInv' /\ DoneInv'
  BY <1>1, <1>2, <1>3
  DEF Types, UnreadInv, Unread, SetupInv, ResetInv, CompleteInv, DoneInv
<1>5. Live => ctl.req = host.req /\ ctl'.req = host'.req
  BY <1>1, <1>2, <1>3 DEF ServedInv
<1>7. (Sent' <=> Sent) /\ ~NoRx /\ ~NoRx' /\ Pending' = Pending
  BY <1>2 DEF Sent, NoRx, Pending
<1>8. AddressInv'
  BY <1>1, <1>2, <1>3, <1>7 DEF AddressInv, LateAddress
<1>6. WriteInv => WriteInv'
  BY <1>2, <1>7 DEF WriteInv, Continues
<1>9. Live /\ ctl.state = "IDLE" => IdleInv'
  BY <1>1, <1>2, <1>3, <1>7 DEF ServedInv, IdleInv, NoTx
<1>10. Live => ctl.state \notin {"DATA_IN", "LAST_DATA_IN", "STATUS_IN"}
  BY <1>1, <1>3, <1>7 DEF ServedInv, DataInInv, StatusInInv
<1>11. Live /\ ctl.state = "STATUS_OUT" => StatusOutInv'
  BY <1>1, <1>2, <1>3, <1>7 DEF ServedInv, StatusOutInv, NoTx
<1>12. Live /\ ctl.state \in {"DATA_OUT", "LAST_DATA_OUT"} => DataOutInv'
  BY <1>1, <1>2, <1>3, <1>6, <1>7 DEF ServedInv, DataOutInv, NoTx
<1>13. ServedInv'
  BY <1>2, <1>3, <1>5, <1>9, <1>10, <1>11, <1>12 DEF ServedInv
<1>14. CutInv'
  BY <1>1, <1>2, <1>3, <1>6, <1>7 DEF CutInv, Cut
<1> QED
  BY <1>4, <1>8, <1>13, <1>14 DEF ControlInv

LEMMA PollInKeeps == ControlInv /\ PollIn => ControlInv'
<1> SUFFICES ASSUME ControlInv, PollIn PROVE ControlInv'
  OBVIOUS
<1>1. /\ Types /\ UnreadInv /\ SetupInv /\ ResetInv /\ ServedInv /\ CutInv
      /\ CompleteInv /\ AddressInv /\ DoneInv
  BY DEF ControlInv
<1>2. /\ pc = "idle" /\ pc' = "in" /\ ~reset /\ ~ep.ctr_rx /\ ep.ctr_tx
      /\ UNCHANGED <<reset, daddr, ctl, host, given, done>>
  BY DEF PollIn
<1>3. /\ ep' \in Endpoint /\ ~ep'.ctr_tx /\ ~ep'.ctr_rx
      /\ ep'.tx = ep.tx /\ ep'.rx = ep.rx /\ SameBufs(ep, ep')
  BY <1>1, <1>2 DEF PollIn, Types, Endpoint, clear_ctr_tx, SameBufs
<1>4. Served /\ Served' /\ (Live' <=> Live)
  BY <1>2, <1>3 DEF Served, Unread, Live
<1>5. Types' /\ UnreadInv' /\ SetupInv' /\ ResetInv' /\ CompleteInv' /\ DoneInv'
  BY <1>1, <1>2, <1>3, <1>4
  DEF Types, UnreadInv, Unread, SetupInv, ResetInv, CompleteInv, DoneInv, SameBufs
<1>6. Live => ctl.req = host.req /\ ctl'.req = host'.req
  BY <1>1, <1>2, <1>4 DEF ServedInv
<1>8. Sent /\ Sent' /\ ~NoTx /\ NoRx /\ NoRx'
  BY <1>2, <1>3 DEF Sent, NoTx, NoRx
<1>9. AddressInv'
  BY <1>1, <1>2, <1>4, <1>8 DEF AddressInv, LateAddress
<1>10. Live => ctl.state \notin {"IDLE", "STATUS_OUT", "DATA_OUT", "LAST_DATA_OUT"}
  BY <1>1, <1>4, <1>8 DEF ServedInv, IdleInv, StatusOutInv, DataOutInv
<1>11. Live /\ ctl.state \in {"DATA_IN", "LAST_DATA_IN"} => DataInInv'
  <2> SUFFICES ASSUME Live, ctl.state \in {"DATA_IN", "LAST_DATA_IN"} PROVE DataInInv'
    OBVIOUS
  <2>1. DataInInv
    BY <1>1, <1>4 DEF ServedInv
  <2>2. Waiting' = Waiting
    BY <1>3 DEF Waiting, SameBufs
  <2> QED
    BY <1>2, <1>3, <1>8, <2>1, <2>2 DEF DataInInv, SameBufs
<1>12. Live /\ ctl.state = "STATUS_IN" => StatusInInv'
  BY <1>1, <1>2, <1>3, <1>4, <1>8 DEF ServedInv, StatusInInv
<1>13. ServedInv'
  BY <1>2, <1>4, <1>6, <1>10, <1>11, <1>12 DEF ServedInv
<1>14. CutInv'
  BY <1>1, <1>2, <1>4, <1>8 DEF CutInv, Cut
<1> QED
  BY <1>5, <1>9, <1>13, <1>14 DEF ControlInv

-----------------------------------------------------------------------------
(* The host's tokens *)

LEMMA InTaken ==
    ASSUME NEW e \in Endpoint
    PROVE  LET f == HwIn(e) IN
           /\ f \in Endpoint /\ f.tx = "NAK" /\ f.ctr_tx
           /\ f.rx = e.rx /\ (f.ctr_rx <=> e.ctr_rx) /\ (f.setup <=> e.setup) /\ SameBufs(e, f)
  BY DEF Endpoint, HwIn, SameBufs, Stats

LEMMA OutTaken ==
    ASSUME NEW e \in Endpoint, NEW packet \in Packet
    PROVE  LET f == HwOut(e, packet) IN
           /\ f \in Endpoint /\ f.rx = "NAK" /\ f.ctr_rx /\ ~f.setup
           /\ f.rx_buf = packet
           /\ f.tx = e.tx /\ (f.ctr_tx <=> e.ctr_tx) /\ f.tx_buf = e.tx_buf
  BY DEF Endpoint, HwOut, Stats

LEMMA SetupTaken ==
    ASSUME NEW e \in Endpoint, NEW r \in Requests
    PROVE  LET f == HwSetup(e, r) IN
           /\ f \in Endpoint /\ f.rx = "NAK" /\ f.tx = "NAK" /\ f.ctr_rx /\ f.setup
           /\ f.rx_buf = [ i \in 1 .. 8 |-> r ]
           /\ (f.ctr_tx <=> e.ctr_tx) /\ f.tx_buf = e.tx_buf
<1>1. [ i \in 1 .. 8 |-> r ] \in Packet
  BY DEF Packet, Byte
<1> QED
  BY <1>1 DEF Endpoint, HwSetup, Stats

LEMMA StartKeeps ==
    ASSUME ControlInv, ~BackToBack, NEW r \in Requests, Start(r)
    PROVE  ControlInv'
<1>1. /\ Types /\ UnreadInv /\ SetupInv /\ ResetInv /\ ServedInv /\ CutInv
      /\ CompleteInv /\ AddressInv /\ DoneInv
  BY DEF ControlInv
<1>2. /\ pc = "idle" /\ ~reset /\ ~ep.ctr_rx /\ ~ep.ctr_tx /\ daddr = host.addr
      /\ ep' = HwSetup(ep, r) /\ given' = None /\ done' = None
      /\ UNCHANGED <<reset, daddr, pc, ctl>>
  BY DEF Start, Quiet, OnBus
<1>3. /\ ep' \in Endpoint /\ ep'.rx = "NAK" /\ ep'.tx = "NAK" /\ ep'.ctr_rx /\ ep'.setup
      /\ ep'.rx_buf = [ i \in 1 .. 8 |-> r ] /\ ~ep'.ctr_tx /\ ep'.tx_buf = ep.tx_buf
  BY <1>1, <1>2, SetupTaken DEF Types
<1> DEFINE stage == IF r.wLength = 0 THEN "status" ELSE "data"
<1>4. host' = [ host EXCEPT !.stage = stage, !.req = r, !.got = <<>>, !.sent = 0,
                                 !.well = FALSE, !.lost = FALSE ]
  BY DEF Start
<1>5. stage \in {"data", "status"} /\ <<>> \in Packet
  BY DEF Packet
<1>s. stage = IF r.wLength = 0 THEN "status" ELSE "data"
  OBVIOUS
<1> HIDE DEF stage
<1>6. /\ host' \in HostState /\ host'.stage = stage /\ host'.req = r /\ host'.got = <<>>
      /\ host'.sent = 0 /\ host'.addr = host.addr /\ ~host'.well /\ ~host'.lost
  BY <1>1, <1>4, <1>5 DEF Types, HostState, Stages
<1>7. Types'
  BY <1>1, <1>2, <1>3, <1>6 DEF Types
<1>8. Fresh' /\ Live' /\ Unread'
  BY <1>2, <1>3, <1>5, <1>6, <1>s DEF Fresh, Live, Unread
<1>9. UnreadInv'
  BY <1>2, <1>3, <1>6, <1>8 DEF UnreadInv
<1>10. SetupInv' /\ CompleteInv' /\ DoneInv'
  BY <1>1, <1>2, <1>5, <1>6 DEF SetupInv, CompleteInv, DoneInv
<1>11. ResetInv' /\ AddressInv'
  BY <1>1, <1>2, <1>3, <1>5, <1>6, <1>8 DEF ResetInv, AddressInv, Live
<1>12. ServedInv' /\ CutInv'
  BY <1>2, <1>3, <1>8 DEF ServedInv, Served, CutInv, Cut
<1> QED
  BY <1>7, <1>9, <1>10, <1>11, <1>12 DEF ControlInv

(* The host asks for data where data are on the way.                         *)
LEMMA DataInKeeps == ControlInv /\ DataIn => ControlInv'
<1> SUFFICES ASSUME ControlInv, DataIn PROVE ControlInv'
  OBVIOUS
<1>1. /\ Types /\ UnreadInv /\ SetupInv /\ ResetInv /\ ServedInv /\ CutInv
      /\ CompleteInv /\ AddressInv /\ DoneInv
  BY DEF ControlInv
<1>2. /\ host.stage = "data" /\ host.req.in /\ ~reset /\ daddr = host.addr /\ ep.tx = "VALID"
      /\ ep' = HwIn(ep) /\ UNCHANGED <<reset, daddr, pc, ctl, given, done>>
  BY DEF DataIn, OnBus
<1>3. Served /\ Live
  BY <1>1, <1>2 DEF Served, UnreadInv, SetupInv, Live
<1>4. ctl.req = host.req /\ ctl.req \in Requests
  BY <1>1, <1>3 DEF ServedInv, ResetInv
<1>5. ctl.state \in {"DATA_IN", "LAST_DATA_IN"} /\ DataInInv
  BY <1>1, <1>2, <1>3
  DEF ServedInv, Types, Control, States, IdleInv, StatusOutInv, DataOutInv, StatusInInv, NoTx
<1>6. /\ ep' \in Endpoint /\ ep'.tx = "NAK" /\ ep'.ctr_tx
      /\ ep'.rx = ep.rx /\ (ep'.ctr_rx <=> ep.ctr_rx) /\ (ep'.setup <=> ep.setup)
      /\ SameBufs(ep, ep')
  BY <1>1, <1>2, InTaken DEF Types
<1> DEFINE got   == host.got \o ep.tx_buf
           stage == IF Len(ep.tx_buf) < MaxPacket \/ Len(got) >= host.req.wLength
                    THEN "status" ELSE "data"
<1>7. host' = [ host EXCEPT !.got = got, !.stage = stage ]
  BY DEF DataIn
<1>8. stage \in {"data", "status"}
  OBVIOUS
<1>9. stage = "status" => Len(ep.tx_buf) < MaxPacket \/ Len(got) >= ctl.req.wLength
  BY <1>4
<1>10. /\ host.got \in Packet /\ ep.tx_buf \in Packet /\ ctl.buf \in Packet /\ got \in Packet
       /\ Len(ep.tx_buf) \in Nat /\ Len(ctl.buf) \in Nat /\ Len(got) \in Nat
  <2>1. host.got \in Packet /\ ep.tx_buf \in Packet /\ ctl.buf \in Packet
    BY <1>1 DEF Types, Endpoint, Control, HostState
  <2>2. got \in Packet
    BY <2>1, Joined
  <2> HIDE DEF got
  <2> QED
    BY <2>1, <2>2 DEF Packet
<1>11. got \o ctl.buf = Bytes(ctl.req.reply)
  BY <1>2, <1>5 DEF DataInInv, Waiting
<1> HIDE DEF got, stage
<1>12. /\ host' \in HostState /\ host'.stage = stage /\ host'.req = host.req /\ host'.got = got
       /\ host'.sent = host.sent /\ host'.addr = host.addr
       /\ (host'.well <=> host.well) /\ (host'.lost <=> host.lost)
  BY <1>1, <1>7, <1>8, <1>10 DEF Types, HostState, Stages
<1>13. stage = "status" => got = Bytes(ctl.req.reply)
  <2> SUFFICES ASSUME stage = "status" PROVE ctl.buf = <<>>
    BY <1>10, <1>11, ConcatEmptySeq DEF Packet
  <2>1. CASE Len(ep.tx_buf) < MaxPacket
    <3>1. Len(ep.tx_buf) # MaxPacket
      BY <1>10, <2>1, ControlAssumption
    <3> QED
      BY <1>2, <1>5, <3>1 DEF DataInInv
  <2>2. CASE Len(got) >= ctl.req.wLength
    <3>1. ctl.req.reply \in Nat /\ ctl.req.wLength \in Nat /\ ctl.req.reply <= ctl.req.wLength
      BY <1>4, RequestTypes
    <3>2. Len(got) + Len(ctl.buf) = ctl.req.reply
      <4>1. Len(got \o ctl.buf) = Len(got) + Len(ctl.buf)
        BY <1>10, Joined
      <4>2. Len(Bytes(ctl.req.reply)) = ctl.req.reply
        BY <3>1, BytesAreData
      <4> QED
        BY <1>11, <4>1, <4>2
    <3>3. Len(ctl.buf) = 0
      BY <1>10, <2>2, <3>1, <3>2
    <3> QED
      BY <1>10, <3>3 DEF Packet
  <2> QED
    BY <1>9, <2>1, <2>2
<1>14. stage = "data" => (got \o Waiting') \o ctl.buf = Bytes(ctl.req.reply)
  <2>1. Waiting' = <<>> /\ got \o <<>> = got
    BY <1>6, <1>10, ConcatEmptySeq DEF Waiting, Packet
  <2> QED
    BY <1>11, <2>1
<1>15. DataInInv'
  BY <1>2, <1>5, <1>6, <1>8, <1>12, <1>13, <1>14 DEF DataInInv, NoRx
<1>l. Live'
  BY <1>8, <1>12 DEF Live
<1>16. ServedInv' /\ CutInv'
  BY <1>2, <1>4, <1>5, <1>12, <1>15, <1>l DEF ServedInv, CutInv, Cut
<1>17. Types' /\ CompleteInv'
  BY <1>1, <1>2, <1>6, <1>12 DEF Types, CompleteInv, SameBufs
<1>18. UnreadInv' /\ SetupInv'
  BY <1>2, <1>3, <1>6 DEF UnreadInv, SetupInv, Served, Unread
<1>19. ResetInv'
  <2>1. pc # "in"
    BY <1>2, <1>5 DEF DataInInv, Sent
  <2> QED
    BY <1>1, <1>2, <1>3, <1>8, <1>12, <2>1 DEF ResetInv
<1>20. AddressInv' /\ DoneInv'
  BY <1>1, <1>2, <1>8, <1>12 DEF AddressInv, DoneInv
<1> QED
  BY <1>15, <1>16, <1>17, <1>18, <1>19, <1>20 DEF ControlInv

(* It acknowledges what it has read where that has been read to its end.     *)
LEMMA StatusOutKeeps == ControlInv /\ StatusOut => ControlInv'
<1> SUFFICES ASSUME ControlInv, StatusOut PROVE ControlInv'
  OBVIOUS
<1>1. /\ Types /\ UnreadInv /\ SetupInv /\ ResetInv /\ ServedInv /\ CutInv
      /\ CompleteInv /\ AddressInv /\ DoneInv
  BY DEF ControlInv
<1>2. /\ host.stage = "status" /\ host.req.in /\ host.req.wLength > 0
      /\ ~reset /\ daddr = host.addr /\ ep.rx = "VALID"
      /\ ep' = HwOut(ep, <<>>) /\ UNCHANGED <<reset, daddr, pc, ctl, given, done>>
  BY DEF StatusOut, OnBus
<1>t. Live /\ host.req \in Requests /\ host.req.wLength \in Nat
  BY <1>1, <1>2, RequestTypes DEF ResetInv, Live
<1>3. Served
  <2>1. pc # "setup"
    <3>1. ~Written(host.req) /\ ~Fresh
      BY <1>2, <1>t DEF Written, Fresh
    <3> QED
      BY <1>1, <1>2, <3>1 DEF SetupInv
  <2> QED
    BY <1>1, <1>2, <2>1 DEF Served, UnreadInv
<1>4. ctl.req = host.req
  BY <1>1, <1>3, <1>t DEF ServedInv
<1>5. ctl.state = "STATUS_OUT" /\ StatusOutInv
  BY <1>1, <1>2, <1>3, <1>4, <1>t
  DEF ServedInv, Types, Control, States, IdleInv, DataInInv, DataOutInv, WriteInv, StatusInInv,
      Written, Read
<1>6. /\ ep' \in Endpoint /\ ep'.rx = "NAK" /\ ep'.ctr_rx /\ ~ep'.setup /\ ep'.rx_buf = <<>>
      /\ ep'.tx = ep.tx /\ (ep'.ctr_tx <=> ep.ctr_tx) /\ ep'.tx_buf = ep.tx_buf
      /\ <<>> \in Packet
  <2>1. <<>> \in Packet
    BY DEF Packet
  <2> QED
    BY <1>1, <1>2, <2>1, OutTaken DEF Types
<1>7. /\ host' \in HostState /\ host'.stage = "done" /\ host'.req = host.req
      /\ host'.got = host.got /\ host'.sent = host.sent /\ host'.addr = host.addr
      /\ host'.well /\ (host'.lost <=> host.lost)
  BY <1>1 DEF StatusOut, Types, HostState, Stages
<1>8. Live' /\ Served'
  BY <1>2, <1>3, <1>6, <1>7 DEF Live, Served, Unread
<1>9. StatusOutInv'
  BY <1>2, <1>5, <1>6, <1>7 DEF StatusOutInv, NoTx, Sent
<1>10. ServedInv' /\ CutInv'
  BY <1>2, <1>4, <1>5, <1>7, <1>8, <1>9 DEF ServedInv, CutInv, Cut
<1>11. Types' /\ CompleteInv'
  BY <1>1, <1>2, <1>6, <1>7 DEF Types, CompleteInv
<1>12. UnreadInv' /\ SetupInv'
  BY <1>2, <1>3, <1>6 DEF UnreadInv, SetupInv, Served, Unread
<1>13. ResetInv'
  BY <1>1, <1>2, <1>t, <1>6, <1>7, <1>8 DEF ResetInv
<1>14. AddressInv'
  <2>1. ~host.req.set_address
    BY <1>2, <1>t, RequestTypes
  <2> QED
    BY <1>1, <1>2, <1>7, <2>1 DEF AddressInv
<1>15. DoneInv'
  <2>1. ~Refused(host.req) /\ ~Written(host.req)
    BY <1>2, <1>4, <1>5 DEF StatusOutInv, Refused, Written
  <2> QED
    BY <1>1, <1>2, <1>4, <1>5, <1>7, <2>1 DEF DoneInv, StatusOutInv
<1> QED
  BY <1>10, <1>11, <1>12, <1>13, <1>14, <1>15 DEF ControlInv

(* The host's next packet continues what it has sent; one that comes before  *)
(* the last has been read replaces it.                                       *)
LEMMA NextPacket ==
    ASSUME Types, host.req \in Requests, host.sent < host.req.wLength,
           NEW stored \in Packet, Continues(stored), Window \/ Pending = <<>>,
           NEW packet,
           LET upto == Least(host.req.wLength, host.sent + MaxPacket) IN
           /\ packet = [ i \in 1 .. upto - host.sent |-> host.sent + i ]
           /\ ep'.ctr_rx /\ ep'.rx_buf = packet
           /\ host'.req = host.req /\ host'.sent = upto
    PROVE  Continues(stored)'
<1> DEFINE upto == Least(host.req.wLength, host.sent + MaxPacket)
<1>1. host.sent \in Nat /\ host.req.wLength \in Nat /\ MaxPacket \in Nat \ {0}
  BY RequestTypes, ControlAssumption DEF Types, HostState
<1>2. /\ upto \in Nat /\ host.sent < upto /\ upto <= host.req.wLength
      /\ upto - host.sent <= MaxPacket
  BY <1>1 DEF Least
<1>3. /\ packet = [ i \in 1 .. upto - host.sent |-> host.sent + i ]
      /\ Pending' = packet /\ host'.req = host.req /\ host'.sent = upto /\ ep'.ctr_rx
  BY DEF Pending
<1> HIDE DEF upto
<1>4. /\ packet \in Packet /\ Len(packet) = upto - host.sent
      /\ Bytes(host.sent) \o packet = Bytes(upto)
  <2>1. host.sent <= upto
    BY <1>1, <1>2
  <2>2. LET p == [ i \in 1 .. upto - host.sent |-> host.sent + i ] IN
        p \in Packet /\ Len(p) = upto - host.sent /\ Bytes(host.sent) \o p = Bytes(upto)
    BY <1>1, <1>2, <2>1, NextBytes, Zenon
  <2> QED
    BY <1>3, <2>2
<1> DEFINE n == Len(packet)
<1>5. n \in Nat /\ n > 0 /\ host.sent + n = upto
  <2>1. n = upto - host.sent
    BY <1>4
  <2> HIDE DEF n
  <2> QED
    BY <1>1, <1>2, <2>1
<1> HIDE DEF n
<1>e. packet # <<>>
  <2>1. Len(<<>>) = 0
    OBVIOUS
  <2>2. n # 0
    BY <1>5
  <2> QED
    BY <2>1, <2>2, Zenon DEF n
<1>6. Pending \in Packet /\ Len(Pending) \in Nat /\ Len(stored) \in Nat
  BY DEF Pending, Types, Endpoint, Packet
<1>7. \/ stored \o packet = Bytes(upto)
      \/ Window /\ Len(stored) + Len(packet) < upto
  <2>1. CASE stored \o Pending = Bytes(host.sent) /\ Pending = <<>>
    <3>1. stored \o <<>> = stored
      BY ConcatEmptySeq DEF Packet
    <3> QED
      BY <1>4, <2>1, <3>1
  <2>2. CASE stored \o Pending = Bytes(host.sent) /\ Pending # <<>>
    <3>1. Len(stored) + Len(Pending) = host.sent
      <4>1. Len(stored \o Pending) = Len(stored) + Len(Pending)
        BY <1>6, Joined
      <4>2. Len(Bytes(host.sent)) = host.sent
        BY <1>1, BytesAreData
      <4> QED
        BY <2>2, <4>1, <4>2
    <3>2. Len(Pending) # 0
      BY <1>6, <2>2 DEF Packet
    <3>3. Len(stored) < host.sent
      BY <1>1, <1>6, <3>1, <3>2
    <3>4. Len(stored) + n < host.sent + n
      BY <1>1, <1>5, <1>6, <3>3
    <3> QED
      BY <1>5, <2>2, <3>4 DEF n
  <2>3. CASE Window /\ Len(stored) + Len(Pending) < host.sent
    <3>1. Len(stored) < host.sent
      BY <1>1, <1>6, <2>3
    <3>2. Len(stored) + n < host.sent + n
      BY <1>1, <1>5, <1>6, <3>1
    <3> QED
      BY <1>5, <2>3, <3>2 DEF n
  <2> QED
    BY <2>1, <2>2, <2>3 DEF Continues
<1>8. Len(packet) <= MaxPacket /\ (upto < host.req.wLength => Len(packet) = MaxPacket)
  BY <1>1, <1>2, <1>4 DEF upto, Least
<1> QED
  BY <1>2, <1>3, <1>4, <1>e, <1>7, <1>8 DEF Continues

LEMMA DataOutKeeps == ControlInv /\ DataOut => ControlInv'
<1> SUFFICES ASSUME ControlInv, DataOut PROVE ControlInv'
  OBVIOUS
<1>1. /\ Types /\ UnreadInv /\ SetupInv /\ ResetInv /\ ServedInv /\ CutInv
      /\ CompleteInv /\ AddressInv /\ DoneInv
  BY DEF ControlInv
<1>2. /\ host.stage = "data" /\ ~host.req.in /\ ~reset /\ daddr = host.addr /\ ep.rx = "VALID"
      /\ (Window \/ pc = "idle") /\ UNCHANGED <<reset, daddr, pc, ctl, given, done>>
  BY DEF DataOut, OnBus
<1>t. /\ Live /\ host.req \in Requests /\ host.req.wLength \in Nat /\ host.sent \in Nat
      /\ MaxPacket \in Nat \ {0}
  BY <1>1, <1>2, RequestTypes, ControlAssumption DEF ResetInv, Live, Types, HostState
<1>3. ~Unread
  BY <1>1, <1>2 DEF UnreadInv
<1> DEFINE upto   == Least(host.req.wLength, host.sent + MaxPacket)
           packet == [ i \in 1 .. upto - host.sent |-> host.sent + i ]
           stage  == IF upto = host.req.wLength THEN "status" ELSE "data"
<1>4. ep' = HwOut(ep, packet) /\ host' = [ host EXCEPT !.sent = upto, !.stage = stage ]
  BY DEF DataOut
<1>5. upto \in Nat /\ upto <= host.req.wLength
  BY <1>t DEF Least
<1>6. packet \in Packet
  <2>1. packet \in Seq(Nat)
    BY <1>t, <1>5
  <2> HIDE DEF packet
  <2>2. \A i \in 1 .. Len(packet) : packet[i] \in Byte
    BY <2>1 DEF Byte
  <2> QED
    BY <2>1, <2>2 DEF Packet
<1>7. stage \in Stages /\ stage = IF upto < host.req.wLength THEN "data" ELSE "status"
  BY <1>t, <1>5 DEF Stages
<1>p. /\ upto = Least(host.req.wLength, host.sent + MaxPacket)
      /\ packet = [ i \in 1 .. upto - host.sent |-> host.sent + i ]
  OBVIOUS
<1> HIDE DEF upto, packet, stage
<1>8. /\ ep' \in Endpoint /\ ep'.rx = "NAK" /\ ep'.ctr_rx /\ ~ep'.setup /\ ep'.rx_buf = packet
      /\ ep'.tx = ep.tx /\ (ep'.ctr_tx <=> ep.ctr_tx) /\ ep'.tx_buf = ep.tx_buf
  BY <1>1, <1>4, <1>6, OutTaken DEF Types
<1>9. /\ host' \in HostState /\ host'.stage = stage /\ host'.req = host.req
      /\ host'.got = host.got /\ host'.sent = upto /\ host'.addr = host.addr
      /\ (host'.well <=> host.well) /\ (host'.lost <=> host.lost)
  BY <1>1, <1>4, <1>5, <1>7 DEF Types, HostState
<1>10. ASSUME NEW stored \in Packet, Continues(stored), host.sent < host.req.wLength,
              Window \/ Pending = <<>>
       PROVE  Continues(stored)'
  BY <1>1, <1>t, <1>p, <1>8, <1>9, <1>10, NextPacket
<1>11. pc = "setup" => Written(host.req) /\ Continues(<<>>) /\ host.sent < host.req.wLength
  <2> SUFFICES ASSUME pc = "setup"
               PROVE  Written(host.req) /\ Continues(<<>>) /\ host.sent < host.req.wLength
    OBVIOUS
  <2>1. Written(host.req)
    <3>1. Fresh => host.req.wLength # 0
      BY <1>2 DEF Fresh
    <3> QED
      BY <1>1, <1>2, <1>t, <3>1 DEF SetupInv, Written
  <2> QED
    BY <1>1, <1>2, <2>1 DEF SetupInv
<1>12. SetupInv'
  <2> SUFFICES ASSUME pc = "setup" PROVE SetupInv'
    BY <1>2 DEF SetupInv
  <2>1. <<>> \in Packet
    BY DEF Packet
  <2>2. Continues(<<>>)'
    BY <1>2, <1>10, <1>11, <2>1
  <2> QED
    BY <1>1, <1>2, <1>7, <1>8, <1>9, <1>11, <2>2 DEF SetupInv, Live
<1>13. pc # "setup" => /\ ctl.state \in {"DATA_OUT", "LAST_DATA_OUT"} /\ ctl.req = host.req
                       /\ DataOutInv /\ DataOutInv'
  <2> SUFFICES ASSUME pc # "setup"
               PROVE  /\ ctl.state \in {"DATA_OUT", "LAST_DATA_OUT"} /\ ctl.req = host.req
                      /\ DataOutInv /\ DataOutInv'
    OBVIOUS
  <2>1. Served
    BY <1>3 DEF Served
  <2>2. ctl.req = host.req
    BY <1>1, <1>t, <2>1 DEF ServedInv
  <2>3. ctl.state \in {"DATA_OUT", "LAST_DATA_OUT"} /\ DataOutInv
    BY <1>1, <1>2, <1>t, <2>1, <2>2
    DEF ServedInv, Types, Control, States, IdleInv, DataInInv, StatusOutInv, StatusInInv, Read
  <2>4. host.sent < host.req.wLength
    BY <1>2, <2>3 DEF DataOutInv
  <2>5. Window \/ Pending = <<>>
    BY <1>2, <2>3 DEF DataOutInv, Pending
  <2>6. ctl.buf \in Packet
    BY <1>1 DEF Types, Control
  <2>7. Continues(ctl.buf)'
    BY <1>2, <1>10, <2>3, <2>4, <2>5, <2>6 DEF DataOutInv, WriteInv
  <2>8. DataOutInv'
    BY <1>2, <1>7, <1>8, <1>9, <2>2, <2>3, <2>7 DEF DataOutInv, WriteInv, NoTx, Sent
  <2> QED
    BY <2>2, <2>3, <2>8
<1>l. Live'
  BY <1>7, <1>9 DEF Live
<1>14. ServedInv' /\ CutInv'
  BY <1>2, <1>9, <1>13, <1>l DEF ServedInv, Served, CutInv, Cut
<1>15. Types' /\ CompleteInv'
  BY <1>1, <1>2, <1>8, <1>9 DEF Types, CompleteInv
<1>16. UnreadInv'
  BY <1>8 DEF UnreadInv, Unread
<1>17. ResetInv' /\ AddressInv' /\ DoneInv'
  BY <1>1, <1>2, <1>t, <1>7, <1>8, <1>9 DEF ResetInv, AddressInv, DoneInv
<1> QED
  BY <1>12, <1>14, <1>15, <1>16, <1>17 DEF ControlInv

LEMMA StatusInKeeps == ControlInv /\ StatusIn => ControlInv'
<1> SUFFICES ASSUME ControlInv, StatusIn PROVE ControlInv'
  OBVIOUS
<1>1. /\ Types /\ UnreadInv /\ SetupInv /\ ResetInv /\ ServedInv /\ CutInv
      /\ CompleteInv /\ AddressInv /\ DoneInv
  BY DEF ControlInv
<1>2. /\ host.stage = "status" /\ (~host.req.in \/ host.req.wLength = 0)
      /\ ~reset /\ daddr = host.addr /\ ep.tx = "VALID"
      /\ ep' = HwIn(ep) /\ UNCHANGED <<reset, daddr, pc, ctl, given, done>>
  BY DEF StatusIn, OnBus
<1>3. Served /\ Live
  BY <1>1, <1>2 DEF Served, UnreadInv, SetupInv, Live
<1>4. ctl.req = host.req /\ host.req \in Requests
  BY <1>1, <1>3 DEF ServedInv, ResetInv
<1>t. /\ host.req.wLength \in Nat /\ host.req.reply \in Nat
      /\ host.req.reply <= host.req.wLength
  BY <1>4, RequestTypes
<1>5. ctl.state = "STATUS_IN" /\ StatusInInv
  BY <1>1, <1>2, <1>3, <1>4, <1>t
  DEF ServedInv, Types, Control, States, IdleInv, DataInInv, StatusOutInv, DataOutInv,
      NoTx, Read
<1>6. /\ ep' \in Endpoint /\ ep'.tx = "NAK" /\ ep'.ctr_tx
      /\ ep'.rx = ep.rx /\ (ep'.ctr_rx <=> ep.ctr_rx) /\ (ep'.setup <=> ep.setup)
      /\ SameBufs(ep, ep')
  BY <1>1, <1>2, InTaken DEF Types
<1> DEFINE addr == IF host.req.set_address THEN 1 ELSE host.addr
<1>7. host' = [ host EXCEPT !.stage = "done", !.well = TRUE, !.addr = addr ]
  BY DEF StatusIn
<1>8. addr \in {0, 1} /\ (host.req.set_address => addr = 1)
      /\ (~host.req.set_address => addr = host.addr)
  BY <1>1 DEF Types, HostState
<1> HIDE DEF addr
<1>9. /\ host' \in HostState /\ host'.stage = "done" /\ host'.req = host.req
      /\ host'.got = host.got /\ host'.sent = host.sent /\ host'.addr = addr
      /\ host'.well /\ (host'.lost <=> host.lost)
  BY <1>1, <1>7, <1>8 DEF Types, HostState, Stages
<1>10. Served' /\ Live' /\ Sent'
  BY <1>2, <1>3, <1>6, <1>9 DEF Served, Unread, Live, Sent
<1>11. StatusInInv'
  BY <1>2, <1>5, <1>6, <1>9, <1>10 DEF StatusInInv, NoRx
<1>12. ServedInv' /\ CutInv'
  BY <1>2, <1>4, <1>5, <1>9, <1>10, <1>11 DEF ServedInv, CutInv, Cut
<1>13. Types' /\ CompleteInv'
  BY <1>1, <1>2, <1>6, <1>9 DEF Types, CompleteInv, SameBufs
<1>14. UnreadInv' /\ SetupInv'
  BY <1>2, <1>3, <1>6 DEF UnreadInv, SetupInv, Served, Unread
<1>15. ResetInv'
  <2>1. pc # "in"
    BY <1>2, <1>5 DEF StatusInInv, Sent
  <2> QED
    BY <1>1, <1>2, <1>4, <1>9, <2>1 DEF ResetInv, Live
<1>16. AddressInv'
  BY <1>1, <1>2, <1>5, <1>8, <1>9, <1>10 DEF AddressInv
<1>17. DoneInv'
  <2>1. ~Written(host.req) => host.got = <<>>
    BY <1>4, <1>5 DEF StatusInInv
  <2>2. host.req.in => host.got = Bytes(host.req.reply)
    <3> SUFFICES ASSUME host.req.in PROVE host.got = Bytes(host.req.reply)
      OBVIOUS
    <3>1. ~Written(host.req) /\ host.req.reply = 0
      BY <1>2, <1>t DEF Written
    <3> QED
      BY <2>1, <3>1, NoBytes
  <2>3. ~Refused(host.req) /\ (Written(host.req) => given = Bytes(host.req.wLength))
    BY <1>4, <1>5 DEF StatusInInv
  <2> QED
    BY <1>1, <1>2, <1>9, <2>2, <2>3 DEF DoneInv
<1> QED
  BY <1>12, <1>13, <1>14, <1>15, <1>16, <1>17 DEF ControlInv

(* A STALL comes where the device has given the transfer up.                 *)
LEMMA StalledKeeps == ControlInv /\ Stalled => ControlInv'
<1> SUFFICES ASSUME ControlInv, Stalled PROVE ControlInv'
  OBVIOUS
<1>1. /\ Types /\ UnreadInv /\ SetupInv /\ ResetInv /\ ServedInv /\ CutInv
      /\ CompleteInv /\ AddressInv /\ DoneInv
  BY DEF ControlInv
<1>2. /\ host.stage \in {"data", "status"} /\ ~reset /\ daddr = host.addr
      /\ IF NextIsIn THEN ep.tx = "STALL" ELSE ep.rx = "STALL"
      /\ Window \/ pc = "idle"
      /\ UNCHANGED <<ep, reset, daddr, pc, ctl, given, done>>
  BY DEF Stalled, OnBus
<1>3. Served /\ Live
  BY <1>1, <1>2 DEF Served, UnreadInv, SetupInv, Live
<1>4. ctl.req = host.req /\ host.req \in Requests
  BY <1>1, <1>3 DEF ServedInv, ResetInv
<1>t. /\ host.req.wLength \in Nat
  BY <1>4, RequestTypes
<1>5. ctl.state = "IDLE" /\ IdleInv
  <2>1. ctl.state \notin {"DATA_IN", "LAST_DATA_IN"}
    BY <1>1, <1>2, <1>3 DEF ServedInv, DataInInv
  <2>2. ctl.state # "STATUS_OUT"
    BY <1>1, <1>2, <1>3 DEF ServedInv, StatusOutInv
  <2>3. ctl.state \notin {"DATA_OUT", "LAST_DATA_OUT"}
    BY <1>1, <1>2, <1>3 DEF ServedInv, DataOutInv
  <2>4. ctl.state # "STATUS_IN"
    <3>1. StatusInInv /\ host.stage = "status" => NextIsIn
      BY <1>4, <1>t DEF StatusInInv, NextIsIn, Read
    <3> QED
      BY <1>1, <1>2, <1>3, <3>1 DEF ServedInv, StatusInInv
  <2> QED
    BY <1>1, <1>3, <2>1, <2>2, <2>3, <2>4 DEF ServedInv, Types, Control, States
<1>6. /\ host' \in HostState /\ host'.stage = "stalled" /\ host'.req = host.req
      /\ host'.got = host.got /\ host'.sent = host.sent /\ host'.addr = host.addr
      /\ (host'.well <=> host.well) /\ (host'.lost <=> host.lost)
  BY <1>1 DEF Stalled, Types, HostState, Stages
<1>7. IdleInv'
  BY <1>2, <1>5, <1>6 DEF IdleInv, NoTx, NoRx, Sent
<1>l. Live'
  BY <1>6 DEF Live
<1>8. ServedInv' /\ CutInv'
  BY <1>2, <1>4, <1>5, <1>6, <1>7, <1>l DEF ServedInv, CutInv, Cut
<1>9. Types' /\ CompleteInv'
  BY <1>1, <1>2, <1>6 DEF Types, CompleteInv
<1>10. UnreadInv' /\ SetupInv'
  BY <1>2, <1>3 DEF UnreadInv, SetupInv, Served, Unread
<1>11. ResetInv' /\ AddressInv'
  BY <1>1, <1>2, <1>3, <1>6 DEF ResetInv, AddressInv
<1>12. DoneInv'
  BY <1>1, <1>2, <1>4, <1>5, <1>6 DEF DoneInv, IdleInv
<1> QED
  BY <1>8, <1>9, <1>10, <1>11, <1>12 DEF ControlInv

LEMMA AbortKeeps == ControlInv /\ Abort => ControlInv'
<1> SUFFICES ASSUME ControlInv, Abort PROVE ControlInv'
  OBVIOUS
<1>1. /\ Types /\ UnreadInv /\ SetupInv /\ ResetInv /\ ServedInv /\ CutInv
      /\ CompleteInv /\ AddressInv /\ DoneInv
  BY DEF ControlInv
<1>2. /\ pc = "idle" /\ ~reset /\ ~ep.ctr_rx /\ ~ep.ctr_tx /\ daddr = host.addr
      /\ UNCHANGED <<ep, reset, daddr, pc, ctl, given, done>>
  BY DEF Abort, OnBus, Quiet
<1>3. /\ host' \in HostState /\ host'.stage = "idle" /\ host'.req = host.req
      /\ host'.got = host.got /\ host'.sent = host.sent /\ host'.addr = host.addr
      /\ (host'.well <=> host.well) /\ (host'.lost <=> host.lost)
  BY <1>1 DEF Abort, Types, HostState, Stages
<1>4. Types' /\ UnreadInv' /\ SetupInv' /\ CompleteInv'
  BY <1>1, <1>2, <1>3 DEF Types, UnreadInv, Unread, SetupInv, CompleteInv
<1>5. ResetInv' /\ ServedInv' /\ AddressInv' /\ DoneInv'
  BY <1>1, <1>2, <1>3 DEF ResetInv, Live, ServedInv, AddressInv, DoneInv
<1>6. CutInv'
  BY <1>2 DEF CutInv, Cut, NoRx, Sent
<1> QED
  BY <1>4, <1>5, <1>6 DEF ControlInv

-----------------------------------------------------------------------------
(* The callbacks *)

LEMMA NowIsDevice ==
    ASSUME Types
    PROVE  /\ Now \in Device /\ Now.ep = ep /\ Now.ctl = ctl
  BY DEF Types, Device, Now

LEMMA ControlSetupKeeps == ControlInv /\ ControlSetup => ControlInv'
<1> SUFFICES ASSUME ControlInv, ControlSetup PROVE ControlInv'
  OBVIOUS
<1>1. /\ Types /\ UnreadInv /\ SetupInv /\ ResetInv /\ ServedInv /\ CutInv
      /\ CompleteInv /\ AddressInv /\ DoneInv
  BY DEF ControlInv
<1>2. /\ pc = "setup" /\ pc' = "idle" /\ UNCHANGED <<reset, daddr, host, given, done>>
      /\ ep' = control_setup(Now).ep /\ ctl' = control_setup(Now).ctl
  BY DEF ControlSetup, Becomes
<1> DEFINE q == host.req
<1>3. /\ q \in Requests /\ ctl.req = q /\ given = None
      /\ ep.tx \notin {"VALID", "STALL"} /\ ep.rx # "STALL" /\ ~ep.ctr_tx
  BY <1>1, <1>2 DEF SetupInv
<1>t. q.wLength \in Nat /\ (q.set_address => q.wLength = 0)
  BY <1>3, RequestTypes
<1> DEFINE r == control_setup(Now)
<1>4. SetupDone(ep, q, r)
  <2>1. Now \in Device /\ Now.ep = ep /\ Now.ctl = ctl /\ Len(ep.tx_buf) <= MaxPacket
    BY <1>1, NowIsDevice DEF Types
  <2> QED
    BY <1>3, <2>1, SetupEffect
<1> HIDE DEF q, r
<1>5. r.ep = ep' /\ r.ctl = ctl'
  BY <1>2 DEF r
<1>6. /\ ep' \in Endpoint /\ ctl' \in Control /\ ctl'.req = q /\ ctl'.complete \in {None, q}
      /\ (ep'.ctr_tx <=> ep.ctr_tx) /\ (ep'.ctr_rx <=> ep.ctr_rx) /\ (ep'.setup <=> ep.setup)
      /\ ep'.rx_buf = ep.rx_buf /\ Len(ep'.tx_buf) <= MaxPacket
  BY <1>4, <1>5 DEF SetupDone, Device, SameFlags
<1>7. ~Unread /\ ~Unread'
  BY <1>1, <1>2, <1>6 DEF UnreadInv, Unread
<1>8. Types'
  BY <1>1, <1>2, <1>6 DEF Types
<1>9. UnreadInv' /\ SetupInv' /\ CompleteInv' /\ DoneInv'
  BY <1>1, <1>2, <1>6, <1>7 DEF UnreadInv, SetupInv, CompleteInv, DoneInv
<1>10. ResetInv'
  BY <1>1, <1>2, <1>3, <1>6 DEF ResetInv, Live, q
<1>11. AddressInv'
  <2>1. ~reset /\ host.req.set_address => host.stage # "done"
    BY <1>1, <1>2, <1>t DEF SetupInv, Written, Fresh, q
  <2>2. ~reset /\ host.stage # "detached" => daddr = host.addr \/ LateAddress
    BY <1>1, <1>2 DEF AddressInv, Served
  <2>3. host.stage = "done" /\ host.req.set_address => host.addr = 1
    BY <1>1 DEF AddressInv
  <2> QED
    BY <1>2, <2>2, <2>3 DEF AddressInv, LateAddress
<1>13. NoRx' <=> ~ep.ctr_rx
  BY <1>2, <1>6 DEF NoRx
<1>14. ~Sent'
  BY <1>2, <1>3, <1>6 DEF Sent
<1>w. ASSUME Written(q), q.wLength <= BufLen, ctl'.buf = <<>>,
             ctl'.state = IF q.wLength > MaxPacket THEN "DATA_OUT" ELSE "LAST_DATA_OUT"
      PROVE  WriteInv'
  <2>1. Continues(<<>>)
    BY <1>1, <1>2, <1>w DEF SetupInv, q
  <2>2. Pending' = Pending
    BY <1>2, <1>6 DEF Pending
  <2>3. Continues(<<>>)'
    BY <1>2, <1>6, <2>1, <2>2 DEF Continues
  <2>4. Len(ctl'.buf) = 0 /\ q.wLength > 0 /\ q.wLength - Len(ctl'.buf) = q.wLength
    BY <1>t, <1>w DEF Written
  <2> QED
    BY <1>2, <1>3, <1>6, <1>w, <2>3, <2>4 DEF WriteInv, q
<1>15. ASSUME Live' PROVE /\ ctl'.state = "IDLE" => IdleInv'
                          /\ ctl'.state \in {"DATA_IN", "LAST_DATA_IN"} => DataInInv'
                          /\ ctl'.state # "STATUS_OUT"
                          /\ ctl'.state \in {"DATA_OUT", "LAST_DATA_OUT"} => DataOutInv'
                          /\ ctl'.state = "STATUS_IN" => StatusInInv'
  <2>1. Live /\ ~reset
    BY <1>1, <1>2, <1>15 DEF Live, ResetInv
  <2>2. ~Written(q) => ~ep.ctr_rx /\ Fresh
    BY <1>1, <1>2, <2>1 DEF SetupInv, q
  <2>3. Written(q) => /\ host.stage = IF host.sent < q.wLength THEN "data" ELSE "status"
                      /\ Continues(<<>>)
                      /\ ~Window => ~ep.ctr_rx
    BY <1>1, <1>2, <2>1 DEF SetupInv, q
  <2>4. CASE /\ RefusedAtOnce(q)
             /\ ctl'.state = "IDLE" /\ ep'.tx = "STALL" /\ ep'.rx = "STALL"
    <3>1. Refused(q)
      BY <2>4 DEF RefusedAtOnce, Refused
    <3>2. ~Window => NoRx'
      BY <1>13, <2>2, <2>3
    <3> QED
      BY <1>6, <1>14, <2>4, <3>1, <3>2 DEF IdleInv, NoTx
  <2>5. CASE /\ Written(q) /\ q.wLength <= BufLen
             /\ ctl'.state = IF q.wLength > MaxPacket THEN "DATA_OUT" ELSE "LAST_DATA_OUT"
             /\ ctl'.buf = <<>> /\ ep'.tx = ep.tx /\ ep'.rx = "VALID"
    <3>3. WriteInv'
      BY <1>w, <2>5
    <3>4. NoTx'
      BY <1>3, <1>14, <2>5 DEF NoTx
    <3>5. DataOutInv'
      BY <1>2, <1>3, <1>6, <1>13, <2>3, <2>5, <3>3, <3>4 DEF DataOutInv, NoRx, q
    <3> QED
      BY <2>5, <3>5
  <2>6. CASE /\ ~Written(q) /\ ~Read(q) /\ q.handled
             /\ ctl'.state = "STATUS_IN" /\ ep'.tx = "VALID" /\ ep'.rx = "NAK"
    <3>1. ~Refused(q) /\ q.wLength = 0
      BY <1>t, <2>6 DEF Refused, Written, Read
    <3>2. host.stage = "status" /\ host.got = <<>>
      BY <2>2, <2>6, <3>1 DEF Fresh, q
    <3>3. StatusInInv'
      BY <1>2, <1>6, <1>13, <1>14, <2>2, <2>6, <3>1, <3>2 DEF StatusInInv
    <3> QED
      BY <2>6, <3>3
  <2>7. CASE Read(q) /\ q.handled /\ Answers(q, r) /\ ep'.tx = "VALID" /\ ep'.rx = "NAK"
    <3>1. ~Written(q) /\ q.wLength # 0
      BY <1>t, <2>7 DEF Read, Written
    <3>2. host.stage = "data" /\ host.got = <<>>
      BY <2>2, <3>1 DEF Fresh, q
    <3>3. /\ ctl'.state \in {"DATA_IN", "LAST_DATA_IN"}
          /\ ep'.tx_buf \o ctl'.buf = Bytes(q.reply)
          /\ ctl'.state = "DATA_IN" => Len(ep'.tx_buf) = MaxPacket
          /\ ctl'.state = "LAST_DATA_IN" => ctl'.buf = <<>>
          /\ ZlpDue(ctl')
      BY <1>5, <2>7 DEF Answers
    <3>4. Waiting' = ep'.tx_buf /\ <<>> \o ep'.tx_buf = ep'.tx_buf
      BY <1>6, <2>7, ConcatEmptySeq DEF Waiting, Endpoint, Packet
    <3>5. host'.got \o Waiting' \o ctl'.buf = Bytes(ctl'.req.reply)
      BY <1>2, <1>6, <3>2, <3>3, <3>4
    <3>6. DataInInv'
      BY <1>2, <1>6, <1>13, <1>14, <2>2, <2>7, <3>1, <3>2, <3>3, <3>5
      DEF DataInInv, ZlpDue
    <3> QED
      BY <3>3, <3>6
  <2> QED
    BY <1>4, <1>5, <2>4, <2>5, <2>6, <2>7 DEF SetupDone
<1>16. ServedInv'
  BY <1>2, <1>6, <1>15 DEF ServedInv, q
<1>17. CutInv'
  <2>1. ctl'.state \in {"DATA_OUT", "LAST_DATA_OUT"} => WriteInv'
    BY <1>4, <1>5, <1>w DEF SetupDone, Answers
  <2>2. ctl'.state \in {"DATA_IN", "LAST_DATA_IN"} => Read(q)
    BY <1>4, <1>5 DEF SetupDone
  <2>3. Read(q) => NoRx'
    BY <1>1, <1>2, <1>13 DEF SetupInv, Read, Written, q
  <2>4. ctl'.state # "STATUS_OUT"
    BY <1>4, <1>5 DEF SetupDone, Answers
  <2> QED
    BY <1>2, <1>6, <1>14, <2>1, <2>2, <2>3, <2>4 DEF CutInv, Cut, q
<1> QED
  BY <1>8, <1>9, <1>10, <1>11, <1>16, <1>17 DEF ControlInv

LEMMA ControlInKeeps == ControlInv /\ ControlIn => ControlInv'
<1> SUFFICES ASSUME ControlInv, ControlIn PROVE ControlInv'
  OBVIOUS
<1>1. /\ Types /\ UnreadInv /\ SetupInv /\ ResetInv /\ ServedInv /\ CutInv
      /\ CompleteInv /\ AddressInv /\ DoneInv
  BY DEF ControlInv
<1>2. /\ pc = "in" /\ pc' = "idle" /\ UNCHANGED <<reset, host, given>>
      /\ ep' = control_in(Now).ep /\ ctl' = control_in(Now).ctl
      /\ daddr' = IF ctl.state = "STATUS_IN" /\ ctl.req.set_address THEN 1 ELSE daddr
  BY DEF ControlIn, Becomes
<1>3. InDone([ ep |-> ep, ctl |-> ctl ], [ ep |-> ep', ctl |-> ctl' ])
  <2>1. Now \in Device
    BY <1>1, NowIsDevice
  <2>2. InDone(Now, control_in(Now))
    BY <2>1, InEffect
  <2>3. control_in(Now) \in Device
    BY <2>2 DEF InDone
  <2>4. control_in(Now) = [ ep |-> ep', ctl |-> ctl' ]
    BY <1>2, <2>3 DEF Device
  <2> QED
    BY <2>2, <2>4 DEF Now
<1>4. /\ ep' \in Endpoint /\ ctl' \in Control
      /\ ctl'.req = ctl.req /\ ctl'.complete = ctl.complete
      /\ (ep'.ctr_tx <=> ep.ctr_tx) /\ (ep'.ctr_rx <=> ep.ctr_rx) /\ (ep'.setup <=> ep.setup)
      /\ ep'.rx_buf = ep.rx_buf
  BY <1>3 DEF InDone, Device, SameFlags
<1>5. ~ep.ctr_tx /\ ~Sent'
  BY <1>1, <1>2, <1>4 DEF ResetInv, Sent
<1>6. Served /\ Sent /\ ~NoTx
  BY <1>1, <1>2 DEF Served, UnreadInv, Sent, NoTx
<1>7. Live => ctl.state \in {"DATA_IN", "LAST_DATA_IN", "STATUS_IN"} /\ ctl.req = host.req
  BY <1>1, <1>6
  DEF ServedInv, Types, Control, States, IdleInv, StatusOutInv, DataOutInv
<1>k. ~Live => Cut /\ ctl.req = host.req
  BY <1>1, <1>2, <1>6 DEF CutInv, Cut
<1>8. Live => ~reset
  BY <1>1 DEF ResetInv, Live
<1>9. ctl.state \in {"DATA_IN", "LAST_DATA_IN"} /\ Live => DataInInv /\ ep.tx # "VALID"
  BY <1>1, <1>6 DEF ServedInv, DataInInv
<1>10. ctl.state = "STATUS_IN" /\ Live => StatusInInv /\ host.stage = "done" /\ ep.tx # "VALID"
  BY <1>1, <1>6 DEF ServedInv, StatusInInv
<1>11. Types'
  <2>1. Len(ep'.tx_buf) <= MaxPacket
    BY <1>1, <1>3 DEF InDone, Types
  <2> QED
    BY <1>1, <1>2, <1>4, <2>1 DEF Types
<1>s. ctl'.state # "IDLE" => ctl.state # "IDLE"
  BY <1>3 DEF InDone
<1>12. UnreadInv' /\ SetupInv' /\ CompleteInv' /\ DoneInv'
  BY <1>1, <1>2, <1>4, <1>6
  DEF UnreadInv, Unread, Served, SetupInv, CompleteInv, DoneInv
<1>13. ResetInv'
  BY <1>1, <1>2, <1>4, <1>s DEF ResetInv, Live
<1>14. AddressInv'
  <2>1. ASSUME ~reset, host.stage # "detached", Live PROVE daddr' = host.addr
    <3>1. ~LateAddress
      BY <2>1 DEF LateAddress, Live
    <3> QED
      BY <1>1, <1>2, <1>7, <1>10, <2>1, <3>1 DEF AddressInv
  <2>2. ASSUME ~reset, host.stage # "detached", ~Live PROVE daddr' = host.addr \/ LateAddress
    <3>1. host.stage = "idle"
      BY <1>1, <2>2 DEF Types, HostState, Stages, Live
    <3>2. CASE ctl.state = "STATUS_IN" /\ ctl.req.set_address
      BY <1>1, <1>6, <1>k, <2>2, <3>1, <3>2 DEF CutInv, LateAddress
    <3>3. CASE ~(ctl.state = "STATUS_IN" /\ ctl.req.set_address)
      BY <1>1, <1>2, <2>2, <3>1, <3>3 DEF AddressInv
    <3> QED
      BY <3>2, <3>3
  <2> QED
    BY <1>1, <1>2, <2>1, <2>2 DEF AddressInv, LateAddress
<1>15. Live => NoRx'
  BY <1>2, <1>4, <1>7, <1>9, <1>10 DEF DataInInv, StatusInInv, NoRx
<1>16. ASSUME Live, ctl.state = "DATA_IN"
       PROVE  ctl'.state \in {"DATA_IN", "LAST_DATA_IN"} /\ DataInInv'
  <2>1. DataInInv /\ ep.tx # "VALID" /\ Waiting = <<>>
    BY <1>9, <1>16 DEF Waiting
  <2>2. ZlpDue(ctl)
    BY <2>1 DEF DataInInv, ZlpDue
  <2>3. /\ ep'.tx = "VALID" /\ ep'.rx = ep.rx /\ ctl'.state \in {"DATA_IN", "LAST_DATA_IN"}
        /\ ctl'.state = "LAST_DATA_IN" => ctl'.buf = <<>>
        /\ ep'.tx_buf \o ctl'.buf = ctl.buf
        /\ ctl'.state = "DATA_IN" => Len(ep'.tx_buf) = MaxPacket
        /\ ZlpDue(ctl')
    BY <1>3, <1>16, <2>1, <2>2 DEF InDone
  <2>4. host.stage = "data" => host.got \o Waiting' \o ctl'.buf = Bytes(ctl.req.reply)
    <3>1. /\ host.got \in Packet /\ ep'.tx_buf \in Packet /\ ctl'.buf \in Packet
      BY <1>1, <1>4 DEF Types, Endpoint, Control, HostState
    <3>2. host.got \o ep'.tx_buf \o ctl'.buf = host.got \o (ep'.tx_buf \o ctl'.buf)
      BY <3>1, Regrouped
    <3>3. host.got \o <<>> = host.got
      BY <3>1, ConcatEmptySeq DEF Packet
    <3>4. Waiting' = ep'.tx_buf
      BY <2>3 DEF Waiting
    <3> QED
      BY <2>1, <2>3, <3>2, <3>3, <3>4 DEF DataInInv
  <2>5. DataInInv'
    BY <1>2, <1>4, <1>5, <1>15, <1>16, <2>1, <2>3, <2>4 DEF DataInInv, ZlpDue
  <2> QED
    BY <2>3, <2>5
<1>17. ASSUME Live, ctl.state = "LAST_DATA_IN" PROVE ctl'.state = "STATUS_OUT" /\ StatusOutInv'
  <2>1. DataInInv /\ ep.tx # "VALID" /\ Waiting = <<>> /\ ctl.buf = <<>>
    BY <1>9, <1>17 DEF Waiting, DataInInv
  <2>2. ctl'.state = "STATUS_OUT" /\ ep'.tx = ep.tx /\ ep'.rx = "VALID"
    BY <1>3, <1>17 DEF InDone
  <2>3. host.got = Bytes(ctl.req.reply)
    <3>1. host.got \o <<>> \o <<>> = host.got
      BY <1>1, ConcatEmptySeq DEF Types, HostState, Packet
    <3> QED
      BY <2>1, <3>1 DEF DataInInv
  <2>4. StatusOutInv'
    BY <1>2, <1>4, <1>5, <1>15, <1>17, <2>1, <2>2, <2>3 DEF StatusOutInv, DataInInv, NoTx
  <2> QED
    BY <2>2, <2>4
<1>18. ASSUME Live, ctl.state = "STATUS_IN" PROVE ctl'.state = "IDLE" /\ IdleInv'
  <2>1. ctl'.state = "IDLE" /\ ep' = ep
    BY <1>3, <1>18 DEF InDone
  <2> QED
    BY <1>2, <1>5, <1>10, <1>15, <1>18, <2>1 DEF IdleInv, NoTx
<1>19. ServedInv'
  <2>1. Live' => Live
    BY <1>2 DEF Live
  <2> QED
    BY <1>2, <1>4, <1>7, <1>16, <1>17, <1>18, <2>1 DEF ServedInv
<1>20. CutInv'
  <2> SUFFICES ASSUME ~Live PROVE CutInv'
    BY <1>2 DEF CutInv, Cut, Live
  <2>1. /\ ctl'.state \in {"DATA_IN", "LAST_DATA_IN"} => ctl.state = "DATA_IN"
        /\ ctl'.state \in {"IDLE", "DATA_IN", "LAST_DATA_IN", "STATUS_OUT"}
        /\ ctl'.state = "STATUS_OUT" => ctl.state = "LAST_DATA_IN"
    BY <1>3 DEF InDone
  <2>2. NoRx' <=> NoRx
    BY <1>2, <1>4 DEF NoRx
  <2> QED
    BY <1>1, <1>2, <1>4, <1>5, <1>k, <2>1, <2>2 DEF CutInv, Cut
<1> QED
  BY <1>11, <1>12, <1>13, <1>14, <1>19, <1>20 DEF ControlInv

(* What a packet of a write holds is what the host sent, in full, if it is   *)
(* as long as the device expects: a packet that was lost shows in the length *)
(* of the last one.                                                          *)
LEMMA WholePacket ==
    ASSUME Types, ctl.req \in Requests, pc = "out", ep.rx_buf \in Packet, WriteInv,
           Received(Now)
    PROVE  /\ ep.rx # "VALID" /\ Data(Now) = ep.rx_buf
           /\ Len(ep.rx_buf) = Least(MaxPacket, ctl.req.wLength - Len(ctl.buf))
           /\ ctl.state = "LAST_DATA_OUT" =>
                /\ ctl.buf \o ep.rx_buf = Bytes(ctl.req.wLength)
                /\ host.sent = ctl.req.wLength
<1> DEFINE wLength == ctl.req.wLength
           stored  == Len(ctl.buf)
           came    == Len(ep.rx_buf)
           size    == ChunkSize(Now)
<1>1. Now \in Device /\ Now.ep = ep /\ Now.ctl = ctl
  BY NowIsDevice
<1>2. /\ ctl.buf \in Packet /\ stored \in Nat /\ came \in Nat /\ wLength \in Nat
      /\ MaxPacket \in Nat \ {0} /\ host.sent \in Nat /\ wLength > stored
  <2>1. ctl.buf \in Packet /\ host.sent \in Nat
    BY DEF Types, Control, HostState
  <2> QED
    BY <2>1, RequestTypes, ControlAssumption DEF WriteInv, Packet
<1>3. size = Least(MaxPacket, wLength - stored)
  BY <1>1 DEF ChunkSize
<1>4. size \in Nat \ {0} /\ size <= MaxPacket /\ size <= wLength - stored
  BY <1>2, <1>3 DEF Least
<1>5. Len(Data(Now)) = size
  BY DEF Received, Data
<1>6. ep.rx # "VALID"
  <2> SUFFICES ASSUME ep.rx = "VALID" PROVE FALSE
    OBVIOUS
  <2>1. Data(Now) = <<>>
    BY <1>1 DEF Data, read_packet_data
  <2>2. Len(<<>>) = 0
    OBVIOUS
  <2>3. size = 0
    BY <1>5, <2>1, <2>2, Zenon
  <2> HIDE DEF size
  <2> QED
    BY <1>4, <2>3
<1>7. Data(Now) = SubSeq(ep.rx_buf, 1, Least(size, came))
  BY <1>1, <1>6, DataIsPacket
<1>8. /\ Pending = ep.rx_buf /\ came <= MaxPacket /\ host.sent <= wLength
      /\ \/ ctl.buf \o ep.rx_buf = Bytes(host.sent)
         \/ Window /\ stored + came < host.sent
  <2>1. Pending = ep.rx_buf
    BY DEF Pending
  <2>2. host.req = ctl.req /\ Continues(ctl.buf)
    BY DEF WriteInv
  <2> QED
    BY <2>1, <2>2 DEF Continues
<1>9. ctl.buf \o ep.rx_buf = Bytes(host.sent) => stored + came = host.sent
  <2>1. Len(ctl.buf \o ep.rx_buf) = stored + came
    BY <1>2, Joined
  <2>2. Len(Bytes(host.sent)) = host.sent
    BY <1>2, BytesAreData
  <2> QED
    BY <2>1, <2>2
<1>10. ctl.state = "LAST_DATA_OUT" => wLength - stored <= MaxPacket
  BY <1>2 DEF WriteInv
<1>11. ctl.state = "DATA_OUT" => wLength - stored > MaxPacket
  BY DEF WriteInv
<1>f. SubSeq(ep.rx_buf, 1, came) = ep.rx_buf
  BY SubSeqFull DEF Packet
<1> DEFINE n == Least(size, came)
<1> HIDE DEF stored, came, size, wLength, n
<1>n. n \in Nat /\ n <= came /\ n <= size /\ (n = size \/ n = came)
  BY <1>2, <1>4 DEF n, Least
<1>12. n = size
  <2>1. Len(SubSeq(ep.rx_buf, 1, n)) = n
    BY <1>n DEF Packet, came
  <2> QED
    BY <1>5, <1>7, <2>1 DEF n
<1>13. size <= came
  BY <1>n, <1>12
<1>14. came = size
  <2>1. CASE size = MaxPacket
    BY <1>2, <1>4, <1>8, <1>13, <2>1
  <2>2. CASE size = wLength - stored
    <3>1. stored + came = host.sent \/ stored + came < host.sent
      BY <1>8, <1>9, Zenon
    <3>2. host.sent <= wLength
      BY <1>8
    <3> QED
      BY <1>2, <1>4, <1>13, <2>2, <3>1, <3>2
  <2>3. size = MaxPacket \/ size = wLength - stored
    BY <1>3, Zenon DEF Least
  <2> QED
    BY <2>1, <2>2, <2>3
<1>15. Data(Now) = ep.rx_buf
  BY <1>7, <1>12, <1>14, <1>f DEF n
<1>16. ASSUME ctl.state = "LAST_DATA_OUT"
       PROVE  ctl.buf \o ep.rx_buf = Bytes(wLength) /\ host.sent = wLength
  <2>1. size = wLength - stored
    BY <1>2, <1>3, <1>10, <1>16 DEF Least
  <2>2. stored + came = wLength
    BY <1>2, <1>4, <1>14, <2>1
  <2>3. host.sent <= wLength
    BY <1>8
  <2>4. ~(stored + came < host.sent)
    BY <1>2, <2>2, <2>3
  <2>5. ctl.buf \o ep.rx_buf = Bytes(host.sent)
    BY <1>8, <2>4, Zenon
  <2> QED
    BY <1>9, <2>2, <2>5
<1> QED
  BY <1>3, <1>6, <1>14, <1>15, <1>16 DEF came, stored, wLength

(* Without tokens in between, every packet of a write is as long as the      *)
(* device expects.                                                           *)
LEMMA PacketsFit ==
    ASSUME Types, ctl.req \in Requests, pc = "out", ep.rx_buf \in Packet, DataOutInv,
           ~Window
    PROVE  Received(Now)
<1> DEFINE wLength == ctl.req.wLength
           stored  == Len(ctl.buf)
           came    == Len(ep.rx_buf)
           size    == ChunkSize(Now)
<1>1. Now \in Device /\ Now.ep = ep /\ Now.ctl = ctl
  BY NowIsDevice
<1>2. /\ ctl.buf \in Packet /\ stored \in Nat /\ came \in Nat /\ wLength \in Nat
      /\ MaxPacket \in Nat \ {0} /\ host.sent \in Nat /\ wLength > stored
  <2>1. ctl.buf \in Packet /\ host.sent \in Nat
    BY DEF Types, Control, HostState
  <2> QED
    BY <2>1, RequestTypes, ControlAssumption DEF DataOutInv, WriteInv, Packet
<1>3. size = Least(MaxPacket, wLength - stored)
  BY <1>1 DEF ChunkSize
<1>4. ep.rx # "VALID" /\ ep.ctr_rx
  BY DEF DataOutInv
<1>5. Data(Now) = SubSeq(ep.rx_buf, 1, Least(size, came))
  BY <1>1, <1>4, DataIsPacket
<1>6. /\ host.sent <= wLength /\ ctl.buf \o ep.rx_buf = Bytes(host.sent)
      /\ host.sent < wLength => came = MaxPacket
  <2>1. Pending = ep.rx_buf
    BY DEF Pending
  <2>2. host.req = ctl.req /\ Continues(ctl.buf)
    BY DEF DataOutInv, WriteInv
  <2> QED
    BY <2>1, <2>2 DEF Continues
<1>7. stored + came = host.sent
  <2>1. Len(ctl.buf \o ep.rx_buf) = stored + came
    BY <1>2, Joined
  <2>2. Len(Bytes(host.sent)) = host.sent
    BY <1>2, BytesAreData
  <2> QED
    BY <1>6, <2>1, <2>2
<1> HIDE DEF stored, came, size, wLength
<1>8. size \in Nat /\ size <= came
  BY <1>2, <1>3, <1>6, <1>7 DEF Least
<1>9. Least(size, came) = size
  BY <1>2, <1>8 DEF Least
<1>10. Len(SubSeq(ep.rx_buf, 1, size)) = size
  BY <1>8 DEF came, Packet
<1> QED
  BY <1>5, <1>9, <1>10 DEF Received, Data, size

LEMMA OutReaches ==
    ASSUME ControlInv, ControlOut
    PROVE  /\ ep.rx_buf \in Packet /\ (ctl.state # "IDLE" => ctl.req \in Requests) /\ Served
           /\ ep' \in Endpoint /\ Len(ep'.tx_buf) <= MaxPacket /\ ep'.rx_buf = ep.rx_buf
           /\ ctl' \in Control /\ ctl'.req = ctl.req
           /\ ctl'.complete \in {None, ctl.complete, ctl.req}
           /\ (ep'.ctr_tx <=> ep.ctr_tx) /\ (ep'.setup <=> ep.setup) /\ (ep'.ctr_rx => ep.ctr_rx)
           /\ LET r == [ ep |-> ep', ctl |-> ctl' ] IN
              Stored(Now, r) \/ Handled(Now, r) \/ Ended(Now, r) \/ GivenUp(Now, r)
<1>1. /\ Types /\ UnreadInv /\ ResetInv /\ ServedInv
  BY DEF ControlInv
<1>2. pc = "out" /\ ep' = control_out(Now).ep /\ ctl' = control_out(Now).ctl
  BY DEF ControlOut, Becomes
<1>3. ep.rx_buf \in Packet /\ (ctl.state # "IDLE" => ctl.req \in Requests) /\ Served
  BY <1>1, <1>2 DEF Types, Endpoint, ResetInv, UnreadInv, Served
<1>4. Now \in Device /\ Now.ep = ep /\ Now.ctl = ctl
  BY <1>1, NowIsDevice
<1> DEFINE r == control_out(Now)
<1>5. OutDone(Now, r)
  BY <1>3, <1>4, OutEffect
<1>6. r \in Device /\ r.ep = ep' /\ r.ctl = ctl'
  BY <1>2, <1>5 DEF OutDone
<1> HIDE DEF r
<1>7. r = [ ep |-> ep', ctl |-> ctl' ]
  BY <1>6 DEF Device
<1>8. Stored(Now, r) \/ Handled(Now, r) \/ Ended(Now, r) \/ GivenUp(Now, r)
  BY <1>5 DEF OutDone
<1>9. /\ ep' \in Endpoint /\ ctl' \in Control /\ ctl'.req = ctl.req
      /\ ctl'.complete \in {None, ctl.complete, ctl.req}
  BY <1>4, <1>5, <1>6 DEF OutDone, Device
<1> DEFINE f == ep_read_packet(ep)
<1>10. ep \in Endpoint /\ Len(ep.tx_buf) <= MaxPacket
  BY <1>1 DEF Types
<1>11. /\ f \in Endpoint /\ SameBufs(ep, f) /\ (f.ctr_tx <=> ep.ctr_tx)
       /\ (f.setup <=> ep.setup) /\ (f.ctr_rx => ep.ctr_rx)
  BY <1>10, ReadPacket
<1> HIDE DEF f
<1>12. /\ Len(ep'.tx_buf) <= MaxPacket /\ ep'.rx_buf = ep.rx_buf
       /\ (ep'.ctr_tx <=> ep.ctr_tx) /\ (ep'.setup <=> ep.setup) /\ (ep'.ctr_rx => ep.ctr_rx)
  <2>1. CASE ep' = f
    BY <1>10, <1>11, <2>1 DEF SameBufs
  <2>2. CASE ep' = ep_write_packet(f, <<>>)
    <3>1. <<>> \in Packet /\ Len(<<>>) = 0 /\ MaxPacket \in Nat
      BY ControlAssumption DEF Packet
    <3>2. /\ SameFlags(f, ep') /\ ep'.tx_buf \in {f.tx_buf, <<>>} /\ ep'.rx_buf = f.rx_buf
      BY <1>11, <2>2, <3>1, WritePacket
    <3> QED
      BY <1>10, <1>11, <3>1, <3>2 DEF SameBufs, SameFlags
  <2>3. CASE Stalls(Now, r)
    BY <1>4, <1>6, <1>10, <2>3 DEF Stalls, SameBufs
  <2> QED
    BY <1>4, <1>6, <1>8, <2>1, <2>2, <2>3 DEF Stored, Handled, Ended, GivenUp, f
<1> QED
  BY <1>3, <1>7, <1>8, <1>9, <1>12

(* The handler of a write is given what the host has sent.                   *)
LEMMA GivenIsWhole ==
    ASSUME ControlInv, ControlOut
    PROVE  /\ Dispatches(Now) /\ ~host.lost =>
                /\ WriteInv /\ Received(Now)
                /\ host.sent = ctl.req.wLength
                /\ given' = Bytes(ctl.req.wLength)
           /\ ~Dispatches(Now) => given' = given
<1>1. /\ Types /\ ServedInv /\ CutInv
  BY DEF ControlInv
<1>2. /\ ep.rx_buf \in Packet /\ (ctl.state # "IDLE" => ctl.req \in Requests) /\ Served
  BY OutReaches
<1>3. pc = "out" /\ given' = IF Dispatches(Now) THEN recv_chunk(Now).ctl.buf ELSE given
  BY DEF ControlOut
<1>4. Now \in Device /\ Now.ep = ep /\ Now.ctl = ctl
  BY <1>1, NowIsDevice
<1>5. ASSUME Dispatches(Now), ~host.lost
      PROVE  /\ WriteInv /\ Received(Now)
             /\ host.sent = ctl.req.wLength
             /\ given' = Bytes(ctl.req.wLength)
  <2>1. ctl.state = "LAST_DATA_OUT" /\ Received(Now) /\ ctl.req \in Requests
    BY <1>2, <1>4, <1>5 DEF Dispatches
  <2>2. WriteInv
    <3>1. Live => WriteInv
      BY <1>1, <1>2, <2>1 DEF ServedInv, DataOutInv
    <3>2. ~Live => WriteInv
      BY <1>1, <1>3, <1>5, <2>1 DEF CutInv, Cut, NoRx
    <3> QED
      BY <3>1, <3>2
  <2>3. /\ Data(Now) = ep.rx_buf /\ host.sent = ctl.req.wLength
        /\ ctl.buf \o ep.rx_buf = Bytes(ctl.req.wLength)
    BY <1>1, <1>2, <1>3, <2>1, <2>2, WholePacket
  <2>4. recv_chunk(Now).ctl.buf = ctl.buf \o Data(Now)
    BY <1>2, <1>4, <2>1, RecvEffect
  <2> QED
    BY <1>3, <1>5, <2>1, <2>2, <2>3, <2>4
<1> QED
  BY <1>3, <1>5

LEMMA ControlOutKeeps == ControlInv /\ ControlOut => ControlInv'
<1> SUFFICES ASSUME ControlInv, ControlOut PROVE ControlInv'
  OBVIOUS
<1>1. /\ Types /\ UnreadInv /\ SetupInv /\ ResetInv /\ ServedInv /\ CutInv
      /\ CompleteInv /\ AddressInv /\ DoneInv
  BY DEF ControlInv
<1>2. pc = "out" /\ pc' = "idle" /\ UNCHANGED <<reset, daddr, host>>
  BY DEF ControlOut
<1> DEFINE r == [ ep |-> ep', ctl |-> ctl' ]
<1>3. /\ ep.rx_buf \in Packet /\ (ctl.state # "IDLE" => ctl.req \in Requests) /\ Served
      /\ ep' \in Endpoint /\ Len(ep'.tx_buf) <= MaxPacket /\ ep'.rx_buf = ep.rx_buf
      /\ ctl' \in Control /\ ctl'.req = ctl.req
      /\ ctl'.complete \in {None, ctl.complete, ctl.req}
      /\ (ep'.ctr_tx <=> ep.ctr_tx) /\ (ep'.setup <=> ep.setup) /\ (ep'.ctr_rx => ep.ctr_rx)
  BY OutReaches
<1>4. Stored(Now, r) \/ Handled(Now, r) \/ Ended(Now, r) \/ GivenUp(Now, r)
  BY OutReaches
<1>r. r.ep = ep' /\ r.ctl = ctl'
  OBVIOUS
<1> HIDE DEF r
<1>5. Now.ep = ep /\ Now.ctl = ctl /\ ep \in Endpoint
  BY <1>1, NowIsDevice DEF Types
<1>6. /\ Dispatches(Now) /\ ~host.lost =>
           /\ WriteInv /\ Received(Now)
           /\ host.sent = ctl.req.wLength
           /\ given' = Bytes(ctl.req.wLength)
      /\ ~Dispatches(Now) => given' = given
  BY GivenIsWhole
<1>7. Live => ~reset /\ ctl.req = host.req /\ ctl.req \in Requests /\ ~host.lost
  BY <1>1, <1>3 DEF ServedInv, ResetInv, Live
<1>8. Types' /\ CompleteInv'
  BY <1>1, <1>2, <1>3 DEF Types, CompleteInv
<1>s. ctl'.state # "IDLE" => ctl.state \in {"DATA_OUT", "LAST_DATA_OUT"}
  BY <1>4, <1>5, <1>r DEF Stored, Handled, Ended, GivenUp, Stalls, Dispatches
<1>9. UnreadInv' /\ SetupInv' /\ ResetInv'
  <2>1. ctl'.state # "IDLE" => ctl'.req \in Requests
    BY <1>3, <1>s
  <2> QED
    BY <1>1, <1>2, <1>3, <2>1 DEF UnreadInv, Unread, Served, SetupInv, ResetInv, Live
<1>10. AddressInv'
  <2>1. ASSUME ~reset, host.stage # "detached" PROVE daddr = host.addr \/ LateAddress
    <3>1. host.stage = "done" /\ ctl.state = "STATUS_IN" => NoRx
      BY <1>1, <1>3 DEF ServedInv, StatusInInv, Live
    <3> QED
      BY <1>1, <1>2, <2>1, <3>1 DEF AddressInv, NoRx
  <2> QED
    BY <1>1, <1>2, <2>1 DEF AddressInv, LateAddress
<1>11. DoneInv'
  <2>1. given' # None /\ ~host.lost => given' = Bytes(host.req.wLength)
    BY <1>1, <1>6 DEF DoneInv, WriteInv
  <2>2. given = Bytes(host.req.wLength) /\ ~host.lost => given' = Bytes(host.req.wLength)
    BY <1>6 DEF WriteInv
  <2>3. host.stage = "done" => ~host.lost
    BY <1>7 DEF Live
  <2> QED
    BY <1>1, <1>2, <2>1, <2>2, <2>3 DEF DoneInv
<1>12. Live => /\ ctl.state \notin {"DATA_IN", "LAST_DATA_IN", "STATUS_IN"}
               /\ ctl.state = "IDLE" => IdleInv /\ Window
               /\ ctl.state = "STATUS_OUT" => StatusOutInv
               /\ ctl.state \in {"DATA_OUT", "LAST_DATA_OUT"} => DataOutInv
  <2>1. ~NoRx
    BY <1>2 DEF NoRx
  <2> QED
    BY <1>1, <1>3, <2>1 DEF ServedInv, DataInInv, StatusInInv, IdleInv
<1>13. ASSUME Live, Stored(Now, r)
       PROVE  ctl'.state \in {"DATA_OUT", "LAST_DATA_OUT"} /\ DataOutInv'
  <2>1. /\ ctl.state = "DATA_OUT" /\ Received(Now) /\ DataOutInv
        /\ ep' = ep_read_packet(ep) /\ ctl'.buf = ctl.buf \o Data(Now)
        /\ ctl'.state = IF ctl'.req.wLength - Len(ctl'.buf) <= MaxPacket
                        THEN "LAST_DATA_OUT" ELSE "DATA_OUT"
    BY <1>5, <1>r, <1>12, <1>13 DEF Stored, Left
  <2>w. WriteInv
    BY <2>1 DEF DataOutInv
  <2>2. /\ ep.rx # "VALID" /\ Data(Now) = ep.rx_buf
        /\ Len(ep.rx_buf) = Least(MaxPacket, ctl.req.wLength - Len(ctl.buf))
    BY <1>1, <1>2, <1>3, <2>1, <2>w, WholePacket
  <2>3. ctl.req.wLength \in Nat /\ MaxPacket \in Nat \ {0} /\ ctl.buf \in Packet
        /\ Len(ctl.buf) \in Nat /\ Len(ep.rx_buf) \in Nat
    <3>1. ctl.buf \in Packet
      BY <1>1 DEF Types, Control
    <3> QED
      BY <1>7, <1>13, <3>1, RequestTypes, ControlAssumption DEF Packet
  <2>4. ctl.req.wLength - Len(ctl.buf) > MaxPacket
    BY <2>1, <2>w DEF WriteInv
  <2>5. Len(ep.rx_buf) = MaxPacket
    BY <2>2, <2>3, <2>4 DEF Least
  <2>6. ctl'.buf = ctl.buf \o ep.rx_buf /\ ctl'.buf \in Packet
        /\ Len(ctl'.buf) = Len(ctl.buf) + Len(ep.rx_buf)
    <3>1. ctl'.buf = ctl.buf \o ep.rx_buf
      BY <2>1, <2>2
    <3>2. /\ ctl.buf \o ep.rx_buf \in Packet
          /\ Len(ctl.buf \o ep.rx_buf) = Len(ctl.buf) + Len(ep.rx_buf)
      BY <1>3, <2>3, Joined
    <3> QED
      BY <3>1, <3>2
  <2>7. Len(ctl'.buf) < ctl.req.wLength /\ Len(ctl'.buf) \in Nat
    BY <2>3, <2>4, <2>5, <2>6
  <2>8. /\ ep'.tx = ep.tx /\ ~ep'.ctr_rx /\ (ep.rx # "STALL" => ep'.rx # "STALL")
    BY <1>5, <2>1, <2>2, ReadPacket
  <2>9. Pending = ep.rx_buf /\ Pending' = <<>>
    BY <1>2, <2>8 DEF Pending
  <2>10. <<>> \in Packet /\ Len(<<>>) = 0 /\ ctl'.buf \o <<>> = ctl'.buf
    BY <2>6, ConcatEmptySeq DEF Packet
  <2>11. Len(ctl'.buf) + Len(<<>>) = Len(ctl.buf) + Len(ep.rx_buf)
    BY <2>3, <2>6, <2>10
  <2>12. Continues(ctl.buf)'
    <3>1. Continues(ctl.buf)
      BY <2>w DEF WriteInv
    <3>2. \/ ctl'.buf \o <<>> = Bytes(host.sent)
          \/ Window /\ Len(ctl'.buf) + Len(<<>>) < host.sent
      BY <2>6, <2>9, <2>10, <2>11, <3>1 DEF Continues
    <3>3. Len(<<>>) <= MaxPacket
      BY <2>3, <2>10
    <3> QED
      BY <1>2, <2>8, <2>9, <2>10, <3>1, <3>2, <3>3 DEF Continues
  <2>13. ~Dispatches(Now)
    BY <1>5, <2>1 DEF Dispatches
  <2>14. NoTx'
    BY <1>2, <1>3, <2>1, <2>8 DEF DataOutInv, NoTx, Sent
  <2>15. ctl'.state = "DATA_OUT" <=> ctl'.req.wLength - Len(ctl'.buf) > MaxPacket
    <3>1. ctl'.req.wLength - Len(ctl'.buf) \in Int
      BY <1>3, <2>3, <2>7
    <3> QED
      BY <2>1, <2>3, <3>1
  <2>16. DataOutInv'
    BY <1>2, <1>3, <1>6, <2>1, <2>7, <2>8, <2>12, <2>13, <2>14, <2>15 DEF DataOutInv, WriteInv
  <2> QED
    BY <2>1, <2>16
<1>14. ASSUME Live, Handled(Now, r) PROVE ctl'.state = "STATUS_IN" /\ StatusInInv'
  <2>1. /\ Dispatches(Now) /\ ctl.req.handled /\ ctl'.state = "STATUS_IN"
        /\ ep' = ep_write_packet(ep_read_packet(ep), <<>>)
    BY <1>5, <1>r, <1>14 DEF Handled
  <2>2. /\ WriteInv /\ Received(Now) /\ host.sent = ctl.req.wLength
        /\ given' = Bytes(ctl.req.wLength)
    BY <1>6, <1>7, <1>14, <2>1
  <2>d. DataOutInv
    BY <1>5, <1>12, <1>14, <2>1 DEF Dispatches
  <2>3. ep.rx # "VALID"
    BY <1>1, <1>2, <1>3, <1>7, <1>14, <2>2, WholePacket
  <2> DEFINE f == ep_read_packet(ep)
  <2>4. f \in Endpoint /\ ~f.ctr_rx
    BY <1>5, <2>3, ReadPacket
  <2>5. <<>> \in Packet
    BY DEF Packet
  <2>6. ep'.tx = "VALID" /\ ~ep'.ctr_rx
    <3> HIDE DEF f
    <3>1. ep' = ep_write_packet(f, <<>>)
      BY <2>1 DEF f
    <3> QED
      BY <2>4, <2>5, <3>1, WritePacket DEF SameFlags
  <2>7. ctl.req.wLength \in Nat /\ ~(ctl.req.wLength < ctl.req.wLength)
    BY <1>7, <1>14, RequestTypes
  <2>8. Written(ctl.req) /\ ~Refused(ctl.req) /\ ~Read(ctl.req)
    <3>1. ~(ctl.req.wLength > BufLen)
      BY <2>2, <2>7, ControlAssumption DEF WriteInv
    <3> QED
      BY <2>1, <2>2, <3>1 DEF WriteInv, Written, Refused, Read
  <2>9. host.stage = "status"
    BY <1>7, <1>14, <2>2, <2>7, <2>d DEF DataOutInv
  <2>10. ~Sent' /\ NoRx'
    BY <1>2, <1>3, <2>d, <2>6 DEF DataOutInv, NoTx, NoRx, Sent
  <2> QED
    BY <1>2, <1>3, <2>1, <2>2, <2>6, <2>8, <2>9, <2>10 DEF StatusInInv
<1>15. ASSUME Live, Ended(Now, r) PROVE ctl'.state = "IDLE" /\ IdleInv'
  <2>1. ctl.state = "STATUS_OUT" /\ ctl'.state = "IDLE" /\ ep' = ep_read_packet(ep)
    BY <1>5, <1>r, <1>15 DEF Ended
  <2>2. StatusOutInv /\ host.stage = "done" /\ ep.rx # "VALID"
    BY <1>2, <1>12, <1>15, <2>1 DEF StatusOutInv, NoRx
  <2>3. ep'.tx = ep.tx /\ ~ep'.ctr_rx
    BY <1>5, <2>1, <2>2, ReadPacket
  <2> QED
    BY <1>2, <1>3, <2>1, <2>2, <2>3 DEF StatusOutInv, IdleInv, NoTx, NoRx, Sent
<1>16. ASSUME Live, GivenUp(Now, r) PROVE ctl'.state = "IDLE" /\ IdleInv'
  <2>1. /\ ctl'.state = "IDLE" /\ ep'.tx = "STALL" /\ ep'.rx = "STALL"
        /\ ctl.state # "STATUS_OUT"
        /\ Storing(Now) => Dispatches(Now) /\ ~ctl.req.handled
        /\ ctl.state \in {"DATA_OUT", "LAST_DATA_OUT"} => (ep.rx # "VALID" => ~ep'.ctr_rx)
    BY <1>5, <1>r, <1>16 DEF GivenUp, Stalls, Reads
  <2>2. ~ep.ctr_tx
    BY <1>1, <1>3, <1>12, <1>16, <2>1
    DEF Types, Control, States, IdleInv, DataOutInv, NoTx, Sent
  <2>3. NoTx'
    BY <1>2, <1>3, <2>1, <2>2 DEF NoTx, Sent
  <2>4. ~Window => Refused(ctl.req) /\ ~ep'.ctr_rx
    <3> SUFFICES ASSUME ~Window PROVE Refused(ctl.req) /\ ~ep'.ctr_rx
      OBVIOUS
    <3>1. ctl.state \in {"DATA_OUT", "LAST_DATA_OUT"} /\ DataOutInv
      BY <1>1, <1>12, <1>16, <2>1 DEF Types, Control, States
    <3>2. Received(Now)
      BY <1>1, <1>2, <1>3, <1>7, <1>16, <3>1, PacketsFit
    <3>3. ep.rx # "VALID"
      BY <1>1, <1>2, <1>3, <1>7, <1>16, <3>1, <3>2, WholePacket DEF DataOutInv
    <3>4. ~ctl.req.handled
      BY <1>5, <2>1, <3>1, <3>2 DEF Storing
    <3> QED
      BY <2>1, <3>1, <3>3, <3>4 DEF Refused
  <2> QED
    BY <1>2, <1>3, <2>1, <2>3, <2>4 DEF IdleInv, NoRx
<1>17. ServedInv'
  <2>1. Live' => Live
    BY <1>2 DEF Live
  <2> QED
    BY <1>2, <1>3, <1>4, <1>7, <1>13, <1>14, <1>15, <1>16, <2>1 DEF ServedInv
<1>18. CutInv'
  <2> SUFFICES ASSUME ~Live PROVE CutInv'
    BY <1>2 DEF CutInv, Cut, Live
  <2>1. CASE host.lost
    BY <1>1, <1>2, <1>3, <2>1 DEF CutInv, Cut, Sent
  <2>2. CASE ~host.lost
    <3>1. Cut /\ ~NoRx
      BY <1>2, <2>2 DEF Cut, NoRx
    <3>2. /\ ctl.req = host.req
          /\ ctl.state \in {"DATA_OUT", "LAST_DATA_OUT"} => ~Sent /\ WriteInv
      BY <1>1, <3>1 DEF CutInv
    <3>3. ctl'.state # "IDLE" => ~Sent'
      BY <1>2, <1>3, <1>s, <3>2 DEF Sent
    <3>4. ctl'.state # "IDLE" => NoRx'
      <4> SUFFICES ASSUME ctl'.state # "IDLE" PROVE ~ep'.ctr_rx
        BY <1>2 DEF NoRx
      <4>1. Received(Now) /\ ctl.req \in Requests /\ WriteInv
        BY <1>3, <1>4, <1>5, <1>r, <1>s, <3>2
        DEF Stored, Handled, Ended, GivenUp, Stalls, Dispatches
      <4>2. ep.rx # "VALID"
        BY <1>1, <1>2, <1>3, <4>1, WholePacket
      <4> DEFINE f == ep_read_packet(ep)
      <4>3. f \in Endpoint /\ ~f.ctr_rx
        BY <1>5, <4>2, ReadPacket
      <4>4. <<>> \in Packet
        BY DEF Packet
      <4>5. ep' = f \/ ep' = ep_write_packet(f, <<>>)
        BY <1>4, <1>5, <1>r DEF Stored, Handled, Ended, GivenUp, Stalls
      <4> HIDE DEF f
      <4> QED
        BY <4>3, <4>4, <4>5, WritePacket DEF SameFlags
    <3> QED
      BY <1>2, <1>3, <1>s, <2>2, <3>2, <3>3, <3>4 DEF CutInv, Cut
  <2> QED
    BY <2>1, <2>2
<1> QED
  BY <1>8, <1>9, <1>10, <1>11, <1>17, <1>18 DEF ControlInv

-----------------------------------------------------------------------------
(* The invariant, and what it says *)

LEMMA NextControl == ControlInv /\ ~BackToBack /\ [Next]_vars => ControlInv'
<1> SUFFICES ASSUME ControlInv, ~BackToBack, [Next]_vars PROVE ControlInv'
  OBVIOUS
<1>1. CASE Poll
  BY <1>1, PollResetKeeps, PollSetupKeeps, PollOutKeeps, PollInKeeps DEF Poll
<1>2. CASE Callback
  BY <1>2, ControlSetupKeeps, ControlOutKeeps, ControlInKeeps DEF Callback
<1>3. CASE Host
  BY <1>3, StartKeeps, DataInKeeps, StatusOutKeeps, DataOutKeeps, StatusInKeeps,
     StalledKeeps, AbortKeeps, BusResetKeeps DEF Host
<1>4. CASE UNCHANGED vars
  <2>1. /\ Types /\ UnreadInv /\ SetupInv /\ ResetInv /\ ServedInv /\ CutInv
        /\ CompleteInv /\ AddressInv /\ DoneInv
    BY DEF ControlInv
  <2>2. UNCHANGED <<ep, reset, daddr, pc, ctl, host, given, done>>
    BY <1>4 DEF vars
  <2>3. Types' /\ ResetInv' /\ CompleteInv' /\ DoneInv'
    BY <2>1, <2>2 DEF Types, ResetInv, Live, CompleteInv, DoneInv
  <2>4. UnreadInv' /\ SetupInv' /\ AddressInv'
    BY <2>1, <2>2
    DEF UnreadInv, Unread, Fresh, SetupInv, Continues, Pending, Live, AddressInv, LateAddress,
        Served, Sent
  <2>5. /\ (Served' <=> Served) /\ (Live' <=> Live) /\ (IdleInv' <=> IdleInv)
        /\ (StatusOutInv' <=> StatusOutInv) /\ (StatusInInv' <=> StatusInInv)
    BY <2>2
    DEF Served, Unread, Live, IdleInv, StatusOutInv, StatusInInv, NoTx, NoRx, Sent
  <2>6. /\ (DataInInv' <=> DataInInv) /\ (DataOutInv' <=> DataOutInv)
        /\ (WriteInv' <=> WriteInv)
    BY <2>2 DEF DataInInv, DataOutInv, WriteInv, Waiting, NoTx, NoRx, Sent, Continues, Pending
  <2>7. ServedInv' /\ CutInv'
    BY <2>1, <2>2, <2>5, <2>6 DEF ServedInv, CutInv, Cut, NoRx, Sent
  <2> QED
    BY <2>1, <2>3, <2>4, <2>7 DEF ControlInv
<1> QED
  BY <1>1, <1>2, <1>3, <1>4 DEF Next

(* ControlInv is an invariant where the host waits for the end of a transfer *)
(* (usb_control.c and st_usbfs_poll).                                        *)
THEOREM ControlInvariant == ~BackToBack => (Spec => []ControlInv)
<1> SUFFICES ASSUME ~BackToBack PROVE Spec => []ControlInv
  OBVIOUS
<1>1. Init => ControlInv
  BY InitControl
<1>2. ControlInv /\ [Next]_vars => ControlInv'
  BY NextControl
<1> QED
  BY <1>1, <1>2, PTL DEF Spec

(* The driver's registers and the control state keep their types             *)
(* (struct usb_control_state, the STAT bits of USB_EP0R).                    *)
THEOREM ControlTypes == ~BackToBack => (Spec => []TypeOK)
<1> SUFFICES ASSUME ~BackToBack PROVE Spec => []TypeOK
  OBVIOUS
<1>1. ControlInv => TypeOK
  BY DEF ControlInv, Types, TypeOK, Endpoint, Control, HostState
<1> QED
  BY <1>1, ControlInvariant, PTL

(* A read that ended well gave the host the handler's reply, whole and in    *)
(* order (usb_control_send_chunk, needs_zlp, _usbd_control_in).              *)
THEOREM ReadsAreWhole == ~BackToBack => (Spec => []ReadDelivers)
<1> SUFFICES ASSUME ~BackToBack PROVE Spec => []ReadDelivers
  OBVIOUS
<1>1. ControlInv => ReadDelivers
  BY DEF ControlInv, DoneInv, ReadDelivers
<1> QED
  BY <1>1, ControlInvariant, PTL

(* The handler of a write is given exactly what the host sent, although a    *)
(* packet may replace one that has not been read; the exception is a SETUP   *)
(* that a reset has turned into a data packet (usb_control_recv_chunk,       *)
(* _usbd_control_out).                                                       *)
THEOREM WritesAreWhole == ~BackToBack => (Spec => []WriteDelivers)
<1> SUFFICES ASSUME ~BackToBack PROVE Spec => []WriteDelivers
  OBVIOUS
<1>1. ControlInv => WriteDelivers
  BY DEF ControlInv, DoneInv, WriteDelivers
<1> QED
  BY <1>1, ControlInvariant, PTL

(* No transfer that the device refuses ends well (usb_control_setup_read,    *)
(* usb_control_setup_write, stall_transaction).                              *)
THEOREM RefusalsAreSeen == ~BackToBack => (Spec => []RefusedNeverDone)
<1> SUFFICES ASSUME ~BackToBack PROVE Spec => []RefusedNeverDone
  OBVIOUS
<1>1. ControlInv => RefusedNeverDone
  BY DEF ControlInv, DoneInv, RefusedNeverDone
<1> QED
  BY <1>1, ControlInvariant, PTL

(* At rest the device answers to the address that the host believes it has,  *)
(* or, after a reset that came before the firmware had handled the end of    *)
(* SET_ADDRESS, to the address set then (set_address in _usbd_control_in,    *)
(* which st_usbfs_poll calls after _usbd_reset).                             *)
THEOREM AddressesAgree == ~BackToBack => (Spec => []AddressAgreed)
<1> SUFFICES ASSUME ~BackToBack PROVE Spec => []AddressAgreed
  OBVIOUS
<1>1. ControlInv => AddressAgreed
  <2> SUFFICES ASSUME ControlInv, Quiet, host.stage # "detached"
               PROVE  daddr = host.addr \/ LateAddress
    BY DEF AddressAgreed
  <2>1. ~Sent /\ ~reset
    BY DEF Quiet, Sent
  <2> QED
    BY <2>1 DEF ControlInv, AddressInv
<1> QED
  BY <1>1, ControlInvariant, PTL

(* Unless a token comes between the two steps of a poll, only what the       *)
(* device refuses is stalled (stall_transaction).                            *)
THEOREM StallsAreRefusals == ~BackToBack /\ ~Window => (Spec => []StallsOnlyRefused)
<1> SUFFICES ASSUME ~BackToBack, ~Window PROVE Spec => []StallsOnlyRefused
  OBVIOUS
<1>1. ControlInv => StallsOnlyRefused
  BY DEF ControlInv, DoneInv, StallsOnlyRefused
<1> QED
  BY <1>1, ControlInvariant, PTL

(* A completion callback runs for the transfer it was registered in, once    *)
(* the host has ended it well, at times after a bus reset since; the one     *)
(* exception is a SETUP that a reset has turned into a data packet           *)
(* (usb_control_request_dispatch, _usbd_control_out, _usbd_control_in).      *)
THEOREM CompletionsAreTrue == ~BackToBack => (Spec => CompletionIsTrue)
<1> SUFFICES ASSUME ~BackToBack PROVE Spec => CompletionIsTrue
  OBVIOUS
<1> DEFINE Fair == done' # done /\ done' # None
                     => (host.well /\ done' = host.req) \/ host.lost
<1>1. ControlInv /\ [Next]_vars => [Fair]_vars
  <2> SUFFICES ASSUME ControlInv, Next, done' # done, done' # None, ~host.lost
               PROVE  host.well /\ done' = host.req
    OBVIOUS
  <2>1. UnreadInv /\ ResetInv /\ ServedInv /\ CutInv /\ CompleteInv
    BY DEF ControlInv
  <2>2. CASE ControlOut
    <3>1. pc = "out" /\ ctl.state = "STATUS_OUT" /\ ctl.complete # None /\ done' = ctl.complete
      BY <2>2 DEF ControlOut
    <3>2. Served /\ ctl.complete = ctl.req /\ ~NoRx
      BY <2>1, <3>1 DEF UnreadInv, Served, CompleteInv, NoRx
    <3>3. Live => ctl.req = host.req /\ host.well
      BY <2>1, <3>1, <3>2 DEF ServedInv, StatusOutInv, ResetInv
    <3>4. ~Live => ctl.req = host.req /\ host.well
      BY <2>1, <3>1, <3>2 DEF CutInv, Cut
    <3> QED
      BY <3>1, <3>2, <3>3, <3>4
  <2>3. CASE ControlIn
    <3>1. pc = "in" /\ ctl.state = "STATUS_IN" /\ ctl.complete # None /\ done' = ctl.complete
      BY <2>3 DEF ControlIn
    <3>2. Served /\ ctl.complete = ctl.req /\ Sent
      BY <2>1, <3>1 DEF UnreadInv, Served, CompleteInv, Sent
    <3>3. Live => ctl.req = host.req /\ host.well
      BY <2>1, <3>1, <3>2 DEF ServedInv, StatusInInv, ResetInv
    <3>4. ~Live => ctl.req = host.req /\ host.well
      BY <2>1, <3>1, <3>2 DEF CutInv, Cut
    <3> QED
      BY <3>1, <3>2, <3>3, <3>4
  <2>4. CASE Poll \/ ControlSetup
    BY <2>4 DEF Poll, PollReset, PollSetup, PollOut, PollIn, ControlSetup
  <2>5. CASE Host
    <3>1. ASSUME NEW r \in Requests, Start(r) PROVE done' = None
      BY <3>1 DEF Start
    <3>2. CASE BusReset
      BY <3>2 DEF BusReset
    <3>3. CASE DataIn \/ StatusOut \/ DataOut \/ StatusIn \/ Stalled \/ Abort
      BY <3>3 DEF DataIn, StatusOut, DataOut, StatusIn, Stalled, Abort
    <3> QED
      BY <2>5, <3>1, <3>2, <3>3 DEF Host
  <2> QED
    BY <2>2, <2>3, <2>4, <2>5 DEF Next, Callback
<1> QED
  BY <1>1, ControlInvariant, PTL DEF Spec, CompletionIsTrue
=============================================================================
