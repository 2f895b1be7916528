------------------------- MODULE UsbMscBlocksProofs -------------------------
(* Proofs about UsbMsc: for a host that lets each command end and sends it   *)
(* in one packet, the class is a BlockDevice.                                *)
EXTENDS UsbMscProofs, SequenceTheorems

-----------------------------------------------------------------------------
(* Arithmetic with a block length that is not a constant                     *)

LEMMA MulNat == ASSUME NEW m \in Nat, NEW p \in Nat PROVE m * p \in Nat
  OBVIOUS

(* Products, when the other factor is not known                              *)
LEMMA MulMono ==
    ASSUME NEW m \in Nat, NEW n \in Nat, NEW p \in Nat, m <= n PROVE m * p <= n * p
<1>1. (n - m) * p >= 0
  OBVIOUS
<1>2. (n - m) * p = n * p - m * p
  OBVIOUS
<1> QED
  BY <1>1, <1>2

LEMMA MulNext ==
    ASSUME NEW m \in Nat, NEW n \in Nat, NEW p \in Nat, m < n
    PROVE  m * p + p <= n * p /\ (m + 1) * p = m * p + p
<1>1. (m + 1) * p <= n * p
  BY MulMono
<1>2. (m + 1) * p = m * p + p
  OBVIOUS
<1> QED
  BY <1>1, <1>2

LEMMA MulPositive ==
    ASSUME NEW m \in Nat, NEW p \in Nat, m > 0, p > 0 PROVE m * p > 0
<1>1. 0 * p + p <= m * p /\ 0 * p = 0
  BY MulNext
<1>2. m * p \in Nat
  BY MulNat
<1> QED
  BY <1>1, <1>2

(* Quotient and remainder, and that nothing else is one                      *)
LEMMA Division ==
    ASSUME NEW a \in Nat, NEW b \in Nat, b > 0
    PROVE  a = (a \div b) * b + (a % b) /\ a % b \in 0 .. b - 1 /\ a \div b \in Nat
  OBVIOUS

LEMMA DivisionUnique ==
    ASSUME NEW q \in Nat, NEW r \in Nat, NEW s \in Nat, NEW o \in Nat, NEW b \in Nat,
           o < b, s < b, q * b + o = r * b + s
    PROVE  q = r /\ o = s
<1>1. q * b \in Nat /\ r * b \in Nat
  BY MulNat
<1>2. ~(q < r)
  <2> SUFFICES ASSUME q < r PROVE FALSE
    OBVIOUS
  <2>1. q * b + b <= r * b
    BY MulNext
  <2> QED
    BY <1>1, <2>1
<1>3. ~(r < q)
  <2> SUFFICES ASSUME r < q PROVE FALSE
    OBVIOUS
  <2>1. r * b + b <= q * b
    BY MulNext
  <2> QED
    BY <1>1, <2>1
<1>4. q = r
  BY <1>2, <1>3
<1> QED
  BY <1>1, <1>4

LEMMA DivMod ==
    ASSUME NEW q \in Nat, NEW b \in Nat, NEW o \in 0 .. b - 1
    PROVE  (q * b + o) % b = o /\ (q * b + o) \div b = q
<1> DEFINE a == q * b + o
           x == a \div b
           y == a % b
<1>1. a \in Nat /\ b > 0
  BY MulNat
<1>2. a = x * b + y /\ y \in 0 .. b - 1 /\ x \in Nat
  <2> HIDE DEF a
  <2> QED
    BY <1>1, Division
<1>3. q * b + o = x * b + y
  BY <1>2
<1> HIDE DEF x, y, a
<1>4. q = x /\ o = y
  BY <1>1, <1>2, <1>3, DivisionUnique
<1> QED
  BY <1>4 DEF x, y, a

(* A packet that starts inside a block ends inside it.                       *)
LEMMA OffsetStep ==
    ASSUME NEW e \in Nat, NEW b \in Nat, NEW o \in Nat, e > 0, b % e = 0, o < b, o % e = 0
    PROVE  o + e <= b /\ (o + e) % e = 0
<1> DEFINE k == b \div e
           j == o \div e
<1>1. b = k * e /\ k \in Nat /\ o = j * e /\ j \in Nat
  BY Division
<1> HIDE DEF k, j
<1>2. ~(k <= j)
  BY <1>1, MulMono
<1>3. j * e + e <= k * e /\ (j + 1) * e = j * e + e
  BY <1>1, <1>2, MulNext
<1>4. ((j + 1) * e + 0) % e = 0
  BY <1>1, DivMod
<1> QED
  BY <1>1, <1>3, <1>4

-----------------------------------------------------------------------------
(* The setting: a command is neither cut nor overtaken by the next one, a    *)
(* command block fits a packet, the OUT endpoint is polled first.            *)
Orderly == ~Cuts /\ ~BackToBack /\ OutFirst /\ CbwLen <= EpSize

-----------------------------------------------------------------------------
(* The types of the records *)

Byte ==
    ({"zero", "data", "info", "mode"} \X Nat) \union ({"sense"} \X {"none", "illegal"})
    \union ({"cbw"} \X Commands \X Nat)
    \union ({"csw"} \X Commands \X {"passed", "failed"} \X Nat)
Block == [ 1 .. BlockLen -> Byte ]
Disk == [ 0 .. NBlocks - 1 -> Block ]
Senses == {"none", "illegal"}
Endpoint ==
    [ tx : Stats, rx : Stats, ctr_tx : BOOLEAN, ctr_rx : BOOLEAN, setup : BOOLEAN,
      tx_buf : Seq(Byte), rx_buf : Seq(Byte), force_nak : {FALSE}, dtog : {0, 1} ]
Trans ==
    [ cbw : Seq(Byte), to_read : Nat, to_write : Nat, count : Nat, lba : Nat \union {None},
      blocks : Nat, cur : Nat, csw_valid : BOOLEAN, csw_sent : Nat,
      tag : Commands \union {None}, status : {"passed", "failed"}, buf : Block ]
HostState ==
    [ stage : {"idle", "cbw", "out", "in", "csw"}, cmd : Commands \union {None}, sent : Nat,
      got : Seq(Byte), csw : Seq(Byte), tog : [ in : {0, 1}, out : {0, 1} ] ]

Types ==
    /\ ep \in [ in : Endpoint, out : Endpoint ]
    /\ Len(ep.in.tx_buf) <= EpSize /\ Len(ep.out.rx_buf) <= EpSize
    /\ ep.in.rx_buf = <<>> /\ ep.out.tx_buf = <<>>
    /\ t \in Trans /\ disk \in Disk /\ sense \in Senses /\ host \in HostState

-----------------------------------------------------------------------------
(* Between two configurations nothing but a command is under way.            *)

EnabledInv ==
    /\ "in" \in enabled <=> ep.in.tx # "DISABLED"
    /\ "out" \in enabled <=> ep.out.rx # "DISABLED"

Busy == host.stage # "idle" \/ ep.out.ctr_rx \/ ep.in.ctr_tx
BusyInv == Busy => OnBus /\ Polling

-----------------------------------------------------------------------------
(* Where a command stands: with the host, in the OUT endpoint, or under way  *)
(* in the device.                                                            *)

StatusOf(c) == IF Refused(c) THEN "failed" ELSE "passed"
FirstStage(c) == IF Writes(c) THEN "out" ELSE IF ReplyLen(c) > 0 THEN "in" ELSE "csw"

AtStart ==
    /\ t.to_read = 0 /\ t.to_write = 0 /\ t.count = 0 /\ t.lba = None
    /\ t.blocks = 0 /\ t.cur = 0 /\ ~t.csw_valid /\ t.csw_sent = 0

(* The status has gone to a host that took it for data and waits for more. *)
Starved == host.stage \in {"in", "csw"} /\ Unanswered(host.cmd)

Resting ==
    /\ AtStart
    /\ ep.in.tx # "VALID" /\ ~ep.in.ctr_tx
    /\ ~ep.out.ctr_rx => host.stage \in {"idle", "cbw"} \/ Starved
    /\ ep.out.ctr_rx => 
          /\ host.stage = FirstStage(host.cmd)
          /\ ep.out.rx = "NAK" /\ ep.out.rx_buf = CbwBytes(host.cmd)
    /\ host.stage # "idle" => host.cmd \in Commands /\ ep.in.tx = "NAK"
    /\ host.stage = "cbw" \/ ep.out.ctr_rx =>
          host.sent = 0 /\ host.got = <<>> /\ host.csw = <<>>

(* The status is on its way to the host, or is there. *)
StatusOut(c) ==
    /\ t.csw_valid /\ t.csw_sent = CswLen
    /\ \/ /\ ep.in.tx = "VALID" /\ ~ep.in.ctr_tx
          /\ ep.in.tx_buf = CswBytes(c, StatusOf(c))
          /\ host.stage # "idle" /\ host.csw = <<>>
       \/ /\ ep.in.tx = "NAK" /\ ep.in.ctr_tx
          /\ host.stage = "idle" /\ host.csw = CswBytes(c, StatusOf(c))

NoStatus == ~t.csw_valid /\ t.csw_sent = 0 /\ host.stage # "idle" /\ host.csw = <<>>

(* So many bytes of the current block have come in or gone out. *)
Off == t.count - t.cur * BlockLen

(* So many blocks of a write have come to those that the disk has. *)
OnDisk(c, blocks, upto) ==
    \A k \in 0 .. upto - 1 :
        LET b == BlockNo(c.lba, k) IN b \in DOMAIN blocks => blocks[b] = Content(c, b)

Writing(c) ==
    /\ Writes(c) /\ t.to_read = c.n * BlockLen /\ t.to_write = 0
    /\ t.lba = c.lba /\ t.blocks = c.n
    /\ t.cur \in 0 .. c.n /\ t.count \in 0 .. t.to_read
    /\ Off \in 0 .. BlockLen - 1 /\ Off % EpSize = 0
    /\ OnDisk(c, disk, t.cur)
    /\ \A i \in 1 .. Off : t.buf[i] = <<"data", t.cur * BlockLen + i>>
    /\ host.got = <<>> /\ host.stage \in {"out", "csw", "idle"}
    /\ host.stage = "out" => host.sent < t.to_read
    /\ host.stage # "out" => host.sent = 0
    /\ (IF host.stage = "out" THEN host.sent ELSE t.to_read)
          = t.count + (IF ep.out.ctr_rx THEN EpSize ELSE 0)
    /\ ep.out.ctr_rx =>
          /\ ep.out.rx = "NAK" /\ t.count < t.to_read
          /\ ep.out.rx_buf = SubSeq(DataOut(c), t.count + 1, t.count + EpSize)
    /\ IF t.count = 0 THEN NoStatus /\ ep.in.tx = "NAK" /\ ~ep.in.ctr_tx ELSE StatusOut(c)

(* These bytes may come in a reply, behind so many others. *)
Fits(c, blocks, key, behind, data) ==
    \A i \in 1 .. Len(data) : MayReply(c, blocks, key, behind + i, data[i])

(* The buffer holds the block that is being sent, if the disk has it, or all *)
(* of a short reply.                                                         *)
Loaded(c, u, blocks, key) ==
    IF c.op = "read"
    THEN /\ u.lba = c.lba /\ u.blocks = c.n /\ u.cur \in 0 .. c.n
         /\ u.count - u.cur * BlockLen \in 1 - BlockLen .. 0
         /\ (u.count - u.cur * BlockLen + BlockLen) % EpSize = 0
         /\ u.cur > 0 => LET b == BlockNo(c.lba, u.cur - 1)
                         IN  b \in DOMAIN blocks => u.buf = blocks[b]
    ELSE /\ u.blocks = 0 /\ u.cur = 0
         /\ \A i \in 1 .. ReplyLen(c) : MayReply(c, blocks, key, i, u.buf[i])

Sending(c) ==
    /\ ~Unanswered(c)
    /\ t.to_read = 0 /\ t.to_write = ReplyLen(c) /\ t.count \in 1 .. ReplyLen(c)
    /\ NoStatus /\ ~ep.out.ctr_rx /\ host.sent = 0
    /\ Loaded(c, t, disk, sense)
    /\ Fits(c, disk, sense, 0, host.got)
    /\ \/ /\ ep.in.tx = "VALID" /\ ~ep.in.ctr_tx /\ host.stage = "in"
          /\ Len(host.got) < t.count /\ t.count = Least(Len(host.got) + EpSize, ReplyLen(c))
          /\ Len(ep.in.tx_buf) = t.count - Len(host.got)
          /\ Fits(c, disk, sense, Len(host.got), ep.in.tx_buf)
       \/ /\ ep.in.tx = "NAK" /\ ep.in.ctr_tx /\ Len(host.got) = t.count
          /\ host.stage = IF t.count = ReplyLen(c) THEN "csw" ELSE "in"

Finishing(c) ==
    /\ ~Unanswered(c)
    /\ t.to_read = 0 /\ t.count = t.to_write /\ t.cur <= t.blocks /\ ~ep.out.ctr_rx
    /\ \A b \in Addressed(c) : disk[b] = Content(c, b)
    /\ Len(host.got) = ReplyLen(c) /\ Fits(c, disk, sense, 0, host.got)
    /\ host.sent = 0 /\ host.stage \in {"csw", "idle"}
    /\ StatusOut(c)

(* The host takes the status for data. *)
Mistaken(c) ==
    /\ Unanswered(c)
    /\ t.to_read = 0 /\ t.count = t.to_write /\ t.cur <= t.blocks /\ ~ep.out.ctr_rx
    /\ t.csw_valid /\ t.csw_sent = CswLen
    /\ \/ ep.in.tx = "VALID" /\ ~ep.in.ctr_tx /\ host.stage = "in"
       \/ ep.in.tx = "NAK" /\ ep.in.ctr_tx /\ host.stage \in {"in", "csw"}

Running ==
    LET c == host.cmd IN
    /\ c \in Commands /\ t.cbw = CbwBytes(c) /\ t.tag = c /\ t.status = StatusOf(c)
    /\ sense = SenseAfter(c, sense)
    /\ Writing(c) \/ Sending(c) \/ Finishing(c) \/ Mistaken(c)

BlocksInv ==
    /\ Types /\ EnabledInv /\ BusyInv
    /\ t.cbw = <<>> => Resting
    /\ t.cbw # <<>> => Running

-----------------------------------------------------------------------------
(* Sequences of bytes, and what a command's are                              *)

(* What the assumptions say of the sizes, and of a command                   *)
LEMMA MscSizes ==
    /\ EpSize \in Nat /\ EpSize > 0 /\ CbwLen \in Nat /\ CbwLen > 0
    /\ CswLen \in Nat /\ CswLen > 0 /\ CswLen <= CbwLen
    /\ BlockLen \in Nat /\ BlockLen > 0 /\ BlockLen % EpSize = 0
    /\ NBlocks \in Nat /\ NBlocks > 0 /\ None \notin Commands
    /\ LbaSpan \in Nat /\ LbaSpan > 0 /\ NBlocks <= LbaSpan
    /\ SenseLen \in Nat /\ SenseLen > 0 /\ SenseLen <= BlockLen
  BY MscAssumption

LEMMA CommandFacts ==
    ASSUME NEW c \in Commands
    PROVE  /\ c.op \in {"read", "write", "format", "info", "mode", "vpd", "sense", "ready", "unknown"}
           /\ c.op \in {"read", "write"} =>
                c.lba \in Nat /\ c.n \in Nat /\ c.n <= LbaSpan /\ c.n * BlockLen \in Nat
           /\ c.op \in {"info", "mode"} => c.n \in 1 .. BlockLen
           /\ c.op = "sense" => c.n \in 0 .. BlockLen
           /\ c.op \in {"vpd", "unknown"} => c.n \in Nat
           /\ ReplyLen(c) \in Nat
<1>1. /\ c.op \in Ops
      /\ c.op \in {"read", "write"} => c.lba \in 0 .. LbaSpan - 1 /\ c.n \in 0 .. LbaSpan
      /\ c.op \in {"info", "mode"} => c.n \in 1 .. BlockLen
      /\ c.op = "sense" => c.n \in 0 .. BlockLen
      /\ c.op \in {"vpd", "unknown"} => c.n \in Nat
  BY MscAssumption
<1>2. c.op \in {"read", "write"} => c.n * BlockLen \in Nat
  BY <1>1, MscSizes, MulNat
<1> QED
  BY <1>1, <1>2, MscSizes DEF Ops, ReplyLen

(* The blocks of a read or write are there once each, though their numbers   *)
(* may wrap.                                                                 *)
LEMMA BlockNoNat ==
    ASSUME NEW c \in Commands, c.op \in {"read", "write"}, NEW i \in Nat
    PROVE  BlockNo(c.lba, i) \in Nat
<1>1. c.lba \in Nat
  BY CommandFacts
<1> QED
  BY <1>1, MscSizes DEF BlockNo

LEMMA BlockNoApart ==
    ASSUME NEW c \in Commands, c.op \in {"read", "write"},
           NEW i \in 0 .. c.n - 1, NEW j \in 0 .. c.n - 1, BlockNo(c.lba, i) = BlockNo(c.lba, j)
    PROVE  i = j
<1>1. c.lba \in Nat /\ c.n \in Nat /\ c.n <= LbaSpan /\ i \in Nat /\ j \in Nat
  BY CommandFacts
<1> DEFINE p == (c.lba + i) \div LbaSpan
           q == (c.lba + j) \div LbaSpan
           r == BlockNo(c.lba, i)
<1>2. /\ c.lba + i = p * LbaSpan + r /\ c.lba + j = q * LbaSpan + r
      /\ p \in Nat /\ q \in Nat /\ r \in 0 .. LbaSpan - 1
  <2>1. c.lba + i \in Nat /\ c.lba + j \in Nat /\ LbaSpan \in Nat /\ LbaSpan > 0
    BY <1>1, MscSizes
  <2> DEFINE a == c.lba + i
             b == c.lba + j
  <2>2. a \in Nat /\ b \in Nat /\ p = a \div LbaSpan /\ q = b \div LbaSpan
    BY <2>1
  <2> HIDE DEF a, b, p, q
  <2>3. a = p * LbaSpan + (a % LbaSpan) /\ a % LbaSpan \in 0 .. LbaSpan - 1 /\ p \in Nat
    BY <2>1, <2>2, Division
  <2>4. b = q * LbaSpan + (b % LbaSpan) /\ q \in Nat
    BY <2>1, <2>2, Division
  <2>5. r = a % LbaSpan /\ r = b % LbaSpan
    BY DEF BlockNo, a, b
  <2> QED
    BY <2>3, <2>4, <2>5 DEF a, b
<1> HIDE DEF p, q, r
<1>3. p * LbaSpan \in Nat /\ q * LbaSpan \in Nat
  BY <1>2, MscSizes, MulNat
<1>4. ~(p < q)
  <2>1. p < q => p * LbaSpan + LbaSpan <= q * LbaSpan
    BY <1>2, MscSizes, MulNext
  <2> QED
    BY <1>1, <1>2, <1>3, <2>1, MscSizes
<1>5. ~(q < p)
  <2>1. q < p => q * LbaSpan + LbaSpan <= p * LbaSpan
    BY <1>2, MscSizes, MulNext
  <2> QED
    BY <1>1, <1>2, <1>3, <2>1, MscSizes
<1>6. p = q
  BY <1>2, <1>4, <1>5
<1> QED
  BY <1>1, <1>2, <1>3, <1>6

(* A function on 1 .. n is a sequence.                                       *)
LEMMA Enumerated ==
    ASSUME NEW S, NEW n \in Nat, NEW f \in [ 1 .. n -> S ]
    PROVE  f \in Seq(S) /\ Len(f) = n /\ DOMAIN f = 1 .. n
  BY SeqDef

(* Sequences: when two are one, a part, two parts that follow                *)
LEMMA SeqExt ==
    ASSUME NEW S, NEW T, NEW s \in Seq(S), NEW u \in Seq(T), Len(s) = Len(u),
           \A i \in 1 .. Len(s) : s[i] = u[i]
    PROVE s = u
  OBVIOUS

LEMMA Part ==
    ASSUME NEW S, NEW s \in Seq(S), NEW m \in Nat, NEW n \in Nat, m <= n, n <= Len(s)
    PROVE  /\ SubSeq(s, m + 1, n) \in Seq(S) /\ Len(SubSeq(s, m + 1, n)) = n - m
           /\ \A i \in 1 .. n - m : SubSeq(s, m + 1, n)[i] = s[m + i]
           /\ m = 0 /\ n = Len(s) => SubSeq(s, m + 1, n) = s
  OBVIOUS
LEMMA Join ==
    ASSUME NEW S, NEW s \in Seq(S), NEW m \in Nat, NEW n \in Nat, m <= n, n <= Len(s)
    PROVE  SubSeq(s, 1, m) \o SubSeq(s, m + 1, n) = SubSeq(s, 1, n)
  OBVIOUS

(* The bytes of a command block, of a status and of the data                 *)
LEMMA BytesFacts ==
    ASSUME NEW c \in Commands
    PROVE  /\ CbwBytes(c) \in Seq(Byte) /\ Len(CbwBytes(c)) = CbwLen /\ CbwBytes(c)[1][2] = c
           /\ \A s \in {"passed", "failed"} :
                 CswBytes(c, s) \in Seq(Byte) /\ Len(CswBytes(c, s)) = CswLen
           /\ c.op = "write" => DataOut(c) \in Seq(Byte) /\ Len(DataOut(c)) = c.n * BlockLen
<1>1. CbwBytes(c) \in [ 1 .. CbwLen -> Byte ]
  BY MscSizes DEF CbwBytes, Byte
<1>2. CbwBytes(c)[1] = <<"cbw", c, 1>>
  BY MscSizes DEF CbwBytes
<1>3. ASSUME NEW s \in {"passed", "failed"} PROVE CswBytes(c, s) \in [ 1 .. CswLen -> Byte ]
  BY MscSizes DEF CswBytes, Byte
<1>4. c.op = "write" => DataOut(c) \in [ 1 .. c.n * BlockLen -> Byte ]
  BY DEF DataOut, Byte
<1>5. CbwBytes(c) \in Seq(Byte) /\ Len(CbwBytes(c)) = CbwLen
  BY <1>1, MscSizes, Enumerated
<1>6. ASSUME NEW s \in {"passed", "failed"}
      PROVE  CswBytes(c, s) \in Seq(Byte) /\ Len(CswBytes(c, s)) = CswLen
  BY <1>3, MscSizes, Enumerated
<1>7. c.op = "write" => DataOut(c) \in Seq(Byte) /\ Len(DataOut(c)) = c.n * BlockLen
  BY <1>4, CommandFacts, Enumerated
<1>8. CbwBytes(c)[1][2] = c
  BY <1>2
<1> QED
  BY <1>5, <1>6, <1>7, <1>8

LEMMA ReplyBytes ==
    /\ \A n \in Nat : /\ InfoBytes(n) \in Seq(Byte) /\ Len(InfoBytes(n)) = n
                      /\ ModeBytes(n) \in Seq(Byte) /\ Len(ModeBytes(n)) = n
    /\ \A key \in Senses : SenseBytes(key) \in Seq(Byte) /\ Len(SenseBytes(key)) = SenseLen
<1>1. ASSUME NEW n \in Nat
      PROVE  InfoBytes(n) \in [ 1 .. n -> Byte ] /\ ModeBytes(n) \in [ 1 .. n -> Byte ]
  BY DEF InfoBytes, ModeBytes, Byte
<1>2. ASSUME NEW key \in Senses PROVE SenseBytes(key) \in [ 1 .. SenseLen -> Byte ]
  BY DEF SenseBytes, Byte, Senses
<1> QED
  BY <1>1, <1>2, MscSizes, Enumerated

(* What follows behind what may come in a reply may come in it too.          *)
LEMMA FitsOn ==
    ASSUME NEW c, NEW blocks, NEW key, NEW a \in Seq(Byte), NEW b \in Seq(Byte),
           Fits(c, blocks, key, 0, a), Fits(c, blocks, key, Len(a), b)
    PROVE  Fits(c, blocks, key, 0, a \o b)
<1> SUFFICES ASSUME NEW i \in 1 .. Len(a \o b)
             PROVE  MayReply(c, blocks, key, 0 + i, (a \o b)[i])
  BY DEF Fits
<1>1. Len(a) \in Nat /\ Len(b) \in Nat /\ Len(a \o b) = Len(a) + Len(b) /\ 0 + i = i
  OBVIOUS
<1>2. CASE i <= Len(a)
  <2>1. (a \o b)[i] = a[i] /\ i \in 1 .. Len(a)
    BY <1>1, <1>2
  <2> QED
    BY <2>1, <1>1 DEF Fits
<1>3. CASE i > Len(a)
  <2> DEFINE k == i - Len(a)
  <2>1. (a \o b)[i] = b[k] /\ k \in 1 .. Len(b) /\ Len(a) + k = i
    BY <1>1, <1>3
  <2> HIDE DEF k
  <2>2. MayReply(c, blocks, key, Len(a) + k, b[k])
    BY <2>1 DEF Fits
  <2> QED
    BY <1>1, <2>1, <2>2
<1> QED
  BY <1>1, <1>2, <1>3

-----------------------------------------------------------------------------
(* The record of what a callback may change, and what a command makes of it  *)

Dev == [ in : Endpoint, out : Endpoint, t : Trans, disk : Disk, sense : Senses ]

Fresh(u) ==
    /\ u.to_read = 0 /\ u.to_write = 0 /\ u.count = 0 /\ u.lba = None
    /\ u.blocks = 0 /\ u.cur = 0 /\ ~u.csw_valid /\ u.csw_sent = 0

LEMMA ZeroBlockIsBlock == ZeroBlock \in Block /\ Zero \in Byte
  BY DEF ZeroBlock, Block, Zero, Byte

(* Bytes are put into the buffer.                                            *)
LEMMA PutIs ==
    ASSUME NEW buf \in Block, NEW at \in Nat, NEW bytes \in Seq(Byte)
    PROVE  /\ Put(buf, at, bytes) \in Block
           /\ \A i \in 1 .. BlockLen :
                 Put(buf, at, bytes)[i]
                   = IF i \in at + 1 .. at + Len(bytes) THEN bytes[i - at] ELSE buf[i]
  BY MscSizes DEF Put, Block

(* What a command makes of a transaction that has not begun                  *)
LEMMA ScsiResult ==
    ASSUME NEW c \in Commands, NEW d \in Dev, d.t.cbw = CbwBytes(c), Fresh(d.t),
           NEW r, r = scsi_command(d)
    PROVE  /\ r \in Dev /\ r.in = d.in /\ r.out = d.out
           /\ r.t.cbw = d.t.cbw /\ r.t.tag = c /\ r.t.status = StatusOf(c)
           /\ r.sense = SenseAfter(c, d.sense)
           /\ ~r.t.csw_valid /\ r.t.csw_sent = 0 /\ r.t.count = 0 /\ r.t.cur = 0
           /\ r.t.to_read = (IF c.op = "write" THEN c.n * BlockLen ELSE 0)
           /\ r.t.to_write = (IF c.op \in {"vpd", "unknown"} THEN 0 ELSE ReplyLen(c))
           /\ IF c.op \in {"read", "write"} THEN r.t.lba = c.lba /\ r.t.blocks = c.n
              ELSE r.t.blocks = 0
           /\ c.op # "format" => r.disk = d.disk
           /\ c.op = "format" =>
                r.disk = [ b \in DOMAIN d.disk |->
                             IF b \in Addressed(c) THEN Content(c, b) ELSE d.disk[b] ]
           /\ c.op \in {"info", "mode", "sense"} =>
                \A i \in 1 .. ReplyLen(c) : MayReply(c, r.disk, r.sense, i, r.t.buf[i])
<1> DEFINE s == [ d EXCEPT !.t.csw_sent = 0, !.t.tag = c, !.t.status = "passed",
                           !.t.to_write = 0, !.t.to_read = 0, !.t.count = 0 ]
           format == [ s EXCEPT !.disk = [ b \in DOMAIN d.disk |->
                                  IF b < NBlocks - 1 THEN ZeroBlock ELSE d.disk[b] ],
                                !.t.buf = ZeroBlock, !.sense = "none" ]
           reply == [ s EXCEPT !.t.to_write = c.n, !.t.buf = Put(@, 0, SenseBytes(d.sense)) ]
           mode == [ s EXCEPT !.t.to_write = c.n, !.t.buf = Put(@, 0, ModeBytes(c.n - 1)) ]
           info == [ s EXCEPT !.t.to_write = c.n, !.t.buf = Put(@, 0, InfoBytes(c.n)),
                              !.sense = "none" ]
           read == [ s EXCEPT !.t.lba = c.lba, !.t.blocks = c.n, !.t.to_write = c.n * BlockLen,
                              !.sense = "none" ]
           write == [ s EXCEPT !.t.lba = c.lba, !.t.blocks = c.n, !.t.cur = 0,
                               !.t.to_read = c.n * BlockLen ]
           ready == [ s EXCEPT !.sense = "none" ]
           refused == [ s EXCEPT !.t.status = "failed", !.sense = "illegal" ]
<1>0. d.t.cbw[1][2] = c
  BY BytesFacts
<1>1. r =
        CASE c.op = "ready" -> ready [] c.op = "format" -> format [] c.op = "sense" -> reply
          [] c.op = "mode" -> mode [] c.op = "vpd" -> s
          [] c.op = "info" -> info [] c.op = "read" -> read [] c.op = "write" -> write
          [] OTHER -> refused
  BY <1>0 DEF scsi_command
<1>2. /\ s \in Dev /\ s.in = d.in /\ s.out = d.out /\ s.disk = d.disk /\ s.sense = d.sense
      /\ s.t.cbw = d.t.cbw /\ s.t.tag = c /\ s.t.status = "passed"
      /\ ~s.t.csw_valid /\ s.t.csw_sent = 0 /\ s.t.count = 0 /\ s.t.cur = 0
      /\ s.t.to_read = 0 /\ s.t.to_write = 0 /\ s.t.blocks = 0 /\ s.t.buf = d.t.buf
  <2> DEFINE u == d.t
             v == [ u EXCEPT !.csw_sent = 0, !.tag = c, !.status = "passed",
                             !.to_write = 0, !.to_read = 0, !.count = 0 ]
  <2>1. u \in Trans /\ u = d.t /\ Fresh(u)
    BY DEF Dev
  <2>2. s = [ d EXCEPT !.t = v ]
    BY DEF Dev, Trans
  <2> HIDE DEF u, s
  <2>3. /\ v \in Trans /\ v.cbw = u.cbw /\ v.tag = c /\ v.status = "passed"
        /\ ~v.csw_valid /\ v.csw_sent = 0 /\ v.count = 0 /\ v.cur = 0
        /\ v.to_read = 0 /\ v.to_write = 0 /\ v.blocks = 0 /\ v.buf = u.buf
    BY <2>1 DEF Trans, Fresh
  <2> HIDE DEF v
  <2>4. /\ s \in Dev /\ s.t = v /\ s.in = d.in /\ s.out = d.out /\ s.disk = d.disk
        /\ s.sense = d.sense
    BY <2>2, <2>3 DEF Dev
  <2> QED
    BY <2>1, <2>3, <2>4
<1> HIDE DEF s
<1>d. /\ DOMAIN s = DevFields /\ s.t \in Trans /\ s.in \in Endpoint /\ s.out \in Endpoint
      /\ s.disk \in Disk /\ s.sense \in Senses
  BY <1>2 DEF Dev, DevFields
<1>b. d.t.buf \in Block
  BY DEF Dev, Trans
<1>3. CASE c.op = "ready"
  <2>1. r.t = s.t /\ r.sense = "none" /\ r.in = s.in /\ r.out = s.out /\ r.disk = s.disk
        /\ r \in Dev
    BY <1>1, <1>2, <1>3 DEF Dev, Senses
  <2> QED
    BY <2>1, <1>2, <1>3 DEF StatusOf, Refused, SenseAfter, ReplyLen
<1>4. CASE c.op = "format"
  <2> DEFINE k == [ b \in DOMAIN d.disk |-> IF b < NBlocks - 1 THEN ZeroBlock ELSE d.disk[b] ]
             u == [ s.t EXCEPT !.buf = ZeroBlock ]
  <2>1. r = format
    BY <1>1, <1>4
  <2>2. DOMAIN d.disk = 0 .. NBlocks - 1
    BY DEF Dev, Disk
  <2>3. k \in Disk
    BY <2>2, ZeroBlockIsBlock DEF Dev, Disk
  <2>4. k = [ b \in DOMAIN d.disk |-> IF b \in Addressed(c) THEN Content(c, b) ELSE d.disk[b] ]
    BY <1>4, <2>2, MscSizes DEF Addressed, Content
  <2>5. u \in Trans /\ u = [ s.t EXCEPT !.buf = ZeroBlock ]
    BY <1>d, ZeroBlockIsBlock DEF Trans
  <2>6. format = [ s EXCEPT !.disk = k, !.t = u, !.sense = "none" ]
    BY <1>d DEF DevFields
  <2> HIDE DEF k, u, format
  <2>7. r \in Dev /\ r.in = s.in /\ r.out = s.out /\ r.t = u /\ r.disk = k /\ r.sense = "none"
    BY <2>1, <2>3, <2>5, <2>6, <1>2 DEF Dev, Senses
  <2> QED
    BY <2>4, <2>5, <2>7, <1>2, <1>d, <1>4
    DEF Trans, StatusOf, Refused, SenseAfter, ReplyLen
<1>5. CASE c.op = "sense"
  <2> DEFINE b == Put(s.t.buf, 0, SenseBytes(d.sense))
             u == [ s.t EXCEPT !.to_write = c.n, !.buf = b ]
  <2>1. r = reply
    BY <1>1, <1>5
  <2>2. /\ SenseBytes(d.sense) \in Seq(Byte) /\ Len(SenseBytes(d.sense)) = SenseLen
        /\ c.n \in 0 .. BlockLen
        /\ \A i \in 1 .. SenseLen : SenseBytes(d.sense)[i] = <<"sense", d.sense>>
    BY <1>5, CommandFacts, ReplyBytes DEF Dev, SenseBytes
  <2>3. b \in Block /\ \A i \in 1 .. c.n : i <= SenseLen => b[i] = <<"sense", d.sense>>
    <3> HIDE DEF b
    <3>1. /\ b \in Block
          /\ \A i \in 1 .. BlockLen :
                b[i] = IF i \in 0 + 1 .. 0 + SenseLen THEN SenseBytes(d.sense)[i - 0] ELSE s.t.buf[i]
      BY <1>2, <1>b, <2>2, PutIs DEF b
    <3> QED
      BY <2>2, <3>1, MscSizes
  <2>5. u \in Trans /\ u = [ s.t EXCEPT !.to_write = c.n, !.buf = b ]
    <3> HIDE DEF b
    <3>1. c.n \in Nat
      BY <2>2, MscSizes
    <3> QED
      BY <1>d, <2>3, <3>1 DEF Trans
  <2>6. reply = [ s EXCEPT !.t = u ]
    <3>1. reply = [ s EXCEPT !.t.to_write = c.n, !.t.buf = b ]
      OBVIOUS
    <3> HIDE DEF b, reply
    <3> QED
      BY <3>1, <1>d DEF DevFields, Trans
  <2> HIDE DEF b, u, reply
  <2>7. /\ r \in Dev /\ r.in = s.in /\ r.out = s.out /\ r.t = u /\ r.disk = s.disk
        /\ r.sense = s.sense
    BY <2>1, <2>5, <2>6, <1>2 DEF Dev
  <2> QED
    BY <2>3, <2>5, <2>7, <1>2, <1>d, <1>5
    DEF Trans, StatusOf, Refused, SenseAfter, ReplyLen, MayReply
<1>m. CASE c.op = "mode"
  <2> DEFINE bytes == ModeBytes(c.n - 1)
             b == Put(s.t.buf, 0, bytes)
             u == [ s.t EXCEPT !.to_write = c.n, !.buf = b ]
  <2>1. r = mode
    BY <1>1, <1>m
  <2>2. /\ bytes \in Seq(Byte) /\ Len(bytes) = c.n - 1
        /\ c.n \in 1 .. BlockLen /\ c.n - 1 \in Nat
        /\ \A i \in 1 .. c.n - 1 : bytes[i] = <<"mode", i>>
    <3>1. c.n \in 1 .. BlockLen /\ c.n - 1 \in Nat
      BY <1>m, CommandFacts, MscSizes
    <3> QED
      BY <3>1, ReplyBytes DEF ModeBytes
  <2>3. b \in Block /\ \A i \in 1 .. c.n : i < c.n => b[i] = <<"mode", i>>
    <3> HIDE DEF b, bytes
    <3>1. /\ b \in Block
          /\ \A i \in 1 .. BlockLen :
                b[i] = IF i \in 0 + 1 .. 0 + (c.n - 1) THEN bytes[i - 0] ELSE s.t.buf[i]
      BY <1>2, <1>b, <2>2, PutIs DEF b
    <3>2. ASSUME NEW i \in 1 .. c.n, i < c.n PROVE b[i] = <<"mode", i>>
      <4>1. i \in 1 .. BlockLen /\ i \in 0 + 1 .. 0 + (c.n - 1) /\ i - 0 = i /\ i \in 1 .. c.n - 1
        BY <2>2, <3>2, MscSizes
      <4> QED
        BY <2>2, <3>1, <4>1
    <3> QED
      BY <3>1, <3>2
  <2>5. u \in Trans /\ u = [ s.t EXCEPT !.to_write = c.n, !.buf = b ]
    <3> HIDE DEF b
    <3>1. c.n \in Nat
      BY <2>2, MscSizes
    <3> QED
      BY <1>d, <2>3, <3>1 DEF Trans
  <2>6. mode = [ s EXCEPT !.t = u ]
    <3>1. mode = [ s EXCEPT !.t.to_write = c.n, !.t.buf = b ]
      OBVIOUS
    <3> HIDE DEF b, mode
    <3> QED
      BY <3>1, <1>d DEF DevFields, Trans
  <2> HIDE DEF b, bytes, u, mode
  <2>7. /\ r \in Dev /\ r.in = s.in /\ r.out = s.out /\ r.t = u /\ r.disk = s.disk
        /\ r.sense = s.sense
    BY <2>1, <2>5, <2>6, <1>2 DEF Dev
  <2> QED
    BY <2>3, <2>5, <2>7, <1>2, <1>d, <1>m
    DEF Trans, StatusOf, Refused, SenseAfter, ReplyLen, MayReply
<1>v. CASE c.op = "vpd"
  <2>1. r = s
    BY <1>1, <1>v
  <2> QED
    BY <2>1, <1>2, <1>v DEF StatusOf, Refused, SenseAfter
<1>6. CASE c.op = "info"
  <2> DEFINE b == Put(s.t.buf, 0, InfoBytes(c.n))
             u == [ s.t EXCEPT !.to_write = c.n, !.buf = b ]
  <2>1. r = info
    BY <1>1, <1>6
  <2>2. /\ InfoBytes(c.n) \in Seq(Byte) /\ Len(InfoBytes(c.n)) = c.n
        /\ c.n \in 1 .. BlockLen
        /\ \A i \in 1 .. c.n : InfoBytes(c.n)[i] = <<"info", i>>
    <3>1. c.n \in 1 .. BlockLen /\ c.n \in Nat
      BY <1>6, CommandFacts, MscSizes
    <3> QED
      BY <3>1, ReplyBytes DEF InfoBytes
  <2>3. b \in Block /\ \A i \in 1 .. c.n : b[i] = <<"info", i>>
    <3> HIDE DEF b
    <3>1. /\ b \in Block
          /\ \A i \in 1 .. BlockLen :
                b[i] = IF i \in 0 + 1 .. 0 + c.n THEN InfoBytes(c.n)[i - 0] ELSE s.t.buf[i]
      BY <1>2, <1>b, <2>2, PutIs DEF b
    <3> QED
      BY <2>2, <3>1, MscSizes
  <2>5. u \in Trans /\ u = [ s.t EXCEPT !.to_write = c.n, !.buf = b ]
    <3> HIDE DEF b
    <3>1. c.n \in Nat
      BY <2>2, MscSizes
    <3> QED
      BY <1>d, <2>3, <3>1 DEF Trans
  <2>6. info = [ s EXCEPT !.t = u, !.sense = "none" ]
    <3>1. info = [ s EXCEPT !.t.to_write = c.n, !.t.buf = b, !.sense = "none" ]
      OBVIOUS
    <3> HIDE DEF b, info
    <3> QED
      BY <3>1, <1>d DEF DevFields, Trans
  <2> HIDE DEF b, u, info
  <2>7. /\ r \in Dev /\ r.in = s.in /\ r.out = s.out /\ r.t = u /\ r.disk = s.disk
        /\ r.sense = "none"
    BY <2>1, <2>5, <2>6, <1>2 DEF Dev, Senses
  <2> QED
    BY <2>3, <2>5, <2>7, <1>2, <1>d, <1>6
    DEF Trans, StatusOf, Refused, SenseAfter, ReplyLen, MayReply
<1>7. CASE c.op = "read"
  <2> DEFINE u == [ s.t EXCEPT !.lba = c.lba, !.blocks = c.n, !.to_write = c.n * BlockLen ]
  <2>1. r = read
    BY <1>1, <1>7
  <2>5. u \in Trans /\ u = [ s.t EXCEPT !.lba = c.lba, !.blocks = c.n, !.to_write = c.n * BlockLen ]
    BY <1>d, <1>7, CommandFacts DEF Trans
  <2>6. read = [ s EXCEPT !.t = u, !.sense = "none" ]
    BY <1>d DEF DevFields, Trans
  <2> HIDE DEF u, read
  <2>7. /\ r \in Dev /\ r.in = s.in /\ r.out = s.out /\ r.t = u /\ r.disk = s.disk
        /\ r.sense = "none"
    BY <2>1, <2>5, <2>6, <1>2 DEF Dev, Senses
  <2> QED
    BY <2>5, <2>7, <1>2, <1>d, <1>7
    DEF Trans, StatusOf, Refused, SenseAfter, ReplyLen
<1>8. CASE c.op = "write"
  <2> DEFINE u == [ s.t EXCEPT !.lba = c.lba, !.blocks = c.n, !.cur = 0, !.to_read = c.n * BlockLen ]
  <2>1. r = write
    BY <1>1, <1>8
  <2>5. u \in Trans
        /\ u = [ s.t EXCEPT !.lba = c.lba, !.blocks = c.n, !.cur = 0, !.to_read = c.n * BlockLen ]
    BY <1>d, <1>8, CommandFacts DEF Trans
  <2>6. write = [ s EXCEPT !.t = u ]
    BY <1>d DEF DevFields, Trans
  <2> HIDE DEF u, write
  <2>7. /\ r \in Dev /\ r.in = s.in /\ r.out = s.out /\ r.t = u /\ r.disk = s.disk
        /\ r.sense = s.sense
    BY <2>1, <2>5, <2>6, <1>2 DEF Dev
  <2> QED
    BY <2>5, <2>7, <1>2, <1>d, <1>8
    DEF Trans, StatusOf, Refused, SenseAfter, ReplyLen
<1>9. CASE c.op = "unknown"
  <2> DEFINE u == [ s.t EXCEPT !.status = "failed" ]
  <2>1. r = refused
    BY <1>1, <1>9
  <2>5. u \in Trans /\ u = [ s.t EXCEPT !.status = "failed" ]
    BY <1>d DEF Trans
  <2>6. refused = [ s EXCEPT !.t = u, !.sense = "illegal" ]
    BY <1>d DEF DevFields, Trans
  <2> HIDE DEF u, refused
  <2>7. /\ r \in Dev /\ r.in = s.in /\ r.out = s.out /\ r.t = u /\ r.disk = s.disk
        /\ r.sense = "illegal"
    BY <2>1, <2>5, <2>6, <1>2 DEF Dev, Senses
  <2> QED
    BY <2>5, <2>7, <1>2, <1>d, <1>9
    DEF Trans, StatusOf, Refused, SenseAfter, ReplyLen
<1> QED
  BY <1>3, <1>4, <1>5, <1>m, <1>v, <1>6, <1>7, <1>8, <1>9, CommandFacts

-----------------------------------------------------------------------------
(* Data to the host                                                          *)

(* A block as a sequence, and as what the disk holds                         *)
LEMMA BlockIsSeq ==
    ASSUME NEW b \in Block PROVE b \in Seq(Byte) /\ Len(b) = BlockLen
  BY MscSizes, Enumerated DEF Block

LEMMA DiskBlock ==
    ASSUME NEW d \in Dev, NEW b \in 0 .. NBlocks - 1 PROVE d.disk[b] \in Block
  BY DEF Dev, Disk

(* The block that read_block leaves in the buffer holds what comes next: the *)
(* q-th of the command, from the byte behind the at-th.                      *)
Reading(c, d, q, at, b) ==
    /\ d.t.count = q * BlockLen + at /\ at % EpSize = 0
    /\ d.t.count % BlockLen = at
    /\ BlockNo(c.lba, q) \in DOMAIN d.disk => b = d.disk[BlockNo(c.lba, q)]
    /\ [ d.t EXCEPT !.buf = b, !.cur = q + 1 ] \in Trans
    /\ read_block(d) = [ d EXCEPT !.t = [ d.t EXCEPT !.buf = b, !.cur = q + 1 ] ]

LEMMA ReadResult ==
    ASSUME NEW c \in Commands, c.op = "read", NEW d \in Dev,
           d.t.count < ReplyLen(c), Loaded(c, d.t, d.disk, d.sense)
    PROVE  \E q \in 0 .. c.n - 1, at \in 0 .. BlockLen - 1, b \in Block :
              Reading(c, d, q, at, b)
<1> DEFINE cur == d.t.cur
           count == d.t.count
           k == count - cur * BlockLen
<1>1. /\ c.n \in Nat /\ c.lba \in Nat /\ d.t.buf \in Block
      /\ ReplyLen(c) = c.n * BlockLen /\ c.n * BlockLen \in Nat
  BY CommandFacts DEF ReplyLen, Dev, Trans
<1>2. /\ d.t.lba = c.lba /\ d.t.blocks = c.n /\ cur \in 0 .. c.n /\ k \in 1 - BlockLen .. 0
      /\ (k + BlockLen) % EpSize = 0
      /\ cur > 0 => (BlockNo(c.lba, cur - 1) \in DOMAIN d.disk
                       => d.t.buf = d.disk[BlockNo(c.lba, cur - 1)])
  BY DEF Loaded
<1>3. count \in Nat /\ cur \in Nat /\ cur * BlockLen \in Nat
  BY MulNat, MscSizes DEF Dev, Trans
<1>4. CASE k = 0
  <2>1. count = cur * BlockLen + 0 /\ 0 \in 0 .. BlockLen - 1
    BY <1>3, <1>4, MscSizes
  <2>2. count % BlockLen = 0
    <3>1. (cur * BlockLen + 0) % BlockLen = 0
      BY <1>3, <2>1, MscSizes, DivMod
    <3> QED
      BY <2>1, <3>1
  <2>3. cur < c.n
    <3>1. c.n <= cur => c.n * BlockLen <= cur * BlockLen
      BY <1>1, <1>3, MscSizes, MulMono
    <3> QED
      BY <1>1, <1>3, <2>1, <3>1
  <2> DEFINE b == BlockRead(d.disk, BlockNo(c.lba, cur), d.t.buf)
             v == [ d.t EXCEPT !.buf = b, !.cur = cur + 1 ]
  <2>4. b \in Block /\ (BlockNo(c.lba, cur) \in DOMAIN d.disk => b = d.disk[BlockNo(c.lba, cur)])
    BY <1>1, DiskBlock DEF BlockRead, Dev, Disk
  <2>5. v \in Trans
    <3>1. b \in Block /\ cur + 1 \in Nat /\ d.t \in Trans
      BY <1>3, <2>4 DEF Dev
    <3> HIDE DEF b, cur
    <3> QED
      BY <3>1 DEF Trans
  <2>6. read_block(d) = [ d EXCEPT !.t.buf = b, !.t.cur = cur + 1 ]
    <3>1. d.t.blocks > 0 /\ d.t.count % BlockLen = 0
      BY <1>1, <1>2, <1>3, <2>2, <2>3
    <3>2. read_block(d) = [ d EXCEPT !.t.buf = BlockRead(d.disk, BlockNo(d.t.lba, d.t.cur), @), !.t.cur = @ + 1 ]
      BY <3>1, Zenon DEF read_block
    <3> QED
      BY <1>2, <3>2
  <2>7. read_block(d) = [ d EXCEPT !.t = v ]
    <3> HIDE DEF b, cur
    <3>1. [ d EXCEPT !.t.buf = b, !.t.cur = cur + 1 ] = [ d EXCEPT !.t = v ]
      BY DEF Dev, Trans
    <3> QED
      BY <2>6, <3>1
  <2>8. 0 % EpSize = 0 /\ cur \in 0 .. c.n - 1
    BY <1>1, <1>3, <2>3, MscSizes
  <2>9. d.t.count = cur * BlockLen + 0 /\ d.t.count % BlockLen = 0 /\ 0 \in 0 .. BlockLen - 1
    BY <2>1, <2>2
  <2> HIDE DEF b, cur, count
  <2>10. Reading(c, d, cur, 0, b)
    BY <2>4, <2>5, <2>7, <2>8, <2>9 DEF Reading
  <2> QED
    BY <2>4, <2>8, <2>9, <2>10
<1>5. CASE k < 0
  <2> DEFINE q == cur - 1
             at == k + BlockLen
  <2>1. cur # 0
    <3>1. cur = 0 => cur * BlockLen = 0
      BY MscSizes
    <3> QED
      BY <1>3, <1>5, <3>1
  <2>2. q \in 0 .. c.n - 1 /\ q \in Nat /\ cur = q + 1
    BY <1>1, <1>2, <1>3, <2>1
  <2>3. cur * BlockLen = q * BlockLen + BlockLen
    BY <2>2, MscSizes
  <2>4. at \in 1 .. BlockLen - 1 /\ at % EpSize = 0
    <3> HIDE DEF k
    <3> QED
      BY <1>2, <1>5, MscSizes
  <2>5. count = q * BlockLen + at
    BY <1>3, <2>3, <2>2, MscSizes, MulNat
  <2>6. count % BlockLen = at
    <3> HIDE DEF q, at, count
    <3>1. (q * BlockLen + at) % BlockLen = at
      BY <2>2, <2>4, MscSizes, DivMod
    <3> QED
      BY <2>5, <3>1
  <2>7. BlockNo(c.lba, q) \in DOMAIN d.disk => d.t.buf = d.disk[BlockNo(c.lba, q)]
    BY <1>2, <1>3, <2>1
  <2>8. [ d.t EXCEPT !.buf = d.t.buf, !.cur = q + 1 ] = d.t
    <3> HIDE DEF q
    <3> QED
      BY <2>2 DEF Dev, Trans
  <2>9. read_block(d) = d
    BY <2>4, <2>6 DEF read_block
  <2>10. d = [ d EXCEPT !.t = d.t ] /\ d.t \in Trans
    BY DEF Dev
  <2> HIDE DEF q, at, cur, count
  <2>11. at \in 0 .. BlockLen - 1
    BY <2>4
  <2> DEFINE v == [ d.t EXCEPT !.buf = d.t.buf, !.cur = q + 1 ]
  <2>12. v \in Trans /\ read_block(d) = [ d EXCEPT !.t = v ]
    BY <2>8, <2>9, <2>10
  <2>13. q \in 0 .. c.n - 1 /\ d.t.buf \in Block
    BY <1>1, <2>2
  <2>14. Reading(c, d, q, at, d.t.buf)
    BY <2>4, <2>5, <2>6, <2>7, <2>12 DEF Reading, count
  <2> QED
    BY <2>11, <2>13, <2>14
<1>6. k = 0 \/ k < 0
  <2> HIDE DEF k
  <2> QED
    BY <1>2, MscSizes
<1> HIDE DEF k, count, cur
<1> QED
  BY <1>4, <1>5, <1>6, Zenon

(* Where in the reply to a read a byte of a block is                         *)
LEMMA ReplyAt ==
    ASSUME NEW c \in Commands, c.op = "read", NEW blocks, NEW key,
           NEW q \in 0 .. c.n - 1, NEW o \in 1 .. BlockLen, NEW i, i = q * BlockLen + o, NEW byte,
           BlockNo(c.lba, q) \in DOMAIN blocks => byte = blocks[BlockNo(c.lba, q)][o]
    PROVE  i \in 1 .. c.n * BlockLen /\ MayReply(c, blocks, key, i, byte)
<1>0. c.n \in Nat /\ q \in Nat /\ q * BlockLen \in Nat /\ c.n * BlockLen \in Nat
  BY CommandFacts, MscSizes, MulNat
<1>1. q * BlockLen + BlockLen <= c.n * BlockLen
  BY <1>0, MscSizes, MulNext
<1>2. i \in 1 .. c.n * BlockLen
  BY <1>0, <1>1, MscSizes
<1>3. (i - 1) \div BlockLen = q /\ (i - 1) % BlockLen = o - 1
  <2>1. i - 1 = q * BlockLen + (o - 1) /\ o - 1 \in 0 .. BlockLen - 1
    BY <1>0, MscSizes
  <2>2. (q * BlockLen + (o - 1)) % BlockLen = o - 1 /\ (q * BlockLen + (o - 1)) \div BlockLen = q
    BY <1>0, <2>1, MscSizes, DivMod
  <2> QED
    BY <2>1, <2>2
<1>4. (o - 1) + 1 = o
  OBVIOUS
<1>5. MayReply(c, blocks, key, i, byte)
  BY <1>3, <1>4 DEF MayReply
<1> QED
  BY <1>2, <1>5

(* A packet is put into the endpoint.                                        *)
Offered(e, packet) == [ e EXCEPT !.tx = "VALID", !.tx_buf = packet ]

(* Not more blocks have been read than were asked for.                       *)
LEMMA LoadedCount ==
    ASSUME NEW c \in Commands, NEW u \in Trans, NEW blocks, NEW key, Loaded(c, u, blocks, key)
    PROVE  u.cur \in Nat /\ u.cur <= u.blocks
  BY CommandFacts DEF Loaded

(* The next packet of the reply goes into the endpoint.                      *)
LEMMA SendResult ==
    ASSUME NEW c \in Commands, NEW d \in Dev, d.in.tx # "VALID", ~Unanswered(c),
           d.t.to_write = ReplyLen(c), d.t.count < ReplyLen(c), Loaded(c, d.t, d.disk, d.sense),
           NEW r, r = send_data(d),
           NEW upto, upto = Least(d.t.count + EpSize, ReplyLen(c))
    PROVE  /\ r \in Dev /\ r.out = d.out /\ r.disk = d.disk /\ r.sense = d.sense
           /\ upto \in Nat /\ d.t.count < upto /\ upto <= ReplyLen(c)
           /\ upto <= d.t.count + EpSize
           /\ \E p \in Seq(Byte) :
                 /\ r.in = Offered(d.in, p) /\ Len(p) = upto - d.t.count
                 /\ Fits(c, d.disk, d.sense, d.t.count, p)
           /\ r.t.count = upto
           /\ Loaded(c, r.t, d.disk, d.sense)
           /\ r.t.cbw = d.t.cbw /\ r.t.to_read = d.t.to_read /\ r.t.to_write = d.t.to_write
           /\ r.t.csw_valid = d.t.csw_valid /\ r.t.csw_sent = d.t.csw_sent
           /\ r.t.tag = d.t.tag /\ r.t.status = d.t.status
<1> DEFINE count == d.t.count
           off == count % BlockLen
           size == upto - count
<1>1. /\ d.t \in Trans /\ d.in \in Endpoint /\ d.disk \in Disk /\ d.sense \in Senses
      /\ count \in Nat /\ ReplyLen(c) \in Nat
  BY CommandFacts DEF Dev, Trans
<1>3. upto \in Nat /\ count < upto /\ upto <= ReplyLen(c) /\ upto <= count + EpSize
      /\ size = Least(EpSize, d.t.to_write - count) /\ size \in Nat
  BY <1>1, MscSizes DEF Least
<1> HIDE DEF count
(* What read_block leaves is v, which holds the packet and is Loaded again.  *)
<1> DEFINE Good(v) ==
             /\ v \in Trans /\ v.count = count /\ read_block(d) = [ d EXCEPT !.t = v ]
             /\ off \in Nat /\ off + size <= BlockLen
             /\ \A i \in 1 .. size : MayReply(c, d.disk, d.sense, count + i, v.buf[off + i])
             /\ Loaded(c, [ v EXCEPT !.count = upto ], d.disk, d.sense)
             /\ v.cbw = d.t.cbw /\ v.to_read = d.t.to_read /\ v.to_write = d.t.to_write
             /\ v.csw_valid = d.t.csw_valid /\ v.csw_sent = d.t.csw_sent
             /\ v.tag = d.t.tag /\ v.status = d.t.status
<1>5. ASSUME c.op = "read" PROVE \E v : Good(v)
  <2>0. PICK q \in 0 .. c.n - 1, at \in 0 .. BlockLen - 1, b \in Block : Reading(c, d, q, at, b)
    BY <1>5, ReadResult
  <2>1. /\ count = q * BlockLen + at /\ at % EpSize = 0
        /\ count % BlockLen = at
        /\ BlockNo(c.lba, q) \in DOMAIN d.disk => b = d.disk[BlockNo(c.lba, q)]
        /\ [ d.t EXCEPT !.buf = b, !.cur = q + 1 ] \in Trans
        /\ read_block(d) = [ d EXCEPT !.t = [ d.t EXCEPT !.buf = b, !.cur = q + 1 ] ]
    BY <2>0 DEF Reading, count
  <2> DEFINE v == [ d.t EXCEPT !.buf = b, !.cur = q + 1 ]
             base == q * BlockLen
             total == c.n * BlockLen
  <2>2. /\ c.n \in Nat /\ c.lba \in Nat
        /\ ReplyLen(c) = total /\ total \in Nat
        /\ q \in Nat /\ base \in Nat /\ at \in Nat /\ count = base + at
        /\ (q + 1) * BlockLen = base + BlockLen
        /\ base + BlockLen <= total
    <3>1. c.n \in Nat /\ c.lba \in Nat
        /\ ReplyLen(c) = c.n * BlockLen /\ c.n * BlockLen \in Nat
      BY <1>5, CommandFacts DEF ReplyLen
    <3>2. q \in Nat /\ q < c.n /\ at \in Nat
      BY <3>1, MscSizes
    <3> QED
      BY <2>1, <3>1, <3>2, MulNat, MulNext, MscSizes
  <2> HIDE DEF base, total, v
  <2>3. at + EpSize <= BlockLen /\ (at + EpSize) % EpSize = 0
    BY <2>1, <2>2, MscSizes, OffsetStep
  <2>4. upto = count + EpSize
    BY <1>1, <2>2, <2>3, MscSizes DEF Least, count
  <2>6. off = at /\ size = EpSize
    BY <1>1, <2>1, <2>4, MscSizes
  <2> HIDE DEF off, size
  <2>7. ASSUME NEW i \in 1 .. EpSize PROVE MayReply(c, d.disk, d.sense, count + i, b[at + i])
    <3> DEFINE o == at + i
               j == count + i
               blocks == d.disk
               key == d.sense
               byte == b[o]
    <3>1. o \in 1 .. BlockLen /\ j = q * BlockLen + o
      BY <1>1, <2>2, <2>3, MscSizes DEF base
    <3>2. BlockNo(c.lba, q) \in DOMAIN blocks => byte = blocks[BlockNo(c.lba, q)][o]
      BY <2>1
    <3> HIDE DEF o, j, blocks, key, byte
    <3>3. MayReply(c, blocks, key, j, byte)
      BY <1>5, <3>1, <3>2, ReplyAt
    <3> QED
      BY <3>3 DEF o, j, blocks, key, byte
  <2>8. v \in Trans /\ v = [ d.t EXCEPT !.buf = b, !.cur = q + 1 ]
    BY <2>1 DEF v
  <2> DEFINE w == [ v EXCEPT !.count = upto ]
  <2>9. /\ v.buf = b /\ v.cur = q + 1 /\ v.count = count /\ v.lba = d.t.lba /\ v.blocks = d.t.blocks
        /\ v.cbw = d.t.cbw /\ v.to_read = d.t.to_read /\ v.to_write = d.t.to_write
        /\ v.csw_valid = d.t.csw_valid /\ v.csw_sent = d.t.csw_sent
        /\ v.tag = d.t.tag /\ v.status = d.t.status
    BY <1>1, <2>8 DEF Trans, count
  <2>10. w.buf = b /\ w.cur = q + 1 /\ w.count = upto /\ w.lba = c.lba /\ w.blocks = c.n
    BY <1>5, <2>8, <2>9 DEF Trans, Loaded
  <2> HIDE DEF w
  <2>11. Loaded(c, w, d.disk, d.sense)
    <3>1. upto - (q + 1) * BlockLen = at + EpSize - BlockLen
      BY <1>1, <2>2, <2>4, MscSizes
    <3>2. /\ upto - (q + 1) * BlockLen \in 1 - BlockLen .. 0
          /\ (upto - (q + 1) * BlockLen + BlockLen) % EpSize = 0
      <4>1. (at + EpSize - BlockLen) + BlockLen = at + EpSize
        BY <2>2, MscSizes
      <4> QED
        BY <2>2, <2>3, <3>1, <4>1, MscSizes
    <3>3. q + 1 \in 0 .. c.n /\ (q + 1) - 1 = q
      BY <2>2
    <3> QED
      BY <1>5, <2>1, <2>10, <3>2, <3>3 DEF Loaded
  <2>12. /\ off \in Nat /\ off + size <= BlockLen
         /\ \A i \in 1 .. size : MayReply(c, d.disk, d.sense, count + i, v.buf[off + i])
    BY <2>2, <2>3, <2>6, <2>7, <2>9
  <2>13. Good(v)
    BY <2>1, <2>8, <2>9, <2>11, <2>12 DEF w, v
  <2> QED
    BY <2>13
<1>6. ASSUME c.op # "read" PROVE \E v : Good(v)
  <2>1. c.op \in {"info", "mode", "sense"} /\ ReplyLen(c) = c.n /\ c.n \in Nat /\ c.n <= BlockLen
    <3>1. ReplyLen(c) > 0
      BY <1>1, <1>3
    <3>2. c.op \in {"info", "mode", "sense"}
      BY <1>6, <3>1 DEF ReplyLen, Unanswered
    <3> QED
      BY <1>6, <3>2, CommandFacts, MscSizes DEF ReplyLen
  <2>2. /\ d.t.blocks = 0 /\ d.t.cur = 0
        /\ \A i \in 1 .. ReplyLen(c) : MayReply(c, d.disk, d.sense, i, d.t.buf[i])
    BY <1>6 DEF Loaded
  <2>3. count % BlockLen = count
    BY <1>1, <1>3, <2>1, MscSizes
  <2>4. read_block(d) = d /\ d = [ d EXCEPT !.t = d.t ]
    BY <2>2 DEF read_block, Dev
  <2>5. off = count /\ off + size <= BlockLen /\ \A i \in 1 .. size : count + i \in 1 .. ReplyLen(c)
    BY <1>1, <1>3, <2>1, <2>3, MscSizes
  <2> HIDE DEF off, size
  <2>7. Loaded(c, [ d.t EXCEPT !.count = upto ], d.disk, d.sense)
    BY <1>1, <1>6, <2>2 DEF Loaded, Trans
  <2>8. Good(d.t)
    BY <1>1, <2>2, <2>4, <2>5, <2>7 DEF count
  <2> QED
    BY <2>8
<1>7. PICK v : Good(v)
  BY <1>5, <1>6
<1> DEFINE p == SubSeq(v.buf, off + 1, off + size)
<1>4. /\ p \in Seq(Byte) /\ Len(p) = size
      /\ Fits(c, d.disk, d.sense, count, p)
  <2> DEFINE b == v.buf
             k == off + size
  <2>1. b \in Seq(Byte) /\ Len(b) = BlockLen
    BY <1>7, BlockIsSeq DEF Trans
  <2>2. off \in Nat /\ k \in Nat /\ off <= k /\ k <= Len(b) /\ k - off = size
    BY <1>3, <1>7, <2>1
  <2> HIDE DEF b, k
  <2>3. /\ SubSeq(b, off + 1, k) \in Seq(Byte) /\ Len(SubSeq(b, off + 1, k)) = k - off
        /\ \A i \in 1 .. k - off : SubSeq(b, off + 1, k)[i] = b[off + i]
    BY <2>1, <2>2, Part
  <2>4. p = SubSeq(b, off + 1, k)
    BY DEF b, k
  <2> HIDE DEF p, off, size
  <2>5. \A i \in 1 .. size : MayReply(c, d.disk, d.sense, count + i, b[off + i])
    BY <1>7 DEF b
  <2> QED
    BY <2>2, <2>3, <2>4, <2>5 DEF Fits
<1> DEFINE e == [ d.in EXCEPT !.tx_buf = p, !.tx = "VALID" ]
           u == [ v EXCEPT !.count = upto ]
<1> HIDE DEF p
<1>8. r = [ d EXCEPT !.in = e, !.t = u ]
  <2> DEFINE g == read_block(d)
             w == ep_write_packet(d.in, p)
  <2>1. /\ g.t = v /\ g.in = d.in /\ g.out = d.out /\ g.disk = d.disk /\ g.sense = d.sense
        /\ g = [ d EXCEPT !.t = v ] /\ v.count = count
    BY <1>7 DEF Dev
  <2>2. r = [ g EXCEPT !.in = ep_write_packet(@, p), !.t.count = @ + written(d.in, p) ]
    <3>1. p = SubSeq(g.t.buf, (count % BlockLen) + 1,
                     (count % BlockLen) + Least(EpSize, d.t.to_write - count))
      BY <1>3, <2>1 DEF p
    <3> HIDE DEF g
    <3> QED
      BY <3>1 DEF send_data, g, count
  <2> HIDE DEF g
  <2>3. w = [ d.in EXCEPT !.tx_buf = p, !.tx = "VALID" ] /\ written(d.in, p) = Len(p)
    BY <2>1 DEF ep_write_packet, written
  <2>4. count + Len(p) = upto
    BY <1>1, <1>3, <1>4
  <2> HIDE DEF w, e
  <2>5. r = [ g EXCEPT !.in = w, !.t.count = upto ]
    BY <2>1, <2>2, <2>3, <2>4 DEF w
  <2>6. r = [ d EXCEPT !.in = w, !.t = [ v EXCEPT !.count = upto ] ]
    <3>1. r = [ g EXCEPT !.in = w, !.t = [ g.t EXCEPT !.count = upto ] ]
      BY <2>1, <2>5 DEF Dev
    <3> DEFINE x == [ v EXCEPT !.count = upto ]
    <3>2. r = [ g EXCEPT !.in = w, !.t = x ]
      BY <2>1, <3>1
    <3> HIDE DEF x
    <3>3. r = [ d EXCEPT !.in = w, !.t = x ]
      BY <2>1, <3>2 DEF Dev
    <3> QED
      BY <3>3 DEF x
  <2> QED
    BY <2>3, <2>6 DEF e
<1>9. e \in Endpoint /\ u \in Trans
  <2> DEFINE f == d.in
  <2>1. f \in Endpoint /\ p \in Seq(Byte)
    BY <1>1, <1>4
  <2>2. v \in Trans /\ upto \in Nat
    BY <1>3, <1>7
  <2>3. u \in Trans
    BY <2>2 DEF Trans
  <2> HIDE DEF f
  <2>4. [ f EXCEPT !.tx_buf = p, !.tx = "VALID" ] \in Endpoint
    BY <2>1 DEF Endpoint, Stats
  <2> QED
    BY <2>3, <2>4 DEF f
<1>10. u.count = upto /\ u.cbw = v.cbw /\ u.to_read = v.to_read /\ u.to_write = v.to_write
       /\ u.csw_valid = v.csw_valid /\ u.csw_sent = v.csw_sent
       /\ u.tag = v.tag /\ u.status = v.status
  BY <1>7 DEF Trans
<1>e. e = [ d.in EXCEPT !.tx = "VALID", !.tx_buf = p ]
  BY <1>1 DEF Endpoint
<1>l. Loaded(c, u, d.disk, d.sense)
  BY <1>7
<1> HIDE DEF e, u
<1>11. /\ r \in Dev /\ r.in = e /\ r.t = u /\ r.out = d.out /\ r.disk = d.disk
       /\ r.sense = d.sense
  BY <1>8, <1>9 DEF Dev
<1>12. /\ p \in Seq(Byte) /\ r.in = Offered(d.in, p) /\ Len(p) = upto - d.t.count
       /\ Fits(c, d.disk, d.sense, d.t.count, p)
  BY <1>4, <1>11, <1>e DEF count, Offered
<1>13. \E q \in Seq(Byte) :
          /\ r.in = Offered(d.in, q) /\ Len(q) = upto - d.t.count
          /\ Fits(c, d.disk, d.sense, d.t.count, q)
  BY <1>12
<1> QED
  BY <1>3, <1>7, <1>10, <1>11, <1>13, <1>l DEF count

-----------------------------------------------------------------------------
(* The status                                                                *)

(* The status of c can be sent, or is sent.                                  *)
Decided(c, d) ==
    /\ d.t.cbw = CbwBytes(c) /\ d.t.tag = c /\ d.t.status = StatusOf(c)
    /\ d.sense = SenseAfter(c, d.sense)
    /\ c.op = "unknown" => d.t.to_read = 0 /\ d.t.to_write = 0

(* Asked for its status, a command that is decided changes nothing.          *)
LEMMA NeedStatusIs ==
    ASSUME NEW c \in Commands, NEW d \in Dev, Decided(c, d)
    PROVE  need_status(d) = d
<1>0. d.t.cbw[1][2] = c
  BY BytesFacts DEF Decided
<1> DEFINE ready == [ d EXCEPT !.sense = "none" ]
           unknown == [ d EXCEPT !.t.status = "failed", !.sense = "illegal",
                                 !.t.to_write = 0, !.t.to_read = 0 ]
<1>1. need_status(d) = CASE c.op = "ready" -> ready [] c.op = "unknown" -> unknown [] OTHER -> d
  BY <1>0 DEF need_status
<1>2. c.op = "ready" => ready = d
  BY DEF Dev, Decided, SenseAfter
<1>3. c.op = "unknown" => unknown = d
  <2> SUFFICES ASSUME c.op = "unknown" PROVE unknown = d
    OBVIOUS
  <2>1. /\ d.t.status = "failed" /\ d.sense = "illegal"
        /\ d.t.to_read = 0 /\ d.t.to_write = 0 /\ d.t \in Trans
    BY DEF Dev, Decided, SenseAfter, StatusOf, Refused
  <2>2. d.t = [ d.t EXCEPT !.status = "failed", !.to_write = 0, !.to_read = 0 ]
    BY <2>1 DEF Trans
  <2>3. unknown = [ d EXCEPT !.t = [ d.t EXCEPT !.status = "failed", !.to_write = 0, !.to_read = 0 ],
                             !.sense = "illegal" ]
    BY <2>1 DEF Dev, Trans
  <2> QED
    BY <2>1, <2>2, <2>3 DEF Dev
<1> HIDE DEF ready, unknown
<1> QED
  BY <1>1, <1>2, <1>3

(* All but what tells of the status                                          *)
SameWork(u, v) ==
    /\ u.cbw = v.cbw /\ u.to_read = v.to_read /\ u.to_write = v.to_write /\ u.count = v.count
    /\ u.lba = v.lba /\ u.blocks = v.blocks /\ u.cur = v.cur
    /\ u.tag = v.tag /\ u.status = v.status /\ u.buf = v.buf

(* The status goes into the endpoint in one packet, and then not again.      *)
LEMMA StatusFirst ==
    ASSUME NEW c \in Commands, NEW d \in Dev, Decided(c, d), ~d.t.csw_valid, d.t.csw_sent = 0,
           d.in.tx # "VALID", CswLen <= EpSize,
           NEW r, r = send_status(d)
    PROVE  /\ r \in Dev /\ r.out = d.out /\ r.disk = d.disk /\ r.sense = d.sense
           /\ r.in = Offered(d.in, CswBytes(c, StatusOf(c)))
           /\ r.t.csw_valid /\ r.t.csw_sent = CswLen /\ SameWork(r.t, d.t)
<1> DEFINE v == [ d EXCEPT !.t.csw_valid = TRUE ]
           p == CswBytes(c, StatusOf(c))
           e == [ d.in EXCEPT !.tx = "VALID", !.tx_buf = p ]
           u == [ d.t EXCEPT !.csw_valid = TRUE, !.csw_sent = CswLen ]
<1>1. need_status(d) = d
  BY NeedStatusIs
<1>2. p \in Seq(Byte) /\ Len(p) = CswLen
  BY BytesFacts DEF StatusOf
<1>3. Least(CswLen, 0 + EpSize) = CswLen
  BY MscSizes DEF Least
<1>4. SubSeq(p, 0 + 1, CswLen) = p
  BY <1>2, MscSizes, Part
<1>5. /\ v.t.csw_sent = 0 /\ v.t.tag = c /\ v.t.status = StatusOf(c) /\ v.in = d.in
      /\ v = [ d EXCEPT !.t.csw_valid = TRUE ]
  BY DEF Dev, Trans, Decided
<1> HIDE DEF p, v
<1>6. r = [ v EXCEPT !.in = ep_write_packet(@, p), !.t.csw_sent = @ + written(v.in, p) ]
  <2> DEFINE sent == v.t.csw_sent
             packet == SubSeq(CswBytes(v.t.tag, v.t.status), sent + 1, Least(CswLen, sent + EpSize))
  <2>1. r = IF sent < CswLen
            THEN [ v EXCEPT !.in = ep_write_packet(@, packet),
                            !.t.csw_sent = @ + written(v.in, packet) ]
            ELSE v
    BY <1>1 DEF send_status, v
  <2>2. sent < CswLen
    BY <1>5, MscSizes
  <2>3. packet = p
    BY <1>3, <1>4, <1>5 DEF p
  <2> HIDE DEF packet, sent
  <2> QED
    BY <2>1, <2>2, <2>3
<1>7. ep_write_packet(v.in, p) = [ d.in EXCEPT !.tx_buf = p, !.tx = "VALID" ]
      /\ written(v.in, p) = CswLen
  BY <1>2, <1>5 DEF ep_write_packet, written
<1> DEFINE w == ep_write_packet(v.in, p)
<1>8. w = e
  BY <1>7 DEF Dev, Endpoint
<1> HIDE DEF w, e
<1>9. r = [ v EXCEPT !.in = e, !.t.csw_sent = CswLen ]
  <2>1. v.t.csw_sent + written(v.in, p) = CswLen
    BY <1>5, <1>7, MscSizes
  <2>2. r = [ v EXCEPT !.in = w, !.t.csw_sent = v.t.csw_sent + written(v.in, p) ]
    BY <1>6 DEF w
  <2> QED
    BY <1>8, <2>1, <2>2
<1>10. r = [ d EXCEPT !.in = e, !.t = u ]
  BY <1>5, <1>9 DEF Dev, Trans
<1>11. e \in Endpoint /\ u \in Trans
  BY <1>2, MscSizes DEF e, Dev, Endpoint, Trans, Stats
<1>12. u.csw_valid /\ u.csw_sent = CswLen /\ SameWork(u, d.t)
  BY DEF Dev, Trans, SameWork
<1> HIDE DEF u
<1>13. e = Offered(d.in, CswBytes(c, StatusOf(c)))
  BY DEF e, p, Offered, Dev, Endpoint
<1> QED
  BY <1>10, <1>11, <1>12, <1>13 DEF Dev

LEMMA StatusAgain ==
    ASSUME NEW d \in Dev, d.t.csw_valid, d.t.csw_sent = CswLen
    PROVE  send_status(d) = d
  BY MscSizes DEF send_status

-----------------------------------------------------------------------------
(* Data from the host                                                        *)

(* The bytes of a block that is written                                      *)
LEMMA ContentIs ==
    ASSUME NEW c \in Commands, Writes(c), NEW k \in 0 .. c.n - 1,
           NEW b, b = BlockNo(c.lba, k)
    PROVE  /\ Content(c, b) \in Seq(Byte) /\ Len(Content(c, b)) = BlockLen
           /\ \A i \in 1 .. BlockLen : Content(c, b)[i] = <<"data", k * BlockLen + i>>
           /\ Content(c, b) \in Block
<1>1. /\ c.op = "write" /\ c.n \in Nat /\ c.lba \in Nat /\ c.n * BlockLen \in Nat
      /\ k \in Nat /\ k < c.n
  BY CommandFacts DEF Writes
<1> DEFINE m == k * BlockLen
           n == (k + 1) * BlockLen
           s == DataOut(c)
<1>2. m \in Nat /\ n = m + BlockLen /\ n <= c.n * BlockLen
  BY <1>1, MulNat, MulNext, MscSizes
<1>3. s \in Seq(Byte) /\ Len(s) = c.n * BlockLen
  BY <1>1, BytesFacts
<1>4. \A i \in 1 .. c.n * BlockLen : s[i] = <<"data", i>>
  BY DEF DataOut
<1>5. Content(c, b) = SubSeq(s, m + 1, n)
  <2> DEFINE l == CHOOSE j \in 0 .. c.n - 1 : BlockNo(c.lba, j) = b
  <2>1. \E j \in 0 .. c.n - 1 : BlockNo(c.lba, j) = b
    OBVIOUS
  <2>2. l \in 0 .. c.n - 1 /\ BlockNo(c.lba, l) = b
    BY <2>1
  <2> HIDE DEF l
  <2>3. l = k
    BY <1>1, <2>2, BlockNoApart
  <2>4. Content(c, b) = SubSeq(DataOut(c), l * BlockLen + 1, (l + 1) * BlockLen)
    BY <1>1 DEF Content, l
  <2> QED
    BY <2>3, <2>4
<1> HIDE DEF m, n, s
<1>6. /\ SubSeq(s, m + 1, n) \in Seq(Byte) /\ Len(SubSeq(s, m + 1, n)) = n - m
      /\ \A i \in 1 .. n - m : SubSeq(s, m + 1, n)[i] = s[m + i]
  <2>1. n \in Nat /\ m <= n /\ n <= Len(s)
    BY <1>1, <1>2, <1>3, MscSizes
  <2> QED
    BY <1>2, <1>3, <2>1, Part
<1>7. n - m = BlockLen
  BY <1>2, MscSizes
<1>8. ASSUME NEW i \in 1 .. BlockLen PROVE Content(c, b)[i] = <<"data", m + i>>
  <2>1. m + i \in 1 .. c.n * BlockLen
    BY <1>1, <1>2, MscSizes
  <2> QED
    BY <1>4, <1>5, <1>6, <1>7, <2>1
<1>9. Content(c, b) \in Block
  <2>1. Content(c, b) \in [ 1 .. BlockLen -> Byte ]
    <3>1. /\ Content(c, b) \in Seq(Byte) /\ Len(Content(c, b)) = BlockLen
      BY <1>5, <1>6, <1>7
    <3> HIDE DEF Byte
    <3> QED
      BY <3>1
  <2> QED
    BY <2>1 DEF Block
<1> QED
  BY <1>5, <1>6, <1>7, <1>8, <1>9 DEF m

(* What has come in of the block that is being received                      *)
Filled(c, d) ==
    /\ Writes(c) /\ d.t.to_read = c.n * BlockLen /\ d.t.to_write = 0
    /\ d.t.lba = c.lba /\ d.t.blocks = c.n
    /\ d.t.cur \in 0 .. c.n /\ d.t.count \in 0 .. d.t.to_read
    /\ d.t.count - d.t.cur * BlockLen \in 0 .. BlockLen - 1
    /\ (d.t.count - d.t.cur * BlockLen) % EpSize = 0
    /\ OnDisk(c, d.disk, d.t.cur)
    /\ \A i \in 1 .. d.t.count - d.t.cur * BlockLen :
          d.t.buf[i] = <<"data", d.t.cur * BlockLen + i>>

Arrived(c, d) ==
    /\ d.out.rx = "NAK" /\ d.t.count < d.t.to_read
    /\ d.out.rx_buf = SubSeq(DataOut(c), d.t.count + 1, d.t.count + EpSize)

received(d) ==
    LET packet == read_packet_data(d.out, Least(EpSize, d.t.to_read - d.t.count)) IN
    [ d EXCEPT !.out = ep_read_packet(@),
               !.t.buf = Put(@, d.t.count % BlockLen, packet),
               !.t.count = @ + Len(packet) ]

(* A packet that comes into the block, in numbers                            *)
LEMMA InBlock ==
    ASSUME NEW n, NEW cur, n \in Nat, cur \in 0 .. n,
           NEW count, count \in Nat, count < n * BlockLen,
           NEW off, off \in 0 .. BlockLen - 1, off % EpSize = 0,
           NEW base, base \in Nat, base = cur * BlockLen, count = base + off
    PROVE  /\ cur < n /\ count % BlockLen = off
           /\ (cur + 1) * BlockLen = base + BlockLen /\ base + BlockLen <= n * BlockLen
           /\ off + EpSize <= BlockLen /\ (off + EpSize) % EpSize = 0
           /\ count + EpSize <= n * BlockLen
           /\ (count + EpSize) % BlockLen = 0 <=> off + EpSize = BlockLen
<1>s. EpSize \in Nat /\ EpSize > 0 /\ BlockLen \in Nat /\ BlockLen > 0 /\ cur \in Nat /\ off \in Nat
  BY MscSizes
<1>1. cur < n
  <2>1. n <= cur => n * BlockLen <= base
    BY MulMono, MscSizes
  <2> QED
    BY <2>1, <1>s, MulNat
<1>2. (cur + 1) * BlockLen = base + BlockLen /\ base + BlockLen <= n * BlockLen
  BY <1>s, <1>1, MulNext
<1>3. ASSUME NEW q \in Nat, NEW o \in 0 .. BlockLen - 1,
             NEW m \in Nat, m = q * BlockLen, NEW a \in Nat, a = m + o
      PROVE  a % BlockLen = o
  <2>1. (q * BlockLen + o) % BlockLen = o
    BY MscSizes, DivMod
  <2> QED
    BY <2>1, <1>3
<1>4. count % BlockLen = off
  BY <1>s, <1>3
<1>5. off + EpSize <= BlockLen /\ (off + EpSize) % EpSize = 0
  <2> DEFINE o == off
             e == EpSize
             b == BlockLen
  <2>1. e \in Nat /\ b \in Nat /\ o \in Nat /\ e > 0 /\ b % e = 0 /\ o < b /\ o % e = 0
    BY <1>s, MscSizes
  <2> HIDE DEF e, b, o
  <2>2. o + e <= b /\ (o + e) % e = 0
    BY <2>1, OffsetStep
  <2> QED
    BY <2>2 DEF e, b, o
<1>6. count + EpSize <= n * BlockLen
  <2> DEFINE m == n * BlockLen
  <2>1. m \in Nat /\ base + BlockLen <= m /\ off + EpSize <= BlockLen
    BY <1>s, <1>2, <1>5, MulNat
  <2> HIDE DEF m
  <2>2. count + EpSize <= m
    BY <1>s, <2>1
  <2> QED
    BY <2>2 DEF m
<1>7. (count + EpSize) % BlockLen = 0 <=> off + EpSize = BlockLen
  <2> DEFINE a == count + EpSize
             o == off + EpSize
             q == cur + 1
             m == q * BlockLen
  <2>0. o <= BlockLen /\ m = base + BlockLen /\ q \in Nat /\ o \in Nat /\ o > 0
        /\ a = base + o /\ a \in Nat /\ m \in Nat
    BY <1>s, <1>2, <1>5
  <2> HIDE DEF a, o, q, m
  <2>1. CASE o = BlockLen
    <3>1. a = m + 0 /\ 0 \in 0 .. BlockLen - 1
      BY <1>s, <2>0, <2>1
    <3>2. a % BlockLen = 0
      BY <2>0, <3>1, <1>3 DEF m
    <3> QED
      BY <2>1, <3>2 DEF a, o
  <2>2. CASE o # BlockLen
    <3>1. o \in 1 .. BlockLen - 1 /\ o \in 0 .. BlockLen - 1
      BY <1>s, <2>0, <2>2
    <3>2. a % BlockLen = o
      BY <1>s, <2>0, <3>1, <1>3
    <3> QED
      BY <2>2, <3>1, <3>2 DEF o, a
  <2> QED
    BY <2>1, <2>2
<1> QED
  BY <1>1, <1>2, <1>4, <1>5, <1>6, <1>7

(* The same of a write that has data to come                                 *)
LEMMA FilledFacts ==
    ASSUME NEW c \in Commands, NEW d \in Dev, Filled(c, d), d.t.count < d.t.to_read
    PROVE  \E base, off, total \in Nat :
           /\ c.op = "write" /\ c.n \in Nat /\ c.lba \in Nat
           /\ total = c.n * BlockLen /\ d.t.to_read = total
           /\ base = d.t.cur * BlockLen /\ base + BlockLen = (d.t.cur + 1) * BlockLen
           /\ base + BlockLen <= total
           /\ d.t.cur \in Nat /\ d.t.cur < c.n /\ d.t.count \in Nat
           /\ d.t.count = base + off /\ d.t.count % BlockLen = off
           /\ off + EpSize <= BlockLen /\ (off + EpSize) % EpSize = 0
           /\ d.t.count + EpSize <= total
           /\ (d.t.count + EpSize) % BlockLen = 0 <=> off + EpSize = BlockLen
<1> DEFINE cur == d.t.cur
           count == d.t.count
           base == cur * BlockLen
           off == count - base
           n == c.n
           total == n * BlockLen
<1>1. /\ c.op = "write" /\ n \in Nat /\ c.lba \in Nat /\ total \in Nat
  BY CommandFacts DEF Filled, Writes
<1>2. d.t.to_read = total /\ cur \in 0 .. n /\ count \in Nat
  BY <1>1 DEF Filled
<1>3. off \in 0 .. BlockLen - 1 /\ off % EpSize = 0
  BY DEF Filled
<1>4. base \in Nat /\ cur \in Nat
  BY <1>1, <1>2, MulNat, MscSizes
<1>5. count < n * BlockLen
  BY <1>2
<1>s. BlockLen \in Nat
  BY MscSizes
<1> HIDE DEF cur, n, count
<1>6. count = base + off /\ off \in Nat
  <2> HIDE DEF base
  <2> QED
    BY <1>2, <1>3, <1>4, <1>s
<1>7. base = cur * BlockLen /\ total = n * BlockLen
  OBVIOUS
<1> HIDE DEF base, off, total
<1>8. /\ cur < n /\ count % BlockLen = off
      /\ (cur + 1) * BlockLen = base + BlockLen /\ base + BlockLen <= n * BlockLen
      /\ off + EpSize <= BlockLen /\ (off + EpSize) % EpSize = 0
      /\ count + EpSize <= n * BlockLen
      /\ (count + EpSize) % BlockLen = 0 <=> off + EpSize = BlockLen
  BY <1>1, <1>2, <1>3, <1>4, <1>5, <1>6, <1>7, InBlock
<1>9. /\ base + BlockLen = (cur + 1) * BlockLen /\ base + BlockLen <= total
      /\ count + EpSize <= total
  BY <1>7, <1>8
<1> QED
  BY <1>1, <1>2, <1>4, <1>6, <1>7, <1>8, <1>9 DEF cur, n, count

(* A packet of what the host sends                                           *)
LEMMA DataPacket ==
    ASSUME NEW c \in Commands, c.op = "write", NEW m \in Nat, NEW k \in Nat,
           m <= k, k <= c.n * BlockLen
    PROVE  /\ SubSeq(DataOut(c), m + 1, k) \in Seq(Byte)
           /\ Len(SubSeq(DataOut(c), m + 1, k)) = k - m
           /\ \A i \in 1 .. k - m : SubSeq(DataOut(c), m + 1, k)[i] = <<"data", m + i>>
<1> DEFINE s == DataOut(c)
           total == c.n * BlockLen
<1>1. s \in Seq(Byte) /\ Len(s) = total /\ total \in Nat
  BY BytesFacts, CommandFacts
<1>2. \A i \in 1 .. total : s[i] = <<"data", i>>
  BY DEF DataOut
<1>3. k <= total
  OBVIOUS
<1> HIDE DEF s, total
<1>4. m <= k /\ k <= Len(s)
  BY <1>1, <1>3
<1>5. /\ SubSeq(s, m + 1, k) \in Seq(Byte) /\ Len(SubSeq(s, m + 1, k)) = k - m
      /\ \A i \in 1 .. k - m : SubSeq(s, m + 1, k)[i] = s[m + i]
  BY <1>1, <1>4, Part
<1>6. \A i \in 1 .. k - m : m + i \in 1 .. total
  BY <1>1, <1>3
<1> QED
  BY <1>2, <1>5, <1>6 DEF s

Emptied(e) == [ e EXCEPT !.ctr_rx = FALSE, !.rx = "VALID" ]

(* Of the same command, as far                                               *)
Alike(u, v) ==
    /\ u.cbw = v.cbw /\ u.to_read = v.to_read /\ u.to_write = v.to_write
    /\ u.lba = v.lba /\ u.blocks = v.blocks
    /\ u.csw_valid = v.csw_valid /\ u.csw_sent = v.csw_sent
    /\ u.tag = v.tag /\ u.status = v.status

(* The packet goes where the block left off.                                 *)
LEMMA ReceivedIs ==
    ASSUME NEW c \in Commands, NEW d \in Dev, Filled(c, d), Arrived(c, d),
           NEW r, r = received(d)
    PROVE  /\ r \in Dev /\ r.in = d.in /\ r.disk = d.disk /\ r.sense = d.sense
           /\ r.out = Emptied(d.out)
           /\ r.t.count = d.t.count + EpSize /\ r.t.cur = d.t.cur /\ Alike(r.t, d.t)
           /\ \A i \in 1 .. d.t.count - d.t.cur * BlockLen + EpSize :
                 r.t.buf[i] = <<"data", d.t.cur * BlockLen + i>>
<1>0. Filled(c, d) /\ d.t.count < d.t.to_read
  BY DEF Arrived
<1>1. PICK base \in Nat, off \in Nat, total \in Nat :
           /\ c.op = "write"
           /\ total = c.n * BlockLen /\ d.t.to_read = total
           /\ base = d.t.cur * BlockLen
           /\ d.t.count \in Nat /\ d.t.count = base + off /\ d.t.count % BlockLen = off
           /\ off + EpSize <= BlockLen /\ d.t.count + EpSize <= total
  BY <1>0, FilledFacts
<1> DEFINE count == d.t.count
           p == SubSeq(DataOut(c), count + 1, count + EpSize)
           e == [ d.out EXCEPT !.ctr_rx = FALSE, !.rx = "VALID" ]
           b == Put(d.t.buf, off, p)
           u == [ d.t EXCEPT !.buf = b, !.count = count + EpSize ]
<1>n. /\ count \in Nat /\ count = base + off /\ off + EpSize <= BlockLen
      /\ d.t.to_read = total /\ count + EpSize <= total
      /\ EpSize \in Nat /\ EpSize > 0 /\ BlockLen \in Nat
  BY <1>1, MscSizes
<1>2. p \in Seq(Byte) /\ Len(p) = EpSize /\ \A i \in 1 .. EpSize : p[i] = <<"data", count + i>>
  <2> DEFINE k == count + EpSize
             m == count
  <2>1. /\ k \in Nat /\ k - m = EpSize /\ m <= k /\ k <= c.n * BlockLen /\ c.op = "write"
        /\ m \in Nat
    <3>1. k \in Nat /\ k - m = EpSize /\ m <= k /\ m \in Nat /\ k <= total
      BY <1>n
    <3> HIDE DEF k, m
    <3> QED
      BY <1>1, <3>1
  <2> HIDE DEF k, m
  <2>2. /\ SubSeq(DataOut(c), m + 1, k) \in Seq(Byte)
        /\ Len(SubSeq(DataOut(c), m + 1, k)) = k - m
        /\ \A i \in 1 .. k - m : SubSeq(DataOut(c), m + 1, k)[i] = <<"data", m + i>>
    BY <2>1, DataPacket
  <2> QED
    BY <2>1, <2>2 DEF k, m
<1>3. d.out.rx = "NAK" /\ d.out.rx_buf = p /\ d.out \in Endpoint /\ d.out.force_nak = FALSE
      /\ d.t \in Trans /\ d.t.buf \in Block
  BY DEF Arrived, Dev, Endpoint, Trans
<1> HIDE DEF p
<1>4. read_packet_data(d.out, Least(EpSize, d.t.to_read - d.t.count)) = p
  <2>1. Least(EpSize, d.t.to_read - d.t.count) = EpSize
    BY <1>n DEF Least
  <2>2. SubSeq(p, 1, EpSize) = p
    BY <1>2, <1>n
  <2>3. read_packet_data(d.out, EpSize) = SubSeq(p, 1, EpSize)
    BY <1>2, <1>3, <1>n DEF read_packet_data
  <2> QED
    BY <2>1, <2>2, <2>3
<1>5. ep_read_packet(d.out) = e
  BY <1>3 DEF ep_read_packet, Endpoint
<1> HIDE DEF e
<1>6. r = [ d EXCEPT !.out = e, !.t.buf = Put(@, off, p), !.t.count = @ + EpSize ]
  BY <1>1, <1>2, <1>4, <1>5 DEF received
<1>7. b \in Block /\ \A i \in 1 .. BlockLen : b[i] = IF i \in off + 1 .. off + EpSize
                                                     THEN p[i - off] ELSE d.t.buf[i]
  <2> DEFINE s == d.t.buf
  <2>1. s \in Block
    BY <1>3
  <2> HIDE DEF s
  <2>2. /\ Put(s, off, p) \in Block
        /\ \A i \in 1 .. BlockLen : Put(s, off, p)[i] = IF i \in off + 1 .. off + EpSize
                                                        THEN p[i - off] ELSE s[i]
    <3>1. off \in Nat /\ p \in Seq(Byte) /\ Len(p) = EpSize
      BY <1>2, <1>n
    <3>2. /\ Put(s, off, p) \in Block
          /\ \A i \in 1 .. BlockLen : Put(s, off, p)[i] = IF i \in off + 1 .. off + Len(p)
                                                          THEN p[i - off] ELSE s[i]
      BY <2>1, <3>1, PutIs
    <3> QED
      BY <3>1, <3>2
  <2> QED
    BY <2>2 DEF s
<1>8. r = [ d EXCEPT !.out = e, !.t.buf = b, !.t.count = count + EpSize ]
  BY <1>6
<1> HIDE DEF b
<1>9. u \in Trans /\ u.buf = b /\ u.count = count + EpSize
  <2>1. b \in Block /\ count + EpSize \in Nat
    BY <1>n, <1>7
  <2> QED
    BY <1>3, <2>1 DEF Trans
<1>10. r = [ d EXCEPT !.out = e, !.t = u ]
  BY <1>8 DEF Dev, Trans
<1>11. e \in Endpoint
  BY <1>3 DEF e, Endpoint, Stats
<1>12. u.cur = d.t.cur /\ Alike(u, d.t)
  BY <1>3 DEF Trans, Alike
<1> HIDE DEF u
<1>13. /\ r \in Dev /\ r.in = d.in /\ r.disk = d.disk /\ r.sense = d.sense
       /\ r.out = e /\ r.t = u
  BY <1>9, <1>10, <1>11 DEF Dev
<1>14. ASSUME NEW i \in 1 .. off + EpSize PROVE b[i] = <<"data", base + i>>
  <2>1. CASE i <= off
    <3>1. off = d.t.count - d.t.cur * BlockLen
      BY <1>1, <1>n
    <3>2. d.t.buf[i] = <<"data", base + i>>
      BY <2>1, <3>1, <1>1 DEF Filled
    <3> QED
      BY <1>n, <1>7, <2>1, <3>2
  <2>2. CASE i > off
    <3> DEFINE j == i - off
    <3> HIDE DEF count
    <3>1. j \in 1 .. EpSize /\ i \in off + 1 .. off + EpSize /\ i \in 1 .. BlockLen
          /\ count + j = base + i
      BY <1>n, <2>2
    <3> HIDE DEF j
    <3>2. p[j] = <<"data", base + i>>
      BY <1>2, <3>1
    <3> QED
      BY <1>7, <3>1, <3>2 DEF j
  <2> QED
    BY <1>n, <2>1, <2>2
<1>15. off = d.t.count - d.t.cur * BlockLen
  BY <1>1, <1>n
<1> QED
  BY <1>1, <1>9, <1>12, <1>13, <1>14, <1>15 DEF e, Emptied

(* One block written, or none                                                *)
Wrote(c, before, after) ==
    after = before \/ \E b \in Addressed(c) : after = [ before EXCEPT ![b] = Content(c, b) ]

(* A packet fills the block, or ends it: then it is on the disk.             *)
LEMMA WrittenIs ==
    ASSUME NEW c \in Commands, NEW d \in Dev, Filled(c, d), Arrived(c, d),
           NEW m, m = received(d), NEW w, w = write_block(m)
    PROVE  /\ w \in Dev /\ w.in = d.in /\ w.sense = d.sense
           /\ w.out = Emptied(d.out)
           /\ Filled(c, w) /\ w.t.count = d.t.count + EpSize /\ Wrote(c, d.disk, w.disk)
           /\ Alike(w.t, d.t)
<1>0. Filled(c, d) /\ d.t.count < d.t.to_read
  BY DEF Arrived
<1>1. PICK base \in Nat, off \in Nat, total \in Nat :
           /\ c.op = "write" /\ c.n \in Nat /\ c.lba \in Nat
           /\ total = c.n * BlockLen /\ d.t.to_read = total
           /\ base = d.t.cur * BlockLen /\ base + BlockLen = (d.t.cur + 1) * BlockLen
           /\ base + BlockLen <= total
           /\ d.t.cur \in Nat /\ d.t.cur < c.n /\ d.t.count \in Nat
           /\ d.t.count = base + off /\ d.t.count % BlockLen = off
           /\ off + EpSize <= BlockLen /\ (off + EpSize) % EpSize = 0
           /\ d.t.count + EpSize <= total
           /\ (d.t.count + EpSize) % BlockLen = 0 <=> off + EpSize = BlockLen
  BY <1>0, FilledFacts
<1> DEFINE cur == d.t.cur
           count == d.t.count
           upto == count + EpSize
           lba == c.lba
           n == c.n
<1>n. /\ count \in Nat /\ count = base + off /\ off + EpSize <= BlockLen /\ cur \in Nat /\ cur < n
      /\ d.t.to_read = total /\ upto <= total /\ upto = base + off + EpSize /\ upto \in Nat
      /\ base + BlockLen <= total /\ lba \in Nat /\ n \in Nat
      /\ EpSize \in Nat /\ EpSize > 0 /\ BlockLen \in Nat /\ NBlocks \in Nat
      /\ d.t.count - d.t.cur * BlockLen = off
  BY <1>1, MscSizes
<1>r. /\ m \in Dev /\ m.in = d.in /\ m.disk = d.disk /\ m.sense = d.sense
      /\ m.out = Emptied(d.out)
      /\ m.t.count = d.t.count + EpSize /\ m.t.cur = d.t.cur /\ Alike(m.t, d.t)
      /\ \A i \in 1 .. d.t.count - d.t.cur * BlockLen + EpSize :
            m.t.buf[i] = <<"data", d.t.cur * BlockLen + i>>
  BY ReceivedIs
<1>2. /\ m.t.count = upto
      /\ \A i \in 1 .. off + EpSize : m.t.buf[i] = <<"data", base + i>>
  <2>1. d.t.count - d.t.cur * BlockLen = off /\ d.t.cur * BlockLen = base
    BY <1>1, <1>n
  <2> QED
    BY <1>r, <2>1
<1>3. /\ m.t \in Trans /\ m.t.buf \in Block /\ m.disk \in Disk /\ m.t.cur = cur
      /\ m.t.lba = lba /\ m.t.blocks = n /\ m.t.to_read = total /\ m.t.to_write = 0
  <2>1. m.t \in Trans /\ m.t.buf \in Block /\ m.disk \in Disk
    BY <1>r DEF Dev, Trans
  <2> QED
    BY <1>n, <1>r, <2>1 DEF Filled, Alike
<1>4. OnDisk(c, m.disk, cur)
  BY <1>r DEF Filled
<1>w. Writes(c)
  BY DEF Filled
<1> HIDE DEF cur, count, upto, lba, n
<1>5. CASE off + EpSize = BlockLen
  <2> DEFINE b == BlockNo(lba, cur)
             v == [ m.t EXCEPT !.cur = cur + 1 ]
             k == BlockWritten(m.disk, b, m.t.buf)
             next == cur + 1
  <2>1. w = [ m EXCEPT !.disk = k, !.t.cur = next ]
    <3>1. m.t.blocks > 0 /\ m.t.count % BlockLen = 0
      <4>1. upto % BlockLen = 0
        BY <1>1, <1>5 DEF upto, count
      <4> QED
        BY <1>2, <1>3, <1>n, <4>1
    <3>2. w = [ m EXCEPT !.disk = BlockWritten(@, BlockNo(m.t.lba, m.t.cur), m.t.buf), !.t.cur = @ + 1 ]
      BY <3>1, Zenon DEF write_block
    <3> QED
      BY <1>3, <3>2
  <2>2. m.t.buf = Content(c, b)
    <3> DEFINE s == m.t.buf
               z == Content(c, b)
    <3>1. s \in Seq(Byte) /\ Len(s) = BlockLen
      BY <1>3, BlockIsSeq
    <3>2. /\ z \in Seq(Byte) /\ Len(z) = BlockLen
          /\ \A i \in 1 .. BlockLen : z[i] = <<"data", base + i>>
      <4>1. cur \in 0 .. c.n - 1 /\ b = BlockNo(c.lba, cur) /\ base = cur * BlockLen
        BY <1>1, <1>n DEF lba, n, cur
      <4> HIDE DEF b, z
      <4> QED
        BY <1>w, <4>1, ContentIs DEF z
    <3>3. \A i \in 1 .. BlockLen : s[i] = <<"data", base + i>>
      BY <1>2, <1>5
    <3> HIDE DEF s, z
    <3>4. s = z
      BY <3>1, <3>2, <3>3, SeqExt
    <3> QED
      BY <3>4 DEF s, z
  <2>3. next \in Nat /\ next \in 0 .. n
    BY <1>n
  <2>4. v \in Trans /\ k \in Disk
    BY <1>3, <2>3 DEF Trans, Disk, BlockWritten
  <2>5. w = [ m EXCEPT !.disk = k, !.t = v ]
    <3> HIDE DEF b, k, next
    <3> QED
      BY <1>r, <1>3, <2>1 DEF Dev, Trans, next
  <2>6. v.count = m.t.count /\ v.cur = next /\ Alike(v, m.t)
    BY <1>3 DEF Trans, Alike
  <2>7. /\ DOMAIN k = DOMAIN m.disk
        /\ b \in DOMAIN m.disk => k[b] = Content(c, b)
        /\ \A j \in DOMAIN m.disk : j # b => k[j] = m.disk[j]
    BY <1>3, <2>2 DEF Disk, BlockWritten
  <2>k. /\ b \in DOMAIN d.disk => k = [ d.disk EXCEPT ![b] = Content(c, b) ]
        /\ b \notin DOMAIN d.disk => k = d.disk
    BY <1>r, <2>2 DEF BlockWritten
  <2>b. cur \in 0 .. c.n - 1 /\ b = BlockNo(c.lba, cur) /\ DOMAIN d.disk = 0 .. NBlocks - 1
    BY <1>n DEF lba, n, Dev, Disk
  <2> HIDE DEF v, k, b, next
  <2>8. /\ w \in Dev /\ w.in = m.in /\ w.out = m.out /\ w.sense = m.sense /\ w.disk = k /\ w.t = v
    BY <1>r, <2>4, <2>5 DEF Dev
  <2>9. Wrote(c, d.disk, w.disk)
    <3>1. CASE b \in DOMAIN d.disk
      <4>1. b \in Addressed(c)
        BY <1>1, <2>b, <3>1 DEF Addressed
      <4>2. w.disk = [ d.disk EXCEPT ![b] = Content(c, b) ]
        BY <2>k, <2>8, <3>1, Zenon
      <4> QED
        BY <4>1, <4>2, Zenon DEF Wrote
    <3>2. CASE b \notin DOMAIN d.disk
      BY <2>k, <2>8, <3>2, Zenon DEF Wrote
    <3> QED
      BY <3>1, <3>2
  <2>10. Filled(c, w)
    <3>1. upto = next * BlockLen
      <4>1. next * BlockLen = base + BlockLen
        BY <1>1 DEF next, cur
      <4>2. upto = base + BlockLen
        BY <1>n, <1>5
      <4> QED
        BY <4>1, <4>2
    <3>2. w.t.count - w.t.cur * BlockLen = 0
      <4> DEFINE y == next * BlockLen
      <4>1. y = upto
        BY <3>1
      <4> HIDE DEF y
      <4>2. upto - y = 0
        BY <1>n, <4>1
      <4> QED
        BY <1>2, <2>6, <2>8, <4>2 DEF y
    <3>3. 0 \in 0 .. BlockLen - 1 /\ 0 % EpSize = 0
      BY MscSizes
    <3>4. ASSUME NEW j \in 0 .. next - 1, BlockNo(c.lba, j) \in DOMAIN k
          PROVE  k[BlockNo(c.lba, j)] = Content(c, BlockNo(c.lba, j))
      <4>1. CASE j = cur
        BY <2>7, <2>b, <3>4, <4>1
      <4>2. CASE j # cur
        <5>1. j \in 0 .. cur - 1 /\ j \in 0 .. c.n - 1
          BY <1>n, <4>2 DEF next, n
        <5>2. BlockNo(c.lba, j) # b
          BY <1>1, <2>b, <4>2, <5>1, BlockNoApart
        <5> QED
          BY <1>4, <2>7, <3>4, <5>1, <5>2 DEF OnDisk
      <4> QED
        BY <4>1, <4>2
    <3>5. w.t.count \in 0 .. w.t.to_read
      BY <1>2, <1>3, <1>n, <2>6, <2>8 DEF Alike
    <3>6. /\ w.t.to_read = c.n * BlockLen /\ w.t.to_write = 0 /\ w.t.lba = c.lba /\ w.t.blocks = c.n
          /\ w.t.cur \in 0 .. c.n
      BY <1>1, <1>3, <2>3, <2>6, <2>8 DEF lba, n, Alike
    <3>7. OnDisk(c, w.disk, w.t.cur)
      BY <2>6, <2>8, <3>4 DEF OnDisk
    <3> QED
      BY <1>w, <3>2, <3>3, <3>5, <3>6, <3>7 DEF Filled
  <2> QED
    BY <1>r, <2>6, <2>8, <2>9, <2>10 DEF Alike
<1>6. CASE off + EpSize # BlockLen
  <2>1. w = m
    <3>1. upto % BlockLen # 0
      BY <1>1, <1>6 DEF upto, count
    <3> QED
      BY <1>2, <3>1 DEF write_block
  <2>2. Filled(c, w)
    <3>1. m.t.count - m.t.cur * BlockLen = off + EpSize
      <4>1. base = m.t.cur * BlockLen
        BY <1>1, <1>3 DEF cur
      <4>2. upto - base = off + EpSize
        BY <1>n
      <4> QED
        BY <1>2, <4>1, <4>2
    <3>2. off + EpSize \in 0 .. BlockLen - 1 /\ (off + EpSize) % EpSize = 0
      <4>1. off + EpSize \in 0 .. BlockLen - 1
        BY <1>n, <1>6
      <4> QED
        BY <1>1, <4>1
    <3>3. m.t.count \in 0 .. m.t.to_read
      BY <1>2, <1>3, <1>n
    <3>4. /\ m.t.to_read = c.n * BlockLen /\ m.t.to_write = 0 /\ m.t.lba = c.lba /\ m.t.blocks = c.n
          /\ m.t.cur \in 0 .. c.n
      <4>1. cur \in 0 .. n
        BY <1>n
      <4> QED
        BY <1>1, <1>3, <4>1 DEF lba, n
    <3>5. OnDisk(c, m.disk, m.t.cur)
      BY <1>3, <1>4
    <3>6. \A i \in 1 .. off + EpSize : m.t.buf[i] = <<"data", m.t.cur * BlockLen + i>>
      <4>1. base = m.t.cur * BlockLen
        BY <1>1, <1>3 DEF cur
      <4> QED
        BY <1>2, <4>1
    <3> QED
      BY <1>w, <2>1, <3>1, <3>2, <3>3, <3>4, <3>5, <3>6 DEF Filled
  <2> QED
    BY <1>r, <2>1, <2>2 DEF Wrote
<1> QED
  BY <1>5, <1>6

(* The callback for a packet of data: the first one sends the status.        *)
LEMMA ReceiveResult ==
    ASSUME NEW c \in Commands, NEW d \in Dev, Filled(c, d), Arrived(c, d), Decided(c, d),
           CswLen <= EpSize,
           IF d.t.count = 0 THEN ~d.t.csw_valid /\ d.t.csw_sent = 0 /\ d.in.tx # "VALID"
           ELSE d.t.csw_valid /\ d.t.csw_sent = CswLen,
           NEW r, r = receive_data(d)
    PROVE  /\ r \in Dev /\ r.sense = d.sense /\ r.out = Emptied(d.out)
           /\ Filled(c, r) /\ r.t.count = d.t.count + EpSize /\ Wrote(c, d.disk, r.disk)
           /\ r.t.cbw = d.t.cbw /\ r.t.tag = d.t.tag /\ r.t.status = d.t.status
           /\ r.t.csw_valid /\ r.t.csw_sent = CswLen
           /\ r.in = IF d.t.count = 0 THEN Offered(d.in, CswBytes(c, StatusOf(c))) ELSE d.in
           /\ r.disk = write_block(received(d)).disk
<1> DEFINE w == write_block(received(d))
<1>1. /\ w \in Dev /\ w.in = d.in /\ w.sense = d.sense
      /\ w.out = Emptied(d.out)
      /\ Filled(c, w) /\ w.t.count = d.t.count + EpSize /\ Wrote(c, d.disk, w.disk)
      /\ Alike(w.t, d.t)
  BY WrittenIs
<1>2. r = send_status(w)
  BY DEF receive_data, received
<1>3. w.disk = write_block(received(d)).disk
  OBVIOUS
<1> HIDE DEF w
<1>4. Decided(c, w)
  BY <1>1 DEF Decided, Alike, Filled, Writes
<1>5. CASE d.t.count = 0
  <2>1. ~w.t.csw_valid /\ w.t.csw_sent = 0 /\ w.in.tx # "VALID"
    BY <1>1, <1>5 DEF Alike
  <2>2. /\ r \in Dev /\ r.out = w.out /\ r.disk = w.disk /\ r.sense = w.sense
        /\ r.in = Offered(w.in, CswBytes(c, StatusOf(c)))
        /\ r.t.csw_valid /\ r.t.csw_sent = CswLen /\ SameWork(r.t, w.t)
    BY <1>1, <1>2, <1>4, <2>1, StatusFirst
  <2>3. Filled(c, r)
    BY <1>1, <2>2 DEF Filled, SameWork
  <2> QED
    BY <1>1, <1>3, <1>5, <2>2, <2>3 DEF SameWork, Alike
<1>6. CASE d.t.count # 0
  <2>1. r = w
    BY <1>1, <1>2, <1>6, StatusAgain DEF Alike
  <2> QED
    BY <1>1, <1>3, <1>6, <2>1 DEF Alike
<1> QED
  BY <1>5, <1>6

(* Nothing is left to be closed.                                             *)
LEMMA CloseIs ==
    ASSUME NEW d, d.t.blocks = 0 PROVE close_rx(d) = d
  BY DEF close_rx

-----------------------------------------------------------------------------
(* The callback for a command block                                          *)

(* The record once the command block is read, and once it is carried out     *)
LEMMA BlockTaken ==
    ASSUME NEW c \in Commands, NEW d \in Dev, Fresh(d.t), d.t.cbw = <<>>,
           d.out.rx = "NAK", d.out.rx_buf = CbwBytes(c), CbwLen <= EpSize
    PROVE  \E s \in Dev :
              /\ s.in = d.in /\ s.out = Emptied(d.out) /\ s.disk = d.disk /\ s.sense = d.sense
              /\ Fresh(s.t) /\ s.t.cbw = CbwBytes(c)
              /\ data_rx_cb(d) = IF scsi_command(s).t.count < scsi_command(s).t.to_read
                                 THEN scsi_command(s) ELSE continue_rx(scsi_command(s))
<1> DEFINE left == CbwLen - Len(d.t.cbw)
           packet == read_packet_data(d.out, Least(EpSize, left))
           b == CbwBytes(c)
           s == [ d EXCEPT !.out = ep_read_packet(@), !.t.cbw = @ \o packet ]
           e == Emptied(d.out)
           u == [ d.t EXCEPT !.cbw = b ]
           x == scsi_command(s)
<1>1. d.t \in Trans /\ d.out \in Endpoint /\ d.out.force_nak = FALSE
  BY DEF Dev, Endpoint
<1>2. b \in Seq(Byte) /\ Len(b) = CbwLen
  BY BytesFacts
<1>3. left = CbwLen
  <2>1. Len(d.t.cbw) = 0
    OBVIOUS
  <2> QED
    BY <2>1, MscSizes
<1>4. packet = b
  <2>1. Least(EpSize, left) = CbwLen
    BY <1>3, MscSizes DEF Least
  <2>2. SubSeq(b, 1, CbwLen) = b
    BY <1>2, MscSizes
  <2>3. read_packet_data(d.out, CbwLen) = SubSeq(b, 1, CbwLen)
    BY <1>2, MscSizes DEF read_packet_data
  <2> QED
    BY <2>1, <2>2, <2>3
<1>5. ep_read_packet(d.out) = e
  BY <1>1 DEF ep_read_packet, Endpoint, Emptied
<1>6. e \in Endpoint
  BY <1>1 DEF Emptied, Endpoint, Stats
<1>7. d.t.cbw \o packet = b
  BY <1>2, <1>4
<1>8. s = [ d EXCEPT !.out = e, !.t.cbw = b ]
  BY <1>5, <1>7
<1>9. u \in Trans /\ Fresh(u) /\ u.cbw = b
  <2> HIDE DEF b
  <2> QED
    BY <1>1, <1>2 DEF Trans, Fresh
<1>10. s = [ d EXCEPT !.out = e, !.t = u ]
  <2> HIDE DEF s, b, e
  <2> QED
    BY <1>8 DEF Dev, Trans
<1>11. data_rx_cb(d) = IF left <= 0 THEN continue_rx(d)
                       ELSE IF Len(s.t.cbw) # CbwLen THEN continue_rx(s)
                       ELSE IF x.t.count < x.t.to_read THEN x
                       ELSE continue_rx(x)
  BY DEF data_rx_cb
<1> HIDE DEF s, u, e, b
<1>12. /\ s \in Dev /\ s.t = u /\ s.in = d.in /\ s.out = e /\ s.disk = d.disk /\ s.sense = d.sense
  BY <1>6, <1>9, <1>10 DEF Dev
<1>13. ~(left <= 0) /\ Len(s.t.cbw) = CbwLen
  BY <1>2, <1>3, <1>9, <1>12, MscSizes
<1>14. data_rx_cb(d) = IF x.t.count < x.t.to_read THEN x ELSE continue_rx(x)
  <2> HIDE DEF left, x
  <2> QED
    BY <1>11, <1>13
<1> QED
  BY <1>9, <1>12, <1>14 DEF b, e

(* What the callback makes of a command block                                *)
LEMMA BlockResult ==
    ASSUME NEW c \in Commands, NEW d \in Dev, Fresh(d.t), d.t.cbw = <<>>,
           d.out.rx = "NAK", d.out.rx_buf = CbwBytes(c), CbwLen <= EpSize, d.in.tx # "VALID",
           NEW r, r = data_rx_cb(d)
    PROVE  /\ r \in Dev /\ r.out = Emptied(d.out)
           /\ r.t.cbw = CbwBytes(c) /\ r.t.tag = c /\ r.t.status = StatusOf(c)
           /\ r.sense = SenseAfter(c, d.sense)
           /\ c.op # "format" => r.disk = d.disk
           /\ c.op = "format" =>
                r.disk = [ b \in DOMAIN d.disk |->
                             IF b \in Addressed(c) THEN Content(c, b) ELSE d.disk[b] ]
           /\ Writes(c) =>
                /\ Filled(c, r) /\ r.t.count = 0 /\ r.in = d.in
                /\ ~r.t.csw_valid /\ r.t.csw_sent = 0
           /\ ~Writes(c) => r.t.to_read = 0
           /\ ~Writes(c) /\ ReplyLen(c) > 0 /\ ~Unanswered(c) =>
                /\ r.t.to_write = ReplyLen(c) /\ r.t.count = Least(EpSize, ReplyLen(c))
                /\ Loaded(c, r.t, r.disk, r.sense)
                /\ \E p \in Seq(Byte) :
                      /\ r.in = Offered(d.in, p) /\ Len(p) = r.t.count
                      /\ Fits(c, r.disk, r.sense, 0, p)
                /\ ~r.t.csw_valid /\ r.t.csw_sent = 0
           /\ ~Writes(c) /\ (ReplyLen(c) = 0 \/ Unanswered(c)) =>
                /\ r.t.to_write = 0 /\ r.t.count = 0 /\ r.t.cur = 0
                /\ r.in = Offered(d.in, CswBytes(c, StatusOf(c)))
                /\ r.t.csw_valid /\ r.t.csw_sent = CswLen
<1>1. PICK s \in Dev :
              /\ s.in = d.in /\ s.out = Emptied(d.out) /\ s.disk = d.disk /\ s.sense = d.sense
              /\ Fresh(s.t) /\ s.t.cbw = CbwBytes(c)
              /\ data_rx_cb(d) = IF scsi_command(s).t.count < scsi_command(s).t.to_read
                                 THEN scsi_command(s) ELSE continue_rx(scsi_command(s))
  BY BlockTaken
<1> DEFINE x == scsi_command(s)
<1>2. /\ x \in Dev /\ x.in = s.in /\ x.out = s.out
      /\ x.t.cbw = s.t.cbw /\ x.t.tag = c /\ x.t.status = StatusOf(c)
      /\ x.sense = SenseAfter(c, s.sense)
      /\ ~x.t.csw_valid /\ x.t.csw_sent = 0 /\ x.t.count = 0 /\ x.t.cur = 0
      /\ x.t.to_read = (IF c.op = "write" THEN c.n * BlockLen ELSE 0)
      /\ x.t.to_write = (IF c.op \in {"vpd", "unknown"} THEN 0 ELSE ReplyLen(c))
      /\ IF c.op \in {"read", "write"} THEN x.t.lba = c.lba /\ x.t.blocks = c.n
         ELSE x.t.blocks = 0
      /\ c.op # "format" => x.disk = s.disk
      /\ c.op = "format" =>
           x.disk = [ b \in DOMAIN s.disk |->
                        IF b \in Addressed(c) THEN Content(c, b) ELSE s.disk[b] ]
      /\ c.op \in {"info", "mode", "sense"} =>
           \A i \in 1 .. ReplyLen(c) : MayReply(c, x.disk, x.sense, i, x.t.buf[i])
  BY <1>1, ScsiResult
<1>3. r = IF x.t.count < x.t.to_read THEN x ELSE continue_rx(x)
  BY <1>1
<1> HIDE DEF x
<1>4. c.op = "write" => c.n \in Nat /\ c.n * BlockLen \in Nat /\ (c.n > 0 => c.n * BlockLen > 0)
  <2> SUFFICES ASSUME c.op = "write" PROVE c.n \in Nat /\ c.n * BlockLen \in Nat
                                            /\ (c.n > 0 => c.n * BlockLen > 0)
    OBVIOUS
  <2>1. c.n \in Nat /\ c.n * BlockLen \in Nat
    BY CommandFacts
  <2>2. c.n > 0 => 0 * BlockLen + BlockLen <= c.n * BlockLen
    <3> DEFINE n == c.n
    <3>1. n \in Nat
      BY <2>1
    <3> HIDE DEF n
    <3>2. n > 0 => 0 * BlockLen + BlockLen <= n * BlockLen
      BY <3>1, MscSizes, MulNext
    <3> QED
      BY <3>2 DEF n
  <2>3. 0 * BlockLen + BlockLen = BlockLen
    BY MscSizes
  <2> QED
    BY <2>1, <2>2, <2>3, MscSizes
<1>5. /\ x.disk = r.disk /\ x.sense = r.sense /\ x.out = r.out /\ r.t.cbw = x.t.cbw
      /\ r.t.tag = x.t.tag /\ r.t.status = x.t.status
      => /\ r.out = Emptied(d.out)
         /\ r.t.cbw = CbwBytes(c) /\ r.t.tag = c /\ r.t.status = StatusOf(c)
         /\ r.sense = SenseAfter(c, d.sense)
         /\ c.op # "format" => r.disk = d.disk
         /\ c.op = "format" =>
              r.disk = [ b \in DOMAIN d.disk |->
                           IF b \in Addressed(c) THEN Content(c, b) ELSE d.disk[b] ]
  BY <1>1, <1>2
<1>6. CASE Writes(c)
  <2>1. r = x
    BY <1>2, <1>3, <1>4, <1>6 DEF Writes
  <2>2. Filled(c, x)
    <3>1. x.t.count - x.t.cur * BlockLen = 0
      <4>1. 0 * BlockLen = 0
        BY MscSizes
      <4> QED
        BY <1>2, <4>1
    <3>2. /\ 0 \in 0 .. BlockLen - 1 /\ 0 % EpSize = 0 /\ 0 \in 0 .. c.n
          /\ 0 \in 0 .. c.n * BlockLen
      BY <1>4, <1>6, MscSizes DEF Writes
    <3>3. x.t.to_read = c.n * BlockLen /\ x.t.to_write = 0 /\ x.t.lba = c.lba /\ x.t.blocks = c.n
      BY <1>2, <1>6 DEF Writes, ReplyLen
    <3>4. OnDisk(c, x.disk, 0)
      BY DEF OnDisk
    <3> QED
      BY <1>2, <1>6, <3>1, <3>2, <3>3, <3>4 DEF Filled
  <2> QED
    BY <1>1, <1>2, <1>5, <1>6, <2>1, <2>2
<1>7. CASE ~Writes(c)
  <2>1. x.t.to_read = 0
    <3>1. c.op = "write" => c.n = 0 /\ 0 * BlockLen = 0
      BY <1>4, <1>7, MscSizes DEF Writes
    <3> QED
      BY <1>2, <3>1
  <2>2. r = continue_rx(x)
    BY <1>2, <1>3, <2>1
  <2>w. x.t.to_write = (IF Unanswered(c) THEN 0 ELSE ReplyLen(c))
    <3>1. c.op \in {"vpd", "unknown"} => ReplyLen(c) = c.n /\ c.n \in Nat
      BY CommandFacts DEF ReplyLen
    <3> QED
      BY <1>2, <3>1 DEF Unanswered
  <2>3. CASE ReplyLen(c) > 0 /\ ~Unanswered(c)
    <3>1. r = send_data(x)
      BY <1>2, <2>1, <2>2, <2>3, <2>w DEF continue_rx
    <3>2. Loaded(c, x.t, x.disk, x.sense)
      <4>1. CASE c.op = "read"
        <5>1. x.t.count - x.t.cur * BlockLen = 0
          <6>1. 0 * BlockLen = 0
            BY MscSizes
          <6> QED
            BY <1>2, <6>1
        <5>2. /\ 0 \in 1 - BlockLen .. 0 /\ (0 + BlockLen) % EpSize = 0
              /\ 0 \in 0 .. c.n
          BY <4>1, CommandFacts, MscSizes
        <5> QED
          BY <1>2, <4>1, <5>1, <5>2 DEF Loaded
      <4>2. CASE c.op # "read"
        <5>1. c.op \in {"info", "mode", "sense"}
          <6>1. c.op \in {"vpd", "unknown"} => ReplyLen(c) = c.n
            BY DEF ReplyLen
          <6> QED
            BY <2>3, <4>2, <6>1 DEF ReplyLen, Unanswered
        <5> QED
          BY <1>2, <4>2, <5>1 DEF Loaded
      <4> QED
        BY <4>1, <4>2
    <3> DEFINE upto == Least(x.t.count + EpSize, ReplyLen(c))
    <3>u. upto = Least(x.t.count + EpSize, ReplyLen(c))
      OBVIOUS
    <3> HIDE DEF upto
    <3>3. /\ r \in Dev /\ r.out = x.out /\ r.disk = x.disk /\ r.sense = x.sense
          /\ upto \in Nat
          /\ \E p \in Seq(Byte) : /\ r.in = Offered(x.in, p) /\ Len(p) = upto - x.t.count
                                /\ Fits(c, x.disk, x.sense, x.t.count, p)
          /\ r.t.count = upto
          /\ Loaded(c, r.t, x.disk, x.sense)
          /\ r.t.cbw = x.t.cbw /\ r.t.to_read = x.t.to_read /\ r.t.to_write = x.t.to_write
          /\ r.t.csw_valid = x.t.csw_valid /\ r.t.csw_sent = x.t.csw_sent
          /\ r.t.tag = x.t.tag /\ r.t.status = x.t.status
      <4>1. x.in.tx # "VALID" /\ x.t.to_write = ReplyLen(c) /\ x.t.count < ReplyLen(c)
        BY <1>1, <1>2, <2>3, <2>w
      <4> QED
        BY <1>2, <2>3, <3>1, <3>2, <3>u, <4>1, SendResult
    <3>4. upto = Least(EpSize, ReplyLen(c)) /\ x.t.count = 0
      BY <1>2, <3>u, CommandFacts, MscSizes DEF Least
    <3>5. PICK p \in Seq(Byte) : /\ r.in = Offered(x.in, p) /\ Len(p) = upto - x.t.count
                               /\ Fits(c, x.disk, x.sense, x.t.count, p)
      BY <3>3
    <3>6. /\ p \in Seq(Byte) /\ r.in = Offered(d.in, p) /\ Len(p) = r.t.count
          /\ Fits(c, r.disk, r.sense, 0, p)
      <4>1. upto - 0 = upto
        BY <3>3
      <4> QED
        BY <1>1, <1>2, <3>3, <3>4, <3>5, <4>1
    <3>7. \E q \in Seq(Byte) : /\ r.in = Offered(d.in, q) /\ Len(q) = r.t.count
                               /\ Fits(c, r.disk, r.sense, 0, q)
      BY <3>6
    <3>8. /\ r \in Dev /\ r.t.to_write = ReplyLen(c) /\ r.t.count = Least(EpSize, ReplyLen(c))
          /\ Loaded(c, r.t, r.disk, r.sense) /\ r.t.to_read = 0
          /\ ~r.t.csw_valid /\ r.t.csw_sent = 0
      BY <1>2, <2>1, <2>3, <2>w, <3>3, <3>4
    <3>9. /\ x.disk = r.disk /\ x.sense = r.sense /\ x.out = r.out /\ r.t.cbw = x.t.cbw
          /\ r.t.tag = x.t.tag /\ r.t.status = x.t.status
      BY <3>3
    <3> HIDE DEF x
    <3> QED
      BY <1>5, <1>7, <2>3, <3>7, <3>8, <3>9
  <2>4. CASE ReplyLen(c) = 0 \/ Unanswered(c)
    <3>0. x.t.to_write = 0
      BY <2>4, <2>w
    <3>1. x.t.blocks = 0
      <4>1. c.op = "read" => c.n = 0
        <5> SUFFICES ASSUME c.op = "read", c.n # 0 PROVE FALSE
          OBVIOUS
        <5>1. c.n \in Nat /\ c.n > 0
          BY CommandFacts
        <5>2. c.n * BlockLen > 0
          BY <5>1, MscSizes, MulPositive
        <5>3. ~Unanswered(c) /\ ReplyLen(c) = c.n * BlockLen
          BY DEF Unanswered, ReplyLen
        <5> QED
          BY <2>4, <5>2, <5>3
      <4>2. c.op = "write" => c.n = 0
        BY <1>4, <1>7 DEF Writes
      <4> QED
        BY <1>2, <4>1, <4>2
    <3>2. close_rx(x) = x
      BY <3>1, CloseIs
    <3>3. r = send_status(x)
      <4>1. r = send_status(close_rx(x))
        BY <1>2, <2>1, <2>2, <3>0 DEF continue_rx
      <4> QED
        BY <3>2, <4>1
    <3>4. Decided(c, x)
      BY <1>1, <1>2, <2>1, <3>0 DEF Decided, SenseAfter
    <3>5. x.in.tx # "VALID" /\ CswLen <= EpSize
      BY <1>1, <1>2, MscSizes
    <3>6. /\ r \in Dev /\ r.out = x.out /\ r.disk = x.disk /\ r.sense = x.sense
          /\ r.in = Offered(x.in, CswBytes(c, StatusOf(c)))
          /\ r.t.csw_valid /\ r.t.csw_sent = CswLen /\ SameWork(r.t, x.t)
      BY <1>2, <3>3, <3>4, <3>5, StatusFirst
    <3> QED
      BY <1>1, <1>2, <1>5, <1>7, <2>1, <2>4, <3>0, <3>6 DEF SameWork
  <2> QED
    BY <2>3, <2>4, CommandFacts
<1> QED
  BY <1>6, <1>7

-----------------------------------------------------------------------------
(* The callback for what has gone to the host                                *)

(* The last block is behind.                                                 *)
LEMMA ClosedIs ==
    ASSUME NEW d \in Dev, NEW k,
           k = IF d.t.blocks > 0 /\ d.t.cur = d.t.blocks THEN [ d EXCEPT !.t.cur = 0 ] ELSE d
    PROVE  /\ k \in Dev /\ k.in = d.in /\ k.out = d.out /\ k.disk = d.disk /\ k.sense = d.sense
           /\ Alike(k.t, d.t) /\ k.t.count = d.t.count /\ k.t.cur \in {0, d.t.cur}
<1> DEFINE u == [ d.t EXCEPT !.cur = 0 ]
<1>1. u \in Trans /\ Alike(u, d.t) /\ u.count = d.t.count /\ u.cur = 0
  BY DEF Dev, Trans, Alike
<1>2. [ d EXCEPT !.t.cur = 0 ] = [ d EXCEPT !.t = u ]
  BY DEF Dev, Trans
<1> HIDE DEF u
<1>3. CASE d.t.blocks > 0 /\ d.t.cur = d.t.blocks
  <2>1. k = [ d EXCEPT !.t = u ]
    BY <1>2, <1>3
  <2>2. /\ k \in Dev /\ k.in = d.in /\ k.out = d.out /\ k.disk = d.disk /\ k.sense = d.sense
        /\ k.t = u
    BY <1>1, <2>1 DEF Dev
  <2> QED
    BY <1>1, <2>2
<1>4. CASE ~(d.t.blocks > 0 /\ d.t.cur = d.t.blocks)
  BY <1>4 DEF Alike
<1> QED
  BY <1>3, <1>4

(* The data are out: the status follows.                                     *)
LEMMA SentResult ==
    ASSUME NEW c \in Commands, NEW d \in Dev, Decided(c, d), CswLen <= EpSize,
           d.t.count = d.t.to_write, ~d.t.csw_valid, d.t.csw_sent = 0, d.in.tx # "VALID",
           NEW r, r = data_tx_cb(d)
    PROVE  /\ r \in Dev /\ r.out = d.out /\ r.disk = d.disk /\ r.sense = d.sense
           /\ r.in = Offered(d.in, CswBytes(c, StatusOf(c)))
           /\ r.t.csw_valid /\ r.t.csw_sent = CswLen
           /\ r.t.cbw = d.t.cbw /\ r.t.tag = d.t.tag /\ r.t.status = d.t.status
           /\ r.t.to_read = d.t.to_read /\ r.t.to_write = d.t.to_write
           /\ r.t.count = d.t.count /\ r.t.cur \in {0, d.t.cur} /\ r.t.blocks = d.t.blocks
<1> DEFINE k == IF d.t.blocks > 0 /\ d.t.cur = d.t.blocks THEN [ d EXCEPT !.t.cur = 0 ] ELSE d
<1>k. k = IF d.t.blocks > 0 /\ d.t.cur = d.t.blocks THEN [ d EXCEPT !.t.cur = 0 ] ELSE d
  OBVIOUS
<1>1. r = IF d.t.count < d.t.to_write THEN send_data(d)
          ELSE IF d.t.csw_sent = CswLen THEN end_of_transaction(send_status(k))
          ELSE send_status(k)
  BY DEF data_tx_cb
<1> HIDE DEF k
<1>2. ~(d.t.count < d.t.to_write) /\ d.t.csw_sent # CswLen
  <2>1. d.t.count \in Nat
    BY DEF Dev, Trans
  <2> QED
    BY <2>1, MscSizes
<1>3. r = send_status(k)
  BY <1>1, <1>2
<1>4. /\ k \in Dev /\ k.in = d.in /\ k.out = d.out /\ k.disk = d.disk /\ k.sense = d.sense
      /\ Alike(k.t, d.t) /\ k.t.count = d.t.count /\ k.t.cur \in {0, d.t.cur}
  BY <1>k, ClosedIs
<1>5. Decided(c, k) /\ ~k.t.csw_valid /\ k.t.csw_sent = 0 /\ k.in.tx # "VALID"
  BY <1>4 DEF Decided, Alike
<1>6. /\ r \in Dev /\ r.out = k.out /\ r.disk = k.disk /\ r.sense = k.sense
      /\ r.in = Offered(k.in, CswBytes(c, StatusOf(c)))
      /\ r.t.csw_valid /\ r.t.csw_sent = CswLen /\ SameWork(r.t, k.t)
  BY <1>3, <1>4, <1>5, StatusFirst
<1> QED
  BY <1>4, <1>6 DEF Alike, SameWork

(* The status is out: the transaction ends.                                  *)
LEMMA EndResult ==
    ASSUME NEW d \in Dev, d.t.csw_valid, d.t.csw_sent = CswLen, ~(d.t.count < d.t.to_write),
           NEW r, r = data_tx_cb(d)
    PROVE  /\ r \in Dev /\ r.in = d.in /\ r.out = d.out /\ r.disk = d.disk /\ r.sense = d.sense
           /\ r.t.cbw = <<>> /\ Fresh(r.t)
<1> DEFINE k == IF d.t.blocks > 0 /\ d.t.cur = d.t.blocks THEN [ d EXCEPT !.t.cur = 0 ] ELSE d
<1>k. k = IF d.t.blocks > 0 /\ d.t.cur = d.t.blocks THEN [ d EXCEPT !.t.cur = 0 ] ELSE d
  OBVIOUS
<1>1. r = IF d.t.count < d.t.to_write THEN send_data(d)
          ELSE IF d.t.csw_sent = CswLen THEN end_of_transaction(send_status(k))
          ELSE send_status(k)
  BY DEF data_tx_cb
<1> HIDE DEF k
<1>2. /\ k \in Dev /\ k.in = d.in /\ k.out = d.out /\ k.disk = d.disk /\ k.sense = d.sense
      /\ Alike(k.t, d.t) /\ k.t.count = d.t.count /\ k.t.cur \in {0, d.t.cur}
  BY <1>k, ClosedIs
<1>3. send_status(k) = k
  BY <1>2, StatusAgain DEF Alike
<1>4. r = [ k EXCEPT !.t = EndOf(k.t) ]
  <2>1. r = end_of_transaction(k)
    BY <1>1, <1>3
  <2> QED
    BY <2>1 DEF end_of_transaction
<1>5. EndOf(k.t) \in Trans /\ EndOf(k.t).cbw = <<>> /\ Fresh(EndOf(k.t))
  <2> DEFINE u == k.t
             v == EndOf(u)
  <2>1. u \in Trans
    BY <1>2 DEF Dev
  <2> HIDE DEF u
  <2>2. v = [ u EXCEPT !.cbw = <<>>, !.to_read = 0, !.to_write = 0, !.count = 0, !.lba = None,
                       !.blocks = 0, !.cur = 0, !.csw_valid = FALSE, !.csw_sent = 0 ]
    BY DEF EndOf
  <2> HIDE DEF v
  <2>e. <<>> \in Seq(Byte) /\ 0 \in Nat /\ None \in Nat \union {None}
    OBVIOUS
  <2>t. /\ v.cbw = <<>> /\ v.to_read = 0 /\ v.to_write = 0 /\ v.count = 0 /\ v.lba = None
        /\ v.blocks = 0 /\ v.cur = 0 /\ v.csw_valid = FALSE /\ v.csw_sent = 0
        /\ v.tag = u.tag /\ v.status = u.status /\ v.buf = u.buf
    BY <2>1, <2>2 DEF Trans
  <2>3. v \in Trans
    BY <2>1, <2>2, <2>e DEF Trans
  <2>4. v.cbw = <<>> /\ Fresh(v)
    BY <2>t DEF Fresh
  <2> QED
    BY <2>3, <2>4 DEF u, v
<1> QED
  BY <1>2, <1>4, <1>5 DEF Dev

-----------------------------------------------------------------------------
(* Consequences of the invariant                                             *)

(* Between commands                                                          *)
Quieted == ~Busy /\ t.cbw = <<>> /\ AtStart /\ ep.in.tx # "VALID"

(* A packet of data is in the endpoint.                                      *)
Pending == ep.out.ctr_rx /\ t.cbw # <<>>
StoredNow == IF Pending THEN write_block(received(Now)).disk ELSE disk

(* What a callback is given, and what a state without a command is           *)
LEMMA NowIsTyped == Types => Now \in Dev
  BY DEF Types, Now, Dev

LEMMA RunningIsBusy == Running => Busy
<1> SUFFICES ASSUME Running, host.stage = "idle" PROVE Busy
  BY DEF Busy
<1>1. Writing(host.cmd) \/ Sending(host.cmd) \/ Finishing(host.cmd) \/ Mistaken(host.cmd)
  BY DEF Running
<1> QED
  BY <1>1 DEF Mistaken, Writing, Sending, Finishing, NoStatus, StatusOut, Busy

LEMMA QuietInv == BlocksInv /\ ~Busy => Quieted
  BY RunningIsBusy DEF BlocksInv, Quieted, Resting, Busy

(* Data come to a write only, and are the next ones.                         *)
LEMMA WritingFacts ==
    ASSUME BlocksInv, t.cbw # <<>>, ep.out.ctr_rx \/ host.stage = "out" \/ Writing(host.cmd)
    PROVE  /\ Running /\ host.cmd \in Commands /\ Writing(host.cmd) /\ Now \in Dev
           /\ Filled(host.cmd, Now) /\ Decided(host.cmd, Now)
           /\ ep.out.ctr_rx => Arrived(host.cmd, Now)
<1> DEFINE c == host.cmd
<1>1. Types /\ Running /\ c \in Commands
  BY DEF BlocksInv, Running
<1>2. Now \in Dev
  BY <1>1, NowIsTyped
<1>3. Writing(c)
  BY <1>1 DEF Running, Sending, Finishing, Mistaken
<1>4. Filled(c, Now)
  BY <1>3 DEF Writing, Filled, Now, Off
<1>5. Decided(c, Now)
  BY <1>1, <1>3 DEF Running, Writing, Writes, Decided, Now
<1>6. ep.out.ctr_rx => Arrived(c, Now)
  BY <1>3 DEF Writing, Arrived, Now
<1> QED
  BY <1>1, <1>2, <1>3, <1>4, <1>5, <1>6

(* What is as good as stored is what the callback will store.                *)
LEMMA WrittenBlock ==
    ASSUME Orderly, BlocksInv, Pending
    PROVE  Stored = write_block(received(Now)).disk
<1> DEFINE c == host.cmd
           d == Now
           r == receive_data(d)
<1>1. /\ Running /\ c \in Commands /\ Writing(c) /\ d \in Dev
      /\ Filled(c, d) /\ Decided(c, d) /\ Arrived(c, d)
  BY WritingFacts DEF Pending
<1>2. d.t = t /\ d.out = ep.out /\ d.in = ep.in
  BY DEF Now
<1>3. IF d.t.count = 0 THEN ~d.t.csw_valid /\ d.t.csw_sent = 0 /\ d.in.tx # "VALID"
      ELSE d.t.csw_valid /\ d.t.csw_sent = CswLen
  BY <1>1, <1>2 DEF Writing, NoStatus, StatusOut
<1>4. CswLen <= EpSize
  BY MscSizes DEF Orderly
<1>5. d.t.count < d.t.to_read
  BY <1>1 DEF Arrived
<1>6. data_rx_cb(d) = receive_data(d)
  <2>1. CbwLen - Len(d.t.cbw) <= 0
    BY <1>1, <1>2, BytesFacts, MscSizes DEF Running
  <2>2. data_rx_cb(d) = continue_rx(d)
    <3> HIDE DEF d
    <3> QED
      BY <2>1 DEF data_rx_cb
  <2> HIDE DEF d
  <2> QED
    BY <1>5, <2>2 DEF continue_rx
<1>7. Stored = data_rx_cb(d).disk
  BY <1>2, <1>5 DEF Stored, Pending
<1>r. r = receive_data(d)
  OBVIOUS
<1> HIDE DEF d, r
<1>8. r.disk = write_block(received(d)).disk
  BY <1>1, <1>3, <1>4, <1>r, ReceiveResult
<1> QED
  BY <1>6, <1>7, <1>8, <1>r DEF d

LEMMA NotWritten ==
    ASSUME BlocksInv, ~Pending PROVE Stored = disk
<1>1. CASE t.cbw = <<>>
  BY <1>1 DEF BlocksInv, Resting, AtStart, Stored
<1>2. CASE t.cbw # <<>>
  BY <1>2 DEF Pending, Stored
<1> QED
  BY <1>1, <1>2

LEMMA StoredIs == Orderly /\ BlocksInv => Stored = StoredNow
  BY WrittenBlock, NotWritten DEF StoredNow

LEMMA StoredNext == Orderly /\ BlocksInv' => Stored' = StoredNow'
<1>1. (Orderly /\ BlocksInv)' => (Stored = StoredNow)'
  BY StoredIs, PTL
<1>2. Orderly' <=> Orderly
  BY DEF Orderly
<1> QED
  BY <1>1, <1>2

-----------------------------------------------------------------------------
(* The steps of the configuration, of the host and of the bus                *)

(* A step of the configuration between commands leaves the blocks alone.     *)
LEMMA QuietKept ==
    ASSUME BlocksInv, Quieted, Types', EnabledInv', UNCHANGED <<t, disk, sense>>,
           ep'.in.tx # "VALID", ~ep'.out.ctr_rx, ~ep'.in.ctr_tx,
           host'.stage = host.stage, host'.cmd = host.cmd, host'.got = host.got,
           host'.csw = host.csw
    PROVE  BlocksInv' /\ UNCHANGED Blocks!vars
<1>1. Quieted'
  BY DEF Quieted, Busy, AtStart
<1>2. BlocksInv'
  BY <1>1 DEF BlocksInv, Quieted, Resting, Busy, BusyInv
<1>3. Stored = disk
  BY DEF Quieted, Busy, Stored
<1>4. Stored' = disk'
  BY DEF Stored
<1> QED
  BY <1>2, <1>3, <1>4 DEF Blocks!vars, Answered

(* A host that waits in vain is one whose command has no answer.             *)
LEMMA StuckIsStarved ==
    ASSUME BlocksInv, Stuck, ~ep.out.ctr_rx, ~ep.in.ctr_tx
    PROVE  Resting /\ t.cbw = <<>> /\ Unanswered(host.cmd) /\ host.cmd \in Commands
<1> DEFINE c == host.cmd
<1>1. host.stage \in {"in", "csw"} /\ ep.in.tx # "VALID"
  BY DEF Stuck
<1>2. t.cbw = <<>>
  <2> SUFFICES ASSUME t.cbw # <<>> PROVE FALSE
    OBVIOUS
  <2>1. Running /\ c \in Commands
    BY DEF BlocksInv, Running
  <2>2. ~Sending(c) /\ ~Finishing(c) /\ ~Mistaken(c) /\ ~StatusOut(c)
    BY <1>1 DEF Sending, Finishing, Mistaken, StatusOut
  <2>3. Writing(c) /\ t.count = 0
    BY <2>1, <2>2 DEF Running, Writing
  <2>4. c.n * BlockLen = 0 /\ c.op = "write" /\ c.n > 0
    <3>1. t.to_read = t.count + 0 /\ t.to_read = c.n * BlockLen /\ Writes(c)
      BY <1>1, <2>3 DEF Writing
    <3> QED
      BY <2>3, <3>1 DEF Writes
  <2>5. c.n \in Nat
    BY <2>1, <2>4, CommandFacts
  <2> QED
    BY <2>4, <2>5, MscSizes, MulPositive
<1>3. Resting
  BY <1>2 DEF BlocksInv
<1>4. Starved /\ host.cmd \in Commands
  BY <1>1, <1>3 DEF Resting
<1> QED
  BY <1>2, <1>3, <1>4 DEF Starved

(* The configuration changes between commands, or ends one that has no       *)
(* answer.                                                                   *)
LEMMA ConfigureBlocks ==
    ASSUME Orderly, BlocksInv, StdTypeOK,
           \/ MscPollReset \/ MscSetConfiguration \/ MscCall \/ MscRegister
           \/ (\E v \in Values : MscConfigure(v)) \/ MscConfigured \/ MscBusReset
    PROVE  BlocksInv' /\ (UNCHANGED Blocks!vars \/ Blocks!GiveUp)
<1>a. Types /\ EnabledInv /\ BusyInv
  BY DEF BlocksInv
<1>b. /\ ep \in [ in : Endpoint, out : Endpoint ] /\ ep.in \in Endpoint /\ ep.out \in Endpoint
      /\ host \in HostState /\ host.tog \in [ in : {0, 1}, out : {0, 1} ]
  BY <1>a DEF Types, HostState
<1>c. "in" \notin Control /\ "out" \notin Control
  BY StandardAssumption, ThreeCalls DEF Control
<1>1. CASE MscPollReset \/ MscRegister \/ \E v \in Values : MscConfigure(v)
  <2>1. ~Busy
    BY <1>1, <1>a DEF MscPollReset, PollReset, MscRegister, CallRegister, MscConfigure, AtRest,
       Quiet, Polling, Busy, BusyInv, Orderly
  <2>2. UNCHANGED mscvars
    BY <1>1 DEF MscPollReset, MscRegister, MscConfigure
  <2>3. Types'
    BY <1>a, <2>2 DEF Types, mscvars
  <2>4. EnabledInv'
    <3>1. enabled' = enabled \/ enabled' = enabled \union Control
      BY <1>1 DEF MscPollReset, PollReset, MscRegister, CallRegister, MscConfigure, Configure
    <3> QED
      BY <1>a, <1>c, <2>2, <3>1 DEF EnabledInv, mscvars
  <2>5. Quieted
    BY <2>1, QuietInv
  <2> QED
    BY <2>2, <2>3, <2>4, <2>5, QuietKept DEF Quieted, Busy, mscvars
<1>2. CASE MscSetConfiguration
  <2>1. ~Busy
    BY <1>2, <1>a DEF MscSetConfiguration, SetConfiguration, Polling, Busy, BusyInv
  <2>2. Quieted
    BY <2>1, QuietInv
  <2>3. UNCHANGED <<t, disk, sense, host>>
    BY <1>2 DEF MscSetConfiguration
  <2>4. CASE req \in Configs \union {0}
    <3>1. enabled' = enabled \cap Control
      BY <1>2, <2>4 DEF MscSetConfiguration, SetConfiguration, endpoints_reset
    <3>2. ep' = [ h \in Halves |-> [ ep[h] EXCEPT !.tx = "DISABLED", !.rx = "DISABLED" ] ]
      BY <1>2, <2>4 DEF MscSetConfiguration
    <3> DEFINE e == [ ep.in EXCEPT !.tx = "DISABLED", !.rx = "DISABLED" ]
               f == [ ep.out EXCEPT !.tx = "DISABLED", !.rx = "DISABLED" ]
    <3>3. ep' = [ in |-> e, out |-> f ]
      BY <3>2, ThreeCalls
    <3>4. /\ e \in Endpoint /\ e.tx = "DISABLED" /\ e.ctr_tx = ep.in.ctr_tx
          /\ e.tx_buf = ep.in.tx_buf /\ e.rx_buf = ep.in.rx_buf
      BY <1>b DEF Endpoint, Stats
    <3>5. /\ f \in Endpoint /\ f.rx = "DISABLED" /\ f.ctr_rx = ep.out.ctr_rx
          /\ f.tx_buf = ep.out.tx_buf /\ f.rx_buf = ep.out.rx_buf
      BY <1>b DEF Endpoint, Stats
    <3> HIDE DEF e, f
    <3>6. Types'
      BY <1>a, <2>3, <3>3, <3>4, <3>5 DEF Types
    <3>7. EnabledInv'
      BY <1>c, <3>1, <3>3, <3>4, <3>5 DEF EnabledInv
    <3> QED
      BY <2>2, <2>3, <3>3, <3>4, <3>5, <3>6, <3>7, QuietKept DEF Quieted, Busy
  <2>5. CASE req \notin Configs \union {0}
    <3>1. enabled' = enabled /\ ep' = ep
      BY <1>2, <2>5 DEF MscSetConfiguration, SetConfiguration
    <3>2. Types' /\ EnabledInv'
      BY <1>a, <2>3, <3>1 DEF Types, EnabledInv
    <3> QED
      BY <2>2, <2>3, <3>1, <3>2, QuietKept DEF Quieted, Busy
  <2> QED
    BY <2>4, <2>5
<1>3. CASE MscCall
  <2>1. ~Busy
    BY <1>3, <1>a DEF MscCall, CallSetup, Polling, Busy, BusyInv
  <2>2. Quieted
    BY <2>1, QuietInv
  <2>3. UNCHANGED <<t, disk, sense, host>>
    BY <1>3 DEF MscCall
  <2>c. Calls[call] \in {"in", "out"}
    <3>1. call \in 1 .. 3
      BY <1>3, ThreeCalls DEF MscCall, CallSetup, StdTypeOK
    <3> QED
      BY <1>3, <3>1, ThreeCalls DEF MscCall, CallSetup
  <2>4. enabled' = enabled \union {Calls[call]}
    BY <1>3 DEF MscCall, CallSetup, ep_setup_half
  <2>5. CASE Calls[call] = "in"
    <3> DEFINE e == [ ep.in EXCEPT !.tx = "NAK", !.dtog = 0 ]
    <3>1. ep' = [ in |-> e, out |-> ep.out ]
      BY <1>3, <1>b, <2>5 DEF MscCall
    <3>2. /\ e \in Endpoint /\ e.tx = "NAK" /\ e.ctr_tx = ep.in.ctr_tx
          /\ e.tx_buf = ep.in.tx_buf /\ e.rx_buf = ep.in.rx_buf
      BY <1>b DEF Endpoint, Stats
    <3> HIDE DEF e
    <3>3. Types'
      BY <1>a, <1>b, <2>3, <3>1, <3>2 DEF Types
    <3>4. EnabledInv'
      BY <1>a, <2>4, <2>5, <3>1, <3>2 DEF EnabledInv
    <3> QED
      BY <2>2, <2>3, <3>1, <3>2, <3>3, <3>4, QuietKept DEF Quieted, Busy
  <2>6. CASE Calls[call] = "out"
    <3> DEFINE e == [ ep.out EXCEPT !.rx = "VALID", !.dtog = 0 ]
    <3>1. ep' = [ in |-> ep.in, out |-> e ]
      BY <1>3, <1>b, <2>6 DEF MscCall
    <3>2. /\ e \in Endpoint /\ e.rx = "VALID" /\ e.ctr_rx = ep.out.ctr_rx
          /\ e.tx_buf = ep.out.tx_buf /\ e.rx_buf = ep.out.rx_buf
      BY <1>b DEF Endpoint, Stats
    <3> HIDE DEF e
    <3>3. Types'
      BY <1>a, <1>b, <2>3, <3>1, <3>2 DEF Types
    <3>4. EnabledInv'
      BY <1>a, <2>4, <2>6, <3>1, <3>2 DEF EnabledInv
    <3> QED
      BY <2>2, <2>3, <3>1, <3>2, <3>3, <3>4, QuietKept DEF Quieted, Busy
  <2> QED
    BY <2>c, <2>5, <2>6
<1>4. CASE MscConfigured
  <2>1. ~Busy
    BY <1>4, <1>a DEF MscConfigured, Configured, OnBus, Busy, BusyInv
  <2>2. Quieted
    BY <2>1, QuietInv
  <2>3. UNCHANGED <<ep, t, disk, sense, enabled>>
    BY <1>4 DEF MscConfigured, Configured
  <2>4. /\ host' \in HostState /\ host'.stage = host.stage /\ host'.cmd = host.cmd
        /\ host'.got = host.got /\ host'.csw = host.csw
    BY <1>4, <1>b DEF MscConfigured, HostState
  <2>5. Types' /\ EnabledInv'
    BY <1>a, <2>3, <2>4 DEF Types, EnabledInv
  <2> QED
    BY <2>2, <2>3, <2>4, <2>5, QuietKept DEF Quieted, Busy
<1>5. CASE MscBusReset
  <2>1. ~ep.out.ctr_rx /\ ~ep.in.ctr_tx /\ (host.stage = "idle" \/ Stuck)
    BY <1>5 DEF MscBusReset, Orderly
  <2>3. UNCHANGED <<t, disk, sense>> /\ enabled' = {}
    BY <1>5 DEF MscBusReset, BusReset
  <2>4. /\ host' \in HostState /\ host'.stage = "idle"
        /\ host'.cmd = (IF host.stage = "idle" THEN host.cmd ELSE None)
        /\ host'.got = host.got /\ host'.csw = host.csw
    BY <1>5, <1>b DEF MscBusReset, HostState
  <2> DEFINE e == [ ResetRegs(ep.in) EXCEPT !.dtog = 0 ]
             f == [ ResetRegs(ep.out) EXCEPT !.dtog = 0 ]
  <2>5. ep' = [ in |-> e, out |-> f ]
    BY <1>5, ThreeCalls DEF MscBusReset
  <2>6. /\ e \in Endpoint /\ e.tx = "DISABLED" /\ e.ctr_tx = ep.in.ctr_tx
        /\ e.tx_buf = ep.in.tx_buf /\ e.rx_buf = ep.in.rx_buf
    BY <1>b DEF Endpoint, Stats, ResetRegs
  <2>7. /\ f \in Endpoint /\ f.rx = "DISABLED" /\ f.ctr_rx = ep.out.ctr_rx
        /\ f.tx_buf = ep.out.tx_buf /\ f.rx_buf = ep.out.rx_buf
    BY <1>b DEF Endpoint, Stats, ResetRegs
  <2> HIDE DEF e, f
  <2>8. Types'
    BY <1>a, <2>3, <2>4, <2>5, <2>6, <2>7 DEF Types
  <2>9. EnabledInv'
    BY <2>3, <2>5, <2>6, <2>7 DEF EnabledInv
  <2>10. CASE host.stage = "idle"
    <3>1. Quieted
      BY <2>1, <2>10, QuietInv DEF Busy
    <3> QED
      BY <2>1, <2>3, <2>4, <2>5, <2>6, <2>7, <2>8, <2>9, <2>10, <3>1, QuietKept
  <2>11. CASE host.stage # "idle"
    <3>1. Resting /\ t.cbw = <<>> /\ Unanswered(host.cmd) /\ host.cmd \in Commands
      BY <2>1, <2>11, StuckIsStarved
    <3>2. BusyInv'
      BY <2>1, <2>4, <2>5, <2>6, <2>7 DEF BusyInv, Busy
    <3>3. Resting'
      BY <2>1, <2>3, <2>4, <2>5, <2>6, <2>7, <3>1 DEF Resting, AtStart
    <3>4. BlocksInv'
      BY <2>3, <2>8, <2>9, <3>1, <3>2, <3>3 DEF BlocksInv
    <3>5. Stored = disk /\ Stored' = disk'
      BY <2>1, <2>5, <2>7 DEF Stored
    <3>6. host.cmd # None
      BY <3>1, MscSizes
    <3>7. Answered(host) = None /\ Answered(host)' = None
      BY <2>4, <2>11 DEF Answered
    <3> QED
      BY <2>3, <2>4, <2>11, <3>1, <3>4, <3>5, <3>6, <3>7 DEF Blocks!GiveUp
  <2> QED
    BY <2>10, <2>11
<1> QED
  BY <1>1, <1>2, <1>3, <1>4, <1>5

(* So do the halts of the endpoints.                                         *)
LEMMA HaltBlocks ==
    ASSUME BlocksInv, ReadyInv, NEW h \in Halves, Halt(h) \/ ClearHalt(h)
    PROVE  BlocksInv' /\ UNCHANGED Blocks!vars
<1>a. Types /\ EnabledInv /\ BusyInv
  BY DEF BlocksInv
<1>b. /\ ep \in [ in : Endpoint, out : Endpoint ] /\ ep.in \in Endpoint /\ ep.out \in Endpoint
      /\ host \in HostState /\ host.tog \in [ in : {0, 1}, out : {0, 1} ]
  BY <1>a DEF Types, HostState
<1>1. OnBus /\ AtRest /\ UNCHANGED <<enabled, t, disk, sense>>
  BY DEF Halt, ClearHalt, stdvars
<1>2. Quieted
  BY <1>1, QuietInv DEF AtRest, Quiet, Busy
<1>3. ep.in.tx # "DISABLED" /\ ep.out.rx # "DISABLED"
  BY <1>1, ReadyIsEnough DEF Ready, AtRest, Quiet, Polling
<1>4. /\ host' \in HostState /\ host'.stage = host.stage /\ host'.cmd = host.cmd
      /\ host'.got = host.got /\ host'.csw = host.csw
  BY <1>b, ThreeCalls DEF Halt, ClearHalt, HostState
<1>5. CASE h = "in"
  <2>1. PICK e \in Endpoint :
           /\ ep' = [ in |-> e, out |-> ep.out ]
           /\ e.tx \in {"NAK", "STALL"} /\ e.ctr_tx = ep.in.ctr_tx
           /\ e.tx_buf = ep.in.tx_buf /\ e.rx_buf = ep.in.rx_buf
    <3> DEFINE halted == [ ep.in EXCEPT !.tx = "STALL" ]
               cleared == [ ep.in EXCEPT !.tx = "NAK", !.dtog = 0 ]
    <3>1. ep' = [ in |-> halted, out |-> ep.out ] \/ ep' = [ in |-> cleared, out |-> ep.out ]
      BY <1>5, <1>b DEF Halt, ClearHalt, endpoint_unstall
    <3>2. /\ halted \in Endpoint /\ halted.tx = "STALL" /\ halted.ctr_tx = ep.in.ctr_tx
          /\ halted.tx_buf = ep.in.tx_buf /\ halted.rx_buf = ep.in.rx_buf
      BY <1>b DEF Endpoint, Stats
    <3>3. /\ cleared \in Endpoint /\ cleared.tx = "NAK" /\ cleared.ctr_tx = ep.in.ctr_tx
          /\ cleared.tx_buf = ep.in.tx_buf /\ cleared.rx_buf = ep.in.rx_buf
      BY <1>b DEF Endpoint, Stats
    <3> HIDE DEF halted, cleared
    <3> QED
      BY <3>1, <3>2, <3>3
  <2>2. Types'
    BY <1>a, <1>b, <1>1, <1>4, <2>1 DEF Types
  <2>3. EnabledInv'
    BY <1>a, <1>1, <1>3, <2>1 DEF EnabledInv
  <2> QED
    BY <1>1, <1>2, <1>4, <2>1, <2>2, <2>3, QuietKept DEF Quieted, Busy
<1>6. CASE h = "out"
  <2>1. PICK e \in Endpoint :
           /\ ep' = [ in |-> ep.in, out |-> e ]
           /\ e.rx \in {"VALID", "STALL"} /\ e.ctr_rx = ep.out.ctr_rx
           /\ e.tx_buf = ep.out.tx_buf /\ e.rx_buf = ep.out.rx_buf
    <3> DEFINE halted == [ ep.out EXCEPT !.rx = "STALL" ]
               cleared == [ ep.out EXCEPT !.rx = "VALID", !.dtog = 0 ]
    <3>1. ep' = [ in |-> ep.in, out |-> halted ] \/ ep' = [ in |-> ep.in, out |-> cleared ]
      BY <1>6, <1>b DEF Halt, ClearHalt, endpoint_unstall
    <3>2. /\ halted \in Endpoint /\ halted.rx = "STALL" /\ halted.ctr_rx = ep.out.ctr_rx
          /\ halted.tx_buf = ep.out.tx_buf /\ halted.rx_buf = ep.out.rx_buf
      BY <1>b DEF Endpoint, Stats
    <3>3. /\ cleared \in Endpoint /\ cleared.rx = "VALID" /\ cleared.ctr_rx = ep.out.ctr_rx
          /\ cleared.tx_buf = ep.out.tx_buf /\ cleared.rx_buf = ep.out.rx_buf
      BY <1>b DEF Endpoint, Stats
    <3> HIDE DEF halted, cleared
    <3> QED
      BY <3>1, <3>2, <3>3
  <2>2. Types'
    BY <1>a, <1>b, <1>1, <1>4, <2>1 DEF Types
  <2>3. EnabledInv'
    BY <1>a, <1>1, <1>3, <2>1 DEF EnabledInv
  <2> QED
    BY <1>1, <1>2, <1>4, <2>1, <2>2, <2>3, QuietKept DEF Quieted, Busy
<1> QED
  BY <1>5, <1>6, ThreeCalls

(* A command is issued.                                                      *)
LEMMA CommandBlocks ==
    ASSUME Orderly, BlocksInv, ReadyInv, NEW c \in Commands, Command(c)
    PROVE  BlocksInv' /\ Blocks!Issue(c)
<1>1. /\ host.stage = "idle" /\ OnBus /\ ~Halted /\ Quiet
      /\ UNCHANGED <<stdvars, ep, t, disk, sense>>
      /\ host' = [ host EXCEPT !.stage = "cbw", !.cmd = c, !.sent = 0, !.got = <<>>, !.csw = <<>> ]
  BY DEF Command, Orderly
<1>2. Types /\ EnabledInv /\ ~Busy /\ Quieted
  BY <1>1, QuietInv DEF Quiet, Busy, BlocksInv
<1>3. /\ host' \in HostState /\ host'.stage = "cbw" /\ host'.cmd = c /\ host'.sent = 0
      /\ host'.got = <<>> /\ host'.csw = <<>>
  <2>1. host \in HostState /\ <<>> \in Seq(Byte)
    BY <1>2 DEF Types
  <2> QED
    BY <1>1, <2>1 DEF HostState
<1>4. ep.in.tx = "NAK"
  <2>1. ep.in.tx \in Stats
    BY <1>2 DEF Types, Endpoint
  <2>2. ep.in.tx # "DISABLED"
    BY <1>1, ReadyIsEnough DEF Ready, Quiet, Polling
  <2> QED
    BY <1>1, <1>2, <2>1, <2>2 DEF Stats, Halted, Quieted
<1>5. Types' /\ EnabledInv'
  BY <1>1, <1>2, <1>3 DEF Types, EnabledInv, stdvars
<1>6. BusyInv'
  BY <1>1 DEF BusyInv, OnBus, Quiet, Polling, stdvars
<1>7. Resting' /\ t' = t
  BY <1>1, <1>2, <1>3, <1>4 DEF Resting, Quieted, Busy, AtStart
<1>8. BlocksInv'
  BY <1>2, <1>5, <1>6, <1>7 DEF BlocksInv, Quieted
<1>9. Stored' = Stored
  BY <1>1, <1>2 DEF Stored, Quieted, Busy
<1>10. c # None
  BY MscSizes
<1> QED
  BY <1>1, <1>3, <1>8, <1>9, <1>10 DEF Blocks!Issue, Answered

(* A packet that the host sends is the command block or some data, and it    *)
(* is taken.                                                                 *)
LEMMA OutTaken ==
    ASSUME BlocksInv, ReadyInv, HostOut,
           NEW bytes, bytes = BytesOf(host.stage, host.cmd),
           NEW upto, upto = Least(Len(bytes), host.sent + EpSize)
    PROVE  /\ UNCHANGED <<stdvars, t, disk, sense>> /\ ~ep.out.ctr_rx
           /\ ep'.in = ep.in /\ ep'.out.ctr_rx /\ ep'.out.rx = "NAK"
           /\ ep'.out.rx_buf = SubSeq(bytes, host.sent + 1, upto)
           /\ host.stage = IF t.cbw = <<>> THEN "cbw" ELSE "out"
           /\ host'.cmd = host.cmd /\ host'.got = host.got /\ host'.csw = host.csw
           /\ host'.sent = (IF upto = Len(bytes) THEN 0 ELSE upto)
           /\ host'.stage = IF upto < Len(bytes) THEN host.stage
                            ELSE IF host.stage = "cbw" /\ Writes(host.cmd) THEN "out"
                            ELSE IF ReplyLen(host.cmd) > 0 THEN "in" ELSE "csw"
           /\ SubSeq(bytes, host.sent + 1, upto) \in Seq(Byte)
                /\ Len(SubSeq(bytes, host.sent + 1, upto)) <= EpSize
                /\ host'.sent \in Nat
              => Types'
<1>a. Types /\ ep.out.rx = "VALID" /\ host.stage \in {"cbw", "out"} /\ OnBus
  BY DEF BlocksInv, HostOut
<1>b. /\ ep \in [ in : Endpoint, out : Endpoint ] /\ ep.in \in Endpoint /\ ep.out \in Endpoint
      /\ host \in HostState /\ host.tog \in [ in : {0, 1}, out : {0, 1} ]
  BY <1>a DEF Types, HostState
<1>1. ep.out.dtog = host.tog.out
  <2>1. Polling
    BY <1>a DEF BlocksInv, BusyInv, Busy
  <2> QED
    BY <1>a, <2>1, ReadyIsEnough DEF Ready, Polling
<1> DEFINE p == SubSeq(bytes, host.sent + 1, upto)
           e == [ HwOut(ep.out, p) EXCEPT !.dtog = 1 - @ ]
           stage == IF upto < Len(bytes) THEN host.stage
                    ELSE IF host.stage = "cbw" /\ Writes(host.cmd) THEN "out"
                    ELSE IF ReplyLen(host.cmd) > 0 THEN "in" ELSE "csw"
           sent == IF upto = Len(bytes) THEN 0 ELSE upto
<1>2. ep' = [ in |-> ep.in, out |-> e ] /\ UNCHANGED <<stdvars, t, disk, sense>>
  <2>1. ep' = [ ep EXCEPT !.out = e ] /\ UNCHANGED <<stdvars, t, disk, sense>>
    BY <1>1 DEF HostOut
  <2> HIDE DEF e
  <2> QED
    BY <1>b, <2>1
<1>3. host' = [ host EXCEPT !.tog.out = 1 - @, !.sent = sent, !.stage = stage ]
  BY DEF HostOut
<1> HIDE DEF p
<1>4. /\ e.ctr_rx /\ e.rx = "NAK" /\ e.rx_buf = p /\ e.tx_buf = ep.out.tx_buf
      /\ p \in Seq(Byte) => e \in Endpoint
  <2> DEFINE g == ep.out
             toggle == 1 - g.dtog
  <2>0. g \in Endpoint
    BY <1>b
  <2>t. g.dtog \in {0, 1}
    BY <2>0 DEF Endpoint
  <2>1. g \in Endpoint /\ toggle \in {0, 1}
    <3> HIDE DEF g
    <3> QED
      BY <2>0, <2>t
  <2> HIDE DEF toggle
  <2>2. e = [ g EXCEPT !.ctr_rx = TRUE, !.setup = FALSE, !.rx_buf = p, !.rx = "NAK",
                       !.dtog = toggle ]
    BY <1>b DEF HwOut, Endpoint, toggle
  <2> HIDE DEF e, g
  <2>3. e.ctr_rx /\ e.rx = "NAK" /\ e.rx_buf = p /\ e.tx_buf = g.tx_buf
    BY <2>1, <2>2 DEF Endpoint
  <2>4. p \in Seq(Byte) => e \in Endpoint
    BY <2>1, <2>2 DEF Endpoint, Stats
  <2> QED
    BY <2>3, <2>4 DEF g
<1> HIDE DEF e, stage, sent
<1>5. /\ host'.cmd = host.cmd /\ host'.got = host.got /\ host'.csw = host.csw
      /\ host'.sent = sent /\ host'.stage = stage
  BY <1>3, <1>b DEF HostState
<1>6. stage \in {"cbw", "out", "in", "csw"}
  BY <1>a DEF stage
<1>7. sent \in Nat => host' \in HostState
  <2> SUFFICES ASSUME sent \in Nat PROVE host' \in HostState
    OBVIOUS
  <2> DEFINE tog == [ host.tog EXCEPT !.out = 1 - @ ]
  <2>1. tog \in [ in : {0, 1}, out : {0, 1} ]
    BY <1>b
  <2>2. host' = [ host EXCEPT !.tog = tog, !.sent = sent, !.stage = stage ]
    BY <1>3, <1>b DEF HostState
  <2> HIDE DEF tog
  <2> QED
    BY <1>b, <1>6, <2>1, <2>2 DEF HostState
<1>8. ~ep.out.ctr_rx /\ host.stage = IF t.cbw = <<>> THEN "cbw" ELSE "out"
  <2>1. CASE t.cbw = <<>>
    BY <1>a, <2>1 DEF BlocksInv, Resting, Starved
  <2>2. CASE t.cbw # <<>>
    BY <1>a, <2>2 DEF BlocksInv, Running, Writing, Sending, Finishing, Mistaken
  <2> QED
    BY <2>1, <2>2
<1>9. p \in Seq(Byte) /\ Len(p) <= EpSize /\ sent \in Nat => Types'
  BY <1>a, <1>b, <1>2, <1>4, <1>7 DEF Types
<1> QED
  BY <1>2, <1>4, <1>5, <1>8, <1>9 DEF p, stage, sent

(* A step in the course of a command that leaves no block changed, one more  *)
(* written, or the command carried out                                       *)
LEMMA CourseStep ==
    ASSUME host.stage # "idle", host'.stage # "idle", host'.cmd = host.cmd,
           host.cmd \in Commands, Stored \in Disk,
           NEW some \in SUBSET Addressed(host.cmd),
           Stored' = [ b \in DOMAIN Stored |->
                         IF b \in some THEN Content(host.cmd, b) ELSE Stored[b] ],
           sense' \in {sense, SenseAfter(host.cmd, sense)}
    PROVE  Blocks!Perform
<1>1. host.cmd # None
  BY MscSizes
<1>2. Answered(host)' = Answered(host)
  BY DEF Answered
<1> QED
  BY <1>1, <1>2 DEF Blocks!Perform

(* The same, with one block written or none                                  *)
LEMMA WroteStep ==
    ASSUME host.stage # "idle", host'.stage # "idle", host'.cmd = host.cmd,
           host.cmd \in Commands, Stored \in Disk, Wrote(host.cmd, Stored, Stored'),
           sense' = sense
    PROVE  UNCHANGED Blocks!vars \/ Blocks!Perform
<1>1. CASE Stored' = Stored
  BY <1>1 DEF Blocks!vars, Answered
<1>2. ASSUME NEW b \in Addressed(host.cmd),
             Stored' = [ Stored EXCEPT ![b] = Content(host.cmd, b) ]
      PROVE  Blocks!Perform
  <2>1. {b} \in SUBSET Addressed(host.cmd)
    OBVIOUS
  <2>2. Stored' = [ x \in DOMAIN Stored |-> IF x \in {b} THEN Content(host.cmd, x) ELSE Stored[x] ]
    BY <1>2
  <2> QED
    BY <2>1, <2>2, CourseStep
<1> QED
  BY <1>1, <1>2 DEF Wrote

(* A packet from the host: the last of a block writes it.                    *)
LEMMA HostOutBlocks ==
    ASSUME Orderly, BlocksInv, ReadyInv, HostOut
    PROVE  BlocksInv' /\ (UNCHANGED Blocks!vars \/ Blocks!Perform)
<1> DEFINE c == host.cmd
           bytes == BytesOf(host.stage, c)
           sent == host.sent
           upto == Least(Len(bytes), sent + EpSize)
<1>0. bytes = BytesOf(host.stage, host.cmd) /\ upto = Least(Len(bytes), host.sent + EpSize)
  OBVIOUS
<1> HIDE DEF bytes, upto
<1>1. /\ UNCHANGED <<stdvars, t, disk, sense>> /\ ~ep.out.ctr_rx
      /\ ep'.in = ep.in /\ ep'.out.ctr_rx /\ ep'.out.rx = "NAK"
      /\ ep'.out.rx_buf = SubSeq(bytes, host.sent + 1, upto)
      /\ host.stage = IF t.cbw = <<>> THEN "cbw" ELSE "out"
      /\ host'.cmd = host.cmd /\ host'.got = host.got /\ host'.csw = host.csw
      /\ host'.sent = (IF upto = Len(bytes) THEN 0 ELSE upto)
      /\ host'.stage = IF upto < Len(bytes) THEN host.stage
                       ELSE IF host.stage = "cbw" /\ Writes(host.cmd) THEN "out"
                       ELSE IF ReplyLen(host.cmd) > 0 THEN "in" ELSE "csw"
  BY <1>0, OutTaken
<1>t. /\ SubSeq(bytes, host.sent + 1, upto) \in Seq(Byte)
      /\ Len(SubSeq(bytes, host.sent + 1, upto)) <= EpSize
      /\ host'.sent \in Nat
      => Types'
  BY <1>0, OutTaken
<1>2. EnabledInv' /\ BusyInv' /\ t' = t
  <2>1. BusyInv /\ Busy /\ EnabledInv
    BY <1>1 DEF BlocksInv, Busy
  <2>2. ep'.out.rx # "DISABLED" /\ ep.out.rx # "DISABLED"
    BY <1>1 DEF HostOut
  <2> QED
    BY <1>1, <2>1, <2>2 DEF EnabledInv, BusyInv, OnBus, Polling, stdvars
<1>3. Stored = disk /\ disk \in Disk
  BY <1>1, NotWritten DEF Pending, BlocksInv, Types
<1>4. CASE t.cbw = <<>>
  <2>1. Resting /\ host.stage = "cbw" /\ c \in Commands /\ host.sent = 0
    BY <1>1, <1>4 DEF BlocksInv, Resting
  <2>2. bytes \in Seq(Byte) /\ Len(bytes) = CbwLen /\ bytes = CbwBytes(c)
    BY <1>0, <2>1, BytesFacts DEF BytesOf
  <2>3. upto = CbwLen
    BY <1>0, <2>1, <2>2, MscSizes DEF Least, Orderly
  <2>4. SubSeq(bytes, host.sent + 1, upto) = bytes
    <3>1. SubSeq(bytes, 0 + 1, CbwLen) = bytes
      BY <2>2, MscSizes, Part
    <3> QED
      BY <2>1, <2>3, <3>1
  <2>5. host'.sent = 0 /\ host'.stage = FirstStage(c)
    BY <1>1, <2>1, <2>2, <2>3, MscSizes DEF FirstStage
  <2>6. Types'
    <3>1. Len(bytes) <= EpSize /\ host'.sent \in Nat
      BY <2>2, <2>5, MscSizes DEF Orderly
    <3> QED
      BY <1>t, <2>2, <2>4, <3>1, Zenon
  <2>7. Resting'
    <3>1. ep'.out.rx_buf = CbwBytes(host'.cmd)
      BY <1>1, <2>2, <2>4
    <3> QED
      BY <1>1, <1>2, <2>1, <2>5, <3>1 DEF Resting, AtStart
  <2>8. BlocksInv'
    BY <1>2, <1>4, <2>6, <2>7 DEF BlocksInv
  <2>9. Stored' = Stored
    BY <1>1, <1>2, <1>3, <2>1 DEF Resting, AtStart, Stored
  <2>10. host.stage # "idle" /\ host'.stage # "idle"
    BY <2>1, <2>5 DEF FirstStage
  <2> QED
    BY <1>1, <2>8, <2>9, <2>10 DEF Blocks!vars, Answered
<1>5. CASE t.cbw # <<>>
  <2>1. host.stage = "out"
    BY <1>1, <1>5
  <2>2. /\ Running /\ c \in Commands /\ Writing(c) /\ Now \in Dev
        /\ Filled(c, Now) /\ Decided(c, Now)
    BY <1>5, <2>1, WritingFacts
  <2>3. sent < t.to_read /\ sent = t.count
    <3>1. t \in Trans
      BY DEF BlocksInv, Types
    <3>2. sent < t.to_read /\ sent = t.count + 0
      BY <1>1, <2>1, <2>2 DEF Writing
    <3> QED
      BY <3>1, <3>2 DEF Trans
  <2>n. Now.t = t /\ Now.disk = disk
    BY DEF Now
  <2>4. PICK base \in Nat, off \in Nat, total \in Nat :
           /\ c.op = "write" /\ total = c.n * BlockLen /\ t.to_read = total
           /\ t.count \in Nat /\ t.count + EpSize <= total
    BY <2>2, <2>3, <2>n, FilledFacts
  <2>5. bytes = DataOut(c) /\ bytes \in Seq(Byte) /\ Len(bytes) = total
    <3>1. DataOut(c) \in Seq(Byte) /\ Len(DataOut(c)) = c.n * BlockLen
      BY <2>2, <2>4, BytesFacts
    <3> QED
      BY <1>0, <2>1, <2>4, <3>1 DEF BytesOf
  <2>6. upto = t.count + EpSize /\ upto \in Nat /\ t.count < upto /\ upto <= total
    BY <1>0, <2>3, <2>4, <2>5, MscSizes DEF Least
  <2>7. /\ SubSeq(bytes, t.count + 1, upto) \in Seq(Byte)
        /\ Len(SubSeq(bytes, t.count + 1, upto)) = upto - t.count
    <3> DEFINE m == t.count
    <3>1. m \in Nat /\ m <= upto /\ upto \in Nat /\ upto <= Len(bytes)
      BY <2>4, <2>5, <2>6
    <3> HIDE DEF m
    <3>2. /\ SubSeq(bytes, m + 1, upto) \in Seq(Byte)
          /\ Len(SubSeq(bytes, m + 1, upto)) = upto - m
      BY <2>5, <3>1, Part
    <3> QED
      BY <3>2 DEF m
  <2>8. /\ host'.stage = (IF upto < total THEN "out" ELSE "csw")
        /\ host'.sent = (IF upto = total THEN 0 ELSE upto)
    BY <1>1, <2>1, <2>4, <2>5 DEF ReplyLen
  <2>9. Types'
    <3>1. upto - t.count <= EpSize
      BY <2>4, <2>6, MscSizes
    <3> QED
      BY <1>t, <2>3, <2>6, <2>7, <2>8, <3>1
  <2>10. Writing(c)'
    <3>1. /\ ep'.out.rx_buf = SubSeq(DataOut(c), t.count + 1, t.count + EpSize)
          /\ t.count < t.to_read
      BY <1>1, <2>3, <2>5, <2>6
    <3>2. /\ host'.stage = "out" => host'.sent < t.to_read
          /\ host'.stage # "out" => host'.sent = 0
          /\ (IF host'.stage = "out" THEN host'.sent ELSE t.to_read) = t.count + EpSize
          /\ host'.stage \in {"out", "csw"}
      BY <2>4, <2>6, <2>8
    <3>3. IF t.count = 0 THEN NoStatus' /\ ep'.in.tx = "NAK" /\ ~ep'.in.ctr_tx ELSE StatusOut(c)'
      BY <1>1, <1>2, <2>1, <2>2, <3>2 DEF Writing, NoStatus, StatusOut
    <3> QED
      BY <1>1, <1>2, <2>2, <3>1, <3>2, <3>3 DEF Writing, Off
  <2>11. Running'
    BY <1>1, <1>2, <2>2, <2>10 DEF Running
  <2>12. BlocksInv'
    BY <1>2, <1>5, <2>9, <2>11 DEF BlocksInv
  <2>13. Wrote(c, Stored, Stored')
    <3> DEFINE d == Now'
    <3>1. /\ d \in Dev /\ d.t = t /\ d.disk = disk /\ d.out = ep'.out
      <4>1. Types' => Now' \in Dev
        BY DEF Types, Now, Dev
      <4> QED
        BY <1>1, <1>2, <2>9, <4>1 DEF Now
    <3>2. Stored' = write_block(received(d)).disk
      BY <1>1, <1>5, <1>2, <2>12, StoredNext DEF StoredNow, Pending
    <3>3. Filled(c, d) /\ Arrived(c, d)
      BY <1>1, <2>2, <2>3, <2>5, <2>6, <2>n, <3>1 DEF Filled, Arrived
    <3> HIDE DEF d
    <3> DEFINE w == write_block(received(d))
    <3>w. w = write_block(received(d))
      OBVIOUS
    <3> HIDE DEF w
    <3>4. Wrote(c, d.disk, w.disk)
      BY <2>2, <3>1, <3>3, <3>w, WrittenIs
    <3> QED
      BY <1>3, <3>1, <3>2, <3>4, <3>w
  <2> QED
    <3>1. host'.stage # "idle" /\ sense' = sense /\ host'.cmd = host.cmd
      BY <1>1, <2>8
    <3> QED
      BY <1>3, <2>1, <2>2, <2>12, <2>13, <3>1, WroteStep
<1> QED
  BY <1>4, <1>5

(* When all has come in, all is written.                                     *)
LEMMA FilledAll ==
    ASSUME NEW c \in Commands, NEW d \in Dev, Filled(c, d), d.t.count = d.t.to_read
    PROVE  \A b \in Addressed(c) : d.disk[b] = Content(c, b)
<1> DEFINE cur == d.t.cur
           n == c.n
           base == cur * BlockLen
           total == n * BlockLen
<1>1. /\ c.op = "write" /\ n \in Nat /\ total \in Nat /\ cur \in 0 .. n
      /\ cur \in Nat /\ base \in Nat /\ total - base \in 0 .. BlockLen - 1
      /\ OnDisk(c, d.disk, cur)
  <2>1. c.op = "write" /\ n \in Nat /\ total \in Nat
    BY CommandFacts DEF Filled, Writes
  <2>2. cur \in 0 .. n /\ total - base \in 0 .. BlockLen - 1 /\ OnDisk(c, d.disk, cur)
    BY DEF Filled
  <2>3. cur \in Nat /\ base \in Nat
    BY <2>1, <2>2, MscSizes, MulNat
  <2> QED
    BY <2>1, <2>2, <2>3
<1>2. ~(cur < n)
  <2>1. cur < n => base + BlockLen <= total
    <3> HIDE DEF cur, n
    <3> QED
      BY <1>1, MscSizes, MulNext
  <2> HIDE DEF base, total
  <2> QED
    BY <1>1, <2>1, MscSizes
<1> HIDE DEF cur, base, total
<1>3. cur = n
  <2> HIDE DEF n
  <2> QED
    BY <1>1, <1>2
<1>4. DOMAIN d.disk = 0 .. NBlocks - 1
  BY DEF Dev, Disk
<1>5. ASSUME NEW b \in Addressed(c) PROVE d.disk[b] = Content(c, b)
  <2>1. PICK i \in 0 .. c.n - 1 : b = BlockNo(c.lba, i) /\ b \in 0 .. NBlocks - 1
    BY <1>1 DEF Addressed
  <2> QED
    BY <1>1, <1>3, <1>4, <2>1 DEF OnDisk
<1> QED
  BY <1>5

(* What the host takes a status for                                          *)
LEMMA StatusSeen ==
    ASSUME NEW c \in Commands
    PROVE  (CASE CswBytes(c, StatusOf(c)) = CswBytes(c, "passed") -> "passed"
              [] CswBytes(c, StatusOf(c)) = CswBytes(c, "failed") -> "failed"
              [] OTHER -> "garbled") = (IF Refused(c) THEN "failed" ELSE "passed")
<1>1. CswBytes(c, "passed")[1] # CswBytes(c, "failed")[1]
  BY MscSizes DEF CswBytes
<1>2. CswBytes(c, "passed") # CswBytes(c, "failed")
  BY <1>1
<1> QED
  BY <1>2 DEF StatusOf

(* The host takes a packet.                                                  *)
LEMMA InTaken ==
    ASSUME BlocksInv, ReadyInv, HostIn,
           NEW packet, packet = ep.in.tx_buf,
           NEW got, got = host.got \o packet, NEW csw, csw = host.csw \o packet
    PROVE  /\ UNCHANGED <<stdvars, t, disk, sense>> /\ t.cbw # <<>> /\ Running
           /\ ep'.out = ep.out /\ ep'.in.tx = "NAK" /\ ep'.in.ctr_tx
           /\ host.stage \in {"in", "csw"} /\ ep.in.tx = "VALID"
           /\ host'.cmd = host.cmd /\ host'.sent = host.sent
           /\ host.stage = "in" =>
                /\ host'.got = got /\ host'.csw = host.csw
                /\ host'.stage = IF Len(packet) < EpSize \/ Len(got) >= ReplyLen(host.cmd)
                                 THEN "csw" ELSE "in"
           /\ host.stage = "csw" =>
                /\ host'.csw = csw /\ host'.got = host.got
                /\ host'.stage = IF Len(csw) >= CswLen THEN "idle" ELSE "csw"
           /\ Types' /\ EnabledInv' /\ BusyInv'
<1>a. Types /\ EnabledInv /\ BusyInv /\ ep.in.tx = "VALID" /\ host.stage \in {"in", "csw"} /\ OnBus
      /\ UNCHANGED <<stdvars, t, disk, sense>>
  BY DEF BlocksInv, HostIn
<1>b. /\ ep \in [ in : Endpoint, out : Endpoint ] /\ ep.in \in Endpoint /\ ep.out \in Endpoint
      /\ host \in HostState /\ host.tog \in [ in : {0, 1}, out : {0, 1} ]
  BY <1>a DEF Types, HostState
<1>p. Polling
  BY <1>a DEF BusyInv, Busy
<1>1. ep.in.dtog = host.tog.in
  BY <1>a, <1>p, ReadyIsEnough DEF Ready, Polling
<1>2. t.cbw # <<>> /\ Running
  BY <1>a DEF BlocksInv, Resting
<1> DEFINE e == [ HwIn(ep.in) EXCEPT !.dtog = 1 - @ ]
           inside == [ host EXCEPT !.got = got, !.tog.in = 1 - @,
                         !.stage = IF Len(packet) < EpSize \/ Len(got) >= ReplyLen(host.cmd)
                                   THEN "csw" ELSE @ ]
           after == [ host EXCEPT !.csw = csw, !.tog.in = 1 - @,
                        !.stage = IF Len(csw) >= CswLen THEN "idle" ELSE @ ]
<1>3. ep' = [ in |-> e, out |-> ep.out ]
  <2>1. ep' = [ ep EXCEPT !.in = e ]
    BY DEF HostIn
  <2> HIDE DEF e
  <2> QED
    BY <1>b, <2>1
<1>4. e \in Endpoint /\ e.tx = "NAK" /\ e.ctr_tx /\ e.tx_buf = ep.in.tx_buf /\ e.rx_buf = ep.in.rx_buf
  <2> DEFINE g == ep.in
             toggle == 1 - g.dtog
  <2>0. g \in Endpoint
    BY <1>b
  <2>t. g.dtog \in {0, 1}
    BY <2>0 DEF Endpoint
  <2>1. g \in Endpoint /\ toggle \in {0, 1}
    <3> HIDE DEF g
    <3> QED
      BY <2>0, <2>t
  <2> HIDE DEF toggle
  <2>2. e = [ g EXCEPT !.ctr_tx = TRUE, !.tx = "NAK", !.dtog = toggle ]
    BY <1>b DEF HwIn, Endpoint, toggle
  <2> HIDE DEF e, g
  <2>3. e \in Endpoint /\ e.tx = "NAK" /\ e.ctr_tx /\ e.tx_buf = g.tx_buf /\ e.rx_buf = g.rx_buf
    BY <2>1, <2>2 DEF Endpoint, Stats
  <2> QED
    BY <2>3 DEF g
<1>5. host' = IF host.stage = "in" THEN inside ELSE after
  BY <1>1 DEF HostIn
<1> HIDE DEF e
<1>6. packet \in Seq(Byte) /\ got \in Seq(Byte) /\ csw \in Seq(Byte)
  BY <1>b DEF Endpoint, HostState
<1> DEFINE tog == [ host.tog EXCEPT !.in = 1 - @ ]
<1>7. tog \in [ in : {0, 1}, out : {0, 1} ]
  BY <1>b
<1>8. CASE host.stage = "in"
  <2> DEFINE stage == IF Len(packet) < EpSize \/ Len(got) >= ReplyLen(host.cmd) THEN "csw" ELSE "in"
  <2>1. host' = [ host EXCEPT !.got = got, !.tog = tog, !.stage = stage ]
    BY <1>5, <1>8, <1>b DEF HostState
  <2>2. stage \in {"in", "csw"}
    OBVIOUS
  <2> HIDE DEF stage, tog
  <2>3. /\ host' \in HostState /\ host'.got = got /\ host'.csw = host.csw /\ host'.stage = stage
        /\ host'.cmd = host.cmd /\ host'.sent = host.sent
    BY <1>b, <1>6, <1>7, <2>1, <2>2 DEF HostState
  <2>4. Types'
    BY <1>a, <1>b, <1>3, <1>4, <2>3 DEF Types
  <2>5. EnabledInv' /\ BusyInv'
    BY <1>a, <1>p, <1>3, <1>4 DEF EnabledInv, BusyInv, OnBus, Polling, stdvars
  <2> QED
    BY <1>a, <1>2, <1>3, <1>4, <1>8, <2>3, <2>4, <2>5 DEF stage
<1>9. CASE host.stage = "csw"
  <2> DEFINE stage == IF Len(csw) >= CswLen THEN "idle" ELSE "csw"
  <2>1. host' = [ host EXCEPT !.csw = csw, !.tog = tog, !.stage = stage ]
    BY <1>5, <1>9, <1>b DEF HostState
  <2>2. stage \in {"idle", "csw"}
    OBVIOUS
  <2> HIDE DEF stage, tog
  <2>3. /\ host' \in HostState /\ host'.csw = csw /\ host'.got = host.got /\ host'.stage = stage
        /\ host'.cmd = host.cmd /\ host'.sent = host.sent
    BY <1>b, <1>6, <1>7, <2>1, <2>2 DEF HostState
  <2>4. Types'
    BY <1>a, <1>b, <1>3, <1>4, <2>3 DEF Types
  <2>5. EnabledInv' /\ BusyInv'
    BY <1>a, <1>p, <1>3, <1>4 DEF EnabledInv, BusyInv, OnBus, Polling, stdvars
  <2> QED
    BY <1>a, <1>2, <1>3, <1>4, <1>9, <2>3, <2>4, <2>5 DEF stage
<1> QED
  BY <1>a, <1>8, <1>9

(* What is written does not depend on the IN endpoint.                       *)
LEMMA SameDisk ==
    ASSUME NEW d \in Dev, NEW e \in Dev, e.t = d.t, e.out = d.out, e.disk = d.disk
    PROVE  write_block(received(e)).disk = write_block(received(d)).disk
<1> DEFINE packet(x) == read_packet_data(x.out, Least(EpSize, x.t.to_read - x.t.count))
           b(x) == Put(x.t.buf, x.t.count % BlockLen, packet(x))
           k(x) == x.t.count + Len(packet(x))
           u(x) == [ x.t EXCEPT !.buf = b(x), !.count = k(x) ]
           m(x) == received(x)
<1>1. ASSUME NEW x \in Dev
      PROVE  m(x).t = u(x) /\ m(x).disk = x.disk /\ DOMAIN m(x) = DevFields
  <2> DEFINE o == ep_read_packet(x.out)
             p == b(x)
             q == k(x)
  <2>1. m(x) = [ x EXCEPT !.out = o, !.t.buf = p, !.t.count = q ]
    BY DEF received
  <2> HIDE DEF m, o, p, q
  <2>2. m(x).t = [ x.t EXCEPT !.buf = p, !.count = q ] /\ m(x).disk = x.disk
        /\ DOMAIN m(x) = DevFields
    BY <2>1 DEF Dev, Trans, DevFields
  <2> QED
    BY <2>2 DEF p, q
<1>2. u(e) = u(d)
  OBVIOUS
<1> HIDE DEF u, m
<1>3. m(e).t = m(d).t /\ m(e).disk = m(d).disk
  BY <1>1, <1>2
<1>4. ASSUME NEW x \in Dev
      PROVE  write_block(m(x)).disk =
               IF m(x).t.blocks > 0 /\ m(x).t.count % BlockLen = 0
               THEN BlockWritten(m(x).disk, BlockNo(m(x).t.lba, m(x).t.cur), m(x).t.buf)
               ELSE m(x).disk
  <2> DEFINE y == m(x)
  <2>1. DOMAIN y = DevFields
    BY <1>1
  <2> HIDE DEF y
  <2>2. write_block(y).disk =
               IF y.t.blocks > 0 /\ y.t.count % BlockLen = 0
               THEN BlockWritten(y.disk, BlockNo(y.t.lba, y.t.cur), y.t.buf) ELSE y.disk
    BY <2>1 DEF write_block, DevFields
  <2> QED
    BY <2>2 DEF y
<1>5. write_block(m(e)).disk = write_block(m(d)).disk
  BY <1>3, <1>4
<1> QED
  BY <1>5 DEF m

(* The host takes the status.                                                *)
LEMMA AnswerStep ==
    ASSUME NEW c \in Commands, host.cmd = c, host'.cmd = c, ~Unanswered(c),
           host.stage # "idle", host'.stage = "idle",
           Stored' = Stored, \A b \in Addressed(c) : Stored[b] = Content(c, b),
           sense = SenseAfter(c, sense), sense' = sense,
           IsReply(c, Stored, sense, host'.got), host'.csw = CswBytes(c, StatusOf(c))
    PROVE  Blocks!Answer
<1>1. c # None
  BY MscSizes
<1> DEFINE status == CASE host'.csw = CswBytes(c, "passed") -> "passed"
                       [] host'.csw = CswBytes(c, "failed") -> "failed"
                       [] OTHER -> "garbled"
<1>2. Answered(host)' = [ to |-> c, data |-> host'.got, status |-> status ]
  BY <1>1 DEF Answered
<1>3. status = IF Refused(c) THEN "failed" ELSE "passed"
  BY StatusSeen
<1> HIDE DEF status
<1>4. /\ Answered(host)'.to = c /\ Answered(host)'.data = host'.got
      /\ Answered(host)'.status = IF Refused(c) THEN "failed" ELSE "passed"
  BY <1>2, <1>3
<1> QED
  BY <1>1, <1>4 DEF Blocks!Answer

(* The status has been taken: the class has yet to see it.                   *)
LEMMA StatusTaken ==
    ASSUME NEW c \in Commands, StatusOut(c), ep.in.tx = "VALID",
           UNCHANGED t, ep'.in.tx = "NAK", ep'.in.ctr_tx,
           host'.csw = host.csw \o ep.in.tx_buf, host'.stage = "idle"
    PROVE  StatusOut(c)' /\ host'.csw = CswBytes(c, StatusOf(c))
<1>1. host.csw = <<>> /\ ep.in.tx_buf = CswBytes(c, StatusOf(c))
  BY DEF StatusOut
<1>2. CswBytes(c, StatusOf(c)) \in Seq(Byte)
  BY BytesFacts DEF StatusOf
<1>3. host'.csw = CswBytes(c, StatusOf(c))
  BY <1>1, <1>2
<1> QED
  BY <1>3 DEF StatusOut

(* What may come, and is all there, is a reply.                              *)
LEMMA FitsAll ==
    ASSUME NEW c, NEW blocks, NEW key, NEW data \in Seq(Byte),
           Len(data) = ReplyLen(c), Fits(c, blocks, key, 0, data)
    PROVE  IsReply(c, blocks, key, data)
<1>1. ASSUME NEW i \in 1 .. Len(data) PROVE MayReply(c, blocks, key, i, data[i])
  <2>1. MayReply(c, blocks, key, 0 + i, data[i]) /\ 0 + i = i
    BY DEF Fits
  <2> QED
    BY <2>1
<1> QED
  BY <1>1 DEF IsReply

(* The host takes a packet: the status answers the command.                  *)
LEMMA HostInBlocks ==
    ASSUME Orderly, BlocksInv, ReadyInv, HostIn
    PROVE  BlocksInv' /\ (UNCHANGED Blocks!vars \/ Blocks!Answer)
<1> DEFINE c == host.cmd
           packet == ep.in.tx_buf
           got == host.got \o packet
           csw == host.csw \o packet
<1>0. packet = ep.in.tx_buf /\ got = host.got \o packet /\ csw = host.csw \o packet
  OBVIOUS
<1> HIDE DEF packet, got, csw
<1>1. /\ UNCHANGED <<stdvars, t, disk, sense>> /\ t.cbw # <<>> /\ Running
      /\ ep'.out = ep.out /\ ep'.in.tx = "NAK" /\ ep'.in.ctr_tx
      /\ host.stage \in {"in", "csw"} /\ ep.in.tx = "VALID"
      /\ host'.cmd = host.cmd /\ host'.sent = host.sent
      /\ host.stage = "in" =>
           /\ host'.got = got /\ host'.csw = host.csw
           /\ host'.stage = IF Len(packet) < EpSize \/ Len(got) >= ReplyLen(host.cmd)
                            THEN "csw" ELSE "in"
      /\ host.stage = "csw" =>
           /\ host'.csw = csw /\ host'.got = host.got
           /\ host'.stage = IF Len(csw) >= CswLen THEN "idle" ELSE "csw"
      /\ Types' /\ EnabledInv' /\ BusyInv'
  BY <1>0, InTaken
<1>2. /\ c \in Commands /\ t.cbw = CbwBytes(c) /\ t.tag = c /\ t.status = StatusOf(c)
      /\ sense = SenseAfter(c, sense) /\ disk \in Disk /\ sense \in Senses /\ Types
  BY <1>1 DEF Running, BlocksInv, Types
<1>3. Writing(c)' \/ Sending(c)' \/ Finishing(c)' \/ Mistaken(c)' => BlocksInv'
  BY <1>1, <1>2 DEF BlocksInv, Running
<1>4. ASSUME StatusOut(c), host.stage = "csw"
      PROVE  /\ host'.stage = "idle" /\ host'.got = host.got
             /\ StatusOut(c)' /\ host'.csw = CswBytes(c, StatusOf(c))
  <2>1. host.csw = <<>> /\ packet = CswBytes(c, StatusOf(c))
    BY <1>0, <1>1, <1>4 DEF StatusOut
  <2>2. packet \in Seq(Byte) /\ Len(packet) = CswLen
    BY <1>2, <2>1, BytesFacts DEF StatusOf
  <2>3. csw = packet
    BY <1>0, <2>1, <2>2
  <2>4. host'.stage = "idle" /\ host'.got = host.got /\ host'.csw = csw
    BY <1>1, <1>4, <2>2, <2>3, MscSizes
  <2> QED
    BY <1>0, <1>1, <1>2, <1>4, <2>4, StatusTaken
<1>5. CASE Writing(c)
  <2>1. host.stage = "csw" /\ StatusOut(c)
    BY <1>1, <1>5 DEF Writing
  <2>2. /\ host'.stage = "idle" /\ host'.got = host.got
        /\ StatusOut(c)' /\ host'.csw = CswBytes(c, StatusOf(c))
    BY <1>4, <2>1
  <2>3. Now \in Dev /\ Filled(c, Now) /\ (ep.out.ctr_rx => Arrived(c, Now))
    BY <1>1, <1>5, WritingFacts
  <2>n. Now.t = t /\ Now.disk = disk /\ Now.out = ep.out /\ Now'.t = t' /\ Now'.disk = disk'
        /\ Now'.out = ep'.out
    BY DEF Now
  <2>4. t.count # 0
    BY <1>1, <1>5 DEF Writing
  <2>5. Writing(c)'
    BY <1>1, <1>5, <2>1, <2>2, <2>4 DEF Writing, Off
  <2>6. BlocksInv'
    BY <1>3, <2>5
  <2>s. Stored = StoredNow /\ Stored' = StoredNow'
    BY <2>6, StoredIs, StoredNext
  <2>7. Stored' = Stored
    <3>1. CASE Pending
      <4>1. Pending'
        BY <1>1, <3>1 DEF Pending
      <4>2. Now' \in Dev
        BY <1>1 DEF Types, Now, Dev
      <4>3. write_block(received(Now')).disk = write_block(received(Now)).disk
        <5> DEFINE d == Now
                   e == Now'
        <5>1. d \in Dev /\ e \in Dev /\ e.t = d.t /\ e.out = d.out /\ e.disk = d.disk
          BY <1>1, <2>3, <2>n, <4>2
        <5> HIDE DEF d, e
        <5>2. write_block(received(e)).disk = write_block(received(d)).disk
          BY <5>1, SameDisk
        <5> QED
          BY <5>2 DEF d, e
      <4> QED
        BY <2>s, <3>1, <4>1, <4>3 DEF StoredNow
    <3>2. CASE ~Pending
      BY <1>1, <2>s, <3>2 DEF StoredNow, Pending
    <3> QED
      BY <3>1, <3>2
  <2>8. \A b \in Addressed(c) : Stored[b] = Content(c, b)
    <3>0. t.to_read = t.count + (IF ep.out.ctr_rx THEN EpSize ELSE 0) /\ t.count \in Nat
      BY <1>2, <1>5, <2>1 DEF Writing, Types, Trans
    <3>1. CASE Pending
      <4> DEFINE d == Now
                 m == received(d)
                 w == write_block(m)
      <4>1. d \in Dev /\ Filled(c, d) /\ Arrived(c, d) /\ m = received(d) /\ w = write_block(m)
        BY <2>3, <3>1 DEF Pending
      <4>d. d.t = t
        BY <2>n
      <4> HIDE DEF d, m, w
      <4>2. w \in Dev /\ Filled(c, w) /\ w.t.count = d.t.count + EpSize /\ Alike(w.t, d.t)
        BY <1>2, <4>1, WrittenIs
      <4>3. w.t.count = w.t.to_read
        BY <3>0, <3>1, <4>2, <4>d DEF Pending, Alike
      <4>4. \A b \in Addressed(c) : w.disk[b] = Content(c, b)
        BY <1>2, <4>2, <4>3, FilledAll
      <4>5. Stored = w.disk
        BY <2>s, <3>1 DEF StoredNow, w, m, d
      <4> QED
        BY <4>4, <4>5
    <3>2. CASE ~Pending
      <4>1. Stored = disk
        BY <2>s, <3>2 DEF StoredNow
      <4>2. t.count = t.to_read
        BY <1>1, <3>0, <3>2 DEF Pending
      <4> DEFINE d == Now
      <4>3. d \in Dev /\ Filled(c, d) /\ d.t.count = d.t.to_read /\ d.disk = disk
        BY <2>3, <2>n, <4>2
      <4> HIDE DEF d
      <4>4. \A b \in Addressed(c) : d.disk[b] = Content(c, b)
        BY <1>2, <4>3, FilledAll
      <4> QED
        BY <4>1, <4>3, <4>4
    <3> QED
      BY <3>1, <3>2
  <2>9. IsReply(c, Stored, sense, host'.got) /\ ~Unanswered(c)
    <3>1. host'.got = <<>> /\ ReplyLen(c) = 0 /\ ~Unanswered(c)
      BY <1>5, <2>2 DEF Writing, Writes, ReplyLen, Unanswered
    <3> QED
      BY <3>1 DEF IsReply
  <2>10. Blocks!Answer
    BY <1>1, <1>2, <2>1, <2>2, <2>7, <2>8, <2>9, AnswerStep
  <2> QED
    BY <2>6, <2>10
<1>6. CASE Sending(c)
  <2> DEFINE count == t.count
             len == Len(host.got)
  <2>1. /\ host.stage = "in" /\ ~ep.out.ctr_rx /\ len < count
        /\ count = Least(len + EpSize, ReplyLen(c))
        /\ Len(packet) = count - len
        /\ Fits(c, disk, sense, 0, host.got) /\ Fits(c, disk, sense, len, packet)
        /\ count \in 1 .. ReplyLen(c)
    BY <1>0, <1>1, <1>6 DEF Sending, NoStatus
  <2>2. /\ host.got \in Seq(Byte) /\ packet \in Seq(Byte) /\ ReplyLen(c) \in Nat
        /\ len \in Nat /\ count \in Nat
    <3>1. host.got \in Seq(Byte) /\ packet \in Seq(Byte)
      BY <1>0, <1>2 DEF Types, HostState, Endpoint
    <3> QED
      BY <1>2, <2>1, <3>1, CommandFacts
  <2>3. Len(got) = count /\ got \in Seq(Byte)
    <3>1. got \in Seq(Byte) /\ Len(got) = len + Len(packet)
      BY <1>0, <2>2
    <3> HIDE DEF len, count
    <3> QED
      BY <2>1, <2>2, <3>1
  <2>4. Fits(c, disk, sense, 0, got)
    BY <1>0, <2>1, <2>2, FitsOn
  <2>5. host'.stage = IF count = ReplyLen(c) THEN "csw" ELSE "in"
    <3> HIDE DEF len, count
    <3>1. CASE count = ReplyLen(c)
      BY <1>1, <2>1, <2>2, <2>3, <3>1
    <3>2. CASE count # ReplyLen(c)
      <4>1. count = len + EpSize /\ count < ReplyLen(c)
        BY <2>1, <2>2, <3>2, MscSizes DEF Least
      <4>2. ~(Len(packet) < EpSize) /\ ~(Len(got) >= ReplyLen(c))
        BY <2>1, <2>2, <2>3, <4>1, MscSizes
      <4> QED
        BY <1>1, <2>1, <3>2, <4>2
    <3> QED
      BY <3>1, <3>2
  <2>6. Sending(c)'
    <3>1. host'.got = got /\ Len(host'.got) = t.count /\ host'.csw = host.csw
      BY <1>1, <2>1, <2>3
    <3>2. Loaded(c, t', disk', sense')
      BY <1>1, <1>6 DEF Sending
    <3>3. Fits(c, disk', sense', 0, host'.got)
      BY <1>1, <2>4, <3>1
    <3>4. NoStatus'
      BY <1>1, <1>6, <2>5, <3>1 DEF Sending, NoStatus
    <3> QED
      BY <1>1, <1>6, <2>1, <2>5, <3>1, <3>2, <3>3, <3>4 DEF Sending
  <2>7. BlocksInv'
    BY <1>3, <2>6
  <2>8. Stored' = Stored
    BY <1>1, <2>1 DEF Stored
  <2>9. host.stage # "idle" /\ host'.stage # "idle"
    BY <2>1, <2>5
  <2> QED
    BY <1>1, <2>7, <2>8, <2>9 DEF Blocks!vars, Answered
<1>7. CASE Finishing(c)
  <2>1. host.stage = "csw" /\ StatusOut(c) /\ ~ep.out.ctr_rx
    BY <1>1, <1>7 DEF Finishing
  <2>2. /\ host'.stage = "idle" /\ host'.got = host.got
        /\ StatusOut(c)' /\ host'.csw = CswBytes(c, StatusOf(c))
    BY <1>4, <2>1
  <2>3. Finishing(c)'
    BY <1>1, <1>7, <2>1, <2>2 DEF Finishing
  <2>4. BlocksInv'
    BY <1>3, <2>3
  <2>5. Stored = disk /\ Stored' = disk'
    BY <1>1, <2>1 DEF Stored
  <2>6. Blocks!Answer
    <3>0. host.got \in Seq(Byte)
      BY <1>2 DEF Types, HostState
    <3>1. /\ \A b \in Addressed(c) : Stored[b] = Content(c, b)
          /\ IsReply(c, Stored, sense, host'.got) /\ ~Unanswered(c)
      BY <1>7, <2>2, <2>5, <3>0, FitsAll DEF Finishing
    <3>2. Stored' = Stored
      BY <1>1, <2>5
    <3> QED
      BY <1>1, <1>2, <2>1, <2>2, <3>1, <3>2, AnswerStep
  <2> QED
    BY <2>4, <2>6
<1>8. CASE Mistaken(c)
  <2>1. host.stage = "in" /\ ~ep.out.ctr_rx
    BY <1>1, <1>8 DEF Mistaken
  <2>2. host'.stage \in {"in", "csw"}
    BY <1>1, <2>1
  <2>3. Mistaken(c)'
    BY <1>1, <1>8, <2>2 DEF Mistaken
  <2>4. BlocksInv'
    BY <1>3, <2>3
  <2>5. Stored = disk /\ Stored' = disk'
    BY <1>1, <2>1 DEF Stored
  <2>6. host.stage # "idle" /\ host'.stage # "idle"
    BY <2>1, <2>2
  <2> QED
    BY <1>1, <2>4, <2>5, <2>6 DEF Blocks!vars, Answered
<1> QED
  BY <1>1, <1>5, <1>6, <1>7, <1>8 DEF Running

-----------------------------------------------------------------------------
(* The steps of the device                                                   *)

(* The endpoints after a callback                                            *)
LEMMA EndpointFacts ==
    ASSUME NEW e \in Endpoint, NEW p \in Seq(Byte)
    PROVE  /\ Emptied(e) \in Endpoint /\ ~Emptied(e).ctr_rx /\ Emptied(e).rx = "VALID"
           /\ Emptied(e).tx_buf = e.tx_buf /\ Emptied(e).rx_buf = e.rx_buf
           /\ Offered(e, p) \in Endpoint /\ Offered(e, p).tx = "VALID"
           /\ Offered(e, p).tx_buf = p /\ Offered(e, p).rx_buf = e.rx_buf
           /\ Offered(e, p).ctr_tx = e.ctr_tx
  BY DEF Emptied, Offered, Endpoint, Stats

(* The types after a callback                                                *)
LEMMA CallbackTypes ==
    ASSUME BlocksInv, Busy, UNCHANGED host, NEW r \in Dev, Becomes(r),
           r.in.tx # "DISABLED", ep.in.tx # "DISABLED",
           r.out.rx # "DISABLED" <=> ep.out.rx # "DISABLED",
           Len(r.in.tx_buf) <= EpSize, Len(r.out.rx_buf) <= EpSize,
           r.in.rx_buf = <<>>, r.out.tx_buf = <<>>
    PROVE  Types' /\ EnabledInv' /\ BusyInv'
<1>1. /\ ep' = [ in |-> r.in, out |-> r.out ] /\ t' = r.t /\ disk' = r.disk /\ sense' = r.sense
      /\ host' = host /\ enabled' = enabled \union Awake(r)
      /\ UNCHANGED <<istr_reset, believed, wanted, req, call>>
  BY DEF Becomes, Enables
<1>2. r.in \in Endpoint /\ r.out \in Endpoint /\ r.t \in Trans /\ r.disk \in Disk /\ r.sense \in Senses
  BY DEF Dev
<1>3. Types'
  BY <1>1, <1>2 DEF BlocksInv, Types
<1>4. EnabledInv'
  <2>1. /\ "in" \in Awake(r) <=> r.in.tx # "DISABLED"
        /\ "out" \in Awake(r) <=> r.out.rx # "DISABLED"
    BY ThreeCalls DEF Awake
  <2> QED
    BY <1>1, <2>1 DEF BlocksInv, EnabledInv
<1>5. BusyInv'
  BY <1>1 DEF BlocksInv, BusyInv, OnBus, Polling
<1> QED
  BY <1>3, <1>4, <1>5

(* A command block                                                           *)
LEMMA BlockPolled ==
    ASSUME Orderly, BlocksInv, PollOut, t.cbw = <<>>
    PROVE  BlocksInv' /\ Blocks!Perform
<1> DEFINE c == host.cmd
           d == Now
           r == data_rx_cb(d)
<1>1. /\ Resting /\ ep.out.ctr_rx /\ UNCHANGED host /\ Becomes(r) /\ Types
  BY DEF BlocksInv, PollOut
<1>2. /\ c \in Commands /\ host.stage = FirstStage(c) /\ host.stage # "idle" /\ host.sent = 0
      /\ host.got = <<>> /\ host.csw = <<>> /\ ep.in.tx = "NAK" /\ ~ep.in.ctr_tx
      /\ ep.out.rx = "NAK" /\ ep.out.rx_buf = CbwBytes(c)
  <2>1. host.stage = FirstStage(c) /\ host.stage # "idle"
    BY <1>1 DEF Resting, FirstStage
  <2> QED
    BY <1>1, <2>1 DEF Resting
<1>3. /\ d \in Dev /\ Fresh(d.t) /\ d.t.cbw = <<>> /\ d.out = ep.out /\ d.in = ep.in
      /\ d.disk = disk /\ d.sense = sense
  BY <1>1, NowIsTyped DEF Now, Fresh, Resting, AtStart
<1>r. r = data_rx_cb(d)
  OBVIOUS
<1>e. /\ d.out.rx = "NAK" /\ d.out.rx_buf = CbwBytes(c) /\ CbwLen <= EpSize /\ d.in.tx # "VALID"
      /\ CswLen <= EpSize
  BY <1>2, <1>3, MscSizes DEF Orderly
<1> HIDE DEF d, r
<1>4. /\ r \in Dev /\ r.out = Emptied(d.out)
      /\ r.t.cbw = CbwBytes(c) /\ r.t.tag = c /\ r.t.status = StatusOf(c)
      /\ r.sense = SenseAfter(c, d.sense)
      /\ c.op # "format" => r.disk = d.disk
      /\ c.op = "format" =>
           r.disk = [ b \in DOMAIN d.disk |->
                        IF b \in Addressed(c) THEN Content(c, b) ELSE d.disk[b] ]
      /\ Writes(c) =>
           /\ Filled(c, r) /\ r.t.count = 0 /\ r.in = d.in
           /\ ~r.t.csw_valid /\ r.t.csw_sent = 0
      /\ ~Writes(c) => r.t.to_read = 0
      /\ ~Writes(c) /\ ReplyLen(c) > 0 /\ ~Unanswered(c) =>
           /\ r.t.to_write = ReplyLen(c) /\ r.t.count = Least(EpSize, ReplyLen(c))
           /\ Loaded(c, r.t, r.disk, r.sense)
           /\ \E p \in Seq(Byte) :
                 /\ r.in = Offered(d.in, p) /\ Len(p) = r.t.count
                 /\ Fits(c, r.disk, r.sense, 0, p)
           /\ ~r.t.csw_valid /\ r.t.csw_sent = 0
      /\ ~Writes(c) /\ (ReplyLen(c) = 0 \/ Unanswered(c)) =>
           /\ r.t.to_write = 0 /\ r.t.count = 0 /\ r.t.cur = 0
           /\ r.in = Offered(d.in, CswBytes(c, StatusOf(c)))
           /\ r.t.csw_valid /\ r.t.csw_sent = CswLen
  BY <1>2, <1>3, <1>r, <1>e, BlockResult
<1>5. /\ ep' = [ in |-> r.in, out |-> r.out ] /\ t' = r.t /\ disk' = r.disk /\ sense' = r.sense
      /\ host' = host /\ ep'.in = r.in /\ ep'.out = r.out
  BY <1>1 DEF Becomes
<1>6. /\ r.out \in Endpoint /\ ~r.out.ctr_rx /\ r.out.rx = "VALID"
      /\ r.out.tx_buf = <<>> /\ Len(r.out.rx_buf) <= EpSize
  <2>1. d.out \in Endpoint
    BY <1>3 DEF Dev
  <2>2. d.out.tx_buf = <<>> /\ Len(d.out.rx_buf) <= EpSize
    BY <1>1, <1>3 DEF Types
  <2> DEFINE e == d.out
  <2>3. /\ Emptied(e) \in Endpoint /\ ~Emptied(e).ctr_rx /\ Emptied(e).rx = "VALID"
        /\ Emptied(e).tx_buf = e.tx_buf /\ Emptied(e).rx_buf = e.rx_buf
    <3> HIDE DEF e
    <3>1. <<>> \in Seq(Byte)
      OBVIOUS
    <3> QED
      BY <2>1, <3>1, EndpointFacts DEF e
  <2> QED
    BY <1>4, <2>2, <2>3
<1>7. r.in \in Endpoint => (Len(r.in.tx_buf) <= EpSize /\ r.in.rx_buf = <<>> /\ r.in.tx # "DISABLED"
        => Types' /\ EnabledInv' /\ BusyInv')
  <2>1. Busy
    BY <1>1 DEF Busy
  <2> QED
    BY <1>1, <1>2, <1>4, <1>6, <2>1, CallbackTypes
<1>8. t'.cbw # <<>>
  <2>1. CbwBytes(c) \in Seq(Byte) /\ Len(CbwBytes(c)) = CbwLen
    BY <1>2, BytesFacts
  <2>2. CbwBytes(c) # <<>>
    BY <2>1, MscSizes
  <2> QED
    BY <1>4, <1>5, <2>2
<1>9. sense' = SenseAfter(c, sense') /\ sense' = SenseAfter(c, sense)
  BY <1>3, <1>4, <1>5 DEF SenseAfter
<1>10. /\ Types' /\ EnabledInv' /\ BusyInv'
       /\ Writing(c)' \/ Sending(c)' \/ Finishing(c)' \/ Mistaken(c)'
       => BlocksInv'
  BY <1>2, <1>4, <1>5, <1>8, <1>9 DEF BlocksInv, Running
<1>11. Blocks!Perform
  <2>1. Stored = disk
    BY <1>1 DEF Stored, Resting, AtStart
  <2>2. Stored' = disk'
    BY <1>5, <1>6 DEF Stored
  <2>3. disk \in Disk
    BY <1>1 DEF Types
  <2>4. CASE c.op = "format"
    <3>1. disk' = [ b \in DOMAIN disk |->
                     IF b \in Addressed(c) THEN Content(c, b) ELSE disk[b] ]
      BY <1>3, <1>4, <1>5, <2>4
    <3>2. Addressed(c) \in SUBSET Addressed(host.cmd)
      OBVIOUS
    <3>3. Stored' = [ b \in DOMAIN Stored |->
                        IF b \in Addressed(c) THEN Content(c, b) ELSE Stored[b] ]
      BY <2>1, <2>2, <3>1
    <3> QED
      BY <1>2, <1>5, <1>9, <2>1, <2>3, <3>2, <3>3, CourseStep
  <2>5. CASE c.op # "format"
    <3>1. disk' = disk
      BY <1>3, <1>4, <1>5, <2>5
    <3>2. {} \in SUBSET Addressed(host.cmd)
      OBVIOUS
    <3>3. Stored' = [ b \in DOMAIN Stored |-> IF b \in {} THEN Content(c, b) ELSE Stored[b] ]
      BY <2>1, <2>2, <2>3, <3>1 DEF Disk
    <3> QED
      BY <1>2, <1>5, <1>9, <2>1, <2>3, <3>2, <3>3, CourseStep
  <2> QED
    BY <2>4, <2>5
<1>i. d.in \in Endpoint /\ d.in.rx_buf = <<>> /\ Len(d.in.tx_buf) <= EpSize /\ ~d.in.ctr_tx
      /\ d.in.tx = "NAK"
  BY <1>1, <1>2, <1>3 DEF Dev, Types
<1>12. CASE Writes(c)
  <2>1. /\ Filled(c, r) /\ r.t.count = 0 /\ r.in = d.in /\ ~r.t.csw_valid /\ r.t.csw_sent = 0
    BY <1>4, <1>12
  <2>2. Types' /\ EnabledInv' /\ BusyInv'
    BY <1>7, <1>i, <2>1
  <2>3. Writing(c)'
    <3>1. /\ t'.to_read = c.n * BlockLen /\ t'.to_write = 0
          /\ t'.lba = c.lba /\ t'.blocks = c.n
          /\ t'.cur \in 0 .. c.n /\ t'.count \in 0 .. t'.to_read
          /\ Off' \in 0 .. BlockLen - 1 /\ Off' % EpSize = 0
          /\ OnDisk(c, disk', t'.cur)
          /\ \A i \in 1 .. Off' : t'.buf[i] = <<"data", t'.cur * BlockLen + i>>
      BY <1>5, <2>1 DEF Filled, Off
    <3>2. host.stage = "out"
      BY <1>2, <1>12 DEF FirstStage
    <3>3. t'.count = 0 /\ 0 < t'.to_read
      <4> DEFINE n == c.n
                 total == n * BlockLen
      <4>1. n \in Nat /\ n > 0
        BY <1>2, <1>12, CommandFacts DEF Writes
      <4>2. 0 < total
        <5> HIDE DEF n
        <5> QED
          BY <4>1, MscSizes, MulPositive
      <4>3. t'.to_read = total
        BY <3>1
      <4>4. t'.count = 0
        BY <1>5, <2>1
      <4> HIDE DEF total, n
      <4> QED
        BY <4>2, <4>3, <4>4
    <3>4. ~ep'.out.ctr_rx
      BY <1>5, <1>6
    <3>5. NoStatus' /\ ep'.in.tx = "NAK" /\ ~ep'.in.ctr_tx
      BY <1>2, <1>5, <1>i, <2>1 DEF NoStatus
    <3>6. (IF host'.stage = "out" THEN host'.sent ELSE t'.to_read)
             = t'.count + (IF ep'.out.ctr_rx THEN EpSize ELSE 0)
      BY <1>2, <1>5, <3>2, <3>3, <3>4
    <3> QED
      BY <1>2, <1>5, <1>12, <3>1, <3>2, <3>3, <3>4, <3>5, <3>6 DEF Writing
  <2> QED
    BY <1>10, <1>11, <2>2, <2>3
<1>13. CASE ~Writes(c) /\ ReplyLen(c) > 0 /\ ~Unanswered(c)
  <2> DEFINE upto == Least(EpSize, ReplyLen(c))
  <2>1. /\ r.t.to_read = 0 /\ r.t.to_write = ReplyLen(c) /\ r.t.count = upto
        /\ Loaded(c, r.t, r.disk, r.sense)
        /\ ~r.t.csw_valid /\ r.t.csw_sent = 0
    BY <1>4, <1>13
  <2>2. upto \in 1 .. ReplyLen(c) /\ upto <= EpSize /\ upto \in Nat
    BY <1>2, <1>13, CommandFacts, MscSizes DEF Least
  <2>4. PICK p \in Seq(Byte) : /\ r.in = Offered(d.in, p) /\ Len(p) = r.t.count
                              /\ Fits(c, r.disk, r.sense, 0, p)
    BY <1>4, <1>13
  <2> HIDE DEF upto
  <2>5. r.in = Offered(d.in, p) /\ Len(p) = upto
    BY <2>1, <2>4
  <2>6. /\ r.in \in Endpoint /\ r.in.tx = "VALID" /\ r.in.tx_buf = p /\ r.in.rx_buf = <<>>
        /\ ~r.in.ctr_tx
    <3> DEFINE e == d.in
    <3>1. e \in Endpoint
      BY <1>i
    <3> HIDE DEF e
    <3>2. /\ Offered(e, p) \in Endpoint /\ Offered(e, p).tx = "VALID"
          /\ Offered(e, p).tx_buf = p /\ Offered(e, p).rx_buf = e.rx_buf
          /\ Offered(e, p).ctr_tx = e.ctr_tx
      BY <2>4, <3>1, EndpointFacts
    <3> QED
      BY <1>i, <2>5, <3>2 DEF e
  <2>7. Types' /\ EnabledInv' /\ BusyInv'
    BY <1>7, <2>2, <2>5, <2>6
  <2>8. Sending(c)'
    <3>1. host.stage = "in"
      BY <1>2, <1>13 DEF FirstStage
    <3>2. Len(host.got) = 0 /\ Fits(c, disk', sense', 0, host.got)
      BY <1>2 DEF Fits
    <3>3. Least(0 + EpSize, ReplyLen(c)) = upto /\ 0 < upto /\ upto - 0 = upto
      BY <2>2, MscSizes DEF upto
    <3>4. NoStatus'
      BY <1>2, <1>5, <2>1 DEF NoStatus
    <3>5. /\ ep'.in.tx = "VALID" /\ ~ep'.in.ctr_tx /\ host'.stage = "in"
          /\ Len(host'.got) < t'.count /\ t'.count = Least(Len(host'.got) + EpSize, ReplyLen(c))
          /\ Len(ep'.in.tx_buf) = t'.count - Len(host'.got)
          /\ Fits(c, disk', sense', Len(host'.got), ep'.in.tx_buf)
      BY <1>5, <2>1, <2>4, <2>5, <2>6, <3>1, <3>2, <3>3
    <3>6. \/ /\ ep'.in.tx = "VALID" /\ ~ep'.in.ctr_tx /\ host'.stage = "in"
             /\ Len(host'.got) < t'.count /\ t'.count = Least(Len(host'.got) + EpSize, ReplyLen(c))
             /\ Len(ep'.in.tx_buf) = t'.count - Len(host'.got)
             /\ Fits(c, disk', sense', Len(host'.got), ep'.in.tx_buf)
          \/ /\ ep'.in.tx = "NAK" /\ ep'.in.ctr_tx /\ Len(host'.got) = t'.count
             /\ host'.stage = IF t'.count = ReplyLen(c) THEN "csw" ELSE "in"
      BY <3>5
    <3>7. /\ t'.to_read = 0 /\ t'.to_write = ReplyLen(c) /\ t'.count \in 1 .. ReplyLen(c)
          /\ NoStatus' /\ ~ep'.out.ctr_rx /\ host'.sent = 0
      BY <1>2, <1>5, <1>6, <2>1, <2>2, <3>4
    <3>8. Loaded(c, t', disk', sense') /\ Fits(c, disk', sense', 0, host'.got)
      BY <1>5, <2>1, <3>2
    <3>9. c' = c /\ ~Unanswered(c)
      BY <1>5, <1>13
    <3> HIDE DEF c
    <3> QED
      BY <3>6, <3>7, <3>8, <3>9, Zenon DEF Sending
  <2> QED
    BY <1>10, <1>11, <2>7, <2>8
<1>14. CASE ~Writes(c) /\ (ReplyLen(c) = 0 \/ Unanswered(c))
  <2>1. /\ r.t.to_read = 0 /\ r.t.to_write = 0 /\ r.t.count = 0 /\ r.t.cur = 0
        /\ r.in = Offered(d.in, CswBytes(c, StatusOf(c)))
        /\ r.t.csw_valid /\ r.t.csw_sent = CswLen
    BY <1>4, <1>14
  <2> DEFINE p == CswBytes(c, StatusOf(c))
  <2>2. p \in Seq(Byte) /\ Len(p) = CswLen
    BY <1>2, BytesFacts DEF StatusOf
  <2> HIDE DEF p
  <2>3. /\ r.in \in Endpoint /\ r.in.tx = "VALID" /\ r.in.tx_buf = p /\ r.in.rx_buf = <<>>
        /\ ~r.in.ctr_tx
    <3> DEFINE e == d.in
    <3>1. e \in Endpoint
      BY <1>i
    <3> HIDE DEF e
    <3>2. /\ Offered(e, p) \in Endpoint /\ Offered(e, p).tx = "VALID"
          /\ Offered(e, p).tx_buf = p /\ Offered(e, p).rx_buf = e.rx_buf
          /\ Offered(e, p).ctr_tx = e.ctr_tx
      BY <2>2, <3>1, EndpointFacts
    <3> QED
      BY <1>i, <2>1, <3>2 DEF e, p
  <2>4. Types' /\ EnabledInv' /\ BusyInv'
    BY <1>7, <1>e, <2>2, <2>3, MscSizes
  <2>b. /\ t'.to_read = 0 /\ t'.count = t'.to_write /\ ~ep'.out.ctr_rx /\ t'.cur <= t'.blocks
        /\ t'.csw_valid /\ t'.csw_sent = CswLen /\ ep'.in.tx = "VALID" /\ ~ep'.in.ctr_tx
    <3>1. r.t.blocks \in Nat
      BY <1>4 DEF Dev, Trans
    <3> QED
      BY <1>5, <1>6, <2>1, <2>3, <3>1
  <2>m. CASE Unanswered(c)
    <3>1. host.stage = "in"
      <4>1. ReplyLen(c) = c.n /\ c.n > 0
        BY <2>m DEF ReplyLen, Unanswered
      <4> QED
        BY <1>2, <1>14, <4>1 DEF FirstStage
    <3>2. Mistaken(c)'
      BY <1>5, <2>b, <2>m, <3>1 DEF Mistaken
    <3> QED
      BY <1>10, <1>11, <2>4, <3>2
  <2>5. CASE ~Unanswered(c)
    <3>0. ReplyLen(c) = 0
      BY <1>14, <2>5
    <3>1. host.stage = "csw"
      BY <1>2, <1>14, <3>0 DEF FirstStage
    <3>2. \A b \in Addressed(c) : disk'[b] = Content(c, b)
      <4>1. CASE c.op = "format"
        <5>1. disk' = [ b \in DOMAIN disk |->
                     IF b \in Addressed(c) THEN Content(c, b) ELSE disk[b] ]
          BY <1>3, <1>4, <1>5, <4>1
        <5>2. DOMAIN disk = 0 .. NBlocks - 1
          BY <1>1 DEF Types, Disk
        <5>3. Addressed(c) \subseteq DOMAIN disk
          BY <4>1, <5>2, MscSizes DEF Addressed
        <5> QED
          BY <5>1, <5>3
      <4>2. CASE c.op = "write"
        <5>1. c.n = 0 /\ c.lba \in Nat
          BY <1>2, <1>14, <4>2, CommandFacts DEF Writes
        <5> QED
          BY <4>2, <5>1 DEF Addressed
      <4>3. CASE c.op \notin {"format", "write"}
        BY <4>3 DEF Addressed
      <4> QED
        BY <4>1, <4>2, <4>3
    <3>3. Len(host.got) = ReplyLen(c) /\ Fits(c, disk', sense', 0, host.got)
      BY <1>2, <3>0 DEF Fits
    <3>4. StatusOut(c)'
      BY <1>2, <1>5, <2>1, <2>3 DEF StatusOut, p
    <3>5. Finishing(c)'
      BY <1>2, <1>5, <2>b, <2>5, <3>1, <3>2, <3>3, <3>4 DEF Finishing
    <3> QED
      BY <1>10, <1>11, <2>4, <3>5
  <2> QED
    BY <2>5, <2>m
<1> QED
  BY <1>2, <1>12, <1>13, <1>14, CommandFacts

(* A packet of data is polled.                                               *)
LEMMA DataPolled ==
    ASSUME Orderly, BlocksInv, PollOut, t.cbw # <<>>
    PROVE  BlocksInv' /\ UNCHANGED Blocks!vars
<1> DEFINE c == host.cmd
           d == Now
           r == data_rx_cb(d)
<1>1. ep.out.ctr_rx /\ UNCHANGED host /\ Becomes(r) /\ Types
  BY DEF BlocksInv, PollOut
<1>2. /\ Running /\ c \in Commands /\ Writing(c) /\ d \in Dev
      /\ Filled(c, d) /\ Decided(c, d) /\ Arrived(c, d)
  BY <1>1, WritingFacts
<1>3. d.t = t /\ d.out = ep.out /\ d.in = ep.in /\ d.disk = disk /\ d.sense = sense
  BY DEF Now
<1>4. IF d.t.count = 0 THEN ~d.t.csw_valid /\ d.t.csw_sent = 0 /\ d.in.tx # "VALID"
      ELSE d.t.csw_valid /\ d.t.csw_sent = CswLen
  BY <1>2, <1>3 DEF Writing, NoStatus, StatusOut
<1>5. CswLen <= EpSize
  BY MscSizes DEF Orderly
<1>6. r = receive_data(d)
  <2>1. CbwLen - Len(d.t.cbw) <= 0
    BY <1>2, <1>3, BytesFacts, MscSizes DEF Running
  <2>2. d.t.count < d.t.to_read
    BY <1>2 DEF Arrived
  <2> HIDE DEF d
  <2>3. r = continue_rx(d)
    BY <2>1 DEF data_rx_cb
  <2> QED
    BY <2>2, <2>3 DEF continue_rx
<1>7. Stored = write_block(received(d)).disk
  BY <1>1, WrittenBlock DEF Pending
<1> HIDE DEF d, r
<1>8. /\ r \in Dev /\ r.sense = d.sense /\ r.out = Emptied(d.out)
      /\ Filled(c, r) /\ r.t.count = d.t.count + EpSize
      /\ r.t.cbw = d.t.cbw /\ r.t.tag = d.t.tag /\ r.t.status = d.t.status
      /\ r.t.csw_valid /\ r.t.csw_sent = CswLen
      /\ r.in = IF d.t.count = 0 THEN Offered(d.in, CswBytes(c, StatusOf(c))) ELSE d.in
      /\ r.disk = write_block(received(d)).disk
  BY <1>2, <1>4, <1>5, <1>6, ReceiveResult
<1>9. /\ ep' = [ in |-> r.in, out |-> r.out ] /\ t' = r.t /\ disk' = r.disk /\ sense' = r.sense
      /\ host' = host /\ ep'.in = r.in /\ ep'.out = r.out
  BY <1>1 DEF Becomes
<1>i. /\ d.in \in Endpoint /\ d.in.rx_buf = <<>> /\ Len(d.in.tx_buf) <= EpSize
      /\ d.out \in Endpoint /\ d.out.tx_buf = <<>> /\ Len(d.out.rx_buf) <= EpSize
      /\ d.out.rx = "NAK" /\ d.t.count \in Nat
  BY <1>1, <1>2, <1>3 DEF Dev, Types, Arrived, Trans
<1>10. /\ r.out \in Endpoint /\ ~r.out.ctr_rx /\ r.out.rx = "VALID"
       /\ r.out.tx_buf = <<>> /\ Len(r.out.rx_buf) <= EpSize
  <2> DEFINE e == d.out
  <2>1. /\ Emptied(e) \in Endpoint /\ ~Emptied(e).ctr_rx /\ Emptied(e).rx = "VALID"
        /\ Emptied(e).tx_buf = e.tx_buf /\ Emptied(e).rx_buf = e.rx_buf
    <3>1. e \in Endpoint /\ <<>> \in Seq(Byte)
      BY <1>i
    <3> HIDE DEF e
    <3> QED
      BY <3>1, EndpointFacts
  <2> QED
    BY <1>8, <1>i, <2>1
<1>11. /\ d.in.tx \in {"VALID", "NAK"} /\ ((d.in.tx = "NAK" /\ d.in.ctr_tx) \/ ~d.in.ctr_tx)
       /\ host.got = <<>> /\ host.stage \in {"out", "csw", "idle"}
  BY <1>2, <1>3 DEF Writing, NoStatus, StatusOut
<1>12. StatusOut(c)' /\ r.in \in Endpoint /\ r.in.rx_buf = <<>> /\ Len(r.in.tx_buf) <= EpSize
       /\ r.in.tx # "DISABLED"
  <2>1. CASE d.t.count = 0
    <3> DEFINE p == CswBytes(c, StatusOf(c))
               e == d.in
    <3>1. p \in Seq(Byte) /\ Len(p) = CswLen
      BY <1>2, BytesFacts DEF StatusOf
    <3>2. e \in Endpoint /\ r.in = Offered(e, p)
      BY <1>8, <1>i, <2>1
    <3>3. ~e.ctr_tx /\ e.rx_buf = <<>> /\ host.stage # "idle" /\ host.csw = <<>>
      BY <1>2, <1>3, <1>i, <2>1 DEF Writing, NoStatus
    <3> HIDE DEF p, e
    <3>4. /\ r.in \in Endpoint /\ r.in.tx = "VALID" /\ r.in.tx_buf = p /\ r.in.rx_buf = e.rx_buf
          /\ r.in.ctr_tx = e.ctr_tx
      BY <3>1, <3>2, EndpointFacts
    <3>5. StatusOut(c)'
      BY <1>8, <1>9, <3>3, <3>4 DEF StatusOut, p
    <3> QED
      BY <1>5, <3>1, <3>3, <3>4, <3>5
  <2>2. CASE d.t.count # 0
    <3>1. StatusOut(c) /\ r.in = d.in
      BY <1>2, <1>3, <1>8, <2>2 DEF Writing
    <3>2. StatusOut(c)'
      BY <1>3, <1>8, <1>9, <3>1 DEF StatusOut
    <3> QED
      BY <1>11, <1>i, <3>1, <3>2
  <2> QED
    BY <2>1, <2>2
<1>13. Types' /\ EnabledInv' /\ BusyInv'
  <2>1. Busy
    BY <1>1 DEF Busy
  <2>2. ep.in.tx # "DISABLED" /\ ep.out.rx # "DISABLED"
    BY <1>3, <1>11, <1>i
  <2> QED
    BY <1>1, <1>8, <1>10, <1>12, <2>1, <2>2, CallbackTypes
<1>14. Writing(c)'
  <2>1. /\ Writes(c) /\ t'.to_read = c.n * BlockLen /\ t'.to_write = 0
        /\ t'.lba = c.lba /\ t'.blocks = c.n
        /\ t'.cur \in 0 .. c.n /\ t'.count \in 0 .. t'.to_read
        /\ Off' \in 0 .. BlockLen - 1 /\ Off' % EpSize = 0
        /\ OnDisk(c, disk', t'.cur)
        /\ \A i \in 1 .. Off' : t'.buf[i] = <<"data", t'.cur * BlockLen + i>>
    BY <1>8, <1>9 DEF Filled, Off
  <2>2. t'.to_read = t.to_read
    BY <1>2, <1>3, <2>1 DEF Writing
  <2>3. t'.count = t.count + EpSize /\ t'.count # 0 /\ ~ep'.out.ctr_rx /\ t.count \in Nat
    BY <1>3, <1>8, <1>9, <1>10, <1>i, MscSizes
  <2>4. /\ host.stage = "out" => host.sent < t.to_read
        /\ host.stage # "out" => host.sent = 0
        /\ (IF host.stage = "out" THEN host.sent ELSE t.to_read) = t.count + EpSize
    BY <1>1, <1>2 DEF Writing
  <2>5. /\ host'.stage = "out" => host'.sent < t'.to_read
        /\ host'.stage # "out" => host'.sent = 0
        /\ (IF host'.stage = "out" THEN host'.sent ELSE t'.to_read)
              = t'.count + (IF ep'.out.ctr_rx THEN EpSize ELSE 0)
    <3>1. t'.count + 0 = t'.count
      BY <2>3, MscSizes
    <3>2. (IF ep'.out.ctr_rx THEN EpSize ELSE 0) = 0
      BY <2>3
    <3>3. host' = host /\ t'.count = t.count + EpSize
      BY <1>9, <2>3
    <3> QED
      BY <2>2, <2>4, <3>1, <3>2, <3>3
  <2>6. c' = c /\ host'.got = <<>> /\ host'.stage \in {"out", "csw", "idle"}
    BY <1>9, <1>11
  <2>7. IF t'.count = 0 THEN NoStatus' /\ ep'.in.tx = "NAK" /\ ~ep'.in.ctr_tx ELSE StatusOut(c)'
    BY <1>12, <2>3
  <2>8. ep'.out.ctr_rx =>
          /\ ep'.out.rx = "NAK" /\ t'.count < t'.to_read
          /\ ep'.out.rx_buf = SubSeq(DataOut(c), t'.count + 1, t'.count + EpSize)
    BY <2>3
  <2> HIDE DEF c
  <2> QED
    BY <2>1, <2>5, <2>6, <2>7, <2>8, Zenon DEF Writing
<1>15. BlocksInv'
  <2>1. t'.cbw = CbwBytes(c) /\ t'.tag = c /\ t'.status = StatusOf(c) /\ sense' = SenseAfter(c, sense')
    BY <1>2, <1>3, <1>8, <1>9 DEF Running
  <2>2. Running'
    BY <1>2, <1>9, <1>14, <2>1 DEF Running
  <2>3. t'.cbw # <<>>
    BY <1>3, <1>8, <1>9
  <2> QED
    BY <1>13, <2>2, <2>3 DEF BlocksInv
<1>16. Stored' = Stored /\ sense' = sense
  BY <1>3, <1>7, <1>8, <1>9, <1>10 DEF Stored
<1> QED
  BY <1>9, <1>15, <1>16 DEF Blocks!vars, Answered

(* The completion of an IN token is polled.                                  *)
LEMMA PollInBlocks ==
    ASSUME Orderly, BlocksInv, PollIn
    PROVE  BlocksInv' /\ UNCHANGED Blocks!vars
<1> DEFINE c == host.cmd
           d == [ Now EXCEPT !.in = clear_ctr_tx(@) ]
           r == data_tx_cb(d)
<1>1. /\ ep.in.ctr_tx /\ ~ep.out.ctr_rx /\ UNCHANGED host /\ Becomes(r) /\ Types
  BY DEF BlocksInv, PollIn, Orderly
<1>2. /\ t.cbw # <<>> /\ Running /\ c \in Commands /\ Busy
  BY <1>1 DEF BlocksInv, Resting, Running, Busy
<1>3. /\ d \in Dev /\ d.t = t /\ d.out = ep.out /\ d.disk = disk /\ d.sense = sense
      /\ d.in.tx = ep.in.tx /\ ~d.in.ctr_tx /\ d.in.rx_buf = <<>> /\ Len(d.in.tx_buf) <= EpSize
  <2> DEFINE e == ep.in
             f == clear_ctr_tx(e)
  <2>1. e \in Endpoint /\ e.rx_buf = <<>> /\ Len(e.tx_buf) <= EpSize
    BY <1>1 DEF Types
  <2>2. f \in Endpoint /\ f.tx = e.tx /\ ~f.ctr_tx /\ f.rx_buf = e.rx_buf /\ f.tx_buf = e.tx_buf
    <3> HIDE DEF e
    <3> QED
      BY <2>1 DEF clear_ctr_tx, Endpoint
  <2>3. d = [ Now EXCEPT !.in = f ]
    BY DEF Now
  <2>4. Now \in Dev
    BY <1>1, NowIsTyped
  <2> HIDE DEF f
  <2>5. d \in Dev /\ d.in = f /\ d.t = Now.t /\ d.out = Now.out /\ d.disk = Now.disk
        /\ d.sense = Now.sense
    BY <2>2, <2>3, <2>4 DEF Dev
  <2> QED
    BY <2>1, <2>2, <2>5 DEF Now
<1>r. r = data_tx_cb(d)
  OBVIOUS
<1> HIDE DEF d, r
<1>4. /\ ep' = [ in |-> r.in, out |-> r.out ] /\ t' = r.t /\ disk' = r.disk /\ sense' = r.sense
      /\ host' = host /\ ep'.in = r.in /\ ep'.out = r.out
  BY <1>1 DEF Becomes
<1>5. d.in \in Endpoint /\ d.out \in Endpoint /\ d.t \in Trans /\ d.disk \in Disk /\ d.sense \in Senses
  BY <1>3 DEF Dev
<1>6. /\ ep.out.tx_buf = <<>> /\ Len(ep.out.rx_buf) <= EpSize
      /\ ep.in.tx = "NAK" /\ ep.out \in Endpoint
  BY <1>1, <1>2 DEF Types, Running, Writing, Sending, Finishing, Mistaken, StatusOut
<1>7. (* Every outcome leaves all but the transaction and what is offered. *)
      ASSUME r \in Dev, r.out = d.out, r.disk = d.disk, r.sense = d.sense,
             r.in.rx_buf = <<>>, Len(r.in.tx_buf) <= EpSize, r.in.tx # "DISABLED"
      PROVE  Types' /\ EnabledInv' /\ BusyInv' /\ UNCHANGED Blocks!vars
  <2>1. Types' /\ EnabledInv' /\ BusyInv'
    BY <1>1, <1>2, <1>3, <1>6, <1>7, CallbackTypes
  <2>2. Stored = disk /\ Stored' = disk' /\ disk' = disk /\ sense' = sense
    BY <1>1, <1>3, <1>4, <1>7 DEF Stored
  <2> QED
    BY <1>4, <2>1, <2>2 DEF Blocks!vars, Answered
<1>8. (* The status is there: the transaction ends. *)
      ASSUME t.csw_valid, t.csw_sent = CswLen, ~(t.count < t.to_write),
             host.stage = "idle" \/ Starved
      PROVE  BlocksInv' /\ UNCHANGED Blocks!vars
  <2>1. /\ r \in Dev /\ r.in = d.in /\ r.out = d.out /\ r.disk = d.disk /\ r.sense = d.sense
        /\ r.t.cbw = <<>> /\ Fresh(r.t)
    BY <1>3, <1>8, <1>r, EndResult
  <2>2. Types' /\ EnabledInv' /\ BusyInv' /\ UNCHANGED Blocks!vars
    BY <1>3, <1>6, <1>7, <2>1
  <2>3. Resting'
    <3>1. host'.stage = "idle" \/ Starved'
      BY <1>4, <1>8 DEF Starved
    <3>2. AtStart'
      BY <1>4, <2>1 DEF AtStart, Fresh
    <3>3. /\ ep'.in.tx = "NAK" /\ ~ep'.in.ctr_tx /\ ~ep'.out.ctr_rx
          /\ host' = host /\ host.cmd \in Commands
      BY <1>1, <1>2, <1>3, <1>4, <1>6, <2>1
    <3> QED
      BY <3>1, <3>2, <3>3 DEF Resting, Starved
  <2> QED
    BY <1>4, <2>1, <2>2, <2>3 DEF BlocksInv
<1>9. CASE Writing(c)
  <2>1. StatusOut(c) /\ host.stage = "idle"
    BY <1>1, <1>9 DEF Writing, StatusOut
  <2>2. t.to_read = t.count + 0 /\ t.to_write = 0 /\ t.count \in Nat
    BY <1>1, <1>3, <1>5, <1>9, <2>1 DEF Writing, Trans
  <2>3. t.csw_valid /\ t.csw_sent = CswLen
    BY <2>1 DEF StatusOut
  <2> QED
    BY <1>8, <2>1, <2>2, <2>3
<1>10. CASE Finishing(c)
  <2>1. StatusOut(c) /\ t.count = t.to_write /\ t.count \in Nat
    BY <1>3, <1>5, <1>10 DEF Finishing, Trans
  <2>2. t.csw_valid /\ t.csw_sent = CswLen /\ host.stage = "idle"
    BY <1>1, <2>1 DEF StatusOut
  <2> QED
    BY <1>8, <2>1, <2>2
<1>12. CASE Mistaken(c)
  <2>1. t.csw_valid /\ t.csw_sent = CswLen /\ t.count = t.to_write /\ t.count \in Nat
    BY <1>3, <1>5, <1>12 DEF Mistaken, Trans
  <2>2. Starved
    BY <1>1, <1>12 DEF Mistaken, Starved
  <2> QED
    BY <1>8, <2>1, <2>2
<1>11. CASE Sending(c)
  <2>1. /\ t.to_read = 0 /\ t.to_write = ReplyLen(c) /\ t.count \in 1 .. ReplyLen(c)
        /\ NoStatus /\ ~ep.out.ctr_rx /\ host.sent = 0 /\ Loaded(c, t, disk, sense)
        /\ Fits(c, disk, sense, 0, host.got) /\ Len(host.got) = t.count /\ ~Unanswered(c)
        /\ host.stage = IF t.count = ReplyLen(c) THEN "csw" ELSE "in"
    BY <1>1, <1>11 DEF Sending
  <2>2. ReplyLen(c) \in Nat
    BY <1>2, CommandFacts
  <2>3. /\ t.count \in Nat /\ ~t.csw_valid /\ t.csw_sent = 0 /\ host.stage # "idle"
        /\ host.csw = <<>> /\ d.in.tx # "VALID"
    BY <1>3, <1>6, <2>1, <2>2 DEF NoStatus
  <2>4. /\ t.cbw = CbwBytes(c) /\ t.tag = c /\ t.status = StatusOf(c)
        /\ sense = SenseAfter(c, sense)
    BY <1>2 DEF Running
  <2>5. CASE t.count < ReplyLen(c)
    <3> DEFINE upto == Least(t.count + EpSize, ReplyLen(c))
    <3>1. /\ r \in Dev /\ r.out = d.out /\ r.disk = d.disk /\ r.sense = d.sense
          /\ upto \in Nat /\ t.count < upto /\ upto <= ReplyLen(c) /\ upto <= t.count + EpSize
          /\ \E p \in Seq(Byte) : /\ r.in = Offered(d.in, p) /\ Len(p) = upto - t.count
                                /\ Fits(c, disk, sense, t.count, p)
          /\ r.t.count = upto
          /\ Loaded(c, r.t, disk, sense)
          /\ r.t.cbw = t.cbw /\ r.t.to_read = t.to_read /\ r.t.to_write = t.to_write
          /\ r.t.csw_valid = t.csw_valid /\ r.t.csw_sent = t.csw_sent
          /\ r.t.tag = t.tag /\ r.t.status = t.status
      <4> DEFINE count == d.t.count
                 top == Least(count + EpSize, ReplyLen(c))
      <4>1. top = Least(d.t.count + EpSize, ReplyLen(c))
        OBVIOUS
      <4>2. top = upto
        BY <1>3
      <4> HIDE DEF top
      <4>3. /\ r \in Dev /\ r.out = d.out /\ r.disk = d.disk /\ r.sense = d.sense
            /\ top \in Nat /\ d.t.count < top /\ top <= ReplyLen(c) /\ top <= d.t.count + EpSize
            /\ \E p \in Seq(Byte) : /\ r.in = Offered(d.in, p) /\ Len(p) = top - d.t.count
                                  /\ Fits(c, d.disk, d.sense, d.t.count, p)
            /\ r.t.count = top
            /\ Loaded(c, r.t, d.disk, d.sense)
            /\ r.t.cbw = d.t.cbw /\ r.t.to_read = d.t.to_read /\ r.t.to_write = d.t.to_write
            /\ r.t.csw_valid = d.t.csw_valid /\ r.t.csw_sent = d.t.csw_sent
            /\ r.t.tag = d.t.tag /\ r.t.status = d.t.status
        <5>1. d.t.to_write = ReplyLen(c) /\ d.t.count < ReplyLen(c) /\ Loaded(c, d.t, d.disk, d.sense)
          BY <1>3, <2>1, <2>5
        <5>2. r = send_data(d)
          BY <1>r, <5>1 DEF data_tx_cb
        <5> QED
          BY <1>2, <1>3, <2>1, <2>3, <4>1, <5>1, <5>2, SendResult
      <4> HIDE DEF upto
      <4> QED
        BY <1>3, <4>2, <4>3
    <3>m. upto = Least(t.count + EpSize, ReplyLen(c))
      OBVIOUS
    <3> HIDE DEF upto
    <3>2. PICK p \in Seq(Byte) : /\ r.in = Offered(d.in, p) /\ Len(p) = upto - t.count
                                /\ Fits(c, disk, sense, t.count, p)
      BY <3>1
    <3>3. /\ r.in.tx = "VALID" /\ r.in.tx_buf = p /\ r.in.rx_buf = <<>> /\ ~r.in.ctr_tx
      <4> DEFINE e == d.in
      <4>1. e \in Endpoint
        BY <1>5
      <4> HIDE DEF e
      <4>2. /\ Offered(e, p).tx = "VALID" /\ Offered(e, p).tx_buf = p
            /\ Offered(e, p).rx_buf = e.rx_buf /\ Offered(e, p).ctr_tx = e.ctr_tx
        BY <3>2, <4>1, EndpointFacts
      <4> QED
        BY <1>3, <3>2, <4>2 DEF e
    <3>4. Len(p) <= EpSize
      BY <2>3, <3>1, <3>2, MscSizes
    <3>5. Types' /\ EnabledInv' /\ BusyInv' /\ UNCHANGED Blocks!vars
      BY <1>7, <3>1, <3>3, <3>4
    <3>6. t'.count \in 1 .. ReplyLen(c)
      BY <1>4, <2>2, <2>3, <3>1
    <3>7. NoStatus'
      BY <1>4, <2>3, <3>1 DEF NoStatus
    <3>8. host.stage = "in"
      BY <2>1, <2>2, <2>3, <2>5
    <3>9. disk' = disk /\ sense' = sense /\ c' = c /\ host' = host /\ ep'.out = ep.out
      BY <1>3, <1>4, <3>1
    <3>10. /\ ep'.in.tx = "VALID" /\ ~ep'.in.ctr_tx /\ host'.stage = "in"
           /\ Len(host'.got) < t'.count /\ t'.count = Least(Len(host'.got) + EpSize, ReplyLen(c))
           /\ Len(ep'.in.tx_buf) = t'.count - Len(host'.got)
           /\ Fits(c, disk', sense', Len(host'.got), ep'.in.tx_buf)
      BY <1>4, <2>1, <3>1, <3>2, <3>3, <3>8, <3>9, <3>m
    <3>11. /\ t'.to_read = 0 /\ t'.to_write = ReplyLen(c) /\ ~ep'.out.ctr_rx /\ host'.sent = 0
           /\ Loaded(c, t', disk', sense') /\ ~Unanswered(c)
           /\ Fits(c, disk', sense', 0, host'.got)
      BY <1>4, <2>1, <3>1, <3>9
    <3>12. t'.cbw = CbwBytes(c) /\ t'.tag = c /\ t'.status = StatusOf(c) /\ sense' = SenseAfter(c, sense')
      BY <1>4, <2>4, <3>1, <3>9
    <3>13. t'.cbw # <<>>
      BY <1>2, <1>4, <3>1
    <3> HIDE DEF c
    <3>14. Sending(c)'
      BY <3>6, <3>7, <3>9, <3>10, <3>11, Zenon DEF Sending
    <3>15. Running'
      <4> USE DEF c
      <4> QED
        BY <1>2, <3>9, <3>12, <3>14 DEF Running
    <3> QED
      BY <3>5, <3>13, <3>15 DEF BlocksInv
  <2>6. CASE t.count = ReplyLen(c)
    <3> DEFINE p == CswBytes(c, StatusOf(c))
               e == d.in
    <3>1. Decided(c, d)
      <4>1. c.op # "unknown"
        BY <2>1, <2>2 DEF ReplyLen, Unanswered
      <4> QED
        BY <1>3, <2>4, <4>1 DEF Decided
    <3>2. /\ r \in Dev /\ r.out = d.out /\ r.disk = d.disk /\ r.sense = d.sense
          /\ r.in = Offered(d.in, p)
          /\ r.t.csw_valid /\ r.t.csw_sent = CswLen
          /\ r.t.cbw = d.t.cbw /\ r.t.tag = d.t.tag /\ r.t.status = d.t.status
          /\ r.t.to_read = d.t.to_read /\ r.t.to_write = d.t.to_write
          /\ r.t.count = d.t.count /\ r.t.cur \in {0, d.t.cur} /\ r.t.blocks = d.t.blocks
      <4>1. CswLen <= EpSize
        BY MscSizes DEF Orderly
      <4>2. d.t.count = d.t.to_write /\ ~d.t.csw_valid /\ d.t.csw_sent = 0
        BY <1>3, <2>1, <2>3, <2>6
      <4> QED
        BY <1>2, <1>3, <1>r, <2>3, <3>1, <4>1, <4>2, SentResult
    <3>3. p \in Seq(Byte) /\ Len(p) = CswLen
      BY <1>2, BytesFacts DEF StatusOf
    <3>4. r.in = Offered(e, p) /\ e \in Endpoint /\ ~e.ctr_tx /\ e.rx_buf = <<>>
      BY <1>3, <1>5, <3>2
    <3> HIDE DEF p, e
    <3>5. r.in.tx = "VALID" /\ r.in.tx_buf = p /\ r.in.rx_buf = <<>> /\ ~r.in.ctr_tx
      BY <3>3, <3>4, EndpointFacts
    <3>6. Types' /\ EnabledInv' /\ BusyInv' /\ UNCHANGED Blocks!vars
      <4>1. Len(p) <= EpSize
        BY <3>3, MscSizes DEF Orderly
      <4> QED
        BY <1>7, <3>2, <3>5, <4>1
    <3>7. StatusOut(c)'
      BY <1>4, <2>3, <3>2, <3>5 DEF StatusOut, p
    <3>8. \A b \in Addressed(c) : disk'[b] = Content(c, b)
      <4>1. ReplyLen(c) > 0 /\ c.op \notin {"write", "format"}
        BY <2>1, <2>2 DEF ReplyLen
      <4> QED
        BY <4>1 DEF Addressed
    <3>9. t.cur \in Nat /\ t.cur <= t.blocks
      BY <1>2, <1>3, <1>5, <2>1, LoadedCount
    <3>10. t'.cur <= t'.blocks
      <4>1. t.blocks \in Nat
        BY <1>3, <1>5 DEF Trans
      <4> QED
        BY <1>3, <1>4, <3>2, <3>9, <4>1
    <3>11. Finishing(c)'
      <4>1. /\ t'.to_read = 0 /\ t'.count = t'.to_write /\ ~ep'.out.ctr_rx
        BY <1>1, <1>3, <1>4, <2>1, <2>6, <3>2
      <4>2. /\ Len(host'.got) = ReplyLen(c) /\ Fits(c, disk', sense', 0, host'.got)
            /\ host'.sent = 0 /\ host'.stage = "csw"
        BY <1>3, <1>4, <2>1, <2>6, <3>2
      <4>3. c' = c
        BY <1>4
      <4> HIDE DEF c
      <4> QED
        BY <2>1, <3>7, <3>8, <3>10, <4>1, <4>2, <4>3 DEF Finishing
    <3>12. Running'
      BY <1>2, <1>3, <1>4, <2>4, <3>2, <3>11 DEF Running
    <3> QED
      BY <1>2, <1>3, <1>4, <3>2, <3>6, <3>12 DEF BlocksInv
  <2> QED
    BY <2>1, <2>2, <2>5, <2>6
<1> QED
  BY <1>2, <1>9, <1>10, <1>11, <1>12 DEF Running

-----------------------------------------------------------------------------
(* The theorems                                                              *)

(* The invariant holds at first, and is kept by every step, which is one of  *)
(* BlockDevice or changes nothing there.                                     *)
LEMMA InitBlocks == Init => BlocksInv /\ Blocks!Init
<1> SUFFICES ASSUME Init PROVE BlocksInv /\ Blocks!Init
  OBVIOUS
<1>1. /\ ep = [ in |-> NoEp, out |-> NoEp ] /\ sense = "none"
      /\ t = [ cbw |-> <<>>, to_read |-> 0, to_write |-> 0, count |-> 0, lba |-> None,
               blocks |-> 0, cur |-> 0, csw_valid |-> FALSE, csw_sent |-> 0,
               tag |-> None, status |-> "passed", buf |-> ZeroBlock ]
      /\ disk = [ b \in 0 .. NBlocks - 1 |-> ZeroBlock ]
      /\ host = [ stage |-> "idle", cmd |-> None, sent |-> 0, got |-> <<>>, csw |-> <<>>,
                  tog |-> [ in |-> 0, out |-> 0 ] ]
      /\ enabled = {}
  BY DEF Init, StdInit
<1>2. Types
  <2>1. NoEp \in Endpoint /\ Len(NoEp.tx_buf) = 0 /\ Len(NoEp.rx_buf) = 0
        /\ NoEp.tx_buf = <<>> /\ NoEp.rx_buf = <<>>
    BY DEF NoEp, Endpoint, Stats
  <2>2. t \in Trans
    BY <1>1, ZeroBlockIsBlock DEF Trans
  <2>3. disk \in Disk
    BY <1>1, ZeroBlockIsBlock DEF Disk
  <2>4. host \in HostState /\ sense \in Senses
    BY <1>1 DEF HostState, Senses
  <2> QED
    BY <1>1, <2>1, <2>2, <2>3, <2>4, MscSizes DEF Types
<1>3. ~ep.out.ctr_rx /\ ~ep.in.ctr_tx /\ ep.in.tx = "DISABLED" /\ ep.out.rx = "DISABLED"
  BY <1>1 DEF NoEp
<1>4. EnabledInv /\ BusyInv /\ Resting
  BY <1>1, <1>3 DEF EnabledInv, BusyInv, Busy, Resting, AtStart
<1>5. BlocksInv
  BY <1>1, <1>2, <1>4 DEF BlocksInv
<1>6. Stored = disk
  BY <1>3 DEF Stored
<1>7. host.stage = "idle" /\ host.cmd = None
  BY <1>1
<1> QED
  BY <1>1, <1>5, <1>6, <1>7 DEF Blocks!Init, Answered

LEMMA NextBlocks ==
    ASSUME Orderly, BlocksInv, ReadyInv, StdTypeOK, [Next]_vars
    PROVE  BlocksInv' /\ [Blocks!Next]_(Blocks!vars)
<1>1. CASE \/ MscPollReset \/ MscSetConfiguration \/ MscCall \/ MscRegister
           \/ (\E v \in Values : MscConfigure(v)) \/ MscConfigured \/ MscBusReset
  BY <1>1, ConfigureBlocks DEF Blocks!Next
<1>2. CASE \E h \in Halves : Halt(h) \/ ClearHalt(h)
  BY <1>2, HaltBlocks
<1>3. CASE \E c \in Commands : Command(c)
  BY <1>3, CommandBlocks DEF Blocks!Next
<1>4. CASE PollOut
  BY <1>4, BlockPolled, DataPolled DEF Blocks!Next
<1>5. CASE PollIn
  BY <1>5, PollInBlocks
<1>6. CASE HostOut
  BY <1>6, HostOutBlocks DEF Blocks!Next
<1>7. CASE HostIn
  BY <1>7, HostInBlocks DEF Blocks!Next
<1>8. CASE UNCHANGED vars
  <2>1. UNCHANGED <<ep, t, disk, sense, host, enabled>> /\ (OnBus' <=> OnBus) /\ (Polling' <=> Polling)
    BY <1>8 DEF vars, mscvars, stdvars, OnBus, Polling
  <2>2. Types' /\ EnabledInv' /\ BusyInv'
    BY <2>1 DEF BlocksInv, Types, EnabledInv, BusyInv, Busy
  <2>3. t.cbw = <<>> => Resting'
    BY <2>1 DEF BlocksInv, Resting, AtStart, Starved
  <2>4. ASSUME t.cbw # <<>> PROVE Running'
    <3> DEFINE c == host.cmd
    <3>1. /\ c \in Commands /\ t.cbw = CbwBytes(c) /\ t.tag = c /\ t.status = StatusOf(c)
          /\ sense = SenseAfter(c, sense)
          /\ Writing(c) \/ Sending(c) \/ Finishing(c) \/ Mistaken(c)
      BY <2>4 DEF BlocksInv, Running
    <3>2. c' = c
      BY <2>1
    <3>3. (StatusOut(c)' <=> StatusOut(c)) /\ (NoStatus' <=> NoStatus) /\ Off' = Off
      BY <2>1 DEF StatusOut, NoStatus, Off
    <3>4. Writing(c) => Writing(c)'
      BY <2>1, <3>3 DEF Writing
    <3>5. Sending(c) => Sending(c)'
      BY <2>1, <3>3 DEF Sending
    <3>6. Finishing(c) => Finishing(c)'
      BY <2>1, <3>3 DEF Finishing
    <3>7. Mistaken(c) => Mistaken(c)'
      BY <2>1 DEF Mistaken
    <3> QED
      BY <2>1, <3>1, <3>2, <3>4, <3>5, <3>6, <3>7 DEF Running
  <2>5. BlocksInv'
    BY <2>1, <2>2, <2>3, <2>4 DEF BlocksInv
  <2>6. Stored' = Stored
    BY <2>1 DEF Stored, Now
  <2> QED
    BY <2>1, <2>5, <2>6 DEF Blocks!vars, Answered
<1> QED
  BY <1>1, <1>2, <1>3, <1>4, <1>5, <1>6, <1>7, <1>8 DEF Next, Device

(* The bounds of what the class counts                                       *)
LEMMA BlocksTyped ==
    ASSUME BlocksInv, StdTypeOK PROVE TypeOK
<1>1. Types /\ EnabledInv
  BY DEF BlocksInv
<1>2. \A h \in Halves : h = "in" \/ h = "out"
  BY MscAssumption
<1>3. /\ ep.in \in Endpoint /\ ep.out \in Endpoint /\ t \in Trans /\ t.buf \in Block
      /\ t.cur \in Nat /\ t.blocks \in Nat /\ host \in HostState /\ sense \in Senses
  BY <1>1 DEF Types, Trans
<1>4. ASSUME NEW h \in Halves
      PROVE  /\ ep[h].tx \in Stats /\ ep[h].rx \in Stats
             /\ ep[h].ctr_tx \in BOOLEAN /\ ep[h].ctr_rx \in BOOLEAN /\ ep[h].dtog \in {0, 1}
             /\ Len(ep[h].tx_buf) <= EpSize /\ Len(ep[h].rx_buf) <= EpSize
  <2>1. ep[h] \in Endpoint /\ Len(ep[h].tx_buf) <= EpSize /\ Len(ep[h].rx_buf) <= EpSize
    BY <1>1, <1>2, <1>3, MscSizes DEF Types
  <2> DEFINE e == ep[h]
  <2>2. e \in Endpoint
    BY <2>1
  <2> HIDE DEF e
  <2>3. /\ e.tx \in Stats /\ e.rx \in Stats
        /\ e.ctr_tx \in BOOLEAN /\ e.ctr_rx \in BOOLEAN /\ e.dtog \in {0, 1}
    BY <2>2 DEF Endpoint
  <2> QED
    BY <2>1, <2>3 DEF e
<1>5. Len(t.buf) = BlockLen
  BY <1>3, BlockIsSeq
<1>6. /\ Len(t.cbw) \in 0 .. CbwLen /\ t.csw_sent \in 0 .. CswLen /\ t.cur \in 0 .. t.blocks
  <2>1. CASE t.cbw = <<>>
    BY <2>1, MscSizes DEF BlocksInv, Resting, AtStart
  <2>2. CASE t.cbw # <<>>
    <3> DEFINE c == host.cmd
    <3>1. /\ c \in Commands /\ t.cbw = CbwBytes(c)
          /\ Writing(c) \/ Sending(c) \/ Finishing(c) \/ Mistaken(c)
      BY <2>2 DEF BlocksInv, Running
    <3>2. Len(t.cbw) = CbwLen
      BY <3>1, BytesFacts
    <3>3. t.csw_sent = 0 \/ t.csw_sent = CswLen
      BY <3>1 DEF Writing, Sending, Finishing, Mistaken, NoStatus, StatusOut
    <3>4. t.cur <= t.blocks
      <4>1. CASE Writing(c)
        BY <1>3, <4>1 DEF Writing
      <4>2. CASE Sending(c)
        BY <1>1, <3>1, <4>2, LoadedCount DEF Sending, Types
      <4>3. CASE Finishing(c) \/ Mistaken(c)
        BY <4>3 DEF Finishing, Mistaken
      <4> QED
        BY <3>1, <4>1, <4>2, <4>3
    <3> QED
      BY <1>3, <3>2, <3>3, <3>4, MscSizes
  <2> QED
    BY <2>1, <2>2
<1>7. t.csw_valid \in BOOLEAN /\ t.status \in {"passed", "failed"}
  BY <1>3 DEF Trans
<1>8. sense \in {"none", "illegal"} /\ host.stage \in {"idle", "cbw", "out", "in", "csw"}
  BY <1>3 DEF Senses, HostState
<1> QED
  BY <1>1, <1>4, <1>5, <1>6, <1>7, <1>8 DEF EnabledInv, TypeOK

(* The invariant, and the refinement that it carries                         *)
LEMMA AlwaysBlocks ==
    ASSUME Orderly PROVE Spec => []BlocksInv /\ Blocks!Spec
<1>1. Spec => []StdTypeOK
  BY StdMemory, MscConfigures, PTL DEF MemoryInv
<1>2. Spec => []ReadyInv
  BY <1>1, InitReady, NextReady, PTL DEF Spec
<1>3. Init => BlocksInv /\ Blocks!Init
  BY InitBlocks
<1>4. BlocksInv /\ ReadyInv /\ StdTypeOK /\ [Next]_vars => BlocksInv' /\ [Blocks!Next]_(Blocks!vars)
  BY NextBlocks
<1> QED
  BY <1>1, <1>2, <1>3, <1>4, PTL DEF Spec, Blocks!Spec

(* ImplementsBlocks: whatever the sizes of the disk, of a block and of a       *)
(* packet, and whatever addresses the commands have, every status is that of *)
(* its command, a read returns what is on the disk, a write has changed the  *)
(* blocks that it addresses and the disk has when its status is there, and   *)
(* nothing else ever changes a block (usb_msc.c:544-722).                    *)
THEOREM BlocksRefined == Orderly => (Spec => ImplementsBlocks)
<1> SUFFICES ASSUME Orderly PROVE Spec => Blocks!Spec
  BY DEF ImplementsBlocks
<1> QED
  BY AlwaysBlocks, PTL

(* TypeOK: the command block and the status stay inside their structures,    *)
(* the packets inside their endpoints, the current block among those asked   *)
(* for.                                                                      *)
THEOREM MscTyped == Orderly => (Spec => []TypeOK)
<1> SUFFICES ASSUME Orderly PROVE Spec => []TypeOK
  OBVIOUS
<1>1. Spec => []StdTypeOK
  BY StdMemory, MscConfigures, PTL DEF MemoryInv
<1>2. BlocksInv /\ StdTypeOK => TypeOK
  BY BlocksTyped
<1> QED
  BY <1>1, <1>2, AlwaysBlocks, PTL
=============================================================================
