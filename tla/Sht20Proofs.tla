---------------------------- MODULE Sht20Proofs ----------------------------
(* Proofs about Sht20: type correctness, a free bus after a read, results    *)
(* given away to the reader only and, when measurements are over in time,    *)
(* readings filed under the right quantity.                                  *)
(*                                                                           *)
(* The invariant says for each procedure and each of its operations, as long *)
(* as the processor has not been reset, what the lines and the sensor are:   *)
(* Opened and Missed for a START and an address, seen by the sensor or not,  *)
(* Commanding for a command, Stopping for a STOP, Booting for the pins, Byte *)
(* and Ending for the bytes.  Timely adds by which round what the sensor has *)
(* is fetched.  After a reset of the processor only PortOK and the types     *)
(* remain.                                                                   *)
EXTENDS Sht20, SequenceTheorems, TLAPS

-----------------------------------------------------------------------------
(* Bits *)

Bit == {0, 1}

(* The weights of the bits of a byte                                         *)
LEMMA Powers == /\ 2^7 = 128 /\ 2^6 = 64 /\ 2^5 = 32 /\ 2^4 = 16
                /\ 2^3 = 8 /\ 2^2 = 4 /\ 2^1 = 2 /\ 2^0 = 1
<1>1. 2^7 = 128 /\ 2^6 = 64 /\ 2^5 = 32 /\ 2^4 = 16
  OBVIOUS
<1>2. 2^3 = 8 /\ 2^2 = 4 /\ 2^1 = 2 /\ 2^0 = 1
  OBVIOUS
<1> QED
  BY <1>1, <1>2

(* The bits of a byte, most significant first                                *)
LEMMA BitsOfAt ==
    ASSUME NEW b \in Nat
    PROVE  /\ BitsOf(b)[1] = (b \div 128) % 2 /\ BitsOf(b)[2] = (b \div 64) % 2
           /\ BitsOf(b)[3] = (b \div 32) % 2 /\ BitsOf(b)[4] = (b \div 16) % 2
           /\ BitsOf(b)[5] = (b \div 8) % 2 /\ BitsOf(b)[6] = (b \div 4) % 2
           /\ BitsOf(b)[7] = (b \div 2) % 2 /\ BitsOf(b)[8] = b % 2
<1>1. \A i \in 1 .. 8 : BitsOf(b)[i] = (b \div 2^(8 - i)) % 2
  BY DEF BitsOf
<1>2. /\ BitsOf(b)[1] = (b \div 2^7) % 2 /\ BitsOf(b)[2] = (b \div 2^6) % 2
      /\ BitsOf(b)[3] = (b \div 2^5) % 2 /\ BitsOf(b)[4] = (b \div 2^4) % 2
  BY <1>1
<1>3. /\ BitsOf(b)[5] = (b \div 2^3) % 2 /\ BitsOf(b)[6] = (b \div 2^2) % 2
      /\ BitsOf(b)[7] = (b \div 2^1) % 2 /\ BitsOf(b)[8] = (b \div 2^0) % 2
  BY <1>1
<1>4. b \div 1 = b
  OBVIOUS
<1> QED
  BY <1>2, <1>3, <1>4, Powers

(* A byte is eight bits.                                                     *)
LEMMA BitsOfType ==
    ASSUME NEW b \in Nat
    PROVE  /\ BitsOf(b) \in Seq(Bit) /\ Len(BitsOf(b)) = 8
           /\ \A i \in 1 .. 8 : BitsOf(b)[i] \in Bit
<1>1. \A i \in 1 .. 8 : BitsOf(b)[i] \in Bit
  <2> TAKE i \in 1 .. 8
  <2> DEFINE n == 2^(8 - i)
  <2>1. n \in Nat /\ n > 0
    <3>1. 8 - i = 7 \/ 8 - i = 6 \/ 8 - i = 5 \/ 8 - i = 4 \/ 8 - i = 3 \/ 8 - i = 2
          \/ 8 - i = 1 \/ 8 - i = 0
      OBVIOUS
    <3>2. n = 128 \/ n = 64 \/ n = 32 \/ n = 16 \/ n = 8 \/ n = 4 \/ n = 2 \/ n = 1
      BY <3>1, Powers
    <3> HIDE DEF n
    <3> QED
      BY <3>2
  <2>2. BitsOf(b)[i] = (b \div n) % 2
    BY DEF BitsOf
  <2> HIDE DEF n
  <2> DEFINE m == b \div n
  <2>3. m \in Nat
    BY <2>1
  <2> HIDE DEF m
  <2>4. m % 2 \in Bit
    BY <2>3 DEF Bit
  <2> QED
    BY <2>2, <2>4 DEF m
<1> DEFINE s == BitsOf(b)
<1>2. s = [ i \in 1 .. 8 |-> s[i] ] /\ DOMAIN s = 1 .. 8
  BY DEF BitsOf
<1>3. \A i \in 1 .. 8 : s[i] \in Bit
  BY <1>1
<1> HIDE DEF s
<1>4. s \in [ 1 .. 8 -> Bit ]
  BY <1>2, <1>3
<1>5. s \in Seq(Bit)
  BY <1>4, SeqDef
<1>6. Len(s) = 8
  BY <1>2, <1>5, LenProperties
<1> QED
  BY <1>3, <1>5, <1>6 DEF s

(* No two bytes have the same bits.                                          *)
LEMMA BitsOfOne ==
    ASSUME NEW b \in 0 .. 255, NEW c \in 0 .. 255, BitsOf(b) = BitsOf(c)
    PROVE  b = c
<1>0. b \in Nat /\ c \in Nat
  OBVIOUS
<1>1. b = 128 * ((b \div 128) % 2) + 64 * ((b \div 64) % 2) + 32 * ((b \div 32) % 2)
          + 16 * ((b \div 16) % 2) + 8 * ((b \div 8) % 2) + 4 * ((b \div 4) % 2)
          + 2 * ((b \div 2) % 2) + (b % 2)
  OBVIOUS
<1>2. c = 128 * ((c \div 128) % 2) + 64 * ((c \div 64) % 2) + 32 * ((c \div 32) % 2)
          + 16 * ((c \div 16) % 2) + 8 * ((c \div 8) % 2) + 4 * ((c \div 4) % 2)
          + 2 * ((c \div 2) % 2) + (c % 2)
  OBVIOUS
<1>3. /\ BitsOf(b)[1] = (b \div 128) % 2 /\ BitsOf(b)[2] = (b \div 64) % 2
      /\ BitsOf(b)[3] = (b \div 32) % 2 /\ BitsOf(b)[4] = (b \div 16) % 2
      /\ BitsOf(b)[5] = (b \div 8) % 2 /\ BitsOf(b)[6] = (b \div 4) % 2
      /\ BitsOf(b)[7] = (b \div 2) % 2 /\ BitsOf(b)[8] = b % 2
  BY <1>0, BitsOfAt, Zenon
<1>4. /\ BitsOf(c)[1] = (c \div 128) % 2 /\ BitsOf(c)[2] = (c \div 64) % 2
      /\ BitsOf(c)[3] = (c \div 32) % 2 /\ BitsOf(c)[4] = (c \div 16) % 2
      /\ BitsOf(c)[5] = (c \div 8) % 2 /\ BitsOf(c)[6] = (c \div 4) % 2
      /\ BitsOf(c)[7] = (c \div 2) % 2 /\ BitsOf(c)[8] = c % 2
  BY <1>0, BitsOfAt, Zenon
<1> DEFINE s == BitsOf(b)
           v == BitsOf(c)
<1>5. s = v
  OBVIOUS
<1> HIDE DEF s, v
<1> QED
  BY <1>1, <1>2, <1>3, <1>4, <1>5 DEF s, v

-----------------------------------------------------------------------------
(* What is left of a procedure after k operations *)

Ops == {"SDA_H", "SDA_L", "SCL_H", "SCL_L", "ack?", "bit?"}
Rest(P, k) == SubSeq(P, k + 1, Len(P))

(* The next operation, and what is left after it                             *)
LEMMA RestStep ==
    ASSUME NEW P \in Seq(Ops), NEW k \in 0 .. Len(P) - 1
    PROVE  /\ Rest(P, k) # <<>> /\ Head(Rest(P, k)) = P[k + 1]
           /\ Tail(Rest(P, k)) = Rest(P, k + 1) /\ k + 1 \in 0 .. Len(P)
<1>0. Len(P) \in Nat
  BY LenProperties
<1>1. k + 1 \in 1 .. Len(P) /\ Len(P) \in k + 1 .. Len(P)
  BY <1>0
<1>2. Head(Rest(P, k)) = P[k + 1] /\ Tail(Rest(P, k)) = Rest(P, k + 1)
  BY <1>1, HeadTailOfSubSeq DEF Rest
<1>3. Len(Rest(P, k)) = Len(P) - k
  <2>1. \A i \in k + 1 .. Len(P) : P[i] \in Ops
    BY <1>0, ElementOfSeq
  <2> QED
    BY <1>0, <2>1, SubSeqProperties DEF Rest
<1>4. Rest(P, k) # <<>>
  BY <1>0, <1>3, EmptySeq
<1> QED
  BY <1>1, <1>2, <1>4

(* How much is left                                                          *)
LEMMA RestType ==
    ASSUME NEW P \in Seq(Ops), NEW k \in 0 .. Len(P)
    PROVE  Rest(P, k) \in Seq(Ops) /\ Len(Rest(P, k)) = Len(P) - k
<1>0. Len(P) \in Nat
  BY LenProperties
<1>1. \A i \in k + 1 .. Len(P) : P[i] \in Ops
  BY <1>0, ElementOfSeq
<1>2. /\ Rest(P, k) \in Seq(Ops)
      /\ Len(Rest(P, k)) = IF k + 1 <= Len(P) THEN Len(P) - (k + 1) + 1 ELSE 0
  BY <1>0, <1>1, SubSeqProperties DEF Rest
<1> QED
  BY <1>0, <1>2

(* Nothing is left exactly at the end.                                       *)
LEMMA RestEnds ==
    ASSUME NEW P \in Seq(Ops)
    PROVE  Rest(P, 0) = P /\ \A k \in 0 .. Len(P) : Rest(P, k) = <<>> <=> k = Len(P)
<1>0. Len(P) \in Nat
  BY LenProperties
<1>1. Rest(P, 0) = P
  BY SubSeqFull DEF Rest
<1>2. Rest(P, Len(P)) = <<>>
  BY <1>0, SubSeqEmpty DEF Rest
<1> QED
  BY <1>0, <1>1, <1>2, RestStep

(* The operations of the procedures, one by one                              *)

(* R is P followed by Q                                                      *)
Joined(P, Q, R) ==
    /\ R \in Seq(Ops) /\ Len(R) = Len(P) + Len(Q) /\ Len(P) \in Nat /\ Len(Q) \in Nat
    /\ \A i \in 1 .. Len(P) : R[i] = P[i]
    /\ \A i \in 1 .. Len(Q) : R[Len(P) + i] = Q[i]

(* What stands where when two procedures follow each other                   *)
LEMMA Cat ==
    ASSUME NEW P \in Seq(Ops), NEW Q \in Seq(Ops)
    PROVE  Joined(P, Q, P \o Q)
<1>1. Len(P) \in Nat /\ Len(Q) \in Nat
  BY LenProperties
<1>2. /\ P \o Q \in Seq(Ops) /\ Len(P \o Q) = Len(P) + Len(Q)
      /\ \A i \in 1 .. Len(P) + Len(Q) :
            (P \o Q)[i] = IF i <= Len(P) THEN P[i] ELSE Q[i - Len(P)]
  BY ConcatProperties
<1> QED
  BY <1>1, <1>2 DEF Joined

Clocked(b, j) ==
    CASE j % 3 = 1 -> IF BitsOf(b)[1 + j \div 3] = 1 THEN "SDA_H" ELSE "SDA_L"
      [] j % 3 = 2 -> "SCL_H"
      [] j % 3 = 0 -> "SCL_L"

(* A procedure given as a table                                              *)
LEMMA TableIsSeq ==
    ASSUME NEW n \in Nat, NEW f \in [ 1 .. n -> Ops ]
    PROVE  f \in Seq(Ops) /\ Len(f) = n
<1>1. f \in Seq(Ops)
  BY SeqDef
<1>2. DOMAIN f = 1 .. Len(f) /\ Len(f) \in Nat
  BY <1>1, LenProperties
<1> QED
  BY <1>1, <1>2

(* What iic_sendbyte does to the lines, operation by operation               *)
LEMMA SendByteAt ==
    ASSUME NEW b \in Nat
    PROVE  /\ iic_sendbyte(b) \in Seq(Ops) /\ Len(iic_sendbyte(b)) = 25
           /\ iic_sendbyte(b)[1] = "SCL_L"
           /\ \A j \in 1 .. 24 : iic_sendbyte(b)[1 + j] = Clocked(b, j)
<1> DEFINE f == [ k \in 1 .. 24 |-> Clocked(b, k) ]
           one == <<"SCL_L">>
<1>1. \A k \in 1 .. 24 : Clocked(b, k) \in Ops
  <2> TAKE k \in 1 .. 24
  <2>1. k % 3 = 0 \/ k % 3 = 1 \/ k % 3 = 2
    OBVIOUS
  <2> DEFINE m == k % 3
             x == BitsOf(b)[1 + k \div 3]
  <2>2. m = 0 \/ m = 1 \/ m = 2
    BY <2>1
  <2>3. Clocked(b, k) = CASE m = 1 -> IF x = 1 THEN "SDA_H" ELSE "SDA_L"
                          [] m = 2 -> "SCL_H" [] m = 0 -> "SCL_L"
    BY DEF Clocked
  <2> HIDE DEF m, x
  <2> QED
    BY <2>2, <2>3 DEF Ops
<1>2. f \in [ 1 .. 24 -> Ops ]
  BY <1>1
<1>3. f \in Seq(Ops) /\ Len(f) = 24
  <2> HIDE DEF f
  <2> QED
    BY <1>2, TableIsSeq
<1>4. one \in Seq(Ops) /\ Len(one) = 1 /\ one[1] = "SCL_L"
  BY DEF Ops
<1>5. iic_sendbyte(b) = one \o f
  BY Zenon DEF iic_sendbyte, Clocked
<1>6. \A j \in 1 .. 24 : f[j] = Clocked(b, j)
  OBVIOUS
<1> DEFINE R == one \o f
<1> HIDE DEF f, one
<1>7. Joined(one, f, R)
  BY <1>3, <1>4, Cat
<1> HIDE DEF R
<1>8. R = iic_sendbyte(b)
  BY <1>5 DEF R
<1>9. /\ R \in Seq(Ops) /\ Len(R) = 25 /\ R[1] = one[1]
      /\ \A j \in 1 .. 24 : R[1 + j] = f[j]
  BY <1>3, <1>4, <1>7 DEF Joined
<1> QED
  BY <1>4, <1>6, <1>8, <1>9

(* What iic_recvbyte does                                                    *)
LEMMA ReceiveByteAt ==
    /\ iic_recvbyte \in Seq(Ops) /\ Len(iic_recvbyte) = 25
    /\ iic_recvbyte[1] = "SDA_H"
    /\ \A j \in 1 .. 24 : iic_recvbyte[1 + j] =
          CASE j % 3 = 1 -> "SCL_L" [] j % 3 = 2 -> "SCL_H" [] j % 3 = 0 -> "bit?"
<1> DEFINE f == [ k \in 1 .. 24 |->
                    CASE k % 3 = 1 -> "SCL_L" [] k % 3 = 2 -> "SCL_H" [] k % 3 = 0 -> "bit?" ]
           one == <<"SDA_H">>
<1>1. \A k \in 1 .. 24 : f[k] \in Ops
  <2> TAKE k \in 1 .. 24
  <2> DEFINE m == k % 3
  <2>2. m = 0 \/ m = 1 \/ m = 2
    OBVIOUS
  <2>3. f[k] = CASE m = 1 -> "SCL_L" [] m = 2 -> "SCL_H" [] m = 0 -> "bit?"
    OBVIOUS
  <2> HIDE DEF m, f
  <2> QED
    BY <2>2, <2>3 DEF Ops
<1>2. f \in [ 1 .. 24 -> Ops ]
  BY <1>1
<1>3. f \in Seq(Ops) /\ Len(f) = 24
  <2> HIDE DEF f
  <2> QED
    BY <1>2, TableIsSeq
<1>4. one \in Seq(Ops) /\ Len(one) = 1 /\ one[1] = "SDA_H"
  BY DEF Ops
<1>5. iic_recvbyte = one \o f
  BY Zenon DEF iic_recvbyte
<1>6. \A j \in 1 .. 24 : f[j] =
          CASE j % 3 = 1 -> "SCL_L" [] j % 3 = 2 -> "SCL_H" [] j % 3 = 0 -> "bit?"
  OBVIOUS
<1> DEFINE R == one \o f
<1> HIDE DEF f, one
<1>7. Joined(one, f, R)
  BY <1>3, <1>4, Cat
<1> HIDE DEF R
<1>8. R = iic_recvbyte
  BY <1>5 DEF R
<1>9. /\ R \in Seq(Ops) /\ Len(R) = 25 /\ R[1] = one[1]
      /\ \A j \in 1 .. 24 : R[1 + j] = f[j]
  BY <1>3, <1>4, <1>7 DEF Joined
<1> QED
  BY <1>4, <1>6, <1>8, <1>9

(* START, STOP, and the three ways to acknowledge                            *)
LEMMA ShortOnes ==
    /\ iic_start \in Seq(Ops) /\ Len(iic_start) = 4
    /\ iic_start[1] = "SDA_H" /\ iic_start[2] = "SCL_H"
    /\ iic_start[3] = "SDA_L" /\ iic_start[4] = "SCL_L"
    /\ iic_stop \in Seq(Ops) /\ Len(iic_stop) = 4
    /\ iic_stop[1] = "SDA_L" /\ iic_stop[2] = "SCL_L"
    /\ iic_stop[3] = "SCL_H" /\ iic_stop[4] = "SDA_H"
    /\ iic_wack \in Seq(Ops) /\ Len(iic_wack) = 3
    /\ iic_wack[1] = "SDA_H" /\ iic_wack[2] = "SCL_H" /\ iic_wack[3] = "ack?"
    /\ iic_ack \in Seq(Ops) /\ Len(iic_ack) = 4
    /\ iic_ack[1] = "SCL_L" /\ iic_ack[2] = "SDA_L"
    /\ iic_ack[3] = "SCL_H" /\ iic_ack[4] = "SCL_L"
    /\ iic_nack \in Seq(Ops) /\ Len(iic_nack) = 4
    /\ iic_nack[1] = "SCL_L" /\ iic_nack[2] = "SDA_H"
    /\ iic_nack[3] = "SCL_H" /\ iic_nack[4] = "SCL_L"
<1>1. /\ iic_start \in Seq(Ops) /\ Len(iic_start) = 4
      /\ iic_start[1] = "SDA_H" /\ iic_start[2] = "SCL_H"
      /\ iic_start[3] = "SDA_L" /\ iic_start[4] = "SCL_L"
  BY DEF iic_start, Ops
<1>2. /\ iic_stop \in Seq(Ops) /\ Len(iic_stop) = 4
      /\ iic_stop[1] = "SDA_L" /\ iic_stop[2] = "SCL_L"
      /\ iic_stop[3] = "SCL_H" /\ iic_stop[4] = "SDA_H"
  BY DEF iic_stop, Ops
<1>3. /\ iic_wack \in Seq(Ops) /\ Len(iic_wack) = 3
      /\ iic_wack[1] = "SDA_H" /\ iic_wack[2] = "SCL_H" /\ iic_wack[3] = "ack?"
  BY DEF iic_wack, Ops
<1>4. /\ iic_ack \in Seq(Ops) /\ Len(iic_ack) = 4
      /\ iic_ack[1] = "SCL_L" /\ iic_ack[2] = "SDA_L"
      /\ iic_ack[3] = "SCL_H" /\ iic_ack[4] = "SCL_L"
  BY DEF iic_ack, Ops
<1>5. /\ iic_nack \in Seq(Ops) /\ Len(iic_nack) = 4
      /\ iic_nack[1] = "SCL_L" /\ iic_nack[2] = "SDA_H"
      /\ iic_nack[3] = "SCL_H" /\ iic_nack[4] = "SCL_L"
  BY DEF iic_nack, Ops
<1> QED
  BY <1>1, <1>2, <1>3, <1>4, <1>5

(* A procedure that begins with a START and the address byte b               *)
Addresses(P, b) ==
    /\ P[1] = "SDA_H" /\ P[2] = "SCL_H" /\ P[3] = "SDA_L" /\ P[4] = "SCL_L"
    /\ P[5] = "SCL_L" /\ \A j \in 1 .. 24 : P[5 + j] = Clocked(b, j)
(* ... and that looks for an acknowledgement after n operations              *)
Asks(P, n) == P[n + 1] = "SDA_H" /\ P[n + 2] = "SCL_H" /\ P[n + 3] = "ack?"

(* A START and the address after it                                          *)
LEMMA StartByteAt ==
    ASSUME NEW b \in Nat
    PROVE  LET P == iic_start \o iic_sendbyte(b) IN
           P \in Seq(Ops) /\ Len(P) = 29 /\ Addresses(P, b)
<1> DEFINE s == iic_start
           t == iic_sendbyte(b)
           P == s \o t
<1>2. /\ t \in Seq(Ops) /\ Len(t) = 25 /\ t[1] = "SCL_L"
      /\ \A j \in 1 .. 24 : t[1 + j] = Clocked(b, j)
  BY SendByteAt
<1>3. /\ s \in Seq(Ops) /\ Len(s) = 4
      /\ s[1] = "SDA_H" /\ s[2] = "SCL_H" /\ s[3] = "SDA_L" /\ s[4] = "SCL_L"
  BY ShortOnes
<1> HIDE DEF s, t
<1>4. Joined(s, t, P)
  BY <1>2, <1>3, Cat
<1> HIDE DEF P
<1>5. /\ P \in Seq(Ops) /\ Len(P) = 29
      /\ \A i \in 1 .. 4 : P[i] = s[i]
      /\ \A i \in 1 .. 25 : P[4 + i] = t[i]
  BY <1>2, <1>3, <1>4 DEF Joined
<1>6. \A j \in 1 .. 24 : P[5 + j] = Clocked(b, j)
  <2> TAKE j \in 1 .. 24
  <2>1. 1 + j \in 1 .. 25 /\ 4 + (1 + j) = 5 + j
    OBVIOUS
  <2> QED
    BY <1>2, <1>5, <2>1
<1>7. P[1] = s[1] /\ P[2] = s[2] /\ P[3] = s[3] /\ P[4] = s[4] /\ P[5] = t[1]
  BY <1>5
<1>8. P \in Seq(Ops) /\ Len(P) = 29 /\ Addresses(P, b)
  BY <1>2, <1>3, <1>5, <1>6, <1>7 DEF Addresses
<1> QED
  BY <1>8 DEF P, s, t

(* The last START of a read, that nobody waits for                           *)
LEMMA ReadAddressAt ==
    ASSUME NEW a \in Nat
    PROVE  /\ ReadAddress(a) \in Seq(Ops) /\ Len(ReadAddress(a)) = 29
           /\ Addresses(ReadAddress(a), 2 * a + 1)
<1> DEFINE b == 2 * a + 1
<1>1. b \in Nat
  OBVIOUS
<1>2. ReadAddress(a) = iic_start \o iic_sendbyte(b)
  BY DEF ReadAddress
<1> HIDE DEF b
<1> QED
  BY <1>1, <1>2, StartByteAt DEF b

(* What follows an address does not change it.                               *)
LEMMA AddressesMore ==
    ASSUME NEW P, NEW Q, NEW R, NEW b, NEW n \in Nat, n >= 29, Len(P) = n,
           Joined(P, Q, R), Addresses(P, b)
    PROVE  Addresses(R, b)
<1>1. \A i \in 1 .. n : R[i] = P[i]
  BY DEF Joined
<1>2. \A j \in 1 .. 24 : 5 + j \in 1 .. n
  OBVIOUS
<1>3. R[1] = P[1] /\ R[2] = P[2] /\ R[3] = P[3] /\ R[4] = P[4] /\ R[5] = P[5]
  BY <1>1
<1>4. \A j \in 1 .. 24 : R[5 + j] = P[5 + j]
  BY <1>1, <1>2
<1> QED
  BY <1>3, <1>4 DEF Addresses

(* A look for an acknowledgement at the end of a procedure                   *)
LEMMA AsksMore ==
    ASSUME NEW P, NEW R, Joined(P, iic_wack, R)
    PROVE  Asks(R, Len(P)) /\ R \in Seq(Ops) /\ Len(R) = Len(P) + 3
<1>1. R[Len(P) + 1] = iic_wack[1] /\ R[Len(P) + 2] = iic_wack[2] /\ R[Len(P) + 3] = iic_wack[3]
  BY ShortOnes DEF Joined
<1> QED
  BY <1>1, ShortOnes DEF Joined, Asks

(* An attempt at reading, operation by operation                             *)
LEMMA ReadAttemptAt ==
    ASSUME NEW a \in Nat
    PROVE  /\ ReadAttempt(a) \in Seq(Ops) /\ Len(ReadAttempt(a)) = 32
           /\ Addresses(ReadAttempt(a), 2 * a + 1) /\ Asks(ReadAttempt(a), 29)
<1> DEFINE P == ReadAddress(a)
           R == P \o iic_wack
           b == 2 * a + 1
           n == 29
<1>1. P \in Seq(Ops) /\ Len(P) = n /\ Addresses(P, b) /\ n \in Nat /\ n >= 29
  BY ReadAddressAt
<1>2. ReadAttempt(a) = R
  BY DEF ReadAttempt
<1>a. n + 3 = 32
  OBVIOUS
<1> HIDE DEF P, b, n
<1>3. Joined(P, iic_wack, R)
  BY <1>1, ShortOnes, Cat
<1> HIDE DEF R
<1>4. Addresses(R, b)
  BY <1>1, <1>3, AddressesMore
<1>5. Asks(R, n) /\ R \in Seq(Ops) /\ Len(R) = n + 3
  BY <1>1, <1>3, AsksMore, Zenon
<1> QED
  BY <1>2, <1>4, <1>5, <1>a, Zenon DEF b, n

(* A write, operation by operation                                           *)
LEMMA WriteAt ==
    ASSUME NEW a \in Nat, NEW b \in Nat
    PROVE  LET P == soft_iic1_write(a, b) IN
           /\ P \in Seq(Ops) /\ Len(P) = 60
           /\ Addresses(P, 2 * a) /\ Asks(P, 29) /\ Asks(P, 57)
           /\ P[33] = "SCL_L" /\ \A j \in 1 .. 24 : P[33 + j] = Clocked(b, j)
<1> DEFINE c == 2 * a
           P1 == iic_start \o iic_sendbyte(c)
           u == iic_sendbyte(b)
           P2 == P1 \o iic_wack
           P3 == P2 \o u
           P4 == P3 \o iic_wack
           n1 == 29
           n3 == 57
<1>1. c \in Nat /\ n1 \in Nat /\ n3 \in Nat /\ n1 + 3 = 32 /\ n1 >= 29 /\ n3 >= 29
      /\ n3 + 3 = 60 /\ 32 + 25 = n3
  OBVIOUS
<1>5. soft_iic1_write(a, b) = P4
  BY DEF soft_iic1_write
<1> HIDE DEF c
<1>7. P1 \in Seq(Ops) /\ Len(P1) = n1 /\ Addresses(P1, c)
  BY <1>1, StartByteAt
<1>3. /\ u \in Seq(Ops) /\ Len(u) = 25 /\ u[1] = "SCL_L"
      /\ \A j \in 1 .. 24 : u[1 + j] = Clocked(b, j)
  BY SendByteAt
<1> HIDE DEF P1, u, n1, n3
<1>8. Joined(P1, iic_wack, P2)
  BY <1>7, ShortOnes, Cat
<1> HIDE DEF P2
<1>9. Asks(P2, n1) /\ P2 \in Seq(Ops) /\ Len(P2) = 32 /\ Addresses(P2, c)
  <2>1. Asks(P2, n1) /\ P2 \in Seq(Ops) /\ Len(P2) = n1 + 3
    BY <1>7, <1>8, AsksMore, Zenon
  <2>2. Addresses(P2, c)
    BY <1>1, <1>7, <1>8, AddressesMore
  <2> QED
    BY <1>1, <2>1, <2>2
<1>10. Joined(P2, u, P3)
  BY <1>3, <1>9, Cat
<1> HIDE DEF P3
<1>11. /\ P3 \in Seq(Ops) /\ Len(P3) = n3 /\ Addresses(P3, c)
       /\ \A i \in 1 .. 32 : P3[i] = P2[i]
       /\ \A i \in 1 .. 25 : P3[32 + i] = u[i]
  <2>1. /\ P3 \in Seq(Ops) /\ Len(P3) = 32 + 25
        /\ \A i \in 1 .. 32 : P3[i] = P2[i]
        /\ \A i \in 1 .. 25 : P3[32 + i] = u[i]
    BY <1>3, <1>9, <1>10 DEF Joined
  <2>2. Addresses(P3, c)
    <3> DEFINE n == 32
    <3>1. n \in Nat /\ n >= 29 /\ Len(P2) = n
      BY <1>9
    <3> HIDE DEF n
    <3> QED
      BY <1>9, <1>10, <3>1, AddressesMore
  <2> QED
    BY <1>1, <2>1, <2>2
<1>12. Joined(P3, iic_wack, P4)
  BY <1>11, ShortOnes, Cat
<1> HIDE DEF P4
<1>13. Asks(P4, n3) /\ P4 \in Seq(Ops) /\ Len(P4) = n3 + 3
  BY <1>11, <1>12, AsksMore, Zenon
<1>14. Addresses(P4, c)
  BY <1>1, <1>11, <1>12, AddressesMore
<1>15. \A i \in 1 .. 57 : P4[i] = P3[i]
  <2>1. \A i \in 1 .. n3 : P4[i] = P3[i]
    BY <1>11, <1>12 DEF Joined
  <2> QED
    BY <2>1 DEF n3
<1>16. P4[33] = "SCL_L" /\ \A j \in 1 .. 24 : P4[33 + j] = Clocked(b, j)
  <2>3. \A j \in 1 .. 24 : P4[33 + j] = Clocked(b, j)
    <3> TAKE j \in 1 .. 24
    <3>1. 1 + j \in 1 .. 25 /\ 32 + (1 + j) = 33 + j /\ 33 + j \in 1 .. 57
      OBVIOUS
    <3>2. P3[32 + (1 + j)] = u[1 + j] /\ u[1 + j] = Clocked(b, j)
      BY <1>3, <1>11, <3>1
    <3> QED
      BY <1>15, <3>1, <3>2
  <2>4. P4[33] = P3[33] /\ P3[33] = u[1]
    BY <1>11, <1>15
  <2> QED
    BY <1>3, <2>3, <2>4
<1>17. Asks(P4, n1)
  <2>1. \A i \in 1 .. 32 : P4[i] = P2[i]
    <3> TAKE i \in 1 .. 32
    <3>1. i \in 1 .. 57
      OBVIOUS
    <3>2. P4[i] = P3[i] /\ P3[i] = P2[i]
      BY <1>11, <1>15, <3>1, Zenon
    <3> QED
      BY <3>2
  <2> QED
    BY <1>9, <2>1 DEF Asks, n1
<1> QED
  BY <1>1, <1>5, <1>13, <1>14, <1>16, <1>17 DEF c, n1, n3

(* Reading byte i of three: its first operation, its 24 of clock and data,   *)
(* and the four of its acknowledgement                                       *)
Reading(i, c) ==
    CASE c = 0 -> "SDA_H"
      [] c \in 1 .. 24 -> (CASE c % 3 = 1 -> "SCL_L" [] c % 3 = 2 -> "SCL_H" [] c % 3 = 0 -> "bit?")
      [] c = 25 -> "SCL_L"
      [] c = 26 -> IF i = 2 THEN "SDA_H" ELSE "SDA_L"
      [] c = 27 -> "SCL_H"
      [] c = 28 -> "SCL_L"

(* Three bytes and the STOP, operation by operation                          *)
LEMMA ReadThreeAt ==
    /\ ReadThree \in Seq(Ops) /\ Len(ReadThree) = 91
    /\ \A c \in 0 .. 28 : ReadThree[c + 1] = Reading(0, c)
    /\ \A c \in 0 .. 28 : ReadThree[c + 30] = Reading(1, c)
    /\ \A c \in 0 .. 28 : ReadThree[c + 59] = Reading(2, c)
    /\ ReadThree[88] = "SDA_L" /\ ReadThree[89] = "SCL_L"
    /\ ReadThree[90] = "SCL_H" /\ ReadThree[91] = "SDA_H"
<1> DEFINE r == iic_recvbyte
           P2 == r \o iic_ack
           P3 == P2 \o r
           P4 == P3 \o iic_ack
           P5 == P4 \o r
           P6 == P5 \o iic_nack
           P7 == P6 \o iic_stop
<1>1. ReadThree = P7
  BY DEF ReadThree
<1>2. /\ r \in Seq(Ops) /\ Len(r) = 25 /\ r[1] = "SDA_H"
      /\ \A j \in 1 .. 24 : r[1 + j] =
            CASE j % 3 = 1 -> "SCL_L" [] j % 3 = 2 -> "SCL_H" [] j % 3 = 0 -> "bit?"
  BY ReceiveByteAt
<1> HIDE DEF r
<1>3. \A i \in 0 .. 2, c \in 0 .. 24 : r[c + 1] = Reading(i, c)
  <2> TAKE i \in 0 .. 2, c \in 0 .. 24
  <2>1. CASE c = 0
    BY <1>2, <2>1 DEF Reading
  <2>2. CASE c # 0
    <3> DEFINE x == CASE c % 3 = 1 -> "SCL_L" [] c % 3 = 2 -> "SCL_H" [] c % 3 = 0 -> "bit?"
    <3>1. c \in 1 .. 24 /\ c + 1 = 1 + c
      BY <2>2
    <3>2. r[1 + c] = x
      BY <1>2, <3>1
    <3>3. Reading(i, c) = x
      <4>1. Reading(i, c) = CASE c = 0 -> "SDA_H" [] c \in 1 .. 24 -> x [] c = 25 -> "SCL_L"
              [] c = 26 -> (IF i = 2 THEN "SDA_H" ELSE "SDA_L") [] c = 27 -> "SCL_H"
              [] c = 28 -> "SCL_L"
        BY DEF Reading
      <4> HIDE DEF x
      <4> QED
        BY <2>2, <4>1
    <3> QED
      BY <3>1, <3>2, <3>3, Zenon
  <2> QED
    BY <2>1, <2>2
<1>4. \A i \in 0 .. 2 : /\ Reading(i, 25) = "SCL_L" /\ Reading(i, 27) = "SCL_H"
                        /\ Reading(i, 28) = "SCL_L"
                        /\ Reading(i, 26) = IF i = 2 THEN "SDA_H" ELSE "SDA_L"
  <2>1. ASSUME NEW i \in 0 .. 2, NEW c \in 25 .. 28
        PROVE  Reading(i, c) = IF c = 26 THEN IF i = 2 THEN "SDA_H" ELSE "SDA_L"
                               ELSE IF c = 27 THEN "SCL_H" ELSE "SCL_L"
    <3> DEFINE x == CASE c % 3 = 1 -> "SCL_L" [] c % 3 = 2 -> "SCL_H" [] c % 3 = 0 -> "bit?"
    <3>1. Reading(i, c) = CASE c = 0 -> "SDA_H" [] c \in 1 .. 24 -> x [] c = 25 -> "SCL_L"
            [] c = 26 -> (IF i = 2 THEN "SDA_H" ELSE "SDA_L") [] c = 27 -> "SCL_H"
            [] c = 28 -> "SCL_L"
      BY DEF Reading
    <3> HIDE DEF x
    <3> QED
      BY <3>1
  <2>2. 25 \in 25 .. 28 /\ 26 \in 25 .. 28 /\ 27 \in 25 .. 28 /\ 28 \in 25 .. 28
    OBVIOUS
  <2> QED
    BY <2>1, <2>2
<1>5. \A c \in 25 .. 28 : c = 25 \/ c = 26 \/ c = 27 \/ c = 28
  OBVIOUS
<1>6. \A c \in 0 .. 28 : c \in 0 .. 24 \/ c \in 25 .. 28
  OBVIOUS
<1>10. Joined(r, iic_ack, P2)
  BY <1>2, ShortOnes, Cat
<1> HIDE DEF P2
<1>11. /\ P2 \in Seq(Ops) /\ Len(P2) = 29
       /\ \A c \in 0 .. 24 : P2[c + 1] = Reading(0, c)
       /\ P2[26] = "SCL_L" /\ P2[27] = "SDA_L" /\ P2[28] = "SCL_H" /\ P2[29] = "SCL_L"
  <2>1. /\ P2 \in Seq(Ops) /\ Len(P2) = 29 /\ \A i \in 1 .. 25 : P2[i] = r[i]
        /\ \A i \in 1 .. 4 : P2[25 + i] = iic_ack[i]
    BY <1>2, <1>10, ShortOnes DEF Joined
  <2>2. \A c \in 0 .. 24 : P2[c + 1] = Reading(0, c)
    <3> TAKE c \in 0 .. 24
    <3>1. c + 1 \in 1 .. 25 /\ 0 \in 0 .. 2
      OBVIOUS
    <3>2. r[c + 1] = Reading(0, c)
      BY <1>3, <3>1, Zenon
    <3> QED
      BY <2>1, <3>1, <3>2, Zenon
  <2>3. P2[26] = iic_ack[1] /\ P2[27] = iic_ack[2] /\ P2[28] = iic_ack[3] /\ P2[29] = iic_ack[4]
    BY <2>1
  <2> QED
    BY <2>1, <2>2, <2>3, ShortOnes
<1>12. \A c \in 0 .. 28 : P2[c + 1] = Reading(0, c)
  <2> TAKE c \in 0 .. 28
  <2>1. P2[25 + 1] = Reading(0, 25) /\ P2[26 + 1] = Reading(0, 26)
        /\ P2[27 + 1] = Reading(0, 27) /\ P2[28 + 1] = Reading(0, 28)
    BY <1>4, <1>11
  <2> QED
    BY <1>5, <1>6, <1>11, <2>1
<1>20. Joined(P2, r, P3)
  BY <1>2, <1>11, Cat
<1> HIDE DEF P3
<1>21. /\ P3 \in Seq(Ops) /\ Len(P3) = 54 /\ \A i \in 1 .. 29 : P3[i] = P2[i]
       /\ \A i \in 1 .. 25 : P3[29 + i] = r[i]
  BY <1>2, <1>11, <1>20 DEF Joined
<1>22. Joined(P3, iic_ack, P4)
  BY <1>21, ShortOnes, Cat
<1> HIDE DEF P4
<1>23. /\ P4 \in Seq(Ops) /\ Len(P4) = 58 /\ \A i \in 1 .. 54 : P4[i] = P3[i]
       /\ \A i \in 1 .. 4 : P4[54 + i] = iic_ack[i]
  BY <1>21, <1>22, ShortOnes DEF Joined
<1>30. Joined(P4, r, P5)
  BY <1>2, <1>23, Cat
<1> HIDE DEF P5
<1>31. /\ P5 \in Seq(Ops) /\ Len(P5) = 83 /\ \A i \in 1 .. 58 : P5[i] = P4[i]
       /\ \A i \in 1 .. 25 : P5[58 + i] = r[i]
  BY <1>2, <1>23, <1>30 DEF Joined
<1>32. Joined(P5, iic_nack, P6)
  BY <1>31, ShortOnes, Cat
<1> HIDE DEF P6
<1>33. /\ P6 \in Seq(Ops) /\ Len(P6) = 87 /\ \A i \in 1 .. 83 : P6[i] = P5[i]
       /\ \A i \in 1 .. 4 : P6[83 + i] = iic_nack[i]
  BY <1>31, <1>32, ShortOnes DEF Joined
<1>40. Joined(P6, iic_stop, P7)
  BY <1>33, ShortOnes, Cat
<1> HIDE DEF P7
<1>41. /\ P7 \in Seq(Ops) /\ Len(P7) = 91 /\ \A i \in 1 .. 87 : P7[i] = P6[i]
       /\ \A i \in 1 .. 4 : P7[87 + i] = iic_stop[i]
  BY <1>33, <1>40, ShortOnes DEF Joined
<1>50. \A i \in 1 .. 29 : P7[i] = P2[i]
  <2> TAKE i \in 1 .. 29
  <2>1. i \in 1 .. 54 /\ i \in 1 .. 58 /\ i \in 1 .. 83 /\ i \in 1 .. 87
    OBVIOUS
  <2>2. P7[i] = P6[i] /\ P6[i] = P5[i] /\ P5[i] = P4[i] /\ P4[i] = P3[i] /\ P3[i] = P2[i]
    BY <1>21, <1>23, <1>31, <1>33, <1>41, <2>1, Zenon
  <2> QED
    BY <2>2
<1>51. \A i \in 1 .. 58 : P7[i] = P4[i]
  <2> TAKE i \in 1 .. 58
  <2>1. i \in 1 .. 83 /\ i \in 1 .. 87
    OBVIOUS
  <2>2. P7[i] = P6[i] /\ P6[i] = P5[i] /\ P5[i] = P4[i]
    BY <1>31, <1>33, <1>41, <2>1, Zenon
  <2> QED
    BY <2>2
<1>52. \A c \in 0 .. 28 : P7[c + 1] = Reading(0, c)
  <2> TAKE c \in 0 .. 28
  <2>1. c + 1 \in 1 .. 29
    OBVIOUS
  <2> QED
    BY <1>12, <1>50, <2>1, Zenon
<1>53. \A c \in 0 .. 28 : P7[c + 30] = Reading(1, c)
  <2> TAKE c \in 0 .. 28
  <2>1. CASE c \in 0 .. 24
    <3>1. c + 1 \in 1 .. 25 /\ 29 + (c + 1) = c + 30 /\ c + 30 \in 1 .. 54 /\ c + 30 \in 1 .. 58
          /\ 1 \in 0 .. 2
      BY <2>1
    <3>2. P3[29 + (c + 1)] = r[c + 1] /\ r[c + 1] = Reading(1, c)
      BY <1>3, <1>21, <2>1, <3>1, Zenon
    <3>3. P7[c + 30] = P4[c + 30] /\ P4[c + 30] = P3[c + 30]
      BY <1>23, <1>51, <3>1, Zenon
    <3> QED
      BY <3>1, <3>2, <3>3
  <2>2. CASE c \in 25 .. 28
    <3>1. P7[55] = P4[55] /\ P7[56] = P4[56] /\ P7[57] = P4[57] /\ P7[58] = P4[58]
      BY <1>51
    <3>2. P4[55] = iic_ack[1] /\ P4[56] = iic_ack[2] /\ P4[57] = iic_ack[3] /\ P4[58] = iic_ack[4]
      BY <1>23
    <3>3. /\ P7[25 + 30] = Reading(1, 25) /\ P7[26 + 30] = Reading(1, 26)
          /\ P7[27 + 30] = Reading(1, 27) /\ P7[28 + 30] = Reading(1, 28)
      BY <1>4, <3>1, <3>2, ShortOnes
    <3> QED
      BY <1>5, <2>2, <3>3
  <2> QED
    BY <1>6, <2>1, <2>2
<1>54. \A c \in 0 .. 28 : P7[c + 59] = Reading(2, c)
  <2> TAKE c \in 0 .. 28
  <2>1. CASE c \in 0 .. 24
    <3>1. c + 1 \in 1 .. 25 /\ 58 + (c + 1) = c + 59 /\ c + 59 \in 1 .. 83 /\ c + 59 \in 1 .. 87
          /\ 2 \in 0 .. 2
      BY <2>1
    <3>a. r[c + 1] = Reading(2, c)
      BY <1>3, <2>1, <3>1, Zenon
    <3>2. P5[58 + (c + 1)] = r[c + 1] /\ r[c + 1] = Reading(2, c)
      BY <1>31, <3>1, <3>a, Zenon
    <3>3. P7[c + 59] = P6[c + 59] /\ P6[c + 59] = P5[c + 59]
      BY <1>33, <1>41, <3>1, Zenon
    <3> QED
      BY <3>1, <3>2, <3>3
  <2>2. CASE c \in 25 .. 28
    <3>1. P7[84] = P6[84] /\ P7[85] = P6[85] /\ P7[86] = P6[86] /\ P7[87] = P6[87]
      BY <1>41
    <3>2. /\ P6[84] = iic_nack[1] /\ P6[85] = iic_nack[2]
          /\ P6[86] = iic_nack[3] /\ P6[87] = iic_nack[4]
      BY <1>33
    <3>3. /\ P7[25 + 59] = Reading(2, 25) /\ P7[26 + 59] = Reading(2, 26)
          /\ P7[27 + 59] = Reading(2, 27) /\ P7[28 + 59] = Reading(2, 28)
      BY <1>4, <3>1, <3>2, ShortOnes
    <3> QED
      BY <1>5, <2>2, <3>3
  <2> QED
    BY <1>6, <2>1, <2>2
<1>55. /\ P7[88] = iic_stop[1] /\ P7[89] = iic_stop[2]
       /\ P7[90] = iic_stop[3] /\ P7[91] = iic_stop[4]
  BY <1>41
<1> QED
  BY <1>1, <1>41, <1>52, <1>53, <1>54, <1>55, ShortOnes

(* The pins are set in one of four orders.                                   *)
LEMMA BootAt ==
    ASSUME NEW P \in soft_iic1_init
    PROVE  /\ P \in Seq(Ops) /\ Len(P) = 6
           /\ P[1] \in {"SDA_H", "SCL_H"} /\ P[2] \in {"SDA_H", "SCL_H"}
           /\ \/ P[3] = "SDA_L" /\ P[4] = "SCL_L"
              \/ P[3] = "SCL_L" /\ P[4] = "SDA_L"
           /\ P[5] = "SDA_H" /\ P[6] = "SCL_H"
<1>1. PICK released \in { <<"SDA_H", "SCL_H">>, <<"SCL_H", "SDA_H">> },
           pulled \in { <<"SDA_L", "SCL_L">>, <<"SCL_L", "SDA_L">> } :
             P = released \o pulled \o <<"SDA_H", "SCL_H">>
  BY DEF soft_iic1_init
<1> DEFINE last == <<"SDA_H", "SCL_H">>
           Q == released \o pulled
           R == Q \o last
<1>2. /\ released \in Seq(Ops) /\ Len(released) = 2 /\ released[1] \in {"SDA_H", "SCL_H"}
      /\ released[2] \in {"SDA_H", "SCL_H"}
  <2>1. CASE released = <<"SDA_H", "SCL_H">>
    BY <2>1 DEF Ops
  <2>2. CASE released = <<"SCL_H", "SDA_H">>
    BY <2>2 DEF Ops
  <2> QED
    BY <2>1, <2>2
<1>3. /\ pulled \in Seq(Ops) /\ Len(pulled) = 2
      /\ \/ pulled[1] = "SDA_L" /\ pulled[2] = "SCL_L"
         \/ pulled[1] = "SCL_L" /\ pulled[2] = "SDA_L"
  <2>1. CASE pulled = <<"SDA_L", "SCL_L">>
    BY <2>1 DEF Ops
  <2>2. CASE pulled = <<"SCL_L", "SDA_L">>
    BY <2>2 DEF Ops
  <2> QED
    BY <2>1, <2>2
<1>4. last \in Seq(Ops) /\ Len(last) = 2 /\ last[1] = "SDA_H" /\ last[2] = "SCL_H"
  BY DEF Ops
<1>5. P = R
  BY <1>1
<1> HIDE DEF last
<1>6. Joined(released, pulled, Q)
  BY <1>2, <1>3, Cat
<1> HIDE DEF Q
<1>7. /\ Q \in Seq(Ops) /\ Len(Q) = 4 /\ \A i \in 1 .. 2 : Q[i] = released[i]
      /\ \A i \in 1 .. 2 : Q[2 + i] = pulled[i]
  BY <1>2, <1>3, <1>6 DEF Joined
<1>8. Joined(Q, last, R)
  BY <1>4, <1>7, Cat
<1> HIDE DEF R
<1>9. /\ R \in Seq(Ops) /\ Len(R) = 6 /\ \A i \in 1 .. 4 : R[i] = Q[i]
      /\ \A i \in 1 .. 2 : R[4 + i] = last[i]
  BY <1>4, <1>7, <1>8 DEF Joined
<1>10. R[1] = Q[1] /\ R[2] = Q[2] /\ R[3] = Q[3] /\ R[4] = Q[4] /\ R[5] = last[1] /\ R[6] = last[2]
  BY <1>9
<1>11. Q[1] = released[1] /\ Q[2] = released[2] /\ Q[3] = pulled[1] /\ Q[4] = pulled[2]
  BY <1>7
<1> QED
  BY <1>2, <1>3, <1>4, <1>5, <1>9, <1>10, <1>11

-----------------------------------------------------------------------------
(* What an operation does to the lines and to the sensor                     *)

Lines(sda, scl) == [ sda |-> sda, scl |-> scl ]
LinesOK == out \in [ sda : {0, 1}, scl : {0, 1} ]

ToWrite == 2 * Address
ToRead == 2 * Address + 1

Step(op) == out' = Drive(out, op) /\ Senses(out, out')

(* What becomes of the measurement when the clock falls                      *)
Felt(p, q) ==
    CASE p.st = "rx" /\ q.st = "rxack" /\ Commanded(p) # {} ->
           [ busy |-> CHOOSE x \in Quantities : x \in Commanded(p),
             rounds |-> MaxRounds, result |-> None ]
      [] p.st = "rxack" /\ q.st = "tx" -> [ dev EXCEPT !.result = None ]
      [] OTHER -> dev

(* The two lines, taken apart                                                *)
LEMMA LinesSplit ==
    ASSUME LinesOK
    PROVE  /\ out.sda \in {0, 1} /\ out.scl \in {0, 1} /\ out = Lines(out.sda, out.scl)
           /\ \A a, b : out = Lines(a, b) <=> out.sda = a /\ out.scl = b
  BY DEF LinesOK, Lines

(* The clock is pulled: the sensor sees an edge if it was high.              *)
LEMMA ClockLow ==
    ASSUME LinesOK, Step("SCL_L")
    PROVE  /\ out' = Lines(out.sda, 0) /\ LinesOK'
           /\ out.scl = 1 => port' = Fall(port) /\ dev' = Felt(port, port')
           /\ out.scl = 0 => port' = port /\ dev' = dev
<1>1. out' = [ out EXCEPT !.scl = 0 ]
  BY DEF Step, Drive
<1>2. out' = Lines(out.sda, 0) /\ out'.scl = 0 /\ out'.sda = out.sda /\ LinesOK'
  BY <1>1 DEF LinesOK, Lines
<1>3. port' = Sees(out, out')
  BY DEF Step, Senses
<1>4. out.scl = 1 => port' = Fall(port)
  BY <1>2, <1>3 DEF Sees
<1>5. out.scl = 0 => port' = port
  BY <1>2, <1>3 DEF Sees
<1>6. out.scl = 1 => dev' = Felt(port, port')
  BY <1>2, Zenon DEF Step, Senses, Felt
<1>7. out.scl = 0 => dev' = dev
  BY DEF Step, Senses
<1> QED
  BY <1>2, <1>4, <1>5, <1>6, <1>7

(* The clock is released: the sensor samples if it was low.                  *)
LEMMA ClockHigh ==
    ASSUME LinesOK, Step("SCL_H")
    PROVE  /\ out' = Lines(out.sda, 1) /\ LinesOK' /\ dev' = dev
           /\ out.scl = 0 => port' = Rise(port, Sda(out', port))
           /\ out.scl = 1 => port' = port
<1>1. out' = [ out EXCEPT !.scl = 1 ]
  BY DEF Step, Drive
<1>2. out' = Lines(out.sda, 1) /\ out'.scl = 1 /\ out'.sda = out.sda /\ LinesOK'
  BY <1>1 DEF LinesOK, Lines
<1>3. port' = Sees(out, out')
  BY DEF Step, Senses
<1>a. Sda(out, port) = Sda(out', port)
  BY <1>2 DEF Sda
<1>4. out.scl = 0 => port' = Rise(port, Sda(out', port))
  BY <1>2, <1>3, <1>a DEF Sees
<1>5. out.scl = 1 => port' = port
  <2>1. Sda(out, port) = 0 \/ Sda(out, port) = 1
    BY DEF Sda
  <2> QED
    BY <1>2, <1>3, <1>a, <2>1 DEF Sees
<1>6. dev' = dev
  BY <1>2 DEF Step, Senses
<1> QED
  BY <1>2, <1>4, <1>5, <1>6

(* The data line is released: a STOP if the clock is high.                   *)
LEMMA DataHigh ==
    ASSUME LinesOK, Step("SDA_H")
    PROVE  /\ out' = Lines(1, out.scl) /\ LinesOK' /\ dev' = dev
           /\ out.scl = 0 => port' = port
           /\ out.sda = 1 => port' = port
           /\ out.scl = 1 => port' = IF out.sda = 0 /\ ~port.pull THEN Idle ELSE port
<1>1. out' = [ out EXCEPT !.sda = 1 ]
  BY DEF Step, Drive
<1>2. out' = Lines(1, out.scl) /\ out'.scl = out.scl /\ out'.sda = 1 /\ LinesOK'
  BY <1>1 DEF LinesOK, Lines
<1>3. port' = Sees(out, out') /\ out.scl \in {0, 1} /\ out.sda \in {0, 1}
  BY DEF Step, Senses, LinesOK
<1>4. /\ Sda(out', port) = IF ~port.pull THEN 1 ELSE 0
      /\ Sda(out, port) = IF out.sda = 1 /\ ~port.pull THEN 1 ELSE 0
  BY <1>2 DEF Sda
<1>5. out.scl = 0 => port' = port
  BY <1>2, <1>3 DEF Sees
<1>6. out.scl = 1 => port' = IF out.sda = 0 /\ ~port.pull THEN Idle ELSE port
  <2> SUFFICES ASSUME out.scl = 1 PROVE port' = IF out.sda = 0 /\ ~port.pull THEN Idle ELSE port
    OBVIOUS
  <2>1. port' = CASE Sda(out, port) = 1 /\ Sda(out', port) = 0 -> Started
                  [] Sda(out, port) = 0 /\ Sda(out', port) = 1 -> Idle
                  [] OTHER -> port
    BY <1>2, <1>3 DEF Sees
  <2>2. CASE port.pull
    <3>1. Sda(out', port) = 0 /\ Sda(out, port) = 0
      BY <1>4, <2>2
    <3> QED
      BY <2>1, <2>2, <3>1
  <2>3. CASE ~port.pull /\ out.sda = 1
    <3>1. Sda(out', port) = 1 /\ Sda(out, port) = 1
      BY <1>4, <2>3
    <3> QED
      BY <2>1, <2>3, <3>1
  <2>4. CASE ~port.pull /\ out.sda = 0
    <3>1. Sda(out', port) = 1 /\ Sda(out, port) = 0
      BY <1>4, <2>4
    <3> QED
      BY <2>1, <2>4, <3>1
  <2> QED
    BY <1>3, <2>2, <2>3, <2>4
<1>7. dev' = dev
  BY <1>2 DEF Step, Senses
<1> QED
  BY <1>2, <1>3, <1>5, <1>6, <1>7

(* The data line is pulled: a START if the clock is high.                    *)
LEMMA DataLow ==
    ASSUME LinesOK, Step("SDA_L")
    PROVE  /\ out' = Lines(0, out.scl) /\ LinesOK' /\ dev' = dev
           /\ out.scl = 0 => port' = port
           /\ out.scl = 1 => port' = IF out.sda = 1 /\ ~port.pull THEN Started ELSE port
<1>1. out' = [ out EXCEPT !.sda = 0 ]
  BY DEF Step, Drive
<1>2. out' = Lines(0, out.scl) /\ out'.scl = out.scl /\ out'.sda = 0 /\ LinesOK'
  BY <1>1 DEF LinesOK, Lines
<1>3. port' = Sees(out, out') /\ out.scl \in {0, 1} /\ out.sda \in {0, 1}
  BY DEF Step, Senses, LinesOK
<1>4. /\ Sda(out', port) = 0
      /\ Sda(out, port) = IF out.sda = 1 /\ ~port.pull THEN 1 ELSE 0
  BY <1>2 DEF Sda
<1>5. out.scl = 0 => port' = port
  BY <1>2, <1>3 DEF Sees
<1>6. out.scl = 1 => port' = IF out.sda = 1 /\ ~port.pull THEN Started ELSE port
  BY <1>2, <1>3, <1>4 DEF Sees
<1>7. dev' = dev
  BY <1>2 DEF Step, Senses
<1> QED
  BY <1>2, <1>3, <1>5, <1>6, <1>7

-----------------------------------------------------------------------------
(* The sensor's reactions, state by state                                    *)

(* The fields of the states of the sensor                                    *)
LEMMA Fields ==
    ASSUME NEW f, NEW b
    PROVE  /\ Idle.st = "off" /\ Idle.pull = FALSE /\ Idle.bits = <<>>
           /\ Receive(f, b).st = "rx" /\ Receive(f, b).first = f /\ Receive(f, b).bits = b
           /\ Receive(f, b).pull = FALSE
           /\ Acknowledge(f, b).st = "rxack" /\ Acknowledge(f, b).first = f /\ Acknowledge(f, b).bits = b
           /\ Acknowledge(f, b).pull = TRUE
           /\ Await(b).st = "txack" /\ Await(b).bits = b /\ Await(b).pull = FALSE
           /\ Send(b).st = "tx" /\ Send(b).bits = b /\ Send(b).pull = (b # <<>> /\ Head(b) = 0)
           /\ Started = Receive(TRUE, <<>>)
  BY DEF Idle, Receive, Acknowledge, Await, Send, Started

(* A sensor off the bus does not react to the clock.                         *)
LEMMA FallIdle == Fall(Idle) = Idle /\ \A q : Felt(Idle, q) = dev
<1>1. Idle.st = "off"
  BY DEF Idle
<1> HIDE DEF Idle
<1>2. Fall(Idle) = Idle
  BY <1>1 DEF Fall
<1>3. \A q : Felt(Idle, q) = dev
  BY <1>1 DEF Felt
<1> QED
  BY <1>2, <1>3

(* A byte that comes in is judged when it is whole.                          *)
LEMMA FallRx ==
    ASSUME NEW f, NEW b
    PROVE  /\ Len(b) # 8 => Fall(Receive(f, b)) = Receive(f, b) /\ Felt(Receive(f, b), Receive(f, b)) = dev
           /\ Len(b) = 8 => Fall(Receive(f, b)) = IF Accepts(Receive(f, b)) THEN Acknowledge(f, b) ELSE Idle
           /\ Felt(Receive(f, b), Idle) = dev
<1> DEFINE p == Receive(f, b)
<1>1. p.st = "rx" /\ p.bits = b /\ p.first = f
  BY DEF Receive
<1>2. Idle.st = "off"
  BY DEF Idle
<1> HIDE DEF p
<1>4. Len(b) # 8 => Fall(p) = p
  BY <1>1 DEF Fall
<1>5. Len(b) = 8 => Fall(p) = IF Accepts(p) THEN Acknowledge(f, b) ELSE Idle
  BY <1>1 DEF Fall
<1>6. Felt(p, p) = dev
  BY <1>1 DEF Felt
<1>7. Felt(p, Idle) = dev
  BY <1>1, <1>2 DEF Felt
<1> QED
  BY <1>4, <1>5, <1>6, <1>7 DEF p

(* The acknowledgement is over.                                              *)
LEMMA FallAsked ==
    ASSUME NEW b
    PROVE  /\ b = BitsOf(ToWrite) =>
                Fall(Acknowledge(TRUE, b)) = Receive(FALSE, <<>>) /\ Felt(Acknowledge(TRUE, b), Receive(FALSE, <<>>)) = dev
           /\ b # BitsOf(ToWrite) =>
                /\ Fall(Acknowledge(TRUE, b)) = Send(Flat(dev.result))
                /\ \A c : Felt(Acknowledge(TRUE, b), Send(c)) = [ dev EXCEPT !.result = None ]
           /\ Fall(Acknowledge(FALSE, b)) = Idle /\ Felt(Acknowledge(FALSE, b), Idle) = dev
<1> DEFINE p == Acknowledge(TRUE, b)
           q == Acknowledge(FALSE, b)
           r == Receive(FALSE, <<>>)
<1>1. /\ p.st = "rxack" /\ p.bits = b /\ p.first = TRUE
      /\ q.st = "rxack" /\ q.bits = b /\ q.first = FALSE
  BY DEF Acknowledge
<1>2. Idle.st = "off" /\ r.st = "rx" /\ \A c : Send(c).st = "tx"
  BY DEF Idle, Receive, Send
<1> HIDE DEF p, q, r
<1>4. b = BitsOf(ToWrite) => Fall(p) = r
  BY <1>1 DEF Fall, ToWrite, r
<1>5. b # BitsOf(ToWrite) => Fall(p) = Send(Flat(dev.result))
  BY <1>1 DEF Fall, ToWrite
<1>6. Fall(q) = Idle
  BY <1>1 DEF Fall
<1>7. Felt(p, r) = dev /\ Felt(q, Idle) = dev
  BY <1>1, <1>2 DEF Felt
<1>8. \A c : Felt(p, Send(c)) = [ dev EXCEPT !.result = None ]
  BY <1>1, <1>2 DEF Felt
<1> QED
  BY <1>4, <1>5, <1>6, <1>7, <1>8 DEF p, q, r

(* A bit is out: the next, or the turn of the master                         *)
LEMMA FallSend ==
    ASSUME NEW b
    PROVE  /\ Fall(Send(b)) = IF (Len(b) - 1) % 8 = 0 THEN Await(Tail(b)) ELSE Send(Tail(b))
           /\ \A q : Felt(Send(b), q) = dev
<1> DEFINE p == Send(b)
<1>1. p.st = "tx" /\ p.bits = b
  BY DEF Send
<1> HIDE DEF p
<1>3. Fall(p) = IF (Len(b) - 1) % 8 = 0 THEN Await(Tail(b)) ELSE Send(Tail(b))
  <2> DEFINE x == (Len(b) - 1) % 8
  <2>1. Fall(p) = IF x = 0 THEN Await(Tail(p.bits)) ELSE Send(Tail(p.bits))
    BY <1>1 DEF Fall
  <2> HIDE DEF x
  <2> QED
    BY <1>1, <2>1, Zenon DEF x
<1>4. \A q : Felt(p, q) = dev
  BY <1>1 DEF Felt
<1> QED
  BY <1>3, <1>4 DEF p

(* The turn of the master is over.                                           *)
LEMMA FallTxAck ==
    ASSUME NEW b
    PROVE  /\ Fall(Await(b)) = IF b = <<>> THEN Idle ELSE Send(b)
           /\ \A q : Felt(Await(b), q) = dev
<1> DEFINE p == Await(b)
<1>1. p.st = "txack" /\ p.bits = b
  BY DEF Await
<1> HIDE DEF p
<1>2. Fall(p) = IF b = <<>> THEN Idle ELSE Send(b)
  BY <1>1 DEF Fall
<1>3. \A q : Felt(p, q) = dev
  BY <1>1 DEF Felt
<1> QED
  BY <1>2, <1>3 DEF p

(* What the rising clock makes of each state of the sensor                   *)
LEMMA Risen ==
    ASSUME NEW b, NEW f, NEW x
    PROVE  /\ Rise(Idle, x) = Idle /\ Rise(Acknowledge(f, b), x) = Acknowledge(f, b)
           /\ Rise(Send(b), x) = Send(b)
           /\ Rise(Receive(f, b), x) = Receive(f, Append(b, x))
           /\ Rise(Await(b), x) = IF x = 1 THEN Idle ELSE Await(b)
<1> DEFINE a == Acknowledge(f, b)
           s == Send(b)
           r == Receive(f, b)
           t == Await(b)
<1>1. Idle.st = "off" /\ a.st = "rxack" /\ s.st = "tx" /\ r.st = "rx" /\ t.st = "txack"
  BY DEF Idle, Acknowledge, Send, Receive, Await
<1>2. r.bits = b /\ r.first = f
  BY DEF Receive
<1> HIDE DEF a, s, r, t
<1>3. Rise(Idle, x) = Idle /\ Rise(a, x) = a
  BY <1>1 DEF Rise
<1>4. Rise(s, x) = s
  BY <1>1 DEF Rise
<1>5. Rise(r, x) = Receive(f, Append(b, x))
  BY <1>1, <1>2 DEF Rise
<1>6. Rise(t, x) = IF x = 1 THEN Idle ELSE t
  BY <1>1 DEF Rise
<1> QED
  BY <1>3, <1>4, <1>5, <1>6 DEF a, s, r, t

-----------------------------------------------------------------------------
(* A byte that goes out                                                      *)

(* The bits that are in, one more                                            *)
LEMMA Prefix ==
    ASSUME NEW s \in Seq(Bit), NEW m \in 0 .. Len(s) - 1
    PROVE  /\ SubSeq(s, 1, 0) = <<>> /\ Len(SubSeq(s, 1, m)) = m
           /\ Append(SubSeq(s, 1, m), s[m + 1]) = SubSeq(s, 1, m + 1)
           /\ SubSeq(s, 1, Len(s)) = s
<1>0. Len(s) \in Nat
  BY LenProperties
<1>1. SubSeq(s, 1, 0) = <<>>
  BY SubSeqEmpty
<1>2. SubSeq(s, 1, m) \in Seq(Bit) /\ Len(SubSeq(s, 1, m)) = m
  <2>1. \A i \in 1 .. m : s[i] \in Bit
    BY <1>0, ElementOfSeq
  <2>2. 1 \in Int /\ m \in Int
    BY <1>0
  <2>3. /\ SubSeq(s, 1, m) \in Seq(Bit)
        /\ Len(SubSeq(s, 1, m)) = IF 1 <= m THEN m - 1 + 1 ELSE 0
    BY <2>1, <2>2, SubSeqProperties
  <2> QED
    BY <1>0, <2>3
<1>3. SubSeq(s, 1, m + 1) = SubSeq(s, 1, m) \o <<s[m + 1]>>
  <2> DEFINE n == m + 1
  <2>1. n \in 1 .. Len(s) /\ 1 \in 1 .. Len(s) /\ n \in 1 .. Len(s) /\ n - 1 = m
    BY <1>0
  <2> HIDE DEF n
  <2>2. SubSeq(s, 1, n) = SubSeq(s, 1, n - 1) \o <<s[n]>>
    BY <2>1, SubSeqRecursiveSecond
  <2> QED
    BY <2>1, <2>2 DEF n
<1>4. SubSeq(s, 1, m) \o <<s[m + 1]>> = Append(SubSeq(s, 1, m), s[m + 1])
  <2> DEFINE t == SubSeq(s, 1, m)
             e == s[m + 1]
  <2>1. t \in Seq(Bit) /\ e \in Bit
    <3>1. m + 1 \in 1 .. Len(s)
      BY <1>0
    <3> QED
      BY <1>2, <3>1, ElementOfSeq
  <2> HIDE DEF t, e
  <2>2. t \o <<e>> = Append(t, e)
    BY <2>1
  <2> QED
    BY <2>2 DEF t, e
<1>5. SubSeq(s, 1, Len(s)) = s
  BY SubSeqFull
<1> QED
  BY <1>1, <1>2, <1>3, <1>4, <1>5

(* j of the operations after the first of iic_sendbyte(b) are done.          *)
Sent(b, first, j, o, p) ==
    /\ o.scl = IF j % 3 = 2 THEN 1 ELSE 0
    /\ j > 0 => o.sda = BitsOf(b)[(j + 2) \div 3]
    /\ p = Receive(first, SubSeq(BitsOf(b), 1, (j + 1) \div 3))

(* No bit is out yet.                                                        *)
LEMMA SentStart ==
    ASSUME NEW b \in Nat, NEW first, NEW o, NEW p, o.scl = 0, p = Receive(first, <<>>)
    PROVE  Sent(b, first, 0, o, p)
<1>1. SubSeq(BitsOf(b), 1, 0) = <<>>
  BY SubSeqEmpty
<1> DEFINE j == 0
<1>2. (j + 1) \div 3 = 0 /\ j % 3 # 2 /\ ~(j > 0)
  OBVIOUS
<1> HIDE DEF j
<1>3. Sent(b, first, j, o, p)
  BY <1>1, <1>2 DEF Sent
<1> QED
  BY <1>3 DEF j

(* One of the first 23 operations of a byte that goes out                    *)
LEMMA SentStep ==
    ASSUME LinesOK, NEW b \in Nat, NEW first, NEW j \in 0 .. 22,
           Sent(b, first, j, out, port), Step(Clocked(b, j + 1))
    PROVE  Sent(b, first, j + 1, out', port') /\ dev' = dev /\ LinesOK'
<1> DEFINE s == BitsOf(b)
           m == j \div 3
           r == j % 3
<1>1. /\ s \in Seq(Bit) /\ Len(s) = 8 /\ \A i \in 1 .. 8 : s[i] \in Bit
  BY BitsOfType
<1>2. j = 3 * m + r /\ m \in 0 .. 7 /\ r \in 0 .. 2
  OBVIOUS
<1>3. /\ out.scl = IF r = 2 THEN 1 ELSE 0
      /\ j > 0 => out.sda = s[(j + 2) \div 3]
      /\ port = Receive(first, SubSeq(s, 1, (j + 1) \div 3))
  BY DEF Sent
<1> HIDE DEF s
<1>4. CASE r = 0
  <2>1. (j + 1) % 3 = 1 /\ (j + 1) \div 3 = m /\ (j + 2) \div 3 = m /\ (j + 3) \div 3 = m + 1
    BY <1>2, <1>4
  <2>2. Clocked(b, j + 1) = IF s[1 + m] = 1 THEN "SDA_H" ELSE "SDA_L"
    BY <2>1 DEF Clocked, s
  <2>3. s[m + 1] \in {0, 1} /\ 1 + m = m + 1
    BY <1>1, <1>2 DEF Bit
  <2>4. out.scl = 0
    BY <1>3, <1>4
  <2>5. out' = Lines(s[m + 1], 0) /\ port' = port /\ dev' = dev /\ LinesOK'
    <3>1. CASE s[m + 1] = 1
      <4>1. Step("SDA_H")
        BY <2>2, <2>3, <3>1
      <4> QED
        BY <2>4, <3>1, <4>1, DataHigh
    <3>2. CASE s[m + 1] = 0
      <4>1. Step("SDA_L")
        BY <2>2, <2>3, <3>2
      <4> QED
        BY <2>4, <3>2, <4>1, DataLow
    <3> QED
      BY <2>3, <3>1, <3>2
  <2>6. out'.sda = s[m + 1] /\ out'.scl = 0
    BY <2>5 DEF Lines
  <2>7. ((j + 1) + 1) \div 3 = m /\ ((j + 1) + 2) \div 3 = m + 1
    BY <2>1
  <2> HIDE DEF m, r
  <2>8. Sent(b, first, j + 1, out', port')
    BY <1>3, <2>1, <2>5, <2>6, <2>7 DEF Sent, s
  <2> QED
    BY <2>5, <2>8
<1>5. CASE r = 1
  <2>1. /\ (j + 1) % 3 = 2 /\ (j + 1) \div 3 = m /\ (j + 2) \div 3 = m + 1 /\ (j + 3) \div 3 = m + 1
        /\ j > 0
    BY <1>2, <1>5
  <2>2. Step("SCL_H")
    BY <2>1 DEF Clocked
  <2>3. out.scl = 0 /\ out.sda = s[m + 1] /\ port = Receive(first, SubSeq(s, 1, m))
    BY <1>3, <1>5, <2>1
  <2>4. out' = Lines(s[m + 1], 1) /\ dev' = dev /\ LinesOK' /\ port' = Rise(port, Sda(out', port))
    BY <2>2, <2>3, ClockHigh
  <2>5. out'.sda = s[m + 1] /\ out'.scl = 1
    BY <2>4 DEF Lines
  <2>6. Sda(out', port) = s[m + 1]
    <3>1. s[m + 1] \in {0, 1}
      BY <1>1, <1>2 DEF Bit
    <3>2. ~port.pull
      BY <2>3 DEF Receive
    <3> QED
      BY <2>5, <3>1, <3>2 DEF Sda
  <2>7. port' = Receive(first, SubSeq(s, 1, m + 1))
    <3>1. m \in 0 .. Len(s) - 1
      BY <1>1, <1>2
    <3>2. Append(SubSeq(s, 1, m), s[m + 1]) = SubSeq(s, 1, m + 1)
      BY <1>1, <3>1, Prefix
    <3> DEFINE x == s[m + 1]
               t == SubSeq(s, 1, m)
    <3> HIDE DEF x, t
    <3>3. Rise(Receive(first, t), x) = Receive(first, Append(t, x))
      BY Risen
    <3> QED
      BY <2>3, <2>4, <2>6, <3>2, <3>3 DEF x, t
  <2>8. ((j + 1) + 1) \div 3 = m + 1 /\ ((j + 1) + 2) \div 3 = m + 1
    BY <2>1
  <2> HIDE DEF m, r
  <2>9. Sent(b, first, j + 1, out', port')
    BY <2>1, <2>5, <2>7, <2>8 DEF Sent, s
  <2> QED
    BY <2>4, <2>9
<1>6. CASE r = 2
  <2>1. /\ (j + 1) % 3 = 0 /\ (j + 1) \div 3 = m + 1 /\ (j + 2) \div 3 = m + 1
        /\ (j + 3) \div 3 = m + 1 /\ j > 0 /\ m \in 0 .. 6
    BY <1>2, <1>6
  <2>2. Step("SCL_L")
    BY <2>1 DEF Clocked
  <2>3. out.scl = 1 /\ out.sda = s[m + 1] /\ port = Receive(first, SubSeq(s, 1, m + 1))
    BY <1>3, <1>6, <2>1
  <2>4. out' = Lines(s[m + 1], 0) /\ LinesOK' /\ port' = Fall(port) /\ dev' = Felt(port, port')
    BY <2>2, <2>3, ClockLow
  <2>5. out'.sda = s[m + 1] /\ out'.scl = 0
    BY <2>4 DEF Lines
  <2>6. Len(SubSeq(s, 1, m + 1)) # 8
    <3> DEFINE n == m + 1
    <3>1. n \in 0 .. Len(s) - 1 /\ n # 8
      BY <1>1, <2>1
    <3> HIDE DEF n
    <3>2. Len(SubSeq(s, 1, n)) = n
      BY <1>1, <3>1, Prefix
    <3> QED
      BY <3>1, <3>2 DEF n
  <2>7. port' = port /\ dev' = dev
    BY <2>3, <2>4, <2>6, FallRx
  <2>8. ((j + 1) + 1) \div 3 = m + 1 /\ ((j + 1) + 2) \div 3 = m + 1
    BY <2>1
  <2> HIDE DEF m, r
  <2>9. Sent(b, first, j + 1, out', port')
    BY <2>1, <2>3, <2>5, <2>7, <2>8 DEF Sent, s
  <2> QED
    BY <2>4, <2>7, <2>9
<1> QED
  BY <1>2, <1>4, <1>5, <1>6

(* The last one, at which the sensor judges the byte                         *)
LEMMA SentLast ==
    ASSUME LinesOK, NEW b \in Nat, NEW first,
           Sent(b, first, 23, out, port), Step(Clocked(b, 24))
    PROVE  /\ out' = Lines(BitsOf(b)[8], 0) /\ LinesOK'
           /\ port = Receive(first, BitsOf(b)) /\ dev' = Felt(port, port')
           /\ port' = IF Accepts(port) THEN Acknowledge(first, BitsOf(b)) ELSE Idle
<1> DEFINE s == BitsOf(b)
<1>1. s \in Seq(Bit) /\ Len(s) = 8
  BY BitsOfType
<1>2. 23 % 3 = 2 /\ (23 + 2) \div 3 = 8 /\ (23 + 1) \div 3 = 8 /\ 24 % 3 = 0
  OBVIOUS
<1>3. SubSeq(s, 1, 8) = s
  <2> HIDE DEF s
  <2> QED
    BY <1>1, SubSeqFull
<1>4. out.scl = 1 /\ out.sda = s[8] /\ port = Receive(first, s)
  <2> DEFINE j == 23
  <2>1. Sent(b, first, j, out, port) /\ j > 0 /\ j % 3 = 2 /\ (j + 2) \div 3 = 8 /\ (j + 1) \div 3 = 8
    OBVIOUS
  <2> HIDE DEF j, s
  <2>2. out.scl = 1 /\ out.sda = s[8] /\ port = Receive(first, SubSeq(s, 1, 8))
    BY <2>1 DEF Sent, s
  <2> QED
    BY <1>3, <2>2
<1>5. Step("SCL_L")
  BY <1>2 DEF Clocked
<1>6. out' = Lines(s[8], 0) /\ LinesOK' /\ port' = Fall(port) /\ dev' = Felt(port, port')
  BY <1>4, <1>5, ClockLow
<1>7. port' = IF Accepts(port) THEN Acknowledge(first, s) ELSE Idle
  <2> HIDE DEF s
  <2>1. Fall(Receive(first, s)) = IF Accepts(Receive(first, s)) THEN Acknowledge(first, s) ELSE Idle
    BY <1>1, FallRx
  <2> QED
    BY <1>4, <1>6, <2>1
<1> QED
  BY <1>4, <1>6, <1>7

Results == UNION { Readings(q) : q \in Quantities }

(* The address and the commands are bytes, and differ where they must.       *)
LEMMA Numbers ==
    /\ Address \in 0 .. 127 /\ ToWrite \in 0 .. 255 /\ ToRead \in 0 .. 255 /\ ToWrite # ToRead
    /\ \A q \in Quantities : Command[q] \in 0 .. 255
    /\ BitsOf(ToRead) # BitsOf(ToWrite) /\ BitsOf(ToRead)[8] = 1
<1>1. Address \in 0 .. 127 /\ \A q \in Quantities : Command[q] \in 0 .. 255
  BY Sht20Assumption
<1>2. ToWrite \in 0 .. 255 /\ ToRead \in 0 .. 255 /\ ToWrite # ToRead
  BY <1>1 DEF ToWrite, ToRead
<1>3. BitsOf(ToRead) # BitsOf(ToWrite)
  BY <1>2, BitsOfOne
<1>4. BitsOf(ToRead)[8] = 1
  <2>1. ToRead % 2 = 1
    BY <1>1 DEF ToRead
  <2>2. ToRead \in Nat
    BY <1>2
  <2> QED
    BY <2>1, <2>2, BitsOfAt
<1> QED
  BY <1>1, <1>2, <1>3, <1>4

(* A reading is 24 bits and not None.                                        *)
LEMMA FlatType ==
    ASSUME NEW r \in Results
    PROVE  Flat(r) \in Seq(Bit) /\ Len(Flat(r)) = 24 /\ r # None
<1>1. r \in [ 1 .. 3 -> 0 .. 255 ] /\ r # None
  BY Sht20Assumption DEF Results
<1> DEFINE x == BitsOf(r[1])
           y == BitsOf(r[2])
           z == BitsOf(r[3])
           u == x \o y
           v == u \o z
<1>2. r[1] \in Nat /\ r[2] \in Nat /\ r[3] \in Nat
  BY <1>1
<1>3. x \in Seq(Bit) /\ Len(x) = 8 /\ y \in Seq(Bit) /\ Len(y) = 8 /\ z \in Seq(Bit) /\ Len(z) = 8
  BY <1>2, BitsOfType
<1>4. Flat(r) = v
  BY DEF Flat
<1> HIDE DEF x, y, z
<1>5. u \in Seq(Bit) /\ Len(u) = Len(x) + Len(y)
  BY <1>3, ConcatProperties
<1> HIDE DEF u
<1>6. v \in Seq(Bit) /\ Len(v) = Len(u) + Len(z)
  BY <1>3, <1>5, ConcatProperties
<1> HIDE DEF v
<1>7. Len(v) = 24
  BY <1>3, <1>5, <1>6
<1> QED
  BY <1>1, <1>4, <1>6, <1>7

-----------------------------------------------------------------------------
(* A START and the first byte, as the sensor sees it                         *)

(* Two of the sensor's states, with the byte b where there is one.           *)
OneIn == Receive(TRUE, <<1>>)
Addressed(b) == Acknowledge(TRUE, BitsOf(b))
FirstSent(b, j, o, p) == Sent(b, TRUE, j, o, p)

Ready(o, p) == o.sda = 1 /\ (p = Idle \/ (p = OneIn /\ o.scl = 1))

Opened(b, k, o, p) ==
    /\ k \in 0 .. 2 => Ready(o, p) /\ (k = 2 => o.scl = 1)
    /\ k = 3 => o = Lines(0, 1) /\ p = Started
    /\ k = 4 => o = Lines(0, 0) /\ p = Started
    /\ k \in 5 .. 28 => FirstSent(b, k - 5, o, p)
    /\ k \in 29 .. 31 => p \in {Idle, Addressed(b)}
    /\ k = 29 => o = Lines(BitsOf(b)[8], 0)
    /\ k = 30 => o = Lines(1, 0)
    /\ k = 31 => o = Lines(1, 1)

(* The two fields of the lines                                               *)
LEMMA LinesAre ==
    ASSUME NEW a, NEW b
    PROVE  Lines(a, b).sda = a /\ Lines(a, b).scl = b
  BY DEF Lines

(* The START                                                                 *)
LEMMA OpenedStart ==
    ASSUME LinesOK, NEW b \in Nat, NEW P, Addresses(P, b), NEW k \in 0 .. 4,
           Opened(b, k, out, port), Step(P[k + 1])
    PROVE  Opened(b, k + 1, out', port') /\ dev' = dev /\ LinesOK'
<1>0. /\ P[1] = "SDA_H" /\ P[2] = "SCL_H" /\ P[3] = "SDA_L" /\ P[4] = "SCL_L" /\ P[5] = "SCL_L"
  BY DEF Addresses
<1>a. Started = Receive(TRUE, <<>>)
  BY DEF Started
<1>1. CASE k = 0
  <2>1. Ready(out, port) /\ Step("SDA_H") /\ out.sda = 1
    BY <1>0, <1>1 DEF Opened, Ready
  <2>2. out' = Lines(1, out.scl) /\ LinesOK' /\ dev' = dev /\ port' = port
    BY <2>1, DataHigh
  <2>3. out'.sda = 1 /\ out'.scl = out.scl
    BY <2>2, LinesAre
  <2>4. Ready(out', port')
    BY <2>1, <2>2, <2>3 DEF Ready
  <2> QED
    BY <1>1, <2>2, <2>4 DEF Opened
<1>2. CASE k = 1
  <2>1. Ready(out, port) /\ Step("SCL_H") /\ out.sda = 1
    BY <1>0, <1>2 DEF Opened, Ready
  <2>2. out' = Lines(1, 1) /\ LinesOK' /\ dev' = dev
    BY <2>1, ClockHigh
  <2>3. port' = port
    <3>1. CASE out.scl = 1
      BY <2>1, <3>1, ClockHigh
    <3>2. CASE out.scl = 0
      <4>1. port = Idle /\ port' = Rise(port, Sda(out', port))
        BY <2>1, <3>2, ClockHigh DEF Ready
      <4> QED
        BY <4>1, Risen
    <3> QED
      BY <3>1, <3>2, LinesSplit
  <2>4. out'.sda = 1 /\ out'.scl = 1
    BY <2>2, LinesAre
  <2>5. Ready(out', port')
    BY <2>1, <2>3, <2>4 DEF Ready
  <2> QED
    BY <1>2, <2>2, <2>4, <2>5 DEF Opened
<1>3. CASE k = 2
  <2>1. Ready(out, port) /\ Step("SDA_L") /\ out.sda = 1 /\ out.scl = 1
    BY <1>0, <1>3 DEF Opened, Ready
  <2>2. ~port.pull
    <3>1. ~Idle.pull /\ ~OneIn.pull
      BY DEF Idle, OneIn, Receive
    <3> QED
      BY <2>1, <3>1 DEF Ready
  <2>3. out' = Lines(0, 1) /\ LinesOK' /\ dev' = dev /\ port' = Started
    BY <2>1, <2>2, DataLow
  <2> QED
    BY <1>3, <2>3 DEF Opened
<1>4. CASE k = 3
  <2>1. out = Lines(0, 1) /\ port = Started /\ Step("SCL_L")
    BY <1>0, <1>4 DEF Opened
  <2>2. out.sda = 0 /\ out.scl = 1
    BY <2>1, LinesAre
  <2>3. out' = Lines(0, 0) /\ LinesOK' /\ port' = Fall(port) /\ dev' = Felt(port, port')
    BY <2>1, <2>2, ClockLow
  <2>4. port' = port /\ dev' = dev
    <3>1. Len(<<>>) # 8
      OBVIOUS
    <3> QED
      BY <1>a, <2>1, <2>3, <3>1, FallRx
  <2> QED
    BY <1>4, <2>1, <2>3, <2>4 DEF Opened
<1>5. CASE k = 4
  <2>1. out = Lines(0, 0) /\ port = Receive(TRUE, <<>>) /\ Step("SCL_L")
    BY <1>0, <1>5, <1>a DEF Opened
  <2>2. out.sda = 0 /\ out.scl = 0
    BY <2>1, LinesAre
  <2>3. out' = Lines(0, 0) /\ LinesOK' /\ port' = port /\ dev' = dev
    BY <2>1, <2>2, ClockLow
  <2>4. out'.scl = 0
    BY <2>3, LinesAre
  <2>5. FirstSent(b, 0, out', port')
    BY <2>1, <2>3, <2>4, SentStart DEF FirstSent
  <2> QED
    BY <1>5, <2>3, <2>5 DEF Opened
<1> QED
  BY <1>1, <1>2, <1>3, <1>4, <1>5

(* The address                                                               *)
LEMMA OpenedByte ==
    ASSUME LinesOK, NEW b \in Nat, NEW P, Addresses(P, b), NEW k \in 5 .. 28,
           Opened(b, k, out, port), Step(P[k + 1])
    PROVE  /\ Opened(b, k + 1, out', port') /\ dev' = dev /\ LinesOK'
           /\ k = 28 => port' = IF Accepts(Receive(TRUE, BitsOf(b)))
                                THEN Addressed(b) ELSE Idle
<1> DEFINE j == k - 5
<1>1. FirstSent(b, j, out, port) /\ j \in 0 .. 23 /\ j + 1 \in 1 .. 24 /\ 5 + (j + 1) = k + 1
  BY DEF Opened
<1>2. Step(Clocked(b, j + 1))
  <2>1. P[5 + (j + 1)] = Clocked(b, j + 1)
    BY <1>1 DEF Addresses
  <2> QED
    BY <1>1, <2>1
<1>3. CASE k # 28
  <2>1. j \in 0 .. 22
    BY <1>3
  <2>2. FirstSent(b, j + 1, out', port') /\ dev' = dev /\ LinesOK'
    <3> HIDE DEF j
    <3>1. Sent(b, TRUE, j, out, port)
      BY <1>1, Zenon DEF FirstSent
    <3>2. Sent(b, TRUE, j + 1, out', port') /\ dev' = dev /\ LinesOK'
      BY <1>1, <1>2, <2>1, <3>1, SentStep
    <3> QED
      BY <3>2, Zenon DEF FirstSent
  <2>3. j + 1 = (k + 1) - 5 /\ k + 1 \in 5 .. 28
    BY <1>3
  <2>4. FirstSent(b, (k + 1) - 5, out', port')
    BY <2>2, <2>3
  <2>5. k + 1 # 3 /\ k + 1 # 4 /\ k + 1 \notin 0 .. 2 /\ k + 1 \notin 29 .. 31
    BY <1>3
  <2>6. Opened(b, k + 1, out', port')
    BY <2>3, <2>4, <2>5 DEF Opened
  <2> QED
    BY <1>3, <2>2, <2>6
<1>4. CASE k = 28
  <2>1. FirstSent(b, 23, out, port) /\ Step(Clocked(b, 24))
    <3>1. j = 23 /\ j + 1 = 24
      BY <1>4
    <3> QED
      BY <1>1, <1>2, <3>1
  <2>2. /\ out' = Lines(BitsOf(b)[8], 0) /\ LinesOK'
        /\ port = Receive(TRUE, BitsOf(b)) /\ dev' = Felt(port, port')
        /\ port' = IF Accepts(port) THEN Addressed(b) ELSE Idle
    BY <2>1, SentLast, Zenon DEF FirstSent, Addressed
  <2>3. Commanded(port) = {}
    <3>1. port.first = TRUE
      BY <2>2 DEF Receive
    <3> QED
      BY <3>1 DEF Commanded
  <2>4. dev' = dev
    <3>1. port.st = "rx"
      BY <2>2 DEF Receive
    <3> QED
      BY <2>2, <2>3, <3>1 DEF Felt
  <2>5. Opened(b, 29, out', port')
    BY <2>2 DEF Opened
  <2>6. k + 1 = 29
    BY <1>4
  <2> QED
    BY <2>2, <2>4, <2>5, <2>6
<1> QED
  BY <1>3, <1>4

(* The release of the data line and the clock for the acknowledgement        *)
LEMMA OpenedEnd ==
    ASSUME LinesOK, NEW b \in Nat, NEW P, Asks(P, 29), NEW k \in 29 .. 30,
           Opened(b, k, out, port), Step(P[k + 1])
    PROVE  Opened(b, k + 1, out', port') /\ dev' = dev /\ LinesOK' /\ port' = port
<1>0. P[30] = "SDA_H" /\ P[31] = "SCL_H"
  BY DEF Asks
<1>1. CASE k = 29
  <2>1. out = Lines(BitsOf(b)[8], 0) /\ Step("SDA_H") /\ port \in {Idle, Addressed(b)}
    BY <1>0, <1>1 DEF Opened
  <2>2. out.scl = 0
    BY <2>1, LinesAre
  <2>3. out' = Lines(1, 0) /\ LinesOK' /\ dev' = dev /\ port' = port
    BY <2>1, <2>2, DataHigh
  <2>4. Opened(b, 30, out', port')
    BY <2>1, <2>3 DEF Opened
  <2>5. k + 1 = 30
    BY <1>1
  <2> QED
    BY <2>3, <2>4, <2>5
<1>2. CASE k = 30
  <2>1. out = Lines(1, 0) /\ Step("SCL_H") /\ port \in {Idle, Addressed(b)}
    BY <1>0, <1>2 DEF Opened
  <2>2. out.scl = 0 /\ out.sda = 1
    BY <2>1, LinesAre
  <2>3. out' = Lines(1, 1) /\ LinesOK' /\ dev' = dev /\ port' = Rise(port, Sda(out', port))
    BY <2>1, <2>2, ClockHigh
  <2>4. port' = port
    <3>1. \A x : Rise(Idle, x) = Idle /\ Rise(Addressed(b), x) = Addressed(b)
      BY Risen, Zenon DEF Addressed
    <3> QED
      BY <2>1, <2>3, <3>1
  <2>5. Opened(b, 31, out', port')
    BY <2>1, <2>3, <2>4 DEF Opened
  <2>6. k + 1 = 31
    BY <1>2
  <2> QED
    BY <2>3, <2>4, <2>5, <2>6
<1> QED
  BY <1>1, <1>2

-----------------------------------------------------------------------------
(* The sensor's other states, and what becomes of all of them                *)

ZeroIn == Receive(TRUE, <<0>>)
Waiting == Receive(FALSE, <<>>)
Ordered(b) == Acknowledge(FALSE, BitsOf(b))
NextSent(b, j, o, p) == Sent(b, FALSE, j, o, p)

(* Who pulls the data line                                                   *)
LEMMA Pulls ==
    ASSUME NEW b
    PROVE  /\ ~Idle.pull /\ ~Started.pull /\ ~OneIn.pull /\ ~ZeroIn.pull /\ ~Waiting.pull
           /\ ~Await(b).pull /\ Addressed(b).pull /\ Ordered(b).pull
<1>1. ~Idle.pull /\ ~Started.pull /\ ~OneIn.pull /\ ~ZeroIn.pull /\ ~Waiting.pull
  BY DEF Idle, Started, OneIn, ZeroIn, Waiting, Receive
<1>2. ~Await(b).pull /\ Addressed(b).pull /\ Ordered(b).pull
  BY DEF Await, Addressed, Ordered, Acknowledge
<1> QED
  BY <1>1, <1>2

(* The clock rises.                                                          *)
LEMMA Rising ==
    ASSUME NEW b, NEW x
    PROVE  /\ Rise(Idle, x) = Idle /\ Rise(Addressed(b), x) = Addressed(b)
           /\ Rise(Ordered(b), x) = Ordered(b)
           /\ Rise(Started, 0) = ZeroIn /\ Rise(Started, 1) = OneIn
<1>1. Rise(Idle, x) = Idle
  BY Risen
<1>2. Rise(Addressed(b), x) = Addressed(b) /\ Rise(Ordered(b), x) = Ordered(b)
  BY Risen, Zenon DEF Addressed, Ordered
<1>3. Append(<<>>, 0) = <<0>> /\ Append(<<>>, 1) = <<1>>
  OBVIOUS
<1>4. Rise(Started, 0) = ZeroIn /\ Rise(Started, 1) = OneIn
  BY <1>3, Risen, Zenon DEF Started, ZeroIn, OneIn
<1> QED
  BY <1>1, <1>2, <1>4

(* The clock falls.                                                          *)
LEMMA Falling ==
    ASSUME NEW b
    PROVE  /\ Fall(Idle) = Idle /\ Felt(Idle, Idle) = dev
           /\ Fall(Started) = Started /\ Felt(Started, Started) = dev
           /\ Fall(Addressed(ToWrite)) = Waiting /\ Felt(Addressed(ToWrite), Waiting) = dev
           /\ Fall(Ordered(b)) = Idle /\ Felt(Ordered(b), Idle) = dev
           /\ Fall(Addressed(ToRead)) = Send(Flat(dev.result))
           /\ \A c : Felt(Addressed(ToRead), Send(c)) = [ dev EXCEPT !.result = None ]
<1>1. Fall(Idle) = Idle /\ Felt(Idle, Idle) = dev
  BY FallIdle
<1>2. Fall(Started) = Started /\ Felt(Started, Started) = dev
  <2>1. Len(<<>>) # 8
    OBVIOUS
  <2> QED
    BY <2>1, FallRx, Zenon DEF Started
<1>3. Fall(Addressed(ToWrite)) = Waiting /\ Felt(Addressed(ToWrite), Waiting) = dev
  BY FallAsked, Zenon DEF Addressed, Waiting
<1>4. Fall(Ordered(b)) = Idle /\ Felt(Ordered(b), Idle) = dev
  BY FallAsked, Zenon DEF Ordered
<1>5. /\ Fall(Addressed(ToRead)) = Send(Flat(dev.result))
      /\ \A c : Felt(Addressed(ToRead), Send(c)) = [ dev EXCEPT !.result = None ]
  BY Numbers, FallAsked, Zenon DEF Addressed
<1> QED
  BY <1>1, <1>2, <1>3, <1>4, <1>5

-----------------------------------------------------------------------------
(* A STOP                                                                    *)

Stopping(k, o, p) ==
    /\ k = 0 => o = Lines(1, 1) /\ p = Idle
    /\ k = 1 => o = Lines(0, 1) /\ p = Started
    /\ k = 2 => o = Lines(0, 0) /\ p = Started
    /\ k = 3 => o = Lines(0, 1) /\ p = ZeroIn
    /\ k = 4 => o = Lines(1, 1) /\ p = Idle

(* A STOP takes the sensor off the bus.                                      *)
LEMMA StopStep ==
    ASSUME LinesOK, NEW k \in 0 .. 3, Stopping(k, out, port), Step(iic_stop[k + 1])
    PROVE  Stopping(k + 1, out', port') /\ dev' = dev /\ LinesOK'
<1>0. /\ iic_stop[1] = "SDA_L" /\ iic_stop[2] = "SCL_L"
      /\ iic_stop[3] = "SCL_H" /\ iic_stop[4] = "SDA_H"
  BY ShortOnes
<1>1. CASE k = 0
  <2>1. out = Lines(1, 1) /\ port = Idle /\ Step("SDA_L")
    BY <1>0, <1>1 DEF Stopping
  <2>2. out.sda = 1 /\ out.scl = 1 /\ ~port.pull
    BY <2>1, LinesAre, Pulls
  <2>3. out' = Lines(0, 1) /\ LinesOK' /\ dev' = dev /\ port' = Started
    BY <2>1, <2>2, DataLow
  <2> QED
    BY <1>1, <2>3 DEF Stopping
<1>2. CASE k = 1
  <2>1. out = Lines(0, 1) /\ port = Started /\ Step("SCL_L")
    BY <1>0, <1>2 DEF Stopping
  <2>2. out.sda = 0 /\ out.scl = 1
    BY <2>1, LinesAre
  <2>3. out' = Lines(0, 0) /\ LinesOK' /\ port' = Fall(port) /\ dev' = Felt(port, port')
    BY <2>1, <2>2, ClockLow
  <2>4. port' = Started /\ dev' = dev
    BY <2>1, <2>3, Falling
  <2> QED
    BY <1>2, <2>3, <2>4 DEF Stopping
<1>3. CASE k = 2
  <2>1. out = Lines(0, 0) /\ port = Started /\ Step("SCL_H")
    BY <1>0, <1>3 DEF Stopping
  <2>2. out.sda = 0 /\ out.scl = 0
    BY <2>1, LinesAre
  <2>3. out' = Lines(0, 1) /\ LinesOK' /\ dev' = dev /\ port' = Rise(port, Sda(out', port))
    BY <2>1, <2>2, ClockHigh
  <2>4. Sda(out', port) = 0
    BY <2>3, LinesAre DEF Sda
  <2>5. port' = ZeroIn
    BY <2>1, <2>3, <2>4, Rising
  <2> QED
    BY <1>3, <2>3, <2>5 DEF Stopping
<1>4. CASE k = 3
  <2>1. out = Lines(0, 1) /\ port = ZeroIn /\ Step("SDA_H")
    BY <1>0, <1>4 DEF Stopping
  <2>2. out.sda = 0 /\ out.scl = 1 /\ ~port.pull
    BY <2>1, LinesAre, Pulls
  <2>3. out' = Lines(1, 1) /\ LinesOK' /\ dev' = dev /\ port' = Idle
    BY <2>1, <2>2, DataHigh
  <2> QED
    BY <1>4, <2>3 DEF Stopping
<1> QED
  BY <1>1, <1>2, <1>3, <1>4

-----------------------------------------------------------------------------
(* The pins are set up                                                       *)

Booting(P, k, o, p) ==
    /\ k \in 0 .. 2 => o = Lines(1, 1) /\ p = Idle
    /\ k = 3 => \/ P[3] = "SDA_L" /\ o = Lines(0, 1) /\ p = Started
                \/ P[3] = "SCL_L" /\ o = Lines(1, 0) /\ p = Idle
    /\ k = 4 => o = Lines(0, 0) /\ p \in {Idle, Started}
    /\ k = 5 => o = Lines(1, 0) /\ p \in {Idle, Started}
    /\ k = 6 => o = Lines(1, 1) /\ p \in {Idle, OneIn}

(* The pins are set up: the sensor may see a START, never an address.        *)
LEMMA BootStep ==
    ASSUME LinesOK, NEW P \in soft_iic1_init, NEW k \in 0 .. 5, Booting(P, k, out, port),
           Step(P[k + 1])
    PROVE  Booting(P, k + 1, out', port') /\ dev' = dev /\ LinesOK'
<1>0. /\ P[1] \in {"SDA_H", "SCL_H"} /\ P[2] \in {"SDA_H", "SCL_H"}
      /\ \/ P[3] = "SDA_L" /\ P[4] = "SCL_L"
         \/ P[3] = "SCL_L" /\ P[4] = "SDA_L"
      /\ P[5] = "SDA_H" /\ P[6] = "SCL_H"
  BY BootAt
<1>1. CASE k \in 0 .. 1
  <2>1. out = Lines(1, 1) /\ port = Idle
    BY <1>1 DEF Booting
  <2>2. P[k + 1] \in {"SDA_H", "SCL_H"}
    BY <1>0, <1>1
  <2>3. out.sda = 1 /\ out.scl = 1
    BY <2>1, LinesAre
  <2>4. out' = Lines(1, 1) /\ LinesOK' /\ dev' = dev /\ port' = port
    <3>1. CASE P[k + 1] = "SDA_H"
      BY <2>3, <3>1, DataHigh
    <3>2. CASE P[k + 1] = "SCL_H"
      BY <2>3, <3>2, ClockHigh
    <3> QED
      BY <2>2, <3>1, <3>2
  <2> QED
    BY <1>1, <2>1, <2>4 DEF Booting
<1>2. CASE k = 2 /\ P[3] = "SDA_L"
  <2>1. out = Lines(1, 1) /\ port = Idle /\ Step("SDA_L")
    BY <1>2 DEF Booting
  <2>2. out.sda = 1 /\ out.scl = 1 /\ ~port.pull
    BY <2>1, LinesAre, Pulls
  <2>3. out' = Lines(0, 1) /\ LinesOK' /\ dev' = dev /\ port' = Started
    BY <2>1, <2>2, DataLow
  <2> QED
    BY <1>2, <2>3 DEF Booting
<1>3. CASE k = 2 /\ P[3] = "SCL_L"
  <2>1. out = Lines(1, 1) /\ port = Idle /\ Step("SCL_L")
    BY <1>3 DEF Booting
  <2>2. out.sda = 1 /\ out.scl = 1
    BY <2>1, LinesAre
  <2>3. out' = Lines(1, 0) /\ LinesOK' /\ dev' = Felt(port, port') /\ port' = Fall(port)
    BY <2>1, <2>2, ClockLow
  <2>4. port' = Idle /\ dev' = dev
    BY <2>1, <2>3, Falling
  <2> QED
    BY <1>3, <2>3, <2>4 DEF Booting
<1>4. CASE k = 3 /\ P[3] = "SDA_L"
  <2>1. out = Lines(0, 1) /\ port = Started /\ Step("SCL_L")
    BY <1>0, <1>4 DEF Booting
  <2>2. out.sda = 0 /\ out.scl = 1
    BY <2>1, LinesAre
  <2>3. out' = Lines(0, 0) /\ LinesOK' /\ dev' = Felt(port, port') /\ port' = Fall(port)
    BY <2>1, <2>2, ClockLow
  <2>4. port' = Started /\ dev' = dev
    BY <2>1, <2>3, Falling
  <2> QED
    BY <1>4, <2>3, <2>4 DEF Booting
<1>5. CASE k = 3 /\ P[3] = "SCL_L"
  <2>1. out = Lines(1, 0) /\ port = Idle /\ Step("SDA_L")
    BY <1>0, <1>5 DEF Booting
  <2>2. out.sda = 1 /\ out.scl = 0
    BY <2>1, LinesAre
  <2>3. out' = Lines(0, 0) /\ LinesOK' /\ dev' = dev /\ port' = port
    BY <2>1, <2>2, DataLow
  <2> QED
    BY <1>5, <2>1, <2>3 DEF Booting
<1>6. CASE k = 4
  <2>1. out = Lines(0, 0) /\ port \in {Idle, Started} /\ Step("SDA_H")
    BY <1>0, <1>6 DEF Booting
  <2>2. out.sda = 0 /\ out.scl = 0
    BY <2>1, LinesAre
  <2>3. out' = Lines(1, 0) /\ LinesOK' /\ dev' = dev /\ port' = port
    BY <2>1, <2>2, DataHigh
  <2> QED
    BY <1>6, <2>1, <2>3 DEF Booting
<1>7. CASE k = 5
  <2>1. out = Lines(1, 0) /\ port \in {Idle, Started} /\ Step("SCL_H")
    BY <1>0, <1>7 DEF Booting
  <2>2. out.sda = 1 /\ out.scl = 0 /\ ~port.pull
    BY <2>1, LinesAre, Pulls
  <2>3. out' = Lines(1, 1) /\ LinesOK' /\ dev' = dev /\ port' = Rise(port, Sda(out', port))
    BY <2>1, <2>2, ClockHigh
  <2>4. Sda(out', port) = 1
    BY <2>2, <2>3, LinesAre DEF Sda
  <2>5. port' \in {Idle, OneIn}
    BY <2>1, <2>3, <2>4, Rising
  <2> QED
    BY <1>7, <2>3, <2>5 DEF Booting
<1> QED
  BY <1>0, <1>1, <1>2, <1>3, <1>4, <1>5, <1>6, <1>7

-----------------------------------------------------------------------------
(* The command after the address of a write                                  *)

Commanding(b, k, o, p) ==
    /\ k = 32 => o = Lines(1, 0) /\ p = Waiting
    /\ k \in 33 .. 56 => NextSent(b, k - 33, o, p)
    /\ k \in 57 .. 59 => p = Ordered(b)
    /\ k = 57 => o = Lines(BitsOf(b)[8], 0)
    /\ k = 58 => o = Lines(1, 0)
    /\ k = 59 => o = Lines(1, 1)
    /\ k = 60 => o = Lines(1, 0) /\ p = Idle

(* The bits of the command                                                   *)
LEMMA CommandByte ==
    ASSUME LinesOK, NEW b \in Nat, NEW P, \A j \in 1 .. 24 : P[33 + j] = Clocked(b, j),
           P[33] = "SCL_L", NEW k \in 32 .. 55, Commanding(b, k, out, port), Step(P[k + 1])
    PROVE  Commanding(b, k + 1, out', port') /\ dev' = dev /\ LinesOK'
<1>1. CASE k = 32
  <2>1. out = Lines(1, 0) /\ port = Waiting /\ Step("SCL_L")
    BY <1>1 DEF Commanding
  <2>2. out.sda = 1 /\ out.scl = 0
    BY <2>1, LinesAre
  <2>3. out' = Lines(1, 0) /\ LinesOK' /\ port' = port /\ dev' = dev
    BY <2>1, <2>2, ClockLow
  <2>4. out'.scl = 0
    BY <2>3, LinesAre
  <2>5. NextSent(b, 0, out', port')
    BY <2>1, <2>3, <2>4, SentStart, Zenon DEF NextSent, Waiting
  <2>6. Commanding(b, 33, out', port')
    BY <2>5 DEF Commanding
  <2>7. k + 1 = 33
    BY <1>1
  <2> QED
    BY <2>3, <2>6, <2>7
<1>2. CASE k \in 33 .. 55
  <2> DEFINE j == k - 33
  <2>1. NextSent(b, j, out, port) /\ j \in 0 .. 22 /\ j + 1 \in 1 .. 24 /\ 33 + (j + 1) = k + 1
    BY <1>2 DEF Commanding
  <2>2. Step(Clocked(b, j + 1))
    <3>1. P[33 + (j + 1)] = Clocked(b, j + 1)
      BY <2>1
    <3> QED
      BY <2>1, <3>1
  <2>3. NextSent(b, j + 1, out', port') /\ dev' = dev /\ LinesOK'
    <3> HIDE DEF j
    <3>1. Sent(b, FALSE, j, out, port)
      BY <2>1, Zenon DEF NextSent
    <3>2. Sent(b, FALSE, j + 1, out', port') /\ dev' = dev /\ LinesOK'
      BY <2>1, <2>2, <3>1, SentStep
    <3> QED
      BY <3>2, Zenon DEF NextSent
  <2>4. j + 1 = (k + 1) - 33 /\ k + 1 \in 33 .. 56
    BY <1>2
  <2>5. NextSent(b, (k + 1) - 33, out', port')
    BY <2>3, <2>4
  <2>6. k + 1 # 32 /\ k + 1 \notin 57 .. 59 /\ k + 1 # 60
    BY <1>2
  <2>7. Commanding(b, k + 1, out', port')
    BY <2>4, <2>5, <2>6 DEF Commanding
  <2> QED
    BY <2>3, <2>7
<1> QED
  BY <1>1, <1>2

(* The sensor takes it and starts to measure.                                *)
LEMMA CommandTaken ==
    ASSUME LinesOK, NEW q \in Quantities, NEW P,
           \A j \in 1 .. 24 : P[33 + j] = Clocked(Command[q], j),
           Commanding(Command[q], 56, out, port), Step(P[57])
    PROVE  /\ Commanding(Command[q], 57, out', port') /\ LinesOK'
           /\ dev' = [ busy |-> q, rounds |-> MaxRounds, result |-> None ]
<1> DEFINE b == Command[q]
<1>0. b \in 0 .. 255 /\ b \in Nat
  BY Numbers
<1>1. NextSent(b, 23, out, port) /\ Step(Clocked(b, 24))
  <2>1. P[33 + 24] = Clocked(b, 24) /\ 33 + 24 = 57 /\ 56 - 33 = 23
    OBVIOUS
  <2>2. NextSent(b, 56 - 33, out, port)
    BY DEF Commanding
  <2> QED
    BY <2>1, <2>2
<1>2. /\ out' = Lines(BitsOf(b)[8], 0) /\ LinesOK'
      /\ port = Receive(FALSE, BitsOf(b)) /\ dev' = Felt(port, port')
      /\ port' = IF Accepts(port) THEN Ordered(b) ELSE Idle
  <2> HIDE DEF b
  <2>1. Sent(b, FALSE, 23, out, port)
    BY <1>1, Zenon DEF NextSent
  <2> QED
    BY <1>0, <1>1, <2>1, SentLast, Zenon DEF Ordered
<1>3. port.first = FALSE /\ port.bits = BitsOf(b) /\ port.st = "rx"
  BY <1>2 DEF Receive
<1>4. Accepts(port)
  BY <1>3 DEF Accepts
<1>5. Commanded(port) = {q}
  <2>1. \A x \in Quantities : BitsOf(Command[x]) = BitsOf(b) <=> x = q
    <3> TAKE x \in Quantities
    <3>1. Command[x] \in 0 .. 255
      BY Numbers
    <3>2. BitsOf(Command[x]) = BitsOf(b) => Command[x] = b
      BY <1>0, <3>1, BitsOfOne
    <3>3. Command[x] = b => x = q
      BY Sht20Assumption
    <3> QED
      BY <3>2, <3>3
  <2> QED
    BY <1>3, <2>1 DEF Commanded
<1>6. port' = Ordered(b) /\ port'.st = "rxack"
  BY <1>2, <1>4 DEF Ordered, Acknowledge
<1>7. dev' = [ busy |-> q, rounds |-> MaxRounds, result |-> None ]
  <2> DEFINE m == CHOOSE x \in Quantities : x \in Commanded(port)
  <2>1. m = q
    BY <1>5
  <2>2. Felt(port, port') = [ busy |-> m, rounds |-> MaxRounds, result |-> None ]
    BY <1>3, <1>5, <1>6 DEF Felt
  <2> HIDE DEF m
  <2> QED
    BY <1>2, <2>1, <2>2
<1>8. Commanding(b, 57, out', port')
  <2> DEFINE k == 57
  <2>1. k \in 57 .. 59 /\ k = 57 /\ k # 32 /\ k \notin 33 .. 56 /\ k # 58 /\ k # 59 /\ k # 60
    OBVIOUS
  <2> HIDE DEF b, k
  <2>2. Commanding(b, k, out', port')
    BY <1>2, <1>6, <2>1 DEF Commanding
  <2> QED
    BY <2>2 DEF k
<1> QED
  BY <1>2, <1>7, <1>8

(* The clock for its acknowledgement                                         *)
LEMMA CommandEnd ==
    ASSUME LinesOK, NEW b \in Nat, NEW P, Asks(P, 57), NEW k \in 57 .. 58,
           Commanding(b, k, out, port), Step(P[k + 1])
    PROVE  Commanding(b, k + 1, out', port') /\ dev' = dev /\ LinesOK'
<1>0. P[58] = "SDA_H" /\ P[59] = "SCL_H"
  BY DEF Asks
<1>1. CASE k = 57
  <2>1. out = Lines(BitsOf(b)[8], 0) /\ Step("SDA_H") /\ port = Ordered(b)
    BY <1>0, <1>1 DEF Commanding
  <2>2. out.scl = 0
    BY <2>1, LinesAre
  <2>3. out' = Lines(1, 0) /\ LinesOK' /\ dev' = dev /\ port' = port
    BY <2>1, <2>2, DataHigh
  <2>4. Commanding(b, 58, out', port')
    BY <2>1, <2>3 DEF Commanding
  <2>5. k + 1 = 58
    BY <1>1
  <2> QED
    BY <2>3, <2>4, <2>5
<1>2. CASE k = 58
  <2>1. out = Lines(1, 0) /\ Step("SCL_H") /\ port = Ordered(b)
    BY <1>0, <1>2 DEF Commanding
  <2>2. out.scl = 0 /\ out.sda = 1
    BY <2>1, LinesAre
  <2>3. out' = Lines(1, 1) /\ LinesOK' /\ dev' = dev /\ port' = Rise(port, Sda(out', port))
    BY <2>1, <2>2, ClockHigh
  <2>4. port' = port
    BY <2>1, <2>3, Rising
  <2>5. Commanding(b, 59, out', port')
    BY <2>1, <2>3, <2>4 DEF Commanding
  <2>6. k + 1 = 59
    BY <1>2
  <2> QED
    BY <2>3, <2>4, <2>5, <2>6
<1> QED
  BY <1>1, <1>2

-----------------------------------------------------------------------------
(* Bits that are still to go out: all of F but the first n                   *)

Left(F, n) == SubSeq(F, n + 1, Len(F))

(* The bits that are left of a reading, one on                               *)
LEMMA LeftStep ==
    ASSUME NEW F \in Seq(Bit), Len(F) = 24, NEW n \in 0 .. 23
    PROVE  /\ Left(F, n) \in Seq(Bit) /\ Len(Left(F, n)) = 24 - n /\ Left(F, n) # <<>>
           /\ Head(Left(F, n)) = F[n + 1] /\ F[n + 1] \in Bit
           /\ Tail(Left(F, n)) = Left(F, n + 1) /\ Left(F, 0) = F /\ Left(F, 24) = <<>>
<1>1. n + 1 \in 1 .. Len(F) /\ Len(F) \in n + 1 .. Len(F)
  OBVIOUS
<1>2. Head(Left(F, n)) = F[n + 1] /\ Tail(Left(F, n)) = Left(F, n + 1)
  BY <1>1, HeadTailOfSubSeq DEF Left
<1>3. \A i \in n + 1 .. Len(F) : F[i] \in Bit
  <2>1. \A i \in 1 .. Len(F) : F[i] \in Bit
    BY ElementOfSeq
  <2>2. \A i \in n + 1 .. Len(F) : i \in 1 .. Len(F)
    OBVIOUS
  <2> QED
    BY <2>1, <2>2
<1>4. Left(F, n) \in Seq(Bit) /\ Len(Left(F, n)) = 24 - n
  <2> DEFINE a == n + 1
             z == Len(F)
  <2>1. a \in Int /\ z \in Int /\ a <= z /\ z - a + 1 = 24 - n
    OBVIOUS
  <2>2. \A i \in a .. z : F[i] \in Bit
    BY <1>3
  <2>3. Left(F, n) = SubSeq(F, a, z)
    BY DEF Left
  <2> HIDE DEF a, z
  <2>4. /\ SubSeq(F, a, z) \in Seq(Bit)
        /\ Len(SubSeq(F, a, z)) = IF a <= z THEN z - a + 1 ELSE 0
    BY <2>1, <2>2, SubSeqProperties
  <2> QED
    BY <2>1, <2>3, <2>4
<1>5. Left(F, n) # <<>>
  BY <1>4, EmptySeq
<1>6. Left(F, 0) = F
  BY SubSeqFull DEF Left
<1>7. Left(F, 24) = <<>>
  BY SubSeqEmpty DEF Left
<1> QED
  BY <1>1, <1>2, <1>3, <1>4, <1>5, <1>6, <1>7

(* One bit less                                                              *)
LEMMA TailIs ==
    ASSUME NEW s \in Seq(Bit), Len(s) > 0
    PROVE  Tail(s) \in Seq(Bit) /\ Len(Tail(s)) = Len(s) - 1
  OBVIOUS

-----------------------------------------------------------------------------
(* A sensor that has given its result away and that the master's START does  *)
(* not reach: it sends while the master does.                                *)

Sending(p, n) == \E s \in Seq(Bit) : p = Send(s) /\ Len(s) = n
Awaiting(p, n) == \E s \in Seq(Bit) : p = Await(s) /\ Len(s) = n

Missed(k, o, p) ==
    /\ k \in 0 .. 3 => p = Addressed(ToRead)
    /\ k \in 0 .. 1 => o = Lines(1, 0)
    /\ k = 2 => o = Lines(1, 1)
    /\ k = 3 => o = Lines(0, 1)
    /\ k = 4 => o = Lines(0, 0) /\ Sending(p, 24)
    /\ k \in 5 .. 28 => o.scl = (IF k % 3 = 1 THEN 1 ELSE 0) /\ Sending(p, 25 - (k - 2) \div 3)
    /\ k \in 29 .. 30 => o.scl = 0 /\ Awaiting(p, 16)
    /\ k = 30 => o.sda = 1
    /\ k = 31 => o = Lines(1, 1) /\ p = Idle

(* As it is left alone: what rises does not touch it, what falls takes a bit *)
LEMMA SendingOn ==
    ASSUME NEW n \in 1 .. 24, Sending(port, n)
    PROVE  /\ \A x : Rise(port, x) = port
           /\ Felt(port, Fall(port)) = dev
           /\ (n - 1) % 8 # 0 => Sending(Fall(port), n - 1)
           /\ (n - 1) % 8 = 0 => Awaiting(Fall(port), n - 1)
<1>1. PICK s \in Seq(Bit) : port = Send(s) /\ Len(s) = n
  BY DEF Sending
<1>2. \A x : Rise(port, x) = port
  BY <1>1, Risen
<1>3. Felt(port, Fall(port)) = dev
  BY <1>1, FallSend
<1>4. Tail(s) \in Seq(Bit) /\ Len(Tail(s)) = n - 1
  BY <1>1, TailIs
<1> DEFINE x == (n - 1) % 8
<1>5. Fall(port) = IF x = 0 THEN Await(Tail(s)) ELSE Send(Tail(s))
  BY <1>1, FallSend, Zenon
<1> HIDE DEF x
<1>6. x # 0 => Sending(Fall(port), n - 1)
  BY <1>4, <1>5 DEF Sending
<1>7. x = 0 => Awaiting(Fall(port), n - 1)
  BY <1>4, <1>5 DEF Awaiting
<1> QED
  BY <1>2, <1>3, <1>6, <1>7 DEF x

(* The sensor sends before the START is over.                                *)
LEMMA MissedStart ==
    ASSUME LinesOK, NEW b, NEW P, Addresses(P, b), NEW k \in 0 .. 4,
           Missed(k, out, port), Step(P[k + 1]), k = 3 => dev.result \in Results
    PROVE  /\ Missed(k + 1, out', port') /\ LinesOK'
           /\ dev' = IF k = 3 THEN [ dev EXCEPT !.result = None ] ELSE dev
<1>0. /\ P[1] = "SDA_H" /\ P[2] = "SCL_H" /\ P[3] = "SDA_L" /\ P[4] = "SCL_L" /\ P[5] = "SCL_L"
  BY DEF Addresses
<1>1. CASE k = 0
  <2>1. out = Lines(1, 0) /\ Step("SDA_H") /\ port = Addressed(ToRead)
    BY <1>0, <1>1 DEF Missed
  <2>2. out.scl = 0
    BY <2>1, LinesAre
  <2>3. out' = Lines(1, 0) /\ LinesOK' /\ dev' = dev /\ port' = port
    BY <2>1, <2>2, DataHigh
  <2> QED
    BY <1>1, <2>1, <2>3 DEF Missed
<1>2. CASE k = 1
  <2>1. out = Lines(1, 0) /\ Step("SCL_H") /\ port = Addressed(ToRead)
    BY <1>0, <1>2 DEF Missed
  <2>2. out.sda = 1 /\ out.scl = 0
    BY <2>1, LinesAre
  <2>3. out' = Lines(1, 1) /\ LinesOK' /\ dev' = dev /\ port' = Rise(port, Sda(out', port))
    BY <2>1, <2>2, ClockHigh
  <2>4. port' = port
    BY <2>1, <2>3, Rising
  <2> QED
    BY <1>2, <2>1, <2>3, <2>4 DEF Missed
<1>3. CASE k = 2
  <2>1. out = Lines(1, 1) /\ Step("SDA_L") /\ port = Addressed(ToRead)
    BY <1>0, <1>3 DEF Missed
  <2>2. out.sda = 1 /\ out.scl = 1 /\ port.pull
    BY <2>1, LinesAre, Pulls
  <2>3. out' = Lines(0, 1) /\ LinesOK' /\ dev' = dev /\ port' = port
    BY <2>1, <2>2, DataLow
  <2> QED
    BY <1>3, <2>1, <2>3 DEF Missed
<1>4. CASE k = 3
  <2>1. out = Lines(0, 1) /\ Step("SCL_L") /\ port = Addressed(ToRead)
    BY <1>0, <1>4 DEF Missed
  <2>2. out.sda = 0 /\ out.scl = 1
    BY <2>1, LinesAre
  <2>3. out' = Lines(0, 0) /\ LinesOK' /\ port' = Fall(port) /\ dev' = Felt(port, port')
    BY <2>1, <2>2, ClockLow
  <2>4. port' = Send(Flat(dev.result)) /\ dev' = [ dev EXCEPT !.result = None ]
    BY <2>1, <2>3, Falling
  <2>5. Sending(port', 24)
    BY <1>4, <2>4, FlatType DEF Sending
  <2> QED
    BY <1>4, <2>3, <2>4, <2>5 DEF Missed
<1>5. CASE k = 4
  <2>1. out = Lines(0, 0) /\ Step("SCL_L") /\ Sending(port, 24)
    BY <1>0, <1>5 DEF Missed
  <2>2. out.sda = 0 /\ out.scl = 0
    BY <2>1, LinesAre
  <2>3. out' = Lines(0, 0) /\ LinesOK' /\ port' = port /\ dev' = dev
    BY <2>1, <2>2, ClockLow
  <2>4. out'.scl = 0
    BY <2>3, LinesAre
  <2> DEFINE m == 5
  <2>5. m % 3 # 1 /\ 25 - (m - 2) \div 3 = 24 /\ m \in 5 .. 28
    OBVIOUS
  <2>6. k + 1 = m
    BY <1>5
  <2> HIDE DEF m
  <2>7. Missed(m, out', port')
    BY <2>1, <2>3, <2>4, <2>5 DEF Missed
  <2> QED
    BY <1>5, <2>3, <2>6, <2>7
<1> QED
  BY <1>1, <1>2, <1>3, <1>4, <1>5

(* The clocks of the address take bits from it.                              *)
LEMMA MissedByte ==
    ASSUME LinesOK, NEW b \in Nat, NEW P, Addresses(P, b), NEW k \in 5 .. 28,
           Missed(k, out, port), Step(P[k + 1])
    PROVE  Missed(k + 1, out', port') /\ LinesOK' /\ dev' = dev
<1> DEFINE m == (k - 2) \div 3
           r == (k - 2) % 3
           n == 25 - m
<1>1. k - 2 = 3 * m + r /\ r \in 0 .. 2 /\ m \in 1 .. 8 /\ n \in 17 .. 24
  OBVIOUS
<1>2. /\ out.scl = (IF k % 3 = 1 THEN 1 ELSE 0) /\ Sending(port, n)
  BY DEF Missed
<1>3. P[k + 1] = Clocked(b, k - 4) /\ k - 4 \in 1 .. 24
  <2>1. k - 4 \in 1 .. 24 /\ 5 + (k - 4) = k + 1
    OBVIOUS
  <2> QED
    BY <2>1 DEF Addresses
<1>4. /\ k % 3 = 1 <=> r = 2
      /\ (k - 4) % 3 = 1 <=> r = 0
      /\ (k - 4) % 3 = 2 <=> r = 1
      /\ (k - 4) % 3 = 0 <=> r = 2
      /\ (k + 1) % 3 = 1 <=> r = 1
  BY <1>1
<1>5. CASE r = 0
  <2>1. Step("SDA_H") \/ Step("SDA_L")
    BY <1>3, <1>4, <1>5 DEF Clocked
  <2>2. out.scl = 0
    BY <1>2, <1>4, <1>5
  <2>3. out'.scl = 0 /\ LinesOK' /\ dev' = dev /\ port' = port
    <3>1. CASE Step("SDA_H")
      BY <2>2, <3>1, DataHigh, LinesAre
    <3>2. CASE Step("SDA_L")
      BY <2>2, <3>2, DataLow, LinesAre
    <3> QED
      BY <2>1, <3>1, <3>2
  <2>4. k + 1 \in 5 .. 28 /\ (k + 1) % 3 # 1 /\ 25 - ((k + 1) - 2) \div 3 = n
    BY <1>1, <1>4, <1>5
  <2> HIDE DEF m, n, r
  <2>5. Missed(k + 1, out', port')
    BY <1>2, <2>3, <2>4 DEF Missed
  <2> QED
    BY <2>3, <2>5
<1>6. CASE r = 1
  <2>1. Step("SCL_H")
    BY <1>3, <1>4, <1>6 DEF Clocked
  <2>2. out.scl = 0
    BY <1>2, <1>4, <1>6
  <2>3. out'.scl = 1 /\ LinesOK' /\ dev' = dev /\ port' = Rise(port, Sda(out', port))
    BY <2>1, <2>2, ClockHigh, LinesAre
  <2>4. n \in 1 .. 24
    BY <1>1
  <2>5. k + 1 \in 5 .. 28 /\ (k + 1) % 3 = 1 /\ 25 - ((k + 1) - 2) \div 3 = n
    BY <1>1, <1>4, <1>6
  <2> HIDE DEF m, n, r
  <2>6. port' = port
    BY <1>2, <2>3, <2>4, SendingOn
  <2>7. Missed(k + 1, out', port')
    BY <1>2, <2>3, <2>5, <2>6 DEF Missed
  <2> QED
    BY <2>3, <2>7
<1>7. CASE r = 2
  <2>1. Step("SCL_L")
    BY <1>3, <1>4, <1>7 DEF Clocked
  <2>2. out.scl = 1
    BY <1>2, <1>4, <1>7
  <2>3. out'.scl = 0 /\ LinesOK' /\ dev' = Felt(port, port') /\ port' = Fall(port)
    BY <2>1, <2>2, ClockLow, LinesAre
  <2>4. n \in 1 .. 24
    BY <1>1
  <2>5. CASE k < 28
    <3>1. k + 1 \in 5 .. 28 /\ (k + 1) % 3 # 1 /\ 25 - ((k + 1) - 2) \div 3 = n - 1 /\ (n - 1) % 8 # 0
      BY <1>1, <1>4, <1>7, <2>5
    <3> HIDE DEF m, n, r
    <3>2. Sending(port', n - 1) /\ dev' = dev
      BY <1>2, <2>3, <2>4, <3>1, SendingOn
    <3>3. Missed(k + 1, out', port')
      BY <2>3, <3>1, <3>2 DEF Missed
    <3> QED
      BY <2>3, <3>2, <3>3
  <2>6. CASE k = 28
    <3>1. k + 1 = 29 /\ n - 1 = 16 /\ (n - 1) % 8 = 0
      BY <1>1, <2>6
    <3> HIDE DEF m, n, r
    <3>2. Awaiting(port', n - 1) /\ dev' = dev
      BY <1>2, <2>3, <2>4, <3>1, SendingOn
    <3>3. Missed(29, out', port')
      BY <2>3, <3>1, <3>2 DEF Missed
    <3> QED
      BY <2>3, <3>1, <3>2, <3>3
  <2> QED
    BY <2>5, <2>6
<1> QED
  BY <1>1, <1>5, <1>6, <1>7

(* Nobody acknowledges what it sent: it goes off the bus.                    *)
LEMMA MissedEnd ==
    ASSUME LinesOK, NEW P, Asks(P, 29), NEW k \in 29 .. 30,
           Missed(k, out, port), Step(P[k + 1])
    PROVE  Missed(k + 1, out', port') /\ LinesOK' /\ dev' = dev
<1>0. P[30] = "SDA_H" /\ P[31] = "SCL_H"
  BY DEF Asks
<1>1. CASE k = 29
  <2>1. out.scl = 0 /\ Step("SDA_H") /\ Awaiting(port, 16)
    BY <1>0, <1>1 DEF Missed
  <2>2. out' = Lines(1, 0) /\ LinesOK' /\ dev' = dev /\ port' = port
    BY <2>1, DataHigh
  <2>3. out'.sda = 1 /\ out'.scl = 0
    BY <2>2, LinesAre
  <2>4. Missed(30, out', port')
    BY <2>1, <2>2, <2>3 DEF Missed
  <2>5. k + 1 = 30
    BY <1>1
  <2> QED
    BY <2>2, <2>4, <2>5
<1>2. CASE k = 30
  <2>1. out.scl = 0 /\ out.sda = 1 /\ Step("SCL_H") /\ Awaiting(port, 16)
    BY <1>0, <1>2 DEF Missed
  <2>2. out' = Lines(1, 1) /\ LinesOK' /\ dev' = dev /\ port' = Rise(port, Sda(out', port))
    BY <2>1, ClockHigh
  <2>3. PICK s \in Seq(Bit) : port = Await(s)
    BY <2>1 DEF Awaiting
  <2>4. Sda(out', port) = 1
    BY <2>2, <2>3, LinesAre, Pulls DEF Sda
  <2>5. port' = Idle
    BY <2>2, <2>3, <2>4, Risen
  <2>6. Missed(31, out', port')
    BY <2>2, <2>5 DEF Missed
  <2>7. k + 1 = 31
    BY <1>2
  <2> QED
    BY <2>2, <2>6, <2>7
<1> QED
  BY <1>1, <1>2

-----------------------------------------------------------------------------
(* Byte i of three comes in; c of its 29 operations are done                 *)

Byte(F, i, c, o, p) ==
    /\ c = 0 => o.scl = 0 /\ p = Send(Left(F, 8 * i))
    /\ c = 1 => o = Lines(1, 0) /\ p = Send(Left(F, 8 * i))
    /\ c \in 2 .. 25 => /\ o = Lines(1, IF c % 3 = 2 THEN 0 ELSE 1)
                        /\ p = Send(Left(F, 8 * i + (c - 2) \div 3))
    /\ c = 26 => o = Lines(1, 0) /\ p = Await(Left(F, 8 * i + 8))
    /\ c = 27 => o = Lines(IF i = 2 THEN 1 ELSE 0, 0) /\ p = Await(Left(F, 8 * i + 8))
    /\ c = 28 /\ i < 2 => o = Lines(0, 1) /\ p = Await(Left(F, 8 * i + 8))
    /\ c = 28 /\ i = 2 => o = Lines(1, 1) /\ p = Idle
Got(i, c) ==
    IF c = 0 THEN 8 * i ELSE IF c \in 1 .. 25 THEN 8 * i + (c - 1) \div 3 ELSE 8 * i + 8
(* ... and the STOP                                                          *)
Ending(k, o, p) ==
    /\ p = Idle
    /\ k = 87 => o = Lines(1, 0)
    /\ k \in 88 .. 89 => o = Lines(0, 0)
    /\ k = 90 => o = Lines(0, 1)
    /\ k = 91 => o = Lines(1, 1)

(* A reading goes out bit by bit.                                            *)
LEMMA SendLeft ==
    ASSUME NEW F \in Seq(Bit), Len(F) = 24, NEW n \in 0 .. 23, port = Send(Left(F, n))
    PROVE  /\ \A x : Rise(port, x) = port
           /\ Felt(port, Fall(port)) = dev
           /\ n % 8 # 7 => Fall(port) = Send(Left(F, n + 1))
           /\ n % 8 = 7 => Fall(port) = Await(Left(F, n + 1))
<1> DEFINE s == Left(F, n)
           x == (Len(s) - 1) % 8
<1>1. Len(s) = 24 - n /\ Tail(s) = Left(F, n + 1)
  BY LeftStep
<1>2. x = 0 <=> n % 8 = 7
  <2>1. (24 - n - 1) % 8 = 0 <=> n % 8 = 7
    OBVIOUS
  <2> QED
    BY <1>1, <2>1
<1>3. Fall(port) = IF x = 0 THEN Await(Tail(s)) ELSE Send(Tail(s))
  BY FallSend, Zenon
<1>4. (\A y : Rise(port, y) = port) /\ Felt(port, Fall(port)) = dev
  BY Risen, FallSend, Zenon
<1> HIDE DEF x, s
<1> QED
  BY <1>1, <1>2, <1>3, <1>4

(* The sensor and the master agree on every operation.                       *)
LEMMA ByteStart ==
    ASSUME LinesOK, NEW F \in Seq(Bit), Len(F) = 24, NEW i \in 0 .. 2, NEW c \in 0 .. 1,
           Byte(F, i, c, out, port), Step(Reading(i, c))
    PROVE  LinesOK' /\ dev' = dev /\ Byte(F, i, c + 1, out', port')
<1>1. CASE c = 0
  <2>1. out.scl = 0 /\ port = Send(Left(F, 8 * i)) /\ Step("SDA_H")
    BY <1>1 DEF Byte, Reading
  <2>2. out' = Lines(1, 0) /\ LinesOK' /\ dev' = dev /\ port' = port
    BY <2>1, DataHigh
  <2> QED
    BY <1>1, <2>1, <2>2 DEF Byte
<1>2. CASE c = 1
  <2>1. out = Lines(1, 0) /\ port = Send(Left(F, 8 * i))
    BY <1>2 DEF Byte
  <2>2. Step("SCL_L")
    BY <1>2 DEF Reading
  <2>3. out.sda = 1 /\ out.scl = 0
    BY <2>1, LinesAre
  <2>4. out' = Lines(1, 0) /\ LinesOK' /\ dev' = dev /\ port' = port
    BY <2>2, <2>3, ClockLow
  <2> DEFINE m == 2
             h == 8 * i
  <2>5. m % 3 = 2 /\ h + (m - 2) \div 3 = h /\ m = c + 1
    BY <1>2
  <2>a. m \in 2 .. 25 /\ m # 0 /\ m # 1 /\ m \notin 26 .. 28
    OBVIOUS
  <2>6. port' = Send(Left(F, h + (m - 2) \div 3))
    BY <2>1, <2>4, <2>5
  <2>7. out' = Lines(1, IF m % 3 = 2 THEN 0 ELSE 1)
    BY <2>4, <2>5
  <2> HIDE DEF m
  <2>8. Byte(F, i, m, out', port')
    BY <2>6, <2>7, <2>a DEF Byte
  <2> QED
    BY <2>4, <2>5, <2>8
<1> QED
  BY <1>1, <1>2

(* The 24 operations that sample a byte                                      *)
LEMMA ByteBits ==
    ASSUME LinesOK, NEW F \in Seq(Bit), Len(F) = 24, NEW i \in 0 .. 2, NEW c \in 2 .. 24,
           c % 3 # 0, Byte(F, i, c, out, port), Step(Reading(i, c))
    PROVE  LinesOK' /\ dev' = dev /\ Byte(F, i, c + 1, out', port')
<1> DEFINE m == (c - 2) \div 3
           n == 8 * i + m
<1>1. n \in 0 .. 23 /\ m \in 0 .. 7 /\ n % 8 = m
  OBVIOUS
<1>2. out = Lines(1, IF c % 3 = 2 THEN 0 ELSE 1) /\ port = Send(Left(F, n))
  BY DEF Byte
<1>3. CASE c % 3 = 2
  <2>1. Step("SCL_H")
    BY <1>3 DEF Reading
  <2>2. out.sda = 1 /\ out.scl = 0
    BY <1>2, <1>3, LinesAre
  <2>3. out' = Lines(1, 1) /\ LinesOK' /\ dev' = dev /\ port' = Rise(port, Sda(out', port))
    BY <2>1, <2>2, ClockHigh
  <2>4. (c + 1) % 3 # 2 /\ 8 * i + ((c + 1) - 2) \div 3 = n /\ c + 1 \in 2 .. 25
    BY <1>3
  <2> HIDE DEF n, m
  <2>5. port' = port
    BY <1>1, <1>2, <2>3, SendLeft
  <2>6. Byte(F, i, c + 1, out', port')
    BY <1>2, <2>3, <2>4, <2>5 DEF Byte
  <2> QED
    BY <2>3, <2>6
<1>4. CASE c % 3 = 1
  <2>1. Step("SCL_L")
    BY <1>4 DEF Reading
  <2>2. out.sda = 1 /\ out.scl = 1
    BY <1>2, <1>4, LinesAre
  <2>3. out' = Lines(1, 0) /\ LinesOK' /\ dev' = Felt(port, port') /\ port' = Fall(port)
    BY <2>1, <2>2, ClockLow
  <2>4. (c + 1) % 3 = 2 /\ 8 * i + ((c + 1) - 2) \div 3 = n + 1 /\ c + 1 \in 2 .. 25 /\ n % 8 # 7
    BY <1>1, <1>4
  <2> HIDE DEF n, m
  <2>5. port' = Send(Left(F, n + 1)) /\ dev' = dev
    BY <1>1, <1>2, <2>3, <2>4, SendLeft
  <2>6. Byte(F, i, c + 1, out', port')
    BY <2>3, <2>4, <2>5 DEF Byte
  <2> QED
    BY <2>3, <2>5, <2>6
<1> QED
  BY <1>3, <1>4

(* Its acknowledgement, or the refusal after the last one                    *)
LEMMA ByteEnd ==
    ASSUME LinesOK, NEW F \in Seq(Bit), Len(F) = 24, NEW i \in 0 .. 2, NEW c \in 25 .. 28,
           Byte(F, i, c, out, port), Step(Reading(i, c))
    PROVE  /\ LinesOK' /\ dev' = dev
           /\ c < 28 => Byte(F, i, c + 1, out', port')
           /\ c = 28 /\ i < 2 => Byte(F, i + 1, 0, out', port')
           /\ c = 28 /\ i = 2 => Ending(87, out', port')
<1> DEFINE n == 8 * i + 8
<1>0. /\ c = 25 => Reading(i, c) = "SCL_L"
      /\ c = 26 => Reading(i, c) = IF i = 2 THEN "SDA_H" ELSE "SDA_L"
      /\ c = 27 => Reading(i, c) = "SCL_H"
      /\ c = 28 => Reading(i, c) = "SCL_L"
  BY DEF Reading
<1>1. CASE c = 25
  <2> DEFINE m == 8 * i + 7
  <2>1. c % 3 # 2 /\ 8 * i + (c - 2) \div 3 = m /\ c \in 2 .. 25 /\ m \in 0 .. 23 /\ m % 8 = 7 /\ m + 1 = n
    BY <1>1
  <2> HIDE DEF m, n
  <2>2. out = Lines(1, 1) /\ port = Send(Left(F, m)) /\ Step("SCL_L")
    BY <1>0, <1>1, <2>1 DEF Byte
  <2>3. out.sda = 1 /\ out.scl = 1
    BY <2>2, LinesAre
  <2>4. out' = Lines(1, 0) /\ LinesOK' /\ dev' = Felt(port, port') /\ port' = Fall(port)
    BY <2>2, <2>3, ClockLow
  <2>5. port' = Await(Left(F, n)) /\ dev' = dev
    BY <2>1, <2>2, <2>4, SendLeft
  <2>6. Byte(F, i, 26, out', port')
    BY <2>4, <2>5 DEF Byte, n
  <2>7. c + 1 = 26
    BY <1>1
  <2> QED
    BY <1>1, <2>4, <2>5, <2>6, <2>7
<1>2. CASE c = 26
  <2>1. out = Lines(1, 0) /\ port = Await(Left(F, n))
    BY <1>2 DEF Byte
  <2>2. Step(IF i = 2 THEN "SDA_H" ELSE "SDA_L")
    BY <1>0, <1>2
  <2>3. out.sda = 1 /\ out.scl = 0
    BY <2>1, LinesAre
  <2>4. out' = Lines(IF i = 2 THEN 1 ELSE 0, 0) /\ LinesOK' /\ dev' = dev /\ port' = port
    <3>1. CASE i = 2
      BY <2>2, <2>3, <3>1, DataHigh
    <3>2. CASE i # 2
      BY <2>2, <2>3, <3>2, DataLow
    <3> QED
      BY <3>1, <3>2
  <2>5. Byte(F, i, 27, out', port')
    BY <2>1, <2>4 DEF Byte
  <2>6. c + 1 = 27
    BY <1>2
  <2> QED
    BY <1>2, <2>4, <2>5, <2>6
<1>3. CASE c = 27
  <2>1. out = Lines(IF i = 2 THEN 1 ELSE 0, 0) /\ port = Await(Left(F, n)) /\ Step("SCL_H")
    BY <1>0, <1>3 DEF Byte
  <2>2. out.sda = (IF i = 2 THEN 1 ELSE 0) /\ out.scl = 0 /\ ~port.pull
    BY <2>1, LinesAre, Pulls
  <2>3. out' = Lines(IF i = 2 THEN 1 ELSE 0, 1) /\ LinesOK' /\ dev' = dev /\ port' = Rise(port, Sda(out', port))
    BY <2>1, <2>2, ClockHigh
  <2>4. Sda(out', port) = IF i = 2 THEN 1 ELSE 0
    BY <2>2, <2>3, LinesAre DEF Sda
  <2>5. port' = IF i = 2 THEN Idle ELSE port
    <3> DEFINE y == Sda(out', port)
               s == Left(F, n)
    <3> HIDE DEF y, s
    <3>1. Rise(Await(s), y) = IF y = 1 THEN Idle ELSE Await(s)
      BY Risen
    <3> QED
      BY <2>1, <2>3, <2>4, <3>1 DEF y, s
  <2>6. Byte(F, i, 28, out', port')
    BY <2>1, <2>3, <2>5 DEF Byte
  <2>7. c + 1 = 28
    BY <1>3
  <2> QED
    BY <1>3, <2>3, <2>6, <2>7
<1>4. CASE c = 28 /\ i < 2
  <2>1. out = Lines(0, 1) /\ port = Await(Left(F, n)) /\ Step("SCL_L")
    BY <1>0, <1>4 DEF Byte
  <2>2. out.sda = 0 /\ out.scl = 1
    BY <2>1, LinesAre
  <2>3. out' = Lines(0, 0) /\ LinesOK' /\ dev' = Felt(port, port') /\ port' = Fall(port)
    BY <2>1, <2>2, ClockLow
  <2>4. Left(F, n) # <<>>
    <3>1. n \in 0 .. 23
      BY <1>4
    <3> HIDE DEF n
    <3> QED
      BY <3>1, LeftStep
  <2>5. port' = Send(Left(F, n)) /\ dev' = dev
    BY <2>1, <2>3, <2>4, FallTxAck
  <2>6. 8 * (i + 1) = n /\ out'.scl = 0
    BY <2>3, LinesAre
  <2>7. Byte(F, i + 1, 0, out', port')
    BY <2>5, <2>6 DEF Byte
  <2> QED
    BY <1>4, <2>3, <2>5, <2>7
<1>5. CASE c = 28 /\ i = 2
  <2>1. out = Lines(1, 1) /\ port = Idle /\ Step("SCL_L")
    BY <1>0, <1>5 DEF Byte
  <2>2. out.sda = 1 /\ out.scl = 1
    BY <2>1, LinesAre
  <2>3. out' = Lines(1, 0) /\ LinesOK' /\ dev' = Felt(port, port') /\ port' = Fall(port)
    BY <2>1, <2>2, ClockLow
  <2>4. port' = Idle /\ dev' = dev
    BY <2>1, <2>3, Falling
  <2>5. Ending(87, out', port')
    BY <2>3, <2>4 DEF Ending
  <2> QED
    BY <1>5, <2>3, <2>4, <2>5
<1> QED
  BY <1>1, <1>2, <1>3, <1>4, <1>5

(* The STOP after the last byte                                              *)
LEMMA EndingStep ==
    ASSUME LinesOK, NEW k \in 87 .. 90, Ending(k, out, port), Step(ReadThree[k + 1])
    PROVE  LinesOK' /\ dev' = dev /\ Ending(k + 1, out', port')
<1>0. /\ ReadThree[88] = "SDA_L" /\ ReadThree[89] = "SCL_L"
      /\ ReadThree[90] = "SCL_H" /\ ReadThree[91] = "SDA_H"
  BY ReadThreeAt
<1>a. port = Idle /\ ~port.pull
  BY Pulls DEF Ending
<1>1. CASE k = 87
  <2>1. out = Lines(1, 0) /\ Step("SDA_L")
    BY <1>0, <1>1 DEF Ending
  <2>2. out.scl = 0
    BY <2>1, LinesAre
  <2>3. out' = Lines(0, 0) /\ LinesOK' /\ dev' = dev /\ port' = port
    BY <2>1, <2>2, DataLow
  <2> QED
    BY <1>1, <1>a, <2>3 DEF Ending
<1>2. CASE k = 88
  <2>1. out = Lines(0, 0) /\ Step("SCL_L")
    BY <1>0, <1>2 DEF Ending
  <2>2. out.sda = 0 /\ out.scl = 0
    BY <2>1, LinesAre
  <2>3. out' = Lines(0, 0) /\ LinesOK' /\ dev' = dev /\ port' = port
    BY <2>1, <2>2, ClockLow
  <2> QED
    BY <1>2, <1>a, <2>3 DEF Ending
<1>3. CASE k = 89
  <2>1. out = Lines(0, 0) /\ Step("SCL_H")
    BY <1>0, <1>3 DEF Ending
  <2>2. out.sda = 0 /\ out.scl = 0
    BY <2>1, LinesAre
  <2>3. out' = Lines(0, 1) /\ LinesOK' /\ dev' = dev /\ port' = Rise(port, Sda(out', port))
    BY <2>1, <2>2, ClockHigh
  <2>4. port' = Idle
    BY <1>a, <2>3, Rising
  <2> QED
    BY <1>3, <2>3, <2>4 DEF Ending
<1>4. CASE k = 90
  <2>1. out = Lines(0, 1) /\ Step("SDA_H")
    BY <1>0, <1>4 DEF Ending
  <2>2. out.sda = 0 /\ out.scl = 1
    BY <2>1, LinesAre
  <2>3. out' = Lines(1, 1) /\ LinesOK' /\ dev' = dev /\ port' = Idle
    BY <1>a, <2>1, <2>2, DataHigh
  <2> QED
    BY <1>4, <2>3 DEF Ending
<1> QED
  BY <1>1, <1>2, <1>3, <1>4

(* A data bit is looked at while the clock is high.                          *)
LEMMA SampleBit ==
    ASSUME NEW F \in Seq(Bit), Len(F) = 24, NEW i \in 0 .. 2, NEW c \in 1 .. 24, c % 3 = 0,
           Byte(F, i, c, out, port)
    PROVE  /\ Byte(F, i, c + 1, out, port)
           /\ Got(i, c) \in 0 .. 23 /\ Sda(out, port) = F[Got(i, c) + 1]
<1> DEFINE n == 8 * i + (c - 2) \div 3
<1>1. /\ n \in 0 .. 23 /\ c \in 2 .. 25 /\ c + 1 \in 2 .. 25 /\ (c + 1) % 3 # 2
      /\ 8 * i + ((c + 1) - 2) \div 3 = n
  OBVIOUS
<1>2. Got(i, c) = n
  BY DEF Got
<1> HIDE DEF n
<1>3. out = Lines(1, 1) /\ port = Send(Left(F, n))
  BY <1>1 DEF Byte, n
<1>4. Byte(F, i, c + 1, out, port)
  BY <1>1, <1>3 DEF Byte
<1>5. Sda(out, port) = F[n + 1]
  <2> DEFINE s == Left(F, n)
  <2>1. s # <<>> /\ Head(s) = F[n + 1] /\ F[n + 1] \in {0, 1}
    BY <1>1, LeftStep DEF Bit
  <2> HIDE DEF s
  <2>2. port.pull = (s # <<>> /\ Head(s) = 0) /\ out.sda = 1
    BY <1>3, LinesAre DEF Send, s
  <2> QED
    BY <2>1, <2>2 DEF Sda
<1> QED
  BY <1>1, <1>2, <1>4, <1>5

(* How many bits are in                                                      *)
LEMMA GotOn ==
    ASSUME NEW i \in 0 .. 2, NEW c \in 0 .. 28
    PROVE  /\ Got(i, c) \in 0 .. 24
           /\ c \in 1 .. 24 /\ c % 3 = 0 => Got(i, c + 1) = Got(i, c) + 1
           /\ c < 28 /\ ~(c \in 1 .. 24 /\ c % 3 = 0) => Got(i, c + 1) = Got(i, c)
           /\ c = 28 => Got(i + 1, 0) = Got(i, c)
           /\ c = 28 /\ i = 2 => Got(i, c) = 24
           /\ Got(0, 0) = 0
<1>1. Got(i, c) \in 0 .. 24
  BY DEF Got
<1>2. c \in 1 .. 24 /\ c % 3 = 0 => Got(i, c + 1) = Got(i, c) + 1
  BY DEF Got
<1>3. c < 28 /\ ~(c \in 1 .. 24 /\ c % 3 = 0) => Got(i, c + 1) = Got(i, c)
  BY DEF Got
<1>4. c = 28 => Got(i + 1, 0) = Got(i, c) /\ (i = 2 => Got(i, c) = 24)
  BY DEF Got
<1>5. Got(0, 0) = 0
  BY DEF Got
<1> QED
  BY <1>1, <1>2, <1>3, <1>4, <1>5

-----------------------------------------------------------------------------
(* The sensor, whatever is done to its lines                                 *)

Comes(o, p) == \E f \in BOOLEAN, s \in Seq(Bit) :
                  p = Receive(f, s) /\ Len(s) <= 8 /\ (Len(s) = 8 => o.scl = 1)
Orders(p) == \E q \in Quantities : p = Ordered(Command[q])
Sends(p) == \E n \in 1 .. 24 : Sending(p, n)
Awaits(p) == \E n \in 0 .. 23 : Awaiting(p, n)
PortOf(o, p, d) ==
    \/ p = Idle
    \/ Comes(o, p)
    \/ p = Addressed(ToWrite)
    \/ p = Addressed(ToRead) /\ d.busy = None /\ d.result # None
    \/ Orders(p)
    \/ Sends(p)
    \/ Awaits(p)
PortOK == PortOf(out, port, dev)
DevOK == dev \in [ busy : Quantities \cup {None}, rounds : 0 .. MaxRounds,
                   result : Results \cup {None} ]

(* The measurement keeps its type.                                           *)
LEMMA FeltOK ==
    ASSUME DevOK, NEW p, NEW q, dev' = Felt(p, q)
    PROVE  DevOK'
<1>0. MaxRounds \in 0 .. MaxRounds /\ None \in Results \cup {None}
  BY Sht20Assumption
<1>1. CASE p.st = "rx" /\ q.st = "rxack" /\ Commanded(p) # {}
  <2> DEFINE x == CHOOSE x \in Quantities : x \in Commanded(p)
  <2>1. x \in Quantities
    BY <1>1 DEF Commanded
  <2>2. dev' = [ busy |-> x, rounds |-> MaxRounds, result |-> None ]
    BY <1>1 DEF Felt
  <2> HIDE DEF x
  <2> QED
    BY <1>0, <2>1, <2>2 DEF DevOK
<1>2. CASE p.st = "rxack" /\ q.st = "tx"
  <2>1. dev' = [ dev EXCEPT !.result = None ]
    BY <1>2 DEF Felt
  <2> QED
    BY <1>0, <2>1 DEF DevOK
<1>3. CASE /\ ~(p.st = "rx" /\ q.st = "rxack" /\ Commanded(p) # {})
           /\ ~(p.st = "rxack" /\ q.st = "tx")
  <2>1. dev' = dev
    BY <1>3 DEF Felt
  <2> QED
    BY <2>1 DEF DevOK
<1> QED
  BY <1>1, <1>2, <1>3

(* A byte is in: where it may lead.                                          *)
LEMMA Accepting ==
    ASSUME NEW f \in BOOLEAN, NEW s \in Seq(Bit), Accepts(Receive(f, s)),
           port' = Acknowledge(f, s), dev' = Felt(Receive(f, s), port')
    PROVE  \/ port' = Addressed(ToWrite)
           \/ port' = Addressed(ToRead) /\ dev'.busy = None /\ dev'.result # None
           \/ \E q \in Quantities : port' = Ordered(Command[q])
<1> DEFINE p == Receive(f, s)
<1>1. p.first = f /\ p.bits = s /\ p.st = "rx"
  BY DEF Receive
<1> HIDE DEF p
<1>2. CASE f = TRUE
  <2>1. \/ s = BitsOf(ToWrite)
        \/ s = BitsOf(ToRead) /\ dev.busy = None /\ dev.result # None
    BY <1>1, <1>2 DEF Accepts, ToWrite, ToRead, p
  <2>2. port' = Acknowledge(TRUE, s)
    BY <1>2
  <2>3. CASE s = BitsOf(ToWrite)
    BY <2>2, <2>3, Zenon DEF Addressed
  <2>4. CASE s = BitsOf(ToRead) /\ dev.busy = None /\ dev.result # None
    <3>1. port' = Addressed(ToRead)
      BY <2>2, <2>4, Zenon DEF Addressed
    <3>2. port'.st = "rxack"
      BY <2>2 DEF Acknowledge
    <3>3. Commanded(p) = {}
      BY <1>1, <1>2 DEF Commanded
    <3>4. dev' = dev
      BY <1>1, <3>2, <3>3 DEF Felt, p
    <3> QED
      BY <2>4, <3>1, <3>4
  <2> QED
    BY <2>1, <2>3, <2>4
<1>3. CASE f = FALSE
  <2>1. PICK q \in Quantities : s = BitsOf(Command[q])
    BY <1>1, <1>3 DEF Accepts, p
  <2>2. port' = Ordered(Command[q])
    BY <1>3, <2>1, Zenon DEF Ordered
  <2> QED
    BY <2>2
<1> QED
  BY <1>2, <1>3

(* What counts for Comes is how high the clock is when the byte is whole.    *)
LEMMA ComesIf ==
    ASSUME NEW o, NEW p, NEW f \in BOOLEAN, NEW s \in Seq(Bit), p = Receive(f, s),
           Len(s) <= 8, Len(s) = 8 => o.scl = 1
    PROVE  Comes(o, p)
  BY DEF Comes

(* A byte that comes in is not whole while the clock is low.                 *)
LEMMA ComesEarly ==
    /\ \A o : Comes(o, Started) /\ Comes(o, Waiting)
    /\ \A p, o, u : Comes(o, p) /\ u.scl = o.scl => Comes(u, p)
    /\ \A p, o, u : Comes(o, p) /\ u.scl = 1 => Comes(u, p)
<1> DEFINE s == <<>>
           t == TRUE
           f == FALSE
<1>1. s \in Seq(Bit) /\ Len(s) <= 8 /\ Len(s) # 8 /\ t \in BOOLEAN /\ f \in BOOLEAN
  OBVIOUS
<1>2. Started = Receive(t, s) /\ Waiting = Receive(f, s)
  BY DEF Started, Waiting
<1> HIDE DEF s, t, f
<1>3. \A o : Comes(o, Started) /\ Comes(o, Waiting)
  BY <1>1, <1>2 DEF Comes
<1>4. \A p, o, u : Comes(o, p) /\ u.scl = o.scl => Comes(u, p)
  BY DEF Comes
<1>5. \A p, o, u : Comes(o, p) /\ u.scl = 1 => Comes(u, p)
  BY DEF Comes
<1> QED
  BY <1>3, <1>4, <1>5

(* A falling clock leads from one of these states to another.                *)
LEMMA FallOK ==
    ASSUME LinesOK, PortOK, port' = Fall(port), dev' = Felt(port, port'), out.scl = 1, DevOK
    PROVE  PortOK' /\ DevOK'
<1>1. DevOK'
  BY FeltOK
<1>2. CASE port = Idle
  <2>1. port' = Idle
    BY <1>2, Falling
  <2> QED
    BY <1>1, <2>1 DEF PortOK, PortOf
<1>3. CASE Comes(out, port)
  <2>1. PICK f \in BOOLEAN, s \in Seq(Bit) : port = Receive(f, s) /\ Len(s) <= 8
    BY <1>3 DEF Comes
  <2>2. CASE Len(s) # 8
    <3>1. port' = Receive(f, s)
      BY <2>1, <2>2, FallRx
    <3>2. Comes(out', port')
      BY <2>1, <2>2, <3>1, ComesIf
    <3> QED
      BY <1>1, <3>2 DEF PortOK, PortOf
  <2>3. CASE Len(s) = 8 /\ Accepts(Receive(f, s))
    <3>1. port' = Acknowledge(f, s)
      BY <2>1, <2>3, FallRx
    <3>2. \/ port' = Addressed(ToWrite)
          \/ port' = Addressed(ToRead) /\ dev'.busy = None /\ dev'.result # None
          \/ Orders(port')
      BY <2>1, <2>3, <3>1, Accepting DEF Orders
    <3> QED
      BY <1>1, <3>2 DEF PortOK, PortOf
  <2>4. CASE Len(s) = 8 /\ ~Accepts(Receive(f, s))
    <3>1. port' = Idle
      BY <2>1, <2>4, FallRx
    <3> QED
      BY <1>1, <3>1 DEF PortOK, PortOf
  <2> QED
    BY <2>2, <2>3, <2>4
<1>4. CASE port = Addressed(ToWrite)
  <2>1. port' = Waiting
    BY <1>4, Falling
  <2>2. Comes(out', port')
    BY <2>1, ComesEarly
  <2> QED
    BY <1>1, <2>2 DEF PortOK, PortOf
<1>5. CASE port = Addressed(ToRead) /\ dev.busy = None /\ dev.result # None
  <2>1. port' = Send(Flat(dev.result)) /\ dev.result \in Results
    BY <1>5, Falling DEF DevOK
  <2>2. Sending(port', 24)
    BY <2>1, FlatType DEF Sending
  <2>3. Sends(port')
    BY <2>2 DEF Sends
  <2> QED
    BY <1>1, <2>3 DEF PortOK, PortOf
<1>6. CASE Orders(port)
  <2>1. port' = Idle
    BY <1>6, Falling DEF Orders
  <2> QED
    BY <1>1, <2>1 DEF PortOK, PortOf
<1>7. CASE Sends(port)
  <2>0. PICK n \in 1 .. 24 : Sending(port, n)
    BY <1>7 DEF Sends
  <2> DEFINE m == n - 1
             x == m % 8
  <2>1. x # 0 => m \in 1 .. 24
    OBVIOUS
  <2>2. m \in 0 .. 23
    OBVIOUS
  <2>3. /\ x # 0 => Sending(port', m)
        /\ x = 0 => Awaiting(port', m)
    BY <2>0, SendingOn
  <2> HIDE DEF x, m
  <2>4. Sends(port') \/ Awaits(port')
    BY <2>1, <2>2, <2>3 DEF Sends, Awaits
  <2> QED
    BY <1>1, <2>4 DEF PortOK, PortOf
<1>8. CASE Awaits(port)
  <2>1. PICK n \in 0 .. 23 : Awaiting(port, n)
    BY <1>8 DEF Awaits
  <2>2. PICK s \in Seq(Bit) : port = Await(s) /\ Len(s) = n
    BY <2>1 DEF Awaiting
  <2>3. port' = IF s = <<>> THEN Idle ELSE Send(s)
    BY <2>2, FallTxAck
  <2>4. s = <<>> \/ n \in 1 .. 24
    BY <2>2, EmptySeq
  <2>5. port' = Idle \/ Sends(port')
    BY <2>2, <2>3, <2>4 DEF Sends, Sending
  <2> QED
    BY <1>1, <2>5 DEF PortOK, PortOf
<1> QED
  BY <1>1, <1>2, <1>3, <1>4, <1>5, <1>6, <1>7, <1>8 DEF PortOK, PortOf

(* So does a rising clock.                                                   *)
LEMMA RiseOK ==
    ASSUME LinesOK, PortOK, NEW x \in Bit, port' = Rise(port, x), dev' = dev,
           out.scl = 0, out'.scl = 1
    PROVE  PortOK'
<1>1. port' = port \/ port' = Idle \/ Comes(out', port')
  <2>1. CASE port = Idle
    BY <2>1, Rising
  <2>2. CASE Comes(out, port)
    <3>1. PICK f \in BOOLEAN, s \in Seq(Bit) :
            port = Receive(f, s) /\ Len(s) <= 8 /\ (Len(s) = 8 => out.scl = 1)
      BY <2>2 DEF Comes
    <3> DEFINE t == Append(s, x)
    <3>a. Len(s) \in Nat /\ Len(s) # 8
      BY <3>1, LenProperties
    <3>b. t \in Seq(Bit) /\ Len(t) = Len(s) + 1
      BY AppendProperties
    <3>3. port' = Receive(f, t)
      BY <3>1, Risen
    <3> DEFINE l == Len(s)
    <3>c. l <= 8 /\ l \in Nat /\ l # 8 /\ Len(t) = l + 1
      BY <3>1, <3>a, <3>b
    <3> HIDE DEF t, l
    <3>2. t \in Seq(Bit) /\ Len(t) <= 8
      BY <3>b, <3>c
    <3> QED
      BY <3>2, <3>3, ComesIf
  <2>3. CASE \E b : port \in {Addressed(b), Ordered(b)}
    BY <2>3, Rising
  <2>4. CASE Sends(port)
    BY <2>4, SendingOn DEF Sends
  <2>5. CASE Awaits(port)
    BY <2>5, Risen DEF Awaits, Awaiting
  <2> QED
    BY <2>1, <2>2, <2>3, <2>4, <2>5 DEF PortOK, PortOf, Orders
<1>2. Comes(out, port) => Comes(out', port)
  BY ComesEarly
<1> QED
  BY <1>1, <1>2 DEF PortOK, PortOf

(* So does a step that leaves the sensor alone.                              *)
LEMMA PortSame ==
    ASSUME PortOK, port' = port, dev'.busy = dev.busy, dev'.result = dev.result, out'.scl = out.scl
    PROVE  PortOK'
<1>1. Comes(out, port) => Comes(out', port)
  BY ComesEarly
<1> QED
  BY <1>1 DEF PortOK, PortOf

(* The data line is a bit.                                                   *)
LEMMA SdaBit == ASSUME NEW o, NEW p PROVE Sda(o, p) \in Bit
  BY DEF Sda, Bit

(* So does every operation on the lines.                                     *)
LEMMA PortStep ==
    ASSUME LinesOK, PortOK, DevOK, NEW op \in {"SDA_H", "SDA_L", "SCL_H", "SCL_L"}, Step(op)
    PROVE  LinesOK' /\ PortOK' /\ DevOK'
<1>1. CASE op = "SCL_L"
  <2>1. /\ out' = Lines(out.sda, 0) /\ LinesOK'
        /\ out.scl = 1 => port' = Fall(port) /\ dev' = Felt(port, port')
        /\ out.scl = 0 => port' = port /\ dev' = dev
    BY <1>1, ClockLow
  <2>2. CASE out.scl = 1
    BY <2>1, <2>2, FallOK
  <2>3. CASE out.scl = 0
    <3>1. out'.scl = 0 /\ port' = port /\ dev' = dev
      BY <2>1, <2>3, LinesAre
    <3> QED
      BY <2>1, <2>3, <3>1, PortSame DEF DevOK
  <2> QED
    BY <2>2, <2>3, LinesSplit
<1>2. CASE op = "SCL_H"
  <2>1. /\ out' = Lines(out.sda, 1) /\ LinesOK' /\ dev' = dev
        /\ out.scl = 0 => port' = Rise(port, Sda(out', port))
        /\ out.scl = 1 => port' = port
    BY <1>2, ClockHigh
  <2>a. out'.scl = 1 /\ DevOK'
    BY <2>1, LinesAre DEF DevOK
  <2>2. CASE out.scl = 1
    <3>1. port' = port /\ dev' = dev /\ out'.scl = out.scl
      BY <2>1, <2>a, <2>2
    <3> QED
      BY <2>1, <2>a, <3>1, PortSame
  <2>3. CASE out.scl = 0
    <3>1. PortOK'
      BY <2>1, <2>a, <2>3, SdaBit, RiseOK
    <3> QED
      BY <2>1, <2>a, <3>1
  <2> QED
    BY <2>2, <2>3, LinesSplit
<1>3. CASE op \in {"SDA_H", "SDA_L"}
  <2>1. /\ LinesOK' /\ dev' = dev /\ out'.scl = out.scl
        /\ port' = port \/ port' = Idle \/ port' = Started
    <3>1. CASE op = "SDA_H"
      <4>1. /\ out' = Lines(1, out.scl) /\ LinesOK' /\ dev' = dev
            /\ out.scl = 0 => port' = port
            /\ out.scl = 1 => port' = IF out.sda = 0 /\ ~port.pull THEN Idle ELSE port
        BY <3>1, DataHigh
      <4> QED
        BY <4>1, LinesSplit, LinesAre
    <3>2. CASE op = "SDA_L"
      <4>1. /\ out' = Lines(0, out.scl) /\ LinesOK' /\ dev' = dev
            /\ out.scl = 0 => port' = port
            /\ out.scl = 1 => port' = IF out.sda = 1 /\ ~port.pull THEN Started ELSE port
        BY <3>2, DataLow
      <4> QED
        BY <4>1, LinesSplit, LinesAre
    <3> QED
      BY <1>3, <3>1, <3>2
  <2>2. DevOK'
    BY <2>1 DEF DevOK
  <2>3. CASE port' = port
    BY <2>1, <2>2, <2>3, PortSame
  <2>4. CASE port' = Idle
    BY <2>1, <2>2, <2>4 DEF PortOK, PortOf
  <2>5. CASE port' = Started
    <3>1. Comes(out', port')
      BY <2>5, ComesEarly
    <3> QED
      BY <2>1, <2>2, <3>1 DEF PortOK, PortOf
  <2> QED
    BY <2>1, <2>2, <2>3, <2>4, <2>5
<1> QED
  BY <1>1, <1>2, <1>3

-----------------------------------------------------------------------------
(* Where the procedures are                                                  *)

Wanted == IF sht.mode = "RH_START" THEN "rh" ELSE "t"
WriteIt == soft_iic1_write(Address, Command[Wanted])
Attempt == ReadAttempt(Address)
Abandon == ReadAddress(Address)

LineOps == {"SDA_H", "SDA_L", "SCL_H", "SCL_L"}

(* What is wanted is a quantity.                                             *)
LEMMA WantedType == Wanted \in Quantities
  BY Sht20Assumption DEF Wanted

(* A bit that goes out is put on the lines by operations on them.            *)
LEMMA ClockedType ==
    ASSUME NEW b, NEW j \in 1 .. 24
    PROVE  Clocked(b, j) \in LineOps
<1>1. j % 3 = 0 \/ j % 3 = 1 \/ j % 3 = 2
  OBVIOUS
<1> DEFINE r == j % 3
           x == BitsOf(b)[1 + j \div 3]
<1>2. Clocked(b, j) = CASE r = 1 -> IF x = 1 THEN "SDA_H" ELSE "SDA_L"
                        [] r = 2 -> "SCL_H" [] r = 0 -> "SCL_L"
  BY DEF Clocked
<1>3. r = 0 \/ r = 1 \/ r = 2
  BY <1>1
<1> HIDE DEF r, x
<1> QED
  BY <1>2, <1>3 DEF LineOps

(* So is an address.                                                         *)
LEMMA AddressesOps ==
    ASSUME NEW P, NEW b, Addresses(P, b)
    PROVE  \A k \in 0 .. 28 : P[k + 1] \in LineOps
<1> TAKE k \in 0 .. 28
<1>1. CASE k \in 0 .. 4
  BY <1>1 DEF Addresses, LineOps
<1>2. CASE k \in 5 .. 28
  <2>1. k - 4 \in 1 .. 24 /\ 5 + (k - 4) = k + 1
    BY <1>2
  <2>2. P[k + 1] = Clocked(b, k - 4)
    BY <2>1 DEF Addresses
  <2> QED
    BY <2>1, <2>2, ClockedType
<1> QED
  BY <1>1, <1>2

(* The attempt at this sensor, and the last START of a read                  *)
LEMMA AttemptAt ==
    /\ Attempt \in Seq(Ops) /\ Len(Attempt) = 32 /\ Addresses(Attempt, ToRead) /\ Asks(Attempt, 29)
    /\ Abandon \in Seq(Ops) /\ Len(Abandon) = 29 /\ Addresses(Abandon, ToRead)
<1>1. Address \in Nat
  BY Numbers
<1> QED
  BY <1>1, ReadAttemptAt, ReadAddressAt DEF Attempt, Abandon, ToRead

(* The write of a command to this sensor                                     *)
LEMMA WriteItAt ==
    ASSUME NEW q \in Quantities
    PROVE  LET P == soft_iic1_write(Address, Command[q]) IN
           /\ P \in Seq(Ops) /\ Len(P) = 60
           /\ Addresses(P, ToWrite) /\ Asks(P, 29) /\ Asks(P, 57)
           /\ P[33] = "SCL_L" /\ \A j \in 1 .. 24 : P[33 + j] = Clocked(Command[q], j)
<1>1. Address \in Nat /\ Command[q] \in Nat
  BY Numbers
<1> QED
  BY <1>1, WriteAt DEF ToWrite

-----------------------------------------------------------------------------
(* The invariant                                                             *)

(* The sensor has nothing and does nothing. *)
Quiet == dev.busy = None /\ dev.result = None
Taken(k) == k >= 4 => Quiet

(* Rounds enough to fetch two results between two starts: with the 300 rounds *)
(* and the 16 bits of the code, a measurement may take 66 rounds.            *)
InTime == /\ Period >= 2 * MaxRounds + 5 /\ Period < DelayMod
          /\ (DelayMod - 1) % Period >= 2 * MaxRounds + 3

AtInit ==
    /\ sht.mode = "START" /\ sht.delay = 0
    /\ \E P \in soft_iic1_init, k \in 0 .. 6 :
          todo = Rest(P, k) /\ (resets = 0 => Booting(P, k, out, port))
AtNone ==
    /\ sht.mode \in {"RH_END", "T_END"} /\ todo = <<>>
    /\ resets = 0 => out = Lines(1, 1) /\ port = Idle

WriteAddress(k) ==
    /\ todo = Rest(WriteIt, k)
    /\ resets = 0 => \/ Opened(ToWrite, k, out, port)
                     \/ over_time > MaxOverTime /\ Missed(k, out, port) /\ Taken(k)
WriteTurn ==
    /\ todo = <<"SCL_L">> \o Rest(WriteIt, 32)
    /\ resets = 0 => out = Lines(1, 1) /\ port = Addressed(ToWrite)
WriteCommand(k) ==
    /\ todo = Rest(WriteIt, k)
    /\ resets = 0 => Commanding(Command[Wanted], k, out, port)
WriteLast ==
    /\ todo = <<"SCL_L">>
    /\ resets = 0 => out = Lines(1, 1) /\ port = Ordered(Command[Wanted])
WriteDone == todo = <<>> /\ (resets = 0 => out = Lines(1, 0) /\ port = Idle)
AtWrite ==
    /\ sht.mode \in {"RH_START", "T_START"}
    /\ \/ \E k \in 0 .. 31 : WriteAddress(k)
       \/ WriteTurn
       \/ \E k \in 32 .. 59 : WriteCommand(k)
       \/ WriteLast
       \/ WriteDone
AtStop ==
    /\ sht.mode \in {"RH_START", "T_START"}
    /\ \E k \in 0 .. 4 : todo = Rest(iic_stop, k) /\ (resets = 0 => Stopping(k, out, port))

Reading3(r) == r \in Results /\ (InTime => r \in Readings(Wanted))
AttemptAddress(k) ==
    /\ todo = Rest(Attempt, k)
    /\ resets = 0 => \/ Opened(ToRead, k, out, port)
                     \/ over_time = 0 /\ Missed(k, out, port) /\ Taken(k)
AttemptTurn ==
    /\ todo = <<"SCL_L">>
    /\ resets = 0 => out = Lines(1, 1) /\ port = Addressed(ToRead)
AttemptDone ==
    /\ todo = <<>>
    /\ resets = 0 => /\ out = Lines(1, 0) /\ Quiet
                     /\ \E r : Reading3(r) /\ port = Send(Flat(r))
AtAttempt ==
    /\ sht.mode \in {"RH_START", "T_START"} /\ over_time <= MaxOverTime /\ rbuff = <<>>
    /\ \/ \E k \in 0 .. 31 : AttemptAddress(k)
       \/ AttemptTurn
       \/ AttemptDone
AtRetry == over_time <= MaxOverTime /\ rbuff = <<>>
AtAbandon ==
    /\ sht.mode \in {"RH_START", "T_START"} /\ over_time > MaxOverTime
    /\ \E k \in 0 .. 29 : todo = Rest(Abandon, k) /\ (resets = 0 => Opened(ToRead, k, out, port))
BytesIn(i, c) ==
    /\ todo = Rest(ReadThree, 29 * i + c) /\ Len(rbuff) = Got(i, c)
    /\ resets = 0 => \E r : /\ Reading3(r) /\ Byte(Flat(r), i, c, out, port)
                            /\ rbuff = SubSeq(Flat(r), 1, Got(i, c))
BytesEnd(k) ==
    /\ todo = Rest(ReadThree, k) /\ Len(rbuff) = 24
    /\ resets = 0 => Ending(k, out, port) /\ \E r : Reading3(r) /\ rbuff = Flat(r)
AtBytes ==
    /\ sht.mode \in {"RH_START", "T_START"} /\ (resets = 0 => Quiet)
    /\ (\E i \in 0 .. 2, c \in 0 .. 28 : BytesIn(i, c)) \/ (\E k \in 87 .. 91 : BytesEnd(k))

Calls == {"none", "init", "write", "attempt", "bytes", "stop", "retry", "abandon"}
Control ==
    /\ call \in Calls
    /\ call = "init" => AtInit
    /\ call = "none" => AtNone
    /\ call = "write" => AtWrite
    /\ call \in {"stop", "retry"} => AtStop
    /\ call = "retry" => AtRetry
    /\ call = "attempt" => AtAttempt
    /\ call = "abandon" => AtAbandon
    /\ call = "bytes" => AtBytes
ShtOK == sht = [ mode |-> sht.mode, delay |-> sht.delay,
                 humidity |-> sht.humidity, tempreture |-> sht.tempreture ]
Simple ==
    /\ todo \in Seq(Ops) /\ rbuff \in Seq(Bit) /\ Len(rbuff) \in 0 .. 24
    /\ over_time \in 0 .. MaxOverTime + 1
    /\ sht.mode \in {"START", "RH_START", "RH_END", "T_START", "T_END"}
    /\ sht.delay \in 0 .. DelayMod - 1 /\ ShtOK
    /\ resets \in 0 .. MaxResets
Bus == LinesOK /\ PortOK /\ DevOK
IInv == Simple /\ Bus /\ Control

-----------------------------------------------------------------------------
(* An address goes out                                                       *)

(* Operation k of a procedure that begins with an address                    *)
LEMMA OpenedStep ==
    ASSUME LinesOK, NEW b \in Nat, NEW P, Addresses(P, b), NEW k \in 0 .. 30,
           k \in 29 .. 30 => Asks(P, 29), Opened(b, k, out, port), Step(P[k + 1])
    PROVE  Opened(b, k + 1, out', port') /\ dev' = dev
<1>1. CASE k \in 0 .. 4
  BY <1>1, OpenedStart
<1>2. CASE k \in 5 .. 28
  BY <1>2, OpenedByte
<1>3. CASE k \in 29 .. 30
  BY <1>3, OpenedEnd
<1> QED
  BY <1>1, <1>2, <1>3

(* A sensor that acknowledges the address of a read has a reading.           *)
LEMMA AddressedReady ==
    ASSUME Bus, port = Addressed(ToRead)
    PROVE  dev.busy = None /\ dev.result # None /\ dev.result \in Results
<1>0. PortOK /\ DevOK
  BY DEF Bus
<1>1. port.st = "rxack" /\ port.first = TRUE /\ port.bits = BitsOf(ToRead)
  BY DEF Addressed, Acknowledge
<1>2. ~Comes(out, port) /\ port # Idle
  BY <1>1 DEF Comes, Receive, Idle
<1>3. port # Addressed(ToWrite)
  <2>1. Addressed(ToWrite).bits = BitsOf(ToWrite)
    BY DEF Addressed, Acknowledge
  <2> QED
    BY <1>1, <2>1, Numbers
<1>4. ~Orders(port)
  BY <1>1 DEF Orders, Ordered, Acknowledge
<1>5. ~Sends(port) /\ ~Awaits(port)
  BY <1>1 DEF Sends, Awaits, Sending, Awaiting, Send, Await
<1> QED
  BY <1>0, <1>2, <1>3, <1>4, <1>5 DEF PortOK, PortOf, DevOK

(* A START that the sensor does not see                                      *)
LEMMA MissedStep ==
    ASSUME Bus, NEW b \in Nat, NEW P, Addresses(P, b), NEW k \in 0 .. 30,
           k \in 29 .. 30 => Asks(P, 29), Missed(k, out, port), Taken(k), Step(P[k + 1])
    PROVE  /\ Missed(k + 1, out', port') /\ Taken(k + 1)'
           /\ k # 3 => dev' = dev
           /\ k = 3 => dev' = [ dev EXCEPT !.result = None ]
<1>0. LinesOK /\ PortOK /\ DevOK
  BY DEF Bus
<1>1. CASE k \in 0 .. 4
  <2>1. k = 3 => dev.result \in Results /\ dev.busy = None
    <3>1. k = 3 => port = Addressed(ToRead)
      BY DEF Missed
    <3> QED
      BY <3>1, AddressedReady
  <2>2. /\ Missed(k + 1, out', port')
        /\ dev' = IF k = 3 THEN [ dev EXCEPT !.result = None ] ELSE dev
    BY <1>0, <1>1, <2>1, MissedStart
  <2>3. Taken(k + 1)'
    <3>1. CASE k = 3
      <4>1. dev'.busy = None /\ dev'.result = None
        BY <1>0, <2>1, <2>2, <3>1 DEF DevOK
      <4> QED
        BY <4>1 DEF Taken, Quiet
    <3>2. CASE k = 4
      <4>1. dev' = dev /\ Quiet
        BY <2>2, <3>2 DEF Taken
      <4> QED
        BY <4>1 DEF Taken, Quiet
    <3>3. CASE k < 3
      BY <3>3 DEF Taken
    <3> QED
      BY <1>1, <3>1, <3>2, <3>3
  <2> QED
    BY <2>2, <2>3
<1>2. CASE k \in 5 .. 30
  <2>1. Missed(k + 1, out', port') /\ dev' = dev
    BY <1>0, <1>2, MissedByte, MissedEnd
  <2>2. Quiet
    BY <1>2 DEF Taken
  <2> QED
    BY <1>2, <2>1, <2>2 DEF Taken, Quiet
<1> QED
  BY <1>1, <1>2

-----------------------------------------------------------------------------
(* An operation on the lines, procedure by procedure                         *)

(* One operation on                                                          *)
LEMMA Advance ==
    ASSUME NEW P \in Seq(Ops), NEW k \in 0 .. Len(P), todo = Rest(P, k), Operate
    PROVE  /\ k \in 0 .. Len(P) - 1 /\ Step(P[k + 1]) /\ todo' = Rest(P, k + 1)
           /\ P[k + 1] # "ack?" /\ P[k + 1] # "bit?"
<1>0. Len(P) \in Nat
  BY LenProperties
<1>1. k # Len(P)
  BY RestEnds DEF Operate
<1>2. k \in 0 .. Len(P) - 1
  BY <1>0, <1>1
<1>3. Head(Rest(P, k)) = P[k + 1] /\ Tail(Rest(P, k)) = Rest(P, k + 1)
  BY <1>2, RestStep
<1> QED
  BY <1>2, <1>3 DEF Operate, Step

(* What becomes of the sensor's measurement, and of a result that the first  *)
(* attempt at reading does not fetch                                         *)
Result ==
    \/ dev' = dev
    \/ call = "write" /\ dev' = [ busy |-> Wanted, rounds |-> MaxRounds, result |-> None ]
    \/ call = "attempt" /\ todo = <<"SCL_L">> /\ dev.result # None /\ Quiet'
    \/ StartAfterAbandon /\ Quiet'
FirstTry == call = "attempt" /\ over_time = 0 /\ (Len(todo) > 3 \/ port.st = "rxack")
Missing == FirstTry /\ ~FirstTry' => dev'.result = None \/ dev.busy # None
Moved == resets = 0 => Result /\ Missing
         /\ (call = "attempt" /\ todo' = <<>> => dev.result # None /\ call = "attempt" /\ todo = <<"SCL_L">>)

(* The pins                                                                  *)
LEMMA OperateInit ==
    ASSUME IInv, Operate, call = "init"
    PROVE  AtInit' /\ Moved
<1>1. PICK P \in soft_iic1_init, k \in 0 .. 6 :
        todo = Rest(P, k) /\ (resets = 0 => Booting(P, k, out, port))
  BY DEF IInv, Control, AtInit
<1>2. P \in Seq(Ops) /\ Len(P) = 6
  BY BootAt
<1>a. todo = Rest(P, k) /\ k \in 0 .. Len(P)
  BY <1>1, <1>2
<1>b. k \in 0 .. Len(P) - 1 /\ Step(P[k + 1]) /\ todo' = Rest(P, k + 1)
  BY <1>2, <1>a, Advance
<1>3. k \in 0 .. 5 /\ Step(P[k + 1]) /\ todo' = Rest(P, k + 1) /\ k + 1 \in 0 .. 6
  BY <1>2, <1>b
<1>4. ASSUME resets = 0 PROVE Booting(P, k + 1, out', port') /\ dev' = dev
  BY <1>1, <1>3, <1>4, BootStep DEF IInv, Bus
<1>5. sht' = sht /\ resets' = resets
  BY DEF Operate
<1>6. AtInit'
  BY <1>3, <1>4, <1>5 DEF IInv, Control, AtInit
<1>7. resets = 0 => dev' = dev
  BY <1>4
<1>8. Moved
  BY <1>7 DEF Moved, Result, Missing, FirstTry
<1> QED
  BY <1>6, <1>8

(* A STOP after a missing acknowledgement                                    *)
LEMMA OperateStop ==
    ASSUME IInv, Operate, call \in {"stop", "retry"}
    PROVE  AtStop' /\ Moved
<1>1. PICK k \in 0 .. 4 : todo = Rest(iic_stop, k) /\ (resets = 0 => Stopping(k, out, port))
  BY DEF IInv, Control, AtStop
<1>2. iic_stop \in Seq(Ops) /\ Len(iic_stop) = 4
  BY ShortOnes
<1>a. todo = Rest(iic_stop, k) /\ k \in 0 .. Len(iic_stop)
  BY <1>1, <1>2
<1>b. k \in 0 .. Len(iic_stop) - 1 /\ Step(iic_stop[k + 1]) /\ todo' = Rest(iic_stop, k + 1)
  BY <1>2, <1>a, Advance
<1>3. k \in 0 .. 3 /\ Step(iic_stop[k + 1]) /\ todo' = Rest(iic_stop, k + 1) /\ k + 1 \in 0 .. 4
  BY <1>2, <1>b
<1>4. ASSUME resets = 0 PROVE Stopping(k + 1, out', port') /\ dev' = dev
  BY <1>1, <1>3, <1>4, StopStep DEF IInv, Bus
<1>5. sht' = sht /\ resets' = resets
  BY DEF Operate
<1>6. AtStop'
  BY <1>3, <1>4, <1>5 DEF IInv, Control, AtStop
<1>7. resets = 0 => dev' = dev
  BY <1>4
<1>8. Moved
  BY <1>7 DEF Moved, Result, Missing, FirstTry
<1> QED
  BY <1>6, <1>8

(* The START of a read that is given up                                      *)
LEMMA OperateAbandon ==
    ASSUME IInv, Operate, call = "abandon"
    PROVE  AtAbandon' /\ Moved
<1>1. PICK k \in 0 .. 29 :
        todo = Rest(Abandon, k) /\ (resets = 0 => Opened(ToRead, k, out, port))
  BY DEF IInv, Control, AtAbandon
<1>2. Abandon \in Seq(Ops) /\ Len(Abandon) = 29 /\ Addresses(Abandon, ToRead) /\ ToRead \in Nat
  BY AttemptAt, Numbers
<1>a. todo = Rest(Abandon, k) /\ k \in 0 .. Len(Abandon)
  BY <1>1, <1>2
<1>b. k \in 0 .. Len(Abandon) - 1 /\ Step(Abandon[k + 1]) /\ todo' = Rest(Abandon, k + 1)
  BY <1>2, <1>a, Advance
<1>3. k \in 0 .. 28 /\ Step(Abandon[k + 1]) /\ todo' = Rest(Abandon, k + 1) /\ k + 1 \in 0 .. 29
  BY <1>2, <1>b
<1>4. ASSUME resets = 0 PROVE Opened(ToRead, k + 1, out', port') /\ dev' = dev
  BY <1>1, <1>2, <1>3, <1>4, OpenedStep DEF IInv, Bus
<1>5. sht' = sht /\ resets' = resets /\ over_time' = over_time
  BY DEF Operate
<1>6. AtAbandon'
  BY <1>3, <1>4, <1>5 DEF IInv, Control, AtAbandon
<1>7. resets = 0 => dev' = dev
  BY <1>4
<1>8. Moved
  BY <1>7 DEF Moved, Result, Missing, FirstTry
<1> QED
  BY <1>6, <1>8

-----------------------------------------------------------------------------
(* ... a write                                                               *)

(* The address of a write                                                    *)
LEMMA OperateWriteAddress ==
    ASSUME IInv, Operate, call = "write", NEW k \in 0 .. 31, WriteAddress(k)
    PROVE  k \in 0 .. 30 /\ WriteAddress(k + 1)' /\ Moved
<1> DEFINE P == WriteIt
<1>0. LinesOK /\ Bus
  BY DEF IInv, Bus
<1>1. /\ P \in Seq(Ops) /\ Len(P) = 60 /\ Addresses(P, ToWrite) /\ Asks(P, 29)
      /\ ToWrite \in Nat
  BY WantedType, WriteItAt, Numbers DEF WriteIt
<1>2. todo = Rest(P, k) /\ k \in 0 .. Len(P)
  BY <1>1 DEF WriteAddress
<1>3. /\ Step(P[k + 1]) /\ todo' = Rest(P, k + 1) /\ P[k + 1] # "ack?"
  BY <1>1, <1>2, Advance
<1>4. k \in 0 .. 30 /\ k + 1 \in 0 .. 31
  <2>1. P[29 + 3] = "ack?" /\ 29 + 3 = 32
    BY <1>1 DEF Asks
  <2>2. k = 31 => k + 1 = 32
    OBVIOUS
  <2> QED
    BY <1>3, <2>1, <2>2
<1>5. sht' = sht /\ resets' = resets /\ over_time' = over_time /\ P' = P
  BY DEF Operate, WriteIt, Wanted
<1> HIDE DEF P
<1>6. ASSUME resets = 0, Opened(ToWrite, k, out, port)
      PROVE  Opened(ToWrite, k + 1, out', port') /\ dev' = dev
  BY <1>0, <1>1, <1>3, <1>4, <1>6, OpenedStep
<1>7. ASSUME resets = 0, Missed(k, out, port), Taken(k)
      PROVE  /\ Missed(k + 1, out', port') /\ Taken(k + 1)'
             /\ k # 3 => dev' = dev
             /\ k = 3 => dev' = [ dev EXCEPT !.result = None ]
  BY <1>0, <1>1, <1>3, <1>4, <1>7, MissedStep
<1>8. WriteAddress(k + 1)'
  BY <1>3, <1>5, <1>6, <1>7 DEF WriteAddress, P
<1>9. resets = 0 => dev' = dev \/ (StartAfterAbandon /\ Quiet')
  <2>1. CASE k # 3
    BY <1>6, <1>7, <2>1 DEF WriteAddress
  <2>2. ASSUME k = 3, over_time > MaxOverTime, resets = 0, Missed(k, out, port), Taken(k)
        PROVE  StartAfterAbandon /\ Quiet'
    <3>1. Len(todo) = Len(P) - 3
      BY <1>1, <1>2, <2>2, RestType
    <3>2. StartAfterAbandon
      BY <2>2, <3>1, WantedType DEF StartAfterAbandon, P, WriteIt
    <3>3. Quiet'
      BY <1>7, <2>2 DEF Taken
    <3> QED
      BY <3>2, <3>3
  <2> QED
    BY <1>6, <2>1, <2>2 DEF WriteAddress
<1>10. Moved
  BY <1>9 DEF Moved, Result, Missing, FirstTry
<1> QED
  BY <1>4, <1>8, <1>10

(* The command                                                               *)
LEMMA OperateWriteCommand ==
    ASSUME IInv, Operate, call = "write", NEW k \in 32 .. 59, WriteCommand(k)
    PROVE  k \in 32 .. 58 /\ WriteCommand(k + 1)' /\ Moved
<1> DEFINE P == WriteIt
           q == Wanted
           b == Command[q]
<1>0. LinesOK /\ q \in Quantities /\ b \in Nat
  BY WantedType, Numbers DEF IInv, Bus
<1>1. /\ P \in Seq(Ops) /\ Len(P) = 60 /\ Asks(P, 57)
      /\ P[33] = "SCL_L" /\ \A j \in 1 .. 24 : P[33 + j] = Clocked(b, j)
  BY WantedType, WriteItAt DEF WriteIt
<1>2. todo = Rest(P, k) /\ k \in 0 .. Len(P)
  BY <1>1 DEF WriteCommand
<1>3. Step(P[k + 1]) /\ todo' = Rest(P, k + 1) /\ P[k + 1] # "ack?"
  BY <1>1, <1>2, Advance
<1>4. k \in 32 .. 58
  <2>1. P[57 + 3] = "ack?" /\ 57 + 3 = 60
    BY <1>1 DEF Asks
  <2>2. k = 59 => k + 1 = 60
    OBVIOUS
  <2> QED
    BY <1>3, <2>1, <2>2
<1>5. sht' = sht /\ resets' = resets /\ P' = P /\ q' = q
  BY DEF Operate, WriteIt, Wanted
<1>6. resets = 0 => Commanding(b, k, out, port)
  BY DEF WriteCommand
<1> HIDE DEF P, q
<1>7. ASSUME resets = 0
      PROVE  /\ Commanding(b, k + 1, out', port')
             /\ dev' = dev \/ dev' = [ busy |-> q, rounds |-> MaxRounds, result |-> None ]
  <2>1. CASE k \in 32 .. 55
    BY <1>0, <1>1, <1>3, <1>6, <1>7, <2>1, CommandByte
  <2>2. CASE k = 56
    <3>1. Step(P[57]) /\ Commanding(b, 56, out, port) /\ k + 1 = 57
      BY <1>3, <1>6, <1>7, <2>2
    <3>2. /\ Commanding(b, 57, out', port')
          /\ dev' = [ busy |-> q, rounds |-> MaxRounds, result |-> None ]
      BY <1>0, <1>1, <3>1, CommandTaken
    <3> QED
      BY <3>1, <3>2
  <2>3. CASE k \in 57 .. 58
    BY <1>0, <1>1, <1>3, <1>6, <1>7, <2>3, CommandEnd
  <2> QED
    BY <1>4, <2>1, <2>2, <2>3
<1>8. WriteCommand(k + 1)'
  BY <1>3, <1>5, <1>7 DEF WriteCommand, P, q
<1>9. Moved
  BY <1>7 DEF Moved, Result, Missing, FirstTry, q
<1> QED
  BY <1>4, <1>8, <1>9

(* The clock goes low on an acknowledgement.                                 *)
LEMMA OperateTurn ==
    ASSUME IInv, Operate, NEW s \in Seq(Ops), todo = <<"SCL_L">> \o s
    PROVE  Step("SCL_L") /\ todo' = s
<1>1. Head(<<"SCL_L">> \o s) = "SCL_L" /\ Tail(<<"SCL_L">> \o s) = s
  OBVIOUS
<1> QED
  BY <1>1 DEF Operate, Step

(* The clock goes low on the acknowledgement of the address,                 *)
LEMMA OperateWriteTurn ==
    ASSUME IInv, Operate, call = "write", WriteTurn
    PROVE  WriteCommand(32)' /\ Moved
<1> DEFINE P == WriteIt
<1>1. P \in Seq(Ops) /\ Len(P) = 60
  BY WantedType, WriteItAt DEF WriteIt
<1>2. Rest(P, 32) \in Seq(Ops)
  <2> DEFINE n == 32
  <2>1. n \in 0 .. Len(P)
    BY <1>1
  <2> HIDE DEF n, P
  <2>2. Rest(P, n) \in Seq(Ops)
    BY <1>1, <2>1, RestType
  <2> QED
    BY <2>2 DEF n
<1>3. Step("SCL_L") /\ todo' = Rest(P, 32)
  BY <1>2, OperateTurn DEF WriteTurn
<1>4. sht' = sht /\ resets' = resets /\ P' = P /\ Wanted' = Wanted
  BY DEF Operate, WriteIt, Wanted
<1> HIDE DEF P
<1>5. ASSUME resets = 0
      PROVE  out' = Lines(1, 0) /\ port' = Waiting /\ dev' = dev
  <2>1. out = Lines(1, 1) /\ port = Addressed(ToWrite)
    BY <1>5 DEF WriteTurn
  <2>2. out.sda = 1 /\ out.scl = 1
    BY <2>1, LinesAre
  <2>3. out' = Lines(1, 0) /\ port' = Fall(port) /\ dev' = Felt(port, port')
    BY <1>3, <2>2, ClockLow DEF IInv, Bus
  <2> QED
    BY <2>1, <2>3, Falling
<1>6. WriteCommand(32)'
  <2> DEFINE n == 32
             b == Command[Wanted]
  <2>1. n = 32 /\ n \notin 33 .. 56 /\ n \notin 57 .. 59 /\ n # 60 /\ n # 57 /\ n # 58 /\ n # 59
    OBVIOUS
  <2> HIDE DEF n, b
  <2>2. resets = 0 => Commanding(b, n, out', port')
    BY <1>5, <2>1 DEF Commanding
  <2>3. b' = b /\ n' = n
    BY <1>4 DEF b, n
  <2>4. WriteCommand(n)'
    BY <1>3, <1>4, <2>1, <2>2, <2>3 DEF WriteCommand, P, b
  <2> QED
    BY <2>4 DEF n
<1>7. Moved
  BY <1>5 DEF Moved, Result, Missing, FirstTry
<1> QED
  BY <1>6, <1>7

(* ... and on that of the command.                                           *)
LEMMA OperateWriteLast ==
    ASSUME IInv, Operate, call = "write", WriteLast
    PROVE  WriteDone' /\ Moved
<1>1. <<>> \in Seq(Ops) /\ <<"SCL_L">> = <<"SCL_L">> \o <<>>
  OBVIOUS
<1>2. Step("SCL_L") /\ todo' = <<>>
  BY <1>1, OperateTurn DEF WriteLast
<1>3. resets' = resets
  BY DEF Operate
<1>4. ASSUME resets = 0
      PROVE  out' = Lines(1, 0) /\ port' = Idle /\ dev' = dev
  <2>1. out = Lines(1, 1) /\ port = Ordered(Command[Wanted])
    BY <1>4 DEF WriteLast
  <2>2. out.sda = 1 /\ out.scl = 1
    BY <2>1, LinesAre
  <2>3. out' = Lines(1, 0) /\ port' = Fall(port) /\ dev' = Felt(port, port')
    BY <1>2, <2>2, ClockLow DEF IInv, Bus
  <2> QED
    BY <2>1, <2>3, Falling
<1>5. WriteDone'
  BY <1>2, <1>3, <1>4 DEF WriteDone
<1>6. Moved
  BY <1>4 DEF Moved, Result, Missing, FirstTry
<1> QED
  BY <1>5, <1>6

(* All of a write                                                            *)
LEMMA OperateWrite ==
    ASSUME IInv, Operate, call = "write"
    PROVE  AtWrite' /\ Moved
<1>1. sht' = sht /\ sht.mode \in {"RH_START", "T_START"}
  BY DEF Operate, IInv, Control, AtWrite
<1>2. ASSUME NEW k \in 0 .. 31, WriteAddress(k)
      PROVE  AtWrite' /\ Moved
  <2>1. k \in 0 .. 30 /\ WriteAddress(k + 1)' /\ Moved
    BY <1>2, OperateWriteAddress
  <2>2. k + 1 \in 0 .. 31
    BY <2>1
  <2> QED
    BY <1>1, <2>1, <2>2 DEF AtWrite
<1>3. CASE WriteTurn
  <2>1. WriteCommand(32)' /\ Moved
    BY <1>3, OperateWriteTurn
  <2> QED
    BY <1>1, <2>1 DEF AtWrite
<1>4. ASSUME NEW k \in 32 .. 59, WriteCommand(k)
      PROVE  AtWrite' /\ Moved
  <2>1. k \in 32 .. 58 /\ WriteCommand(k + 1)' /\ Moved
    BY <1>4, OperateWriteCommand
  <2>2. k + 1 \in 32 .. 59
    BY <2>1
  <2> QED
    BY <1>1, <2>1, <2>2 DEF AtWrite
<1>5. CASE WriteLast
  BY <1>1, <1>5, OperateWriteLast DEF AtWrite
<1>6. CASE WriteDone
  BY <1>6 DEF WriteDone, Operate
<1> QED
  BY <1>2, <1>3, <1>4, <1>5, <1>6 DEF IInv, Control, AtWrite

-----------------------------------------------------------------------------
(* ... an attempt at reading                                                 *)

(* The rounds since the last start, and until when a result is fetched       *)
Age == sht.delay % Period
First == IF sht.delay < Period THEN 1 ELSE 0
Due == First + (IF sht.mode = "RH_START" THEN MaxRounds ELSE 2 * MaxRounds + 2)
Timely ==
    /\ sht.mode \in {"START", "RH_END", "T_END"} =>
          Quiet /\ (sht.mode = "RH_END" => Age <= First + MaxRounds + 1)
    /\ sht.mode \in {"RH_START", "T_START"} =>
          /\ dev.busy \in {None, Wanted} /\ (dev.busy # None => Age + dev.rounds <= Due)
          /\ dev.result # None => /\ dev.result \in Readings(Wanted)
                                  /\ Age <= Due + 1 /\ (~FirstTry => Age <= Due)
          /\ call = "write" => Age <= Due - MaxRounds
          /\ call = "bytes" \/ (call = "attempt" /\ todo = <<>>) => Age <= Due + 1
TimelyOK == InTime /\ resets = 0 => Timely
Filed == InTime => FiledRight

(* An address that is refused: the sensor has nothing, or is still at it.    *)
LEMMA Refused ==
    ASSUME ~Accepts(Receive(TRUE, BitsOf(ToRead)))
    PROVE  dev.busy # None \/ dev.result = None
<1> DEFINE p == Receive(TRUE, BitsOf(ToRead))
<1>1. p.first = TRUE /\ p.bits = BitsOf(ToRead)
  BY DEF Receive
<1> HIDE DEF p
<1>2. dev.busy = None /\ dev.result # None => Accepts(p)
  BY <1>1 DEF Accepts, ToRead
<1> QED
  BY <1>2 DEF p

(* The address of a read                                                     *)
LEMMA OperateAttemptAddress ==
    ASSUME IInv, Operate, call = "attempt", NEW k \in 0 .. 31, AttemptAddress(k)
    PROVE  k \in 0 .. 30 /\ AttemptAddress(k + 1)' /\ Moved
<1> DEFINE P == Attempt
<1>0. LinesOK /\ Bus
  BY DEF IInv, Bus
<1>1. /\ P \in Seq(Ops) /\ Len(P) = 32 /\ Addresses(P, ToRead) /\ Asks(P, 29)
      /\ ToRead \in Nat
  BY AttemptAt, Numbers
<1>2. todo = Rest(P, k) /\ k \in 0 .. Len(P)
  BY <1>1 DEF AttemptAddress
<1>3. /\ Step(P[k + 1]) /\ todo' = Rest(P, k + 1) /\ P[k + 1] # "ack?"
  BY <1>1, <1>2, Advance
<1>4. k \in 0 .. 30 /\ k + 1 \in 0 .. 31
  <2>1. P[29 + 3] = "ack?" /\ 29 + 3 = 32
    BY <1>1 DEF Asks
  <2>2. k = 31 => k + 1 = 32
    OBVIOUS
  <2> QED
    BY <1>3, <2>1, <2>2
<1>5. sht' = sht /\ resets' = resets /\ over_time' = over_time /\ call' = call
  BY DEF Operate
<1>a. Len(todo) = 32 - k /\ Len(todo') = 31 - k /\ todo' # <<>>
  <2>1. k + 1 \in 0 .. Len(P) /\ k + 1 # Len(P)
    BY <1>1, <1>4
  <2>2. Len(Rest(P, k)) = Len(P) - k /\ Len(Rest(P, k + 1)) = Len(P) - (k + 1) /\ Rest(P, k + 1) # <<>>
    BY <1>1, <1>2, <2>1, RestType, RestEnds
  <2> DEFINE x == Len(Rest(P, k))
             y == Len(Rest(P, k + 1))
  <2>3. x = 32 - k /\ y = 31 - k
    BY <1>1, <2>2
  <2> HIDE DEF x, y
  <2> QED
    BY <1>2, <1>3, <2>2, <2>3 DEF x, y
<1> HIDE DEF P
<1>6. ASSUME resets = 0, Opened(ToRead, k, out, port)
      PROVE  Opened(ToRead, k + 1, out', port') /\ dev' = dev
  BY <1>0, <1>1, <1>3, <1>4, <1>6, OpenedStep
<1>7. ASSUME resets = 0, Missed(k, out, port), Taken(k)
      PROVE  /\ Missed(k + 1, out', port') /\ Taken(k + 1)'
             /\ k # 3 => dev' = dev
             /\ k = 3 => dev' = [ dev EXCEPT !.result = None ]
  BY <1>0, <1>1, <1>3, <1>4, <1>7, MissedStep
<1>8. AttemptAddress(k + 1)'
  BY <1>3, <1>5, <1>6, <1>7 DEF AttemptAddress, P
<1>9. resets = 0 => dev' = dev \/ (StartAfterAbandon /\ Quiet')
  <2>1. CASE k # 3
    BY <1>6, <1>7, <2>1 DEF AttemptAddress
  <2>2. ASSUME k = 3, over_time = 0, resets = 0, Missed(k, out, port), Taken(k)
        PROVE  StartAfterAbandon /\ Quiet'
    <3>1. Len(todo) = Len(P) - 3
      BY <1>1, <1>a, <2>2
    <3>2. StartAfterAbandon
      BY <2>2, <3>1 DEF StartAfterAbandon, P, Attempt
    <3>3. Quiet'
      BY <1>7, <2>2 DEF Taken
    <3> QED
      BY <3>2, <3>3
  <2> QED
    BY <1>6, <2>1, <2>2 DEF AttemptAddress
<1>10. resets = 0 => Missing
  <2> SUFFICES ASSUME resets = 0, FirstTry, ~FirstTry'
               PROVE  dev'.result = None \/ dev.busy # None
    BY DEF Missing
  <2>1. 31 - k <= 3 /\ port'.st # "rxack" /\ over_time = 0
    BY <1>5, <1>a DEF FirstTry
  <2>2. k \in 28 .. 30
    BY <1>4, <2>1
  <2>3. CASE Opened(ToRead, k, out, port)
    <3>0. dev' = dev
      BY <1>6, <2>3
    <3>1. CASE k = 28
      <4>1. port' = IF Accepts(Receive(TRUE, BitsOf(ToRead)))
                    THEN Addressed(ToRead) ELSE Idle
        <5>1. k \in 5 .. 28
          BY <3>1
        <5> QED
          BY <1>0, <1>1, <1>3, <2>3, <3>1, <5>1, OpenedByte
      <4>2. Addressed(ToRead).st = "rxack"
        BY DEF Addressed, Acknowledge
      <4>3. ~Accepts(Receive(TRUE, BitsOf(ToRead)))
        BY <2>1, <4>1, <4>2
      <4> QED
        BY <3>0, <4>3, Refused
    <3>2. CASE k \in 29 .. 30
      <4>1. port' = port
        BY <1>0, <1>1, <1>3, <2>3, <3>2, OpenedEnd
      <4>2. ~(Len(todo) > 3)
        BY <1>a, <3>2
      <4> QED
        BY <2>1, <4>1, <4>2 DEF FirstTry
    <3> QED
      BY <2>2, <3>1, <3>2
  <2>4. CASE Missed(k, out, port) /\ Taken(k)
    <3>1. k # 3 /\ k >= 4
      BY <2>2
    <3>2. dev' = dev /\ Quiet
      BY <1>7, <2>4, <3>1 DEF Taken
    <3> QED
      BY <3>2 DEF Quiet
  <2> QED
    BY <2>3, <2>4 DEF AttemptAddress
<1>11. Moved
  BY <1>9, <1>10, <1>a DEF Moved, Result
<1> QED
  BY <1>4, <1>8, <1>11

(* The clock goes low on its acknowledgement: the sensor gives its reading.  *)
LEMMA OperateAttemptTurn ==
    ASSUME IInv, TimelyOK, Operate, call = "attempt", AttemptTurn, sht.mode \in {"RH_START", "T_START"}
    PROVE  AttemptDone' /\ Moved
<1>1. <<>> \in Seq(Ops) /\ <<"SCL_L">> = <<"SCL_L">> \o <<>>
  OBVIOUS
<1>2. Step("SCL_L") /\ todo' = <<>>
  BY <1>1, OperateTurn DEF AttemptTurn
<1>3. resets' = resets /\ Wanted' = Wanted
  BY DEF Operate, Wanted
<1>4. ASSUME resets = 0
      PROVE  /\ out' = Lines(1, 0) /\ port' = Send(Flat(dev.result)) /\ Quiet'
             /\ dev.result # None /\ Reading3(dev.result)
  <2>1. out = Lines(1, 1) /\ port = Addressed(ToRead)
    BY <1>4 DEF AttemptTurn
  <2>2. out.sda = 1 /\ out.scl = 1
    BY <2>1, LinesAre
  <2>3. out' = Lines(1, 0) /\ port' = Fall(port) /\ dev' = Felt(port, port')
    BY <1>2, <2>2, ClockLow DEF IInv, Bus
  <2>4. dev.busy = None /\ dev.result # None /\ dev.result \in Results /\ DevOK
    BY <2>1, AddressedReady DEF IInv, Bus
  <2>5. port' = Send(Flat(dev.result)) /\ dev' = [ dev EXCEPT !.result = None ]
    BY <2>1, <2>3, Falling
  <2>6. Quiet'
    BY <2>4, <2>5 DEF Quiet, DevOK
  <2>7. Reading3(dev.result)
    BY <1>4, <2>4 DEF Reading3, TimelyOK, Timely
  <2> QED
    BY <2>3, <2>4, <2>5, <2>6, <2>7
<1>5. AttemptDone'
  <2> SUFFICES ASSUME resets = 0
               PROVE  out' = Lines(1, 0) /\ Quiet' /\ \E r : Reading3(r)' /\ port' = Send(Flat(r))
    BY <1>2, <1>3 DEF AttemptDone
  <2> DEFINE r == dev.result
  <2>1. r \in Results /\ (InTime => r \in Readings(Wanted')) /\ port' = Send(Flat(r))
    BY <1>3, <1>4 DEF Reading3
  <2>2. \E x : x \in Results /\ (InTime => x \in Readings(Wanted')) /\ port' = Send(Flat(x))
    BY <2>1
  <2> QED
    BY <1>4, <2>2 DEF Reading3
<1>6. Moved
  BY <1>2, <1>4 DEF Moved, Result, Missing, Quiet, AttemptTurn
<1> QED
  BY <1>5, <1>6

(* All of an attempt                                                         *)
LEMMA OperateAttempt ==
    ASSUME IInv, TimelyOK, Operate, call = "attempt"
    PROVE  AtAttempt' /\ Moved
<1>1. /\ sht' = sht /\ sht.mode \in {"RH_START", "T_START"} /\ over_time' = over_time
      /\ rbuff' = rbuff /\ over_time <= MaxOverTime /\ rbuff = <<>>
  BY DEF Operate, IInv, Control, AtAttempt
<1>2. ASSUME NEW k \in 0 .. 31, AttemptAddress(k)
      PROVE  AtAttempt' /\ Moved
  <2>1. k \in 0 .. 30 /\ AttemptAddress(k + 1)' /\ Moved
    BY <1>2, OperateAttemptAddress
  <2>2. k + 1 \in 0 .. 31
    BY <2>1
  <2> QED
    BY <1>1, <2>1, <2>2 DEF AtAttempt
<1>3. CASE AttemptTurn
  BY <1>1, <1>3, OperateAttemptTurn DEF AtAttempt
<1>4. CASE AttemptDone
  BY <1>4 DEF AttemptDone, Operate
<1> QED
  BY <1>2, <1>3, <1>4 DEF IInv, Control, AtAttempt

-----------------------------------------------------------------------------
(* ... the three bytes                                                       *)

(* The operations of each byte                                               *)
LEMMA ReadingAt ==
    ASSUME NEW i \in 0 .. 2, NEW c \in 0 .. 28
    PROVE  ReadThree[(29 * i + c) + 1] = Reading(i, c)
<1>0. /\ ReadThree[c + 1] = Reading(0, c) /\ ReadThree[c + 30] = Reading(1, c)
      /\ ReadThree[c + 59] = Reading(2, c)
  BY ReadThreeAt, Zenon
<1> DEFINE k == (29 * i + c) + 1
<1>1. /\ i = 0 => k = c + 1
      /\ i = 1 => k = c + 30
      /\ i = 2 => k = c + 59
      /\ i = 0 \/ i = 1 \/ i = 2
  OBVIOUS
<1> HIDE DEF k
<1>2. CASE i = 0
  <2>1. k = c + 1
    BY <1>1, <1>2
  <2> QED
    BY <1>0, <1>2, <2>1, Zenon DEF k
<1>3. CASE i = 1
  <2>1. k = c + 30
    BY <1>1, <1>3
  <2> QED
    BY <1>0, <1>3, <2>1, Zenon DEF k
<1>4. CASE i = 2
  <2>1. k = c + 59
    BY <1>1, <1>4
  <2> QED
    BY <1>0, <1>4, <2>1, Zenon DEF k
<1> QED
  BY <1>1, <1>2, <1>3, <1>4, Zenon

(* A byte is read by looks at the data line and operations on the lines.     *)
LEMMA ReadingType ==
    ASSUME NEW i \in 0 .. 2, NEW c \in 0 .. 28
    PROVE  IF c \in 1 .. 24 /\ c % 3 = 0 THEN Reading(i, c) = "bit?" ELSE Reading(i, c) \in LineOps
<1>1. CASE c \in 1 .. 24
  <2> DEFINE r == c % 3
  <2>1. r = 0 \/ r = 1 \/ r = 2
    OBVIOUS
  <2>2. Reading(i, c) = CASE r = 1 -> "SCL_L" [] r = 2 -> "SCL_H" [] r = 0 -> "bit?"
    BY <1>1 DEF Reading
  <2> HIDE DEF r
  <2>3. IF r = 0 THEN Reading(i, c) = "bit?" ELSE Reading(i, c) \in LineOps
    BY <2>1, <2>2 DEF LineOps
  <2> QED
    BY <1>1, <2>3 DEF r
<1>2. CASE c \notin 1 .. 24
  <2>1. c = 0 \/ c = 25 \/ c = 26 \/ c = 27 \/ c = 28
    BY <1>2
  <2>2. Reading(i, c) \in LineOps
    BY <2>1 DEF Reading, LineOps
  <2> QED
    BY <1>2, <2>2
<1> QED
  BY <1>1, <1>2

(* One operation on, be it on the lines or a look at them                    *)
After(i, c) ==
    \/ c < 28 /\ BytesIn(i, c + 1)'
    \/ c = 28 /\ i < 2 /\ BytesIn(i + 1, 0)'
    \/ c = 28 /\ i = 2 /\ BytesEnd(87)'

(* Places in the 91 operations of three bytes                                *)
LEMMA PlaceOn ==
    ASSUME NEW i \in 0 .. 2, NEW c \in 0 .. 28
    PROVE  /\ 29 * i + c \in 0 .. 90 /\ 29 * i + (c + 1) = (29 * i + c) + 1
           /\ c = 28 => 29 * (i + 1) + 0 = (29 * i + c) + 1
           /\ c = 28 /\ i = 2 => (29 * i + c) + 1 = 87
  OBVIOUS

(* An operation within a byte                                                *)
LEMMA OperateBytesIn ==
    ASSUME IInv, Operate, call = "bytes", NEW i \in 0 .. 2, NEW c \in 0 .. 28, BytesIn(i, c)
    PROVE  After(i, c) /\ (resets = 0 => dev' = dev)
<1> DEFINE k == 29 * i + c
           g == Got(i, c)
<1>0. ReadThree \in Seq(Ops) /\ Len(ReadThree) = 91 /\ LinesOK
  BY ReadThreeAt DEF IInv, Bus
<1>1. todo = Rest(ReadThree, k) /\ k \in 0 .. Len(ReadThree) /\ Len(rbuff) = g
  BY <1>0, PlaceOn DEF BytesIn
<1>2. ReadThree[k + 1] = Reading(i, c)
  BY ReadingAt
<1>p. /\ 29 * i + (c + 1) = k + 1
      /\ c = 28 => 29 * (i + 1) + 0 = k + 1
      /\ c = 28 /\ i = 2 => k + 1 = 87
  BY PlaceOn
<1>r. resets = 0 => \E r : /\ Reading3(r) /\ Byte(Flat(r), i, c, out, port)
                           /\ rbuff = SubSeq(Flat(r), 1, g)
  BY DEF BytesIn
<1>g. /\ g \in 0 .. 24
      /\ c < 28 /\ ~(c \in 1 .. 24 /\ c % 3 = 0) => Got(i, c + 1) = g
      /\ c = 28 => Got(i + 1, 0) = g
      /\ c = 28 /\ i = 2 => g = 24
  BY GotOn
<1> HIDE DEF k, g
<1>3. Step(Reading(i, c)) /\ todo' = Rest(ReadThree, k + 1) /\ Reading(i, c) # "bit?"
  <2>1. /\ ReadThree \in Seq(Ops) /\ k \in 0 .. Len(ReadThree) /\ todo = Rest(ReadThree, k)
    BY <1>0, <1>1
  <2>2. /\ Step(ReadThree[k + 1]) /\ todo' = Rest(ReadThree, k + 1)
        /\ ReadThree[k + 1] # "bit?"
    BY <2>1, Advance
  <2> QED
    BY <1>2, <2>2, Zenon
<1>4. ~(c \in 1 .. 24 /\ c % 3 = 0)
  BY <1>3, ReadingType
<1>5. sht' = sht /\ resets' = resets /\ rbuff' = rbuff /\ Wanted' = Wanted
  BY DEF Operate, Wanted
<1>6. ASSUME resets = 0, NEW r, Reading3(r), Byte(Flat(r), i, c, out, port)
      PROVE  /\ dev' = dev /\ Reading3(r)'
             /\ c < 28 => Byte(Flat(r), i, c + 1, out', port')
             /\ c = 28 /\ i < 2 => Byte(Flat(r), i + 1, 0, out', port')
             /\ c = 28 /\ i = 2 => Ending(87, out', port')
  <2> DEFINE F == Flat(r)
  <2>1. F \in Seq(Bit) /\ Len(F) = 24
    BY <1>6, FlatType DEF Reading3
  <2>2. Reading3(r)'
    BY <1>5, <1>6 DEF Reading3
  <2>3. Byte(F, i, c, out, port)
    BY <1>6
  <2> HIDE DEF F
  <2>4. CASE c \in 0 .. 1
    <3>1. dev' = dev /\ Byte(F, i, c + 1, out', port')
      BY <1>0, <1>3, <2>1, <2>3, <2>4, ByteStart
    <3> QED
      BY <2>2, <2>4, <3>1 DEF F
  <2>5. CASE c \in 2 .. 24
    <3>0. c % 3 # 0
      BY <1>4, <2>5
    <3>1. dev' = dev /\ Byte(F, i, c + 1, out', port')
      BY <1>0, <1>3, <2>1, <2>3, <2>5, <3>0, ByteBits
    <3> QED
      BY <2>2, <2>5, <3>1 DEF F
  <2>6. CASE c \in 25 .. 28
    <3>1. /\ dev' = dev
          /\ c < 28 => Byte(F, i, c + 1, out', port')
          /\ c = 28 /\ i < 2 => Byte(F, i + 1, 0, out', port')
          /\ c = 28 /\ i = 2 => Ending(87, out', port')
      BY <1>0, <1>3, <2>1, <2>3, <2>6, ByteEnd
    <3> QED
      BY <2>2, <3>1 DEF F
  <2> QED
    BY <2>4, <2>5, <2>6
<1>7. resets = 0 => dev' = dev
  BY <1>6, <1>r
<1>8. CASE c < 28
  <2>1. Got(i, c + 1) = g
    BY <1>4, <1>8, <1>g
  <2>2. resets = 0 => \E r : /\ Reading3(r)' /\ Byte(Flat(r), i, c + 1, out', port')
                             /\ rbuff' = SubSeq(Flat(r), 1, g)
    BY <1>5, <1>6, <1>8, <1>r
  <2>3. BytesIn(i, c + 1)'
    BY <1>1, <1>3, <1>5, <1>p, <2>1, <2>2 DEF BytesIn
  <2> QED
    BY <1>7, <1>8, <2>3 DEF After
<1>9. CASE c = 28 /\ i < 2
  <2>1. Got(i + 1, 0) = g
    BY <1>9, <1>g
  <2>2. resets = 0 => \E r : /\ Reading3(r)' /\ Byte(Flat(r), i + 1, 0, out', port')
                             /\ rbuff' = SubSeq(Flat(r), 1, g)
    BY <1>5, <1>6, <1>9, <1>r
  <2>3. BytesIn(i + 1, 0)'
    BY <1>1, <1>3, <1>5, <1>9, <1>p, <2>1, <2>2 DEF BytesIn
  <2> QED
    BY <1>7, <1>9, <2>3 DEF After
<1>10. CASE c = 28 /\ i = 2
  <2>1. g = 24 /\ k + 1 = 87
    BY <1>10, <1>g, <1>p
  <2>2. ASSUME resets = 0
        PROVE  Ending(87, out', port') /\ \E r : Reading3(r)' /\ rbuff' = Flat(r)
    <3>1. PICK r : /\ Reading3(r) /\ Byte(Flat(r), i, c, out, port)
                   /\ rbuff = SubSeq(Flat(r), 1, g)
      BY <1>r, <2>2
    <3>2. SubSeq(Flat(r), 1, g) = Flat(r)
      <4>1. Flat(r) \in Seq(Bit) /\ Len(Flat(r)) = g
        BY <2>1, <3>1, FlatType DEF Reading3
      <4> QED
        BY <4>1, SubSeqFull
    <3> QED
      BY <1>5, <1>6, <1>10, <2>2, <3>1, <3>2
  <2>3. BytesEnd(87)'
    BY <1>1, <1>3, <1>5, <2>1, <2>2 DEF BytesEnd
  <2> QED
    BY <1>7, <1>10, <2>3 DEF After
<1> QED
  BY <1>8, <1>9, <1>10

(* An operation of the STOP after the bytes                                  *)
LEMMA OperateBytesEnd ==
    ASSUME IInv, Operate, call = "bytes", NEW k \in 87 .. 91, BytesEnd(k)
    PROVE  k \in 87 .. 90 /\ BytesEnd(k + 1)' /\ (resets = 0 => dev' = dev)
<1>0. ReadThree \in Seq(Ops) /\ Len(ReadThree) = 91 /\ LinesOK
  BY ReadThreeAt DEF IInv, Bus
<1>a. ReadThree \in Seq(Ops) /\ Len(ReadThree) = 91 /\ todo = Rest(ReadThree, k)
  BY <1>0, Zenon DEF BytesEnd
<1>1. todo = Rest(ReadThree, k) /\ k \in 0 .. Len(ReadThree) /\ ReadThree \in Seq(Ops)
  BY <1>a
<1>2. k \in 0 .. Len(ReadThree) - 1 /\ Step(ReadThree[k + 1]) /\ todo' = Rest(ReadThree, k + 1)
  BY <1>1, Advance
<1>3. k \in 87 .. 90
  BY <1>0, <1>2
<1>4. sht' = sht /\ resets' = resets /\ rbuff' = rbuff /\ Wanted' = Wanted
  BY DEF Operate, Wanted
<1>5. resets = 0 => Ending(k, out, port)
  BY DEF BytesEnd
<1>6. resets = 0 => Ending(k + 1, out', port') /\ dev' = dev
  BY <1>0, <1>2, <1>3, <1>5, EndingStep
<1>7. resets = 0 => \E r : Reading3(r)' /\ rbuff' = Flat(r)
  BY <1>4 DEF BytesEnd, Reading3
<1>8. BytesEnd(k + 1)'
  BY <1>2, <1>4, <1>6, <1>7 DEF BytesEnd
<1> QED
  BY <1>3, <1>6, <1>8

(* All of the three bytes                                                    *)
LEMMA OperateBytes ==
    ASSUME IInv, Operate, call = "bytes"
    PROVE  AtBytes' /\ Moved
<1>1. sht' = sht /\ resets' = resets /\ sht.mode \in {"RH_START", "T_START"} /\ (resets = 0 => Quiet)
  BY DEF Operate, IInv, Control, AtBytes
<1>2. ASSUME resets = 0 => dev' = dev
      PROVE  (resets' = 0 => Quiet') /\ Moved
  BY <1>1, <1>2 DEF Quiet, Moved, Result, Missing, FirstTry
<1>3. ASSUME NEW i \in 0 .. 2, NEW c \in 0 .. 28, BytesIn(i, c)
      PROVE  AtBytes' /\ Moved
  <2>1. After(i, c) /\ (resets = 0 => dev' = dev)
    BY <1>3, OperateBytesIn
  <2>2. CASE c < 28 /\ BytesIn(i, c + 1)'
    <3>1. c + 1 \in 0 .. 28
      BY <2>2
    <3>2. \E j \in 0 .. 2, d \in 0 .. 28 : BytesIn(j, d)'
      BY <2>2, <3>1
    <3> QED
      BY <1>1, <1>2, <2>1, <3>2 DEF AtBytes
  <2>3. CASE c = 28 /\ i < 2 /\ BytesIn(i + 1, 0)'
    <3>1. i + 1 \in 0 .. 2 /\ 0 \in 0 .. 28
      BY <2>3
    <3>2. \E j \in 0 .. 2, d \in 0 .. 28 : BytesIn(j, d)'
      BY <2>3, <3>1
    <3> QED
      BY <1>1, <1>2, <2>1, <3>2 DEF AtBytes
  <2>4. CASE BytesEnd(87)'
    <3>1. 87 \in 87 .. 91
      OBVIOUS
    <3>2. \E j \in 87 .. 91 : BytesEnd(j)'
      BY <2>4, <3>1
    <3> QED
      BY <1>1, <1>2, <2>1, <3>2 DEF AtBytes
  <2> QED
    BY <2>1, <2>2, <2>3, <2>4 DEF After
<1>4. ASSUME NEW k \in 87 .. 91, BytesEnd(k)
      PROVE  AtBytes' /\ Moved
  <2>1. k \in 87 .. 90 /\ BytesEnd(k + 1)' /\ (resets = 0 => dev' = dev)
    BY <1>4, OperateBytesEnd
  <2>2. k + 1 \in 87 .. 91
    BY <2>1
  <2>3. \E j \in 87 .. 91 : BytesEnd(j)'
    BY <2>1, <2>2
  <2> QED
    BY <1>1, <1>2, <2>1, <2>3 DEF AtBytes
<1> QED
  BY <1>3, <1>4 DEF IInv, Control, AtBytes

-----------------------------------------------------------------------------
(* What is next on the lines                                                 *)

(* The next operation of a procedure                                         *)
LEMMA HeadAt ==
    ASSUME NEW P \in Seq(Ops), NEW k \in 0 .. Len(P), todo = Rest(P, k), todo # <<>>
    PROVE  k \in 0 .. Len(P) - 1 /\ Head(todo) = P[k + 1] /\ Tail(todo) = Rest(P, k + 1)
<1>0. Len(P) \in Nat
  BY LenProperties
<1>1. k # Len(P)
  BY RestEnds
<1>2. k \in 0 .. Len(P) - 1
  BY <1>0, <1>1
<1> QED
  BY <1>2, RestStep

(* The pins: only operations on the lines                                    *)
LEMMA HeadsInit ==
    ASSUME AtInit, todo # <<>>
    PROVE  Head(todo) \in LineOps
<1>1. PICK P \in soft_iic1_init, k \in 0 .. 6 : todo = Rest(P, k)
  BY DEF AtInit
<1>2. /\ P \in Seq(Ops) /\ Len(P) = 6
      /\ P[1] \in {"SDA_H", "SCL_H"} /\ P[2] \in {"SDA_H", "SCL_H"}
      /\ \/ P[3] = "SDA_L" /\ P[4] = "SCL_L"
         \/ P[3] = "SCL_L" /\ P[4] = "SDA_L"
      /\ P[5] = "SDA_H" /\ P[6] = "SCL_H"
  BY BootAt
<1>3. k \in 0 .. Len(P)
  BY <1>2
<1>4. k \in 0 .. Len(P) - 1 /\ Head(todo) = P[k + 1]
  BY <1>1, <1>2, <1>3, HeadAt
<1>5. k \in 0 .. 5
  BY <1>2, <1>4
<1>6. k + 1 = 1 \/ k + 1 = 2 \/ k + 1 = 3 \/ k + 1 = 4 \/ k + 1 = 5 \/ k + 1 = 6
  BY <1>5
<1>7. P[k + 1] \in LineOps
  BY <1>2, <1>6 DEF LineOps
<1> QED
  BY <1>4, <1>7

(* A STOP: the same                                                          *)
LEMMA HeadsStop ==
    ASSUME AtStop, todo # <<>>
    PROVE  Head(todo) \in LineOps
<1>1. PICK k \in 0 .. 4 : todo = Rest(iic_stop, k)
  BY DEF AtStop
<1>2. /\ iic_stop \in Seq(Ops) /\ Len(iic_stop) = 4
      /\ iic_stop[1] = "SDA_L" /\ iic_stop[2] = "SCL_L"
      /\ iic_stop[3] = "SCL_H" /\ iic_stop[4] = "SDA_H"
  BY ShortOnes
<1>3. k \in 0 .. Len(iic_stop)
  BY <1>2
<1>4. k \in 0 .. Len(iic_stop) - 1 /\ Head(todo) = iic_stop[k + 1]
  BY <1>1, <1>2, <1>3, HeadAt
<1>5. k + 1 = 1 \/ k + 1 = 2 \/ k + 1 = 3 \/ k + 1 = 4
  BY <1>2, <1>4
<1>6. iic_stop[k + 1] \in LineOps
  BY <1>2, <1>5 DEF LineOps
<1> QED
  BY <1>4, <1>6

(* The last START of a read: the same                                        *)
LEMMA HeadsAbandon ==
    ASSUME AtAbandon, todo # <<>>
    PROVE  Head(todo) \in LineOps
<1> DEFINE P == Abandon
<1>1. PICK k \in 0 .. 29 : todo = Rest(P, k)
  BY DEF AtAbandon
<1>2. P \in Seq(Ops) /\ Len(P) = 29 /\ Addresses(P, ToRead)
  BY AttemptAt
<1> HIDE DEF P
<1>3. k \in 0 .. Len(P)
  BY <1>2
<1>4. k \in 0 .. Len(P) - 1 /\ Head(todo) = P[k + 1]
  BY <1>1, <1>2, <1>3, HeadAt
<1>5. k \in 0 .. 28
  BY <1>2, <1>4
<1>6. P[k + 1] \in LineOps
  BY <1>2, <1>5, AddressesOps
<1> QED
  BY <1>4, <1>6

(* A procedure with an address and an acknowledgement                        *)
LEMMA HeadsAddress ==
    ASSUME NEW P \in Seq(Ops), NEW b, Addresses(P, b), Asks(P, 29), Len(P) \in Nat, Len(P) >= 32,
           NEW k \in 0 .. 31, todo = Rest(P, k), todo # <<>>
    PROVE  Head(todo) \in LineOps \/ (Head(todo) = "ack?" /\ k = 31)
<1>1. k \in 0 .. Len(P)
  OBVIOUS
<1>2. Head(todo) = P[k + 1]
  BY <1>1, HeadAt
<1>3. CASE k \in 0 .. 28
  BY <1>2, <1>3, AddressesOps
<1>4. CASE k \in 29 .. 31
  <2>1. P[30] = "SDA_H" /\ P[31] = "SCL_H" /\ P[32] = "ack?"
    BY DEF Asks
  <2>2. k + 1 = 30 \/ k + 1 = 31 \/ (k + 1 = 32 /\ k = 31)
    BY <1>4
  <2> QED
    BY <1>2, <2>1, <2>2 DEF LineOps
<1> QED
  BY <1>3, <1>4

(* The command: one look, at its end                                         *)
LEMMA HeadsCommand ==
    ASSUME NEW k \in 32 .. 59, WriteCommand(k), todo # <<>>
    PROVE  Head(todo) \in LineOps \/ (Head(todo) = "ack?" /\ k = 59)
<1> DEFINE P == WriteIt
           b == Command[Wanted]
<1>1. /\ P \in Seq(Ops) /\ Len(P) = 60 /\ Asks(P, 57)
      /\ P[33] = "SCL_L" /\ \A j \in 1 .. 24 : P[33 + j] = Clocked(b, j)
  BY WantedType, WriteItAt DEF WriteIt
<1>2. todo = Rest(P, k) /\ k \in 0 .. Len(P) /\ P \in Seq(Ops)
  BY <1>1 DEF WriteCommand
<1> HIDE DEF P, b
<1>3. Head(todo) = P[k + 1]
  BY <1>2, HeadAt
<1>4. CASE k = 32
  <2>1. P[33] = "SCL_L"
    BY <1>1, Zenon
  <2>2. k + 1 = 33
    BY <1>4
  <2> QED
    BY <1>3, <2>1, <2>2 DEF LineOps
<1>5. CASE k \in 33 .. 56
  <2>1. k - 32 \in 1 .. 24 /\ 33 + (k - 32) = k + 1
    BY <1>5
  <2>2. P[k + 1] = Clocked(b, k - 32)
    BY <1>1, <2>1
  <2>3. Clocked(b, k - 32) \in LineOps
    BY <2>1, ClockedType
  <2> QED
    BY <1>3, <2>2, <2>3
<1>6. CASE k \in 57 .. 59
  <2>1. P[58] = "SDA_H" /\ P[59] = "SCL_H" /\ P[60] = "ack?"
    BY <1>1 DEF Asks
  <2>2. k + 1 = 58 \/ k + 1 = 59 \/ (k + 1 = 60 /\ k = 59)
    BY <1>6
  <2> QED
    BY <1>3, <2>1, <2>2 DEF LineOps
<1> QED
  BY <1>4, <1>5, <1>6

(* After an acknowledgement the clock goes low.                              *)
LEMMA HeadsTurn ==
    ASSUME NEW s \in Seq(Ops), todo = <<"SCL_L">> \o s
    PROVE  Head(todo) \in LineOps /\ todo # <<>>
  BY DEF LineOps

(* What is left of a write                                                   *)
LEMMA WriteRest ==
    /\ WriteIt \in Seq(Ops) /\ Len(WriteIt) = 60
    /\ \A k \in 0 .. 60 : Rest(WriteIt, k) \in Seq(Ops) /\ Len(Rest(WriteIt, k)) = 60 - k
<1> DEFINE P == WriteIt
<1>1. P \in Seq(Ops) /\ Len(P) = 60
  BY WantedType, WriteItAt DEF WriteIt
<1> HIDE DEF P
<1>2. \A k \in 0 .. 60 : Rest(P, k) \in Seq(Ops) /\ Len(Rest(P, k)) = 60 - k
  <2> TAKE k \in 0 .. 60
  <2>1. k \in 0 .. Len(P)
    BY <1>1
  <2> QED
    BY <1>1, <2>1, RestType
<1> QED
  BY <1>1, <1>2 DEF P

Asked ==
    /\ Head(todo) = "ack?"
    /\ \/ call = "write" /\ (WriteAddress(31) \/ WriteCommand(59))
       \/ call = "attempt" /\ AttemptAddress(31)
Received ==
    /\ Head(todo) = "bit?" /\ call = "bytes"
    /\ \E i \in 0 .. 2, c \in 1 .. 24 : c % 3 = 0 /\ BytesIn(i, c)

(* A write: two looks for an acknowledgement                                 *)
LEMMA HeadsWrite ==
    ASSUME AtWrite, todo # <<>>, call = "write"
    PROVE  Head(todo) \in LineOps \/ Asked
<1>1. ASSUME NEW k \in 0 .. 31, WriteAddress(k)
      PROVE  Head(todo) \in LineOps \/ Asked
  <2> DEFINE P == WriteIt
  <2>1. /\ P \in Seq(Ops) /\ Len(P) = 60 /\ Addresses(P, ToWrite) /\ Asks(P, 29)
    BY WantedType, WriteItAt DEF WriteIt
  <2>2. todo = Rest(P, k)
    BY <1>1 DEF WriteAddress
  <2> HIDE DEF P
  <2>3. Len(P) \in Nat /\ Len(P) >= 32
    BY <2>1
  <2>4. Head(todo) \in LineOps \/ (Head(todo) = "ack?" /\ k = 31)
    BY <2>1, <2>2, <2>3, HeadsAddress
  <2> QED
    BY <1>1, <2>4 DEF Asked
<1>2. CASE WriteTurn
  <2>1. 32 \in 0 .. 60
    OBVIOUS
  <2>2. Rest(WriteIt, 32) \in Seq(Ops)
    BY <2>1, WriteRest, Zenon
  <2> QED
    BY <1>2, <2>2, HeadsTurn DEF WriteTurn
<1>3. ASSUME NEW k \in 32 .. 59, WriteCommand(k)
      PROVE  Head(todo) \in LineOps \/ Asked
  BY <1>3, HeadsCommand DEF Asked
<1>4. CASE WriteLast
  BY <1>4 DEF WriteLast, LineOps
<1>5. CASE WriteDone
  BY <1>5 DEF WriteDone
<1> QED
  BY <1>1, <1>2, <1>3, <1>4, <1>5 DEF AtWrite

(* An attempt: one look                                                      *)
LEMMA HeadsAttempt ==
    ASSUME AtAttempt, todo # <<>>, call = "attempt"
    PROVE  Head(todo) \in LineOps \/ Asked
<1>1. ASSUME NEW k \in 0 .. 31, AttemptAddress(k)
      PROVE  Head(todo) \in LineOps \/ Asked
  <2> DEFINE P == Attempt
  <2>1. /\ P \in Seq(Ops) /\ Len(P) = 32 /\ Addresses(P, ToRead) /\ Asks(P, 29)
    BY AttemptAt
  <2>2. todo = Rest(P, k)
    BY <1>1 DEF AttemptAddress
  <2> HIDE DEF P
  <2>3. Len(P) \in Nat /\ Len(P) >= 32
    BY <2>1
  <2>4. Head(todo) \in LineOps \/ (Head(todo) = "ack?" /\ k = 31)
    BY <2>1, <2>2, <2>3, HeadsAddress
  <2> QED
    BY <1>1, <2>4 DEF Asked
<1>2. CASE AttemptTurn
  BY <1>2 DEF AttemptTurn, LineOps
<1>3. CASE AttemptDone
  BY <1>3 DEF AttemptDone
<1> QED
  BY <1>1, <1>2, <1>3 DEF AtAttempt

(* The bytes: a look for each bit                                            *)
LEMMA HeadsBytes ==
    ASSUME AtBytes, todo # <<>>, call = "bytes"
    PROVE  Head(todo) \in LineOps \/ Received
<1>0. ReadThree \in Seq(Ops) /\ Len(ReadThree) = 91
  BY ReadThreeAt
<1>1. ASSUME NEW i \in 0 .. 2, NEW c \in 0 .. 28, BytesIn(i, c)
      PROVE  Head(todo) \in LineOps \/ Received
  <2> DEFINE k == 29 * i + c
  <2>1. todo = Rest(ReadThree, k) /\ k \in 0 .. Len(ReadThree)
    BY <1>0, <1>1 DEF BytesIn
  <2>2. ReadThree[k + 1] = Reading(i, c)
    BY ReadingAt
  <2> HIDE DEF k
  <2>3. Head(todo) = ReadThree[k + 1]
    BY <1>0, <2>1, HeadAt
  <2>4. Head(todo) = Reading(i, c)
    BY <2>2, <2>3
  <2>5. CASE c \in 1 .. 24 /\ c % 3 = 0
    <3>1. Head(todo) = "bit?"
      BY <2>4, <2>5, ReadingType
    <3> QED
      BY <1>1, <2>5, <3>1 DEF Received
  <2>6. CASE ~(c \in 1 .. 24 /\ c % 3 = 0)
    BY <2>4, <2>6, ReadingType
  <2> QED
    BY <2>5, <2>6
<1>2. ASSUME NEW k \in 87 .. 91, BytesEnd(k)
      PROVE  Head(todo) \in LineOps
  <2>1. todo = Rest(ReadThree, k) /\ k \in 0 .. Len(ReadThree) /\ ReadThree \in Seq(Ops)
    <3>1. todo = Rest(ReadThree, k)
      BY <1>2, Zenon DEF BytesEnd
    <3> QED
      BY <1>0, <3>1
  <2>2. k \in 0 .. Len(ReadThree) - 1 /\ Head(todo) = ReadThree[k + 1]
    BY <2>1, HeadAt
  <2>3. k + 1 = 88 \/ k + 1 = 89 \/ k + 1 = 90 \/ k + 1 = 91
    BY <1>0, <2>2
  <2>4. ReadThree[k + 1] \in LineOps
    BY <2>3, ReadThreeAt DEF LineOps
  <2> QED
    BY <2>2, <2>4
<1> QED
  BY <1>1, <1>2 DEF AtBytes

(* What is next is an operation on the lines, or one of these looks.         *)
LEMMA Heads ==
    ASSUME IInv, todo # <<>>
    PROVE  Head(todo) \in LineOps \/ Asked \/ Received
<1>1. Control /\ call \in Calls
  BY DEF IInv, Control
<1>2. CASE call = "init"
  BY <1>1, <1>2, HeadsInit DEF Control
<1>3. CASE call = "none"
  BY <1>1, <1>3 DEF Control, AtNone
<1>4. CASE call = "write"
  BY <1>1, <1>4, HeadsWrite DEF Control
<1>5. CASE call \in {"stop", "retry"}
  BY <1>1, <1>5, HeadsStop DEF Control
<1>6. CASE call = "attempt"
  BY <1>1, <1>6, HeadsAttempt DEF Control
<1>7. CASE call = "abandon"
  BY <1>1, <1>7, HeadsAbandon DEF Control
<1>8. CASE call = "bytes"
  BY <1>1, <1>8, HeadsBytes DEF Control
<1> QED
  BY <1>1, <1>2, <1>3, <1>4, <1>5, <1>6, <1>7, <1>8 DEF Calls

-----------------------------------------------------------------------------
(* A procedure that has done all it does to the lines                        *)

(* A procedure is at its end.                                                *)
LEMMA Emptied ==
    ASSUME NEW P \in Seq(Ops), NEW k \in 0 .. Len(P), todo = Rest(P, k), todo = <<>>
    PROVE  k = Len(P)
  BY RestEnds

AtEnd ==
    /\ call = "init" => (resets = 0 => Ready(out, port))
    /\ call = "write" => WriteDone
    /\ call \in {"stop", "retry"} => (resets = 0 => out = Lines(1, 1) /\ port = Idle)
    /\ call = "attempt" => AttemptDone
    /\ call = "abandon" => (resets = 0 => Opened(ToRead, 29, out, port))
    /\ call = "bytes" => BytesEnd(91)

(* The pins are set up.                                                      *)
LEMMA EndInit ==
    ASSUME AtInit, todo = <<>>
    PROVE  resets = 0 => Ready(out, port)
<1>1. PICK P \in soft_iic1_init, k \in 0 .. 6 :
        todo = Rest(P, k) /\ (resets = 0 => Booting(P, k, out, port))
  BY DEF AtInit
<1>2. P \in Seq(Ops) /\ Len(P) = 6
  BY BootAt
<1>3. k \in 0 .. Len(P) /\ todo = Rest(P, k)
  BY <1>1, <1>2
<1>4. k = 6
  BY <1>2, <1>3, Emptied
<1>5. resets = 0 => out = Lines(1, 1) /\ port \in {Idle, OneIn}
  BY <1>1, <1>4 DEF Booting
<1> QED
  BY <1>5, LinesAre DEF Ready

(* The STOP is over.                                                         *)
LEMMA EndStop ==
    ASSUME AtStop, todo = <<>>
    PROVE  resets = 0 => out = Lines(1, 1) /\ port = Idle
<1>1. PICK k \in 0 .. 4 : todo = Rest(iic_stop, k) /\ (resets = 0 => Stopping(k, out, port))
  BY DEF AtStop
<1>2. iic_stop \in Seq(Ops) /\ Len(iic_stop) = 4
  BY ShortOnes
<1>3. k \in 0 .. Len(iic_stop) /\ todo = Rest(iic_stop, k)
  BY <1>1, <1>2
<1>4. k = 4
  BY <1>2, <1>3, Emptied
<1> QED
  BY <1>1, <1>4 DEF Stopping

(* The read is given up.                                                     *)
LEMMA EndAbandon ==
    ASSUME AtAbandon, todo = <<>>
    PROVE  resets = 0 => Opened(ToRead, 29, out, port)
<1> DEFINE P == Abandon
<1>1. PICK k \in 0 .. 29 : todo = Rest(P, k) /\ (resets = 0 => Opened(ToRead, k, out, port))
  BY DEF AtAbandon
<1>2. P \in Seq(Ops) /\ Len(P) = 29
  BY AttemptAt
<1> HIDE DEF P
<1>3. k \in 0 .. Len(P) /\ todo = Rest(P, k)
  BY <1>1, <1>2
<1>4. k = 29
  BY <1>2, <1>3, Emptied
<1> QED
  BY <1>1, <1>4

(* The command was acknowledged.                                             *)
LEMMA EndWrite ==
    ASSUME AtWrite, todo = <<>>
    PROVE  WriteDone
<1>1. \A k \in 0 .. 59 : todo # Rest(WriteIt, k)
  <2> SUFFICES ASSUME NEW k \in 0 .. 59, todo = Rest(WriteIt, k) PROVE FALSE
    OBVIOUS
  <2> DEFINE P == WriteIt
  <2>1. P \in Seq(Ops) /\ Len(P) = 60 /\ todo = Rest(P, k)
    BY WriteRest
  <2> HIDE DEF P
  <2>2. k \in 0 .. Len(P)
    BY <2>1
  <2>3. k = 60
    BY <2>1, <2>2, Emptied
  <2> QED
    BY <2>3
<1>2. ~WriteTurn
  <2>1. 32 \in 0 .. 60
    OBVIOUS
  <2>2. Rest(WriteIt, 32) \in Seq(Ops)
    BY <2>1, WriteRest, Zenon
  <2> QED
    BY <2>2, HeadsTurn DEF WriteTurn
<1>3. ~WriteLast
  BY DEF WriteLast
<1>4. \A k \in 0 .. 31 : ~WriteAddress(k)
  <2>1. \A k \in 0 .. 31 : k \in 0 .. 59
    OBVIOUS
  <2> QED
    BY <1>1, <2>1 DEF WriteAddress
<1>5. \A k \in 32 .. 59 : ~WriteCommand(k)
  <2>1. \A k \in 32 .. 59 : k \in 0 .. 59
    OBVIOUS
  <2> QED
    BY <1>1, <2>1 DEF WriteCommand
<1> QED
  BY <1>2, <1>3, <1>4, <1>5 DEF AtWrite

(* The address was acknowledged.                                             *)
LEMMA EndAttempt ==
    ASSUME AtAttempt, todo = <<>>
    PROVE  AttemptDone
<1>1. \A k \in 0 .. 31 : ~AttemptAddress(k)
  <2> SUFFICES ASSUME NEW k \in 0 .. 31, AttemptAddress(k) PROVE FALSE
    OBVIOUS
  <2> DEFINE P == Attempt
  <2>1. P \in Seq(Ops) /\ Len(P) = 32 /\ todo = Rest(P, k)
    BY AttemptAt DEF AttemptAddress
  <2> HIDE DEF P
  <2>2. k \in 0 .. Len(P)
    BY <2>1
  <2>3. k = 32
    BY <2>1, <2>2, Emptied
  <2> QED
    BY <2>3
<1>2. ~AttemptTurn
  BY DEF AttemptTurn
<1> QED
  BY <1>1, <1>2 DEF AtAttempt

(* The bytes are in.                                                         *)
LEMMA EndBytes ==
    ASSUME AtBytes, todo = <<>>
    PROVE  BytesEnd(91)
<1>0. ReadThree \in Seq(Ops) /\ Len(ReadThree) = 91
  BY ReadThreeAt
<1>1. ASSUME NEW k \in 0 .. 91, todo = Rest(ReadThree, k)
      PROVE  k = 91
  <2>1. k \in 0 .. Len(ReadThree)
    BY <1>0
  <2> QED
    BY <1>0, <1>1, <2>1, Emptied
<1>2. \A i \in 0 .. 2, c \in 0 .. 28 : ~BytesIn(i, c)
  <2> SUFFICES ASSUME NEW i \in 0 .. 2, NEW c \in 0 .. 28, BytesIn(i, c) PROVE FALSE
    OBVIOUS
  <2> DEFINE k == 29 * i + c
  <2>1. k \in 0 .. 91 /\ k # 91
    OBVIOUS
  <2>2. todo = Rest(ReadThree, k)
    BY Zenon DEF BytesIn
  <2> HIDE DEF k
  <2> QED
    BY <1>1, <2>1, <2>2
<1>3. PICK k \in 87 .. 91 : BytesEnd(k)
  BY <1>2 DEF AtBytes
<1>4. k \in 0 .. 91
  OBVIOUS
<1>5. todo = Rest(ReadThree, k)
  BY <1>3, Zenon DEF BytesEnd
<1>6. k = 91
  BY <1>1, <1>4, <1>5
<1> QED
  BY <1>3, <1>6

(* What a procedure that has done everything leaves behind                   *)
LEMMA Ends == ASSUME IInv, todo = <<>> PROVE AtEnd
<1>1. Control
  BY DEF IInv
<1> QED
  BY <1>1, EndInit, EndStop, EndAbandon, EndWrite, EndAttempt, EndBytes DEF Control, AtEnd

-----------------------------------------------------------------------------
(* The other steps of the task                                               *)

(* A look at a data bit                                                      *)
LEMMA SampleControl ==
    ASSUME IInv, Sample
    PROVE  /\ AtBytes' /\ call = "bytes" /\ todo' \in Seq(Ops)
           /\ rbuff' \in Seq(Bit) /\ Len(rbuff') \in 0 .. 24
<1>1. PICK i \in 0 .. 2, c \in 1 .. 24 : c % 3 = 0 /\ BytesIn(i, c)
  <2>1. Head(todo) = "bit?" /\ todo # <<>>
    BY DEF Sample
  <2>2. Received
    BY <2>1, Heads DEF Asked, LineOps
  <2> QED
    BY <2>2 DEF Received
<1>2. call = "bytes"
  BY Heads DEF Sample, Asked, LineOps, Received
<1> DEFINE k == 29 * i + c
           g == Got(i, c)
<1>3. ReadThree \in Seq(Ops) /\ Len(ReadThree) = 91
  BY ReadThreeAt
<1>4. c \in 0 .. 28 /\ c + 1 \in 0 .. 28
  OBVIOUS
<1>5. k \in 0 .. 90 /\ 29 * i + (c + 1) = k + 1
  BY PlaceOn, <1>4
<1>6. Got(i, c + 1) = g + 1 /\ g \in 0 .. 24 /\ Got(i, c + 1) \in 0 .. 24
  BY <1>1, <1>4, GotOn
<1>7. Len(rbuff) = g /\ todo = Rest(ReadThree, k)
  BY <1>1, Zenon DEF BytesIn
<1>8. resets = 0 => \E r : /\ Reading3(r) /\ Byte(Flat(r), i, c, out, port)
                           /\ rbuff = SubSeq(Flat(r), 1, g)
  BY <1>1, Zenon DEF BytesIn
<1>a. rbuff \in Seq(Bit) /\ Sda(out, port) \in Bit /\ rbuff' = Append(rbuff, Sda(out, port))
  BY SdaBit DEF IInv, Simple, Sample
<1>b. rbuff' \in Seq(Bit) /\ Len(rbuff') = Len(rbuff) + 1
  <2> DEFINE b == Sda(out, port)
  <2>1. b \in Bit /\ rbuff' = Append(rbuff, b)
    BY <1>a
  <2> HIDE DEF b
  <2> QED
    BY <1>a, <2>1, AppendProperties
<1> HIDE DEF k, g
<1>9. todo' = Rest(ReadThree, k + 1) /\ todo' \in Seq(Ops)
  <2>1. k \in 0 .. Len(ReadThree) /\ k + 1 \in 0 .. Len(ReadThree)
    BY <1>3, <1>5
  <2>2. todo' = Rest(ReadThree, k + 1)
    BY <1>3, <1>7, <2>1, HeadAt DEF Sample
  <2> QED
    BY <1>3, <2>1, <2>2, RestType
<1>10. sht' = sht /\ resets' = resets /\ dev' = dev /\ out' = out /\ port' = port /\ Wanted' = Wanted
  BY DEF Sample, Wanted
<1>11. ASSUME resets = 0, NEW r, Reading3(r), Byte(Flat(r), i, c, out, port),
              rbuff = SubSeq(Flat(r), 1, g)
       PROVE  Byte(Flat(r), i, c + 1, out, port) /\ rbuff' = SubSeq(Flat(r), 1, g + 1)
  <2> DEFINE F == Flat(r)
  <2>1. F \in Seq(Bit) /\ Len(F) = 24
    BY <1>11, FlatType DEF Reading3
  <2>2. Byte(F, i, c, out, port) /\ rbuff = SubSeq(F, 1, g)
    BY <1>11
  <2> HIDE DEF F
  <2>3. Byte(F, i, c + 1, out, port) /\ g \in 0 .. 23 /\ Sda(out, port) = F[g + 1]
    BY <1>1, <2>1, <2>2, SampleBit DEF g
  <2>4. rbuff' = Append(SubSeq(F, 1, g), F[g + 1])
    BY <1>a, <2>2, <2>3
  <2>5. g \in 0 .. Len(F) - 1
    BY <2>1, <2>3
  <2>6. Append(SubSeq(F, 1, g), F[g + 1]) = SubSeq(F, 1, g + 1)
    BY <2>1, <2>5, Prefix
  <2> QED
    BY <2>3, <2>4, <2>6 DEF F
<1>12. resets = 0 => \E r : /\ Reading3(r)' /\ Byte(Flat(r), i, c + 1, out', port')
                            /\ rbuff' = SubSeq(Flat(r), 1, g + 1)
  <2> SUFFICES ASSUME resets = 0
               PROVE  \E r : /\ Reading3(r)' /\ Byte(Flat(r), i, c + 1, out', port')
                             /\ rbuff' = SubSeq(Flat(r), 1, g + 1)
    OBVIOUS
  <2>1. PICK r : /\ Reading3(r) /\ Byte(Flat(r), i, c, out, port)
                 /\ rbuff = SubSeq(Flat(r), 1, g)
    BY <1>8
  <2>2. Reading3(r)'
    BY <1>10, <2>1 DEF Reading3
  <2> QED
    BY <1>10, <1>11, <2>1, <2>2
<1>13. BytesIn(i, c + 1)'
  <2>1. Len(rbuff') = g + 1 /\ Got(i, c + 1) = g + 1
    BY <1>6, <1>7, <1>b
  <2> QED
    BY <1>5, <1>9, <1>10, <1>12, <2>1 DEF BytesIn
<1>14. AtBytes'
  <2>1. \E j \in 0 .. 2, d \in 0 .. 28 : BytesIn(j, d)'
    BY <1>4, <1>13
  <2>2. AtBytes
    BY <1>2 DEF IInv, Control
  <2>3. sht.mode \in {"RH_START", "T_START"} /\ (resets = 0 => Quiet)
    BY <2>2 DEF AtBytes
  <2> QED
    BY <1>10, <2>1, <2>3 DEF AtBytes, Quiet
<1>15. Len(rbuff') \in 0 .. 24
  BY <1>6, <1>7, <1>b
<1> QED
  BY <1>2, <1>9, <1>b, <1>14, <1>15

(* An acknowledgement pulls the data line.                                   *)
LEMMA Held ==
    ASSUME NEW b
    PROVE  /\ Sda(Lines(1, 1), Idle) = 1
           /\ Sda(Lines(1, 1), Addressed(b)) = 0 /\ Sda(Lines(1, 1), Ordered(b)) = 0
  BY LinesAre, Pulls DEF Sda

(* The acknowledgement of an address is seen exactly when the sensor gives   *)
(* it.                                                                       *)
LEMMA Seen ==
    ASSUME NEW b, Opened(b, 31, out, port) \/ Missed(31, out, port)
    PROVE  /\ out = Lines(1, 1)
           /\ Sda(out, port) = 0 => port = Addressed(b)
           /\ Sda(out, port) = 1 => port = Idle
<1> DEFINE k == 31
<1>a. k = 31 /\ k \in 29 .. 31
  OBVIOUS
<1> HIDE DEF k
<1>0. Opened(b, k, out, port) \/ Missed(k, out, port)
  BY DEF k
<1>1. out = Lines(1, 1) /\ port \in {Idle, Addressed(b)}
  BY <1>0, <1>a DEF Opened, Missed
<1> QED
  BY <1>1, Held

(* What is left of an attempt                                                *)
LEMMA AttemptRest ==
    /\ Attempt \in Seq(Ops) /\ Len(Attempt) = 32
    /\ \A k \in 0 .. 32 : Rest(Attempt, k) \in Seq(Ops) /\ Len(Rest(Attempt, k)) = 32 - k
<1> DEFINE P == Attempt
<1>1. P \in Seq(Ops) /\ Len(P) = 32
  BY AttemptAt
<1> HIDE DEF P
<1>2. \A k \in 0 .. 32 : Rest(P, k) \in Seq(Ops) /\ Len(Rest(P, k)) = 32 - k
  <2> TAKE k \in 0 .. 32
  <2>1. k \in 0 .. Len(P)
    BY <1>1
  <2> QED
    BY <1>1, <2>1, RestType
<1> QED
  BY <1>1, <1>2 DEF P

(* What follows the three looks for an acknowledgement                       *)
LEMMA AfterAsked ==
    /\ WriteAddress(31) /\ todo # <<>> => Tail(todo) = Rest(WriteIt, 32)
    /\ WriteCommand(59) /\ todo # <<>> => Tail(todo) = <<>>
    /\ AttemptAddress(31) /\ todo # <<>> => Tail(todo) = <<>>
<1>1. ASSUME NEW P \in Seq(Ops), NEW k \in 0 .. Len(P), todo = Rest(P, k), todo # <<>>
      PROVE  Tail(todo) = Rest(P, k + 1)
  BY <1>1, HeadAt
<1> DEFINE W == WriteIt
           A == Attempt
<1>2. /\ W \in Seq(Ops) /\ Len(W) = 60 /\ A \in Seq(Ops) /\ Len(A) = 32
      /\ WriteAddress(31) => todo = Rest(W, 31)
      /\ WriteCommand(59) => todo = Rest(W, 59)
      /\ AttemptAddress(31) => todo = Rest(A, 31)
  BY WriteRest, AttemptRest DEF WriteAddress, WriteCommand, AttemptAddress
<1> HIDE DEF W, A
<1>3. /\ 31 + 1 = 32 /\ 59 + 1 = 60
      /\ 31 \in 0 .. 60 /\ 59 \in 0 .. 60 /\ 31 \in 0 .. 32
  OBVIOUS
<1>4. Rest(W, 60) = <<>> /\ Rest(A, 32) = <<>>
  <2> DEFINE m == Len(W)
             n == Len(A)
  <2>1. m \in 0 .. Len(W) /\ n \in 0 .. Len(A)
    BY <1>2
  <2>2. Rest(W, m) = <<>> /\ Rest(A, n) = <<>>
    BY <1>2, <2>1, RestEnds
  <2> QED
    BY <1>2, <2>2
<1>5. WriteAddress(31) /\ todo # <<>> => Tail(todo) = Rest(W, 32)
  <2> DEFINE k == 31
  <2>1. k \in 0 .. Len(W) /\ k + 1 = 32
    BY <1>2
  <2>2. WriteAddress(31) => todo = Rest(W, k)
    BY <1>2
  <2> HIDE DEF k
  <2> QED
    BY <1>1, <1>2, <2>1, <2>2
<1>6. WriteCommand(59) /\ todo # <<>> => Tail(todo) = <<>>
  <2> DEFINE k == 59
  <2>1. k \in 0 .. Len(W) /\ k + 1 = 60
    BY <1>2
  <2>2. WriteCommand(59) => todo = Rest(W, k)
    BY <1>2
  <2> HIDE DEF k
  <2> QED
    BY <1>1, <1>2, <1>4, <2>1, <2>2
<1>7. AttemptAddress(31) /\ todo # <<>> => Tail(todo) = <<>>
  <2> DEFINE k == 31
  <2>1. k \in 0 .. Len(A) /\ k + 1 = 32
    BY <1>2
  <2>2. AttemptAddress(31) => todo = Rest(A, k)
    BY <1>2
  <2> HIDE DEF k
  <2> QED
    BY <1>1, <1>2, <1>4, <2>1, <2>2
<1> QED
  BY <1>5, <1>6, <1>7 DEF W

(* An acknowledgement is seen.                                               *)
LEMMA AcknowledgedControl ==
    ASSUME IInv, Acknowledged
    PROVE  /\ call \in {"write", "attempt"} /\ todo' \in Seq(Ops) /\ todo' # <<>>
           /\ call = "write" => AtWrite'
           /\ call = "attempt" => AtAttempt' /\ (resets = 0 => port.st = "rxack")
<1>0. /\ todo # <<>> /\ Head(todo) = "ack?" /\ Sda(out, port) = 0
      /\ todo' = <<"SCL_L">> \o Tail(todo)
  BY DEF Acknowledged
<1>a. /\ sht' = sht /\ resets' = resets /\ out' = out /\ port' = port /\ dev' = dev
      /\ over_time' = over_time /\ rbuff' = rbuff /\ WriteIt' = WriteIt /\ Wanted' = Wanted
  BY DEF Acknowledged, WriteIt, Wanted
<1>b. Tail(todo) \in Seq(Ops) /\ todo' \in Seq(Ops) /\ todo' # <<>>
  BY <1>0 DEF IInv, Simple, Ops
<1>c. todo' \in Seq(Ops) /\ todo' # <<>>
  BY <1>b
<1>1. Asked
  BY <1>0, Heads DEF LineOps, Received
<1>d. <<"SCL_L">> \o <<>> = <<"SCL_L">>
  OBVIOUS
<1>2. CASE call = "write" /\ WriteAddress(31)
  <2>1. todo' = <<"SCL_L">> \o Rest(WriteIt, 32)
    BY <1>0, <1>2, AfterAsked
  <2>2. resets = 0 => Opened(ToWrite, 31, out, port) \/ Missed(31, out, port)
    BY <1>2 DEF WriteAddress
  <2>3. resets = 0 => out = Lines(1, 1) /\ port = Addressed(ToWrite)
    BY <1>0, <2>2, Seen
  <2>4. WriteTurn'
    BY <1>a, <2>1, <2>3 DEF WriteTurn
  <2>5. AtWrite'
    BY <1>2, <1>a, <2>4 DEF IInv, Control, AtWrite
  <2> QED
    BY <1>2, <1>c, <2>5
<1>3. CASE call = "write" /\ WriteCommand(59)
  <2>1. todo' = <<"SCL_L">>
    BY <1>0, <1>3, <1>d, AfterAsked
  <2> DEFINE k == 59
             b == Command[Wanted]
  <2>a. k = 59 /\ k \in 57 .. 59
    OBVIOUS
  <2>b. resets = 0 => Commanding(b, k, out, port)
    BY <1>3 DEF WriteCommand
  <2> HIDE DEF k, b
  <2>3. resets = 0 => out = Lines(1, 1) /\ port = Ordered(b)
    BY <2>a, <2>b DEF Commanding
  <2>4. WriteLast'
    BY <1>a, <2>1, <2>3 DEF WriteLast, b
  <2>5. AtWrite'
    BY <1>3, <1>a, <2>4 DEF IInv, Control, AtWrite
  <2> QED
    BY <1>3, <1>c, <2>5
<1>4. CASE call = "attempt" /\ AttemptAddress(31)
  <2>1. todo' = <<"SCL_L">>
    BY <1>0, <1>4, <1>d, AfterAsked
  <2>2. resets = 0 => Opened(ToRead, 31, out, port) \/ Missed(31, out, port)
    BY <1>4 DEF AttemptAddress
  <2>3. resets = 0 => out = Lines(1, 1) /\ port = Addressed(ToRead)
    BY <1>0, <2>2, Seen
  <2>4. AttemptTurn'
    BY <1>a, <2>1, <2>3 DEF AttemptTurn
  <2>5. AtAttempt'
    BY <1>4, <1>a, <2>4 DEF IInv, Control, AtAttempt
  <2>6. resets = 0 => port.st = "rxack"
    BY <2>3 DEF Addressed, Acknowledge
  <2> QED
    BY <1>4, <1>c, <2>5, <2>6
<1> QED
  BY <1>1, <1>2, <1>3, <1>4 DEF Asked

(* None is seen: the sensor is off the bus.                                  *)
LEMMA NotAcknowledgedControl ==
    ASSUME IInv, NotAcknowledged
    PROVE  /\ call \in {"write", "attempt"} /\ todo' \in Seq(Ops) /\ AtStop'
           /\ call' = "retry" => AtRetry'
           /\ resets = 0 => port = Idle
<1>0. /\ todo # <<>> /\ Head(todo) = "ack?" /\ Sda(out, port) = 1
      /\ todo' = iic_stop
  BY DEF NotAcknowledged
<1>a. /\ sht' = sht /\ resets' = resets /\ out' = out /\ port' = port /\ dev' = dev
      /\ over_time' = over_time /\ rbuff' = rbuff
  BY DEF NotAcknowledged
<1>1. Asked
  BY <1>0, Heads DEF LineOps, Received
<1>2. iic_stop \in Seq(Ops) /\ Rest(iic_stop, 0) = iic_stop
  BY ShortOnes, RestEnds
<1>3. resets = 0 => out = Lines(1, 1) /\ port = Idle
  <2>1. CASE WriteAddress(31)
    <3>2. resets = 0 => Opened(ToWrite, 31, out, port) \/ Missed(31, out, port)
      BY <2>1 DEF WriteAddress
    <3> QED
      BY <1>0, <3>2, Seen
  <2>2. CASE WriteCommand(59)
    <3> DEFINE k == 59
               b == Command[Wanted]
    <3>a. k = 59 /\ k \in 57 .. 59
      OBVIOUS
    <3>b. resets = 0 => Commanding(b, k, out, port)
      BY <2>2 DEF WriteCommand
    <3> HIDE DEF k, b
    <3>3. resets = 0 => out = Lines(1, 1) /\ port = Ordered(b)
      BY <3>a, <3>b DEF Commanding
    <3>4. Sda(Lines(1, 1), Ordered(b)) = 0
      BY Held
    <3> QED
      BY <1>0, <3>3, <3>4
  <2>3. CASE AttemptAddress(31)
    <3>2. resets = 0 => Opened(ToRead, 31, out, port) \/ Missed(31, out, port)
      BY <2>3 DEF AttemptAddress
    <3> QED
      BY <1>0, <3>2, Seen
  <2> QED
    BY <1>1, <2>1, <2>2, <2>3 DEF Asked
<1>4. sht.mode \in {"RH_START", "T_START"} /\ call \in {"write", "attempt"}
  BY <1>1 DEF Asked, IInv, Control, AtWrite, AtAttempt
<1>5. AtStop'
  <2> DEFINE k == 0
  <2>1. k \in 0 .. 4 /\ todo' = Rest(iic_stop, k)
    BY <1>0, <1>2
  <2>2. resets' = 0 => Stopping(k, out', port')
    <3>1. k = 0
      OBVIOUS
    <3> HIDE DEF k
    <3> QED
      BY <1>3, <1>a, <3>1 DEF Stopping
  <2> HIDE DEF k
  <2>3. \E j \in 0 .. 4 : todo' = Rest(iic_stop, j) /\ (resets' = 0 => Stopping(j, out', port'))
    BY <2>1, <2>2
  <2> QED
    BY <1>4, <1>a, <2>3 DEF AtStop
<1>6. call' = "retry" => AtRetry'
  <2>1. call' = "retry" => call = "attempt"
    BY <1>4 DEF NotAcknowledged
  <2> QED
    BY <1>a, <2>1 DEF IInv, Control, AtAttempt, AtRetry
<1> QED
  BY <1>0, <1>2, <1>3, <1>4, <1>5, <1>6

(* A START may follow.                                                       *)
LEMMA OpenedFirst ==
    ASSUME NEW b, Ready(out, port)
    PROVE  Opened(b, 0, out, port)
<1> DEFINE k == 0
<1>1. k \in 0 .. 2 /\ k # 2 /\ k # 3 /\ k # 4 /\ k \notin 5 .. 28 /\ k \notin 29 .. 31
      /\ k # 29 /\ k # 30 /\ k # 31
  OBVIOUS
<1> HIDE DEF k
<1>2. Opened(b, k, out, port)
  BY <1>1 DEF Opened
<1> QED
  BY <1>2 DEF k

(* So it may on a released bus.                                              *)
LEMMA Released == ASSUME out = Lines(1, 1), port = Idle PROVE Ready(out, port)
  BY LinesAre DEF Ready

(* The start of an attempt and of the last address                           *)
LEMMA AttemptStarts ==
    /\ ReadAttempt(Address) = Rest(Attempt, 0) /\ ReadAddress(Address) = Rest(Abandon, 0)
    /\ ReadAttempt(Address) \in Seq(Ops) /\ ReadAddress(Address) \in Seq(Ops)
    /\ ReadAttempt(Address) # <<>>
<1> DEFINE A == Attempt
           B == Abandon
<1>1. A \in Seq(Ops) /\ B \in Seq(Ops) /\ Len(A) = 32
  BY AttemptAt
<1>2. A = ReadAttempt(Address) /\ B = ReadAddress(Address)
  BY DEF Attempt, Abandon
<1> HIDE DEF A, B
<1>3. Rest(A, 0) = A /\ Rest(B, 0) = B
  BY <1>1, RestEnds
<1>4. A # <<>>
  <2>1. Len(A) = 32
    BY <1>1
  <2>2. Len(<<>>) # 32
    OBVIOUS
  <2> QED
    BY <2>1, <2>2, Zenon
<1>5. A = Attempt /\ B = Abandon
  BY DEF A, B
<1>6. ReadAttempt(Address) = Rest(Attempt, 0)
  BY <1>2, <1>3, <1>5, Zenon
<1>7. ReadAddress(Address) = Rest(Abandon, 0)
  BY <1>2, <1>3, <1>5, Zenon
<1>8. ReadAttempt(Address) \in Seq(Ops) /\ ReadAddress(Address) \in Seq(Ops)
  BY <1>1, <1>2
<1>9. ReadAttempt(Address) # <<>>
  BY <1>2, <1>4
<1> QED
  BY <1>6, <1>7, <1>8, <1>9

(* Another attempt, or the last START                                        *)
LEMMA RetryControl ==
    ASSUME IInv, Retry
    PROVE  /\ call' \in {"attempt", "abandon"} /\ todo' \in Seq(Ops)
           /\ over_time' \in 0 .. MaxOverTime + 1 /\ over_time' # 0
           /\ call' = "attempt" => AtAttempt' /\ todo' # <<>>
           /\ call' = "abandon" => AtAbandon'
<1>0. call = "retry" /\ todo = <<>> /\ over_time' = over_time + 1
  BY DEF Retry
<1>a. /\ sht' = sht /\ resets' = resets /\ out' = out /\ port' = port /\ dev' = dev
      /\ rbuff' = rbuff
  BY DEF Retry
<1>1. over_time \in 0 .. MaxOverTime /\ rbuff = <<>> /\ MaxOverTime \in Nat
  BY <1>0, Sht20Assumption DEF IInv, Simple, Control, AtRetry
<1>2. sht.mode \in {"RH_START", "T_START"}
  BY <1>0 DEF IInv, Control, AtStop
<1>3. resets = 0 => Ready(out, port)
  BY <1>0, Ends, Released DEF AtEnd
<1>4. resets = 0 => Opened(ToRead, 0, out, port)
  BY <1>3, OpenedFirst
<1>5. CASE over_time' > MaxOverTime
  <2>1. call' = "abandon" /\ todo' = Rest(Abandon, 0) /\ todo' \in Seq(Ops)
    BY <1>5, AttemptStarts DEF Retry
  <2>2. 0 \in 0 .. 29 /\ sht'.mode \in {"RH_START", "T_START"}
    BY <1>2, <1>a
  <2>3. AtAbandon'
    BY <1>4, <1>5, <1>a, <2>1, <2>2 DEF AtAbandon
  <2> QED
    BY <1>0, <1>1, <2>1, <2>3
<1>6. CASE ~(over_time' > MaxOverTime)
  <2>1. call' = "attempt" /\ todo' = Rest(Attempt, 0) /\ todo' \in Seq(Ops) /\ todo' # <<>>
    BY <1>6, AttemptStarts DEF Retry
  <2>2. 0 \in 0 .. 31 /\ over_time' <= MaxOverTime
    BY <1>0, <1>1, <1>6
  <2>3. AttemptAddress(0)'
    BY <1>4, <1>a, <2>1 DEF AttemptAddress
  <2>4. AtAttempt'
    BY <1>1, <1>2, <1>a, <2>2, <2>3 DEF AtAttempt
  <2> QED
    BY <1>0, <1>1, <2>1, <2>2, <2>4
<1> QED
  BY <1>5, <1>6

(* The bytes after an attempt                                                *)
LEMMA ReadBytesControl ==
    ASSUME IInv, ReadBytes
    PROVE  AtBytes' /\ todo' \in Seq(Ops)
<1>0. call = "attempt" /\ todo = <<>> /\ call' = "bytes" /\ todo' = ReadThree
  BY DEF ReadBytes
<1>a. /\ sht' = sht /\ resets' = resets /\ out' = out /\ port' = port /\ dev' = dev
      /\ rbuff' = rbuff /\ Wanted' = Wanted
  BY DEF ReadBytes, Wanted
<1>1. AttemptDone /\ rbuff = <<>> /\ sht.mode \in {"RH_START", "T_START"}
  BY <1>0, Ends DEF AtEnd, IInv, Control, AtAttempt
<1>2. ReadThree \in Seq(Ops) /\ ReadThree = Rest(ReadThree, 0)
  BY ReadThreeAt, RestEnds
<1>3. Got(0, 0) = 0
  BY DEF Got
<1>4. ASSUME resets = 0
      PROVE  \E r : Reading3(r) /\ Byte(Flat(r), 0, 0, out, port) /\ <<>> = SubSeq(Flat(r), 1, 0)
  <2>1. PICK r : Reading3(r) /\ port = Send(Flat(r))
    BY <1>1, <1>4 DEF AttemptDone
  <2>2. out.scl = 0
    BY <1>1, <1>4, LinesAre DEF AttemptDone
  <2> DEFINE F == Flat(r)
             i == 0
  <2>3. F \in Seq(Bit) /\ Len(F) = 24 /\ port = Send(F)
    BY <2>1, FlatType DEF Reading3
  <2>4. 8 * i = 0
    OBVIOUS
  <2> HIDE DEF F
  <2>a. Left(F, 0) = F
    BY <2>3, LeftStep
  <2>b. SubSeq(F, 1, 0) = <<>>
    BY <2>3, SubSeqEmpty
  <2> DEFINE c == 0
  <2>c. c = 0 /\ c # 1 /\ c \notin 2 .. 25 /\ c # 26 /\ c # 27 /\ c # 28
    OBVIOUS
  <2> HIDE DEF i, c
  <2>5. Byte(F, i, c, out, port)
    BY <2>2, <2>3, <2>4, <2>a, <2>c DEF Byte
  <2> QED
    BY <2>1, <2>5, <2>b DEF F, i, c
<1>5. BytesIn(0, 0)'
  <2>1. 29 * 0 + 0 = 0 /\ Len(<<>>) = 0
    OBVIOUS
  <2>2. resets' = 0 => \E r : /\ Reading3(r)' /\ Byte(Flat(r), 0, 0, out', port')
                              /\ rbuff' = SubSeq(Flat(r), 1, 0)
    <3>1. \A r : Reading3(r)' <=> Reading3(r)
      BY <1>a DEF Reading3
    <3> QED
      BY <1>1, <1>4, <1>a, <3>1
  <2> QED
    BY <1>0, <1>1, <1>2, <1>3, <1>a, <2>1, <2>2 DEF BytesIn
<1>6. AtBytes'
  <2>1. 0 \in 0 .. 2 /\ 0 \in 0 .. 28
    OBVIOUS
  <2>2. \E i \in 0 .. 2, c \in 0 .. 28 : BytesIn(i, c)'
    BY <1>5, <2>1
  <2>3. resets = 0 => Quiet
    BY <1>1 DEF AttemptDone
  <2> QED
    BY <1>1, <1>a, <2>2, <2>3 DEF AtBytes, Quiet
<1> QED
  BY <1>0, <1>2, <1>6

(* The read after a write                                                    *)
LEMMA ReadAfterWriteControl ==
    ASSUME IInv, ReadAfterWrite
    PROVE  AtAttempt' /\ call' = "attempt" /\ todo' \in Seq(Ops) /\ todo' # <<>>
           /\ over_time' \in 0 .. MaxOverTime + 1
<1>0. /\ call \in {"write", "stop"} /\ todo = <<>> /\ call' = "attempt"
      /\ todo' = ReadAttempt(Address) /\ rbuff' = <<>> /\ over_time' = 0
  BY DEF ReadAfterWrite, StartRead
<1>a. sht' = sht /\ resets' = resets /\ out' = out /\ port' = port
  BY DEF ReadAfterWrite
<1>1. resets = 0 => Ready(out, port)
  BY <1>0, Ends, LinesAre DEF AtEnd, WriteDone, Ready
<1>2. sht.mode \in {"RH_START", "T_START"} /\ MaxOverTime \in Nat
  BY <1>0, Sht20Assumption DEF IInv, Control, AtWrite, AtStop
<1>3. resets = 0 => Opened(ToRead, 0, out, port)
  BY <1>1, OpenedFirst
<1>4. AttemptAddress(0)'
  BY <1>0, <1>3, <1>a, AttemptStarts DEF AttemptAddress
<1>5. 0 \in 0 .. 31 /\ 0 <= MaxOverTime
  BY <1>2
<1>6. AtAttempt'
  BY <1>0, <1>2, <1>4, <1>5, <1>a DEF AtAttempt
<1> QED
  BY <1>0, <1>2, <1>6, AttemptStarts

-----------------------------------------------------------------------------
(* The task's own record                                                     *)

ShtIs(m, d, h, t) == sht' = [ mode |-> m, delay |-> d, humidity |-> h, tempreture |-> t ]

(* Updates of the record, written as records                                 *)
LEMMA ShtNext ==
    ASSUME ShtOK, NEW m, NEW d, NEW h, NEW t
    PROVE  /\ sht' = [ sht EXCEPT !.mode = m, !.humidity = h ] =>
                ShtIs(m, sht.delay, h, sht.tempreture)
           /\ sht' = [ sht EXCEPT !.mode = m, !.tempreture = t ] =>
                ShtIs(m, sht.delay, sht.humidity, t)
           /\ sht' = [ sht EXCEPT !.delay = d, !.mode = m ] =>
                ShtIs(m, d, sht.humidity, sht.tempreture)
           /\ sht' = [ sht EXCEPT !.delay = d ] =>
                ShtIs(sht.mode, d, sht.humidity, sht.tempreture)
<1> DEFINE S == [ mode : {sht.mode, m}, delay : {sht.delay, d}, humidity : {sht.humidity, h},
                  tempreture : {sht.tempreture, t} ]
<1>1. sht \in S
  BY DEF ShtOK
<1>2. sht' = [ sht EXCEPT !.mode = m, !.humidity = h ] => ShtIs(m, sht.delay, h, sht.tempreture)
  BY <1>1 DEF ShtIs
<1>3. sht' = [ sht EXCEPT !.mode = m, !.tempreture = t ] => ShtIs(m, sht.delay, sht.humidity, t)
  BY <1>1 DEF ShtIs
<1>4. sht' = [ sht EXCEPT !.delay = d, !.mode = m ] => ShtIs(m, d, sht.humidity, sht.tempreture)
  BY <1>1 DEF ShtIs
<1>5. sht' = [ sht EXCEPT !.delay = d ] => ShtIs(sht.mode, d, sht.humidity, sht.tempreture)
  BY <1>1 DEF ShtIs
<1> QED
  BY <1>2, <1>3, <1>4, <1>5

(* Its fields after an update                                                *)
LEMMA ShtFields ==
    ASSUME NEW m, NEW d, NEW h, NEW t, ShtIs(m, d, h, t)
    PROVE  /\ sht'.mode = m /\ sht'.delay = d /\ sht'.humidity = h /\ sht'.tempreture = t
           /\ ShtOK'
  BY DEF ShtIs, ShtOK

(* A reading is filed.                                                       *)
LEMMA FileControl ==
    ASSUME IInv, Filed, File
    PROVE  /\ AtNone' /\ call' = "none" /\ Filed' /\ ShtOK' /\ todo' = todo
           /\ sht'.delay = sht.delay /\ sht.mode \in {"RH_START", "T_START"}
           /\ sht.mode = "RH_START" => sht'.mode = "RH_END"
           /\ sht.mode = "T_START" => sht'.mode = "T_END"
<1> DEFINE reading == SubSeq(rbuff, 1, 16)
<1>0. call = "bytes" /\ todo = <<>> /\ call' = "none" /\ todo' = todo
  BY DEF File
<1>a. /\ sht' = IF sht.mode = "RH_START"
                THEN [ sht EXCEPT !.mode = "RH_END", !.humidity = reading ]
                ELSE [ sht EXCEPT !.mode = "T_END", !.tempreture = reading ]
      /\ resets' = resets /\ out' = out /\ port' = port /\ dev' = dev
  BY DEF File
<1>1. BytesEnd(91) /\ sht.mode \in {"RH_START", "T_START"} /\ ShtOK
  BY <1>0, Ends DEF AtEnd, IInv, Control, AtBytes, Simple
<1>2. \/ sht.mode = "RH_START" /\ ShtIs("RH_END", sht.delay, reading, sht.tempreture)
      \/ sht.mode = "T_START" /\ ShtIs("T_END", sht.delay, sht.humidity, reading)
  <2> HIDE DEF reading
  <2>1. CASE sht.mode = "RH_START"
    BY <1>1, <1>a, <2>1, ShtNext
  <2>2. CASE sht.mode = "T_START"
    BY <1>1, <1>a, <2>2, ShtNext
  <2> QED
    BY <1>1, <2>1, <2>2
<1>3. /\ sht'.delay = sht.delay /\ ShtOK'
      /\ \/ sht.mode = "RH_START" /\ sht'.mode = "RH_END"
            /\ sht'.humidity = reading /\ sht'.tempreture = sht.tempreture
         \/ sht.mode = "T_START" /\ sht'.mode = "T_END"
            /\ sht'.humidity = sht.humidity /\ sht'.tempreture = reading
  <2> HIDE DEF reading
  <2>1. CASE sht.mode = "RH_START" /\ ShtIs("RH_END", sht.delay, reading, sht.tempreture)
    <3>1. /\ sht'.mode = "RH_END" /\ sht'.delay = sht.delay /\ sht'.humidity = reading
          /\ sht'.tempreture = sht.tempreture /\ ShtOK'
      BY <2>1, ShtFields, Zenon
    <3> QED
      BY <2>1, <3>1
  <2>2. CASE sht.mode = "T_START" /\ ShtIs("T_END", sht.delay, sht.humidity, reading)
    <3>1. /\ sht'.mode = "T_END" /\ sht'.delay = sht.delay /\ sht'.humidity = sht.humidity
          /\ sht'.tempreture = reading /\ ShtOK'
      BY <2>2, ShtFields, Zenon
    <3> QED
      BY <2>2, <3>1
  <2> QED
    BY <1>2, <2>1, <2>2
<1>4. ASSUME resets = 0
      PROVE  /\ out = Lines(1, 1) /\ port = Idle
             /\ InTime => reading \in Words(Wanted)
  <2>1. Ending(91, out, port) /\ \E r : Reading3(r) /\ rbuff = Flat(r)
    BY <1>1, <1>4 DEF BytesEnd
  <2>2. out = Lines(1, 1) /\ port = Idle
    <3> DEFINE k == 91
    <3>1. k = 91 /\ Ending(k, out, port)
      BY <2>1
    <3> HIDE DEF k
    <3> QED
      BY <3>1 DEF Ending
  <2>3. InTime => reading \in Words(Wanted)
    BY <2>1 DEF Reading3, Words, Word
  <2> QED
    BY <2>2, <2>3
<1> HIDE DEF reading
<1>5. AtNone'
  BY <1>0, <1>3, <1>4, <1>a DEF AtNone
<1>6. Filed'
  <2> SUFFICES ASSUME InTime, resets = 0
               PROVE  /\ sht'.humidity # None => sht'.humidity \in Words("rh")
                      /\ sht'.tempreture # None => sht'.tempreture \in Words("t")
    BY <1>a DEF Filed, FiledRight
  <2>1. /\ sht.humidity # None => sht.humidity \in Words("rh")
        /\ sht.tempreture # None => sht.tempreture \in Words("t")
    BY DEF Filed, FiledRight
  <2>2. reading \in Words(Wanted)
    BY <1>4
  <2>3. CASE sht.mode = "RH_START"
    <3>1. Wanted = "rh"
      BY <2>3 DEF Wanted
    <3> QED
      BY <1>3, <2>1, <2>2, <2>3, <3>1
  <2>4. CASE sht.mode = "T_START"
    <3>1. Wanted = "t"
      BY <2>4 DEF Wanted
    <3> QED
      BY <1>3, <2>1, <2>2, <2>4, <3>1
  <2> QED
    BY <1>1, <2>3, <2>4
<1> QED
  BY <1>0, <1>1, <1>3, <1>5, <1>6

-----------------------------------------------------------------------------
(* A round of the main loop                                                  *)

MissedFirst(o, p) == p = Addressed(ToRead) /\ o = Lines(1, 0)
Delay == (sht.delay + 1) % DelayMod
Mode == ModeAt(Delay)

RoundStarts ==
    /\ Mode = "START" /\ StartWrite(Command["rh"])
    /\ ShtIs("RH_START", Delay, sht.humidity, sht.tempreture)
    /\ UNCHANGED <<rbuff, over_time>>
RoundGoesOn ==
    /\ Mode = "RH_END" /\ StartWrite(Command["t"])
    /\ ShtIs("T_START", Delay, sht.humidity, sht.tempreture)
    /\ UNCHANGED <<rbuff, over_time>>
RoundTries ==
    /\ Mode \in {"RH_START", "T_START"} /\ StartRead
    /\ ShtIs(sht.mode, Delay, sht.humidity, sht.tempreture)
RoundWaits ==
    /\ Mode = "T_END" /\ call' = "none"
    /\ ShtIs(sht.mode, Delay, sht.humidity, sht.tempreture)
    /\ UNCHANGED <<todo, rbuff, over_time>>

(* A round does one of four things.                                          *)
LEMMA RoundCases ==
    ASSUME ShtOK, Round
    PROVE  /\ call \in {"init", "none", "abandon"} /\ todo = <<>> /\ RoundPasses
           /\ out' = out /\ port' = port /\ resets' = resets
           /\ RoundStarts \/ RoundGoesOn \/ RoundTries \/ RoundWaits
<1>1. /\ call \in {"init", "none", "abandon"} /\ todo = <<>> /\ RoundPasses
      /\ out' = out /\ port' = port /\ resets' = resets
  BY DEF Round
<1>2. \/ /\ Mode = "START" /\ StartWrite(Command["rh"])
         /\ sht' = [ sht EXCEPT !.delay = Delay, !.mode = "RH_START" ]
         /\ UNCHANGED <<rbuff, over_time>>
      \/ /\ Mode = "RH_END" /\ StartWrite(Command["t"])
         /\ sht' = [ sht EXCEPT !.delay = Delay, !.mode = "T_START" ]
         /\ UNCHANGED <<rbuff, over_time>>
      \/ /\ Mode \in {"RH_START", "T_START"} /\ StartRead
         /\ sht' = [ sht EXCEPT !.delay = Delay ]
      \/ /\ Mode = "T_END" /\ call' = "none"
         /\ sht' = [ sht EXCEPT !.delay = Delay ]
         /\ UNCHANGED <<todo, rbuff, over_time>>
  BY Zenon DEF Round, Mode, Delay
<1>3. RoundStarts \/ RoundGoesOn \/ RoundTries \/ RoundWaits
  <2> DEFINE d == Delay
  <2> HIDE DEF d
  <2>a. /\ sht' = [ sht EXCEPT !.delay = d, !.mode = "RH_START" ] =>
             ShtIs("RH_START", d, sht.humidity, sht.tempreture)
        /\ sht' = [ sht EXCEPT !.delay = d, !.mode = "T_START" ] =>
             ShtIs("T_START", d, sht.humidity, sht.tempreture)
        /\ sht' = [ sht EXCEPT !.delay = d ] =>
             ShtIs(sht.mode, d, sht.humidity, sht.tempreture)
    BY ShtNext, Zenon
  <2>1. /\ sht' = [ sht EXCEPT !.delay = Delay, !.mode = "RH_START" ] =>
             ShtIs("RH_START", Delay, sht.humidity, sht.tempreture)
        /\ sht' = [ sht EXCEPT !.delay = Delay, !.mode = "T_START" ] =>
             ShtIs("T_START", Delay, sht.humidity, sht.tempreture)
        /\ sht' = [ sht EXCEPT !.delay = Delay ] =>
             ShtIs(sht.mode, Delay, sht.humidity, sht.tempreture)
    BY <2>a DEF d
  <2> QED
    BY <1>2, <2>1, Zenon DEF RoundStarts, RoundGoesOn, RoundTries, RoundWaits
<1> QED
  BY <1>1, <1>3

(* The counter and the mode of a round                                       *)
LEMMA DelayType ==
    ASSUME sht.delay \in Nat
    PROVE  Delay \in 0 .. DelayMod - 1 /\ Mode \in {"START", sht.mode}
<1>1. Delay \in 0 .. DelayMod - 1
  <2> DEFINE d == sht.delay + 1
  <2>1. d \in Nat /\ DelayMod \in Nat \ {0}
    BY Sht20Assumption
  <2> HIDE DEF d
  <2>2. d % DelayMod \in 0 .. DelayMod - 1
    BY <2>1
  <2> QED
    BY <2>2 DEF Delay, d
<1>2. Mode \in {"START", sht.mode}
  <2> DEFINE x == Delay % Period
  <2>1. Mode = IF x = 0 THEN "START" ELSE sht.mode
    BY DEF Mode, ModeAt
  <2> HIDE DEF x
  <2> QED
    BY <2>1
<1> QED
  BY <1>1, <1>2

(* Where a round may find the bus                                            *)
LEMMA RoundFinds ==
    ASSUME IInv, call \in {"init", "none", "abandon"}, todo = <<>>
    PROVE  /\ resets = 0 => Ready(out, port) \/ (call = "abandon" /\ MissedFirst(out, port))
           /\ call = "init" => sht.mode = "START"
           /\ call = "none" => sht.mode \in {"RH_END", "T_END"}
           /\ call = "abandon" => sht.mode \in {"RH_START", "T_START"} /\ over_time > MaxOverTime
<1>1. AtEnd /\ Control
  BY Ends DEF IInv
<1>2. CASE call = "init"
  BY <1>1, <1>2 DEF AtEnd, Control, AtInit
<1>3. CASE call = "none"
  BY <1>1, <1>3, Released DEF Control, AtNone
<1>4. CASE call = "abandon"
  <2>1. sht.mode \in {"RH_START", "T_START"} /\ over_time > MaxOverTime
    BY <1>1, <1>4 DEF Control, AtAbandon
  <2>2. ASSUME resets = 0
        PROVE  Ready(out, port) \/ MissedFirst(out, port)
    <3> DEFINE k == 29
    <3>1. k = 29 /\ k \in 29 .. 31
      OBVIOUS
    <3>2. Opened(ToRead, k, out, port)
      BY <1>1, <1>4, <2>2 DEF AtEnd
    <3> HIDE DEF k
    <3>3. port \in {Idle, Addressed(ToRead)} /\ out = Lines(BitsOf(ToRead)[8], 0)
      BY <3>1, <3>2 DEF Opened
    <3>4. out = Lines(1, 0) /\ out.sda = 1
      BY <3>3, Numbers, LinesAre
    <3> QED
      BY <3>3, <3>4 DEF Ready, MissedFirst
  <2> QED
    BY <1>4, <2>1, <2>2
<1> QED
  BY <1>2, <1>3, <1>4

(* The START after a read that was given up may be missed.                   *)
LEMMA MissedBegins ==
    ASSUME NEW o, NEW p, MissedFirst(o, p)
    PROVE  Missed(0, o, p)
<1> DEFINE k == 0
<1>1. k \in 0 .. 3 /\ k \in 0 .. 1 /\ k # 2 /\ k # 3 /\ k # 4 /\ k \notin 5 .. 28 /\ k \notin 29 .. 30
      /\ k # 30 /\ k # 31
  OBVIOUS
<1> HIDE DEF k
<1>2. Missed(k, o, p)
  BY <1>1 DEF Missed, MissedFirst
<1> QED
  BY <1>2 DEF k

(* A write starts.                                                           *)
LEMMA WriteStarts ==
    ASSUME IInv, call \in {"init", "none", "abandon"}, todo = <<>>,
           NEW q \in Quantities, Wanted' = q, StartWrite(Command[q]),
           sht'.mode \in {"RH_START", "T_START"},
           out' = out, port' = port, resets' = resets, over_time' = over_time
    PROVE  AtWrite' /\ call' = "write" /\ todo' \in Seq(Ops) /\ todo' # <<>>
<1> DEFINE P == soft_iic1_write(Address, Command[q])
<1>1. call' = "write" /\ todo' = P
  BY DEF StartWrite
<1>2. WriteIt' = P
  BY DEF WriteIt
<1>3. P \in Seq(Ops) /\ Len(P) = 60
  BY WriteItAt
<1> HIDE DEF P
<1>4. Rest(P, 0) = P
  BY <1>3, RestEnds
<1>a. P # <<>>
  <2>1. Len(P) = 60
    BY <1>3
  <2>2. Len(<<>>) # 60
    OBVIOUS
  <2> QED
    BY <2>1, <2>2, Zenon
<1>5. todo' = Rest(WriteIt', 0)
  BY <1>1, <1>2, <1>4
<1>6. resets = 0 => \/ Opened(ToWrite, 0, out, port)
                    \/ over_time > MaxOverTime /\ Missed(0, out, port)
  BY RoundFinds, OpenedFirst, MissedBegins
<1>7. Taken(0)'
  BY DEF Taken
<1>8. WriteAddress(0)'
  BY <1>5, <1>6, <1>7 DEF WriteAddress
<1>9. 0 \in 0 .. 31
  OBVIOUS
<1>10. AtWrite'
  BY <1>8, <1>9 DEF AtWrite
<1> QED
  BY <1>1, <1>3, <1>10, <1>a

(* Where a round leads                                                       *)
LEMMA RoundControl ==
    ASSUME IInv, Round
    PROVE  /\ Control' /\ todo' \in Seq(Ops) /\ ShtOK'
           /\ call' = "write" => todo' # <<>>
           /\ over_time' \in 0 .. MaxOverTime + 1
           /\ rbuff' = rbuff \/ rbuff' = <<>>
<1>0. /\ IInv /\ ShtOK /\ todo \in Seq(Ops) /\ over_time \in 0 .. MaxOverTime + 1
      /\ sht.delay \in Nat
  BY Sht20Assumption DEF IInv, Simple
<1>1. /\ call \in {"init", "none", "abandon"} /\ todo = <<>> /\ RoundPasses
      /\ out' = out /\ port' = port /\ resets' = resets
      /\ RoundStarts \/ RoundGoesOn \/ RoundTries \/ RoundWaits
  BY <1>0, RoundCases
<1>2. CASE RoundStarts
  <2>1. sht'.mode = "RH_START" /\ ShtOK' /\ StartWrite(Command["rh"])
        /\ rbuff' = rbuff /\ over_time' = over_time
    BY <1>2, ShtFields DEF RoundStarts
  <2>2. Wanted' = "rh" /\ "rh" \in Quantities
    BY <2>1, Sht20Assumption DEF Wanted
  <2>3. AtWrite' /\ call' = "write" /\ todo' \in Seq(Ops) /\ todo' # <<>>
    BY <1>1, <2>1, <2>2, WriteStarts
  <2> QED
    BY <1>0, <2>1, <2>3 DEF Control, Calls
<1>3. CASE RoundGoesOn
  <2>1. sht'.mode = "T_START" /\ ShtOK' /\ StartWrite(Command["t"])
        /\ rbuff' = rbuff /\ over_time' = over_time
    BY <1>3, ShtFields DEF RoundGoesOn
  <2>2. Wanted' = "t" /\ "t" \in Quantities
    BY <2>1, Sht20Assumption DEF Wanted
  <2>3. AtWrite' /\ call' = "write" /\ todo' \in Seq(Ops) /\ todo' # <<>>
    BY <1>1, <2>1, <2>2, WriteStarts
  <2> QED
    BY <1>0, <2>1, <2>3 DEF Control, Calls
<1>4. CASE RoundTries
  <2>1. sht'.mode = sht.mode /\ ShtOK' /\ StartRead /\ Mode \in {"RH_START", "T_START"}
    BY <1>4, ShtFields DEF RoundTries
  <2>2. sht.mode \in {"RH_START", "T_START"} /\ call = "abandon"
    BY <1>0, <1>1, <2>1, DelayType, RoundFinds
  <2>3. /\ call' = "attempt" /\ todo' = Rest(Attempt, 0) /\ todo' \in Seq(Ops)
        /\ rbuff' = <<>> /\ over_time' = 0
    BY <2>1, AttemptStarts DEF StartRead
  <2>4. resets = 0 => \/ Opened(ToRead, 0, out, port)
                      \/ Missed(0, out, port)
    BY <1>1, RoundFinds, OpenedFirst, MissedBegins
  <2>5. Taken(0)'
    BY DEF Taken
  <2>6. AttemptAddress(0)'
    BY <1>1, <2>3, <2>4, <2>5 DEF AttemptAddress
  <2>7. 0 \in 0 .. 31 /\ 0 <= MaxOverTime /\ 0 \in 0 .. MaxOverTime + 1
    BY Sht20Assumption
  <2>8. AtAttempt'
    BY <2>1, <2>2, <2>3, <2>6, <2>7 DEF AtAttempt
  <2> QED
    BY <2>1, <2>3, <2>7, <2>8 DEF Control, Calls
<1>5. CASE RoundWaits
  <2>1. /\ sht'.mode = sht.mode /\ ShtOK' /\ call' = "none" /\ todo' = todo /\ rbuff' = rbuff
        /\ over_time' = over_time /\ Mode = "T_END"
    BY <1>5, ShtFields DEF RoundWaits
  <2>2. call = "none" /\ sht.mode = "T_END"
    BY <1>0, <1>1, <2>1, DelayType, RoundFinds
  <2>3. AtNone'
    BY <1>1, <2>1, <2>2 DEF IInv, Control, AtNone
  <2> QED
    BY <1>0, <2>1, <2>3 DEF Control, Calls
<1> QED
  BY <1>1, <1>2, <1>3, <1>4, <1>5

-----------------------------------------------------------------------------
(* The first state, and a reset of the processor                             *)

(* The pins float: released lines and a sensor off the bus                   *)
LEMMA BootFirst ==
    ASSUME NEW P \in soft_iic1_init
    PROVE  /\ P \in Seq(Ops) /\ P = Rest(P, 0)
           /\ \A o, p : o = Lines(1, 1) /\ p = Idle => Booting(P, 0, o, p)
<1>1. P \in Seq(Ops)
  BY BootAt
<1>2. Rest(P, 0) = P
  BY <1>1, RestEnds
<1>3. ASSUME NEW o, NEW p, o = Lines(1, 1), p = Idle
      PROVE  Booting(P, 0, o, p)
  <2> DEFINE k == 0
  <2>1. k \in 0 .. 2 /\ k # 3 /\ k # 4 /\ k # 5 /\ k # 6
    OBVIOUS
  <2> HIDE DEF k
  <2>2. Booting(P, k, o, p)
    BY <1>3, <2>1 DEF Booting
  <2> QED
    BY <2>2 DEF k
<1> QED
  BY <1>1, <1>2, <1>3

(* sht20_init                                                                *)
LEMMA FreshIs ==
    /\ Fresh.mode = "START" /\ Fresh.delay = 0 /\ Fresh.humidity = None
    /\ Fresh.tempreture = None
    /\ Fresh = [ mode |-> Fresh.mode, delay |-> Fresh.delay, humidity |-> Fresh.humidity,
                 tempreture |-> Fresh.tempreture ]
  BY DEF Fresh

(* The first state                                                           *)
LEMMA InitInv ==
    ASSUME Init
    PROVE  IInv /\ TimelyOK /\ Filed
<1>1. /\ out = Lines(1, 1) /\ todo \in soft_iic1_init /\ call = "init" /\ rbuff = <<>>
      /\ over_time = 0 /\ sht = Fresh /\ port = Idle /\ resets = 0
  BY DEF Init, Lines
<1>a. dev = [ busy |-> None, rounds |-> 0, result |-> None ]
  BY DEF Init
<1>b. dev.busy = None /\ dev.result = None
  BY <1>a
<1>2. /\ sht.mode = "START" /\ sht.delay = 0 /\ sht.humidity = None /\ sht.tempreture = None
      /\ ShtOK
  BY <1>1, FreshIs DEF ShtOK
<1>3. AtInit
  <2>1. todo = Rest(todo, 0) /\ Booting(todo, 0, out, port)
    BY <1>1, BootFirst
  <2>2. 0 \in 0 .. 6
    OBVIOUS
  <2> QED
    BY <1>1, <1>2, <2>1, <2>2 DEF AtInit
<1>4. Control
  BY <1>1, <1>3 DEF Control, Calls
<1>5. Simple
  <2>1. todo \in Seq(Ops)
    BY <1>1, BootFirst
  <2>2. <<>> \in Seq(Bit) /\ Len(<<>>) \in 0 .. 24
    OBVIOUS
  <2>3. /\ 0 \in 0 .. MaxOverTime + 1 /\ 0 \in 0 .. DelayMod - 1 /\ 0 \in 0 .. MaxResets
    BY Sht20Assumption
  <2> QED
    BY <1>1, <1>2, <2>1, <2>2, <2>3 DEF Simple
<1>6. Bus
  <2>1. LinesOK
    BY <1>1 DEF LinesOK, Lines
  <2>2. PortOK
    BY <1>1 DEF PortOK, PortOf
  <2>3. DevOK
    <3>1. 0 \in 0 .. MaxRounds
      BY Sht20Assumption
    <3> QED
      BY <1>a, <3>1 DEF DevOK
  <2> QED
    BY <2>1, <2>2, <2>3 DEF Bus
<1>7. TimelyOK
  BY <1>2, <1>b DEF TimelyOK, Timely, Quiet
<1>8. Filed
  BY <1>2 DEF Filed, FiledRight
<1> QED
  BY <1>4, <1>5, <1>6, <1>7, <1>8 DEF IInv

(* A reset of the processor                                                  *)
LEMMA ResetInv ==
    ASSUME IInv, McuReset
    PROVE  IInv' /\ TimelyOK' /\ Filed'
<1>1. /\ out' = out /\ todo' \in soft_iic1_init /\ call' = "init" /\ rbuff' = <<>>
      /\ over_time' = 0 /\ sht' = Fresh /\ port' = port /\ resets' = resets + 1
      /\ resets < MaxResets /\ dev' = [ dev EXCEPT !.rounds = 0 ]
  BY DEF McuReset
<1>2. resets \in 0 .. MaxResets /\ MaxResets \in Nat
  BY Sht20Assumption DEF IInv, Simple
<1>3. resets' # 0 /\ resets' \in 0 .. MaxResets
  BY <1>1, <1>2
<1>4. /\ sht'.mode = "START" /\ sht'.delay = 0 /\ ShtOK'
  BY <1>1, FreshIs DEF ShtOK
<1>5. AtInit'
  <2>1. todo' = Rest(todo', 0)
    BY <1>1, BootFirst
  <2>2. 0 \in 0 .. 6
    OBVIOUS
  <2> QED
    BY <1>1, <1>3, <1>4, <2>1, <2>2 DEF AtInit
<1>6. Control'
  BY <1>1, <1>5 DEF Control, Calls
<1>7. Simple'
  <2>1. todo' \in Seq(Ops)
    BY <1>1, BootFirst
  <2>2. <<>> \in Seq(Bit) /\ Len(<<>>) \in 0 .. 24
    OBVIOUS
  <2>3. /\ 0 \in 0 .. MaxOverTime + 1 /\ 0 \in 0 .. DelayMod - 1
    BY Sht20Assumption
  <2> QED
    BY <1>1, <1>3, <1>4, <2>1, <2>2, <2>3 DEF Simple
<1>8. Bus'
  <2>0. LinesOK /\ PortOK /\ DevOK
    BY DEF IInv, Bus
  <2>1. LinesOK'
    BY <1>1, <2>0 DEF LinesOK
  <2>2. DevOK' /\ dev'.busy = dev.busy /\ dev'.result = dev.result
    <3>1. 0 \in 0 .. MaxRounds
      BY Sht20Assumption
    <3> QED
      BY <1>1, <2>0, <3>1 DEF DevOK
  <2>3. PortOK'
    BY <1>1, <2>0, <2>2, PortSame
  <2> QED
    BY <2>1, <2>2, <2>3 DEF Bus
<1> QED
  BY <1>3, <1>6, <1>7, <1>8 DEF IInv, TimelyOK, Filed, FiledRight

-----------------------------------------------------------------------------
(* The rounds                                                                *)

(* The rounds are numbers.                                                   *)
LEMMA AgeType ==
    ASSUME IInv
    PROVE  /\ Age \in Nat /\ First \in 0 .. 1 /\ Due \in Nat /\ MaxRounds \in Nat
           /\ Due <= First + 2 * MaxRounds + 2
<1>1. sht.delay \in Nat /\ Period \in Nat \ {0} /\ MaxRounds \in Nat
  BY Sht20Assumption DEF IInv, Simple
<1>2. Age \in Nat
  <2> DEFINE d == sht.delay
  <2>1. d \in Nat /\ Period \in Nat \ {0}
    BY <1>1
  <2> HIDE DEF d
  <2>2. d % Period \in Nat
    BY <2>1
  <2> QED
    BY <2>2 DEF Age, d
<1>3. First \in 0 .. 1
  BY DEF First
<1>4. Due \in Nat /\ Due <= First + 2 * MaxRounds + 2
  BY <1>1, <1>3 DEF Due
<1> QED
  BY <1>1, <1>2, <1>3, <1>4

(* The measurement is over.                                                  *)
LEMMA MeasuredControl ==
    ASSUME IInv, Measured
    PROVE  Control'
<1>a. /\ sht' = sht /\ resets' = resets /\ out' = out /\ port' = port /\ todo' = todo
      /\ over_time' = over_time /\ rbuff' = rbuff /\ call' = call
  BY DEF Measured
<1>b. WriteIt' = WriteIt /\ Wanted' = Wanted
  BY <1>a DEF WriteIt, Wanted
<1>c. \A r : Reading3(r)' <=> Reading3(r)
  BY <1>b DEF Reading3
<1>d. ~Quiet
  BY DEF Measured, Quiet
<1>0. Control
  BY DEF IInv
<1>1. AtInit => AtInit'
  BY <1>a DEF AtInit
<1>2. AtNone => AtNone'
  BY <1>a DEF AtNone
<1>3. AtWrite => AtWrite'
  <2>1. ASSUME NEW k \in 0 .. 31, WriteAddress(k) PROVE WriteAddress(k)'
    <3>1. Taken(k) => Taken(k)'
      BY <1>d DEF Taken
    <3> QED
      BY <1>a, <1>b, <2>1, <3>1 DEF WriteAddress
  <2>2. WriteTurn => WriteTurn'
    BY <1>a, <1>b DEF WriteTurn
  <2>3. ASSUME NEW k \in 32 .. 59, WriteCommand(k) PROVE WriteCommand(k)'
    BY <1>a, <1>b, <2>3 DEF WriteCommand
  <2>4. WriteLast => WriteLast'
    BY <1>a, <1>b DEF WriteLast
  <2>5. WriteDone => WriteDone'
    BY <1>a DEF WriteDone
  <2> QED
    BY <1>a, <2>1, <2>2, <2>3, <2>4, <2>5 DEF AtWrite
<1>4. AtStop => AtStop'
  BY <1>a DEF AtStop
<1>5. AtRetry => AtRetry'
  BY <1>a DEF AtRetry
<1>6. AtAttempt => AtAttempt'
  <2>1. ASSUME NEW k \in 0 .. 31, AttemptAddress(k) PROVE AttemptAddress(k)'
    <3>1. Taken(k) => Taken(k)'
      BY <1>d DEF Taken
    <3> QED
      BY <1>a, <2>1, <3>1 DEF AttemptAddress
  <2>2. AttemptTurn => AttemptTurn'
    BY <1>a DEF AttemptTurn
  <2>3. AttemptDone => AttemptDone'
    BY <1>a, <1>d DEF AttemptDone
  <2> QED
    BY <1>a, <2>1, <2>2, <2>3 DEF AtAttempt
<1>7. AtAbandon => AtAbandon'
  BY <1>a DEF AtAbandon
<1>8. AtBytes => AtBytes'
  <2> SUFFICES ASSUME AtBytes PROVE AtBytes'
    OBVIOUS
  <2>0. resets # 0
    BY <1>d DEF AtBytes
  <2>1. ASSUME NEW i \in 0 .. 2, NEW c \in 0 .. 28, BytesIn(i, c) PROVE BytesIn(i, c)'
    BY <1>a, <2>0, <2>1 DEF BytesIn
  <2>2. ASSUME NEW k \in 87 .. 91, BytesEnd(k) PROVE BytesEnd(k)'
    BY <1>a, <2>0, <2>2 DEF BytesEnd
  <2> QED
    BY <1>a, <2>0, <2>1, <2>2 DEF AtBytes
<1> QED
  BY <1>0, <1>a, <1>1, <1>2, <1>3, <1>4, <1>5, <1>6, <1>7, <1>8 DEF Control

(* The end of a measurement                                                  *)
LEMMA MeasuredInv ==
    ASSUME IInv, TimelyOK, Filed, Measured
    PROVE  IInv' /\ TimelyOK' /\ Filed'
<1>a. /\ sht' = sht /\ resets' = resets /\ out' = out /\ port' = port /\ todo' = todo
      /\ over_time' = over_time /\ rbuff' = rbuff /\ call' = call /\ dev.busy # None
  BY DEF Measured
<1>0. Simple /\ LinesOK /\ PortOK /\ DevOK
  BY DEF IInv, Bus
<1>1. PICK bytes \in Readings(dev.busy) :
        dev' = [ busy |-> None, rounds |-> 0, result |-> bytes ]
  BY DEF Measured
<1>2. dev'.busy = None /\ dev'.rounds = 0 /\ dev'.result = bytes
  BY <1>1
<1>3. dev.busy \in Quantities /\ bytes \in Results /\ dev.rounds \in Nat
  BY <1>0, <1>a, Sht20Assumption DEF DevOK, Results
<1>4. DevOK'
  <2>1. 0 \in 0 .. MaxRounds
    BY Sht20Assumption
  <2> QED
    BY <1>1, <1>3, <2>1 DEF DevOK
<1>5. PortOK'
  BY <1>0, <1>a DEF PortOK, PortOf
<1>6. Simple'
  BY <1>0, <1>a DEF Simple, ShtOK
<1>7. LinesOK'
  BY <1>0, <1>a DEF LinesOK
<1>8. TimelyOK'
  <2> SUFFICES ASSUME InTime, resets = 0
               PROVE  Timely'
    BY <1>a DEF TimelyOK
  <2>1. Timely
    BY DEF TimelyOK
  <2>2. Age' = Age /\ Due' = Due /\ First' = First /\ Wanted' = Wanted /\ (FirstTry' <=> FirstTry)
    BY <1>a DEF Age, Due, First, Wanted, FirstTry
  <2>3. sht.mode \in {"RH_START", "T_START"}
    BY <1>0, <1>a, <2>1 DEF Timely, Quiet, Simple
  <2>4. dev.busy = Wanted /\ Age + dev.rounds <= Due
    BY <1>a, <2>1, <2>3 DEF Timely
  <2>5. Age <= Due /\ Age <= Due + 1
    BY <1>3, <2>4, AgeType
  <2>6. /\ call = "write" => Age <= Due - MaxRounds
        /\ call = "bytes" \/ (call = "attempt" /\ todo = <<>>) => Age <= Due + 1
    BY <2>1, <2>3 DEF Timely
  <2> QED
    BY <1>1, <1>2, <1>a, <2>2, <2>3, <2>4, <2>5, <2>6 DEF Timely
<1>9. Filed'
  BY <1>a DEF Filed, FiledRight
<1>10. Control'
  BY MeasuredControl
<1> QED
  BY <1>4, <1>5, <1>6, <1>7, <1>8, <1>9, <1>10 DEF IInv, Bus

-----------------------------------------------------------------------------
(* The invariant is kept.                                                    *)

(* Steps that leave the bus alone                                            *)
LEMMA BusSame ==
    ASSUME Bus, out' = out, port' = port, dev' = dev
    PROVE  Bus'
<1>1. LinesOK' /\ DevOK'
  BY DEF Bus, LinesOK, DevOK
<1>2. PortOK'
  BY PortSame DEF Bus
<1> QED
  BY <1>1, <1>2 DEF Bus

(* An operation on the lines                                                 *)
LEMMA OperateInv ==
    ASSUME IInv, TimelyOK, Operate
    PROVE  IInv' /\ Moved /\ sht.mode \in {"START", "RH_START", "T_START"}
           /\ (sht.mode = "START" => call = "init")
<1>a. /\ todo # <<>> /\ Head(todo) \notin {"ack?", "bit?"} /\ todo' = Tail(todo)
      /\ call' = call /\ rbuff' = rbuff /\ over_time' = over_time /\ sht' = sht
      /\ resets' = resets
  BY DEF Operate
<1>0. Simple /\ Control /\ LinesOK /\ PortOK /\ DevOK
  BY DEF IInv, Bus
<1>1. call # "none" /\ call \in Calls
  BY <1>0, <1>a DEF Control, AtNone
<1>2. Simple'
  <2>1. todo' \in Seq(Ops)
    BY <1>0, <1>a DEF Simple
  <2> QED
    BY <1>0, <1>a, <2>1 DEF Simple, ShtOK
<1>3. Bus'
  <2>1. Head(todo) \in LineOps
    BY <1>a, Heads DEF Asked, Received
  <2>2. Step(Head(todo))
    BY DEF Operate, Step
  <2>3. LinesOK' /\ PortOK' /\ DevOK'
    BY <1>0, <2>1, <2>2, PortStep DEF LineOps
  <2> QED
    BY <2>3 DEF Bus
<1>4. Control' /\ Moved
  <2>1. CASE call = "init"
    BY <1>a, <2>1, OperateInit DEF Control, Calls
  <2>2. CASE call = "write"
    BY <1>a, <2>2, OperateWrite DEF Control, Calls
  <2>3. CASE call = "stop"
    BY <1>a, <2>3, OperateStop DEF Control, Calls
  <2>4. CASE call = "retry"
    <3>1. AtRetry'
      BY <1>0, <1>a, <2>4 DEF Control, AtRetry
    <3> QED
      BY <1>a, <2>4, <3>1, OperateStop DEF Control, Calls
  <2>5. CASE call = "attempt"
    BY <1>a, <2>5, OperateAttempt DEF Control, Calls
  <2>6. CASE call = "abandon"
    BY <1>a, <2>6, OperateAbandon DEF Control, Calls
  <2>7. CASE call = "bytes"
    BY <1>a, <2>7, OperateBytes DEF Control, Calls
  <2> QED
    BY <1>1, <2>1, <2>2, <2>3, <2>4, <2>5, <2>6, <2>7 DEF Calls
<1>5. /\ sht.mode \in {"START", "RH_START", "T_START"}
      /\ (sht.mode = "START" => call = "init")
  BY <1>0, <1>1 DEF Control, Calls, AtInit, AtWrite, AtStop, AtAttempt, AtAbandon, AtBytes
<1> QED
  BY <1>2, <1>3, <1>4, <1>5 DEF IInv

(* A look at a data bit                                                      *)
LEMMA SampleInv ==
    ASSUME IInv, Sample
    PROVE  IInv' /\ call = "bytes"
<1>1. /\ AtBytes' /\ call = "bytes" /\ todo' \in Seq(Ops)
      /\ rbuff' \in Seq(Bit) /\ Len(rbuff') \in 0 .. 24
  BY SampleControl
<1>a. /\ out' = out /\ call' = call /\ over_time' = over_time /\ sht' = sht /\ port' = port
      /\ dev' = dev /\ resets' = resets
  BY DEF Sample
<1>2. Simple'
  BY <1>1, <1>a DEF IInv, Simple, ShtOK
<1>3. Control'
  BY <1>1, <1>a DEF Control, Calls
<1>4. Bus'
  BY <1>a, BusSame DEF IInv
<1> QED
  BY <1>1, <1>2, <1>3, <1>4 DEF IInv

(* An acknowledgement                                                        *)
LEMMA AcknowledgedInv ==
    ASSUME IInv, Acknowledged
    PROVE  IInv'
<1>1. /\ call \in {"write", "attempt"} /\ todo' \in Seq(Ops)
      /\ call = "write" => AtWrite'
      /\ call = "attempt" => AtAttempt'
  BY AcknowledgedControl
<1>a. /\ out' = out /\ call' = call /\ over_time' = over_time /\ sht' = sht /\ port' = port
      /\ dev' = dev /\ resets' = resets /\ rbuff' = rbuff
  BY DEF Acknowledged
<1>2. Simple'
  BY <1>1, <1>a DEF IInv, Simple, ShtOK
<1>3. Control'
  BY <1>1, <1>a DEF Control, Calls
<1>4. Bus'
  BY <1>a, BusSame DEF IInv
<1> QED
  BY <1>2, <1>3, <1>4 DEF IInv

(* A missing one                                                             *)
LEMMA NotAcknowledgedInv ==
    ASSUME IInv, NotAcknowledged
    PROVE  IInv' /\ call' \in {"stop", "retry"}
<1>1. /\ call \in {"write", "attempt"} /\ todo' \in Seq(Ops) /\ AtStop'
      /\ call' = "retry" => AtRetry'
  BY NotAcknowledgedControl
<1>a. /\ out' = out /\ over_time' = over_time /\ sht' = sht /\ port' = port
      /\ dev' = dev /\ resets' = resets /\ rbuff' = rbuff /\ call' \in {"stop", "retry"}
  BY DEF NotAcknowledged
<1>2. Simple'
  BY <1>1, <1>a DEF IInv, Simple, ShtOK
<1>3. Control'
  BY <1>1, <1>a DEF Control, Calls
<1>4. Bus'
  BY <1>a, BusSame DEF IInv
<1> QED
  BY <1>a, <1>2, <1>3, <1>4 DEF IInv

(* The next attempt                                                          *)
LEMMA RetryInv ==
    ASSUME IInv, Retry
    PROVE  IInv'
<1>1. /\ call' \in {"attempt", "abandon"} /\ todo' \in Seq(Ops)
      /\ over_time' \in 0 .. MaxOverTime + 1
      /\ call' = "attempt" => AtAttempt'
      /\ call' = "abandon" => AtAbandon'
  BY RetryControl
<1>a. /\ out' = out /\ sht' = sht /\ port' = port
      /\ dev' = dev /\ resets' = resets /\ rbuff' = rbuff
  BY DEF Retry
<1>2. Simple'
  BY <1>1, <1>a DEF IInv, Simple, ShtOK
<1>3. Control'
  BY <1>1 DEF Control, Calls
<1>4. Bus'
  BY <1>a, BusSame DEF IInv
<1> QED
  BY <1>2, <1>3, <1>4 DEF IInv

(* The start of the bytes                                                    *)
LEMMA ReadBytesInv ==
    ASSUME IInv, ReadBytes
    PROVE  IInv'
<1>1. AtBytes' /\ todo' \in Seq(Ops)
  BY ReadBytesControl
<1>a. /\ out' = out /\ sht' = sht /\ port' = port /\ call' = "bytes"
      /\ dev' = dev /\ resets' = resets /\ rbuff' = rbuff /\ over_time' = over_time
  BY DEF ReadBytes
<1>2. Simple'
  BY <1>1, <1>a DEF IInv, Simple, ShtOK
<1>3. Control'
  BY <1>1, <1>a DEF Control, Calls
<1>4. Bus'
  BY <1>a, BusSame DEF IInv
<1> QED
  BY <1>2, <1>3, <1>4 DEF IInv

(* A reading is filed.                                                       *)
LEMMA FileInv ==
    ASSUME IInv, Filed, File
    PROVE  IInv'
<1>1. /\ AtNone' /\ call' = "none" /\ ShtOK' /\ todo' = todo /\ sht'.delay = sht.delay
  BY FileControl
<1>a. /\ out' = out /\ port' = port
      /\ dev' = dev /\ resets' = resets /\ rbuff' = rbuff /\ over_time' = over_time
  BY DEF File
<1>b. sht'.mode \in {"RH_END", "T_END"}
  BY <1>1 DEF AtNone
<1>2. Simple'
  BY <1>1, <1>a, <1>b DEF IInv, Simple
<1>3. Control'
  BY <1>1 DEF Control, Calls
<1>4. Bus'
  BY <1>a, BusSame DEF IInv
<1> QED
  BY <1>2, <1>3, <1>4 DEF IInv

(* The read after a write                                                    *)
LEMMA ReadAfterWriteInv ==
    ASSUME IInv, ReadAfterWrite
    PROVE  IInv'
<1>1. /\ AtAttempt' /\ call' = "attempt" /\ todo' \in Seq(Ops)
      /\ over_time' \in 0 .. MaxOverTime + 1
  BY ReadAfterWriteControl
<1>a. /\ out' = out /\ sht' = sht /\ port' = port
      /\ dev' = dev /\ resets' = resets /\ rbuff' = <<>>
  BY DEF ReadAfterWrite, StartRead
<1>b. <<>> \in Seq(Bit) /\ Len(<<>>) \in 0 .. 24
  OBVIOUS
<1>2. Simple'
  BY <1>1, <1>a, <1>b DEF IInv, Simple, ShtOK
<1>3. Control'
  BY <1>1 DEF Control, Calls
<1>4. Bus'
  BY <1>a, BusSame DEF IInv
<1> QED
  BY <1>2, <1>3, <1>4 DEF IInv

-----------------------------------------------------------------------------
(* ... by a round                                                            *)

(* A round of a measurement                                                  *)
LEMMA RoundDev ==
    ASSUME DevOK, RoundPasses
    PROVE  /\ DevOK' /\ dev'.busy = dev.busy /\ dev'.result = dev.result
           /\ dev.busy # None => dev'.rounds = dev.rounds - 1
<1>1. CASE dev.busy = None
  BY <1>1 DEF RoundPasses, DevOK
<1>2. CASE dev.busy # None
  <2>1. dev.rounds - 1 \in 0 .. MaxRounds
    BY <1>2, Sht20Assumption DEF RoundPasses, DevOK
  <2>2. dev' = [ dev EXCEPT !.rounds = dev.rounds - 1 ]
    BY <1>2 DEF RoundPasses
  <2> QED
    BY <1>2, <2>1, <2>2 DEF DevOK
<1> QED
  BY <1>1, <1>2

(* What a round makes of the record                                          *)
LEMMA RoundFields ==
    ASSUME ShtOK, Round
    PROVE  /\ sht'.delay = Delay /\ sht'.humidity = sht.humidity
           /\ sht'.tempreture = sht.tempreture
           /\ \/ RoundStarts /\ sht'.mode = "RH_START" /\ call' = "write"
              \/ RoundGoesOn /\ sht'.mode = "T_START" /\ call' = "write"
              \/ RoundTries /\ sht'.mode = sht.mode /\ call' = "attempt"
              \/ RoundWaits /\ sht'.mode = sht.mode /\ call' = "none"
<1> DEFINE d == Delay
<1>0. d = Delay
  OBVIOUS
<1> HIDE DEF d
<1>1. CASE RoundStarts
  <2>1. ShtIs("RH_START", d, sht.humidity, sht.tempreture) /\ call' = "write"
    BY <1>0, <1>1 DEF RoundStarts, StartWrite
  <2> QED
    BY <1>0, <1>1, <2>1, ShtFields
<1>2. CASE RoundGoesOn
  <2>1. ShtIs("T_START", d, sht.humidity, sht.tempreture) /\ call' = "write"
    BY <1>0, <1>2 DEF RoundGoesOn, StartWrite
  <2> QED
    BY <1>0, <1>2, <2>1, ShtFields
<1>3. CASE RoundTries
  <2>1. ShtIs(sht.mode, d, sht.humidity, sht.tempreture) /\ call' = "attempt"
    BY <1>0, <1>3 DEF RoundTries, StartRead
  <2> QED
    BY <1>0, <1>3, <2>1, ShtFields
<1>4. CASE RoundWaits
  <2>1. ShtIs(sht.mode, d, sht.humidity, sht.tempreture) /\ call' = "none"
    BY <1>0, <1>4 DEF RoundWaits
  <2> QED
    BY <1>0, <1>4, <2>1, ShtFields
<1> QED
  BY <1>1, <1>2, <1>3, <1>4, RoundCases

(* A round                                                                   *)
LEMMA RoundInv ==
    ASSUME IInv, Round
    PROVE  IInv'
<1>0. Simple /\ LinesOK /\ PortOK /\ DevOK /\ ShtOK
  BY DEF IInv, Bus, Simple
<1>1. /\ Control' /\ todo' \in Seq(Ops) /\ ShtOK' /\ over_time' \in 0 .. MaxOverTime + 1
      /\ rbuff' = rbuff \/ rbuff' = <<>>
  BY RoundControl
<1>2. /\ RoundPasses /\ out' = out /\ port' = port /\ resets' = resets
  BY <1>0, RoundCases
<1>3. sht'.delay = Delay /\ sht'.mode \in {"START", "RH_START", "RH_END", "T_START", "T_END"}
  BY <1>0, RoundFields DEF Simple
<1>4. sht.delay \in Nat
  BY <1>0, Sht20Assumption DEF Simple
<1>5. Simple'
  <2>1. rbuff' \in Seq(Bit) /\ Len(rbuff') \in 0 .. 24
    <3>1. <<>> \in Seq(Bit) /\ Len(<<>>) \in 0 .. 24
      OBVIOUS
    <3> QED
      BY <1>0, <1>1, <3>1 DEF Simple
  <2>2. sht'.delay \in 0 .. DelayMod - 1
    BY <1>3, <1>4, DelayType
  <2>3. resets' \in 0 .. MaxResets
    BY <1>0, <1>2 DEF Simple
  <2> QED
    BY <1>1, <1>3, <2>1, <2>2, <2>3 DEF Simple
<1>6. Bus'
  <2>1. DevOK' /\ dev'.busy = dev.busy /\ dev'.result = dev.result
    BY <1>0, <1>2, RoundDev
  <2>2. PortOK' /\ LinesOK'
    BY <1>0, <1>2, <2>1, PortSame DEF LinesOK
  <2> QED
    BY <2>1, <2>2 DEF Bus
<1> QED
  BY <1>1, <1>5, <1>6 DEF IInv

-----------------------------------------------------------------------------
(* Readings are fetched in time.                                             *)

Resting == {"START", "RH_END", "T_END"}
Measuring == {"RH_START", "T_START"}

(* Between two measurements the sensor has nothing.                          *)
LEMMA TimelyRests ==
    ASSUME Timely, sht.mode \in Resting
    PROVE  Quiet /\ (sht.mode = "RH_END" => Age <= First + MaxRounds + 1)
  BY DEF Timely, Resting

(* During one it has nothing but what is wanted, and not for too long.       *)
LEMMA TimelyMeasures ==
    ASSUME Timely, sht.mode \in Measuring
    PROVE  /\ dev.busy \in {None, Wanted} /\ (dev.busy # None => Age + dev.rounds <= Due)
           /\ dev.result # None => /\ dev.result \in Readings(Wanted)
                                   /\ Age <= Due + 1 /\ (~FirstTry => Age <= Due)
           /\ call = "write" => Age <= Due - MaxRounds
           /\ call = "bytes" \/ (call = "attempt" /\ todo = <<>>) => Age <= Due + 1
  BY DEF Timely, Measuring

(* Steps that leave the sensor and the mode alone                            *)
LEMMA TimelySame ==
    ASSUME IInv, TimelyOK, sht' = sht, resets' = resets, dev' = dev,
           call' = "write" => call = "write",
           call' = "bytes" \/ (call' = "attempt" /\ todo' = <<>>) =>
                call = "bytes" \/ (call = "attempt" /\ todo = <<>>),
           resets = 0 /\ dev.result # None /\ FirstTry => FirstTry'
    PROVE  TimelyOK'
<1> SUFFICES ASSUME InTime, resets = 0
             PROVE  Timely'
  BY DEF TimelyOK
<1>1. Timely
  BY DEF TimelyOK
<1>2. Age' = Age /\ Due' = Due /\ First' = First /\ Wanted' = Wanted
  BY DEF Age, Due, First, Wanted
<1>3. Quiet => Quiet'
  BY DEF Quiet
<1>4. CASE sht.mode \in Resting
  BY <1>1, <1>2, <1>3, <1>4, TimelyRests DEF Timely, Resting
<1>5. CASE sht.mode \in Measuring
  <2>1. /\ dev.busy \in {None, Wanted} /\ (dev.busy # None => Age + dev.rounds <= Due)
        /\ dev.result # None => /\ dev.result \in Readings(Wanted)
                                /\ Age <= Due + 1 /\ (~FirstTry => Age <= Due)
        /\ call = "write" => Age <= Due - MaxRounds
        /\ call = "bytes" \/ (call = "attempt" /\ todo = <<>>) => Age <= Due + 1
    BY <1>1, <1>5, TimelyMeasures
  <2> QED
    BY <1>2, <1>5, <2>1 DEF Timely, Measuring
<1> QED
  BY <1>4, <1>5 DEF IInv, Simple, Resting, Measuring

(* A look at a data bit                                                      *)
LEMMA SampleTimely ==
    ASSUME IInv, TimelyOK, Sample
    PROVE  TimelyOK'
<1>1. call = "bytes" /\ sht' = sht /\ resets' = resets /\ dev' = dev /\ call' = call
  BY SampleInv DEF Sample
<1>2. ~FirstTry
  BY <1>1 DEF FirstTry
<1> QED
  BY <1>1, <1>2, TimelySame

(* An acknowledgement                                                        *)
LEMMA AcknowledgedTimely ==
    ASSUME IInv, TimelyOK, Acknowledged
    PROVE  TimelyOK'
<1>1. /\ sht' = sht /\ resets' = resets /\ dev' = dev /\ call' = call /\ port' = port
      /\ over_time' = over_time
  BY DEF Acknowledged
<1>2. /\ call \in {"write", "attempt"} /\ todo' # <<>>
      /\ call = "attempt" => (resets = 0 => port.st = "rxack")
  BY AcknowledgedControl
<1>3. resets = 0 /\ FirstTry => FirstTry'
  BY <1>1, <1>2 DEF FirstTry
<1> QED
  BY <1>1, <1>2, <1>3, TimelySame

(* A missing one                                                             *)
LEMMA NotAcknowledgedTimely ==
    ASSUME IInv, TimelyOK, NotAcknowledged
    PROVE  TimelyOK'
<1>1. /\ sht' = sht /\ resets' = resets /\ dev' = dev /\ call' \in {"stop", "retry"}
      /\ todo # <<>> /\ Head(todo) = "ack?"
  BY DEF NotAcknowledged
<1>2. resets = 0 => port = Idle
  BY NotAcknowledgedControl
<1>3. resets = 0 => ~FirstTry
  <2> SUFFICES ASSUME resets = 0, call = "attempt" PROVE ~FirstTry
    BY DEF FirstTry
  <2>1. port.st # "rxack"
    BY <1>2 DEF Idle
  <2>2. AttemptAddress(31)
    BY <1>1, Heads DEF Asked, Received, LineOps
  <2> DEFINE n == 31
  <2>3. n \in 0 .. 32 /\ 32 - n = 1
    OBVIOUS
  <2>4. todo = Rest(Attempt, n)
    BY <2>2 DEF AttemptAddress
  <2> HIDE DEF n
  <2>5. Len(todo) = 1
    BY <2>3, <2>4, AttemptRest
  <2> QED
    BY <2>1, <2>5 DEF FirstTry
<1> QED
  BY <1>1, <1>3, TimelySame

(* The next attempt                                                          *)
LEMMA RetryTimely ==
    ASSUME IInv, TimelyOK, Retry
    PROVE  TimelyOK'
<1>1. /\ sht' = sht /\ resets' = resets /\ dev' = dev /\ call = "retry"
  BY DEF Retry
<1>2. /\ call' \in {"attempt", "abandon"} /\ (call' = "attempt" => todo' # <<>>)
  BY RetryControl
<1>3. ~FirstTry
  BY <1>1 DEF FirstTry
<1> QED
  BY <1>1, <1>2, <1>3, TimelySame

(* The start of the bytes                                                    *)
LEMMA ReadBytesTimely ==
    ASSUME IInv, TimelyOK, ReadBytes
    PROVE  TimelyOK'
<1>1. /\ sht' = sht /\ resets' = resets /\ dev' = dev /\ call = "attempt" /\ todo = <<>>
      /\ call' = "bytes"
  BY DEF ReadBytes
<1>2. resets = 0 => Quiet
  BY <1>1, Ends DEF AtEnd, AttemptDone
<1>3. resets = 0 => dev.result = None
  BY <1>2 DEF Quiet
<1> QED
  BY <1>1, <1>3, TimelySame

(* The read after a write                                                    *)
LEMMA ReadAfterWriteTimely ==
    ASSUME IInv, TimelyOK, ReadAfterWrite
    PROVE  TimelyOK'
<1>1. /\ sht' = sht /\ resets' = resets /\ dev' = dev /\ call \in {"write", "stop"}
  BY DEF ReadAfterWrite
<1>2. call' = "attempt" /\ todo' # <<>>
  BY ReadAfterWriteControl
<1>3. ~FirstTry
  BY <1>1 DEF FirstTry
<1> QED
  BY <1>1, <1>2, <1>3, TimelySame

(* A reading is filed: the sensor has given it away.                         *)
LEMMA FileTimely ==
    ASSUME IInv, TimelyOK, Filed, File
    PROVE  TimelyOK'
<1>1. /\ resets' = resets /\ dev' = dev /\ call = "bytes"
  BY DEF File
<1>2. /\ sht'.delay = sht.delay /\ sht.mode \in Measuring
      /\ sht.mode = "RH_START" => sht'.mode = "RH_END"
      /\ sht.mode = "T_START" => sht'.mode = "T_END"
  BY FileControl DEF Measuring
<1> SUFFICES ASSUME InTime, resets = 0
             PROVE  Timely'
  BY <1>1 DEF TimelyOK
<1>3. Timely
  BY DEF TimelyOK
<1>4. Quiet'
  BY <1>1 DEF IInv, Control, AtBytes, Quiet
<1>5. Age' = Age /\ First' = First
  BY <1>2 DEF Age, First
<1>6. sht.mode = "RH_START" => Age <= First + MaxRounds + 1
  <2> SUFFICES ASSUME sht.mode = "RH_START" PROVE Age <= First + MaxRounds + 1
    OBVIOUS
  <2>1. Age <= Due + 1
    BY <1>1, <1>2, <1>3, TimelyMeasures
  <2>2. Due = First + MaxRounds
    BY DEF Due
  <2> QED
    BY <2>1, <2>2, AgeType
<1>7. sht'.mode \in Resting /\ (sht'.mode = "RH_END" => sht.mode = "RH_START")
  BY <1>2 DEF Measuring, Resting
<1> QED
  BY <1>4, <1>5, <1>6, <1>7 DEF Timely, Resting

-----------------------------------------------------------------------------
(* ... by an operation on the lines                                          *)

(* What the sensor has, it has in time.                                      *)
LEMMA OperateTimely ==
    ASSUME IInv, TimelyOK, Operate
    PROVE  TimelyOK'
<1>a. /\ sht' = sht /\ resets' = resets /\ call' = call /\ over_time' = over_time
      /\ todo # <<>> /\ Head(todo) \notin {"ack?", "bit?"}
  BY DEF Operate
<1> SUFFICES ASSUME InTime, resets = 0
             PROVE  Timely'
  BY <1>a DEF TimelyOK
<1>1. Timely
  BY DEF TimelyOK
<1>2. Age' = Age /\ Due' = Due /\ First' = First /\ Wanted' = Wanted
  BY <1>a DEF Age, Due, First, Wanted
<1>3. /\ Result /\ Missing
      /\ call = "attempt" /\ todo' = <<>> => dev.result # None
  BY OperateInv DEF Moved
<1>4. CASE sht.mode \in Resting
  <2>1. sht.mode = "START" /\ call = "init"
    BY <1>4, OperateInv DEF Resting
  <2>2. Quiet
    BY <1>1, <1>4, TimelyRests
  <2>3. Quiet'
    BY <1>3, <2>1, <2>2 DEF Result, Quiet, StartAfterAbandon
  <2> QED
    BY <1>a, <2>1, <2>3 DEF Timely
<1>5. CASE sht.mode \in Measuring
  <2>1. /\ dev.busy \in {None, Wanted} /\ (dev.busy # None => Age + dev.rounds <= Due)
        /\ dev.result # None => /\ dev.result \in Readings(Wanted)
                                /\ Age <= Due + 1 /\ (~FirstTry => Age <= Due)
        /\ call = "write" => Age <= Due - MaxRounds
    BY <1>1, <1>5, TimelyMeasures
  <2>n. /\ Age \in Nat /\ Due \in Nat /\ MaxRounds \in Nat
        /\ dev.busy # None => dev.rounds \in Nat
    BY AgeType DEF IInv, Bus, DevOK
  <2>2. call' = "bytes" \/ (call' = "attempt" /\ todo' = <<>>) => Age <= Due + 1
    <3>1. CASE call = "attempt" /\ todo' = <<>>
      BY <1>3, <2>1, <3>1
    <3>2. CASE call = "bytes"
      BY <1>1, <1>5, <3>2, TimelyMeasures
    <3> QED
      BY <1>a, <3>1, <3>2
  <2>3. /\ dev'.busy \in {None, Wanted} /\ (dev'.busy # None => Age + dev'.rounds <= Due)
        /\ dev'.result # None => /\ dev'.result \in Readings(Wanted)
                                 /\ Age <= Due + 1 /\ (~FirstTry' => Age <= Due)
    <3>1. CASE dev' = dev
      <4>1. ASSUME dev.result # None, ~FirstTry' PROVE Age <= Due
        <5>1. CASE ~FirstTry
          BY <2>1, <4>1, <5>1
        <5>2. CASE FirstTry
          <6>1. dev.busy # None
            BY <1>3, <3>1, <4>1, <5>2 DEF Missing
          <6> QED
            BY <2>1, <2>n, <6>1
        <5> QED
          BY <5>1, <5>2
      <4> QED
        BY <2>1, <3>1, <4>1
    <3>2. CASE call = "write" /\ dev' = [ busy |-> Wanted, rounds |-> MaxRounds, result |-> None ]
      <4>1. dev'.busy = Wanted /\ dev'.rounds = MaxRounds /\ dev'.result = None
        BY <3>2
      <4>2. Age + MaxRounds <= Due
        BY <2>1, <2>n, <3>2
      <4> QED
        BY <4>1, <4>2
    <3>3. CASE Quiet'
      BY <3>3 DEF Quiet
    <3> QED
      BY <1>3, <3>1, <3>2, <3>3 DEF Result
  <2> QED
    BY <1>a, <1>2, <1>5, <2>1, <2>2, <2>3 DEF Timely, Measuring
<1> QED
  BY <1>4, <1>5 DEF IInv, Simple, Resting, Measuring

-----------------------------------------------------------------------------
(* ... by a round                                                            *)

(* The remainder of a small number                                           *)
LEMMA ModuloSmall == ASSUME NEW x \in Nat, NEW n \in Nat, x < n PROVE x % n = x
  OBVIOUS

(* The remainder of the next number                                          *)
LEMMA ModuloStep ==
    ASSUME NEW d \in Nat, NEW p \in Nat \ {0}
    PROVE  (d + 1) % p = IF d % p = p - 1 THEN 0 ELSE (d % p) + 1
<1> DEFINE q == d \div p
           r == d % p
<1>1. d = q * p + r /\ r \in 0 .. p - 1 /\ q \in Nat
  OBVIOUS
<1> DEFINE x == (d + 1) \div p
           y == (d + 1) % p
<1>2. d + 1 = x * p + y /\ y \in 0 .. p - 1 /\ x \in Nat
  OBVIOUS
<1> HIDE DEF q, r, x, y
<1>3. x * p \in Nat /\ q * p \in Nat /\ p \in Nat /\ p > 0
  BY <1>1, <1>2
<1>4. ASSUME NEW m \in Nat, NEW n \in Nat, m < n PROVE m * p + p <= n * p
  <2>1. (n - m - 1) * p >= 0
    BY <1>4
  <2>2. (n - m - 1) * p = n * p - m * p - p
    OBVIOUS
  <2>3. m * p \in Int /\ n * p \in Int
    OBVIOUS
  <2> QED
    BY <2>1, <2>2, <2>3
<1>5. x * p + y = q * p + r + 1
  BY <1>1, <1>2
<1>6. CASE r = p - 1
  <2>1. x * p + y = q * p + p
    BY <1>3, <1>5, <1>6, <1>2
  <2>2. x > q
    <3> SUFFICES ASSUME ~(x > q) PROVE FALSE
      OBVIOUS
    <3>1. x = q \/ x < q
      BY <1>1, <1>2
    <3>2. x # q
      BY <1>2, <1>3, <2>1
    <3>3. ~(x < q)
      BY <1>1, <1>2, <1>3, <1>4, <2>1
    <3> QED
      BY <3>1, <3>2, <3>3
  <2>3. y = 0
    <3>1. q * p + p <= x * p
      BY <1>1, <1>2, <1>4, <2>2
    <3> QED
      BY <1>2, <1>3, <2>1, <3>1
  <2> QED
    BY <1>6, <2>3 DEF r, y
<1>7. CASE r # p - 1
  <2>1. r + 1 \in 0 .. p - 1
    BY <1>1, <1>3, <1>7
  <2>2. ~(x < q)
    <3> SUFFICES ASSUME x < q PROVE FALSE
      OBVIOUS
    <3>1. x * p + p <= q * p
      BY <1>1, <1>2, <1>4
    <3> QED
      BY <1>1, <1>2, <1>3, <1>5, <3>1
  <2>3. ~(q < x)
    <3> SUFFICES ASSUME q < x PROVE FALSE
      OBVIOUS
    <3>1. q * p + p <= x * p
      BY <1>1, <1>2, <1>4
    <3> QED
      BY <1>1, <1>2, <1>3, <1>5, <2>1, <3>1
  <2>4. x = q
    BY <1>1, <1>2, <2>2, <2>3
  <2>5. y = r + 1
    BY <1>1, <1>2, <1>3, <1>5, <2>4
  <2> QED
    BY <1>7, <2>5 DEF r, y
<1> QED
  BY <1>6, <1>7

(* A round later, or a new period, by which every reading is fetched         *)
LEMMA DelayStep ==
    ASSUME InTime, IInv
    PROVE  /\ Delay % Period # 0 =>
                Delay % Period = Age + 1 /\ (Delay < Period <=> sht.delay < Period)
           /\ Delay % Period = 0 => Age > First + 2 * MaxRounds + 2
<1> DEFINE d == sht.delay
           p == Period
           m == DelayMod
           r == MaxRounds
<1>1. /\ d \in Nat /\ d \in 0 .. m - 1 /\ p \in Nat \ {0} /\ m \in Nat \ {0} /\ r \in Nat
      /\ p >= 2 * r + 5 /\ p < m /\ (m - 1) % p >= 2 * r + 3
  BY Sht20Assumption DEF IInv, Simple, InTime
<1>2. /\ Delay = (d + 1) % m /\ Age = d % p /\ First = IF d < p THEN 1 ELSE 0
  BY DEF Delay, Age, First
<1> HIDE DEF d, p, m, r
<1>3. CASE d = m - 1
  <2>1. d + 1 = m /\ m % m = 0 /\ 0 % p = 0
    BY <1>1, <1>3
  <2>2. Delay = 0 /\ ~(d < p)
    BY <1>1, <1>2, <1>3, <2>1
  <2>3. Age >= 2 * r + 3 /\ First = 0 /\ Age \in Int
    BY <1>1, <1>2, <1>3, <2>2
  <2>4. Delay % p = 0
    BY <2>1, <2>2
  <2>5. Age > First + 2 * r + 2
    BY <1>1, <2>3
  <2> QED
    BY <2>4, <2>5 DEF p, r
<1>4. CASE d # m - 1
  <2>1. d + 1 < m /\ d + 1 \in Nat
    BY <1>1, <1>4
  <2>2. Delay = d + 1
    BY <1>1, <1>2, <2>1, ModuloSmall
  <2>3. (d + 1) % p = IF d % p = p - 1 THEN 0 ELSE (d % p) + 1
    BY <1>1, ModuloStep
  <2>4. d % p \in Nat
    BY <1>1
  <2>5. CASE d % p = p - 1
    <3>1. Delay % p = 0 /\ Age = p - 1
      BY <1>2, <2>2, <2>3, <2>5
    <3>2. First <= 1 /\ First \in Nat
      BY <1>2
    <3>3. Age > First + 2 * r + 2
      BY <1>1, <3>1, <3>2
    <3> QED
      BY <3>1, <3>3 DEF p, r
  <2>6. CASE d % p # p - 1
    <3>1. Delay % p = Age + 1 /\ Age \in Nat
      BY <1>2, <2>2, <2>3, <2>4, <2>6
    <3>2. d + 1 # p
      <4> SUFFICES ASSUME d + 1 = p PROVE FALSE
        OBVIOUS
      <4>1. d < p /\ d = p - 1
        BY <1>1
      <4>2. d % p = d
        BY <1>1, <4>1, ModuloSmall
      <4> QED
        BY <2>6, <4>1, <4>2
    <3>3. Delay < p <=> d < p
      BY <1>1, <2>2, <3>2
    <3>4. Delay % p # 0
      BY <3>1
    <3> QED
      BY <3>1, <3>3, <3>4 DEF p, d
  <2> QED
    BY <2>5, <2>6
<1> QED
  BY <1>1, <1>3, <1>4

(* A round                                                                   *)
LEMMA RoundTimely ==
    ASSUME IInv, TimelyOK, Round
    PROVE  TimelyOK'
<1>0. ShtOK /\ DevOK
  BY DEF IInv, Simple, Bus
<1>1. /\ call \in {"init", "none", "abandon"} /\ todo = <<>> /\ RoundPasses /\ resets' = resets
  BY <1>0, RoundCases
<1> SUFFICES ASSUME InTime, resets = 0
             PROVE  Timely'
  BY <1>1 DEF TimelyOK
<1>2. Timely
  BY DEF TimelyOK
<1>3. /\ dev'.busy = dev.busy /\ dev'.result = dev.result
      /\ dev.busy # None => dev'.rounds = dev.rounds - 1 /\ dev.rounds \in Nat
  BY <1>0, <1>1, RoundDev DEF DevOK
<1>4. /\ call = "init" => sht.mode = "START"
      /\ call = "none" => sht.mode \in {"RH_END", "T_END"}
      /\ call = "abandon" => sht.mode \in {"RH_START", "T_START"}
  BY <1>1, RoundFinds
<1>5. ~FirstTry
  BY <1>1 DEF FirstTry
<1> DEFINE a == Delay % Period
<1>6. /\ Age \in Nat /\ First \in 0 .. 1 /\ Due \in Nat /\ MaxRounds \in Nat
      /\ Due <= First + 2 * MaxRounds + 2
  BY AgeType
<1>7. Mode = IF a = 0 THEN "START" ELSE sht.mode
  BY DEF Mode, ModeAt
<1>8. /\ a # 0 => a = Age + 1 /\ (Delay < Period <=> sht.delay < Period)
      /\ a = 0 => Age > First + 2 * MaxRounds + 2
  BY DelayStep
<1>9. sht'.delay = Delay
  BY <1>0, RoundFields
<1>10. Age' = a /\ First' \in 0 .. 1 /\ (a # 0 => First' = First)
  BY <1>8, <1>9 DEF Age, First
<1> HIDE DEF a
<1>11. CASE RoundStarts /\ sht'.mode = "RH_START" /\ call' = "write"
  <2>1. Mode = "START"
    BY <1>11 DEF RoundStarts
  <2>2. Quiet
    <3>1. CASE sht.mode \in Resting
      BY <1>2, <3>1, TimelyRests
    <3>2. CASE sht.mode \in Measuring
      <4>1. a = 0
        BY <1>7, <2>1, <3>2 DEF Measuring
      <4>2. ~(Age <= Due)
        BY <1>6, <1>8, <4>1
      <4>3. dev.result = None
        BY <1>2, <1>5, <3>2, <4>2, TimelyMeasures
      <4>4. dev.busy = None
        <5> SUFFICES ASSUME dev.busy # None PROVE FALSE
          OBVIOUS
        <5>1. Age + dev.rounds <= Due
          BY <1>2, <3>2, TimelyMeasures
        <5> QED
          BY <1>3, <1>6, <4>2, <5>1
      <4> QED
        BY <4>3, <4>4 DEF Quiet
    <3> QED
      BY <3>1, <3>2 DEF IInv, Simple, Resting, Measuring
  <2>3. dev'.busy = None /\ dev'.result = None
    BY <1>3, <2>2 DEF Quiet
  <2>4. Age' <= First'
    <3>1. CASE a = 0
      BY <1>10, <3>1
    <3>2. CASE a # 0
      <4>1. sht.mode = "START"
        BY <1>7, <2>1, <3>2
      <4>2. call = "init"
        BY <1>1, <1>4, <4>1
      <4>3. sht.delay = 0
        BY <4>2 DEF IInv, Control, AtInit
      <4>4. First = 1 /\ Age = 0
        BY <4>3, Sht20Assumption DEF First, Age
      <4> QED
        BY <1>8, <1>10, <3>2, <4>4
    <3> QED
      BY <3>1, <3>2
  <2>5. Due' = First' + MaxRounds
    BY <1>11 DEF Due
  <2>6. Age' <= Due' - MaxRounds
    <3> DEFINE x == First'
    <3>1. x \in Nat /\ Due' - MaxRounds = (x + MaxRounds) - MaxRounds
      BY <1>10, <2>5
    <3> HIDE DEF x
    <3>2. (x + MaxRounds) - MaxRounds = x
      BY <1>6, <3>1
    <3> QED
      BY <2>4, <3>1, <3>2 DEF x
  <2> QED
    BY <1>11, <2>3, <2>6 DEF Timely
<1>12. CASE RoundGoesOn /\ sht'.mode = "T_START" /\ call' = "write"
  <2>1. Mode = "RH_END"
    BY <1>12 DEF RoundGoesOn
  <2>2. sht.mode = "RH_END" /\ a # 0
    BY <1>7, <2>1
  <2>3. Quiet /\ Age <= First + MaxRounds + 1
    BY <1>2, <2>2, TimelyRests DEF Resting
  <2>4. dev'.busy = None /\ dev'.result = None
    BY <1>3, <2>3 DEF Quiet
  <2>5. Due' = First' + (2 * MaxRounds + 2)
    BY <1>12 DEF Due
  <2>6. Age' <= Due' - MaxRounds
    BY <1>6, <1>8, <1>10, <2>2, <2>3, <2>5
  <2> QED
    BY <1>12, <2>4, <2>6 DEF Timely
<1>13. CASE RoundTries /\ sht'.mode = sht.mode /\ call' = "attempt"
  <2>1. Mode \in Measuring /\ StartRead
    BY <1>13 DEF RoundTries, Measuring
  <2>2. sht.mode \in Measuring /\ a # 0
    BY <1>7, <2>1 DEF Measuring
  <2>3. /\ dev.busy \in {None, Wanted} /\ (dev.busy # None => Age + dev.rounds <= Due)
        /\ dev.result # None => dev.result \in Readings(Wanted) /\ Age <= Due
    BY <1>2, <1>5, <2>2, TimelyMeasures
  <2>4. Wanted' = Wanted /\ Due' = Due /\ Age' = Age + 1
    BY <1>8, <1>10, <1>13, <2>2 DEF Wanted, Due
  <2>5. FirstTry' /\ todo' # <<>>
    <3>1. /\ call' = "attempt" /\ todo' = Rest(Attempt, 0) /\ over_time' = 0 /\ todo' # <<>>
      BY <2>1, AttemptStarts DEF StartRead
    <3> DEFINE n == 0
    <3>2. n \in 0 .. 32 /\ 32 - n = 32 /\ todo' = Rest(Attempt, n)
      BY <3>1
    <3> HIDE DEF n
    <3>3. Len(todo') = 32
      BY <3>2, AttemptRest
    <3>4. Len(todo') > 3
      BY <3>3
    <3>5. call' = "attempt" /\ over_time' = 0 /\ todo' # <<>>
      BY <3>1
    <3> QED
      BY <3>4, <3>5, Zenon DEF FirstTry
  <2>6. dev'.busy # None => Age' + dev'.rounds <= Due'
    BY <1>3, <1>6, <2>3, <2>4
  <2>7. dev'.result # None => Age' <= Due' + 1
    BY <1>3, <1>6, <2>3, <2>4
  <2>8. sht'.mode \in Measuring
    BY <1>13, <2>2
  <2> QED
    BY <1>3, <1>13, <2>3, <2>4, <2>5, <2>6, <2>7, <2>8 DEF Timely, Measuring
<1>14. CASE RoundWaits /\ sht'.mode = sht.mode /\ call' = "none"
  <2>1. Mode = "T_END"
    BY <1>14 DEF RoundWaits
  <2>2. sht.mode = "T_END"
    BY <1>7, <2>1
  <2>3. Quiet
    BY <1>2, <2>2, TimelyRests DEF Resting
  <2>4. Quiet' /\ sht'.mode = "T_END"
    BY <1>3, <1>14, <2>2, <2>3 DEF Quiet
  <2> QED
    BY <2>4 DEF Timely
<1> QED
  BY <1>0, <1>11, <1>12, <1>13, <1>14, RoundFields

-----------------------------------------------------------------------------
(* The theorems                                                              *)

IsFetched ==
    \/ call = "attempt" /\ todo = <<"SCL_L">>
    \/ StartAfterAbandon
    \/ dev'.busy # None
Fetched == resets = 0 /\ dev.result # None /\ dev'.result = None => IsFetched

(* Steps that file nothing                                                   *)
LEMMA FiledSame ==
    ASSUME Filed, sht'.humidity = sht.humidity, sht'.tempreture = sht.tempreture,
           resets' = resets
    PROVE  Filed'
  BY DEF Filed, FiledRight

(* Steps that take no result away                                            *)
LEMMA FetchedSame == ASSUME dev'.result = dev.result PROVE Fetched
  BY DEF Fetched

(* An operation on the lines takes a result away for the reader.             *)
LEMMA OperateFetched ==
    ASSUME IInv, Operate, Moved
    PROVE  Fetched
<1> SUFFICES ASSUME resets = 0, dev.result # None, dev'.result = None
             PROVE  IsFetched
  BY DEF Fetched
<1>1. Result
  BY DEF Moved
<1>2. CASE call = "write" /\ dev' = [ busy |-> Wanted, rounds |-> MaxRounds, result |-> None ]
  <2>1. dev'.busy = Wanted
    BY <1>2
  <2>2. dev'.busy # None
    BY <2>1, WantedType, Sht20Assumption
  <2> QED
    BY <2>2 DEF IsFetched
<1> QED
  BY <1>1, <1>2 DEF Result, IsFetched

(* Every step keeps the invariant; no result is taken but for the reader.    *)
LEMMA NextInv ==
    ASSUME IInv, TimelyOK, Filed, Next
    PROVE  IInv' /\ TimelyOK' /\ Filed' /\ Fetched
<1>1. CASE Operate
  <2>1. sht' = sht /\ resets' = resets
    BY <1>1 DEF Operate
  <2>2. IInv' /\ Moved
    BY <1>1, OperateInv
  <2>3. Fetched
    BY <1>1, <2>2, OperateFetched
  <2>4. TimelyOK'
    BY <1>1, OperateTimely
  <2> QED
    BY <2>1, <2>2, <2>3, <2>4, FiledSame
<1>2. CASE Sample
  <2>1. sht' = sht /\ resets' = resets /\ dev' = dev
    BY <1>2 DEF Sample
  <2> QED
    BY <1>2, <2>1, SampleInv, SampleTimely, FiledSame, FetchedSame
<1>3. CASE Acknowledged
  <2>1. sht' = sht /\ resets' = resets /\ dev' = dev
    BY <1>3 DEF Acknowledged
  <2> QED
    BY <1>3, <2>1, AcknowledgedInv, AcknowledgedTimely, FiledSame, FetchedSame
<1>4. CASE NotAcknowledged
  <2>1. sht' = sht /\ resets' = resets /\ dev' = dev
    BY <1>4 DEF NotAcknowledged
  <2> QED
    BY <1>4, <2>1, NotAcknowledgedInv, NotAcknowledgedTimely, FiledSame, FetchedSame
<1>5. CASE Retry
  <2>1. sht' = sht /\ resets' = resets /\ dev' = dev
    BY <1>5 DEF Retry
  <2> QED
    BY <1>5, <2>1, RetryInv, RetryTimely, FiledSame, FetchedSame
<1>6. CASE ReadBytes
  <2>1. sht' = sht /\ resets' = resets /\ dev' = dev
    BY <1>6 DEF ReadBytes
  <2> QED
    BY <1>6, <2>1, ReadBytesInv, ReadBytesTimely, FiledSame, FetchedSame
<1>7. CASE File
  <2>1. dev' = dev
    BY <1>7 DEF File
  <2>2. Filed'
    BY <1>7, FileControl
  <2> QED
    BY <1>7, <2>1, <2>2, FileInv, FileTimely, FetchedSame
<1>8. CASE Round
  <2>1. ShtOK /\ DevOK
    BY DEF IInv, Simple, Bus
  <2>2. RoundPasses /\ resets' = resets
    BY <1>8, <2>1, RoundCases
  <2>3. dev'.result = dev.result
    BY <2>1, <2>2, RoundDev
  <2>4. Filed'
    BY <1>8, <2>1, <2>2, RoundFields, FiledSame
  <2> QED
    BY <1>8, <2>3, <2>4, RoundInv, RoundTimely, FetchedSame
<1>9. CASE ReadAfterWrite
  <2>1. sht' = sht /\ resets' = resets /\ dev' = dev
    BY <1>9 DEF ReadAfterWrite
  <2> QED
    BY <1>9, <2>1, ReadAfterWriteInv, ReadAfterWriteTimely, FiledSame, FetchedSame
<1>10. CASE Measured
  <2>1. PICK bytes \in Readings(dev.busy) :
          dev' = [ busy |-> None, rounds |-> 0, result |-> bytes ]
    BY <1>10 DEF Measured
  <2>2. dev.busy \in Quantities
    BY <1>10 DEF Measured, IInv, Bus, DevOK
  <2>3. dev'.result = bytes /\ bytes # None
    BY <2>1, <2>2, Sht20Assumption
  <2>4. Fetched
    BY <2>3 DEF Fetched
  <2> QED
    BY <1>10, <2>4, MeasuredInv
<1>11. CASE McuReset
  <2>1. dev' = [ dev EXCEPT !.rounds = 0 ]
    BY <1>11 DEF McuReset
  <2>2. dev'.result = dev.result
    BY <2>1 DEF IInv, Bus, DevOK
  <2> QED
    BY <1>11, <2>2, ResetInv, FetchedSame
<1> QED
  BY <1>1, <1>2, <1>3, <1>4, <1>5, <1>6, <1>7, <1>8, <1>9, <1>10, <1>11 DEF Next, Task

(* So does a step that changes nothing.                                      *)
LEMMA StutterInv ==
    ASSUME IInv, TimelyOK, Filed, UNCHANGED vars
    PROVE  IInv' /\ TimelyOK' /\ Filed'
<1>1. /\ out' = out /\ todo' = todo /\ call' = call /\ rbuff' = rbuff /\ over_time' = over_time
      /\ sht' = sht /\ port' = port /\ dev' = dev /\ resets' = resets
  BY DEF vars
<1>2. Filed'
  BY <1>1, FiledSame
<1>3. FirstTry => FirstTry'
  BY <1>1 DEF FirstTry
<1>4. TimelyOK'
  BY <1>1, <1>3, TimelySame
<1>5. Bus'
  BY <1>1, BusSame DEF IInv
<1>6. Simple'
  BY <1>1 DEF IInv, Simple, ShtOK
<1>7. Control'
  <2>0. Control
    BY DEF IInv
  <2>w. WriteIt' = WriteIt /\ Wanted' = Wanted /\ (Quiet' <=> Quiet)
    BY <1>1 DEF WriteIt, Wanted, Quiet
  <2>r. \A r : Reading3(r)' <=> Reading3(r)
    BY <2>w DEF Reading3
  <2>t. \A k : Taken(k)' <=> Taken(k)
    BY <2>w DEF Taken
  <2>1. AtInit => AtInit'
    BY <1>1 DEF AtInit
  <2>2. AtNone => AtNone'
    BY <1>1 DEF AtNone
  <2>3. AtWrite => AtWrite'
    BY <1>1, <2>w, <2>t DEF AtWrite, WriteAddress, WriteTurn, WriteCommand, WriteLast, WriteDone
  <2>4. AtStop => AtStop'
    BY <1>1 DEF AtStop
  <2>5. AtRetry => AtRetry'
    BY <1>1 DEF AtRetry
  <2>6. AtAttempt => AtAttempt'
    BY <1>1, <2>w, <2>t, <2>r DEF AtAttempt, AttemptAddress, AttemptTurn, AttemptDone
  <2>7. AtAbandon => AtAbandon'
    BY <1>1 DEF AtAbandon
  <2>8. AtBytes => AtBytes'
    <3>1. \A i, c : BytesIn(i, c) => BytesIn(i, c)'
      BY <1>1, <2>r DEF BytesIn
    <3>2. \A k : BytesEnd(k) => BytesEnd(k)'
      BY <1>1, <2>r DEF BytesEnd
    <3> QED
      BY <1>1, <2>w, <3>1, <3>2 DEF AtBytes
  <2> QED
    BY <2>0, <1>1, <2>1, <2>2, <2>3, <2>4, <2>5, <2>6, <2>7, <2>8 DEF Control
<1> QED
  BY <1>2, <1>4, <1>5, <1>6, <1>7 DEF IInv

(* The invariant: where each procedure has brought the lines and the sensor, *)
(* when a reading is fetched, and what is filed                              *)
THEOREM Sht20Inv == Spec => [](IInv /\ TimelyOK /\ Filed)
<1>1. Init => IInv /\ TimelyOK /\ Filed
  BY InitInv
<1>2. IInv /\ TimelyOK /\ Filed /\ [Next]_vars => (IInv /\ TimelyOK /\ Filed)'
  BY NextInv, StutterInv
<1> QED
  BY <1>1, <1>2, PTL DEF Spec

(* The type of the states of the sensor                                      *)
LEMMA PortTyped ==
    ASSUME PortOK
    PROVE  /\ port.st \in {"off", "rx", "rxack", "tx", "txack"} /\ Len(port.bits) \in 0 .. 24
           /\ port.pull => port.st \in {"rxack", "tx"}
<1>0. \A b : Len(BitsOf(b)) \in 0 .. 24
  <2> TAKE b
  <2> DEFINE f == BitsOf(b)
  <2>1. DOMAIN f = 1 .. 8 /\ f = [ i \in 1 .. 8 |-> f[i] ]
    BY DEF BitsOf
  <2> HIDE DEF f
  <2>2. Len(f) = 8
    BY <2>1
  <2> QED
    BY <2>2 DEF f
<1>1. CASE port = Idle
  <2>1. Len(<<>>) \in 0 .. 24
    OBVIOUS
  <2> QED
    BY <1>1, <2>1 DEF Idle
<1>2. CASE Comes(out, port)
  <2>1. PICK f \in BOOLEAN, s \in Seq(Bit) : port = Receive(f, s) /\ Len(s) <= 8
    BY <1>2 DEF Comes
  <2> DEFINE n == Len(s)
  <2>a. n \in Nat
    BY LenProperties
  <2>b. n <= 8
    BY <2>1
  <2> HIDE DEF n
  <2>c. n \in 0 .. 24
    BY <2>a, <2>b
  <2>2. Len(s) \in 0 .. 24
    BY <2>c DEF n
  <2>3. port = Receive(f, s)
    BY <2>1
  <2>4. port.st = "rx" /\ port.bits = s /\ port.pull = FALSE
    BY <2>3 DEF Receive
  <2> QED
    BY <2>2, <2>4
<1>3. CASE port = Addressed(ToWrite) \/ port = Addressed(ToRead) \/ Orders(port)
  <2>1. PICK b : port = Addressed(b) \/ port = Ordered(b)
    BY <1>3 DEF Orders
  <2>2. port.st = "rxack" /\ port.bits = BitsOf(b)
    BY <2>1 DEF Addressed, Ordered, Acknowledge
  <2>3. Len(BitsOf(b)) \in 0 .. 24
    BY <1>0
  <2> QED
    BY <2>2, <2>3
<1>4. CASE Sends(port)
  <2>1. PICK n \in 1 .. 24, s \in Seq(Bit) : port = Send(s) /\ Len(s) = n
    BY <1>4 DEF Sends, Sending
  <2>2. Len(s) \in 0 .. 24
    BY <2>1
  <2>3. port.st = "tx" /\ port.bits = s
    BY <2>1 DEF Send
  <2> QED
    BY <2>2, <2>3
<1>5. CASE Awaits(port)
  <2>1. PICK n \in 0 .. 23, s \in Seq(Bit) : port = Await(s) /\ Len(s) = n
    BY <1>5 DEF Awaits, Awaiting
  <2>2. Len(s) \in 0 .. 24
    BY <2>1
  <2> QED
    BY <2>1, <2>2 DEF Await
<1> QED
  BY <1>1, <1>2, <1>3, <1>4, <1>5 DEF PortOK, PortOf

(* Everything keeps its type, for all addresses, commands and readings, and  *)
(* every number of attempts, rounds and resets.                              *)
THEOREM Sht20Typed == Spec => []TypeOK
<1>1. IInv => TypeOK
  <2> SUFFICES ASSUME IInv PROVE TypeOK
    OBVIOUS
  <2>1. Simple /\ LinesOK /\ PortOK /\ DevOK /\ Control
    BY DEF IInv, Bus
  <2>2. call \in {"none", "init", "write", "attempt", "bytes", "stop", "retry", "abandon"}
    BY <2>1 DEF Control, Calls
  <2>3. dev.busy \in Quantities \cup {None} /\ dev.rounds \in 0 .. MaxRounds
    BY <2>1 DEF DevOK
  <2>4. /\ todo \in Seq({"SDA_H", "SDA_L", "SCL_H", "SCL_L", "ack?", "bit?"})
        /\ rbuff \in Seq({0, 1}) /\ Len(rbuff) \in 0 .. 24
    BY <2>1 DEF Simple, Ops, Bit
  <2>5. /\ over_time \in 0 .. MaxOverTime + 1
        /\ sht.mode \in {"START", "RH_START", "RH_END", "T_START", "T_END"}
        /\ sht.delay \in 0 .. DelayMod - 1 /\ resets \in 0 .. MaxResets
    BY <2>1 DEF Simple
  <2>6. /\ port.st \in {"off", "rx", "rxack", "tx", "txack"} /\ Len(port.bits) \in 0 .. 24
        /\ port.pull => port.st \in {"rxack", "tx"}
    BY <2>1, PortTyped
  <2>7. out \in [ sda : {0, 1}, scl : {0, 1} ]
    BY <2>1 DEF LinesOK
  <2> QED
    BY <2>2, <2>3, <2>4, <2>5, <2>6, <2>7 DEF TypeOK
<1> QED
  BY <1>1, Sht20Inv, PTL

(* A read that returned 0 leaves both lines released and the sensor off the  *)
(* bus (iic.c:187, 192).                                                     *)
THEOREM Sht20BusFree == Spec => []BusFree
<1>1. IInv => BusFree
  BY DEF IInv, Control, AtNone, BusFree, Lines
<1> QED
  BY <1>1, Sht20Inv, PTL

(* The sensor gives its result away to a master that reads it, in the START  *)
(* after a read that was given up (iic.c:173-177), or to a new measurement.  *)
THEOREM Sht20Given == Spec => GivenToReader
<1>1. IInv /\ TimelyOK /\ Filed /\ [Next]_vars =>
        [ resets = 0 /\ dev.result # None /\ dev'.result = None =>
            \/ call = "attempt" /\ todo = <<"SCL_L">>
            \/ StartAfterAbandon
            \/ dev'.busy # None ]_vars
  BY NextInv DEF Fetched, IsFetched
<1> QED
  BY <1>1, Sht20Inv, PTL DEF Spec, GivenToReader

(* What stands under a quantity is a reading of this quantity (sht20.c:74-97), *)
(* when a measurement is over in time.                                       *)
THEOREM Sht20FiledRight == ASSUME InTime PROVE Spec => []FiledRight
<1>1. Filed => FiledRight
  BY DEF Filed
<1> QED
  BY <1>1, Sht20Inv, PTL
=============================================================================
