--------------------------- MODULE UartRingProofs ---------------------------
(* Proofs about UartRing, for every size of the buffer. *)
EXTENDS UartRing, SequenceTheorems, TLAPS

LEMMA AfterSlot == ASSUME NEW i \in Slots PROVE After(i) \in Slots
  BY RingAssumption DEF After, Slots

LEMMA InitTypeOK == Init => TypeOK
<1>1. <<>> \in Seq(Byte)
  OBVIOUS
<1>2. 0 \in Slots
  BY RingAssumption DEF Slots
<1> QED
  BY <1>1, <1>2 DEF Init, TypeOK

(* The byte of a slot is known to be one only while the slot is in use.     *)
InUse(i) == IF begin <= end THEN begin <= i /\ i < end ELSE begin <= i \/ i < end
Written == \A i \in Slots : InUse(i) => data[i] \in Byte

RingInv == TypeOK /\ Written

LEMMA WriteKeepsRing ==
    ASSUME TypeOK, Written, NEW ch \in Byte, ring_write_ch(ch)
    PROVE  /\ begin' \in Slots /\ end' \in Slots
           /\ data' \in [ Slots -> Byte \union {NoByte} ]
           /\ Written'
<1>1. CASE RingFull
  BY <1>1 DEF ring_write_ch, TypeOK, Written, InUse
<1>2. CASE ~RingFull
  <2>1. begin' \in Slots /\ end' \in Slots /\ data' \in [ Slots -> Byte \union {NoByte} ]
    BY <1>2, AfterSlot DEF ring_write_ch, TypeOK
  <2>2. ASSUME NEW i \in Slots, InUse(i)' PROVE data'[i] \in Byte
    <3>1. i = end \/ InUse(i)
      BY <1>2, <2>2, RingAssumption DEF ring_write_ch, TypeOK, InUse, RingFull, After, Slots
    <3> QED
      BY <1>2, <3>1 DEF ring_write_ch, TypeOK, Written
  <2> QED
    BY <2>1, <2>2 DEF Written
<1> QED
  BY <1>1, <1>2

LEMMA NextRingInv == RingInv /\ [Next]_vars => RingInv'
<1> SUFFICES ASSUME RingInv, [Next]_vars PROVE RingInv'
  OBVIOUS
<1> USE DEF RingInv
<1>1. CASE WriteStart
  BY <1>1, RingAssumption DEF WriteStart, TypeOK, Written, InUse, ring
<1>2. CASE WriteChar
  <2>1. Head(text) \in Byte /\ Tail(text) \in Seq(Byte)
    BY <1>2 DEF WriteChar, TypeOK
  <2> QED
    BY <1>2, <2>1, WriteKeepsRing DEF WriteChar, TypeOK
<1>3. CASE WriteReturn
  BY <1>3 DEF WriteReturn, TypeOK, Written, InUse, ring
<1>4. CASE IsrReceive
  <2>1. CASE rdr # NoByte
    <3>1. rdr \in Byte
      BY <2>1 DEF TypeOK
    <3> QED
      BY <1>4, <2>1, <3>1, WriteKeepsRing DEF IsrReceive, TypeOK
  <2>2. CASE rdr = NoByte
    BY <1>4, <2>2 DEF IsrReceive, TypeOK, Written, InUse, ring
  <2> QED
    BY <2>1, <2>2
<1>5. CASE IsrTransmit
  <2>1. CASE begin' = begin
    BY <1>5, <2>1 DEF IsrTransmit, TypeOK, Written, InUse
  <2>2. CASE ~RingEmpty /\ begin' = After(begin)
    <3>1. \A i \in Slots : InUse(i)' => InUse(i)
      BY <1>5, <2>2, RingAssumption DEF IsrTransmit, RingEmpty, TypeOK, InUse, After, Slots
    <3>2. tdr' \in Byte \union {NoByte}
      BY <1>5 DEF IsrTransmit, TypeOK
    <3> QED
      BY <1>5, <2>2, <3>1, <3>2, AfterSlot DEF IsrTransmit, TypeOK, Written
  <2> QED
    BY <1>5, <2>1, <2>2 DEF IsrTransmit
<1>6. CASE Arrive
  BY <1>6 DEF Arrive, TypeOK, Written, InUse, ring
<1>7. CASE Shift
  BY <1>7 DEF Shift, TypeOK, Written, InUse, ring
<1>8. CASE UNCHANGED vars
  BY <1>8 DEF vars, TypeOK, Written, InUse
<1> QED
  BY <1>1, <1>2, <1>3, <1>4, <1>5, <1>6, <1>7, <1>8 DEF Next

(* The indices stay inside the buffer, and a slot between them holds a byte *)
(* that was received or written.                                            *)
THEOREM RingCorrect == Spec => []RingInv
<1>1. Init => RingInv
  BY InitTypeOK, RingAssumption DEF Init, RingInv, Written, InUse, Slots
<1> QED
  BY <1>1, NextRingInv, PTL DEF Spec

(* The indices and the registers keep their types. *)
THEOREM TypeCorrect == Spec => []TypeOK
  BY RingCorrect, PTL DEF RingInv

-----------------------------------------------------------------------------
(* No byte waits in the ring with the transmit interrupt disabled: Armed is *)
(* inductive as it stands.                                                  *)
THEOREM AlwaysArmed == Spec => []Armed
<1>1. Init => Armed
  BY DEF Init, Armed, RingEmpty
<1>2. Armed /\ [Next]_vars => Armed'
  BY DEF Armed, RingEmpty, Next, WriteStart, WriteChar, WriteReturn, IsrReceive, IsrTransmit,
         Arrive, Shift, ring, vars
<1> QED
  BY <1>1, <1>2, PTL DEF Spec

-----------------------------------------------------------------------------
(* The ring implements a bounded queue. *)

LEMMA StoredShape ==
    ASSUME RingInv
    PROVE  /\ Used \in 0 .. BufferSize - 1
           /\ Stored \in Seq(Byte)
           /\ Len(Stored) = Used
           /\ RingEmpty <=> Used = 0
           /\ RingFull <=> Used = BufferSize - 1
<1>1. Used \in 0 .. BufferSize - 1
  BY RingAssumption DEF RingInv, TypeOK, Used, Slots
<1>2. ASSUME NEW i \in 1 .. Used PROVE data[Slot(i - 1)] \in Byte
  <2>1. Slot(i - 1) \in Slots /\ InUse(Slot(i - 1))
    BY <1>1, RingAssumption DEF RingInv, TypeOK, Used, Slots, Slot, InUse
  <2> QED
    BY <2>1 DEF RingInv, Written
<1>3. Stored \in Seq(Byte) /\ Len(Stored) = Used
  BY <1>1, <1>2 DEF Stored
<1>4. RingEmpty <=> Used = 0
  BY RingAssumption DEF RingInv, TypeOK, Used, Slots, RingEmpty
<1>5. RingFull <=> Used = BufferSize - 1
  BY RingAssumption DEF RingInv, TypeOK, Used, Slots, RingFull, After
<1> QED
  BY <1>1, <1>3, <1>4, <1>5

(* What a sequence one longer has to be to be the appended one. *)
LEMMA IsAppend ==
    ASSUME NEW S, NEW s \in Seq(S), NEW e \in S, NEW t \in Seq(S),
           Len(t) = Len(s) + 1, t[Len(s) + 1] = e, \A i \in 1 .. Len(s) : t[i] = s[i]
    PROVE  t = Append(s, e)
  BY AppendProperties, SeqEqual

LEMMA WriteIsAccept ==
    ASSUME RingInv, NEW ch \in Byte, ring_write_ch(ch), ~RingFull, UNCHANGED tdr
    PROVE  Fifo!Accept
<1>1. /\ begin \in Slots /\ end \in Slots /\ data \in [ Slots -> Byte \union {NoByte} ]
      /\ begin' = begin /\ end' = After(end) /\ data' = [data EXCEPT ![end] = ch]
  BY DEF RingInv, TypeOK, ring_write_ch
<1>2. Used \in Nat /\ Used' = Used + 1
  BY <1>1, RingAssumption DEF Used, Slots, RingFull, After
<1>3. ASSUME NEW i \in 1 .. Used PROVE data'[Slot(i - 1)'] = data[Slot(i - 1)]
  <2>1. Slot(i - 1) \in Slots /\ Slot(i - 1) # end /\ Slot(i - 1)' = Slot(i - 1)
    BY <1>1, RingAssumption DEF Used, Slots, Slot
  <2> QED
    BY <1>1, <2>1
<1>4. data'[Slot(Used - 1)'] = ch
  <2>1. Slot(Used - 1)' = end
    BY <1>1, <1>2, RingAssumption DEF Used, Slots, Slot
  <2> QED
    BY <1>1, <2>1
<1>5. Stored' = Append(Stored, ch)
  <2>1. Stored \in Seq(Byte) /\ Len(Stored) = Used
    BY StoredShape
  <2>2. ASSUME NEW i \in 1 .. Used + 1
        PROVE  data'[Slot(i - 1)'] = IF i = Used + 1 THEN ch ELSE Stored[i]
    <3>1. CASE i = Used + 1
      BY <1>2, <1>4, <3>1 DEF Slot
    <3>2. CASE i # Used + 1
      BY <1>2, <1>3, <3>2 DEF Stored
    <3> QED
      BY <3>1, <3>2
  <2>3. Stored' = [ i \in 1 .. Used + 1 |-> IF i = Used + 1 THEN ch ELSE Stored[i] ]
    BY <1>2, <2>2 DEF Stored
  <2> DEFINE t == Stored'
  <2>4. /\ t \in Seq(Byte) /\ Len(t) = Used + 1 /\ t[Used + 1] = ch
        /\ \A i \in 1 .. Used : t[i] = Stored[i]
    BY <1>2, <2>1, <2>3
  <2> HIDE DEF t
  <2>5. t = Append(Stored, ch)
    BY <2>1, <2>4, IsAppend
  <2> QED
    BY <2>5 DEF t
<1> QED
  BY <1>5, StoredShape, RingAssumption DEF Fifo!Accept

LEMMA ReadIsEmit ==
    ASSUME RingInv, ~RingEmpty, tdr = NoByte, tdr' = data[begin],
           begin' = After(begin), UNCHANGED <<end, data>>
    PROVE  Fifo!Emit
<1>1. begin \in Slots /\ end \in Slots
  BY DEF RingInv, TypeOK
<1>2. Used \in Nat \ {0} /\ Used' = Used - 1
  BY <1>1, RingAssumption DEF Used, Slots, RingEmpty, After
<1>3. ASSUME NEW i \in 1 .. Used - 1 PROVE Slot(i - 1)' = Slot(i)
  BY <1>1, <1>2, RingAssumption DEF Used, Slots, Slot, After
<1>4. Slot(0) = begin
  BY <1>1, RingAssumption DEF Slot, Slots
<1>5. Stored' = Tail(Stored)
  BY <1>2, <1>3, StoredShape DEF Stored
<1>6. Stored # <<>> /\ Head(Stored) = data[begin]
  BY <1>2, <1>4, StoredShape DEF Stored
<1> QED
  BY <1>5, <1>6 DEF Fifo!Emit

(* Every step of the console is a step of the queue or leaves it as it is.  *)
LEMMA StepIsFifoStep ==
    ASSUME RingInv, [Next]_vars
    PROVE  [Fifo!Next]_<<Stored, tdr>>
<1>1. CASE UNCHANGED <<ring, tdr>>
  BY <1>1 DEF ring, Stored, Used, Slot
<1>2. CASE WriteChar
  <2>1. Head(text) \in Byte
    BY <1>2 DEF WriteChar, RingInv, TypeOK
  <2> QED
    BY <1>2, <2>1, WriteIsAccept DEF WriteChar, Fifo!Next
<1>3. CASE IsrReceive
  <2>1. CASE rdr # NoByte
    <3>1. rdr \in Byte
      BY <2>1 DEF RingInv, TypeOK
    <3>2. CASE RingFull
      BY <1>1, <1>3, <2>1, <3>2 DEF IsrReceive, ring_write_ch, ring
    <3>3. CASE ~RingFull
      BY <1>3, <2>1, <3>1, <3>3, WriteIsAccept DEF IsrReceive, Fifo!Next
    <3> QED
      BY <3>2, <3>3
  <2>2. CASE rdr = NoByte
    BY <1>1, <1>3, <2>2 DEF IsrReceive
  <2> QED
    BY <2>1, <2>2
<1>4. CASE IsrTransmit
  <2>1. CASE txeie /\ tdr = NoByte /\ ~RingEmpty
    BY <1>4, <2>1, ReadIsEmit DEF IsrTransmit, Fifo!Next
  <2>2. CASE ~(txeie /\ tdr = NoByte /\ ~RingEmpty)
    BY <1>1, <1>4, <2>2 DEF IsrTransmit, ring
  <2> QED
    BY <2>1, <2>2
<1>5. CASE Shift
  BY <1>5 DEF Shift, ring, Stored, Used, Slot, Fifo!Next, Fifo!Leave
<1> QED
  BY <1>1, <1>2, <1>3, <1>4, <1>5
  DEF Next, WriteStart, WriteReturn, Arrive, vars, ring

(* The ring is a bounded queue of BufferSize - 1 bytes: they leave in the   *)
(* order of their acceptance, none twice, none overwritten, although two    *)
(* handlers share its wrapping indices (usart_irq_printf.c:56-91).          *)
THEOREM RingIsFifo == Spec => ImplementsFifo
<1>1. Init => Fifo!Init
  <2> SUFFICES ASSUME Init PROVE Stored = <<>> /\ tdr = NoByte
    BY DEF Fifo!Init
  <2>1. Used = 0
    BY DEF Init, Used
  <2> QED
    BY <2>1 DEF Init, Stored
<1> QED
  BY <1>1, StepIsFifoStep, RingCorrect, PTL DEF Spec, ImplementsFifo, Fifo!Spec
=============================================================================
