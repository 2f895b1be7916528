------------------------------ MODULE UartRing ------------------------------
(***************************************************************************)
(* The interrupt-driven console (driver/usart_irq_printf): a ring that     *)
(* _write, called by printf in the SysTick handler, and the receive half   *)
(* of usart1_isr fill, and that the transmit half of usart1_isr empties.   *)
(*                                                                         *)
(* SysTick and USART1 have the same priority, so neither handler preempts  *)
(* the other: pc names the handler that runs and how far it has come.  The *)
(* peripheral does not wait: a byte can arrive, and the transmit register  *)
(* run empty, between any two steps of a handler.                          *)
(***************************************************************************)
EXTENDS Sequences, Integers

CONSTANTS
    BufferSize,  \* 1024
    Byte,
    NoByte,
    Texts        \* what printf hands to _write

ASSUME RingAssumption ==
    /\ BufferSize \in Nat /\ BufferSize > 1
    /\ NoByte \notin Byte
    /\ Texts \subseteq Seq(Byte)

VARIABLES
    begin, end, data,  \* output_ring
    pc,                \* idle, write (ring_write's loop) or tx (usart1_isr, line 187)
    text,              \* what ring_write has still to store
    txeie,             \* USART_CR1_TXEIE; RXNEIE is always on
    rdr,               \* the received byte; RXNE is rdr # NoByte
    tdr                \* the byte to transmit; TXE is tdr = NoByte

ring == <<begin, end, data>>
vars == <<begin, end, data, pc, text, txeie, rdr, tdr>>

Slots == 0 .. BufferSize - 1

TypeOK ==
    /\ begin \in Slots /\ end \in Slots
    /\ data \in [ Slots -> Byte \union {NoByte} ]
    /\ pc \in {"idle", "write", "tx"}
    /\ text \in Seq(Byte)
    /\ txeie \in BOOLEAN
    /\ rdr \in Byte \union {NoByte}
    /\ tdr \in Byte \union {NoByte}

Init ==
    /\ begin = 0 /\ end = 0
    /\ data = [ i \in Slots |-> NoByte ]
    /\ pc = "idle" /\ text = <<>>
    /\ txeie = FALSE /\ rdr = NoByte /\ tdr = NoByte

(* A faulty variant of the next one, that does not wrap. *)
AfterNoWrap(i) == i + 1

(* (i + 1) % size *)
After(i) == IF i + 1 = BufferSize THEN 0 ELSE i + 1

RingFull  == After(end) = begin
RingEmpty == begin = end

(* A faulty variant of the next one, that does not look for room. *)
ring_write_ch_unchecked(ch) ==
    /\ data' = [data EXCEPT ![end] = ch]
    /\ end' = After(end)
    /\ UNCHANGED begin

(* A byte is stored if there is room, else it is dropped. *)
ring_write_ch(ch) ==
    /\ IF RingFull THEN UNCHANGED <<data, end>>
       ELSE /\ data' = [data EXCEPT ![end] = ch]
            /\ end' = After(end)
    /\ UNCHANGED begin

-----------------------------------------------------------------------------
(* _write: the loop of ring_write stops at the first byte that does not     *)
(* fit, and the transmit interrupt is enabled whatever was stored.          *)
WriteStart ==
    /\ pc = "idle"
    /\ text' \in Texts
    /\ pc' = "write"
    /\ UNCHANGED <<ring, txeie, rdr, tdr>>

WriteChar ==
    /\ pc = "write" /\ text # <<>> /\ ~RingFull
    /\ ring_write_ch(Head(text))
    /\ text' = Tail(text)
    /\ UNCHANGED <<pc, txeie, rdr, tdr>>

(* A faulty variant that starts the transmitter only after a whole text. *)
WriteReturnWhole ==
    /\ pc = "write" /\ (text = <<>> \/ RingFull)
    /\ txeie' = IF text = <<>> THEN TRUE ELSE txeie
    /\ text' = <<>>
    /\ pc' = "idle"
    /\ UNCHANGED <<ring, rdr, tdr>>

WriteReturn ==
    /\ pc = "write" /\ (text = <<>> \/ RingFull)
    /\ txeie' = TRUE
    /\ text' = <<>>
    /\ pc' = "idle"
    /\ UNCHANGED <<ring, rdr, tdr>>

-----------------------------------------------------------------------------
(* usart1_isr: both of its conditions are looked at, one after the other. *)
Pending == rdr # NoByte \/ (txeie /\ tdr = NoByte)

IsrReceive ==
    /\ pc = "idle" /\ Pending
    /\ IF rdr # NoByte
       THEN /\ ring_write_ch(rdr)
            /\ rdr' = NoByte
            /\ txeie' = TRUE
       ELSE UNCHANGED <<ring, rdr, txeie>>
    /\ pc' = "tx"
    /\ UNCHANGED <<text, tdr>>

(* A faulty variant that stops after every byte. *)
IsrTransmitOnce ==
    /\ pc = "tx"
    /\ IF ~(txeie /\ tdr = NoByte) THEN UNCHANGED <<begin, txeie, tdr>>
       ELSE /\ txeie' = FALSE
            /\ IF RingEmpty THEN UNCHANGED <<begin, tdr>>
               ELSE tdr' = data[begin] /\ begin' = After(begin)
    /\ pc' = "idle"
    /\ UNCHANGED <<end, data, text, rdr>>

(* A faulty variant that never stops. *)
IsrTransmitEndless ==
    /\ pc = "tx"
    /\ IF (txeie /\ tdr = NoByte) /\ ~RingEmpty
       THEN tdr' = data[begin] /\ begin' = After(begin)
       ELSE UNCHANGED <<begin, tdr>>
    /\ pc' = "idle"
    /\ UNCHANGED <<end, data, text, txeie, rdr>>

IsrTransmit ==
    /\ pc = "tx"
    /\ IF ~(txeie /\ tdr = NoByte) THEN UNCHANGED <<begin, txeie, tdr>>
       ELSE IF RingEmpty
       THEN /\ txeie' = FALSE
            /\ UNCHANGED <<begin, tdr>>
       ELSE /\ tdr' = data[begin]
            /\ begin' = After(begin)
            /\ UNCHANGED txeie
    /\ pc' = "idle"
    /\ UNCHANGED <<end, data, text, rdr>>

-----------------------------------------------------------------------------
(* The peripheral.  A byte that arrives on an unread one is lost. *)
Arrive == /\ rdr = NoByte
          /\ rdr' \in Byte
          /\ UNCHANGED <<ring, pc, text, txeie, tdr>>

Shift == /\ tdr # NoByte
         /\ tdr' = NoByte
         /\ UNCHANGED <<ring, pc, text, txeie, rdr>>

Next == \/ WriteStart \/ WriteChar \/ WriteReturn
        \/ IsrReceive \/ IsrTransmit
        \/ Arrive \/ Shift

(* A handler that was entered runs to its end; a pending interrupt is taken *)
(* however often SysTick, which is served first, comes in between, since    *)
(* SysTick is due only once a millisecond; the transmitter shifts.          *)
Fairness ==
    /\ WF_vars(WriteChar \/ WriteReturn)
    /\ SF_vars(IsrReceive)
    /\ WF_vars(IsrTransmit)
    /\ WF_vars(Shift)

Spec == Init /\ [][Next]_vars
FairSpec == Spec /\ Fairness

-----------------------------------------------------------------------------
(* Properties *)

(* The bytes in the ring, oldest first. *)
Used == IF begin <= end THEN end - begin ELSE end - begin + BufferSize
Slot(i) == IF begin + i < BufferSize THEN begin + i ELSE begin + i - BufferSize
Stored == [ i \in 1 .. Used |-> data[Slot(i - 1)] ]

Fifo == INSTANCE ByteFifo
            WITH queue <- Stored, out <- tdr, Capacity <- BufferSize - 1

(* The ring with its wrapping indices, shared by two handlers, is a bounded *)
(* queue: bytes leave in the order of their acceptance, none is lost,       *)
(* overwritten or sent twice, and one slot stays free.                      *)
ImplementsFifo == Fifo!Spec

(* And none stays behind: usart1_isr disables its own trigger only when the *)
(* ring is empty, and whoever fills the ring enables it again.              *)
ImplementsFairFifo == Fifo!FairSpec

(* Outside ring_write's loop, a byte in the ring has the transmit interrupt *)
(* enabled (usart_irq_printf.c:197 against :184 and :215).                  *)
Armed == pc # "write" /\ ~RingEmpty => txeie

(* Once nothing more comes in, the interrupt that would fire for ever on an *)
(* empty transmit register is switched off (line 197).                      *)
GoesQuiet == <>[][~WriteStart /\ ~Arrive]_vars => <>[]~txeie
=============================================================================
