------------------------------- MODULE SoftI2c -------------------------------
(***************************************************************************)
(* The bit-banged I2C master of driver/sht20/iic.c, and a slave.           *)
(*                                                                         *)
(* A procedure of the master is the sequence of what it does to the lines: *)
(*   "SDA_H" "SDA_L" "SCL_H" "SCL_L"   release or pull a line              *)
(*   "ack?"                            sample SDA for the acknowledgement  *)
(*   "bit?"                            sample SDA for a data bit           *)
(* Both lines are open drain: SDA is high unless one of the two pulls it.  *)
(* The delays between the operations are left out; that they are long      *)
(* enough for the slave is what makes it react to one before the next.     *)
(***************************************************************************)
EXTENDS Integers, Sequences

BitsOf(byte) == [ i \in 1 .. 8 |-> (byte \div 2^(8 - i)) % 2 ]

-----------------------------------------------------------------------------
(* The master *)

iic_start == <<"SDA_H", "SCL_H", "SDA_L", "SCL_L">>
iic_stop  == <<"SDA_L", "SCL_L", "SCL_H", "SDA_H">>

(* Up to the sample; what comes after it depends on it. *)
iic_wack  == <<"SDA_H", "SCL_H", "ack?">>
iic_ack   == <<"SCL_L", "SDA_L", "SCL_H", "SCL_L">>
iic_nack  == <<"SCL_L", "SDA_H", "SCL_H", "SCL_L">>

iic_sendbyte(byte) ==
    <<"SCL_L">> \o [ k \in 1 .. 24 |->
        CASE k % 3 = 1 -> IF BitsOf(byte)[1 + k \div 3] = 1 THEN "SDA_H" ELSE "SDA_L"
          [] k % 3 = 2 -> "SCL_H"
          [] k % 3 = 0 -> "SCL_L" ]

iic_recvbyte ==
    <<"SDA_H">> \o [ k \in 1 .. 24 |->
        CASE k % 3 = 1 -> "SCL_L" [] k % 3 = 2 -> "SCL_H" [] k % 3 = 0 -> "bit?" ]

(* soft_iic1_write of one byte, without a STOP at its end. *)
soft_iic1_write(dev_addr, byte) ==
    iic_start \o iic_sendbyte(2 * dev_addr) \o iic_wack \o iic_sendbyte(byte) \o iic_wack

(* soft_iic1_read: an attempt to address the slave, and what follows once it *)
(* has answered.                                                             *)
ReadAddress(dev_addr) == iic_start \o iic_sendbyte(2 * dev_addr + 1)
ReadAttempt(dev_addr) == ReadAddress(dev_addr) \o iic_wack

(* A faulty variant of the next one, that leaves the bus without a STOP. *)
ReadThreeUnstopped == iic_recvbyte \o iic_ack \o iic_recvbyte \o iic_ack
                      \o iic_recvbyte \o iic_nack
ReadThree == iic_recvbyte \o iic_ack \o iic_recvbyte \o iic_ack
             \o iic_recvbyte \o iic_nack \o iic_stop

(* soft_iic1_init: the pins, which float while the processor is in reset,    *)
(* become outputs that pull both lines at once (either is seen first) until  *)
(* they are set.                                                             *)
soft_iic1_init ==
    { released \o pulled \o <<"SDA_H", "SCL_H">> :
        released \in { <<"SDA_H", "SCL_H">>, <<"SCL_H", "SDA_H">> },
        pulled   \in { <<"SDA_L", "SCL_L">>, <<"SCL_L", "SDA_L">> } }

(* What an operation makes of the master's outputs. *)
Drive(out, op) ==
    CASE op = "SDA_H" -> [ out EXCEPT !.sda = 1 ]
      [] op = "SDA_L" -> [ out EXCEPT !.sda = 0 ]
      [] op = "SCL_H" -> [ out EXCEPT !.scl = 1 ]
      [] op = "SCL_L" -> [ out EXCEPT !.scl = 0 ]
      [] OTHER -> out

-----------------------------------------------------------------------------
(* The slave's bus interface (not under src/):                              *)
(*   st     off, rx (a byte comes in), rxack (it acknowledges one),         *)
(*          tx (a byte goes out), txack (the master's turn to acknowledge)  *)
(*   first  the byte coming in is the first after a START                   *)
(*   bits   what of it has come in, or what is still to go out              *)
(*   pull   it pulls SDA                                                    *)
Idle == [ st |-> "off", first |-> FALSE, bits |-> <<>>, pull |-> FALSE ]
Receive(first, bits) == [ st |-> "rx", first |-> first, bits |-> bits, pull |-> FALSE ]
Acknowledge(first, bits) ==
    [ st |-> "rxack", first |-> first, bits |-> bits, pull |-> TRUE ]
Await(bits) == [ st |-> "txack", first |-> FALSE, bits |-> bits, pull |-> FALSE ]
Started == Receive(TRUE, <<>>)

Sda(out, port) == IF out.sda = 1 /\ ~port.pull THEN 1 ELSE 0

(* It puts out the first of these bits, and all ones when it has none. *)
Send(bits) == [ st |-> "tx", first |-> FALSE, bits |-> bits,
                pull |-> bits # <<>> /\ Head(bits) = 0 ]
=============================================================================
