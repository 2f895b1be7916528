-------------------------------- MODULE Sht20 --------------------------------
(***************************************************************************)
(* The humidity and temperature sensor task (driver/sht20/sht20.c) over    *)
(* the bit-banged bus of SoftI2c, and the sensor (external).               *)
(*                                                                         *)
(* sht20_task runs once a round of the main loop.  A step of the model is  *)
(* one operation on the lines, to which the sensor reacts at once; the     *)
(* measurement itself ends at a time of its own.  The processor may be     *)
(* reset between any two operations, the sensor never is.                  *)
(***************************************************************************)
EXTENDS SoftI2c

CONSTANTS
    None,
    Address,       \* SHT20_ADDRESS
    Quantities,    \* what is measured: "rh" and "t"
    Command,       \* the command that measures a quantity
    Readings(_),   \* the three bytes that a measurement of it may yield
    Period,        \* rounds between two measurements (300 in the code)
    DelayMod,      \* the width of measure_delay (2^16 in the code)
    MaxOverTime,   \* attempts at reading after the first one (10 in the code)
    MaxRounds,     \* a measurement is over within so many rounds
    MaxResets      \* how often the processor is reset

ASSUME Sht20Assumption ==
    /\ Quantities = {"rh", "t"}
    /\ Command \in [ Quantities -> 0 .. 255 ] /\ Command["rh"] # Command["t"]
    /\ Address \in 0 .. 127
    /\ \A q \in Quantities : Readings(q) \subseteq [ 1 .. 3 -> 0 .. 255 ] \ {None}
    /\ None \notin Quantities
    /\ Period \in Nat \ {0} /\ DelayMod \in Nat \ {0}
    /\ MaxOverTime \in Nat /\ MaxRounds \in Nat /\ MaxResets \in Nat

VARIABLES
    out,     \* the master's outputs
    todo,    \* what the procedure that runs is still going to do to the lines
    call,    \* "none", or the procedure: "init", "write", "attempt" at reading,
             \* "bytes", "stop" and "retry" after a missing acknowledgement of a
             \* write and an attempt, "abandon"
    rbuff,   \* the bits received
    over_time,
    sht,     \* mode, measure_delay, humidity, tempreture
    port,    \* the sensor's bus interface
    dev,     \* the sensor: the quantity being measured, the rounds it may still
             \* take, the result that waits to be read
    resets

vars == <<out, todo, call, rbuff, over_time, sht, port, dev, resets>>
master == <<out, todo, call, rbuff, over_time, sht>>

Flat(bytes) == BitsOf(bytes[1]) \o BitsOf(bytes[2]) \o BitsOf(bytes[3])

(* sht20_init, after the pins *)
Fresh == [ mode |-> "START", delay |-> 0, humidity |-> None, tempreture |-> None ]

Init ==
    /\ out = [ sda |-> 1, scl |-> 1 ]
    /\ todo \in soft_iic1_init /\ call = "init"
    /\ rbuff = <<>> /\ over_time = 0
    /\ sht = Fresh
    /\ port = Idle
    /\ dev = [ busy |-> None, rounds |-> 0, result |-> None ]
    /\ resets = 0

-----------------------------------------------------------------------------
(* The sensor's reaction to an edge. *)

(* A byte is in: whether it is acknowledged. *)
Accepts(p) ==
    IF p.first
    THEN \/ p.bits = BitsOf(2 * Address) /\ dev.busy = None
         \/ p.bits = BitsOf(2 * Address + 1) /\ dev.busy = None /\ dev.result # None
    ELSE \E q \in Quantities : p.bits = BitsOf(Command[q])

Commanded(p) == { q \in Quantities : ~p.first /\ p.bits = BitsOf(Command[q]) }

(* The clock falls: a byte is complete, an acknowledgement over, the next   *)
(* bit due.                                                                 *)
Fall(p) ==
    CASE p.st = "rx" /\ Len(p.bits) = 8 /\ Accepts(p) -> Acknowledge(p.first, p.bits)
      [] p.st = "rx" /\ Len(p.bits) = 8 /\ ~Accepts(p) -> Idle
      [] p.st = "rxack" /\ p.first /\ p.bits = BitsOf(2 * Address) -> Receive(FALSE, <<>>)
      [] p.st = "rxack" /\ p.first /\ p.bits # BitsOf(2 * Address) ->
           Send(Flat(dev.result))
      [] p.st = "rxack" /\ ~p.first -> Idle
      [] p.st = "tx" -> IF (Len(p.bits) - 1) % 8 = 0 THEN Await(Tail(p.bits))
                        ELSE Send(Tail(p.bits))
      [] p.st = "txack" -> IF p.bits = <<>> THEN Idle ELSE Send(p.bits)
      [] OTHER -> p

(* The clock rises over a data line at level sda: it samples. *)
Rise(p, sda) ==
    CASE p.st = "rx" -> Receive(p.first, Append(p.bits, sda))
      [] p.st = "txack" /\ sda = 1 -> Idle
      [] OTHER -> p

(* What the sensor sees when the master's outputs change. *)
Sees(before, after) ==
    CASE before.scl = 1 /\ after.scl = 0 -> Fall(port)
      [] before.scl = 0 /\ after.scl = 1 -> Rise(port, Sda(after, port))
      [] after.scl = 1 /\ Sda(before, port) = 1 /\ Sda(after, port) = 0 -> Started
      [] after.scl = 1 /\ Sda(before, port) = 0 /\ Sda(after, port) = 1 -> Idle
      [] OTHER -> port

(* A command starts a measurement, a read takes its result away. *)
Senses(before, after) ==
    /\ port' = Sees(before, after)
    /\ dev' = IF before.scl = 1 /\ after.scl = 0
              THEN CASE port.st = "rx" /\ port'.st = "rxack" /\ Commanded(port) # {} ->
                          [ busy |-> CHOOSE q \in Quantities : q \in Commanded(port),
                            rounds |-> MaxRounds, result |-> None ]
                     [] port.st = "rxack" /\ port'.st = "tx" -> [ dev EXCEPT !.result = None ]
                     [] OTHER -> dev
              ELSE dev

(* The measurement is over. *)
Measured ==
    /\ dev.busy # None
    /\ \E bytes \in Readings(dev.busy) :
          dev' = [ busy |-> None, rounds |-> 0, result |-> bytes ]
    /\ UNCHANGED <<out, todo, call, rbuff, over_time, sht, port, resets>>

-----------------------------------------------------------------------------
(* The task and the procedures it calls *)

(* An operation on the lines. *)
Operate ==
    /\ todo # <<>> /\ Head(todo) \notin {"ack?", "bit?"}
    /\ out' = Drive(out, Head(todo))
    /\ todo' = Tail(todo)
    /\ Senses(out, out')
    /\ UNCHANGED <<call, rbuff, over_time, sht, resets>>

(* A data bit, most significant first. *)
Sample ==
    /\ todo # <<>> /\ Head(todo) = "bit?"
    /\ rbuff' = Append(rbuff, Sda(out, port))
    /\ todo' = Tail(todo)
    /\ UNCHANGED <<out, call, over_time, sht, port, dev, resets>>

(* A faulty variant of the next one, that goes on after a missing            *)
(* acknowledgement.                                                          *)
AcknowledgedAnyway ==
    /\ todo # <<>> /\ Head(todo) = "ack?"
    /\ todo' = <<"SCL_L">> \o Tail(todo)
    /\ UNCHANGED <<out, call, rbuff, over_time, sht, port, dev, resets>>

(* iic_wack sees SDA low: the clock goes low and the procedure goes on. *)
Acknowledged ==
    /\ todo # <<>> /\ Head(todo) = "ack?" /\ Sda(out, port) = 0
    /\ todo' = <<"SCL_L">> \o Tail(todo)
    /\ UNCHANGED <<out, call, rbuff, over_time, sht, port, dev, resets>>

(* It sees SDA high, gives up at the first look, and stops the bus. *)
NotAcknowledged ==
    /\ todo # <<>> /\ Head(todo) = "ack?" /\ Sda(out, port) = 1
    /\ todo' = iic_stop
    /\ call' = IF call = "write" THEN "stop" ELSE "retry"
    /\ UNCHANGED <<out, rbuff, over_time, sht, port, dev, resets>>

(* A faulty variant of the next one, that counts one attempt too many. *)
RetryOnceMore ==
    /\ call = "retry" /\ todo = <<>>
    /\ over_time' = over_time + 1
    /\ IF over_time' > MaxOverTime + 1
       THEN /\ call' = "abandon"
            /\ todo' = ReadAddress(Address)
       ELSE call' = "attempt" /\ todo' = ReadAttempt(Address)
    /\ UNCHANGED <<out, rbuff, sht, port, dev, resets>>

(* A faulty variant of the next one, that looks for the acknowledgement of   *)
(* the first attempt only.                                                   *)
RetryUnchecked ==
    /\ call = "retry" /\ todo = <<>>
    /\ over_time' = over_time + 1
    /\ call' = "attempt" /\ todo' = ReadAddress(Address)
    /\ UNCHANGED <<out, rbuff, sht, port, dev, resets>>

(* soft_iic1_read tries again.  The last time it only sends the address and  *)
(* returns -1 without looking for an acknowledgement and without a STOP.     *)
Retry ==
    /\ call = "retry" /\ todo = <<>>
    /\ over_time' = over_time + 1
    /\ IF over_time' > MaxOverTime
       THEN /\ call' = "abandon"
            /\ todo' = ReadAddress(Address)
       ELSE call' = "attempt" /\ todo' = ReadAttempt(Address)
    /\ UNCHANGED <<out, rbuff, sht, port, dev, resets>>

(* The address was acknowledged: three bytes. *)
ReadBytes ==
    /\ call = "attempt" /\ todo = <<>>
    /\ call' = "bytes" /\ todo' = ReadThree
    /\ UNCHANGED <<out, rbuff, over_time, sht, port, dev, resets>>

(* sht20_get_humidity, sht20_get_tmperature: the reading is filed under the *)
(* quantity that the mode says, its checksum unseen.                        *)
File ==
    /\ call = "bytes" /\ todo = <<>> /\ call' = "none"
    /\ LET reading == SubSeq(rbuff, 1, 16) IN
       sht' = IF sht.mode = "RH_START"
              THEN [ sht EXCEPT !.mode = "RH_END", !.humidity = reading ]
              ELSE [ sht EXCEPT !.mode = "T_END", !.tempreture = reading ]
    /\ UNCHANGED <<out, todo, rbuff, over_time, port, dev, resets>>

(* A round of the main loop.  The sensor's time: a measurement is over       *)
(* within MaxRounds rounds, and before the first round after a boot, which   *)
(* the seconds of iot_init delay.                                            *)
RoundPasses ==
    /\ dev.busy # None => dev.rounds > 0
    /\ dev' = IF dev.busy = None THEN dev ELSE [ dev EXCEPT !.rounds = @ - 1 ]

StartWrite(command) ==
    call' = "write" /\ todo' = soft_iic1_write(Address, command)
StartRead ==
    /\ call' = "attempt" /\ todo' = ReadAttempt(Address)
    /\ rbuff' = <<>> /\ over_time' = 0

(* A faulty variant of the next one, that forgets to start over. *)
ModeKept(delay) == sht.mode

(* Every 300 rounds a measurement starts, whatever became of the last one. *)
ModeAt(delay) == IF delay % Period = 0 THEN "START" ELSE sht.mode

(* sht20_task up to the first thing it does to the bus *)
Round ==
    /\ call \in {"init", "none", "abandon"} /\ todo = <<>>
    /\ RoundPasses
    /\ LET delay == (sht.delay + 1) % DelayMod
           mode  == ModeAt(delay)
       IN  \/ /\ mode = "START" /\ StartWrite(Command["rh"])
              /\ sht' = [ sht EXCEPT !.delay = delay, !.mode = "RH_START" ]
              /\ UNCHANGED <<rbuff, over_time>>
           \/ /\ mode = "RH_END" /\ StartWrite(Command["t"])
              /\ sht' = [ sht EXCEPT !.delay = delay, !.mode = "T_START" ]
              /\ UNCHANGED <<rbuff, over_time>>
           \/ /\ mode \in {"RH_START", "T_START"} /\ StartRead
              /\ sht' = [ sht EXCEPT !.delay = delay ]
           \/ /\ mode = "T_END" /\ call' = "none"
              /\ sht' = [ sht EXCEPT !.delay = delay ]
              /\ UNCHANGED <<todo, rbuff, over_time>>
    /\ UNCHANGED <<out, port, resets>>

(* It reads in the same round, whatever the write returned. *)
ReadAfterWrite ==
    /\ call \in {"write", "stop"} /\ todo = <<>>
    /\ StartRead
    /\ UNCHANGED <<out, sht, port, dev, resets>>

McuReset ==
    /\ resets < MaxResets /\ resets' = resets + 1
    /\ todo' \in soft_iic1_init /\ call' = "init"
    /\ rbuff' = <<>> /\ over_time' = 0
    /\ sht' = Fresh
    /\ dev' = [ dev EXCEPT !.rounds = 0 ]
    /\ UNCHANGED <<out, port>>

Task == \/ Operate \/ Sample \/ Acknowledged \/ NotAcknowledged \/ Retry
        \/ ReadBytes \/ File \/ Round \/ ReadAfterWrite

Next == Task \/ Measured \/ McuReset

Spec == Init /\ [][Next]_vars
FairSpec == Spec /\ WF_vars(Task) /\ WF_vars(Measured)

-----------------------------------------------------------------------------
(* Properties *)

TypeOK ==
    /\ out \in [ sda : {0, 1}, scl : {0, 1} ]
    /\ call \in {"none", "init", "write", "attempt", "bytes", "stop", "retry", "abandon"}
    /\ todo \in Seq({"SDA_H", "SDA_L", "SCL_H", "SCL_L", "ack?", "bit?"})
    /\ rbuff \in Seq({0, 1}) /\ Len(rbuff) \in 0 .. 24
    /\ over_time \in 0 .. MaxOverTime + 1
    /\ sht.mode \in {"START", "RH_START", "RH_END", "T_START", "T_END"}
    /\ sht.delay \in 0 .. DelayMod - 1
    /\ port.st \in {"off", "rx", "rxack", "tx", "txack"} /\ Len(port.bits) \in 0 .. 24
    /\ port.pull => port.st \in {"rxack", "tx"}
    /\ dev.busy \in Quantities \cup {None} /\ dev.rounds \in 0 .. MaxRounds
    /\ resets \in 0 .. MaxResets

Word(bits) == SubSeq(bits, 1, 16)
Words(q) == { Word(Flat(r)) : r \in Readings(q) }

(* What stands under a quantity is what the sensor measured of this quantity *)
(* (sht20.c:74-97), although no checksum is looked at and the result of the  *)
(* write that starts the measurement is ignored (120, 124): bit by bit, with *)
(* attempts that are refused or given up and with readings that are lost.    *)
(* After a reset of the processor it may be wrong: see Recovers.             *)
FiledRight ==
    resets = 0 =>
        /\ sht.humidity # None => sht.humidity \in Words("rh")
        /\ sht.tempreture # None => sht.tempreture \in Words("t")

(* A read that returned 0 leaves both lines released and the sensor off the  *)
(* bus (iic_nack and iic_stop at iic.c:187, 192): it owes no bit and holds   *)
(* no line.                                                                  *)
BusFree ==
    resets = 0 /\ call = "none" /\ todo = <<>> =>
        out = [ sda |-> 1, scl |-> 1 ] /\ port = Idle

(* The last START of a read that is given up has no acknowledgement clocked *)
(* and no STOP (iic.c:173-177); if the sensor answers it, it is still there *)
(* at the next START, which it does not see: over_time tells this START     *)
(* from the others.                                                         *)
StartAfterAbandon ==
    \/ call = "attempt" /\ over_time = 0
       /\ Len(todo) = Len(ReadAttempt(Address)) - 3
    \/ call = "write" /\ over_time > MaxOverTime
       /\ \E q \in Quantities : Len(todo) = Len(soft_iic1_write(Address, Command[q])) - 3

(* The sensor gives its result away under the eyes of a master that saw the *)
(* acknowledgement of its address and will read the bits, or in that one    *)
(* START, or because a new measurement replaces it: wherever else the two   *)
(* may disagree about whose turn it is, no reading is lost.                 *)
GivenToReader ==
    [][ resets = 0 /\ dev.result # None /\ dev'.result = None =>
          \/ call = "attempt" /\ todo = <<"SCL_L">>
          \/ StartAfterAbandon
          \/ dev'.busy # None ]_vars

FiledAfresh ==
    /\ call = "bytes" /\ todo = <<>> /\ sht.mode = "T_START"
    /\ Word(rbuff) \in Words("t") /\ sht.humidity \in Words("rh")
AnsweredTooLate == call = "abandon" /\ port.st = "rxack"

(* Again and again both quantities are read, and read right, unless the      *)
(* sensor again and again answers the very address after which the master    *)
(* gives up.  This includes every reset of the processor in the middle of a  *)
(* transfer, after which the sensor sends bits nobody asked for and sees no  *)
(* START: nothing in the code frees the bus, the clocks of the following     *)
(* calls do.                                                                 *)
Recovers == []<>FiledAfresh \/ []<>AnsweredTooLate
=============================================================================
