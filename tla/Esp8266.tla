------------------------------- MODULE Esp8266 -------------------------------
(***************************************************************************)
(* The UART of the WiFi module (driver/baiduiot/esp8266.c): the buffer that*)
(* usart2_isr fills and that the main loop reads, resets and searches      *)
(* without masking the interrupt, byte by byte between any two accesses.   *)
(*                                                                         *)
(* A byte of the model is one byte of the line, except that an expected    *)
(* answer ("OK") is one byte, Answer, the last to come in: strstr finds it *)
(* when it is whole.  The module is external: it sends what it likes.      *)
(***************************************************************************)
EXTENDS Integers

CONSTANTS
    Byte, Answer,  \* what comes in, the expected answer among it
    Nul, None,     \* 0 in the buffer; nothing
    Size,          \* 256, the buffer's length and the width of its uint8_t index
    Burst,         \* at most so many bytes come in between two resets of the index
    Retries,       \* the retry arguments of esp8266_sendcmd's callers
    RetryMod,      \* 256, the width of its uint8_t parameter
    Chatter        \* the module may talk while a command is being prepared

ASSUME UartAssumption ==
    /\ Answer \in Byte /\ Nul \notin Byte /\ None \notin Byte \union {Nul}
    /\ Size \in Nat /\ Burst \in Nat /\ 0 < Burst /\ Burst < Size
    /\ Retries \subseteq Nat /\ RetryMod \in Nat \ {0}
    /\ Chatter \in BOOLEAN

VARIABLES
    reve_buff,      \* the buffer
    reve_buff_len,  \* its index
    pc,             \* what the main loop is about to do
    got,            \* esp8266_recvdata: the first byte copied, None before
    count,          \*   and its *count
    taken,          \* the first byte that esp8266_recvdata's caller was given
    retry,          \* esp8266_sendcmd: the rounds left
    old_reve_len,   \*   and the length of the last search
    ret,            \*   and its result
    arrived,        \* the bytes since the last reset of the index
    heard           \* the answer came since the command's reset: no, late or in time

recv == <<got, count, taken>>
cmd  == <<retry, old_reve_len, ret>>
vars == <<reve_buff, reve_buff_len, pc, recv, cmd, arrived, heard>>

Slots == 0 .. Size - 1
Reading   == {"copy", "count", "reset"}
Searching == {"round", "look", "pause"}

TypeOK ==
    /\ reve_buff \in [ Slots -> Byte \union {Nul} ]
    /\ reve_buff_len \in Slots
    /\ pc \in {"idle", "wipe"} \union Reading \union Searching
    /\ got \in Byte \union {Nul, None} /\ count \in Slots
    /\ taken \in Byte \union {Nul, None}
    /\ retry \in 0 .. RetryMod - 1 /\ old_reve_len \in Slots
    /\ ret \in {0, -1}
    /\ arrived \in 0 .. Burst
    /\ heard \in {"no", "late", "inTime"}

Init ==
    /\ reve_buff = [ i \in Slots |-> Nul ] /\ reve_buff_len = 0
    /\ pc = "idle"
    /\ got = None /\ count = 0 /\ taken = None
    /\ retry = 0 /\ old_reve_len = 0 /\ ret = 0
    /\ arrived = 0 /\ heard = "no"

-----------------------------------------------------------------------------
(* A faulty variant of the next one, whose index wraps one byte too early. *)
put_buff_short(b) ==
    /\ reve_buff' = [reve_buff EXCEPT ![reve_buff_len] = b]
    /\ reve_buff_len' = IF reve_buff_len + 2 < Size THEN reve_buff_len + 1 ELSE 0

put_buff(b) ==
    /\ reve_buff' = [reve_buff EXCEPT ![reve_buff_len] = b]
    /\ reve_buff_len' = (reve_buff_len + 1) % Size

(* usart2_isr.  An answer is in time if a round of the search is left. *)
Receive ==
    /\ arrived < Burst
    /\ pc = "wipe" => Chatter
    /\ \E b \in Byte :
         /\ put_buff(b)
         /\ heard' = IF b # Answer \/ heard # "no" \/ pc \notin Searching THEN heard
                     ELSE IF retry > 0 THEN "inTime" ELSE "late"
    /\ arrived' = arrived + 1
    /\ UNCHANGED <<pc, recv, cmd>>

Reset == reve_buff_len' = 0 /\ arrived' = 0

(* esp8266_senddata *)
SendData ==
    /\ pc = "idle"
    /\ Reset
    /\ UNCHANGED <<reve_buff, pc, recv, cmd, heard>>

-----------------------------------------------------------------------------
(* esp8266_recvdata: the length is looked at, read for the copy, read again *)
(* for the count, and reset. *)
RecvLook ==
    /\ pc = "idle"
    /\ IF reve_buff_len # 0 THEN pc' = "copy" /\ UNCHANGED count
                            ELSE pc' = "reset" /\ count' = 0
    /\ got' = None
    /\ UNCHANGED <<reve_buff, reve_buff_len, taken, cmd, arrived, heard>>

RecvCopy ==
    /\ pc = "copy"
    /\ got' = IF reve_buff_len = 0 THEN got ELSE reve_buff[0]
    /\ pc' = "count"
    /\ UNCHANGED <<reve_buff, reve_buff_len, count, taken, cmd, arrived, heard>>

(* A faulty variant that counts a 0 behind the bytes. *)
RecvCountNul ==
    /\ pc = "count"
    /\ count' = reve_buff_len + 1
    /\ pc' = "reset"
    /\ UNCHANGED <<reve_buff, reve_buff_len, got, taken, cmd, arrived, heard>>

RecvCount ==
    /\ pc = "count"
    /\ count' = reve_buff_len
    /\ pc' = "reset"
    /\ UNCHANGED <<reve_buff, reve_buff_len, got, taken, cmd, arrived, heard>>

RecvReset ==
    /\ pc = "reset"
    /\ Reset
    /\ taken' = IF count = 0 THEN None ELSE got
    /\ pc' = "idle"
    /\ UNCHANGED <<reve_buff, got, count, cmd, heard>>

-----------------------------------------------------------------------------
(* esp8266_sendcmd: clear_buf resets the index and wipes the buffer, then   *)
(* the command is sent and the answer searched for, in rounds of 200 ms.    *)
CmdClear ==
    /\ pc = "idle"
    /\ \E r \in Retries : retry' = r % RetryMod
    /\ old_reve_len' = 0
    /\ Reset
    /\ heard' = "no"
    /\ pc' = "wipe"
    /\ UNCHANGED <<reve_buff, recv, ret>>

(* A faulty variant of the next one, that keeps what the buffer held. *)
CmdNoWipe ==
    /\ pc = "wipe"
    /\ pc' = "round"
    /\ UNCHANGED <<reve_buff, reve_buff_len, recv, cmd, arrived, heard>>

CmdWipe ==
    /\ pc = "wipe"
    /\ reve_buff' = [ i \in Slots |-> Nul ]
    /\ pc' = "round"
    /\ UNCHANGED <<reve_buff_len, recv, cmd, arrived, heard>>

Round ==
    /\ pc = "round"
    /\ IF retry = 0
       THEN pc' = "idle" /\ ret' = -1 /\ UNCHANGED retry
       ELSE pc' = "look" /\ retry' = retry - 1 /\ UNCHANGED ret
    /\ UNCHANGED <<reve_buff, reve_buff_len, recv, old_reve_len, arrived, heard>>

(* strstr stops at the first 0 *)
Found == \E i \in Slots : reve_buff[i] = Answer /\ \A j \in 0 .. i : reve_buff[j] # Nul

(* A faulty variant of the next one, that goes on while there is anything. *)
LookForEver ==
    /\ pc = "look"
    /\ IF reve_buff_len = 0 THEN pc' = "round" /\ UNCHANGED ret
       ELSE IF Found THEN pc' = "idle" /\ ret' = 0
       ELSE pc' = "pause" /\ UNCHANGED ret
    /\ UNCHANGED <<reve_buff, reve_buff_len, recv, retry, old_reve_len, arrived, heard>>

Look ==
    /\ pc = "look"
    /\ IF reve_buff_len = 0 \/ reve_buff_len = old_reve_len
       THEN pc' = "round" /\ UNCHANGED ret
       ELSE IF Found THEN pc' = "idle" /\ ret' = 0
       ELSE pc' = "pause" /\ UNCHANGED ret
    /\ UNCHANGED <<reve_buff, reve_buff_len, recv, retry, old_reve_len, arrived, heard>>

(* The length of the last search is noted only a millisecond after it.      *)
Pause ==
    /\ pc = "pause"
    /\ old_reve_len' = reve_buff_len
    /\ pc' = "look"
    /\ UNCHANGED <<reve_buff, reve_buff_len, recv, retry, ret, arrived, heard>>

SendCmd == CmdClear \/ CmdWipe \/ Round \/ Look \/ Pause
RecvData == RecvLook \/ RecvCopy \/ RecvCount \/ RecvReset

Next == Receive \/ SendData \/ RecvData \/ SendCmd

(* The main loop goes on with what it has begun. *)
Spec == Init /\ [][Next]_vars
FairSpec == Spec /\ WF_vars(pc # "idle" /\ (RecvData \/ SendCmd))

-----------------------------------------------------------------------------
(* Properties *)

Box == INSTANCE FirstByte
           WITH first <- IF reve_buff_len = 0 THEN None ELSE reve_buff[0], Garbled <- Nul

(* With no lock between the interrupt and the two reads of the length in    *)
(* esp8266_recvdata (lines 117-124), the caller still gets the first byte   *)
(* since the last reset, or nothing: mqtt_ack, which looks at no other,     *)
(* never acts on a byte that did not come first.                            *)
KeepsFirstByte == Box!Spec

(* esp8266_sendcmd reports success only for an answer that came in after    *)
(* the command's own clear_buf, whatever earlier answers left in the buffer.*)
AnswerIsNew == [][pc = "look" /\ pc' = "idle" => heard # "no"]_vars

(* No command waits for ever, although its inner loop (line 90) has no      *)
(* limit of its own: it goes round only while bytes come in.                *)
CommandEnds == pc \in Searching ~> pc = "idle"

(* A command whose answer comes in while there are rounds left succeeds, as *)
(* driver/esp8266/readme.md describes each of its steps.                    *)
AnswerIsFound == [][pc = "round" /\ pc' = "idle" => heard # "inTime"]_vars
=============================================================================
