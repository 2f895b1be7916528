---------------------------- MODULE Esp8266Proofs ----------------------------
(* Proofs about Esp8266: the type invariant; that the receive buffer is a   *)
(* FirstByte box as long as it does not overflow; that a command believes   *)
(* only its own answer.                                                     *)
EXTENDS Esp8266, TLAPS

LEMMA SmallModulo == ASSUME NEW x \in Nat, NEW n \in Nat, x < n PROVE x % n = x
  OBVIOUS

LEMMA ModuloBound == ASSUME NEW x \in Nat, NEW n \in Nat, n > 0 PROVE x % n \in 0 .. n - 1
  OBVIOUS

(* What is copied stays what came first until the index is reset.           *)
Copied ==
    /\ pc = "copy" => arrived > 0
    /\ pc = "count" => arrived > 0 /\ got = reve_buff[0]
    /\ pc = "reset" /\ count # 0 => arrived > 0 /\ got = reve_buff[0]

BufferInv == TypeOK /\ reve_buff_len = arrived /\ Copied

LEMMA InitBuffer == Init => BufferInv
  BY UartAssumption
  DEF Init, BufferInv, TypeOK, Copied, Slots, Reading, Searching

(* A byte goes behind those that have arrived, never on top of one.         *)
LEMMA PutBehind ==
    ASSUME BufferInv, arrived < Burst, NEW b \in Byte, put_buff(b)
    PROVE  /\ reve_buff_len' = arrived + 1
           /\ reve_buff' = [reve_buff EXCEPT ![arrived] = b]
           /\ reve_buff' \in [ Slots -> Byte \union {Nul} ]
           /\ arrived \in Slots /\ arrived + 1 \in Slots
           /\ arrived > 0 => reve_buff'[0] = reve_buff[0]
<1>1. arrived \in Nat /\ arrived + 1 < Size /\ arrived \in Slots /\ arrived + 1 \in Slots
  BY UartAssumption DEF BufferInv, TypeOK, Slots
<1>2. (arrived + 1) % Size = arrived + 1
  BY <1>1, SmallModulo, UartAssumption
<1>3. reve_buff' = [reve_buff EXCEPT ![arrived] = b]
  BY DEF put_buff, BufferInv
<1>4. 0 \in Slots
  BY UartAssumption DEF Slots
<1> QED
  BY <1>1, <1>2, <1>3, <1>4 DEF put_buff, BufferInv, TypeOK

LEMMA NextBuffer == BufferInv /\ [Next]_vars => BufferInv'
<1> SUFFICES ASSUME BufferInv, [Next]_vars PROVE BufferInv'
  OBVIOUS
<1>0. TypeOK /\ reve_buff_len = arrived /\ Copied
  BY DEF BufferInv
<1>a. 0 \in Slots /\ 0 \in 0 .. Burst /\ Burst \in Nat /\ Size \in Nat
  BY UartAssumption DEF Slots
<1> USE DEF recv, cmd
<1>1. CASE Receive
  <2>1. PICK b \in Byte :
          /\ put_buff(b)
          /\ heard' = IF b # Answer \/ heard # "no" \/ pc \notin Searching THEN heard
                      ELSE IF retry > 0 THEN "inTime" ELSE "late"
    BY <1>1 DEF Receive
  <2>2. /\ reve_buff_len' = arrived + 1 /\ arrived' = arrived + 1
        /\ reve_buff' \in [ Slots -> Byte \union {Nul} ]
        /\ arrived + 1 \in Slots
        /\ arrived > 0 => reve_buff'[0] = reve_buff[0]
    BY <1>1, <2>1, PutBehind DEF Receive
  <2>3. TypeOK'
    BY <1>0, <1>1, <1>a, <2>1, <2>2 DEF Receive, TypeOK
  <2>4. Copied'
    BY <1>0, <1>1, <1>a, <2>2 DEF Receive, Copied, TypeOK
  <2> QED
    BY <2>2, <2>3, <2>4 DEF BufferInv
<1>2. CASE SendData
  BY <1>0, <1>2, <1>a DEF SendData, Reset, BufferInv, TypeOK, Copied
<1>3. CASE RecvLook
  BY <1>0, <1>3, <1>a DEF RecvLook, BufferInv, TypeOK, Copied, Reading
<1>4. CASE RecvCopy
  <2>1. reve_buff[0] \in Byte \union {Nul} /\ arrived > 0 /\ got' = reve_buff[0]
    BY <1>0, <1>4, <1>a DEF RecvCopy, TypeOK, Copied
  <2> QED
    BY <1>0, <1>4, <2>1 DEF RecvCopy, BufferInv, TypeOK, Copied, Reading
<1>5. CASE RecvCount
  BY <1>0, <1>5 DEF RecvCount, BufferInv, TypeOK, Copied, Reading
<1>6. CASE RecvReset
  BY <1>0, <1>6, <1>a DEF RecvReset, Reset, BufferInv, TypeOK, Copied
<1>7. CASE CmdClear
  <2>1. retry' \in 0 .. RetryMod - 1
    <3>1. PICK r \in Retries : retry' = r % RetryMod
      BY <1>7 DEF CmdClear
    <3> QED
      BY <3>1, ModuloBound, UartAssumption
  <2> QED
    BY <1>0, <1>7, <1>a, <2>1 DEF CmdClear, Reset, BufferInv, TypeOK, Copied
<1>8. CASE CmdWipe
  BY <1>0, <1>8 DEF CmdWipe, BufferInv, TypeOK, Copied, Searching
<1>9. CASE Round
  <2>1. retry' \in 0 .. RetryMod - 1
    BY <1>0, <1>9, UartAssumption DEF Round, TypeOK
  <2> QED
    BY <1>0, <1>9, <2>1 DEF Round, BufferInv, TypeOK, Copied, Searching
<1>10. CASE Look
  BY <1>0, <1>10 DEF Look, BufferInv, TypeOK, Copied, Searching
<1>11. CASE Pause
  BY <1>0, <1>11 DEF Pause, BufferInv, TypeOK, Copied, Searching
<1>12. CASE UNCHANGED vars
  BY <1>0, <1>12 DEF vars, BufferInv, TypeOK, Copied
<1> QED
  BY <1>1, <1>2, <1>3, <1>4, <1>5, <1>6, <1>7, <1>8, <1>9, <1>10, <1>11, <1>12
  DEF Next, RecvData, SendCmd

LEMMA BufferCorrect == Spec => []BufferInv
<1> QED
  BY InitBuffer, NextBuffer, PTL DEF Spec

(* The variables keep their types, the index its range in particular, for   *)
(* every size of the buffer and every burst that is smaller.                *)
THEOREM TypeCorrect == Spec => []TypeOK
<1>1. BufferInv => TypeOK
  BY DEF BufferInv
<1> QED
  BY <1>1, BufferCorrect, PTL

-----------------------------------------------------------------------------
Boxed == IF reve_buff_len = 0 THEN None ELSE reve_buff[0]

LEMMA InitBox == Init => Box!Init
  BY DEF Init, Box!Init

LEMMA StepBox ==
    ASSUME BufferInv, [Next]_vars PROVE [Box!Next]_<<Boxed, taken>>
<1>0. TypeOK /\ reve_buff_len = arrived /\ Copied
  BY DEF BufferInv
<1>a. 0 \in Slots
  BY UartAssumption DEF Slots
<1> USE DEF recv, cmd, Boxed
<1>1. CASE Receive
  <2>1. PICK b \in Byte : put_buff(b)
    BY <1>1 DEF Receive
  <2>2. /\ reve_buff_len' = arrived + 1
        /\ reve_buff' = [reve_buff EXCEPT ![arrived] = b]
        /\ arrived > 0 => reve_buff'[0] = reve_buff[0]
    BY <1>1, <2>1, PutBehind DEF Receive
  <2>3. Boxed' = IF Boxed = None THEN b ELSE Boxed
    BY <1>0, <1>a, <2>2, UartAssumption DEF TypeOK
  <2>4. taken' = taken
    BY <1>1 DEF Receive
  <2> QED
    BY <2>3, <2>4 DEF Box!Next, Box!Put
<1>2. CASE SendData
  BY <1>2 DEF SendData, Reset, Box!Next, Box!Clear
<1>3. CASE RecvReset
  <2>1. Boxed' = None
    BY <1>3 DEF RecvReset, Reset
  <2>2. taken' \in {Boxed, None}
    BY <1>0, <1>3 DEF RecvReset, Copied, TypeOK
  <2> QED
    BY <2>1, <2>2 DEF Box!Next, Box!Take
<1>4. CASE CmdClear
  BY <1>4 DEF CmdClear, Reset, Box!Next, Box!Clear
<1>5. CASE CmdWipe
  <2>1. Boxed' \in {None, Nul} /\ taken' = taken
    BY <1>5, <1>a DEF CmdWipe
  <2> QED
    BY <2>1 DEF Box!Next, Box!Clear
<1>6. CASE RecvLook \/ RecvCopy \/ RecvCount \/ Round \/ Look \/ Pause \/ UNCHANGED vars
  BY <1>6 DEF RecvLook, RecvCopy, RecvCount, Round, Look, Pause, vars
<1> QED
  BY <1>1, <1>2, <1>3, <1>4, <1>5, <1>6 DEF Next, RecvData, SendCmd

(* Whatever the interrupt and the reads of the main loop interleave to, the *)
(* buffer is a box that keeps the first byte and gives it out or drops it,  *)
(* which is all that IotLink supposes of it.                                *)
THEOREM BufferIsBox == Spec => KeepsFirstByte
<1>1. BufferInv /\ [Next]_vars => [Box!Next]_<<Boxed, taken>>
  BY StepBox
<1> QED
  BY <1>1, InitBox, BufferCorrect, PTL DEF Spec, KeepsFirstByte, Box!Spec, Boxed
-----------------------------------------------------------------------------
(* While a command searches, no answer is in the buffer unless one came in  *)
(* since its clear_buf.                                                     *)
Fresh == pc \in Searching /\ heard = "no" => \A i \in Slots : reve_buff[i] # Answer

LEMMA NextFresh == BufferInv /\ Fresh /\ [Next]_vars => Fresh'
<1> SUFFICES ASSUME BufferInv, Fresh, [Next]_vars PROVE Fresh'
  OBVIOUS
<1> USE DEF recv, cmd, Fresh
<1>1. CASE Receive
  <2>1. PICK b \in Byte :
          /\ put_buff(b)
          /\ heard' = IF b # Answer \/ heard # "no" \/ pc \notin Searching THEN heard
                      ELSE IF retry > 0 THEN "inTime" ELSE "late"
    BY <1>1 DEF Receive
  <2>2. pc' = pc
    BY <1>1 DEF Receive
  <2>3. reve_buff' = [reve_buff EXCEPT ![arrived] = b]
    BY <1>1, <2>1, PutBehind DEF Receive
  <2>4. reve_buff \in [ Slots -> Byte \union {Nul} ]
    BY DEF BufferInv, TypeOK
  <2>5. SUFFICES ASSUME pc \in Searching, heard' = "no", NEW i \in Slots
                 PROVE  reve_buff'[i] # Answer
    BY <2>2
  <2>6. heard = "no" /\ b # Answer
    BY <2>1, <2>5
  <2> QED
    BY <2>3, <2>4, <2>5, <2>6
<1>2. CASE CmdWipe
  BY <1>2, UartAssumption DEF CmdWipe
<1>3. CASE RecvLook \/ RecvCopy \/ RecvCount \/ RecvReset \/ SendData \/ CmdClear
  BY <1>3 DEF RecvLook, RecvCopy, RecvCount, RecvReset, SendData, CmdClear, Searching
<1>4. CASE Round \/ Look \/ Pause
  BY <1>4 DEF Round, Look, Pause, Searching
<1>5. CASE UNCHANGED vars
  BY <1>5 DEF vars
<1> QED
  BY <1>1, <1>2, <1>3, <1>4, <1>5 DEF Next, RecvData, SendCmd

(* A search that ends with the answer found has found one that came in      *)
(* after the command's own clear_buf: for every size of the buffer, burst   *)
(* and number of rounds, and whatever the module says in between.           *)
THEOREM AnswersAreNew == Spec => AnswerIsNew
<1>1. Init => Fresh
  BY DEF Init, Fresh, Searching
<1>2. BufferInv /\ Fresh /\ [Next]_vars => [pc = "look" /\ pc' = "idle" => heard # "no"]_vars
  <2> SUFFICES ASSUME BufferInv, Fresh, Next, pc = "look", pc' = "idle"
               PROVE  heard # "no"
    OBVIOUS
  <2>1. Look
    BY DEF Next, Receive, SendData, RecvData, RecvLook, RecvCopy, RecvCount, RecvReset,
           SendCmd, CmdClear, CmdWipe, Round, Pause
  <2>2. PICK i \in Slots : reve_buff[i] = Answer
    BY <2>1 DEF Look, Found
  <2> QED
    BY <2>2 DEF Fresh, Searching
<1> QED
  BY <1>1, <1>2, NextFresh, BufferCorrect, PTL DEF Spec, AnswerIsNew
=============================================================================
