--------------------------- MODULE IotLinkProofs ---------------------------
(* Proofs about IotLink, for every value of the limits and the widths.      *)
EXTENDS IotLink, TLAPS

(* No byte behind the head of a reply looks like the head of another one.   *)
SplitSafe == AckTails \intersect {"PUBACK", "PINGRESP"} = {}

-----------------------------------------------------------------------------
(* What the operators of the client do to it. *)

LEMMA StepsTyped ==
    /\ \A x \in 0 .. ByteMod - 1 : /\ Increment(x, ByteMod) \in 0 .. ByteMod - 1
                                   /\ Decrement(x, ByteMod) \in 0 .. ByteMod - 1
    /\ \A x \in 0 .. WordMod - 1 : /\ Increment(x, WordMod) \in 0 .. WordMod - 1
                                   /\ Decrement(x, WordMod) \in 0 .. WordMod - 1
  BY LimitAssumption DEF Increment, Decrement

LEMMA ZeroClientTyped == ZeroClient \in Client
  BY LimitAssumption DEF ZeroClient, Client, LinkFlags

LEMMA ConnectTyped ==
    ASSUME NEW m \in Client, NEW mem \in BOOLEAN
    PROVE  /\ mqtt_connect(m, mem).client \in Client
           /\ mqtt_connect(m, mem).sent \in BOOLEAN
  BY StepsTyped DEF mqtt_connect, Sent, Refused, Raise, Client, LinkFlags

LEMMA PublishTyped ==
    ASSUME NEW m \in Client, NEW mem \in BOOLEAN
    PROVE  mqtt_publish(m, mem).client \in Client
  BY StepsTyped DEF mqtt_publish, Sent, Refused, Client, LinkFlags

LEMMA PingTyped ==
    ASSUME NEW m \in Client, NEW mem \in BOOLEAN
    PROVE  mqtt_ping(m, mem).client \in Client
  BY StepsTyped DEF mqtt_ping, Sent, Refused, Client, LinkFlags

LEMMA AckTyped ==
    ASSUME NEW m \in Client, NEW head
    PROVE  mqtt_ack(m, head) \in Client
  BY StepsTyped DEF mqtt_ack, mqtt_ack_pub_qos, mqtt_ack_ping, Client

LEMMA InitTyped ==
    LET start == mqtt_init([ZeroClient EXCEPT !.wait_max = WaitMax])
    IN  /\ start \in Client
        /\ start.status = {} /\ start.wait_max = WaitMax /\ start.wait_max_sum = WaitMax
        /\ start.wait_sum = 0 /\ start.connect = 0 /\ start.pub = 0 /\ start.ping = 0
<1> DEFINE z == [ZeroClient EXCEPT !.wait_max = WaitMax]
<1>1. /\ z \in Client
      /\ z.status = {} /\ z.wait_max = WaitMax
  BY LimitAssumption, ZeroClientTyped DEF ZeroClient, Client
<1> HIDE DEF z
<1>2. /\ mqtt_init(z) \in Client
  BY <1>1, LimitAssumption, ZeroClientTyped DEF mqtt_init, Client
<1>3. /\ mqtt_init(z).status = {} /\ mqtt_init(z).wait_max = WaitMax
      /\ mqtt_init(z).wait_max_sum = WaitMax /\ mqtt_init(z).wait_sum = 0
      /\ mqtt_init(z).connect = 0 /\ mqtt_init(z).pub = 0 /\ mqtt_init(z).ping = 0
  BY <1>1, LimitAssumption, ZeroClientTyped DEF mqtt_init, ZeroClient
<1> QED
  BY <1>2, <1>3 DEF z

-----------------------------------------------------------------------------
(* Type correctness *)

LEMMA SendTyped ==
    ASSUME TypeOK, NEW packet \in {"CONNECT", "PUBLISH", "PINGREQ"}, Send(packet)
    PROVE  /\ rx' \in Bytes \union {None}
           /\ tcp' \in {"down", "fresh", "session"}
           /\ pipe' \in [ Heads -> Nat ]
           /\ tail' \in Bytes \union {None}
<1>1. Answer(packet) \in Heads
  BY DEF Answer, Heads
<1> QED
  BY <1>1 DEF Send, TypeOK, NoReply, Bytes

LEMMA MemTyped == TypeOK => Mem \subseteq BOOLEAN
  BY DEF TypeOK, Mem

LEMMA InitTypeOK == Init => TypeOK
  BY ZeroClientTyped DEF Init, TypeOK, NoReply, Phases

LEMMA NextTypeOK == TypeOK /\ [Next]_vars => TypeOK'
<1> SUFFICES ASSUME TypeOK, [Next]_vars PROVE TypeOK'
  OBVIOUS
<1> USE DEF TypeOK
<1>1. CASE Poll
  <2>1. client' \in Client
    BY <1>1, AckTyped DEF Poll
  <2> QED
    BY <1>1, <2>1 DEF Poll, Phases
<1>2. CASE RelinkError
  BY <1>2 DEF RelinkError, Phases, net
<1>3. CASE RelinkBreak
  <2>1. PICK mem \in BOOLEAN :
          LET r == mqtt_connect(client, mem) IN
          IF r.ret = 0
          THEN /\ link' = 1
               /\ client' = [r.client EXCEPT !.status = {}]
               /\ Send("CONNECT")
               /\ pc' = "report"
          ELSE /\ client' = r.client
               /\ pc' = "idle"
               /\ UNCHANGED <<link, net>>
    BY <1>3, MemTyped DEF RelinkBreak
  <2>2. mqtt_connect(client, mem).client \in Client
    BY ConnectTyped
  <2>3. CASE mqtt_connect(client, mem).ret = 0
    <3>1. /\ link' = 1 /\ pc' = "report" /\ Send("CONNECT")
          /\ client' = [mqtt_connect(client, mem).client EXCEPT !.status = {}]
      BY <2>1, <2>3
    <3>2. client' \in Client
      BY <3>1, <2>2 DEF Client
    <3> QED
      BY <1>3, <3>1, <3>2, SendTyped DEF RelinkBreak, Phases
  <2>4. CASE mqtt_connect(client, mem).ret # 0
    BY <1>3, <2>1, <2>2, <2>4 DEF RelinkBreak, Phases, net
  <2> QED
    BY <2>3, <2>4
<1>4. CASE RelinkNothing
  BY <1>4 DEF RelinkNothing, Phases, net
<1>5. CASE IotInit
  <2> DEFINE start == mqtt_init([ZeroClient EXCEPT !.wait_max = WaitMax])
  <2>1. PICK mem \in BOOLEAN, conn \in {"fresh", "down"} :
          LET r == mqtt_connect(start, mem) IN
          /\ client' = [r.client EXCEPT !.status = IF pc = "init" THEN {} ELSE @]
          /\ link' = IF pc = "init" \/ r.ret = 0 THEN 1 ELSE link
          /\ tcp' = IF r.sent /\ conn = "fresh" THEN "session" ELSE conn
          /\ pipe' = IF r.sent /\ conn = "fresh"
                     THEN [NoReply EXCEPT !["CONNACK"] = 1] ELSE NoReply
          /\ IF r.sent THEN rx' = None ELSE rx' \in {None, "other"}
    BY <1>5, MemTyped DEF IotInit
  <2>2. start \in Client
    BY InitTyped
  <2> HIDE DEF start
  <2>3. mqtt_connect(start, mem).client \in Client
    BY <2>2, ConnectTyped
  <2>4. client' \in Client
    BY <2>1, <2>3 DEF Client
  <2>5. pipe' \in [Heads -> Nat]
    BY <2>1 DEF NoReply, Heads
  <2>6. rx' \in Bytes \union {None}
    BY <2>1 DEF Bytes
  <2> QED
    BY <1>5, <2>1, <2>4, <2>5, <2>6 DEF IotInit, Phases
<1>6. CASE ReportPublish
  <2>1. PICK mem \in BOOLEAN :
         LET r == mqtt_publish(client, mem) IN
         /\ client' = r.client
         /\ link' = IF r.ret = 0 THEN link ELSE 0
         /\ IF r.sent THEN Send("PUBLISH") /\ published' = sensor
                      ELSE UNCHANGED <<net, published>>
    BY <1>6, MemTyped DEF ReportPublish
  <2>2. client' \in Client
    BY <2>1, PublishTyped
  <2>3. CASE mqtt_publish(client, mem).sent
    BY <1>6, <2>1, <2>2, <2>3, SendTyped DEF ReportPublish, Phases
  <2>4. CASE ~mqtt_publish(client, mem).sent
    BY <1>6, <2>1, <2>2, <2>4 DEF ReportPublish, Phases, net
  <2> QED
    BY <2>3, <2>4
<1>7. CASE ReportPing
  <2>1. PICK mem \in BOOLEAN :
         LET r == mqtt_ping(client, mem) IN
         /\ client' = r.client
         /\ link' = IF r.ret = 0 THEN link ELSE 0
         /\ IF r.sent THEN Send("PINGREQ") ELSE UNCHANGED net
    BY <1>7, MemTyped DEF ReportPing
  <2>2. client' \in Client
    BY <2>1, PingTyped
  <2>3. CASE mqtt_ping(client, mem).sent
    BY <1>7, <2>1, <2>2, <2>3, SendTyped DEF ReportPing, Phases
  <2>4. CASE ~mqtt_ping(client, mem).sent
    BY <1>7, <2>1, <2>2, <2>4 DEF ReportPing, Phases, net
  <2> QED
    BY <2>3, <2>4
<1>8. CASE Measure
  BY <1>8 DEF Measure, task, net
<1>9. CASE ReceiveHead
  BY <1>9, LinkAssumption DEF ReceiveHead, task, Put, Bytes
<1>10. CASE ReceiveTail
  BY <1>10 DEF ReceiveTail, task, Put
<1>11. CASE Drop
  BY <1>11 DEF Drop, task, NoReply
<1>12. CASE Reconnect
  BY <1>12 DEF Reconnect, task
<1>13. CASE NetHeals \/ HeapHeals
  BY <1>13 DEF NetHeals, HeapHeals, task, net
<1>14. CASE UNCHANGED vars
  BY <1>14 DEF vars
<1> QED
  BY <1>1, <1>2, <1>3, <1>4, <1>5, <1>6, <1>7, <1>8, <1>9, <1>10, <1>11,
     <1>12, <1>13, <1>14 DEF Next, Task

(* Every field keeps its type and every counter its width, whatever the     *)
(* network, the heap and the splitting of replies do.                       *)
THEOREM TypeCorrect == Spec => []TypeOK
  BY InitTypeOK, NextTypeOK, PTL DEF Spec

-----------------------------------------------------------------------------
(* Escalation: the link is re-initialised only when every CONNECT is spent. *)

(* The error flag is only ever up while the CONNECTs are spent.  Inductive  *)
(* because the only step that sends a CONNECT and does not clear the flags  *)
(* behind it is the first one after a re-initialisation.                    *)
Spent(m) ==
    /\ m.connect <= ConnectMax + 1
    /\ "ERROR" \in m.status => m.connect = ConnectMax + 1

SpentInv == TypeOK /\ Spent(client) /\ InitOnlyWhenSpent

LEMMA ConnectSpent ==
    ASSUME NEW m \in Client, NEW mem \in BOOLEAN, Spent(m)
    PROVE  Spent(mqtt_connect(m, mem).client)
  BY LimitAssumption DEF Spent, mqtt_connect, Sent, Refused, Raise, Increment, Client

LEMMA PublishSpent ==
    ASSUME NEW m \in Client, NEW mem \in BOOLEAN, Spent(m)
    PROVE  Spent(mqtt_publish(m, mem).client)
  BY DEF Spent, mqtt_publish, Sent, Refused, Client

LEMMA PingSpent ==
    ASSUME NEW m \in Client, NEW mem \in BOOLEAN, Spent(m)
    PROVE  Spent(mqtt_ping(m, mem).client)
  BY DEF Spent, mqtt_ping, Sent, Refused, Client

LEMMA AckSpent ==
    ASSUME NEW m \in Client, NEW head, Spent(m)
    PROVE  Spent(mqtt_ack(m, head))
  BY DEF Spent, mqtt_ack, mqtt_ack_pub_qos, mqtt_ack_ping, Client

LEMMA SpentStep == SpentInv /\ [Next]_vars => SpentInv'
<1> SUFFICES ASSUME SpentInv, [Next]_vars PROVE SpentInv'
  OBVIOUS
<1>0. TypeOK /\ TypeOK'
  BY NextTypeOK DEF SpentInv
<1> USE DEF SpentInv, InitOnlyWhenSpent
<1>1. CASE Poll
  BY <1>0, <1>1, AckSpent DEF Poll, TypeOK
<1>2. CASE RelinkError
  BY <1>0, <1>2 DEF RelinkError, Spent
<1>3. CASE RelinkBreak
  <2>1. PICK mem \in BOOLEAN :
          LET r == mqtt_connect(client, mem) IN
          \/ client' = [r.client EXCEPT !.status = {}] /\ pc' = "report"
          \/ client' = r.client /\ pc' = "idle"
    BY <1>0, <1>3, MemTyped DEF RelinkBreak
  <2>2. Spent(mqtt_connect(client, mem).client)
    BY <1>0, ConnectSpent DEF TypeOK
  <2>3. mqtt_connect(client, mem).client \in Client
    BY <1>0, ConnectTyped DEF TypeOK
  <2>4. Spent(client') /\ pc' # "init"
    BY <2>1, <2>2, <2>3 DEF Spent, Client
  <2> QED
    BY <1>0, <2>4
<1>4. CASE RelinkNothing
  BY <1>0, <1>4 DEF RelinkNothing
<1>5. CASE IotInit
  <2> DEFINE start == mqtt_init([ZeroClient EXCEPT !.wait_max = WaitMax])
  <2>1. PICK mem \in BOOLEAN :
          client' = [mqtt_connect(start, mem).client
                       EXCEPT !.status = IF pc = "init" THEN {} ELSE @]
    BY <1>0, <1>5, MemTyped DEF IotInit
  <2>2. start \in Client /\ Spent(start)
    BY InitTyped, LimitAssumption DEF Spent
  <2> HIDE DEF start
  <2>3. /\ Spent(mqtt_connect(start, mem).client)
        /\ mqtt_connect(start, mem).client \in Client
    BY <2>2, ConnectSpent, ConnectTyped
  <2>4. Spent(client')
    BY <2>1, <2>3 DEF Spent, Client
  <2>5. pc' # "init"
    BY <1>5 DEF IotInit
  <2> QED
    BY <1>0, <2>4, <2>5
<1>6. CASE ReportPublish
  BY <1>0, <1>6, MemTyped, PublishSpent DEF ReportPublish, TypeOK
<1>7. CASE ReportPing
  BY <1>0, <1>7, MemTyped, PingSpent DEF ReportPing, TypeOK
<1>8. CASE UNCHANGED <<pc, client>>
  BY <1>0, <1>8
<1> QED
  BY <1>1, <1>2, <1>3, <1>4, <1>5, <1>6, <1>7, <1>8
  DEF Next, Task, Measure, ReceiveHead, ReceiveTail, Drop, Reconnect,
      NetHeals, HeapHeals, task, vars

(* A re-initialisation is only ever reached with every CONNECT spent,       *)
(* although iot_relink clears the error flag in the very step that sends    *)
(* the last of them (baiduiot.c:121).                                       *)
THEOREM Escalation == Spec => []InitOnlyWhenSpent
<1>1. Init => SpentInv
  BY InitTypeOK, LimitAssumption
  DEF Init, SpentInv, InitOnlyWhenSpent, Spent, ZeroClient
<1>2. SpentInv => InitOnlyWhenSpent
  BY DEF SpentInv
<1> QED
  BY <1>1, <1>2, SpentStep, PTL DEF Spec

-----------------------------------------------------------------------------
(* The cache of published readings. *)

LEMMA PublishReturns ==
    ASSUME NEW m, NEW mem \in BOOLEAN, mqtt_publish(m, mem).ret = 0
    PROVE  mqtt_publish(m, mem).sent
  BY DEF mqtt_publish, Sent, Refused

LEMMA CacheStep ==
    ASSUME TypeOK, [Next]_vars, cached' # cached
    PROVE  published' = cached' \/ link' = 0
<1>1. ReportPublish
  BY DEF Next, Task, Poll, RelinkError, RelinkBreak, RelinkNothing, IotInit, ReportPing,
         Measure, ReceiveHead, ReceiveTail, Drop, Reconnect, NetHeals, HeapHeals,
         task, vars
<1>2. PICK mem \in BOOLEAN :
        LET r == mqtt_publish(client, mem) IN
        /\ link' = IF r.ret = 0 THEN link ELSE 0
        /\ r.sent => published' = sensor
  BY <1>1, MemTyped DEF ReportPublish
<1> QED
  BY <1>1, <1>2, PublishReturns DEF ReportPublish

(* Whatever the network and malloc do, a reading that enters the cache was  *)
(* handed to the UART or leaves the link marked as down.                    *)
THEOREM CacheHonest == Spec => ReadingSentOrLinkDown
<1>1. TypeOK /\ [Next]_vars => [cached' # cached => published' = cached' \/ link' = 0]_vars
  BY CacheStep
<1> QED
  BY <1>1, TypeCorrect, PTL DEF Spec, ReadingSentOrLinkDown

-----------------------------------------------------------------------------
(* Credit: every reply that can still be counted was paid for. *)

HeadIs(k) == IF rx = k THEN 1 ELSE 0

(* NoPhantomCredit says nothing about the two kinds of request apart, so a  *)
(* reply of one kind could still take the other's counter below zero; and   *)
(* without the bound an increment could wrap.  The inductive invariant pays *)
(* for the replies per kind and keeps the sum within its bound.             *)
Ledger(m) == m.wait_sum = m.connect + m.pub + m.ping
Bounded(m) == /\ m.connect <= ConnectMax + 1
              /\ m.wait_sum <= WaitMax + 1 + m.connect
Limited(m) == m.wait_max = WaitMax /\ m.wait_max_sum = WaitMax

Paid == /\ client.pub >= pipe["PUBACK"] + HeadIs("PUBACK")
        /\ client.ping >= pipe["PINGRESP"] + HeadIs("PINGRESP")

CreditInv ==
    /\ TypeOK
    /\ pc = "boot" \/ Limited(client)
    /\ Ledger(client) /\ Bounded(client)
    /\ Paid
    /\ tail \notin {"PUBACK", "PINGRESP"}

LEMMA ConnectLedger ==
    ASSUME NEW m \in Client, NEW mem \in BOOLEAN, Ledger(m), Bounded(m)
    PROVE  LET r == mqtt_connect(m, mem) IN
           /\ Ledger(r.client) /\ Bounded(r.client)
           /\ r.client.pub = m.pub /\ r.client.ping = m.ping
           /\ Limited(m) => Limited(r.client)
<1> DEFINE n == [ m EXCEPT !.connect = Increment(@, ByteMod),
                           !.wait_sum = Increment(@, WordMod) ]
<1>1. CASE m.connect > ConnectMax
  BY <1>1 DEF Ledger, Bounded, Limited, mqtt_connect, Refused, Raise, Client
<1>2. CASE ~(m.connect > ConnectMax) /\ ~mem
  BY <1>2 DEF Ledger, Bounded, Limited, mqtt_connect, Refused, Client
<1>3. CASE ~(m.connect > ConnectMax) /\ mem
  <2> DEFINE c == IF n.connect > ConnectMax THEN Raise(n, "ERROR") ELSE n
  <2>1. /\ m.connect \in 0 .. ByteMod - 1 /\ m.wait_sum \in 0 .. WordMod - 1
        /\ m.pub \in Nat /\ m.ping \in Nat
    BY LimitAssumption DEF Client
  <2>2. /\ Increment(m.connect, ByteMod) = m.connect + 1
        /\ Increment(m.wait_sum, WordMod) = m.wait_sum + 1
    BY <1>3, <2>1, LimitAssumption DEF Bounded, Increment
  <2>3. n \in Client
    BY <2>1, StepsTyped DEF Client
  <2>4. /\ n.connect = m.connect + 1 /\ n.wait_sum = m.wait_sum + 1
        /\ n.pub = m.pub /\ n.ping = m.ping
        /\ n.wait_max = m.wait_max /\ n.wait_max_sum = m.wait_max_sum
    BY <2>2 DEF Client
  <2>5. mqtt_connect(m, mem).client = c
    BY <1>3 DEF mqtt_connect, Sent
  <2> HIDE DEF n
  <2>6. /\ c.connect = n.connect /\ c.wait_sum = n.wait_sum
        /\ c.pub = n.pub /\ c.ping = n.ping
        /\ c.wait_max = n.wait_max /\ c.wait_max_sum = n.wait_max_sum
    BY <2>3 DEF Raise, Client
  <2> HIDE DEF c
  <2>7. Ledger(c)
    BY <2>1, <2>4, <2>6 DEF Ledger
  <2>8. Bounded(c)
    BY <1>3, <2>1, <2>4, <2>6, LimitAssumption DEF Bounded
  <2>9. Limited(m) => Limited(c)
    BY <2>4, <2>6 DEF Limited
  <2> QED
    BY <2>4, <2>5, <2>6, <2>7, <2>8, <2>9
<1> QED
  BY <1>1, <1>2, <1>3

LEMMA PublishLedger ==
    ASSUME NEW m \in Client, NEW mem \in BOOLEAN, Ledger(m), Bounded(m), Limited(m)
    PROVE  LET r == mqtt_publish(m, mem) IN
           /\ Ledger(r.client) /\ Bounded(r.client) /\ Limited(r.client)
           /\ r.client.pub = IF r.sent THEN m.pub + 1 ELSE m.pub
           /\ r.client.ping = m.ping
  BY LimitAssumption
  DEF Ledger, Bounded, Limited, mqtt_publish, OutOfCredit, Sent, Refused, Increment, Client

LEMMA PingLedger ==
    ASSUME NEW m \in Client, NEW mem \in BOOLEAN, Ledger(m), Bounded(m), Limited(m)
    PROVE  LET r == mqtt_ping(m, mem) IN
           /\ Ledger(r.client) /\ Bounded(r.client) /\ Limited(r.client)
           /\ r.client.ping = IF r.sent THEN m.ping + 1 ELSE m.ping
           /\ r.client.pub = m.pub
  BY LimitAssumption
  DEF Ledger, Bounded, Limited, mqtt_ping, OutOfCredit, Sent, Refused, Increment, Client

LEMMA AckLedger ==
    ASSUME NEW m \in Client, NEW head, Ledger(m), Bounded(m), Limited(m),
           head = "PUBACK" => m.pub > 0, head = "PINGRESP" => m.ping > 0
    PROVE  LET n == mqtt_ack(m, head) IN
           /\ Ledger(n) /\ Bounded(n) /\ Limited(n)
           /\ n.pub = IF head = "PUBACK" THEN m.pub - 1 ELSE m.pub
           /\ n.ping = IF head = "PINGRESP" THEN m.ping - 1 ELSE m.ping
  BY LimitAssumption
  DEF Ledger, Bounded, Limited, mqtt_ack, mqtt_ack_pub_qos, mqtt_ack_ping, Counting,
      Decrement, Client

(* A packet adds at most its own answer and empties the receive buffer.     *)
LEMMA SendPaid ==
    ASSUME TypeOK, NEW packet \in {"CONNECT", "PUBLISH", "PINGREQ"}, Send(packet)
    PROVE  /\ pipe'["PUBACK"] \in Nat /\ pipe'["PINGRESP"] \in Nat
           /\ pipe'["PUBACK"] <= pipe["PUBACK"] + (IF packet = "PUBLISH" THEN 1 ELSE 0)
           /\ pipe'["PINGRESP"] <= pipe["PINGRESP"] + (IF packet = "PINGREQ" THEN 1 ELSE 0)
           /\ rx' = None /\ tail' = tail
<1>1. pipe \in [Heads -> Nat] /\ pipe["PUBACK"] \in Nat /\ pipe["PINGRESP"] \in Nat
  BY DEF TypeOK, Heads
<1>2. CASE pipe' = pipe
  BY <1>1, <1>2 DEF Send
<1>3. CASE pipe' = [pipe EXCEPT ![Answer(packet)] = @ + 1]
  BY <1>1, <1>3 DEF Send, Answer, Heads
<1>4. CASE pipe' = NoReply
  BY <1>1, <1>4 DEF Send, NoReply, Heads
<1> QED
  BY <1>2, <1>3, <1>4 DEF Send

LEMMA CreditInit == Init => CreditInv
  BY InitTypeOK, LinkAssumption, LimitAssumption
  DEF Init, CreditInv, Ledger, Bounded, Paid, HeadIs, ZeroClient, NoReply, Heads, Bytes

LEMMA CreditStep == SplitSafe /\ CreditInv /\ [Next]_vars => CreditInv'
<1> SUFFICES ASSUME SplitSafe, CreditInv, [Next]_vars PROVE CreditInv'
  OBVIOUS
<1>0. TypeOK /\ TypeOK'
  BY NextTypeOK DEF CreditInv
<1>a. /\ client \in Client
      /\ client.pub \in Nat /\ client.ping \in Nat
      /\ pipe \in [Heads -> Nat] /\ pipe["PUBACK"] \in Nat /\ pipe["PINGRESP"] \in Nat
  BY <1>0, LimitAssumption DEF TypeOK, Heads, Client
<1>b. None \notin {"PUBACK", "PINGRESP", "CONNACK", "other"}
  BY LinkAssumption DEF Bytes, Heads
<1> USE DEF CreditInv
<1>1. CASE Poll
  <2>1. Limited(client) /\ UNCHANGED <<pipe, tail>> /\ rx' = None /\ pc' # "boot"
    BY <1>1 DEF Poll
  <2>2. CASE client' = client
    <3>1. Paid'
      BY <1>a, <1>b, <2>1, <2>2 DEF Paid, HeadIs
    <3> QED
      BY <1>0, <2>1, <2>2, <3>1 DEF Ledger, Bounded, Limited
  <2>3. CASE client' # client
    <3>1. /\ rx = "PUBACK" => client.pub > 0
          /\ rx = "PINGRESP" => client.ping > 0
      BY <1>a DEF Paid, HeadIs
    <3>2. client' = mqtt_ack(client, rx)
      BY <1>1, <2>3 DEF Poll
    <3>3. /\ Ledger(client') /\ Bounded(client') /\ Limited(client')
          /\ client'.pub = IF rx = "PUBACK" THEN client.pub - 1 ELSE client.pub
          /\ client'.ping = IF rx = "PINGRESP" THEN client.ping - 1 ELSE client.ping
      BY <1>a, <2>1, <3>1, <3>2, AckLedger
    <3>4. Paid'
      BY <1>a, <1>b, <2>1, <3>3 DEF Paid, HeadIs
    <3> QED
      BY <1>0, <2>1, <3>3, <3>4 DEF Ledger, Bounded, Limited
  <2> QED
    BY <2>2, <2>3
<1>2. CASE RelinkBreak
  <2>1. PICK mem \in BOOLEAN :
          LET r == mqtt_connect(client, mem) IN
          \/ /\ client' = [r.client EXCEPT !.status = {}] /\ Send("CONNECT")
          \/ client' = r.client /\ UNCHANGED net
    BY <1>0, <1>2, MemTyped DEF RelinkBreak
  <2> DEFINE n == mqtt_connect(client, mem).client
  <2>2. /\ n \in Client /\ Ledger(n) /\ Bounded(n) /\ Limited(n)
        /\ n.pub = client.pub /\ n.ping = client.ping
    BY <1>2, <1>a, ConnectLedger, ConnectTyped DEF RelinkBreak
  <2>3. client' = n \/ client' = [n EXCEPT !.status = {}]
    BY <2>1
  <2> HIDE DEF n
  <2>4. /\ client'.wait_sum = n.wait_sum /\ client'.connect = n.connect
        /\ client'.pub = n.pub /\ client'.ping = n.ping
        /\ client'.wait_max = n.wait_max /\ client'.wait_max_sum = n.wait_max_sum
    BY <2>2, <2>3 DEF Client
  <2>5. Ledger(client') /\ Bounded(client') /\ Limited(client')
    BY <2>2, <2>4 DEF Ledger, Bounded, Limited
  <2>6. CASE Send("CONNECT")
    <3>1. Paid'
      BY <1>0, <1>a, <1>b, <2>2, <2>4, <2>6, SendPaid DEF Paid, HeadIs
    <3> QED
      BY <1>0, <2>5, <2>6, <3>1, SendPaid DEF Ledger, Bounded, Limited
  <2>7. CASE UNCHANGED net
    BY <1>0, <2>2, <2>4, <2>5, <2>7 DEF Paid, HeadIs, net, Ledger, Bounded, Limited
  <2> QED
    BY <2>1, <2>6, <2>7
<1>3. CASE IotInit
  <2> DEFINE start == mqtt_init([ZeroClient EXCEPT !.wait_max = WaitMax])
  <2>1. PICK mem \in BOOLEAN :
          client' = [mqtt_connect(start, mem).client
                       EXCEPT !.status = IF pc = "init" THEN {} ELSE @]
    BY <1>0, <1>3, MemTyped DEF IotInit
  <2>2. start \in Client /\ Ledger(start) /\ Bounded(start) /\ Limited(start)
    BY InitTyped, LimitAssumption DEF Ledger, Bounded, Limited
  <2> DEFINE n == mqtt_connect(start, mem).client
  <2> HIDE DEF start
  <2>3. n \in Client /\ Ledger(n) /\ Bounded(n) /\ Limited(n)
    BY <2>2, ConnectLedger, ConnectTyped
  <2>4. client' = [n EXCEPT !.status = IF pc = "init" THEN {} ELSE @]
    BY <2>1
  <2> HIDE DEF n
  <2>5. /\ client'.wait_sum = n.wait_sum /\ client'.connect = n.connect
        /\ client'.pub = n.pub /\ client'.ping = n.ping
        /\ client'.wait_max = n.wait_max /\ client'.wait_max_sum = n.wait_max_sum
    BY <2>3, <2>4 DEF Client
  <2>6. Ledger(client') /\ Bounded(client') /\ Limited(client')
    BY <2>3, <2>5 DEF Ledger, Bounded, Limited
  <2>7. /\ pipe'["PUBACK"] = 0 /\ pipe'["PINGRESP"] = 0
        /\ rx' \in {None, "other"} /\ tail' \notin {"PUBACK", "PINGRESP"}
    BY <1>3, <1>b DEF IotInit, NoReply, Heads
  <2>8. client'.pub \in Nat /\ client'.ping \in Nat
    BY <2>3, <2>5, LimitAssumption DEF Client
  <2>9. Paid'
    BY <1>b, <2>7, <2>8 DEF Paid, HeadIs
  <2> QED
    BY <1>0, <2>6, <2>7, <2>9 DEF Ledger, Bounded, Limited
<1>4. CASE ReportPublish
  <2>1. PICK mem \in BOOLEAN :
         LET r == mqtt_publish(client, mem) IN
         /\ client' = r.client
         /\ IF r.sent THEN Send("PUBLISH") ELSE UNCHANGED net
    BY <1>0, <1>4, MemTyped DEF ReportPublish
  <2>2. LET r == mqtt_publish(client, mem) IN
        /\ Ledger(client') /\ Bounded(client') /\ Limited(client')
        /\ client'.pub = IF r.sent THEN client.pub + 1 ELSE client.pub
        /\ client'.ping = client.ping
    BY <1>4, <1>a, <2>1, PublishLedger DEF ReportPublish
  <2>3. Paid' /\ tail' \notin {"PUBACK", "PINGRESP"}
    <3>1. CASE mqtt_publish(client, mem).sent
      BY <1>0, <1>a, <1>b, <2>1, <2>2, <3>1, SendPaid DEF Paid, HeadIs
    <3>2. CASE ~mqtt_publish(client, mem).sent
      BY <2>1, <2>2, <3>2 DEF Paid, HeadIs, net
    <3> QED
      BY <3>1, <3>2
  <2> QED
    BY <1>0, <2>2, <2>3 DEF Ledger, Bounded, Limited
<1>5. CASE ReportPing
  <2>1. PICK mem \in BOOLEAN :
         LET r == mqtt_ping(client, mem) IN
         /\ client' = r.client
         /\ IF r.sent THEN Send("PINGREQ") ELSE UNCHANGED net
    BY <1>0, <1>5, MemTyped DEF ReportPing
  <2>2. LET r == mqtt_ping(client, mem) IN
        /\ Ledger(client') /\ Bounded(client') /\ Limited(client')
        /\ client'.ping = IF r.sent THEN client.ping + 1 ELSE client.ping
        /\ client'.pub = client.pub
    BY <1>5, <1>a, <2>1, PingLedger DEF ReportPing
  <2>3. Paid' /\ tail' \notin {"PUBACK", "PINGRESP"}
    <3>1. CASE mqtt_ping(client, mem).sent
      BY <1>0, <1>a, <1>b, <2>1, <2>2, <3>1, SendPaid DEF Paid, HeadIs
    <3>2. CASE ~mqtt_ping(client, mem).sent
      BY <2>1, <2>2, <3>2 DEF Paid, HeadIs, net
    <3> QED
      BY <3>1, <3>2
  <2> QED
    BY <1>0, <2>2, <2>3 DEF Ledger, Bounded, Limited
<1>6. CASE ReceiveHead
  <2>1. PICK k \in Heads :
          /\ pipe[k] > 0
          /\ pipe' = [pipe EXCEPT ![k] = @ - 1]
          /\ rx' = IF rx = None THEN k ELSE rx
    BY <1>6 DEF ReceiveHead, Put
  <2>2. tail' \notin {"PUBACK", "PINGRESP"}
    BY <1>6 DEF ReceiveHead, SplitSafe
  <2>3. Paid'
    BY <1>6, <1>a, <1>b, <2>1 DEF ReceiveHead, Paid, HeadIs, Heads, task
  <2> QED
    BY <1>0, <1>6, <2>2, <2>3 DEF ReceiveHead, task, Ledger, Bounded, Limited
<1>7. CASE ReceiveTail
  <2>1. Paid' /\ tail' \notin {"PUBACK", "PINGRESP"}
    BY <1>7, <1>a, <1>b DEF ReceiveTail, Put, Paid, HeadIs, task
  <2> QED
    BY <1>0, <1>7, <2>1 DEF ReceiveTail, task, Ledger, Bounded, Limited
<1>8. CASE Drop
  <2>1. Paid'
    BY <1>8, <1>a DEF Drop, NoReply, Paid, HeadIs, Heads, task
  <2> QED
    BY <1>0, <1>8, <2>1 DEF Drop, task, Ledger, Bounded, Limited
<1>9. CASE /\ UNCHANGED <<client, rx, pipe, tail>>
           /\ pc = "boot" => pc' = "boot"
  BY <1>0, <1>9 DEF Ledger, Bounded, Limited, Paid, HeadIs
<1> QED
  BY <1>1, <1>2, <1>3, <1>4, <1>5, <1>6, <1>7, <1>8, <1>9
  DEF Next, Task, RelinkError, RelinkNothing, Measure, Reconnect,
      NetHeals, HeapHeals, task, net, vars

(* As long as no byte behind the head of a reply can pass for the head of   *)
(* another one, every reply that mqtt_ack may still count is covered by     *)
(* wait_sum, which therefore never wraps below zero.                        *)
THEOREM Credit == ASSUME SplitSafe PROVE Spec => []NoPhantomCredit
<1>1. CreditInv => NoPhantomCredit
  <2> SUFFICES ASSUME CreditInv PROVE NoPhantomCredit
    OBVIOUS
  <2>1. /\ client.pub \in Nat /\ client.ping \in Nat /\ client.connect \in Nat
        /\ pipe["PUBACK"] \in Nat /\ pipe["PINGRESP"] \in Nat
    BY LimitAssumption DEF CreditInv, TypeOK, Client, Heads
  <2> QED
    BY <2>1 DEF CreditInv, Ledger, Paid, HeadIs, NoPhantomCredit, Owed
<1> QED
  BY <1>1, CreditInit, CreditStep, PTL DEF Spec

(* Under the same assumption the sum exceeds the configured limit by at     *)
(* most one request and the CONNECTs, which are sent without asking it.     *)
THEOREM Limit == ASSUME SplitSafe PROVE Spec => []CreditBound
<1>1. CreditInv => CreditBound
  BY DEF CreditInv, Bounded, CreditBound
<1> QED
  BY <1>1, CreditInit, CreditStep, PTL DEF Spec
=============================================================================
