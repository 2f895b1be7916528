------------------------------- MODULE IotLink -------------------------------
(***************************************************************************)
(* The supervision of the MQTT link (driver/baiduiot/baiduiot.c): the      *)
(* periodic iot_task with its poll, relink and report phases, over the     *)
(* client of MqttClient, a receive buffer that the UART interrupt fills    *)
(* while the task runs, and a network and broker that are external.        *)
(*                                                                         *)
(* The task runs in the main loop and is the only one to touch the client; *)
(* between any two of its phases (the busy waits of iot_init last seconds) *)
(* the interrupt and the network move.  task_delay, which skips 1000 calls *)
(* between two bodies, is time, and time is any number of their steps.     *)
(*                                                                         *)
(* Replies are counted, not queued: the client cannot tell two PUBACKs     *)
(* apart.  A reply reaches the UART as a head byte and a tail, so a poll   *)
(* or a send, both of which reset the buffer, may come in between.         *)
(***************************************************************************)
EXTENDS MqttClient

CONSTANTS
    Readings,   \* sensor values that differ by more than 0.2
    AckTails,   \* what the bytes after the head of a PUBACK can look like
    None,       \* no byte, no reading
    MaxUnread   \* a bound of the model: iot_task's next body, some 20 s after the
                \* last, does not start with more replies than this under way

Heads == {"PUBACK", "PINGRESP", "CONNACK"}
Bytes == Heads \union {"other"}

ASSUME LinkAssumption ==
    /\ Readings # {} /\ None \notin Readings
    /\ AckTails \subseteq Bytes /\ "other" \in AckTails
    /\ None \notin Bytes
    /\ MaxUnread \in Nat

VARIABLES
    pc,         \* the phase iot_task is about to execute
    link,       \* baiduiot.link
    client,     \* gmqtt's accounting and the static link of mqtt_client.c
    cached,     \* baiduiot.humidity and tempreture
    sensor,     \* sht20.humidity and tempreture
    published,  \* the reading of the last PUBLISH handed to the UART
    rx,         \* the first byte of reve_buff, None when reve_buff_len = 0
    tcp,        \* the TCP connection: down, fresh (no CONNECT yet), session
    pipe,       \* replies on their way to the UART, per kind
    tail,       \* the rest of a reply whose head was received
    netOk,      \* from now on the network loses nothing
    heapOk      \* from now on malloc succeeds

task == <<pc, link, client, cached, published>>
net  == <<tcp, pipe, tail, rx>>
vars == <<pc, link, client, cached, sensor, published, rx, tcp, pipe, tail,
          netOk, heapOk>>

Phases == {"boot", "idle", "relink", "init", "report"}
NoReply == [ k \in Heads |-> 0 ]

TypeOK ==
    /\ pc \in Phases
    /\ link \in {0, 1}
    /\ client \in Client
    /\ cached \in Readings \union {None}
    /\ sensor \in Readings \union {None}
    /\ published \in Readings \union {None}
    /\ rx \in Bytes \union {None}
    /\ tcp \in {"down", "fresh", "session"}
    /\ pipe \in [ Heads -> Nat ]
    /\ tail \in Bytes \union {None}
    /\ netOk \in BOOLEAN /\ heapOk \in BOOLEAN

(* Both drivers zero their readings, so the first comparison finds them     *)
(* equal unless the first measurement is already in.                        *)
Init ==
    /\ pc = "boot" /\ link = 0
    /\ client = ZeroClient
    /\ cached = None /\ sensor = None /\ published = None
    /\ rx = None /\ tcp = "down" /\ pipe = NoReply /\ tail = None
    /\ netOk \in BOOLEAN /\ heapOk \in BOOLEAN

Mem == IF heapOk THEN {TRUE} ELSE BOOLEAN

-----------------------------------------------------------------------------
(* What the transport and the broker do with a packet.  A broker closes the *)
(* connection on anything before CONNECT and on a second CONNECT; the       *)
(* module then reopens it by itself (Reconnect), which is what iot_relink   *)
(* counts on when it answers a broken link with a bare CONNECT.             *)
Answer(packet) ==
    CASE packet = "PUBLISH" -> "PUBACK"
      [] packet = "PINGREQ" -> "PINGRESP"
      [] packet = "CONNECT" -> "CONNACK"

Accepted(packet, conn) ==
    IF packet = "CONNECT" THEN conn = "fresh" ELSE conn = "session"

(* esp8266_senddata: the buffer is reset, whatever it holds.                *)
Send(packet) ==
    /\ rx' = None
    /\ \/ /\ tcp = "down"
          /\ UNCHANGED <<tcp, pipe>>
       \/ /\ Accepted(packet, tcp)
          /\ tcp' = "session"
          /\ pipe' = [pipe EXCEPT ![Answer(packet)] = @ + 1]
       \/ /\ tcp # "down" /\ ~Accepted(packet, tcp)
          /\ tcp' = "down"
          /\ pipe' = NoReply
    /\ UNCHANGED tail

-----------------------------------------------------------------------------
(* iot_task *)

UnderWay == pipe["PUBACK"] + pipe["PINGRESP"] + pipe["CONNACK"]

(* iot_recv and mqtt_ack: whatever has arrived is taken and its first byte  *)
(* looked at, unless it came in after esp8266_recvdata had found the buffer *)
(* empty and before it reset it: such a byte is dropped unseen.             *)
Poll ==
    /\ pc = "idle"
    /\ UnderWay <= MaxUnread
    /\ \E seen \in {rx, None} :
         client' = IF seen = None THEN client ELSE mqtt_ack(client, seen)
    /\ rx' = None
    /\ pc' = IF link = 0 THEN "relink" ELSE "report"
    /\ UNCHANGED <<link, cached, sensor, published, tcp, pipe, tail, netOk, heapOk>>

(* A faulty variant that goes on as if the link were up.                    *)
RelinkErrorIgnored ==
    /\ pc = "relink" /\ "ERROR" \in client.status
    /\ pc' = "report"
    /\ UNCHANGED <<link, client, cached, sensor, published, net, netOk, heapOk>>

RelinkError ==
    /\ pc = "relink" /\ "ERROR" \in client.status
    /\ pc' = "init"
    /\ UNCHANGED <<link, client, cached, sensor, published, net, netOk, heapOk>>

RelinkBreak ==
    /\ pc = "relink"
    /\ "ERROR" \notin client.status /\ "BREAK" \in client.status
    /\ \E mem \in Mem :
         LET r == mqtt_connect(client, mem) IN
         IF r.ret = 0
         THEN /\ link' = 1
              /\ client' = [r.client EXCEPT !.status = {}]
              /\ Send("CONNECT")
              /\ pc' = "report"
         ELSE /\ client' = r.client
              /\ pc' = "idle"
              /\ UNCHANGED <<link, net>>
    /\ UNCHANGED <<cached, sensor, published, netOk, heapOk>>

RelinkNothing ==
    /\ pc = "relink" /\ client.status = {}
    /\ pc' = "report"
    /\ UNCHANGED <<link, client, cached, sensor, published, net, netOk, heapOk>>

(* iot_init, from driver_init or from iot_relink.  gmqtt is cleared, the    *)
(* module closes its TCP connection and opens a new one (all its results    *)
(* are ignored, so it may have none), the accounting restarts and a CONNECT *)
(* goes out if malloc lets it.  iot_relink takes the 0 that iot_init        *)
(* always returns for success.  What the module still said stays in the     *)
(* buffer if nothing is sent.                                               *)
IotInit ==
    /\ pc \in {"boot", "init"}
    /\ \E mem \in Mem, conn \in IF netOk THEN {"fresh"} ELSE {"fresh", "down"} :
         LET start == mqtt_init([ZeroClient EXCEPT !.wait_max = WaitMax])
             r     == mqtt_connect(start, mem)
         IN  /\ client' = [r.client EXCEPT !.status = IF pc = "init" THEN {} ELSE @]
             /\ link' = IF pc = "init" \/ r.ret = 0 THEN 1 ELSE link
             /\ tcp' = IF r.sent /\ conn = "fresh" THEN "session" ELSE conn
             /\ pipe' = IF r.sent /\ conn = "fresh"
                        THEN [NoReply EXCEPT !["CONNACK"] = 1] ELSE NoReply
             /\ IF r.sent THEN rx' = None ELSE rx' \in {None, "other"}
    /\ tail' = None
    /\ pc' = IF pc = "init" THEN "report" ELSE "idle"
    /\ UNCHANGED <<cached, sensor, published, netOk, heapOk>>

(* A faulty variant that does not look at the outcome.                      *)
ReportPublishBlind ==
    /\ pc = "report" /\ sensor # cached
    /\ cached' = sensor
    /\ \E mem \in Mem :
         LET r == mqtt_publish(client, mem) IN
         /\ client' = r.client
         /\ IF r.sent THEN Send("PUBLISH") /\ published' = sensor
                      ELSE UNCHANGED <<net, published>>
    /\ pc' = "idle"
    /\ UNCHANGED <<link, sensor, netOk, heapOk>>

(* A changed reading is published, else the link is pinged.  The cache is   *)
(* overwritten before the outcome is known.                                 *)
ReportPublish ==
    /\ pc = "report" /\ sensor # cached
    /\ cached' = sensor
    /\ \E mem \in Mem :
         LET r == mqtt_publish(client, mem) IN
         /\ client' = r.client
         /\ link' = IF r.ret = 0 THEN link ELSE 0
         /\ IF r.sent THEN Send("PUBLISH") /\ published' = sensor
                      ELSE UNCHANGED <<net, published>>
    /\ pc' = "idle"
    /\ UNCHANGED <<sensor, netOk, heapOk>>

(* A faulty variant that stores the result as the state of the link.        *)
ReportPingRaw ==
    /\ pc = "report" /\ sensor = cached
    /\ \E mem \in Mem :
         LET r == mqtt_ping(client, mem) IN
         /\ client' = r.client
         /\ link' = r.ret
         /\ IF r.sent THEN Send("PINGREQ") ELSE UNCHANGED net
    /\ pc' = "idle"
    /\ UNCHANGED <<cached, sensor, published, netOk, heapOk>>

ReportPing ==
    /\ pc = "report" /\ sensor = cached
    /\ \E mem \in Mem :
         LET r == mqtt_ping(client, mem) IN
         /\ client' = r.client
         /\ link' = IF r.ret = 0 THEN link ELSE 0
         /\ IF r.sent THEN Send("PINGREQ") ELSE UNCHANGED net
    /\ pc' = "idle"
    /\ UNCHANGED <<cached, sensor, published, netOk, heapOk>>

Task == \/ Poll \/ RelinkError \/ RelinkBreak \/ RelinkNothing
        \/ IotInit \/ ReportPublish \/ ReportPing

-----------------------------------------------------------------------------
(* The rest of the world *)

(* sht20_task runs in the same loop, before iot_task.                       *)
Measure ==
    /\ pc = "idle"
    /\ \E r \in Readings : r # sensor /\ sensor' = r
    /\ UNCHANGED <<task, net, netOk, heapOk>>

(* usart2_isr puts a byte behind those already there; only the first one    *)
(* of the buffer will be looked at.                                         *)
Put(byte) == rx' = IF rx = None THEN byte ELSE rx

ReceiveHead ==
    /\ tail = None
    /\ \E k \in Heads :
         /\ pipe[k] > 0
         /\ pipe' = [pipe EXCEPT ![k] = @ - 1]
         /\ Put(k)
         /\ IF k = "PUBACK" THEN tail' \in AckTails ELSE tail' = "other"
    /\ UNCHANGED <<task, sensor, tcp, netOk, heapOk>>

ReceiveTail ==
    /\ tail # None
    /\ Put(tail)
    /\ tail' = None
    /\ UNCHANGED <<task, sensor, tcp, pipe, netOk, heapOk>>

(* The connection breaks; replies that have not reached the module are lost.*)
Drop ==
    /\ ~netOk /\ tcp # "down"
    /\ tcp' = "down" /\ pipe' = NoReply
    /\ UNCHANGED <<task, sensor, rx, tail, netOk, heapOk>>

Reconnect ==
    /\ pc # "boot" /\ tcp = "down"
    /\ tcp' = "fresh"
    /\ UNCHANGED <<task, sensor, rx, pipe, tail, netOk, heapOk>>

NetHeals  == ~netOk /\ netOk' = TRUE /\ UNCHANGED <<task, net, sensor, heapOk>>
HeapHeals == ~heapOk /\ heapOk' = TRUE /\ UNCHANGED <<task, net, sensor, netOk>>

Next == \/ Task \/ Measure
        \/ ReceiveHead \/ ReceiveTail \/ Drop \/ Reconnect
        \/ NetHeals \/ HeapHeals

(* The main loop never stops and the interrupt is served; the module        *)
(* reconnects on its own once the network is there to stay.                 *)
Fairness ==
    /\ WF_vars(Task)
    /\ WF_vars(ReceiveHead \/ ReceiveTail)
    /\ WF_vars(netOk /\ Reconnect)

Spec == Init /\ [][Next]_vars
FairSpec == Spec /\ Fairness

-----------------------------------------------------------------------------
(* Properties *)

(* Replies that mqtt_ack may still count: those under way and the one whose *)
(* head is in the buffer.                                                   *)
Owed == pipe["PUBACK"] + pipe["PINGRESP"]
        + (IF rx \in {"PUBACK", "PINGRESP"} THEN 1 ELSE 0)

(* Every reply that can still be counted was paid for: wait_sum covers it   *)
(* on top of the CONNECTs, whose answers give nothing back.  So wait_sum    *)
(* (mqtt_client.c:350,363, an unsigned subtraction without a guard) never   *)
(* goes below zero, through polls that drop replies, connections that break *)
(* and re-initialisations that restart the count.                           *)
NoPhantomCredit ==
    /\ client.wait_sum >= client.connect + Owed
    /\ client.wait_sum = client.connect + client.pub + client.ping

(* The credit limit is checked before a PUBLISH or a PINGREQ but not before *)
(* a CONNECT (mqtt_client.c:251): the sum can exceed the limit by one       *)
(* request and the CONNECTs, and by no more, however often the link is      *)
(* reported broken.                                                         *)
CreditBound ==
    /\ client.connect <= ConnectMax + 1
    /\ client.wait_sum <= WaitMax + 1 + client.connect

(* iot_relink clears the error flag that mqtt_connect has just raised       *)
(* (baiduiot.c:121 after mqtt_client.c:253).  Still, the link is            *)
(* re-initialised only when every CONNECT is spent, never on the way there. *)
InitOnlyWhenSpent == pc = "init" => client.connect = ConnectMax + 1

(* iot_task overwrites the cached reading before it knows whether the       *)
(* PUBLISH was sent (baiduiot.c:155-159): a reading that was not handed to  *)
(* the UART leaves the link marked as down in the same step.  Nothing sends *)
(* it later: the next report compares with the cache.                       *)
ReadingSentOrLinkDown ==
    [][cached' # cached => published' = cached' \/ link' = 0]_vars

(* A connection on which nothing comes back is detected and fully           *)
(* re-initialised, again and again while the silence lasts.                 *)
SilenceIsReset ==
    <>[](rx = None) /\ <>heapOk => []<>(pc = "init")

(* Once the network and the heap are well, whatever the accounting had come *)
(* to, the device gets back to an open session with credit to send.  The     *)
(* flag baiduiot.link is no part of it: a send that malloc refused clears   *)
(* it without a link_status, iot_relink then has nothing to do, and the     *)
(* link works on with the flag at 0.                                        *)
ServiceRestored ==
    netOk /\ heapOk ~> tcp = "session" /\ client.wait_sum <= WaitMax
=============================================================================
