----------------------------- MODULE MqttClient -----------------------------
(***************************************************************************)
(* The credit accounting of the MQTT client (driver/baiduiot/mqtt_client.c)*)
(* as operators on the client's state.                                     *)
(*                                                                         *)
(* A client state is a record                                              *)
(*   status        gmqtt.link_status, the set of its flag bits             *)
(*   wait_max      gmqtt.wait_max, what the caller configured              *)
(*   wait_max_sum  link.wait_max_sum, the credit limit (0: no limit)       *)
(*   wait_sum      link.wait_sum, a uint32_t: requests not yet answered    *)
(*   connect       link.connect.wait_num, a uint8_t: CONNECTs sent         *)
(*   pub, ping     link.{pub,ping}.wait_num, uint8_t: PUBLISHes and        *)
(*                 PINGREQs not yet answered                               *)
(*                                                                         *)
(* The packet builders are left out: with the identity that iot_init       *)
(* configures none of them can fail.  What can fail is malloc, the         *)
(* parameter mem of the senders.                                           *)
(***************************************************************************)
EXTENDS Integers

CONSTANTS
    WaitMax,     \* baiduiot.c's gmqtt.wait_max: 3
    ConnectMax,  \* mqtt_connect's limit on unanswered CONNECTs: 3
    ByteMod,     \* 2^8, the width of wait_num
    WordMod      \* 2^32, the width of wait_sum

ASSUME LimitAssumption ==
    /\ WaitMax \in Nat \ {0}
    /\ ConnectMax \in Nat \ {0}
    /\ ByteMod \in Nat /\ WordMod \in Nat
    /\ WaitMax + ConnectMax + 2 < ByteMod
    /\ WaitMax + ConnectMax + 2 < WordMod

LinkFlags == {"ERROR", "BREAK"}

Increment(x, mod) == IF x = mod - 1 THEN 0 ELSE x + 1
Decrement(x, mod) == IF x = 0 THEN mod - 1 ELSE x - 1

Client == [ status       : SUBSET LinkFlags,
            wait_max     : Nat,
            wait_max_sum : Nat,
            wait_sum     : 0 .. WordMod - 1,
            connect      : 0 .. ByteMod - 1,
            pub          : 0 .. ByteMod - 1,
            ping         : 0 .. ByteMod - 1 ]

(* memset(&gmqtt) and the zero-initialised link, before the first mqtt_init *)
ZeroClient == [ status |-> {}, wait_max |-> 0, wait_max_sum |-> 0,
                wait_sum |-> 0, connect |-> 0, pub |-> 0, ping |-> 0 ]

(* memset(&link), then the limit from the caller's configuration            *)
mqtt_init(m) == [ ZeroClient EXCEPT !.status = m.status, !.wait_max = m.wait_max,
                                    !.wait_max_sum = m.wait_max ]

(* The result of a sender: what it returns, the client's state after it,    *)
(* and whether it handed a packet to gmqtt.send.                            *)
Sent(m)    == [ ret |-> 0,  client |-> m, sent |-> TRUE ]
Refused(m) == [ ret |-> -1, client |-> m, sent |-> FALSE ]

Raise(m, flag) == [ m EXCEPT !.status = @ \union {flag} ]

(* A faulty variant that gives up one CONNECT too early.                    *)
mqtt_connect_hasty(m, mem) ==
    IF m.connect >= ConnectMax THEN Refused(Raise(m, "ERROR"))
    ELSE IF ~mem THEN Refused(m)
    ELSE Sent([ m EXCEPT !.connect = Increment(@, ByteMod),
                         !.wait_sum = Increment(@, WordMod) ])

mqtt_connect(m, mem) ==
    IF m.connect > ConnectMax THEN Refused(Raise(m, "ERROR"))
    ELSE IF ~mem THEN Refused(m)
    ELSE LET n == [ m EXCEPT !.connect = Increment(@, ByteMod),
                             !.wait_sum = Increment(@, WordMod) ]
         IN  Sent(IF n.connect > ConnectMax THEN Raise(n, "ERROR") ELSE n)

OutOfCredit(m) == m.wait_max_sum # 0 /\ m.wait_sum > m.wait_max_sum

mqtt_publish(m, mem) ==
    IF OutOfCredit(m) THEN Refused([ m EXCEPT !.status = {"BREAK"} ])
    ELSE IF ~mem THEN Refused(m)
    ELSE Sent([ m EXCEPT !.pub = Increment(@, ByteMod),
                         !.wait_sum = Increment(@, WordMod) ])

(* A faulty variant that sends without credit.                              *)
mqtt_ping_unlimited(m, mem) ==
    IF ~mem THEN Refused(m)
    ELSE Sent([ m EXCEPT !.ping = Increment(@, ByteMod),
                         !.wait_sum = Increment(@, WordMod) ])

(* A faulty variant that refuses without reporting the link as broken.      *)
mqtt_ping_silent(m, mem) ==
    IF OutOfCredit(m) \/ ~mem THEN Refused(m)
    ELSE Sent([ m EXCEPT !.ping = Increment(@, ByteMod),
                         !.wait_sum = Increment(@, WordMod) ])

mqtt_ping(m, mem) ==
    IF OutOfCredit(m) THEN Refused([ m EXCEPT !.status = {"BREAK"} ])
    ELSE IF ~mem THEN Refused(m)
    ELSE Sent([ m EXCEPT !.ping = Increment(@, ByteMod),
                         !.wait_sum = Increment(@, WordMod) ])

(* mqtt_ack_pub_qos and mqtt_ack_ping: an answer is counted only while      *)
(* both limits are set.                                                     *)
Counting(m) == m.wait_max # 0 /\ m.wait_max_sum # 0

mqtt_ack_pub_qos(m) ==
    IF ~Counting(m) THEN m
    ELSE [ m EXCEPT !.pub = Decrement(@, ByteMod),
                    !.wait_sum = Decrement(@, WordMod) ]

mqtt_ack_ping(m) ==
    IF ~Counting(m) THEN m
    ELSE [ m EXCEPT !.ping = Decrement(@, ByteMod),
                    !.wait_sum = Decrement(@, WordMod) ]

(* A faulty variant that takes a CONNACK for an answer to a request.        *)
mqtt_ack_any(m, head) ==
    IF head = "PUBACK" THEN mqtt_ack_pub_qos(m)
    ELSE IF head \in {"PINGRESP", "CONNACK"} THEN mqtt_ack_ping(m) ELSE m

(* head is the class of the first byte of the polled buffer, the only byte  *)
(* that mqtt_ack looks at.                                                  *)
mqtt_ack(m, head) ==
    CASE head = "PUBACK"   -> mqtt_ack_pub_qos(m)
      [] head = "PINGRESP" -> mqtt_ack_ping(m)
      [] OTHER             -> m
=============================================================================
