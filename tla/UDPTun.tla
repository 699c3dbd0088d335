-------------------------------- MODULE UDPTun --------------------------------
(***************************************************************************)
(* cmd/udp_tun: the callbacks of registry.go with the statistics of        *)
(* snmp.go, over the latency mock, for one remote address of the tunnel.   *)
(* Sessions of one address follow one another as SessionCallbacks has it,  *)
(* which UDPServer implements (RunsCallbacks); that a UDPClient that has   *)
(* been closed runs no more callback is ReconnectAlone; sessions of other  *)
(* addresses share only the sum of the statistics with it.  Packets are    *)
(* numbered over all sessions; statistics are kept in packets.             *)
(***************************************************************************)
EXTENDS Latency, FiniteSets

CONSTANTS
  MaxPackets,  \* bound on the packets of a direction
  MaxSessions  \* bound on the sessions

ASSUME TunAssumption == MaxPackets \in Nat /\ MaxSessions \in Nat

VARIABLES
  mode, header,    \* the Registry's
  stage,           \* handlerLoop of the session: its place in the callbacks
  cli,             \* whether s.cli is set
  client,          \* handlerLoop of the UDPClient's session
  snmps,           \* whether the session's statistics are in _tunSnmp.snmps
  recv,            \* recvClientPackets ("in"), recvProxyPackets ("out")
  total,           \* the same of _tunSnmp.total
  offered,         \* packets the two handlers have taken
  sessions         \* number of sessions so far

config == <<mode, header>>
stats == <<snmps, recv, total>>
tunVars == <<config, stage, cli, client, stats, offered, sessions>>
vars == <<latencyVars, tunVars>>

Stages ==
  {"none", "snmp", "actor", "dial", "askCli", "waitCli", "askSvr", "waitSvr",
   "serve", "send", "closeCli", "closeSnmp", "closeActor", "joinActor", "done", "panic"}

(* InitRegistry: without header in normal mode.                            *)
Init ==
  /\ LatencyInit
  /\ mode \in {"normal", "client", "server"}
  /\ header \in (IF mode = "normal" THEN {FALSE} ELSE BOOLEAN)
  /\ stage = "none" /\ cli = FALSE /\ client = "off"
  /\ snmps = FALSE /\ recv = Fresh(0) /\ total = Fresh(0)
  /\ offered = Fresh(0) /\ sessions = 0

Step(from, to) == stage = from /\ stage' = to

Counts == mode # "normal"

(* The end that strips the header fails on a packet that is too short.     *)
Unpacks(d) == header /\ mode = (IF d = "in" THEN "server" ELSE "client")

-----------------------------------------------------------------------------
(* OnConnect, once the server has a new session for the address            *)
NewSession ==
  /\ sessions < MaxSessions
  /\ sessions' = sessions + 1
  /\ Step("none", "snmp")
  /\ UNCHANGED <<latencyVars, config, cli, client, stats, offered>>

(* getSingleTunSnmp: the statistics in the map, or new ones.               *)
ConnectSnmp ==
  /\ Step("snmp", "actor")
  /\ cli' = FALSE
  /\ IF Counts /\ ~snmps THEN snmps' = TRUE /\ recv' = Fresh(0) ELSE UNCHANGED <<snmps, recv>>
  /\ UNCHANGED <<latencyVars, config, client, total, offered, sessions>>

(* NewLatencyActor fails only on a name that is taken, see ActorServes.    *)
ConnectActor ==
  /\ Step("actor", "dial")
  /\ NewLatencyActor
  /\ UNCHANGED <<config, cli, client, stats, offered, sessions>>

(* NewUDPClient; after an error the session goes on without s.cli.         *)
ConnectDial ==
  /\ \/ Step("dial", "askCli") /\ cli' = TRUE /\ client' = "idle"
     \/ Step("dial", "serve") /\ UNCHANGED <<cli, client>>
  /\ UNCHANGED <<latencyVars, config, stats, offered, sessions>>

(* SyncRequest of RegisterSendToCli, then of RegisterSendToSvr             *)
Ask(d, from, to) ==
  /\ Step(from, to)
  /\ SendMail(Register(d))
  /\ UNCHANGED <<config, cli, client, stats, offered, sessions>>

MutAnswer(d, from, to) ==   \* an AsyncRequest in place of the SyncRequest
  /\ Step(from, to)
  /\ UNCHANGED <<latencyVars, config, cli, client, stats, offered, sessions>>

Answer(d, from, to) ==
  /\ Step(from, to)
  /\ d \in sendTo
  /\ UNCHANGED <<latencyVars, config, cli, client, stats, offered, sessions>>

OnConnect ==
  \/ ConnectSnmp \/ ConnectActor \/ ConnectDial
  \/ Ask("in", "askCli", "waitCli") \/ Answer("in", "waitCli", "askSvr")
  \/ Ask("out", "askSvr", "waitSvr") \/ Answer("out", "waitSvr", "serve")

-----------------------------------------------------------------------------
(* Counting a packet: recvClient, recvProxy.                               *)
Receive(d) ==
  /\ offered[d] < MaxPackets
  /\ offered' = [offered EXCEPT ![d] = @ + 1]
  /\ recv' = IF Counts THEN [recv EXCEPT ![d] = @ + 1] ELSE recv
  /\ UNCHANGED <<snmps, total>>

(* OnMsg up to AsyncRequest                                                *)
OnMsg ==
  /\ Step("serve", "send")
  /\ Receive("in")
  /\ UNCHANGED <<latencyVars, config, cli, client, sessions>>

(* unpack fails: the error ends the session's loop.                        *)
OnMsgFails ==
  /\ Step("serve", "closeCli")
  /\ Unpacks("in")
  /\ UNCHANGED <<latencyVars, config, cli, client, stats, offered, sessions>>

OnMsgSend ==
  /\ Step("send", "serve")
  /\ SendMail(Packet("in", offered["in"]))
  /\ UNCHANGED <<config, cli, client, stats, offered, sessions>>

(* The client's OnMsg, in the goroutine of its own session                 *)
ClientOnMsg ==
  /\ client = "idle" /\ client' = "send"
  /\ Receive("out")
  /\ UNCHANGED <<latencyVars, config, stage, cli, sessions>>

(* unpack fails, or the client's timeout has closed its session.           *)
ClientEnds ==
  /\ client = "idle" /\ client' = "off"
  /\ UNCHANGED <<latencyVars, config, stage, cli, stats, offered, sessions>>

ClientSend ==
  /\ client = "send" /\ client' = "idle"
  /\ SendMail(Packet("out", offered["out"]))
  /\ UNCHANGED <<config, stage, cli, stats, offered, sessions>>

-----------------------------------------------------------------------------
(* The session is closed, and OnDisconnect: cli.Close, snmp.close,         *)
(* actor.Close.                                                            *)
Expire ==
  /\ Step("serve", "closeCli")
  /\ UNCHANGED <<latencyVars, config, cli, client, stats, offered, sessions>>

(* s.cli.Close waits for the client's callbacks; without a client it       *)
(* dereferences nil.                                                       *)
MutCloseCli ==   \* does not wait for the client's callbacks
  /\ IF cli THEN Step("closeCli", "closeSnmp") /\ UNCHANGED client
            ELSE Step("closeCli", "panic") /\ UNCHANGED client
  /\ UNCHANGED <<latencyVars, config, cli, stats, offered, sessions>>

CloseCli ==
  /\ IF cli THEN client # "send" /\ client' = "off" /\ Step("closeCli", "closeSnmp")
            ELSE Step("closeCli", "panic") /\ UNCHANGED client
  /\ UNCHANGED <<latencyVars, config, cli, stats, offered, sessions>>

(* snmp.close: into the total and out of the map.                          *)
MutCloseSnmp ==   \* the statistics stay in the map
  /\ Step("closeSnmp", "closeActor")
  /\ total' = IF Counts THEN [d \in Dirs |-> total[d] + recv[d]] ELSE total
  /\ UNCHANGED <<latencyVars, config, cli, client, snmps, recv, offered, sessions>>

CloseSnmp ==
  /\ Step("closeSnmp", "closeActor")
  /\ IF Counts THEN /\ total' = [d \in Dirs |-> total[d] + recv[d]]
                    /\ snmps' = FALSE
               ELSE UNCHANGED <<total, snmps>>
  /\ UNCHANGED <<latencyVars, config, cli, client, recv, offered, sessions>>

Close ==
  /\ Step("closeActor", "joinActor")
  /\ CloseActor
  /\ UNCHANGED <<config, cli, client, stats, offered, sessions>>

CloseReturn ==
  /\ Step("joinActor", "done")
  /\ JoinActor
  /\ UNCHANGED <<config, cli, client, stats, offered, sessions>>

(* The server removes the session.                                         *)
DelSession ==
  /\ Step("done", "none")
  /\ UNCHANGED <<latencyVars, config, cli, client, stats, offered, sessions>>

OnDisconnect == CloseCli \/ CloseSnmp \/ Close \/ CloseReturn

-----------------------------------------------------------------------------
Actor == LogicLoop /\ UNCHANGED tunVars

Next ==
  /\ stage # "panic"   \* a panic ends the program
  /\ \/ NewSession \/ OnConnect \/ OnMsg \/ OnMsgFails \/ OnMsgSend
     \/ ClientOnMsg \/ ClientEnds \/ ClientSend
     \/ Expire \/ OnDisconnect \/ DelSession
     \/ Actor

Spec == Init /\ [][Next]_vars

(* Go chooses at random among ready select branches, so the branches of    *)
(* logicLoop and of the client's session are strongly fair; goroutines     *)
(* waiting for room in a channel are served in order.  Nothing has to      *)
(* arrive, no session has to expire.                                       *)
Fairness ==
  /\ WF_vars(OnConnect) /\ SF_vars(OnDisconnect)
  /\ SF_vars(OnMsgSend) /\ SF_vars(ClientSend)
  /\ SF_vars((\E d \in Dirs : HandleRegister(d) \/ HandlePacket(d)) /\ UNCHANGED tunVars)
  /\ SF_vars(BreakLoop /\ UNCHANGED tunVars)
  /\ \A d \in Dirs : WF_vars(Forward(d) /\ UNCHANGED tunVars)
  /\ WF_vars(TickEnd /\ UNCHANGED tunVars)
  /\ WF_vars(Ticker /\ UNCHANGED tunVars)

FairSpec == Spec /\ Fairness

-----------------------------------------------------------------------------
TypeOK ==
  /\ LatencyTypeOK
  /\ mode \in {"normal", "client", "server"} /\ header \in BOOLEAN
  /\ stage \in Stages /\ cli \in BOOLEAN
  /\ client \in {"off", "idle", "send"}
  /\ snmps \in BOOLEAN /\ recv \in [Dirs -> Nat] /\ total \in [Dirs -> Nat]
  /\ offered \in [Dirs -> Nat] /\ sessions \in Nat

(* registry.go's tunnel is a link that sends every packet on at most once, *)
(* and in order where no latency is set, over any number of sessions.      *)
Link == INSTANCE LossyLink WITH Ordered <- Dirs \ Delayed
LinkSpec == Link!Spec

(* The callbacks come as UDPServer runs them, for the one address modelled.*)
Callback ==
  CASE stage = "serve" -> "select"
    [] stage = "send" -> "onMsg"
    [] stage \in {"closeCli", "closeSnmp", "closeActor", "joinActor", "panic"} -> "disconnect"
    [] OTHER -> "connect"

Running == IF stage \in {"none", "done"} THEN {} ELSE {<<sessions, Callback>>}

Server == INSTANCE SessionCallbacks
            WITH Addrs <- {"remote"}, Sessions <- 1..MaxSessions,
                 begun <- 1..sessions, running <- [a \in {"remote"} |-> Running]
ServerSpec == Server!Spec

(* OnConnect never finds the actor's name taken by the last session of     *)
(* the address, so NewLatencyActor cannot fail and leave s.latency nil;    *)
(* and whoever is in AsyncRequest or SyncRequest has an actor that is      *)
(* registered, runs and is not being closed.                               *)
ActorServes ==
  /\ stage = "actor" => ~registered
  /\ stage \in {"send", "askCli", "waitCli", "askSvr", "waitSvr"} \/ client = "send" =>
       registered /\ loop # "off" /\ ~closing

Waiting(d) == {i \in 1..Len(mailbox) : mailbox[i].type = "packet" /\ mailbox[i].dir = d}

InHand(d) == IF (d = "in" /\ stage = "send") \/ (d = "out" /\ client = "send") THEN 1 ELSE 0

(* The statistics of the tunnel agree with those of the latency actor: no  *)
(* packet that was counted disappears between the two.                     *)
CountsAgree ==
  Counts /\ stage \notin {"none", "snmp", "actor", "done"} =>
    \A d \in Dirs : recv[d] = packets[d] + Cardinality(Waiting(d)) + InHand(d)

(* snmp.close comes when nobody counts any more: the total misses nothing  *)
(* and has nothing twice.                                                  *)
TotalIsSum ==
  Counts => \A d \in Dirs : offered[d] = total[d] + (IF snmps THEN recv[d] ELSE 0)

(* Once OnConnect has registered both send functions no packet is dropped  *)
(* for want of one.                                                        *)
ServedIsForwarded ==
  [][\A d \in Dirs :
       /\ stage \in {"serve", "send", "closeCli"} /\ cli
       /\ ~ pending[d] \subseteq pending'[d]
       => sent'[d] # sent[d]]_vars

(* OnDisconnect returns, whatever is queued or in a callback, unless it    *)
(* has no client to close.                                                 *)
DisconnectReturns == stage = "closeCli" /\ cli ~> stage = "done"
=============================================================================
