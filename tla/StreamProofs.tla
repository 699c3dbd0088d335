----------------------------- MODULE StreamProofs -----------------------------
(***************************************************************************)
(* Proofs about StreamSystem, for any number of connections, any capacity  *)
(* of writeCh and any traffic: state types, the server's map, what a write *)
(* loop leaves unwritten, and what Close and Reconnect leave behind.       *)
(*                                                                         *)
(* The argument for the last one: loops that are out stay out, since a     *)
(* socket is started once.  What KCPServer.Close finds it waits for; what  *)
(* it does not find is in the hands of accept, one connection at a time,   *)
(* and when accept has returned nothing is.  A client dials only when the  *)
(* socket it has, and every one it had, is out.                            *)
(***************************************************************************)
EXTENDS StreamSystem, SequenceTheorems, TLAPS

(* A socket released before addSocket; then it stays in the map.           *)
StaleReleased ==
  role = "server" => \A s \in Socks : handler[s] = "stale" => Released(s)

Exact == SocketsExact /\ StaleReleased

(* A write loop past closeCh: nothing taken earlier is left when it has    *)
(* written its last.                                                       *)
Flushing ==
  \A s \in Socks :
    /\ writer[s] \in {"last", "drain"} => closeCh[s]
    /\ kind # "ws" /\ writer[s] = "last" =>
         \A i \in 1..Len(writeCh[s]) : writeCh[s][i] # "early"

Flushed == Flushing /\ FlushedOnClose

(* Loops run only where newSocket has started them.                        *)
Unstarted ==
  \A s \in Socks :
    /\ handler[s] \in {"none", "accepted"} => reader[s] = "none" /\ writer[s] = "none"
    /\ role = "server" /\ handler[s] = "dropped" => reader[s] = "none"

(* deleteSocket is past wg.Wait.                                           *)
DeletedJoined ==
  kind = "kcp" /\ role = "server" =>
    \A s \in Socks : reader[s] \in {"delete", "close", "done"} => Joined(s)

(* Only the HTTP handler goes on after addSocket.                          *)
AddedLast == kind = "kcp" => \A s \in Socks : handler[s] # "done"

(* In the hands of accept                                                  *)
Pending(s) ==
  \/ handler[s] \in {"accepted", "init", "add"}
  \/ handler[s] = "failed" /\ ~Joined(s)

OnePending ==
  kind = "kcp" /\ role = "server" =>
    /\ \A s, t \in Socks : Pending(s) /\ Pending(t) => s = t
    /\ ~accept => \A s \in Socks : ~Pending(s)

AllFound ==
  kind = "kcp" /\ role = "server" /\ svr \in {"listener", "wait", "returned"} =>
    sockets \subseteq gone

GoneJoined ==
  role = "server" =>
    /\ \A s \in gone : Joined(s)
    /\ svr = "returned" => ~accept

(* A client: the socket newKCPSocket is at, cli.sock, and those before it  *)
Dialing(s) == handler[s] \in {"init", "failed"}

OneSocket ==
  role = "client" =>
    /\ \A s \in Socks :
         /\ handler[s] \in {"none", "init", "failed", "added", "dropped"}
         /\ Dialing(s) => svr = "dial"
         /\ handler[s] = "dropped" => Joined(s)
         /\ handler[s] = "added" => Joined(s) \/ (s = cur /\ svr # "dial")
    /\ \A s, t \in Socks :
         /\ Dialing(s) /\ Dialing(t) => s = t
         /\ s < t /\ handler[t] # "none" => handler[s] # "none"
         /\ s < t /\ reader[t] # "none" => Joined(s)

Final ==
  /\ Unstarted /\ DeletedJoined /\ AddedLast
  /\ OnePending /\ AllFound /\ GoneJoined /\ OneSocket

-----------------------------------------------------------------------------
(* Types                                                                   *)

Tags == {"early", "late", "empty"}

(* What the loops and SendMsg do to writeCh keeps its type and its bound.  *)
LEMMA EmptyQueue == <<>> \in Seq(Tags) /\ Len(<<>>) <= WriteMax
<1>1. <<>> \in Seq(Tags)
  OBVIOUS
<1>2. Len(<<>>) = 0
  OBVIOUS
<1> QED
  BY <1>1, <1>2, StreamAssumption

LEMMA TailQueue ==
  ASSUME NEW q \in Seq(Tags), q # <<>>, Len(q) <= WriteMax
  PROVE  Tail(q) \in Seq(Tags) /\ Len(Tail(q)) <= WriteMax
<1>1. Tail(q) \in Seq(Tags) /\ Len(Tail(q)) = Len(q) - 1 /\ Len(q) \in Nat
  BY HeadTailProperties
<1> QED
  BY <1>1, StreamAssumption

LEMMA AppendQueue ==
  ASSUME NEW q \in Seq(Tags), NEW m \in Tags, Len(q) < WriteMax
  PROVE  Append(q, m) \in Seq(Tags) /\ Len(Append(q, m)) <= WriteMax
<1>1. /\ Append(q, m) \in Seq(Tags) /\ Len(Append(q, m)) = Len(q) + 1
      /\ Len(q) \in Nat
  BY AppendProperties
<1> QED
  BY <1>1, StreamAssumption

LEMMA InitTyped == ASSUME Init PROVE TypeOK
<1>1. /\ kind \in {"tcp", "kcp", "ws"} /\ role \in {"server", "client"}
      /\ reader \in [Socks -> ReaderStates] /\ writer \in [Socks -> WriterStates]
      /\ closeCh \in [Socks -> BOOLEAN] /\ broken \in [Socks -> BOOLEAN]
      /\ conn \in [Socks -> {"none", "open", "shut", "closed"}]
      /\ handler \in [Socks -> HandlerStates]
      /\ sockets \subseteq Socks /\ accept \in BOOLEAN
      /\ svr \in SvrStates /\ cur \in Socks \cup {0} /\ gone \subseteq Socks
  BY DEF Init, StreamInit, ReaderStates, WriterStates, HandlerStates, SvrStates
<1>2. /\ writeCh \in [Socks -> Seq(Tags)]
      /\ \A s \in Socks : Len(writeCh[s]) <= WriteMax
  BY EmptyQueue DEF Init, StreamInit
<1> QED
  BY <1>1, <1>2 DEF TypeOK, Tags

LoopType ==
  /\ reader \in [Socks -> ReaderStates] /\ writer \in [Socks -> WriterStates]
  /\ closeCh \in [Socks -> BOOLEAN] /\ broken \in [Socks -> BOOLEAN]
  /\ conn \in [Socks -> {"none", "open", "shut", "closed"}]

QueueType ==
  /\ writeCh \in [Socks -> Seq(Tags)]
  /\ \A s \in Socks : Len(writeCh[s]) <= WriteMax

OwnerType ==
  /\ kind \in {"tcp", "kcp", "ws"} /\ role \in {"server", "client"}
  /\ handler \in [Socks -> HandlerStates]
  /\ sockets \subseteq Socks /\ accept \in BOOLEAN
  /\ svr \in SvrStates /\ cur \in Socks \cup {0} /\ gone \subseteq Socks

LEMMA TypeParts == TypeOK <=> LoopType /\ QueueType /\ OwnerType
  BY DEF TypeOK, LoopType, QueueType, OwnerType, Tags

LEMMA LoopsTyped == ASSUME LoopType, OwnerType, [Next]_vars PROVE LoopType'
<1> USE DEF LoopType, ReaderStates, WriterStates
<1> USE DEF Read, ReadStep, Write, WriteStep, CloseChan, ConnClose, TakeAll, StartLoops,
            loopVars, Alone
<1>1. CASE UNCHANGED vars
  BY <1>1 DEF vars
<1>2. ASSUME NEW s \in Socks, Receive(s) PROVE LoopType'
  BY <1>2 DEF Receive, TCPReceive, KCPReceive, WSReceive
<1>3. ASSUME NEW s \in Socks, ReadEnd(s) PROVE LoopType'
  BY <1>3 DEF ReadEnd, TCPReadEnd, KCPReadEnd, WSReadEnd
<1>4. ASSUME NEW s \in Socks, ReadLoop(s) PROVE LoopType'
  BY <1>4 DEF ReadLoop, TCPReadLoop, KCPReadLoop, WSReadLoop
<1>5. ASSUME NEW s \in Socks, WriteLoop(s) PROVE LoopType'
  <2>1. CASE kind = "tcp"
    BY <1>5, <2>1 DEF WriteLoop, TCPWriteLoop, TCPTake, TCPTakeLast, TCPWrite, TCPRelease
  <2>2. CASE kind = "kcp"
    BY <1>5, <2>2 DEF WriteLoop, KCPWriteLoop
  <2>3. CASE kind = "ws"
    BY <1>5, <2>3 DEF WriteLoop, WSWriteLoop, WSTake, WSDrain
  <2> QED
    BY <2>1, <2>2, <2>3 DEF OwnerType
<1>6. ASSUME NEW s \in Socks, WriteFail(s) \/ Send(s) PROVE LoopType'
  BY <1>6 DEF WriteFail, WriteFails, Send, SendMsg
<1>7. ASSUME NEW s \in Socks, NewConn(s) PROVE LoopType'
  BY <1>7 DEF NewConn, Accept, Upgrade
<1>8. ASSUME NEW s \in Socks, Handler(s) PROVE LoopType'
  BY <1>8 DEF Handler, TCPNewSocket, KCPNewSocket, KCPInitFails, KCPClose, KCPInit,
              WSNewSocket, WSHandlerEnd, Drop, AddSocket
<1>9. ASSUME NEW s \in Socks, Dial(s) \/ KCPDialed(s) \/ KCPDialFailed(s)
      PROVE LoopType'
  BY <1>9 DEF Dial, KCPDialed, KCPInit, KCPInitFails, KCPClose, KCPDialFailed
<1>10. ASSUME NEW s \in Socks, SockClose(s) PROVE LoopType'
  BY <1>10 DEF SockClose, TCPClose, KCPClose, WSClose
<1>11. CASE ServerCall \/ ServerClose
  <2>1. ASSUME UNCHANGED loopVars PROVE LoopType'
    BY <2>1
  <2> QED
    BY <1>10, <1>11, <2>1 DEF OwnerType, ServerCall, ServerClose, CloseJoin, TCPServerClose,
       KCPServerClose, WSServerClose, AcceptEnd, CloseStep
<1>12. CASE DialFails \/ ClientCall \/ ClientJoin
  BY <1>10, <1>12 DEF OwnerType, DialFails, ClientCall, ClientJoin
<1> QED
  BY <1>1, <1>2, <1>3, <1>4, <1>5, <1>6, <1>7, <1>8, <1>9, <1>11, <1>12 DEF Next

LEMMA QueueTyped == ASSUME QueueType, OwnerType, [Next]_vars PROVE QueueType'
<1> USE DEF loopVars, Alone
<1>1. ASSUME UNCHANGED writeCh PROVE QueueType'
  BY <1>1 DEF QueueType
<1>2. ASSUME NEW s \in Socks, NEW q \in Seq(Tags), Len(q) <= WriteMax,
             writeCh' = [writeCh EXCEPT ![s] = q]
      PROVE QueueType'
  BY <1>2 DEF QueueType
<1>3. ASSUME NEW s \in Socks, NEW to, TakeAll(s, to) PROVE QueueType'
  BY <1>2, <1>3, EmptyQueue DEF TakeAll
<1>4. ASSUME NEW s \in Socks, SendMsg(s) PROVE QueueType'
  <2>1. PICK m \in Tags : writeCh' = [writeCh EXCEPT ![s] = Append(writeCh[s], m)]
    BY <1>4 DEF SendMsg, Tags
  <2>2. writeCh[s] \in Seq(Tags) /\ Len(writeCh[s]) < WriteMax
    BY <1>4 DEF SendMsg, QueueType
  <2> QED
    BY <1>2, <2>1, <2>2, AppendQueue
<1>5. ASSUME NEW s \in Socks, NEW from, NEW to, WSTake(s, from, to) PROVE QueueType'
  <2>1. writeCh[s] \in Seq(Tags) /\ writeCh[s] # <<>> /\ Len(writeCh[s]) <= WriteMax
    BY <1>5 DEF WSTake, QueueType
  <2>2. writeCh' = [writeCh EXCEPT ![s] = Tail(writeCh[s])]
    BY <1>5 DEF WSTake
  <2> QED
    BY <1>2, <2>1, <2>2, TailQueue
<1>6. ASSUME NEW s \in Socks, WriteLoop(s) PROVE QueueType'
  <2>1. CASE UNCHANGED writeCh
    BY <1>1, <2>1
  <2>2. CASE kind = "tcp"
    BY <1>1, <1>3, <1>6, <2>2
    DEF WriteLoop, TCPWriteLoop, TCPTake, TCPTakeLast, TCPWrite, TCPRelease, Write, ConnClose
  <2>3. CASE kind = "kcp"
    BY <1>1, <1>3, <1>6, <2>3 DEF WriteLoop, KCPWriteLoop, Write, ConnClose
  <2>4. CASE kind = "ws"
    BY <1>1, <1>5, <1>6, <2>4 DEF WriteLoop, WSWriteLoop, WSDrain, Write, ConnClose
  <2> QED
    BY <2>2, <2>3, <2>4 DEF OwnerType
<1>7. ASSUME NEW s \in Socks,
             Receive(s) \/ ReadEnd(s) \/ ReadLoop(s) \/ WriteFail(s)
      PROVE UNCHANGED writeCh
  BY <1>7 DEF Receive, TCPReceive, KCPReceive, WSReceive, ReadEnd, TCPReadEnd, KCPReadEnd,
     WSReadEnd, ReadLoop, TCPReadLoop, KCPReadLoop, WSReadLoop, WriteFail, WriteFails, Read,
     ReadStep, CloseChan
<1>8. ASSUME NEW s \in Socks, SockClose(s) PROVE UNCHANGED writeCh
  BY <1>8 DEF SockClose, TCPClose, KCPClose, WSClose, CloseChan
<1>9. ASSUME NEW s \in Socks, NewConn(s) \/ Handler(s) PROVE UNCHANGED writeCh
  BY <1>9 DEF NewConn, Accept, Upgrade, Handler, TCPNewSocket, KCPNewSocket, KCPInitFails,
     KCPClose, KCPInit, WSNewSocket, WSHandlerEnd, Drop, AddSocket, StartLoops, CloseChan
<1>10. ASSUME NEW s \in Socks, Dial(s) \/ KCPDialed(s) \/ KCPDialFailed(s)
       PROVE UNCHANGED writeCh
  BY <1>10 DEF Dial, KCPDialed, KCPInit, KCPInitFails, KCPClose, KCPDialFailed, StartLoops,
     CloseChan
<1>11. CASE ServerCall \/ ServerClose \/ DialFails \/ ClientCall \/ ClientJoin
  BY <1>1, <1>8, <1>11 DEF OwnerType, ServerCall, ServerClose, CloseJoin, TCPServerClose,
     KCPServerClose, WSServerClose, AcceptEnd, CloseStep, DialFails, ClientCall, ClientJoin
<1>12. CASE UNCHANGED vars
  BY <1>1, <1>12 DEF vars
<1>13. ASSUME NEW s \in Socks, Send(s) PROVE QueueType'
  BY <1>4, <1>13 DEF Send
<1> QED
  BY <1>1, <1>6, <1>7, <1>9, <1>10, <1>11, <1>12, <1>13 DEF Next

LEMMA OwnersTyped == ASSUME OwnerType, [Next]_vars PROVE OwnerType'
<1> USE DEF OwnerType, HandlerStates, SvrStates, config, closeVars, Alone, HandlerStep,
            SvrStep, CloseStep, DelSocket
<1>1. CASE UNCHANGED vars
  BY <1>1 DEF vars
<1>2. ASSUME NEW s \in Socks,
             Receive(s) \/ ReadEnd(s) \/ ReadLoop(s) \/ WriteFail(s) \/ Send(s)
      PROVE OwnerType'
  BY <1>2 DEF Receive, ReadEnd, ReadLoop, KCPReadLoop, WriteFail, Send
<1>3. ASSUME NEW s \in Socks, WriteLoop(s) PROVE OwnerType'
  BY <1>3 DEF WriteLoop, TCPWriteLoop, TCPRelease
<1>4. ASSUME NEW s \in Socks, NewConn(s) PROVE OwnerType'
  BY <1>4 DEF NewConn, Accept, Upgrade
<1>5. ASSUME NEW s \in Socks, Handler(s) PROVE OwnerType'
  BY <1>5 DEF Handler, TCPNewSocket, KCPNewSocket, KCPInitFails, KCPInit, WSNewSocket,
     WSHandlerEnd, Drop, AddSocket
<1>6. ASSUME NEW s \in Socks, Dial(s) \/ KCPDialed(s) \/ KCPDialFailed(s)
      PROVE OwnerType'
  BY <1>6 DEF Dial, KCPDialed, KCPInit, KCPInitFails, KCPDialFailed
<1>7. CASE ServerCall \/ ServerClose
  BY <1>7 DEF ServerCall, ServerClose, CloseJoin, TCPServerClose, KCPServerClose,
     WSServerClose, AcceptEnd
<1>8. CASE DialFails \/ ClientCall \/ ClientJoin
  BY <1>8 DEF DialFails, ClientCall, ClientJoin
<1> QED
  BY <1>1, <1>2, <1>3, <1>4, <1>5, <1>6, <1>7, <1>8 DEF Next

(* The state of every goroutine, channel and connection is one the code    *)
(* knows, and no write channel holds more than its capacity.               *)
THEOREM TypeCorrect == Spec => []TypeOK
<1>1. TypeOK /\ [Next]_vars => TypeOK'
  BY LoopsTyped, QueueTyped, OwnersTyped, TypeParts
  DEF TypeOK, LoopType, QueueType, OwnerType, Tags
<1> QED
  BY InitTyped, <1>1, PTL DEF Spec

-----------------------------------------------------------------------------
(* The server's map                                                        *)

LEMMA InitExact == ASSUME Init PROVE Exact
  BY DEF Init, StreamInit, Exact, SocketsExact, StaleReleased

LEMMA NextExact == ASSUME TypeOK, Exact, [Next]_vars PROVE Exact'
<1> USE DEF Exact, SocketsExact, StaleReleased
<1> USE DEF Read, ReadStep, Write, WriteStep, config, closeVars, Alone, HandlerStep
<1>t. /\ kind \in {"tcp", "kcp", "ws"} /\ role \in {"server", "client"}
      /\ reader \in [Socks -> ReaderStates] /\ writer \in [Socks -> WriterStates]
      /\ handler \in [Socks -> HandlerStates] /\ sockets \subseteq Socks
  BY DEF TypeOK
<1>c. UNCHANGED config
  BY DEF Next, vars, Receive, ReadEnd, ReadLoop, WriteLoop, WriteFail, Send, NewConn, Handler,
     Dial, KCPDialed, KCPDialFailed, ServerCall, ServerClose, DialFails, ClientCall, ClientJoin
<1>1. ASSUME UNCHANGED <<handler, sockets>>,
             \A s \in Socks : Released(s)' <=> Released(s)
      PROVE Exact'
  BY <1>1, <1>c
<1>2. ASSUME UNCHANGED <<reader, writer, handler, sockets>> PROVE Exact'
  <2>1. \A s \in Socks : Released(s)' <=> Released(s)
    BY <1>2, <1>c DEF Released, TCPReleased, KCPReleased
  <2> QED
    BY <1>1, <1>2, <2>1
<1>3. ASSUME NEW s \in Socks, Receive(s) \/ ReadEnd(s) PROVE Exact'
  <2>1. \A t \in Socks : Released(t)' <=> Released(t)
    BY <1>3, <1>c, <1>t
    DEF Receive, TCPReceive, KCPReceive, WSReceive, ReadEnd, TCPReadEnd, KCPReadEnd,
        WSReadEnd, Released, TCPReleased, KCPReleased
  <2> QED
    BY <1>1, <1>3, <2>1 DEF Receive, ReadEnd
<1>4. ASSUME NEW s \in Socks, ReadLoop(s), role = "server" PROVE Exact'
  <2>1. CASE kind = "kcp" /\ Read(s, "delete", "close") /\ DelSocket(s)
    <3>1. \A t \in Socks : Released(t)' <=> Released(t) \/ t = s
      BY <2>1, <1>c, <1>t DEF Released, KCPReleased
    <3>2. ~Released(s)
      BY <2>1 DEF Released, KCPReleased
    <3>3. sockets' = sockets \ {s} /\ UNCHANGED handler
      BY <2>1 DEF DelSocket
    <3> QED
      BY <3>1, <3>2, <3>3, <1>c, <1>4, <1>t
  <2>2. CASE ~(kind = "kcp" /\ Read(s, "delete", "close"))
    <3>1. \A t \in Socks : Released(t)' <=> Released(t)
      BY <1>4, <2>2, <1>c, <1>t
      DEF ReadLoop, TCPReadLoop, KCPReadLoop, WSReadLoop, Released, TCPReleased, KCPReleased
    <3>2. UNCHANGED <<handler, sockets>>
      BY <1>4, <2>2, <1>t DEF ReadLoop, KCPReadLoop
    <3> QED
      BY <1>1, <3>1, <3>2
  <2> QED
    BY <1>4, <2>1, <2>2 DEF ReadLoop, TCPReadLoop, KCPReadLoop, WSReadLoop
<1>5. ASSUME NEW s \in Socks, WriteLoop(s), role = "server" PROVE Exact'
  <2>1. CASE kind = "tcp" /\ TCPRelease(s)
    <3>1. \A t \in Socks : Released(t)' <=> Released(t) \/ t = s
      BY <2>1, <1>c, <1>t DEF TCPRelease, Released, TCPReleased
    <3>2. ~Released(s)
      BY <2>1 DEF TCPRelease, Released, TCPReleased
    <3>3. sockets' = sockets \ {s} /\ UNCHANGED handler
      BY <2>1 DEF TCPRelease, DelSocket
    <3> QED
      BY <3>1, <3>2, <3>3, <1>c, <1>5, <1>t
  <2>2. CASE ~(kind = "tcp" /\ TCPRelease(s))
    <3>1. \A t \in Socks : Released(t)' <=> Released(t)
      BY <1>5, <2>2, <1>c, <1>t
      DEF WriteLoop, TCPWriteLoop, TCPTake, TCPTakeLast, TCPWrite, KCPWriteLoop, WSWriteLoop,
          WSTake, WSDrain, TakeAll, ConnClose, Released, TCPReleased, KCPReleased
    <3>2. UNCHANGED <<handler, sockets>>
      BY <1>5, <2>2, <1>t DEF WriteLoop, TCPWriteLoop
    <3> QED
      BY <1>1, <3>1, <3>2
  <2> QED
    BY <2>1, <2>2
<1>6. ASSUME NEW s \in Socks, WriteFail(s) \/ Send(s) PROVE Exact'
  <2>1. \A t \in Socks : Released(t)' <=> Released(t)
    BY <1>6, <1>c, <1>t
    DEF WriteFail, WriteFails, Send, SendMsg, Released, TCPReleased, KCPReleased
  <2> QED
    BY <1>1, <1>6, <2>1 DEF WriteFail, Send
<1>7. ASSUME NEW s \in Socks, NewConn(s) PROVE Exact'
  <2>1. UNCHANGED <<reader, writer, sockets>>
    BY <1>7 DEF NewConn, Accept, Upgrade, loopVars
  <2>2. handler[s] = "none" /\ handler' = [handler EXCEPT ![s] = "accepted"]
    BY <1>7 DEF NewConn, Accept, Upgrade
  <2>3. \A t \in Socks \ {s} : Released(t)' <=> Released(t)
    BY <2>1, <2>2, <1>c, <1>t DEF Released, TCPReleased, KCPReleased
  <2> QED
    BY <2>1, <2>2, <2>3, <1>c, <1>t
<1>8. ASSUME NEW s \in Socks, Handler(s) PROVE Exact'
  <2>1. ASSUME NEW h, h \notin {"added", "stale", "done"}, UNCHANGED sockets,
               handler[s] \notin {"added", "stale", "done"},
               handler' = [handler EXCEPT ![s] = h],
               \A t \in Socks \ {s} : reader'[t] = reader[t] /\ writer'[t] = writer[t]
        PROVE Exact'
    <3>1. \A t \in Socks \ {s} : Released(t)' <=> Released(t)
      BY <2>1, <1>c, <1>t DEF Released, TCPReleased, KCPReleased
    <3> QED
      BY <2>1, <3>1, <1>c, <1>t
  <2>2. CASE \/ TCPNewSocket(s) \/ KCPNewSocket(s) \/ WSNewSocket(s) \/ Drop(s)
             \/ KCPInitFails(s)
             \/ KCPInit(s, "add") /\ UNCHANGED <<sockets, closeVars>>
    BY <2>1, <2>2, <1>t
    DEF TCPNewSocket, KCPNewSocket, WSNewSocket, Drop, KCPInitFails, KCPClose, KCPInit,
        StartLoops, CloseChan, loopVars
  <2>3. CASE kind = "ws" /\ WSHandlerEnd(s)
    <3>1. \A t \in Socks : Released(t)' <=> Released(t) \/ t = s
      BY <2>3, <1>c, <1>t DEF WSHandlerEnd, Released
    <3>2. ~Released(s)
      BY <2>3 DEF WSHandlerEnd, Released
    <3>3. sockets' = sockets \ {s} /\ handler' = [handler EXCEPT ![s] = "done"]
      BY <2>3 DEF WSHandlerEnd
    <3> QED
      BY <3>1, <3>2, <3>3, <1>c, <1>t
  <2>4. CASE AddSocket(s, Released(s))
    <3>1. UNCHANGED <<reader, writer>> /\ handler[s] = "add" /\ sockets' = sockets \cup {s}
      BY <2>4 DEF AddSocket, loopVars
    <3>2. handler' = [handler EXCEPT ![s] = IF Released(s) THEN "stale" ELSE "added"]
      BY <2>4 DEF AddSocket
    <3>3. \A t \in Socks : Released(t)' <=> Released(t)
      BY <3>1, <3>2, <1>c, <1>t DEF Released, TCPReleased, KCPReleased
    <3> QED
      BY <3>1, <3>2, <3>3, <1>c, <1>t
  <2> QED
    BY <1>8, <2>2, <2>3, <2>4 DEF Handler
<1>9. ASSUME NEW s \in Socks, SockClose(s) PROVE UNCHANGED <<reader, writer>>
  BY <1>9 DEF SockClose, TCPClose, KCPClose, WSClose
<1>10. CASE ServerCall \/ ServerClose
  BY <1>2, <1>9, <1>10 DEF ServerCall, ServerClose, CloseJoin, TCPServerClose,
     KCPServerClose, WSServerClose, AcceptEnd, CloseStep, SvrStep, loopVars
<1>11. CASE role = "client"
  BY <1>11, <1>c
<1>12. CASE UNCHANGED vars
  BY <1>2, <1>12 DEF vars, loopVars
<1> QED
  BY <1>t, <1>3, <1>4, <1>5, <1>6, <1>7, <1>8, <1>10, <1>11, <1>12
  DEF Next, Dial, KCPDialed, KCPDialFailed, DialFails, ClientCall, ClientJoin

(* svr.sockets holds the sockets that addSocket has put there and that     *)
(* delSocket has not taken out, and a socket for ever only if deleteSocket *)
(* has run before addSocket (KCP).                                         *)
THEOREM MapExact == Spec => []SocketsExact
<1>1. TypeOK /\ Exact /\ [Next]_vars => Exact'
  BY NextExact
<1>2. Exact => SocketsExact
  BY DEF Exact
<1> QED
  BY InitExact, TypeCorrect, <1>1, <1>2, PTL DEF Spec

-----------------------------------------------------------------------------
(* What a write loop leaves unwritten                                      *)

NoEarly(q) == \A i \in 1..Len(q) : q[i] # "early"

LEMMA EmptyNoEarly == NoEarly(<<>>)
<1>1. Len(<<>>) = 0
  OBVIOUS
<1> QED
  BY <1>1 DEF NoEarly

LEMMA AppendNoEarly ==
  ASSUME NEW q \in Seq(Tags), NEW m \in Tags, m # "early", NoEarly(q)
  PROVE  NoEarly(Append(q, m))
<1>1. Len(q) \in Nat /\ Len(Append(q, m)) = Len(q) + 1
  BY AppendProperties
<1>2. /\ \A i \in 1..Len(q) : Append(q, m)[i] = q[i]
      /\ Append(q, m)[Len(q) + 1] = m
  BY AppendProperties
<1> QED
  BY <1>1, <1>2 DEF NoEarly

(* The socket's part of the invariant                                      *)
SockFlushed(s) ==
  /\ writer[s] \in {"last", "drain"} => closeCh[s]
  /\ kind # "ws" /\ writer[s] = "last" => NoEarly(writeCh[s])
  /\ WriterOut(s) /\ ~broken[s] => closeCh[s] /\ NoEarly(writeCh[s])

LEMMA FlushedParts == Flushed <=> \A s \in Socks : SockFlushed(s)
  BY DEF Flushed, Flushing, FlushedOnClose, SockFlushed, NoEarly

LEMMA InitFlushed == ASSUME Init PROVE Flushed
  BY DEF Init, StreamInit, Flushed, Flushing, FlushedOnClose, WriterOut

LEMMA NextFlushed == ASSUME TypeOK, Flushed, [Next]_vars PROVE Flushed'
<1> USE DEF SockFlushed, WriterOut
<1>t. /\ kind \in {"tcp", "kcp", "ws"}
      /\ writer \in [Socks -> WriterStates] /\ writeCh \in [Socks -> Seq(Tags)]
      /\ closeCh \in [Socks -> BOOLEAN] /\ broken \in [Socks -> BOOLEAN]
  BY DEF TypeOK, Tags
<1>f. \A s \in Socks : SockFlushed(s)
  BY FlushedParts
<1>c. UNCHANGED kind
  BY DEF config, Next, vars, Receive, ReadEnd, ReadLoop, WriteLoop, WriteFail, Send, NewConn,
     Handler, Dial, KCPDialed, KCPDialFailed, ServerCall, ServerClose, DialFails, ClientCall,
     ClientJoin, Alone
(* The write loop and the queue stand still; closeCh may be closed.        *)
<1>1. ASSUME UNCHANGED <<writer, writeCh, broken>>,
             \A t \in Socks : closeCh[t] => closeCh'[t]
      PROVE \A t \in Socks : SockFlushed(t)'
  BY <1>1, <1>c, <1>f
<1>2. ASSUME NEW s \in Socks,
             Receive(s) \/ ReadEnd(s) \/ ReadLoop(s)
      PROVE \A t \in Socks : SockFlushed(t)'
  <2>1. UNCHANGED <<writer, writeCh, broken>> /\ \A t \in Socks : closeCh[t] => closeCh'[t]
    BY <1>2, <1>t DEF Receive, TCPReceive, KCPReceive, WSReceive, ReadEnd, TCPReadEnd,
       KCPReadEnd, WSReadEnd, ReadLoop, TCPReadLoop, KCPReadLoop, WSReadLoop, Read, ReadStep,
       CloseChan
  <2> QED
    BY <1>1, <2>1
(* The write loop of one socket takes a step.                              *)
<1>3. ASSUME NEW s \in Socks, UNCHANGED <<reader, closeCh>>,
             \A t \in Socks \ {s} : /\ writer'[t] = writer[t] /\ writeCh'[t] = writeCh[t]
                                     /\ broken'[t] = broken[t],
             SockFlushed(s)'
      PROVE \A t \in Socks : SockFlushed(t)'
  BY <1>3, <1>c, <1>f
<1>4. ASSUME NEW s \in Socks, WriteLoop(s) PROVE \A t \in Socks : SockFlushed(t)'
  <2> USE DEF WriteStep, Write, ConnClose, TakeAll
  <2>1. /\ UNCHANGED <<reader, closeCh>>
        /\ \A t \in Socks \ {s} : /\ writer'[t] = writer[t] /\ writeCh'[t] = writeCh[t]
                                   /\ broken'[t] = broken[t]
    BY <1>4, <1>t DEF WriteLoop, TCPWriteLoop, TCPTake, TCPTakeLast, TCPWrite, TCPRelease,
       KCPWriteLoop, WSWriteLoop, WSTake, WSDrain
  <2>2. CASE kind = "tcp"
    <3>1. SockFlushed(s)'
      BY <1>4, <2>2, <1>t, <1>c, <1>f, EmptyNoEarly
      DEF WriteLoop, TCPWriteLoop, TCPTake, TCPTakeLast, TCPWrite, TCPRelease
    <3> QED
      BY <1>3, <2>1, <3>1
  <2>3. CASE kind = "kcp"
    <3>1. SockFlushed(s)'
      BY <1>4, <2>3, <1>t, <1>c, <1>f, EmptyNoEarly DEF WriteLoop, KCPWriteLoop
    <3> QED
      BY <1>3, <2>1, <3>1
  <2>4. CASE kind = "ws"
    <3>1. SockFlushed(s)'
      BY <1>4, <2>4, <1>t, <1>c, <1>f, EmptyNoEarly DEF WriteLoop, WSWriteLoop, WSTake, WSDrain
    <3> QED
      BY <1>3, <2>1, <3>1
  <2> QED
    BY <2>2, <2>3, <2>4, <1>t
<1>5. ASSUME NEW s \in Socks, WriteFail(s) PROVE \A t \in Socks : SockFlushed(t)'
  BY <1>5, <1>c, <1>f, <1>t DEF WriteFail, WriteFails, WriteStep
<1>6. ASSUME NEW s \in Socks, Send(s) PROVE \A t \in Socks : SockFlushed(t)'
  <2>1. PICK m \in {IF closeCh[s] THEN "late" ELSE "early", "empty"} :
          writeCh' = [writeCh EXCEPT ![s] = Append(writeCh[s], m)]
    BY <1>6 DEF Send, SendMsg
  <2>2. m \in Tags /\ (closeCh[s] => m # "early")
    BY <2>1 DEF Tags
  <2>3. UNCHANGED <<reader, writer, closeCh, broken>>
    BY <1>6 DEF Send, SendMsg
  <2>4. closeCh[s] /\ NoEarly(writeCh[s]) => NoEarly(writeCh'[s])
    BY <2>1, <2>2, <1>t, AppendNoEarly
  <2>5. SockFlushed(s)'
    BY <2>3, <2>4, <1>f, <1>c
  <2>6. \A t \in Socks \ {s} : writeCh'[t] = writeCh[t]
    BY <2>1, <1>t
  <2> QED
    BY <1>3, <2>3, <2>5, <2>6
<1>7. ASSUME NEW s \in Socks, SockClose(s)
      PROVE UNCHANGED <<writer, writeCh, broken>> /\ \A t \in Socks : closeCh[t] => closeCh'[t]
  BY <1>7, <1>t DEF SockClose, TCPClose, KCPClose, WSClose, CloseChan
(* A socket's write loop starts.                                           *)
<1>8. ASSUME NEW s \in Socks, StartLoops(s) PROVE \A t \in Socks : SockFlushed(t)'
  BY <1>8, <1>c, <1>f, <1>t DEF StartLoops
<1>9. ASSUME NEW s \in Socks, NewConn(s) PROVE \A t \in Socks : SockFlushed(t)'
  BY <1>1, <1>9 DEF NewConn, Accept, Upgrade, loopVars
<1>10. ASSUME NEW s \in Socks, Handler(s) PROVE \A t \in Socks : SockFlushed(t)'
  <2>1. CASE TCPNewSocket(s) \/ KCPNewSocket(s) \/ WSNewSocket(s)
    BY <1>8, <2>1 DEF TCPNewSocket, KCPNewSocket, WSNewSocket
  <2>2. CASE KCPInitFails(s)
    BY <1>1, <1>t, <2>2 DEF KCPInitFails, KCPClose, CloseChan
  <2>3. CASE KCPInit(s, "add") \/ WSHandlerEnd(s) \/ Drop(s) \/ AddSocket(s, Released(s))
    BY <1>1, <2>3 DEF KCPInit, WSHandlerEnd, Drop, AddSocket, loopVars
  <2> QED
    BY <1>10, <2>1, <2>2, <2>3 DEF Handler
<1>11. ASSUME NEW s \in Socks, Dial(s) \/ KCPDialed(s) \/ KCPDialFailed(s)
       PROVE \A t \in Socks : SockFlushed(t)'
  BY <1>1, <1>8, <1>11, <1>t
  DEF Dial, KCPDialed, KCPInit, KCPInitFails, KCPClose, CloseChan, KCPDialFailed, loopVars
<1>12. ASSUME UNCHANGED loopVars PROVE \A t \in Socks : SockFlushed(t)'
  BY <1>1, <1>12 DEF loopVars
<1>13. ASSUME ServerCall \/ ServerClose \/ DialFails \/ ClientCall \/ ClientJoin
       PROVE \A t \in Socks : SockFlushed(t)'
  <2>1. sockets \subseteq Socks /\ cur \in Socks \cup {0}
    BY DEF TypeOK
  <2>2. ASSUME NEW s \in Socks, SockClose(s) PROVE \A t \in Socks : SockFlushed(t)'
    BY <1>1, <1>7, <2>2
  <2> QED
    BY <1>12, <1>13, <2>1, <2>2 DEF ServerCall, ServerClose, CloseJoin, TCPServerClose,
       KCPServerClose, WSServerClose, AcceptEnd, CloseStep, SvrStep, DialFails, ClientCall,
       ClientJoin
<1>14. \A s \in Socks : SockFlushed(s)'
  BY <1>2, <1>4, <1>5, <1>6, <1>9, <1>10, <1>11, <1>12, <1>13 DEF Next, vars
<1> QED
  BY <1>14 DEF Flushed, Flushing, FlushedOnClose, NoEarly

(* Close loses nothing: a write loop that neither a failed write nor an    *)
(* empty message has ended has written all that SendMsg took before        *)
(* closeCh was closed.                                                     *)
THEOREM CloseFlushes == Spec => []FlushedOnClose
<1>1. TypeOK /\ Flushed /\ [Next]_vars => Flushed'
  BY NextFlushed
<1>2. Flushed => FlushedOnClose
  BY DEF Flushed
<1> QED
  BY InitFlushed, TypeCorrect, <1>1, <1>2, PTL DEF Spec

-----------------------------------------------------------------------------
(* What Close and Reconnect leave behind: the loops                        *)

(* newSocket has just started the socket's loops.                          *)
Starts(t) ==
  /\ handler[t] = (IF role = "server" THEN "accepted" ELSE "none")
  /\ handler'[t] \in {"init", "add", "added"}

Rests(t) ==
  /\ reader[t] = "none" => reader'[t] = "none"
  /\ writer[t] = "none" => writer'[t] = "none"

Deleting(t) == reader[t] \in {"delete", "close", "done"}

(* What one step does to the loops of a socket                             *)
Moves(t) ==
  /\ ReaderOut(t) => ReaderOut(t)'
  /\ WriterOut(t) => WriterOut(t)'
  /\ kind = "kcp" /\ role = "server" /\ Deleting(t)' => Deleting(t) \/ Joined(t)
  /\ Starts(t) \/ Rests(t)

LEMMA LoopMoves ==
  ASSUME TypeOK, Unstarted, [Next]_vars
  PROVE  UNCHANGED config /\ \A t \in Socks : Moves(t)
<1> USE DEF Moves, Rests, ReaderOut, WriterOut, Deleting, Joined
<1>t. /\ kind \in {"tcp", "kcp", "ws"} /\ role \in {"server", "client"}
      /\ reader \in [Socks -> ReaderStates] /\ writer \in [Socks -> WriterStates]
      /\ handler \in [Socks -> HandlerStates]
      /\ sockets \subseteq Socks /\ cur \in Socks \cup {0}
  BY DEF TypeOK
<1>c. UNCHANGED config
  BY DEF config, Next, vars, Receive, ReadEnd, ReadLoop, WriteLoop, WriteFail, Send, NewConn,
     Handler, Dial, KCPDialed, KCPDialFailed, ServerCall, ServerClose, DialFails, ClientCall,
     ClientJoin, Alone
<1>k. UNCHANGED <<kind, role>>
  BY <1>c DEF config
<1>1. ASSUME UNCHANGED <<reader, writer>> PROVE \A t \in Socks : Moves(t)
  BY <1>1, <1>k
<1>2. ASSUME NEW s \in Socks, Receive(s) \/ ReadEnd(s) \/ ReadLoop(s)
      PROVE \A t \in Socks : Moves(t)
  <2> USE DEF Receive, ReadEnd, ReadLoop, Read, ReadStep
  <2>1. UNCHANGED writer
    BY <1>2 DEF TCPReceive, KCPReceive, WSReceive, TCPReadEnd, KCPReadEnd, WSReadEnd,
       TCPReadLoop, KCPReadLoop, WSReadLoop
  <2>2. \A t \in Socks \ {s} : reader'[t] = reader[t]
    BY <1>2, <1>t DEF TCPReceive, KCPReceive, WSReceive, TCPReadEnd, KCPReadEnd, WSReadEnd,
       TCPReadLoop, KCPReadLoop, WSReadLoop
  <2>3. CASE kind = "tcp"
    BY <1>2, <1>t, <1>k, <2>1, <2>2, <2>3 DEF TCPReceive, TCPReadEnd, TCPReadLoop
  <2>4. CASE kind = "kcp"
    BY <1>2, <1>t, <1>k, <2>1, <2>2, <2>4 DEF KCPReceive, KCPReadEnd, KCPReadLoop
  <2>5. CASE kind = "ws"
    BY <1>2, <1>t, <1>k, <2>1, <2>2, <2>5 DEF WSReceive, WSReadEnd, WSReadLoop
  <2> QED
    BY <1>t, <2>3, <2>4, <2>5
<1>3. ASSUME NEW s \in Socks, WriteLoop(s) \/ WriteFail(s)
      PROVE \A t \in Socks : Moves(t)
  <2> USE DEF WriteLoop, WriteFail, WriteFails, Write, WriteStep, ConnClose, TakeAll
  <2>1. UNCHANGED reader
    BY <1>3 DEF TCPWriteLoop, TCPTake, TCPTakeLast, TCPWrite, TCPRelease, KCPWriteLoop,
       WSWriteLoop, WSTake, WSDrain
  <2>2. /\ writer[s] \notin {"none", "done"}
        /\ \E to \in WriterStates :
             /\ writer' = [writer EXCEPT ![s] = to]
             /\ WriterOut(s) => to \in {"release", "done"}
    <3>1. CASE kind = "tcp"
      BY <1>3, <1>t, <3>1 DEF TCPWriteLoop, TCPTake, TCPTakeLast, TCPWrite, TCPRelease,
         WriterStates
    <3>2. CASE kind = "kcp"
      BY <1>3, <1>t, <3>2 DEF KCPWriteLoop, WriterStates
    <3>3. CASE kind = "ws"
      BY <1>3, <1>t, <3>3 DEF WSWriteLoop, WSTake, WSDrain, WriterStates
    <3> QED
      BY <1>t, <3>1, <3>2, <3>3
  <2> QED
    BY <1>t, <1>k, <2>1, <2>2
<1>4. ASSUME NEW s \in Socks, StartLoops(s), Starts(s) PROVE \A t \in Socks : Moves(t)
  <2>1. reader[s] = "none" /\ writer[s] = "none"
    BY <1>4, <1>t DEF Unstarted, Starts
  <2> QED
    BY <1>4, <1>t, <1>k, <2>1 DEF StartLoops
<1>5. ASSUME NEW s \in Socks, SockClose(s) PROVE \A t \in Socks : Moves(t)
  BY <1>1, <1>5 DEF SockClose, TCPClose, KCPClose, WSClose
<1>6. ASSUME NEW s \in Socks, Send(s) \/ NewConn(s) PROVE \A t \in Socks : Moves(t)
  BY <1>1, <1>6 DEF Send, SendMsg, NewConn, Accept, Upgrade, loopVars
<1>7. ASSUME NEW s \in Socks, Handler(s) PROVE \A t \in Socks : Moves(t)
  <2>1. CASE TCPNewSocket(s) \/ KCPNewSocket(s) \/ WSNewSocket(s)
    BY <1>4, <1>7, <1>t, <2>1
    DEF Handler, TCPNewSocket, KCPNewSocket, WSNewSocket, HandlerStep, Starts
  <2>2. CASE KCPInitFails(s) \/ KCPInit(s, "add") \/ WSHandlerEnd(s) \/ Drop(s)
             \/ AddSocket(s, Released(s))
    BY <1>1, <2>2
    DEF KCPInitFails, KCPClose, KCPInit, WSHandlerEnd, Drop, AddSocket, loopVars
  <2> QED
    BY <1>7, <2>1, <2>2 DEF Handler
<1>8. ASSUME NEW s \in Socks, Dial(s) PROVE \A t \in Socks : Moves(t)
  BY <1>4, <1>8, <1>t DEF Dial, NextSock, Starts
<1>9. ASSUME NEW s \in Socks, KCPDialed(s) \/ KCPDialFailed(s)
      PROVE \A t \in Socks : Moves(t)
  BY <1>1, <1>9 DEF KCPDialed, KCPInit, KCPInitFails, KCPClose, KCPDialFailed, loopVars
<1>10. ASSUME ServerCall \/ ServerClose \/ DialFails \/ ClientCall \/ ClientJoin
       PROVE \A t \in Socks : Moves(t)
  <2>1. ASSUME UNCHANGED loopVars PROVE \A t \in Socks : Moves(t)
    BY <1>1, <2>1 DEF loopVars
  <2> QED
    BY <1>5, <1>10, <1>t, <2>1 DEF ServerCall, ServerClose, CloseJoin, TCPServerClose,
       KCPServerClose, WSServerClose, AcceptEnd, CloseStep, DialFails, ClientCall, ClientJoin
<1> QED
  BY <1>1, <1>2, <1>3, <1>6, <1>7, <1>8, <1>9, <1>10, <1>c DEF Next, vars, loopVars

-----------------------------------------------------------------------------
(* What Close and Reconnect leave behind: accept, Close and the client     *)

LEMMA InitFinal == ASSUME Init PROVE Final
  BY DEF Init, StreamInit, Final, Unstarted, DeletedJoined, AddedLast, OnePending, Pending, AllFound,
     GoneJoined, OneSocket, Dialing

(* What every step keeps                                                   *)
LEMMA StepKeeps ==
  ASSUME TypeOK, Final, [Next]_vars
  PROVE  /\ UNCHANGED <<kind, role>>
         /\ \A t \in Socks : Joined(t) => Joined(t)'
         /\ \A t \in Socks : Starts(t) \/ Rests(t)
         /\ DeletedJoined' /\ AddedLast'
<1>1. UNCHANGED <<kind, role>> /\ \A t \in Socks : Moves(t)
  BY LoopMoves DEF Final, config
<1>2. \A t \in Socks : Joined(t) => Joined(t)'
  BY <1>1 DEF Moves, Joined
<1>3. \A t \in Socks : Starts(t) \/ Rests(t)
  BY <1>1 DEF Moves
<1>4. DeletedJoined'
  BY <1>1, <1>2 DEF Final, DeletedJoined, Moves, Deleting
<1>5. AddedLast'
  <2>1. UNCHANGED handler => AddedLast'
    BY <1>1 DEF Final, AddedLast
  <2>2. ASSUME NEW s \in Socks, NEW h, h # "done", handler' = [handler EXCEPT ![s] = h]
        PROVE AddedLast'
    BY <1>1, <2>2 DEF Final, AddedLast, TypeOK
  <2> QED
    BY <1>1, <2>1, <2>2
    DEF Next, vars, Alone, Receive, ReadEnd, ReadLoop, KCPReadLoop, WriteLoop, TCPWriteLoop,
        TCPRelease, DelSocket, WriteFail, Send, NewConn, Accept, Upgrade, Handler,
        TCPNewSocket, KCPNewSocket, KCPInit, KCPInitFails, WSNewSocket, WSHandlerEnd, Drop,
        AddSocket, HandlerStep, Dial, KCPDialed, KCPDialFailed, ServerCall, ServerClose,
        CloseJoin, TCPServerClose, KCPServerClose, WSServerClose, AcceptEnd, CloseStep,
        SvrStep, DialFails, ClientCall, ClientJoin, AddedLast
<1> QED
  BY <1>1, <1>2, <1>3, <1>4, <1>5

(* A step that leaves the owners alone but may delete a socket: the loops, *)
(* SendMsg, and what Close does to one socket.                             *)
LEMMA LoopsFinal ==
  ASSUME TypeOK, Final, [Next]_vars, role = "client" => cur' = cur,
         UNCHANGED <<handler, accept, svr, gone>>, sockets' \subseteq sockets
  PROVE  Final'
<1>t. /\ role \in {"server", "client"} /\ handler \in [Socks -> HandlerStates]
      /\ sockets \subseteq Socks /\ gone \subseteq Socks
  BY DEF TypeOK
<1>k. /\ UNCHANGED <<kind, role>> /\ \A t \in Socks : Joined(t) => Joined(t)'
      /\ DeletedJoined' /\ AddedLast'
  BY StepKeeps
<1>n. \A t \in Socks : Rests(t)
  <2>1. \A t \in Socks : ~Starts(t)
    BY <1>t DEF Starts
  <2> QED
    BY StepKeeps, <2>1
<1>1. Unstarted'
  BY <1>k, <1>n DEF Final, Unstarted, Rests
<1>2. OnePending'
  BY <1>k DEF Final, OnePending, Pending
<1>3. AllFound'
  BY <1>k DEF Final, AllFound
<1>4. GoneJoined'
  BY <1>k, <1>t DEF Final, GoneJoined
<1>5. OneSocket'
  BY <1>k, <1>n DEF Final, OneSocket, Dialing, Rests
<1> QED
  BY <1>k, <1>1, <1>2, <1>3, <1>4, <1>5 DEF Final

(* accept and the HTTP handler                                             *)
LEMMA AcceptFinal ==
  ASSUME TypeOK, Final, Next, NEW s \in Socks, NewConn(s) \/ Handler(s)
  PROVE  Final'
<1> USE DEF HandlerStep
<1>t. /\ role = "server" /\ handler \in [Socks -> HandlerStates]
      /\ sockets \subseteq Socks /\ gone \subseteq Socks /\ accept \in BOOLEAN
      /\ kind \in {"tcp", "kcp", "ws"}
  BY DEF TypeOK, NewConn, Handler
<1>k. /\ UNCHANGED <<kind, role>> /\ \A t \in Socks : Joined(t) => Joined(t)'
      /\ DeletedJoined' /\ AddedLast'
  BY StepKeeps
<1>n. \A t \in Socks : Starts(t) \/ Rests(t)
  BY StepKeeps
<1>o. OneSocket'
  BY <1>k, <1>t DEF OneSocket
<1>f. Unstarted /\ OnePending /\ AllFound /\ GoneJoined
  BY DEF Final
<1>1. CASE NewConn(s)
  <2>1. /\ UNCHANGED <<loopVars, sockets, closeVars>> /\ accept
        /\ handler[s] = "none" /\ handler' = [handler EXCEPT ![s] = "accepted"]
        /\ kind = "kcp" => AcceptIdle
    BY <1>1, <1>t DEF NewConn, Accept, Upgrade
  <2>2. UNCHANGED <<reader, writer, svr, gone, accept>>
    BY <2>1 DEF loopVars, closeVars
  <2>3. Unstarted'
    BY <2>1, <2>2, <1>f, <1>k, <1>t DEF Unstarted
  <2>4. OnePending'
    BY <2>1, <2>2, <1>k, <1>t DEF OnePending, Pending, AcceptIdle
  <2>5. AllFound'
    BY <2>1, <2>2, <1>f, <1>k DEF AllFound
  <2>6. GoneJoined'
    BY <2>1, <2>2, <1>f, <1>k, <1>t DEF GoneJoined
  <2> QED
    BY <1>k, <1>o, <2>3, <2>4, <2>5, <2>6 DEF Final
(* A connection in hand becomes a socket, which may fail.                  *)
<1>2. ASSUME NEW h \in {"init", "add", "failed"}, handler[s] \in {"accepted", "init"},
             handler' = [handler EXCEPT ![s] = h], UNCHANGED <<sockets, closeVars>>
      PROVE Final'
  <2>1. UNCHANGED <<svr, gone, accept>>
    BY <1>2 DEF closeVars
  <2>2. Unstarted'
    <3>1. \A t \in Socks \ {s} : handler'[t] = handler[t] /\ ~Starts(t)
      BY <1>2, <1>t DEF Starts
    <3>2. handler'[s] = h
      BY <1>2, <1>t
    <3> QED
      BY <3>1, <3>2, <1>n, <1>f, <1>k DEF Unstarted, Rests
  <2>3. \A t \in Socks : Pending(t)' => Pending(t)
    BY <1>2, <1>k, <1>t DEF Pending
  <2>4. OnePending'
    BY <2>1, <2>3, <1>f, <1>k DEF OnePending
  <2>5. AllFound'
    BY <1>2, <2>1, <1>f, <1>k DEF AllFound
  <2>6. GoneJoined'
    BY <2>1, <1>f, <1>k, <1>t DEF GoneJoined
  <2> QED
    BY <1>k, <1>o, <2>2, <2>4, <2>5, <2>6 DEF Final
<1>3. CASE \/ TCPNewSocket(s) \/ KCPNewSocket(s) \/ WSNewSocket(s) \/ KCPInitFails(s)
           \/ KCPInit(s, "add") /\ UNCHANGED <<sockets, closeVars>>
  BY <1>2, <1>3 DEF TCPNewSocket, KCPNewSocket, WSNewSocket, KCPInitFails, KCPInit
<1>4. CASE Drop(s)
  <2>1. /\ UNCHANGED <<loopVars, sockets, svr, gone>> /\ ~accept'
        /\ handler[s] = "accepted" /\ handler' = [handler EXCEPT ![s] = "dropped"]
    BY <1>4 DEF Drop
  <2>2. UNCHANGED <<reader, writer>>
    BY <2>1 DEF loopVars
  <2>3. Unstarted'
    BY <2>1, <2>2, <1>f, <1>k, <1>t DEF Unstarted
  <2>4. OnePending'
    BY <2>1, <1>f, <1>k, <1>t DEF OnePending, Pending
  <2>5. AllFound' /\ GoneJoined'
    BY <2>1, <1>f, <1>k, <1>t DEF AllFound, GoneJoined
  <2> QED
    BY <1>k, <1>o, <2>3, <2>4, <2>5 DEF Final
<1>5. CASE kind = "ws" /\ WSHandlerEnd(s)
  <2>1. /\ UNCHANGED <<reader, writer, closeVars>> /\ handler' = [handler EXCEPT ![s] = "done"]
    BY <1>5 DEF WSHandlerEnd
  <2>2. Unstarted'
    BY <2>1, <1>f, <1>k, <1>t DEF Unstarted
  <2>3. OnePending' /\ AllFound' /\ GoneJoined'
    BY <1>5, <2>1, <1>f, <1>k, <1>t DEF OnePending, AllFound, GoneJoined, closeVars
  <2> QED
    BY <1>k, <1>o, <2>2, <2>3 DEF Final
<1>6. CASE AddSocket(s, Released(s))
  <2>1. /\ UNCHANGED <<loopVars, closeVars>> /\ handler[s] = "add" /\ MuFree
        /\ \E h \in {"stale", "added"} : handler' = [handler EXCEPT ![s] = h]
    BY <1>6 DEF AddSocket
  <2>2. UNCHANGED <<reader, writer, svr, gone, accept>>
    BY <2>1 DEF loopVars, closeVars
  <2>3. Unstarted'
    BY <2>1, <2>2, <1>f, <1>k, <1>t DEF Unstarted
  <2>4. \A t \in Socks : Pending(t)' => Pending(t)
    BY <2>1, <1>k, <1>t DEF Pending
  <2>5. OnePending'
    BY <2>2, <2>4, <1>f, <1>k DEF OnePending
  <2>6. AllFound'
    BY <2>1, <2>2, <1>f, <1>k, <1>t DEF AllFound, OnePending, Pending, GoneJoined, MuFree
  <2>7. GoneJoined'
    BY <2>2, <1>f, <1>k, <1>t DEF GoneJoined
  <2> QED
    BY <1>k, <1>o, <2>3, <2>5, <2>6, <2>7 DEF Final
<1> QED
  BY <1>1, <1>3, <1>4, <1>5, <1>6 DEF Handler

(* A server's Close, and the end of accept                                 *)
LEMMA CloseFinal ==
  ASSUME TypeOK, Final, Next, ServerCall \/ ServerClose
  PROVE  Final'
<1>t. /\ role = "server" /\ handler \in [Socks -> HandlerStates]
      /\ sockets \subseteq Socks /\ gone \subseteq Socks /\ accept \in BOOLEAN
      /\ kind \in {"tcp", "kcp", "ws"} /\ cur \in Socks \cup {0}
  BY DEF TypeOK, ServerCall, ServerClose
<1>k. /\ UNCHANGED <<kind, role>> /\ \A t \in Socks : Joined(t) => Joined(t)'
      /\ DeletedJoined' /\ AddedLast'
  BY StepKeeps
<1>o. OneSocket'
  BY <1>k, <1>t DEF OneSocket
<1>f. Unstarted /\ OnePending /\ AllFound /\ GoneJoined
  BY DEF Final
<1>1. CASE \E s \in sockets \ gone :
             cur' = s /\ UNCHANGED <<handler, sockets, accept, svr, gone>>
  BY <1>1, <1>t, LoopsFinal
(* No loop moves; what Close knows of the sockets may.                     *)
<1>2. ASSUME UNCHANGED <<loopVars, handler, sockets>>, AllFound', GoneJoined',
             accept' => accept, ~accept' => ~accept \/ kind # "kcp" \/ AcceptIdle
      PROVE Final'
  <2>1. UNCHANGED <<reader, writer>>
    BY <1>2 DEF loopVars
  <2>2. Unstarted'
    BY <1>2, <2>1, <1>f, <1>k DEF Unstarted
  <2>3. \A t \in Socks : Pending(t)' => Pending(t)
    BY <1>2, <1>k DEF Pending
  <2>4. AcceptIdle => \A t \in Socks : ~Pending(t)
    BY DEF AcceptIdle, Pending
  <2>5. OnePending'
    BY <1>2, <2>3, <2>4, <1>f, <1>k DEF OnePending
  <2> QED
    BY <1>2, <1>k, <1>o, <2>2, <2>5 DEF Final
<1>3. CASE CloseJoin
  <2>1. /\ svr = "sockets" /\ cur \in Socks /\ Joined(cur) /\ gone' = gone \cup {cur}
        /\ UNCHANGED <<loopVars, handler, sockets, accept, svr>>
    BY <1>3, <1>t DEF CloseJoin
  <2>2. AllFound' /\ GoneJoined'
    BY <2>1, <1>f, <1>k, <1>t DEF AllFound, GoneJoined
  <2> QED
    BY <1>2, <2>1, <2>2
(* Close goes on; for KCP when every socket it finds is closed.            *)
<1>4. ASSUME NEW to, UNCHANGED <<loopVars, handler, sockets, gone>>, svr' = to,
             accept' => accept, ~accept' => ~accept \/ kind # "kcp",
             kind = "kcp" /\ to \in {"listener", "wait", "returned"} =>
               sockets \subseteq gone,
             to = "returned" => ~accept'
      PROVE Final'
  <2>1. AllFound'
    BY <1>4, <1>k DEF AllFound
  <2>2. GoneJoined'
    BY <1>4, <1>f, <1>k, <1>t DEF GoneJoined
  <2> QED
    BY <1>2, <1>4, <2>1, <2>2
<1>5. CASE \/ ServerCall
           \/ kind = "tcp" /\ TCPServerClose
           \/ kind = "kcp" /\ KCPServerClose
           \/ kind = "ws" /\ WSServerClose
  BY <1>4, <1>5, <1>f, <1>t DEF ServerCall, TCPServerClose, KCPServerClose, WSServerClose,
     CloseStep, SvrStep, AllClosed, AllFound
<1>6. CASE AcceptEnd
  <2>1. /\ UNCHANGED <<loopVars, handler, sockets, svr, gone>> /\ ~accept' /\ AcceptIdle
    BY <1>6 DEF AcceptEnd
  <2>2. AllFound' /\ GoneJoined'
    BY <2>1, <1>f, <1>k, <1>t DEF AllFound, GoneJoined
  <2> QED
    BY <1>2, <2>1, <2>2
<1> QED
  BY <1>1, <1>3, <1>5, <1>6 DEF ServerClose

(* NewTCPClient and the like, Reconnect and Close of a client              *)
LEMMA ClientFinal ==
  ASSUME TypeOK, Final, Next, role = "client",
         \/ \E s \in Socks : Dial(s) \/ KCPDialed(s) \/ KCPDialFailed(s)
         \/ DialFails \/ ClientCall \/ ClientJoin
  PROVE  Final'
<1> USE DEF HandlerStep, SvrStep
<1>t. /\ handler \in [Socks -> HandlerStates] /\ cur \in Socks \cup {0}
      /\ Socks \subseteq Int
  BY DEF TypeOK, Socks
<1>k. /\ UNCHANGED <<kind, role>> /\ \A t \in Socks : Joined(t) => Joined(t)'
      /\ DeletedJoined' /\ AddedLast'
  BY StepKeeps
<1>n. \A t \in Socks : Starts(t) \/ Rests(t)
  BY StepKeeps
<1>f. Unstarted /\ OneSocket
  BY DEF Final
<1>s. OnePending' /\ AllFound' /\ GoneJoined'
  BY <1>k DEF OnePending, AllFound, GoneJoined
<1>1. ASSUME UNCHANGED handler PROVE \A t \in Socks : Rests(t)
  <2>1. \A t \in Socks : ~Starts(t)
    BY <1>1 DEF Starts
  <2> QED
    BY <1>n, <2>1
<1>2. ASSUME NEW s \in Socks, Dial(s) PROVE Final'
  <2>1. /\ svr = "dial" /\ handler[s] = "none"
        /\ \A t \in Socks : handler[t] \notin {"init", "failed"}
        /\ \A t \in Socks : t < s => handler[t] # "none"
    BY <1>2 DEF Dial, NextSock, Socks
  <2>2. \/ handler' = [handler EXCEPT ![s] = "init"] /\ svr' = "dial"
        \/ handler' = [handler EXCEPT ![s] = "added"] /\ svr' = "run" /\ cur' = s
    BY <1>2 DEF Dial
  <2>3. \A t \in Socks \ {s} : handler'[t] = handler[t] /\ Rests(t)
    BY <1>n, <1>t, <2>2 DEF Starts
  <2>4. handler'[s] \in {"init", "added"}
    BY <1>t, <2>2
  <2>5. Unstarted'
    BY <2>3, <2>4, <1>f, <1>k DEF Unstarted, Rests
  <2>6. \A t \in Socks : t < s => Joined(t)
    BY <2>1, <1>f DEF OneSocket, Dialing
  <2>7. \A t \in Socks : s < t => handler[t] = "none" /\ reader[t] = "none"
    BY <2>1, <1>f DEF OneSocket, Unstarted
  <2>8. \A a \in Socks :
         /\ handler'[a] \in {"none", "init", "failed", "added", "dropped"}
         /\ Dialing(a)' => svr' = "dial"
         /\ handler'[a] = "dropped" => Joined(a)'
         /\ handler'[a] = "added" => Joined(a)' \/ (a = cur' /\ svr' # "dial")
    BY <2>1, <2>2, <2>3, <1>f, <1>k, <1>t DEF OneSocket, Dialing
  <2>9. \A a, b \in Socks : Dialing(a)' /\ Dialing(b)' => a = b
    BY <2>1, <2>3 DEF Dialing
  <2>10. \A a, b \in Socks : a < b /\ handler'[b] # "none" => handler'[a] # "none"
    <3>1. TAKE a, b \in Socks
    <3>2. CASE b = s
      BY <2>1, <2>3, <2>4, <3>2, <1>t
    <3>3. CASE b # s
      BY <2>3, <2>4, <3>3, <1>f DEF OneSocket
    <3> QED
      BY <3>2, <3>3
  <2>11. \A a, b \in Socks : a < b /\ reader'[b] # "none" => Joined(a)'
    <3>1. TAKE a, b \in Socks
    <3>2. CASE b = s
      BY <2>6, <3>2, <1>k
    <3>3. CASE b # s
      BY <2>3, <3>3, <1>f, <1>k DEF OneSocket, Rests
    <3> QED
      BY <3>2, <3>3
  <2>12. OneSocket'
    BY <2>8, <2>9, <2>10, <2>11, <1>k DEF OneSocket
  <2> QED
    BY <1>k, <1>s, <2>5, <2>12 DEF Final
(* newKCPSocket has returned, or is about to fail.                         *)
<1>3. ASSUME NEW s \in Socks, NEW h \in {"added", "failed", "dropped"},
             handler[s] \in {"init", "failed"}, handler' = [handler EXCEPT ![s] = h],
             h = "failed" => svr' = svr /\ cur' = cur,
             h = "added" => cur' = s /\ svr' # "dial",
             h = "dropped" => Joined(s) /\ cur' = 0 /\ svr' # "dial"
      PROVE Final'
  <2>1. \A t \in Socks \ {s} : handler'[t] = handler[t] /\ handler[t] \notin {"init", "failed"}
    BY <1>3, <1>f, <1>t DEF OneSocket, Dialing
  <2>2. handler'[s] = h /\ svr = "dial"
    BY <1>3, <1>f, <1>t DEF OneSocket, Dialing
  <2>3. \A t \in Socks : Rests(t)
    BY <2>1, <1>3, <1>n, <1>t DEF Starts
  <2>4. Unstarted'
    BY <2>1, <2>2, <2>3, <1>f, <1>k DEF Unstarted, Rests
  <2>5. \A a \in Socks :
         /\ handler'[a] \in {"none", "init", "failed", "added", "dropped"}
         /\ Dialing(a)' => svr' = "dial"
         /\ handler'[a] = "dropped" => Joined(a)'
         /\ handler'[a] = "added" => Joined(a)' \/ (a = cur' /\ svr' # "dial")
    BY <1>3, <2>1, <2>2, <1>f, <1>k DEF OneSocket, Dialing
  <2>6. \A a, b \in Socks : Dialing(a)' /\ Dialing(b)' => a = b
    BY <2>1 DEF Dialing
  <2>7. \A a, b \in Socks :
          /\ a < b /\ handler'[b] # "none" => handler'[a] # "none"
          /\ a < b /\ reader'[b] # "none" => Joined(a)'
    BY <1>3, <2>1, <2>2, <2>3, <1>f, <1>k DEF OneSocket, Rests
  <2>8. OneSocket'
    BY <2>5, <2>6, <2>7, <1>k DEF OneSocket
  <2> QED
    BY <1>k, <1>s, <2>4, <2>8 DEF Final
<1>4. ASSUME NEW s \in Socks, KCPDialed(s) \/ KCPDialFailed(s) PROVE Final'
  BY <1>3, <1>4 DEF KCPDialed, KCPInit, KCPInitFails, KCPDialFailed, closeVars
(* The application calls: cli.sock stays, and Reconnect dials only when it *)
(* is out.                                                                 *)
<1>5. ASSUME UNCHANGED <<handler, cur>>,
             \A t \in Socks : Dialing(t) => svr' = svr,
             svr' = "dial" => svr = "dial" \/ Joined(cur)
      PROVE Final'
  <2>1. \A t \in Socks : Rests(t)
    BY <1>1, <1>5
  <2>2. Unstarted'
    BY <1>5, <2>1, <1>f, <1>k DEF Unstarted, Rests
  <2>3. \A a \in Socks :
         /\ handler'[a] \in {"none", "init", "failed", "added", "dropped"}
         /\ Dialing(a)' => svr' = "dial"
         /\ handler'[a] = "dropped" => Joined(a)'
         /\ handler'[a] = "added" => Joined(a)' \/ (a = cur' /\ svr' # "dial")
    BY <1>5, <1>f, <1>k DEF OneSocket, Dialing
  <2>4. \A a, b \in Socks :
         /\ Dialing(a)' /\ Dialing(b)' => a = b
         /\ a < b /\ handler'[b] # "none" => handler'[a] # "none"
         /\ a < b /\ reader'[b] # "none" => Joined(a)'
    BY <1>5, <2>1, <1>f, <1>k DEF OneSocket, Dialing, Rests
  <2>5. OneSocket'
    BY <2>3, <2>4, <1>k DEF OneSocket
  <2> QED
    BY <1>k, <1>s, <2>2, <2>5 DEF Final
<1>6. CASE DialFails \/ ClientCall \/ ClientJoin
  <2>1. \A t \in Socks : Dialing(t) => svr = "dial"
    BY <1>f DEF OneSocket
  <2> QED
    BY <1>5, <1>6, <2>1 DEF DialFails, ClientCall, ClientJoin, Dialing
<1> QED
  BY <1>2, <1>4, <1>6

LEMMA NextFinal == ASSUME TypeOK, Final, [Next]_vars PROVE Final'
<1>t. role \in {"server", "client"} /\ sockets \subseteq Socks /\ cur \in Socks \cup {0}
  BY DEF TypeOK
<1>1. CASE UNCHANGED vars
  BY <1>1, LoopsFinal DEF vars, closeVars
<1>2. CASE \E s \in Socks : \/ Receive(s) \/ ReadEnd(s) \/ ReadLoop(s)
                            \/ WriteLoop(s) \/ WriteFail(s) \/ Send(s)
  <2>1. UNCHANGED <<handler, accept, svr, cur, gone>> /\ sockets' \subseteq sockets
    BY <1>2 DEF Receive, ReadEnd, ReadLoop, KCPReadLoop, WriteLoop, TCPWriteLoop, TCPRelease,
       DelSocket, WriteFail, Send, Alone, closeVars
  <2> QED
    BY <2>1, LoopsFinal
<1>3. CASE Next /\ \E s \in Socks : NewConn(s) \/ Handler(s)
  BY <1>3, AcceptFinal
<1>4. CASE Next /\ (ServerCall \/ ServerClose)
  BY <1>4, CloseFinal
<1>5. CASE /\ Next
           /\ \/ \E s \in Socks : Dial(s) \/ KCPDialed(s) \/ KCPDialFailed(s)
              \/ DialFails \/ ClientCall \/ ClientJoin
  <2>1. role = "client"
    BY <1>5 DEF Dial, KCPDialed, KCPDialFailed, DialFails, ClientCall, ClientJoin
  <2> QED
    BY <1>5, <2>1, ClientFinal
<1> QED
  BY <1>1, <1>2, <1>3, <1>4, <1>5 DEF Next

LEMMA FinalClose == ASSUME TypeOK, Exact, Final PROVE CloseIsFinal
<1>t. /\ handler \in [Socks -> HandlerStates] /\ accept \in BOOLEAN
      /\ sockets \subseteq Socks
  BY DEF TypeOK
<1>1. ASSUME role = "server", svr = "returned"
      PROVE ~accept /\ \A s \in gone : Joined(s)
  BY <1>1 DEF Final, GoneJoined
<1>2. ASSUME role = "server", svr = "returned", kind = "kcp",
             NEW s \in Socks, reader[s] # "none"
      PROVE Joined(s)
  <2>1. handler[s] \in {"failed", "added", "stale", "done"} /\ ~Pending(s)
    BY <1>1, <1>2, <1>t DEF Final, Unstarted, OnePending, Pending, HandlerStates
  <2>2. CASE s \in sockets
    BY <1>1, <1>2, <2>2 DEF Final, AllFound
  <2>3. CASE s \notin sockets /\ handler[s] \in {"added", "stale"}
    <3>1. Released(s)
      BY <1>2, <2>3 DEF Exact, SocketsExact
    <3> QED
      BY <1>2, <3>1 DEF Released, KCPReleased, Final, DeletedJoined
  <2>4. CASE handler[s] = "failed"
    BY <2>1, <2>4 DEF Pending
  <2>5. handler[s] # "done"
    BY <1>2 DEF Final, AddedLast
  <2> QED
    BY <2>1, <2>2, <2>3, <2>4, <2>5
<1>3. ASSUME role = "client", NEW s \in Socks, NEW t \in Socks, s < t, reader[t] # "none"
      PROVE Joined(s)
  BY <1>3 DEF Final, OneSocket
<1> QED
  BY <1>1, <1>2, <1>3 DEF CloseIsFinal

LEMMA FinalAlways == Spec => []Final
<1>1. TypeOK /\ Final /\ [Next]_vars => Final'
  BY NextFinal
<1> QED
  BY InitFinal, TypeCorrect, <1>1, PTL DEF Spec

(* When a server's Close has returned, accept has, every socket it found   *)
(* is out, and for KCP every socket there is; and a client never runs the  *)
(* loops of two sockets, however often it reconnects.                      *)
THEOREM CloseIsOver == Spec => []CloseIsFinal
<1>1. Exact /\ TypeOK /\ [Next]_vars => Exact'
  BY NextExact
<1>2. TypeOK /\ Exact /\ Final => CloseIsFinal
  BY FinalClose
<1> QED
  BY InitExact, TypeCorrect, FinalAlways, <1>1, <1>2, PTL DEF Spec

(* A socket is made once: when wg.Wait is over for it, it is over for      *)
(* good, and no later step of accept, Close, Reconnect or a peer starts    *)
(* its loops again.                                                        *)
OutForGood == [][\A s \in Socks : Joined(s) => Joined(s)']_vars

THEOREM JoinedForGood == Spec => OutForGood
<1>1. TypeOK /\ Final /\ [Next]_vars => [\A s \in Socks : Joined(s) => Joined(s)']_vars
  BY StepKeeps
<1> QED
  BY TypeCorrect, FinalAlways, <1>1, PTL DEF Spec, OutForGood
-----------------------------------------------------------------------------
(* The sockets implement SessionCallbacks: the steps of a read loop show,  *)
(* up to onDisconnect, and no other.                                       *)
running == [a \in Socks |-> RunningAt(a)]

(* readLoop of the three transports, before and after its callbacks end.   *)
Calls ==
  {<<"connect", "read">>, <<"read", "handle">>, <<"handle", "read">>}
    \cup (IF kind = "tcp" THEN {<<"read", "close">>, <<"handle", "close">>}
                          ELSE {<<"read", "disconnect">>, <<"handle", "disconnect">>})
Returns ==
  IF kind = "tcp" THEN {<<"disconnect", "done">>}
                  ELSE {<<"disconnect", "close">>, <<"disconnect", "release">>}
Unseen ==
  IF kind = "tcp" THEN {<<"close", "disconnect">>}
                  ELSE {<<"release", "join">>, <<"join", "delete">>, <<"delete", "close">>,
                        <<"close", "done">>}

ReaderGoes(s) ==
  \E to \in ReaderStates :
    /\ reader' = [reader EXCEPT ![s] = to]
    /\ <<reader[s], to>> \in {<<"none", "connect">>} \cup Calls \cup Returns \cup Unseen

LEMMA ReaderMoves ==
  ASSUME TypeOK, Unstarted, [Next]_vars
  PROVE  UNCHANGED reader \/ \E s \in Socks : ReaderGoes(s)
<1> USE DEF ReaderGoes, ReaderStates
<1>k. kind \in {"tcp", "kcp", "ws"} /\ handler \in [Socks -> HandlerStates]
  BY DEF TypeOK
<1>1. ASSUME NEW s \in Socks, Receive(s) \/ ReadEnd(s) \/ ReadLoop(s) PROVE ReaderGoes(s)
  <2> USE DEF Receive, ReadEnd, ReadLoop, Read, ReadStep
  <2>1. CASE kind = "tcp"
    BY <1>1, <2>1 DEF TCPReceive, TCPReadEnd, TCPReadLoop, Calls, Returns, Unseen
  <2>2. CASE kind = "kcp"
    <3>1. CASE Receive(s) \/ ReadEnd(s)
      BY <2>2, <3>1 DEF KCPReceive, KCPReadEnd, Calls
    <3>2. CASE ReadLoop(s)
      BY <2>2, <3>2 DEF KCPReadLoop, Calls, Returns, Unseen
    <3> QED
      BY <1>1, <3>1, <3>2
  <2>3. CASE kind = "ws"
    BY <1>1, <2>3 DEF WSReceive, WSReadEnd, WSReadLoop, Calls, Returns, Unseen
  <2> QED
    BY <1>k, <2>1, <2>2, <2>3
<1>2. ASSUME NEW s \in Socks, StartLoops(s), handler[s] \in {"none", "accepted"}
      PROVE  ReaderGoes(s)
  BY <1>2 DEF StartLoops, Unstarted
<1>3. ASSUME NEW s \in Socks, WriteLoop(s) \/ WriteFail(s) \/ Send(s) PROVE UNCHANGED reader
  BY <1>3 DEF WriteLoop, TCPWriteLoop, TCPTake, TCPTakeLast, TCPWrite, TCPRelease, KCPWriteLoop,
     WSWriteLoop, WSTake, WSDrain, WriteFail, WriteFails, Write, WriteStep, ConnClose, TakeAll,
     Send, SendMsg
<1>4. ASSUME NEW s \in Socks, SockClose(s) PROVE UNCHANGED reader
  BY <1>4 DEF SockClose, TCPClose, KCPClose, WSClose
<1>5. ASSUME NEW s \in Socks, NewConn(s) \/ Handler(s) PROVE UNCHANGED reader \/ ReaderGoes(s)
  <2>1. CASE TCPNewSocket(s) \/ KCPNewSocket(s) \/ WSNewSocket(s)
    BY <1>2, <2>1 DEF TCPNewSocket, KCPNewSocket, WSNewSocket, HandlerStep
  <2> QED
    BY <1>5, <2>1 DEF NewConn, Accept, Upgrade, Handler, KCPInit, KCPInitFails, KCPClose,
       WSHandlerEnd, Drop, AddSocket, loopVars
<1>6. ASSUME NEW s \in Socks, Dial(s) PROVE ReaderGoes(s)
  BY <1>2, <1>6 DEF Dial, NextSock
<1>7. ASSUME NEW s \in Socks, KCPDialed(s) \/ KCPDialFailed(s) PROVE UNCHANGED reader
  BY <1>7 DEF KCPDialed, KCPInit, KCPInitFails, KCPClose, KCPDialFailed, loopVars
<1>8. CASE ServerCall \/ ServerClose \/ DialFails \/ ClientCall \/ ClientJoin
  <2>1. sockets \subseteq Socks /\ cur \in Socks \cup {0}
    BY DEF TypeOK
  <2> QED
    BY <1>4, <1>8, <2>1 DEF ServerCall, ServerClose, CloseJoin, TCPServerClose, KCPServerClose,
       WSServerClose, AcceptEnd, CloseStep, DialFails, ClientCall, ClientJoin, loopVars
<1>9. CASE UNCHANGED vars
  BY <1>9 DEF vars, loopVars
<1> QED
  BY <1>1, <1>3, <1>5, <1>6, <1>7, <1>8, <1>9 DEF Next

LEMMA PeerType == \A s \in Socks : Peer(s) \in Socks
  BY StreamAssumption DEF Peer, Socks

(* Reconnect of a websocket client begins when the last connection's       *)
(* callbacks are over; other sockets have a peer of their own.             *)
LEMMA AloneAtPeer ==
  ASSUME CloseIsFinal, NEW s \in Socks, NEW t \in Socks, t # s, Peer(t) = Peer(s),
         InCallbacks(s)
  PROVE  ~InCallbacks(t)
<1>1. kind = "ws" /\ role = "client"
  BY DEF Peer
<1>2. \A x \in Socks : InCallbacks(x) => reader[x] # "none" /\ ~Joined(x)
  BY <1>1 DEF InCallbacks, Joined, ReaderOut
<1>3. s < t \/ t < s
  BY DEF Socks
<1> QED
  BY <1>1, <1>2, <1>3 DEF CloseIsFinal

(* A socket that is alone at its peer moves.                               *)
LEMMA RunningMoves ==
  ASSUME NEW s \in Socks, UNCHANGED <<kind, role>>,
         \A t \in Socks \ {s} :
           reader'[t] = reader[t] /\ (Peer(t) = Peer(s) => ~InCallbacks(t))
  PROVE  /\ running[Peer(s)] = IF InCallbacks(s) THEN {<<s, Callback(s)>>} ELSE {}
         /\ running' = [running EXCEPT
              ![Peer(s)] = IF InCallbacks(s)' THEN {<<s, Callback(s)'>>} ELSE {}]
<1>1. \A t \in Socks : Peer(t)' = Peer(t)
  BY DEF Peer
<1>2. \A t \in Socks \ {s} : (InCallbacks(t)' <=> InCallbacks(t)) /\ Callback(t)' = Callback(t)
  BY DEF InCallbacks, Callback
<1>3. \A t \in Socks : InCallbacks(t) /\ Peer(t) = Peer(s) <=> InCallbacks(s) /\ t = s
  OBVIOUS
<1>4. \A t \in Socks : InCallbacks(t)' /\ Peer(t)' = Peer(s) <=> InCallbacks(s)' /\ t = s
  BY <1>1, <1>2
<1> DEFINE Now(a) == {t \in Socks : InCallbacks(t) /\ Peer(t) = a}
           Then(a) == {t \in Socks : InCallbacks(t)' /\ Peer(t)' = a}
<1>5. \A a : RunningAt(a) = {<<t, Callback(t)>> : t \in Now(a)}
             /\ RunningAt(a)' = {<<t, Callback(t)'>> : t \in Then(a)}
  BY DEF RunningAt
<1>6. Now(Peer(s)) = (IF InCallbacks(s) THEN {s} ELSE {})
      /\ Then(Peer(s)) = (IF InCallbacks(s)' THEN {s} ELSE {})
  BY <1>3, <1>4
<1>7. ASSUME NEW a \in Socks, a # Peer(s) PROVE RunningAt(a)' = RunningAt(a)
  <2>1. Then(a) = Now(a) /\ s \notin Now(a)
    BY <1>1, <1>2, <1>7
  <2>2. \A t \in Now(a) : Callback(t)' = Callback(t)
    BY <1>2, <2>1
  <2> HIDE DEF Now, Then
  <2> QED
    BY <1>5, <2>1, <2>2
<1> HIDE DEF Now, Then
<1>8. RunningAt(Peer(s)) = IF InCallbacks(s) THEN {<<s, Callback(s)>>} ELSE {}
  BY <1>5, <1>6
<1>9. {<<t, Callback(t)'>> : t \in Then(Peer(s))} = IF InCallbacks(s)' THEN {<<s, Callback(s)'>>} ELSE {}
  BY <1>6
<1>10. \A a \in Socks :
         RunningAt(a)' = IF a = Peer(s)
                         THEN IF InCallbacks(s)' THEN {<<s, Callback(s)'>>} ELSE {}
                         ELSE RunningAt(a)
  BY <1>5, <1>7, <1>9
<1>11. running' = [a \in Socks |-> RunningAt(a)']
  BY DEF running
<1> HIDE DEF running
<1>12. running = [a \in Socks |-> RunningAt(a)]
  BY DEF running
<1> QED
  BY <1>8, <1>10, <1>11, <1>12, PeerType

LEMMA SocketCalls ==
  ASSUME TypeOK, CloseIsFinal, CloseIsFinal', UNCHANGED <<kind, role>>,
         NEW s \in Socks, ReaderGoes(s)
  PROVE  [Callbacks!Next]_<<Begun, running>>
<1>1. PICK to \in ReaderStates :
        /\ reader' = [reader EXCEPT ![s] = to]
        /\ <<reader[s], to>> \in {<<"none", "connect">>} \cup Calls \cup Returns \cup Unseen
  BY DEF ReaderGoes
<1>2. reader'[s] = to /\ \A t \in Socks \ {s} : reader'[t] = reader[t]
  BY <1>1 DEF TypeOK
<1>3. \A t \in Socks : Peer(t)' = Peer(t)
  BY DEF Peer
<1>4. ASSUME InCallbacks(s) \/ InCallbacks(s)', NEW t \in Socks \ {s}, Peer(t) = Peer(s)
      PROVE  ~InCallbacks(t)
  <2>1. CASE InCallbacks(s)
    BY <1>4, <2>1, AloneAtPeer
  <2>2. CASE InCallbacks(s)'
    <3>1. kind = "ws" /\ role = "client"
      BY <1>4 DEF Peer
    <3>2. \A x \in Socks : InCallbacks(x)' => reader'[x] # "none" /\ ~Joined(x)'
      BY <3>1 DEF InCallbacks, Joined, ReaderOut
    <3>3. s < t \/ t < s
      BY DEF Socks
    <3>4. ~InCallbacks(t)'
      BY <1>4, <2>2, <3>1, <3>2, <3>3 DEF CloseIsFinal
    <3> QED
      BY <1>2, <3>4 DEF InCallbacks
  <2> QED
    BY <1>4, <2>1, <2>2
<1>5. ASSUME InCallbacks(s) \/ InCallbacks(s)'
      PROVE  /\ running[Peer(s)] = IF InCallbacks(s) THEN {<<s, Callback(s)>>} ELSE {}
             /\ running' = [running EXCEPT
                  ![Peer(s)] = IF InCallbacks(s)' THEN {<<s, Callback(s)'>>} ELSE {}]
  BY <1>2, <1>4, <1>5, RunningMoves
<1>6. ASSUME reader[s] # "none", to # "none" PROVE UNCHANGED Begun
  BY <1>1, <1>2, <1>6 DEF Begun
<1>7. CASE <<reader[s], to>> = <<"none", "connect">>
  <2>1. /\ reader[s] = "none" /\ to = "connect"
        /\ ~InCallbacks(s) /\ InCallbacks(s)' /\ Callback(s)' = "connect"
    BY <1>2, <1>7 DEF InCallbacks, Callback
  <2>2. s \notin Begun /\ Begun' = Begun \cup {s}
    BY <1>2, <2>1 DEF Begun
  <2>3. Callbacks!Begin(Peer(s), s)
    BY <1>5, <2>1, <2>2 DEF Callbacks!Begin, running
  <2> QED
    BY <2>3, PeerType DEF Callbacks!Next
<1>8. CASE <<reader[s], to>> \in Calls
  <2>1. /\ InCallbacks(s) /\ InCallbacks(s)' /\ reader[s] # "none" /\ to # "none"
        /\ <<Callback(s), Callback(s)'>> \in Callbacks!Follows
    BY <1>2, <1>8 DEF InCallbacks, Callback, Calls, Callbacks!Follows
  <2>2. Callbacks!Continue(Peer(s), s)
    BY <1>5, <1>6, <2>1 DEF Callbacks!Continue, running
  <2> QED
    BY <2>2, PeerType DEF Callbacks!Next
<1>9. CASE <<reader[s], to>> \in Returns
  <2>1. /\ InCallbacks(s) /\ ~InCallbacks(s)' /\ reader[s] # "none" /\ to # "none"
        /\ Callback(s) = "disconnect"
    BY <1>2, <1>9 DEF InCallbacks, Callback, Returns
  <2>2. Callbacks!End(Peer(s), s)
    BY <1>5, <1>6, <2>1 DEF Callbacks!End, running
  <2> QED
    BY <2>2, PeerType DEF Callbacks!Next
<1>10. CASE <<reader[s], to>> \in Unseen
  <2>1. /\ InCallbacks(s)' <=> InCallbacks(s)
        /\ InCallbacks(s) => Callback(s)' = Callback(s)
        /\ reader[s] # "none" /\ to # "none"
    BY <1>2, <1>10 DEF InCallbacks, Callback, Unseen
  <2>2. \A t \in Socks : /\ InCallbacks(t)' <=> InCallbacks(t)
                         /\ InCallbacks(t) => Callback(t)' = Callback(t)
    BY <1>2, <2>1 DEF InCallbacks, Callback
  <2>3. \A a : {t \in Socks : InCallbacks(t)' /\ Peer(t)' = a}
               = {t \in Socks : InCallbacks(t) /\ Peer(t) = a}
    BY <1>3, <2>2
  <2>4. \A a : RunningAt(a)' = RunningAt(a)
    BY <2>2, <2>3 DEF RunningAt
  <2>5. UNCHANGED running
    BY <2>4 DEF running
  <2> QED
    BY <1>6, <2>1, <2>5
<1> QED
  BY <1>1, <1>7, <1>8, <1>9, <1>10

LEMMA CallbacksStep ==
  ASSUME TypeOK, Final, CloseIsFinal, CloseIsFinal', [Next]_vars
  PROVE  [Callbacks!Next]_<<Begun, running>>
<1>1. UNCHANGED <<kind, role>>
  BY StepKeeps
<1>2. CASE UNCHANGED reader
  BY <1>1, <1>2 DEF Begun, running, RunningAt, InCallbacks, Callback, Peer
<1> QED
  BY <1>1, <1>2, ReaderMoves, SocketCalls DEF Final

(* What the handler of a stream transport may count on: a connection runs  *)
(* onConnect, onMsg for one message after the other and onDisconnect, once *)
(* and never two at a time; and the connections of a websocket client do   *)
(* so one after the other, however often it reconnects.                    *)
THEOREM RunsCallbacks == Spec => CallbacksSpec
<1>1. Init => Callbacks!Init
  <2>1. ASSUME Init PROVE \A s \in Socks : reader[s] = "none"
    BY <2>1 DEF Init, StreamInit
  <2>2. ASSUME Init PROVE Begun = {} /\ \A a : RunningAt(a) = {}
    BY <2>1, <2>2 DEF Begun, RunningAt, InCallbacks
  <2> QED
    BY <2>2 DEF Callbacks!Init
<1>2. TypeOK /\ Final /\ CloseIsFinal /\ CloseIsFinal' /\ [Next]_vars
      => [Callbacks!Next]_<<Begun, [a \in Socks |-> RunningAt(a)]>>
  BY CallbacksStep DEF running
<1> QED
  BY <1>1, <1>2, TypeCorrect, FinalAlways, CloseIsOver, PTL
  DEF Spec, CallbacksSpec, Callbacks!Spec
=============================================================================
