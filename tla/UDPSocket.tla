------------------------------ MODULE UDPSocket ------------------------------
(***************************************************************************)
(* udp_socket.go: the two loops of a UDPSocket, its write channel and its  *)
(* close.  A server has one socket, a client one per connection.  The read *)
(* loop's onMsg is a callback of the module that EXTENDS this one, which   *)
(* also has the goroutines that call close.  What a datagram carries is    *)
(* left out; of one in writeCh the model keeps whether sendMsg took it     *)
(* before closeCh was closed.                                              *)
(***************************************************************************)
EXTENDS Integers, Sequences

CONSTANTS
  Socks,     \* the UDPSockets
  WriteMax   \* capacity of writeCh (writeChanLimit * 10)

ASSUME SocketAssumption == WriteMax \in Nat \ {0}

VARIABLES
  conn,        \* whether sock.conn is open
  sockClosed,  \* whether sock.closeCh is closed
  reader,      \* readLoop
  writer,      \* writeLoop
  writeCh,     \* sock.writeCh
  writeErr     \* whether a write has failed

socketVars == <<conn, sockClosed, reader, writer, writeCh, writeErr>>

(* "exit": wg.Done has run, the other deferred function has not.           *)
ReaderStates == {"none", "read", "onMsg", "exit", "done", "panic"}
WriterStates == {"none", "write", "drain", "exit", "done"}

SocketTypeOK ==
  /\ conn \in [Socks -> BOOLEAN] /\ sockClosed \in [Socks -> BOOLEAN]
  /\ reader \in [Socks -> ReaderStates] /\ writer \in [Socks -> WriterStates]
  /\ writeCh \in [Socks -> Seq(BOOLEAN)]
  /\ \A k \in Socks : Len(writeCh[k]) <= WriteMax
  /\ writeErr \in [Socks -> BOOLEAN]

SocketInit ==
  /\ conn = [k \in Socks |-> FALSE]
  /\ sockClosed = [k \in Socks |-> FALSE]
  /\ reader = [k \in Socks |-> "none"]
  /\ writer = [k \in Socks |-> "none"]
  /\ writeCh = [k \in Socks |-> <<>>]
  /\ writeErr = [k \in Socks |-> FALSE]

-----------------------------------------------------------------------------
(* ListenUDP or DialUDP, then NewUDPSocket, which starts both loops.       *)
NewUDPSocket(k) ==
  /\ reader[k] = "none"
  /\ conn' = [conn EXCEPT ![k] = TRUE]
  /\ reader' = [reader EXCEPT ![k] = "read"]
  /\ writer' = [writer EXCEPT ![k] = "write"]
  /\ UNCHANGED <<sockClosed, writeCh, writeErr>>

(* sock.sendMsg.  When its select finds closeCh closed and room in writeCh *)
(* it takes either; its failures change nothing.                           *)
SockSendMsg(k) ==
  /\ writer[k] # "none" /\ Len(writeCh[k]) < WriteMax
  /\ writeCh' = [writeCh EXCEPT ![k] = Append(@, ~sockClosed[k])]
  /\ UNCHANGED <<conn, sockClosed, reader, writer, writeErr>>

(* forceClose: closeOnce makes later calls no-ops.                         *)
SockForceClose(k) ==
  /\ sockClosed' = [sockClosed EXCEPT ![k] = TRUE]
  /\ UNCHANGED <<conn, reader, writer, writeCh, writeErr>>

(* What close waits for in wg.Wait.                                        *)
SockJoined(k) == reader[k] \in {"exit", "done"} /\ writer[k] \in {"exit", "done"}

-----------------------------------------------------------------------------
(* readLoop: ReadFromUDP fails once conn is closed, and may fail before.   *)
ReadFromUDP(k) ==
  /\ reader[k] = "read" /\ conn[k]
  /\ reader' = [reader EXCEPT ![k] = "onMsg"]
  /\ UNCHANGED <<conn, sockClosed, writer, writeCh, writeErr>>

ReadFail(k) ==
  /\ reader[k] = "read"
  /\ reader' = [reader EXCEPT ![k] = "exit"]
  /\ UNCHANGED <<conn, sockClosed, writer, writeCh, writeErr>>

ReadLoopClose(k) ==
  /\ reader[k] = "exit"
  /\ reader' = [reader EXCEPT ![k] = "done"]
  /\ sockClosed' = [sockClosed EXCEPT ![k] = TRUE]
  /\ UNCHANGED <<conn, writer, writeCh, writeErr>>

OnMsgReturns(k) == reader' = [reader EXCEPT ![k] = "read"]

-----------------------------------------------------------------------------
(* writeLoop: until closeCh is closed, then until writeCh is empty.        *)
Write(k) ==
  /\ writer[k] \in {"write", "drain"} /\ writeCh[k] # <<>>
  /\ writeCh' = [writeCh EXCEPT ![k] = Tail(@)]
  /\ \/ UNCHANGED <<writer, writeErr>>
     \/ /\ writer' = [writer EXCEPT ![k] = "exit"]
        /\ writeErr' = [writeErr EXCEPT ![k] = TRUE]
  /\ UNCHANGED <<conn, sockClosed, reader>>

MutStartDrain(k) ==   \* the loop ends with closeCh
  /\ writer[k] = "write" /\ sockClosed[k]
  /\ writer' = [writer EXCEPT ![k] = "exit"]
  /\ UNCHANGED <<conn, sockClosed, reader, writeCh, writeErr>>

StartDrain(k) ==
  /\ writer[k] = "write" /\ sockClosed[k]
  /\ writer' = [writer EXCEPT ![k] = "drain"]
  /\ UNCHANGED <<conn, sockClosed, reader, writeCh, writeErr>>

DrainEnd(k) ==
  /\ writer[k] = "drain" /\ writeCh[k] = <<>>
  /\ writer' = [writer EXCEPT ![k] = "exit"]
  /\ UNCHANGED <<conn, sockClosed, reader, writeCh, writeErr>>

ConnClose(k) ==
  /\ writer[k] = "exit"
  /\ writer' = [writer EXCEPT ![k] = "done"]
  /\ conn' = [conn EXCEPT ![k] = FALSE]
  /\ UNCHANGED <<sockClosed, reader, writeCh, writeErr>>

SocketLoops(k) ==
  \/ ReadFail(k) \/ ReadLoopClose(k)
  \/ Write(k) \/ StartDrain(k) \/ DrainEnd(k) \/ ConnClose(k)

(* What the loops do without the network's help: a read fails once conn is *)
(* closed.                                                                 *)
ReaderRuns(k) == (~conn[k] /\ ReadFail(k)) \/ ReadLoopClose(k)

WriterRuns(k) == Write(k) \/ StartDrain(k) \/ DrainEnd(k) \/ ConnClose(k)

-----------------------------------------------------------------------------
(* close lets out what was accepted before it: a write loop that ends      *)
(* without a write error has written every datagram that sendMsg took      *)
(* before closeCh was closed.                                              *)
DrainedOnClose ==
  \A k \in Socks :
    writer[k] \in {"exit", "done"} /\ ~writeErr[k] => \A i \in DOMAIN writeCh[k] : ~writeCh[k][i]
=============================================================================
