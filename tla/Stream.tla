-------------------------------- MODULE Stream --------------------------------
(***************************************************************************)
(* What the three stream transports of xnet have in common: a socket with  *)
(* a read loop and a write loop around a connection, a write channel, a    *)
(* close channel and a wait group that counts the loops; and a server with *)
(* a map of sockets under a mutex.  TCP, KCP and Websocket add what is     *)
(* their own, StreamSystem puts them together.  In writeCh a message is    *)
(* "early" if SendMsg took it before closeCh was closed, "late" otherwise, *)
(* and "empty" if it has no bytes.                                         *)
(***************************************************************************)
EXTENDS Integers, Sequences

CONSTANTS
  MaxSocks,  \* bound on the connections
  WriteMax,  \* capacity of writeCh (writeChanLimit, 200)
  Busy       \* bound on the traffic: the connections that carry data

Socks == 1..MaxSocks

ASSUME StreamAssumption ==
  MaxSocks \in Nat /\ WriteMax \in Nat \ {0} /\ Busy \subseteq Socks

VARIABLES
  kind,      \* "tcp", "kcp" or "ws"
  role,      \* "server" or "client"
  reader,    \* readLoop
  writer,    \* writeLoop
  writeCh,   \* sock.writeCh
  closeCh,   \* whether sock.closeCh is closed
  conn,      \* the connection; "shut" after CloseRead
  broken,    \* whether a broken write or an empty message has ended writeLoop
  handler,   \* who made the socket: accept, the HTTP handler or the client
  sockets,   \* the server's sockets
  accept,    \* whether accept runs
  svr,       \* the goroutine that calls Close, or a client's Reconnect
  cur,       \* the socket it closes; a client's cli.sock
  gone       \* the sockets the server's Close has closed

config == <<kind, role>>
loopVars == <<reader, writer, writeCh, closeCh, conn, broken>>
closeVars == <<accept, svr, cur, gone>>
vars == <<config, loopVars, handler, sockets, closeVars>>

ReaderStates ==
  {"none", "connect", "read", "handle", "disconnect", "close",
   "release", "join", "delete", "done"}
WriterStates == {"none", "wait", "write", "drain", "last", "exit", "release", "done"}
HandlerStates ==
  {"none", "accepted", "dropped", "init", "failed", "add", "added", "stale", "done"}
SvrStates ==
  {"run", "sockets", "dial", "unlocked", "listener", "wait", "returned", "panic"}

StreamInit ==
  /\ kind \in {"tcp", "kcp", "ws"} /\ role \in {"server", "client"}
  /\ reader = [s \in Socks |-> "none"] /\ writer = [s \in Socks |-> "none"]
  /\ writeCh = [s \in Socks |-> <<>>] /\ closeCh = [s \in Socks |-> FALSE]
  /\ conn = [s \in Socks |-> "none"] /\ broken = [s \in Socks |-> FALSE]
  /\ handler = [s \in Socks |-> "none"]
  /\ sockets = {} /\ accept = (role = "server")
  /\ svr = (IF role = "server" THEN "run" ELSE "dial")
  /\ cur = 0 /\ gone = {}

-----------------------------------------------------------------------------
(* The sockets                                                             *)

(* A loop that has called wg.Done; the functions deferred before still run.*)
ReaderOut(s) ==
  reader[s] \in {"close", "release", "join", "delete", "done"}
                  \cup (IF kind = "ws" THEN {} ELSE {"disconnect"})
WriterOut(s) == writer[s] \in {"exit", "release", "done"}
Joined(s) == ReaderOut(s) /\ WriterOut(s)

(* The connection is there; both loops start.                              *)
StartLoops(s) ==
  /\ reader' = [reader EXCEPT ![s] = "connect"]
  /\ writer' = [writer EXCEPT ![s] = "wait"]
  /\ conn' = [conn EXCEPT ![s] = "open"]
  /\ UNCHANGED <<writeCh, closeCh, broken>>

CloseChan(s) ==
  /\ closeCh' = [closeCh EXCEPT ![s] = TRUE]
  /\ UNCHANGED <<writeCh, conn, broken>>

ReadStep(s, from, to) ==
  /\ reader[s] = from
  /\ reader' = [reader EXCEPT ![s] = to]
  /\ UNCHANGED writer

Read(s, from, to) ==
  /\ ReadStep(s, from, to)
  /\ UNCHANGED <<writeCh, closeCh, conn, broken>>

WriteStep(s, from, to) ==
  /\ writer[s] = from
  /\ writer' = [writer EXCEPT ![s] = to]
  /\ UNCHANGED <<reader, closeCh>>

Write(s, from, to) ==
  /\ WriteStep(s, from, to)
  /\ UNCHANGED <<writeCh, conn, broken>>

WriteFails(s) ==
  /\ WriteStep(s, "write", "exit") \/ WriteStep(s, "last", "exit")
  /\ broken' = [broken EXCEPT ![s] = TRUE]
  /\ UNCHANGED <<writeCh, conn>>

ConnClose(s, to) ==
  /\ WriteStep(s, "exit", to)
  /\ conn' = [conn EXCEPT ![s] = "closed"]
  /\ UNCHANGED <<writeCh, broken>>

(* SendMsg takes room in writeCh even if closeCh is closed; otherwise it   *)
(* returns an error.  The callbacks have the socket from onConnect on.  An *)
(* empty message is a nil one for a websocket; KCP packs what it sends.    *)
MutSendMsg(s) ==   \* does not look for room
  /\ reader[s] # "none"
  /\ writeCh' = [writeCh EXCEPT ![s] = Append(@, IF closeCh[s] THEN "late" ELSE "early")]
  /\ UNCHANGED <<reader, writer, closeCh, conn, broken>>

SendMsg(s) ==
  /\ reader[s] # "none"
  /\ Len(writeCh[s]) < WriteMax
  /\ \E m \in {IF closeCh[s] THEN "late" ELSE "early", "empty"} :
       /\ kind = "kcp" => m # "empty"
       /\ writeCh' = [writeCh EXCEPT ![s] = Append(@, m)]
  /\ UNCHANGED <<reader, writer, closeCh, conn, broken>>

HasData(q) == \E i \in 1..Len(q) : q[i] # "empty"

(* waitMsg: takes all there is.                                            *)
TakeAll(s, to) ==
  /\ WriteStep(s, "wait", to)
  /\ writeCh' = [writeCh EXCEPT ![s] = <<>>]
  /\ UNCHANGED conn

-----------------------------------------------------------------------------
(* The servers                                                             *)

(* svr.mu is held by Close while it closes the sockets, by KCPServer's     *)
(* until it returns, and by everyone else within one step.                 *)
MutMuFree ==   \* KCPServer.Close unlocks like TCPServer.Close
  role = "server" => svr # "sockets"

MuFree ==
  role = "server" =>
    svr \notin (IF kind = "kcp" THEN {"sockets", "listener", "wait"} ELSE {"sockets"})

HandlerStep(s, from, to) ==
  /\ handler[s] = from
  /\ handler' = [handler EXCEPT ![s] = to]

(* Connections are numbered as they come.                                  *)
NextSock(s) ==
  /\ handler[s] = "none"
  /\ \A t \in 1..(s - 1) : handler[t] # "none"

AcceptIdle ==
  \A t \in Socks :
    /\ handler[t] \notin {"accepted", "init", "add"}
    /\ handler[t] = "failed" => Joined(t)

(* accept, after AcceptTCP or AcceptKCP                                    *)
Accept(s) ==
  /\ accept /\ svr \notin {"wait", "returned"}
  /\ AcceptIdle /\ NextSock(s)
  /\ HandlerStep(s, "none", "accepted")
  /\ UNCHANGED <<loopVars, sockets, closeVars>>

ServerClosed == svr \in {"listener", "wait", "returned"}

(* closeCh is closed: accept returns with the connection in hand.          *)
Drop(s) ==
  /\ ServerClosed
  /\ HandlerStep(s, "accepted", "dropped")
  /\ accept' = FALSE
  /\ UNCHANGED <<loopVars, sockets, svr, cur, gone>>

(* The listener is closed, and so is closeCh.                              *)
AcceptEnd ==
  /\ accept /\ svr = "wait" /\ AcceptIdle
  /\ accept' = FALSE
  /\ UNCHANGED <<loopVars, handler, sockets, svr, cur, gone>>

(* addSocket; "stale" if the socket has been deleted before.               *)
AddSocket(s, released) ==
  /\ MuFree
  /\ HandlerStep(s, "add", IF released THEN "stale" ELSE "added")
  /\ sockets' = sockets \cup {s}
  /\ UNCHANGED <<loopVars, closeVars>>

(* delSocket                                                               *)
DelSocket(s) ==
  /\ MuFree
  /\ sockets' = sockets \ {s}
  /\ UNCHANGED <<handler, closeVars>>

-----------------------------------------------------------------------------
(* Close, but for what the transports have of their own                    *)

SvrStep(from, to) ==
  /\ svr = from /\ svr' = to
  /\ UNCHANGED <<handler, sockets, gone>>

(* Its wg.Wait for the socket is over.                                     *)
CloseJoin ==
  /\ svr = "sockets" /\ cur # 0 /\ Joined(cur)
  /\ gone' = gone \cup {cur} /\ cur' = 0
  /\ UNCHANGED <<loopVars, handler, sockets, accept, svr>>

AllClosed == cur = 0 /\ sockets \subseteq gone

(* A goroutine that does nothing else, up to Close's return.               *)
CloseStep(from, to) ==
  /\ SvrStep(from, to)
  /\ UNCHANGED <<loopVars, accept, cur>>
=============================================================================
