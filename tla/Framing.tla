------------------------------- MODULE Framing --------------------------------
(***************************************************************************)
(* How messages become a stream of bytes and messages again, in one        *)
(* direction of a TCP or KCP connection: PackMsg and packMsg, the batches  *)
(* of writeLoop, a stream that is cut anywhere, the cache of readLoop,     *)
(* onMsg and ParseMsgWarp, and the buffers of bufferPool.                  *)
(*                                                                         *)
(* A byte is a number.  The fields of a header are as wide as the          *)
(* constants say, and all hold Len: the other fields are the handler's.    *)
(* With isInline (KCP) every message starts with a kcpMuxHeader, one byte  *)
(* that tells the messages of kcpMux itself from the application's.  The   *)
(* mux is Established: its states are KCPMux, closing is Stream and        *)
(* KCPMux.                                                                 *)
(***************************************************************************)
EXTENDS Integers, Sequences

CONSTANTS
  HeaderSizeof,       \* of a Header of xmsg (16)
  kcpExchangeSizeof,  \* of the mux's own messages (4)
  readBufferSize,     \* bytes a buffer holds and a Read returns at most (1024)
  WriteMax,           \* capacity of writeCh (writeChanLimit, 200)
  Sizes,              \* bound: the sizes of payloads
  MaxMsgs             \* bound: the messages sent

ASSUME FramingAssumption ==
  /\ {HeaderSizeof, kcpExchangeSizeof, readBufferSize, WriteMax} \subseteq Nat \ {0}
  /\ Sizes \subseteq Nat /\ MaxMsgs \in Nat

VARIABLES
  isInline,    \* mux.isInline; FALSE for TCP, which has no mux
  accepted,    \* the messages send has put in writeCh so far
  writeCh,     \* sock.writeCh of the sender
  batch,       \* what writeLoop has still to write
  writer,      \* writeLoop
  stream,      \* the bytes under way
  readCaches,  \* of the receiver
  reader,      \* readLoop
  handled,     \* the messages given to the handler and to inlineProtocol
  cache,       \* number of bytes in bufferPool.cache
  lent         \* buffers got from the sync.Pool and not put back

sendVars == <<accepted, writeCh, batch, writer>>
poolVars == <<cache, lent>>
vars == <<isInline, sendVars, stream, readCaches, reader, handled, poolVars>>

Init ==
  /\ isInline \in BOOLEAN
  /\ accepted = <<>> /\ writeCh = <<>> /\ batch = <<>> /\ writer = "wait"
  /\ stream = <<>>
  /\ readCaches = <<>> /\ reader = "read" /\ handled = <<>>
  /\ cache = 0 /\ lent = 0

(* The bytes of a payload tell the message they belong to, those of a      *)
(* Header hold its Len.                                                    *)
Bytes(n, b) == [i \in 1..n |-> b]

-----------------------------------------------------------------------------
(* PackMsg of xmsg, by the application, and packMsg, in send.              *)
PackMsg(payload) == Bytes(HeaderSizeof, Len(payload)) \o payload

packMsg(inline, msg) ==
  IF isInline THEN <<IF inline THEN 1 ELSE 0>> \o msg ELSE msg

Send(inline, payload, msg) ==
  /\ Len(accepted) < MaxMsgs /\ Len(writeCh) < WriteMax
  /\ accepted' = Append(accepted, [inline |-> inline, payload |-> payload])
  /\ writeCh' = Append(writeCh, packMsg(inline, msg))
  /\ UNCHANGED <<isInline, batch, writer, stream, readCaches, reader, handled, poolVars>>

SendMsg ==
  \E n \in Sizes :
    LET payload == Bytes(n, Len(accepted) + 1) IN Send(FALSE, payload, PackMsg(payload))

sendInline ==
  /\ isInline
  /\ LET ke == Bytes(kcpExchangeSizeof, Len(accepted) + 1) IN Send(TRUE, ke, ke)

-----------------------------------------------------------------------------
(* writeLoop: waitMsg joins all that writeCh holds, Write may take a part. *)
WaitMsg ==
  /\ writer = "wait" /\ writeCh # <<>>
  /\ batch' = batch \o Head(writeCh)
  /\ writeCh' = Tail(writeCh)
  /\ writer' = IF Len(writeCh) = 1 THEN "write" ELSE "wait"
  /\ UNCHANGED <<isInline, accepted, stream, readCaches, reader, handled, poolVars>>

Write(n) ==
  /\ writer = "write" /\ n \in 1..Len(batch)
  /\ stream' = stream \o SubSeq(batch, 1, n)
  /\ batch' = SubSeq(batch, n + 1, Len(batch))
  /\ writer' = IF n = Len(batch) THEN "wait" ELSE "write"
  /\ UNCHANGED <<isInline, accepted, writeCh, readCaches, reader, handled, poolVars>>

WriteFails ==
  /\ writer = "write"
  /\ writer' = "done"
  /\ UNCHANGED <<isInline, accepted, writeCh, batch, stream, readCaches, reader, handled, poolVars>>

-----------------------------------------------------------------------------
(* bufferPool: get, and put, which copies the bytes and gives buffers back *)
(* as it has collected them.                                               *)
GetAndPut(n, m) ==
  /\ cache' = (cache + m) % readBufferSize
  /\ lent' = lent + n - (cache + m) \div readBufferSize

MutRead(n) ==   \* the whole buffer is given back
  /\ reader = "read" /\ n \in 1..readBufferSize /\ n <= Len(stream)
  /\ readCaches' = readCaches \o SubSeq(stream, 1, n)
  /\ stream' = SubSeq(stream, n + 1, Len(stream))
  /\ GetAndPut(1, readBufferSize)
  /\ reader' = "handle"
  /\ UNCHANGED <<isInline, sendVars, handled>>

(* readLoop: what Read returns goes to the end of readCaches, the rest of  *)
(* the buffer back to the pool.                                            *)
Read(n) ==
  /\ reader = "read" /\ n \in 1..readBufferSize /\ n <= Len(stream)
  /\ readCaches' = readCaches \o SubSeq(stream, 1, n)
  /\ stream' = SubSeq(stream, n + 1, Len(stream))
  /\ GetAndPut(1, readBufferSize - n)
  /\ reader' = "handle"
  /\ UNCHANGED <<isInline, sendVars, handled>>

(* A read error, EOF or the read deadline.                                 *)
ReadFails ==
  /\ reader = "read"
  /\ reader' = "done"
  /\ GetAndPut(1, 0)
  /\ UNCHANGED <<isInline, sendVars, stream, readCaches, handled>>

(* onMsg and ParseMsgWarp find in readCaches, past the mux's header, ...   *)
muxHeader == IF isInline THEN 1 ELSE 0

IsInline == isInline /\ readCaches # <<>> /\ readCaches[1] = 1

headerLen == muxHeader + HeaderSizeof

(* ... a whole message of the application.                                 *)
WholeMsg ==
  /\ ~IsInline /\ Len(readCaches) >= headerLen
  /\ Len(readCaches) >= headerLen + readCaches[headerLen]

(* The handler has had a message of n bytes: readLoop gives them back to   *)
(* the pool and goes on with the rest, or ends with the handler's error.   *)
MutHandled(n, inline, first) ==   \* the mux's header is not counted
  /\ handled' = Append(handled, [inline |-> inline, payload |-> SubSeq(readCaches, first, n)])
  /\ \/ /\ reader' = "handle"
        /\ readCaches' = SubSeq(readCaches, n - muxHeader + 1, Len(readCaches))
        /\ GetAndPut(0, n - muxHeader)
     \/ reader' = "done" /\ UNCHANGED <<readCaches, poolVars>>
  /\ UNCHANGED <<isInline, sendVars, stream>>

Handled(n, inline, first) ==
  /\ handled' = Append(handled, [inline |-> inline, payload |-> SubSeq(readCaches, first, n)])
  /\ \/ /\ reader' = "handle"
        /\ readCaches' = SubSeq(readCaches, n + 1, Len(readCaches))
        /\ GetAndPut(0, n)
     \/ reader' = "done" /\ UNCHANGED <<readCaches, poolVars>>
  /\ UNCHANGED <<isInline, sendVars, stream>>

HandleMsg ==
  /\ reader = "handle" /\ WholeMsg
  /\ Handled(headerLen + readCaches[headerLen], FALSE, headerLen + 1)

HandleInline ==
  /\ reader = "handle" /\ IsInline /\ Len(readCaches) >= muxHeader + kcpExchangeSizeof
  /\ Handled(muxHeader + kcpExchangeSizeof, TRUE, muxHeader + 1)

(* onMsg does not ask whether the exchange is all there.  What it reads    *)
(* past the end is not the peer's: an invalid state, an end, or a panic,   *)
(* at the latest when readLoop cuts off more than there is.                *)
CutInline ==
  /\ reader = "handle" /\ IsInline /\ Len(readCaches) < muxHeader + kcpExchangeSizeof
  /\ reader' \in {"done", "panic"}
  /\ UNCHANGED <<isInline, sendVars, stream, readCaches, handled, poolVars>>

KeepCache ==
  /\ reader = "handle" /\ ~IsInline /\ ~WholeMsg
  /\ reader' = "read"
  /\ UNCHANGED <<isInline, sendVars, stream, readCaches, handled, poolVars>>

-----------------------------------------------------------------------------
WriteLoop == WaitMsg \/ \E n \in 1..Len(batch) : Write(n)

HandleLoop == HandleMsg \/ HandleInline \/ CutInline \/ KeepCache

ReadSome == \E n \in 1..Len(stream) : Read(n)

Next ==
  \/ SendMsg \/ sendInline
  \/ WriteLoop \/ WriteFails
  \/ ReadSome \/ ReadFails \/ HandleLoop

Spec == Init /\ [][Next]_vars

(* The loops run, and what has been written arrives.  When nothing more    *)
(* comes after a failed write, the end of the stream or the read deadline  *)
(* ends the read loop.                                                     *)
Fairness ==
  /\ WF_vars(WriteLoop) /\ WF_vars(ReadSome) /\ WF_vars(HandleLoop)
  /\ WF_vars(writer = "done" /\ stream = <<>> /\ ReadFails)

FairSpec == Spec /\ Fairness

-----------------------------------------------------------------------------
TypeOK ==
  /\ isInline \in BOOLEAN
  /\ accepted \in Seq([inline : BOOLEAN, payload : Seq(Nat)])
  /\ handled \in Seq([inline : BOOLEAN, payload : Seq(Nat)])
  /\ writeCh \in Seq(Seq(Nat)) /\ Len(writeCh) <= WriteMax
  /\ batch \in Seq(Nat) /\ stream \in Seq(Nat) /\ readCaches \in Seq(Nat)
  /\ writer \in {"wait", "write", "done"}
  /\ reader \in {"read", "handle", "done", "panic"}
  /\ cache \in 0..(readBufferSize - 1) /\ lent \in Int

(* However the stream is cut and joined, the receiver handles the messages *)
(* that send accepted: whole, in order, once each, and all of them unless  *)
(* one of the loops ends.                                                  *)
Values == [inline : BOOLEAN, payload : {Bytes(n, b) : n \in Sizes \cup {kcpExchangeSizeof}, b \in 1..MaxMsgs}]
Channel == INSTANCE MessageChannel
             WITH sent <- accepted, open <- reader \notin {"done", "panic"}
ChannelSpec == Channel!Spec

(* Every byte of a buffer goes back to the pool once: with the unread rest *)
(* of the buffer or with the message it belongs to.                        *)
PoolBalanced ==
  reader \in {"read", "handle"} => lent * readBufferSize - cache = Len(readCaches)
=============================================================================
