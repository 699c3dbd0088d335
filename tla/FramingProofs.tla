---------------------------- MODULE FramingProofs -----------------------------
(***************************************************************************)
(* Proofs about Framing, for all sizes of headers and buffers: what is     *)
(* under way are bytes, and the read loop and its buffer pool balance.     *)
(***************************************************************************)
EXTENDS Framing, SequenceTheorems, TLAPS

(* Arithmetic of put, which divides the bytes it has into buffers.         *)
LEMMA DivMod ==
  ASSUME NEW a \in Nat, NEW b \in Nat \ {0}
  PROVE  /\ a \div b \in Int /\ a % b \in 0..(b - 1)
         /\ a = (a \div b) * b + (a % b)
  OBVIOUS

LEMMA Distributes ==
  ASSUME NEW x \in Int, NEW y \in Int, NEW z \in Int, NEW b \in Int
  PROVE  (x + y - z) * b = x * b + y * b - z * b
  OBVIOUS

LEMMA CutLength ==
  ASSUME NEW s \in Seq(Nat), NEW n \in 0..Len(s)
  PROVE  /\ SubSeq(s, 1, n) \in Seq(Nat) /\ Len(SubSeq(s, 1, n)) = n
         /\ SubSeq(s, n + 1, Len(s)) \in Seq(Nat)
         /\ Len(SubSeq(s, n + 1, Len(s))) = Len(s) - n
  BY SubSeqProperties

LEMMA CutBytes ==
  ASSUME NEW s \in Seq(Nat), NEW m \in Int, NEW n \in Int, \A i \in m..n : s[i] \in Nat
  PROVE  /\ SubSeq(s, m, n) \in Seq(Nat)
         /\ Len(SubSeq(s, m, n)) = IF m <= n THEN n - m + 1 ELSE 0
         /\ \A i \in 1..(n - m + 1) : SubSeq(s, m, n)[i] = s[m + i - 1]
  BY SubSeqProperties

(* The sizes are positive.                                                 *)
LEMMA Positive ==
  HeaderSizeof \in Nat \ {0} /\ kcpExchangeSizeof \in Nat \ {0}
  /\ readBufferSize \in Nat \ {0} /\ WriteMax \in Nat \ {0} /\ Sizes \subseteq Nat
  BY FramingAssumption

(* get and put keep what the pool has of each buffer in balance.           *)
LEMMA PutBalances ==
  ASSUME TypeOK, NEW n \in {0, 1}, NEW m \in Nat, GetAndPut(n, m)
  PROVE  /\ cache' \in 0..(readBufferSize - 1) /\ lent' \in Int
         /\ lent' * readBufferSize - cache'
              = lent * readBufferSize - cache + (IF n = 1 THEN readBufferSize ELSE 0) - m
<1> DEFINE b == readBufferSize
           q == (cache + m) \div b
<1>1. b \in Nat \ {0} /\ cache \in Nat /\ lent \in Int /\ cache + m \in Nat
  BY Positive DEF TypeOK
<1>2. /\ q \in Int /\ cache' \in 0..(b - 1) /\ cache + m = q * b + cache'
  BY <1>1, DivMod DEF GetAndPut
<1>3. lent' = lent + n - q
  BY DEF GetAndPut
<1>4. lent' * b = lent * b + n * b - q * b
  BY <1>1, <1>2, <1>3, Distributes
<1>5. /\ lent * b \in Int /\ n * b \in Int /\ q * b \in Int /\ lent' * b \in Int /\ lent' \in Int
  BY <1>1, <1>2, <1>3
<1> HIDE DEF q, b
<1>6. \A x, y, w, z, k \in Int :
        z = x + y - w /\ k = w + cache' => z - cache' = x + y - k
  BY <1>1, <1>2
<1>7. lent' * b - cache' = lent * b + n * b - (cache + m)
  <2> DEFINE x == lent * b
             y == n * b
             w == q * b
             z == lent' * b
  <2>1. x \in Int /\ y \in Int /\ w \in Int /\ z \in Int
    BY <1>5
  <2>2. z = x + y - w
    BY <1>4
  <2>3. cache + m = w + cache'
    BY <1>2
  <2>4. cache + m \in Int
    BY <1>1
  <2> HIDE DEF x, y, w, z
  <2>5. z - cache' = x + y - (cache + m)
    BY <2>1, <2>2, <2>3, <2>4, <1>6
  <2> QED
    BY <2>5 DEF x, y, z
<1>8. \A x, y \in Int : x + y - (cache + m) = x - cache + y - m
  BY <1>1
<1>9. lent' * b - cache' = lent * b - cache + (IF n = 1 THEN b ELSE 0) - m
  <2>0. n * b = IF n = 1 THEN b ELSE 0
    BY <1>1
  <2>1. lent * b + n * b - (cache + m) = lent * b - cache + n * b - m
    BY <1>5, <1>8
  <2> QED
    BY <1>7, <2>0, <2>1
<1> QED
  BY <1>2, <1>5, <1>9 DEF b

(* Packed messages are bytes.                                              *)
LEMMA BytesType ==
  ASSUME NEW n \in Nat, NEW b \in Nat
  PROVE  Bytes(n, b) \in Seq(Nat) /\ Len(Bytes(n, b)) = n
  BY DEF Bytes

LEMMA PackMsgType ==
  ASSUME NEW payload \in Seq(Nat)
  PROVE  PackMsg(payload) \in Seq(Nat)
  BY BytesType, Positive, LenProperties, ConcatProperties DEF PackMsg

LEMMA packMsgType ==
  ASSUME NEW inline \in BOOLEAN, NEW msg \in Seq(Nat)
  PROVE  packMsg(inline, msg) \in Seq(Nat)
  BY ConcatProperties DEF packMsg

LEMMA SendTyped ==
  ASSUME TypeOK, NEW inline \in BOOLEAN, NEW payload \in Seq(Nat), NEW msg \in Seq(Nat),
         Send(inline, payload, msg)
  PROVE  TypeOK'
<1> DEFINE m == packMsg(inline, msg)
<1>1. m \in Seq(Nat)
  BY packMsgType
<1> HIDE DEF m
<1>2. writeCh \in Seq(Seq(Nat)) /\ Len(writeCh) < WriteMax
  BY DEF TypeOK, Send
<1>3. Append(writeCh, m) \in Seq(Seq(Nat)) /\ Len(Append(writeCh, m)) = Len(writeCh) + 1
  BY <1>1, <1>2, AppendProperties
<1>4. writeCh' \in Seq(Seq(Nat)) /\ Len(writeCh') <= WriteMax
  BY <1>2, <1>3, Positive, LenProperties DEF Send, m
<1>5. accepted' \in Seq([inline : BOOLEAN, payload : Seq(Nat)])
  BY AppendProperties DEF TypeOK, Send
<1> QED
  BY <1>4, <1>5 DEF TypeOK, Send, poolVars

(* Writing and reading move bytes, Len(readCaches) of them balance.        *)
LEMMA WriteTyped ==
  ASSUME TypeOK, WaitMsg \/ (\E n \in 1..Len(batch) : Write(n)) \/ WriteFails
  PROVE  TypeOK'
<1>1. CASE WaitMsg
  <2>1. writeCh \in Seq(Seq(Nat)) /\ writeCh # <<>> /\ batch \in Seq(Nat)
    BY <1>1 DEF WaitMsg, TypeOK
  <2>2. /\ Head(writeCh) \in Seq(Nat) /\ Tail(writeCh) \in Seq(Seq(Nat))
        /\ Len(Tail(writeCh)) = Len(writeCh) - 1
    BY <2>1, HeadTailProperties
  <2>3. batch \o Head(writeCh) \in Seq(Nat)
    BY <2>1, <2>2, ConcatProperties
  <2>4. Len(writeCh') <= WriteMax
    BY <1>1, <2>1, <2>2, Positive, LenProperties DEF WaitMsg, TypeOK
  <2> QED
    BY <1>1, <2>2, <2>3, <2>4 DEF WaitMsg, TypeOK, poolVars
<1>2. ASSUME NEW n \in 1..Len(batch), Write(n) PROVE TypeOK'
  <2>1. batch \in Seq(Nat) /\ stream \in Seq(Nat) /\ n \in 0..Len(batch)
    BY <1>2 DEF TypeOK
  <2>2. stream \o SubSeq(batch, 1, n) \in Seq(Nat) /\ SubSeq(batch, n + 1, Len(batch)) \in Seq(Nat)
    BY <2>1, CutLength, ConcatProperties
  <2> QED
    BY <1>2, <2>2 DEF Write, TypeOK, poolVars
<1>3. CASE WriteFails
  BY <1>3 DEF WriteFails, TypeOK, poolVars
<1> QED
  BY <1>1, <1>2, <1>3

LEMMA ReadKeeps ==
  ASSUME TypeOK, PoolBalanced, NEW n \in Nat, Read(n)
  PROVE  TypeOK' /\ PoolBalanced'
<1>1. /\ stream \in Seq(Nat) /\ readCaches \in Seq(Nat) /\ reader = "read"
      /\ n \in 0..Len(stream) /\ n <= readBufferSize /\ readBufferSize - n \in Nat
  BY Positive, LenProperties DEF TypeOK, Read
<1>2. /\ readCaches' \in Seq(Nat) /\ stream' \in Seq(Nat)
      /\ Len(readCaches') = Len(readCaches) + n
  BY <1>1, CutLength, ConcatProperties DEF Read
<1>3. cache' \in 0..(readBufferSize - 1) /\ lent' \in Int
  BY <1>1, PutBalances DEF Read
<1>4. TypeOK'
  BY <1>1, <1>2, <1>3 DEF Read, TypeOK, sendVars
<1>5. lent * readBufferSize - cache = Len(readCaches)
  BY <1>1 DEF PoolBalanced
<1>6. lent' * readBufferSize - cache' = Len(readCaches')
  <2>1. Len(readCaches) \in Int /\ Len(readCaches') \in Int
    BY <1>1, <1>2, LenProperties
  <2>2. Len(readCaches') = Len(readCaches) + readBufferSize - (readBufferSize - n)
    BY <1>1, <1>2, <2>1, Positive
  <2>3. GetAndPut(1, readBufferSize - n)
    BY DEF Read
  <2>4. lent' * readBufferSize - cache'
          = lent * readBufferSize - cache + (IF 1 = 1 THEN readBufferSize ELSE 0) - (readBufferSize - n)
    BY <1>1, <2>3, PutBalances
  <2>5. (IF 1 = 1 THEN readBufferSize ELSE 0) = readBufferSize
    OBVIOUS
  <2> QED
    BY <1>5, <2>2, <2>4, <2>5
<1> QED
  BY <1>4, <1>6 DEF PoolBalanced

LEMMA HandledKeeps ==
  ASSUME TypeOK, PoolBalanced, reader = "handle",
         NEW n \in 0..Len(readCaches), NEW inline \in BOOLEAN, NEW first \in Nat \ {0},
         Handled(n, inline, first)
  PROVE  TypeOK' /\ PoolBalanced'
<1>1. readCaches \in Seq(Nat) /\ n \in Nat
  BY LenProperties DEF TypeOK
<1>4. handled' \in Seq([inline : BOOLEAN, payload : Seq(Nat)])
  <2>1. \A i \in first..n : readCaches[i] \in Nat
    BY <1>1, LenProperties
  <2>2. SubSeq(readCaches, first, n) \in Seq(Nat)
    BY <1>1, <2>1, SubSeqProperties
  <2>3. [inline |-> inline, payload |-> SubSeq(readCaches, first, n)]
          \in [inline : BOOLEAN, payload : Seq(Nat)]
    BY <2>2
  <2> QED
    BY <2>3, AppendProperties DEF Handled, TypeOK
<1>2. CASE reader' = "handle" /\ readCaches' = SubSeq(readCaches, n + 1, Len(readCaches)) /\ GetAndPut(0, n)
  <2>1. readCaches' \in Seq(Nat) /\ Len(readCaches') = Len(readCaches) - n
    BY <1>1, <1>2, CutLength
  <2>2. cache' \in 0..(readBufferSize - 1) /\ lent' \in Int
    BY <1>1, <1>2, PutBalances
  <2>3. TypeOK'
    BY <1>2, <1>4, <2>1, <2>2 DEF Handled, TypeOK, sendVars
  <2>4. lent * readBufferSize - cache = Len(readCaches)
    BY DEF PoolBalanced
  <2>5. lent' * readBufferSize - cache' = Len(readCaches')
    <3>1. Len(readCaches) \in Int /\ Len(readCaches') \in Int
      BY <1>1, <2>1, LenProperties
    <3>2. lent' * readBufferSize - cache'
            = lent * readBufferSize - cache + (IF 0 = 1 THEN readBufferSize ELSE 0) - n
      BY <1>1, <1>2, PutBalances
    <3>3. (IF 0 = 1 THEN readBufferSize ELSE 0) = 0
      OBVIOUS
    <3>4. Len(readCaches) + 0 - n = Len(readCaches')
      <4>1. n \in Int /\ Len(readCaches') = Len(readCaches) - n
        BY <1>1, <2>1
      <4> QED
        BY <3>1, <4>1
    <3> QED
      BY <2>4, <3>2, <3>3, <3>4
  <2> QED
    BY <2>3, <2>5 DEF PoolBalanced
<1>3. CASE reader' = "done" /\ UNCHANGED <<readCaches, poolVars>>
  BY <1>3, <1>4 DEF Handled, TypeOK, PoolBalanced, sendVars, poolVars
<1> QED
  BY <1>2, <1>3 DEF Handled

-----------------------------------------------------------------------------
IInv == TypeOK /\ PoolBalanced

LEMMA InitIInv == ASSUME Init PROVE IInv
  BY Positive DEF Init, IInv, TypeOK, PoolBalanced

LEMMA NextIInv == ASSUME IInv, [Next]_vars PROVE IInv'
<1>0. TypeOK /\ PoolBalanced
  BY DEF IInv
<1> SUFFICES TypeOK' /\ PoolBalanced'
  BY DEF IInv
<1>1. CASE SendMsg \/ sendInline
  <2>1. Len(accepted) + 1 \in Nat
    BY <1>0, LenProperties DEF TypeOK
  <2>2. ASSUME SendMsg PROVE TypeOK' /\ PoolBalanced'
    <3>1. PICK n \in Sizes :
            Send(FALSE, Bytes(n, Len(accepted) + 1), PackMsg(Bytes(n, Len(accepted) + 1)))
      BY <2>2 DEF SendMsg
    <3>2. Bytes(n, Len(accepted) + 1) \in Seq(Nat)
      BY <2>1, BytesType, Positive
    <3>3. PackMsg(Bytes(n, Len(accepted) + 1)) \in Seq(Nat)
      BY <3>2, PackMsgType
    <3> QED
      BY <1>0, <3>1, <3>2, <3>3, SendTyped DEF Send, PoolBalanced, poolVars
  <2>3. ASSUME sendInline PROVE TypeOK' /\ PoolBalanced'
    <3>1. Bytes(kcpExchangeSizeof, Len(accepted) + 1) \in Seq(Nat)
      BY <2>1, BytesType, Positive
    <3>2. Send(TRUE, Bytes(kcpExchangeSizeof, Len(accepted) + 1),
               Bytes(kcpExchangeSizeof, Len(accepted) + 1))
      BY <2>3 DEF sendInline
    <3> QED
      BY <1>0, <3>1, <3>2, SendTyped DEF Send, PoolBalanced, poolVars
  <2> QED
    BY <1>1, <2>2, <2>3
<1>2. CASE WriteLoop \/ WriteFails
  <2>1. TypeOK'
    BY <1>0, <1>2, WriteTyped DEF WriteLoop
  <2>2. UNCHANGED <<reader, readCaches, poolVars>>
    BY <1>2 DEF WriteLoop, WaitMsg, Write, WriteFails
  <2> QED
    BY <1>0, <2>1, <2>2 DEF PoolBalanced, poolVars
<1>3. CASE ReadSome
  <2>1. PICK n \in 1..Len(stream) : Read(n)
    BY <1>3 DEF ReadSome
  <2>2. n \in Nat
    BY <2>1
  <2> QED
    BY <1>0, <2>1, <2>2, ReadKeeps
<1>4. CASE ReadFails
  <2>1. cache' \in 0..(readBufferSize - 1) /\ lent' \in Int
    BY <1>0, <1>4, PutBalances DEF ReadFails
  <2> QED
    BY <1>0, <1>4, <2>1 DEF ReadFails, TypeOK, PoolBalanced, sendVars
<1>5. CASE HandleMsg
  <2>1. readCaches \in Seq(Nat) /\ muxHeader \in Nat /\ headerLen \in 1..Len(readCaches)
    BY <1>0, <1>5, Positive, LenProperties DEF HandleMsg, WholeMsg, TypeOK, muxHeader, headerLen
  <2>2. readCaches[headerLen] \in Nat
    BY <2>1, LenProperties
  <2>3. headerLen + readCaches[headerLen] \in 0..Len(readCaches) /\ headerLen + 1 \in Nat \ {0}
    BY <1>5, <2>1, <2>2, LenProperties DEF HandleMsg, WholeMsg
  <2> QED
    BY <1>0, <1>5, <2>3, HandledKeeps DEF HandleMsg
<1>6. CASE HandleInline
  <2>1. muxHeader \in Nat /\ muxHeader + 1 \in Nat \ {0}
    BY DEF muxHeader
  <2>2. muxHeader + kcpExchangeSizeof \in 0..Len(readCaches)
    BY <1>0, <1>6, <2>1, Positive, LenProperties DEF HandleInline, TypeOK
  <2> QED
    BY <1>0, <1>6, <2>1, <2>2, HandledKeeps DEF HandleInline
<1>7. CASE CutInline \/ KeepCache
  BY <1>0, <1>7 DEF CutInline, KeepCache, TypeOK, PoolBalanced, sendVars, poolVars
<1>8. CASE UNCHANGED vars
  BY <1>0, <1>8 DEF vars, TypeOK, PoolBalanced, sendVars, poolVars
<1> QED
  BY <1>1, <1>2, <1>3, <1>4, <1>5, <1>6, <1>7, <1>8 DEF Next, HandleLoop

LEMMA Invariance == Spec => []IInv
<1>1. Init => IInv
  BY InitIInv
<1>2. IInv /\ [Next]_vars => IInv'
  BY NextIInv
<1> QED
  BY <1>1, <1>2, PTL DEF Spec

(* Every reachable state is well typed: in particular a message in the     *)
(* cache, on the way and in writeCh is a sequence of bytes, and the pool's *)
(* own cache never holds a whole buffer.                                   *)
THEOREM TypeCorrect == Spec => []TypeOK
<1>1. IInv => TypeOK
  BY DEF IInv
<1> QED
  BY <1>1, Invariance, PTL

(* Every byte of a buffer goes back to the pool once, for all sizes of     *)
(* headers, buffers and messages and wherever the stream is cut.           *)
THEOREM PoolAlwaysBalanced == Spec => []PoolBalanced
<1>1. IInv => PoolBalanced
  BY DEF IInv
<1> QED
  BY <1>1, Invariance, PTL

-----------------------------------------------------------------------------
(* The order of the messages.  The bytes under way, w, are those of the    *)
(* messages h+1 to k of acc, one after the other: off[j] is where message  *)
(* j ends.                                                                 *)
Messages == [inline : BOOLEAN, payload : Seq(Nat)]

Mux(f, m) == IF f THEN <<IF m.inline THEN 1 ELSE 0>> ELSE <<>>

Body(m) == IF m.inline THEN m.payload ELSE PackMsg(m.payload)

Packed(f, m) == Mux(f, m) \o Body(m)

Divides(off, f, acc, w, h, k) ==
  /\ off[h] = 0 /\ off[k] = Len(w)
  /\ \A i, j \in h..k : i <= j => off[i] <= off[j]
  /\ \A j \in h..(k - 1) : off[j + 1] = off[j] + Len(Packed(f, acc[j + 1]))
  /\ \A j \in h..(k - 1) : \A i \in 1..Len(Packed(f, acc[j + 1])) :
       w[off[j] + i] = Packed(f, acc[j + 1])[i]

Framed(f, acc, w, h, k) == \E off \in [h..k -> Nat] : Divides(off, f, acc, w, h, k)

LEMMA Between ==
  ASSUME NEW a \in Nat, NEW l \in Nat, NEW b \in Nat, a + l <= b
  PROVE  \A i \in 1..l : a + i \in 1..b
  OBVIOUS

LEMMA BetweenBehind ==
  ASSUME NEW a \in Nat, NEW l \in Nat, NEW b \in Nat, NEW n \in Nat, n <= a, a + l <= b,
         NEW c \in Int, c = a - n
  PROVE  \A i \in 1..l : c + i \in 1..(b - n) /\ n + (c + i) = a + i
  OBVIOUS

LEMMA PackedType ==
  ASSUME NEW f \in BOOLEAN, NEW m \in Messages
  PROVE  Packed(f, m) \in Seq(Nat)
<1>1. Mux(f, m) \in Seq(Nat)
  BY DEF Mux
<1>2. m.payload \in Seq(Nat)
  BY DEF Messages
<1>3. Body(m) \in Seq(Nat)
  BY <1>2, PackMsgType DEF Body
<1> QED
  BY <1>1, <1>3, ConcatProperties DEF Packed

LEMMA FramedEmpty ==
  ASSUME NEW f, NEW acc
  PROVE  Framed(f, acc, <<>>, 0, 0)
<1> DEFINE off == [i \in 0..0 |-> 0]
<1>1. off \in [0..0 -> Nat] /\ off[0] = 0 /\ Len(<<>>) = 0
  OBVIOUS
<1>2. Divides(off, f, acc, <<>>, 0, 0)
  BY <1>1 DEF Divides
<1> QED
  BY <1>1, <1>2 DEF Framed

LEMMA FramedNotEmpty ==
  ASSUME NEW f, NEW acc, NEW w, NEW h \in Nat, NEW k \in Nat, h <= k,
         Framed(f, acc, w, h, k), Len(w) # 0
  PROVE  h < k
  BY DEF Framed, Divides

(* A message accepted changes nothing of what is under way.                *)
LEMMA FramedAccept ==
  ASSUME NEW f, NEW acc \in Seq(Messages), NEW w, NEW h \in Nat, NEW k \in Nat, k <= Len(acc),
         NEW m \in Messages, Framed(f, acc, w, h, k)
  PROVE  Framed(f, Append(acc, m), w, h, k)
<1> DEFINE b == Append(acc, m)
<1>1. Len(acc) \in Nat /\ \A j \in 1..Len(acc) : b[j] = acc[j]
  BY AppendProperties, LenProperties
<1>2. \A j \in h..(k - 1) : b[j + 1] = acc[j + 1]
  BY <1>1
<1> HIDE DEF b
<1>3. PICK off \in [h..k -> Nat] : Divides(off, f, acc, w, h, k)
  BY DEF Framed
<1>4. Divides(off, f, b, w, h, k)
  <2>1. /\ off[h] = 0 /\ off[k] = Len(w)
        /\ \A i, j \in h..k : i <= j => off[i] <= off[j]
    BY <1>3 DEF Divides
  <2>2. ASSUME NEW j \in h..(k - 1)
        PROVE  /\ off[j + 1] = off[j] + Len(Packed(f, b[j + 1]))
               /\ \A i \in 1..Len(Packed(f, b[j + 1])) : w[off[j] + i] = Packed(f, b[j + 1])[i]
    <3>1. b[j + 1] = acc[j + 1]
      BY <1>2
    <3>2. /\ off[j + 1] = off[j] + Len(Packed(f, acc[j + 1]))
          /\ \A i \in 1..Len(Packed(f, acc[j + 1])) :
               w[off[j] + i] = Packed(f, acc[j + 1])[i]
      BY <1>3 DEF Divides
    <3> QED
      BY <3>1, <3>2
  <2> QED
    BY <2>1, <2>2 DEF Divides
<1>5. Framed(f, b, w, h, k)
  BY <1>4 DEF Framed
<1> QED
  BY <1>5 DEF b

(* The next message joins the bytes under way at their end.                *)
LEMMA FramedJoin ==
  ASSUME NEW f \in BOOLEAN, NEW acc \in Seq(Messages), NEW w \in Seq(Nat),
         NEW h \in Nat, NEW k \in Nat, h <= k, k + 1 <= Len(acc),
         Framed(f, acc, w, h, k)
  PROVE  Framed(f, acc, w \o Packed(f, acc[k + 1]), h, k + 1)
<1> DEFINE p == Packed(f, acc[k + 1])
           v == w \o p
<1>1. p \in Seq(Nat) /\ Len(p) \in Nat /\ Len(w) \in Nat
  BY PackedType, LenProperties
<1>2. /\ Len(v) = Len(w) + Len(p)
      /\ \A i \in 1..Len(w) : v[i] = w[i]
      /\ \A i \in 1..Len(p) : v[Len(w) + i] = p[i]
  BY <1>1, ConcatProperties
<1>3. PICK off \in [h..k -> Nat] : Divides(off, f, acc, w, h, k)
  BY DEF Framed
<1> DEFINE new == [j \in h..(k + 1) |-> IF j = k + 1 THEN Len(v) ELSE off[j]]
<1>4. /\ new \in [h..(k + 1) -> Nat] /\ new[k + 1] = Len(v)
      /\ \A j \in h..k : new[j] = off[j]
  BY <1>1, <1>2
<1>5. off[h] = 0 /\ off[k] = Len(w) /\ \A j \in h..k : off[j] \in Nat /\ off[j] <= off[k]
  BY <1>3 DEF Divides
<1> HIDE DEF v, new
<1>6. new[h] = 0
  BY <1>4, <1>5
<1>7. \A i, j \in h..(k + 1) : i <= j => new[i] <= new[j]
  <2>1. \A i, j \in h..k : i <= j => new[i] <= new[j]
    BY <1>3, <1>4 DEF Divides
  <2>2. \A i \in h..k : new[i] <= new[k + 1]
    BY <1>1, <1>2, <1>4, <1>5
  <2>3. new[k + 1] <= new[k + 1]
    BY <1>1, <1>2, <1>4
  <2>4. \A i \in h..(k + 1) : i = k + 1 \/ i \in h..k
    OBVIOUS
  <2> QED
    BY <2>1, <2>2, <2>3, <2>4
<1>8. ASSUME NEW j \in h..k
      PROVE  /\ new[j + 1] = new[j] + Len(Packed(f, acc[j + 1]))
             /\ \A i \in 1..Len(Packed(f, acc[j + 1])) :
                  v[new[j] + i] = Packed(f, acc[j + 1])[i]
  <2>1. CASE j = k
    <3>1. new[k] = Len(w) /\ new[k + 1] = Len(w) + Len(p)
      BY <1>2, <1>4, <1>5
    <3> HIDE DEF p
    <3>2. new[k + 1] = new[k] + Len(p) /\ \A i \in 1..Len(p) : v[new[k] + i] = p[i]
      BY <1>2, <3>1
    <3> QED
      BY <2>1, <3>2 DEF p
  <2>2. CASE j # k
    <3>1. j \in h..(k - 1) /\ j + 1 \in h..k
      BY <2>2
    <3> DEFINE q == Packed(f, acc[j + 1])
    <3>2. off[j + 1] = off[j] + Len(q) /\ \A i \in 1..Len(q) : w[off[j] + i] = q[i]
      BY <1>3, <3>1 DEF Divides
    <3>3. acc[j + 1] \in Messages
      <4>1. j + 1 \in 1..Len(acc)
        BY <3>1, LenProperties
      <4> QED
        BY <4>1, LenProperties
    <3>4. q \in Seq(Nat) /\ Len(q) \in Nat
      BY <3>3, PackedType, LenProperties
    <3> HIDE DEF q
    <3>5. new[j + 1] = new[j] + Len(q)
      BY <1>4, <3>1, <3>2
    <3>6. \A i \in 1..Len(q) : off[j] + i \in 1..Len(w)
      <4>1. off[j] \in Nat /\ off[j + 1] <= Len(w)
        BY <1>5, <3>1
      <4>2. off[j] + Len(q) <= Len(w)
        BY <3>2, <4>1
      <4> QED
        BY <1>1, <3>4, <4>1, <4>2, Between
    <3>7. \A i \in 1..Len(q) : v[new[j] + i] = q[i]
      BY <1>2, <1>4, <3>1, <3>2, <3>6
    <3> QED
      BY <3>5, <3>7 DEF q
  <2> QED
    BY <2>1, <2>2
<1>9. Divides(new, f, acc, v, h, k + 1)
  <2>1. h..((k + 1) - 1) = h..k
    OBVIOUS
  <2>2. \A j \in h..k : new[j + 1] = new[j] + Len(Packed(f, acc[j + 1]))
    BY <1>8
  <2>3. \A j \in h..k : \A i \in 1..Len(Packed(f, acc[j + 1])) :
          v[new[j] + i] = Packed(f, acc[j + 1])[i]
    BY <1>8
  <2> QED
    BY <1>4, <1>6, <1>7, <2>1, <2>2, <2>3, Zenon DEF Divides
<1> QED
  BY <1>4, <1>9 DEF Framed, v

(* The first message under way leaves with its bytes.                      *)
LEMMA FramedFirst ==
  ASSUME NEW f \in BOOLEAN, NEW acc \in Seq(Messages), NEW w \in Seq(Nat),
         NEW h \in Nat, NEW k \in Nat, h < k, k <= Len(acc),
         Framed(f, acc, w, h, k)
  PROVE  /\ Len(Packed(f, acc[h + 1])) \in 0..Len(w)
         /\ \A i \in 1..Len(Packed(f, acc[h + 1])) : w[i] = Packed(f, acc[h + 1])[i]
<1> DEFINE q == Packed(f, acc[h + 1])
<1>1. acc[h + 1] \in Messages
  <2>1. h + 1 \in 1..Len(acc)
    BY LenProperties
  <2> QED
    BY <2>1, LenProperties
<1>2. q \in Seq(Nat) /\ Len(q) \in Nat /\ Len(w) \in Nat
  BY <1>1, PackedType, LenProperties
<1>3. PICK off \in [h..k -> Nat] : Divides(off, f, acc, w, h, k)
  BY DEF Framed
<1>4. h \in h..(k - 1) /\ h + 1 \in h..k /\ k \in h..k /\ h + 1 <= k
  OBVIOUS
<1>5. off[h] = 0 /\ off[k] = Len(w) /\ off[h + 1] = off[h] + Len(q) /\ off[h + 1] <= off[k]
  BY <1>3, <1>4 DEF Divides
<1>6. \A i \in 1..Len(q) : w[off[h] + i] = q[i]
  BY <1>3, <1>4 DEF Divides
<1> HIDE DEF q
<1>7. Len(q) \in 0..Len(w) /\ \A i \in 1..Len(q) : w[i] = q[i]
  <2>1. Len(q) \in 0..Len(w)
    BY <1>2, <1>5
  <2>2. ASSUME NEW i \in 1..Len(q) PROVE w[i] = q[i]
    <3>1. off[h] + i = i
      BY <1>2, <1>5
    <3> QED
      BY <1>6, <3>1
  <2> QED
    BY <2>1, <2>2
<1> QED
  BY <1>7 DEF q

LEMMA FramedLeave ==
  ASSUME NEW f \in BOOLEAN, NEW acc \in Seq(Messages), NEW w \in Seq(Nat),
         NEW h \in Nat, NEW k \in Nat, h < k, k <= Len(acc),
         Framed(f, acc, w, h, k)
  PROVE  Framed(f, acc, SubSeq(w, Len(Packed(f, acc[h + 1])) + 1, Len(w)), h + 1, k)
<1> DEFINE n == Len(Packed(f, acc[h + 1]))
           v == SubSeq(w, n + 1, Len(w))
<1>1. n \in 0..Len(w) /\ Len(w) \in Nat
  BY FramedFirst, LenProperties
<1>2. PICK off \in [h..k -> Nat] : Divides(off, f, acc, w, h, k)
  BY DEF Framed
<1>3. h \in h..(k - 1) /\ h + 1 \in h..k /\ k \in h..k
  OBVIOUS
<1>4. off[h] = 0 /\ off[k] = Len(w) /\ off[h + 1] = off[h] + n
  BY <1>2, <1>3 DEF Divides
<1>5. \A i, j \in h..k : i <= j => off[i] <= off[j]
  BY <1>2 DEF Divides
<1> HIDE DEF n
<1>6. /\ Len(v) = Len(w) - n
      /\ \A i \in 1..(Len(w) - n) : v[i] = w[n + i]
  <2>1. \A i \in (n + 1)..Len(w) : w[i] \in Nat
    BY <1>1, LenProperties
  <2>2. \A i \in 1..(Len(w) - (n + 1) + 1) : v[i] = w[n + 1 + i - 1]
    <3>1. n + 1 \in Int /\ Len(w) \in Int
      BY <1>1
    <3> QED
      BY <2>1, <3>1, CutBytes
  <2>3. \A i \in Int : n + 1 + i - 1 = n + i
    BY <1>1
  <2>4. Len(v) = Len(w) - n
    BY <1>1, CutLength
  <2> QED
    BY <1>1, <2>2, <2>3, <2>4
<1>7. off[h + 1] = n
  BY <1>1, <1>4
<1>8. \A j \in (h + 1)..k : off[j] \in Nat /\ off[j] >= n /\ off[j] <= Len(w)
  BY <1>3, <1>4, <1>5, <1>7
<1> DEFINE new == [j \in (h + 1)..k |-> off[j] - n]
<1>9. new \in [(h + 1)..k -> Nat] /\ \A j \in (h + 1)..k : new[j] = off[j] - n
  BY <1>1, <1>8
<1> HIDE DEF v, new
<1>10. new[h + 1] = 0 /\ new[k] = Len(v)
  <2>1. h + 1 \in (h + 1)..k /\ k \in (h + 1)..k
    OBVIOUS
  <2>2. new[h + 1] = n - n /\ new[k] = Len(w) - n
    BY <1>4, <1>7, <1>9, <2>1
  <2> QED
    BY <1>1, <1>6, <2>2
<1>11. \A i, j \in (h + 1)..k : i <= j => new[i] <= new[j]
  BY <1>1, <1>5, <1>8, <1>9
<1>12. ASSUME NEW j \in (h + 1)..(k - 1)
       PROVE  /\ new[j + 1] = new[j] + Len(Packed(f, acc[j + 1]))
              /\ \A i \in 1..Len(Packed(f, acc[j + 1])) :
                   v[new[j] + i] = Packed(f, acc[j + 1])[i]
  <2> DEFINE q == Packed(f, acc[j + 1])
  <2>1. off[j + 1] = off[j] + Len(q) /\ \A i \in 1..Len(q) : w[off[j] + i] = q[i]
    <3>1. j \in h..(k - 1)
      OBVIOUS
    <3> QED
      BY <1>2, <3>1 DEF Divides
  <2>2. acc[j + 1] \in Messages
    <3>1. j + 1 \in 1..Len(acc)
      BY LenProperties
    <3> QED
      BY <3>1, LenProperties
  <2>3. Len(q) \in Nat
    BY <2>2, PackedType, LenProperties
  <2>4. j \in (h + 1)..k /\ j + 1 \in (h + 1)..k
    OBVIOUS
  <2> HIDE DEF q
  <2>5. off[j] \in Nat /\ off[j] >= n /\ off[j + 1] <= Len(w) /\ new[j] = off[j] - n /\ new[j + 1] = off[j + 1] - n
    BY <1>8, <1>9, <2>4
  <2>6. new[j + 1] = new[j] + Len(q)
    BY <1>1, <2>1, <2>3, <2>5
  <2>7. \A i \in 1..Len(q) : new[j] + i \in 1..(Len(w) - n) /\ n + (new[j] + i) = off[j] + i
    <3>1. off[j] \in Nat
      BY <2>5
    <3>2. n \in Nat
      BY <1>1
    <3>3. Len(w) \in Nat
      BY <1>1
    <3>4. n <= off[j]
      BY <2>5, <3>1, <3>2
    <3>5. off[j] + Len(q) <= Len(w)
      BY <2>1, <2>5
    <3>6. new[j] = off[j] - n
      BY <2>5
    <3>7. ASSUME NEW i \in 1..Len(q)
          PROVE  new[j] + i \in 1..(Len(w) - n) /\ n + (new[j] + i) = off[j] + i
      <4>1. i \in Int /\ 1 <= i /\ i <= Len(q)
        BY <2>3
      <4>2. off[j] + i <= Len(w)
        BY <2>3, <3>1, <3>3, <3>5, <4>1
      <4>3. new[j] + i = off[j] + i - n
        BY <3>1, <3>2, <3>6, <4>1
      <4>4. new[j] + i \in Int /\ 1 <= new[j] + i
        BY <3>1, <3>2, <3>4, <3>6, <4>1
      <4>5. new[j] + i <= Len(w) - n
        BY <3>1, <3>2, <3>3, <4>1, <4>2, <4>3
      <4>6. n + (new[j] + i) = off[j] + i
        BY <3>1, <3>2, <4>1, <4>3
      <4> QED
        BY <3>2, <3>3, <4>4, <4>5, <4>6
    <3> QED
      BY <3>7
  <2>8. \A i \in 1..Len(q) : v[new[j] + i] = q[i]
    BY <1>6, <2>1, <2>7
  <2> QED
    BY <2>6, <2>8 DEF q
<1>13. Divides(new, f, acc, v, h + 1, k)
  BY <1>10, <1>11, <1>12 DEF Divides
<1> QED
  BY <1>9, <1>13 DEF Framed, v, n

-----------------------------------------------------------------------------
(* What onMsg finds at the front of the cache is the next message.         *)
LEMMA PackMsgFacts ==
  ASSUME NEW payload \in Seq(Nat)
  PROVE  /\ Len(PackMsg(payload)) = HeaderSizeof + Len(payload)
         /\ PackMsg(payload)[HeaderSizeof] = Len(payload)
         /\ \A i \in 1..Len(payload) : PackMsg(payload)[HeaderSizeof + i] = payload[i]
<1> DEFINE b == Bytes(HeaderSizeof, Len(payload))
<1>1. HeaderSizeof \in Nat \ {0} /\ Len(payload) \in Nat
  BY Positive, LenProperties
<1>2. b \in Seq(Nat) /\ Len(b) = HeaderSizeof
  BY <1>1, BytesType
<1>3. b[HeaderSizeof] = Len(payload)
  BY <1>1 DEF Bytes
<1> HIDE DEF b
<1>4. /\ Len(b \o payload) = HeaderSizeof + Len(payload)
      /\ \A i \in 1..(HeaderSizeof + Len(payload)) :
           (b \o payload)[i] = IF i <= HeaderSizeof THEN b[i] ELSE payload[i - HeaderSizeof]
  BY <1>2, ConcatProperties
<1>5. (b \o payload)[HeaderSizeof] = b[HeaderSizeof]
  BY <1>1, <1>4
<1>6. \A i \in 1..Len(payload) : (b \o payload)[HeaderSizeof + i] = payload[i]
  BY <1>1, <1>4
<1> QED
  BY <1>3, <1>4, <1>5, <1>6 DEF PackMsg, b

LEMMA PackedFacts ==
  ASSUME NEW m \in Messages, NEW f \in BOOLEAN
  PROVE  LET u == IF f THEN 1 ELSE 0
             p == Packed(f, m)
         IN  /\ Len(p) = u + Len(Body(m))
             /\ \A i \in 1..Len(Body(m)) : p[u + i] = Body(m)[i]
             /\ f => p[1] = IF m.inline THEN 1 ELSE 0
<1> DEFINE u == IF f THEN 1 ELSE 0
           x == Mux(f, m)
           b == Body(m)
<1>1. x \in Seq(Nat) /\ Len(x) = u /\ (f => x[1] = IF m.inline THEN 1 ELSE 0)
  BY DEF Mux
<1>2. b \in Seq(Nat)
  BY PackMsgType DEF Messages, Body
<1>3. u \in Nat /\ Len(b) \in Nat /\ (f => u = 1)
  BY <1>2, LenProperties
<1> HIDE DEF u, x, b
<1>4. /\ Len(x \o b) = u + Len(b)
      /\ \A i \in 1..(u + Len(b)) : (x \o b)[i] = IF i <= u THEN x[i] ELSE b[i - u]
  BY <1>1, <1>2, ConcatProperties
<1>5. \A i \in 1..Len(b) : (x \o b)[u + i] = b[i]
  BY <1>3, <1>4
<1>6. f => (x \o b)[1] = x[1]
  BY <1>3, <1>4
<1> QED
  BY <1>1, <1>4, <1>5, <1>6 DEF Packed, u, x, b

-----------------------------------------------------------------------------
(* The messages writeLoop has taken, and the bytes between it and the      *)
(* handler, wherever the stream is cut.                                    *)
Taken == Len(accepted) - Len(writeCh)

Wire == readCaches \o (stream \o batch)

Queued ==
  Taken \in Nat /\ \A i \in 1..Len(writeCh) : writeCh[i] = Packed(isInline, accepted[Taken + i])

Delivered ==
  Len(handled) <= Taken /\ \A j \in 1..Len(handled) : handled[j] = accepted[j]

InlineSize ==
  \A j \in 1..Len(accepted) :
    accepted[j].inline => isInline /\ Len(accepted[j].payload) = kcpExchangeSizeof

InFrames ==
  reader \in {"read", "handle"} => Framed(isInline, accepted, Wire, Len(handled), Taken)

OrderInv == Queued /\ Delivered /\ InlineSize /\ InFrames

LEMMA WireType ==
  ASSUME TypeOK
  PROVE  /\ readCaches \in Seq(Nat) /\ stream \o batch \in Seq(Nat) /\ Wire \in Seq(Nat)
         /\ accepted \in Seq(Messages) /\ handled \in Seq(Messages) /\ isInline \in BOOLEAN
         /\ Len(accepted) \in Nat /\ Len(handled) \in Nat /\ Len(writeCh) \in Nat
<1>1. readCaches \in Seq(Nat) /\ stream \in Seq(Nat) /\ batch \in Seq(Nat)
  BY DEF TypeOK
<1>2. stream \o batch \in Seq(Nat)
  BY <1>1, ConcatProperties
<1>3. Wire \in Seq(Nat)
  BY <1>1, <1>2, ConcatProperties DEF Wire
<1>4. /\ accepted \in Seq(Messages) /\ handled \in Seq(Messages) /\ isInline \in BOOLEAN
      /\ writeCh \in Seq(Seq(Nat))
  BY DEF TypeOK, Messages
<1>5. Len(accepted) \in Nat /\ Len(handled) \in Nat /\ Len(writeCh) \in Nat
  BY <1>4, LenProperties
<1> QED
  BY <1>1, <1>2, <1>3, <1>4, <1>5

LEMMA Rejoined ==
  ASSUME NEW s \in Seq(Nat), NEW n \in 0..Len(s)
  PROVE  SubSeq(s, 1, n) \o SubSeq(s, n + 1, Len(s)) = s
<1>1. Len(s) \in Nat /\ 1 \in 1..(Len(s) + 1) /\ n \in (1 - 1)..Len(s) /\ Len(s) \in n..Len(s)
  BY LenProperties
<1>2. SubSeq(s, 1, n) \o SubSeq(s, n + 1, Len(s)) = SubSeq(s, 1, Len(s))
  BY <1>1, ConcatAdjacentSubSeq
<1> QED
  BY <1>2, SubSeqFull

LEMMA Associative ==
  \A s, t, u \in Seq(Nat) : (s \o t) \o u = s \o (t \o u)
BY ConcatAssociative, SMTT(30)

(* The same with \o kept opaque, for regrouping longer chains.             *)
Cat(s, t) == s \o t

LEMMA CatAssociative ==
  \A s, t, u \in Seq(Nat) : Cat(Cat(s, t), u) = Cat(s, Cat(t, u))
BY Associative DEF Cat

(* Writing and reading move the cuts and leave the bytes.                  *)
LEMMA WriteMoves ==
  ASSUME TypeOK, NEW n \in 1..Len(batch), Write(n)
  PROVE  Wire' = Wire
<1>1. batch \in Seq(Nat) /\ stream \in Seq(Nat) /\ n \in 0..Len(batch)
  BY DEF TypeOK
<1> DEFINE a == SubSeq(batch, 1, n)
           b == SubSeq(batch, n + 1, Len(batch))
<1>2. a \in Seq(Nat) /\ b \in Seq(Nat)
  BY <1>1, CutLength
<1>5. a \o b = batch
  BY <1>1, Rejoined
<1>3. stream' = stream \o a /\ batch' = b /\ readCaches' = readCaches
  BY DEF Write
<1> HIDE DEF a, b
<1>4. (stream \o a) \o b = stream \o (a \o b)
  BY <1>1, <1>2, Associative
<1> QED
  BY <1>3, <1>4, <1>5 DEF Wire

LEMMA ReadMoves ==
  ASSUME TypeOK, NEW n \in 1..Len(stream), Read(n)
  PROVE  Wire' = Wire
<1>1. batch \in Seq(Nat) /\ stream \in Seq(Nat) /\ readCaches \in Seq(Nat) /\ n \in 0..Len(stream)
  BY DEF TypeOK
<1> DEFINE a == SubSeq(stream, 1, n)
           b == SubSeq(stream, n + 1, Len(stream))
<1>2. a \in Seq(Nat) /\ b \in Seq(Nat)
  BY <1>1, CutLength
<1>7. a \o b = stream
  BY <1>1, Rejoined
<1>3. stream' = b /\ batch' = batch /\ readCaches' = readCaches \o a
  BY DEF Read, sendVars
<1> HIDE DEF a, b
<1>4. b \o batch \in Seq(Nat)
  BY <1>1, <1>2, ConcatProperties
<1>5. (readCaches \o a) \o (b \o batch) = readCaches \o (a \o (b \o batch))
  <2> DEFINE y == b \o batch
  <2>1. y \in Seq(Nat)
    BY <1>4
  <2> HIDE DEF y
  <2>2. Cat(Cat(readCaches, a), y) = Cat(readCaches, Cat(a, y))
    BY <1>1, <1>2, <2>1, CatAssociative
  <2> QED
    BY <2>2 DEF Cat, y
<1>6. a \o (b \o batch) = (a \o b) \o batch
  <2>1. Cat(a, Cat(b, batch)) = Cat(Cat(a, b), batch)
    BY <1>1, <1>2, CatAssociative
  <2> QED
    BY <2>1 DEF Cat
<1> QED
  BY <1>3, <1>5, <1>6, <1>7, Zenon DEF Wire

LEMMA SameWire ==
  ASSUME OrderInv, UNCHANGED <<isInline, accepted, writeCh, handled>>,
         reader' \in {"read", "handle"} => reader \in {"read", "handle"} /\ Wire' = Wire
  PROVE  OrderInv'
<1>1. Taken' = Taken
  BY DEF Taken
<1>2. Queued' /\ Delivered' /\ InlineSize'
  BY <1>1 DEF OrderInv, Queued, Delivered, InlineSize
<1>3. InFrames'
  BY <1>1 DEF OrderInv, InFrames
<1> QED
  BY <1>2, <1>3 DEF OrderInv

(* send: the message goes to the end of both sequences.                    *)
LEMMA packMsgIsPacked ==
  ASSUME NEW m \in Messages
  PROVE  packMsg(m.inline, Body(m)) = Packed(isInline, m)
<1>1. Body(m) \in Seq(Nat)
  BY PackMsgType DEF Body, Messages
<1>2. <<>> \o Body(m) = Body(m)
  BY <1>1, ConcatEmptySeq
<1> QED
  BY <1>2 DEF packMsg, Packed, Mux

LEMMA SendQueues ==
  ASSUME TypeOK, OrderInv, NEW m \in Messages,
         m.inline => isInline /\ Len(m.payload) = kcpExchangeSizeof,
         Send(m.inline, m.payload, Body(m))
  PROVE  OrderInv' /\ accepted' = Append(accepted, m)
<1>1. /\ accepted \in Seq(Messages) /\ Len(accepted) \in Nat /\ Len(writeCh) \in Nat
      /\ Len(handled) \in Nat /\ isInline \in BOOLEAN
  BY WireType
<1>2. m = [inline |-> m.inline, payload |-> m.payload]
  BY DEF Messages
<1>3. accepted' = Append(accepted, m)
  BY <1>2 DEF Send
<1>4. /\ Len(accepted') = Len(accepted) + 1 /\ accepted'[Len(accepted) + 1] = m
      /\ \A j \in 1..Len(accepted) : accepted'[j] = accepted[j]
  BY <1>1, <1>3, AppendProperties
<1> DEFINE p == Packed(isInline, m)
<1>5. p \in Seq(Nat) /\ writeCh \in Seq(Seq(Nat)) /\ writeCh' = Append(writeCh, p)
  BY <1>1, PackedType, packMsgIsPacked DEF Send, TypeOK
<1> HIDE DEF p
<1>6. /\ Len(writeCh') = Len(writeCh) + 1 /\ writeCh'[Len(writeCh) + 1] = p
      /\ \A i \in 1..Len(writeCh) : writeCh'[i] = writeCh[i]
  BY <1>5, AppendProperties
<1>7. Taken' = Taken /\ Taken \in Nat /\ Taken + Len(writeCh) = Len(accepted) /\ Taken <= Len(accepted)
  BY <1>1, <1>4, <1>6 DEF Taken, OrderInv, Queued
<1>8. UNCHANGED <<isInline, handled, reader, Wire>>
  BY DEF Send, Wire
<1>9. Queued'
  <2>1. ASSUME NEW i \in 1..(Len(writeCh) + 1)
        PROVE  writeCh'[i] = Packed(isInline, accepted'[Taken + i])
    <3>1. CASE i = Len(writeCh) + 1
      <4>1. Taken + i = Len(accepted) + 1
        BY <1>1, <1>7, <3>1
      <4> QED
        BY <1>4, <1>6, <3>1, <4>1 DEF p
    <3>2. CASE i # Len(writeCh) + 1
      <4>1. i \in 1..Len(writeCh) /\ Taken + i \in 1..Len(accepted)
        BY <1>1, <1>7, <3>2
      <4> QED
        BY <1>4, <1>6, <4>1 DEF OrderInv, Queued
    <3> QED
      BY <3>1, <3>2
  <2> QED
    BY <1>6, <1>7, <1>8, <2>1 DEF Queued
<1>10. Delivered'
  <2>1. \A j \in 1..Len(handled) : j \in 1..Len(accepted)
    BY <1>1, <1>7 DEF OrderInv, Delivered
  <2> QED
    BY <1>4, <1>7, <1>8, <2>1 DEF OrderInv, Delivered
<1>11. InlineSize'
  <2>1. \A j \in 1..(Len(accepted) + 1) : j = Len(accepted) + 1 \/ j \in 1..Len(accepted)
    BY <1>1
  <2> QED
    BY <1>4, <1>8, <2>1 DEF OrderInv, InlineSize
<1>12. InFrames'
  <2>1. ASSUME Framed(isInline, accepted, Wire, Len(handled), Taken)
        PROVE  Framed(isInline, accepted', Wire, Len(handled), Taken)
    BY <1>1, <1>3, <1>7, <2>1, FramedAccept
  <2> QED
    BY <1>7, <1>8, <2>1 DEF OrderInv, InFrames
<1> QED
  BY <1>3, <1>9, <1>10, <1>11, <1>12 DEF OrderInv

(* waitMsg: the message goes from the channel to the bytes.                *)
LEMMA WaitJoins ==
  ASSUME TypeOK, OrderInv, WaitMsg
  PROVE  OrderInv'
<1>1. /\ accepted \in Seq(Messages) /\ Len(accepted) \in Nat /\ Len(writeCh) \in Nat
      /\ Len(handled) \in Nat /\ isInline \in BOOLEAN /\ Wire \in Seq(Nat)
  BY WireType
<1>2. writeCh \in Seq(Seq(Nat)) /\ writeCh # <<>> /\ writeCh' = Tail(writeCh)
  BY DEF WaitMsg, TypeOK
<1>3. /\ Head(writeCh) \in Seq(Nat) /\ Len(writeCh') = Len(writeCh) - 1 /\ Len(writeCh) >= 1
      /\ \A i \in 1..Len(writeCh') : writeCh'[i] = writeCh[i + 1]
      /\ Head(writeCh) = writeCh[1]
  BY <1>1, <1>2, HeadTailProperties, EmptySeq
<1>4. Taken \in Nat /\ Len(handled) <= Taken /\ Taken + Len(writeCh) = Len(accepted)
  BY <1>1 DEF Taken, OrderInv, Queued, Delivered
<1>5. UNCHANGED <<isInline, accepted, handled, reader, readCaches, stream>>
  BY DEF WaitMsg
<1>6. Taken' = Taken + 1 /\ Taken + 1 <= Len(accepted) /\ Taken + 1 \in Nat
  BY <1>1, <1>3, <1>4, <1>5 DEF Taken
<1>7. Head(writeCh) = Packed(isInline, accepted[Taken + 1])
  <2>1. 1 \in 1..Len(writeCh)
    BY <1>1, <1>3
  <2> QED
    BY <1>3, <2>1 DEF OrderInv, Queued
<1>8. Wire' = Wire \o Head(writeCh)
  <2>1. batch \in Seq(Nat) /\ stream \in Seq(Nat) /\ readCaches \in Seq(Nat) /\ stream \o batch \in Seq(Nat)
    BY WireType DEF TypeOK
  <2> DEFINE x == Head(writeCh)
  <2>2. x \in Seq(Nat) /\ batch' = batch \o x
    BY <1>3 DEF WaitMsg
  <2> HIDE DEF x
  <2>3. stream \o (batch \o x) = (stream \o batch) \o x
    <3>1. Cat(stream, Cat(batch, x)) = Cat(Cat(stream, batch), x)
      BY <2>1, <2>2, CatAssociative
    <3> QED
      BY <3>1 DEF Cat
  <2>4. readCaches \o ((stream \o batch) \o x) = (readCaches \o (stream \o batch)) \o x
    <3> DEFINE y == stream \o batch
    <3>1. y \in Seq(Nat)
      BY <2>1
    <3> HIDE DEF y
    <3>2. Cat(readCaches, Cat(y, x)) = Cat(Cat(readCaches, y), x)
      BY <2>1, <2>2, <3>1, CatAssociative
    <3> QED
      BY <3>2 DEF Cat, y
  <2>5. Wire' = Wire \o x
    BY <1>5, <2>2, <2>3, <2>4 DEF Wire
  <2> QED
    BY <2>5 DEF x
<1>9. Queued'
  <2>1. ASSUME NEW i \in 1..Len(writeCh')
        PROVE  writeCh'[i] = Packed(isInline, accepted[Taken + 1 + i])
    <3>1. i + 1 \in 1..Len(writeCh) /\ Taken + (i + 1) = Taken + 1 + i
      <4>1. Len(writeCh) \in Nat
        BY <1>1
      <4>2. i \in 1..(Len(writeCh) - 1)
        BY <1>3
      <4>3. Taken \in Nat
        BY <1>4
      <4> QED
        BY <4>1, <4>2, <4>3
    <3>2. writeCh[i + 1] = Packed(isInline, accepted[Taken + (i + 1)])
      BY <3>1 DEF OrderInv, Queued
    <3> QED
      BY <1>3, <3>1, <3>2
  <2> QED
    BY <1>5, <1>6, <2>1 DEF Queued
<1>10. Delivered' /\ InlineSize'
  BY <1>1, <1>4, <1>5, <1>6 DEF OrderInv, Delivered, InlineSize
<1>11. InFrames'
  <2>1. ASSUME Framed(isInline, accepted, Wire, Len(handled), Taken)
        PROVE  Framed(isInline, accepted, Wire', Len(handled), Taken + 1)
    BY <1>1, <1>4, <1>6, <1>7, <1>8, <2>1, FramedJoin
  <2> QED
    BY <1>5, <1>6, <2>1 DEF OrderInv, InFrames
<1> QED
  BY <1>9, <1>10, <1>11 DEF OrderInv

(* The front of the cache is the front of the bytes.                       *)
LEMMA FrontOfWire ==
  ASSUME NEW r \in Seq(Nat), NEW t \in Seq(Nat)
  PROVE  \A i \in 1..Len(r) : (r \o t)[i] = r[i]
<1>1. Len(r) \in Nat /\ Len(t) \in Nat
  BY LenProperties
<1> QED
  BY <1>1, ConcatProperties

LEMMA CutFirst ==
  ASSUME NEW s \in Seq(Nat), NEW n \in 0..Len(s)
  PROVE  \A i \in 1..n : SubSeq(s, 1, n)[i] = s[i]
<1>1. \A i \in 1..n : s[i] \in Nat
  BY LenProperties
<1>2. n \in Int
  BY LenProperties
<1>3. \A i \in 1..(n - 1 + 1) : SubSeq(s, 1, n)[i] = s[1 + i - 1]
  BY <1>1, <1>2, SubSeqProperties
<1>4. \A i \in 1..n : i \in 1..(n - 1 + 1) /\ 1 + i - 1 = i
  BY <1>2
<1> QED
  BY <1>3, <1>4

LEMMA Cancel ==
  \A s, t, u \in Seq(Nat) : s \o t = s \o u => t = u
BY ConcatSimplifications

LEMMA CutFront ==
  ASSUME NEW r \in Seq(Nat), NEW t \in Seq(Nat), NEW n \in 0..Len(r)
  PROVE  SubSeq(r, n + 1, Len(r)) \o t = SubSeq(r \o t, n + 1, Len(r \o t))
<1> DEFINE w == r \o t
           a == SubSeq(r, 1, n)
           b == SubSeq(r, n + 1, Len(r))
           c == SubSeq(w, 1, n)
           d == SubSeq(w, n + 1, Len(w))
<1>1. w \in Seq(Nat) /\ Len(w) = Len(r) + Len(t) /\ Len(r) \in Nat /\ Len(t) \in Nat
  BY ConcatProperties, LenProperties
<1>2. n \in 0..Len(w)
  BY <1>1
<1>3. \A i \in 1..n : w[i] = r[i]
  BY <1>1, FrontOfWire
<1> HIDE DEF w
<1>4. /\ a \in Seq(Nat) /\ b \in Seq(Nat) /\ a \o b = r /\ Len(a) = n
      /\ \A i \in 1..n : a[i] = r[i]
  BY CutFirst, CutLength, Rejoined
<1>5. /\ c \in Seq(Nat) /\ d \in Seq(Nat) /\ c \o d = w /\ Len(c) = n
      /\ \A i \in 1..n : c[i] = w[i]
  BY <1>1, <1>2, CutFirst, CutLength, Rejoined
<1> HIDE DEF a, b, c, d
<1>6. \A i \in 1..Len(a) : a[i] = c[i]
  BY <1>3, <1>4, <1>5
<1>7. Len(a) = Len(c)
  BY <1>4, <1>5
<1>8. a = c
  BY <1>4, <1>5, <1>6, <1>7, SeqEqual
<1>9. a \o (b \o t) = a \o d
  <2>0. a \in Seq(Nat) /\ b \in Seq(Nat)
    BY <1>4
  <2>1. (a \o b) \o t = a \o (b \o t)
    <3>1. Cat(Cat(a, b), t) = Cat(a, Cat(b, t))
      BY <2>0, CatAssociative
    <3> QED
      BY <3>1 DEF Cat
  <2>2. r \o t = w
    BY DEF w
  <2> QED
    BY <1>4, <1>5, <1>8, <2>1, <2>2
<1>10. b \o t \in Seq(Nat)
  BY <1>4, ConcatProperties
<1>11. b \o t = d
  BY <1>4, <1>5, <1>9, <1>10, Cancel
<1> QED
  BY <1>11 DEF b, d, w

LEMMA PayloadAtFront ==
  ASSUME NEW r \in Seq(Nat), NEW p \in Seq(Nat), NEW q \in Seq(Nat), NEW a \in Nat,
         Len(p) = a + Len(q), Len(p) <= Len(r),
         \A i \in 1..Len(p) : r[i] = p[i],
         \A i \in 1..Len(q) : p[a + i] = q[i]
  PROVE  SubSeq(r, a + 1, a + Len(q)) = q
<1> DEFINE lo == a + 1
           hi == a + Len(q)
           s == SubSeq(r, lo, hi)
<1>1. Len(q) \in Nat /\ Len(p) \in Nat /\ Len(r) \in Nat
  BY LenProperties
<1>2. lo \in Int /\ hi \in Int /\ lo \in 1..(Len(r) + 1) /\ hi <= Len(r)
  BY <1>1
<1>3. \A i \in 1..Len(q) : i \in 1..(hi - lo + 1) /\ lo + i - 1 = a + i /\ a + i \in 1..Len(p)
  BY <1>1
<1>4. (IF lo <= hi THEN hi - lo + 1 ELSE 0) = Len(q)
  BY <1>1
<1> HIDE DEF lo, hi
<1>5. \A i \in lo..hi : r[i] \in Nat
  BY <1>1, <1>2, LenProperties
<1>6. /\ s \in Seq(Nat) /\ Len(s) = Len(q)
      /\ \A i \in 1..(hi - lo + 1) : s[i] = r[lo + i - 1]
  <2>1. lo \in Int /\ hi \in Int
    BY <1>2
  <2>2. /\ s \in Seq(Nat) /\ Len(s) = IF lo <= hi THEN hi - lo + 1 ELSE 0
        /\ \A i \in 1..(hi - lo + 1) : s[i] = r[lo + i - 1]
    BY <1>5, <2>1, CutBytes
  <2> QED
    BY <1>4, <2>2
<1> HIDE DEF s
<1>7. ASSUME NEW i \in 1..Len(q) PROVE s[i] = q[i]
  <2>1. s[i] = r[a + i]
    BY <1>3, <1>6
  <2>2. r[a + i] = p[a + i]
    BY <1>3
  <2> QED
    BY <2>1, <2>2
<1>8. s = q
  BY <1>6, <1>7, SeqEqual
<1> QED
  BY <1>8 DEF s, lo, hi

(* With bytes in the cache there is a next message, and as much of it as   *)
(* the cache holds is at its front.                                        *)
LEMMA NextMessage ==
  ASSUME TypeOK, OrderInv, reader = "handle", Len(readCaches) # 0
  PROVE  LET m == accepted[Len(handled) + 1]
             p == Packed(isInline, m)
         IN  /\ Len(handled) < Taken /\ Taken \in Nat /\ Taken <= Len(accepted)
             /\ m \in Messages /\ p \in Seq(Nat)
             /\ m.inline => isInline /\ Len(m.payload) = kcpExchangeSizeof
             /\ \A i \in 1..Len(p) : i <= Len(readCaches) => readCaches[i] = p[i]
<1> DEFINE h == Len(handled)
           m == accepted[h + 1]
           p == Packed(isInline, m)
           rest == stream \o batch
<1>1. /\ readCaches \in Seq(Nat) /\ rest \in Seq(Nat) /\ Wire = readCaches \o rest
      /\ accepted \in Seq(Messages) /\ isInline \in BOOLEAN
  BY WireType DEF Wire
<1>2. h \in Nat /\ Len(accepted) \in Nat /\ Len(writeCh) \in Nat /\ Len(readCaches) \in Nat
  BY <1>1, WireType, LenProperties
<1> HIDE DEF rest
<1>3. Taken \in Nat /\ Taken <= Len(accepted) /\ h <= Taken
  BY <1>2 DEF OrderInv, Queued, Delivered, Taken
<1>4. Framed(isInline, accepted, Wire, h, Taken)
  BY DEF OrderInv, InFrames
<1>5. Len(Wire) # 0 /\ Len(Wire) \in Nat /\ Wire \in Seq(Nat)
  <2>1. Len(Wire) = Len(readCaches) + Len(rest) /\ Len(rest) \in Nat
    BY <1>1, ConcatProperties, LenProperties
  <2> QED
    BY <1>2, <2>1, WireType
<1>6. h < Taken
  BY <1>2, <1>3, <1>4, <1>5, FramedNotEmpty
<1>7. h + 1 \in 1..Len(accepted)
  BY <1>2, <1>3, <1>6
<1>8. m \in Messages
  BY <1>1, <1>7, LenProperties
<1>9. p \in Seq(Nat)
  BY <1>1, <1>8, PackedType
<1>10. m.inline => isInline /\ Len(m.payload) = kcpExchangeSizeof
  BY <1>7 DEF OrderInv, InlineSize
<1>11. \A i \in 1..Len(p) : Wire[i] = p[i]
  <2> HIDE DEF h
  <2>1. isInline \in BOOLEAN /\ accepted \in Seq(Messages)
    BY <1>1
  <2>2. h \in Nat /\ Taken \in Nat /\ h < Taken /\ Taken <= Len(accepted)
    BY <1>2, <1>3, <1>6
  <2> QED
    BY <1>4, <1>5, <2>1, <2>2, FramedFirst
<1>12. \A i \in 1..Len(readCaches) : Wire[i] = readCaches[i]
  BY <1>1, FrontOfWire
<1>13. Len(p) \in Nat
  BY <1>9, LenProperties
<1> HIDE DEF m, p, h
<1>14. \A i \in 1..Len(p) : i <= Len(readCaches) => readCaches[i] = p[i]
  BY <1>2, <1>11, <1>12, <1>13
<1> QED
  BY <1>3, <1>6, <1>8, <1>9, <1>10, <1>14 DEF m, p, h

(* What Handled gives to the handler is that message.                      *)
LEMMA MsgIsNext ==
  ASSUME TypeOK, OrderInv, reader = "handle", WholeMsg
  PROVE  LET m == accepted[Len(handled) + 1]
             n == headerLen + readCaches[headerLen]
         IN  /\ Len(readCaches) # 0 /\ n = Len(Packed(isInline, m)) /\ n \in 0..Len(readCaches)
             /\ m = [inline |-> FALSE, payload |-> SubSeq(readCaches, headerLen + 1, n)]
<1> DEFINE m == accepted[Len(handled) + 1]
           p == Packed(isInline, m)
           u == IF isInline THEN 1 ELSE 0
           b == PackMsg(m.payload)
           q == m.payload
<1>1. u \in Nat /\ headerLen = u + HeaderSizeof /\ headerLen \in Nat /\ headerLen >= 1
  BY Positive DEF headerLen, muxHeader
<1>2. readCaches \in Seq(Nat) /\ Len(readCaches) \in Nat /\ Len(readCaches) >= headerLen
  BY LenProperties DEF TypeOK, WholeMsg
<1>3. Len(readCaches) # 0 /\ 1 \in 1..Len(readCaches)
  BY <1>1, <1>2
<1>4. /\ m \in Messages /\ p \in Seq(Nat) /\ (m.inline => isInline)
      /\ \A i \in 1..Len(p) : i <= Len(readCaches) => readCaches[i] = p[i]
  BY <1>3, NextMessage
<1>5. isInline \in BOOLEAN /\ q \in Seq(Nat) /\ m.inline \in BOOLEAN
  BY <1>4 DEF TypeOK, Messages
<1>6. Len(p) \in Nat /\ Len(q) \in Nat /\ Len(Body(m)) \in Nat
  BY <1>4, <1>5, PackMsgType, LenProperties DEF Body
<1>7. /\ Len(p) = u + Len(Body(m)) /\ \A i \in 1..Len(Body(m)) : p[u + i] = Body(m)[i]
      /\ isInline => p[1] = IF m.inline THEN 1 ELSE 0
  BY <1>4, <1>5, PackedFacts
<1>8. ~m.inline
  <2>1. ASSUME m.inline PROVE FALSE
    <3>1. isInline /\ Body(m) = m.payload
      BY <1>4, <2>1 DEF Body
    <3> HIDE DEF m, p
    <3>2. Len(p) >= 1 /\ p[1] = 1
      <4>1. u = 1
        BY <3>1
      <4>2. Len(p) >= 1
        BY <1>6, <1>7, <4>1
      <4> QED
        BY <1>7, <2>1, <3>1, <4>2
    <3>3. readCaches[1] = 1
      BY <1>3, <1>4, <1>6, <3>2
    <3>4. readCaches # <<>>
      BY <1>3
    <3> QED
      BY <3>1, <3>3, <3>4 DEF WholeMsg, IsInline
  <2> QED
    BY <2>1
<1>9. Body(m) = b
  BY <1>8 DEF Body
<1>10. /\ Len(b) = HeaderSizeof + Len(q) /\ b[HeaderSizeof] = Len(q)
       /\ \A i \in 1..Len(q) : b[HeaderSizeof + i] = q[i]
  BY <1>5, PackMsgFacts
<1>11. /\ Len(p) = u + Len(b) /\ \A i \in 1..Len(b) : p[u + i] = b[i]
  BY <1>7, <1>9
<1>12. m = [inline |-> FALSE, payload |-> q]
  BY <1>4, <1>8 DEF Messages
<1> HIDE DEF m, p, u, b, q
<1>13. Len(p) = headerLen + Len(q)
  BY <1>1, <1>6, <1>10, <1>11, Positive
<1>14. readCaches[headerLen] = Len(q)
  <2>1. HeaderSizeof \in 1..Len(b) /\ headerLen \in 1..Len(p)
    BY <1>1, <1>6, <1>10, <1>13, Positive
  <2>2. p[headerLen] = b[HeaderSizeof]
    BY <1>1, <1>11, <2>1
  <2> QED
    BY <1>2, <1>4, <1>10, <2>1, <2>2
<1>15. Len(p) <= Len(readCaches)
  BY <1>13, <1>14 DEF WholeMsg
<1>16. \A i \in 1..Len(q) : p[headerLen + i] = q[i]
  <2>1. ASSUME NEW i \in 1..Len(q) PROVE p[headerLen + i] = q[i]
    <3>1. HeaderSizeof + i \in 1..Len(b) /\ headerLen + i = u + (HeaderSizeof + i)
      BY <1>1, <1>6, <1>10, Positive
    <3> QED
      BY <1>10, <1>11, <3>1
  <2> QED
    BY <2>1
<1>17. \A i \in 1..Len(p) : readCaches[i] = p[i]
  BY <1>2, <1>4, <1>6, <1>15
<1>18. q \in Seq(Nat)
  BY <1>5
<1>19. SubSeq(readCaches, headerLen + 1, headerLen + Len(q)) = q
  BY <1>1, <1>2, <1>4, <1>13, <1>15, <1>16, <1>17, <1>18, PayloadAtFront
<1>20. Len(p) \in 0..Len(readCaches)
  BY <1>2, <1>6, <1>15
<1> QED
  BY <1>3, <1>12, <1>13, <1>14, <1>19, <1>20 DEF m, p

LEMMA InlineIsNext ==
  ASSUME TypeOK, OrderInv, reader = "handle", IsInline, Len(readCaches) >= muxHeader + kcpExchangeSizeof
  PROVE  LET m == accepted[Len(handled) + 1]
             n == muxHeader + kcpExchangeSizeof
         IN  /\ Len(readCaches) # 0 /\ n = Len(Packed(isInline, m)) /\ n \in 0..Len(readCaches)
             /\ m = [inline |-> TRUE, payload |-> SubSeq(readCaches, muxHeader + 1, n)]
<1> DEFINE m == accepted[Len(handled) + 1]
           p == Packed(isInline, m)
           q == m.payload
<1>1. isInline /\ muxHeader = 1 /\ readCaches[1] = 1
  BY DEF IsInline, muxHeader
<1>2. readCaches \in Seq(Nat) /\ Len(readCaches) \in Nat
  BY LenProperties DEF TypeOK
<1>3. Len(readCaches) # 0 /\ 1 \in 1..Len(readCaches)
  BY <1>1, <1>2, Positive
<1>4. /\ m \in Messages /\ p \in Seq(Nat) /\ (m.inline => Len(q) = kcpExchangeSizeof)
      /\ \A i \in 1..Len(p) : i <= Len(readCaches) => readCaches[i] = p[i]
  BY <1>3, NextMessage
<1>5. q \in Seq(Nat) /\ m.inline \in BOOLEAN /\ isInline \in BOOLEAN
  BY <1>4 DEF TypeOK, Messages
<1>6. Len(p) \in Nat /\ Len(q) \in Nat
  BY <1>4, <1>5, LenProperties
<1>7. /\ Len(p) = 1 + Len(Body(m)) /\ \A i \in 1..Len(Body(m)) : p[1 + i] = Body(m)[i]
      /\ p[1] = IF m.inline THEN 1 ELSE 0
  BY <1>1, <1>4, <1>5, PackedFacts
<1>8. m.inline
  <2>1. Body(m) \in Seq(Nat)
    BY <1>5, PackMsgType DEF Body
  <2>2. Len(Body(m)) \in Nat
    BY <2>1, LenProperties
  <2>3. 1 \in 1..Len(p)
    BY <1>7, <2>2
  <2> HIDE DEF m, p
  <2>4. p[1] = 1
    BY <1>1, <1>2, <1>3, <1>4, <2>3
  <2> QED
    BY <1>7, <2>4
<1>9. Body(m) = q /\ Len(q) = kcpExchangeSizeof
  BY <1>4, <1>8 DEF Body
<1>10. m = [inline |-> TRUE, payload |-> q]
  BY <1>4, <1>8 DEF Messages
<1>11. Len(p) = 1 + Len(q) /\ \A i \in 1..Len(q) : p[1 + i] = q[i]
  BY <1>7, <1>9
<1> HIDE DEF m, p, q
<1>12. Len(p) <= Len(readCaches)
  BY <1>1, <1>9, <1>11
<1>13. \A i \in 1..Len(p) : readCaches[i] = p[i]
  BY <1>2, <1>4, <1>6, <1>12
<1>14. SubSeq(readCaches, 1 + 1, 1 + Len(q)) = q
  <2>1. 1 \in Nat
    OBVIOUS
  <2> QED
    BY <1>2, <1>4, <1>5, <1>11, <1>12, <1>13, <2>1, PayloadAtFront
<1>15. Len(p) \in 0..Len(readCaches)
  BY <1>2, <1>6, <1>12
<1> QED
  BY <1>1, <1>3, <1>9, <1>10, <1>11, <1>14, <1>15 DEF m, p

LEMMA HandledDelivers ==
  ASSUME TypeOK, OrderInv, reader = "handle", Len(readCaches) # 0,
         NEW n \in 0..Len(readCaches), NEW inline \in BOOLEAN, NEW first \in Nat,
         n = Len(Packed(isInline, accepted[Len(handled) + 1])),
         accepted[Len(handled) + 1]
           = [inline |-> inline, payload |-> SubSeq(readCaches, first, n)],
         Handled(n, inline, first)
  PROVE  /\ OrderInv' /\ Len(handled) < Len(accepted)
         /\ handled' = Append(handled, accepted[Len(handled) + 1])
<1> DEFINE h == Len(handled)
           m == accepted[h + 1]
           rest == stream \o batch
<1>1. h < Taken /\ Taken \in Nat /\ Taken <= Len(accepted) /\ m \in Messages
  BY NextMessage
<1>2. /\ handled \in Seq(Messages) /\ accepted \in Seq(Messages) /\ isInline \in BOOLEAN
      /\ h \in Nat /\ Len(accepted) \in Nat
      /\ readCaches \in Seq(Nat) /\ rest \in Seq(Nat) /\ Wire \in Seq(Nat)
      /\ Wire = readCaches \o rest
  BY WireType DEF Wire
<1>3. handled' = Append(handled, m)
  BY DEF Handled
<1>4. UNCHANGED <<isInline, accepted, writeCh, rest>>
  BY DEF Handled, sendVars
<1>5. Taken' = Taken
  BY <1>4 DEF Taken
<1> HIDE DEF m
<1>6. /\ Len(handled') = h + 1 /\ handled'[h + 1] = m
      /\ \A j \in 1..h : handled'[j] = handled[j]
  BY <1>1, <1>2, <1>3, AppendProperties
<1>7. Delivered'
  <2>1. \A j \in 1..(h + 1) : j = h + 1 \/ j \in 1..h
    <3>1. h \in Nat
      BY <1>2
    <3> HIDE DEF h
    <3> QED
      BY <3>1
  <2>2. \A j \in 1..(h + 1) : handled'[j] = accepted[j]
    BY <1>6, <2>1 DEF OrderInv, Delivered, m
  <2>3. h + 1 <= Taken
    BY <1>1, <1>2
  <2> QED
    BY <1>4, <1>5, <1>6, <2>2, <2>3 DEF Delivered
<1>8. Queued' /\ InlineSize'
  BY <1>4, <1>5 DEF OrderInv, Queued, InlineSize
<1>9. CASE reader' = "handle" /\ readCaches' = SubSeq(readCaches, n + 1, Len(readCaches))
  <2>1. Wire' = readCaches' \o rest
    BY <1>4 DEF Wire
  <2> HIDE DEF rest
  <2>2. Wire' = SubSeq(Wire, n + 1, Len(Wire))
    BY <1>2, <1>9, <2>1, CutFront
  <2>3. Framed(isInline, accepted, Wire, h, Taken)
    BY DEF OrderInv, InFrames
  <2> HIDE DEF h
  <2>4. Framed(isInline, accepted, SubSeq(Wire, Len(Packed(isInline, accepted[h + 1])) + 1, Len(Wire)), h + 1, Taken)
    BY <1>1, <1>2, <2>3, FramedLeave
  <2>5. Framed(isInline, accepted, Wire', h + 1, Taken)
    BY <2>2, <2>4 DEF h
  <2>6. InFrames'
    BY <1>4, <1>5, <1>6, <2>5 DEF InFrames
  <2> QED
    BY <1>1, <1>2, <1>3, <1>7, <1>8, <2>6 DEF OrderInv, h, m
<1>10. CASE reader' = "done"
  <2>1. InFrames'
    BY <1>10 DEF InFrames
  <2> QED
    BY <1>1, <1>2, <1>3, <1>7, <1>8, <2>1 DEF OrderInv, m
<1> QED
  BY <1>9, <1>10 DEF Handled

(* The invariant, and with it what each step is in the channel.            *)
LEMMA OrderInit ==
  ASSUME Init PROVE OrderInv
<1>1. Taken = 0
  BY DEF Init, Taken
<1>2. Wire = <<>>
  <2>1. <<>> \in Seq(Nat)
    OBVIOUS
  <2>2. <<>> \o <<>> = <<>>
    BY <2>1, ConcatEmptySeq
  <2> QED
    BY <2>2 DEF Init, Wire
<1>3. Framed(isInline, accepted, <<>>, 0, 0)
  BY FramedEmpty
<1>4. Len(handled) = 0 /\ Len(writeCh) = 0 /\ Len(accepted) = 0
  BY DEF Init
<1> QED
  BY <1>1, <1>2, <1>3, <1>4 DEF OrderInv, Queued, Delivered, InlineSize, InFrames

DeliverStep ==
  /\ Len(handled) < Len(accepted)
  /\ handled' = Append(handled, accepted[Len(handled) + 1])
  /\ reader = "handle" /\ UNCHANGED accepted

LEMMA OrderNext ==
  ASSUME TypeOK, OrderInv, [Next]_vars
  PROVE  OrderInv' /\ [Channel!Next]_(Channel!vars)
<1>1. CASE SendMsg
  <2>1. PICK n \in Sizes :
          Send(FALSE, Bytes(n, Len(accepted) + 1), PackMsg(Bytes(n, Len(accepted) + 1)))
    BY <1>1 DEF SendMsg
  <2> DEFINE b == Len(accepted) + 1
             m == [inline |-> FALSE, payload |-> Bytes(n, b)]
  <2>2. b \in 1..MaxMsgs
    <3>1. Len(accepted) < MaxMsgs
      BY <2>1 DEF Send
    <3>2. Len(accepted) \in Nat
      BY WireType
    <3> QED
      BY <3>1, <3>2, FramingAssumption
  <2>3. n \in Nat /\ Bytes(n, b) \in Seq(Nat)
    BY <2>2, Positive, BytesType
  <2>4. m \in Messages /\ m \in Values
    BY <2>2, <2>3 DEF Messages, Values
  <2>5. Body(m) = PackMsg(Bytes(n, b))
    BY DEF Body
  <2>6. OrderInv' /\ accepted' = Append(accepted, m)
    BY <2>1, <2>4, <2>5, SendQueues
  <2>7. UNCHANGED <<handled, reader>>
    BY <2>1 DEF Send
  <2>8. Channel!Send
    BY <2>4, <2>6, <2>7 DEF Channel!Send
  <2> QED
    BY <2>6, <2>8 DEF Channel!Next
<1>2. CASE sendInline
  <2> DEFINE b == Len(accepted) + 1
             q == Bytes(kcpExchangeSizeof, b)
             m == [inline |-> TRUE, payload |-> q]
  <2>1. isInline /\ Send(TRUE, q, q)
    BY <1>2 DEF sendInline
  <2>2. b \in 1..MaxMsgs
    <3>1. Len(accepted) < MaxMsgs
      BY <2>1 DEF Send
    <3>2. Len(accepted) \in Nat
      BY WireType
    <3> QED
      BY <3>1, <3>2, FramingAssumption
  <2>3. q \in Seq(Nat) /\ Len(q) = kcpExchangeSizeof
    BY <2>2, Positive, BytesType
  <2>4. m \in Messages /\ m \in Values
    <3>1. m \in Messages
      BY <2>3 DEF Messages
    <3> HIDE DEF b
    <3>2. q \in {Bytes(n, c) : n \in Sizes \cup {kcpExchangeSizeof}, c \in 1..MaxMsgs}
      BY <2>2
    <3> QED
      BY <3>1, <3>2 DEF Values
  <2>5. Body(m) = q
    BY DEF Body
  <2>6. OrderInv' /\ accepted' = Append(accepted, m)
    BY <2>1, <2>3, <2>4, <2>5, SendQueues
  <2>7. UNCHANGED <<handled, reader>>
    BY <2>1 DEF Send
  <2>8. Channel!Send
    BY <2>4, <2>6, <2>7 DEF Channel!Send
  <2> QED
    BY <2>6, <2>8 DEF Channel!Next
<1>3. CASE WaitMsg
  BY <1>3, WaitJoins DEF WaitMsg, Channel!vars
<1>4. CASE \E n \in 1..Len(batch) : Write(n)
  <2>1. PICK n \in 1..Len(batch) : Write(n)
    BY <1>4
  <2> QED
    BY <2>1, WriteMoves, SameWire DEF Write, Channel!vars
<1>5. CASE WriteFails
  BY <1>5, SameWire DEF WriteFails, Wire, Channel!vars
<1>6. CASE ReadSome
  <2>1. PICK n \in 1..Len(stream) : Read(n)
    BY <1>6 DEF ReadSome
  <2>2. OrderInv'
    BY <2>1, ReadMoves, SameWire DEF Read, sendVars
  <2> QED
    BY <2>1, <2>2 DEF Read, sendVars, Channel!vars
<1>7. CASE ReadFails
  <2>1. OrderInv'
    BY <1>7, SameWire DEF ReadFails, sendVars
  <2> QED
    BY <1>7, <2>1 DEF ReadFails, sendVars, Channel!Next, Channel!Break
<1>8. CASE CutInline
  <2>1. OrderInv'
    BY <1>8, SameWire DEF CutInline, sendVars
  <2> QED
    BY <1>8, <2>1 DEF CutInline, sendVars, Channel!Next, Channel!Break
<1>9. CASE KeepCache
  <2>1. OrderInv'
    BY <1>9, SameWire DEF KeepCache, Wire, sendVars
  <2> QED
    BY <1>9, <2>1 DEF KeepCache, sendVars, Channel!vars
<1>10. CASE HandleMsg
  <2>1. headerLen + 1 \in Nat
    BY Positive DEF headerLen, muxHeader
  <2>2. OrderInv' /\ DeliverStep
    BY <1>10, <2>1, MsgIsNext, HandledDelivers DEF HandleMsg, Handled, sendVars, DeliverStep
  <2> QED
    BY <1>10, <2>2 DEF HandleMsg, Handled, DeliverStep, Channel!Next, Channel!Handle
<1>11. CASE HandleInline
  <2>1. muxHeader + 1 \in Nat
    BY DEF muxHeader
  <2>2. OrderInv' /\ DeliverStep
    BY <1>11, <2>1, InlineIsNext, HandledDelivers DEF HandleInline, Handled, sendVars, DeliverStep
  <2> QED
    BY <1>11, <2>2 DEF HandleInline, Handled, DeliverStep, Channel!Next, Channel!Handle
<1>12. CASE UNCHANGED vars
  BY <1>12, SameWire DEF vars, sendVars, Wire, Channel!vars
<1> QED
  BY <1>1, <1>2, <1>3, <1>4, <1>5, <1>6, <1>7, <1>8, <1>9, <1>10, <1>11, <1>12
     DEF Next, WriteLoop, HandleLoop

LEMMA OrderAlways == Spec => [](TypeOK /\ OrderInv)
<1>1. Init => OrderInv
  BY OrderInit
<1>2. TypeOK /\ OrderInv /\ [Next]_vars => OrderInv'
  BY OrderNext
<1> QED
  BY <1>1, <1>2, TypeCorrect, PTL DEF Spec

(* However the bytes are joined, cut and cached, every step of the loops   *)
(* is a step of the channel: the handlers get the messages send accepted,  *)
(* whole, in order and once each, until the read loop ends.                *)
THEOREM ChannelSafe == Spec => Channel!Init /\ [][Channel!Next]_(Channel!vars)
<1>1. Init => Channel!Init
  BY DEF Init, Channel!Init
<1>2. TypeOK /\ OrderInv /\ [Next]_vars => [Channel!Next]_(Channel!vars)
  BY OrderNext
<1> QED
  BY <1>1, <1>2, OrderAlways, PTL DEF Spec
=============================================================================
