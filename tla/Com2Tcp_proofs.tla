--------------------------- MODULE Com2Tcp_proofs ---------------------------
(***************************************************************************)
(* Without telnet a session of com2tcp carries exactly what it read, and   *)
(* its streams are bounded, for every command line, every size and         *)
(* whatever the devices and the peers do.                                  *)
(***************************************************************************)
EXTENDS Com2Tcp, SequenceTheorems, TLAPS

Bytes == Seq(STRING)

-----------------------------------------------------------------------------
(* Sequences of bytes *)

\* The length of a sequence of bytes.
LEMMA BytesFacts ==
  /\ <<>> \in Bytes /\ Len(<<>>) = 0
  /\ \A s \in Bytes : Len(s) \in Nat /\ (Len(s) = 0 => s = <<>>)
  <1>1. <<>> \in Bytes /\ Len(<<>>) = 0
    BY EmptySeq DEF Bytes
  <1>2. ASSUME NEW s \in Bytes PROVE Len(s) \in Nat /\ (Len(s) = 0 => s = <<>>)
    BY <1>2, EmptySeq, LenProperties DEF Bytes
  <1> QED  BY <1>1, <1>2

\* Sequences of bytes are put together.
LEMMA JoinFacts ==
  ASSUME NEW s \in Bytes, NEW t \in Bytes
  PROVE  /\ s \o t \in Bytes /\ Len(s \o t) = Len(s) + Len(t)
         /\ s \o <<>> = s /\ <<>> \o s = s
  BY ConcatProperties, ConcatEmptySeq DEF Bytes

LEMMA Associative == \A s, t, u \in Bytes : (s \o t) \o u = s \o (t \o u)
  BY ConcatAssociative DEF Bytes

\* A sequence of bytes is cut in two.
LEMMA CutFacts ==
  ASSUME NEW s \in Bytes, NEW n \in 0..Len(s)
  PROVE  /\ SubSeq(s, 1, n) \in Bytes /\ Len(SubSeq(s, 1, n)) = n
         /\ SubSeq(s, n + 1, Len(s)) \in Bytes
         /\ Len(SubSeq(s, n + 1, Len(s))) = Len(s) - n
         /\ SubSeq(s, 1, n) \o SubSeq(s, n + 1, Len(s)) = s
  <1>1. Len(s) \in Nat /\ \A i \in 1..Len(s) : s[i] \in STRING
    BY LenProperties, ElementOfSeq DEF Bytes
  <1>2. SubSeq(s, 1, n) \in Bytes /\ Len(SubSeq(s, 1, n)) = n
    <2>1. \A i \in 1..n : s[i] \in STRING
      BY <1>1
    <2> QED  BY <1>1, <2>1, SubSeqProperties DEF Bytes
  <1>3. /\ SubSeq(s, n + 1, Len(s)) \in Bytes
        /\ Len(SubSeq(s, n + 1, Len(s))) = Len(s) - n
    <2>1. \A i \in (n + 1)..Len(s) : s[i] \in STRING
      BY <1>1
    <2> QED  BY <1>1, <2>1, SubSeqProperties DEF Bytes
  <1>4. SubSeq(s, 1, n) \o SubSeq(s, n + 1, Len(s)) = SubSeq(s, 1, Len(s))
    <2>1. 1 \in 1..(Len(s) + 1) /\ n \in (1 - 1)..Len(s) /\ Len(s) \in n..Len(s)
      BY <1>1
    <2> QED  BY <2>1, ConcatAdjacentSubSeq DEF Bytes
  <1>5. SubSeq(s, 1, Len(s)) = s
    BY SubSeqFull DEF Bytes
  <1> QED  BY <1>2, <1>3, <1>4, <1>5

\* GetData takes a prefix of the stream.
LEMMA GetDataFacts ==
  ASSUME NEW s \in Bytes, NEW n \in Nat
  PROVE  LET d == GetData(s, n)
         IN  /\ d \in Bytes /\ Behind(s, d) \in Bytes
             /\ d \o Behind(s, d) = s
             /\ Len(Behind(s, d)) <= Len(s)
  <1> DEFINE k == IF n < Len(s) THEN n ELSE Len(s)
  <1>1. Len(s) \in Nat /\ k \in 0..Len(s)
    BY BytesFacts
  <1>2. GetData(s, n) = SubSeq(s, 1, k)
    BY DEF GetData
  <1>3. Len(GetData(s, n)) = k
    BY <1>1, <1>2, CutFacts
  <1>4. Behind(s, GetData(s, n)) = SubSeq(s, k + 1, Len(s))
    BY <1>3 DEF Behind
  <1> HIDE DEF k
  <1>5. /\ SubSeq(s, 1, k) \in Bytes /\ SubSeq(s, k + 1, Len(s)) \in Bytes
        /\ Len(SubSeq(s, k + 1, Len(s))) = Len(s) - k
        /\ SubSeq(s, 1, k) \o SubSeq(s, k + 1, Len(s)) = s
    BY <1>1, CutFacts
  <1>6. Len(s) - k <= Len(s)
    BY <1>1
  <1> QED  BY <1>2, <1>4, <1>5, <1>6

-----------------------------------------------------------------------------
(* One direction *)

\* What the parts of a direction are.
Parts(buf, stream, w, r, from, to) ==
  /\ buf \in Bytes /\ stream \in Bytes /\ from \in Bytes /\ to \in Bytes
  /\ w \in OpTypes /\ r \in OpTypes

\* An operation that is idle, issued, ended or failed has its type.
LEMMA OpFacts ==
  /\ Idle \in OpTypes /\ Idle.state = "idle"
  /\ [Idle EXCEPT !.state = "eof"] \in OpTypes
  /\ \A s \in Bytes : /\ Issued(s) \in OpTypes /\ Issued(s).state = "pending"
                      /\ Issued(s).data = s /\ Issued(s).n = 0
  /\ \A s \in Bytes, n \in Nat : [state |-> "done", data |-> s, n |-> n] \in OpTypes
  /\ \A w \in OpTypes : /\ [w EXCEPT !.state = "failed"] \in OpTypes
                        /\ [w EXCEPT !.state = "done"] \in OpTypes
                        /\ w.data \in Bytes /\ w.n \in Nat
  BY BytesFacts DEF OpTypes, Idle, Issued, Bytes

\* What is left of a buffer.
LEMMA RestFacts ==
  ASSUME NEW buf \in Bytes, NEW w \in OpTypes, w.n <= Len(buf) \/ w.state # "done"
  PROVE  /\ Rest(w, buf) \in Bytes
         /\ w.state = "done" => Rest(w, buf) = SubSeq(buf, w.n + 1, Len(buf))
         /\ w.state # "done" => Rest(w, buf) = buf
  <1>1. Len(buf) \in Nat /\ w.n \in Nat
    BY BytesFacts, OpFacts
  <1>2. CASE w.state = "done"
    <2>1. Rest(w, buf) = SubSeq(buf, w.n + 1, Len(buf))
      BY <1>2 DEF Rest
    <2>2. w.n \in 0..Len(buf)
      BY <1>1, <1>2
    <2> QED  BY <1>2, <2>1, <2>2, CutFacts
  <1>3. CASE w.state # "done"
    <2>1. Rest(w, buf) = SubSeq(buf, 0 + 1, Len(buf))
      BY <1>3 DEF Rest
    <2>2. 0 + 1 = 1
      OBVIOUS
    <2>3. SubSeq(buf, 1, Len(buf)) = buf
      BY SubSeqFull DEF Bytes
    <2> QED  BY <1>3, <2>1, <2>2, <2>3
  <1> QED  BY <1>2, <1>3

\* What Issue makes of a direction.
Filled(buf, stream, w, buf2, stream2) ==
  /\ buf2 = IF w.state = "idle" THEN Refilled(buf, stream) ELSE buf
  /\ stream2 = IF w.state = "idle" THEN Taken(buf, stream) ELSE stream

\* A write that is idle takes over what is next of the stream when its buffer is empty, and
\* a read starts when there is room.
LEMMA IssueCarries ==
  ASSUME NEW buf, NEW stream, NEW w, NEW r, NEW from, NEW to,
         Parts(buf, stream, w, r, from, to), Carried(buf, stream, w, r, from, to),
         NEW buf2, NEW stream2, NEW w2, NEW r2,
         Filled(buf, stream, w, buf2, stream2),
         w2 = w \/ (w.state = "idle" /\ buf2 # <<>> /\ w2 = Issued(buf2)),
         r2 = r \/ (~IsFull(stream2) /\ r2 = Issued(<<>>))
  PROVE  /\ Parts(buf2, stream2, w2, r2, from, to)
         /\ Carried(buf2, stream2, w2, r2, from, to)
  <1>1. /\ buf \in Bytes /\ stream \in Bytes /\ from \in Bytes /\ to \in Bytes
        /\ w \in OpTypes /\ r \in OpTypes
    BY DEF Parts
  <1>2. BufSize \in Nat /\ Threshold \in Nat /\ Len(stream) \in Nat
    BY <1>1, BytesFacts, BufSizeAssumption, ThresholdAssumption
  <1>3. /\ GetData(stream, BufSize) \in Bytes /\ Behind(stream, GetData(stream, BufSize)) \in Bytes
        /\ GetData(stream, BufSize) \o Behind(stream, GetData(stream, BufSize)) = stream
        /\ Len(Behind(stream, GetData(stream, BufSize))) <= Len(stream)
    BY <1>1, <1>2, GetDataFacts
  <1>4. /\ buf2 \in Bytes /\ stream2 \in Bytes /\ buf2 \o stream2 = buf \o stream
        /\ Len(stream2) <= Len(stream)
        /\ w.state # "idle" => buf2 = buf /\ stream2 = stream
    <2>1. CASE w.state # "idle" \/ buf # <<>>
      <3>1. buf2 = buf /\ stream2 = stream
        BY <2>1 DEF Refilled, Taken, Filled
      <3>2. Len(stream2) <= Len(stream)
        BY <1>2, <3>1
      <3> QED  BY <1>1, <3>1, <3>2
    <2>2. CASE w.state = "idle" /\ buf = <<>>
      <3>1. /\ buf2 = GetData(stream, BufSize)
            /\ stream2 = Behind(stream, GetData(stream, BufSize))
        BY <2>2 DEF Refilled, Taken, Filled
      <3>2. <<>> \o stream = stream
        BY <1>1, JoinFacts, BytesFacts
      <3> QED  BY <1>1, <1>3, <2>2, <3>1, <3>2
    <2> QED  BY <2>1, <2>2
  <1>5. /\ w2 \in OpTypes /\ r2 \in OpTypes /\ w2.n \in Nat
        /\ w2.state = "done" => w2 = w
        /\ w2 # w => w2.state = "pending" /\ w2.data = buf2 /\ w2.n = 0 /\ buf2 # <<>>
        /\ r2 # r => r2.data = <<>> /\ ~IsFull(stream2)
    <2>1. <<>> \in Bytes
      BY BytesFacts
    <2>2. /\ Issued(<<>>) \in OpTypes /\ Issued(<<>>).data = <<>>
          /\ Issued(buf2) \in OpTypes /\ Issued(buf2).state = "pending"
          /\ Issued(buf2).data = buf2 /\ Issued(buf2).n = 0
      BY <1>4, <2>1, OpFacts
    <2>3. w2 \in OpTypes /\ r2 \in OpTypes
      BY <1>1, <2>2
    <2>4. w2.n \in Nat
      BY <2>3, OpFacts
    <2> QED  BY <2>2, <2>3, <2>4
  <1>6. Len(stream2) \in Nat /\ Len(buf2) \in Nat /\ Len(buf) \in Nat /\ Len(<<>>) = 0
    BY <1>1, <1>4, BytesFacts
  <1>7. to \o Rest(w2, buf2) \o stream2 = from
    <2>1. to \o Rest(w, buf) \o stream = from
      BY DEF Carried
    <2>2. CASE w.state = "idle"
      <3>1. Rest(w, buf) = buf /\ Rest(w2, buf2) = buf2
        BY <1>1, <1>4, <1>5, <2>2, RestFacts
      <3>2. (to \o buf) \o stream = to \o (buf \o stream)
        BY <1>1, Associative
      <3>3. (to \o buf2) \o stream2 = to \o (buf2 \o stream2)
        BY <1>1, <1>4, Associative
      <3> QED  BY <1>4, <2>1, <3>1, <3>2, <3>3
    <2>3. CASE w.state # "idle"
      BY <1>4, <2>1, <2>3
    <2> QED  BY <2>2, <2>3
  <1>8. w2.state # "idle" => buf2 # <<>> /\ w2.data = buf2 /\ w2.n <= Len(buf2)
    <2>1. CASE w2 = w
      BY <1>4, <2>1 DEF Carried
    <2>2. CASE w2 # w
      BY <1>5, <1>6, <2>2
    <2> QED  BY <2>1, <2>2
  <1>9. r2.state \in {"pending", "done"} => ~IsFull(stream2) /\ Len(r2.data) <= BufSize
    <2>1. CASE r2 = r
      BY <1>2, <1>4, <1>6, <2>1 DEF Carried, IsFull
    <2>2. CASE r2 # r
      BY <1>2, <1>5, <1>6, <2>2
    <2> QED  BY <2>1, <2>2
  <1>10. Len(stream2) <= Threshold + BufSize
    BY <1>2, <1>4, <1>6 DEF Carried
  <1> QED  BY <1>1, <1>4, <1>5, <1>7, <1>8, <1>9, <1>10 DEF Parts, Carried

\* A write ends with the first n bytes of its buffer written.
LEMMA TakeCarries ==
  ASSUME NEW buf, NEW stream, NEW w, NEW r, NEW from, NEW to,
         Parts(buf, stream, w, r, from, to), Carried(buf, stream, w, r, from, to),
         w.state = "pending", NEW n \in {1, Len(w.data)}
  PROVE  LET w2 == [state |-> "done", data |-> w.data, n |-> n]
             to2 == to \o SubSeq(w.data, 1, n)
         IN  Parts(buf, stream, w2, r, from, to2) /\ Carried(buf, stream, w2, r, from, to2)
  <1> DEFINE w2 == [state |-> "done", data |-> w.data, n |-> n]
             to2 == to \o SubSeq(w.data, 1, n)
  <1>1. /\ buf \in Bytes /\ stream \in Bytes /\ from \in Bytes /\ to \in Bytes
        /\ w \in OpTypes /\ r \in OpTypes
    BY DEF Parts
  <1>2. w.data = buf /\ buf # <<>> /\ to \o Rest(w, buf) \o stream = from
    BY DEF Carried
  <1>3. n \in 0..Len(buf) /\ n \in Nat
    BY <1>1, <1>2, BytesFacts
  <1>4. /\ SubSeq(buf, 1, n) \in Bytes /\ SubSeq(buf, n + 1, Len(buf)) \in Bytes
        /\ SubSeq(buf, 1, n) \o SubSeq(buf, n + 1, Len(buf)) = buf
    BY <1>1, <1>3, CutFacts
  <1>5. w2 \in OpTypes /\ w2.state = "done" /\ w2.n = n /\ w2.data = buf
    BY <1>1, <1>2, <1>3, OpFacts
  <1>6. to2 = to \o SubSeq(buf, 1, n) /\ to2 \in Bytes
    BY <1>1, <1>2, <1>4, JoinFacts
  <1>7. Rest(w, buf) = buf /\ Rest(w2, buf) = SubSeq(buf, n + 1, Len(buf))
    <2>1. n <= Len(buf)
      BY <1>3
    <2> QED  BY <1>1, <1>5, <2>1, RestFacts
  <1>8. to2 \o Rest(w2, buf) = to \o Rest(w, buf)
    <2>1. (to \o SubSeq(buf, 1, n)) \o SubSeq(buf, n + 1, Len(buf))
            = to \o (SubSeq(buf, 1, n) \o SubSeq(buf, n + 1, Len(buf)))
      BY <1>1, <1>4, Associative
    <2> HIDE DEF w2, to2
    <2> QED  BY <1>4, <1>6, <1>7, <2>1
  <1>9. to2 \o Rest(w2, buf) \o stream = from
    BY <1>2, <1>8
  <1>10. n <= Len(buf)
    BY <1>3
  <1> HIDE DEF w2, to2
  <1>11. Parts(buf, stream, w2, r, from, to2)
    BY <1>1, <1>5, <1>6 DEF Parts
  <1>12. Carried(buf, stream, w2, r, from, to2)
    BY <1>2, <1>5, <1>9, <1>10 DEF Carried
  <1> QED  BY <1>11, <1>12 DEF w2, to2

\* The program leaves what was not written in the buffer.
LEMMA WrittenCarries ==
  ASSUME NEW buf, NEW stream, NEW w, NEW r, NEW from, NEW to,
         Parts(buf, stream, w, r, from, to), Carried(buf, stream, w, r, from, to),
         w.state = "done"
  PROVE  LET buf2 == SubSeq(buf, w.n + 1, Len(buf))
         IN  Parts(buf2, stream, Idle, r, from, to) /\ Carried(buf2, stream, Idle, r, from, to)
  <1> DEFINE buf2 == SubSeq(buf, w.n + 1, Len(buf))
  <1>1. /\ buf \in Bytes /\ stream \in Bytes /\ from \in Bytes /\ to \in Bytes
        /\ w \in OpTypes /\ r \in OpTypes
    BY DEF Parts
  <1>2. w.n <= Len(buf) /\ to \o Rest(w, buf) \o stream = from
    BY DEF Carried
  <1>3. Rest(w, buf) = buf2 /\ buf2 \in Bytes
    BY <1>1, <1>2, RestFacts
  <1> HIDE DEF buf2
  <1>4. Idle \in OpTypes /\ Idle.state = "idle"
    BY OpFacts
  <1>5. Rest(Idle, buf2) = buf2
    BY <1>3, <1>4, RestFacts
  <1>6. Parts(buf2, stream, Idle, r, from, to)
    BY <1>1, <1>3, <1>4 DEF Parts
  <1>7. Carried(buf2, stream, Idle, r, from, to)
    BY <1>2, <1>3, <1>4, <1>5 DEF Carried
  <1> QED  BY <1>6, <1>7 DEF buf2

\* A read ends with what came, or at the end of what will come.
LEMMA GotCarries ==
  ASSUME NEW buf, NEW stream, NEW w, NEW r, NEW from, NEW to,
         Parts(buf, stream, w, r, from, to), Carried(buf, stream, w, r, from, to),
         r.state = "pending", NEW s \in Bytes, Len(s) <= BufSize, NEW n \in Nat
  PROVE  LET r2 == [state |-> "done", data |-> s, n |-> n]
         IN  Parts(buf, stream, w, r2, from, to) /\ Carried(buf, stream, w, r2, from, to)
  <1>1. [state |-> "done", data |-> s, n |-> n] \in OpTypes
    BY OpFacts
  <1> QED  BY <1>1 DEF Parts, Carried

\* What was read goes behind the stream.
LEMMA ReadCarries ==
  ASSUME NEW buf, NEW stream, NEW w, NEW r, NEW from, NEW to,
         Parts(buf, stream, w, r, from, to), Carried(buf, stream, w, r, from, to),
         r.state = "done"
  PROVE  LET stream2 == stream \o r.data
             from2 == from \o r.data
         IN  Parts(buf, stream2, w, Idle, from2, to) /\ Carried(buf, stream2, w, Idle, from2, to)
  <1> DEFINE stream2 == stream \o r.data
             from2 == from \o r.data
  <1>1. /\ buf \in Bytes /\ stream \in Bytes /\ from \in Bytes /\ to \in Bytes
        /\ w \in OpTypes /\ r \in OpTypes /\ r.data \in Bytes
    BY OpFacts DEF Parts
  <1>2. /\ Len(stream) \in Nat /\ Len(r.data) \in Nat
        /\ BufSize \in Nat /\ Threshold \in Nat
    BY <1>1, BytesFacts, BufSizeAssumption, ThresholdAssumption
  <1>3. /\ stream2 \in Bytes /\ Len(stream2) = Len(stream) + Len(r.data) /\ from2 \in Bytes
    BY <1>1, JoinFacts
  <1>4. ~(Threshold < Len(stream)) /\ Len(r.data) <= BufSize
    BY DEF Carried, IsFull
  <1>5. Len(stream2) <= Threshold + BufSize
    BY <1>2, <1>3, <1>4
  <1>6. w.state # "idle" => buf # <<>> /\ w.data = buf /\ w.n <= Len(buf)
    BY DEF Carried
  <1>7. Rest(w, buf) \in Bytes
    <2>1. w.n <= Len(buf) \/ w.state # "done"
      BY <1>6
    <2> QED  BY <1>1, <2>1, RestFacts
  <1>8. to \o Rest(w, buf) \in Bytes
    BY <1>1, <1>7, JoinFacts
  <1>9. (to \o Rest(w, buf)) \o stream2 = ((to \o Rest(w, buf)) \o stream) \o r.data
    BY <1>1, <1>8, Associative
  <1>10. to \o Rest(w, buf) \o stream2 = from2
    BY <1>9 DEF Carried
  <1>11. Idle \in OpTypes /\ Idle.state = "idle"
    BY OpFacts
  <1> HIDE DEF stream2, from2
  <1>12. Parts(buf, stream2, w, Idle, from2, to)
    BY <1>1, <1>3, <1>11 DEF Parts
  <1>13. Carried(buf, stream2, w, Idle, from2, to)
    BY <1>5, <1>6, <1>10, <1>11 DEF Carried
  <1> QED  BY <1>12, <1>13 DEF stream2, from2

\* An operation that fails, and a stream that ends.
LEMMA FailCarries ==
  ASSUME NEW buf, NEW stream, NEW w, NEW r, NEW from, NEW to,
         Parts(buf, stream, w, r, from, to), Carried(buf, stream, w, r, from, to)
  PROVE  /\ w.state = "pending" =>
              /\ Parts(buf, stream, [w EXCEPT !.state = "failed"], r, from, to)
              /\ Carried(buf, stream, [w EXCEPT !.state = "failed"], r, from, to)
         /\ /\ Parts(buf, stream, w, [r EXCEPT !.state = "failed"], from, to)
            /\ Carried(buf, stream, w, [r EXCEPT !.state = "failed"], from, to)
         /\ \A r2 \in OpTypes : r2.state \notin {"pending", "done"} =>
              Parts(buf, stream, w, r2, from, to) /\ Carried(buf, stream, w, r2, from, to)
  <1>1. /\ buf \in Bytes /\ w \in OpTypes /\ r \in OpTypes
    BY DEF Parts
  <1>2. ASSUME NEW r2 \in OpTypes, r2.state \notin {"pending", "done"}
        PROVE  Parts(buf, stream, w, r2, from, to) /\ Carried(buf, stream, w, r2, from, to)
    BY <1>2 DEF Parts, Carried
  <1>3. [r EXCEPT !.state = "failed"] \in OpTypes /\ [r EXCEPT !.state = "failed"].state = "failed"
    BY <1>1, OpFacts DEF OpTypes
  <1>4. ASSUME w.state = "pending"
        PROVE  /\ Parts(buf, stream, [w EXCEPT !.state = "failed"], r, from, to)
               /\ Carried(buf, stream, [w EXCEPT !.state = "failed"], r, from, to)
    <2> DEFINE w2 == [w EXCEPT !.state = "failed"]
    <2>1. w2 \in OpTypes /\ w2.state = "failed" /\ w2.data = w.data /\ w2.n = w.n
      BY <1>1, OpFacts DEF OpTypes
    <2> HIDE DEF w2
    <2>2. Rest(w2, buf) = Rest(w, buf)
      BY <1>1, <1>4, <2>1, RestFacts
    <2>3. Parts(buf, stream, w2, r, from, to) /\ Carried(buf, stream, w2, r, from, to)
      BY <1>4, <2>1, <2>2 DEF Parts, Carried
    <2> QED  BY <2>3 DEF w2
  <1> QED  BY <1>2, <1>3, <1>4

\* Nothing has been carried when a session begins.
LEMMA NothingCarried ==
  Parts(<<>>, <<>>, Idle, Idle, <<>>, <<>>) /\ Carried(<<>>, <<>>, Idle, Idle, <<>>, <<>>)
  <1>1. <<>> \in Bytes /\ Len(<<>>) = 0 /\ Idle \in OpTypes /\ Idle.state = "idle"
    BY BytesFacts, OpFacts
  <1>2. Rest(Idle, <<>>) = <<>>
    BY <1>1, RestFacts
  <1>3. <<>> \o <<>> = <<>>
    BY <1>1, JoinFacts
  <1>4. 0 <= Threshold + BufSize
    BY BufSizeAssumption, ThresholdAssumption
  <1> QED  BY <1>1, <1>2, <1>3, <1>4 DEF Parts, Carried

-----------------------------------------------------------------------------
(* A session *)

ComTypes == [open : BOOLEAN, dtr : BOOLEAN, dsr : BOOLEAN, feed : Seq(STRING)]
NetTypes == [open : BOOLEAN, closed : BOOLEAN, closeEvent : BOOLEAN,
             feeds : Seq(Seq(STRING)), peers : Nat]
OutTypes == [skipped : Seq(STRING), fromCom : Seq(STRING), toNet : Seq(STRING),
             fromNet : Seq(STRING), toCom : Seq(STRING)]
SendParts == Parts(sendBuf, p.send, op["send"], op["read"], out.fromCom, out.toNet)
WriteParts == Parts(writeBuf, p.write, op["write"], op["recv"], out.fromNet, out.toCom)
SendSide == Carried(sendBuf, p.send, op["send"], op["read"], out.fromCom, out.toNet)
WriteSide == Carried(writeBuf, p.write, op["write"], op["recv"], out.fromNet, out.toCom)

\* What RawSessions says where telnet is not spoken.
Sessions ==
  /\ ~opt.telnet
  /\ RawTypes /\ Peers /\ Bounded
  /\ net.open => SendSide /\ WriteSide
  /\ ~net.open => \A o \in {"send", "recv", "write"} : op[o].state = "idle"

\* The types of the parts of a state.
LEMMA TypeFacts ==
  ASSUME RawTypes
  PROVE  /\ opt \in Options
         /\ p \in RawProtocols /\ p.telnet = FALSE /\ p.send \in Bytes /\ p.write \in Bytes
         /\ sendBuf \in Bytes /\ writeBuf \in Bytes
         /\ op \in [OpNames -> OpTypes]
         /\ \A o \in OpNames : op[o] \in OpTypes /\ op[o].data \in Bytes /\ op[o].n \in Nat
         /\ com \in ComTypes /\ com.feed \in Bytes
         /\ net \in NetTypes /\ net.feeds \in Seq(Bytes) /\ net.peers \in Nat
         /\ out \in OutTypes
         /\ SendParts /\ WriteParts
  <1>1. /\ opt \in Options /\ p \in RawProtocols
        /\ sendBuf \in Bytes /\ writeBuf \in Bytes
        /\ op \in [OpNames -> OpTypes]
        /\ com \in ComTypes /\ net \in NetTypes /\ out \in OutTypes
    BY DEF RawTypes, ComTypes, NetTypes, OutTypes, Bytes
  <1>2. p.telnet = FALSE /\ p.send \in Bytes /\ p.write \in Bytes
    BY <1>1 DEF RawProtocols, Bytes
  <1>3. ASSUME NEW o \in OpNames
        PROVE  op[o] \in OpTypes /\ op[o].data \in Bytes /\ op[o].n \in Nat
    <2>1. op[o] \in OpTypes
      BY <1>1
    <2> QED  BY <2>1, OpFacts
  <1>4. com.feed \in Bytes
    BY <1>1 DEF ComTypes, Bytes
  <1>5. net.feeds \in Seq(Bytes) /\ net.peers \in Nat
    BY <1>1 DEF NetTypes, Bytes
  <1>6. /\ out.fromCom \in Bytes /\ out.toNet \in Bytes
        /\ out.fromNet \in Bytes /\ out.toCom \in Bytes
    BY <1>1 DEF OutTypes, Bytes
  <1>7. {"send", "read", "write", "recv"} \subseteq OpNames
    BY DEF OpNames
  <1>8. SendParts /\ WriteParts
    BY <1>1, <1>2, <1>3, <1>6, <1>7 DEF SendParts, WriteParts, Parts
  <1> QED  BY <1>1, <1>2, <1>3, <1>4, <1>5, <1>8

\* The next state has its types when its parts have them.
LEMMA MakeTypes ==
  ASSUME opt' \in Options, p' \in RawProtocols, sendBuf' \in Bytes, writeBuf' \in Bytes,
         op' \in [OpNames -> OpTypes], com' \in ComTypes, net' \in NetTypes, out' \in OutTypes
  PROVE  RawTypes'
  BY DEF RawTypes, ComTypes, NetTypes, OutTypes, Bytes

\* While a session goes on it is enough that both directions are carried.
LEMMA MakeSessions ==
  ASSUME Sessions, opt' = opt, net'.open, RawTypes', Peers', SendSide', WriteSide'
  PROVE  Sessions'
  BY DEF Sessions, Bounded, SendSide, WriteSide, Carried

\* A step that leaves both directions as they are.
LEMMA QuietSessions ==
  ASSUME Sessions, UNCHANGED <<opt, p, sendBuf, writeBuf>>, RawTypes', Peers',
         net'.open = net.open,
         /\ out'.fromCom = out.fromCom /\ out'.toNet = out.toNet
         /\ out'.fromNet = out.fromNet /\ out'.toCom = out.toCom,
         net.open => /\ op'["read"] = op["read"] /\ op'["send"] = op["send"]
                     /\ op'["recv"] = op["recv"] /\ op'["write"] = op["write"],
         ~net.open => \A o \in {"send", "recv", "write"} : op'[o].state = "idle"
  PROVE  Sessions'
  <1>1. Bounded'
    BY DEF Sessions, Bounded
  <1>2. net'.open => SendSide' /\ WriteSide'
    BY DEF Sessions, SendSide, WriteSide
  <1> QED  BY <1>1, <1>2 DEF Sessions

\* What a session of this kind is, in its parts.
LEMMA SessionFacts ==
  ASSUME Sessions
  PROVE  /\ RawTypes /\ Peers /\ opt.telnet = FALSE
         /\ InSession \/ pc = "stop" <=> net.open
         /\ net.open => SendSide /\ WriteSide
         /\ \A o \in {"send", "recv", "write"} : op[o].state # "idle" => net.open
         /\ net.peers + (IF net.open THEN 1 ELSE 0) <= Len(net.feeds)
         /\ opt.client => net.peers = 0
         /\ pc \in Outgoing => opt.client
         /\ \A o \in {"send", "recv", "write"} : ~net.open => op[o].state = "idle"
  <1>1. opt \in Options
    BY TypeFacts DEF Sessions
  <1>2. opt.telnet \in BOOLEAN
    BY <1>1, OptionsAssumption
  <1> QED  BY <1>2 DEF Sessions, Peers

\* An operation changes alone.
LEMMA OpChange ==
  ASSUME RawTypes, NEW k \in OpNames, NEW r \in OpTypes, op' = [op EXCEPT ![k] = r]
  PROVE  /\ op' \in [OpNames -> OpTypes] /\ op'[k] = r
         /\ \A o \in OpNames \ {k} : op'[o] = op[o]
  BY TypeFacts

\* All operations are given up.
LEMMA OpLeave ==
  ASSUME op' = [o \in OpNames |-> Idle]
  PROVE  op' \in [OpNames -> OpTypes] /\ \A o \in OpNames : op'[o] = Idle /\ op'[o].state = "idle"
  BY OpFacts

\* A sequence of feeds without its first, and one whose first has become shorter.
LEMMA FeedsFacts ==
  ASSUME NEW f \in Seq(Bytes), Len(f) # 0
  PROVE  /\ Len(f) \in Nat \ {0}
         /\ Head(f) \in Bytes /\ f[1] = Head(f)
         /\ Tail(f) \in Seq(Bytes) /\ Len(Tail(f)) = Len(f) - 1
         /\ \A s \in Bytes : /\ [f EXCEPT ![1] = s] \in Seq(Bytes)
                             /\ Len([f EXCEPT ![1] = s]) = Len(f)
         /\ Len(f) > 1 => /\ <<Head(f)>> \o Tail(Tail(f)) \in Seq(Bytes)
                          /\ Len(<<Head(f)>> \o Tail(Tail(f))) = Len(f) - 1
  <1>0. Len(<<>>) = 0
    BY BytesFacts
  <1>1. Len(f) \in Nat \ {0} /\ f # <<>>
    BY <1>0, LenProperties
  <1>2. /\ Head(f) \in Bytes /\ f[1] = Head(f)
        /\ Tail(f) \in Seq(Bytes) /\ Len(Tail(f)) = Len(f) - 1
    BY <1>1, HeadTailProperties
  <1>3. ASSUME NEW s \in Bytes
        PROVE  [f EXCEPT ![1] = s] \in Seq(Bytes) /\ Len([f EXCEPT ![1] = s]) = Len(f)
    BY <1>1, ExceptSeq
  <1>4. ASSUME Len(f) > 1
        PROVE  /\ <<Head(f)>> \o Tail(Tail(f)) \in Seq(Bytes)
               /\ Len(<<Head(f)>> \o Tail(Tail(f))) = Len(f) - 1
    <2>1. Len(Tail(f)) # 0
      BY <1>1, <1>2, <1>4
    <2>2. Tail(f) # <<>>
      BY <1>0, <2>1
    <2>3. Tail(Tail(f)) \in Seq(Bytes) /\ Len(Tail(Tail(f))) = Len(f) - 2
      BY <1>1, <1>2, <2>2, HeadTailProperties
    <2>4. <<Head(f)>> \in Seq(Bytes) /\ Len(<<Head(f)>>) = 1
      BY <1>2
    <2> QED  BY <1>1, <2>3, <2>4, ConcatProperties
  <1> QED  BY <1>1, <1>2, <1>3, <1>4


-----------------------------------------------------------------------------
(* The steps that carry nothing *)

Active == {"issue", "event", "poll", "await", "stop"}

\* A step before a session.
LEMMA OutsideStep ==
  ASSUME Sessions, pc \notin Active, pc' \notin Active,
         UNCHANGED <<opt, net, p, sendBuf, writeBuf>>, pc' \in Outgoing => opt.client,
         com' \in ComTypes, op' \in [OpNames -> OpTypes], out' \in OutTypes,
         /\ out'.fromCom = out.fromCom /\ out'.toNet = out.toNet
         /\ out'.fromNet = out.fromNet /\ out'.toCom = out.toCom,
         \A o \in {"send", "recv", "write"} : op'[o].state = "idle"
  PROVE  Sessions'
  <1>1. ~net.open /\ RawTypes /\ Peers
    BY SessionFacts DEF Active, InSession
  <1>2. RawTypes'
    <2>1. /\ opt' \in Options /\ p' \in RawProtocols /\ sendBuf' \in Bytes /\ writeBuf' \in Bytes
          /\ net' \in NetTypes
      BY <1>1, TypeFacts
    <2> QED  BY <2>1, MakeTypes
  <1>3. Peers'
    BY <1>1 DEF Peers, InSession, Active, Outgoing
  <1>4. net'.open = net.open
    OBVIOUS
  <1> QED  BY <1>1, <1>2, <1>3, <1>4, QuietSessions

\* A step within a session that neither reads nor writes.
LEMMA InsideStep ==
  ASSUME Sessions, pc \in Active, pc' \in Active,
         UNCHANGED <<opt, p, sendBuf, writeBuf, out>>,
         net' \in NetTypes, net'.open, net'.peers + 1 <= Len(net'.feeds),
         opt.client => net'.peers = 0,
         com' \in ComTypes, op' \in [OpNames -> OpTypes],
         \A o \in {"read", "send", "recv", "write"} : op'[o] = op[o]
  PROVE  Sessions'
  <1>1. net.open /\ RawTypes
    BY SessionFacts DEF Active, InSession
  <1>2. RawTypes'
    <2>1. /\ opt' \in Options /\ p' \in RawProtocols /\ sendBuf' \in Bytes /\ writeBuf' \in Bytes
          /\ out' \in OutTypes
      BY <1>1, TypeFacts
    <2> QED  BY <2>1, MakeTypes
  <1>3. Peers'
    BY DEF Peers, InSession, Active, Outgoing
  <1>4. SendSide' /\ WriteSide'
    BY <1>1 DEF Sessions, SendSide, WriteSide
  <1> QED  BY <1>1, <1>2, <1>3, <1>4, MakeSessions

\* The client before it connects.
LEMMA ClientSteps ==
  ASSUME Sessions, OpenCom \/ StartWait \/ LookAtDsr \/ Skipped \/ WatchFails \/ DsrEvent
  PROVE  Sessions'
  <1>1. /\ RawTypes /\ opt \in Options
        /\ com \in ComTypes /\ op \in [OpNames -> OpTypes] /\ out \in OutTypes
        /\ \A o \in OpNames : op[o].data \in Bytes
    BY SessionFacts, TypeFacts
  <1>2. opt.connectDtr \in BOOLEAN
    BY <1>1, OptionsAssumption
  <1>3. Issued(<<>>) \in OpTypes /\ Idle \in OpTypes /\ Idle.state = "idle"
    BY BytesFacts, OpFacts
  <1>4. pc \notin Active => \A o \in {"send", "recv", "write"} : op[o].state = "idle"
    BY SessionFacts DEF Active, InSession
  <1>5. {"read", "send", "recv", "write", "stat"} = OpNames
    BY DEF OpNames
  <1>13. opt.client
    <2>1. pc \in Outgoing
      BY DEF OpenCom, StartWait, LookAtDsr, Skipped, WatchFails, DsrEvent, Outgoing
    <2> QED  BY <2>1, SessionFacts
  <1>6. CASE OpenCom
    <2>1. /\ pc \notin Active /\ pc' \notin Active /\ com' \in ComTypes
          /\ UNCHANGED <<opt, net, p, sendBuf, writeBuf, op, out>>
      BY <1>1, <1>2, <1>6 DEF OpenCom, Opened, ComTypes, Active
    <2> QED  BY <1>1, <1>4, <2>1, <1>13, OutsideStep
  <1>7. ASSUME pc \notin Active, pc' \notin Active,
               UNCHANGED <<opt, net, p, sendBuf, writeBuf>>,
               com' \in ComTypes, out' = out,
               \/ op' = op
               \/ op' = [o \in OpNames |-> Idle]
               \/ \E k \in {"read", "stat"}, r \in OpTypes : op' = [op EXCEPT ![k] = r]
        PROVE  Sessions'
    <2>1. CASE op' = op
      BY <1>1, <1>4, <1>7, <2>1, <1>13, OutsideStep
    <2>2. CASE op' = [o \in OpNames |-> Idle]
      <3>1. op' \in [OpNames -> OpTypes] /\ \A o \in {"send", "recv", "write"} : op'[o].state = "idle"
        BY <1>5, <2>2, OpLeave
      <3> QED  BY <1>1, <1>7, <3>1, <1>13, OutsideStep
    <2>3. ASSUME NEW k \in {"read", "stat"}, NEW r \in OpTypes, op' = [op EXCEPT ![k] = r]
          PROVE  Sessions'
      <3>1. op' \in [OpNames -> OpTypes] /\ \A o \in {"send", "recv", "write"} : op'[o] = op[o]
        BY <1>1, <1>5, <2>3
      <3> QED  BY <1>1, <1>4, <1>7, <3>1, <1>13, OutsideStep
    <2> QED  BY <1>7, <2>1, <2>2, <2>3
  <1>8. CASE StartWait
    <2>1. /\ pc \notin Active /\ pc' \notin Active
          /\ UNCHANGED <<opt, net, p, sendBuf, writeBuf, com, out>>
      BY <1>8 DEF StartWait, Leave, Active
    <2>2. \/ op' = [o \in OpNames |-> Idle]
          \/ \E k \in {"read", "stat"}, r \in OpTypes : op' = [op EXCEPT ![k] = r]
      BY <1>3, <1>8 DEF StartWait, Leave
    <2> QED  BY <1>1, <1>7, <2>1, <2>2
  <1>9. CASE LookAtDsr
    <2>1. /\ pc \notin Active /\ pc' \notin Active
          /\ UNCHANGED <<opt, net, p, sendBuf, writeBuf, com, out>>
          /\ op' = op \/ op' = [o \in OpNames |-> Idle]
      BY <1>9 DEF LookAtDsr, Leave, Active
    <2> QED  BY <1>1, <1>7, <2>1
  <1>10. CASE Skipped
    <2>1. /\ pc \notin Active /\ pc' \notin Active
          /\ UNCHANGED <<opt, net, p, sendBuf, writeBuf, com>>
          /\ op' = [op EXCEPT !["read"] = Idle]
          /\ out' = [out EXCEPT !.skipped = @ \o op["read"].data]
      BY <1>10 DEF Skipped, Active
    <2>2. out.skipped \in Bytes
      BY <1>1 DEF OutTypes, Bytes
    <2>3. out.skipped \o op["read"].data \in Bytes
      BY <1>1, <1>5, <2>2, JoinFacts
    <2>4. /\ out' \in OutTypes
          /\ out'.fromCom = out.fromCom /\ out'.toNet = out.toNet
          /\ out'.fromNet = out.fromNet /\ out'.toCom = out.toCom
      BY <1>1, <2>1, <2>3 DEF OutTypes, Bytes
    <2>5. op' \in [OpNames -> OpTypes] /\ \A o \in {"send", "recv", "write"} : op'[o] = op[o]
      BY <1>1, <1>3, <1>5, <2>1
    <2> QED  BY <1>1, <1>4, <2>1, <2>4, <2>5, <1>13, OutsideStep
  <1>11. CASE WatchFails
    <2>1. /\ pc \notin Active /\ pc' \notin Active
          /\ UNCHANGED <<opt, net, p, sendBuf, writeBuf, out>>
          /\ op' = [o \in OpNames |-> Idle]
      BY <1>11 DEF WatchFails, Leave, Active
    <2>2. com' \in ComTypes
      BY <1>1, <1>11 DEF WatchFails, ComTypes
    <2> QED  BY <1>7, <2>1, <2>2
  <1>12. CASE DsrEvent
    <2>1. /\ pc \notin Active /\ pc' \notin Active
          /\ UNCHANGED <<opt, net, p, sendBuf, writeBuf, com, out>>
          /\ op' = [op EXCEPT !["stat"] = Idle]
      BY <1>12 DEF DsrEvent, Active
    <2> QED  BY <1>1, <1>3, <1>7, <2>1
  <1> QED  BY <1>6, <1>8, <1>9, <1>10, <1>11, <1>12


\* A session begins with nothing.
LEMMA SessionBegins ==
  ASSUME Sessions, opt' = opt, StartInOut, com' \in ComTypes, net' \in NetTypes,
         net'.open, net'.peers + 1 <= Len(net'.feeds), opt.client => net'.peers = 0
  PROVE  Sessions'
  <1>1. RawTypes /\ opt' \in Options /\ p.telnet = FALSE
    BY SessionFacts, TypeFacts
  <1>2. p' = NewProtocol(FALSE)
    BY <1>1 DEF StartInOut, Clean
  <1>3. p'.send = <<>> /\ p'.write = <<>> /\ p' \in RawProtocols
    <2>1. <<>> \in Seq(STRING)
      BY BytesFacts DEF Bytes
    <2>2. [o \in OptionNames |-> "cant"] \in [OptionNames -> {"cant"}]
      OBVIOUS
    <2> HIDE DEF OptionNames
    <2> QED  BY <1>2, <2>1, <2>2 DEF NewProtocol, RawProtocols
  <1>4. /\ pc' = "issue" /\ sendBuf' = <<>> /\ writeBuf' = <<>>
        /\ op' = [o \in OpNames |-> Idle] /\ out' = NoSession
    BY DEF StartInOut
  <1>5. op' \in [OpNames -> OpTypes] /\ \A o \in OpNames : op'[o] = Idle
    BY <1>4, OpLeave
  <1>6. {"send", "read", "write", "recv"} \subseteq OpNames
    BY DEF OpNames
  <1>7. /\ out'.fromCom = <<>> /\ out'.toNet = <<>> /\ out'.fromNet = <<>> /\ out'.toCom = <<>>
        /\ out' \in OutTypes
    BY <1>4, BytesFacts DEF NoSession, OutTypes, Bytes
  <1>8. RawTypes'
    <2>1. sendBuf' \in Bytes /\ writeBuf' \in Bytes
      BY <1>4, BytesFacts
    <2> QED  BY <1>1, <1>3, <1>5, <1>7, <2>1, MakeTypes
  <1>9. Peers'
    BY <1>4 DEF Peers, InSession, Outgoing
  <1>10. SendSide' /\ WriteSide'
    BY <1>3, <1>4, <1>5, <1>6, <1>7, NothingCarried DEF SendSide, WriteSide
  <1> QED  BY <1>8, <1>9, <1>10, MakeSessions

\* Connect, and the end of a program that finds no peer.
LEMMA ConnectStep ==
  ASSUME Sessions, ConnectToPeer
  PROVE  Sessions'
  <1>1. /\ RawTypes /\ opt \in Options /\ pc = "connect" /\ opt' = opt
        /\ com \in ComTypes /\ net \in NetTypes /\ op \in [OpNames -> OpTypes] /\ out \in OutTypes
        /\ net.feeds \in Seq(Bytes) /\ net.peers \in Nat
    BY SessionFacts, TypeFacts DEF ConnectToPeer
  <1>2. /\ ~net.open /\ net.peers + 0 <= Len(net.feeds)
        /\ net.peers = 0 /\ opt.client
        /\ \A o \in {"send", "recv", "write"} : op[o].state = "idle"
    BY <1>1, SessionFacts DEF InSession, Outgoing
  <1>3. CASE net.feeds # <<>>
    <2>1. com' \in ComTypes
      BY <1>1, <1>3 DEF ConnectToPeer, WithDtr, ComTypes
    <2>2. net' \in NetTypes /\ net'.open /\ net'.feeds = net.feeds /\ net'.peers = net.peers
      BY <1>1, <1>3 DEF ConnectToPeer, NetTypes
    <2>3. Len(net.feeds) \in Nat \ {0}
      BY <1>1, <1>3, EmptySeq
    <2>4. net'.peers + 1 <= Len(net'.feeds)
      BY <1>2, <2>2, <2>3
    <2>5. StartInOut
      BY <1>3 DEF ConnectToPeer
    <2> QED  BY <1>1, <1>2, <2>1, <2>2, <2>4, <2>5, SessionBegins
  <1>4. CASE net.feeds = <<>>
    <2>1. /\ pc \notin Active /\ pc' \notin Active /\ com' \in ComTypes
          /\ UNCHANGED <<opt, net, p, sendBuf, writeBuf, op, out>>
      BY <1>1, <1>4 DEF ConnectToPeer, ComTypes, Active
    <2> QED  BY <1>1, <1>2, <2>1, OutsideStep
  <1> QED  BY <1>3, <1>4

\* Accept, and a serial port that cannot be opened.
LEMMA AcceptStep ==
  ASSUME Sessions, AcceptPeer
  PROVE  Sessions'
  <1>1. /\ RawTypes /\ opt \in Options /\ pc = "accept" /\ opt' = opt /\ net.peers > 0
        /\ com \in ComTypes /\ net \in NetTypes /\ op \in [OpNames -> OpTypes] /\ out \in OutTypes
        /\ p \in RawProtocols /\ sendBuf \in Bytes /\ writeBuf \in Bytes
        /\ net.feeds \in Seq(Bytes) /\ net.peers \in Nat
    BY SessionFacts, TypeFacts DEF AcceptPeer
  <1>2. /\ ~net.open /\ net.peers + 0 <= Len(net.feeds) /\ ~opt.client
        /\ \A o \in {"send", "recv", "write"} : op[o].state = "idle"
    BY <1>1, SessionFacts DEF InSession, Outgoing
  <1>3. opt.connectDtr \in BOOLEAN
    BY <1>1, OptionsAssumption
  <1>4. CASE StartInOut /\ com' = WithDtr(Opened(com), TRUE)
             /\ net' = [net EXCEPT !.peers = @ - 1, !.open = TRUE, !.closed = FALSE, !.closeEvent = FALSE]
    <2>1. com' \in ComTypes
      BY <1>1, <1>3, <1>4 DEF WithDtr, Opened, ComTypes
    <2>2. net' \in NetTypes /\ net'.open /\ net'.feeds = net.feeds /\ net'.peers = net.peers - 1
      <3>1. net.peers - 1 \in Nat
        BY <1>1
      <3> QED  BY <1>1, <1>4, <3>1 DEF NetTypes
    <2>3. net'.peers + 1 <= Len(net'.feeds)
      BY <1>1, <1>2, <2>2
    <2> QED  BY <1>1, <1>2, <1>4, <2>1, <2>2, <2>3, SessionBegins
  <1>5. CASE /\ net' = [net EXCEPT !.peers = @ - 1, !.feeds = Tail(@)]
             /\ UNCHANGED <<pc, com, p, sendBuf, writeBuf, op, out>>
    <2>1. Len(net.feeds) \in Nat /\ Len(net.feeds) # 0
      BY <1>1, <1>2, LenProperties
    <2>2. Tail(net.feeds) \in Seq(Bytes) /\ Len(Tail(net.feeds)) = Len(net.feeds) - 1
      BY <1>1, <2>1, FeedsFacts
    <2>3. /\ net' \in NetTypes /\ net'.open = net.open
          /\ net'.feeds = Tail(net.feeds) /\ net'.peers = net.peers - 1
      <3>1. net.peers - 1 \in Nat
        BY <1>1
      <3> QED  BY <1>1, <1>5, <2>2, <3>1 DEF NetTypes, Bytes
    <2>4. RawTypes'
      BY <1>1, <1>5, <2>3, MakeTypes
    <2>5. Peers'
      <3>1. ~net'.open /\ pc' = "accept" /\ net'.peers + 0 <= Len(net'.feeds)
        BY <1>1, <1>2, <1>5, <2>1, <2>2, <2>3
      <3> QED  BY <1>1, <1>2, <3>1 DEF Peers, InSession, Outgoing
    <2>6. UNCHANGED <<opt, p, sendBuf, writeBuf, op, out>>
      BY <1>1, <1>5
    <2> QED  BY <1>2, <2>3, <2>4, <2>5, <2>6, QuietSessions
  <1> QED  BY <1>4, <1>5 DEF AcceptPeer

\* The end of a session.
LEMMA EndStep ==
  ASSUME Sessions, EndSession
  PROVE  Sessions'
  <1>1. /\ RawTypes /\ opt \in Options /\ pc = "stop" /\ opt' = opt
        /\ com \in ComTypes /\ net \in NetTypes /\ out \in OutTypes
        /\ p \in RawProtocols /\ sendBuf \in Bytes /\ writeBuf \in Bytes
        /\ net.feeds \in Seq(Bytes) /\ net.peers \in Nat
    BY SessionFacts, TypeFacts DEF EndSession
  <1>2. /\ net.open /\ net.peers + 1 <= Len(net.feeds) /\ (opt.client => net.peers = 0)
        /\ SendSide /\ WriteSide
    BY <1>1, SessionFacts
  <1>3. opt.connectDtr \in BOOLEAN /\ opt.client \in BOOLEAN
    BY <1>1, OptionsAssumption
  <1>4. Len(net.feeds) \in Nat /\ Len(net.feeds) # 0
    BY <1>1, <1>2, LenProperties
  <1>5. Tail(net.feeds) \in Seq(Bytes) /\ Len(Tail(net.feeds)) = Len(net.feeds) - 1
    BY <1>1, <1>4, FeedsFacts
  <1>6. /\ net' \in NetTypes /\ ~net'.open
        /\ net'.feeds = Tail(net.feeds) /\ net'.peers = net.peers
    BY <1>1, <1>5 DEF EndSession, NetTypes, Bytes
  <1>7. com' \in ComTypes
    BY <1>1, <1>3 DEF EndSession, WithDtr, ComTypes
  <1>8. op' \in [OpNames -> OpTypes] /\ \A o \in {"send", "recv", "write"} : op'[o].state = "idle"
    <2>1. op' = [o \in OpNames |-> Idle]
      BY DEF EndSession
    <2>2. {"send", "recv", "write"} \subseteq OpNames
      BY DEF OpNames
    <2> QED  BY <2>1, <2>2, OpLeave
  <1>9. UNCHANGED <<p, sendBuf, writeBuf, out>>
    BY DEF EndSession
  <1>10. RawTypes'
    BY <1>1, <1>6, <1>7, <1>8, <1>9, MakeTypes
  <1>11. Peers'
    <2>1. net'.peers + 0 <= Len(net'.feeds)
      BY <1>1, <1>2, <1>4, <1>5, <1>6
    <2>2. pc' \notin Active /\ (pc' \in Outgoing => opt.client)
      BY DEF EndSession, Active, Outgoing
    <2> QED  BY <1>1, <1>2, <1>6, <2>1, <2>2 DEF Peers, InSession, Active
  <1>12. Bounded'
    BY <1>1, <1>2, <1>9 DEF Bounded, SendSide, WriteSide, Carried
  <1> QED  BY <1>1, <1>6, <1>8, <1>10, <1>11, <1>12 DEF Sessions

\* Steps of a session that look at events.
LEMMA InsideSteps ==
  ASSUME Sessions,
         \/ IssueEvent \/ PollDsr \/ DsrChanged \/ HasClosed \/ IsBusy
         \/ \E o \in OpNames : OpFailed(o)
  PROVE  Sessions'
  <1>1. /\ RawTypes /\ opt \in Options
        /\ com \in ComTypes /\ net \in NetTypes /\ op \in [OpNames -> OpTypes]
        /\ net.feeds \in Seq(Bytes) /\ net.peers \in Nat
    BY SessionFacts, TypeFacts
  <1>2. /\ pc \in Active /\ pc' \in Active /\ UNCHANGED <<opt, p, sendBuf, writeBuf, out>>
        /\ com' = com
    BY DEF IssueEvent, PollDsr, DsrChanged, HasClosed, IsBusy, OpFailed, First, Done, Round, Active
  <1>3. /\ net.open /\ net.peers + 1 <= Len(net.feeds) /\ (opt.client => net.peers = 0)
    BY <1>2, SessionFacts DEF InSession, Active
  <1>4. \/ op' = op
        \/ \E r \in OpTypes : op' = [op EXCEPT !["stat"] = r]
    <2>1. Issued(<<>>) \in OpTypes /\ Idle \in OpTypes /\ op["stat"] \in OpTypes
      BY <1>1, BytesFacts, OpFacts DEF OpNames
    <2> QED  BY <2>1 DEF IssueEvent, PollDsr, DsrChanged, HasClosed, IsBusy, OpFailed, Done
  <1>5. op' \in [OpNames -> OpTypes] /\ \A o \in {"read", "send", "recv", "write"} : op'[o] = op[o]
    BY <1>1, <1>4 DEF OpNames
  <1>6. CASE net' = net
    BY <1>1, <1>2, <1>3, <1>5, <1>6, InsideStep
  <1>7. CASE HasClosed
    <2>1. /\ net' \in NetTypes /\ net'.open
          /\ net'.feeds = net.feeds /\ net'.peers = net.peers
      BY <1>1, <1>3, <1>7 DEF HasClosed, NetTypes
    <2> QED  BY <1>1, <1>2, <1>3, <1>5, <2>1, InsideStep
  <1>8. CASE IsBusy
    <2>1. net.peers > 0
      BY <1>8 DEF IsBusy, First, Signalled
    <2>2. Len(net.feeds) \in Nat /\ Len(net.feeds) > 1 /\ Len(net.feeds) # 0
      BY <1>1, <1>3, <2>1, LenProperties
    <2> DEFINE fs == <<Head(net.feeds)>> \o Tail(Tail(net.feeds))
    <2>3. fs \in Seq(Bytes) /\ Len(fs) = Len(net.feeds) - 1
      BY <1>1, <2>2, FeedsFacts
    <2>4. net' = [net EXCEPT !.peers = @ - 1, !.feeds = fs]
      BY <1>8 DEF IsBusy
    <2> HIDE DEF fs
    <2>5. net' \in NetTypes /\ net'.open /\ net'.feeds = fs /\ net'.peers = net.peers - 1
      <3>1. net.peers - 1 \in Nat
        BY <1>1, <2>1
      <3> QED  BY <1>1, <1>3, <2>3, <2>4, <3>1 DEF NetTypes, Bytes
    <2>6. net'.peers + 1 <= Len(net'.feeds) /\ (opt.client => net'.peers = 0)
      BY <1>1, <1>3, <2>1, <2>2, <2>3, <2>5
    <2> QED  BY <1>1, <1>2, <1>5, <2>5, <2>6, InsideStep
  <1> QED  BY <1>6, <1>7, <1>8 DEF IssueEvent, PollDsr, DsrChanged, OpFailed

\* What changes outside without an operation.
LEMMA OutsideSteps ==
  ASSUME Sessions, DsrToggles \/ PeerCloses \/ PeerArrives
  PROVE  Sessions'
  <1>1. /\ RawTypes /\ Peers /\ opt \in Options
        /\ com \in ComTypes /\ net \in NetTypes /\ op \in [OpNames -> OpTypes] /\ out \in OutTypes
        /\ p \in RawProtocols /\ sendBuf \in Bytes /\ writeBuf \in Bytes
        /\ net.feeds \in Seq(Bytes) /\ net.peers \in Nat
        /\ \A o \in {"send", "recv", "write"} : ~net.open => op[o].state = "idle"
    BY SessionFacts, TypeFacts
  <1>2. UNCHANGED <<opt, pc, p, sendBuf, writeBuf, out>>
    BY DEF DsrToggles, PeerCloses, PeerArrives, Still
  <1>3. com' \in ComTypes
    BY <1>1 DEF DsrToggles, PeerCloses, PeerArrives, Still, ComTypes
  <1>4. op' \in [OpNames -> OpTypes] /\ \A o \in {"read", "send", "recv", "write"} : op'[o] = op[o]
    <2>1. CASE DsrToggles
      <3>1. op["stat"] \in OpTypes
        BY <1>1 DEF OpNames
      <3>2. \E r \in OpTypes : op' = [op EXCEPT !["stat"] = r]
        <4>1. [op["stat"] EXCEPT !.state = "done"] \in OpTypes
          BY <3>1, OpFacts
        <4> QED  BY <2>1, <3>1, <4>1 DEF DsrToggles
      <3> QED  BY <1>1, <3>2 DEF OpNames
    <2>2. CASE PeerCloses \/ PeerArrives
      BY <1>1, <2>2 DEF PeerCloses, PeerArrives
    <2> QED  BY <2>1, <2>2
  <1>5. /\ net' \in NetTypes /\ net'.open = net.open /\ net'.feeds = net.feeds
        /\ net'.peers + (IF net'.open THEN 1 ELSE 0) <= Len(net'.feeds)
        /\ opt.client => net'.peers = 0
    <2>1. net.peers + (IF net.open THEN 1 ELSE 0) <= Len(net.feeds) /\ (opt.client => net.peers = 0)
      BY SessionFacts
    <2>2. Len(net.feeds) \in Nat
      BY <1>1, LenProperties
    <2>3. CASE DsrToggles
      BY <1>1, <2>1, <2>3 DEF DsrToggles
    <2>4. CASE PeerCloses
      BY <1>1, <2>1, <2>4 DEF PeerCloses, NetTypes
    <2>5. CASE PeerArrives
      <3>1. net.peers + 1 \in Nat
        BY <1>1
      <3>2. /\ net' \in NetTypes /\ net'.open = net.open
            /\ net'.feeds = net.feeds /\ net'.peers = net.peers + 1
        BY <1>1, <2>5, <3>1 DEF PeerArrives, NetTypes
      <3>3. ~opt.client /\ net.peers + (IF net.open THEN 1 ELSE 0) < Len(net.feeds)
        BY <2>5 DEF PeerArrives
      <3>4. net'.peers + (IF net'.open THEN 1 ELSE 0) <= Len(net'.feeds)
        BY <1>1, <2>2, <3>2, <3>3
      <3> QED  BY <3>2, <3>3, <3>4
    <2> QED  BY <2>3, <2>4, <2>5
  <1>6. RawTypes'
    BY <1>1, <1>2, <1>3, <1>4, <1>5, MakeTypes
  <1>7. Peers'
    BY <1>1, <1>2, <1>5 DEF Peers, InSession
  <1> QED  BY <1>1, <1>2, <1>4, <1>5, <1>6, <1>7, QuietSessions

-----------------------------------------------------------------------------
(* The steps that carry something *)

\* One part of the protocol or of what the session has carried changes.
LEMMA PartChange ==
  ASSUME RawTypes, NEW s \in Bytes
  PROVE  /\ p' = [p EXCEPT !.send = s] =>
              p' \in RawProtocols /\ p'.send = s /\ p'.write = p.write
         /\ p' = [p EXCEPT !.write = s] =>
              p' \in RawProtocols /\ p'.write = s /\ p'.send = p.send
         /\ out' = [out EXCEPT !.fromCom = s] =>
              /\ out' \in OutTypes /\ out'.fromCom = s
              /\ UNCHANGED <<out.toNet, out.fromNet, out.toCom>>
         /\ out' = [out EXCEPT !.toNet = s] =>
              /\ out' \in OutTypes /\ out'.toNet = s
              /\ UNCHANGED <<out.fromCom, out.fromNet, out.toCom>>
         /\ out' = [out EXCEPT !.fromNet = s] =>
              /\ out' \in OutTypes /\ out'.fromNet = s
              /\ UNCHANGED <<out.toNet, out.fromCom, out.toCom>>
         /\ out' = [out EXCEPT !.toCom = s] =>
              /\ out' \in OutTypes /\ out'.toCom = s
              /\ UNCHANGED <<out.toNet, out.fromNet, out.fromCom>>
  <1>1. p \in RawProtocols /\ out \in OutTypes
    BY TypeFacts
  <1>2. /\ p' = [p EXCEPT !.send = s] =>
             p' \in RawProtocols /\ p'.send = s /\ p'.write = p.write
        /\ p' = [p EXCEPT !.write = s] =>
             p' \in RawProtocols /\ p'.write = s /\ p'.send = p.send
    BY <1>1 DEF RawProtocols, Bytes
  <1>3. /\ out' = [out EXCEPT !.fromCom = s] =>
             /\ out' \in OutTypes /\ out'.fromCom = s
             /\ UNCHANGED <<out.toNet, out.fromNet, out.toCom>>
        /\ out' = [out EXCEPT !.toNet = s] =>
             /\ out' \in OutTypes /\ out'.toNet = s
             /\ UNCHANGED <<out.fromCom, out.fromNet, out.toCom>>
    BY <1>1 DEF OutTypes, Bytes
  <1>4. /\ out' = [out EXCEPT !.fromNet = s] =>
             /\ out' \in OutTypes /\ out'.fromNet = s
             /\ UNCHANGED <<out.toNet, out.fromCom, out.toCom>>
        /\ out' = [out EXCEPT !.toCom = s] =>
             /\ out' \in OutTypes /\ out'.toCom = s
             /\ UNCHANGED <<out.toNet, out.fromNet, out.fromCom>>
    BY <1>1 DEF OutTypes, Bytes
  <1> QED  BY <1>2, <1>3, <1>4

\* What a session is while it goes on.
LEMMA OngoingFacts ==
  ASSUME Sessions, pc \in Active \/ \E o \in {"send", "recv", "write"} : op[o].state # "idle"
  PROVE  /\ net.open /\ pc \in Active /\ SendSide /\ WriteSide
         /\ net.peers + 1 <= Len(net.feeds) /\ (opt.client => net.peers = 0)
  BY SessionFacts DEF InSession, Active

\* A step of a session has kept its types when it has kept its protocol, its operations and
\* what it carries.
LEMMA OngoingTypes ==
  ASSUME Sessions, pc \in Active, pc' \in Active, opt' = opt,
         sendBuf' \in Bytes, writeBuf' \in Bytes, p' \in RawProtocols,
         op' \in [OpNames -> OpTypes], out' \in OutTypes, com' \in ComTypes, net' \in NetTypes,
         net'.open = net.open, net'.peers = net.peers, Len(net'.feeds) = Len(net.feeds),
         SendSide', WriteSide'
  PROVE  Sessions'
  <1>1. opt \in Options /\ net.open /\ Peers
    BY OngoingFacts, SessionFacts, TypeFacts
  <1>2. RawTypes'
    BY <1>1, MakeTypes
  <1>3. Peers'
    BY <1>1 DEF Peers, InSession, Active, Outgoing
  <1> QED  BY <1>1, <1>2, <1>3, MakeSessions

\* What was read from the serial port.
LEMMA ReadStep ==
  ASSUME Sessions, HasRead
  PROVE  Sessions'
  <1>1. /\ RawTypes /\ sendBuf \in Bytes /\ writeBuf \in Bytes /\ p.send \in Bytes
        /\ p.telnet = FALSE /\ op \in [OpNames -> OpTypes] /\ com \in ComTypes /\ net \in NetTypes
        /\ SendParts /\ out.fromCom \in Bytes
    BY SessionFacts, TypeFacts DEF SendParts, Parts
  <1>2. pc \in Active /\ pc' \in Active /\ op["read"].state = "done"
    BY DEF HasRead, Done, First, Active
  <1>3. SendSide /\ WriteSide
    BY <1>2, OngoingFacts
  <1>4. /\ op' = [op EXCEPT !["read"] = Idle]
        /\ p' = [p EXCEPT !.send = p.send \o op["read"].data]
        /\ out' = [out EXCEPT !.fromCom = out.fromCom \o op["read"].data]
        /\ UNCHANGED <<opt, com, net, sendBuf, writeBuf>>
    BY <1>1 DEF HasRead, Done, Send
  <1>5. /\ Parts(sendBuf, p.send \o op["read"].data, op["send"], Idle,
                 out.fromCom \o op["read"].data, out.toNet)
        /\ Carried(sendBuf, p.send \o op["read"].data, op["send"], Idle,
                   out.fromCom \o op["read"].data, out.toNet)
    BY <1>1, <1>2, <1>3, ReadCarries DEF SendParts, SendSide
  <1>6. /\ p' \in RawProtocols /\ p'.send = p.send \o op["read"].data /\ p'.write = p.write
        /\ out' \in OutTypes /\ out'.fromCom = out.fromCom \o op["read"].data
        /\ out'.toNet = out.toNet /\ out'.fromNet = out.fromNet /\ out'.toCom = out.toCom
    BY <1>1, <1>4, <1>5, PartChange DEF Parts
  <1>7. /\ op' \in [OpNames -> OpTypes] /\ op'["read"] = Idle
        /\ op'["send"] = op["send"] /\ op'["write"] = op["write"] /\ op'["recv"] = op["recv"]
    BY <1>1, <1>4, OpFacts DEF OpNames
  <1>8. SendSide' /\ WriteSide'
    BY <1>3, <1>4, <1>5, <1>6, <1>7 DEF SendSide, WriteSide
  <1> QED  BY <1>1, <1>2, <1>4, <1>6, <1>7, <1>8, OngoingTypes

\* What was received from the socket.
LEMMA ReceivedStep ==
  ASSUME Sessions, HasReceived
  PROVE  Sessions'
  <1>1. /\ RawTypes /\ sendBuf \in Bytes /\ writeBuf \in Bytes /\ p.write \in Bytes
        /\ p.telnet = FALSE /\ op \in [OpNames -> OpTypes] /\ com \in ComTypes /\ net \in NetTypes
        /\ WriteParts /\ out.fromNet \in Bytes
    BY SessionFacts, TypeFacts DEF WriteParts, Parts
  <1>2. pc \in Active /\ pc' \in Active /\ op["recv"].state = "done"
    BY DEF HasReceived, Done, First, Active
  <1>3. SendSide /\ WriteSide
    BY <1>2, OngoingFacts
  <1>4. /\ op' = [op EXCEPT !["recv"] = Idle]
        /\ p' = [p EXCEPT !.write = p.write \o op["recv"].data]
        /\ out' = [out EXCEPT !.fromNet = out.fromNet \o op["recv"].data]
        /\ UNCHANGED <<opt, com, net, sendBuf, writeBuf>>
    BY <1>1 DEF HasReceived, Done, Write
  <1>5. /\ Parts(writeBuf, p.write \o op["recv"].data, op["write"], Idle,
                 out.fromNet \o op["recv"].data, out.toCom)
        /\ Carried(writeBuf, p.write \o op["recv"].data, op["write"], Idle,
                   out.fromNet \o op["recv"].data, out.toCom)
    BY <1>1, <1>2, <1>3, ReadCarries DEF WriteParts, WriteSide
  <1>6. /\ p' \in RawProtocols /\ p'.write = p.write \o op["recv"].data /\ p'.send = p.send
        /\ out' \in OutTypes /\ out'.fromNet = out.fromNet \o op["recv"].data
        /\ out'.toNet = out.toNet /\ out'.fromCom = out.fromCom /\ out'.toCom = out.toCom
    BY <1>1, <1>4, <1>5, PartChange DEF Parts
  <1>7. /\ op' \in [OpNames -> OpTypes] /\ op'["recv"] = Idle
        /\ op'["send"] = op["send"] /\ op'["write"] = op["write"] /\ op'["read"] = op["read"]
    BY <1>1, <1>4, OpFacts DEF OpNames
  <1>8. SendSide' /\ WriteSide'
    BY <1>3, <1>4, <1>5, <1>6, <1>7 DEF SendSide, WriteSide
  <1> QED  BY <1>1, <1>2, <1>4, <1>6, <1>7, <1>8, OngoingTypes

\* What was sent or written is no longer in the buffers.
LEMMA WrittenSteps ==
  ASSUME Sessions, HasSent \/ HasWritten
  PROVE  Sessions'
  <1>1. /\ RawTypes /\ sendBuf \in Bytes /\ writeBuf \in Bytes /\ p \in RawProtocols
        /\ op \in [OpNames -> OpTypes] /\ com \in ComTypes /\ net \in NetTypes /\ out \in OutTypes
        /\ SendParts /\ WriteParts
    BY SessionFacts, TypeFacts
  <1>2. pc \in Active /\ pc' \in Active /\ UNCHANGED <<opt, com, net, p, out>>
    BY DEF HasSent, HasWritten, Done, First, Active
  <1>3. SendSide /\ WriteSide
    BY <1>2, OngoingFacts
  <1>4. CASE HasSent
    <2> DEFINE buf2 == SubSeq(sendBuf, op["send"].n + 1, Len(sendBuf))
    <2>1. /\ op["send"].state = "done" /\ op' = [op EXCEPT !["send"] = Idle]
          /\ sendBuf' = buf2 /\ writeBuf' = writeBuf
      BY <1>4 DEF HasSent, Done
    <2>2. /\ Parts(buf2, p.send, Idle, op["read"], out.fromCom, out.toNet)
          /\ Carried(buf2, p.send, Idle, op["read"], out.fromCom, out.toNet)
      BY <1>1, <1>3, <2>1, WrittenCarries DEF SendParts, SendSide
    <2> HIDE DEF buf2
    <2>3. /\ op' \in [OpNames -> OpTypes] /\ op'["send"] = Idle
          /\ op'["read"] = op["read"] /\ op'["write"] = op["write"] /\ op'["recv"] = op["recv"]
      BY <1>1, <2>1, OpFacts DEF OpNames
    <2>4. sendBuf' \in Bytes
      BY <2>1, <2>2 DEF Parts
    <2>5. SendSide' /\ WriteSide'
      BY <1>2, <1>3, <2>1, <2>2, <2>3 DEF SendSide, WriteSide
    <2> QED  BY <1>1, <1>2, <2>1, <2>3, <2>4, <2>5, OngoingTypes
  <1>5. CASE HasWritten
    <2> DEFINE buf2 == SubSeq(writeBuf, op["write"].n + 1, Len(writeBuf))
    <2>1. /\ op["write"].state = "done" /\ op' = [op EXCEPT !["write"] = Idle]
          /\ writeBuf' = buf2 /\ sendBuf' = sendBuf
      BY <1>5 DEF HasWritten, Done
    <2>2. /\ Parts(buf2, p.write, Idle, op["recv"], out.fromNet, out.toCom)
          /\ Carried(buf2, p.write, Idle, op["recv"], out.fromNet, out.toCom)
      BY <1>1, <1>3, <2>1, WrittenCarries DEF WriteParts, WriteSide
    <2> HIDE DEF buf2
    <2>3. /\ op' \in [OpNames -> OpTypes] /\ op'["write"] = Idle
          /\ op'["read"] = op["read"] /\ op'["send"] = op["send"] /\ op'["recv"] = op["recv"]
      BY <1>1, <2>1, OpFacts DEF OpNames
    <2>4. writeBuf' \in Bytes
      BY <2>1, <2>2 DEF Parts
    <2>5. SendSide' /\ WriteSide'
      BY <1>2, <1>3, <2>1, <2>2, <2>3 DEF SendSide, WriteSide
    <2> QED  BY <1>1, <1>2, <2>1, <2>3, <2>4, <2>5, OngoingTypes
  <1> QED  BY <1>4, <1>5

\* What is issued at the beginning of a pass.
LEMMA IssueStep ==
  ASSUME Sessions, Issue
  PROVE  Sessions'
  <1> DEFINE sends == op["send"].state = "idle"
             writes == op["write"].state = "idle"
             sent == IF sends THEN Refilled(sendBuf, p.send) ELSE sendBuf
             written == IF writes THEN Refilled(writeBuf, p.write) ELSE writeBuf
             send2 == IF sends THEN Taken(sendBuf, p.send) ELSE p.send
             write2 == IF writes THEN Taken(writeBuf, p.write) ELSE p.write
  <1>1. /\ RawTypes /\ sendBuf \in Bytes /\ writeBuf \in Bytes /\ p \in RawProtocols
        /\ op \in [OpNames -> OpTypes] /\ com \in ComTypes /\ net \in NetTypes /\ out \in OutTypes
        /\ SendParts /\ WriteParts
    BY SessionFacts, TypeFacts
  <1>2. pc \in Active /\ pc' \in Active /\ UNCHANGED <<opt, com, net, out>>
    BY DEF Issue, Active
  <1>3. SendSide /\ WriteSide
    BY <1>2, OngoingFacts
  <1>4. /\ sendBuf' = sent /\ writeBuf' = written
        /\ p' = [p EXCEPT !.send = send2, !.write = write2]
        /\ \/ op' = [op EXCEPT !["send"] = IF sends /\ sent # <<>> THEN Issued(sent) ELSE @,
                       !["read"] = IF @ = Idle /\ ~IsFull(p'.send) THEN Issued(<<>>) ELSE @,
                       !["write"] = IF writes /\ written # <<>> THEN Issued(written) ELSE @,
                       !["recv"] = IF @ = Idle /\ ~IsFull(p'.write) THEN Issued(<<>>) ELSE @]
           \/ op' = op
    <2>1. sends <=> ~Waiting("send")
      BY DEF Waiting
    <2>2. writes <=> ~Waiting("write")
      BY DEF Waiting
    <2> HIDE DEF sends, writes
    <2> QED  BY <2>1, <2>2 DEF Issue
  <1>5. p'.send = send2 /\ p'.write = write2
    <2> HIDE DEF send2, write2
    <2> QED  BY <1>1, <1>4 DEF RawProtocols
  <1>6. /\ Filled(sendBuf, p.send, op["send"], sent, send2)
        /\ Filled(writeBuf, p.write, op["write"], written, write2)
    BY DEF Filled
  <1>7. sends <=> op["send"].state = "idle"
    OBVIOUS
  <1>8. writes <=> op["write"].state = "idle"
    OBVIOUS
  <1> HIDE DEF sends, writes, sent, written, send2, write2
  <1>9. /\ op'["send"] = op["send"] \/ (op["send"].state = "idle" /\ sent # <<>> /\ op'["send"] = Issued(sent))
        /\ op'["write"] = op["write"]
           \/ (op["write"].state = "idle" /\ written # <<>> /\ op'["write"] = Issued(written))
        /\ op'["read"] = op["read"] \/ (~IsFull(send2) /\ op'["read"] = Issued(<<>>))
        /\ op'["recv"] = op["recv"] \/ (~IsFull(write2) /\ op'["recv"] = Issued(<<>>))
        /\ op'["stat"] = op["stat"] /\ DOMAIN op' = OpNames /\ op' = [o \in OpNames |-> op'[o]]
    BY <1>1, <1>4, <1>5, <1>7, <1>8 DEF OpNames
  <1>10. /\ Parts(sent, send2, op'["send"], op'["read"], out.fromCom, out.toNet)
         /\ Carried(sent, send2, op'["send"], op'["read"], out.fromCom, out.toNet)
    BY <1>1, <1>3, <1>6, <1>9, IssueCarries DEF SendParts, SendSide
  <1>11. /\ Parts(written, write2, op'["write"], op'["recv"], out.fromNet, out.toCom)
         /\ Carried(written, write2, op'["write"], op'["recv"], out.fromNet, out.toCom)
    BY <1>1, <1>3, <1>6, <1>9, IssueCarries DEF WriteParts, WriteSide
  <1>12. op' \in [OpNames -> OpTypes]
    <2>1. /\ op'["send"] \in OpTypes /\ op'["read"] \in OpTypes
          /\ op'["write"] \in OpTypes /\ op'["recv"] \in OpTypes
      BY <1>10, <1>11 DEF Parts
    <2>2. op'["stat"] \in OpTypes
      BY <1>1, <1>9 DEF OpNames
    <2>3. \A o \in OpNames : op'[o] \in OpTypes
      BY <2>1, <2>2 DEF OpNames
    <2> QED  BY <1>9, <2>3
  <1>13. p' \in RawProtocols
    <2>1. send2 \in Bytes /\ write2 \in Bytes
      BY <1>10, <1>11 DEF Parts
    <2> QED  BY <1>1, <1>4, <2>1 DEF RawProtocols, Bytes
  <1>14. SendSide' /\ WriteSide'
    BY <1>2, <1>4, <1>5, <1>10, <1>11 DEF SendSide, WriteSide
  <1>15. sendBuf' \in Bytes /\ writeBuf' \in Bytes
    BY <1>4, <1>10, <1>11 DEF Parts
  <1> QED  BY <1>1, <1>2, <1>12, <1>13, <1>14, <1>15, OngoingTypes

\* The socket and the serial port take what is sent and written.
LEMMA TakeSteps ==
  ASSUME Sessions, NetTakes \/ ComTakes
  PROVE  Sessions'
  <1>1. /\ RawTypes /\ sendBuf \in Bytes /\ writeBuf \in Bytes /\ p \in RawProtocols
        /\ op \in [OpNames -> OpTypes] /\ com \in ComTypes /\ net \in NetTypes
        /\ SendParts /\ WriteParts
    BY SessionFacts, TypeFacts
  <1>2. UNCHANGED <<opt, pc, com, net, p, sendBuf, writeBuf>>
    BY DEF NetTakes, ComTakes, Still
  <1>3. CASE NetTakes
    <2>1. op["send"].state = "pending"
      BY <1>3 DEF NetTakes
    <2>2. SendSide /\ WriteSide /\ pc \in Active
      BY <2>1, OngoingFacts
    <2>3. PICK n \in {1, Len(op["send"].data)} :
             /\ Ends("send", op["send"].data, n)
             /\ out' = [out EXCEPT !.toNet = out.toNet \o SubSeq(op["send"].data, 1, n)]
      BY <1>3 DEF NetTakes
    <2> DEFINE w2 == [state |-> "done", data |-> op["send"].data, n |-> n]
               to2 == out.toNet \o SubSeq(op["send"].data, 1, n)
    <2>4. op' = [op EXCEPT !["send"] = w2] /\ out' = [out EXCEPT !.toNet = to2]
      BY <2>3 DEF Ends
    <2>5. /\ Parts(sendBuf, p.send, w2, op["read"], out.fromCom, to2)
          /\ Carried(sendBuf, p.send, w2, op["read"], out.fromCom, to2)
      BY <1>1, <2>1, <2>2, TakeCarries DEF SendParts, SendSide
    <2> HIDE DEF w2, to2
    <2>6. /\ op' \in [OpNames -> OpTypes] /\ op'["send"] = w2
          /\ op'["read"] = op["read"] /\ op'["write"] = op["write"] /\ op'["recv"] = op["recv"]
      BY <1>1, <2>4, <2>5 DEF OpNames, Parts
    <2>7. /\ out' \in OutTypes /\ out'.toNet = to2
          /\ out'.fromCom = out.fromCom /\ out'.fromNet = out.fromNet /\ out'.toCom = out.toCom
      BY <1>1, <2>4, <2>5, PartChange DEF Parts
    <2>8. SendSide' /\ WriteSide'
      BY <1>2, <2>2, <2>5, <2>6, <2>7 DEF SendSide, WriteSide
    <2> QED  BY <1>1, <1>2, <2>2, <2>6, <2>7, <2>8, OngoingTypes
  <1>4. CASE ComTakes
    <2>1. op["write"].state = "pending"
      BY <1>4 DEF ComTakes
    <2>2. SendSide /\ WriteSide /\ pc \in Active
      BY <2>1, OngoingFacts
    <2>3. PICK n \in {1, Len(op["write"].data)} :
             /\ Ends("write", op["write"].data, n)
             /\ out' = [out EXCEPT !.toCom = out.toCom \o SubSeq(op["write"].data, 1, n)]
      BY <1>4 DEF ComTakes
    <2> DEFINE w2 == [state |-> "done", data |-> op["write"].data, n |-> n]
               to2 == out.toCom \o SubSeq(op["write"].data, 1, n)
    <2>4. op' = [op EXCEPT !["write"] = w2] /\ out' = [out EXCEPT !.toCom = to2]
      BY <2>3 DEF Ends
    <2>5. /\ Parts(writeBuf, p.write, w2, op["recv"], out.fromNet, to2)
          /\ Carried(writeBuf, p.write, w2, op["recv"], out.fromNet, to2)
      BY <1>1, <2>1, <2>2, TakeCarries DEF WriteParts, WriteSide
    <2> HIDE DEF w2, to2
    <2>6. /\ op' \in [OpNames -> OpTypes] /\ op'["write"] = w2
          /\ op'["read"] = op["read"] /\ op'["send"] = op["send"] /\ op'["recv"] = op["recv"]
      BY <1>1, <2>4, <2>5 DEF OpNames, Parts
    <2>7. /\ out' \in OutTypes /\ out'.toCom = to2
          /\ out'.fromCom = out.fromCom /\ out'.fromNet = out.fromNet /\ out'.toNet = out.toNet
      BY <1>1, <2>4, <2>5, PartChange DEF Parts
    <2>8. SendSide' /\ WriteSide'
      BY <1>2, <2>2, <2>5, <2>6, <2>7 DEF SendSide, WriteSide
    <2> QED  BY <1>1, <1>2, <2>2, <2>6, <2>7, <2>8, OngoingTypes
  <1> QED  BY <1>3, <1>4

\* What came ends a read; Sizes gives the lengths of what comes.
LEMMA SizesFacts ==
  ASSUME NEW s \in Bytes, NEW n \in Sizes(s)
  PROVE  /\ n \in Nat /\ n <= BufSize
         /\ SubSeq(s, 1, n) \in Bytes /\ Len(SubSeq(s, 1, n)) <= BufSize
         /\ SubSeq(s, n + 1, Len(s)) \in Bytes
  <1>1. Len(s) \in Nat
    BY BytesFacts
  <1>2. n \in 0..Len(s) /\ n \in Nat /\ n <= BufSize
    BY <1>1, BufSizeAssumption DEF Sizes
  <1> QED  BY <1>2, CutFacts

\* The serial port has something.
LEMMA ComReadsStep ==
  ASSUME Sessions, ComReads
  PROVE  Sessions'
  <1>1. /\ RawTypes /\ sendBuf \in Bytes /\ writeBuf \in Bytes /\ p \in RawProtocols
        /\ op \in [OpNames -> OpTypes] /\ com \in ComTypes /\ net \in NetTypes /\ out \in OutTypes
        /\ SendParts /\ WriteParts /\ com.feed \in Bytes /\ opt \in Options /\ Peers
        /\ \A o \in {"send", "recv", "write"} : ~net.open => op[o].state = "idle"
    BY SessionFacts, TypeFacts
  <1>2. UNCHANGED <<opt, pc, net, p, sendBuf, writeBuf, out>> /\ op["read"].state = "pending"
    BY DEF ComReads, Still
  <1>3. PICK n \in Sizes(com.feed) :
           /\ Ends("read", SubSeq(com.feed, 1, n), n)
           /\ com' = [com EXCEPT !.feed = SubSeq(com.feed, n + 1, Len(com.feed))]
    BY DEF ComReads
  <1> DEFINE s == SubSeq(com.feed, 1, n)
             rest == SubSeq(com.feed, n + 1, Len(com.feed))
  <1>4. s \in Bytes /\ Len(s) <= BufSize /\ rest \in Bytes /\ n \in Nat
    BY <1>1, SizesFacts
  <1>5. op' = [op EXCEPT !["read"] = [state |-> "done", data |-> s, n |-> n]]
    BY <1>3 DEF Ends
  <1>6. com' = [com EXCEPT !.feed = rest]
    BY <1>3
  <1> HIDE DEF s, rest
  <1>7. com' \in ComTypes
    BY <1>1, <1>4, <1>6 DEF ComTypes, Bytes
  <1>8. /\ op' \in [OpNames -> OpTypes]
        /\ op'["read"] = [state |-> "done", data |-> s, n |-> n]
        /\ op'["send"] = op["send"] /\ op'["write"] = op["write"] /\ op'["recv"] = op["recv"]
    BY <1>1, <1>4, <1>5, OpFacts DEF OpNames
  <1>9. CASE net.open
    <2>1. SendSide /\ WriteSide /\ pc \in Active
      BY <1>1, <1>9, SessionFacts DEF Peers, InSession, Active
    <2>2. Carried(sendBuf, p.send, op["send"], [state |-> "done", data |-> s, n |-> n],
                  out.fromCom, out.toNet)
      BY <1>1, <1>2, <1>4, <2>1, GotCarries DEF SendParts, SendSide
    <2>3. SendSide' /\ WriteSide'
      BY <1>2, <1>8, <2>1, <2>2 DEF SendSide, WriteSide
    <2> QED  BY <1>1, <1>2, <1>7, <1>8, <2>1, <2>3, OngoingTypes
  <1>10. CASE ~net.open
    <2>1. RawTypes'
      BY <1>1, <1>2, <1>7, <1>8, MakeTypes
    <2>2. Peers'
      BY <1>1, <1>2 DEF Peers, InSession
    <2> QED  BY <1>1, <1>2, <1>8, <1>10, <2>1, <2>2, QuietSessions
  <1> QED  BY <1>9, <1>10

\* The peer has something, or will send nothing more.
LEMMA NetGivesStep ==
  ASSUME Sessions, NetGives \/ NetEnds
  PROVE  Sessions'
  <1>1. /\ RawTypes /\ sendBuf \in Bytes /\ writeBuf \in Bytes /\ p \in RawProtocols
        /\ op \in [OpNames -> OpTypes] /\ com \in ComTypes /\ net \in NetTypes /\ out \in OutTypes
        /\ SendParts /\ WriteParts /\ net.feeds \in Seq(Bytes) /\ net.peers \in Nat
    BY SessionFacts, TypeFacts
  <1>2. UNCHANGED <<opt, pc, com, p, sendBuf, writeBuf, out>> /\ op["recv"].state = "pending"
    BY DEF NetGives, NetEnds, Still
  <1>3. net.open /\ pc \in Active /\ SendSide /\ WriteSide /\ net.peers + 1 <= Len(net.feeds)
    BY <1>2, OngoingFacts
  <1>4. Len(net.feeds) \in Nat /\ Len(net.feeds) # 0
    BY <1>1, <1>3, LenProperties
  <1>5. ASSUME NEW s \in Bytes, NEW n \in Nat, Len(s) <= BufSize, Ends("recv", s, n),
               net' \in NetTypes, net'.open = net.open, net'.peers = net.peers,
               Len(net'.feeds) = Len(net.feeds)
        PROVE  Sessions'
    <2>1. op' = [op EXCEPT !["recv"] = [state |-> "done", data |-> s, n |-> n]]
      BY <1>5 DEF Ends
    <2>2. /\ op' \in [OpNames -> OpTypes]
          /\ op'["recv"] = [state |-> "done", data |-> s, n |-> n]
          /\ op'["send"] = op["send"] /\ op'["write"] = op["write"] /\ op'["read"] = op["read"]
      BY <1>1, <2>1, OpFacts DEF OpNames
    <2>3. Carried(writeBuf, p.write, op["write"], [state |-> "done", data |-> s, n |-> n],
                  out.fromNet, out.toCom)
      BY <1>1, <1>2, <1>3, <1>5, GotCarries DEF WriteParts, WriteSide
    <2>4. SendSide' /\ WriteSide'
      BY <1>2, <1>3, <2>2, <2>3 DEF SendSide, WriteSide
    <2> QED  BY <1>1, <1>2, <1>3, <1>5, <2>2, <2>4, OngoingTypes
  <1>6. CASE NetGives
    <2> DEFINE f == Head(net.feeds)
    <2>1. f \in Bytes /\ net.feeds[1] = f
      BY <1>1, <1>4, FeedsFacts
    <2>2. PICK n \in Sizes(f) :
             /\ Ends("recv", SubSeq(f, 1, n), n)
             /\ net' = [net EXCEPT !.feeds[1] = SubSeq(@, n + 1, Len(@))]
      BY <1>6 DEF NetGives
    <2> HIDE DEF f
    <2>3. /\ SubSeq(f, 1, n) \in Bytes /\ Len(SubSeq(f, 1, n)) <= BufSize /\ n \in Nat
          /\ SubSeq(f, n + 1, Len(f)) \in Bytes
      BY <2>1, SizesFacts
    <2> DEFINE fs == [net.feeds EXCEPT ![1] = SubSeq(f, n + 1, Len(f))]
    <2>4. fs \in Seq(Bytes) /\ Len(fs) = Len(net.feeds)
      BY <1>1, <1>4, <2>3, FeedsFacts
    <2>5. net' = [net EXCEPT !.feeds = fs]
      BY <1>1, <2>1, <2>2
    <2> HIDE DEF fs
    <2>6. /\ net' \in NetTypes /\ net'.open = net.open /\ net'.peers = net.peers
          /\ net'.feeds = fs
      BY <1>1, <2>4, <2>5 DEF NetTypes, Bytes
    <2> QED  BY <1>5, <2>2, <2>3, <2>4, <2>6
  <1>7. CASE NetEnds
    <2>1. Ends("recv", <<>>, 0) /\ net' = net
      BY <1>7 DEF NetEnds
    <2>2. <<>> \in Bytes /\ Len(<<>>) <= BufSize /\ 0 \in Nat
      BY BytesFacts, BufSizeAssumption
    <2> QED  BY <1>1, <1>5, <2>1, <2>2
  <1> QED  BY <1>6, <1>7

\* Operations that fail, and a read that met the end of the stream.
LEMMA FailSteps ==
  ASSUME Sessions, HasReceivedEof \/ NetRefuses \/ OpFails
  PROVE  Sessions'
  <1>1. /\ RawTypes /\ sendBuf \in Bytes /\ writeBuf \in Bytes /\ p \in RawProtocols
        /\ op \in [OpNames -> OpTypes] /\ com \in ComTypes /\ net \in NetTypes /\ out \in OutTypes
        /\ SendParts /\ WriteParts /\ opt \in Options /\ Peers
        /\ \A o \in OpNames : op[o] \in OpTypes
        /\ \A o \in {"send", "recv", "write"} : ~net.open => op[o].state = "idle"
    BY SessionFacts, TypeFacts
  <1>2. /\ UNCHANGED <<opt, com, net, p, sendBuf, writeBuf, out>>
        /\ HasReceivedEof \/ pc' = pc
    BY DEF HasReceivedEof, NetRefuses, OpFails, Still
  <1>3. CASE HasReceivedEof
    <2>1. /\ pc \in Active /\ pc' \in Active
          /\ op' = [op EXCEPT !["recv"] = [Idle EXCEPT !.state = "eof"]]
      BY <1>3 DEF HasReceivedEof, Done, First, Active
    <2>2. SendSide /\ WriteSide
      BY <2>1, OngoingFacts
    <2> DEFINE r2 == [Idle EXCEPT !.state = "eof"]
    <2>3. r2 \in OpTypes /\ r2.state = "eof"
      BY OpFacts DEF Idle
    <2> HIDE DEF r2
    <2>4. Carried(writeBuf, p.write, op["write"], r2, out.fromNet, out.toCom)
      BY <1>1, <2>2, <2>3, FailCarries DEF WriteParts, WriteSide
    <2>5. /\ op' \in [OpNames -> OpTypes] /\ op'["recv"] = r2
          /\ op'["send"] = op["send"] /\ op'["write"] = op["write"] /\ op'["read"] = op["read"]
      BY <1>1, <2>1, <2>3 DEF OpNames, r2
    <2>6. SendSide' /\ WriteSide'
      BY <1>2, <2>2, <2>4, <2>5 DEF SendSide, WriteSide
    <2> QED  BY <1>1, <1>2, <2>1, <2>5, <2>6, OngoingTypes
  <1>4. ASSUME pc' = pc, NEW o \in {"read", "write", "send"}, op[o].state = "pending",
               op' = [op EXCEPT ![o].state = "failed"]
        PROVE  Sessions'
    <2> DEFINE f == [op[o] EXCEPT !.state = "failed"]
    <2>1. op' = [op EXCEPT ![o] = f]
      BY <1>4
    <2>2. f \in OpTypes
      BY <1>1, OpFacts DEF OpNames
    <2> HIDE DEF f
    <2>3. op' \in [OpNames -> OpTypes] /\ op'[o] = f /\ \A q \in OpNames \ {o} : op'[q] = op[q]
      BY <1>1, <2>1, <2>2 DEF OpNames
    <2>4. CASE net.open
      <3>1. SendSide /\ WriteSide /\ pc \in Active
        BY <1>1, <2>4, SessionFacts DEF Peers, InSession, Active
      <3>2. /\ Carried(sendBuf, p.send, op'["send"], op'["read"], out.fromCom, out.toNet)
            /\ Carried(writeBuf, p.write, op'["write"], op'["recv"], out.fromNet, out.toCom)
        <4>1. CASE o = "read"
          <5>1. /\ op'["read"] = [op["read"] EXCEPT !.state = "failed"]
                /\ op'["send"] = op["send"] /\ op'["write"] = op["write"] /\ op'["recv"] = op["recv"]
            BY <2>3, <4>1 DEF OpNames, f
          <5>2. Carried(sendBuf, p.send, op["send"], [op["read"] EXCEPT !.state = "failed"],
                        out.fromCom, out.toNet)
            BY <1>1, <3>1, FailCarries DEF SendParts, SendSide
          <5> QED  BY <3>1, <5>1, <5>2 DEF WriteSide
        <4>2. CASE o = "send"
          <5>1. /\ op'["send"] = [op["send"] EXCEPT !.state = "failed"]
                /\ op'["read"] = op["read"] /\ op'["write"] = op["write"] /\ op'["recv"] = op["recv"]
            BY <2>3, <4>2 DEF OpNames, f
          <5>2. op["send"].state = "pending"
            BY <1>4, <4>2
          <5>3. Carried(sendBuf, p.send, [op["send"] EXCEPT !.state = "failed"], op["read"],
                        out.fromCom, out.toNet)
            BY <1>1, <3>1, <5>2, FailCarries DEF SendParts, SendSide
          <5> QED  BY <3>1, <5>1, <5>3 DEF WriteSide
        <4>3. CASE o = "write"
          <5>1. /\ op'["write"] = [op["write"] EXCEPT !.state = "failed"]
                /\ op'["read"] = op["read"] /\ op'["send"] = op["send"] /\ op'["recv"] = op["recv"]
            BY <2>3, <4>3 DEF OpNames, f
          <5>2. op["write"].state = "pending"
            BY <1>4, <4>3
          <5>3. Carried(writeBuf, p.write, [op["write"] EXCEPT !.state = "failed"], op["recv"],
                        out.fromNet, out.toCom)
            BY <1>1, <3>1, <5>2, FailCarries DEF WriteParts, WriteSide
          <5> QED  BY <3>1, <5>1, <5>3 DEF SendSide
        <4> QED  BY <4>1, <4>2, <4>3
      <3>3. SendSide' /\ WriteSide'
        BY <1>2, <3>2 DEF SendSide, WriteSide
      <3> QED  BY <1>1, <1>2, <1>4, <2>3, <3>1, <3>3, OngoingTypes
    <2>5. CASE ~net.open
      <3>1. RawTypes'
        BY <1>1, <1>2, <2>3, MakeTypes
      <3>2. Peers'
        BY <1>1, <1>2, <1>4 DEF Peers, InSession
      <3>3. o = "read"
        BY <1>1, <1>4, <2>5
      <3>4. \A q \in {"send", "recv", "write"} : op'[q].state = "idle"
        BY <1>1, <2>3, <2>5, <3>3 DEF OpNames
      <3> QED  BY <1>1, <1>2, <2>5, <3>1, <3>2, <3>4, QuietSessions
    <2> QED  BY <2>4, <2>5
  <1>5. CASE NetRefuses
    <2>1. /\ pc' = pc /\ op["send"].state = "pending"
          /\ op' = [op EXCEPT !["send"].state = "failed"]
      BY <1>5 DEF NetRefuses, Still
    <2> QED  BY <1>4, <2>1
  <1>6. CASE OpFails
    <2>1. pc' = pc /\ \E o \in {"read", "write"} :
             op[o].state = "pending" /\ op' = [op EXCEPT ![o].state = "failed"]
      BY <1>6 DEF OpFails
    <2> QED  BY <1>4, <2>1
  <1> QED  BY <1>3, <1>5, <1>6

-----------------------------------------------------------------------------
(* The theorems *)

LEMMA InitSessions ==
  ASSUME Init, ~opt.telnet
  PROVE  Sessions
  <1>1. /\ opt \in Options /\ opt.telnet = FALSE /\ opt.client \in BOOLEAN
        /\ ComFeed[opt] \in Bytes /\ NetFeeds[opt] \in Seq(Bytes)
    BY OptionsAssumption DEF Init, Bytes
  <1>2. p = NewProtocol(FALSE)
    BY <1>1 DEF Init
  <1>3. p.send = <<>> /\ p.write = <<>> /\ p \in RawProtocols
    <2>1. <<>> \in Seq(STRING)
      BY BytesFacts DEF Bytes
    <2>2. [o \in OptionNames |-> "cant"] \in [OptionNames -> {"cant"}]
      OBVIOUS
    <2> HIDE DEF OptionNames
    <2> QED  BY <1>2, <2>1, <2>2 DEF NewProtocol, RawProtocols
  <1>4. /\ sendBuf = <<>> /\ writeBuf = <<>> /\ out = NoSession
        /\ op = [o \in OpNames |-> Idle]
        /\ pc \notin Active /\ (pc \in Outgoing => opt.client)
    BY <1>1 DEF Init, Active, Outgoing
  <1>5. op \in [OpNames -> OpTypes] /\ \A o \in {"send", "recv", "write"} : op[o].state = "idle"
    BY <1>4, OpFacts DEF OpNames
  <1>6. com \in ComTypes
    <2>1. PICK d \in BOOLEAN : com = [open |-> FALSE, dtr |-> FALSE, dsr |-> d, feed |-> ComFeed[opt]]
      BY DEF Init
    <2> QED  BY <1>1, <2>1 DEF ComTypes, Bytes
  <1>7. /\ net \in NetTypes /\ ~net.open /\ net.peers = 0 /\ net.feeds \in Seq(Bytes)
    BY <1>1 DEF Init, NetTypes, Bytes
  <1>8. out \in OutTypes
    BY <1>4, BytesFacts DEF NoSession, OutTypes, Bytes
  <1>9. RawTypes
    <2>1. sendBuf \in Bytes /\ writeBuf \in Bytes
      BY <1>4, BytesFacts
    <2> QED  BY <1>1, <1>3, <1>5, <1>6, <1>7, <1>8, <2>1
             DEF RawTypes, ComTypes, NetTypes, OutTypes, Bytes
  <1>10. Peers
    <2>1. Len(net.feeds) \in Nat
      BY <1>7, LenProperties
    <2> QED  BY <1>4, <1>7, <2>1 DEF Peers, InSession, Active
  <1>11. Bounded
    <2>1. Len(p.send) = 0 /\ Len(p.write) = 0
      BY <1>3, BytesFacts
    <2> QED  BY <2>1, BufSizeAssumption, ThresholdAssumption DEF Bounded
  <1> QED  BY <1>1, <1>7, <1>5, <1>9, <1>10, <1>11 DEF Sessions

LEMMA NextSessions ==
  ASSUME Sessions, [Next]_vars
  PROVE  Sessions'
  <1>1. CASE UNCHANGED vars
    BY <1>1 DEF vars, Sessions, RawTypes, Peers, InSession, Bounded, SendSide, WriteSide
  <1>2. CASE OpenCom \/ StartWait \/ LookAtDsr \/ Skipped \/ WatchFails \/ DsrEvent
    BY <1>2, ClientSteps
  <1>3. CASE ConnectToPeer \/ AcceptPeer \/ EndSession
    BY <1>3, ConnectStep, AcceptStep, EndStep
  <1>4. CASE IssueEvent \/ PollDsr \/ DsrChanged \/ HasClosed \/ IsBusy \/ \E o \in OpNames : OpFailed(o)
    BY <1>4, InsideSteps
  <1>5. CASE Issue \/ HasRead \/ HasSent \/ HasReceived \/ HasWritten
    BY <1>5, IssueStep, ReadStep, ReceivedStep, WrittenSteps
  <1>6. CASE HasReceivedEof \/ NetRefuses \/ OpFails
    BY <1>6, FailSteps
  <1>7. CASE ComReads \/ ComTakes \/ NetTakes \/ NetGives \/ NetEnds
    BY <1>7, ComReadsStep, TakeSteps, NetGivesStep
  <1>8. CASE DsrToggles \/ PeerCloses \/ PeerArrives
    BY <1>8, OutsideSteps
  <1> QED  BY <1>1, <1>2, <1>3, <1>4, <1>5, <1>6, <1>7, <1>8 DEF Next, Program, World

\* The command line is chosen once.
LEMMA OptionsStay ==
  ASSUME [Next]_vars
  PROVE  opt' = opt
  BY DEF Next, Program, World, vars, OpenCom, StartWait, LookAtDsr, Skipped, WatchFails, DsrEvent,
         ConnectToPeer, AcceptPeer, Issue, IssueEvent, PollDsr, HasRead, HasSent, HasReceived,
         HasReceivedEof, HasWritten, DsrChanged, HasClosed, IsBusy, OpFailed, EndSession,
         ComReads, ComTakes, NetTakes, NetGives, NetEnds, NetRefuses, DsrToggles, PeerCloses,
         PeerArrives, OpFails, Still

\* Without telnet, in every state: the types hold, the peers are counted, and each direction
\* has in its buffer, in its stream and behind it what was read, in that order.
THEOREM RawInvariant == Spec => []RawSessions
  <1>1. RawSessions <=> (~opt.telnet => Sessions)
    BY DEF RawSessions, Sessions, SendSide, WriteSide, Faithful
  <1> DEFINE Inv == ~opt.telnet => Sessions
  <1>2. Init => Inv
    BY InitSessions
  <1>3. Inv /\ [Next]_vars => Inv'
    BY NextSessions, OptionsStay
  <1>4. Inv => RawSessions
    BY <1>1
  <1> QED  BY <1>2, <1>3, <1>4, PTL DEF Spec

\* Without telnet no byte of a session is lost, doubled or moved between the serial port and
\* the socket, whatever ends in part and whatever fails.
THEOREM RawFaithful == Spec => [](~opt.telnet => Faithful)
  <1>1. ASSUME RawSessions, ~opt.telnet, InSession
        PROVE  /\ Plain(out.toNet \o LeftOf("send", sendBuf) \o p.send) = out.fromCom
               /\ out.toCom \o LeftOf("write", writeBuf) \o p.write = Plain(out.fromNet)
    <2>1. net.open
      BY <1>1 DEF RawSessions, Peers
    <2>2. /\ out.toNet \o Rest(op["send"], sendBuf) \o p.send = out.fromCom
          /\ out.toCom \o Rest(op["write"], writeBuf) \o p.write = out.fromNet
      BY <1>1, <2>1 DEF RawSessions, Carried
    <2> QED  BY <1>1, <2>2 DEF Plain, LeftOf
  <1>2. RawSessions => (~opt.telnet => Faithful)
    BY <1>1 DEF Faithful
  <1> QED  BY <1>2, RawInvariant, PTL

\* Without telnet neither stream has ever more than its threshold and one read.
THEOREM RawBounded == Spec => [](~opt.telnet => Bounded)
  <1>1. RawSessions => (~opt.telnet => Bounded)
    BY DEF RawSessions
  <1> QED  BY <1>1, RawInvariant, PTL

=============================================================================
