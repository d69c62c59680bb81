-------------------------- MODULE ReadBuffer_proofs --------------------------
(***************************************************************************)
(* Theorems about ReadBuffer, for every size of the rings, every input and *)
(* every setting of the receiving port.                                    *)
(***************************************************************************)
EXTENDS ReadBuffer, SequenceTheorems, TLAPS

-----------------------------------------------------------------------------
(* Sequences *)

\* The lesser of two numbers.
LEMMA LeastFacts ==
  ASSUME NEW m \in Nat, NEW n \in Nat
  PROVE  Least(m, n) \in Nat /\ Least(m, n) <= m /\ Least(m, n) <= n
  BY DEF Least

\* What is left of l items after the first n.
LEMMA LeftFacts ==
  ASSUME NEW l \in Nat, NEW n \in Nat,
         NEW x, x = IF n + 1 <= l THEN l - (n + 1) + 1 ELSE 0
  PROVE  x = l - Least(l, n)
  BY DEF Least

\* The two parts of a sequence cut at n.
LEMMA CutFacts ==
  ASSUME NEW S, NEW s \in Seq(S), NEW n \in Nat
  PROVE  /\ Upto(s, n) \in Seq(S)
         /\ Len(Upto(s, n)) = Least(Len(s), n)
         /\ \A i \in 1 .. Least(Len(s), n) : Upto(s, n)[i] = s[i]
         /\ From(s, n) \in Seq(S)
         /\ Len(From(s, n)) = Len(s) - Least(Len(s), n)
         /\ Least(Len(s), n) \in Nat
         /\ Least(Len(s), n) <= n /\ Least(Len(s), n) <= Len(s)
  <1> DEFINE m == Least(Len(s), n)
  <1>1. Len(s) \in Nat /\ m \in Nat /\ m <= n /\ m <= Len(s)
    BY DEF Least
  <1>2. \A i \in 1 .. Len(s) : s[i] \in S
    OBVIOUS
  <1>3. /\ SubSeq(s, 1, m) \in Seq(S)
        /\ Len(SubSeq(s, 1, m)) = IF 1 <= m THEN m - 1 + 1 ELSE 0
        /\ \A i \in 1 .. m - 1 + 1 : SubSeq(s, 1, m)[i] = s[1 + i - 1]
    <2>1. \A i \in 1 .. m : s[i] \in S
      BY <1>1, <1>2
    <2> HIDE DEF m
    <2> QED  BY <1>1, <2>1, SubSeqProperties
  <1>4. /\ SubSeq(s, n + 1, Len(s)) \in Seq(S)
        /\ Len(SubSeq(s, n + 1, Len(s))) =
             IF n + 1 <= Len(s) THEN Len(s) - (n + 1) + 1 ELSE 0
    BY <1>1, <1>2, SubSeqProperties
  <1>5. Upto(s, n) = SubSeq(s, 1, m) /\ From(s, n) = SubSeq(s, n + 1, Len(s))
    BY DEF Upto, From
  <1>6. Len(From(s, n)) = Len(s) - m
    BY <1>1, <1>4, <1>5, LeftFacts
  <1>7. Len(Upto(s, n)) = m /\ \A i \in 1 .. m : Upto(s, n)[i] = s[i]
    <2> HIDE DEF m
    <2>1. \A i \in 1 .. m : i \in 1 .. m - 1 + 1 /\ 1 + i - 1 = i
      BY <1>1
    <2> QED  BY <1>1, <1>3, <1>5, <2>1
  <1> QED  BY <1>1, <1>3, <1>4, <1>5, <1>6, <1>7

-----------------------------------------------------------------------------
(* Rings: the arithmetic of the pointers, then what becomes of the bytes *)

Numbers(r) ==
  /\ r.size \in Nat \ {0} /\ r.busy \in 0 .. r.size
  /\ r.busyAt \in 0 .. r.size - 1 /\ r.freeAt \in 0 .. r.size - 1
  /\ r.busyAt + r.busy = r.freeAt \/ r.busyAt + r.busy = r.freeAt + r.size

Memory(r) ==
  /\ r.mem \in [0 .. r.size - 1 -> Symbols \cup {Stale}]
  /\ \A k \in 1 .. r.busy : r.mem[Place(r, k)] \in Symbols

LEMMA RingParts ==
  ASSUME NEW r
  PROVE  RingOK(r) <=> Numbers(r) /\ Memory(r)
  BY DEF RingOK, Numbers, Memory

\* The runs of a ring lie inside it and hold, or have room for, what they say.
LEMMA RunFacts ==
  ASSUME NEW r, Numbers(r)
  PROVE  /\ FilledRun(r) \in Nat /\ FreeRun(r) \in Nat
         /\ r.busy > 0 => FilledRun(r) <= r.busy /\ FilledRun(r) > 0
         /\ r.busyAt + FilledRun(r) <= r.size
         /\ r.freeAt + FreeRun(r) <= r.size
         /\ r.busy < r.size => FreeRun(r) <= r.size - r.busy /\ FreeRun(r) > 0
  BY DEF Numbers, FilledRun, FreeRun

\* The pointers after n bytes of the filled run have been taken.
LEMMA TakeNumbers ==
  ASSUME NEW r, NEW t, Numbers(r), NEW n \in Nat, n <= FilledRun(r), n <= r.busy,
         t.size = r.size, t.freeAt = r.freeAt, t.busy = r.busy - n,
         t.busyAt = Wrap(r, r.busyAt + n)
  PROVE  /\ Numbers(t)
         /\ r.busy - n > 0 => FilledRun(r) - n <= FilledRun(t)
  BY DEF Numbers, FilledRun, Wrap

\* The bytes that stay are where they were.
LEMMA TakePlaces ==
  ASSUME NEW r, NEW t, Numbers(r), NEW n \in Nat, n <= FilledRun(r), n <= r.busy,
         t.size = r.size, t.busyAt = Wrap(r, r.busyAt + n),
         NEW k \in 1 .. r.busy - n
  PROVE  /\ k + n \in 1 .. r.busy /\ Place(t, k) = Place(r, k + n)
         /\ Place(r, k + n) \in 0 .. r.size - 1
         /\ Place(r, k + n) \notin r.busyAt .. r.busyAt + n - 1
  BY DEF Numbers, FilledRun, Wrap, Place

\* The bytes that are taken lie in a row.
LEMMA RunPlaces ==
  ASSUME NEW r, Numbers(r), NEW n \in Nat, n <= FilledRun(r), n <= r.busy,
         NEW k \in 1 .. n
  PROVE  k \in 1 .. r.busy /\ Place(r, k) = r.busyAt + k - 1
  BY DEF Numbers, FilledRun, Place

\* The pointers after n bytes have been put into the free run.
LEMMA PutNumbers ==
  ASSUME NEW r, NEW p, Numbers(r), NEW n \in Nat, r.busy + n <= r.size,
         n <= FreeRun(r),
         p.size = r.size, p.busyAt = r.busyAt, p.busy = r.busy + n,
         p.freeAt = Wrap(r, r.freeAt + n)
  PROVE  /\ Numbers(p)
         /\ FreeRun(r) - n <= FreeRun(p) \/ FreeRun(r) - n = 0
  <1>1. CASE r.freeAt + n = r.size
    <2>1. p.freeAt = 0
      BY <1>1 DEF Numbers, Wrap
    <2>2. Numbers(p)
      BY <1>1, <2>1 DEF Numbers, FreeRun
    <2>3. FreeRun(r) - n = 0
      BY <1>1, RunFacts DEF Numbers
    <2> QED  BY <2>2, <2>3
  <1>2. CASE r.freeAt + n # r.size
    BY <1>2 DEF Numbers, FreeRun, Wrap
  <1> QED  BY <1>1, <1>2

\* The bytes that were there stay, and the new ones follow them.
LEMMA PutPlaces ==
  ASSUME NEW r, NEW p, Numbers(r), NEW n \in Nat, r.busy + n <= r.size,
         n <= FreeRun(r),
         p.size = r.size, p.busyAt = r.busyAt, NEW k \in 1 .. r.busy + n
  PROVE  /\ Place(p, k) = Place(r, k) /\ Place(r, k) \in 0 .. r.size - 1
         /\ k <= r.busy => Place(r, k) \notin r.freeAt .. r.freeAt + n - 1
         /\ k > r.busy => /\ Place(r, k) \in r.freeAt .. r.freeAt + n - 1
                          /\ Place(r, k) - r.freeAt + 1 \in 1 .. n
  BY DEF Numbers, FreeRun, Place

\* Taking what the filled run holds leaves a well-formed ring.
LEMMA TakeFacts ==
  ASSUME NEW r, RingOK(r), NEW n \in Nat, n <= FilledRun(r), n <= r.busy
  PROVE  /\ RingOK(Take(r, n))
         /\ Take(r, n).size = r.size
         /\ Take(r, n).busy = r.busy - n
         /\ Cells(r, n) \in Seq(Symbols)
         /\ Len(Cells(r, n)) = n
         /\ r.busy - n > 0 => FilledRun(r) - n <= FilledRun(Take(r, n))
  <1> DEFINE t == Take(r, n)
  <1>1. Numbers(r) /\ Memory(r)
    BY RingParts
  <1>2. r.busy \in Nat /\ r.busy <= r.size
    BY <1>1 DEF Numbers
  <1>3. /\ t.size = r.size /\ t.freeAt = r.freeAt /\ t.busy = r.busy - n
        /\ t.busyAt = Wrap(r, r.busyAt + n)
        /\ t.mem = [c \in DOMAIN r.mem |->
             IF c \in r.busyAt .. r.busyAt + n - 1 THEN Stale ELSE r.mem[c]]
    BY DEF Take
  <1> HIDE DEF t
  <1>4. Numbers(t) /\ (r.busy - n > 0 => FilledRun(r) - n <= FilledRun(t))
    BY <1>1, <1>3, TakeNumbers
  <1>5. t.mem \in [0 .. t.size - 1 -> Symbols \cup {Stale}]
    BY <1>1, <1>3 DEF Memory
  <1>6. ASSUME NEW k \in 1 .. t.busy PROVE t.mem[Place(t, k)] \in Symbols
    <2>1. /\ k + n \in 1 .. r.busy /\ Place(t, k) = Place(r, k + n)
          /\ Place(r, k + n) \in 0 .. r.size - 1
          /\ Place(r, k + n) \notin r.busyAt .. r.busyAt + n - 1
      BY <1>1, <1>3, TakePlaces
    <2>2. r.mem[Place(r, k + n)] \in Symbols
      BY <1>1, <2>1 DEF Memory
    <2> QED  BY <1>1, <1>3, <2>1, <2>2 DEF Memory
  <1>7. RingOK(t)
    BY <1>4, <1>5, <1>6, RingParts DEF Memory
  <1>8. Cells(r, n) \in Seq(Symbols) /\ Len(Cells(r, n)) = n
    <2>1. \A k \in 1 .. n : r.mem[r.busyAt + k - 1] \in Symbols
      <3> TAKE k \in 1 .. n
      <3>1. k \in 1 .. r.busy /\ Place(r, k) = r.busyAt + k - 1
        BY <1>1, RunPlaces
      <3> QED  BY <1>1, <3>1 DEF Memory
    <2>2. Cells(r, n) \in [1 .. n -> Symbols]
      BY <2>1 DEF Cells
    <2> QED  BY <2>2
  <1> QED  BY <1>3, <1>4, <1>7, <1>8 DEF t

\* Putting no more than the free run leaves a well-formed ring.
LEMMA PutFacts ==
  ASSUME NEW r, RingOK(r), NEW s \in Seq(Symbols),
         r.busy + Len(s) <= r.size, Len(s) <= FreeRun(r)
  PROVE  /\ RingOK(Put(r, s))
         /\ Put(r, s).size = r.size
         /\ Put(r, s).busy = r.busy + Len(s)
         /\ FreeRun(r) - Len(s) <= FreeRun(Put(r, s))
            \/ FreeRun(r) - Len(s) = 0
  <1> DEFINE p == Put(r, s)
             n == Len(s)
  <1>1. Numbers(r) /\ Memory(r)
    BY RingParts
  <1>2. /\ n \in Nat /\ r.busy + n <= r.size /\ n <= FreeRun(r)
        /\ \A i \in 1 .. n : s[i] \in Symbols
    OBVIOUS
  <1>3. /\ p.size = r.size /\ p.busyAt = r.busyAt /\ p.busy = r.busy + n
        /\ p.freeAt = Wrap(r, r.freeAt + n)
        /\ p.mem = [c \in DOMAIN r.mem |->
             IF c \in r.freeAt .. r.freeAt + n - 1
             THEN s[c - r.freeAt + 1] ELSE r.mem[c]]
    BY DEF Put
  <1> HIDE DEF p, n
  <1>4. /\ Numbers(p)
        /\ FreeRun(r) - n <= FreeRun(p) \/ FreeRun(r) - n = 0
    BY <1>1, <1>2, <1>3, PutNumbers
  <1>5. p.mem \in [0 .. p.size - 1 -> Symbols \cup {Stale}]
    <2>1. \A c \in r.freeAt .. r.freeAt + n - 1 : s[c - r.freeAt + 1] \in Symbols
      <3>1. r.freeAt \in Nat
        BY <1>1 DEF Numbers
      <3> QED  BY <1>2, <3>1
    <2> QED  BY <1>1, <1>3, <2>1 DEF Memory
  <1>6. ASSUME NEW k \in 1 .. p.busy PROVE p.mem[Place(p, k)] \in Symbols
    <2>1. /\ Place(p, k) = Place(r, k) /\ Place(r, k) \in 0 .. r.size - 1
          /\ k <= r.busy => Place(r, k) \notin r.freeAt .. r.freeAt + n - 1
          /\ k > r.busy => /\ Place(r, k) \in r.freeAt .. r.freeAt + n - 1
                           /\ Place(r, k) - r.freeAt + 1 \in 1 .. n
      BY <1>1, <1>2, <1>3, PutPlaces
    <2>2. CASE k <= r.busy
      <3>1. k \in 1 .. r.busy
        BY <1>1, <2>2 DEF Numbers
      <3>2. r.mem[Place(r, k)] \in Symbols
        BY <1>1, <3>1 DEF Memory
      <3> QED  BY <1>1, <1>3, <2>1, <2>2, <3>2 DEF Memory
    <2>3. CASE k > r.busy
      BY <1>1, <1>2, <1>3, <2>1, <2>3 DEF Memory
    <2>4. k \in Nat /\ r.busy \in Nat
      BY <1>1, <1>3 DEF Numbers
    <2> QED  BY <2>2, <2>3, <2>4
  <1>7. RingOK(p)
    BY <1>4, <1>5, <1>6, RingParts DEF Memory
  <1> QED  BY <1>3, <1>4, <1>7 DEF p, n

\* What a ring holds, and an empty ring.
LEMMA ContentFacts ==
  ASSUME NEW r, RingOK(r)
  PROVE  Content(r) \in Seq(Symbols) /\ Len(Content(r)) = r.busy
  <1>1. r.busy \in Nat /\ \A k \in 1 .. r.busy : r.mem[Place(r, k)] \in Symbols
    BY RingParts DEF Numbers, Memory
  <1>2. Content(r) \in [1 .. r.busy -> Symbols]
    BY <1>1 DEF Content
  <1> QED  BY <1>1, <1>2

LEMMA EmptyRingFacts ==
  ASSUME NEW n \in Nat \ {0}
  PROVE  /\ RingOK(Ring(n)) /\ Ring(n).size = n /\ Ring(n).busy = 0
         /\ FreeRun(Ring(n)) = n
  <1> DEFINE r == Ring(n)
  <1>1. /\ r.size = n /\ r.busy = 0 /\ r.busyAt = 0 /\ r.freeAt = 0
        /\ r.mem = [c \in 0 .. n - 1 |-> Stale]
    BY DEF Ring
  <1> HIDE DEF r
  <1>2. Numbers(r)
    BY <1>1 DEF Numbers
  <1>3. Memory(r)
    BY <1>1 DEF Memory
  <1> QED  BY <1>1, <1>2, <1>3, RingParts DEF FreeRun, r

-----------------------------------------------------------------------------
(* What a character becomes *)

LEMMA ReceivedFacts ==
  ASSUME NEW c \in Symbols
  PROVE  Received(c) \in Seq(Symbols)
  <1>1. {"ESCAPE", "LSR_DATA", "lsr", "error"} \subseteq Symbols
    BY DEF Symbols
  <1>2. Data(c) \in Seq(Symbols)
    BY <1>1 DEF Data
  <1>3. LineError(c) \in Seq(Symbols)
    <2>1. CASE InsertLsr
      <3>1. PICK e \in Escaped : e = CHOOSE d \in Escaped : TRUE
        BY <2>1, SettingsAssumption
      <3>2. e \in Symbols
        BY SettingsAssumption DEF Symbols
      <3> QED  BY <1>1, <2>1, <3>1, <3>2 DEF LineError
    <2>2. CASE ~InsertLsr
      BY <2>2 DEF LineError
    <2> QED  BY <2>1, <2>2
  <1>4. <<"error">> \in Seq(Symbols) /\ <<>> \in Seq(Symbols)
    BY <1>1
  <1> QED  BY <1>2, <1>3, <1>4, ConcatProperties DEF Received

-----------------------------------------------------------------------------
(* The invariant *)

Inv == TypeOK /\ ChunksFit

Works == [pc : Labels, budget : Nat, hold : BOOLEAN, src : {"tx", "write"},
          chunk : Nat, room : Nat, moved : Nat, raw : Seq(StatusChars)]

LEMMA GotoFacts ==
  ASSUME NEW pc \in Labels, work \in Works, Goto(pc)
  PROVE  /\ work' \in Works /\ work'.pc = pc
         /\ work'.chunk = 0 /\ work'.room = 0 /\ work'.moved = 0
         /\ work'.budget = work.budget /\ work'.src = work.src
  BY DEF Goto, Works

LEMMA StartPassFacts ==
  ASSUME StartPass
  PROVE  work' \in Works /\ work'.pc = "read" /\ work'.chunk = 0
  <1>1. PICK b \in Budgets, h \in Holds :
          work' = [Idle EXCEPT !.pc = "read", !.budget = b, !.hold = h]
    BY DEF StartPass
  <1>2. b \in Nat /\ h \in BOOLEAN /\ <<>> \in Seq(StatusChars)
    BY InputsAssumption
  <1>3. work' = [pc |-> "read", budget |-> b, hold |-> h, src |-> "write",
                 chunk |-> 0, room |-> 0, moved |-> 0, raw |-> <<>>]
    BY <1>1 DEF Idle
  <1> QED  BY <1>2, <1>3 DEF Works, Labels

\* The three ways in which a call ends that may run a pass.
LEMMA CallFacts ==
  ASSUME TypeOK, At("idle"), MayStartPass
  PROVE  work' \in Works /\ work'.pc \in {"idle", "read"}
  BY StartPassFacts DEF TypeOK, MayStartPass, At, Works

LEMMA LimitFacts ==
  ASSUME NEW size \in Nat \ {0}, NEW xoff \in Nat, xoff <= size,
         NEW handshake \in BOOLEAN
  PROVE  LimitFor(size, xoff, handshake) \in 1 .. size
  BY DEF LimitFor, Least

LEMMA InitInv == Init => Inv
  <1> SUFFICES ASSUME Init PROVE Inv
    OBVIOUS
  <1>1. PICK n \in Sizes : rx = Ring(n) /\ limit = n
    BY DEF Init
  <1>2. RingOK(rx) /\ rx.size = n /\ rx.busy = 0 /\ n \in Nat \ {0}
    BY <1>1, EmptyRingFacts, SizesAssumption
  <1>3. RingOK(tx) /\ tx.size = TxSize
    BY EmptyRingFacts, SizesAssumption DEF Init
  <1>4. work \in Works /\ work.pc = "idle"
    BY DEF Init, Idle, Works, Labels
  <1>5. TypeOK
    BY <1>1, <1>2, <1>3, <1>4, SizesAssumption, InputsAssumption
       DEF TypeOK, Init, Works
  <1>6. ChunksFit
    BY <1>4 DEF ChunksFit, At, Init
  <1> QED  BY <1>5, <1>6 DEF Inv

-----------------------------------------------------------------------------
(* Calls of the driver *)

LEMMA CallsInv ==
  ASSUME Inv, Calls
  PROVE  Inv'
  <1> USE DEF Inv
  <1>0. TypeOK /\ ChunksFit /\ rx.size \in Nat \ {0}
    BY SizesAssumption DEF TypeOK
  <1>1. CASE StartRead
    <2>1. PICK n \in ReadLengths : reads' = Append(reads, n)
      BY <1>1 DEF StartRead
    <2>2. work' \in Works /\ work'.pc \in {"idle", "read"}
      BY <1>0, <1>1, StartPassFacts DEF StartRead, TypeOK, Works, At
    <2>3. /\ reads' \in Seq(ReadLengths) /\ Len(reads') <= MaxReads
          /\ reads' # <<>>
          /\ Head(reads') = IF reads = <<>> THEN n ELSE Head(reads)
      <3>1. reads \in Seq(ReadLengths) /\ Len(reads) < MaxReads /\ MaxReads \in Nat
        BY <1>0, <1>1, InputsAssumption DEF StartRead, TypeOK
      <3>2. reads' \in Seq(ReadLengths) /\ Len(reads') = Len(reads) + 1 /\ reads' # <<>>
        BY <2>1, <3>1
      <3>3. CASE reads = <<>>
        BY <2>1, <3>1, <3>2, <3>3
      <3>4. CASE reads # <<>>
        BY <2>1, <3>1, <3>2, <3>4
      <3> QED  BY <3>1, <3>2, <3>3, <3>4
    <2>4. TypeOK'
      BY <1>0, <1>1, <2>2, <2>3 DEF StartRead, TypeOK, Works
    <2>5. Len(out') <= (IF reads' = <<>> THEN 0 ELSE Head(reads'))
      <3>1. out' = out /\ out \in Seq(Symbols) /\ n \in Nat /\ n > 0
            /\ Len(out) <= (IF reads = <<>> THEN 0 ELSE Head(reads))
        BY <1>0, <1>1, InputsAssumption DEF StartRead, TypeOK, ChunksFit
      <3>2. CASE reads = <<>>
        BY <2>3, <3>1, <3>2
      <3>3. CASE reads # <<>>
        BY <2>3, <3>1, <3>3
      <3> QED  BY <3>2, <3>3
    <2> QED  BY <2>2, <2>4, <2>5 DEF ChunksFit, At
  <1>2. CASE StartWrite
    <2>1. work' \in Works /\ work'.pc \in {"idle", "read"}
      BY <1>0, <1>2, StartPassFacts DEF StartWrite, TypeOK, Works, At
    <2>2. writes' \in Seq(Seq(Chars)) /\ Len(writes') <= MaxWrites
      BY <1>0, <1>2, InputsAssumption DEF StartWrite, TypeOK
    <2> QED  BY <1>0, <1>2, <2>1, <2>2 DEF StartWrite, TypeOK, Works, ChunksFit, At
  <1>3. CASE Tick
    BY <1>0, <1>3, StartPassFacts DEF Tick, TypeOK, Works, ChunksFit, At
  <1>4. CASE PurgeRx
    <2>1. RingOK(rx') /\ rx'.size = rx.size
      BY <1>0, <1>4, EmptyRingFacts DEF PurgeRx
    <2>2. work' \in Works /\ work'.pc \in {"idle", "read"}
      BY <1>0, <1>4, CallFacts DEF PurgeRx
    <2>3. insert' \in Seq(Symbols) /\ Len(insert') <= InsertSize
      BY <1>4, SizesAssumption DEF PurgeRx
    <2> QED  BY <1>0, <1>4, <2>1, <2>2, <2>3
             DEF PurgeRx, TypeOK, Works, ChunksFit, At
  <1>5. CASE SetHandFlow
    <2>1. limit' \in 1 .. rx.size
      BY <1>0, <1>5, LimitFacts, SizesAssumption DEF SetHandFlow
    <2>2. work' \in Works /\ work'.pc \in {"idle", "read"}
      BY <1>0, <1>5, CallFacts DEF SetHandFlow
    <2> QED  BY <1>0, <1>5, <2>1, <2>2 DEF SetHandFlow, TypeOK, Works, ChunksFit, At
  <1>6. CASE SetQueueSize
    <2>1. PICK n \in Sizes, handshake \in BOOLEAN :
            /\ n > rx.size /\ rx' = Put(Ring(n), Content(rx))
            /\ limit' = LimitFor(n, n \div 8, handshake)
      BY <1>6 DEF SetQueueSize
    <2>2. n \in Nat \ {0} /\ n \div 8 \in Nat /\ n \div 8 <= n
      BY SizesAssumption
    <2>3. /\ Content(rx) \in Seq(Symbols) /\ Len(Content(rx)) = rx.busy
          /\ rx.busy \in Nat /\ rx.busy <= rx.size
      BY <1>0, ContentFacts, RingParts DEF TypeOK, Numbers
    <2>4. RingOK(Ring(n)) /\ Ring(n).busy = 0 /\ Ring(n).size = n /\ FreeRun(Ring(n)) = n
      BY <2>2, EmptyRingFacts
    <2>5. RingOK(rx') /\ rx'.size = n
      BY <1>0, <2>1, <2>2, <2>3, <2>4, PutFacts
    <2>6. limit' \in 1 .. n
      BY <2>1, <2>2, LimitFacts
    <2>7. work' \in Works /\ work'.pc \in {"idle", "read"}
      BY <1>0, <1>6, CallFacts DEF SetQueueSize
    <2> QED  BY <1>0, <1>6, <2>1, <2>5, <2>6, <2>7
             DEF SetQueueSize, TypeOK, Works, ChunksFit, At
  <1>7. CASE StartInsert
    <2>1. work' \in Works /\ work'.pc = "insread"
      <3>1. PICK s \in RawSequences : work' = [Idle EXCEPT !.pc = "insread", !.raw = s]
        BY <1>7 DEF StartInsert
      <3>2. s \in Seq(StatusChars)
        BY InputsAssumption
      <3>3. work' = [pc |-> "insread", budget |-> 0, hold |-> FALSE, src |-> "write",
                     chunk |-> 0, room |-> 0, moved |-> 0, raw |-> s]
        BY <3>1 DEF Idle
      <3> QED  BY <3>2, <3>3 DEF Works, Labels
    <2> QED  BY <1>0, <1>7, <2>1 DEF StartInsert, TypeOK, Works, ChunksFit, At
  <1> QED  BY <1>1, <1>2, <1>3, <1>4, <1>5, <1>6, <1>7 DEF Calls

-----------------------------------------------------------------------------
(* What the loops rely on *)

\* A ring that is not empty, and its first byte.
LEMMA FirstFacts ==
  ASSUME NEW r, RingOK(r), r.busy > 0
  PROVE  r.mem[r.busyAt] \in Symbols /\ FilledRun(r) > 0 /\ FilledRun(r) <= r.busy
  <1>1. Numbers(r) /\ Memory(r)
    BY RingParts
  <1>2. FilledRun(r) \in Nat /\ FilledRun(r) > 0 /\ FilledRun(r) <= r.busy
    BY <1>1, RunFacts
  <1>3. 1 \in 1 .. r.busy /\ Place(r, 1) = r.busyAt
    <2>1. 1 <= FilledRun(r) /\ 1 <= r.busy
      BY <1>1, <1>2 DEF Numbers
    <2>2. 1 \in 1 .. r.busy /\ Place(r, 1) = r.busyAt + 1 - 1
      BY <1>1, <2>1, RunPlaces
    <2> QED  BY <1>1, <2>2 DEF Numbers
  <1> QED  BY <1>1, <1>2, <1>3 DEF Memory

LEMMA CountFacts ==
  ASSUME NEW r, RingOK(r)
  PROVE  /\ r.busy \in Nat /\ r.busy <= r.size /\ r.size \in Nat
         /\ FilledRun(r) \in Nat /\ FreeRun(r) \in Nat
         /\ r.busy > 0 => FilledRun(r) <= r.busy
         /\ r.busy < r.size => FreeRun(r) <= r.size - r.busy
  BY RingParts, RunFacts DEF Numbers

\* The first READ has room for Left bytes.
LEMMA RoomFacts ==
  ASSUME Inv, reads # <<>>
  PROVE  /\ Head(reads) \in Nat /\ Left \in Nat
         /\ Left = Head(reads) - Len(out) /\ Len(out) \in Nat
  <1>1. Head(reads) \in Nat
    <2>1. Head(reads) \in ReadLengths
      BY DEF Inv, TypeOK
    <2> QED  BY <2>1, InputsAssumption
  <1>2. out \in Seq(Symbols) /\ Len(out) <= Head(reads)
    BY DEF Inv, TypeOK, ChunksFit
  <1> QED  BY <1>1, <1>2 DEF Left

\* No more than Left bytes fit.
LEMMA OutFacts ==
  ASSUME Inv, reads # <<>>, NEW s \in Seq(Symbols), Len(s) <= Left
  PROVE  /\ out \o s \in Seq(Symbols) /\ Len(out \o s) <= Head(reads)
         /\ Len(out \o s) - Len(out) \in Nat
  <1>1. out \in Seq(Symbols)
    BY DEF Inv, TypeOK
  <1>2. out \o s \in Seq(Symbols) /\ Len(out \o s) = Len(out) + Len(s)
    BY <1>1, ConcatProperties
  <1> QED  BY <1>1, <1>2, RoomFacts

\* insertData into a READ.
LEMMA InsertToReadFacts ==
  ASSUME Inv, reads # <<>>, InsertToRead
  PROVE  /\ out' \in Seq(Symbols) /\ Len(out') <= Head(reads)
         /\ insert' \in Seq(Symbols) /\ Len(insert') <= InsertSize
         /\ Least(Len(insert), Left) \in Nat
  <1>1. Left \in Nat /\ insert \in Seq(Symbols) /\ Len(insert) <= InsertSize
    BY RoomFacts DEF Inv, TypeOK
  <1>2. /\ Upto(insert, Left) \in Seq(Symbols)
        /\ Len(Upto(insert, Left)) <= Left
        /\ From(insert, Left) \in Seq(Symbols)
        /\ Len(From(insert, Left)) <= Len(insert)
        /\ Least(Len(insert), Left) \in Nat
    <2>1. /\ Upto(insert, Left) \in Seq(Symbols)
          /\ Len(Upto(insert, Left)) = Least(Len(insert), Left)
          /\ From(insert, Left) \in Seq(Symbols)
          /\ Len(From(insert, Left)) = Len(insert) - Least(Len(insert), Left)
          /\ Least(Len(insert), Left) \in Nat /\ Least(Len(insert), Left) <= Left
      BY <1>1, CutFacts
    <2>2. Len(insert) \in Nat
      BY <1>1
    <2> QED  BY <2>1, <2>2
  <1>3. Len(insert') <= InsertSize
    BY <1>1, <1>2, SizesAssumption DEF InsertToRead
  <1> QED  BY <1>2, <1>3, OutFacts DEF InsertToRead

\* What finds no room in a READ or in the ring is kept, up to InsertSize.
LEMMA KeptFacts ==
  ASSUME insert \in Seq(Symbols), NEW s \in Seq(Symbols), NEW n \in Nat
  PROVE  LET kept == Upto(insert \o From(s, n), InsertSize)
         IN  kept \in Seq(Symbols) /\ Len(kept) <= InsertSize
  <1>1. From(s, n) \in Seq(Symbols)
    BY CutFacts
  <1>2. insert \o From(s, n) \in Seq(Symbols)
    BY <1>1, ConcatProperties
  <1> DEFINE all == insert \o From(s, n)
  <1>3. all \in Seq(Symbols) /\ InsertSize \in Nat
    BY <1>2, SizesAssumption
  <1> HIDE DEF all
  <1>4. /\ Upto(all, InsertSize) \in Seq(Symbols)
        /\ Len(Upto(all, InsertSize)) <= InsertSize
    BY <1>3, CutFacts
  <1> QED  BY <1>4 DEF all

\* A character into a READ.
LEMMA CharToReadFacts ==
  ASSUME Inv, reads # <<>>, NEW c \in Symbols, CharToRead(c)
  PROVE  /\ out' \in Seq(Symbols) /\ Len(out') <= Head(reads)
         /\ Len(out') - Len(out) \in Nat
         /\ insert' \in Seq(Symbols) /\ Len(insert') <= InsertSize
  <1>1. Left \in Nat /\ Received(c) \in Seq(Symbols)
    BY RoomFacts, ReceivedFacts
  <1>2. Upto(Received(c), Left) \in Seq(Symbols) /\ Len(Upto(Received(c), Left)) <= Left
    BY <1>1, CutFacts
  <1>3. insert' \in Seq(Symbols) /\ Len(insert') <= InsertSize
    BY <1>1, KeptFacts DEF CharToRead, Inv, TypeOK
  <1> QED  BY <1>2, <1>3, OutFacts DEF CharToRead

LEMMA SpendFacts ==
  ASSUME NEW budget \in Nat, NEW chunk \in Nat, NEW n \in Nat, n <= chunk, chunk <= budget
  PROVE  Spend(budget, n) \in Nat /\ chunk - n <= Spend(budget, n)
  BY DEF Spend

-----------------------------------------------------------------------------
(* RX buffer and TX buffer to the READs *)

LEMMA ReadingInv ==
  ASSUME Inv, Reading
  PROVE  Inv'
  <1>0. TypeOK /\ ChunksFit /\ work \in Works
    BY DEF Inv, TypeOK, Works
  <1>1. CASE ReadRing
    <2>1. PICK n : /\ n = Least(FilledRun(rx), Left)
                   /\ out' = out \o Cells(rx, n) /\ rx' = Take(rx, n)
      BY <1>1 DEF ReadRing
    <2>2. /\ n \in Nat /\ n <= FilledRun(rx) /\ n <= Left /\ n <= rx.busy
          /\ RingOK(rx) /\ reads # <<>>
      <3>1. /\ RingOK(rx) /\ reads # <<>> /\ rx.busy > 0
            /\ FilledRun(rx) \in Nat /\ rx.busy \in Nat /\ FilledRun(rx) <= rx.busy
        BY <1>0, <1>1, CountFacts DEF ReadRing, TypeOK
      <3>2. Left \in Nat
        BY <3>1, RoomFacts
      <3>3. n \in Nat /\ n <= FilledRun(rx) /\ n <= Left
        BY <2>1, <3>1, <3>2, LeastFacts
      <3> QED  BY <3>1, <3>3
    <2>3. RingOK(rx') /\ rx'.size = rx.size /\ Cells(rx, n) \in Seq(Symbols)
          /\ Len(Cells(rx, n)) = n
      BY <2>1, <2>2, TakeFacts
    <2>4. out' \in Seq(Symbols) /\ Len(out') <= Head(reads)
      BY <2>1, <2>2, <2>3, OutFacts
    <2>5. TypeOK'
      BY <1>0, <1>1, <2>3, <2>4 DEF ReadRing, TypeOK
    <2>6. ChunksFit'
      BY <1>0, <1>1, <2>2, <2>4 DEF ReadRing, ChunksFit, At
    <2> QED  BY <2>5, <2>6 DEF Inv
  <1>2. CASE ReadInsert
    <2>1. InsertToRead /\ reads # <<>>
      BY <1>2 DEF ReadInsert, InsertToRead
    <2>2. /\ out' \in Seq(Symbols) /\ Len(out') <= Head(reads)
          /\ insert' \in Seq(Symbols) /\ Len(insert') <= InsertSize
      BY <2>1, InsertToReadFacts
    <2>3. TypeOK'
      BY <1>0, <1>2, <2>2 DEF ReadInsert, TypeOK
    <2>4. ChunksFit'
      BY <1>0, <1>2, <2>1, <2>2 DEF ReadInsert, ChunksFit, At
    <2> QED  BY <2>3, <2>4 DEF Inv
  <1>3. CASE CompleteRead
    <2>1. /\ work' \in Works /\ work'.pc \in {"read", "direct", "insread"}
      BY <1>0, <1>3, GotoFacts DEF CompleteRead, At, Labels
    <2>2. /\ reads' \in Seq(ReadLengths) /\ Len(reads') <= MaxReads
          /\ out' = <<>>
      <3>1. reads \in Seq(ReadLengths) /\ reads # <<>> /\ reads' = Tail(reads)
            /\ Len(reads) <= MaxReads /\ MaxReads \in Nat
        BY <1>0, <1>3, InputsAssumption DEF CompleteRead, TypeOK
      <3>2. Len(Tail(reads)) = Len(reads) - 1 /\ Tail(reads) \in Seq(ReadLengths)
            /\ Len(reads) \in Nat
        BY <3>1
      <3> QED  BY <1>3, <3>1, <3>2 DEF CompleteRead
    <2>3. Len(out') <= (IF reads' = <<>> THEN 0 ELSE Head(reads'))
      <3>1. CASE reads' # <<>>
        <4>1. Head(reads') \in ReadLengths
          BY <2>2, <3>1
        <4>2. Head(reads') \in Nat /\ Len(out') = 0
          BY <2>2, <4>1, InputsAssumption
        <4> QED  BY <3>1, <4>2
      <3> QED  BY <2>2, <3>1
    <2>4. TypeOK'
      BY <1>0, <1>3, <2>1, <2>2 DEF CompleteRead, TypeOK, Works
    <2> QED  BY <2>1, <2>3, <2>4 DEF ChunksFit, At, Inv
  <1>4. CASE ReadRingDone
    <2>1. work' \in Works /\ work'.pc = "txread" /\ reads' # <<>>
      BY <1>0, <1>4, GotoFacts DEF ReadRingDone, Labels
    <2> QED  BY <1>0, <1>4, <2>1 DEF ReadRingDone, TypeOK, Works, ChunksFit, At, Inv
  <1>5. CASE NoReader
    <2>1. work' \in Works /\ work'.pc = "sendtx"
      BY <1>0, <1>5, GotoFacts DEF NoReader, Labels
    <2> QED  BY <1>0, <1>5, <2>1 DEF NoReader, TypeOK, Works, ChunksFit, At, Inv
  <1>6. CASE TxReadCall
    <2>1. reads # <<>> /\ InsertToRead /\ RingOK(tx)
      BY <1>0, <1>6 DEF TxReadCall, ChunksFit, At, TypeOK
    <2>2. /\ out' \in Seq(Symbols) /\ Len(out') <= Head(reads)
          /\ insert' \in Seq(Symbols) /\ Len(insert') <= InsertSize
          /\ Least(Len(insert), Left) \in Nat
      BY <2>1, InsertToReadFacts
    <2> DEFINE chunk == IF tx.busy = 0 THEN 0 ELSE Least(FilledRun(tx), work.budget)
               moved == Least(Len(insert), Left)
    <2>3. chunk \in Nat /\ chunk <= work.budget
          /\ chunk <= (IF tx.busy = 0 THEN 0 ELSE FilledRun(tx))
      <3>1. work.budget \in Nat /\ FilledRun(tx) \in Nat
        BY <1>0, <2>1, CountFacts DEF Works
      <3>2. Least(FilledRun(tx), work.budget) \in Nat
            /\ Least(FilledRun(tx), work.budget) <= FilledRun(tx)
            /\ Least(FilledRun(tx), work.budget) <= work.budget
        BY <3>1, LeastFacts
      <3>3. CASE tx.busy = 0
        BY <3>1, <3>3
      <3>4. CASE tx.busy # 0
        BY <3>2, <3>4
      <3> QED  BY <3>3, <3>4
    <2>4. work' = [work EXCEPT !.pc = "txcopy", !.moved = moved, !.chunk = chunk]
      BY <1>6 DEF TxReadCall
    <2> HIDE DEF chunk, moved
    <2>5. /\ work' \in Works /\ work'.pc = "txcopy" /\ work'.chunk = chunk
          /\ work'.budget = work.budget
      BY <1>0, <2>2, <2>3, <2>4 DEF Works, Labels, moved
    <2>6. TypeOK'
      BY <1>0, <1>6, <2>2, <2>5 DEF TxReadCall, TypeOK, Works
    <2>7. ChunksFit'
      BY <1>0, <1>6, <2>1, <2>2, <2>3, <2>5 DEF TxReadCall, ChunksFit, At
    <2> QED  BY <2>6, <2>7 DEF Inv
  <1>7. CASE TxReadChar
    <2>1. /\ reads # <<>> /\ work.pc = "txcopy" /\ work.chunk > 0
          /\ work.chunk <= work.budget
          /\ work.chunk <= (IF tx.busy = 0 THEN 0 ELSE FilledRun(tx))
      BY <1>0, <1>7 DEF TxReadChar, ChunksFit, At
    <2>2. work.chunk \in Nat /\ work.budget \in Nat /\ work.moved \in Nat
      BY <1>0 DEF Works
    <2>3. /\ RingOK(tx) /\ tx.busy > 0 /\ 1 <= FilledRun(tx) /\ 1 <= tx.busy
          /\ work.chunk <= FilledRun(tx) /\ FilledRun(tx) \in Nat /\ tx.busy \in Nat
          /\ tx.mem[tx.busyAt] \in Symbols /\ FilledRun(tx) <= tx.busy
      <3>1. RingOK(tx)
        BY <1>0 DEF TypeOK
      <3>2. tx.busy \in Nat /\ FilledRun(tx) \in Nat
        BY <3>1, CountFacts
      <3>3. tx.busy > 0 /\ work.chunk <= FilledRun(tx)
        BY <2>1, <2>2, <3>2
      <3> QED  BY <2>1, <2>2, <3>1, <3>2, <3>3, FirstFacts
    <2>4. /\ RingOK(tx') /\ tx'.size = tx.size /\ tx'.busy = tx.busy - 1
          /\ tx.busy - 1 > 0 => FilledRun(tx) - 1 <= FilledRun(tx')
      BY <1>7, <2>3, TakeFacts DEF TxReadChar
    <2>5. /\ out' \in Seq(Symbols) /\ Len(out') <= Head(reads)
          /\ Len(out') - Len(out) \in Nat
          /\ insert' \in Seq(Symbols) /\ Len(insert') <= InsertSize
      BY <1>7, <2>1, <2>3, CharToReadFacts DEF TxReadChar
    <2>6. Spend(work.budget, 1) \in Nat /\ work.chunk - 1 <= Spend(work.budget, 1)
      BY <2>1, <2>2, SpendFacts
    <2>7. /\ work' \in Works /\ work'.pc = "txcopy" /\ work'.chunk = work.chunk - 1
          /\ work'.budget = Spend(work.budget, 1)
      <3> DEFINE spent == Spend(work.budget, 1)
                 more == Len(out') - Len(out)
      <3>1. work' = [work EXCEPT !.chunk = @ - 1, !.budget = spent,
                                 !.moved = work.moved + more]
        BY <1>0, <1>7, <2>2 DEF TxReadChar, Works
      <3>2. spent \in Nat /\ work.chunk - 1 \in Nat /\ work.moved + more \in Nat
        BY <2>1, <2>2, <2>5, <2>6
      <3> HIDE DEF spent, more
      <3> QED  BY <1>0, <2>1, <3>1, <3>2 DEF Works, spent
    <2>8. work'.chunk <= (IF tx'.busy = 0 THEN 0 ELSE FilledRun(tx'))
      <3>1. CASE tx.busy = 1
        BY <2>2, <2>3, <2>4, <2>7, <3>1
      <3>2. CASE tx.busy # 1
        <4>1. FilledRun(tx') \in Nat
          BY <2>4, CountFacts
        <4> QED  BY <2>2, <2>3, <2>4, <2>7, <3>2, <4>1
      <3> QED  BY <3>1, <3>2
    <2>9. TypeOK'
      BY <1>0, <1>7, <2>4, <2>5, <2>7 DEF TxReadChar, TypeOK, Works
    <2>10. ChunksFit'
      BY <1>7, <2>1, <2>5, <2>6, <2>7, <2>8 DEF TxReadChar, ChunksFit, At
    <2> QED  BY <2>9, <2>10 DEF Inv
  <1>8. CASE TxReadDone
    <2>1. reads # <<>>
      BY <1>0, <1>8 DEF TxReadDone, ChunksFit, At
    <2>2. work' \in Works /\ work'.pc \in {"direct", "txread"}
      BY <1>0, <1>8, GotoFacts DEF TxReadDone, Labels
    <2> QED  BY <1>0, <1>8, <2>1, <2>2
             DEF TxReadDone, TypeOK, Works, ChunksFit, At, Inv
  <1> QED  BY <1>1, <1>2, <1>3, <1>4, <1>5, <1>6, <1>7, <1>8 DEF Reading

-----------------------------------------------------------------------------
(* The WRITEs and the TX buffer into the READs, the ring and the TX buffer *)

\* The first WRITE without its first n characters.
LEMMA TakeFromWriteFacts ==
  ASSUME TypeOK, writes # <<>>, NEW n \in Nat, n <= Len(Head(writes)),
         TakeFromWrite(n)
  PROVE  /\ writes' \in Seq(Seq(Chars)) /\ Len(writes') = Len(writes)
         /\ writes' # <<>>
         /\ Len(Head(writes')) = Len(Head(writes)) - n
         /\ Len(Head(writes)) \in Nat
  <1>1. writes \in Seq(Seq(Chars)) /\ 1 \in DOMAIN writes /\ writes[1] \in Seq(Chars)
    BY DEF TypeOK
  <1>2. From(writes[1], n) \in Seq(Chars)
        /\ Len(From(writes[1], n)) = Len(writes[1]) - Least(Len(writes[1]), n)
    BY <1>1, CutFacts
  <1>3. Len(writes[1]) \in Nat /\ Head(writes) = writes[1]
    BY <1>1
  <1>4. Least(Len(writes[1]), n) = n
    BY <1>3 DEF Least
  <1>5. writes' = [writes EXCEPT ![1] = From(writes[1], n)]
    BY DEF TakeFromWrite
  <1>6. /\ writes' \in Seq(Seq(Chars)) /\ Len(writes') = Len(writes)
        /\ writes'[1] = From(writes[1], n) /\ writes' # <<>>
    BY <1>1, <1>2, <1>5
  <1>7. Head(writes') = writes'[1]
    BY <1>6
  <1> QED  BY <1>2, <1>3, <1>4, <1>6, <1>7

\* What WriteToBuffer copies from, and what is left of it.
LEMMA SourceFacts ==
  ASSUME Inv, work.pc \in {"fill", "fillcopy"}, work.chunk > 0
  PROVE  /\ Source \in Seq(Symbols) /\ Len(Source) = work.chunk
         /\ Head(Source) \in Symbols /\ work.chunk \in Nat
  <1>1. TypeOK /\ ChunksFit /\ work.chunk \in Nat /\ work.src \in {"tx", "write"}
    BY DEF Inv, TypeOK
  <1>2. Source \in Seq(Symbols) /\ Len(Source) = work.chunk
    <2>1. CASE work.src = "tx"
      <3>1. RingOK(tx) /\ work.chunk <= (IF tx.busy = 0 THEN 0 ELSE FilledRun(tx))
        BY <1>1, <2>1 DEF TypeOK, ChunksFit, At
      <3>2. tx.busy \in Nat /\ (tx.busy > 0 => FilledRun(tx) <= tx.busy)
            /\ FilledRun(tx) \in Nat
        BY <3>1, CountFacts
      <3>3. work.chunk <= FilledRun(tx) /\ work.chunk <= tx.busy
        BY <1>1, <3>1, <3>2
      <3>4. Cells(tx, work.chunk) \in Seq(Symbols) /\ Len(Cells(tx, work.chunk)) = work.chunk
        BY <1>1, <3>1, <3>3, TakeFacts
      <3> QED  BY <2>1, <3>4 DEF Source
    <2>2. CASE work.src = "write"
      <3>1. writes # <<>> /\ work.chunk <= Len(Head(writes))
        BY <1>1, <2>2 DEF ChunksFit, At
      <3>2. Head(writes) \in Seq(Chars) /\ Len(Head(writes)) \in Nat
        BY <1>1, <3>1 DEF TypeOK
      <3>3. Head(writes) \in Seq(Symbols)
        BY <3>2 DEF Symbols
      <3>4. Upto(Head(writes), work.chunk) \in Seq(Symbols)
            /\ Len(Upto(Head(writes), work.chunk)) = Least(Len(Head(writes)), work.chunk)
        BY <1>1, <3>3, CutFacts
      <3>5. Least(Len(Head(writes)), work.chunk) = work.chunk
        BY <1>1, <3>1, <3>2 DEF Least
      <3> QED  BY <2>2, <3>4, <3>5 DEF Source
    <2> QED  BY <1>1, <2>1, <2>2
  <1> QED  BY <1>1, <1>2

\* After n characters of the chunk the rest of the chunk is still there.
LEMMA TakeFromSourceFacts ==
  ASSUME Inv, work.pc \in {"fill", "fillcopy"}, NEW n \in Nat, n <= work.chunk,
         0 < n, TakeFromSource(n)
  PROVE  /\ RingOK(tx') /\ tx'.size = TxSize
         /\ writes' \in Seq(Seq(Chars)) /\ Len(writes') = Len(writes)
         /\ work.src = "tx" =>
              /\ writes' = writes
              /\ work.chunk - n <= (IF tx'.busy = 0 THEN 0 ELSE FilledRun(tx'))
         /\ work.src = "write" =>
              /\ tx' = tx /\ writes' # <<>>
              /\ Len(Head(writes')) = Len(Head(writes)) - n
              /\ work.chunk <= Len(Head(writes)) /\ Len(Head(writes)) \in Nat
  <1>1. TypeOK /\ ChunksFit /\ work.chunk \in Nat /\ work.src \in {"tx", "write"}
    BY DEF Inv, TypeOK
  <1>2. CASE work.src = "tx"
    <2>1. RingOK(tx) /\ tx.size = TxSize /\ writes \in Seq(Seq(Chars))
          /\ work.chunk <= (IF tx.busy = 0 THEN 0 ELSE FilledRun(tx))
      BY <1>1, <1>2 DEF TypeOK, ChunksFit, At
    <2>2. tx.busy \in Nat /\ FilledRun(tx) \in Nat
          /\ (tx.busy > 0 => FilledRun(tx) <= tx.busy)
      BY <2>1, CountFacts
    <2>3. tx.busy > 0 /\ n <= FilledRun(tx) /\ n <= tx.busy
          /\ work.chunk <= FilledRun(tx) /\ FilledRun(tx) <= tx.busy
      BY <1>1, <2>1, <2>2
    <2>4. tx' = Take(tx, n) /\ writes' = writes
      BY <1>2 DEF TakeFromSource
    <2>5. /\ RingOK(tx') /\ tx'.size = TxSize /\ tx'.busy = tx.busy - n
          /\ tx.busy - n > 0 => FilledRun(tx) - n <= FilledRun(tx')
      BY <2>1, <2>3, <2>4, TakeFacts
    <2>6. FilledRun(tx') \in Nat
      BY <2>5, CountFacts
    <2>7. work.chunk - n <= (IF tx'.busy = 0 THEN 0 ELSE FilledRun(tx'))
      <3>1. CASE tx'.busy = 0
        BY <1>1, <2>2, <2>3, <2>5, <3>1
      <3>2. CASE tx'.busy # 0
        BY <1>1, <2>2, <2>3, <2>5, <2>6, <3>2
      <3> QED  BY <3>1, <3>2
    <2> QED  BY <1>2, <2>1, <2>4, <2>5, <2>7
  <1>3. CASE work.src = "write"
    <2>1. writes # <<>> /\ work.chunk <= Len(Head(writes))
      BY <1>1, <1>3 DEF ChunksFit, At
    <2>2. Head(writes) \in Seq(Chars) /\ Len(Head(writes)) \in Nat
      BY <1>1, <2>1 DEF TypeOK
    <2>3. TakeFromWrite(n) /\ tx' = tx
      BY <1>3 DEF TakeFromSource
    <2>4. n <= Len(Head(writes))
      BY <1>1, <2>1, <2>2
    <2>5. RingOK(tx) /\ tx.size = TxSize
      BY <1>1 DEF TypeOK
    <2> QED  BY <1>1, <1>3, <2>1, <2>2, <2>3, <2>4, <2>5, TakeFromWriteFacts
  <1> QED  BY <1>1, <1>2, <1>3

\* Into the ring, below the limit: room bytes may be put.
LEMMA FillFacts ==
  ASSUME TypeOK, NEW s \in Seq(Symbols), NEW room \in Nat,
         room <= FreeRun(rx), rx.busy + room <= limit,
         rx' = Put(rx, Upto(s, room)), limit' = limit
  PROVE  /\ RingOK(rx') /\ rx'.size = rx.size
         /\ Least(Len(s), room) \in Nat
         /\ room - Least(Len(s), room) \in Nat
         /\ room - Least(Len(s), room) <= FreeRun(rx')
         /\ rx'.busy + (room - Least(Len(s), room)) <= limit'
  <1> DEFINE n == Least(Len(s), room)
  <1>1. /\ Upto(s, room) \in Seq(Symbols) /\ Len(Upto(s, room)) = n
        /\ n \in Nat /\ n <= room
    BY CutFacts
  <1>2. /\ RingOK(rx) /\ limit \in Nat /\ limit <= rx.size /\ rx.busy \in Nat
        /\ rx.size \in Nat /\ FreeRun(rx) \in Nat
    BY CountFacts, SizesAssumption DEF TypeOK
  <1>3. rx.busy + n <= rx.size /\ n <= FreeRun(rx)
    BY <1>1, <1>2
  <1>4. /\ RingOK(rx') /\ rx'.size = rx.size /\ rx'.busy = rx.busy + n
        /\ FreeRun(rx) - n <= FreeRun(rx') \/ FreeRun(rx) - n = 0
    BY <1>1, <1>2, <1>3, PutFacts
  <1>5. FreeRun(rx') \in Nat
    BY <1>4, CountFacts
  <1> HIDE DEF n
  <1>6. room - n \in Nat /\ room - n <= FreeRun(rx') /\ rx'.busy + (room - n) <= limit'
    BY <1>1, <1>2, <1>4, <1>5
  <1> QED  BY <1>1, <1>4, <1>6 DEF n

\* Overwriting the last byte leaves a well-formed ring.
LEMMA ReplaceFacts ==
  ASSUME NEW r, RingOK(r), NEW c \in Symbols
  PROVE  RingOK(ReplaceLast(r, c)) /\ ReplaceLast(r, c).size = r.size
  <1> DEFINE p == ReplaceLast(r, c)
             at == IF r.freeAt = 0 THEN r.size - 1 ELSE r.freeAt - 1
  <1>1. Numbers(r) /\ Memory(r)
    BY RingParts
  <1>2. /\ p.size = r.size /\ p.busy = r.busy
        /\ p.busyAt = r.busyAt /\ p.freeAt = r.freeAt
        /\ p.mem = [r.mem EXCEPT ![at] = c]
    BY DEF ReplaceLast
  <1> HIDE DEF p, at
  <1>3. Numbers(p)
    BY <1>1, <1>2 DEF Numbers
  <1>4. \A k : Place(p, k) = Place(r, k)
    BY <1>2 DEF Place
  <1>5. p.mem \in [0 .. r.size - 1 -> Symbols \cup {Stale}]
    BY <1>1, <1>2 DEF Memory
  <1>6. ASSUME NEW k \in 1 .. r.busy PROVE p.mem[Place(r, k)] \in Symbols
    BY <1>1, <1>2 DEF Memory
  <1>7. Memory(p)
    BY <1>2, <1>4, <1>5, <1>6 DEF Memory
  <1> QED  BY <1>2, <1>3, <1>7, RingParts DEF p

\* The step that ends WriteToBuffer.
LEMMA ReturnFacts ==
  ASSUME work \in Works, NEW dropped \in Nat, dropped <= work.chunk,
         work.chunk <= work.budget, NEW left, FillReturns(dropped, left),
         work.src = "write" => left \in Nat
  PROVE  /\ work' \in Works /\ work'.pc \in {"txfill", "sendtx", "direct"}
         /\ work'.pc = "txfill" => work.src = "write" /\ work'.chunk <= left
         /\ work'.pc # "txfill" => work'.chunk = 0
  <1> DEFINE spent == Spend(work.budget, dropped)
             pc == CASE work.src = "write" -> "txfill"
                     [] work.src = "tx" /\ work.moved + dropped > 0 -> "sendtx"
                     [] OTHER -> "direct"
             chunk == IF work.src = "write" /\ tx.busy <= 1
                      THEN Least(left, TxSize - 1) ELSE 0
  <1>1. spent \in Nat
    BY SpendFacts DEF Works
  <1>2. pc \in {"txfill", "sendtx", "direct"} /\ (pc = "txfill" <=> work.src = "write")
    BY DEF Works
  <1>3. /\ chunk \in Nat
        /\ work.src = "write" => chunk <= left
        /\ work.src # "write" => chunk = 0
    <2>1. CASE work.src = "write"
      <3>1. left \in Nat /\ TxSize - 1 \in Nat
        BY <2>1, SizesAssumption
      <3>2. Least(left, TxSize - 1) \in Nat /\ Least(left, TxSize - 1) <= left
        BY <3>1, LeastFacts
      <3> QED  BY <2>1, <3>1, <3>2
    <2>2. CASE work.src # "write"
      BY <2>2
    <2> QED  BY <2>1, <2>2
  <1>4. work' = [work EXCEPT !.pc = pc, !.chunk = chunk, !.budget = spent,
                             !.room = 0, !.moved = 0]
    BY DEF FillReturns, Works
  <1> HIDE DEF spent, pc, chunk
  <1>5. /\ work' \in Works /\ work'.pc = pc /\ work'.chunk = chunk
    BY <1>1, <1>2, <1>3, <1>4 DEF Works, Labels
  <1> QED  BY <1>2, <1>3, <1>5

LEMMA SendingInv ==
  ASSUME Inv, Sending
  PROVE  Inv'
  <1>0. TypeOK /\ ChunksFit /\ work \in Works
    BY DEF Inv, TypeOK, Works
  <1>a. work.chunk \in Nat /\ work.budget \in Nat /\ work.room \in Nat /\ work.moved \in Nat
    BY <1>0 DEF Works
  <1>1. CASE SendTx
    <2>1. CASE tx.busy > 0 /\ work.budget > 0
      <3> DEFINE chunk == Least(FilledRun(tx), work.budget)
      <3>1. RingOK(tx) /\ FilledRun(tx) \in Nat /\ tx.busy \in Nat
        BY <1>0, CountFacts DEF TypeOK
      <3>2. chunk \in Nat /\ chunk <= FilledRun(tx) /\ chunk <= work.budget
        BY <1>a, <3>1, LeastFacts
      <3>3. work' = [work EXCEPT !.pc = "fill", !.src = "tx", !.chunk = chunk]
        BY <1>1, <2>1 DEF SendTx
      <3> HIDE DEF chunk
      <3>4. /\ work' \in Works /\ work'.pc = "fill" /\ work'.src = "tx"
            /\ work'.chunk = chunk /\ work'.budget = work.budget
        BY <1>0, <3>2, <3>3 DEF Works, Labels
      <3>5. TypeOK'
        BY <1>0, <1>1, <3>4 DEF SendTx, TypeOK, Works
      <3>6. ChunksFit'
        BY <1>0, <1>1, <2>1, <3>1, <3>2, <3>4 DEF SendTx, ChunksFit, At
      <3> QED  BY <3>5, <3>6 DEF Inv
    <2>2. CASE ~(tx.busy > 0 /\ work.budget > 0)
      <3>1. work' \in Works /\ work'.pc = "direct"
        BY <1>0, <1>1, <2>2, GotoFacts DEF SendTx, Labels
      <3> QED  BY <1>0, <1>1, <3>1 DEF SendTx, TypeOK, Works, ChunksFit, At, Inv
    <2> QED  BY <2>1, <2>2
  <1>2. CASE DirectCall
    <2>1. reads # <<>> /\ InsertToRead /\ writes # <<>>
      BY <1>2 DEF DirectCall
    <2>2. /\ out' \in Seq(Symbols) /\ Len(out') <= Head(reads)
          /\ insert' \in Seq(Symbols) /\ Len(insert') <= InsertSize
      BY <2>1, InsertToReadFacts
    <2> DEFINE chunk == Least(Len(Head(writes)), work.budget)
    <2>3. chunk \in Nat /\ chunk <= Len(Head(writes)) /\ chunk <= work.budget
      <3>1. Len(Head(writes)) \in Nat
        BY <1>0, <2>1 DEF TypeOK
      <3> QED  BY <1>a, <3>1, LeastFacts
    <2>4. work' = [work EXCEPT !.pc = "dcopy", !.chunk = chunk]
      BY <1>2 DEF DirectCall
    <2> HIDE DEF chunk
    <2>5. /\ work' \in Works /\ work'.pc = "dcopy" /\ work'.chunk = chunk
          /\ work'.budget = work.budget
      BY <1>0, <2>3, <2>4 DEF Works, Labels
    <2>6. TypeOK'
      BY <1>0, <1>2, <2>2, <2>5 DEF DirectCall, TypeOK, Works
    <2>7. ChunksFit'
      BY <1>0, <1>2, <2>1, <2>2, <2>3, <2>5 DEF DirectCall, ChunksFit, At
    <2> QED  BY <2>6, <2>7 DEF Inv
  <1>3. CASE DirectChar
    <2>1. /\ reads # <<>> /\ work.pc = "dcopy" /\ work.chunk > 0
          /\ work.chunk <= work.budget /\ writes # <<>>
          /\ work.chunk <= Len(Head(writes))
      BY <1>0, <1>3 DEF DirectChar, ChunksFit, At
    <2>2. Head(writes) \in Seq(Chars) /\ Len(Head(writes)) \in Nat
      BY <1>0, <2>1 DEF TypeOK
    <2>3. Head(Head(writes)) \in Symbols
      <3>1. Head(writes) # <<>>
        BY <1>a, <2>1, <2>2
      <3> QED  BY <2>2, <3>1 DEF Symbols
    <2>4. /\ out' \in Seq(Symbols) /\ Len(out') <= Head(reads)
          /\ insert' \in Seq(Symbols) /\ Len(insert') <= InsertSize
      BY <1>3, <2>1, <2>3, CharToReadFacts DEF DirectChar
    <2>5. /\ writes' \in Seq(Seq(Chars)) /\ Len(writes') = Len(writes)
          /\ writes' # <<>> /\ Len(Head(writes')) = Len(Head(writes)) - 1
      <3>1. 1 <= Len(Head(writes))
        BY <1>a, <2>1, <2>2
      <3> QED  BY <1>0, <1>3, <2>1, <3>1, TakeFromWriteFacts DEF DirectChar
    <2>6. Spend(work.budget, 1) \in Nat /\ work.chunk - 1 <= Spend(work.budget, 1)
      BY <1>a, <2>1, SpendFacts
    <2>7. /\ work' \in Works /\ work'.pc = "dcopy" /\ work'.chunk = work.chunk - 1
          /\ work'.budget = Spend(work.budget, 1)
      <3> DEFINE spent == Spend(work.budget, 1)
      <3>1. work' = [work EXCEPT !.chunk = @ - 1, !.budget = spent]
        BY <1>0, <1>3 DEF DirectChar, Works
      <3>2. work.chunk - 1 \in Nat
        BY <1>a, <2>1
      <3> HIDE DEF spent
      <3> QED  BY <1>0, <2>1, <2>6, <3>1, <3>2 DEF Works, spent
    <2>8. TypeOK'
      BY <1>0, <1>3, <2>4, <2>5, <2>7 DEF DirectChar, TypeOK, Works
    <2>9. ChunksFit'
      <3>1. work'.chunk <= Len(Head(writes')) /\ work'.chunk <= work'.budget
        BY <1>a, <2>1, <2>2, <2>5, <2>6, <2>7
      <3>2. reads' = reads
        BY <1>3 DEF DirectChar
      <3> QED  BY <2>1, <2>4, <2>5, <2>7, <3>1, <3>2 DEF ChunksFit, At
    <2> QED  BY <2>8, <2>9 DEF Inv
  <1>4. CASE DirectDone
    <2>1. writes # <<>>
      BY <1>0, <1>4 DEF DirectDone, ChunksFit, At
    <2>2. work' \in Works /\ work'.pc = "direct"
      BY <1>0, <1>4, GotoFacts DEF DirectDone, Labels
    <2>3. writes' \in Seq(Seq(Chars)) /\ Len(writes') <= MaxWrites
      <3>1. writes \in Seq(Seq(Chars)) /\ Len(writes) <= MaxWrites /\ MaxWrites \in Nat
        BY <1>0, InputsAssumption DEF TypeOK
      <3>2. Tail(writes) \in Seq(Seq(Chars)) /\ Len(Tail(writes)) = Len(writes) - 1
            /\ Len(writes) \in Nat
        BY <2>1, <3>1
      <3> QED  BY <1>4, <3>1, <3>2 DEF DirectDone
    <2> QED  BY <1>0, <1>4, <2>2, <2>3
             DEF DirectDone, TypeOK, Works, ChunksFit, At, Inv
  <1>5. CASE DirectEnd
    <2>1. work' \in Works /\ work'.pc = "write"
      BY <1>0, <1>5, GotoFacts DEF DirectEnd, Labels
    <2> QED  BY <1>0, <1>5, <2>1 DEF DirectEnd, TypeOK, Works, ChunksFit, At, Inv
  <1>6. CASE Write
    <2>1. CASE writes = <<>> \/ work.hold
      <3>1. work' = Idle
        BY <1>6, <2>1 DEF Write
      <3>2. work' \in Works /\ work'.pc = "idle"
        BY <3>1 DEF Idle, Works, Labels
      <3> QED  BY <1>0, <1>6, <3>2 DEF Write, TypeOK, Works, ChunksFit, At, Inv
    <2>2. CASE ~(writes = <<>> \/ work.hold)
      <3> DEFINE chunk == Least(Len(Head(writes)), work.budget)
      <3>1. chunk \in Nat /\ chunk <= Len(Head(writes)) /\ chunk <= work.budget
        <4>1. Len(Head(writes)) \in Nat
          BY <1>0, <2>2 DEF TypeOK
        <4> QED  BY <1>a, <4>1, LeastFacts
      <3>2. work' = [work EXCEPT !.pc = "fill", !.src = "write", !.chunk = chunk]
        BY <1>6, <2>2 DEF Write
      <3> HIDE DEF chunk
      <3>3. /\ work' \in Works /\ work'.pc = "fill" /\ work'.src = "write"
            /\ work'.chunk = chunk /\ work'.budget = work.budget
        BY <1>0, <3>1, <3>2 DEF Works, Labels
      <3>4. TypeOK'
        BY <1>0, <1>6, <3>3 DEF Write, TypeOK, Works
      <3>5. ChunksFit'
        BY <1>0, <1>6, <2>2, <3>1, <3>3 DEF Write, ChunksFit, At
      <3> QED  BY <3>4, <3>5 DEF Inv
    <2> QED  BY <2>1, <2>2
  <1>7. CASE FillCall
    <2>1. PICK room : /\ room = Least(FreeRun(rx), limit - rx.busy)
                      /\ rx' = Put(rx, Upto(insert, room))
                      /\ insert' = From(insert, room)
                      /\ work' = [work EXCEPT !.pc = "fillcopy",
                                    !.room = room - Least(Len(insert), room)]
      BY <1>7 DEF FillCall
    <2>2. room \in Nat /\ room <= FreeRun(rx) /\ rx.busy + room <= limit
      <3>1. FreeRun(rx) \in Nat /\ rx.busy \in Nat /\ limit \in Nat
        BY <1>0, CountFacts, SizesAssumption DEF TypeOK
      <3>2. limit - rx.busy \in Nat
        BY <1>7, <3>1 DEF FillCall
      <3> QED  BY <2>1, <3>1, <3>2, LeastFacts
    <2>3. insert \in Seq(Symbols) /\ Len(insert) <= InsertSize /\ limit' = limit
      BY <1>0, <1>7 DEF FillCall, TypeOK
    <2> DEFINE left == room - Least(Len(insert), room)
    <2>4. /\ RingOK(rx') /\ rx'.size = rx.size
          /\ left \in Nat /\ left <= FreeRun(rx') /\ rx'.busy + left <= limit'
      BY <1>0, <2>1, <2>2, <2>3, FillFacts
    <2>5. insert' \in Seq(Symbols) /\ Len(insert') <= InsertSize
      <3>1. /\ From(insert, room) \in Seq(Symbols)
            /\ Len(From(insert, room)) = Len(insert) - Least(Len(insert), room)
            /\ Least(Len(insert), room) \in Nat /\ Len(insert) \in Nat
        BY <2>2, <2>3, CutFacts
      <3> QED  BY <2>1, <2>3, <3>1, SizesAssumption
    <2> HIDE DEF left
    <2>6. /\ work' \in Works /\ work'.pc = "fillcopy" /\ work'.room = left
          /\ work'.chunk = work.chunk /\ work'.budget = work.budget
          /\ work'.src = work.src
      <3>1. work' = [work EXCEPT !.pc = "fillcopy", !.room = left]
        BY <2>1 DEF left
      <3> QED  BY <1>0, <2>4, <3>1 DEF Works, Labels
    <2>7. TypeOK'
      BY <1>0, <1>7, <2>4, <2>5, <2>6 DEF FillCall, TypeOK, Works
    <2>8. ChunksFit'
      BY <1>0, <1>7, <2>4, <2>6 DEF FillCall, ChunksFit, At
    <2> QED  BY <2>7, <2>8 DEF Inv
  <1>8. CASE FillChar
    <2>1. /\ work.pc = "fillcopy" /\ work.chunk > 0 /\ work.room > 0
          /\ work.room <= FreeRun(rx) /\ rx.busy + work.room <= limit
          /\ work.chunk <= work.budget
      BY <1>0, <1>8 DEF FillChar, ChunksFit, At
    <2>2. Head(Source) \in Symbols
      BY <2>1, SourceFacts
    <2> DEFINE got == Received(Head(Source))
               left == work.room - Least(Len(got), work.room)
               spent == Spend(work.budget, 1)
    <2>3. /\ rx' = Put(rx, Upto(got, work.room)) /\ limit' = limit
          /\ insert' = Upto(insert \o From(got, work.room), InsertSize)
          /\ work' = [work EXCEPT !.chunk = work.chunk - 1, !.budget = spent,
                                  !.moved = work.moved + 1, !.room = left]
          /\ TakeFromSource(1)
      BY <1>0, <1>8 DEF FillChar, Works
    <2>4. got \in Seq(Symbols)
      BY <2>2, ReceivedFacts
    <2>5. spent \in Nat /\ work.chunk - 1 <= spent
      BY <1>a, <2>1, SpendFacts
    <2> HIDE DEF got
    <2>6. /\ RingOK(rx') /\ rx'.size = rx.size
          /\ left \in Nat /\ left <= FreeRun(rx') /\ rx'.busy + left <= limit'
      BY <1>0, <1>a, <2>1, <2>3, <2>4, FillFacts
    <2>7. insert' \in Seq(Symbols) /\ Len(insert') <= InsertSize
      BY <1>0, <1>a, <2>3, <2>4, KeptFacts DEF TypeOK
    <2> HIDE DEF left, spent
    <2>8. /\ work' \in Works /\ work'.pc = "fillcopy" /\ work'.room = left
          /\ work'.chunk = work.chunk - 1 /\ work'.budget = spent
          /\ work'.src = work.src
      <3>1. work.chunk - 1 \in Nat /\ work.moved + 1 \in Nat
        BY <1>a, <2>1
      <3> QED  BY <1>0, <2>1, <2>3, <2>5, <2>6, <3>1 DEF Works
    <2>9. /\ RingOK(tx') /\ tx'.size = TxSize
          /\ writes' \in Seq(Seq(Chars)) /\ Len(writes') = Len(writes)
          /\ work.src = "tx" =>
               work.chunk - 1 <= (IF tx'.busy = 0 THEN 0 ELSE FilledRun(tx'))
          /\ work.src = "write" =>
               /\ writes' # <<>> /\ Len(Head(writes')) = Len(Head(writes)) - 1
               /\ work.chunk <= Len(Head(writes)) /\ Len(Head(writes)) \in Nat
      <3>1. 1 <= work.chunk
        BY <1>a, <2>1
      <3> QED  BY <2>1, <2>3, <3>1, TakeFromSourceFacts
    <2>10. TypeOK'
      BY <1>0, <1>8, <2>6, <2>7, <2>8, <2>9 DEF FillChar, TypeOK, Works
    <2>11. work.src = "write" => work'.chunk <= Len(Head(writes'))
      BY <1>a, <2>8, <2>9
    <2>12. ChunksFit'
      BY <1>0, <1>8, <2>5, <2>6, <2>8, <2>9, <2>11 DEF FillChar, ChunksFit, At, Works
    <2> QED  BY <2>10, <2>12 DEF Inv
  <1>9. CASE FillCharsDone
    <2>1. work' = [work EXCEPT !.pc = "fill", !.room = 0]
      BY <1>9 DEF FillCharsDone
    <2>2. /\ work' \in Works /\ work'.pc = "fill" /\ work'.chunk = work.chunk
          /\ work'.budget = work.budget /\ work'.src = work.src
      BY <1>0, <2>1 DEF Works, Labels
    <2>3. TypeOK'
      BY <1>0, <1>9, <2>2 DEF FillCharsDone, TypeOK, Works
    <2>4. ChunksFit'
      BY <1>0, <1>9, <2>2 DEF FillCharsDone, ChunksFit, At
    <2> QED  BY <2>3, <2>4 DEF Inv
  <1>10. CASE FillReturn
    <2>1. work.src = "write" => writes # <<>> /\ Len(Head(writes)) \in Nat
      BY <1>0, <1>10 DEF FillReturn, ChunksFit, At, TypeOK
    <2>2. work.chunk <= work.budget
      BY <1>0, <1>10 DEF FillReturn, ChunksFit, At
    <2>3. /\ work' \in Works /\ work'.pc \in {"txfill", "sendtx", "direct"}
          /\ work'.pc = "txfill" =>
               work.src = "write" /\ work'.chunk <= Len(Head(writes))
          /\ work'.pc # "txfill" => work'.chunk = 0
      BY <1>0, <1>10, <1>a, <2>1, <2>2, ReturnFacts DEF FillReturn
    <2>4. TypeOK'
      BY <1>0, <1>10, <2>3 DEF FillReturn, TypeOK, Works
    <2>5. ChunksFit'
      BY <1>0, <1>10, <2>1, <2>3 DEF FillReturn, ChunksFit, At
    <2> QED  BY <2>4, <2>5 DEF Inv
  <1>11. CASE Overrun
    <2>1. /\ work.pc = "fill" /\ work.chunk > 0 /\ work.chunk <= work.budget
          /\ TakeFromSource(work.chunk) /\ insert' = <<>>
          /\ FillReturns(work.chunk, Len(Head(writes)) - work.chunk)
          /\ rx' \in {rx, ReplaceLast(rx, "error")}
      BY <1>0, <1>11 DEF Overrun, ChunksFit, At
    <2>2. RingOK(rx') /\ rx'.size = rx.size
      <3>1. "error" \in Symbols /\ RingOK(rx)
        BY <1>0 DEF Symbols, TypeOK
      <3> QED  BY <2>1, <3>1, ReplaceFacts
    <2>3. /\ RingOK(tx') /\ tx'.size = TxSize
          /\ writes' \in Seq(Seq(Chars)) /\ Len(writes') = Len(writes)
          /\ work.src = "write" =>
               /\ writes' # <<>> /\ Len(Head(writes')) = Len(Head(writes)) - work.chunk
               /\ work.chunk <= Len(Head(writes)) /\ Len(Head(writes)) \in Nat
      <3>1. 0 < work.chunk /\ work.chunk <= work.chunk
        BY <1>a, <2>1
      <3> QED  BY <1>a, <2>1, <3>1, TakeFromSourceFacts
    <2>4. work.src = "write" => Len(Head(writes)) - work.chunk \in Nat
      BY <1>a, <2>3
    <2>5. /\ work' \in Works /\ work'.pc \in {"txfill", "sendtx", "direct"}
          /\ work'.pc = "txfill" =>
               work.src = "write" /\ work'.chunk <= Len(Head(writes)) - work.chunk
          /\ work'.pc # "txfill" => work'.chunk = 0
      <3>1. work.chunk <= work.chunk
        BY <1>a
      <3> QED  BY <1>0, <1>a, <2>1, <2>4, <3>1, ReturnFacts
    <2>6. insert' \in Seq(Symbols) /\ Len(insert') <= InsertSize
      BY <2>1, SizesAssumption
    <2>7. TypeOK'
      BY <1>0, <1>11, <2>2, <2>3, <2>5, <2>6 DEF Overrun, TypeOK, Works
    <2>8. ChunksFit'
      BY <1>0, <1>11, <2>3, <2>5 DEF Overrun, ChunksFit, At
    <2> QED  BY <2>7, <2>8 DEF Inv
  <1>12. CASE TxFill
    <2>1. /\ writes # <<>> /\ work.chunk <= Len(Head(writes)) /\ work.chunk > 0
          /\ work.pc = "txfill"
      BY <1>0, <1>12 DEF TxFill, ChunksFit, At
    <2>2. Head(writes) \in Seq(Chars) /\ Len(Head(writes)) \in Nat
      BY <1>0, <2>1 DEF TypeOK
    <2>3. PICK n : /\ n = Least(FreeRun(tx), work.chunk)
                   /\ tx' = Put(tx, Upto(Head(writes), n))
                   /\ TakeFromWrite(n)
                   /\ work' = [work EXCEPT !.chunk = work.chunk - n]
      BY <1>0, <1>12 DEF TxFill, Works
    <2>4. /\ RingOK(tx) /\ tx.busy \in Nat /\ tx.size = TxSize /\ FreeRun(tx) \in Nat
          /\ FreeRun(tx) <= tx.size - tx.busy /\ tx.size \in Nat
      BY <1>0, <1>12, CountFacts DEF TxFill, TypeOK
    <2>5. n \in Nat /\ n <= FreeRun(tx) /\ n <= work.chunk
      BY <1>a, <2>3, <2>4, LeastFacts
    <2>6. Upto(Head(writes), n) \in Seq(Symbols) /\ Len(Upto(Head(writes), n)) = n
      <3>1. Head(writes) \in Seq(Symbols)
        BY <2>2 DEF Symbols
      <3>2. Least(Len(Head(writes)), n) = n
        BY <1>a, <2>1, <2>2, <2>5 DEF Least
      <3> QED  BY <2>5, <3>1, <3>2, CutFacts
    <2>7. RingOK(tx') /\ tx'.size = TxSize
      <3>1. tx.busy + n <= tx.size
        BY <2>4, <2>5
      <3> QED  BY <2>3, <2>4, <2>5, <2>6, <3>1, PutFacts
    <2>8. /\ writes' \in Seq(Seq(Chars)) /\ Len(writes') = Len(writes)
          /\ writes' # <<>> /\ Len(Head(writes')) = Len(Head(writes)) - n
      <3>1. n <= Len(Head(writes))
        BY <1>a, <2>1, <2>2, <2>5
      <3> QED  BY <1>0, <2>1, <2>3, <2>5, <3>1, TakeFromWriteFacts
    <2>9. /\ work' \in Works /\ work'.pc = "txfill" /\ work'.chunk = work.chunk - n
      <3>1. work.chunk - n \in Nat
        BY <1>a, <2>5
      <3> QED  BY <1>0, <2>1, <2>3, <3>1 DEF Works
    <2>10. work'.chunk <= Len(Head(writes'))
      BY <1>a, <2>1, <2>2, <2>5, <2>8, <2>9
    <2>11. TypeOK'
      BY <1>0, <1>12, <2>7, <2>8, <2>9 DEF TxFill, TypeOK, Works
    <2>12. ChunksFit'
      BY <1>0, <1>12, <2>8, <2>9, <2>10 DEF TxFill, ChunksFit, At
    <2> QED  BY <2>11, <2>12 DEF Inv
  <1>13. CASE TxFillDone
    <2>1. writes # <<>>
      BY <1>0, <1>13 DEF TxFillDone, ChunksFit, At
    <2>2. work' \in Works /\ work'.pc \in {"write", "idle"}
      <3>1. CASE Head(writes) = <<>>
        BY <1>0, <1>13, <3>1, GotoFacts DEF TxFillDone, Labels
      <3>2. CASE Head(writes) # <<>>
        <4>1. work' = Idle
          BY <1>13, <3>2 DEF TxFillDone
        <4> QED  BY <4>1 DEF Idle, Labels, Works
      <3> QED  BY <3>1, <3>2
    <2>3. writes' \in Seq(Seq(Chars)) /\ Len(writes') <= MaxWrites
      <3>1. writes \in Seq(Seq(Chars)) /\ Len(writes) <= MaxWrites /\ MaxWrites \in Nat
        BY <1>0, InputsAssumption DEF TypeOK
      <3>2. Tail(writes) \in Seq(Seq(Chars)) /\ Len(Tail(writes)) = Len(writes) - 1
            /\ Len(writes) \in Nat
        BY <2>1, <3>1
      <3>3. CASE writes' = writes
        BY <3>1, <3>3
      <3>4. CASE writes' = Tail(writes)
        BY <3>1, <3>2, <3>4
      <3> QED  BY <1>13, <3>3, <3>4 DEF TxFillDone
    <2> QED  BY <1>0, <1>13, <2>2, <2>3
             DEF TxFillDone, TypeOK, Works, ChunksFit, At, Inv
  <1> QED  BY <1>1, <1>2, <1>3, <1>4, <1>5, <1>6, <1>7, <1>8, <1>9, <1>10, <1>11,
              <1>12, <1>13 DEF Sending

-----------------------------------------------------------------------------
(* A status sequence *)

LEMMA InsertingInv ==
  ASSUME Inv, Inserting
  PROVE  Inv'
  <1>0. TypeOK /\ ChunksFit /\ work \in Works
    BY DEF Inv, TypeOK, Works
  <1>a. /\ work.raw \in Seq(StatusChars) /\ insert \in Seq(Symbols)
        /\ Len(insert) <= InsertSize /\ work.raw \in Seq(Symbols)
    <2>1. work.raw \in Seq(StatusChars) /\ StatusChars \subseteq Symbols
      BY <1>0 DEF Works, Symbols
    <2> QED  BY <1>0, <2>1 DEF TypeOK
  <1>1. CASE InsertDirect
    <2>1. CASE reads = <<>>
      <3>1. work' = [work EXCEPT !.pc = "insring"] /\ out' = out
        BY <1>1, <2>1 DEF InsertDirect
      <3>2. work' \in Works /\ work'.pc = "insring"
        BY <1>0, <3>1 DEF Works, Labels
      <3> QED  BY <1>0, <1>1, <3>1, <3>2
               DEF InsertDirect, TypeOK, Works, ChunksFit, At, Inv
    <2>2. CASE reads # <<>>
      <3>1. Left \in Nat
        BY <2>2, RoomFacts
      <3>2. /\ Upto(work.raw, Left) \in Seq(Symbols) /\ Len(Upto(work.raw, Left)) <= Left
            /\ From(work.raw, Left) \in Seq(StatusChars)
        BY <1>a, <3>1, CutFacts
      <3>3. out' \in Seq(Symbols) /\ Len(out') <= Head(reads)
        BY <1>1, <2>2, <3>2, OutFacts DEF InsertDirect
      <3>4. work' \in Works /\ work'.pc \in {"insread", "insring"}
        <4> DEFINE pc == IF Len(work.raw) >= Left THEN "insread" ELSE "insring"
                   raw == From(work.raw, Left)
        <4>1. work' = [work EXCEPT !.raw = raw, !.pc = pc]
          BY <1>0, <1>1, <2>2 DEF InsertDirect, Works
        <4>2. pc \in {"insread", "insring"} /\ raw \in Seq(StatusChars)
          BY <3>2
        <4> HIDE DEF pc, raw
        <4> QED  BY <1>0, <4>1, <4>2 DEF Works, Labels
      <3>5. TypeOK'
        BY <1>0, <1>1, <3>3, <3>4 DEF InsertDirect, TypeOK, Works
      <3>6. ChunksFit'
        BY <1>0, <1>1, <2>2, <3>3, <3>4 DEF InsertDirect, ChunksFit, At
      <3> QED  BY <3>5, <3>6 DEF Inv
    <2> QED  BY <2>1, <2>2
  <1>2. CASE InsertToRing
    <2> DEFINE room == FreeRun(rx)
               rest == room - Least(Len(insert), room)
               head == Upto(insert, room)
               tail == Upto(work.raw, rest)
    <2>1. /\ rx' = Put(rx, head \o tail) /\ insert' = From(insert, room)
          /\ work' = [work EXCEPT !.raw = From(work.raw, rest)]
          /\ rx.busy < rx.size
      BY <1>0, <1>2 DEF InsertToRing, Works
    <2>2. /\ RingOK(rx) /\ rx.busy \in Nat /\ rx.size \in Nat /\ room \in Nat
          /\ room <= rx.size - rx.busy
      BY <1>0, <2>1, CountFacts DEF TypeOK
    <2> HIDE DEF room
    <2>3. /\ head \in Seq(Symbols) /\ Len(head) = Least(Len(insert), room)
          /\ Least(Len(insert), room) \in Nat /\ Least(Len(insert), room) <= room
          /\ From(insert, room) \in Seq(Symbols)
          /\ Len(From(insert, room)) = Len(insert) - Least(Len(insert), room)
      BY <1>a, <2>2, CutFacts
    <2>4. rest \in Nat /\ Len(head) + rest = room /\ Len(head) \in Nat
      BY <2>2, <2>3
    <2> HIDE DEF rest, head
    <2>5. /\ tail \in Seq(Symbols) /\ Len(tail) <= rest /\ Len(tail) \in Nat
          /\ From(work.raw, rest) \in Seq(StatusChars)
      <3>1. /\ tail \in Seq(Symbols) /\ Len(tail) = Least(Len(work.raw), rest)
            /\ Least(Len(work.raw), rest) <= rest
            /\ Least(Len(work.raw), rest) \in Nat
            /\ From(work.raw, rest) \in Seq(StatusChars)
        BY <1>a, <2>4, CutFacts
      <3> QED  BY <3>1
    <2> HIDE DEF tail
    <2>6. head \o tail \in Seq(Symbols) /\ Len(head \o tail) = Len(head) + Len(tail)
      BY <2>3, <2>5, ConcatProperties
    <2>7. rx.busy + Len(head \o tail) <= rx.size /\ Len(head \o tail) <= room
      BY <2>2, <2>4, <2>5, <2>6
    <2>8. RingOK(rx') /\ rx'.size = rx.size
      BY <2>1, <2>2, <2>6, <2>7, PutFacts DEF room
    <2>9. insert' \in Seq(Symbols) /\ Len(insert') <= InsertSize
      <3>1. Len(insert) \in Nat
        BY <1>a
      <3> QED  BY <1>a, <2>1, <2>3, <3>1, SizesAssumption
    <2>10. work' \in Works /\ work'.pc = "insring"
      BY <1>0, <1>2, <2>1, <2>5 DEF InsertToRing, At, Works
    <2>11. TypeOK'
      BY <1>0, <1>2, <2>8, <2>9, <2>10 DEF InsertToRing, TypeOK, Works
    <2>12. ChunksFit'
      BY <1>0, <1>2, <2>10 DEF InsertToRing, ChunksFit, At
    <2> QED  BY <2>11, <2>12 DEF Inv
  <1>3. CASE InsertRest
    <2>1. work' \in Works /\ work'.pc = "idle"
      BY <1>0, <1>3 DEF InsertRest, Idle, Works, Labels
    <2> DEFINE more == Upto(work.raw, InsertSize - Len(insert))
    <2>2. InsertSize - Len(insert) \in Nat /\ Len(insert) \in Nat /\ InsertSize \in Nat
      BY <1>a, SizesAssumption
    <2>3. more \in Seq(Symbols) /\ Len(more) <= InsertSize - Len(insert)
          /\ Len(more) \in Nat
      <3>1. more \in Seq(Symbols)
            /\ Len(more) = Least(Len(work.raw), InsertSize - Len(insert))
            /\ Least(Len(work.raw), InsertSize - Len(insert)) <= InsertSize - Len(insert)
            /\ Least(Len(work.raw), InsertSize - Len(insert)) \in Nat
        BY <1>a, <2>2, CutFacts
      <3> QED  BY <3>1
    <2>4. insert' = IF EmuOverrun THEN insert ELSE insert \o more
      BY <1>3 DEF InsertRest
    <2> HIDE DEF more
    <2>5. insert \o more \in Seq(Symbols) /\ Len(insert \o more) = Len(insert) + Len(more)
      BY <1>a, <2>3, ConcatProperties
    <2>6. insert' \in Seq(Symbols) /\ Len(insert') <= InsertSize
      BY <1>a, <2>2, <2>3, <2>4, <2>5
    <2> QED  BY <1>0, <1>3, <2>1, <2>6 DEF InsertRest, TypeOK, Works, ChunksFit, At, Inv
  <1> QED  BY <1>1, <1>2, <1>3 DEF Inserting

-----------------------------------------------------------------------------
(* The theorem *)

\* Whatever the sizes of the buffers, the settings of the receiving port and
\* the calls, the pointers of both rings stay inside the buffers and in
\* agreement with the counts, only valid bytes are between them, and no loop
\* of a pass copies more than its source holds or its destination takes
\* (bufutils.c, io.c).
THEOREM BuffersSafe == Spec => [](TypeOK /\ ChunksFit)
  <1>1. Init => Inv
    BY InitInv
  <1>2. Inv /\ [Next]_vars => Inv'
    <2> SUFFICES ASSUME Inv, [Next]_vars PROVE Inv'
      OBVIOUS
    <2>1. CASE Next
      BY <2>1, CallsInv, ReadingInv, SendingInv, InsertingInv DEF Next
    <2>2. CASE UNCHANGED vars
      BY <2>2 DEF vars, Inv, TypeOK, ChunksFit, At
    <2> QED  BY <2>1, <2>2
  <1>3. Inv => TypeOK /\ ChunksFit
    BY DEF Inv
  <1> QED  BY <1>1, <1>2, <1>3, PTL DEF Spec

\* WriteToBuffer puts no byte over the limit of handshaking into the ring: a fill that makes
\* it fuller ends at the limit, whatever insertData held and whatever the characters became.
THEOREM LimitKept == Spec => LimitRespected
  <1>1. ASSUME Inv, Inv', Next, work.pc \in {"fill", "fillcopy"}
        PROVE  rx'.busy <= rx.busy \/ rx'.busy <= limit
    <2>1. /\ rx.busy \in Nat /\ rx'.busy \in Nat /\ limit' \in Nat
          /\ work'.room \in Nat
      <3>1. RingOK(rx) /\ RingOK(rx') /\ limit' \in 1 .. rx'.size /\ work'.room \in Nat
        BY <1>1 DEF Inv, TypeOK
      <3> QED  BY <3>1 DEF RingOK
    <2>2. CASE FillCall \/ FillChar
      <3>1. work'.pc = "fillcopy" /\ limit' = limit
        BY <1>1, <2>2 DEF FillCall, FillChar, Inv, TypeOK, At
      <3>2. rx'.busy + work'.room <= limit'
        BY <1>1, <3>1 DEF Inv, ChunksFit, At
      <3> QED  BY <2>1, <3>1, <3>2
    <2>3. CASE FillCharsDone \/ FillReturn
      BY <2>1, <2>3 DEF FillCharsDone, FillReturn
    <2>4. CASE Overrun
      <3>1. rx' \in {rx, ReplaceLast(rx, "error")}
        BY <2>4 DEF Overrun
      <3>2. ReplaceLast(rx, "error").busy = rx.busy
        BY <1>1 DEF ReplaceLast
      <3> QED  BY <2>1, <3>1, <3>2
    <2> QED  BY <1>1, <2>2, <2>3, <2>4
             DEF Next, Calls, Reading, Sending, Inserting, StartRead, StartWrite, Tick, PurgeRx,
                 SetHandFlow, SetQueueSize, StartInsert, ReadRing, ReadInsert, CompleteRead,
                 ReadRingDone, NoReader, TxReadCall, TxReadChar, TxReadDone, SendTx, DirectCall,
                 DirectChar, DirectDone, DirectEnd, Write, TxFill, TxFillDone, InsertDirect,
                 InsertToRing, InsertRest, At
  <1>2. Inv /\ Inv' /\ [Next]_vars
          => [work.pc \in {"fill", "fillcopy"} =>
                rx'.busy <= rx.busy \/ rx'.busy <= limit]_vars
    BY <1>1
  <1>3. Spec => []Inv
    BY BuffersSafe DEF Inv
  <1> QED  BY <1>2, <1>3, PTL DEF Spec, LimitRespected

=============================================================================
