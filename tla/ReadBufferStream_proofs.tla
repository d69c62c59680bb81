---------------------- MODULE ReadBufferStream_proofs ----------------------
(***************************************************************************)
(* ReadBuffer implements Stream: the proof that TryReadWrite keeps the     *)
(* promise of a null modem, for every size of the rings and every input.   *)
(*                                                                         *)
(* FlattenSeq is a recursive function: what it gives is proved by the      *)
(* least counterexample.  Then come sequences that are cut and joined,     *)
(* what a ring holds after Take and Put, the step of the promise that each *)
(* action of ReadBuffer takes, and last that each action keeps to the      *)
(* course of a pass on which those steps rest.                             *)
(***************************************************************************)
EXTENDS ReadBuffer_proofs, WellFoundedInduction

-----------------------------------------------------------------------------
(* Induction, and the sequences that FlattenSeq joins *)

\* Every nonempty set of numbers has a least element.
LEMMA LeastNumber ==
  ASSUME NEW T, T \subseteq Nat, T # {}
  PROVE  \E n \in T : \A m \in T : n <= m
  <1> DEFINE Less == {ss \in Nat \X Nat : ss[1] < ss[2]}
  <1>1. IsWellFoundedOn(Less, Nat)
    BY NatLessThanWellFounded DEF OpToRel
  <1> HIDE DEF Less
  <1>2. PICK n \in T : \A m \in T : ~ (<<m, n>> \in Less)
    BY <1>1, WFMin
  <1>3. \A m \in T : ~ (m < n)
    <2> TAKE m \in T
    <2>1. <<m, n>> \in Nat \X Nat /\ <<m, n>>[1] = m /\ <<m, n>>[2] = n
      OBVIOUS
    <2> QED  BY <1>2, <2>1 DEF Less
  <1> QED  BY <1>3

\* Induction over the numbers, for a set of them.
LEMMA Induction ==
  ASSUME NEW T, 0 \in T, \A n \in Nat : n \in T => n + 1 \in T
  PROVE  Nat \subseteq T
  <1> SUFFICES ASSUME Nat \ T # {} PROVE FALSE
    OBVIOUS
  <1>1. PICK n \in Nat \ T : \A m \in Nat \ T : n <= m
    BY LeastNumber
  <1>2. n - 1 \in Nat /\ n - 1 \in T /\ (n - 1) + 1 = n
    BY <1>1
  <1> QED  BY <1>1, <1>2

\* What the recursive function of FlattenSeq is, and one defined up to n.
IsFlat(f, ss) == f = [i \in 1 .. Len(ss) |-> IF i = 1 THEN ss[i] ELSE f[i - 1] \o ss[i]]
FlatUpto(f, ss, n) ==
  \A i \in 1 .. n : f[i] = IF i = 1 THEN ss[i] ELSE f[i - 1] \o ss[i]
HasFlat(ss, S, n) == \E f \in [1 .. n -> Seq(S)] : FlatUpto(f, ss, n)

\* A function defined up to n goes on to n + 1.
LEMMA FlatGoesOn ==
  ASSUME NEW S, NEW ss \in Seq(Seq(S)), NEW n \in Nat, n + 1 <= Len(ss), HasFlat(ss, S, n)
  PROVE  HasFlat(ss, S, n + 1)
  <1>1. PICK f \in [1 .. n -> Seq(S)] : FlatUpto(f, ss, n)
    BY DEF HasFlat
  <1> DEFINE last == IF n + 1 = 1 THEN ss[n + 1] ELSE f[n] \o ss[n + 1]
             g == [i \in 1 .. n + 1 |-> IF i = n + 1 THEN last ELSE f[i]]
  <1>2. last \in Seq(S)
    <2>1. ss[n + 1] \in Seq(S)
      OBVIOUS
    <2>2. n # 0 => f[n] \in Seq(S)
      BY <1>1
    <2> QED  BY <2>1, <2>2, ConcatProperties
  <1>3. g \in [1 .. n + 1 -> Seq(S)]
    <2> HIDE DEF last
    <2> QED  BY <1>1, <1>2
  <1>4. ASSUME NEW i \in 1 .. n + 1
        PROVE  g[i] = IF i = 1 THEN ss[i] ELSE g[i - 1] \o ss[i]
    <2>1. CASE i = n + 1
      <3>1. g[i] = last
        BY <2>1
      <3>2. i # 1 => g[i - 1] = f[n]
        BY <2>1
      <3> QED  BY <2>1, <3>1, <3>2
    <2>2. CASE i # n + 1
      <3>1. i \in 1 .. n /\ g[i] = f[i] /\ (i # 1 => g[i - 1] = f[i - 1])
        BY <2>2
      <3> QED  BY <1>1, <3>1 DEF FlatUpto
    <2> QED  BY <2>1, <2>2
  <1>5. FlatUpto(g, ss, n + 1)
    BY <1>4 DEF FlatUpto
  <1> HIDE DEF g
  <1> QED  BY <1>3, <1>5 DEF HasFlat

\* The function that FlattenSeq chooses exists.
LEMMA FlatExists ==
  ASSUME NEW S, NEW ss \in Seq(Seq(S))
  PROVE  \E f \in [1 .. Len(ss) -> Seq(S)] : IsFlat(f, ss)
  <1> DEFINE T == {n \in Nat : n <= Len(ss) => HasFlat(ss, S, n)}
  <1>0. Len(ss) \in Nat
    OBVIOUS
  <1>1. 0 \in T
    <2>1. [i \in 1 .. 0 |-> <<>>] \in [1 .. 0 -> Seq(S)]
      OBVIOUS
    <2>2. FlatUpto([i \in 1 .. 0 |-> <<>>], ss, 0)
      BY DEF FlatUpto
    <2> QED  BY <2>1, <2>2 DEF HasFlat
  <1>2. \A n \in Nat : n \in T => n + 1 \in T
    BY <1>0, FlatGoesOn
  <1>3. Len(ss) \in T
    <2> HIDE DEF T
    <2> QED  BY <1>0, <1>1, <1>2, Induction
  <1>4. PICK f \in [1 .. Len(ss) -> Seq(S)] : FlatUpto(f, ss, Len(ss))
    BY <1>0, <1>3 DEF HasFlat
  <1>5. IsFlat(f, ss)
    BY <1>4 DEF IsFlat, FlatUpto
  <1> QED  BY <1>5

\* What FlattenSeq makes of a sequence that is not empty: the function at its end.
LEMMA Flattened ==
  ASSUME NEW S, NEW ss \in Seq(Seq(S)), Len(ss) # 0
  PROVE  \E f \in [1 .. Len(ss) -> Seq(S)] :
           FlatUpto(f, ss, Len(ss)) /\ FlattenSeq(ss) = f[Len(ss)]
  <1>0. Len(ss) \in Nat \ {0}
    OBVIOUS
  <1>1. PICK f : IsFlat(f, ss) /\ FlattenSeq(ss) = f[Len(ss)]
    <2>1. FlattenSeq(ss) = (CHOOSE f : IsFlat(f, ss))[Len(ss)]
      BY <1>0 DEF FlattenSeq, IsFlat
    <2>2. \E f : IsFlat(f, ss)
      BY FlatExists
    <2>3. IsFlat(CHOOSE f : IsFlat(f, ss), ss)
      BY <2>2
    <2> QED  BY <2>1, <2>3
  <1>2. FlatUpto(f, ss, Len(ss))
    BY <1>1 DEF IsFlat, FlatUpto
  <1>3. \A i \in 1 .. Len(ss) : f[i] \in Seq(S)
    <2> DEFINE T == {n \in Nat : n + 1 <= Len(ss) => f[n + 1] \in Seq(S)}
    <2>1. 0 \in T
      BY <1>0, <1>2 DEF FlatUpto
    <2>2. \A n \in Nat : n \in T => n + 1 \in T
      <3> SUFFICES ASSUME NEW n \in Nat, n \in T, (n + 1) + 1 <= Len(ss)
                   PROVE  f[(n + 1) + 1] \in Seq(S)
        OBVIOUS
      <3>1. f[n + 1] \in Seq(S) /\ ss[(n + 1) + 1] \in Seq(S)
        BY <1>0
      <3>2. (n + 1) + 1 \in 1 .. Len(ss) /\ (n + 1) + 1 # 1 /\ ((n + 1) + 1) - 1 = n + 1
        BY <1>0
      <3>3. f[(n + 1) + 1] = f[n + 1] \o ss[(n + 1) + 1]
        BY <1>2, <3>2 DEF FlatUpto
      <3> QED  BY <3>1, <3>3, ConcatProperties
    <2>3. Nat \subseteq T
      <3> HIDE DEF T
      <3> QED  BY <2>1, <2>2, Induction
    <2>4. ASSUME NEW i \in 1 .. Len(ss) PROVE f[i] \in Seq(S)
      <3>1. i - 1 \in Nat /\ (i - 1) + 1 = i
        BY <1>0
      <3>2. i - 1 \in T
        BY <2>3, <3>1
      <3> QED  BY <1>0, <3>1, <3>2
    <2> QED  BY <2>4
  <1>4. f \in [1 .. Len(ss) -> Seq(S)]
    BY <1>1, <1>3 DEF IsFlat
  <1> QED  BY <1>1, <1>2, <1>4

LEMMA Joined ==
  \A S : \A s, t, u \in Seq(S) : (s \o t) \o u = s \o (t \o u)
  BY ConcatAssociative

\* Where two such functions are, when one has a sequence more in front.
Behind(f, g, h, i) == f[i + 2] = h \o g[i + 1]

GoesOn(f, g, h, ss, n, S) ==
  /\ f[1] = h /\ \A i \in 2 .. n : f[i] = f[i - 1] \o ss[i] /\ ss[i] \in Seq(S)
  /\ \A i \in 1 .. n - 1 : g[i] \in Seq(S)
  /\ g[1] = ss[2] /\ \A i \in 2 .. n - 1 : g[i] = g[i - 1] \o ss[i + 1]

LEMMA BehindAll ==
  ASSUME NEW S, NEW n \in Nat, n > 1, NEW f, NEW g, NEW ss, NEW h \in Seq(S),
         GoesOn(f, g, h, ss, n, S)
  PROVE  f[n] = h \o g[n - 1]
  <1> USE DEF GoesOn
  <1> DEFINE T == {i \in Nat : i + 1 <= n - 1 => Behind(f, g, h, i)}
  <1>1. 0 \in T
    <2>1. 2 \in 2 .. n /\ 2 - 1 = 1 /\ 0 + 2 = 2 /\ 0 + 1 = 1
      OBVIOUS
    <2>2. f[2] = f[1] \o ss[2]
      BY <2>1
    <2>3. Behind(f, g, h, 0)
      BY <2>1, <2>2 DEF Behind
    <2> QED  BY <2>3
  <1>2. ASSUME NEW i \in Nat, i \in T, (i + 1) + 1 <= n - 1
        PROVE  Behind(f, g, h, i + 1)
    <2>0. PICK k : k = i + 2
      OBVIOUS
    <2>1. k \in 2 .. n - 1 /\ k \in Nat /\ k + 1 \in 2 .. n /\ (k + 1) - 1 = k /\ k - 1 = i + 1
          /\ i + 1 \in 1 .. n - 1 /\ (i + 1) + 2 = k + 1 /\ (i + 1) + 1 = k
      BY <1>2, <2>0
    <2>2. f[k] = h \o g[i + 1]
      BY <1>2, <2>0, <2>1 DEF Behind
    <2>3. f[k + 1] = f[k] \o ss[k + 1] /\ ss[k + 1] \in Seq(S)
      BY <2>1
    <2>4. g[k] = g[i + 1] \o ss[k + 1] /\ g[i + 1] \in Seq(S)
      BY <2>1
    <2>5. (h \o g[i + 1]) \o ss[k + 1] = h \o (g[i + 1] \o ss[k + 1])
      <3>1. PICK a, b : a = g[i + 1] /\ b = ss[k + 1]
        OBVIOUS
      <3>2. a \in Seq(S) /\ b \in Seq(S)
        BY <2>3, <2>4, <3>1
      <3>3. (h \o a) \o b = h \o (a \o b)
        BY <3>2, Joined
      <3> QED  BY <3>1, <3>3
    <2>6. f[k + 1] = h \o g[k]
      BY <2>2, <2>3, <2>4, <2>5
    <2> QED  BY <2>1, <2>6 DEF Behind
  <1>3. \A i \in Nat : i \in T => i + 1 \in T
    BY <1>2
  <1>4. Nat \subseteq T
    <2> HIDE DEF T
    <2> QED  BY <1>1, <1>3, Induction
  <1>5. n - 2 \in Nat /\ (n - 2) + 1 = n - 1 /\ (n - 2) + 2 = n
    OBVIOUS
  <1>6. Behind(f, g, h, n - 2)
    BY <1>4, <1>5
  <1> QED  BY <1>5, <1>6 DEF Behind

\* The first sequence comes first, then the others flattened.
LEMMA FlattenCons ==
  ASSUME NEW S, NEW ss \in Seq(Seq(S)), Len(ss) # 0
  PROVE  /\ FlattenSeq(ss) \in Seq(S) /\ FlattenSeq(Tail(ss)) \in Seq(S)
         /\ FlattenSeq(ss) = Head(ss) \o FlattenSeq(Tail(ss))
  <1>a. PICK n, tt, h : n = Len(ss) /\ tt = Tail(ss) /\ h = Head(ss)
    OBVIOUS
  <1>0. /\ n \in Nat \ {0} /\ tt \in Seq(Seq(S)) /\ Len(tt) = n - 1
        /\ \A i \in 1 .. n : ss[i] \in Seq(S)
        /\ \A i \in 1 .. n - 1 : tt[i] = ss[i + 1]
        /\ h = ss[1] /\ h \in Seq(S)
    BY <1>a
  <1>c. n \in Nat /\ n > 0
    BY <1>0
  <1>1. PICK f : f \in [1 .. n -> Seq(S)] /\ FlatUpto(f, ss, n) /\ FlattenSeq(ss) = f[n]
    BY <1>a, Flattened
  <1>2. CASE n = 1
    <2>1. tt = <<>>
      BY <1>0, <1>2
    <2>4. f[n] = ss[1]
      BY <1>0, <1>1, <1>2 DEF FlatUpto
    <2>2. FlattenSeq(tt) = <<>>
      BY <2>1 DEF FlattenSeq
    <2>3. ss[1] \o <<>> = ss[1]
      BY <1>0
    <2>5. <<>> \in Seq(S)
      OBVIOUS
    <2> QED  BY <1>0, <1>1, <1>a, <2>2, <2>3, <2>4, <2>5
  <1>3. CASE n # 1
    <2>1. Len(tt) # 0 /\ n - 1 \in Nat /\ n - 1 # 0
      BY <1>0, <1>3
    <2>a. \E g \in [1 .. Len(tt) -> Seq(S)] :
            FlatUpto(g, tt, Len(tt)) /\ FlattenSeq(tt) = g[Len(tt)]
      BY <1>0, <2>1, Flattened
    <2>2. PICK g : g \in [1 .. n - 1 -> Seq(S)] /\
            FlatUpto(g, tt, n - 1) /\ FlattenSeq(tt) = g[n - 1]
      BY <1>0, <2>a
    <2>3. \A i \in 2 .. n : f[i] = f[i - 1] \o ss[i] /\ ss[i] \in Seq(S)
      <3> SUFFICES ASSUME NEW i \in 2 .. n PROVE f[i] = f[i - 1] \o ss[i] /\ ss[i] \in Seq(S)
        OBVIOUS
      <3>1. i \in 1 .. n /\ i # 1
        BY <1>c
      <3> QED  BY <1>0, <1>1, <3>1 DEF FlatUpto
    <2>4. f[1] = h
      <3>1. 1 \in 1 .. n
        BY <1>c
      <3> QED  BY <1>0, <1>1, <3>1 DEF FlatUpto
    <2>5. g[1] = ss[2]
      <3>1. 1 \in 1 .. n - 1 /\ 1 + 1 = 2
        BY <1>c, <1>3
      <3> QED  BY <1>0, <2>2, <3>1 DEF FlatUpto
    <2>6. \A i \in 2 .. n - 1 : g[i] = g[i - 1] \o ss[i + 1]
      <3> SUFFICES ASSUME NEW i \in 2 .. n - 1 PROVE g[i] = g[i - 1] \o ss[i + 1]
        OBVIOUS
      <3>1. i \in 1 .. n - 1 /\ i # 1
        BY <1>c
      <3> QED  BY <1>0, <2>2, <3>1 DEF FlatUpto
    <2>7. \A i \in 1 .. n - 1 : g[i] \in Seq(S)
      BY <2>2
    <2>8. f[n] = h \o g[n - 1]
      <3>1. n > 1
        BY <1>c, <1>3
      <3>2. n \in Nat /\ h \in Seq(S)
        BY <1>0, <1>c
      <3>3. GoesOn(f, g, h, ss, n, S)
        BY <2>3, <2>4, <2>5, <2>6, <2>7 DEF GoesOn
      <3> QED  BY <3>1, <3>2, <3>3, BehindAll
    <2>9. f[n] \in Seq(S) /\ g[n - 1] \in Seq(S)
      BY <1>0, <1>1, <2>1, <2>2
    <2> QED  BY <1>1, <1>a, <2>2, <2>8, <2>9
  <1> QED  BY <1>2, <1>3

LEMMA FlattenEmpty == FlattenSeq(<<>>) = <<>>
  BY DEF FlattenSeq

\* A sequence put behind comes last.
LEMMA FlattenAppend ==
  ASSUME NEW S, NEW ss \in Seq(Seq(S)), NEW s \in Seq(S)
  PROVE  FlattenSeq(Append(ss, s)) = FlattenSeq(ss) \o s
  <1>a. PICK n, tt : n = Len(ss) /\ tt = Append(ss, s)
    OBVIOUS
  <1>0. /\ n \in Nat /\ tt \in Seq(Seq(S)) /\ Len(tt) = n + 1 /\ Len(tt) # 0
        /\ \A i \in 1 .. n : tt[i] = ss[i]
        /\ tt[n + 1] = s
    <2>1. tt \in Seq(Seq(S)) /\ Len(tt) = n + 1
      BY <1>a, AppendProperties
    <2>2. \A i \in 1 .. n : tt[i] = ss[i]
      BY <1>a, AppendProperties
    <2>3. tt[n + 1] = s /\ n + 1 # 0 /\ n \in Nat
      BY <1>a, AppendProperties
    <2> QED  BY <2>1, <2>2, <2>3
  <1>b. \E g \in [1 .. Len(tt) -> Seq(S)] :
          FlatUpto(g, tt, Len(tt)) /\ FlattenSeq(tt) = g[Len(tt)]
    BY <1>0, Flattened
  <1>1. PICK g \in [1 .. n + 1 -> Seq(S)] :
          FlatUpto(g, tt, n + 1) /\ FlattenSeq(tt) = g[n + 1]
    BY <1>0, <1>b
  <1>2. CASE n = 0
    <2>1. ss = <<>> /\ g[n + 1] = s
      BY <1>0, <1>1, <1>2, <1>a DEF FlatUpto
    <2>2. <<>> \o s = s
      OBVIOUS
    <2> QED  BY <1>1, <1>a, <2>1, <2>2, FlattenEmpty
  <1>3. CASE n # 0
    <2>1. ss # <<>>
      BY <1>3, <1>a
    <2>2. PICK f \in [1 .. n -> Seq(S)] : FlatUpto(f, ss, n) /\ FlattenSeq(ss) = f[n]
      BY <1>a, <2>1, Flattened
    <2>3. g[n + 1] = g[n] \o s
      <3>1. n + 1 \in 1 .. n + 1 /\ n + 1 # 1 /\ (n + 1) - 1 = n
        BY <1>0, <1>3
      <3> QED  BY <1>0, <1>1, <3>1 DEF FlatUpto
    <2> DEFINE T == {i \in Nat : i + 1 <= n => f[i + 1] = g[i + 1]}
    <2>4. 0 \in T
      <3>1. 1 \in 1 .. n /\ 1 \in 1 .. n + 1 /\ 0 + 1 = 1
        BY <1>0, <1>3
      <3>2. f[1] = ss[1] /\ g[1] = tt[1] /\ tt[1] = ss[1]
        BY <1>0, <1>1, <2>2, <3>1 DEF FlatUpto
      <3> QED  BY <3>1, <3>2
    <2>5. \A i \in Nat : i \in T => i + 1 \in T
      <3> SUFFICES ASSUME NEW i \in Nat, i \in T, (i + 1) + 1 <= n
                   PROVE  f[(i + 1) + 1] = g[(i + 1) + 1]
        OBVIOUS
      <3>0. PICK k : k = (i + 1) + 1
        OBVIOUS
      <3>1. k \in 1 .. n /\ k \in 1 .. n + 1 /\ k # 1 /\ k - 1 = i + 1
        BY <1>0, <3>0
      <3>2. f[i + 1] = g[i + 1]
        BY <1>0, <3>0, <3>1
      <3>3. f[k] = f[i + 1] \o ss[k] /\ g[k] = g[i + 1] \o tt[k] /\ tt[k] = ss[k]
        BY <1>0, <1>1, <2>2, <3>1 DEF FlatUpto
      <3> QED  BY <3>0, <3>2, <3>3
    <2>6. Nat \subseteq T
      <3> HIDE DEF T
      <3> QED  BY <2>4, <2>5, Induction
    <2>7. n - 1 \in Nat /\ (n - 1) + 1 = n
      BY <1>0, <1>3
    <2>8. n - 1 \in T
      BY <2>6, <2>7
    <2>9. f[n] = g[n]
      BY <2>7, <2>8
    <2> QED  BY <1>1, <1>a, <2>2, <2>3, <2>9
  <1> QED  BY <1>2, <1>3

-----------------------------------------------------------------------------
(* Sequences that are cut and joined *)

\* A sequence is its first n items and the rest.
LEMMA CutJoined ==
  ASSUME NEW S, NEW s \in Seq(S), NEW n \in Nat
  PROVE  s = Upto(s, n) \o From(s, n)
  <1>1. PICK u, f, m : u = Upto(s, n) /\ f = From(s, n) /\ m = Least(Len(s), n)
    OBVIOUS
  <1>2. /\ u \in Seq(S) /\ f \in Seq(S) /\ Len(u) = m /\ Len(f) = Len(s) - m
        /\ \A i \in 1 .. m : u[i] = s[i]
        /\ m \in Nat /\ m <= Len(s) /\ m <= n /\ Len(s) \in Nat
    <2>1. /\ Upto(s, n) \in Seq(S) /\ Len(Upto(s, n)) = Least(Len(s), n)
          /\ From(s, n) \in Seq(S) /\ Len(From(s, n)) = Len(s) - Least(Len(s), n)
      BY CutFacts
    <2>2. \A i \in 1 .. Least(Len(s), n) : Upto(s, n)[i] = s[i]
      BY CutFacts
    <2>3. Least(Len(s), n) \in Nat /\ Least(Len(s), n) <= n /\ Least(Len(s), n) <= Len(s)
      BY CutFacts
    <2> QED  BY <1>1, <2>1, <2>2, <2>3
  <1>3. \A i \in 1 .. Len(f) : f[i] = s[m + i]
    <2>1. CASE n <= Len(s)
      <3>1. m = n
        BY <1>1, <2>1 DEF Least
      <3>2. \A i \in n + 1 .. Len(s) : s[i] \in S
        OBVIOUS
      <3>3. \A i \in 1 .. Len(s) - (n + 1) + 1 : f[i] = s[n + 1 + i - 1]
        BY <1>1, <1>2, <3>2, SubSeqProperties DEF From
      <3>4. \A i \in 1 .. Len(f) :
              i \in 1 .. Len(s) - (n + 1) + 1 /\ n + 1 + i - 1 = m + i
        BY <1>2, <3>1
      <3> QED  BY <3>3, <3>4
    <2>2. CASE ~ (n <= Len(s))
      <3>1. m = Len(s)
        BY <1>1, <2>2 DEF Least
      <3>2. Len(f) = 0
        BY <1>2, <3>1
      <3> QED  BY <3>2
    <2> QED  BY <2>1, <2>2
  <1>4. /\ u \o f \in Seq(S) /\ Len(u \o f) = m + (Len(s) - m)
        /\ \A i \in 1 .. m + (Len(s) - m) :
             (u \o f)[i] = IF i <= m THEN u[i] ELSE f[i - m]
    BY <1>2, ConcatProperties
  <1>5. PICK j : j = u \o f
    OBVIOUS
  <1>6. /\ j \in Seq(S) /\ Len(j) = Len(s)
        /\ \A i \in 1 .. Len(s) : j[i] = IF i <= m THEN u[i] ELSE f[i - m]
    BY <1>2, <1>4, <1>5
  <1>7. \A i \in 1 .. Len(s) : s[i] = j[i]
    <2> SUFFICES ASSUME NEW i \in 1 .. Len(s) PROVE s[i] = j[i]
      OBVIOUS
    <2>1. CASE i <= m
      BY <1>2, <1>6, <2>1
    <2>2. CASE ~ (i <= m)
      <3>1. i - m \in 1 .. Len(f) /\ m + (i - m) = i
        BY <1>2, <2>2
      <3>2. f[i - m] = s[i]
        BY <1>3, <3>1
      <3> QED  BY <1>6, <2>2, <3>2
    <2> QED  BY <2>1, <2>2
  <1>8. s = j
    BY <1>6, <1>7, SeqEqual
  <1> QED  BY <1>1, <1>5, <1>8

\* A cut behind the end.
LEMMA CutBehind ==
  ASSUME NEW S, NEW s \in Seq(S), NEW n \in Nat, Len(s) <= n
  PROVE  Upto(s, n) = s /\ From(s, n) = <<>>
  <1>1. Len(s) \in Nat /\ Least(Len(s), n) = Len(s)
    BY DEF Least
  <1>2. From(s, n) \in Seq(S) /\ Len(From(s, n)) = 0
    BY <1>1, CutFacts
  <1>3. Upto(s, n) = s
    BY <1>1, SubSeqFull DEF Upto
  <1> QED  BY <1>2, <1>3

\* Items that fit with room to spare: nothing is left of them.
LEMMA NothingLeft ==
  ASSUME NEW S, NEW s \in Seq(S), NEW n \in Nat, n - Least(Len(s), n) > 0
  PROVE  Len(s) < n /\ Upto(s, n) = s /\ From(s, n) = <<>>
  <1>1. Len(s) \in Nat
    OBVIOUS
  <1>2. Len(s) < n
    BY <1>1 DEF Least
  <1> QED  BY <1>1, <1>2, CutBehind

LEMMA EmptyCut ==
  ASSUME NEW n \in Nat
  PROVE  Upto(<<>>, n) = <<>> /\ From(<<>>, n) = <<>>
  <1>1. <<>> \in Seq({}) /\ Len(<<>>) <= n
    OBVIOUS
  <1> QED  BY <1>1, CutBehind

LEMMA JoinedTypes ==
  \A S : \A s, t \in Seq(S) : s \o t \in Seq(S)
  BY ConcatProperties

LEMMA JoinedEmpty ==
  \A S : \A s \in Seq(S) : s \o <<>> = s /\ <<>> \o s = s
  BY ConcatEmptySeq

\* What is put behind a sequence leaves it a prefix.
LEMMA PrefixJoined ==
  ASSUME NEW S, NEW s \in Seq(S), NEW t \in Seq(S)
  PROVE  /\ IsPrefix(s, s \o t)
         /\ t # <<>> => IsStrictPrefix(s, s \o t)
         /\ Len(s \o t) = Len(s) + Len(t)
         /\ \A i \in 1 .. Len(s) : (s \o t)[i] = s[i]
  <1>1. PICK j : j = s \o t
    OBVIOUS
  <1>2. /\ j \in Seq(S) /\ Len(j) = Len(s) + Len(t) /\ Len(s) \in Nat /\ Len(t) \in Nat
        /\ \A i \in 1 .. Len(s) + Len(t) : j[i] = IF i <= Len(s) THEN s[i] ELSE t[i - Len(s)]
    BY <1>1, ConcatProperties
  <1>3. \A i \in 1 .. Len(s) : j[i] = s[i]
    BY <1>2
  <1>4. SubSeq(s, 1, Len(s)) = SubSeq(j, 1, Len(s))
    <2>1. CASE Len(s) = 0
      <3>1. SubSeq(s, 1, Len(s)) = <<>> /\ SubSeq(j, 1, Len(s)) = <<>>
        BY <2>1, SubSeqEmpty
      <3> QED  BY <3>1
    <2>2. CASE Len(s) # 0
      <3>1. 1 \in 1 .. Len(s) /\ Len(s) \in 1 .. Len(s)
        BY <1>2, <2>2
      <3> QED  BY <1>1, <3>1, SubSeqOfConcat1
    <2> QED  BY <2>1, <2>2
  <1>5. t # <<>> => j # s
    BY <1>1, ConcatEqualIffEmpty
  <1> QED  BY <1>1, <1>2, <1>3, <1>4, <1>5 DEF IsPrefix, IsStrictPrefix

LEMMA PrefixItself ==
  ASSUME NEW S, NEW s \in Seq(S)
  PROVE  IsPrefix(s, s)
  BY DEF IsPrefix

\* What is behind the end of s in s \o t are items of t.
LEMMA ItemsBehind ==
  ASSUME NEW S, NEW T, NEW s \in Seq(S), NEW t \in Seq(S), t \in Seq(T),
         NEW i \in DOMAIN (s \o t) \ DOMAIN s
  PROVE  (s \o t)[i] \in T
  <1>1. PICK j : j = s \o t
    OBVIOUS
  <1>2. /\ j \in Seq(S) /\ Len(j) = Len(s) + Len(t) /\ Len(s) \in Nat /\ Len(t) \in Nat
        /\ \A k \in 1 .. Len(s) + Len(t) : j[k] = IF k <= Len(s) THEN s[k] ELSE t[k - Len(s)]
    BY <1>1, ConcatProperties
  <1>3. i \in 1 .. Len(s) + Len(t) /\ i \notin 1 .. Len(s)
    BY <1>1, <1>2
  <1>4. i - Len(s) \in 1 .. Len(t)
    BY <1>2, <1>3
  <1> QED  BY <1>1, <1>2, <1>3, <1>4

\* What follows something is a proper suffix.
LEMMA SuffixJoined ==
  ASSUME NEW S, NEW s \in Seq(S), NEW t \in Seq(S), s # <<>>
  PROVE  IsStrictSuffix(t, s \o t)
  <1>1. PICK j : j = s \o t
    OBVIOUS
  <1>2. /\ j \in Seq(S) /\ Len(j) = Len(s) + Len(t) /\ Len(s) \in Nat /\ Len(t) \in Nat
        /\ \A k \in 1 .. Len(s) + Len(t) : j[k] = IF k <= Len(s) THEN s[k] ELSE t[k - Len(s)]
    BY <1>1, ConcatProperties
  <1>3. PICK a, b : a = Reverse(t) /\ b = Reverse(j)
    OBVIOUS
  <1>4. /\ a \in Seq(S) /\ Len(a) = Len(t)
        /\ \A i \in 1 .. Len(t) : a[i] = t[(Len(t) - i) + 1]
    <2>1. a = [i \in 1 .. Len(t) |-> t[(Len(t) - i) + 1]]
      BY <1>3 DEF Reverse
    <2>2. \A i \in 1 .. Len(t) : (Len(t) - i) + 1 \in 1 .. Len(t)
      BY <1>2
    <2>3. a \in [1 .. Len(t) -> S]
      BY <2>1, <2>2
    <2> QED  BY <1>2, <2>1, <2>3
  <1>5. /\ b \in Seq(S) /\ Len(b) = Len(j)
        /\ \A i \in 1 .. Len(j) : b[i] = j[(Len(j) - i) + 1]
    <2>1. b = [i \in 1 .. Len(j) |-> j[(Len(j) - i) + 1]]
      BY <1>3 DEF Reverse
    <2>2. \A i \in 1 .. Len(j) : (Len(j) - i) + 1 \in 1 .. Len(j)
      BY <1>2
    <2>3. b \in [1 .. Len(j) -> S]
      BY <1>2, <2>1, <2>2
    <2> QED  BY <1>2, <2>1, <2>3
  <1>6. \A i \in 1 .. Len(a) : a[i] = b[i]
    <2> SUFFICES ASSUME NEW i \in 1 .. Len(t) PROVE a[i] = b[i]
      BY <1>4
    <2>1. /\ (Len(j) - i) + 1 \in 1 .. Len(s) + Len(t)
          /\ ~ ((Len(j) - i) + 1 <= Len(s))
          /\ ((Len(j) - i) + 1) - Len(s) = (Len(t) - i) + 1
          /\ i \in 1 .. Len(j)
      BY <1>2
    <2>2. b[i] = t[(Len(t) - i) + 1]
      BY <1>2, <1>5, <2>1
    <2> QED  BY <1>4, <2>2
  <1>7. SubSeq(a, 1, Len(a)) = SubSeq(b, 1, Len(a))
    <2>1. PICK c, d : c = SubSeq(a, 1, Len(a)) /\ d = SubSeq(b, 1, Len(a))
      OBVIOUS
    <2>2. Len(a) \in Nat /\ Len(a) <= Len(b)
      BY <1>2, <1>4, <1>5
    <2>3. (\A i \in 1 .. Len(a) : a[i] \in S) /\ (\A i \in 1 .. Len(a) : b[i] \in S)
      BY <1>4, <1>6
    <2>4. /\ c \in Seq(S) /\ Len(c) = IF 1 <= Len(a) THEN Len(a) - 1 + 1 ELSE 0
          /\ \A i \in 1 .. Len(a) - 1 + 1 : c[i] = a[1 + i - 1]
      BY <2>1, <2>2, <2>3, SubSeqProperties
    <2>5. /\ d \in Seq(S) /\ Len(d) = IF 1 <= Len(a) THEN Len(a) - 1 + 1 ELSE 0
          /\ \A i \in 1 .. Len(a) - 1 + 1 : d[i] = b[1 + i - 1]
      BY <2>1, <2>2, <2>3, SubSeqProperties
    <2>6. Len(c) = Len(d) /\ Len(c) = Len(a)
      BY <2>2, <2>4, <2>5
    <2>7. \A i \in 1 .. Len(c) : c[i] = d[i]
      <3>1. \A i \in 1 .. Len(a) : i \in 1 .. Len(a) - 1 + 1 /\ 1 + i - 1 = i
        BY <2>2
      <3> QED  BY <1>6, <2>4, <2>5, <2>6, <3>1
    <2>8. c = d
      BY <2>4, <2>5, <2>6, <2>7, SeqEqual
    <2> QED  BY <2>1, <2>8
  <1>8. Len(a) <= Len(b) /\ t # j
    <2>1. Len(s) # 0
      OBVIOUS
    <2> QED  BY <1>2, <1>4, <1>5, <2>1
  <1> QED  BY <1>1, <1>3, <1>7, <1>8 DEF IsPrefix, IsSuffix, IsStrictSuffix

-----------------------------------------------------------------------------
(* What the rings hold *)

\* What is taken was in front.
LEMMA ContentTake ==
  ASSUME NEW r, RingOK(r), NEW n \in Nat, n <= FilledRun(r), n <= r.busy
  PROVE  Content(r) = Cells(r, n) \o Content(Take(r, n))
  <1>1. PICK t, a, b, j : /\ t = Take(r, n) /\ a = Cells(r, n) /\ b = Content(t)
                          /\ j = a \o b
    OBVIOUS
  <1>2. /\ RingOK(t) /\ t.busy = r.busy - n /\ a \in Seq(Symbols) /\ Len(a) = n
        /\ t.size = r.size /\ t.busyAt = Wrap(r, r.busyAt + n)
        /\ t.mem = [c \in DOMAIN r.mem |->
             IF c \in r.busyAt .. r.busyAt + n - 1 THEN Stale ELSE r.mem[c]]
    <2>1. /\ RingOK(Take(r, n)) /\ Take(r, n).busy = r.busy - n
          /\ Cells(r, n) \in Seq(Symbols) /\ Len(Cells(r, n)) = n
      BY TakeFacts
    <2>2. /\ Take(r, n).size = r.size /\ Take(r, n).busyAt = Wrap(r, r.busyAt + n)
          /\ Take(r, n).mem = [c \in DOMAIN r.mem |->
               IF c \in r.busyAt .. r.busyAt + n - 1 THEN Stale ELSE r.mem[c]]
      BY DEF Take
    <2> QED  BY <1>1, <2>1, <2>2
  <1>3. b \in Seq(Symbols) /\ Len(b) = r.busy - n /\ r.busy \in Nat
    BY <1>1, <1>2, ContentFacts, CountFacts
  <1>4. /\ j \in Seq(Symbols) /\ Len(j) = r.busy
        /\ \A k \in 1 .. r.busy : j[k] = IF k <= n THEN a[k] ELSE b[k - n]
    <2>1. /\ a \o b \in Seq(Symbols) /\ Len(a \o b) = n + (r.busy - n)
          /\ \A k \in 1 .. n + (r.busy - n) :
               (a \o b)[k] = IF k <= n THEN a[k] ELSE b[k - n]
      BY <1>2, <1>3, ConcatProperties
    <2>2. n + (r.busy - n) = r.busy
      BY <1>3
    <2> QED  BY <1>1, <2>1, <2>2
  <1>5. Content(r) \in Seq(Symbols) /\ Len(Content(r)) = r.busy
        /\ \A k \in 1 .. r.busy : Content(r)[k] = r.mem[Place(r, k)]
    BY ContentFacts DEF Content
  <1>6. Numbers(r) /\ Memory(r)
    BY RingParts
  <1>7. \A k \in 1 .. r.busy : Content(r)[k] = j[k]
    <2> SUFFICES ASSUME NEW k \in 1 .. r.busy PROVE r.mem[Place(r, k)] = j[k]
      BY <1>5
    <2>1. CASE k <= n
      <3>1. k \in 1 .. n
        BY <1>3, <2>1
      <3>2. Place(r, k) = r.busyAt + k - 1
        BY <1>6, <3>1, RunPlaces
      <3>3. a[k] = r.mem[r.busyAt + k - 1]
        BY <1>1, <3>1 DEF Cells
      <3> QED  BY <1>4, <2>1, <3>2, <3>3
    <2>2. CASE ~ (k <= n)
      <3>0. PICK i : i = k - n
        OBVIOUS
      <3>1. i \in 1 .. r.busy - n /\ i + n = k
        BY <1>3, <2>2, <3>0
      <3>2. /\ Place(t, i) = Place(r, i + n)
            /\ Place(r, i + n) \in 0 .. r.size - 1
            /\ Place(r, i + n) \notin r.busyAt .. r.busyAt + n - 1
        BY <1>2, <1>6, <3>1, TakePlaces
      <3>3. b[i] = t.mem[Place(t, i)]
        BY <1>1, <1>2, <3>1 DEF Content
      <3>4. t.mem[Place(t, i)] = r.mem[Place(r, k)]
        BY <1>2, <1>6, <3>1, <3>2 DEF Memory
      <3> QED  BY <1>4, <2>2, <3>0, <3>3, <3>4
    <2> QED  BY <2>1, <2>2
  <1>8. Content(r) = j
    <2>1. Len(Content(r)) = Len(j) /\ \A k \in 1 .. Len(Content(r)) : Content(r)[k] = j[k]
      BY <1>4, <1>5, <1>7
    <2> QED  BY <1>4, <1>5, <2>1, SeqEqual
  <1> QED  BY <1>1, <1>8

\* Where the bytes that are put are found in their sequence.
LEMMA PutPlace ==
  ASSUME NEW r, Numbers(r), NEW n \in Nat, r.busy + n <= r.size, n <= FreeRun(r),
         NEW k \in 1 .. r.busy + n, k > r.busy
  PROVE  Place(r, k) - r.freeAt + 1 = k - r.busy
  <1>1. PICK size, busyAt, freeAt, busy :
          size = r.size /\ busyAt = r.busyAt /\ freeAt = r.freeAt /\ busy = r.busy
    OBVIOUS
  <1>2. /\ size \in Nat /\ busy \in Nat /\ busyAt \in Nat /\ freeAt \in Nat /\ k \in Nat
        /\ busyAt < size /\ freeAt < size /\ busy + n <= size /\ k > busy /\ k <= busy + n
        /\ busyAt + busy = freeAt \/ busyAt + busy = freeAt + size
    BY <1>1 DEF Numbers
  <1>3. n <= (IF busyAt <= freeAt THEN size - freeAt ELSE busyAt - freeAt)
    BY <1>1 DEF FreeRun
  <1>4. Place(r, k) = IF busyAt + k <= size THEN busyAt + k - 1 ELSE busyAt + k - 1 - size
    BY <1>1 DEF Place
  <1>5. Place(r, k) - freeAt + 1 = k - busy
    <2>1. CASE busyAt + busy = freeAt
      <3>1. busyAt + k <= size
        BY <1>2, <1>3, <2>1
      <3> QED  BY <1>2, <1>4, <2>1, <3>1
    <2>2. CASE busyAt + busy = freeAt + size
      <3>1. ~ (busyAt + k <= size)
        BY <1>2, <1>3, <2>2
      <3> QED  BY <1>2, <1>4, <2>2, <3>1
    <2> QED  BY <1>2, <2>1, <2>2
  <1> QED  BY <1>1, <1>5

\* In a full ring only the last byte is in front of freeAt.
LEMMA FullPlaces ==
  ASSUME NEW r, Numbers(r), r.busy = r.size, NEW k \in 1 .. r.busy - 1,
         NEW last, last = IF r.freeAt = 0 THEN r.size - 1 ELSE r.freeAt - 1
  PROVE  Place(r, k) # last /\ Place(r, k) \in 0 .. r.size - 1
  <1>1. r.busyAt = r.freeAt
    BY DEF Numbers
  <1> QED  BY <1>1 DEF Numbers, Place

\* What is put is behind.
LEMMA ContentPut ==
  ASSUME NEW r, RingOK(r), NEW s \in Seq(Symbols),
         r.busy + Len(s) <= r.size, Len(s) <= FreeRun(r)
  PROVE  Content(Put(r, s)) = Content(r) \o s
  <1>1. PICK p, a, n, j : /\ p = Put(r, s) /\ a = Content(r) /\ n = Len(s)
                          /\ j = a \o s
    OBVIOUS
  <1>2. /\ RingOK(p) /\ p.busy = r.busy + n /\ n \in Nat
        /\ p.size = r.size /\ p.busyAt = r.busyAt
        /\ p.mem = [c \in DOMAIN r.mem |->
             IF c \in r.freeAt .. r.freeAt + n - 1
             THEN s[c - r.freeAt + 1] ELSE r.mem[c]]
    <2>1. RingOK(Put(r, s)) /\ Put(r, s).busy = r.busy + Len(s)
      BY PutFacts
    <2>2. /\ Put(r, s).size = r.size /\ Put(r, s).busyAt = r.busyAt
          /\ Put(r, s).mem = [c \in DOMAIN r.mem |->
               IF c \in r.freeAt .. r.freeAt + Len(s) - 1
               THEN s[c - r.freeAt + 1] ELSE r.mem[c]]
      BY DEF Put
    <2>3. Len(s) \in Nat
      OBVIOUS
    <2> QED  BY <1>1, <2>1, <2>2, <2>3
  <1>3. /\ a \in Seq(Symbols) /\ Len(a) = r.busy /\ r.busy \in Nat
        /\ \A k \in 1 .. r.busy : a[k] = r.mem[Place(r, k)]
    BY <1>1, ContentFacts, CountFacts DEF Content
  <1>4. /\ j \in Seq(Symbols) /\ Len(j) = r.busy + n
        /\ \A k \in 1 .. r.busy + n : j[k] = IF k <= r.busy THEN a[k] ELSE s[k - r.busy]
    <2>1. /\ a \o s \in Seq(Symbols) /\ Len(a \o s) = Len(a) + Len(s)
          /\ \A k \in 1 .. Len(a) + Len(s) :
               (a \o s)[k] = IF k <= Len(a) THEN a[k] ELSE s[k - Len(a)]
      BY <1>3, ConcatProperties
    <2> QED  BY <1>1, <1>3, <2>1
  <1>5. Content(p) \in Seq(Symbols) /\ Len(Content(p)) = r.busy + n
        /\ \A k \in 1 .. r.busy + n : Content(p)[k] = p.mem[Place(p, k)]
    BY <1>2, ContentFacts DEF Content
  <1>6. Numbers(r) /\ Memory(r) /\ r.busy + n <= r.size /\ n <= FreeRun(r)
    BY <1>1, RingParts
  <1>7. \A k \in 1 .. r.busy + n : p.mem[Place(p, k)] = j[k]
    <2> SUFFICES ASSUME NEW k \in 1 .. r.busy + n PROVE p.mem[Place(p, k)] = j[k]
      OBVIOUS
    <2>1. /\ Place(p, k) = Place(r, k) /\ Place(r, k) \in 0 .. r.size - 1
          /\ k <= r.busy => Place(r, k) \notin r.freeAt .. r.freeAt + n - 1
          /\ k > r.busy => Place(r, k) \in r.freeAt .. r.freeAt + n - 1
      BY <1>2, <1>6, PutPlaces
    <2>2. CASE k <= r.busy
      <3>1. k \in 1 .. r.busy
        BY <1>2, <1>3, <2>2
      <3>2. p.mem[Place(p, k)] = r.mem[Place(r, k)]
        BY <1>2, <1>6, <2>1, <2>2 DEF Memory
      <3> QED  BY <1>3, <1>4, <2>2, <3>1, <3>2
    <2>3. CASE ~ (k <= r.busy)
      <3>1. k > r.busy
        BY <1>2, <1>3, <2>3
      <3>2. Place(r, k) - r.freeAt + 1 = k - r.busy
        BY <1>2, <1>6, <3>1, PutPlace
      <3>3. p.mem[Place(p, k)] = s[Place(r, k) - r.freeAt + 1]
        BY <1>2, <1>6, <2>1, <3>1 DEF Memory
      <3> QED  BY <1>4, <2>3, <3>2, <3>3
    <2> QED  BY <2>2, <2>3
  <1>8. Content(p) = j
    <2>1. Len(Content(p)) = Len(j) /\ \A k \in 1 .. Len(Content(p)) : Content(p)[k] = j[k]
      BY <1>4, <1>5, <1>7
    <2> QED  BY <1>4, <1>5, <2>1, SeqEqual
  <1> QED  BY <1>1, <1>8

LEMMA ContentEmpty ==
  ASSUME NEW r, RingOK(r), r.busy = 0
  PROVE  Content(r) = <<>>
  <1>1. Content(r) \in Seq(Symbols) /\ Len(Content(r)) = 0
    BY ContentFacts
  <1> QED  BY <1>1

\* In a full ring the byte that is replaced is the last one.
LEMMA ContentReplace ==
  ASSUME NEW r, RingOK(r), r.busy = r.size, NEW c \in Symbols
  PROVE  IsPrefix(Front(Content(ReplaceLast(r, c))), Content(r))
  <1>1. PICK p, a, b : p = ReplaceLast(r, c) /\ a = Content(r) /\ b = Content(p)
    OBVIOUS
  <1>2. PICK last : last = IF r.freeAt = 0 THEN r.size - 1 ELSE r.freeAt - 1
    OBVIOUS
  <1>3. Numbers(r) /\ Memory(r)
    BY RingParts
  <1>4. /\ RingOK(p) /\ p.size = r.size /\ p.busyAt = r.busyAt /\ p.busy = r.busy
        /\ p.mem = [r.mem EXCEPT ![last] = c]
    BY <1>1, <1>2, ReplaceFacts DEF ReplaceLast
  <1>5. /\ a \in Seq(Symbols) /\ Len(a) = r.busy /\ r.busy \in Nat /\ r.busy > 0
        /\ \A k \in 1 .. r.busy : a[k] = r.mem[Place(r, k)]
    <2>1. r.busy \in Nat /\ r.busy > 0
      BY <1>3 DEF Numbers
    <2> QED  BY <1>1, <2>1, ContentFacts DEF Content
  <1>6. /\ b \in Seq(Symbols) /\ Len(b) = r.busy
        /\ \A k \in 1 .. r.busy : b[k] = p.mem[Place(r, k)]
    <2>1. \A k \in 1 .. r.busy : Place(p, k) = Place(r, k)
      BY <1>4 DEF Place
    <2> QED  BY <1>1, <1>4, <2>1, ContentFacts DEF Content
  <1>7. \A k \in 1 .. r.busy - 1 : b[k] = a[k]
    <2> SUFFICES ASSUME NEW k \in 1 .. r.busy - 1 PROVE b[k] = a[k]
      OBVIOUS
    <2>1. k \in 1 .. r.busy
      BY <1>5
    <2>2. Place(r, k) # last /\ Place(r, k) \in 0 .. r.size - 1
      BY <1>2, <1>3, FullPlaces
    <2>3. p.mem[Place(r, k)] = r.mem[Place(r, k)]
      BY <1>3, <1>4, <2>2 DEF Memory
    <2> QED  BY <1>5, <1>6, <2>1, <2>3
  <1>8. PICK m : m = r.busy - 1
    OBVIOUS
  <1>9. PICK f : f = SubSeq(b, 1, m)
    OBVIOUS
  <1>10. m \in Nat /\ m <= Len(a) /\ m - 1 + 1 = m /\ m <= Len(b)
    BY <1>5, <1>6, <1>8
  <1>11. (\A i \in 1 .. m : a[i] \in Symbols) /\ (\A i \in 1 .. m : b[i] \in Symbols)
    BY <1>5, <1>6, <1>10
  <1>12. f \in Seq(Symbols) /\ Len(f) = m /\ \A i \in 1 .. m : f[i] = b[i]
    <2>1. /\ f \in Seq(Symbols) /\ Len(f) = IF 1 <= m THEN m - 1 + 1 ELSE 0
          /\ \A i \in 1 .. m - 1 + 1 : f[i] = b[1 + i - 1]
      BY <1>9, <1>10, <1>11, SubSeqProperties
    <2>2. \A i \in 1 .. m : i \in 1 .. m - 1 + 1 /\ 1 + i - 1 = i
      BY <1>10
    <2> QED  BY <1>10, <2>1, <2>2
  <1>13. SubSeq(f, 1, Len(f)) = f
    BY <1>12, SubSeqFull
  <1>14. SubSeq(a, 1, m) = f
    <2>0. PICK g : g = SubSeq(a, 1, m)
      OBVIOUS
    <2>1. /\ g \in Seq(Symbols) /\ Len(g) = IF 1 <= m THEN m - 1 + 1 ELSE 0
          /\ \A i \in 1 .. m - 1 + 1 : g[i] = a[1 + i - 1]
      BY <1>10, <1>11, <2>0, SubSeqProperties
    <2>2. \A i \in 1 .. m : i \in 1 .. m - 1 + 1 /\ 1 + i - 1 = i
      BY <1>10
    <2>3. Len(g) = m /\ \A i \in 1 .. m : g[i] = a[i]
      BY <1>10, <2>1, <2>2
    <2>4. Len(g) = Len(f) /\ \A i \in 1 .. Len(g) : g[i] = f[i]
      BY <1>7, <1>8, <1>12, <2>3
    <2>5. g = f
      BY <1>12, <2>1, <2>4, SeqEqual
    <2> QED  BY <2>0, <2>5
  <1>15. Front(b) = f
    BY <1>6, <1>8, <1>9 DEF Front
  <1> QED  BY <1>1, <1>10, <1>12, <1>13, <1>14, <1>15 DEF IsPrefix

-----------------------------------------------------------------------------
(* The steps of the promise *)

Todo == Content(tx) \o FlattenSeq(writes)
Pending == Content(rx) \o insert
Steps == Promise!Next \/ UNCHANGED Promise!vars

\* The instance has its own names for the operators of the library.
LEMMA SameOperators ==
  \A s, t : /\ Promise!IsPrefix(s, t) <=> IsPrefix(s, t)
            /\ Promise!IsStrictPrefix(s, t) <=> IsStrictPrefix(s, t)
            /\ Promise!IsStrictSuffix(s, t) <=> IsStrictSuffix(s, t)
            /\ Promise!Front(s) = Front(s)
  BY DEF Promise!IsPrefix, IsPrefix, Promise!IsStrictPrefix, IsStrictPrefix,
         Promise!IsStrictSuffix, IsStrictSuffix, Promise!IsSuffix, IsSuffix,
         Promise!Reverse, Reverse, Promise!Front, Front

LEMMA WriteStep ==
  ASSUME IsStrictPrefix(Todo, Todo'), Pending' = Pending, out' = out
  PROVE  Steps
  BY SameOperators DEF Steps, Promise!Next, Promise!Write, Todo, Pending

LEMMA ReceiveStep ==
  ASSUME Todo # <<>>, Todo' = Tail(Todo),
         out' \o Pending' = (out \o Pending) \o Received(Head(Todo)), IsPrefix(out, out')
  PROVE  Steps
  BY SameOperators DEF Steps, Promise!Next, Promise!Receive, Promise!Held, Promise!Grows,
                       Todo, Pending

LEMMA DeliverStep ==
  ASSUME Todo' = Todo, out' \o Pending' = out \o Pending, IsPrefix(out, out')
  PROVE  Steps
  BY SameOperators DEF Steps, Promise!Next, Promise!Deliver, Promise!Held, Promise!Grows,
                       Todo, Pending

LEMMA CompleteStep ==
  ASSUME Todo' = Todo, Pending' = Pending, out' = <<>>
  PROVE  Steps
  BY DEF Steps, Promise!Next, Promise!Complete, Todo, Pending

LEMMA InsertStep ==
  ASSUME Todo' = Todo, IsStrictPrefix(out \o Pending, out' \o Pending'),
         \A i \in DOMAIN (out' \o Pending') \ DOMAIN (out \o Pending) :
           (out' \o Pending')[i] \in StatusChars,
         IsPrefix(out, out')
  PROVE  Steps
  BY SameOperators DEF Steps, Promise!Next, Promise!Insert, Promise!Held, Promise!Grows,
                       Todo, Pending

LEMMA OverrunStep ==
  ASSUME EmuOverrun, IsStrictSuffix(Todo', Todo),
         Pending' = <<>> \/ IsPrefix(Front(Pending'), Pending), out' = out
  PROVE  Steps
  BY SameOperators DEF Steps, Promise!Next, Promise!Overrun, Todo, Pending

LEMMA PurgeStep ==
  ASSUME Todo' = Todo, Pending' = <<>>, out' = out
  PROVE  Steps
  BY DEF Steps, Promise!Next, Promise!Purge, Todo, Pending

LEMMA StutterStep ==
  ASSUME Todo' = Todo, Pending' = Pending, out' = out
  PROVE  Steps
  BY DEF Steps, Promise!vars, Todo, Pending

-----------------------------------------------------------------------------
(* What each of the code's copies does to the stream *)

LEMMA RowOfWrites ==
  ASSUME NEW w \in Seq(Seq(Chars))
  PROVE  w \in Seq(Seq(Symbols)) /\ FlattenSeq(w) \in Seq(Symbols)
  <1>1. Chars \subseteq Symbols
    BY DEF Symbols
  <1>2. Seq(Chars) \subseteq Seq(Symbols)
    BY <1>1, SeqMonotonic
  <1>3. w \in Seq(Seq(Symbols))
    BY <1>2, SeqMonotonic
  <1>4. CASE Len(w) # 0
    <2>1. FlattenSeq(w) \in Seq(Symbols)
      BY <1>3, <1>4, FlattenCons
    <2> QED  BY <1>3, <2>1
  <1>5. CASE Len(w) = 0
    <2>1. w = <<>> /\ <<>> \in Seq(Symbols)
      BY <1>5
    <2> QED  BY <1>3, <2>1, FlattenEmpty
  <1> QED  BY <1>3, <1>4, <1>5

\* The parts of the stream are sequences of symbols.
LEMMA Parts ==
  ASSUME NEW t, RingOK(t), NEW w \in Seq(Seq(Chars))
  PROVE  /\ Content(t) \in Seq(Symbols) /\ FlattenSeq(w) \in Seq(Symbols)
         /\ Content(t) \o FlattenSeq(w) \in Seq(Symbols)
  BY ContentFacts, RowOfWrites, JoinedTypes

LEMMA Types ==
  ASSUME TypeOK
  PROVE  /\ Content(tx) \in Seq(Symbols) /\ FlattenSeq(writes) \in Seq(Symbols)
         /\ Todo \in Seq(Symbols)
         /\ Content(rx) \in Seq(Symbols) /\ insert \in Seq(Symbols) /\ Pending \in Seq(Symbols)
         /\ out \in Seq(Symbols) /\ out \o Pending \in Seq(Symbols)
  <1>1. /\ RingOK(tx) /\ RingOK(rx) /\ writes \in Seq(Seq(Chars))
        /\ insert \in Seq(Symbols) /\ out \in Seq(Symbols)
    BY DEF TypeOK
  <1>2. /\ Content(tx) \in Seq(Symbols) /\ FlattenSeq(writes) \in Seq(Symbols)
        /\ Todo \in Seq(Symbols)
    BY <1>1, Parts DEF Todo
  <1>3. Content(rx) \in Seq(Symbols) /\ Pending \in Seq(Symbols)
    BY <1>1, ContentFacts, JoinedTypes DEF Pending
  <1> QED  BY <1>1, <1>2, <1>3, JoinedTypes

LEMMA TypesAfter ==
  ASSUME TypeOK'
  PROVE  /\ Content(tx') \in Seq(Symbols) /\ FlattenSeq(writes') \in Seq(Symbols)
         /\ Todo' \in Seq(Symbols)
         /\ Content(rx') \in Seq(Symbols) /\ insert' \in Seq(Symbols)
         /\ Pending' \in Seq(Symbols)
         /\ out' \in Seq(Symbols) /\ out' \o Pending' \in Seq(Symbols)
  <1>1. /\ RingOK(tx') /\ RingOK(rx') /\ writes' \in Seq(Seq(Chars))
        /\ insert' \in Seq(Symbols) /\ out' \in Seq(Symbols)
    BY DEF TypeOK
  <1>2. /\ Content(tx') \in Seq(Symbols) /\ FlattenSeq(writes') \in Seq(Symbols)
        /\ Todo' \in Seq(Symbols)
    BY <1>1, Parts DEF Todo
  <1>3. Content(rx') \in Seq(Symbols) /\ Pending' \in Seq(Symbols)
    BY <1>1, ContentFacts, JoinedTypes DEF Pending
  <1> QED  BY <1>1, <1>2, <1>3, JoinedTypes

\* A character becomes at most seven bytes, which insertData holds.
LEMMA ReceivedShort ==
  ASSUME NEW c \in Symbols
  PROVE  Len(Received(c)) <= InsertSize /\ Len(Received(c)) \in Nat
  <1>1. Data(c) \in Seq(Symbols) /\ Len(Data(c)) \in 0 .. 2
    <2>1. {"ESCAPE", "LSR_DATA", "lsr", "error"} \subseteq Symbols
      BY DEF Symbols
    <2> QED  BY <2>1 DEF Data
  <1>2. LineError(c) \in Seq(Symbols) /\ Len(LineError(c)) \in 0 .. 4
    <2>1. {"ESCAPE", "LSR_DATA", "lsr", "error"} \subseteq Symbols
      BY DEF Symbols
    <2>2. CASE InsertLsr
      <3>1. PICK e \in Escaped : e = CHOOSE d \in Escaped : TRUE
        BY <2>2, SettingsAssumption
      <3>2. e \in Symbols
        BY SettingsAssumption DEF Symbols
      <3> QED  BY <2>1, <2>2, <3>1, <3>2 DEF LineError
    <2>3. CASE ~InsertLsr
      BY <2>3 DEF LineError
    <2> QED  BY <2>2, <2>3
  <1>3. PICK e : e = IF ErrorChar THEN <<"error">> ELSE <<>>
    OBVIOUS
  <1>4. PICK d : d = IF InsertLsr THEN <<>> ELSE Data(c)
    OBVIOUS
  <1>5. PICK l : l = LineError(c)
    OBVIOUS
  <1>6. e \in Seq(Symbols) /\ Len(e) \in 0 .. 1
    <2>1. CASE ErrorChar
      <3>1. e = <<"error">> /\ "error" \in Symbols
        BY <1>3, <2>1 DEF Symbols
      <3> QED  BY <3>1
    <2>2. CASE ~ErrorChar
      BY <1>3, <2>2
    <2> QED  BY <2>1, <2>2
  <1>7. d \in Seq(Symbols) /\ Len(d) \in 0 .. 2
    BY <1>1, <1>4
  <1>8. Received(c) = IF c \notin Damaged THEN Data(c) ELSE l \o e \o d
    BY <1>3, <1>4, <1>5 DEF Received
  <1>9. Len(l \o e \o d) = (Len(l) + Len(e)) + Len(d)
    <2>1. l \o e \in Seq(Symbols) /\ Len(l \o e) = Len(l) + Len(e)
      BY <1>2, <1>5, <1>6, ConcatProperties
    <2> QED  BY <1>7, <2>1, ConcatProperties
  <1>10. PICK n : n = Len(Received(c))
    OBVIOUS
  <1>11. n \in 0 .. 7
    <2>1. CASE c \notin Damaged
      <3>1. n = Len(Data(c))
        BY <1>8, <1>10, <2>1
      <3> QED  BY <1>1, <3>1
    <2>2. CASE c \in Damaged
      <3>1. n = (Len(l) + Len(e)) + Len(d)
        BY <1>8, <1>9, <1>10, <2>2
      <3>2. Len(l) \in 0 .. 4
        BY <1>2, <1>5
      <3>3. PICK i, j, k : i = Len(l) /\ j = Len(e) /\ k = Len(d)
        OBVIOUS
      <3>4. i \in 0 .. 4 /\ j \in 0 .. 1 /\ k \in 0 .. 2
        BY <1>6, <1>7, <3>2, <3>3
      <3>5. (i + j) + k \in 0 .. 7
        BY <3>4
      <3> QED  BY <3>1, <3>3, <3>5
    <2> QED  BY <2>1, <2>2
  <1>12. n \in Nat /\ n <= InsertSize
    BY <1>11, SizesAssumption
  <1> QED  BY <1>10, <1>12

\* What a call into a READ or the ring makes of one character: the part that fits, and the
\* rest, which nothing is dropped from if insertData was empty.
LEMMA RestKept ==
  ASSUME NEW c \in Symbols, NEW n \in Nat
  PROVE  /\ Received(c) \in Seq(Symbols)
         /\ Upto(Received(c), n) \in Seq(Symbols) /\ From(Received(c), n) \in Seq(Symbols)
         /\ Upto(<<>> \o From(Received(c), n), InsertSize) = From(Received(c), n)
         /\ Received(c) = Upto(Received(c), n) \o From(Received(c), n)
  <1>1. PICK r : r = Received(c)
    OBVIOUS
  <1>2. r \in Seq(Symbols) /\ Len(r) <= InsertSize /\ Len(r) \in Nat
    BY <1>1, ReceivedFacts, ReceivedShort
  <1>3. PICK f : f = From(r, n)
    OBVIOUS
  <1>4. f \in Seq(Symbols) /\ Upto(r, n) \in Seq(Symbols) /\ Len(f) <= InsertSize
    <2>1. /\ From(r, n) \in Seq(Symbols) /\ Upto(r, n) \in Seq(Symbols)
          /\ Len(From(r, n)) = Len(r) - Least(Len(r), n) /\ Least(Len(r), n) \in Nat
      BY <1>2, CutFacts
    <2> QED  BY <1>2, <1>3, <2>1, SizesAssumption
  <1>5. <<>> \o f = f
    BY <1>4, JoinedEmpty
  <1>6. Upto(f, InsertSize) = f
    BY <1>4, CutBehind, SizesAssumption
  <1>7. r = Upto(r, n) \o From(r, n)
    BY <1>2, CutJoined
  <1> QED  BY <1>1, <1>2, <1>3, <1>4, <1>5, <1>6, <1>7

\* One item in front.
LEMMA FirstItem ==
  ASSUME NEW S, NEW c \in S, NEW t \in Seq(S), NEW s, s = <<c>> \o t
  PROVE  s # <<>> /\ Head(s) = c /\ Tail(s) = t
  <1>1. <<c>> \in Seq(S) /\ Len(<<c>>) = 1 /\ <<c>>[1] = c
    OBVIOUS
  <1>2. /\ s \in Seq(S) /\ Len(s) = 1 + Len(t) /\ Len(t) \in Nat
        /\ \A i \in 1 .. 1 + Len(t) : s[i] = IF i <= 1 THEN <<c>>[i] ELSE t[i - 1]
    BY <1>1, ConcatProperties
  <1>3. s # <<>> /\ s[1] = c
    BY <1>1, <1>2
  <1>4. PICK u : u = Tail(s)
    OBVIOUS
  <1>5. u \in Seq(S) /\ Len(u) = Len(t) /\ \A i \in 1 .. Len(u) : u[i] = s[i + 1]
    BY <1>2, <1>3, <1>4, HeadTailProperties
  <1>6. \A i \in 1 .. Len(u) : u[i] = t[i]
    <2>1. \A i \in 1 .. Len(t) : i + 1 \in 1 .. 1 + Len(t) /\ ~ (i + 1 <= 1) /\ (i + 1) - 1 = i
      BY <1>2
    <2> QED  BY <1>2, <1>5, <2>1
  <1>7. u = t
    BY <1>5, <1>6, SeqEqual
  <1> QED  BY <1>2, <1>3, <1>4, <1>7

LEMMA UptoOne ==
  ASSUME NEW S, NEW s \in Seq(S), Len(s) > 0
  PROVE  Upto(s, 1) = <<Head(s)>> /\ Head(s) \in S
  <1>1. Len(s) \in Nat /\ Least(Len(s), 1) = 1 /\ s # <<>>
    BY DEF Least
  <1>2. PICK u : u = Upto(s, 1)
    OBVIOUS
  <1>3. u \in Seq(S) /\ Len(u) = 1 /\ u[1] = s[1]
    <2>1. /\ Upto(s, 1) \in Seq(S) /\ Len(Upto(s, 1)) = Least(Len(s), 1)
          /\ \A i \in 1 .. Least(Len(s), 1) : Upto(s, 1)[i] = s[i]
      BY CutFacts
    <2>2. 1 \in 1 .. 1
      OBVIOUS
    <2> QED  BY <1>1, <1>2, <2>1, <2>2
  <1>4. u = <<s[1]>> /\ s[1] \in S /\ Head(s) = s[1]
    BY <1>1, <1>3
  <1> QED  BY <1>2, <1>4

\* What is cut in front of more is cut from the whole.
LEMMA Regroup ==
  \A s, t, u \in Seq(Symbols) : (s \o t) \o u = s \o (t \o u)
  BY Joined

\* A WRITE of which the first n characters are taken: the others stay in their order.
WithoutFirst(w, n) == [w EXCEPT ![1] = From(w[1], n)]

LEMMA CutFirst ==
  ASSUME NEW w \in Seq(Seq(Symbols)), Len(w) # 0, NEW n \in Nat,
         NEW v, v = WithoutFirst(w, n)
  PROVE  FlattenSeq(w) = Upto(Head(w), n) \o FlattenSeq(v)
  <1>1. PICK h, f, u : h = w[1] /\ f = From(h, n) /\ u = Upto(h, n)
    OBVIOUS
  <1>2. h \in Seq(Symbols) /\ Head(w) = h /\ Len(w) \in Nat /\ Len(w) > 0
    BY <1>1
  <1>3. f \in Seq(Symbols) /\ u \in Seq(Symbols) /\ h = u \o f
    <2>1. From(h, n) \in Seq(Symbols) /\ Upto(h, n) \in Seq(Symbols)
      BY <1>2, CutFacts
    <2>2. h = Upto(h, n) \o From(h, n)
      BY <1>2, CutJoined
    <2> QED  BY <1>1, <2>1, <2>2
  <1>4. /\ v \in Seq(Seq(Symbols)) /\ Len(v) = Len(w) /\ v[1] = f
        /\ \A i \in 2 .. Len(w) : v[i] = w[i]
    <2>1. 1 \in 1 .. Len(w) /\ v = [w EXCEPT ![1] = f]
      BY <1>1, <1>2 DEF WithoutFirst
    <2>2. /\ v \in Seq(Seq(Symbols)) /\ Len(v) = Len(w)
          /\ \A j \in 1 .. Len(w) : v[j] = IF j = 1 THEN f ELSE w[j]
      BY <1>3, <2>1, ExceptSeq
    <2> QED  BY <2>1, <2>2
  <1>5. Head(v) = f /\ Len(v) # 0 /\ v # <<>> /\ w # <<>>
    BY <1>2, <1>4
  <1>6. PICK a, b : a = Tail(w) /\ b = Tail(v)
    OBVIOUS
  <1>7. a = b
    <2>1. /\ a \in Seq(Seq(Symbols)) /\ Len(a) = Len(w) - 1
          /\ \A i \in 1 .. Len(a) : a[i] = w[i + 1]
      BY <1>5, <1>6, HeadTailProperties
    <2>2. /\ b \in Seq(Seq(Symbols)) /\ Len(b) = Len(v) - 1
          /\ \A i \in 1 .. Len(b) : b[i] = v[i + 1]
      BY <1>4, <1>5, <1>6, HeadTailProperties
    <2>3. \A i \in 1 .. Len(a) : i + 1 \in 2 .. Len(w)
      BY <1>2, <2>1
    <2>4. Len(a) = Len(b) /\ \A i \in 1 .. Len(a) : a[i] = b[i]
      BY <1>4, <2>1, <2>2, <2>3
    <2> QED  BY <2>1, <2>2, <2>4, SeqEqual
  <1>8. PICK t : t = FlattenSeq(a)
    OBVIOUS
  <1>9. t \in Seq(Symbols) /\ FlattenSeq(w) = h \o t
    <2>1. FlattenSeq(Tail(w)) \in Seq(Symbols) /\ FlattenSeq(w) = Head(w) \o FlattenSeq(Tail(w))
      BY FlattenCons
    <2> QED  BY <1>2, <1>6, <1>8, <2>1
  <1>10. FlattenSeq(v) = f \o t
    <2>1. FlattenSeq(v) = Head(v) \o FlattenSeq(Tail(v))
      BY <1>4, <1>5, FlattenCons
    <2> QED  BY <1>5, <1>6, <1>7, <1>8, <2>1
  <1>11. (u \o f) \o t = u \o (f \o t)
    <2>1. u \in Seq(Symbols) /\ f \in Seq(Symbols) /\ t \in Seq(Symbols)
      BY <1>3, <1>9
    <2> QED  BY <2>1, Regroup, Zenon
  <1> QED  BY <1>1, <1>2, <1>3, <1>9, <1>10, <1>11

\* A WRITE that is empty holds nothing.
LEMMA DropFirst ==
  ASSUME NEW w \in Seq(Seq(Symbols)), Len(w) # 0, Head(w) = <<>>
  PROVE  FlattenSeq(w) = FlattenSeq(Tail(w))
  <1>1. /\ FlattenSeq(Tail(w)) \in Seq(Symbols)
        /\ FlattenSeq(w) = <<>> \o FlattenSeq(Tail(w))
    BY FlattenCons
  <1> QED  BY <1>1, JoinedEmpty

LEMMA TakenFromWrite ==
  ASSUME TypeOK, writes # <<>>, NEW n \in Nat, TakeFromWrite(n)
  PROVE  FlattenSeq(writes) = Upto(Head(writes), n) \o FlattenSeq(writes')
  <1>1. writes \in Seq(Seq(Chars))
    BY DEF TypeOK
  <1>2. writes \in Seq(Seq(Symbols)) /\ Len(writes) # 0
    BY <1>1, RowOfWrites
  <1>3. writes' = WithoutFirst(writes, n)
    BY DEF TakeFromWrite, WithoutFirst
  <1> QED  BY <1>2, <1>3, CutFirst

\* The first n characters of the first WRITE are sent past an empty TX buffer.
LEMMA TodoFromWrite ==
  ASSUME TypeOK, TypeOK', writes # <<>>, NEW n \in Nat, TakeFromWrite(n),
         tx.busy = 0, tx' = tx
  PROVE  /\ Todo = Upto(Head(writes), n) \o Todo'
         /\ Upto(Head(writes), n) \in Seq(Symbols)
  <1>1. PICK u, f, g : /\ u = Upto(Head(writes), n)
                       /\ f = FlattenSeq(writes) /\ g = FlattenSeq(writes')
    OBVIOUS
  <1>2. u \in Seq(Symbols) /\ f \in Seq(Symbols) /\ g \in Seq(Symbols)
    <2>1. writes \in Seq(Seq(Chars))
      BY DEF TypeOK
    <2>2. Head(writes) \in Seq(Symbols)
      BY <2>1, RowOfWrites
    <2>3. Upto(Head(writes), n) \in Seq(Symbols)
      BY <2>2, CutFacts
    <2> QED  BY <1>1, <2>3, Types, TypesAfter
  <1>3. f = u \o g
    BY <1>1, TakenFromWrite
  <1>4. Content(tx) = <<>> /\ Content(tx)' = <<>>
    <2>1. Content(tx) = <<>>
      BY ContentEmpty DEF TypeOK
    <2> QED  BY <2>1
  <1>5. Todo = <<>> \o f /\ Todo' = <<>> \o g
    BY <1>1, <1>4 DEF Todo
  <1>6. Todo = f /\ Todo' = g
    BY <1>2, <1>5, JoinedEmpty
  <1> QED  BY <1>1, <1>2, <1>3, <1>6

\* The first n characters of the TX buffer are sent.
LEMMA TodoFromTx ==
  ASSUME TypeOK, NEW n \in Nat, n <= FilledRun(tx), n <= tx.busy,
         tx' = Take(tx, n), writes' = writes
  PROVE  Todo = Cells(tx, n) \o Todo' /\ Cells(tx, n) \in Seq(Symbols)
  <1>1. RingOK(tx)
    BY DEF TypeOK
  <1>2. PICK a, b, g : a = Cells(tx, n) /\ b = Content(tx') /\ g = FlattenSeq(writes)
    OBVIOUS
  <1>3. RingOK(tx') /\ a \in Seq(Symbols)
    BY <1>1, <1>2, TakeFacts
  <1>4. b \in Seq(Symbols) /\ g \in Seq(Symbols)
    BY <1>2, <1>3, ContentFacts, Types
  <1>5. Content(tx) = a \o b
    BY <1>1, <1>2, ContentTake
  <1>6. Todo = (a \o b) \o g /\ Todo' = b \o g
    BY <1>2, <1>5 DEF Todo
  <1>7. (a \o b) \o g = a \o (b \o g)
    BY <1>3, <1>4, Joined
  <1> QED  BY <1>2, <1>3, <1>6, <1>7

\* The first byte of the TX buffer is sent.
LEMMA OneCell ==
  ASSUME NEW r
  PROVE  Cells(r, 1) = <<r.mem[r.busyAt]>> \/ r.busyAt \notin Nat
  BY DEF Cells

-----------------------------------------------------------------------------
(* Every step of the code is a step of the promise or none *)

CInv == Inv /\ Course

\* Only the place in the pass, its numbers, the limit or the pending READs change.
Aside == UNCHANGED <<rx, insert, tx, writes, out>>

LEMMA AsideSteps ==
  ASSUME Aside
  PROVE  Steps
  <1>1. Todo' = Todo /\ Pending' = Pending /\ out' = out
    BY DEF Aside, Todo, Pending
  <1> QED  BY <1>1, StutterStep

LEMMA StartWriteSteps ==
  ASSUME Inv, StartWrite
  PROVE  Steps
  <1>1. PICK s \in WriteInputs : writes' = Append(writes, s)
    BY DEF StartWrite
  <1>2. s \in Seq(Symbols) /\ s # <<>>
    <2>1. s \in Seq(Chars) /\ s # <<>> /\ Chars \subseteq Symbols
      BY InputsAssumption DEF Symbols
    <2> QED  BY <2>1, SeqMonotonic
  <1>3. PICK a, f : a = Content(tx) /\ f = FlattenSeq(writes)
    OBVIOUS
  <1>4. a \in Seq(Symbols) /\ f \in Seq(Symbols)
    BY <1>3, Types DEF Inv
  <1>5. FlattenSeq(writes') = f \o s
    <2>1. writes \in Seq(Seq(Symbols))
      BY RowOfWrites DEF Inv, TypeOK
    <2> QED  BY <1>1, <1>2, <1>3, <2>1, FlattenAppend
  <1>6. Todo = a \o f /\ Todo' = a \o (f \o s)
    BY <1>3, <1>5 DEF Todo, StartWrite
  <1>7. Todo' = Todo \o s
    BY <1>2, <1>4, <1>6, Regroup, Zenon
  <1>8. Todo \in Seq(Symbols)
    BY Types DEF Inv
  <1>9. IsStrictPrefix(Todo, Todo')
    BY <1>2, <1>7, <1>8, PrefixJoined
  <1> QED  BY <1>9, WriteStep DEF StartWrite, Pending

LEMMA PurgeRxSteps ==
  ASSUME Inv, PurgeRx
  PROVE  Steps
  <1>1. RingOK(Ring(rx.size)) /\ Ring(rx.size).busy = 0
    BY EmptyRingFacts DEF Inv, TypeOK, RingOK
  <1>2. Content(rx') = <<>> /\ insert' = <<>>
    BY <1>1, ContentEmpty DEF PurgeRx
  <1>3. Pending' = <<>>
    BY <1>2 DEF Pending
  <1>4. Todo' = Todo /\ out' = out
    BY DEF Todo, PurgeRx
  <1> QED  BY <1>3, <1>4, PurgeStep

LEMMA SetQueueSizeSteps ==
  ASSUME Inv, SetQueueSize
  PROVE  Steps
  <1>1. PICK n \in Sizes : n > rx.size /\ rx' = Put(Ring(n), Content(rx))
    BY DEF SetQueueSize
  <1>2. RingOK(rx) /\ n \in Nat \ {0}
    BY SizesAssumption DEF Inv, TypeOK
  <1>3. /\ RingOK(Ring(n)) /\ Ring(n).size = n /\ Ring(n).busy = 0 /\ FreeRun(Ring(n)) = n
    BY <1>2, EmptyRingFacts
  <1>4. /\ Content(rx) \in Seq(Symbols) /\ Len(Content(rx)) = rx.busy
        /\ rx.busy \in Nat /\ rx.busy <= rx.size /\ rx.size \in Nat
    BY <1>2, ContentFacts, CountFacts
  <1>5. Ring(n).busy + Len(Content(rx)) <= Ring(n).size /\ Len(Content(rx)) <= FreeRun(Ring(n))
    BY <1>1, <1>2, <1>3, <1>4
  <1>6. Content(rx') = Content(Ring(n)) \o Content(rx)
    BY <1>1, <1>3, <1>4, <1>5, ContentPut
  <1>7. Content(Ring(n)) = <<>>
    BY <1>3, ContentEmpty
  <1>8. Content(rx') = Content(rx)
    BY <1>4, <1>6, <1>7, JoinedEmpty
  <1>9. Todo' = Todo /\ Pending' = Pending /\ out' = out
    BY <1>8 DEF Todo, Pending, SetQueueSize
  <1> QED  BY <1>9, StutterStep

LEMMA CallsSteps ==
  ASSUME Inv, Calls
  PROVE  Steps
  <1>1. StartRead \/ Tick \/ SetHandFlow \/ StartInsert => Aside
    BY DEF StartRead, Tick, SetHandFlow, StartInsert, Aside
  <1> QED  BY <1>1, AsideSteps, StartWriteSteps, PurgeRxSteps, SetQueueSizeSteps DEF Calls

\* What is put at the end of a READ and taken from the front of what is held.
LEMMA MovedToRead ==
  ASSUME NEW u \in Seq(Symbols), NEW p \in Seq(Symbols), TypeOK,
         Todo' = Todo, out' = out \o u, Pending = u \o p, Pending' = p
  PROVE  Steps
  <1>1. out \in Seq(Symbols)
    BY Types
  <1>2. (out \o u) \o p = out \o (u \o p)
    BY <1>1, Regroup, Zenon
  <1>3. IsPrefix(out, out \o u)
    BY <1>1, PrefixJoined
  <1> QED  BY <1>2, <1>3, DeliverStep

LEMMA ReadRingSteps ==
  ASSUME Inv, ReadRing
  PROVE  Steps
  <1>0. TypeOK
    BY DEF Inv
  <1>1. PICK n : /\ n = Least(FilledRun(rx), Left)
                 /\ out' = out \o Cells(rx, n) /\ rx' = Take(rx, n)
    BY DEF ReadRing
  <1>2. /\ n \in Nat /\ n <= FilledRun(rx) /\ n <= rx.busy /\ RingOK(rx)
    <2>1. /\ RingOK(rx) /\ reads # <<>> /\ rx.busy > 0
          /\ FilledRun(rx) \in Nat /\ rx.busy \in Nat /\ FilledRun(rx) <= rx.busy
      BY <1>0, CountFacts DEF ReadRing, TypeOK
    <2>2. Left \in Nat
      BY <2>1, RoomFacts
    <2>3. n \in Nat /\ n <= FilledRun(rx)
      BY <1>1, <2>1, <2>2, LeastFacts
    <2> QED  BY <2>1, <2>3
  <1>3. PICK u, b, i : u = Cells(rx, n) /\ b = Content(rx') /\ i = insert
    OBVIOUS
  <1>4. u \in Seq(Symbols) /\ b \in Seq(Symbols) /\ i \in Seq(Symbols)
    <2>1. RingOK(rx') /\ Cells(rx, n) \in Seq(Symbols)
      BY <1>1, <1>2, TakeFacts
    <2> QED  BY <1>0, <1>3, <2>1, ContentFacts DEF TypeOK
  <1>5. Content(rx) = u \o b
    BY <1>1, <1>2, <1>3, ContentTake
  <1>6. Pending = (u \o b) \o i /\ Pending' = b \o i
    BY <1>3, <1>5 DEF Pending, ReadRing
  <1>7. (u \o b) \o i = u \o (b \o i) /\ b \o i \in Seq(Symbols)
    BY <1>4, Regroup, JoinedTypes, Zenon
  <1>8. Todo' = Todo /\ out' = out \o u
    BY <1>1, <1>3 DEF Todo, ReadRing
  <1> QED  BY <1>0, <1>4, <1>6, <1>7, <1>8, MovedToRead

\* insertData into the READ, when the ring is empty.
LEMMA InsertToReadSteps ==
  ASSUME Inv, reads # <<>>, rx.busy = 0, InsertToRead, UNCHANGED <<rx, tx, writes>>
  PROVE  Steps
  <1>0. TypeOK
    BY DEF Inv
  <1>1. PICK u, f : u = Upto(insert, Left) /\ f = From(insert, Left)
    OBVIOUS
  <1>2. insert \in Seq(Symbols) /\ Left \in Nat
    BY <1>0, RoomFacts DEF TypeOK
  <1>3. u \in Seq(Symbols) /\ f \in Seq(Symbols) /\ insert = u \o f
    <2>1. Upto(insert, Left) \in Seq(Symbols) /\ From(insert, Left) \in Seq(Symbols)
      BY <1>2, CutFacts
    <2>2. insert = Upto(insert, Left) \o From(insert, Left)
      BY <1>2, CutJoined
    <2> QED  BY <1>1, <2>1, <2>2
  <1>4. Content(rx) = <<>>
    BY <1>0, ContentEmpty DEF TypeOK
  <1>5. Pending = <<>> \o insert /\ Pending' = <<>> \o f
    BY <1>1, <1>4 DEF Pending, InsertToRead
  <1>6. Pending = u \o f /\ Pending' = f
    BY <1>2, <1>3, <1>5, JoinedEmpty
  <1>7. Todo' = Todo /\ out' = out \o u
    BY <1>1 DEF Todo, InsertToRead
  <1> QED  BY <1>0, <1>3, <1>6, <1>7, MovedToRead

LEMMA CompleteReadSteps ==
  ASSUME CompleteRead
  PROVE  Steps
  <1>1. Todo' = Todo /\ Pending' = Pending /\ out' = <<>>
    BY DEF CompleteRead, Todo, Pending
  <1> QED  BY <1>1, CompleteStep

\* A character of the line into the READ, when nothing is held in front of it.
LEMMA CharToReadSteps ==
  ASSUME Inv, reads # <<>>, rx.busy = 0, rx' = rx, insert = <<>>, Todo' \in Seq(Symbols),
         NEW c \in Symbols, CharToRead(c), Todo = <<c>> \o Todo'
  PROVE  Steps
  <1>0. TypeOK /\ Left \in Nat
    BY RoomFacts DEF Inv
  <1>1. Todo # <<>> /\ Head(Todo) = c /\ Tail(Todo) = Todo'
    BY FirstItem
  <1>2. PICK r, u, f : r = Received(c) /\ u = Upto(r, Left) /\ f = From(r, Left)
    OBVIOUS
  <1>3. /\ r \in Seq(Symbols) /\ u \in Seq(Symbols) /\ f \in Seq(Symbols) /\ r = u \o f
        /\ Upto(<<>> \o f, InsertSize) = f
    BY <1>0, <1>2, RestKept
  <1>4. Content(rx) = <<>> /\ out \in Seq(Symbols)
    BY <1>0, ContentEmpty DEF TypeOK
  <1>5. out' = out \o u /\ insert' = f
    BY <1>2, <1>3 DEF CharToRead
  <1>6. <<>> \o <<>> = <<>> /\ <<>> \o f = f
    BY <1>3, JoinedEmpty
  <1>7. Pending = <<>> /\ Pending' = f
    BY <1>4, <1>5, <1>6 DEF Pending
  <1>8. out' \o Pending' = (out \o Pending) \o r
    <2>1. out \o <<>> = out
      BY <1>4, JoinedEmpty
    <2>2. (out \o u) \o f = out \o (u \o f)
      BY <1>3, <1>4, Regroup, Zenon
    <2>3. out' \o Pending' = (out \o u) \o f
      BY <1>5, <1>7
    <2>4. (out \o Pending) \o r = out \o (u \o f)
      BY <1>3, <1>7, <2>1
    <2> QED  BY <2>2, <2>3, <2>4
  <1>9. IsPrefix(out, out')
    BY <1>3, <1>4, <1>5, PrefixJoined
  <1> QED  BY <1>1, <1>2, <1>8, <1>9, ReceiveStep

LEMMA TxReadCallSteps ==
  ASSUME CInv, TxReadCall
  PROVE  Steps
  <1>1. Inv /\ reads # <<>> /\ rx.busy = 0
    BY DEF CInv, Inv, ChunksFit, Course, RingFirst, TxReadCall, At
  <1> QED  BY <1>1, InsertToReadSteps DEF TxReadCall

LEMMA TxReadCharSteps ==
  ASSUME CInv, Inv', TxReadChar
  PROVE  Steps
  <1>0. Inv /\ TypeOK /\ TypeOK' /\ RingOK(tx)
    BY DEF CInv, Inv, TypeOK
  <1>1. reads # <<>> /\ rx.busy = 0 /\ insert = <<>> /\ rx' = rx
    BY DEF CInv, Inv, ChunksFit, Course, RingFirst, TxReadChar, At
  <1>2. /\ tx.mem[tx.busyAt] \in Symbols /\ 1 <= FilledRun(tx) /\ 1 <= tx.busy
        /\ tx.busyAt \in Nat
    <2>1. /\ tx.busy \in Nat /\ FilledRun(tx) \in Nat /\ work.chunk \in Nat
          /\ tx.busyAt \in Nat
      <3>1. tx.busy \in Nat /\ FilledRun(tx) \in Nat
        BY <1>0, CountFacts
      <3>2. work.chunk \in Nat
        BY <1>0 DEF TypeOK
      <3>3. tx.busyAt \in Nat
        BY <1>0 DEF RingOK
      <3> QED  BY <3>1, <3>2, <3>3
    <2>2. work.chunk > 0 /\ work.chunk <= (IF tx.busy = 0 THEN 0 ELSE FilledRun(tx))
      BY <1>0 DEF Inv, ChunksFit, TxReadChar, At
    <2>3. tx.busy > 0 /\ 1 <= FilledRun(tx) /\ 1 <= tx.busy
      BY <2>1, <2>2
    <2> QED  BY <1>0, <2>1, <2>3, FirstFacts
  <1>3. Cells(tx, 1) = <<tx.mem[tx.busyAt]>>
    BY <1>2, OneCell
  <1>4. Todo = <<tx.mem[tx.busyAt]>> \o Todo'
    <2>1. tx' = Take(tx, 1) /\ writes' = writes
      BY DEF TxReadChar
    <2> QED  BY <1>0, <1>2, <1>3, <2>1, TodoFromTx
  <1>5. CharToRead(tx.mem[tx.busyAt])
    BY DEF TxReadChar
  <1>6. Todo' \in Seq(Symbols)
    BY <1>0, TypesAfter
  <1> QED  BY <1>0, <1>1, <1>2, <1>4, <1>5, <1>6, CharToReadSteps

LEMMA ReadingSteps ==
  ASSUME CInv, Inv', Reading
  PROVE  Steps
  <1>0. Inv
    BY DEF CInv
  <1>1. ReadRingDone \/ NoReader \/ TxReadDone => Aside
    BY DEF ReadRingDone, NoReader, TxReadDone, Aside
  <1>2. ASSUME ReadInsert PROVE Steps
    <2>1. /\ InsertToRead /\ reads # <<>> /\ rx.busy = 0
          /\ UNCHANGED <<rx, tx, writes>>
      BY <1>2 DEF ReadInsert, InsertToRead
    <2> QED  BY <1>0, <2>1, InsertToReadSteps
  <1> QED  BY <1>0, <1>1, <1>2, AsideSteps, ReadRingSteps, CompleteReadSteps,
              TxReadCallSteps, TxReadCharSteps DEF Reading

LEMMA DirectCallSteps ==
  ASSUME CInv, DirectCall
  PROVE  Steps
  <1>1. Inv /\ reads # <<>> /\ rx.busy = 0
    BY DEF CInv, Inv, Course, RingFirst, DirectCall, At
  <1> QED  BY <1>1, InsertToReadSteps DEF DirectCall

LEMMA DirectCharSteps ==
  ASSUME CInv, Inv', DirectChar
  PROVE  Steps
  <1>0. Inv /\ TypeOK /\ TypeOK'
    BY DEF CInv, Inv
  <1>1. reads # <<>> /\ rx.busy = 0 /\ insert = <<>> /\ rx' = rx
    BY DEF CInv, Inv, ChunksFit, Course, RingFirst, DirectChar, At
  <1>2. /\ writes # <<>> /\ work.chunk <= Len(Head(writes)) /\ work.chunk > 0
        /\ work.chunk \in Nat /\ work.chunk <= work.budget /\ work.budget \in Nat
    BY <1>0 DEF Inv, TypeOK, ChunksFit, DirectChar, At
  <1>3. tx.busy = 0
    <2>1. tx.busy = 0 \/ work.budget = 0
      BY <1>1 DEF CInv, Course, TxFirst, Sent, DirectChar, At
    <2> QED  BY <1>2, <2>1
  <1>4. Head(writes) \in Seq(Symbols) /\ Len(Head(writes)) > 0
    <2>1. writes \in Seq(Seq(Chars))
      BY <1>0 DEF TypeOK
    <2>2. Head(writes) \in Seq(Symbols) /\ Len(Head(writes)) \in Nat
      BY <1>2, <2>1, RowOfWrites
    <2> QED  BY <1>2, <2>2
  <1>5. PICK c : c = Head(Head(writes))
    OBVIOUS
  <1>6. Upto(Head(writes), 1) = <<c>> /\ c \in Symbols
    BY <1>4, <1>5, UptoOne
  <1>7. Todo = <<c>> \o Todo'
    <2>1. TakeFromWrite(1) /\ tx' = tx
      BY DEF DirectChar
    <2> QED  BY <1>0, <1>2, <1>3, <1>6, <2>1, TodoFromWrite
  <1>8. CharToRead(c)
    BY <1>5 DEF DirectChar
  <1>9. Todo' \in Seq(Symbols)
    BY <1>0, TypesAfter
  <1> QED  BY <1>0, <1>1, <1>6, <1>7, <1>8, <1>9, CharToReadSteps

LEMMA SentWriteSteps ==
  ASSUME Inv, writes # <<>>, Head(writes) = <<>>, writes' = Tail(writes),
         UNCHANGED <<rx, insert, tx, out>>
  PROVE  Steps
  <1>1. writes \in Seq(Seq(Symbols)) /\ Len(writes) # 0
    BY RowOfWrites DEF Inv, TypeOK
  <1>2. FlattenSeq(writes') = FlattenSeq(writes)
    BY <1>1, DropFirst
  <1>3. Todo' = Todo /\ Pending' = Pending /\ out' = out
    BY <1>2 DEF Todo, Pending
  <1> QED  BY <1>3, StutterStep

LEMMA DirectDoneSteps ==
  ASSUME Inv, DirectDone
  PROVE  Steps
  <1>1. writes # <<>> /\ UNCHANGED <<rx, insert, tx, out>>
    BY DEF Inv, ChunksFit, DirectDone, At
  <1>2. CASE Head(writes) = <<>>
    BY <1>1, <1>2, SentWriteSteps DEF DirectDone
  <1>3. CASE Head(writes) # <<>>
    BY <1>1, <1>3, AsideSteps DEF DirectDone, Aside
  <1> QED  BY <1>2, <1>3

\* insertData into the ring, or as much of a sequence as there is room for.
LEMMA PutSome ==
  ASSUME TypeOK, NEW s \in Seq(Symbols), NEW room \in Nat,
         room <= FreeRun(rx), rx.busy + room <= rx.size
  PROVE  /\ Upto(s, room) \in Seq(Symbols) /\ From(s, room) \in Seq(Symbols)
         /\ s = Upto(s, room) \o From(s, room)
         /\ Content(Put(rx, Upto(s, room))) = Content(rx) \o Upto(s, room)
  <1>1. RingOK(rx) /\ rx.busy \in Nat /\ rx.size \in Nat /\ FreeRun(rx) \in Nat
    BY CountFacts DEF TypeOK
  <1>2. /\ Upto(s, room) \in Seq(Symbols) /\ From(s, room) \in Seq(Symbols)
        /\ Len(Upto(s, room)) <= room /\ Len(Upto(s, room)) \in Nat
    <2>1. /\ Upto(s, room) \in Seq(Symbols) /\ From(s, room) \in Seq(Symbols)
          /\ Len(Upto(s, room)) = Least(Len(s), room)
          /\ Least(Len(s), room) <= room /\ Least(Len(s), room) \in Nat
      BY CutFacts
    <2> QED  BY <2>1
  <1>3. rx.busy + Len(Upto(s, room)) <= rx.size /\ Len(Upto(s, room)) <= FreeRun(rx)
    BY <1>1, <1>2
  <1>4. Content(Put(rx, Upto(s, room))) = Content(rx) \o Upto(s, room)
    BY <1>1, <1>2, <1>3, ContentPut
  <1> QED  BY <1>2, <1>4, CutJoined

\* What is held when the ring takes some bytes and insertData keeps the others.
LEMMA PendingAfterPut ==
  ASSUME NEW a \in Seq(Symbols), NEW u \in Seq(Symbols), NEW f \in Seq(Symbols),
         Content(rx') = a \o u, insert' = f
  PROVE  Pending' = a \o (u \o f)
  <1>1. (a \o u) \o f = a \o (u \o f)
    BY Regroup, Zenon
  <1> QED  BY <1>1 DEF Pending

LEMMA FillCallSteps ==
  ASSUME Inv, FillCall
  PROVE  Steps
  <1>0. TypeOK /\ insert \in Seq(Symbols)
    BY DEF Inv, TypeOK
  <1>1. PICK room : /\ room = Least(FreeRun(rx), limit - rx.busy)
                    /\ rx' = Put(rx, Upto(insert, room)) /\ insert' = From(insert, room)
    BY DEF FillCall
  <1>2. room \in Nat /\ room <= FreeRun(rx) /\ rx.busy + room <= rx.size
    <2>1. /\ rx.busy \in Nat /\ rx.size \in Nat /\ FreeRun(rx) \in Nat
          /\ limit \in 1 .. rx.size /\ limit > rx.busy
      BY <1>0, CountFacts DEF TypeOK, FillCall
    <2>2. limit - rx.busy \in Nat
      BY <2>1
    <2>3. room \in Nat /\ room <= FreeRun(rx) /\ room <= limit - rx.busy
      BY <1>1, <2>1, <2>2, LeastFacts
    <2> QED  BY <2>1, <2>3
  <1>3. PICK a, u, f : /\ a = Content(rx) /\ u = Upto(insert, room)
                       /\ f = From(insert, room)
    OBVIOUS
  <1>4. /\ u \in Seq(Symbols) /\ f \in Seq(Symbols) /\ insert = u \o f
        /\ Content(rx') = a \o u /\ a \in Seq(Symbols)
    BY <1>0, <1>1, <1>2, <1>3, PutSome, Types
  <1>5. Pending' = a \o (u \o f)
    BY <1>1, <1>3, <1>4, PendingAfterPut
  <1>6. Pending' = Pending
    BY <1>3, <1>4, <1>5 DEF Pending
  <1>7. Todo' = Todo /\ out' = out
    BY DEF Todo, FillCall
  <1> QED  BY <1>6, <1>7, StutterStep

\* What WriteToBuffer takes from its source is the first of what is still to be received.
LEMMA TodoFromSource ==
  ASSUME Inv, TypeOK', work.pc \in {"fill", "fillcopy"}, NEW n \in Nat, 0 < n, n <= work.chunk,
         TakeFromSource(n), work.src = "write" => tx.busy = 0
  PROVE  \E s \in Seq(Symbols) : /\ Todo = s \o Todo'
                                 /\ Len(s) = n
                                 /\ n = 1 => s = <<Head(Source)>>
  <1>0. TypeOK /\ work.chunk \in Nat /\ work.src \in {"tx", "write"} /\ RingOK(tx)
    BY DEF Inv, TypeOK
  <1>1. CASE work.src = "tx"
    <2>1. n <= FilledRun(tx) /\ n <= tx.busy /\ 1 <= work.chunk
      <3>1. /\ tx.busy \in Nat /\ FilledRun(tx) \in Nat
            /\ tx.busy > 0 => FilledRun(tx) <= tx.busy
        BY <1>0, CountFacts
      <3>2. work.chunk <= (IF tx.busy = 0 THEN 0 ELSE FilledRun(tx))
        BY <1>1 DEF Inv, ChunksFit, At
      <3> QED  BY <1>0, <3>1, <3>2
    <2>2. tx' = Take(tx, n) /\ writes' = writes
      BY <1>1 DEF TakeFromSource
    <2>3. Todo = Cells(tx, n) \o Todo' /\ Cells(tx, n) \in Seq(Symbols) /\ Len(Cells(tx, n)) = n
      BY <1>0, <2>1, <2>2, TodoFromTx, TakeFacts
    <2>4. n = 1 => Cells(tx, n) = <<Head(Source)>>
      <3>1. Cells(tx, 1) = <<tx.mem[tx.busyAt]>> /\ tx.busyAt \in Nat
        BY <1>0, OneCell DEF RingOK
      <3>2. Source = Cells(tx, work.chunk)
        BY <1>1 DEF Source
      <3>3. Head(Cells(tx, work.chunk)) = tx.mem[tx.busyAt]
        <4>1. Cells(tx, work.chunk)[1] = tx.mem[tx.busyAt]
          BY <1>0, <2>1, <3>1 DEF Cells
        <4>2. Head(Cells(tx, work.chunk)) = Cells(tx, work.chunk)[1]
          OBVIOUS
        <4> QED  BY <4>1, <4>2
      <3> QED  BY <3>1, <3>2, <3>3
    <2> QED  BY <2>3, <2>4
  <1>2. CASE work.src = "write"
    <2>1. /\ writes # <<>> /\ work.chunk <= Len(Head(writes)) /\ tx.busy = 0
          /\ TakeFromWrite(n) /\ tx' = tx
      BY <1>2 DEF Inv, ChunksFit, At, TakeFromSource
    <2>2. PICK h : h = Head(writes)
      OBVIOUS
    <2>3. h \in Seq(Symbols) /\ Len(h) \in Nat
      <3>1. writes \in Seq(Seq(Chars))
        BY <1>0 DEF TypeOK
      <3> QED  BY <2>1, <2>2, <3>1, RowOfWrites
    <2>4. Todo = Upto(h, n) \o Todo' /\ Upto(h, n) \in Seq(Symbols)
      BY <1>0, <2>1, <2>2, TodoFromWrite
    <2>5. Len(h) >= n /\ Len(h) > 0 /\ Least(Len(h), n) = n
      BY <1>0, <2>1, <2>2, <2>3 DEF Least
    <2>6. Len(Upto(h, n)) = n
      BY <2>3, <2>5, CutFacts
    <2>7. n = 1 => Upto(h, n) = <<Head(Source)>>
      <3>1. Upto(h, 1) = <<Head(h)>>
        BY <2>3, <2>5, UptoOne
      <3>2. Source = Upto(h, work.chunk)
        BY <1>2, <2>2 DEF Source
      <3>3. Head(Upto(h, work.chunk)) = Head(h)
        <4>1. /\ Upto(h, work.chunk) \in Seq(Symbols)
              /\ \A i \in 1 .. Least(Len(h), work.chunk) : Upto(h, work.chunk)[i] = h[i]
          BY <1>0, <2>3, CutFacts
        <4>2. 1 \in 1 .. Least(Len(h), work.chunk)
          BY <1>0, <2>3, <2>5 DEF Least
        <4>3. Head(Upto(h, work.chunk)) = Upto(h, work.chunk)[1] /\ Head(h) = h[1]
          OBVIOUS
        <4> QED  BY <4>1, <4>2, <4>3
      <3> QED  BY <3>1, <3>2, <3>3
    <2> QED  BY <2>2, <2>4, <2>6, <2>7
  <1> QED  BY <1>0, <1>1, <1>2

\* A pass fills the ring from a WRITE only when the TX buffer is empty.
LEMMA TxFirstSent ==
  ASSUME CInv, work.pc \in {"fill", "fillcopy"}, work.chunk > 0, work.src = "write", ~Blocked
  PROVE  tx.busy = 0
  <1>1. tx.busy = 0 \/ work.budget = 0
    BY DEF CInv, Course, TxFirst, Filling, Sent
  <1>2. work.chunk \in Nat /\ work.budget \in Nat /\ work.chunk <= work.budget
    BY DEF CInv, Inv, TypeOK, ChunksFit
  <1> QED  BY <1>1, <1>2

LEMMA FillCharSteps ==
  ASSUME CInv, Inv', FillChar
  PROVE  Steps
  <1>0. /\ Inv /\ TypeOK /\ TypeOK' /\ out \in Seq(Symbols)
        /\ work.pc = "fillcopy" /\ work.chunk > 0 /\ work.room > 0
        /\ work.chunk \in Nat /\ work.room \in Nat
    BY DEF CInv, Inv, TypeOK, FillChar, At
  <1>1. insert = <<>>
    BY <1>0 DEF CInv, Course, RingFirst, At
  <1>2. /\ work.room <= FreeRun(rx) /\ rx.busy + work.room <= limit
        /\ limit \in Nat /\ limit <= rx.size /\ rx.busy \in Nat /\ rx.size \in Nat
    <2>1. rx.busy \in Nat /\ rx.size \in Nat
      BY <1>0, CountFacts DEF TypeOK
    <2>2. limit \in 1 .. rx.size
      BY <1>0 DEF TypeOK
    <2> QED  BY <1>0, <2>1, <2>2 DEF Inv, ChunksFit, At
  <1>3. work.src = "write" => tx.busy = 0
    <2>1. ~Blocked
      BY <1>0, <1>2 DEF Blocked
    <2> QED  BY <1>0, <2>1, TxFirstSent
  <1>4. PICK c : c = Head(Source)
    OBVIOUS
  <1>5. Todo = <<c>> \o Todo' /\ c \in Symbols
    <2>1. TakeFromSource(1) /\ 0 < 1 /\ 1 <= work.chunk
      BY <1>0 DEF FillChar
    <2>2. \E s \in Seq(Symbols) : /\ Todo = s \o Todo'
                                  /\ Len(s) = 1
                                  /\ 1 = 1 => s = <<Head(Source)>>
      BY <1>0, <1>3, <2>1, TodoFromSource
    <2> QED  BY <1>0, <1>4, <2>2, SourceFacts
  <1>6. PICK r, n, u, f : /\ r = Received(c) /\ n = work.room
                          /\ u = Upto(r, n) /\ f = From(r, n)
    OBVIOUS
  <1>7. /\ r \in Seq(Symbols) /\ u \in Seq(Symbols) /\ f \in Seq(Symbols) /\ r = u \o f
        /\ Upto(<<>> \o f, InsertSize) = f
    BY <1>0, <1>5, <1>6, RestKept
  <1>8. rx' = Put(rx, u) /\ insert' = f
    BY <1>1, <1>4, <1>6, <1>7 DEF FillChar
  <1>9. PICK a : a = Content(rx)
    OBVIOUS
  <1>10. a \in Seq(Symbols) /\ Content(rx') = a \o u
    <2>1. n \in Nat /\ n <= FreeRun(rx) /\ rx.busy + n <= rx.size
      BY <1>0, <1>2, <1>6
    <2> QED  BY <1>0, <1>6, <1>7, <1>8, <1>9, <2>1, PutSome, Types
  <1>11. Pending' = a \o r
    BY <1>7, <1>8, <1>10, PendingAfterPut
  <1>12. Pending = a
    <2>1. a \o <<>> = a
      BY <1>10, JoinedEmpty
    <2> QED  BY <1>1, <1>9, <2>1 DEF Pending
  <1>13. Todo # <<>> /\ Head(Todo) = c /\ Tail(Todo) = Todo'
    BY <1>0, <1>5, TypesAfter, FirstItem
  <1>14. out' = out /\ IsPrefix(out, out')
    BY <1>0, PrefixItself DEF FillChar
  <1>15. out \o (a \o r) = (out \o a) \o r
    BY <1>0, <1>7, <1>10, Regroup, Zenon
  <1>16. out' \o Pending' = (out \o Pending) \o r
    BY <1>11, <1>12, <1>14, <1>15
  <1> QED  BY <1>6, <1>13, <1>14, <1>16, ReceiveStep

\* Prefixes: all but the last item, and what comes before more.
LEMMA FrontPrefix ==
  ASSUME NEW s \in Seq(Symbols), s # <<>>
  PROVE  IsPrefix(Front(s), s)
  <1>1. PICK m, f : m = Len(s) - 1 /\ f = Front(s)
    OBVIOUS
  <1>2. m \in Nat /\ Len(s) \in Nat /\ m <= Len(s) /\ m - 1 + 1 = m
    BY <1>1
  <1>3. \A i \in 1 .. m : s[i] \in Symbols
    BY <1>2
  <1>4. f = SubSeq(s, 1, m)
    BY <1>1 DEF Front
  <1>5. f \in Seq(Symbols) /\ Len(f) = IF 1 <= m THEN m - 1 + 1 ELSE 0
    BY <1>2, <1>3, <1>4, SubSeqProperties
  <1>6. Len(f) = m
    BY <1>2, <1>5
  <1>7. SubSeq(f, 1, Len(f)) = f
    BY <1>5, SubSeqFull
  <1> QED  BY <1>1, <1>2, <1>4, <1>6, <1>7 DEF IsPrefix

LEMMA PrefixOn ==
  ASSUME NEW p \in Seq(Symbols), NEW s \in Seq(Symbols), NEW t \in Seq(Symbols), IsPrefix(p, s)
  PROVE  IsPrefix(p, s \o t)
  <1>1. PICK n, j : n = Len(p) /\ j = s \o t
    OBVIOUS
  <1>2. n \in Nat /\ n <= Len(s) /\ Len(s) \in Nat /\ SubSeq(p, 1, n) = SubSeq(s, 1, n)
    BY <1>1 DEF IsPrefix
  <1>3. Len(j) = Len(s) + Len(t) /\ Len(t) \in Nat
    BY <1>1, PrefixJoined
  <1>4. SubSeq(s, 1, n) = SubSeq(j, 1, n)
    <2>1. CASE n = 0
      <3>1. SubSeq(s, 1, n) = <<>> /\ SubSeq(j, 1, n) = <<>>
        BY <2>1, SubSeqEmpty
      <3> QED  BY <3>1
    <2>2. CASE n # 0
      <3>1. 1 \in 1 .. Len(s) /\ n \in 1 .. Len(s)
        BY <1>2, <2>2
      <3> QED  BY <1>1, <3>1, SubSeqOfConcat1
    <2> QED  BY <2>1, <2>2
  <1> QED  BY <1>1, <1>2, <1>3, <1>4 DEF IsPrefix

LEMMA FrontType ==
  ASSUME NEW s \in Seq(Symbols), s # <<>>
  PROVE  Front(s) \in Seq(Symbols)
  <1>1. PICK m : m = Len(s) - 1
    OBVIOUS
  <1>2. m \in Int /\ \A i \in 1 .. m : s[i] \in Symbols
    BY <1>1
  <1>3. SubSeq(s, 1, m) \in Seq(Symbols)
    BY <1>2, SubSeqProperties
  <1> QED  BY <1>1, <1>3 DEF Front

LEMMA OverrunSteps ==
  ASSUME CInv, Inv', Overrun
  PROVE  Steps
  <1>0. /\ Inv /\ TypeOK /\ TypeOK' /\ RingOK(rx) /\ RingOK(rx') /\ insert \in Seq(Symbols)
        /\ work.pc = "fill" /\ work.chunk > 0 /\ work.chunk \in Nat /\ EmuOverrun
        /\ insert' = <<>>
    BY DEF CInv, Inv, TypeOK, Overrun, At
  <1>1. work.src = "write" => tx.busy = 0
    <2>1. ~Blocked
      BY <1>0 DEF Blocked, Overrun
    <2> QED  BY <1>0, <2>1, TxFirstSent
  <1>2. IsStrictSuffix(Todo', Todo)
    <2>1. TakeFromSource(work.chunk) /\ 0 < work.chunk /\ work.chunk <= work.chunk
      BY <1>0 DEF Overrun
    <2>2. PICK s \in Seq(Symbols) : Todo = s \o Todo' /\ Len(s) = work.chunk
      BY <1>0, <1>1, <2>1, TodoFromSource
    <2>3. s # <<>>
      BY <1>0, <2>2
    <2> QED  BY <1>0, <2>2, <2>3, TypesAfter, SuffixJoined
  <1>3. rx.busy = rx.size /\ rx.busy \in Nat /\ rx.busy > 0
    <2>1. rx.busy \in Nat /\ rx.busy <= rx.size /\ rx.size \in Nat
      BY <1>0, CountFacts
    <2>2. rx.size \in Nat \ {0} /\ rx.busy >= rx.size
      BY <1>0 DEF RingOK, Overrun
    <2> QED  BY <2>1, <2>2
  <1>4. rx' \in {rx, ReplaceLast(rx, "error")}
    BY DEF Overrun
  <1>5. PICK a, b : a = Content(rx) /\ b = Content(rx')
    OBVIOUS
  <1>6. a \in Seq(Symbols) /\ b \in Seq(Symbols) /\ a # <<>> /\ b # <<>>
    <2>1. rx'.busy = rx.busy
      <3>1. ReplaceLast(rx, "error").busy = rx.busy
        BY DEF ReplaceLast
      <3> QED  BY <1>4, <3>1
    <2>2. Len(Content(rx)) = rx.busy /\ Len(Content(rx')) = rx.busy
      BY <1>0, <2>1, ContentFacts
    <2>3. Content(rx) # <<>> /\ Content(rx') # <<>>
      BY <1>3, <2>2
    <2> QED  BY <1>0, <1>5, <2>3, ContentFacts
  <1>7. IsPrefix(Front(b), a)
    <2>1. CASE rx' = rx
      BY <1>5, <1>6, <2>1, FrontPrefix
    <2>2. CASE rx' = ReplaceLast(rx, "error")
      <3>1. "error" \in Symbols
        BY DEF Symbols
      <3> QED  BY <1>0, <1>3, <1>5, <2>2, <3>1, ContentReplace
    <2> QED  BY <1>4, <2>1, <2>2
  <1>8. Pending = a \o insert /\ Pending' = b
    <2>1. b \o <<>> = b
      BY <1>6, JoinedEmpty
    <2> QED  BY <1>0, <1>5, <2>1 DEF Pending
  <1>9. IsPrefix(Front(Pending'), Pending)
    BY <1>0, <1>6, <1>7, <1>8, FrontType, PrefixOn
  <1> QED  BY <1>0, <1>2, <1>9, OverrunStep DEF Overrun

LEMMA TxFillSteps ==
  ASSUME Inv, TypeOK', TxFill
  PROVE  Steps
  <1>0. /\ TypeOK /\ RingOK(tx) /\ work.pc = "txfill" /\ work.chunk > 0 /\ work.chunk \in Nat
        /\ writes # <<>> /\ work.chunk <= Len(Head(writes))
    BY DEF Inv, TypeOK, ChunksFit, TxFill, At
  <1>1. PICK n : /\ n = Least(FreeRun(tx), work.chunk)
                 /\ tx' = Put(tx, Upto(Head(writes), n))
                 /\ TakeFromWrite(n)
    BY DEF TxFill
  <1>2. /\ n \in Nat /\ n <= FreeRun(tx) /\ n <= work.chunk /\ FreeRun(tx) <= tx.size - tx.busy
        /\ tx.busy \in Nat /\ tx.size \in Nat /\ FreeRun(tx) \in Nat
    <2>1. /\ tx.busy \in Nat /\ FreeRun(tx) \in Nat /\ tx.size \in Nat
          /\ tx.busy < tx.size => FreeRun(tx) <= tx.size - tx.busy
      BY <1>0, CountFacts
    <2>2. tx.busy < tx.size
      BY <1>0 DEF TxFill, TypeOK
    <2> QED  BY <1>0, <1>1, <2>1, <2>2, LeastFacts
  <1>3. PICK a, u, g : /\ a = Content(tx) /\ u = Upto(Head(writes), n)
                       /\ g = FlattenSeq(writes')
    OBVIOUS
  <1>4. u \in Seq(Symbols) /\ Len(u) <= n /\ Len(u) \in Nat
    <2>1. writes \in Seq(Seq(Chars))
      BY <1>0 DEF TypeOK
    <2>2. Head(writes) \in Seq(Symbols)
      BY <1>0, <2>1, RowOfWrites
    <2>3. /\ Upto(Head(writes), n) \in Seq(Symbols)
          /\ Len(Upto(Head(writes), n)) = Least(Len(Head(writes)), n)
          /\ Least(Len(Head(writes)), n) <= n /\ Least(Len(Head(writes)), n) \in Nat
      BY <1>2, <2>2, CutFacts
    <2> QED  BY <1>3, <2>3
  <1>5. a \in Seq(Symbols) /\ g \in Seq(Symbols) /\ Content(tx') = a \o u
    <2>1. tx.busy + Len(u) <= tx.size /\ Len(u) <= FreeRun(tx)
      BY <1>2, <1>4
    <2> QED  BY <1>0, <1>1, <1>3, <1>4, <2>1, ContentPut, Types, TypesAfter
  <1>6. FlattenSeq(writes) = u \o g
    BY <1>0, <1>1, <1>2, <1>3, TakenFromWrite
  <1>7. Todo = a \o (u \o g) /\ Todo' = (a \o u) \o g
    BY <1>3, <1>5, <1>6 DEF Todo
  <1>8. (a \o u) \o g = a \o (u \o g)
    BY <1>4, <1>5, Regroup, Zenon
  <1>9. Pending' = Pending /\ out' = out
    BY DEF Pending, TxFill
  <1> QED  BY <1>7, <1>8, <1>9, StutterStep

LEMMA TxFillDoneSteps ==
  ASSUME Inv, TxFillDone
  PROVE  Steps
  <1>1. writes # <<>> /\ UNCHANGED <<rx, insert, tx, out>>
    BY DEF Inv, ChunksFit, TxFillDone, At
  <1>2. CASE Head(writes) = <<>>
    BY <1>1, <1>2, SentWriteSteps DEF TxFillDone
  <1>3. CASE Head(writes) # <<>>
    BY <1>1, <1>3, AsideSteps DEF TxFillDone, Aside
  <1> QED  BY <1>2, <1>3

LEMMA SendingSteps ==
  ASSUME CInv, Inv', Sending
  PROVE  Steps
  <1>0. Inv /\ TypeOK'
    BY DEF CInv, Inv
  <1>1. SendTx \/ DirectEnd \/ Write \/ FillCharsDone \/ FillReturn => Aside
    BY DEF SendTx, DirectEnd, Write, FillCharsDone, FillReturn, Aside
  <1> QED  BY <1>0, <1>1, AsideSteps, DirectCallSteps, DirectCharSteps, DirectDoneSteps,
              FillCallSteps, FillCharSteps, OverrunSteps, TxFillSteps, TxFillDoneSteps
           DEF Sending

\* A piece of a status sequence, or nothing, behind all that was received.
LEMMA Inserted ==
  ASSUME TypeOK, NEW t \in Seq(StatusChars), t \in Seq(Symbols), Todo' = Todo,
         out' \o Pending' = (out \o Pending) \o t, IsPrefix(out, out')
  PROVE  Steps
  <1>1. PICK s : s = out \o Pending
    OBVIOUS
  <1>2. s \in Seq(Symbols)
    BY <1>1, Types
  <1>3. CASE t = <<>>
    <2>1. s \o t = s
      BY <1>2, <1>3, JoinedEmpty
    <2> QED  BY <1>1, <2>1, DeliverStep
  <1>4. CASE t # <<>>
    <2>1. IsStrictPrefix(s, s \o t)
      BY <1>2, <1>4, PrefixJoined
    <2>2. \A i \in DOMAIN (s \o t) \ DOMAIN s : (s \o t)[i] \in StatusChars
      BY <1>2, ItemsBehind
    <2> QED  BY <1>1, <2>1, <2>2, InsertStep
  <1> QED  BY <1>3, <1>4

\* The first items of what is left of a status sequence.
LEMMA RawCut ==
  ASSUME TypeOK, NEW n \in Nat
  PROVE  /\ Upto(work.raw, n) \in Seq(StatusChars)
         /\ Upto(work.raw, n) \in Seq(Symbols)
         /\ Len(Upto(work.raw, n)) <= n /\ Len(Upto(work.raw, n)) \in Nat
         /\ work.raw \in Seq(Symbols)
  <1>1. work.raw \in Seq(StatusChars)
    BY DEF TypeOK
  <1>2. /\ Upto(work.raw, n) \in Seq(StatusChars)
        /\ Len(Upto(work.raw, n)) = Least(Len(work.raw), n)
        /\ Least(Len(work.raw), n) <= n /\ Least(Len(work.raw), n) \in Nat
    BY <1>1, CutFacts
  <1>3. StatusChars \subseteq Symbols
    BY DEF Symbols
  <1> QED  BY <1>1, <1>2, <1>3, SeqMonotonic

LEMMA InsertDirectSteps ==
  ASSUME Steady, CInv, InsertDirect
  PROVE  Steps
  <1>0. Inv /\ TypeOK /\ work.pc = "insread" /\ RingOK(rx) /\ out \in Seq(Symbols)
    BY DEF CInv, Inv, TypeOK, InsertDirect, At
  <1>1. CASE reads = <<>>
    BY <1>1, AsideSteps DEF InsertDirect, Aside
  <1>2. CASE reads # <<>>
    <2>1. Left \in Nat
      BY <1>0, <1>2, RoomFacts
    <2>2. PICK t : t = Upto(work.raw, Left)
      OBVIOUS
    <2>3. t \in Seq(StatusChars) /\ t \in Seq(Symbols)
      BY <1>0, <2>1, <2>2, RawCut
    <2>4. rx.busy = 0 /\ insert = <<>>
      <3>1. RawSequences # {}
        BY <1>0 DEF CInv, Course, ReadFirst
      <3>2. Unsplit
        BY <3>1 DEF Steady
      <3> QED  BY <1>0, <1>2, <3>2 DEF CInv, Course, ReadFirst
    <2>5. Content(rx) = <<>>
      BY <1>0, <2>4, ContentEmpty
    <2>6. Pending = <<>> /\ Pending' = <<>>
      <3>1. <<>> \o <<>> = <<>>
        OBVIOUS
      <3> QED  BY <2>4, <2>5, <3>1 DEF Pending, InsertDirect
    <2>7. out' = out \o t /\ Todo' = Todo
      BY <1>2, <2>2 DEF InsertDirect, Todo
    <2>8. out' \o Pending' = (out \o Pending) \o t
      <3>1. out \o <<>> = out /\ (out \o t) \o <<>> = out \o t
        BY <1>0, <2>3, JoinedEmpty, JoinedTypes
      <3> QED  BY <2>6, <2>7, <3>1
    <2>9. IsPrefix(out, out')
      BY <1>0, <2>3, <2>7, PrefixJoined
    <2> QED  BY <1>0, <2>3, <2>7, <2>8, <2>9, Inserted
  <1> QED  BY <1>1, <1>2

LEMMA InsertToRingSteps ==
  ASSUME Inv, InsertToRing
  PROVE  Steps
  <1>0. /\ TypeOK /\ RingOK(rx) /\ insert \in Seq(Symbols) /\ out \in Seq(Symbols)
        /\ Len(insert) \in Nat
    BY DEF Inv, TypeOK
  <1>1. PICK room, rest :
          /\ room = FreeRun(rx) /\ rest = room - Least(Len(insert), room)
          /\ rx' = Put(rx, Upto(insert, room) \o Upto(work.raw, rest))
          /\ insert' = From(insert, room)
    BY DEF InsertToRing
  <1>2. /\ room \in Nat /\ room <= rx.size - rx.busy /\ rx.size \in Nat /\ rx.busy \in Nat
    BY <1>0, <1>1, CountFacts DEF InsertToRing
  <1>3. PICK u, f, t : u = Upto(insert, room) /\ f = From(insert, room) /\ t = Upto(work.raw, rest)
    OBVIOUS
  <1>4. /\ u \in Seq(Symbols) /\ f \in Seq(Symbols) /\ insert = u \o f
        /\ Len(u) \in Nat /\ Len(u) + rest = room /\ rest \in Nat
    <2>1. /\ Upto(insert, room) \in Seq(Symbols) /\ From(insert, room) \in Seq(Symbols)
          /\ Len(Upto(insert, room)) = Least(Len(insert), room)
          /\ Least(Len(insert), room) \in Nat /\ Least(Len(insert), room) <= room
      BY <1>0, <1>2, CutFacts
    <2>2. insert = Upto(insert, room) \o From(insert, room)
      BY <1>0, <1>2, CutJoined
    <2>3. PICK k : k = Least(Len(insert), room)
      OBVIOUS
    <2>4. k \in Nat /\ k <= room /\ rest = room - k /\ Len(u) = k
      BY <1>1, <1>3, <2>1, <2>3
    <2>5. k + rest = room /\ rest \in Nat
      BY <1>2, <2>4
    <2> QED  BY <1>3, <2>1, <2>2, <2>4, <2>5
  <1>5. /\ t \in Seq(StatusChars) /\ t \in Seq(Symbols) /\ Len(t) <= rest /\ Len(t) \in Nat
    BY <1>0, <1>3, <1>4, RawCut
  <1>6. t = <<>> \/ f = <<>>
    <2>1. CASE rest = 0
      <3>1. Len(t) = 0
        BY <1>5, <2>1
      <3> QED  BY <1>5, <3>1
    <2>2. CASE rest # 0
      <3>1. room - Least(Len(insert), room) > 0
        BY <1>1, <1>4, <2>2
      <3> QED  BY <1>0, <1>2, <1>3, <3>1, NothingLeft
    <2> QED  BY <2>1, <2>2
  <1>7. PICK a : a = Content(rx)
    OBVIOUS
  <1>8. a \in Seq(Symbols) /\ Content(rx') = a \o (u \o t)
    <2>1. u \o t \in Seq(Symbols) /\ Len(u \o t) = Len(u) + Len(t)
      BY <1>4, <1>5, ConcatProperties
    <2>2. rx.busy + Len(u \o t) <= rx.size /\ Len(u \o t) <= FreeRun(rx)
      BY <1>1, <1>2, <1>4, <1>5, <2>1
    <2> QED  BY <1>0, <1>1, <1>3, <1>7, <2>1, <2>2, ContentPut, ContentFacts
  <1>9. Pending = a \o (u \o f) /\ Pending' = (a \o (u \o t)) \o f
    BY <1>1, <1>3, <1>4, <1>7, <1>8 DEF Pending
  <1>10. Pending' = Pending \o t
    <2>1. (a \o (u \o t)) \o f = (a \o (u \o f)) \o t
      <3>1. CASE t = <<>>
        <4>1. u \o t = u /\ (a \o (u \o f)) \o t = a \o (u \o f)
          BY <1>4, <1>8, <3>1, JoinedEmpty, JoinedTypes
        <4>2. (a \o u) \o f = a \o (u \o f)
          BY <1>4, <1>8, Regroup, Zenon
        <4> QED  BY <4>1, <4>2
      <3>2. CASE f = <<>>
        <4>1. u \o f = u /\ (a \o (u \o t)) \o f = a \o (u \o t)
          BY <1>4, <1>5, <1>8, <3>2, JoinedEmpty, JoinedTypes
        <4>2. (a \o u) \o t = a \o (u \o t)
          BY <1>4, <1>5, <1>8, Regroup, Zenon
        <4> QED  BY <4>1, <4>2
      <3> QED  BY <1>6, <3>1, <3>2
    <2> QED  BY <1>9, <2>1
  <1>11. out' = out /\ Todo' = Todo
    BY DEF InsertToRing, Todo
  <1>12. out' \o Pending' = (out \o Pending) \o t
    <2>1. PICK p : p = Pending
      OBVIOUS
    <2>2. p \in Seq(Symbols)
      BY <1>0, <2>1, Types
    <2>3. out \o (p \o t) = (out \o p) \o t
      BY <1>0, <1>5, <2>2, Regroup, Zenon
    <2> QED  BY <1>10, <1>11, <2>1, <2>3
  <1> QED  BY <1>0, <1>5, <1>11, <1>12, Inserted, PrefixItself

LEMMA InsertRestSteps ==
  ASSUME Inv, InsertRest
  PROVE  Steps
  <1>0. /\ TypeOK /\ insert \in Seq(Symbols) /\ out \in Seq(Symbols)
        /\ InsertSize - Len(insert) \in Nat
    <2>1. insert \in Seq(Symbols) /\ Len(insert) <= InsertSize
      BY DEF Inv, TypeOK
    <2> QED  BY <2>1, SizesAssumption DEF Inv, TypeOK
  <1>1. PICK t : t = IF EmuOverrun THEN <<>> ELSE Upto(work.raw, InsertSize - Len(insert))
    OBVIOUS
  <1>2. t \in Seq(StatusChars) /\ t \in Seq(Symbols)
    BY <1>0, <1>1, RawCut
  <1>3. insert' = insert \o t
    <2>1. insert \o <<>> = insert
      BY <1>0, JoinedEmpty
    <2> QED  BY <1>1, <2>1 DEF InsertRest
  <1>4. PICK a, i, p : a = Content(rx) /\ i = insert /\ p = Pending
    OBVIOUS
  <1>5. a \in Seq(Symbols) /\ i \in Seq(Symbols) /\ p \in Seq(Symbols)
    BY <1>0, <1>4, Types
  <1>6. Pending' = a \o (i \o t) /\ p = a \o i
    BY <1>3, <1>4 DEF Pending, InsertRest
  <1>7. (a \o i) \o t = a \o (i \o t)
    BY <1>2, <1>5, Regroup, Zenon
  <1>8. out \o (p \o t) = (out \o p) \o t
    BY <1>0, <1>2, <1>5, Regroup, Zenon
  <1>9. out' = out /\ Todo' = Todo
    BY DEF InsertRest, Todo
  <1>10. out' \o Pending' = (out \o Pending) \o t
    BY <1>4, <1>6, <1>7, <1>8, <1>9
  <1> QED  BY <1>0, <1>2, <1>9, <1>10, Inserted, PrefixItself

LEMMA InsertingSteps ==
  ASSUME Steady, CInv, Inserting
  PROVE  Steps
  BY InsertDirectSteps, InsertToRingSteps, InsertRestSteps DEF Inserting, CInv

LEMMA NextSteps ==
  ASSUME Steady, CInv, Inv', Next
  PROVE  Steps
  BY CallsSteps, ReadingSteps, SendingSteps, InsertingSteps DEF Next, CInv

-----------------------------------------------------------------------------
(* What the course of a pass asks for at each place *)

Short(w) == \A k \in DOMAIN w : Len(w[k]) <= Unlimited
NothingHeld == rx.busy = 0 /\ insert = <<>>
Waiting == Unsplit /\ reads # <<>>

LEMMA CourseRead ==
  ASSUME Short(writes'), work'.pc = "read"
  PROVE  Course'
  BY DEF Short, Course, RingFirst, TxFirst, WriteFirst, ReadFirst, Filling, At

LEMMA CourseIdle ==
  ASSUME Short(writes'), work'.pc = "idle", Waiting' => NothingHeld'
  PROVE  Course'
  BY DEF Short, Course, RingFirst, TxFirst, WriteFirst, ReadFirst, Filling, At, Waiting, NothingHeld

LEMMA CourseTxRead ==
  ASSUME Short(writes'), work'.pc = "txread", rx'.busy = 0,
         Waiting' /\ (Left' > 0 \/ MaxReads > 1) => insert' = <<>>
  PROVE  Course'
  BY DEF Short, Course, RingFirst, TxFirst, WriteFirst, ReadFirst, Filling, At, Waiting

LEMMA CourseTxCopy ==
  ASSUME Short(writes'), work'.pc = "txcopy", rx'.busy = 0,
         Left' > 0 => insert' = <<>>,
         work'.moved = 0 => Left' > 0 /\ (work'.chunk = 0 => Sent'),
         Waiting' /\ MaxReads > 1 => insert' = <<>>
  PROVE  Course'
  BY DEF Short, Course, RingFirst, TxFirst, WriteFirst, ReadFirst, Filling, At, Waiting

LEMMA CourseSendTx ==
  ASSUME Short(writes'), work'.pc = "sendtx", reads' = <<>>
  PROVE  Course'
  BY DEF Short, Course, RingFirst, TxFirst, WriteFirst, ReadFirst, Filling, At

LEMMA CourseDirect ==
  ASSUME Short(writes'), work'.pc = "direct", reads' # <<>> => rx'.busy = 0 /\ Sent',
         Sent' \/ Blocked',
         Waiting' /\ (Left' > 0 \/ MaxReads > 1) => insert' = <<>>
  PROVE  Course'
  BY DEF Short, Course, RingFirst, TxFirst, WriteFirst, ReadFirst, Filling, At, Waiting

LEMMA CourseDirectCopy ==
  ASSUME Short(writes'), work'.pc = "dcopy", rx'.busy = 0, Left' > 0 => insert' = <<>>,
         Sent', Waiting' /\ MaxReads > 1 => insert' = <<>>
  PROVE  Course'
  BY DEF Short, Course, RingFirst, TxFirst, WriteFirst, ReadFirst, Filling, At, Waiting

LEMMA CourseWrite ==
  ASSUME Short(writes'), work'.pc = "write", Sent' \/ Blocked',
         Waiting' => NothingHeld' /\ (writes' = <<>> \/ work'.budget = 0 \/ work'.hold)
  PROVE  Course'
  BY DEF Short, Course, RingFirst, TxFirst, WriteFirst, ReadFirst, Filling, At, Waiting, NothingHeld

LEMMA CourseFillTx ==
  ASSUME Short(writes'), work'.pc \in {"fill", "fillcopy"}, work'.src = "tx", reads' = <<>>,
         work'.pc = "fillcopy" /\ work'.room > 0 => insert' = <<>>,
         work'.moved = 0 => work'.chunk > 0
  PROVE  Course'
  BY DEF Short, Course, RingFirst, TxFirst, WriteFirst, ReadFirst, Filling, At

LEMMA CourseFillWrite ==
  ASSUME Short(writes'), work'.pc \in {"fill", "fillcopy"}, work'.src = "write",
         work'.pc = "fillcopy" /\ work'.room > 0 => insert' = <<>>,
         Sent' \/ Blocked',
         work'.chunk < Len(Head(writes')) =>
           work'.budget = work'.chunk /\ work'.budget < Unlimited,
         Waiting' => NothingHeld' /\ work'.budget = 0
  PROVE  Course'
  BY DEF Short, Course, RingFirst, TxFirst, WriteFirst, ReadFirst, Filling, At, Waiting, NothingHeld

LEMMA CourseTxFill ==
  ASSUME Short(writes'), work'.pc = "txfill",
         work'.budget = 0 \/ Blocked' \/ (tx'.busy = 0 /\ work'.chunk = 0),
         Waiting' => NothingHeld' /\ work'.budget = 0
  PROVE  Course'
  BY DEF Short, Course, RingFirst, TxFirst, WriteFirst, ReadFirst, Filling, At, Waiting, NothingHeld

LEMMA CourseInsert ==
  ASSUME Short(writes'), work'.pc \in {"insread", "insring"}, RawSequences # {},
         Waiting' => NothingHeld' /\ (work'.pc = "insring" => work'.raw = <<>>)
  PROVE  Course'
  BY DEF Short, Course, RingFirst, TxFirst, WriteFirst, ReadFirst, Filling, At, Waiting, NothingHeld

-----------------------------------------------------------------------------
(* The WRITEs stay short, and what a place keeps *)

LEMMA ShortNow ==
  ASSUME CInv
  PROVE  Short(writes)
  BY DEF CInv, Course, WriteFirst, Short

LEMMA ShortTail ==
  ASSUME NEW w \in Seq(Seq(Chars)), w # <<>>, Short(w)
  PROVE  Short(Tail(w))
  <1>1. /\ Tail(w) \in Seq(Seq(Chars)) /\ Len(Tail(w)) = Len(w) - 1 /\ Len(w) \in Nat
        /\ \A i \in 1 .. Len(Tail(w)) : Tail(w)[i] = w[i + 1]
    BY HeadTailProperties
  <1>2. ASSUME NEW k \in DOMAIN Tail(w) PROVE Len(Tail(w)[k]) <= Unlimited
    <2>1. k \in 1 .. Len(Tail(w)) /\ k + 1 \in DOMAIN w
      BY <1>1
    <2> QED  BY <1>1, <2>1 DEF Short
  <1> QED  BY <1>2 DEF Short

LEMMA ShortAppend ==
  ASSUME NEW w \in Seq(Seq(Chars)), NEW s \in WriteInputs, Short(w)
  PROVE  Short(Append(w, s))
  <1>1. s \in Seq(Chars) /\ Len(s) <= Unlimited
    BY InputsAssumption
  <1>2. PICK v : v = Append(w, s)
    OBVIOUS
  <1>3. /\ v \in Seq(Seq(Chars)) /\ Len(v) = Len(w) + 1 /\ Len(w) \in Nat
        /\ \A i \in 1 .. Len(w) : v[i] = w[i]
        /\ v[Len(w) + 1] = s
    BY <1>1, <1>2, AppendProperties
  <1>4. ASSUME NEW k \in DOMAIN v PROVE Len(v[k]) <= Unlimited
    <2>1. k \in 1 .. Len(w) \/ k = Len(w) + 1
      BY <1>3
    <2>2. CASE k \in 1 .. Len(w)
      BY <1>3, <2>2 DEF Short
    <2>3. CASE k = Len(w) + 1
      BY <1>1, <1>3, <2>3
    <2> QED  BY <2>1, <2>2, <2>3
  <1> QED  BY <1>2, <1>4 DEF Short

LEMMA ShortCut ==
  ASSUME TypeOK, writes # <<>>, NEW n \in Nat, TakeFromWrite(n), Short(writes)
  PROVE  Short(writes')
  <1>1. writes \in Seq(Seq(Chars)) /\ 1 \in DOMAIN writes /\ writes[1] \in Seq(Chars)
    BY DEF TypeOK
  <1>2. /\ From(writes[1], n) \in Seq(Chars)
        /\ Len(From(writes[1], n)) = Len(writes[1]) - Least(Len(writes[1]), n)
        /\ Least(Len(writes[1]), n) \in Nat
    BY <1>1, CutFacts
  <1>3. Len(From(writes[1], n)) <= Unlimited
    <2>1. Len(writes[1]) <= Unlimited /\ Len(writes[1]) \in Nat /\ Unlimited \in Nat
      BY <1>1, InputsAssumption DEF Short
    <2> QED  BY <1>2, <2>1
  <1>4. writes' = [writes EXCEPT ![1] = From(writes[1], n)]
    BY DEF TakeFromWrite
  <1>5. ASSUME NEW k \in DOMAIN writes' PROVE Len(writes'[k]) <= Unlimited
    <2>1. k \in DOMAIN writes /\ writes'[k] = IF k = 1 THEN From(writes[1], n) ELSE writes[k]
      BY <1>1, <1>4
    <2> QED  BY <1>3, <2>1 DEF Short
  <1> QED  BY <1>5 DEF Short

LEMMA GotoKeeps ==
  ASSUME NEW pc \in Labels, work \in Works, Goto(pc)
  PROVE  /\ work'.pc = pc /\ work'.budget = work.budget /\ work'.src = work.src
         /\ work'.hold = work.hold /\ work'.raw = work.raw
         /\ work'.chunk = 0 /\ work'.moved = 0
  BY DEF Goto, Works

\* The room in a READ shrinks by what is put there.
LEMMA LeftAfter ==
  ASSUME Inv, reads # <<>>, reads' = reads, NEW s \in Seq(Symbols), out' = out \o Upto(s, Left)
  PROVE  /\ Left' = Left - Least(Len(s), Left) /\ Left \in Nat /\ Left' \in Nat
         /\ Len(out') = Len(out) + Least(Len(s), Left) /\ Len(out) \in Nat
         /\ Least(Len(s), Left) \in Nat
         /\ Left' > 0 => From(s, Left) = <<>>
  <1>1. /\ Left \in Nat /\ Left = Head(reads) - Len(out) /\ Len(out) \in Nat
        /\ Head(reads) \in Nat
    BY RoomFacts
  <1>2. out \in Seq(Symbols)
    BY DEF Inv, TypeOK
  <1>3. PICK l, u : l = Least(Len(s), Left) /\ u = Upto(s, Left)
    OBVIOUS
  <1>4. u \in Seq(Symbols) /\ Len(u) = l /\ l \in Nat /\ l <= Left
    BY <1>1, <1>3, CutFacts
  <1>5. Len(out \o u) = Len(out) + l
    BY <1>2, <1>4, ConcatProperties
  <1>6. Left' = Head(reads) - (Len(out) + l)
    BY <1>3, <1>5 DEF Left
  <1>7. Left' = Left - l /\ Left' \in Nat
    BY <1>1, <1>4, <1>6
  <1>8. Left' > 0 => From(s, Left) = <<>>
    BY <1>1, <1>3, <1>7, NothingLeft
  <1> QED  BY <1>1, <1>3, <1>4, <1>5, <1>7, <1>8

-----------------------------------------------------------------------------
(* Calls of the driver *)

\* Between the passes a READ that waits has been given everything.
LEMMA IdleNow ==
  ASSUME CInv, At("idle")
  PROVE  Waiting => NothingHeld
  BY DEF CInv, Course, ReadFirst, Waiting, NothingHeld, At

LEMMA CourseAfterCall ==
  ASSUME Short(writes'), At("idle"), MayStartPass, Waiting' => NothingHeld'
  PROVE  Course'
  <1>1. CASE StartPass
    BY <1>1, StartPassFacts, CourseRead
  <1>2. CASE UNCHANGED work
    BY <1>2, CourseIdle DEF At
  <1> QED  BY <1>1, <1>2 DEF MayStartPass

LEMMA CallsCourse ==
  ASSUME CInv, Inv', Calls
  PROVE  Course'
  <1>0. Inv /\ TypeOK /\ Short(writes) /\ writes \in Seq(Seq(Chars))
    BY ShortNow DEF CInv, Inv, TypeOK
  <1>1. CASE StartRead
    <2>1. CASE reads = <<>>
      BY <1>0, <1>1, <2>1, StartPassFacts, CourseRead DEF StartRead
    <2>2. CASE reads # <<>>
      <3>1. Waiting' => NothingHeld'
        BY <1>1, <2>2, IdleNow DEF StartRead, Waiting, NothingHeld
      <3> QED  BY <1>0, <1>1, <2>2, <3>1, CourseAfterCall DEF StartRead, MayStartPass
    <2> QED  BY <2>1, <2>2
  <1>2. CASE StartWrite
    <2>1. Short(writes')
      BY <1>0, <1>2, ShortAppend DEF StartWrite
    <2>2. Waiting' => NothingHeld'
      BY <1>2, IdleNow DEF StartWrite, Waiting, NothingHeld
    <2>3. At("idle") /\ MayStartPass
      BY <1>2 DEF StartWrite, MayStartPass
    <2> QED  BY <2>1, <2>2, <2>3, CourseAfterCall
  <1>3. CASE Tick
    BY <1>0, <1>3, StartPassFacts, CourseRead DEF Tick
  <1>4. CASE PurgeRx
    <2>1. rx'.busy = 0 /\ insert' = <<>>
      BY <1>4 DEF PurgeRx, Ring
    <2> QED  BY <1>0, <1>4, <2>1, CourseAfterCall DEF PurgeRx, NothingHeld
  <1>5. CASE SetHandFlow
    <2>1. Waiting' => NothingHeld'
      BY <1>5, IdleNow DEF SetHandFlow, Waiting, NothingHeld
    <2> QED  BY <1>0, <1>5, <2>1, CourseAfterCall DEF SetHandFlow
  <1>6. CASE SetQueueSize
    <2>1. rx'.busy = rx.busy
      <3>1. PICK n \in Sizes : rx' = Put(Ring(n), Content(rx))
        BY <1>6 DEF SetQueueSize
      <3>2. Ring(n).busy = 0 /\ RingOK(rx)
        BY <1>0 DEF Ring, TypeOK
      <3>3. Len(Content(rx)) = rx.busy /\ rx.busy \in Nat
        BY <3>2, ContentFacts, CountFacts
      <3>4. rx'.busy = Ring(n).busy + Len(Content(rx))
        BY <3>1 DEF Put, Ring
      <3> QED  BY <3>2, <3>3, <3>4
    <2>2. Waiting' => NothingHeld'
      BY <1>6, <2>1, IdleNow DEF SetQueueSize, Waiting, NothingHeld
    <2> QED  BY <1>0, <1>6, <2>2, CourseAfterCall DEF SetQueueSize
  <1>7. CASE StartInsert
    <2>1. RawSequences # {} /\ work'.pc = "insread" /\ UNCHANGED <<rx, insert, writes, reads>>
      BY <1>7 DEF StartInsert, Idle
    <2>2. Waiting' => NothingHeld'
      BY <1>7, <2>1, IdleNow DEF StartInsert, Waiting, NothingHeld
    <2>3. work'.pc # "insring" /\ Short(writes')
      BY <1>0, <2>1
    <2> QED  BY <2>1, <2>2, <2>3, CourseInsert
  <1> QED  BY <1>1, <1>2, <1>3, <1>4, <1>5, <1>6, <1>7 DEF Calls

-----------------------------------------------------------------------------
(* RX buffer and TX buffer to the READs *)

\* A character becomes something, and under Unsplit nothing of it is left behind when more
\* than one READ may wait.
LEMMA SteadyFacts ==
  ASSUME Steady, NEW c \in Symbols
  PROVE  /\ Received(c) # <<>>
         /\ MaxReads > 1 /\ Unsplit => Len(Received(c)) <= 1
  <1>1. CASE c \in Chars
    <2>1. MaxReads \in Nat
      BY InputsAssumption
    <2> QED  BY <1>1, <2>1 DEF Steady, Unsplit
  <1>2. CASE c \notin Chars
    <2>1. c \notin Damaged /\ c \notin Stripped /\ c \notin Escaped
      BY <1>2, SettingsAssumption
    <2>2. Received(c) = <<c>>
      BY <2>1 DEF Received, Data
    <2> QED  BY <2>2
  <1> QED  BY <1>1, <1>2

\* After a character nothing is held if there is room left in the READ, or under Unsplit.
LEMMA CharToReadCourse ==
  ASSUME Steady, Inv, reads # <<>>, reads' = reads, Left > 0, insert = <<>>,
         NEW c \in Symbols, CharToRead(c)
  PROVE  /\ Left' > 0 => insert' = <<>>
         /\ Waiting' /\ MaxReads > 1 => insert' = <<>>
         /\ Len(out') - Len(out) \in Nat /\ Len(out') - Len(out) > 0
  <1>1. Left \in Nat
    BY RoomFacts
  <1>2. PICK r, f : r = Received(c) /\ f = From(r, Left)
    OBVIOUS
  <1>3. r \in Seq(Symbols) /\ Upto(<<>> \o f, InsertSize) = f /\ out' = out \o Upto(r, Left)
    BY <1>1, <1>2, RestKept DEF CharToRead
  <1>4. insert' = f
    BY <1>2, <1>3 DEF CharToRead
  <1>5. /\ Len(out') = Len(out) + Least(Len(r), Left) /\ Len(out) \in Nat
        /\ Least(Len(r), Left) \in Nat
        /\ Left' > 0 => From(r, Left) = <<>>
    BY <1>3, LeftAfter
  <1>6. Len(r) \in Nat /\ Len(r) > 0
    <2>1. r # <<>>
      BY <1>2, SteadyFacts
    <2> QED  BY <1>3, <2>1
  <1>7. Least(Len(r), Left) > 0
    BY <1>1, <1>6 DEF Least
  <1>8. ASSUME Waiting', MaxReads > 1 PROVE f = <<>>
    <2>1. Len(r) <= 1
      BY <1>2, <1>8, SteadyFacts DEF Waiting
    <2>2. Len(r) <= Left
      BY <1>1, <1>6, <2>1
    <2> QED  BY <1>1, <1>2, <1>3, <2>2, CutBehind
  <1> QED  BY <1>2, <1>4, <1>5, <1>7, <1>8

\* insertData into a READ: nothing is held if there is room left, and none appears.
LEMMA InsertToReadCourse ==
  ASSUME Inv, reads # <<>>, reads' = reads, InsertToRead
  PROVE  /\ Left' > 0 => insert' = <<>>
         /\ insert = <<>> => insert' = <<>>
         /\ Left' = Left - Least(Len(insert), Left) /\ Left \in Nat
  <1>1. insert \in Seq(Symbols) /\ Left \in Nat
    BY RoomFacts DEF Inv, TypeOK
  <1>2. Left' > 0 => From(insert, Left) = <<>>
    BY <1>1, LeftAfter DEF InsertToRead
  <1>3. Left' = Left - Least(Len(insert), Left)
    BY <1>1, LeftAfter DEF InsertToRead
  <1>4. From(<<>>, Left) = <<>>
    BY <1>1, EmptyCut
  <1> QED  BY <1>1, <1>2, <1>3, <1>4 DEF InsertToRead

LEMMA CompleteReadCourse ==
  ASSUME CInv, Inv', CompleteRead
  PROVE  Course'
  <1>0. /\ Inv /\ TypeOK /\ work \in Works /\ Short(writes') /\ reads # <<>> /\ reads' = Tail(reads)
        /\ UNCHANGED <<rx, insert, tx, limit>>
    BY ShortNow DEF CInv, Inv, TypeOK, Works, CompleteRead
  <1>1. Waiting' => Waiting /\ MaxReads > 1
    <2>1. reads \in Seq(ReadLengths) /\ Len(reads) <= MaxReads /\ MaxReads \in Nat
      BY <1>0, InputsAssumption DEF TypeOK
    <2>2. ASSUME reads' # <<>> PROVE MaxReads > 1
      <3>1. Len(Tail(reads)) = Len(reads) - 1 /\ Tail(reads) \in Seq(ReadLengths)
        BY <1>0, <2>1
      <3>2. Len(Tail(reads)) # 0
        BY <1>0, <2>2, <3>1
      <3> QED  BY <2>1, <3>1, <3>2
    <2> QED  BY <1>0, <2>2 DEF Waiting
  <1>2. CASE work.pc \in {"read", "txread"}
    <2>1. Goto("read")
      BY <1>2 DEF CompleteRead, At
    <2>2. work'.pc = "read"
      BY <1>0, <2>1, GotoKeeps DEF Labels
    <2> QED  BY <1>0, <2>2, CourseRead
  <1>3. CASE work.pc = "direct"
    <2>1. Goto("direct")
      BY <1>3 DEF CompleteRead, At
    <2>2. work'.pc = "direct" /\ work'.budget = work.budget
      BY <1>0, <2>1, GotoKeeps DEF Labels
    <2>3. rx.busy = 0 /\ Sent
      BY <1>0, <1>3 DEF CInv, Course, RingFirst, TxFirst, At
    <2>4. Sent' /\ rx'.busy = 0
      BY <1>0, <2>2, <2>3 DEF Sent
    <2>5. Waiting' => insert' = <<>>
      BY <1>0, <1>1, <1>3 DEF CInv, Course, ReadFirst, Waiting
    <2> QED  BY <1>0, <2>2, <2>4, <2>5, CourseDirect
  <1>4. CASE work.pc = "insread"
    <2>1. Goto("insread")
      BY <1>4 DEF CompleteRead, At
    <2>2. work'.pc = "insread" /\ RawSequences # {}
      BY <1>0, <1>4, <2>1, GotoKeeps DEF Labels, CInv, Course, ReadFirst
    <2>3. Waiting' => NothingHeld'
      BY <1>0, <1>1, <1>4 DEF CInv, Course, ReadFirst, Waiting, NothingHeld
    <2> QED  BY <1>0, <2>2, <2>3, CourseInsert
  <1> QED  BY <1>2, <1>3, <1>4 DEF CompleteRead

LEMMA TxReadCallCourse ==
  ASSUME CInv, Inv', TxReadCall
  PROVE  Course'
  <1>0. /\ Inv /\ TypeOK /\ work \in Works /\ Short(writes') /\ reads # <<>> /\ RingOK(tx)
        /\ UNCHANGED <<rx, tx, reads, writes>> /\ work.pc = "txread" /\ Left > 0 /\ InsertToRead
    BY ShortNow DEF CInv, Inv, TypeOK, ChunksFit, Works, TxReadCall, At
  <1>1. rx'.busy = 0
    BY <1>0 DEF CInv, Course, RingFirst
  <1>2. /\ Left' > 0 => insert' = <<>>
        /\ insert = <<>> => insert' = <<>>
        /\ Left' = Left - Least(Len(insert), Left) /\ Left \in Nat
    BY <1>0, InsertToReadCourse
  <1>3. Waiting' => insert' = <<>>
    BY <1>0, <1>2 DEF CInv, Course, ReadFirst, Waiting
  <1>4. PICK moved, chunk :
          /\ moved = Least(Len(insert), Left)
          /\ chunk = IF tx.busy = 0 THEN 0 ELSE Least(FilledRun(tx), work.budget)
    OBVIOUS
  <1>5. work' = [work EXCEPT !.pc = "txcopy", !.moved = moved, !.chunk = chunk]
    BY <1>4 DEF TxReadCall
  <1>6. /\ work'.pc = "txcopy" /\ work'.moved = moved /\ work'.chunk = chunk
        /\ work'.budget = work.budget
    BY <1>0, <1>5 DEF Works
  <1>7. moved = 0 => Left' > 0
    BY <1>0, <1>2, <1>4
  <1>8. chunk = 0 => tx.busy = 0 \/ work.budget = 0
    <2>1. tx.busy \in Nat /\ FilledRun(tx) \in Nat /\ work.budget \in Nat
      BY <1>0, CountFacts DEF Works
    <2>2. tx.busy # 0 => FilledRun(tx) > 0
      BY <1>0, <2>1, FirstFacts
    <2> QED  BY <1>4, <2>1, <2>2 DEF Least
  <1>9. work'.moved = 0 => Left' > 0 /\ (work'.chunk = 0 => Sent')
    BY <1>0, <1>6, <1>7, <1>8 DEF Sent
  <1> QED  BY <1>0, <1>1, <1>2, <1>3, <1>6, <1>9, CourseTxCopy

LEMMA TxReadCharCourse ==
  ASSUME Steady, CInv, Inv', TxReadChar
  PROVE  Course'
  <1>0. /\ Inv /\ work \in Works /\ Short(writes') /\ RingOK(tx) /\ work.pc = "txcopy"
        /\ UNCHANGED <<rx, reads, writes>> /\ work.chunk > 0 /\ Left > 0
    BY ShortNow DEF CInv, Inv, TypeOK, Works, TxReadChar, At
  <1>1. reads # <<>> /\ rx.busy = 0 /\ insert = <<>> /\ rx' = rx
    BY <1>0 DEF CInv, Inv, ChunksFit, Course, RingFirst
  <1>2. tx.mem[tx.busyAt] \in Symbols
    <2>1. tx.busy \in Nat /\ work.chunk \in Nat
      BY <1>0, CountFacts DEF Works
    <2>2. work.chunk <= (IF tx.busy = 0 THEN 0 ELSE FilledRun(tx))
      BY <1>0 DEF Inv, ChunksFit, At
    <2>3. tx.busy > 0
      BY <1>0, <2>1, <2>2
    <2> QED  BY <1>0, <2>3, FirstFacts
  <1>3. CharToRead(tx.mem[tx.busyAt])
    BY DEF TxReadChar
  <1>4. /\ Left' > 0 => insert' = <<>>
        /\ Waiting' /\ MaxReads > 1 => insert' = <<>>
        /\ Len(out') - Len(out) \in Nat /\ Len(out') - Len(out) > 0
    BY <1>0, <1>1, <1>2, <1>3, CharToReadCourse
  <1>5. PICK d, b : d = Len(out') - Len(out) /\ b = Spend(work.budget, 1)
    OBVIOUS
  <1>6. work' = [work EXCEPT !.chunk = work.chunk - 1, !.budget = b, !.moved = work.moved + d]
    <2>1. work.moved + d = work.moved + Len(out') - Len(out)
      <3>1. out' \in Seq(Symbols) /\ out \in Seq(Symbols)
        BY <1>0 DEF Inv, TypeOK
      <3>2. work.moved \in Nat
        BY <1>0 DEF Works
      <3>3. Len(out') \in Nat /\ Len(out) \in Nat
        BY <3>1
      <3> QED  BY <1>5, <3>2, <3>3
    <2> QED  BY <1>5, <2>1 DEF TxReadChar
  <1>7. work'.pc = "txcopy" /\ work'.moved = work.moved + d
    BY <1>0, <1>6 DEF Works
  <1>8. work'.moved # 0
    <2>1. work.moved \in Nat /\ d \in Nat /\ d > 0
      BY <1>0, <1>4, <1>5 DEF Works
    <2> QED  BY <1>7, <2>1
  <1> QED  BY <1>0, <1>1, <1>4, <1>7, <1>8, CourseTxCopy

LEMMA TxReadDoneCourse ==
  ASSUME CInv, Inv', TxReadDone
  PROVE  Course'
  <1>0. /\ Inv /\ work \in Works /\ Short(writes') /\ work.pc = "txcopy"
        /\ UNCHANGED <<rx, insert, tx, reads, writes, out>> /\ (work.chunk = 0 \/ Left = 0)
    BY ShortNow DEF CInv, Inv, TypeOK, Works, TxReadDone, At
  <1>1. rx'.busy = 0 /\ Left' = Left
    BY <1>0 DEF CInv, Course, RingFirst, Left
  <1>2. Waiting' /\ (Left' > 0 \/ MaxReads > 1) => insert' = <<>>
    BY <1>0, <1>1 DEF CInv, Course, ReadFirst, Waiting
  <1>3. CASE work.moved = 0
    <2>1. Goto("direct")
      BY <1>3 DEF TxReadDone
    <2>2. work'.pc = "direct" /\ work'.budget = work.budget
      BY <1>0, <2>1, GotoKeeps DEF Labels
    <2>3. Left > 0 /\ (work.chunk = 0 => Sent)
      BY <1>0, <1>3 DEF CInv, Course, TxFirst, At
    <2>4. Sent
      BY <1>0, <2>3
    <2>5. Sent'
      BY <1>0, <2>2, <2>4 DEF Sent
    <2> QED  BY <1>0, <1>1, <1>2, <2>2, <2>5, CourseDirect
  <1>4. CASE work.moved # 0
    <2>1. Goto("txread")
      BY <1>4 DEF TxReadDone
    <2>2. work'.pc = "txread"
      BY <1>0, <2>1, GotoKeeps DEF Labels
    <2> QED  BY <1>0, <1>1, <1>2, <2>2, CourseTxRead
  <1> QED  BY <1>3, <1>4

LEMMA ReadingCourse ==
  ASSUME Steady, CInv, Inv', Reading
  PROVE  Course'
  <1>0. Inv /\ work \in Works /\ Short(writes)
    BY ShortNow DEF CInv, Inv, TypeOK, Works
  <1>1. CASE ReadRing
    BY <1>0, <1>1, CourseRead DEF ReadRing, At
  <1>2. CASE ReadInsert
    BY <1>0, <1>2, CourseRead DEF ReadInsert, At
  <1>3. CASE ReadRingDone
    <2>1. Goto("txread") /\ Short(writes') /\ rx'.busy = 0 /\ insert' = <<>>
      BY <1>0, <1>3 DEF ReadRingDone
    <2>2. work'.pc = "txread"
      BY <1>0, <2>1, GotoKeeps DEF Labels
    <2> QED  BY <2>1, <2>2, CourseTxRead
  <1>4. CASE NoReader
    <2>1. Goto("sendtx") /\ Short(writes') /\ reads' = <<>>
      BY <1>0, <1>4 DEF NoReader
    <2>2. work'.pc = "sendtx"
      BY <1>0, <2>1, GotoKeeps DEF Labels
    <2> QED  BY <2>1, <2>2, CourseSendTx
  <1> QED  BY <1>1, <1>2, <1>3, <1>4, CompleteReadCourse, TxReadCallCourse, TxReadCharCourse,
              TxReadDoneCourse DEF Reading

-----------------------------------------------------------------------------
(* TX buffer to RX buffer, TX QUEUE to the READs *)

LEMMA SendTxCourse ==
  ASSUME CInv, Inv', SendTx
  PROVE  Course'
  <1>0. /\ Inv /\ work \in Works /\ Short(writes') /\ RingOK(tx) /\ work.pc = "sendtx"
        /\ UNCHANGED <<rx, insert, tx, reads, writes, out>>
    BY ShortNow DEF CInv, Inv, TypeOK, Works, SendTx, At
  <1>1. reads' = <<>>
    BY <1>0 DEF CInv, Course, TxFirst, At
  <1>2. tx.busy \in Nat /\ work.budget \in Nat /\ FilledRun(tx) \in Nat
    BY <1>0, CountFacts DEF Works
  <1>3. CASE tx.busy > 0 /\ work.budget > 0
    <2>1. PICK chunk : chunk = Least(FilledRun(tx), work.budget)
      OBVIOUS
    <2>2. chunk > 0
      <3>1. FilledRun(tx) > 0
        BY <1>0, <1>3, FirstFacts
      <3> QED  BY <1>2, <1>3, <2>1, <3>1 DEF Least
    <2>3. work' = [work EXCEPT !.pc = "fill", !.src = "tx", !.chunk = chunk]
      BY <1>3, <2>1 DEF SendTx
    <2>4. work'.pc = "fill" /\ work'.src = "tx" /\ work'.chunk = chunk
      BY <1>0, <2>3 DEF Works
    <2> QED  BY <1>0, <1>1, <2>2, <2>4, CourseFillTx
  <1>4. CASE ~(tx.busy > 0 /\ work.budget > 0)
    <2>1. Goto("direct")
      BY <1>4 DEF SendTx
    <2>2. work'.pc = "direct" /\ work'.budget = work.budget
      BY <1>0, <2>1, GotoKeeps DEF Labels
    <2>3. tx.busy = 0 \/ work.budget = 0
      BY <1>2, <1>4
    <2>4. Sent'
      BY <1>0, <2>2, <2>3 DEF Sent
    <2>5. ~Waiting'
      BY <1>1 DEF Waiting
    <2> QED  BY <1>0, <1>1, <2>2, <2>4, <2>5, CourseDirect
  <1> QED  BY <1>3, <1>4

LEMMA DirectCallCourse ==
  ASSUME CInv, Inv', DirectCall
  PROVE  Course'
  <1>0. /\ Inv /\ work \in Works /\ Short(writes') /\ work.pc = "direct"
        /\ UNCHANGED <<rx, tx, reads, writes>> /\ reads # <<>> /\ Left > 0 /\ InsertToRead
    BY ShortNow DEF CInv, Inv, TypeOK, Works, DirectCall, At
  <1>1. rx'.busy = 0 /\ Sent
    BY <1>0 DEF CInv, Course, RingFirst, TxFirst, At
  <1>2. /\ Left' > 0 => insert' = <<>>
        /\ insert = <<>> => insert' = <<>>
    BY <1>0, InsertToReadCourse
  <1>3. Waiting' => insert' = <<>>
    BY <1>0, <1>2 DEF CInv, Course, ReadFirst, Waiting
  <1>4. PICK chunk : chunk = Least(Len(Head(writes)), work.budget)
    OBVIOUS
  <1>5. work' = [work EXCEPT !.pc = "dcopy", !.chunk = chunk]
    BY <1>4 DEF DirectCall
  <1>6. work'.pc = "dcopy" /\ work'.budget = work.budget
    BY <1>0, <1>5 DEF Works
  <1>7. Sent'
    BY <1>0, <1>1, <1>6 DEF Sent
  <1> QED  BY <1>0, <1>1, <1>2, <1>3, <1>6, <1>7, CourseDirectCopy

LEMMA DirectCharCourse ==
  ASSUME Steady, CInv, Inv', DirectChar
  PROVE  Course'
  <1>0. /\ Inv /\ TypeOK /\ work \in Works /\ Short(writes) /\ work.pc = "dcopy"
        /\ UNCHANGED <<rx, tx, reads>> /\ work.chunk > 0 /\ Left > 0 /\ TakeFromWrite(1)
    BY ShortNow DEF CInv, Inv, TypeOK, Works, DirectChar, At
  <1>1. reads # <<>> /\ rx'.busy = 0 /\ insert = <<>> /\ Sent /\ writes # <<>>
    BY <1>0 DEF CInv, Inv, ChunksFit, Course, RingFirst, TxFirst, At
  <1>2. tx'.busy = 0
    <2>1. work.chunk <= work.budget /\ work.chunk \in Nat /\ work.budget \in Nat
      BY <1>0 DEF Inv, ChunksFit, Works, At
    <2> QED  BY <1>0, <1>1, <2>1 DEF Sent
  <1>3. Short(writes')
    BY <1>0, <1>1, ShortCut
  <1>4. Head(Head(writes)) \in Symbols
    <2>1. work.chunk <= Len(Head(writes)) /\ work.chunk \in Nat
      BY <1>0 DEF Inv, ChunksFit, Works, At
    <2>2. writes \in Seq(Seq(Chars))
      BY <1>0 DEF TypeOK
    <2>3. Head(writes) \in Seq(Symbols) /\ Len(Head(writes)) \in Nat
      BY <1>1, <2>2, RowOfWrites
    <2>4. Len(Head(writes)) > 0
      BY <1>0, <2>1, <2>3
    <2> QED  BY <2>3, <2>4, UptoOne
  <1>5. CharToRead(Head(Head(writes)))
    BY DEF DirectChar
  <1>6. /\ Left' > 0 => insert' = <<>>
        /\ Waiting' /\ MaxReads > 1 => insert' = <<>>
    BY <1>0, <1>1, <1>4, <1>5, CharToReadCourse
  <1>7. work'.pc = "dcopy"
    <2>1. PICK b : b = Spend(work.budget, 1)
      OBVIOUS
    <2>2. work' = [work EXCEPT !.chunk = work.chunk - 1, !.budget = b]
      BY <2>1 DEF DirectChar
    <2> QED  BY <1>0, <2>2 DEF Works
  <1>8. Sent'
    BY <1>2 DEF Sent
  <1> QED  BY <1>1, <1>3, <1>6, <1>7, <1>8, CourseDirectCopy

LEMMA DirectDoneCourse ==
  ASSUME CInv, Inv', DirectDone
  PROVE  Course'
  <1>0. /\ Inv /\ work \in Works /\ Short(writes) /\ work.pc = "dcopy" /\ writes # <<>>
        /\ UNCHANGED <<rx, insert, tx, reads, out>> /\ Goto("direct")
        /\ writes \in Seq(Seq(Chars))
    BY ShortNow DEF CInv, Inv, TypeOK, ChunksFit, Works, DirectDone, At
  <1>1. rx'.busy = 0 /\ Sent /\ reads # <<>> /\ Left' = Left
    BY <1>0 DEF CInv, Course, Inv, ChunksFit, RingFirst, TxFirst, At, Left
  <1>2. Short(writes')
    BY <1>0, ShortTail DEF DirectDone
  <1>3. work'.pc = "direct" /\ work'.budget = work.budget
    BY <1>0, GotoKeeps DEF Labels
  <1>4. Sent'
    BY <1>0, <1>1, <1>3 DEF Sent
  <1>5. Waiting' /\ (Left' > 0 \/ MaxReads > 1) => insert' = <<>>
    BY <1>0, <1>1 DEF CInv, Course, ReadFirst, Waiting
  <1> QED  BY <1>1, <1>2, <1>3, <1>4, <1>5, CourseDirect

LEMMA DirectEndCourse ==
  ASSUME CInv, Inv', DirectEnd
  PROVE  Course'
  <1>0. /\ Inv /\ work \in Works /\ Short(writes') /\ work.pc = "direct" /\ Goto("write")
        /\ UNCHANGED <<rx, limit, insert, tx, reads, writes, out>>
    BY ShortNow DEF CInv, Inv, TypeOK, Works, DirectEnd, At
  <1>1. work'.pc = "write" /\ work'.budget = work.budget /\ work'.hold = work.hold
    BY <1>0, GotoKeeps DEF Labels
  <1>2. Sent' \/ Blocked'
    <2>1. Sent \/ Blocked
      BY <1>0 DEF CInv, Course, TxFirst
    <2> QED  BY <1>0, <1>1, <2>1 DEF Sent, Blocked
  <1>3. ASSUME Waiting'
        PROVE  NothingHeld' /\ (writes' = <<>> \/ work'.budget = 0 \/ work'.hold)
    <2>1. Waiting /\ reads # <<>>
      BY <1>0, <1>3 DEF Waiting
    <2>2. Left > 0 /\ (writes = <<>> \/ work.budget = 0 \/ work.hold)
      BY <2>1 DEF DirectEnd
    <2>3. rx.busy = 0 /\ insert = <<>>
      BY <1>0, <2>1, <2>2 DEF CInv, Course, RingFirst, ReadFirst, At, Waiting
    <2> QED  BY <1>0, <1>1, <2>2, <2>3 DEF NothingHeld
  <1> QED  BY <1>0, <1>1, <1>2, <1>3, CourseWrite

-----------------------------------------------------------------------------
(* TX QUEUE to RX buffer and TX buffer *)

\* The first WRITE is short as the others are.
LEMMA FirstShort ==
  ASSUME NEW w \in Seq(Seq(Chars)), w # <<>>, Short(w)
  PROVE  Len(Head(w)) \in Nat /\ Len(Head(w)) <= Unlimited /\ Unlimited \in Nat
  <1>1. 1 \in DOMAIN w /\ Head(w) = w[1] /\ w[1] \in Seq(Chars)
    OBVIOUS
  <1>2. Len(w[1]) <= Unlimited
    BY <1>1 DEF Short
  <1> QED  BY <1>1, <1>2, InputsAssumption

LEMMA WriteCourse ==
  ASSUME CInv, Inv', Write
  PROVE  Course'
  <1>0. /\ Inv /\ work \in Works /\ Short(writes') /\ work.pc = "write"
        /\ UNCHANGED <<rx, limit, insert, tx, reads, writes, out>>
        /\ writes \in Seq(Seq(Chars))
    BY ShortNow DEF CInv, Inv, TypeOK, Works, Write, At
  <1>1. CASE writes = <<>> \/ work.hold
    <2>1. work'.pc = "idle"
      BY <1>1 DEF Write, Idle
    <2>2. Waiting' => NothingHeld'
      BY <1>0 DEF CInv, Course, ReadFirst, Waiting, NothingHeld
    <2> QED  BY <1>0, <2>1, <2>2, CourseIdle
  <1>2. CASE ~(writes = <<>> \/ work.hold)
    <2>1. PICK chunk : chunk = Least(Len(Head(writes)), work.budget)
      OBVIOUS
    <2>2. work' = [work EXCEPT !.pc = "fill", !.src = "write", !.chunk = chunk]
      BY <1>2, <2>1 DEF Write
    <2>3. /\ work'.pc = "fill" /\ work'.src = "write" /\ work'.chunk = chunk
          /\ work'.budget = work.budget
      BY <1>0, <2>2 DEF Works
    <2>4. Sent' \/ Blocked'
      <3>1. Sent \/ Blocked
        BY <1>0 DEF CInv, Course, TxFirst
      <3> QED  BY <1>0, <2>3, <3>1 DEF Sent, Blocked
    <2>5. chunk < Len(Head(writes)) => work.budget = chunk /\ work.budget < Unlimited
      <3>1. Len(Head(writes)) \in Nat /\ Len(Head(writes)) <= Unlimited /\ Unlimited \in Nat
        BY <1>0, <1>2, FirstShort
      <3>2. work.budget \in Nat
        BY <1>0 DEF Works
      <3> QED  BY <2>1, <3>1, <3>2 DEF Least
    <2>6. Waiting' => NothingHeld' /\ work'.budget = 0
      BY <1>0, <1>2, <2>3 DEF CInv, Course, ReadFirst, Waiting, NothingHeld, At
    <2> QED  BY <1>0, <2>3, <2>4, <2>5, <2>6, CourseFillWrite
  <1> QED  BY <1>1, <1>2

\* While WriteToBuffer fills the ring from a WRITE no READ waits, under Unsplit: the pass of
\* one has nothing left to send.
LEMMA FillingFacts ==
  ASSUME CInv, work.pc \in {"fill", "fillcopy"}
  PROVE  /\ work.src = "tx" => reads = <<>>
         /\ work.chunk > 0 => ~Waiting
         /\ work \in Works /\ Short(writes)
  <1>1. /\ work.chunk <= work.budget /\ work.chunk \in Nat /\ work.budget \in Nat
        /\ work \in Works /\ Short(writes)
    BY ShortNow DEF CInv, Inv, TypeOK, ChunksFit, Works
  <1>2. work.src = "tx" => reads = <<>>
    BY DEF CInv, Course, TxFirst, Filling
  <1>3. Waiting => work.budget = 0
    BY DEF CInv, Course, ReadFirst, Waiting
  <1> QED  BY <1>1, <1>2, <1>3

LEMMA FillCallCourse ==
  ASSUME CInv, Inv', FillCall
  PROVE  Course'
  <1>0. /\ Inv /\ TypeOK /\ work.pc = "fill" /\ work.chunk > 0 /\ limit > rx.busy
        /\ UNCHANGED <<limit, tx, reads, writes, out>> /\ insert \in Seq(Symbols)
    BY DEF CInv, Inv, TypeOK, FillCall, At
  <1>1. /\ work.src = "tx" => reads' = <<>>
        /\ ~Waiting' /\ work \in Works /\ Short(writes')
    BY <1>0, FillingFacts DEF Waiting
  <1>2. rx.busy \in Nat /\ limit \in Nat /\ FreeRun(rx) \in Nat
    <2>1. RingOK(rx) /\ limit \in 1 .. rx.size
      BY <1>0 DEF TypeOK
    <2> QED  BY <2>1, CountFacts
  <1>3. PICK room : room = Least(FreeRun(rx), limit - rx.busy)
    OBVIOUS
  <1>4. PICK rest : rest = room - Least(Len(insert), room)
    OBVIOUS
  <1>5. /\ insert' = From(insert, room)
        /\ work' = [work EXCEPT !.pc = "fillcopy", !.room = rest]
    BY <1>3, <1>4 DEF FillCall
  <1>6. /\ work'.pc = "fillcopy" /\ work'.src = work.src /\ work'.chunk = work.chunk
        /\ work'.budget = work.budget /\ work'.moved = work.moved /\ work'.room = rest
    BY <1>1, <1>5 DEF Works
  <1>7. work'.pc = "fillcopy" /\ work'.room > 0 => insert' = <<>>
    <2>1. room \in Nat
      <3>1. limit - rx.busy \in Nat
        BY <1>0, <1>2
      <3> QED  BY <1>2, <1>3, <3>1, LeastFacts
    <2>2. rest > 0 => From(insert, room) = <<>>
      BY <1>0, <1>4, <2>1, NothingLeft
    <2> QED  BY <1>5, <1>6, <2>2
  <1>8. CASE work.src = "tx"
    <2>1. work'.moved = 0 => work'.chunk > 0
      BY <1>0, <1>6
    <2> QED  BY <1>1, <1>6, <1>7, <1>8, <2>1, CourseFillTx
  <1>9. CASE work.src = "write"
    <2>1. Sent'
      <3>1. Sent \/ Blocked
        BY <1>0, <1>9 DEF CInv, Course, TxFirst, Filling
      <3>2. ~Blocked
        BY <1>0, <1>2 DEF Blocked
      <3> QED  BY <1>0, <1>6, <3>1, <3>2 DEF Sent
    <2>2. work'.chunk < Len(Head(writes')) =>
            work'.budget = work'.chunk /\ work'.budget < Unlimited
      BY <1>0, <1>6, <1>9 DEF CInv, Course, WriteFirst, Filling
    <2> QED  BY <1>1, <1>6, <1>7, <1>9, <2>1, <2>2, CourseFillWrite
  <1> QED  BY <1>1, <1>8, <1>9 DEF Works

LEMMA FillCharCourse ==
  ASSUME CInv, Inv', FillChar
  PROVE  Course'
  <1>0. /\ Inv /\ TypeOK /\ work.pc = "fillcopy" /\ work.chunk > 0 /\ work.room > 0
        /\ UNCHANGED <<limit, reads, out>> /\ TakeFromSource(1)
    BY DEF CInv, Inv, FillChar, At
  <1>1. /\ work.src = "tx" => reads' = <<>>
        /\ ~Waiting' /\ work \in Works /\ Short(writes)
    BY <1>0, FillingFacts DEF Waiting
  <1>2. /\ work.chunk \in Nat /\ work.budget \in Nat /\ work.room \in Nat /\ work.moved \in Nat
        /\ work.chunk <= work.budget /\ insert = <<>>
    BY <1>0, <1>1 DEF Works, CInv, Course, RingFirst, Inv, ChunksFit, At
  <1>3. PICK c, n : c = Head(Source) /\ n = work.room
    OBVIOUS
  <1>4. PICK r, f, b : r = Received(c) /\ f = From(Received(c), n) /\ b = Spend(work.budget, 1)
    OBVIOUS
  <1>5. c \in Symbols
    BY <1>0, <1>3, SourceFacts
  <1>6. r \in Seq(Symbols) /\ Upto(<<>> \o f, InsertSize) = f
    BY <1>2, <1>3, <1>4, <1>5, RestKept
  <1>7. insert' = f
    BY <1>2, <1>3, <1>4, <1>6 DEF FillChar
  <1>8. work' = [work EXCEPT !.chunk = work.chunk - 1, !.budget = b,
                  !.moved = work.moved + 1, !.room = n - Least(Len(r), n)]
    BY <1>3, <1>4 DEF FillChar
  <1>9. /\ work'.pc = "fillcopy" /\ work'.src = work.src /\ work'.chunk = work.chunk - 1
        /\ work'.budget = b /\ work'.moved = work.moved + 1
        /\ work'.room = n - Least(Len(r), n)
    BY <1>0, <1>1, <1>8 DEF Works
  <1>10. work'.pc = "fillcopy" /\ work'.room > 0 => insert' = <<>>
    <2>1. n - Least(Len(r), n) > 0 => From(r, n) = <<>>
      BY <1>2, <1>3, <1>6, NothingLeft
    <2> QED  BY <1>4, <1>7, <1>9, <2>1
  <1>11. CASE work.src = "tx"
    <2>1. Short(writes') /\ work'.moved # 0
      BY <1>0, <1>1, <1>2, <1>9, <1>11 DEF TakeFromSource
    <2> QED  BY <1>1, <1>9, <1>10, <1>11, <2>1, CourseFillTx
  <1>12. CASE work.src = "write"
    <2>1. writes # <<>> /\ TakeFromWrite(1) /\ tx' = tx
      BY <1>0, <1>12 DEF TakeFromSource, Inv, ChunksFit
    <2>2. Short(writes')
      BY <1>0, <1>1, <2>1, ShortCut
    <2>3. Sent'
      <3>1. rx.busy \in Nat /\ limit \in Nat
        BY <1>0, CountFacts DEF TypeOK
      <3>2. rx.busy + work.room <= limit
        BY <1>0 DEF Inv, ChunksFit, At
      <3>3. ~Blocked
        BY <1>0, <1>2, <3>1, <3>2 DEF Blocked
      <3>4. tx.busy = 0
        BY <1>0, <1>12, <3>3, TxFirstSent
      <3> QED  BY <2>1, <3>4 DEF Sent
    <2>4. work'.chunk < Len(Head(writes')) =>
            work'.budget = work'.chunk /\ work'.budget < Unlimited
      <3>1. /\ Len(Head(writes')) = Len(Head(writes)) - 1
            /\ work.chunk <= Len(Head(writes)) /\ Len(Head(writes)) \in Nat
        BY <1>0, <1>2, <1>12, TakeFromSourceFacts
      <3>2. work.chunk < Len(Head(writes)) =>
              work.budget = work.chunk /\ work.budget < Unlimited
        BY <1>0, <1>12 DEF CInv, Course, WriteFirst, Filling
      <3>3. Unlimited \in Nat
        BY InputsAssumption
      <3> QED  BY <1>2, <1>4, <1>9, <3>1, <3>2, <3>3 DEF Spend
    <2> QED  BY <1>1, <1>9, <1>10, <1>12, <2>2, <2>3, <2>4, CourseFillWrite
  <1> QED  BY <1>1, <1>11, <1>12 DEF Works

LEMMA FillCharsDoneCourse ==
  ASSUME CInv, Inv', FillCharsDone
  PROVE  Course'
  <1>0. /\ Inv /\ work.pc = "fillcopy" /\ UNCHANGED <<rx, limit, insert, tx, writes, reads, out>>
        /\ work' = [work EXCEPT !.pc = "fill", !.room = 0]
    BY DEF CInv, FillCharsDone, At
  <1>1. /\ work.src = "tx" => reads' = <<>>
        /\ work \in Works /\ Short(writes')
    BY <1>0, FillingFacts
  <1>2. /\ work'.pc = "fill" /\ work'.src = work.src /\ work'.chunk = work.chunk
        /\ work'.budget = work.budget /\ work'.moved = work.moved
    BY <1>0, <1>1 DEF Works
  <1>3. CASE work.src = "tx"
    <2>1. work.moved = 0 => work.chunk > 0
      BY <1>0, <1>3 DEF CInv, Course, TxFirst, Filling
    <2> QED  BY <1>1, <1>2, <1>3, <2>1, CourseFillTx
  <1>4. CASE work.src = "write"
    <2>1. Sent' \/ Blocked'
      <3>1. Sent \/ Blocked
        BY <1>0, <1>4 DEF CInv, Course, TxFirst, Filling
      <3> QED  BY <1>0, <1>2, <3>1 DEF Sent, Blocked
    <2>2. work'.chunk < Len(Head(writes')) =>
            work'.budget = work'.chunk /\ work'.budget < Unlimited
      BY <1>0, <1>2, <1>4 DEF CInv, Course, WriteFirst, Filling
    <2>3. Waiting' => NothingHeld' /\ work'.budget = 0
      BY <1>0, <1>2 DEF CInv, Course, ReadFirst, Waiting, NothingHeld
    <2> QED  BY <1>1, <1>2, <1>4, <2>1, <2>2, <2>3, CourseFillWrite
  <1> QED  BY <1>1, <1>3, <1>4 DEF Works

\* What WriteToBuffer leaves when it returns.
LEMMA ReturnsFacts ==
  ASSUME work \in Works, NEW dropped \in Nat, NEW left, FillReturns(dropped, left)
  PROVE  /\ work.src = "write" => work'.pc = "txfill"
         /\ work.src = "tx" /\ work.moved + dropped > 0 => work'.pc = "sendtx"
         /\ work.src = "tx" /\ ~(work.moved + dropped > 0) => work'.pc = "direct"
         /\ work'.chunk = IF work.src = "write" /\ tx.busy <= 1 THEN Least(left, TxSize - 1) ELSE 0
         /\ work'.budget = Spend(work.budget, dropped)
  <1>1. PICK pc, chunk, budget :
          /\ pc = CASE work.src = "write" -> "txfill"
                    [] work.src = "tx" /\ work.moved + dropped > 0 -> "sendtx"
                    [] OTHER -> "direct"
          /\ chunk = IF work.src = "write" /\ tx.busy <= 1 THEN Least(left, TxSize - 1) ELSE 0
          /\ budget = Spend(work.budget, dropped)
    OBVIOUS
  <1>2. work' = [work EXCEPT !.pc = pc, !.chunk = chunk, !.budget = budget, !.room = 0, !.moved = 0]
    BY <1>1 DEF FillReturns
  <1>3. work'.pc = pc /\ work'.chunk = chunk /\ work'.budget = budget
    BY <1>2 DEF Works
  <1>4. work.src = "write" => pc = "txfill"
    BY <1>1
  <1>5. work.src = "tx" /\ work.moved + dropped > 0 => pc = "sendtx"
    BY <1>1
  <1>6. work.src = "tx" /\ ~(work.moved + dropped > 0) => pc = "direct"
    BY <1>1
  <1> QED  BY <1>1, <1>3, <1>4, <1>5, <1>6

LEMMA FillReturnCourse ==
  ASSUME CInv, Inv', FillReturn
  PROVE  Course'
  <1>0. /\ Inv /\ TypeOK /\ work.pc = "fill"
        /\ UNCHANGED <<rx, limit, insert, tx, writes, reads, out>>
        /\ FillReturns(0, Len(Head(writes))) /\ (work.chunk = 0 \/ Blocked)
    BY DEF CInv, Inv, FillReturn, At, Blocked
  <1>1. /\ work.src = "tx" => reads' = <<>>
        /\ work \in Works /\ Short(writes')
    BY <1>0, FillingFacts
  <1>2. /\ work.src = "write" => work'.pc = "txfill"
        /\ work.src = "tx" /\ work.moved + 0 > 0 => work'.pc = "sendtx"
        /\ work.src = "tx" /\ ~(work.moved + 0 > 0) => work'.pc = "direct"
        /\ work'.chunk = IF work.src = "write" /\ tx.busy <= 1
                         THEN Least(Len(Head(writes)), TxSize - 1) ELSE 0
        /\ work'.budget = Spend(work.budget, 0)
    BY <1>0, <1>1, ReturnsFacts
  <1>3. work.moved \in Nat /\ work.budget \in Nat /\ work.chunk \in Nat
    BY <1>1 DEF Works
  <1>4. work'.budget = work.budget
    BY <1>2, <1>3 DEF Spend
  <1>5. Blocked => Blocked'
    BY <1>0 DEF Blocked
  <1>6. CASE work.src = "write"
    <2>1. writes # <<>> /\ writes \in Seq(Seq(Chars))
      BY <1>0, <1>6 DEF Inv, TypeOK, ChunksFit
    <2>2. work'.budget = 0 \/ Blocked' \/ (tx'.busy = 0 /\ work'.chunk = 0)
      <3>1. CASE Blocked
        BY <1>5, <3>1
      <3>2. CASE ~Blocked
        <4>1. work.chunk = 0 /\ (tx.busy = 0 \/ work.budget = 0)
          BY <1>0, <1>6, <3>2 DEF CInv, Course, TxFirst, Filling, Sent
        <4>2. work.chunk < Len(Head(writes)) => work.budget = work.chunk
          BY <1>0, <1>6 DEF CInv, Course, WriteFirst, Filling
        <4>3. Len(Head(writes)) \in Nat /\ TxSize \in Nat /\ TxSize > 1
          BY <2>1, SizesAssumption
        <4>4. work.budget = 0 \/ Len(Head(writes)) = 0
          BY <4>1, <4>2, <4>3
        <4>5. Len(Head(writes)) = 0 => work'.chunk = 0
          BY <1>2, <4>3 DEF Least
        <4> QED  BY <1>0, <1>4, <4>1, <4>4, <4>5
      <3> QED  BY <3>1, <3>2
    <2>3. Waiting' => NothingHeld' /\ work'.budget = 0
      BY <1>0, <1>4 DEF CInv, Course, ReadFirst, Waiting, NothingHeld
    <2> QED  BY <1>1, <1>2, <1>6, <2>2, <2>3, CourseTxFill
  <1>7. CASE work.src = "tx" /\ work.moved > 0
    BY <1>1, <1>2, <1>3, <1>7, CourseSendTx
  <1>8. CASE work.src = "tx" /\ ~(work.moved > 0)
    <2>1. Blocked
      <3>1. work.moved = 0 => work.chunk > 0
        BY <1>0, <1>8 DEF CInv, Course, TxFirst, Filling
      <3> QED  BY <1>0, <1>3, <1>8, <3>1
    <2>2. work'.pc = "direct"
      BY <1>2, <1>3, <1>8
    <2>3. ~Waiting'
      BY <1>1, <1>8 DEF Waiting
    <2> QED  BY <1>1, <1>5, <1>8, <2>1, <2>2, <2>3, CourseDirect
  <1> QED  BY <1>1, <1>6, <1>7, <1>8 DEF Works

LEMMA OverrunCourse ==
  ASSUME CInv, Inv', Overrun
  PROVE  Course'
  <1>0. /\ Inv /\ TypeOK /\ work.pc = "fill" /\ UNCHANGED <<limit, reads, out>>
        /\ work.chunk > 0 /\ TakeFromSource(work.chunk)
        /\ FillReturns(work.chunk, Len(Head(writes)) - work.chunk) /\ ~Blocked
    BY DEF CInv, Inv, Overrun, At, Blocked
  <1>1. /\ work.src = "tx" => reads' = <<>>
        /\ ~Waiting' /\ work \in Works /\ Short(writes)
    BY <1>0, FillingFacts DEF Waiting
  <1>2. work.moved \in Nat /\ work.budget \in Nat /\ work.chunk \in Nat
    BY <1>1 DEF Works
  <1>3. PICK dropped, left : dropped = work.chunk /\ left = Len(Head(writes)) - work.chunk
    OBVIOUS
  <1>4. /\ work.src = "write" => work'.pc = "txfill"
        /\ work.src = "tx" /\ work.moved + dropped > 0 => work'.pc = "sendtx"
        /\ work'.chunk = IF work.src = "write" /\ tx.busy <= 1 THEN Least(left, TxSize - 1) ELSE 0
        /\ work'.budget = Spend(work.budget, dropped)
    <2>1. dropped \in Nat /\ FillReturns(dropped, left)
      BY <1>0, <1>2, <1>3
    <2> QED  BY <1>1, <2>1, ReturnsFacts
  <1>5. CASE work.src = "tx"
    <2>1. Short(writes')
      BY <1>0, <1>1, <1>5 DEF TakeFromSource
    <2>2. work.moved + dropped > 0
      BY <1>0, <1>2, <1>3
    <2> QED  BY <1>1, <1>4, <1>5, <2>1, <2>2, CourseSendTx
  <1>6. CASE work.src = "write"
    <2>1. writes # <<>> /\ TakeFromWrite(work.chunk) /\ tx' = tx
      BY <1>0, <1>6 DEF TakeFromSource, Inv, ChunksFit
    <2>2. Short(writes')
      BY <1>0, <1>1, <1>2, <2>1, ShortCut
    <2>3. tx.busy = 0
      BY <1>0, <1>6, TxFirstSent
    <2>4. work'.budget = 0 \/ work'.chunk = 0
      <3>1. writes \in Seq(Seq(Chars)) /\ work.chunk <= Len(Head(writes))
        BY <1>0, <1>6 DEF Inv, TypeOK, ChunksFit
      <3>2. Len(Head(writes)) \in Nat /\ TxSize \in Nat /\ TxSize > 1
        BY <2>1, <3>1, SizesAssumption
      <3>3. work.chunk < Len(Head(writes)) =>
              work.budget = work.chunk /\ work.budget < Unlimited
        BY <1>0, <1>6 DEF CInv, Course, WriteFirst, Filling
      <3>4. Unlimited \in Nat
        BY InputsAssumption
      <3>5. CASE work.chunk < Len(Head(writes))
        BY <1>2, <1>3, <1>4, <3>3, <3>4, <3>5 DEF Spend
      <3>6. CASE work.chunk = Len(Head(writes))
        <4>1. left = 0
          BY <1>3, <3>2, <3>6
        <4> QED  BY <1>4, <3>2, <4>1 DEF Least
      <3> QED  BY <1>2, <3>1, <3>2, <3>5, <3>6
    <2> QED  BY <1>1, <1>4, <1>6, <2>1, <2>2, <2>3, <2>4, CourseTxFill
  <1> QED  BY <1>1, <1>5, <1>6 DEF Works

LEMMA TxFillCourse ==
  ASSUME CInv, Inv', TxFill
  PROVE  Course'
  <1>0. /\ Inv /\ TypeOK /\ work \in Works /\ Short(writes) /\ work.pc = "txfill" /\ work.chunk > 0
        /\ UNCHANGED <<rx, limit, insert, reads, out>> /\ writes # <<>> /\ RingOK(tx)
    BY ShortNow DEF CInv, Inv, TypeOK, ChunksFit, Works, TxFill, At
  <1>1. PICK n : n = Least(FreeRun(tx), work.chunk)
    OBVIOUS
  <1>2. n \in Nat
    BY <1>0, <1>1, CountFacts, LeastFacts DEF Works
  <1>3. TakeFromWrite(n) /\ work' = [work EXCEPT !.chunk = work.chunk - n]
    BY <1>1 DEF TxFill
  <1>4. Short(writes')
    BY <1>0, <1>2, <1>3, ShortCut
  <1>5. work'.pc = "txfill" /\ work'.budget = work.budget
    BY <1>0, <1>3 DEF Works
  <1>6. work'.budget = 0 \/ Blocked'
    <2>1. work.budget = 0 \/ Blocked
      BY <1>0 DEF CInv, Course, TxFirst, At
    <2> QED  BY <1>0, <1>5, <2>1 DEF Blocked
  <1>7. Waiting' => NothingHeld' /\ work'.budget = 0
    BY <1>0, <1>5 DEF CInv, Course, ReadFirst, Waiting, NothingHeld
  <1> QED  BY <1>4, <1>5, <1>6, <1>7, CourseTxFill

LEMMA TxFillDoneCourse ==
  ASSUME CInv, Inv', TxFillDone
  PROVE  Course'
  <1>0. /\ Inv /\ work \in Works /\ Short(writes) /\ work.pc = "txfill"
        /\ UNCHANGED <<rx, limit, insert, tx, reads, out>> /\ writes # <<>>
        /\ writes \in Seq(Seq(Chars))
    BY ShortNow DEF CInv, Inv, TypeOK, ChunksFit, Works, TxFillDone, At
  <1>1. Waiting' => NothingHeld' /\ work.budget = 0
    BY <1>0 DEF CInv, Course, ReadFirst, Waiting, NothingHeld
  <1>2. CASE Head(writes) = <<>>
    <2>1. Short(writes') /\ Goto("write")
      BY <1>0, <1>2, ShortTail DEF TxFillDone
    <2>2. work'.pc = "write" /\ work'.budget = work.budget
      BY <1>0, <2>1, GotoKeeps DEF Labels
    <2>3. Sent' \/ Blocked'
      <3>1. work.budget = 0 \/ Blocked \/ tx.busy = 0
        BY <1>0 DEF CInv, Course, TxFirst, At
      <3> QED  BY <1>0, <2>2, <3>1 DEF Sent, Blocked
    <2> QED  BY <1>1, <2>1, <2>2, <2>3, CourseWrite
  <1>3. CASE Head(writes) # <<>>
    <2>1. work'.pc = "idle" /\ Short(writes')
      BY <1>0, <1>3 DEF TxFillDone, Idle
    <2> QED  BY <1>1, <2>1, CourseIdle
  <1> QED  BY <1>2, <1>3

LEMMA SendingCourse ==
  ASSUME Steady, CInv, Inv', Sending
  PROVE  Course'
  BY SendTxCourse, DirectCallCourse, DirectCharCourse, DirectDoneCourse, DirectEndCourse,
     WriteCourse, FillCallCourse, FillCharCourse, FillCharsDoneCourse, FillReturnCourse,
     OverrunCourse, TxFillCourse, TxFillDoneCourse DEF Sending

-----------------------------------------------------------------------------
(* A status sequence *)

LEMMA InsertDirectCourse ==
  ASSUME CInv, Inv', InsertDirect
  PROVE  Course'
  <1>0. /\ Inv /\ work \in Works /\ Short(writes') /\ work.pc = "insread"
        /\ UNCHANGED <<rx, insert, reads>>
    BY ShortNow DEF CInv, Inv, TypeOK, Works, InsertDirect, At
  <1>1. RawSequences # {}
    BY <1>0 DEF CInv, Course, ReadFirst
  <1>2. CASE reads = <<>>
    <2>1. work'.pc = "insring"
      BY <1>0, <1>2 DEF InsertDirect, Works
    <2>2. ~Waiting'
      BY <1>0, <1>2 DEF Waiting
    <2> QED  BY <1>0, <1>1, <2>1, <2>2, CourseInsert
  <1>3. CASE reads # <<>>
    <2>1. PICK raw, pc : /\ raw = From(work.raw, Left)
                         /\ pc = IF Len(work.raw) >= Left THEN "insread" ELSE "insring"
      OBVIOUS
    <2>2. work' = [work EXCEPT !.raw = raw, !.pc = pc]
      BY <1>3, <2>1 DEF InsertDirect
    <2>3. work'.raw = raw /\ work'.pc = pc /\ pc \in {"insread", "insring"}
      BY <1>0, <2>1, <2>2 DEF Works
    <2>4. pc = "insring" => raw = <<>>
      <3>1. Left \in Nat /\ work.raw \in Seq(StatusChars) /\ Len(work.raw) \in Nat
        BY <1>0, <1>3, RoomFacts DEF Works
      <3>2. Len(work.raw) <= Left => From(work.raw, Left) = <<>>
        BY <3>1, CutBehind
      <3> QED  BY <2>1, <3>1, <3>2
    <2>5. Waiting' => NothingHeld'
      BY <1>0 DEF CInv, Course, ReadFirst, Waiting, NothingHeld
    <2> QED  BY <1>0, <1>1, <2>3, <2>4, <2>5, CourseInsert
  <1> QED  BY <1>2, <1>3

LEMMA InsertToRingCourse ==
  ASSUME CInv, Inv', InsertToRing
  PROVE  Course'
  <1>0. /\ Inv /\ work \in Works /\ Short(writes') /\ work.pc = "insring" /\ work.raw # <<>>
        /\ UNCHANGED reads
    BY ShortNow DEF CInv, Inv, TypeOK, Works, InsertToRing, At
  <1>1. RawSequences # {}
    BY <1>0 DEF CInv, Course, ReadFirst
  <1>2. ~Waiting'
    BY <1>0 DEF CInv, Course, ReadFirst, Waiting, At
  <1>3. PICK raw : work' = [work EXCEPT !.raw = raw]
    BY DEF InsertToRing
  <1>4. work'.pc = "insring"
    BY <1>0, <1>3 DEF Works
  <1> QED  BY <1>0, <1>1, <1>2, <1>4, CourseInsert

LEMMA InsertRestCourse ==
  ASSUME CInv, Inv', InsertRest
  PROVE  Course'
  <1>0. /\ Inv /\ work \in Works /\ Short(writes') /\ work.pc = "insring"
        /\ UNCHANGED <<rx, reads>> /\ work'.pc = "idle"
    BY ShortNow DEF CInv, Inv, TypeOK, Works, InsertRest, At, Idle
  <1>1. ASSUME Waiting' PROVE NothingHeld'
    <2>1. rx.busy = 0 /\ insert = <<>> /\ work.raw = <<>>
      BY <1>0, <1>1 DEF CInv, Course, ReadFirst, Waiting, At
    <2>2. Upto(<<>>, InsertSize) = <<>> /\ <<>> \o <<>> = <<>>
      BY SizesAssumption, EmptyCut
    <2>3. InsertSize - Len(<<>>) = InsertSize
      BY SizesAssumption
    <2>4. insert' = <<>>
      BY <2>1, <2>2, <2>3 DEF InsertRest
    <2> QED  BY <1>0, <2>1, <2>4 DEF NothingHeld
  <1> QED  BY <1>0, <1>1, CourseIdle

-----------------------------------------------------------------------------
(* The promise is kept *)

LEMMA InitCInv == Init => CInv
  <1> SUFFICES ASSUME Init PROVE CInv
    OBVIOUS
  <1>1. Inv
    BY InitInv
  <1>2. work.pc = "idle" /\ reads = <<>> /\ writes = <<>>
    BY DEF Init, Idle
  <1>3. Course
    BY <1>2 DEF Course, RingFirst, TxFirst, WriteFirst, ReadFirst, Filling, At
  <1> QED  BY <1>1, <1>3 DEF CInv

LEMMA NextCInv ==
  ASSUME Steady, CInv, [Next]_vars
  PROVE  CInv'
  <1>1. CASE Next
    <2>1. Inv'
      BY <1>1, CallsInv, ReadingInv, SendingInv, InsertingInv DEF Next, CInv
    <2>2. Course'
      BY <1>1, <2>1, CallsCourse, ReadingCourse, SendingCourse, InsertDirectCourse,
         InsertToRingCourse, InsertRestCourse DEF Next, Inserting
    <2> QED  BY <2>1, <2>2 DEF CInv
  <1>2. CASE UNCHANGED vars
    <2>1. Inv'
      BY <1>2 DEF CInv, vars, Inv, TypeOK, ChunksFit, At
    <2>2. Course'
      BY <1>2 DEF CInv, vars, Course, RingFirst, TxFirst, WriteFirst, ReadFirst, Filling, At,
                  Blocked, Sent, Left
    <2> QED  BY <2>1, <2>2 DEF CInv
  <1> QED  BY <1>1, <1>2

LEMMA PromiseInit == Init => Promise!Init
  <1> SUFFICES ASSUME Init PROVE Promise!Init
    OBVIOUS
  <1>1. Inv /\ RingOK(rx) /\ RingOK(tx)
    BY InitInv DEF Inv, TypeOK
  <1>2. /\ rx.busy = 0 /\ tx.busy = 0 /\ writes = <<>> /\ insert = <<>> /\ out = <<>>
    BY DEF Init, Ring
  <1>3. Content(rx) = <<>> /\ Content(tx) = <<>>
    BY <1>1, <1>2, ContentEmpty
  <1>4. Content(tx) \o FlattenSeq(writes) = <<>> /\ Content(rx) \o insert = <<>>
    BY <1>2, <1>3, FlattenEmpty
  <1> QED  BY <1>2, <1>4 DEF Promise!Init

\* TryReadWrite moves what is ahead on the way before it touches what is behind: the ring and
\* insertData, then the TX buffer, then the first WRITE, whatever the sizes, the budgets and the
\* limits (the order of the passes in io.c:1051-1233).
THEOREM CourseKept == ASSUME Steady PROVE Spec => []Course
  <1>1. Init => CInv
    BY InitCInv
  <1>2. CInv /\ [Next]_vars => CInv'
    BY NextCInv
  <1>3. CInv => Course
    BY DEF CInv
  <1> QED  BY <1>1, <1>2, <1>3, PTL DEF Spec

\* Where the receiver strips nothing and no character is split between two READs, what the
\* traces of TryReadWrite call an error does not happen: a direct transfer finds the TX buffer
\* empty (io.c:1043), a status sequence goes behind all that is held (io.c:912), and no READ is
\* left waiting beside received bytes (io.c:1051, io.c:1223).
THEOREM NothingOvertaken ==
  ASSUME Steady
  PROVE  Spec => [](DirectAfterTx /\ InsertBehind /\ (Unsplit => ReadNotStarved))
  <1>1. Init => CInv
    BY InitCInv
  <1>2. CInv /\ [Next]_vars => CInv'
    BY NextCInv
  <1>3. CInv => DirectAfterTx /\ InsertBehind /\ (Unsplit => ReadNotStarved)
    <2> SUFFICES ASSUME CInv PROVE DirectAfterTx /\ InsertBehind /\ (Unsplit => ReadNotStarved)
      OBVIOUS
    <2>1. ASSUME At("dcopy"), work.chunk > 0 PROVE tx.busy = 0
      <3>1. Sent /\ work.chunk <= work.budget /\ work.chunk \in Nat /\ work.budget \in Nat
        BY <2>1 DEF CInv, Inv, TypeOK, ChunksFit, Course, TxFirst, At
      <3> QED  BY <2>1, <3>1 DEF Sent
    <2>2. ASSUME At("insread"), reads # <<>> PROVE rx.busy = 0 /\ insert = <<>>
      <3>1. RawSequences # {}
        BY <2>2 DEF CInv, Course, ReadFirst, At
      <3>2. Unsplit
        BY <3>1 DEF Steady
      <3> QED  BY <2>2, <3>2 DEF CInv, Course, ReadFirst, At
    <2>3. ASSUME Unsplit, At("idle"), reads # <<>> PROVE rx.busy = 0 /\ insert = <<>>
      BY <2>3 DEF CInv, Course, ReadFirst, At
    <2> QED  BY <2>1, <2>2, <2>3 DEF DirectAfterTx, InsertBehind, ReadNotStarved
  <1> QED  BY <1>1, <1>2, <1>3, PTL DEF Spec

\* Of the two rings, insertData, the WRITEs' buffers and all the shortcuts between them a reader
\* sees one stream: the written characters as the line makes them, in their order, none twice and
\* none left out but for an overrun or a purge, with status sequences between them.  It asks that
\* the receiver strips no character, for a run of the TX buffer of which nothing is left passes
\* for an empty buffer and later bytes overtake the rest (bufutils.c:824); and that no status
\* sequence is inserted while characters may be split between two READs, for FdoPortIo inserts
\* without a look at what is held back (io.c:912).
THEOREM PromiseKept == ASSUME Steady PROVE Spec => KeepsPromise
  <1>1. Init => CInv /\ Promise!Init
    BY InitCInv, PromiseInit
  <1>2. CInv /\ [Next]_vars => CInv'
    BY NextCInv
  <1>3. CInv /\ CInv' /\ [Next]_vars => [Promise!Next]_(Promise!vars)
    <2> SUFFICES ASSUME CInv, CInv', [Next]_vars PROVE Steps
      BY DEF Steps
    <2>1. CASE Next
      BY <2>1, NextSteps DEF CInv
    <2>2. CASE UNCHANGED vars
      BY <2>2, StutterStep DEF vars, Todo, Pending
    <2> QED  BY <2>1, <2>2
  <1> QED  BY <1>1, <1>2, <1>3, PTL DEF Spec, KeepsPromise, Promise!Spec
=============================================================================
