---------------------------- MODULE Setup_proofs ----------------------------
(* Two pairs never have the same number (OneNumber of module Setup), for   *)
(* every set of machines, scripts, failing calls and strangers.  The       *)
(* invariant is NumbersInv: every pair that is there has a number of its   *)
(* own, but the one that Install has just made; what is left to do says    *)
(* whether a number has been chosen for it, and then that number is free.  *)
(* Nothing that set-up, the driver, the system or the user does in between *)
(* adds a pair or changes a number (Keeps), the loops over the devices     *)
(* found included (LoopKeeps).                                             *)
EXTENDS Setup, FiniteSetTheorems, SequenceTheorems, WellFoundedInduction, TLAPS

-----------------------------------------------------------------------------
(* What calls of Windows and of the driver do to the numbers of the pairs. *)

\* A machine has its bus devices.
Shaped(w) ==
  /\ {"bus", "port", "list", "kept", "arb", "log", "soft"} \subseteq DOMAIN w
  /\ DOMAIN w.bus = Slots
  /\ \A s \in Slots : DOMAIN w.bus[s] = {"here", "num", "state", "fname"}

\* From w to v no pair has come and none has changed its number.
Keeps(w, v) ==
  /\ Shaped(v)
  /\ \A s \in Slots : v.bus[s].here => w.bus[s].here /\ v.bus[s].num = w.bus[s].num

LEMMA KeepsTransitive ==
  ASSUME NEW u, NEW v, NEW w, Keeps(u, v), Keeps(v, w)
  PROVE  Keeps(u, w)
  BY DEF Keeps

LEMMA KeepsNumbers ==
  ASSUME NEW v, NEW w, OwnNumbers(w), Keeps(w, v)
  PROVE  OwnNumbers(v)
  BY DEF Keeps, OwnNumbers

\* Changes of anything but the bus devices.
LEMMA SameBusKeeps ==
  ASSUME NEW w, NEW v, Shaped(w), DOMAIN v = DOMAIN w, v.bus = w.bus
  PROVE  Keeps(w, v)
  BY DEF Keeps, Shaped

LEMMA OtherFieldsKeep ==
  ASSUME NEW w, Shaped(w), NEW x
  PROVE  /\ Keeps(w, w) /\ Keeps(w, [w EXCEPT !.port = x]) /\ Keeps(w, [w EXCEPT !.list = x])
         /\ Keeps(w, [w EXCEPT !.kept = x]) /\ Keeps(w, [w EXCEPT !.arb = x])
         /\ Keeps(w, [w EXCEPT !.log = x]) /\ Keeps(w, [w EXCEPT !.soft = x])
  BY SameBusKeeps DEF Shaped

LEMMA SetStateKeeps ==
  ASSUME NEW w, Shaped(w), NEW d, NEW x
  PROVE  Keeps(w, SetState(w, d, x))
  BY DEF Keeps, Shaped, SetState

LEMMA PortCallsKeep ==
  ASSUME NEW w, Shaped(w), NEW k
  PROVE  /\ Keeps(w, AddFdoPort(w, k)) /\ Keeps(w, RemoveFdoPort(w, k))
         /\ Keeps(w, PortsClassInstalls(w, k)) /\ Keeps(w, Unseen(w, k))
  <1>1. ASSUME NEW a, NEW b
        PROVE  LET v == [w EXCEPT !.port[k].state = a, !.port[k].name = b]
               IN  DOMAIN v = DOMAIN w /\ v.bus = w.bus
    BY DEF Shaped
  <1>2. Keeps(w, AddFdoPort(w, k))
    BY <1>1, SameBusKeeps DEF AddFdoPort
  <1>3. Keeps(w, RemoveFdoPort(w, k))
    BY SameBusKeeps DEF RemoveFdoPort, Shaped
  <1>4. ASSUME NEW n
        PROVE  LET v == [w EXCEPT !.arb[n] = "ours", !.port[k].real = n]
               IN  DOMAIN v = DOMAIN w /\ v.bus = w.bus
    BY DEF Shaped
  <1>5. Keeps(w, PortsClassInstalls(w, k))
    <2> DEFINE free == {i \in 1..Len(ComOrder) : w.arb[ComOrder[i]] = "free"}
               n == ComOrder[CHOOSE i \in free : \A j \in free : i <= j]
               v == [w EXCEPT !.arb[n] = "ours", !.port[k].real = n]
    <2>1. PortsClassInstalls(w, k) \in {w, v}
      BY DEF PortsClassInstalls
    <2> HIDE DEF n
    <2>2. Keeps(w, v)
      BY <1>4, SameBusKeeps
    <2> QED BY <2>1, <2>2, SameBusKeeps
  <1>6. Keeps(w, Unseen(w, k))
    <2> DEFINE v == RemoveFdoPort(w, k)
    <2>1. Keeps(w, v)
      BY <1>3
    <2> HIDE DEF v
    <2>2. DOMAIN Unseen(w, k) = DOMAIN v /\ Unseen(w, k).bus = v.bus
      BY <2>1 DEF Unseen, v, Keeps, Shaped
    <2> QED BY <2>1, <2>2, SameBusKeeps, KeepsTransitive DEF Keeps
  <1> QED BY <1>2, <1>3, <1>5, <1>6

LEMMA SeenKeeps ==
  ASSUME NEW w, Shaped(w), NEW k
  PROVE  Keeps(w, Seen(w, k))
  <1> DEFINE com == IsComClass(w.kept[k].name)
             new == [w EXCEPT !.port[k] = [@ EXCEPT !.here = TRUE, !.known = TRUE, !.com = com,
                                                    !.state = IF w.port[k].known THEN @ ELSE "failed"]]
             installed == IF w.port[k].known \/ ~com THEN new ELSE PortsClassInstalls(new, k)
  <1>1. Keeps(w, new)
    BY SameBusKeeps DEF Shaped
  <1>2. Keeps(new, installed)
    <2> HIDE DEF new
    <2>1. Shaped(new)
      BY <1>1 DEF Keeps
    <2> QED BY <2>1, PortCallsKeep, SameBusKeeps
  <1>3. Keeps(w, installed) /\ Shaped(installed)
    BY <1>1, <1>2, KeepsTransitive DEF Keeps
  <1>4. Seen(w, k) = IF w.port[k].here THEN w
                     ELSE IF installed.port[k].state = "off" THEN installed
                     ELSE AddFdoPort(installed, k)
    BY DEF Seen
  <1> HIDE DEF installed
  <1>5. Keeps(installed, AddFdoPort(installed, k))
    BY <1>3, PortCallsKeep
  <1> QED BY <1>3, <1>4, <1>5, KeepsTransitive, SameBusKeeps

LEMMA QueryBusRelationsKeeps ==
  ASSUME NEW w, Shaped(w), NEW n
  PROVE  Keeps(w, QueryBusRelations(w, n))
  BY SeenKeeps, KeepsTransitive DEF QueryBusRelations, Keeps

LEMMA ListKeeps ==
  ASSUME NEW w, Shaped(w), NEW s
  PROVE  Keeps(w, ListFdoBusInsert(w, s)) /\ Keeps(w, ListFdoBusRemove(w, s))
  <1>1. ASSUME NEW l PROVE Keeps(w, [w EXCEPT !.list = l])
    BY SameBusKeeps DEF Shaped
  <1>2. Keeps(w, ListFdoBusInsert(w, s))
    <2> DEFINE at == {i \in 1..Len(w.list) : w.bus[s].num <= NumberAt(w, i)}
               l == IF at = {} THEN << s >> \o w.list
                    ELSE InsertAt(w.list, 1 + CHOOSE i \in at : \A j \in at : i <= j, s)
    <2>1. ListFdoBusInsert(w, s) = [w EXCEPT !.list = l]
      BY DEF ListFdoBusInsert
    <2> HIDE DEF l
    <2> QED BY <1>1, <2>1
  <1>3. Keeps(w, ListFdoBusRemove(w, s))
    <2> DEFINE l == SelectSeq(w.list, LAMBDA x : x # s)
    <2>1. ListFdoBusRemove(w, s) = [w EXCEPT !.list = l]
      BY DEF ListFdoBusRemove
    <2> HIDE DEF l
    <2> QED BY <1>1, <2>1
  <1> QED BY <1>2, <1>3

\* The driver chooses a number only for a bus without one.
LEMMA GetPortNumKeeps ==
  ASSUME NEW w, Shaped(w), OwnNumbers(w), NEW s
  PROVE  Keeps(w, GetPortNum(w, s))
  <1> DEFINE x == ListFdoBusGetFreeNum(w)
             v == [w EXCEPT !.bus[s].num = x]
  <1>1. GetPortNum(w, s) = IF w.bus[s].num # -1 THEN w ELSE v
    BY DEF GetPortNum
  <1> HIDE DEF x
  <1>2. CASE w.bus[s].num # -1
    BY <1>1, <1>2, SameBusKeeps
  <1>3. CASE w.bus[s].num = -1
    <2>1. Shaped(v)
      BY DEF Shaped
    <2>2. \A t \in Slots : v.bus[t].here = w.bus[t].here /\ (t # s => v.bus[t] = w.bus[t])
      BY DEF Shaped
    <2>3. s \in Slots => ~w.bus[s].here
      BY <1>3 DEF OwnNumbers
    <2> HIDE DEF v
    <2>4. Keeps(w, v)
      BY <2>1, <2>2, <2>3 DEF Keeps
    <2> QED BY <1>1, <1>3, <2>4
  <1> QED BY <1>2, <1>3

LEMMA AddFdoBusKeeps ==
  ASSUME NEW w, Shaped(w), OwnNumbers(w), NEW s
  PROVE  Keeps(w, AddFdoBus(w, s))
  <1> DEFINE n == GetPortNum(w, s)
             i == ListFdoBusInsert(n, s)
             o == SetState(i, BusDev(s), "on")
             f == SetState(n, BusDev(s), "failed")
  <1>1. Keeps(w, n) /\ Shaped(n)
    BY GetPortNumKeeps DEF Keeps
  <1>2. AddFdoBus(w, s) \in {f, QueryBusRelations(o, n.bus[s].num)}
    BY DEF AddFdoBus
  <1> HIDE DEF n
  <1>3. Keeps(n, f)
    BY <1>1, SetStateKeeps
  <1>4. Keeps(n, i) /\ Shaped(i)
    BY <1>1, ListKeeps DEF Keeps
  <1> HIDE DEF i
  <1>5. Keeps(i, o) /\ Shaped(o)
    BY <1>4, SetStateKeeps DEF Keeps
  <1> HIDE DEF o, f
  <1>6. Keeps(o, QueryBusRelations(o, n.bus[s].num))
    BY <1>5, QueryBusRelationsKeeps
  <1> QED BY <1>1, <1>2, <1>3, <1>4, <1>5, <1>6, KeepsTransitive

LEMMA RemoveFdoBusKeeps ==
  ASSUME NEW w, Shaped(w), NEW s
  PROVE  Keeps(w, RemoveFdoBus(w, s))
  <1> DEFINE n == w.bus[s].num
             a == Unseen(w, << n, "A" >>)
             b == Unseen(a, << n, "B" >>)
  <1>1. RemoveFdoBus(w, s) \in {w, ListFdoBusRemove(b, s)}
    BY DEF RemoveFdoBus
  <1> HIDE DEF n
  <1>2. Keeps(w, a) /\ Shaped(a)
    BY PortCallsKeep DEF Keeps
  <1> HIDE DEF a
  <1>3. Keeps(a, b) /\ Shaped(b)
    BY <1>2, PortCallsKeep DEF Keeps
  <1> HIDE DEF b
  <1> QED BY <1>1, <1>2, <1>3, ListKeeps, KeepsTransitive, OtherFieldsKeep

LEMMA StopKeeps ==
  ASSUME NEW w, Shaped(w), NEW d
  PROVE  Keeps(w, Stop(w, d)) /\ Shaped(Stop(w, d))
  BY RemoveFdoBusKeeps, PortCallsKeep DEF Stop, Keeps

LEMMA BeginKeeps ==
  ASSUME NEW w, Shaped(w), OwnNumbers(w), NEW d
  PROVE  Keeps(w, Begin(w, d))
  BY AddFdoBusKeeps, PortCallsKeep DEF Begin

LEMMA ChangeStateKeeps ==
  ASSUME NEW w, Shaped(w), OwnNumbers(w), NEW d, NEW how \in {"disable", "enable", "restart"}
  PROVE  Keeps(w, ChangeState(w, d, how))
  <1> DEFINE t == Stop(w, d)
  <1>1. Keeps(w, t) /\ Shaped(t) /\ OwnNumbers(t)
    BY StopKeeps, KeepsNumbers
  <1>2. Keeps(w, w) /\ \A x : Keeps(w, SetState(w, d, x))
    BY OtherFieldsKeep, SetStateKeeps
  <1>3. Disabled(w, d) = IF InUse(w, d) THEN SetState(w, d, "off later") ELSE SetState(t, d, "off")
    BY DEF Disabled
  <1>4. Restarted(w, d) = IF IsDisabled(w, d) THEN w
                          ELSE IF InUse(w, d) THEN SetState(w, d, "on later") ELSE Begin(t, d)
    BY DEF Restarted
  <1> HIDE DEF t
  <1>5. Keeps(t, SetState(t, d, "off")) /\ Keeps(t, Begin(t, d))
    BY <1>1, SetStateKeeps, BeginKeeps
  <1>6. Keeps(w, Disabled(w, d))
    BY <1>1, <1>2, <1>3, <1>5, KeepsTransitive
  <1>7. Keeps(w, Restarted(w, d))
    BY <1>1, <1>2, <1>4, <1>5, KeepsTransitive
  <1>8. Keeps(w, Enabled(w, d))
    BY <1>2, BeginKeeps DEF Enabled
  <1> QED BY <1>6, <1>7, <1>8 DEF ChangeState

LEMMA RemovedKeeps ==
  ASSUME NEW w, Shaped(w), NEW d
  PROVE  Keeps(w, Removed(w, d))
  <1> DEFINE t == Stop(w, d)
             real == w.port[PortOf(d)].real
             b == [t EXCEPT !.bus[d[2]] = NoBus]
             x == IF real = NoName THEN t.arb ELSE [t.arb EXCEPT ![real] = "free"]
             p == [t EXCEPT !.port[PortOf(d)] = NoPort, !.arb = x]
  <1>1. Keeps(w, t) /\ Shaped(t)
    BY StopKeeps
  <1>2. Removed(w, d) \in {SetState(w, d, "gone later"), b, p}
    <2>1. CASE InUse(w, d)
      BY <2>1 DEF Removed
    <2>2. CASE ~InUse(w, d) /\ IsBus(d)
      BY <2>2 DEF Removed
    <2>3. CASE ~InUse(w, d) /\ ~IsBus(d)
      BY <1>1, <2>3 DEF Removed, Shaped
    <2> QED BY <2>1, <2>2, <2>3
  <1> HIDE DEF t
  <1>3. Keeps(t, b)
    BY <1>1 DEF Keeps, Shaped, NoBus
  <1> HIDE DEF x
  <1>4. Keeps(t, p)
    <2>1. DOMAIN p = DOMAIN t /\ p.bus = t.bus
      BY <1>1 DEF Shaped
    <2> HIDE DEF p
    <2> QED BY <1>1, <2>1, SameBusKeeps
  <1> HIDE DEF b, p
  <1>5. Keeps(w, SetState(w, d, "gone later"))
    BY SetStateKeeps
  <1>6. Keeps(w, b) /\ Keeps(w, p)
    BY <1>1, <1>3, <1>4, KeepsTransitive
  <1> QED BY <1>2, <1>5, <1>6

-----------------------------------------------------------------------------
(* Loops over the devices *)

\* Induction over the subsets of a finite set, for a set of them.
LEMMA SubsetInduction ==
  ASSUME NEW X, IsFiniteSet(X), NEW T,
         \A s \in SUBSET X : (\A r \in SUBSET s : r # s => r \in T) => s \in T
  PROVE  SUBSET X \subseteq T
  <1> DEFINE R == StrictSubsetOrdering(X)
             U == (SUBSET X) \ T
  <1> SUFFICES ASSUME U # {} PROVE FALSE
    OBVIOUS
  <1>1. IsWellFoundedOn(R, FiniteSubsetsOf(X)) /\ FiniteSubsetsOf(X) = SUBSET X
    BY FS_StrictSubsetOrderingWellFounded, FS_Subset DEF FiniteSubsetsOf
  <1>2. U \subseteq FiniteSubsetsOf(X)
    BY <1>1
  <1> HIDE DEF R, U
  <1>3. PICK s \in U : \A r \in U : ~ (<<r, s>> \in R)
    BY <1>1, <1>2, WFMin
  <1> USE DEF R, U
  <1>4. \A r \in SUBSET s : r # s => r \in T
    BY <1>3 DEF StrictSubsetOrdering
  <1> QED  BY <1>3, <1>4

\* The greatest of finitely many numbers.
LEMMA GreatestNumber ==
  ASSUME NEW X, IsFiniteSet(X), X \subseteq Nat, X # {}
  PROVE  Max(X) \in X /\ \A y \in X : Max(X) >= y
  <1> DEFINE T == {s \in SUBSET X : s # {} => \E x \in s : \A y \in s : x >= y}
  <1>1. ASSUME NEW s \in SUBSET X, \A r \in SUBSET s : r # s => r \in T, s # {}
        PROVE  \E x \in s : \A y \in s : x >= y
    <2>1. PICK z \in s : TRUE
      BY <1>1
    <2>2. CASE s \ {z} = {}
      <3>1. \A y \in s : y = z
        BY <2>2
      <3> QED BY <2>1, <3>1
    <2>3. CASE s \ {z} # {}
      <3>0. s \ {z} \in T
        BY <1>1, <2>1
      <3>1. PICK x \in s \ {z} : \A y \in s \ {z} : x >= y
        BY <2>3, <3>0
      <3>2. CASE x >= z
        BY <3>1, <3>2
      <3>3. CASE ~(x >= z)
        BY <2>1, <3>1, <3>3
      <3> QED BY <3>2, <3>3
    <2> QED BY <2>2, <2>3
  <1>2. SUBSET X \subseteq T
    <2>1. \A s \in SUBSET X : (\A r \in SUBSET s : r # s => r \in T) => s \in T
      BY <1>1
    <2> HIDE DEF T
    <2> QED BY <2>1, SubsetInduction
  <1>3. \E x \in X : \A y \in X : x >= y
    BY <1>2
  <1> QED BY <1>3 DEF Max

\* The least of a set of numbers.
LEMMA LeastNumber ==
  ASSUME NEW T, T \subseteq Nat, T # {}
  PROVE  \E n \in T : \A k \in T : n <= k
  <1> DEFINE Less == {p \in Nat \X Nat : p[1] < p[2]}
  <1>1. IsWellFoundedOn(Less, Nat)
    BY NatLessThanWellFounded DEF OpToRel
  <1> HIDE DEF Less
  <1>2. PICK n \in T : \A k \in T : ~ (<< k, n >> \in Less)
    BY <1>1, WFMin
  <1>3. \A k \in T : ~ (k < n)
    <2> TAKE k \in T
    <2>1. << k, n >> \in Nat \X Nat /\ << k, n >>[1] = k /\ << k, n >>[2] = n
      OBVIOUS
    <2> QED BY <1>2, <2>1 DEF Less
  <1> QED BY <1>3

\* The bodies of the loops that change devices: UpdateDriver, and a restart of the
\* system, which ends what was put off, stops what runs and starts it again.
Body(what, w, d) ==
  CASE what = "drive"  -> AddFdoBus(w, d)
    [] what = "finish" -> IF StateOf(w, d) = "gone later" THEN Removed(w, d)
                          ELSE IF StateOf(w, d) = "off later" THEN Disabled(w, d)
                          ELSE w
    [] what = "stop"   -> IF Runs(StateOf(w, d)) THEN Stop(w, d) ELSE w
    [] what = "start"  -> IF w.bus[d[2]].here /\ Runs(StateOf(w, d)) THEN AddFdoBus(w, d[2])
                          ELSE w
Loops == {"drive", "finish", "stop", "start"}

LEMMA BodyKeeps ==
  ASSUME NEW w, Shaped(w), OwnNumbers(w), NEW d, NEW what \in Loops
  PROVE  Keeps(w, Body(what, w, d))
  <1>1. Keeps(w, w) /\ Keeps(w, AddFdoBus(w, d)) /\ Keeps(w, Removed(w, d))
    BY OtherFieldsKeep, AddFdoBusKeeps, RemovedKeeps
  <1>2. Keeps(w, Stop(w, d)) /\ Keeps(w, AddFdoBus(w, d[2]))
    BY StopKeeps, AddFdoBusKeeps
  <1>3. Keeps(w, Disabled(w, d))
    <2>1. ChangeState(w, d, "disable") = Disabled(w, d)
      BY DEF ChangeState
    <2> QED BY <2>1, ChangeStateKeeps
  <1> QED BY <1>1, <1>2, <1>3 DEF Body, Loops

\* What FoldLeft makes of a loop over ds: the machine behind each set of its turns.
Turns(H, what, w, ds, X) ==
  H = [s \in SUBSET X |-> IF s = {} THEN w ELSE Body(what, H[s \ {Max(s)}], ds[Max(s)])]

LEMMA TurnsExist ==
  ASSUME NEW what, NEW w, NEW ds, NEW X, IsFiniteSet(X), X \subseteq Nat
  PROVE  \E H : Turns(H, what, w, ds, X)
  <1> DEFINE T == {s \in SUBSET X : \E H : Turns(H, what, w, ds, s)}
  <1>1. ASSUME NEW s \in SUBSET X, \A r \in SUBSET s : r # s => r \in T
        PROVE  \E H : Turns(H, what, w, ds, s)
    <2>1. CASE s = {}
      <3>1. Turns([r \in SUBSET s |-> w], what, w, ds, s)
        BY <2>1 DEF Turns
      <3> QED BY <3>1
    <2>2. CASE s # {}
      <3> DEFINE x == Max(s)
      <3>0. IsFiniteSet(s) /\ s \subseteq Nat
        BY FS_Subset
      <3>1. x \in s /\ \A y \in s : x >= y
        BY <2>2, <3>0, GreatestNumber
      <3> DEFINE q == s \ {x}
      <3>2. PICK G : Turns(G, what, w, ds, q)
        BY <1>1, <3>1
      <3>3. ASSUME NEW r \in SUBSET s, x \in r PROVE Max(r) = x
        <4>1. IsFiniteSet(r) /\ r \subseteq Nat /\ r # {}
          BY <3>0, <3>3, FS_Subset
        <4>2. Max(r) \in r /\ \A y \in r : Max(r) >= y
          BY <4>1, GreatestNumber
        <4>3. Max(r) >= x /\ x >= Max(r) /\ Max(r) \in Nat /\ x \in Nat
          BY <3>0, <3>1, <3>3, <4>2
        <4> HIDE DEF x
        <4> QED BY <4>3
      <3> HIDE DEF x
      <3> DEFINE H == [r \in SUBSET s |-> IF x \in r THEN Body(what, G[r \ {x}], ds[x]) ELSE G[r]]
      <3>4. ASSUME NEW r \in SUBSET s
            PROVE  H[r] = IF r = {} THEN w ELSE Body(what, H[r \ {Max(r)}], ds[Max(r)])
        <4>1. CASE x \in r
          <5>1. r \ {x} \in SUBSET s /\ x \notin r \ {x}
            OBVIOUS
          <5>2. H[r \ {x}] = G[r \ {x}]
            BY <5>1
          <5> QED BY <3>3, <4>1, <5>2
        <4>2. CASE x \notin r
          <5>1. r \in SUBSET q
            BY <4>2
          <5>2. G[r] = IF r = {} THEN w ELSE Body(what, G[r \ {Max(r)}], ds[Max(r)])
            BY <3>2, <5>1 DEF Turns
          <5>3. H[r] = G[r] /\ H[r \ {Max(r)}] = G[r \ {Max(r)}]
            <6>1. r \ {Max(r)} \in SUBSET s /\ x \notin r \ {Max(r)}
              BY <4>2
            <6> QED BY <4>2, <6>1
          <5> QED BY <5>2, <5>3
        <4> QED BY <4>1, <4>2
      <3>5. Turns(H, what, w, ds, s)
        <4>1. H = [r \in SUBSET s |-> H[r]]
          OBVIOUS
        <4> HIDE DEF H
        <4> QED BY <3>4, <4>1 DEF Turns
      <3> QED BY <3>5
    <2> QED BY <2>1, <2>2
  <1>2. SUBSET X \subseteq T
    <2>1. \A s \in SUBSET X : (\A r \in SUBSET s : r # s => r \in T) => s \in T
      BY <1>1
    <2> HIDE DEF T
    <2> QED BY <2>1, SubsetInduction
  <1>3. X \in T
    <2> HIDE DEF T
    <2> QED BY <1>2
  <1> QED BY <1>3

LEMMA TurnsKeep ==
  ASSUME NEW what \in Loops, NEW w, Shaped(w), OwnNumbers(w), NEW ds,
         NEW X, IsFiniteSet(X), X \subseteq Nat, NEW H, Turns(H, what, w, ds, X)
  PROVE  Keeps(w, H[X]) /\ Shaped(H[X]) /\ OwnNumbers(H[X])
  <1> DEFINE T == {s \in SUBSET X : Keeps(w, H[s])}
  <1>1. ASSUME NEW s \in SUBSET X, \A r \in SUBSET s : r # s => r \in T
        PROVE  Keeps(w, H[s])
    <2>1. CASE s = {}
      BY <2>1, OtherFieldsKeep DEF Turns
    <2>2. CASE s # {}
      <3> DEFINE x == Max(s)
                 v == H[s \ {x}]
      <3>1. x \in s
        BY <2>2, GreatestNumber, FS_Subset
      <3>2. H[s] = Body(what, v, ds[x])
        BY <2>2 DEF Turns
      <3>3. Keeps(w, v)
        BY <1>1, <3>1
      <3> HIDE DEF v
      <3>4. Shaped(v) /\ OwnNumbers(v)
        BY <3>3, KeepsNumbers DEF Keeps
      <3> QED BY <3>2, <3>3, <3>4, BodyKeeps, KeepsTransitive
    <2> QED BY <2>1, <2>2
  <1>2. SUBSET X \subseteq T
    <2>1. \A s \in SUBSET X : (\A r \in SUBSET s : r # s => r \in T) => s \in T
      BY <1>1
    <2> HIDE DEF T
    <2> QED BY <2>1, SubsetInduction
  <1>3. Keeps(w, H[X])
    BY <1>2
  <1> QED BY <1>3, KeepsNumbers DEF Keeps

\* What Selected takes: each index passes the test, and each that passes is there.
LEMMA Ranks ==
  ASSUME NEW at, IsFiniteSet(at), at \subseteq Nat
  PROVE  \A i \in at :
           LET n == Cardinality({j \in at : j <= i})
           IN  /\ n \in 1..Cardinality(at)
               /\ (CHOOSE k \in at : Cardinality({j \in at : j <= k}) = n) = i
  <1> DEFINE upto(k) == {j \in at : j <= k}
             n(k) == Cardinality(upto(k))
  <1> SUFFICES ASSUME NEW i \in at
               PROVE  /\ n(i) \in 1..Cardinality(at)
                      /\ (CHOOSE k \in at : n(k) = n(i)) = i
    OBVIOUS
  <1>1. \A k \in at : IsFiniteSet(upto(k)) /\ k \in upto(k) /\ upto(k) \subseteq at
    <2> TAKE k \in at
    <2>1. upto(k) \subseteq at /\ k \in upto(k)
      OBVIOUS
    <2> QED BY <2>1, FS_Subset
  <1>2. n(i) \in 1..Cardinality(at)
    <2>1. n(i) \in Nat /\ Cardinality(at) \in Nat /\ n(i) <= Cardinality(at)
      BY <1>1, FS_Subset, FS_CardinalityType
    <2>2. n(i) # 0
      BY <1>1, FS_EmptySet
    <2> QED BY <2>1, <2>2
  <1>3. ASSUME NEW k \in at, NEW l \in at, k < l PROVE n(k) # n(l)
    <2>0. k \in Nat /\ l \in Nat
      OBVIOUS
    <2>1. upto(k) \subseteq upto(l)
      <3> SUFFICES ASSUME NEW j \in at, j <= k PROVE j <= l
        OBVIOUS
      <3>1. j \in Nat
        OBVIOUS
      <3> QED BY <1>3, <2>0, <3>1
    <2>2. l \in upto(l) /\ l \notin upto(k)
      BY <1>3
    <2> HIDE DEF upto
    <2> QED BY <1>1, <2>1, <2>2, FS_Subset
  <1>4. \A k \in at : n(k) = n(i) => k = i
    <2> SUFFICES ASSUME NEW k \in at, n(k) = n(i), k # i PROVE FALSE
      OBVIOUS
    <2>1. k < i \/ i < k
      OBVIOUS
    <2> QED BY <1>3, <2>1
  <1> HIDE DEF n
  <1> QED BY <1>2, <1>4

\* Two sequences, of whatever elements, joined.
LEMMA Joined ==
  ASSUME NEW a \in Nat, NEW b \in Nat, NEW f, NEW g, DOMAIN f = 1..a, DOMAIN g = 1..b,
         f = [i \in 1..a |-> f[i]], g = [i \in 1..b |-> g[i]]
  PROVE  /\ Len(f) = a /\ Len(g) = b
         /\ Len(f \o g) = a + b /\ DOMAIN (f \o g) = 1..a + b
         /\ \A i \in 1..a : (f \o g)[i] = f[i]
         /\ \A i \in 1..b : (f \o g)[a + i] = g[i]
  <1> DEFINE T == {f[i] : i \in 1..a} \cup {g[i] : i \in 1..b}
  <1>1. f \in [1..a -> T] /\ g \in [1..b -> T]
    OBVIOUS
  <1> HIDE DEF T
  <1>2. f \in Seq(T) /\ g \in Seq(T) /\ Len(f) = a /\ Len(g) = b
    BY <1>1
  <1> QED BY <1>2, ConcatProperties

\* The indexes that pass the test Found.
All(w) == BusSeq(w) \o PortSeq(w)
Where(w, id, phantoms) == {i \in DOMAIN All(w) : Found(w, All(w)[i], id, phantoms)}

Taken(w, id, phantoms, n) ==
  All(w)[CHOOSE i \in Where(w, id, phantoms) :
           Cardinality({j \in Where(w, id, phantoms) : j <= i}) = n]

LEMMA AllDevices ==
  ASSUME NEW w
  PROVE  /\ Len(All(w)) \in Nat /\ DOMAIN All(w) = 1..Len(All(w))
         /\ \A s \in Slots : \E i \in DOMAIN All(w) : All(w)[i] = BusDev(s)
  <1>1. Cardinality(Slots) \in Nat /\ Slots = 1..Cardinality(Slots)
    BY PlacesAssumption, FS_CardinalityType
  <1>2. BusSeq(w) = [i \in 1..Cardinality(Slots) |-> BusDev(i)]
    BY DEF BusSeq
  <1>3. 2 * (MaxNum + 1) \in Nat
    BY PlacesAssumption
  <1>4. PortSeq(w) = [i \in 1..2 * (MaxNum + 1) |->
                        << "port", (i - 1) \div 2, IF i % 2 = 1 THEN "A" ELSE "B" >>]
    BY DEF PortSeq
  <1>5. /\ Len(All(w)) = Cardinality(Slots) + 2 * (MaxNum + 1)
        /\ DOMAIN All(w) = 1..Cardinality(Slots) + 2 * (MaxNum + 1)
        /\ \A i \in 1..Cardinality(Slots) : All(w)[i] = BusDev(i)
    BY <1>1, <1>2, <1>3, <1>4, Joined DEF All
  <1>6. \A s \in Slots : s \in DOMAIN All(w) /\ All(w)[s] = BusDev(s)
    BY <1>1, <1>3, <1>5
  <1> QED BY <1>1, <1>3, <1>5, <1>6

LEMMA EnumIsSeq ==
  ASSUME NEW w, NEW id, NEW phantoms
  PROVE  /\ IsFiniteSet(Where(w, id, phantoms)) /\ Where(w, id, phantoms) \subseteq Nat
         /\ EnumDevices(w, id, phantoms) =
              [n \in 1..Cardinality(Where(w, id, phantoms)) |-> Taken(w, id, phantoms, n)]
         /\ Cardinality(Where(w, id, phantoms)) \in Nat
  <1>1. IsFiniteSet(DOMAIN All(w)) /\ DOMAIN All(w) \subseteq Nat
    <2>1. PICK n \in Nat : DOMAIN All(w) = 1..n
      BY AllDevices
    <2>2. IsFiniteSet(1..n) /\ 1..n \subseteq Nat
      BY FS_Interval
    <2> QED BY <2>1, <2>2
  <1>2. IsFiniteSet(Where(w, id, phantoms)) /\ Where(w, id, phantoms) \subseteq Nat
    BY <1>1, FS_Subset DEF Where
  <1>3. Cardinality(Where(w, id, phantoms)) \in Nat
    BY <1>2, FS_CardinalityType
  <1> QED BY <1>2, <1>3 DEF EnumDevices, Selected, Where, All, Taken

\* EnumDevices finds each pair that is there.
LEMMA EachPairFound ==
  ASSUME NEW w, NEW s \in Slots, w.bus[s].here
  PROVE  BusDev(s) \in ToSet(EnumDevices(w, "bus", FALSE))
  <1> SUFFICES ASSUME NEW no, no = FALSE
               PROVE  BusDev(s) \in ToSet(EnumDevices(w, "bus", no))
    OBVIOUS
  <1> DEFINE at == Where(w, "bus", no)
  <1>1. PICK i \in DOMAIN All(w) : All(w)[i] = BusDev(s)
    BY AllDevices
  <1>2. i \in at
    <2>1. BusDev(s)[1] = "bus" /\ BusDev(s)[2] = s
      BY DEF BusDev
    <2>2. Found(w, BusDev(s), "bus", no)
      BY <2>1 DEF Found, IsBus
    <2> QED BY <1>1, <2>2 DEF Where
  <1> DEFINE n == Cardinality({j \in at : j <= i})
  <1>3. n \in 1..Cardinality(at) /\ (CHOOSE k \in at : Cardinality({j \in at : j <= k}) = n) = i
    <2>1. IsFiniteSet(at) /\ at \subseteq Nat
      BY EnumIsSeq
    <2> HIDE DEF at
    <2> QED BY <1>2, <2>1, Ranks
  <1>4. /\ n \in DOMAIN EnumDevices(w, "bus", no)
        /\ EnumDevices(w, "bus", no)[n] = All(w)[i]
    <2>2. Taken(w, "bus", no, n) = All(w)[i]
      BY <1>3 DEF Taken
    <2>3. \A l \in 1..Cardinality(at) :
            l \in DOMAIN EnumDevices(w, "bus", no)
            /\ EnumDevices(w, "bus", no)[l] = Taken(w, "bus", no, l)
      BY EnumIsSeq
    <2> HIDE DEF at, n
    <2> QED BY <1>3, <2>2, <2>3
  <1>5. ToSet(EnumDevices(w, "bus", no)) =
          {EnumDevices(w, "bus", no)[l] : l \in DOMAIN EnumDevices(w, "bus", no)}
    BY DEF ToSet
  <1> HIDE DEF n
  <1> QED BY <1>1, <1>4, <1>5

\* The turns of a loop over the devices found.
LEMMA FoundTurns ==
  ASSUME NEW w, NEW id, NEW phantoms, NEW at,
         at \subseteq DOMAIN EnumDevices(w, id, phantoms)
  PROVE  /\ IsFiniteSet(at) /\ at \subseteq Nat /\ Cardinality(at) \in Nat
         /\ IsFiniteSet(1..Cardinality(at)) /\ 1..Cardinality(at) \subseteq Nat
  <1>1. PICK n \in Nat : DOMAIN EnumDevices(w, id, phantoms) = 1..n
    BY EnumIsSeq
  <1>2. IsFiniteSet(1..n) /\ 1..n \subseteq Nat
    BY FS_Interval
  <1>3. IsFiniteSet(at) /\ at \subseteq Nat
    BY <1>1, <1>2, FS_Subset
  <1>4. Cardinality(at) \in Nat
    BY <1>3, FS_CardinalityType
  <1> QED BY <1>3, <1>4, FS_Interval

LEMMA RawTurns ==
  ASSUME NEW w
  PROVE  IsFiniteSet(DOMAIN Raw(w)) /\ DOMAIN Raw(w) \subseteq Nat
  <1> SUFFICES ASSUME NEW no, no = FALSE,
                      NEW e, e = EnumDevices(w, "bus", no)
               PROVE  /\ IsFiniteSet(DOMAIN Selected(e, LAMBDA d : StateOf(w, d) = "raw"))
                      /\ DOMAIN Selected(e, LAMBDA d : StateOf(w, d) = "raw") \subseteq Nat
    BY DEF Raw
  <1> DEFINE at == {i \in DOMAIN e : StateOf(w, e[i]) = "raw"}
  <1>1. DOMAIN Selected(e, LAMBDA d : StateOf(w, d) = "raw") = 1..Cardinality(at)
    BY DEF Selected
  <1>2. at \subseteq DOMAIN EnumDevices(w, "bus", no)
    OBVIOUS
  <1> HIDE DEF at
  <1> QED BY <1>1, <1>2, FoundTurns

LEMMA SoftKeeps ==
  ASSUME NEW w, Shaped(w), NEW x
  PROVE  Shaped([w EXCEPT !.soft = x]) /\ Keeps(w, [w EXCEPT !.soft = x])
  <1>1. Keeps(w, [w EXCEPT !.soft = x])
    BY OtherFieldsKeep
  <1> QED BY <1>1 DEF Keeps

LEMMA DrivenKeeps ==
  ASSUME NEW w, Shaped(w), OwnNumbers(w)
  PROVE  Keeps(w, Driven(w))
  <1> DEFINE v == [w EXCEPT !.soft = @ \cup SoftOf("bus")]
             ds == [i \in DOMAIN Raw(w) |-> Raw(w)[i][2]]
             Right(H) == H = [s \in SUBSET DOMAIN ds |->
                                IF s = {} THEN v ELSE AddFdoBus(H[s \ {Max(s)}], ds[Max(s)])]
  <1>1. Driven(w) = (CHOOSE H : Right(H))[DOMAIN ds]
    BY DEF Driven, FoldLeft, MapThenFoldSet
  <1>2. IsFiniteSet(DOMAIN ds) /\ DOMAIN ds \subseteq Nat
    BY RawTurns
  <1>3. Shaped(v) /\ Keeps(w, v)
    <2>1. v = [w EXCEPT !.soft = w.soft \cup SoftOf("bus")]
      BY DEF Shaped
    <2> QED BY <2>1, SoftKeeps
  <1> HIDE DEF v, ds
  <1>4. \A H : Turns(H, "drive", v, ds, DOMAIN ds) <=> Right(H)
    BY DEF Turns, Body
  <1> HIDE DEF Right
  <1>5. PICK H : H = (CHOOSE G : Right(G)) /\ Turns(H, "drive", v, ds, DOMAIN ds)
    BY <1>2, <1>4, TurnsExist
  <1>6. Driven(w) = H[DOMAIN ds]
    BY <1>1, <1>5
  <1>7. OwnNumbers(v)
    BY <1>3, KeepsNumbers
  <1>8. Keeps(v, H[DOMAIN ds])
    BY <1>2, <1>3, <1>5, <1>7, TurnsKeep DEF Loops
  <1> QED BY <1>3, <1>6, <1>8, KeepsTransitive

\* A loop that is a FoldLeft, over any sequence of devices.
LEMMA LoopKeeps ==
  ASSUME NEW what \in Loops, NEW w, Shaped(w), OwnNumbers(w),
         NEW ds, IsFiniteSet(DOMAIN ds), DOMAIN ds \subseteq Nat,
         NEW v, v = (CHOOSE H : Turns(H, what, w, ds, DOMAIN ds))[DOMAIN ds]
  PROVE  Keeps(w, v) /\ Shaped(v) /\ OwnNumbers(v)
  <1>1. PICK H : H = (CHOOSE G : Turns(G, what, w, ds, DOMAIN ds))
                 /\ Turns(H, what, w, ds, DOMAIN ds)
    BY TurnsExist
  <1> QED BY <1>1, TurnsKeep

LEMMA ManyDevices ==
  ASSUME NEW w
  PROVE  /\ IsFiniteSet(DOMAIN BusSeq(w)) /\ DOMAIN BusSeq(w) \subseteq Nat
         /\ IsFiniteSet(DOMAIN (PortSeq(w) \o BusSeq(w)))
         /\ DOMAIN (PortSeq(w) \o BusSeq(w)) \subseteq Nat
  <1>1. Cardinality(Slots) \in Nat
    BY PlacesAssumption, FS_CardinalityType
  <1>2. BusSeq(w) = [i \in 1..Cardinality(Slots) |-> BusDev(i)]
    BY DEF BusSeq
  <1>3. 2 * (MaxNum + 1) \in Nat
    BY PlacesAssumption
  <1>4. PortSeq(w) = [i \in 1..2 * (MaxNum + 1) |->
                        << "port", (i - 1) \div 2, IF i % 2 = 1 THEN "A" ELSE "B" >>]
    BY DEF PortSeq
  <1>5. DOMAIN (PortSeq(w) \o BusSeq(w)) = 1..2 * (MaxNum + 1) + Cardinality(Slots)
    BY <1>1, <1>2, <1>3, <1>4, Joined
  <1>6. DOMAIN BusSeq(w) = 1..Cardinality(Slots)
    BY <1>2
  <1>7. \A n \in Nat : IsFiniteSet(1..n) /\ 1..n \subseteq Nat
    BY FS_Interval
  <1>8. 2 * (MaxNum + 1) + Cardinality(Slots) \in Nat
    BY <1>1, <1>3
  <1> QED BY <1>1, <1>5, <1>6, <1>7, <1>8

LEMMA RebootKeeps ==
  ASSUME NEW w, Shaped(w), OwnNumbers(w)
  PROVE  Keeps(w, Reboot(w))
  <1> DEFINE idle == [w EXCEPT !.port = [k \in Ports |-> [w.port[k] EXCEPT !.busy = FALSE]]]
             Ended(v, d) == IF StateOf(v, d) = "gone later" THEN Removed(v, d)
                            ELSE IF StateOf(v, d) = "off later" THEN Disabled(v, d) ELSE v
             Stopped(v, d) == IF Runs(StateOf(v, d)) THEN Stop(v, d) ELSE v
             Started(v, d) == IF v.bus[d[2]].here /\ Runs(StateOf(v, d)) THEN AddFdoBus(v, d[2])
                              ELSE v
             Right1(H, v, ds) == H = [s \in SUBSET DOMAIN ds |->
                                IF s = {} THEN v ELSE Ended(H[s \ {Max(s)}], ds[Max(s)])]
             Right2(H, v, ds) == H = [s \in SUBSET DOMAIN ds |->
                                IF s = {} THEN v ELSE Stopped(H[s \ {Max(s)}], ds[Max(s)])]
             Right3(H, v, ds) == H = [s \in SUBSET DOMAIN ds |->
                                IF s = {} THEN v ELSE Started(H[s \ {Max(s)}], ds[Max(s)])]
             ends == PortSeq(w) \o BusSeq(w)
             buses == BusSeq(w)
             down == (CHOOSE H : Right1(H, idle, ends))[DOMAIN ends]
             back == (CHOOSE H : Right2(H, down, buses))[DOMAIN buses]
             up == (CHOOSE H : Right3(H, back, buses))[DOMAIN buses]
  <1>1. Reboot(w) = up
    BY Zenon DEF Reboot, FoldLeft, MapThenFoldSet
  <1>2. Keeps(w, idle) /\ Shaped(idle) /\ OwnNumbers(idle)
    <2>1. Keeps(w, idle)
      BY OtherFieldsKeep
    <2> HIDE DEF idle
    <2> QED BY <2>1, KeepsNumbers DEF Keeps
  <1> HIDE DEF idle
  <1>3. /\ IsFiniteSet(DOMAIN ends) /\ DOMAIN ends \subseteq Nat
        /\ IsFiniteSet(DOMAIN buses) /\ DOMAIN buses \subseteq Nat
    BY ManyDevices
  <1> HIDE DEF ends, buses
  <1>4. \A v, ds, H : /\ Turns(H, "finish", v, ds, DOMAIN ds) <=> Right1(H, v, ds)
                      /\ Turns(H, "stop", v, ds, DOMAIN ds) <=> Right2(H, v, ds)
                      /\ Turns(H, "start", v, ds, DOMAIN ds) <=> Right3(H, v, ds)
    BY DEF Turns, Body
  <1> HIDE DEF Right1, Right2, Right3
  <1>5. /\ down = (CHOOSE H : Turns(H, "finish", idle, ends, DOMAIN ends))[DOMAIN ends]
        /\ back = (CHOOSE H : Turns(H, "stop", down, buses, DOMAIN buses))[DOMAIN buses]
        /\ up = (CHOOSE H : Turns(H, "start", back, buses, DOMAIN buses))[DOMAIN buses]
    BY <1>4
  <1> HIDE DEF down, back, up
  <1>6. Keeps(idle, down) /\ Shaped(down) /\ OwnNumbers(down)
    BY <1>2, <1>3, <1>5, LoopKeeps DEF Loops
  <1>7. Keeps(down, back) /\ Shaped(back) /\ OwnNumbers(back)
    BY <1>3, <1>5, <1>6, LoopKeeps DEF Loops
  <1>8. Keeps(back, up)
    BY <1>3, <1>5, <1>7, LoopKeeps DEF Loops
  <1> QED BY <1>1, <1>2, <1>6, <1>7, <1>8, KeepsTransitive

-----------------------------------------------------------------------------
(* Dialogs, calls that can fail, and what set-up does with devices. *)

Memory(d) == DOMAIN d = DOMAIN Idle0

\* From d to e set-up has gone no step further and has chosen no other number.
Same(d, e) == Memory(e) /\ e.todo = d.todo /\ e.num = d.num

LEMMA SameTransitive ==
  ASSUME NEW d, NEW e, NEW f, Same(d, e), Same(e, f)
  PROVE  Same(d, f)
  BY DEF Same

LEMMA OthersSame ==
  ASSUME NEW d, Memory(d), NEW x
  PROVE  /\ Same(d, d) /\ Same(d, [d EXCEPT !.patience = x]) /\ Same(d, [d EXCEPT !.faults = x])
         /\ Same(d, [d EXCEPT !.hurt = x]) /\ Same(d, [d EXCEPT !.reboot = x])
         /\ Same(d, [d EXCEPT !.refused = x]) /\ Same(d, [d EXCEPT !.stack = x])
         /\ Same(d, [d EXCEPT !.log = x]) /\ Same(d, [d EXCEPT !.names = x])
         /\ Same(d, [d EXCEPT !.changed = x]) /\ Same(d, [d EXCEPT !.ok = x])
         /\ Same(d, [d EXCEPT !.bad = x]) /\ Same(d, [d EXCEPT !.others = x])
  BY DEF Same, Memory, Idle0

LEMMA DialogSame ==
  ASSUME NEW d, Memory(d), NEW replies
  PROVE  \A a \in Dialog(d, replies) : Same(d, a.c)
  <1> DEFINE p == [d EXCEPT !.patience = @ - 1]
  <1>1. Same(d, p) /\ Same(d, d)
    <2>1. p = [d EXCEPT !.patience = d.patience - 1]
      BY DEF Memory, Idle0
    <2> QED BY <2>1, OthersSame
  <1>2. \A a \in Dialog(d, replies) : a.c \in {d, p}
    <2> DEFINE Answer(r) == [reply |-> r, c |-> IF r = "try again" THEN p ELSE d]
               none == [reply |-> "none", c |-> d]
               given == {x \in replies : x = "try again" => d.patience > 0}
    <2>1. \A r : Answer(r).c \in {d, p}
      OBVIOUS
    <2>2. Dialog(d, replies) = IF d.silent THEN {none} ELSE {Answer(r) : r \in given}
      BY DEF Dialog
    <2>3. none.c = d
      OBVIOUS
    <2> HIDE DEF Answer, none, given
    <2> QED BY <2>1, <2>2, <2>3
  <1> HIDE DEF p
  <1> QED BY <1>1, <1>2

LEMMA CallSame ==
  ASSUME NEW d, Memory(d), NEW what, NEW replies
  PROVE  /\ \A r \in Call(d, what, replies) : Same(d, r.c)
         /\ what \notin FaultKinds => \A r \in Call(d, what, replies) : Done(r) /\ r.how = "done"
  <1> DEFINE h == [d EXCEPT !.faults = @ - 1, !.hurt = @ \cup {what}]
  <1>1. Same(d, h) /\ Memory(h)
    BY DEF Same, Memory, Idle0
  <1>2. \A a \in Dialog(h, replies) : Same(h, a.c)
    <2> HIDE DEF h
    <2> QED BY <1>1, DialogSame
  <1>3. ASSUME NEW r \in Call(d, what, replies)
        PROVE  r.c = d \/ \E a \in Dialog(h, replies) : r.c = a.c
    <2> DEFINE Failed(a) == [how |-> CASE a.reply = "continue" -> "skipped"
                                       [] a.reply = "try again" -> "done"
                                       [] OTHER -> "cancelled", c |-> a.c]
               done == [how |-> "done", c |-> d]
    <2>1. Call(d, what, replies) = {done} \cup IF d.faults = 0 \/ what \notin FaultKinds THEN {}
                                               ELSE {Failed(a) : a \in Dialog(h, replies)}
      BY DEF Call
    <2>2. \A a : Failed(a).c = a.c
      OBVIOUS
    <2>3. done.c = d
      OBVIOUS
    <2> HIDE DEF h, Failed, done
    <2> QED BY <2>1, <2>2, <2>3
  <1>4. ASSUME what \notin FaultKinds, NEW r \in Call(d, what, replies)
        PROVE  Done(r) /\ r.how = "done"
    <2> DEFINE done == [how |-> "done", c |-> d]
    <2>1. Call(d, what, replies) = {done} \cup {}
      BY <1>4 DEF Call
    <2>2. r = done /\ done.how = "done"
      BY <2>1
    <2> QED BY <2>2 DEF Done
  <1> HIDE DEF h
  <1>5. Same(d, d)
    BY OthersSame
  <1> QED BY <1>1, <1>2, <1>3, <1>4, <1>5, SameTransitive

LEMMA CallKept ==
  ASSUME NEW d, Memory(d), NEW what, NEW replies
  PROVE  \A r \in Call(d, what, replies) : Same(d, r.c) /\ Memory(r.c)
  BY CallSame DEF Same

\* What comes of a step on the devices.
Fine(w, d, o) == Keeps(w, o.m) /\ Same(d, o.c)

LEMMA FineTransitive ==
  ASSUME NEW w, NEW v, NEW d, NEW e, NEW o, Keeps(w, v), Same(d, e), Fine(v, e, o)
  PROVE  Fine(w, d, o)
  BY KeepsTransitive, SameTransitive DEF Fine

LEMMA OutcomeFine ==
  ASSUME NEW w, NEW v, NEW d, NEW e, Keeps(w, v), Same(d, e), NEW reply
  PROVE  Fine(w, d, Outcome(v, e, reply))
  BY DEF Fine, Outcome

LEMMA PushedSame ==
  ASSUME NEW d, Memory(d), NEW dev, NEW push
  PROVE  Same(d, Pushed(d, dev, push))
  <1>1. Same(d, [d EXCEPT !.stack = << dev >> \o @])
    BY DEF Same, Memory, Idle0
  <1> QED BY <1>1, OthersSame DEF Pushed

LEMMA AskStoppedFine ==
  ASSUME NEW w, Shaped(w), OwnNumbers(w), NEW d, Memory(d), NEW dev, NEW push
  PROVE  \A o \in AskStopped(w, d, dev, push) : Fine(w, d, o)
  <1> DEFINE up == ChangeState(w, dev, "enable")
             p == [d EXCEPT !.refused = TRUE]
             Left(a) == Outcome(w, Pushed([a.c EXCEPT !.reboot = TRUE], dev, push), "continue")
             Back(a, r) == Outcome(IF Done(r) THEN up ELSE w, r.c, IF Done(r) THEN a.reply ELSE "cancel")
             Asked(a) == CASE a.reply \in {"continue", "none"} -> {Left(a)}
                           [] OTHER -> {Back(a, r) : r \in Call(a.c, "change state", JustOk)}
  <1>1. AskStopped(w, d, dev, push) = UNION {Asked(a) : a \in Dialog(p, CancelTryContinue)}
    BY DEF AskStopped
  <1>2. Keeps(w, up) /\ Keeps(w, w)
    BY ChangeStateKeeps, OtherFieldsKeep
  <1>3. Same(d, p) /\ Memory(p)
    BY OthersSame DEF Same
  <1> HIDE DEF up, p
  <1>5. \A a \in Dialog(p, CancelTryContinue) : Same(d, a.c) /\ Memory(a.c)
    BY <1>3, DialogSame, SameTransitive DEF Same
  <1>6. ASSUME NEW a \in Dialog(p, CancelTryContinue), NEW o \in Asked(a)
        PROVE  Fine(w, d, o)
    <2>1. Same(d, a.c) /\ Memory(a.c)
      BY <1>5
    <2>2. Fine(w, d, Left(a))
      <3> DEFINE q == [a.c EXCEPT !.reboot = TRUE]
      <3>1. Same(a.c, q) /\ Memory(q)
        BY <2>1, OthersSame DEF Same
      <3> HIDE DEF q
      <3>2. Same(d, Pushed(q, dev, push))
        BY <2>1, <3>1, PushedSame, SameTransitive
      <3> USE DEF q
      <3>3. Same(d, Pushed([a.c EXCEPT !.reboot = TRUE], dev, push))
        BY <3>2
      <3> QED BY ONLY <1>2, <3>3, OutcomeFine
    <2>3. ASSUME NEW r \in Call(a.c, "change state", JustOk)
          PROVE  Fine(w, d, Back(a, r))
      <3>1. Same(d, r.c)
        BY <2>1, CallSame, SameTransitive
      <3> QED BY <1>2, <3>1, OutcomeFine
    <2> HIDE DEF Left, Back
    <2> QED BY <1>6, <2>2, <2>3
  <1> HIDE DEF Asked
  <1> QED BY <1>1, <1>6

LEMMA DisableDeviceFine ==
  ASSUME NEW w, Shaped(w), OwnNumbers(w), NEW d, Memory(d), NEW dev, NEW push
  PROVE  \A o \in DisableDevice(w, d, dev, push) : Fine(w, d, o)
  <1> DEFINE off == ChangeState(w, dev, "disable")
             idle == Outcome(w, d, "continue")
             Not(r) == Outcome(w, r.c, "cancel")
             Asks == NeedsRestart(off, dev) /\ ~NeedsRestart(w, dev)
             Yes(r) == Outcome(off, Pushed(r.c, dev, push), "continue")
             Called(r) == IF ~Done(r) THEN {Not(r)}
                          ELSE IF Asks THEN AskStopped(off, r.c, dev, push) ELSE {Yes(r)}
  <1>1. DisableDevice(w, d, dev, push) =
          IF IsDisabled(w, dev) THEN {idle}
          ELSE UNION {Called(r) : r \in Call(d, "change state", JustOk)}
    BY DEF DisableDevice
  <1>2. Keeps(w, off) /\ Keeps(w, w) /\ Shaped(off) /\ OwnNumbers(off)
    BY ChangeStateKeeps, OtherFieldsKeep, KeepsNumbers DEF Keeps
  <1> HIDE DEF off
  <1>3. Fine(w, d, idle)
    BY <1>2, OthersSame, OutcomeFine
  <1>5. \A r \in Call(d, "change state", JustOk) : Same(d, r.c) /\ Memory(r.c)
    BY CallKept
  <1>6. ASSUME NEW r \in Call(d, "change state", JustOk), NEW o \in Called(r)
        PROVE  Fine(w, d, o)
    <2>1. Same(d, r.c) /\ Memory(r.c)
      BY <1>5
    <2>2. Fine(w, d, Not(r))
      BY <1>2, <2>1, OutcomeFine
    <2>3. Fine(w, d, Yes(r))
      <3>1. Same(d, Pushed(r.c, dev, push))
        BY <2>1, PushedSame, SameTransitive
      <3> QED BY <1>2, <3>1, OutcomeFine
    <2>4. ASSUME NEW q \in AskStopped(off, r.c, dev, push) PROVE Fine(w, d, q)
      <3>1. Fine(off, r.c, q)
        BY <1>2, <2>1, AskStoppedFine
      <3> QED BY <1>2, <2>1, <3>1, FineTransitive
    <2> HIDE DEF Not, Yes, Asks
    <2> QED BY <1>6, <2>2, <2>3, <2>4
  <1> HIDE DEF idle, Called
  <1> QED BY <1>1, <1>3, <1>6

LEMMA RestartDeviceFine ==
  ASSUME NEW w, Shaped(w), OwnNumbers(w), NEW d, Memory(d), NEW dev
  PROVE  \A o \in RestartDevice(w, d, dev) : Fine(w, d, o)
  <1> SUFFICES ASSUME NEW no, no = FALSE
               PROVE  \A o \in RestartDevice(w, d, dev) : Fine(w, d, o)
    OBVIOUS
  <1> DEFINE on == ChangeState(w, dev, "restart")
             Not(r) == Outcome(w, r.c, "cancel")
             Yes(r) == Outcome(on, r.c, "continue")
             Asks(r) == NeedsRestart(on, dev) /\ ~r.c.reboot
             Called(r) == IF ~Done(r) THEN {Not(r)}
                          ELSE IF Asks(r) THEN AskStopped(on, r.c, dev, no) ELSE {Yes(r)}
  <1>1. RestartDevice(w, d, dev) = UNION {Called(r) : r \in Call(d, "change state", JustOk)}
    BY DEF RestartDevice
  <1>2. Keeps(w, on) /\ Keeps(w, w) /\ Shaped(on) /\ OwnNumbers(on)
    BY ChangeStateKeeps, OtherFieldsKeep, KeepsNumbers DEF Keeps
  <1> HIDE DEF on
  <1>5. \A r \in Call(d, "change state", JustOk) : Same(d, r.c) /\ Memory(r.c)
    BY CallKept
  <1>6. ASSUME NEW r \in Call(d, "change state", JustOk), NEW o \in Called(r)
        PROVE  Fine(w, d, o)
    <2>1. Same(d, r.c) /\ Memory(r.c)
      BY <1>5
    <2>2. Fine(w, d, Not(r)) /\ Fine(w, d, Yes(r))
      BY <1>2, <2>1, OutcomeFine
    <2>4. ASSUME NEW q \in AskStopped(on, r.c, dev, no) PROVE Fine(w, d, q)
      <3>1. Fine(on, r.c, q)
        BY <1>2, <2>1, AskStoppedFine
      <3> QED BY <1>2, <2>1, <3>1, FineTransitive
    <2> HIDE DEF Not, Yes, Asks
    <2> QED BY <1>6, <2>2, <2>4
  <1> HIDE DEF Called
  <1> QED BY <1>1, <1>6

LEMMA RemoveDeviceFine ==
  ASSUME NEW w, Shaped(w), NEW d, Memory(d), NEW dev
  PROVE  \A x \in RemoveDevice(w, d, dev) : Fine(w, d, x)
  <1> DEFINE out == Removed(w, dev)
             Due(r) == [r.c EXCEPT !.reboot = @ \/ NeedsRestart(out, dev)]
             Gone(r) == IF Done(r) THEN Outcome(out, Due(r), "continue")
                        ELSE Outcome(w, r.c, "cancel")
  <1>1. RemoveDevice(w, d, dev) = {Gone(r) : r \in Call(d, "remove", JustOk)}
    BY DEF RemoveDevice
  <1>2. Keeps(w, out) /\ Keeps(w, w)
    BY RemovedKeeps, OtherFieldsKeep
  <1> HIDE DEF out
  <1>3. ASSUME NEW r \in Call(d, "remove", JustOk)
        PROVE  Fine(w, d, Gone(r))
    <2>1. Same(d, r.c) /\ Memory(r.c)
      BY CallSame DEF Same
    <2>2. Same(r.c, Due(r))
      BY <2>1 DEF Same, Memory, Idle0
    <2> HIDE DEF Due
    <2>3. Same(d, Due(r))
      BY <2>1, <2>2, SameTransitive
    <2> QED BY <1>2, <2>1, <2>3, OutcomeFine
  <1> HIDE DEF Gone
  <1> QED BY <1>1, <1>3

LEMMA EnableDeviceFine ==
  ASSUME NEW w, Shaped(w), OwnNumbers(w), NEW d, Memory(d), NEW dev
  PROVE  \A o \in EnableDevice(w, d, dev) : Fine(w, d, o)
  <1> DEFINE on == ChangeState(w, dev, "enable")
             idle == Outcome(w, d, "continue")
             Up(r) == Outcome(IF Done(r) THEN on ELSE w, r.c, "continue")
  <1>1. EnableDevice(w, d, dev) =
          IF IsEnabled(w, dev) THEN {idle} ELSE {Up(r) : r \in Call(d, "change state", JustOk)}
    BY DEF EnableDevice
  <1>2. Keeps(w, on) /\ Keeps(w, w)
    BY ChangeStateKeeps, OtherFieldsKeep
  <1> HIDE DEF on
  <1>3. Fine(w, d, idle)
    BY <1>2, OthersSame, OutcomeFine
  <1>4. ASSUME NEW r \in Call(d, "change state", JustOk) PROVE Fine(w, d, Up(r))
    BY <1>2, CallSame, OutcomeFine
  <1> HIDE DEF idle, Up
  <1> QED BY <1>1, <1>3, <1>4

LEMMA ClaimReleaseFine ==
  ASSUME NEW w, Shaped(w), NEW d, Memory(d), NEW n, NEW claim
  PROVE  \A x \in ClaimReleasePort(w, d, n, claim) : Fine(w, d, x)
  <1> DEFINE none == [ok |-> FALSE, m |-> w, c |-> d]
             v == IF claim THEN ClaimPort(w, n) ELSE ReleasePort(w, n)
             Asked(r) == IF ~Done(r) \/ (claim /\ w.arb[n] # "free")
                         THEN [ok |-> FALSE, m |-> w, c |-> r.c]
                         ELSE [ok |-> TRUE, m |-> v, c |-> r.c]
  <1>1. ClaimReleasePort(w, d, n, claim) =
          IF n \notin Coms THEN {none} ELSE {Asked(r) : r \in Call(d, "arbiter", RetryCancel)}
    BY DEF ClaimReleasePort
  <1>2. \A r : Asked(r).m \in {w, v} /\ Asked(r).c = r.c
    OBVIOUS
  <1>3. Keeps(w, w) /\ Keeps(w, v)
    <2>1. \A x : LET u == [w EXCEPT !.arb[n] = x] IN DOMAIN u = DOMAIN w /\ u.bus = w.bus
      BY DEF Shaped
    <2>2. \A x : Keeps(w, [w EXCEPT !.arb[n] = x])
      BY <2>1, SameBusKeeps
    <2> QED BY <2>2, OtherFieldsKeep DEF ClaimPort, ReleasePort
  <1> HIDE DEF v
  <1>4. Fine(w, d, none)
    BY <1>3, OthersSame DEF Fine
  <1> HIDE DEF none, Asked
  <1>5. ASSUME NEW r \in Call(d, "arbiter", RetryCancel) PROVE Fine(w, d, Asked(r))
    BY <1>2, <1>3, CallSame DEF Fine
  <1> QED BY <1>1, <1>4, <1>5

-----------------------------------------------------------------------------
(* What is left to do. *)

\* A sequence of steps.
IsTodo(t) ==
  /\ Len(t) \in Nat /\ t = [i \in 1..Len(t) |-> t[i]]
  /\ \A i \in 1..Len(t) : "op" \in DOMAIN t[i]

LEMMA TodoSeq ==
  ASSUME NEW t, IsTodo(t)
  PROVE  DOMAIN t = 1..Len(t) /\ t \in Seq({t[i] : i \in 1..Len(t)})
  <1> DEFINE T == {t[i] : i \in 1..Len(t)}
  <1>1. Len(t) \in Nat /\ t \in [1..Len(t) -> T]
    BY DEF IsTodo
  <1> HIDE DEF T
  <1>2. DOMAIN t = 1..Len(t) /\ t \in Seq(T)
    BY <1>1
  <1> QED BY <1>2 DEF T

LEMMA TodoIs ==
  ASSUME NEW T, NEW t \in Seq(T), \A i \in 1..Len(t) : "op" \in DOMAIN t[i]
  PROVE  IsTodo(t)
  BY DEF IsTodo

LEMMA TodoTail ==
  ASSUME NEW t, IsTodo(t), t # << >>
  PROVE  /\ Len(t) >= 1 /\ Len(t) \in Nat /\ Head(t) = t[1] /\ IsTodo(Tail(t))
         /\ Len(Tail(t)) = Len(t) - 1
         /\ \A i \in 1..Len(t) - 1 : Tail(t)[i] = t[i + 1]
  <1> DEFINE T == {t[i] : i \in 1..Len(t)}
  <1>1. t \in Seq(T) /\ Len(t) \in Nat
    BY TodoSeq DEF IsTodo
  <1>2. \A i \in 1..Len(t) : "op" \in DOMAIN t[i]
    BY DEF IsTodo
  <1> HIDE DEF T
  <1>3. /\ Len(t) >= 1 /\ Head(t) = t[1] /\ Tail(t) \in Seq(T) /\ Len(Tail(t)) = Len(t) - 1
        /\ \A i \in 1..Len(t) - 1 : Tail(t)[i] = t[i + 1]
    BY <1>1
  <1>4. \A i \in 1..Len(Tail(t)) : "op" \in DOMAIN Tail(t)[i]
    <2> TAKE i \in 1..Len(Tail(t))
    <2>1. i \in 1..Len(t) - 1 /\ i + 1 \in 1..Len(t)
      BY <1>1, <1>3
    <2> QED BY <1>2, <1>3, <2>1
  <1> QED BY <1>1, <1>3, <1>4, TodoIs

LEMMA TodoJoined ==
  ASSUME NEW s, IsTodo(s), NEW t, IsTodo(t)
  PROVE  /\ IsTodo(s \o t) /\ Len(s \o t) = Len(s) + Len(t)
         /\ \A i \in 1..Len(s) : (s \o t)[i] = s[i]
         /\ \A i \in Len(s) + 1..Len(s) + Len(t) : (s \o t)[i] = t[i - Len(s)]
  <1> DEFINE T == {s[i] : i \in 1..Len(s)} \cup {t[i] : i \in 1..Len(t)}
  <1>1. s \in Seq(T) /\ t \in Seq(T)
    <2>1. s \in [1..Len(s) -> T] /\ t \in [1..Len(t) -> T] /\ Len(s) \in Nat /\ Len(t) \in Nat
      BY DEF IsTodo
    <2> HIDE DEF T
    <2> QED BY <2>1
  <1>2. /\ \A i \in 1..Len(s) : "op" \in DOMAIN s[i]
        /\ \A i \in 1..Len(t) : "op" \in DOMAIN t[i]
    BY DEF IsTodo
  <1> HIDE DEF T
  <1>3. /\ s \o t \in Seq(T) /\ Len(s \o t) = Len(s) + Len(t)
        /\ \A i \in 1..Len(s) : (s \o t)[i] = s[i]
        /\ \A i \in Len(s) + 1..Len(s) + Len(t) : (s \o t)[i] = t[i - Len(s)]
    BY <1>1, ConcatProperties
  <1>4. \A i \in 1..Len(s \o t) : "op" \in DOMAIN (s \o t)[i]
    <2> TAKE i \in 1..Len(s \o t)
    <2>1. Len(s) \in Nat /\ Len(t) \in Nat
      BY <1>1
    <2>2. i \in 1..Len(s) \/ (i \in Len(s) + 1..Len(s) + Len(t) /\ i - Len(s) \in 1..Len(t))
      BY <1>3, <2>1
    <2> QED BY <1>2, <1>3, <2>2
  <1> QED BY <1>3, <1>4, TodoIs

LEMMA TodoEnd ==
  ASSUME NEW t, IsTodo(t), NEW a \in 1..Len(t)
  PROVE  LET u == SubSeq(t, a, Len(t))
         IN  /\ IsTodo(u) /\ Len(u) = Len(t) - a + 1
             /\ \A i \in 1..Len(u) : u[i] = t[i + a - 1]
  <1> DEFINE T == {t[i] : i \in 1..Len(t)}
             u == SubSeq(t, a, Len(t))
  <1>1. t \in Seq(T) /\ Len(t) \in Nat
    BY TodoSeq DEF IsTodo
  <1>2. \A i \in 1..Len(t) : "op" \in DOMAIN t[i]
    BY DEF IsTodo
  <1> HIDE DEF T
  <1>3. /\ u \in Seq(T) /\ Len(u) = Len(t) - a + 1
        /\ \A i \in 1..Len(u) : u[i] = t[i + a - 1]
    BY <1>1, SubSeqProperties
  <1> HIDE DEF u
  <1>4. \A i \in 1..Len(u) : "op" \in DOMAIN u[i]
    <2> TAKE i \in 1..Len(u)
    <2>1. i + a - 1 \in 1..Len(t)
      BY <1>1, <1>3
    <2> QED BY <1>2, <1>3, <2>1
  <1>5. IsTodo(u)
    BY <1>3, <1>4, TodoIs
  <1> QED BY <1>3, <1>5 DEF u

LEMMA NoTodo ==
  IsTodo(<< >>) /\ Len(<< >>) = 0
  BY DEF IsTodo

\* The steps that choose a number, make a pair, give it the number and start it.
Marked == {"allocate", "create", "number", "start"}

\* From d to e set-up has left its first step behind and some others perhaps, and has found
\* others before the rest, but none of those.
Follows(d, e) ==
  /\ Memory(e) /\ e.num = d.num /\ IsTodo(e.todo)
  /\ \E x \in Int : \A i \in 1..Len(e.todo) : e.todo[i].op \in Marked =>
        i + x \in 2..Len(d.todo) /\ e.todo[i].op = d.todo[i + x].op

Plain(t) == IsTodo(t) /\ \A i \in 1..Len(t) : t[i].op \notin Marked

LEMMA RestFollows ==
  ASSUME NEW d, NEW e, Same(d, e), IsTodo(d.todo), d.todo # << >>, Memory(d)
  PROVE  Follows(d, Rest(e))
  <1>1. Memory(Rest(e)) /\ Rest(e).num = d.num /\ Rest(e).todo = Tail(d.todo)
    BY DEF Same, Memory, Idle0, Rest
  <1> DEFINE t == d.todo
  <1>2. /\ IsTodo(Tail(t)) /\ Len(Tail(t)) = Len(t) - 1 /\ Len(t) \in Nat
        /\ \A i \in 1..Len(t) - 1 : Tail(t)[i] = t[i + 1]
    BY TodoTail
  <1>3. \A i \in 1..Len(Tail(t)) : i + 1 \in 2..Len(t) /\ Tail(t)[i] = t[i + 1]
    BY <1>2
  <1> HIDE DEF t
  <1>4. \E x \in Int : \A i \in 1..Len(Tail(t)) : Tail(t)[i].op \in Marked =>
           i + x \in 2..Len(t) /\ Tail(t)[i].op = t[i + x].op
    BY <1>3
  <1> QED BY <1>1, <1>2, <1>4 DEF Follows, t

LEMMA ThenFollows ==
  ASSUME NEW d, NEW e, Same(d, e), IsTodo(d.todo), d.todo # << >>, Memory(d),
         NEW s, Plain(s)
  PROVE  Follows(d, Then(e, s))
  <1> DEFINE t == d.todo
             u == s \o Tail(t)
  <1>1. Memory(Then(e, s)) /\ Then(e, s).num = d.num /\ Then(e, s).todo = u
    BY DEF Same, Memory, Idle0, Then
  <1>2. /\ IsTodo(Tail(t)) /\ Len(Tail(t)) = Len(t) - 1 /\ Len(t) \in Nat
        /\ \A i \in 1..Len(t) - 1 : Tail(t)[i] = t[i + 1]
    BY TodoTail
  <1>3. IsTodo(s) /\ Len(s) \in Nat /\ \A i \in 1..Len(s) : s[i].op \notin Marked
    BY DEF Plain, IsTodo
  <1> HIDE DEF t
  <1>4. /\ IsTodo(u) /\ Len(u) = Len(s) + Len(Tail(t))
        /\ \A i \in 1..Len(s) : u[i] = s[i]
        /\ \A i \in Len(s) + 1..Len(s) + Len(Tail(t)) : u[i] = Tail(t)[i - Len(s)]
    BY <1>2, <1>3, TodoJoined
  <1> HIDE DEF u
  <1> DEFINE x == 1 - Len(s)
  <1>5. ASSUME NEW i \in 1..Len(u), u[i].op \in Marked
        PROVE  i + x \in 2..Len(t) /\ u[i].op = t[i + x].op
    <2>1. i \notin 1..Len(s)
      BY <1>3, <1>4, <1>5
    <2>2. i \in Len(s) + 1..Len(s) + Len(Tail(t)) /\ i - Len(s) \in 1..Len(t) - 1
      BY <1>2, <1>3, <1>4, <2>1
    <2>3. u[i] = t[i - Len(s) + 1]
      BY <1>2, <1>4, <2>2
    <2>4. i - Len(s) + 1 = i + x /\ i + x \in 2..Len(t)
      BY <1>2, <1>3, <2>2
    <2> HIDE DEF x
    <2> QED BY <2>3, <2>4
  <1>6. x \in Int
    BY <1>3
  <1> HIDE DEF x
  <1> QED BY <1>1, <1>4, <1>5, <1>6 DEF Follows, t

\* What a step that fails leaves: nothing, or the end that begins with one that is run in any
\* case.
LEMMA FailLeaves ==
  ASSUME NEW d, IsTodo(d.todo), d.todo # << >>, Memory(d)
  PROVE  LET t == d.todo
             u == Fail(d).todo
         IN  /\ Memory(Fail(d)) /\ Fail(d).num = d.num /\ IsTodo(u)
             /\ \/ Len(u) = 0
                \/ \E a \in Nat : /\ a + 1 \in 2..Len(t) /\ t[a + 1].op \in Always
                                  /\ \A i \in 1..Len(u) : i + a \in 2..Len(t) /\ u[i] = t[i + a]
  <1> DEFINE t == d.todo
             left == Tail(d.todo)
             stop == {i \in 1..Len(left) : left[i].op \in Always}
             a == CHOOSE i \in stop : \A j \in stop : i <= j
             u == SubSeq(left, a, Len(left))
             next == IF stop = {} THEN << >> ELSE u
  <1>1. Memory(Fail(d)) /\ Fail(d).num = d.num /\ Fail(d).todo = next
    <2>1. Fail(d) = [d EXCEPT !.bad = TRUE, !.todo = next]
      BY DEF Fail
    <2> HIDE DEF next
    <2> QED BY <2>1 DEF Same, Memory, Idle0
  <1>2. /\ IsTodo(left) /\ Len(left) = Len(t) - 1 /\ Len(t) \in Nat
        /\ \A i \in 1..Len(t) - 1 : left[i] = t[i + 1]
    BY TodoTail
  <1> HIDE DEF t, left
  <1>3. CASE stop = {}
    <2>1. Fail(d).todo = << >>
      BY <1>1, <1>3
    <2> QED BY <1>1, <2>1, NoTodo
  <1>4. CASE stop # {}
    <2>1. a \in stop
      <3>1. stop \subseteq Nat /\ stop # {}
        BY <1>4
      <3> HIDE DEF stop
      <3>2. \E i \in stop : \A j \in stop : i <= j
        BY <3>1, LeastNumber
      <3> QED BY <3>2
    <2> HIDE DEF a
    <2>2. a \in 1..Len(left) /\ left[a].op \in Always
      BY <2>1
    <2>3. /\ IsTodo(u) /\ Len(u) = Len(left) - a + 1
          /\ \A i \in 1..Len(u) : u[i] = left[i + a - 1]
      BY <1>2, <2>2, TodoEnd
    <2>4. Fail(d).todo = u
      BY <1>1, <1>4
    <2> HIDE DEF u, stop
    <2>5. ASSUME NEW i \in 1..Len(u)
          PROVE  i + a \in 2..Len(t) /\ u[i] = t[i + a]
      <3>1. i + a - 1 \in 1..Len(t) - 1 /\ i + a \in 2..Len(t) /\ (i + a - 1) + 1 = i + a
        BY <1>2, <2>2, <2>3
      <3> QED BY <1>2, <2>3, <3>1
    <2>6. a \in Nat /\ a + 1 \in 2..Len(t) /\ t[a + 1].op \in Always
      BY <1>2, <2>2
    <2> QED BY <1>1, <2>3, <2>4, <2>5, <2>6 DEF t
  <1> QED BY <1>3, <1>4

LEMMA FailFollows ==
  ASSUME NEW d, NEW e, Same(d, e), IsTodo(d.todo), d.todo # << >>, Memory(d)
  PROVE  Follows(d, Fail(e))
  <1> DEFINE u == Fail(e).todo
             t == d.todo
  <1>1. /\ Memory(Fail(e)) /\ Fail(e).num = d.num /\ IsTodo(u)
        /\ \/ Len(u) = 0
           \/ \E a \in Nat : \A i \in 1..Len(u) : i + a \in 2..Len(t) /\ u[i] = t[i + a]
    BY FailLeaves DEF Same
  <1> HIDE DEF u, t
  <1>2. \E x \in Int : \A i \in 1..Len(u) : u[i].op \in Marked =>
           i + x \in 2..Len(t) /\ u[i].op = t[i + x].op
    <2>1. CASE Len(u) = 0
      <3>1. \A i \in 1..Len(u) : FALSE
        BY <2>1
      <3>2. 0 \in Int
        OBVIOUS
      <3> QED BY <3>1, <3>2
    <2>2. CASE \E a \in Nat : \A i \in 1..Len(u) : i + a \in 2..Len(t) /\ u[i] = t[i + a]
      <3>1. PICK a \in Nat : \A i \in 1..Len(u) : i + a \in 2..Len(t) /\ u[i] = t[i + a]
        BY <2>2
      <3>2. a \in Int /\ \A i \in 1..Len(u) : u[i].op = t[i + a].op
        BY <3>1
      <3> QED BY <3>1, <3>2
    <2> QED BY <1>1, <2>1, <2>2
  <1> QED BY <1>1, <1>2 DEF Follows, u, t

\* The other fields of what set-up knows.
LEMMA FollowsWhatever ==
  ASSUME NEW d, NEW e, NEW f, Follows(d, e), DOMAIN f = DOMAIN e, f.todo = e.todo, f.num = e.num
  PROVE  Follows(d, f)
  BY DEF Follows, Memory

-----------------------------------------------------------------------------
(* The invariant. *)

Making == {"create", "number", "start"}

\* Where the marked steps can be.  Between the choice of a number and the making of the pair
\* there is nothing behind which set-up would go on although a step has failed.
Marks(t) ==
  /\ \A i \in 1..Len(t) : t[i].op \in {"allocate", "number", "start"} => i = 1
  /\ \A i, j \in 1..Len(t) :
       t[i].op \in Making /\ t[j].op \in Making => i = j
  /\ t # << >> /\ t[1].op = "allocate" =>
       \A i \in 1..Len(t) : t[i].op = "create" => \A j \in 2..i : t[j].op \notin Always

\* A number has been chosen, for a pair that has not got it yet.
Chosen(t) == t # << >> /\ t[1].op # "allocate"
             /\ \E i \in 1..Len(t) : t[i].op \in {"create", "number"}
AtNumber(t) == t # << >> /\ t[1].op = "number"
AtStart(t)  == t # << >> /\ t[1].op = "start"

\* Every pair has its own number, but the one that has just been made.
OthersOwn(w, s) ==
  \A t \in Slots \ {s} : w.bus[t].here =>
      /\ w.bus[t].num # -1
      /\ \A u \in Slots \ {s, t} : w.bus[u].here => w.bus[u].num # w.bus[t].num
NewPair(w, step) ==
  \E s \in Slots : /\ step.dev = BusDev(s) /\ w.bus[s].here /\ w.bus[s].num = -1
                   /\ OthersOwn(w, s)

FreeNumber(w, n) == n # -1 /\ \A s \in Slots : w.bus[s].here => w.bus[s].num # n

\* No pair but the one to be started has the number.
FreeBut(w, step, n) ==
  n # -1 /\ \E s \in Slots : /\ step.dev = BusDev(s)
                            /\ \A t \in Slots \ {s} : w.bus[t].here => w.bus[t].num # n

NumbersOf(w, d) ==
  /\ Shaped(w) /\ Memory(d) /\ IsTodo(d.todo) /\ Marks(d.todo)
  /\ Chosen(d.todo) => FreeNumber(w, d.num)
  /\ AtStart(d.todo) => FreeBut(w, d.todo[1], d.num)
  /\ IF AtNumber(d.todo) THEN NewPair(w, d.todo[1]) ELSE OwnNumbers(w)

NumbersInv == NumbersOf(m, c) /\ script \in Seq(CommandLines)

LEMMA KeepsFree ==
  ASSUME NEW w, NEW v, Keeps(w, v), NEW n, FreeNumber(w, n)
  PROVE  FreeNumber(v, n)
  BY DEF Keeps, FreeNumber

LEMMA KeepsFreeBut ==
  ASSUME NEW w, NEW v, Keeps(w, v), NEW step, NEW n, FreeBut(w, step, n)
  PROVE  FreeBut(v, step, n)
  BY DEF Keeps, FreeBut

LEMMA SameKeepsNumbers ==
  ASSUME NEW w, NEW v, NEW d, NEW e, NumbersOf(w, d), Keeps(w, v), Same(d, e), ~AtNumber(d.todo)
  PROVE  NumbersOf(v, e)
  BY KeepsFree, KeepsFreeBut, KeepsNumbers DEF NumbersOf, Same, Keeps

LEMMA SameBusNumbers ==
  ASSUME NEW w, NEW v, NEW d, NEW e, NumbersOf(w, d), Same(d, e),
         DOMAIN v = DOMAIN w, v.bus = w.bus
  PROVE  NumbersOf(v, e)
  BY DEF NumbersOf, Same, Shaped, FreeNumber, FreeBut, OwnNumbers, NewPair, OthersOwn

LEMMA FollowsKeepsNumbers ==
  ASSUME NEW w, NEW v, NEW d, NEW e, NumbersOf(w, d), Keeps(w, v), Follows(d, e),
         d.todo # << >>, d.todo[1].op \notin {"allocate", "number"}
  PROVE  NumbersOf(v, e)
  <1> DEFINE t == d.todo
             u == e.todo
  <1>1. PICK x \in Int : \A i \in 1..Len(u) : u[i].op \in Marked =>
                           i + x \in 2..Len(t) /\ u[i].op = t[i + x].op
    BY DEF Follows
  <1>2. Marks(t) /\ Len(t) \in Nat /\ Len(u) \in Nat /\ IsTodo(u) /\ IsTodo(t)
    BY DEF NumbersOf, Follows, IsTodo
  <1>3. e.num = d.num /\ Memory(e) /\ Shaped(v) /\ ~AtNumber(t)
    BY DEF Follows, Keeps, AtNumber
  <1> HIDE DEF t, u
  <1>4. \A i \in 1..Len(u) : u[i].op \notin {"allocate", "number", "start"}
    <2> SUFFICES ASSUME NEW i \in 1..Len(u), u[i].op \in {"allocate", "number", "start"}
                 PROVE  FALSE
      OBVIOUS
    <2>1. i + x \in 2..Len(t) /\ t[i + x].op \in {"allocate", "number", "start"}
      BY <1>1 DEF Marked
    <2>2. i + x \in 1..Len(t) /\ i + x # 1
      BY <2>1, <1>2
    <2> QED BY <1>2, <2>1, <2>2 DEF Marks
  <1>5. \A i \in 1..Len(u) : u[i].op = "create" => i + x \in 1..Len(t) /\ t[i + x].op = "create"
    <2> TAKE i \in 1..Len(u)
    <2> HAVE u[i].op = "create"
    <2>1. i + x \in 2..Len(t) /\ t[i + x].op = "create"
      BY <1>1 DEF Marked
    <2> QED BY <2>1, <1>2
  <1>6. u # << >> => 1 \in 1..Len(u)
    BY <1>2, TodoTail
  <1>7. Marks(u)
    <2>1. ASSUME NEW i \in 1..Len(u), NEW j \in 1..Len(u), u[i].op \in Making, u[j].op \in Making
          PROVE  i = j
      <3>1. u[i].op = "create" /\ u[j].op = "create"
        BY <1>4, <2>1 DEF Making
      <3>2. /\ i + x \in 1..Len(t) /\ t[i + x].op = "create"
            /\ j + x \in 1..Len(t) /\ t[j + x].op = "create"
        BY <1>5, <3>1
      <3>3. i + x = j + x
        BY <1>2, <3>2 DEF Marks, Making
      <3> QED BY <3>3
    <2> QED BY <1>4, <1>6, <2>1 DEF Marks
  <1>8. ~AtNumber(u) /\ ~AtStart(u) /\ (Chosen(u) => Chosen(t))
    <2>1. ASSUME Chosen(u) PROVE Chosen(t)
      <3>1. PICK i \in 1..Len(u) : u[i].op = "create"
        BY <1>4, <2>1 DEF Chosen
      <3> QED BY <1>5, <3>1 DEF Chosen, t
    <2> QED BY <1>4, <1>6, <2>1 DEF AtNumber, AtStart
  <1>9. FreeNumber(w, d.num) => FreeNumber(v, d.num)
    BY KeepsFree
  <1>10. OwnNumbers(v)
    BY <1>3, KeepsNumbers DEF NumbersOf, t
  <1> QED BY <1>2, <1>3, <1>7, <1>8, <1>9, <1>10 DEF NumbersOf, t, u

-----------------------------------------------------------------------------
(* The number of a new pair. *)

LEMMA FoundNumbers ==
  ASSUME NEW w, NEW taken,
         taken = {w.bus[d[2]].num : d \in ToSet(EnumDevices(w, "bus", FALSE))}
  PROVE  /\ IsFiniteSet(taken)
         /\ \A s \in Slots : w.bus[s].here => w.bus[s].num \in taken
  <1>1. \A s \in Slots : w.bus[s].here => w.bus[s].num \in taken
    <2> TAKE s \in Slots
    <2> HAVE w.bus[s].here
    <2>1. BusDev(s) \in ToSet(EnumDevices(w, "bus", FALSE)) /\ BusDev(s)[2] = s
      BY EachPairFound DEF BusDev
    <2> QED BY <2>1
  <1>2. IsFiniteSet(taken)
    <2> SUFFICES ASSUME NEW no, no = FALSE, NEW q, q = EnumDevices(w, "bus", no),
                        taken = {w.bus[d[2]].num : d \in ToSet(q)}
                 PROVE  IsFiniteSet(taken)
      OBVIOUS
    <2> DEFINE f == [i \in DOMAIN q |-> w.bus[q[i][2]].num]
    <2>1. PICK n \in Nat : DOMAIN q = 1..n
      BY EnumIsSeq
    <2>2. \A i \in 1..n : q[i] \in ToSet(q)
      BY <2>1 DEF ToSet
    <2>5. \A i \in 1..n : f[i] = w.bus[q[i][2]].num /\ f[i] \in taken
      BY <2>1, <2>2
    <2>6. \A x \in taken : \E i \in 1..n : f[i] = x
      <3> TAKE x \in taken
      <3>1. PICK d \in ToSet(q) : x = w.bus[d[2]].num
        OBVIOUS
      <3>2. PICK i \in 1..n : d = q[i]
        BY <2>1, <3>1 DEF ToSet
      <3> QED BY <2>5, <3>1, <3>2
    <2>3. DOMAIN f = 1..n /\ f = [i \in 1..n |-> f[i]]
      BY <2>1
    <2> HIDE DEF f
    <2>4. f \in Surjection(1..n, taken)
      BY <2>3, <2>5, <2>6 DEF Surjection
    <2> QED BY <2>4, FS_NatSurjection DEF ExistsSurjection
  <1> QED BY <1>1, <1>2

LEMMA NumberFree ==
  ASSUME NEW w, NEW taken, IsFiniteSet(taken)
  PROVE  LET n == CHOOSE n \in 0..Cardinality(taken) :
                     n \notin taken /\ \A i \in 0..n - 1 : i \in taken
         IN  n \in Nat /\ n \notin taken
  <1> DEFINE top == Cardinality(taken)
             left == {i \in Nat : i \in 0..top /\ i \notin taken}
  <1>1. top \in Nat
    BY FS_CardinalityType
  <1>2. left # {}
    <2> SUFFICES ASSUME 0..top \subseteq taken PROVE FALSE
      BY <1>1
    <2>1. IsFiniteSet(0..top) /\ Cardinality(0..top) = top + 1
      BY <1>1, FS_Interval
    <2>2. Cardinality(0..top) <= top
      BY FS_Subset
    <2> QED BY <1>1, <2>1, <2>2
  <1>3. PICK n \in left : \A k \in left : n <= k
    <2> HIDE DEF left
    <2>1. left \subseteq Nat
      BY DEF left
    <2> QED BY <1>2, <2>1, LeastNumber
  <1>4. n \in 0..top /\ n \notin taken /\ \A i \in 0..n - 1 : i \in taken
    <2>1. ASSUME NEW i \in 0..n - 1, i \notin taken PROVE FALSE
      <3>1. i \in left /\ ~(n <= i)
        BY <1>1, <1>3, <2>1
      <3> QED BY <1>3, <3>1
    <2> QED BY <1>3, <2>1
  <1> HIDE DEF top
  <1> QED BY <1>1, <1>4 DEF top

LEMMA AllocatedFree ==
  ASSUME NEW x
  PROVE  LET n == AllocPortNum(IF x >= 0 THEN x ELSE 0) IN FreeNumber(m, n)
  <1> DEFINE taken == {m.bus[d[2]].num : d \in ToSet(EnumDevices(m, "bus", FALSE))}
             num == IF x >= 0 THEN x ELSE 0
             least == CHOOSE n \in 0..Cardinality(taken) :
                         n \notin taken /\ \A i \in 0..n - 1 : i \in taken
  <1>1. /\ IsFiniteSet(taken)
        /\ \A s \in Slots : m.bus[s].here => m.bus[s].num \in taken
    BY FoundNumbers
  <1>2. AllocPortNum(num) = IF num \notin taken THEN num ELSE least
    BY DEF AllocPortNum
  <1> HIDE DEF taken
  <1>3. least \in Nat /\ least \notin taken
    BY <1>1, NumberFree
  <1> HIDE DEF least
  <1>4. num # -1
    OBVIOUS
  <1> HIDE DEF num
  <1>5. FreeNumber(m, AllocPortNum(num))
    BY <1>1, <1>2, <1>3, <1>4 DEF FreeNumber
  <1> QED BY <1>5 DEF num

-----------------------------------------------------------------------------
(* Steps that are inserted. *)

Is(step, op) == "op" \in DOMAIN step /\ step.op = op

LEMMA NewStep ==
  ASSUME NEW op
  PROVE  /\ Is(S(op), op)
         /\ \A x : /\ Is([S(op) EXCEPT !.at = x], op) /\ Is([S(op) EXCEPT !.flag = x], op)
                   /\ Is([S(op) EXCEPT !.id = x], op) /\ Is([S(op) EXCEPT !.names = x], op)
                   /\ Is(BusStep(op, x), op) /\ Is(PortStep(op, x), op) /\ Is(OfPort(op, x), op)
         /\ \A x, y : /\ Is([S(op) EXCEPT !.id = x, !.flag = y], op)
                      /\ Is([S(op) EXCEPT !.at = x, !.flag = y], op)
                      /\ Is([S(op) EXCEPT !.at = x, !.names = y], op)
                      /\ Is([S(op) EXCEPT !.id = x, !.at = y], op)
                      /\ Is([S(op) EXCEPT !.name = x, !.flag = y], op)
                      /\ Is([PortStep(op, x) EXCEPT !.A = y], op)
                      /\ Is([PortStep(op, x) EXCEPT !.name = y], op)
                      /\ Is([PortStep(op, x) EXCEPT !.params = y], op)
         /\ \A x, y, z : /\ Is([S(op) EXCEPT !.at = x, !.A = y, !.B = z], op)
                         /\ Is([PortStep(op, x) EXCEPT !.dev = y, !.A = z], op)
                         /\ Is([PortStep(op, x) EXCEPT !.id = y, !.flag = z], op)
         /\ \A x, y, z, u : Is([PortStep(op, x) EXCEPT !.dev = y, !.params = z, !.flag = u], op)
  BY DEF Is, S, Step0, BusStep, PortStep, OfPort

LEMMA OldStep ==
  ASSUME NEW step, NEW op, Is(step, op)
  PROVE  /\ \A x : /\ Is([step EXCEPT !.at = x], op) /\ Is([step EXCEPT !.devs = x], op)
                   /\ Is([step EXCEPT !.op = x], x)
         /\ \A x, y : Is([step EXCEPT !.op = x, !.devs = y], x)
  BY DEF Is

LEMMA NonePlain ==
  Plain(<< >>)
  BY NoTodo DEF Plain

LEMMA OnePlain ==
  ASSUME NEW op, op \notin Marked, NEW step, Is(step, op)
  PROVE  Plain(<< step >>)
  <1>1. Len(<< step >>) = 1 /\ << step >>[1] = step /\ << step >> = [i \in 1..1 |-> step]
    OBVIOUS
  <1> QED BY <1>1 DEF Plain, IsTodo, Is

LEMMA JoinedPlain ==
  ASSUME NEW s, Plain(s), NEW t, Plain(t)
  PROVE  Plain(s \o t)
  <1>1. /\ IsTodo(s \o t) /\ Len(s \o t) = Len(s) + Len(t)
        /\ \A i \in 1..Len(s) : (s \o t)[i] = s[i]
        /\ \A i \in Len(s) + 1..Len(s) + Len(t) : (s \o t)[i] = t[i - Len(s)]
    BY TodoJoined DEF Plain
  <1>2. \A i \in 1..Len(s \o t) : (s \o t)[i].op \notin Marked
    <2> TAKE i \in 1..Len(s \o t)
    <2>1. Len(s) \in Nat /\ Len(t) \in Nat
      BY DEF Plain, IsTodo
    <2>2. i \in 1..Len(s) \/ (i \in Len(s) + 1..Len(s) + Len(t) /\ i - Len(s) \in 1..Len(t))
      BY <1>1, <2>1
    <2> QED BY <1>1, <2>2 DEF Plain
  <1> QED BY <1>1, <1>2 DEF Plain

LEMMA OnlyPlain ==
  ASSUME NEW s, Plain(s)
  PROVE  \A cond \in BOOLEAN : Plain(Only(cond, s))
  BY NonePlain DEF Only

LEMMA TwoSteps ==
  ASSUME NEW x, NEW y
  PROVE  << x, y >> = << x >> \o << y >>
  <1>1. << x >> \in Seq({x, y}) /\ << y >> \in Seq({x, y}) /\ << x, y >> \in Seq({x, y})
    OBVIOUS
  <1>2. << x >> \o << y >> \in Seq({x, y}) /\ Len(<< x >> \o << y >>) = 2
        /\ (<< x >> \o << y >>)[1] = x /\ (<< x >> \o << y >>)[2] = y
    BY <1>1, ConcatProperties
  <1>3. Len(<< x, y >>) = 2 /\ << x, y >>[1] = x /\ << x, y >>[2] = y
    OBVIOUS
  <1>4. \A i \in 1..2 : << x, y >>[i] = (<< x >> \o << y >>)[i]
    BY <1>2, <1>3
  <1> QED BY <1>1, <1>2, <1>3, <1>4, SeqEqual

LEMMA ThreeSteps ==
  ASSUME NEW x, NEW y, NEW z
  PROVE  << x, y, z >> = << x >> \o << y >> \o << z >>
  <1>1. << x, y >> \in Seq({x, y, z}) /\ << z >> \in Seq({x, y, z})
        /\ << x, y, z >> \in Seq({x, y, z})
    OBVIOUS
  <1> DEFINE t == << x, y >> \o << z >>
  <1>2. t \in Seq({x, y, z}) /\ Len(t) = 3 /\ t[1] = x /\ t[2] = y /\ t[3] = z
    BY <1>1, ConcatProperties
  <1>3. /\ Len(<< x, y, z >>) = 3
        /\ << x, y, z >>[1] = x /\ << x, y, z >>[2] = y /\ << x, y, z >>[3] = z
    OBVIOUS
  <1> HIDE DEF t
  <1>4. \A i \in 1..3 : << x, y, z >>[i] = t[i]
    BY <1>2, <1>3
  <1>5. << x, y, z >> = t
    BY <1>1, <1>2, <1>3, <1>4, SeqEqual
  <1> QED BY <1>5, TwoSteps DEF t

LEMMA EachPlain ==
  ASSUME NEW n \in Nat, NEW f, f = [i \in 1..n |-> f[i]], NEW op, op \notin Marked,
         \A i \in 1..n : Is(f[i], op)
  PROVE  Plain(f)
  <1> DEFINE T == {f[i] : i \in 1..n}
  <1>1. f \in [1..n -> T]
    OBVIOUS
  <1> HIDE DEF T
  <1>2. Len(f) = n
    BY <1>1
  <1> QED BY <1>2 DEF Plain, IsTodo, Is

-----------------------------------------------------------------------------
(* The steps. *)

\* How an ordinary step goes on from c.
Goes(e) == Follows(c, e) \/ Same(c, e)
Ordinary == Keeps(m, m') /\ Goes(c')

LEMMA AtStep ==
  ASSUME NumbersInv, Busy
  PROVE  /\ c.todo # << >> /\ Now = c.todo[1] /\ Is(Now, Now.op)
         /\ Memory(c) /\ IsTodo(c.todo) /\ Shaped(m) /\ Same(c, c) /\ Keeps(m, m)
         /\ Now.op # "number" => OwnNumbers(m)
  <1>1. c.todo # << >> /\ NumbersOf(m, c)
    BY DEF Busy, NumbersInv
  <1>2. Memory(c) /\ IsTodo(c.todo) /\ Shaped(m)
    BY <1>1 DEF NumbersOf
  <1>3. Now = c.todo[1] /\ 1 \in 1..Len(c.todo)
    BY <1>1, <1>2, TodoTail DEF Now
  <1>4. Is(Now, Now.op)
    BY <1>2, <1>3 DEF Is, IsTodo
  <1>5. Now.op # "number" => OwnNumbers(m)
    BY <1>1, <1>3 DEF NumbersOf, AtNumber
  <1> QED BY <1>1, <1>2, <1>3, <1>4, <1>5, OthersSame, OtherFieldsKeep

LEMMA GoesOn ==
  ASSUME NumbersInv, Busy, NEW e, Same(c, e)
  PROVE  /\ Goes(e) /\ Goes(Rest(e)) /\ Goes(Fail(e))
         /\ \A s : Plain(s) => Goes(Then(e, s))
  BY AtStep, RestFollows, FailFollows, ThenFollows DEF Goes

LEMMA GoesWhatever ==
  ASSUME NEW e, NEW f, Goes(e), DOMAIN f = DOMAIN e, f.todo = e.todo, f.num = e.num
  PROVE  Goes(f)
  BY FollowsWhatever DEF Goes, Same, Memory

LEMMA Answers ==
  ASSUME NumbersInv
  PROVE  /\ \A what, replies : \A r \in Call(c, what, replies) : Same(c, r.c) /\ Memory(r.c)
         /\ \A replies : \A a \in Dialog(c, replies) : Same(c, a.c)
  BY CallKept, DialogSame DEF NumbersInv, NumbersOf

LEMMA OrdinaryStep ==
  ASSUME NumbersInv, Busy, Now.op \notin {"allocate", "number"}, Ordinary, UNCHANGED script
  PROVE  NumbersInv'
  <1>1. c.todo # << >> /\ c.todo[1].op \notin {"allocate", "number"} /\ ~AtNumber(c.todo)
    BY AtStep DEF AtNumber
  <1>2. NumbersOf(m, c) /\ Keeps(m, m') /\ (Follows(c, c') \/ Same(c, c'))
    BY DEF NumbersInv, Ordinary, Goes
  <1>3. NumbersOf(m', c')
    BY <1>1, <1>2, SameKeepsNumbers, FollowsKeepsNumbers
  <1> QED BY <1>3 DEF NumbersInv

\* Friendly names.
LEMMA FriendlyNamesKeep ==
  ASSUME NEW w, Shaped(w)
  PROVE  /\ \A s : Keeps(w, UpdateFriendlyNameBus(w, s))
         /\ \A k : Keeps(w, SetFriendlyNamePort(w, k)) /\ Keeps(w, UpdateFriendlyNamePort(w, k))
         /\ \A num : Keeps(w, UpdateFriendlyNamesBus(w, num))
  <1>1. ASSUME NEW s, NEW x
        PROVE  LET v == [w EXCEPT !.bus[s].fname = x] IN Keeps(w, v)
    BY DEF Keeps, Shaped
  <1>2. ASSUME NEW s PROVE Keeps(w, UpdateFriendlyNameBus(w, s))
    BY <1>1 DEF UpdateFriendlyNameBus
  <1>3. ASSUME NEW k, NEW x
        PROVE  LET v == [w EXCEPT !.port[k].fname = x] IN DOMAIN v = DOMAIN w /\ v.bus = w.bus
    BY DEF Shaped
  <1>4. ASSUME NEW k PROVE Keeps(w, SetFriendlyNamePort(w, k))
    BY <1>3, SameBusKeeps DEF SetFriendlyNamePort
  <1>5. ASSUME NEW k PROVE Keeps(w, UpdateFriendlyNamePort(w, k))
    BY <1>4, OtherFieldsKeep DEF UpdateFriendlyNamePort
  <1>6. ASSUME NEW num PROVE Keeps(w, UpdateFriendlyNamesBus(w, num))
    <2> DEFINE named == {s \in Slots : w.bus[s].here /\ w.bus[s].num # -1
                                       /\ num \in {w.bus[s].num, -1}}
               below == UNION {ToSet(PortsOf(w.bus[s].num)) : s \in named}
               F(s) == UpdateFriendlyNameBus(w, s)
               buses == [s \in Slots |-> IF s \in named THEN F(s).bus[s] ELSE w.bus[s]]
               ports == [k \in Ports |-> IF k \in below THEN UpdateFriendlyNamePort(w, k).port[k]
                                         ELSE w.port[k]]
               v == [w EXCEPT !.bus = buses, !.port = ports]
    <2>1. UpdateFriendlyNamesBus(w, num) = v
      BY DEF UpdateFriendlyNamesBus
    <2>2. \A s \in Slots : Keeps(w, F(s))
      BY <1>2
    <2> HIDE DEF named, ports, F
    <2>3. Keeps(w, v)
      BY <2>2 DEF Keeps, Shaped
    <2> QED BY <2>1, <2>3
  <1> QED BY <1>2, <1>4, <1>5, <1>6

LEMMA SmallSteps ==
  ASSUME NumbersInv,
         Finish \/ Reloaded \/ DropStack \/ StopToReboot \/ SaveLog \/ SameName \/ FriendlyName
  PROVE  NumbersInv'
  <1>1. CASE Finish
    <2>1. Busy /\ Now.op = "finish" /\ m' = m /\ UNCHANGED script
      BY <1>1 DEF Finish, At
    <2>2. Goes(Rest(c)) /\ Keeps(m, m)
      BY <2>1, AtStep, GoesOn
    <2>3. Memory(Rest(c))
      BY <2>1, AtStep DEF Rest, Memory, Idle0
    <2>4. Goes(c')
      <3>1. DOMAIN c' = DOMAIN Rest(c) /\ c'.todo = Rest(c).todo /\ c'.num = Rest(c).num
        BY <1>1, <2>3 DEF Finish, Memory, Idle0
      <3> QED BY <2>2, <3>1, GoesWhatever
    <2> QED BY <2>1, <2>2, <2>4, OrdinaryStep DEF Ordinary
  <1>2. CASE Reloaded
    <2>1. Busy /\ Now.op = "reloaded" /\ m' = m /\ UNCHANGED script
      BY <1>2 DEF Reloaded, At
    <2>2. Goes(Rest(c)) /\ Keeps(m, m)
      BY <2>1, AtStep, GoesOn
    <2>3. Memory(Rest(c))
      BY <2>1, AtStep DEF Rest, Memory, Idle0
    <2>4. Goes(c')
      <3>1. DOMAIN c' = DOMAIN Rest(c) /\ c'.todo = Rest(c).todo /\ c'.num = Rest(c).num
        BY <1>2, <2>3 DEF Reloaded, Memory, Idle0
      <3> QED BY <2>2, <3>1, GoesWhatever
    <2> QED BY <2>1, <2>2, <2>4, OrdinaryStep DEF Ordinary
  <1>3. CASE DropStack
    <2>1. Busy /\ Now.op = "drop stack" /\ m' = m /\ UNCHANGED script
      BY <1>3 DEF DropStack, At
    <2>2. Goes(Rest(c)) /\ Keeps(m, m)
      BY <2>1, AtStep, GoesOn
    <2>3. Memory(Rest(c))
      BY <2>1, AtStep DEF Rest, Memory, Idle0
    <2>4. Goes(c')
      <3>1. DOMAIN c' = DOMAIN Rest(c) /\ c'.todo = Rest(c).todo /\ c'.num = Rest(c).num
        BY <1>3, <2>3 DEF DropStack, Memory, Idle0
      <3> QED BY <2>2, <3>1, GoesWhatever
    <2> QED BY <2>1, <2>2, <2>4, OrdinaryStep DEF Ordinary
  <1>4. CASE StopToReboot
    <2>1. Busy /\ Now.op = "stop to reboot" /\ m' = m /\ UNCHANGED script
          /\ c' \in {Fail(c), Rest(c)}
      BY <1>4 DEF StopToReboot, At
    <2>2. Goes(Rest(c)) /\ Goes(Fail(c)) /\ Keeps(m, m)
      BY <2>1, AtStep, GoesOn
    <2> QED BY <2>1, <2>2, OrdinaryStep DEF Ordinary
  <1>5. CASE SaveLog
    <2>1. Busy /\ Now.op = "save log" /\ UNCHANGED script
      BY <1>5 DEF SaveLog, At
    <2>2. PICK r \in Call(c, "save log", CancelTryContinue) :
             /\ m' = IF Done(r) THEN [m EXCEPT !.log = c.log] ELSE m
             /\ c' = Rest(r.c)
      BY <1>5 DEF SaveLog
    <2>3. Goes(c')
      BY <2>1, <2>2, Answers, GoesOn
    <2>4. Keeps(m, m')
      BY <2>1, <2>2, AtStep, OtherFieldsKeep
    <2> QED BY <2>1, <2>3, <2>4, OrdinaryStep DEF Ordinary
  <1>6. CASE SameName
    <2>1. Busy /\ Now.op = "same name" /\ UNCHANGED script /\ m' = m
      BY <1>6 DEF SameName, At
    <2>2. \/ c' = Rest(c)
          \/ \E a \in Dialog(c, OkCancel) : c' = Rest(a.c) \/ c' = Fail(a.c)
      BY <1>6 DEF SameName
    <2>3. Goes(c')
      BY <2>1, <2>2, AtStep, Answers, GoesOn
    <2> QED BY <2>1, <2>3, AtStep, OrdinaryStep DEF Ordinary
  <1>7. CASE FriendlyName
    <2>1. Busy /\ Now.op = "friendly name" /\ UNCHANGED script /\ c' = Rest(c)
          /\ m' = UpdateFriendlyNamePort(m, Now.port)
      BY <1>7 DEF FriendlyName, At
    <2>2. Goes(c')
      BY <2>1, AtStep, GoesOn
    <2>3. Keeps(m, m')
      BY <2>1, AtStep, FriendlyNamesKeep
    <2> QED BY <2>1, <2>2, <2>3, OrdinaryStep DEF Ordinary
  <1> QED BY <1>1, <1>2, <1>3, <1>4, <1>5, <1>6, <1>7

LEMMA NameSteps ==
  ASSUME NumbersInv, IsValidPortName \/ IsLoggedPortName
  PROVE  NumbersInv'
  <1>2. ASSUME Busy, NEW d, Same(c, d), NEW steps, Plain(steps), NEW inUse \in BOOLEAN,
               AskInUse(d, inUse, steps)
        PROVE  Goes(c')
    <2>1. \/ c' = Then(d, steps)
          \/ \E a \in Dialog(d, CancelTryContinue) :
                c' = Then(a.c, steps) \/ c' = a.c \/ c' = Fail(a.c)
      BY <1>2 DEF AskInUse
    <2>2. Memory(d)
      BY <1>2 DEF Same
    <2>3. \A a \in Dialog(d, CancelTryContinue) : Same(c, a.c)
      BY <1>2, <2>2, DialogSame, SameTransitive
    <2> QED BY <1>2, <2>1, <2>3, GoesOn
  <1>3. CASE IsValidPortName
    <2>1. Busy /\ Now.op = "validate" /\ m' = m /\ UNCHANGED script
      BY <1>3 DEF IsValidPortName, At
    <2> DEFINE inUse == Now.name \in DosNames(m)
               steps == << [Now EXCEPT !.op = "validate db"] >>
    <2>2. c' = Fail(c) \/ AskInUse(c, inUse, steps)
      BY <1>3 DEF IsValidPortName
    <2>3. Plain(steps)
      BY <2>1, AtStep, OldStep, OnePlain DEF Marked
    <2>4. inUse \in BOOLEAN
      OBVIOUS
    <2> HIDE DEF inUse, steps
    <2>5. Goes(c')
      BY <1>2, <2>1, <2>2, <2>3, <2>4, AtStep, GoesOn
    <2> QED BY <2>1, <2>5, AtStep, OrdinaryStep DEF Ordinary
  <1>4. CASE IsLoggedPortName
    <2>1. Busy /\ Now.op = "validate db" /\ m' = m /\ UNCHANGED script
      BY <1>4 DEF IsLoggedPortName, At
    <2> DEFINE inUse(r) == Done(r) /\ ComDbGetInUse(m, Now.name)
    <2>2. \/ c' = Fail(c) \/ c' = Rest(c)
          \/ \E r \in Call(c, "arbiter", CancelTryContinue) :
                c' = Fail(r.c) \/ AskInUse(r.c, inUse(r), << >>)
      BY <1>4 DEF IsLoggedPortName
    <2>3. \A r : inUse(r) \in BOOLEAN
      OBVIOUS
    <2> HIDE DEF inUse
    <2>4. Goes(c')
      BY <1>2, <2>1, <2>2, <2>3, AtStep, Answers, GoesOn, NonePlain
    <2> QED BY <2>1, <2>4, AtStep, OrdinaryStep DEF Ordinary
  <1> QED BY <1>3, <1>4

LEMMA DatabaseSteps ==
  ASSUME NumbersInv, ComDbSync \/ SyncName
  PROVE  NumbersInv'
  <1>1. CASE ComDbSync
    <2>1. Busy /\ Now.op \in {"sync", "sync if changed", "sync always"} /\ m' = m
          /\ UNCHANGED script
      BY <1>1 DEF ComDbSync
    <2> DEFINE steps == << [S("sync name") EXCEPT !.at = 1, !.names = LoadComNames(m)] >>
    <2>2. Plain(steps)
      <3>1. Is([S("sync name") EXCEPT !.at = 1, !.names = LoadComNames(m)], "sync name")
        BY NewStep
      <3> QED BY <3>1, OnePlain DEF Marked
    <2>3. \/ c' = Rest(c)
          \/ \E r \in Call(c, "load", JustOk) :
                \/ c' = Rest(r.c)
                \/ \E x \in LoadComDbLocal(m, r.c) : c' = Rest(x.c) \/ c' = Then(x.c, steps)
      BY <1>1 DEF ComDbSync
    <2> HIDE DEF steps
    <2>4. ASSUME NEW d, Memory(d), NEW x \in LoadComDbLocal(m, d)
          PROVE  Same(d, x.c)
      <3>1. PICK r \in Call(d, "load log", CancelTryContinue) : \E y : x.c = [r.c EXCEPT !.log = y]
        <4> DEFINE Log(r) == IF Done(r) THEN m.log ELSE {}
                   Read(r) == [ok |-> r.how # "cancelled", c |-> [r.c EXCEPT !.log = Log(r)]]
        <4>1. PICK r \in Call(d, "load log", CancelTryContinue) : x = Read(r)
          BY <2>4 DEF LoadComDbLocal
        <4>2. Read(r).c = [r.c EXCEPT !.log = Log(r)]
          OBVIOUS
        <4> HIDE DEF Log, Read
        <4> QED BY <4>1, <4>2
      <3>2. Same(d, r.c) /\ Memory(r.c)
        BY <2>4, CallKept
      <3>3. Same(r.c, x.c)
        BY <3>1, <3>2 DEF Same, Memory, Idle0
      <3> QED BY <3>2, <3>3, SameTransitive
    <2>6. \A r \in Call(c, "load", JustOk) : \A x \in LoadComDbLocal(m, r.c) : Same(c, x.c)
      BY <2>4, Answers, SameTransitive
    <2>5. Goes(c')
      BY <2>1, <2>2, <2>3, <2>6, AtStep, Answers, GoesOn
    <2> QED BY <2>1, <2>5, AtStep, OrdinaryStep DEF Ordinary
  <1>2. CASE SyncName
    <2>1. Busy /\ Now.op = "sync name" /\ UNCHANGED script
      BY <1>2 DEF SyncName, At
    <2> DEFINE todo == Misfits(Now.at, Now.names, c.log)
               j == CHOOSE i \in todo : \A k \in todo : i <= k
               n == ComOrder[j]
               more == [Now EXCEPT !.at = j + 1]
               log == IF n \in Now.names THEN c.log \cup {n} ELSE c.log \ {n}
    <2>2. Plain(<< more >>) /\ Plain(<< S("save log"), more >>)
      <3>1. Is(more, "sync name") /\ Is(S("save log"), "save log")
        BY <2>1, AtStep, OldStep, NewStep
      <3> HIDE DEF more
      <3>2. Plain(<< more >>) /\ Plain(<< S("save log") >>)
        BY <3>1, OnePlain DEF Marked
      <3>3. << S("save log"), more >> = << S("save log") >> \o << more >>
        BY TwoSteps
      <3> QED BY <3>2, <3>3, JoinedPlain
    <2>3. \/ c' = Rest(c) /\ m' = m
          \/ \E r \in ClaimReleasePort(m, c, n, n \in Now.names) :
                /\ m' = r.m
                /\ \/ c' = Then(r.c, << more >>)
                   \/ \E x : c' = [Then(r.c, << S("save log"), more >>) EXCEPT !.log = x]
      <3> DEFINE Logged(r) == [Then(r.c, << S("save log"), more >>) EXCEPT
                                  !.log = IF n \in Now.names THEN @ \cup {n} ELSE @ \ {n}]
      <3>1. \/ c' = Rest(c) /\ m' = m
            \/ \E r \in ClaimReleasePort(m, c, n, n \in Now.names) :
                  /\ m' = r.m
                  /\ c' = IF ~r.ok THEN Then(r.c, << more >>) ELSE Logged(r)
        BY <1>2, Zenon DEF SyncName
      <3>2. \A r : \E x : Logged(r) = [Then(r.c, << S("save log"), more >>) EXCEPT !.log = x]
        OBVIOUS
      <3> HIDE DEF Logged, n, more
      <3> QED BY <3>1, <3>2
    <2> HIDE DEF n, more
    <2>4. \A r \in ClaimReleasePort(m, c, n, n \in Now.names) : Fine(m, c, r)
      <3>1. \A claim : \A r \in ClaimReleasePort(m, c, n, claim) : Fine(m, c, r)
        BY <2>1, AtStep, ClaimReleaseFine
      <3>2. PICK claim : claim = (n \in Now.names)
        OBVIOUS
      <3> QED BY <3>1, <3>2
    <2>5. CASE c' = Rest(c) /\ m' = m
      BY <2>1, <2>5, AtStep, GoesOn, OrdinaryStep DEF Ordinary
    <2>6. ASSUME NEW r \in ClaimReleasePort(m, c, n, n \in Now.names), m' = r.m,
                 \/ c' = Then(r.c, << more >>)
                 \/ \E x : c' = [Then(r.c, << S("save log"), more >>) EXCEPT !.log = x]
          PROVE  Ordinary
      <3>1. Keeps(m, m') /\ Same(c, r.c) /\ Memory(r.c)
        BY <2>4, <2>6 DEF Fine, Same
      <3> DEFINE both == << S("save log"), more >>
      <3> HIDE DEF both
      <3>2. Goes(Then(r.c, << more >>)) /\ Goes(Then(r.c, both)) /\ Memory(Then(r.c, both))
        BY <2>1, <2>2, <3>1, GoesOn DEF Then, Memory, Idle0, both
      <3>3. ASSUME NEW x, c' = [Then(r.c, both) EXCEPT !.log = x] PROVE Goes(c')
        <4>1. /\ DOMAIN c' = DOMAIN Then(r.c, both)
              /\ c'.todo = Then(r.c, both).todo /\ c'.num = Then(r.c, both).num
          BY <3>2, <3>3 DEF Memory, Idle0
        <4> QED BY <3>2, <4>1, GoesWhatever
      <3> QED BY <2>6, <3>1, <3>2, <3>3 DEF Ordinary, both
    <2> QED BY <2>1, <2>3, <2>5, <2>6, OrdinaryStep
  <1> QED BY <1>1, <1>2

\* Where a loop over devices goes on.
LEMMA LoopedGoes ==
  ASSUME NumbersInv, Busy, Now.op \notin Marked, NEW o, Same(c, o.c), NEW again, NEW op,
         Is(again, op), op \notin Marked
  PROVE  Goes(Looped(o, again))
  <1> DEFINE more == << [Now EXCEPT !.devs = Tail(@)] >>
             next == [Rest(o.c) EXCEPT !.todo = more \o @]
  <1>1. Looped(o, again) \in {next, Then(o.c, << again >>), Rest(o.c), Fail(o.c)}
    BY DEF Looped
  <1>2. Plain(more) /\ Plain(<< again >>)
    <2>1. more = << [Now EXCEPT !.devs = Tail(Now.devs)] >>
      OBVIOUS
    <2>2. Is([Now EXCEPT !.devs = Tail(Now.devs)], Now.op)
      BY AtStep, OldStep
    <2> QED BY <2>1, <2>2, OnePlain
  <1> HIDE DEF more
  <1>3. Goes(Then(o.c, << again >>)) /\ Goes(Rest(o.c)) /\ Goes(Fail(o.c)) /\ Goes(Then(o.c, more))
    BY <1>2, GoesOn
  <1>4. /\ DOMAIN next = DOMAIN Then(o.c, more)
        /\ next.todo = Then(o.c, more).todo /\ next.num = Then(o.c, more).num
    BY DEF Rest, Then, Same, Memory, Idle0
  <1> HIDE DEF next
  <1>5. Goes(next)
    BY <1>3, <1>4, GoesWhatever
  <1> QED BY <1>1, <1>3, <1>5

LEMMA LoopSteps ==
  ASSUME NumbersInv,
         Enumerate \/ DisableEach \/ RestartEach \/ RemoveEach \/ EnableEach \/ Restore
         \/ FindPair \/ TakeOut
  PROVE  NumbersInv'
  <1>0. ASSUME Busy, Now.op \in {"disable each", "restart each", "remove each"}
        PROVE  Is(Again, IF Now.op = "disable each" THEN "disable"
                         ELSE IF Now.op = "restart each" THEN "restart" ELSE "remove")
    BY <1>0, AtStep DEF Again, Is
  <1>1. CASE Enumerate
    <2> DEFINE op == CASE Now.op = "disable" -> "disable each"
                       [] Now.op = "restart" -> "restart each"
                       [] OTHER -> "remove each"
    <2>1. Busy /\ Now.op \in {"disable", "restart", "remove"} /\ m' = m /\ UNCHANGED script
          /\ c' = Then(c, << [Now EXCEPT !.devs = FoundNow, !.op = op] >>)
      BY <1>1 DEF Enumerate
    <2>2. op \notin Marked
      BY DEF Marked
    <2> HIDE DEF op
    <2>3. Is([Now EXCEPT !.devs = FoundNow, !.op = op], op)
      BY <2>1, AtStep DEF Is
    <2>4. Goes(c')
      BY <2>1, <2>2, <2>3, OnePlain, AtStep, GoesOn
    <2> QED BY <2>1, <2>4, AtStep, OrdinaryStep DEF Ordinary
  <1>2. ASSUME Busy, Now.op \in {"disable each", "restart each", "remove each"},
               NEW o, Fine(m, c, o), m' = o.m, c' = Looped(o, Again), UNCHANGED script
        PROVE  NumbersInv'
    <2> DEFINE op == IF Now.op = "disable each" THEN "disable"
                     ELSE IF Now.op = "restart each" THEN "restart" ELSE "remove"
    <2>1. op \notin Marked /\ Now.op \notin Marked
      BY <1>2 DEF Marked
    <2>2. Is(Again, op)
      BY <1>0, <1>2
    <2> HIDE DEF op
    <2>3. Goes(c')
      BY <1>2, <2>1, <2>2, LoopedGoes DEF Fine
    <2> QED BY <1>2, <2>1, <2>3, OrdinaryStep DEF Ordinary, Fine, Marked
  <1>3. ASSUME Busy, Now.op \in {"disable each", "restart each", "remove each"},
               c' = Rest(c), UNCHANGED << m, script >>
        PROVE  NumbersInv'
    BY <1>3, AtStep, GoesOn, OrdinaryStep DEF Ordinary
  <1>4. CASE DisableEach
    <2>1. Busy /\ Now.op = "disable each" /\ UNCHANGED script
      BY <1>4 DEF DisableEach, At
    <2>2. \/ c' = Rest(c) /\ UNCHANGED m
          \/ \E o \in DisableDevice(m, c, Head(Now.devs), Now.at = 1) :
                m' = o.m /\ c' = Looped(o, Again)
      BY <1>4 DEF DisableEach
    <2>3. \A o \in DisableDevice(m, c, Head(Now.devs), Now.at = 1) : Fine(m, c, o)
      <3>1. \A dev, push : \A o \in DisableDevice(m, c, dev, push) : Fine(m, c, o)
        BY <2>1, AtStep, DisableDeviceFine
      <3>2. PICK push : push = (Now.at = 1)
        OBVIOUS
      <3> QED BY <3>1, <3>2
    <2> QED BY <1>2, <1>3, <2>1, <2>2, <2>3
  <1>5. CASE RestartEach
    <2>1. Busy /\ Now.op = "restart each" /\ UNCHANGED script
      BY <1>5 DEF RestartEach, At
    <2>2. \/ c' = Rest(c) /\ UNCHANGED m
          \/ \E o \in RestartDevice(m, c, Head(Now.devs)) : m' = o.m /\ c' = Looped(o, Again)
      BY <1>5 DEF RestartEach
    <2>3. \A o \in RestartDevice(m, c, Head(Now.devs)) : Fine(m, c, o)
      BY <2>1, AtStep, RestartDeviceFine
    <2> QED BY <1>2, <1>3, <2>1, <2>2, <2>3
  <1>6. CASE RemoveEach
    <2>1. Busy /\ Now.op = "remove each" /\ UNCHANGED script
      BY <1>6 DEF RemoveEach, At
    <2>2. \/ c' = Rest(c) /\ UNCHANGED m
          \/ \E o \in RemoveDevice(m, c, Head(Now.devs)) : m' = o.m /\ c' = Looped(o, Again)
      BY <1>6 DEF RemoveEach
    <2>3. \A o \in RemoveDevice(m, c, Head(Now.devs)) : Fine(m, c, o)
      BY <2>1, AtStep, RemoveDeviceFine
    <2> QED BY <1>2, <1>3, <2>1, <2>2, <2>3
  <1>7. CASE EnableEach
    <2>1. Busy /\ Now.op = "enable" /\ UNCHANGED script
      BY <1>7 DEF EnableEach, At
    <2>2. \/ c' = Rest(c) /\ UNCHANGED m
          \/ \E dev : \E o \in EnableDevice(m, c, dev) :
                m' = o.m /\ c' = Then(o.c, << [Now EXCEPT !.at = @ + 1] >>)
      BY <1>7, Zenon DEF EnableEach
    <2>3. \A dev : \A o \in EnableDevice(m, c, dev) : Fine(m, c, o)
      BY <2>1, AtStep, EnableDeviceFine
    <2>4. Plain(<< [Now EXCEPT !.at = @ + 1] >>)
      <3>1. Is([Now EXCEPT !.at = Now.at + 1], "enable")
        BY <2>1, AtStep, OldStep
      <3> QED BY <3>1, OnePlain DEF Marked
    <2>5. Ordinary
      BY <2>1, <2>2, <2>3, <2>4, AtStep, GoesOn DEF Ordinary, Fine
    <2> QED BY <2>1, <2>5, OrdinaryStep
  <1>8. CASE Restore
    <2>1. Busy /\ Now.op = "restore" /\ UNCHANGED script
      BY <1>8 DEF Restore, At
    <2> DEFINE d == [c EXCEPT !.stack = Tail(@)]
    <2>2. \/ c' \in {Fail(c), Rest(c), d} /\ UNCHANGED m
          \/ \E dev : \E o \in EnableDevice(m, d, dev) : m' = o.m /\ c' = o.c
      BY <1>8, Zenon DEF Restore
    <2>3. Same(c, d) /\ Memory(d)
      BY <2>1, AtStep DEF Same, Memory, Idle0
    <2> HIDE DEF d
    <2>4. \A dev : \A o \in EnableDevice(m, d, dev) : Fine(m, d, o)
      BY <2>1, <2>3, AtStep, EnableDeviceFine
    <2>5. \A dev : \A o \in EnableDevice(m, d, dev) : Keeps(m, o.m) /\ Same(c, o.c)
      BY <2>3, <2>4, SameTransitive DEF Fine
    <2>6. Ordinary
      BY <2>1, <2>2, <2>3, <2>5, AtStep, GoesOn DEF Ordinary
    <2> QED BY <2>1, <2>6, OrdinaryStep
  <1>9. CASE FindPair
    <2>1. Busy /\ Now.op = "find" /\ m' = m /\ UNCHANGED script
      BY <1>9 DEF FindPair, At
    <2>2. c' = Fail(c) \/ \E found : c' = Then(c, << [Now EXCEPT !.op = "take out", !.devs = found] >>)
      BY <1>9, Zenon DEF FindPair
    <2>3. \A found : Plain(<< [Now EXCEPT !.op = "take out", !.devs = found] >>)
      BY <2>1, AtStep, OldStep, OnePlain DEF Marked
    <2>4. Goes(c')
      BY <2>1, <2>2, <2>3, AtStep, GoesOn
    <2> QED BY <2>1, <2>4, AtStep, OrdinaryStep DEF Ordinary
  <1>10. CASE TakeOut
    <2>1. Busy /\ Now.op = "take out" /\ UNCHANGED script
      BY <1>10 DEF TakeOut, At
    <2> DEFINE dev == Head(Now.devs)
               more == << [Now EXCEPT !.devs = Tail(@)] >>
               again == [Now EXCEPT !.op = "find"]
    <2>2. \/ c' = Rest(c) /\ UNCHANGED m
          \/ \E o \in DisableDevice(m, c, dev, FALSE) :
                \/ \E x \in RemoveDevice(o.m, o.c, dev) :
                      m' = x.m /\ c' \in {Then(x.c, more), Then(x.c, << >>)}
                \/ m' = o.m /\ c' = Looped(o, again)
      <3> SUFFICES ASSUME NEW no, no = FALSE
                   PROVE  \/ c' = Rest(c) /\ UNCHANGED m
                          \/ \E o \in DisableDevice(m, c, dev, no) :
                                \/ \E x \in RemoveDevice(o.m, o.c, dev) :
                                      m' = x.m /\ c' \in {Then(x.c, more), Then(x.c, << >>)}
                                \/ m' = o.m /\ c' = Looped(o, again)
        OBVIOUS
      <3>1. \/ c' = Rest(c) /\ UNCHANGED m
            \/ \E o \in DisableDevice(m, c, dev, no) :
                  IF o.reply = "continue"
                  THEN \E x \in RemoveDevice(o.m, o.c, dev) :
                          m' = x.m /\ c' = Then(x.c, Only(x.reply = "continue", more))
                  ELSE m' = o.m /\ c' = Looped(o, again)
        BY <1>10, Zenon DEF TakeOut
      <3>2. \A x : Only(x.reply = "continue", more) \in {more, << >>}
        BY DEF Only
      <3> HIDE DEF dev, more, again
      <3> QED BY <3>1, <3>2
    <2>3. Plain(more) /\ Is(again, "find")
      <3>1. Is([Now EXCEPT !.devs = Tail(Now.devs)], "take out")
        BY <2>1, AtStep, OldStep
      <3> QED BY <2>1, <3>1, AtStep, OldStep, OnePlain DEF Marked
    <2> HIDE DEF dev, more, again
    <2>4. \A o \in DisableDevice(m, c, dev, FALSE) : Fine(m, c, o)
      <3>1. \A push : \A o \in DisableDevice(m, c, dev, push) : Fine(m, c, o)
        BY <2>1, AtStep, DisableDeviceFine
      <3>2. PICK push : push = FALSE
        OBVIOUS
      <3> QED BY <3>1, <3>2
    <2>5. CASE c' = Rest(c) /\ UNCHANGED m
      <3>1. Goes(c')
        BY <2>1, <2>5, AtStep, GoesOn
      <3>2. Keeps(m, m')
        BY <2>1, <2>5, AtStep
      <3> QED BY <2>1, <3>1, <3>2, OrdinaryStep DEF Ordinary
    <2>6. ASSUME NEW o \in DisableDevice(m, c, dev, FALSE), NEW x \in RemoveDevice(o.m, o.c, dev),
                 m' = x.m, c' \in {Then(x.c, more), Then(x.c, << >>)}
          PROVE  Ordinary
      <3>1. Keeps(m, o.m) /\ Same(c, o.c) /\ Memory(o.c) /\ Shaped(o.m)
        BY <2>4 DEF Fine, Same, Keeps
      <3>2. Fine(o.m, o.c, x)
        BY <3>1, RemoveDeviceFine
      <3>3. Fine(m, c, x)
        BY <3>1, <3>2, FineTransitive
      <3> QED BY <2>1, <2>3, <2>6, <3>3, NonePlain, GoesOn DEF Ordinary, Fine
    <2>7. ASSUME NEW o \in DisableDevice(m, c, dev, FALSE), m' = o.m, c' = Looped(o, again)
          PROVE  Ordinary
      BY <2>1, <2>3, <2>4, <2>7, LoopedGoes DEF Ordinary, Fine, Marked
    <2> QED BY <2>1, <2>2, <2>5, <2>6, <2>7, OrdinaryStep
  <1> QED BY <1>1, <1>4, <1>5, <1>6, <1>7, <1>8, <1>9, <1>10

LEMMA SoftwareSteps ==
  ASSUME NumbersInv, DeleteSoftware \/ UninstallInf \/ InstallSoftware
  PROVE  NumbersInv'
  <1>1. ASSUME Busy, Now.op \in {"delete", "uninstall inf", "install software"}, UNCHANGED script,
               m' = m \/ \E x : m' = [m EXCEPT !.soft = x],
               NEW e, Same(c, e), c' = Rest(e) \/ c' = Fail(e)
        PROVE  NumbersInv'
    <2>1. Keeps(m, m')
      <3>1. Keeps(m, m) /\ \A x : Keeps(m, [m EXCEPT !.soft = x])
        BY <1>1, AtStep, OtherFieldsKeep
      <3> QED BY <1>1, <3>1
    <2>2. Goes(c')
      BY <1>1, GoesOn
    <2> QED BY <1>1, <2>1, <2>2, OrdinaryStep DEF Ordinary
  <1>2. Busy => Same(c, c)
    BY AtStep
  <1>3. ASSUME Busy, NEW x PROVE /\ \E y : [m EXCEPT !.soft = @ \ x] = [m EXCEPT !.soft = y]
                                 /\ \E y : [m EXCEPT !.soft = @ \cup x] = [m EXCEPT !.soft = y]
    BY <1>3, AtStep DEF Shaped
  <1>4. CASE DeleteSoftware
    <2>1. Busy /\ Now.op = "delete" /\ UNCHANGED script
      BY <1>4 DEF DeleteSoftware, At
    <2>2. \/ c' = Rest(c) /\ m' = m
          \/ \E r \in Call(c, "delete", CancelTryContinue) :
                /\ m' = m \/ m' = [m EXCEPT !.soft = @ \ {Now.id}]
                /\ c' = Rest(r.c) \/ c' = Fail(r.c)
      BY <1>4 DEF DeleteSoftware
    <2> QED BY <1>1, <1>2, <1>3, <2>1, <2>2, Answers
  <1>5. CASE UninstallInf
    <2>1. Busy /\ Now.op = "uninstall inf" /\ UNCHANGED script
      BY <1>5 DEF UninstallInf, At
    <2> DEFINE Said(a) == [go |-> a.reply = "yes", c |-> a.c]
               none == [go |-> TRUE, c |-> c]
               asked == {Said(a) : a \in Dialog(c, {"yes", "no"})}
    <2>2. \E d \in IF Now.flag THEN asked ELSE {none} :
             \/ c' = Rest(d.c) /\ m' = m
             \/ \E r \in Call(d.c, "inf", CancelTryContinue) :
                   /\ m' = m \/ m' = [m EXCEPT !.soft = @ \ {Now.id}]
                   /\ c' = Rest(r.c)
      BY <1>5 DEF UninstallInf
    <2>3. (\A a : Said(a).c = a.c) /\ none.c = c
      OBVIOUS
    <2> HIDE DEF Said, none
    <2>4. PICK d : /\ Same(c, d)
                   /\ \/ c' = Rest(d) /\ m' = m
                      \/ \E r \in Call(d, "inf", CancelTryContinue) :
                            /\ m' = m \/ m' = [m EXCEPT !.soft = @ \ {Now.id}]
                            /\ c' = Rest(r.c)
      <3>1. PICK z \in (IF Now.flag THEN asked ELSE {none}) :
               \/ c' = Rest(z.c) /\ m' = m
               \/ \E r \in Call(z.c, "inf", CancelTryContinue) :
                     /\ m' = m \/ m' = [m EXCEPT !.soft = @ \ {Now.id}]
                     /\ c' = Rest(r.c)
        BY <2>2
      <3>2. Same(c, z.c)
        <4>1. z = none \/ \E a \in Dialog(c, {"yes", "no"}) : z = Said(a)
          OBVIOUS
        <4> QED BY <1>2, <2>1, <2>3, <4>1, Answers
      <3> QED BY <3>1, <3>2
    <2>5. \A r \in Call(d, "inf", CancelTryContinue) : Same(c, r.c)
      BY <2>4, CallKept, SameTransitive DEF Same
    <2> QED BY <1>1, <1>3, <2>1, <2>4, <2>5
  <1>6. CASE InstallSoftware
    <2>1. Busy /\ Now.op = "install software" /\ UNCHANGED script
      BY <1>6 DEF InstallSoftware, At
    <2>2. \E replies : \E r \in Call(c, "install software", replies) :
             /\ m' = m \/ m' = [m EXCEPT !.soft = @ \cup {Now.id}]
             /\ c' = Rest(r.c) \/ c' = Fail(r.c)
      BY <1>6 DEF InstallSoftware
    <2> QED BY <1>1, <1>3, <2>1, <2>2, Answers
  <1> QED BY <1>4, <1>5, <1>6

LEMMA InfFilesStep ==
  ASSUME NumbersInv, UninstallAllInfFiles
  PROVE  NumbersInv'
  <1>1. Busy /\ Now.op = "scan infs" /\ m' = m /\ UNCHANGED script
    BY DEF UninstallAllInfFiles, At
  <1> DEFINE left == Selected(OemInfs, TestUninstall)
             steps == [i \in DOMAIN left |-> InfStep(left[i])]
  <1>2. \E r \in Call(c, "list infs", JustOk) : c' = Then(r.c, steps) \/ c' = Fail(r.c)
    BY Zenon DEF UninstallAllInfFiles
  <1>3. Plain(steps)
    <2> DEFINE at == {i \in DOMAIN OemInfs : TestUninstall(OemInfs[i])}
    <2>1. DOMAIN left = 1..Cardinality(at)
      BY DEF Selected
    <2>2. IsFiniteSet(DOMAIN OemInfs)
      <3> DEFINE alike == << "older", "alike" >>
      <3>1. DOMAIN Infs = 1..3 /\ Infs = [i \in 1..3 |-> Infs[i]]
        BY DEF Infs
      <3>2. DOMAIN alike = 1..2 /\ alike = [i \in 1..2 |-> alike[i]]
        OBVIOUS
      <3>3. OemInfs = Infs \o alike
        BY DEF OemInfs
      <3> HIDE DEF alike
      <3>4. DOMAIN OemInfs = 1..5
        BY <3>1, <3>2, <3>3, Joined
      <3>5. 1 \in Int /\ 5 \in Int
        OBVIOUS
      <3>6. IsFiniteSet(1..5)
        BY <3>5, FS_Interval
      <3> QED BY <3>4, <3>6
    <2>3. Cardinality(at) \in Nat
      <3>1. IsFiniteSet(at)
        BY <2>2, FS_Subset
      <3> QED BY <3>1, FS_CardinalityType
    <2> HIDE DEF at, left
    <2>4. \A i \in 1..Cardinality(at) : Is(steps[i], "uninstall inf")
      BY <2>1, NewStep DEF InfStep
    <2>5. steps = [i \in 1..Cardinality(at) |-> steps[i]]
      BY <2>1
    <2> HIDE DEF steps
    <2> QED BY <2>3, <2>4, <2>5, EachPlain DEF Marked
  <1> HIDE DEF steps
  <1>4. Goes(c')
    BY <1>1, <1>2, <1>3, Answers, GoesOn
  <1> QED BY <1>1, <1>4, AtStep, OrdinaryStep DEF Ordinary

LEMMA BusSteps ==
  ASSUME NumbersInv, UpdateFriendlyNames \/ ReenumerateDeviceNode
  PROVE  NumbersInv'
  <1>1. CASE UpdateFriendlyNames
    <2>1. Busy /\ Now.op = "friendly names" /\ UNCHANGED script /\ c' = Rest(c)
          /\ (m' = m \/ \E num : m' = UpdateFriendlyNamesBus(m, num))
      BY <1>1 DEF UpdateFriendlyNames, At
    <2>2. Keeps(m, m')
      BY <2>1, AtStep, FriendlyNamesKeep
    <2>3. Goes(c')
      BY <2>1, AtStep, GoesOn
    <2> QED BY <2>1, <2>2, <2>3, OrdinaryStep DEF Ordinary
  <1>2. CASE ReenumerateDeviceNode
    <2>1. Busy /\ Now.op = "reenumerate" /\ UNCHANGED script /\ c' = Rest(c)
          /\ (m' = m \/ \E n : m' = QueryBusRelations(m, n))
      BY <1>2 DEF ReenumerateDeviceNode, At
    <2>2. Keeps(m, m')
      BY <2>1, AtStep, QueryBusRelationsKeeps
    <2>3. Goes(c')
      BY <2>1, AtStep, GoesOn
    <2> QED BY <2>1, <2>2, <2>3, OrdinaryStep DEF Ordinary
  <1> QED BY <1>1, <1>2

LEMMA RenameStep ==
  ASSUME NumbersInv, UpdateRealPortName
  PROVE  NumbersInv'
  <1>1. Busy /\ Now.op = "rename" /\ UNCHANGED script
    BY DEF UpdateRealPortName, At
  <1> DEFINE k == Now.port
             old == m.port[k].real
             Named(w) == [w EXCEPT !.port[k].real = Now.name]
  <1>2. \/ c' = Rest(c) /\ m' = m
        \/ \E x \in ClaimReleasePort(m, c, Now.name, TRUE) :
              \/ c' = Rest(x.c) /\ m' = m
              \/ \E r \in Call(x.c, "write name", JustOk) :
                    \E w \in {x.m, Named(x.m)}, n \in {old, Now.name} :
                       \E y \in ClaimReleasePort(w, r.c, n, FALSE) :
                          m' \in {SetFriendlyNamePort(y.m, k), y.m} /\ c' = Rest(y.c)
    <2> SUFFICES ASSUME NEW no, no = FALSE, NEW yes, yes = TRUE
                 PROVE  \/ c' = Rest(c) /\ m' = m
                        \/ \E x \in ClaimReleasePort(m, c, Now.name, yes) :
                              \/ c' = Rest(x.c) /\ m' = m
                              \/ \E r \in Call(x.c, "write name", JustOk) :
                                    \E w \in {x.m, Named(x.m)}, n \in {old, Now.name} :
                                       \E y \in ClaimReleasePort(w, r.c, n, no) :
                                          m' \in {SetFriendlyNamePort(y.m, k), y.m} /\ c' = Rest(y.c)
      OBVIOUS
    <2>1. \/ c' = Rest(c) /\ UNCHANGED m
          \/ \E x \in ClaimReleasePort(m, c, Now.name, yes) :
                IF x.ok
                THEN \E r \in Call(x.c, "write name", JustOk) :
                        \E y \in ClaimReleasePort(IF Done(r) THEN Named(x.m) ELSE x.m, r.c,
                                                  IF Done(r) THEN old ELSE Now.name, no) :
                           /\ m' = IF Done(r) THEN SetFriendlyNamePort(y.m, k) ELSE y.m
                           /\ c' = Rest(y.c)
                ELSE c' = Rest(x.c) /\ UNCHANGED m
      BY Zenon DEF UpdateRealPortName
    <2> HIDE DEF k, old, Named
    <2> QED BY <2>1
  <1>3. ASSUME NEW w, Shaped(w) PROVE Keeps(w, Named(w))
    <2>1. DOMAIN Named(w) = DOMAIN w /\ Named(w).bus = w.bus
      BY <1>3 DEF Shaped
    <2> HIDE DEF Named
    <2> QED BY <1>3, <2>1, SameBusKeeps
  <1> HIDE DEF k, old, Named
  <1>4. ASSUME NEW w, Shaped(w), NEW d, Memory(d), NEW n
        PROVE  /\ \A x \in ClaimReleasePort(w, d, n, TRUE) : Fine(w, d, x)
               /\ \A x \in ClaimReleasePort(w, d, n, FALSE) : Fine(w, d, x)
    <2>1. \A claim : \A x \in ClaimReleasePort(w, d, n, claim) : Fine(w, d, x)
      BY <1>4, ClaimReleaseFine
    <2>2. (\E claim : claim = TRUE) /\ (\E claim : claim = FALSE)
      OBVIOUS
    <2> QED BY <2>1, <2>2
  <1>5. CASE c' = Rest(c) /\ m' = m
    BY <1>1, <1>5, AtStep, GoesOn, OrdinaryStep DEF Ordinary
  <1>6. ASSUME NEW x \in ClaimReleasePort(m, c, Now.name, TRUE)
        PROVE  Keeps(m, x.m) /\ Shaped(x.m) /\ Same(c, x.c) /\ Memory(x.c)
    <2>1. Fine(m, c, x)
      BY <1>1, <1>4, AtStep
    <2> QED BY <2>1 DEF Fine, Keeps, Same
  <1>7. ASSUME NEW x \in ClaimReleasePort(m, c, Now.name, TRUE), c' = Rest(x.c), m' = m
        PROVE  Ordinary
    BY <1>1, <1>6, <1>7, AtStep, GoesOn DEF Ordinary
  <1>8. ASSUME NEW x \in ClaimReleasePort(m, c, Now.name, TRUE),
               NEW r \in Call(x.c, "write name", JustOk),
               NEW w \in {x.m, Named(x.m)}, NEW n,
               NEW y \in ClaimReleasePort(w, r.c, n, FALSE),
               m' \in {SetFriendlyNamePort(y.m, k), y.m}, c' = Rest(y.c)
        PROVE  Ordinary
    <2>1. Keeps(x.m, w) /\ Shaped(w)
      <3>1. Keeps(x.m, x.m) /\ Keeps(x.m, Named(x.m))
        BY <1>3, <1>6, OtherFieldsKeep
      <3> QED BY <3>1 DEF Keeps
    <2>2. Same(x.c, r.c) /\ Memory(r.c)
      BY <1>6, CallKept
    <2>3. Fine(w, r.c, y)
      BY <1>4, <2>1, <2>2
    <2>4. Same(c, y.c)
      BY <1>6, <2>2, <2>3, SameTransitive DEF Fine
    <2>5. Keeps(m, y.m) /\ Shaped(y.m)
      <3>1. Keeps(w, y.m)
        BY <2>3 DEF Fine
      <3> QED BY <1>6, <2>1, <3>1, KeepsTransitive DEF Keeps
    <2>6. Keeps(m, m')
      BY <1>8, <2>5, FriendlyNamesKeep, KeepsTransitive
    <2> QED BY <1>1, <1>8, <2>4, <2>6, GoesOn DEF Ordinary
  <1> QED BY <1>1, <1>2, <1>5, <1>7, <1>8, OrdinaryStep

LEMMA SaveParametersStep ==
  ASSUME NumbersInv, SaveParameters
  PROVE  NumbersInv'
  <1>1. Busy /\ Now.op = "save" /\ UNCHANGED script
    BY DEF SaveParameters, At
  <1>2. \E r \in Call(c, "save", JustOk) :
           c' = Rest(r.c) /\ \E x : m' = [m EXCEPT !.kept[Now.port] = x]
    BY DEF SaveParameters
  <1>3. Goes(c')
    BY <1>1, <1>2, Answers, GoesOn
  <1>4. \A x : Keeps(m, [m EXCEPT !.kept[Now.port] = x])
    <2> TAKE x
    <2> DEFINE v == [m EXCEPT !.kept[Now.port] = x]
    <2>1. DOMAIN v = DOMAIN m /\ v.bus = m.bus
      BY <1>1, AtStep DEF Shaped
    <2> HIDE DEF v
    <2>2. Keeps(m, v)
      BY <1>1, <2>1, AtStep, SameBusKeeps
    <2> QED BY <2>2 DEF v
  <1> QED BY <1>1, <1>2, <1>3, <1>4, OrdinaryStep DEF Ordinary

LEMMA ValidatePlain ==
  ASSUME NEW n, NEW flag
  PROVE  Plain(Validate(n, flag))
  <1>1. Is([S("validate") EXCEPT !.name = n, !.flag = flag], "validate")
    BY NewStep
  <1> QED BY <1>1, OnePlain DEF Validate, Marked

LEMMA InstallParametersStep ==
  ASSUME NumbersInv, InstallParameters
  PROVE  NumbersInv'
  <1> DEFINE k == Now.port
             Named(d, n) == [d EXCEPT !.names = Append(@, n)]
             Kept(q) == << [PortStep("save", k) EXCEPT !.params = q] >>
  <1>1. Busy /\ Now.op = "parameters" /\ UNCHANGED script /\ m' = m
    BY DEF InstallParameters, At
  <1> DEFINE Read(d) ==
               LET parsed == ParseParametersStr(Load(m.kept[k]), Now.A)
               IN  IF parsed = {} THEN c' = Fail(d)
                   ELSE \E p \in parsed :
                           LET n == FillPortName(p, PhPortName(k))
                               q == InitRealPortName(p, NoName)
                           IN  c' = Then(Named(d, n),
                                         Validate(n, FALSE) \o Only(Changed(q), Kept(q)))
  <1>2. PICK r \in Call(c, "load", JustOk) :
           IF ~Done(r) THEN c' = Rest(Named(r.c, PhPortName(k))) ELSE Read(r.c)
    BY Zenon DEF InstallParameters
  <1>3. Same(c, r.c) /\ Memory(r.c)
    BY Answers
  <1>4. \A n : Same(c, Named(r.c, n))
    BY <1>3 DEF Same, Memory, Idle0
  <1>5. Read(r.c) => \/ c' = Fail(r.c)
                     \/ \E n, q : c' = Then(Named(r.c, n), Validate(n, FALSE)
                                                           \o Only(Changed(q), Kept(q)))
    <2> HIDE DEF Named, Kept
    <2> QED BY Zenon
  <1>6. ASSUME NEW n, NEW q
        PROVE  Plain(Validate(n, FALSE) \o Only(Changed(q), Kept(q)))
    <2>1. \A flag : Plain(Validate(n, flag))
      BY ValidatePlain
    <2>2. Plain(Validate(n, FALSE))
      <3>1. PICK flag : flag = FALSE
        OBVIOUS
      <3> QED BY <2>1, <3>1
    <2>3. Plain(Kept(q))
      <3>1. Is([PortStep("save", k) EXCEPT !.params = q], "save")
        BY NewStep
      <3> QED BY <3>1, OnePlain DEF Marked
    <2> HIDE DEF Kept
    <2>4. Plain(Only(Changed(q), Kept(q)))
      BY <2>3, NonePlain DEF Only
    <2> QED BY <2>2, <2>4, JoinedPlain
  <1> HIDE DEF Named, Kept, Read
  <1>7. Goes(c')
    BY <1>1, <1>2, <1>3, <1>4, <1>5, <1>6, GoesOn
  <1> QED BY <1>1, <1>7, AtStep, OrdinaryStep DEF Ordinary

LEMMA ChangeStep ==
  ASSUME NumbersInv, ChangeDevice
  PROVE  NumbersInv'
  <1> DEFINE k       == Now.port
             loaded  == Load(m.kept[k])
             nameOld == FillPortName(loaded, PhPortName(k))
             comOld  == IsComClass(nameOld)
             before  == IF comOld THEN LoadRealPortName(loaded, k) ELSE loaded
             parsed  == ParseParametersStr(before, Now.A)
             nameNew(p) == FillPortName(p, PhPortName(k))
             both(p)    == comOld /\ IsComClass(nameNew(p))
             realOld == FillRealPortName(before)
             q(p)    == IF both(p) THEN p ELSE InitRealPortName(p, NoName)
             moved(p) == FillRealPortName(q(p)) # (IF both(p) THEN realOld ELSE NoName)
             First(p) == Only(nameNew(p) # nameOld
                              /\ (~comOld \/ realOld = NoName \/ nameNew(p) # realOld),
                              Validate(nameNew(p), FALSE))
             Second(p) == Only(moved(p), Validate(FillRealPortName(q(p)), TRUE))
             Third(p) == << [PortStep("save change", k) EXCEPT
                                !.dev = Now.dev, !.params = q(p), !.flag = moved(p)] >>
             Steps1(p) == First(p) \o Only(Changed(q(p)), Second(p) \o Third(p))
  <1>1. Busy /\ Now.op = "change" /\ UNCHANGED script /\ m' = m
    BY DEF ChangeDevice, At
  <1>2. \E r \in Call(c, "load", JustOk) :
           IF ~Done(r) \/ parsed = {} THEN c' = Fail(r.c)
           ELSE \E p \in parsed : c' = Then(r.c, Steps1(p))
    BY Zenon DEF ChangeDevice
  <1>3. \A n : Plain(Validate(n, FALSE)) /\ Plain(Validate(n, TRUE))
    <2>1. \A n, flag : Plain(Validate(n, flag))
      BY ValidatePlain
    <2>2. (\E flag : flag = TRUE) /\ (\E flag : flag = FALSE)
      OBVIOUS
    <2> QED BY <2>1, <2>2
  <1>4. ASSUME NEW p PROVE Plain(Steps1(p))
    <2>1. Plain(First(p)) /\ Plain(Second(p))
      <3>1. First(p) \in {Validate(nameNew(p), FALSE), << >>}
            /\ Second(p) \in {Validate(FillRealPortName(q(p)), TRUE), << >>}
        BY DEF Only
      <3> HIDE DEF First, Second, nameNew, q
      <3> QED BY <1>3, <3>1, NonePlain
    <2>2. Plain(Third(p))
      <3>1. \A x, y, z, u : Plain(<< [PortStep("save change", x) EXCEPT
                                         !.dev = y, !.params = z, !.flag = u] >>)
        BY NewStep, OnePlain DEF Marked
      <3>2. PICK u : u = moved(p)
        OBVIOUS
      <3> HIDE DEF moved, q, k
      <3> QED BY <3>1, <3>2
    <2> HIDE DEF First, Second, Third, q
    <2>3. Plain(Second(p) \o Third(p))
      BY <2>1, <2>2, JoinedPlain
    <2>4. Plain(Only(Changed(q(p)), Second(p) \o Third(p)))
      BY <2>3, NonePlain DEF Only
    <2> QED BY <2>1, <2>4, JoinedPlain
  <1> HIDE DEF Steps1, parsed
  <1>5. Goes(c')
    BY <1>1, <1>2, <1>4, Answers, GoesOn
  <1> QED BY <1>1, <1>5, AtStep, OrdinaryStep DEF Ordinary

LEMMA SaveChangeStep ==
  ASSUME NumbersInv, SaveChange
  PROVE  NumbersInv'
  <1> DEFINE k == Now.port
             nameOld == Name(m, k)
             nameNew == FillPortName(Now.params, PhPortName(k))
             named   == nameNew # nameOld
             fnPort  == << PortStep("friendly name", k) >>
             w(kept) == [m EXCEPT !.kept[k] = kept]
             anew    == << OfPort("disable", k), OfPort("remove", k),
                           BusStep("reenumerate", Now.dev) >> \o fnPort
             again   == Only(named, fnPort) \o RestartedAs(k, FillRealPortName(Now.params))
             next    == IF IsComClass(nameNew) # IsComClass(nameOld) THEN anew ELSE again
             Told(d) == [d EXCEPT !.changed = TRUE]
             Save1(kept, d) ==
                /\ m' = IF named THEN UpdateFriendlyNameBus(w(kept), Now.dev[2]) ELSE w(kept)
                /\ c' = Then(Told(d), next)
  <1>1. Busy /\ Now.op = "save change" /\ UNCHANGED script
    BY DEF SaveChange, At
  <1>2. PICK r \in Call(c, "save", JustOk) :
           IF Done(r) THEN Save1(Save(Now.params, m.kept[k]), r.c)
           ELSE \E f \in SaveFails(Now.params, m.kept[k]) :
                   IF f.told THEN c' = Fail(r.c) /\ UNCHANGED m ELSE Save1(f.kept, r.c)
    BY Zenon DEF SaveChange
  <1>3. ASSUME NEW kept
        PROVE  Keeps(m, w(kept)) /\ \A s : Keeps(m, UpdateFriendlyNameBus(w(kept), s))
    <2>1. DOMAIN w(kept) = DOMAIN m /\ w(kept).bus = m.bus
      BY <1>1, AtStep DEF Shaped
    <2> HIDE DEF w
    <2>2. Keeps(m, w(kept)) /\ Shaped(w(kept))
      BY <1>1, <2>1, AtStep, SameBusKeeps DEF Keeps
    <2> QED BY <2>2, FriendlyNamesKeep, KeepsTransitive
  <1>4. Plain(fnPort)
    BY NewStep, OnePlain DEF Marked
  <1>5. Plain(anew)
    <2>1. /\ Plain(<< OfPort("disable", k) >>) /\ Plain(<< OfPort("remove", k) >>)
          /\ Plain(<< BusStep("reenumerate", Now.dev) >>)
      BY NewStep, OnePlain DEF Marked
    <2>2. << OfPort("disable", k), OfPort("remove", k), BusStep("reenumerate", Now.dev) >>
             = << OfPort("disable", k) >> \o << OfPort("remove", k) >>
               \o << BusStep("reenumerate", Now.dev) >>
      BY ThreeSteps
    <2> HIDE DEF fnPort
    <2> QED BY <1>4, <2>1, <2>2, JoinedPlain
  <1>6. Plain(again)
    <2> DEFINE real == FillRealPortName(Now.params)
               first == << [PortStep("rename", k) EXCEPT !.name = real] >>
    <2>1. Plain(first) /\ Plain(<< OfPort("restart", k) >>)
      BY NewStep, OnePlain DEF Marked
    <2>2. RestartedAs(k, real) = Only(Now.flag, first) \o << OfPort("restart", k) >>
      BY DEF RestartedAs
    <2>3. Only(Now.flag, first) \in {first, << >>} /\ Only(named, fnPort) \in {fnPort, << >>}
      BY DEF Only
    <2> HIDE DEF first, real, named, fnPort
    <2>4. Plain(RestartedAs(k, real))
      BY <2>1, <2>2, <2>3, NonePlain, JoinedPlain
    <2>5. Plain(Only(named, fnPort))
      BY <1>4, <2>3, NonePlain
    <2> QED BY <2>4, <2>5, JoinedPlain DEF real
  <1>7. Plain(next)
    <2> HIDE DEF anew, again
    <2> QED BY <1>5, <1>6
  <1>8. Same(c, r.c) /\ Memory(r.c) /\ Same(c, Told(r.c))
    <2>1. Same(c, r.c) /\ Memory(r.c)
      BY Answers
    <2> QED BY <2>1, OthersSame, SameTransitive
  <1> HIDE DEF next, Told, w
  <1>9. ASSUME NEW kept, Save1(kept, r.c) PROVE Ordinary
    <2>1. Keeps(m, m')
      BY <1>3, <1>9
    <2>2. Goes(c')
      BY <1>1, <1>7, <1>8, <1>9, GoesOn
    <2> QED BY <2>1, <2>2 DEF Ordinary
  <1>10. ASSUME c' = Fail(r.c), UNCHANGED m PROVE Ordinary
    <2>1. Goes(c')
      BY <1>1, <1>8, <1>10, GoesOn
    <2> QED BY <1>1, <1>10, <2>1, AtStep DEF Ordinary
  <1> HIDE DEF Save1
  <1>11. Ordinary
    BY <1>2, <1>9, <1>10
  <1> QED BY <1>1, <1>11, OrdinaryStep

\* Behind the making of a pair, its number and its start there is no marked step.
LEMMA RestPlain ==
  ASSUME NEW t, IsTodo(t), Marks(t), t # << >>, t[1].op \in Making
  PROVE  Plain(Tail(t))
  <1>1. /\ IsTodo(Tail(t)) /\ Len(Tail(t)) = Len(t) - 1 /\ Len(t) \in Nat /\ Len(t) >= 1
        /\ \A i \in 1..Len(t) - 1 : Tail(t)[i] = t[i + 1]
    BY TodoTail
  <1>2. ASSUME NEW i \in 1..Len(Tail(t)), Tail(t)[i].op \in Marked
        PROVE  FALSE
    <2>1. i + 1 \in 1..Len(t) /\ i + 1 # 1 /\ 1 \in 1..Len(t) /\ t[i + 1].op \in Marked
      BY <1>1, <1>2
    <2> QED BY <2>1 DEF Marks, Marked, Making
  <1> QED BY <1>1, <1>2 DEF Plain

\* Where no marked step is left to do, every pair has its number.
LEMMA PlainNumbers ==
  ASSUME NEW w, NEW d, Shaped(w), OwnNumbers(w), Memory(d), Plain(d.todo)
  PROVE  NumbersOf(w, d)
  <1> DEFINE t == d.todo
  <1>1. IsTodo(t) /\ \A i \in 1..Len(t) : t[i].op \notin {"allocate", "create", "number", "start"}
    BY DEF Plain, Marked
  <1>2. t # << >> => 1 \in 1..Len(t)
    BY <1>1, TodoTail
  <1>3. Marks(t) /\ ~Chosen(t) /\ ~AtNumber(t) /\ ~AtStart(t)
    BY <1>1, <1>2 DEF Marks, Making, Chosen, AtNumber, AtStart
  <1> QED BY <1>1, <1>3 DEF NumbersOf

\* A marked step before others that are not.
LEMMA FirstMarked ==
  ASSUME NEW op \in Making, NEW step, Is(step, op), NEW t, Plain(t)
  PROVE  LET u == << step >> \o t
         IN  IsTodo(u) /\ Marks(u) /\ u # << >> /\ u[1] = step /\ u[1].op = op
  <1> DEFINE one == << step >>
             u == one \o t
  <1>1. IsTodo(one) /\ Len(one) = 1 /\ one[1] = step /\ step.op = op
    BY DEF IsTodo, Is
  <1>2. IsTodo(t) /\ Len(t) \in Nat /\ \A i \in 1..Len(t) : t[i].op \notin Marked
    BY DEF Plain, IsTodo
  <1> HIDE DEF one
  <1>3. /\ IsTodo(u) /\ Len(u) = 1 + Len(t) /\ u[1] = step
        /\ \A i \in 1 + 1..1 + Len(t) : u[i] = t[i - 1]
    <2>1. /\ IsTodo(u) /\ Len(u) = Len(one) + Len(t) /\ \A i \in 1..Len(one) : u[i] = one[i]
          /\ \A i \in Len(one) + 1..Len(one) + Len(t) : u[i] = t[i - Len(one)]
      BY <1>1, <1>2, TodoJoined
    <2>2. 1 \in 1..1
      OBVIOUS
    <2> HIDE DEF u
    <2> QED BY <1>1, <2>1, <2>2
  <1> HIDE DEF u
  <1>4. u # << >>
    BY <1>2, <1>3, NoTodo
  <1>5. \A i \in 1..Len(u) : u[i].op \in Marked => i = 1
    <2> TAKE i \in 1..Len(u)
    <2>1. i = 1 \/ (i \in 1 + 1..1 + Len(t) /\ i - 1 \in 1..Len(t))
      BY <1>2, <1>3
    <2> QED BY <1>2, <1>3, <2>1
  <1>6. Marks(u)
    BY <1>1, <1>3, <1>5 DEF Marks, Making, Marked
  <1> QED BY <1>1, <1>3, <1>4, <1>6 DEF u, one

LEMMA NumberStep ==
  ASSUME NumbersInv, SetPortNum, "number" \notin FaultKinds
  PROVE  NumbersInv'
  <1>1. Busy /\ Now.op = "number" /\ UNCHANGED script
    BY DEF SetPortNum, At
  <1>2. PICK r \in Call(c, "number", CancelTryContinue) :
           IF r.how = "cancelled" THEN GivenUp(r)
           ELSE /\ m' = IF Done(r) THEN [m EXCEPT !.bus[Now.dev[2]].num = c.num] ELSE m
                /\ c' = Then(r.c, Only(~c.noUpdate, << BusStep("start", Now.dev) >>))
    BY DEF SetPortNum
  <1>3. Memory(c) /\ IsTodo(c.todo) /\ Shaped(m) /\ c.todo # << >> /\ Now = c.todo[1]
    BY <1>1, AtStep
  <1>4. Done(r) /\ r.how = "done"
    BY <1>3, CallSame
  <1>5. Same(c, r.c)
    BY Answers
  <1>6. Marks(c.todo) /\ FreeNumber(m, c.num) /\ NewPair(m, Now)
    <2>1. AtNumber(c.todo) /\ 1 \in 1..Len(c.todo)
      BY <1>1, <1>3, TodoTail DEF AtNumber
    <2>2. Chosen(c.todo)
      BY <1>1, <1>3, <2>1 DEF Chosen
    <2> QED BY <1>3, <2>1, <2>2 DEF NumbersInv, NumbersOf
  <1>7. PICK s \in Slots : /\ Now.dev = BusDev(s) /\ m.bus[s].here /\ m.bus[s].num = -1
                           /\ OthersOwn(m, s)
    BY <1>6 DEF NewPair
  <1>8. /\ m' = [m EXCEPT !.bus[s].num = c.num]
        /\ c' = Then(r.c, Only(~c.noUpdate, << BusStep("start", Now.dev) >>))
    <2>1. BusDev(s)[2] = s
      BY DEF BusDev
    <2>2. Now.dev[2] = s
      BY <1>7, <2>1
    <2> QED BY <1>2, <1>4, <2>2
  <1>9. Shaped(m') /\ OwnNumbers(m')
    <2>1. Shaped(m')
      BY <1>3, <1>8 DEF Shaped
    <2>2. /\ m'.bus[s].num = c.num
          /\ \A t \in Slots : m'.bus[t].here = m.bus[t].here /\ (t # s => m'.bus[t] = m.bus[t])
      BY <1>3, <1>8 DEF Shaped
    <2>3. \A t \in Slots \ {s} : m.bus[t].here =>
             /\ m.bus[t].num # -1 /\ m.bus[t].num # c.num
             /\ \A u \in Slots \ {s, t} : m.bus[u].here => m.bus[u].num # m.bus[t].num
      BY <1>6, <1>7 DEF FreeNumber, OthersOwn
    <2>4. c.num # -1
      BY <1>6 DEF FreeNumber
    <2> QED BY <2>1, <2>2, <2>3, <2>4 DEF OwnNumbers
  <1>10. FreeBut(m', Now, c.num)
    <2>1. c.num # -1 /\ \A t \in Slots \ {s} : m'.bus[t].here => m'.bus[t].num # c.num
      BY <1>3, <1>6, <1>8 DEF FreeNumber, Shaped
    <2> QED BY <1>7, <2>1 DEF FreeBut
  <1>11. NumbersOf(m', c')
    <2> DEFINE t == Tail(c.todo)
               start == BusStep("start", Now.dev)
    <2>1. /\ Memory(c') /\ c'.num = c.num
          /\ c'.todo = Only(~c.noUpdate, << start >>) \o t
      BY <1>5, <1>8 DEF Then, Same, Memory, Idle0
    <2>2. Plain(t)
      BY <1>1, <1>3, <1>6, RestPlain DEF Making
    <2>3. Is(start, "start") /\ start.dev = Now.dev
      BY NewStep DEF BusStep, S, Step0
    <2> HIDE DEF t, start
    <2>4. CASE c.noUpdate
      <3>1. c'.todo = << >> \o t
        BY <2>1, <2>4 DEF Only
      <3>2. Plain(c'.todo)
        BY <2>2, <3>1, NonePlain, JoinedPlain
      <3> QED BY <1>9, <2>1, <3>2, PlainNumbers
    <2>5. CASE ~c.noUpdate
      <3> DEFINE u == << start >> \o t
      <3>1. c'.todo = u
        BY <2>1, <2>5 DEF Only
      <3>2. "start" \in Making
        BY DEF Making
      <3>3. IsTodo(u) /\ Marks(u) /\ u # << >> /\ u[1] = start /\ u[1].op = "start"
        BY <2>2, <2>3, <3>2, FirstMarked
      <3> HIDE DEF u
      <3>4. 1 \in 1..Len(u)
        BY <3>3, TodoTail
      <3>5. ~Chosen(u) /\ ~AtNumber(u)
        <4> SUFFICES ASSUME NEW i \in 1..Len(u), u[i].op \in {"create", "number"} PROVE FALSE
          BY <3>3 DEF Chosen, AtNumber
        <4>1. i = 1
          BY <3>3, <3>4 DEF Marks, Making
        <4> QED BY <3>3, <4>1
      <3>6. FreeBut(m', start, c.num)
        BY <1>10, <2>3 DEF FreeBut
      <3> QED BY <1>9, <2>1, <3>1, <3>3, <3>5, <3>6 DEF NumbersOf
    <2> QED BY <2>4, <2>5
  <1> QED BY <1>1, <1>11 DEF NumbersInv

LEMMA CreateStep ==
  ASSUME NumbersInv, CreateDevice
  PROVE  NumbersInv'
  <1> DEFINE free == {s \in Slots : ~m.bus[s].here}
             low == CHOOSE x \in free : \A y \in free : x <= y
             steps == << BusStep("number", BusDev(low)) >>
             new == [NoBus EXCEPT !.here = TRUE, !.state = "raw"]
  <1>1. Busy /\ Now.op = "create" /\ UNCHANGED script
    BY DEF CreateDevice, At
  <1>2. PICK r \in Call(c, "create", JustOk) :
           \/ c' = Fail(r.c) /\ UNCHANGED m
           \/ free # {} /\ m' = [m EXCEPT !.bus[low] = new] /\ c' = Then(r.c, steps)
    BY DEF CreateDevice
  <1>3. Memory(c) /\ IsTodo(c.todo) /\ Shaped(m) /\ c.todo # << >> /\ Now = c.todo[1]
        /\ OwnNumbers(m) /\ Keeps(m, m)
    BY <1>1, AtStep
  <1>4. Same(c, r.c) /\ Memory(r.c)
    BY Answers
  <1>5. CASE c' = Fail(r.c) /\ UNCHANGED m
    <2>1. Goes(c')
      BY <1>1, <1>4, <1>5, GoesOn
    <2> QED BY <1>1, <1>3, <1>5, <2>1, OrdinaryStep DEF Ordinary
  <1>6. CASE free # {} /\ m' = [m EXCEPT !.bus[low] = new] /\ c' = Then(r.c, steps)
    <2>1. low \in free
      <3>1. Slots \subseteq Nat
        BY PlacesAssumption, FS_CardinalityType
      <3>2. free \subseteq Nat /\ free # {}
        BY <1>6, <3>1
      <3> HIDE DEF free
      <3>3. \E x \in free : \A y \in free : x <= y
        BY <3>2, LeastNumber
      <3> QED BY <3>3
    <2>2. low \in Slots /\ ~m.bus[low].here
      BY <2>1
    <2> HIDE DEF low, free
    <2>3. /\ DOMAIN new = {"here", "num", "state", "fname"} /\ new.here /\ new.num = -1
      BY DEF NoBus
    <2> DEFINE N == BusStep("number", BusDev(low))
               t == c.todo
               u == c'.todo
    <2>4. Marks(t) /\ FreeNumber(m, c.num)
      <3>1. 1 \in 1..Len(t)
        BY <1>3, TodoTail
      <3>2. Chosen(t)
        BY <1>1, <1>3, <3>1 DEF Chosen
      <3> QED BY <3>2 DEF NumbersInv, NumbersOf
    <2>5. Is(N, "number") /\ N.dev = BusDev(low)
      BY NewStep DEF BusStep, S, Step0
    <2>6. Memory(c') /\ c'.num = c.num /\ u = << N >> \o Tail(t)
      BY <1>4, <1>6 DEF Then, Same, Memory, Idle0
    <2>7. Plain(Tail(t))
      BY <1>1, <1>3, <2>4, RestPlain DEF Making
    <2> HIDE DEF N, t, u, new, steps
    <2>8. IsTodo(u) /\ Marks(u) /\ u # << >> /\ u[1] = N /\ N.op = "number"
      <3> DEFINE z == << N >> \o Tail(t)
      <3>1. "number" \in Making
        BY DEF Making
      <3>2. IsTodo(z) /\ Marks(z) /\ z # << >> /\ z[1] = N /\ z[1].op = "number"
        BY <2>5, <2>7, <3>1, FirstMarked
      <3>3. u = z
        BY <2>6
      <3> HIDE DEF z
      <3> QED BY <3>2, <3>3
    <2>10. AtNumber(u) /\ ~AtStart(u)
      BY <2>8 DEF AtNumber, AtStart
    <2>11. /\ Shaped(m') /\ m'.bus[low] = new
           /\ \A s \in Slots \ {low} : m'.bus[s] = m.bus[s]
      BY <1>3, <1>6, <2>2, <2>3 DEF Shaped
    <2>12. FreeNumber(m', c.num)
      BY <2>3, <2>4, <2>11 DEF FreeNumber
    <2>13. OthersOwn(m', low)
      BY <1>3, <2>11 DEF OthersOwn, OwnNumbers
    <2>14. NewPair(m', N)
      BY <2>2, <2>3, <2>5, <2>11, <2>13 DEF NewPair
    <2>15. NumbersOf(m', c')
      BY <2>6, <2>8, <2>10, <2>11, <2>12, <2>14 DEF NumbersOf, u
    <2> QED BY <1>1, <2>15 DEF NumbersInv
  <1> QED BY <1>2, <1>5, <1>6

LEMMA UndoneKeeps ==
  ASSUME Shaped(m)
  PROVE  Keeps(m, Undone)
  BY DEF Keeps, Shaped, Undone, NoBus

\* A pair that is made anew finds its number free again.
LEMMA MadeAgain ==
  ASSUME NumbersInv, Busy, Now.op = "start", m' = Undone, NEW e, Same(c, e),
         c' = Then(e, << S("create") >>)
  PROVE  NumbersOf(m', c')
  <1>1. Memory(c) /\ IsTodo(c.todo) /\ Shaped(m) /\ c.todo # << >> /\ Now = c.todo[1]
        /\ OwnNumbers(m)
    BY AtStep
  <1>2. Marks(c.todo) /\ FreeBut(m, Now, c.num)
    BY <1>1 DEF NumbersInv, NumbersOf, AtStart
  <1>3. Keeps(m, m') /\ Shaped(m') /\ OwnNumbers(m')
    BY <1>1, UndoneKeeps, KeepsNumbers DEF Keeps
  <1>4. FreeNumber(m', c.num)
    <2>1. PICK s \in Slots : /\ Now.dev = BusDev(s)
                             /\ \A t \in Slots \ {s} : m.bus[t].here => m.bus[t].num # c.num
      BY <1>2 DEF FreeBut
    <2>2. Now.dev[2] = s
      <3>1. BusDev(s)[2] = s
        BY DEF BusDev
      <3> QED BY <2>1, <3>1
    <2>3. ~m'.bus[s].here /\ \A t \in Slots \ {s} : m'.bus[t] = m.bus[t]
      BY <1>1, <2>2 DEF Undone, NoBus, Shaped
    <2> QED BY <1>2, <2>1, <2>3 DEF FreeNumber, FreeBut
  <1> DEFINE t == Tail(c.todo)
             u == << S("create") >> \o t
  <1>5. Memory(c') /\ c'.num = c.num /\ c'.todo = u
    BY DEF Then, Same, Memory, Idle0
  <1>6. Plain(t)
    BY <1>1, <1>2, RestPlain DEF Making
  <1> HIDE DEF t
  <1>7. IsTodo(u) /\ Marks(u) /\ u # << >> /\ u[1].op = "create"
    <2>1. "create" \in Making /\ Is(S("create"), "create")
      BY NewStep DEF Making
    <2> QED BY <1>6, <2>1, FirstMarked
  <1> HIDE DEF u
  <1>8. ~AtNumber(u) /\ ~AtStart(u)
    BY <1>7 DEF AtNumber, AtStart
  <1> QED BY <1>3, <1>4, <1>5, <1>7, <1>8 DEF NumbersOf

LEMMA DriverSteps ==
  ASSUME NumbersInv, StartDevice \/ UpdateDriver
  PROVE  NumbersInv'
  <1>1. CASE StartDevice
    <2>1. Busy /\ Now.op = "start" /\ UNCHANGED script
      BY <1>1 DEF StartDevice, At
    <2> DEFINE again == << S("create") >>
    <2>2. PICK r \in Call(c, "update", CancelTryContinue) :
             \/ m' = Undone /\ c' \in {Fail(r.c), Then(r.c, again)}
             \/ m' \in {Driven(m), m} /\ c' = Rest(r.c)
      BY <1>1 DEF StartDevice, GivenUp
    <2>3. Keeps(m, Undone) /\ Keeps(m, Driven(m)) /\ Keeps(m, m) /\ Same(c, r.c)
      BY <2>1, AtStep, UndoneKeeps, DrivenKeeps, Answers
    <2>4. Keeps(m, m')
      BY <2>2, <2>3
    <2>5. CASE c' \in {Fail(r.c), Rest(r.c)}
      <3>1. Goes(c')
        BY <2>1, <2>3, <2>5, GoesOn
      <3> QED BY <2>1, <2>4, <3>1, OrdinaryStep DEF Ordinary
    <2>6. CASE m' = Undone /\ c' = Then(r.c, again)
      <3> HIDE DEF again
      <3>1. NumbersOf(m', c')
        BY <2>1, <2>3, <2>6, MadeAgain DEF again
      <3> QED BY <2>1, <3>1 DEF NumbersInv
    <2> QED BY <2>2, <2>5, <2>6
  <1>2. CASE UpdateDriver
    <2>1. Busy /\ Now.op = "update" /\ UNCHANGED script
      BY <1>2 DEF UpdateDriver, At
    <2> DEFINE v == [m EXCEPT !.soft = @ \cup SoftOf(Now.id)]
    <2>2. \E r \in Call(c, "update", CancelTryContinue) :
             m' \in {Driven(m), v, m} /\ c' \in {Rest(r.c), Fail(r.c)}
      BY <1>2 DEF UpdateDriver
    <2>3. Keeps(m, v) /\ Keeps(m, Driven(m)) /\ Keeps(m, m)
      <3>1. v = [m EXCEPT !.soft = m.soft \cup SoftOf(Now.id)]
        BY <2>1, AtStep DEF Shaped
      <3> QED BY <2>1, <3>1, AtStep, OtherFieldsKeep, DrivenKeeps
    <2> HIDE DEF v
    <2>4. Keeps(m, m')
      BY <2>2, <2>3
    <2>5. Goes(c')
      BY <2>1, <2>2, Answers, GoesOn
    <2> QED BY <2>1, <2>4, <2>5, OrdinaryStep DEF Ordinary
  <1> QED BY <1>1, <1>2

LEMMA AllocateStep ==
  ASSUME NumbersInv, InstallNumber
  PROVE  NumbersInv'
  <1> DEFINE i == AllocPortNum(IF Now.at >= 0 THEN Now.at ELSE 0)
             sideA == [PortStep("parameters", << i, "A" >>) EXCEPT !.A = Now.A]
             sideB == [PortStep("parameters", << i, "B" >>) EXCEPT !.A = Now.B]
             side == << sideA, sideB >>
             Go(d) == Then([d EXCEPT !.num = i], side)
  <1>1. Busy /\ Now.op = "allocate" /\ UNCHANGED script /\ m' = m
    BY DEF InstallNumber, At
  <1>2. \/ c' = Go(c)
        \/ \E a \in Dialog(c, CancelTryContinue) : c' = Go(a.c) \/ c' = a.c \/ c' = Fail(a.c)
    BY Zenon DEF InstallNumber
  <1>3. FreeNumber(m, i)
    BY AllocatedFree
  <1>4. Plain(side)
    <2>1. Plain(<< sideA >>) /\ Plain(<< sideB >>)
      BY NewStep, OnePlain DEF Marked
    <2> HIDE DEF sideA, sideB
    <2> QED BY <2>1, JoinedPlain, TwoSteps
  <1> HIDE DEF i, side
  <1>5. Memory(c) /\ IsTodo(c.todo) /\ Shaped(m) /\ c.todo # << >> /\ Now = c.todo[1]
        /\ OwnNumbers(m) /\ Keeps(m, m) /\ Same(c, c)
    BY <1>1, AtStep
  <1> DEFINE t == c.todo
  <1>6. Marks(t) /\ Len(t) \in Nat /\ 1 \in 1..Len(t)
    BY <1>5, TodoTail DEF NumbersInv, NumbersOf
  <1>7. ASSUME NEW e, Same(c, e), c' = e PROVE NumbersOf(m', c')
    <2>1. ~AtNumber(t)
      BY <1>1, <1>5 DEF AtNumber
    <2> QED BY <1>1, <1>5, <1>7, <2>1, SameKeepsNumbers DEF NumbersInv
  <1>8. ASSUME NEW e, Same(c, e), c' = Fail(e) PROVE NumbersOf(m', c')
    <2> DEFINE u == Fail(e).todo
    <2>1. e.todo = t /\ Memory(e)
      BY <1>8 DEF Same
    <2>2. /\ Memory(Fail(e)) /\ IsTodo(u)
          /\ \/ Len(u) = 0
             \/ \E a \in Nat : /\ a + 1 \in 2..Len(t) /\ t[a + 1].op \in Always
                               /\ \A j \in 1..Len(u) : j + a \in 2..Len(t) /\ u[j] = t[j + a]
      BY <1>5, <2>1, FailLeaves
    <2> HIDE DEF u, t
    <2>3. ASSUME NEW j \in 1..Len(u), u[j].op \in Marked PROVE FALSE
      <3>1. Len(u) # 0
        BY <2>3
      <3>2. PICK a \in Nat : /\ a + 1 \in 2..Len(t) /\ t[a + 1].op \in Always
                             /\ j + a \in 2..Len(t) /\ u[j] = t[j + a]
        BY <2>2, <2>3, <3>1
      <3>3. j + a \in 1..Len(t) /\ j + a # 1 /\ a + 1 \in 2..j + a /\ t[j + a].op \in Marked
        BY <2>3, <3>2
      <3>4. t[j + a].op = "create"
        BY <1>1, <1>5, <1>6, <3>3 DEF Marks, Marked, t
      <3> QED BY <1>1, <1>5, <1>6, <3>2, <3>3, <3>4 DEF Marks, t
    <2>4. Plain(u)
      BY <2>2, <2>3 DEF Plain
    <2> QED BY <1>1, <1>5, <1>8, <2>2, <2>4, PlainNumbers DEF u
  <1>9. ASSUME NEW e, Same(c, e), c' = Go(e) PROVE NumbersOf(m', c')
    <2> DEFINE f == [e EXCEPT !.num = i]
               u == side \o Tail(t)
    <2>1. Memory(c') /\ c'.num = i /\ c'.todo = u
      BY <1>9 DEF Then, Same, Memory, Idle0
    <2>2. /\ IsTodo(Tail(t)) /\ Len(Tail(t)) = Len(t) - 1
          /\ \A j \in 1..Len(t) - 1 : Tail(t)[j] = t[j + 1]
      BY <1>5, TodoTail
    <2>3. IsTodo(side) /\ Len(side) \in Nat /\ \A j \in 1..Len(side) : side[j].op \notin Marked
      BY <1>4 DEF Plain, IsTodo
    <2>4. /\ IsTodo(u) /\ Len(u) = Len(side) + Len(Tail(t))
          /\ \A j \in 1..Len(side) : u[j] = side[j]
          /\ \A j \in Len(side) + 1..Len(side) + Len(Tail(t)) : u[j] = Tail(t)[j - Len(side)]
      BY <2>2, <2>3, TodoJoined
    <2> HIDE DEF u
    <2> DEFINE x == 1 - Len(side)
    <2>5. ASSUME NEW j \in 1..Len(u), u[j].op \in Marked
          PROVE  j + x \in 2..Len(t) /\ u[j] = t[j + x]
      <3>1. j \notin 1..Len(side)
        BY <2>3, <2>4, <2>5
      <3>2. j \in Len(side) + 1..Len(side) + Len(Tail(t)) /\ j - Len(side) \in 1..Len(t) - 1
        BY <1>6, <2>2, <2>3, <2>4, <3>1
      <3>3. u[j] = t[j - Len(side) + 1]
        BY <2>2, <2>4, <3>2
      <3>4. j - Len(side) + 1 = j + x /\ j + x \in 2..Len(t)
        BY <1>6, <2>2, <2>3, <3>2
      <3> QED BY <3>3, <3>4
    <2>6. x \in Int
      BY <2>3
    <2> HIDE DEF x, t
    <2>7. ASSUME NEW j \in 1..Len(u), u[j].op \in Marked
          PROVE  u[j].op = "create" /\ j + x \in 1..Len(t) /\ t[j + x].op = "create"
      <3>1. j + x \in 1..Len(t) /\ j + x # 1 /\ u[j] = t[j + x]
        BY <1>6, <2>5, <2>6, <2>7
      <3> QED BY <1>6, <2>7, <3>1 DEF Marks, Marked
    <2>8. ASSUME NEW j \in 1..Len(u), NEW k \in 1..Len(u),
                 u[j].op \in Making, u[k].op \in Making
          PROVE  j = k
      <3>1. /\ j + x \in 1..Len(t) /\ t[j + x].op = "create"
            /\ k + x \in 1..Len(t) /\ t[k + x].op = "create"
        BY <2>7, <2>8 DEF Marked, Making
      <3>2. j + x = k + x
        BY <1>6, <3>1 DEF Marks, Making
      <3> QED BY <2>6, <3>2
    <2>9. u # << >> => 1 \in 1..Len(u)
      BY <2>4, TodoTail
    <2>10. \A j \in 1..Len(u) : u[j].op \notin {"allocate", "number", "start"}
      BY <2>7 DEF Marked
    <2>11. Marks(u) /\ ~AtNumber(u) /\ ~AtStart(u)
      BY <2>8, <2>9, <2>10 DEF Marks, AtNumber, AtStart
    <2> QED BY <1>1, <1>3, <1>5, <2>1, <2>4, <2>11 DEF NumbersOf
  <1>10. NumbersOf(m', c')
    <2>1. \A a \in Dialog(c, CancelTryContinue) : Same(c, a.c)
      BY Answers
    <2> HIDE DEF Go
    <2> QED BY <1>2, <1>5, <1>7, <1>8, <1>9, <2>1
  <1> QED BY <1>1, <1>10 DEF NumbersInv

-----------------------------------------------------------------------------
(* The commands. *)

LEMMA OneStepPlain ==
  ASSUME NEW op, op \notin Marked
  PROVE  /\ Plain(<< S(op) >>)
         /\ \A x : /\ Plain(<< [S(op) EXCEPT !.at = x] >>) /\ Plain(<< [S(op) EXCEPT !.id = x] >>)
                   /\ Plain(<< [S(op) EXCEPT !.flag = x] >>)
                   /\ Plain(<< [S(op) EXCEPT !.names = x] >>)
         /\ \A x, y : /\ Plain(<< [S(op) EXCEPT !.id = x, !.flag = y] >>)
                      /\ Plain(<< [S(op) EXCEPT !.id = x, !.at = y] >>)
                      /\ Plain(<< [S(op) EXCEPT !.at = x, !.flag = y] >>)
  BY NewStep, OnePlain

LEMMA PartsPlain ==
  /\ \A num : Plain(FriendlyNames(num))
  /\ \A giveUp : Plain(Restoring(giveUp))
  /\ \A id : Plain(Deleted(id)) /\ Plain(<< InfStep(id) >>)
  /\ \A id, push : Plain(<< DisableAll(id, push) >>)
  <1>1. \A num : Plain(FriendlyNames(num))
    BY OneStepPlain DEF FriendlyNames, Marked
  <1>2. \A giveUp : Plain(Restoring(giveUp))
    BY OneStepPlain DEF Restoring, Marked
  <1>3. ASSUME NEW id PROVE Plain(Deleted(id)) /\ Plain(<< InfStep(id) >>)
    <2>1. \A x, y : Plain(<< [S("delete") EXCEPT !.id = x, !.flag = y] >>)
                    /\ Plain(<< [S("uninstall inf") EXCEPT !.id = x, !.flag = y] >>)
      BY OneStepPlain DEF Marked
    <2>2. (\E y : y = (id = "service")) /\ (\E y : y = (id = "alike"))
      OBVIOUS
    <2> QED BY <2>1, <2>2 DEF Deleted, InfStep
  <1>4. \A id, push : Plain(<< DisableAll(id, push) >>)
    BY OneStepPlain DEF DisableAll, Marked
  <1> QED BY <1>1, <1>2, <1>3, <1>4

LEMMA ReloadPlain ==
  ASSUME NEW id
  PROVE  \A update \in BOOLEAN : Plain(Reload(id, update))
  <1> SUFFICES ASSUME NEW update \in BOOLEAN PROVE Plain(Reload(id, update))
    OBVIOUS
  <1> DEFINE first == << DisableAll(id, TRUE) >>
             driver == << [S("update") EXCEPT !.id = id, !.flag = TRUE] >>
             third == Restoring(FALSE)
  <1>1. Plain(first) /\ Plain(third)
    <2>1. /\ \A push : Plain(<< DisableAll(id, push) >>)
          /\ \A giveUp : Plain(Restoring(giveUp))
      BY PartsPlain
    <2>2. (\E y : y = TRUE) /\ (\E y : y = FALSE)
      OBVIOUS
    <2> QED BY <2>1, <2>2
  <1>2. Plain(driver)
    <2>1. \A y : Plain(<< [S("update") EXCEPT !.id = id, !.flag = y] >>)
      BY OneStepPlain DEF Marked
    <2>2. \E y : y = TRUE
      OBVIOUS
    <2> QED BY <2>1, <2>2
  <1>3. Plain(<< S("sync") >>)
    BY OneStepPlain DEF Marked
  <1>4. Only(update, driver) \in {driver, << >>}
    BY DEF Only
  <1>5. Reload(id, update) = first \o Only(update, driver) \o third \o << S("sync") >>
    BY DEF Reload
  <1> HIDE DEF first, driver, third
  <1>6. Plain(Only(update, driver))
    BY <1>2, <1>4, NonePlain
  <1> QED BY <1>1, <1>3, <1>5, <1>6, JoinedPlain

\* The devices of a pair, found by its number.
LEMMA BusesAreFinite ==
  ASSUME NEW w, NEW n
  PROVE  \E k \in Nat : DOMAIN BusesOf(w, n) = 1..k
  <1> SUFFICES ASSUME NEW no, no = FALSE,
                      NEW e, e = EnumDevices(w, "bus", no)
               PROVE  \E k \in Nat : DOMAIN Selected(e, LAMBDA d : w.bus[d[2]].num = n) = 1..k
    BY DEF BusesOf
  <1> DEFINE at == {i \in DOMAIN e : w.bus[e[i][2]].num = n}
  <1>1. DOMAIN Selected(e, LAMBDA d : w.bus[d[2]].num = n) = 1..Cardinality(at)
    BY DEF Selected
  <1>2. at \subseteq DOMAIN EnumDevices(w, "bus", no)
    OBVIOUS
  <1> HIDE DEF at
  <1> QED BY <1>1, <1>2, FoundTurns

LEMMA FourSteps ==
  ASSUME NEW x, NEW y, NEW z, NEW u
  PROVE  << x, y, z, u >> = << x, y >> \o << z, u >>
  <1> DEFINE T == {x, y, z, u}
             t == << x, y >> \o << z, u >>
  <1>1. << x, y >> \in Seq(T) /\ << z, u >> \in Seq(T) /\ << x, y, z, u >> \in Seq(T)
    OBVIOUS
  <1> HIDE DEF T
  <1>2. t \in Seq(T) /\ Len(t) = 4 /\ t[1] = x /\ t[2] = y /\ t[3] = z /\ t[4] = u
    BY <1>1, ConcatProperties
  <1>3. /\ Len(<< x, y, z, u >>) = 4
        /\ << x, y, z, u >>[1] = x /\ << x, y, z, u >>[2] = y
        /\ << x, y, z, u >>[3] = z /\ << x, y, z, u >>[4] = u
    OBVIOUS
  <1> HIDE DEF t
  <1>4. \A i \in 1..4 : << x, y, z, u >>[i] = t[i]
    BY <1>2, <1>3
  <1>5. << x, y, z, u >> = t
    BY <1>1, <1>2, <1>3, <1>4, SeqEqual
  <1> QED BY <1>5 DEF t

LEMMA PartsOf ==
  ASSUME NEW cmd \in CommandLines
  PROVE  /\ cmd.op \in {"list", "change", "remove", "disable", "enable", "reload", "update",
                        "updatefnames", "preinstall", "install drivers", "install", "infclean",
                        "uninstall"}
         /\ cmd.noUpdate \in BOOLEAN
         /\ cmd.op = "install" =>
               Program(cmd) = << [S("allocate") EXCEPT !.at = cmd.num, !.A = cmd.A, !.B = cmd.B],
                                 S("same name"), S("create") >>
                              \o FriendlyNames(OwnPair) \o << S("sync") >>
  <1>1. cmd.op \in {"list", "change", "remove", "disable", "enable", "reload", "update",
                    "updatefnames", "preinstall", "install drivers", "install", "infclean",
                    "uninstall"} /\ cmd.noUpdate \in BOOLEAN
    BY DEF CommandLines
  <1> QED BY <1>1, Zenon DEF Program

LEMMA ChangePlain ==
  ASSUME NEW cmd \in CommandLines, cmd.op = "change"
  PROVE  Plain(Program(cmd))
  <1> DEFINE one(i) == [PortStep("change", cmd.port) EXCEPT
                           !.dev = BusesOf(m, cmd.port[1])[i], !.A = cmd.A]
             each == [i \in DOMAIN BusesOf(m, cmd.port[1]) |-> one(i)]
  <1>1. Program(cmd) = each \o << S("sync if changed") >>
    BY Zenon DEF Program
  <1>2. PICK k \in Nat : DOMAIN BusesOf(m, cmd.port[1]) = 1..k
    BY BusesAreFinite
  <1>3. \A i : Is(one(i), "change")
    BY NewStep
  <1> HIDE DEF one
  <1>4. each = [i \in 1..k |-> each[i]] /\ \A i \in 1..k : Is(each[i], "change")
    BY <1>2, <1>3
  <1> HIDE DEF each
  <1>5. Plain(each)
    BY <1>4, EachPlain DEF Marked
  <1>6. Plain(<< S("sync if changed") >>)
    BY OneStepPlain DEF Marked
  <1> QED BY <1>1, <1>5, <1>6, JoinedPlain

LEMMA RemovePlain ==
  ASSUME NEW cmd \in CommandLines, cmd.op = "remove"
  PROVE  Plain(Program(cmd))
  <1> DEFINE one(i) == [PortStep("remove", PortsOf(cmd.num)[i]) EXCEPT !.id = "located", !.flag = TRUE]
             each == [i \in 1..2 |-> one(i)]
             find == << [S("find") EXCEPT !.at = cmd.num] >>
  <1>1. Program(cmd) = find \o each \o << S("sync always") >>
    BY Zenon DEF Program
  <1>2. \A i : Is(one(i), "remove")
    <2> TAKE i
    <2>1. \A x, y, z : Is([PortStep("remove", x) EXCEPT !.id = y, !.flag = z], "remove")
      BY NewStep
    <2>2. \E z : z = TRUE
      OBVIOUS
    <2> QED BY <2>1, <2>2
  <1> HIDE DEF one
  <1>3. each = [i \in 1..2 |-> each[i]] /\ \A i \in 1..2 : Is(each[i], "remove")
    BY <1>2
  <1> HIDE DEF each
  <1>4. Plain(each)
    BY <1>3, EachPlain DEF Marked
  <1>5. Plain(find) /\ Plain(<< S("sync always") >>)
    BY OneStepPlain DEF Marked
  <1> HIDE DEF find
  <1> QED BY <1>1, <1>4, <1>5, JoinedPlain

LEMMA PreinstallPlain ==
  ASSUME NEW cmd \in CommandLines, cmd.op = "preinstall"
  PROVE  Plain(Program(cmd))
  <1> DEFINE one(i) == [S("install software") EXCEPT !.id = (<< "class" >> \o Infs)[i]]
             each == [i \in 1..4 |-> one(i)]
  <1>1. Program(cmd) = each
    BY Zenon DEF Program
  <1>2. \A i : Is(one(i), "install software")
    BY NewStep
  <1> HIDE DEF one
  <1>3. each = [i \in 1..4 |-> each[i]] /\ \A i \in 1..4 : Is(each[i], "install software")
    BY <1>2
  <1> HIDE DEF each
  <1>4. Plain(each)
    <2>1. PICK n \in Nat : n = 4
      OBVIOUS
    <2>2. each = [i \in 1..n |-> each[i]] /\ \A i \in 1..n : Is(each[i], "install software")
      BY <1>3, <2>1
    <2>3. "install software" \notin Marked
      BY DEF Marked
    <2> QED BY <2>2, <2>3, EachPlain
  <1> QED BY <1>1, <1>4

LEMMA UpdatePlain ==
  ASSUME NEW cmd \in CommandLines, cmd.op = "update"
  PROVE  Plain(Program(cmd))
  <1> DEFINE one == Reload(Infs[1], ~cmd.noUpdate)
             two == Reload(Infs[2], ~cmd.noUpdate)
             three == Reload(Infs[3], ~cmd.noUpdate)
             done == << S("reloaded") >>
             last == << [S("friendly names") EXCEPT !.at = -1, !.flag = TRUE] >>
  <1>1. Program(cmd) = one \o done \o two \o done \o three \o done \o last
    BY Zenon DEF Program
  <1>2. Plain(one) /\ Plain(two) /\ Plain(three)
    <2>1. (~cmd.noUpdate) \in BOOLEAN
      BY PartsOf
    <2>2. PICK u : u = (~cmd.noUpdate)
      OBVIOUS
    <2>3. \A id : Plain(Reload(id, u))
      BY <2>1, <2>2, ReloadPlain
    <2> QED BY <2>2, <2>3
  <1>3. Plain(done)
    BY OneStepPlain DEF Marked
  <1>4. Plain(last)
    <2>1. \A x, y : Plain(<< [S("friendly names") EXCEPT !.at = x, !.flag = y] >>)
      BY OneStepPlain DEF Marked
    <2>2. \E y : y = TRUE
      OBVIOUS
    <2> QED BY <2>1, <2>2
  <1> HIDE DEF one, two, three, done, last
  <1> QED BY <1>1, <1>2, <1>3, <1>4, JoinedPlain

LEMMA DriversPlain ==
  ASSUME NEW cmd \in CommandLines, cmd.op = "install drivers"
  PROVE  Plain(Program(cmd))
  <1> DEFINE both == << S("update"), S("sync") >>
             steps == both \o FriendlyNames(-1)
  <1>1. Program(cmd) = Only(~cmd.noUpdate, steps)
    BY Zenon DEF Program
  <1>2. Plain(both)
    <2>1. Plain(<< S("update") >>) /\ Plain(<< S("sync") >>)
      BY OneStepPlain DEF Marked
    <2> QED BY <2>1, JoinedPlain, TwoSteps
  <1>3. Plain(FriendlyNames(-1))
    BY PartsPlain
  <1> HIDE DEF both
  <1>4. Plain(steps)
    BY <1>2, <1>3, JoinedPlain
  <1> HIDE DEF steps
  <1>5. Only(~cmd.noUpdate, steps) \in {steps, << >>}
    BY DEF Only
  <1> QED BY <1>1, <1>4, <1>5, NonePlain

LEMMA UninstallPlain ==
  ASSUME NEW cmd \in CommandLines, cmd.op = "uninstall"
  PROVE  Plain(Program(cmd))
  <1> DEFINE stop == << DisableAll("port", TRUE), S("drop stack") >>
             first == [S("remove") EXCEPT !.id = "bus"]
             second == [S("remove") EXCEPT !.id = "all"]
             third == S("sync")
             fourth == S("stop to reboot")
             gone == << first, second, third, fourth >>
             bus == << InfStep("bus") >>
             cncport == InfStep("cncport")
             comport == InfStep("comport")
             scan == S("scan infs")
             infs == << cncport, comport, scan >>
  <1>1. Program(cmd) = stop \o Restoring(TRUE) \o gone \o Deleted("service") \o Deleted("eventlog")
                       \o Deleted("class") \o bus \o Deleted("files") \o infs
    BY Zenon DEF Program
  <1>2. Plain(stop)
    <2>1. Plain(<< S("drop stack") >>)
      BY OneStepPlain DEF Marked
    <2>2. Plain(<< DisableAll("port", TRUE) >>)
      <3>1. (\A push : Plain(<< DisableAll("port", push) >>)) /\ (\E y : y = TRUE)
        BY PartsPlain
      <3> QED BY <3>1
    <2> QED BY <2>1, <2>2, JoinedPlain, TwoSteps
  <1>3. Plain(Restoring(TRUE))
    <2>1. (\A giveUp : Plain(Restoring(giveUp))) /\ (\E y : y = TRUE)
      BY PartsPlain
    <2> QED BY <2>1
  <1>4. Plain(gone)
    <2>1. /\ Plain(<< first >>) /\ Plain(<< second >>)
          /\ Plain(<< third >>) /\ Plain(<< fourth >>)
      BY OneStepPlain DEF Marked
    <2> HIDE DEF first, second, third, fourth
    <2>2. gone = << first, second >> \o << third, fourth >>
      BY FourSteps
    <2> HIDE DEF gone
    <2>3. << first, second >> = << first >> \o << second >>
          /\ << third, fourth >> = << third >> \o << fourth >>
      BY TwoSteps
    <2>4. Plain(<< first, second >>) /\ Plain(<< third, fourth >>)
      BY <2>1, <2>3, JoinedPlain
    <2> QED BY <2>2, <2>4, JoinedPlain
  <1>5. /\ Plain(bus) /\ Plain(Deleted("service")) /\ Plain(Deleted("eventlog"))
        /\ Plain(Deleted("class")) /\ Plain(Deleted("files"))
    BY PartsPlain
  <1>6. Plain(infs)
    <2>1. Plain(<< cncport >>) /\ Plain(<< comport >>) /\ Plain(<< scan >>)
      BY PartsPlain, OneStepPlain DEF Marked
    <2> HIDE DEF cncport, comport, scan
    <2>2. infs = << cncport >> \o << comport >> \o << scan >>
      BY ThreeSteps
    <2> HIDE DEF infs
    <2> QED BY <2>1, <2>2, JoinedPlain
  <1> HIDE DEF stop, gone, bus, infs
  <1> QED BY <1>1, <1>2, <1>3, <1>4, <1>5, <1>6, JoinedPlain

\* Only Install has marked steps.
LEMMA ProgramPlain ==
  ASSUME NEW cmd \in CommandLines, cmd.op # "install"
  PROVE  Plain(Program(cmd))
  <1>1. CASE cmd.op = "list"
    <2>1. Program(cmd) = << >>
      BY <1>1, Zenon DEF Program
    <2> QED BY <2>1, NonePlain
  <1>2. CASE cmd.op = "disable"
    <2>1. Program(cmd) = << DisableAll("bus", FALSE) >>
      BY <1>2, Zenon DEF Program
    <2>2. (\A push : Plain(<< DisableAll("bus", push) >>)) /\ (\E y : y = FALSE)
      BY PartsPlain
    <2>3. Plain(<< DisableAll("bus", FALSE) >>)
      BY <2>2
    <2> QED BY <2>1, <2>3
  <1>3. CASE cmd.op = "enable"
    <2>1. Program(cmd) = << S("enable") >>
      BY <1>3, Zenon DEF Program
    <2> QED BY <2>1, OneStepPlain DEF Marked
  <1>4. CASE cmd.op = "reload"
    <2>1. Program(cmd) = Reload("bus", FALSE)
      BY <1>4, Zenon DEF Program
    <2>2. (\A update \in BOOLEAN : Plain(Reload("bus", update))) /\ (\E y \in BOOLEAN : y = FALSE)
      BY ReloadPlain
    <2>3. Plain(Reload("bus", FALSE))
      BY <2>2
    <2> QED BY <2>1, <2>3
  <1>5. CASE cmd.op = "updatefnames"
    <2>1. Program(cmd) = FriendlyNames(-1)
      BY <1>5, Zenon DEF Program
    <2> QED BY <2>1, PartsPlain
  <1>6. CASE cmd.op = "infclean"
    <2>1. Program(cmd) = << [S("scan infs") EXCEPT !.names = m.soft \cap ToSet(Infs)] >>
      BY <1>6, Zenon DEF Program
    <2>2. \A x : Plain(<< [S("scan infs") EXCEPT !.names = x] >>)
      BY OneStepPlain DEF Marked
    <2> QED BY <2>1, <2>2
  <1> QED BY <1>1, <1>2, <1>3, <1>4, <1>5, <1>6, PartsOf, ChangePlain, RemovePlain,
             PreinstallPlain, UpdatePlain, DriversPlain, UninstallPlain

\* The steps of Install: the choice of the number, the check of the names, the making of the
\* pair, and then none that is marked.
Opening(u) ==
  /\ IsTodo(u) /\ Len(u) >= 3
  /\ u[1].op = "allocate" /\ u[2].op = "same name" /\ u[3].op = "create"
  /\ \A i \in 4..Len(u) : u[i].op \notin Marked

LEMMA OpeningJoined ==
  ASSUME NEW u, Opening(u), NEW t, Plain(t)
  PROVE  Opening(u \o t)
  <1> DEFINE v == u \o t
  <1>1. IsTodo(u) /\ IsTodo(t) /\ Len(u) \in Nat /\ Len(t) \in Nat /\ Len(u) >= 3
        /\ \A i \in 1..Len(t) : t[i].op \notin Marked
    BY DEF Opening, Plain, IsTodo
  <1>2. /\ IsTodo(v) /\ Len(v) = Len(u) + Len(t) /\ \A i \in 1..Len(u) : v[i] = u[i]
        /\ \A i \in Len(u) + 1..Len(u) + Len(t) : v[i] = t[i - Len(u)]
    BY <1>1, TodoJoined
  <1> HIDE DEF v
  <1>3. v[1] = u[1] /\ v[2] = u[2] /\ v[3] = u[3] /\ Len(v) >= 3
    BY <1>1, <1>2
  <1>4. \A i \in 4..Len(v) : v[i].op \notin Marked
    <2> TAKE i \in 4..Len(v)
    <2>1. \/ i \in 4..Len(u) /\ i \in 1..Len(u)
          \/ i \in Len(u) + 1..Len(u) + Len(t) /\ i - Len(u) \in 1..Len(t)
      BY <1>1, <1>2
    <2> QED BY <1>1, <1>2, <2>1 DEF Opening
  <1>5. Opening(v)
    BY <1>2, <1>3, <1>4 DEF Opening
  <1> QED BY <1>5 DEF v

LEMMA OpeningNumbers ==
  ASSUME NEW w, NEW d, Shaped(w), OwnNumbers(w), Memory(d), Opening(d.todo)
  PROVE  NumbersOf(w, d)
  <1> DEFINE t == d.todo
  <1>1. /\ IsTodo(t) /\ Len(t) \in Nat /\ Len(t) >= 3
        /\ t[1].op = "allocate" /\ t[2].op = "same name" /\ t[3].op = "create"
        /\ \A i \in 4..Len(t) : t[i].op \notin {"allocate", "create", "number", "start"}
    BY DEF Opening, Marked, IsTodo
  <1> HIDE DEF t
  <1>2. \A i \in 1..Len(t) : i = 1 \/ i = 2 \/ i = 3 \/ i \in 4..Len(t)
    <2>1. \A n \in Nat : \A i \in 1..n : i = 1 \/ i = 2 \/ i = 3 \/ i \in 4..n
      OBVIOUS
    <2>2. Len(t) \in Nat
      BY <1>1
    <2> QED BY <2>1, <2>2
  <1>3. \A i \in 1..Len(t) : t[i].op \in {"allocate", "number", "start"} => i = 1
    BY <1>1, <1>2
  <1>4. \A i \in 1..Len(t) : t[i].op \in Making => i = 3
    BY <1>1, <1>2 DEF Making
  <1>5. t[2].op \notin Always /\ t[3].op \notin Always
    BY <1>1 DEF Always
  <1>6. \A j \in 2..3 : j = 2 \/ j = 3
    OBVIOUS
  <1>7. Marks(t)
    <2>1. \A i \in 1..Len(t) : t[i].op = "create" => \A j \in 2..i : t[j].op \notin Always
      BY <1>4, <1>5, <1>6 DEF Making
    <2> QED BY <1>3, <1>4, <2>1 DEF Marks
  <1>8. ~Chosen(t) /\ ~AtNumber(t) /\ ~AtStart(t)
    BY <1>1 DEF Chosen, AtNumber, AtStart
  <1> QED BY <1>1, <1>7, <1>8 DEF NumbersOf, t

LEMMA InstallOpening ==
  ASSUME NEW cmd \in CommandLines, cmd.op = "install"
  PROVE  Opening(Program(cmd))
  <1> DEFINE first == [S("allocate") EXCEPT !.at = cmd.num, !.A = cmd.A, !.B = cmd.B]
             second == S("same name")
             third == S("create")
             three == << first, second, third >>
             sync == << S("sync") >>
  <1>1. Program(cmd) = three \o FriendlyNames(OwnPair) \o sync
    BY PartsOf
  <1>2. Is(first, "allocate") /\ Is(second, "same name") /\ Is(third, "create")
    BY NewStep
  <1>3. Plain(FriendlyNames(OwnPair)) /\ Plain(sync)
    BY PartsPlain, OneStepPlain DEF Marked
  <1> HIDE DEF first, second, third, sync
  <1>4. Opening(three)
    <2> DEFINE T == {first, second, third}
    <2>1. /\ Len(three) = 3 /\ three[1] = first /\ three[2] = second /\ three[3] = third
          /\ three \in Seq(T)
      OBVIOUS
    <2> HIDE DEF T, three
    <2>2. \A i \in 1..3 : i = 1 \/ i = 2 \/ i = 3
      OBVIOUS
    <2>3. \A i \in 1..Len(three) : "op" \in DOMAIN three[i]
      BY <1>2, <2>1, <2>2 DEF Is
    <2>4. IsTodo(three)
      BY <2>1, <2>3, TodoIs
    <2>5. three[1].op = "allocate" /\ three[2].op = "same name" /\ three[3].op = "create"
      BY <1>2, <2>1 DEF Is
    <2>6. \A i \in 4..Len(three) : three[i].op \notin Marked
      BY <2>1
    <2>7. Len(three) >= 3
      BY <2>1
    <2> QED BY <2>4, <2>5, <2>6, <2>7 DEF Opening
  <1> HIDE DEF three
  <1>5. Opening(three \o FriendlyNames(OwnPair))
    BY <1>3, <1>4, OpeningJoined
  <1> QED BY <1>1, <1>3, <1>5, OpeningJoined

\* Main begins a command: of the first step only Install's is marked.
LEMMA CommandStep ==
  ASSUME NumbersInv, Command
  PROVE  NumbersInv'
  <1> DEFINE cmd == Head(script)
             end == << S("finish") >>
  <1>1. c.todo = << >> /\ script # << >> /\ script' = Tail(script) /\ m' = m
    BY DEF Command, Busy
  <1>2. cmd \in CommandLines /\ script' \in Seq(CommandLines)
    BY <1>1 DEF NumbersInv
  <1>3. Shaped(m) /\ OwnNumbers(m)
    BY <1>1 DEF NumbersInv, NumbersOf, AtNumber
  <1>4. Plain(end)
    BY OneStepPlain DEF Marked
  <1> HIDE DEF end
  <1>5. c' = [Idle0 EXCEPT !.todo = Program(cmd) \o end, !.cmd = cmd.op,
                           !.noUpdate = cmd.noUpdate, !.silent = c.silent, !.faults = c.faults,
                           !.patience = c.patience, !.others = c.others, !.hurt = c.hurt,
                           !.refused = c.refused, !.was = On(m)]
    BY Zenon DEF Command, end
  <1> DEFINE todo == Program(cmd) \o end
  <1> HIDE DEF cmd, todo
  <1>6. Memory(c') /\ c'.todo = todo
    BY <1>5 DEF Memory, Idle0, todo
  <1>7. CASE cmd.op = "install"
    <2>1. Opening(todo)
      BY <1>2, <1>4, <1>7, InstallOpening, OpeningJoined DEF todo
    <2> QED BY <1>1, <1>2, <1>3, <1>6, <2>1, OpeningNumbers DEF NumbersInv
  <1>8. CASE cmd.op # "install"
    <2>1. Plain(todo)
      BY <1>2, <1>4, <1>8, ProgramPlain, JoinedPlain DEF todo
    <2> QED BY <1>1, <1>2, <1>3, <1>6, <2>1, PlainNumbers DEF NumbersInv
  <1> QED BY <1>7, <1>8

LEMMA InitNumbers ==
  ASSUME Init
  PROVE  NumbersInv
  <1>1. PICK x \in Cases : m = x[1] /\ script = x[2]
    BY DEF Init
  <1>2. /\ DOMAIN m = {"bus", "port", "list", "kept", "arb", "log", "soft"}
        /\ m.bus \in [Slots -> Buses] /\ OwnNumbers(m) /\ script \in Seq(CommandLines)
    BY <1>1, CasesAssumption
  <1>3. Shaped(m)
    BY <1>2 DEF Shaped, Buses
  <1>4. PICK s : c = [Idle0 EXCEPT !.silent = s]
    BY DEF Init
  <1>5. Memory(c) /\ c.todo = << >>
    BY <1>4 DEF Memory, Idle0
  <1>6. Plain(c.todo)
    BY <1>5, NonePlain
  <1> QED BY <1>2, <1>3, <1>5, <1>6, PlainNumbers DEF NumbersInv

\* Applications, other drivers and the user.
LEMMA StrangersNumbers ==
  ASSUME NumbersInv, AppOpens \/ AppCloses \/ OtherClaims \/ OtherReleases
  PROVE  NumbersInv'
  <1>1. script' = script /\ NumbersOf(m, c) /\ Memory(c) /\ Shaped(m)
    BY DEF NumbersInv, NumbersOf, AppOpens, AppCloses, OtherClaims, OtherReleases
  <1>2. DOMAIN m' = DOMAIN m /\ m'.bus = m.bus
    BY <1>1 DEF AppOpens, AppCloses, OtherClaims, OtherReleases, Stranger, Shaped
  <1>3. Same(c, c')
    BY <1>1 DEF AppOpens, AppCloses, OtherClaims, OtherReleases, Stranger, Same, Memory, Idle0
  <1> QED BY <1>1, <1>2, <1>3, SameBusNumbers DEF NumbersInv

LEMMA RebootStep ==
  ASSUME NumbersInv, RebootNow
  PROVE  NumbersInv'
  <1>1. NumbersOf(m, c) /\ c.todo = << >> /\ m' = Reboot(m) /\ script' = script /\ Memory(c)
        /\ c' = [c EXCEPT !.cmd = "none", !.reboot = FALSE, !.refused = FALSE]
    BY DEF NumbersInv, NumbersOf, RebootNow, Busy
  <1>2. Shaped(m) /\ OwnNumbers(m) /\ ~AtNumber(c.todo)
    BY <1>1 DEF NumbersOf, AtNumber
  <1>3. Keeps(m, m')
    BY <1>1, <1>2, RebootKeeps
  <1>4. Same(c, c')
    BY <1>1 DEF Same, Memory, Idle0
  <1> QED BY <1>1, <1>2, <1>3, <1>4, SameKeepsNumbers DEF NumbersInv

\* Every step of a command.
LEMMA StepsNumbers ==
  ASSUME NumbersInv, Steps, "number" \notin FaultKinds
  PROVE  NumbersInv'
  BY Zenon, SmallSteps, NameSteps, DatabaseSteps, LoopSteps, SoftwareSteps, InfFilesStep, DriverSteps,
     BusSteps, RenameStep, SaveParametersStep, InstallParametersStep, ChangeStep, SaveChangeStep,
     NumberStep, CreateStep, AllocateStep DEF Steps

\* The invariant implies the property.
LEMMA EachOwnsItsNumber ==
  ASSUME NumbersInv
  PROVE  OneNumber
  <1>1. NumbersOf(m, c)
    BY DEF NumbersInv
  <1>2. CASE OwnNumbers(m)
    BY <1>2 DEF OwnNumbers, OneNumber
  <1>3. CASE ~OwnNumbers(m)
    <2>1. AtNumber(c.todo) /\ NewPair(m, c.todo[1])
      BY <1>1, <1>3 DEF NumbersOf
    <2>2. PICK s \in Slots : m.bus[s].here /\ m.bus[s].num = -1 /\ OthersOwn(m, s)
      BY <2>1 DEF NewPair
    <2> QED BY <2>2 DEF OthersOwn, OneNumber
  <1> QED BY <1>2, <1>3

\* Two pairs never have the same number, whichever calls of set-up fail and whatever the user
\* answers, as long as the call that gives a new pair its number does not fail (SetPortNum):
\* the driver numbers a pair that "Continue" leaves without one (GetPortNum), and looks only at
\* the pairs that run.
THEOREM PairsOwnTheirNumbers ==
  ASSUME "number" \notin FaultKinds
  PROVE  Spec => []OneNumber
  <1>1. Init => NumbersInv
    BY InitNumbers
  <1>2. NumbersInv /\ [Next]_vars => NumbersInv'
    <2> SUFFICES ASSUME NumbersInv, [Next]_vars PROVE NumbersInv'
      OBVIOUS
    <2>1. CASE Steps
      BY <2>1, StepsNumbers
    <2>2. CASE Command
      BY <2>2, CommandStep
    <2>3. CASE AppOpens \/ AppCloses \/ OtherClaims \/ OtherReleases
      BY <2>3, StrangersNumbers
    <2>4. CASE RebootNow
      BY <2>4, RebootStep
    <2>5. CASE TheEnd \/ UNCHANGED vars
      BY <2>5 DEF TheEnd, vars, NumbersInv, NumbersOf, Shaped, Memory, Marks, Chosen, AtNumber,
                  AtStart, FreeNumber, FreeBut, NewPair, OthersOwn, OwnNumbers
    <2> QED BY <2>1, <2>2, <2>3, <2>4, <2>5 DEF Next
  <1>3. NumbersInv => OneNumber
    BY EachOwnsItsNumber
  <1> QED BY <1>1, <1>2, <1>3, PTL DEF Spec
=============================================================================
