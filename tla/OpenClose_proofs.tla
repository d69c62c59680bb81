-------------------------- MODULE OpenClose_proofs --------------------------
(***************************************************************************)
(* Theorems about OpenClose, for every pair, every choice of modes and     *)
(* every finite set of users.                                              *)
(***************************************************************************)
EXTENDS OpenClose, FiniteSetTheorems, TLAPS

\* Those whom openCount counts.
Counted(p) == Holding(p) \cup Users(p, {"refused"})

\* A CLOSE is left pending in exclusive mode only.
PendingExclusive == \A u \in User : at[u] = "pending" => port[u] \in Exclusive

\* The inductive invariant.
Inv == TypeOK /\ PendingExclusive /\ OneHolder /\ SessionState

-----------------------------------------------------------------------------
(* Counting *)

\* Any set of users is finite, so it has a number of members.
LEMMA FiniteUsers ==
  ASSUME NEW S, S \subseteq User
  PROVE  IsFiniteSet(S) /\ Cardinality(S) \in Nat
BY UserAssumption, FS_Subset, FS_CardinalityType

\* Only users are counted.
LEMMA CountedUsers ==
  ASSUME NEW p \in Port
  PROVE  /\ Counted(p) \subseteq User /\ Holding(p) \subseteq User
         /\ Counted(p)' \subseteq User
BY DEF Counted, Holding, Users

\* A step that changes neither the counts nor who is counted, and lets nobody
\* new in, keeps OneHolder.
LEMMA SameCounted ==
  ASSUME Inv, UNCHANGED openCount,
         \A p \in Port : Counted(p)' = Counted(p) /\ Holding(p)' \subseteq Holding(p)
  PROVE  OneHolder'
BY DEF Inv, OneHolder, Counted

\* One more is counted.
LEMMA OneMore ==
  ASSUME NEW S, S \subseteq User, NEW u \in User, u \notin S
  PROVE  Cardinality(S \cup {u}) = Cardinality(S) + 1
BY FiniteUsers, FS_AddElement

\* One less is counted.
LEMMA OneLess ==
  ASSUME NEW S, S \subseteq User, NEW u \in S
  PROVE  Cardinality(S \ {u}) = Cardinality(S) - 1
BY FiniteUsers, FS_RemoveElement

-----------------------------------------------------------------------------
(* OneHolder *)

\* InterlockedIncrement lets a user in only where nobody is counted.
LEMMA CountInHolder ==
  ASSUME Inv, NEW u \in User, NEW p \in Port, CountIn(u, p)
  PROVE  OneHolder'
  <1>1. u \notin Counted(p) /\ at[u] = "idle"
    BY DEF CountIn, Counted, Holding, Users, Entering, Session, Leaving
  <1>2. Counted(p)' = Counted(p) \cup {u}
    BY DEF CountIn, Go, Inv, TypeOK, Counted, Holding, Users, Entering, Session, Leaving
  <1>3. openCount'[p] = Cardinality(Counted(p)')
    <2>1. openCount[p] = Cardinality(Counted(p)) /\ openCount[p] \in Nat
      BY DEF Inv, TypeOK, OneHolder, Counted
    <2>2. openCount'[p] = openCount[p] + 1  BY DEF CountIn, Inv, TypeOK
    <2> QED  BY <1>1, <1>2, <2>1, <2>2, OneMore, CountedUsers
  <1>4. \A v, w \in Holding(p)' : v = w
    <2>1. CASE openCount[p] = 0
      <3>1. Cardinality(Counted(p)) = 0  BY <2>1 DEF Inv, OneHolder, Counted
      <3>2. Counted(p) = {}  BY <3>1, CountedUsers, FiniteUsers, FS_EmptySet
      <3>3. Holding(p)' \subseteq Counted(p)'  BY DEF Counted
      <3> QED  BY <3>2, <3>3, <1>2
    <2>2. CASE openCount[p] # 0
      <3>1. Holding(p)' = Holding(p)
        BY <2>2, <1>1 DEF CountIn, Go, Inv, TypeOK, Holding, Users, Entering, Session, Leaving
      <3> QED  BY <3>1 DEF Inv, OneHolder
    <2> QED  BY <2>1, <2>2
  <1>5. ASSUME NEW r \in Port, r # p
        PROVE  Holding(r)' = Holding(r) /\ Counted(r)' = Counted(r)
                 /\ openCount'[r] = openCount[r]
    <2>1. port[u] = NoPort /\ r # NoPort  BY <1>1, PairAssumption DEF Inv, TypeOK
    <2> QED
      BY <1>5, <2>1, <1>1 DEF CountIn, Go, Inv, TypeOK, Counted, Holding, Users
  <1> QED  BY <1>3, <1>4, <1>5 DEF Inv, OneHolder, Counted

\* A user who gives the port back is counted no more.
LEMMA GiveBackHolder ==
  ASSUME Inv, NEW u \in User, NEW p \in Port, u \in Counted(p),
         openCount' = [openCount EXCEPT ![p] = @ - 1],
         \A r \in Port : Counted(r)' = Counted(r) \ {u},
         \A r \in Port : Holding(r)' \subseteq Holding(r)
  PROVE  OneHolder'
  <1>1. openCount[p] = Cardinality(Counted(p)) /\ openCount'[p] = openCount[p] - 1
    BY DEF Inv, TypeOK, OneHolder, Counted
  <1>2. openCount'[p] = Cardinality(Counted(p)')  BY <1>1, OneLess, CountedUsers
  <1>3. ASSUME NEW r \in Port, r # p
        PROVE  Counted(r)' = Counted(r) /\ openCount'[r] = openCount[r]
    <2>1. u \notin Counted(r)  BY <1>3 DEF Counted, Holding, Users
    <2> QED  BY <1>3, <2>1 DEF Inv, TypeOK
  <1> QED  BY <1>2, <1>3 DEF Inv, OneHolder, Counted

\* The steps of an opening user keep OneHolder.
LEMMA OpeningHolder ==
  ASSUME Inv, NEW u \in User, Opening(u)
  PROVE  OneHolder'
  <1>1. CASE CountOut(u)
    <2>1. port[u] \in Port /\ u \in Counted(port[u])
      BY <1>1 DEF CountOut, Inv, TypeOK, Counted, Users
    <2>2. \A r \in Port : Counted(r)' = Counted(r) \ {u} /\ Holding(r)' \subseteq Holding(r)
      BY <1>1, PairAssumption DEF CountOut, Return, Go, Inv, TypeOK, Counted, Holding, Users
    <2> QED  BY <1>1, <2>1, <2>2, GiveBackHolder DEF CountOut
  <1>2. CASE CheckRemote(u)
    BY <1>2, SameCounted DEF CheckRemote, Go, Inv, TypeOK, Counted, Holding, Users, Entering, Session, Leaving
  <1>3. CASE AnnounceOpen(u)
    BY <1>3, SameCounted DEF AnnounceOpen, Go, Inv, TypeOK, Counted, Holding, Users, Entering, Session, Leaving
  <1>4. CASE SetUp(u)
    BY <1>4, SameCounted DEF SetUp, Go, Inv, TypeOK, Counted, Holding, Users, Entering, Session, Leaving
  <1>5. CASE MarkOpen(u)
    BY <1>5, SameCounted DEF MarkOpen, Go, Inv, TypeOK, Counted, Holding, Users, Entering, Session, Leaving
  <1>6. CASE TellRemoteOpen(u)
    BY <1>6, SameCounted DEF TellRemoteOpen, Go, Inv, TypeOK, Counted, Holding, Users, Entering, Session, Leaving
  <1> QED  BY <1>1, <1>2, <1>3, <1>4, <1>5, <1>6 DEF Opening

\* The steps of a closing user keep OneHolder.
LEMMA ClosingHolder ==
  ASSUME Inv, NEW u \in User, MarkClosed(u) \/ Closing(u)
  PROVE  OneHolder'
  <1>1. CASE MarkClosed(u)
    BY <1>1, SameCounted DEF MarkClosed, Go, Inv, TypeOK, Counted, Holding, Users, Entering, Session, Leaving
  <1>2. CASE TellRemoteClosed(u)
    BY <1>2, SameCounted DEF TellRemoteClosed, Go, Inv, TypeOK, Counted, Holding, Users, Entering, Session, Leaving
  <1>3. CASE CleanUp(u)
    <2>1. port[u] \in Port /\ at[u] = "told"  BY <1>3 DEF CleanUp, Inv, TypeOK
    <2>2. CASE port[u] \in Exclusive
      BY <1>3, <2>2, SameCounted DEF CleanUp, Go, Inv, TypeOK, Counted, Holding, Users, Entering, Session, Leaving
    <2>3. CASE port[u] \notin Exclusive
      <3>1. u \in Counted(port[u])  BY <2>1 DEF Counted, Holding, Users, Session
      <3>2. \A r \in Port : Counted(r)' = Counted(r) \ {u} /\ Holding(r)' \subseteq Holding(r)
        BY <1>3, <2>1, <2>3 DEF CleanUp, Go, Inv, TypeOK, Counted, Holding, Users, Entering, Session
      <3> QED  BY <1>3, <2>1, <2>3, <3>1, <3>2, GiveBackHolder DEF CleanUp
    <2> QED  BY <2>2, <2>3
  <1>4. CASE CloseAtOnce(u)
    BY <1>4, SameCounted, PairAssumption
       DEF CloseAtOnce, Return, Go, Inv, TypeOK, Counted, Holding, Users, Entering, Session
  <1>5. CASE CloseLater(u)
    BY <1>5, SameCounted DEF CloseLater, Go, Inv, TypeOK, Counted, Holding, Users, Entering, Session, Leaving
  <1> QED  BY <1>1, <1>2, <1>3, <1>4, <1>5 DEF Closing

\* Completing a pending CLOSE, whether the timer or a query does it, keeps
\* OneHolder.
LEMMA CompleteHolder ==
  ASSUME Inv, NEW p \in Port, CompleteClose(p)
  PROVE  OneHolder'
  <1>1. CASE Closer(p) = {}
    <2>1. at' = at /\ port' = port  BY <1>1 DEF CompleteClose, Inv, TypeOK
    <2>2. openCount' = openCount
      <3>1. Cardinality(Closer(p)) = 0  BY <1>1, FS_EmptySet
      <3> QED  BY <3>1 DEF CompleteClose, Inv, TypeOK
    <2> QED  BY <2>1, <2>2, SameCounted DEF Counted, Holding, Users
  <1>2. ASSUME NEW u \in Closer(p)
        PROVE  OneHolder'
    <2>1. u \in User /\ port[u] = p /\ at[u] = "pending"  BY <1>2 DEF Closer
    <2>2. p \in Exclusive  BY <2>1 DEF Inv, PendingExclusive
    <2>3. Closer(p) \subseteq Holding(p)  BY <2>2 DEF Closer, Holding, Users, Leaving
    <2>4. Closer(p) = {u}
      <3>1. \A v, w \in Holding(p) : v = w  BY DEF Inv, OneHolder
      <3> QED  BY <1>2, <2>3, <3>1
    <2>5. Cardinality(Closer(p)) = 1  BY <2>4, FS_Singleton
    <2>6. u \in Counted(p)  BY <1>2, <2>3 DEF Counted
    <2>7. openCount' = [openCount EXCEPT ![p] = @ - 1]
      BY <2>5 DEF CompleteClose
    <2>8. /\ at' = [v \in User |-> IF v = u THEN "idle" ELSE at[v]]
          /\ port' = [v \in User |-> IF v = u THEN NoPort ELSE port[v]]
      BY <2>4 DEF CompleteClose
    <2>9. \A r \in Port : Counted(r)' = Counted(r) \ {u} /\ Holding(r)' \subseteq Holding(r)
      BY <2>1, <2>8, PairAssumption DEF Counted, Holding, Users
    <2> QED  BY <2>1, <2>6, <2>7, <2>9, GiveBackHolder
  <1> QED  BY <1>1, <1>2

-----------------------------------------------------------------------------
(* SessionState *)

\* A user between InterlockedIncrement and the clean-up has the port alone.
LEMMA Alone ==
  ASSUME Inv, NEW u \in User, NEW v \in User, port[u] = port[v],
         at[u] \in Entering \cup Session, at[v] \in Entering \cup Session
  PROVE  u = v
  <1>1. port[u] \in Port
    BY DEF Inv, TypeOK, Entering, Session
  <1>2. u \in Holding(port[u]) /\ v \in Holding(port[u])
    BY DEF Holding, Users
  <1> QED  BY <1>1, <1>2 DEF Inv, OneHolder

\* A step after which the same users have the port set up and open keeps
\* SessionState.
LEMMA SameSession ==
  ASSUME Inv, UNCHANGED <<buffers, modemOpen, isOpen>>,
         \A p \in Port : /\ Users(p, Session)' = Users(p, Session)
                         /\ Users(p, {"opened", "held"})' = Users(p, {"opened", "held"})
  PROVE  SessionState'
BY DEF Inv, SessionState

\* The steps of an opening user keep SessionState.
LEMMA OpeningSession ==
  ASSUME Inv, NEW u \in User, Opening(u)
  PROVE  SessionState'
  <1>1. CASE CountOut(u)
    BY <1>1, SameSession, PairAssumption DEF CountOut, Return, Go, Inv, TypeOK, Users, Session
  <1>2. CASE CheckRemote(u)
    BY <1>2, SameSession DEF CheckRemote, Go, Inv, TypeOK, Users, Session
  <1>3. CASE AnnounceOpen(u)
    BY <1>3, SameSession DEF AnnounceOpen, Go, Inv, TypeOK, Users, Session
  <1>4. CASE SetUp(u)
    <2>1. port[u] \in Port /\ at[u] = "announced"  BY <1>4 DEF SetUp, Inv, TypeOK
    <2>2. Users(port[u], Session) = {}
      BY <2>1, Alone DEF Users, Session, Entering
    <2>3. u \in Users(port[u], Session)'
      BY <1>4, <2>1 DEF SetUp, Go, Inv, TypeOK, Users, Session
    <2>4. \A r \in Port : Users(r, {"opened", "held"})' = Users(r, {"opened", "held"})
      BY <1>4, <2>1 DEF SetUp, Go, Inv, TypeOK, Users
    <2>5. \A r \in Port : r # port[u] => Users(r, Session)' = Users(r, Session)
      BY <1>4, <2>1 DEF SetUp, Go, Inv, TypeOK, Users
    <2>6. buffers[port[u]] = 0  BY <2>1, <2>2 DEF Inv, SessionState
    <2> QED  BY <1>4, <2>1, <2>3, <2>4, <2>5, <2>6 DEF SetUp, Inv, TypeOK, SessionState
  <1>5. CASE MarkOpen(u)
    <2>1. port[u] \in Port /\ at[u] = "ready"  BY <1>5 DEF MarkOpen, Inv, TypeOK
    <2>2. \A r \in Port : Users(r, Session)' = Users(r, Session)
      BY <1>5, <2>1 DEF MarkOpen, Go, Inv, TypeOK, Users, Session
    <2>3. u \in Users(port[u], {"opened", "held"})'
      BY <1>5, <2>1 DEF MarkOpen, Go, Inv, TypeOK, Users
    <2>4. \A r \in Port :
            r # port[u] => Users(r, {"opened", "held"})' = Users(r, {"opened", "held"})
      BY <1>5, <2>1 DEF MarkOpen, Go, Inv, TypeOK, Users
    <2> QED  BY <1>5, <2>1, <2>2, <2>3, <2>4 DEF MarkOpen, Inv, TypeOK, SessionState
  <1>6. CASE TellRemoteOpen(u)
    BY <1>6, SameSession DEF TellRemoteOpen, Go, Inv, TypeOK, Users, Session
  <1> QED  BY <1>1, <1>2, <1>3, <1>4, <1>5, <1>6 DEF Opening

\* The steps of a closing user keep SessionState.
LEMMA ClosingSession ==
  ASSUME Inv, NEW u \in User, MarkClosed(u) \/ Closing(u)
  PROVE  SessionState'
  <1>1. CASE MarkClosed(u)
    <2>1. port[u] \in Port /\ at[u] = "held"  BY <1>1 DEF MarkClosed, Inv, TypeOK
    <2>2. \A r \in Port : Users(r, Session)' = Users(r, Session)
      BY <1>1, <2>1 DEF MarkClosed, Go, Inv, TypeOK, Users, Session
    <2>3. Users(port[u], {"opened", "held"})' = {}
      BY <1>1, <2>1, Alone DEF MarkClosed, Go, Inv, TypeOK, Users, Session
    <2>4. \A r \in Port :
            r # port[u] => Users(r, {"opened", "held"})' = Users(r, {"opened", "held"})
      BY <1>1, <2>1 DEF MarkClosed, Go, Inv, TypeOK, Users
    <2> QED  BY <1>1, <2>1, <2>2, <2>3, <2>4 DEF MarkClosed, Inv, TypeOK, SessionState
  <1>2. CASE TellRemoteClosed(u)
    BY <1>2, SameSession DEF TellRemoteClosed, Go, Inv, TypeOK, Users, Session
  <1>3. CASE CleanUp(u)
    <2>1. port[u] \in Port /\ at[u] = "told"  BY <1>3 DEF CleanUp, Inv, TypeOK
    <2>2. u \in Users(port[u], Session)  BY <2>1 DEF Users, Session
    <2>3. Users(port[u], Session)' = {}
      BY <1>3, <2>1, Alone DEF CleanUp, Go, Inv, TypeOK, Users, Session
    <2>4. \A r \in Port : Users(r, {"opened", "held"})' = Users(r, {"opened", "held"})
      BY <1>3, <2>1 DEF CleanUp, Go, Inv, TypeOK, Users
    <2>5. \A r \in Port : r # port[u] => Users(r, Session)' = Users(r, Session)
      BY <1>3, <2>1 DEF CleanUp, Go, Inv, TypeOK, Users
    <2>6. buffers[port[u]] = 1  BY <2>1, <2>2 DEF Inv, SessionState
    <2> QED  BY <1>3, <2>1, <2>3, <2>4, <2>5, <2>6 DEF CleanUp, Inv, TypeOK, SessionState
  <1>4. CASE CloseAtOnce(u)
    BY <1>4, SameSession, PairAssumption
       DEF CloseAtOnce, Return, Go, Inv, TypeOK, Users, Session
  <1>5. CASE CloseLater(u)
    BY <1>5, SameSession DEF CloseLater, Go, Inv, TypeOK, Users, Session
  <1> QED  BY <1>1, <1>2, <1>3, <1>4, <1>5 DEF Closing

\* So does completing a pending CLOSE.
LEMMA CompleteSession ==
  ASSUME Inv, NEW p \in Port, CompleteClose(p), UNCHANGED <<buffers, modemOpen, isOpen>>
  PROVE  SessionState'
  <1>1. \A r \in Port : /\ Users(r, Session)' = Users(r, Session)
                        /\ Users(r, {"opened", "held"})' = Users(r, {"opened", "held"})
    BY PairAssumption DEF CompleteClose, Closer, Inv, TypeOK, Users, Session
  <1> QED  BY <1>1, SameSession

-----------------------------------------------------------------------------
(* Types *)

\* Everything but the range of openCount and of buffers, which counting gives.
Shape ==
  /\ openCount \in [Port -> Int]
  /\ isOpen \in [Port -> BOOLEAN]
  /\ buffers \in [Port -> Int]
  /\ modemOpen \in [Port -> BOOLEAN]
  /\ shown \in [Port -> BOOLEAN]
  /\ invalid \in [Port -> BOOLEAN]
  /\ at \in [User -> Places]
  /\ port \in [User -> Port \cup {NoPort}]
  /\ \A u \in User : port[u] = NoPort <=> at[u] = "idle"
  /\ timer \in [Port -> BOOLEAN]
  /\ dpc \in [Port -> BOOLEAN]
  /\ pnp \in [at : {"idle", "remote", "apply", "complete"},
              port : Port \cup {NoPort}, hide : BOOLEAN]
  /\ pnp.port = NoPort <=> pnp.at = "idle"

\* With the other two invariants the shape is the type.
LEMMA ShapeIsType == ASSUME Shape', OneHolder', SessionState' PROVE TypeOK'
  <1>1. \A p \in Port : openCount'[p] \in Nat
    <2>1. TAKE p \in Port
    <2>2. (Holding(p) \cup Users(p, {"refused"}))' \subseteq User
      BY DEF Holding, Users
    <2>3. openCount'[p] = Cardinality((Holding(p) \cup Users(p, {"refused"}))')
      BY DEF OneHolder
    <2> QED  BY <2>2, <2>3, FiniteUsers
  <1>2. \A p \in Port : buffers'[p] \in Nat
    BY DEF SessionState
  <1>3. openCount' \in [Port -> Nat] /\ buffers' \in [Port -> Nat]
    BY <1>1, <1>2 DEF Shape
  <1> QED  BY <1>3 DEF Shape, TypeOK

\* Completing a pending CLOSE keeps the shape and PendingExclusive.
LEMMA CompleteShape ==
  ASSUME Inv, NEW p \in Port, CompleteClose(p)
  PROVE  /\ openCount' \in [Port -> Int]
         /\ at' \in [User -> Places]
         /\ port' \in [User -> Port \cup {NoPort}]
         /\ \A u \in User : port'[u] = NoPort <=> at'[u] = "idle"
         /\ PendingExclusive'
  <1>1. Closer(p) \subseteq User  BY DEF Closer
  <1>2. Cardinality(Closer(p)) \in Nat  BY <1>1, FiniteUsers
  <1>3. openCount' \in [Port -> Int]  BY <1>2 DEF CompleteClose, Inv, TypeOK
  <1> QED  BY <1>3 DEF CompleteClose, Closer, Inv, TypeOK, PendingExclusive, Places

\* Every step keeps the shape and PendingExclusive.
LEMMA ShapeStep ==
  ASSUME Inv, [Next]_vars
  PROVE  Shape' /\ PendingExclusive'
  <1> USE DEF Inv, TypeOK, Shape, PendingExclusive
  <1>1. ASSUME NEW u \in User, NEW p \in Port, CountIn(u, p)
        PROVE  Shape' /\ PendingExclusive'
    BY <1>1, PairAssumption DEF CountIn, Go, Places, Entering
  <1>2. ASSUME NEW u \in User, Opening(u)
        PROVE  Shape' /\ PendingExclusive'
    <2>1. CASE CountOut(u)
      BY <2>1, PairAssumption DEF CountOut, Return, Go, Places
    <2>2. CASE CheckRemote(u)
      BY <2>2 DEF CheckRemote, Go, Places, Entering
    <2>3. CASE AnnounceOpen(u)
      BY <2>3 DEF AnnounceOpen, Go, Invalidate, Places, Entering
    <2>4. CASE SetUp(u)
      BY <2>4 DEF SetUp, Go, Places, Session
    <2>5. CASE MarkOpen(u)
      BY <2>5 DEF MarkOpen, Go, Places, Session
    <2>6. CASE TellRemoteOpen(u)
      BY <2>6 DEF TellRemoteOpen, Go, Invalidate, Places, Session
    <2> QED  BY <1>2, <2>1, <2>2, <2>3, <2>4, <2>5, <2>6 DEF Opening
  <1>3. ASSUME NEW u \in User, MarkClosed(u) \/ Closing(u)
        PROVE  Shape' /\ PendingExclusive'
    <2>1. CASE MarkClosed(u)
      BY <2>1 DEF MarkClosed, Go, Places, Session
    <2>2. CASE TellRemoteClosed(u)
      BY <2>2 DEF TellRemoteClosed, Go, Invalidate, Places, Session
    <2>3. CASE CleanUp(u)
      BY <2>3 DEF CleanUp, Go, Places, Leaving
    <2>4. CASE CloseAtOnce(u)
      BY <2>4, PairAssumption DEF CloseAtOnce, Return, Go, Places
    <2>5. CASE CloseLater(u)
      BY <2>5 DEF CloseLater, Go, Invalidate, Places, Leaving
    <2> QED  BY <1>3, <2>1, <2>2, <2>3, <2>4, <2>5 DEF Closing
  <1>4. ASSUME NEW p \in Port, TimerFires(p)
        PROVE  Shape' /\ PendingExclusive'
    BY <1>4 DEF TimerFires
  <1>5. ASSUME NEW p \in Port, CloseTimeout(p)
        PROVE  Shape' /\ PendingExclusive'
    BY <1>5, CompleteShape DEF CloseTimeout
  <1>6. CASE PnpStep
    <2>1. ASSUME NEW p \in Port, Query(p) PROVE Shape' /\ PendingExclusive'
      <3>1. p # NoPort  BY PairAssumption
      <3>2. invalid' \in [Port -> BOOLEAN]  BY <2>1 DEF Query
      <3>3. /\ pnp' \in [at : {"idle", "remote", "apply", "complete"},
                         port : Port \cup {NoPort}, hide : BOOLEAN]
            /\ pnp'.port = p /\ pnp'.at # "idle"
        <4>1. CASE p \in Exclusive /\ isOpen[p]
          <5>1. pnp' = [at |-> "apply", port |-> p, hide |-> TRUE]
            BY <2>1, <4>1 DEF Query, Decide
          <5> QED  BY <5>1
        <4>2. CASE ~(p \in Exclusive /\ isOpen[p])
          <5>1. pnp' = [at |-> "remote", port |-> p, hide |-> FALSE]
            BY <2>1, <4>2 DEF Query
          <5> QED  BY <5>1
        <4> QED  BY <4>1, <4>2
      <3>4. UNCHANGED <<openCount, isOpen, buffers, modemOpen, shown, at, port,
                        timer, dpc>>
        BY <2>1 DEF Query
      <3> QED  BY <3>1, <3>2, <3>3, <3>4
    <2>2. CASE QueryRemote
      BY <2>2, PairAssumption DEF QueryRemote, Decide
    <2>3. CASE HideOrShow
      BY <2>3 DEF HideOrShow
    <2>4. CASE QueryEnd
      <3>1. pnp.port \in Port  BY <2>4 DEF QueryEnd
      <3> QED  BY <2>4, <3>1, CompleteShape DEF QueryEnd
    <2> QED  BY <1>6, <2>1, <2>2, <2>3, <2>4 DEF PnpStep
  <1>7. CASE UNCHANGED vars
    BY <1>7 DEF vars
  <1> QED  BY <1>1, <1>2, <1>3, <1>4, <1>5, <1>6, <1>7 DEF Next

-----------------------------------------------------------------------------
(* The theorems *)

\* The initial states satisfy the invariant.
LEMMA InvInit == ASSUME Init PROVE Inv
  <1>1. \A p \in Port, S \in SUBSET Places : "idle" \notin S => Users(p, S) = {}
    BY DEF Init, Users
  <1>2. TypeOK /\ PendingExclusive
    BY PairAssumption DEF Init, TypeOK, PendingExclusive, Places
  <1>3. \A p \in Port : Holding(p) = {} /\ Users(p, {"refused"}) = {}
                          /\ Users(p, Session) = {} /\ Users(p, {"opened", "held"}) = {}
    BY <1>1 DEF Holding, Places, Entering, Session, Leaving
  <1>4. OneHolder
    BY <1>3, FS_EmptySet DEF Init, OneHolder
  <1>5. SessionState
    BY <1>3 DEF Init, SessionState
  <1> QED  BY <1>2, <1>4, <1>5 DEF Inv

\* Every step keeps the invariant.
LEMMA InvStep == ASSUME Inv, [Next]_vars PROVE Inv'
  <1>1. Shape' /\ PendingExclusive'  BY ShapeStep
  <1>2. OneHolder' /\ SessionState'
    <2>1. ASSUME NEW u \in User, NEW p \in Port, CountIn(u, p)
          PROVE  OneHolder' /\ SessionState'
      BY <2>1, CountInHolder, SameSession
         DEF CountIn, Go, Inv, TypeOK, Users, Session
    <2>2. ASSUME NEW u \in User, Opening(u)
          PROVE  OneHolder' /\ SessionState'
      BY <2>2, OpeningHolder, OpeningSession
    <2>3. ASSUME NEW u \in User, MarkClosed(u) \/ Closing(u)
          PROVE  OneHolder' /\ SessionState'
      BY <2>3, ClosingHolder, ClosingSession
    <2>4. ASSUME NEW p \in Port, TimerFires(p)
          PROVE  OneHolder' /\ SessionState'
      BY <2>4, SameCounted, SameSession DEF TimerFires, Counted, Holding, Users
    <2>5. ASSUME NEW p \in Port, CloseTimeout(p)
          PROVE  OneHolder' /\ SessionState'
      BY <2>5, CompleteHolder, CompleteSession DEF CloseTimeout
    <2>6. CASE PnpStep
      <3>1. CASE (\E p \in Port : Query(p)) \/ QueryRemote \/ HideOrShow
        BY <3>1, SameCounted, SameSession
           DEF Query, QueryRemote, HideOrShow, Counted, Holding, Users
      <3>2. CASE QueryEnd
        <4>1. pnp.port \in Port  BY <3>2 DEF QueryEnd, Inv, TypeOK
        <4> QED  BY <3>2, <4>1, CompleteHolder, CompleteSession DEF QueryEnd
      <3> QED  BY <2>6, <3>1, <3>2 DEF PnpStep
    <2>7. CASE UNCHANGED vars
      BY <2>7, SameCounted, SameSession DEF vars, Counted, Holding, Users
    <2> QED  BY <2>1, <2>2, <2>3, <2>4, <2>5, <2>6, <2>7 DEF Next
  <1>3. TypeOK'  BY <1>1, <1>2, ShapeIsType
  <1> QED  BY <1>1, <1>2, <1>3 DEF Inv

\* The invariant holds in every reachable state.
THEOREM Sessions == Spec => [](TypeOK /\ OneHolder /\ SessionState)
  <1>1. Init => Inv  BY InvInit
  <1>2. Inv /\ [Next]_vars => Inv'  BY InvStep
  <1>3. Inv => TypeOK /\ OneHolder /\ SessionState  BY DEF Inv
  <1> QED  BY <1>1, <1>2, <1>3, PTL DEF Spec

-----------------------------------------------------------------------------
(* Showing and hiding settle *)

\* Where a user's thread goes, and what it does to isOpen and to the queries to come.
LEMMA UserMoves ==
  ASSUME Inv, NEW u \in User,
         (\E q \in Port : CountIn(u, q)) \/ Opening(u) \/ MarkClosed(u) \/ Closing(u)
  PROVE  /\ UNCHANGED <<shown, pnp>>
         /\ \A q \in Port : invalid[q] => invalid'[q]
         /\ \A v \in User \ {u} : at'[v] = at[v] /\ port'[v] = port[v]
         /\ \A q \in Port : isOpen'[q] # isOpen[q] =>
              /\ port'[u] = q
              /\ \/ isOpen'[q] /\ at'[u] = "opened"
                 \/ ~isOpen'[q] /\ at'[u] = "closing"
         /\ at[u] \in {"opened", "closing"} =>
              port[u] \in Port /\ (Remote[port[u]] \in PlugIn => invalid'[Remote[port[u]]])
         /\ at[u] = "closing" => port'[u] = port[u] /\ at'[u] = "told"
         /\ at[u] = "told" => port'[u] = port[u] /\ at'[u] = "cleared"
         /\ at[u] = "cleared" /\ port[u] \in Exclusive => port[u] \in Port /\ invalid'[port[u]]
  <1>1. CASE (\E q \in Port : CountIn(u, q)) \/ CountOut(u)
    BY <1>1 DEF CountIn, CountOut, Return, Go, Inv, TypeOK
  <1>2. CASE CheckRemote(u) \/ SetUp(u)
    BY <1>2 DEF CheckRemote, SetUp, Go, Inv, TypeOK
  <1>3. CASE AnnounceOpen(u) \/ TellRemoteOpen(u) \/ TellRemoteClosed(u)
    BY <1>3, PairAssumption
       DEF AnnounceOpen, TellRemoteOpen, TellRemoteClosed, Invalidate, Go, Inv, TypeOK
  <1>4. CASE MarkOpen(u) \/ MarkClosed(u)
    <2>1. port[u] \in Port /\ isOpen \in [Port -> BOOLEAN] /\ at \in [User -> Places]
      BY <1>4, PairAssumption DEF MarkOpen, MarkClosed, Inv, TypeOK
    <2>2. CASE MarkOpen(u)
      <3>1. /\ at[u] = "ready" /\ at'[u] = "opened" /\ UNCHANGED <<shown, pnp, invalid, port>>
            /\ isOpen' = [isOpen EXCEPT ![port[u]] = TRUE]
            /\ \A v \in User \ {u} : at'[v] = at[v]
        BY <2>1, <2>2 DEF MarkOpen, Go
      <3>2. \A q \in Port : isOpen'[q] # isOpen[q] => q = port[u] /\ isOpen'[q]
        BY <2>1, <3>1
      <3> QED  BY <2>1, <3>1, <3>2
    <2>3. CASE MarkClosed(u)
      <3>1. /\ at[u] = "held" /\ at'[u] = "closing" /\ UNCHANGED <<shown, pnp, invalid, port>>
            /\ isOpen' = [isOpen EXCEPT ![port[u]] = FALSE]
            /\ \A v \in User \ {u} : at'[v] = at[v]
        BY <2>1, <2>3 DEF MarkClosed, Go
      <3>2. \A q \in Port : isOpen'[q] # isOpen[q] => q = port[u] /\ ~isOpen'[q]
        BY <2>1, <3>1
      <3> QED  BY <2>1, <3>1, <3>2
    <2> QED  BY <1>4, <2>2, <2>3
  <1>5. CASE CleanUp(u) \/ CloseAtOnce(u)
    BY <1>5, PairAssumption DEF CleanUp, CloseAtOnce, Return, Go, Inv, TypeOK
  <1>6. CASE CloseLater(u)
    BY <1>6, PairAssumption DEF CloseLater, Invalidate, Go, Inv, TypeOK
  <1> QED  BY <1>1, <1>2, <1>3, <1>4, <1>5, <1>6 DEF Opening, Closing

\* The end of a CLOSE that waits moves no other thread.
LEMMA CloseMoves ==
  ASSUME Inv, NEW q \in Port, CompleteClose(q)
  PROVE  \A v \in User : at[v] # "pending" => at'[v] = at[v] /\ port'[v] = port[v]
BY DEF CompleteClose, Closer, Inv, TypeOK

\* A port in plug-in mode keeps following the other one.
LEMMA PlugInStep ==
  ASSUME Inv, [Next]_vars, NEW p \in PlugIn \ Exclusive, PlugInFollows(p)
  PROVE  PlugInFollows(p)'
  <1> DEFINE r == Remote[p]
  <1>0. /\ p \in Port /\ r \in Port /\ Remote[r] = p /\ NoPort \notin Port
        /\ pnp.port = NoPort <=> pnp.at = "idle"
        /\ isOpen \in [Port -> BOOLEAN] /\ shown \in [Port -> BOOLEAN]
        /\ pnp.hide \in BOOLEAN /\ pnp.at \in {"idle", "remote", "apply", "complete"}
    BY PairAssumption DEF Inv, TypeOK
  <1>1. ASSUME NEW u \in User,
               (\E q \in Port : CountIn(u, q)) \/ Opening(u) \/ MarkClosed(u) \/ Closing(u)
        PROVE  PlugInFollows(p)'
    <2>1. /\ UNCHANGED <<shown, pnp>> /\ (invalid[p] => invalid'[p])
          /\ \A v \in User \ {u} : at'[v] = at[v] /\ port'[v] = port[v]
          /\ isOpen'[r] # isOpen[r] => port'[u] = r /\ at'[u] \in {"opened", "closing"}
          /\ at[u] \in {"opened", "closing"} /\ port[u] = r => invalid'[p]
      <3> HIDE DEF r
      <3> QED  BY <1>0, <1>1, UserMoves DEF r
    <2>2. CASE invalid'[p] \/ isOpen'[r] # isOpen[r]
      BY <2>1, <2>2 DEF PlugInFollows, Users
    <2>3. CASE ~invalid'[p] /\ isOpen'[r] = isOpen[r]
      BY <2>1, <2>3 DEF PlugInFollows, Users
    <2> QED  BY <2>2, <2>3
  <1>2. ASSUME NEW q \in Port, TimerFires(q) \/ CloseTimeout(q)
        PROVE  PlugInFollows(p)'
    <2>1. UNCHANGED <<shown, pnp, invalid, isOpen>>
      BY <1>2 DEF TimerFires, CloseTimeout
    <2>2. \A v \in User : at[v] # "pending" => at'[v] = at[v] /\ port'[v] = port[v]
      BY <1>2, CloseMoves DEF TimerFires, CloseTimeout
    <2> QED  BY <2>1, <2>2 DEF PlugInFollows, Users
  <1>3. ASSUME NEW q \in Port, Query(q)
        PROVE  PlugInFollows(p)'
    <2>1. CASE q = p
      BY <1>0, <1>3, <2>1 DEF Query, PlugInFollows
    <2>2. CASE q # p
      <3>1. pnp.port = NoPort /\ UNCHANGED <<isOpen, shown, at, port>>
        BY <1>0, <1>3 DEF Query
      <3>2. invalid'[p] = invalid[p]
        BY <1>0, <1>3, <2>2 DEF Query, Inv, TypeOK
      <3>3. pnp'.port = q
        <4>1. pnp' \in {[at |-> "apply", port |-> q, hide |-> TRUE],
                        [at |-> "remote", port |-> q, hide |-> FALSE]}
          BY <1>3 DEF Query, Decide
        <4> QED  BY <4>1
      <3> QED  BY <1>0, <2>2, <3>1, <3>2, <3>3 DEF PlugInFollows, Users
    <2> QED  BY <2>1, <2>2
  <1>4. CASE QueryRemote
    <2>1. CASE pnp.port = p
      BY <1>0, <1>4, <2>1 DEF QueryRemote, Decide, PlugInFollows
    <2>2. CASE pnp.port # p
      BY <1>0, <1>4, <2>2 DEF QueryRemote, Decide, PlugInFollows, Users
    <2> QED  BY <2>1, <2>2
  <1>5. CASE HideOrShow
    <2>1. /\ pnp.at = "apply" /\ pnp'.at = "complete" /\ pnp'.port = pnp.port
          /\ UNCHANGED <<isOpen, invalid, at, port>>
          /\ shown'[p] = IF pnp.port = p THEN ~pnp.hide ELSE shown[p]
      BY <1>0, <1>5 DEF HideOrShow, Inv, TypeOK
    <2> QED  BY <1>0, <2>1 DEF PlugInFollows, Users
  <1>6. CASE QueryEnd
    <2>1. /\ pnp.at = "complete" /\ pnp.port \in Port /\ pnp'.port = NoPort
          /\ UNCHANGED <<isOpen, shown, invalid>>
      BY <1>6 DEF QueryEnd, Inv, TypeOK
    <2>2. \A v \in User : at[v] # "pending" => at'[v] = at[v] /\ port'[v] = port[v]
      BY <1>6, <2>1, CloseMoves DEF QueryEnd
    <2> QED  BY <1>0, <2>1, <2>2 DEF PlugInFollows, Users
  <1>7. CASE UNCHANGED vars
    BY <1>7 DEF vars, PlugInFollows, Users
  <1> QED  BY <1>1, <1>2, <1>3, <1>4, <1>5, <1>6, <1>7 DEF Next, PnpStep

\* A port in exclusive mode is shown again behind its CLOSE.
LEMMA ExclusiveStep ==
  ASSUME Inv, [Next]_vars, NEW p \in Exclusive \ PlugIn, ShownAgain(p)
  PROVE  ShownAgain(p)'
  <1>0. /\ p \in Port /\ NoPort \notin Port
        /\ pnp.port = NoPort <=> pnp.at = "idle"
        /\ isOpen \in [Port -> BOOLEAN] /\ shown \in [Port -> BOOLEAN]
        /\ pnp.hide \in BOOLEAN /\ pnp.at \in {"idle", "remote", "apply", "complete"}
    BY PairAssumption DEF Inv, TypeOK
  <1>1. ASSUME NEW u \in User,
               (\E q \in Port : CountIn(u, q)) \/ Opening(u) \/ MarkClosed(u) \/ Closing(u)
        PROVE  ShownAgain(p)'
    <2>1. /\ UNCHANGED <<shown, pnp>> /\ (invalid[p] => invalid'[p])
          /\ \A v \in User \ {u} : at'[v] = at[v] /\ port'[v] = port[v]
          /\ isOpen'[p] # isOpen[p] =>
               /\ port'[u] = p
               /\ \/ isOpen'[p]
                  \/ at'[u] = "closing"
          /\ at[u] = "closing" => port'[u] = port[u] /\ at'[u] = "told"
          /\ at[u] = "told" => port'[u] = port[u] /\ at'[u] = "cleared"
          /\ at[u] = "cleared" /\ port[u] = p => invalid'[p]
      BY <1>0, <1>1, UserMoves
    <2>2. CASE isOpen'[p] # isOpen[p]
      BY <2>1, <2>2 DEF ShownAgain, Users
    <2>3. CASE isOpen'[p] = isOpen[p]
      <3>1. CASE Users(p, {"closing", "told", "cleared"}) = {}
        BY <2>1, <2>3, <3>1 DEF ShownAgain
      <3>2. CASE Users(p, {"closing", "told", "cleared"}) # {}
        <4>1. PICK v \in User : port[v] = p /\ at[v] \in {"closing", "told", "cleared"}
          BY <3>2 DEF Users
        <4>2. CASE v # u
          BY <2>1, <4>1, <4>2 DEF ShownAgain, Users
        <4>3. CASE v = u
          BY <2>1, <4>1, <4>3 DEF ShownAgain, Users
        <4> QED  BY <4>2, <4>3
      <3> QED  BY <3>1, <3>2
    <2> QED  BY <2>2, <2>3
  <1>2. ASSUME NEW q \in Port, TimerFires(q) \/ CloseTimeout(q)
        PROVE  ShownAgain(p)'
    <2>1. UNCHANGED <<shown, pnp, invalid, isOpen>>
      BY <1>2 DEF TimerFires, CloseTimeout
    <2>2. \A v \in User : at[v] # "pending" => at'[v] = at[v] /\ port'[v] = port[v]
      BY <1>2, CloseMoves DEF TimerFires, CloseTimeout
    <2> QED  BY <2>1, <2>2 DEF ShownAgain, Users
  <1>3. ASSUME NEW q \in Port, Query(q)
        PROVE  ShownAgain(p)'
    <2>1. CASE q = p
      <3>1. CASE isOpen[p]
        BY <1>3, <3>1 DEF Query, ShownAgain
      <3>2. CASE ~isOpen[p]
        <4>1. pnp' = [at |-> "remote", port |-> p, hide |-> FALSE]
          BY <1>3, <2>1, <3>2 DEF Query
        <4>2. pnp'.port = p /\ pnp'.at = "remote" /\ ~pnp'.hide
          BY <4>1
        <4> QED  BY <4>2 DEF ShownAgain
      <3> QED  BY <3>1, <3>2
    <2>2. CASE q # p
      <3>1. pnp.port = NoPort /\ UNCHANGED <<isOpen, shown, at, port>>
        BY <1>0, <1>3 DEF Query
      <3>2. invalid'[p] = invalid[p]
        BY <1>0, <1>3, <2>2 DEF Query, Inv, TypeOK
      <3>3. pnp'.port = q
        <4>1. pnp' \in {[at |-> "apply", port |-> q, hide |-> TRUE],
                        [at |-> "remote", port |-> q, hide |-> FALSE]}
          BY <1>3 DEF Query, Decide
        <4> QED  BY <4>1
      <3> QED  BY <1>0, <2>2, <3>1, <3>2, <3>3 DEF ShownAgain, Users
    <2> QED  BY <2>1, <2>2
  <1>4. CASE QueryRemote
    <2>1. CASE pnp.port = p
      BY <1>0, <1>4, <2>1 DEF QueryRemote, Decide, ShownAgain
    <2>2. CASE pnp.port # p
      BY <1>0, <1>4, <2>2 DEF QueryRemote, Decide, ShownAgain, Users
    <2> QED  BY <2>1, <2>2
  <1>5. CASE HideOrShow
    <2>1. /\ pnp.at = "apply" /\ pnp'.at = "complete" /\ pnp'.port = pnp.port
          /\ UNCHANGED <<isOpen, invalid, at, port>>
          /\ shown'[p] = IF pnp.port = p THEN ~pnp.hide ELSE shown[p]
      BY <1>0, <1>5 DEF HideOrShow, Inv, TypeOK
    <2> QED  BY <1>0, <2>1 DEF ShownAgain, Users
  <1>6. CASE QueryEnd
    <2>1. /\ pnp.at = "complete" /\ pnp.port \in Port /\ pnp'.port = NoPort
          /\ UNCHANGED <<isOpen, shown, invalid>>
      BY <1>6 DEF QueryEnd, Inv, TypeOK
    <2>2. \A v \in User : at[v] # "pending" => at'[v] = at[v] /\ port'[v] = port[v]
      BY <1>6, <2>1, CloseMoves DEF QueryEnd
    <2> QED  BY <1>0, <2>1, <2>2 DEF ShownAgain, Users
  <1>7. CASE UNCHANGED vars
    BY <1>7 DEF vars, ShownAgain, Users
  <1> QED  BY <1>1, <1>2, <1>3, <1>4, <1>5, <1>6, <1>7 DEF Next, PnpStep

\* When nothing is left to do, every port is shown or hidden as its modes ask: no
\* interleaving of opens, closes and queries of device relations leaves a port behind.
THEOREM PortsSettle == Spec => []SettlesRight
  <1>1. Init => Settling
    <2> SUFFICES ASSUME Init PROVE Settling
      OBVIOUS
    <2>1. \A p \in PlugIn \ Exclusive : PlugInFollows(p)
      BY PairAssumption DEF Init, PlugInFollows
    <2>2. \A p \in Exclusive \ PlugIn : ShownAgain(p)
      BY PairAssumption DEF Init, ShownAgain
    <2> QED  BY <2>1, <2>2 DEF Settling
  <1>2. Inv /\ Settling /\ [Next]_vars => Settling'
    BY PlugInStep, ExclusiveStep DEF Settling
  <1>3. Inv /\ Settling => SettlesRight
    <2> SUFFICES ASSUME Inv, Settling, Quiet, NEW p \in Port
                 PROVE  /\ p \in PlugIn \ Exclusive => (shown[p] <=> isOpen[Remote[p]])
                        /\ p \in Exclusive \ PlugIn /\ ~isOpen[p] => shown[p]
      BY DEF SettlesRight
    <2>1. pnp.port = NoPort /\ pnp.port # p /\ ~invalid[p]
      BY PairAssumption DEF Quiet, Inv, TypeOK
    <2>2. \A q \in Port, S \in SUBSET Places : "idle" \notin S /\ "held" \notin S => Users(q, S) = {}
      BY DEF Quiet, Users
    <2>3. /\ Users(Remote[p], {"opened", "closing"}) = {}
          /\ Users(p, {"closing", "told", "cleared"}) = {}
      BY <2>2, PairAssumption DEF Places, Session, Leaving
    <2>4. ASSUME p \in PlugIn \ Exclusive
          PROVE  shown[p] <=> isOpen[Remote[p]]
      <3>1. PlugInFollows(p)
        BY <2>4 DEF Settling
      <3> QED  BY <2>1, <2>3, <3>1 DEF PlugInFollows
    <2>5. ASSUME p \in Exclusive \ PlugIn, ~isOpen[p]
          PROVE  shown[p]
      <3>1. ShownAgain(p)
        BY <2>5 DEF Settling
      <3> QED  BY <2>1, <2>3, <2>5, <3>1 DEF ShownAgain
    <2> QED  BY <2>4, <2>5
  <1>4. Init => Inv
    BY InvInit
  <1>5. Inv /\ [Next]_vars => Inv'
    BY InvStep
  <1> QED  BY <1>1, <1>2, <1>3, <1>4, <1>5, PTL DEF Spec

=============================================================================
