--------------------------- MODULE HandFlow_proofs ---------------------------
(***************************************************************************)
(* Theorems about HandFlow, for every wiring of the inputs, all settings   *)
(* and all sizes.                                                          *)
(***************************************************************************)
EXTENDS HandFlow, FiniteSetTheorems, SequenceTheorems, TLAPS

Pairs == [Ports -> PortStates]

\* P and Q agree on everything that the modem lines depend on.
SameLines(P, Q) ==
  \A q \in Ports : /\ Q[q].hand = P[q].hand
                   /\ Q[q].mcr = P[q].mcr
                   /\ Q[q].status = P[q].status
                   /\ Q[q].holding \ {"XON"} = P[q].holding \ {"XON"}

\* HoldingFollows, of one port and its parts.
StatusRight(P, p) == P[p].status = {i \in Inputs : Level(P, p, i)}
HoldingRight(P, p) == P[p].holding \ {"XON"} = P[p].hand.out \ P[p].status
Follows(P) == \A p \in Ports : StatusRight(P, p) /\ HoldingRight(P, p)

\* A pair whose lines are right.
Good(P) == P \in Pairs /\ Follows(P)

-----------------------------------------------------------------------------
(* Modem lines *)

\* The other port is another one, and its other is this one.
LEMMA TheOther == \A p \in Ports : Other(p) \in Ports /\ Other(p) # p /\ Other(Other(p)) = p
BY DEF Ports, Other

\* There are no more than two ports.
LEMMA Two == \A p, q \in Ports : q = p \/ q = Other(p)
BY DEF Ports, Other

\* Every input gets its level from a port of the pair.
LEMMA FromPort == \A p \in Ports, i \in Inputs : From(p, i) \in Ports
BY TheOther DEF From

\* What does not touch the lines leaves them right.
LEMMA LinesKept ==
  ASSUME NEW P, NEW Q, Good(P), Q \in Pairs, SameLines(P, Q)
  PROVE  Good(Q)
  <1>1. \A p \in Ports, i \in Inputs : Level(Q, p, i) = Level(P, p, i)
    BY FromPort DEF SameLines, Level
  <1>2. \A p \in Ports : StatusRight(Q, p)
    BY <1>1 DEF Good, Follows, StatusRight, SameLines
  <1>3. \A p \in Ports : HoldingRight(Q, p)
    BY DEF Good, Follows, HoldingRight, SameLines
  <1> QED BY <1>2, <1>3 DEF Good, Follows

\* SetModemStatusHolding puts holding in order and touches nothing else but
\* tryWrite.
LEMMA ModemStatusHolding ==
  ASSUME NEW P \in Pairs, NEW p \in Ports
  PROVE  LET Q == SetModemStatusHolding(P, p) IN
         /\ Q \in Pairs
         /\ HoldingRight(Q, p)
         /\ \A q \in Ports : /\ q # p => Q[q] = P[q]
                             /\ Q[q].hand = P[q].hand
                             /\ Q[q].mcr = P[q].mcr
                             /\ Q[q].status = P[q].status
  <1> DEFINE old == P[p].holding
             new == (old \cap {"XON"}) \cup (P[p].hand.out \ P[p].status)
             try == /\ new \subseteq {"XON"} /\ ~(old \subseteq {"XON"})
                    /\ P[p].x # "none" \/ (new = {} /\ Current(P, p))
             b == P[p].try \/ try
             Q == [P EXCEPT ![p].holding = new, ![p].try = b]
  <1>1. new \in SUBSET Reasons
    BY DEF Pairs, PortStates, HandFlows, Reasons
  <1>2. try \in BOOLEAN
    OBVIOUS
  <1>3. b \in BOOLEAN
    OBVIOUS
  <1>4. Q \in Pairs
    <2> HIDE DEF new, b
    <2>1. P[p] \in PortStates
      BY DEF Pairs
    <2>2. [P[p] EXCEPT !.holding = new, !.try = b] \in PortStates
      BY <1>1, <1>3, <2>1 DEF PortStates
    <2> QED BY <2>2 DEF Pairs
  <1>5. new \ {"XON"} = P[p].hand.out \ P[p].status
    BY DEF Pairs, PortStates, HandFlows, Inputs
  <1>6. Q[p].holding = new /\ Q[p].hand = P[p].hand /\ Q[p].status = P[p].status
    <2> HIDE DEF new, b
    <2> QED BY DEF Pairs, PortStates
  <1>7. \A q \in Ports : /\ q # p => Q[q] = P[q]
                         /\ Q[q].hand = P[q].hand
                         /\ Q[q].mcr = P[q].mcr
                         /\ Q[q].status = P[q].status
    <2> HIDE DEF new, b
    <2> QED BY DEF Pairs, PortStates
  <1> QED BY <1>4, <1>5, <1>6, <1>7 DEF SetModemStatusHolding, HoldingRight

\* SetModemStatus gives the inputs in mask their levels and keeps holding right.
LEMMA ModemStatus ==
  ASSUME NEW P \in Pairs, NEW p \in Ports, NEW bits, NEW mask, mask \subseteq Inputs
  PROVE  LET Q == SetModemStatus(P, p, bits, mask) IN
         /\ Q \in Pairs
         /\ Q[p].status = (P[p].status \ mask) \cup (bits \cap mask)
         /\ HoldingRight(P, p) => HoldingRight(Q, p)
         /\ \A q \in Ports : /\ q # p => Q[q] = P[q]
                             /\ Q[q].hand = P[q].hand
                             /\ Q[q].mcr = P[q].mcr
  <1> DEFINE new == (P[p].status \ mask) \cup (bits \cap mask)
             S == [P EXCEPT ![p].status = new]
             Q == SetModemStatusHolding(S, p)
  <1>1. CASE new = P[p].status
    BY <1>1 DEF SetModemStatus
  <1>2. CASE new # P[p].status
    <2>1. new \in SUBSET Inputs
      BY DEF Pairs, PortStates
    <2> HIDE DEF new
    <2>2. S \in Pairs
      <3>1. P[p] \in PortStates
        BY DEF Pairs
      <3>2. [P[p] EXCEPT !.status = new] \in PortStates
        BY <2>1, <3>1 DEF PortStates
      <3> QED BY <3>2 DEF Pairs
    <2>3. /\ S[p].status = new
          /\ \A q \in Ports : /\ q # p => S[q] = P[q]
                              /\ S[q].hand = P[q].hand
                              /\ S[q].mcr = P[q].mcr
      BY DEF Pairs, PortStates
    <2> HIDE DEF S
    <2>4. /\ Q \in Pairs
          /\ HoldingRight(Q, p)
          /\ \A q \in Ports : /\ q # p => Q[q] = S[q]
                              /\ Q[q].hand = S[q].hand
                              /\ Q[q].mcr = S[q].mcr
                              /\ Q[q].status = S[q].status
      BY <2>2, ModemStatusHolding
    <2>5. SetModemStatus(P, p, bits, mask) = Q
      BY <1>2 DEF SetModemStatus, new, S
    <2> HIDE DEF Q
    <2>6. Q[p].status = new
      BY <2>3, <2>4
    <2> QED BY <2>3, <2>4, <2>5, <2>6 DEF new
  <1> QED BY <1>1, <1>2

\* Where inputs get their levels when pins of p change.
LEMMA LevelsChange ==
  ASSUME NEW P \in Pairs, NEW Q \in Pairs, NEW p \in Ports, NEW q \in Ports, NEW changed,
         \A s \in Ports : s # p => Q[s] = P[s],
         \A pin : pin \notin changed => (pin \in Q[p].mcr <=> pin \in P[p].mcr),
         StatusRight(P, q)
  PROVE  (P[q].status \ Driven(p, q, changed)) \cup (High(Q, p, q) \cap Driven(p, q, changed))
           = {i \in Inputs : Level(Q, q, i)}
  <1> DEFINE mask == Driven(p, q, changed)
  <1>2. ASSUME NEW i \in Inputs, i \notin mask
        PROVE  Level(Q, q, i) <=> Level(P, q, i)
    <2>1. CASE From(q, i) # p
      BY <2>1, FromPort DEF Level
    <2>2. CASE From(q, i) = p
      <3>1. Wiring[q][i].pin \notin changed
        BY <1>2, <2>2 DEF Driven
      <3> QED BY <2>2, <3>1 DEF Level
    <2> QED BY <2>1, <2>2
  <1>3. ASSUME NEW i \in mask
        PROVE  i \in Inputs /\ (i \in High(Q, p, q) <=> Level(Q, q, i))
    BY DEF Driven, High
  <1> HIDE DEF mask
  <1>4. P[q].status = {i \in Inputs : Level(P, q, i)}
    BY DEF StatusRight
  <1>5. (P[q].status \ mask) \cup (High(Q, p, q) \cap mask)
          = {i \in Inputs : Level(Q, q, i)}
    BY <1>2, <1>3, <1>4
  <1> QED BY <1>5 DEF mask

\* SetModemControl leaves both ports with the statuses that the pins give them,
\* and both held by the lines they honour.
LEMMA ModemControl ==
  ASSUME NEW P, Good(P), NEW p \in Ports, NEW bits, NEW mask, mask \subseteq Pins
  PROVE  Good(SetModemControl(P, p, bits, mask))
  <1> DEFINE o == Other(p)
             new == (P[p].mcr \ mask) \cup (bits \cap mask)
             changed == (new \ P[p].mcr) \cup (P[p].mcr \ new)
             Q == [P EXCEPT ![p].mcr = new]
             R == SetModemStatus(Q, o, High(Q, p, o), Driven(p, o, changed))
             T == SetModemStatus(R, p, High(R, p, p), Driven(p, p, changed))
  <1>1. P \in Pairs /\ o \in Ports /\ o # p
    BY TheOther DEF Good
  <1>2. new \in SUBSET Pins
    BY <1>1 DEF Pairs, PortStates
  <1>3. \A q \in Ports : Driven(p, q, changed) \subseteq Inputs
    BY DEF Driven
  <1>7. \A pin : pin \notin changed => (pin \in new <=> pin \in P[p].mcr)
    OBVIOUS
  <1> HIDE DEF changed, new
  <1>4. Q \in Pairs
    <2>1. P[p] \in PortStates
      BY <1>1 DEF Pairs
    <2>2. [P[p] EXCEPT !.mcr = new] \in PortStates
      BY <1>2, <2>1 DEF PortStates
    <2> QED BY <1>1, <2>2 DEF Pairs
  <1>5. \A q \in Ports : Q[q].hand = P[q].hand /\ Q[q].status = P[q].status
                         /\ Q[q].holding = P[q].holding
    BY <1>1 DEF Pairs, PortStates
  <1>6. \A q \in Ports : HoldingRight(Q, q)
    BY <1>5 DEF Good, Follows, HoldingRight
  <1>8. Q[p].mcr = new /\ \A s \in Ports : s # p => Q[s] = P[s]
    BY <1>1 DEF Pairs, PortStates
  <1> HIDE DEF Q
  <1>9. \A q \in Ports :
          (P[q].status \ Driven(p, q, changed)) \cup (High(Q, p, q) \cap Driven(p, q, changed))
            = {i \in Inputs : Level(Q, q, i)}
    <2> TAKE q \in Ports
    <2>1. StatusRight(P, q)
      BY DEF Good, Follows
    <2> QED BY <1>1, <1>4, <1>7, <1>8, <2>1, LevelsChange
  <1>10. /\ R \in Pairs
        /\ R[o].status = (Q[o].status \ Driven(p, o, changed))
                           \cup (High(Q, p, o) \cap Driven(p, o, changed))
        /\ HoldingRight(R, o)
        /\ \A q \in Ports : /\ q # o => R[q] = Q[q]
                            /\ R[q].hand = Q[q].hand
                            /\ R[q].mcr = Q[q].mcr
    BY <1>1, <1>3, <1>4, <1>6, ModemStatus
  <1> HIDE DEF R
  <1>11. HoldingRight(R, p)
    BY <1>1, <1>6, <1>10 DEF HoldingRight
  <1>12. /\ T \in Pairs
         /\ T[p].status = (R[p].status \ Driven(p, p, changed))
                            \cup (High(R, p, p) \cap Driven(p, p, changed))
         /\ HoldingRight(T, p)
         /\ \A q \in Ports : /\ q # p => T[q] = R[q]
                             /\ T[q].hand = R[q].hand
                             /\ T[q].mcr = R[q].mcr
    BY <1>3, <1>10, <1>11, ModemStatus
  <1> HIDE DEF T
  <1>13. \A s, q \in Ports, i \in Inputs : /\ Level(R, q, i) = Level(Q, q, i)
                                           /\ Level(T, q, i) = Level(Q, q, i)
    BY <1>10, <1>12, FromPort DEF Level
  <1>14. High(R, p, p) = High(Q, p, p)
    BY <1>13 DEF High
  <1>15. StatusRight(T, p)
    <2>1. R[p].status = P[p].status
      BY <1>1, <1>5, <1>10
    <2>2. T[p].status = {i \in Inputs : Level(Q, p, i)}
      BY <1>9, <1>12, <1>14, <2>1
    <2> QED BY <1>13, <2>2 DEF StatusRight
  <1>16. StatusRight(T, o)
    <2>1. T[o].status = {i \in Inputs : Level(Q, o, i)}
      BY <1>1, <1>9, <1>5, <1>10, <1>12
    <2> QED BY <1>1, <1>13, <2>1 DEF StatusRight
  <1>17. HoldingRight(T, o)
    BY <1>1, <1>10, <1>12 DEF HoldingRight
  <1>18. Good(T)
    BY <1>12, <1>15, <1>16, <1>17, Two DEF Good, Follows
  <1> QED BY <1>18 DEF SetModemControl, T, R, Q, changed, new

-----------------------------------------------------------------------------
(* Stopping and releasing the peer *)

\* XON and XOFF leave the lines alone, and ask for a pass of that port only.
LEMMA XonXoffHolding ==
  ASSUME NEW P, Good(P), NEW p \in Ports, NEW c
  PROVE  LET Q == SetXonXoffHolding(P, p, c) IN
         Good(Q) /\ \A q \in Ports : q # p => Q[q] = P[q]
  <1>1. P \in Pairs /\ P[p] \in PortStates
    BY DEF Good, Pairs
  <1>2. CASE c = "on" /\ "XON" \in P[p].holding
    <2> DEFINE held == P[p].holding \ {"XON"}
               b == P[p].try \/ (P[p].holding = {"XON"} /\ Current(P, p))
               Q == [P EXCEPT ![p].holding = held, ![p].try = b]
    <2>1. held \in SUBSET Reasons /\ b \in BOOLEAN /\ held \ {"XON"} = P[p].holding \ {"XON"}
      BY <1>1 DEF PortStates
    <2> HIDE DEF held, b
    <2>2. [P[p] EXCEPT !.holding = held, !.try = b] \in PortStates
      BY <1>1, <2>1 DEF PortStates
    <2>3. Q \in Pairs
      BY <1>1, <2>2 DEF Pairs
    <2>4. SameLines(P, Q)
      BY <1>1, <2>1 DEF SameLines, Pairs, PortStates
    <2>5. \A q \in Ports : q # p => Q[q] = P[q]
      BY <1>1 DEF Pairs
    <2>6. SetXonXoffHolding(P, p, c) = Q
      BY <1>2 DEF SetXonXoffHolding, held, b
    <2> HIDE DEF Q
    <2> QED BY <2>3, <2>4, <2>5, <2>6, LinesKept
  <1>3. CASE c = "off"
    <2> DEFINE held == P[p].holding \cup {"XON"}
               Q == [P EXCEPT ![p].holding = held]
    <2>1. held \in SUBSET Reasons /\ held \ {"XON"} = P[p].holding \ {"XON"}
      BY <1>1 DEF PortStates, Reasons
    <2> HIDE DEF held
    <2>2. [P[p] EXCEPT !.holding = held] \in PortStates
      BY <1>1, <2>1 DEF PortStates
    <2>3. Q \in Pairs
      BY <1>1, <2>2 DEF Pairs
    <2>4. SameLines(P, Q)
      BY <1>1, <2>1 DEF SameLines, Pairs, PortStates
    <2>5. \A q \in Ports : q # p => Q[q] = P[q]
      BY <1>1 DEF Pairs
    <2>6. SetXonXoffHolding(P, p, c) = Q
      BY <1>3 DEF SetXonXoffHolding, held
    <2> HIDE DEF Q
    <2> QED BY <2>3, <2>4, <2>5, <2>6, LinesKept
  <1>4. CASE ~(c = "on" /\ "XON" \in P[p].holding) /\ c # "off"
    BY <1>4 DEF SetXonXoffHolding
  <1> QED BY <1>2, <1>3, <1>4

\* RTS and DTR are pins.
LEMMA SomePins == \A ways : PinsOf(ways) \subseteq Pins
BY DEF PinsOf, Pins

\* A port stops its peer in at most three ways.
LEMMA SomeWays == \A h : Ways(h) \subseteq {"CTS", "DSR", "XON"}
BY DEF Ways

\* Telling the peer and asking for a pass leave the lines alone.
LEMMA ToldKeeps ==
  ASSUME NEW P, Good(P), NEW p \in Ports, NEW told, told \subseteq {"CTS", "DSR", "XON"}
  PROVE  Good([P EXCEPT ![p].told = told])
  <1> DEFINE Q == [P EXCEPT ![p].told = told]
  <1>1. P \in Pairs /\ P[p] \in PortStates
    BY DEF Good, Pairs
  <1>2. [P[p] EXCEPT !.told = told] \in PortStates
    BY <1>1 DEF PortStates
  <1>3. Q \in Pairs
    BY <1>1, <1>2 DEF Pairs
  <1>4. SameLines(P, Q)
    BY <1>1 DEF SameLines, Pairs, PortStates
  <1> QED BY <1>3, <1>4, LinesKept

\* An XOFF to be sent stops its port by XON only, no line.
LEMMA XoffKeeps ==
  ASSUME NEW P, Good(P), NEW p \in Ports, NEW h
  PROVE  Good(SendXoff(P, p, h))
  <1> DEFINE told == P[p].told \cup {"XON"}
             held == IF h.cont THEN P[p].holding ELSE P[p].holding \cup {"XON"}
             Q == [P EXCEPT ![p].told = told, ![p].x = "off", ![p].try = TRUE,
                            ![p].holding = held]
  <1>1. P \in Pairs /\ P[p] \in PortStates
    BY DEF Good, Pairs
  <1>2. /\ told \in SUBSET {"CTS", "DSR", "XON"}
        /\ held \in SUBSET Reasons
        /\ held \ {"XON"} = P[p].holding \ {"XON"}
    BY <1>1 DEF PortStates, Reasons
  <1> HIDE DEF told, held
  <1>3. [P[p] EXCEPT !.told = told, !.x = "off", !.try = TRUE, !.holding = held] \in PortStates
    BY <1>1, <1>2 DEF PortStates
  <1>4. Q \in Pairs
    BY <1>1, <1>3 DEF Pairs
  <1>5. SameLines(P, Q)
    BY <1>1, <1>2 DEF SameLines, Pairs, PortStates
  <1>6. SendXoff(P, p, h) = Q
    BY DEF SendXoff, told, held
  <1> HIDE DEF Q
  <1> QED BY <1>4, <1>5, <1>6, LinesKept

\* Stop leaves the lines of both ports right.
LEMMA StopKeeps ==
  ASSUME NEW P, Good(P), NEW p \in Ports
  PROVE  Good(Stop(P, p))
  <1> DEFINE h == P[p].hand
             told == P[p].told \cup (Ways(h) \ {"XON"})
             Q == [P EXCEPT ![p].told = told]
             R == IF h.autoRx THEN SendXoff(Q, p, h) ELSE Q
  <1>1. told \subseteq {"CTS", "DSR", "XON"}
    BY SomeWays DEF Good, Pairs, PortStates
  <1> HIDE DEF told, h
  <1>2. Good(Q)
    BY <1>1, ToldKeeps
  <1> HIDE DEF Q
  <1>3. Good(R)
    BY <1>2, XoffKeeps
  <1> HIDE DEF R
  <1>4. Good(SetModemControl(R, p, {}, PinsOf(Ways(h))))
    BY <1>3, SomePins, ModemControl
  <1> QED BY <1>4 DEF Stop, R, Q, told, h

\* To send an XON and to go on oneself leaves the lines alone.
LEMMA XonKeeps ==
  ASSUME NEW P, Good(P), NEW p \in Ports
  PROVE  Good([P EXCEPT ![p].holding = @ \ {"XON"}, ![p].x = "on", ![p].try = TRUE])
  <1> DEFINE held == P[p].holding \ {"XON"}
             Q == [P EXCEPT ![p].holding = held, ![p].x = "on", ![p].try = TRUE]
  <1>1. P \in Pairs /\ P[p] \in PortStates
    BY DEF Good, Pairs
  <1>2. held \in SUBSET Reasons /\ held \ {"XON"} = P[p].holding \ {"XON"}
    BY <1>1 DEF PortStates
  <1> HIDE DEF held
  <1>3. [P[p] EXCEPT !.holding = held, !.x = "on", !.try = TRUE] \in PortStates
    BY <1>1, <1>2 DEF PortStates
  <1>4. Q \in Pairs
    BY <1>1, <1>3 DEF Pairs
  <1>5. SameLines(P, Q)
    BY <1>1, <1>2 DEF SameLines, Pairs, PortStates
  <1>6. Good(Q)
    BY <1>4, <1>5, LinesKept
  <1> QED BY <1>6 DEF held

\* Release leaves the lines of both ports right.
LEMMA ReleaseKeeps ==
  ASSUME NEW P, Good(P), NEW p \in Ports
  PROVE  Good(Release(P, p))
  <1> DEFINE h == P[p].hand
             told == P[p].told \ Ways(h)
             Q == [P EXCEPT ![p].told = told]
             R == IF h.autoRx
                  THEN [Q EXCEPT ![p].holding = @ \ {"XON"}, ![p].x = "on", ![p].try = TRUE]
                  ELSE Q
  <1>1. told \subseteq {"CTS", "DSR", "XON"}
    BY DEF Good, Pairs, PortStates
  <1> HIDE DEF told, h
  <1>2. Good(Q)
    BY <1>1, ToldKeeps
  <1> HIDE DEF Q
  <1>3. Good(R)
    BY <1>2, XonKeeps
  <1> HIDE DEF R
  <1>4. Good(SetModemControl(R, p, PinsOf(Ways(h)), PinsOf(Ways(h))))
    BY <1>3, SomePins, ModemControl
  <1> QED BY <1>4 DEF Release, R, Q, told, h

\* UpdateHandFlow leaves the lines right, whichever it does.
LEMMA HandFlowKeeps ==
  ASSUME NEW P, Good(P), NEW p \in Ports, NEW freed
  PROVE  Good(UpdateHandFlow(P, p, freed))
  <1>1. CASE P[p].told = {} /\ ~freed /\ Full(P, p, P[p].hand)
    BY <1>1, StopKeeps DEF UpdateHandFlow
  <1>2. CASE P[p].told # {} /\ freed /\ Low(P, p, P[p].hand)
    BY <1>2, ReleaseKeeps DEF UpdateHandFlow
  <1>3. CASE /\ ~(P[p].told = {} /\ ~freed /\ Full(P, p, P[p].hand))
             /\ ~(P[p].told # {} /\ freed /\ Low(P, p, P[p].hand))
    BY <1>3 DEF UpdateHandFlow
  <1> QED BY <1>1, <1>2, <1>3

\* UpdateTransmitToggle leaves the lines right.
LEMMA ToggleKeeps ==
  ASSUME NEW P, Good(P), NEW p \in Ports
  PROVE  Good(UpdateTransmitToggle(P, p))
  <1>1. {"RTS"} \subseteq Pins
    BY DEF Pins
  <1>2. \A bits : Good(SetModemControl(P, p, bits, {"RTS"}))
    BY <1>1, ModemControl
  <1> QED BY <1>2 DEF UpdateTransmitToggle

-----------------------------------------------------------------------------
(* SET_HANDFLOW *)

\* The limit is at least one and at most the size of the buffer.
LEMMA LimitInRange ==
  ASSUME NEW P \in Pairs, NEW p \in Ports
  PROVE  LimitOf(P, p) \in 1 .. Size
  <1>1. P[p].hand.xoff \in 0 .. Size
    BY DEF Pairs, PortStates, HandFlows
  <1>2. Size \in Nat \ {0}
    BY SizesAssumption
  <1>3. Least(Size, Size - P[p].hand.xoff + 1) \in 1 .. Size /\ Size \in 1 .. Size
    BY <1>1, <1>2 DEF Least
  <1> QED BY <1>3 DEF LimitOf

\* SetLimit leaves the lines right.
LEMMA LimitKeeps ==
  ASSUME NEW P, Good(P), NEW p \in Ports
  PROVE  Good(SetLimit(P, p))
  <1> DEFINE limit == LimitOf(P, p)
             Q == [P EXCEPT ![p].limit = limit]
  <1>1. P \in Pairs /\ P[p] \in PortStates
    BY DEF Good, Pairs
  <1>2. limit \in 1 .. Size
    BY <1>1, LimitInRange
  <1> HIDE DEF limit
  <1>3. [P[p] EXCEPT !.limit = limit] \in PortStates
    BY <1>1, <1>2 DEF PortStates
  <1>4. Q \in Pairs
    BY <1>1, <1>3 DEF Pairs
  <1>5. SameLines(P, Q)
    BY <1>1 DEF SameLines, Pairs, PortStates
  <1>6. Good(Q)
    BY <1>4, <1>5, LinesKept
  <1> QED BY <1>6 DEF SetLimit, limit

\* A new value of AUTO_RECEIVE leaves the lines right.
LEMMA AutoReceiveKeeps ==
  ASSUME NEW P, Good(P), NEW p \in Ports, NEW h
  PROVE  Good(ChangeAutoReceive(P, p, h))
  <1>1. P \in Pairs /\ P[p] \in PortStates
    BY DEF Good, Pairs
  <1>2. CASE h.autoRx /\ Full(P, p, h)
    BY <1>2, XoffKeeps DEF ChangeAutoReceive
  <1>3. CASE ~h.autoRx /\ "XON" \in P[p].told
    <2> DEFINE told == P[p].told \ {"XON"}
               held == P[p].holding \ {"XON"}
               x == IF P[p].x = "off" THEN "none" ELSE "on"
               b == P[p].try \/ P[p].x # "off"
               Q == [P EXCEPT ![p].told = told, ![p].holding = held, ![p].x = x,
                              ![p].try = b]
    <2>1. /\ told \in SUBSET {"CTS", "DSR", "XON"}
          /\ held \in SUBSET Reasons
          /\ x \in {"none", "on", "off"} /\ b \in BOOLEAN
          /\ held \ {"XON"} = P[p].holding \ {"XON"}
      BY <1>1 DEF PortStates
    <2> HIDE DEF told, held, x, b
    <2>2. [P[p] EXCEPT !.told = told, !.holding = held, !.x = x, !.try = b] \in PortStates
      BY <1>1, <2>1 DEF PortStates
    <2>3. Q \in Pairs
      BY <1>1, <2>2 DEF Pairs
    <2>4. SameLines(P, Q)
      BY <1>1, <2>1 DEF SameLines, Pairs, PortStates
    <2>5. ChangeAutoReceive(P, p, h) = Q
      BY <1>3 DEF ChangeAutoReceive, told, held, x, b
    <2> HIDE DEF Q
    <2> QED BY <2>3, <2>4, <2>5, LinesKept
  <1>4. CASE ~(h.autoRx /\ Full(P, p, h)) /\ ~(~h.autoRx /\ "XON" \in P[p].told)
    BY <1>4 DEF ChangeAutoReceive
  <1> QED BY <1>2, <1>3, <1>4

\* Told stays among the three ways.
LEMMA ToldInRange ==
  ASSUME NEW P, Good(P), NEW p \in Ports, NEW h, NEW w \in {"CTS", "DSR"}, NEW mode
  PROVE  Told(P, p, h, w, mode) \subseteq {"CTS", "DSR", "XON"}
  <1>1. P[p].told \subseteq {"CTS", "DSR", "XON"}
    BY DEF Good, Pairs, PortStates
  <1> QED BY <1>1 DEF Told

\* New settings keep the lines right, as holding is worked out again when other
\* inputs are honoured.
LEMMA SettingsKeep ==
  ASSUME NEW P, Good(P), NEW p \in Ports, NEW h \in HandFlows
  PROVE  LET Q == [P EXCEPT ![p].hand = h] IN
         Good(IF P[p].hand.out # h.out THEN SetModemStatusHolding(Q, p) ELSE Q)
  <1> DEFINE Q == [P EXCEPT ![p].hand = h]
             R == SetModemStatusHolding(Q, p)
  <1>1. P \in Pairs /\ P[p] \in PortStates
    BY DEF Good, Pairs
  <1>2. [P[p] EXCEPT !.hand = h] \in PortStates
    BY <1>1 DEF PortStates
  <1>3. Q \in Pairs
    BY <1>1, <1>2 DEF Pairs
  <1>4. /\ Q[p].hand = h
        /\ \A q \in Ports : /\ q # p => Q[q] = P[q]
                            /\ Q[q].mcr = P[q].mcr /\ Q[q].status = P[q].status
                            /\ Q[q].holding = P[q].holding
    BY <1>1 DEF Pairs, PortStates
  <1> HIDE DEF Q
  <1>5. \A q \in Ports, i \in Inputs : Level(Q, q, i) = Level(P, q, i)
    BY <1>4, FromPort DEF Level
  <1>6. \A q \in Ports : StatusRight(Q, q)
    BY <1>4, <1>5 DEF Good, Follows, StatusRight
  <1>7. \A q \in Ports : q # p => HoldingRight(Q, q)
    BY <1>4 DEF Good, Follows, HoldingRight
  <1>8. CASE P[p].hand.out = h.out
    <2>1. HoldingRight(Q, p)
      BY <1>4, <1>8 DEF Good, Follows, HoldingRight
    <2>2. Good(Q)
      BY <1>3, <1>6, <1>7, <2>1 DEF Good, Follows
    <2> QED BY <1>8, <2>2 DEF Q
  <1>9. CASE P[p].hand.out # h.out
    <2>1. /\ R \in Pairs
          /\ HoldingRight(R, p)
          /\ \A q \in Ports : /\ q # p => R[q] = Q[q]
                              /\ R[q].hand = Q[q].hand
                              /\ R[q].mcr = Q[q].mcr
                              /\ R[q].status = Q[q].status
      BY <1>3, ModemStatusHolding
    <2> HIDE DEF R
    <2>2. \A q \in Ports, i \in Inputs : Level(R, q, i) = Level(Q, q, i)
      BY <2>1, FromPort DEF Level
    <2>3. \A q \in Ports : StatusRight(R, q)
      BY <1>6, <2>1, <2>2 DEF StatusRight
    <2>4. \A q \in Ports : HoldingRight(R, q)
      BY <1>7, <2>1 DEF HoldingRight
    <2>5. Good(R)
      BY <2>1, <2>3, <2>4 DEF Good, Follows
    <2> QED BY <1>9, <2>5 DEF R, Q
  <1> QED BY <1>8, <1>9

\* SET_HANDFLOW leaves the lines right: the settings come before the pins they
\* move, and the limits after.
LEMMA NewHandKeeps ==
  ASSUME NEW P, Good(P), NEW p \in Ports, NEW h \in HandFlows
  PROVE  Good(NewHand(P, p, h))
  <1> DEFINE old == P[p].hand
             rts == old.rts # h.rts
             dtr == old.dtr # h.dtr
             P1 == IF old.autoTx /\ ~h.autoTx THEN SetXonXoffHolding(P, p, "on") ELSE P
             P2 == IF rts THEN [P1 EXCEPT ![p].told = Told(P1, p, h, "CTS", h.rts)] ELSE P1
             P3 == IF dtr THEN [P2 EXCEPT ![p].told = Told(P2, p, h, "DSR", h.dtr)] ELSE P2
             P4 == IF old.autoRx # h.autoRx THEN ChangeAutoReceive(P3, p, h) ELSE P3
             P5 == [P4 EXCEPT ![p].hand = h]
             P6 == IF old.out # h.out THEN SetModemStatusHolding(P5, p) ELSE P5
             bits == {pin \in {"RTS", "DTR"} :
                        \/ pin = "RTS" /\ rts /\ Raised(P, p, h, "CTS", h.rts)
                        \/ pin = "DTR" /\ dtr /\ Raised(P, p, h, "DSR", h.dtr)}
             mask == bits \cup {pin \in {"RTS", "DTR"} :
                                  \/ pin = "RTS" /\ rts /\ Lowered(P, p, h, h.rts)
                                  \/ pin = "DTR" /\ dtr /\ Lowered(P, p, h, h.dtr)}
             P7 == SetModemControl(P6, p, bits, mask)
  <1>1. mask \subseteq Pins
    BY DEF Pins
  <1> HIDE DEF mask, bits
  <1>2. Good(P1) /\ P1[p].hand = old
    <2>1. CASE old.autoTx /\ ~h.autoTx
      <3>1. Good(P1)
        BY <2>1, XonXoffHolding
      <3>2. P1[p].hand = old
        BY <2>1 DEF SetXonXoffHolding, Good, Pairs, PortStates
      <3> QED BY <3>1, <3>2
    <2> QED BY <2>1
  <1> HIDE DEF P1
  <1>3. Good(P2) /\ P2[p].hand = old
    <2>1. CASE rts
      <3> DEFINE told == Told(P1, p, h, "CTS", h.rts)
      <3>1. told \subseteq {"CTS", "DSR", "XON"}
        BY <1>2, ToldInRange
      <3> HIDE DEF told
      <3>2. Good([P1 EXCEPT ![p].told = told])
        BY <1>2, <3>1, ToldKeeps
      <3>3. [P1 EXCEPT ![p].told = told][p].hand = old
        BY <1>2 DEF Good, Pairs, PortStates
      <3> QED BY <2>1, <3>2, <3>3 DEF told
    <2> QED BY <1>2, <2>1
  <1> HIDE DEF P2
  <1>4. Good(P3) /\ P3[p].hand = old
    <2>1. CASE dtr
      <3> DEFINE told == Told(P2, p, h, "DSR", h.dtr)
      <3>1. told \subseteq {"CTS", "DSR", "XON"}
        BY <1>3, ToldInRange
      <3> HIDE DEF told
      <3>2. Good([P2 EXCEPT ![p].told = told])
        BY <1>3, <3>1, ToldKeeps
      <3>3. [P2 EXCEPT ![p].told = told][p].hand = old
        BY <1>3 DEF Good, Pairs, PortStates
      <3> QED BY <2>1, <3>2, <3>3 DEF told
    <2> QED BY <1>3, <2>1
  <1> HIDE DEF P3
  <1>5. Good(P4) /\ P4[p].hand = old
    <2>1. Good(ChangeAutoReceive(P3, p, h))
      BY <1>4, AutoReceiveKeeps
    <2>2. ChangeAutoReceive(P3, p, h)[p].hand = old
      BY <1>4 DEF ChangeAutoReceive, SendXoff, Good, Pairs, PortStates
    <2> QED BY <1>4, <2>1, <2>2
  <1> HIDE DEF P4
  <1>6. Good(P6)
    BY <1>5, SettingsKeep
  <1> HIDE DEF P6
  <1>7. Good(P7)
    BY <1>1, <1>6, ModemControl
  <1> HIDE DEF P7
  <1>8. Good(SetLimit(SetLimit(UpdateTransmitToggle(P7, p), Other(p)), p))
    BY <1>7, ToggleKeeps, LimitKeeps, TheOther
  <1> QED BY <1>8 DEF NewHand, P7, mask, bits, P6, P4, P3, P2, P1

-----------------------------------------------------------------------------
(* The TX buffer, and what of it moves *)

\* The values of txBuf, as sequences.
LEMMA TxIsSeq ==
  \A s : s \in TxBuffers <=> s \in Seq(Characters) /\ Len(s) <= TxSize
  <1>1. TxSize \in Nat
    BY SizesAssumption
  <1>2. ASSUME NEW s \in TxBuffers PROVE s \in Seq(Characters) /\ Len(s) <= TxSize
    <2>1. PICK n \in 0 .. TxSize : s \in [1 .. n -> Characters]
      BY DEF TxBuffers
    <2>2. n \in Nat
      BY <1>1
    <2>3. s \in Seq(Characters)
      BY <2>1, <2>2, SeqDef
    <2>4. Len(s) = n
      BY <2>1, <2>2, <2>3, LenProperties
    <2> QED BY <1>1, <2>3, <2>4
  <1>3. ASSUME NEW s \in Seq(Characters), Len(s) <= TxSize PROVE s \in TxBuffers
    <2>1. Len(s) \in 0 .. TxSize /\ s \in [1 .. Len(s) -> Characters]
      BY <1>1, <1>3, LenProperties
    <2> QED BY <2>1 DEF TxBuffers
  <1> QED BY <1>2, <1>3

\* What is left of txBuf fits it.
LEMMA DropKeeps ==
  ASSUME NEW s \in TxBuffers, NEW n \in 0 .. Len(s)
  PROVE  Drop(s, n) \in TxBuffers
  <1>1. s \in Seq(Characters) /\ Len(s) <= TxSize /\ Len(s) \in Nat /\ TxSize \in Nat
    BY TxIsSeq, LenProperties, SizesAssumption
  <1>2. \A i \in n + 1 .. Len(s) : s[i] \in Characters
    BY <1>1, ElementOfSeq
  <1>3. n + 1 \in Int /\ Len(s) \in Int
    BY <1>1
  <1>4. /\ SubSeq(s, n + 1, Len(s)) \in Seq(Characters)
        /\ Len(SubSeq(s, n + 1, Len(s))) = IF n + 1 <= Len(s) THEN Len(s) - (n + 1) + 1 ELSE 0
    BY <1>2, <1>3, SubSeqProperties
  <1>5. Len(SubSeq(s, n + 1, Len(s))) <= TxSize
    BY <1>1, <1>4
  <1> QED BY <1>4, <1>5, TxIsSeq DEF Drop

\* KeptAmong counts: at most all of them, and the longer the more.
LEMMA KeptCounts ==
  ASSUME NEW P, NEW r, NEW s, NEW n \in Nat
  PROVE  /\ KeptAmong(P, r, s, n) \in Nat
         /\ KeptAmong(P, r, s, n) <= n
         /\ KeptAmong(P, r, s, n + 1) <= KeptAmong(P, r, s, n) + 1
         /\ KeptAmong(P, r, s, n) <= KeptAmong(P, r, s, n + 1)
         /\ KeptAmong(P, r, s, 0) = 0
  <1> DEFINE K(m) == {k \in 1 .. m : Kept(P, r, s[k])}
  <1>1. \A m \in Nat : /\ IsFiniteSet(K(m)) /\ Cardinality(K(m)) \in Nat
                       /\ Cardinality(K(m)) <= m
    <2> TAKE m \in Nat
    <2>1. IsFiniteSet(1 .. m) /\ Cardinality(1 .. m) = m
      BY FS_Interval
    <2>2. K(m) \in SUBSET (1 .. m)
      OBVIOUS
    <2> QED BY <2>1, <2>2, FS_Subset, FS_CardinalityType
  <1>2. K(n + 1) \in SUBSET (K(n) \cup {n + 1}) /\ K(n) \in SUBSET K(n + 1)
    OBVIOUS
  <1>3. IsFiniteSet(K(n) \cup {n + 1}) /\ Cardinality(K(n) \cup {n + 1}) <= Cardinality(K(n)) + 1
    BY <1>1, FS_AddElement
  <1>4. Cardinality(K(n + 1)) <= Cardinality(K(n) \cup {n + 1})
    BY <1>2, <1>3, FS_Subset
  <1>5. n + 1 \in Nat /\ 0 \in Nat
    OBVIOUS
  <1>6. Cardinality(K(n)) <= Cardinality(K(n + 1))
    BY <1>1, <1>2, <1>5, FS_Subset
  <1>7. \A m : KeptAmong(P, r, s, m) = Cardinality(K(m))
    BY DEF KeptAmong
  <1>8. /\ Cardinality(K(n)) \in Nat /\ Cardinality(K(n)) <= n
        /\ Cardinality(K(n + 1)) \in Nat
        /\ Cardinality(K(0)) \in Nat /\ Cardinality(K(0)) <= 0
    BY <1>1, <1>5
  <1>9. Cardinality(K(n + 1)) <= Cardinality(K(n)) + 1
    <2> HIDE DEF K
    <2>1. Cardinality(K(n) \cup {n + 1}) \in Nat
      BY <1>3, FS_CardinalityType
    <2> QED BY <1>3, <1>4, <1>8, <2>1
  <1> HIDE DEF K
  <1> QED BY <1>6, <1>7, <1>8, <1>9

\* KeptAmong grows with the prefix.
LEMMA KeptGrows ==
  ASSUME NEW P, NEW r, NEW s, NEW m \in Nat, NEW n \in Nat, m <= n
  PROVE  KeptAmong(P, r, s, m) <= KeptAmong(P, r, s, n)
  <1> DEFINE K(j) == {k \in 1 .. j : Kept(P, r, s[k])}
  <1>1. IsFiniteSet(1 .. n)
    BY FS_Interval
  <1>2. K(n) \in SUBSET (1 .. n) /\ K(m) \in SUBSET K(n)
    OBVIOUS
  <1>3. Cardinality(K(m)) <= Cardinality(K(n))
    BY <1>1, <1>2, FS_Subset
  <1> QED BY <1>3 DEF KeptAmong

\* What Moved takes away fits where it goes.
LEMMA MovedFits ==
  ASSUME NEW P, NEW r, NEW s \in TxBuffers, NEW room \in Nat
  PROVE  /\ Moved(P, r, s, room) \in 0 .. Len(s)
         /\ KeptAmong(P, r, s, Moved(P, r, s, room)) \in 0 .. room
  <1> DEFINE M == {k \in 1 .. Len(s) : KeptAmong(P, r, s, k - 1) < room}
             n == Cardinality(M)
  <1>1. Len(s) \in Nat
    BY TxIsSeq, LenProperties
  <1>2. IsFiniteSet(1 .. Len(s)) /\ Cardinality(1 .. Len(s)) = Len(s)
    <2> DEFINE len == Len(s)
    <2>1. len \in Int /\ ~(1 > len) => len - 1 + 1 = len
      BY <1>1
    <2>2. len \in Int /\ (1 > len => len = 0)
      BY <1>1
    <2> HIDE DEF len
    <2>3. IsFiniteSet(1 .. len) /\ Cardinality(1 .. len) = IF 1 > len THEN 0 ELSE len - 1 + 1
      BY <2>2, FS_Interval
    <2> QED BY <2>1, <2>2, <2>3 DEF len
  <1>3. M \in SUBSET (1 .. Len(s))
    OBVIOUS
  <1>4. n \in Nat /\ n <= Len(s)
    BY <1>2, <1>3, FS_Subset, FS_CardinalityType
  <1>5. CASE n = 0
    BY <1>4, <1>5, <1>1, KeptCounts DEF Moved
  <1>6. CASE n # 0
    <2>1. n \in 1 .. Len(s) /\ n - 1 \in Nat
      BY <1>1, <1>4, <1>6
    <2> HIDE DEF n
    <2>2. KeptAmong(P, r, s, n - 1) < room
      <3> SUFFICES ASSUME ~(KeptAmong(P, r, s, n - 1) < room) PROVE FALSE
        OBVIOUS
      <3>1. KeptAmong(P, r, s, n - 1) \in Nat /\ room <= KeptAmong(P, r, s, n - 1)
        BY <2>1, KeptCounts
      <3>2. ASSUME NEW k \in M PROVE k \in 1 .. n - 1
        <4>1. k \in Nat /\ k - 1 \in Nat /\ k >= 1 /\ KeptAmong(P, r, s, k - 1) < room
          BY <1>1
        <4>2. KeptAmong(P, r, s, k - 1) \in Nat
          BY <4>1, KeptCounts
        <4>3. ~(n - 1 <= k - 1)
          BY <2>1, <3>1, <4>1, <4>2, KeptGrows
        <4> QED BY <2>1, <4>1, <4>3
      <3>3. M \in SUBSET (1 .. n - 1)
        BY <3>2
      <3>4. IsFiniteSet(1 .. n - 1) /\ Cardinality(1 .. n - 1) = n - 1
        BY <2>1, FS_Interval
      <3>5. Cardinality(M) <= n - 1
        BY <3>3, <3>4, FS_Subset
      <3> QED BY <1>4, <3>5 DEF n
    <2>3. n - 1 + 1 = n
      BY <1>4
    <2>4. /\ KeptAmong(P, r, s, n - 1) \in Nat
          /\ KeptAmong(P, r, s, n) \in Nat
          /\ KeptAmong(P, r, s, n) <= KeptAmong(P, r, s, n - 1) + 1
      BY <1>4, <2>1, <2>3, KeptCounts
    <2>5. KeptAmong(P, r, s, n) \in 0 .. room
      BY <2>2, <2>4
    <2> QED BY <2>1, <2>5 DEF Moved, n
  <1> QED BY <1>5, <1>6

-----------------------------------------------------------------------------
(* A pass *)

\* The lines do not depend on the rest of the READ, ...
LEMMA WantedKeeps ==
  ASSUME NEW P, Good(P), NEW p \in Ports, NEW n \in Nat
  PROVE  Good([P EXCEPT ![p].wanted = n])
  <1>1. P \in Pairs /\ P[p] \in PortStates
    BY DEF Good, Pairs
  <1>2. [P[p] EXCEPT !.wanted = n] \in PortStates
    BY <1>1 DEF PortStates
  <1>3. [P EXCEPT ![p].wanted = n] \in Pairs
    BY <1>1, <1>2 DEF Pairs
  <1>4. SameLines(P, [P EXCEPT ![p].wanted = n])
    BY <1>1 DEF SameLines, Pairs, PortStates
  <1> QED BY <1>3, <1>4, LinesKept

\* ... nor on what is in the buffer, ...
LEMMA BusyKeeps ==
  ASSUME NEW P, Good(P), NEW p \in Ports, NEW n \in 0 .. Size
  PROVE  Good([P EXCEPT ![p].busy = n])
  <1>1. P \in Pairs /\ P[p] \in PortStates
    BY DEF Good, Pairs
  <1>2. [P[p] EXCEPT !.busy = n] \in PortStates
    BY <1>1 DEF PortStates
  <1>3. [P EXCEPT ![p].busy = n] \in Pairs
    BY <1>1, <1>2 DEF Pairs
  <1>4. SameLines(P, [P EXCEPT ![p].busy = n])
    BY <1>1 DEF SameLines, Pairs, PortStates
  <1> QED BY <1>3, <1>4, LinesKept

\* ... on the rest of the WRITE, ...
LEMMA SendKeeps ==
  ASSUME NEW P, Good(P), NEW p \in Ports, NEW n \in Nat
  PROVE  Good([P EXCEPT ![p].toSend = n])
  <1>1. P \in Pairs /\ P[p] \in PortStates
    BY DEF Good, Pairs
  <1>2. [P[p] EXCEPT !.toSend = n] \in PortStates
    BY <1>1 DEF PortStates
  <1>3. [P EXCEPT ![p].toSend = n] \in Pairs
    BY <1>1, <1>2 DEF Pairs
  <1>4. SameLines(P, [P EXCEPT ![p].toSend = n])
    BY <1>1 DEF SameLines, Pairs, PortStates
  <1> QED BY <1>3, <1>4, LinesKept

\* ... on what is in the transmitter, ...
LEMMA TxKeeps ==
  ASSUME NEW P, Good(P), NEW p \in Ports, NEW n \in TxBuffers
  PROVE  Good([P EXCEPT ![p].tx = n])
  <1>1. P \in Pairs /\ P[p] \in PortStates
    BY DEF Good, Pairs
  <1>2. [P[p] EXCEPT !.tx = n] \in PortStates
    BY <1>1 DEF PortStates
  <1>3. [P EXCEPT ![p].tx = n] \in Pairs
    BY <1>1, <1>2 DEF Pairs
  <1>4. SameLines(P, [P EXCEPT ![p].tx = n])
    BY <1>1 DEF SameLines, Pairs, PortStates
  <1> QED BY <1>3, <1>4, LinesKept

\* ... on the character to send ...
LEMMA XKeeps ==
  ASSUME NEW P, Good(P), NEW p \in Ports, NEW n \in {"none", "on", "off"}
  PROVE  Good([P EXCEPT ![p].x = n])
  <1>1. P \in Pairs /\ P[p] \in PortStates
    BY DEF Good, Pairs
  <1>2. [P[p] EXCEPT !.x = n] \in PortStates
    BY <1>1 DEF PortStates
  <1>3. [P EXCEPT ![p].x = n] \in Pairs
    BY <1>1, <1>2 DEF Pairs
  <1>4. SameLines(P, [P EXCEPT ![p].x = n])
    BY <1>1 DEF SameLines, Pairs, PortStates
  <1> QED BY <1>3, <1>4, LinesKept

\* ... and on the request for a pass.
LEMMA TryKeeps ==
  ASSUME NEW P, Good(P), NEW p \in Ports, NEW n \in BOOLEAN
  PROVE  Good([P EXCEPT ![p].try = n])
  <1>1. P \in Pairs /\ P[p] \in PortStates
    BY DEF Good, Pairs
  <1>2. [P[p] EXCEPT !.try = n] \in PortStates
    BY <1>1 DEF PortStates
  <1>3. [P EXCEPT ![p].try = n] \in Pairs
    BY <1>1, <1>2 DEF Pairs
  <1>4. SameLines(P, [P EXCEPT ![p].try = n])
    BY <1>1 DEF SameLines, Pairs, PortStates
  <1> QED BY <1>3, <1>4, LinesKept

\* A control character that is heard leaves the lines right.
LEMMA HearKeeps ==
  ASSUME NEW P, Good(P), NEW r \in Ports, NEW s, NEW n
  PROVE  Good(Hear(P, r, s, n))
  <1> DEFINE control == {k \in 1 .. n : ~Kept(P, r, s[k])}
  <1>1. \A c : Good(SetXonXoffHolding(P, r, c))
    BY XonXoffHolding
  <1>2. CASE control = {}
    BY <1>2 DEF Hear
  <1>3. CASE control # {}
    <2>1. Hear(P, r, s, n) = SetXonXoffHolding(P, r,
                               s[CHOOSE k \in control : \A j \in control : j <= k])
      BY <1>3 DEF Hear
    <2> QED BY <1>1, <2>1
  <1> QED BY <1>2, <1>3

\* The types that the arithmetic of a pass needs.
LEMMA CountTypes ==
  ASSUME NEW P, Good(P), NEW p \in Ports
  PROVE  /\ P[p].wanted \in Nat /\ P[p].busy \in 0 .. Size /\ P[p].toSend \in Nat
         /\ P[p].tx \in TxBuffers /\ P[p].limit \in 1 .. Size
         /\ P[p].x \in {"none", "on", "off"} /\ Size \in Nat
BY SizesAssumption DEF Good, Pairs, PortStates

\* Room is what the buffer can take.
LEMMA RoomFits ==
  ASSUME NEW P, Good(P), NEW r \in Ports
  PROVE  /\ Room(P, r) \in Nat
         /\ \A n \in 0 .. Room(P, r) : P[r].busy + n \in 0 .. Size
BY CountTypes DEF Room

\* Each part of a pass keeps the lines right and the counts in range.
LEMMA RingToReadKeeps ==
  ASSUME NEW P, Good(P), NEW r \in Ports
  PROVE  Good(RingToRead(P, r))
  <1> DEFINE n == Least(P[r].wanted, P[r].busy)
             Q == [P EXCEPT ![r].wanted = P[r].wanted - n]
             T == [Q EXCEPT ![r].busy = Q[r].busy - n]
  <1>1. P[r].wanted - n \in Nat /\ P[r].busy - n \in 0 .. Size
    BY CountTypes DEF Least
  <1> HIDE DEF n
  <1>2. Good(Q)
    BY <1>1, WantedKeeps
  <1>3. Q[r].busy = P[r].busy
    BY DEF Good, Pairs, PortStates
  <1> HIDE DEF Q
  <1>4. Good(T)
    BY <1>1, <1>2, <1>3, BusyKeeps
  <1>5. RingToRead(P, r) = T
    BY DEF RingToRead, Q, n
  <1> QED BY <1>4, <1>5

\* Of what a READ takes from the transmitter no more is left than it wants.
LEMMA TakenFits ==
  ASSUME NEW P, NEW r, NEW s \in TxBuffers, NEW room \in Nat, NEW piece \in Nat
  PROVE  /\ Taken(P, r, s, room, piece) \in 0 .. Len(s)
         /\ KeptAmong(P, r, s, Taken(P, r, s, room, piece)) \in 0 .. room
  <1> DEFINE n == Moved(P, r, s, room)
             t == Taken(P, r, s, room, piece)
  <1>1. n \in 0 .. Len(s) /\ KeptAmong(P, r, s, n) \in 0 .. room
    BY MovedFits
  <1>2. t = n \/ (t = piece /\ piece <= n /\ KeptAmong(P, r, s, piece) = 0)
    BY DEF Taken, Least
  <1>3. Len(s) \in Nat
    BY TxIsSeq, LenProperties
  <1> HIDE DEF n, t
  <1>4. CASE t = n
    BY <1>1, <1>4 DEF t
  <1>5. CASE t = piece /\ piece <= n /\ KeptAmong(P, r, s, piece) = 0
    <2>1. t \in 0 .. Len(s) /\ KeptAmong(P, r, s, t) \in 0 .. room
      BY <1>1, <1>3, <1>5
    <2> QED BY <2>1 DEF t
  <1> QED BY <1>2, <1>4, <1>5

\* From the transmitter to the READ: no more than it wants.
LEMMA TxToReadKeeps ==
  ASSUME NEW P, Good(P), NEW r \in Ports, NEW w \in Ports, r # w,
         NEW piece \in Nat
  PROVE  Good(TxToRead(P, r, w, piece))
  <1> DEFINE n == Taken(P, r, P[w].tx, P[r].wanted, piece)
             kept == KeptAmong(P, r, P[w].tx, n)
             Q == [P EXCEPT ![r].wanted = P[r].wanted - kept]
             T == [Q EXCEPT ![w].tx = Drop(Q[w].tx, n)]
  <1>1. n \in 0 .. Len(P[w].tx) /\ kept \in 0 .. P[r].wanted
    BY CountTypes, TakenFits
  <1> HIDE DEF n, kept
  <1>2. P[r].wanted - kept \in Nat
    BY <1>1, CountTypes
  <1>3. Good(Q)
    BY <1>2, WantedKeeps
  <1>4. Q[w].tx = P[w].tx
    BY DEF Good, Pairs, PortStates
  <1> HIDE DEF Q
  <1>5. Drop(Q[w].tx, n) \in TxBuffers
    BY <1>1, <1>3, <1>4, CountTypes, DropKeeps
  <1>6. Good(T)
    BY <1>3, <1>5, TxKeeps
  <1>7. TxToRead(P, r, w, piece) = Hear(T, r, P[w].tx, n)
    BY DEF TxToRead, Q, n, kept
  <1> HIDE DEF T
  <1> QED BY <1>6, <1>7, HearKeeps

\* From the transmitter to the buffer: no more than it has room for.
LEMMA TxToRingKeeps ==
  ASSUME NEW P, Good(P), NEW r \in Ports, NEW w \in Ports, r # w
  PROVE  Good(TxToRing(P, r, w))
  <1> DEFINE n == Moved(P, r, P[w].tx, Room(P, r))
             kept == KeptAmong(P, r, P[w].tx, n)
             Q == [P EXCEPT ![r].busy = P[r].busy + kept]
             T == [Q EXCEPT ![w].tx = Drop(Q[w].tx, n)]
  <1>1. n \in 0 .. Len(P[w].tx) /\ kept \in 0 .. Room(P, r)
    BY CountTypes, RoomFits, MovedFits
  <1> HIDE DEF n, kept
  <1>2. P[r].busy + kept \in 0 .. Size
    BY <1>1, RoomFits
  <1>3. Good(Q)
    BY <1>2, BusyKeeps
  <1>4. Q[w].tx = P[w].tx
    BY DEF Good, Pairs, PortStates
  <1> HIDE DEF Q
  <1>5. Drop(Q[w].tx, n) \in TxBuffers
    BY <1>1, <1>3, <1>4, CountTypes, DropKeeps
  <1>6. Good(T)
    BY <1>3, <1>5, TxKeeps
  <1>7. CASE P[r].wanted > 0
    BY <1>7 DEF TxToRing
  <1>8. CASE ~(P[r].wanted > 0)
    <2>1. TxToRing(P, r, w) = Hear(T, r, P[w].tx, n)
      BY <1>8 DEF TxToRing, Q, n, kept
    <2> HIDE DEF T
    <2> QED BY <1>6, <2>1, HearKeeps
  <1> QED BY <1>7, <1>8

\* The XON or XOFF straight to the READ.
LEMMA XDirectKeeps ==
  ASSUME NEW P, Good(P), NEW r \in Ports, NEW w \in Ports, r # w
  PROVE  Good(XDirect(P, r, w))
  <1> DEFINE n == KeptAmong(P, r, <<P[w].x>>, 1)
             Q == [P EXCEPT ![r].wanted = P[r].wanted - n]
             T == [Q EXCEPT ![w].x = "none"]
  <1>1. n \in Nat /\ n <= 1
    BY KeptCounts
  <1> HIDE DEF n
  <1>2. CASE P[r].wanted > 0 /\ CanSendX(P, w)
    <2>1. P[r].wanted - n \in Nat
      BY <1>1, <1>2, CountTypes
    <2>2. Good(Q)
      BY <2>1, WantedKeeps
    <2> HIDE DEF Q
    <2>3. Good(T)
      BY <2>2, XKeeps
    <2>4. XDirect(P, r, w) = Hear(T, r, <<P[w].x>>, 1)
      BY <1>2 DEF XDirect, Q, n
    <2> HIDE DEF T
    <2> QED BY <2>3, <2>4, HearKeeps
  <1>3. CASE ~(P[r].wanted > 0 /\ CanSendX(P, w))
    BY <1>3 DEF XDirect
  <1> QED BY <1>2, <1>3

\* The WRITE straight to the READ.
LEMMA DataDirectKeeps ==
  ASSUME NEW P, Good(P), NEW r \in Ports, NEW w \in Ports, r # w
  PROVE  Good(DataDirect(P, r, w))
  <1> DEFINE n == Least(P[r].wanted, P[w].toSend)
             Q == [P EXCEPT ![r].wanted = P[r].wanted - n]
             T == [Q EXCEPT ![w].toSend = Q[w].toSend - n]
  <1>1. P[r].wanted - n \in Nat /\ P[w].toSend - n \in Nat
    BY CountTypes DEF Least
  <1> HIDE DEF n
  <1>2. Good(Q)
    BY <1>1, WantedKeeps
  <1>3. Q[w].toSend = P[w].toSend
    BY DEF Good, Pairs, PortStates
  <1> HIDE DEF Q
  <1>4. Good(T)
    BY <1>1, <1>2, <1>3, SendKeeps
  <1>5. DataDirect(P, r, w) = IF CanSendData(P, w) THEN T ELSE P
    BY DEF DataDirect, Q, n
  <1> QED BY <1>4, <1>5

\* WriteToTxBuffer never writes beyond the end.
LEMMA TxRoomFits ==
  ASSUME NEW P, Good(P), NEW w \in Ports
  PROVE  RoomInTx(P, w) \in Nat /\ Len(P[w].tx) + RoomInTx(P, w) <= TxSize
  <1>1. Len(P[w].tx) \in Nat /\ Len(P[w].tx) <= TxSize
    BY CountTypes, TxIsSeq, LenProperties
  <1>2. TxSize \in Nat /\ TxSize > 1
    BY SizesAssumption
  <1> DEFINE len == Len(P[w].tx)
  <1>3. RoomInTx(P, w) = IF len <= 1 THEN Least(TxSize - 1, TxSize - len) ELSE 0
    BY DEF RoomInTx
  <1> HIDE DEF len
  <1>4. len \in Nat /\ len <= TxSize
    BY <1>1 DEF len
  <1>5. CASE len <= 1
    BY <1>2, <1>3, <1>4, <1>5 DEF Least, len
  <1>6. CASE ~(len <= 1)
    BY <1>2, <1>3, <1>4, <1>6 DEF len
  <1> QED BY <1>5, <1>6

\* The XON or XOFF to the buffer, or to the transmitter.
LEMMA XToBuffersKeeps ==
  ASSUME NEW P, Good(P), NEW r \in Ports, NEW w \in Ports, r # w
  PROVE  Good(XToBuffers(P, r, w))
  <1>1. CASE ~CanSendX(P, w) \/ (Room(P, r) = 0 /\ ~(RoomInTx(P, w) > 0))
    BY <1>1, RoomFits DEF XToBuffers
  <1>2. CASE CanSendX(P, w) /\ Room(P, r) > 0
    <2> DEFINE n == KeptAmong(P, r, <<P[w].x>>, 1)
               Q == [P EXCEPT ![r].busy = P[r].busy + n]
               T == [Q EXCEPT ![w].x = "none"]
    <2>1. n \in 0 .. Room(P, r)
      BY <1>2, KeptCounts, RoomFits
    <2> HIDE DEF n
    <2>2. P[r].busy + n \in 0 .. Size
      BY <2>1, RoomFits
    <2>3. Good(Q)
      BY <2>2, BusyKeeps
    <2> HIDE DEF Q
    <2>4. Good(T)
      BY <2>3, XKeeps
    <2>5. XToBuffers(P, r, w) = Hear(T, r, <<P[w].x>>, 1)
      BY <1>2 DEF XToBuffers, Q, n
    <2> HIDE DEF T
    <2> QED BY <2>4, <2>5, HearKeeps
  <1>3. CASE CanSendX(P, w) /\ Room(P, r) = 0 /\ RoomInTx(P, w) > 0
    <2> DEFINE tx == Append(P[w].tx, P[w].x)
               Q == [P EXCEPT ![w].tx = tx]
               T == [Q EXCEPT ![w].x = "none"]
    <2>1. /\ P[w].tx \in Seq(Characters) /\ Len(P[w].tx) \in Nat
          /\ P[w].x \in Characters
      BY <1>3, CountTypes, TxIsSeq, LenProperties DEF CanSendX, Characters
    <2>2. tx \in Seq(Characters) /\ Len(tx) = Len(P[w].tx) + 1
      BY <2>1, AppendProperties
    <2>3. Len(tx) <= TxSize
      BY <1>3, <2>1, <2>2, TxRoomFits, SizesAssumption
    <2>4. tx \in TxBuffers
      BY <2>2, <2>3, TxIsSeq
    <2> HIDE DEF tx
    <2>5. Good(Q)
      BY <2>4, TxKeeps
    <2> HIDE DEF Q
    <2>6. Good(T)
      BY <2>5, XKeeps
    <2>7. XToBuffers(P, r, w) = T
      BY <1>3 DEF XToBuffers, Q, tx
    <2> QED BY <2>6, <2>7
  <1> QED BY <1>1, <1>2, <1>3, RoomFits

\* The WRITE to the buffer, and what that has no room for to the transmitter.
LEMMA DataToBuffersKeeps ==
  ASSUME NEW P, Good(P), NEW r \in Ports, NEW w \in Ports, r # w
  PROVE  Good(DataToBuffers(P, r, w))
  <1> DEFINE n == Least(P[w].toSend, Room(P, r))
             m == Least(P[w].toSend - n, RoomInTx(P, w))
             data == [k \in 1 .. m |-> "data"]
             Q == [P EXCEPT ![r].busy = P[r].busy + n]
             S == [Q EXCEPT ![w].tx = Q[w].tx \o data]
             T == [S EXCEPT ![w].toSend = S[w].toSend - n - m]
  <1>1. /\ n \in 0 .. Room(P, r) /\ m \in Nat /\ m <= RoomInTx(P, w)
        /\ P[w].toSend - n - m \in Nat
    BY CountTypes, RoomFits, TxRoomFits DEF Least
  <1> HIDE DEF n, m
  <1>2. P[r].busy + n \in 0 .. Size
    BY <1>1, RoomFits
  <1>3. data \in Seq(Characters) /\ Len(data) = m
    <2>1. data \in [1 .. m -> Characters]
      BY DEF Characters
    <2>2. data \in Seq(Characters)
      BY <1>1, <2>1, SeqDef
    <2> HIDE DEF data
    <2> QED BY <1>1, <2>1, <2>2, LenProperties
  <1> HIDE DEF data
  <1>4. P[w].tx \o data \in TxBuffers
    <2>1. P[w].tx \in Seq(Characters) /\ Len(P[w].tx) \in Nat
      BY CountTypes, TxIsSeq, LenProperties
    <2>2. P[w].tx \o data \in Seq(Characters) /\ Len(P[w].tx \o data) = Len(P[w].tx) + m
      BY <1>3, <2>1, ConcatProperties
    <2>3. Len(P[w].tx) + m <= TxSize
      BY <1>1, <2>1, TxRoomFits, SizesAssumption
    <2> QED BY <2>2, <2>3, TxIsSeq
  <1>5. Good(Q)
    BY <1>2, BusyKeeps
  <1>6. Q[w].tx = P[w].tx /\ Q[w].toSend = P[w].toSend
    BY DEF Good, Pairs, PortStates
  <1> HIDE DEF Q
  <1>7. Good(S) /\ S[w].toSend = P[w].toSend
    <2>1. Good(S)
      BY <1>4, <1>5, <1>6, TxKeeps
    <2>2. S[w].toSend = Q[w].toSend
      BY <1>5 DEF Good, Pairs, PortStates
    <2> QED BY <1>6, <2>1, <2>2
  <1> HIDE DEF S
  <1>8. Good(T)
    BY <1>1, <1>7, SendKeeps
  <1>9. DataToBuffers(P, r, w) = IF CanSendData(P, w) THEN T ELSE P
    BY DEF DataToBuffers, S, Q, data, m, n
  <1> QED BY <1>8, <1>9

\* A whole pass.
LEMMA TryReadWriteKeeps ==
  ASSUME NEW P, Good(P), NEW r \in Ports, NEW w \in Ports, r # w,
         NEW piece \in Nat
  PROVE  Good(TryReadWrite(P, r, w, piece))
  <1> DEFINE Q == TxToRing(TxToRead(RingToRead(P, r), r, w, piece), r, w)
             R == DataDirect(XDirect(Q, r, w), r, w)
             S == DataToBuffers(XToBuffers(R, r, w), r, w)
             T == CASE P[r].busy > S[r].busy -> UpdateHandFlow(S, r, TRUE)
                    [] P[r].busy < S[r].busy -> UpdateHandFlow(S, r, FALSE)
                    [] OTHER -> S
  <1>1. Good(Q)
    BY RingToReadKeeps, TxToReadKeeps, TxToRingKeeps
  <1> HIDE DEF Q
  <1>2. Good(R)
    BY <1>1, XDirectKeeps, DataDirectKeeps
  <1> HIDE DEF R
  <1>3. Good(S)
    BY <1>2, XToBuffersKeeps, DataToBuffersKeeps
  <1> HIDE DEF S
  <1>4. Good(T)
    <2>1. Good(UpdateHandFlow(S, r, TRUE)) /\ Good(UpdateHandFlow(S, r, FALSE))
      BY <1>3, HandFlowKeeps
    <2>2. T = UpdateHandFlow(S, r, TRUE) \/ T = UpdateHandFlow(S, r, FALSE) \/ T = S
      <3>1. CASE P[r].busy > S[r].busy
        <4>1. ~(P[r].busy < S[r].busy)
          BY <1>3, <3>1, CountTypes
        <4> QED BY <3>1, <4>1
      <3>2. CASE ~(P[r].busy > S[r].busy) /\ P[r].busy < S[r].busy
        BY <3>2
      <3>3. CASE ~(P[r].busy > S[r].busy) /\ ~(P[r].busy < S[r].busy)
        BY <3>3
      <3> QED BY <3>1, <3>2, <3>3
    <2> HIDE DEF T
    <2> QED BY <1>3, <2>1, <2>2
  <1> HIDE DEF T
  <1>5. Good(UpdateTransmitToggle(T, w))
    BY <1>4, ToggleKeeps
  <1> QED BY <1>5 DEF TryReadWrite, T, S, R, Q

-----------------------------------------------------------------------------
(* Every step *)

\* Good is the types of the ports and HoldingFollows.
LEMMA TypeAndLines ==
  port \in Pairs /\ HoldingFollows <=> Good(port)
BY DEF HoldingFollows, Good, Follows, StatusRight, HoldingRight

\* What TypeOK, HoldingFollows and NoWakeUpLeft say together.
Inv ==
  /\ Good(port)
  /\ pass \in Ports \cup {Nobody}
  /\ calls \in 0 .. MaxCalls /\ turns \in Nat
  /\ paused \subseteq Ports
  /\ NoWakeUpLeft

\* Inv is the conjunction that the theorem is about.
LEMMA InvMeans == Inv <=> TypeOK /\ HoldingFollows /\ NoWakeUpLeft
BY TypeAndLines DEF Inv, TypeOK, Pairs, Good

\* When ReadWrite finds no next writer, no port asks for one.
LEMMA NobodyIsNext ==
  ASSUME NEW P, NEW w \in Ports
  PROVE  /\ NextWriter(P, w) \in Ports \cup {Nobody}
         /\ NextWriter(P, w) = Nobody => ~AnyTry(P)
  <1>1. Nobody \notin Ports
    BY DEF Nobody, Ports
  <1> QED BY <1>1, TheOther, Two DEF NextWriter, AnyTry

\* The state in which both ports are opened: all outputs but OUT1 are high, and
\* no input is honoured.
LEMMA InitRight == Init => Inv
  <1> SUFFICES ASSUME Init PROVE Inv
    OBVIOUS
  <1> DEFINE O == [p \in Ports |-> Opened]
             up(p) == {i \in Inputs : Level(O, p, i)}
  <1>1. Opened \in PortStates /\ Opened.holding = {} /\ Opened.hand.out = {}
        /\ Opened.try = FALSE
    <2>1. DefaultHand \in HandFlows
      <3>1. Size \div 2 \in 0 .. Size /\ Size \div 8 \in 0 .. Size
        BY SizesAssumption
      <3> QED BY <3>1 DEF DefaultHand, HandFlows, Modes
    <2>2. <<>> \in TxBuffers
      <3>1. <<>> \in Seq(Characters) /\ Len(<<>>) = 0
        BY EmptySeq
      <3>2. 0 <= TxSize
        BY SizesAssumption
      <3> QED BY <3>1, <3>2, TxIsSeq
    <2>3. 0 \in Nat /\ 0 \in 0 .. Size /\ Size \in 1 .. Size
      BY SizesAssumption
    <2>4. DefaultHand.out = {}
      BY DEF DefaultHand
    <2> QED BY <2>1, <2>2, <2>3, <2>4 DEF Opened, PortStates, Pins
  <1>2. \A p \in Ports : up(p) \in SUBSET Inputs
    OBVIOUS
  <1>3. port = [p \in Ports |-> [Opened EXCEPT !.status = up(p)]]
    BY DEF Init
  <1> HIDE DEF up
  <1>4. \A p \in Ports : [Opened EXCEPT !.status = up(p)] \in PortStates
    BY <1>1, <1>2 DEF PortStates
  <1>5. port \in Pairs
    BY <1>3, <1>4 DEF Pairs
  <1>6. \A p \in Ports : /\ port[p].mcr = Opened.mcr /\ port[p].holding = {}
                         /\ port[p].hand.out = {} /\ port[p].try = FALSE
                         /\ port[p].status = up(p)
    BY <1>1, <1>3 DEF PortStates
  <1>7. \A p \in Ports, i \in Inputs : Level(port, p, i) = Level(O, p, i)
    BY <1>6, FromPort DEF Level
  <1>8. \A p \in Ports : StatusRight(port, p)
    BY <1>6, <1>7 DEF StatusRight, up
  <1>9. \A p \in Ports : HoldingRight(port, p)
    BY <1>6 DEF HoldingRight
  <1>10. NoWakeUpLeft
    BY <1>6 DEF NoWakeUpLeft, AnyTry
  <1>11. /\ pass \in Ports \cup {Nobody} /\ paused \subseteq Ports
         /\ calls \in 0 .. MaxCalls /\ turns \in Nat
    <2>1. calls = 0 /\ turns = 0 /\ pass = Nobody /\ paused = {}
      BY DEF Init
    <2> QED BY <2>1, SizesAssumption
  <1> QED BY <1>5, <1>8, <1>9, <1>10, <1>11 DEF Good, Follows, Inv

\* A turn takes the transmitter's ring by pieces of some length.
LEMMA PieceIsNat ==
  ASSUME Inv, pass \in Ports, NEW piece \in Pieces(port[pass].tx)
  PROVE  piece \in Nat
  <1>1. Len(port[pass].tx) \in Nat
    BY CountTypes, TxIsSeq, LenProperties DEF Inv
  <1> QED BY <1>1 DEF Pieces

\* A turn clears the request it serves and leaves when none is left.
LEMMA ReadWriteKeeps == Inv /\ ReadWrite => Inv'
  <1> SUFFICES ASSUME Inv, ReadWrite PROVE Inv'
    OBVIOUS
  <1> DEFINE Q == [port EXCEPT ![pass].try = FALSE]
             r == Other(pass)
  <1>1. pass \in Ports /\ r \in Ports /\ r # pass
    BY TheOther DEF Inv, ReadWrite
  <1>2. Good(Q)
    BY <1>1, TryKeeps DEF Inv
  <1>3. PICK piece \in Nat : port' = TryReadWrite(Q, r, pass, piece)
    BY <1>1, PieceIsNat DEF ReadWrite
  <1> HIDE DEF Q, r
  <1>4. Good(port')
    BY <1>1, <1>2, <1>3, TryReadWriteKeeps
  <1>5. pass' \in Ports \cup {Nobody} /\ (pass' = Nobody => ~AnyTry(port'))
    BY <1>1, NobodyIsNext DEF ReadWrite
  <1>6. turns' \in Nat
    BY DEF ReadWrite, Inv
  <1>7. calls' \in 0 .. MaxCalls /\ paused' \subseteq Ports
    BY DEF ReadWrite, Inv
  <1> QED BY <1>4, <1>5, <1>6, <1>7 DEF Inv, NoWakeUpLeft, AnyTry, Good, Follows,
       StatusRight, HoldingRight, Level, Pairs

\* A call that leaves the lines right, and a next writer if any port asks for one,
\* keeps the invariant.
LEMMA CallKeeps ==
  ASSUME Inv, SettingsCall,
         Good(port'), pass' \in Ports \cup {Nobody}, paused' \subseteq Ports,
         pass' = Nobody => ~AnyTry(port')
  PROVE  Inv'
  <1>1. calls' \in 0 .. MaxCalls /\ turns' \in Nat
    BY SizesAssumption DEF Inv, SettingsCall
  <1>2. NoWakeUpLeft'
    BY DEF NoWakeUpLeft, AnyTry
  <1>3. Good(port)'
    BY DEF Good, Follows, StatusRight, HoldingRight, Level, Pairs
  <1> QED BY <1>1, <1>2, <1>3 DEF Inv

\* The same of READ, WRITE and PURGE, which are not counted.
LEMMA IoKeeps ==
  ASSUME Inv, UNCHANGED <<calls, turns, paused>>,
         Good(port'), pass' \in Ports \cup {Nobody},
         pass' = Nobody => ~AnyTry(port')
  PROVE  Inv'
  <1>1. calls' \in 0 .. MaxCalls /\ turns' \in Nat /\ paused' \subseteq Ports
    BY DEF Inv
  <1>2. NoWakeUpLeft'
    BY DEF NoWakeUpLeft, AnyTry
  <1>3. Good(port)'
    BY DEF Good, Follows, StatusRight, HoldingRight, Level, Pairs
  <1> QED BY <1>1, <1>2, <1>3 DEF Inv

\* READ and WRITE only start a request and a pass for it.
LEMMA RequestsKeep == \A p \in Ports : Inv /\ (Write(p) \/ Read(p)) => Inv'
  <1> TAKE p \in Ports
  <1> USE DEF Inv
  <1>1. ASSUME Inv, Write(p) PROVE Inv'
    <2>1. PICK n \in Lengths : port' = UpdateTransmitToggle([port EXCEPT ![p].toSend = n], p)
      BY <1>1 DEF Write
    <2>2. n \in Nat
      BY SizesAssumption
    <2>3. Good([port EXCEPT ![p].toSend = n])
      BY <1>1, <2>2, SendKeeps
    <2>4. Good(port')
      BY <2>1, <2>3, ToggleKeeps
    <2>5. pass' = p /\ p # Nobody /\ UNCHANGED <<calls, turns, paused>>
      BY <1>1 DEF Write, Ports, Nobody
    <2> QED BY <1>1, <2>4, <2>5, IoKeeps
  <1>2. ASSUME Inv, Read(p) PROVE Inv'
    <2>1. PICK n \in Lengths : port' = [port EXCEPT ![p].wanted = n]
      BY <1>2 DEF Read
    <2>2. n \in Nat
      BY SizesAssumption
    <2>3. Good(port')
      BY <1>2, <2>1, <2>2, WantedKeeps
    <2>4. pass' \in Ports /\ pass' # Nobody /\ UNCHANGED <<calls, turns, paused>>
      BY <1>2, TheOther DEF Read, Ports, Nobody
    <2> QED BY <1>2, <2>3, <2>4, IoKeeps
  <1> QED BY <1>1, <1>2

\* SET_HANDFLOW asks for the passes that the new settings make necessary.
LEMMA SetHandFlowKeeps == \A p \in Ports : Inv /\ SetHandFlow(p) => Inv'
  <1> TAKE p \in Ports
  <1> SUFFICES ASSUME Inv, SetHandFlow(p) PROVE Inv'
    OBVIOUS
  <1>1. PICK h \in Hands[p] : port' = NewHand(port, p, h)
    BY DEF SetHandFlow
  <1>2. h \in HandFlows
    BY CallsAssumption
  <1>3. Good(port')
    BY <1>1, <1>2, NewHandKeeps DEF Inv
  <1>4. pass' \in Ports \cup {Nobody} /\ (pass' = Nobody => ~AnyTry(port'))
    BY NobodyIsNext, TheOther DEF SetHandFlow
  <1>5. SettingsCall /\ paused' \subseteq Ports
    BY DEF SetHandFlow, Inv
  <1> QED BY <1>3, <1>4, <1>5, CallKeeps

\* The calls that set pins run ReadWrite if a port asks for it.
LEMMA PinCallsKeep ==
  \A p \in Ports : Inv /\ (SetRts(p) \/ SetDtr(p) \/ SetControl(p)) => Inv'
  <1> TAKE p \in Ports
  <1> SUFFICES ASSUME Inv, SetRts(p) \/ SetDtr(p) \/ SetControl(p) PROVE Inv'
    OBVIOUS
  <1>1. Good(port')
    <2>1. \A bits, mask : mask \subseteq Pins => Good(SetModemControl(port, p, bits, mask))
      BY ModemControl DEF Inv
    <2>2. CASE SetRts(p)
      BY <2>1, <2>2 DEF SetRts, Pins
    <2>3. CASE SetDtr(p)
      BY <2>1, <2>3 DEF SetDtr, Pins
    <2>4. CASE SetControl(p)
      <3>1. PICK c \in Controls[p] : port' = SetModemControl(port, p, c.bits, c.mask)
        BY <2>4 DEF SetControl
      <3>2. c.mask \subseteq Pins
        BY CallsAssumption
      <3> QED BY <2>1, <3>1, <3>2
    <2> QED BY <2>2, <2>3, <2>4
  <1>2. SettingsCall /\ pass' = (IF AnyTry(port') THEN Other(p) ELSE Nobody)
        /\ paused' = paused
    BY DEF SetRts, SetDtr, SetControl
  <1>3. pass' \in Ports \cup {Nobody} /\ (pass' = Nobody => ~AnyTry(port'))
    <2>1. Other(p) \in Ports /\ Other(p) # Nobody
      BY DEF Ports, Other, Nobody
    <2> QED BY <1>2, <2>1
  <1> QED BY <1>1, <1>2, <1>3, CallKeeps DEF Inv

\* SET_XON looks at the own port only: the other's request cannot have been left.
LEMMA SetXonKeeps == \A p \in Ports : Inv /\ SetXon(p) => Inv'
  <1> TAKE p \in Ports
  <1> SUFFICES ASSUME Inv, SetXon(p) PROVE Inv'
    OBVIOUS
  <1>1. Good(port') /\ \A q \in Ports : q # p => port'[q] = port[q]
    BY XonXoffHolding DEF SetXon, Inv
  <1>2. SettingsCall /\ pass' = (IF port'[p].try THEN Other(p) ELSE Nobody)
        /\ paused' \subseteq Ports
    BY DEF SetXon, Inv
  <1>3. \A q \in Ports : ~port[q].try
    BY <1>2 DEF SettingsCall, Inv, NoWakeUpLeft, AnyTry
  <1>4. pass' \in Ports \cup {Nobody} /\ (pass' = Nobody => ~AnyTry(port'))
    <2>1. Other(p) \in Ports /\ Other(p) # Nobody
      BY DEF Ports, Other, Nobody
    <2> QED BY <1>1, <1>2, <1>3, <2>1 DEF AnyTry
  <1> QED BY <1>1, <1>2, <1>4, CallKeeps

\* SET_XOFF asks for nothing.
LEMMA SetXoffKeeps == \A p \in Ports : Inv /\ SetXoff(p) => Inv'
  <1> TAKE p \in Ports
  <1> SUFFICES ASSUME Inv, SetXoff(p) PROVE Inv'
    OBVIOUS
  <1>1. Good(port') /\ port' = SetXonXoffHolding(port, p, "off")
    BY XonXoffHolding DEF SetXoff, Inv
  <1>2. \A q \in Ports : port'[q].try = port[q].try
    BY <1>1 DEF SetXonXoffHolding, Inv, Good, Pairs, PortStates
  <1>3. SettingsCall /\ pass' = pass /\ paused' \subseteq Ports
    BY DEF SetXoff, Inv
  <1>4. pass' = Nobody => ~AnyTry(port')
    BY <1>2, <1>3 DEF Inv, NoWakeUpLeft, AnyTry
  <1> QED BY <1>1, <1>3, <1>4, CallKeeps DEF Inv

\* PURGE runs ReadWrite if the room it makes has a port ask for it; without
\* RXCLEAR nothing is asked for.
LEMMA PurgeKeeps == \A p \in Ports : Inv /\ Purge(p) => Inv'
  <1> TAKE p \in Ports
  <1> SUFFICES ASSUME Inv, Purge(p) PROVE Inv'
    OBVIOUS
  <1> DEFINE P1(flags) == [port EXCEPT ![p].wanted =
                             IF "RXABORT" \in flags THEN 0 ELSE port[p].wanted]
             P2(flags) == [P1(flags) EXCEPT ![p].toSend =
                             IF "TXABORT" \in flags THEN 0 ELSE P1(flags)[p].toSend]
             Q(flags) == UpdateHandFlow([P2(flags) EXCEPT ![p].busy = 0], p, TRUE)
  <1>1. PICK flags \in Purges :
          IF "RXCLEAR" \in flags
          THEN /\ port' = Q(flags)
               /\ pass' = IF AnyTry(Q(flags)) THEN Other(p) ELSE Nobody
          ELSE port' = P2(flags) /\ pass' = Nobody
    <2> DEFINE P(flags) == [port EXCEPT
                              ![p].wanted = IF "RXABORT" \in flags THEN 0 ELSE @,
                              ![p].toSend = IF "TXABORT" \in flags THEN 0 ELSE @]
               R(flags) == UpdateHandFlow([P(flags) EXCEPT ![p].busy = 0], p, TRUE)
    <2>1. \E flags \in Purges :
            IF "RXCLEAR" \in flags
            THEN /\ port' = R(flags)
                 /\ pass' = IF AnyTry(R(flags)) THEN Other(p) ELSE Nobody
            ELSE port' = P(flags) /\ pass' = Nobody
      BY ZenonT(30) DEF Purge
    <2>2. \A flags : P(flags) = P2(flags)
      OBVIOUS
    <2> HIDE DEF P, P2
    <2> QED BY <2>1, <2>2
  <1>2. pass = Nobody /\ UNCHANGED <<calls, turns, paused>>
    BY DEF Purge
  <1>3. Good(P1(flags))
    <2> DEFINE n == IF "RXABORT" \in flags THEN 0 ELSE port[p].wanted
    <2>1. n \in Nat
      BY CountTypes DEF Inv
    <2> HIDE DEF n
    <2>2. Good([port EXCEPT ![p].wanted = n])
      BY <2>1, WantedKeeps DEF Inv
    <2> QED BY <2>2 DEF n
  <1>4. \A q \in Ports : P1(flags)[q].try = port[q].try
    BY DEF Inv, Good, Pairs, PortStates
  <1> HIDE DEF P1
  <1>5. Good(P2(flags))
    <2> DEFINE n == IF "TXABORT" \in flags THEN 0 ELSE P1(flags)[p].toSend
    <2>1. n \in Nat
      BY <1>3, CountTypes
    <2> HIDE DEF n
    <2>2. Good([P1(flags) EXCEPT ![p].toSend = n])
      BY <1>3, <2>1, SendKeeps
    <2> QED BY <2>2 DEF n
  <1>6. \A q \in Ports : P2(flags)[q].try = P1(flags)[q].try
    BY <1>3 DEF Good, Pairs, PortStates
  <1> HIDE DEF P2
  <1>7. Good([P2(flags) EXCEPT ![p].busy = 0])
    <2>1. 0 \in 0 .. Size
      BY SizesAssumption
    <2> QED BY <1>5, <2>1, BusyKeeps
  <1>8. Good(Q(flags))
    BY <1>7, HandFlowKeeps
  <1> HIDE DEF Q
  <1>9. CASE "RXCLEAR" \in flags
    <2>1. Other(p) \in Ports /\ Other(p) # Nobody
      BY DEF Ports, Other, Nobody
    <2>2. port' = Q(flags) /\ pass' = IF AnyTry(Q(flags)) THEN Other(p) ELSE Nobody
      BY <1>1, <1>9
    <2>3. pass' \in Ports \cup {Nobody} /\ (pass' = Nobody => ~AnyTry(port'))
      BY <2>1, <2>2
    <2> QED BY <1>2, <1>8, <2>2, <2>3, IoKeeps
  <1>10. CASE "RXCLEAR" \notin flags
    <2>1. port' = P2(flags) /\ pass' = Nobody
      BY <1>1, <1>10
    <2>2. ~AnyTry(port')
      BY <1>2, <1>4, <1>6, <2>1 DEF Inv, NoWakeUpLeft, AnyTry
    <2> QED BY <1>2, <1>5, <2>1, <2>2, IoKeeps
  <1> QED BY <1>9, <1>10

\* Inv is kept by every step.
LEMMA StepKeeps == Inv /\ [Next]_vars => Inv'
  <1> SUFFICES ASSUME Inv, [Next]_vars PROVE Inv'
    OBVIOUS
  <1>1. CASE ReadWrite
    BY <1>1, ReadWriteKeeps
  <1>2. ASSUME NEW p \in Ports, Program(p) PROVE Inv'
    BY <1>2, RequestsKeep, SetHandFlowKeeps, PinCallsKeep, SetXonKeeps, SetXoffKeeps,
       PurgeKeeps DEF Program
  <1>3. CASE UNCHANGED vars
    BY <1>3 DEF vars, Inv, NoWakeUpLeft, AnyTry, Good, Follows, StatusRight, HoldingRight,
       Level, Pairs
  <1> QED BY <1>1, <1>2, <1>3 DEF Next

\* For every wiring of the inputs, all settings and all sizes: no buffer is filled
\* beyond its size (TypeOK), modemStatus is what the pins make of it and a port is
\* held by exactly the honoured lines that are low (HoldingFollows), and no call of
\* the driver returns while tryWrite asks for a pass (NoWakeUpLeft).
THEOREM LinesAndWakeUps == Spec => [](TypeOK /\ HoldingFollows /\ NoWakeUpLeft)
  <1>1. Spec => []Inv
    BY InitRight, StepKeeps, PTL DEF Spec
  <1> QED BY <1>1, InvMeans, PTL

\* No call of the driver, and no DPC of it, is over while a port still asks for
\* another pass of ReadWrite.
THEOREM NoRequestLeft == Spec => []NoWakeUpLeft
  BY LinesAndWakeUps, PTL

-----------------------------------------------------------------------------
(* Requests for a pass: whatever lets a port send asks for one *)

CanSend(P, p) == CanSendData(P, p) \/ CanSendX(P, p)

\* From P to Q no request for a pass of q is lost, and none is missing: if q could
\* not send and now can, it asks for a pass.
AsksFor(P, Q, q) ==
  /\ P[q].try => Q[q].try
  /\ CanSend(Q, q) /\ ~Q[q].try => CanSend(P, q)

\* P and Q differ in the pins, the inputs, holding and tryWrite only, and tryWrite
\* asks for what that makes possible.
LinesOnly(P, Q) ==
  \A q \in Ports :
    /\ Q[q].hand = P[q].hand /\ Q[q].told = P[q].told
    /\ Q[q].limit = P[q].limit /\ Q[q].busy = P[q].busy
    /\ Q[q].x = P[q].x /\ Q[q].toSend = P[q].toSend /\ Q[q].wanted = P[q].wanted
    /\ AsksFor(P, Q, q)

\* Both are preorders.
LEMMA AsksTransitive ==
  ASSUME NEW P, NEW Q, NEW R, NEW q, AsksFor(P, Q, q), AsksFor(Q, R, q)
  PROVE  AsksFor(P, R, q)
BY DEF AsksFor

LEMMA LinesTransitive ==
  ASSUME NEW P, NEW Q, NEW R, LinesOnly(P, Q), LinesOnly(Q, R)
  PROVE  LinesOnly(P, R)
BY AsksTransitive DEF LinesOnly

\* Settings, statuses and pins alone decide nothing about who can send.
LEMMA AsksSame ==
  ASSUME NEW P, NEW Q, NEW q, Q[q].x = P[q].x, Q[q].toSend = P[q].toSend,
         Q[q].holding = P[q].holding, Q[q].try = P[q].try
  PROVE  AsksFor(P, Q, q)
BY DEF AsksFor, CanSend, CanSendData, CanSendX

\* SetModemStatusHolding asks for a pass if it ends the last line that held the port.
LEMMA StatusHoldingAsks ==
  ASSUME NEW P \in Pairs, NEW p \in Ports
  PROVE  LET Q == SetModemStatusHolding(P, p) IN
         LinesOnly(P, Q) /\ \A q \in Ports : Q[q].mcr = P[q].mcr
  <1> DEFINE old == P[p].holding
             new == (old \cap {"XON"}) \cup (P[p].hand.out \ P[p].status)
             try == /\ new \subseteq {"XON"} /\ ~(old \subseteq {"XON"})
                    /\ P[p].x # "none" \/ (new = {} /\ Current(P, p))
             b == P[p].try \/ try
             Q == [P EXCEPT ![p].holding = new, ![p].try = b]
  <1>1. P[p] \in PortStates
    BY DEF Pairs
  <1>2. P[p].hand.out \subseteq Inputs
    BY <1>1 DEF PortStates, HandFlows
  <1>3. new \subseteq {"XON"} /\ old \subseteq {"XON"} => new = old
    BY <1>2 DEF Inputs
  <1>4. b <=> P[p].try \/ try
    OBVIOUS
  <1>5. new \subseteq {"XON"} /\ ~(old \subseteq {"XON"})
          /\ (P[p].x # "none" \/ (new = {} /\ P[p].toSend > 0)) => b
    BY <1>4 DEF Current
  <1>6. P[p].try => b
    BY <1>4
  <1>7. SetModemStatusHolding(P, p) = Q
    BY DEF SetModemStatusHolding
  <1> HIDE DEF b, new
  <1>8. /\ Q[p].holding = new /\ Q[p].try = b
        /\ \A q \in Ports :
             /\ q # p => Q[q] = P[q]
             /\ Q[q].hand = P[q].hand /\ Q[q].told = P[q].told /\ Q[q].mcr = P[q].mcr
             /\ Q[q].limit = P[q].limit /\ Q[q].busy = P[q].busy
             /\ Q[q].x = P[q].x /\ Q[q].toSend = P[q].toSend /\ Q[q].wanted = P[q].wanted
    BY <1>1 DEF Pairs, PortStates
  <1> HIDE DEF Q
  <1>9. AsksFor(P, Q, p)
    BY <1>3, <1>5, <1>6, <1>8 DEF AsksFor, CanSend, CanSendData, CanSendX
  <1>10. \A q \in Ports : AsksFor(P, Q, q)
    BY <1>8, <1>9, AsksSame
  <1> QED BY <1>7, <1>8, <1>10 DEF LinesOnly

\* SetModemStatus does, as it works out holding when an input changed.
LEMMA StatusAsks ==
  ASSUME NEW P \in Pairs, NEW p \in Ports, NEW bits, NEW mask, mask \subseteq Inputs
  PROVE  LET Q == SetModemStatus(P, p, bits, mask) IN
         LinesOnly(P, Q) /\ \A q \in Ports : Q[q].mcr = P[q].mcr
  <1> DEFINE new == (P[p].status \ mask) \cup (bits \cap mask)
             S == [P EXCEPT ![p].status = new]
             Q == SetModemStatusHolding(S, p)
  <1>1. CASE new = P[p].status
    BY <1>1 DEF SetModemStatus, LinesOnly, AsksFor
  <1>2. CASE new # P[p].status
    <2>1. new \in SUBSET Inputs /\ P[p] \in PortStates
      BY DEF Pairs, PortStates
    <2>2. SetModemStatus(P, p, bits, mask) = Q
      BY <1>2 DEF SetModemStatus
    <2> HIDE DEF new
    <2>3. S \in Pairs
      <3>1. [P[p] EXCEPT !.status = new] \in PortStates
        BY <2>1 DEF PortStates
      <3> QED BY <3>1 DEF Pairs
    <2>4. \A q \in Ports :
            /\ S[q].hand = P[q].hand /\ S[q].told = P[q].told /\ S[q].mcr = P[q].mcr
            /\ S[q].limit = P[q].limit /\ S[q].busy = P[q].busy
            /\ S[q].x = P[q].x /\ S[q].toSend = P[q].toSend /\ S[q].wanted = P[q].wanted
            /\ S[q].holding = P[q].holding /\ S[q].try = P[q].try
      BY <2>1 DEF Pairs, PortStates
    <2> HIDE DEF S
    <2>5. LinesOnly(P, S)
      BY <2>4, AsksSame DEF LinesOnly
    <2>6. LinesOnly(S, Q) /\ \A q \in Ports : Q[q].mcr = S[q].mcr
      BY <2>3, StatusHoldingAsks
    <2> HIDE DEF Q
    <2> QED BY <2>2, <2>4, <2>5, <2>6, LinesTransitive
  <1> QED BY <1>1, <1>2

\* SetModemControl changes the pins it is given, and asks for the passes that the
\* inputs they drive make possible, in both ports.
LEMMA ControlAsks ==
  ASSUME NEW P \in Pairs, NEW p \in Ports, NEW bits, NEW mask, mask \subseteq Pins
  PROVE  LET Q == SetModemControl(P, p, bits, mask) IN
         /\ LinesOnly(P, Q)
         /\ Q[p].mcr = (P[p].mcr \ mask) \cup (bits \cap mask)
         /\ \A q \in Ports : q # p => Q[q].mcr = P[q].mcr
  <1> DEFINE o == Other(p)
             new == (P[p].mcr \ mask) \cup (bits \cap mask)
             changed == (new \ P[p].mcr) \cup (P[p].mcr \ new)
             Q == [P EXCEPT ![p].mcr = new]
             R == SetModemStatus(Q, o, High(Q, p, o), Driven(p, o, changed))
             T == SetModemStatus(R, p, High(R, p, p), Driven(p, p, changed))
  <1>1. o \in Ports /\ P[p] \in PortStates
    BY TheOther DEF Pairs
  <1>2. new \in SUBSET Pins
    BY <1>1 DEF PortStates
  <1>3. \A q \in Ports : Driven(p, q, changed) \subseteq Inputs
    BY DEF Driven
  <1>4. SetModemControl(P, p, bits, mask) = T
    BY DEF SetModemControl
  <1> HIDE DEF changed, new
  <1>5. Q \in Pairs
    <2>1. [P[p] EXCEPT !.mcr = new] \in PortStates
      BY <1>1, <1>2 DEF PortStates
    <2> QED BY <2>1 DEF Pairs
  <1>6. /\ Q[p].mcr = new
        /\ \A q \in Ports :
             /\ q # p => Q[q].mcr = P[q].mcr
             /\ Q[q].hand = P[q].hand /\ Q[q].told = P[q].told
             /\ Q[q].limit = P[q].limit /\ Q[q].busy = P[q].busy
             /\ Q[q].x = P[q].x /\ Q[q].toSend = P[q].toSend /\ Q[q].wanted = P[q].wanted
             /\ Q[q].holding = P[q].holding /\ Q[q].try = P[q].try
    BY <1>1 DEF Pairs, PortStates
  <1> HIDE DEF Q
  <1>7. LinesOnly(P, Q)
    BY <1>6, AsksSame DEF LinesOnly
  <1>8. R \in Pairs /\ LinesOnly(Q, R) /\ \A q \in Ports : R[q].mcr = Q[q].mcr
    <2>1. R \in Pairs
      BY <1>1, <1>3, <1>5, ModemStatus
    <2>2. LinesOnly(Q, R) /\ \A q \in Ports : R[q].mcr = Q[q].mcr
      BY <1>1, <1>3, <1>5, StatusAsks
    <2> QED BY <2>1, <2>2
  <1> HIDE DEF R
  <1>9. LinesOnly(R, T) /\ \A q \in Ports : T[q].mcr = R[q].mcr
    BY <1>3, <1>8, StatusAsks
  <1> HIDE DEF T
  <1>10. LinesOnly(P, T)
    BY <1>7, <1>8, <1>9, LinesTransitive
  <1> QED BY <1>4, <1>6, <1>8, <1>9, <1>10 DEF new

-----------------------------------------------------------------------------
(* Stopping and releasing the peer: what is told goes with the pins *)

\* From P to Q only port p tells its peer something, and whoever can send asks for
\* a pass.
Tells(P, Q, p) ==
  \A q \in Ports :
    /\ Q[q].hand = P[q].hand /\ Q[q].limit = P[q].limit /\ Q[q].busy = P[q].busy
    /\ Q[q].toSend = P[q].toSend /\ Q[q].wanted = P[q].wanted
    /\ q # p => Q[q].told = P[q].told /\ Q[q].mcr = P[q].mcr
    /\ AsksFor(P, Q, q)

LEMMA TellsTransitive ==
  ASSUME NEW P, NEW Q, NEW R, NEW p, Tells(P, Q, p), Tells(Q, R, p)
  PROVE  Tells(P, R, p)
BY AsksTransitive DEF Tells

\* To note what the peer is told lets nobody send.
LEMMA ToldAsks ==
  ASSUME NEW P, Good(P), NEW p \in Ports, NEW told, told \subseteq {"CTS", "DSR", "XON"}
  PROVE  Tells(P, [P EXCEPT ![p].told = told], p)
  <1> DEFINE Q == [P EXCEPT ![p].told = told]
  <1>1. P[p] \in PortStates /\ P \in Pairs
    BY DEF Good, Pairs
  <1>2. /\ Q[p].told = told
        /\ \A q \in Ports :
             /\ q # p => Q[q] = P[q]
             /\ Q[q].hand = P[q].hand /\ Q[q].mcr = P[q].mcr
             /\ Q[q].limit = P[q].limit /\ Q[q].busy = P[q].busy
             /\ Q[q].x = P[q].x /\ Q[q].toSend = P[q].toSend /\ Q[q].wanted = P[q].wanted
             /\ Q[q].holding = P[q].holding /\ Q[q].try = P[q].try
    BY <1>1 DEF Pairs, PortStates
  <1> HIDE DEF Q
  <1>3. \A q \in Ports : AsksFor(P, Q, q)
    BY <1>2, AsksSame
  <1>4. Tells(P, Q, p)
    BY <1>2, <1>3 DEF Tells
  <1> QED BY <1>2, <1>4 DEF Q

\* An XOFF to be sent asks for a pass itself.
LEMMA XoffAsks ==
  ASSUME NEW P, Good(P), NEW p \in Ports, NEW h
  PROVE  LET Q == SendXoff(P, p, h) IN
         /\ Tells(P, Q, p) /\ Q[p].told = P[p].told \cup {"XON"}
         /\ \A q \in Ports : Q[q].mcr = P[q].mcr
  <1> DEFINE told == P[p].told \cup {"XON"}
             held == IF h.cont THEN P[p].holding ELSE P[p].holding \cup {"XON"}
             Q == [P EXCEPT ![p].told = told, ![p].x = "off", ![p].try = TRUE,
                            ![p].holding = held]
  <1>1. P[p] \in PortStates /\ P \in Pairs
    BY DEF Good, Pairs
  <1>2. SendXoff(P, p, h) = Q
    BY DEF SendXoff
  <1> HIDE DEF held, told
  <1>3. /\ Q[p].told = told /\ Q[p].try = TRUE
        /\ \A q \in Ports :
             /\ q # p => Q[q] = P[q]
             /\ Q[q].hand = P[q].hand /\ Q[q].mcr = P[q].mcr
             /\ Q[q].limit = P[q].limit /\ Q[q].busy = P[q].busy
             /\ Q[q].toSend = P[q].toSend /\ Q[q].wanted = P[q].wanted
    BY <1>1 DEF Pairs, PortStates
  <1> HIDE DEF Q
  <1>4. \A q \in Ports : AsksFor(P, Q, q)
    BY <1>3 DEF AsksFor, CanSend, CanSendData, CanSendX
  <1>5. Tells(P, Q, p)
    BY <1>3, <1>4 DEF Tells
  <1> QED BY <1>2, <1>3, <1>5 DEF told

\* So does an XON, which also lets its port go on.
LEMMA XonAsks ==
  ASSUME NEW P, Good(P), NEW p \in Ports
  PROVE  Tells(P, [P EXCEPT ![p].holding = @ \ {"XON"}, ![p].x = "on", ![p].try = TRUE], p)
  <1> DEFINE held == P[p].holding \ {"XON"}
             Q == [P EXCEPT ![p].holding = held, ![p].x = "on", ![p].try = TRUE]
  <1>1. P[p] \in PortStates /\ P \in Pairs
    BY DEF Good, Pairs
  <1> HIDE DEF held
  <1>2. /\ Q[p].try = TRUE
        /\ \A q \in Ports :
             /\ q # p => Q[q] = P[q]
             /\ Q[q].hand = P[q].hand /\ Q[q].mcr = P[q].mcr /\ Q[q].told = P[q].told
             /\ Q[q].limit = P[q].limit /\ Q[q].busy = P[q].busy
             /\ Q[q].toSend = P[q].toSend /\ Q[q].wanted = P[q].wanted
    BY <1>1 DEF Pairs, PortStates
  <1> HIDE DEF Q
  <1>3. \A q \in Ports : AsksFor(P, Q, q)
    BY <1>2 DEF AsksFor, CanSend, CanSendData, CanSendX
  <1>4. Tells(P, Q, p)
    BY <1>2, <1>3 DEF Tells
  <1> QED BY <1>2, <1>4 DEF Q, held

\* SetModemControl tells nothing but by pins.
LEMMA ControlTells ==
  ASSUME NEW P, Good(P), NEW p \in Ports, NEW bits, NEW mask, mask \subseteq Pins
  PROVE  LET Q == SetModemControl(P, p, bits, mask) IN
         /\ Tells(P, Q, p) /\ Q[p].told = P[p].told
         /\ Q[p].mcr = (P[p].mcr \ mask) \cup (bits \cap mask)
  <1> DEFINE Q == SetModemControl(P, p, bits, mask)
  <1>1. /\ LinesOnly(P, Q)
        /\ Q[p].mcr = (P[p].mcr \ mask) \cup (bits \cap mask)
        /\ \A q \in Ports : q # p => Q[q].mcr = P[q].mcr
    BY ControlAsks DEF Good
  <1> HIDE DEF Q
  <1> QED BY <1>1 DEF LinesOnly, Tells, Q

\* Stop tells the peer in every way the settings have, and lowers the pins for it.
LEMMA StopTells ==
  ASSUME NEW P, Good(P), NEW p \in Ports
  PROVE  LET Q == Stop(P, p)
             ways == Ways(P[p].hand)
         IN /\ Tells(P, Q, p) /\ Q[p].told = P[p].told \cup ways
            /\ Q[p].mcr = P[p].mcr \ PinsOf(ways)
  <1> DEFINE h == P[p].hand
             told == P[p].told \cup (Ways(h) \ {"XON"})
             Q == [P EXCEPT ![p].told = told]
             R == IF h.autoRx THEN SendXoff(Q, p, h) ELSE Q
             T == SetModemControl(R, p, {}, PinsOf(Ways(h)))
  <1>1. Stop(P, p) = T
    BY DEF Stop
  <1>2. told \subseteq {"CTS", "DSR", "XON"}
    BY SomeWays DEF Good, Pairs, PortStates
  <1>3. IF h.autoRx THEN told \cup {"XON"} = P[p].told \cup Ways(h)
                    ELSE told = P[p].told \cup Ways(h)
    BY DEF Ways
  <1> HIDE DEF told, h
  <1>4. Good(Q) /\ Tells(P, Q, p) /\ Q[p].told = told /\ Q[p].mcr = P[p].mcr
    <2>1. Good(Q)
      BY <1>2, ToldKeeps
    <2>2. Tells(P, Q, p)
      BY <1>2, ToldAsks
    <2>3. Q[p].told = told /\ Q[p].mcr = P[p].mcr
      BY DEF Good, Pairs, PortStates
    <2> QED BY <2>1, <2>2, <2>3
  <1> HIDE DEF Q
  <1>5. /\ Good(R) /\ Tells(Q, R, p) /\ R[p].mcr = Q[p].mcr
        /\ R[p].told = IF h.autoRx THEN Q[p].told \cup {"XON"} ELSE Q[p].told
    <2>1. CASE h.autoRx
      BY <1>4, <2>1, XoffKeeps, XoffAsks
    <2>2. CASE ~h.autoRx
      BY <1>4, <2>2 DEF Tells, AsksFor
    <2> QED BY <2>1, <2>2
  <1> HIDE DEF R
  <1>6. /\ Tells(R, T, p) /\ T[p].told = R[p].told
        /\ T[p].mcr = R[p].mcr \ PinsOf(Ways(h))
    BY <1>5, SomePins, ControlTells
  <1> HIDE DEF T
  <1>7. Tells(P, T, p)
    BY <1>4, <1>5, <1>6, TellsTransitive
  <1>8. T[p].told = P[p].told \cup Ways(h)
    BY <1>3, <1>4, <1>5, <1>6
  <1> QED BY <1>1, <1>4, <1>5, <1>6, <1>7, <1>8 DEF h

\* Release takes all of that back.
LEMMA ReleaseTells ==
  ASSUME NEW P, Good(P), NEW p \in Ports
  PROVE  LET Q == Release(P, p)
             ways == Ways(P[p].hand)
         IN /\ Tells(P, Q, p) /\ Q[p].told = P[p].told \ ways
            /\ Q[p].mcr = P[p].mcr \cup PinsOf(ways)
  <1> DEFINE h == P[p].hand
             told == P[p].told \ Ways(h)
             Q == [P EXCEPT ![p].told = told]
             R == IF h.autoRx
                  THEN [Q EXCEPT ![p].holding = @ \ {"XON"}, ![p].x = "on", ![p].try = TRUE]
                  ELSE Q
             T == SetModemControl(R, p, PinsOf(Ways(h)), PinsOf(Ways(h)))
  <1>1. Release(P, p) = T
    BY DEF Release
  <1>2. told \subseteq {"CTS", "DSR", "XON"}
    BY DEF Good, Pairs, PortStates
  <1> HIDE DEF told, h
  <1>3. Good(Q) /\ Tells(P, Q, p) /\ Q[p].told = told /\ Q[p].mcr = P[p].mcr
    <2>1. Good(Q)
      BY <1>2, ToldKeeps
    <2>2. Tells(P, Q, p)
      BY <1>2, ToldAsks
    <2>3. Q[p].told = told /\ Q[p].mcr = P[p].mcr
      BY DEF Good, Pairs, PortStates
    <2> QED BY <2>1, <2>2, <2>3
  <1> HIDE DEF Q
  <1>4. /\ Good(R) /\ Tells(Q, R, p) /\ R[p].mcr = Q[p].mcr /\ R[p].told = Q[p].told
    <2>1. CASE h.autoRx
      <3>1. Good(R)
        BY <1>3, <2>1, XonKeeps
      <3>2. Tells(Q, R, p)
        BY <1>3, <2>1, XonAsks
      <3>3. R[p].mcr = Q[p].mcr /\ R[p].told = Q[p].told
        BY <1>3, <2>1 DEF Good, Pairs, PortStates
      <3> QED BY <3>1, <3>2, <3>3
    <2>2. CASE ~h.autoRx
      BY <1>3, <2>2 DEF Tells, AsksFor
    <2> QED BY <2>1, <2>2
  <1> HIDE DEF R
  <1>5. /\ Tells(R, T, p) /\ T[p].told = R[p].told
        /\ T[p].mcr = (R[p].mcr \ PinsOf(Ways(h))) \cup PinsOf(Ways(h))
    BY <1>4, SomePins, ControlTells
  <1> HIDE DEF T
  <1>6. Tells(P, T, p)
    BY <1>3, <1>4, <1>5, TellsTransitive
  <1> QED BY <1>1, <1>3, <1>4, <1>5, <1>6 DEF h, told

\* UpdateHandFlow stops, releases or does nothing.
LEMMA HandFlowTells ==
  ASSUME NEW P, Good(P), NEW p \in Ports, NEW freed \in BOOLEAN
  PROVE  LET Q == UpdateHandFlow(P, p, freed)
             ways == Ways(P[p].hand)
         IN /\ Tells(P, Q, p)
            /\ \/ /\ P[p].told = {} /\ ~freed /\ Full(P, p, P[p].hand)
                  /\ Q[p].told = ways /\ Q[p].mcr = P[p].mcr \ PinsOf(ways)
               \/ /\ P[p].told # {} /\ freed /\ Low(P, p, P[p].hand)
                  /\ Q[p].told = P[p].told \ ways /\ Q[p].mcr = P[p].mcr \cup PinsOf(ways)
               \/ /\ ~(P[p].told = {} /\ ~freed /\ Full(P, p, P[p].hand))
                  /\ ~(P[p].told # {} /\ freed /\ Low(P, p, P[p].hand))
                  /\ Q = P
  <1> DEFINE stop == P[p].told = {} /\ ~freed /\ Full(P, p, P[p].hand)
             release == P[p].told # {} /\ freed /\ Low(P, p, P[p].hand)
  <1>1. CASE stop
    <2>1. UpdateHandFlow(P, p, freed) = Stop(P, p)
      BY <1>1 DEF UpdateHandFlow
    <2>2. /\ Tells(P, Stop(P, p), p)
          /\ Stop(P, p)[p].told = P[p].told \cup Ways(P[p].hand)
          /\ Stop(P, p)[p].mcr = P[p].mcr \ PinsOf(Ways(P[p].hand))
      BY StopTells
    <2> QED BY <1>1, <2>1, <2>2
  <1>2. CASE release
    <2>1. UpdateHandFlow(P, p, freed) = Release(P, p)
      BY <1>2 DEF UpdateHandFlow
    <2>2. /\ Tells(P, Release(P, p), p)
          /\ Release(P, p)[p].told = P[p].told \ Ways(P[p].hand)
          /\ Release(P, p)[p].mcr = P[p].mcr \cup PinsOf(Ways(P[p].hand))
      BY ReleaseTells
    <2> QED BY <1>2, <2>1, <2>2
  <1>3. CASE ~stop /\ ~release
    <2>1. UpdateHandFlow(P, p, freed) = P
      BY <1>3 DEF UpdateHandFlow
    <2>2. Tells(P, P, p)
      BY DEF Tells, AsksFor
    <2> QED BY <1>3, <2>1, <2>2
  <1> QED BY <1>1, <1>2, <1>3

\* UpdateTransmitToggle moves RTS, and only in the mode that is named so.
LEMMA ToggleTells ==
  ASSUME NEW P, Good(P), NEW p \in Ports
  PROVE  LET Q == UpdateTransmitToggle(P, p) IN
         /\ Tells(P, Q, p) /\ Q[p].told = P[p].told
         /\ Q[p].mcr \ {"RTS"} = P[p].mcr \ {"RTS"}
         /\ P[p].hand.rts # "toggle" => Q[p].mcr = P[p].mcr
         /\ \A q \in Ports : Q[q].x = P[q].x
  <1> DEFINE T(bits) == SetModemControl(P, p, bits, {"RTS"})
  <1>1. CASE P[p].hand.rts # "toggle"
    BY <1>1 DEF UpdateTransmitToggle, Tells, AsksFor
  <1>2. CASE P[p].hand.rts = "toggle"
    <2>1. {"RTS"} \subseteq Pins
      BY DEF Pins
    <2>2. PICK bits : UpdateTransmitToggle(P, p) = T(bits)
      BY <1>2 DEF UpdateTransmitToggle
    <2>3. /\ Tells(P, T(bits), p) /\ T(bits)[p].told = P[p].told
          /\ T(bits)[p].mcr = (P[p].mcr \ {"RTS"}) \cup (bits \cap {"RTS"})
      BY <2>1, ControlTells
    <2>4. \A q \in Ports : T(bits)[q].x = P[q].x
      BY <2>1, ControlAsks DEF LinesOnly, Good
    <2> HIDE DEF T
    <2> QED BY <1>2, <2>2, <2>3, <2>4
  <1> QED BY <1>1, <1>2

-----------------------------------------------------------------------------
(* A pass: what the writer still has, the reader has no place for *)

\* XON and XOFF, heard or set, change holding and tryWrite of their port only.
OnlyHolding(P, Q, r) ==
  /\ \A q \in Ports :
       /\ q # r => Q[q] = P[q]
       /\ Q[q].hand = P[q].hand /\ Q[q].told = P[q].told /\ Q[q].mcr = P[q].mcr
       /\ Q[q].limit = P[q].limit /\ Q[q].busy = P[q].busy
       /\ Q[q].x = P[q].x /\ Q[q].toSend = P[q].toSend /\ Q[q].wanted = P[q].wanted
  /\ AsksFor(P, Q, r)

LEMMA XonXoffAsks ==
  ASSUME NEW P, Good(P), NEW r \in Ports, NEW c
  PROVE  OnlyHolding(P, SetXonXoffHolding(P, r, c), r)
  <1>1. P[r] \in PortStates /\ P \in Pairs
    BY DEF Good, Pairs
  <1>2. CASE c = "on" /\ "XON" \in P[r].holding
    <2> DEFINE held == P[r].holding \ {"XON"}
               b == P[r].try \/ (P[r].holding = {"XON"} /\ Current(P, r))
               Q == [P EXCEPT ![r].holding = held, ![r].try = b]
    <2>1. SetXonXoffHolding(P, r, c) = Q
      BY <1>2 DEF SetXonXoffHolding
    <2>2. P[r].try => b
      OBVIOUS
    <2>3. held = {} /\ P[r].toSend > 0 => b
      BY <1>2 DEF Current
    <2> HIDE DEF b
    <2>4. held \subseteq {"XON"} => P[r].holding \subseteq {"XON"}
      OBVIOUS
    <2> HIDE DEF held
    <2>5. /\ Q[r].holding = held /\ Q[r].try = b
          /\ \A q \in Ports :
               /\ q # r => Q[q] = P[q]
               /\ Q[q].hand = P[q].hand /\ Q[q].told = P[q].told /\ Q[q].mcr = P[q].mcr
               /\ Q[q].limit = P[q].limit /\ Q[q].busy = P[q].busy
               /\ Q[q].x = P[q].x /\ Q[q].toSend = P[q].toSend /\ Q[q].wanted = P[q].wanted
      BY <1>1 DEF Pairs, PortStates
    <2> HIDE DEF Q
    <2>6. AsksFor(P, Q, r)
      BY <2>2, <2>3, <2>4, <2>5 DEF AsksFor, CanSend, CanSendData, CanSendX
    <2> QED BY <2>1, <2>5, <2>6 DEF OnlyHolding
  <1>3. CASE c = "off"
    <2> DEFINE held == P[r].holding \cup {"XON"}
               Q == [P EXCEPT ![r].holding = held]
    <2>1. SetXonXoffHolding(P, r, c) = Q
      BY <1>3 DEF SetXonXoffHolding
    <2>2. held # {} /\ (held \subseteq {"XON"} => P[r].holding \subseteq {"XON"})
      OBVIOUS
    <2> HIDE DEF held
    <2>3. /\ Q[r].holding = held /\ Q[r].try = P[r].try
          /\ \A q \in Ports :
               /\ q # r => Q[q] = P[q]
               /\ Q[q].hand = P[q].hand /\ Q[q].told = P[q].told /\ Q[q].mcr = P[q].mcr
               /\ Q[q].limit = P[q].limit /\ Q[q].busy = P[q].busy
               /\ Q[q].x = P[q].x /\ Q[q].toSend = P[q].toSend /\ Q[q].wanted = P[q].wanted
      BY <1>1 DEF Pairs, PortStates
    <2> HIDE DEF Q
    <2>4. AsksFor(P, Q, r)
      BY <2>2, <2>3 DEF AsksFor, CanSend, CanSendData, CanSendX
    <2> QED BY <2>1, <2>3, <2>4 DEF OnlyHolding
  <1>4. CASE ~(c = "on" /\ "XON" \in P[r].holding) /\ c # "off"
    <2>1. SetXonXoffHolding(P, r, c) = P
      BY <1>4 DEF SetXonXoffHolding
    <2> QED BY <2>1 DEF OnlyHolding, AsksFor
  <1> QED BY <1>2, <1>3, <1>4

LEMMA HearAsks ==
  ASSUME NEW P, Good(P), NEW r \in Ports, NEW s, NEW n
  PROVE  OnlyHolding(P, Hear(P, r, s, n), r)
  <1> DEFINE control == {k \in 1 .. n : ~Kept(P, r, s[k])}
  <1>1. CASE control = {}
    <2>1. Hear(P, r, s, n) = P
      BY <1>1 DEF Hear
    <2> QED BY <2>1 DEF OnlyHolding, AsksFor
  <1>2. CASE control # {}
    <2>1. PICK c : Hear(P, r, s, n) = SetXonXoffHolding(P, r, c)
      BY <1>2 DEF Hear
    <2> QED BY <2>1, XonXoffAsks
  <1> QED BY <1>1, <1>2

\* From P to Q a pass of the writer w moves bytes: settings and lines stay, what the
\* other direction depends on does, and the reader asks for a pass if an XON it
\* hears lets it send.
Carries(P, Q, r, w) ==
  /\ \A q \in Ports : /\ Q[q].hand = P[q].hand /\ Q[q].told = P[q].told
                      /\ Q[q].mcr = P[q].mcr /\ Q[q].limit = P[q].limit
  /\ Q[w].holding = P[w].holding /\ Q[w].try = P[w].try
  /\ Q[w].wanted = P[w].wanted /\ Q[w].busy = P[w].busy
  /\ AsksFor(P, Q, r)

LEMMA CarriesTransitive ==
  ASSUME NEW P, NEW Q, NEW R, NEW r, NEW w, Carries(P, Q, r, w), Carries(Q, R, r, w)
  PROVE  Carries(P, R, r, w)
BY AsksTransitive DEF Carries

\* What changes only these counts of the two, and then has the reader hear
\* something, carries bytes.
LEMMA HearCarries ==
  ASSUME NEW P, NEW Q, Good(Q), NEW r \in Ports, NEW w \in Ports, r # w, NEW s, NEW n,
         Carries(P, Q, r, w)
  PROVE  LET R == Hear(Q, r, s, n) IN
         /\ Carries(P, R, r, w)
         /\ R[w] = Q[w] /\ R[r].wanted = Q[r].wanted /\ R[r].busy = Q[r].busy
         /\ R[r].limit = Q[r].limit
  <1> DEFINE R == Hear(Q, r, s, n)
  <1>1. OnlyHolding(Q, R, r)
    BY HearAsks
  <1> HIDE DEF R
  <1>2. R[w] = Q[w] /\ R[r].wanted = Q[r].wanted /\ R[r].busy = Q[r].busy
        /\ R[r].limit = Q[r].limit
    BY <1>1 DEF OnlyHolding
  <1>3. Carries(Q, R, r, w)
    BY <1>1, <1>2 DEF OnlyHolding, Carries
  <1>4. Carries(P, R, r, w)
    BY <1>3, CarriesTransitive
  <1> QED BY <1>2, <1>4 DEF R

\* The moves of a pass, one by one.
LEMMA RingToReadCarries ==
  ASSUME NEW P, Good(P), NEW r \in Ports, NEW w \in Ports, r # w
  PROVE  Carries(P, RingToRead(P, r), r, w)
  <1> DEFINE n == Least(P[r].wanted, P[r].busy)
             Q == [P EXCEPT ![r].wanted = P[r].wanted - n, ![r].busy = P[r].busy - n]
  <1>1. P \in Pairs /\ P[r] \in PortStates
    BY DEF Good, Pairs
  <1>2. RingToRead(P, r) = Q
    BY DEF RingToRead
  <1> HIDE DEF n
  <1>3. /\ Q[w] = P[w]
        /\ \A q \in Ports : /\ Q[q].hand = P[q].hand /\ Q[q].told = P[q].told
                            /\ Q[q].mcr = P[q].mcr /\ Q[q].limit = P[q].limit
        /\ Q[r].x = P[r].x /\ Q[r].toSend = P[r].toSend
        /\ Q[r].holding = P[r].holding /\ Q[r].try = P[r].try
    BY <1>1 DEF Pairs, PortStates
  <1> HIDE DEF Q
  <1>4. AsksFor(P, Q, r)
    BY <1>3, AsksSame
  <1> QED BY <1>2, <1>3, <1>4 DEF Carries

LEMMA TxToReadCarries ==
  ASSUME NEW P, Good(P), NEW r \in Ports, NEW w \in Ports, r # w,
         NEW piece \in Nat
  PROVE  Carries(P, TxToRead(P, r, w, piece), r, w)
  <1> DEFINE n == Taken(P, r, P[w].tx, P[r].wanted, piece)
             kept == KeptAmong(P, r, P[w].tx, n)
             Q == [P EXCEPT ![r].wanted = P[r].wanted - kept]
             T == [Q EXCEPT ![w].tx = Drop(Q[w].tx, n)]
  <1>1. n \in 0 .. Len(P[w].tx) /\ kept \in 0 .. P[r].wanted
    BY CountTypes, TakenFits
  <1>2. TxToRead(P, r, w, piece) = Hear(T, r, P[w].tx, n)
    BY DEF TxToRead
  <1> HIDE DEF n, kept
  <1>3. P[r].wanted - kept \in Nat
    BY <1>1, CountTypes
  <1>4. Good(Q)
    BY <1>3, WantedKeeps
  <1>5. Q[w] = P[w] /\ Q[r] = [P[r] EXCEPT !.wanted = P[r].wanted - kept]
    BY DEF Good, Pairs
  <1> HIDE DEF Q
  <1>6. Drop(Q[w].tx, n) \in TxBuffers
    BY <1>1, <1>4, <1>5, CountTypes, DropKeeps
  <1>7. Good(T)
    BY <1>4, <1>6, TxKeeps
  <1> DEFINE tx == Drop(Q[w].tx, n)
  <1> HIDE DEF tx
  <1>8. T = [Q EXCEPT ![w].tx = tx]
    BY DEF tx
  <1>9. P[w] \in PortStates /\ P[r] \in PortStates /\ Q \in Pairs
    BY <1>4 DEF Good, Pairs
  <1>10. T[r] = Q[r] /\ T[w] = [P[w] EXCEPT !.tx = tx]
    BY <1>5, <1>8, <1>9 DEF Pairs
  <1> HIDE DEF T
  <1>11. /\ T[w].hand = P[w].hand /\ T[w].told = P[w].told /\ T[w].mcr = P[w].mcr
         /\ T[w].limit = P[w].limit /\ T[w].holding = P[w].holding /\ T[w].try = P[w].try
         /\ T[w].wanted = P[w].wanted /\ T[w].busy = P[w].busy
    BY <1>9, <1>10 DEF PortStates
  <1>12. /\ T[r].hand = P[r].hand /\ T[r].told = P[r].told /\ T[r].mcr = P[r].mcr
         /\ T[r].limit = P[r].limit /\ T[r].holding = P[r].holding /\ T[r].try = P[r].try
         /\ T[r].x = P[r].x /\ T[r].toSend = P[r].toSend
    BY <1>5, <1>9, <1>10 DEF PortStates
  <1>13. AsksFor(P, T, r)
    BY <1>12, AsksSame
  <1>14. Carries(P, T, r, w)
    BY <1>11, <1>12, <1>13 DEF Carries, Ports
  <1> QED BY <1>2, <1>7, <1>14, HearCarries

LEMMA TxToRingCarries ==
  ASSUME NEW P, Good(P), NEW r \in Ports, NEW w \in Ports, r # w
  PROVE  Carries(P, TxToRing(P, r, w), r, w)
  <1> DEFINE n == Moved(P, r, P[w].tx, Room(P, r))
             kept == KeptAmong(P, r, P[w].tx, n)
             Q == [P EXCEPT ![r].busy = P[r].busy + kept]
             tx == Drop(Q[w].tx, n)
             T == [Q EXCEPT ![w].tx = tx]
  <1>1. n \in 0 .. Len(P[w].tx) /\ kept \in 0 .. Room(P, r)
    BY CountTypes, RoomFits, MovedFits
  <1>2. CASE P[r].wanted > 0
    <2>1. TxToRing(P, r, w) = P
      BY <1>2 DEF TxToRing
    <2> QED BY <2>1 DEF Carries, AsksFor
  <1>3. CASE ~(P[r].wanted > 0)
    <2>1. TxToRing(P, r, w) = Hear(T, r, P[w].tx, n)
      BY <1>3 DEF TxToRing
    <2> HIDE DEF n, kept
    <2>2. P[r].busy + kept \in 0 .. Size
      BY <1>1, RoomFits
    <2>3. Good(Q)
      BY <2>2, BusyKeeps
    <2>4. Q[w] = P[w] /\ Q[r] = [P[r] EXCEPT !.busy = P[r].busy + kept]
      BY DEF Good, Pairs
    <2> HIDE DEF Q
    <2>5. tx \in TxBuffers
      BY <1>1, <2>3, <2>4, CountTypes, DropKeeps
    <2> HIDE DEF tx
    <2>6. Good(T)
      BY <2>3, <2>5, TxKeeps
    <2>7. P[w] \in PortStates /\ P[r] \in PortStates /\ Q \in Pairs
      BY <2>3 DEF Good, Pairs
    <2>8. T[r] = Q[r] /\ T[w] = [P[w] EXCEPT !.tx = tx]
      BY <2>4, <2>7 DEF Pairs
    <2> HIDE DEF T
    <2>9. /\ T[w].hand = P[w].hand /\ T[w].told = P[w].told /\ T[w].mcr = P[w].mcr
          /\ T[w].limit = P[w].limit /\ T[w].holding = P[w].holding /\ T[w].try = P[w].try
          /\ T[w].wanted = P[w].wanted /\ T[w].busy = P[w].busy
      BY <2>7, <2>8 DEF PortStates
    <2>10. /\ T[r].hand = P[r].hand /\ T[r].told = P[r].told /\ T[r].mcr = P[r].mcr
           /\ T[r].limit = P[r].limit /\ T[r].holding = P[r].holding /\ T[r].try = P[r].try
           /\ T[r].x = P[r].x /\ T[r].toSend = P[r].toSend
      BY <2>4, <2>7, <2>8 DEF PortStates
    <2>11. AsksFor(P, T, r)
      BY <2>10, AsksSame
    <2>12. Carries(P, T, r, w)
      BY <2>9, <2>10, <2>11 DEF Carries, Ports
    <2> QED BY <2>1, <2>6, <2>12, HearCarries
  <1> QED BY <1>2, <1>3

\* After the XON or XOFF went straight to the READ, it waits only if no READ is
\* left.
LEMMA XDirectCarries ==
  ASSUME NEW P, Good(P), NEW r \in Ports, NEW w \in Ports, r # w
  PROVE  LET R == XDirect(P, r, w) IN
         /\ Carries(P, R, r, w)
         /\ CanSendX(R, w) => R[r].wanted = 0
  <1> DEFINE n == KeptAmong(P, r, <<P[w].x>>, 1)
             Q == [P EXCEPT ![r].wanted = P[r].wanted - n]
             T == [Q EXCEPT ![w].x = "none"]
             R == Hear(T, r, <<P[w].x>>, 1)
  <1>1. n \in Nat /\ n <= 1
    BY KeptCounts
  <1>2. CASE P[r].wanted > 0 /\ CanSendX(P, w)
    <2>1. XDirect(P, r, w) = R
      BY <1>2 DEF XDirect
    <2> HIDE DEF n
    <2>2. P[r].wanted - n \in Nat
      BY <1>1, <1>2, CountTypes
    <2>3. Good(Q)
      BY <2>2, WantedKeeps
    <2>4. Q[w] = P[w] /\ Q[r] = [P[r] EXCEPT !.wanted = P[r].wanted - n]
      BY DEF Good, Pairs
    <2> HIDE DEF Q
    <2>5. Good(T)
      BY <2>3, XKeeps
    <2>6. P[w] \in PortStates /\ P[r] \in PortStates /\ Q \in Pairs
      BY <2>3 DEF Good, Pairs
    <2>7. T[r] = Q[r] /\ T[w] = [P[w] EXCEPT !.x = "none"]
      BY <2>4, <2>6 DEF Pairs
    <2> HIDE DEF T
    <2>8. /\ T[w].hand = P[w].hand /\ T[w].told = P[w].told /\ T[w].mcr = P[w].mcr
          /\ T[w].limit = P[w].limit /\ T[w].holding = P[w].holding /\ T[w].try = P[w].try
          /\ T[w].wanted = P[w].wanted /\ T[w].busy = P[w].busy /\ T[w].x = "none"
      BY <2>6, <2>7 DEF PortStates
    <2>9. /\ T[r].hand = P[r].hand /\ T[r].told = P[r].told /\ T[r].mcr = P[r].mcr
          /\ T[r].limit = P[r].limit /\ T[r].holding = P[r].holding /\ T[r].try = P[r].try
          /\ T[r].x = P[r].x /\ T[r].toSend = P[r].toSend
      BY <2>4, <2>6, <2>7 DEF PortStates
    <2>10. AsksFor(P, T, r)
      BY <2>9, AsksSame
    <2>11. Carries(P, T, r, w)
      BY <2>8, <2>9, <2>10 DEF Carries, Ports
    <2>12. Carries(P, R, r, w) /\ R[w] = T[w]
      BY <2>5, <2>11, HearCarries
    <2> HIDE DEF R
    <2>13. ~CanSendX(R, w)
      BY <2>8, <2>12 DEF CanSendX
    <2> QED BY <2>1, <2>12, <2>13
  <1>3. CASE ~(P[r].wanted > 0 /\ CanSendX(P, w))
    <2>1. XDirect(P, r, w) = P
      BY <1>3 DEF XDirect
    <2>2. P[r].wanted \in Nat
      BY CountTypes
    <2> QED BY <1>3, <2>1, <2>2 DEF Carries, AsksFor
  <1> QED BY <1>2, <1>3

\* After the WRITE went straight to the READ, it waits only if no READ is left.
LEMMA DataDirectCarries ==
  ASSUME NEW P, Good(P), NEW r \in Ports, NEW w \in Ports, r # w
  PROVE  LET R == DataDirect(P, r, w) IN
         /\ Carries(P, R, r, w)
         /\ CanSendX(R, w) => CanSendX(P, w)
         /\ P[r].wanted = 0 => R[r].wanted = 0
         /\ CanSendData(R, w) => R[r].wanted = 0
  <1> DEFINE n == Least(P[r].wanted, P[w].toSend)
             T == [P EXCEPT ![r].wanted = P[r].wanted - n, ![w].toSend = P[w].toSend - n]
  <1>1. CASE CanSendData(P, w)
    <2>1. DataDirect(P, r, w) = T
      BY <1>1 DEF DataDirect
    <2>2. P \in Pairs /\ P[r] \in PortStates /\ P[w] \in PortStates
      BY DEF Good, Pairs
    <2>3. P[w].toSend - n > 0 => P[r].wanted - n = 0
      BY CountTypes DEF Least
    <2>4. P[r].wanted = 0 => P[r].wanted - n = 0
      BY CountTypes DEF Least
    <2> HIDE DEF n
    <2>5. /\ T[r] = [P[r] EXCEPT !.wanted = P[r].wanted - n]
          /\ T[w] = [P[w] EXCEPT !.toSend = P[w].toSend - n]
      BY <2>2 DEF Pairs
    <2> HIDE DEF T
    <2>6. /\ T[w].hand = P[w].hand /\ T[w].told = P[w].told /\ T[w].mcr = P[w].mcr
          /\ T[w].limit = P[w].limit /\ T[w].holding = P[w].holding /\ T[w].try = P[w].try
          /\ T[w].wanted = P[w].wanted /\ T[w].busy = P[w].busy /\ T[w].x = P[w].x
          /\ T[w].toSend = P[w].toSend - n
      BY <2>2, <2>5 DEF PortStates
    <2>7. /\ T[r].hand = P[r].hand /\ T[r].told = P[r].told /\ T[r].mcr = P[r].mcr
          /\ T[r].limit = P[r].limit /\ T[r].holding = P[r].holding /\ T[r].try = P[r].try
          /\ T[r].x = P[r].x /\ T[r].toSend = P[r].toSend /\ T[r].wanted = P[r].wanted - n
      BY <2>2, <2>5 DEF PortStates
    <2>8. AsksFor(P, T, r)
      BY <2>7, AsksSame
    <2>9. Carries(P, T, r, w)
      BY <2>6, <2>7, <2>8 DEF Carries, Ports
    <2>10. CanSendData(T, w) => T[r].wanted = 0
      BY <2>3, <2>6, <2>7 DEF CanSendData
    <2>11. CanSendX(T, w) => CanSendX(P, w)
      BY <2>6 DEF CanSendX
    <2> QED BY <2>1, <2>4, <2>7, <2>9, <2>10, <2>11
  <1>2. CASE ~CanSendData(P, w)
    <2>1. DataDirect(P, r, w) = P
      BY <1>2 DEF DataDirect
    <2> QED BY <1>2, <2>1 DEF Carries, AsksFor
  <1> QED BY <1>1, <1>2

\* The buffer of p takes no more.
Filled(P, p) == P[p].busy >= P[p].limit

\* After the XON or XOFF went to the buffers, it waits only if they are filled.
LEMMA XToBuffersCarries ==
  ASSUME NEW P, Good(P), NEW r \in Ports, NEW w \in Ports, r # w
  PROVE  LET R == XToBuffers(P, r, w) IN
         /\ Carries(P, R, r, w)
         /\ CanSendX(R, w) => CanSendX(P, w) /\ Filled(R, r)
         /\ CanSendData(R, w) => CanSendData(P, w)
         /\ R[r].wanted = P[r].wanted
  <1>1. P \in Pairs /\ P[r] \in PortStates /\ P[w] \in PortStates
    BY DEF Good, Pairs
  <1>2. CASE ~CanSendX(P, w) \/ (Room(P, r) = 0 /\ ~(RoomInTx(P, w) > 0))
    <2>1. XToBuffers(P, r, w) = P
      BY <1>2, RoomFits DEF XToBuffers
    <2>2. Room(P, r) = 0 => Filled(P, r)
      BY CountTypes DEF Room, Filled
    <2> QED BY <1>2, <2>1, <2>2 DEF Carries, AsksFor
  <1>3. CASE CanSendX(P, w) /\ Room(P, r) > 0
    <2> DEFINE n == KeptAmong(P, r, <<P[w].x>>, 1)
               Q == [P EXCEPT ![r].busy = P[r].busy + n]
               T == [Q EXCEPT ![w].x = "none"]
               R == Hear(T, r, <<P[w].x>>, 1)
    <2>1. XToBuffers(P, r, w) = R
      BY <1>3 DEF XToBuffers
    <2>2. n \in 0 .. Room(P, r)
      BY <1>3, KeptCounts, RoomFits
    <2> HIDE DEF n
    <2>3. P[r].busy + n \in 0 .. Size
      BY <2>2, RoomFits
    <2>4. Good(Q)
      BY <2>3, BusyKeeps
    <2>5. Q[w] = P[w] /\ Q[r] = [P[r] EXCEPT !.busy = P[r].busy + n]
      BY <1>1 DEF Pairs
    <2> HIDE DEF Q
    <2>6. Good(T)
      BY <2>4, XKeeps
    <2>7. Q \in Pairs
      BY <2>4 DEF Good
    <2>8. T[r] = Q[r] /\ T[w] = [P[w] EXCEPT !.x = "none"]
      BY <2>5, <2>7 DEF Pairs
    <2> HIDE DEF T
    <2>9. /\ T[w].hand = P[w].hand /\ T[w].told = P[w].told /\ T[w].mcr = P[w].mcr
          /\ T[w].limit = P[w].limit /\ T[w].holding = P[w].holding /\ T[w].try = P[w].try
          /\ T[w].wanted = P[w].wanted /\ T[w].busy = P[w].busy /\ T[w].x = "none"
          /\ T[w].toSend = P[w].toSend
      BY <1>1, <2>8 DEF PortStates
    <2>10. /\ T[r].hand = P[r].hand /\ T[r].told = P[r].told /\ T[r].mcr = P[r].mcr
           /\ T[r].limit = P[r].limit /\ T[r].holding = P[r].holding /\ T[r].try = P[r].try
           /\ T[r].x = P[r].x /\ T[r].toSend = P[r].toSend /\ T[r].wanted = P[r].wanted
      BY <1>1, <2>5, <2>8 DEF PortStates
    <2>11. AsksFor(P, T, r)
      BY <2>10, AsksSame
    <2>12. Carries(P, T, r, w)
      BY <2>9, <2>10, <2>11 DEF Carries, Ports
    <2>13. Carries(P, R, r, w) /\ R[w] = T[w] /\ R[r].wanted = T[r].wanted
      BY <2>6, <2>12, HearCarries
    <2> HIDE DEF R
    <2>14. ~CanSendX(R, w) /\ (CanSendData(R, w) => CanSendData(P, w))
      BY <2>9, <2>13 DEF CanSendX, CanSendData
    <2> QED BY <2>1, <2>10, <2>13, <2>14
  <1>4. CASE CanSendX(P, w) /\ Room(P, r) = 0 /\ RoomInTx(P, w) > 0
    <2> DEFINE tx == Append(P[w].tx, P[w].x)
               T == [P EXCEPT ![w].tx = tx, ![w].x = "none"]
    <2>1. XToBuffers(P, r, w) = T
      BY <1>4 DEF XToBuffers
    <2> HIDE DEF tx
    <2>2. T[r] = P[r] /\ T[w] = [P[w] EXCEPT !.tx = tx, !.x = "none"]
      BY <1>1 DEF Pairs
    <2> HIDE DEF T
    <2>3. /\ T[w].hand = P[w].hand /\ T[w].told = P[w].told /\ T[w].mcr = P[w].mcr
          /\ T[w].limit = P[w].limit /\ T[w].holding = P[w].holding /\ T[w].try = P[w].try
          /\ T[w].wanted = P[w].wanted /\ T[w].busy = P[w].busy /\ T[w].x = "none"
          /\ T[w].toSend = P[w].toSend
      BY <1>1, <2>2 DEF PortStates
    <2>4. AsksFor(P, T, r)
      BY <2>2, AsksSame
    <2>5. Carries(P, T, r, w)
      <3>1. \A q \in Ports : q = r \/ q = w
        BY DEF Ports
      <3> QED BY <2>2, <2>3, <2>4, <3>1 DEF Carries
    <2>6. ~CanSendX(T, w) /\ (CanSendData(T, w) => CanSendData(P, w))
      BY <2>3 DEF CanSendX, CanSendData
    <2> QED BY <2>1, <2>2, <2>5, <2>6
  <1> QED BY <1>2, <1>3, <1>4, RoomFits

\* After the WRITE went to the buffers, it waits only if they are filled.
LEMMA DataToBuffersCarries ==
  ASSUME NEW P, Good(P), NEW r \in Ports, NEW w \in Ports, r # w
  PROVE  LET R == DataToBuffers(P, r, w) IN
         /\ Carries(P, R, r, w)
         /\ CanSendX(R, w) => CanSendX(P, w)
         /\ Filled(P, r) => Filled(R, r)
         /\ CanSendData(R, w) => CanSendData(P, w) /\ Filled(R, r)
         /\ R[r].wanted = P[r].wanted
  <1> DEFINE n == Least(P[w].toSend, Room(P, r))
             m == Least(P[w].toSend - n, RoomInTx(P, w))
             tx == P[w].tx \o [k \in 1 .. m |-> "data"]
             T == [P EXCEPT ![r].busy = P[r].busy + n, ![w].tx = tx,
                            ![w].toSend = P[w].toSend - n - m]
  <1>1. CASE CanSendData(P, w)
    <2>1. DataToBuffers(P, r, w) = T
      BY <1>1 DEF DataToBuffers
    <2>2. P \in Pairs /\ P[r] \in PortStates /\ P[w] \in PortStates
      BY DEF Good, Pairs
    <2>3. n \in 0 .. Room(P, r) /\ m \in Nat
          /\ (P[w].toSend - n - m > 0 => P[w].toSend > 0 /\ n = Room(P, r))
      BY CountTypes, RoomFits, TxRoomFits DEF Least
    <2>4. /\ P[w].toSend - n - m > 0 => P[r].busy + n >= P[r].limit
          /\ P[r].busy >= P[r].limit => P[r].busy + n >= P[r].limit
      BY <2>3, CountTypes DEF Room
    <2> HIDE DEF n, m, tx
    <2>5. /\ T[r] = [P[r] EXCEPT !.busy = P[r].busy + n]
          /\ T[w] = [P[w] EXCEPT !.tx = tx, !.toSend = P[w].toSend - n - m]
      BY <2>2 DEF Pairs
    <2> HIDE DEF T
    <2>6. /\ T[w].hand = P[w].hand /\ T[w].told = P[w].told /\ T[w].mcr = P[w].mcr
          /\ T[w].limit = P[w].limit /\ T[w].holding = P[w].holding /\ T[w].try = P[w].try
          /\ T[w].wanted = P[w].wanted /\ T[w].busy = P[w].busy /\ T[w].x = P[w].x
          /\ T[w].toSend = P[w].toSend - n - m
      BY <2>2, <2>5 DEF PortStates
    <2>7. /\ T[r].hand = P[r].hand /\ T[r].told = P[r].told /\ T[r].mcr = P[r].mcr
          /\ T[r].limit = P[r].limit /\ T[r].holding = P[r].holding /\ T[r].try = P[r].try
          /\ T[r].x = P[r].x /\ T[r].toSend = P[r].toSend /\ T[r].wanted = P[r].wanted
          /\ T[r].busy = P[r].busy + n
      BY <2>2, <2>5 DEF PortStates
    <2>8. AsksFor(P, T, r)
      BY <2>7, AsksSame
    <2>9. Carries(P, T, r, w)
      BY <2>6, <2>7, <2>8 DEF Carries, Ports
    <2>10. CanSendData(T, w) => CanSendData(P, w) /\ Filled(T, r)
      BY <1>1, <2>4, <2>6, <2>7 DEF CanSendData, Filled
    <2>11. CanSendX(T, w) => CanSendX(P, w)
      BY <2>6 DEF CanSendX
    <2>12. Filled(P, r) => Filled(T, r)
      BY <2>4, <2>7 DEF Filled
    <2> QED BY <2>1, <2>7, <2>9, <2>10, <2>11, <2>12
  <1>2. CASE ~CanSendData(P, w)
    <2>1. DataToBuffers(P, r, w) = P
      BY <1>2 DEF DataToBuffers
    <2> QED BY <1>2, <2>1 DEF Carries, AsksFor
  <1> QED BY <1>1, <1>2

\* The part of a pass that moves bytes.
MoveBytes(P, r, w, piece) ==
  LET Q == TxToRing(TxToRead(RingToRead(P, r), r, w, piece), r, w)
      R == DataDirect(XDirect(Q, r, w), r, w)
  IN DataToBuffers(XToBuffers(R, r, w), r, w)

\* A writer that could still send waits for a reader that has no READ and whose
\* buffer is filled.
LEMMA MoveBytesCarries ==
  ASSUME NEW P, Good(P), NEW r \in Ports, NEW w \in Ports, r # w,
         NEW piece \in Nat
  PROVE  LET S == MoveBytes(P, r, w, piece) IN
         /\ Good(S) /\ Carries(P, S, r, w)
         /\ CanSend(S, w) => S[r].wanted = 0 /\ Filled(S, r)
  <1> DEFINE Q1 == RingToRead(P, r)
             Q2 == TxToRead(Q1, r, w, piece)
             Q3 == TxToRing(Q2, r, w)
             Q4 == XDirect(Q3, r, w)
             Q5 == DataDirect(Q4, r, w)
             Q6 == XToBuffers(Q5, r, w)
             S == DataToBuffers(Q6, r, w)
  <1>1. Good(Q1) /\ Carries(P, Q1, r, w)
    BY RingToReadKeeps, RingToReadCarries
  <1> HIDE DEF Q1
  <1>2. Good(Q2) /\ Carries(Q1, Q2, r, w)
    BY <1>1, TxToReadKeeps, TxToReadCarries
  <1> HIDE DEF Q2
  <1>3. Good(Q3) /\ Carries(Q2, Q3, r, w)
    BY <1>2, TxToRingKeeps, TxToRingCarries
  <1> HIDE DEF Q3
  <1>4. Good(Q4) /\ Carries(Q3, Q4, r, w) /\ (CanSendX(Q4, w) => Q4[r].wanted = 0)
    BY <1>3, XDirectKeeps, XDirectCarries
  <1> HIDE DEF Q4
  <1>5. /\ Good(Q5) /\ Carries(Q4, Q5, r, w)
        /\ CanSendX(Q5, w) => CanSendX(Q4, w)
        /\ Q4[r].wanted = 0 => Q5[r].wanted = 0
        /\ CanSendData(Q5, w) => Q5[r].wanted = 0
    BY <1>4, DataDirectKeeps, DataDirectCarries
  <1> HIDE DEF Q5
  <1>6. /\ Good(Q6) /\ Carries(Q5, Q6, r, w)
        /\ CanSendX(Q6, w) => CanSendX(Q5, w) /\ Filled(Q6, r)
        /\ CanSendData(Q6, w) => CanSendData(Q5, w)
        /\ Q6[r].wanted = Q5[r].wanted
    BY <1>5, XToBuffersKeeps, XToBuffersCarries
  <1> HIDE DEF Q6
  <1>7. /\ Good(S) /\ Carries(Q6, S, r, w)
        /\ CanSendX(S, w) => CanSendX(Q6, w)
        /\ Filled(Q6, r) => Filled(S, r)
        /\ CanSendData(S, w) => CanSendData(Q6, w) /\ Filled(S, r)
        /\ S[r].wanted = Q6[r].wanted
    BY <1>6, DataToBuffersKeeps, DataToBuffersCarries
  <1> HIDE DEF S
  <1>8. Carries(P, S, r, w)
    BY <1>1, <1>2, <1>3, <1>4, <1>5, <1>6, <1>7, CarriesTransitive
  <1>9. CanSend(S, w) => S[r].wanted = 0 /\ Filled(S, r)
    BY <1>4, <1>5, <1>6, <1>7 DEF CanSend
  <1> QED BY <1>7, <1>8, <1>9 DEF MoveBytes, S, Q6, Q5, Q4, Q3, Q2, Q1

-----------------------------------------------------------------------------
(* SET_HANDFLOW: what the new settings tell the peer *)

\* The pin of a way that is a line.
PinOf(w) == IF w = "CTS" THEN "RTS" ELSE "DTR"

\* A new value of AUTO_RECEIVE tells the peer by an XOFF, or takes back that it did.
LEMMA AutoReceiveTells ==
  ASSUME NEW P, Good(P), NEW p \in Ports, NEW h
  PROVE  LET Q == ChangeAutoReceive(P, p, h) IN
         /\ Tells(P, Q, p) /\ Q[p].mcr = P[p].mcr
         /\ Q[p].told = IF h.autoRx
                        THEN IF Full(P, p, h) THEN P[p].told \cup {"XON"} ELSE P[p].told
                        ELSE P[p].told \ {"XON"}
  <1>1. P \in Pairs /\ P[p] \in PortStates
    BY DEF Good, Pairs
  <1>2. CASE h.autoRx /\ Full(P, p, h)
    <2>1. ChangeAutoReceive(P, p, h) = SendXoff(P, p, h)
      BY <1>2 DEF ChangeAutoReceive
    <2>2. /\ Tells(P, SendXoff(P, p, h), p)
          /\ SendXoff(P, p, h)[p].told = P[p].told \cup {"XON"}
          /\ SendXoff(P, p, h)[p].mcr = P[p].mcr
      BY XoffAsks
    <2> QED BY <1>2, <2>1, <2>2
  <1>3. CASE ~h.autoRx /\ "XON" \in P[p].told
    <2> DEFINE told == P[p].told \ {"XON"}
               held == P[p].holding \ {"XON"}
               x == IF P[p].x = "off" THEN "none" ELSE "on"
               b == P[p].try \/ P[p].x # "off"
               Q == [P EXCEPT ![p].told = told, ![p].holding = held, ![p].x = x,
                              ![p].try = b]
    <2>1. ChangeAutoReceive(P, p, h) = Q
      BY <1>3 DEF ChangeAutoReceive
    <2>2. /\ P[p].try => b
          /\ ~b => P[p].x = "off" /\ x = "none"
          /\ held = {} => P[p].holding \subseteq {"XON"}
      OBVIOUS
    <2> HIDE DEF told, held, x, b
    <2>3. /\ Q[p].told = told /\ Q[p].holding = held /\ Q[p].x = x /\ Q[p].try = b
          /\ \A q \in Ports :
               /\ q # p => Q[q] = P[q]
               /\ Q[q].hand = P[q].hand /\ Q[q].limit = P[q].limit
               /\ Q[q].busy = P[q].busy /\ Q[q].mcr = P[q].mcr
               /\ Q[q].toSend = P[q].toSend /\ Q[q].wanted = P[q].wanted
      BY <1>1 DEF Pairs, PortStates
    <2> HIDE DEF Q
    <2>4. AsksFor(P, Q, p)
      BY <2>2, <2>3 DEF AsksFor, CanSend, CanSendData, CanSendX
    <2>5. \A q \in Ports : AsksFor(P, Q, q)
      BY <2>3, <2>4, AsksSame
    <2>6. Tells(P, Q, p)
      BY <2>3, <2>5 DEF Tells
    <2> QED BY <1>3, <2>1, <2>3, <2>6 DEF told
  <1>4. CASE ~(h.autoRx /\ Full(P, p, h)) /\ ~(~h.autoRx /\ "XON" \in P[p].told)
    <2>1. ChangeAutoReceive(P, p, h) = P
      BY <1>4 DEF ChangeAutoReceive
    <2>2. Tells(P, P, p)
      BY DEF Tells, AsksFor
    <2> QED BY <1>4, <2>1, <2>2
  <1> QED BY <1>2, <1>3, <1>4

\* A new mode of a line begins with the peer told what the buffer says, and ends
\* with the line no reason to wait.
LEMMA ToldByMode ==
  ASSUME NEW P, NEW p, NEW h, NEW w, NEW mode \in Modes,
         w \notin P[p].told \/ mode # "toggle",
         mode = "handshake" => w \notin P[p].told
  PROVE  /\ \A v : v # w => (v \in Told(P, p, h, w, mode) <=> v \in P[p].told)
         /\ w \in Told(P, p, h, w, mode) <=> mode = "handshake" /\ Full(P, p, h)
BY DEF Told, Modes

\* What p tells its peer by the settings h after it told it told by the settings
\* old: full is what the buffer says.
NewlyTold(told, old, h, full) ==
  {w \in Ways(h) : IF w \in Ways(old) THEN w \in told ELSE full}

\* To note settings lets nobody send.
LEMMA HandAsks ==
  ASSUME NEW P, Good(P), NEW p \in Ports, NEW h \in HandFlows
  PROVE  LET Q == [P EXCEPT ![p].hand = h] IN
         /\ Q \in Pairs /\ Q[p].hand = h
         /\ \A q \in Ports :
              /\ q # p => Q[q] = P[q]
              /\ Q[q].told = P[q].told /\ Q[q].mcr = P[q].mcr /\ Q[q].busy = P[q].busy
              /\ Q[q].toSend = P[q].toSend /\ Q[q].wanted = P[q].wanted
              /\ AsksFor(P, Q, q)
  <1> DEFINE Q == [P EXCEPT ![p].hand = h]
  <1>1. P \in Pairs /\ P[p] \in PortStates
    BY DEF Good, Pairs
  <1>2. [P[p] EXCEPT !.hand = h] \in PortStates
    BY <1>1 DEF PortStates
  <1>3. Q \in Pairs
    BY <1>1, <1>2 DEF Pairs
  <1>4. /\ Q[p].hand = h
        /\ \A q \in Ports :
             /\ q # p => Q[q] = P[q]
             /\ Q[q].told = P[q].told /\ Q[q].mcr = P[q].mcr /\ Q[q].busy = P[q].busy
             /\ Q[q].toSend = P[q].toSend /\ Q[q].wanted = P[q].wanted
             /\ Q[q].x = P[q].x /\ Q[q].holding = P[q].holding /\ Q[q].try = P[q].try
    BY <1>1 DEF Pairs, PortStates
  <1> HIDE DEF Q
  <1>5. \A q \in Ports : AsksFor(P, Q, q)
    BY <1>4, AsksSame
  <1> QED BY <1>3, <1>4, <1>5 DEF Q

\* SetLimit sets the limit that the settings of both ports make, and nothing else.
LEMMA LimitAsks ==
  ASSUME NEW P, Good(P), NEW p \in Ports
  PROVE  LET Q == SetLimit(P, p) IN
         /\ Q[p].limit = LimitOf(P, p)
         /\ \A q \in Ports :
              /\ q # p => Q[q].limit = P[q].limit
              /\ Q[q].hand = P[q].hand
              /\ Q[q].told = P[q].told /\ Q[q].mcr = P[q].mcr /\ Q[q].busy = P[q].busy
              /\ Q[q].toSend = P[q].toSend /\ Q[q].wanted = P[q].wanted
              /\ AsksFor(P, Q, q)
  <1> DEFINE limit == LimitOf(P, p)
             Q == [P EXCEPT ![p].limit = limit]
  <1>1. P \in Pairs /\ P[p] \in PortStates
    BY DEF Good, Pairs
  <1>2. SetLimit(P, p) = Q
    BY DEF SetLimit
  <1> HIDE DEF limit
  <1>3. /\ Q[p].limit = limit
        /\ \A q \in Ports :
             /\ q # p => Q[q].limit = P[q].limit
             /\ Q[q].hand = P[q].hand
             /\ Q[q].told = P[q].told /\ Q[q].mcr = P[q].mcr /\ Q[q].busy = P[q].busy
             /\ Q[q].toSend = P[q].toSend /\ Q[q].wanted = P[q].wanted
             /\ Q[q].x = P[q].x /\ Q[q].holding = P[q].holding /\ Q[q].try = P[q].try
    BY <1>1 DEF Pairs, PortStates
  <1> HIDE DEF Q
  <1>4. \A q \in Ports : AsksFor(P, Q, q)
    BY <1>3, AsksSame
  <1> QED BY <1>2, <1>3, <1>4 DEF limit

\* SET_HANDFLOW: a way to stop the peer that goes on says what it said; one that
\* begins, with its pin, says what the buffer does.
LEMMA NewHandTells ==
  ASSUME NEW P, Good(P), NEW p \in Ports, NEW h \in HandFlows,
         P[p].told \subseteq Ways(P[p].hand),
         ~(P[p].hand.rts = "handshake" /\ h.rts = "toggle")
  PROVE  LET Q == NewHand(P, p, h)
             ways == Ways(P[p].hand)
         IN /\ Q[p].hand = h
            /\ Q[p].told = NewlyTold(P[p].told, P[p].hand, h, Full(P, p, h))
            /\ \A w \in Ways(h) \ {"XON"} :
                 PinOf(w) \in Q[p].mcr <=> IF w \in ways THEN PinOf(w) \in P[p].mcr
                                                         ELSE ~Full(P, p, h)
            /\ \A q \in Ports :
                 /\ Q[q].limit = LimitOf(Q, q)
                 /\ Q[q].busy = P[q].busy /\ Q[q].toSend = P[q].toSend
                 /\ Q[q].wanted = P[q].wanted
                 /\ q # p => /\ Q[q].hand = P[q].hand /\ Q[q].told = P[q].told
                             /\ Q[q].mcr = P[q].mcr
                 /\ AsksFor(P, Q, q)
  <1> DEFINE old == P[p].hand
             rts == old.rts # h.rts
             dtr == old.dtr # h.dtr
             P1 == IF old.autoTx /\ ~h.autoTx THEN SetXonXoffHolding(P, p, "on") ELSE P
             P2 == IF rts THEN [P1 EXCEPT ![p].told = Told(P1, p, h, "CTS", h.rts)] ELSE P1
             P3 == IF dtr THEN [P2 EXCEPT ![p].told = Told(P2, p, h, "DSR", h.dtr)] ELSE P2
             P4 == IF old.autoRx # h.autoRx THEN ChangeAutoReceive(P3, p, h) ELSE P3
             P5 == [P4 EXCEPT ![p].hand = h]
             P6 == IF old.out # h.out THEN SetModemStatusHolding(P5, p) ELSE P5
             bits == {pin \in {"RTS", "DTR"} :
                        \/ pin = "RTS" /\ rts /\ Raised(P, p, h, "CTS", h.rts)
                        \/ pin = "DTR" /\ dtr /\ Raised(P, p, h, "DSR", h.dtr)}
             mask == bits \cup {pin \in {"RTS", "DTR"} :
                                  \/ pin = "RTS" /\ rts /\ Lowered(P, p, h, h.rts)
                                  \/ pin = "DTR" /\ dtr /\ Lowered(P, p, h, h.dtr)}
             P7 == SetModemControl(P6, p, bits, mask)
             P8 == UpdateTransmitToggle(P7, p)
             P9 == SetLimit(P8, Other(p))
             Q == SetLimit(P9, p)
             full == Full(P, p, h)
  <1>0. NewHand(P, p, h) = Q
    BY DEF NewHand
  <1>1. /\ h.rts \in Modes /\ h.dtr \in Modes /\ h.dtr # "toggle"
        /\ old.rts \in Modes /\ old.dtr \in Modes /\ old.dtr # "toggle"
        /\ old.autoRx \in BOOLEAN /\ h.autoRx \in BOOLEAN
    BY DEF Good, Pairs, PortStates, HandFlows
  <1>2. /\ "CTS" \in P[p].told => old.rts = "handshake"
        /\ "DSR" \in P[p].told => old.dtr = "handshake"
        /\ "XON" \in P[p].told => old.autoRx
    BY DEF Ways
  <1>3. mask \subseteq Pins
    BY DEF Pins
  <1>4. /\ rts /\ h.rts = "handshake" => "RTS" \in mask /\ ("RTS" \in bits <=> ~full)
        /\ dtr /\ h.dtr = "handshake" => "DTR" \in mask /\ ("DTR" \in bits <=> ~full)
        /\ ~rts => "RTS" \notin mask
        /\ ~dtr => "DTR" \notin mask
    BY <1>2 DEF Raised, Lowered
  <1> HIDE DEF mask, bits
  <1>5. Good(P1) /\ Tells(P, P1, p) /\ P1[p].told = P[p].told /\ P1[p].mcr = P[p].mcr
    <2>1. CASE old.autoTx /\ ~h.autoTx
      <3>1. Good(P1)
        BY <2>1, XonXoffHolding
      <3>2. OnlyHolding(P, P1, p)
        BY <2>1, XonXoffAsks
      <3> HIDE DEF P1
      <3>3. \A q \in Ports : AsksFor(P, P1, q)
        BY <3>2 DEF OnlyHolding, AsksFor, CanSend, CanSendData, CanSendX
      <3> QED BY <3>1, <3>2, <3>3 DEF OnlyHolding, Tells
    <2>2. CASE ~(old.autoTx /\ ~h.autoTx)
      BY <2>2 DEF Tells, AsksFor
    <2> QED BY <2>1, <2>2
  <1> HIDE DEF P1
  <1>6. /\ Good(P2) /\ Tells(P, P2, p) /\ P2[p].mcr = P[p].mcr
        /\ \A v : v # "CTS" => (v \in P2[p].told <=> v \in P[p].told)
        /\ "CTS" \in P2[p].told <=> /\ h.rts = "handshake"
                                    /\ IF old.rts = "handshake"
                                       THEN "CTS" \in P[p].told ELSE full
    <2> DEFINE told == Told(P1, p, h, "CTS", h.rts)
               R == [P1 EXCEPT ![p].told = told]
    <2>1. told \subseteq {"CTS", "DSR", "XON"}
      BY <1>5, ToldInRange
    <2>2. Full(P1, p, h) <=> full
      BY <1>5 DEF Tells, Full
    <2>3. CASE rts
      <3>1. /\ \A v : v # "CTS" => (v \in told <=> v \in P1[p].told)
            /\ "CTS" \in told <=> h.rts = "handshake" /\ full
        BY <1>1, <1>2, <1>5, <2>2, <2>3, ToldByMode
      <3> HIDE DEF told, full
      <3>2. Good(R)
        BY <1>5, <2>1, ToldKeeps
      <3>3. Tells(P1, R, p)
        BY <1>5, <2>1, ToldAsks
      <3>4. R[p].told = told /\ R[p].mcr = P1[p].mcr
        BY <1>5 DEF Good, Pairs, PortStates
      <3>5. P2 = R
        BY <2>3 DEF told
      <3> HIDE DEF R, P2
      <3>6. Tells(P, P2, p)
        BY <1>5, <3>3, <3>5, TellsTransitive
      <3> QED BY <1>5, <2>3, <3>1, <3>2, <3>4, <3>5, <3>6
    <2>4. CASE ~rts
      BY <1>2, <1>5, <2>4
    <2> QED BY <2>3, <2>4
  <1> HIDE DEF P2
  <1>7. /\ Good(P3) /\ Tells(P, P3, p) /\ P3[p].mcr = P[p].mcr
        /\ \A v : v # "DSR" => (v \in P3[p].told <=> v \in P2[p].told)
        /\ "DSR" \in P3[p].told <=> /\ h.dtr = "handshake"
                                    /\ IF old.dtr = "handshake"
                                       THEN "DSR" \in P[p].told ELSE full
    <2> DEFINE told == Told(P2, p, h, "DSR", h.dtr)
               R == [P2 EXCEPT ![p].told = told]
    <2>1. told \subseteq {"CTS", "DSR", "XON"}
      BY <1>6, ToldInRange
    <2>2. Full(P2, p, h) <=> full
      BY <1>6 DEF Tells, Full
    <2>3. CASE dtr
      <3>1. /\ \A v : v # "DSR" => (v \in told <=> v \in P2[p].told)
            /\ "DSR" \in told <=> h.dtr = "handshake" /\ full
        BY <1>1, <1>2, <1>6, <2>2, <2>3, ToldByMode
      <3> HIDE DEF told, full
      <3>2. Good(R)
        BY <1>6, <2>1, ToldKeeps
      <3>3. Tells(P2, R, p)
        BY <1>6, <2>1, ToldAsks
      <3>4. R[p].told = told /\ R[p].mcr = P2[p].mcr
        BY <1>6 DEF Good, Pairs, PortStates
      <3>5. P3 = R
        BY <2>3 DEF told
      <3> HIDE DEF R, P3
      <3>6. Tells(P, P3, p)
        BY <1>6, <3>3, <3>5, TellsTransitive
      <3> QED BY <1>6, <2>3, <3>1, <3>2, <3>4, <3>5, <3>6
    <2>4. CASE ~dtr
      BY <1>2, <1>6, <2>4
    <2> QED BY <2>3, <2>4
  <1> HIDE DEF P3
  <1>8. /\ Good(P4) /\ Tells(P, P4, p) /\ P4[p].mcr = P[p].mcr
        /\ \A v : v # "XON" => (v \in P4[p].told <=> v \in P3[p].told)
        /\ "XON" \in P4[p].told <=> /\ h.autoRx
                                    /\ IF old.autoRx THEN "XON" \in P[p].told ELSE full
    <2> DEFINE R == ChangeAutoReceive(P3, p, h)
    <2>1. Full(P3, p, h) <=> full
      BY <1>7 DEF Tells, Full
    <2>2. "XON" \in P3[p].told <=> "XON" \in P[p].told
      BY <1>6, <1>7
    <2>3. CASE old.autoRx # h.autoRx
      <3>1. Good(R)
        BY <1>7, AutoReceiveKeeps
      <3>2. /\ Tells(P3, R, p) /\ R[p].mcr = P3[p].mcr
            /\ R[p].told = IF h.autoRx
                           THEN IF Full(P3, p, h) THEN P3[p].told \cup {"XON"} ELSE P3[p].told
                           ELSE P3[p].told \ {"XON"}
        BY <1>7, AutoReceiveTells
      <3>3. P4 = R
        BY <2>3
      <3> HIDE DEF R, P4, full
      <3>4. Tells(P, P4, p)
        BY <1>7, <3>2, <3>3, TellsTransitive
      <3> QED BY <1>1, <1>2, <1>7, <2>1, <2>2, <2>3, <3>1, <3>2, <3>3, <3>4
    <2>4. CASE old.autoRx = h.autoRx
      BY <1>1, <1>2, <1>7, <2>2, <2>4
    <2> QED BY <2>3, <2>4
  <1> HIDE DEF P4
  <1>9. P4[p].told = NewlyTold(P[p].told, old, h, full)
    <2>1. P4[p].told \subseteq {"CTS", "DSR", "XON"}
      BY <1>8 DEF Good, Pairs, PortStates
    <2>2. /\ "CTS" \in P4[p].told <=> "CTS" \in NewlyTold(P[p].told, old, h, full)
          /\ "DSR" \in P4[p].told <=> "DSR" \in NewlyTold(P[p].told, old, h, full)
          /\ "XON" \in P4[p].told <=> "XON" \in NewlyTold(P[p].told, old, h, full)
      BY <1>6, <1>7, <1>8 DEF NewlyTold, Ways
    <2>3. NewlyTold(P[p].told, old, h, full) \subseteq {"CTS", "DSR", "XON"}
      BY SomeWays DEF NewlyTold
    <2> QED BY <2>1, <2>2, <2>3
  <1>10. Good(P6)
    <2>1. P4[p].hand = old
      BY <1>8 DEF Tells
    <2> QED BY <1>8, <2>1, SettingsKeep
  <1>11. /\ P6[p].hand = h /\ P6[p].told = P4[p].told
         /\ \A q \in Ports :
              /\ P6[q].mcr = P4[q].mcr /\ P6[q].busy = P4[q].busy
              /\ P6[q].toSend = P4[q].toSend /\ P6[q].wanted = P4[q].wanted
              /\ q # p => P6[q].hand = P4[q].hand /\ P6[q].told = P4[q].told
              /\ AsksFor(P4, P6, q)
    <2>1. /\ P5 \in Pairs /\ P5[p].hand = h
          /\ \A q \in Ports :
               /\ q # p => P5[q] = P4[q]
               /\ P5[q].told = P4[q].told /\ P5[q].mcr = P4[q].mcr /\ P5[q].busy = P4[q].busy
               /\ P5[q].toSend = P4[q].toSend /\ P5[q].wanted = P4[q].wanted
               /\ AsksFor(P4, P5, q)
      BY <1>8, HandAsks
    <2> HIDE DEF P5
    <2>2. LinesOnly(P5, P6) /\ \A q \in Ports : P6[q].mcr = P5[q].mcr
      <3>1. CASE old.out # h.out
        BY <2>1, <3>1, StatusHoldingAsks
      <3>2. CASE old.out = h.out
        BY <3>2 DEF LinesOnly, AsksFor
      <3> QED BY <3>1, <3>2
    <2> HIDE DEF P6
    <2>3. \A q \in Ports : AsksFor(P4, P6, q)
      BY <2>1, <2>2, AsksTransitive DEF LinesOnly
    <2> QED BY <2>1, <2>2, <2>3 DEF LinesOnly
  <1> HIDE DEF P6
  <1>12. /\ Good(P7) /\ Tells(P6, P7, p) /\ P7[p].told = P6[p].told
         /\ P7[p].mcr = (P6[p].mcr \ mask) \cup (bits \cap mask)
    BY <1>3, <1>10, ModemControl, ControlTells
  <1> HIDE DEF P7
  <1>13. /\ Good(P8) /\ Tells(P7, P8, p) /\ P8[p].told = P7[p].told
         /\ P8[p].mcr \ {"RTS"} = P7[p].mcr \ {"RTS"}
         /\ h.rts # "toggle" => P8[p].mcr = P7[p].mcr
    <2>1. P7[p].hand = h
      BY <1>11, <1>12 DEF Tells
    <2> QED BY <1>12, <2>1, ToggleKeeps, ToggleTells
  <1> HIDE DEF P8
  <1>14. /\ Good(P9) /\ P9[Other(p)].limit = LimitOf(P8, Other(p))
         /\ \A q \in Ports :
              /\ P9[q].hand = P8[q].hand
              /\ P9[q].told = P8[q].told /\ P9[q].mcr = P8[q].mcr /\ P9[q].busy = P8[q].busy
              /\ P9[q].toSend = P8[q].toSend /\ P9[q].wanted = P8[q].wanted
              /\ AsksFor(P8, P9, q)
    BY <1>13, TheOther, LimitKeeps, LimitAsks
  <1> HIDE DEF P9
  <1>15. /\ Q[p].limit = LimitOf(P9, p)
         /\ \A q \in Ports :
              /\ q # p => Q[q].limit = P9[q].limit
              /\ Q[q].hand = P9[q].hand
              /\ Q[q].told = P9[q].told /\ Q[q].mcr = P9[q].mcr /\ Q[q].busy = P9[q].busy
              /\ Q[q].toSend = P9[q].toSend /\ Q[q].wanted = P9[q].wanted
              /\ AsksFor(P9, Q, q)
    BY <1>14, LimitAsks
  <1> HIDE DEF Q
  <1>16. \A q \in Ports : Q[q].limit = LimitOf(Q, q)
    <2>1. \A q \in Ports : LimitOf(P8, q) = LimitOf(Q, q) /\ LimitOf(P9, q) = LimitOf(Q, q)
      BY <1>14, <1>15, TheOther DEF LimitOf
    <2> QED BY <1>14, <1>15, <2>1, TheOther, Two
  <1>17. \A q \in Ports : AsksFor(P, Q, q)
    <2> TAKE q \in Ports
    <2>1. AsksFor(P, P4, q) /\ AsksFor(P4, P6, q) /\ AsksFor(P6, P7, q)
          /\ AsksFor(P7, P8, q) /\ AsksFor(P8, P9, q) /\ AsksFor(P9, Q, q)
      BY <1>8, <1>11, <1>12, <1>13, <1>14, <1>15 DEF Tells
    <2> QED BY <2>1 DEF AsksFor
  <1>18. Q[p].hand = h /\ Q[p].told = NewlyTold(P[p].told, old, h, full)
    BY <1>9, <1>11, <1>12, <1>13, <1>14, <1>15 DEF Tells
  <1>19. \A q \in Ports :
           /\ Q[q].busy = P[q].busy /\ Q[q].toSend = P[q].toSend
           /\ Q[q].wanted = P[q].wanted
           /\ q # p => /\ Q[q].hand = P[q].hand /\ Q[q].told = P[q].told
                       /\ Q[q].mcr = P[q].mcr
    BY <1>8, <1>11, <1>12, <1>13, <1>14, <1>15 DEF Tells
  <1>20. \A w \in Ways(h) \ {"XON"} :
           PinOf(w) \in Q[p].mcr <=> IF w \in Ways(old) THEN PinOf(w) \in P[p].mcr
                                                        ELSE ~full
    <2> HIDE DEF full
    <2>1. P6[p].mcr = P[p].mcr /\ Q[p].mcr = P8[p].mcr
      BY <1>8, <1>11, <1>14, <1>15
    <2>2. \A pin : pin \in P7[p].mcr <=> IF pin \in mask THEN pin \in bits
                                                       ELSE pin \in P[p].mcr
      BY <1>12, <2>1
    <2>3. CASE "CTS" \in Ways(h)
      <3>1. h.rts = "handshake"
        BY <2>3 DEF Ways
      <3>2. Q[p].mcr = P7[p].mcr
        BY <1>13, <2>1, <3>1
      <3>3. "RTS" \in Q[p].mcr <=> IF "CTS" \in Ways(old) THEN "RTS" \in P[p].mcr ELSE ~full
        BY <1>4, <2>2, <3>1, <3>2 DEF Ways
      <3>4. "DSR" \in Ways(h) =>
              ("DTR" \in Q[p].mcr <=> IF "DSR" \in Ways(old) THEN "DTR" \in P[p].mcr ELSE ~full)
        BY <1>4, <2>2, <3>2 DEF Ways
      <3> QED BY <3>3, <3>4, SomeWays DEF PinOf
    <2>4. CASE "CTS" \notin Ways(h)
      <3>1. "DTR" \in Q[p].mcr <=> "DTR" \in P7[p].mcr
        BY <1>13, <2>1
      <3>2. "DSR" \in Ways(h) =>
              ("DTR" \in Q[p].mcr <=> IF "DSR" \in Ways(old) THEN "DTR" \in P[p].mcr ELSE ~full)
        BY <1>4, <2>2, <3>1 DEF Ways
      <3> QED BY <2>4, <3>2, SomeWays DEF PinOf
    <2> QED BY <2>3, <2>4
  <1> QED BY <1>0, <1>16, <1>17, <1>18, <1>19, <1>20

-----------------------------------------------------------------------------
(* What the peer is told goes with the settings and with the buffer *)

\* A port tells its peer to wait only by the ways its settings have.
TellsInWays(P) == \A p \in Ports : P[p].told \subseteq Ways(P[p].hand)

\* SignalFollows, of a pair: a pin is low while the peer is told to stop by it.
PinsSay(P) ==
  \A p \in Ports : \A w \in Ways(P[p].hand) \ {"XON"} :
    PinOf(w) \in P[p].mcr <=> w \notin P[p].told

\* From P to Q the settings stay, and what r tells its peer changes as
\* UpdateHandFlow decides when bytes came or went.
Adjusts(P, Q, r) ==
  /\ \A q \in Ports : /\ Q[q].hand = P[q].hand /\ Q[q].limit = P[q].limit
                      /\ q # r => Q[q].told = P[q].told /\ Q[q].busy = P[q].busy
  /\ LET h == P[r].hand IN
     \/ /\ P[r].told = {} /\ Full(Q, r, h) /\ Q[r].told = Ways(h)
     \/ /\ P[r].told # {} /\ Low(Q, r, h) /\ Q[r].told = P[r].told \ Ways(h)
     \/ /\ Q[r].busy >= P[r].busy /\ Q[r].told = P[r].told
        /\ Full(Q, r, h) => P[r].told # {}
     \/ /\ Q[r].busy <= P[r].busy /\ Q[r].told = P[r].told
        /\ Low(Q, r, h) => P[r].told = {}
     \/ /\ Q[r].busy = P[r].busy /\ Q[r].told = P[r].told

LEMMA WaysAndPins ==
  \A h : \A w \in Ways(h) \ {"XON"} : PinOf(w) \in PinsOf(Ways(h))
BY SomeWays DEF PinsOf, PinOf

\* UpdateHandFlow keeps pins and messages together.
LEMMA HandFlowPins ==
  ASSUME NEW P, Good(P), NEW p \in Ports, NEW freed \in BOOLEAN, TellsInWays(P), PinsSay(P)
  PROVE  PinsSay(UpdateHandFlow(P, p, freed))
  <1> DEFINE Q == UpdateHandFlow(P, p, freed)
             ways == Ways(P[p].hand)
  <1>1. /\ Tells(P, Q, p)
        /\ \/ P[p].told = {} /\ Q[p].told = ways /\ Q[p].mcr = P[p].mcr \ PinsOf(ways)
           \/ Q[p].told = P[p].told \ ways /\ Q[p].mcr = P[p].mcr \cup PinsOf(ways)
           \/ Q = P
    BY HandFlowTells
  <1> HIDE DEF Q
  <1>2. \A w \in ways \ {"XON"} : PinOf(w) \in Q[p].mcr <=> w \notin Q[p].told
    BY <1>1, WaysAndPins DEF PinsSay
  <1>3. PinsSay(Q)
    BY <1>1, <1>2 DEF Tells, PinsSay
  <1> QED BY <1>3 DEF Q

\* So does UpdateTransmitToggle: in its mode RTS is not a way to stop the peer.
LEMMA TogglePins ==
  ASSUME NEW P, Good(P), NEW p \in Ports, PinsSay(P)
  PROVE  PinsSay(UpdateTransmitToggle(P, p))
  <1> DEFINE Q == UpdateTransmitToggle(P, p)
  <1>1. /\ Tells(P, Q, p) /\ Q[p].told = P[p].told
        /\ Q[p].mcr \ {"RTS"} = P[p].mcr \ {"RTS"}
        /\ P[p].hand.rts # "toggle" => Q[p].mcr = P[p].mcr
    BY ToggleTells
  <1> HIDE DEF Q
  <1>2. \A w \in Ways(P[p].hand) \ {"XON"} :
          PinOf(w) \in Q[p].mcr <=> PinOf(w) \in P[p].mcr
    BY <1>1 DEF Ways, PinOf
  <1>3. PinsSay(Q)
    BY <1>1, <1>2 DEF Tells, PinsSay
  <1> QED BY <1>3 DEF Q

\* A whole pass: the bytes it moves, what UpdateHandFlow makes of them, and the
\* toggling of RTS.
LEMMA TurnAdjusts ==
  ASSUME NEW P, Good(P), NEW r \in Ports, NEW w \in Ports, r # w,
         NEW piece \in Nat
  PROVE  LET S == MoveBytes(P, r, w, piece)
             Q == TryReadWrite(P, r, w, piece)
         IN /\ Adjusts(P, Q, r)
            /\ TellsInWays(P) /\ PinsSay(P) => PinsSay(Q)
            /\ \A q \in Ports : /\ AsksFor(S, Q, q)
                                /\ Q[q].wanted = S[q].wanted /\ Q[q].busy = S[q].busy
  <1> DEFINE S == MoveBytes(P, r, w, piece)
             T == CASE P[r].busy > S[r].busy -> UpdateHandFlow(S, r, TRUE)
                    [] P[r].busy < S[r].busy -> UpdateHandFlow(S, r, FALSE)
                    [] OTHER -> S
             Q == UpdateTransmitToggle(T, w)
             h == P[r].hand
  <1>1. TryReadWrite(P, r, w, piece) = Q
    BY DEF TryReadWrite, MoveBytes
  <1>2. Good(S) /\ Carries(P, S, r, w)
    BY MoveBytesCarries
  <1> HIDE DEF S
  <1>3. /\ P[r].busy \in Int /\ S[r].busy \in Int
    BY <1>2, CountTypes
  <1>4. S[r].hand = h /\ S[r].told = P[r].told
    BY <1>2 DEF Carries
  <1>5. TellsInWays(P) /\ PinsSay(P) => TellsInWays(S) /\ PinsSay(S)
    BY <1>2 DEF Carries, TellsInWays, PinsSay
  <1>6. /\ Good(T) /\ Tells(S, T, r)
        /\ TellsInWays(P) /\ PinsSay(P) => PinsSay(T)
        /\ \/ /\ P[r].told = {} /\ Full(T, r, h) /\ T[r].told = Ways(h)
           \/ /\ P[r].told # {} /\ Low(T, r, h) /\ T[r].told = P[r].told \ Ways(h)
           \/ /\ T[r].busy >= P[r].busy /\ T[r].told = P[r].told
              /\ Full(T, r, h) => P[r].told # {}
           \/ /\ T[r].busy <= P[r].busy /\ T[r].told = P[r].told
              /\ Low(T, r, h) => P[r].told = {}
           \/ /\ T[r].busy = P[r].busy /\ T[r].told = P[r].told
    <2>1. CASE P[r].busy > S[r].busy
      <3> DEFINE U == UpdateHandFlow(S, r, TRUE)
      <3>0. ~(P[r].busy < S[r].busy)
        BY <1>3, <2>1
      <3>1. T = U
        BY <2>1, <3>0
      <3>2. Good(U) /\ (TellsInWays(P) /\ PinsSay(P) => PinsSay(U))
        BY <1>2, <1>5, HandFlowKeeps, HandFlowPins
      <3>3. /\ Tells(S, U, r)
            /\ \/ /\ S[r].told # {} /\ Low(S, r, S[r].hand)
                  /\ U[r].told = S[r].told \ Ways(S[r].hand)
               \/ ~(S[r].told # {} /\ Low(S, r, S[r].hand)) /\ U = S
        BY <1>2, HandFlowTells
      <3> HIDE DEF T, U
      <3> QED BY <1>3, <1>4, <2>1, <3>1, <3>2, <3>3 DEF Tells, Low
    <2>2. CASE P[r].busy < S[r].busy
      <3> DEFINE U == UpdateHandFlow(S, r, FALSE)
      <3>0. ~(P[r].busy > S[r].busy)
        BY <1>3, <2>2
      <3>1. T = U
        BY <2>2, <3>0
      <3>2. Good(U) /\ (TellsInWays(P) /\ PinsSay(P) => PinsSay(U))
        BY <1>2, <1>5, HandFlowKeeps, HandFlowPins
      <3>3. /\ Tells(S, U, r)
            /\ \/ /\ S[r].told = {} /\ Full(S, r, S[r].hand)
                  /\ U[r].told = Ways(S[r].hand)
               \/ ~(S[r].told = {} /\ Full(S, r, S[r].hand)) /\ U = S
        BY <1>2, HandFlowTells
      <3> HIDE DEF T, U
      <3> QED BY <1>3, <1>4, <2>2, <3>1, <3>2, <3>3 DEF Tells, Full
    <2>3. CASE P[r].busy = S[r].busy
      <3>0. ~(P[r].busy > S[r].busy) /\ ~(P[r].busy < S[r].busy)
        BY <1>3, <2>3
      <3>1. T = S
        BY <3>0
      <3> HIDE DEF T
      <3> QED BY <1>2, <1>4, <1>5, <2>3, <3>1 DEF Tells, AsksFor
    <2>4. P[r].busy > S[r].busy \/ P[r].busy < S[r].busy \/ P[r].busy = S[r].busy
      BY <1>3
    <2> HIDE DEF T
    <2> QED BY <2>1, <2>2, <2>3, <2>4
  <1> HIDE DEF T
  <1>7. /\ Tells(T, Q, w) /\ Q[w].told = T[w].told
        /\ PinsSay(T) => PinsSay(Q)
    BY <1>6, ToggleTells, TogglePins
  <1> HIDE DEF Q
  <1>8. \A q \in Ports : /\ AsksFor(S, Q, q)
                         /\ Q[q].wanted = S[q].wanted /\ Q[q].busy = S[q].busy
    BY <1>6, <1>7, AsksTransitive DEF Tells
  <1>9. Adjusts(P, Q, r)
    <2>1. Q[r].told = T[r].told /\ Q[r].busy = T[r].busy
      BY <1>7 DEF Tells
    <2>2. \A q \in Ports : q # r => Q[q].told = P[q].told /\ Q[q].busy = P[q].busy
      BY <1>2, <1>6, <1>7, Two, TheOther DEF Tells, Carries
    <2>3. \A q \in Ports : Q[q].hand = P[q].hand /\ Q[q].limit = P[q].limit
      BY <1>2, <1>6, <1>7 DEF Tells, Carries
    <2>4. /\ Full(Q, r, h) <=> Full(T, r, h)
          /\ Low(Q, r, h) <=> Low(T, r, h)
      BY <2>1 DEF Full, Low
    <2> HIDE DEF h
    <2>5. LET g == h IN
          \/ P[r].told = {} /\ Full(Q, r, g) /\ Q[r].told = Ways(g)
          \/ P[r].told # {} /\ Low(Q, r, g) /\ Q[r].told = P[r].told \ Ways(g)
          \/ /\ Q[r].busy >= P[r].busy /\ Q[r].told = P[r].told
             /\ Full(Q, r, g) => P[r].told # {}
          \/ /\ Q[r].busy <= P[r].busy /\ Q[r].told = P[r].told
             /\ Low(Q, r, g) => P[r].told = {}
          \/ Q[r].busy = P[r].busy /\ Q[r].told = P[r].told
      BY <1>6, <2>1, <2>4
    <2> QED BY <2>2, <2>3, <2>5 DEF Adjusts, h
  <1> QED BY <1>1, <1>6, <1>7, <1>8, <1>9 DEF S

-----------------------------------------------------------------------------
(* The steps, and what they do to all that *)

\* Settings, limits, buffers and what is told stay.
Calm(P, Q) ==
  \A q \in Ports : /\ Q[q].hand = P[q].hand /\ Q[q].limit = P[q].limit
                   /\ Q[q].busy = P[q].busy /\ Q[q].told = P[q].told

LEMMA CalmAdjusts ==
  ASSUME NEW P, NEW Q, Calm(P, Q), NEW r \in Ports
  PROVE  Adjusts(P, Q, r)
BY DEF Calm, Adjusts

\* Who can send waits for a reader that has no place at all, or asks for a pass ...
Served(P, p) ==
  \/ P[p].try
  \/ CanSend(P, p) => P[Other(p)].wanted = 0 /\ P[Other(p)].busy = Size

\* ... unless it is the writer of the turn that is due.
ServedBut(P, w) == \A q \in Ports : q # w => Served(P, q)

LEMMA ServedKept ==
  ASSUME NEW P, NEW Q, NEW q, AsksFor(P, Q, q), Served(P, q),
         Q[Other(q)].wanted = P[Other(q)].wanted, Q[Other(q)].busy = P[Other(q)].busy
  PROVE  Served(Q, q)
BY DEF AsksFor, Served

\* READ and WRITE change nothing that is told; who they let go on has the turn.
LEMMA WriteStep ==
  ASSUME Inv, NEW p \in Ports, Write(p)
  PROVE  /\ Calm(port, port')
         /\ PinsSay(port) => PinsSay(port')
         /\ ServedBut(port, Nobody) => ServedBut(port', pass')
  <1>1. PICK n \in Lengths : port' = UpdateTransmitToggle([port EXCEPT ![p].toSend = n], p)
    BY DEF Write
  <1> DEFINE Q == [port EXCEPT ![p].toSend = n]
             T == UpdateTransmitToggle(Q, p)
  <1>2. n \in Nat
    BY SizesAssumption
  <1>3. Good(Q)
    BY <1>2, SendKeeps DEF Inv
  <1>4. /\ \A q \in Ports : q # p => Q[q] = port[q]
        /\ \A q \in Ports :
             /\ Q[q].hand = port[q].hand /\ Q[q].limit = port[q].limit
             /\ Q[q].busy = port[q].busy /\ Q[q].told = port[q].told
             /\ Q[q].mcr = port[q].mcr /\ Q[q].wanted = port[q].wanted
    BY DEF Inv, Good, Pairs, PortStates
  <1> HIDE DEF Q
  <1>5. Tells(Q, T, p) /\ T[p].told = Q[p].told
    BY <1>3, ToggleTells
  <1>6. PinsSay(Q) => PinsSay(T)
    BY <1>3, TogglePins
  <1> HIDE DEF T
  <1>7. Calm(port, T)
    BY <1>4, <1>5 DEF Tells, Calm
  <1>8. PinsSay(port) => PinsSay(T)
    BY <1>4, <1>6 DEF PinsSay
  <1>9. ServedBut(port, Nobody) => ServedBut(T, p)
    <2> SUFFICES ASSUME ServedBut(port, Nobody), NEW q \in Ports, q # p PROVE Served(T, q)
      BY DEF ServedBut
    <2>1. Served(port, q)
      BY DEF ServedBut, Ports, Nobody
    <2>2. AsksFor(port, T, q)
      BY <1>4, <1>5 DEF Tells, AsksFor, CanSend, CanSendData, CanSendX
    <2>3. Other(q) \in Ports
      BY TheOther
    <2>4. T[Other(q)].wanted = port[Other(q)].wanted /\ T[Other(q)].busy = port[Other(q)].busy
      BY <1>4, <1>5, <2>3 DEF Tells
    <2> QED BY <2>1, <2>2, <2>4, ServedKept
  <1> QED BY <1>1, <1>7, <1>8, <1>9 DEF T, Q, Write

LEMMA ReadStep ==
  ASSUME Inv, NEW p \in Ports, Read(p)
  PROVE  /\ Calm(port, port')
         /\ PinsSay(port) => PinsSay(port')
         /\ ServedBut(port, Nobody) => ServedBut(port', pass')
  <1>1. PICK n \in Lengths : port' = [port EXCEPT ![p].wanted = n]
    BY DEF Read
  <1> DEFINE Q == [port EXCEPT ![p].wanted = n]
  <1>2. /\ \A q \in Ports : q # p => Q[q] = port[q]
        /\ \A q \in Ports :
             /\ Q[q].hand = port[q].hand /\ Q[q].limit = port[q].limit
             /\ Q[q].busy = port[q].busy /\ Q[q].told = port[q].told
             /\ Q[q].mcr = port[q].mcr /\ Q[q].x = port[q].x /\ Q[q].toSend = port[q].toSend
             /\ Q[q].holding = port[q].holding /\ Q[q].try = port[q].try
    BY DEF Inv, Good, Pairs, PortStates
  <1> HIDE DEF Q
  <1>3. Calm(port, Q) /\ (PinsSay(port) => PinsSay(Q))
    BY <1>2 DEF Calm, PinsSay
  <1>4. ServedBut(port, Nobody) => ServedBut(Q, Other(p))
    <2> SUFFICES ASSUME ServedBut(port, Nobody), NEW q \in Ports, q # Other(p)
                 PROVE  Served(Q, q)
      BY DEF ServedBut
    <2>1. Served(port, q) /\ q = p /\ Other(q) # p /\ Other(q) \in Ports
      BY DEF ServedBut, Ports, Nobody, Other
    <2>2. AsksFor(port, Q, q)
      BY <1>2, AsksSame
    <2> QED BY <1>2, <2>1, <2>2, ServedKept
  <1> QED BY <1>1, <1>3, <1>4 DEF Q, Read

\* What leaves the counts alone and asks for the passes it makes possible keeps
\* everybody served.
LEMMA AllServed ==
  ASSUME NEW P, NEW Q, ServedBut(P, Nobody),
         \A q \in Ports : /\ AsksFor(P, Q, q)
                          /\ Q[q].wanted = P[q].wanted /\ Q[q].busy = P[q].busy
  PROVE  \A w : ServedBut(Q, w)
  <1> SUFFICES ASSUME NEW q \in Ports PROVE Served(Q, q)
    BY DEF ServedBut
  <1>1. Served(P, q)
    BY DEF ServedBut, Ports, Nobody
  <1> QED BY <1>1, TheOther, ServedKept

\* The settings a port can have: its program's and those it is opened with.
Choices(p) == Hands[p] \cup {DefaultHand}

\* What the ports are set to is among these.
SettingsChosen(P) == \A p \in Ports : P[p].hand \in Choices(p)

\* A call that moves pins which the settings leave to the program.
LEMMA ControlStep ==
  ASSUME Inv, NEW p \in Ports, NEW bits, NEW mask, mask \subseteq Pins,
         port' = SetModemControl(port, p, bits, mask)
  PROVE  /\ Calm(port, port')
         /\ mask \cap PinsOf(Ways(port[p].hand)) = {} /\ PinsSay(port) => PinsSay(port')
         /\ ServedBut(port, Nobody) => ServedBut(port', pass')
  <1> DEFINE Q == SetModemControl(port, p, bits, mask)
  <1>1. Tells(port, Q, p)
    BY ControlTells DEF Inv
  <1>2. Q[p].told = port[p].told
    BY ControlTells DEF Inv
  <1>3. Q[p].mcr = (port[p].mcr \ mask) \cup (bits \cap mask)
    BY ControlTells DEF Inv
  <1> HIDE DEF Q
  <1>4. Calm(port, Q)
    BY <1>1, <1>2 DEF Tells, Calm
  <1>5. ServedBut(port, Nobody) => ServedBut(Q, pass')
    BY <1>1, AllServed DEF Tells
  <1>6. ASSUME mask \cap PinsOf(Ways(port[p].hand)) = {}, PinsSay(port)
        PROVE  PinsSay(Q)
    <2>1. \A w \in Ways(port[p].hand) \ {"XON"} :
            PinOf(w) \in Q[p].mcr <=> PinOf(w) \in port[p].mcr
      BY <1>3, <1>6, WaysAndPins
    <2> QED BY <1>1, <1>2, <1>6, <2>1 DEF Tells, PinsSay
  <1> QED BY <1>4, <1>5, <1>6 DEF Q

\* The settings the ports are opened with stop nobody.
LEMMA NoDefaultWays == Ways(DefaultHand) = {}
BY DEF Ways, DefaultHand

LEMMA PinSteps ==
  ASSUME Inv, NEW p \in Ports, SetRts(p) \/ SetDtr(p) \/ SetControl(p)
  PROVE  /\ Calm(port, port')
         /\ PinsLeftAlone /\ SettingsChosen(port) /\ PinsSay(port) => PinsSay(port')
         /\ ServedBut(port, Nobody) => ServedBut(port', pass')
  <1>1. CASE SetRts(p)
    <2>1. PICK bits : port' = SetModemControl(port, p, bits, {"RTS"})
      BY <1>1 DEF SetRts
    <2>2. {"RTS"} \subseteq Pins /\ {"RTS"} \cap PinsOf(Ways(port[p].hand)) = {}
      BY <1>1 DEF SetRts, Pins, PinsOf, Ways
    <2> QED BY <2>1, <2>2, ControlStep
  <1>2. CASE SetDtr(p)
    <2>1. PICK bits : port' = SetModemControl(port, p, bits, {"DTR"})
      BY <1>2 DEF SetDtr
    <2>2. {"DTR"} \subseteq Pins /\ {"DTR"} \cap PinsOf(Ways(port[p].hand)) = {}
      BY <1>2 DEF SetDtr, Pins, PinsOf, Ways
    <2> QED BY <2>1, <2>2, ControlStep
  <1>3. CASE SetControl(p)
    <2>1. PICK c \in Controls[p] : port' = SetModemControl(port, p, c.bits, c.mask)
      BY <1>3 DEF SetControl
    <2>2. c.mask \subseteq Pins
      BY CallsAssumption
    <2>3. PinsLeftAlone /\ SettingsChosen(port) => c.mask \cap PinsOf(Ways(port[p].hand)) = {}
      BY NoDefaultWays DEF PinsLeftAlone, SettingsChosen, Choices, PinsOf
    <2> QED BY <2>1, <2>2, <2>3, ControlStep
  <1> QED BY <1>1, <1>2, <1>3

LEMMA XonXoffSteps ==
  ASSUME Inv, NEW p \in Ports, SetXon(p) \/ SetXoff(p)
  PROVE  /\ Calm(port, port')
         /\ PinsSay(port) => PinsSay(port')
         /\ ServedBut(port, Nobody) => ServedBut(port', pass')
  <1>1. PICK c : port' = SetXonXoffHolding(port, p, c)
    BY DEF SetXon, SetXoff
  <1>2. OnlyHolding(port, port', p)
    BY <1>1, XonXoffAsks DEF Inv
  <1>3. Calm(port, port') /\ (PinsSay(port) => PinsSay(port'))
    BY <1>2 DEF OnlyHolding, Calm, PinsSay
  <1>4. \A q \in Ports : AsksFor(port, port', q)
    <2> TAKE q \in Ports
    <2>1. CASE q = p
      BY <1>2, <2>1 DEF OnlyHolding
    <2>2. CASE q # p
      BY <1>2, <2>2, AsksSame DEF OnlyHolding
    <2> QED BY <2>1, <2>2
  <1> QED BY <1>2, <1>3, <1>4, AllServed DEF OnlyHolding

\* PURGE drops requests and may empty the buffer, which lets UpdateHandFlow release
\* the peer.
LEMMA PurgeStep ==
  ASSUME Inv, NEW p \in Ports, Purge(p)
  PROVE  /\ Adjusts(port, port', p)
         /\ TellsInWays(port) /\ PinsSay(port) => PinsSay(port')
         /\ NothingCleared /\ ServedBut(port, Nobody) => ServedBut(port', pass')
  <1> DEFINE P(flags) == [port EXCEPT
                            ![p].wanted = IF "RXABORT" \in flags THEN 0 ELSE @,
                            ![p].toSend = IF "TXABORT" \in flags THEN 0 ELSE @]
             S(flags) == [P(flags) EXCEPT ![p].busy = 0]
             Q(flags) == UpdateHandFlow(S(flags), p, TRUE)
  <1>1. PICK flags \in Purges :
          IF "RXCLEAR" \in flags THEN port' = Q(flags) ELSE port' = P(flags)
    <2>1. \E flags \in Purges :
            IF "RXCLEAR" \in flags
            THEN port' = Q(flags) /\ pass' = IF AnyTry(Q(flags)) THEN Other(p) ELSE Nobody
            ELSE port' = P(flags) /\ pass' = Nobody
      BY ZenonT(30) DEF Purge
    <2> HIDE DEF P, Q
    <2> QED BY <2>1
  <1>2. port \in Pairs /\ port[p] \in PortStates
    BY DEF Inv, Good, Pairs
  <1> DEFINE m == IF "RXABORT" \in flags THEN 0 ELSE port[p].wanted
             n == IF "TXABORT" \in flags THEN 0 ELSE port[p].toSend
             P1 == [port EXCEPT ![p].wanted = m]
             P2 == [P1 EXCEPT ![p].toSend = n]
             P3 == [P2 EXCEPT ![p].busy = 0]
  <1>3. P(flags) = P2 /\ S(flags) = P3
    OBVIOUS
  <1>4. m \in Nat /\ n \in Nat /\ m \in {0, port[p].wanted} /\ n \in {0, port[p].toSend}
    BY CountTypes DEF Inv
  <1> HIDE DEF P, S, m, n
  <1>5. Good(P1)
    BY <1>4, WantedKeeps DEF Inv
  <1>6. Good(P2)
    BY <1>4, <1>5, SendKeeps
  <1>7. Good(P3)
    <2>1. 0 \in 0 .. Size
      BY SizesAssumption
    <2> QED BY <1>6, <2>1, BusyKeeps
  <1>8. /\ P2[p].wanted = m /\ P2[p].toSend = n
        /\ \A q \in Ports :
             /\ q # p => P2[q] = port[q]
             /\ P2[q].hand = port[q].hand /\ P2[q].limit = port[q].limit
             /\ P2[q].busy = port[q].busy /\ P2[q].told = port[q].told
             /\ P2[q].mcr = port[q].mcr /\ P2[q].x = port[q].x
             /\ P2[q].holding = port[q].holding /\ P2[q].try = port[q].try
    BY <1>2 DEF Pairs, PortStates
  <1>9. /\ P3[p].busy = 0
        /\ \A q \in Ports :
             /\ q # p => P3[q] = P2[q]
             /\ P3[q].hand = P2[q].hand /\ P3[q].limit = P2[q].limit
             /\ P3[q].told = P2[q].told /\ P3[q].mcr = P2[q].mcr
    BY <1>6 DEF Good, Pairs, PortStates
  <1> HIDE DEF P1, P2, P3
  <1>10. CASE "RXCLEAR" \in flags
    <2> DEFINE U == UpdateHandFlow(P3, p, TRUE)
    <2>1. port' = U
      BY <1>1, <1>3, <1>10
    <2>2. Tells(P3, U, p)
      BY <1>7, HandFlowTells
    <2>3. \/ /\ P3[p].told # {} /\ Low(P3, p, P3[p].hand)
             /\ U[p].told = P3[p].told \ Ways(P3[p].hand)
          \/ ~(P3[p].told # {} /\ Low(P3, p, P3[p].hand)) /\ U = P3
      BY <1>7, HandFlowTells
    <2>4. TellsInWays(P3) /\ PinsSay(P3) => PinsSay(U)
      BY <1>7, HandFlowPins
    <2> HIDE DEF U
    <2>5. Adjusts(port, U, p)
      <3> DEFINE h == port[p].hand
      <3>1. P3[p].hand = h /\ P3[p].told = port[p].told
        BY <1>8, <1>9
      <3>2. U[p].busy = 0 /\ 0 <= port[p].busy
        BY <1>9, <2>2, CountTypes DEF Tells, Inv
      <3>3. Low(P3, p, h) <=> Low(U, p, h)
        BY <1>9, <3>2 DEF Low
      <3>4. \A q \in Ports : /\ U[q].hand = port[q].hand /\ U[q].limit = port[q].limit
                             /\ q # p => U[q].told = port[q].told /\ U[q].busy = port[q].busy
        BY <1>8, <1>9, <2>2 DEF Tells
      <3> HIDE DEF h
      <3>5. \/ port[p].told # {} /\ Low(U, p, h) /\ U[p].told = port[p].told \ Ways(h)
            \/ /\ U[p].busy <= port[p].busy /\ U[p].told = port[p].told
               /\ Low(U, p, h) => port[p].told = {}
        BY <2>3, <3>1, <3>2, <3>3
      <3> QED BY <3>4, <3>5 DEF Adjusts, h
    <2>6. TellsInWays(port) /\ PinsSay(port) => TellsInWays(P3) /\ PinsSay(P3)
      BY <1>8, <1>9 DEF TellsInWays, PinsSay
    <2>7. ~NothingCleared
      BY <1>10 DEF NothingCleared
    <2> QED BY <2>1, <2>4, <2>5, <2>6, <2>7
  <1>11. CASE "RXCLEAR" \notin flags
    <2>1. port' = P2
      BY <1>1, <1>3, <1>11
    <2>2. Calm(port, P2) /\ (PinsSay(port) => PinsSay(P2))
      BY <1>8 DEF Calm, PinsSay
    <2>3. ASSUME ServedBut(port, Nobody) PROVE ServedBut(P2, pass')
      <3> SUFFICES ASSUME NEW q \in Ports PROVE Served(P2, q)
        BY DEF ServedBut
      <3>1. Served(port, q) /\ Other(q) \in Ports
        BY <2>3, TheOther DEF ServedBut, Ports, Nobody
      <3>2. P2[Other(q)].wanted \in {0, port[Other(q)].wanted}
        BY <1>4, <1>8, <3>1
      <3>3. CanSend(P2, q) => CanSend(port, q)
        BY <1>4, <1>8 DEF CanSend, CanSendData, CanSendX
      <3> QED BY <1>8, <3>1, <3>2, <3>3 DEF Served
    <2> QED BY <2>1, <2>2, <2>3, CalmAdjusts
  <1> QED BY <1>10, <1>11

-----------------------------------------------------------------------------
(* A turn serves its writer *)

\* A buffer that takes no more although it has place has held its writer.
LimitHolds(P) ==
  \A w \in Ports : CanSend(P, w) /\ Filled(P, Other(w)) => P[Other(w)].busy = Size

LEMMA TurnStep ==
  ASSUME Inv, ReadWrite
  PROVE  /\ Adjusts(port, port', Other(pass))
         /\ TellsInWays(port) /\ PinsSay(port) => PinsSay(port')
         /\ LimitHolds(port') /\ ServedBut(port, pass) => ServedBut(port', pass')
  <1> DEFINE P == [port EXCEPT ![pass].try = FALSE]
             r == Other(pass)
  <1>1. pass \in Ports /\ r \in Ports /\ r # pass /\ Other(r) = pass
    BY TheOther DEF Inv, ReadWrite
  <1>2. PICK piece \in Nat : port' = TryReadWrite(P, r, pass, piece)
    BY <1>1, PieceIsNat DEF ReadWrite
  <1> DEFINE S == MoveBytes(P, r, pass, piece)
             Q == TryReadWrite(P, r, pass, piece)
  <1>3. Good(P)
    BY <1>1, TryKeeps DEF Inv
  <1>4. port' = Q /\ pass' = NextWriter(Q, pass)
    BY <1>2 DEF ReadWrite
  <1>5. /\ P[r] = port[r]
        /\ \A q \in Ports :
             /\ P[q].hand = port[q].hand /\ P[q].limit = port[q].limit
             /\ P[q].busy = port[q].busy /\ P[q].told = port[q].told
             /\ P[q].mcr = port[q].mcr /\ P[q].wanted = port[q].wanted
    BY <1>1 DEF Inv, Good, Pairs, PortStates
  <1> HIDE DEF P, r
  <1>6. Carries(P, S, r, pass)
    BY <1>1, <1>3, MoveBytesCarries
  <1>7. CanSend(S, pass) => S[r].wanted = 0 /\ Filled(S, r)
    BY <1>1, <1>3, MoveBytesCarries
  <1>8. Adjusts(P, Q, r)
    BY <1>1, <1>3, TurnAdjusts
  <1>9. TellsInWays(P) /\ PinsSay(P) => PinsSay(Q)
    BY <1>1, <1>3, TurnAdjusts
  <1>10. \A q \in Ports : /\ AsksFor(S, Q, q)
                         /\ Q[q].wanted = S[q].wanted /\ Q[q].busy = S[q].busy
    BY <1>1, <1>3, TurnAdjusts
  <1> HIDE DEF S, Q
  <1>11. Adjusts(port, Q, r)
    BY <1>1, <1>5, <1>8 DEF Adjusts
  <1>12. TellsInWays(port) /\ PinsSay(port) => PinsSay(Q)
    BY <1>5, <1>9 DEF TellsInWays, PinsSay
  <1>13. ASSUME LimitHolds(Q), ServedBut(port, pass) PROVE ServedBut(Q, pass')
    <2>1. Served(Q, r)
      <3>1. Served(port, r)
        BY <1>1, <1>13 DEF ServedBut
      <3>2. AsksFor(port, P, r)
        BY <1>5 DEF AsksFor, CanSend, CanSendData, CanSendX
      <3>3. AsksFor(P, S, r) /\ AsksFor(S, Q, r)
        BY <1>1, <1>6, <1>10 DEF Carries
      <3>4. AsksFor(port, Q, r)
        BY <3>2, <3>3, AsksTransitive
      <3>5. Q[pass].wanted = port[pass].wanted /\ Q[pass].busy = port[pass].busy
        BY <1>1, <1>5, <1>6, <1>10 DEF Carries
      <3> QED BY <1>1, <3>1, <3>4, <3>5, ServedKept
    <2>2. ASSUME pass' # pass PROVE Served(Q, pass)
      <3>1. ~Q[pass].try
        BY <1>4, <2>2 DEF NextWriter
      <3>2. SUFFICES ASSUME CanSend(Q, pass) PROVE Q[r].wanted = 0 /\ Q[r].busy = Size
        BY DEF Served, r
      <3>3. CanSend(S, pass)
        BY <1>1, <1>10, <3>1, <3>2 DEF AsksFor
      <3>4. S[r].wanted = 0 /\ Filled(S, r)
        BY <1>7, <3>3
      <3>5. Q[r].wanted = 0 /\ Q[r].busy = S[r].busy
        BY <1>1, <1>10, <3>4
      <3>6. Q[r].limit = S[r].limit
        BY <1>1, <1>6, <1>8 DEF Carries, Adjusts
      <3>7. Filled(Q, r)
        BY <3>4, <3>5, <3>6 DEF Filled
      <3> QED BY <1>1, <1>13, <3>2, <3>5, <3>7 DEF LimitHolds, r
    <2>3. \A q \in Ports : q = pass \/ q = r
      BY <1>1, Two DEF r
    <2> QED BY <2>1, <2>2, <2>3 DEF ServedBut
  <1> QED BY <1>4, <1>11, <1>12, <1>13 DEF r

-----------------------------------------------------------------------------
(* Every step *)

\* A step is SET_HANDFLOW, or it leaves the settings and adjusts what is told.
LEMMA AnyStep ==
  ASSUME Inv, [Next]_vars
  PROVE  \/ \E p \in Ports : \E h \in Hands[p] : port' = NewHand(port, p, h) /\ pass = Nobody
         \/ /\ \E r \in Ports : Adjusts(port, port', r)
            /\ PinsLeftAlone /\ SettingsChosen(port) /\ TellsInWays(port) /\ PinsSay(port)
                 => PinsSay(port')
            /\ NothingCleared /\ LimitHolds(port') /\ ServedBut(port, pass)
                 => ServedBut(port', pass')
  <1>1. CASE ReadWrite
    <2>1. Other(pass) \in Ports
      BY <1>1, TheOther DEF ReadWrite, Inv
    <2> QED BY <1>1, <2>1, TurnStep
  <1>2. ASSUME NEW p \in Ports, Write(p) \/ Read(p) PROVE pass = Nobody /\ (Write(p) \/ Read(p))
    BY <1>2 DEF Write, Read
  <1>3. ASSUME NEW p \in Ports, Write(p) \/ Read(p)
        PROVE  /\ Adjusts(port, port', p)
               /\ PinsSay(port) => PinsSay(port')
               /\ ServedBut(port, pass) => ServedBut(port', pass')
    BY <1>2, <1>3, WriteStep, ReadStep, CalmAdjusts
  <1>4. ASSUME NEW p \in Ports, SetHandFlow(p)
        PROVE  \E h \in Hands[p] : port' = NewHand(port, p, h) /\ pass = Nobody
    BY <1>4 DEF SetHandFlow, SettingsCall
  <1>5. ASSUME NEW p \in Ports, SetRts(p) \/ SetDtr(p) \/ SetControl(p)
        PROVE  /\ Adjusts(port, port', p)
               /\ PinsLeftAlone /\ SettingsChosen(port) /\ PinsSay(port) => PinsSay(port')
               /\ ServedBut(port, pass) => ServedBut(port', pass')
    <2>1. pass = Nobody
      BY <1>5 DEF SetRts, SetDtr, SetControl, SettingsCall
    <2> QED BY <1>5, <2>1, PinSteps, CalmAdjusts
  <1>6. ASSUME NEW p \in Ports, SetXon(p) \/ SetXoff(p)
        PROVE  /\ Adjusts(port, port', p)
               /\ PinsSay(port) => PinsSay(port')
               /\ ServedBut(port, pass) => ServedBut(port', pass')
    <2>1. pass = Nobody
      BY <1>6 DEF SetXon, SetXoff, SettingsCall
    <2> QED BY <1>6, <2>1, XonXoffSteps, CalmAdjusts
  <1>7. ASSUME NEW p \in Ports, Purge(p)
        PROVE  /\ Adjusts(port, port', p)
               /\ TellsInWays(port) /\ PinsSay(port) => PinsSay(port')
               /\ NothingCleared /\ ServedBut(port, pass) => ServedBut(port', pass')
    <2>1. pass = Nobody
      BY <1>7 DEF Purge
    <2> QED BY <1>7, <2>1, PurgeStep
  <1>8. CASE UNCHANGED vars
    <2>1. port' = port /\ pass' = pass
      BY <1>8 DEF vars
    <2>2. "A" \in Ports /\ Adjusts(port, port, "A")
      BY CalmAdjusts DEF Calm, Ports
    <2> QED BY <2>1, <2>2
  <1>9. CASE \E p \in Ports : Program(p)
    BY <1>3, <1>4, <1>5, <1>6, <1>7, <1>9 DEF Program
  <1> QED BY <1>1, <1>8, <1>9 DEF Next

-----------------------------------------------------------------------------
(* Pins and messages agree *)

\* What is told goes with the settings, and these are the program's.
Telling(P) == SettingsChosen(P) /\ TellsInWays(P)

LEMMA AdjustsTelling ==
  ASSUME NEW P, NEW Q, NEW r \in Ports, Adjusts(P, Q, r), Telling(P)
  PROVE  Telling(Q)
BY DEF Adjusts, Telling, SettingsChosen, TellsInWays

\* SET_HANDFLOW, by the settings of the program.
LEMMA NewHandStep ==
  ASSUME NoToggleAfterHandshake, NEW P, Good(P), Telling(P), NEW p \in Ports, NEW h \in Hands[p]
  PROVE  LET Q == NewHand(P, p, h) IN
         /\ Telling(Q)
         /\ PinsSay(P) => PinsSay(Q)
         /\ Q[p].hand = h
         /\ Q[p].told = NewlyTold(P[p].told, P[p].hand, h, Full(P, p, h))
         /\ \A q \in Ports :
              /\ Q[q].limit = LimitOf(Q, q)
              /\ Q[q].busy = P[q].busy /\ Q[q].wanted = P[q].wanted
              /\ q # p => Q[q].hand = P[q].hand /\ Q[q].told = P[q].told
              /\ AsksFor(P, Q, q)
  <1> DEFINE Q == NewHand(P, p, h)
             old == P[p].hand
             full == Full(P, p, h)
  <1>1. h \in HandFlows
    BY CallsAssumption
  <1>2. P[p].told \subseteq Ways(P[p].hand)
    BY DEF Telling, TellsInWays
  <1>3. ~(P[p].hand.rts = "handshake" /\ h.rts = "toggle")
    BY DEF Telling, SettingsChosen, Choices, DefaultHand, NoToggleAfterHandshake
  <1>4. /\ Q[p].hand = h
        /\ Q[p].told = NewlyTold(P[p].told, old, h, full)
        /\ \A w \in Ways(h) \ {"XON"} :
             PinOf(w) \in Q[p].mcr <=> IF w \in Ways(old) THEN PinOf(w) \in P[p].mcr ELSE ~full
        /\ \A q \in Ports :
             /\ Q[q].limit = LimitOf(Q, q)
             /\ Q[q].busy = P[q].busy /\ Q[q].wanted = P[q].wanted
             /\ q # p => /\ Q[q].hand = P[q].hand /\ Q[q].told = P[q].told
                         /\ Q[q].mcr = P[q].mcr
             /\ AsksFor(P, Q, q)
    BY <1>1, <1>2, <1>3, NewHandTells
  <1> HIDE DEF Q, full
  <1>5. Telling(Q)
    BY <1>4 DEF Telling, SettingsChosen, Choices, TellsInWays, NewlyTold
  <1>6. ASSUME PinsSay(P) PROVE PinsSay(Q)
    <2>1. ASSUME NEW w \in Ways(h) \ {"XON"} PROVE PinOf(w) \in Q[p].mcr <=> w \notin Q[p].told
      BY <1>4, <1>6 DEF PinsSay, NewlyTold
    <2> QED BY <1>4, <1>6, <2>1 DEF PinsSay
  <1> QED BY <1>4, <1>5, <1>6 DEF Q, full

\* Inv, and what is told goes with the settings.
ToldInv == Inv /\ Telling(port)

LEMMA OpenedState ==
  ASSUME Init
  PROVE  \A p \in Ports :
           /\ port[p].hand = DefaultHand /\ port[p].told = {} /\ port[p].limit = Size
           /\ port[p].busy = 0 /\ port[p].toSend = 0 /\ port[p].x = "none"
  <1> TAKE p \in Ports
  <1>1. PICK s : port[p] = [Opened EXCEPT !.status = s]
    BY DEF Init
  <1> QED BY <1>1 DEF Opened

LEMMA ToldStep ==
  ASSUME NoToggleAfterHandshake
  PROVE  /\ Init => ToldInv
         /\ ToldInv /\ [Next]_vars => ToldInv'
  <1>1. ASSUME Init PROVE ToldInv
    <2>1. Inv
      BY <1>1, InitRight
    <2>2. Telling(port)
      BY <1>1, OpenedState DEF Telling, SettingsChosen, Choices, TellsInWays
    <2> QED BY <2>1, <2>2 DEF ToldInv
  <1>2. ASSUME ToldInv, [Next]_vars PROVE ToldInv'
    <2>1. Inv'
      BY <1>2, StepKeeps DEF ToldInv
    <2>2. Telling(port')
      <3>1. CASE \E p \in Ports : \E h \in Hands[p] : port' = NewHand(port, p, h)
        BY <1>2, <3>1, NewHandStep DEF ToldInv, Inv
      <3>2. CASE \E r \in Ports : Adjusts(port, port', r)
        BY <1>2, <3>2, AdjustsTelling DEF ToldInv
      <3> QED BY <1>2, <3>1, <3>2, AnyStep DEF ToldInv
    <2> QED BY <2>1, <2>2 DEF ToldInv, Telling, SettingsChosen, TellsInWays
  <1> QED BY <1>1, <1>2

\* The pins move with what is told.
LEMMA PinsStep ==
  ASSUME NoToggleAfterHandshake, PinsLeftAlone
  PROVE  /\ Init => PinsSay(port)
         /\ ToldInv /\ PinsSay(port) /\ [Next]_vars => PinsSay(port)'
  <1>1. Init => PinsSay(port)
    BY OpenedState, NoDefaultWays DEF PinsSay
  <1>2. ASSUME ToldInv, PinsSay(port), [Next]_vars PROVE PinsSay(port)'
    <2>1. PinsSay(port')
      <3>1. CASE \E p \in Ports : \E h \in Hands[p] : port' = NewHand(port, p, h)
        BY <1>2, <3>1, NewHandStep DEF ToldInv, Inv
      <3>2. CASE SettingsChosen(port) /\ TellsInWays(port) => PinsSay(port')
        BY <1>2, <3>2 DEF ToldInv, Telling
      <3> QED BY <1>2, <3>1, <3>2, AnyStep DEF ToldInv
    <2> QED BY <2>1 DEF PinsSay
  <1> QED BY <1>1, <1>2

LEMMA SignalMeans == PinsSay(port) <=> SignalFollows
  <1>1. ASSUME NEW p \in Ports
        PROVE  (\A w \in Ways(port[p].hand) \ {"XON"} :
                  PinOf(w) \in port[p].mcr <=> w \notin port[p].told)
                 <=> /\ port[p].hand.rts = "handshake" =>
                          ("RTS" \in port[p].mcr <=> "CTS" \notin port[p].told)
                     /\ port[p].hand.dtr = "handshake" =>
                          ("DTR" \in port[p].mcr <=> "DSR" \notin port[p].told)
    BY DEF Ways, PinOf
  <1> QED BY <1>1 DEF PinsSay, SignalFollows

\* RTS and DTR are low exactly while the peer is told by them to stop: through every
\* order of SET_HANDFLOW, of the bytes that fill and empty the buffer and of the
\* modem calls, if no program goes from RTS handshaking to RTS toggling, or sets
\* pins that it handed over.
THEOREM SignalsFollow ==
  ASSUME NoToggleAfterHandshake, PinsLeftAlone
  PROVE  Spec => []SignalFollows
  <1>1. Init => ToldInv /\ PinsSay(port)
    BY ToldStep, PinsStep
  <1>2. ToldInv /\ PinsSay(port) /\ [Next]_vars => ToldInv' /\ PinsSay(port)'
    BY ToldStep, PinsStep
  <1>3. PinsSay(port) => SignalFollows
    BY SignalMeans
  <1> QED BY <1>1, <1>2, <1>3, PTL DEF Spec

-----------------------------------------------------------------------------
(* Stopped above the one limit, released at the other *)

\* The way that the settings of p keep.
Key(p) == CHOOSE w : \A h \in Hands[p] : Ways(h) # {} => w \in Ways(h)

LEMMA KeyIsAWay ==
  ASSUME OneWay, NEW p \in Ports, NEW h \in Hands[p], Ways(h) # {}
  PROVE  Key(p) \in Ways(h)
BY DEF OneWay, Key

\* Hysteresis, of a pair: the peer is stopped if the buffer is above the XOFF limit
\* and not if it is down at the XON limit, and by the way that the settings keep.
Stopped(P) ==
  \A p \in Ports :
    LET h == P[p].hand IN
    /\ P[p].told # {} => Key(p) \in P[p].told
    /\ Full(P, p, h) /\ Ways(h) # {} => P[p].told # {}
    /\ Low(P, p, h) => P[p].told = {}

\* A buffer is not at both limits.
LEMMA LimitsApart ==
  ASSUME OneLimit, NEW P, Good(P), Telling(P), NEW p \in Ports,
         Ways(P[p].hand) # {}, Full(P, p, P[p].hand), Low(P, p, P[p].hand)
  PROVE  FALSE
  <1>1. P[p].hand \in Hands[p]
    BY NoDefaultWays DEF Telling, SettingsChosen, Choices
  <1>2. P[p].hand.xon <= Size - P[p].hand.xoff
    BY <1>1 DEF OneLimit
  <1>3. /\ P[p].hand.xon \in Int /\ P[p].hand.xoff \in Int /\ P[p].busy \in Int /\ Size \in Int
    BY SizesAssumption DEF Good, Pairs, PortStates, HandFlows
  <1> QED BY <1>2, <1>3 DEF Full, Low

\* More bytes leave a full buffer full, fewer leave a low one low.
LEMMA LimitsMonotonic ==
  ASSUME NEW P, Good(P), NEW Q, Good(Q), NEW p \in Ports, Q[p].hand = P[p].hand,
         P[p].busy <= Q[p].busy
  PROVE  /\ Full(P, p, P[p].hand) => Full(Q, p, P[p].hand)
         /\ Low(Q, p, P[p].hand) => Low(P, p, P[p].hand)
  <1>1. /\ P[p].hand.xon \in Int /\ P[p].hand.xoff \in Int /\ P[p].busy \in Int
        /\ Q[p].busy \in Int /\ Size \in Int
    BY SizesAssumption DEF Good, Pairs, PortStates, HandFlows
  <1> QED BY <1>1 DEF Full, Low

LEMMA AdjustsStopped ==
  ASSUME OneWay, OneLimit, NEW P, Good(P), Telling(P), Stopped(P),
         NEW Q, Good(Q), NEW r \in Ports, Adjusts(P, Q, r)
  PROVE  Stopped(Q)
  <1> DEFINE h == P[r].hand
             told == Q[r].told
  <1>1. /\ Q[r].hand = h
        /\ \A q \in Ports : /\ Q[q].hand = P[q].hand
                            /\ q # r => Q[q].told = P[q].told /\ Q[q].busy = P[q].busy
    BY DEF Adjusts
  <1>2. Telling(Q)
    BY AdjustsTelling
  <1>3. P[r].told \subseteq Ways(h) /\ (Ways(h) # {} => Key(r) \in Ways(h))
    BY KeyIsAWay, NoDefaultWays DEF Telling, TellsInWays, SettingsChosen, Choices
  <1>4. /\ P[r].told # {} => Key(r) \in P[r].told
        /\ Full(P, r, h) /\ Ways(h) # {} => P[r].told # {}
        /\ Low(P, r, h) => P[r].told = {}
    BY DEF Stopped
  <1>5. ~(Ways(h) # {} /\ Full(Q, r, h) /\ Low(Q, r, h))
    BY <1>1, <1>2, LimitsApart
  <1>6. /\ P[r].busy <= Q[r].busy => (Low(Q, r, h) => Low(P, r, h))
        /\ Q[r].busy <= P[r].busy => (Full(Q, r, h) => Full(P, r, h))
    BY <1>1, LimitsMonotonic
  <1>7. P[r].busy \in Int /\ Q[r].busy \in Int
    BY CountTypes
  <1>8. /\ told # {} => Key(r) \in told
        /\ Full(Q, r, h) /\ Ways(h) # {} => told # {}
        /\ Low(Q, r, h) => told = {}
    <2>1. CASE P[r].told = {} /\ Full(Q, r, h) /\ told = Ways(h)
      BY <1>3, <1>5, <2>1
    <2>2. CASE P[r].told # {} /\ Low(Q, r, h) /\ told = P[r].told \ Ways(h)
      BY <1>3, <1>5, <2>2
    <2>3. CASE /\ Q[r].busy >= P[r].busy /\ told = P[r].told
               /\ Full(Q, r, h) => P[r].told # {}
      BY <1>4, <1>6, <1>7, <2>3
    <2>4. CASE /\ Q[r].busy <= P[r].busy /\ told = P[r].told
               /\ Low(Q, r, h) => P[r].told = {}
      BY <1>4, <1>6, <2>4
    <2>5. CASE Q[r].busy = P[r].busy /\ told = P[r].told
      BY <1>4, <1>6, <1>7, <2>5
    <2> QED BY <2>1, <2>2, <2>3, <2>4, <2>5 DEF Adjusts
  <1>9. ASSUME NEW q \in Ports, q # r
        PROVE  LET g == Q[q].hand IN
               /\ Q[q].told # {} => Key(q) \in Q[q].told
               /\ Full(Q, q, g) /\ Ways(g) # {} => Q[q].told # {}
               /\ Low(Q, q, g) => Q[q].told = {}
    BY <1>1, <1>9 DEF Stopped, Full, Low
  <1> QED BY <1>1, <1>8, <1>9 DEF Stopped

\* Settings that have a way before and after have the same limits.
LEMMA NewHandStopped ==
  ASSUME NoToggleAfterHandshake, OneWay, OneLimit, NEW P, Good(P), Telling(P), Stopped(P),
         NEW p \in Ports, NEW h \in Hands[p], Good(NewHand(P, p, h))
  PROVE  Stopped(NewHand(P, p, h))
  <1> DEFINE Q == NewHand(P, p, h)
             old == P[p].hand
             full == Full(P, p, h)
  <1>1. /\ Telling(Q) /\ Q[p].hand = h
        /\ Q[p].told = NewlyTold(P[p].told, old, h, full)
        /\ \A q \in Ports :
             /\ Q[q].busy = P[q].busy
             /\ q # p => Q[q].hand = P[q].hand /\ Q[q].told = P[q].told
    BY NewHandStep
  <1> HIDE DEF Q
  <1>2. /\ Full(Q, p, h) <=> full
        /\ Low(Q, p, h) <=> Low(P, p, h)
    BY <1>1 DEF Full, Low
  <1>3. ~(Ways(h) # {} /\ full /\ Low(P, p, h))
    BY <1>1, <1>2, LimitsApart DEF Q
  <1>4. /\ P[p].told # {} => Key(p) \in P[p].told
        /\ Full(P, p, old) /\ Ways(old) # {} => P[p].told # {}
        /\ Low(P, p, old) => P[p].told = {}
        /\ P[p].told \subseteq Ways(old)
    BY DEF Stopped, Telling, TellsInWays
  <1>5. Ways(h) # {} => Key(p) \in Ways(h)
    BY KeyIsAWay
  <1>6. ASSUME Ways(h) # {}, Ways(old) # {}
        PROVE  /\ full <=> Full(P, p, old)
               /\ Low(P, p, h) <=> Low(P, p, old)
               /\ Key(p) \in Ways(old)
    <2>1. old \in Hands[p]
      BY <1>6, NoDefaultWays DEF Telling, SettingsChosen, Choices
    <2>2. h.xon = old.xon /\ h.xoff = old.xoff
      BY <1>6, <2>1 DEF OneLimit
    <2> QED BY <1>6, <2>1, <2>2, KeyIsAWay DEF Full, Low
  <1> HIDE DEF full, old
  <1>7. /\ Q[p].told # {} => Key(p) \in Q[p].told
        /\ full /\ Ways(h) # {} => Q[p].told # {}
        /\ Low(P, p, h) => Q[p].told = {}
    <2>1. CASE Ways(h) = {}
      BY <1>1, <2>1 DEF NewlyTold
    <2>2. CASE Ways(h) # {} /\ Ways(old) = {}
      BY <1>1, <1>3, <1>5, <2>2 DEF NewlyTold
    <2>3. CASE Ways(h) # {} /\ Ways(old) # {}
      <3>1. CASE P[p].told = {}
        BY <1>1, <1>4, <1>6, <2>3, <3>1 DEF NewlyTold
      <3>2. CASE P[p].told # {}
        BY <1>1, <1>4, <1>5, <1>6, <2>3, <3>2 DEF NewlyTold
      <3> QED BY <3>1, <3>2
    <2> QED BY <2>1, <2>2, <2>3
  <1>8. ASSUME NEW q \in Ports, q # p
        PROVE  LET g == Q[q].hand IN
               /\ Q[q].told # {} => Key(q) \in Q[q].told
               /\ Full(Q, q, g) /\ Ways(g) # {} => Q[q].told # {}
               /\ Low(Q, q, g) => Q[q].told = {}
    BY <1>1, <1>8 DEF Stopped, Full, Low
  <1>9. Stopped(Q)
    BY <1>1, <1>2, <1>7, <1>8 DEF Stopped
  <1> QED BY <1>9 DEF Q

LEMMA StoppedStep ==
  ASSUME NoToggleAfterHandshake, OneWay, OneLimit
  PROVE  /\ Init => Stopped(port)
         /\ ToldInv /\ Stopped(port) /\ [Next]_vars => Stopped(port)'
  <1>1. Init => Stopped(port)
    BY OpenedState, NoDefaultWays DEF Stopped
  <1>2. ASSUME ToldInv, Stopped(port), [Next]_vars PROVE Stopped(port)'
    <2>1. Good(port) /\ Telling(port)
      BY <1>2 DEF ToldInv, Inv
    <2>2. Good(port')
      <3>1. Inv'
        BY <1>2, StepKeeps DEF ToldInv
      <3> QED BY <3>1 DEF Inv, Good, Follows, StatusRight, HoldingRight, Level, Pairs
    <2>3. Stopped(port')
      <3>1. CASE \E p \in Ports : \E h \in Hands[p] : port' = NewHand(port, p, h)
        BY <1>2, <2>1, <2>2, <3>1, NewHandStopped
      <3>2. CASE \E r \in Ports : Adjusts(port, port', r)
        BY <1>2, <2>1, <2>2, <3>2, AdjustsStopped
      <3> QED BY <1>2, <3>1, <3>2, AnyStep DEF ToldInv
    <2> QED BY <2>3 DEF Stopped, Full, Low
  <1> QED BY <1>1, <1>2

\* The peer is told to stop whenever the buffer is above the XOFF limit and not when
\* it is down at the XON limit, through any number of changes of settings that keep
\* the limits and one of the ways: a change in the middle of a stop does not lose it.
THEOREM HysteresisKept ==
  ASSUME NoToggleAfterHandshake, OneWay, OneLimit
  PROVE  Spec => []Hysteresis
  <1>1. Init => ToldInv /\ Stopped(port)
    BY ToldStep, StoppedStep
  <1>2. ToldInv /\ Stopped(port) /\ [Next]_vars => ToldInv' /\ Stopped(port)'
    BY ToldStep, StoppedStep
  <1>3. ToldInv /\ Stopped(port) => Hysteresis
    BY DEF ToldInv, Telling, TellsInWays, Stopped, Hysteresis
  <1> QED BY <1>1, <1>2, <1>3, PTL DEF Spec

-----------------------------------------------------------------------------
(* Nobody is stranded *)

\* The lines by which p stops its peer under the settings h.
StopLines(h) == Ways(h) \ {"XON"}

\* Whoever stops its peer does so by all the lines it has for that.
LinesTold(P) == \A p \in Ports : P[p].told = {} \/ StopLines(P[p].hand) \subseteq P[p].told

\* The limits are those of the settings.
LimitsSet(P) == \A p \in Ports : P[p].limit = LimitOf(P, p)

\* With one set of lines there is a way that all settings keep: one of them, or XOFF.
LEMMA LinesAreWays ==
  ASSUME OneSetOfLines
  PROVE  OneWay
  <1> SUFFICES ASSUME NEW p \in Ports
               PROVE  \E w \in {"CTS", "DSR", "XON"} :
                        \A h \in Hands[p] : Ways(h) # {} => w \in Ways(h)
    BY DEF OneWay
  <1>1. CASE \E g \in Hands[p] : StopLines(g) # {}
    <2>1. PICK g \in Hands[p] : StopLines(g) # {}
      BY <1>1
    <2>2. PICK w : w \in StopLines(g)
      BY <2>1
    <2>3. ASSUME NEW h \in Hands[p], Ways(h) # {} PROVE w \in Ways(h)
      BY <2>2, <2>3 DEF OneSetOfLines, StopLines
    <2>4. w \in {"CTS", "DSR", "XON"}
      BY <2>2, SomeWays DEF StopLines
    <2> QED BY <2>3, <2>4
  <1>2. CASE \A g \in Hands[p] : StopLines(g) = {}
    <2>1. \A h \in Hands[p] : Ways(h) # {} => "XON" \in Ways(h)
      BY <1>2 DEF StopLines
    <2> QED BY <2>1
  <1> QED BY <1>1, <1>2

LEMMA AdjustsLines ==
  ASSUME NEW P, Telling(P), LinesTold(P), LimitsSet(P), NEW Q, NEW r \in Ports,
         Adjusts(P, Q, r)
  PROVE  LinesTold(Q) /\ LimitsSet(Q)
  <1>1. \A q \in Ports : Q[q].hand = P[q].hand /\ Q[q].limit = P[q].limit
    BY DEF Adjusts
  <1>2. LimitsSet(Q)
    <2>1. \A q \in Ports : LimitOf(Q, q) = LimitOf(P, q)
      BY <1>1, TheOther DEF LimitOf
    <2> QED BY <1>1, <2>1 DEF LimitsSet
  <1>3. LinesTold(Q)
    <2>1. \A q \in Ports : q # r => Q[q].told = P[q].told
      BY DEF Adjusts
    <2>2. \/ Q[r].told = Ways(P[r].hand)
          \/ Q[r].told = P[r].told \ Ways(P[r].hand)
          \/ Q[r].told = P[r].told
      BY DEF Adjusts
    <2>3. P[r].told \subseteq Ways(P[r].hand)
      BY DEF Telling, TellsInWays
    <2> QED BY <1>1, <2>1, <2>2, <2>3 DEF LinesTold, StopLines
  <1> QED BY <1>2, <1>3

LEMMA NewHandLines ==
  ASSUME NoToggleAfterHandshake, OneSetOfLines, NEW P, Good(P), Telling(P), LinesTold(P),
         Stopped(P), OneLimit, NEW p \in Ports, NEW h \in Hands[p]
  PROVE  LinesTold(NewHand(P, p, h)) /\ LimitsSet(NewHand(P, p, h))
  <1> DEFINE Q == NewHand(P, p, h)
             old == P[p].hand
             full == Full(P, p, h)
  <1>1. /\ Q[p].hand = h
        /\ Q[p].told = NewlyTold(P[p].told, old, h, full)
        /\ \A q \in Ports :
             /\ Q[q].limit = LimitOf(Q, q)
             /\ q # p => Q[q].hand = P[q].hand /\ Q[q].told = P[q].told
    BY NewHandStep
  <1> HIDE DEF Q
  <1>2. P[p].told = {} \/ StopLines(old) \subseteq P[p].told
    BY DEF LinesTold
  <1>3. Q[p].told = {} \/ StopLines(h) \subseteq Q[p].told
    <2>1. CASE Ways(h) = {}
      BY <2>1 DEF StopLines
    <2>2. CASE Ways(h) # {} /\ Ways(old) = {}
      BY <1>1, <2>2 DEF NewlyTold, StopLines
    <2>3. CASE Ways(h) # {} /\ Ways(old) # {}
      <3>1. old \in Hands[p]
        BY <2>3, NoDefaultWays DEF Telling, SettingsChosen, Choices
      <3>2. StopLines(h) = StopLines(old)
        BY <2>3, <3>1 DEF OneSetOfLines, StopLines
      <3>3. P[p].told = {} => ~full
        BY <2>3, <3>1 DEF OneLimit, Stopped, Full
      <3> HIDE DEF full, old
      <3> QED BY <1>1, <1>2, <3>2, <3>3 DEF NewlyTold, StopLines
    <2> QED BY <2>1, <2>2, <2>3
  <1>4. LinesTold(Q)
    BY <1>1, <1>3 DEF LinesTold
  <1>5. LimitsSet(Q)
    BY <1>1 DEF LimitsSet
  <1> QED BY <1>4, <1>5 DEF Q

\* An input that is wired straight to a low pin of the other port is low.
LEMMA LowIsLow ==
  ASSUME NEW P, NEW w, NEW i, NEW pin,
         Wiring[w][i] = [of |-> "remote", pin |-> pin, negative |-> FALSE],
         pin \notin P[Other(w)].mcr
  PROVE  ~Level(P, w, i)
  <1>1. /\ Wiring[w][i].of = "remote" /\ Wiring[w][i].pin = pin
        /\ Wiring[w][i].negative = FALSE
    OBVIOUS
  <1>2. From(w, i) = Other(w)
    BY <1>1 DEF From
  <1>3. (pin \in P[Other(w)].mcr) = FALSE
    OBVIOUS
  <1>4. Level(P, w, i) = ((pin \in P[Other(w)].mcr) # FALSE)
    BY <1>1, <1>2, Zenon DEF Level
  <1> QED BY <1>3, <1>4, Zenon

\* A writer at a limit below the size of the buffer is held by the line that the
\* limit was made for.
LEMMA LimitMeansHeld ==
  ASSUME LinesCrossed, NEW P, Good(P), Telling(P), PinsSay(P), Stopped(P), LinesTold(P),
         LimitsSet(P)
  PROVE  LimitHolds(P)
  <1> SUFFICES ASSUME NEW w \in Ports, CanSend(P, w), Filled(P, Other(w)), P[Other(w)].busy # Size
               PROVE  FALSE
    BY DEF LimitHolds
  <1> DEFINE r == Other(w)
             h == P[r].hand
  <1>1. r \in Ports /\ Other(r) = w
    BY TheOther
  <1>2. /\ Size \in Int /\ P[r].busy \in Int /\ P[r].busy <= Size /\ h.xoff \in Int
        /\ P[w].hand.out \subseteq Inputs
    BY <1>1, SizesAssumption DEF Good, Pairs, PortStates, HandFlows
  <1>3. /\ \/ h.rts = "handshake" /\ "CTS" \in P[w].hand.out
           \/ h.dtr = "handshake" /\ P[w].hand.out \cap {"DSR", "DCD"} # {}
        /\ P[r].busy >= Least(Size, Size - h.xoff + 1)
    <2>1. P[r].limit # Size /\ P[r].busy >= P[r].limit
      BY <1>1, <1>2 DEF Filled
    <2>2. P[r].limit = LimitOf(P, r)
      BY <1>1 DEF LimitsSet
    <2> QED BY <1>1, <2>1, <2>2 DEF LimitOf
  <1>4. Full(P, r, h)
    BY <1>2, <1>3 DEF Least, Full
  <1>5. Ways(h) # {}
    BY <1>3 DEF Ways
  <1>6. h \in Hands[r]
    BY <1>1, <1>5, NoDefaultWays DEF Telling, SettingsChosen, Choices
  <1>7. StopLines(h) \subseteq P[r].told
    <2>1. P[r].told # {}
      BY <1>1, <1>4, <1>5 DEF Stopped
    <2> QED BY <1>1, <2>1 DEF LinesTold
  <1>8. \A v \in StopLines(h) : PinOf(v) \notin P[r].mcr
    BY <1>1, <1>7 DEF PinsSay, StopLines
  <1>9. \A i \in Inputs : i \in P[w].hand.out => Level(P, w, i)
    <2>1. P[w].holding \subseteq {"XON"}
      BY DEF CanSend, CanSendData, CanSendX
    <2>2. P[w].hand.out \subseteq P[w].status
      BY <2>1 DEF Good, Follows, HoldingRight
    <2> QED BY <2>2 DEF Good, Follows, StatusRight
  <1> HIDE DEF h
  <1>10. CASE h.rts = "handshake" /\ "CTS" \in P[w].hand.out
    <2>1. Wiring[w]["CTS"] = [of |-> "remote", pin |-> "RTS", negative |-> FALSE]
      BY <1>1, <1>6, <1>10 DEF LinesCrossed
    <2>2. "RTS" \notin P[r].mcr
      BY <1>8, <1>10 DEF StopLines, Ways, PinOf
    <2>3. Level(P, w, "CTS")
      BY <1>2, <1>9, <1>10
    <2> QED BY <2>1, <2>2, <2>3, LowIsLow
  <1>11. CASE h.dtr = "handshake" /\ P[w].hand.out \cap {"DSR", "DCD"} # {}
    <2>1. PICK i \in {"DSR", "DCD"} : i \in P[w].hand.out
      BY <1>11
    <2>2. Wiring[w][i] = [of |-> "remote", pin |-> "DTR", negative |-> FALSE]
      BY <1>1, <1>6, <1>11 DEF LinesCrossed
    <2>3. "DTR" \notin P[r].mcr
      BY <1>8, <1>11 DEF StopLines, Ways, PinOf
    <2>4. Level(P, w, i)
      BY <1>2, <1>9, <2>1
    <2> QED BY <2>2, <2>3, <2>4, LowIsLow
  <1> QED BY <1>3, <1>10, <1>11

\* Inv with all that the flow control says of a pair.
FlowInv ==
  /\ ToldInv /\ PinsSay(port) /\ Stopped(port)
  /\ LinesTold(port) /\ LimitsSet(port) /\ ServedBut(port, pass)

LEMMA FlowStep ==
  ASSUME NoToggleAfterHandshake, PinsLeftAlone, OneSetOfLines, OneLimit, LinesCrossed,
         NothingCleared
  PROVE  /\ Init => FlowInv
         /\ FlowInv /\ [Next]_vars => FlowInv'
  <1>0. OneWay
    BY LinesAreWays
  <1>1. ASSUME Init PROVE FlowInv
    <2>1. ToldInv /\ PinsSay(port) /\ Stopped(port)
      BY <1>0, <1>1, ToldStep, PinsStep, StoppedStep
    <2>2. LinesTold(port)
      BY <1>1, OpenedState DEF LinesTold
    <2>3. LimitsSet(port)
      BY <1>1, OpenedState DEF LimitsSet, LimitOf, DefaultHand
    <2>4. ServedBut(port, pass)
      <3>1. \A q \in Ports : ~CanSend(port, q)
        BY <1>1, OpenedState DEF CanSend, CanSendData, CanSendX
      <3> QED BY <3>1 DEF ServedBut, Served
    <2> QED BY <2>1, <2>2, <2>3, <2>4 DEF FlowInv
  <1>2. ASSUME FlowInv, [Next]_vars PROVE FlowInv'
    <2>1. ToldInv' /\ PinsSay(port)' /\ Stopped(port)'
      BY <1>0, <1>2, ToldStep, PinsStep, StoppedStep DEF FlowInv
    <2>2. Inv /\ Good(port) /\ Telling(port) /\ LinesTold(port) /\ Stopped(port)
          /\ LimitsSet(port) /\ ServedBut(port, pass)
      BY <1>2 DEF FlowInv, ToldInv, Inv
    <2>3. LinesTold(port') /\ LimitsSet(port')
      <3>1. CASE \E p \in Ports : \E h \in Hands[p] : port' = NewHand(port, p, h)
        BY <2>2, <3>1, NewHandLines
      <3>2. CASE \E r \in Ports : Adjusts(port, port', r)
        BY <2>2, <3>2, AdjustsLines
      <3> QED BY <1>2, <2>2, <3>1, <3>2, AnyStep
    <2>4. LimitHolds(port')
      <3>1. Good(port') /\ Telling(port')
        BY <2>1 DEF ToldInv, Inv, Good, Follows, StatusRight, HoldingRight, Level, Pairs,
           Telling, SettingsChosen, TellsInWays
      <3>2. PinsSay(port') /\ Stopped(port')
        BY <2>1 DEF PinsSay, Stopped, Full, Low
      <3> QED BY <2>3, <3>1, <3>2, LimitMeansHeld
    <2>5. ServedBut(port', pass')
      <3>1. CASE \E p \in Ports : \E h \in Hands[p] : port' = NewHand(port, p, h) /\ pass = Nobody
        <4>1. PICK p \in Ports : \E h \in Hands[p] : port' = NewHand(port, p, h) /\ pass = Nobody
          BY <3>1
        <4>2. PICK h \in Hands[p] : port' = NewHand(port, p, h) /\ pass = Nobody
          BY <4>1
        <4>3. \A q \in Ports : /\ AsksFor(port, port', q)
                               /\ port'[q].wanted = port[q].wanted
                               /\ port'[q].busy = port[q].busy
          BY <2>2, <4>2, NewHandStep
        <4> QED BY <2>2, <4>2, <4>3, AllServed
      <3>2. CASE NothingCleared /\ LimitHolds(port') /\ ServedBut(port, pass)
                   => ServedBut(port', pass')
        BY <2>2, <2>4, <3>2
      <3> QED BY <1>2, <2>2, <3>1, <3>2, AnyStep
    <2>6. LinesTold(port)' /\ LimitsSet(port)' /\ ServedBut(port, pass)'
      BY <2>3, <2>5 DEF LinesTold, LimitsSet, LimitOf, ServedBut, Served, CanSend, CanSendData,
         CanSendX
    <2> QED BY <2>1, <2>6 DEF FlowInv
  <1> QED BY <1>1, <1>2

\* When no call is under way, whoever may send, data or an XON or XOFF, has done so
\* or waits for a reader with a full buffer and no READ: through every interleaving
\* of the calls, the lines, the characters and the changes of settings.
THEOREM NobodyStranded ==
  ASSUME NoToggleAfterHandshake, PinsLeftAlone, OneSetOfLines, OneLimit, LinesCrossed,
         NothingCleared
  PROVE  Spec => []NoneStranded
  <1>1. FlowInv => NoneStranded
    <2> SUFFICES ASSUME FlowInv, pass = Nobody, NEW p \in Ports, CanSend(port, p)
                 PROVE  /\ port[Other(p)].wanted = 0
                        /\ port[Other(p)].busy >= LimitOf(port, Other(p))
      BY DEF NoneStranded, CanSend
    <2>1. Served(port, p) /\ ~port[p].try
      BY DEF FlowInv, ServedBut, Ports, Nobody, ToldInv, Inv, NoWakeUpLeft, AnyTry
    <2>2. port[Other(p)].wanted = 0 /\ port[Other(p)].busy = Size
      BY <2>1 DEF Served
    <2>3. LimitOf(port, Other(p)) \in 1 .. Size
      BY TheOther, LimitInRange DEF FlowInv, ToldInv, Inv, Good
    <2> QED BY <2>2, <2>3, SizesAssumption
  <1> QED BY <1>1, FlowStep, PTL DEF Spec
=============================================================================
