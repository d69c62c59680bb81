----------------------------- MODULE OpenClose -----------------------------
(***************************************************************************)
(* Opening and closing the two ports of a pair (openclos.c), and showing   *)
(* and hiding them (pnp.c, showport.c).  A step is what happens between    *)
(* two accesses to state that other threads touch: the interlocked         *)
(* openCount, the unlocked isOpen, and a section under the lock of the     *)
(* pair.  Users are threads that call CreateFile and CloseHandle.  The PnP *)
(* manager has one thread here, which handles one query of device          *)
(* relations at a time, at any time, and above all when asked to by        *)
(* IoInvalidateDeviceRelations.                                            *)
(***************************************************************************)
EXTENDS Integers, FiniteSets

CONSTANTS
  Port,      \* the two ports of a pair
  Remote,    \* the other port of the pair
  PlugIn,    \* the ports in plug-in mode: hidden until the other is open
  Exclusive, \* the ports in exclusive mode: hidden while open
  User,      \* threads of programs
  NoPort     \* the port of a thread that is not opening or closing one

ASSUME PairAssumption ==
  /\ Remote \in [Port -> Port]
  /\ \A p \in Port : Remote[Remote[p]] = p
  /\ PlugIn \subseteq Port
  /\ Exclusive \subseteq Port
  /\ NoPort \notin Port

ASSUME UserAssumption == IsFiniteSet(User)

VARIABLES
  openCount,  \* openCount of each port's device
  isOpen,     \* isOpen of each port
  buffers,    \* how many buffers are allocated for the port's readBuf
  modemOpen,  \* C0C_MCR_OPEN is set in the port's modem control register
  shown,      \* the port's name and interface are there to be found
  invalid,    \* device relations invalidated, the query still to come
  at,         \* where each user is
  port,       \* which port each user opens, has open or closes
  timer,      \* timerClose is set
  dpc,        \* its DPC is queued and waits for the lock
  pnp         \* the PnP manager's thread: where it is, its port, its decision

vars == <<openCount, isOpen, buffers, modemOpen, shown, invalid, at, port,
          timer, dpc, pnp>>

\* Between InterlockedIncrement and the buffer's allocation
Entering == {"counted", "checked", "announced"}
\* While the buffer is there
Session == {"ready", "opened", "held", "closing", "told"}
\* After FdoPortClose has freed it
Leaving == {"cleared", "pending"}
Places == Entering \cup Session \cup Leaving \cup {"idle", "refused"}

TypeOK ==
  /\ openCount \in [Port -> Nat]
  /\ isOpen \in [Port -> BOOLEAN]
  /\ buffers \in [Port -> Nat]
  /\ modemOpen \in [Port -> BOOLEAN]
  /\ shown \in [Port -> BOOLEAN]
  /\ invalid \in [Port -> BOOLEAN]
  /\ at \in [User -> Places]
  /\ port \in [User -> Port \cup {NoPort}]
  /\ \A u \in User : port[u] = NoPort <=> at[u] = "idle"
  /\ timer \in [Port -> BOOLEAN]
  /\ dpc \in [Port -> BOOLEAN]
  /\ pnp \in [at : {"idle", "remote", "apply", "complete"},
              port : Port \cup {NoPort}, hide : BOOLEAN]
  /\ pnp.port = NoPort <=> pnp.at = "idle"

-----------------------------------------------------------------------------
(* CreateFile: FdoPortOpen *)

Init ==
  /\ openCount = [p \in Port |-> 0]
  /\ isOpen = [p \in Port |-> FALSE]
  /\ buffers = [p \in Port |-> 0]
  /\ modemOpen = [p \in Port |-> FALSE]
  /\ shown = [p \in Port |-> p \notin PlugIn]
  /\ invalid = [p \in Port |-> FALSE]
  /\ at = [u \in User |-> "idle"]
  /\ port = [u \in User |-> NoPort]
  /\ timer = [p \in Port |-> FALSE]
  /\ dpc = [p \in Port |-> FALSE]
  /\ pnp = [at |-> "idle", port |-> NoPort, hide |-> FALSE]

Go(u, place) == at' = [at EXCEPT ![u] = place]

Return(u) == Go(u, "idle") /\ port' = [port EXCEPT ![u] = NoPort]

\* IoInvalidateDeviceRelations for the ports in S
Invalidate(S) == invalid' = [p \in Port |-> invalid[p] \/ p \in S]

\* InterlockedIncrement tells whether the port was free
CountIn(u, p) ==
  /\ at[u] = "idle"
  /\ openCount' = [openCount EXCEPT ![p] = @ + 1]
  /\ Go(u, IF openCount[p] = 0 THEN "counted" ELSE "refused")
  /\ port' = [port EXCEPT ![u] = p]
  /\ UNCHANGED <<isOpen, buffers, modemOpen, shown, invalid, timer, dpc, pnp>>

\* A refused CreateFile takes its count back
CountOut(u) ==
  /\ at[u] = "refused"
  /\ openCount' = [openCount EXCEPT ![port[u]] = @ - 1]
  /\ Return(u)
  /\ UNCHANGED <<isOpen, buffers, modemOpen, shown, invalid, timer, dpc, pnp>>

\* A port in plug-in mode opens only while the other one is open
CheckRemote(u) ==
  /\ at[u] = "counted"
  /\ Go(u, IF port[u] \in PlugIn /\ ~isOpen[Remote[port[u]]]
             THEN "refused" ELSE "checked")
  /\ UNCHANGED <<openCount, isOpen, buffers, modemOpen, shown, invalid, port,
                 timer, dpc, pnp>>

\* In exclusive mode the port is to be hidden from now on
AnnounceOpen(u) ==
  /\ at[u] = "checked"
  /\ Invalidate({port[u]} \cap Exclusive)
  /\ Go(u, "announced")
  /\ UNCHANGED <<openCount, isOpen, buffers, modemOpen, shown, port, timer,
                 dpc, pnp>>

\* The section under the lock: a fresh buffer, and the remote port sees OPEN
SetUp(u) ==
  /\ at[u] = "announced"
  /\ buffers' = [buffers EXCEPT ![port[u]] = @ + 1]
  /\ modemOpen' = [modemOpen EXCEPT ![port[u]] = TRUE]
  /\ Go(u, "ready")
  /\ UNCHANGED <<openCount, isOpen, shown, invalid, port, timer, dpc, pnp>>

\* isOpen is set after the lock is released
MarkOpen(u) ==
  /\ at[u] = "ready"
  /\ isOpen' = [isOpen EXCEPT ![port[u]] = TRUE]
  /\ Go(u, "opened")
  /\ UNCHANGED <<openCount, buffers, modemOpen, shown, invalid, port, timer,
                 dpc, pnp>>

\* faulty: the remote port is told of the close only
TellNobody(u) ==
  /\ at[u] = "opened"
  /\ Go(u, "held")
  /\ UNCHANGED <<openCount, isOpen, buffers, modemOpen, shown, invalid, port,
                 timer, dpc, pnp>>

\* The remote port may appear now; CreateFile returns
TellRemoteOpen(u) ==
  /\ at[u] = "opened"
  /\ Invalidate({Remote[port[u]]} \cap PlugIn)
  /\ Go(u, "held")
  /\ UNCHANGED <<openCount, isOpen, buffers, modemOpen, shown, port, timer,
                 dpc, pnp>>

-----------------------------------------------------------------------------
(* CloseHandle: FdoPortClose and StartIrpClose *)

\* faulty: gives the port back before it is cleaned up
MarkClosedEarly(u) ==
  /\ at[u] = "held"
  /\ isOpen' = [isOpen EXCEPT ![port[u]] = FALSE]
  /\ openCount' = [openCount EXCEPT ![port[u]] = @ - 1]
  /\ Go(u, "closing")
  /\ UNCHANGED <<buffers, modemOpen, shown, invalid, port, timer, dpc, pnp>>

\* The first section under the lock
MarkClosed(u) ==
  /\ at[u] = "held"
  /\ isOpen' = [isOpen EXCEPT ![port[u]] = FALSE]
  /\ Go(u, "closing")
  /\ UNCHANGED <<openCount, buffers, modemOpen, shown, invalid, port, timer,
                 dpc, pnp>>

\* The remote port is to be hidden
TellRemoteClosed(u) ==
  /\ at[u] = "closing"
  /\ Invalidate({Remote[port[u]]} \cap PlugIn)
  /\ Go(u, "told")
  /\ UNCHANGED <<openCount, isOpen, buffers, modemOpen, shown, port, timer,
                 dpc, pnp>>

\* The second section under the lock: clean up and, unless the port is in
\* exclusive mode, give it back
CleanUp(u) ==
  /\ at[u] = "told"
  /\ modemOpen' = [modemOpen EXCEPT ![port[u]] = FALSE]
  /\ buffers' = [buffers EXCEPT ![port[u]] = @ - 1]
  /\ openCount' = IF port[u] \in Exclusive THEN openCount
                    ELSE [openCount EXCEPT ![port[u]] = @ - 1]
  /\ Go(u, "cleared")
  /\ UNCHANGED <<isOpen, shown, invalid, port, timer, dpc, pnp>>

\* StartIrpClose completes the CLOSE at once
CloseAtOnce(u) ==
  /\ at[u] = "cleared"
  /\ port[u] \notin Exclusive
  /\ Return(u)
  /\ UNCHANGED <<openCount, isOpen, buffers, modemOpen, shown, invalid, timer,
                 dpc, pnp>>

\* faulty: the CLOSE relies on the query to come
CloseLaterUntimed(u) ==
  /\ at[u] = "cleared"
  /\ port[u] \in Exclusive
  /\ Invalidate({port[u]})
  /\ Go(u, "pending")
  /\ UNCHANGED <<openCount, isOpen, buffers, modemOpen, shown, port, timer,
                 dpc, pnp>>

\* In exclusive mode the CLOSE waits until the port is shown again, or for a
\* second
CloseLater(u) ==
  /\ at[u] = "cleared"
  /\ port[u] \in Exclusive
  /\ Invalidate({port[u]})
  /\ timer' = [timer EXCEPT ![port[u]] = TRUE]
  /\ Go(u, "pending")
  /\ UNCHANGED <<openCount, isOpen, buffers, modemOpen, shown, port, dpc, pnp>>

Closer(p) == {u \in User : port[u] = p /\ at[u] = "pending"}

\* FdoPortIo(C0C_IO_TYPE_CLOSE_COMPLETE), under the lock, completes the
\* pending CLOSE if there is one
CompleteClose(p) ==
  /\ openCount' = [openCount EXCEPT ![p] = @ - Cardinality(Closer(p))]
  /\ at' = [u \in User |-> IF u \in Closer(p) THEN "idle" ELSE at[u]]
  /\ port' = [u \in User |-> IF u \in Closer(p) THEN NoPort ELSE port[u]]

TimerFires(p) ==
  /\ timer[p]
  /\ timer' = [timer EXCEPT ![p] = FALSE]
  /\ dpc' = [dpc EXCEPT ![p] = TRUE]
  /\ UNCHANGED <<openCount, isOpen, buffers, modemOpen, shown, invalid, at,
                 port, pnp>>

\* TimeoutRoutine
CloseTimeout(p) ==
  /\ dpc[p]
  /\ dpc' = [dpc EXCEPT ![p] = FALSE]
  /\ CompleteClose(p)
  /\ UNCHANGED <<isOpen, buffers, modemOpen, shown, invalid, timer, pnp>>

-----------------------------------------------------------------------------
(* IRP_MN_QUERY_DEVICE_RELATIONS: FdoPortPnp *)

Decide(p, hide) == pnp' = [at |-> "apply", port |-> p, hide |-> hide]

\* exclusiveMode && isOpen, or go on to the second half of the condition
Query(p) ==
  /\ pnp.at = "idle"
  /\ invalid' = [invalid EXCEPT ![p] = FALSE]
  /\ IF p \in Exclusive /\ isOpen[p]
       THEN Decide(p, TRUE)
       ELSE pnp' = [at |-> "remote", port |-> p, hide |-> FALSE]
  /\ UNCHANGED <<openCount, isOpen, buffers, modemOpen, shown, at, port,
                 timer, dpc>>

\* plugInMode && !pIoPortRemote->isOpen
QueryRemote ==
  /\ pnp.at = "remote"
  /\ Decide(pnp.port, pnp.port \in PlugIn /\ ~isOpen[Remote[pnp.port]])
  /\ UNCHANGED <<openCount, isOpen, buffers, modemOpen, shown, invalid, at,
                 port, timer, dpc>>

\* HidePort or ShowPort
HideOrShow ==
  /\ pnp.at = "apply"
  /\ shown' = [shown EXCEPT ![pnp.port] = ~pnp.hide]
  /\ pnp' = [pnp EXCEPT !.at = "complete"]
  /\ UNCHANGED <<openCount, isOpen, buffers, modemOpen, invalid, at, port,
                 timer, dpc>>

\* Complete pending CLOSE IRPs
QueryEnd ==
  /\ pnp.at = "complete"
  /\ CompleteClose(pnp.port)
  /\ pnp' = [at |-> "idle", port |-> NoPort, hide |-> FALSE]
  /\ UNCHANGED <<isOpen, buffers, modemOpen, shown, invalid, timer, dpc>>

-----------------------------------------------------------------------------

\* What a user's thread does by itself once it has called CreateFile
Opening(u) == \/ CountOut(u) \/ CheckRemote(u) \/ AnnounceOpen(u)
              \/ SetUp(u) \/ MarkOpen(u) \/ TellRemoteOpen(u)

\* ... and once it has called CloseHandle
Closing(u) == \/ TellRemoteClosed(u) \/ CleanUp(u) \/ CloseAtOnce(u)
              \/ CloseLater(u)

PnpStep == (\E p \in Port : Query(p)) \/ QueryRemote \/ HideOrShow \/ QueryEnd

Next ==
  \/ \E u \in User, p \in Port : CountIn(u, p)
  \/ \E u \in User : Opening(u) \/ MarkClosed(u) \/ Closing(u)
  \/ \E p \in Port : TimerFires(p) \/ CloseTimeout(p)
  \/ PnpStep

Spec == Init /\ [][Next]_vars

\* Threads inside the driver run on, the clock ticks and DPCs are delivered;
\* nobody has to open or close a port, and the PnP manager may take its time.
Fairness ==
  /\ \A u \in User : WF_vars(Opening(u)) /\ WF_vars(Closing(u))
  /\ \A p \in Port : WF_vars(TimerFires(p)) /\ WF_vars(CloseTimeout(p))

FairSpec == Spec /\ Fairness

-----------------------------------------------------------------------------
(* Properties *)

Users(p, places) == {u \in User : port[u] = p /\ at[u] \in places}

\* Whoever openCount has let in and who has not given the port back yet.
Holding(p) ==
  Users(p, Entering \cup Session \cup (IF p \in Exclusive THEN Leaving ELSE {}))

\* A port has at most one user from InterlockedIncrement to the decrement, and
\* openCount is the number of those users and of the ones being refused
\* (openclos.c:127, 136, 294 and io.c:919 count by themselves).
OneHolder ==
  \A p \in Port :
    /\ \A u, v \in Holding(p) : u = v
    /\ openCount[p] = Cardinality(Holding(p) \cup Users(p, {"refused"}))

\* The read buffer, the OPEN signal and isOpen follow the one user of the
\* port: a new CreateFile never finds the buffer of the previous one, which
\* "ensuring cleanup finished first" (openclos.c:290) is to guarantee, and
\* FdoPortClose always finds isOpen set, so its refusal (openclos.c:252) is
\* dead code.
SessionState ==
  \A p \in Port :
    /\ buffers[p] = IF Users(p, Session) # {} THEN 1 ELSE 0
    /\ modemOpen[p] <=> Users(p, Session) # {}
    /\ isOpen[p] <=> Users(p, {"opened", "held"}) # {}

\* Nothing is going on.
Quiet ==
  /\ \A u \in User : at[u] \in {"idle", "held"}
  /\ pnp.at = "idle"
  /\ \A p \in Port : ~invalid[p]

\* Once all is quiet a port in plug-in mode is shown exactly while the other
\* one is open, and a port in exclusive mode that is not open is shown
\* (pnp.c:418, openclos.c:212, 236, 268), however opens, closes and queries
\* were interleaved.
SettlesRight ==
  Quiet =>
    \A p \in Port :
      /\ p \in PlugIn \ Exclusive => (shown[p] <=> isOpen[Remote[p]])
      /\ p \in Exclusive \ PlugIn /\ ~isOpen[p] => shown[p]

\* Until then a port in plug-in mode is as the other one is, or a query to come, one under
\* way or a thread that is about to ask for one will make it so.
PlugInFollows(p) ==
  LET r == Remote[p]
  IN  \/ invalid[p]
      \/ Users(r, {"opened", "closing"}) # {}
      \/ pnp.port = p /\ pnp.at = "remote"
      \/ pnp.port = p /\ pnp.at = "apply" /\ (pnp.hide <=> ~isOpen[r])
      \/ (pnp.port = p => pnp.at = "complete") /\ (shown[p] <=> isOpen[r])
\* A port in exclusive mode is open or shown, or will be shown in the same way.
ShownAgain(p) ==
  \/ isOpen[p]
  \/ invalid[p]
  \/ Users(p, {"closing", "told", "cleared"}) # {}
  \/ pnp.port = p /\ pnp.at \in {"remote", "apply"} /\ ~pnp.hide
  \/ shown[p] /\ ~(pnp.port = p /\ pnp.at = "apply" /\ pnp.hide)
Settling ==
  /\ \A p \in PlugIn \ Exclusive : PlugInFollows(p)
  /\ \A p \in Exclusive \ PlugIn : ShownAgain(p)

\* Once all is quiet a port in exclusive mode that is open is hidden
\* (src/docs/USERGUIDE.md:150).  openclos.c:141 asks for the query before
\* isOpen is set.
HiddenWhileOpen ==
  Quiet => \A p \in Exclusive : isOpen[p] => ~shown[p]

\* A CLOSE in exclusive mode that the query completed, not the timer, leaves
\* the port shown (pnp.c:427 after 422): otherwise an open right after it is
\* refused.  pnp.c:418 looks at isOpen without the lock.
ShownAfterClose ==
  [][\A u \in User :
       at[u] = "pending" /\ at'[u] = "idle" /\ dpc' = dpc
         /\ port[u] \notin PlugIn
       => shown[port[u]]]_vars

\* CreateFile is refused by openCount only while another thread has the port,
\* opens it or has not finished closing it (openclos.c:127).  A refused
\* CreateFile keeps its count for a moment.
RefusedOnlyWhileOpen ==
  [][\A u \in User :
       at[u] = "idle" /\ at'[u] = "refused" => Holding(port'[u]) # {}]_vars

\* CloseHandle always returns, whether or not the PnP manager queries the
\* port (openclos.c:237, timeout.c:97).
CloseReturns == \A u \in User : at[u] = "closing" ~> at[u] = "idle"

=============================================================================
