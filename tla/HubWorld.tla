------------------------------ MODULE HubWorld ------------------------------
(***************************************************************************)
(* hub4com among its devices, peers and timers: a hub, or several that     *)
(* share nothing but the TCP connections between them (links), from the    *)
(* end of StartAll on.  An action is one call that the system queues to a  *)
(* hub's only thread: the end of a read, write or wait, an event of a      *)
(* socket, a timer.  What the world outside may do is bounded by what its  *)
(* devices and peers have to say, by events and by MaxFaults.              *)
(***************************************************************************)
EXTENDS Hub

CONSTANTS
  Worlds,    \* what may be started: the hubs as StartAll leaves them, and their surroundings
  MaxPorts,  \* the number of ports of the largest of them
  Backlog,   \* devices and peers are slow: they send when no more bytes than this are on their way
  FaultKinds, MaxFaults, \* the calls that may fail, and how often
  Refusals   \* whether a peer may refuse a connection

\* Surroundings: feed[p] is what the device or peer of p has still to send, pins[p] has the
\* states that the pins of a device may take, links the pairs <<p, q>> of a client p and the
\* listening port q that it connects to; the devices wait for those that are awaited.  reads
\* has how many bytes a read may return, if there are so many.
VARIABLES w,       \* the world
          outside, \* its surroundings
          heard,   \* heard[p]: what the device or peer of p has sent so far
          events,  \* how many times peers may still connect, close or refuse, and pins change
          faults   \* faults left

vars == <<w, outside, heard, events, faults>>

AllPorts == 1 .. MaxPorts
Ports == DOMAIN w.port
Links == outside.links
Linked == UNION {{l[1], l[2]} : l \in Links}
Serials == {p \in Ports : w.port[p].kind = "serial"}
Tcps == {p \in Ports : w.port[p].kind = "tcp"}
Drivers == Serials \cup Tcps

Init0 ==
  /\ \E s \in Worlds : w = s.hub /\ outside = s.outside /\ events = s.events
  /\ heard = [p \in Ports |-> <<>>]
  /\ faults = MaxFaults

\* One call of the thread, in which at most one kind of call of the system fails.
Runs(Op(_)) ==
  /\ ~w.stopped
  /\ \E f \in {{}} \cup {{k} : k \in FaultKinds} :
       /\ Cardinality(f) <= faults
       /\ w' = [Op([w EXCEPT !.fault = f]) EXCEPT !.fault = {}]
       /\ faults' = faults - Cardinality(f)
Still == UNCHANGED <<outside, heard, events>>
Event == events > 0 /\ events' = events - 1 /\ UNCHANGED <<outside, heard>>

Under(p) == (IF p \in Linked THEN Len(w.port[p].sent) ELSE 0)
            + MapThenSumSet(LAMBDA i : Len(w.port[p].writes[i].data), DOMAIN w.port[p].writes)
Calm ==
  /\ MapThenSumSet(Under, Drivers) <= Backlog
  /\ \A l \in outside.awaited : w.port[l[1]].connected /\ w.port[l[2]].connected

Chunks(s) == IF s = <<>> THEN {} ELSE {SubSeq(s, 1, IF n < Len(s) THEN n ELSE Len(s)) : n \in outside.reads}
Sends(p, data) ==
  /\ heard' = [heard EXCEPT ![p] = @ \o data]
  /\ outside' = [outside EXCEPT !.feed[p] = SubSeq(@, Len(data) + 1, Len(@))]
  /\ UNCHANGED events

-----------------------------------------------------------------------------
\* A serial port's device.
SerialReads(p) ==
  /\ Calm /\ w.port[p].handle /\ w.port[p].readPending
  /\ \E data \in Chunks(outside.feed[p]) :
       Runs(LAMBDA v : Ser!ReadEnds(v, p, data)) /\ Sends(p, data)

SerialReadAborts(p) ==
  /\ ~w.port[p].handle /\ w.port[p].readPending
  /\ Runs(LAMBDA v : Ser!ReadEnds(v, p, <<>>))
  /\ Still

\* An aborted write may have sent some of its bytes.
WriteDone(p) ==
  LET job == Head(w.port[p].writes)
  IN  IF job.aborted THEN 0 .. Len(job.data) ELSE {Len(job.data)}
SerialWriteEnds(p) ==
  /\ w.port[p].writes # <<>>
  /\ \E done \in WriteDone(p) : Runs(LAMBDA v : Ser!WriteEnds(v, p, done))
  /\ Still

\* The pins change; the wait for the event ends then.
PinsChange(p) ==
  /\ ~w.stopped /\ Calm /\ Event /\ w.port[p].handle /\ w.port[p].waitPending
  /\ \E pins \in outside.pins[p] \ {w.port[p].dev.pins} :
       Runs(LAMBDA v : Ser!WaitEnds([v EXCEPT !.port[p].dev.pins = pins], p))
SerialWaitAborts(p) ==
  /\ ~w.port[p].handle /\ w.port[p].waitPending
  /\ Runs(LAMBDA v : Ser!WaitEnds(v, p))
  /\ Still

-----------------------------------------------------------------------------
\* A TCP port's peer, one of the world outside.
TcpConnects(p) ==
  /\ p \notin Linked /\ w.port[p].sock = "connecting"
  /\ Runs(LAMBDA v : Tcp!ConnectEvent(v, p, TRUE))
  /\ Still
TcpRefused(p) ==
  /\ Refusals /\ Event /\ p \notin Linked /\ w.port[p].sock = "connecting"
  /\ Runs(LAMBDA v : Tcp!ConnectEvent(v, p, FALSE))
PeerArrives(l) ==
  /\ ~w.stopped /\ Event
  /\ \A p \in Linked \cap Tcps : l \notin w.port[p].listener
  /\ w' = [w EXCEPT !.listen[l].peers = @ + 1, !.listen[l].event = TRUE]
  /\ UNCHANGED faults
TcpAccepts(l) ==
  /\ w.listen[l].event
  /\ Runs(LAMBDA v : Tcp!ListenerEvent(v, l))
  /\ Still

TcpReads(p) ==
  /\ Calm /\ p \notin Linked /\ w.port[p].sock = "open" /\ w.port[p].readPending
  /\ \E data \in Chunks(outside.feed[p]) :
       Runs(LAMBDA v : Tcp!ReadEnds(v, p, data)) /\ Sends(p, data)
\* A read of a socket that the peer has closed, or that is gone.
TcpReadEndsEmpty(p) ==
  /\ w.port[p].sock \in {"ended", "none"} /\ w.port[p].readPending
  /\ Runs(LAMBDA v : Tcp!ReadEnds(v, p, <<>>))
  /\ Still
TcpWriteEnds(p) ==
  /\ w.port[p].writes # <<>>
  /\ \E done \in WriteDone(p) : Runs(LAMBDA v : Tcp!WriteEnds(v, p, done))
  /\ Still

\* The peer closes, of itself or because the port sends no more.
Ends(v, p) == [v EXCEPT !.port[p].sock = "ended", !.port[p].closeEvent = TRUE]
PeerCloses(p) ==
  /\ ~w.stopped /\ p \notin Linked /\ w.port[p].sock = "open" /\ ~w.port[p].shut
  /\ Event
  /\ w' = Ends(w, p)
  /\ UNCHANGED faults
PeerAnswersShut(p) ==
  /\ ~w.stopped /\ p \notin Linked /\ w.port[p].sock = "open" /\ w.port[p].shut
  /\ w' = Ends(w, p)
  /\ Still /\ UNCHANGED faults
TcpClosed(p) ==
  /\ w.port[p].closeEvent
  /\ Runs(LAMBDA v : Tcp!CloseEvent(v, p))
  /\ Still

ReconnectTimer(p) ==
  /\ w.port[p].timer
  /\ Runs(LAMBDA v : TimerExpires([v EXCEPT !.port[p].timer = FALSE], p, <<"reconnect", p>>))
  /\ Still

-----------------------------------------------------------------------------
\* The connection between two hubs.  sent is then what is on its way.
LinkConnects(p, q) ==
  LET l == CHOOSE l \in w.port[q].listener : TRUE
  IN  /\ w.port[p].sock = "connecting"
      /\ Runs(LAMBDA v : Tcp!ConnectEvent([v EXCEPT !.listen[l].peers = @ + 1, !.listen[l].event = TRUE],
                                          p, TRUE))
      /\ Still
LinkDelivers(p, q) ==
  /\ w.port[q].sock \in {"open", "ended"} /\ w.port[q].readPending
  /\ \E data \in Chunks(w.port[p].sent) :
       Runs(LAMBDA v : Tcp!ReadEnds([v EXCEPT !.port[p].sent = SubSeq(@, Len(data) + 1, Len(@))], q, data))
  /\ Still
\* One side of the connection ends for the other when all that was on its way has come,
\* unless it is still to be accepted.
LinkEnds(p, q) ==
  /\ ~w.stopped
  /\ \A l \in w.port[p].listener : w.listen[l].peers = 0
  /\ w.port[q].sock = "open" /\ w.port[p].sent = <<>>
  /\ w.port[p].sock # "open" \/ (w.port[p].shut /\ w.port[p].writes = <<>>)
  /\ w.port[q].connected
  /\ w' = Ends(w, q)
  /\ Still /\ UNCHANGED faults

-----------------------------------------------------------------------------
\* The timers of the filters, and the report of what was lost.
FilterTimer(p, n) ==
  LET f == w.flt[p][n].f
  IN  /\ f.kind \in {"pin2con", "telnet"} /\ f.timer
      /\ Event
      /\ Runs(LAMBDA v : TimerExpires(v, p, <<f.kind, p>>))

Reports ==
  /\ ~w.stopped
  /\ \E p \in Serials \cup Tcps : w.port[p].lost > 0
  /\ w' = [w EXCEPT !.port = [p \in Ports |-> IF p \in Serials THEN Ser!LostReport(w, p).port[p]
                                              ELSE IF p \in Tcps THEN Tcp!LostReport(w, p).port[p] ELSE @[p]]]
  /\ Still /\ UNCHANGED faults

Completions ==
  \/ \E p \in Serials : SerialReadAborts(p) \/ SerialWriteEnds(p) \/ SerialWaitAborts(p)
  \/ \E p \in Tcps : TcpReadEndsEmpty(p) \/ TcpWriteEnds(p) \/ TcpClosed(p)
  \/ \E l \in DOMAIN w.listen : TcpAccepts(l)
Outside ==
  \/ \E p \in Serials : SerialReads(p) \/ PinsChange(p)
  \/ \E p \in Tcps : \/ TcpConnects(p) \/ TcpRefused(p) \/ TcpReads(p)
                     \/ PeerCloses(p) \/ PeerAnswersShut(p) \/ ReconnectTimer(p)
  \/ \E l \in DOMAIN w.listen : PeerArrives(l)
  \/ \E l \in Links : LinkConnects(l[1], l[2]) \/ LinkDelivers(l[1], l[2]) \/ LinkDelivers(l[2], l[1])
                      \/ LinkEnds(l[1], l[2]) \/ LinkEnds(l[2], l[1])
  \/ \E p \in Ports : \E n \in DOMAIN w.flt[p] : FilterTimer(p, n)
  \/ Reports

Next == Completions \/ Outside
Spec == Init0 /\ [][Next]_vars

\* What is started ends: the system completes each read, write and wait that it cancels, a
\* device and a peer take what is written to them, a connection is answered, and the events
\* and timers that are due come.  Each is weak fairness of an action, WF_vars(A), with the
\* condition under which A can be taken written out in place of ENABLED <<A>>_vars.
Cancelled(p) == p \in Serials /\ ~w.port[p].handle
Writing(p) == p \in Drivers /\ w.port[p].writes # <<>>
Over(p) == p \in Tcps /\ w.port[p].sock \in {"ended", "none"} /\ w.port[p].readPending
Closing(p) == p \in Tcps /\ w.port[p].closeEvent
Answered(p) == p \in Tcps /\ (w.port[p].sock = "connecting" \/ (w.port[p].sock = "open" /\ w.port[p].shut))
Timed(p) == p \in Tcps /\ w.port[p].timer
Fairness ==
  \A p \in AllPorts :
    /\ <>[](Cancelled(p) /\ w.port[p].readPending) => []<><<SerialReadAborts(p)>>_vars
    /\ <>[](Cancelled(p) /\ w.port[p].waitPending) => []<><<SerialWaitAborts(p)>>_vars
    /\ <>[]Writing(p) => []<><<IF p \in Serials THEN SerialWriteEnds(p) ELSE TcpWriteEnds(p)>>_vars
    /\ <>[]Over(p) => []<><<TcpReadEndsEmpty(p)>>_vars
    /\ <>[]Closing(p) => []<><<TcpClosed(p)>>_vars
    /\ <>[]Answered(p) => []<><<TcpConnects(p) \/ PeerAnswersShut(p)>>_vars
    /\ <>[]Timed(p) => []<><<ReconnectTimer(p)>>_vars
FairSpec == Spec /\ Fairness

-----------------------------------------------------------------------------
\* Properties of the port drivers under a hub without filters.
Sources(routes, q) == {p \in Ports : <<p, q>> \in ToSet(routes)}
Up(p) == IF p \in Serials THEN w.port[p].connectSent ELSE w.port[p].connected
Held(q) == FlattenSeq([i \in DOMAIN w.port[q].writes |-> w.port[q].writes[i].data]) \o w.port[q].buf

\* A port's connection counter is the number of the ports routed to it that are up, whatever
\* opened, refused or ended meanwhile: a counter that is too high keeps a shared serial port
\* open for ever, one that is too low closes it under a user (comport.cpp of serial and tcp).
CountersAgree == \A q \in Drivers : w.port[q].counter = Cardinality({p \in Sources(w.data, q) : Up(p)})

\* A port has been told to stop reading by exactly those of its receivers whose write queue is
\* above its limit: no XON is lost and none comes twice (FlowControlUpdate of both drivers).
XoffsAgree ==
  \A q \in Drivers :
    w.port[q].countXoff = Cardinality({p \in Sources(w.fc, q) : w.port[p].suspended})

\* Every byte that was read for a port has been sent, is queued or is counted as lost, over
\* purges, failed writes, lost connections and reopened handles (writeQueued and writeLost).
Conserved ==
  \A q \in Drivers :
    LET s == w.port[q]
        read == MapThenSumSet(LAMBDA p : Len(heard[p]), Sources(w.data, q))
    IN  /\ s.queued = Len(Held(q))
        /\ read % Wrap = (Len(s.sent) + s.lost + s.lostTotal + s.queued) % Wrap

\* What a port sends, and what it holds to be sent, is in the order in which it was read.  Of a
\* serial port in share mode the code does not keep this: see NothingBufferedWhileFree.
InOrder ==
  \A q \in Drivers : \A p \in Sources(w.data, q) :
    LET whole == w.port[q].sent \o Held(q)
        mine == SelectSeq(whole, LAMBDA ch : ch \in ToSet(heard[p]))
        at(ch) == CHOOSE i \in DOMAIN heard[p] : heard[p][i] = ch
    IN  (q \in Tcps \/ w.port[q].permanent) => \A i \in 2 .. Len(mine) : at(mine[i - 1]) < at(mine[i])

\* A port that is open and not told to stop has a read outstanding, unless a read could not be
\* started: no end of a read and no XON leaves it deaf (StartRead, OnRead, ADD_XOFF_XON).
NotDeaf ==
  \A p \in Drivers :
    /\ IF p \in Serials THEN w.port[p].handle ELSE w.port[p].connected
    /\ w.port[p].countXoff = 0
    /\ faults = MaxFaults
    => w.port[p].reads = 1 /\ w.port[p].readPending

\* The assertion of the serial port's Write: when its handle is open and one of its overlapped
\* writes is free, nothing waits in pWriteBuf that the next data would overtake.
NothingBufferedWhileFree ==
  \A p \in Serials : w.port[p].handle /\ w.port[p].free > 0 => w.port[p].buf = <<>>

\* A write queue above its limit is worked off, so that its sources read again.  Of a serial
\* port in share mode the code does not keep this either.
NothingFails == [](faults = MaxFaults)
Suspended(p) == p \in Drivers /\ w.port[p].suspended
XoffEnds ==
  NothingFails =>
    \A p \in AllPorts : Suspended(p) /\ (p \in Tcps \/ w.port[p].permanent) ~> ~Suspended(p)
SharedXoffEnds == \A p \in AllPorts : Suspended(p) ~> ~Suspended(p)

\* A client that is to stay connected connects again after each loss of the connection
\* (OnDisconnect, the reconnect timer, FakeReadFilter).
Connects(p) == p \in Tcps /\ w.port[p].permanent /\ w.port[p].reconnect # "never"
Reconnects ==
  NothingFails => \A p \in AllPorts : Connects(p) ~> p \in Tcps /\ w.port[p].connected

\* A serial port that somebody is connected to is open in the end, or nobody is any more: a
\* request that comes while the old handle still has calls outstanding is not forgotten
\* (Update, ComIo::Close, OnPortFree).
Wanted(p) == p \in Serials /\ w.port[p].counter > 0
OpensWhenWanted ==
  NothingFails => \A p \in AllPorts : Wanted(p) ~> ~Wanted(p) \/ w.port[p].handle
=============================================================================
