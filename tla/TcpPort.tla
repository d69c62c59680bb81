------------------------------ MODULE TcpPort ------------------------------
(***************************************************************************)
(* The TCP port driver of hub4com: comport.cpp and comio.cpp of            *)
(* plugins/tcp.  A port either connects to a remote address or takes       *)
(* connections from a listening socket that it may share with other ports. *)
(*                                                                         *)
(* The system's side of a port is its socket: none, connecting, open, or   *)
(* ended by the peer; then FD_CLOSE is still to come (closeEvent) and a    *)
(* read ends with no bytes.  A listening socket has the ports that wait    *)
(* for a connection, the peers that wait to be accepted and FD_ACCEPT,     *)
(* which every call of accept arms again.                                  *)
(***************************************************************************)
EXTENDS PortIo

CanConnect(s) == s.permanent \/ s.counter > 0
Valid(s) == s.sock # "none"
Push(w, p) == [w EXCEPT !.listen = [l \in DOMAIN @ |->
                 IF l \in w.port[p].listener THEN [@[l] EXCEPT !.ports = @ \cup {p}] ELSE @[l]]]
\* ports.top(): one of those with the highest priority.
Top(w, l) == CHOOSE p \in w.listen[l].ports :
               \A q \in w.listen[l].ports : w.port[q].priority <= w.port[p].priority

-----------------------------------------------------------------------------
StartRead(w, p) ==
  LET s == w.port[p]
  IN  CASE s.reads > 0 -> [w |-> w, ok |-> TRUE]
        [] s.reads = 0 /\ (~Valid(s) \/ Fails(w, "read")) -> [w |-> w, ok |-> FALSE]
        [] OTHER -> [w |-> ReadAgain([w EXCEPT !.port[p].reads = 1], p), ok |-> TRUE]

FlowControlUpdate(w, p) == IF XoffTurns(w.port[p]) THEN TellXoff(w, p, ~w.port[p].suspended) ELSE w

\* A socket that cannot be made, watched or connected is closed again.
StartConnect(w, p) ==
  IF Valid(w.port[p]) \/ Fails(w, "connect") THEN w
  ELSE [w EXCEPT !.port[p].sock = "connecting", !.port[p].shut = FALSE]

DropBuf(s) == [s EXCEPT !.lost = Dword(@ + Len(s.buf)), !.queued = @ - Len(s.buf), !.buf = <<>>]

\* The connection is made: the port reads, sends what waited for it and says so.
StartIfLet(w, p) == IF w.port[p].countXoff <= 0 THEN StartRead(w, p).w ELSE w
Flushed(w, p) ==
  LET s == w.port[p]
  IN  CASE s.buf = <<>> \/ s.free = 0 -> w
        [] s.buf # <<>> /\ s.free > 0 /\ Fails(w, "write") ->
             FlowControlUpdate([w EXCEPT !.port[p] = DropBuf(s)], p)
        [] OTHER -> StartWrite([w EXCEPT !.port[p].buf = <<>>, !.port[p].free = @ - 1], p, s.buf)
\* faulty: what waited for the connection is not sent with it.
OnConnectUnflushed(w, p) == Told(StartIfLet([w EXCEPT !.port[p].connected = TRUE], p), p, Connect(TRUE))
OnConnect(w, p) == Told(Flushed(StartIfLet([w EXCEPT !.port[p].connected = TRUE], p), p), p, Connect(TRUE))

\* Peers that are to be rejected are rejected one by one, till none waits.
Accept(w, p) ==
  LET l == CHOOSE l \in w.port[p].listener : TRUE
      rejects == w.port[p].reject /\ w.port[p].counter <= 0
      taken == [w EXCEPT !.listen[l].peers = @ - 1, !.listen[l].event = w.listen[l].peers > 1,
                         !.port[p].sock = "open", !.port[p].shut = FALSE]
  IN  CASE w.listen[l].peers = 0 -> [w |-> [w EXCEPT !.listen[l].event = FALSE], ok |-> FALSE]
        [] w.listen[l].peers > 0 /\ rejects ->
             [w |-> [w EXCEPT !.listen[l].peers = 0, !.listen[l].event = FALSE], ok |-> FALSE]
        [] OTHER -> [w |-> OnConnect(taken, p), ok |-> TRUE]

Pop(w, l, p) == [w EXCEPT !.listen[l].ports = @ \ {p}]

\* Listener::OnEvent: the first port accepts, or the connection is deferred.
Popped(r, l, p) == IF r.ok THEN Pop(r.w, l, p) ELSE r.w
AcceptTop(w, l) == Popped(Accept(w, Top(w, l)), l, Top(w, l))
ListenerEvent(w, l) ==
  LET v == [w EXCEPT !.listen[l].event = FALSE]
  IN  IF v.listen[l].ports = {} THEN v ELSE AcceptTop(v, l)

\* Listener::OnDisconnect: a port that is free again, and those before it, take who waits.
RECURSIVE AcceptAll(_, _)
AcceptMore(v, l, before) ==
  IF v.listen[l].ports = before \/ v.listen[l].ports = {} THEN v ELSE AcceptAll(v, l)
AcceptAll(w, l) == AcceptMore(AcceptTop(w, l), l, w.listen[l].ports)

Free(w, p) == AcceptAll(Push(w, p), CHOOSE l \in w.port[p].listener : TRUE)

\* The socket is closed, what waits for it is dropped and the loss is told; then a
\* listener's port is free, unless it stays busy, and a client connects again.
DropWaiting(w, p) ==
  IF w.port[p].buf = <<>> THEN w ELSE FlowControlUpdate([w EXCEPT !.port[p] = DropBuf(@)], p)
TellLoss(w, p) ==
  IF w.port[p].connected THEN Told([w EXCEPT !.port[p].connected = FALSE], p, Connect(FALSE)) ELSE w
AfterLoss(w, p) ==
  LET s == w.port[p]
  IN  CASE s.listener # {} /\ (~s.busy \/ s.counter <= 0) -> Free(w, p)
        [] s.listener # {} /\ s.busy /\ s.counter > 0 -> [w EXCEPT !.port[p].pending = TRUE]
        [] s.listener = {} /\ CanConnect(s) /\ s.reconnect = "at once" -> StartConnect(w, p)
        [] s.listener = {} /\ CanConnect(s) /\ s.reconnect = "later" -> [w EXCEPT !.port[p].timer = TRUE]
        [] OTHER -> w
Closed(w, p) == [w EXCEPT !.port[p] = [AbortWrites(@) EXCEPT !.sock = "none", !.closeEvent = FALSE]]
\* faulty: the loss of a connection is told although it was never made.
OnDisconnectAlways(w, p) ==
  AfterLoss(TellLoss([DropWaiting(Closed(w, p), p) EXCEPT !.port[p].connected = TRUE], p), p)
OnDisconnect(w, p) == AfterLoss(TellLoss(DropWaiting(Closed(w, p), p), p), p)

-----------------------------------------------------------------------------
Start(w, p) ==
  CASE w.port[p].listener # {} -> [w |-> w, ok |-> ~Fails(w, "listen")]
    [] w.port[p].listener = {} /\ CanConnect(w.port[p]) -> [w |-> StartConnect(w, p), ok |-> TRUE]
    [] OTHER -> [w |-> w, ok |-> TRUE]

\* LINE_DATA: to the socket when it is connected and one of the three overlapped writes is
\* free, or behind what waits for the connection or for one of them.
Overflows(s) == s.queued > s.limit
Lose(s, n) == [s EXCEPT !.lost = Dword(@ + n)]
Queue(w, p, data) ==
  LET s == w.port[p]
      n == Len(data)
  IN  CASE ~(s.connected /\ s.free > 0) ->
             [w EXCEPT !.port[p].buf = @ \o data, !.port[p].queued = @ + n]
        [] s.connected /\ s.free > 0 /\ Fails(w, "write") -> [w EXCEPT !.port[p] = Lose(@, n)]
        [] OTHER -> StartWrite([w EXCEPT !.port[p].free = @ - 1, !.port[p].queued = @ + n], p, data)
WriteData(w, p, data) ==
  LET s == w.port[p]
  IN  CASE s.limit = 0 \/ data = <<>> -> w
        [] s.limit # 0 /\ data # <<>> /\ (~Valid(s) \/ s.disconnected) -> [w EXCEPT !.port[p] = Lose(@, Len(data))]
        [] OTHER -> FlowControlUpdate(
                      Queue(IF Overflows(s) THEN [w EXCEPT !.port[p] = DropBuf(@)] ELSE w, p, data), p)

\* CONNECT: the first one makes a client connect; behind the last one the port sends no
\* more, unless it is permanent, and a listener's port that stayed busy is free.  (A socket
\* that is still connecting cannot be shut down.)
Unused(w, p) ==
  LET s == w.port[p]
      half == IF s.sock = "open" /\ ~s.permanent THEN [w EXCEPT !.port[p].shut = TRUE] ELSE w
  IN  IF s.pending /\ s.listener # {} THEN Free([half EXCEPT !.port[p].pending = FALSE], p) ELSE half
WriteConnect(w, p, on) ==
  LET more == [w EXCEPT !.port[p].counter = @ + 1]
      less == [w EXCEPT !.port[p].counter = @ - 1]
  IN  CASE on /\ w.port[p].listener = {} -> StartConnect([more EXCEPT !.port[p].timer = FALSE], p)
        [] on /\ w.port[p].listener # {} -> more
        [] ~on /\ w.port[p].counter > 1 -> less
        [] OTHER -> Unused(less, p)

WriteXoffXon(w, p, on) ==
  LET v == [w EXCEPT !.port[p].countXoff = IF on THEN @ + 1 ELSE @ - 1]
  IN  IF ~on /\ w.port[p].countXoff = 1 /\ w.port[p].connected THEN StartRead(v, p).w ELSE v

\* Write: options it has none of; what is left of them the hub reports.
Write(w, p, m) ==
  [m |-> m,
   w |-> CASE m.type = "LINE_DATA" -> WriteData(w, p, m.data)
           [] m.type = "CONNECT" -> WriteConnect(w, p, IsOn(m))
           [] m.type = "ADD_XOFF_XON" -> WriteXoffXon(w, p, IsOn(m))
           [] OTHER -> w]

\* FakeReadFilter: the port's own timer.
FakeReadFilter(w, p, m) ==
  LET own == m.type = "TICK" /\ m.to = <<"reconnect", p>>
  IN  [w |-> IF own /\ CanConnect(w.port[p]) THEN StartConnect(w, p) ELSE w,
       out |-> <<IF own THEN Empty ELSE m>>]

-----------------------------------------------------------------------------
\* The completions and the socket's events, each a call that the system queues to the only
\* thread.
WriteNext(w, p) ==
  LET s == w.port[p]
      more == s.buf # <<>> /\ s.connected /\ ~s.disconnected /\ Valid(s)
  IN  CASE ~more -> [w EXCEPT !.port[p].free = @ + 1]
        [] more /\ Fails(w, "write") -> [w EXCEPT !.port[p] = [DropBuf(s) EXCEPT !.free = @ + 1]]
        [] OTHER -> StartWrite([w EXCEPT !.port[p].buf = <<>>], p, s.buf)
WriteEnds(w, p, done) ==
  LET job == Head(w.port[p].writes)
      len == Len(job.data)
      s == [w.port[p] EXCEPT !.writes = Tail(@), !.started = @ - 1, !.sent = @ \o SubSeq(job.data, 1, done),
                             !.queued = @ - len]
  IN  FlowControlUpdate(WriteNext([w EXCEPT !.port[p] = Lose(s, len - done)], p), p)

\* No bytes: the connection has ended, or was lost.
ReadNext(w, p) ==
  LET s == w.port[p]
  IN  IF s.countXoff > 0 \/ ~s.connected \/ Fails(w, "read")
      THEN [w EXCEPT !.port[p].reads = 0] ELSE ReadAgain(w, p)
Lost(w, p, data) ==
  IF data = <<>> /\ w.port[p].disconnected
  THEN OnDisconnect([w EXCEPT !.port[p].disconnected = FALSE], p) ELSE w
ReadEnds(w, p, data) ==
  LET v == [w EXCEPT !.port[p].readPending = FALSE, !.port[p].started = @ - 1]
  IN  ReadNext(Lost(OnRead(v, p, <<LineData(data)>>), p, data), p)

ConnectEvent(w, p, ok) ==
  IF ok THEN OnConnect([w EXCEPT !.port[p].sock = "open"], p) ELSE OnDisconnect(w, p)

CloseEvent(w, p) ==
  LET v == [w EXCEPT !.port[p].closeEvent = FALSE]
  IN  IF v.port[p].reads > 0 THEN [v EXCEPT !.port[p].disconnected = TRUE] ELSE OnDisconnect(v, p)

LostReport(w, p) ==
  [w EXCEPT !.port[p].lostTotal = Dword(@ + w.port[p].lost), !.port[p].lost = 0]
=============================================================================
