------------------------------- MODULE PortIo -------------------------------
(***************************************************************************)
(* What the port drivers of hub4com have in common: the hub they are       *)
(* plugged into and the overlapped calls they make of the system.          *)
(*                                                                         *)
(* A world w holds the ports' drivers (w.port), what the filters share     *)
(* (w.env), the listening sockets (w.listen) and which calls of the system *)
(* fail in this step (w.fault).  Every operation takes the world and a     *)
(* port and returns the world as it leaves it.  Where the code calls the   *)
(* hub's pOnRead, in the middle of an operation, the operator calls        *)
(* OnRead: what the other ports do then comes back to this one.            *)
(***************************************************************************)
EXTENDS PortStates

CONSTANT OnRead(_, _, _), \* the hub: a world, the port that reads and a chain of messages
         Wrap             \* one more than the largest DWORD

Dword(n) == n % Wrap
Told(w, p, m) == OnRead(w, p, <<m>>)

\* XOFF is sent above two thirds of the limit, XON at one third.
LimitXoff(s) == (s.limit * 2) \div 3
LimitXon(s) == s.limit \div 3

\* The queue has grown above the one while its sources read, or shrunk to the other.
XoffTurns(s) == IF s.suspended THEN s.queued <= LimitXon(s) ELSE s.queued > LimitXoff(s)
TellXoff(w, p, on) ==
  Told([w EXCEPT !.port[p].suspended = on], p, Value("ADD_XOFF_XON", IF on THEN {"on"} ELSE {}))

Fails(w, call) == call \in w.fault

\* The writes of a port end in the order in which they were started; a read is one at a
\* time.  started counts the calls that have not ended.
StartWrite(w, p, data) ==
  [w EXCEPT !.port[p].writes = Append(@, [data |-> data, aborted |-> FALSE]), !.port[p].started = @ + 1]
ReadAgain(w, p) == [w EXCEPT !.port[p].readPending = TRUE, !.port[p].started = @ + 1]

\* What is outstanding when a port is purged, or its handle closed, ends as aborted.
AbortWrites(s) == [s EXCEPT !.writes = [i \in DOMAIN s.writes |-> [s.writes[i] EXCEPT !.aborted = TRUE]]]
=============================================================================
