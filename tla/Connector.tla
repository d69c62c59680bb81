----------------------------- MODULE Connector -----------------------------
(***************************************************************************)
(* The connector driver of hub4com (plugins/connector): a port without a   *)
(* device.  What is sent to it is read by the ports it is connected to, in *)
(* the same call.                                                          *)
(***************************************************************************)
EXTENDS PortIo

\* Each of the ports reads the message.
RECURSIVE ToEach(_, _, _)
ToEach(w, ports, m) ==
  IF ports = {} THEN w
  ELSE LET q == CHOOSE q \in ports : TRUE
       IN  ToEach(Told(w, q, m), ports \ {q}, m)

\* Write: only the first CONNECT or XOFF of several goes on, and the last of their ends.
Write(w, p, m) ==
  LET s == w.port[p]
      n == IF IsOn(m) THEN 1 ELSE -1
      edge(count) == count = IF IsOn(m) THEN 1 ELSE 0
      connect == [w EXCEPT !.port[p].connections = @ + n]
      xoff == [w EXCEPT !.port[p].countXoff = @ + n]
  IN  [m |-> m,
       w |-> CASE m.type = "LOOP_TEST" /\ \E q \in s.data : m.to = <<q>> -> [w EXCEPT !.stopped = TRUE]
               [] m.type = "LINE_DATA" /\ m.data # <<>> -> ToEach(w, s.data, LineData(m.data))
               [] m.type = "CONNECT" ->
                    IF edge(s.connections + n) THEN ToEach(connect, s.data, Connect(IsOn(m))) ELSE connect
               [] m.type = "ADD_XOFF_XON" ->
                    IF edge(s.countXoff + n) THEN ToEach(xoff, s.fc, Value(m.type, m.val)) ELSE xoff
               [] OTHER -> w]

\* FakeReadFilter: the port marks the message by which the hub looks for loops.
FakeReadFilter(w, p, m) ==
  [w |-> w, out |-> <<IF m.type = "LOOP_TEST" THEN [m EXCEPT !.to = <<p>>] ELSE m>>]
=============================================================================
