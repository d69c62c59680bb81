----------------------------- MODULE MCHubPorts -----------------------------
(***************************************************************************)
(* The port drivers of hub4com under one hub, without filters: a serial    *)
(* port and one or two TCP ports.                                          *)
(***************************************************************************)
EXTENDS HubWorld

CONSTANT Setups \* which of the setups below

\* No port has a filter.
NoIn(f, env, m) == Result(f, env, <<m>>)
NoOut(f, env, from, m) == Result(f, env, <<m>>)
Never(kind) == FALSE

Lc == {"8bits", "none", "1stop"}
SomeDevice == Device({"9600"}, Lc, {{"9600"}}, {}, {}, FALSE)
SerialPort(permanent) ==
  NewSerial([permanent |-> permanent, limit |-> 3, br |-> {"9600"}, lc |-> Lc, inX |-> FALSE], SomeDevice)
Client(permanent, reconnect) ==
  NewTcp([permanent |-> permanent, limit |-> 3, reject |-> FALSE, busy |-> FALSE, priority |-> 0,
              listener |-> {}, reconnect |-> reconnect])
Server(reject, busy, priority) ==
  NewTcp([permanent |-> FALSE, limit |-> 3, reject |-> reject, busy |-> busy, priority |-> priority,
              listener |-> {"l"}, reconnect |-> "default"])

PortsOf(setup) ==
  CASE setup = "dial_out" -> <<SerialPort(TRUE), Client(FALSE, "later")>>
    [] setup = "redial" -> <<SerialPort(TRUE), Client(TRUE, "default")>>
    [] setup \in {"shared", "shared_often"} -> <<SerialPort(FALSE), Server(FALSE, FALSE, 0)>>
    [] setup = "shared_client" -> <<SerialPort(FALSE), Client(TRUE, "default")>>
    [] setup = "relay" -> <<Server(FALSE, FALSE, 0), Client(FALSE, "default")>>
    [] setup = "bank" -> <<SerialPort(TRUE), Server(TRUE, FALSE, 1), Server(FALSE, TRUE, 0)>>
ListenOf(setup) ==
  LET ports == PortsOf(setup)
      waiting == {p \in DOMAIN ports : ports[p].kind = "tcp" /\ ports[p].listener # {}}
  IN  IF waiting = {} THEN <<>> ELSE "l" :> NewListener(waiting)
HubOf(setup) ==
  LET ports == PortsOf(setup)
      list == [p \in DOMAIN ports |-> p]
  IN  StartAll(NewWorld(ports, ListenOf(setup), Init(list, <<>>)), list)

EventsOf(setup) == IF setup = "shared_often" THEN 3 ELSE IF setup = "relay" THEN 2 ELSE 1

\* The characters of a port are distinct, so that their order can be told.
Feed == <<<<{"a"}, {"b"}>>, <<{"p"}, {"q"}, {"r"}>>, <<>>>>
FeedOf(setup, p) == IF setup = "shared_client" /\ p = 1 THEN <<{"a"}>> ELSE Feed[p]
MCWorlds ==
  {[hub |-> HubOf(s), events |-> EventsOf(s),
    outside |-> [feed |-> [p \in DOMAIN PortsOf(s) |-> FeedOf(s, p)],
                 pins |-> [p \in DOMAIN PortsOf(s) |-> {}], links |-> {}, awaited |-> {}, reads |-> {1}]] : s \in Setups}
=============================================================================
