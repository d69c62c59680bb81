----------------------------- MODULE PortStates -----------------------------
(***************************************************************************)
(* The state of each kind of port of hub4com, as its constructor leaves it *)
(* (plugins/serial, plugins/tcp and plugins/connector).                    *)
(***************************************************************************)
EXTENDS HubMsg

Overlaps == 3 \* the WriteOverlapped objects of a port

\* A serial port; par has the parameters, dev the device.
NewSerial(par, dev) ==
  [kind |-> "serial", permanent |-> par.permanent, limit |-> par.limit,
   handle |-> TRUE, closing |-> FALSE, notify |-> FALSE, started |-> 0,
   reads |-> 0, readPending |-> FALSE, waits |-> 0, waitPending |-> FALSE,
   writes |-> <<>>, free |-> Overlaps,
   countXoff |-> 0, counter |-> 0, connectSent |-> FALSE,
   inOptions |-> [set \in {0, 1} |-> {}],
   escape |-> {}, outOptions |-> {},
   queued |-> 0, suspended |-> FALSE, lost |-> 0, lostTotal |-> 0, buf |-> <<>>,
   br |-> par.br, lc |-> par.lc, pinValue |-> {}, pinMask |-> {}, autoReceive |-> par.inX,
   dev |-> [dev EXCEPT !.br = par.br, !.lc = par.lc], sent |-> <<>>]

\* A device: its pins and outputs, the settings it can take, what its driver can insert.
Device(br, lc, rates, caps, pins, extended) ==
  [br |-> br, lc |-> lc, rates |-> rates, caps |-> caps, pins |-> pins, outs |-> {}, brk |-> FALSE,
   extended |-> extended]

\* A TCP port.  A client has no listener.
NewTcp(par) ==
  [kind |-> "tcp", permanent |-> par.permanent, limit |-> par.limit,
   reject |-> par.reject, busy |-> par.busy, priority |-> par.priority, listener |-> par.listener,
   reconnect |-> CASE par.listener # {} -> "never"
                   [] par.listener = {} /\ par.reconnect # "default" -> par.reconnect
                   [] OTHER -> IF par.permanent THEN "at once" ELSE "never",
   sock |-> "none", shut |-> FALSE, closeEvent |-> FALSE,
   connected |-> FALSE, disconnected |-> FALSE, pending |-> FALSE, timer |-> FALSE,
   reads |-> 0, readPending |-> FALSE, writes |-> <<>>, free |-> Overlaps, started |-> 0,
   countXoff |-> 0, counter |-> 0,
   queued |-> 0, suspended |-> FALSE, lost |-> 0, lostTotal |-> 0, buf |-> <<>>, sent |-> <<>>]

NewListener(ports) == [ports |-> ports, peers |-> 0, event |-> FALSE]

\* A connector.
NewConnector == [kind |-> "connector", data |-> {}, fc |-> {}, connections |-> 0, countXoff |-> 0]

\* --connect=<R>:<L>, --bi-connect=<R>:<L>: what is sent to R is read by L, which stops it.
ConnectPorts(ports, from, to, biDirection) ==
  [p \in DOMAIN ports |->
     LET s == ports[p]
         ahead == p \in from
         back == p \in to
     IN  IF s.kind # "connector" THEN s
         ELSE [s EXCEPT !.data = @ \cup (IF ahead THEN to ELSE {})
                                   \cup (IF back /\ biDirection THEN from ELSE {}),
                        !.fc = @ \cup (IF back THEN from ELSE {})
                                 \cup (IF ahead /\ biDirection THEN to ELSE {})]]
=============================================================================
