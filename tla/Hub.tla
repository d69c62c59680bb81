-------------------------------- MODULE Hub --------------------------------
(***************************************************************************)
(* The hub of hub4com: comhub.cpp, filters.cpp, port.cpp, route.cpp and    *)
(* what hub4com.cpp makes of its command line.                             *)
(*                                                                         *)
(* A world w has, next to what PortIo says of it, the filters of each port *)
(* (w.flt), the routes of data and of flow control (w.data, w.fc), which   *)
(* are sequences of pairs <<from, to>>, and whether the program has given  *)
(* up (w.stopped).  The hub is one thread: a message that a port reads     *)
(* goes through its filters to every port it is routed to, in one call,    *)
(* and a driver that is written to may read another message meanwhile.     *)
(***************************************************************************)
EXTENDS PortStates

CONSTANTS
  InOf(_, _, _),     \* the input method of a filter, of a message: a Result
  OutOf(_, _, _, _), \* its output method, of a message from a port
  HasIn(_),          \* the kinds of filter that have the one
  HasOut(_),         \* and the other
  Wrap               \* one more than the largest DWORD

RECURSIVE OnRead(_, _, _)
Ser == INSTANCE SerialPort
Tcp == INSTANCE TcpPort
Con == INSTANCE Connector

-----------------------------------------------------------------------------
\* The routines of a port's driver.
DriverWrite(w, q, m) ==
  CASE w.port[q].kind = "serial" -> Ser!Write(w, q, m)
    [] w.port[q].kind = "tcp" -> Tcp!Write(w, q, m)
    [] w.port[q].kind = "connector" -> Con!Write(w, q, m)
    [] OTHER -> [w |-> w, m |-> m]
DriverFakeReadFilter(w, p, m) ==
  CASE w.port[p].kind = "serial" -> [w |-> w, out |-> Ser!FakeReadFilter(w, p, m)]
    [] w.port[p].kind = "tcp" -> Tcp!FakeReadFilter(w, p, m)
    [] w.port[p].kind = "connector" -> Con!FakeReadFilter(w, p, m)
    [] OTHER -> [w |-> w, out |-> <<m>>]
DriverStart(w, p) ==
  CASE w.port[p].kind = "serial" -> Ser!StartFirst(w, p)
    [] w.port[p].kind = "tcp" -> Tcp!Start(w, p)
    [] OTHER -> [w |-> w, ok |-> TRUE]

\* Filters::AddFilter: each filter of the group that has a method the port uses becomes an
\* instance in the port's list, with the ports that its output method works for.
AddFilter(flt, p, filters, group, addIn, addOut, src) ==
  LET instance(f) == [f |-> [f EXCEPT !.port = p], src |-> src,
                      in |-> addIn /\ HasIn(f.kind), out |-> addOut /\ HasOut(f.kind)]
      made == [i \in DOMAIN filters |-> [group |-> filters[i].group, i |-> instance(filters[i].f)]]
      used == SelectSeq(made, LAMBDA x : x.group = group /\ (x.i.in \/ x.i.out))
  IN  [flt EXCEPT ![p] = @ \o [n \in DOMAIN used |-> used[n].i]]

-----------------------------------------------------------------------------
\* One method over a chain: a refusal leaves the rest of the chain as it was.
Added(a, r) == [a EXCEPT !.f = r.f, !.env = r.env, !.out = @ \o r.out, !.echo = @ \o r.echo, !.ok = r.ok]
InStep(a, m) == IF a.ok THEN Added(a, InOf(a.f, a.env, m)) ELSE [a EXCEPT !.out = Append(@, m)]
OutStep(a, m) == IF a.ok THEN Added(a, OutOf(a.f, a.env, a.from, m)) ELSE [a EXCEPT !.out = Append(@, m)]
Begin(i, env, from, out) == [f |-> i.f, env |-> env, from |-> from, out |-> out, echo |-> <<>>, ok |-> TRUE]
RECURSIVE InSteps(_, _), OutSteps(_, _)
InSteps(a, chain) == IF chain = <<>> THEN a ELSE InSteps(InStep(a, Head(chain)), Tail(chain))
OutSteps(a, chain) == IF chain = <<>> THEN a ELSE OutSteps(OutStep(a, Head(chain)), Tail(chain))
InOver(i, env, chain) ==
  IF i.in THEN InSteps(Begin(i, env, 0, <<>>), chain) ELSE Begin(i, env, 0, chain)
OutOver(i, env, from, chain) == OutSteps(Begin(i, env, from, <<>>), chain)

\* Filters::InMethod from the n-th filter on.  The echo of a filter further on passes this
\* one's output method on its way back to the port; this one's own echo does not.
RECURSIVE InMethod(_, _, _, _)
Filtered(w, p, n, a) == [w EXCEPT !.flt[p][n].f = a.f, !.env = a.env]
EchoBack(d, p, n, own, back) ==
  [d EXCEPT !.w = Filtered(@, p, n, back), !.ok = back.ok, !.echo = IF back.ok THEN own \o back.out ELSE <<>>]
InBehind(d, p, n, own) ==
  CASE ~d.ok -> d
    [] d.ok /\ ~d.w.flt[p][n].out -> [d EXCEPT !.echo = own \o @]
    [] OTHER -> EchoBack(d, p, n, own, OutOver(d.w.flt[p][n], d.w.env, p, d.echo))
InHere(w, p, n, a) ==
  IF a.ok THEN InBehind(InMethod(Filtered(w, p, n, a), p, n + 1, a.out), p, n, a.echo)
  ELSE [w |-> Filtered(w, p, n, a), out |-> a.out, echo |-> <<>>, ok |-> FALSE]
InMethod(w, p, n, chain) ==
  IF n > Len(w.flt[p]) THEN [w |-> w, out |-> chain, echo |-> <<>>, ok |-> TRUE]
  ELSE InHere(w, p, n, InOver(w.flt[p][n], w.env, chain))

\* Filters::OutMethod from the n-th filter back, for what comes from one of its ports.
RECURSIVE OutMethod(_, _, _, _, _)
OutHere(w, from, to, n, a) ==
  IF a.ok THEN OutMethod(Filtered(w, to, n, a), from, to, n - 1, a.out)
  ELSE [w |-> Filtered(w, to, n, a), out |-> <<>>]
OutMethod(w, from, to, n, chain) ==
  CASE n = 0 -> [w |-> w, out |-> chain]
    [] n > 0 /\ ~(w.flt[to][n].out /\ from \in w.flt[to][n].src) -> OutMethod(w, from, to, n - 1, chain)
    [] OTHER -> OutHere(w, from, to, n, OutOver(w.flt[to][n], w.env, from, chain))

-----------------------------------------------------------------------------
\* A message written to a port; an output option that its driver leaves is reported, except
\* of an echo.
Left(r, q, report) ==
  IF report /\ r.m.type = "SET_OUT_OPTS" THEN [r.w EXCEPT !.env = Warn(@, <<"hub", q>>, r.m.val)] ELSE r.w
RECURSIVE WriteChain(_, _, _, _)
WriteChain(w, q, chain, report) ==
  IF chain = <<>> THEN w
  ELSE WriteChain(Left(DriverWrite(w, q, Head(chain)), q, report), q, Tail(chain), report)

\* ComHub::OnRead.  The map of routes depends on the first message behind the filters; a
\* refusal drops the echo, and the chain is routed as it is.
Delivery(to, chain, echo) == [to |-> to, chain |-> chain, echo |-> echo]
Behind(w, p, d) ==
  IF d.echo THEN [w |-> w, out |-> d.chain] ELSE OutMethod(w, p, d.to, Len(w.flt[d.to]), d.chain)
Delivered(o, d) == WriteChain(o.w, d.to, o.out, ~d.echo)
RECURSIVE Deliver(_, _, _)
Deliver(w, p, ds) ==
  IF ds = <<>> THEN w ELSE Deliver(Delivered(Behind(w, p, Head(ds)), Head(ds)), p, Tail(ds))
Targets(routes, p) ==
  LET mine == SelectSeq(routes, LAMBDA r : r[1] = p) IN [i \in DOMAIN mine |-> mine[i][2]]
ToTargets(targets, chain) == [i \in DOMAIN targets |-> Delivery(targets[i], chain, FALSE)]
Routed(r, p) ==
  Deliver(r.w, p,
          <<Delivery(p, r.echo, TRUE)>>
            \o ToTargets(Targets(IF FlowControlRouted(Head(r.out)) THEN r.w.fc ELSE r.w.data, p), r.out))
OnRead(w, p, chain) == Routed(InMethod(w, p, 1, chain), p)

\* ComHub::OnFakeRead: first the port's own driver sees the message.
OnReadOf(r, p) == OnRead(r.w, p, r.out)
OnFakeRead(w, p, m) ==
  OnReadOf(DriverFakeReadFilter(w, p, m), p)

\* Timer::TimerAPCProc, for the timer of owner, set by a driver or a filter of p.
TimerExpires(w, p, owner) == OnFakeRead(w, p, Tick(owner))

-----------------------------------------------------------------------------
\* ComHub::StartAll: what it asks each port, from the port's own driver on.
Question(of, p) == [of |-> of, p |-> p, set |-> 0]
BothSets(of, p) == <<[Question(of, p) EXCEPT !.set = 0], [Question(of, p) EXCEPT !.set = 1]>>
OfEach(of, ports) == [i \in DOMAIN ports |-> Question(of, ports[i])]

\* The options that remain when all repeats of GET_IN_OPTS are done are those nobody
\* provides: they are reported, and told to the filters.
Remaining(w, a) == w.env.acc[<<"hub", a.set>>]
Prepared(w, a) ==
  CASE a.of = "COUNT_REPEATS" ->
         [w EXCEPT !.env.acc[<<"hub", 0>>] = {}, !.env.acc[<<"hub", 1>>] = {}, !.env.repeats = 0]
    [] a.of = "FAIL_IN_OPTS" -> [w EXCEPT !.env = Warn(@, <<"hub", a.p>>, Remaining(w, a))]
    [] OTHER -> w
Asking(w, a) ==
  CASE a.of = "GET_IN_OPTS" -> OptionsFor(a.of, a.set, InOptions(a.set), <<"hub", a.set>>)
    [] a.of = "FAIL_IN_OPTS" -> FailOptions(a.set, Remaining(w, a))
    [] OTHER -> Message(a.of)
Following(w, a) ==
  IF a.of = "COUNT_REPEATS"
  THEN FlattenSeq([n \in 1 .. w.env.repeats + 1 |-> BothSets("GET_IN_OPTS", a.p)]) \o BothSets("FAIL_IN_OPTS", a.p)
  ELSE <<>>
RECURSIVE AskAll(_, _)
AskNext(w, asks) == AskAll(w, Following(w, Head(asks)) \o Tail(asks))
AskAll(w, asks) ==
  IF asks = <<>> THEN w
  ELSE AskNext(OnFakeRead(Prepared(w, Head(asks)), Head(asks).p, Asking(w, Head(asks))), asks)

\* A loop that was found, or a port that cannot start, ends the program.
Started(r) == IF r.ok THEN r.w ELSE [r.w EXCEPT !.stopped = TRUE]
RECURSIVE StartPorts(_, _)
StartPorts(w, ports) ==
  IF ports = <<>> \/ w.stopped THEN w ELSE StartPorts(Started(DriverStart(w, Head(ports))), Tail(ports))
RECURSIVE StartStages(_, _, _)
StartStages(w, ports, stages) ==
  CASE w.stopped -> w
    [] ~w.stopped /\ stages = <<>> -> StartPorts(w, ports)
    [] OTHER -> StartStages(AskAll(w, OfEach(Head(stages), ports)), ports, Tail(stages))
StartAll(w, ports) == StartStages(w, ports, <<"LOOP_TEST", "SET_OUT_OPTS", "COUNT_REPEATS">>)

-----------------------------------------------------------------------------
\* route.cpp: the routes that the options of the command line make.
AddRoute(routes, pair, noRoute, noEcho) ==
  CASE noRoute -> SelectSeq(routes, LAMBDA r : r # pair)
    [] ~noRoute /\ (pair \in ToSet(routes) \/ (pair[1] = pair[2] /\ noEcho)) -> routes
    [] OTHER -> Append(routes, pair)
AddAll(routes, pairs, noRoute) == FoldLeft(LAMBDA x, r : AddRoute(x, r, noRoute, FALSE), routes, pairs)

\* Flow control goes from a receiver of data back to its sender, when data go both ways.
SetFlowControlRoute(data, fromAnyDataReceiver) ==
  LET back(r) == <<r[2], r[1]>>
      kept == SelectSeq(data, LAMBDA r : fromAnyDataReceiver \/ back(r) \in ToSet(data))
  IN  AddAll(<<>>, [i \in DOMAIN kept |-> back(kept[i])], FALSE)

-----------------------------------------------------------------------------
\* hub4com.cpp: Init.  c is what the options so far have made.
NoOptions(ports) ==
  [data |-> <<>>, fc |-> <<>>, noFc |-> <<>>, default |-> TRUE, filters |-> <<>>,
   flt |-> [p \in ports |-> <<>>]]

\* EnumPortList, Route: every port of one list to every port of the other, and back.
Route(routes, froms, tos, biDirection, noRoute, noEcho) ==
  LET one(r, fs, ts) ==
        FoldLeft(LAMBDA x, f : FoldLeft(LAMBDA y, t : AddRoute(y, <<f, t>>, noRoute, noEcho), x, ts), r, fs)
  IN  IF biDirection THEN one(one(routes, froms, tos), tos, froms) ELSE one(routes, froms, tos)
EchoRoute(routes, list) == FoldLeft(LAMBDA x, p : AddRoute(x, <<p, p>>, FALSE, FALSE), routes, list)

\* AddFilters: the groups of filters, each with its methods and sources, to each port.
AddFilters(c, list, groups) ==
  LET add(flt, p) ==
        FoldLeft(LAMBDA x, g : AddFilter(x, p, c.filters, g.group, g.in, g.out, g.src), flt, groups)
  IN  [c EXCEPT !.flt = FoldLeft(add, @, list)]

\* One option.  Any route, of flow control too, leaves no default routes of data.
Option(c, o) ==
  LET d == [c EXCEPT !.default = FALSE]
  IN  CASE o.opt = "route" -> [d EXCEPT !.data = Route(@, o.from, o.to, FALSE, FALSE, TRUE)]
        [] o.opt = "bi-route" -> [d EXCEPT !.data = Route(@, o.from, o.to, TRUE, FALSE, TRUE)]
        [] o.opt = "no-route" -> [d EXCEPT !.data = Route(@, o.from, o.to, FALSE, TRUE, TRUE)]
        [] o.opt = "echo-route" -> [d EXCEPT !.data = EchoRoute(@, o.from)]
        [] o.opt = "fc-route" -> [d EXCEPT !.fc = Route(@, o.from, o.to, FALSE, FALSE, FALSE)]
        [] o.opt = "no-default-fc-route" -> [d EXCEPT !.noFc = Route(@, o.from, o.to, FALSE, FALSE, FALSE)]
        [] o.opt = "create-filter" -> [c EXCEPT !.filters = Append(@, [group |-> o.group, f |-> o.f])]
        [] o.opt = "add-filters" -> AddFilters(c, o.list, o.groups)

\* What the hub starts with; without a route, and with two ports or more, 0:All and 1:0.
Init(list, options) ==
  LET c == FoldLeft(Option, NoOptions(ToSet(list)), options)
      data == IF Len(list) > 1 /\ c.default
              THEN Route(Route(c.data, <<list[1]>>, list, FALSE, FALSE, TRUE),
                         <<list[2]>>, <<list[1]>>, FALSE, FALSE, TRUE)
              ELSE c.data
      default == AddAll(SetFlowControlRoute(data, FALSE), c.noFc, TRUE)
  IN  [data |-> data, fc |-> AddAll(c.fc, default, FALSE), flt |-> c.flt]

\* What the sets of an environment are collected in, and its other parts.
NewEnv(ports) ==
  [repeats |-> 0, warned |-> {},
   acc |-> [k \in {<<"hub", set>> : set \in {0, 1}} \cup {<<kind, p>> : kind \in {"esc", "escopts", "escfail"}, p \in ports}
                  \cup {<<kind, p, set>> : kind \in {"tel", "port"}, p \in ports, set \in {0, 1}} |-> {}]]
NewWorld(port, listen, c) ==
  [port |-> port, listen |-> listen, flt |-> c.flt, data |-> c.data, fc |-> c.fc,
   env |-> NewEnv(DOMAIN port), fault |-> {}, stopped |-> FALSE]
=============================================================================
