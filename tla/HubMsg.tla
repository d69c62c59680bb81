------------------------------- MODULE HubMsg -------------------------------
(***************************************************************************)
(* The messages of hub4com (plugins_api.h, hubmsg.cpp) and the routines by *)
(* which a plugin changes a chain of them (export.cpp).                    *)
(*                                                                         *)
(* A chain is a sequence of messages.  A byte of line data, a status and a *)
(* set of options are all sets of names, so that a status can be sent as a *)
(* byte: {"a"} is a character, {"CTS", "DSR"} a modem status.              *)
(***************************************************************************)
EXTENDS Integers, Sequences, SequencesExt, FiniteSets

\* The shape of every message; the fields a type does not use stay empty.
Message(type) ==
  [type |-> type, mask |-> {}, val |-> {}, data |-> <<>>, set |-> 0, to |-> <<>>]

Empty == Message("EMPTY")
LineData(s) == [Message("LINE_DATA") EXCEPT !.data = s]
Value(type, v) == [Message(type) EXCEPT !.val = v]
Masked(type, mask, v) == [Message(type) EXCEPT !.mask = mask, !.val = v]
Connect(on) == Value("CONNECT", IF on THEN {"on"} ELSE {})
IsOn(m) == m.val # {}
\* TICK carries the owner of the timer.
Tick(owner) == [Message("TICK") EXCEPT !.to = owner]

\* u.pv: a set of options, its set-ID, and where the answer is collected.
OptionsFor(type, set, opts, to) ==
  [Message(type) EXCEPT !.set = set, !.val = opts, !.to = to]
\* FAIL_IN_OPTS has its options and their set-ID in u.val, next to which a reader
\* of u.pv.val finds what the constructor cleared: the set-ID of u.val is in mask.
FailOptions(set, opts) ==
  [Message("FAIL_IN_OPTS") EXCEPT !.val = opts, !.mask = {IF set = 0 THEN "GO0" ELSE "GO1"}]
SetOfVal(m) == IF "GO1" \in m.mask THEN 1 ELSE 0

FlowControlRouted(m) == m.type = "ADD_XOFF_XON"

\* One message put into a chain behind its last one; line data joins line data.
InsertMsg(chain, m) == Append(chain, m)
InsertBuf(chain, s) ==
  IF chain # <<>> /\ Last(chain).type = "LINE_DATA"
  THEN [chain EXCEPT ![Len(chain)].data = @ \o s]
  ELSE Append(chain, LineData(s))

\* The names that stand for bits.
ModemPins == {"CTS", "DSR", "RI", "DCD"}
Outputs == {"RTS", "DTR", "OUT1", "OUT2"}
LineErrors == {"OE", "PE", "FE", "BI", "FIFOERR"}
LcParts == {"size", "parity", "stop"}
\* The settings of each part of a line control.
LcValues == [size |-> {"8bits", "7bits"}, parity |-> {"none", "even"}, stop |-> {"1stop", "2stop"}]
OfPart(v, part) == v \cap LcValues[part]

\* Options of GET_IN_OPTS: the two sets that are in use.
InOptions(set) ==
  IF set = 0 THEN {"ESCAPE_MODE", "LBR", "LLC"}
  ELSE ModemPins \cup LineErrors \cup {"RBR", "RLC", "BREAK", "PURGE_TX_IN"}

-----------------------------------------------------------------------------
\* A method of a filter takes an instance of it, what all the instances share (env) and a
\* message, and returns both as they become, the messages that take the place of the one it
\* was given, an echo and whether it accepted the message.  env has the sets that GET_IN_OPTS
\* collects through its pointer (acc), the repeats asked for and the warnings given.
Result(f, env, out) == [f |-> f, env |-> env, out |-> out, echo |-> <<>>, ok |-> TRUE]
Pass(f, env, m) == Result(f, env, <<m>>)
Request(env, to, opts) == [env EXCEPT !.acc[to] = @ \cup opts]
Warn(env, who, opts) ==
  IF opts = {} THEN env ELSE [env EXCEPT !.warned = @ \cup {<<who, o>> : o \in opts}]
=============================================================================
