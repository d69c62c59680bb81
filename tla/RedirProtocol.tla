---------------------------- MODULE RedirProtocol ----------------------------
(***************************************************************************)
(* What com2tcp puts between its serial port and its socket: utils.cxx and *)
(* telnet.cpp of com2tcp.                                                  *)
(*                                                                         *)
(* A protocol p has two streams: send, from the serial port to the socket, *)
(* and write, the other way.  A byte is a string; the bytes of telnet have *)
(* their names.                                                            *)
(***************************************************************************)
EXTENDS Integers, Sequences, SequencesExt

CONSTANT Threshold \* a stream with more bytes than this is full
ASSUME ThresholdAssumption == Threshold \in Nat \ {0}

-----------------------------------------------------------------------------
\* DataStream: GetData gives up to n bytes; the chunks in between are not seen.
GetData(stream, n) == SubSeq(stream, 1, IF n < Len(stream) THEN n ELSE Len(stream))
Behind(stream, s) == SubSeq(stream, Len(s) + 1, Len(stream))
\* faulty: nothing is held back.
NeverFull(stream) == FALSE
IsFull(stream) == Threshold < Len(stream)

\* Every option but these two is refused.
OptionNames == {"echo", "terminal", "other"}
TerminalType == <<"U", "N", "K">>

NewProtocol(telnet) ==
  [telnet |-> telnet, send |-> <<>>, write |-> <<>>, state |-> "data", code |-> "", option |-> "",
   params |-> <<>>, remote |-> [o \in OptionNames |-> "cant"], local |-> [o \in OptionNames |-> "cant"]]

\* faulty: what the session before has not sent stays.
CleanStateOnly(p) ==
  [NewProtocol(p.telnet) EXCEPT !.send = p.send, !.write = p.write,
     !.remote["echo"] = "no", !.local["terminal"] = "no"]

\* Clean: before each session.
Clean(p) ==
  IF ~p.telnet THEN NewProtocol(FALSE)
  ELSE [NewProtocol(TRUE) EXCEPT !.remote["echo"] = "no", !.local["terminal"] = "no", !.params = p.params]

-----------------------------------------------------------------------------
\* Protocol::Send and TelnetProtocol::Send, for what was read from the serial port.
Send(p, s) ==
  [p EXCEPT !.send = @ \o (IF p.telnet
                           THEN FlattenSeq([i \in DOMAIN s |-> IF s[i] = "IAC" THEN <<"IAC", "IAC">> ELSE <<s[i]>>])
                           ELSE s)]

SendOption(p, code, option) == [p EXCEPT !.send = @ \o <<"IAC", code, option>>]
SendSubNegotiation(p, option, params) ==
  [SendOption(p, "SB", option) EXCEPT !.send = @ \o params \o <<"IAC", "SE">>]

\* WILL, WONT, DO and DONT are answered when they change something, or cannot.
Refusal == [WILL |-> "DONT", WONT |-> "DONT", DO |-> "WONT", DONT |-> "WONT"]
Consent == [WILL |-> "DO", DO |-> "WILL"]
Negotiate(p, verb, o) ==
  LET side == IF verb \in {"WILL", "WONT"} THEN "remote" ELSE "local"
  IN  CASE verb \in {"WILL", "DO"} /\ p[side][o] = "cant" -> SendOption(p, Refusal[verb], o)
        [] verb \in {"WILL", "DO"} /\ p[side][o] = "no" ->
             SendOption([p EXCEPT ![side][o] = "yes"], Consent[verb], o)
        [] verb \in {"WONT", "DONT"} /\ p[side][o] = "yes" ->
             SendOption([p EXCEPT ![side][o] = "no"], Refusal[verb], o)
        [] OTHER -> p

\* An IAC that is doubled within the parameters is left out of them.
WriteByte(p, ch) ==
  LET data == [p EXCEPT !.state = "data"]
  IN  CASE p.state = "data" ->
             IF ch = "IAC" THEN [p EXCEPT !.state = "code"] ELSE [p EXCEPT !.write = Append(@, ch)]
        [] p.state = "code" ->
             CASE ch = "IAC" -> [data EXCEPT !.write = Append(@, ch)]
               [] ch \in {"SB", "WILL", "WONT", "DO", "DONT"} -> [p EXCEPT !.code = ch, !.state = "option"]
               [] OTHER -> data
        [] p.state = "option" ->
             IF p.code = "SB" THEN [p EXCEPT !.option = ch, !.params = <<>>, !.state = "params"]
             ELSE Negotiate(data, p.code, ch)
        [] p.state = "params" ->
             IF ch = "IAC" THEN [p EXCEPT !.state = "subcode"] ELSE [p EXCEPT !.params = Append(@, ch)]
        [] p.state = "subcode" /\ ch = "IAC" -> [p EXCEPT !.state = "params"]
        [] p.state = "subcode" /\ ch = "SE" /\ p.option = "terminal" ->
             [SendSubNegotiation(data, "terminal", <<"is">> \o TerminalType)
                EXCEPT !.params = <<"is">> \o TerminalType]
        [] OTHER -> data

\* Protocol::Write and TelnetProtocol::Write, for what was received from the socket.
Write(p, s) == IF p.telnet THEN FoldLeft(WriteByte, p, s) ELSE [p EXCEPT !.write = @ \o s]
=============================================================================
