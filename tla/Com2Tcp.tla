------------------------------- MODULE Com2Tcp -------------------------------
(***************************************************************************)
(* com2tcp, the COM port to TCP redirector: one serial port and one        *)
(* connection at a time, as the client that connects when the serial port  *)
(* is ready, or as the server that accepts.  The program is one thread; it *)
(* starts overlapped operations and waits for their events.                *)
(*                                                                         *)
(* pc is where the thread is: "open", "ready" (WaitComReady: issue),       *)
(* "look" and "look2" (it polls DSR), "watch" (it waits), "connect",       *)
(* "accept"; in InOut "issue", "event", "poll" and "await"; "stop" and     *)
(* "over" behind it; "exit".                                               *)
(***************************************************************************)
EXTENDS RedirProtocol, FiniteSets

CONSTANTS
  Options,   \* the command lines: [client, telnet, ignoreDsr, connectDtr, awakSeq]
  ComFeed,   \* what the serial port's device sends, by command line
  NetFeeds,  \* what the peers send, by command line: one sequence for each peer
  BufSize,   \* what one operation reads at most
  DsrChanges, \* how often DSR changes at most
  FaultKinds  \* the calls that may fail, once

ASSUME BufSizeAssumption == BufSize \in Nat \ {0}
\* A byte is a string.
ASSUME OptionsAssumption ==
  /\ Options \subseteq [client : BOOLEAN, telnet : BOOLEAN, ignoreDsr : BOOLEAN,
                        connectDtr : BOOLEAN, awakSeq : Seq(STRING)]
  /\ \A o \in Options : ComFeed[o] \in Seq(STRING) /\ NetFeeds[o] \in Seq(Seq(STRING))

VARIABLES
  opt,      \* the command line
  pc,
  com,      \* the serial port: open, its outputs (dtr), DSR and what its device still sends
  net,      \* the socket: open, what the peers still send, peers that wait to be accepted
  p,        \* the protocol
  sendBuf, writeBuf, \* cbufSend and cbufWrite, without what is done of them
  op,       \* each overlapped operation: its state, and its bytes or how many are done
  matched,  \* how many characters of the awakening sequence were matched
  out,      \* what the session has carried: from com, to net, from net, to com
  changes, faults
vars == <<opt, pc, com, net, p, sendBuf, writeBuf, op, matched, out, changes, faults>>

OpNames == {"read", "send", "recv", "write", "stat"}
Idle == [state |-> "idle", data |-> <<>>, n |-> 0]
Issued(s) == [state |-> "pending", data |-> s, n |-> 0]
Waiting(o) == op[o].state # "idle"
Ended(o) == op[o].state \in {"done", "failed"}
NoSession == [skipped |-> <<>>, fromCom |-> <<>>, toNet |-> <<>>, fromNet |-> <<>>, toCom |-> <<>>]

Fault(kind) == kind \in FaultKinds /\ faults = {} /\ faults' = {kind}
NoFault == UNCHANGED faults

Init ==
  /\ opt \in Options
  /\ pc = IF opt.client THEN "open" ELSE "accept"
  /\ com \in {[open |-> FALSE, dtr |-> FALSE, dsr |-> d, feed |-> ComFeed[opt]] : d \in BOOLEAN}
  /\ net = [open |-> FALSE, closed |-> FALSE, closeEvent |-> FALSE, feeds |-> NetFeeds[opt], peers |-> 0]
  /\ p = NewProtocol(opt.telnet)
  /\ sendBuf = <<>> /\ writeBuf = <<>>
  /\ op = [o \in OpNames |-> Idle]
  /\ matched = 0
  /\ out = NoSession
  /\ changes = 0
  /\ faults = {}

-----------------------------------------------------------------------------
\* OpenC0C: DTR is off while there is no connection if it is to follow the connection.
Opened(c) == [c EXCEPT !.open = TRUE, !.dtr = ~opt.connectDtr]
WithDtr(c, on) == IF opt.connectDtr THEN [c EXCEPT !.dtr = on] ELSE c

\* InOut up to its loop.
StartInOut ==
  /\ pc' = "issue"
  /\ p' = Clean(p)
  /\ sendBuf' = <<>> /\ writeBuf' = <<>>
  /\ op' = [o \in OpNames |-> Idle]
  /\ out' = NoSession

-----------------------------------------------------------------------------
\* com2tcp: the client.
OpenCom ==
  /\ pc = "open"
  /\ \/ /\ com' = Opened(com) /\ pc' = "ready" /\ NoFault
     \/ /\ Fault("open") /\ pc' = "exit" /\ UNCHANGED com
  /\ UNCHANGED <<opt, net, p, sendBuf, writeBuf, op, matched, out, changes>>

\* WaitComReady: with an awakening sequence DSR is not looked at.
WaitAwakSeq == opt.awakSeq # <<>>
WaitDSR == ~opt.ignoreDsr /\ ~WaitAwakSeq

\* What the wait leaves: its operations are cancelled.
Leave(next) == pc' = next /\ op' = [o \in OpNames |-> Idle]

\* A read that cannot be started ends the wait as if it were over.
StartWait ==
  /\ pc = "ready"
  /\ IF ~WaitDSR /\ matched = Len(opt.awakSeq) THEN Leave("connect") /\ NoFault
     ELSE IF WaitDSR THEN pc' = "look" /\ op' = [op EXCEPT !["stat"] = Issued(<<>>)] /\ NoFault
     ELSE \/ pc' = "watch" /\ op' = [op EXCEPT !["read"] = Issued(<<>>)] /\ NoFault
          \/ Fault("read") /\ Leave("connect")
  /\ UNCHANGED <<opt, com, net, p, sendBuf, writeBuf, matched, out, changes>>

\* DSR must still be on a second later.
LookAtDsr ==
  /\ pc \in {"look", "look2"}
  /\ CASE pc = "look" -> pc' = (IF com.dsr THEN "look2" ELSE "watch") /\ UNCHANGED op
       [] pc = "look2" /\ com.dsr -> Leave("connect")
       [] OTHER -> pc' = "watch" /\ UNCHANGED op
  /\ UNCHANGED <<opt, com, net, p, sendBuf, writeBuf, matched, out, changes, faults>>

\* A character that does not fit may still be the first of the sequence.
Match(n, ch) ==
  CASE opt.awakSeq[n + 1] = ch -> n + 1
    [] opt.awakSeq[n + 1] # ch /\ opt.awakSeq[1] = ch -> 1
    [] OTHER -> 0

Skipped ==
  /\ pc = "watch" /\ op["read"].state = "done"
  /\ pc' = "ready" /\ op' = [op EXCEPT !["read"] = Idle]
  /\ matched' = Match(matched, op["read"].data[1])
  /\ out' = [out EXCEPT !.skipped = @ \o op["read"].data]
  /\ UNCHANGED <<opt, com, net, p, sendBuf, writeBuf, changes, faults>>
WatchFails ==
  /\ pc = "watch" /\ op["read"].state = "failed"
  /\ Leave("exit")
  /\ com' = [com EXCEPT !.open = FALSE]
  /\ UNCHANGED <<opt, net, p, sendBuf, writeBuf, matched, out, changes, faults>>
DsrEvent ==
  /\ pc = "watch" /\ Ended("stat")
  /\ pc' = "ready" /\ op' = [op EXCEPT !["stat"] = Idle]
  /\ UNCHANGED <<opt, com, net, p, sendBuf, writeBuf, matched, out, changes, faults>>

\* Connect: without a peer the program ends.
ConnectToPeer ==
  /\ pc = "connect"
  /\ IF net.feeds # <<>>
     THEN /\ net' = [net EXCEPT !.open = TRUE, !.closed = FALSE, !.closeEvent = FALSE]
          /\ com' = WithDtr(com, TRUE)
          /\ StartInOut
     ELSE /\ pc' = "exit" /\ com' = [com EXCEPT !.open = FALSE]
          /\ UNCHANGED <<net, p, sendBuf, writeBuf, op, out>>
  /\ UNCHANGED <<opt, matched, changes, faults>>

-----------------------------------------------------------------------------
\* tcp2com: the server opens the serial port for each connection.
AcceptPeer ==
  /\ pc = "accept" /\ net.peers > 0
  /\ \/ /\ net' = [net EXCEPT !.peers = @ - 1, !.open = TRUE, !.closed = FALSE, !.closeEvent = FALSE]
        /\ com' = WithDtr(Opened(com), TRUE)
        /\ StartInOut
        /\ NoFault
     \/ /\ Fault("open")
        /\ net' = [net EXCEPT !.peers = @ - 1, !.feeds = Tail(@)]
        /\ UNCHANGED <<pc, com, p, sendBuf, writeBuf, op, out>>
  /\ UNCHANGED <<opt, matched, changes>>

-----------------------------------------------------------------------------
\* InOut: what is issued at the beginning of each pass.  A write takes the rest of its
\* buffer, which is filled again when it is empty; a read needs room in its stream.
Refilled(buf, stream) == IF buf = <<>> THEN GetData(stream, BufSize) ELSE buf
Taken(buf, stream) == IF buf = <<>> THEN Behind(stream, GetData(stream, BufSize)) ELSE stream

Issue ==
  /\ pc = "issue"
  /\ LET sends == ~Waiting("send")
         writes == ~Waiting("write")
         sent == IF sends THEN Refilled(sendBuf, p.send) ELSE sendBuf
         written == IF writes THEN Refilled(writeBuf, p.write) ELSE writeBuf
         q == [p EXCEPT !.send = IF sends THEN Taken(sendBuf, @) ELSE @,
                        !.write = IF writes THEN Taken(writeBuf, @) ELSE @]
     IN  /\ sendBuf' = sent /\ writeBuf' = written /\ p' = q
         /\ \/ /\ op' = [op EXCEPT !["send"] = IF sends /\ sent # <<>> THEN Issued(sent) ELSE @,
                                   !["read"] = IF @ = Idle /\ ~IsFull(q.send) THEN Issued(<<>>) ELSE @,
                                   !["write"] = IF writes /\ written # <<>> THEN Issued(written) ELSE @,
                                   !["recv"] = IF @ = Idle /\ ~IsFull(q.write) THEN Issued(<<>>) ELSE @]
               /\ pc' = "event" /\ NoFault
            \/ /\ Fault("issue") /\ pc' = "stop" /\ UNCHANGED op
  /\ UNCHANGED <<opt, com, net, matched, out, changes>>

\* It waits only while an operation of either direction can end; otherwise it goes round.
CanWait(o) ==
  /\ o["read"].state # "idle" \/ o["send"].state # "idle"
  /\ o["recv"].state # "idle" \/ o["write"].state # "idle"
  /\ o["stat"].state # "idle"
Round(o) == pc' = IF CanWait(o) THEN "await" ELSE "issue"

\* The event is asked for before the pins are looked at, so that no change is missed.
IssueEvent ==
  /\ pc = "event"
  /\ op' = [op EXCEPT !["stat"] = IF Waiting("stat") THEN @ ELSE Issued(<<>>)]
  /\ IF Waiting("stat") THEN Round(op) ELSE pc' = "poll"
  /\ UNCHANGED <<opt, com, net, p, sendBuf, writeBuf, matched, out, changes, faults>>
PollDsr ==
  /\ pc = "poll"
  /\ IF ~com.dsr /\ ~opt.ignoreDsr THEN pc' = "stop" ELSE Round(op)
  /\ UNCHANGED <<opt, com, net, p, sendBuf, writeBuf, op, matched, out, changes, faults>>

-----------------------------------------------------------------------------
\* The events, of which the first that is signalled is taken.
EventOrder == <<"read", "send", "recv", "write", "stat", "close", "accept">>
Signalled(e) ==
  CASE e = "close" -> net.closeEvent
    [] e = "accept" -> net.peers > 0
    \* the end of the stream is seen once, and is still waited for
    [] OTHER -> Ended(e)
First(e) ==
  /\ pc = "await" /\ Signalled(e)
  /\ \A i, j \in DOMAIN EventOrder : EventOrder[j] = e /\ i < j => ~Signalled(EventOrder[i])

\* An operation that failed ends the session.
OpFailed(o) ==
  /\ First(o) /\ op[o].state = "failed"
  /\ pc' = "stop"
  /\ UNCHANGED <<opt, com, net, p, sendBuf, writeBuf, op, matched, out, changes, faults>>
Done(o, next) == First(o) /\ op[o].state = "done" /\ pc' = "issue" /\ op' = [op EXCEPT ![o] = next]

HasRead ==
  /\ Done("read", Idle)
  /\ p' = Send(p, op["read"].data)
  /\ out' = [out EXCEPT !.fromCom = @ \o op["read"].data]
  /\ UNCHANGED <<opt, com, net, sendBuf, writeBuf, matched, changes, faults>>
HasSent ==
  /\ Done("send", Idle)
  /\ sendBuf' = SubSeq(sendBuf, op["send"].n + 1, Len(sendBuf))
  /\ UNCHANGED <<opt, com, net, p, writeBuf, matched, out, changes, faults>>
HasReceived ==
  /\ op["recv"].data # <<>>
  /\ Done("recv", Idle)
  /\ p' = Write(p, op["recv"].data)
  /\ out' = [out EXCEPT !.fromNet = @ \o op["recv"].data]
  /\ UNCHANGED <<opt, com, net, sendBuf, writeBuf, matched, changes, faults>>
\* faulty: a read is started again behind the end of the stream.
HasReceivedEofAgain ==
  /\ op["recv"].data = <<>>
  /\ Done("recv", Idle)
  /\ UNCHANGED <<opt, com, net, p, sendBuf, writeBuf, matched, out, changes, faults>>

\* At the end of the stream nothing more is received, and the event of the close ends it.
HasReceivedEof ==
  /\ op["recv"].data = <<>>
  /\ Done("recv", [Idle EXCEPT !.state = "eof"])
  /\ UNCHANGED <<opt, com, net, p, sendBuf, writeBuf, matched, out, changes, faults>>
HasWritten ==
  /\ Done("write", Idle)
  /\ writeBuf' = SubSeq(writeBuf, op["write"].n + 1, Len(writeBuf))
  /\ UNCHANGED <<opt, com, net, p, sendBuf, matched, out, changes, faults>>
DsrChanged ==
  /\ Done("stat", Idle)
  /\ UNCHANGED <<opt, com, net, p, sendBuf, writeBuf, matched, out, changes, faults>>
HasClosed ==
  /\ First("close")
  /\ pc' = "stop"
  /\ net' = [net EXCEPT !.closeEvent = FALSE]
  /\ UNCHANGED <<opt, com, p, sendBuf, writeBuf, op, matched, out, changes, faults>>
\* Another peer is told that the port is busy.
IsBusy ==
  /\ First("accept")
  /\ pc' = "issue"
  /\ net' = [net EXCEPT !.peers = @ - 1, !.feeds = <<Head(@)>> \o Tail(Tail(@))]
  /\ UNCHANGED <<opt, com, p, sendBuf, writeBuf, op, matched, out, changes, faults>>

\* Behind the loop; a second before it there may be for what is being sent or written.
EndSession ==
  /\ pc = "stop"
  /\ op' = [o \in OpNames |-> Idle]
  /\ com' = [WithDtr(com, FALSE) EXCEPT !.open = opt.client]
  /\ net' = [net EXCEPT !.open = FALSE, !.closeEvent = FALSE, !.feeds = Tail(@)]
  /\ pc' = IF opt.client THEN "ready" ELSE "accept"
  /\ matched' = 0
  /\ UNCHANGED <<opt, p, sendBuf, writeBuf, out, changes, faults>>

-----------------------------------------------------------------------------
\* The system and the world outside.
Still == UNCHANGED <<opt, pc, p, sendBuf, writeBuf, matched, changes, faults>>
Ends(o, data, n) == op' = [op EXCEPT ![o] = [state |-> "done", data |-> data, n |-> n]]
Sizes(s) == {n \in {1, BufSize} : n <= Len(s)}

\* What comes while DSR is off is dropped by the driver, unless that is ignored; before
\* the session a read takes one character.
ComReads ==
  /\ op["read"].state = "pending" /\ (com.dsr \/ opt.ignoreDsr)
  /\ \E n \in Sizes(com.feed) :
       /\ pc = "watch" => n = 1
       /\ Ends("read", SubSeq(com.feed, 1, n), n)
       /\ com' = [com EXCEPT !.feed = SubSeq(@, n + 1, Len(@))]
  /\ UNCHANGED <<net, out>> /\ Still
ComTakes ==
  /\ op["write"].state = "pending"
  /\ \E n \in {1, Len(op["write"].data)} :
       /\ Ends("write", op["write"].data, n)
       /\ out' = [out EXCEPT !.toCom = @ \o SubSeq(op["write"].data, 1, n)]
  /\ UNCHANGED <<com, net>> /\ Still
NetTakes ==
  /\ op["send"].state = "pending" /\ ~net.closed
  /\ \E n \in {1, Len(op["send"].data)} :
       /\ Ends("send", op["send"].data, n)
       /\ out' = [out EXCEPT !.toNet = @ \o SubSeq(op["send"].data, 1, n)]
  /\ UNCHANGED <<com, net>> /\ Still
NetGives ==
  /\ op["recv"].state = "pending" /\ ~net.closed
  /\ \E n \in Sizes(Head(net.feeds)) :
       /\ Ends("recv", SubSeq(Head(net.feeds), 1, n), n)
       /\ net' = [net EXCEPT !.feeds[1] = SubSeq(@, n + 1, Len(@))]
  /\ UNCHANGED <<com, out>> /\ Still

\* DSR changes; the wait for the event ends then.
DsrToggles ==
  /\ changes < DsrChanges /\ changes' = changes + 1
  /\ com' = [com EXCEPT !.dsr = ~@]
  /\ op' = [op EXCEPT !["stat"] = IF @.state = "pending" THEN [@ EXCEPT !.state = "done"] ELSE @]
  /\ UNCHANGED <<opt, pc, net, p, sendBuf, writeBuf, matched, out, faults>>

\* The peer closes: a read gives the end of the stream, a write to it fails.
PeerCloses ==
  /\ net.open /\ ~net.closed
  /\ net' = [net EXCEPT !.closed = TRUE, !.closeEvent = TRUE]
  /\ UNCHANGED <<com, op, out>> /\ Still
NetEnds ==
  /\ op["recv"].state = "pending" /\ net.closed
  /\ Ends("recv", <<>>, 0)
  /\ UNCHANGED <<com, net, out>> /\ Still
NetRefuses ==
  /\ op["send"].state = "pending" /\ net.closed
  /\ op' = [op EXCEPT !["send"].state = "failed"]
  /\ UNCHANGED <<com, net, out>> /\ Still
PeerArrives ==
  /\ ~opt.client /\ net.peers + (IF net.open THEN 1 ELSE 0) < Len(net.feeds)
  /\ net' = [net EXCEPT !.peers = @ + 1]
  /\ UNCHANGED <<com, op, out>> /\ Still
\* The serial port's device goes away.
OpFails ==
  /\ pc \notin {"stop", "exit"} /\ Fault("op")
  /\ \E o \in {"read", "write"} :
       op[o].state = "pending" /\ op' = [op EXCEPT ![o].state = "failed"]
  /\ UNCHANGED <<opt, pc, com, net, p, sendBuf, writeBuf, matched, out, changes>>

-----------------------------------------------------------------------------
Program ==
  \/ OpenCom \/ StartWait \/ LookAtDsr \/ Skipped \/ WatchFails \/ DsrEvent \/ ConnectToPeer \/ AcceptPeer
  \/ Issue \/ IssueEvent \/ PollDsr
  \/ HasRead \/ HasSent \/ HasReceived \/ HasReceivedEof \/ HasWritten
  \/ DsrChanged \/ HasClosed \/ IsBusy \/ \E o \in OpNames : OpFailed(o)
  \/ EndSession
World ==
  \/ ComReads \/ ComTakes \/ NetTakes \/ NetGives \/ NetEnds \/ NetRefuses
  \/ DsrToggles \/ PeerCloses \/ PeerArrives \/ OpFails
Next == Program \/ World

Spec == Init /\ [][Next]_vars
\* The thread runs, and what a closed connection has left pending ends.
FairSpec == Spec /\ WF_vars(Program) /\ WF_vars(NetEnds) /\ WF_vars(NetRefuses)

-----------------------------------------------------------------------------
InSession == pc \in {"issue", "event", "poll", "await"}

\* A receiver's view of a telnet stream (RFC 854): IAC IAC is a byte, every other command
\* and a subnegotiation up to its end is none.
Strip(a, ch) ==
  CASE a.at = "data" /\ ch # "IAC" -> [a EXCEPT !.got = Append(@, ch)]
    [] a.at = "data" /\ ch = "IAC" -> [a EXCEPT !.at = "iac"]
    [] a.at = "iac" /\ ch = "IAC" -> [got |-> Append(a.got, ch), at |-> "data"]
    [] a.at = "iac" /\ ch = "SB" -> [a EXCEPT !.at = "sub"]
    [] a.at = "iac" /\ ch \notin {"IAC", "SB"} ->
         [a EXCEPT !.at = IF ch \in {"WILL", "WONT", "DO", "DONT"} THEN "option" ELSE "data"]
    [] a.at = "option" -> [a EXCEPT !.at = "data"]
    [] a.at = "sub" -> [a EXCEPT !.at = IF ch = "IAC" THEN "subiac" ELSE @]
    [] OTHER -> [a EXCEPT !.at = IF ch = "SE" THEN "data" ELSE "sub"]
Plain(s) == IF opt.telnet THEN FoldLeft(Strip, [got |-> <<>>, at |-> "data"], s).got ELSE s

\* What a session has read of one side is what the other side has got of it and what is still
\* on its way, in that order: no byte is lost, doubled or moved when an operation ends in part,
\* a stream is full or telnet answers in between, and none is of a session before.
Rest(w, buf) == SubSeq(buf, (IF w.state = "done" THEN w.n ELSE 0) + 1, Len(buf))
LeftOf(o, buf) == Rest(op[o], buf)
Faithful ==
  InSession =>
    /\ Plain(out.toNet \o LeftOf("send", sendBuf) \o p.send) = out.fromCom
    /\ out.toCom \o LeftOf("write", writeBuf) \o p.write = Plain(out.fromNet)

\* Whatever the peers do, a stream never has more than its threshold and one read.  (What
\* telnet answers is not held back by the threshold.)
Bounded ==
  /\ Len(p.write) <= Threshold + BufSize
  /\ ~opt.telnet => Len(p.send) <= Threshold + BufSize

\* The types of what a session without telnet uses.
OpTypes == [state : {"idle", "pending", "done", "failed", "eof"}, data : Seq(STRING), n : Nat]
RawProtocols ==
  [telnet : {FALSE}, send : Seq(STRING), write : Seq(STRING), state : {"data"}, code : {""},
   option : {""}, params : {<<>>}, remote : [OptionNames -> {"cant"}],
   local : [OptionNames -> {"cant"}]]
RawTypes ==
  /\ opt \in Options
  /\ p \in RawProtocols
  /\ sendBuf \in Seq(STRING) /\ writeBuf \in Seq(STRING)
  /\ op \in [OpNames -> OpTypes]
  /\ com \in [open : BOOLEAN, dtr : BOOLEAN, dsr : BOOLEAN, feed : Seq(STRING)]
  /\ net \in [open : BOOLEAN, closed : BOOLEAN, closeEvent : BOOLEAN,
              feeds : Seq(Seq(STRING)), peers : Nat]
  /\ out \in [skipped : Seq(STRING), fromCom : Seq(STRING), toNet : Seq(STRING),
              fromNet : Seq(STRING), toCom : Seq(STRING)]

\* Where only a client is.
Outgoing == {"open", "ready", "look", "look2", "watch", "connect"}

\* The peer of a session and those that wait to be accepted are among those to come.
Peers ==
  /\ net.open <=> InSession \/ pc = "stop"
  /\ net.peers + (IF net.open THEN 1 ELSE 0) <= Len(net.feeds)
  /\ opt.client => net.peers = 0
  /\ pc \in Outgoing => opt.client

\* One direction, from the reads r to the writes w: what was read has been written, is in
\* the buffer of the write or in the stream; a write works on its whole buffer, and a read
\* was started while the stream was not full.
Carried(buf, stream, w, r, from, to) ==
  /\ to \o Rest(w, buf) \o stream = from
  /\ w.state # "idle" => buf # <<>> /\ w.data = buf /\ w.n <= Len(buf)
  /\ r.state \in {"pending", "done"} => ~IsFull(stream) /\ Len(r.data) <= BufSize
  /\ Len(stream) <= Threshold + BufSize

\* Without telnet, what is read, held back and sent: an inductive invariant.
RawSessions ==
  ~opt.telnet =>
    /\ RawTypes /\ Peers /\ Bounded
    /\ IF net.open
       THEN /\ Carried(sendBuf, p.send, op["send"], op["read"], out.fromCom, out.toNet)
            /\ Carried(writeBuf, p.write, op["write"], op["recv"], out.fromNet, out.toCom)
       ELSE \A o \in {"send", "recv", "write"} : op[o].state = "idle"

\* The client connects only behind the awakening sequence, if there is one.
Awakened == pc = "connect" => IsSuffix(opt.awakSeq, out.skipped)

\* It connects whenever the sequence has come.
AwakenedAlways ==
  pc = "watch" /\ opt.awakSeq # <<>> => ~IsSuffix(opt.awakSeq, out.skipped)

\* When DSR stays off the session ends, unless DSR is ignored; no change of DSR falls
\* between the wait for it and the look at it.
DsrEnds == <>[](~com.dsr /\ ~opt.ignoreDsr) => []<>~InSession

\* A session ends with its connection.
CloseEnds == [](net.open /\ net.closed => <>~net.open)
=============================================================================
