------------------------------ MODULE MCCom2Tcp ------------------------------
(***************************************************************************)
(* com2tcp with a short feed of each side; the last peer of a feed may be  *)
(* told that the port is busy.                                             *)
(***************************************************************************)
EXTENDS Com2Tcp

CommandLine(client, telnet, ignoreDsr, awakSeq) ==
  [client |-> client, telnet |-> telnet, ignoreDsr |-> ignoreDsr, connectDtr |-> ignoreDsr, awakSeq |-> awakSeq]
MCOptions ==
  {CommandLine(TRUE, FALSE, FALSE, <<>>), CommandLine(TRUE, TRUE, TRUE, <<"a", "b">>),
   CommandLine(FALSE, TRUE, FALSE, <<>>), CommandLine(FALSE, FALSE, TRUE, <<>>)}
\* A sequence that begins again within itself.
RepeatedSequence == {CommandLine(TRUE, FALSE, TRUE, <<"a", "a", "b">>)}

MCComFeed ==
  [o \in MCOptions \cup RepeatedSequence |->
     CASE o.awakSeq = <<>> /\ ~o.telnet -> IF o.client THEN <<"a", "b">> ELSE <<>>
       [] o.awakSeq = <<>> /\ o.telnet -> <<"IAC">>
       [] o.awakSeq = <<"a", "b">> -> <<"a", "a", "b", "IAC">>
       [] OTHER -> <<"a", "a", "a", "b">>]
MCNetFeeds ==
  [o \in MCOptions \cup RepeatedSequence |->
     CASE o.telnet /\ o.client -> <<<<"IAC", "DO", "terminal", "x">>>>
       [] o.telnet /\ ~o.client -> <<<<"IAC", "IAC">>, <<>>>>
       [] ~o.telnet /\ o.client -> <<<<"x">>, <<"u">>>>
       [] OTHER -> <<<<"x", "y", "z", "x", "y", "z">>, <<>>>>]
=============================================================================
