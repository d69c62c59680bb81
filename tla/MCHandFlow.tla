----------------------------- MODULE MCHandFlow -----------------------------
(***************************************************************************)
(* HandFlow for TLC: settings and wirings of its runs.                     *)
(***************************************************************************)
EXTENDS HandFlow

\* Crossed lines, as setupc installs them: CTS = RRTS, DSR = RDTR, DCD = RDTR.
Crossed ==
  [p \in Ports |->
     [i \in Inputs |-> [of |-> "remote", pin |-> IF i = "CTS" THEN "RTS" ELSE "DTR",
                        negative |-> FALSE]]]

\* B gets DSR from an output of A that programs set as they like, inverted.
Custom ==
  [Crossed EXCEPT !["B"]["DSR"] = [of |-> "remote", pin |-> "OUT1", negative |-> TRUE]]

\* What programs set.  The limits leave one byte count between XON and XOFF.
Plain == [out |-> {}, rts |-> "on", dtr |-> "on", autoTx |-> FALSE, autoRx |-> FALSE,
          cont |-> FALSE, xon |-> 0, xoff |-> 2]
RtsCts == [Plain EXCEPT !.out = {"CTS"}, !.rts = "handshake"]
XonXoff == [Plain EXCEPT !.autoTx = TRUE, !.autoRx = TRUE]
Obeying == [XonXoff EXCEPT !.out = {"CTS", "DCD"}]
Toggle == [XonXoff EXCEPT !.rts = "toggle"]
WithRts == [XonXoff EXCEPT !.out = {"CTS"}, !.rts = "handshake"]
WithDtr == [XonXoff EXCEPT !.out = {"DSR"}, !.dtr = "handshake", !.autoTx = FALSE,
                    !.cont = TRUE]
Continue == [XonXoff EXCEPT !.cont = TRUE]

\* XON/XOFF in both ports once they are set up, lines that come and go with it.
Mixed == [p \in Ports |-> IF p = "A" THEN {Obeying, Toggle}
                                     ELSE {WithRts, WithDtr}]
\* XON/XOFF that B turns on and off, and alternates with RTS.
OnAndOff == [p \in Ports |-> IF p = "A" THEN {XonXoff} ELSE {Continue, Plain}]
Alternating == [p \in Ports |-> IF p = "A" THEN {Plain} ELSE {WithRts, RtsCts, XonXoff}]
Toggling == [p \in Ports |-> IF p = "A" THEN {Plain} ELSE {RtsCts, [Plain EXCEPT !.rts = "toggle"]}]

\* B honours a line that A sets, so A is who sets pins; B uses SET_XOFF.
Out1 == [p \in Ports |-> IF p = "A" THEN {[bits |-> b, mask |-> {"OUT1"}] : b \in {{}, {"OUT1"}}}
                                    ELSE {}]
NoControls == [p \in Ports |-> {}]
Some == [p \in Ports |-> IF p = "A" THEN {"rts", "dtr"} ELSE {"xon", "xoff"}]
None == [p \in Ports |-> {}]
Aborts == {{"RXABORT"}}
Clears == {{"RXCLEAR"}, {"TXABORT", "RXABORT"}}

\* What the theorems suppose holds of the run, but for OneSetOfLines: B changes from
\* RTS to DTR.
ASSUME RunSettings == /\ NoToggleAfterHandshake /\ PinsLeftAlone
                      /\ OneWay /\ OneLimit /\ LinesCrossed /\ NothingCleared
=============================================================================
