------------------------------- MODULE MCSetup -------------------------------
(* Set-up on small machines: two places for pairs, the numbers 0 to 2 and two *)
(* arbitrated names.                                                          *)
EXTENDS Setup

MCDwords == << "EmuBR", "EmuNoise", "AddRTTO", "cts", "ri" >>
MCKinds  == [EmuBR |-> "flag", EmuNoise |-> "probability", AddRTTO |-> "unsigned",
             cts |-> "pin", ri |-> "pin"]
MCComs   == << "COM1", "COM2" >>

Nothing == [k \in Nums \X {"A", "B"} |-> NothingKept]
Empty   == [bus |-> [s \in Slots |-> NoBus], port |-> [k \in Nums \X {"A", "B"} |-> NoPort], list |-> << >>,
            kept |-> Nothing, arb |-> [n \in ToSet(MCComs) |-> "free"], log |-> {},
            soft |-> UNION {SoftOf(id) : id \in ToSet(Infs)}]

(* A machine with pair n, its sides' names a and b ("" for their own).        *)
Named(w, k, x) == [w EXCEPT !.kept[k].name = x,
                            !.arb = IF x \in Coms THEN [@ EXCEPT ![x] = "ours"] ELSE @,
                            !.log = @ \cup ({x} \cap Coms)]
Pair(w, s, n, a, b) ==
    LET named == Named(Named(w, << n, "A" >>, a), << n, "B" >>, b)
    IN  AddFdoBus([named EXCEPT !.bus[s] = [NoBus EXCEPT !.here = TRUE, !.num = n]], s)

Plain   == Pair(Empty, 1, 0, "COM1", NoName)
Classed == Pair(Empty, 1, 0, ComClass, NoName)
Two     == Pair(Pair(Empty, 1, 0, "COM1", NoName), 2, 1, ComClass, NoName)
Older   == [Plain EXCEPT !.soft = @ \cup {"older", "alike"}]

Cmd0 == [op |-> "list", num |-> -1, port |-> << 0, "A" >>, A |-> << >>, B |-> << >>, noUpdate |-> FALSE]
Cmd(op) == [Cmd0 EXCEPT !.op = op]
PortName(n)     == << Setting("PortName", Word(n)) >>
RealPortName(n) == << Setting("RealPortName", Word(n)) >>
ChangePort(k, A)    == [Cmd("change") EXCEPT !.port = k, !.A = A]
InstallPair(n, A, B) == [Cmd("install") EXCEPT !.num = n, !.A = A, !.B = B]
RemovePair(n)        == [Cmd("remove") EXCEPT !.num = n]

Renames   == {<< ChangePort(k, PortName(n)), RemovePair(0) >> : k \in {<< 0, "A" >>, << 0, "B" >>},
                  n \in {"COM1", "COM2", ComClass, "-"}}
             \cup {<< ChangePort(<< 0, "A" >>, RealPortName("COM2")), Cmd("uninstall") >>}
Installs  == {<< InstallPair(n, PortName("COM2"), PortName(ComClass)), Cmd("uninstall") >> : n \in {-1, 0}}
             \cup {<< Cmd("disable"), InstallPair(0, << >>, << >>), RemovePair(0) >>}
Switches  == {<< Cmd("disable"), Cmd("update"), Cmd("enable") >>,
              << Cmd("update"), Cmd("reload") >>,
              << Cmd("uninstall"), Cmd("preinstall"), Cmd("infclean") >>,
              << [InstallPair(1, << >>, << >>) EXCEPT !.noUpdate = TRUE], Cmd("install drivers"),
                 Cmd("updatefnames") >>}
AllCalls  == {"arbiter", "load", "load log", "save", "change state", "remove", "create", "update",
              "delete", "inf", "list infs", "install software", "write name"}
Commands  == Renames \cup Installs \cup Switches

(* What the registry may keep of one port, for "list".                        *)
Variants ==
    {[Empty EXCEPT !.kept[<< 0, "A" >>] =
        [name |-> n, dw |-> [EmuBR |-> f, EmuNoise |-> p, AddRTTO |-> u, cts |-> q, ri |-> i]]] :
       n \in {NoName, "COM1", ComClass}, f \in {Absent, 0, 1}, p \in {Absent, 0, 1, 10, 99, 50},
       u \in {Absent, 0, 10, 255}, q \in {Absent, 1, 14}, i \in {Absent, 22}}
MCCases == ({Plain, Classed, Two, Older} \X Commands) \cup (Variants \X {<< Cmd("list") >>})
=============================================================================
