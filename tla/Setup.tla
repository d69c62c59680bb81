-------------------------------- MODULE Setup --------------------------------
(* The commands of the set-up library, setup/setup.cpp: what Main makes of a  *)
(* command line is a program, a sequence of steps.  Commands follow each      *)
(* other as in the interactive mode; in between, and during the dialogs,      *)
(* applications open ports, other drivers take COM names and the system is    *)
(* restarted.                                                                 *)
EXTENDS SetupSteps

CONSTANTS Cases,        \* << machine, script >>: a machine and the commands given to it
          SilentModes   \* of --silent: a subset of BOOLEAN

(* A command line, parsed.                                                    *)
Settings == [key : STRING, val : [word : STRING, digits : Seq(Nat)]]
CommandLines ==
    [op : {"list", "change", "remove", "disable", "enable", "reload", "update", "updatefnames",
           "preinstall", "install drivers", "install", "infclean", "uninstall"},
     num : Int, port : Nat \X {"A", "B"}, A : Seq(Settings), B : Seq(Settings),
     noUpdate : BOOLEAN]

(* The machines: each pair that is there has a number of its own.             *)
Buses == [here : BOOLEAN, num : Nat \cup {-1}, state : STRING, fname : Seq(STRING)]
OwnNumbers(w) ==
    \A s \in Slots : w.bus[s].here =>
        /\ w.bus[s].num # -1
        /\ \A t \in Slots \ {s} : w.bus[t].here => w.bus[t].num # w.bus[s].num

ASSUME PlacesAssumption ==
    IsFiniteSet(Slots) /\ Slots = 1..Cardinality(Slots) /\ MaxNum \in Nat
ASSUME CasesAssumption ==
    \A x \in Cases :
        /\ DOMAIN x[1] = {"bus", "port", "list", "kept", "arb", "log", "soft"}
        /\ x[1].bus \in [Slots -> Buses] /\ OwnNumbers(x[1])
        /\ x[2] \in Seq(CommandLines)

Name(w, k)      == FillPortName(Load(w.kept[k]), PhPortName(k))
BusesOf(w, n)   == Selected(EnumDevices(w, "bus", FALSE), LAMBDA d : w.bus[d[2]].num = n)
BusStep(op, d)  == [S(op) EXCEPT !.dev = d]
PortStep(op, k) == [S(op) EXCEPT !.port = k]
Validate(n, arbitrated) == << [S("validate") EXCEPT !.name = n, !.flag = arbitrated] >>
Only(cond, steps) == IF cond THEN steps ELSE << >>

-----------------------------------------------------------------------------
(* IsValidPortName: a name that Windows or the COM port database knows is     *)
(* only taken when the user goes on, and a database that cannot be read knows *)
(* none then.  With flag, ComDbIsValidName too.                               *)
AskInUse(d, inUse, steps) ==
    IF ~inUse THEN c' = Then(d, steps)
    ELSE \E a \in Dialog(d, CancelTryContinue) :
            c' = CASE a.reply = "continue"  -> Then(a.c, steps)
                   [] a.reply = "try again" -> a.c
                   [] OTHER                 -> Fail(a.c)

IsValidPortName ==
    /\ At("validate")
    /\ IF Now.name = NoName THEN c' = Fail(c)
       ELSE AskInUse(c, Now.name \in DosNames(m), << [Now EXCEPT !.op = "validate db"] >>)
    /\ UNCHANGED << m, script >>

ComDbIsValidName(n) == n \in Coms

IsLoggedPortName ==
    /\ At("validate db")
    /\ IF ~ComDbIsValidName(Now.name) THEN c' = (IF Now.flag THEN Fail(c) ELSE Rest(c))
       ELSE \E r \in Call(c, "arbiter", CancelTryContinue) :
               IF r.how = "cancelled" THEN c' = Fail(r.c)
               ELSE AskInUse(r.c, Done(r) /\ ComDbGetInUse(m, Now.name), << >>)
    /\ UNCHANGED << m, script >>

-----------------------------------------------------------------------------
(* Friendly names: of a bus the names of its ports, of a port its own.        *)
UpdateFriendlyNameBus(w, s) ==
    [w EXCEPT !.bus[s].fname = [i \in 1..2 |-> Name(w, PortsOf(w.bus[s].num)[i])]]

SetFriendlyNamePort(w, k) ==
    IF ~IsComClass(Name(w, k)) THEN [w EXCEPT !.port[k].fname = Name(w, k)]
    ELSE IF w.port[k].real = NoName THEN w
    ELSE [w EXCEPT !.port[k].fname = w.port[k].real]

UpdateFriendlyNamePort(w, k) == IF w.port[k].here THEN SetFriendlyNamePort(w, k) ELSE w

(* UpdateFriendlyNamesBus: of the bus with one number, or (-1) of all.        *)
UpdateFriendlyNamesBus(w, num) ==
    LET named == {s \in Slots : w.bus[s].here /\ w.bus[s].num # -1 /\ num \in {w.bus[s].num, -1}}
        below == UNION {ToSet(PortsOf(w.bus[s].num)) : s \in named}
    IN  [w EXCEPT !.bus  = [s \in Slots |-> IF s \in named THEN UpdateFriendlyNameBus(w, s).bus[s]
                                            ELSE w.bus[s]],
                  !.port = [k \in Ports |-> IF k \in below THEN UpdateFriendlyNamePort(w, k).port[k]
                                            ELSE w.port[k]]]

OwnPair == -2     \* the pair that is being installed

UpdateFriendlyNames ==
    /\ At("friendly names")
    /\ m' = IF Now.flag /\ ~c.ok THEN m
            ELSE UpdateFriendlyNamesBus(m, IF Now.at = OwnPair THEN c.num ELSE Now.at)
    /\ c' = Rest(c)
    /\ UNCHANGED script

-----------------------------------------------------------------------------
(* ChangeDevice, for the port that is to be changed: the new parameters are   *)
(* worked out and validated.                                                  *)
LoadRealPortName(p, k) ==
    IF m.port[k].here /\ m.port[k].real # NoName THEN InitRealPortName(p, m.port[k].real) ELSE p

ChangeDevice ==
    /\ At("change")
    /\ LET k       == Now.port
           loaded  == Load(m.kept[k])
           nameOld == FillPortName(loaded, PhPortName(k))
           comOld  == IsComClass(nameOld)
           before  == IF comOld THEN LoadRealPortName(loaded, k) ELSE loaded
           parsed  == ParseParametersStr(before, Now.A)
           Steps(p) ==
              LET nameNew == FillPortName(p, PhPortName(k))
                  both    == comOld /\ IsComClass(nameNew)
                  realOld == FillRealPortName(before)
                  q       == IF both THEN p ELSE InitRealPortName(p, NoName)
                  moved   == FillRealPortName(q) # (IF both THEN realOld ELSE NoName)
              IN  Only(nameNew # nameOld /\ (~comOld \/ realOld = NoName \/ nameNew # realOld),
                       Validate(nameNew, FALSE))
                  \o Only(Changed(q),
                          Only(moved, Validate(FillRealPortName(q), TRUE))
                          \o << [PortStep("save change", k) EXCEPT
                                    !.dev = Now.dev, !.params = q, !.flag = moved] >>)
       IN  \E r \in Call(c, "load", JustOk) :
              IF ~Done(r) \/ parsed = {} THEN c' = Fail(r.c)
              ELSE \E p \in parsed : c' = Then(r.c, Steps(p))
    /\ UNCHANGED << m, script >>

(* ... saved and put into force: a port of another class is a new device, the *)
(* others are restarted, with their new real name if that has changed.        *)
RestartedAs(k, real) ==
    Only(Now.flag, << [PortStep("rename", k) EXCEPT !.name = real] >>) \o << OfPort("restart", k) >>

SaveChange ==
    /\ At("save change")
    /\ LET k       == Now.port
           nameOld == Name(m, k)
           Save1(kept, d) ==
              LET w       == [m EXCEPT !.kept[k] = kept]
                  nameNew == FillPortName(Now.params, PhPortName(k))
                  named   == nameNew # nameOld
                  fnPort  == << PortStep("friendly name", k) >>
              IN  /\ m' = IF named THEN UpdateFriendlyNameBus(w, Now.dev[2]) ELSE w
                  /\ c' = Then([d EXCEPT !.changed = TRUE],
                        IF IsComClass(nameNew) # IsComClass(nameOld)
                        THEN << OfPort("disable", k), OfPort("remove", k),
                                BusStep("reenumerate", Now.dev) >> \o fnPort
                        ELSE Only(named, fnPort) \o RestartedAs(k, FillRealPortName(Now.params)))
       IN  \E r \in Call(c, "save", JustOk) :
              IF Done(r) THEN Save1(Save(Now.params, m.kept[k]), r.c)
              ELSE \E f \in SaveFails(Now.params, m.kept[k]) :
                      IF f.told THEN c' = Fail(r.c) /\ UNCHANGED m ELSE Save1(f.kept, r.c)
    /\ UNCHANGED script

ReenumerateDeviceNode ==
    /\ At("reenumerate")
    /\ m' = IF Now.dev[2] \in ToSet(m.list) THEN QueryBusRelations(m, m.bus[Now.dev[2]].num) ELSE m
    /\ c' = Rest(c)
    /\ UNCHANGED script

FriendlyName ==
    /\ At("friendly name")
    /\ m' = UpdateFriendlyNamePort(m, Now.port)
    /\ c' = Rest(c)
    /\ UNCHANGED script

(* UpdateRealPortName: claim the new name, write it, release the old one; or  *)
(* release the new one again.                                                 *)
UpdateRealPortName ==
    /\ At("rename")
    /\ LET k   == Now.port
           old == m.port[k].real
           Written(w, d) ==
              \E r \in Call(d, "write name", JustOk) :
                 LET named == [w EXCEPT !.port[k].real = Now.name]
                 IN  \E x \in ClaimReleasePort(IF Done(r) THEN named ELSE w, r.c,
                                               IF Done(r) THEN old ELSE Now.name, FALSE) :
                        /\ m' = IF Done(r) THEN SetFriendlyNamePort(x.m, k) ELSE x.m
                        /\ c' = Rest(x.c)
       IN  IF ~m.port[k].here \/ old = NoName THEN c' = Rest(c) /\ UNCHANGED m
           ELSE \E x \in ClaimReleasePort(m, c, Now.name, TRUE) :
                   IF x.ok THEN Written(x.m, x.c) ELSE c' = Rest(x.c) /\ UNCHANGED m
    /\ UNCHANGED script

-----------------------------------------------------------------------------
(* Install: the number, ...                                                   *)
\* faulty: only the pairs that run are counted.
AllocPortNumOfRunning(num) ==
    LET taken == {NumberAt(m, i) : i \in DOMAIN m.list}
    IN  IF num \notin taken THEN num
        ELSE CHOOSE n \in 0..Cardinality(taken) :
                n \notin taken /\ \A i \in 0..n - 1 : i \in taken

AllocPortNum(num) ==
    LET taken == {m.bus[d[2]].num : d \in ToSet(EnumDevices(m, "bus", FALSE))}
    IN  IF num \notin taken THEN num
        ELSE CHOOSE n \in 0..Cardinality(taken) :
                n \notin taken /\ \A i \in 0..n - 1 : i \in taken

InstallNumber ==
    /\ At("allocate")
    /\ LET num   == Now.at
           i     == AllocPortNum(IF num >= 0 THEN num ELSE 0)
           side  == << [PortStep("parameters", << i, "A" >>) EXCEPT !.A = Now.A],
                       [PortStep("parameters", << i, "B" >>) EXCEPT !.A = Now.B] >>
           Go(d) == Then([d EXCEPT !.num = i], side)
       IN  IF num \in {-1, i} THEN c' = Go(c)
           ELSE \E a \in Dialog(c, CancelTryContinue) :
                   c' = CASE a.reply = "continue"  -> Go(a.c)
                          [] a.reply = "try again" -> a.c
                          [] OTHER                 -> Fail(a.c)
    /\ UNCHANGED << m, script >>

(* ... the parameters of each port (one that cannot be read keeps its own     *)
(* name, one that cannot be saved is only warned of), ...                     *)
InstallParameters ==
    /\ At("parameters")
    /\ LET k == Now.port
           Named(d, n) == [d EXCEPT !.names = Append(@, n)]
       IN  \E r \in Call(c, "load", JustOk) :
              IF ~Done(r) THEN c' = Rest(Named(r.c, PhPortName(k)))
              ELSE LET parsed == ParseParametersStr(Load(m.kept[k]), Now.A)
                   IN  IF parsed = {} THEN c' = Fail(r.c)
                       ELSE \E p \in parsed :
                               LET n == FillPortName(p, PhPortName(k))
                                   q == InitRealPortName(p, NoName)
                               IN  c' = Then(Named(r.c, n),
                                             Validate(n, FALSE)
                                             \o Only(Changed(q), << [PortStep("save", k) EXCEPT !.params = q] >>))
    /\ UNCHANGED << m, script >>

SaveParameters ==
    /\ At("save")
    /\ \E r \in Call(c, "save", JustOk) :
          /\ c' = Rest(r.c)
          /\ IF Done(r) THEN m' = [m EXCEPT !.kept[Now.port] = Save(Now.params, @)]
             ELSE \E f \in SaveFails(Now.params, m.kept[Now.port]) :
                     m' = [m EXCEPT !.kept[Now.port] = f.kept]
    /\ UNCHANGED script

SameName ==
    /\ At("same name")
    /\ IF c.names[1] # c.names[2] \/ IsComClass(c.names[1]) THEN c' = Rest(c)
       ELSE \E a \in Dialog(c, OkCancel) : c' = IF a.reply = "ok" THEN Rest(a.c) ELSE Fail(a.c)
    /\ UNCHANGED << m, script >>

(* ... and the bus device: made, given its number and, unless the drivers are *)
(* left out, started (TryInstallDevice).                                      *)
CreateDevice ==
    /\ At("create")
    /\ LET free == {s \in Slots : ~m.bus[s].here}
       IN  \E r \in Call(c, "create", JustOk) :
              IF ~Done(r) \/ free = {} THEN c' = Fail(r.c) /\ UNCHANGED m
              ELSE LET s == CHOOSE x \in free : \A y \in free : x <= y
                   IN  /\ m' = [m EXCEPT !.bus[s] = [NoBus EXCEPT !.here = TRUE, !.state = "raw"]]
                       /\ c' = Then(r.c, << BusStep("number", BusDev(s)) >>)
    /\ UNCHANGED script

(* A device that is given up, which has never run, is removed again.          *)
Undone     == [m EXCEPT !.bus[Now.dev[2]] = NoBus]
GivenUp(r) == m' = Undone /\ c' = Fail(r.c)

SetPortNum ==
    /\ At("number")
    /\ \E r \in Call(c, "number", CancelTryContinue) :
          IF r.how = "cancelled" THEN GivenUp(r)
          ELSE /\ m' = IF Done(r) THEN [m EXCEPT !.bus[Now.dev[2]].num = c.num] ELSE m
               /\ c' = Then(r.c, Only(~c.noUpdate, << BusStep("start", Now.dev) >>))
    /\ UNCHANGED script

(* UpdateDriver: the devices that have no driver get one and start, and the   *)
(* software is what the inf file names.                                       *)
Raw(w)    == Selected(EnumDevices(w, "bus", FALSE), LAMBDA d : StateOf(w, d) = "raw")
Driven(w) == FoldLeft(AddFdoBus, [w EXCEPT !.soft = @ \cup SoftOf("bus")],
                      [i \in DOMAIN Raw(w) |-> Raw(w)[i][2]])

(* "Try Again" removes the device and makes it anew (InstallDevice).          *)
StartDevice ==
    /\ At("start")
    /\ \E r \in Call(c, "update", CancelTryContinue) :
          IF r.how = "cancelled" THEN GivenUp(r)
          ELSE IF Retried(c, r) THEN m' = Undone /\ c' = Then(r.c, << S("create") >>)
          ELSE m' = (IF Done(r) THEN Driven(m) ELSE m) /\ c' = Rest(r.c)
    /\ UNCHANGED script

(* The same in "install" without parameters and in Reload; there all devices  *)
(* of the hardware id have been disabled, so only the software changes.       *)
UpdateDriver ==
    /\ At("update")
    /\ \E r \in Call(c, "update", CancelTryContinue) :
          IF r.how = "cancelled" THEN c' = Fail(r.c) /\ UNCHANGED m
          ELSE /\ m' = IF ~Done(r) THEN m
                       ELSE IF Now.flag THEN [m EXCEPT !.soft = @ \cup SoftOf(Now.id)] ELSE Driven(m)
               /\ c' = Rest(r.c)
    /\ UNCHANGED script

-----------------------------------------------------------------------------
(* Remove: the bus devices with the number are disabled and removed one by    *)
(* one; that a removal has failed is not told.                                *)
FindPair ==
    /\ At("find")
    /\ LET found == BusesOf(m, Now.at)
       IN  c' = IF found = << >> THEN Fail(c)
                ELSE Then(c, << [Now EXCEPT !.op = "take out", !.devs = found] >>)
    /\ UNCHANGED << m, script >>

TakeOut ==
    /\ At("take out")
    /\ IF Now.devs = << >> THEN c' = Rest(c) /\ UNCHANGED m
       ELSE \E o \in DisableDevice(m, c, Head(Now.devs), FALSE) :
               IF o.reply = "continue"
               THEN \E x \in RemoveDevice(o.m, o.c, Head(Now.devs)) :
                       /\ m' = x.m
                       /\ c' = Then(x.c, Only(x.reply = "continue",
                                              << [Now EXCEPT !.devs = Tail(@)] >>))
               ELSE m' = o.m /\ c' = Looped(o, [Now EXCEPT !.op = "find"])
    /\ UNCHANGED script

(* Uninstall: its stack is dropped once everything is disabled, and it ends   *)
(* when the system must be restarted.                                         *)
DropStack ==
    /\ At("drop stack")
    /\ c' = [Rest(c) EXCEPT !.stack = << >>]
    /\ UNCHANGED << m, script >>

StopToReboot ==
    /\ At("stop to reboot")
    /\ c' = IF c.reboot THEN Fail(c) ELSE Rest(c)
    /\ UNCHANGED << m, script >>

(* The service (after a question), the event log, the class and the files.    *)
DeleteSoftware ==
    /\ At("delete")
    /\ \/ /\ Now.flag /\ ~c.silent
          /\ c' = Rest(c) /\ UNCHANGED m
       \/ \E r \in Call(c, "delete", CancelTryContinue) :
             /\ m' = IF Done(r) THEN [m EXCEPT !.soft = @ \ {Now.id}] ELSE m
             /\ c' = IF r.how = "cancelled" THEN Fail(r.c) ELSE Rest(r.c)
    /\ UNCHANGED script

(* The inf files (inffile.cpp): what UninstallInf returns is not looked at.   *)
(* One that only looks alike (flag) is asked about.                           *)
UninstallInf ==
    /\ At("uninstall inf")
    /\ \E d \in IF Now.flag THEN {[go |-> a.reply = "yes", c |-> a.c] : a \in Dialog(c, {"yes", "no"})}
               ELSE {[go |-> TRUE, c |-> c]} :
          IF ~d.go THEN c' = Rest(d.c) /\ UNCHANGED m
          ELSE \E r \in Call(d.c, "inf", CancelTryContinue) :
                  /\ m' = IF Done(r) THEN [m EXCEPT !.soft = @ \ {Now.id}] ELSE m
                  /\ c' = Rest(r.c)
    /\ UNCHANGED script

InfStep(id)         == [S("uninstall inf") EXCEPT !.id = id, !.flag = (id = "alike")]
OemInfs             == Infs \o << "older", "alike" >>
TestUninstall(id)   == id \in m.soft /\ id \notin Now.names

UninstallAllInfFiles ==
    /\ At("scan infs")
    /\ LET left == Selected(OemInfs, TestUninstall)
       IN  \E r \in Call(c, "list infs", JustOk) :
              c' = IF Done(r) THEN Then(r.c, [i \in DOMAIN left |-> InfStep(left[i])]) ELSE Fail(r.c)
    /\ UNCHANGED << m, script >>

(* Preinstall: the class of the first inf file, and each file itself.         *)
InstallSoftware ==
    /\ At("install software")
    /\ \E r \in Call(c, "install software", IF Now.id = "class" THEN CancelTryContinue ELSE JustOk) :
          /\ m' = IF Done(r) THEN [m EXCEPT !.soft = @ \cup {Now.id}] ELSE m
          /\ c' = IF r.how = "cancelled" THEN Fail(r.c) ELSE Rest(r.c)
    /\ UNCHANGED script

(* Between the reloads of Update.                                             *)
Reloaded ==
    /\ At("reloaded")
    /\ c' = [Rest(c) EXCEPT !.ok = @ /\ ~c.bad, !.bad = FALSE]
    /\ UNCHANGED << m, script >>

-----------------------------------------------------------------------------
(* Main: the steps of each command.                                           *)
FriendlyNames(num) == << [S("friendly names") EXCEPT !.at = num] >>
Restoring(giveUp)  == << [S("restore") EXCEPT !.flag = giveUp] >>
Deleted(id)        == << [S("delete") EXCEPT !.id = id, !.flag = (id = "service")] >>

Reload(id, update) ==
    << DisableAll(id, TRUE) >>
    \o Only(update, << [S("update") EXCEPT !.id = id, !.flag = TRUE] >>)
    \o Restoring(FALSE) \o << S("sync") >>

Program(cmd) ==
    CASE cmd.op = "list" -> << >>
      [] cmd.op = "change" ->
            [i \in DOMAIN BusesOf(m, cmd.port[1]) |->
                [PortStep("change", cmd.port) EXCEPT !.dev = BusesOf(m, cmd.port[1])[i], !.A = cmd.A]]
            \o << S("sync if changed") >>
      [] cmd.op = "remove" ->
            << [S("find") EXCEPT !.at = cmd.num] >>
            \o [i \in 1..2 |-> [PortStep("remove", PortsOf(cmd.num)[i]) EXCEPT
                                   !.id = "located", !.flag = TRUE]]
            \o << S("sync always") >>
      [] cmd.op = "disable" -> << DisableAll("bus", FALSE) >>
      [] cmd.op = "enable"  -> << S("enable") >>
      [] cmd.op = "reload"  -> Reload("bus", FALSE)
      [] cmd.op = "update"  ->
            Reload(Infs[1], ~cmd.noUpdate) \o << S("reloaded") >>
            \o Reload(Infs[2], ~cmd.noUpdate) \o << S("reloaded") >>
            \o Reload(Infs[3], ~cmd.noUpdate) \o << S("reloaded") >>
            \o << [S("friendly names") EXCEPT !.at = -1, !.flag = TRUE] >>
      [] cmd.op = "updatefnames" -> FriendlyNames(-1)
      [] cmd.op = "preinstall" ->
            [i \in 1..4 |-> [S("install software") EXCEPT !.id = (<< "class" >> \o Infs)[i]]]
      [] cmd.op = "install drivers" ->
            Only(~cmd.noUpdate, << S("update"), S("sync") >> \o FriendlyNames(-1))
      [] cmd.op = "install" ->
            << [S("allocate") EXCEPT !.at = cmd.num, !.A = cmd.A, !.B = cmd.B],
               S("same name"), S("create") >>
            \o FriendlyNames(OwnPair) \o << S("sync") >>
      [] cmd.op = "infclean" -> << [S("scan infs") EXCEPT !.names = m.soft \cap ToSet(Infs)] >>
      [] cmd.op = "uninstall" ->
            << DisableAll("port", TRUE), S("drop stack") >> \o Restoring(TRUE)
            \o << [S("remove") EXCEPT !.id = "bus"], [S("remove") EXCEPT !.id = "all"], S("sync"),
                  S("stop to reboot") >>
            \o Deleted("service") \o Deleted("eventlog") \o Deleted("class")
            \o << InfStep("bus") >> \o Deleted("files")
            \o << InfStep("cncport"), InfStep("comport"), S("scan infs") >>

-----------------------------------------------------------------------------
On(w) == {d \in ToSet(EnumDevices(w, "all", FALSE)) : StateOf(w, d) = "on"}

Init ==
    /\ \E x \in Cases : m = x[1] /\ script = x[2]
    /\ c \in {[Idle0 EXCEPT !.silent = s] : s \in SilentModes}

(* Main begins a command ...                                                  *)
Command ==
    /\ ~Busy /\ script # << >>
    /\ LET cmd == Head(script)
       IN  c' = [Idle0 EXCEPT !.todo = Program(cmd) \o << S("finish") >>, !.cmd = cmd.op,
                              !.noUpdate = cmd.noUpdate, !.silent = c.silent, !.faults = c.faults,
                              !.patience = c.patience, !.others = c.others, !.hurt = c.hurt,
                              !.refused = c.refused, !.was = On(m)]
    /\ script' = Tail(script)
    /\ UNCHANGED m

(* ... and returns its result: Change always returns TRUE.                    *)
Finish ==
    /\ At("finish")
    /\ c' = [Rest(c) EXCEPT !.ok = c.cmd = "change" \/ (@ /\ ~c.bad)]
    /\ UNCHANGED << m, script >>

(* Applications, other drivers and the user.                                  *)
Stranger(w) == c.others > 0 /\ m' = w /\ c' = [c EXCEPT !.others = @ - 1]

AppOpens ==
    /\ \E k \in Ports : /\ m.port[k].here /\ Runs(m.port[k].state)
                        /\ m.port[k].name # NoName /\ ~m.port[k].busy
                        /\ Stranger([m EXCEPT !.port[k].busy = TRUE])
    /\ UNCHANGED script

AppCloses ==
    /\ \E k \in Ports : m.port[k].busy /\ m' = [m EXCEPT !.port[k].busy = FALSE]
    /\ UNCHANGED << c, script >>

OtherClaims ==
    /\ \E n \in Coms : m.arb[n] = "free" /\ Stranger([m EXCEPT !.arb[n] = "other"])
    /\ UNCHANGED script

OtherReleases ==
    /\ \E n \in Coms : m.arb[n] = "other" /\ m' = [m EXCEPT !.arb[n] = "free"]
    /\ UNCHANGED << c, script >>

RebootNow ==
    /\ ~Busy /\ c.reboot
    /\ m' = Reboot(m)
    /\ c' = [c EXCEPT !.cmd = "none", !.reboot = FALSE, !.refused = FALSE]
    /\ UNCHANGED script

Steps ==
    \/ Finish \/ Reloaded
    \/ IsValidPortName \/ IsLoggedPortName \/ ComDbSync \/ SyncName \/ SaveLog
    \/ Enumerate \/ DisableEach \/ RestartEach \/ RemoveEach \/ EnableEach \/ Restore
    \/ UpdateFriendlyNames \/ FriendlyName
    \/ ChangeDevice \/ SaveChange \/ ReenumerateDeviceNode \/ UpdateRealPortName
    \/ InstallNumber \/ InstallParameters \/ SaveParameters \/ SameName
    \/ CreateDevice \/ SetPortNum \/ StartDevice \/ UpdateDriver
    \/ FindPair \/ TakeOut \/ DropStack \/ StopToReboot
    \/ DeleteSoftware \/ UninstallInf \/ UninstallAllInfFiles \/ InstallSoftware

TheEnd == ~Busy /\ script = << >> /\ UNCHANGED vars

Next ==
    \/ Steps \/ Command \/ TheEnd
    \/ AppOpens \/ AppCloses \/ OtherClaims \/ OtherReleases \/ RebootNow

(* A command that has begun takes its steps: weak fairness of Steps, which is *)
(* enabled exactly while Busy and is told from what the others do by c.       *)
Stepped  == Busy /\ c'.others = c.others /\ c' # c
Spec     == Init /\ [][Next]_vars
FairSpec == Spec /\ (<>[]Busy => []<><<Stepped>>_vars)

-----------------------------------------------------------------------------
(* Between two commands, when none of these calls has failed so far.          *)
Settled(calls) == ~Busy /\ c.hurt \cap calls = {}

(* The COM port database and the log agree: between two commands each name    *)
(* claimed for com0com is either noted in the log or the real name of one of  *)
(* its ports, never both and never neither, whichever call has failed but the *)
(* database's and the log's own (comdb.cpp, UpdateRealPortName).              *)
RealNames == {m.port[k].real : k \in Ports} \ {NoName}
LogAgrees ==
    Settled({"arbiter", "load log", "save log"}) =>
        /\ {n \in Coms : m.arb[n] = "ours"} = m.log \cup RealNames
        /\ m.log \cap RealNames = {}

(* Set-up never releases a name that another driver has claimed: ComDbSync    *)
(* and UpdateRealPortName release without asking whose the name is.           *)
NoneStolen ==
    [][c'.others = c.others => \A n \in Coms : m.arb[n] = "other" => m'.arb[n] = "other"]_vars

(* Two pairs never have the same number, although set-up and the driver each  *)
(* choose numbers by a count of their own (AllocPortNum, GetPortNum).         *)
OneNumber ==
    \A s, t \in Slots :
        s # t /\ m.bus[s].here /\ m.bus[t].here /\ m.bus[s].num >= 0 => m.bus[s].num # m.bus[t].num

(* What ran before a Reload, an Update or an Uninstall that was given up runs *)
(* behind it too: what was disabled on the way is enabled again, in whichever *)
(* device the user cancelled or tried again.                                  *)
Restored ==
    (/\ Settled({"change state"})
     /\ \/ c.cmd \in {"reload", "update"}
        \/ c.cmd = "uninstall" /\ ~c.ok /\ ~c.reboot /\ c.hurt = {})
        => \A d \in c.was : Present(m, d) /\ Runs(StateOf(m, d))

(* A port that runs has the name that its parameters and its key say, unless  *)
(* that name was taken when it started: no change is saved and not put into   *)
(* force, as long as no application holds a device.                           *)
RunsItsName ==
    Settled({"change state"}) /\ ~c.refused =>
        \A k \in Ports : m.port[k].here /\ m.port[k].state = "on" =>
            m.port[k].name \in {NameFor(m, k), NoName}

(* What "list" prints of a port, given to a new port as its parameters, makes *)
(* the same port: FillParametersStr and ParseParametersStr agree on every     *)
(* kind of value.                                                             *)
SameInForce(a, b) ==
    /\ a.name = b.name
    /\ \A x \in ToSet(Dwords) :
          IF KindOf[x] = "flag" THEN (InForce(a)[x] = 0) = (InForce(b)[x] = 0)
          ELSE InForce(a)[x] = InForce(b)[x]
ListReadsBack ==
    At("finish") /\ c.cmd = "list" => \A k \in Ports, detail \in BOOLEAN :
        LET shown == FillParametersStr(Load(m.kept[k]), PhPortName(k), detail)
            again == {Save(p, NothingKept) : p \in ParseParametersStr(Fresh, shown)}
        IN  \E a \in again : SameInForce(a, [m.kept[k] EXCEPT !.name =
                                               IF detail THEN Name(m, k) ELSE @])

(* After an Uninstall that succeeded nothing of com0com is left but, when the *)
(* user wishes, its service: no device, no phantom, no name.                  *)
NothingLeft ==
    Settled({"arbiter", "load", "load log", "save log", "delete", "inf"}) /\ c.cmd = "uninstall" /\ c.ok =>
        /\ \A s \in Slots : ~m.bus[s].here
        /\ \A k \in Ports : ~m.port[k].known
        /\ \A n \in Coms : m.arb[n] # "ours"
        /\ m.soft \subseteq {"service", "alike"}

(* Every command returns: each step, failed or not, leads on to the next.     *)
Returns == Busy ~> ~Busy
=============================================================================
