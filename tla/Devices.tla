------------------------------- MODULE Devices -------------------------------
(* The devices of com0com as the set-up library and Windows see them: bus     *)
(* devices, one for each pair, and the two port devices below each.  What the *)
(* driver does when a device is started or removed is sys/adddev.c and        *)
(* sys/pnp.c; what the set-up library asks of Windows is setup/devutils.c pp. *)
(*                                                                            *)
(* The machine m is a record: bus (by slot), port (by <<number, side>>, the   *)
(* instance id of its node), list (the driver's list of buses, in its order), *)
(* kept (the parameters in the registry), arb (the owner of each COM name:    *)
(* "free", "ours" or "other"), log (the names set-up noted as claimed by it)  *)
(* and soft (the installed software).                                         *)
EXTENDS PortParams, TLC

CONSTANTS Slots,      \* the places for bus devices, 1..n
          MaxNum,     \* port numbers are 0..MaxNum
          ComOrder    \* the arbitrated names, COM1 first

Nums  == 0..MaxNum
Sides == << "A", "B" >>
Ports == Nums \X {"A", "B"}
Coms  == ToSet(ComOrder)

PhPortName(k) == "CNC" \o k[2] \o ToString(k[1])

(* Devices: of a bus the slot, of a port the number and the side.             *)
BusDev(s)   == << "bus", s, "" >>
PortDev(k)  == << "port", k[1], k[2] >>
PortOf(d)   == << d[2], d[3] >>
IsBus(d)    == d[1] = "bus"
PortsOf(n)  == << << n, "A" >>, << n, "B" >> >>

NoBus  == [here |-> FALSE, num |-> -1, state |-> "off", fname |-> << >>]
NoPort == [known |-> FALSE, here |-> FALSE, com |-> FALSE, real |-> NoName,
           state |-> "off", name |-> NoName, busy |-> FALSE, fname |-> NoName]

(* A device is "on", "off" (disabled), "raw" (no driver yet), "failed" (it    *)
(* would not start) or runs on and waits for a restart of the system to be    *)
(* disabled ("off later"), removed ("gone later") or restarted ("on later").  *)
NeedRestart == {"off later", "gone later", "on later"}
StateOf(m, d)       == IF IsBus(d) THEN m.bus[d[2]].state ELSE m.port[PortOf(d)].state
SetState(m, d, s)   == IF IsBus(d) THEN [m EXCEPT !.bus[d[2]].state = s]
                       ELSE [m EXCEPT !.port[PortOf(d)].state = s]
NeedsRestart(m, d)  == StateOf(m, d) \in NeedRestart
IsDisabled(m, d)    == StateOf(m, d) = "off"
IsEnabled(m, d)     == StateOf(m, d) = "on"
Runs(state)         == state = "on" \/ state \in NeedRestart

-----------------------------------------------------------------------------
(* The driver: names.                                                         *)
DosNames(m) == {m.port[k].name : k \in {j \in Ports : m.port[j].name # NoName}}
               \cup {n \in Coms : m.arb[n] = "other"}

(* AddFdoPort: the name comes from the node's key when the port is in the     *)
(* Ports class, else from the parameters, else it is the port's own.  A name  *)
(* that is taken gives a port without one.                                    *)
NameFor(m, k) ==
    LET p == m.port[k]
        set == m.kept[k].name
    IN  IF p.com THEN IF p.real # NoName THEN p.real ELSE PhPortName(k)
        ELSE IF set # NoName THEN set ELSE PhPortName(k)

AddFdoPort(m, k) ==
    LET n == NameFor(m, k)
    IN  [m EXCEPT !.port[k].state = "on",
                  !.port[k].name  = IF n \in DosNames(m) THEN NoName ELSE n]

RemoveFdoPort(m, k) == [m EXCEPT !.port[k].name = NoName]

(* The Ports class installer, at the first sight of a port of its class: the  *)
(* first free COM name is claimed and written to the node's key.              *)
PortsClassInstalls(m, k) ==
    LET free == {i \in 1..Len(ComOrder) : m.arb[ComOrder[i]] = "free"}
        n    == ComOrder[CHOOSE i \in free : \A j \in free : i <= j]
    IN  IF free = {} THEN m
        ELSE [m EXCEPT !.arb[n] = "ours", !.port[k].real = n]

(* The bus tells its children (IRP_MN_QUERY_DEVICE_RELATIONS): the class of a *)
(* port without a running driver follows the registry.  A node never seen is  *)
(* installed; then it starts, unless it is disabled.                          *)
Seen(m, k) ==
    LET com == IsComClass(m.kept[k].name)
        new == [m EXCEPT !.port[k] = [@ EXCEPT !.here = TRUE, !.known = TRUE, !.com = com,
                                               !.state = IF m.port[k].known THEN @ ELSE "failed"]]
        installed == IF m.port[k].known \/ ~com THEN new ELSE PortsClassInstalls(new, k)
    IN  IF m.port[k].here THEN m
        ELSE IF installed.port[k].state = "off" THEN installed ELSE AddFdoPort(installed, k)

QueryBusRelations(m, n) == Seen(Seen(m, << n, "A" >>), << n, "B" >>)

-----------------------------------------------------------------------------
(* The driver: the list of the running buses and their numbers.               *)
NumberAt(m, i) == m.bus[m.list[i]].num

(* The next number after those before place i of the list.                    *)
NextNum(m, i) == IF i = 1 THEN 0 ELSE NumberAt(m, i - 1) + 1

ListFdoBusGetFreeNum(m) ==
    LET gaps == {i \in 1..Len(m.list) : NextNum(m, i) < NumberAt(m, i)}
    IN  NextNum(m, IF gaps = {} THEN Len(m.list) + 1
                   ELSE CHOOSE i \in gaps : \A j \in gaps : i <= j)

(* The entry goes BEHIND the first one whose number is not lower, and when    *)
(* there is none behind the head, that is to the front.                       *)
ListFdoBusInsert(m, s) ==
    LET at == {i \in 1..Len(m.list) : m.bus[s].num <= NumberAt(m, i)}
    IN  [m EXCEPT !.list = IF at = {} THEN << s >> \o @
                           ELSE InsertAt(@, 1 + CHOOSE i \in at : \A j \in at : i <= j, s)]

ListFdoBusRemove(m, s) == [m EXCEPT !.list = SelectSeq(@, LAMBDA x : x # s)]

(* GetPortNum: the number in the device's key; without one the first that the *)
(* list shows as free, and that is written to the key.                        *)
GetPortNum(m, s) ==
    IF m.bus[s].num # -1 THEN m ELSE [m EXCEPT !.bus[s].num = ListFdoBusGetFreeNum(m)]

(* AddFdoBus: two port objects are made; their names can be taken, then the   *)
(* whole bus is taken back.                                                   *)
AddFdoBus(m, s) ==
    LET n == GetPortNum(m, s)
        taken == \E t \in ToSet(m.list) : n.bus[t].num = n.bus[s].num
    IN  IF taken THEN SetState(n, BusDev(s), "failed")
        ELSE QueryBusRelations(SetState(ListFdoBusInsert(n, s), BusDev(s), "on"), n.bus[s].num)

(* RemoveFdoBus and the removal of what hangs below it.                       *)
Unseen(m, k) ==
    [RemoveFdoPort(m, k) EXCEPT !.port[k].here = FALSE,
        !.port[k].state = IF @ = "off" THEN "off" ELSE "failed"]

RemoveFdoBus(m, s) ==
    IF s \notin ToSet(m.list) THEN m
    ELSE LET n == m.bus[s].num
         IN  ListFdoBusRemove(Unseen(Unseen(m, << n, "A" >>), << n, "B" >>), s)

-----------------------------------------------------------------------------
(* What Windows does when set-up calls a class installer.  A device in use is *)
(* left as it is until the restart.                                           *)
InUse(m, d) ==
    IF IsBus(d) THEN \E k \in {<< m.bus[d[2]].num, x >> : x \in {"A", "B"}} :
                         k \in Ports /\ d[2] \in ToSet(m.list) /\ m.port[k].busy
    ELSE m.port[PortOf(d)].busy

Stop(m, d)  == IF IsBus(d) THEN RemoveFdoBus(m, d[2]) ELSE RemoveFdoPort(m, PortOf(d))
Begin(m, d) == IF IsBus(d) THEN AddFdoBus(m, d[2]) ELSE AddFdoPort(m, PortOf(d))

Disabled(m, d) == IF InUse(m, d) THEN SetState(m, d, "off later") ELSE SetState(Stop(m, d), d, "off")
Restarted(m, d) == IF IsDisabled(m, d) THEN m
                   ELSE IF InUse(m, d) THEN SetState(m, d, "on later") ELSE Begin(Stop(m, d), d)
Enabled(m, d) == IF NeedsRestart(m, d) THEN SetState(m, d, "on") ELSE Begin(m, d)

(* A removed node is forgotten with its key; the Ports class installer gives  *)
(* its name back.                                                             *)
Removed(m, d) ==
    IF InUse(m, d) THEN SetState(m, d, "gone later")
    ELSE LET t == Stop(m, d)
             real == m.port[PortOf(d)].real
         IN  IF IsBus(d) THEN [t EXCEPT !.bus[d[2]] = NoBus]
             ELSE [t EXCEPT !.port[PortOf(d)] = NoPort,
                            !.arb = IF real = NoName THEN @ ELSE [@ EXCEPT ![real] = "free"]]

ChangeState(m, d, change) ==
    CASE change = "disable" -> Disabled(m, d)
      [] change = "enable"  -> Enabled(m, d)
      [] change = "restart" -> Restarted(m, d)

(* The devices EnumDevices finds, by hardware id and in order.  Only those    *)
(* that are present, unless phantoms are asked for.                           *)
BusSeq(m)  == [i \in 1..Cardinality(Slots) |-> BusDev(i)]
PortSeq(m) == [i \in 1..2 * (MaxNum + 1) |->
                  << "port", (i - 1) \div 2, IF i % 2 = 1 THEN "A" ELSE "B" >>]

(* What of a sequence passes a test, in its order.                            *)
Selected(s, Test(_)) ==
    LET at == {i \in DOMAIN s : Test(s[i])}
    IN  [n \in 1..Cardinality(at) |-> s[CHOOSE i \in at : Cardinality({j \in at : j <= i}) = n]]

Found(m, d, id, phantoms) ==
    IF IsBus(d) THEN id \in {"bus", "all"} /\ m.bus[d[2]].here
    ELSE LET p == m.port[PortOf(d)]
         IN  /\ IF phantoms THEN p.known ELSE p.here
             /\ \/ id \in {"port", "all"}
                \/ id = "cncport" /\ ~p.com
                \/ id = "comport" /\ p.com

EnumDevices(m, id, phantoms) ==
    Selected(BusSeq(m) \o PortSeq(m), LAMBDA d : Found(m, d, id, phantoms))

(* The devices of one port.                                                   *)
EnumPort(m, k) == IF m.port[k].here THEN << PortDev(k) >> ELSE << >>

(* A restart of the system.                                                   *)
Reboot(m) ==
    LET idle == [m EXCEPT !.port = [k \in Ports |-> [m.port[k] EXCEPT !.busy = FALSE]]]
        down == FoldLeft(LAMBDA w, d : IF StateOf(w, d) = "gone later" THEN Removed(w, d)
                                       ELSE IF StateOf(w, d) = "off later" THEN Disabled(w, d)
                                       ELSE w,
                         idle, PortSeq(m) \o BusSeq(m))
        back == FoldLeft(LAMBDA w, d : IF Runs(StateOf(w, d)) THEN Stop(w, d) ELSE w,
                         down, BusSeq(m))
    IN  FoldLeft(LAMBDA w, d : IF w.bus[d[2]].here /\ Runs(StateOf(w, d)) THEN AddFdoBus(w, d[2])
                               ELSE w,
                 back, BusSeq(m))
=============================================================================
