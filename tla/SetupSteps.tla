----------------------------- MODULE SetupSteps -----------------------------
(* The state of the set-up library and the steps its commands share: dialogs  *)
(* (setup/msg.cpp), the COM port database (comdb.cpp) and the loops that      *)
(* disable, enable, restart and remove devices (devutils.cpp).  The commands  *)
(* are in module Setup.                                                       *)
(*                                                                            *)
(* A command is a sequence of steps (c.todo).  A step that fails drops those  *)
(* behind it up to the next one that is run in any case (a "goto err", or the *)
(* code after a loop).  The user answers a dialog in every way it offers; a   *)
(* silent set-up gets no answer.  Each call of Windows can fail as long as    *)
(* faults are left, and "Try Again" is chosen as often as there is patience.  *)
EXTENDS Devices

CONSTANTS FaultKinds,  \* the calls that can fail
          MaxFaults,   \* how many of them do
          Patience,    \* how often "Try Again" is chosen
          Strangers    \* how often an application or another driver acts

VARIABLES m,        \* the machine
          c,        \* the set-up program
          script    \* the commands still to be given

vars == << m, c, script >>

(* The installed software: the inf files of infFileInstallList (by hardware   *)
(* id), the class, the service, its event log and its files, and inf files of *)
(* an older version ("older") or of another driver that look alike.           *)
Infs       == << "bus", "cncport", "comport" >>
SoftOf(id) == {id} \cup IF id = "bus" THEN {"class", "service", "eventlog", "files"} ELSE {}

Step0 == [op |-> "", id |-> "", dev |-> << >>, port |-> << 0, "A" >>, name |-> NoName, flag |-> FALSE,
          devs |-> << >>, at |-> 0, names |-> {}, A |-> << >>, params |-> Fresh,
          B |-> << >>]
S(op)  == [Step0 EXCEPT !.op = op]

(* What the program knows: the command, whether it is silent and leaves out   *)
(* the drivers, its result so far, whether a step has failed, whether the     *)
(* system must be restarted, the number and the names of the pair it          *)
(* installs, its stack of disabled devices and the copy of the log.  The      *)
(* rest is for the properties: the calls that have failed, whether an         *)
(* application has kept a device, and the devices that ran at the start.      *)
Idle0 == [todo |-> << >>, cmd |-> "none", silent |-> FALSE, noUpdate |-> FALSE,
          ok |-> TRUE, bad |-> FALSE, reboot |-> FALSE, changed |-> FALSE, num |-> -1,
          names |-> << >>, stack |-> << >>, log |-> {}, faults |-> MaxFaults,
          patience |-> Patience, others |-> Strangers, hurt |-> {}, refused |-> FALSE,
          was |-> {}]

Now       == Head(c.todo)
Busy      == c.todo # << >>
At(op)    == Busy /\ Now.op = op
Rest(d)   == [d EXCEPT !.todo = Tail(@)]
Then(d, steps) == [d EXCEPT !.todo = steps \o Tail(@)]

(* Steps that run although one before them has failed.                        *)
Always == {"restore", "change", "sync if changed", "sync always", "reloaded", "finish"}
Fail(d) ==
    LET left == Tail(d.todo)
        stop == {i \in 1..Len(left) : left[i].op \in Always}
    IN  [d EXCEPT !.bad = TRUE,
                  !.todo = IF stop = {} THEN << >>
                           ELSE SubSeq(left, CHOOSE i \in stop : \A j \in stop : i <= j, Len(left))]

-----------------------------------------------------------------------------
(* Dialogs (msg.cpp) and calls that can fail.                                 *)
CancelTryContinue == {"cancel", "try again", "continue"}
RetryCancel       == {"cancel", "try again"}
OkCancel          == {"ok", "cancel"}
JustOk            == {"ok"}

Dialog(d, replies) ==
    IF d.silent THEN {[reply |-> "none", c |-> d]}
    ELSE {[reply |-> r, c |-> IF r = "try again" THEN [d EXCEPT !.patience = @ - 1] ELSE d] :
             r \in {x \in replies : x = "try again" => d.patience > 0}}

(* A call in a loop that repeats it on "Try Again": done, given up with       *)
(* "Continue" (skipped), or cancelled.                                        *)
Call(d, what, replies) ==
    {[how |-> "done", c |-> d]} \cup
    IF d.faults = 0 \/ what \notin FaultKinds THEN {}
    ELSE {[how |-> CASE a.reply = "continue" -> "skipped"
                     [] a.reply = "try again" -> "done"
                     [] OTHER -> "cancelled",
           c   |-> a.c] : a \in Dialog([d EXCEPT !.faults = @ - 1, !.hurt = @ \cup {what}], replies)}

Done(r) == r.how = "done"
Retried(d, r) == r.c.patience < d.patience

-----------------------------------------------------------------------------
(* The COM port database (comdb.cpp).                                         *)
ClaimPort(w, n) == [w EXCEPT !.arb[n] = "ours"]
ReleasePort(w, n) == [w EXCEPT !.arb[n] = "free"]

(* ClaimReleasePort: a name that is no COM<n> is refused; one that somebody   *)
(* has claimed cannot be claimed again, but a release does not ask whose it   *)
(* is.                                                                        *)
\* faulty: a claim is forced (ForceClaim of ComDBClaimPort).
ForceClaimReleasePort(w, d, n, claim) ==
    IF n \notin Coms THEN {[ok |-> FALSE, m |-> w, c |-> d]}
    ELSE {IF ~Done(r) THEN [ok |-> FALSE, m |-> w, c |-> r.c]
          ELSE [ok |-> TRUE, m |-> IF claim THEN ClaimPort(w, n) ELSE ReleasePort(w, n), c |-> r.c] :
              r \in Call(d, "arbiter", RetryCancel)}

ClaimReleasePort(w, d, n, claim) ==
    IF n \notin Coms THEN {[ok |-> FALSE, m |-> w, c |-> d]}
    ELSE {IF ~Done(r) \/ (claim /\ w.arb[n] # "free") THEN [ok |-> FALSE, m |-> w, c |-> r.c]
          ELSE [ok |-> TRUE, m |-> IF claim THEN ClaimPort(w, n) ELSE ReleasePort(w, n), c |-> r.c] :
              r \in Call(d, "arbiter", RetryCancel)}

(* LoadComNames: the names of all ports whose bus is present.                 *)
LoadComNames(w) ==
    {n \in Coms : \E s \in Slots : /\ w.bus[s].here /\ w.bus[s].num >= 0
                                   /\ \E k \in ToSet(PortsOf(w.bus[s].num)) : w.kept[k].name = n}

(* ComDbGetInUse.                                                             *)
ComDbGetInUse(w, n) == n \in Coms /\ w.arb[n] # "free"

(* LoadComDbLocal: when the user says "Continue" the log is empty.         *)
LoadComDbLocal(w, d) ==
    {[ok |-> r.how # "cancelled", c |-> [r.c EXCEPT !.log = IF Done(r) THEN w.log ELSE {}]] :
        r \in Call(d, "load log", CancelTryContinue)}

(* ComDbSync: the names noted in the registry are made those of the ports,    *)
(* from COM1 on; each one claimed or released is noted at once.               *)
ComDbSync ==
    /\ Busy /\ Now.op \in {"sync", "sync if changed", "sync always"}
    /\ IF (Now.op = "sync" /\ c.bad) \/ (Now.op = "sync if changed" /\ ~c.changed)
       THEN c' = Rest(c)
       ELSE \E r \in Call(c, "load", JustOk) :
               IF ~Done(r) THEN c' = Rest(r.c)
               ELSE \E x \in LoadComDbLocal(m, r.c) :
                       c' = IF x.ok
                            THEN Then(x.c, << [S("sync name") EXCEPT !.at = 1,
                                                                    !.names = LoadComNames(m)] >>)
                            ELSE Rest(x.c)
    /\ UNCHANGED << m, script >>

(* The next name, from place i on, whose claim does not fit.                  *)
Misfits(i, names, log) == {j \in i..Len(ComOrder) : (ComOrder[j] \in names) # (ComOrder[j] \in log)}

SyncName ==
    /\ At("sync name")
    /\ LET todo == Misfits(Now.at, Now.names, c.log)
       IN  IF todo = {} THEN c' = Rest(c) /\ UNCHANGED m
           ELSE LET j == CHOOSE i \in todo : \A k \in todo : i <= k
                    n == ComOrder[j]
                    more == [Now EXCEPT !.at = j + 1]
                IN  \E r \in ClaimReleasePort(m, c, n, n \in Now.names) :
                       /\ m' = r.m
                       /\ c' = IF ~r.ok THEN Then(r.c, << more >>)
                               ELSE [Then(r.c, << S("save log"), more >>)
                                        EXCEPT !.log = IF n \in Now.names THEN @ \cup {n} ELSE @ \ {n}]
    /\ UNCHANGED script

(* SaveComDbLocal; its result is not looked at.                               *)
SaveLog ==
    /\ At("save log")
    /\ \E r \in Call(c, "save log", CancelTryContinue) :
          /\ m' = IF Done(r) THEN [m EXCEPT !.log = c.log] ELSE m
          /\ c' = Rest(r.c)
    /\ UNCHANGED script

-----------------------------------------------------------------------------
(* Disabling, enabling, restarting and removing devices (devutils.cpp).       *)
Outcome(w, d, r) == [m |-> w, c |-> d, reply |-> r]
\* faulty: the stack keeps the last device only.
PushedAlone(d, dev, push) == IF push THEN [d EXCEPT !.stack = << dev >>] ELSE d

Pushed(d, dev, push) == IF push THEN [d EXCEPT !.stack = << dev >> \o @] ELSE d

(* A device that cannot be stopped is asked about; unless the user goes on it *)
(* is enabled again.                                                          *)
AskStopped(w, d, dev, push) ==
    UNION {CASE a.reply \in {"continue", "none"} ->
                    {Outcome(w, Pushed([a.c EXCEPT !.reboot = TRUE], dev, push), "continue")}
             [] OTHER ->
                    {Outcome(IF Done(r) THEN ChangeState(w, dev, "enable") ELSE w, r.c,
                             IF Done(r) THEN a.reply ELSE "cancel") :
                        r \in Call(a.c, "change state", JustOk)} :
             a \in Dialog([d EXCEPT !.refused = TRUE], CancelTryContinue)}

DisableDevice(w, d, dev, push) ==
    IF IsDisabled(w, dev) THEN {Outcome(w, d, "continue")}
    ELSE LET after == ChangeState(w, dev, "disable")
         IN  UNION {IF ~Done(r) THEN {Outcome(w, r.c, "cancel")}
                    ELSE IF NeedsRestart(after, dev) /\ ~NeedsRestart(w, dev)
                    THEN AskStopped(after, r.c, dev, push)
                    ELSE {Outcome(after, Pushed(r.c, dev, push), "continue")} :
                      r \in Call(d, "change state", JustOk)}

(* RestartDevice asks only while no restart of the system is due already.     *)
RestartDevice(w, d, dev) ==
    LET after == ChangeState(w, dev, "restart")
    IN  UNION {IF ~Done(r) THEN {Outcome(w, r.c, "cancel")}
               ELSE IF NeedsRestart(after, dev) /\ ~r.c.reboot
               THEN AskStopped(after, r.c, dev, FALSE)
               ELSE {Outcome(after, r.c, "continue")} :
                 r \in Call(d, "change state", JustOk)}

RemoveDevice(w, d, dev) ==
    LET after == Removed(w, dev)
    IN  {IF Done(r)
         THEN Outcome(after, [r.c EXCEPT !.reboot = @ \/ NeedsRestart(after, dev)], "continue")
         ELSE Outcome(w, r.c, "cancel") : r \in Call(d, "remove", JustOk)}

(* A loop over the devices found: "Try Again" looks for them anew.  The       *)
(* result of the loop ends the command unless it is not looked at (flag).     *)
\* faulty: the loop goes on until the reply is "Continue".
LoopedUntilContinue(d, again) ==
    IF d.reply = "continue" THEN [Rest(d.c) EXCEPT !.todo = << [Now EXCEPT !.devs = Tail(@)] >> \o @]
    ELSE Then(d.c, << again >>)

Looped(d, again) ==
    CASE d.reply = "continue"  -> [Rest(d.c) EXCEPT !.todo =
                                      << [Now EXCEPT !.devs = Tail(@)] >> \o @]
      [] d.reply = "try again" -> Then(d.c, << again >>)
      [] OTHER                 -> IF Now.flag THEN Rest(d.c) ELSE Fail(d.c)

DisableAll(id, push)    == [S("disable") EXCEPT !.id = id, !.at = IF push THEN 1 ELSE 0]
OfPort(op, k)           == [S(op) EXCEPT !.id = "one", !.port = k, !.flag = TRUE]
\* faulty: only what is present is removed.
FoundPresent ==
    CASE Now.id = "one"     -> EnumPort(m, Now.port)
      [] Now.id = "located" -> EnumPort(m, Now.port)
      [] OTHER              -> EnumDevices(m, Now.id, FALSE)

FoundNow ==
    CASE Now.id = "one"     -> EnumPort(m, Now.port)
      [] Now.id = "located" -> IF m.port[Now.port].known THEN << PortDev(Now.port) >> ELSE << >>
      [] OTHER              -> EnumDevices(m, Now.id, Now.op = "remove")

Enumerate ==
    /\ Busy /\ Now.op \in {"disable", "restart", "remove"}
    /\ c' = Then(c, << [Now EXCEPT !.devs = FoundNow,
                                   !.op = CASE @ = "disable" -> "disable each"
                                            [] @ = "restart" -> "restart each"
                                            [] OTHER -> "remove each"] >>)
    /\ UNCHANGED << m, script >>

Again == [Now EXCEPT !.op = CASE @ = "disable each" -> "disable" [] @ = "restart each" -> "restart"
                              [] OTHER -> "remove"]

DisableEach ==
    /\ At("disable each")
    /\ IF Now.devs = << >> THEN c' = Rest(c) /\ UNCHANGED m
       ELSE \E o \in DisableDevice(m, c, Head(Now.devs), Now.at = 1) :
               m' = o.m /\ c' = Looped(o, Again)
    /\ UNCHANGED script

RestartEach ==
    /\ At("restart each")
    /\ IF Now.devs = << >> THEN c' = Rest(c) /\ UNCHANGED m
       ELSE \E o \in RestartDevice(m, c, Head(Now.devs)) : m' = o.m /\ c' = Looped(o, Again)
    /\ UNCHANGED script

RemoveEach ==
    /\ At("remove each")
    /\ IF Now.devs = << >> THEN c' = Rest(c) /\ UNCHANGED m
       ELSE \E o \in RemoveDevice(m, c, Head(Now.devs)) : m' = o.m /\ c' = Looped(o, Again)
    /\ UNCHANGED script

(* EnableDevice: a failure is shown and passed over.                          *)
EnableDevice(w, d, dev) ==
    IF IsEnabled(w, dev) THEN {Outcome(w, d, "continue")}
    ELSE {Outcome(IF Done(r) THEN ChangeState(w, dev, "enable") ELSE w, r.c, "continue") :
             r \in Call(d, "change state", JustOk)}

Present(w, dev) == IF IsBus(dev) THEN w.bus[dev[2]].here ELSE w.port[PortOf(dev)].here

EnableEach ==
    /\ At("enable")
    /\ LET off == Selected(EnumDevices(m, "bus", FALSE), LAMBDA d : ~IsEnabled(m, d))
       IN  IF off = << >> \/ Now.at = Cardinality(Slots) THEN c' = Rest(c) /\ UNCHANGED m
           ELSE \E o \in EnableDevice(m, c, Head(off)) :
                   m' = o.m /\ c' = Then(o.c, << [Now EXCEPT !.at = @ + 1] >>)
    /\ UNCHANGED script

(* CleanDevPropertiesStack(stack, TRUE): what was disabled is enabled again,  *)
(* the last one first.  Where the command gives up behind it (flag), it does. *)
Restore ==
    /\ At("restore")
    /\ IF c.stack = << >>
       THEN c' = (IF Now.flag /\ c.bad THEN Fail(c) ELSE Rest(c)) /\ UNCHANGED m
       ELSE LET d == [c EXCEPT !.stack = Tail(@)]
            IN  IF ~Present(m, Head(c.stack)) THEN c' = d /\ UNCHANGED m
                ELSE \E o \in EnableDevice(m, d, Head(c.stack)) : m' = o.m /\ c' = o.c
    /\ UNCHANGED script
=============================================================================
