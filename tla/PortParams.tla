----------------------------- MODULE PortParams -----------------------------
(* The parameters of one port as the set-up library handles them: class      *)
(* PortParameters of setup/params.cpp.  A parameter is a bit of two masks:    *)
(* explicit (it has a value of its own, else the driver's default holds) and  *)
(* changed (it has to be written).  The registry keeps a name ("" when there  *)
(* is none) and the DWORDs (Absent when there is none).                       *)
(*                                                                            *)
(* A setting of a parameters string is [key, val]; a value is a word, or the  *)
(* digits behind "0." or of a plain number.  Operators that parse return the  *)
(* set of their results: empty when the text is refused.                      *)
EXTENDS Integers, FiniteSets, Sequences, SequencesExt

CONSTANTS Dwords,          \* the DWORD parameters: a sequence, in the order of bits[]
          KindOf,          \* their kinds: "flag", "pin", "probability" or "unsigned"
          ProbabilityOne,  \* C0C_PROBABILITY_ONE, a power of ten
          DwordBits        \* the width of a DWORD

NoName   == ""
ComClass == "COM#"
Absent   == -1
Keys     == {"PortName", "RealPortName"} \cup ToSet(Dwords)

Word(w)         == [word |-> w, digits |-> << >>]
Digits(w, ds)   == [word |-> w, digits |-> ds]
Setting(key, v) == [key |-> key, val |-> v]

(* The wires a pin can be tied to, and "on"; a negated pin is the same word   *)
(* with "!" before it.                                                        *)
Pins     == << "rrts", "lrts", "rdtr", "ldtr", "rout1", "lout1", "rout2", "lout2",
               "ropen", "lopen", "on" >>
Negated  == Len(Pins)
PinWord(v) == IF v > Negated THEN "!" \o Pins[v - Negated] ELSE Pins[v]
Ones     == 2 ^ DwordBits - 1

DefaultOf(key) ==
    IF KindOf[key] # "pin" THEN 0
    ELSE CASE key = "cts" -> 1                    \* rrts
           [] key \in {"dsr", "dcd"} -> 3         \* rdtr
           [] key = "ri" -> Negated + Len(Pins)   \* !on

-----------------------------------------------------------------------------
NumberOf(ds) == FoldLeft(LAMBDA v, d : (v * 10 + d) % 2 ^ DwordBits, 0, ds)

Places == CHOOSE n \in 0..9 : 10 ^ n = ProbabilityOne

(* SetProbability: as many digits as C0C_PROBABILITY_ONE has places, short    *)
(* ones filled with zeros, more only when they are zeros.                     *)
Probability(ds) ==
    IF \E i \in Places + 1..Len(ds) : ds[i] # 0 THEN {}
    ELSE {NumberOf([i \in 1..Places |-> IF i <= Len(ds) THEN ds[i] ELSE 0])}

(* What a value stands for: SetFlag, SetPin, SetProbability, SetUnsigned.     *)
ValuesOf(kind, v) ==
    CASE kind = "flag"        -> IF v.word = "yes" THEN {Ones}
                                 ELSE IF v.word = "no" THEN {0} ELSE {}
      [] kind = "pin"         -> {p \in 1..2 * Negated : PinWord(p) = v.word}
      [] kind = "probability" -> IF v.word = "0." THEN Probability(v.digits)
                                 ELSE IF v.word = "0" THEN {0} ELSE {}
      [] kind = "unsigned"    -> IF v.word = "" THEN {NumberOf(v.digits)} ELSE {}

-----------------------------------------------------------------------------
(* The constructor and Init.                                                  *)
Fresh == [name |-> NoName, real |-> NoName, dw |-> [k \in ToSet(Dwords) |-> 0],
          explicit |-> {}, changed |-> {}]

SetPortName(p, n) ==
    IF p.name = n THEN p ELSE [p EXCEPT !.name = n, !.changed = @ \cup {"PortName"}]

SetRealPortName(p, n) ==
    IF p.real = n THEN p ELSE [p EXCEPT !.real = n, !.changed = @ \cup {"RealPortName"}]

(* The real port name is what the device's key says; "" forgets the one that  *)
(* the parameters string asked for.                                           *)
InitRealPortName(p, n) ==
    IF n = NoName
    THEN [p EXCEPT !.explicit = @ \ {"RealPortName"}, !.changed = @ \ {"RealPortName"}]
    ELSE [p EXCEPT !.real = n, !.changed = @ \ {"RealPortName"},
                   !.explicit = @ \cup {"RealPortName"}]

SetDword(p, key, v) ==
    IF p.dw[key] = v THEN p ELSE [p EXCEPT !.dw[key] = v, !.changed = @ \cup {key}]

(* SetBit: "*" keeps, "-" goes back to the default, anything else is a value; *)
(* a value that changes nothing does not become explicit.                     *)
SetValue(p, key, v) ==
    CASE key = "PortName"     -> {SetPortName(p, v.word)}
      [] key = "RealPortName" -> {SetRealPortName(p, v.word)}
      [] OTHER                -> {SetDword(p, key, x) : x \in ValuesOf(KindOf[key], v)}

SetBit(p, key, v) ==
    CASE v.word = "*" -> {p}
      [] v.word = "-" -> {IF key \in p.explicit
                          THEN [p EXCEPT !.explicit = @ \ {key}, !.changed = @ \cup {key}]
                          ELSE p}
      [] OTHER        -> {[q EXCEPT !.explicit = @ \cup (q.changed \cap {key})] :
                             q \in SetValue(p, key, v)}

(* ParseParametersStr: all of the settings or none.  "-" and "*" alone stand  *)
(* for every parameter.                                                       *)
EveryKey(w) == [i \in 1..Len(Dwords) + 2 |->
                   Setting((<< "PortName", "RealPortName" >> \o Dwords)[i], Word(w))]

ParseParametersStr(p, settings) ==
    FoldLeft(LAMBDA ps, s : UNION {IF s.key \in Keys THEN SetBit(q, s.key, s.val) ELSE {} :
                                      q \in ps},
             {p}, settings)

-----------------------------------------------------------------------------
NothingKept == [name |-> NoName, dw |-> [k \in ToSet(Dwords) |-> Absent]]

(* Load: what the registry has is explicit.                                   *)
Load(kept) ==
    [Fresh EXCEPT !.name     = kept.name,
                  !.dw       = [k \in DOMAIN kept.dw |->
                                   IF kept.dw[k] = Absent THEN 0 ELSE kept.dw[k]],
                  !.explicit = {k \in DOMAIN kept.dw : kept.dw[k] # Absent} \cup
                               (IF kept.name = NoName THEN {} ELSE {"PortName"})]

Changed(p) == p.changed # {}

(* Save, when every write succeeds.                                           *)
SaveSome(p, kept, keys) ==
    [name |-> IF "PortName" \notin p.changed \cap keys THEN kept.name
              ELSE IF "PortName" \in p.explicit THEN p.name ELSE NoName,
     dw   |-> [k \in DOMAIN kept.dw |->
                  IF k \notin p.changed \cap keys THEN kept.dw[k]
                  ELSE IF k \in p.explicit THEN p.dw[k] ELSE Absent]]

Save(p, kept) == SaveSome(p, kept, Keys)

(* Save, when a write fails: a failure to write the name is told; the loop    *)
(* over the DWORDs gives up at a failure and forgets to tell.                 *)
SaveFails(p, kept) ==
    (IF "PortName" \in p.changed THEN {[told |-> TRUE, kept |-> kept]} ELSE {})
    \cup {[told |-> FALSE,
           kept |-> SaveSome(p, kept, {"PortName"} \cup {Dwords[j] : j \in 1..i - 1})] :
             i \in {j \in 1..Len(Dwords) : Dwords[j] \in p.changed}}

-----------------------------------------------------------------------------
FillPortName(p, ph)  == IF "PortName" \in p.explicit THEN p.name ELSE ph
FillRealPortName(p)  == IF "RealPortName" \in p.explicit THEN p.real ELSE NoName
IsComClass(name)     == name = ComClass

(* The digits of v, and those behind the point without the zeros at the end.  *)
DigitAt(v, i)    == (v \div 10 ^ i) % 10
PlainDigits(v)   == LET n == CHOOSE i \in 1..10 : v < 10 ^ i /\ (i = 1 \/ v >= 10 ^ (i - 1))
                    IN  [i \in 1..n |-> DigitAt(v, n - i)]

PointDigits(v)   == LET shown == {i \in 1..Places : \E j \in i..Places : DigitAt(v, Places - j) # 0}
                    IN  [i \in 1..Cardinality(shown) |-> DigitAt(v, Places - i)]

ShownValue(kind, v) ==
    CASE kind = "flag"        -> Word(IF v = 0 THEN "no" ELSE "yes")
      [] kind = "pin"         -> Word(PinWord(v))
      [] kind = "probability" -> IF v = 0 THEN Word("0") ELSE Digits("0.", PointDigits(v))
      [] kind = "unsigned"    -> Digits("", PlainDigits(v))

(* FillParametersStr: what "list" shows of a port, and in detail the defaults *)
(* too.                                                                       *)
FillParametersStr(p, ph, detail) ==
    LET named == << Setting("PortName", Word(IF "PortName" \in p.explicit THEN p.name
                                             ELSE IF detail THEN ph ELSE "-")) >>
        real  == IF "RealPortName" \in p.explicit
                 THEN << Setting("RealPortName", Word(p.real)) >> ELSE << >>
        shown == SelectSeq(Dwords, LAMBDA k : k \in p.explicit \/ detail)
    IN  named \o real \o [i \in 1..Len(shown) |->
            Setting(shown[i], ShownValue(KindOf[shown[i]],
                IF shown[i] \in p.explicit THEN p.dw[shown[i]] ELSE DefaultOf(shown[i])))]

(* What the driver makes of the registry: its defaults where there is none.   *)
InForce(kept) == [k \in DOMAIN kept.dw |->
                     IF kept.dw[k] = Absent THEN DefaultOf(k) ELSE kept.dw[k]]
=============================================================================
