-------------------------- MODULE ConnectionFilters --------------------------
(***************************************************************************)
(* The filters of hub4com that make connections of other signs (pin2con,   *)
(* awakseq) or give the stream another form for as long as a connection    *)
(* lasts (crypt, tag, tag-sync).  Methods as in StatusFilters.             *)
(***************************************************************************)
EXTENDS StatusFilters

-----------------------------------------------------------------------------
\* pin2con: an input is the connection.  A delayed disconnection waits for a timer.
Pin2Con(p, pin, negative, delay) ==
  [kind |-> "pin2con", port |-> p, pin |-> pin, negative |-> negative, delay |-> delay,
   connect |-> FALSE, last |-> FALSE, timer |-> FALSE]

\* InsertConnectState, with what the pin says, or at the end of the delay.
InsertConnectState(f, m, last, timeout) ==
  LET g == [f EXCEPT !.last = last]
      told == [f |-> [g EXCEPT !.connect = last, !.timer = @ /\ ~timeout], out |-> <<m, Connect(last)>>]
  IN  CASE f.connect = last -> [f |-> [g EXCEPT !.timer = FALSE], out |-> <<m>>]
        [] ~last /\ f.delay /\ ~timeout -> [f |-> [g EXCEPT !.timer = TRUE], out |-> <<m>>]
        [] OTHER -> told

PinSays(f, high) == high # f.negative

\* faulty: the port's own connection passes too.
Pin2ConInPasses(f, env, m) ==
  LET become(r) == Result(r.f, env, r.out)
  IN  CASE m.type = "GET_IN_OPTS" /\ m.set = 1 -> Pass(f, Request(env, m.to, {f.pin} \cap m.val), m)
        [] m.type = "TICK" /\ m.to = <<"pin2con", f.port>> ->
             IF f.timer THEN become(InsertConnectState(f, Empty, f.last, TRUE))
             ELSE Result(f, env, <<Empty>>)
        [] m.type = "MODEM_STATUS" /\ f.pin \in m.mask \cap ModemPins ->
             become(InsertConnectState(f, m, PinSays(f, f.pin \in m.val), FALSE))
        [] OTHER -> Pass(f, env, m)
Pin2ConIn(f, env, m) ==
  LET become(r) == Result(r.f, env, r.out)
  IN  CASE m.type = "GET_IN_OPTS" /\ m.set = 1 -> Pass(f, Request(env, m.to, {f.pin} \cap m.val), m)
        [] m.type = "FAIL_IN_OPTS" /\ m.set = 1 ->
             Pass(f, Warn(env, <<"pin2con", f.port>>, m.val \cap {f.pin}), m)
        [] m.type = "CONNECT" -> Result(f, env, <<Empty>>)
        [] m.type = "TICK" /\ m.to = <<"pin2con", f.port>> ->
             IF f.timer THEN become(InsertConnectState(f, Empty, f.last, TRUE))
             ELSE Result(f, env, <<Empty>>)
        [] m.type = "MODEM_STATUS" /\ f.pin \in m.mask \cap ModemPins ->
             become(InsertConnectState(f, m, PinSays(f, f.pin \in m.val), FALSE))
        [] m.type = "BREAK_STATUS" /\ f.pin = "BREAK" ->
             become(InsertConnectState(f, m, PinSays(f, m.val # {}), FALSE))
        [] OTHER -> Pass(f, env, m)

-----------------------------------------------------------------------------
\* awakseq: nothing passes before the awakening sequence, which is the connection.
AwakSeq(p, seq) ==
  [kind |-> "awakseq", port |-> p, seq |-> seq, wait |-> TRUE, matched |-> 0,
   connectSent |-> FALSE, connections |-> 0]

StartAwakSeq(f) == [f EXCEPT !.wait = TRUE, !.matched = 0]

\* How far the sequence is matched, and what follows it.  A character that does not
\* fit starts the match over; it is not itself tried as the first one.
Awaken(a, ch) ==
  CASE a.matched = Len(a.seq) -> [a EXCEPT !.rest = Append(@, ch)]
    [] a.matched < Len(a.seq) /\ a.seq[a.matched + 1] = ch -> [a EXCEPT !.matched = @ + 1]
    [] OTHER -> [a EXCEPT !.matched = 0]

AwakSeqIn(f, env, m) ==
  LET a == FoldLeft(Awaken, [seq |-> f.seq, matched |-> f.matched, rest |-> <<>>], m.data)
  IN  CASE m.type = "LINE_DATA" /\ m.data # <<>> /\ f.wait ->
             IF a.matched = Len(f.seq)
             THEN Result([f EXCEPT !.wait = FALSE, !.connectSent = TRUE], env,
                         IF a.rest = <<>> THEN <<Connect(TRUE)>> ELSE <<Connect(TRUE), LineData(a.rest)>>)
             ELSE Result([f EXCEPT !.matched = a.matched], env, <<LineData(<<>>)>>)
        [] m.type = "CONNECT" /\ IsOn(m) -> Result(f, env, <<Empty>>)
        [] m.type = "CONNECT" /\ ~IsOn(m) ->
             Result(StartAwakSeq([f EXCEPT !.connectSent = FALSE]), env,
                    IF f.connectSent THEN <<m>> ELSE <<Empty>>)
        [] OTHER -> Pass(f, env, m)

\* When the last port that was connected to this one leaves, the sequence is due again.
AwakSeqOut(f, env, m) ==
  LET n == IF IsOn(m) THEN f.connections + 1 ELSE f.connections - 1
      g == [f EXCEPT !.connections = n]
  IN  IF m.type # "CONNECT" THEN Pass(f, env, m)
      ELSE Pass(IF ~IsOn(m) /\ n <= 0 THEN StartAwakSeq(g) ELSE g, env, m)

-----------------------------------------------------------------------------
\* crypt: a stream cipher, keyed anew for each connection.  A byte is added to, or
\* taken from, the byte of the key stream at its position; the key stream has four.
\* Left out: CryptDeriveKey failing (State::Open), which leaves the filter closed, so that
\* the data of that connection are refused.
KeyStream == <<"k0", "k1", "k2", "k3">>
Crypt(p) == [kind |-> "crypt", port |-> p, open |-> FALSE, in |-> 0, out |-> 0]

Ciphered(s, pos) ==
  [i \in DOMAIN s |-> LET k == {KeyStream[((pos + i - 1) % Len(KeyStream)) + 1]}
                      IN  (s[i] \ k) \cup (k \ s[i])]
Advanced(pos, s) == (pos + Len(s)) % Len(KeyStream)

\* Without keys the data are refused.
Refuse(f, env, m) == [Pass(f, env, m) EXCEPT !.ok = FALSE]

CryptIn(f, env, m) ==
  CASE m.type = "LINE_DATA" /\ m.data # <<>> ->
         IF ~f.open THEN Refuse(f, env, m)
         ELSE Result([f EXCEPT !.in = Advanced(@, m.data)], env, <<LineData(Ciphered(m.data, f.in))>>)
    [] m.type = "CONNECT" ->
         Pass(IF IsOn(m) THEN [f EXCEPT !.open = TRUE, !.in = 0, !.out = 0] ELSE [f EXCEPT !.open = FALSE], env, m)
    [] OTHER -> Pass(f, env, m)

CryptOut(f, env, m) ==
  CASE m.type = "LINE_DATA" /\ m.data # <<>> ->
         IF ~f.open THEN Refuse(f, env, m)
         ELSE Result([f EXCEPT !.out = Advanced(@, m.data)], env, <<LineData(Ciphered(m.data, f.out))>>)
    [] OTHER -> Pass(f, env, m)

-----------------------------------------------------------------------------
\* The channel filters find the values among the tags by place: val is what the filter
\* expects first, a tag and its value alternate, and behind a byte of restarts comes a tag.
IsVal(d, val, restarts, k) ==
  LET ends == {j \in 1 .. k - 1 : d[j] \in restarts}
  IN  IF ends = {} THEN val = (k % 2 = 1) ELSE (k - Max(ends)) % 2 = 0
\* The bytes at the places that ok allows.
Chosen(d, ok(_)) == LET at == SelectSeq([k \in DOMAIN d |-> k], ok) IN [n \in DOMAIN at |-> d[at[n]]]
\* Each byte with what is put in front of it; {} is no byte.
WithBefore(d, before(_)) ==
  SelectSeq([k \in 1 .. 2 * Len(d) |-> IF k % 2 = 1 THEN before((k + 1) \div 2) ELSE d[k \div 2]], LAMBDA ch : ch # {})

\* tag: each byte goes behind the tag of its channel; the other tags' bytes are dropped.
Tag(p, tag) == [kind |-> "tag", port |-> p, tag |-> tag, isVal |-> FALSE, mine |-> FALSE]

TagIn(f, env, m) ==
  IF m.type # "LINE_DATA" THEN Pass(f, env, m)
  ELSE Result(f, env, <<LineData(WithBefore(m.data, LAMBDA k : f.tag))>>)

Mine(f, d, k) == IF k = 1 THEN f.mine ELSE d[k - 1] = f.tag
TagOut(f, env, m) ==
  LET value(k) == IsVal(m.data, f.isVal, {}, k)
      n == Len(m.data)
      mine == IF value(n) THEN Mine(f, m.data, n) ELSE Mine(f, m.data, n + 1)
  IN  IF m.type # "LINE_DATA" \/ m.data = <<>> THEN Pass(f, env, m)
      ELSE Result([f EXCEPT !.isVal = value(n + 1), !.mine = mine], env,
                  <<LineData(Chosen(m.data, LAMBDA k : value(k) /\ Mine(f, m.data, k)))>>)

-----------------------------------------------------------------------------
\* tag-sync: a sync byte in place of a tag, every so many tags, puts a receiver that
\* took a value for a tag right again.
TagSync(p, sync, period) ==
  [kind |-> "tag-sync", port |-> p, sync |-> sync, period |-> period,
   isValIn |-> FALSE, isValOut |-> FALSE, left |-> 1]

TagSyncIn(f, env, m) ==
  LET value(k) == IsVal(m.data, f.isValIn, {f.sync}, k)
  IN  IF m.type # "LINE_DATA" \/ m.data = <<>> THEN Pass(f, env, m)
      ELSE Result([f EXCEPT !.isValIn = value(Len(m.data) + 1)], env,
                  <<LineData(Chosen(m.data, LAMBDA k : value(k) \/ m.data[k] # f.sync))>>)

\* How many tags are left until the next sync byte goes in front of one, after n more tags.
LeftAfter(f, n) ==
  CASE n < f.left \/ f.left = 0 -> Max({f.left - n, 0})
    [] f.period = 0 -> 0
    [] OTHER -> f.period - ((n - f.left) % f.period)
TagSyncOut(f, env, m) ==
  LET value(k) == IsVal(m.data, f.isValOut, {}, k)
      tags(k) == (k + IF f.isValOut THEN 0 ELSE 1) \div 2 \* among the first k bytes
      synced(k) == ~value(k) /\ LeftAfter(f, tags(k - 1)) = 1
  IN  IF m.type # "LINE_DATA" \/ m.data = <<>> THEN Pass(f, env, m)
      ELSE Result([f EXCEPT !.isValOut = value(Len(m.data) + 1), !.left = LeftAfter(f, tags(Len(m.data)))], env,
                  <<LineData(WithBefore(m.data, LAMBDA k : IF synced(k) THEN f.sync ELSE {}))>>)
=============================================================================
