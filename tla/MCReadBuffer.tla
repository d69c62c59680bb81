---------------------------- MODULE MCReadBuffer ----------------------------
(***************************************************************************)
(* ReadBuffer for TLC: the inputs of its runs.                             *)
(***************************************************************************)
EXTENDS ReadBuffer

NoSequences == {}
OneSequence == {<<"mst", "value">>}
LongSequence == {<<"mst", "value", "value2">>}
UpTo2 == {<<"a">>, <<"b", "a">>}
UpTo3 == {<<"a">>, <<"b", "a", "b">>}
WithEscape == {<<"a">>, <<"b", "esc">>}
WithNul == {<<"nul", "a">>, <<"b", "nul", "a">>}
WithDamage == {<<"a">>, <<"bad", "a">>}
Paced == {1, Unlimited}
Unpaced == {Unlimited}
=============================================================================
