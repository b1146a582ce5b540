---------------------------- MODULE MCDisplayHint ----------------------------
(* Instances of DisplayHint for TLC: hints of up to two specifications with    *)
(* every combination of repeat indicator, octet count (none, some, more than   *)
(* there is, too many for an int), format and marks; malformed ones; values of *)
(* up to three bytes.                                                          *)
EXTENDS DisplayHintReference

Counts == {<<"0">>, <<"1">>, <<"2">>, <<"1", "5">>, <<"3", "4">>}
Spelled(star, fmt, octets, marks) == [star |-> star, octets |-> octets, fmt |-> fmt, marks |-> marks]
MCSpecs ==
  {Spelled(FALSE, f, o, m) : f \in {"d", "a"}, o \in Counts, m \in {<<>>, <<":">>}} \cup
  {Spelled(TRUE, f, o, m) : f \in {"o"}, o \in Counts, m \in {<<>>, <<":">>, <<":", "/">>}}
MCSpecLists == {<<s>> : s \in MCSpecs} \cup {<<s, t>> : s, t \in MCSpecs}
\* Every byte of the value is shown, or is a repeat count.
OctetSpecs == {s \in MCSpecs : s.octets = <<"1">>}
OctetLists == {<<s>> : s \in OctetSpecs} \cup {<<s, t>> : s, t \in OctetSpecs}

Malformed ==
  { <<>>, <<"d">>, <<"1">>, <<"*", "1">>, <<"*", "d">>, <<"1", "z">>, <<"1", "d", "*">>,
    <<"1", "d", ":", "/">>, <<"1", "d", "*", "*">>,
    <<"1", "6", "d">>, <<"1", "d", "1", "6", "d">> }
MCHints == WellFormed \cup Malformed
OctetHints == WellFormed
MCValues == {<<>>, <<0>>, <<1, 2>>, <<2, 0>>, <<0, 1, 2>>, <<2, 1, 0>>, <<0, 0, 0>>, <<1, 1, 1>>}
=============================================================================
