--------------------------- MODULE MCScrapeTarget ---------------------------
(* Instances of ScrapeTarget for TLC: small tables, every way their filters   *)
(* can overlap, and the corner values of max_repetitions and version.         *)
EXTENDS ScrapeTarget

\* Two columns of one table (the name of the first starts the name of the
\* second), a column of another table, and some scalars.
ColA == <<2, 1>>
ColB == <<2, 10>>
ColC == <<3>>
Scalars == <<<<1, 1>>, <<1, 2>>, <<1, 3>>>>

Call(get, walk, filters, maxRepetitions, version) ==
  [get |-> get, walk |-> walk, filters |-> 
     [i \in 1..Len(filters) |-> [targets |-> filters[i], malformed |-> FALSE]],
   maxRepetitions |-> maxRepetitions, version |-> version]

\* The same call, with a value that is no regular expression in one filter.
Misconfigured(call, k) == [call EXCEPT !.filters[k].malformed = TRUE]

MCInputs ==
  { Call(Scalars, <<ColA, ColC>>, <<<<ColA>>, <<ColC, ColA>>>>, n, v) : n \in {0, 2, 25}, v \in 1..3 }
  \cup { Call(<<<<1, 1>>, Append(ColA, 7)>>, <<ColC, ColA>>, <<<<ColA>>>>, 2, 2),
         Call(<<>>, <<<<2>>, ColC>>, <<<<ColA>>, <<ColA>>>>, 2, 2),
         Misconfigured(Call(<<<<1, 1>>>>, <<ColA, ColC>>, <<<<ColA>>, <<ColC, ColA>>>>, 2, 2), 2),
         Call(<<>>, <<ColA, ColB>>, <<<<ColB>>, <<ColA>>>>, 2, 2) }

Row(index, matches) == [index |-> index, matches |-> matches]
MCRows ==
  { <<Row(<<1>>, m), Row(<<2>>, n)>> : m, n \in BOOLEAN }
  \cup { <<>>, <<Row(<<4, 2>>, TRUE)>> }

MCMibs ==
  { {}, {<<1, 1>>, <<1, 3>>, <<2, 1, 2>>, <<3, 1>>}, {<<1, 2>>, <<2, 1, 1>>, <<3, 2>>} }
=============================================================================
