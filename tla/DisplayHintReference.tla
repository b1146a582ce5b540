------------------------- MODULE DisplayHintReference -------------------------
(* What RFC 2579 section 3.1 says of a DISPLAY-HINT, as summarised in the      *)
(* comment of applyDisplayHint, without a parser, wrap-around or restarts: a   *)
(* hint is a list of specifications, each displays a group of chunks, the last *)
(* one is repeated; a chunk is followed by the separator and a group by its    *)
(* terminator, but not at the end of the text.                                 *)
EXTENDS DisplayHint, ListOps

CONSTANT SpecLists \* lists of specifications; marks are a separator and a terminator

IsSpec(s) ==
  /\ s.octets \in Seq(Digits) \ {<<>>} /\ s.fmt \in Formats /\ s.star \in BOOLEAN
  /\ IsList(s.marks) /\ \A c \in ToSet(s.marks) : IsOther(c)
  /\ Len(s.marks) <= IF s.star THEN 2 ELSE 1
ASSUME ReferenceAssumption ==
  \A list \in SpecLists : IsList(list) /\ list # <<>> /\ \A s \in ToSet(list) : IsSpec(s)

\* How a specification is written.
Written(s) ==
  (IF s.star THEN <<"*">> ELSE <<>>) \o s.octets \o <<s.fmt>> \o s.marks
WrittenHint(list) == FlattenSeq([i \in 1..Len(list) |-> Written(list[i])])
\* The hints that are lists of specifications; the others are malformed.
WellFormed == {WrittenHint(list) : list \in SpecLists}
Readings == [h \in WellFormed |-> CHOOSE list \in SpecLists : WrittenHint(list) = h]
Reading == Readings[hint]

Marks(s, i) == IF Len(s.marks) >= i THEN <<Mark(s.marks[i])>> ELSE <<>>
Failure == <<[kind |-> "failure", text |-> <<>>]>>

\* A group of chunks that begins at p: with the repeat count, or with its only chunk.
Repeats(s, p) == IF s.star THEN data[p + 1] ELSE 1
Body(s, p) == IF s.star THEN p + 1 ELSE p
\* Where its chunk c ends; the last one of the data may be short.
UpTo(s, p, c) ==
  LET end == Body(s, p) + c * Declared(s.octets)
  IN  IF end <= Len(data) THEN end ELSE Len(data)
ChunkOf(s, p, c) == SubSeq(data, UpTo(s, p, c - 1) + 1, UpTo(s, p, c))
IsChunk(s, p, c) == UpTo(s, p, c - 1) < Len(data)
\* A chunk and its separator, unless the terminator comes instead.
ChunkText(s, p, c) ==
  IF ~IsChunk(s, p, c) THEN <<>>
  ELSE <<Printed(s.fmt, ChunkOf(s, p, c))>>
         \o (IF c = Repeats(s, p) /\ Len(s.marks) = 2 THEN <<>> ELSE Marks(s, 1))
GroupText(s, p) ==
  FlattenSeq([c \in 1..Repeats(s, p) |-> ChunkText(s, p, c)]) \o Marks(s, 2)

\* Each group uses a byte, or a specification that is not the last one.
MaxGroups == Len(Reading) + Len(data)
SpecOf(g) == Reading[IF g <= Len(Reading) THEN g ELSE Len(Reading)]
\* How much of the data the first groups use.
Used ==
  LET used[g \in 0..MaxGroups] ==
        IF g = 0 THEN 0
        ELSE IF used[g - 1] = Len(data) THEN Len(data)
        ELSE UpTo(SpecOf(g), used[g - 1], Repeats(SpecOf(g), used[g - 1]))
  IN  used
IsGroup(g) == Used[g - 1] < Len(data)
TextOf(g) == IF IsGroup(g) THEN GroupText(SpecOf(g), Used[g - 1]) ELSE <<>>

\* A group that is repeated for ever, or has a number that is too long.
UsesNothing(s) == ~s.star /\ Declared(s.octets) = 0
HasLongNumber(s, p) ==
  /\ s.fmt \in {"d", "o"}
  /\ \E c \in 1..Repeats(s, p) : IsChunk(s, p, c) /\ Len(ChunkOf(s, p, c)) > MaxOctets
Fails(g) ==
  /\ IsGroup(g)
  /\ (g > Len(Reading) /\ UsesNothing(SpecOf(g))) \/ HasLongNumber(SpecOf(g), Used[g - 1])

\* "Trailing separators are suppressed": nothing but marks is cut off.
WithoutTrailingMarks(text) ==
  SubSeq(text, 1, CHOOSE n \in 0..Len(text) :
                    /\ n > 0 => text[n].kind # "mark"
                    /\ \A i \in (n + 1)..Len(text) : text[i].kind = "mark")
Reference ==
  IF \E g \in 1..MaxGroups : Fails(g) THEN Failure
  ELSE WithoutTrailingMarks(FlattenSeq([g \in 1..MaxGroups |-> TextOf(g)]))

Overflows == \E i \in 1..Len(Reading) : Declared(Reading[i].octets) > MaxInt
\* The last byte of the value is the repeat count of a group with no data.  The
\* loop saw more data when it wrote the marks before it, and writes nothing after.
EndsInCount == spec.star /\ r = 0

\* For every hint that can be read as a list of specifications, and whose octet
\* counts fit an int, the loop prints what the list means, or fails where the
\* list has no meaning for the value: parser, restart at the last specification,
\* separators, terminators and short last chunks together.  Values that end in a
\* repeat count are left out: see TrailingSeparatorsSuppressed.
AsSpecified ==
  hint \in WellFormed /\ data # <<>> /\ ~Overflows =>
    /\ status = "ok" /\ ~EndsInCount => result = Reference
    /\ status = "failed" => Reference = Failure

\* "Trailing separators are suppressed." (the comment of applyDisplayHint, and
\* generator/README.md), whatever the value ends in.
TrailingSeparatorsSuppressed ==
  status = "ok" /\ result # <<>> => Last(result).kind # "mark"
=============================================================================
