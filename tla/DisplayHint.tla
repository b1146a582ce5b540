----------------------------- MODULE DisplayHint -----------------------------
(* applyDisplayHint of collector/display_hint.go: the loop that parses an RFC  *)
(* 2579 DISPLAY-HINT, one octet-format specification after the other, and      *)
(* applies each to the bytes of a value.  Positions count what is behind them, *)
(* as in the code; an int wraps around.                                        *)
EXTENDS Integers, Sequences, SequencesExt

CONSTANTS
  Hints,    \* sequences of characters
  Values,   \* sequences of bytes
  MaxInt,   \* the largest int
  MaxOctets \* bytes of the widest number that can be printed: 8 in the code

ASSUME DisplayHintAssumption ==
  /\ MaxInt \in Nat \ {0} /\ MaxOctets \in Nat
  /\ \A v \in Values : v \in Seq(Nat) /\ Len(v) <= MaxInt
  /\ \A h \in Hints : h \in Seq(STRING)

Numerals == <<"0", "1", "2", "3", "4", "5", "6", "7", "8", "9">>
Digits == ToSet(Numerals)
Formats == {"d", "x", "o", "a", "t"}
End == "end of hint"

VARIABLES
  hint, data,  \* the arguments, constant
  status,      \* "spec" or "apply" in the two loops, "ok" or "failed" at the end
  hintPos, dataPos,
  lastSpecStart, lastSpecConsumesByte,
  spec,        \* the specification parsed last
  repeatCount, \* its repeats
  r,           \* repeats done
  result,      \* text so far: printed chunks, separators and terminators
  eaten        \* history: the bytes used, as repeat counts or in chunks
vars == <<hint, data, status, hintPos, dataPos, lastSpecStart, lastSpecConsumesByte,
          spec, repeatCount, r, result, eaten>>

MoreData == dataPos < Len(data)

-----------------------------------------------------------------------------
(* Parsing                                                                    *)

At(i) == IF i < Len(hint) THEN hint[i + 1] ELSE End
IsOther(c) == c \notin Digits \cup {"*", End}
AfterDigits(i) ==
  CHOOSE j \in i..Len(hint) : At(j) \notin Digits /\ \A k \in i..(j - 1) : At(k) \in Digits

Wrap(n) == ((n + MaxInt + 1) % (2 * MaxInt + 2)) - MaxInt - 1
Value(digit) == CHOOSE k \in 0..9 : Numerals[k + 1] = digit
Declared(digits) ==
  LET number[k \in 0..Len(digits)] == IF k = 0 THEN 0 ELSE 10 * number[k - 1] + Value(digits[k])
  IN  number[Len(digits)]

\* What the five numbered steps of the loop read from position i on.
SpecAt(i) ==
  LET star == At(i) = "*"
      first == IF star THEN i + 1 ELSE i
      after == AfterDigits(first)
      hasSep == IsOther(At(after + 1))
      hasTerm == star /\ hasSep /\ IsOther(At(after + 2))
  IN  [ star |-> star, octets |-> SubSeq(hint, first + 1, after),
        take |-> Wrap(Declared(SubSeq(hint, first + 1, after))), fmt |-> At(after),
        hasSep |-> hasSep, sep |-> At(after + 1),
        hasTerm |-> hasTerm, term |-> At(after + 2),
        next |-> after + 1 + (IF hasSep THEN 1 ELSE 0) + (IF hasTerm THEN 1 ELSE 0) ]
\* Digits, no overflow to a negative number, a format character.
IsValid(s) == s.octets # <<>> /\ s.take \in Nat /\ s.fmt \in Formats
NoSpec == [ star |-> FALSE, octets |-> <<>>, take |-> 0, fmt |-> End, hasSep |-> FALSE,
            sep |-> End, hasTerm |-> FALSE, term |-> End, next |-> 0 ]

Init ==
  /\ hint \in Hints /\ data \in Values
  /\ status = IF hint = <<>> \/ data = <<>> THEN "failed" ELSE "spec"
  /\ hintPos = 0 /\ dataPos = 0
  /\ lastSpecStart = 0 /\ lastSpecConsumesByte = FALSE
  /\ spec = NoSpec
  /\ repeatCount = 0 /\ r = 0
  /\ result = <<>> /\ eaten = <<>>

\* The hint is used up and its last specification consumes nothing.
Stuck == hintPos >= Len(hint) /\ ~lastSpecConsumesByte
\* At the end of the hint its last specification is used again.
SpecStart == IF hintPos >= Len(hint) THEN lastSpecStart ELSE hintPos

\* Mutant: the repeat count is used as data, too.
KeepCount(s) == 0
CountBytes(s) == IF s.star THEN 1 ELSE 0

ParseSpec ==
  /\ status = "spec"
  /\ MoreData
  /\ ~Stuck
  /\ LET s == SpecAt(SpecStart) IN
     /\ IsValid(s)
     /\ spec' = s
     /\ hintPos' = s.next
     /\ lastSpecConsumesByte' = (s.take > 0 \/ s.star)
     /\ repeatCount' = IF s.star THEN data[dataPos + 1] ELSE 1
     /\ dataPos' = dataPos + CountBytes(s)
     /\ eaten' = IF s.star THEN Append(eaten, data[dataPos + 1]) ELSE eaten
  /\ lastSpecStart' = SpecStart
  /\ r' = 0
  /\ status' = "apply"
  /\ UNCHANGED <<hint, data, result>>

ParseError ==
  /\ status = "spec"
  /\ MoreData
  /\ Stuck \/ ~IsValid(SpecAt(SpecStart))
  /\ status' = "failed"
  /\ UNCHANGED <<hint, data, hintPos, dataPos, lastSpecStart, lastSpecConsumesByte, spec,
                 repeatCount, r, result, eaten>>

-----------------------------------------------------------------------------
(* Applying                                                                   *)

\* Mutants: the sum's overflow is not caught; the last chunk is not cut short.
EndUncaught ==
  LET end == Wrap(dataPos + spec.take)
  IN  IF end > Len(data) THEN Len(data) ELSE end
ChunkEnd ==
  LET end == Wrap(dataPos + spec.take)
  IN  IF end > Len(data) \/ end < dataPos THEN Len(data) ELSE end
Chunk == SubSeq(data, dataPos + 1, ChunkEnd)
Applying == status = "apply" /\ r < repeatCount /\ MoreData
TooLong == spec.fmt \in {"d", "o"} /\ Len(Chunk) > MaxOctets

\* A number in base 10 or 8, hexadecimal octets, or the octets themselves.
Printed(fmt, octets) ==
  [ kind |-> fmt,
    text |-> IF fmt \in {"d", "o"}
               THEN <<FoldLeft(LAMBDA n, b : 256 * n + b, 0, octets)>>
               ELSE octets ]
Mark(c) == [kind |-> "mark", text |-> <<c>>]

\* Mutant: the separator precedes the terminator.
SeparatorAlways(left) == spec.hasSep /\ left
\* Suppressed at the end of the data and before a terminator.
Separated(left) == spec.hasSep /\ left /\ (~spec.hasTerm \/ r # repeatCount - 1)

\* Mutant: an empty chunk is skipped without being counted.
ApplyUncounted ==
  /\ Applying
  /\ ~TooLong
  /\ result' = IF Chunk = <<>> THEN result ELSE
       result \o <<Printed(spec.fmt, Chunk)>> \o
         (IF Separated(ChunkEnd < Len(data)) THEN <<Mark(spec.sep)>> ELSE <<>>)
  /\ eaten' = eaten \o Chunk
  /\ dataPos' = ChunkEnd
  /\ r' = IF Chunk = <<>> THEN r ELSE r + 1
  /\ UNCHANGED <<hint, data, status, hintPos, lastSpecStart, lastSpecConsumesByte, spec, repeatCount>>

Apply ==
  /\ Applying
  /\ ~TooLong
  /\ result' = result \o <<Printed(spec.fmt, Chunk)>> \o
                 (IF Separated(ChunkEnd < Len(data)) THEN <<Mark(spec.sep)>> ELSE <<>>)
  /\ eaten' = eaten \o Chunk
  /\ dataPos' = ChunkEnd
  /\ r' = r + 1
  /\ UNCHANGED <<hint, data, status, hintPos, lastSpecStart, lastSpecConsumesByte, spec, repeatCount>>

ChunkTooLong ==
  /\ Applying
  /\ TooLong
  /\ status' = "failed"
  /\ UNCHANGED <<hint, data, hintPos, dataPos, lastSpecStart, lastSpecConsumesByte, spec,
                 repeatCount, r, result, eaten>>

EndGroup ==
  /\ status = "apply"
  /\ ~Applying
  /\ status' = "spec"
  /\ result' = IF spec.hasTerm /\ MoreData THEN Append(result, Mark(spec.term)) ELSE result
  /\ UNCHANGED <<hint, data, hintPos, dataPos, lastSpecStart, lastSpecConsumesByte, spec,
                 repeatCount, r, eaten>>

Return ==
  /\ status = "spec"
  /\ ~MoreData
  /\ status' = "ok"
  /\ UNCHANGED <<hint, data, hintPos, dataPos, lastSpecStart, lastSpecConsumesByte, spec,
                 repeatCount, r, result, eaten>>

Returned == status \in {"ok", "failed"} /\ UNCHANGED vars

Next ==
  \/ ParseSpec \/ ParseError
  \/ Apply \/ ChunkTooLong \/ EndGroup
  \/ Return \/ Returned

Spec == Init /\ [][Next]_vars
\* The goroutine that formats the value runs on.
FairSpec == Spec /\ WF_vars(Next)

-----------------------------------------------------------------------------
(* Properties                                                                 *)

TypeOK ==
  /\ hint \in Hints /\ data \in Values
  /\ status \in {"spec", "apply", "ok", "failed"}
  /\ dataPos \in 0..Len(data)
  /\ hintPos \in 0..Len(hint) /\ lastSpecStart \in 0..Len(hint)
  /\ lastSpecConsumesByte \in BOOLEAN
  /\ status = "apply" => spec.take \in Nat
  /\ repeatCount \in Nat /\ r \in Nat

\* Every slice data[dataPos:end] is within the value: a hint with any octet
\* count, also one that overflows when it is added, cannot make the exporter panic.
NoPanic == Applying => ChunkEnd \in dataPos..Len(data)

\* Each byte is used exactly once and in order, be it as a repeat count or in a
\* chunk, so nothing of a value that is displayed is dropped or shown twice.
EachByteOnce ==
  /\ eaten = SubSeq(data, 1, dataPos)
  /\ status = "ok" => eaten = data

\* The loop ends for every hint and every value.
Termination == <>(status \in {"ok", "failed"})
=============================================================================
