-------------------------- MODULE ScrapeTargetProofs --------------------------
(* Theorems about ScrapeTarget for every module configuration, every rows of   *)
(* the filters' walks and every agent.                                         *)
EXTENDS ScrapeTarget, DataLemmas

-----------------------------------------------------------------------------
(* Filters                                                                    *)

\* The combined lists: targets without repetition, each with its list.
Lists ==
  {a \in [order: Seq(Oids), allowed: UNION {[S -> Seq(Nat)] : S \in SUBSET Oids}] :
     a.allowed \in [ToSet(a.order) -> Seq(Nat)] /\ IsInjective(a.order)}

LEMMA ListsIntro ==
  ASSUME NEW order \in Seq(Oids), IsInjective(order), NEW allowed \in [ToSet(order) -> Seq(Nat)]
  PROVE  [order |-> order, allowed |-> allowed] \in Lists
<1> DEFINE a == [order |-> order, allowed |-> allowed]
<1>1. ToSet(order) \in SUBSET Oids
  BY DEF ToSet
<1>2. allowed \in UNION {[S -> Seq(Nat)] : S \in SUBSET Oids}
  BY <1>1
<1>3. a \in [order: Seq(Oids), allowed: UNION {[S -> Seq(Nat)] : S \in SUBSET Oids}]
  BY <1>2
<1>4. a.order = order /\ a.allowed = allowed
  OBVIOUS
<1> HIDE DEF a
<1> QED
  BY <1>3, <1>4 DEF Lists, a

\* A filter allows numbers: the arcs its rows end with.
LEMMA AllowedType ==
  ASSUME NEW rows \in Rows
  PROVE  filterAllowedIndices(rows) \in Seq(Nat)
<1> DEFINE matching == Keep(rows, {r \in ToSet(rows) : r.matches})
<1>1. matching \in Seq(Pdus)
  BY ScrapeTargetAssumption, KeepFacts
<1>2. \A r \in Pdus : Last(r.index) \in Nat
  BY DEF Pdus, Oids, Last
<1> HIDE DEF matching
<1>3. [i \in 1..Len(matching) |-> Last(matching[i].index)] \in Seq(Nat)
  BY <1>1, <1>2
<1> QED
  BY <1>3 DEF filterAllowedIndices, matching

\* Two lists of allowed rows combine to the rows both allow.
LEMMA IntersectFacts ==
  ASSUME NEW a \in Seq(Nat), NEW b \in Seq(Nat)
  PROVE  /\ intersectIndices(a, b) \in Seq(Nat)
         /\ ToSet(intersectIndices(a, b)) = ToSet(a) \cap ToSet(b)
  BY KeepFacts DEF intersectIndices

\* What adding a target to the combined lists does.
Joined(old, new, added, list) ==
  /\ new \in Lists
  /\ ToSet(new.order) = ToSet(old.order) \cup added
  /\ \A t \in ToSet(new.order) :
       ToSet(new.allowed[t]) =
         IF t \notin ToSet(old.order) THEN ToSet(list)
         ELSE IF t \in added THEN ToSet(old.allowed[t]) \cap ToSet(list)
         ELSE ToSet(old.allowed[t])

LEMMA AddTargetFacts ==
  ASSUME NEW acc \in Lists, NEW t \in Oids, NEW list \in Seq(Nat)
  PROVE  Joined(acc, AddTarget(acc, t, list), {t}, list)
<1> DEFINE new == AddTarget(acc, t, list)
<1>1. /\ acc.order \in Seq(Oids) /\ IsInjective(acc.order)
      /\ acc.allowed \in [ToSet(acc.order) -> Seq(Nat)]
      /\ acc = [order |-> acc.order, allowed |-> acc.allowed]
  BY DEF Lists
<1>2. CASE t \in ToSet(acc.order)
  <2> DEFINE both == intersectIndices(acc.allowed[t], list)
             allowed == [acc.allowed EXCEPT ![t] = both]
  <2>1. new = [order |-> acc.order, allowed |-> allowed]
    BY <1>1, <1>2 DEF AddTarget
  <2>2. both \in Seq(Nat) /\ ToSet(both) = ToSet(acc.allowed[t]) \cap ToSet(list)
    BY <1>1, <1>2, IntersectFacts
  <2> HIDE DEF both
  <2>3. allowed \in [ToSet(acc.order) -> Seq(Nat)]
    BY <1>1, <2>2
  <2>4. new \in Lists
    <3> HIDE DEF allowed
    <3> QED
      BY <1>1, <2>1, <2>3, ListsIntro
  <2>5. \A u \in ToSet(acc.order) : allowed[u] = IF u = t THEN both ELSE acc.allowed[u]
    BY <1>1
  <2>6. ToSet(acc.order) = ToSet(acc.order) \cup {t}
    BY <1>2
  <2>7. new.order = acc.order /\ new.allowed = allowed
    BY <2>1
  <2> HIDE DEF new, allowed
  <2>8. Joined(acc, new, {t}, list)
    BY <1>2, <2>2, <2>4, <2>5, <2>6, <2>7 DEF Joined
  <2> QED
    BY <2>8 DEF new
<1>3. CASE t \notin ToSet(acc.order)
  <2> DEFINE order == Append(acc.order, t)
             allowed == [u \in DOMAIN acc.allowed \cup {t} |-> IF u = t THEN list ELSE acc.allowed[u]]
  <2>1. new = [order |-> order, allowed |-> allowed]
    BY <1>1, <1>3 DEF AddTarget
  <2>2. order \in Seq(Oids) /\ ToSet(order) = ToSet(acc.order) \cup {t}
    BY <1>1, ToSetAppend
  <2>3. allowed \in [ToSet(order) -> Seq(Nat)]
    BY <1>1, <2>2
  <2>4. IsInjective(order)
    <3>1. \A i \in 1..Len(acc.order) : acc.order[i] # t
      BY <1>1, <1>3 DEF ToSet
    <3> QED
      BY <1>1, <3>1 DEF IsInjective
  <2>5. new \in Lists
    <3> HIDE DEF allowed, order
    <3> QED
      BY <2>1, <2>2, <2>3, <2>4, ListsIntro
  <2> QED
    BY <1>1, <1>3, <2>1, <2>2, <2>5 DEF Joined
<1> QED
  BY <1>2, <1>3

\* Adding no target changes nothing; adding targets one after the other adds
\* them all, and a target that is named twice counts once.
LEMMA JoinedNone ==
  ASSUME NEW acc \in Lists, NEW list
  PROVE  Joined(acc, acc, {}, list)
  BY DEF Joined

LEMMA JoinedOne ==
  ASSUME NEW a, NEW b, NEW c, NEW S, NEW t, NEW list,
         Joined(a, b, S, list), Joined(b, c, {t}, list)
  PROVE  Joined(a, c, S \cup {t}, list)
<1>1. /\ c \in Lists
      /\ ToSet(b.order) = ToSet(a.order) \cup S
      /\ ToSet(c.order) = ToSet(a.order) \cup (S \cup {t})
  BY DEF Joined
<1>2. ASSUME NEW u \in ToSet(c.order)
      PROVE  ToSet(c.allowed[u]) =
               IF u \notin ToSet(a.order) THEN ToSet(list)
               ELSE IF u \in S \cup {t} THEN ToSet(a.allowed[u]) \cap ToSet(list)
               ELSE ToSet(a.allowed[u])
  <2>1. CASE u \in ToSet(b.order)
    BY <1>1, <2>1, ZenonT(30) DEF Joined
  <2>2. CASE u \notin ToSet(b.order)
    BY <1>1, <2>2 DEF Joined
  <2> QED
    BY <2>1, <2>2
<1> QED
  BY <1>1, <1>2 DEF Joined

\* All targets of a filter join the combined lists.
LEMMA AddTargetsFacts ==
  ASSUME NEW acc \in Lists, NEW ts \in Seq(Oids), NEW list \in Seq(Nat)
  PROVE  Joined(acc, AddTargets(acc, ts, list), ToSet(ts), list)
<1> DEFINE L == Len(ts)
           X == Lists
           Step(a, k) == AddTarget(a, ts[k], list)
           G == [k \in 1..L |-> [a \in X |-> Step(a, k)]]
<1>1. L \in Nat /\ \A k \in 1..L : ts[k] \in Oids
  OBVIOUS
<1>2. \A k \in 1..L, a \in X : Joined(a, Step(a, k), {ts[k]}, list)
  BY <1>1, AddTargetFacts
<1>3. \A k \in 1..L, a \in X : Step(a, k) \in X
  BY <1>2 DEF Joined
<1>4. IsStepFor(G, X, L) /\ \A k \in 1..L, a \in X : G[k][a] = Step(a, k)
  <2> HIDE DEF Step, L, X
  <2> QED
    BY <1>3 DEF IsStepFor
<1>5. PICK f : f \in [0..L -> X] /\ f[0] = acc /\ \A k \in 1..L : f[k] = Step(f[k - 1], k)
  <2>1. L \in Nat /\ acc \in X
    BY <1>1
  <2> HIDE DEF G, L, X, Step
  <2>2. PICK f : Iterates(f, acc, G, X, L)
    BY <2>1, <1>4, RecursionTo
  <2>3. \A k \in 1..L : f[k - 1] \in X
    BY <2>1, <2>2 DEF Iterates
  <2> QED
    BY <1>4, <2>2, <2>3, ZenonT(30) DEF Iterates
<1> DEFINE Added(g) == g = [k \in 0..L |-> IF k = 0 THEN acc ELSE AddTarget(g[k - 1], ts[k], list)]
           added == CHOOSE g : Added(g)
<1>6. AddTargets(acc, ts, list) = added[L]
  BY DEF AddTargets
<1>7. Added(f)
  <2> HIDE DEF L, X
  <2>1. \A k \in 0..L : k # 0 => k \in 1..L
    BY <1>1
  <2> QED
    BY <1>5, <2>1
<1>8. Added(added)
  <2> HIDE DEF Added
  <2> QED
    BY <1>7
<1>9. added[0] = acc /\ \A k \in 1..L : added[k] = Step(added[k - 1], k)
  <2> HIDE DEF added, L, X, G
  <2>1. 0 \in 0..L /\ \A k \in 1..L : k \in 0..L /\ k # 0
    BY <1>1
  <2> QED
    BY <2>1, <1>8
<1> DEFINE Correct(k) == Joined(acc, added[k], {ts[i] : i \in 1..k}, list)
           P == {k \in 0..L : Correct(k)}
<1> HIDE DEF added
<1>10. Correct(0)
  <2>1. {ts[i] : i \in 1..0} = {}
    OBVIOUS
  <2> QED
    BY <1>9, <2>1, JoinedNone
<1>11. ASSUME NEW k \in 1..L, Correct(k - 1) PROVE Correct(k)
  <2>1. {ts[i] : i \in 1..k} = {ts[i] : i \in 1..(k - 1)} \cup {ts[k]}
    OBVIOUS
  <2>2. added[k - 1] \in X
    BY <1>11 DEF Joined
  <2>3. Joined(added[k - 1], added[k], {ts[k]}, list)
    BY <1>2, <1>9, <2>2
  <2> DEFINE S == {ts[i] : i \in 1..(k - 1)}
  <2>4. Joined(acc, added[k - 1], S, list)
    BY <1>11
  <2>5. Joined(acc, added[k], S \cup {ts[k]}, list)
    <3> HIDE DEF S
    <3> QED
      BY <2>3, <2>4, JoinedOne
  <2> QED
    BY <2>1, <2>5
<1>12. Correct(L)
  <2> HIDE DEF L, Correct
  <2>1. 0 \in P /\ \A k \in 1..L : k - 1 \in P => k \in P
    BY <1>1, <1>10, <1>11
  <2> HIDE DEF P
  <2>2. \A k \in 0..L : k \in P
    BY <1>1, <2>1, InductionTo
  <2>3. L \in P
    BY <1>1, <2>2
  <2> QED
    BY <2>3 DEF P
<1>13. ToSet(ts) = {ts[i] : i \in 1..L}
  BY DEF ToSet
<1> QED
  BY <1>6, <1>12, <1>13

-----------------------------------------------------------------------------
(* Gets                                                                       *)

\* A target's rows are put at the end.
LEMMA AddIndicesFacts ==
  ASSUME NEW get \in Seq(Oids), NEW t \in Oids, NEW list \in Seq(Nat)
  PROVE  /\ addAllowedIndices(get, t, list) \in Seq(Oids)
         /\ ToSet(addAllowedIndices(get, t, list)) =
              ToSet(get) \cup {Append(t, i) : i \in ToSet(list)}
<1> DEFINE added == [i \in 1..Len(list) |-> Append(t, list[i])]
<1>1. \A i \in 1..Len(list) : list[i] \in Nat /\ Append(t, list[i]) \in Oids
  BY DEF Oids
<1>2. added \in Seq(Oids)
  BY <1>1
<1>3. ToSet(added) = {Append(t, i) : i \in ToSet(list)}
  <2>1. DOMAIN added = 1..Len(list) /\ DOMAIN list = 1..Len(list)
        /\ \A i \in 1..Len(list) : added[i] = Append(t, list[i])
    OBVIOUS
  <2> HIDE DEF added
  <2> QED
    BY <2>1 DEF ToSet
<1> HIDE DEF added
<1>4. get \o added \in Seq(Oids) /\ ToSet(get \o added) = ToSet(get) \cup ToSet(added)
  BY <1>2, ToSetConcat
<1> QED
  BY <1>3, <1>4 DEF addAllowedIndices, added

\* A target's own gets, and those that only start like it, make way for its rows.
LEMMA ApplyTargetFacts ==
  ASSUME NEW get \in Seq(Oids), NEW t \in Oids, NEW list \in Seq(Nat)
  PROVE  /\ ApplyTarget(get, t, list) \in Seq(Oids)
         /\ ToSet(ApplyTarget(get, t, list)) =
              {g \in ToSet(get) : ~HasPrefix(g, t)} \cup {Append(t, i) : i \in ToSet(list)}
<1> DEFINE kept == updateGetConfig(get, t)
<1>1. kept \in Seq(Oids) /\ ToSet(kept) = {g \in ToSet(get) : ~HasPrefix(g, t)}
  <2> DEFINE S == {g \in ToSet(get) : ~HasPrefix(g, t)}
  <2>1. Keep(get, S) \in Seq(Oids) /\ ToSet(Keep(get, S)) = ToSet(get) \cap S
    <3> HIDE DEF S
    <3> QED
      BY KeepFacts
  <2> QED
    BY <2>1 DEF updateGetConfig
<1> HIDE DEF kept
<1> QED
  BY <1>1, AddIndicesFacts DEF ApplyTarget, kept

\* The gets after the first k targets.
Applied(get, acc, k) ==
  {g \in ToSet(get) : \A j \in 1..k : ~HasPrefix(g, acc.order[j])} \cup
  UNION {{Append(acc.order[j], i) : i \in ToSet(acc.allowed[acc.order[j]])} : j \in 1..k}
\* No target takes away the rows of another.
Apart(S) == \A t, u \in S : \A i \in Nat : t # u => ~HasPrefix(Append(u, i), t)

LEMMA AppliedNone == ASSUME NEW get, NEW acc PROVE Applied(get, acc, 0) = ToSet(get)
  BY DEF Applied

LEMMA AppliedOne ==
  ASSUME NEW get \in Seq(Oids), NEW acc \in Lists, NEW k \in 1..Len(acc.order),
         NEW before \in Seq(Oids),
         Apart(ToSet(acc.order)) => ToSet(before) = Applied(get, acc, k - 1)
  PROVE  LET after == ApplyTarget(before, acc.order[k], acc.allowed[acc.order[k]])
         IN  /\ after \in Seq(Oids)
             /\ Apart(ToSet(acc.order)) => ToSet(after) = Applied(get, acc, k)
<1> DEFINE t == acc.order[k]
           list == acc.allowed[t]
           after == ApplyTarget(before, t, list)
           rows(j) == {Append(acc.order[j], i) : i \in ToSet(acc.allowed[acc.order[j]])}
<1>1. /\ acc.order \in Seq(Oids) /\ IsInjective(acc.order)
      /\ acc.allowed \in [ToSet(acc.order) -> Seq(Nat)]
  BY DEF Lists
<1>2. \A j \in 1..Len(acc.order) :
        acc.order[j] \in ToSet(acc.order) /\ acc.order[j] \in Oids
        /\ acc.allowed[acc.order[j]] \in Seq(Nat)
  BY <1>1 DEF ToSet
<1>3. /\ after \in Seq(Oids)
      /\ ToSet(after) = {g \in ToSet(before) : ~HasPrefix(g, t)} \cup rows(k)
  BY <1>2, ApplyTargetFacts
<1>4. ASSUME Apart(ToSet(acc.order))
      PROVE  ToSet(after) = Applied(get, acc, k)
  <2>1. ASSUME NEW j \in 1..(k - 1), NEW g \in rows(j)
        PROVE  ~HasPrefix(g, t)
    <3>1. j \in 1..Len(acc.order) /\ j # k
      BY <1>1
    <3>2. acc.order[j] # t
      BY <1>1, <3>1 DEF IsInjective
    <3>3. PICK i \in ToSet(acc.allowed[acc.order[j]]) : g = Append(acc.order[j], i)
      BY <2>1
    <3> DEFINE allowed == acc.allowed[acc.order[j]]
    <3>4. allowed \in Seq(Nat) /\ i \in ToSet(allowed)
      BY <1>2, <3>1
    <3>5. i \in Nat
      <4> HIDE DEF allowed
      <4> QED
        BY <3>4 DEF ToSet
    <3> QED
      BY <1>2, <1>4, <3>1, <3>2, <3>3, <3>5 DEF Apart
  <2>2. 1..k = 1..(k - 1) \cup {k}
    OBVIOUS
  <2>3. ToSet(before) =
          {g \in ToSet(get) : \A j \in 1..(k - 1) : ~HasPrefix(g, acc.order[j])}
          \cup UNION {rows(j) : j \in 1..(k - 1)}
    BY <1>4 DEF Applied
  <2>4. {g \in ToSet(before) : ~HasPrefix(g, t)} =
          {g \in ToSet(get) : \A j \in 1..k : ~HasPrefix(g, acc.order[j])}
          \cup UNION {rows(j) : j \in 1..(k - 1)}
    <3> HIDE DEF rows
    <3> QED
      BY <2>1, <2>2, <2>3
  <2>5. UNION {rows(j) : j \in 1..k} = (UNION {rows(j) : j \in 1..(k - 1)}) \cup rows(k)
    <3> HIDE DEF rows
    <3> QED
      BY <2>2
  <2>6. Applied(get, acc, k) =
          {g \in ToSet(get) : \A j \in 1..k : ~HasPrefix(g, acc.order[j])}
          \cup UNION {rows(j) : j \in 1..k}
    BY DEF Applied
  <2> HIDE DEF rows, after
  <2> QED
    BY <1>3, <2>4, <2>5, <2>6
<1> QED
  BY <1>3, <1>4

\* All targets, one after the other.
LEMMA ApplyTargetsFacts ==
  ASSUME NEW get \in Seq(Oids), NEW acc \in Lists
  PROVE  /\ ApplyTargets(get, acc) \in Seq(Oids)
         /\ Apart(ToSet(acc.order)) =>
              ToSet(ApplyTargets(get, acc)) = Applied(get, acc, Len(acc.order))
<1> DEFINE L == Len(acc.order)
           X == Seq(Oids)
           Step(g, k) == ApplyTarget(g, acc.order[k], acc.allowed[acc.order[k]])
           G == [k \in 1..L |-> [g \in X |-> Step(g, k)]]
<1>1. /\ acc.order \in Seq(Oids) /\ L \in Nat
      /\ acc.allowed \in [ToSet(acc.order) -> Seq(Nat)]
  BY DEF Lists
<1>2. \A k \in 1..L, g \in X : Step(g, k) \in X
  <2>1. \A k \in 1..L : acc.order[k] \in Oids /\ acc.allowed[acc.order[k]] \in Seq(Nat)
    BY <1>1 DEF ToSet
  <2> HIDE DEF L
  <2> QED
    BY <2>1, ApplyTargetFacts
<1>3. IsStepFor(G, X, L) /\ \A k \in 1..L, g \in X : G[k][g] = Step(g, k)
  <2> HIDE DEF Step, L, X
  <2> QED
    BY <1>2 DEF IsStepFor
<1>4. PICK f : f \in [0..L -> X] /\ f[0] = get /\ \A k \in 1..L : f[k] = Step(f[k - 1], k)
  <2>1. L \in Nat /\ get \in X
    BY <1>1
  <2> HIDE DEF G, L, X, Step
  <2>2. PICK f : Iterates(f, get, G, X, L)
    BY <2>1, <1>3, RecursionTo
  <2>3. \A k \in 1..L : f[k - 1] \in X
    BY <2>1, <2>2 DEF Iterates
  <2> QED
    BY <1>3, <2>2, <2>3, ZenonT(30) DEF Iterates
<1> DEFINE Folded(g) == g = [k \in 0..L |-> IF k = 0 THEN get
                               ELSE ApplyTarget(g[k - 1], acc.order[k], acc.allowed[acc.order[k]])]
           applied == CHOOSE g : Folded(g)
<1>5. ApplyTargets(get, acc) = applied[L]
  BY DEF ApplyTargets
<1>6. Folded(f)
  <2> HIDE DEF L, X
  <2>1. \A k \in 0..L : k # 0 => k \in 1..L
    BY <1>1
  <2> QED
    BY <1>4, <2>1
<1>7. Folded(applied)
  <2> HIDE DEF Folded
  <2> QED
    BY <1>6
<1>8. applied[0] = get /\ \A k \in 1..L : applied[k] = Step(applied[k - 1], k)
  <2> HIDE DEF applied, L, X, G
  <2>1. 0 \in 0..L /\ \A k \in 1..L : k \in 0..L /\ k # 0
    BY <1>1
  <2> QED
    BY <2>1, <1>7
<1> DEFINE Correct(k) == /\ applied[k] \in Seq(Oids)
                         /\ Apart(ToSet(acc.order)) => ToSet(applied[k]) = Applied(get, acc, k)
           P == {k \in 0..L : Correct(k)}
<1> HIDE DEF applied
<1>9. Correct(0)
  BY <1>8, AppliedNone
<1>10. ASSUME NEW k \in 1..L, Correct(k - 1) PROVE Correct(k)
  BY <1>8, <1>10, AppliedOne
<1>11. Correct(L)
  <2> HIDE DEF L, Correct
  <2>1. 0 \in P /\ \A k \in 1..L : k - 1 \in P => k \in P
    BY <1>1, <1>9, <1>10
  <2> HIDE DEF P
  <2>2. \A k \in 0..L : k \in P
    BY <1>1, <2>1, InductionTo
  <2>3. L \in P
    BY <1>1, <2>2
  <2> QED
    BY <2>3 DEF P
<1> QED
  BY <1>5, <1>11

\* What starts with an OID arc by arc starts with it as a string.
LEMMA PrefixIsTextPrefix ==
  ASSUME NEW o \in Oids, NEW t \in Oids, IsPrefix(t, o)
  PROVE  HasPrefix(o, t)
<1>1. Len(t) \in Nat /\ Len(o) \in Nat /\ Len(t) <= Len(o)
  BY DEF IsPrefix, Oids
<1>2. \A i \in 1..Len(t) : t[i] = o[i]
  <2>1. SubSeq(t, 1, Len(t)) = SubSeq(o, 1, Len(t))
    BY DEF IsPrefix
  <2>2. \A i \in 1..Len(t) : SubSeq(t, 1, Len(t))[i] = t[i] /\ SubSeq(o, 1, Len(t))[i] = o[i]
    BY <1>1 DEF Oids
  <2> QED
    BY <2>1, <2>2
<1>3. SubSeq(o, 1, Len(t) - 1) = SubSeq(t, 1, Len(t) - 1)
  BY <1>1, <1>2 DEF Oids
<1>4. Len(t) > 0 => DecimalPrefix(t[Len(t)], o[Len(t)])
  BY <1>1, <1>2 DEF DecimalPrefix
<1> QED
  BY <1>1, <1>3, <1>4 DEF HasPrefix

\* When no target starts like another as a string, no target starts like a row
\* of another.
LEMMA SeparateIsApart ==
  ASSUME NEW S \in SUBSET Oids, \A t, u \in S : HasPrefix(u, t) => t = u
  PROVE  Apart(S)
<1> SUFFICES ASSUME NEW t \in S, NEW u \in S, NEW i \in Nat, HasPrefix(Append(u, i), t)
             PROVE  t = u
  BY DEF Apart
<1> DEFINE row == Append(u, i)
           n == Len(t)
<1>1. /\ t \in Seq(Nat) /\ u \in Seq(Nat) /\ n \in Nat /\ Len(u) \in Nat
      /\ row \in Seq(Nat) /\ Len(row) = Len(u) + 1
      /\ \A k \in 1..Len(u) : row[k] = u[k]
  BY DEF Oids
<1>2. /\ n <= Len(u) + 1
      /\ SubSeq(row, 1, n - 1) = SubSeq(t, 1, n - 1)
      /\ n > 0 => DecimalPrefix(t[n], row[n])
  BY <1>1 DEF HasPrefix
<1>3. \A k \in 1..(n - 1) : row[k] = t[k]
  <2>1. \A k \in 1..(n - 1) : SubSeq(row, 1, n - 1)[k] = row[k] /\ SubSeq(t, 1, n - 1)[k] = t[k]
    BY <1>1, <1>2
  <2> QED
    BY <1>2, <2>1
<1> HIDE DEF row
<1>4. CASE n <= Len(u)
  <2>1. SubSeq(u, 1, n - 1) = SubSeq(t, 1, n - 1)
    <3>1. \A k \in 1..(n - 1) : u[k] = t[k]
      BY <1>1, <1>3, <1>4
    <3> QED
      BY <1>1, <1>4, <3>1
  <2>2. n > 0 => DecimalPrefix(t[n], u[n])
    BY <1>1, <1>2, <1>4
  <2>3. HasPrefix(u, t)
    BY <1>1, <1>4, <2>1, <2>2 DEF HasPrefix
  <2> QED
    BY <2>3
<1>5. CASE n = Len(u) + 1
  <2>1. \A k \in 1..Len(u) : u[k] = t[k]
    BY <1>1, <1>3, <1>5
  <2>2. IsPrefix(u, t)
    <3>1. SubSeq(u, 1, Len(u)) = SubSeq(t, 1, Len(u))
      BY <1>1, <1>5, <2>1
    <3> QED
      BY <1>1, <1>5, <3>1 DEF IsPrefix
  <2>3. HasPrefix(t, u)
    BY <2>2, PrefixIsTextPrefix
  <2> QED
    BY <2>3
<1> QED
  BY <1>1, <1>2, <1>4, <1>5

-----------------------------------------------------------------------------
(* The inductive invariant                                                    *)

LEMMA InputType ==
  ASSUME NEW i \in Inputs
  PROVE  /\ i.get \in Seq(Oids) /\ i.walk \in Seq(Oids) /\ i.filters \in Seq(Filters)
         /\ i.maxRepetitions \in Nat /\ i.version \in {1, 2, 3}
  BY ScrapeTargetAssumption DEF Calls

LEMMA TargetsAreLists == TypeOK => targets \in Lists
<1> SUFFICES ASSUME TypeOK PROVE targets \in Lists
  OBVIOUS
<1>1. /\ targets.order \in Seq(Oids) /\ IsInjective(targets.order)
      /\ targets.allowed \in [ToSet(targets.order) -> Seq(Nat)]
      /\ targets = [order |-> targets.order, allowed |-> targets.allowed]
  BY DEF TypeOK
<1> QED
  BY <1>1, ListsIntro

LEMMA ListsAreTargets ==
  ASSUME NEW a \in Lists
  PROVE  a \in [order: Seq(Oids), allowed: [ToSet(a.order) -> Seq(Nat)]] /\ IsInjective(a.order)
  BY DEF Lists

\* A batch takes off the front of the gets.
LEMMA BatchFacts ==
  ASSUME TypeOK, phase = "get", pending # <<>>
  PROVE  /\ Batch \in Seq(Oids) /\ Rest \in Seq(Oids)
         /\ pending = Batch \o Rest
         /\ input.version = 1 => \E o \in Oids : ToSet(Batch) = {o}
<1>1. pending \in Seq(Oids) /\ Len(pending) \in Nat \ {0}
  BY DEF TypeOK, Evaluating
<1>2. maxOids \in Nat \ {0} /\ (input.version = 1 => maxOids = 1)
  BY InputType DEF maxOids, TypeOK
<1>3. oids \in 1..Len(pending) /\ (input.version = 1 => oids = 1)
  BY <1>1, <1>2 DEF oids
<1>4. Batch \in Seq(Oids) /\ Rest \in Seq(Oids)
  BY <1>1, <1>3 DEF Batch, Rest
<1>5. pending = Batch \o Rest
  <2>1. SubSeq(pending, 1, oids) \o SubSeq(pending, oids + 1, Len(pending))
          = SubSeq(pending, 1, Len(pending))
    BY <1>1, <1>3, ConcatAdjacentSubSeq
  <2> QED
    BY <1>1, <2>1, SubSeqFull DEF Batch, Rest
<1>6. ASSUME input.version = 1 PROVE \E o \in Oids : ToSet(Batch) = {o}
  <2>1. Len(Batch) = 1 /\ Batch[1] \in Oids
    BY <1>1, <1>3, <1>6 DEF Batch
  <2>2. ToSet(Batch) = {Batch[1]}
    BY <1>4, <2>1 DEF ToSet
  <2> QED
    BY <2>1, <2>2
<1> QED
  BY <1>4, <1>5, <1>6

LEMMA InitInv == Init => IInv
<1> SUFFICES ASSUME Init PROVE IInv
  OBVIOUS
<1>1. TypeOK
  <2>1. targets \in Lists
    <3>1. <<>> \in Seq(Oids) /\ IsInjective(<<>>) /\ <<>> \in [ToSet(<<>>) -> Seq(Nat)]
      BY ToSetEmpty DEF IsInjective
    <3> QED
      BY <3>1, ListsIntro DEF Init
  <2>2. /\ newGet \in Seq(Oids) /\ newWalk \in Seq(Oids) /\ pending \in Seq(Filters)
        /\ asked \in Seq(Oids) /\ walked \in Seq(Oids)
    BY InputType DEF Init
  <2> QED
    BY <2>1, <2>2, ListsAreTargets DEF Init, TypeOK, Evaluating
<1>2. Combined
  <2>1. Filtered = {} /\ ToSet(targets.order) = {}
    BY ToSetEmpty DEF Init, Filtered
  <2> QED
    BY <2>1 DEF Init, Combined, Evaluating
<1>3. Accounted
  BY ToSetEmpty DEF Init, Accounted
<1> QED
  BY <1>1, <1>2, <1>3 DEF IInv

\* What a filter that could be evaluated adds to the verdicts and the lists.
LEMMA FilterFacts ==
  ASSUME TypeOK, FilterOK
  PROVE  \E ts \in Seq(Oids), list \in Seq(Nat) :
           /\ newWalk' \in Seq(Oids) /\ ToSet(newWalk') = ToSet(newWalk) \ ToSet(ts)
           /\ Joined(targets, targets', ToSet(ts), list)
           /\ verdicts' = verdicts \cup {[targets |-> ToSet(ts), allowed |-> ToSet(list)]}
           /\ pending' = Tail(pending) /\ pending' \in Seq(Filters)
           /\ UNCHANGED <<input, mib, phase, newGet, asked, got, walked>>
<1>1. PICK rows \in Rows :
        LET filter == Head(pending)
            allowedList == filterAllowedIndices(rows)
        IN  /\ newWalk' = updateWalkConfig(newWalk, filter)
            /\ targets' = AddTargets(targets, filter.targets, allowedList)
            /\ verdicts' = verdicts \cup {[targets |-> ToSet(filter.targets),
                                           allowed |-> ToSet(allowedList)]}
  BY DEF FilterOK
<1> DEFINE ts == Head(pending).targets
           list == filterAllowedIndices(rows)
<1>2. pending \in Seq(Filters) /\ pending # <<>>
  BY DEF FilterOK, TypeOK, Evaluating
<1>3. ts \in Seq(Oids) /\ Tail(pending) \in Seq(Filters)
  <2>1. Head(pending) \in Filters /\ Tail(pending) \in Seq(Filters)
    BY <1>2, HeadTail
  <2> QED
    BY <2>1 DEF Filters
<1>4. list \in Seq(Nat)
  BY AllowedType
<1>5. newWalk' \in Seq(Oids) /\ ToSet(newWalk') = ToSet(newWalk) \ ToSet(ts)
  <2>1. newWalk' = Keep(newWalk, ToSet(newWalk) \ ToSet(ts))
    BY <1>1 DEF updateWalkConfig
  <2>2. newWalk \in Seq(Oids)
    BY DEF TypeOK
  <2> HIDE DEF ts
  <2> QED
    BY <2>1, <2>2, KeepFacts
<1> HIDE DEF ts, list
<1>6. Joined(targets, targets', ToSet(ts), list)
  BY <1>1, <1>3, <1>4, TargetsAreLists, AddTargetsFacts DEF ts, list
<1> QED
  BY <1>1, <1>3, <1>4, <1>5, <1>6 DEF FilterOK, ts, list

LEMMA FilterOKInv ==
  ASSUME IInv, FilterOK
  PROVE  IInv'
<1> USE DEF IInv, Evaluating
<1>1. phase = "filter"
  BY DEF FilterOK
<1>2. PICK ts \in Seq(Oids), list \in Seq(Nat) :
           /\ newWalk' \in Seq(Oids) /\ ToSet(newWalk') = ToSet(newWalk) \ ToSet(ts)
           /\ Joined(targets, targets', ToSet(ts), list)
           /\ verdicts' = verdicts \cup {[targets |-> ToSet(ts), allowed |-> ToSet(list)]}
           /\ pending' = Tail(pending) /\ pending' \in Seq(Filters)
           /\ UNCHANGED <<input, mib, phase, newGet, asked, got, walked>>
  BY FilterFacts
<1> DEFINE v == [targets |-> ToSet(ts), allowed |-> ToSet(list)]
<1>3. v \in [targets: SUBSET Oids, allowed: SUBSET Nat]
  <2>1. ToSet(ts) \in SUBSET Oids /\ ToSet(list) \in SUBSET Nat
    BY DEF ToSet
  <2> QED
    BY <2>1
<1>4. TypeOK'
  <2>1. targets' \in Lists
    BY <1>2 DEF Joined
  <2>2. targets' \in [order: Seq(Oids), allowed: [ToSet(targets'.order) -> Seq(Nat)]]
        /\ IsInjective(targets'.order)
    BY <2>1, ListsAreTargets
  <2> QED
    BY <1>1, <1>2, <1>3, <2>2 DEF TypeOK
<1>4a. v.targets = ToSet(ts) /\ v.allowed = ToSet(list) /\ verdicts' = verdicts \cup {v}
  BY <1>2
<1> HIDE DEF v
<1>5. Filtered' = Filtered \cup ToSet(ts)
  BY <1>4a DEF Filtered
<1>6. ToSet(targets.order) = Filtered /\ ToSet(targets'.order) = Filtered'
  BY <1>2, <1>5 DEF Combined, Joined
<1>7. ASSUME NEW t \in Filtered'
      PROVE  ToSet(targets'.allowed[t]) = AllowedBy(t)'
  <2> DEFINE all == UNION {w.allowed : w \in verdicts}
  <2>1. AllowedBy(t)' =
          {j \in all \cup ToSet(list) :
             /\ \A w \in verdicts : t \in w.targets => j \in w.allowed
             /\ t \in ToSet(ts) => j \in ToSet(list)}
    <3>1. AllowedBy(t)' = {j \in UNION {w.allowed : w \in verdicts'} :
                             \A w \in verdicts' : t \in w.targets => j \in w.allowed}
      BY DEF AllowedBy
    <3>2. UNION {w.allowed : w \in verdicts'} = all \cup ToSet(list)
      BY <1>4a
    <3>3. \A j : (\A w \in verdicts' : t \in w.targets => j \in w.allowed) <=>
                 /\ \A w \in verdicts : t \in w.targets => j \in w.allowed
                 /\ t \in ToSet(ts) => j \in ToSet(list)
      BY <1>4a
    <3> HIDE DEF all
    <3> QED
      BY <3>1, <3>2, <3>3
  <2>2. CASE t \notin Filtered
    <3>1. t \in ToSet(ts) /\ \A w \in verdicts : t \notin w.targets
      BY <1>5, <2>2 DEF Filtered
    <3>2. AllowedBy(t)' = ToSet(list)
      BY <2>1, <3>1
    <3> QED
      BY <1>2, <1>6, <2>2, <3>2 DEF Joined
  <2>3. CASE t \in Filtered
    <3>1. \E w \in verdicts : t \in w.targets
      BY <2>3 DEF Filtered
    <3>2. ToSet(targets.allowed[t]) = AllowedBy(t)
      BY <2>3 DEF Combined
    <3>3. AllowedBy(t)' = IF t \in ToSet(ts) THEN AllowedBy(t) \cap ToSet(list) ELSE AllowedBy(t)
      BY <2>1, <3>1 DEF AllowedBy
    <3> QED
      BY <1>2, <1>6, <2>3, <3>2, <3>3 DEF Joined
  <2> QED
    BY <2>2, <2>3
<1>8. ToSet(newWalk)' = {s \in ToSet(input.walk) : s \notin Filtered}'
  BY <1>2, <1>5 DEF Combined
<1>9. Combined'
  BY <1>1, <1>2, <1>6, <1>7, <1>8 DEF Combined
<1>10. Accounted'
  BY <1>1, <1>2 DEF Accounted
<1> QED
  BY <1>4, <1>9, <1>10

\* The lists and the walk are left alone by all other steps.
LEMMA CombinedFrame ==
  ASSUME Combined, UNCHANGED <<input, newWalk, targets, verdicts, newGet>>,
         Evaluating' <=> Evaluating
  PROVE  Combined'
  BY DEF Combined, Filtered, AllowedBy

LEMMA StepInv == IInv /\ [Next]_vars => IInv'
<1> SUFFICES ASSUME IInv, [Next]_vars PROVE IInv'
  OBVIOUS
<1> USE DEF IInv, Evaluating
<1>1. CASE FilterOK
  BY <1>1, FilterOKInv
<1>2. CASE FilterFails
  <2>1. TypeOK'
    BY <1>2, HeadTail DEF FilterFails, TypeOK
  <2> QED
    BY <1>2, <2>1, CombinedFrame DEF FilterFails, Accounted
<1>3. CASE Combine
  <2>1. newGet = input.get /\ newGet' = ApplyTargets(input.get, targets) /\ newGet' \in Seq(Oids)
    BY <1>3, TargetsAreLists, ApplyTargetsFacts DEF Combine, Combined, TypeOK
  <2>2. TypeOK'
    BY <1>3, <2>1 DEF Combine, TypeOK
  <2>3. Combined'
    BY <1>3, <2>1 DEF Combine, Combined, Filtered, AllowedBy
  <2>4. newGet' = <<>> \o pending'
    BY <1>3, <2>1 DEF Combine
  <2>5. Accounted'
    BY <1>3, <2>1, <2>4 DEF Combine, Accounted
  <2> QED
    BY <2>2, <2>3, <2>5
<1>4. CASE GetNoSuchName
  <2>1. /\ phase = "get" /\ asked' = asked \o Batch /\ pending' = Rest
        /\ UNCHANGED <<input, mib, phase, newGet, newWalk, targets, verdicts, got, walked>>
    BY <1>4 DEF GetNoSuchName
  <2>2. /\ Batch \in Seq(Oids) /\ Rest \in Seq(Oids) /\ pending = Batch \o Rest
        /\ ToSet(Batch) \cap mib = {}
    BY <1>4, <2>1, BatchFacts DEF GetNoSuchName
  <2>3. asked \in Seq(Oids) /\ newGet = asked \o pending
    BY <2>1 DEF TypeOK, Accounted
  <2>4. asked' \in Seq(Oids) /\ newGet' = asked' \o pending' /\ ToSet(asked') = ToSet(asked) \cup ToSet(Batch)
    <3>1. asked \o (Batch \o Rest) = (asked \o Batch) \o Rest
      BY <2>2, <2>3, ConcatAssociative
    <3>2. ToSet(asked \o Batch) = ToSet(asked) \cup ToSet(Batch)
      BY <2>2, <2>3, ToSetConcat
    <3> QED
      BY <2>1, <2>2, <2>3, <3>1, <3>2
  <2>5. TypeOK'
    BY <2>1, <2>2, <2>4 DEF TypeOK
  <2>6. Accounted'
    BY <2>1, <2>2, <2>4 DEF Accounted
  <2> QED
    BY <2>1, <2>5, <2>6, CombinedFrame
<1>5. CASE GetOK
  <2>1. /\ phase = "get" /\ asked' = asked \o Batch /\ pending' = Rest
        /\ got' = got \cup (ToSet(Batch) \cap mib)
        /\ UNCHANGED <<input, mib, phase, newGet, newWalk, targets, verdicts, walked>>
    BY <1>5 DEF GetOK
  <2>2. Batch \in Seq(Oids) /\ Rest \in Seq(Oids) /\ pending = Batch \o Rest
    BY <1>5, <2>1, BatchFacts DEF GetOK
  <2>3. asked \in Seq(Oids) /\ newGet = asked \o pending
    BY <2>1 DEF TypeOK, Accounted
  <2>4. asked' \in Seq(Oids) /\ newGet' = asked' \o pending' /\ ToSet(asked') = ToSet(asked) \cup ToSet(Batch)
    <3>1. asked \o (Batch \o Rest) = (asked \o Batch) \o Rest
      BY <2>2, <2>3, ConcatAssociative
    <3>2. ToSet(asked \o Batch) = ToSet(asked) \cup ToSet(Batch)
      BY <2>2, <2>3, ToSetConcat
    <3> QED
      BY <2>1, <2>2, <2>3, <3>1, <3>2
  <2>5. TypeOK'
    BY <2>1, <2>2, <2>4 DEF TypeOK
  <2>6. Accounted'
    BY <2>1, <2>4 DEF Accounted
  <2> QED
    BY <2>1, <2>5, <2>6, CombinedFrame
<1>6. CASE GetsDone
  <2>1. asked \in Seq(Oids) /\ newGet = asked
    BY <1>6 DEF GetsDone, TypeOK, Accounted
  <2>2. newWalk = <<>> \o newWalk
    BY DEF TypeOK
  <2>3. TypeOK'
    BY <1>6 DEF GetsDone, TypeOK
  <2>4. Accounted'
    BY <1>6, <2>1, <2>2 DEF GetsDone, Accounted
  <2> QED
    BY <1>6, <2>3, <2>4, CombinedFrame DEF GetsDone
<1>7. CASE WalkOK
  <2>1. pending \in Seq(Oids) /\ pending # <<>> /\ walked \in Seq(Oids) /\ newWalk = walked \o pending
    BY <1>7 DEF WalkOK, TypeOK, Accounted
  <2>2. Head(pending) \in Oids /\ Tail(pending) \in Seq(Oids) /\ pending = <<Head(pending)>> \o Tail(pending)
    BY <2>1, HeadTail
  <2>3. Append(walked, Head(pending)) = walked \o <<Head(pending)>>
    BY <2>1, <2>2
  <2>4. newWalk = Append(walked, Head(pending)) \o Tail(pending)
    BY <2>1, <2>2, <2>3, ConcatAssociative
  <2>5. TypeOK'
    BY <1>7, <2>1, <2>2 DEF WalkOK, TypeOK
  <2>6. Accounted'
    BY <1>7, <2>4 DEF WalkOK, Accounted
  <2> QED
    BY <1>7, <2>5, <2>6, CombinedFrame DEF WalkOK
<1>8. CASE WalksDone
  <2>1. newWalk = walked
    BY <1>8 DEF WalksDone, TypeOK, Accounted
  <2>2. TypeOK'
    BY <1>8 DEF WalksDone, TypeOK
  <2>3. Accounted'
    BY <1>8, <2>1 DEF WalksDone, Accounted
  <2> QED
    BY <1>8, <2>2, <2>3, CombinedFrame DEF WalksDone
<1>9. CASE RequestFails
  <2>1. TypeOK'
    BY <1>9 DEF RequestFails, TypeOK
  <2>2. Accounted'
    BY <1>9 DEF RequestFails, Accounted
  <2> QED
    BY <1>9, <2>1, <2>2, CombinedFrame DEF RequestFails
<1>10. CASE FilterPanics
  <2>1. TypeOK'
    BY <1>10 DEF FilterPanics, TypeOK
  <2>2. Accounted'
    BY <1>10 DEF FilterPanics, Accounted
  <2> QED
    BY <1>10, <2>1, <2>2, CombinedFrame DEF FilterPanics
<1>11. CASE UNCHANGED vars
  <2>1. TypeOK'
    BY <1>11 DEF vars, TypeOK
  <2>2. Accounted'
    BY <1>11 DEF vars, Accounted
  <2> QED
    BY <1>11, <2>1, <2>2, CombinedFrame DEF vars
<1> QED
  BY <1>1, <1>2, <1>3, <1>4, <1>5, <1>6, <1>7, <1>8, <1>9, <1>10, <1>11 DEF Next, Progress, Returned

\* What is left to ask for and to walk, and what the filters made of it, in
\* every state.
THEOREM Invariant == Spec => []IInv
  BY InitInv, StepInv, PTL DEF Spec

-----------------------------------------------------------------------------
(* The properties                                                             *)

\* Lists of OIDs stay lists of OIDs, and no target is on the combined list twice.
THEOREM TypeCorrect == Spec => []TypeOK
<1>1. IInv => TypeOK
  BY DEF IInv
<1> QED
  BY <1>1, Invariant, PTL

\* The loop over the batches (collector.go:144-170): every OID is asked for once
\* and in order, whatever max_repetitions, the version and the agent's refusals.
THEOREM AskedOnce == Spec => []EachAskedOnce
<1>1. IInv => EachAskedOnce
  <2> SUFFICES ASSUME IInv, phase \in {"get", "walk", "done"}
               PROVE  newGet = asked \o (IF phase = "get" THEN pending ELSE <<>>)
    BY DEF EachAskedOnce
  <2>1. asked \in Seq(Oids) /\ asked \o <<>> = asked
    BY DEF IInv, TypeOK
  <2> QED
    BY <2>1 DEF IInv, Accounted
<1> QED
  BY <1>1, Invariant, PTL

\* "SNMPv1 can only report one OID error per call" (collector.go:140): as its
\* batches have one OID, an instance is never refused together with another.
THEOREM NothingLost == Spec => []NoLostInstance
<1>1. IInv => NoLostInstance
  BY DEF IInv, Accounted, NoLostInstance
<1> QED
  BY <1>1, Invariant, PTL

\* "Do not try to filter anything if we had errors" (collector.go:107): for any
\* filters and any failures of theirs, a subtree is walked unless a filter that
\* could be evaluated replaced it by gets.
THEOREM AllWalked == Spec => []NothingUnwalked
<1>1. IInv => NothingUnwalked
  BY DEF IInv, Combined, Accounted, NothingUnwalked
<1> QED
  BY <1>1, Invariant, PTL

\* What the combined lists amount to.
LEMMA RowsOfTargets ==
  ASSUME IInv
  PROVE  UNION {{Append(targets.order[j], i) : i \in ToSet(targets.allowed[targets.order[j]])} :
                  j \in 1..Len(targets.order)}
         = UNION {{Append(t, i) : i \in AllowedBy(t)} : t \in Filtered}
<1> DEFINE rows(t) == {Append(t, i) : i \in ToSet(targets.allowed[t])}
<1>1. Filtered = {targets.order[j] : j \in 1..Len(targets.order)}
  BY DEF IInv, Combined, TypeOK, ToSet
<1>2. \A t \in Filtered : {Append(t, i) : i \in AllowedBy(t)} = rows(t)
  BY DEF IInv, Combined
<1>3. UNION {{Append(t, i) : i \in AllowedBy(t)} : t \in Filtered} = UNION {rows(t) : t \in Filtered}
  <2> HIDE DEF rows
  <2> QED
    BY <1>2
<1>4. UNION {rows(t) : t \in Filtered} = UNION {rows(targets.order[j]) : j \in 1..Len(targets.order)}
  <2> HIDE DEF rows
  <2> QED
    BY <1>1
<1> QED
  BY <1>3, <1>4

\* "remove each filtered target OID from the get config once, then add back only
\* the indices allowed by every filter targeting that OID" (collector.go:128-130):
\* for every configuration whose OIDs are not each other's string prefixes, any
\* overlap and order of filters and any of them failing.
THEOREM Filtering == Spec => []FilterSemanticsWhenSeparate
<1>1. IInv => FilterSemanticsWhenSeparate
  <2> SUFFICES ASSUME IInv, Separate, phase \in {"get", "walk", "done"}
               PROVE  ToSet(newGet) = ExpectedGet
    BY DEF FilterSemanticsWhenSeparate, FilterSemantics, FilteredGets
  <2>1. /\ targets \in Lists /\ input.get \in Seq(Oids)
        /\ newGet = ApplyTargets(input.get, targets)
        /\ ToSet(targets.order) = Filtered
    BY TargetsAreLists, InputType DEF IInv, TypeOK, Combined, Evaluating
  <2>2. Filtered \in SUBSET Oids /\ Filtered = {targets.order[j] : j \in 1..Len(targets.order)}
    <3>1. targets.order \in Seq(Oids)
      BY <2>1 DEF Lists
    <3> QED
      BY <2>1, <3>1 DEF ToSet
  <2>3. Apart(Filtered)
    BY <2>2, SeparateIsApart DEF Separate
  <2>4. ToSet(newGet) = Applied(input.get, targets, Len(targets.order))
    BY <2>1, <2>3, ApplyTargetsFacts
  <2>5. \A t \in Filtered, g \in ToSet(input.get) : HasPrefix(g, t) <=> IsPrefix(t, g)
    <3>1. \A g \in ToSet(input.get) : g \in Oids
      BY <2>1 DEF ToSet
    <3> QED
      BY <2>2, <3>1, PrefixIsTextPrefix DEF Separate
  <2>6. {g \in ToSet(input.get) : \A j \in 1..Len(targets.order) : ~HasPrefix(g, targets.order[j])}
          = {g \in ToSet(input.get) : \A t \in Filtered : ~IsPrefix(t, g)}
    BY <2>2, <2>5
  <2>7. ExpectedGet = {g \in ToSet(input.get) : \A t \in Filtered : ~IsPrefix(t, g)} \cup
                      UNION {{Append(t, i) : i \in AllowedBy(t)} : t \in Filtered}
    BY DEF ExpectedGet, AllowedBy
  <2> QED
    BY <2>4, <2>6, <2>7, RowsOfTargets DEF Applied
<1> QED
  BY <1>1, Invariant, PTL
=============================================================================
