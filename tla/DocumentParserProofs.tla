------------------------ MODULE DocumentParserProofs ------------------------
(***************************************************************************)
(* Theorems about the parser, for texts of any length: where it is, that   *)
(* what it returns is the one tree that the grammar gives the text, that   *)
(* the editor features read the names of a text as that tree does, and     *)
(* that an error points at the first token that cannot be part of a text.  *)
(*                                                                         *)
(* First the grammar by itself.  It is a function defined by recursion, so *)
(* it has to be shown to exist; then, that no text has two trees.          *)
(***************************************************************************)
EXTENDS EditorSymbols, SequenceTheorems, FiniteSetTheorems, WellFoundedInduction, TLAPS

(***************************************************************************)
(* A set that holds 0, and n + 1 with each n below a bound, holds every    *)
(* number up to the bound.  (The provers cannot instantiate an induction   *)
(* rule with a predicate, so it is used through sets.)                     *)
(***************************************************************************)
LEMMA CountUp ==
  ASSUME NEW bound \in Nat, NEW S, 0 \in S,
         \A n \in Nat : n < bound /\ n \in S => n + 1 \in S
  PROVE  0..bound \subseteq S
<1> DEFINE R == OpToRel(<, Nat)
           T == (0..bound) \ S
<1>1. ASSUME NEW n \in Nat, n # 0 PROVE <<n - 1, n>> \in R
  BY <1>1 DEF OpToRel
<1>2. IsWellFoundedOn(R, Nat)
  BY NatLessThanWellFounded
<1>3. \A n \in T : n # 0 /\ n - 1 \in T
  OBVIOUS
<1>4. T \subseteq Nat
  OBVIOUS
<1> HIDE DEF R, T
<1>5. ASSUME T # {} PROVE FALSE
  <2>1. PICK n \in T : \A m \in T : <<m, n>> \notin R
    BY <1>2, <1>4, <1>5, WFMin
  <2>2. QED
    BY <1>1, <1>3, <1>4, <2>1
<1>6. QED
  BY <1>5 DEF T

Spans(ts) == (0..4) \X (1..Len(ts)) \X (0..Len(ts))

Obeys(ts, D) == D = [s \in Spans(ts) |-> Ways(ts, D, s[1], s[2], s[3])]

(***************************************************************************)
(* What is over a span depends on what is over spans of less weight.       *)
(***************************************************************************)
Weight(l, from, to) == IF to < from THEN 0 ELSE 5 * (to - from) + 5 - l

Agree(ts, D, E, n) ==
  \A l \in 0..4, from \in 1..Len(ts), to \in 0..Len(ts) :
    Weight(l, from, to) < n => D[<<l, from, to>>] = E[<<l, from, to>>]

Splits(ts, D, from, to, x, k) ==
  /\ k \in from + 1..to - 1 /\ ts[k] = "COMMA"
  /\ \E a \in D[<<0, from, k - 1>>], d \in D[<<1, k + 1, to>>] : x = Append(a, d)

Joins(ts, D, l, from, to, x, k) ==
  /\ k \in from + 1..to - 1 /\ ts[k] \in Operators[l]
  /\ \E a \in D[<<l, from, k - 1>>], b \in D[<<l + 1, k + 1, to>>] : x = Tree("binary", k, <<a, b>>)

LEMMA InListed ==
  ASSUME NEW ts, NEW D, NEW from, NEW to, NEW x
  PROVE  x \in Listed(ts, D, from, to) <=>
           (\E d \in D[<<1, from, to>>] : x = <<d>>) \/ \E k : Splits(ts, D, from, to, x, k)
<1> DEFINE K == {k \in from + 1..to - 1 : ts[k] = "COMMA"}
           J(k) == {Append(a, d) : a \in D[<<0, from, k - 1>>], d \in D[<<1, k + 1, to>>]}
<1>1. ASSUME NEW k
      PROVE  x \in J(k) <=> \E a \in D[<<0, from, k - 1>>], d \in D[<<1, k + 1, to>>] : x = Append(a, d)
  OBVIOUS
<1>2. Listed(ts, D, from, to) = {<<d>> : d \in D[<<1, from, to>>]} \cup UNION {J(k) : k \in K}
  BY DEF Listed
<1>3. x \in {<<d>> : d \in D[<<1, from, to>>]} <=> \E d \in D[<<1, from, to>>] : x = <<d>>
  OBVIOUS
<1>4. \A k : k \in K <=> k \in from + 1..to - 1 /\ ts[k] = "COMMA"
  OBVIOUS
<1> HIDE DEF J, K
<1>5. x \in UNION {J(k) : k \in K} <=> \E k \in K : x \in J(k)
  OBVIOUS
<1>6. QED
  BY <1>1, <1>2, <1>3, <1>4, <1>5, Zenon DEF Splits

LEMMA InJoined ==
  ASSUME NEW ts, NEW D, NEW l, NEW from, NEW to, NEW x
  PROVE  x \in Joined(ts, D, l, from, to) <=> \E k : Joins(ts, D, l, from, to, x, k)
<1> DEFINE K == {k \in from + 1..to - 1 : ts[k] \in Operators[l]}
           J(k) == {Tree("binary", k, <<a, b>>) : a \in D[<<l, from, k - 1>>], b \in D[<<l + 1, k + 1, to>>]}
<1>1. ASSUME NEW k
      PROVE  x \in J(k) <=> \E a \in D[<<l, from, k - 1>>], b \in D[<<l + 1, k + 1, to>>] :
                               x = Tree("binary", k, <<a, b>>)
  OBVIOUS
<1>2. Joined(ts, D, l, from, to) = UNION {J(k) : k \in K}
  BY DEF Joined
<1>3. \A k : k \in K <=> k \in from + 1..to - 1 /\ ts[k] \in Operators[l]
  OBVIOUS
<1> HIDE DEF J, K
<1>4. x \in UNION {J(k) : k \in K} <=> \E k \in K : x \in J(k)
  OBVIOUS
<1>5. QED
  BY <1>1, <1>2, <1>3, <1>4, Zenon DEF Joins

LEMMA ListedGrows ==
  ASSUME NEW ts, NEW D, NEW E, NEW from, NEW to,
         D[<<1, from, to>>] = E[<<1, from, to>>],
         \A k \in from + 1..to - 1 : /\ D[<<0, from, k - 1>>] = E[<<0, from, k - 1>>]
                                     /\ D[<<1, k + 1, to>>] = E[<<1, k + 1, to>>],
         NEW x \in Listed(ts, D, from, to)
  PROVE  x \in Listed(ts, E, from, to)
<1>1. CASE \E d \in D[<<1, from, to>>] : x = <<d>>
  BY <1>1, InListed, Zenon
<1>2. CASE ~\E d \in D[<<1, from, to>>] : x = <<d>>
  <2>1. PICK k : Splits(ts, D, from, to, x, k)
    BY <1>2, InListed, Zenon
  <2>2. Splits(ts, E, from, to, x, k)
    BY <2>1, Zenon DEF Splits
  <2>3. QED
    BY <2>2, InListed, Zenon
<1>3. QED
  BY <1>1, <1>2

LEMMA ListedLocal ==
  ASSUME NEW T, NEW ts \in Seq(T), NEW D, NEW E, NEW from \in 1..Len(ts), NEW to \in from..Len(ts),
         Agree(ts, D, E, Weight(0, from, to))
  PROVE  Listed(ts, D, from, to) = Listed(ts, E, from, to)
<1>1. D[<<1, from, to>>] = E[<<1, from, to>>]
  BY DEF Agree, Weight
<1>2. ASSUME NEW k \in from + 1..to - 1
      PROVE  D[<<0, from, k - 1>>] = E[<<0, from, k - 1>>] /\ D[<<1, k + 1, to>>] = E[<<1, k + 1, to>>]
  <2>1. Weight(0, from, k - 1) < Weight(0, from, to) /\ Weight(1, k + 1, to) < Weight(0, from, to)
    BY DEF Weight
  <2>2. /\ 0 \in 0..4 /\ 1 \in 0..4 /\ k + 1 \in 1..Len(ts)
        /\ k - 1 \in 0..Len(ts) /\ to \in 0..Len(ts)
    OBVIOUS
  <2>3. QED
    BY <2>1, <2>2 DEF Agree
<1>3. \A x \in Listed(ts, D, from, to) : x \in Listed(ts, E, from, to)
  BY <1>1, <1>2, ListedGrows, Zenon
<1>4. \A x \in Listed(ts, E, from, to) : x \in Listed(ts, D, from, to)
  BY <1>1, <1>2, ListedGrows, Zenon
<1>5. QED
  BY <1>3, <1>4

LEMMA JoinedGrows ==
  ASSUME NEW ts, NEW D, NEW E, NEW l, NEW from, NEW to,
         \A k \in from + 1..to - 1 : /\ D[<<l, from, k - 1>>] = E[<<l, from, k - 1>>]
                                     /\ D[<<l + 1, k + 1, to>>] = E[<<l + 1, k + 1, to>>],
         NEW x \in Joined(ts, D, l, from, to)
  PROVE  x \in Joined(ts, E, l, from, to)
<1>1. PICK k : Joins(ts, D, l, from, to, x, k)
  BY InJoined, Zenon
<1>2. Joins(ts, E, l, from, to, x, k)
  BY <1>1, Zenon DEF Joins
<1>3. QED
  BY <1>2, InJoined, Zenon

LEMMA JoinedLocal ==
  ASSUME NEW T, NEW ts \in Seq(T), NEW D, NEW E, NEW from \in 1..Len(ts), NEW to \in from..Len(ts),
         NEW l \in 1..3, Agree(ts, D, E, Weight(l, from, to))
  PROVE  /\ D[<<l + 1, from, to>>] = E[<<l + 1, from, to>>]
         /\ Joined(ts, D, l, from, to) = Joined(ts, E, l, from, to)
<1>1. D[<<l + 1, from, to>>] = E[<<l + 1, from, to>>]
  BY DEF Agree, Weight
<1>2. ASSUME NEW k \in from + 1..to - 1
      PROVE  D[<<l, from, k - 1>>] = E[<<l, from, k - 1>>] /\ D[<<l + 1, k + 1, to>>] = E[<<l + 1, k + 1, to>>]
  <2>1. Weight(l, from, k - 1) < Weight(l, from, to) /\ Weight(l + 1, k + 1, to) < Weight(l, from, to)
    BY DEF Weight
  <2>2. /\ l \in 0..4 /\ l + 1 \in 0..4 /\ k + 1 \in 1..Len(ts)
        /\ k - 1 \in 0..Len(ts) /\ to \in 0..Len(ts)
    OBVIOUS
  <2>3. QED
    BY <2>1, <2>2 DEF Agree
<1>3. \A x \in Joined(ts, D, l, from, to) : x \in Joined(ts, E, l, from, to)
  BY <1>2, JoinedGrows, Zenon
<1>4. \A x \in Joined(ts, E, l, from, to) : x \in Joined(ts, D, l, from, to)
  BY <1>2, JoinedGrows, Zenon
<1>5. QED
  BY <1>1, <1>3, <1>4

LEMMA FactorsLocal ==
  ASSUME NEW T, NEW ts \in Seq(T), NEW D, NEW E, NEW from \in 1..Len(ts), NEW to \in from + 1..Len(ts),
         Agree(ts, D, E, Weight(4, from, to))
  PROVE  /\ Negated(ts, D, from, to) = Negated(ts, E, from, to)
         /\ Enclosed(ts, D, from, to) = Enclosed(ts, E, from, to)
         /\ Called(ts, D, from, to) = Called(ts, E, from, to)
<1>1. Negated(ts, D, from, to) = Negated(ts, E, from, to)
  <2>1. Weight(4, from + 1, to) < Weight(4, from, to)
    BY DEF Weight
  <2>2. from + 1 \in 1..Len(ts) /\ to \in 0..Len(ts)
    OBVIOUS
  <2>3. D[<<4, from + 1, to>>] = E[<<4, from + 1, to>>]
    BY <2>1, <2>2 DEF Agree
  <2>4. QED
    BY <2>3 DEF Negated
<1>2. Enclosed(ts, D, from, to) = Enclosed(ts, E, from, to)
  <2>1. D[<<1, from + 1, to - 1>>] = E[<<1, from + 1, to - 1>>]
    BY DEF Agree, Weight
  <2>2. QED
    BY <2>1 DEF Enclosed
<1>3. Called(ts, D, from, to) = Called(ts, E, from, to)
  <2>1. CASE to = from + 1
    BY <2>1 DEF Called
  <2>2. CASE to > from + 1
    <3>1. D[<<0, from + 2, to - 1>>] = E[<<0, from + 2, to - 1>>]
      BY <2>2 DEF Agree, Weight
    <3>2. QED
      BY <3>1 DEF Called, Arguments
  <2>3. QED
    BY <2>1, <2>2
<1>4. QED
  BY <1>1, <1>2, <1>3

LEMMA WaysLocal ==
  ASSUME NEW T, NEW ts \in Seq(T), NEW D, NEW E,
         NEW l \in 0..4, NEW from \in 1..Len(ts), NEW to \in 0..Len(ts),
         Agree(ts, D, E, Weight(l, from, to))
  PROVE  Ways(ts, D, l, from, to) = Ways(ts, E, l, from, to)
<1>1. CASE to < from
  BY <1>1 DEF Ways
<1>2. CASE to >= from /\ l = 0
  <2>1. to \in from..Len(ts)
    BY <1>2
  <2>2. Listed(ts, D, from, to) = Listed(ts, E, from, to)
    BY <1>2, <2>1, ListedLocal
  <2>3. QED
    BY <1>2, <2>2 DEF Ways
<1>3. CASE to >= from /\ l \in 1..3
  <2>1. to \in from..Len(ts)
    BY <1>3
  <2>2. /\ D[<<l + 1, from, to>>] = E[<<l + 1, from, to>>]
        /\ Joined(ts, D, l, from, to) = Joined(ts, E, l, from, to)
    BY <1>3, <2>1, JoinedLocal
  <2>3. QED
    BY <1>3, <2>2 DEF Ways
<1>4. CASE to = from /\ l = 4
  BY <1>4 DEF Ways
<1>5. CASE to > from /\ l = 4
  <2>1. to \in from + 1..Len(ts)
    BY <1>5
  <2>2. /\ Negated(ts, D, from, to) = Negated(ts, E, from, to)
        /\ Enclosed(ts, D, from, to) = Enclosed(ts, E, from, to)
        /\ Called(ts, D, from, to) = Called(ts, E, from, to)
    BY <1>5, <2>1, FactorsLocal
  <2>3. QED
    BY <1>5, <2>2 DEF Ways
<1>6. QED
  BY <1>1, <1>2, <1>3, <1>4, <1>5


(***************************************************************************)
(* The grammar exists: it is built up by weight.                           *)
(***************************************************************************)
Upto(ts, D, n) ==
  \A l \in 0..4, from \in 1..Len(ts), to \in 0..Len(ts) :
    Weight(l, from, to) < n => D[<<l, from, to>>] = Ways(ts, D, l, from, to)

LEMMA UptoGrows ==
  ASSUME NEW T, NEW ts \in Seq(T), NEW n \in Nat, NEW D, Upto(ts, D, n)
  PROVE  \E E : E = [s \in Spans(ts) |-> E[s]] /\ Upto(ts, E, n + 1)
<1> DEFINE E == [s \in Spans(ts) |-> IF Weight(s[1], s[2], s[3]) = n
                                       THEN Ways(ts, D, s[1], s[2], s[3]) ELSE D[s]]
<1>1. ASSUME NEW l \in 0..4, NEW from \in 1..Len(ts), NEW to \in 0..Len(ts)
      PROVE  E[<<l, from, to>>] = IF Weight(l, from, to) = n THEN Ways(ts, D, l, from, to)
                                                             ELSE D[<<l, from, to>>]
  BY DEF Spans
<1>2. E = [s \in Spans(ts) |-> E[s]]
  OBVIOUS
<1> HIDE DEF E
<1>3. Agree(ts, D, E, n)
  BY <1>1 DEF Agree, Weight
<1>4. ASSUME NEW l \in 0..4, NEW from \in 1..Len(ts), NEW to \in 0..Len(ts), Weight(l, from, to) < n + 1
      PROVE  E[<<l, from, to>>] = Ways(ts, E, l, from, to)
  <2>1. Weight(l, from, to) \in Nat
    BY DEF Weight
  <2>2. Agree(ts, D, E, Weight(l, from, to))
    BY <1>3, <1>4, <2>1 DEF Agree, Weight
  <2>3. Ways(ts, D, l, from, to) = Ways(ts, E, l, from, to)
    BY <2>2, WaysLocal
  <2>4. CASE Weight(l, from, to) = n
    BY <1>1, <2>3, <2>4, Zenon
  <2>5. CASE Weight(l, from, to) < n
    <3>1. D[<<l, from, to>>] = Ways(ts, D, l, from, to)
      BY <2>5 DEF Upto
    <3>2. Weight(l, from, to) # n
      BY <2>1, <2>5
    <3>3. QED
      BY <1>1, <2>3, <3>1, <3>2, Zenon
  <2>6. QED
    BY <1>4, <2>1, <2>4, <2>5
<1>5. Upto(ts, E, n + 1)
  BY <1>4 DEF Upto
<1>6. QED
  BY <1>2, <1>5, Zenon

LEMMA GrammarExists ==
  ASSUME NEW T, NEW ts \in Seq(T)
  PROVE  Obeys(ts, Derivations(ts))
<1> DEFINE bound == 5 * Len(ts) + 6
           S == {n \in Nat : \E D : D = [s \in Spans(ts) |-> D[s]] /\ Upto(ts, D, n)}
<1>1. 0 \in S
  <2> DEFINE D == [s \in Spans(ts) |-> {}]
  <2>1. D = [s \in Spans(ts) |-> D[s]]
    OBVIOUS
  <2>2. Upto(ts, D, 0)
    BY DEF Upto, Weight
  <2> HIDE DEF D
  <2>3. QED
    BY <2>1, <2>2, Zenon
<1>2. ASSUME NEW n \in Nat, n \in S
      PROVE  n + 1 \in S
  <2>1. PICK D : Upto(ts, D, n)
    BY <1>2, Zenon
  <2>2. \E E : E = [s \in Spans(ts) |-> E[s]] /\ Upto(ts, E, n + 1)
    BY <2>1, UptoGrows, Zenon
  <2>3. n + 1 \in Nat
    OBVIOUS
  <2>4. QED
    BY <2>2, <2>3, Zenon
<1>3. bound \in Nat
  OBVIOUS
<1> HIDE DEF S, bound
<1>4. bound \in S
  <2>1. 0..bound \subseteq S
    BY <1>1, <1>2, <1>3, CountUp
  <2>2. QED
    BY <1>3, <2>1
<1>5. PICK D : D = [s \in Spans(ts) |-> D[s]] /\ Upto(ts, D, bound)
  BY <1>4, Zenon DEF S
<1>6. ASSUME NEW s \in Spans(ts)
      PROVE  D[s] = Ways(ts, D, s[1], s[2], s[3])
  <2>1. s[1] \in 0..4 /\ s[2] \in 1..Len(ts) /\ s[3] \in 0..Len(ts) /\ s = <<s[1], s[2], s[3]>>
    BY DEF Spans
  <2>2. Weight(s[1], s[2], s[3]) < bound
    BY <2>1 DEF Weight, bound
  <2>3. D[<<s[1], s[2], s[3]>>] = Ways(ts, D, s[1], s[2], s[3])
    BY <1>5, <2>1, <2>2, Zenon DEF Upto
  <2>4. QED
    BY <2>1, <2>3, Zenon
<1>7. Obeys(ts, D)
  <2>1. [s \in Spans(ts) |-> D[s]] = [s \in Spans(ts) |-> Ways(ts, D, s[1], s[2], s[3])]
    BY <1>6
  <2>2. QED
    BY <1>5, <2>1, Zenon DEF Obeys
<1>8. QED
  BY <1>7 DEF Obeys, Derivations, Spans

-----------------------------------------------------------------------------
(***************************************************************************)
(* Lists separated by commas.  E holds the elements over each span, L the  *)
(* lists from place g up to each other; ts are the tokens.  If elements    *)
(* from one place are the same over the same span, and a longer one goes   *)
(* on with a token of C where the shorter one ends, then lists are alike,  *)
(* but that they may also go on with a comma.                              *)
(***************************************************************************)
Single(E, g, x, t) == \E i \in E[<<g, t>>] : x = <<i>>

Cut(ts, E, L, g, x, t, k) ==
  /\ k \in g + 1..t - 1 /\ ts[k] = "COMMA"
  /\ \E a \in L[k - 1], i \in E[<<k + 1, t>>] : x = Append(a, i)

AreLists(ts, E, L, g) ==
  \A t \in g..Len(ts) : \A x \in L[t] :
    Single(E, g, x, t) \/ \E k : Cut(ts, E, L, g, x, t, k)

\* Of two elements or lists from one place, y the longer one.
GoesOn(ts, C, x, t, y, u) == (t = u => x = y) /\ (t < u => ts[t + 1] \in C)

ElementsGoOn(ts, E, C, g, last, other) ==
  \A from \in g..Len(ts) : \A t \in from..last, u \in from..other :
    \A x \in E[<<from, t>>], y \in E[<<from, u>>] :
      GoesOn(ts, C, x, t, y, u) /\ GoesOn(ts, C, y, u, x, t)

ListGoesOn(ts, E, L, C, g, x, t, y, u) ==
  /\ GoesOn(ts, C \cup {"COMMA"}, x, t, y, u)
  /\ t < u /\ ts[t + 1] = "COMMA" =>
       ~Single(E, g, y, u) /\ \A k : Cut(ts, E, L, g, y, u, k) => k > t

LEMMA LongerListGoesOn ==
  ASSUME NEW T, NEW ts \in Seq(T), NEW E, NEW L, NEW C, "COMMA" \notin C,
         NEW g \in 1..Len(ts), NEW last \in g..Len(ts), NEW other \in g..Len(ts),
         AreLists(ts, E, L, g), ElementsGoOn(ts, E, C, g, last, other),
         NEW t \in g..last, NEW u \in g..other, NEW x \in L[t], NEW y \in L[u],
         \A v \in g..t, w \in g..u : \A a \in L[v], b \in L[w] :
           v + w < t + u => /\ ListGoesOn(ts, E, L, C, g, a, v, b, w)
                            /\ ListGoesOn(ts, E, L, C, g, b, w, a, v),
         t <= u
  PROVE  ListGoesOn(ts, E, L, C, g, x, t, y, u)
<1>1. CASE Single(E, g, x, t) /\ Single(E, g, y, u)
  <2>1. PICK i \in E[<<g, t>>], j \in E[<<g, u>>] : x = <<i>> /\ y = <<j>>
    BY <1>1 DEF Single
  <2>2. GoesOn(ts, C, i, t, j, u)
    BY <2>1 DEF ElementsGoOn
  <2>3. QED
    BY <2>1, <2>2 DEF ListGoesOn, GoesOn
<1>2. ASSUME NEW k, Cut(ts, E, L, g, x, t, k), Single(E, g, y, u)
      PROVE  FALSE
  <2>1. PICK a \in L[k - 1] : TRUE
    BY <1>2 DEF Cut
  <2>2. k - 1 \in g..t /\ k - 1 < u /\ k - 1 + u < t + u /\ ts[k - 1 + 1] = "COMMA"
    BY <1>2 DEF Cut
  <2>3. ListGoesOn(ts, E, L, C, g, a, k - 1, y, u)
    BY <2>1, <2>2
  <2>4. QED
    BY <1>2, <2>2, <2>3 DEF ListGoesOn
<1>3. ASSUME NEW k, Cut(ts, E, L, g, y, u, k)
      PROVE  GoesOn(ts, C \cup {"COMMA"}, x, t, y, u) /\ (t < u /\ ts[t + 1] = "COMMA" => k > t)
  <2>1. PICK a \in L[k - 1], j \in E[<<k + 1, u>>] : y = Append(a, j)
    BY <1>3 DEF Cut
  <2>2. k \in g + 1..u - 1 /\ k - 1 \in g..u /\ t + (k - 1) < t + u /\ ts[k - 1 + 1] = "COMMA"
    BY <1>3 DEF Cut
  <2>3. ListGoesOn(ts, E, L, C, g, x, t, a, k - 1) /\ ListGoesOn(ts, E, L, C, g, a, k - 1, x, t)
    BY <2>1, <2>2
  <2>4. CASE t < k - 1
    BY <2>2, <2>3, <2>4 DEF ListGoesOn, GoesOn
  <2>5. CASE t = k - 1
    BY <2>2, <2>5 DEF GoesOn
  <2>6. CASE k - 1 < t
    <3>1. ~Single(E, g, x, t) /\ \A n : Cut(ts, E, L, g, x, t, n) => n > k - 1
      BY <2>2, <2>3, <2>6 DEF ListGoesOn
    <3>2. t \in g..Len(ts)
      OBVIOUS
    <3>3. PICK n : Cut(ts, E, L, g, x, t, n)
      BY <3>1, <3>2 DEF AreLists
    <3>4. PICK b \in L[n - 1], i \in E[<<n + 1, t>>] : x = Append(b, i)
      BY <3>3 DEF Cut
    <3>5. /\ n \in g + 1..t - 1 /\ n - 1 \in g..t /\ n - 1 < u
          /\ (n - 1) + u < t + u /\ ts[n - 1 + 1] = "COMMA"
      BY <3>3 DEF Cut
    <3>6. ListGoesOn(ts, E, L, C, g, b, n - 1, y, u)
      <4>1. u \in g..u
        OBVIOUS
      <4>2. QED
        BY <3>4, <3>5, <4>1
    <3>7. n = k
      BY <1>3, <2>2, <3>1, <3>3, <3>5, <3>6 DEF ListGoesOn
    <3>8. ListGoesOn(ts, E, L, C, g, b, n - 1, a, k - 1)
      <4>1. n \in Int /\ k \in Int /\ t \in Int /\ u \in Int /\ n <= t - 1 /\ k <= u - 1
        BY <2>2, <3>5
      <4>2. (n - 1) + (k - 1) < t + u
        BY <4>1
      <4>3. QED
        BY <2>1, <2>2, <3>4, <3>5, <4>2
    <3>9. b = a
      BY <3>7, <3>8 DEF ListGoesOn, GoesOn
    <3>10. GoesOn(ts, C, i, t, j, u)
      <4>1. k + 1 \in g..Len(ts) /\ t \in k + 1..last /\ u \in k + 1..other
        BY <2>2, <3>5, <3>7
      <4>2. i \in E[<<k + 1, t>>]
        BY <3>7
      <4>3. QED
        BY <4>1, <4>2 DEF ElementsGoOn
    <3>11. QED
      BY <2>1, <3>4, <3>9, <3>10 DEF GoesOn
  <2>7. QED
    BY <2>2, <2>4, <2>5, <2>6
<1>4. t \in g..Len(ts) /\ u \in g..Len(ts)
  OBVIOUS
<1>5. Single(E, g, x, t) \/ \E k : Cut(ts, E, L, g, x, t, k)
  BY <1>4 DEF AreLists
<1>6. Single(E, g, y, u) \/ \E k : Cut(ts, E, L, g, y, u, k)
  BY <1>4 DEF AreLists
<1>7. CASE Single(E, g, y, u)
  BY <1>1, <1>2, <1>5, <1>7, Zenon
<1>8. CASE ~Single(E, g, y, u)
  <2>1. GoesOn(ts, C \cup {"COMMA"}, x, t, y, u)
    BY <1>3, <1>6, <1>8, Zenon
  <2>2. QED
    BY <1>3, <1>8, <2>1 DEF ListGoesOn
<1>9. QED
  BY <1>7, <1>8

(***************************************************************************)
(* So lists are alike, by induction on where the two end.                  *)
(***************************************************************************)
LEMMA ListsGoOn ==
  ASSUME NEW T, NEW ts \in Seq(T), NEW E, NEW L, NEW C, "COMMA" \notin C,
         NEW g \in 1..Len(ts), NEW last \in g..Len(ts), NEW other \in g..Len(ts),
         AreLists(ts, E, L, g), ElementsGoOn(ts, E, C, g, last, other)
  PROVE  \A t \in g..last, u \in g..other : \A x \in L[t], y \in L[u] :
           /\ ListGoesOn(ts, E, L, C, g, x, t, y, u)
           /\ ListGoesOn(ts, E, L, C, g, y, u, x, t)
<1> DEFINE Good(n) == \A t \in g..last, u \in g..other : \A x \in L[t], y \in L[u] :
                        t + u < n => /\ ListGoesOn(ts, E, L, C, g, x, t, y, u)
                                     /\ ListGoesOn(ts, E, L, C, g, y, u, x, t)
           S == {n \in Nat : Good(n)}
<1>1. 0 \in S
  OBVIOUS
<1>2. ASSUME NEW n \in Nat, n \in S
      PROVE  n + 1 \in S
  <2>1. ASSUME NEW t \in g..last, NEW u \in g..other, NEW x \in L[t], NEW y \in L[u], t + u = n
        PROVE  /\ ListGoesOn(ts, E, L, C, g, x, t, y, u)
               /\ ListGoesOn(ts, E, L, C, g, y, u, x, t)
    <3>1. \A v \in g..t, w \in g..u : \A a \in L[v], b \in L[w] :
            v + w < t + u => /\ ListGoesOn(ts, E, L, C, g, a, v, b, w)
                             /\ ListGoesOn(ts, E, L, C, g, b, w, a, v)
      BY <1>2, <2>1
    <3>2. \A w \in g..u, v \in g..t : \A b \in L[w], a \in L[v] :
            w + v < u + t => /\ ListGoesOn(ts, E, L, C, g, b, w, a, v)
                             /\ ListGoesOn(ts, E, L, C, g, a, v, b, w)
      BY <3>1
    <3>3. ElementsGoOn(ts, E, C, g, other, last)
      BY DEF ElementsGoOn
    <3>4. t <= u => ListGoesOn(ts, E, L, C, g, x, t, y, u)
      BY <3>1, LongerListGoesOn
    <3>5. u <= t => ListGoesOn(ts, E, L, C, g, y, u, x, t)
      BY <3>2, <3>3, LongerListGoesOn
    <3>6. t > u => ListGoesOn(ts, E, L, C, g, x, t, y, u)
      BY DEF ListGoesOn, GoesOn
    <3>7. u > t => ListGoesOn(ts, E, L, C, g, y, u, x, t)
      BY DEF ListGoesOn, GoesOn
    <3>8. QED
      BY <3>4, <3>5, <3>6, <3>7
  <2>2. Good(n + 1)
    <3>1. ASSUME NEW t \in g..last, NEW u \in g..other, t + u < n + 1
          PROVE  t + u < n \/ t + u = n
      BY <3>1
    <3> HIDE DEF Good
    <3>2. Good(n)
      BY <1>2 DEF S
    <3>3. QED
      BY <2>1, <3>1, <3>2, Zenon DEF Good
  <2>3. QED
    BY <2>2
<1> HIDE DEF Good, S
<1>3. last + other + 1 \in Nat
  OBVIOUS
<1>4. last + other + 1 \in S
  <2>1. 0..last + other + 1 \subseteq S
    BY <1>1, <1>2, <1>3, CountUp
  <2>2. QED
    BY <1>3, <2>1
<1>5. Good(last + other + 1)
  BY <1>4 DEF S
<1>6. \A t \in g..last, u \in g..other : t + u < last + other + 1
  OBVIOUS
<1>7. QED
  BY <1>5, <1>6, Zenon DEF Good


-----------------------------------------------------------------------------
(***************************************************************************)
(* The trees of a text, rule by rule.                                      *)
(***************************************************************************)
Over(ts, l, from, to) == Derivations(ts)[<<l, from, to>>]

JoinsAt(ts, l, from, to, x, k) == Joins(ts, Derivations(ts), l, from, to, x, k)

LEMMA OverIsWays ==
  ASSUME NEW T, NEW ts \in Seq(T), NEW l \in 0..4, NEW from \in 1..Len(ts), NEW to \in 0..Len(ts)
  PROVE  Over(ts, l, from, to) = Ways(ts, Derivations(ts), l, from, to)
<1>1. Obeys(ts, Derivations(ts))
  BY GrammarExists
<1> DEFINE D == Derivations(ts)
<1> HIDE DEF D
<1>2. D = [s \in Spans(ts) |-> Ways(ts, D, s[1], s[2], s[3])]
  BY <1>1, Zenon DEF D, Obeys
<1>3. D[<<l, from, to>>] = Ways(ts, D, l, from, to)
  BY <1>2 DEF Spans
<1>4. QED
  BY <1>3 DEF D, Over

LEMMA NothingOver ==
  ASSUME NEW T, NEW ts \in Seq(T), NEW l \in 0..4, NEW from \in 1..Len(ts), NEW to \in 0..Len(ts), to < from
  PROVE  Over(ts, l, from, to) = {}
<1>1. Over(ts, l, from, to) = Ways(ts, Derivations(ts), l, from, to)
  BY OverIsWays
<1>2. QED
  BY <1>1 DEF Ways

LEMMA InLevel ==
  ASSUME NEW T, NEW ts \in Seq(T), NEW l \in 1..3, NEW from \in 1..Len(ts), NEW to \in from..Len(ts), NEW x
  PROVE  x \in Over(ts, l, from, to) <=>
           x \in Over(ts, l + 1, from, to) \/ \E k : JoinsAt(ts, l, from, to, x, k)
<1>1. l \in 0..4 /\ to \in 0..Len(ts)
  OBVIOUS
<1>2. Over(ts, l, from, to) = Ways(ts, Derivations(ts), l, from, to)
  BY <1>1, OverIsWays
<1>3. Ways(ts, Derivations(ts), l, from, to) =
        Over(ts, l + 1, from, to) \cup Joined(ts, Derivations(ts), l, from, to)
  BY DEF Ways, Over
<1>4. QED
  BY <1>2, <1>3, InJoined DEF JoinsAt

LEMMA InList ==
  ASSUME NEW T, NEW ts \in Seq(T), NEW from \in 1..Len(ts), NEW to \in from..Len(ts), NEW x
  PROVE  x \in Over(ts, 0, from, to) <=>
           \/ \E d \in Over(ts, 1, from, to) : x = <<d>>
           \/ \E k : Splits(ts, Derivations(ts), from, to, x, k)
<1>1. 0 \in 0..4 /\ to \in 0..Len(ts)
  OBVIOUS
<1>2. Over(ts, 0, from, to) = Ways(ts, Derivations(ts), 0, from, to)
  BY <1>1, OverIsWays
<1>3. Ways(ts, Derivations(ts), 0, from, to) = Listed(ts, Derivations(ts), from, to)
  BY DEF Ways
<1>4. QED
  BY <1>2, <1>3, InListed, Zenon DEF Over

LEMMA InWord ==
  ASSUME NEW T, NEW ts \in Seq(T), NEW at \in 1..Len(ts)
  PROVE  Over(ts, 4, at, at) = Word(ts, at)
  BY OverIsWays DEF Ways

Negation(ts, from, to, x) ==
  ts[from] = "MINUS" /\ \E d \in Over(ts, 4, from + 1, to) : x = Tree("negate", from, <<d>>)

Enclosure(ts, from, to, x) ==
  ts[from] = "LPAREN" /\ ts[to] = "RPAREN" /\ x \in Over(ts, 1, from + 1, to - 1)

Call(ts, from, to, x) ==
  /\ ts[from] \in Identifiers /\ ts[from + 1] = "LPAREN" /\ ts[to] = "RPAREN"
  /\ \/ to = from + 2 /\ x = Tree("call", from, << >>)
     \/ to # from + 2 /\ \E a \in Over(ts, 0, from + 2, to - 1) : x = Tree("call", from, a)

LEMMA InFactor ==
  ASSUME NEW T, NEW ts \in Seq(T), NEW from \in 1..Len(ts), NEW to \in from + 1..Len(ts), NEW x
  PROVE  x \in Over(ts, 4, from, to) <=>
           \/ Negation(ts, from, to, x) \/ Enclosure(ts, from, to, x) \/ Call(ts, from, to, x)
           \/ IsPath(ts, from, to) /\ x = PathOver(from, to)
<1> DEFINE D == Derivations(ts)
<1>1. 4 \in 0..4 /\ to \in 0..Len(ts)
  OBVIOUS
<1>2. Over(ts, 4, from, to) = Ways(ts, D, 4, from, to)
  BY <1>1, OverIsWays
<1>3. Ways(ts, D, 4, from, to) =
        Negated(ts, D, from, to) \cup Enclosed(ts, D, from, to) \cup Called(ts, D, from, to) \cup
        (IF IsPath(ts, from, to) THEN {PathOver(from, to)} ELSE {})
  <2> HIDE DEF D
  <2>1. QED
    BY DEF Ways
<1>4. x \in Negated(ts, D, from, to) <=> Negation(ts, from, to, x)
  BY DEF Negated, Negation, Over
<1>5. x \in Enclosed(ts, D, from, to) <=> Enclosure(ts, from, to, x)
  BY DEF Enclosed, Enclosure, Over
<1>6. x \in Called(ts, D, from, to) <=> Call(ts, from, to, x)
  BY DEF Called, Call, Arguments, Over
<1> HIDE DEF D
<1>7. QED
  BY <1>2, <1>3, <1>4, <1>5, <1>6

(***************************************************************************)
(* The tokens a tree of a level may go on with: the operators from that    *)
(* level on, or what makes a call or a path of a name.                     *)
(***************************************************************************)
Onward(l) == {"LPAREN", "DOT"} \cup UNION {Operators[j] : j \in l..3}

LEMMA OperatorsApart ==
  /\ \A i, j \in 1..3 : \A w : w \in Operators[i] /\ w \in Operators[j] => i = j
  /\ \A j \in 1..3 : \A w \in Operators[j] :
       w \notin {"LPAREN", "RPAREN", "DOT", "COMMA", "EOF", "NUMBER", "HUGE", "STRING"} \cup Identifiers
<1>1. Operators[1] = Comparisons /\ Operators[2] = Additions /\ Operators[3] = Multiplications
  BY DEF Operators
<1>2. \A j \in 1..3 : j = 1 \/ j = 2 \/ j = 3
  OBVIOUS
<1>3. QED
  BY <1>1, <1>2 DEF Comparisons, Additions, Multiplications, Identifiers

LEMMA OnwardMeans ==
  ASSUME NEW l \in 1..4
  PROVE  /\ "LPAREN" \in Onward(l) /\ "DOT" \in Onward(l)
         /\ {"RPAREN", "COMMA", "EOF", "AS"} \cap Onward(l) = {}
         /\ \A j \in 1..3 : \A w \in Operators[j] : w \in Onward(l) <=> l <= j
         /\ \A m \in l..4 : Onward(m) \subseteq Onward(l)
<1>1. \A w : w \in Onward(l) <=> w \in {"LPAREN", "DOT"} \/ \E j \in l..3 : w \in Operators[j]
  BY DEF Onward
<1>2. \A m \in l..4 : \A w : w \in Onward(m) => w \in {"LPAREN", "DOT"} \/ \E j \in m..3 : w \in Operators[j]
  BY DEF Onward
<1>3. \A j \in l..3 : j \in 1..3
  OBVIOUS
<1>4. {"RPAREN", "COMMA", "EOF", "AS"} \cap Onward(l) = {}
  BY <1>1, <1>3, OperatorsApart DEF Identifiers
<1>5. ASSUME NEW j \in 1..3, NEW w \in Operators[j]
      PROVE  w \in Onward(l) <=> l <= j
  <2>1. w \notin {"LPAREN", "DOT"}
    BY OperatorsApart
  <2>2. l <= j => j \in l..3
    OBVIOUS
  <2>3. ASSUME NEW i \in l..3, w \in Operators[i] PROVE l <= j
    BY <2>3, OperatorsApart
  <2>4. QED
    BY <1>1, <2>1, <2>2, <2>3
<1>6. \A m \in l..4 : \A j \in m..3 : j \in l..3
  OBVIOUS
<1>7. \A m \in l..4 : Onward(m) \subseteq Onward(l)
  BY <1>1, <1>2, <1>6
<1>8. QED
  BY <1>1, <1>4, <1>5, <1>7

(***************************************************************************)
(* No tree and no list begins with a closing parenthesis.                  *)
(***************************************************************************)
LEMMA NotClosedBefore ==
  ASSUME NEW T, NEW ts \in Seq(T), NEW l \in 0..4, NEW from \in 1..Len(ts), NEW to \in from..Len(ts),
         NEW x \in Over(ts, l, from, to)
  PROVE  ts[from] # "RPAREN"
<1> DEFINE Good(n) == \A m \in 0..4, t \in from..Len(ts) :
                        Weight(m, from, t) < n /\ Over(ts, m, from, t) # {} => ts[from] # "RPAREN"
           S == {n \in Nat : Good(n)}
<1>1. 0 \in S
  BY DEF Weight
<1>2. ASSUME NEW n \in Nat, n \in S
      PROVE  n + 1 \in S
  <2>1. ASSUME NEW m \in 0..4, NEW t \in from..Len(ts), Weight(m, from, t) = n,
               NEW y \in Over(ts, m, from, t)
        PROVE  ts[from] # "RPAREN"
    <3>1. Good(n)
      BY <1>2
    <3>2. CASE m = 4 /\ t = from
      <4>1. y \in Word(ts, from)
        BY <3>2, InWord
      <4>2. QED
        BY <4>1 DEF Word, Identifiers
    <3>3. CASE m = 4 /\ t > from
      <4>1. t \in from + 1..Len(ts)
        BY <3>3
      <4>2. \/ Negation(ts, from, t, y) \/ Enclosure(ts, from, t, y) \/ Call(ts, from, t, y)
            \/ IsPath(ts, from, t)
        BY <3>3, <4>1, InFactor
      <4>3. IsPath(ts, from, t) => ts[from] \in Identifiers
        BY <4>1 DEF IsPath
      <4>4. QED
        BY <4>2, <4>3 DEF Negation, Enclosure, Call, Identifiers
    <3>4. CASE m \in 1..3
      <4>1. CASE y \in Over(ts, m + 1, from, t)
        BY <2>1, <3>1, <3>4, <4>1 DEF Weight
      <4>2. ASSUME NEW k, JoinsAt(ts, m, from, t, y, k)
            PROVE  ts[from] # "RPAREN"
        <5>1. Over(ts, m, from, k - 1) # {} /\ k - 1 \in from..Len(ts) /\ k - 1 < t
          BY <4>2 DEF JoinsAt, Joins, Over
        <5>2. QED
          BY <2>1, <3>1, <5>1 DEF Weight
      <4>3. QED
        BY <2>1, <3>4, <4>1, <4>2, InLevel
    <3>5. CASE m = 0
      <4>1. CASE Over(ts, 1, from, t) # {}
        BY <2>1, <3>1, <3>5, <4>1 DEF Weight
      <4>2. ASSUME NEW k, Splits(ts, Derivations(ts), from, t, y, k)
            PROVE  ts[from] # "RPAREN"
        <5>1. Over(ts, 0, from, k - 1) # {} /\ k - 1 \in from..Len(ts) /\ k - 1 < t
          BY <4>2 DEF Splits, Over
        <5>2. QED
          BY <2>1, <3>1, <3>5, <5>1 DEF Weight
      <4>3. QED
        BY <2>1, <3>5, <4>1, <4>2, InList
    <3>6. QED
      BY <3>2, <3>3, <3>4, <3>5
  <2>2. Good(n + 1)
    <3>1. \A m \in 0..4, t \in from..Len(ts) : Weight(m, from, t) < n + 1 => Weight(m, from, t) < n \/ Weight(m, from, t) = n
      BY DEF Weight
    <3> HIDE DEF Good
    <3>2. Good(n)
      BY <1>2 DEF S
    <3>3. QED
      BY <2>1, <3>1, <3>2 DEF Good
  <2>3. QED
    BY <2>2
<1>3. 5 * Len(ts) + 6 \in Nat
  OBVIOUS
<1> HIDE DEF Good, S
<1>4. 5 * Len(ts) + 6 \in S
  <2>1. 0..5 * Len(ts) + 6 \subseteq S
    BY <1>1, <1>2, <1>3, CountUp
  <2>2. QED
    BY <1>3, <2>1
<1>5. Weight(l, from, to) < 5 * Len(ts) + 6
  BY DEF Weight
<1>6. QED
  BY <1>4, <1>5 DEF Good, S

-----------------------------------------------------------------------------
(***************************************************************************)
(* No text has two trees.  Of two trees from one place, of any levels, the *)
(* longer one goes on where the shorter one ends with an operator of its   *)
(* own level or a higher one; behind its own operator, of a higher one.    *)
(***************************************************************************)
TreeGoesOn(ts, x, t, l, y, u) ==
  /\ GoesOn(ts, Onward(l), x, t, y, u)
  /\ \A j \in 1..3 : t < u /\ y.kind = "binary" /\ ts[y.at] \in Operators[j] /\ y.at <= t =>
                       ts[t + 1] \in Onward(j + 1)

Burden(m, l, from, t, u) == 10 * ((t - from) + (u - from)) + 8 - (m + l)

Below(ts, n) ==
  \A m, l \in 1..4, from \in 1..Len(ts) : \A t, u \in from..Len(ts) :
    \A x \in Over(ts, m, from, t), y \in Over(ts, l, from, u) :
      Burden(m, l, from, t, u) < n => TreeGoesOn(ts, x, t, l, y, u)

JoinsOf(ts, l, from, to, x, k, a, b) ==
  /\ k \in from + 1..to - 1 /\ ts[k] \in Operators[l]
  /\ a \in Over(ts, l, from, k - 1) /\ b \in Over(ts, l + 1, k + 1, to)
  /\ x = Tree("binary", k, <<a, b>>)

LEMMA LighterSpan ==
  ASSUME NEW m \in 1..4, NEW l \in 1..4, NEW from \in Nat, NEW t \in Nat, NEW u \in Nat,
         NEW v \in Nat, NEW w \in Nat, v <= t, w <= u, v < t \/ w < u
  PROVE  /\ Burden(m, l, from, v, w) < Burden(m, l, from, t, u)
         /\ Burden(l, m, from, v, w) < Burden(m, l, from, t, u)
         /\ Burden(m, l, from, w, v) < Burden(m, l, from, t, u)
         /\ Burden(l, m, from, w, v) < Burden(m, l, from, t, u)
  BY DEF Burden

LEMMA JoinsHasParts ==
  ASSUME NEW ts, NEW l, NEW from, NEW to, NEW x, NEW k, JoinsAt(ts, l, from, to, x, k)
  PROVE  \E a, b : JoinsOf(ts, l, from, to, x, k, a, b)
  BY Zenon DEF JoinsAt, Joins, JoinsOf, Over

(***************************************************************************)
(* y joins a and b at k: x does not end behind k, or it ends within b and  *)
(* joins the same a with what is so far of b.                              *)
(***************************************************************************)
LEMMA JoinedGoesOn ==
  ASSUME NEW T, NEW ts \in Seq(T), NEW m \in 1..4, NEW l \in 1..3, NEW from \in 1..Len(ts),
         NEW t \in from..Len(ts), NEW u \in t..Len(ts),
         NEW x \in Over(ts, m, from, t), NEW y \in Over(ts, l, from, u),
         Below(ts, Burden(m, l, from, t, u)),
         NEW k, NEW a, NEW b, JoinsOf(ts, l, from, u, y, k, a, b),
         m = 4 \/ \E n : JoinsAt(ts, m, from, t, x, n)
  PROVE  TreeGoesOn(ts, x, t, l, y, u)
<1>1. /\ k \in from + 1..u - 1 /\ k - 1 \in from..Len(ts) /\ k - 1 < u /\ ts[k] \in Operators[l]
      /\ a \in Over(ts, l, from, k - 1) /\ b \in Over(ts, l + 1, k + 1, u)
      /\ y = Tree("binary", k, <<a, b>>) /\ y.kind = "binary" /\ y.at = k
  BY DEF JoinsOf, Tree
<1>2. TreeGoesOn(ts, x, t, l, a, k - 1) /\ TreeGoesOn(ts, a, k - 1, m, x, t)
  <2>1. Burden(m, l, from, t, k - 1) < Burden(m, l, from, t, u)
        /\ Burden(l, m, from, k - 1, t) < Burden(m, l, from, t, u)
    <3>1. from \in Nat /\ t \in Nat /\ u \in Nat /\ k - 1 \in Nat /\ t <= t /\ k - 1 <= u /\ k - 1 < u /\ l \in 1..4
      BY <1>1
    <3>2. QED
      BY <3>1, LighterSpan
  <2>2. t \in from..Len(ts) /\ l \in 1..4
    OBVIOUS
  <2>3. QED
    BY <1>1, <2>1, <2>2, Zenon DEF Below
<1>3. CASE t <= k - 1
  <2>1. ts[t + 1] \in Onward(l)
    <3>1. CASE t < k - 1
      BY <1>2, <3>1 DEF TreeGoesOn, GoesOn
    <3>2. CASE t = k - 1
      <4>1. ts[t + 1] = ts[k]
        BY <1>1, <3>2
      <4>2. QED
        BY <1>1, <4>1, OnwardMeans
    <3>3. QED
      BY <1>1, <1>3, <3>1, <3>2
  <2>2. t < u /\ ~(y.at <= t)
    BY <1>1, <1>3
  <2>3. QED
    BY <2>1, <2>2 DEF TreeGoesOn, GoesOn
<1>4. CASE k - 1 < t
  <2>1. ts[k] \in Onward(m) /\ m <= l
    <3>1. ts[k - 1 + 1] \in Onward(m)
      BY <1>2, <1>4 DEF TreeGoesOn, GoesOn
    <3>2. ts[k] \in Onward(m)
      BY <1>1, <3>1
    <3>3. QED
      BY <1>1, <3>2, OnwardMeans
  <2>2. PICK n : JoinsAt(ts, m, from, t, x, n)
    BY <2>1
  <2>3. PICK c, d : JoinsOf(ts, m, from, t, x, n, c, d)
    BY <2>2, JoinsHasParts, Zenon
  <2>4. /\ n \in from + 1..t - 1 /\ n - 1 \in from..Len(ts) /\ n - 1 < t /\ ts[n] \in Operators[m]
        /\ c \in Over(ts, m, from, n - 1) /\ d \in Over(ts, m + 1, n + 1, t)
        /\ x = Tree("binary", n, <<c, d>>) /\ x.kind = "binary" /\ x.at = n
    <3>1. n \in from + 1..t - 1 /\ n - 1 \in from..Len(ts) /\ n - 1 < t
      BY <2>3 DEF JoinsOf
    <3>2. x = Tree("binary", n, <<c, d>>)
      BY <2>3 DEF JoinsOf
    <3>3. x.kind = "binary" /\ x.at = n
      BY <3>2 DEF Tree
    <3>4. QED
      BY <2>3, <3>1, <3>2, <3>3, Zenon DEF JoinsOf
  <2>5. TreeGoesOn(ts, c, n - 1, l, y, u)
    <3>1. Burden(m, l, from, n - 1, u) < Burden(m, l, from, t, u)
      <4>1. from \in Nat /\ t \in Nat /\ u \in Nat /\ n - 1 \in Nat /\ n - 1 <= t /\ n - 1 < t /\ u <= u /\ l \in 1..4
        BY <2>4
      <4>2. QED
        BY <4>1, LighterSpan
    <3>2. u \in from..Len(ts) /\ l \in 1..4
      OBVIOUS
    <3>3. QED
      BY <2>4, <3>1, <3>2, Zenon DEF Below
  <2>6. m \in 1..3 /\ m = l
    <3>1. ts[n - 1 + 1] \in Onward(l)
      BY <2>4, <2>5 DEF TreeGoesOn, GoesOn
    <3>2. ts[n] \in Onward(l)
      BY <2>4, <3>1
    <3>3. m \in 1..3
      BY <2>1
    <3>4. QED
      BY <2>1, <2>4, <3>2, <3>3, OnwardMeans
  <2>7. ~(n <= k - 1)
    <3>1. SUFFICES ASSUME n <= k - 1 PROVE FALSE
      OBVIOUS
    <3>2. ts[k - 1 + 1] \in Onward(m + 1)
      BY <1>2, <1>4, <2>4, <2>6, <3>1 DEF TreeGoesOn
    <3>3. ts[k] \in Onward(l + 1) /\ l + 1 \in 1..4
      BY <1>1, <2>6, <3>2
    <3>4. QED
      BY <1>1, <3>3, OnwardMeans
  <2>8. ~(k <= n - 1)
    <3>1. SUFFICES ASSUME k <= n - 1 PROVE FALSE
      OBVIOUS
    <3>2. n - 1 < u
      BY <2>4
    <3>3. ts[n - 1 + 1] \in Onward(l + 1)
      BY <1>1, <2>5, <3>1, <3>2 DEF TreeGoesOn
    <3>4. ts[n] \in Onward(m + 1) /\ m + 1 \in 1..4
      BY <2>4, <2>6, <3>3
    <3>5. QED
      BY <2>4, <2>6, <3>4, OnwardMeans
  <2>9. k = n
    BY <1>1, <2>4, <2>7, <2>8
  <2>10. a = c
    <3>1. TreeGoesOn(ts, a, k - 1, l, c, k - 1)
      <4>1. Burden(l, l, from, k - 1, k - 1) < Burden(m, l, from, t, u)
        <5>1. from \in Nat /\ t \in Nat /\ u \in Nat /\ k - 1 \in Nat /\ k - 1 <= t /\ k - 1 < u /\ k - 1 <= u /\ l \in 1..4
          BY <1>1, <1>4
        <5>2. QED
          BY <2>6, <5>1, LighterSpan
      <4>2. c \in Over(ts, l, from, k - 1) /\ l \in 1..4
        BY <2>4, <2>6, <2>9
      <4>3. QED
        BY <1>1, <4>1, <4>2, Zenon DEF Below
    <3>2. QED
      BY <3>1 DEF TreeGoesOn, GoesOn
  <2>11. TreeGoesOn(ts, d, t, l + 1, b, u)
    <3>1. Burden(l + 1, l + 1, k + 1, t, u) < Burden(m, l, from, t, u)
      BY <1>1, <2>4, <2>6, <2>9 DEF Burden
    <3>2. /\ k + 1 \in 1..Len(ts) /\ t \in k + 1..Len(ts) /\ u \in k + 1..Len(ts)
          /\ l + 1 \in 1..4 /\ d \in Over(ts, l + 1, k + 1, t)
      BY <1>1, <2>4, <2>6, <2>9
    <3>3. QED
      BY <1>1, <3>1, <3>2, Zenon DEF Below
  <2>12. t = u => x = y
    BY <1>1, <2>4, <2>9, <2>10, <2>11 DEF TreeGoesOn, GoesOn
  <2>13. ASSUME t < u PROVE ts[t + 1] \in Onward(l + 1)
    BY <2>11, <2>13 DEF TreeGoesOn, GoesOn
  <2>14. ASSUME t < u PROVE ts[t + 1] \in Onward(l)
    <3>1. l + 1 \in l..4
      OBVIOUS
    <3>2. QED
      BY <2>13, <2>14, <3>1, OnwardMeans
  <2>15. \A j \in 1..3 : ts[y.at] \in Operators[j] => j = l
    BY <1>1, OperatorsApart
  <2>16. QED
    BY <2>12, <2>13, <2>14, <2>15 DEF TreeGoesOn, GoesOn
<1>5. QED
  BY <1>1, <1>3, <1>4

\* A factor does not go on, so nothing longer is joined from it.
LEMMA JoinedBeforeFactor ==
  ASSUME NEW T, NEW ts \in Seq(T), NEW m \in 1..3, NEW from \in 1..Len(ts),
         NEW t \in from..Len(ts), NEW u \in t..Len(ts),
         NEW x \in Over(ts, m, from, t), NEW y \in Over(ts, 4, from, u),
         Below(ts, Burden(m, 4, from, t, u)),
         NEW n, JoinsAt(ts, m, from, t, x, n)
  PROVE  FALSE
<1>1. PICK c, d : JoinsOf(ts, m, from, t, x, n, c, d)
  BY JoinsHasParts, Zenon
<1>2. /\ n \in from + 1..t - 1 /\ n - 1 \in from..Len(ts) /\ n - 1 < t /\ ts[n] \in Operators[m]
      /\ c \in Over(ts, m, from, n - 1)
  BY <1>1 DEF JoinsOf
<1>3. TreeGoesOn(ts, c, n - 1, 4, y, u)
  <2>1. Burden(m, 4, from, n - 1, u) < Burden(m, 4, from, t, u)
    <3>1. from \in Nat /\ t \in Nat /\ u \in Nat /\ n - 1 \in Nat /\ n - 1 <= t /\ n - 1 < t /\ u <= u
      BY <1>2
    <3>2. 4 \in 1..4 /\ m \in 1..4
      OBVIOUS
    <3>3. QED
      BY <3>1, <3>2, LighterSpan
  <2>2. u \in from..Len(ts) /\ m \in 1..4 /\ 4 \in 1..4
    OBVIOUS
  <2>3. QED
    BY <1>2, <2>1, <2>2, Zenon DEF Below
<1>4. ts[n - 1 + 1] \in Onward(4)
  <2>1. n - 1 < u
    BY <1>2
  <2>2. QED
    BY <1>3, <2>1 DEF TreeGoesOn, GoesOn
<1>5. ts[n] \in Onward(4) /\ 4 \in 1..4
  BY <1>2, <1>4
<1>6. QED
  BY <1>2, <1>5, OnwardMeans

\* Lists of arguments, as the lists of the lemma above.
Elements(ts) == [s \in (1..Len(ts)) \X (0..Len(ts)) |-> Over(ts, 1, s[1], s[2])]
ListsFrom(ts, g) == [t \in 0..Len(ts) |-> Over(ts, 0, g, t)]

LEMMA ArgumentsAreLists ==
  ASSUME NEW T, NEW ts \in Seq(T), NEW g \in 1..Len(ts)
  PROVE  AreLists(ts, Elements(ts), ListsFrom(ts, g), g)
<1>1. \A f \in 1..Len(ts), t \in 0..Len(ts) : Elements(ts)[<<f, t>>] = Over(ts, 1, f, t)
  BY DEF Elements
<1>2. \A t \in 0..Len(ts) : ListsFrom(ts, g)[t] = Over(ts, 0, g, t)
  BY DEF ListsFrom
<1>3. ASSUME NEW t \in g..Len(ts), NEW x \in ListsFrom(ts, g)[t]
      PROVE  Single(Elements(ts), g, x, t) \/ \E k : Cut(ts, Elements(ts), ListsFrom(ts, g), g, x, t, k)
  <2>1. t \in 0..Len(ts) /\ x \in Over(ts, 0, g, t) /\ Elements(ts)[<<g, t>>] = Over(ts, 1, g, t)
    BY <1>1, <1>2
  <2>2. CASE \E d \in Over(ts, 1, g, t) : x = <<d>>
    BY <2>1, <2>2 DEF Single
  <2>3. ASSUME NEW k, Splits(ts, Derivations(ts), g, t, x, k)
        PROVE  Cut(ts, Elements(ts), ListsFrom(ts, g), g, x, t, k)
    <3>1. k \in g + 1..t - 1 /\ ts[k] = "COMMA"
      BY <2>3 DEF Splits
    <3>2. PICK a \in Over(ts, 0, g, k - 1), d \in Over(ts, 1, k + 1, t) : x = Append(a, d)
      BY <2>3 DEF Splits, Over
    <3>3. ListsFrom(ts, g)[k - 1] = Over(ts, 0, g, k - 1) /\ Elements(ts)[<<k + 1, t>>] = Over(ts, 1, k + 1, t)
      BY <1>1, <1>2, <2>1, <3>1
    <3>4. QED
      BY <3>1, <3>2, <3>3 DEF Cut
  <2>4. QED
    BY <2>1, <2>2, <2>3, InList
<1>4. QED
  BY <1>3 DEF AreLists

LEMMA ArgumentsGoOn ==
  ASSUME NEW T, NEW ts \in Seq(T), NEW n \in Nat, Below(ts, n), NEW g \in 1..Len(ts),
         NEW t \in g..Len(ts), NEW u \in g..Len(ts), Burden(1, 1, g, t, u) < n,
         NEW a \in Over(ts, 0, g, t), NEW b \in Over(ts, 0, g, u)
  PROVE  GoesOn(ts, Onward(1) \cup {"COMMA"}, a, t, b, u)
<1>1. ElementsGoOn(ts, Elements(ts), Onward(1), g, t, u)
  <2>1. ASSUME NEW from \in g..Len(ts), NEW v \in from..t, NEW w \in from..u,
               NEW x \in Elements(ts)[<<from, v>>], NEW y \in Elements(ts)[<<from, w>>]
        PROVE  GoesOn(ts, Onward(1), x, v, y, w) /\ GoesOn(ts, Onward(1), y, w, x, v)
    <3>1. x \in Over(ts, 1, from, v) /\ y \in Over(ts, 1, from, w)
      BY DEF Elements
    <3>2. Burden(1, 1, from, v, w) < n /\ Burden(1, 1, from, w, v) < n
      <4>1. /\ g \in Int /\ t \in Int /\ u \in Int /\ from \in Int /\ v \in Int /\ w \in Int
            /\ from >= g /\ v <= t /\ w <= u
        OBVIOUS
      <4>2. PICK i \in Int, j \in Int : i = (v - from) + (w - from) /\ j = (t - g) + (u - g)
        BY <4>1
      <4>3. i <= j
        BY <4>1, <4>2
      <4>4. /\ Burden(1, 1, from, v, w) = 10 * i + 8 - (1 + 1)
            /\ Burden(1, 1, from, w, v) = 10 * i + 8 - (1 + 1)
            /\ Burden(1, 1, g, t, u) = 10 * j + 8 - (1 + 1)
        BY <4>1, <4>2 DEF Burden
      <4>5. QED
        BY <4>3, <4>4
    <3>3. from \in 1..Len(ts) /\ v \in from..Len(ts) /\ w \in from..Len(ts) /\ 1 \in 1..4
      OBVIOUS
    <3>4. TreeGoesOn(ts, x, v, 1, y, w) /\ TreeGoesOn(ts, y, w, 1, x, v)
      BY <3>1, <3>2, <3>3, Zenon DEF Below
    <3>5. QED
      BY <3>4 DEF TreeGoesOn
  <2>2. QED
    BY <2>1 DEF ElementsGoOn
<1>2. AreLists(ts, Elements(ts), ListsFrom(ts, g), g)
  BY ArgumentsAreLists
<1>3. a \in ListsFrom(ts, g)[t] /\ b \in ListsFrom(ts, g)[u]
  BY DEF ListsFrom
<1>4. "COMMA" \notin Onward(1)
  <2>1. 1 \in 1..4
    OBVIOUS
  <2>2. QED
    BY <2>1, OnwardMeans
<1>5. ListGoesOn(ts, Elements(ts), ListsFrom(ts, g), Onward(1), g, a, t, b, u)
  <2>1. t \in g..t /\ u \in g..u
    OBVIOUS
  <2>2. QED
    BY <1>1, <1>2, <1>3, <1>4, <2>1, ListsGoOn
<1>6. QED
  BY <1>5 DEF ListGoesOn

(***************************************************************************)
(* Two factors from one place: what they begin with tells which they are.  *)
(***************************************************************************)
LEMMA FactorKind ==
  ASSUME NEW T, NEW ts \in Seq(T), NEW from \in 1..Len(ts), NEW t \in from..Len(ts),
         NEW x \in Over(ts, 4, from, t)
  PROVE  \/ t = from /\ x \in Word(ts, from) /\ ts[from] \in {"NUMBER", "STRING"} \cup Identifiers
         \/ t > from /\ Negation(ts, from, t, x) /\ ts[from] = "MINUS"
         \/ t > from /\ Enclosure(ts, from, t, x) /\ ts[from] = "LPAREN"
         \/ t > from /\ Call(ts, from, t, x) /\ ts[from] \in Identifiers /\ ts[from + 1] = "LPAREN"
         \/ /\ t > from /\ IsPath(ts, from, t) /\ x = PathOver(from, t)
            /\ ts[from] \in Identifiers /\ ts[from + 1] = "DOT"
<1>1. CASE t = from
  <2>1. x \in Word(ts, from)
    BY <1>1, InWord
  <2>2. QED
    BY <1>1, <2>1 DEF Word, Identifiers
<1>2. CASE t > from
  <2>1. t \in from + 1..Len(ts)
    BY <1>2
  <2>2. \/ Negation(ts, from, t, x) \/ Enclosure(ts, from, t, x) \/ Call(ts, from, t, x)
        \/ IsPath(ts, from, t) /\ x = PathOver(from, t)
    BY <2>1, InFactor
  <2>3. ASSUME IsPath(ts, from, t) PROVE ts[from] \in Identifiers /\ ts[from + 1] = "DOT"
    <3>1. from \in from..t /\ (from - from) % 2 = 0
      BY <2>1
    <3>2. from + 1 \in from..t /\ (from + 1 - from) % 2 # 0
      BY <2>1
    <3>3. QED
      BY <2>3, <3>1, <3>2 DEF IsPath
  <2>4. QED
    BY <1>2, <2>2, <2>3 DEF Negation, Enclosure, Call
<1>3. QED
  BY <1>1, <1>2

LEMMA NegationsGoOn ==
  ASSUME NEW T, NEW ts \in Seq(T), NEW from \in 1..Len(ts), NEW t \in from + 1..Len(ts), NEW u \in t..Len(ts),
         NEW x, NEW y, Below(ts, Burden(4, 4, from, t, u)),
         Negation(ts, from, t, x), Negation(ts, from, u, y)
  PROVE  GoesOn(ts, Onward(4), x, t, y, u)
<1>1. PICK d \in Over(ts, 4, from + 1, t), e \in Over(ts, 4, from + 1, u) :
        x = Tree("negate", from, <<d>>) /\ y = Tree("negate", from, <<e>>)
  BY DEF Negation
<1>2. TreeGoesOn(ts, d, t, 4, e, u)
  <2>1. Burden(4, 4, from + 1, t, u) < Burden(4, 4, from, t, u)
    BY DEF Burden
  <2>2. from + 1 \in 1..Len(ts) /\ t \in from + 1..Len(ts) /\ u \in from + 1..Len(ts) /\ 4 \in 1..4
    OBVIOUS
  <2>3. QED
    BY <2>1, <2>2, Zenon DEF Below
<1>3. QED
  BY <1>1, <1>2 DEF TreeGoesOn, GoesOn

LEMMA EnclosuresGoOn ==
  ASSUME NEW T, NEW ts \in Seq(T), NEW from \in 1..Len(ts), NEW t \in from + 1..Len(ts), NEW u \in t..Len(ts),
         NEW x, NEW y, Below(ts, Burden(4, 4, from, t, u)),
         Enclosure(ts, from, t, x), Enclosure(ts, from, u, y)
  PROVE  GoesOn(ts, Onward(4), x, t, y, u)
<1>1. /\ ts[t] = "RPAREN"
      /\ x \in Over(ts, 1, from + 1, t - 1) /\ y \in Over(ts, 1, from + 1, u - 1)
  BY DEF Enclosure
<1>2. t - 1 \in from + 1..Len(ts) /\ u - 1 \in from + 1..Len(ts)
  <2>1. from + 1 \in 1..Len(ts) /\ t - 1 \in 0..Len(ts) /\ u - 1 \in 0..Len(ts) /\ 1 \in 0..4
    OBVIOUS
  <2>2. t - 1 < from + 1 => Over(ts, 1, from + 1, t - 1) = {}
    BY <2>1, NothingOver
  <2>3. QED
    BY <1>1, <2>1, <2>2
<1>3. TreeGoesOn(ts, x, t - 1, 1, y, u - 1)
  <2>1. Burden(1, 1, from + 1, t - 1, u - 1) < Burden(4, 4, from, t, u)
    BY DEF Burden
  <2>2. from + 1 \in 1..Len(ts) /\ 1 \in 1..4
    OBVIOUS
  <2>3. QED
    BY <1>1, <1>2, <2>1, <2>2, Zenon DEF Below
<1>4. ~(t < u)
  <2>1. 1 \in 1..4
    OBVIOUS
  <2>2. "RPAREN" \notin Onward(1)
    BY <2>1, OnwardMeans
  <2>3. t < u => ts[t - 1 + 1] \in Onward(1)
    BY <1>3 DEF TreeGoesOn, GoesOn
  <2>4. QED
    BY <1>1, <2>2, <2>3
<1>5. QED
  BY <1>3, <1>4 DEF TreeGoesOn, GoesOn

LEMMA CallsGoOn ==
  ASSUME NEW T, NEW ts \in Seq(T), NEW from \in 1..Len(ts), NEW t \in from + 1..Len(ts), NEW u \in t..Len(ts),
         NEW x, NEW y, Below(ts, Burden(4, 4, from, t, u)),
         Call(ts, from, t, x), Call(ts, from, u, y)
  PROVE  GoesOn(ts, Onward(4), x, t, y, u)
<1>1. ts[from + 1] = "LPAREN" /\ ts[t] = "RPAREN" /\ ts[u] = "RPAREN" /\ t >= from + 2
  BY DEF Call
<1>2. CASE t = from + 2 /\ u = from + 2
  BY <1>2 DEF Call, GoesOn
<1>3. ASSUME u # from + 2
      PROVE  /\ u - 1 \in from + 2..Len(ts)
             /\ \E b \in Over(ts, 0, from + 2, u - 1) : y = Tree("call", from, b)
  BY <1>1, <1>3 DEF Call
<1>4. CASE t = from + 2 /\ u # from + 2
  <2>1. PICK b : b \in Over(ts, 0, from + 2, u - 1)
    BY <1>3, <1>4
  <2>2. 0 \in 0..4 /\ from + 2 \in 1..Len(ts)
    BY <1>1
  <2>3. ts[from + 2] # "RPAREN"
    BY <1>3, <1>4, <2>1, <2>2, NotClosedBefore
  <2>4. QED
    BY <1>1, <1>4, <2>3
<1>5. CASE t # from + 2
  <2>1. PICK a \in Over(ts, 0, from + 2, t - 1) : x = Tree("call", from, a)
    BY <1>5 DEF Call
  <2>2. u # from + 2
    BY <1>1, <1>5
  <2>3. PICK b \in Over(ts, 0, from + 2, u - 1) : y = Tree("call", from, b)
    BY <1>3, <2>2
  <2>4. from + 2 \in 1..Len(ts) /\ t - 1 \in from + 2..Len(ts) /\ u - 1 \in from + 2..Len(ts)
    BY <1>1, <1>5
  <2>5. Burden(1, 1, from + 2, t - 1, u - 1) < Burden(4, 4, from, t, u) /\ Burden(4, 4, from, t, u) \in Nat
    BY DEF Burden
  <2>6. GoesOn(ts, Onward(1) \cup {"COMMA"}, a, t - 1, b, u - 1)
    BY <2>4, <2>5, ArgumentsGoOn
  <2>7. ~(t < u)
    <3>1. 1 \in 1..4
      OBVIOUS
    <3>2. "RPAREN" \notin Onward(1)
      BY <3>1, OnwardMeans
    <3>3. t < u => ts[t - 1 + 1] \in Onward(1) \cup {"COMMA"}
      BY <2>6 DEF GoesOn
    <3>4. QED
      BY <1>1, <3>2, <3>3
  <2>8. QED
    BY <2>1, <2>3, <2>6, <2>7 DEF GoesOn
<1>6. QED
  BY <1>2, <1>4, <1>5

LEMMA PathsGoOn ==
  ASSUME NEW T, NEW ts \in Seq(T), NEW from \in 1..Len(ts), NEW t \in from + 1..Len(ts), NEW u \in t..Len(ts),
         IsPath(ts, from, t), IsPath(ts, from, u)
  PROVE  t < u => ts[t + 1] = "DOT"
<1>1. SUFFICES ASSUME t < u PROVE ts[t + 1] = "DOT"
  OBVIOUS
<1>2. (t - from) % 2 = 0
  BY DEF IsPath
<1>3. t + 1 \in from..u /\ (t + 1 - from) % 2 # 0
  BY <1>1, <1>2
<1>4. QED
  BY <1>3 DEF IsPath

LEMMA FactorGoesOn ==
  ASSUME NEW T, NEW ts \in Seq(T), NEW from \in 1..Len(ts), NEW t \in from..Len(ts), NEW u \in t..Len(ts),
         NEW x \in Over(ts, 4, from, t), NEW y \in Over(ts, 4, from, u),
         Below(ts, Burden(4, 4, from, t, u))
  PROVE  TreeGoesOn(ts, x, t, 4, y, u)
<1>1. 4 \in 1..4 /\ "LPAREN" \in Onward(4) /\ "DOT" \in Onward(4)
  <2>1. 4 \in 1..4
    OBVIOUS
  <2>2. QED
    BY <2>1, OnwardMeans
<1>2. GoesOn(ts, Onward(4), x, t, y, u)
  <2>1. CASE t = from
    <3>1. u = from => x = y
      <4>1. u = from => x \in Word(ts, from) /\ y \in Word(ts, from)
        BY <2>1, InWord
      <4>2. QED
        BY <4>1 DEF Word
    <3>2. u > from => ts[from + 1] \in {"LPAREN", "DOT"}
      <4>1. ts[from] \in {"NUMBER", "STRING"} \cup Identifiers
        BY <2>1, FactorKind
      <4>2. u \in from..Len(ts)
        OBVIOUS
      <4>3. QED
        BY <4>1, <4>2, FactorKind DEF Identifiers
    <3>3. QED
      BY <1>1, <2>1, <3>1, <3>2 DEF GoesOn
  <2>2. CASE t > from
    <3>1. t \in from + 1..Len(ts) /\ u \in from..Len(ts) /\ u > from
      BY <2>2
    <3>2. \/ Negation(ts, from, t, x) /\ ts[from] = "MINUS"
          \/ Enclosure(ts, from, t, x) /\ ts[from] = "LPAREN"
          \/ Call(ts, from, t, x) /\ ts[from] \in Identifiers /\ ts[from + 1] = "LPAREN"
          \/ IsPath(ts, from, t) /\ x = PathOver(from, t) /\ ts[from] \in Identifiers /\ ts[from + 1] = "DOT"
      BY <2>2, FactorKind
    <3>3. \/ Negation(ts, from, u, y) /\ ts[from] = "MINUS"
          \/ Enclosure(ts, from, u, y) /\ ts[from] = "LPAREN"
          \/ Call(ts, from, u, y) /\ ts[from] \in Identifiers /\ ts[from + 1] = "LPAREN"
          \/ IsPath(ts, from, u) /\ y = PathOver(from, u) /\ ts[from] \in Identifiers /\ ts[from + 1] = "DOT"
      BY <3>1, FactorKind
    <3>4. \/ Negation(ts, from, t, x) /\ Negation(ts, from, u, y)
          \/ Enclosure(ts, from, t, x) /\ Enclosure(ts, from, u, y)
          \/ Call(ts, from, t, x) /\ Call(ts, from, u, y)
          \/ IsPath(ts, from, t) /\ x = PathOver(from, t) /\ IsPath(ts, from, u) /\ y = PathOver(from, u)
      BY <3>2, <3>3 DEF Identifiers
    <3>5. CASE Negation(ts, from, t, x) /\ Negation(ts, from, u, y)
      BY <3>1, <3>5, NegationsGoOn
    <3>6. CASE Enclosure(ts, from, t, x) /\ Enclosure(ts, from, u, y)
      BY <3>1, <3>6, EnclosuresGoOn
    <3>7. CASE Call(ts, from, t, x) /\ Call(ts, from, u, y)
      BY <3>1, <3>7, CallsGoOn
    <3>8. CASE IsPath(ts, from, t) /\ x = PathOver(from, t) /\ IsPath(ts, from, u) /\ y = PathOver(from, u)
      <4>1. t < u => ts[t + 1] = "DOT"
        BY <3>1, <3>8, PathsGoOn
      <4>2. QED
        BY <1>1, <3>8, <4>1 DEF GoesOn
    <3>9. QED
      BY <3>4, <3>5, <3>6, <3>7, <3>8
  <2>3. QED
    BY <2>1, <2>2
<1>3. \A j \in 1..3 : Onward(4) \subseteq Onward(j + 1)
  <2>1. \A j \in 1..3 : j + 1 \in 1..4 /\ 4 \in j + 1..4
    OBVIOUS
  <2>2. QED
    BY <2>1, OnwardMeans
<1>4. QED
  BY <1>2, <1>3 DEF TreeGoesOn, GoesOn

(***************************************************************************)
(* Any two trees, by induction on the length of the two and on their       *)
(* levels, the lower of which are reduced to the higher.                   *)
(***************************************************************************)
LEMMA LongerTreeGoesOn ==
  ASSUME NEW T, NEW ts \in Seq(T), NEW m \in 1..4, NEW l \in 1..4, NEW from \in 1..Len(ts),
         NEW t \in from..Len(ts), NEW u \in t..Len(ts),
         NEW x \in Over(ts, m, from, t), NEW y \in Over(ts, l, from, u),
         Below(ts, Burden(m, l, from, t, u))
  PROVE  TreeGoesOn(ts, x, t, l, y, u)
<1>0. u \in from..Len(ts)
  OBVIOUS
<1>1. CASE l # 4 /\ y \in Over(ts, l + 1, from, u)
  <2>1. l + 1 \in 1..4 /\ Burden(m, l + 1, from, t, u) < Burden(m, l, from, t, u)
    BY <1>1 DEF Burden
  <2>2. TreeGoesOn(ts, x, t, l + 1, y, u)
    BY <1>0, <1>1, <2>1, Zenon DEF Below
  <2>3. Onward(l + 1) \subseteq Onward(l)
    <3>1. l + 1 \in l..4
      BY <1>1
    <3>2. QED
      BY <3>1, OnwardMeans
  <2>4. QED
    BY <2>2, <2>3 DEF TreeGoesOn, GoesOn
<1>2. CASE m # 4 /\ x \in Over(ts, m + 1, from, t)
  <2>1. m + 1 \in 1..4 /\ Burden(m + 1, l, from, t, u) < Burden(m, l, from, t, u)
    BY <1>2 DEF Burden
  <2>2. QED
    BY <1>0, <1>2, <2>1, Zenon DEF Below
<1>3. CASE l # 4 /\ y \notin Over(ts, l + 1, from, u) /\ ~(m # 4 /\ x \in Over(ts, m + 1, from, t))
  <2>1. l \in 1..3
    BY <1>3
  <2>2. PICK k : JoinsAt(ts, l, from, u, y, k)
    BY <1>0, <1>3, <2>1, InLevel
  <2>3. PICK a, b : JoinsOf(ts, l, from, u, y, k, a, b)
    BY <2>2, JoinsHasParts, Zenon
  <2>4. m = 4 \/ \E n : JoinsAt(ts, m, from, t, x, n)
    <3>1. m # 4 => m \in 1..3
      OBVIOUS
    <3>2. QED
      BY <1>3, <3>1, InLevel
  <2>5. QED
    BY <2>1, <2>3, <2>4, JoinedGoesOn
<1>4. CASE l = 4 /\ m = 4
  BY <1>4, FactorGoesOn
<1>5. CASE l = 4 /\ m # 4 /\ x \notin Over(ts, m + 1, from, t)
  <2>1. m \in 1..3
    BY <1>5
  <2>2. PICK n : JoinsAt(ts, m, from, t, x, n)
    BY <1>5, <2>1, InLevel
  <2>3. QED
    BY <1>5, <2>1, <2>2, JoinedBeforeFactor
<1>6. QED
  BY <1>1, <1>2, <1>3, <1>4, <1>5

LEMMA TreesGoOn ==
  ASSUME NEW T, NEW ts \in Seq(T), NEW bound \in Nat
  PROVE  Below(ts, bound)
<1> DEFINE S == {n \in Nat : Below(ts, n)}
<1>1. 0 \in S
  BY DEF Below, Burden
<1>2. ASSUME NEW n \in Nat, n \in S
      PROVE  n + 1 \in S
  <2>1. ASSUME NEW m \in 1..4, NEW l \in 1..4, NEW from \in 1..Len(ts),
               NEW t \in from..Len(ts), NEW u \in from..Len(ts),
               NEW x \in Over(ts, m, from, t), NEW y \in Over(ts, l, from, u),
               Burden(m, l, from, t, u) < n + 1
        PROVE  TreeGoesOn(ts, x, t, l, y, u)
    <3>1. Burden(m, l, from, t, u) \in Nat
      BY DEF Burden
    <3>2. CASE Burden(m, l, from, t, u) < n
      BY <1>2, <3>2, Zenon DEF Below
    <3>3. CASE Burden(m, l, from, t, u) = n /\ t <= u
      <4>1. Below(ts, Burden(m, l, from, t, u)) /\ u \in t..Len(ts)
        BY <1>2, <3>3
      <4>2. QED
        BY <4>1, LongerTreeGoesOn
    <3>4. CASE u < t
      BY <3>4 DEF TreeGoesOn, GoesOn
    <3>5. QED
      BY <2>1, <3>1, <3>2, <3>3, <3>4
  <2>2. Below(ts, n + 1)
    BY <2>1, Zenon DEF Below
  <2>3. QED
    BY <2>2
<1>3. bound \in S
  <2> HIDE DEF S
  <2>1. 0..bound \subseteq S
    BY <1>1, <1>2, CountUp
  <2>2. QED
    BY <2>1
<1>4. QED
  BY <1>3

LEMMA TreeGoesOnAlways ==
  ASSUME NEW T, NEW ts \in Seq(T), NEW m \in 1..4, NEW l \in 1..4, NEW from \in 1..Len(ts),
         NEW t \in from..Len(ts), NEW u \in from..Len(ts),
         NEW x \in Over(ts, m, from, t), NEW y \in Over(ts, l, from, u)
  PROVE  TreeGoesOn(ts, x, t, l, y, u)
<1>1. Burden(m, l, from, t, u) + 1 \in Nat /\ Burden(m, l, from, t, u) < Burden(m, l, from, t, u) + 1
  BY DEF Burden
<1>2. Below(ts, Burden(m, l, from, t, u) + 1)
  BY <1>1, TreesGoOn
<1>3. QED
  BY <1>1, <1>2, Zenon DEF Below

(***************************************************************************)
(* Items of a document, which may go on with the word in front of a name.  *)
(***************************************************************************)
Items(ts) == [s \in (1..Len(ts)) \X (0..Len(ts)) |-> ItemsOver(ts, Derivations(ts), s[1], s[2])]

LEMMA InItems ==
  ASSUME NEW ts, NEW from, NEW to, NEW x
  PROVE  x \in ItemsOver(ts, Derivations(ts), from, to) <=>
           \/ \E d \in Over(ts, 1, from, to) : x = Item(d, 0)
           \/ /\ to > from + 1 /\ ts[to - 1] = "AS" /\ ts[to] \in Identifiers
              /\ \E d \in Over(ts, 1, from, to - 2) : x = Item(d, to)
  BY DEF ItemsOver, Over

LEMMA ItemGoesOn ==
  ASSUME NEW T, NEW ts \in Seq(T), NEW from \in 1..Len(ts),
         NEW t \in from..Len(ts), NEW u \in from..Len(ts),
         NEW x \in ItemsOver(ts, Derivations(ts), from, t),
         NEW y \in ItemsOver(ts, Derivations(ts), from, u)
  PROVE  GoesOn(ts, Onward(1) \cup {"AS"}, x, t, y, u)
<1> DEFINE Plain(z, v) == \E d \in Over(ts, 1, from, v) : z = Item(d, 0)
           Named(z, v) == /\ v > from + 1 /\ ts[v - 1] = "AS"
                          /\ \E d \in Over(ts, 1, from, v - 2) : z = Item(d, v)
<1>1. Plain(x, t) \/ Named(x, t)
  BY InItems
<1>2. Plain(y, u) \/ Named(y, u)
  BY InItems
<1>3. "AS" \notin Onward(1) /\ 1 \in 1..4
  <2>1. 1 \in 1..4
    OBVIOUS
  <2>2. QED
    BY <2>1, OnwardMeans
<1>4. ASSUME NEW v \in from..Len(ts), NEW w \in from..Len(ts),
             NEW d \in Over(ts, 1, from, v), NEW e \in Over(ts, 1, from, w)
      PROVE  GoesOn(ts, Onward(1), d, v, e, w)
  BY <1>3, <1>4, TreeGoesOnAlways DEF TreeGoesOn
<1>5. CASE Plain(x, t) /\ Plain(y, u)
  <2>1. PICK d \in Over(ts, 1, from, t), e \in Over(ts, 1, from, u) : x = Item(d, 0) /\ y = Item(e, 0)
    BY <1>5
  <2>2. GoesOn(ts, Onward(1), d, t, e, u)
    BY <1>4
  <2>3. QED
    BY <2>1, <2>2 DEF GoesOn
<1>6. CASE Plain(x, t) /\ Named(y, u)
  <2>1. PICK d \in Over(ts, 1, from, t), e \in Over(ts, 1, from, u - 2) : TRUE
    BY <1>6
  <2>2. u - 2 \in from..Len(ts) /\ ts[u - 2 + 1] = "AS"
    BY <1>6
  <2>3. GoesOn(ts, Onward(1), d, t, e, u - 2) /\ GoesOn(ts, Onward(1), e, u - 2, d, t)
    BY <1>4, <2>1, <2>2
  <2>4. ~(u - 2 < t)
    BY <1>3, <2>2, <2>3 DEF GoesOn
  <2>5. t < u => ts[t + 1] \in Onward(1) \cup {"AS"}
    <3>1. CASE t = u - 2
      BY <2>2, <3>1
    <3>2. CASE t < u - 2
      BY <2>3, <3>2 DEF GoesOn
    <3>3. QED
      BY <2>4, <3>1, <3>2
  <2>6. t # u
    BY <2>4
  <2>7. QED
    BY <2>5, <2>6 DEF GoesOn
<1>7. CASE Named(x, t)
  <2>1. PICK d \in Over(ts, 1, from, t - 2) : x = Item(d, t)
    BY <1>7
  <2>2. t - 2 \in from..Len(ts) /\ ts[t - 2 + 1] = "AS"
    BY <1>7
  <2>3. CASE Plain(y, u)
    <3>1. PICK e \in Over(ts, 1, from, u) : TRUE
      BY <2>3
    <3>2. GoesOn(ts, Onward(1), d, t - 2, e, u)
      BY <1>4, <2>2
    <3>3. ~(t - 2 < u)
      BY <1>3, <2>2, <3>2 DEF GoesOn
    <3>4. QED
      BY <3>3 DEF GoesOn
  <2>4. CASE Named(y, u)
    <3>1. PICK e \in Over(ts, 1, from, u - 2) : y = Item(e, u)
      BY <2>4
    <3>2. u - 2 \in from..Len(ts)
      BY <2>4
    <3>3. GoesOn(ts, Onward(1), d, t - 2, e, u - 2)
      BY <1>4, <2>2, <3>2
    <3>4. ~(t - 2 < u - 2)
      BY <1>3, <2>2, <3>3 DEF GoesOn
    <3>5. t = u => x = y
      BY <2>1, <3>1, <3>3 DEF GoesOn
    <3>6. QED
      BY <3>4, <3>5 DEF GoesOn
  <2>5. QED
    BY <1>2, <2>3, <2>4
<1>8. QED
  BY <1>1, <1>2, <1>5, <1>6, <1>7

(***************************************************************************)
(* The lists of items, a function defined by recursion too.                *)
(***************************************************************************)
ItemCut(ts, D, L, x, to, k) ==
  /\ k \in 2..to - 1 /\ ts[k] = "COMMA"
  /\ \E a \in L[k - 1], i \in ItemsOver(ts, D, k + 1, to) : x = Append(a, i)

LEMMA InItemsListed ==
  ASSUME NEW ts, NEW D, NEW L, NEW to, NEW x
  PROVE  x \in ItemsListed(ts, D, L, to) <=>
           (\E i \in ItemsOver(ts, D, 1, to) : x = <<i>>) \/ \E k : ItemCut(ts, D, L, x, to, k)
<1> DEFINE K == {k \in 2..to - 1 : ts[k] = "COMMA"}
           J(k) == {Append(a, i) : a \in L[k - 1], i \in ItemsOver(ts, D, k + 1, to)}
<1>1. ASSUME NEW k
      PROVE  x \in J(k) <=> \E a \in L[k - 1], i \in ItemsOver(ts, D, k + 1, to) : x = Append(a, i)
  OBVIOUS
<1>2. ItemsListed(ts, D, L, to) = {<<i>> : i \in ItemsOver(ts, D, 1, to)} \cup UNION {J(k) : k \in K}
  BY DEF ItemsListed
<1>3. x \in {<<i>> : i \in ItemsOver(ts, D, 1, to)} <=> \E i \in ItemsOver(ts, D, 1, to) : x = <<i>>
  OBVIOUS
<1>4. \A k : k \in K <=> k \in 2..to - 1 /\ ts[k] = "COMMA"
  OBVIOUS
<1> HIDE DEF J, K
<1>5. x \in UNION {J(k) : k \in K} <=> \E k \in K : x \in J(k)
  OBVIOUS
<1>6. QED
  BY <1>1, <1>2, <1>3, <1>4, <1>5, Zenon DEF ItemCut

LEMMA ItemsListedGrows ==
  ASSUME NEW ts, NEW D, NEW L, NEW M, NEW to \in Nat,
         \A n \in 0..to - 1 : L[n] = M[n],
         NEW x \in ItemsListed(ts, D, L, to)
  PROVE  x \in ItemsListed(ts, D, M, to)
<1>1. CASE \E i \in ItemsOver(ts, D, 1, to) : x = <<i>>
  BY <1>1, InItemsListed, Zenon
<1>2. CASE ~\E i \in ItemsOver(ts, D, 1, to) : x = <<i>>
  <2>1. PICK k : ItemCut(ts, D, L, x, to, k)
    BY <1>2, InItemsListed, Zenon
  <2>2. k - 1 \in 0..to - 1
    BY <2>1 DEF ItemCut
  <2>3. ItemCut(ts, D, M, x, to, k)
    BY <2>1, <2>2, Zenon DEF ItemCut
  <2>4. QED
    BY <2>3, InItemsListed, Zenon
<1>3. QED
  BY <1>1, <1>2

LEMMA ItemsListedLocal ==
  ASSUME NEW ts, NEW D, NEW L, NEW M, NEW to \in Nat, \A n \in 0..to - 1 : L[n] = M[n]
  PROVE  ItemsListed(ts, D, L, to) = ItemsListed(ts, D, M, to)
<1>1. \A x \in ItemsListed(ts, D, L, to) : x \in ItemsListed(ts, D, M, to)
  BY ItemsListedGrows
<1>2. \A n \in 0..to - 1 : M[n] = L[n]
  OBVIOUS
<1>3. \A x \in ItemsListed(ts, D, M, to) : x \in ItemsListed(ts, D, L, to)
  BY <1>2, ItemsListedGrows
<1>4. QED
  BY <1>1, <1>3

LEMMA ItemListsExist ==
  ASSUME NEW T, NEW ts \in Seq(T), NEW D
  PROVE  ItemLists(ts, D) = [to \in 0..Len(ts) |-> ItemsListed(ts, D, ItemLists(ts, D), to)]
<1> DEFINE Good(L, n) == /\ L = [to \in 0..Len(ts) |-> L[to]]
                         /\ \A to \in 0..Len(ts) : to < n => L[to] = ItemsListed(ts, D, L, to)
           S == {n \in Nat : \E L : Good(L, n)}
<1>1. 0 \in S
  <2>1. Good([to \in 0..Len(ts) |-> {}], 0)
    OBVIOUS
  <2> HIDE DEF Good
  <2>2. QED
    BY <2>1
<1>2. ASSUME NEW n \in Nat, n \in S
      PROVE  n + 1 \in S
  <2>1. PICK L : Good(L, n)
    BY <1>2
  <2> DEFINE M == [to \in 0..Len(ts) |-> IF to = n THEN ItemsListed(ts, D, L, to) ELSE L[to]]
  <2>2. M = [to \in 0..Len(ts) |-> M[to]]
    OBVIOUS
  <2>3. ASSUME NEW to \in 0..Len(ts)
        PROVE  M[to] = IF to = n THEN ItemsListed(ts, D, L, to) ELSE L[to]
    OBVIOUS
  <2> HIDE DEF M
  <2>4. ASSUME NEW to \in 0..Len(ts), to < n + 1
        PROVE  M[to] = ItemsListed(ts, D, M, to)
    <3>1. \A i \in 0..to - 1 : L[i] = M[i]
      BY <2>3, <2>4
    <3>2. ItemsListed(ts, D, L, to) = ItemsListed(ts, D, M, to)
      BY <3>1, ItemsListedLocal
    <3>3. CASE to = n
      BY <2>3, <3>2, <3>3, Zenon
    <3>4. CASE to < n
      <4>1. L[to] = ItemsListed(ts, D, L, to) /\ to # n
        BY <2>1, <3>4
      <4>2. QED
        BY <2>3, <3>2, <4>1, Zenon
    <3>5. QED
      BY <2>4, <3>3, <3>4
  <2>5. Good(M, n + 1)
    BY <2>2, <2>4
  <2> HIDE DEF Good
  <2>6. QED
    BY <2>5
<1>3. Len(ts) + 1 \in S
  <2> HIDE DEF S
  <2>1. Len(ts) + 1 \in Nat
    OBVIOUS
  <2>2. 0..Len(ts) + 1 \subseteq S
    BY <1>1, <1>2, <2>1, CountUp
  <2>3. QED
    BY <2>1, <2>2
<1>4. PICK L : Good(L, Len(ts) + 1)
  BY <1>3
<1>5. L = [to \in 0..Len(ts) |-> ItemsListed(ts, D, L, to)]
  <2>1. \A to \in 0..Len(ts) : L[to] = ItemsListed(ts, D, L, to)
    BY <1>4
  <2>2. [to \in 0..Len(ts) |-> L[to]] = [to \in 0..Len(ts) |-> ItemsListed(ts, D, L, to)]
    BY <2>1
  <2>3. QED
    BY <1>4, <2>2, Zenon
<1>6. QED
  BY <1>5 DEF ItemLists

LEMMA InItemLists ==
  ASSUME NEW T, NEW ts \in Seq(T), NEW D, NEW to \in 0..Len(ts), NEW x
  PROVE  x \in ItemLists(ts, D)[to] <=>
           \/ \E i \in ItemsOver(ts, D, 1, to) : x = <<i>>
           \/ \E k : ItemCut(ts, D, ItemLists(ts, D), x, to, k)
<1> DEFINE L == ItemLists(ts, D)
<1>1. L = [n \in 0..Len(ts) |-> ItemsListed(ts, D, L, n)]
  BY ItemListsExist, Zenon
<1> HIDE DEF L
<1>2. L[to] = ItemsListed(ts, D, L, to)
  BY <1>1
<1>3. x \in L[to] <=> (\E i \in ItemsOver(ts, D, 1, to) : x = <<i>>) \/ \E k : ItemCut(ts, D, L, x, to, k)
  BY <1>2, InItemsListed, Zenon
<1>4. QED
  BY <1>3 DEF L

LEMMA ItemsAreLists ==
  ASSUME NEW T, NEW ts \in Seq(T), Len(ts) > 0
  PROVE  AreLists(ts, Items(ts), ItemLists(ts, Derivations(ts)), 1)
<1> DEFINE L == ItemLists(ts, Derivations(ts))
<1>1. \A f \in 1..Len(ts), t \in 0..Len(ts) : Items(ts)[<<f, t>>] = ItemsOver(ts, Derivations(ts), f, t)
  BY DEF Items
<1>2. ASSUME NEW t \in 1..Len(ts), NEW x \in L[t]
      PROVE  Single(Items(ts), 1, x, t) \/ \E k : Cut(ts, Items(ts), L, 1, x, t, k)
  <2>1. t \in 0..Len(ts) /\ 1 \in 1..Len(ts)
    OBVIOUS
  <2>2. \/ \E i \in ItemsOver(ts, Derivations(ts), 1, t) : x = <<i>>
        \/ \E k : ItemCut(ts, Derivations(ts), L, x, t, k)
    BY <2>1, InItemLists
  <2>3. CASE \E i \in ItemsOver(ts, Derivations(ts), 1, t) : x = <<i>>
    BY <1>1, <2>1, <2>3 DEF Single
  <2>4. ASSUME NEW k, ItemCut(ts, Derivations(ts), L, x, t, k)
        PROVE  Cut(ts, Items(ts), L, 1, x, t, k)
    <3>1. k \in 1 + 1..t - 1 /\ ts[k] = "COMMA" /\ k + 1 \in 1..Len(ts)
      BY <2>4 DEF ItemCut
    <3>2. Items(ts)[<<k + 1, t>>] = ItemsOver(ts, Derivations(ts), k + 1, t)
      BY <1>1, <2>1, <3>1
    <3> HIDE DEF L
    <3>3. QED
      BY <2>4, <3>1, <3>2 DEF Cut, ItemCut
  <2>5. QED
    BY <2>2, <2>3, <2>4
<1>3. QED
  BY <1>2 DEF AreLists

(***************************************************************************)
(* The grammar is not ambiguous.                                           *)
(***************************************************************************)
LEMMA NoTwoTrees ==
  ASSUME NEW T, NEW ts \in Seq(T), NEW m \in {"formula", "document"},
         NEW x \in Parses(m, ts), NEW y \in Parses(m, ts)
  PROVE  x = y
<1>1. ts # << >>
  BY DEF Parses
<1>2. Len(ts) \in 1..Len(ts) /\ 1 \in 1..Len(ts) /\ 1 \in 1..4
  BY <1>1
<1>3. CASE m = "formula"
  <2>1. PICK d \in Over(ts, 1, 1, Len(ts)), e \in Over(ts, 1, 1, Len(ts)) :
          x = <<Item(d, 0)>> /\ y = <<Item(e, 0)>>
    BY <1>1, <1>3 DEF Parses, Over
  <2>2. TreeGoesOn(ts, d, Len(ts), 1, e, Len(ts))
    BY <1>2, TreeGoesOnAlways
  <2>3. QED
    BY <2>1, <2>2 DEF TreeGoesOn, GoesOn
<1>4. CASE m = "document"
  <2> DEFINE L == ItemLists(ts, Derivations(ts))
             C == Onward(1) \cup {"AS"}
  <2>1. x \in L[Len(ts)] /\ y \in L[Len(ts)]
    BY <1>1, <1>4 DEF Parses
  <2>2. ElementsGoOn(ts, Items(ts), C, 1, Len(ts), Len(ts))
    <3>1. ASSUME NEW from \in 1..Len(ts), NEW t \in from..Len(ts), NEW u \in from..Len(ts),
                 NEW p \in Items(ts)[<<from, t>>], NEW q \in Items(ts)[<<from, u>>]
          PROVE  GoesOn(ts, C, p, t, q, u) /\ GoesOn(ts, C, q, u, p, t)
      <4>1. p \in ItemsOver(ts, Derivations(ts), from, t) /\ q \in ItemsOver(ts, Derivations(ts), from, u)
        BY DEF Items
      <4>2. QED
        BY <4>1, ItemGoesOn
    <3>2. QED
      BY <3>1 DEF ElementsGoOn
  <2>3. AreLists(ts, Items(ts), L, 1)
    BY <1>2, ItemsAreLists
  <2>4. "COMMA" \notin C
    BY <1>2, OnwardMeans
  <2> HIDE DEF L, C
  <2>5. ListGoesOn(ts, Items(ts), L, C, 1, x, Len(ts), y, Len(ts))
    BY <1>2, <2>1, <2>2, <2>3, <2>4, ListsGoOn
  <2>6. QED
    BY <2>5 DEF ListGoesOn, GoesOn
<1>5. QED
  BY <1>3, <1>4

-----------------------------------------------------------------------------
(***************************************************************************)
(* Where the parser is.  Nothing is read behind the end, and each frame    *)
(* has a token left of the current one.                                    *)
(***************************************************************************)
Listing(s) == s \in Seq(ToSet(s))

IsTree(t) == t = Tree(t.kind, t.at, t.kids)

FrameKinds == {"paren", "negate", "binary", "call"}

Labels == {"new", "start", "item", "factor", "name", "segment", "dot", "arguments",
           "operand", "loop", "value", "alias", "separator", "next_item", "done"}

TextOK ==
  /\ tokens \in Seq(Lexicon) /\ Len(tokens) <= MaxTokens
  /\ \A i \in 1..Len(tokens) - 1 : tokens[i] # "EOF"
  /\ Len(tokens) = MaxTokens => Current = "EOF"
  /\ label = "new" <=> Len(tokens) = 0

PlaceOK ==
  /\ label \in Labels /\ level \in 1..3
  /\ (label = "done") = (outcome # Pending)
  /\ outcome.at \in 0..Len(tokens)

StackOK ==
  /\ Listing(stack)
  /\ \A i \in 1..Len(stack) : /\ IsTree(stack[i]) /\ stack[i].kind \in FrameKinds
                              /\ stack[i].at \in 1..Len(tokens) - 1
                              /\ i # 1 => stack[i - 1].at < stack[i].at
  /\ IsTree(node) /\ node.at \in 0..Len(tokens)
  /\ label = "name" => /\ node.at = Len(tokens) - 1
                       /\ stack # << >> => stack[Len(stack)].at < node.at
                       /\ node.at > 0
  /\ label = "arguments" => stack # << >>

ItemsOK ==
  /\ mode \in {"formula", "document"} /\ Listing(items)
  /\ label \in {"item", "alias", "separator", "next_item"} => mode = "document"
  /\ mode = "formula" /\ label # "done" => items = << >>

TypeInv == TextOK /\ PlaceOK /\ StackOK /\ ItemsOK

LEMMA TreesOf ==
  ASSUME NEW kind, NEW at, NEW kids
  PROVE  /\ Tree(kind, at, kids).kind = kind /\ Tree(kind, at, kids).at = at
         /\ Tree(kind, at, kids).kids = kids /\ IsTree(Tree(kind, at, kids))
         /\ IsTree(Leaf(kind, at)) /\ Leaf(kind, at).kind = kind /\ Leaf(kind, at).at = at
         /\ Leaf(kind, at).kids = << >>
  BY DEF Tree, Leaf, IsTree

LEMMA ChildAdded ==
  ASSUME NEW frame, IsTree(frame), NEW child
  PROVE  /\ WithChild(frame, child) = Tree(frame.kind, frame.at, Append(frame.kids, child))
         /\ IsTree(WithChild(frame, child)) /\ WithChild(frame, child).at = frame.at
         /\ WithChild(frame, child).kind = frame.kind
<1> DEFINE k == frame.kind
           a == frame.at
           c == frame.kids
<1>1. frame = [kind |-> k, at |-> a, kids |-> c]
  BY DEF IsTree, Tree
<1> HIDE DEF k, a, c
<1>2. WithChild(frame, child) = Tree(k, a, Append(c, child))
  BY <1>1 DEF WithChild, Tree
<1>3. QED
  BY <1>2, TreesOf DEF k, a, c

LEMMA AppendSecond ==
  ASSUME NEW a, NEW child
  PROVE  Append(<<a>>, child) = <<a, child>>
<1> DEFINE S == {a, child}
           s == <<a>>
           v == Append(s, child)
           w == <<a, child>>
<1>1. s \in Seq(S) /\ Len(s) = 1 /\ s[1] = a /\ child \in S
  OBVIOUS
<1>2. w \in Seq(S) /\ Len(w) = 2 /\ w[1] = a /\ w[2] = child
  OBVIOUS
<1> HIDE DEF S, s, w
<1>3. v \in Seq(S) /\ Len(v) = Len(s) + 1 /\ v[Len(s) + 1] = child /\ \A i \in 1..Len(s) : v[i] = s[i]
  BY <1>1
<1> HIDE DEF v
<1>4. \A i \in 1..Len(v) : v[i] = w[i]
  BY <1>1, <1>2, <1>3
<1>5. v = w
  BY <1>1, <1>2, <1>3, <1>4, SeqEqual
<1>6. QED
  BY <1>5 DEF v, w, s

LEMMA NextChild ==
  ASSUME NEW kind, NEW at, NEW kids, NEW child
  PROVE  WithChild(Tree(kind, at, kids), child) = Tree(kind, at, Append(kids, child))
  BY DEF WithChild, Tree

LEMMA FirstChild ==
  ASSUME NEW kind, NEW at, NEW child
  PROVE  WithChild(Leaf(kind, at), child) = Tree(kind, at, <<child>>)
<1>1. Append(<< >>, child) = <<child>>
  OBVIOUS
<1>2. QED
  BY <1>1 DEF WithChild, Tree, Leaf

LEMMA SecondChild ==
  ASSUME NEW kind, NEW at, NEW a, NEW child
  PROVE  WithChild(Tree(kind, at, <<a>>), child) = Tree(kind, at, <<a, child>>)
<1>1. WithChild(Tree(kind, at, <<a>>), child) = Tree(kind, at, Append(<<a>>, child))
  BY NextChild
<1>2. QED
  BY <1>1, AppendSecond

LEMMA ListingOf ==
  ASSUME NEW S, NEW s \in Seq(S)
  PROVE  Listing(s)
<1>1. s \in [1..Len(s) -> ToSet(s)] /\ Len(s) \in Nat
  BY DEF ToSet
<1>2. QED
  BY <1>1, SeqDef DEF Listing

LEMMA ListingGrows ==
  ASSUME NEW s, Listing(s), NEW e
  PROVE  /\ Listing(Append(s, e)) /\ Len(s) \in Nat /\ Len(Append(s, e)) = Len(s) + 1
         /\ Append(s, e)[Len(s) + 1] = e /\ \A i \in 1..Len(s) : Append(s, e)[i] = s[i]
         /\ Append(s, e) # << >>
<1> DEFINE S == ToSet(s) \cup {e}
<1>1. s \in Seq(S) /\ e \in S
  <2>1. s \in Seq(ToSet(s)) /\ ToSet(s) \subseteq S
    BY DEF Listing
  <2>2. QED
    BY <2>1, SeqMonotonic
<1> HIDE DEF S
<1>2. Append(s, e) \in Seq(S)
  BY <1>1
<1>3. Listing(Append(s, e))
  BY <1>2, ListingOf
<1>4. QED
  BY <1>1, <1>3

LEMMA ListingShortens ==
  ASSUME NEW s, Listing(s), s # << >>
  PROVE  /\ Listing(Front(s)) /\ Len(s) \in Nat /\ Len(s) > 0 /\ Len(Front(s)) = Len(s) - 1
         /\ Last(s) = s[Len(s)] /\ \A i \in 1..Len(s) - 1 : Front(s)[i] = s[i]
<1>1. s \in Seq(ToSet(s)) /\ Len(s) \in Nat /\ Len(s) > 0
  BY DEF Listing
<1>2. \A i \in 1..Len(s) - 1 : s[i] \in ToSet(s)
  BY <1>1 DEF ToSet
<1>3. /\ SubSeq(s, 1, Len(s) - 1) \in Seq(ToSet(s))
      /\ Len(SubSeq(s, 1, Len(s) - 1)) = IF 1 <= Len(s) - 1 THEN Len(s) - 1 - 1 + 1 ELSE 0
      /\ \A i \in 1..Len(s) - 1 - 1 + 1 : SubSeq(s, 1, Len(s) - 1)[i] = s[1 + i - 1]
  BY <1>1, <1>2, SubSeqProperties
<1>4. Listing(Front(s))
  BY <1>3, ListingOf DEF Front
<1>5. ASSUME NEW i \in 1..Len(s) - 1 PROVE Front(s)[i] = s[i]
  <2>1. 1 + i - 1 = i /\ i \in 1..Len(s) - 1 - 1 + 1
    BY <1>1
  <2>2. QED
    BY <1>3, <2>1 DEF Front
<1>6. Len(Front(s)) = Len(s) - 1
  <2>1. Len(SubSeq(s, 1, Len(s) - 1)) = Len(s) - 1
    <3>1. 1 <= Len(s) - 1 => Len(SubSeq(s, 1, Len(s) - 1)) = Len(s) - 1 - 1 + 1
      BY <1>3, Zenon
    <3>2. ~(1 <= Len(s) - 1) => Len(SubSeq(s, 1, Len(s) - 1)) = 0
      BY <1>3, Zenon
    <3>3. \A n \in Nat : n > 0 => n - 1 - 1 + 1 = n - 1 /\ (~(1 <= n - 1) => n - 1 = 0)
      OBVIOUS
    <3>4. QED
      BY <1>1, <3>1, <3>2, <3>3, Zenon
  <2>2. QED
    BY <2>1, Zenon DEF Front
<1>7. QED
  BY <1>1, <1>4, <1>5, <1>6 DEF Last

\* The error that a step ends with when the lexer fails.
LEMMA LexerFailedIs ==
  ASSUME Len(tokens) \in Nat
  PROVE  /\ LexerFailed # Pending /\ LexerFailed # Parsed /\ LexerFailed.at \in 0..Len(tokens) + 1
         /\ ClosesCall => LexerFailed.code = "unexpected_token" /\ LexerFailed.at = Len(tokens)
         /\ ~ClosesCall => LexerFailed.code = "lexer_error" /\ LexerFailed.at = Len(tokens) + 1
  BY DEF LexerFailed, Outcome, Pending, Parsed, Pos

\* A token more.
LEMMA AfterReadToken ==
  ASSUME TextOK, PlaceOK, NEW l \in Labels \ {"new", "done"}, ReadToken(l),
         label # "done", label # "new" => Current # "EOF"
  PROVE  /\ tokens' \in Seq(Lexicon) /\ Len(tokens) \in Nat
         /\ Len(tokens') = Len(tokens) + 1 /\ Len(tokens') <= MaxTokens
         /\ \A i \in 1..Len(tokens) : tokens'[i] = tokens[i] /\ tokens[i] # "EOF"
         /\ Len(tokens') = MaxTokens => tokens'[Len(tokens')] = "EOF"
         /\ label' \in {l, "done"} /\ (label' = "done") = (outcome' # Pending)
         /\ outcome'.at \in 0..Len(tokens')
         /\ TextOK'
<1>1. PICK t \in IF Len(tokens) + 1 < MaxTokens THEN Lexicon ELSE {"EOF"} :
        /\ tokens' = Append(tokens, t)
        /\ IF t = "ILLEGAL"
             THEN label' = "done" /\ outcome' = LexerFailed
             ELSE label' = l /\ UNCHANGED outcome
  BY DEF ReadToken
<1>2. t \in Lexicon /\ tokens \in Seq(Lexicon) /\ Len(tokens) \in Nat
  BY LexiconAssumption DEF TextOK
<1>3. /\ tokens' \in Seq(Lexicon) /\ Len(tokens') = Len(tokens) + 1
      /\ tokens'[Len(tokens) + 1] = t /\ \A i \in 1..Len(tokens) : tokens'[i] = tokens[i]
  BY <1>1, <1>2
<1>4. Len(tokens) # MaxTokens /\ Len(tokens) + 1 <= MaxTokens
  BY <1>2, BoundAssumption DEF TextOK
<1>5. Len(tokens') = MaxTokens => t = "EOF"
  BY <1>1, <1>3
<1>6. \A i \in 1..Len(tokens) : tokens[i] # "EOF"
  BY <1>2 DEF TextOK, Current, Last
<1>7. /\ label' \in {l, "done"} /\ (label' = "done") = (outcome' # Pending)
      /\ outcome'.at \in 0..Len(tokens')
  <2>1. LexerFailed # Pending /\ LexerFailed.at \in 0..Len(tokens) + 1
    BY <1>2, LexerFailedIs
  <2>2. CASE t = "ILLEGAL"
    BY <1>1, <1>2, <1>3, <2>1, <2>2
  <2>3. CASE t # "ILLEGAL"
    BY <1>1, <1>2, <1>3, <2>3 DEF PlaceOK
  <2>4. QED
    BY <2>2, <2>3
<1>8. TextOK'
  BY <1>2, <1>3, <1>4, <1>5, <1>6, <1>7 DEF TextOK, Current, Last
<1>9. QED
  BY <1>2, <1>3, <1>4, <1>5, <1>6, <1>7, <1>8

\* The parser fails: nothing else changes.
LEMMA AfterFail ==
  ASSUME TypeInv, label # "new", NEW code, code # "pending", NEW at \in 0..Len(tokens), FailAt(code, at)
  PROVE  TypeInv'
<1>1. label' = "done" /\ outcome' = Outcome(code, at)
      /\ UNCHANGED <<mode, tokens, level, stack, node, items>>
  BY DEF FailAt
<1>2. outcome' # Pending /\ outcome'.at = at
  BY <1>1 DEF Outcome, Pending
<1>3. TextOK'
  BY <1>1 DEF TypeInv, TextOK, Current
<1>4. PlaceOK'
  BY <1>1, <1>2 DEF TypeInv, PlaceOK, Labels
<1>5. StackOK'
  BY <1>1 DEF TypeInv, StackOK
<1>6. ItemsOK'
  BY <1>1 DEF TypeInv, ItemsOK
<1>7. QED
  BY <1>3, <1>4, <1>5, <1>6 DEF TypeInv

\* The labels with a current token in front of them that is not the end.
LEMMA TypeOnRead ==
  ASSUME TypeInv, NEW l \in Labels \ {"new", "done"}, ReadToken(l),
         label # "done", label # "new" => Current # "EOF", level' = level,
         StackOK', ItemsOK'
  PROVE  TypeInv'
<1>1. TextOK /\ PlaceOK
  BY DEF TypeInv
<1>2. TextOK' /\ label' \in {l, "done"} /\ (label' = "done") = (outcome' # Pending) /\ outcome'.at \in 0..Len(tokens')
  BY <1>1, AfterReadToken
<1>3. QED
  BY <1>1, <1>2 DEF TypeInv, PlaceOK, Labels

LEMMA TypeOnGoto ==
  ASSUME TypeInv, NEW l \in Labels \ {"new", "done"}, Goto(l),
         label \notin {"new", "done"}, level' \in 1..3, StackOK', ItemsOK'
  PROVE  TypeInv'
<1>1. TextOK'
  BY DEF TypeInv, TextOK, Goto, Current
<1>2. PlaceOK'
  BY DEF TypeInv, PlaceOK, Goto
<1>3. QED
  BY <1>1, <1>2 DEF TypeInv

\* The stack, as it was or with a frame less, and a node that is in the text.
LEMMA StackKept ==
  ASSUME TypeInv, Len(tokens') \in {Len(tokens), Len(tokens) + 1},
         stack' = stack \/ (stack # << >> /\ stack' = Front(stack)),
         IsTree(node'), node'.at \in 0..Len(tokens'), label' \notin {"name", "arguments"}
  PROVE  StackOK'
<1>1. Len(tokens) \in Nat
  BY DEF TypeInv, TextOK
<1>2. CASE stack' = stack
  BY <1>1, <1>2 DEF TypeInv, StackOK
<1>3. CASE stack # << >> /\ stack' = Front(stack)
  <2>1. /\ Listing(Front(stack)) /\ Len(stack) \in Nat /\ Len(stack) > 0 /\ Len(Front(stack)) = Len(stack) - 1
        /\ \A i \in 1..Len(stack) - 1 : Front(stack)[i] = stack[i]
    BY <1>3, ListingShortens DEF TypeInv, StackOK
  <2>2. ASSUME NEW i \in 1..Len(stack) - 1
        PROVE  /\ IsTree(stack[i]) /\ stack[i].kind \in FrameKinds
               /\ stack[i].at \in 1..Len(tokens) - 1
               /\ i # 1 => stack[i - 1].at < stack[i].at
    BY <2>1 DEF TypeInv, StackOK
  <2>3. \A i \in 1..Len(stack) - 1 : i # 1 => i - 1 \in 1..Len(stack) - 1
    BY <2>1
  <2>4. Len(stack') = Len(stack) - 1 /\ \A i \in 1..Len(stack) - 1 : stack'[i] = stack[i]
    BY <1>3, <2>1
  <2>5. Listing(stack')
    BY <1>3, <2>1
  <2>6. ASSUME NEW i \in 1..Len(stack')
        PROVE  /\ IsTree(stack'[i]) /\ stack'[i].kind \in FrameKinds
               /\ stack'[i].at \in 1..Len(tokens') - 1
               /\ i # 1 => stack'[i - 1].at < stack'[i].at
    <3>1. i \in 1..Len(stack) - 1 /\ stack'[i] = stack[i] /\ (i # 1 => stack'[i - 1] = stack[i - 1])
      BY <2>3, <2>4
    <3>2. stack[i].at \in 1..Len(tokens') - 1
      BY <1>1, <2>2, <3>1
    <3>3. QED
      BY <2>2, <3>1, <3>2
  <2>7. QED
    BY <2>5, <2>6 DEF StackOK
<1>4. QED
  BY <1>2, <1>3

\* A frame more, right of the others.
LEMMA StackPushed ==
  ASSUME TypeInv, Len(tokens') = Len(tokens) + 1, NEW frame, stack' = Append(stack, frame),
         IsTree(frame), frame.kind \in FrameKinds, frame.at \in 1..Len(tokens),
         stack # << >> => stack[Len(stack)].at < frame.at,
         node' = node, label' # "name"
  PROVE  StackOK'
<1>1. Len(tokens) \in Nat
  BY DEF TypeInv, TextOK
<1>2. /\ Listing(Append(stack, frame)) /\ Len(stack) \in Nat /\ Len(Append(stack, frame)) = Len(stack) + 1
      /\ Append(stack, frame)[Len(stack) + 1] = frame
      /\ \A i \in 1..Len(stack) : Append(stack, frame)[i] = stack[i]
      /\ Append(stack, frame) # << >>
  BY ListingGrows DEF TypeInv, StackOK
<1>3. Len(stack) # 0 => stack # << >>
  OBVIOUS
<1>4. ASSUME NEW i \in 1..Len(stack')
      PROVE  /\ IsTree(stack'[i]) /\ stack'[i].kind \in FrameKinds
             /\ stack'[i].at \in 1..Len(tokens') - 1
             /\ i # 1 => stack'[i - 1].at < stack'[i].at
  <2>1. CASE i \in 1..Len(stack)
    <3>1. stack'[i] = stack[i] /\ (i # 1 => stack'[i - 1] = stack[i - 1])
      BY <1>2, <2>1
    <3>2. QED
      BY <1>1, <2>1, <3>1 DEF TypeInv, StackOK
  <2>2. CASE i = Len(stack) + 1
    <3>1. stack'[i] = frame /\ (i # 1 => stack'[i - 1] = stack[Len(stack)] /\ Len(stack) \in 1..Len(stack))
      BY <1>2, <2>2
    <3>2. QED
      BY <1>1, <1>3, <2>2, <3>1
  <2>3. QED
    BY <1>2, <2>1, <2>2
<1>5. QED
  BY <1>1, <1>2, <1>4 DEF TypeInv, StackOK

LEMMA ItemsKept ==
  ASSUME TypeInv, mode' = mode, items' = items, label # "done",
         label' \in {"item", "alias", "separator", "next_item"} => mode = "document"
  PROVE  ItemsOK'
  BY DEF TypeInv, ItemsOK

LEMMA TopIsLast ==
  ASSUME TypeInv
  PROVE  /\ stack = << >> => Top.kind = "none"
         /\ Top.kind # "none" => stack # << >>
         /\ stack # << >> => /\ Top = stack[Len(stack)] /\ Len(stack) \in 1..Len(stack)
                             /\ IsTree(Top) /\ Top.kind \in FrameKinds
                             /\ Top.at \in 1..Len(tokens) - 1
<1>1. stack = << >> => Top.kind = "none"
  BY DEF Top, NoTree, Leaf, Tree
<1>2. stack # << >> => Len(stack) \in Nat /\ Len(stack) > 0 /\ Last(stack) = stack[Len(stack)]
  BY ListingShortens DEF TypeInv, StackOK
<1>3. QED
  BY <1>1, <1>2 DEF Top, TypeInv, StackOK

LEMMA TypeInit == Init => TypeInv
<1> SUFFICES ASSUME Init PROVE TypeInv
  OBVIOUS
<1>1. Len(tokens) = 0 /\ Len(stack) = 0 /\ tokens \in Seq(Lexicon)
  BY DEF Init
<1>2. Listing(stack) /\ Listing(items)
  BY DEF Init, Listing, ToSet
<1>3. TextOK
  BY <1>1, BoundAssumption DEF Init, TextOK
<1>4. PlaceOK
  BY <1>1 DEF Init, PlaceOK, Labels, Pending, Outcome
<1>5. StackOK
  BY <1>1, <1>2, TreesOf DEF Init, StackOK, NoTree
<1>6. ItemsOK
  BY <1>2 DEF Init, ItemsOK
<1>7. QED
  BY <1>3, <1>4, <1>5, <1>6 DEF TypeInv

\* What moves on in the text and leaves the stack: the node is a token's.
LEMMA TypeOnReadOnly ==
  ASSUME TypeInv, NEW l \in Labels \ {"new", "name", "arguments", "done"}, ReadToken(l),
         label # "done", label # "new" => Current # "EOF", UNCHANGED <<mode, level, items>>,
         stack' = stack \/ (stack # << >> /\ stack' = Front(stack)),
         IsTree(node'), node'.at \in 0..Len(tokens) + 1,
         l \in {"item", "alias", "separator", "next_item"} => mode = "document"
  PROVE  TypeInv'
<1>1. TextOK /\ PlaceOK
  BY DEF TypeInv
<1>2. Len(tokens') = Len(tokens) + 1 /\ label' \in {l, "done"} /\ Len(tokens) \in Nat
  BY <1>1, AfterReadToken
<1>3. StackOK'
  BY <1>2, StackKept
<1>4. ItemsOK'
  BY <1>2, ItemsKept
<1>5. QED
  BY <1>3, <1>4, TypeOnRead

LEMMA TypeOnReadAndPush ==
  ASSUME TypeInv, NEW l \in Labels \ {"new", "name", "done", "item", "alias", "separator", "next_item"},
         ReadToken(l), label \notin {"new", "done"}, Current # "EOF",
         UNCHANGED <<mode, level, node, items>>,
         NEW frame, stack' = Append(stack, frame),
         IsTree(frame), frame.kind \in FrameKinds, frame.at \in 1..Len(tokens),
         stack # << >> => stack[Len(stack)].at < frame.at
  PROVE  TypeInv'
<1>1. TextOK /\ PlaceOK
  BY DEF TypeInv
<1>2. Len(tokens') = Len(tokens) + 1 /\ label' \in {l, "done"}
  BY <1>1, AfterReadToken
<1>3. StackOK'
  BY <1>2, StackPushed
<1>4. ItemsOK'
  BY <1>2, ItemsKept
<1>5. QED
  BY <1>3, <1>4, TypeOnRead

LEMMA TypeOnGotoOnly ==
  ASSUME TypeInv, NEW l \in Labels \ {"new", "name", "arguments", "done"}, Goto(l),
         label \notin {"new", "done"}, level' \in 1..3, UNCHANGED <<mode, stack, items>>,
         IsTree(node'), node'.at \in 0..Len(tokens),
         l \in {"item", "alias", "separator", "next_item"} => mode = "document"
  PROVE  TypeInv'
<1>1. Len(tokens') = Len(tokens) /\ label' = l
  BY DEF Goto
<1>2. StackOK'
  BY <1>1, StackKept
<1>3. ItemsOK'
  BY <1>1, ItemsKept
<1>4. QED
  BY <1>2, <1>3, TypeOnGoto

LEMMA PosInText ==
  ASSUME TypeInv, label # "new"
  PROVE  Len(tokens) \in Nat /\ Len(tokens) >= 1 /\ Pos \in 1..Len(tokens)
  BY DEF TypeInv, TextOK, Pos

LEMMA TypeFactor == TypeInv /\ Factor => TypeInv'
<1> SUFFICES ASSUME TypeInv, Factor PROVE TypeInv'
  OBVIOUS
<1>0. Len(tokens) \in Nat /\ Len(tokens) >= 1 /\ Pos = Len(tokens) /\ label \notin {"new", "done"}
      /\ IsTree(node) /\ node.at \in 0..Len(tokens)
  <2>1. label \notin {"new", "done"}
    BY DEF Factor, Literal, Negate, OpenParen, FactorFails, Name, OpenCall, Constant, OpenPath, Column,
           Segment, SegmentMissing, Dot
  <2>2. QED
    BY <2>1, PosInText DEF Pos, TypeInv, StackOK
<1>1. CASE Literal
  <2>1. Current # "EOF" /\ node'.at \in 0..Len(tokens) + 1 /\ IsTree(node')
    BY <1>0, <1>1, TreesOf DEF Literal
  <2>2. QED
    BY <1>0, <1>1, <2>1, TypeOnReadOnly DEF Literal, Labels
<1>2. CASE Negate \/ OpenParen
  <2>1. PICK kind \in {"negate", "paren"} : OpenFrame(kind) /\ Current \in {"MINUS", "LPAREN"}
    BY <1>2 DEF Negate, OpenParen
  <2>2. Leaf(kind, Pos).kind = kind /\ Leaf(kind, Pos).at = Len(tokens) /\ IsTree(Leaf(kind, Pos))
    BY <1>0, TreesOf
  <2>3. stack # << >> => stack[Len(stack)].at < Len(tokens)
    BY <1>0, TopIsLast
  <2>4. QED
    BY <1>0, <2>1, <2>2, <2>3, TypeOnReadAndPush DEF OpenFrame, Push, Labels, FrameKinds
<1>3. CASE FactorFails \/ SegmentMissing
  BY <1>0, <1>3, AfterFail DEF FactorFails, SegmentMissing, Fail
<1>4. CASE Name
  <2>1. Current # "EOF" /\ node'.at = Len(tokens) /\ IsTree(node') /\ stack' = stack /\ ReadToken("name")
        /\ UNCHANGED <<mode, level, items>>
    BY <1>0, <1>4, TreesOf DEF Name, Identifiers
  <2>2. TextOK /\ PlaceOK /\ "name" \in Labels \ {"new", "done"}
    BY DEF TypeInv, Labels
  <2>3. Len(tokens') = Len(tokens) + 1 /\ label' \in {"name", "done"}
    BY <1>0, <2>1, <2>2, AfterReadToken
  <2>4. stack # << >> => stack[Len(stack)].at < Len(tokens)
    BY <1>0, TopIsLast
  <2>5. StackOK'
    BY <1>0, <2>1, <2>3, <2>4 DEF TypeInv, StackOK
  <2>6. ItemsOK'
    BY <1>0, <2>1, <2>3, ItemsKept
  <2>7. QED
    BY <1>0, <2>1, <2>2, <2>5, <2>6, TypeOnRead
<1>5. CASE OpenCall
  <2>1. label = "name" /\ Current # "EOF"
    BY <1>5 DEF OpenCall
  <2>2. Leaf("call", node.at).kind = "call" /\ Leaf("call", node.at).at = node.at /\ IsTree(Leaf("call", node.at))
    BY TreesOf
  <2>3. node.at \in 1..Len(tokens) /\ (stack # << >> => stack[Len(stack)].at < node.at)
    BY <1>0, <2>1 DEF TypeInv, StackOK
  <2>4. QED
    BY <1>0, <1>5, <2>1, <2>2, <2>3, TypeOnReadAndPush DEF OpenCall, Push, Labels, FrameKinds
<1>6. CASE Constant
  <2>1. node'.at = node.at /\ IsTree(node')
    BY <1>6, TreesOf DEF Constant
  <2>2. level \in 1..3
    BY DEF TypeInv, PlaceOK
  <2>3. QED
    BY <1>0, <1>6, <2>1, <2>2, TypeOnGotoOnly DEF Constant, Labels
<1>7. CASE OpenPath
  <2>1. Current # "EOF" /\ node'.at \in 0..Len(tokens) + 1 /\ IsTree(node')
    BY <1>0, <1>7, TreesOf DEF OpenPath
  <2>2. QED
    BY <1>0, <1>7, <2>1, TypeOnReadOnly DEF OpenPath, Labels
<1>8. CASE Column
  <2>1. level \in 1..3 /\ IsTree(node')
    BY <1>0, <1>8 DEF TypeInv, PlaceOK, Column
  <2>2. QED
    BY <1>0, <1>8, <2>1, TypeOnGotoOnly DEF Column, Labels
<1>9. CASE Segment
  <2>1. Current # "EOF" /\ node' = WithChild(node, Leaf("segment", Pos))
    BY <1>9 DEF Segment, Identifiers
  <2>2. node'.at \in 0..Len(tokens) + 1 /\ IsTree(node')
    BY <1>0, <2>1, ChildAdded
  <2>3. QED
    BY <1>0, <1>9, <2>1, <2>2, TypeOnReadOnly DEF Segment, Labels
<1>10. CASE Dot
  <2>1. level \in 1..3 /\ IsTree(node')
    BY <1>0, <1>10 DEF TypeInv, PlaceOK, Dot
  <2>2. CASE Current = "DOT"
    <3>1. ReadToken("segment") /\ Current # "EOF"
      BY <1>10, <2>2 DEF Dot
    <3>2. node'.at \in 0..Len(tokens) + 1 /\ IsTree(node')
      BY <1>0, <1>10 DEF Dot
    <3>3. QED
      BY <1>0, <1>10, <3>1, <3>2, TypeOnReadOnly DEF Dot, Labels
  <2>3. CASE Current # "DOT"
    BY <1>0, <1>10, <2>1, <2>3, TypeOnGotoOnly DEF Dot, Labels
  <2>4. QED
    BY <2>2, <2>3
<1>11. QED
  BY <1>1, <1>2, <1>3, <1>4, <1>5, <1>6, <1>7, <1>8, <1>9, <1>10 DEF Factor

\* A frame is on the stack again, with a child more.
LEMMA StackReplaced ==
  ASSUME TypeInv, Len(tokens') = Len(tokens) + 1, stack # << >>, NEW child,
         stack' = Append(Front(stack), WithChild(Top, child)),
         node' = node, label' \notin {"name", "arguments"}
  PROVE  StackOK'
<1> DEFINE n == Len(stack)
<1>0. Len(tokens) \in Nat /\ Listing(stack)
  BY DEF TypeInv, TextOK, StackOK
<1>1. /\ Listing(Front(stack)) /\ n \in Nat /\ n > 0 /\ Len(Front(stack)) = n - 1
      /\ \A i \in 1..n - 1 : Front(stack)[i] = stack[i]
  BY <1>0, ListingShortens
<1>2. Top = stack[n] /\ IsTree(Top) /\ Top.kind \in FrameKinds /\ Top.at \in 1..Len(tokens) - 1
  BY TopIsLast
<1>3. /\ IsTree(WithChild(Top, child)) /\ WithChild(Top, child).at = Top.at
      /\ WithChild(Top, child).kind = Top.kind
  BY <1>2, ChildAdded
<1>4. /\ Listing(stack') /\ Len(stack') = n - 1 + 1 /\ stack'[n - 1 + 1] = WithChild(Top, child)
      /\ \A i \in 1..n - 1 : stack'[i] = Front(stack)[i]
  BY <1>1, ListingGrows
<1>5. Len(stack') = n /\ stack'[n] = WithChild(Top, child) /\ \A i \in 1..n - 1 : stack'[i] = stack[i]
  BY <1>1, <1>4
<1>6. ASSUME NEW i \in 1..n
      PROVE  /\ IsTree(stack[i]) /\ stack[i].kind \in FrameKinds
             /\ stack[i].at \in 1..Len(tokens) - 1
             /\ i # 1 => stack[i - 1].at < stack[i].at
  BY DEF TypeInv, StackOK
<1> HIDE DEF n
<1>7. ASSUME NEW i \in 1..n
      PROVE  /\ IsTree(stack'[i]) /\ stack'[i].kind \in FrameKinds
             /\ stack'[i].at = stack[i].at
  <2>1. CASE i \in 1..n - 1
    BY <1>5, <1>6, <2>1
  <2>2. CASE i = n
    BY <1>2, <1>3, <1>5, <2>2
  <2>3. QED
    BY <1>1, <2>1, <2>2
<1>8. ASSUME NEW i \in 1..n
      PROVE  /\ IsTree(stack'[i]) /\ stack'[i].kind \in FrameKinds
             /\ stack'[i].at \in 1..Len(tokens') - 1
             /\ i # 1 => stack'[i - 1].at < stack'[i].at
  <2>1. i # 1 => i - 1 \in 1..n
    BY <1>1
  <2>2. i # 1 => stack'[i - 1].at = stack[i - 1].at
    BY <1>7, <2>1
  <2>3. stack[i].at \in 1..Len(tokens') - 1
    BY <1>0, <1>6
  <2>4. QED
    BY <1>6, <1>7, <2>2, <2>3
<1>9. IsTree(node') /\ node'.at \in 0..Len(tokens')
  BY <1>0 DEF TypeInv, StackOK
<1>10. QED
  BY <1>4, <1>5, <1>8, <1>9 DEF StackOK

LEMMA TypeLoops == TypeInv /\ Loops => TypeInv'
<1> SUFFICES ASSUME TypeInv, Loops PROVE TypeInv'
  OBVIOUS
<1>0. /\ Len(tokens) \in Nat /\ Len(tokens) >= 1 /\ Pos = Len(tokens)
      /\ label \in {"operand", "loop"} /\ label \notin {"new", "done"}
      /\ level \in 1..3 /\ IsTree(node) /\ node.at \in 0..Len(tokens)
  <2>1. label \in {"operand", "loop"} /\ label \notin {"new", "done"}
    BY DEF Loops, CloseNegate, EndFactor, CloseBinary, OpenBinary, LeaveLoop
  <2>2. QED
    BY <2>1, PosInText DEF Pos, TypeInv, PlaceOK, StackOK
<1>1. CASE CloseNegate \/ CloseBinary
  <2>1. /\ Top.kind # "none" /\ node' = WithChild(Top, node) /\ stack' = Front(stack)
        /\ UNCHANGED <<mode, tokens, label, level, items, outcome>>
    BY <1>1 DEF CloseNegate, CloseBinary, AtLevel, Pop
  <2>2. stack # << >> /\ IsTree(Top) /\ Top.at \in 1..Len(tokens) - 1
    BY <2>1, TopIsLast
  <2>3. IsTree(node') /\ node'.at = Top.at
    BY <2>1, <2>2, ChildAdded
  <2>4. StackOK'
    BY <1>0, <2>1, <2>2, <2>3, StackKept
  <2>5. ItemsOK'
    BY <1>0, <2>1, ItemsKept
  <2>6. TextOK' /\ PlaceOK'
    BY <2>1 DEF TypeInv, TextOK, PlaceOK, Current
  <2>7. QED
    BY <2>4, <2>5, <2>6 DEF TypeInv
<1>2. CASE EndFactor
  BY <1>0, <1>2, TypeOnGotoOnly DEF EndFactor, Labels
<1>3. CASE OpenBinary
  <2>1. label = "loop" /\ Current # "EOF" /\ ReadToken("factor")
        /\ stack' = Append(stack, Tree("binary", Pos, <<node>>)) /\ UNCHANGED <<mode, level, node, items>>
    <3>1. \A j \in 1..3 : "EOF" \notin Operators[j]
      BY OperatorsApart
    <3>2. QED
      BY <1>0, <1>3, <3>1 DEF OpenBinary, Push
  <2>2. /\ IsTree(Tree("binary", Pos, <<node>>)) /\ Tree("binary", Pos, <<node>>).kind \in FrameKinds
        /\ Tree("binary", Pos, <<node>>).at = Len(tokens)
    BY <1>0, TreesOf DEF FrameKinds
  <2>3. stack # << >> => stack[Len(stack)].at < Len(tokens)
    BY <1>0, TopIsLast
  <2>4. QED
    BY <1>0, <2>1, <2>2, <2>3, TypeOnReadAndPush DEF Labels
<1>4. CASE LeaveLoop
  <2>1. level' \in 1..3 /\ UNCHANGED <<mode, stack, node, items>>
    BY <1>0, <1>4 DEF LeaveLoop
  <2>2. PICK l \in {"loop", "value"} : Goto(l)
    BY <1>4 DEF LeaveLoop
  <2>3. QED
    BY <1>0, <2>1, <2>2, TypeOnGotoOnly DEF Labels
<1>5. QED
  BY <1>1, <1>2, <1>3, <1>4 DEF Loops

LEMMA AfterAccept ==
  ASSUME TypeInv, label # "new", NEW result, Listing(result), Accept(result)
  PROVE  TypeInv'
<1>1. label' = "done" /\ outcome' = Parsed /\ items' = result
      /\ UNCHANGED <<mode, tokens, level, stack, node>>
  BY DEF Accept
<1>2. outcome' # Pending /\ outcome'.at = 0
  BY <1>1 DEF Outcome, Pending, Parsed
<1>3. TextOK'
  BY <1>1 DEF TypeInv, TextOK, Current
<1>4. PlaceOK'
  BY <1>1, <1>2, <1>3 DEF TypeInv, PlaceOK, Labels, TextOK
<1>5. StackOK'
  BY <1>1 DEF TypeInv, StackOK
<1>6. ItemsOK'
  BY <1>1 DEF TypeInv, ItemsOK
<1>7. QED
  BY <1>3, <1>4, <1>5, <1>6 DEF TypeInv

LEMMA TypeClosing == TypeInv /\ Closing => TypeInv'
<1> SUFFICES ASSUME TypeInv, Closing PROVE TypeInv'
  OBVIOUS
<1>0. /\ Len(tokens) \in Nat /\ Len(tokens) >= 1 /\ Pos = Len(tokens)
      /\ label \in {"value", "arguments"} /\ label \notin {"new", "done"}
      /\ level \in 1..3 /\ IsTree(node) /\ node.at \in 0..Len(tokens)
  <2>1. label \in {"value", "arguments"} /\ label \notin {"new", "done"}
    BY DEF Closing, CloseParen, ParenFails, BeginArguments, NoArguments, NextArgument, LastArgument, CallFails,
           InCall, EndFormula, FormulaFails, AtTop
  <2>2. QED
    BY <2>1, PosInText DEF Pos, TypeInv, PlaceOK, StackOK
<1>1. CASE CloseParen
  <2>1. /\ Current # "EOF" /\ ReadToken("operand") /\ stack' = Front(stack) /\ Top.kind # "none"
        /\ UNCHANGED <<mode, level, node, items>>
    BY <1>1 DEF CloseParen, Pop
  <2>2. stack # << >>
    BY <2>1, TopIsLast
  <2>3. QED
    BY <1>0, <2>1, <2>2, TypeOnReadOnly DEF Labels
<1>2. CASE ParenFails \/ CallFails \/ FormulaFails
  BY <1>0, <1>2, AfterFail DEF ParenFails, CallFails, FormulaFails, Fail, MissingOperator
<1>3. CASE BeginArguments
  BY <1>0, <1>3, TypeOnGotoOnly DEF BeginArguments, Labels
<1>4. CASE NoArguments \/ LastArgument
  <2>1. PICK call : /\ CloseCall(call) /\ Current # "EOF"
                    /\ \/ label = "arguments" /\ call = Top
                       \/ Top.kind = "call" /\ call = WithChild(Top, node)
    BY <1>4 DEF NoArguments, LastArgument, InCall
  <2>2. ReadToken("operand") /\ node' = call /\ stack' = Front(stack) /\ UNCHANGED <<mode, level, items>>
    BY <2>1 DEF CloseCall, Pop
  <2>3. stack # << >> => IsTree(call) /\ call.at \in 0..Len(tokens) + 1
    BY <1>0, <2>1, TopIsLast, ChildAdded
  <2>4. stack # << >>
    BY <1>0, <2>1, TopIsLast DEF TypeInv, StackOK
  <2>5. QED
    BY <1>0, <2>1, <2>2, <2>3, <2>4, TypeOnReadOnly DEF Labels
<1>5. CASE NextArgument
  <2>1. /\ Current # "EOF" /\ ReadToken("factor") /\ Top.kind # "none"
        /\ stack' = Append(Front(stack), WithChild(Top, node)) /\ UNCHANGED <<mode, level, node, items>>
    BY <1>5 DEF NextArgument, InCall
  <2>2. stack # << >> /\ TextOK /\ PlaceOK /\ "factor" \in Labels \ {"new", "done"}
    BY <2>1, TopIsLast DEF TypeInv, Labels
  <2>3. Len(tokens') = Len(tokens) + 1 /\ label' \in {"factor", "done"}
    BY <1>0, <2>1, <2>2, AfterReadToken
  <2>4. StackOK'
    BY <2>1, <2>2, <2>3, StackReplaced
  <2>5. ItemsOK'
    BY <1>0, <2>1, <2>3, ItemsKept
  <2>6. QED
    BY <1>0, <2>1, <2>2, <2>4, <2>5, TypeOnRead
<1>6. CASE EndFormula
  <2>1. Listing(<<Item(node, 0)>>)
    <3>1. <<Item(node, 0)>> \in Seq({Item(node, 0)})
      OBVIOUS
    <3>2. QED
      BY <3>1, ListingOf
  <2>2. QED
    BY <1>0, <1>6, <2>1, AfterAccept DEF EndFormula
<1>7. QED
  BY <1>1, <1>2, <1>3, <1>4, <1>5, <1>6 DEF Closing

LEMMA TypeDocument == TypeInv /\ Document => TypeInv'
<1> SUFFICES ASSUME TypeInv, Document PROVE TypeInv'
  OBVIOUS
<1>0. /\ Len(tokens) \in Nat /\ Len(tokens) >= 1 /\ Pos = Len(tokens)
      /\ label \in {"item", "value", "alias", "separator", "next_item"} /\ label \notin {"new", "done"}
      /\ level \in 1..3 /\ IsTree(node) /\ node.at \in 0..Len(tokens)
      /\ mode = "document" /\ Listing(items)
  <2>1. /\ label \in {"item", "value", "alias", "separator", "next_item"} /\ label \notin {"new", "done"}
        /\ label = "value" => mode = "document"
    BY DEF Document, BeginItem, EmptyItem, Unnamed, As, Alias, AliasMissing, AtTop,
           EndDocument, Separator, NextItem, TrailingComma, SeparatorMissing
  <2>2. QED
    BY <2>1, PosInText DEF Pos, TypeInv, PlaceOK, StackOK, ItemsOK
<1>1. CASE BeginItem
  BY <1>0, <1>1, TypeOnGotoOnly DEF BeginItem, Labels
<1>2. CASE EmptyItem \/ AliasMissing \/ SeparatorMissing
  BY <1>0, <1>2, AfterFail DEF EmptyItem, AliasMissing, SeparatorMissing, Fail, MissingOperator
<1>3. CASE TrailingComma
  <2>1. Pos - 1 \in 0..Len(tokens)
    BY <1>0
  <2>2. QED
    BY <1>0, <1>3, <2>1, AfterFail DEF TrailingComma
<1>4. ASSUME NEW alias, EndItem(alias)
      PROVE  Listing(items') /\ UNCHANGED <<mode, level, stack, node>>
  BY <1>0, <1>4, ListingGrows DEF EndItem
<1>5. CASE Unnamed
  <2>1. Listing(items') /\ UNCHANGED <<mode, level, stack, node>> /\ Goto("separator")
    BY <1>4, <1>5 DEF Unnamed
  <2>2. ItemsOK'
    BY <1>0, <2>1 DEF ItemsOK
  <2>3. Len(tokens') = Len(tokens) /\ label' = "separator"
    BY <2>1 DEF Goto
  <2>4. StackOK'
    BY <1>0, <2>1, <2>3, StackKept
  <2>5. level' \in 1..3 /\ "separator" \in Labels \ {"new", "done"}
    BY <1>0, <2>1 DEF Labels
  <2>6. QED
    BY <1>0, <2>1, <2>2, <2>4, <2>5, TypeOnGoto
<1>6. CASE As \/ Separator
  BY <1>0, <1>6, TypeOnReadOnly DEF As, Separator, Labels
<1>7. CASE Alias
  <2>1. /\ Listing(items') /\ UNCHANGED <<mode, level, stack, node>> /\ ReadToken("separator")
        /\ Current # "EOF"
    BY <1>4, <1>7 DEF Alias, Identifiers
  <2>2. ItemsOK'
    BY <1>0, <2>1 DEF ItemsOK
  <2>3. TextOK /\ PlaceOK /\ "separator" \in Labels \ {"new", "done"}
    BY DEF TypeInv, Labels
  <2>4. Len(tokens') = Len(tokens) + 1 /\ label' \in {"separator", "done"}
    BY <1>0, <2>1, <2>3, AfterReadToken
  <2>5. StackOK'
    BY <1>0, <2>1, <2>4, StackKept
  <2>6. QED
    BY <1>0, <2>1, <2>2, <2>3, <2>5, TypeOnRead
<1>8. CASE EndDocument
  BY <1>0, <1>8, AfterAccept DEF EndDocument
<1>9. CASE NextItem
  BY <1>0, <1>9, TypeOnGotoOnly DEF NextItem, Labels
<1>10. QED
  BY <1>1, <1>2, <1>3, <1>5, <1>6, <1>7, <1>8, <1>9 DEF Document

LEMMA TypeNext == TypeInv /\ [Next]_vars => TypeInv'
<1> SUFFICES ASSUME TypeInv, [Next]_vars PROVE TypeInv'
  OBVIOUS
<1>0. level \in 1..3 /\ IsTree(node) /\ node.at \in 0..Len(tokens) /\ Len(tokens) \in Nat
  BY DEF TypeInv, PlaceOK, StackOK, TextOK
<1>1. CASE NewParser
  BY <1>0, <1>1, TypeOnReadOnly DEF NewParser, Labels
<1>2. CASE Empty
  <2>1. label # "new" /\ Pos \in 0..Len(tokens)
    BY <1>0, <1>2 DEF Empty, Pos
  <2>2. QED
    BY <1>2, <2>1, AfterFail DEF Empty, Fail
<1>3. CASE Start
  <2>1. PICK l \in {"item", "factor"} : Goto(l) /\ (l = "item" => mode = "document")
    BY <1>3 DEF Start
  <2>2. QED
    BY <1>0, <1>3, <2>1, TypeOnGotoOnly DEF Start, Labels
<1>4. CASE Factor \/ Loops \/ Closing \/ Document
  BY <1>4, TypeFactor, TypeLoops, TypeClosing, TypeDocument
<1>5. CASE UNCHANGED vars
  BY <1>5 DEF vars, TypeInv, TextOK, PlaceOK, StackOK, ItemsOK, Current
<1>6. QED
  BY <1>1, <1>2, <1>3, <1>4, <1>5 DEF Next

LEMMA TypeInvariant == Spec => []TypeInv
  BY TypeInit, TypeNext, PTL DEF Spec

(***************************************************************************)
(* Every step of the parser leaves it at a place of the text: the calls    *)
(* that wait have tokens of their own, further right the deeper they are,  *)
(* an error points into the text, and it fails or returns exactly once.    *)
(***************************************************************************)
THEOREM ParserTypeCorrect == Spec => []TypeOK
<1>1. ASSUME TypeInv PROVE TypeOK
  <2>1. \A i \in 1..Len(stack) : /\ stack[i].kind \in FrameKinds
                                 /\ stack[i].at \in 1..Len(tokens) - 1
                                 /\ i # 1 => stack[i - 1].at < stack[i].at
    BY <1>1 DEF TypeInv, StackOK
  <2>2. DOMAIN stack = 1..Len(stack) /\ Len(stack) \in Nat /\ Len(tokens) \in Nat
    BY <1>1 DEF TypeInv, StackOK, TextOK, Listing
  <2>3. ASSUME NEW i \in DOMAIN stack
        PROVE  /\ stack[i].kind \in {"paren", "negate", "binary", "call"}
               /\ stack[i].at \in (IF i = 1 THEN 1 ELSE stack[i - 1].at + 1)..Len(tokens)
    <3>1. i \in 1..Len(stack) /\ (i # 1 => i - 1 \in 1..Len(stack))
      BY <2>2
    <3>2. i # 1 => stack[i - 1].at \in 1..Len(tokens) - 1
      BY <2>1, <3>1
    <3>3. QED
      BY <2>1, <2>2, <3>1, <3>2 DEF FrameKinds
  <2>4. QED
    BY <1>1, <2>3 DEF TypeInv, TextOK, PlaceOK, StackOK, ItemsOK, Labels, TypeOK
<1>2. QED
  BY <1>1, TypeInvariant, PTL

-----------------------------------------------------------------------------
(***************************************************************************)
(* What the parser has made of the tokens behind which its current one is, *)
(* for any text ts that starts with them, whatever comes next.  A frame of *)
(* the stack is a tree with a hole at its end: the hole of level l from a  *)
(* token on wants a tree of level l over the tokens from there.            *)
(***************************************************************************)
ReadFrom(ts) == Len(tokens) - 1 <= Len(ts) /\ \A i \in 1..Len(tokens) - 1 : ts[i] = tokens[i]

Hole(from, l) == [from |-> from, level |-> l]
Holes(p) == [from : 1..p, level : 1..4]

ParenWaits(ts, frame, o, g) ==
  frame = Leaf("paren", o.from) /\ ts[o.from] = "LPAREN" /\ g = Hole(o.from + 1, 1)

NegateWaits(ts, frame, o, g) ==
  frame = Leaf("negate", o.from) /\ ts[o.from] = "MINUS" /\ g = Hole(o.from + 1, 4)

BinaryWaits(ts, frame, o, g) ==
  \E at \in o.from + 1..g.from - 1, j \in o.level..3 : \E a \in Over(ts, j, o.from, at - 1) :
    frame = Tree("binary", at, <<a>>) /\ ts[at] \in Operators[j] /\ g = Hole(at + 1, j + 1)

CallWaits(ts, frame, o, g) ==
  /\ ts[o.from] \in Identifiers /\ ts[o.from + 1] = "LPAREN" /\ g.level = 1
  /\ \/ frame = Leaf("call", o.from) /\ g.from = o.from + 2
     \/ /\ g.from > o.from + 3 /\ ts[g.from - 1] = "COMMA"
        /\ \E a \in Over(ts, 0, o.from + 2, g.from - 2) : frame = Tree("call", o.from, a)

\* With a tree in its hole g, the frame is a tree for the hole o.
Waits(ts, frame, o, g) ==
  \/ ParenWaits(ts, frame, o, g) \/ NegateWaits(ts, frame, o, g)
  \/ BinaryWaits(ts, frame, o, g) \/ CallWaits(ts, frame, o, g)

\* The frames hang in each other's holes, from the start of an item to the hole g.
HangBy(ts, frames, p, start, g, c) ==
  /\ \A i \in 0..Len(frames) : c[i] \in Holes(p)
  /\ c[0] = Hole(start, 1) /\ c[Len(frames)] = g
  /\ \A i \in 1..Len(frames) : Waits(ts, frames[i], c[i - 1], c[i])

Hang(ts, frames, p, start, g) == \E c : HangBy(ts, frames, p, start, g, c)

\* The items before the one that starts there.
Begun(ts, start) ==
  \/ start = 1 /\ items = << >>
  \/ /\ mode = "document" /\ start > 2 /\ ts[start - 1] = "COMMA"
     /\ items \in ItemLists(ts, Derivations(ts))[start - 2]

\* A path that may go on.
PathSoFar(ts, from, to) ==
  /\ to >= from /\ (to - from) % 2 = 0 /\ ts[from] # "TRUE"
  /\ \A i \in from..to : IF (i - from) % 2 = 0 THEN ts[i] \in Identifiers ELSE ts[i] = "DOT"

InFactorAt(lab, ts, p, g) ==
  \/ lab \in {"item", "factor", "arguments"} /\ g.from = p
  \/ lab = "name" /\ g.from = p - 1 /\ ts[p - 1] \in Identifiers /\ node = Leaf("column", p - 1)
  \/ /\ lab = "segment" /\ PathSoFar(ts, g.from, p - 2) /\ ts[p - 1] = "DOT"
     /\ node = PathOver(g.from, p - 2)
  \/ lab = "dot" /\ IsPath(ts, g.from, p - 1) /\ node = PathOver(g.from, p - 1)

InLoopsAt(lab, ts, p, g) ==
  \/ lab = "operand" /\ g.from <= p - 1 /\ node \in Over(ts, 4, g.from, p - 1)
  \/ /\ lab = "loop" /\ g.from <= p - 1 /\ Top.kind # "negate"
     /\ \/ g.level <= level + 1 /\ node \in Over(ts, level + 1, g.from, p - 1)
        \/ g.level <= level /\ node \in Over(ts, level, g.from, p - 1)
  \/ lab = "value" /\ g.from <= p - 1 /\ g.level = 1 /\ node \in Over(ts, 1, g.from, p - 1)
  \/ /\ lab = "alias" /\ g.from <= p - 2 /\ ts[p - 1] = "AS"
     /\ node \in Over(ts, 1, g.from, p - 2)

\* Within an item, with an empty stack before and after it.
WithinItem(lab, ts) == \E start, g :
  /\ Hang(ts, stack, Len(tokens), start, g) /\ Begun(ts, start)
  /\ InFactorAt(lab, ts, Len(tokens), g) \/ InLoopsAt(lab, ts, Len(tokens), g)
  /\ lab \in {"item", "alias"} => stack = << >>
  /\ lab = "arguments" => Top = Leaf("call", Len(tokens) - 2)

ParsedUpto(ts, to) ==
  \/ mode = "formula" /\ \E d \in Over(ts, 1, 1, to) : items = <<Item(d, 0)>>
  \/ mode = "document" /\ items \in ItemLists(ts, Derivations(ts))[to]

OutsideItems(lab, ts) ==
  \/ lab = "new" /\ stack = << >> /\ items = << >>
  \/ lab = "start" /\ stack = << >> /\ items = << >> /\ Len(tokens) = 1
  \/ lab = "separator" /\ stack = << >> /\ Len(tokens) > 1 /\ ParsedUpto(ts, Len(tokens) - 1)
  \/ /\ lab = "next_item" /\ stack = << >> /\ Len(tokens) > 2 /\ ts[Len(tokens) - 1] = "COMMA"
     /\ ParsedUpto(ts, Len(tokens) - 2)
  \/ /\ lab = "done"
     /\ outcome = Parsed => Current = "EOF" /\ Len(tokens) > 1 /\ ParsedUpto(ts, Len(tokens) - 1)

MakesAs(lab, ts) == WithinItem(lab, ts) \/ OutsideItems(lab, ts)

\* The statement that asked for the token that the lexer failed at goes on with a good one.
Target ==
  CASE label = "new" -> "start"
    [] label = "factor" -> IF Current \in {"MINUS", "LPAREN"} THEN "factor"
                           ELSE IF Current \in Identifiers THEN "name" ELSE "operand"
    [] label = "name" -> IF Current = "LPAREN" THEN "arguments" ELSE "segment"
    [] label = "segment" -> "dot"
    [] label = "dot" -> "segment"
    [] label = "loop" -> "factor"
    [] label = "value" -> IF Current = "RPAREN" THEN "operand" ELSE IF Current = "COMMA" THEN "factor" ELSE "alias"
    [] label = "alias" -> "separator"
    [] label = "separator" -> "next_item"
    [] OTHER -> "operand"

\* The lexer failed, and its error is returned or dropped for that of a call.
Dropped == outcome.code = "unexpected_token" /\ outcome.at = Len(tokens) - 1

Stopped == label = "done" /\ (outcome.code = "lexer_error" \/ Dropped)

Reached(lab) == lab = IF Stopped' THEN Target ELSE label'

Sound == \E lab \in Labels :
  /\ IF Stopped THEN lab \notin {"new", "done"} ELSE lab = label
  /\ lab \in {"alias", "next_item"} => mode = "document"
  /\ \A ts \in Seq(TokenTypes) : ReadFrom(ts) => MakesAs(lab, ts)

\* A step reads one token or none, the first step one.
LEMMA TokensRead ==
  ASSUME [Next]_vars
  PROVE  \/ tokens' = tokens /\ (label = "new" => UNCHANGED vars)
         \/ \E l : ReadToken(l)
<1>1. \A l : Goto(l) => tokens' = tokens
  BY DEF Goto
<1>2. \A c, at : FailAt(c, at) => tokens' = tokens
  BY DEF FailAt
<1>3. \A r : Accept(r) => tokens' = tokens
  BY DEF Accept
<1>5. CASE Factor
  BY <1>1, <1>2, <1>5 DEF Factor, Literal, Negate, OpenParen, OpenFrame, FactorFails, Name, OpenCall,
                                Constant, OpenPath, Column, Segment, SegmentMissing, Dot, Fail
<1>6. CASE Loops
  BY <1>1, <1>6 DEF Loops, CloseNegate, EndFactor, CloseBinary, OpenBinary, LeaveLoop
<1>7. CASE Closing
  BY <1>1, <1>2, <1>3, <1>7 DEF Closing, CloseParen, ParenFails, BeginArguments, NoArguments, CloseCall,
                                      NextArgument, LastArgument, CallFails, EndFormula, FormulaFails, Fail,
                                      MissingOperator, InCall, AtTop
<1>8. CASE Document
  BY <1>1, <1>2, <1>3, <1>8 DEF AtTop, Document, BeginItem, EmptyItem, Unnamed, As, Alias, AliasMissing,
                                      EndDocument, Separator, NextItem, TrailingComma, SeparatorMissing, Fail,
                                      MissingOperator
<1>9. CASE NewParser \/ Empty \/ Start
  BY <1>1, <1>2, <1>9 DEF NewParser, Empty, Start, Fail
<1>10. CASE UNCHANGED vars
  BY <1>10 DEF vars
<1>11. QED
  BY <1>5, <1>6, <1>7, <1>8, <1>9, <1>10 DEF Next

LEMMA TextGrows ==
  ASSUME TypeInv, [Next]_vars
  PROVE  \/ tokens' = tokens
         \/ Len(tokens') = Len(tokens) + 1 /\ \A i \in 1..Len(tokens) : tokens'[i] = tokens[i]
<1>1. ASSUME \E l : ReadToken(l)
      PROVE  Len(tokens') = Len(tokens) + 1 /\ \A i \in 1..Len(tokens) : tokens'[i] = tokens[i]
  <2>1. PICK t \in Lexicon : tokens' = Append(tokens, t)
    BY <1>1, LexiconAssumption DEF ReadToken
  <2>2. tokens \in Seq(Lexicon)
    BY DEF TypeInv, TextOK
  <2>3. QED
    BY <2>1, <2>2
<1>2. QED
  BY <1>1, TokensRead

\* What has been read of a text, and that a step which reads on goes by the current token.
LEMMA ReadSoFar ==
  ASSUME TypeInv, label # "new", [Next]_vars, NEW ts \in Seq(TokenTypes), ReadFrom(ts)'
  PROVE  /\ Len(tokens) \in Nat /\ Len(tokens) >= 1 /\ Len(ts) \in Nat /\ Len(tokens) - 1 <= Len(ts)
         /\ \A i \in 1..Len(tokens) - 1 : tokens[i] = ts[i]
         /\ Current = tokens[Len(tokens)]
         /\ Len(tokens') = Len(tokens) + 1 => Len(tokens) <= Len(ts) /\ ts[Len(tokens)] = Current
         /\ ReadFrom(ts)
<1>1. Len(tokens) \in Nat /\ Len(tokens) >= 1 /\ Len(ts) \in Nat /\ Current = tokens[Len(tokens)]
  BY PosInText DEF Current, Last
<1>2. CASE tokens' = tokens
  BY <1>1, <1>2 DEF ReadFrom
<1>3. CASE Len(tokens') = Len(tokens) + 1 /\ \A i \in 1..Len(tokens) : tokens'[i] = tokens[i]
  <2>1. Len(tokens') - 1 = Len(tokens) /\ \A i \in 1..Len(tokens) - 1 : i \in 1..Len(tokens)
    BY <1>1, <1>3
  <2>2. Len(tokens) <= Len(ts) /\ \A i \in 1..Len(tokens) : ts[i] = tokens[i]
    BY <1>3, <2>1 DEF ReadFrom
  <2>3. Len(tokens) \in 1..Len(tokens)
    BY <1>1
  <2>4. QED
    BY <1>1, <2>1, <2>2, <2>3 DEF ReadFrom
<1>4. QED
  BY <1>2, <1>3, TextGrows

(***************************************************************************)
(* The frames, one more or one less.                                       *)
(***************************************************************************)
LEMMA HangStays ==
  ASSUME NEW ts, NEW frames, NEW p \in Nat, NEW q \in Nat, p <= q, NEW start, NEW g,
         Hang(ts, frames, p, start, g)
  PROVE  Hang(ts, frames, q, start, g)
<1>1. PICK c : HangBy(ts, frames, p, start, g, c)
  BY DEF Hang
<1>2. \A h : h \in Holes(p) => h \in Holes(q)
  BY DEF Holes
<1>3. HangBy(ts, frames, q, start, g, c)
  BY <1>1, <1>2 DEF HangBy
<1>4. QED
  BY <1>3 DEF Hang

LEMMA HangTop ==
  ASSUME NEW ts, NEW frames, Len(frames) \in Nat, NEW p \in Nat, NEW start, NEW g, Hang(ts, frames, p, start, g)
  PROVE  /\ g \in Holes(p) /\ g.from \in 1..p /\ g.level \in 1..4 /\ start \in 1..p
         /\ Len(frames) = 0 => g = Hole(start, 1) /\ g.from = start /\ g.level = 1
<1>1. PICK c : HangBy(ts, frames, p, start, g, c)
  BY DEF Hang
<1>2. c[0] \in Holes(p) /\ c[Len(frames)] \in Holes(p) /\ c[0] = Hole(start, 1) /\ c[Len(frames)] = g
  BY <1>1 DEF HangBy
<1>3. QED
  BY <1>2 DEF Hole, Holes

LEMMA HangNone ==
  ASSUME NEW ts, NEW frames, Len(frames) = 0, NEW p \in Nat, NEW start \in 1..p
  PROVE  Hang(ts, frames, p, start, Hole(start, 1))
<1> DEFINE c == [i \in {0} |-> Hole(start, 1)]
<1>1. Hole(start, 1) \in Holes(p)
  BY DEF Hole, Holes
<1>2. c[0] = Hole(start, 1) /\ \A i \in 0..Len(frames) : i = 0
  OBVIOUS
<1> HIDE DEF c
<1>3. HangBy(ts, frames, p, start, Hole(start, 1), c)
  BY <1>1, <1>2 DEF HangBy
<1>4. QED
  BY <1>3 DEF Hang

LEMMA HangPushed ==
  ASSUME NEW ts, NEW frames, Len(frames) \in Nat, NEW p \in Nat, NEW q \in Nat, p <= q, NEW start, NEW o,
         Hang(ts, frames, p, start, o), NEW frame, NEW g \in Holes(q), Waits(ts, frame, o, g),
         NEW more, Len(more) = Len(frames) + 1, more[Len(frames) + 1] = frame,
         \A i \in 1..Len(frames) : more[i] = frames[i]
  PROVE  Hang(ts, more, q, start, g)
<1>1. PICK c : HangBy(ts, frames, p, start, o, c)
  BY DEF Hang
<1> DEFINE n == Len(frames)
           d == [i \in 0..n + 1 |-> IF i = n + 1 THEN g ELSE c[i]]
<1>2. \A h : h \in Holes(p) => h \in Holes(q)
  BY DEF Holes
<1>3. d[n + 1] = g /\ \A i \in 0..n : d[i] = c[i]
  OBVIOUS
<1> HIDE DEF n, d
<1>4. n \in Nat /\ Len(more) = n + 1 /\ more[n + 1] = frame /\ \A i \in 1..n : more[i] = frames[i]
  BY DEF n
<1>5. /\ \A i \in 0..n : c[i] \in Holes(p)
      /\ c[0] = Hole(start, 1) /\ c[n] = o
      /\ \A i \in 1..n : Waits(ts, frames[i], c[i - 1], c[i])
  BY <1>1 DEF HangBy, n
<1>6. ASSUME NEW i \in 0..n + 1
      PROVE  d[i] \in Holes(q)
  <2>1. CASE i = n + 1
    BY <1>3, <2>1
  <2>2. CASE i \in 0..n
    BY <1>2, <1>3, <1>5, <2>2
  <2>3. QED
    BY <1>4, <2>1, <2>2
<1>7. ASSUME NEW i \in 1..n + 1
      PROVE  Waits(ts, more[i], d[i - 1], d[i])
  <2>1. CASE i = n + 1
    <3>1. i - 1 = n /\ n \in 0..n
      BY <1>4, <2>1
    <3>2. more[i] = frame /\ d[i - 1] = o /\ d[i] = g
      BY <1>3, <1>4, <1>5, <2>1, <3>1
    <3>3. QED
      BY <3>2
  <2>2. CASE i \in 1..n
    <3>1. i - 1 \in 0..n /\ i \in 0..n
      BY <1>4, <2>2
    <3>2. more[i] = frames[i] /\ d[i - 1] = c[i - 1] /\ d[i] = c[i]
      BY <1>3, <1>4, <2>2, <3>1
    <3>3. QED
      BY <1>5, <2>2, <3>2
  <2>3. QED
    BY <1>4, <2>1, <2>2
<1>8. d[0] = Hole(start, 1) /\ d[n + 1] = g
  BY <1>3, <1>4, <1>5
<1>9. HangBy(ts, more, q, start, g, d)
  BY <1>4, <1>6, <1>7, <1>8 DEF HangBy
<1>10. QED
  BY <1>9 DEF Hang

LEMMA HangPopped ==
  ASSUME NEW ts, NEW frames, Listing(frames), frames # << >>, NEW p \in Nat, NEW start, NEW g,
         Hang(ts, frames, p, start, g)
  PROVE  \E o \in Holes(p) : Hang(ts, Front(frames), p, start, o) /\ Waits(ts, frames[Len(frames)], o, g)
<1>1. PICK c : HangBy(ts, frames, p, start, g, c)
  BY DEF Hang
<1> DEFINE n == Len(frames) - 1
<1>2. /\ Len(frames) \in Nat /\ Len(frames) > 0 /\ Len(Front(frames)) = n
      /\ \A i \in 1..n : Front(frames)[i] = frames[i]
  BY ListingShortens
<1>3. n \in Nat /\ n + 1 = Len(frames)
  BY <1>2
<1> HIDE DEF n
<1>4. /\ \A i \in 0..n + 1 : c[i] \in Holes(p)
      /\ c[0] = Hole(start, 1) /\ c[n + 1] = g
      /\ \A i \in 1..n + 1 : Waits(ts, frames[i], c[i - 1], c[i])
  BY <1>1, <1>3 DEF HangBy
<1>5. HangBy(ts, Front(frames), p, start, c[n], c)
  <2>1. \A i \in 0..n : i \in 0..n + 1
    BY <1>3
  <2>2. ASSUME NEW i \in 1..n
        PROVE  Waits(ts, Front(frames)[i], c[i - 1], c[i])
    <3>1. i \in 1..n + 1 /\ Front(frames)[i] = frames[i]
      BY <1>2, <1>3
    <3>2. QED
      BY <1>4, <3>1
  <2>3. \A i \in 0..n : c[i] \in Holes(p)
    BY <1>4, <2>1
  <2>4. QED
    BY <1>2, <1>4, <2>2, <2>3 DEF HangBy
<1>6. Waits(ts, frames[n + 1], c[n], g) /\ c[n] \in Holes(p)
  <2>1. n + 1 \in 1..n + 1 /\ n + 1 - 1 = n /\ n \in 0..n + 1
    BY <1>3
  <2>2. QED
    BY <1>4, <2>1
<1>7. QED
  BY <1>3, <1>5, <1>6 DEF Hang

LEMMA KindTells ==
  ASSUME NEW ts, NEW frame, NEW o, NEW g, Waits(ts, frame, o, g)
  PROVE  /\ frame.kind = "paren" => ParenWaits(ts, frame, o, g)
         /\ frame.kind = "negate" => NegateWaits(ts, frame, o, g)
         /\ frame.kind = "binary" => BinaryWaits(ts, frame, o, g)
         /\ frame.kind = "call" => CallWaits(ts, frame, o, g)
         /\ frame.kind \in FrameKinds
<1>1. ParenWaits(ts, frame, o, g) => frame.kind = "paren"
  BY TreesOf DEF ParenWaits
<1>2. NegateWaits(ts, frame, o, g) => frame.kind = "negate"
  BY TreesOf DEF NegateWaits
<1>3. BinaryWaits(ts, frame, o, g) => frame.kind = "binary"
  BY TreesOf DEF BinaryWaits
<1>4. CallWaits(ts, frame, o, g) => frame.kind = "call"
  BY TreesOf DEF CallWaits
<1>5. QED
  BY <1>1, <1>2, <1>3, <1>4 DEF Waits, FrameKinds

(***************************************************************************)
(* A frame with a tree in its hole is a tree of the grammar.               *)
(***************************************************************************)
LEMMA WordsAreFactors ==
  ASSUME NEW T, NEW ts \in Seq(T), NEW at \in 1..Len(ts)
  PROVE  /\ ts[at] \in {"NUMBER", "STRING", "TRUE"} => Leaf("literal", at) \in Over(ts, 4, at, at)
         /\ ts[at] \in Identifiers \ {"TRUE"} => Leaf("column", at) \in Over(ts, 4, at, at)
  BY InWord DEF Word, Identifiers

LEMMA NegateFilled ==
  ASSUME NEW T, NEW ts \in Seq(T), NEW o, NEW g, NEW frame, NegateWaits(ts, frame, o, g),
         o.from \in 1..Len(ts), NEW to \in o.from + 1..Len(ts), NEW child \in Over(ts, 4, g.from, to)
  PROVE  WithChild(frame, child) \in Over(ts, 4, o.from, to)
<1>1. frame = Leaf("negate", o.from) /\ ts[o.from] = "MINUS" /\ g.from = o.from + 1
  BY DEF NegateWaits, Hole
<1>2. WithChild(frame, child) = Tree("negate", o.from, <<child>>)
  BY <1>1, FirstChild
<1>3. Negation(ts, o.from, to, WithChild(frame, child))
  BY <1>1, <1>2 DEF Negation
<1>4. QED
  BY <1>3, InFactor

LEMMA ParenFilled ==
  ASSUME NEW T, NEW ts \in Seq(T), NEW o, NEW g, NEW frame, ParenWaits(ts, frame, o, g),
         o.from \in 1..Len(ts), NEW to \in o.from + 1..Len(ts), ts[to] = "RPAREN",
         NEW child \in Over(ts, 1, g.from, to - 1)
  PROVE  child \in Over(ts, 4, o.from, to)
<1>1. ts[o.from] = "LPAREN" /\ g.from = o.from + 1
  BY DEF ParenWaits, Hole
<1>2. Enclosure(ts, o.from, to, child)
  BY <1>1 DEF Enclosure
<1>3. QED
  BY <1>2, InFactor

LEMMA BinaryFilled ==
  ASSUME NEW T, NEW ts \in Seq(T), NEW p \in Nat, NEW o \in Holes(p), NEW g \in Holes(p), NEW frame,
         BinaryWaits(ts, frame, o, g),
         NEW to \in g.from..Len(ts), NEW child \in Over(ts, g.level, g.from, to)
  PROVE  /\ frame.at \in 1..to /\ o.from < to
         /\ \E j \in o.level..3 : /\ j \in 1..3 /\ g.level = j + 1 /\ ts[frame.at] \in Operators[j]
                                  /\ WithChild(frame, child) \in Over(ts, j, o.from, to)
<1>0. PICK at \in o.from + 1..g.from - 1, j \in o.level..3 :
        \E a \in Over(ts, j, o.from, at - 1) :
          frame = Tree("binary", at, <<a>>) /\ ts[at] \in Operators[j] /\ g = Hole(at + 1, j + 1)
  BY DEF BinaryWaits
<1>1. PICK a \in Over(ts, j, o.from, at - 1) :
        frame = Tree("binary", at, <<a>>) /\ ts[at] \in Operators[j] /\ g = Hole(at + 1, j + 1)
  BY <1>0
<1>2. o.from \in 1..p /\ o.level \in 1..4 /\ g.from \in 1..p
  BY DEF Holes
<1>3. g.from = at + 1 /\ g.level = j + 1 /\ j \in 1..3 /\ at \in o.from + 1..to - 1
  BY <1>1, <1>2 DEF Hole
<1>4. WithChild(frame, child) = Tree("binary", at, <<a, child>>) /\ frame.at = at
  <2>1. WithChild(Tree("binary", at, <<a>>), child) = Tree("binary", at, <<a, child>>)
    BY SecondChild
  <2>2. Tree("binary", at, <<a>>).at = at
    BY TreesOf
  <2>3. QED
    BY <1>1, <2>1, <2>2, Zenon
<1>5. JoinsAt(ts, j, o.from, to, WithChild(frame, child), at)
  BY <1>1, <1>3, <1>4 DEF JoinsAt, Joins, Over
<1>6. o.from \in 1..Len(ts) /\ to \in o.from..Len(ts)
  BY <1>2, <1>3
<1>7. WithChild(frame, child) \in Over(ts, j, o.from, to)
  BY <1>3, <1>5, <1>6, InLevel
<1>8. frame.at \in 1..to /\ o.from < to /\ j \in o.level..3
  BY <1>2, <1>3, <1>4
<1>9. QED
  BY <1>1, <1>3, <1>4, <1>7, <1>8, Zenon

LEMMA CallFilled ==
  ASSUME NEW T, NEW ts \in Seq(T), NEW p \in Nat, NEW o \in Holes(p), NEW g \in Holes(p), NEW frame,
         CallWaits(ts, frame, o, g),
         NEW to \in g.from..Len(ts), NEW child \in Over(ts, 1, g.from, to)
  PROVE  /\ o.from + 2 <= to
         /\ \E a \in Over(ts, 0, o.from + 2, to) : WithChild(frame, child) = Tree("call", o.from, a)
<1>1. o.from \in 1..p /\ g.from \in 1..p
  BY DEF Holes
<1>2. CASE frame = Leaf("call", o.from) /\ g.from = o.from + 2
  <2>1. WithChild(frame, child) = Tree("call", o.from, <<child>>)
    BY <1>2, FirstChild
  <2>2. o.from + 2 \in 1..Len(ts) /\ to \in o.from + 2..Len(ts)
    BY <1>1, <1>2
  <2>3. <<child>> \in Over(ts, 0, o.from + 2, to)
    BY <1>2, <2>2, InList
  <2>4. QED
    BY <2>1, <2>2, <2>3
<1>3. CASE ~(frame = Leaf("call", o.from) /\ g.from = o.from + 2)
  <2>1. g.from > o.from + 3 /\ ts[g.from - 1] = "COMMA"
    BY <1>3 DEF CallWaits
  <2>2. PICK a \in Over(ts, 0, o.from + 2, g.from - 2) : frame = Tree("call", o.from, a)
    BY <1>3 DEF CallWaits
  <2>3. WithChild(frame, child) = Tree("call", o.from, Append(a, child))
    BY <2>2, NextChild
  <2>4. /\ o.from + 2 \in 1..Len(ts) /\ to \in o.from + 2..Len(ts)
        /\ g.from - 1 \in o.from + 2 + 1..to - 1 /\ g.from - 1 - 1 = g.from - 2 /\ g.from - 1 + 1 = g.from
    <3>1. \A x, y, z, n \in Nat : x >= 1 /\ y > x + 3 /\ y <= z /\ z <= n =>
            /\ x + 2 \in 1..n /\ z \in x + 2..n
            /\ y - 1 \in x + 2 + 1..z - 1 /\ y - 1 - 1 = y - 2 /\ y - 1 + 1 = y
      OBVIOUS
    <3>2. o.from \in Nat /\ g.from \in Nat /\ to \in Nat /\ Len(ts) \in Nat /\ o.from >= 1 /\ g.from <= to /\ to <= Len(ts)
      BY <1>1
    <3>3. QED
      BY <2>1, <3>1, <3>2, Zenon
  <2>5. Splits(ts, Derivations(ts), o.from + 2, to, Append(a, child), g.from - 1)
    BY <2>1, <2>2, <2>4 DEF Splits, Over
  <2>6. Append(a, child) \in Over(ts, 0, o.from + 2, to)
    BY <2>4, <2>5, InList
  <2>7. QED
    BY <2>3, <2>4, <2>6
<1>4. QED
  BY <1>2, <1>3

\* A path of names and dots, and one that has just begun.
LEMMA PathBegins ==
  ASSUME NEW at \in Nat
  PROVE  PathOver(at, at) = Tree("path", at, <<Leaf("segment", at)>>)
<1>1. (at - at) \div 2 + 1 = 1 /\ at + 2 * (1 - 1) = at
  OBVIOUS
<1>2. [i \in 1..1 |-> Leaf("segment", at + 2 * (i - 1))] = <<Leaf("segment", at)>>
  BY <1>1
<1>3. QED
  BY <1>1, <1>2 DEF PathOver

LEMMA PathGrows ==
  ASSUME NEW from \in Nat, NEW to \in Nat, from <= to, (to - from) % 2 = 0
  PROVE  WithChild(PathOver(from, to), Leaf("segment", to + 2)) = PathOver(from, to + 2)
<1> DEFINE n == (to - from) \div 2
           s == [i \in 1..n + 1 |-> Leaf("segment", from + 2 * (i - 1))]
           r == [i \in 1..n + 1 + 1 |-> Leaf("segment", from + 2 * (i - 1))]
<1>1. n \in Nat /\ to = from + 2 * n /\ (to + 2 - from) \div 2 = n + 1
  OBVIOUS
<1>2. Append(s, Leaf("segment", to + 2)) = r
  <2> HIDE DEF n
  <2> DEFINE S == {Leaf("segment", at) : at \in Nat}
  <2>1. s \in Seq(S) /\ Len(s) = n + 1
    <3>1. n + 1 \in Nat
      BY <1>1
    <3>2. s \in [1..n + 1 -> S]
      BY <1>1
    <3> HIDE DEF s, S
    <3>3. s \in Seq(S)
      BY <3>1, <3>2
    <3>4. QED
      BY <3>1, <3>2, <3>3, LenProperties
  <2>2. Leaf("segment", to + 2) = Leaf("segment", from + 2 * (n + 1 + 1 - 1))
    BY <1>1
  <2>3. r \in Seq(S) /\ Len(r) = n + 1 + 1
    <3>1. n + 1 + 1 \in Nat
      BY <1>1
    <3>2. r \in [1..n + 1 + 1 -> S]
      BY <1>1
    <3> HIDE DEF r, S
    <3>3. r \in Seq(S)
      BY <3>1, <3>2
    <3>4. QED
      BY <3>1, <3>2, <3>3, LenProperties
  <2>4. \A i \in 1..n + 1 : s[i] = r[i]
    BY <1>1
  <2>5. r[n + 1 + 1] = Leaf("segment", to + 2)
    BY <1>1, <2>2
  <2>6. Leaf("segment", to + 2) \in S
    OBVIOUS
  <2> DEFINE e == Leaf("segment", to + 2)
             v == Append(s, e)
  <2> HIDE DEF s, r, S, e
  <2>7. v \in Seq(S) /\ Len(v) = n + 1 + 1 /\ v[n + 1 + 1] = e /\ \A i \in 1..n + 1 : v[i] = s[i]
    BY <1>1, <2>1, <2>6 DEF e
  <2> HIDE DEF v
  <2>8. \A i \in 1..n + 1 + 1 : v[i] = r[i]
    BY <1>1, <2>4, <2>5, <2>7 DEF e
  <2>9. v = r
    BY <2>3, <2>7, <2>8, SeqEqual
  <2>10. QED
    BY <2>9 DEF v, e
<1>3. PathOver(from, to) = Tree("path", from, s) /\ PathOver(from, to + 2) = Tree("path", from, r)
  BY <1>1 DEF PathOver
<1>4. QED
  <2> HIDE DEF s, r
  <2>1. WithChild(Tree("path", from, s), Leaf("segment", to + 2)) =
          Tree("path", from, Append(s, Leaf("segment", to + 2)))
    BY NextChild
  <2>2. QED
    BY <1>2, <1>3, <2>1, Zenon

(***************************************************************************)
(* The steps.                                                              *)
(***************************************************************************)
LEMMA MakesOnFail ==
  ASSUME TypeInv, NEW ts, NEW code, code # "parsed", code # "lexer_error",
         NEW at, at = Pos \/ code # "unexpected_token", FailAt(code, at), NEW lab, Reached(lab)
  PROVE  MakesAs(lab, ts)'
<1>1. label' = "done" /\ outcome'.code = code /\ outcome'.at = at /\ outcome' # Parsed /\ tokens' = tokens
  BY DEF FailAt, Outcome, Parsed
<1>2. Len(tokens) \in Nat
  BY DEF TypeInv, TextOK
<1>3. ~Stopped'
  BY <1>1, <1>2 DEF Stopped, Dropped, Pos
<1>4. QED
  BY <1>1, <1>3 DEF MakesAs, OutsideItems, Reached

LEMMA ReadTo ==
  ASSUME TypeInv, NEW l, l # "done", ReadToken(l), Target = l, NEW lab, Reached(lab)
  PROVE  lab = l
<1>1. PICK t \in Lexicon :
        /\ tokens' = Append(tokens, t)
        /\ IF t = "ILLEGAL" THEN label' = "done" /\ outcome' = LexerFailed
                            ELSE label' = l /\ UNCHANGED outcome
  BY LexiconAssumption DEF ReadToken
<1>2. Len(tokens) \in Nat /\ Len(tokens') = Len(tokens) + 1
  BY <1>1 DEF TypeInv, TextOK
<1>3. CASE t = "ILLEGAL"
  BY <1>1, <1>2, <1>3, LexerFailedIs DEF Reached, Stopped, Dropped
<1>4. CASE t # "ILLEGAL"
  BY <1>1, <1>4 DEF Reached, Stopped
<1>5. QED
  BY <1>3, <1>4

LEMMA Established ==
  ASSUME NEW ts, NEW start, NEW g, Hang(ts, stack', Len(tokens'), start, g),
         Begun(ts, start), mode' = mode, items' = items,
         NEW lab, InFactorAt(lab, ts, Len(tokens), g)' \/ InLoopsAt(lab, ts, Len(tokens), g)',
         lab \in {"item", "alias"} => stack' = << >>,
         lab = "arguments" => Top' = Leaf("call", Len(tokens') - 2)
  PROVE  MakesAs(lab, ts)'
<1>1. Begun(ts, start)'
  BY DEF Begun
<1>2. WithinItem(lab, ts)'
  BY <1>1 DEF WithinItem
<1>3. QED
  BY <1>2 DEF MakesAs

InItemLabels == {"item", "factor", "name", "segment", "dot", "arguments", "operand", "loop", "value", "alias"}

LEMMA Inside ==
  ASSUME NEW ts, MakesAs(label, ts), label \in InItemLabels
  PROVE  WithinItem(label, ts)
  BY DEF MakesAs, OutsideItems, InItemLabels

\* What holds wherever the parser is within an item.
Placed(ts, start, g) ==
  /\ Hang(ts, stack, Len(tokens), start, g) /\ Begun(ts, start)
  /\ InFactorAt(label, ts, Len(tokens), g) \/ InLoopsAt(label, ts, Len(tokens), g)
  /\ label \in {"item", "alias"} => stack = << >>
  /\ label = "arguments" => Top = Leaf("call", Len(tokens) - 2)
  /\ Hang(ts, stack, Len(tokens) + 1, start, g)
  /\ g \in Holes(Len(tokens)) /\ g.from \in 1..Len(tokens) /\ g.level \in 1..4 /\ start \in 1..Len(tokens)
  /\ stack = << >> => g.from = start /\ g.level = 1

LEMMA PlacedInside ==
  ASSUME TypeInv, NEW ts, MakesAs(label, ts), label \in InItemLabels
  PROVE  \E start, g : Placed(ts, start, g)
<1>1. PICK start, g :
        /\ Hang(ts, stack, Len(tokens), start, g) /\ Begun(ts, start)
        /\ InFactorAt(label, ts, Len(tokens), g) \/ InLoopsAt(label, ts, Len(tokens), g)
        /\ label \in {"item", "alias"} => stack = << >>
        /\ label = "arguments" => Top = Leaf("call", Len(tokens) - 2)
  BY Inside DEF WithinItem
<1>2. Len(stack) \in Nat /\ Len(tokens) \in Nat /\ (stack = << >> => Len(stack) = 0)
  BY DEF TypeInv, TextOK, StackOK, Listing
<1>3. Hang(ts, stack, Len(tokens) + 1, start, g)
  BY <1>1, <1>2, HangStays
<1>4. /\ g \in Holes(Len(tokens)) /\ g.from \in 1..Len(tokens) /\ g.level \in 1..4 /\ start \in 1..Len(tokens)
      /\ Len(stack) = 0 => g.from = start /\ g.level = 1
  BY <1>1, <1>2, HangTop
<1>5. Placed(ts, start, g)
  BY <1>1, <1>2, <1>3, <1>4 DEF Placed
<1>6. QED
  BY <1>5

\* The current token opens a frame, or the name before it does.
LEMMA FrameOpened ==
  ASSUME TypeInv, NEW ts, NEW start, NEW g, Placed(ts, start, g),
         Len(tokens') = Len(tokens) + 1, mode' = mode, items' = items,
         NEW frame, stack' = Append(stack, frame), NEW lab \in {"factor", "arguments"},
         NEW l \in 1..4, Waits(ts, frame, g, Hole(Len(tokens) + 1, l)),
         lab = "arguments" => frame = Leaf("call", Len(tokens) - 1)
  PROVE  MakesAs(lab, ts)'
<1>1. Len(tokens) \in Nat /\ Listing(stack)
  BY DEF TypeInv, TextOK, StackOK
<1>0. PICK h : h = Hole(Len(tokens) + 1, l)
  OBVIOUS
<1>2. h \in Holes(Len(tokens')) /\ h.from = Len(tokens')
  BY <1>0, <1>1 DEF Hole, Holes
<1>3. /\ Len(stack) \in Nat /\ Len(stack') = Len(stack) + 1 /\ stack'[Len(stack) + 1] = frame
      /\ \A i \in 1..Len(stack) : stack'[i] = stack[i]
      /\ stack' # << >>
  BY <1>1, ListingGrows
<1>4. Hang(ts, stack, Len(tokens), start, g) /\ Begun(ts, start)
  BY DEF Placed
<1>5. Waits(ts, frame, g, h)
  BY <1>0
<1>6. Hang(ts, stack', Len(tokens'), start, h)
  <2>1. Len(tokens') \in Nat /\ Len(tokens) <= Len(tokens')
    BY <1>1
  <2>2. QED
    BY <1>1, <1>2, <1>3, <1>4, <1>5, <2>1, HangPushed
<1>7. Top' = frame
  BY <1>3 DEF Top, Last
<1>8. InFactorAt(lab, ts, Len(tokens), h)'
  BY <1>2 DEF InFactorAt
<1>9. lab = "arguments" => Top' = Leaf("call", Len(tokens') - 2)
  BY <1>1, <1>7
<1>10. QED
  BY <1>4, <1>6, <1>8, <1>9, Established

\* The stack stays, and the node is what the label says.
LEMMA StackStays ==
  ASSUME TypeInv, NEW ts, NEW start, NEW g, Placed(ts, start, g),
         Len(tokens') \in {Len(tokens), Len(tokens) + 1}, UNCHANGED <<mode, stack, items>>,
         NEW lab, InFactorAt(lab, ts, Len(tokens), g)' \/ InLoopsAt(lab, ts, Len(tokens), g)',
         lab \notin {"arguments"}, lab \in {"item", "alias"} => stack = << >>
  PROVE  MakesAs(lab, ts)'
<1>1. Hang(ts, stack', Len(tokens'), start, g) /\ Begun(ts, start)
  BY DEF Placed
<1>2. QED
  BY <1>1, Established

LEMMA FactorMakes ==
  ASSUME TypeInv, NEW ts \in Seq(TokenTypes), [Next]_vars, ReadFrom(ts)', MakesAs(label, ts), Factor,
         NEW lab, Reached(lab)
  PROVE  MakesAs(lab, ts)'
<1>30. /\ label' # "done" => lab = label'
       /\ label' = "done" /\ outcome'.code \notin {"lexer_error", "unexpected_token"} => lab = "done"
  BY DEF Reached, Stopped, Dropped
<1>0. /\ label \in {"factor", "name", "segment", "dot"} /\ label \notin {"new", "done"}
      /\ label \in InItemLabels
  BY DEF Factor, Literal, Negate, OpenParen, FactorFails, Name, OpenCall, Constant, OpenPath, Column,
         Segment, SegmentMissing, Dot, InItemLabels
<1>1. PICK start, g : Placed(ts, start, g)
  BY <1>0, PlacedInside
<1>2. PICK p : p = Len(tokens)
  OBVIOUS
<1>3. /\ p \in Nat /\ p >= 1 /\ Len(ts) \in Nat /\ p - 1 <= Len(ts) /\ Pos = p
      /\ \A i \in 1..p - 1 : tokens[i] = ts[i]
      /\ Len(tokens') = p + 1 => p \in 1..Len(ts) /\ ts[p] = Current
  BY <1>0, <1>2, ReadSoFar DEF Pos
<1>4. ASSUME NEW l \in Labels \ {"new", "done"}, ReadToken(l), Current # "EOF"
      PROVE  Len(tokens') = p + 1
  BY <1>0, <1>2, <1>4, AfterReadToken DEF TypeInv
<1>5. g.from \in 1..p /\ g.level \in 1..4 /\ InFactorAt(label, ts, p, g)
  BY <1>0, <1>1, <1>2 DEF Placed, InLoopsAt
<1>6. CASE Literal
  <2>1. label = "factor" /\ Current \in {"NUMBER", "STRING"} /\ node' = Leaf("literal", p) /\ ReadToken("operand")
        /\ UNCHANGED <<mode, level, stack, items>>
    BY <1>3, <1>6 DEF Literal
  <2>2. "operand" \in Labels \ {"new", "done"}
    BY DEF Labels
  <2>3. Len(tokens') = p + 1 /\ g.from = p /\ p \in 1..Len(ts)
    BY <1>3, <1>4, <1>5, <2>1, <2>2 DEF InFactorAt
  <2>4. node' \in Over(ts, 4, p, p)
    BY <1>3, <2>1, <2>3, WordsAreFactors
  <2>5. ASSUME lab = "operand" PROVE MakesAs(lab, ts)'
    <3>1. InLoopsAt(lab, ts, Len(tokens), g)'
      BY <1>3, <2>3, <2>4, <2>5 DEF InLoopsAt
    <3>2. QED
      BY <1>1, <1>2, <2>1, <2>3, <2>5, <3>1, StackStays
  <2>6. QED
    BY <2>1, <2>2, <2>5, ReadTo DEF Target, Identifiers
<1>7. CASE Negate \/ OpenParen
  <2>1. PICK kind \in {"negate", "paren"} :
          OpenFrame(kind) /\ (kind = "negate" => Current = "MINUS") /\ (kind = "paren" => Current = "LPAREN")
    BY <1>7 DEF Negate, OpenParen
  <2>2. "factor" \in Labels \ {"new", "done"}
    BY DEF Labels
  <2>3. /\ stack' = Append(stack, Leaf(kind, p)) /\ ReadToken("factor")
        /\ UNCHANGED <<mode, level, node, items>> /\ Current # "EOF"
    BY <1>3, <2>1 DEF OpenFrame, Push
  <2>4. Len(tokens') = p + 1 /\ g.from = p /\ ts[p] = Current
    BY <1>0, <1>3, <1>4, <1>5, <1>7, <2>2, <2>3 DEF InFactorAt, Negate, OpenParen
  <2>5. PICK l \in 1..4 : Waits(ts, Leaf(kind, p), g, Hole(p + 1, l))
    <3>1. CASE kind = "negate"
      BY <2>1, <2>4, <3>1 DEF Waits, NegateWaits
    <3>2. CASE kind = "paren"
      BY <2>1, <2>4, <3>2 DEF Waits, ParenWaits
    <3>3. QED
      BY <3>1, <3>2
  <2>6. lab = "factor" => MakesAs(lab, ts)'
    BY <1>1, <1>2, <2>3, <2>4, <2>5, FrameOpened
  <2>7. QED
    BY <1>7, <2>1, <2>2, <2>3, <2>6, ReadTo DEF Target, Negate, OpenParen
<1>8. CASE FactorFails \/ SegmentMissing
  BY <1>8, MakesOnFail DEF FactorFails, SegmentMissing, Fail
<1>9. CASE Name
  <2>1. label = "factor" /\ Current \in Identifiers /\ node' = Leaf("column", p) /\ ReadToken("name")
        /\ UNCHANGED <<mode, level, stack, items>> /\ Current # "EOF"
    BY <1>3, <1>9 DEF Name, Identifiers
  <2>2. "name" \in Labels \ {"new", "done"}
    BY DEF Labels
  <2>3. Len(tokens') = p + 1 /\ g.from = p /\ ts[p] = Current
    BY <1>3, <1>4, <1>5, <2>1, <2>2 DEF InFactorAt
  <2>4. ASSUME lab = "name" PROVE MakesAs(lab, ts)'
    <3>1. Len(tokens') - 1 = p
      BY <1>3, <2>3
    <3>2. InFactorAt(lab, ts, Len(tokens), g)'
      BY <2>1, <2>3, <2>4, <3>1 DEF InFactorAt
    <3>3. QED
      BY <1>1, <1>2, <2>1, <2>3, <2>4, <3>2, StackStays
  <2>5. QED
    BY <2>1, <2>2, <2>4, ReadTo DEF Target, Identifiers
<1>10. CASE OpenCall
  <2>1. label = "name" /\ Current = "LPAREN" /\ stack' = Append(stack, Leaf("call", node.at)) /\ ReadToken("arguments")
        /\ UNCHANGED <<mode, level, node, items>>
    BY <1>10 DEF OpenCall, Push
  <2>2. "arguments" \in Labels \ {"new", "done"}
    BY DEF Labels
  <2>3. /\ g.from = p - 1 /\ ts[p - 1] \in Identifiers /\ node = Leaf("column", p - 1) /\ ts[p] = "LPAREN"
        /\ Len(tokens') = p + 1
    BY <1>3, <1>4, <1>5, <2>1, <2>2 DEF InFactorAt
  <2>4. node.at = p - 1
    BY <2>3, TreesOf
  <2>5. Waits(ts, Leaf("call", p - 1), g, Hole(p + 1, 1))
    <3>1. Hole(p + 1, 1).from = g.from + 2 /\ Hole(p + 1, 1).level = 1 /\ g.from + 1 = p
      BY <1>3, <2>3 DEF Hole
    <3>2. CallWaits(ts, Leaf("call", p - 1), g, Hole(p + 1, 1))
      BY <2>3, <3>1 DEF CallWaits
    <3>3. QED
      BY <3>2 DEF Waits
  <2>6. lab = "arguments" => MakesAs(lab, ts)'
    <3>1. 1 \in 1..4
      OBVIOUS
    <3>2. QED
      BY <1>1, <1>2, <2>1, <2>3, <2>4, <2>5, <3>1, FrameOpened
  <2>7. QED
    BY <1>0, <2>1, <2>2, <2>6, ReadTo DEF Target
<1>11. CASE Constant \/ Column
  <2>1. /\ label = "name" /\ UNCHANGED <<mode, stack, items>> /\ Goto("operand")
        /\ \/ tokens[node.at] = "TRUE" /\ node' = Leaf("literal", node.at)
           \/ tokens[node.at] # "TRUE" /\ node' = node
    BY <1>11 DEF Constant, Column, IsConstant
  <2>2. g.from = p - 1 /\ ts[p - 1] \in Identifiers /\ node = Leaf("column", p - 1)
    BY <1>5, <2>1 DEF InFactorAt
  <2>3. node.at = p - 1 /\ p - 1 \in 1..Len(ts) /\ tokens[p - 1] = ts[p - 1] /\ tokens' = tokens /\ label' = "operand"
    BY <1>3, <1>5, <2>1, <2>2, TreesOf DEF Goto
  <2>4. node' \in Over(ts, 4, p - 1, p - 1)
    BY <2>1, <2>2, <2>3, WordsAreFactors
  <2>5. InLoopsAt(lab, ts, Len(tokens), g)'
    BY <1>30, <1>2, <1>3, <2>2, <2>3, <2>4 DEF InLoopsAt
  <2>6. QED
    BY <1>30, <1>1, <2>1, <2>3, <2>5, StackStays
<1>12. CASE OpenPath
  <2>1. /\ label = "name" /\ Current = "DOT" /\ tokens[node.at] # "TRUE" /\ UNCHANGED <<mode, level, stack, items>>
        /\ ReadToken("segment") /\ node' = Tree("path", node.at, <<Leaf("segment", node.at)>>)
    BY <1>12 DEF OpenPath, IsConstant
  <2>2. "segment" \in Labels \ {"new", "done"}
    BY DEF Labels
  <2>3. /\ g.from = p - 1 /\ ts[p - 1] \in Identifiers /\ node = Leaf("column", p - 1) /\ ts[p] = "DOT"
        /\ Len(tokens') = p + 1
    BY <1>3, <1>4, <1>5, <2>1, <2>2 DEF InFactorAt
  <2>4. node.at = p - 1 /\ tokens[p - 1] = ts[p - 1] /\ p - 1 \in Nat
    BY <1>3, <1>5, <2>3, TreesOf
  <2>5. PathSoFar(ts, p - 1, p - 1)
    <3>1. (p - 1 - (p - 1)) % 2 = 0 /\ p - 1 >= p - 1 /\ \A i \in p - 1..p - 1 : i = p - 1
      BY <1>3
    <3>2. QED
      BY <2>1, <2>3, <2>4, <3>1 DEF PathSoFar
  <2>6. node' = PathOver(p - 1, p - 1)
    BY <2>1, <2>4, PathBegins
  <2>7. ASSUME lab = "segment" PROVE MakesAs(lab, ts)'
    <3>1. Len(tokens') - 1 = p /\ Len(tokens') - 2 = p - 1
      BY <1>3, <2>3
    <3>2. InFactorAt(lab, ts, Len(tokens), g)'
      BY <2>3, <2>5, <2>6, <2>7, <3>1 DEF InFactorAt
    <3>3. QED
      BY <1>1, <1>2, <2>1, <2>3, <2>7, <3>2, StackStays
  <2>8. QED
    BY <1>0, <2>1, <2>2, <2>7, ReadTo DEF Target
<1>13. CASE Segment
  <2>1. /\ label = "segment" /\ Current \in Identifiers /\ UNCHANGED <<mode, level, stack, items>>
        /\ ReadToken("dot") /\ node' = WithChild(node, Leaf("segment", p)) /\ Current # "EOF"
    BY <1>3, <1>13 DEF Segment, Identifiers
  <2>2. "dot" \in Labels \ {"new", "done"}
    BY DEF Labels
  <2>3. /\ PathSoFar(ts, g.from, p - 2) /\ ts[p - 1] = "DOT" /\ node = PathOver(g.from, p - 2)
        /\ ts[p] = Current /\ Len(tokens') = p + 1
    BY <1>3, <1>4, <1>5, <2>1, <2>2 DEF InFactorAt
  <2>4. /\ g.from \in Nat /\ p - 2 \in Nat /\ g.from <= p - 2 /\ (p - 2 - g.from) % 2 = 0 /\ p - 2 + 2 = p
        /\ \A i \in g.from..p - 2 : IF (i - g.from) % 2 = 0 THEN ts[i] \in Identifiers ELSE ts[i] = "DOT"
        /\ ts[g.from] # "TRUE"
    BY <1>3, <1>5, <2>3 DEF PathSoFar
  <2>5. node' = PathOver(g.from, p)
    BY <2>1, <2>3, <2>4, PathGrows
  <2>6. IsPath(ts, g.from, p)
    <3>1. \A i \in g.from..p : i \in g.from..p - 2 \/ i = p - 1 \/ i = p
      BY <1>3, <2>4
    <3>2. \A n \in Nat : n % 2 = 0 => (n + 2) % 2 = 0 /\ (n + 1) % 2 = 1
      OBVIOUS
    <3>3. /\ p - 2 - g.from \in Nat /\ p - 2 - g.from + 2 = p - g.from
          /\ p - 2 - g.from + 1 = p - 1 - g.from /\ p > g.from + 1
      <4>1. \A n, f \in Nat : f <= n - 2 =>
              /\ n - 2 - f \in Nat /\ n - 2 - f + 2 = n - f
              /\ n - 2 - f + 1 = n - 1 - f /\ n > f + 1
        OBVIOUS
      <4>2. p \in Nat /\ g.from \in Nat /\ g.from <= p - 2
        BY <1>3, <2>4, Zenon
      <4>3. QED
        BY <4>1, <4>2
    <3>4. (p - g.from) % 2 = 0 /\ (p - 1 - g.from) % 2 = 1
      BY <2>4, <3>2, <3>3
    <3>5. ASSUME NEW i \in g.from..p
          PROVE  IF (i - g.from) % 2 = 0 THEN ts[i] \in Identifiers ELSE ts[i] = "DOT"
      <4>1. CASE i \in g.from..p - 2
        BY <2>4, <4>1
      <4>2. CASE i = p - 1
        BY <2>3, <3>4, <4>2
      <4>3. CASE i = p
        BY <2>1, <2>3, <3>4, <4>3
      <4>4. QED
        BY <3>1, <4>1, <4>2, <4>3
    <3>6. QED
      BY <2>4, <3>3, <3>4, <3>5 DEF IsPath
  <2>7. ASSUME lab = "dot" PROVE MakesAs(lab, ts)'
    <3>1. Len(tokens') - 1 = p
      BY <1>3, <2>3
    <3>2. InFactorAt(lab, ts, Len(tokens), g)'
      BY <2>5, <2>6, <2>7, <3>1 DEF InFactorAt
    <3>3. QED
      BY <1>1, <1>2, <2>1, <2>3, <2>7, <3>2, StackStays
  <2>8. QED
    BY <1>0, <2>1, <2>2, <2>7, ReadTo DEF Target
<1>14. CASE Dot /\ Current = "DOT"
  <2>1. label = "dot" /\ UNCHANGED <<mode, level, stack, node, items>> /\ ReadToken("segment") /\ Current = "DOT"
    BY <1>14 DEF Dot
  <2>2. "segment" \in Labels \ {"new", "done"}
    BY DEF Labels
  <2>3. /\ IsPath(ts, g.from, p - 1) /\ node = PathOver(g.from, p - 1) /\ ts[p] = "DOT" /\ Len(tokens') = p + 1
    BY <1>3, <1>4, <1>5, <2>1, <2>2 DEF InFactorAt
  <2>4. PathSoFar(ts, g.from, p - 1)
    BY <1>3, <1>5, <2>3 DEF PathSoFar, IsPath
  <2>5. ASSUME lab = "segment" PROVE MakesAs(lab, ts)'
    <3>1. Len(tokens') - 1 = p /\ Len(tokens') - 2 = p - 1
      BY <1>3, <2>3
    <3>2. InFactorAt(lab, ts, Len(tokens), g)'
      BY <2>1, <2>3, <2>4, <2>5, <3>1 DEF InFactorAt
    <3>3. QED
      BY <1>1, <1>2, <2>1, <2>3, <2>5, <3>2, StackStays
  <2>6. QED
    BY <1>0, <2>1, <2>2, <2>5, ReadTo DEF Target
<1>15. CASE Dot /\ Current # "DOT"
  <2>1. /\ label = "dot" /\ UNCHANGED <<mode, level, stack, node, items>> /\ label' = "operand" /\ tokens' = tokens
    BY <1>15 DEF Dot, Goto
  <2>2. IsPath(ts, g.from, p - 1) /\ node = PathOver(g.from, p - 1)
    BY <1>5, <2>1 DEF InFactorAt
  <2>3. g.from \in 1..Len(ts) /\ p - 1 \in g.from + 1..Len(ts)
    BY <1>3, <1>5, <2>2 DEF IsPath
  <2>4. node \in Over(ts, 4, g.from, p - 1)
    BY <2>2, <2>3, InFactor
  <2>5. InLoopsAt(lab, ts, Len(tokens), g)'
    BY <1>30, <1>2, <1>3, <2>1, <2>3, <2>4 DEF InLoopsAt
  <2>6. QED
    BY <1>30, <1>1, <2>1, <2>5, StackStays
<1>16. QED
  BY <1>6, <1>7, <1>8, <1>9, <1>10, <1>11, <1>12, <1>13, <1>14, <1>15 DEF Factor, Dot

\* The last frame, and what it wants.
LEMMA FramePopped ==
  ASSUME TypeInv, NEW ts, NEW start, NEW g, Placed(ts, start, g), stack # << >>
  PROVE  /\ Top = stack[Len(stack)] /\ Top.at \in 1..Len(tokens) - 1
         /\ \E o \in Holes(Len(tokens)) :
              /\ Hang(ts, Front(stack), Len(tokens), start, o) /\ Waits(ts, Top, o, g)
              /\ o.from \in 1..Len(tokens) /\ o.level \in 1..4
<1>1. Len(tokens) \in Nat /\ Listing(stack) /\ Hang(ts, stack, Len(tokens), start, g)
  BY DEF TypeInv, TextOK, StackOK, Placed
<1>2. Top = stack[Len(stack)] /\ Top.at \in 1..Len(tokens) - 1
  BY TopIsLast
<1>3. PICK o \in Holes(Len(tokens)) : Hang(ts, Front(stack), Len(tokens), start, o) /\ Waits(ts, stack[Len(stack)], o, g)
  BY <1>1, HangPopped
<1>4. o.from \in 1..Len(tokens) /\ o.level \in 1..4
  BY DEF Holes
<1>5. QED
  BY <1>2, <1>3, <1>4

\* Only a minus sign waits for a factor and nothing looser.
LEMMA NoMinusBelow ==
  ASSUME NEW ts, NEW frames, Listing(frames), frames # << >>, NEW p \in Nat, NEW start, NEW g,
         Hang(ts, frames, p, start, g), g.level < 4
  PROVE  frames[Len(frames)].kind # "negate"
<1>1. PICK o \in Holes(p) : Waits(ts, frames[Len(frames)], o, g)
  BY HangPopped
<1>2. NegateWaits(ts, frames[Len(frames)], o, g) => g.level = 4
  BY DEF NegateWaits, Hole
<1>3. QED
  BY <1>1, <1>2, KindTells

\* A loop that does not go back to its own caller has a tree of its level.
LEMMA LoopHasLevel ==
  ASSUME TypeInv, NEW ts \in Seq(TokenTypes), ReadFrom(ts), NEW start, NEW g, Placed(ts, start, g),
         label = "loop", ~AtLevel(Top)
  PROVE  g.level <= level /\ node \in Over(ts, level, g.from, Len(tokens) - 1) /\ g.from <= Len(tokens) - 1
<1>1. PICK p : p = Len(tokens)
  OBVIOUS
<1>2. /\ p \in Nat /\ p >= 1 /\ Len(ts) \in Nat /\ p - 1 <= Len(ts)
      /\ \A i \in 1..p - 1 : tokens[i] = ts[i]
      /\ level \in 1..3 /\ g.from \in 1..p /\ g.level \in 1..4
  BY <1>1, PosInText DEF ReadFrom, TypeInv, PlaceOK, Placed
<1>3. /\ g.from <= p - 1 /\ Top.kind # "negate"
      /\ \/ g.level <= level + 1 /\ node \in Over(ts, level + 1, g.from, p - 1)
         \/ g.level <= level /\ node \in Over(ts, level, g.from, p - 1)
  BY <1>1 DEF Placed, InFactorAt, InLoopsAt
<1>4. CASE g.level <= level
  <2>1. g.from \in 1..Len(ts) /\ p - 1 \in g.from..Len(ts)
    BY <1>2, <1>3
  <2>2. node \in Over(ts, level, g.from, p - 1)
    BY <1>2, <1>3, <2>1, InLevel
  <2>3. QED
    BY <1>1, <1>3, <1>4, <2>2
<1>5. CASE ~(g.level <= level)
  <2>1. g.level = level + 1 /\ stack # << >>
    BY <1>2, <1>3, <1>5 DEF Placed
  <2>2. PICK o \in Holes(p) : Waits(ts, Top, o, g) /\ Top.at \in 1..p - 1
    BY <1>1, <2>1, FramePopped
  <2>3. ~ParenWaits(ts, Top, o, g) /\ ~CallWaits(ts, Top, o, g)
    BY <1>2, <2>1 DEF ParenWaits, CallWaits, Hole
  <2>4. ~NegateWaits(ts, Top, o, g)
    BY <1>3, TreesOf DEF NegateWaits
  <2>5. BinaryWaits(ts, Top, o, g)
    BY <2>2, <2>3, <2>4 DEF Waits
  <2>6. PICK at \in o.from + 1..g.from - 1, j \in o.level..3 :
          \E a \in Over(ts, j, o.from, at - 1) :
            Top = Tree("binary", at, <<a>>) /\ ts[at] \in Operators[j] /\ g = Hole(at + 1, j + 1)
    BY <2>5 DEF BinaryWaits
  <2>7. Top.kind = "binary" /\ Top.at = at /\ ts[at] \in Operators[j]
    BY <2>6, TreesOf
  <2>8. j + 1 = level + 1
    BY <2>1, <2>6 DEF Hole
  <2>9. o.level \in 1..4
    BY <2>2 DEF Holes
  <2>10. tokens[Top.at] \in Operators[level]
    BY <1>2, <2>2, <2>7, <2>8, <2>9
  <2>11. QED
    BY <2>7, <2>10 DEF AtLevel
<1>6. QED
  BY <1>4, <1>5

LEMMA LoopsMake ==
  ASSUME TypeInv, NEW ts \in Seq(TokenTypes), [Next]_vars, ReadFrom(ts)', MakesAs(label, ts), Loops,
         NEW lab, Reached(lab)
  PROVE  MakesAs(lab, ts)'
<1>30. /\ label' # "done" => lab = label'
       /\ label' = "done" /\ outcome'.code \notin {"lexer_error", "unexpected_token"} => lab = "done"
  BY DEF Reached, Stopped, Dropped
<1>0. label \in {"operand", "loop"} /\ label \notin {"new", "done"} /\ label \in InItemLabels
  BY DEF Loops, CloseNegate, EndFactor, CloseBinary, OpenBinary, LeaveLoop, InItemLabels
<1>1. PICK start, g : Placed(ts, start, g)
  BY <1>0, PlacedInside
<1>2. PICK p : p = Len(tokens)
  OBVIOUS
<1>3. /\ p \in Nat /\ p >= 1 /\ Len(ts) \in Nat /\ p - 1 <= Len(ts) /\ Pos = p
      /\ \A i \in 1..p - 1 : tokens[i] = ts[i]
      /\ Len(tokens') = p + 1 => p \in 1..Len(ts) /\ ts[p] = Current
      /\ level \in 1..3 /\ ReadFrom(ts)
  BY <1>0, <1>2, ReadSoFar DEF Pos, TypeInv, PlaceOK
<1>4. g.from \in 1..p /\ g.level \in 1..4 /\ InLoopsAt(label, ts, p, g) /\ g \in Holes(p) /\ Begun(ts, start)
  BY <1>0, <1>1, <1>2 DEF Placed, InFactorAt
<1>5. CASE CloseNegate
  <2>1. /\ label = "operand" /\ Top.kind = "negate" /\ node' = WithChild(Top, node) /\ stack' = Front(stack)
        /\ UNCHANGED <<mode, tokens, label, level, items, outcome>>
    BY <1>5 DEF CloseNegate, Pop
  <2>2. stack # << >>
    BY <2>1, TopIsLast
  <2>3. PICK o \in Holes(p) : /\ Hang(ts, Front(stack), p, start, o) /\ Waits(ts, Top, o, g)
                              /\ o.from \in 1..p /\ o.level \in 1..4
    BY <1>1, <1>2, <2>2, FramePopped
  <2>4. NegateWaits(ts, Top, o, g)
    BY <2>1, <2>3, KindTells
  <2>5. g.from = o.from + 1 /\ g.from <= p - 1 /\ node \in Over(ts, 4, g.from, p - 1)
    BY <1>4, <2>1, <2>4 DEF NegateWaits, Hole, InLoopsAt
  <2>6. o.from \in 1..Len(ts) /\ p - 1 \in o.from + 1..Len(ts)
    BY <1>3, <2>3, <2>5
  <2>7. node' \in Over(ts, 4, o.from, p - 1)
    BY <2>1, <2>4, <2>5, <2>6, NegateFilled
  <2>8. Len(tokens') = p /\ label' = "operand" /\ o.from <= p - 1
    BY <1>2, <2>1, <2>6
  <2>9. InLoopsAt(lab, ts, Len(tokens), o)'
    BY <1>30, <2>7, <2>8 DEF InLoopsAt
  <2>10. Hang(ts, stack', Len(tokens'), start, o)
    BY <2>1, <2>3, <2>8
  <2>11. QED
    BY <1>30, <1>4, <2>1, <2>8, <2>9, <2>10, Established
<1>6. CASE EndFactor
  <2>1. /\ label = "operand" /\ Top.kind # "negate" /\ level' = 3 /\ label' = "loop" /\ tokens' = tokens
        /\ UNCHANGED <<mode, stack, node, items>>
    BY <1>6 DEF EndFactor, Goto
  <2>2. Top' = Top
    BY <2>1 DEF Top
  <2>3. g.from <= p - 1 /\ node \in Over(ts, 4, g.from, p - 1)
    BY <1>4, <2>1 DEF InLoopsAt
  <2>4. Len(tokens') = p /\ level' + 1 = 4 /\ g.level <= level' + 1
    BY <1>2, <1>4, <2>1
  <2>5. InLoopsAt(lab, ts, Len(tokens), g)'
    BY <1>30, <2>1, <2>2, <2>3, <2>4 DEF InLoopsAt
  <2>6. QED
    BY <1>30, <1>1, <2>1, <2>5, StackStays
<1>7. CASE CloseBinary
  <2>1. /\ label = "loop" /\ Top.kind = "binary" /\ tokens[Top.at] \in Operators[level]
        /\ node' = WithChild(Top, node) /\ stack' = Front(stack)
        /\ UNCHANGED <<mode, tokens, label, level, items, outcome>>
    BY <1>7 DEF CloseBinary, AtLevel, Pop
  <2>2. stack # << >>
    BY <2>1, TopIsLast
  <2>3. PICK o \in Holes(p) : /\ Hang(ts, Front(stack), p, start, o) /\ Waits(ts, Top, o, g)
                              /\ o.from \in 1..p /\ o.level \in 1..4
    BY <1>1, <1>2, <2>2, FramePopped
  <2>4. BinaryWaits(ts, Top, o, g) /\ Top.at \in 1..p - 1
    BY <1>1, <1>2, <2>1, <2>2, <2>3, KindTells, FramePopped
  <2>5. PICK at \in o.from + 1..g.from - 1, j \in o.level..3 :
          \E a \in Over(ts, j, o.from, at - 1) :
            Top = Tree("binary", at, <<a>>) /\ ts[at] \in Operators[j] /\ g = Hole(at + 1, j + 1)
    BY <2>4 DEF BinaryWaits
  <2>6. Top.at = at /\ g.level = j + 1 /\ j \in 1..3
    BY <2>3, <2>5, TreesOf DEF Hole
  <2>7. j = level
    BY <1>3, <2>1, <2>4, <2>5, <2>6, OperatorsApart
  <2>8. g.from <= p - 1 /\ node \in Over(ts, g.level, g.from, p - 1)
    BY <1>3, <1>4, <2>1, <2>6, <2>7 DEF InLoopsAt
  <2>9. p - 1 \in g.from..Len(ts)
    BY <1>3, <1>4, <2>8
  <2>10. o.from < p - 1 /\ \E k \in o.level..3 : g.level = k + 1 /\ WithChild(Top, node) \in Over(ts, k, o.from, p - 1)
    BY <1>3, <1>4, <2>4, <2>8, <2>9, BinaryFilled
  <2>11. node' \in Over(ts, level, o.from, p - 1) /\ o.level <= level
    <3>1. PICK k \in o.level..3 : g.level = k + 1 /\ WithChild(Top, node) \in Over(ts, k, o.from, p - 1)
      BY <2>10
    <3>2. k = level
      BY <1>3, <2>3, <2>6, <2>7, <3>1
    <3>3. QED
      BY <2>1, <2>3, <3>1, <3>2
  <2>12. Listing(Front(stack)) /\ Len(tokens') = p /\ label' = "loop" /\ level' = level
    BY <1>2, <2>1, <2>2, ListingShortens DEF TypeInv, StackOK
  <2>13. Top'.kind # "negate"
    <3>1. CASE Front(stack) = << >>
      BY <2>1, <3>1, TreesOf DEF Top, NoTree
    <3>2. CASE Front(stack) # << >>
      <4>1. Front(stack)[Len(Front(stack))].kind # "negate"
        BY <1>3, <2>3, <2>11, <2>12, <3>2, NoMinusBelow
      <4>2. QED
        BY <2>1, <3>2, <4>1 DEF Top, Last
    <3>3. QED
      BY <3>1, <3>2
  <2>14. InLoopsAt(lab, ts, Len(tokens), o)'
    BY <1>30, <1>3, <2>3, <2>10, <2>11, <2>12, <2>13 DEF InLoopsAt
  <2>15. Hang(ts, stack', Len(tokens'), start, o)
    BY <2>1, <2>3, <2>12
  <2>16. QED
    BY <1>30, <1>4, <2>1, <2>12, <2>14, <2>15, Established
<1>8. CASE OpenBinary
  <2>1. PICK frame : frame = Tree("binary", p, <<node>>)
    OBVIOUS
  <2>2. /\ label = "loop" /\ ~AtLevel(Top) /\ Current \in Operators[level] /\ stack' = Append(stack, frame)
        /\ ReadToken("factor") /\ UNCHANGED <<mode, level, node, items>>
    BY <1>3, <1>8, <2>1 DEF OpenBinary, Push
  <2>3. Current # "EOF" /\ "factor" \in Labels \ {"new", "done"}
    BY <1>3, <2>2, OperatorsApart DEF Labels
  <2>4. g.level <= level /\ node \in Over(ts, level, g.from, p - 1) /\ g.from <= p - 1
    BY <1>1, <1>2, <1>3, <2>2, LoopHasLevel
  <2>5. Len(tokens') = p + 1
    BY <1>0, <1>2, <2>2, <2>3, AfterReadToken DEF TypeInv
  <2>6. Waits(ts, frame, g, Hole(p + 1, level + 1))
    <3>1. /\ Hole(p + 1, level + 1).from - 1 = p /\ p \in g.from + 1..p /\ level \in g.level..3
          /\ ts[p] \in Operators[level]
      BY <1>3, <1>4, <2>2, <2>3, <2>4, <2>5 DEF Hole
    <3>2. BinaryWaits(ts, frame, g, Hole(p + 1, level + 1))
      BY <2>1, <2>4, <3>1 DEF BinaryWaits
    <3>3. QED
      BY <3>2 DEF Waits
  <2>7. PICK l \in 1..4 : Waits(ts, frame, g, Hole(p + 1, l))
    BY <1>3, <2>6
  <2>8. lab = "factor" => MakesAs(lab, ts)'
    BY <1>1, <1>2, <2>2, <2>5, <2>7, FrameOpened
  <2>9. QED
    BY <1>0, <2>2, <2>3, <2>8, ReadTo DEF Target
<1>9. CASE LeaveLoop
  <2>1. /\ label = "loop" /\ ~AtLevel(Top) /\ tokens' = tokens /\ UNCHANGED <<mode, stack, node, items>>
        /\ \/ level > 1 /\ level' = level - 1 /\ label' = "loop"
           \/ level = 1 /\ label' = "value"
    BY <1>3, <1>9 DEF LeaveLoop, Goto
  <2>2. g.level <= level /\ node \in Over(ts, level, g.from, p - 1) /\ g.from <= p - 1
    BY <1>1, <1>2, <1>3, <2>1, LoopHasLevel
  <2>3. Top' = Top /\ Top.kind # "negate"
    BY <1>4, <2>1 DEF Top, InLoopsAt
  <2>4. Len(tokens') = p
    BY <1>2, <2>1
  <2>5. InLoopsAt(lab, ts, Len(tokens), g)'
    <3>1. CASE level > 1
      <4>1. level' + 1 = level /\ label' = "loop"
        BY <1>3, <2>1, <3>1
      <4>2. QED
        BY <1>30, <2>1, <2>2, <2>3, <2>4, <4>1 DEF InLoopsAt
    <3>2. CASE level = 1
      <4>1. g.level = 1 /\ label' = "value"
        BY <1>4, <2>1, <2>2, <3>2
      <4>2. QED
        BY <1>30, <2>1, <2>2, <2>4, <3>2, <4>1 DEF InLoopsAt
    <3>3. QED
      BY <1>3, <3>1, <3>2
  <2>6. QED
    BY <1>30, <1>1, <2>1, <2>5, StackStays
<1>10. QED
  BY <1>5, <1>6, <1>7, <1>8, <1>9 DEF Loops

\* A call or a parenthesis is closed, and its frame leaves the stack.
LEMMA FrameClosed ==
  ASSUME TypeInv, NEW ts, NEW start, NEW g, Placed(ts, start, g),
         NEW o, Hang(ts, Front(stack), Len(tokens), start, o),
         stack' = Front(stack), Len(tokens') = Len(tokens) + 1, UNCHANGED <<mode, items>>,
         NEW lab, lab = "operand", o.from <= Len(tokens), node' \in Over(ts, 4, o.from, Len(tokens))
  PROVE  MakesAs(lab, ts)'
<1>1. PICK p : p = Len(tokens) /\ p \in Nat
  BY DEF TypeInv, TextOK
<1>2. Hang(ts, Front(stack), p + 1, start, o)
  BY <1>1, HangStays
<1>3. Len(tokens') = p + 1 /\ Len(tokens') - 1 = p /\ Begun(ts, start)
  BY <1>1 DEF Placed
<1>4. InLoopsAt(lab, ts, Len(tokens), o)'
  BY <1>1, <1>3 DEF InLoopsAt
<1>5. Hang(ts, stack', Len(tokens'), start, o)
  BY <1>2, <1>3
<1>6. QED
  BY <1>3, <1>4, <1>5, Established

LEMMA ClosingMakes ==
  ASSUME TypeInv, NEW ts \in Seq(TokenTypes), [Next]_vars, ReadFrom(ts)', MakesAs(label, ts), Closing,
         NEW lab, Reached(lab)
  PROVE  MakesAs(lab, ts)'
<1>30. /\ label' # "done" => lab = label'
       /\ label' = "done" /\ outcome'.code \notin {"lexer_error", "unexpected_token"} => lab = "done"
  BY DEF Reached, Stopped, Dropped
<1>0. label \in {"value", "arguments"} /\ label \notin {"new", "done"} /\ label \in InItemLabels
  BY DEF Closing, CloseParen, ParenFails, BeginArguments, NoArguments, NextArgument, LastArgument, CallFails,
         InCall, EndFormula, FormulaFails, AtTop, InItemLabels
<1>1. PICK start, g : Placed(ts, start, g)
  BY <1>0, PlacedInside
<1>2. PICK p : p = Len(tokens)
  OBVIOUS
<1>3. /\ p \in Nat /\ p >= 1 /\ Len(ts) \in Nat /\ p - 1 <= Len(ts) /\ Pos = p
      /\ Len(tokens') = p + 1 => p \in 1..Len(ts) /\ ts[p] = Current
      /\ level \in 1..3
  BY <1>0, <1>2, ReadSoFar DEF Pos, TypeInv, PlaceOK
<1>4. /\ g.from \in 1..p /\ g \in Holes(p) /\ Begun(ts, start)
      /\ label = "value" => g.from <= p - 1 /\ g.level = 1 /\ node \in Over(ts, 1, g.from, p - 1)
      /\ label = "arguments" => g.from = p /\ Top = Leaf("call", p - 2)
  BY <1>0, <1>1, <1>2 DEF Placed, InFactorAt, InLoopsAt
<1>5. ASSUME NEW l \in Labels \ {"new", "done"}, ReadToken(l), Current # "EOF"
      PROVE  Len(tokens') = p + 1
  BY <1>0, <1>2, <1>5, AfterReadToken DEF TypeInv
<1>6. "operand" \in Labels \ {"new", "done"} /\ "factor" \in Labels \ {"new", "done"}
  BY DEF Labels
<1>7. ASSUME stack # << >>
      PROVE  \E o \in Holes(p) : /\ Hang(ts, Front(stack), p, start, o) /\ Waits(ts, Top, o, g)
                                 /\ o.from \in 1..p /\ o.level \in 1..4
  BY <1>1, <1>2, <1>7, FramePopped
<1>8. CASE CloseParen
  <2>1. /\ label = "value" /\ Top.kind = "paren" /\ Current = "RPAREN" /\ stack' = Front(stack)
        /\ ReadToken("operand") /\ UNCHANGED <<mode, level, node, items>>
    BY <1>8 DEF CloseParen, Pop
  <2>2. PICK o \in Holes(p) : /\ Hang(ts, Front(stack), p, start, o) /\ Waits(ts, Top, o, g)
                              /\ o.from \in 1..p /\ o.level \in 1..4
    BY <1>7, <2>1, TopIsLast
  <2>3. ParenWaits(ts, Top, o, g)
    BY <2>1, <2>2, KindTells
  <2>4. /\ g.from = o.from + 1 /\ o.from \in 1..Len(ts) /\ p \in o.from + 1..Len(ts) /\ ts[p] = "RPAREN"
        /\ Len(tokens') = p + 1
    BY <1>3, <1>4, <1>5, <1>6, <2>1, <2>2, <2>3 DEF ParenWaits, Hole
  <2>5. node' \in Over(ts, 4, o.from, p)
    BY <1>4, <2>1, <2>3, <2>4, ParenFilled
  <2>6. lab = "operand" => MakesAs(lab, ts)'
    BY <1>1, <1>2, <2>1, <2>2, <2>4, <2>5, FrameClosed
  <2>7. QED
    BY <1>0, <1>6, <2>1, <2>6, ReadTo DEF Target
<1>9. CASE ParenFails \/ CallFails \/ FormulaFails
  BY <1>9, MakesOnFail DEF ParenFails, CallFails, FormulaFails, Fail, MissingOperator
<1>10. CASE BeginArguments
  <2>1. label = "arguments" /\ tokens' = tokens /\ label' = "factor" /\ UNCHANGED <<mode, level, stack, node, items>>
    BY <1>10 DEF BeginArguments, Goto
  <2>2. InFactorAt(lab, ts, Len(tokens), g)'
    BY <1>30, <1>2, <1>4, <2>1 DEF InFactorAt
  <2>3. QED
    BY <1>30, <1>1, <2>1, <2>2, StackStays
<1>11. CASE NoArguments
  <2>1. /\ label = "arguments" /\ Current = "RPAREN" /\ node' = Top /\ stack' = Front(stack)
        /\ ReadToken("operand") /\ UNCHANGED <<mode, level, items>>
    BY <1>11 DEF NoArguments, CloseCall, Pop
  <2>2. PICK o \in Holes(p) : /\ Hang(ts, Front(stack), p, start, o) /\ Waits(ts, Top, o, g)
                              /\ o.from \in 1..p /\ o.level \in 1..4
    BY <1>7, <2>1 DEF TypeInv, StackOK
  <2>3. Top = Leaf("call", p - 2) /\ g.from = p /\ Top.kind = "call" /\ Top.at = p - 2
    BY <1>4, <2>1, TreesOf
  <2>4. CallWaits(ts, Top, o, g)
    BY <2>2, <2>3, KindTells
  <2>5. o.from = p - 2
    <3>1. CASE Top = Leaf("call", o.from)
      <4>1. Leaf("call", o.from).at = o.from
        BY TreesOf
      <4>2. QED
        BY <2>3, <3>1, <4>1
    <3>2. CASE Top # Leaf("call", o.from)
      <4>1. PICK a : Top = Tree("call", o.from, a)
        BY <2>4, <3>2 DEF CallWaits
      <4>2. QED
        BY <2>3, <4>1, TreesOf
    <3>3. QED
      BY <3>1, <3>2
  <2>6. /\ ts[o.from] \in Identifiers /\ ts[o.from + 1] = "LPAREN" /\ ts[p] = "RPAREN" /\ p = o.from + 2
        /\ o.from \in 1..Len(ts) /\ p \in o.from + 1..Len(ts) /\ Len(tokens') = p + 1
    BY <1>3, <1>5, <1>6, <2>1, <2>2, <2>4, <2>5 DEF CallWaits
  <2>7. Call(ts, o.from, p, node')
    BY <2>1, <2>3, <2>5, <2>6 DEF Call, Leaf
  <2>8. node' \in Over(ts, 4, o.from, p)
    BY <2>6, <2>7, InFactor
  <2>9. lab = "operand" => MakesAs(lab, ts)'
    BY <1>1, <1>2, <2>1, <2>2, <2>6, <2>8, FrameClosed
  <2>10. QED
    BY <1>0, <1>6, <2>1, <2>9, ReadTo DEF Target
<1>12. ASSUME InCall, Current # "EOF"
       PROVE  \E o \in Holes(p) :
                /\ Hang(ts, Front(stack), p, start, o) /\ CallWaits(ts, Top, o, g)
                /\ o.from \in 1..p /\ o.from + 2 <= p - 1 /\ stack # << >>
                /\ \E a \in Over(ts, 0, o.from + 2, p - 1) : WithChild(Top, node) = Tree("call", o.from, a)
  <2>1. label = "value" /\ Top.kind = "call" /\ stack # << >>
    BY <1>12, TopIsLast DEF InCall
  <2>2. PICK o \in Holes(p) : /\ Hang(ts, Front(stack), p, start, o) /\ Waits(ts, Top, o, g)
                              /\ o.from \in 1..p /\ o.level \in 1..4
    BY <1>7, <2>1
  <2>3. CallWaits(ts, Top, o, g)
    BY <2>1, <2>2, KindTells
  <2>4. p - 1 \in g.from..Len(ts) /\ node \in Over(ts, 1, g.from, p - 1) /\ g \in Holes(p) /\ p \in Nat
    BY <1>3, <1>4, <2>1
  <2>5. /\ o.from + 2 <= p - 1
        /\ \E a \in Over(ts, 0, o.from + 2, p - 1) : WithChild(Top, node) = Tree("call", o.from, a)
    BY <2>2, <2>3, <2>4, CallFilled
  <2>6. QED
    BY <2>1, <2>2, <2>3, <2>5
<1>13. CASE LastArgument
  <2>1. /\ InCall /\ Current = "RPAREN" /\ node' = WithChild(Top, node) /\ stack' = Front(stack)
        /\ ReadToken("operand") /\ UNCHANGED <<mode, level, items>>
    BY <1>13 DEF LastArgument, CloseCall, Pop
  <2>2. PICK o \in Holes(p) :
          /\ Hang(ts, Front(stack), p, start, o) /\ CallWaits(ts, Top, o, g)
          /\ o.from \in 1..p /\ o.from + 2 <= p - 1 /\ stack # << >>
          /\ \E a \in Over(ts, 0, o.from + 2, p - 1) : WithChild(Top, node) = Tree("call", o.from, a)
    BY <1>12, <2>1
  <2>3. /\ ts[o.from] \in Identifiers /\ ts[o.from + 1] = "LPAREN" /\ ts[p] = "RPAREN" /\ p # o.from + 2
        /\ o.from \in 1..Len(ts) /\ p \in o.from + 1..Len(ts) /\ Len(tokens') = p + 1 /\ o.from <= p
    BY <1>3, <1>5, <1>6, <2>1, <2>2 DEF CallWaits
  <2>4. Call(ts, o.from, p, node')
    BY <2>1, <2>2, <2>3 DEF Call
  <2>5. node' \in Over(ts, 4, o.from, p)
    BY <2>3, <2>4, InFactor
  <2>6. lab = "operand" => MakesAs(lab, ts)'
    BY <1>1, <1>2, <2>1, <2>2, <2>3, <2>5, FrameClosed
  <2>7. QED
    BY <1>0, <1>6, <2>1, <2>6, ReadTo DEF Target
<1>14. CASE NextArgument
  <2>1. PICK frame : frame = WithChild(Top, node)
    OBVIOUS
  <2>2. /\ InCall /\ Current = "COMMA" /\ stack' = Append(Front(stack), frame)
        /\ ReadToken("factor") /\ UNCHANGED <<mode, level, node, items>>
    BY <1>14, <2>1 DEF NextArgument
  <2>3. PICK o \in Holes(p) :
          /\ Hang(ts, Front(stack), p, start, o) /\ CallWaits(ts, Top, o, g)
          /\ o.from \in 1..p /\ o.from + 2 <= p - 1 /\ stack # << >>
          /\ \E a \in Over(ts, 0, o.from + 2, p - 1) : frame = Tree("call", o.from, a)
    BY <1>12, <2>1, <2>2
  <2>4. PICK h : h = Hole(p + 1, 1)
    OBVIOUS
  <2>5. /\ h \in Holes(p + 1) /\ h.from = p + 1 /\ h.level = 1 /\ h.from - 2 = p - 1 /\ h.from - 1 = p
        /\ h.from > o.from + 3
    BY <1>3, <2>3, <2>4 DEF Hole, Holes
  <2>6. Len(tokens') = p + 1 /\ ts[p] = "COMMA"
    BY <1>3, <1>5, <1>6, <2>2
  <2>7. Waits(ts, frame, o, h)
    BY <2>3, <2>5, <2>6 DEF Waits, CallWaits
  <2>8. Listing(Front(stack))
    BY <2>3, ListingShortens DEF TypeInv, StackOK
  <2>9. /\ Len(Front(stack)) \in Nat /\ Len(stack') = Len(Front(stack)) + 1 /\ stack'[Len(Front(stack)) + 1] = frame
        /\ \A i \in 1..Len(Front(stack)) : stack'[i] = Front(stack)[i]
    BY <2>2, <2>8, ListingGrows
  <2>10. Hang(ts, stack', p + 1, start, h)
    BY <1>3, <2>3, <2>5, <2>7, <2>9, HangPushed
  <2>11. ASSUME lab = "factor" PROVE MakesAs(lab, ts)'
    <3>1. InFactorAt(lab, ts, Len(tokens), h)'
      BY <2>5, <2>6, <2>11 DEF InFactorAt
    <3>2. QED
      BY <1>4, <2>2, <2>6, <2>10, <2>11, <3>1, Established
  <2>12. QED
    BY <1>6, <2>2, <2>11, ReadTo DEF Target, InCall
<1>15. CASE EndFormula
  <2>1. /\ label = "value" /\ stack = << >> /\ mode = "formula" /\ Current = "EOF"
        /\ items' = <<Item(node, 0)>> /\ label' = "done" /\ outcome' = Parsed
        /\ UNCHANGED <<mode, tokens, level, stack, node>>
    BY <1>15 DEF EndFormula, AtTop, Accept
  <2>2. g.from = 1
    BY <1>1, <1>4, <2>1 DEF Placed, Begun
  <2>3. node \in Over(ts, 1, 1, p - 1) /\ p > 1
    BY <1>3, <1>4, <2>1, <2>2
  <2>4. ParsedUpto(ts, Len(tokens) - 1)'
    BY <1>2, <2>1, <2>3 DEF ParsedUpto
  <2>5. Current' = "EOF" /\ Len(tokens') > 1
    BY <1>2, <2>1, <2>3 DEF Current
  <2>6. QED
    BY <1>30, <2>1, <2>4, <2>5 DEF MakesAs, OutsideItems, Parsed, Outcome
<1>16. QED
  BY <1>8, <1>9, <1>10, <1>11, <1>13, <1>14, <1>15 DEF Closing

LEMMA Outside ==
  ASSUME NEW ts, MakesAs(label, ts), label \notin InItemLabels
  PROVE  OutsideItems(label, ts)
  BY DEF MakesAs, WithinItem, InFactorAt, InLoopsAt, InItemLabels

LEMMA ItemAdded ==
  ASSUME NEW T, NEW ts \in Seq(T), NEW start \in 1..Len(ts), NEW to \in start..Len(ts),
         Begun(ts, start), NEW it \in ItemsOver(ts, Derivations(ts), start, to)
  PROVE  Append(items, it) \in ItemLists(ts, Derivations(ts))[to]
<1> DEFINE D == Derivations(ts)
<1> HIDE DEF D
<1>1. CASE start = 1 /\ items = << >>
  <2>1. Append(items, it) = <<it>>
    BY <1>1
  <2>2. to \in 0..Len(ts) /\ it \in ItemsOver(ts, D, 1, to)
    BY <1>1 DEF D
  <2>3. QED
    BY <2>1, <2>2, InItemLists DEF D
<1>2. CASE ~(start = 1 /\ items = << >>)
  <2>1. start > 2 /\ ts[start - 1] = "COMMA" /\ items \in ItemLists(ts, D)[start - 2]
    BY <1>2 DEF Begun, D
  <2>2. start - 1 \in 2..to - 1 /\ start - 1 - 1 = start - 2 /\ start - 1 + 1 = start /\ to \in 0..Len(ts)
    BY <2>1
  <2>3. it \in ItemsOver(ts, D, start, to)
    BY DEF D
  <2>4. ItemCut(ts, D, ItemLists(ts, D), Append(items, it), to, start - 1)
    BY <2>1, <2>2, <2>3 DEF ItemCut
  <2>5. Append(items, it) \in ItemLists(ts, D)[to]
    BY <2>2, <2>4, InItemLists
  <2>6. QED
    BY <2>5 DEF D
<1>3. QED
  BY <1>1, <1>2

LEMMA DocumentMakes ==
  ASSUME TypeInv, NEW ts \in Seq(TokenTypes), [Next]_vars, ReadFrom(ts)', MakesAs(label, ts), Document,
         NEW lab, Reached(lab)
  PROVE  MakesAs(lab, ts)'
<1>30. /\ label' # "done" => lab = label'
       /\ label' = "done" /\ outcome'.code \notin {"lexer_error", "unexpected_token"} => lab = "done"
  BY DEF Reached, Stopped, Dropped
<1>0. /\ label \in {"item", "value", "alias", "separator", "next_item"} /\ label \notin {"new", "done"}
      /\ mode = "document"
  <2>1. /\ label \in {"item", "value", "alias", "separator", "next_item"} /\ label \notin {"new", "done"}
        /\ label = "value" => mode = "document"
    BY DEF Document, BeginItem, EmptyItem, Unnamed, As, Alias, AliasMissing, AtTop,
           EndDocument, Separator, NextItem, TrailingComma, SeparatorMissing
  <2>2. QED
    BY <2>1 DEF TypeInv, ItemsOK
<1>1. ASSUME label \in {"item", "value", "alias"} PROVE \E start, g : Placed(ts, start, g)
  BY <1>1, PlacedInside DEF InItemLabels
<1>2. PICK p : p = Len(tokens)
  OBVIOUS
<1>3. /\ p \in Nat /\ p >= 1 /\ Len(ts) \in Nat /\ p - 1 <= Len(ts) /\ Pos = p
      /\ Len(tokens') = p + 1 => p \in 1..Len(ts) /\ ts[p] = Current
  BY <1>0, <1>2, ReadSoFar DEF Pos
<1>4. ASSUME NEW l \in Labels \ {"new", "done"}, ReadToken(l), Current # "EOF"
      PROVE  Len(tokens') = p + 1
  BY <1>0, <1>2, <1>4, AfterReadToken DEF TypeInv
<1>5. /\ "alias" \in Labels \ {"new", "done"} /\ "separator" \in Labels \ {"new", "done"}
      /\ "next_item" \in Labels \ {"new", "done"}
  BY DEF Labels
<1>6. label \in {"separator", "next_item"} => OutsideItems(label, ts)
  BY Outside DEF InItemLabels
<1>7. CASE BeginItem
  <2>1. label = "item" /\ tokens' = tokens /\ label' = "factor" /\ UNCHANGED <<mode, level, stack, node, items>>
    BY <1>7 DEF BeginItem, Goto
  <2>2. PICK start, g : Placed(ts, start, g)
    BY <1>1, <2>1
  <2>3. g.from = p
    BY <1>2, <2>1, <2>2 DEF Placed, InFactorAt, InLoopsAt
  <2>4. InFactorAt(lab, ts, Len(tokens), g)'
    BY <1>30, <1>2, <2>1, <2>3 DEF InFactorAt
  <2>5. QED
    BY <1>30, <2>1, <2>2, <2>4, StackStays
<1>8. CASE EmptyItem \/ AliasMissing \/ SeparatorMissing \/ TrailingComma
  BY <1>8, MakesOnFail DEF EmptyItem, AliasMissing, SeparatorMissing, TrailingComma, Fail, MissingOperator
<1>9. CASE Unnamed
  <2>1. /\ label = "value" /\ stack = << >> /\ items' = Append(items, Item(node, 0))
        /\ label' = "separator" /\ UNCHANGED <<mode, level, stack, node, tokens>>
    BY <1>9 DEF Unnamed, AtTop, EndItem, Goto
  <2>2. PICK start, g : Placed(ts, start, g)
    BY <1>1, <2>1
  <2>3. /\ g.from = start /\ start \in 1..p /\ start <= p - 1 /\ node \in Over(ts, 1, start, p - 1)
        /\ Begun(ts, start)
    BY <1>2, <2>1, <2>2 DEF Placed, InFactorAt, InLoopsAt
  <2>4. start \in 1..Len(ts) /\ p - 1 \in start..Len(ts) /\ p > 1
    BY <1>3, <2>3
  <2>5. Item(node, 0) \in ItemsOver(ts, Derivations(ts), start, p - 1)
    BY <2>3, InItems
  <2>6. items' \in ItemLists(ts, Derivations(ts))[p - 1]
    BY <2>1, <2>3, <2>4, <2>5, ItemAdded
  <2>7. mode' = "document" /\ Len(tokens') = p
    BY <1>0, <1>2, <2>1
  <2>8. QED
    BY <1>30, <2>1, <2>4, <2>6, <2>7 DEF MakesAs, OutsideItems, ParsedUpto
<1>10. CASE As
  <2>1. /\ label = "value" /\ stack = << >> /\ Current = "AS" /\ ReadToken("alias")
        /\ UNCHANGED <<mode, level, stack, node, items>>
    BY <1>10 DEF As, AtTop
  <2>2. PICK start, g : Placed(ts, start, g)
    BY <1>1, <2>1
  <2>3. g.from <= p - 1 /\ node \in Over(ts, 1, g.from, p - 1)
    BY <1>2, <2>1, <2>2 DEF Placed, InFactorAt, InLoopsAt
  <2>4. Len(tokens') = p + 1 /\ ts[p] = "AS"
    BY <1>3, <1>4, <1>5, <2>1
  <2>5. ASSUME lab = "alias" PROVE MakesAs(lab, ts)'
    <3>1. Len(tokens') - 1 = p /\ Len(tokens') - 2 = p - 1
      BY <1>3, <2>4
    <3>2. InLoopsAt(lab, ts, Len(tokens), g)'
      BY <2>1, <2>3, <2>4, <2>5, <3>1 DEF InLoopsAt
    <3>3. QED
      BY <1>2, <2>1, <2>2, <2>4, <2>5, <3>2, StackStays
  <2>6. QED
    BY <1>0, <1>5, <2>1, <2>5, ReadTo DEF Target
<1>11. CASE Alias
  <2>1. /\ label = "alias" /\ Current \in Identifiers /\ items' = Append(items, Item(node, p))
        /\ ReadToken("separator") /\ UNCHANGED <<mode, level, stack, node>> /\ Current # "EOF"
    BY <1>3, <1>11 DEF Alias, EndItem, Identifiers
  <2>2. PICK start, g : Placed(ts, start, g)
    BY <1>1, <2>1
  <2>3. /\ stack = << >> /\ g.from = start /\ start \in 1..p /\ start <= p - 2 /\ ts[p - 1] = "AS"
        /\ node \in Over(ts, 1, start, p - 2) /\ Begun(ts, start)
    BY <1>2, <2>1, <2>2 DEF Placed, InFactorAt, InLoopsAt
  <2>4. Len(tokens') = p + 1 /\ ts[p] \in Identifiers /\ p <= Len(ts)
    BY <1>3, <1>4, <1>5, <2>1
  <2>5. start \in 1..Len(ts) /\ p \in start..Len(ts) /\ p > start + 1
    BY <1>3, <2>3, <2>4
  <2>6. Item(node, p) \in ItemsOver(ts, Derivations(ts), start, p)
    BY <2>3, <2>4, <2>5, InItems
  <2>7. items' \in ItemLists(ts, Derivations(ts))[p]
    BY <2>1, <2>3, <2>5, <2>6, ItemAdded
  <2>8. mode' = "document" /\ Len(tokens') - 1 = p /\ Len(tokens') > 1 /\ stack' = << >>
    BY <1>0, <1>3, <2>1, <2>3, <2>4
  <2>9. lab = "separator" => MakesAs(lab, ts)'
    BY <2>7, <2>8 DEF MakesAs, OutsideItems, ParsedUpto
  <2>10. QED
    BY <1>0, <1>5, <2>1, <2>9, ReadTo DEF Target
<1>12. CASE EndDocument
  <2>1. /\ label = "separator" /\ Current = "EOF" /\ items' = items /\ label' = "done"
        /\ outcome' = Parsed /\ UNCHANGED <<mode, tokens, level, stack, node>>
    BY <1>12 DEF EndDocument, Accept
  <2>2. Len(tokens) > 1 /\ ParsedUpto(ts, Len(tokens) - 1)
    BY <1>6, <2>1 DEF OutsideItems
  <2>3. ParsedUpto(ts, Len(tokens) - 1)' /\ Len(tokens') > 1 /\ Current' = "EOF"
    BY <2>1, <2>2 DEF ParsedUpto, Current
  <2>4. QED
    BY <1>30, <2>1, <2>3 DEF MakesAs, OutsideItems, Parsed, Outcome
<1>13. CASE Separator
  <2>1. /\ label = "separator" /\ Current = "COMMA" /\ ReadToken("next_item")
        /\ UNCHANGED <<mode, level, stack, node, items>>
    BY <1>13 DEF Separator
  <2>2. stack = << >> /\ p > 1 /\ ParsedUpto(ts, p - 1)
    BY <1>2, <1>6, <2>1 DEF OutsideItems
  <2>3. Len(tokens') = p + 1 /\ ts[p] = "COMMA"
    BY <1>3, <1>4, <1>5, <2>1
  <2>4. Len(tokens') - 2 = p - 1 /\ Len(tokens') - 1 = p /\ Len(tokens') > 2
    BY <1>3, <2>2, <2>3
  <2>5. ParsedUpto(ts, Len(tokens) - 2)'
    BY <2>1, <2>2, <2>4 DEF ParsedUpto
  <2>6. lab = "next_item" => MakesAs(lab, ts)'
    BY <2>1, <2>2, <2>3, <2>4, <2>5 DEF MakesAs, OutsideItems
  <2>7. QED
    BY <1>0, <1>5, <2>1, <2>6, ReadTo DEF Target
<1>14. CASE NextItem
  <2>1. /\ label = "next_item" /\ tokens' = tokens /\ label' = "item" /\ UNCHANGED <<mode, level, stack, node, items>>
    BY <1>14 DEF NextItem, Goto
  <2>2. stack = << >> /\ p > 2 /\ ts[p - 1] = "COMMA" /\ ParsedUpto(ts, p - 2)
    BY <1>2, <1>6, <2>1 DEF OutsideItems
  <2>3. Begun(ts, p)
    BY <1>0, <2>2 DEF ParsedUpto, Begun
  <2>4. Hang(ts, stack', Len(tokens'), p, Hole(p, 1))
    <3>1. Len(stack) = 0 /\ p \in 1..p
      BY <1>3, <2>2
    <3>2. Hang(ts, stack, p, p, Hole(p, 1))
      BY <1>3, <3>1, HangNone
    <3>3. QED
      BY <1>2, <2>1, <3>2
  <2>5. Hole(p, 1).from = p
    BY DEF Hole
  <2>6. InFactorAt(lab, ts, Len(tokens), Hole(p, 1))'
    BY <1>30, <1>2, <2>1, <2>5 DEF InFactorAt
  <2>7. QED
    BY <1>30, <2>1, <2>2, <2>3, <2>4, <2>6, Established
<1>15. QED
  BY <1>7, <1>8, <1>9, <1>10, <1>11, <1>12, <1>13, <1>14 DEF Document

LEMMA StartMakes ==
  ASSUME TypeInv, NEW ts \in Seq(TokenTypes), MakesAs(label, ts), NewParser \/ Empty \/ Start,
         NEW lab, Reached(lab)
  PROVE  MakesAs(lab, ts)'
<1>30. /\ label' # "done" => lab = label'
       /\ label' = "done" /\ outcome'.code \notin {"lexer_error", "unexpected_token"} => lab = "done"
  BY DEF Reached, Stopped, Dropped
<1>1. CASE NewParser
  <2>1. label = "new" /\ ReadToken("start") /\ UNCHANGED <<mode, level, stack, node, items>>
        /\ "start" \in Labels \ {"new", "done"} /\ label # "done"
    BY <1>1 DEF NewParser, Labels
  <2>2. stack = << >> /\ items = << >>
    BY <2>1, Outside DEF InItemLabels, OutsideItems
  <2>3. Len(tokens) = 0 /\ Len(tokens') = Len(tokens) + 1
    BY <2>1, AfterReadToken DEF TypeInv, TextOK
  <2>4. lab = "start" => MakesAs(lab, ts)'
    BY <2>1, <2>2, <2>3 DEF MakesAs, OutsideItems
  <2>5. QED
    BY <2>1, <2>4, ReadTo DEF Target
<1>2. CASE Empty
  BY <1>2, MakesOnFail DEF Empty, Fail
<1>3. CASE Start
  <2>1. /\ label = "start" /\ label' \in {"item", "factor"} /\ tokens' = tokens
        /\ UNCHANGED <<mode, level, stack, node, items>>
    BY <1>3 DEF Start, Goto
  <2>2. stack = << >> /\ items = << >> /\ Len(tokens) = 1
    BY <2>1, Outside DEF InItemLabels, OutsideItems
  <2>3. Begun(ts, 1)
    BY <2>2 DEF Begun
  <2>4. Hang(ts, stack', Len(tokens'), 1, Hole(1, 1))
    <3>1. Len(stack) = 0 /\ 1 \in Nat /\ 1 \in 1..1
      BY <2>2
    <3>2. Hang(ts, stack, 1, 1, Hole(1, 1))
      BY <3>1, HangNone
    <3>3. QED
      BY <2>1, <2>2, <3>2
  <2>5. Hole(1, 1).from = 1
    BY DEF Hole
  <2>6. InFactorAt(lab, ts, Len(tokens), Hole(1, 1))'
    BY <1>30, <2>1, <2>2, <2>5 DEF InFactorAt
  <2>7. QED
    BY <1>30, <2>1, <2>2, <2>3, <2>4, <2>6, Established
<1>4. QED
  BY <1>1, <1>2, <1>3

\* Names and items behind a comma are read in documents only.
LEMMA StoppedInDocument ==
  ASSUME TypeInv, Next, Stopped', Target \in {"alias", "next_item"}
  PROVE  mode' = "document"
<1>1. label = "separator" \/ (label = "value" /\ Current \notin {"RPAREN", "COMMA"})
  BY DEF Target
<1>2. CASE label = "separator"
  <2>1. mode = "document"
    BY <1>2 DEF TypeInv, ItemsOK
  <2>2. EndDocument \/ Separator \/ SeparatorMissing
    BY <1>2 DEF Next, NewParser, Empty, Start, Factor, Literal, Negate, OpenParen, FactorFails, Name, OpenCall,
                Constant, OpenPath, Column, Segment, SegmentMissing, Dot, Loops, CloseNegate, EndFactor,
                CloseBinary, OpenBinary, LeaveLoop, Closing, CloseParen, ParenFails, BeginArguments, NoArguments,
                NextArgument, LastArgument, CallFails, InCall, EndFormula, FormulaFails, AtTop, Document,
                BeginItem, EmptyItem, Unnamed, As, Alias, AliasMissing, NextItem, TrailingComma
  <2>3. QED
    BY <2>1, <2>2 DEF EndDocument, Accept, Separator, SeparatorMissing, MissingOperator, Fail, FailAt
<1>3. CASE label = "value" /\ Current \notin {"RPAREN", "COMMA"}
  <2>1. ParenFails \/ CallFails \/ EndFormula \/ FormulaFails \/ Unnamed \/ As
    BY <1>3 DEF Next, NewParser, Empty, Start, Factor, Literal, Negate, OpenParen, FactorFails, Name, OpenCall,
                Constant, OpenPath, Column, Segment, SegmentMissing, Dot, Loops, CloseNegate, EndFactor,
                CloseBinary, OpenBinary, LeaveLoop, Closing, CloseParen, BeginArguments, NoArguments,
                NextArgument, LastArgument, InCall, Document,
                BeginItem, EmptyItem, Alias, AliasMissing, EndDocument, Separator, NextItem,
                TrailingComma, SeparatorMissing
  <2>2. ~ParenFails /\ ~CallFails /\ ~FormulaFails
    <3>1. Len(tokens) \in Nat
      BY DEF TypeInv, TextOK
    <3>2. ASSUME NEW code, code # "lexer_error", Fail(code) PROVE ~Stopped'
      BY <3>1, <3>2 DEF Stopped, Dropped, Fail, FailAt, Outcome, Pos
    <3>3. QED
      BY <3>2 DEF ParenFails, CallFails, FormulaFails, MissingOperator
  <2>3. ~EndFormula /\ ~Unnamed
    BY DEF Stopped, Dropped, EndFormula, Accept, Parsed, Outcome, Unnamed, Goto
  <2>4. As
    BY <2>1, <2>2, <2>3
  <2>5. QED
    BY <2>4 DEF As, AtTop
<1>4. QED
  BY <1>1, <1>2, <1>3

LEMMA StepsBeforeEnd ==
  ASSUME Next
  PROVE  label # "done"
BY DEF Next, NewParser, Empty, Start, Factor, Literal, Negate, OpenParen, FactorFails, Name, OpenCall,
       Constant, OpenPath, Column, Segment, SegmentMissing, Dot, Loops, CloseNegate, EndFactor,
       CloseBinary, OpenBinary, LeaveLoop, Closing, CloseParen, ParenFails, BeginArguments, NoArguments,
       NextArgument, LastArgument, CallFails, InCall, EndFormula, FormulaFails, AtTop, Document,
       BeginItem, EmptyItem, Unnamed, As, Alias, AliasMissing, EndDocument, Separator, NextItem,
       TrailingComma, SeparatorMissing

LEMMA SoundNext == TypeInv /\ Sound /\ [Next]_vars => Sound'
<1> SUFFICES ASSUME TypeInv, Sound, [Next]_vars PROVE Sound'
  OBVIOUS
<1>1. CASE UNCHANGED vars
  <2>1. Stopped' = Stopped /\ label' = label /\ mode' = mode
    BY <1>1 DEF vars, Stopped, Dropped
  <2>2. ASSUME NEW lab, NEW ts PROVE (ReadFrom(ts) => MakesAs(lab, ts))' = (ReadFrom(ts) => MakesAs(lab, ts))
    BY <1>1 DEF vars, ReadFrom, MakesAs, WithinItem, OutsideItems, Begun, InFactorAt, InLoopsAt, ParsedUpto,
                Current, Top
  <2>3. QED
    BY <2>1, <2>2 DEF Sound
<1>2. CASE Next
  <2>1. label # "done"
    BY <1>2, StepsBeforeEnd
  <2>2. \A ts \in Seq(TokenTypes) : ReadFrom(ts) => MakesAs(label, ts)
    BY <2>1 DEF Sound, Stopped
  <2>3. PICK lab : Reached(lab)
    BY DEF Reached
  <2>4. label' \in Labels /\ Target \in Labels \ {"new", "done"}
    BY TypeNext DEF TypeInv, PlaceOK, Target, Labels
  <2>5. lab \in Labels /\ IF Stopped' THEN lab \notin {"new", "done"} ELSE lab = label'
    BY <2>3, <2>4 DEF Reached
  <2>6. ASSUME NEW ts \in Seq(TokenTypes), ReadFrom(ts)' PROVE MakesAs(lab, ts)'
    <3>1. MakesAs(label, ts)
      <4>1. CASE tokens' = tokens
        BY <2>2, <2>6, <4>1 DEF ReadFrom
      <4>2. CASE tokens' # tokens /\ label # "new"
        BY <2>2, <2>6, <4>2, ReadSoFar
      <4>3. CASE label = "new"
        <5>1. Len(tokens) = 0 /\ Len(ts) \in Nat
          BY <4>3 DEF TypeInv, TextOK
        <5>2. QED
          BY <2>2, <5>1 DEF ReadFrom
      <4>4. QED
        BY <4>1, <4>2, <4>3
    <3>2. CASE NewParser \/ Empty \/ Start
      BY <2>3, <3>1, <3>2, StartMakes
    <3>3. CASE Factor
      BY <2>3, <2>6, <3>1, <3>3, FactorMakes
    <3>4. CASE Loops
      BY <2>3, <2>6, <3>1, <3>4, LoopsMake
    <3>5. CASE Closing
      BY <2>3, <2>6, <3>1, <3>5, ClosingMakes
    <3>6. CASE Document
      BY <2>3, <2>6, <3>1, <3>6, DocumentMakes
    <3>7. QED
      BY <1>2, <3>2, <3>3, <3>4, <3>5, <3>6 DEF Next
  <2>7. lab \in {"alias", "next_item"} => mode' = "document"
    <3>1. CASE ~Stopped'
      BY <2>5, <3>1, TypeNext DEF TypeInv, ItemsOK
    <3>2. CASE Stopped'
      BY <1>2, <2>3, <3>2, StoppedInDocument DEF Reached
    <3>3. QED
      BY <3>1, <3>2
  <2>8. QED
    BY <2>5, <2>6, <2>7 DEF Sound
<1>3. QED
  BY <1>1, <1>2

LEMMA SoundInit == Init => Sound
<1> SUFFICES ASSUME Init PROVE Sound
  OBVIOUS
<1>1. label = "new" /\ stack = << >> /\ items = << >>
  BY DEF Init
<1>2. "new" \in Labels /\ ~Stopped /\ \A ts : MakesAs("new", ts)
  BY <1>1 DEF Labels, Stopped, MakesAs, OutsideItems
<1>3. QED
  BY <1>1, <1>2 DEF Sound

LEMMA SoundInvariant == Spec => []Sound
  BY SoundInit, SoundNext, TypeInvariant, PTL DEF Spec

\* What is returned is one of the trees of the text.
LEMMA ParsedItems ==
  ASSUME TypeInv, Sound, outcome = Parsed
  PROVE  /\ Front(tokens) \in Seq(Lexicon) /\ Front(tokens) # << >>
         /\ mode \in {"formula", "document"} /\ items \in Parses(mode, Front(tokens))
<1>1. label = "done"
  BY DEF TypeInv, PlaceOK, Parsed, Pending, Outcome
<1>2. tokens \in Seq(Lexicon) /\ Len(tokens) \in Nat /\ tokens # << >>
  BY <1>1 DEF TypeInv, TextOK
<1> DEFINE ts == Front(tokens)
<1>3. Listing(tokens)
  BY <1>2, ListingOf
<1>4. Len(ts) = Len(tokens) - 1 /\ Last(tokens) = tokens[Len(tokens)] /\ \A i \in 1..Len(tokens) - 1 : ts[i] = tokens[i]
  BY <1>2, <1>3, ListingShortens
<1>5. ts \in Seq(Lexicon)
  <2>1. \A i \in 1..Len(tokens) - 1 : tokens[i] \in Lexicon
    BY <1>2
  <2>2. SubSeq(tokens, 1, Len(tokens) - 1) \in Seq(Lexicon)
    BY <1>2, <2>1, SubSeqProperties
  <2>3. QED
    BY <2>2 DEF Front
<1> HIDE DEF ts
<1>6. MakesAs("done", ts)
  <2>1. ~Stopped
    BY DEF Stopped, Dropped, Parsed, Outcome
  <2>2. Lexicon \subseteq TokenTypes
    BY LexiconAssumption
  <2>3. ts \in Seq(TokenTypes) /\ ReadFrom(ts)
    BY <1>2, <1>4, <1>5, <2>2 DEF ReadFrom
  <2>4. QED
    BY <1>1, <2>1, <2>3 DEF Sound
<1>7. Len(tokens) > 1 /\ ParsedUpto(ts, Len(ts))
  BY <1>4, <1>6 DEF MakesAs, WithinItem, InFactorAt, InLoopsAt, OutsideItems
<1>8. ts # << >> /\ mode \in {"formula", "document"}
  BY <1>2, <1>4, <1>7 DEF TypeInv, ItemsOK
<1>9. items \in Parses(mode, ts)
  BY <1>7, <1>8 DEF ParsedUpto, Parses, Over
<1>10. QED
  BY <1>5, <1>8, <1>9 DEF ts

(***************************************************************************)
(* Whatever text Parse or ParseDocument accepts, of any length, it returns *)
(* the tree the grammar gives it, and the grammar gives it no other:       *)
(* precedence, associativity, unary minus, paths, calls, aliases, and the  *)
(* words that are constants, names or keywords by their place.             *)
(***************************************************************************)
THEOREM ParserFollowsTheGrammar == Spec => []ParsesTheGrammar
<1>1. ASSUME TypeInv, Sound PROVE ParsesTheGrammar
  <2> SUFFICES ASSUME outcome = Parsed PROVE Parses(mode, Front(tokens)) = {items}
    BY DEF ParsesTheGrammar
  <2> DEFINE ts == Front(tokens)
  <2>1. ts \in Seq(Lexicon) /\ mode \in {"formula", "document"} /\ items \in Parses(mode, ts)
    BY <1>1, ParsedItems
  <2> HIDE DEF ts
  <2>2. \A x \in Parses(mode, ts) : x = items
    BY <2>1, NoTwoTrees
  <2>3. Parses(mode, ts) = {items}
    BY <2>1, <2>2
  <2>4. QED
    BY <2>3 DEF ts
<1>2. QED
  BY <1>1, TypeInvariant, SoundInvariant, PTL

-----------------------------------------------------------------------------
(***************************************************************************)
(* What stands around a tree.  A name of an expression is touched by no    *)
(* other name and no dot, but the AS behind an item may follow on it.      *)
(***************************************************************************)
Clear(ts, a, b) ==
  /\ a = 1 \/ ts[a - 1] \notin Dotted
  /\ b = Len(ts) \/ ts[b + 1] = "AS" \/ ts[b + 1] \notin Dotted \cup {"LPAREN"}

Standing(ts, l, a, b, t) ==
  /\ l \in 1..4 /\ a \in 1..Len(ts) /\ b \in a..Len(ts)
  /\ t \in Over(ts, l, a, b) /\ Clear(ts, a, b)

InPlace(ts, t) == (t.kind = "segment" /\ t.kids = << >>) \/ \E l, a, b : Standing(ts, l, a, b, t)

\* What a tree is over its own span, and that its children are in place.
MadeAt(ts, a, b, t) ==
  \/ a = b /\ t \in Word(ts, a)
  \/ t.kind \in {"negate", "binary"}
  \/ t.kind = "call" /\ t.at = a /\ a < b /\ ts[a] \in Identifiers /\ ts[a + 1] = "LPAREN"
  \/ IsPath(ts, a, b) /\ t = PathOver(a, b)

Made(ts, t) ==
  /\ Listing(t.kids) /\ \A i \in 1..Len(t.kids) : InPlace(ts, t.kids[i])
  /\ \E a \in 1..Len(ts) : \E b \in a..Len(ts) : Clear(ts, a, b) /\ MadeAt(ts, a, b, t)

LEMMA DottedAre ==
  /\ Dotted = {"IDENT", "AS", "TRUE", "NUMBER", "DOT"}
  /\ \A l \in 1..3 : \A t \in Operators[l] : t \notin Dotted \cup {"LPAREN"}
  BY DEF Dotted, Words, Identifiers, Operators, Comparisons, Additions, Multiplications

\* The elements of a list, and the commas around them.
ElementAt(ts, E, g, t, y) ==
  \E f \in g..t : \E u \in f..t :
    /\ y \in E[<<f, u>>]
    /\ f = g \/ ts[f - 1] = "COMMA"
    /\ u = t \/ ts[u + 1] = "COMMA"

LEMMA ElementsOf ==
  ASSUME NEW T, NEW ts \in Seq(T), NEW E, NEW L, NEW g \in 1..Len(ts), AreLists(ts, E, L, g),
         NEW t \in g..Len(ts), NEW x \in L[t]
  PROVE  Listing(x) /\ \A i \in 1..Len(x) : ElementAt(ts, E, g, t, x[i])
<1> DEFINE P(u, y) == Listing(y) /\ \A i \in 1..Len(y) : ElementAt(ts, E, g, u, y[i])
           S == {n \in Nat : \A u \in g..Len(ts) : u < n => \A y \in L[u] : P(u, y)}
           bound == Len(ts) + 1
<1>0. Len(ts) \in Nat /\ bound \in Nat
  BY LenProperties
<1>1. 0 \in S
  OBVIOUS
<1>2. ASSUME NEW n \in Nat, n < bound, n \in S PROVE n + 1 \in S
  <2>1. ASSUME NEW u \in g..Len(ts), u < n + 1, NEW y \in L[u] PROVE P(u, y)
    <3>1. CASE Single(E, g, y, u)
      <4>1. PICK i \in E[<<g, u>>] : y = <<i>>
        BY <3>1 DEF Single
      <4>2. y \in Seq({i}) /\ Len(y) = 1 /\ y[1] = i
        BY <4>1
      <4>3. Listing(y)
        BY <4>2, ListingOf
      <4>4. ElementAt(ts, E, g, u, i)
        <5>1. g \in g..u /\ u \in g..u
          BY <1>0
        <5>2. QED
          BY <5>1 DEF ElementAt
      <4>5. \A j \in 1..Len(y) : ElementAt(ts, E, g, u, y[j])
        <5>1. \A j \in 1..Len(y) : j = 1
          BY <4>2
        <5>2. QED
          BY <4>2, <4>4, <5>1
      <4>6. QED
        BY <4>3, <4>5
    <3>2. ASSUME NEW k, Cut(ts, E, L, g, y, u, k) PROVE P(u, y)
      <4>1. k \in g + 1..u - 1 /\ ts[k] = "COMMA"
        BY <3>2 DEF Cut
      <4>2. PICK a \in L[k - 1], i \in E[<<k + 1, u>>] : y = Append(a, i)
        BY <3>2 DEF Cut
      <4>3. k - 1 \in g..Len(ts) /\ k - 1 < n /\ k + 1 \in g..u /\ u \in k + 1..u
            /\ k + 1 - 1 = k /\ k - 1 + 1 = k
        BY <1>0, <2>1, <4>1
      <4>4. P(k - 1, a)
        BY <1>2, <4>2, <4>3
      <4>5. /\ Listing(y) /\ Len(a) \in Nat /\ Len(y) = Len(a) + 1
            /\ y[Len(a) + 1] = i /\ \A j \in 1..Len(a) : y[j] = a[j]
        BY <4>2, <4>4, ListingGrows
      <4>6. ElementAt(ts, E, g, u, i)
        <5> DEFINE f == k + 1
        <5>1. f \in g..u /\ u \in f..u /\ i \in E[<<f, u>>] /\ ts[f - 1] = "COMMA"
          BY <4>1, <4>2, <4>3
        <5> HIDE DEF f
        <5>2. QED
          BY <5>1 DEF ElementAt
      <4>7. ASSUME NEW j \in 1..Len(a) PROVE ElementAt(ts, E, g, u, a[j])
        <5>1. ElementAt(ts, E, g, k - 1, a[j])
          BY <4>4
        <5>2. PICK f \in g..k - 1 : \E v \in f..k - 1 :
                /\ a[j] \in E[<<f, v>>]
                /\ f = g \/ ts[f - 1] = "COMMA"
                /\ v = k - 1 \/ ts[v + 1] = "COMMA"
          BY <5>1 DEF ElementAt
        <5> PICK v \in f..k - 1 :
                /\ a[j] \in E[<<f, v>>]
                /\ f = g \/ ts[f - 1] = "COMMA"
                /\ v = k - 1 \/ ts[v + 1] = "COMMA"
          BY <5>2
        <5>3. f \in g..u /\ v \in f..u /\ ts[v + 1] = "COMMA"
          BY <1>0, <4>1, <4>3, <5>2
        <5>4. QED
          BY <5>3 DEF ElementAt
      <4>8. \A j \in 1..Len(y) : j \in 1..Len(a) \/ j = Len(a) + 1
        BY <4>5
      <4>9. QED
        BY <4>5, <4>6, <4>7, <4>8
    <3>3. Single(E, g, y, u) \/ \E k : Cut(ts, E, L, g, y, u, k)
      BY DEF AreLists
    <3>4. QED
      BY <3>1, <3>2, <3>3
  <2> HIDE DEF P
  <2>2. QED
    BY <2>1
<1>3. t < bound
  BY <1>0
<1> HIDE DEF S, bound
<1>4. bound \in S
  <2>1. 0..bound \subseteq S
    BY <1>0, <1>1, <1>2, CountUp
  <2>2. QED
    BY <1>0, <2>1
<1>5. P(t, x)
  BY <1>3, <1>4 DEF S
<1>6. QED
  BY <1>5

\* The grammar's trees below a weight are made of trees in place.
MadeBelow(ts, w) ==
  \A l, a, b, t : Standing(ts, l, a, b, t) /\ Weight(l, a, b) < w => Made(ts, t)

LEMMA ArgumentsInPlace ==
  ASSUME NEW T, NEW ts \in Seq(T), NEW g \in 2..Len(ts), NEW h \in g..Len(ts) - 1,
         ts[g - 1] = "LPAREN", ts[h + 1] = "RPAREN", NEW x \in Over(ts, 0, g, h)
  PROVE  Listing(x) /\ \A i \in 1..Len(x) : InPlace(ts, x[i])
<1> DEFINE E == Elements(ts)
           L == ListsFrom(ts, g)
<1>0. Len(ts) \in Nat /\ g \in 1..Len(ts) /\ h \in g..Len(ts) /\ h \in 0..Len(ts)
  BY LenProperties
<1>1. AreLists(ts, E, L, g)
  BY <1>0, ArgumentsAreLists
<1>2. x \in L[h]
  BY <1>0 DEF ListsFrom
<1> HIDE DEF L
<1>3. Listing(x) /\ \A i \in 1..Len(x) : ElementAt(ts, E, g, h, x[i])
  BY <1>0, <1>1, <1>2, ElementsOf
<1>4. ASSUME NEW y, ElementAt(ts, E, g, h, y) PROVE InPlace(ts, y)
  <2>1. PICK f \in g..h : \E u \in f..h :
          /\ y \in E[<<f, u>>]
          /\ f = g \/ ts[f - 1] = "COMMA"
          /\ u = h \/ ts[u + 1] = "COMMA"
    BY <1>4 DEF ElementAt
  <2>2. PICK u \in f..h :
          /\ y \in E[<<f, u>>]
          /\ f = g \/ ts[f - 1] = "COMMA"
          /\ u = h \/ ts[u + 1] = "COMMA"
    BY <2>1
  <2>3. f \in 1..Len(ts) /\ u \in f..Len(ts) /\ u \in 0..Len(ts)
    BY <1>0
  <2>4. y \in Over(ts, 1, f, u)
    BY <2>2, <2>3 DEF Elements
  <2>5. ts[f - 1] \in {"LPAREN", "COMMA"} /\ ts[u + 1] \in {"RPAREN", "COMMA"}
    BY <2>2
  <2>6. Clear(ts, f, u)
    BY <2>5, DottedAre DEF Clear
  <2>7. Standing(ts, 1, f, u, y)
    BY <2>3, <2>4, <2>6 DEF Standing
  <2>8. QED
    BY <2>7 DEF InPlace
<1>5. QED
  BY <1>3, <1>4

LEMMA OneKid ==
  ASSUME NEW ts, NEW x, InPlace(ts, x)
  PROVE  Listing(<<x>>) /\ \A i \in 1..Len(<<x>>) : InPlace(ts, <<x>>[i])
<1>1. <<x>> \in Seq({x}) /\ Len(<<x>>) = 1 /\ <<x>>[1] = x
  OBVIOUS
<1>2. Listing(<<x>>)
  BY <1>1, ListingOf
<1>3. \A i \in 1..Len(<<x>>) : i = 1
  BY <1>1
<1>4. QED
  BY <1>1, <1>2, <1>3

LEMMA TwoKids ==
  ASSUME NEW ts, NEW x, NEW y, InPlace(ts, x), InPlace(ts, y)
  PROVE  Listing(<<x, y>>) /\ \A i \in 1..Len(<<x, y>>) : InPlace(ts, <<x, y>>[i])
<1>1. <<x, y>> \in Seq({x, y}) /\ Len(<<x, y>>) = 2 /\ <<x, y>>[1] = x /\ <<x, y>>[2] = y
  OBVIOUS
<1>2. Listing(<<x, y>>)
  BY <1>1, ListingOf
<1>3. \A i \in 1..Len(<<x, y>>) : i = 1 \/ i = 2
  BY <1>1
<1>4. QED
  BY <1>1, <1>2, <1>3

LEMMA NoKids ==
  ASSUME NEW ts
  PROVE  Listing(<< >>) /\ \A i \in 1..Len(<< >>) : InPlace(ts, << >>[i])
<1>1. << >> \in Seq({}) /\ Len(<< >>) = 0
  OBVIOUS
<1>2. Listing(<< >>)
  BY <1>1, ListingOf
<1>3. QED
  BY <1>1, <1>2

LEMMA SegmentsInPlace ==
  ASSUME NEW ts, NEW a \in Nat, NEW b \in Nat, a < b
  PROVE  Listing(PathOver(a, b).kids) /\ \A i \in 1..Len(PathOver(a, b).kids) : InPlace(ts, PathOver(a, b).kids[i])
<1> DEFINE n == (b - a) \div 2 + 1
           kids == [i \in 1..n |-> Leaf("segment", a + 2 * (i - 1))]
           S == {kids[i] : i \in 1..n}
<1>1. n \in Nat
  OBVIOUS
<1>2. PathOver(a, b).kids = kids
  BY TreesOf DEF PathOver
<1> HIDE DEF n
<1>3. kids \in [1..n -> S]
  OBVIOUS
<1>7. ASSUME NEW i \in 1..n PROVE kids[i].kind = "segment" /\ kids[i].kids = << >>
  <2>1. kids[i] = Leaf("segment", a + 2 * (i - 1))
    OBVIOUS
  <2> HIDE DEF kids
  <2>2. QED
    BY <2>1, TreesOf
<1> HIDE DEF kids, S
<1>4. kids \in Seq(S) /\ Len(kids) = n
  BY <1>1, <1>3
<1>5. Listing(kids)
  BY <1>4, ListingOf
<1>6. QED
  BY <1>2, <1>4, <1>5, <1>7 DEF InPlace

LEMMA JoinedMade ==
  ASSUME NEW T, NEW ts \in Seq(T), NEW l \in 1..3, NEW from \in 1..Len(ts), NEW to \in from..Len(ts),
         Clear(ts, from, to), NEW x, NEW k, JoinsAt(ts, l, from, to, x, k)
  PROVE  Made(ts, x)
<1>0. Len(ts) \in Nat
  BY LenProperties
<1>1. PICK a, b : JoinsOf(ts, l, from, to, x, k, a, b)
  BY JoinsHasParts
<1>2. /\ k \in from + 1..to - 1 /\ ts[k] \in Operators[l]
      /\ a \in Over(ts, l, from, k - 1) /\ b \in Over(ts, l + 1, k + 1, to)
      /\ x = Tree("binary", k, <<a, b>>)
  BY <1>1 DEF JoinsOf
<1>3. ts[k] \notin Dotted \cup {"LPAREN"}
  BY <1>2, DottedAre
<1>4. /\ k - 1 \in from..Len(ts) /\ k + 1 \in 1..Len(ts) /\ to \in k + 1..Len(ts)
      /\ k - 1 + 1 = k /\ k + 1 - 1 = k /\ l \in 1..4 /\ l + 1 \in 1..4
  BY <1>0, <1>2
<1>5. Clear(ts, from, k - 1) /\ Clear(ts, k + 1, to)
  BY <1>3, <1>4 DEF Clear
<1>6. Standing(ts, l, from, k - 1, a) /\ Standing(ts, l + 1, k + 1, to, b)
  BY <1>2, <1>4, <1>5 DEF Standing
<1>7. InPlace(ts, a) /\ InPlace(ts, b)
  BY <1>6 DEF InPlace
<1>8. x.kind = "binary" /\ x.kids = <<a, b>>
  BY <1>2, TreesOf
<1>9. MadeAt(ts, from, to, x)
  BY <1>8 DEF MadeAt
<1>10. QED
  BY <1>7, <1>8, <1>9, TwoKids DEF Made

LEMMA FactorMade ==
  ASSUME NEW T, NEW ts \in Seq(T), NEW from \in 1..Len(ts), NEW to \in from..Len(ts),
         NEW x \in Over(ts, 4, from, to), Clear(ts, from, to), MadeBelow(ts, Weight(4, from, to))
  PROVE  Made(ts, x)
<1>0. Len(ts) \in Nat
  BY LenProperties
<1>1. CASE to = from /\ x \in Word(ts, from)
  <2>1. x.kids = << >>
    BY <1>1, TreesOf DEF Word
  <2>2. MadeAt(ts, from, to, x)
    BY <1>1 DEF MadeAt
  <2>3. QED
    BY <2>1, <2>2, NoKids DEF Made
<1>2. CASE to > from /\ Negation(ts, from, to, x)
  <2>1. PICK d \in Over(ts, 4, from + 1, to) : ts[from] = "MINUS" /\ x = Tree("negate", from, <<d>>)
    BY <1>2 DEF Negation
  <2>2. from + 1 \in 1..Len(ts) /\ to \in from + 1..Len(ts) /\ from + 1 - 1 = from /\ 4 \in 1..4
    BY <1>0, <1>2
  <2>3. Clear(ts, from + 1, to)
    BY <2>1, <2>2, DottedAre DEF Clear
  <2>4. Standing(ts, 4, from + 1, to, d)
    BY <2>1, <2>2, <2>3 DEF Standing
  <2>5. x.kind = "negate" /\ x.kids = <<d>>
    BY <2>1, TreesOf
  <2>6. MadeAt(ts, from, to, x) /\ InPlace(ts, d)
    BY <2>4, <2>5 DEF MadeAt, InPlace
  <2>7. QED
    BY <2>5, <2>6, OneKid DEF Made
<1>3. CASE to > from /\ Enclosure(ts, from, to, x)
  <2>1. ts[from] = "LPAREN" /\ ts[to] = "RPAREN" /\ x \in Over(ts, 1, from + 1, to - 1)
    BY <1>3 DEF Enclosure
  <2>2. /\ from + 1 \in 1..Len(ts) /\ to - 1 \in 0..Len(ts) /\ from + 1 - 1 = from /\ to - 1 + 1 = to
        /\ 1 \in 1..4 /\ 1 \in 0..4
    BY <1>0, <1>3
  <2>3. to - 1 >= from + 1
    <3>1. ASSUME to - 1 < from + 1 PROVE FALSE
      BY <2>1, <2>2, <3>1, NothingOver
    <3>2. QED
      BY <2>2, <3>1
  <2>4. to - 1 \in from + 1..Len(ts)
    BY <2>2, <2>3
  <2>5. Clear(ts, from + 1, to - 1)
    BY <2>1, <2>2, DottedAre DEF Clear
  <2>6. Standing(ts, 1, from + 1, to - 1, x)
    BY <2>1, <2>2, <2>4, <2>5 DEF Standing
  <2>7. Weight(1, from + 1, to - 1) < Weight(4, from, to)
    BY <1>0, <1>3, <2>3 DEF Weight
  <2>8. QED
    BY <2>6, <2>7 DEF MadeBelow
<1>4. CASE to > from /\ Call(ts, from, to, x)
  <2>1. /\ ts[from] \in Identifiers /\ ts[from + 1] = "LPAREN" /\ ts[to] = "RPAREN"
        /\ \/ to = from + 2 /\ x = Tree("call", from, << >>)
           \/ to # from + 2 /\ \E a \in Over(ts, 0, from + 2, to - 1) : x = Tree("call", from, a)
    BY <1>4 DEF Call
  <2>2. \E a : x = Tree("call", from, a) /\ Listing(a) /\ \A i \in 1..Len(a) : InPlace(ts, a[i])
    <3>1. CASE to = from + 2 /\ x = Tree("call", from, << >>)
      BY <3>1, NoKids
    <3>2. CASE to # from + 2 /\ \E a \in Over(ts, 0, from + 2, to - 1) : x = Tree("call", from, a)
      <4>1. PICK a \in Over(ts, 0, from + 2, to - 1) : x = Tree("call", from, a)
        BY <3>2
      <4>2. to # from + 1
        BY <2>1
      <4>3. to > from + 2
        BY <1>0, <1>4, <3>2, <4>2
      <4>4. /\ from + 2 \in 2..Len(ts) /\ to - 1 \in from + 2..Len(ts) - 1
            /\ from + 2 - 1 = from + 1 /\ to - 1 + 1 = to
        BY <1>0, <4>3
      <4>5. ts[from + 2 - 1] = "LPAREN" /\ ts[to - 1 + 1] = "RPAREN"
        BY <2>1, <4>4
      <4>6. Listing(a) /\ \A i \in 1..Len(a) : InPlace(ts, a[i])
        BY <4>1, <4>4, <4>5, ArgumentsInPlace
      <4>7. QED
        BY <4>1, <4>6
    <3>3. QED
      BY <2>1, <3>1, <3>2
  <2>3. PICK a : x = Tree("call", from, a) /\ Listing(a) /\ \A i \in 1..Len(a) : InPlace(ts, a[i])
    BY <2>2
  <2>4. x.kind = "call" /\ x.at = from /\ x.kids = a
    BY <2>3, TreesOf
  <2>5. MadeAt(ts, from, to, x)
    BY <1>4, <2>1, <2>4 DEF MadeAt
  <2>6. QED
    BY <2>3, <2>4, <2>5 DEF Made
<1>5. CASE to > from /\ IsPath(ts, from, to) /\ x = PathOver(from, to)
  <2>1. MadeAt(ts, from, to, x)
    BY <1>5 DEF MadeAt
  <2>2. from \in Nat /\ to \in Nat /\ from < to
    BY <1>0, <1>5
  <2>3. Listing(x.kids) /\ \A i \in 1..Len(x.kids) : InPlace(ts, x.kids[i])
    BY <1>5, <2>2, SegmentsInPlace
  <2>4. QED
    BY <2>1, <2>3 DEF Made
<1>6. QED
  BY <1>1, <1>2, <1>3, <1>4, <1>5, FactorKind

\* Every tree of an expression is made of trees in place: by weight.
LEMMA StandingMade ==
  ASSUME NEW T, NEW ts \in Seq(T), NEW l, NEW a, NEW b, NEW t, Standing(ts, l, a, b, t)
  PROVE  Made(ts, t)
<1> DEFINE S == {n \in Nat : MadeBelow(ts, n)}
           bound == Weight(l, a, b) + 1
<1>0. Len(ts) \in Nat
  BY LenProperties
<1>1. ASSUME NEW m, NEW c, NEW d, NEW x, Standing(ts, m, c, d, x) PROVE Weight(m, c, d) \in Nat
  BY <1>0, <1>1 DEF Standing, Weight
<1>2. 0 \in S
  BY <1>1 DEF MadeBelow
<1>3. ASSUME NEW n \in Nat, MadeBelow(ts, n) PROVE MadeBelow(ts, n + 1)
  <2>1. ASSUME NEW m, NEW c, NEW d, NEW x, Standing(ts, m, c, d, x), Weight(m, c, d) < n + 1
        PROVE  Made(ts, x)
    <3>1. /\ m \in 1..4 /\ c \in 1..Len(ts) /\ d \in c..Len(ts) /\ x \in Over(ts, m, c, d)
          /\ Clear(ts, c, d)
      BY <2>1 DEF Standing
    <3>2. MadeBelow(ts, Weight(m, c, d))
      <4>1. Weight(m, c, d) \in Nat /\ Weight(m, c, d) <= n
        BY <1>1, <2>1
      <4>2. ASSUME NEW k, NEW e, NEW f, NEW y, Standing(ts, k, e, f, y), Weight(k, e, f) < Weight(m, c, d)
            PROVE  Weight(k, e, f) < n
        <5>1. Weight(k, e, f) \in Nat
          BY <1>1, <4>2
        <5>2. QED
          BY <4>1, <4>2, <5>1
      <4>3. QED
        BY <1>3, <4>2 DEF MadeBelow
    <3>3. CASE m = 4
      BY <3>1, <3>2, <3>3, FactorMade
    <3>4. CASE m # 4 /\ x \in Over(ts, m + 1, c, d)
      <4>1. Standing(ts, m + 1, c, d, x)
        BY <3>1, <3>4 DEF Standing
      <4>2. Weight(m + 1, c, d) < Weight(m, c, d)
        BY <1>0, <3>1 DEF Weight
      <4>3. QED
        BY <3>2, <4>1, <4>2 DEF MadeBelow
    <3>5. ASSUME m # 4, NEW k, JoinsAt(ts, m, c, d, x, k) PROVE Made(ts, x)
      <4>1. m \in 1..3
        BY <3>1, <3>5
      <4>2. QED
        BY <3>1, <3>5, <4>1, JoinedMade
    <3>6. m # 4 => x \in Over(ts, m + 1, c, d) \/ \E k : JoinsAt(ts, m, c, d, x, k)
      <4>1. m # 4 => m \in 1..3
        BY <3>1
      <4>2. QED
        BY <3>1, <4>1, InLevel
    <3>7. QED
      BY <3>3, <3>4, <3>5, <3>6
  <2>2. QED
    BY <2>1 DEF MadeBelow
<1>4. bound \in Nat /\ Weight(l, a, b) < bound
  BY <1>1
<1> HIDE DEF bound
<1>5. bound \in S
  <2>1. ASSUME NEW n \in Nat, n < bound, n \in S PROVE n + 1 \in S
    BY <1>3, <2>1
  <2> HIDE DEF S
  <2>2. 0..bound \subseteq S
    BY <1>2, <1>4, <2>1, CountUp
  <2>3. QED
    BY <1>4, <2>2
<1>6. QED
  BY <1>4, <1>5 DEF MadeBelow

-----------------------------------------------------------------------------
(***************************************************************************)
(* What the editor sees: the characters of a name go no further than the   *)
(* name, those of a path written without gaps no further than the path.    *)
(***************************************************************************)
LEMMA LayoutsOf ==
  ASSUME NEW T, NEW ts \in Seq(T), NEW gap \in Layouts(ts), NEW i \in 1..Len(ts) - 1,
         ts[i] \in Dotted, ts[i + 1] \in Dotted \cup {"LPAREN"}
  PROVE  gap[i] \in {"none", "blank", "comment"} /\ (gap[i] = "none" => CanTouch(ts[i], ts[i + 1]))
<1> DEFINE looked == {j \in 1..Len(ts) - 1 : ts[j] \in Dotted /\ ts[j + 1] \in Dotted \cup {"LPAREN"}}
<1>1. PICK g \in {g \in [looked -> {"none", "blank", "comment"}] :
                    \A j \in looked : g[j] = "none" => CanTouch(ts[j], ts[j + 1])} :
        gap = [j \in 1..Len(ts) - 1 |-> IF j \in looked THEN g[j] ELSE "none"]
  BY DEF Layouts
<1>2. i \in looked
  OBVIOUS
<1> HIDE DEF looked
<1>3. gap[i] = g[i]
  BY <1>1, <1>2
<1>4. QED
  BY <1>1, <1>2, <1>3

LEMMA MaxOf ==
  ASSUME NEW i \in Nat, NEW j \in Nat, i <= j
  PROVE  Max(i..j) = j
<1>1. j \in i..j /\ \A y \in i..j : j >= y
  OBVIOUS
<1>2. \A x \in i..j : (\A y \in i..j : x >= y) => x = j
  BY <1>1
<1> DEFINE best == CHOOSE x \in i..j : \A y \in i..j : x >= y
<1>3. best = j
  BY <1>1, <1>2
<1>4. QED
  BY <1>3 DEF Max

Unbroken(ts, gap, a, b) ==
  /\ \A k \in a..b : ts[k] \in Dotted
  /\ \A k \in a..b - 1 : gap[k] = "none"
  /\ a = 1 \/ ts[a - 1] \notin Dotted
  /\ b = Len(ts) \/ ts[b + 1] \notin Dotted \/ gap[b] # "none"

LEMMA RunIs ==
  ASSUME NEW T, NEW ts \in Seq(T), NEW gap, NEW a \in 1..Len(ts), NEW b \in a..Len(ts), NEW i \in a..b,
         Unbroken(ts, gap, a, b)
  PROVE  Run(ts, gap, i) = a..b
<1>0. Len(ts) \in Nat
  BY LenProperties
<1> DEFINE Joint(f, t) == \A k \in f..t : ts[k] \in Dotted /\ (k = t \/ gap[k] = "none")
<1>1. ASSUME NEW j \in 1..Len(ts)
      PROVE  j \in Run(ts, gap, i) <=> IF j < i THEN Joint(j, i) ELSE Joint(i, j)
  <2>1. CASE j < i
    <3>1. Max(j..i) = i
      BY <1>0, <2>1, MaxOf
    <3>2. QED
      BY <2>1, <3>1 DEF Run
  <2>2. CASE ~(j < i)
    <3>1. Max(i..j) = j
      BY <1>0, <2>2, MaxOf
    <3>2. QED
      BY <2>2, <3>1 DEF Run
  <2>3. QED
    BY <2>1, <2>2
<1>2. /\ \A k \in a..b : ts[k] \in Dotted
      /\ \A k \in a..b - 1 : gap[k] = "none"
      /\ a = 1 \/ ts[a - 1] \notin Dotted
      /\ b = Len(ts) \/ ts[b + 1] \notin Dotted \/ gap[b] # "none"
  BY DEF Unbroken
<1>3. ASSUME NEW j \in a..b PROVE j \in Run(ts, gap, i)
  <2>1. j < i => Joint(j, i)
    BY <1>0, <1>2
  <2>2. ~(j < i) => Joint(i, j)
    BY <1>0, <1>2
  <2>3. j \in 1..Len(ts)
    BY <1>0
  <2> HIDE DEF Joint
  <2>4. QED
    BY <1>1, <2>1, <2>2, <2>3
<1>4. ASSUME NEW j \in Run(ts, gap, i) PROVE j \in a..b
  <2>1. j \in 1..Len(ts)
    BY DEF Run
  <2>2. j < i => Joint(j, i)
    BY <1>1, <2>1
  <2>3. ~(j < i) => Joint(i, j)
    BY <1>1, <2>1
  <2>4. ~(j < a)
    <3> SUFFICES ASSUME j < a PROVE FALSE
      OBVIOUS
    <3>1. a - 1 \in j..i /\ j < i /\ a # 1
      BY <1>0, <2>1
    <3>2. QED
      BY <1>2, <2>2, <3>1
  <2>5. ~(j > b)
    <3> SUFFICES ASSUME j > b PROVE FALSE
      OBVIOUS
    <3>1. b \in i..j /\ b + 1 \in i..j /\ b # j /\ b # Len(ts) /\ ~(j < i)
      BY <1>0, <2>1
    <3>2. QED
      BY <1>2, <2>3, <3>1
  <2>6. QED
    BY <1>0, <2>1, <2>4, <2>5
<1>5. QED
  BY <1>3, <1>4

\* Every other token from a on.
Odd(a, m) == {a + 2 * (q - 1) : q \in 1..m}

LEMMA OddsCounted ==
  ASSUME NEW a \in Nat, NEW m \in Nat
  PROVE  Cardinality(Odd(a, m)) = m
<1> DEFINE f == [q \in 1..m |-> a + 2 * (q - 1)]
<1>1. f \in [1..m -> Odd(a, m)]
  BY DEF Odd
<1>2. \A x, y \in 1..m : f[x] = f[y] => x = y
  OBVIOUS
<1>3. \A z \in Odd(a, m) : \E q \in 1..m : f[q] = z
  BY DEF Odd
<1> HIDE DEF f
<1>4. f \in Bijection(1..m, Odd(a, m))
  BY <1>1, <1>2, <1>3 DEF Bijection, Injection, Surjection, IsInjective
<1>5. ExistsBijection(1..m, Odd(a, m))
  BY <1>4 DEF ExistsBijection
<1>6. QED
  BY <1>5, FS_CountingElements

(***************************************************************************)
(* Each name of a tree in place is what the editor takes it for.           *)
(***************************************************************************)
LEMMA NameEnds ==
  ASSUME NEW T, NEW ts \in Seq(T), NEW gap \in Layouts(ts), NEW a \in 1..Len(ts), NEW b \in 1..Len(ts),
         ts[b] \in Identifiers, Clear(ts, a, b)
  PROVE  b = Len(ts) \/ ts[b + 1] \notin Dotted \/ gap[b] # "none"
<1>0. Len(ts) \in Nat
  BY LenProperties
<1>1. ts[b] \in Words /\ ts[b] \in Dotted /\ ts[b] # "NUMBER"
  BY DEF Words, Dotted, Identifiers
<1>2. CASE b < Len(ts) /\ ts[b + 1] = "AS"
  <2>1. b \in 1..Len(ts) - 1 /\ ts[b + 1] \in Words /\ ts[b + 1] \in Dotted \cup {"LPAREN"}
    BY <1>0, <1>2 DEF Words, Dotted, Identifiers
  <2>2. ~CanTouch(ts[b], ts[b + 1])
    BY <1>1, <2>1 DEF CanTouch
  <2>3. QED
    BY <1>1, <2>1, <2>2, LayoutsOf
<1>3. QED
  BY <1>0, <1>2 DEF Clear

LEMMA WordSeen ==
  ASSUME NEW T, NEW ts \in Seq(T), NEW gap \in Layouts(ts), NEW a \in 1..Len(ts),
         ts[a] \in Identifiers, Clear(ts, a, a)
  PROVE  /\ Run(ts, gap, a) = {a}
         /\ ~(a < Len(ts) /\ ts[a + 1] = "LPAREN")
<1>0. Len(ts) \in Nat
  BY LenProperties
<1>1. ts[a] \in Words /\ ts[a] \in Dotted /\ ts[a] # "NUMBER"
  BY DEF Words, Dotted, Identifiers
<1>2. a = Len(ts) \/ ts[a + 1] \notin Dotted \/ gap[a] # "none"
  BY NameEnds
<1>3. a..a = {a} /\ a..a - 1 = {} /\ a \in a..Len(ts) /\ a \in a..a
  BY <1>0
<1>4. Unbroken(ts, gap, a, a)
  BY <1>1, <1>2, <1>3 DEF Clear, Unbroken
<1>5. Run(ts, gap, a) = a..a
  BY <1>3, <1>4, RunIs
<1>6. "AS" # "LPAREN"
  OBVIOUS
<1>7. QED
  BY <1>0, <1>3, <1>5, <1>6 DEF Clear

LEMMA CallSeen ==
  ASSUME NEW T, NEW ts \in Seq(T), NEW gap \in Layouts(ts), NEW a \in 1..Len(ts) - 1,
         ts[a] \in Identifiers, ts[a + 1] = "LPAREN", a = 1 \/ ts[a - 1] \notin Dotted
  PROVE  Run(ts, gap, a) = {a} /\ gap[a] \in {"none", "blank", "comment"}
<1>0. Len(ts) \in Nat /\ a \in 1..Len(ts) /\ a # Len(ts)
  BY LenProperties
<1>1. ts[a] \in Dotted
  BY DEF Words, Dotted
<1>2. ts[a + 1] \notin Dotted
  BY DottedAre
<1>3. a..a = {a} /\ a..a - 1 = {} /\ a \in a..Len(ts) /\ a \in a..a
  BY <1>0
<1>4. Unbroken(ts, gap, a, a)
  BY <1>1, <1>2, <1>3 DEF Unbroken
<1>5. Run(ts, gap, a) = a..a
  BY <1>0, <1>3, <1>4, RunIs
<1>6. QED
  BY <1>1, <1>3, <1>5, LayoutsOf

LEMMA NothingBefore ==
  ASSUME NEW ts, NEW a \in Nat
  PROVE  Chain(ts, {a}, a) = << >> /\ WellFormed(ts, {a}, a)
<1> DEFINE names == {k \in {a} : k < a /\ ts[k] \in Words}
<1>1. names = {}
  OBVIOUS
<1>2. Chain(ts, {a}, a) =
        [n \in 1..Cardinality(names) |-> CHOOSE k \in names : Cardinality({j \in names : j <= k}) = n]
  BY DEF Chain
<1> HIDE DEF names
<1>3. Cardinality(names) = 0
  BY <1>1, FS_EmptySet
<1>4. Chain(ts, {a}, a) = << >>
  BY <1>2, <1>3
<1>5. QED
  BY <1>4 DEF WellFormed

\* The tokens of a path are its names and the dots between them.
LEMMA PathTokens ==
  ASSUME NEW ts, NEW a \in Nat, NEW b \in Nat, IsPath(ts, a, b), NEW k \in a..b
  PROVE  /\ ts[k] \in Dotted
         /\ ts[k] = "DOT" => (k - a) % 2 = 1
         /\ ts[k] # "DOT" => (k - a) % 2 = 0 /\ ts[k] \in Identifiers
<1>1. IF (k - a) % 2 = 0 THEN ts[k] \in Identifiers ELSE ts[k] = "DOT"
  BY DEF IsPath
<1>2. k - a \in Nat
  OBVIOUS
<1>3. (k - a) % 2 \in {0, 1}
  BY <1>2
<1>4. "DOT" \notin Identifiers
  BY DEF Identifiers
<1>5. QED
  BY <1>1, <1>3, <1>4 DEF Dotted, Words

NamesOf(a, m) == [q \in 1..m |-> a + 2 * (q - 1)]

LEMMA ChainOfPath ==
  ASSUME NEW ts, NEW a \in Nat, NEW b \in Nat, IsPath(ts, a, b), NEW m \in Nat,
         NEW i \in a..b, i = a + 2 * m
  PROVE  /\ Chain(ts, a..b, i) = NamesOf(a, m)
         /\ WellFormed(ts, a..b, i)
<1> DEFINE names == {k \in a..b : k < i /\ ts[k] \in Words}
<1>1. ASSUME NEW k \in a..b PROVE ts[k] \in Words <=> (k - a) % 2 = 0
  <2>1. "DOT" \notin Words
    BY DEF Words, Identifiers
  <2>2. QED
    BY <2>1, PathTokens DEF Words
<1>2. names = Odd(a, m)
  <2>1. ASSUME NEW k \in names PROVE k \in Odd(a, m)
    <3>1. k \in a..b /\ k < i /\ (k - a) % 2 = 0
      BY <1>1
    <3> DEFINE q == (k - a) \div 2 + 1
    <3>2. q \in 1..m /\ k = a + 2 * (q - 1)
      BY <3>1
    <3> HIDE DEF q
    <3>3. QED
      BY <3>2 DEF Odd
  <2>2. ASSUME NEW k \in Odd(a, m) PROVE k \in names
    <3>1. PICK q \in 1..m : k = a + 2 * (q - 1)
      BY DEF Odd
    <3>2. k \in a..b /\ k < i /\ (k - a) % 2 = 0
      BY <3>1
    <3>3. QED
      BY <1>1, <3>2
  <2> HIDE DEF names
  <2>3. QED
    BY <2>1, <2>2
<1>3. Cardinality(names) = m
  BY <1>2, OddsCounted
<1>4. ASSUME NEW n \in 1..m, NEW k \in names
      PROVE  Cardinality({j \in names : j <= k}) = n <=> k = a + 2 * (n - 1)
  <2>1. PICK q \in 1..m : k = a + 2 * (q - 1)
    BY <1>2 DEF Odd
  <2>2. {j \in names : j <= k} = Odd(a, q)
    BY <1>2, <2>1 DEF Odd
  <2>3. Cardinality({j \in names : j <= k}) = q
    BY <2>2, OddsCounted
  <2> HIDE DEF names
  <2>4. QED
    BY <2>1, <2>3
<1>5. ASSUME NEW n \in 1..m
      PROVE  (CHOOSE k \in names : Cardinality({j \in names : j <= k}) = n) = a + 2 * (n - 1)
  <2> DEFINE x == a + 2 * (n - 1)
  <2>1. x \in names
    BY <1>2 DEF Odd
  <2> HIDE DEF names, x
  <2>2. \A k \in names : Cardinality({j \in names : j <= k}) = n <=> k = x
    BY <1>4 DEF x
  <2>3. (CHOOSE k \in names : Cardinality({j \in names : j <= k}) = n) = x
    BY <2>1, <2>2
  <2>4. QED
    BY <2>3 DEF x
<1>6. Chain(ts, a..b, i) = [n \in 1..m |-> a + 2 * (n - 1)]
  <2>1. Chain(ts, a..b, i) = [n \in 1..Cardinality(names) |-> CHOOSE k \in names : Cardinality({j \in names : j <= k}) = n]
    BY DEF Chain
  <2> HIDE DEF names
  <2>2. QED
    BY <1>3, <1>5, <2>1
<1>7. WellFormed(ts, a..b, i)
  <2>1. ASSUME NEW k \in a..b, k < i, ts[k] = "DOT"
        PROVE  k - 1 \in a..b /\ ts[k - 1] \in Words
    <3>1. (k - a) % 2 = 1
      BY <2>1, PathTokens
    <3>2. k - 1 \in a..b /\ (k - 1 - a) % 2 = 0
      BY <3>1
    <3>3. QED
      BY <1>1, <3>2
  <2>2. QED
    BY <2>1 DEF WellFormed
<1>8. QED
  BY <1>6, <1>7 DEF NamesOf

IsPathOf(t, a, b, n) ==
  /\ n > 1 /\ b = a + 2 * (n - 1)
  /\ t.kind = "path" /\ t.at = a
  /\ DOMAIN t.kids = 1..n /\ Len(t.kids) = n
  /\ t.kids = [i \in 1..n |-> Leaf("segment", a + 2 * (i - 1))]
  /\ Last(t.kids).at = b

LEMMA PathParts ==
  ASSUME NEW ts, NEW a \in Nat, NEW b \in Nat, IsPath(ts, a, b)
  PROVE  \E n \in Nat : IsPathOf(PathOver(a, b), a, b, n)
<1> DEFINE n == (b - a) \div 2 + 1
           kids == [i \in 1..n |-> Leaf("segment", a + 2 * (i - 1))]
           S == {kids[i] : i \in 1..n}
<1>1. b > a + 1 /\ (b - a) % 2 = 0
  BY DEF IsPath
<1>2. n \in Nat /\ n > 1 /\ b = a + 2 * (n - 1)
  BY <1>1
<1>3. PathOver(a, b) = Tree("path", a, kids)
  BY DEF PathOver
<1> HIDE DEF n
<1>4. kids \in [1..n -> S] /\ DOMAIN kids = 1..n
  OBVIOUS
<1>5. kids[n] = Leaf("segment", a + 2 * (n - 1))
  BY <1>2
<1>6. kids = [i \in 1..n |-> Leaf("segment", a + 2 * (i - 1))]
  OBVIOUS
<1> HIDE DEF kids, S
<1>7. kids \in Seq(S) /\ Len(kids) = n
  BY <1>2, <1>4
<1>8. Last(kids) = kids[n]
  BY <1>7 DEF Last
<1>9. Last(kids).at = b
  BY <1>2, <1>5, <1>8, TreesOf
<1> DEFINE t == PathOver(a, b)
<1>10. t.kind = "path" /\ t.at = a /\ t.kids = kids
  BY <1>3, TreesOf
<1> HIDE DEF t
<1>11. IsPathOf(t, a, b, n)
  BY <1>2, <1>4, <1>6, <1>7, <1>9, <1>10 DEF IsPathOf
<1>12. QED
  BY <1>2, <1>11 DEF t

LEMMA PathSeen ==
  ASSUME NEW T, NEW ts \in Seq(T), NEW gap \in Layouts(ts), NEW a \in 1..Len(ts), NEW b \in a..Len(ts),
         IsPath(ts, a, b), Clear(ts, a, b), Tight(PathOver(a, b), gap)
  PROVE  Follows(PathOver(a, b), ts, gap)
<1> DEFINE t == PathOver(a, b)
<1>0. Len(ts) \in Nat /\ a \in Nat /\ b \in Nat /\ b \in 1..Len(ts)
  BY LenProperties
<1>6. PICK n \in Nat : IsPathOf(t, a, b, n)
  BY <1>0, PathParts
<1> HIDE DEF t
<1>1. /\ n > 1 /\ b = a + 2 * (n - 1)
      /\ t.kind = "path" /\ t.at = a
      /\ DOMAIN t.kids = 1..n /\ Len(t.kids) = n
      /\ t.kids = [i \in 1..n |-> Leaf("segment", a + 2 * (i - 1))]
      /\ Last(t.kids).at = b
  BY <1>6 DEF IsPathOf
<1>2. \A i \in 1..n : t.kids[i].at = a + 2 * (i - 1)
  <2>1. ASSUME NEW i \in 1..n PROVE t.kids[i].at = a + 2 * (i - 1)
    <3> DEFINE at == a + 2 * (i - 1)
    <3>1. t.kids[i] = Leaf("segment", at)
      BY <1>1
    <3> HIDE DEF at
    <3>2. t.kids[i].at = at
      BY <3>1, TreesOf
    <3>3. QED
      BY <3>2 DEF at
  <2>2. QED
    BY <2>1
<1>3. Unbroken(ts, gap, a, b)
  <2>1. \A k \in a..b : ts[k] \in Dotted
    BY <1>0, PathTokens
  <2>2. \A k \in a..b - 1 : gap[k] = "none"
    BY <1>1 DEF Tight, t
  <2>3. ts[b] \in Identifiers
    <3>1. b \in a..b /\ (b - a) % 2 = 0
      BY <1>0, <1>1
    <3>2. QED
      BY <3>1 DEF IsPath
  <2>4. b = Len(ts) \/ ts[b + 1] \notin Dotted \/ gap[b] # "none"
    BY <1>0, <2>3, NameEnds
  <2>5. a = 1 \/ ts[a - 1] \notin Dotted
    BY DEF Clear
  <2>6. QED
    BY <2>1, <2>2, <2>4, <2>5 DEF Unbroken
<1>4. ASSUME NEW m \in 1..n
      PROVE  LET chain == [q \in 1..m - 1 |-> t.kids[q].at]
             IN /\ SymbolAt(ts, gap, t.kids[m].at) =
                     Symbol(IF m < Len(t.kids) THEN "relationship" ELSE "related_field", chain)
                /\ CompletionChain(ts, gap, t.kids[m].at) = chain
  <2> DEFINE chain == [q \in 1..m - 1 |-> t.kids[q].at]
             p == m - 1
             i == a + 2 * p
             dots == {k \in a..b : ts[k] = "DOT"}
  <2>1. t.kids[m].at = i /\ i \in a..b /\ p \in Nat /\ p <= n - 1
    BY <1>0, <1>1, <1>2
  <2>2. chain = [q \in 1..p |-> a + 2 * (q - 1)]
    <3>1. \A q \in 1..p : q \in 1..n
      BY <1>1
    <3>2. QED
      BY <1>2, <3>1
  <2> HIDE DEF p, chain
  <2>11. i = a + 2 * p
    OBVIOUS
  <2> HIDE DEF i
  <2>3. Chain(ts, a..b, i) = chain /\ WellFormed(ts, a..b, i)
    <3>1. Chain(ts, a..b, i) = NamesOf(a, p) /\ WellFormed(ts, a..b, i)
      BY <1>0, <2>1, <2>11, ChainOfPath
    <3>2. QED
      BY <2>2, <3>1 DEF NamesOf
  <2>4. Run(ts, gap, i) = a..b
    BY <1>3, <2>1, RunIs
  <2>5. ASSUME NEW k \in a..b, (k - a) % 2 = 1 PROVE k \in dots
    BY <1>0, <2>5, PathTokens
  <2>6. dots # {}
    <3> DEFINE k == a + 1
    <3>1. k \in a..b /\ (k - a) % 2 = 1
      BY <1>0, <1>1
    <3> HIDE DEF k
    <3>2. QED
      BY <2>5, <3>1
  <2>7. (\E k \in dots : k > i) <=> m < n
    <3>1. ASSUME m < n PROVE i + 1 \in dots /\ i + 1 > i
      <4> DEFINE k == i + 1
      <4>1. k \in a..b /\ (k - a) % 2 = 1 /\ k > i
        BY <1>0, <1>1, <2>1, <2>11, <3>1 DEF p
      <4> HIDE DEF k
      <4>3. k \in dots /\ k > i
        BY <2>5, <4>1
      <4>2. QED
        BY <4>3 DEF k
    <3>2. ASSUME NEW k \in dots, k > i PROVE m < n
      BY <1>0, <1>1, <2>1, <2>11, <3>2 DEF p
    <3> HIDE DEF dots
    <3>3. QED
      BY <3>1, <3>2
  <2>8. SymbolAt(ts, gap, i) = Symbol(IF m < n THEN "relationship" ELSE "related_field", chain)
    <3>1. SymbolAt(ts, gap, i) =
            CASE dots = {} /\ ts[i] = "TRUE" -> NoSymbol
              [] dots = {} /\ ts[i] # "TRUE" ->
                   Symbol(IF IsFunctionCall(ts, gap, i) THEN "function" ELSE "base_column", << >>)
              [] dots # {} /\ ~WellFormed(ts, a..b, i) -> NoSymbol
              [] OTHER -> Symbol(IF \E k \in dots : k > i THEN "relationship" ELSE "related_field",
                                 Chain(ts, a..b, i))
      BY <2>4 DEF SymbolAt
    <3> HIDE DEF dots
    <3>2. QED
      BY <2>3, <2>6, <2>7, <3>1
  <2>9. CompletionChain(ts, gap, i) = chain
    BY <2>3, <2>4 DEF CompletionChain
  <2>10. QED
    BY <1>1, <2>1, <2>8, <2>9 DEF chain, i
<1>5. QED
  BY <1>1, <1>4 DEF Follows, t

\* A tree in place is followed by its names.
LEMMA MadeFollows ==
  ASSUME NEW T, NEW ts \in Seq(T), NEW gap \in Layouts(ts), NEW t, Made(ts, t)
  PROVE  Follows(t, ts, gap)
<1>0. Len(ts) \in Nat
  BY LenProperties
<1>1. PICK a \in 1..Len(ts) : \E b \in a..Len(ts) : Clear(ts, a, b) /\ MadeAt(ts, a, b, t)
  BY DEF Made
<1>2. PICK b \in a..Len(ts) : Clear(ts, a, b) /\ MadeAt(ts, a, b, t)
  BY <1>1
<1>3. CASE a = b /\ t \in Word(ts, a)
  <2>1. CASE ts[a] \in {"NUMBER", "STRING", "TRUE"}
    <3>1. t.kind = "literal" /\ t.at = a
      BY <1>3, <2>1, TreesOf DEF Word
    <3>2. CASE ts[a] = "TRUE"
      <4>1. ts[a] \in Identifiers
        BY <3>2 DEF Identifiers
      <4>2. Run(ts, gap, a) = {a}
        BY <1>2, <1>3, <4>1, WordSeen
      <4>3. {k \in {a} : ts[k] = "DOT"} = {}
        BY <3>2
      <4>4. SymbolAt(ts, gap, a) = NoSymbol
        BY <3>2, <4>2, <4>3 DEF SymbolAt
      <4>5. QED
        BY <3>1, <4>4 DEF Follows
    <3>3. CASE ts[a] # "TRUE"
      BY <3>1, <3>3 DEF Follows
    <3>4. QED
      BY <3>2, <3>3
  <2>2. CASE ts[a] \notin {"NUMBER", "STRING", "TRUE"}
    <3>1. ts[a] \in Identifiers /\ t = Leaf("column", a)
      BY <1>3, <2>2 DEF Word
    <3>2. t.kind = "column" /\ t.at = a
      BY <3>1, TreesOf
    <3>3. Run(ts, gap, a) = {a} /\ ~IsFunctionCall(ts, gap, a)
      BY <1>2, <1>3, <3>1, WordSeen DEF IsFunctionCall
    <3>4. {k \in {a} : ts[k] = "DOT"} = {}
      BY <3>1 DEF Identifiers
    <3>5. SymbolAt(ts, gap, a) = Symbol("base_column", << >>)
      BY <2>2, <3>3, <3>4 DEF SymbolAt
    <3>6. CompletionChain(ts, gap, a) = << >>
      BY <1>0, <3>3, NothingBefore DEF CompletionChain
    <3>7. QED
      BY <3>2, <3>5, <3>6 DEF Follows
  <2>3. QED
    BY <2>1, <2>2
<1>4. CASE t.kind \in {"negate", "binary"}
  BY <1>4 DEF Follows
<1>5. CASE t.kind = "call" /\ t.at = a /\ a < b /\ ts[a] \in Identifiers /\ ts[a + 1] = "LPAREN"
  <2>1. ASSUME ts[a] # "TRUE", gap[a] # "comment"
        PROVE  SymbolAt(ts, gap, a) = Symbol("function", << >>)
    <3>1. a \in 1..Len(ts) - 1 /\ a < Len(ts)
      BY <1>0, <1>5
    <3>2. a = 1 \/ ts[a - 1] \notin Dotted
      BY <1>2 DEF Clear
    <3>3. Run(ts, gap, a) = {a} /\ gap[a] \in {"none", "blank"}
      BY <1>5, <2>1, <3>1, <3>2, CallSeen
    <3>4. IsFunctionCall(ts, gap, a)
      BY <1>5, <3>1, <3>3 DEF IsFunctionCall
    <3>5. {k \in {a} : ts[k] = "DOT"} = {}
      BY <1>5 DEF Identifiers
    <3>6. QED
      BY <2>1, <3>3, <3>4, <3>5 DEF SymbolAt
  <2>2. QED
    BY <1>5, <2>1 DEF Follows
<1>6. CASE IsPath(ts, a, b) /\ t = PathOver(a, b)
  <2>1. CASE Tight(t, gap)
    BY <1>2, <1>6, <2>1, PathSeen
  <2>2. CASE ~Tight(t, gap)
    <3>1. t.kind = "path"
      BY <1>6, TreesOf DEF PathOver
    <3>2. QED
      BY <2>2, <3>1 DEF Follows
  <2>3. QED
    BY <2>1, <2>2
<1>7. QED
  BY <1>2, <1>3, <1>4, <1>5, <1>6 DEF MadeAt

LEMMA InPlaceFollows ==
  ASSUME NEW T, NEW ts \in Seq(T), NEW gap \in Layouts(ts), NEW t, InPlace(ts, t)
  PROVE  Follows(t, ts, gap)
<1>1. CASE t.kind = "segment" /\ t.kids = << >>
  BY <1>1 DEF Follows
<1>2. ASSUME NEW l, NEW a, NEW b, Standing(ts, l, a, b, t) PROVE Follows(t, ts, gap)
  <2>1. Made(ts, t)
    BY <1>2, StandingMade
  <2>2. QED
    BY <2>1, MadeFollows
<1>3. QED
  BY <1>1, <1>2 DEF InPlace

LEMMA KidsInPlace ==
  ASSUME NEW T, NEW ts \in Seq(T), NEW t, InPlace(ts, t), NEW x \in ToSet(t.kids)
  PROVE  InPlace(ts, x)
<1>1. CASE t.kind = "segment" /\ t.kids = << >>
  BY <1>1 DEF ToSet
<1>2. ASSUME NEW l, NEW a, NEW b, Standing(ts, l, a, b, t) PROVE InPlace(ts, x)
  <2>1. Listing(t.kids) /\ \A i \in 1..Len(t.kids) : InPlace(ts, t.kids[i])
    BY <1>2, StandingMade DEF Made
  <2>2. PICK i \in DOMAIN t.kids : x = t.kids[i]
    BY DEF ToSet
  <2>3. i \in 1..Len(t.kids)
    BY <2>1, <2>2 DEF Listing
  <2>4. QED
    BY <2>1, <2>2, <2>3
<1>3. QED
  BY <1>1, <1>2 DEF InPlace

\* The items of what is returned are in place.
LEMMA ItemsInPlace ==
  ASSUME NEW T, NEW ts \in Seq(T), NEW m \in {"formula", "document"}, ts # << >>,
         NEW x \in Parses(m, ts), NEW i \in DOMAIN x
  PROVE  InPlace(ts, x[i].expr)
<1>0. Len(ts) \in Nat /\ Len(ts) > 0 /\ 1 \in 1..Len(ts) /\ Len(ts) \in 1..Len(ts)
  BY LenProperties
<1>1. CASE m = "formula"
  <2>1. PICK d \in Over(ts, 1, 1, Len(ts)) : x = <<Item(d, 0)>>
    BY <1>1 DEF Parses, Over
  <2>2. x[i].expr = d
    BY <2>1 DEF Item
  <2>3. Standing(ts, 1, 1, Len(ts), d)
    BY <1>0, <2>1 DEF Standing, Clear
  <2>4. QED
    BY <2>2, <2>3 DEF InPlace
<1>2. CASE m = "document"
  <2> DEFINE L == ItemLists(ts, Derivations(ts))
             n == Len(ts)
  <2>1. x \in L[n]
    BY <1>2 DEF Parses
  <2>2. AreLists(ts, Items(ts), L, 1)
    BY <1>0, ItemsAreLists
  <2> HIDE DEF L
  <2>3. Listing(x) /\ \A j \in 1..Len(x) : ElementAt(ts, Items(ts), 1, n, x[j])
    BY <1>0, <2>1, <2>2, ElementsOf
  <2>4. i \in 1..Len(x)
    BY <2>3 DEF Listing
  <2> DEFINE y == x[i]
  <2>5. ElementAt(ts, Items(ts), 1, n, y)
    BY <2>3, <2>4
  <2> HIDE DEF y
  <2>6. PICK f \in 1..n : \E u \in f..n :
          /\ y \in Items(ts)[<<f, u>>]
          /\ f = 1 \/ ts[f - 1] = "COMMA"
          /\ u = n \/ ts[u + 1] = "COMMA"
    BY <2>5 DEF ElementAt
  <2>7. PICK u \in f..n :
          /\ y \in Items(ts)[<<f, u>>]
          /\ f = 1 \/ ts[f - 1] = "COMMA"
          /\ u = n \/ ts[u + 1] = "COMMA"
    BY <2>6
  <2>8. f \in 1..Len(ts) /\ u \in f..Len(ts) /\ u \in 0..Len(ts)
    BY <1>0
  <2>9. y \in ItemsOver(ts, Derivations(ts), f, u)
    BY <2>7, <2>8 DEF Items
  <2>10. f = 1 \/ ts[f - 1] \notin Dotted
    BY <2>7, DottedAre
  <2>11. ASSUME NEW d \in Over(ts, 1, f, u), y = Item(d, 0) PROVE InPlace(ts, y.expr)
    <3>1. y.expr = d
      BY <2>11 DEF Item
    <3>2. Clear(ts, f, u)
      BY <2>7, <2>10, DottedAre DEF Clear
    <3>3. Standing(ts, 1, f, u, d)
      BY <2>8, <3>2 DEF Standing
    <3>4. QED
      BY <3>1, <3>3 DEF InPlace
  <2>12. ASSUME u > f + 1, ts[u - 1] = "AS", NEW d \in Over(ts, 1, f, u - 2), y = Item(d, u)
         PROVE  InPlace(ts, y.expr)
    <3> DEFINE v == u - 2
    <3>1. y.expr = d
      BY <2>12 DEF Item
    <3>2. v \in f..Len(ts) /\ ts[v + 1] = "AS" /\ d \in Over(ts, 1, f, v)
      BY <2>8, <2>12
    <3> HIDE DEF v
    <3>3. Clear(ts, f, v)
      BY <2>10, <3>2 DEF Clear
    <3>4. Standing(ts, 1, f, v, d)
      BY <2>8, <3>2, <3>3 DEF Standing
    <3>5. QED
      BY <3>1, <3>4 DEF InPlace
  <2>13. InPlace(ts, y.expr)
    BY <2>9, <2>11, <2>12, InItems
  <2>14. QED
    BY <2>13 DEF y
<1>3. QED
  BY <1>1, <1>2

(***************************************************************************)
(* All trees of the text: a function of the steps down from the items.     *)
(***************************************************************************)
Roots == {items[i].expr : i \in DOMAIN items}
KidsOf(trees) == UNION {ToSet(t.kids) : t \in trees}
Level(D, n) == IF n = 0 THEN Roots ELSE D[n - 1] \cup KidsOf(D[n - 1])

LEMMA NodesExist ==
  ASSUME NEW depth \in Nat
  PROVE  \E D : D = [n \in 0..depth |-> Level(D, n)]
<1> DEFINE Good(D, n) == \A k \in 0..n : D[k] = Level(D, k)
           S == {n \in Nat : \E D : D = [k \in 0..n |-> D[k]] /\ Good(D, n)}
<1>1. 0 \in S
  <2> DEFINE D == [k \in 0..0 |-> Roots]
  <2>1. D = [k \in 0..0 |-> D[k]]
    OBVIOUS
  <2>2. Good(D, 0)
    BY DEF Level
  <2> HIDE DEF D, Good
  <2>3. QED
    BY <2>1, <2>2
<1>2. ASSUME NEW n \in Nat, n < depth, n \in S PROVE n + 1 \in S
  <2>1. PICK D : D = [k \in 0..n |-> D[k]] /\ Good(D, n)
    BY <1>2
  <2> DEFINE M == [k \in 0..n + 1 |-> IF k = n + 1 THEN Level(D, k) ELSE D[k]]
             m == n + 1
  <2>2. M = [k \in 0..m |-> M[k]]
    OBVIOUS
  <2>3. \A k \in 0..n : M[k] = D[k]
    OBVIOUS
  <2>4. M[m] = Level(D, m)
    OBVIOUS
  <2>5. m \in Nat /\ m - 1 \in 0..n /\ \A k \in 0..m : k = m \/ k \in 0..n
    OBVIOUS
  <2>6. \A k \in 0..n : k - 1 \in 0..n \/ k = 0
    OBVIOUS
  <2> HIDE DEF M
  <2>7. Level(M, m) = Level(D, m)
    BY <2>3, <2>5 DEF Level
  <2>8. ASSUME NEW k \in 0..n PROVE Level(M, k) = Level(D, k)
    BY <2>3, <2>6 DEF Level
  <2> HIDE DEF m
  <2>9. Good(M, m)
    <3>1. \A k \in 0..n : D[k] = Level(D, k)
      BY <2>1
    <3>2. \A k \in 0..m : M[k] = Level(M, k)
      BY <2>3, <2>4, <2>5, <2>7, <2>8, <3>1
    <3>3. QED
      BY <3>2
  <2> HIDE DEF Good
  <2>10. m \in S
    BY <2>2, <2>5, <2>9
  <2> HIDE DEF S
  <2>11. QED
    BY <2>10 DEF m
<1>3. depth \in S
  <2> HIDE DEF S
  <2>1. 0..depth \subseteq S
    BY <1>1, <1>2, CountUp
  <2>2. QED
    BY <2>1
<1>4. PICK D : D = [k \in 0..depth |-> D[k]] /\ Good(D, depth)
  BY <1>3
<1>5. [k \in 0..depth |-> D[k]] = [k \in 0..depth |-> Level(D, k)]
  BY <1>4
<1>6. D = [k \in 0..depth |-> Level(D, k)]
  BY <1>4, <1>5, Zenon
<1>7. QED
  BY <1>6

LEMMA NodesAre ==
  ASSUME Len(tokens) \in Nat
  PROVE  \E D : D = [n \in 0..Len(tokens) |-> Level(D, n)] /\ Nodes = D[Len(tokens)]
<1> DEFINE D == CHOOSE D : D = [n \in 0..Len(tokens) |-> Level(D, n)]
<1>1. D = [n \in 0..Len(tokens) |-> Level(D, n)]
  BY NodesExist
<1>2. Nodes = D[Len(tokens)]
  BY DEF Nodes, Level, Roots, KidsOf
<1> HIDE DEF D
<1>3. QED
  BY <1>1, <1>2

LEMMA NodesInPlace ==
  ASSUME NEW T, NEW ts \in Seq(T), Len(tokens) \in Nat,
         \A i \in DOMAIN items : InPlace(ts, items[i].expr)
  PROVE  \A t \in Nodes : InPlace(ts, t)
<1> DEFINE depth == Len(tokens)
<1>1. PICK D : D = [n \in 0..depth |-> Level(D, n)] /\ Nodes = D[depth]
  BY NodesAre
<1> HIDE DEF depth
<1> DEFINE S == {n \in 0..depth : \A t \in D[n] : InPlace(ts, t)}
<1>2. depth \in Nat
  BY DEF depth
<1>3. \A n \in 0..depth : D[n] = Level(D, n)
  BY <1>1
<1>4. 0 \in S
  <2>1. 0 \in 0..depth /\ D[0] = Roots
    <3>1. 0 \in 0..depth
      BY <1>2
    <3>2. D[0] = Level(D, 0)
      BY <1>3, <3>1
    <3>3. Level(D, 0) = Roots
      BY DEF Level
    <3>4. QED
      BY <3>1, <3>2, <3>3
  <2>2. \A t \in Roots : InPlace(ts, t)
    BY DEF Roots
  <2>3. QED
    BY <2>1, <2>2
<1>5. ASSUME NEW n \in Nat, n < depth, n \in S PROVE n + 1 \in S
  <2> DEFINE m == n + 1
  <2>1. m \in 0..depth /\ m # 0 /\ m - 1 = n
    BY <1>2, <1>5
  <2> HIDE DEF m
  <2>2. D[m] = D[n] \cup KidsOf(D[n])
    BY <1>3, <2>1 DEF Level
  <2>3. ASSUME NEW t \in KidsOf(D[n]) PROVE InPlace(ts, t)
    <3>1. PICK u \in D[n] : t \in ToSet(u.kids)
      BY DEF KidsOf
    <3>2. InPlace(ts, u)
      BY <1>5, <3>1
    <3>3. QED
      BY <3>1, <3>2, KidsInPlace
  <2>4. \A t \in D[m] : InPlace(ts, t)
    BY <1>5, <2>2, <2>3
  <2>5. m \in S
    BY <2>1, <2>4
  <2> HIDE DEF S
  <2>6. QED
    BY <2>5 DEF m
<1>6. depth \in S
  <2> HIDE DEF S
  <2>1. 0..depth \subseteq S
    BY <1>2, <1>4, <1>5, CountUp
  <2>2. QED
    BY <1>2, <2>1
<1>7. QED
  BY <1>1, <1>6

(***************************************************************************)
(* Hover, definition and completion (symbols.go, completion.go) look only  *)
(* at the characters around the cursor.  In a text of any length that the  *)
(* parser accepts, however deep its trees and however it is written, they  *)
(* take each name for what it is in the tree the parser returns: a column, *)
(* a function, or a step of a path with the chain that leads to it.        *)
(***************************************************************************)
THEOREM EditorFollowsTheTree == Spec => []SymbolsFollowTheTree
<1>1. ASSUME TypeInv, Sound PROVE SymbolsFollowTheTree
  <2> DEFINE ts == Front(tokens)
  <2> SUFFICES ASSUME outcome = Parsed, NEW t \in Nodes, NEW gap \in Layouts(ts)
               PROVE  Follows(t, ts, gap)
    BY DEF SymbolsFollowTheTree
  <2>1. /\ ts \in Seq(Lexicon) /\ ts # << >>
        /\ mode \in {"formula", "document"} /\ items \in Parses(mode, ts)
    BY <1>1, ParsedItems
  <2> HIDE DEF ts
  <2>2. \A i \in DOMAIN items : InPlace(ts, items[i].expr)
    BY <2>1, ItemsInPlace
  <2>3. Len(tokens) \in Nat
    BY <1>1 DEF TypeInv, TextOK
  <2>4. InPlace(ts, t)
    BY <2>1, <2>2, <2>3, NodesInPlace
  <2>5. QED
    BY <2>1, <2>4, InPlaceFollows
<1>2. QED
  BY <1>1, TypeInvariant, SoundInvariant, PTL

-----------------------------------------------------------------------------
(***************************************************************************)
(* What the tokens in front of the parser tell, by themselves: an opening  *)
(* parenthesis makes a call of a name but not of a path, and a dot makes a *)
(* path of a name that is no constant.                                     *)
(***************************************************************************)
BehindDot(ts, i) == i > 1 /\ ts[i - 1] = "DOT"

MayFollow(ts, i) ==
  /\ ts[i] = "LPAREN" => /\ ts[i - 1] \notin {"NUMBER", "STRING", "RPAREN"}
                         /\ ts[i - 1] \in Identifiers => ~BehindDot(ts, i - 1)
  /\ ts[i] = "DOT" => /\ ts[i - 1] \in Identifiers
                      /\ ts[i - 1] = "TRUE" => BehindDot(ts, i - 1)

Ended == Current \in {"LPAREN", "DOT"} => ~MayFollow(tokens, Pos)

NoOperatorFrom(l) == \A k \in l..3 : Current \notin Operators[k]

Settled ==
  /\ label = "start" => Pos = 1
  /\ label = "item" => Pos = 1 \/ tokens[Pos - 1] = "COMMA"
  /\ label \in {"factor", "arguments"} => ~BehindDot(tokens, Pos)
  /\ label = "name" => tokens[Pos - 1] \in Identifiers /\ ~BehindDot(tokens, Pos - 1)
  /\ label = "segment" => BehindDot(tokens, Pos)
  /\ label = "dot" => BehindDot(tokens, Pos - 1) /\ tokens[Pos - 1] \in Identifiers
  /\ label = "next_item" => tokens[Pos - 1] = "COMMA"
  /\ label \in {"operand", "loop", "value"} => Ended
  /\ label = "loop" => NoOperatorFrom(level + 1)
  /\ label = "value" => NoOperatorFrom(1)
  /\ label = "separator" /\ ~AfterAlias => Ended /\ NoOperatorFrom(1) /\ Current # "AS"
  /\ label = "factor" /\ Top = Leaf("call", Pos - 2) /\ tokens[Pos - 1] = "LPAREN" => Current # "RPAREN"

\* At the start of an item no call waits.
LEMMA SettledAtItem ==
  ASSUME TypeInv, Pos \in Nat \ {0}, Pos = 1 \/ tokens[Pos - 1] = "COMMA",
         tokens' = tokens, label' = "factor", stack' = stack
  PROVE  Settled'
<1>1. ~BehindDot(tokens, Pos) /\ Pos' = Pos /\ Top' = Top
  BY DEF BehindDot, Pos, Top
<1>2. ~(Top = Leaf("call", Pos - 2) /\ tokens[Pos - 1] = "LPAREN")
  <2>1. CASE Pos = 1
    <3>1. Leaf("call", Pos - 2).kind = "call" /\ Leaf("call", Pos - 2).at = Pos - 2
      BY TreesOf
    <3>2. QED
      BY <2>1, <3>1, TopIsLast DEF Pos
  <2>2. QED
    BY <2>1
<1>3. QED
  BY <1>1, <1>2 DEF Settled, BehindDot

LEMMA ReadOn ==
  ASSUME TypeInv, label \notin {"new", "done"}, Current # "EOF",
         NEW l \in Labels \ {"new", "done"}, ReadToken(l)
  PROVE  /\ Pos \in Nat \ {0} /\ Pos' = Pos + 1 /\ label' \in {l, "done"}
         /\ tokens'[Pos] = Current /\ (Pos > 1 => tokens'[Pos - 1] = tokens[Pos - 1])
         /\ Current' = tokens'[Pos + 1]
<1>1. /\ tokens' \in Seq(Lexicon) /\ Len(tokens) \in Nat /\ Len(tokens') = Len(tokens) + 1
      /\ \A i \in 1..Len(tokens) : tokens'[i] = tokens[i]
      /\ label' \in {l, "done"}
  BY AfterReadToken DEF TypeInv
<1>2. Len(tokens) >= 1
  BY PosInText
<1>3. Len(tokens) \in 1..Len(tokens) /\ (Len(tokens) > 1 => Len(tokens) - 1 \in 1..Len(tokens))
  BY <1>1, <1>2
<1>4. QED
  BY <1>1, <1>2, <1>3 DEF Pos, Current, Last

\* The end of an operand: what was read last, and what comes now, make no call and no path.
LEMMA EndedByRead ==
  ASSUME TypeInv, label \notin {"new", "done"}, Current # "EOF",
         NEW l \in Labels \ {"new", "done"}, ReadToken(l), Current \in {"NUMBER", "STRING", "RPAREN"}
  PROVE  Ended'
<1>1. Pos \in Nat \ {0} /\ Pos' = Pos + 1 /\ tokens'[Pos] = Current /\ Current' = tokens'[Pos + 1]
  BY ReadOn
<1>2. Pos' - 1 = Pos /\ tokens'[Pos' - 1] = Current /\ Current' = tokens'[Pos']
  BY <1>1
<1>3. Current \notin Identifiers
  BY DEF Identifiers
<1>4. Current' \in {"LPAREN", "DOT"} => ~MayFollow(tokens', Pos')
  BY <1>2, <1>3 DEF MayFollow
<1>5. QED
  BY <1>4 DEF Ended, MayFollow, BehindDot

LEMMA SettledFactor == TypeInv /\ Settled /\ Factor => Settled'
<1> SUFFICES ASSUME TypeInv, Settled, Factor PROVE Settled'
  OBVIOUS
<1>0. label \in {"factor", "name", "segment", "dot"} /\ label \notin {"new", "done"}
      /\ Pos \in Nat \ {0} /\ Current = tokens[Pos]
  <2>1. label \in {"factor", "name", "segment", "dot"} /\ label \notin {"new", "done"}
    BY DEF Factor, Literal, Negate, OpenParen, FactorFails, Name, OpenCall, Constant, OpenPath, Column,
           Segment, SegmentMissing, Dot
  <2>2. QED
    BY <2>1, PosInText DEF Pos, Current, Last
<1>1. /\ "operand" \in Labels \ {"new", "done"} /\ "factor" \in Labels \ {"new", "done"}
      /\ "name" \in Labels \ {"new", "done"} /\ "arguments" \in Labels \ {"new", "done"}
      /\ "segment" \in Labels \ {"new", "done"} /\ "dot" \in Labels \ {"new", "done"}
  BY DEF Labels
<1>2. CASE Literal
  <2>1. ReadToken("operand") /\ Current \in {"NUMBER", "STRING", "RPAREN"} /\ Current # "EOF"
    BY <1>2 DEF Literal
  <2>2. Ended' /\ label' \in {"operand", "done"}
    BY <1>0, <1>1, <2>1, EndedByRead, ReadOn
  <2>3. QED
    BY <2>2 DEF Settled
<1>3. CASE Negate \/ OpenParen
  <2>1. PICK kind \in {"negate", "paren"} :
          Current \in {"MINUS", "LPAREN"} /\ stack' = Append(stack, Leaf(kind, Pos)) /\ ReadToken("factor")
    BY <1>3 DEF Negate, OpenParen, OpenFrame, Push
  <2>2. Current # "EOF" /\ Current # "DOT"
    BY <2>1
  <2>3. Pos' = Pos + 1 /\ label' \in {"factor", "done"} /\ tokens'[Pos] = Current
    BY <1>0, <1>1, <2>1, <2>2, ReadOn
  <2>4. ~BehindDot(tokens', Pos')
    BY <1>0, <2>2, <2>3 DEF BehindDot
  <2>5. Top' = Leaf(kind, Pos)
    BY <2>1, ListingGrows DEF Top, Last, TypeInv, StackOK
  <2>6. Top' # Leaf("call", Pos' - 2)
    BY <2>1, <2>5, TreesOf
  <2>7. QED
    BY <2>3, <2>4, <2>6 DEF Settled, BehindDot
<1>4. CASE FactorFails \/ SegmentMissing
  BY <1>4 DEF FactorFails, SegmentMissing, Fail, FailAt, Settled
<1>5. CASE Name
  <2>1. label = "factor" /\ Current \in Identifiers /\ Current # "EOF" /\ ReadToken("name")
    BY <1>5 DEF Name, Identifiers
  <2>2. /\ Pos' = Pos + 1 /\ label' \in {"name", "done"} /\ tokens'[Pos] = Current
        /\ Pos > 1 => tokens'[Pos - 1] = tokens[Pos - 1]
    BY <1>0, <1>1, <2>1, ReadOn
  <2>3. ~BehindDot(tokens, Pos)
    BY <2>1 DEF Settled
  <2>4. Pos' - 1 = Pos /\ ~BehindDot(tokens', Pos' - 1) /\ tokens'[Pos' - 1] \in Identifiers
    BY <1>0, <2>1, <2>2, <2>3 DEF BehindDot
  <2>5. QED
    BY <2>2, <2>4 DEF Settled, BehindDot
<1>6. CASE OpenCall
  <2>1. Current = "LPAREN" /\ ReadToken("arguments")
    BY <1>6 DEF OpenCall
  <2>2. Pos' = Pos + 1 /\ label' \in {"arguments", "done"} /\ tokens'[Pos] = Current
    BY <1>0, <1>1, <2>1, ReadOn
  <2>3. ~BehindDot(tokens', Pos')
    BY <1>0, <2>1, <2>2 DEF BehindDot
  <2>4. QED
    BY <2>2, <2>3 DEF Settled, BehindDot
<1>7. CASE Constant \/ Column
  <2>1. label = "name" /\ tokens' = tokens /\ label' = "operand" /\ Current # "LPAREN"
        /\ (Current # "DOT" \/ tokens[node.at] = "TRUE")
    BY <1>7 DEF Constant, Column, IsConstant, Goto
  <2>2. node.at = Pos - 1 /\ ~BehindDot(tokens, Pos - 1)
    BY <2>1 DEF TypeInv, StackOK, Pos, Settled
  <2>3. Current \in {"LPAREN", "DOT"} => ~MayFollow(tokens, Pos)
    BY <1>0, <2>1, <2>2 DEF MayFollow
  <2>4. Ended'
    BY <2>1, <2>3 DEF Ended, Current, Pos, MayFollow, BehindDot
  <2>5. QED
    BY <2>1, <2>4 DEF Settled
<1>8. CASE OpenPath \/ (Dot /\ Current = "DOT")
  <2>1. Current = "DOT" /\ ReadToken("segment")
    BY <1>8 DEF OpenPath, Dot
  <2>2. Pos' = Pos + 1 /\ label' \in {"segment", "done"} /\ tokens'[Pos] = Current
    BY <1>0, <1>1, <2>1, ReadOn
  <2>3. BehindDot(tokens', Pos')
    BY <1>0, <2>1, <2>2 DEF BehindDot
  <2>4. QED
    BY <2>2, <2>3 DEF Settled, BehindDot
<1>9. CASE Segment
  <2>1. label = "segment" /\ Current \in Identifiers /\ Current # "EOF" /\ ReadToken("dot")
    BY <1>9 DEF Segment, Identifiers
  <2>2. /\ Pos' = Pos + 1 /\ label' \in {"dot", "done"} /\ tokens'[Pos] = Current
        /\ Pos > 1 => tokens'[Pos - 1] = tokens[Pos - 1]
    BY <1>0, <1>1, <2>1, ReadOn
  <2>3. BehindDot(tokens, Pos)
    BY <2>1 DEF Settled
  <2>4. Pos' - 1 = Pos /\ BehindDot(tokens', Pos' - 1) /\ tokens'[Pos' - 1] \in Identifiers
    BY <1>0, <2>1, <2>2, <2>3 DEF BehindDot
  <2>5. QED
    BY <2>2, <2>4 DEF Settled, BehindDot
<1>10. CASE Dot /\ ~(Current = "DOT")
  <2>1. label = "dot" /\ tokens' = tokens /\ label' = "operand" /\ Current # "DOT"
    BY <1>10 DEF Dot, Goto
  <2>2. BehindDot(tokens, Pos - 1) /\ tokens[Pos - 1] \in Identifiers
    BY <2>1 DEF Settled
  <2>3. Current \in {"LPAREN", "DOT"} => ~MayFollow(tokens, Pos)
    BY <1>0, <2>1, <2>2 DEF MayFollow
  <2>4. Ended'
    BY <2>1, <2>3 DEF Ended, Current, Pos, MayFollow, BehindDot
  <2>5. QED
    BY <2>1, <2>4 DEF Settled
<1>11. QED
  BY <1>2, <1>3, <1>4, <1>5, <1>6, <1>7, <1>8, <1>9, <1>10 DEF Factor

LEMMA SettledLoops == TypeInv /\ Settled /\ Loops => Settled'
<1> SUFFICES ASSUME TypeInv, Settled, Loops PROVE Settled'
  OBVIOUS
<1>1. tokens' = tokens => (Ended => Ended') /\ Current' = Current
  BY DEF Ended, Current, Pos, MayFollow, BehindDot
<1>2. level \in 1..3 /\ NoOperatorFrom(3 + 1)
  BY DEF TypeInv, PlaceOK, NoOperatorFrom
<1>3. CASE CloseNegate
  BY <1>1, <1>3 DEF CloseNegate, Settled
<1>4. CASE EndFactor
  <2>1. label = "operand" /\ tokens' = tokens /\ level' = 3 /\ label' = "loop"
    BY <1>4 DEF EndFactor, Goto
  <2>2. Ended' /\ NoOperatorFrom(level + 1)'
    BY <1>1, <1>2, <2>1 DEF Settled, NoOperatorFrom
  <2>3. QED
    BY <2>1, <2>2 DEF Settled
<1>5. CASE CloseBinary
  BY <1>1, <1>5 DEF CloseBinary, Settled, NoOperatorFrom
<1>6. CASE OpenBinary
  <2>1. PICK frame : frame = Tree("binary", Pos, <<node>>)
    OBVIOUS
  <2>2. /\ label = "loop" /\ Current \in Operators[level] /\ stack' = Append(stack, frame) /\ ReadToken("factor")
    BY <1>6, <2>1 DEF OpenBinary, Push
  <2>3. Current \notin {"EOF", "DOT"}
    BY <1>2, <2>2, OperatorsApart
  <2>4. Pos \in Nat \ {0} /\ Pos' = Pos + 1 /\ label' \in {"factor", "done"} /\ tokens'[Pos] = Current
    <3>1. "factor" \in Labels \ {"new", "done"}
      BY DEF Labels
    <3>2. QED
      BY <2>2, <2>3, <3>1, ReadOn
  <2>5. ~BehindDot(tokens', Pos')
    BY <2>3, <2>4 DEF BehindDot
  <2>6. Top' = frame
    BY <2>2, ListingGrows DEF Top, Last, TypeInv, StackOK
  <2>7. Top' # Leaf("call", Pos' - 2)
    BY <2>1, <2>6, TreesOf
  <2>8. QED
    BY <2>4, <2>5, <2>7 DEF Settled, BehindDot
<1>7. CASE LeaveLoop
  <2>1. /\ label = "loop" /\ tokens' = tokens /\ Current \notin Operators[level]
        /\ \/ level > 1 /\ level' = level - 1 /\ label' = "loop"
           \/ level = 1 /\ label' = "value"
    BY <1>2, <1>7 DEF LeaveLoop, Goto
  <2>2. Ended' /\ Current' = Current /\ NoOperatorFrom(level + 1)
    BY <1>1, <2>1 DEF Settled
  <2>3. NoOperatorFrom(level)
    <3>1. \A k \in level..3 : k = level \/ k \in level + 1..3
      BY <1>2
    <3>2. QED
      BY <2>1, <2>2, <3>1 DEF NoOperatorFrom
  <2>4. CASE level > 1
    <3>1. level' + 1 = level /\ label' = "loop"
      BY <1>2, <2>1, <2>4
    <3>2. NoOperatorFrom(level + 1)'
      BY <2>2, <2>3, <3>1 DEF NoOperatorFrom
    <3>3. QED
      BY <2>2, <3>1, <3>2 DEF Settled
  <2>5. CASE level = 1
    <3>1. label' = "value" /\ NoOperatorFrom(1)'
      BY <2>1, <2>2, <2>3, <2>5 DEF NoOperatorFrom
    <3>2. QED
      BY <2>2, <3>1 DEF Settled
  <2>6. QED
    BY <1>2, <2>4, <2>5
<1>8. QED
  BY <1>3, <1>4, <1>5, <1>6, <1>7 DEF Loops

LEMMA SettledClosing == TypeInv /\ Settled /\ Closing => Settled'
<1> SUFFICES ASSUME TypeInv, Settled, Closing PROVE Settled'
  OBVIOUS
<1>1. label \in {"value", "arguments"} /\ label \notin {"new", "done"} /\ Pos \in Nat \ {0}
  <2>1. label \in {"value", "arguments"} /\ label \notin {"new", "done"}
    BY DEF Closing, CloseParen, ParenFails, BeginArguments, NoArguments, NextArgument, LastArgument, CallFails,
           InCall, EndFormula, FormulaFails, AtTop
  <2>2. QED
    BY <2>1, PosInText DEF Pos
<1>2. "operand" \in Labels \ {"new", "done"} /\ "factor" \in Labels \ {"new", "done"}
  BY DEF Labels
<1>3. CASE CloseParen \/ NoArguments \/ LastArgument
  <2>1. ReadToken("operand") /\ Current \in {"NUMBER", "STRING", "RPAREN"} /\ Current # "EOF"
    BY <1>3 DEF CloseParen, NoArguments, LastArgument, CloseCall
  <2>2. Ended' /\ label' \in {"operand", "done"}
    BY <1>1, <1>2, <2>1, EndedByRead, ReadOn
  <2>3. QED
    BY <2>2 DEF Settled
<1>4. CASE ParenFails \/ CallFails \/ FormulaFails
  BY <1>4 DEF ParenFails, CallFails, FormulaFails, MissingOperator, Fail, FailAt, Settled
<1>5. CASE EndFormula
  BY <1>5 DEF EndFormula, Accept, Settled
<1>6. CASE BeginArguments
  <2>1. label = "arguments" /\ Current # "RPAREN" /\ tokens' = tokens /\ label' = "factor"
    BY <1>6 DEF BeginArguments, Goto
  <2>2. ~BehindDot(tokens, Pos) /\ Pos' = Pos /\ Current' = Current
    BY <2>1 DEF Settled, Pos, Current
  <2>3. QED
    BY <2>1, <2>2 DEF Settled, BehindDot
<1>7. CASE NextArgument
  <2>1. Current = "COMMA" /\ ReadToken("factor") /\ Current # "EOF"
    BY <1>7 DEF NextArgument
  <2>2. Pos' = Pos + 1 /\ label' \in {"factor", "done"} /\ tokens'[Pos] = Current
    BY <1>1, <1>2, <2>1, ReadOn
  <2>3. ~BehindDot(tokens', Pos') /\ tokens'[Pos' - 1] = "COMMA"
    BY <1>1, <2>1, <2>2 DEF BehindDot
  <2>4. QED
    BY <2>2, <2>3 DEF Settled, BehindDot
<1>8. QED
  BY <1>3, <1>4, <1>5, <1>6, <1>7 DEF Closing

LEMMA SettledDocument == TypeInv /\ Settled /\ Document => Settled'
<1> SUFFICES ASSUME TypeInv, Settled, Document PROVE Settled'
  OBVIOUS
<1>1. /\ label \in {"item", "value", "alias", "separator", "next_item"} /\ label \notin {"new", "done"}
      /\ Pos \in Nat \ {0}
  <2>1. label \in {"item", "value", "alias", "separator", "next_item"} /\ label \notin {"new", "done"}
    BY DEF Document, BeginItem, EmptyItem, Unnamed, As, Alias, AliasMissing, AtTop,
           EndDocument, Separator, NextItem, TrailingComma, SeparatorMissing
  <2>2. QED
    BY <2>1, PosInText DEF Pos
<1>2. /\ "alias" \in Labels \ {"new", "done"} /\ "separator" \in Labels \ {"new", "done"}
      /\ "next_item" \in Labels \ {"new", "done"}
  BY DEF Labels
<1>3. CASE BeginItem
  <2>1. label = "item" /\ tokens' = tokens /\ label' = "factor" /\ stack' = stack
    BY <1>3 DEF BeginItem, Goto
  <2>2. Pos = 1 \/ tokens[Pos - 1] = "COMMA"
    BY <2>1 DEF Settled
  <2>3. QED
    BY <1>1, <2>1, <2>2, SettledAtItem
<1>4. CASE EmptyItem \/ AliasMissing \/ SeparatorMissing \/ TrailingComma
  BY <1>4 DEF EmptyItem, AliasMissing, SeparatorMissing, TrailingComma, MissingOperator, Fail, FailAt, Settled
<1>5. CASE EndDocument
  BY <1>5 DEF EndDocument, Accept, Settled
<1>6. CASE Unnamed
  <2>1. label = "value" /\ Current # "AS" /\ tokens' = tokens /\ label' = "separator"
    BY <1>6 DEF Unnamed, AtTop, Goto
  <2>2. Ended /\ NoOperatorFrom(1)
    BY <2>1 DEF Settled
  <2>3. Ended' /\ NoOperatorFrom(1)' /\ Current' # "AS"
    BY <2>1, <2>2 DEF Ended, NoOperatorFrom, Current, Pos, MayFollow, BehindDot
  <2>4. QED
    BY <2>1, <2>3 DEF Settled
<1>7. CASE As
  <2>1. label' \in {"alias", "done"}
    BY <1>7 DEF As, ReadToken
  <2>2. QED
    BY <2>1 DEF Settled
<1>8. CASE Alias
  <2>1. Current \in Identifiers /\ Current # "EOF" /\ ReadToken("separator") /\ items' = Append(items, Item(node, Pos))
    BY <1>8 DEF Alias, EndItem, Identifiers
  <2>2. Pos' = Pos + 1 /\ label' \in {"separator", "done"}
    BY <1>1, <1>2, <2>1, ReadOn
  <2>3. Last(items').alias = Pos /\ items' # << >>
    <3>1. Listing(items)
      BY DEF TypeInv, ItemsOK
    <3>2. Last(items') = Item(node, Pos) /\ items' # << >>
      BY <2>1, <3>1, ListingGrows DEF Last
    <3>3. QED
      BY <3>2 DEF Item
  <2>4. AfterAlias'
    BY <1>1, <2>2, <2>3 DEF AfterAlias, Pos
  <2>5. QED
    BY <2>2, <2>4 DEF Settled
<1>9. CASE Separator
  <2>1. Current = "COMMA" /\ ReadToken("next_item")
    BY <1>9 DEF Separator
  <2>2. Pos' - 1 = Pos /\ label' \in {"next_item", "done"} /\ tokens'[Pos] = "COMMA"
    BY <1>1, <1>2, <2>1, ReadOn
  <2>3. QED
    BY <2>2 DEF Settled
<1>10. CASE NextItem
  <2>1. label = "next_item" /\ tokens' = tokens /\ label' = "item"
    BY <1>10 DEF NextItem, Goto
  <2>2. tokens[Pos - 1] = "COMMA" /\ Pos' = Pos
    BY <2>1 DEF Settled, Pos
  <2>3. QED
    BY <2>1, <2>2 DEF Settled
<1>11. QED
  BY <1>3, <1>4, <1>5, <1>6, <1>7, <1>8, <1>9, <1>10 DEF Document

LEMMA SettledNext == TypeInv /\ Settled /\ [Next]_vars => Settled'
<1> SUFFICES ASSUME TypeInv, Settled, [Next]_vars PROVE Settled'
  OBVIOUS
<1>1. CASE NewParser
  <2>1. label = "new" /\ ReadToken("start") /\ "start" \in Labels \ {"new", "done"} /\ label # "done"
    BY <1>1 DEF NewParser, Labels
  <2>2. Len(tokens) = 0 /\ Len(tokens') = Len(tokens) + 1 /\ label' \in {"start", "done"}
    BY <2>1, AfterReadToken DEF TypeInv, TextOK
  <2>3. QED
    BY <2>2 DEF Settled, Pos
<1>2. CASE Empty
  BY <1>2 DEF Empty, Fail, FailAt, Settled
<1>3. CASE Start
  <2>1. label = "start" /\ tokens' = tokens /\ label' \in {"item", "factor"} /\ stack' = stack
    BY <1>3 DEF Start, Goto
  <2>2. Pos = 1 /\ Pos' = 1
    BY <2>1 DEF Settled, Pos
  <2>3. CASE label' = "item"
    BY <2>2, <2>3 DEF Settled
  <2>4. CASE label' = "factor"
    BY <2>1, <2>2, <2>4, SettledAtItem
  <2>5. QED
    BY <2>1, <2>3, <2>4
<1>4. CASE Factor
  BY <1>4, SettledFactor
<1>5. CASE Loops
  BY <1>5, SettledLoops
<1>6. CASE Closing
  BY <1>6, SettledClosing
<1>7. CASE Document
  BY <1>7, SettledDocument
<1>8. CASE UNCHANGED vars
  BY <1>8 DEF vars, Settled, Ended, NoOperatorFrom, AfterAlias, Current, Pos, Top, MayFollow, BehindDot
<1>9. QED
  BY <1>1, <1>2, <1>3, <1>4, <1>5, <1>6, <1>7, <1>8 DEF Next

LEMMA SettledInvariant == Spec => []Settled
<1>1. Init => Settled
  BY DEF Init, Settled
<1>2. QED
  BY <1>1, SettledNext, TypeInvariant, PTL DEF Spec

-----------------------------------------------------------------------------
(***************************************************************************)
(* The same read off the grammar: which token may stand behind which in a  *)
(* tree, and that what opens a parenthesis begins a factor of its own.     *)
(***************************************************************************)
AnyOperator == Comparisons \cup Additions \cup Multiplications
Starters == Identifiers \cup {"NUMBER", "STRING", "LPAREN", "MINUS"}
Enders == Identifiers \cup {"NUMBER", "STRING", "RPAREN"}
Wanting == AnyOperator \cup {"LPAREN", "COMMA"}
Behind == AnyOperator \cup {"RPAREN", "COMMA"}

Goes(ts, i) ==
  \/ ts[i - 1] \in Wanting /\ ts[i] \in Starters
  \/ ts[i - 1] = "LPAREN" /\ ts[i] = "RPAREN" /\ i > 2 /\ ts[i - 2] \in Identifiers
  \/ ts[i - 1] = "DOT" /\ ts[i] \in Identifiers
  \/ ts[i - 1] \in Enders /\ ts[i] \in Behind
  \/ ts[i - 1] \in Identifiers /\ ts[i] = "LPAREN" /\ ~BehindDot(ts, i - 1)
  \/ ts[i - 1] \in Identifiers /\ ts[i] = "DOT" /\ (ts[i - 1] = "TRUE" => BehindDot(ts, i - 1))

Opens(ts, q) ==
  \/ ts[q] = "LPAREN" /\ (q > 1 => ts[q - 1] \notin Identifiers)
  \/ ts[q] \in Identifiers /\ q < Len(ts) /\ ts[q + 1] = "LPAREN" /\ ~BehindDot(ts, q)

BeginsFactor(ts, q, b) ==
  \E k \in q..b : Over(ts, 4, q, k) # {} /\ (k = b \/ ts[k + 1] \in Behind)

Proper(ts, a, b) ==
  /\ ts[a] \in Starters /\ ts[b] \in Enders
  /\ \A i \in a + 1..b : Goes(ts, i)
  /\ \A q \in a..b : Opens(ts, q) => BeginsFactor(ts, q, b)

LEMMA TokenClasses ==
  /\ \A j \in 1..3 : Operators[j] \subseteq AnyOperator
  /\ AnyOperator \cap ({"LPAREN", "RPAREN", "DOT", "COMMA", "EOF", "NUMBER", "HUGE", "STRING", "ILLEGAL"}
                         \cup Identifiers) = {}
  /\ \A t \in AnyOperator : \E j \in 1..3 : t \in Operators[j]
<1>1. Operators[1] = Comparisons /\ Operators[2] = Additions /\ Operators[3] = Multiplications
  BY DEF Operators
<1>2. \A j \in 1..3 : j = 1 \/ j = 2 \/ j = 3
  OBVIOUS
<1>3. \A t \in AnyOperator : \E j \in 1..3 : t \in Operators[j]
  BY <1>1 DEF AnyOperator
<1>4. AnyOperator \cap ({"LPAREN", "RPAREN", "DOT", "COMMA", "EOF", "NUMBER", "HUGE", "STRING", "ILLEGAL"}
                          \cup Identifiers) = {}
  BY DEF AnyOperator, Comparisons, Additions, Multiplications, Identifiers
<1>5. \A j \in 1..3 : Operators[j] \subseteq AnyOperator
  BY <1>1, <1>2 DEF AnyOperator
<1>6. QED
  BY <1>3, <1>4, <1>5

\* A span goes on: a factor that ends with the first part does not end the whole.
LEMMA FactorWithin ==
  ASSUME NEW ts, NEW q \in Nat, NEW b \in Nat, NEW c \in Nat, b < c, BeginsFactor(ts, q, b), ts[b + 1] \in Behind
  PROVE  BeginsFactor(ts, q, c)
BY DEF BeginsFactor

LEMMA ProperJoined ==
  ASSUME NEW T, NEW ts \in Seq(T), NEW a \in 1..Len(ts), NEW k \in Nat, NEW b \in 1..Len(ts), a < k, k < b,
         Proper(ts, a, k - 1), Proper(ts, k + 1, b), ts[k] \in AnyOperator \cup {"COMMA"}
  PROVE  Proper(ts, a, b)
<1>0. Len(ts) \in Nat
  BY LenProperties
<1>1. ts[k] \in Wanting /\ ts[k] \in Behind /\ ts[k] \notin Identifiers \cup {"LPAREN"}
  BY TokenClasses DEF Wanting, Behind, Identifiers
<1>2. ts[a] \in Starters /\ ts[b] \in Enders
  BY DEF Proper
<1>3. ASSUME NEW i \in a + 1..b PROVE Goes(ts, i)
  <2>1. CASE i \in a + 1..k - 1 \/ i \in k + 2..b
    BY <2>1 DEF Proper
  <2>2. CASE i = k
    BY <1>1, <2>2 DEF Proper, Goes
  <2>3. CASE i = k + 1
    BY <1>1, <2>3 DEF Proper, Goes
  <2>4. QED
    BY <1>0, <2>1, <2>2, <2>3
<1>4. ASSUME NEW q \in a..b, Opens(ts, q) PROVE BeginsFactor(ts, q, b)
  <2>1. CASE q \in a..k - 1
    <3>1. BeginsFactor(ts, q, k - 1) /\ k - 1 < b /\ k - 1 \in Nat /\ q \in Nat /\ (k - 1) + 1 = k
      BY <1>0, <1>4, <2>1 DEF Proper
    <3>2. QED
      BY <1>0, <1>1, <3>1, FactorWithin
  <2>2. CASE q = k
    BY <1>1, <1>4, <2>2 DEF Opens
  <2>3. CASE q \in k + 1..b
    BY <1>4, <2>3 DEF Proper
  <2>4. QED
    BY <1>0, <2>1, <2>2, <2>3
<1>5. QED
  BY <1>2, <1>3, <1>4 DEF Proper

LEMMA ProperNegated ==
  ASSUME NEW T, NEW ts \in Seq(T), NEW a \in 1..Len(ts), NEW b \in a + 1..Len(ts),
         ts[a] = "MINUS", Proper(ts, a + 1, b)
  PROVE  Proper(ts, a, b)
<1>0. Len(ts) \in Nat
  BY LenProperties
<1>1. ts[a] \in Wanting /\ ts[a] \in Starters /\ ts[a] \notin Identifiers
  BY DEF Wanting, Starters, AnyOperator, Additions, Identifiers
<1>2. ASSUME NEW i \in a + 1..b PROVE Goes(ts, i)
  <2>1. CASE i = a + 1
    BY <1>1, <2>1 DEF Proper, Goes
  <2>2. CASE i \in a + 2..b
    BY <2>2 DEF Proper
  <2>3. QED
    BY <1>0, <2>1, <2>2
<1>3. ASSUME NEW q \in a..b, Opens(ts, q) PROVE BeginsFactor(ts, q, b)
  <2>1. q # a
    BY <1>1, <1>3 DEF Opens
  <2>2. q \in a + 1..b
    BY <2>1
  <2>3. QED
    BY <1>3, <2>2 DEF Proper
<1>4. QED
  BY <1>1, <1>2, <1>3 DEF Proper

\* Between an opening and a closing parenthesis.
LEMMA ProperWithin ==
  ASSUME NEW T, NEW ts \in Seq(T), NEW a \in Nat, NEW b \in 1..Len(ts), a < b - 1, a >= 1,
         ts[a] = "LPAREN", ts[b] = "RPAREN", Proper(ts, a + 1, b - 1)
  PROVE  /\ \A i \in a + 1..b : Goes(ts, i)
         /\ \A q \in a + 1..b : Opens(ts, q) => BeginsFactor(ts, q, b)
<1>0. Len(ts) \in Nat
  BY LenProperties
<1>1. ts[a] \in Wanting /\ ts[b] \in Behind /\ ts[b] \notin Identifiers
  BY DEF Wanting, Behind, Identifiers
<1>2. ASSUME NEW i \in a + 1..b PROVE Goes(ts, i)
  <2>1. CASE i = a + 1
    BY <1>1, <2>1 DEF Proper, Goes
  <2>2. CASE i \in a + 2..b - 1
    BY <2>2 DEF Proper
  <2>3. CASE i = b
    BY <1>1, <2>3 DEF Proper, Goes
  <2>4. QED
    BY <1>0, <2>1, <2>2, <2>3
<1>3. ASSUME NEW q \in a + 1..b, Opens(ts, q) PROVE BeginsFactor(ts, q, b)
  <2>1. q # b
    BY <1>1, <1>3 DEF Opens
  <2>2. q \in a + 1..b - 1 /\ q \in Nat /\ b - 1 \in Nat /\ b - 1 < b /\ (b - 1) + 1 = b
    BY <1>0, <2>1
  <2>3. BeginsFactor(ts, q, b - 1)
    BY <1>3, <2>2 DEF Proper
  <2>4. QED
    BY <1>1, <2>2, <2>3, FactorWithin
<1>4. QED
  BY <1>2, <1>3

LEMMA ProperEnclosed ==
  ASSUME NEW T, NEW ts \in Seq(T), NEW a \in 1..Len(ts), NEW b \in 1..Len(ts), a < b - 1,
         ts[a] = "LPAREN", ts[b] = "RPAREN", Proper(ts, a + 1, b - 1), Over(ts, 4, a, b) # {}
  PROVE  Proper(ts, a, b)
<1>0. Len(ts) \in Nat
  BY LenProperties
<1>1. /\ \A i \in a + 1..b : Goes(ts, i)
      /\ \A q \in a + 1..b : Opens(ts, q) => BeginsFactor(ts, q, b)
  BY <1>0, ProperWithin
<1>2. BeginsFactor(ts, a, b)
  BY <1>0 DEF BeginsFactor
<1>3. \A q \in a..b : q = a \/ q \in a + 1..b
  BY <1>0
<1>4. ts[a] \in Starters /\ ts[b] \in Enders
  BY DEF Starters, Enders
<1>5. QED
  BY <1>1, <1>2, <1>3, <1>4 DEF Proper

LEMMA ProperCall ==
  ASSUME NEW T, NEW ts \in Seq(T), NEW a \in 1..Len(ts), NEW b \in 1..Len(ts), a + 1 < b,
         ts[a] \in Identifiers, ts[a + 1] = "LPAREN", ts[b] = "RPAREN", ~BehindDot(ts, a),
         b # a + 2 => Proper(ts, a + 2, b - 1), Over(ts, 4, a, b) # {}
  PROVE  Proper(ts, a, b)
<1>0. Len(ts) \in Nat
  BY LenProperties
<1>1. /\ \A i \in a + 2..b : Goes(ts, i)
      /\ \A q \in a + 2..b : Opens(ts, q) => BeginsFactor(ts, q, b)
  <2>1. CASE b = a + 2
    <3>1. Goes(ts, a + 2) /\ ~Opens(ts, a + 2)
      BY <1>0, <2>1 DEF Goes, Opens, Identifiers
    <3>2. \A i \in a + 2..b : i = a + 2
      BY <2>1
    <3>3. QED
      BY <3>1, <3>2
  <2>2. CASE b # a + 2
    <3> DEFINE c == a + 1
    <3>1. c \in Nat /\ c + 1 = a + 2 /\ c < b - 1 /\ c >= 1 /\ ts[c] = "LPAREN" /\ Proper(ts, c + 1, b - 1)
      BY <1>0, <2>2
    <3> HIDE DEF c
    <3>2. /\ \A i \in c + 1..b : Goes(ts, i)
          /\ \A q \in c + 1..b : Opens(ts, q) => BeginsFactor(ts, q, b)
      BY <3>1, ProperWithin
    <3>3. QED
      BY <3>1, <3>2
  <2>3. QED
    BY <2>1, <2>2
<1>2. BeginsFactor(ts, a, b)
  BY <1>0 DEF BeginsFactor
<1>3. Goes(ts, a + 1) /\ ~Opens(ts, a + 1)
  BY <1>0 DEF Goes, Opens, Identifiers
<1>4. \A q \in a..b : q = a \/ q = a + 1 \/ q \in a + 2..b
  BY <1>0
<1>5. ts[a] \in Starters /\ ts[b] \in Enders
  BY DEF Starters, Enders
<1>6. \A i \in a + 1..b : Goes(ts, i)
  BY <1>1, <1>3, <1>4
<1>7. \A q \in a..b : Opens(ts, q) => BeginsFactor(ts, q, b)
  BY <1>1, <1>2, <1>3, <1>4
<1>8. QED
  BY <1>5, <1>6, <1>7 DEF Proper

LEMMA ProperPath ==
  ASSUME NEW T, NEW ts \in Seq(T), NEW a \in 1..Len(ts), NEW b \in a + 1..Len(ts), IsPath(ts, a, b)
  PROVE  Proper(ts, a, b)
<1>0. Len(ts) \in Nat
  BY LenProperties
<1>1. /\ (b - a) % 2 = 0 /\ ts[a] # "TRUE" /\ b > a + 1
      /\ \A i \in a..b : IF (i - a) % 2 = 0 THEN ts[i] \in Identifiers ELSE ts[i] = "DOT"
  BY DEF IsPath
<1>2. ts[a] \in Identifiers /\ ts[b] \in Identifiers
  <2>1. (a - a) % 2 = 0
    BY <1>0
  <2>2. a \in a..b /\ b \in a..b
    BY <1>0
  <2>3. QED
    BY <1>1, <2>1, <2>2
<1>3. ASSUME NEW i \in a + 1..b PROVE Goes(ts, i) /\ (ts[i] \in Identifiers => BehindDot(ts, i))
  <2>1. i \in a..b /\ i - 1 \in a..b /\ i > 1
    BY <1>0
  <2>2. CASE (i - a) % 2 = 0
    <3>1. ((i - 1) - a) % 2 # 0
      BY <1>0, <2>2
    <3>2. ts[i] \in Identifiers /\ ts[i - 1] = "DOT"
      BY <1>1, <2>1, <2>2, <3>1
    <3>3. QED
      BY <2>1, <3>2 DEF Goes, BehindDot
  <2>3. CASE (i - a) % 2 # 0
    <3>1. ((i - 1) - a) % 2 = 0
      BY <1>0, <2>3
    <3>2. ts[i] = "DOT" /\ ts[i - 1] \in Identifiers
      BY <1>1, <2>1, <2>3, <3>1
    <3>3. i - 1 # a => BehindDot(ts, i - 1)
      <4>1. i - 1 # a => ((i - 1) - 1 - a) % 2 # 0 /\ (i - 1) - 1 \in a..b /\ i - 1 > 1
        BY <1>0, <3>1
      <4>2. QED
        BY <1>1, <4>1 DEF BehindDot
    <3>4. i - 1 = a => ts[i - 1] # "TRUE"
      BY <1>1
    <3>5. QED
      BY <3>2, <3>3, <3>4 DEF Goes, Identifiers
  <2>4. QED
    BY <2>2, <2>3
<1>4. ASSUME NEW q \in a..b, Opens(ts, q) PROVE BeginsFactor(ts, q, b)
  <2>1. q = a \/ q \in a + 1..b
    BY <1>0
  <2>2. ts[q] # "LPAREN"
    BY <1>1 DEF Identifiers
  <2>3. ts[q] \in Identifiers /\ ts[q + 1] = "LPAREN" /\ ~BehindDot(ts, q)
    BY <1>4, <2>2 DEF Opens
  <2>4. q = a
    BY <1>3, <2>1, <2>3
  <2>5. a + 1 \in a..b
    BY <1>0, <1>1
  <2>6. ts[a + 1] # "LPAREN"
    BY <1>1, <2>5 DEF Identifiers
  <2>7. QED
    BY <2>3, <2>4, <2>6
<1>5. QED
  BY <1>2, <1>3, <1>4 DEF Proper, Starters, Enders

LEMMA ProperWord ==
  ASSUME NEW T, NEW ts \in Seq(T), NEW a \in 1..Len(ts), Over(ts, 4, a, a) # {}
  PROVE  Proper(ts, a, a)
<1>0. Len(ts) \in Nat
  BY LenProperties
<1>1. PICK x : x \in Word(ts, a)
  BY InWord
<1>2. ts[a] \in Identifiers \cup {"NUMBER", "STRING"}
  BY <1>1 DEF Word, Identifiers
<1>3. BeginsFactor(ts, a, a)
  BY <1>0 DEF BeginsFactor
<1>4. (\A i \in a + 1..a : Goes(ts, i)) /\ \A q \in a..a : q = a
  BY <1>0
<1>5. QED
  BY <1>2, <1>3, <1>4 DEF Proper, Starters, Enders

\* Every tree and every list of arguments is proper: by weight.
SpanOf(ts, l, a, b) ==
  /\ l \in 0..4 /\ a \in 1..Len(ts) /\ b \in a..Len(ts)
  /\ Over(ts, l, a, b) # {} /\ ~BehindDot(ts, a)

ProperBelow(ts, w) ==
  \A l, a, b : SpanOf(ts, l, a, b) /\ Weight(l, a, b) < w => Proper(ts, a, b)

\* A span within the one at hand, that no dot stands before.
LEMMA ProperPart ==
  ASSUME NEW T, NEW ts \in Seq(T), NEW l \in 0..4, NEW a \in 1..Len(ts), NEW b \in a..Len(ts),
         ProperBelow(ts, Weight(l, a, b)),
         NEW m \in 0..4, NEW c \in a..b, NEW d \in c..b, Over(ts, m, c, d) # {},
         c > a \/ d < b \/ m > l, ~BehindDot(ts, c)
  PROVE  Proper(ts, c, d)
<1>1. Len(ts) \in Nat /\ c \in 1..Len(ts) /\ d \in c..Len(ts)
  BY LenProperties
<1>2. Weight(m, c, d) < Weight(l, a, b)
  BY <1>1 DEF Weight
<1>3. QED
  BY <1>1, <1>2 DEF ProperBelow, SpanOf

LEMMA ProperFactor ==
  ASSUME NEW T, NEW ts \in Seq(T), NEW a \in 1..Len(ts), NEW b \in a..Len(ts),
         NEW x \in Over(ts, 4, a, b), ~BehindDot(ts, a), ProperBelow(ts, Weight(4, a, b))
  PROVE  Proper(ts, a, b)
<1>0. Len(ts) \in Nat
  BY LenProperties
<1>1. CASE b = a
  BY <1>1, ProperWord
<1>2. CASE b > a /\ Negation(ts, a, b, x)
  <2>1. ts[a] = "MINUS" /\ Over(ts, 4, a + 1, b) # {} /\ a + 1 \in a..b /\ b \in a + 1..b
    BY <1>0, <1>2 DEF Negation
  <2>2. ~BehindDot(ts, a + 1)
    BY <1>0, <2>1 DEF BehindDot
  <2>3. Proper(ts, a + 1, b)
    BY <1>0, <2>1, <2>2, ProperPart
  <2>4. QED
    BY <1>0, <1>2, <2>1, <2>3, ProperNegated
<1>3. CASE b > a /\ Enclosure(ts, a, b, x)
  <2>1. ts[a] = "LPAREN" /\ ts[b] = "RPAREN" /\ Over(ts, 1, a + 1, b - 1) # {}
    BY <1>3 DEF Enclosure
  <2>2. a < b - 1
    <3>1. a + 1 \in 1..Len(ts) /\ b - 1 \in 0..Len(ts)
      BY <1>0, <1>3
    <3>2. ~(b - 1 < a + 1)
      BY <2>1, <3>1, NothingOver
    <3>3. QED
      BY <1>0, <3>2
  <2>3. a + 1 \in a..b /\ b - 1 \in a + 1..b /\ ~BehindDot(ts, a + 1) /\ a + 1 > a
    BY <1>0, <2>1, <2>2 DEF BehindDot
  <2>4. Proper(ts, a + 1, b - 1)
    BY <1>0, <2>1, <2>3, ProperPart
  <2>5. QED
    BY <1>0, <2>1, <2>2, <2>4, ProperEnclosed
<1>4. CASE b > a /\ Call(ts, a, b, x)
  <2>1. /\ ts[a] \in Identifiers /\ ts[a + 1] = "LPAREN" /\ ts[b] = "RPAREN"
        /\ b # a + 2 => Over(ts, 0, a + 2, b - 1) # {}
    BY <1>4 DEF Call
  <2>2. a + 1 < b
    BY <1>0, <1>4, <2>1
  <2>3. ASSUME b # a + 2 PROVE Proper(ts, a + 2, b - 1)
    <3>1. a + 2 \in a..b /\ b - 1 \in a + 2..b /\ ~BehindDot(ts, a + 2) /\ a + 2 > a
      BY <1>0, <2>1, <2>2, <2>3 DEF BehindDot
    <3>2. QED
      BY <1>0, <2>1, <2>3, <3>1, ProperPart
  <2>4. QED
    BY <1>0, <2>1, <2>2, <2>3, ProperCall
<1>5. CASE b > a /\ IsPath(ts, a, b)
  BY <1>0, <1>5, ProperPath
<1>6. QED
  BY <1>0, <1>1, <1>2, <1>3, <1>4, <1>5, FactorKind

\* Two spans with an operator or a comma between them.
LEMMA ProperTwo ==
  ASSUME NEW T, NEW ts \in Seq(T), NEW l \in 0..3, NEW a \in 1..Len(ts), NEW b \in a..Len(ts),
         ~BehindDot(ts, a), ProperBelow(ts, Weight(l, a, b)), NEW k \in a + 1..b - 1,
         ts[k] \in AnyOperator \cup {"COMMA"}, Over(ts, l, a, k - 1) # {}, Over(ts, l + 1, k + 1, b) # {}
  PROVE  Proper(ts, a, b)
<1>0. Len(ts) \in Nat
  BY LenProperties
<1>1. Proper(ts, a, k - 1)
  <2>1. a \in a..b /\ k - 1 \in a..b /\ k - 1 < b
    BY <1>0
  <2>2. QED
    BY <1>0, <2>1, ProperPart
<1>2. Proper(ts, k + 1, b)
  <2>1. k + 1 \in a..b /\ b \in k + 1..b /\ k + 1 > a
    BY <1>0
  <2>2. ~BehindDot(ts, k + 1)
    BY <1>0, TokenClasses DEF BehindDot
  <2>3. QED
    BY <1>0, <2>1, <2>2, ProperPart
<1>3. QED
  BY <1>0, <1>1, <1>2, ProperJoined

LEMMA SpanProper ==
  ASSUME NEW T, NEW ts \in Seq(T), NEW l, NEW a, NEW b, SpanOf(ts, l, a, b)
  PROVE  Proper(ts, a, b)
<1> DEFINE S == {n \in Nat : ProperBelow(ts, n)}
           bound == Weight(l, a, b) + 1
<1>0. Len(ts) \in Nat
  BY LenProperties
<1>1. ASSUME NEW m, NEW c, NEW d, SpanOf(ts, m, c, d) PROVE Weight(m, c, d) \in Nat
  BY <1>0, <1>1 DEF SpanOf, Weight
<1>2. 0 \in S
  BY <1>1 DEF ProperBelow
<1>3. ASSUME NEW n \in Nat, ProperBelow(ts, n) PROVE ProperBelow(ts, n + 1)
  <2>1. ASSUME NEW m, NEW c, NEW d, SpanOf(ts, m, c, d), Weight(m, c, d) < n + 1
        PROVE  Proper(ts, c, d)
    <3>1. /\ m \in 0..4 /\ c \in 1..Len(ts) /\ d \in c..Len(ts) /\ ~BehindDot(ts, c)
          /\ Over(ts, m, c, d) # {}
      BY <2>1 DEF SpanOf
    <3>2. ProperBelow(ts, Weight(m, c, d))
      <4>1. Weight(m, c, d) \in Nat /\ Weight(m, c, d) <= n
        BY <1>1, <2>1
      <4>2. ASSUME NEW k, NEW e, NEW f, SpanOf(ts, k, e, f), Weight(k, e, f) < Weight(m, c, d)
            PROVE  Weight(k, e, f) < n
        <5>1. Weight(k, e, f) \in Nat
          BY <1>1, <4>2
        <5>2. QED
          BY <4>1, <4>2, <5>1
      <4>3. QED
        BY <1>3, <4>2 DEF ProperBelow
    <3>3. PICK x : x \in Over(ts, m, c, d)
      BY <3>1
    <3>4. CASE m = 4
      BY <3>1, <3>2, <3>3, <3>4, ProperFactor
    <3>5. CASE m \in 1..3 /\ x \in Over(ts, m + 1, c, d)
      <4>1. m + 1 \in 0..4 /\ c \in c..d /\ d \in c..d /\ m + 1 > m /\ Over(ts, m + 1, c, d) # {}
        BY <1>0, <3>1, <3>5
      <4>2. QED
        BY <3>1, <3>2, <4>1, ProperPart
    <3>6. ASSUME m \in 1..3, NEW k, JoinsAt(ts, m, c, d, x, k) PROVE Proper(ts, c, d)
      <4>1. PICK y, z : JoinsOf(ts, m, c, d, x, k, y, z)
        BY <3>6, JoinsHasParts
      <4>2. /\ k \in c + 1..d - 1 /\ ts[k] \in AnyOperator
            /\ Over(ts, m, c, k - 1) # {} /\ Over(ts, m + 1, k + 1, d) # {}
        BY <3>6, <4>1, TokenClasses DEF JoinsOf
      <4>3. m \in 0..3
        BY <3>6
      <4>4. QED
        BY <3>1, <3>2, <4>2, <4>3, ProperTwo
    <3>7. CASE m = 0
      <4>1. CASE \E y \in Over(ts, 1, c, d) : x = <<y>>
        <5>1. 1 \in 0..4 /\ c \in c..d /\ d \in c..d /\ 1 > m /\ Over(ts, 1, c, d) # {}
          BY <1>0, <3>1, <3>7, <4>1
        <5>2. QED
          BY <3>1, <3>2, <5>1, ProperPart
      <4>2. ASSUME NEW k, Splits(ts, Derivations(ts), c, d, x, k) PROVE Proper(ts, c, d)
        <5>1. /\ k \in c + 1..d - 1 /\ ts[k] \in AnyOperator \cup {"COMMA"}
              /\ Over(ts, m, c, k - 1) # {} /\ Over(ts, m + 1, k + 1, d) # {}
          BY <3>7, <4>2 DEF Splits, Over
        <5>2. m \in 0..3
          BY <3>7
        <5>3. QED
          BY <3>1, <3>2, <5>1, <5>2, ProperTwo
      <4>3. QED
        BY <3>1, <3>3, <3>7, <4>1, <4>2, InList
    <3>8. m \in 1..3 => x \in Over(ts, m + 1, c, d) \/ \E k : JoinsAt(ts, m, c, d, x, k)
      BY <3>1, <3>3, InLevel
    <3>9. m = 4 \/ m \in 1..3 \/ m = 0
      BY <3>1
    <3>10. QED
      BY <3>4, <3>5, <3>6, <3>7, <3>8, <3>9
  <2>2. QED
    BY <2>1 DEF ProperBelow
<1>4. bound \in Nat /\ Weight(l, a, b) < bound
  BY <1>1
<1> HIDE DEF bound
<1>5. bound \in S
  <2>1. ASSUME NEW n \in Nat, n < bound, n \in S PROVE n + 1 \in S
    BY <1>3, <2>1
  <2> HIDE DEF S
  <2>2. 0..bound \subseteq S
    BY <1>2, <1>4, <2>1, CountUp
  <2>3. QED
    BY <1>4, <2>2
<1>6. QED
  BY <1>4, <1>5 DEF ProperBelow

-----------------------------------------------------------------------------
(***************************************************************************)
(* A whole text: items may have names, behind the word AS.                 *)
(***************************************************************************)
GoesByName(ts, i) ==
  \/ Goes(ts, i)
  \/ ts[i - 1] \in Enders /\ ts[i] = "AS"
  \/ ts[i - 1] = "AS" /\ ts[i] \in Identifiers

StartsFactor(ts, q, b) ==
  \E k \in q..b : Over(ts, 4, q, k) # {} /\ (k = b \/ ts[k + 1] \in Behind \cup {"AS"})

ProperText(ts, a, b) ==
  /\ ts[a] \in Starters /\ ts[b] \in Enders
  /\ \A i \in a + 1..b : GoesByName(ts, i)
  /\ \A q \in a..b : Opens(ts, q) => StartsFactor(ts, q, b)

LEMMA StartsWithin ==
  ASSUME NEW ts, NEW q \in Nat, NEW b \in Nat, NEW c \in Nat, b < c, StartsFactor(ts, q, b),
         ts[b + 1] \in Behind \cup {"AS"}
  PROVE  StartsFactor(ts, q, c)
BY DEF StartsFactor

LEMMA SpanIsText ==
  ASSUME NEW T, NEW ts \in Seq(T), NEW a \in 1..Len(ts), NEW b \in a..Len(ts),
         Over(ts, 1, a, b) # {}, ~BehindDot(ts, a)
  PROVE  ProperText(ts, a, b)
<1>1. Proper(ts, a, b)
  <2>1. SpanOf(ts, 1, a, b)
    BY DEF SpanOf
  <2>2. QED
    BY <2>1, SpanProper
<1>2. \A q \in a..b : BeginsFactor(ts, q, b) => StartsFactor(ts, q, b)
  BY DEF BeginsFactor, StartsFactor
<1>3. QED
  BY <1>1, <1>2 DEF Proper, ProperText, GoesByName

LEMMA ItemIsText ==
  ASSUME NEW T, NEW ts \in Seq(T), NEW a \in 1..Len(ts), NEW b \in a..Len(ts),
         ItemsOver(ts, Derivations(ts), a, b) # {}, ~BehindDot(ts, a)
  PROVE  ProperText(ts, a, b)
<1>0. Len(ts) \in Nat
  BY LenProperties
<1>1. PICK x : x \in ItemsOver(ts, Derivations(ts), a, b)
  OBVIOUS
<1>2. CASE Over(ts, 1, a, b) # {}
  BY <1>2, SpanIsText
<1>3. CASE /\ b > a + 1 /\ ts[b - 1] = "AS" /\ ts[b] \in Identifiers
           /\ Over(ts, 1, a, b - 2) # {}
  <2>1. b - 2 \in a..Len(ts) /\ b - 2 < b /\ b - 2 \in Nat /\ b \in Nat /\ b \in 1..Len(ts) /\ (b - 2) + 1 = b - 1
    BY <1>0, <1>3
  <2>2. ProperText(ts, a, b - 2)
    BY <1>3, <2>1, SpanIsText
  <2>3. ts[b - 2] \in Enders /\ ts[a] \in Starters /\ ts[b] \in Enders
    BY <1>3, <2>2 DEF ProperText, Enders
  <2>4. ASSUME NEW i \in a + 1..b PROVE GoesByName(ts, i)
    <3>1. CASE i \in a + 1..b - 2
      BY <2>2, <3>1 DEF ProperText
    <3>2. CASE i = b - 1
      BY <1>3, <2>1, <2>3, <3>2 DEF GoesByName
    <3>3. CASE i = b
      BY <1>3, <3>3 DEF GoesByName
    <3>4. QED
      BY <1>0, <3>1, <3>2, <3>3
  <2>5. ASSUME NEW q \in a..b, Opens(ts, q) PROVE StartsFactor(ts, q, b)
    <3>1. CASE q \in a..b - 2
      <4>1. StartsFactor(ts, q, b - 2)
        BY <2>2, <2>5, <3>1 DEF ProperText
      <4>2. QED
        BY <1>0, <1>3, <2>1, <4>1, StartsWithin
    <3>2. CASE q = b - 1
      <4>1. ts[q] = "AS" /\ ts[q + 1] # "LPAREN"
        BY <1>0, <1>3, <3>2 DEF Identifiers
      <4>2. QED
        BY <2>5, <4>1 DEF Opens
    <3>3. CASE q = b
      <4>1. Over(ts, 4, b, b) # {}
        BY <1>3, <2>1, InWord DEF Word, Identifiers
      <4>2. QED
        BY <2>1, <3>3, <4>1 DEF StartsFactor
    <3>4. QED
      BY <1>0, <3>1, <3>2, <3>3
  <2>6. QED
    BY <2>3, <2>4, <2>5 DEF ProperText
<1>4. QED
  BY <1>1, <1>2, <1>3, InItems

LEMMA TextJoined ==
  ASSUME NEW T, NEW ts \in Seq(T), NEW a \in 1..Len(ts), NEW k \in Nat, NEW b \in 1..Len(ts), a < k, k < b,
         ProperText(ts, a, k - 1), ProperText(ts, k + 1, b), ts[k] = "COMMA"
  PROVE  ProperText(ts, a, b)
<1>0. Len(ts) \in Nat
  BY LenProperties
<1>1. ts[k] \in Wanting /\ ts[k] \in Behind /\ ts[k] \notin Identifiers \cup {"LPAREN"}
  BY DEF Wanting, Behind, Identifiers
<1>2. ts[a] \in Starters /\ ts[b] \in Enders
  BY DEF ProperText
<1>3. ASSUME NEW i \in a + 1..b PROVE GoesByName(ts, i)
  <2>1. CASE i \in a + 1..k - 1 \/ i \in k + 2..b
    BY <2>1 DEF ProperText
  <2>2. CASE i = k
    BY <1>1, <2>2 DEF ProperText, Goes, GoesByName
  <2>3. CASE i = k + 1
    BY <1>1, <2>3 DEF ProperText, Goes, GoesByName
  <2>4. QED
    BY <1>0, <2>1, <2>2, <2>3
<1>4. ASSUME NEW q \in a..b, Opens(ts, q) PROVE StartsFactor(ts, q, b)
  <2>1. CASE q \in a..k - 1
    <3>1. StartsFactor(ts, q, k - 1) /\ k - 1 < b /\ k - 1 \in Nat /\ q \in Nat /\ (k - 1) + 1 = k
      BY <1>0, <1>4, <2>1 DEF ProperText
    <3>2. QED
      BY <1>0, <1>1, <3>1, StartsWithin
  <2>2. CASE q = k
    BY <1>1, <1>4, <2>2 DEF Opens
  <2>3. CASE q \in k + 1..b
    BY <1>4, <2>3 DEF ProperText
  <2>4. QED
    BY <1>0, <2>1, <2>2, <2>3
<1>5. QED
  BY <1>2, <1>3, <1>4 DEF ProperText

\* Every list of items is proper, from the start: by length.
LEMMA ItemsAreText ==
  ASSUME NEW T, NEW ts \in Seq(T), NEW to \in 1..Len(ts), ItemLists(ts, Derivations(ts))[to] # {}
  PROVE  ProperText(ts, 1, to)
<1> DEFINE L == ItemLists(ts, Derivations(ts))
           S == {n \in Nat : \A t \in 1..n : t <= Len(ts) /\ L[t] # {} => ProperText(ts, 1, t)}
<1>0. Len(ts) \in Nat
  BY LenProperties
<1>1. 0 \in S
  OBVIOUS
<1>2. ASSUME NEW n \in Nat, n \in S PROVE n + 1 \in S
  <2>1. ASSUME NEW t \in 1..Len(ts), t = n + 1, NEW x \in L[t] PROVE ProperText(ts, 1, t)
    <3>1. t \in 0..Len(ts) /\ 1 \in 1..Len(ts) /\ ~BehindDot(ts, 1)
      BY <1>0 DEF BehindDot
    <3>2. CASE \E i \in ItemsOver(ts, Derivations(ts), 1, t) : x = <<i>>
      BY <3>1, <3>2, ItemIsText
    <3>3. ASSUME NEW k, ItemCut(ts, Derivations(ts), L, x, t, k) PROVE ProperText(ts, 1, t)
      <4>1. /\ k \in 2..t - 1 /\ ts[k] = "COMMA"
            /\ L[k - 1] # {} /\ ItemsOver(ts, Derivations(ts), k + 1, t) # {}
        BY <3>3 DEF ItemCut
      <4>2. k - 1 \in 1..n /\ k - 1 <= Len(ts) /\ k + 1 \in 1..Len(ts) /\ t \in k + 1..Len(ts)
        BY <1>0, <2>1, <4>1
      <4>3. ~BehindDot(ts, k + 1)
        BY <1>0, <4>1 DEF BehindDot
      <4>4. ProperText(ts, 1, k - 1)
        BY <1>2, <4>1, <4>2
      <4>5. ProperText(ts, k + 1, t)
        BY <4>1, <4>2, <4>3, ItemIsText
      <4>6. k \in Nat /\ 1 < k /\ k < t
        BY <1>0, <2>1, <4>1
      <4>7. QED
        BY <3>1, <4>1, <4>4, <4>5, <4>6, TextJoined
    <3> HIDE DEF L
    <3>4. (\E i \in ItemsOver(ts, Derivations(ts), 1, t) : x = <<i>>)
          \/ \E k : ItemCut(ts, Derivations(ts), L, x, t, k)
      BY <2>1, <3>1, InItemLists DEF L
    <3>5. QED
      BY <3>2, <3>3, <3>4
  <2> HIDE DEF L
  <2>2. \A t \in 1..n + 1 : t \in 1..n \/ t = n + 1
    OBVIOUS
  <2>3. \A t \in 1..n + 1 : t <= Len(ts) => t \in 1..Len(ts)
    BY <1>0
  <2>4. QED
    BY <1>2, <2>1, <2>2, <2>3
<1>3. to \in S
  <2> HIDE DEF S
  <2>1. to \in Nat /\ \A n \in Nat : n < to /\ n \in S => n + 1 \in S
    BY <1>2
  <2>2. 0..to \subseteq S
    BY <1>1, <2>1, CountUp
  <2>3. QED
    BY <2>1, <2>2
<1>4. QED
  BY <1>0, <1>3

LEMMA ParsedIsText ==
  ASSUME NEW T, NEW ts \in Seq(T), NEW m \in {"formula", "document"}, Parses(m, ts) # {}
  PROVE  Len(ts) > 0 /\ ProperText(ts, 1, Len(ts))
<1>0. Len(ts) \in Nat
  BY LenProperties
<1>1. ts # << >> /\ Len(ts) > 0
  BY <1>0, EmptySeq DEF Parses
<1>2. Len(ts) \in 1..Len(ts) /\ 1 \in 1..Len(ts) /\ ~BehindDot(ts, 1)
  BY <1>0, <1>1 DEF BehindDot
<1>3. CASE m = "formula"
  <2>1. Over(ts, 1, 1, Len(ts)) # {}
    BY <1>1, <1>3 DEF Parses, Over
  <2>2. QED
    BY <1>1, <1>2, <2>1, SpanIsText
<1>4. CASE m # "formula"
  <2>1. ItemLists(ts, Derivations(ts))[Len(ts)] # {}
    BY <1>1, <1>4 DEF Parses
  <2>2. QED
    BY <1>1, <1>2, <2>1, ItemsAreText
<1>5. QED
  BY <1>3, <1>4

-----------------------------------------------------------------------------
(***************************************************************************)
(* Of two lists from one place, where the longer one does not go on with a *)
(* comma, it is the last element of the shorter one that goes on.          *)
(***************************************************************************)
LastGoesOn(ts, E, g, z, t, u) ==
  \E f \in g..t : \E v \in t + 1..u :
    /\ Last(z) \in E[<<f, t>>] /\ E[<<f, v>>] # {}
    /\ v = u \/ ts[v + 1] = "COMMA"

LEMMA ListEnds ==
  ASSUME NEW T, NEW ts \in Seq(T), NEW E, NEW L, NEW g \in 1..Len(ts), AreLists(ts, E, L, g),
         NEW t \in g..Len(ts), NEW z \in L[t]
  PROVE  /\ Single(E, g, z, t) => Last(z) \in E[<<g, t>>]
         /\ \A k : Cut(ts, E, L, g, z, t, k) => Last(z) \in E[<<k + 1, t>>]
<1>1. ASSUME NEW i \in E[<<g, t>>], z = <<i>> PROVE Last(z) = i
  BY <1>1 DEF Last
<1>2. ASSUME NEW k, Cut(ts, E, L, g, z, t, k) PROVE Last(z) \in E[<<k + 1, t>>]
  <2>1. k - 1 \in g..Len(ts)
    BY <1>2 DEF Cut
  <2>2. PICK a \in L[k - 1], i \in E[<<k + 1, t>>] : z = Append(a, i)
    BY <1>2 DEF Cut
  <2>3. Listing(a)
    BY <2>1, ElementsOf
  <2>4. QED
    BY <2>2, <2>3, ListingGrows DEF Last
<1>3. QED
  BY <1>1, <1>2 DEF Single

LEMMA LongerListSplits ==
  ASSUME NEW T, NEW ts \in Seq(T), NEW E, NEW L, NEW C, "COMMA" \notin C,
         NEW g \in 1..Len(ts), AreLists(ts, E, L, g), ElementsGoOn(ts, E, C, g, Len(ts), Len(ts)),
         NEW t \in g..Len(ts), NEW z \in L[t], ts[t + 1] # "COMMA",
         NEW u \in g..Len(ts), NEW x \in L[u], t < u
  PROVE  LastGoesOn(ts, E, g, z, t, u)
<1> DEFINE S == {n \in Nat : \A v \in t + 1..Len(ts) : v <= n /\ L[v] # {} => LastGoesOn(ts, E, g, z, t, v)}
<1>0. Len(ts) \in Nat /\ Len(ts) \in g..Len(ts)
  BY LenProperties
<1>1. 0 \in S
  OBVIOUS
<1>2. ASSUME NEW n \in Nat, n \in S PROVE n + 1 \in S
  <2>1. ASSUME NEW v \in t + 1..Len(ts), v = n + 1, NEW y \in L[v] PROVE LastGoesOn(ts, E, g, z, t, v)
    <3>0. v \in g..Len(ts) /\ t < v
      BY <1>0
    <3>1. ASSUME NEW w \in g..Len(ts), NEW a \in L[w]
          PROVE  /\ w < t /\ ts[w + 1] = "COMMA" => ~Single(E, g, z, t) /\ \A k : Cut(ts, E, L, g, z, t, k) => k > w
                 /\ w < v /\ ts[w + 1] = "COMMA" => ~Single(E, g, y, v) /\ \A k : Cut(ts, E, L, g, y, v, k) => k > w
      <4>1. ListGoesOn(ts, E, L, C, g, a, w, z, t) /\ ListGoesOn(ts, E, L, C, g, a, w, y, v)
        BY <1>0, <3>0, ListsGoOn
      <4>2. QED
        BY <4>1 DEF ListGoesOn
    <3>2. ASSUME NEW m, Cut(ts, E, L, g, z, t, m)
          PROVE  /\ m \in g + 1..t - 1 /\ m - 1 \in g..Len(ts) /\ ~Single(E, g, y, v)
                 /\ \A k : Cut(ts, E, L, g, y, v, k) => k > m - 1
      <4>1. m \in g + 1..t - 1 /\ ts[m] = "COMMA" /\ L[m - 1] # {}
        BY <3>2 DEF Cut
      <4>2. m - 1 \in g..Len(ts) /\ m - 1 < v /\ (m - 1) + 1 = m
        BY <1>0, <3>0, <4>1
      <4>3. QED
        BY <3>1, <4>1, <4>2
    <3>3. CASE Single(E, g, y, v)
      <4>1. Single(E, g, z, t)
        <5>1. \A m : ~Cut(ts, E, L, g, z, t, m)
          BY <3>2, <3>3
        <5>2. QED
          BY <5>1 DEF AreLists
      <4>2. Last(z) \in E[<<g, t>>] /\ E[<<g, v>>] # {}
        BY <3>3, <4>1, ListEnds DEF Single
      <4>3. g \in g..t /\ v \in t + 1..v
        BY <1>0
      <4>4. QED
        BY <4>2, <4>3 DEF LastGoesOn
    <3>4. ASSUME NEW k, Cut(ts, E, L, g, y, v, k) PROVE LastGoesOn(ts, E, g, z, t, v)
      <4>1. k \in g + 1..v - 1 /\ ts[k] = "COMMA" /\ L[k - 1] # {} /\ E[<<k + 1, v>>] # {}
        BY <3>4 DEF Cut
      <4>2. k - 1 \in g..Len(ts) /\ (k - 1) + 1 = k /\ k # t + 1 /\ k \in Nat
        BY <1>0, <3>0, <4>1
      <4>3. CASE k - 1 > t
        <5>1. k - 1 \in t + 1..Len(ts) /\ k - 1 <= n
          BY <1>0, <2>1, <4>1, <4>3
        <5>2. LastGoesOn(ts, E, g, z, t, k - 1)
          BY <1>2, <4>1, <5>1
        <5>3. PICK f \in g..t : \E w \in t + 1..k - 1 :
                 /\ Last(z) \in E[<<f, t>>] /\ E[<<f, w>>] # {}
                 /\ w = k - 1 \/ ts[w + 1] = "COMMA"
          BY <5>2 DEF LastGoesOn
        <5>4. PICK w \in t + 1..k - 1 :
                 /\ Last(z) \in E[<<f, t>>] /\ E[<<f, w>>] # {}
                 /\ w = k - 1 \/ ts[w + 1] = "COMMA"
          BY <5>3
        <5>5. w \in t + 1..v /\ ts[w + 1] = "COMMA"
          BY <1>0, <3>0, <4>1, <4>2, <5>4
        <5>6. QED
          BY <5>4, <5>5 DEF LastGoesOn
      <4>4. CASE k - 1 < t
        <5>1. ~Single(E, g, z, t) /\ \A m : Cut(ts, E, L, g, z, t, m) => m > k - 1
          BY <3>1, <4>1, <4>2, <4>4
        <5>2. PICK m : Cut(ts, E, L, g, z, t, m)
          BY <5>1 DEF AreLists
        <5>3. m \in g + 1..t - 1 /\ m > k - 1 /\ k > m - 1
          BY <3>2, <3>4, <5>1, <5>2
        <5>4. m = k /\ k + 1 \in g..t /\ v \in t + 1..v
          BY <1>0, <3>0, <4>1, <5>3
        <5>5. Last(z) \in E[<<k + 1, t>>]
          BY <5>2, <5>4, ListEnds
        <5>6. QED
          BY <4>1, <5>4, <5>5 DEF LastGoesOn
      <4>5. QED
        BY <1>0, <4>2, <4>3, <4>4
    <3>5. QED
      BY <3>0, <3>3, <3>4 DEF AreLists
  <2>2. \A v \in t + 1..Len(ts) : v <= n + 1 => v <= n \/ v = n + 1
    BY <1>0
  <2>3. QED
    BY <1>2, <2>1, <2>2
<1>3. u \in S
  <2> HIDE DEF S
  <2>1. u \in Nat /\ \A n \in Nat : n < u /\ n \in S => n + 1 \in S
    BY <1>0, <1>2
  <2>2. 0..u \subseteq S
    BY <1>1, <2>1, CountUp
  <2>3. QED
    BY <2>1, <2>2
<1>4. QED
  BY <1>0, <1>3

-----------------------------------------------------------------------------
(***************************************************************************)
(* In a document it is the last item that goes on: one without a name with *)
(* what a tree goes on with, or with a name; one that has a name cannot.   *)
(***************************************************************************)
LEMMA DocumentsGoOn ==
  ASSUME NEW T, NEW ts \in Seq(T), NEW t \in 1..Len(ts), NEW z \in ItemLists(ts, Derivations(ts))[t],
         ts[t + 1] # "COMMA", NEW u \in 1..Len(ts), NEW x \in ItemLists(ts, Derivations(ts))[u], t < u
  PROVE  /\ Last(z).alias = 0
         /\ \/ ts[t + 1] \in Onward(1)
            \/ ts[t + 1] = "AS" /\ t + 2 \in 1..u /\ ts[t + 2] \in Identifiers
<1> DEFINE L == ItemLists(ts, Derivations(ts))
           C == Onward(1) \cup {"AS"}
           E == Items(ts)
<1>0. Len(ts) \in Nat /\ Len(ts) > 0 /\ 1 \in 1..Len(ts) /\ 1 \in 1..4
  BY LenProperties
<1>1. ElementsGoOn(ts, E, C, 1, Len(ts), Len(ts))
  <2>1. ASSUME NEW from \in 1..Len(ts), NEW v \in from..Len(ts), NEW w \in from..Len(ts),
               NEW p \in Items(ts)[<<from, v>>], NEW q \in Items(ts)[<<from, w>>]
        PROVE  GoesOn(ts, C, p, v, q, w) /\ GoesOn(ts, C, q, w, p, v)
    <3>1. p \in ItemsOver(ts, Derivations(ts), from, v) /\ q \in ItemsOver(ts, Derivations(ts), from, w)
      BY DEF Items
    <3>2. QED
      BY <3>1, ItemGoesOn
  <2>2. QED
    BY <2>1 DEF ElementsGoOn
<1>2. AreLists(ts, E, L, 1) /\ "COMMA" \notin C /\ "AS" \notin Onward(1)
  BY <1>0, ItemsAreLists, OnwardMeans
<1>3. LastGoesOn(ts, E, 1, z, t, u)
  <2> HIDE DEF L, C, E
  <2>1. z \in L[t] /\ x \in L[u]
    BY DEF L
  <2>2. QED
    BY <1>0, <1>1, <1>2, <2>1, LongerListSplits
<1>4. PICK f \in 1..t : \E v \in t + 1..u : Last(z) \in E[<<f, t>>] /\ E[<<f, v>>] # {}
  BY <1>3 DEF LastGoesOn
<1>5. PICK v \in t + 1..u : Last(z) \in E[<<f, t>>] /\ E[<<f, v>>] # {}
  BY <1>4
<1>6. f \in 1..Len(ts) /\ t \in 0..Len(ts) /\ v \in 0..Len(ts)
  BY <1>0
<1>7. Last(z) \in ItemsOver(ts, Derivations(ts), f, t) /\ ItemsOver(ts, Derivations(ts), f, v) # {}
  BY <1>5, <1>6 DEF Items
<1>8. PICK y : y \in ItemsOver(ts, Derivations(ts), f, v)
  BY <1>7
<1>9. ASSUME NEW a \in f..Len(ts), NEW b \in f..Len(ts), a < b, Over(ts, 1, f, a) # {}, Over(ts, 1, f, b) # {}
      PROVE  ts[a + 1] \in Onward(1)
  <2>1. PICK d \in Over(ts, 1, f, a), e \in Over(ts, 1, f, b) : TRUE
    BY <1>9
  <2>2. TreeGoesOn(ts, d, a, 1, e, b)
    BY <1>0, <1>6, <2>1, TreeGoesOnAlways
  <2>3. QED
    BY <1>9, <2>2 DEF TreeGoesOn, GoesOn
<1>10. \E w \in {v, v - 2} : /\ Over(ts, 1, f, w) # {} /\ w \in f..Len(ts)
                             /\ w = v \/ (ts[v - 1] = "AS" /\ ts[v] \in Identifiers /\ w + 1 = v - 1)
  <2>1. CASE \E d \in Over(ts, 1, f, v) : y = Item(d, 0)
    <3>1. v \in f..Len(ts)
      BY <1>0
    <3>2. QED
      BY <2>1, <3>1
  <2>2. CASE /\ v > f + 1 /\ ts[v - 1] = "AS" /\ ts[v] \in Identifiers
             /\ \E d \in Over(ts, 1, f, v - 2) : y = Item(d, v)
    <3>1. v - 2 \in f..Len(ts) /\ (v - 2) + 1 = v - 1
      BY <1>0, <2>2
    <3>2. QED
      BY <2>2, <3>1
  <2>3. QED
    BY <1>8, <2>1, <2>2, InItems
<1>11. PICK w \in {v, v - 2} : /\ Over(ts, 1, f, w) # {} /\ w \in f..Len(ts)
                               /\ w = v \/ (ts[v - 1] = "AS" /\ ts[v] \in Identifiers /\ w + 1 = v - 1)
  BY <1>10
<1>12. CASE \E d \in Over(ts, 1, f, t) : Last(z) = Item(d, 0)
  <2>1. Last(z).alias = 0 /\ Over(ts, 1, f, t) # {} /\ t \in f..Len(ts)
    BY <1>0, <1>12 DEF Item
  <2>2. CASE w > t
    BY <1>9, <1>11, <2>1, <2>2
  <2>3. CASE w = t
    <3>1. w # v /\ ts[v - 1] = "AS" /\ ts[v] \in Identifiers /\ v - 1 = t + 1 /\ v = t + 2
      BY <1>0, <1>11, <2>3
    <3>2. t + 2 \in 1..u
      BY <1>0, <3>1
    <3>3. QED
      BY <2>1, <3>1, <3>2
  <2>4. CASE w < t
    <3>1. ts[w + 1] \in Onward(1)
      BY <1>9, <1>11, <2>1, <2>4
    <3>2. ts[w + 1] = "AS"
      BY <1>0, <1>11, <2>4
    <3>3. QED
      BY <1>2, <3>1, <3>2
  <2>5. QED
    BY <1>0, <1>11, <2>2, <2>3, <2>4
<1>13. CASE /\ t > f + 1 /\ ts[t - 1] = "AS" /\ ts[t] \in Identifiers
            /\ \E d \in Over(ts, 1, f, t - 2) : Last(z) = Item(d, t)
  <2>1. t - 2 \in f..Len(ts) /\ t - 2 < w /\ (t - 2) + 1 = t - 1 /\ Over(ts, 1, f, t - 2) # {}
    BY <1>0, <1>11, <1>13
  <2>2. ts[t - 1] \in Onward(1)
    BY <1>9, <1>11, <2>1
  <2>3. QED
    BY <1>2, <1>13, <2>2
<1>14. QED
  BY <1>7, <1>12, <1>13, InItems

-----------------------------------------------------------------------------
(***************************************************************************)
(* A text that goes on with the current token is no text of the language   *)
(* when the parser fails there.                                            *)
(***************************************************************************)
Continues(ts) ==
  /\ ReadFrom(ts)
  /\ IF Current = "EOF" THEN Len(ts) = Len(tokens) - 1
                        ELSE Len(tokens) <= Len(ts) /\ ts[Len(tokens)] = Current

LEMMA ContinuesText ==
  ASSUME TypeInv, label # "new", NEW ts \in Seq(TokenTypes), Continues(ts)
  PROVE  /\ Pos = Len(tokens) /\ Pos \in Nat /\ Pos >= 1 /\ Len(ts) \in Nat /\ Current = tokens[Pos]
         /\ Pos - 1 <= Len(ts) /\ \A i \in 1..Pos - 1 : ts[i] = tokens[i]
         /\ Current # "EOF" => Pos <= Len(ts) /\ ts[Pos] = tokens[Pos]
         /\ Current = "EOF" => Pos = Len(ts) + 1
BY PosInText, LenProperties DEF Continues, ReadFrom, Pos, Current, Last

\* What may stand behind what, seen by the parser.
LEMMA GoesWell ==
  ASSUME TypeInv, label # "new", NEW ts \in Seq(TokenTypes), Continues(ts), Parses(mode, ts) # {}
  PROVE  /\ Pos = 1 => Current \in Starters
         /\ Pos > 1 => IF Current = "EOF" THEN tokens[Pos - 1] \in Enders ELSE GoesByName(tokens, Pos)
<1>1. /\ Pos = Len(tokens) /\ Pos \in Nat /\ Pos >= 1 /\ Len(ts) \in Nat /\ Current = tokens[Pos]
      /\ Pos - 1 <= Len(ts) /\ \A i \in 1..Pos - 1 : ts[i] = tokens[i]
      /\ Current # "EOF" => Pos <= Len(ts) /\ ts[Pos] = tokens[Pos]
      /\ Current = "EOF" => Pos = Len(ts) + 1
  BY ContinuesText
<1>2. Len(ts) > 0 /\ ProperText(ts, 1, Len(ts))
  <2>1. mode \in {"formula", "document"}
    BY DEF TypeInv, ItemsOK
  <2>2. QED
    BY <2>1, ParsedIsText
<1>3. CASE Pos = 1
  BY <1>1, <1>2, <1>3 DEF ProperText
<1>4. CASE Pos > 1 /\ Current = "EOF"
  <2>1. Pos - 1 = Len(ts) /\ Pos - 1 \in 1..Pos - 1
    BY <1>1, <1>4
  <2>2. QED
    BY <1>1, <1>2, <1>4, <2>1 DEF ProperText
<1>5. CASE Pos > 1 /\ Current # "EOF"
  <2>1. Pos \in 1 + 1..Len(ts) /\ Pos - 1 \in 1..Pos - 1 /\ ts[Pos] = tokens[Pos]
    BY <1>1, <1>5
  <2>2. GoesByName(ts, Pos) /\ ts[Pos - 1] = tokens[Pos - 1]
    BY <1>1, <1>2, <2>1 DEF ProperText
  <2>3. Pos > 2 => ts[Pos - 2] = tokens[Pos - 2]
    BY <1>1
  <2>4. BehindDot(ts, Pos - 1) <=> BehindDot(tokens, Pos - 1)
    <3>1. Pos - 1 > 1 => (Pos - 1) - 1 \in 1..Pos - 1
      BY <1>1
    <3>2. QED
      BY <1>1, <3>1 DEF BehindDot
  <2>5. QED
    BY <1>5, <2>1, <2>2, <2>3, <2>4 DEF GoesByName, Goes
<1>6. QED
  BY <1>1, <1>3, <1>4, <1>5

\* A hole is where an expression is wanted.
LEMMA HoleStarts ==
  ASSUME NEW ts, NEW frames, Listing(frames), NEW p \in Nat, NEW start, NEW g,
         Hang(ts, frames, p, start, g), Begun(ts, start)
  PROVE  g.from = 1 \/ ts[g.from - 1] \in Wanting
<1>1. CASE frames = << >>
  <2>1. Len(frames) = 0
    BY <1>1
  <2>2. g.from = start
    BY <2>1, HangTop
  <2>3. QED
    BY <2>2 DEF Begun, Wanting
<1>2. CASE frames # << >>
  <2>1. PICK o \in Holes(p) : Waits(ts, frames[Len(frames)], o, g)
    BY <1>2, HangPopped
  <2>2. o.from \in 1..p
    BY DEF Holes
  <2>3. CASE ParenWaits(ts, frames[Len(frames)], o, g)
    <3>1. g.from - 1 = o.from /\ ts[o.from] = "LPAREN"
      BY <2>2, <2>3 DEF ParenWaits, Hole
    <3>2. QED
      BY <3>1 DEF Wanting
  <2>4. CASE NegateWaits(ts, frames[Len(frames)], o, g)
    <3>1. g.from - 1 = o.from /\ ts[o.from] = "MINUS"
      BY <2>2, <2>4 DEF NegateWaits, Hole
    <3>2. QED
      BY <3>1 DEF Wanting, AnyOperator, Additions
  <2>5. CASE BinaryWaits(ts, frames[Len(frames)], o, g)
    <3>1. PICK at \in o.from + 1..g.from - 1, j \in o.level..3 :
            ts[at] \in Operators[j] /\ g = Hole(at + 1, j + 1)
      BY <2>5 DEF BinaryWaits
    <3>2. j \in 1..3 /\ o.from \in Int /\ at \in Int
      <4>1. o.level \in 1..4
        BY DEF Holes
      <4>2. QED
        BY <2>2, <4>1
    <3>3. g.from - 1 = at
      BY <3>1, <3>2 DEF Hole
    <3>4. QED
      BY <3>1, <3>2, <3>3, TokenClasses DEF Wanting
  <2>6. CASE CallWaits(ts, frames[Len(frames)], o, g)
    <3>1. ts[o.from + 1] = "LPAREN" /\ (g.from = o.from + 2 \/ ts[g.from - 1] = "COMMA")
      BY <2>6 DEF CallWaits
    <3>2. (o.from + 2) - 1 = o.from + 1
      BY <2>2
    <3>3. QED
      BY <3>1, <3>2 DEF Wanting
  <2>7. QED
    BY <2>1, <2>3, <2>4, <2>5, <2>6 DEF Waits
<1>3. QED
  BY <1>1, <1>2

\* The failures that two neighbouring tokens show.
LEMMA NothingFits ==
  ASSUME TypeInv, Settled, NEW ts \in Seq(TokenTypes), Continues(ts),
         \/ Empty \/ SegmentMissing \/ EmptyItem \/ TrailingComma
  PROVE  Parses(mode, ts) = {}
<1> SUFFICES ASSUME Parses(mode, ts) # {} PROVE FALSE
  OBVIOUS
<1>1. label \in {"start", "segment", "item", "next_item"} /\ label # "new"
  BY DEF Empty, SegmentMissing, EmptyItem, TrailingComma
<1>2. /\ Pos \in Nat /\ Pos >= 1
      /\ Pos = 1 => Current \in Starters
      /\ Pos > 1 => IF Current = "EOF" THEN tokens[Pos - 1] \in Enders ELSE GoesByName(tokens, Pos)
  BY <1>1, ContinuesText, GoesWell
<1>3. Current = tokens[Pos]
  BY <1>1, ContinuesText
<1>4. CASE Empty
  BY <1>2, <1>4 DEF Empty, Settled, Starters, Identifiers
<1>5. CASE SegmentMissing
  <2>1. Pos > 1 /\ tokens[Pos - 1] = "DOT" /\ Current \notin Identifiers
    BY <1>5 DEF SegmentMissing, Settled, BehindDot
  <2>2. QED
    BY <1>2, <1>3, <2>1, TokenClasses DEF GoesByName, Goes, Wanting, Enders, Identifiers
<1>6. CASE EmptyItem
  <2>1. Current = "COMMA" /\ (Pos = 1 \/ tokens[Pos - 1] = "COMMA")
    BY <1>6 DEF EmptyItem, Settled
  <2>2. QED
    BY <1>2, <1>3, <2>1, TokenClasses DEF GoesByName, Goes, Wanting, Enders, Starters, Identifiers
<1>7. CASE TrailingComma
  <2>1. Current = "EOF" /\ tokens[Pos - 1] = "COMMA"
    BY <1>7 DEF TrailingComma, Settled
  <2>2. QED
    BY <1>2, <2>1 DEF Enders, Starters, Identifiers
<1>8. QED
  BY <1>4, <1>5, <1>6, <1>7

LEMMA NoFactor ==
  ASSUME TypeInv, Settled, NEW ts \in Seq(TokenTypes), Continues(ts), MakesAs(label, ts), FactorFails
  PROVE  Parses(mode, ts) = {}
<1> SUFFICES ASSUME Parses(mode, ts) # {} PROVE FALSE
  OBVIOUS
<1>1. label = "factor" /\ label # "new" /\ Current \notin Starters
  BY DEF FactorFails, Starters, StartsExpression, Identifiers
<1>2. /\ Pos \in Nat /\ Pos >= 1 /\ Current = tokens[Pos]
      /\ \A i \in 1..Pos - 1 : ts[i] = tokens[i]
  BY <1>1, ContinuesText
<1>3. /\ Pos = 1 => Current \in Starters
      /\ Pos > 1 => IF Current = "EOF" THEN tokens[Pos - 1] \in Enders ELSE GoesByName(tokens, Pos)
  BY <1>1, GoesWell
<1>4. PICK start, g : Placed(ts, start, g)
  BY <1>1, PlacedInside DEF InItemLabels
<1>5. g.from = Pos /\ Listing(stack) /\ Begun(ts, start) /\ Hang(ts, stack, Pos, start, g)
  BY <1>1, <1>4 DEF Placed, InFactorAt, InLoopsAt, Pos, TypeInv, StackOK
<1>6. Pos > 1 /\ tokens[Pos - 1] \in Wanting
  <2>1. g.from = 1 \/ ts[g.from - 1] \in Wanting
    BY <1>2, <1>5, HoleStarts
  <2>2. QED
    BY <1>1, <1>2, <1>3, <1>5, <2>1
<1>7. tokens[Pos - 1] \notin Enders \cup {"DOT", "AS"} \cup Identifiers
  BY <1>6, TokenClasses DEF Wanting, Enders, Identifiers
<1>8. tokens[Pos - 1] = "LPAREN" /\ Current = "RPAREN" /\ Pos > 2 /\ tokens[Pos - 2] \in Identifiers
  BY <1>1, <1>2, <1>3, <1>6, <1>7 DEF GoesByName, Goes
<1>9. ts[Pos - 1] = "LPAREN" /\ ts[Pos - 2] \in Identifiers
  BY <1>2, <1>8
<1>10. stack # << >>
  <2>1. stack = << >> => g.from = start
    BY <1>4 DEF Placed
  <2>2. QED
    BY <1>5, <1>8, <1>9, <2>1 DEF Begun
<1>11. PICK o \in Holes(Len(tokens)) :
         /\ Hang(ts, Front(stack), Len(tokens), start, o) /\ Waits(ts, Top, o, g)
         /\ o.from \in 1..Len(tokens) /\ o.level \in 1..4
  BY <1>4, <1>10, FramePopped
<1>12. CASE ParenWaits(ts, Top, o, g)
  <2>1. g.from = o.from + 1
    BY <1>12 DEF ParenWaits, Hole
  <2>2. o.from = Pos - 1 /\ o.from - 1 = Pos - 2 /\ o.from # 1
    BY <1>2, <1>5, <1>8, <1>11, <2>1
  <2>3. Listing(Front(stack))
    BY <1>5, <1>10, ListingShortens
  <2>4. o.from = 1 \/ ts[o.from - 1] \in Wanting
    BY <1>2, <1>5, <1>11, <2>3, HoleStarts DEF Pos
  <2>5. QED
    BY <1>9, <2>2, <2>4, TokenClasses DEF Wanting, Identifiers
<1>13. CASE NegateWaits(ts, Top, o, g)
  <2>1. g.from = o.from + 1 /\ ts[o.from] = "MINUS"
    BY <1>13 DEF NegateWaits, Hole
  <2>2. QED
    BY <1>2, <1>5, <1>9, <1>11, <2>1
<1>14. CASE BinaryWaits(ts, Top, o, g)
  <2>1. PICK at \in o.from + 1..g.from - 1, j \in o.level..3 :
          ts[at] \in Operators[j] /\ g = Hole(at + 1, j + 1)
    BY <1>14 DEF BinaryWaits
  <2>2. j \in 1..3 /\ at = Pos - 1
    BY <1>2, <1>5, <1>11, <2>1 DEF Hole
  <2>3. QED
    BY <1>9, <2>1, <2>2, OperatorsApart
<1>15. CASE CallWaits(ts, Top, o, g)
  <2>1. Top = Leaf("call", o.from) /\ g.from = o.from + 2
    BY <1>5, <1>9, <1>15 DEF CallWaits
  <2>2. Top = Leaf("call", Pos - 2)
    BY <1>2, <1>5, <1>11, <2>1
  <2>3. QED
    BY <1>1, <1>8, <2>2 DEF Settled
<1>16. QED
  BY <1>11, <1>12, <1>13, <1>14, <1>15 DEF Waits

\* Behind an operand that is complete, and no operator: no tree goes on.
LEMMA NothingGoesOn ==
  ASSUME TypeInv, label # "new", Pos > 1, Ended, NoOperatorFrom(1),
         NEW ts \in Seq(TokenTypes), Continues(ts), Parses(mode, ts) # {}, Current # "EOF"
  PROVE  Current \notin Onward(1)
<1>1. GoesByName(tokens, Pos) /\ Current = tokens[Pos]
  BY GoesWell, ContinuesText
<1>2. Current \in {"LPAREN", "DOT"} => MayFollow(tokens, Pos)
  BY <1>1, TokenClasses DEF GoesByName, Goes, MayFollow, Wanting, Enders, Starters, Behind, Identifiers
<1>3. Current \notin {"LPAREN", "DOT"}
  BY <1>2 DEF Ended
<1>4. \A j \in 1..3 : Current \notin Operators[j]
  BY DEF NoOperatorFrom
<1>5. QED
  BY <1>3, <1>4 DEF Onward

\* What an opening parenthesis begins, in a text of the language.
LEMMA OpensFactor ==
  ASSUME TypeInv, NEW ts \in Seq(TokenTypes), Parses(mode, ts) # {}, NEW q \in 1..Len(ts), Opens(ts, q)
  PROVE  \E k \in q..Len(ts) : Over(ts, 4, q, k) # {} /\ (k = Len(ts) \/ ts[k + 1] \in Behind \cup {"AS"})
<1>1. ProperText(ts, 1, Len(ts))
  <2>1. mode \in {"formula", "document"}
    BY DEF TypeInv, ItemsOK
  <2>2. QED
    BY <2>1, ParsedIsText
<1>2. QED
  BY <1>1 DEF ProperText, StartsFactor

\* A value that the top frame waits for.
LEMMA ValueWaited ==
  ASSUME TypeInv, label = "value", NEW ts \in Seq(TokenTypes), Continues(ts), MakesAs(label, ts), stack # << >>
  PROVE  \E o, g \in Holes(Pos) :
           /\ Waits(ts, Top, o, g) /\ (o.from = 1 \/ ts[o.from - 1] \in Wanting)
           /\ o.from \in 1..Pos /\ g.level = 1 /\ g.from \in 1..Pos - 1 /\ node \in Over(ts, 1, g.from, Pos - 1)
<1>1. PICK start, g : Placed(ts, start, g)
  BY PlacedInside DEF InItemLabels
<1>2. /\ Pos = Len(tokens) /\ Pos \in Nat /\ Listing(stack) /\ Begun(ts, start)
      /\ g \in Holes(Pos) /\ g.level = 1 /\ g.from \in 1..Pos - 1 /\ node \in Over(ts, 1, g.from, Pos - 1)
  <2>1. Pos = Len(tokens) /\ Pos \in Nat
    BY ContinuesText
  <2>2. /\ Begun(ts, start) /\ g \in Holes(Pos) /\ g.from \in 1..Pos
        /\ g.level = 1 /\ g.from <= Pos - 1 /\ node \in Over(ts, 1, g.from, Pos - 1)
    BY <1>1, <2>1 DEF Placed, InFactorAt, InLoopsAt
  <2>3. QED
    BY <2>1, <2>2 DEF TypeInv, StackOK
<1>3. PICK o \in Holes(Pos) :
        /\ Hang(ts, Front(stack), Pos, start, o) /\ Waits(ts, Top, o, g)
        /\ o.from \in 1..Pos
  BY <1>1, <1>2, FramePopped
<1>4. Listing(Front(stack))
  BY <1>2, ListingShortens
<1>5. o.from = 1 \/ ts[o.from - 1] \in Wanting
  BY <1>2, <1>3, <1>4, HoleStarts
<1>6. QED
  BY <1>2, <1>3, <1>5

LEMMA NoParen ==
  ASSUME TypeInv, Settled, NEW ts \in Seq(TokenTypes), Continues(ts), MakesAs(label, ts), ParenFails
  PROVE  Parses(mode, ts) = {}
<1> SUFFICES ASSUME Parses(mode, ts) # {} PROVE FALSE
  OBVIOUS
<1>1. label = "value" /\ label # "new" /\ Top.kind = "paren" /\ Current # "RPAREN" /\ stack # << >>
  BY TopIsLast DEF ParenFails
<1>2. /\ Pos \in Nat /\ Pos - 1 <= Len(ts) /\ Current = tokens[Pos] /\ Len(ts) \in Nat
      /\ Current # "EOF" => Pos <= Len(ts) /\ ts[Pos] = tokens[Pos]
      /\ Current = "EOF" => Pos = Len(ts) + 1
  BY <1>1, ContinuesText
<1>3. PICK o, g \in Holes(Pos) :
        /\ Waits(ts, Top, o, g) /\ (o.from = 1 \/ ts[o.from - 1] \in Wanting)
        /\ o.from \in 1..Pos /\ g.level = 1 /\ g.from \in 1..Pos - 1 /\ node \in Over(ts, 1, g.from, Pos - 1)
  BY <1>1, ValueWaited
<1>4. ts[o.from] = "LPAREN" /\ g.from = o.from + 1
  BY <1>1, <1>3, KindTells DEF ParenWaits, Hole
<1>5. PICK q : q = o.from
  OBVIOUS
<1>6. q \in 1..Len(ts) /\ q + 1 \in 1..Len(ts) /\ Pos - 1 \in q + 1..Len(ts) /\ q + 1 = g.from
  BY <1>2, <1>3, <1>4, <1>5
<1>7. Opens(ts, q)
  BY <1>3, <1>4, <1>5, TokenClasses DEF Opens, Wanting, Identifiers
<1>8. PICK k \in q..Len(ts) : Over(ts, 4, q, k) # {}
  BY <1>6, <1>7, OpensFactor
<1>9. PICK f : f \in Over(ts, 4, q, k)
  BY <1>8
<1>10. k > q /\ Enclosure(ts, q, k, f)
  BY <1>4, <1>5, <1>6, <1>9, FactorKind DEF Identifiers
<1>11. ts[k] = "RPAREN" /\ f \in Over(ts, 1, q + 1, k - 1)
  BY <1>10 DEF Enclosure
<1>12. k - 1 \in q + 1..Len(ts)
  <2>1. k - 1 \in 0..Len(ts) /\ 1 \in 0..4
    BY <1>2, <1>6, <1>10
  <2>2. ~(k - 1 < q + 1)
    BY <1>6, <1>11, <2>1, NothingOver
  <2>3. QED
    BY <1>2, <1>6, <2>1, <2>2
<1>13. 1 \in 1..4 /\ "RPAREN" \notin Onward(1)
  <2>1. 1 \in 1..4
    OBVIOUS
  <2>2. QED
    BY <2>1, OnwardMeans
<1>14. TreeGoesOn(ts, node, Pos - 1, 1, f, k - 1) /\ TreeGoesOn(ts, f, k - 1, 1, node, Pos - 1)
  BY <1>3, <1>6, <1>11, <1>12, <1>13, TreeGoesOnAlways
<1>15. CASE k - 1 < Pos - 1
  <2>1. ts[(k - 1) + 1] \in Onward(1) /\ (k - 1) + 1 = k
    BY <1>6, <1>14, <1>15 DEF TreeGoesOn, GoesOn
  <2>2. QED
    BY <1>11, <1>13, <2>1
<1>16. CASE k - 1 > Pos - 1
  <2>1. ts[(Pos - 1) + 1] \in Onward(1) /\ (Pos - 1) + 1 = Pos
    BY <1>2, <1>14, <1>16 DEF TreeGoesOn, GoesOn
  <2>2. Current # "EOF" /\ Pos > 1
    BY <1>2, <1>6, <1>8, <1>16
  <2>3. Current \notin Onward(1)
    BY <1>1, <2>2, NothingGoesOn DEF Settled
  <2>4. QED
    BY <1>2, <2>1, <2>2, <2>3
<1>17. CASE k = Pos
  BY <1>1, <1>2, <1>8, <1>11, <1>17
<1>18. QED
  BY <1>2, <1>8, <1>15, <1>16, <1>17

\* What a name with an opening parenthesis begins is a call.
LEMMA NameOpensCall ==
  ASSUME NEW T, NEW ts \in Seq(T), NEW q \in 1..Len(ts), NEW k \in q..Len(ts), q < Len(ts),
         ts[q] \in Identifiers, ts[q + 1] = "LPAREN",
         Over(ts, 4, q, k) # {}, k = Len(ts) \/ ts[k + 1] \in Behind \cup {"AS"}
  PROVE  k > q + 1 /\ ts[k] = "RPAREN" /\ (k = q + 2 \/ Over(ts, 0, q + 2, k - 1) # {})
<1>1. PICK f : f \in Over(ts, 4, q, k)
  OBVIOUS
<1>2. "LPAREN" \notin Behind \cup {"AS"} /\ ts[q] \notin {"MINUS", "LPAREN"}
  BY TokenClasses DEF Behind, Identifiers
<1>3. k # q
  BY <1>2
<1>4. Call(ts, q, k, f)
  BY <1>1, <1>2, <1>3, FactorKind
<1>5. k # q + 1
  BY <1>4 DEF Call
<1>6. QED
  BY <1>3, <1>4, <1>5 DEF Call

LEMMA NoCall ==
  ASSUME TypeInv, Settled, NEW ts \in Seq(TokenTypes), Continues(ts), MakesAs(label, ts), CallFails
  PROVE  Parses(mode, ts) = {}
<1> SUFFICES ASSUME Parses(mode, ts) # {} PROVE FALSE
  OBVIOUS
<1>1. label = "value" /\ label # "new" /\ Top.kind = "call" /\ Current \notin {"COMMA", "RPAREN"} /\ stack # << >>
  BY TopIsLast DEF CallFails, InCall
<1>2. /\ Pos \in Nat /\ Pos - 1 <= Len(ts) /\ Current = tokens[Pos] /\ Len(ts) \in Nat
      /\ Current # "EOF" => Pos <= Len(ts) /\ ts[Pos] = tokens[Pos]
      /\ Current = "EOF" => Pos = Len(ts) + 1
  BY <1>1, ContinuesText
<1>3. PICK o, g \in Holes(Pos) :
        /\ Waits(ts, Top, o, g) /\ (o.from = 1 \/ ts[o.from - 1] \in Wanting)
        /\ o.from \in 1..Pos /\ g.level = 1 /\ g.from \in 1..Pos - 1 /\ node \in Over(ts, 1, g.from, Pos - 1)
  BY <1>1, ValueWaited
<1>4. CallWaits(ts, Top, o, g)
  BY <1>1, <1>3, KindTells
<1>5. PICK q : q = o.from
  OBVIOUS
<1>6. q + 2 <= Pos - 1 /\ \E a \in Over(ts, 0, q + 2, Pos - 1) : WithChild(Top, node) = Tree("call", q, a)
  <2>1. Pos - 1 \in g.from..Len(ts)
    BY <1>2, <1>3
  <2>2. QED
    BY <1>2, <1>3, <1>4, <1>5, <2>1, CallFilled
<1>7. PICK z : z \in Over(ts, 0, q + 2, Pos - 1)
  BY <1>6
<1>8. q \in 1..Len(ts) /\ q < Len(ts) /\ q + 2 \in 1..Len(ts) /\ Pos - 1 \in q + 2..Len(ts)
  BY <1>2, <1>3, <1>5, <1>6
<1>9. ts[q] \in Identifiers /\ ts[q + 1] = "LPAREN"
  BY <1>4, <1>5 DEF CallWaits
<1>10. Opens(ts, q)
  <2>1. ~BehindDot(ts, q)
    BY <1>3, <1>5, TokenClasses DEF BehindDot, Wanting
  <2>2. QED
    BY <1>8, <1>9, <2>1 DEF Opens
<1>11. PICK k \in q..Len(ts) : Over(ts, 4, q, k) # {} /\ (k = Len(ts) \/ ts[k + 1] \in Behind \cup {"AS"})
  BY <1>8, <1>10, OpensFactor
<1>12. k > q + 1 /\ ts[k] = "RPAREN" /\ (k = q + 2 \/ Over(ts, 0, q + 2, k - 1) # {})
  BY <1>8, <1>9, <1>11, NameOpensCall
<1>13. k # q + 2
  <2>1. 0 \in 0..4
    OBVIOUS
  <2>2. ts[q + 2] # "RPAREN"
    BY <1>7, <1>8, <2>1, NotClosedBefore
  <2>3. QED
    BY <1>12, <2>2
<1>14. PICK y : y \in Over(ts, 0, q + 2, k - 1)
  BY <1>12, <1>13
<1>15. k - 1 \in q + 2..Len(ts)
  BY <1>2, <1>8, <1>12, <1>13
<1>16. /\ GoesOn(ts, Onward(1) \cup {"COMMA"}, z, Pos - 1, y, k - 1)
       /\ GoesOn(ts, Onward(1) \cup {"COMMA"}, y, k - 1, z, Pos - 1)
  <2> DEFINE n == Burden(1, 1, q + 2, Pos - 1, k - 1) + Burden(1, 1, q + 2, k - 1, Pos - 1) + 1
  <2>1. /\ n \in Nat /\ Burden(1, 1, q + 2, Pos - 1, k - 1) < n
        /\ Burden(1, 1, q + 2, k - 1, Pos - 1) < n
    BY <1>2, <1>8, <1>15 DEF Burden
  <2> HIDE DEF n
  <2>2. Below(ts, n)
    BY <2>1, TreesGoOn
  <2>3. QED
    BY <1>7, <1>8, <1>14, <1>15, <2>1, <2>2, ArgumentsGoOn
<1>17. "RPAREN" \notin Onward(1) \cup {"COMMA"}
  <2>1. 1 \in 1..4
    OBVIOUS
  <2>2. QED
    BY <2>1, OnwardMeans
<1>18. CASE k - 1 < Pos - 1
  <2>1. ts[(k - 1) + 1] \in Onward(1) \cup {"COMMA"} /\ (k - 1) + 1 = k
    BY <1>8, <1>16, <1>18 DEF GoesOn
  <2>2. QED
    BY <1>12, <1>17, <2>1
<1>19. CASE k - 1 > Pos - 1
  <2>1. ts[(Pos - 1) + 1] \in Onward(1) \cup {"COMMA"} /\ (Pos - 1) + 1 = Pos
    BY <1>2, <1>16, <1>19 DEF GoesOn
  <2>2. Current # "EOF" /\ Pos > 1
    BY <1>2, <1>8, <1>11, <1>19
  <2>3. Current \notin Onward(1)
    BY <1>1, <2>2, NothingGoesOn DEF Settled
  <2>4. QED
    BY <1>1, <1>2, <2>1, <2>2, <2>3
<1>20. CASE k = Pos
  BY <1>1, <1>2, <1>11, <1>12, <1>20
<1>21. QED
  BY <1>2, <1>11, <1>18, <1>19, <1>20

LEMMA NoFormula ==
  ASSUME TypeInv, Settled, NEW ts \in Seq(TokenTypes), Continues(ts), MakesAs(label, ts), FormulaFails
  PROVE  Parses(mode, ts) = {}
<1> SUFFICES ASSUME Parses(mode, ts) # {} PROVE FALSE
  OBVIOUS
<1>1. label = "value" /\ label # "new" /\ stack = << >> /\ mode = "formula" /\ Current # "EOF"
  BY DEF FormulaFails, AtTop
<1>2. /\ Pos = Len(tokens) /\ Pos \in Nat /\ Pos >= 1 /\ Current = tokens[Pos] /\ Len(ts) \in Nat
      /\ Pos <= Len(ts) /\ ts[Pos] = tokens[Pos]
  BY <1>1, ContinuesText
<1>3. PICK start, g : Placed(ts, start, g)
  BY <1>1, PlacedInside DEF InItemLabels
<1>4. g.from = 1 /\ Pos - 1 \in 1..Len(ts) /\ node \in Over(ts, 1, 1, Pos - 1)
  <2>1. g.from = start /\ start = 1
    BY <1>1, <1>3 DEF Placed, Begun
  <2>2. g.from <= Pos - 1 /\ node \in Over(ts, 1, g.from, Pos - 1)
    BY <1>1, <1>2, <1>3 DEF Placed, InFactorAt, InLoopsAt
  <2>3. QED
    BY <1>2, <2>1, <2>2
<1>5. PICK d : d \in Over(ts, 1, 1, Len(ts))
  BY <1>1 DEF Parses, Over
<1>6. 1 \in 1..4 /\ 1 \in 1..Len(ts) /\ Len(ts) \in 1..Len(ts)
  BY <1>2
<1>7. TreeGoesOn(ts, node, Pos - 1, 1, d, Len(ts))
  BY <1>4, <1>5, <1>6, TreeGoesOnAlways
<1>8. ts[(Pos - 1) + 1] \in Onward(1) /\ (Pos - 1) + 1 = Pos
  BY <1>2, <1>7 DEF TreeGoesOn, GoesOn
<1>9. Pos > 1
  BY <1>2, <1>4
<1>10. Current \notin Onward(1)
  BY <1>1, <1>9, NothingGoesOn DEF Settled
<1>11. QED
  BY <1>2, <1>8, <1>10

LEMMA NoAlias ==
  ASSUME TypeInv, NEW ts \in Seq(TokenTypes), Continues(ts), MakesAs(label, ts), AliasMissing
  PROVE  Parses(mode, ts) = {}
<1> SUFFICES ASSUME Parses(mode, ts) # {} PROVE FALSE
  OBVIOUS
<1>1. label = "alias" /\ label # "new" /\ mode = "document" /\ Current \notin Identifiers
  BY DEF AliasMissing, TypeInv, ItemsOK
<1>2. /\ Pos = Len(tokens) /\ Pos \in Nat /\ Pos >= 1 /\ Current = tokens[Pos] /\ Len(ts) \in Nat
      /\ Pos - 1 <= Len(ts)
      /\ Current # "EOF" => ts[Pos] = tokens[Pos]
      /\ Current = "EOF" => Pos = Len(ts) + 1
  BY <1>1, ContinuesText
<1>3. PICK start, g : Placed(ts, start, g)
  BY <1>1, PlacedInside DEF InItemLabels
<1>4. start \in 1..Pos - 2 /\ ts[Pos - 1] = "AS" /\ node \in Over(ts, 1, start, Pos - 2) /\ Begun(ts, start)
  <2>1. stack = << >> /\ g.from = start /\ start \in 1..Pos /\ Begun(ts, start)
    BY <1>1, <1>2, <1>3 DEF Placed
  <2>2. g.from <= Pos - 2 /\ ts[Pos - 1] = "AS" /\ node \in Over(ts, 1, g.from, Pos - 2)
    BY <1>1, <1>2, <1>3 DEF Placed, InFactorAt, InLoopsAt
  <2>3. QED
    BY <1>2, <2>1, <2>2
<1>5. PICK t : t = Pos - 2
  OBVIOUS
<1>6. start \in 1..Len(ts) /\ t \in start..Len(ts) /\ t \in 1..Len(ts) /\ t < Len(ts) /\ Len(ts) \in 1..Len(ts)
      /\ t + 1 = Pos - 1 /\ t + 2 = Pos
  BY <1>2, <1>4, <1>5
<1>7. Append(items, Item(node, 0)) \in ItemLists(ts, Derivations(ts))[t]
  <2>1. Item(node, 0) \in ItemsOver(ts, Derivations(ts), start, t)
    BY <1>4, <1>5, InItems
  <2>2. QED
    BY <1>4, <1>6, <2>1, ItemAdded
<1>8. PICK x : x \in ItemLists(ts, Derivations(ts))[Len(ts)]
  BY <1>1 DEF Parses
<1>9. \/ ts[t + 1] \in Onward(1)
      \/ ts[t + 1] = "AS" /\ t + 2 \in 1..Len(ts) /\ ts[t + 2] \in Identifiers
  <2>1. ts[t + 1] # "COMMA"
    BY <1>4, <1>6
  <2>2. QED
    BY <1>6, <1>7, <1>8, <2>1, DocumentsGoOn
<1>10. "AS" \notin Onward(1)
  <2>1. 1 \in 1..4
    OBVIOUS
  <2>2. QED
    BY <2>1, OnwardMeans
<1>11. Pos <= Len(ts) /\ ts[Pos] \in Identifiers
  BY <1>4, <1>6, <1>9, <1>10
<1>12. QED
  BY <1>1, <1>2, <1>11

\* What may stand behind the items that are listed, besides the end and a comma.
LEMMA ListedGoesOn ==
  ASSUME TypeInv, label = "separator", NEW ts \in Seq(TokenTypes), ReadFrom(ts), MakesAs(label, ts),
         Pos <= Len(ts), ts[Pos] # "COMMA", Parses(mode, ts) # {}
  PROVE  ~AfterAlias /\ Pos > 1 /\ ts[Pos] \in Onward(1) \cup {"AS"}
<1>1. Pos = Len(tokens) /\ Pos \in Nat /\ Len(ts) \in Nat /\ mode = "document"
  BY PosInText, LenProperties DEF Pos, TypeInv, ItemsOK
<1>2. Pos > 1 /\ items \in ItemLists(ts, Derivations(ts))[Pos - 1]
  <2>1. OutsideItems(label, ts)
    BY Outside DEF InItemLabels
  <2>2. QED
    BY <1>1, <2>1 DEF OutsideItems, ParsedUpto
<1>3. PICK t : t = Pos - 1
  OBVIOUS
<1>4. t \in 1..Len(ts) /\ t < Len(ts) /\ Len(ts) \in 1..Len(ts) /\ t + 1 = Pos /\ t # 0
  BY <1>1, <1>2, <1>3
<1>5. PICK x : x \in ItemLists(ts, Derivations(ts))[Len(ts)]
  BY <1>1 DEF Parses
<1>6. Last(items).alias = 0 /\ (ts[t + 1] \in Onward(1) \/ ts[t + 1] = "AS")
  BY <1>2, <1>3, <1>4, <1>5, DocumentsGoOn
<1>7. ~AfterAlias
  BY <1>1, <1>3, <1>4, <1>6 DEF AfterAlias
<1>8. QED
  BY <1>2, <1>4, <1>6, <1>7

LEMMA NoSeparator ==
  ASSUME TypeInv, Settled, NEW ts \in Seq(TokenTypes), Continues(ts), MakesAs(label, ts), SeparatorMissing
  PROVE  Parses(mode, ts) = {}
<1> SUFFICES ASSUME Parses(mode, ts) # {} PROVE FALSE
  OBVIOUS
<1>1. label = "separator" /\ label # "new" /\ Current \notin {"EOF", "COMMA"}
  BY DEF SeparatorMissing
<1>2. Pos <= Len(ts) /\ ts[Pos] = Current /\ ReadFrom(ts)
  BY <1>1, ContinuesText DEF Continues
<1>3. ~AfterAlias /\ Pos > 1 /\ Current \in Onward(1) \cup {"AS"}
  BY <1>1, <1>2, ListedGoesOn
<1>4. Ended /\ NoOperatorFrom(1) /\ Current # "AS"
  BY <1>1, <1>3 DEF Settled
<1>5. Current \notin Onward(1)
  BY <1>1, <1>3, <1>4, NothingGoesOn
<1>6. QED
  BY <1>3, <1>4, <1>5

\* The parser fails where no text of the language goes on.
LEMMA NothingContinues ==
  ASSUME TypeInv, Settled, NEW ts \in Seq(TokenTypes), Continues(ts), MakesAs(label, ts),
         \/ Empty \/ FactorFails \/ SegmentMissing \/ ParenFails \/ CallFails \/ FormulaFails
         \/ EmptyItem \/ AliasMissing \/ TrailingComma \/ SeparatorMissing
  PROVE  Parses(mode, ts) = {}
<1>1. CASE Empty \/ SegmentMissing \/ EmptyItem \/ TrailingComma
  BY <1>1, NothingFits
<1>2. CASE FactorFails
  BY <1>2, NoFactor
<1>3. CASE ParenFails
  BY <1>3, NoParen
<1>4. CASE CallFails
  BY <1>4, NoCall
<1>5. CASE FormulaFails
  BY <1>5, NoFormula
<1>6. CASE AliasMissing
  BY <1>6, NoAlias
<1>7. CASE SeparatorMissing
  BY <1>7, NoSeparator
<1>8. QED
  BY <1>1, <1>2, <1>3, <1>4, <1>5, <1>6, <1>7

\* Nor is there one with a character that is no token.
LEMMA NothingIllegal ==
  ASSUME TypeInv, label # "new", Current = "ILLEGAL", NEW ts \in Seq(TokenTypes), Continues(ts)
  PROVE  Parses(mode, ts) = {}
<1> SUFFICES ASSUME Parses(mode, ts) # {} PROVE FALSE
  OBVIOUS
<1>1. /\ Pos = 1 => Current \in Starters
      /\ Pos > 1 => GoesByName(tokens, Pos)
      /\ Pos >= 1 /\ Pos \in Nat /\ Current = tokens[Pos]
  BY GoesWell, ContinuesText
<1>2. Current \notin Starters \cup Behind \cup Identifiers \cup {"LPAREN", "RPAREN", "DOT", "AS"}
  BY TokenClasses DEF Starters, Behind, Identifiers
<1>3. QED
  BY <1>1, <1>2 DEF GoesByName, Goes

-----------------------------------------------------------------------------
(***************************************************************************)
(* The parentheses that are open: as many as frames wait for one.          *)
(***************************************************************************)
Number(M, n) == Cardinality({i \in 1..n : i \in M})
Places(s, t) == {i \in DOMAIN s : s[i] = t}
Bracketed(frames) == {i \in DOMAIN frames : frames[i].kind \in {"paren", "call"}}

Read(t) == Number(Places(tokens, t), Len(tokens) - 1)
Depth == Number(Bracketed(stack), Len(stack))

Balanced ==
  /\ label = "new" => stack = << >>
  /\ label = "arguments" => Top.kind = "call"
  /\ label # "new" => Read("LPAREN") = Read("RPAREN") + Depth

LEMMA NumberIs ==
  ASSUME NEW M, NEW n \in Nat
  PROVE  /\ Number(M, n) \in Nat /\ Number(M, 0) = 0
         /\ Number(M, n + 1) = Number(M, n) + (IF n + 1 \in M THEN 1 ELSE 0)
<1> DEFINE A == {i \in 1..n : i \in M}
           B == {i \in 1..n + 1 : i \in M}
<1>1. IsFiniteSet(A) /\ Cardinality(A) \in Nat
  <2>1. IsFiniteSet(1..n) /\ A \subseteq 1..n
    BY FS_Interval
  <2>2. IsFiniteSet(A)
    BY <2>1, FS_Subset
  <2>3. QED
    BY <2>2, FS_CardinalityType
<1>2. n + 1 \notin A /\ B = IF n + 1 \in M THEN A \cup {n + 1} ELSE A
  OBVIOUS
<1>3. Cardinality(B) = Cardinality(A) + (IF n + 1 \in M THEN 1 ELSE 0)
  <2> HIDE DEF A, B
  <2>1. CASE n + 1 \in M
    BY <1>1, <1>2, <2>1, FS_AddElement
  <2>2. CASE n + 1 \notin M
    BY <1>1, <1>2, <2>2
  <2>3. QED
    BY <2>1, <2>2
<1>4. Number(M, 0) = 0
  <2>1. {i \in 1..0 : i \in M} = {}
    OBVIOUS
  <2>2. QED
    BY <2>1, FS_EmptySet DEF Number
<1>5. QED
  BY <1>1, <1>3, <1>4 DEF Number

LEMMA SameNumber ==
  ASSUME NEW M, NEW K, NEW n, \A i \in 1..n : i \in M <=> i \in K
  PROVE  Number(M, n) = Number(K, n)
<1>1. {i \in 1..n : i \in M} = {i \in 1..n : i \in K}
  OBVIOUS
<1>2. QED
  BY <1>1 DEF Number

LEMMA ReadOneMore ==
  ASSUME TypeInv, label # "new", NEW l, ReadToken(l)
  PROVE  \A t : Read(t) \in Nat /\ Read(t)' = Read(t) + (IF Current = t THEN 1 ELSE 0)
<1> SUFFICES ASSUME NEW t
             PROVE  Read(t) \in Nat /\ Read(t)' = Read(t) + (IF Current = t THEN 1 ELSE 0)
  OBVIOUS
<1>1. tokens \in Seq(Lexicon) /\ Len(tokens) \in Nat /\ Len(tokens) >= 1 /\ Current = tokens[Len(tokens)]
  BY PosInText DEF TypeInv, TextOK, Current, Last
<1>2. /\ tokens' \in Seq(Lexicon) /\ Len(tokens') = Len(tokens) + 1
      /\ \A i \in 1..Len(tokens) : tokens'[i] = tokens[i]
  <2>1. PICK e \in Lexicon : tokens' = Append(tokens, e)
    BY LexiconAssumption DEF ReadToken
  <2>2. QED
    BY <1>1, <2>1
<1>3. PICK n \in Nat : n + 1 = Len(tokens)
  <2>1. Len(tokens) - 1 \in Nat /\ (Len(tokens) - 1) + 1 = Len(tokens)
    BY <1>1
  <2>2. QED
    BY <2>1
<1>4. Len(tokens) - 1 = n /\ Len(tokens') - 1 = n + 1
  BY <1>2, <1>3
<1>5. Number(Places(tokens', t), n) = Number(Places(tokens, t), n)
  <2>1. \A i \in 1..n : i \in DOMAIN tokens /\ i \in DOMAIN tokens' /\ tokens'[i] = tokens[i]
    BY <1>1, <1>2, <1>3
  <2>2. \A i \in 1..n : i \in Places(tokens', t) <=> i \in Places(tokens, t)
    BY <2>1 DEF Places
  <2>3. QED
    BY <2>2, SameNumber
<1>6. n + 1 \in Places(tokens', t) <=> Current = t
  <2>1. n + 1 \in DOMAIN tokens' /\ tokens'[n + 1] = Current
    BY <1>1, <1>2, <1>3
  <2>2. QED
    BY <2>1 DEF Places
<1>7. /\ Number(Places(tokens', t), n) \in Nat
      /\ Number(Places(tokens', t), n + 1)
           = Number(Places(tokens', t), n) + (IF n + 1 \in Places(tokens', t) THEN 1 ELSE 0)
  BY NumberIs
<1>8. Read(t) = Number(Places(tokens, t), n) /\ Read(t)' = Number(Places(tokens', t), n + 1)
  BY <1>4 DEF Read
<1>9. QED
  BY <1>5, <1>6, <1>7, <1>8

\* One frame more or less.
LEMMA DepthGrows ==
  ASSUME NEW s, Listing(s), NEW r, Listing(r), Len(r) = Len(s) + 1, \A i \in 1..Len(s) : r[i].kind = s[i].kind
  PROVE  /\ Number(Bracketed(s), Len(s)) \in Nat
         /\ Number(Bracketed(r), Len(r))
              = Number(Bracketed(s), Len(s)) + (IF r[Len(r)].kind \in {"paren", "call"} THEN 1 ELSE 0)
<1>1. Len(s) \in Nat /\ DOMAIN s = 1..Len(s) /\ DOMAIN r = 1..Len(r)
  BY LenProperties DEF Listing
<1>2. PICK n \in Nat : n = Len(s)
  BY <1>1
<1>3. Number(Bracketed(r), n) = Number(Bracketed(s), n)
  <2>1. \A i \in 1..n : i \in Bracketed(r) <=> i \in Bracketed(s)
    BY <1>1, <1>2 DEF Bracketed
  <2>2. QED
    BY <2>1, SameNumber
<1>4. n + 1 \in Bracketed(r) <=> r[n + 1].kind \in {"paren", "call"}
  BY <1>1, <1>2 DEF Bracketed
<1>5. /\ Number(Bracketed(r), n) \in Nat
      /\ Number(Bracketed(r), n + 1) = Number(Bracketed(r), n) + (IF n + 1 \in Bracketed(r) THEN 1 ELSE 0)
  BY NumberIs
<1>6. QED
  BY <1>2, <1>3, <1>4, <1>5

LEMMA DepthPushed ==
  ASSUME TypeInv, NEW frame, stack' = Append(stack, frame)
  PROVE  Depth \in Nat /\ Depth' = Depth + (IF frame.kind \in {"paren", "call"} THEN 1 ELSE 0)
<1>1. Listing(stack)
  BY DEF TypeInv, StackOK
<1>2. /\ Listing(stack') /\ Len(stack') = Len(stack) + 1 /\ stack'[Len(stack')] = frame
      /\ \A i \in 1..Len(stack) : stack'[i] = stack[i]
  BY <1>1, ListingGrows
<1>3. QED
  BY <1>1, <1>2, DepthGrows DEF Depth

LEMMA DepthPopped ==
  ASSUME TypeInv, stack # << >>, stack' = Front(stack)
  PROVE  Depth' \in Nat /\ Depth = Depth' + (IF Top.kind \in {"paren", "call"} THEN 1 ELSE 0)
<1>1. Listing(stack) /\ Top = stack[Len(stack)]
  BY TopIsLast DEF TypeInv, StackOK
<1>2. /\ Listing(stack') /\ Len(stack) = Len(stack') + 1
      /\ \A i \in 1..Len(stack') : stack[i] = stack'[i]
  BY <1>1, ListingShortens
<1>3. QED
  BY <1>1, <1>2, DepthGrows DEF Depth

LEMMA DepthKept ==
  ASSUME TypeInv, stack # << >>, NEW child, stack' = Append(Front(stack), WithChild(Top, child))
  PROVE  Depth' = Depth /\ Depth \in Nat
<1>1. Listing(stack) /\ Top = stack[Len(stack)] /\ IsTree(Top)
  BY TopIsLast DEF TypeInv, StackOK
<1>2. /\ Listing(Front(stack)) /\ Len(stack) = Len(Front(stack)) + 1
      /\ \A i \in 1..Len(Front(stack)) : Front(stack)[i] = stack[i]
  BY <1>1, ListingShortens
<1>3. /\ Listing(stack') /\ Len(stack') = Len(Front(stack)) + 1 /\ stack'[Len(stack')] = WithChild(Top, child)
      /\ \A i \in 1..Len(Front(stack)) : stack'[i] = Front(stack)[i]
  BY <1>2, ListingGrows
<1>4. WithChild(Top, child).kind = Top.kind
  BY <1>1, ChildAdded
<1>5. /\ Number(Bracketed(stack), Len(stack))
           = Number(Bracketed(Front(stack)), Len(Front(stack))) + (IF Top.kind \in {"paren", "call"} THEN 1 ELSE 0)
      /\ Number(Bracketed(stack'), Len(stack'))
           = Number(Bracketed(Front(stack)), Len(Front(stack))) + (IF Top.kind \in {"paren", "call"} THEN 1 ELSE 0)
      /\ Number(Bracketed(Front(stack)), Len(Front(stack))) \in Nat
  <2>1. PICK r, s, f : r = stack' /\ s = stack /\ f = Front(stack)
    OBVIOUS
  <2>2. Listing(f) /\ Listing(s) /\ Len(s) = Len(f) + 1 /\ \A i \in 1..Len(f) : s[i].kind = f[i].kind
    BY <1>1, <1>2, <2>1
  <2>3. Listing(r) /\ Len(r) = Len(f) + 1 /\ \A i \in 1..Len(f) : r[i].kind = f[i].kind
    BY <1>3, <2>1
  <2>4. s[Len(s)].kind = Top.kind /\ r[Len(r)].kind = Top.kind
    BY <1>1, <1>3, <1>4, <2>1
  <2>5. /\ Number(Bracketed(f), Len(f)) \in Nat
        /\ Number(Bracketed(s), Len(s))
             = Number(Bracketed(f), Len(f)) + (IF s[Len(s)].kind \in {"paren", "call"} THEN 1 ELSE 0)
    BY <2>2, DepthGrows
  <2>6. Number(Bracketed(r), Len(r))
          = Number(Bracketed(f), Len(f)) + (IF r[Len(r)].kind \in {"paren", "call"} THEN 1 ELSE 0)
    BY <2>2, <2>3, DepthGrows
  <2>7. QED
    BY <2>1, <2>4, <2>5, <2>6
<1>6. QED
  BY <1>5 DEF Depth

\* The steps, by what they read and what they do to the stack.
LEMMA BalanceKept ==
  ASSUME TypeInv, Balanced, label # "new", label' # "new", label' = "arguments" => Top'.kind = "call", Depth \in Nat,
         \/ tokens' = tokens /\ Depth' = Depth
         \/ \E l : ReadToken(l) /\ \/ Current \notin {"LPAREN", "RPAREN"} /\ Depth' = Depth
                                   \/ Current = "LPAREN" /\ Depth' = Depth + 1
                                   \/ Current = "RPAREN" /\ Depth = Depth' + 1 /\ Depth' \in Nat
  PROVE  Balanced'
<1>1. CASE tokens' = tokens /\ Depth' = Depth
  BY <1>1 DEF Balanced, Read
<1>2. CASE \E l : ReadToken(l) /\ \/ Current \notin {"LPAREN", "RPAREN"} /\ Depth' = Depth
                                  \/ Current = "LPAREN" /\ Depth' = Depth + 1
                                  \/ Current = "RPAREN" /\ Depth = Depth' + 1 /\ Depth' \in Nat
  <2>1. /\ Read("LPAREN") \in Nat /\ Read("LPAREN")' = Read("LPAREN") + (IF Current = "LPAREN" THEN 1 ELSE 0)
        /\ Read("RPAREN") \in Nat /\ Read("RPAREN")' = Read("RPAREN") + (IF Current = "RPAREN" THEN 1 ELSE 0)
    BY <1>2, ReadOneMore
  <2>2. Read("LPAREN")' = Read("RPAREN")' + Depth'
    BY <1>2, <2>1 DEF Balanced
  <2>3. QED
    BY <2>2 DEF Balanced
<1>3. QED
  BY <1>1, <1>2

LEMMA BalancedFactor == TypeInv /\ Balanced /\ Factor => Balanced'
<1> SUFFICES ASSUME TypeInv, Balanced, Factor PROVE Balanced'
  OBVIOUS
<1>0. label # "new" /\ Depth \in Nat /\ (stack' = stack => Depth' = Depth)
  <2>1. label # "new"
    BY DEF Factor, Literal, Negate, OpenParen, FactorFails, Name, OpenCall, Constant, OpenPath, Column,
           Segment, SegmentMissing, Dot
  <2>2. Len(stack) \in Nat
    BY LenProperties DEF TypeInv, StackOK, Listing
  <2>3. QED
    BY <2>1, <2>2, NumberIs DEF Depth
<1>1. CASE Literal
  <2>1. /\ ReadToken("operand") /\ Current \notin {"LPAREN", "RPAREN"} /\ stack' = stack
        /\ label' \in {"operand", "done"}
    BY <1>1 DEF Literal, ReadToken
  <2>2. QED
    BY <1>0, <2>1, BalanceKept
<1>2. ASSUME NEW kind \in {"paren", "negate"}, Current = (IF kind = "paren" THEN "LPAREN" ELSE "MINUS"), OpenFrame(kind)
      PROVE  Balanced'
  <2>1. ReadToken("factor") /\ stack' = Append(stack, Leaf(kind, Pos)) /\ label' \in {"factor", "done"}
    BY <1>2 DEF OpenFrame, Push, ReadToken
  <2>2. Depth' = Depth + (IF kind = "paren" THEN 1 ELSE 0)
    BY <1>2, <2>1, DepthPushed, TreesOf
  <2>3. QED
    BY <1>0, <1>2, <2>1, <2>2, BalanceKept
<1>3. CASE Negate \/ OpenParen
  BY <1>2, <1>3 DEF Negate, OpenParen
<1>4. CASE FactorFails \/ SegmentMissing
  <2>1. tokens' = tokens /\ stack' = stack /\ label' = "done"
    BY <1>4 DEF FactorFails, SegmentMissing, Fail, FailAt
  <2>2. QED
    BY <1>0, <2>1, BalanceKept
<1>5. CASE Name
  <2>1. /\ ReadToken("name") /\ Current \notin {"LPAREN", "RPAREN"} /\ stack' = stack
        /\ label' \in {"name", "done"}
    BY <1>5 DEF Name, ReadToken, Identifiers
  <2>2. QED
    BY <1>0, <2>1, BalanceKept
<1>6. CASE OpenCall
  <2>1. ReadToken("arguments") /\ Current = "LPAREN" /\ stack' = Append(stack, Leaf("call", node.at))
        /\ label' # "new"
    BY <1>6 DEF OpenCall, Push, ReadToken
  <2>2. Depth' = Depth + 1
    BY <2>1, DepthPushed, TreesOf
  <2>3. Top'.kind = "call"
    <3>1. Listing(stack)
      BY DEF TypeInv, StackOK
    <3>2. Top' = Leaf("call", node.at)
      BY <2>1, <3>1, ListingGrows DEF Top, Last
    <3>3. QED
      BY <3>2, TreesOf
  <2>4. QED
    BY <1>0, <2>1, <2>2, <2>3, BalanceKept
<1>7. CASE Constant \/ Column
  <2>1. tokens' = tokens /\ stack' = stack /\ label' = "operand"
    BY <1>7 DEF Constant, Column, Goto
  <2>2. QED
    BY <1>0, <2>1, BalanceKept
<1>8. CASE OpenPath
  <2>1. /\ ReadToken("segment") /\ Current \notin {"LPAREN", "RPAREN"} /\ stack' = stack
        /\ label' \in {"segment", "done"}
    BY <1>8 DEF OpenPath, ReadToken
  <2>2. QED
    BY <1>0, <2>1, BalanceKept
<1>9. CASE Segment
  <2>1. /\ ReadToken("dot") /\ Current \notin {"LPAREN", "RPAREN"} /\ stack' = stack
        /\ label' \in {"dot", "done"}
    BY <1>9 DEF Segment, ReadToken, Identifiers
  <2>2. QED
    BY <1>0, <2>1, BalanceKept
<1>10. CASE Dot
  <2>1. CASE Current = "DOT"
    <3>1. ReadToken("segment") /\ stack' = stack /\ label' \in {"segment", "done"}
      BY <1>10, <2>1 DEF Dot, ReadToken
    <3>2. QED
      BY <1>0, <2>1, <3>1, BalanceKept
  <2>2. CASE Current # "DOT"
    <3>1. tokens' = tokens /\ stack' = stack /\ label' = "operand"
      BY <1>10, <2>2 DEF Dot, Goto
    <3>2. QED
      BY <1>0, <3>1, BalanceKept
  <2>3. QED
    BY <2>1, <2>2
<1>11. QED
  BY <1>1, <1>3, <1>4, <1>5, <1>6, <1>7, <1>8, <1>9, <1>10 DEF Factor

LEMMA BalancedLoops == TypeInv /\ Balanced /\ Loops => Balanced'
<1> SUFFICES ASSUME TypeInv, Balanced, Loops PROVE Balanced'
  OBVIOUS
<1>0. label \in {"operand", "loop"} /\ label # "new" /\ Depth \in Nat /\ (stack' = stack => Depth' = Depth)
  <2>1. label \in {"operand", "loop"}
    BY DEF Loops, CloseNegate, EndFactor, CloseBinary, OpenBinary, LeaveLoop
  <2>2. Len(stack) \in Nat
    BY LenProperties DEF TypeInv, StackOK, Listing
  <2>3. QED
    BY <2>1, <2>2, NumberIs DEF Depth
<1>1. CASE CloseNegate \/ CloseBinary
  <2>1. /\ Top.kind \in {"negate", "binary"} /\ tokens' = tokens /\ label' = label /\ stack' = Front(stack)
    BY <1>1 DEF CloseNegate, CloseBinary, AtLevel, Pop
  <2>2. stack # << >>
    BY <2>1, TopIsLast
  <2>3. Depth' = Depth
    BY <2>1, <2>2, DepthPopped
  <2>4. QED
    BY <1>0, <2>1, <2>3, BalanceKept
<1>2. CASE EndFactor \/ LeaveLoop
  <2>1. tokens' = tokens /\ stack' = stack /\ label' \in {"loop", "value"}
    BY <1>2 DEF EndFactor, LeaveLoop, Goto
  <2>2. QED
    BY <1>0, <2>1, BalanceKept
<1>3. CASE OpenBinary
  <2>1. PICK frame : frame = Tree("binary", Pos, <<node>>)
    OBVIOUS
  <2>2. /\ ReadToken("factor") /\ Current \in Operators[level] /\ stack' = Append(stack, frame)
        /\ label' \in {"factor", "done"}
    BY <1>3, <2>1 DEF OpenBinary, Push, ReadToken
  <2>3. Current \notin {"LPAREN", "RPAREN"}
    BY <2>2, OperatorsApart DEF TypeInv, PlaceOK
  <2>4. Depth' = Depth
    <3>1. frame.kind = "binary"
      BY <2>1, TreesOf
    <3>2. QED
      BY <2>2, <3>1, DepthPushed
  <2>5. QED
    BY <1>0, <2>2, <2>3, <2>4, BalanceKept
<1>4. QED
  BY <1>1, <1>2, <1>3 DEF Loops

LEMMA BalancedClosing == TypeInv /\ Balanced /\ Closing => Balanced'
<1> SUFFICES ASSUME TypeInv, Balanced, Closing PROVE Balanced'
  OBVIOUS
<1>0. label \in {"value", "arguments"} /\ label # "new" /\ Depth \in Nat /\ (stack' = stack => Depth' = Depth)
  <2>1. label \in {"value", "arguments"}
    BY DEF Closing, CloseParen, ParenFails, BeginArguments, NoArguments, NextArgument, LastArgument, CallFails,
           InCall, EndFormula, FormulaFails, AtTop
  <2>2. Len(stack) \in Nat
    BY LenProperties DEF TypeInv, StackOK, Listing
  <2>3. QED
    BY <2>1, <2>2, NumberIs DEF Depth
<1>1. CASE CloseParen \/ NoArguments \/ LastArgument
  <2>1. /\ ReadToken("operand") /\ Current = "RPAREN" /\ stack' = Front(stack)
        /\ Top.kind \in {"paren", "call"} /\ label' \in {"operand", "done"}
    BY <1>1 DEF CloseParen, NoArguments, LastArgument, CloseCall, InCall, Pop, Balanced, ReadToken
  <2>2. stack # << >>
    BY <2>1, TopIsLast
  <2>3. Depth = Depth' + 1 /\ Depth' \in Nat
    BY <2>1, <2>2, DepthPopped
  <2>4. QED
    BY <1>0, <2>1, <2>3, BalanceKept
<1>2. CASE ParenFails \/ CallFails \/ FormulaFails \/ EndFormula
  <2>1. tokens' = tokens /\ stack' = stack /\ label' = "done"
    BY <1>2 DEF ParenFails, CallFails, FormulaFails, EndFormula, Accept, MissingOperator, Fail, FailAt
  <2>2. QED
    BY <1>0, <2>1, BalanceKept
<1>3. CASE BeginArguments
  <2>1. tokens' = tokens /\ stack' = stack /\ label' = "factor"
    BY <1>3 DEF BeginArguments, Goto
  <2>2. QED
    BY <1>0, <2>1, BalanceKept
<1>4. CASE NextArgument
  <2>1. /\ ReadToken("factor") /\ Current = "COMMA" /\ stack' = Append(Front(stack), WithChild(Top, node))
        /\ Top.kind = "call" /\ label' \in {"factor", "done"}
    BY <1>4 DEF NextArgument, InCall, ReadToken
  <2>2. stack # << >>
    BY <2>1, TopIsLast
  <2>3. Depth' = Depth
    BY <2>1, <2>2, DepthKept
  <2>4. QED
    BY <1>0, <2>1, <2>3, BalanceKept
<1>5. QED
  BY <1>1, <1>2, <1>3, <1>4 DEF Closing

LEMMA BalancedDocument == TypeInv /\ Balanced /\ Document => Balanced'
<1> SUFFICES ASSUME TypeInv, Balanced, Document PROVE Balanced'
  OBVIOUS
<1>0. label # "new" /\ Depth \in Nat /\ (stack' = stack => Depth' = Depth)
  <2>1. label # "new"
    BY DEF Document, BeginItem, EmptyItem, Unnamed, As, Alias, AliasMissing, AtTop,
           EndDocument, Separator, NextItem, TrailingComma, SeparatorMissing
  <2>2. Len(stack) \in Nat
    BY LenProperties DEF TypeInv, StackOK, Listing
  <2>3. QED
    BY <2>1, <2>2, NumberIs DEF Depth
<1>1. CASE \/ BeginItem \/ EmptyItem \/ Unnamed \/ AliasMissing \/ EndDocument \/ NextItem \/ TrailingComma
           \/ SeparatorMissing
  <2>1. tokens' = tokens /\ stack' = stack /\ label' \in {"factor", "done", "separator", "item"}
    BY <1>1 DEF BeginItem, EmptyItem, Unnamed, AliasMissing, EndDocument, NextItem, TrailingComma, SeparatorMissing,
                EndItem, Goto, Accept, MissingOperator, Fail, FailAt
  <2>2. QED
    BY <1>0, <2>1, BalanceKept
<1>2. CASE As \/ Alias \/ Separator
  <2>1. \E l \in {"alias", "separator", "next_item"} : ReadToken(l) /\ label' \in {l, "done"}
    BY <1>2 DEF As, Alias, Separator, ReadToken
  <2>2. Current \notin {"LPAREN", "RPAREN"} /\ stack' = stack
    BY <1>2 DEF As, Alias, Separator, EndItem, Identifiers
  <2>3. QED
    BY <1>0, <2>1, <2>2, BalanceKept
<1>3. QED
  BY <1>1, <1>2 DEF Document

LEMMA BalancedNext == TypeInv /\ Balanced /\ [Next]_vars => Balanced'
<1> SUFFICES ASSUME TypeInv, Balanced, [Next]_vars PROVE Balanced'
  OBVIOUS
<1>1. CASE NewParser
  <2>1. label = "new" /\ ReadToken("start") /\ stack' = << >> /\ label' \in {"start", "done"}
    BY <1>1 DEF NewParser, Balanced, ReadToken
  <2>2. Len(tokens') - 1 = 0
    <3>1. Len(tokens) = 0 /\ tokens \in Seq(Lexicon)
      BY <2>1 DEF TypeInv, TextOK
    <3>2. PICK e \in Lexicon : tokens' = Append(tokens, e)
      BY <2>1, LexiconAssumption DEF ReadToken
    <3>3. QED
      BY <3>1, <3>2
  <2>3. Read("LPAREN")' = 0 /\ Read("RPAREN")' = 0 /\ Depth' = 0
    <3>1. Len(stack') = 0
      BY <2>1
    <3>2. QED
      BY <2>2, <3>1, NumberIs DEF Read, Depth
  <2>4. QED
    BY <2>1, <2>3 DEF Balanced
<1>2. CASE Empty \/ Start
  <2>1. tokens' = tokens /\ stack' = stack /\ label # "new" /\ label' \in {"done", "item", "factor"}
    BY <1>2 DEF Empty, Start, Goto, Fail, FailAt
  <2>2. QED
    BY <2>1 DEF Balanced, Read, Depth
<1>3. CASE Factor
  BY <1>3, BalancedFactor
<1>4. CASE Loops
  BY <1>4, BalancedLoops
<1>5. CASE Closing
  BY <1>5, BalancedClosing
<1>6. CASE Document
  BY <1>6, BalancedDocument
<1>7. CASE UNCHANGED vars
  BY <1>7 DEF vars, Balanced, Read, Depth, Top
<1>8. QED
  BY <1>1, <1>2, <1>3, <1>4, <1>5, <1>6, <1>7 DEF Next

LEMMA BalancedInvariant == Spec => []Balanced
<1>1. Init => Balanced
  BY DEF Init, Balanced
<1>2. QED
  BY <1>1, BalancedNext, TypeInvariant, PTL DEF Spec

-----------------------------------------------------------------------------
(***************************************************************************)
(* What has been read can be completed: a tree in the hole of the last     *)
(* frame, and the parentheses behind it, make a tree of all the frames.    *)
(***************************************************************************)
LEMMA Lower ==
  ASSUME NEW T, NEW ts \in Seq(T), NEW from \in 1..Len(ts), NEW to \in from..Len(ts),
         NEW l \in 1..4, NEW x \in Over(ts, l, from, to), NEW m \in 1..l
  PROVE  x \in Over(ts, m, from, to)
<1>1. \A k \in 1..3 : x \in Over(ts, k + 1, from, to) => x \in Over(ts, k, from, to)
  BY InLevel
<1>2. /\ x \in Over(ts, 4, from, to) => x \in Over(ts, 3, from, to)
      /\ x \in Over(ts, 3, from, to) => x \in Over(ts, 2, from, to)
      /\ x \in Over(ts, 2, from, to) => x \in Over(ts, 1, from, to)
  <2>1. 3 + 1 = 4 /\ 2 + 1 = 3 /\ 1 + 1 = 2 /\ 1 \in 1..3 /\ 2 \in 1..3 /\ 3 \in 1..3
    OBVIOUS
  <2>2. QED
    BY <1>1, <2>1
<1>3. l \in {1, 2, 3, 4} /\ m \in {1, 2, 3, 4} /\ m <= l
  OBVIOUS
<1>4. CASE l = 1
  BY <1>3, <1>4
<1>5. CASE l = 2
  BY <1>2, <1>3, <1>5
<1>6. CASE l = 3
  BY <1>2, <1>3, <1>6
<1>7. CASE l = 4
  BY <1>2, <1>3, <1>7
<1>8. QED
  BY <1>3, <1>4, <1>5, <1>6, <1>7

\* One frame, and its parenthesis if it wants one.
Closed(frame, to) == IF frame.kind \in {"paren", "call"} THEN to + 1 ELSE to

LEMMA FrameFilled ==
  ASSUME NEW T, NEW ts \in Seq(T), NEW p \in Nat, NEW o \in Holes(p), NEW g \in Holes(p), NEW frame,
         Waits(ts, frame, o, g), NEW to \in g.from..Len(ts), NEW child \in Over(ts, g.level, g.from, to),
         Closed(frame, to) <= Len(ts), Closed(frame, to) = to + 1 => ts[to + 1] = "RPAREN"
  PROVE  o.from <= to /\ Over(ts, o.level, o.from, Closed(frame, to)) # {}
<1>1. o.from \in 1..p /\ o.level \in 1..4 /\ g.from \in 1..p /\ g.level \in 1..4 /\ Len(ts) \in Nat
  BY LenProperties DEF Holes
<1>2. CASE ParenWaits(ts, frame, o, g)
  <2>1. frame.kind = "paren" /\ g.from = o.from + 1 /\ g.level = 1
    BY <1>2, TreesOf DEF ParenWaits, Hole
  <2>2. Closed(frame, to) = to + 1 /\ ts[to + 1] = "RPAREN" /\ to + 1 \in o.from + 1..Len(ts) /\ o.from \in 1..Len(ts)
    BY <1>1, <2>1 DEF Closed
  <2>3. child \in Over(ts, 1, g.from, (to + 1) - 1)
    <3>1. (to + 1) - 1 = to
      BY <1>1
    <3>2. QED
      BY <2>1, <3>1
  <2>4. child \in Over(ts, 4, o.from, to + 1)
    BY <1>2, <2>2, <2>3, ParenFilled
  <2>5. child \in Over(ts, o.level, o.from, to + 1)
    BY <1>1, <2>2, <2>4, Lower
  <2>6. QED
    BY <1>1, <2>1, <2>2, <2>5
<1>3. CASE NegateWaits(ts, frame, o, g)
  <2>1. frame.kind = "negate" /\ g.from = o.from + 1 /\ g.level = 4
    BY <1>3, TreesOf DEF NegateWaits, Hole
  <2>2. Closed(frame, to) = to /\ to \in o.from + 1..Len(ts) /\ o.from \in 1..Len(ts)
    BY <1>1, <2>1 DEF Closed
  <2>3. WithChild(frame, child) \in Over(ts, 4, o.from, to)
    BY <1>3, <2>1, <2>2, NegateFilled
  <2>4. WithChild(frame, child) \in Over(ts, o.level, o.from, to)
    BY <1>1, <2>2, <2>3, Lower
  <2>5. QED
    BY <1>1, <2>1, <2>2, <2>4
<1>4. CASE BinaryWaits(ts, frame, o, g)
  <2>1. frame.kind = "binary"
    BY <1>4, TreesOf DEF BinaryWaits
  <2>2. Closed(frame, to) = to
    BY <2>1 DEF Closed
  <2>3. PICK j \in o.level..3 : o.from < to /\ j \in 1..3 /\ WithChild(frame, child) \in Over(ts, j, o.from, to)
    BY <1>4, BinaryFilled
  <2>4. o.from \in 1..Len(ts) /\ to \in o.from..Len(ts) /\ j \in 1..4 /\ o.level \in 1..j
    BY <1>1, <2>3
  <2>5. WithChild(frame, child) \in Over(ts, o.level, o.from, to)
    BY <2>3, <2>4, Lower
  <2>6. QED
    BY <2>2, <2>4, <2>5
<1>5. CASE CallWaits(ts, frame, o, g)
  <2>1. frame.kind = "call" /\ g.level = 1 /\ ts[o.from] \in Identifiers /\ ts[o.from + 1] = "LPAREN"
    BY <1>5, TreesOf DEF CallWaits
  <2>2. Closed(frame, to) = to + 1 /\ ts[to + 1] = "RPAREN" /\ to + 1 <= Len(ts)
    BY <1>1, <2>1 DEF Closed
  <2>3. o.from + 2 <= to /\ \E a \in Over(ts, 0, o.from + 2, to) : WithChild(frame, child) = Tree("call", o.from, a)
    BY <1>5, <2>1, CallFilled
  <2>4. PICK a \in Over(ts, 0, o.from + 2, to) : TRUE
    BY <2>3
  <2>5. o.from \in 1..Len(ts) /\ to + 1 \in o.from + 1..Len(ts) /\ to + 1 # o.from + 2 /\ (to + 1) - 1 = to
    BY <1>1, <2>2, <2>3
  <2>6. Call(ts, o.from, to + 1, Tree("call", o.from, a))
    BY <2>1, <2>2, <2>4, <2>5 DEF Call
  <2>7. Tree("call", o.from, a) \in Over(ts, 4, o.from, to + 1)
    BY <2>5, <2>6, InFactor
  <2>8. to + 1 \in o.from..Len(ts)
    BY <1>1, <2>2, <2>3
  <2>9. Tree("call", o.from, a) \in Over(ts, o.level, o.from, to + 1)
    BY <1>1, <2>5, <2>7, <2>8, Lower
  <2>10. QED
    BY <1>1, <2>2, <2>3, <2>9
<1>6. QED
  BY <1>2, <1>3, <1>4, <1>5 DEF Waits

LEMMA StackFilled ==
  ASSUME NEW T, NEW ts \in Seq(T), NEW frames, Listing(frames), NEW p \in Nat, NEW start, NEW g,
         Hang(ts, frames, p, start, g), NEW e \in Nat, g.from <= e, Over(ts, g.level, g.from, e) # {},
         Len(ts) = e + Number(Bracketed(frames), Len(frames)), \A i \in e + 1..Len(ts) : ts[i] = "RPAREN"
  PROVE  start \in 1..Len(ts) /\ Over(ts, 1, start, Len(ts)) # {}
<1> DEFINE N(j) == Number(Bracketed(frames), j)
<1>1. Len(frames) \in Nat /\ DOMAIN frames = 1..Len(frames) /\ Len(ts) \in Nat
  BY LenProperties DEF Listing
<1>2. /\ N(0) = 0
      /\ \A j \in Nat : /\ N(j) \in Nat
                       /\ N(j + 1) = N(j) + (IF j + 1 \in Bracketed(frames) THEN 1 ELSE 0)
  BY NumberIs
<1> HIDE DEF N
<1>3. PICK n \in Nat : n = Len(frames)
  BY <1>1
<1>4. Len(ts) = e + N(n)
  BY <1>3 DEF N
<1>5. PICK c : HangBy(ts, frames, p, start, g, c)
  BY DEF Hang
<1>6. /\ \A i \in 0..n : c[i] \in Holes(p)
      /\ c[0] = Hole(start, 1) /\ c[n] = g
      /\ \A i \in 1..n : Waits(ts, frames[i], c[i - 1], c[i])
  BY <1>3, <1>5 DEF HangBy
<1> DEFINE S == {j \in 0..n : /\ c[n - j].from <= Len(ts) - N(n - j) /\ e <= Len(ts) - N(n - j)
                              /\ Over(ts, c[n - j].level, c[n - j].from, Len(ts) - N(n - j)) # {}}
<1>7. 0 \in S
  <2>1. n - 0 = n /\ 0 \in 0..n /\ Len(ts) - N(n) = e
    <3>1. N(n) \in Nat
      BY <1>2, Zenon
    <3>2. QED
      BY <1>4, <3>1
  <2>2. QED
    BY <1>6, <2>1
<1>8. ASSUME NEW j \in Nat, j < n, j \in S
      PROVE  j + 1 \in S
  <2>1. PICK k \in Nat : n - j = k + 1 /\ n - (j + 1) = k /\ k + 1 \in 1..n /\ k \in 0..n /\ (k + 1) - 1 = k
    <3>1. /\ n - (j + 1) \in Nat /\ n - j = (n - (j + 1)) + 1
          /\ n - (j + 1) \in 0..n /\ (n - (j + 1)) + 1 \in 1..n
      BY <1>8
    <3>2. QED
      BY <3>1
  <2>2. PICK to \in Nat : to = Len(ts) - N(k + 1)
    <3>1. N(k + 1) \in Nat
      <4>1. k + 1 \in Nat
        BY <2>1
      <4>2. QED
        BY <1>2, <4>1, Zenon
    <3>2. e <= Len(ts) - N(k + 1)
      BY <1>8, <2>1
    <3>3. Len(ts) - N(k + 1) \in Nat
      BY <1>1, <3>1, <3>2
    <3>4. QED
      BY <3>3
  <2>3. c[k + 1].from <= to /\ e <= to /\ Over(ts, c[k + 1].level, c[k + 1].from, to) # {}
    BY <1>8, <2>1, <2>2
  <2>4. c[k] \in Holes(p) /\ c[k + 1] \in Holes(p) /\ Waits(ts, frames[k + 1], c[k], c[k + 1])
    BY <1>6, <2>1
  <2>5. k + 1 \in Bracketed(frames) <=> frames[k + 1].kind \in {"paren", "call"}
    BY <1>1, <1>3, <2>1 DEF Bracketed
  <2>6. N(k) \in Nat /\ N(k + 1) \in Nat /\ N(k + 1) = N(k) + (IF k + 1 \in Bracketed(frames) THEN 1 ELSE 0)
    <3>1. k + 1 \in Nat
      BY <2>1
    <3>2. QED
      BY <1>2, <2>1, <3>1, Zenon
  <2>7. Closed(frames[k + 1], to) = Len(ts) - N(k) /\ Closed(frames[k + 1], to) <= Len(ts)
    BY <1>1, <2>2, <2>5, <2>6 DEF Closed
  <2>8. Closed(frames[k + 1], to) = to + 1 => ts[to + 1] = "RPAREN"
    BY <1>1, <2>3, <2>7
  <2>9. to \in c[k + 1].from..Len(ts)
    <3>1. c[k + 1].from \in 1..p
      BY <2>4 DEF Holes
    <3>2. to <= Len(ts)
      BY <1>1, <2>2, <2>6
    <3>3. QED
      BY <1>1, <2>3, <3>1, <3>2
  <2>10. PICK child : child \in Over(ts, c[k + 1].level, c[k + 1].from, to)
    BY <2>3
  <2>11. c[k].from <= to /\ Over(ts, c[k].level, c[k].from, Closed(frames[k + 1], to)) # {}
    BY <2>4, <2>7, <2>8, <2>9, <2>10, FrameFilled
  <2>12. c[k].from <= Len(ts) - N(k) /\ e <= Len(ts) - N(k)
    <3>1. c[k].from \in 1..p
      BY <2>4 DEF Holes
    <3>2. to <= Len(ts) - N(k)
      BY <1>1, <2>2, <2>6
    <3>3. QED
      BY <1>1, <2>3, <2>6, <2>11, <3>1, <3>2
  <2>13. j + 1 \in 0..n
    BY <1>8
  <2>14. QED
    BY <2>1, <2>7, <2>11, <2>12, <2>13
<1>9. 0..n \subseteq S
  <2> HIDE DEF S
  <2>1. QED
    BY <1>7, <1>8, CountUp
<1>10. c[0].from <= Len(ts) - N(0) /\ Over(ts, c[0].level, c[0].from, Len(ts) - N(0)) # {}
  <2>1. n \in S
    <3> HIDE DEF S
    <3>1. n \in 0..n
      BY <1>3
    <3>2. QED
      BY <1>9, <3>1
  <2>2. n - n = 0
    BY <1>3
  <2>3. QED
    BY <2>1, <2>2
<1>11. c[0].from = start /\ c[0].level = 1 /\ start \in 1..p
  BY <1>6 DEF Hole, Holes
<1>12. Len(ts) - N(0) = Len(ts)
  BY <1>1, <1>2
<1>13. QED
  BY <1>1, <1>10, <1>11, <1>12

\* An item that ends with the text, behind the items that are there, makes a text.
LEMMA TextFilled ==
  ASSUME TypeInv, NEW T, NEW ts \in Seq(T), NEW start \in 1..Len(ts), Begun(ts, start),
         Over(ts, 1, start, Len(ts)) # {}
  PROVE  Parses(mode, ts) # {}
<1>1. PICK d : d \in Over(ts, 1, start, Len(ts))
  OBVIOUS
<1>2. Len(ts) \in Nat /\ ts # << >> /\ Len(ts) \in start..Len(ts)
  BY LenProperties
<1>3. mode \in {"formula", "document"}
  BY DEF TypeInv, ItemsOK
<1>4. CASE mode = "formula"
  <2>1. start = 1
    BY <1>4 DEF Begun
  <2>2. <<Item(d, 0)>> \in Parses(mode, ts)
    BY <1>1, <1>2, <1>4, <2>1 DEF Parses, Over
  <2>3. QED
    BY <2>2
<1>5. CASE mode = "document"
  <2>1. Item(d, 0) \in ItemsOver(ts, Derivations(ts), start, Len(ts))
    BY <1>1, InItems
  <2>2. Append(items, Item(d, 0)) \in ItemLists(ts, Derivations(ts))[Len(ts)]
    BY <1>2, <2>1, ItemAdded
  <2>3. Append(items, Item(d, 0)) \in Parses(mode, ts)
    BY <1>2, <1>5, <2>2 DEF Parses
  <2>4. QED
    BY <2>3
<1>6. QED
  BY <1>3, <1>4, <1>5

-----------------------------------------------------------------------------
(***************************************************************************)
(* A text, what it lacks, and the parentheses that close it.               *)
(***************************************************************************)
Completed(q, missing, n) == q \o missing \o [i \in 1..n |-> "RPAREN"]
Opened(q) == Number(Places(q, "LPAREN"), Len(q)) - Number(Places(q, "RPAREN"), Len(q))
Missing == {<< >>, <<"NUMBER">>, <<"IDENT">>}

IsCompleted(ts, q, missing, n) ==
  /\ ts \in Seq(TokenTypes) /\ Len(missing) \in 0..1 /\ Len(q) \in Nat
  /\ Len(ts) = Len(q) + Len(missing) + n
  /\ \A i \in 1..Len(q) : ts[i] = q[i]
  /\ Len(missing) = 1 => ts[Len(q) + 1] = missing[1]
  /\ \A i \in Len(q) + Len(missing) + 1..Len(q) + Len(missing) + n : ts[i] = "RPAREN"

LEMMA CompletedText ==
  ASSUME NEW q \in Seq(TokenTypes), NEW missing \in Missing, NEW n \in Nat
  PROVE  IsCompleted(Completed(q, missing, n), q, missing, n)
<1>1. missing \in Seq(TokenTypes) /\ Len(missing) \in 0..1
  <2>1. "NUMBER" \in TokenTypes /\ "IDENT" \in TokenTypes
    BY DEF TokenTypes, Identifiers
  <2>2. CASE missing = << >>
    BY <2>2
  <2>3. CASE missing = <<"NUMBER">>
    BY <2>1, <2>3
  <2>4. CASE missing = <<"IDENT">>
    BY <2>1, <2>4
  <2>5. QED
    BY <2>2, <2>3, <2>4 DEF Missing
<1>2. PICK ends : ends = [i \in 1..n |-> "RPAREN"]
  OBVIOUS
<1>3. ends \in Seq(TokenTypes) /\ Len(ends) = n /\ \A i \in 1..n : ends[i] = "RPAREN"
  <2>1. "RPAREN" \in TokenTypes
    BY DEF TokenTypes
  <2>2. QED
    BY <1>2, <2>1
<1>4. PICK head \in Seq(TokenTypes) : head = q \o missing
  BY <1>1, ConcatProperties
<1>5. /\ Len(q) \in Nat /\ Len(head) = Len(q) + Len(missing)
      /\ \A i \in 1..Len(q) : head[i] = q[i]
      /\ Len(missing) = 1 => head[Len(q) + 1] = missing[1]
  BY <1>1, <1>4
<1>6. /\ head \o ends \in Seq(TokenTypes) /\ Len(head \o ends) = Len(head) + n
      /\ \A i \in 1..Len(head) : (head \o ends)[i] = head[i]
      /\ \A i \in Len(head) + 1..Len(head) + n : (head \o ends)[i] = ends[i - Len(head)]
  BY <1>3
<1>7. Completed(q, missing, n) = head \o ends
  BY <1>2, <1>4 DEF Completed
<1>8. \A i \in Len(head) + 1..Len(head) + n : (head \o ends)[i] = "RPAREN"
  BY <1>1, <1>3, <1>5, <1>6
<1>9. QED
  BY <1>1, <1>5, <1>6, <1>7, <1>8 DEF IsCompleted

LEMMA ViableIs ==
  ASSUME NEW m, NEW q \in Seq(TokenTypes)
  PROVE  Viable(m, q) <=>
           Opened(q) >= 0 /\ \E missing \in Missing : Parses(m, Completed(q, missing, Opened(q))) # {}
<1>1. \A t : Cardinality({i \in DOMAIN q : q[i] = t}) = Number(Places(q, t), Len(q))
  <2>1. DOMAIN q = 1..Len(q)
    BY LenProperties
  <2>2. \A t : {i \in DOMAIN q : q[i] = t} = {i \in 1..Len(q) : i \in Places(q, t)}
    BY <2>1 DEF Places
  <2>3. QED
    BY <2>2 DEF Number
<1>2. Cardinality({i \in DOMAIN q : q[i] = "LPAREN"}) - Cardinality({i \in DOMAIN q : q[i] = "RPAREN"}) = Opened(q)
  BY <1>1 DEF Opened
<1>3. QED
  BY <1>2 DEF Viable, Completed, Missing

\* What has been read, and that with an operator behind it.
LEMMA FrontIs ==
  ASSUME TypeInv, Balanced, label # "new"
  PROVE  /\ Front(tokens) \in Seq(TokenTypes) /\ Len(tokens) \in Nat /\ Len(tokens) >= 1
         /\ Len(Front(tokens)) = Len(tokens) - 1
         /\ \A i \in 1..Len(tokens) - 1 : Front(tokens)[i] = tokens[i]
         /\ Depth \in Nat /\ Opened(Front(tokens)) = Depth
<1>1. tokens \in Seq(Lexicon) /\ Len(tokens) \in Nat /\ Len(tokens) >= 1 /\ tokens # << >> /\ Listing(tokens)
  BY PosInText, ListingOf DEF TypeInv, TextOK
<1>2. PICK q : q = Front(tokens)
  OBVIOUS
<1>3. Len(q) = Len(tokens) - 1 /\ \A i \in 1..Len(tokens) - 1 : q[i] = tokens[i]
  BY <1>1, <1>2, ListingShortens
<1>4. q \in Seq(TokenTypes)
  <2>1. \A i \in 1..Len(tokens) - 1 : tokens[i] \in TokenTypes
    BY <1>1, LexiconAssumption
  <2>2. SubSeq(tokens, 1, Len(tokens) - 1) \in Seq(TokenTypes)
    BY <1>1, <2>1, SubSeqProperties
  <2>3. QED
    BY <1>2, <2>2 DEF Front
<1>5. PICK n \in Nat : n + 1 = Len(tokens)
  <2>1. Len(tokens) - 1 \in Nat /\ (Len(tokens) - 1) + 1 = Len(tokens)
    BY <1>1
  <2>2. QED
    BY <2>1
<1>6. \A t : Number(Places(q, t), Len(q)) = Read(t)
  <2>1. Len(q) = n /\ Len(tokens) - 1 = n
    BY <1>1, <1>3, <1>5
  <2>2. \A i \in 1..n : i \in DOMAIN tokens /\ i \in DOMAIN q /\ q[i] = tokens[i]
    BY <1>1, <1>3, <1>4, <1>5
  <2>3. \A t : \A i \in 1..n : i \in Places(q, t) <=> i \in Places(tokens, t)
    BY <2>2 DEF Places
  <2>4. \A t : Number(Places(q, t), n) = Number(Places(tokens, t), n)
    BY <2>3, SameNumber
  <2>5. QED
    BY <2>1, <2>4 DEF Read
<1>7. Read("RPAREN") \in Nat /\ Depth \in Nat
  <2>1. Len(stack) \in Nat /\ n \in Nat /\ Len(tokens) - 1 = n
    BY <1>1, <1>5, LenProperties DEF TypeInv, StackOK, Listing
  <2>2. QED
    BY <2>1, NumberIs DEF Read, Depth
<1>8. Opened(q) = Depth
  BY <1>6, <1>7 DEF Opened, Balanced
<1>9. QED
  BY <1>1, <1>2, <1>3, <1>4, <1>7, <1>8

LEMMA FrontAndOperator ==
  ASSUME TypeInv, Balanced, label # "new"
  PROVE  /\ Append(Front(tokens), "AMPERSAND") \in Seq(TokenTypes)
         /\ Len(Append(Front(tokens), "AMPERSAND")) = Len(tokens)
         /\ \A i \in 1..Len(tokens) - 1 : Append(Front(tokens), "AMPERSAND")[i] = tokens[i]
         /\ Append(Front(tokens), "AMPERSAND")[Len(tokens)] = "AMPERSAND"
         /\ Opened(Append(Front(tokens), "AMPERSAND")) = Depth
<1>1. PICK q \in Seq(TokenTypes) : q = Front(tokens)
  BY FrontIs
<1>2. /\ Len(tokens) \in Nat /\ Len(tokens) >= 1 /\ Len(q) = Len(tokens) - 1
      /\ \A i \in 1..Len(tokens) - 1 : q[i] = tokens[i]
      /\ Depth \in Nat /\ Opened(q) = Depth
  BY <1>1, FrontIs
<1>3. PICK a : a = Append(q, "AMPERSAND")
  OBVIOUS
<1>4. "AMPERSAND" \in TokenTypes
  BY DEF TokenTypes, Additions
<1>5. /\ a \in Seq(TokenTypes) /\ Len(a) = Len(q) + 1 /\ a[Len(q) + 1] = "AMPERSAND"
      /\ \A i \in 1..Len(q) : a[i] = q[i]
  BY <1>3, <1>4
<1>6. PICK n \in Nat : n = Len(q)
  BY <1>2
<1>7. ASSUME NEW t \in {"LPAREN", "RPAREN"} PROVE Number(Places(a, t), Len(a)) = Number(Places(q, t), Len(q))
  <2>1. \A i \in 1..n : i \in Places(a, t) <=> i \in Places(q, t)
    BY <1>5, <1>6 DEF Places
  <2>2. n + 1 \notin Places(a, t)
    BY <1>5, <1>6, <1>7 DEF Places
  <2>3. Number(Places(a, t), n) = Number(Places(q, t), n)
    BY <2>1, SameNumber
  <2>4. Number(Places(a, t), n) \in Nat /\ Number(Places(a, t), n + 1) = Number(Places(a, t), n)
    BY <2>2, NumberIs
  <2>5. QED
    BY <1>5, <1>6, <2>3, <2>4
<1>8. Opened(a) = Depth
  BY <1>2, <1>7 DEF Opened
<1>9. QED
  BY <1>1, <1>2, <1>3, <1>5, <1>8

\* A tree in the hole, and what closes the stack.
LEMMA HoleFilled ==
  ASSUME TypeInv, Balanced, label # "new", NEW T, NEW ts \in Seq(T), NEW start, NEW g,
         Hang(ts, stack, Len(tokens), start, g), Begun(ts, start), NEW e \in Nat, g.from <= e,
         Over(ts, g.level, g.from, e) # {}, Len(ts) = e + Depth, \A i \in e + 1..Len(ts) : ts[i] = "RPAREN"
  PROVE  Parses(mode, ts) # {}
<1>1. Listing(stack) /\ Len(tokens) \in Nat
  BY PosInText DEF TypeInv, StackOK
<1>2. PICK s, p : s = stack /\ p = Len(tokens)
  OBVIOUS
<1>3. start \in 1..Len(ts) /\ Over(ts, 1, start, Len(ts)) # {}
  <2>1. Listing(s) /\ p \in Nat /\ Hang(ts, s, p, start, g) /\ Len(ts) = e + Number(Bracketed(s), Len(s))
    BY <1>1, <1>2 DEF Depth
  <2>2. QED
    BY <2>1, StackFilled
<1>4. QED
  BY <1>3, TextFilled

\* A text that goes on like that.
Completes(ts, missing) ==
  /\ ts \in Seq(TokenTypes) /\ ReadFrom(ts)
  /\ Len(missing) \in 0..1 /\ Len(ts) = Len(tokens) - 1 + Len(missing) + Depth
  /\ Len(missing) = 1 => ts[Len(tokens)] = missing[1]
  /\ \A i \in Len(tokens) + Len(missing)..Len(ts) : ts[i] = "RPAREN"

LEMMA FrontCompleted ==
  ASSUME TypeInv, Balanced, label # "new", NEW missing \in Missing
  PROVE  Completes(Completed(Front(tokens), missing, Depth), missing)
<1>1. PICK q \in Seq(TokenTypes), n \in Nat : q = Front(tokens) /\ n = Depth
  BY FrontIs
<1>2. /\ Len(tokens) \in Nat /\ Len(tokens) >= 1 /\ Len(q) = Len(tokens) - 1
      /\ \A i \in 1..Len(tokens) - 1 : q[i] = tokens[i]
  BY <1>1, FrontIs
<1>3. PICK ts : ts = Completed(q, missing, n)
  OBVIOUS
<1>4. /\ ts \in Seq(TokenTypes) /\ Len(missing) \in 0..1
      /\ Len(ts) = Len(q) + Len(missing) + n
      /\ \A i \in 1..Len(q) : ts[i] = q[i]
      /\ Len(missing) = 1 => ts[Len(q) + 1] = missing[1]
      /\ \A i \in Len(q) + Len(missing) + 1..Len(q) + Len(missing) + n : ts[i] = "RPAREN"
  <2>1. IsCompleted(ts, q, missing, n)
    BY <1>3, CompletedText
  <2>2. QED
    BY <2>1 DEF IsCompleted
<1>5. ReadFrom(ts)
  BY <1>2, <1>4 DEF ReadFrom
<1>6. Len(q) + 1 = Len(tokens) /\ Len(q) + Len(missing) + 1 = Len(tokens) + Len(missing)
  BY <1>2, <1>4
<1>7. Completes(ts, missing)
  BY <1>1, <1>2, <1>4, <1>5, <1>6 DEF Completes
<1>8. QED
  BY <1>1, <1>3, <1>7

\* Where an operand is wanted, a number will do.
LEMMA NumberFills ==
  ASSUME TypeInv, Balanced, label # "new", NEW ts, Completes(ts, <<"NUMBER">>), NEW start, NEW g,
         Hang(ts, stack, Len(tokens), start, g), Begun(ts, start), g.from = Len(tokens)
  PROVE  Parses(mode, ts) # {}
<1>1. Len(<<"NUMBER">>) = 1 /\ <<"NUMBER">>[1] = "NUMBER"
  OBVIOUS
<1>2. PICK e \in Nat : e = Len(tokens)
  BY PosInText
<1>3. /\ ts \in Seq(TokenTypes) /\ Depth \in Nat /\ Len(ts) = e + Depth /\ ts[e] = "NUMBER"
      /\ \A i \in e + 1..Len(ts) : ts[i] = "RPAREN"
  <2>1. Len(tokens) - 1 + 1 + Depth = e + Depth /\ Len(tokens) + 1 = e + 1 /\ Depth \in Nat
    BY <1>2, FrontIs
  <2>2. QED
    BY <1>1, <1>2, <2>1 DEF Completes
<1>4. e \in 1..Len(ts) /\ e \in e..Len(ts)
  BY <1>2, <1>3, PosInText
<1>5. g.level \in 1..4
  <2>1. Len(stack) \in Nat
    BY LenProperties DEF TypeInv, StackOK, Listing
  <2>2. PICK s, p : s = stack /\ p = Len(tokens)
    OBVIOUS
  <2>3. QED
    BY <1>2, <2>1, <2>2, HangTop
<1>6. Leaf("literal", e) \in Over(ts, 4, e, e)
  BY <1>3, <1>4, WordsAreFactors
<1>7. Leaf("literal", e) \in Over(ts, g.level, e, e)
  BY <1>3, <1>4, <1>5, <1>6, Lower
<1>8. QED
  <2>1. g.from <= e /\ Over(ts, g.level, g.from, e) # {}
    BY <1>2, <1>7
  <2>2. QED
    BY <1>3, <2>1, HoleFilled

\* Where a factor is over, nothing is lacking.
LEMMA NothingFills ==
  ASSUME TypeInv, Balanced, label # "new", NEW ts, Completes(ts, << >>), NEW start, NEW g,
         Hang(ts, stack, Len(tokens), start, g), Begun(ts, start), g.from <= Len(tokens) - 1,
         NEW l \in 1..4, g.level <= l, Over(ts, l, g.from, Len(tokens) - 1) # {}
  PROVE  Parses(mode, ts) # {}
<1>1. Len(<< >>) = 0
  OBVIOUS
<1>2. PICK e \in Nat : e = Len(tokens) - 1 /\ e + 1 = Len(tokens)
  <2>1. Len(tokens) - 1 \in Nat /\ (Len(tokens) - 1) + 1 = Len(tokens)
    BY PosInText
  <2>2. QED
    BY <2>1
<1>3. /\ ts \in Seq(TokenTypes) /\ Depth \in Nat /\ Len(ts) = e + Depth
      /\ \A i \in e + 1..Len(ts) : ts[i] = "RPAREN"
  <2>1. Len(tokens) - 1 + 0 + Depth = e + Depth /\ Len(tokens) + 0 = e + 1 /\ Depth \in Nat
    BY <1>2, FrontIs
  <2>2. QED
    BY <1>1, <1>2, <2>1 DEF Completes
<1>4. g.level \in 1..4 /\ g.from \in 1..Len(tokens)
  <2>1. Len(stack) \in Nat /\ Len(tokens) \in Nat
    BY PosInText, LenProperties DEF TypeInv, StackOK, Listing
  <2>2. PICK s, p : s = stack /\ p = Len(tokens)
    OBVIOUS
  <2>3. QED
    BY <2>1, <2>2, HangTop
<1>5. g.from \in 1..Len(ts) /\ e \in g.from..Len(ts) /\ g.level \in 1..l
  BY <1>2, <1>3, <1>4
<1>6. PICK x : x \in Over(ts, l, g.from, e)
  BY <1>2
<1>7. x \in Over(ts, g.level, g.from, e)
  BY <1>3, <1>5, <1>6, Lower
<1>8. QED
  BY <1>2, <1>3, <1>5, <1>7, HoleFilled

\* Where a name is wanted, a name will do.
LEMMA SegmentFills ==
  ASSUME TypeInv, Balanced, label # "new", NEW ts, Completes(ts, <<"IDENT">>), NEW start, NEW g,
         Hang(ts, stack, Len(tokens), start, g), Begun(ts, start),
         PathSoFar(ts, g.from, Len(tokens) - 2), ts[Len(tokens) - 1] = "DOT"
  PROVE  Parses(mode, ts) # {}
<1>1. Len(<<"IDENT">>) = 1 /\ <<"IDENT">>[1] = "IDENT"
  OBVIOUS
<1>2. PICK e \in Nat : e = Len(tokens)
  BY PosInText
<1>3. /\ ts \in Seq(TokenTypes) /\ Depth \in Nat /\ Len(ts) = e + Depth /\ ts[e] = "IDENT"
      /\ \A i \in e + 1..Len(ts) : ts[i] = "RPAREN"
  <2>1. Len(tokens) - 1 + 1 + Depth = e + Depth /\ Len(tokens) + 1 = e + 1 /\ Depth \in Nat
    BY <1>2, FrontIs
  <2>2. QED
    BY <1>1, <1>2, <2>1 DEF Completes
<1>4. g.level \in 1..4 /\ g.from \in 1..e
  <2>1. Len(stack) \in Nat
    BY LenProperties DEF TypeInv, StackOK, Listing
  <2>2. PICK s, p : s = stack /\ p = Len(tokens)
    OBVIOUS
  <2>3. QED
    BY <1>2, <2>1, <2>2, HangTop
<1>5. IsPath(ts, g.from, e)
  <2>1. PICK f \in Nat : f = g.from
    BY <1>4
  <2>2. /\ e - 2 >= f /\ ((e - 2) - f) % 2 = 0 /\ ts[f] # "TRUE" /\ ts[e - 1] = "DOT" /\ ts[e] \in Identifiers
        /\ \A i \in f..e - 2 : IF (i - f) % 2 = 0 THEN ts[i] \in Identifiers ELSE ts[i] = "DOT"
    BY <1>2, <1>3, <2>1 DEF PathSoFar, Identifiers
  <2>3. (e - f) % 2 = 0 /\ ((e - 1) - f) % 2 = 1 /\ e > f + 1
    BY <2>2
  <2>4. \A i \in f..e : i \in f..e - 2 \/ i = e - 1 \/ i = e
    BY <1>2, <2>1
  <2>5. \A i \in f..e : IF (i - f) % 2 = 0 THEN ts[i] \in Identifiers ELSE ts[i] = "DOT"
    BY <2>2, <2>3, <2>4
  <2>6. QED
    BY <2>1, <2>2, <2>3, <2>5 DEF IsPath
<1>6. g.from \in 1..Len(ts) /\ e \in g.from + 1..Len(ts) /\ e \in g.from..Len(ts) /\ g.level \in 1..4
  BY <1>2, <1>3, <1>4, <1>5 DEF IsPath
<1>7. PathOver(g.from, e) \in Over(ts, 4, g.from, e)
  BY <1>3, <1>5, <1>6, InFactor
<1>8. PathOver(g.from, e) \in Over(ts, g.level, g.from, e)
  BY <1>3, <1>6, <1>7, Lower
<1>9. QED
  <2>1. g.from <= e /\ Over(ts, g.level, g.from, e) # {}
    BY <1>4, <1>8
  <2>2. QED
    BY <1>3, <2>1, HoleFilled

LEMMA AliasFills ==
  ASSUME TypeInv, Balanced, label # "new", mode = "document", stack = << >>,
         NEW ts, Completes(ts, <<"IDENT">>), NEW start \in 1..Len(tokens) - 2, Begun(ts, start),
         ts[Len(tokens) - 1] = "AS", NEW d \in Over(ts, 1, start, Len(tokens) - 2)
  PROVE  Parses(mode, ts) # {}
<1>1. Len(<<"IDENT">>) = 1 /\ <<"IDENT">>[1] = "IDENT"
  OBVIOUS
<1>2. PICK e \in Nat : e = Len(tokens)
  BY PosInText
<1>3. Depth = 0
  <2>1. Len(stack) = 0
    OBVIOUS
  <2>2. QED
    BY <2>1, NumberIs DEF Depth
<1>4. ts \in Seq(TokenTypes) /\ Len(ts) = e /\ ts[e] = "IDENT"
  <2>1. Len(tokens) - 1 + 1 + 0 = e
    BY <1>2
  <2>2. QED
    BY <1>1, <1>2, <1>3, <2>1 DEF Completes
<1>5. start \in 1..Len(ts) /\ e \in start..Len(ts) /\ e > start + 1 /\ ts # << >>
  BY <1>2, <1>4
<1>6. Item(d, e) \in ItemsOver(ts, Derivations(ts), start, e)
  BY <1>2, <1>4, <1>5, InItems DEF Identifiers
<1>7. Append(items, Item(d, e)) \in ItemLists(ts, Derivations(ts))[e]
  BY <1>4, <1>5, <1>6, ItemAdded
<1>8. Append(items, Item(d, e)) \in Parses(mode, ts)
  BY <1>4, <1>5, <1>7 DEF Parses
<1>9. QED
  BY <1>8

\* What is lacking where the parser waits for a token.
Lacks(lab) ==
  IF lab \in {"start", "item", "factor", "arguments", "next_item"} THEN <<"NUMBER">>
  ELSE IF lab \in {"segment", "alias"} THEN <<"IDENT">> ELSE << >>

LEMMA NoFrames ==
  ASSUME TypeInv, stack = << >>
  PROVE  Depth = 0 /\ Len(stack) = 0
<1>1. Len(stack) = 0
  OBVIOUS
<1>2. QED
  BY <1>1, NumberIs DEF Depth

LEMMA CompletedFactor ==
  ASSUME TypeInv, Balanced, label # "new", NEW lab \in Labels,
         NEW ts, Completes(ts, Lacks(lab)), NEW start, NEW g,
         Hang(ts, stack, Len(tokens), start, g), Begun(ts, start), InFactorAt(lab, ts, Len(tokens), g)
  PROVE  Parses(mode, ts) # {}
<1>1. /\ Len(tokens) \in Nat /\ Len(tokens) >= 1
      /\ ts \in Seq(TokenTypes) /\ Len(ts) \in Nat /\ Len(tokens) - 1 <= Len(ts)
  BY PosInText, LenProperties DEF Completes, ReadFrom
<1>2. g.level \in 1..4 /\ g.from \in 1..Len(tokens)
  <2>1. Len(stack) \in Nat
    BY LenProperties DEF TypeInv, StackOK, Listing
  <2>2. PICK s, p : s = stack /\ p = Len(tokens)
    OBVIOUS
  <2>3. QED
    BY <1>1, <2>1, <2>2, HangTop
<1>3. CASE lab \in {"item", "factor", "arguments"} /\ g.from = Len(tokens)
  <2>1. Completes(ts, <<"NUMBER">>)
    BY <1>3 DEF Lacks
  <2>2. QED
    BY <1>3, <2>1, NumberFills
<1>4. CASE lab = "name" /\ g.from = Len(tokens) - 1 /\ ts[Len(tokens) - 1] \in Identifiers
  <2>1. Completes(ts, << >>)
    BY <1>4 DEF Lacks
  <2>2. PICK e \in 1..Len(ts) : e = Len(tokens) - 1
    BY <1>1, <1>2, <1>4
  <2>3. Over(ts, 4, e, e) # {}
    BY <1>1, <1>4, <2>2, WordsAreFactors DEF Identifiers
  <2>4. 4 \in 1..4 /\ g.level <= 4 /\ g.from <= Len(tokens) - 1 /\ Over(ts, 4, g.from, Len(tokens) - 1) # {}
    BY <1>1, <1>2, <1>4, <2>2, <2>3
  <2>5. QED
    BY <2>1, <2>4, NothingFills
<1>5. CASE lab = "segment" /\ PathSoFar(ts, g.from, Len(tokens) - 2) /\ ts[Len(tokens) - 1] = "DOT"
  <2>1. Completes(ts, <<"IDENT">>)
    BY <1>5 DEF Lacks
  <2>2. QED
    BY <1>5, <2>1, SegmentFills
<1>6. CASE lab = "dot" /\ IsPath(ts, g.from, Len(tokens) - 1)
  <2>1. Completes(ts, << >>)
    BY <1>6 DEF Lacks
  <2>2. Len(tokens) - 1 > g.from + 1
    BY <1>6 DEF IsPath
  <2>3. g.from \in 1..Len(ts) /\ Len(tokens) - 1 \in g.from + 1..Len(ts)
    BY <1>1, <1>2, <2>2
  <2>4. PathOver(g.from, Len(tokens) - 1) \in Over(ts, 4, g.from, Len(tokens) - 1)
    BY <1>1, <1>6, <2>3, InFactor
  <2>5. 4 \in 1..4 /\ g.level <= 4 /\ g.from <= Len(tokens) - 1 /\ Over(ts, 4, g.from, Len(tokens) - 1) # {}
    BY <1>1, <1>2, <2>2, <2>4
  <2>6. QED
    BY <2>1, <2>5, NothingFills
<1>7. QED
  BY <1>3, <1>4, <1>5, <1>6 DEF InFactorAt

LEMMA CompletedLoops ==
  ASSUME TypeInv, Balanced, label # "new", NEW lab \in Labels, lab = "alias" => mode = "document" /\ stack = << >>,
         NEW ts, Completes(ts, Lacks(lab)), NEW start, NEW g,
         Hang(ts, stack, Len(tokens), start, g), Begun(ts, start), InLoopsAt(lab, ts, Len(tokens), g)
  PROVE  Parses(mode, ts) # {}
<1>1. /\ Len(tokens) \in Nat /\ Len(tokens) >= 1
      /\ ts \in Seq(TokenTypes) /\ Len(ts) \in Nat /\ Len(tokens) - 1 <= Len(ts)
  BY PosInText, LenProperties DEF Completes, ReadFrom
<1>2. /\ g.level \in 1..4 /\ g.from \in 1..Len(tokens)
      /\ stack = << >> => g.from = start
  <2>1. Len(stack) \in Nat /\ (stack = << >> => Len(stack) = 0)
    BY LenProperties DEF TypeInv, StackOK, Listing
  <2>2. PICK s, p : s = stack /\ p = Len(tokens)
    OBVIOUS
  <2>3. QED
    BY <1>1, <2>1, <2>2, HangTop
<1>3. CASE /\ lab \in {"operand", "loop", "value"} /\ g.from <= Len(tokens) - 1
           /\ \E l \in 1..4 : g.level <= l /\ node \in Over(ts, l, g.from, Len(tokens) - 1)
  <2>1. Completes(ts, << >>)
    BY <1>3 DEF Lacks
  <2>2. PICK l \in 1..4 : g.level <= l /\ node \in Over(ts, l, g.from, Len(tokens) - 1)
    BY <1>3
  <2>3. Over(ts, l, g.from, Len(tokens) - 1) # {}
    BY <2>2
  <2>4. QED
    BY <1>3, <2>1, <2>2, <2>3, NothingFills
<1>4. CASE /\ lab = "alias" /\ g.from <= Len(tokens) - 2 /\ ts[Len(tokens) - 1] = "AS"
           /\ node \in Over(ts, 1, g.from, Len(tokens) - 2)
  <2>1. Completes(ts, <<"IDENT">>)
    BY <1>4 DEF Lacks
  <2>2. stack = << >> /\ mode = "document" /\ g.from = start /\ start \in 1..Len(tokens) - 2
    BY <1>1, <1>2, <1>4
  <2>3. node \in Over(ts, 1, start, Len(tokens) - 2)
    BY <1>4, <2>2
  <2>4. QED
    BY <1>4, <2>1, <2>2, <2>3, AliasFills
<1>5. level \in 1..3
  BY DEF TypeInv, PlaceOK
<1>6. lab = "operand" => <1>3!1
  BY <1>2 DEF InLoopsAt
<1>7. lab = "value" => <1>3!1
  BY <1>2 DEF InLoopsAt
<1>8. lab = "loop" => <1>3!1
  BY <1>2, <1>5 DEF InLoopsAt
<1>9. lab \in {"operand", "value", "loop"} \/ <1>4!1
  BY DEF InLoopsAt
<1>10. QED
  BY <1>3, <1>4, <1>6, <1>7, <1>8, <1>9

LEMMA CompletedOutside ==
  ASSUME TypeInv, Balanced, label # "new", NEW lab \in Labels \ {"new", "done"}, lab = "next_item" => mode = "document",
         NEW ts, Completes(ts, Lacks(lab)), OutsideItems(lab, ts)
  PROVE  Parses(mode, ts) # {}
<1>1. /\ Len(tokens) \in Nat /\ Len(tokens) >= 1
      /\ ts \in Seq(TokenTypes) /\ Len(ts) \in Nat /\ Len(tokens) - 1 <= Len(ts)
  BY PosInText, LenProperties DEF Completes, ReadFrom
<1>2. stack = << >> /\ Depth = 0 /\ Len(stack) = 0
  BY NoFrames DEF OutsideItems
<1>3. \A start \in 1..Len(tokens) : Hang(ts, stack, Len(tokens), start, Hole(start, 1))
  <2>1. PICK s, p : s = stack /\ p = Len(tokens)
    OBVIOUS
  <2>2. QED
    BY <1>1, <1>2, <2>1, HangNone
<1>4. CASE lab = "start"
  <2>1. Completes(ts, <<"NUMBER">>) /\ Len(tokens) = 1 /\ items = << >>
    BY <1>4 DEF Lacks, OutsideItems
  <2>2. Begun(ts, 1) /\ Hang(ts, stack, Len(tokens), 1, Hole(1, 1)) /\ Hole(1, 1).from = Len(tokens)
    BY <1>1, <1>3, <2>1 DEF Begun, Hole
  <2>3. QED
    BY <2>1, <2>2, NumberFills
<1>5. CASE lab = "next_item"
  <2>1. /\ Completes(ts, <<"NUMBER">>) /\ Len(tokens) > 2 /\ ts[Len(tokens) - 1] = "COMMA"
        /\ ParsedUpto(ts, Len(tokens) - 2) /\ mode = "document"
    BY <1>5 DEF Lacks, OutsideItems
  <2>2. Begun(ts, Len(tokens))
    BY <1>1, <2>1 DEF Begun, ParsedUpto
  <2>3. /\ Hang(ts, stack, Len(tokens), Len(tokens), Hole(Len(tokens), 1))
        /\ Hole(Len(tokens), 1).from = Len(tokens)
    BY <1>1, <1>3 DEF Hole
  <2>4. QED
    BY <2>1, <2>2, <2>3, NumberFills
<1>6. CASE lab = "separator"
  <2>1. Completes(ts, << >>) /\ Len(tokens) > 1 /\ ParsedUpto(ts, Len(tokens) - 1)
    BY <1>6 DEF Lacks, OutsideItems
  <2>2. Len(ts) = Len(tokens) - 1 /\ ts # << >>
    <3>1. Len(<< >>) = 0
      OBVIOUS
    <3>2. Len(ts) = Len(tokens) - 1
      BY <1>1, <1>2, <2>1, <3>1 DEF Completes
    <3>3. QED
      BY <1>1, <2>1, <3>2
  <2>3. mode \in {"formula", "document"}
    BY DEF TypeInv, ItemsOK
  <2>4. items \in Parses(mode, ts)
    BY <2>1, <2>2, <2>3 DEF ParsedUpto, Parses, Over
  <2>5. QED
    BY <2>4
<1>7. QED
  BY <1>4, <1>5, <1>6 DEF OutsideItems

\* Wherever it is, what the parser has read can be completed.
LEMMA FrontViable ==
  ASSUME TypeInv, Balanced, label # "new", NEW lab \in Labels \ {"new", "done"},
         lab \in {"alias", "next_item"} => mode = "document",
         \A ts \in Seq(TokenTypes) : ReadFrom(ts) => MakesAs(lab, ts)
  PROVE  Viable(mode, Front(tokens))
<1>1. Lacks(lab) \in Missing
  BY DEF Lacks, Missing
<1>2. PICK ts : ts = Completed(Front(tokens), Lacks(lab), Depth)
  OBVIOUS
<1>3. Completes(ts, Lacks(lab))
  BY <1>1, <1>2, FrontCompleted
<1>4. MakesAs(lab, ts)
  BY <1>3 DEF Completes
<1>5. Parses(mode, ts) # {}
  <2>1. CASE WithinItem(lab, ts)
    <3>1. PICK start, g :
            /\ Hang(ts, stack, Len(tokens), start, g) /\ Begun(ts, start)
            /\ InFactorAt(lab, ts, Len(tokens), g) \/ InLoopsAt(lab, ts, Len(tokens), g)
            /\ lab = "alias" => stack = << >>
      BY <2>1 DEF WithinItem
    <3>2. CASE InFactorAt(lab, ts, Len(tokens), g)
      BY <1>3, <3>1, <3>2, CompletedFactor
    <3>3. CASE InLoopsAt(lab, ts, Len(tokens), g)
      BY <1>3, <3>1, <3>3, CompletedLoops
    <3>4. QED
      BY <3>1, <3>2, <3>3
  <2>2. CASE OutsideItems(lab, ts)
    BY <1>3, <2>2, CompletedOutside
  <2>3. QED
    BY <1>4, <2>1, <2>2 DEF MakesAs
<1>6. Front(tokens) \in Seq(TokenTypes) /\ Depth \in Nat /\ Opened(Front(tokens)) = Depth
  BY FrontIs
<1>7. /\ Opened(Front(tokens)) >= 0
      /\ \E missing \in Missing : Parses(mode, Completed(Front(tokens), missing, Opened(Front(tokens)))) # {}
  BY <1>1, <1>2, <1>5, <1>6
<1>8. QED
  BY <1>6, <1>7, ViableIs

-----------------------------------------------------------------------------
(***************************************************************************)
(* Nothing starts with the tokens up to the one that is refused.           *)
(***************************************************************************)
LEMMA RefusedText ==
  ASSUME TypeInv, Balanced, label # "new", \A ts \in Seq(TokenTypes) : Continues(ts) => Parses(mode, ts) = {}
  PROVE  IF Current = "EOF" THEN Parses(mode, Front(tokens)) = {} ELSE ~Viable(mode, tokens)
<1>1. CASE Current = "EOF"
  <2>1. /\ Front(tokens) \in Seq(TokenTypes) /\ Len(Front(tokens)) = Len(tokens) - 1
        /\ \A i \in 1..Len(tokens) - 1 : Front(tokens)[i] = tokens[i] /\ Len(tokens) \in Nat
    BY FrontIs
  <2>2. Continues(Front(tokens))
    BY <1>1, <2>1, FrontIs DEF Continues, ReadFrom
  <2>3. QED
    BY <1>1, <2>1, <2>2
<1>2. CASE Current # "EOF"
  <2>1. PICK q \in Seq(TokenTypes) : q = tokens
    <3>1. tokens \in Seq(Lexicon) /\ Lexicon \subseteq TokenTypes
      BY LexiconAssumption DEF TypeInv, TextOK
    <3>2. QED
      BY <3>1
  <2>2. Len(q) \in Nat /\ Len(q) >= 1 /\ Current = q[Len(q)]
    BY <2>1, PosInText DEF Current, Last
  <2>3. ASSUME Opened(q) >= 0, NEW missing \in Missing, Parses(mode, Completed(q, missing, Opened(q))) # {}
        PROVE  FALSE
    <3>1. PICK n \in Nat : n = Opened(q)
      <4>1. Number(Places(q, "LPAREN"), Len(q)) \in Nat /\ Number(Places(q, "RPAREN"), Len(q)) \in Nat
        BY <2>2, NumberIs
      <4>2. Opened(q) \in Nat
        BY <2>3, <4>1 DEF Opened
      <4>3. QED
        BY <4>2
    <3>2. PICK ts : ts = Completed(q, missing, n)
      OBVIOUS
    <3>3. IsCompleted(ts, q, missing, n)
      BY <3>2, CompletedText
    <3>4. ts \in Seq(TokenTypes) /\ Len(q) <= Len(ts) /\ \A i \in 1..Len(q) : ts[i] = q[i]
      BY <2>2, <3>3 DEF IsCompleted
    <3>5. Continues(ts)
      BY <1>2, <2>1, <2>2, <3>4 DEF Continues, ReadFrom
    <3>6. QED
      BY <2>3, <3>1, <3>2, <3>4, <3>5
  <2>4. ~Viable(mode, q)
    BY <2>3, ViableIs
  <2>5. QED
    BY <1>2, <2>1, <2>4
<1>3. QED
  BY <1>1, <1>2

(***************************************************************************)
(* An operator and an operand behind an expression make a longer one.      *)
(***************************************************************************)
LEMMA OperatorJoins ==
  ASSUME NEW T, NEW ts \in Seq(T), NEW from \in 1..Len(ts), NEW k \in from + 1..Len(ts) - 1,
         NEW l \in 1..3, NEW a \in Over(ts, l, from, k - 1), ts[k] \in Operators[l],
         NEW to \in k + 1..Len(ts), NEW b \in Over(ts, l + 1, k + 1, to)
  PROVE  Tree("binary", k, <<a, b>>) \in Over(ts, l, from, to)
<1>1. to \in from..Len(ts) /\ k \in from + 1..to - 1
  BY LenProperties
<1>2. JoinsAt(ts, l, from, to, Tree("binary", k, <<a, b>>), k)
  BY <1>1 DEF JoinsAt, Joins, Over
<1>3. QED
  BY <1>1, <1>2, InLevel

LEMMA SumGoesOn ==
  ASSUME NEW T, NEW ts \in Seq(T), NEW from \in 1..Len(ts), NEW to \in from..Len(ts), to + 2 <= Len(ts),
         Over(ts, 2, from, to) # {}, ts[to + 1] = "AMPERSAND", ts[to + 2] = "NUMBER"
  PROVE  Over(ts, 2, from, to + 2) # {}
<1>1. PICK a : a \in Over(ts, 2, from, to)
  OBVIOUS
<1>2. PICK k, e \in Nat : k = to + 1 /\ e = to + 2
  BY LenProperties
<1>3. Len(ts) \in Nat /\ e \in 1..Len(ts) /\ e \in e..Len(ts) /\ k \in from + 1..Len(ts) - 1 /\ e \in k + 1..Len(ts)
  BY <1>2, LenProperties
<1>4. Leaf("literal", e) \in Over(ts, 4, e, e)
  BY <1>2, <1>3, WordsAreFactors
<1>5. Leaf("literal", e) \in Over(ts, 3, e, e)
  <2>1. 4 \in 1..4 /\ 3 \in 1..4
    OBVIOUS
  <2>2. QED
    BY <1>3, <1>4, <2>1, Lower
<1>6. k - 1 = to /\ k + 1 = e /\ 2 \in 1..3 /\ 2 + 1 = 3
  BY <1>2
<1>7. ts[k] \in Operators[2]
  BY <1>2 DEF Operators, Additions
<1>8. a \in Over(ts, 2, from, k - 1) /\ Leaf("literal", e) \in Over(ts, 2 + 1, k + 1, e)
  BY <1>1, <1>5, <1>6
<1>9. Tree("binary", k, <<a, Leaf("literal", e)>>) \in Over(ts, 2, from, e)
  BY <1>3, <1>6, <1>7, <1>8, OperatorJoins
<1>10. QED
  BY <1>2, <1>9

LEMMA ExpressionGoesOn ==
  ASSUME NEW T, NEW ts \in Seq(T), NEW from \in 1..Len(ts), NEW to \in from..Len(ts), to + 2 <= Len(ts),
         Over(ts, 1, from, to) # {}, ts[to + 1] = "AMPERSAND", ts[to + 2] = "NUMBER"
  PROVE  Over(ts, 1, from, to + 2) # {}
<1>1. PICK y : y \in Over(ts, 1, from, to)
  OBVIOUS
<1>2. 1 \in 1..3 /\ 1 + 1 = 2 /\ 2 \in 1..4 /\ 1 \in 1..2
  OBVIOUS
<1>3. y \in Over(ts, 2, from, to) \/ \E k : JoinsAt(ts, 1, from, to, y, k)
  BY <1>1, <1>2, InLevel
<1>4. Len(ts) \in Nat /\ to + 2 \in from..Len(ts)
  BY LenProperties
<1>5. CASE y \in Over(ts, 2, from, to)
  <2>1. PICK z : z \in Over(ts, 2, from, to + 2)
    BY <1>5, SumGoesOn
  <2>2. z \in Over(ts, 1, from, to + 2)
    BY <1>2, <1>4, <2>1, Lower
  <2>3. QED
    BY <2>2
<1>6. CASE \E k : JoinsAt(ts, 1, from, to, y, k)
  <2>1. PICK k : JoinsAt(ts, 1, from, to, y, k)
    BY <1>6
  <2>2. PICK a, b : JoinsOf(ts, 1, from, to, y, k, a, b)
    BY <2>1, JoinsHasParts
  <2>3. /\ k \in from + 1..to - 1 /\ ts[k] \in Operators[1]
        /\ a \in Over(ts, 1, from, k - 1) /\ b \in Over(ts, 1 + 1, k + 1, to)
    BY <2>2 DEF JoinsOf
  <2>4. /\ k \in from + 1..Len(ts) - 1 /\ k + 1 \in 1..Len(ts) /\ to \in k + 1..Len(ts)
        /\ to + 2 \in k + 1..Len(ts) /\ b \in Over(ts, 2, k + 1, to)
    BY <1>2, <1>4, <2>3
  <2>5. PICK c : c \in Over(ts, 1 + 1, k + 1, to + 2)
    BY <1>2, <2>4, SumGoesOn
  <2>6. Tree("binary", k, <<a, c>>) \in Over(ts, 1, from, to + 2)
    <3> DEFINE e == to + 2
    <3>1. e \in k + 1..Len(ts) /\ c \in Over(ts, 1 + 1, k + 1, e)
      BY <2>4, <2>5
    <3> HIDE DEF e
    <3>2. Tree("binary", k, <<a, c>>) \in Over(ts, 1, from, e)
      BY <1>2, <2>3, <2>4, <3>1, OperatorJoins
    <3>3. QED
      BY <3>2 DEF e
  <2>7. QED
    BY <2>6
<1>7. QED
  BY <1>3, <1>5, <1>6

(***************************************************************************)
(* The last item, and that another one may stand in its place.             *)
(***************************************************************************)
LEMMA LastItem ==
  ASSUME NEW T, NEW ts \in Seq(T), NEW to \in 1..Len(ts), NEW x \in ItemLists(ts, Derivations(ts))[to]
  PROVE  /\ x # << >>
         /\ \E from \in 1..to :
              /\ Last(x) \in ItemsOver(ts, Derivations(ts), from, to)
              /\ \A u \in to + 1..Len(ts) :
                   ItemsOver(ts, Derivations(ts), from, u) # {} => ItemLists(ts, Derivations(ts))[u] # {}
<1> DEFINE D == Derivations(ts)
           L == ItemLists(ts, Derivations(ts))
<1>1. Len(ts) \in Nat /\ to \in 0..Len(ts) /\ Len(ts) > 0 /\ 1 \in 1..Len(ts)
  BY LenProperties
<1>2. (\E i \in ItemsOver(ts, D, 1, to) : x = <<i>>) \/ \E k : ItemCut(ts, D, L, x, to, k)
  BY <1>1, InItemLists
<1>3. CASE \E i \in ItemsOver(ts, D, 1, to) : x = <<i>>
  <2>1. PICK i \in ItemsOver(ts, D, 1, to) : x = <<i>>
    BY <1>3
  <2>2. x # << >> /\ Last(x) = i
    BY <2>1 DEF Last
  <2>3. ASSUME NEW u \in to + 1..Len(ts), ItemsOver(ts, D, 1, u) # {} PROVE L[u] # {}
    <3>1. PICK j \in ItemsOver(ts, D, 1, u) : TRUE
      BY <2>3
    <3>2. u \in 0..Len(ts)
      BY <1>1
    <3>3. <<j>> \in L[u]
      BY <3>1, <3>2, InItemLists
    <3>4. QED
      BY <3>3
  <2>4. 1 \in 1..to
    OBVIOUS
  <2>5. QED
    BY <2>2, <2>3, <2>4
<1>4. CASE \E k : ItemCut(ts, D, L, x, to, k)
  <2>1. PICK k : ItemCut(ts, D, L, x, to, k)
    BY <1>4
  <2>2. k \in 2..to - 1 /\ ts[k] = "COMMA"
    BY <2>1 DEF ItemCut
  <2>3. PICK a \in L[k - 1], i \in ItemsOver(ts, D, k + 1, to) : x = Append(a, i)
    BY <2>1 DEF ItemCut
  <2>4. Listing(a)
    <3>1. AreLists(ts, Items(ts), L, 1)
      BY <1>1, ItemsAreLists
    <3>2. k - 1 \in 1..Len(ts)
      BY <1>1, <2>2
    <3> HIDE DEF L
    <3>3. QED
      BY <1>1, <2>3, <3>1, <3>2, ElementsOf
  <2>5. x # << >> /\ Last(x) = i
    BY <2>3, <2>4, ListingGrows DEF Last
  <2>6. ASSUME NEW u \in to + 1..Len(ts), ItemsOver(ts, D, k + 1, u) # {} PROVE L[u] # {}
    <3>1. PICK j \in ItemsOver(ts, D, k + 1, u) : TRUE
      BY <2>6
    <3>2. u \in 0..Len(ts) /\ k \in 2..u - 1
      BY <1>1, <2>2
    <3>3. ItemCut(ts, D, L, Append(a, j), u, k)
      BY <2>2, <2>3, <3>1, <3>2 DEF ItemCut
    <3>4. Append(a, j) \in L[u]
      BY <3>2, <3>3, InItemLists
    <3>5. QED
      BY <3>4
  <2>7. k + 1 \in 1..to
    BY <2>2
  <2>8. QED
    BY <2>3, <2>5, <2>6, <2>7
<1>5. QED
  BY <1>2, <1>3, <1>4

-----------------------------------------------------------------------------
(***************************************************************************)
(* The hint: with an operator and an operand in the place of the token     *)
(* that is refused, the text goes on, except behind an alias.              *)
(***************************************************************************)
Hinted(ts) ==
  /\ ts \in Seq(TokenTypes) /\ ReadFrom(ts) /\ Len(ts) = Len(tokens) + 1 + Depth
  /\ ts[Len(tokens)] = "AMPERSAND" /\ ts[Len(tokens) + 1] = "NUMBER"
  /\ \A i \in Len(tokens) + 2..Len(ts) : ts[i] = "RPAREN"

LEMMA HintViable ==
  ASSUME TypeInv, Balanced, label # "new"
  PROVE  \E ts : Hinted(ts) /\ (Parses(mode, ts) # {} => Viable(mode, Append(Front(tokens), "AMPERSAND")))
<1>1. PICK q \in Seq(TokenTypes), n \in Nat : q = Append(Front(tokens), "AMPERSAND") /\ n = Depth
  BY FrontIs, FrontAndOperator
<1>2. /\ Len(tokens) \in Nat /\ Len(tokens) >= 1 /\ Len(q) = Len(tokens) /\ Opened(q) = n
      /\ \A i \in 1..Len(tokens) - 1 : q[i] = tokens[i]
      /\ q[Len(tokens)] = "AMPERSAND"
  BY <1>1, FrontAndOperator, FrontIs
<1>3. PICK missing \in Missing : missing = <<"NUMBER">>
  BY DEF Missing
<1>4. PICK ts : ts = Completed(q, missing, n)
  OBVIOUS
<1>5. IsCompleted(ts, q, missing, n)
  BY <1>4, CompletedText
<1>6. Len(missing) = 1 /\ missing[1] = "NUMBER"
  BY <1>3
<1>7. /\ ts \in Seq(TokenTypes) /\ Len(ts) = Len(tokens) + 1 + n
      /\ \A i \in 1..Len(tokens) : ts[i] = q[i]
      /\ ts[Len(tokens) + 1] = "NUMBER"
      /\ \A i \in Len(tokens) + 2..Len(ts) : ts[i] = "RPAREN"
  <2>1. Len(q) + Len(missing) + 1 = Len(tokens) + 2
    BY <1>2, <1>6
  <2>2. QED
    BY <1>2, <1>5, <1>6, <2>1 DEF IsCompleted
<1>8. Hinted(ts)
  BY <1>1, <1>2, <1>7 DEF Hinted, ReadFrom
<1>9. Opened(q) >= 0 /\ ts = Completed(q, missing, Opened(q))
  BY <1>2, <1>4
<1>10. Parses(mode, ts) # {} => Viable(mode, q)
  BY <1>3, <1>9, ViableIs
<1>11. QED
  BY <1>1, <1>8, <1>10

LEMMA HintInExpression ==
  ASSUME TypeInv, Balanced, label = "value", NEW ts, Hinted(ts), MakesAs(label, ts)
  PROVE  Parses(mode, ts) # {} /\ ~AfterAlias
<1>1. PICK start, g : Placed(ts, start, g)
  BY PlacedInside DEF InItemLabels
<1>2. PICK p \in Nat : p = Len(tokens) /\ p >= 1
  BY PosInText
<1>3. /\ Hang(ts, stack, p, start, g) /\ Begun(ts, start) /\ g.from \in 1..p /\ start \in 1..p
      /\ g.from <= p - 1 /\ g.level = 1 /\ node \in Over(ts, 1, g.from, p - 1)
  BY <1>1, <1>2 DEF Placed, InFactorAt, InLoopsAt
<1>4. /\ ts \in Seq(TokenTypes) /\ Depth \in Nat /\ Len(ts) = p + 1 + Depth
      /\ ts[p] = "AMPERSAND" /\ ts[p + 1] = "NUMBER"
      /\ \A i \in p + 2..Len(ts) : ts[i] = "RPAREN"
  <2>1. Depth \in Nat
    BY FrontIs
  <2>2. QED
    BY <1>2, <2>1 DEF Hinted
<1>5. Over(ts, 1, g.from, p + 1) # {}
  <2>1. PICK to \in Nat : to = p - 1 /\ to + 1 = p /\ to + 2 = p + 1
    <3>1. p - 1 \in Nat /\ (p - 1) + 1 = p /\ (p - 1) + 2 = p + 1
      BY <1>2
    <3>2. QED
      BY <3>1
  <2>2. g.from \in 1..Len(ts) /\ to \in g.from..Len(ts) /\ to + 2 <= Len(ts) /\ Over(ts, 1, g.from, to) # {}
    BY <1>3, <1>4, <2>1
  <2>3. Over(ts, 1, g.from, to + 2) # {}
    BY <1>4, <2>1, <2>2, ExpressionGoesOn
  <2>4. QED
    BY <2>1, <2>3
<1>6. Parses(mode, ts) # {}
  <2>1. PICK e \in Nat : e = p + 1
    OBVIOUS
  <2>2. g.from <= e /\ Over(ts, g.level, g.from, e) # {} /\ Len(ts) = e + Depth
    BY <1>3, <1>4, <1>5, <2>1
  <2>3. \A i \in e + 1..Len(ts) : ts[i] = "RPAREN"
    BY <1>4, <2>1
  <2>4. QED
    BY <1>2, <1>3, <1>4, <2>2, <2>3, HoleFilled
<1>7. ~AfterAlias
  <2>1. CASE items = << >>
    BY <2>1 DEF AfterAlias
  <2>2. CASE items # << >>
    <3>1. start > 2 /\ items \in ItemLists(ts, Derivations(ts))[start - 2]
      BY <1>3, <2>2 DEF Begun
    <3>2. PICK to \in 1..Len(ts) : to = start - 2
      BY <1>3, <1>4, <3>1
    <3>3. PICK from \in 1..to : Last(items) \in ItemsOver(ts, Derivations(ts), from, to)
      BY <1>4, <3>1, <3>2, LastItem
    <3>4. Last(items).alias \in {0, to}
      BY <3>3, InItems DEF Item
    <3>5. QED
      BY <1>2, <1>3, <3>1, <3>2, <3>4 DEF AfterAlias
  <2>3. QED
    BY <2>1, <2>2
<1>8. QED
  BY <1>6, <1>7

LEMMA HintBehindItem ==
  ASSUME TypeInv, Balanced, label = "separator", ~AfterAlias, NEW ts, Hinted(ts), MakesAs(label, ts)
  PROVE  Parses(mode, ts) # {}
<1>1. stack = << >> /\ Len(tokens) > 1 /\ mode = "document" /\ items \in ItemLists(ts, Derivations(ts))[Len(tokens) - 1]
  <2>1. OutsideItems(label, ts)
    BY Outside DEF InItemLabels
  <2>2. mode = "document"
    BY DEF TypeInv, ItemsOK
  <2>3. QED
    BY <2>1, <2>2 DEF OutsideItems, ParsedUpto
<1>2. PICK to \in Nat : to = Len(tokens) - 1 /\ to + 1 = Len(tokens) /\ to + 2 = Len(tokens) + 1 /\ to >= 1
  <2>1. Len(tokens) \in Nat
    BY PosInText
  <2>2. /\ Len(tokens) - 1 \in Nat /\ (Len(tokens) - 1) + 1 = Len(tokens) /\ (Len(tokens) - 1) + 2 = Len(tokens) + 1
        /\ Len(tokens) - 1 >= 1
    BY <1>1, <2>1
  <2>3. QED
    BY <2>2
<1>3. ts \in Seq(TokenTypes) /\ Len(ts) = to + 2 /\ ts[to + 1] = "AMPERSAND" /\ ts[to + 2] = "NUMBER"
  <2>1. Depth = 0
    BY <1>1, NoFrames
  <2>2. QED
    BY <1>2, <2>1 DEF Hinted
<1>4. to \in 1..Len(ts) /\ Len(ts) \in to + 1..Len(ts)
  BY <1>2, <1>3
<1>5. PICK from \in 1..to :
        /\ items # << >> /\ Last(items) \in ItemsOver(ts, Derivations(ts), from, to)
        /\ \A u \in to + 1..Len(ts) :
             ItemsOver(ts, Derivations(ts), from, u) # {} => ItemLists(ts, Derivations(ts))[u] # {}
  <2>1. items \in ItemLists(ts, Derivations(ts))[to]
    BY <1>1, <1>2
  <2>2. QED
    BY <1>3, <1>4, <2>1, LastItem
<1>6. Over(ts, 1, from, to) # {}
  <2>1. Last(items).alias # to
    BY <1>2, <1>5 DEF AfterAlias
  <2>2. ~\E d \in Over(ts, 1, from, to - 2) : Last(items) = Item(d, to)
    BY <2>1 DEF Item
  <2>3. QED
    BY <1>5, <2>2, InItems
<1>7. Over(ts, 1, from, to + 2) # {}
  <2>1. from \in 1..Len(ts) /\ to \in from..Len(ts) /\ to + 2 <= Len(ts)
    BY <1>3, <1>4, <1>5
  <2>2. QED
    BY <1>3, <1>6, <2>1, ExpressionGoesOn
<1>8. PICK d : d \in Over(ts, 1, from, Len(ts))
  BY <1>3, <1>7
<1>9. Item(d, 0) \in ItemsOver(ts, Derivations(ts), from, Len(ts))
  BY <1>8, InItems
<1>10. ItemLists(ts, Derivations(ts))[Len(ts)] # {} /\ ts # << >>
  BY <1>2, <1>3, <1>4, <1>5, <1>9
<1>11. QED
  BY <1>1, <1>10 DEF Parses

\* Nothing but a comma goes on behind an alias.
LEMMA NoHintBehindAlias ==
  ASSUME TypeInv, Balanced, label = "separator", AfterAlias,
         \A ts \in Seq(TokenTypes) : ReadFrom(ts) => MakesAs(label, ts)
  PROVE  ~Viable(mode, Append(Front(tokens), "AMPERSAND"))
<1>1. PICK q \in Seq(TokenTypes), n \in Nat : q = Append(Front(tokens), "AMPERSAND") /\ n = Depth
  BY FrontIs, FrontAndOperator
<1>2. /\ Len(tokens) \in Nat /\ Len(tokens) >= 1 /\ Len(q) = Len(tokens) /\ Opened(q) = n
      /\ \A i \in 1..Len(tokens) - 1 : q[i] = tokens[i]
      /\ q[Len(tokens)] = "AMPERSAND"
  BY <1>1, FrontAndOperator, FrontIs
<1>3. ASSUME NEW missing \in Missing, Parses(mode, Completed(q, missing, n)) # {}
      PROVE  FALSE
  <2>1. PICK ts : ts = Completed(q, missing, n)
    OBVIOUS
  <2>2. IsCompleted(ts, q, missing, n)
    BY <2>1, CompletedText
  <2>3. ts \in Seq(TokenTypes) /\ Len(tokens) <= Len(ts) /\ \A i \in 1..Len(tokens) : ts[i] = q[i]
    BY <1>2, <2>2 DEF IsCompleted
  <2>4. ReadFrom(ts) /\ Pos <= Len(ts) /\ ts[Pos] # "COMMA"
    BY <1>2, <2>3 DEF ReadFrom, Pos
  <2>5. MakesAs(label, ts) /\ Parses(mode, ts) # {}
    BY <1>3, <2>1, <2>3, <2>4
  <2>6. QED
    BY <2>3, <2>4, <2>5, ListedGoesOn
<1>4. ~Viable(mode, q)
  BY <1>2, <1>3, ViableIs
<1>5. QED
  BY <1>1, <1>4

-----------------------------------------------------------------------------
(***************************************************************************)
(* The parser goes on with tokens only.                                    *)
(***************************************************************************)
Legal == label \notin {"new", "done"} => Current # "ILLEGAL"

LEMMA LegalInvariant == Spec => []Legal
<1>1. Init => Legal
  BY DEF Init, Legal
<1>2. TypeInv /\ Legal /\ [Next]_vars => Legal'
  <2> SUFFICES ASSUME TypeInv, Legal, [Next]_vars PROVE Legal'
    OBVIOUS
  <2>1. CASE UNCHANGED vars
    BY <2>1 DEF vars, Legal, Current
  <2>2. CASE Next /\ tokens' = tokens /\ label # "new"
    <3>1. Current # "ILLEGAL"
      BY <2>2, StepsBeforeEnd DEF Legal
    <3>2. QED
      BY <2>2, <3>1 DEF Legal, Current
  <2>3. ASSUME NEW l, ReadToken(l) PROVE Legal'
    <3>1. tokens \in Seq(Lexicon)
      BY DEF TypeInv, TextOK
    <3>2. PICK t \in Lexicon : tokens' = Append(tokens, t) /\ (t = "ILLEGAL" => label' = "done")
      BY <2>3, LexiconAssumption DEF ReadToken
    <3>3. Current' = t
      BY <3>1, <3>2 DEF Current, Last
    <3>4. QED
      BY <3>2, <3>3 DEF Legal
  <2>4. QED
    BY <2>1, <2>2, <2>3, TokensRead
<1>3. QED
  BY <1>1, <1>2, TypeInvariant, PTL DEF Spec

(***************************************************************************)
(* The steps that refuse a text, and what they say.                        *)
(***************************************************************************)
Refuses ==
  \/ Empty \/ FactorFails \/ SegmentMissing \/ ParenFails \/ CallFails \/ FormulaFails
  \/ EmptyItem \/ AliasMissing \/ TrailingComma \/ SeparatorMissing

Operatorless == ParenFails \/ CallFails \/ FormulaFails \/ SeparatorMissing

Says(code) ==
  /\ FailAt(code, IF code = "trailing_comma" THEN Len(tokens) - 1 ELSE Len(tokens))
  /\ code \notin {"pending", "parsed", "lexer_error"}
  /\ code = "missing_operator_between_expressions" => Operatorless

LEMMA RefusalSays ==
  ASSUME Refuses
  PROVE  \E code : Says(code)
<1>1. ASSUME NEW code, Fail(code), code \notin {"pending", "parsed", "lexer_error", "trailing_comma"},
             code = "missing_operator_between_expressions" => Operatorless
      PROVE  Says(code)
  <2>1. (IF code = "trailing_comma" THEN Len(tokens) - 1 ELSE Len(tokens)) = Pos
    BY <1>1 DEF Pos
  <2>2. QED
    BY <1>1, <2>1 DEF Says, Fail, FailAt
<1>2. CASE Empty
  BY <1>1, <1>2 DEF Empty
<1>3. CASE FactorFails
  BY <1>1, <1>3 DEF FactorFails
<1>4. CASE SegmentMissing
  BY <1>1, <1>4 DEF SegmentMissing
<1>5. CASE Operatorless
  BY <1>1, <1>5 DEF Operatorless, ParenFails, CallFails, FormulaFails, SeparatorMissing, MissingOperator
<1>6. CASE EmptyItem \/ AliasMissing
  BY <1>1, <1>6 DEF EmptyItem, AliasMissing
<1>7. CASE TrailingComma
  <2>1. FailAt("trailing_comma", Len(tokens) - 1)
    BY <1>7 DEF TrailingComma, Pos
  <2>2. Says("trailing_comma")
    BY <2>1 DEF Says, FailAt
  <2>3. QED
    BY <2>2
<1>8. QED
  BY <1>2, <1>3, <1>4, <1>5, <1>6, <1>7 DEF Refuses, Operatorless

LEMMA RefusalIsRight ==
  ASSUME TypeInv, Settled, Legal, Balanced, Sound, Refuses
  PROVE  ErrorsPointAtTheFault'
<1>1. PICK code : Says(code)
  BY RefusalSays
<1>2. label \notin {"new", "done"} /\ label \in Labels
  BY DEF Refuses, Empty, FactorFails, SegmentMissing, ParenFails, CallFails, FormulaFails, InCall, AtTop,
         EmptyItem, AliasMissing, TrailingComma, SeparatorMissing, TypeInv, PlaceOK
<1>3. /\ \A ts \in Seq(TokenTypes) : ReadFrom(ts) => MakesAs(label, ts)
      /\ label \in {"alias", "next_item"} => mode = "document"
  BY <1>2 DEF Sound, Stopped
<1>4. Viable(mode, Front(tokens))
  BY <1>2, <1>3, FrontViable
<1>5. IF Current = "EOF" THEN Parses(mode, Front(tokens)) = {} ELSE ~Viable(mode, tokens)
  <2>1. ASSUME NEW ts \in Seq(TokenTypes), Continues(ts) PROVE Parses(mode, ts) = {}
    <3>1. MakesAs(label, ts)
      BY <1>3, <2>1 DEF Continues
    <3>2. QED
      BY <2>1, <3>1, NothingContinues DEF Refuses
  <2>2. QED
    BY <1>2, <2>1, RefusedText
<1>6. ASSUME Operatorless PROVE Viable(mode, Append(Front(tokens), "AMPERSAND")) <=> ~AfterAlias
  <2>1. PICK ts : Hinted(ts) /\ (Parses(mode, ts) # {} => Viable(mode, Append(Front(tokens), "AMPERSAND")))
    BY <1>2, HintViable
  <2>2. MakesAs(label, ts)
    BY <1>3, <2>1 DEF Hinted
  <2>3. CASE label = "value"
    BY <2>1, <2>2, <2>3, HintInExpression
  <2>4. CASE label = "separator"
    BY <1>3, <2>1, <2>2, <2>4, HintBehindItem, NoHintBehindAlias
  <2>5. label \in {"value", "separator"}
    BY <1>6 DEF Operatorless, ParenFails, CallFails, InCall, FormulaFails, AtTop, SeparatorMissing
  <2>6. QED
    BY <2>3, <2>4, <2>5
<1>7. /\ UNCHANGED <<mode, tokens, items>>
      /\ outcome' = Outcome(code, IF code = "trailing_comma" THEN Len(tokens) - 1 ELSE Len(tokens))
  BY <1>1 DEF Says, FailAt
<1>8. /\ outcome'.code = code
      /\ outcome'.at = IF code = "trailing_comma" THEN Len(tokens) - 1 ELSE Len(tokens)
  BY <1>7 DEF Outcome
<1>9. /\ Viable(mode, Front(tokens))' = Viable(mode, Front(tokens)) /\ Viable(mode, tokens)' = Viable(mode, tokens)
      /\ Parses(mode, Front(tokens))' = Parses(mode, Front(tokens)) /\ Current' = Current
      /\ Viable(mode, Append(Front(tokens), "AMPERSAND"))' = Viable(mode, Append(Front(tokens), "AMPERSAND"))
      /\ AfterAlias' = AfterAlias /\ Len(tokens)' = Len(tokens)
  BY <1>7 DEF Current, AfterAlias
<1>10. code = "missing_operator_between_expressions" => Operatorless
  BY <1>1 DEF Says
<1>11. Current' # "ILLEGAL" /\ ~LexerErrorDropped'
  BY <1>2, <1>9 DEF Legal, LexerErrorDropped
<1>12. QED
  BY <1>4, <1>5, <1>6, <1>8, <1>9, <1>10, <1>11 DEF ErrorsPointAtTheFault

(***************************************************************************)
(* Where the lexer fails.                                                  *)
(***************************************************************************)
FaultRead == Stopped =>
  /\ Current = "ILLEGAL"
  /\ \/ outcome.code = "lexer_error" /\ outcome.at = Len(tokens)
     \/ LexerErrorDropped /\ outcome.at = Len(tokens) - 1

LEMMA StoppedByLexer ==
  TypeInv /\ Balanced /\ Sound /\ FaultRead /\ Stopped => ErrorsPointAtTheFault
<1> SUFFICES ASSUME TypeInv, Balanced, Sound, FaultRead, Stopped PROVE ErrorsPointAtTheFault
  OBVIOUS
<1>1. /\ label # "new" /\ Current = "ILLEGAL"
      /\ outcome.code # "trailing_comma" /\ outcome.code # "missing_operator_between_expressions"
      /\ outcome.code = "lexer_error" \/ LexerErrorDropped
      /\ outcome.at = IF LexerErrorDropped THEN Len(tokens) - 1 ELSE Len(tokens)
  BY DEF FaultRead, Stopped, LexerErrorDropped
<1>2. PICK lab \in Labels \ {"new", "done"} :
        /\ lab \in {"alias", "next_item"} => mode = "document"
        /\ \A ts \in Seq(TokenTypes) : ReadFrom(ts) => MakesAs(lab, ts)
  BY DEF Sound
<1>3. Viable(mode, Front(tokens))
  BY <1>1, <1>2, FrontViable
<1>4. ~Viable(mode, tokens)
  BY <1>1, RefusedText, NothingIllegal
<1>5. QED
  BY <1>1, <1>3, <1>4 DEF ErrorsPointAtTheFault

\* What a step that fails leaves: the lexer's error, or what it says itself.
LEMMA FailsAre ==
  ASSUME TypeInv, Balanced, Next, outcome' \notin {Pending, Parsed}
  PROVE  Refuses \/ (FaultRead' /\ Stopped')
<1>1. label # "done" /\ outcome = Pending
  <2>1. label # "done"
    BY StepsBeforeEnd
  <2>2. QED
    BY <2>1 DEF TypeInv, PlaceOK
<1>2. ASSUME NEW l, ReadToken(l), ClosesCall => node'.kind = "call" PROVE FaultRead' /\ Stopped'
  <2>1. tokens \in Seq(Lexicon) /\ Len(tokens) \in Nat
    BY DEF TypeInv, TextOK
  <2>2. PICK t \in Lexicon :
          /\ tokens' = Append(tokens, t)
          /\ IF t = "ILLEGAL"
               THEN label' = "done" /\ outcome' = LexerFailed
               ELSE label' = l /\ outcome' = outcome
    BY <1>2, LexiconAssumption DEF ReadToken
  <2>3. t = "ILLEGAL"
    BY <1>1, <2>2
  <2>4. Current' = "ILLEGAL" /\ Len(tokens') = Len(tokens) + 1
    BY <2>1, <2>2, <2>3 DEF Current, Last
  <2>5. label' = "done" /\ outcome' = LexerFailed
    BY <2>2, <2>3
  <2>6. CASE ~ClosesCall
    <3>1. outcome'.code = "lexer_error" /\ outcome'.at = Len(tokens) + 1
      BY <2>5, <2>6 DEF LexerFailed, Outcome, Pos
    <3>2. QED
      BY <2>4, <2>5, <3>1 DEF FaultRead, Stopped
  <2>7. CASE ClosesCall
    <3>1. outcome'.code = "unexpected_token" /\ outcome'.at = Len(tokens)
      BY <2>5, <2>7 DEF LexerFailed, Outcome, Pos
    <3>2. label # "new" /\ tokens[Len(tokens)] = "RPAREN"
      BY <2>7 DEF ClosesCall, Current, Last
    <3>3. Len(tokens) >= 1
      BY <3>2, PosInText
    <3>4. tokens'[Len(tokens') - 1] = "RPAREN" /\ Len(tokens') > 1
      BY <2>1, <2>2, <2>4, <3>2, <3>3
    <3>5. LexerErrorDropped' /\ outcome'.at = Len(tokens') - 1
      BY <1>2, <2>1, <2>4, <2>7, <3>1, <3>4 DEF LexerErrorDropped
    <3>6. QED
      BY <2>4, <2>5, <3>1, <3>5 DEF FaultRead, Stopped, Dropped
  <2>8. QED
    BY <2>6, <2>7
<1>3. \A l : ~Goto(l)
  BY <1>1 DEF Goto
<1>4. \A r : ~Accept(r)
  BY DEF Accept
<1>5. outcome' # outcome
  BY <1>1
<1>6. CASE NewParser \/ Empty \/ Start
  BY <1>2, <1>3, <1>6 DEF NewParser, Start, Refuses, ClosesCall
<1>7. CASE Factor
  BY <1>2, <1>3, <1>7 DEF Factor, Literal, Negate, OpenParen, OpenFrame, Name, OpenCall, Constant, OpenPath,
                          Column, Segment, Dot, Refuses, ClosesCall
<1>8. CASE Loops
  BY <1>2, <1>3, <1>5, <1>8 DEF Loops, CloseNegate, EndFactor, CloseBinary, OpenBinary, LeaveLoop, ClosesCall
<1>9. CASE Closing
  <2>1. CASE NoArguments \/ LastArgument
    <3>1. PICK call : CloseCall(call) /\ (call = Top \/ call = WithChild(Top, node)) /\ Top.kind = "call"
      BY <2>1 DEF NoArguments, LastArgument, InCall, Balanced
    <3>2. IsTree(Top)
      BY <3>1, TopIsLast
    <3>3. call.kind = "call"
      BY <3>1, <3>2 DEF WithChild, IsTree, Tree
    <3>4. QED
      BY <1>2, <3>1, <3>3 DEF CloseCall
  <2>2. CASE NextArgument \/ CloseParen
    BY <1>2, <2>2 DEF NextArgument, CloseParen, InCall, ClosesCall
  <2>3. QED
    BY <1>3, <1>4, <1>9, <2>1, <2>2 DEF Closing, BeginArguments, EndFormula, Refuses
<1>10. CASE Document
  BY <1>2, <1>3, <1>4, <1>10 DEF Document, BeginItem, Unnamed, As, Alias, AtTop, EndDocument, Separator, NextItem,
                                 Refuses, ClosesCall
<1>11. QED
  BY <1>6, <1>7, <1>8, <1>9, <1>10 DEF Next

LEMMA FaultReadInvariant == Spec => []FaultRead
<1>1. Init => FaultRead
  BY DEF Init, FaultRead, Stopped
<1>2. TypeInv /\ Balanced /\ FaultRead /\ [Next]_vars => FaultRead'
  <2> SUFFICES ASSUME TypeInv, Balanced, FaultRead, [Next]_vars PROVE FaultRead'
    OBVIOUS
  <2>1. CASE UNCHANGED vars
    BY <2>1 DEF vars, FaultRead, Stopped, Dropped, LexerErrorDropped, Current
  <2>2. CASE Next /\ Stopped'
    <3>1. outcome' \notin {Pending, Parsed}
      BY <2>2 DEF Stopped, Dropped, Pending, Parsed, Outcome
    <3>2. ~Refuses
      <4>1. ASSUME Refuses PROVE FALSE
        <5>1. PICK code : Says(code)
          BY <4>1, RefusalSays
        <5>2. /\ tokens' = tokens /\ outcome'.code = code /\ code # "lexer_error"
              /\ outcome'.at = IF code = "trailing_comma" THEN Len(tokens) - 1 ELSE Len(tokens)
          BY <5>1 DEF Says, FailAt, Outcome
        <5>3. Len(tokens) \in Nat
          BY DEF TypeInv, TextOK
        <5>4. QED
          BY <2>2, <5>2, <5>3 DEF Stopped, Dropped
      <4>2. QED
        BY <4>1
    <3>3. QED
      BY <2>2, <3>1, <3>2, FailsAre
  <2>3. CASE ~Stopped'
    BY <2>3 DEF FaultRead
  <2>4. QED
    BY <2>1, <2>2, <2>3
<1>3. QED
  BY <1>1, <1>2, TypeInvariant, BalancedInvariant, PTL DEF Spec

(***************************************************************************)
(* An error of Parse or ParseDocument, whatever the text and its length,   *)
(* points at the first token that no text of the language continues with:  *)
(* the tokens before it can be completed, with an operand or a name and    *)
(* the parentheses that are open, and nothing starts with it behind them.  *)
(* The hint to insert an operator helps, except behind an alias.  When the *)
(* token is a character the lexer refuses, that is what the error says,    *)
(* but for one that stands behind a call: there it is the ")" of the call  *)
(* that is blamed.                                                         *)
(***************************************************************************)
THEOREM ErrorsNameTheFault == Spec => []ErrorsPointAtTheFault
<1>1. Init => ErrorsPointAtTheFault
  BY DEF Init, ErrorsPointAtTheFault
<1>2. /\ TypeInv /\ Settled /\ Legal /\ Balanced /\ Sound /\ ErrorsPointAtTheFault /\ [Next]_vars
      => Stopped' \/ ErrorsPointAtTheFault'
  <2> SUFFICES ASSUME TypeInv, Settled, Legal, Balanced, Sound, ErrorsPointAtTheFault, [Next]_vars, ~Stopped'
               PROVE  ErrorsPointAtTheFault'
    OBVIOUS
  <2>1. CASE UNCHANGED vars
    BY <2>1 DEF vars, ErrorsPointAtTheFault, LexerErrorDropped, Current, AfterAlias
  <2>2. CASE Next /\ outcome' \in {Pending, Parsed}
    BY <2>2 DEF ErrorsPointAtTheFault
  <2>3. CASE Next /\ outcome' \notin {Pending, Parsed}
    BY <2>3, FailsAre, RefusalIsRight
  <2>4. QED
    BY <2>1, <2>2, <2>3
<1>3. QED
  BY <1>1, <1>2, StoppedByLexer, FaultReadInvariant, TypeInvariant, SettledInvariant, LegalInvariant,
     BalancedInvariant, SoundInvariant, PTL DEF Spec
=============================================================================
