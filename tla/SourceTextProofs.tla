-------------------------- MODULE SourceTextProofs --------------------------
(***************************************************************************)
(* Proofs about SourceText: the lexer's tokens say what is written, the    *)
(* metadata reader and the lexer find the same leading comments, and the   *)
(* table of a file is one that its comments or its sidecar name.           *)
(***************************************************************************)
EXTENDS SourceText, SequenceTheorems, FiniteSetTheorems, WellFoundedInduction, TLAPS

-----------------------------------------------------------------------------
(***************************************************************************)
(* Numbers.  The provers cannot instantiate an induction rule with a       *)
(* predicate, so it is used through sets.                                  *)
(***************************************************************************)
LEMMA LeastNumber ==
  ASSUME NEW T, T \subseteq Nat, T # {}
  PROVE  \E n \in T : \A m \in T : n <= m
<1> DEFINE R == OpToRel(<, Nat)
<1>1. IsWellFoundedOn(R, Nat)
  BY NatLessThanWellFounded
<1>2. ASSUME NEW x \in Nat, NEW y \in Nat, y < x
      PROVE  <<y, x>> \in R
  BY <1>2 DEF OpToRel
<1> HIDE DEF R
<1>3. PICK x \in T : \A y \in T : <<y, x>> \notin R
  BY <1>1, WFMin
<1>4. ASSUME NEW y \in T PROVE x <= y
  <2>1. x \in Nat /\ y \in Nat
    OBVIOUS
  <2>2. ~(y < x)
    BY <1>2, <1>3, <2>1, Zenon
  <2>3. QED
    BY <2>1, <2>2
<1>5. QED
  BY <1>4

LEMMA CountUp ==
  ASSUME NEW bound \in Nat, NEW S, 0 \in S,
         \A n \in Nat : n < bound /\ n \in S => n + 1 \in S
  PROVE  0..bound \subseteq S
<1> DEFINE T == (0..bound) \ S
<1> SUFFICES ASSUME T # {} PROVE FALSE
  OBVIOUS
<1>0. T \subseteq Nat /\ T # {}
  OBVIOUS
<1>1. PICK n \in T : \A m \in T : n <= m
  <2> HIDE DEF T
  <2>1. QED
    BY <1>0, LeastNumber
<1>2. n - 1 \in Nat /\ n - 1 < bound /\ n - 1 \notin T
  BY <1>1
<1>3. QED
  BY <1>2

LEMMA MinIsLeast ==
  ASSUME NEW T, T \subseteq Nat, T # {}
  PROVE  Min(T) \in T /\ \A m \in T : Min(T) <= m
<1>1. PICK n \in T : \A m \in T : n <= m
  BY LeastNumber
<1>2. QED
  BY <1>1 DEF Min

LEMMA MaxIsGreatest ==
  ASSUME NEW bound \in Nat, NEW T, T \subseteq 1..bound, T # {}
  PROVE  Max(T) \in T /\ \A m \in T : m <= Max(T)
<1> DEFINE Above == {n \in 0..bound : \A m \in T : m <= n}
<1>1. Above \subseteq Nat /\ bound \in Above
  OBVIOUS
<1>2. PICK n \in Above : \A k \in Above : n <= k
  <2> HIDE DEF Above
  <2>1. QED
    BY <1>1, LeastNumber
<1>3. n \in T
  <2>1. ASSUME n \notin T PROVE FALSE
    <3>1. PICK t \in T : t <= n
      BY <1>2
    <3>2. n - 1 \in 0..bound /\ \A m \in T : m <= n - 1
      BY <1>2, <2>1, <3>1
    <3>3. n - 1 \in Above
      BY <3>2
    <3>4. QED
      BY <1>2, <3>3
  <2>2. QED
    BY <2>1
<1>4. \A m \in T : m <= n
  BY <1>2
<1>5. QED
  BY <1>3, <1>4 DEF Max

LEMMA FirstOfIs ==
  ASSUME NEW P, P \subseteq Nat, NEW i \in Nat, NEW j \in P, j >= i
  PROVE  /\ FirstOf(P, i) \in P /\ FirstOf(P, i) >= i
         /\ \A k \in P : k >= i => FirstOf(P, i) <= k
<1> DEFINE T == {k \in P : k >= i}
<1>1. T \subseteq Nat /\ T # {}
  OBVIOUS
<1>2. Min(T) \in T /\ \A m \in T : Min(T) <= m
  <2> HIDE DEF T
  <2>1. QED
    BY <1>1, MinIsLeast
<1>3. QED
  BY <1>2 DEF FirstOf

-----------------------------------------------------------------------------
(***************************************************************************)
(* Characters.  Behind the text there is the byte 0.                       *)
(***************************************************************************)
LEMMA CharacterAt ==
  ASSUME text \in Seq(Characters)
  PROVE  /\ Len(text) \in Nat /\ DOMAIN text = 1..Len(text)
         /\ \A i \in 1..Len(text) : Ch(i) = text[i] /\ text[i] \in Characters
         /\ \A i : i \notin 1..Len(text) => Ch(i) = "nul"
  BY DEF Ch

\* Find and FindNot stop at the first place that is, or is not, of the set.
LEMMA FindIs ==
  ASSUME text \in Seq(Characters), NEW S, "nul" \in S, NEW i \in 1..Len(text) + 1
  PROVE  /\ Find(S, i) \in i..Len(text) + 1 /\ Ch(Find(S, i)) \in S
         /\ \A j \in i..Len(text) + 1 : j < Find(S, i) => Ch(j) \notin S
<1> DEFINE P == {j \in i..Len(text) + 1 : Ch(j) \in S}
<1>1. Len(text) \in Nat /\ Ch(Len(text) + 1) = "nul"
  BY CharacterAt
<1>2. P \subseteq Nat /\ Len(text) + 1 \in P /\ Len(text) + 1 >= i /\ i \in Nat
  BY <1>1
<1>3. /\ FirstOf(P, i) \in P
      /\ \A k \in P : k >= i => FirstOf(P, i) <= k
  <2> HIDE DEF P
  <2>1. QED
    BY <1>2, FirstOfIs
<1>4. Find(S, i) = FirstOf(P, i)
  BY DEF Find
<1>5. \A j \in i..Len(text) + 1 : j < FirstOf(P, i) => j \notin P
  BY <1>1, <1>3
<1>6. QED
  BY <1>3, <1>4, <1>5

LEMMA FindNotIs ==
  ASSUME text \in Seq(Characters), NEW S, "nul" \notin S, NEW i \in 1..Len(text) + 1
  PROVE  /\ FindNot(S, i) \in i..Len(text) + 1 /\ Ch(FindNot(S, i)) \notin S
         /\ \A j \in i..Len(text) + 1 : j < FindNot(S, i) => Ch(j) \in S
<1> DEFINE P == {j \in i..Len(text) + 1 : Ch(j) \notin S}
<1>1. Len(text) \in Nat /\ Ch(Len(text) + 1) = "nul"
  BY CharacterAt
<1>2. P \subseteq Nat /\ Len(text) + 1 \in P /\ Len(text) + 1 >= i /\ i \in Nat
  BY <1>1
<1>3. /\ FirstOf(P, i) \in P
      /\ \A k \in P : k >= i => FirstOf(P, i) <= k
  <2> HIDE DEF P
  <2>1. QED
    BY <1>2, FirstOfIs
<1>4. FindNot(S, i) = FirstOf(P, i)
  BY DEF FindNot
<1>5. \A j \in i..Len(text) + 1 : j < FirstOf(P, i) => j \notin P
  BY <1>1, <1>3
<1>6. QED
  BY <1>3, <1>4, <1>5

-----------------------------------------------------------------------------
(***************************************************************************)
(* Tokens say what is written.                                             *)
(***************************************************************************)
LEMMA WrittenIs ==
  ASSUME text \in Seq(Characters), NEW from \in 1..Len(text), NEW to \in from + 1..Len(text) + 1
  PROVE  LET written == SubSeq(text, from, to - 1)
         IN /\ written \in Seq(Characters) /\ Len(written) = to - from
            /\ DOMAIN written = 1..to - from
            /\ \A i \in 1..to - from : written[i] = Ch(from + i - 1)
            /\ \A i \in 1..to - from : from + i - 1 \in from..to - 1
            /\ ToSet(written) \subseteq {Ch(j) : j \in from..to - 1}
            /\ Last(written) = Ch(to - 1)
<1> DEFINE written == SubSeq(text, from, to - 1)
<1>1. /\ Len(text) \in Nat /\ DOMAIN text = 1..Len(text)
      /\ \A i \in 1..Len(text) : Ch(i) = text[i] /\ text[i] \in Characters
  BY CharacterAt
<1>2. /\ from \in Int /\ to - 1 \in Int /\ from <= to - 1 /\ to - 1 - from + 1 = to - from
      /\ \A i \in from..to - 1 : i \in 1..Len(text)
  BY <1>1
<1>3. \A i \in from..to - 1 : text[i] \in Characters
  BY <1>1, <1>2
<1>4. /\ written \in Seq(Characters) /\ Len(written) = to - from
      /\ \A i \in 1..to - from : written[i] = text[from + i - 1]
  BY <1>2, <1>3, SubSeqProperties
<1> HIDE DEF written
<1>5. DOMAIN written = 1..to - from
  BY <1>4, LenProperties
<1>6. \A i \in 1..to - from : from + i - 1 \in from..to - 1
  BY <1>2
<1>7. \A i \in 1..to - from : written[i] = Ch(from + i - 1)
  BY <1>1, <1>2, <1>4, <1>6
<1>8. ToSet(written) \subseteq {Ch(j) : j \in from..to - 1}
  BY <1>5, <1>6, <1>7 DEF ToSet
<1>9. Last(written) = Ch(to - 1)
  <2>1. to - from \in 1..to - from /\ from + (to - from) - 1 = to - 1
    BY <1>2
  <2>2. Last(written) = written[to - from]
    BY <1>4 DEF Last
  <2>3. QED
    BY <1>7, <2>1, <2>2
<1>10. QED
  BY <1>4, <1>5, <1>6, <1>7, <1>8, <1>9 DEF written

LEMMA NumberAsWritten ==
  ASSUME text \in Seq(Characters), pos \in 1..Len(text) + 1, Ch(pos) = "digit",
         NEW to, LET point == Find({"dot", "nul"}, pos)
                     end == FindNot({"digit", "dot"}, pos)
                 IN to = IF point < end THEN FindNot({"digit"}, point + 1) ELSE end
  PROVE  pos \in 1..Len(text) /\ to \in pos + 1..Len(text) + 1 /\ AsWritten(Token("NUMBER", pos, to))
<1> DEFINE point == Find({"dot", "nul"}, pos)
           end == FindNot({"digit", "dot"}, pos)
           written == SubSeq(text, pos, to - 1)
           points == {i \in DOMAIN written : written[i] = "dot"}
<1>0. Len(text) \in Nat /\ pos \in 1..Len(text)
  BY CharacterAt
<1>1. /\ point \in pos..Len(text) + 1 /\ Ch(point) \in {"dot", "nul"}
      /\ \A j \in pos..Len(text) + 1 : j < point => Ch(j) \notin {"dot", "nul"}
  BY <1>0, FindIs
<1>2. /\ end \in pos..Len(text) + 1 /\ Ch(end) \notin {"digit", "dot"}
      /\ \A j \in pos..Len(text) + 1 : j < end => Ch(j) \in {"digit", "dot"}
  BY <1>0, FindNotIs
<1>9. to = IF point < end THEN FindNot({"digit"}, point + 1) ELSE end
  OBVIOUS
<1> HIDE DEF point, end
<1>3. /\ to \in pos + 1..Len(text) + 1
      /\ \A j \in pos..to - 1 : Ch(j) \in {"digit", "dot"}
      /\ Ch(to) # "digit"
      /\ \/ \A j \in pos..to - 1 : Ch(j) # "dot"
         \/ point \in pos..to - 1 /\ \A j \in pos..to - 1 : Ch(j) = "dot" => j = point
      /\ (\A j \in pos..to - 1 : Ch(j) # "dot") => Ch(to) # "dot"
  <2>1. CASE point < end
    <3>1. Ch(point) = "dot" /\ point \in pos..Len(text) /\ to = FindNot({"digit"}, point + 1)
      BY <1>0, <1>1, <1>2, <1>9, <2>1
    <3>2. point + 1 \in 1..Len(text) + 1 /\ "nul" \notin {"digit"}
      BY <1>0, <3>1
    <3>3. /\ to \in point + 1..Len(text) + 1 /\ Ch(to) \notin {"digit"}
          /\ \A j \in point + 1..Len(text) + 1 : j < to => Ch(j) \in {"digit"}
      <4> DEFINE S == {"digit"}
                 i == point + 1
      <4>1. "nul" \notin S /\ i \in 1..Len(text) + 1 /\ to = FindNot(S, i)
        BY <3>1, <3>2
      <4> HIDE DEF S, i
      <4>2. /\ to \in i..Len(text) + 1 /\ Ch(to) \notin S
            /\ \A j \in i..Len(text) + 1 : j < to => Ch(j) \in S
        BY <4>1, FindNotIs
      <4>3. QED
        BY <4>2 DEF S, i
    <3>4. ASSUME NEW j \in pos..to - 1
          PROVE  Ch(j) \in {"digit", "dot"} /\ (Ch(j) = "dot" => j = point)
      <4>1. CASE j < point
        BY <1>0, <1>1, <1>2, <2>1, <3>3, <4>1
      <4>2. CASE j > point
        BY <1>0, <3>1, <3>3, <4>2
      <4>3. CASE j = point
        BY <3>1, <4>3
      <4>4. QED
        BY <1>0, <3>1, <3>3, <4>1, <4>2, <4>3
    <3>5. point \in pos..to - 1 /\ to \in pos + 1..Len(text) + 1
      BY <1>0, <3>1, <3>3
    <3>6. QED
      BY <3>1, <3>3, <3>4, <3>5
  <2>2. CASE ~(point < end)
    <3>1. to = end
      BY <1>9, <2>2
    <3>2. end # pos
      BY <1>2
    <3>3. to \in pos + 1..Len(text) + 1
      BY <1>0, <1>2, <3>1, <3>2
    <3>4. ASSUME NEW j \in pos..to - 1
          PROVE  Ch(j) \in {"digit", "dot"} /\ Ch(j) # "dot"
      <4>1. j \in pos..Len(text) + 1 /\ j < end /\ j < point
        BY <1>0, <1>1, <1>2, <2>2, <3>1
      <4>2. QED
        BY <1>1, <1>2, <4>1
    <3>5. QED
      BY <1>2, <3>1, <3>3, <3>4
  <2>3. QED
    BY <2>1, <2>2
<1>4. /\ DOMAIN written = 1..to - pos
      /\ \A i \in 1..to - pos : written[i] = Ch(pos + i - 1) /\ pos + i - 1 \in pos..to - 1
      /\ ToSet(written) \subseteq {Ch(j) : j \in pos..to - 1}
  BY <1>0, <1>3, WrittenIs
<1> HIDE DEF written
<1>5. ToSet(written) \subseteq {"digit", "dot"}
  BY <1>3, <1>4
<1>6. Cardinality(points) <= 1 /\ Ch(to) \notin {"digit"} \cup (IF points = {} THEN {"dot"} ELSE {})
  <2>1. CASE \A j \in pos..to - 1 : Ch(j) # "dot"
    <3>1. points = {}
      BY <1>4, <2>1
    <3>2. Cardinality(points) = 0
      BY <3>1, FS_EmptySet
    <3>3. Cardinality(points) <= 1
      BY <3>2
    <3>4. QED
      BY <1>3, <2>1, <3>1, <3>3
  <2>2. CASE point \in pos..to - 1 /\ \A j \in pos..to - 1 : Ch(j) = "dot" => j = point
    <3>1. \A i \in points : i = point - pos + 1
      BY <1>0, <1>1, <1>3, <1>4, <2>2
    <3>2. points = {} \/ points = {point - pos + 1}
      BY <3>1
    <3>3. Cardinality(points) <= 1
      <4>1. Cardinality({}) = 0 /\ Cardinality({point - pos + 1}) = 1
        BY FS_EmptySet, FS_Singleton
      <4>5. points = {} \/ points = {point - pos + 1}
        BY <3>2
      <4> HIDE DEF points
      <4>2. CASE points = {}
        BY <4>1, <4>2
      <4>3. CASE points = {point - pos + 1}
        BY <4>1, <4>3
      <4>4. QED
        BY <4>2, <4>3, <4>5
    <3>4. points # {} \/ \A j \in pos..to - 1 : Ch(j) # "dot"
      <4>1. ASSUME NEW j \in pos..to - 1, Ch(j) = "dot" PROVE points # {}
        <5>1. j - pos + 1 \in 1..to - pos /\ pos + (j - pos + 1) - 1 = j
          BY <1>0, <1>3
        <5>2. written[j - pos + 1] = "dot"
          BY <1>4, <4>1, <5>1
        <5>3. QED
          BY <1>4, <5>1, <5>2
      <4>2. QED
        BY <4>1
    <3>5. QED
      BY <1>3, <3>3, <3>4
  <2>3. QED
    BY <1>3, <2>1, <2>2
<1>7. AsWritten(Token("NUMBER", pos, to))
  BY <1>5, <1>6 DEF AsWritten, Token, written
<1>8. QED
  BY <1>0, <1>3, <1>7

LEMMA WordAsWritten ==
  ASSUME text \in Seq(Characters), pos \in 1..Len(text) + 1, Ch(pos) = "letter",
         NEW to, to = FindNot({"letter", "digit"}, pos)
  PROVE  pos \in 1..Len(text) /\ to \in pos + 1..Len(text) + 1 /\ AsWritten(Token("IDENT", pos, to))
<1>0. Len(text) \in Nat /\ pos \in 1..Len(text)
  BY CharacterAt
<1>1. /\ to \in pos..Len(text) + 1 /\ Ch(to) \notin {"letter", "digit"}
      /\ \A j \in pos..Len(text) + 1 : j < to => Ch(j) \in {"letter", "digit"}
  BY <1>0, FindNotIs
<1>2. to # pos
  BY <1>1
<1>3. to \in pos + 1..Len(text) + 1
  BY <1>0, <1>1, <1>2
<1>4. \A j \in pos..to - 1 : Ch(j) \in {"letter", "digit"}
  BY <1>0, <1>1
<1>5. ToSet(SubSeq(text, pos, to - 1)) \subseteq {Ch(j) : j \in pos..to - 1}
  BY <1>0, <1>3, WrittenIs
<1>6. ToSet(SubSeq(text, pos, to - 1)) \subseteq {"letter", "digit"}
  BY <1>4, <1>5
<1>7. AsWritten(Token("IDENT", pos, to))
  BY <1>1, <1>6 DEF AsWritten, Token
<1>8. QED
  BY <1>0, <1>3, <1>7

LEMMA OperatorAsWritten ==
  ASSUME text \in Seq(Characters), pos \in 1..Len(text) + 1, AtToken, NEW to,
         \/ <<Ch(pos), Ch(pos + 1)>> \in TwoCharacters /\ to = pos + 2
         \/ <<Ch(pos), Ch(pos + 1)>> \notin TwoCharacters /\ to = pos + 1
  PROVE  pos \in 1..Len(text) /\ to \in pos + 1..Len(text) + 1 /\ AsWritten(Token("OPERATOR", pos, to))
<1>0. Len(text) \in Nat /\ pos \in 1..Len(text) /\ \A i : i \notin 1..Len(text) => Ch(i) = "nul"
  BY CharacterAt DEF AtToken
<1>1. <<Ch(pos), Ch(pos + 1)>> \in TwoCharacters => pos + 1 \in 1..Len(text)
  BY <1>0 DEF TwoCharacters
<1>2. to \in pos + 1..Len(text) + 1
  BY <1>0, <1>1
<1> DEFINE written == SubSeq(text, pos, to - 1)
<1>3. /\ written \in Seq(Characters) /\ Len(written) = to - pos /\ Last(written) = Ch(to - 1)
      /\ \A i \in 1..to - pos : written[i] = Ch(pos + i - 1)
  BY <1>0, <1>2, WrittenIs
<1> HIDE DEF written
<1>4. written \in TwoCharacters \/ <<Last(written), Ch(to)>> \notin TwoCharacters
  <2>1. CASE <<Ch(pos), Ch(pos + 1)>> \in TwoCharacters /\ to = pos + 2
    <3>1. Len(written) = 2 /\ written[1] = Ch(pos) /\ written[2] = Ch(pos + 1)
      BY <1>0, <1>3, <2>1
    <3>2. written = <<Ch(pos), Ch(pos + 1)>>
      <4>1. written \in [1..2 -> Characters]
        BY <1>3, <3>1, LenProperties
      <4>2. QED
        BY <3>1, <4>1
    <3>3. QED
      BY <2>1, <3>2
  <2>2. CASE <<Ch(pos), Ch(pos + 1)>> \notin TwoCharacters /\ to = pos + 1
    BY <1>0, <1>3, <2>2
  <2>3. QED
    BY <2>1, <2>2
<1>5. AsWritten(Token("OPERATOR", pos, to))
  BY <1>4 DEF AsWritten, Token, written
<1>6. QED
  BY <1>0, <1>2, <1>5

(***************************************************************************)
(* FlattenSeq puts the pieces one behind the other: f[i] is what the first *)
(* i of them make.                                                         *)
(***************************************************************************)
Flattens(f, p, k) ==
  f = [i \in 1..k |-> IF i = 1 THEN p[i] ELSE f[i - 1] \o p[i]]

LEMMA FlattenExists ==
  ASSUME NEW p, NEW n \in Nat
  PROVE  \E f : Flattens(f, p, n)
<1> DEFINE S == {k \in Nat : \E f : Flattens(f, p, k)}
<1>1. 0 \in S
  <2>1. Flattens([i \in 1..0 |-> << >>], p, 0)
    BY DEF Flattens
  <2>2. QED
    BY <2>1
<1>2. ASSUME NEW k \in Nat, k \in S
      PROVE  k + 1 \in S
  <2>1. PICK f : Flattens(f, p, k)
    BY <1>2
  <2> DEFINE g == [i \in 1..(k + 1) |->
                     IF i = k + 1 THEN IF i = 1 THEN p[i] ELSE f[i - 1] \o p[i] ELSE f[i]]
  <2>2. ASSUME NEW i \in 1..(k + 1)
        PROVE  g[i] = IF i = 1 THEN p[i] ELSE g[i - 1] \o p[i]
    <3>1. CASE i = k + 1
      <4>1. i # 1 => i - 1 \in 1..(k + 1) /\ i - 1 # k + 1
        BY <3>1
      <4>2. QED
        BY <3>1, <4>1
    <3>2. CASE i # k + 1
      <4>1. i \in 1..k /\ (i # 1 => i - 1 \in 1..k)
        BY <3>2
      <4>2. f[i] = IF i = 1 THEN p[i] ELSE f[i - 1] \o p[i]
        BY <2>1, <4>1 DEF Flattens
      <4>3. QED
        BY <3>2, <4>1, <4>2
    <3>3. QED
      BY <3>1, <3>2
  <2>3. Flattens(g, p, k + 1)
    <3>1. g = [i \in 1..(k + 1) |-> g[i]]
      OBVIOUS
    <3> HIDE DEF g
    <3>2. QED
      BY <2>2, <3>1 DEF Flattens
  <2>4. QED
    BY <2>3
<1>3. n \in S
  <2> HIDE DEF S
  <2>1. 0..n \subseteq S
    BY <1>1, <1>2, CountUp
  <2>2. QED
    BY <2>1
<1>4. QED
  BY <1>3

\* f[i] is what the first i pieces make.
Joins(f, p, n, S) ==
  /\ f[0] = << >>
  /\ \A i \in 1..n : f[i] = f[i - 1] \o p[i] /\ p[i] \in Seq(S)
  /\ \A i \in 0..n : f[i] \in Seq(S)

LEMMA FlattenMeans ==
  ASSUME NEW S, NEW p \in Seq(Seq(S))
  PROVE  \E f : Joins(f, p, Len(p), S) /\ f[Len(p)] = FlattenSeq(p)
<1>0. Len(p) \in Nat /\ \A i \in 1..Len(p) : p[i] \in Seq(S)
  BY ElementOfSeq
<1>1. CASE Len(p) = 0
  <2>1. FlattenSeq(p) = << >>
    BY <1>1 DEF FlattenSeq
  <2> DEFINE f == [i \in {0} |-> << >>]
  <2>2. Joins(f, p, Len(p), S) /\ f[Len(p)] = FlattenSeq(p)
    BY <1>1, <2>1 DEF Joins
  <2> HIDE DEF f
  <2>3. QED
    BY <2>2
<1>2. CASE Len(p) # 0
  <2> DEFINE g == CHOOSE f : Flattens(f, p, Len(p))
             f == [i \in 0..Len(p) |-> IF i = 0 THEN << >> ELSE g[i]]
  <2>1. Flattens(g, p, Len(p))
    BY <1>0, FlattenExists
  <2>2. FlattenSeq(p) = g[Len(p)]
    BY <1>2 DEF FlattenSeq, Flattens
  <2> HIDE DEF g
  <2>3. \A i \in 1..Len(p) : g[i] = IF i = 1 THEN p[i] ELSE g[i - 1] \o p[i]
    BY <2>1 DEF Flattens
  <2>4. f[0] = << >> /\ f[Len(p)] = FlattenSeq(p) /\ \A i \in 1..Len(p) : f[i] = g[i]
    BY <1>0, <1>2, <2>2
  <2> HIDE DEF f
  <2>5. ASSUME NEW i \in 1..Len(p) PROVE f[i] = f[i - 1] \o p[i]
    <3>1. CASE i = 1
      <4>1. f[i] = p[1] /\ f[i - 1] = << >> /\ p[1] \in Seq(S)
        BY <1>0, <2>3, <2>4, <3>1
      <4>2. << >> \o p[1] = p[1]
        BY <4>1, ConcatEmptySeq
      <4>3. QED
        BY <3>1, <4>1, <4>2
    <3>2. CASE i # 1
      <4>1. i - 1 \in 1..Len(p)
        BY <1>0, <3>2
      <4>2. QED
        BY <2>3, <2>4, <3>2, <4>1
    <3>3. QED
      BY <3>1, <3>2
  <2> DEFINE T == {i \in 0..Len(p) : f[i] \in Seq(S)}
  <2>6. 0 \in T
    <3>1. 0 \in 0..Len(p) /\ f[0] \in Seq(S)
      BY <1>0, <2>4, EmptySeq
    <3>2. QED
      BY <3>1
  <2>7. ASSUME NEW n \in Nat, n < Len(p), n \in T PROVE n + 1 \in T
    <3>1. n + 1 \in 1..Len(p) /\ (n + 1) - 1 = n /\ n + 1 \in 0..Len(p)
      BY <1>0, <2>7
    <3>2. f[n + 1] = f[n] \o p[n + 1] /\ f[n] \in Seq(S) /\ p[n + 1] \in Seq(S)
      BY <1>0, <2>5, <2>7, <3>1
    <3>3. f[n + 1] \in Seq(S)
      BY <3>2, ConcatProperties
    <3>4. QED
      BY <3>1, <3>3
  <2>8. \A i \in 0..Len(p) : f[i] \in Seq(S)
    <3>1. 0..Len(p) \subseteq T
      <4> HIDE DEF T
      <4>1. QED
        BY <1>0, <2>6, <2>7, CountUp
    <3>2. QED
      BY <3>1
  <2>9. QED
    BY <1>0, <2>4, <2>5, <2>8 DEF Joins
<1>3. QED
  BY <1>1, <1>2

BothOf(u, s, t) ==
  /\ Len(s) \in Nat /\ Len(t) \in Nat /\ Len(u) = Len(s) + Len(t)
  /\ \A k \in 1..Len(s) : u[k] = s[k]
  /\ \A k \in 1..Len(t) : u[Len(s) + k] = t[k]

LEMMA Concatenates ==
  ASSUME NEW S, NEW s \in Seq(S), NEW t \in Seq(S)
  PROVE  s \o t \in Seq(S) /\ BothOf(s \o t, s, t)
  BY DEF BothOf

LEMMA PrefixStays ==
  ASSUME NEW S, NEW s \in Seq(S), NEW t \in Seq(S), NEW r \in Seq(S),
         Len(r) <= Len(s), \A k \in 1..Len(r) : s[k] = r[k]
  PROVE  Len(r) <= Len(s \o t) /\ \A k \in 1..Len(r) : (s \o t)[k] = r[k]
  OBVIOUS

\* What has been put together stays in front of what follows.
Begins(s, r) == Len(r) <= Len(s) /\ \A k \in 1..Len(r) : s[k] = r[k]

LEMMA FlattenGrows ==
  ASSUME NEW S, NEW n \in Nat, NEW f, NEW p, NEW i \in 0..n,
         Joins(f, p, n, S)
  PROVE  Begins(f[n], f[i])
<1> DEFINE T == {m \in 0..n : i <= m => /\ Len(f[i]) <= Len(f[m])
                                        /\ \A k \in 1..Len(f[i]) : f[m][k] = f[i][k]}
<1>0. \A j \in 0..n : Len(f[j]) \in Nat
  BY LenProperties DEF Joins
<1>1. 0 \in T
  <2>1. i <= 0 => i = 0
    OBVIOUS
  <2>2. QED
    BY <1>0, <2>1
<1>2. ASSUME NEW m \in Nat, m < n, m \in T PROVE m + 1 \in T
  <2> DEFINE j == m + 1
             s == f[m]
             t == p[j]
             r == f[i]
  <2>0. j \in 1..n /\ j - 1 = m /\ m \in 0..n
    BY <1>2
  <2> HIDE DEF j
  <2>1. f[j] = s \o t /\ t \in Seq(S) /\ s \in Seq(S) /\ r \in Seq(S)
    BY <2>0 DEF Joins
  <2>2. CASE i <= m
    <3>1. Len(r) <= Len(s) /\ \A k \in 1..Len(r) : s[k] = r[k]
      BY <1>2, <2>2
    <3>2. Len(r) <= Len(f[j]) /\ \A k \in 1..Len(r) : f[j][k] = r[k]
      <4> HIDE DEF s, t, r
      <4>1. QED
        BY <2>1, <3>1, PrefixStays
    <3>3. QED
      BY <2>0, <3>2 DEF j
  <2>3. CASE ~(i <= m)
    <3>1. j \in 0..n /\ (i <= j => i = j)
      BY <2>0, <2>3
    <3>2. QED
      BY <1>0, <3>1 DEF j
  <2>4. QED
    BY <2>2, <2>3
<1>3. 0..n \subseteq T
  <2> HIDE DEF T
  <2>1. QED
    BY <1>1, <1>2, CountUp
<1>4. QED
  BY <1>3 DEF Begins

LEMMA PartOf ==
  ASSUME NEW S, NEW s \in Seq(S), NEW a \in 1..Len(s) + 1, NEW b \in a - 1..Len(s)
  PROVE  /\ SubSeq(s, a, b) \in Seq(S) /\ Len(SubSeq(s, a, b)) = b - a + 1
         /\ \A k \in 1..b - a + 1 : SubSeq(s, a, b)[k] = s[a + k - 1]
<1>1. Len(s) \in Nat /\ \A i \in 1..Len(s) : s[i] \in S
  BY ElementOfSeq
<1>2. /\ a \in Int /\ b \in Int
      /\ \A i \in a..b : i \in 1..Len(s)
  BY <1>1
<1>3. \A i \in a..b : s[i] \in S
  BY <1>1, <1>2
<1>4. /\ SubSeq(s, a, b) \in Seq(S)
      /\ Len(SubSeq(s, a, b)) = IF a <= b THEN b - a + 1 ELSE 0
      /\ \A k \in 1..b - a + 1 : SubSeq(s, a, b)[k] = s[a + k - 1]
  BY <1>2, <1>3, SubSeqProperties
<1>5. (IF a <= b THEN b - a + 1 ELSE 0) = b - a + 1
  BY <1>1
<1>6. QED
  BY <1>4, <1>5

LEMMA PartGrows ==
  ASSUME NEW S, NEW s \in Seq(S), NEW a \in 1..Len(s), NEW b \in a - 1..Len(s) - 1
  PROVE  SubSeq(s, a, b + 1) = SubSeq(s, a, b) \o <<s[b + 1]>>
<1> DEFINE old == SubSeq(s, a, b)
           new == SubSeq(s, a, b + 1)
           one == <<s[b + 1]>>
<1>1. Len(s) \in Nat /\ a \in 1..Len(s) + 1 /\ b \in a - 1..Len(s) /\ b + 1 \in a - 1..Len(s)
  OBVIOUS
<1>2. old \in Seq(S) /\ Len(old) = b - a + 1 /\ \A k \in 1..b - a + 1 : old[k] = s[a + k - 1]
  BY <1>1, PartOf
<1>3. /\ new \in Seq(S) /\ Len(new) = (b + 1) - a + 1
      /\ \A k \in 1..(b + 1) - a + 1 : new[k] = s[a + k - 1]
  <2> DEFINE c == b + 1
  <2>1. c \in a - 1..Len(s) /\ new = SubSeq(s, a, c)
    BY <1>1
  <2> HIDE DEF c
  <2>2. /\ SubSeq(s, a, c) \in Seq(S) /\ Len(SubSeq(s, a, c)) = c - a + 1
        /\ \A k \in 1..c - a + 1 : SubSeq(s, a, c)[k] = s[a + k - 1]
    BY <1>1, <2>1, PartOf
  <2>3. QED
    BY <2>1, <2>2 DEF c
<1>4. one \in Seq(S) /\ Len(one) = 1 /\ one[1] = s[b + 1]
  <2>1. b + 1 \in 1..Len(s)
    BY <1>1
  <2>2. s[b + 1] \in S
    BY <2>1, ElementOfSeq
  <2>3. QED
    BY <2>2
<1> HIDE DEF old, new, one
<1>5. /\ old \o one \in Seq(S) /\ Len(old \o one) = Len(old) + 1
      /\ \A k \in 1..Len(old) : (old \o one)[k] = old[k]
      /\ (old \o one)[Len(old) + 1] = one[1]
  <2>1. /\ old \o one \in Seq(S) /\ Len(old \o one) = Len(old) + Len(one)
        /\ \A k \in 1..Len(old) : (old \o one)[k] = old[k]
        /\ \A k \in 1..Len(one) : (old \o one)[Len(old) + k] = one[k]
    <3>1. old \in Seq(S) /\ one \in Seq(S)
      BY <1>2, <1>4
    <3>2. QED
      BY <3>1
  <2>2. 1 \in 1..Len(one)
    BY <1>4
  <2>3. QED
    BY <1>4, <2>1, <2>2
<1>6. ASSUME NEW k \in 1..Len(new) PROVE new[k] = (old \o one)[k]
  <2>1. CASE k = Len(old) + 1
    BY <1>1, <1>2, <1>3, <1>4, <1>5, <2>1
  <2>2. CASE k # Len(old) + 1
    BY <1>1, <1>2, <1>3, <1>5, <2>2
  <2>3. QED
    BY <2>1, <2>2
<1>7. Len(new) = Len(old \o one)
  BY <1>1, <1>2, <1>3, <1>5
<1>8. new = old \o one
  BY <1>3, <1>5, <1>6, <1>7, SeqEqual
<1>9. QED
  BY <1>8 DEF old, new, one

(***************************************************************************)
(* A string literal says its value: what the first i characters give,      *)
(* quoted again, is what they are, but for a backslash that waits for its  *)
(* quote.                                                                  *)
(***************************************************************************)
LEMMA StringAsWritten ==
  ASSUME text \in Seq(Characters), pos \in 1..Len(text) + 1, Ch(pos) = "quote",
         StringEnds # {}, NEW to, to = Min(StringEnds) + 1
  PROVE  pos \in 1..Len(text) /\ to \in pos + 1..Len(text) + 1 /\ AsWritten(Token("STRING", pos, to))
<1> DEFINE end == Min(StringEnds)
           n == end - pos - 1
           token == Token("STRING", pos, to)
           dropped(i) == Ch(i) = "backslash" /\ Ch(i + 1) = "quote"
<1>0. Len(text) \in Nat /\ pos \in 1..Len(text)
  BY CharacterAt
<1>1. /\ Find({"nul"}, pos) \in pos..Len(text) + 1
      /\ \A j \in pos..Len(text) + 1 : j < Find({"nul"}, pos) => Ch(j) # "nul"
  <2> DEFINE S == {"nul"}
  <2>1. "nul" \in S /\ pos \in 1..Len(text) + 1
    BY <1>0
  <2> HIDE DEF S
  <2>2. /\ Find(S, pos) \in pos..Len(text) + 1
        /\ \A j \in pos..Len(text) + 1 : j < Find(S, pos) => Ch(j) \notin S
    BY <2>1, FindIs
  <2>3. QED
    BY <2>2 DEF S
<1>2. /\ end \in pos + 1..Len(text) + 1 /\ end <= Find({"nul"}, pos)
      /\ Ch(end) = "quote" /\ ~Escapes(end - 1)
      /\ \A j \in pos + 1..Len(text) + 1 : j < end /\ Ch(j) = "quote" => Escapes(j - 1)
  <2>1. StringEnds \subseteq Nat
    BY <1>0, <1>1 DEF StringEnds
  <2>2. end \in StringEnds /\ \A j \in StringEnds : end <= j
    BY <2>1, MinIsLeast
  <2> HIDE DEF end
  <2>3. QED
    BY <1>0, <1>1, <2>2 DEF StringEnds
<1> HIDE DEF end
<1>3. end \in 1..Len(text) /\ to = end + 1 /\ to \in pos + 1..Len(text) + 1
  <2>1. end \in 1..Len(text)
    BY <1>0, <1>2, CharacterAt
  <2>2. QED
    BY <1>0, <1>2, <2>1 DEF end
<1>4. n \in Nat /\ pos + n + 1 = end /\ to - pos - 2 = n
  BY <1>0, <1>2, <1>3
<1>5. ASSUME NEW i \in 1..n
      PROVE  /\ pos + i \in 1..Len(text) /\ Ch(pos + i) = text[pos + i]
             /\ Ch(pos + i) \in Characters
             /\ Ch(pos + i) = "quote" => i > 1 /\ dropped(pos + (i - 1))
  <2>1. pos + i \in 1..Len(text) /\ pos + i < end /\ pos + i \in pos + 1..Len(text) + 1
    BY <1>0, <1>2, <1>3, <1>4
  <2>2. Ch(pos + i) = text[pos + i] /\ text[pos + i] \in Characters
    BY <2>1, CharacterAt
  <2>3. Ch(pos + i) = "quote" => Escapes(pos + i - 1)
    BY <1>2, <2>1
  <2>4. pos + i - 1 = pos + (i - 1) /\ pos + i - 1 + 1 = pos + i /\ (pos + i - 1 > pos => i > 1)
    BY <1>0
  <2>5. QED
    BY <2>1, <2>2, <2>3, <2>4 DEF Escapes
<1>6. n > 0 => ~dropped(pos + n)
  <2>1. ASSUME n > 0, dropped(pos + n) PROVE FALSE
    <3>1. end - 1 = pos + n /\ pos + n > pos /\ pos + n + 1 = end /\ end - 1 + 1 = end
      BY <1>0, <1>4, <2>1
    <3>2. Escapes(end - 1)
      BY <2>1, <3>1 DEF Escapes
    <3>3. QED
      BY <1>2, <3>2
  <2>2. QED
    BY <2>1
<1> DEFINE p == [k \in 1..n |-> IF dropped(pos + k) THEN << >> ELSE <<Ch(pos + k)>>]
           v == FlattenSeq(p)
           q == [k \in DOMAIN v |-> IF v[k] = "quote" THEN <<"backslash", "quote">> ELSE <<v[k]>>]
<1>7. Value(token) = v
  <2>1. token.to - token.from - 2 = n /\ token.from = pos
    BY <1>4 DEF Token
  <2>2. QED
    BY <2>1 DEF Value
<1>8. Quoted(v) = FlattenSeq(q)
  BY DEF Quoted
<1>9. p \in Seq(Seq(Characters)) /\ Len(p) = n
  <2>1. \A k \in 1..n : p[k] \in Seq(Characters)
    BY <1>5
  <2>2. n \in Nat
    BY <1>4
  <2> HIDE DEF n, dropped
  <2>3. p \in [1..n -> Seq(Characters)]
    BY <2>1
  <2>4. QED
    BY <2>2, <2>3
<1>10. PICK f : Joins(f, p, n, Characters) /\ f[n] = v
  <2> HIDE DEF p, n
  <2>1. QED
    BY <1>9, FlattenMeans
<1>11. v \in Seq(Characters) /\ Len(v) \in Nat /\ DOMAIN v = 1..Len(v)
  <2>1. n \in 0..n
    BY <1>4
  <2> HIDE DEF v, p
  <2>2. v \in Seq(Characters)
    BY <1>10, <2>1 DEF Joins
  <2>3. QED
    BY <2>2, LenProperties
<1>12. ASSUME NEW i \in 0..n
       PROVE  Len(f[i]) \in 0..Len(v) /\ \A k \in 1..Len(f[i]) : v[k] = f[i][k]
  <2> HIDE DEF p, v, n
  <2>1. Len(f[i]) <= Len(f[n]) /\ \A k \in 1..Len(f[i]) : f[n][k] = f[i][k]
    <3>1. n \in Nat /\ i \in 0..n /\ Joins(f, p, n, Characters)
      BY <1>4, <1>10
    <3>2. Begins(f[n], f[i])
      BY <3>1, FlattenGrows
    <3>3. QED
      BY <3>2 DEF Begins
  <2>2. Len(f[i]) \in Nat
    BY <1>10, LenProperties DEF Joins
  <2>3. QED
    BY <1>10, <1>11, <2>1, <2>2
<1>13. q \in Seq(Seq(Characters)) /\ Len(q) = Len(v)
  <2>1. \A k \in 1..Len(v) : v[k] \in Characters
    BY <1>11, ElementOfSeq
  <2>2. "backslash" \in Characters /\ "quote" \in Characters
    BY DEF Characters
  <2> HIDE DEF v, p
  <2>3. \A k \in 1..Len(v) : q[k] \in Seq(Characters)
    BY <1>11, <2>1, <2>2
  <2>4. QED
    BY <1>11, <2>3
<1>14. PICK g : Joins(g, q, Len(v), Characters) /\ g[Len(v)] = Quoted(v)
  <2> HIDE DEF q, v, p
  <2>1. QED
    BY <1>8, <1>13, FlattenMeans
<1> DEFINE W(i) == SubSeq(text, pos + 1, pos + i)
           waits(i) == i > 0 /\ dropped(pos + i)
           T == {i \in 0..n : g[Len(f[i])] = IF waits(i) THEN W(i - 1) ELSE W(i)}
<1>15. /\ W(0) = << >>
       /\ \A i \in 0..n : W(i) \in Seq(Characters)
       /\ \A i \in 1..n : W(i) = W(i - 1) \o <<Ch(pos + i)>>
  <2>1. W(0) = << >>
    BY <1>0, SubSeqEmpty
  <2>2. ASSUME NEW i \in 0..n PROVE W(i) \in Seq(Characters)
    <3>1. pos + 1 \in 1..Len(text) + 1 /\ pos + i \in (pos + 1) - 1..Len(text)
      BY <1>0, <1>3, <1>4
    <3>2. QED
      BY <3>1, PartOf
  <2>3. ASSUME NEW i \in 1..n PROVE W(i) = W(i - 1) \o <<Ch(pos + i)>>
    <3> DEFINE a == pos + 1
               b == pos + (i - 1)
    <3>1. a \in 1..Len(text) /\ b \in a - 1..Len(text) - 1 /\ b + 1 = pos + i
      BY <1>0, <1>3, <1>4
    <3> HIDE DEF a, b
    <3>2. SubSeq(text, a, b + 1) = SubSeq(text, a, b) \o <<text[b + 1]>>
      BY <3>1, PartGrows
    <3>3. QED
      BY <1>5, <3>1, <3>2 DEF a, b
  <2>4. QED
    BY <2>1, <2>2, <2>3
<1>16. 0 \in T
  BY <1>4, <1>10, <1>14, <1>15 DEF Joins
<1>17. ASSUME NEW m \in Nat, m < n, m \in T PROVE m + 1 \in T
  <2> DEFINE i == m + 1
             c == Ch(pos + i)
             l == Len(f[m])
  <2>0. i \in 1..n /\ i - 1 = m /\ m \in 0..n /\ pos + i = pos + m + 1
    <3> HIDE DEF n, T
    <3>1. QED
      BY <1>0, <1>4, <1>17
  <2>1. g[l] = IF waits(m) THEN W(m - 1) ELSE W(m)
    BY <1>17
  <2>2. /\ f[i] = f[m] \o p[i] /\ f[m] \in Seq(Characters) /\ l \in 0..Len(v)
        /\ p[i] = IF dropped(pos + i) THEN << >> ELSE <<c>>
    <3>1. p[i] = IF dropped(pos + i) THEN << >> ELSE <<c>>
      BY <2>0
    <3> HIDE DEF p, i, v, dropped, n
    <3>2. f[i] = f[m] \o p[i] /\ f[m] \in Seq(Characters)
      BY <1>10, <2>0 DEF Joins
    <3>3. QED
      BY <1>12, <2>0, <3>1, <3>2
  <2>3. /\ c \in Characters /\ (c = "quote" <=> waits(m))
        /\ W(i) = W(m) \o <<c>> /\ (m > 0 => W(m) = W(m - 1) \o <<Ch(pos + m)>>)
    <3>1. c \in Characters /\ (c = "quote" => m > 0 /\ dropped(pos + m))
      BY <1>5, <2>0
    <3>2. waits(m) => c = "quote"
      BY <2>0
    <3>3. m > 0 => m \in 1..n
      BY <2>0
    <3> HIDE DEF W
    <3>4. QED
      BY <1>15, <2>0, <3>1, <3>2, <3>3
  <2> HIDE DEF W, i, v, p, q, n
  <2>4. CASE dropped(pos + i)
    <3>1. f[i] = f[m]
      BY <2>2, <2>4, ConcatEmptySeq
    <3>2. ~waits(m) /\ waits(i)
      BY <2>0, <2>3, <2>4
    <3>3. QED
      BY <2>0, <2>1, <3>1, <3>2 DEF i
  <2>5. CASE ~dropped(pos + i)
    <3>1. /\ f[i] = f[m] \o <<c>> /\ Len(f[i]) = l + 1 /\ f[i][l + 1] = c /\ l \in Nat
      <4>1. f[i] = f[m] \o <<c>>
        BY <2>2, <2>5
      <4>2. <<c>> \in Seq(Characters) /\ Len(<<c>>) = 1 /\ <<c>>[1] = c
        BY <2>3
      <4> DEFINE s == f[m]
                 t == <<c>>
      <4>3. s \in Seq(Characters) /\ t \in Seq(Characters) /\ 1 \in 1..Len(t)
        BY <2>2, <4>2
      <4> HIDE DEF s, t, c
      <4>4. /\ Len(s \o t) = Len(s) + Len(t) /\ Len(s) \in Nat
            /\ \A k \in 1..Len(t) : (s \o t)[Len(s) + k] = t[k]
        BY <4>3, Concatenates DEF BothOf
      <4>5. QED
        BY <4>1, <4>2, <4>3, <4>4 DEF s, t
    <3>2. l + 1 \in 1..Len(v) /\ v[l + 1] = c
      <4>1. i \in 0..n
        BY <2>0
      <4>2. Len(f[i]) \in 0..Len(v) /\ \A k \in 1..Len(f[i]) : v[k] = f[i][k]
        BY <1>12, <4>1
      <4>3. QED
        BY <1>11, <3>1, <4>2
    <3>3. g[l + 1] = g[l] \o q[l + 1]
      <4>1. (l + 1) - 1 = l
        BY <3>1
      <4>2. QED
        BY <1>14, <3>2, <4>1 DEF Joins
    <3>4. q[l + 1] = IF c = "quote" THEN <<"backslash", "quote">> ELSE <<c>>
      BY <1>11, <3>2 DEF q
    <3>5. g[l + 1] = W(i)
      <4>1. CASE c = "quote"
        <5>1. m > 0 /\ Ch(pos + m) = "backslash" /\ waits(m)
          BY <2>3, <4>1
        <5>2. g[l + 1] = W(m - 1) \o <<"backslash", "quote">>
          BY <2>1, <3>3, <3>4, <4>1, <5>1
        <5>3. W(i) = (W(m - 1) \o <<"backslash">>) \o <<"quote">> /\ W(m - 1) \in Seq(Characters)
          <6>1. m - 1 \in 0..n
            BY <1>4, <2>0, <5>1
          <6>2. QED
            BY <1>15, <2>3, <4>1, <5>1, <6>1
        <5>4. (W(m - 1) \o <<"backslash">>) \o <<"quote">> = W(m - 1) \o (<<"backslash">> \o <<"quote">>)
          <6>1. <<"backslash">> \in Seq(Characters) /\ <<"quote">> \in Seq(Characters)
            BY DEF Characters
          <6>2. QED
            BY <5>3, <6>1, ConcatAssociative
        <5>5. <<"backslash">> \o <<"quote">> = <<"backslash", "quote">>
          <6> DEFINE both == <<"backslash">> \o <<"quote">>
          <6>1. both \in Seq({"backslash", "quote"}) /\ Len(both) = 2
                /\ both[1] = "backslash" /\ both[2] = "quote"
            OBVIOUS
          <6> HIDE DEF both
          <6>2. both \in [1..2 -> {"backslash", "quote"}]
            BY <6>1, LenProperties
          <6>3. both = <<"backslash", "quote">>
            BY <6>1, <6>2
          <6>4. QED
            BY <6>3 DEF both
        <5>6. QED
          BY <5>2, <5>3, <5>4, <5>5
      <4>2. CASE c # "quote"
        <5>1. ~waits(m)
          BY <2>3, <4>2
        <5>2. g[l + 1] = W(m) \o <<c>>
          BY <2>1, <3>3, <3>4, <4>2, <5>1
        <5>3. QED
          BY <2>3, <5>2
      <4>3. QED
        BY <4>1, <4>2
    <3>6. ~waits(i) /\ i \in 0..n /\ g[Len(f[i])] = W(i)
      BY <2>0, <2>5, <3>1, <3>5
    <3>7. QED
      BY <3>6 DEF i
  <2>6. QED
    BY <2>4, <2>5
<1>18. g[Len(v)] = W(n)
  <2>1. 0..n \subseteq T
    <3> HIDE DEF T, n
    <3>1. QED
      BY <1>4, <1>16, <1>17, CountUp
  <2>2. n \in T
    BY <1>4, <2>1
  <2>3. ~waits(n)
    BY <1>6
  <2> HIDE DEF W, v, waits, n
  <2>4. QED
    BY <1>10, <2>2, <2>3
<1>19. <<"quote">> \o Quoted(v) \o <<"quote">> = SubSeq(text, pos, to - 1)
  <2> DEFINE head == <<"quote">>
             body == W(n)
             whole == SubSeq(text, pos, to - 1)
             made == head \o body \o head
  <2>1. body \in Seq(Characters) /\ Len(body) = n
        /\ \A k \in 1..n : body[k] = text[pos + k]
    <3> DEFINE a == pos + 1
               b == pos + n
    <3>1. a \in 1..Len(text) + 1 /\ b \in a - 1..Len(text) /\ b - a + 1 = n
          /\ \A k \in 1..n : a + k - 1 = pos + k
      BY <1>0, <1>3, <1>4
    <3> HIDE DEF a, b
    <3>2. SubSeq(text, a, b) \in Seq(Characters) /\ Len(SubSeq(text, a, b)) = b - a + 1
          /\ \A k \in 1..b - a + 1 : SubSeq(text, a, b)[k] = text[a + k - 1]
      BY <3>1, PartOf
    <3>3. QED
      BY <3>1, <3>2 DEF a, b
  <2>2. whole \in Seq(Characters) /\ Len(whole) = n + 2
        /\ \A k \in 1..n + 2 : whole[k] = text[pos + k - 1]
    <3> DEFINE b == to - 1
    <3>1. pos \in 1..Len(text) + 1 /\ b \in pos - 1..Len(text) /\ b - pos + 1 = n + 2
      BY <1>0, <1>3, <1>4
    <3> HIDE DEF b, n
    <3>2. SubSeq(text, pos, b) \in Seq(Characters) /\ Len(SubSeq(text, pos, b)) = b - pos + 1
          /\ \A k \in 1..b - pos + 1 : SubSeq(text, pos, b)[k] = text[pos + k - 1]
      BY <3>1, PartOf
    <3>3. QED
      BY <3>1, <3>2 DEF b
  <2>3. head \in Seq(Characters) /\ Len(head) = 1 /\ head[1] = "quote"
    BY DEF Characters
  <2>4. n \in Nat
    BY <1>4
  <2>5. text[pos] = "quote" /\ text[pos + (n + 2) - 1] = "quote"
    <3>1. pos + (n + 2) - 1 = end
      BY <1>0, <1>4
    <3>2. QED
      BY <1>0, <1>2, <1>3, <3>1, CharacterAt
  <2> HIDE DEF head, body, whole, n
  <2>6. made \in Seq(Characters) /\ Len(made) = n + 2
        /\ made[1] = "quote" /\ made[n + 2] = "quote" /\ \A k \in 2..n + 1 : made[k] = body[k - 1]
    <3> DEFINE s == head \o body
    <3>1. /\ s \in Seq(Characters) /\ Len(s) = n + 1 /\ s[1] = "quote"
          /\ \A k \in 1..n : s[1 + k] = body[k]
      <4>1. s \in Seq(Characters) /\ BothOf(s, head, body)
        BY <2>1, <2>3, Concatenates
      <4> HIDE DEF s
      <4>2. QED
        BY <2>1, <2>3, <2>4, <4>1 DEF BothOf
    <3>2. made = s \o head
      OBVIOUS
    <3> HIDE DEF s, made
    <3>3. made \in Seq(Characters) /\ BothOf(made, s, head)
      BY <2>3, <3>1, <3>2, Concatenates
    <3>4. made[n + 2] = "quote"
      <4>1. 1 \in 1..Len(head) /\ Len(s) + 1 = n + 2
        BY <2>3, <2>4, <3>1
      <4>2. QED
        BY <2>3, <3>3, <4>1 DEF BothOf
    <3>5. ASSUME NEW k \in 2..n + 1 PROVE made[k] = body[k - 1]
      <4>1. k - 1 \in 1..n /\ 1 + (k - 1) = k /\ k \in 1..Len(s)
        BY <2>4, <3>1
      <4>2. s[1 + (k - 1)] = body[k - 1]
        BY <3>1, <4>1
      <4>3. QED
        BY <3>3, <4>1, <4>2 DEF BothOf
    <3>6. made[1] = "quote" /\ Len(made) = n + 2
      BY <2>3, <2>4, <3>1, <3>3 DEF BothOf
    <3>7. QED
      BY <3>3, <3>4, <3>5, <3>6
  <2> HIDE DEF made
  <2>7. ASSUME NEW k \in 1..Len(made) PROVE made[k] = whole[k]
    <3>1. whole[k] = text[pos + k - 1] /\ k \in 1..n + 2
      BY <2>2, <2>6
    <3>2. CASE k = 1
      BY <1>0, <2>5, <2>6, <3>1, <3>2
    <3>3. CASE k = n + 2
      BY <2>5, <2>6, <3>1, <3>3
    <3>4. CASE k \in 2..n + 1
      <4>1. k - 1 \in 1..n /\ pos + (k - 1) = pos + k - 1
        BY <1>0, <2>4, <3>4
      <4>2. QED
        BY <2>1, <2>6, <3>1, <3>4, <4>1
    <3>5. QED
      BY <2>4, <3>1, <3>2, <3>3, <3>4
  <2>8. made = whole
    <3>1. Len(made) = Len(whole)
      BY <2>2, <2>6
    <3>2. QED
      BY <2>2, <2>6, <2>7, <3>1, SeqEqual
  <2>9. Quoted(v) = body
    BY <1>14, <1>18 DEF body
  <2>10. QED
    BY <2>8, <2>9 DEF made, head, whole
<1>20. AsWritten(token)
  <2>1. token.type = "STRING" /\ token.from = pos /\ token.to = to
    BY DEF Token
  <2> HIDE DEF token, v
  <2>2. QED
    BY <1>7, <1>19, <2>1 DEF AsWritten
<1>21. QED
  BY <1>0, <1>3, <1>20

-----------------------------------------------------------------------------
(***************************************************************************)
(* What holds of the lexer in every state.                                 *)
(***************************************************************************)
LEMMA SameText ==
  ASSUME text' = text, NEW token
  PROVE  AsWritten(token) => AsWritten(token)'
<1>1. \A i : Ch(i)' = Ch(i)
  BY DEF Ch
<1>2. QED
  BY <1>1 DEF AsWritten, Quoted, Value, TwoCharacters

Types == {"STRING", "NUMBER", "IDENT", "OPERATOR"}

LexerInv ==
  /\ text \in Seq(Characters) /\ pos \in 1..Len(text) + 1
  /\ lexed \in Seq([type : Types, from : Nat, to : Nat])
  /\ skipped \in Seq([from : Nat, to : Nat])
  /\ \A k \in 1..Len(lexed) :
       /\ lexed[k].from \in 1..Len(text) /\ lexed[k].to \in lexed[k].from + 1..pos
       /\ k < Len(lexed) => lexed[k].to <= lexed[k + 1].from
       /\ \A token : token = lexed[k] => AsWritten(token)
  /\ lexing = "eof" => Ch(pos) = "nul"

LEMMA InitText ==
  ASSUME Init
  PROVE  text \in Seq(Characters)
<1>1. PICK f \in Families : \E n \in 0..f.length : \E t \in [1..n -> f.letters] : text = f.prefix \o t
  BY DEF Init
<1>2. f.prefix \in Seq(Characters) /\ f.letters \subseteq Characters /\ f.length \in Nat
  BY FamiliesAssumption
<1>3. PICK n \in 0..f.length : \E t \in [1..n -> f.letters] : text = f.prefix \o t
  BY <1>1
<1>4. PICK t \in [1..n -> f.letters] : text = f.prefix \o t
  BY <1>3
<1>5. t \in Seq(Characters)
  <2>1. n \in Nat /\ t \in [1..n -> Characters]
    BY <1>2
  <2>2. QED
    BY <2>1
<1>6. QED
  BY <1>2, <1>4, <1>5, ConcatProperties

\* A step that returns a token.
LEMMA EmitKeeps ==
  ASSUME LexerInv, text' = text, NEW type \in Types, NEW to \in pos + 1..Len(text) + 1,
         pos \in 1..Len(text), Emit(type, to), lexing = "on",
         \A token : token = Token(type, pos, to) => AsWritten(token)
  PROVE  LexerInv'
<1> DEFINE Tokens == [type : Types, from : Nat, to : Nat]
<1>0. Len(text) \in Nat
  BY LenProperties DEF LexerInv
<1>1. PICK token \in Tokens :
        token = Token(type, pos, to) /\ token.from = pos /\ token.to = to /\ AsWritten(token)
  <2> DEFINE token == Token(type, pos, to)
  <2>1. token \in Tokens /\ token.from = pos /\ token.to = to
    BY <1>0 DEF Token
  <2>2. \A t : t = token => AsWritten(t)
    OBVIOUS
  <2> HIDE DEF token, Tokens
  <2>3. QED
    BY <2>1, <2>2 DEF token
<1>2. lexed' = Append(lexed, token) /\ pos' = to /\ skipped' = skipped /\ lexing' = lexing
  BY <1>1 DEF Emit
<1> HIDE DEF Tokens
<1>3. /\ lexed \in Seq(Tokens) /\ lexed' \in Seq(Tokens) /\ Len(lexed) \in Nat
      /\ Len(lexed') = Len(lexed) + 1 /\ lexed'[Len(lexed) + 1] = token
      /\ \A k \in 1..Len(lexed) : lexed'[k] = lexed[k]
  <2>1. lexed \in Seq(Tokens)
    BY DEF LexerInv, Tokens
  <2>2. QED
    BY <1>1, <1>2, <2>1, AppendProperties
<1>4. \A t : AsWritten(t) => AsWritten(t)'
  BY SameText
<1>5. ASSUME NEW k \in 1..Len(lexed')
      PROVE  /\ lexed'[k].from \in 1..Len(text) /\ lexed'[k].to \in lexed'[k].from + 1..to
             /\ k < Len(lexed') => lexed'[k].to <= lexed'[k + 1].from
             /\ \A t : t = lexed'[k] => AsWritten(t)'
  <2>1. CASE k = Len(lexed) + 1
    <3>1. lexed'[k] = token /\ ~(k < Len(lexed'))
      BY <1>3, <2>1
    <3>2. \A t : t = lexed'[k] => AsWritten(t)'
      BY <1>1, <1>4, <3>1
    <3>3. QED
      BY <1>1, <3>1, <3>2
  <2>2. CASE k # Len(lexed) + 1
    <3>1. k \in 1..Len(lexed) /\ lexed'[k] = lexed[k]
      BY <1>3, <2>2
    <3>2. /\ lexed[k].from \in 1..Len(text) /\ lexed[k].to \in lexed[k].from + 1..pos
          /\ k < Len(lexed) => lexed[k].to <= lexed[k + 1].from
          /\ \A t : t = lexed[k] => AsWritten(t)
      BY <3>1 DEF LexerInv
    <3>3. \A t : t = lexed'[k] => AsWritten(t)'
      BY <1>4, <3>1, <3>2
    <3>4. k < Len(lexed') => lexed'[k].to <= lexed'[k + 1].from
      <4>1. CASE k < Len(lexed)
        <5>1. k + 1 \in 1..Len(lexed)
          BY <1>3, <3>1, <4>1
        <5>2. QED
          BY <1>3, <3>1, <3>2, <4>1, <5>1
      <4>2. CASE k = Len(lexed)
        BY <1>0, <1>1, <1>3, <3>1, <3>2, <4>2
      <4>3. QED
        BY <1>3, <3>1, <4>1, <4>2
    <3>5. lexed'[k].from \in 1..Len(text) /\ lexed'[k].to \in lexed'[k].from + 1..to
      BY <1>0, <3>1, <3>2
    <3>6. QED
      BY <3>3, <3>4, <3>5
  <2>3. QED
    BY <2>1, <2>2
<1>6. to \in 1..Len(text) + 1
  BY <1>0
<1>7. QED
  BY <1>2, <1>3, <1>5, <1>6 DEF LexerInv, Tokens

\* A step that skips something, or stops.
LEMMA SkipKeeps ==
  ASSUME LexerInv, text' = text, lexed' = lexed, pos' \in pos..Len(text) + 1,
         \/ skipped' = skipped
         \/ \E from \in Nat, to \in Nat : skipped' = Append(skipped, Comment(from, to)),
         lexing' = "eof" => Ch(pos') = "nul"
  PROVE  LexerInv'
<1>0. Len(text) \in Nat
  BY LenProperties DEF LexerInv
<1>1. skipped' \in Seq([from : Nat, to : Nat])
  <2>1. CASE skipped' = skipped
    BY <2>1 DEF LexerInv
  <2>2. ASSUME NEW from \in Nat, NEW to \in Nat, skipped' = Append(skipped, Comment(from, to))
        PROVE  skipped' \in Seq([from : Nat, to : Nat])
    <3>1. Comment(from, to) \in [from : Nat, to : Nat]
      BY DEF Comment
    <3>2. QED
      BY <2>2, <3>1, AppendProperties DEF LexerInv
  <2>3. QED
    BY <2>1, <2>2
<1>2. \A t : AsWritten(t) => AsWritten(t)'
  BY SameText
<1>3. ASSUME NEW k \in 1..Len(lexed')
      PROVE  /\ lexed'[k].from \in 1..Len(text) /\ lexed'[k].to \in lexed'[k].from + 1..pos'
             /\ k < Len(lexed') => lexed'[k].to <= lexed'[k + 1].from
             /\ \A t : t = lexed'[k] => AsWritten(t)'
  <2>1. /\ lexed[k].from \in 1..Len(text) /\ lexed[k].to \in lexed[k].from + 1..pos
        /\ k < Len(lexed) => lexed[k].to <= lexed[k + 1].from
        /\ \A t : t = lexed[k] => AsWritten(t)
    BY DEF LexerInv
  <2>2. \A t : t = lexed'[k] => AsWritten(t)'
    BY <1>2, <2>1
  <2>3. pos \in Nat
    BY <1>0 DEF LexerInv
  <2>4. lexed'[k].from \in 1..Len(text) /\ lexed'[k].to \in lexed'[k].from + 1..pos'
    BY <1>0, <2>1, <2>3
  <2>5. QED
    BY <2>1, <2>2, <2>4
<1>4. Ch(pos)' = Ch(pos')
  BY DEF Ch
<1>5. pos' \in 1..Len(text') + 1
  BY <1>0 DEF LexerInv
<1>6. QED
  BY <1>1, <1>3, <1>4, <1>5 DEF LexerInv

\* Where a block comment closes there are two characters.
LEMMA ClosingIs ==
  ASSUME text \in Seq(Characters), NEW i \in Nat, Closings(i) # {}
  PROVE  /\ Min(Closings(i)) \in Closings(i) /\ \A j \in Closings(i) : Min(Closings(i)) <= j
         /\ Min(Closings(i)) >= i /\ Min(Closings(i)) + 1 \in 1..Len(text)
         /\ Ch(Min(Closings(i))) = "star" /\ Ch(Min(Closings(i)) + 1) = "slash"
<1>1. \A j : j \in Closings(i) => j \in Int /\ j >= i /\ Ch(j) = "star" /\ Ch(j + 1) = "slash"
  BY DEF Closings
<1>2. Closings(i) \subseteq Nat
  BY <1>1
<1>3. Min(Closings(i)) \in Closings(i) /\ \A j \in Closings(i) : Min(Closings(i)) <= j
  BY <1>2, MinIsLeast
<1>4. Min(Closings(i)) + 1 \in 1..Len(text)
  BY <1>1, <1>3, CharacterAt
<1>5. QED
  BY <1>1, <1>3, <1>4

LEMMA LexerStep ==
  ASSUME LexerInv, LexerNext
  PROVE  LexerInv'
<1>0. /\ text \in Seq(Characters) /\ pos \in 1..Len(text) + 1 /\ pos \in Nat /\ Len(text) \in Nat
      /\ text' = text /\ lexing = "on"
      /\ DOMAIN text = 1..Len(text) /\ \A i : i \notin 1..Len(text) => Ch(i) = "nul"
  BY CharacterAt, LenProperties DEF LexerInv, LexerNext
<1>1. CASE SkipWhitespace
  <2>1. pos' = FindNot(Blanks, pos) /\ lexed' = lexed /\ skipped' = skipped /\ lexing' = "on"
    BY <1>0, <1>1 DEF SkipWhitespace
  <2>2. "nul" \notin Blanks
    BY DEF Blanks
  <2>3. pos' \in pos..Len(text) + 1
    BY <1>0, <2>1, <2>2, FindNotIs
  <2>4. QED
    BY <1>0, <2>1, <2>3, SkipKeeps
<1>2. CASE SkipLineComment
  <2> DEFINE S == {"lf", "nul"}
             end == Find(S, pos + 2)
  <2>1. /\ Ch(pos) = "slash" /\ Ch(pos + 1) = "slash" /\ lexed' = lexed /\ lexing' = "on"
        /\ pos' = IF Ch(end) = "lf" THEN end + 1 ELSE end
        /\ skipped' = Append(skipped, Comment(pos, end))
    BY <1>0, <1>2 DEF SkipLineComment, OpensComment
  <2>2. pos + 1 \in 1..Len(text) /\ pos + 2 \in 1..Len(text) + 1 /\ "nul" \in S
    BY <1>0, <2>1
  <2> HIDE DEF S
  <2>3. end \in pos + 2..Len(text) + 1
    BY <1>0, <2>2, FindIs
  <2>4. Ch(end) = "lf" => end \in 1..Len(text)
    BY <1>0
  <2>5. pos' \in pos..Len(text) + 1 /\ end \in Nat
    BY <1>0, <2>1, <2>3, <2>4
  <2>6. QED
    BY <1>0, <2>1, <2>5, SkipKeeps
<1>3. CASE SkipBlockComment
  <2> DEFINE end == Min(Closings(pos + 2))
  <2>1. /\ Closings(pos + 2) # {} /\ pos' = end + 2 /\ lexed' = lexed /\ lexing' = "on"
        /\ skipped' = Append(skipped, Comment(pos, pos'))
    BY <1>0, <1>3 DEF SkipBlockComment
  <2>2. pos + 2 \in Nat
    BY <1>0
  <2>3. end >= pos + 2 /\ end + 1 \in 1..Len(text) /\ end \in Nat
    BY <1>0, <2>1, <2>2, ClosingIs
  <2> HIDE DEF end
  <2>4. pos' \in pos..Len(text) + 1 /\ pos' \in Nat
    BY <1>0, <2>1, <2>3
  <2>5. QED
    BY <1>0, <2>1, <2>4, SkipKeeps
<1>4. CASE UnterminatedComment \/ UnterminatedString \/ RefuseCharacter \/ EndOfText
  <2>1. /\ pos' = pos /\ lexed' = lexed /\ skipped' = skipped
        /\ lexing' = "eof" => Ch(pos) = "nul"
    BY <1>4 DEF UnterminatedComment, UnterminatedString, RefuseCharacter, EndOfText, Refuse
  <2>2. pos' \in pos..Len(text) + 1 /\ (lexing' = "eof" => Ch(pos') = "nul")
    BY <1>0, <2>1
  <2>3. QED
    BY <1>0, <2>1, <2>2, SkipKeeps
<1>5. CASE ReadNumber
  <2> DEFINE point == Find({"dot", "nul"}, pos)
             end == FindNot({"digit", "dot"}, pos)
             to == IF point < end THEN FindNot({"digit"}, point + 1) ELSE end
  <2>1. Ch(pos) = "digit" /\ Emit("NUMBER", to)
    BY <1>5 DEF ReadNumber
  <2>2. pos \in 1..Len(text) /\ to \in pos + 1..Len(text) + 1 /\ AsWritten(Token("NUMBER", pos, to))
    BY <1>0, <2>1, NumberAsWritten
  <2> HIDE DEF to
  <2>3. QED
    BY <1>0, <2>1, <2>2, EmitKeeps DEF Types
<1>6. CASE ReadIdentifier
  <2> DEFINE to == FindNot({"letter", "digit"}, pos)
  <2>1. Ch(pos) = "letter" /\ Emit("IDENT", to)
    BY <1>6 DEF ReadIdentifier
  <2>2. pos \in 1..Len(text) /\ to \in pos + 1..Len(text) + 1 /\ AsWritten(Token("IDENT", pos, to))
    BY <1>0, <2>1, WordAsWritten
  <2> HIDE DEF to
  <2>3. QED
    BY <1>0, <2>1, <2>2, EmitKeeps DEF Types
<1>7. CASE ReadString
  <2> DEFINE to == Min(StringEnds) + 1
  <2>1. Ch(pos) = "quote" /\ StringEnds # {} /\ Emit("STRING", to)
    BY <1>7 DEF ReadString
  <2>2. pos \in 1..Len(text) /\ to \in pos + 1..Len(text) + 1 /\ AsWritten(Token("STRING", pos, to))
    BY <1>0, <2>1, StringAsWritten
  <2> HIDE DEF to
  <2>3. QED
    BY <1>0, <2>1, <2>2, EmitKeeps DEF Types
<1>8. CASE ReadOperator
  <2>1. AtToken
    BY <1>8 DEF ReadOperator
  <2>2. \E n \in {1, 2} :
          /\ Emit("OPERATOR", pos + n)
          /\ \/ <<Ch(pos), Ch(pos + 1)>> \in TwoCharacters /\ pos + n = pos + 2
             \/ <<Ch(pos), Ch(pos + 1)>> \notin TwoCharacters /\ pos + n = pos + 1
    BY <1>8 DEF ReadOperator
  <2>3. PICK to \in {pos + 1, pos + 2} :
          /\ Emit("OPERATOR", to)
          /\ \/ <<Ch(pos), Ch(pos + 1)>> \in TwoCharacters /\ to = pos + 2
             \/ <<Ch(pos), Ch(pos + 1)>> \notin TwoCharacters /\ to = pos + 1
    BY <2>2
  <2>4. pos \in 1..Len(text) /\ to \in pos + 1..Len(text) + 1 /\ AsWritten(Token("OPERATOR", pos, to))
    BY <1>0, <2>1, <2>3, OperatorAsWritten
  <2>5. QED
    BY <1>0, <2>3, <2>4, EmitKeeps DEF Types
<1>9. QED
  BY <1>1, <1>2, <1>3, <1>4, <1>5, <1>6, <1>7, <1>8 DEF LexerNext

LEMMA LexerInvHolds == Spec => []LexerInv
<1>1. Init => LexerInv
  <2> SUFFICES ASSUME Init PROVE LexerInv
    OBVIOUS
  <2>1. text \in Seq(Characters) /\ pos = 1 /\ lexed = << >> /\ skipped = << >> /\ lexing = "on"
    BY InitText DEF Init, LexerInit
  <2>2. Len(text) \in Nat
    BY <2>1, LenProperties
  <2>3. QED
    BY <2>1, <2>2 DEF LexerInv
<1>2. LexerInv /\ [Next]_vars => LexerInv'
  <2> SUFFICES ASSUME LexerInv, [Next]_vars PROVE LexerInv'
    OBVIOUS
  <2>1. CASE resolving = "resolved" /\ LexerNext
    BY <2>1, LexerStep
  <2>2. CASE UNCHANGED <<text, lexerVars>>
    <3>1. text' = text /\ lexed' = lexed /\ pos' = pos /\ skipped' = skipped /\ lexing' = lexing
      BY <2>2 DEF lexerVars
    <3>2. pos' \in pos..Len(text) + 1 /\ (lexing' = "eof" => Ch(pos') = "nul")
      <4>1. Len(text) \in Nat /\ pos \in 1..Len(text) + 1 /\ (lexing = "eof" => Ch(pos) = "nul")
        BY LenProperties DEF LexerInv
      <4>2. QED
        BY <3>1, <4>1
    <3>3. QED
      BY <3>1, <3>2, SkipKeeps
  <2>3. QED
    BY <2>1, <2>2 DEF Next, MetadataNext, vars
<1>3. QED
  BY <1>1, <1>2, PTL DEF Spec

(***************************************************************************)
(* What the lexer returns is what is written: a number, a name and an      *)
(* operator go on as far as they can, a string literal's value, quoted     *)
(* again, is its text (lexer.go's nextToken, readNumber, readIdentifier    *)
(* and readString), and the end of input is the end of the text or a 0.    *)
(***************************************************************************)
THEOREM TokensSayWhatIsWritten == Spec => []TokensReadAsWritten
<1>1. LexerInv => TokensReadAsWritten
  <2> SUFFICES ASSUME LexerInv PROVE TokensReadAsWritten
    OBVIOUS
  <2>1. /\ text \in Seq(Characters) /\ Len(text) \in Nat /\ DOMAIN text = 1..Len(text)
        /\ DOMAIN lexed = 1..Len(lexed) /\ Len(lexed) \in Nat
        /\ \A i \in 1..Len(text) : Ch(i) = text[i]
    BY CharacterAt, LenProperties DEF LexerInv
  <2>2. ASSUME NEW k \in DOMAIN lexed
        PROVE  /\ lexed[k].from < lexed[k].to
               /\ k < Len(lexed) => lexed[k].to <= lexed[k + 1].from
               /\ AsWritten(lexed[k])
    <3>1. /\ lexed[k].from \in 1..Len(text) /\ lexed[k].to \in lexed[k].from + 1..pos
          /\ k < Len(lexed) => lexed[k].to <= lexed[k + 1].from
          /\ AsWritten(lexed[k])
      BY <2>1 DEF LexerInv
    <3>2. QED
      BY <2>1, <3>1
  <2>3. lexing = "eof" => pos = Len(text) + 1 \/ text[pos] = "nul"
    BY <2>1 DEF LexerInv
  <2>4. QED
    BY <2>2, <2>3 DEF TokensReadAsWritten
<1>2. QED
  BY <1>1, LexerInvHolds, PTL

-----------------------------------------------------------------------------
(***************************************************************************)
(* The leading comments that a text has for the metadata reader, said of   *)
(* the text: each opens where the blanks behind the one before it end, and *)
(* ends as leadingComments finds its end.                                  *)
(***************************************************************************)
Spans == [from : Nat, to : Nat]

StartsAt(o, second) == Has(o, "slash") /\ Has(o + 1, second)
ClosesAfter(o) == {j \in o + 2..Len(text) : Has(j, "star") /\ Has(j + 1, "slash")}

CommentAt(c, o) ==
  /\ c.from = o + 2
  /\ \/ StartsAt(o, "slash") /\ c.to = EndOfLine(o + 2)
     \/ StartsAt(o, "star") /\ ClosesAfter(o) # {} /\ c.to = Min(ClosesAfter(o))

\* Where the reader goes on behind a comment, and behind the first i of them.
Behind(c) == IF text[c.from - 1] = "star" THEN c.to + 2 ELSE c.to
Resumes(cs, i) == IF i = 0 THEN 1 ELSE Behind(cs[i])

Gap(i, j) == \A l \in i..j - 1 : text[l] \in Spaces
OpensBehind(r, o) == o \in r..Len(text) /\ Gap(r, o)

Leads(cs) ==
  \A i \in 1..Len(cs) :
    OpensBehind(Resumes(cs, i - 1), cs[i].from - 2) /\ CommentAt(cs[i], cs[i].from - 2)

StopsAt(a) ==
  a \in 1..Len(text) =>
    /\ text[a] \notin Spaces
    /\ ~StartsAt(a, "slash")
    /\ ~(StartsAt(a, "star") /\ ClosesAfter(a) # {})

EndsBehind(r) == \E a \in r..Len(text) + 1 : Gap(r, a) /\ StopsAt(a)

\* These are all the leading comments.
Whole(cs) == cs \in Seq(Spans) /\ Leads(cs) /\ EndsBehind(Resumes(cs, Len(cs)))

LEMMA EndOfLineIs ==
  ASSUME text \in Seq(Characters), NEW i \in 1..Len(text) + 1
  PROVE  /\ EndOfLine(i) \in i..Len(text) + 1
         /\ EndOfLine(i) # Len(text) + 1 => text[EndOfLine(i)] \in {"lf", "cr"}
         /\ \A j \in i..Len(text) : j < EndOfLine(i) => text[j] \notin {"lf", "cr"}
<1> DEFINE P == {j \in i..Len(text) + 1 : j = Len(text) + 1 \/ text[j] \in {"lf", "cr"}}
<1>1. Len(text) \in Nat
  BY CharacterAt
<1>2. P \subseteq Nat /\ Len(text) + 1 \in P /\ Len(text) + 1 >= i /\ i \in Nat
  BY <1>1
<1>3. FirstOf(P, i) \in P /\ \A k \in P : k >= i => FirstOf(P, i) <= k
  <2> HIDE DEF P
  <2>1. QED
    BY <1>2, FirstOfIs
<1>4. EndOfLine(i) = FirstOf(P, i)
  BY DEF EndOfLine
<1>5. \A j \in i..Len(text) + 1 : j < FirstOf(P, i) => j \notin P
  BY <1>1, <1>3
<1>6. QED
  BY <1>1, <1>3, <1>4, <1>5

LEMMA ClosesAfterIs ==
  ASSUME text \in Seq(Characters), NEW o \in Nat, ClosesAfter(o) # {}
  PROVE  /\ Min(ClosesAfter(o)) \in o + 2..Len(text) - 1
         /\ text[Min(ClosesAfter(o))] = "star" /\ text[Min(ClosesAfter(o)) + 1] = "slash"
         /\ \A j \in ClosesAfter(o) : Min(ClosesAfter(o)) <= j
<1>1. Len(text) \in Nat /\ DOMAIN text = 1..Len(text)
  BY CharacterAt
<1>2. \A j \in ClosesAfter(o) :
        j \in o + 2..Len(text) - 1 /\ text[j] = "star" /\ text[j + 1] = "slash"
  BY <1>1 DEF ClosesAfter, Has
<1>3. ClosesAfter(o) \subseteq Nat
  BY <1>1, <1>2
<1>4. Min(ClosesAfter(o)) \in ClosesAfter(o) /\ \A j \in ClosesAfter(o) : Min(ClosesAfter(o)) <= j
  BY <1>3, MinIsLeast
<1>5. QED
  BY <1>2, <1>4

LEMMA CommentIs ==
  ASSUME text \in Seq(Characters), NEW o \in 1..Len(text), NEW c, CommentAt(c, o)
  PROVE  /\ c.from = o + 2 /\ c.to \in o + 2..Len(text) + 1
         /\ Behind(c) \in o + 2..Len(text) + 1
         /\ text[o] = "slash" /\ text[o] \notin Spaces
         /\ o + 1 \in 1..Len(text) /\ text[o + 1] \in {"slash", "star"}
<1>1. Len(text) \in Nat /\ DOMAIN text = 1..Len(text)
  BY CharacterAt
<1>2. text[o] = "slash" /\ o + 1 \in 1..Len(text) /\ text[o + 1] \in {"slash", "star"} /\ c.from = o + 2
  BY <1>1 DEF CommentAt, StartsAt, Has
<1>3. text[o] \notin Spaces
  BY <1>2 DEF Spaces, Blanks
<1>4. text[c.from - 1] = text[o + 1]
  <2>1. c.from - 1 = o + 1
    BY <1>2
  <2>2. QED
    BY <2>1
<1>5. CASE StartsAt(o, "slash") /\ c.to = EndOfLine(o + 2)
  <2>1. o + 2 \in 1..Len(text) + 1 /\ text[o + 1] = "slash"
    BY <1>1, <1>2, <1>5 DEF StartsAt, Has
  <2>2. c.to \in o + 2..Len(text) + 1
    BY <1>5, <2>1, EndOfLineIs
  <2>3. Behind(c) = c.to
    BY <1>4, <2>1 DEF Behind
  <2>4. QED
    BY <1>2, <1>3, <2>2, <2>3
<1>6. CASE StartsAt(o, "star") /\ ClosesAfter(o) # {} /\ c.to = Min(ClosesAfter(o))
  <2>1. text[o + 1] = "star"
    BY <1>6 DEF StartsAt, Has
  <2>2. c.to \in o + 2..Len(text) - 1
    BY <1>1, <1>6, ClosesAfterIs
  <2>3. Behind(c) = c.to + 2
    BY <1>4, <2>1 DEF Behind
  <2>4. QED
    BY <1>1, <1>2, <1>3, <2>2, <2>3
<1>7. QED
  BY <1>5, <1>6 DEF CommentAt

\* What is not blank is first at one place.
LEMMA OnePlace ==
  ASSUME NEW r \in Nat, NEW o \in Nat, NEW a \in Nat, o >= r, a >= r, Gap(r, o), Gap(r, a),
         o \in 1..Len(text) => text[o] \notin Spaces,
         a \in 1..Len(text) => text[a] \notin Spaces,
         r >= 1, o <= Len(text) + 1, a <= Len(text) + 1, Len(text) \in Nat
  PROVE  o = a
<1>1. ~(o < a)
  BY DEF Gap
<1>2. ~(a < o)
  BY DEF Gap
<1>3. QED
  BY <1>1, <1>2

LEMMA ResumesIn ==
  ASSUME text \in Seq(Characters), NEW cs \in Seq(Spans), Leads(cs), NEW i \in 0..Len(cs)
  PROVE  Resumes(cs, i) \in 1..Len(text) + 1
<1>0. Len(text) \in Nat /\ Len(cs) \in Nat
  BY CharacterAt, LenProperties
<1> DEFINE T == {k \in 0..Len(cs) : Resumes(cs, k) \in 1..Len(text) + 1}
<1>1. 0 \in T
  BY <1>0 DEF Resumes
<1>2. ASSUME NEW k \in Nat, k < Len(cs), k \in T PROVE k + 1 \in T
  <2> DEFINE n == k + 1
             o == cs[n].from - 2
  <2>1. n \in 1..Len(cs) /\ n - 1 = k /\ n \in 0..Len(cs) /\ n # 0
    BY <1>0, <1>2
  <2> HIDE DEF n
  <2>2. OpensBehind(Resumes(cs, k), o) /\ CommentAt(cs[n], o)
    BY <2>1 DEF Leads
  <2>3. Resumes(cs, k) \in 1..Len(text) + 1
    BY <1>2
  <2>4. o \in 1..Len(text)
    BY <1>0, <2>2, <2>3 DEF OpensBehind
  <2> HIDE DEF o
  <2>5. Behind(cs[n]) \in o + 2..Len(text) + 1
    BY <2>2, <2>4, CommentIs
  <2>6. Resumes(cs, n) = Behind(cs[n])
    BY <2>1 DEF Resumes
  <2>7. n \in T
    BY <1>0, <2>1, <2>4, <2>5, <2>6
  <2>8. QED
    BY <2>7 DEF n
<1>3. 0..Len(cs) \subseteq T
  <2> HIDE DEF T
  <2>1. QED
    BY <1>0, <1>1, <1>2, CountUp
<1>4. QED
  BY <1>3

-----------------------------------------------------------------------------
(***************************************************************************)
(* What the directives of a list of comments say, and the table they give. *)
(***************************************************************************)
GivenIn(cs, k) == {GivenBy(cs[i])[k] : i \in 1..Len(cs)} \ {"unset"}
NamesIn(cs, k) == GivenIn(cs, k) \ {NoValue}
WrongIn(cs) ==
  \/ \E i \in 1..Len(cs) : IsMalformed(cs[i])
  \/ \E k \in Keys : \E v, w \in GivenIn(cs, k) : v # w

PossibleFrom(cs) ==
  IF WrongIn(cs) THEN {"directive_error"}
  ELSE IF NamesIn(cs, "base_table") # {} THEN NamesIn(cs, "base_table")
  ELSE IF NamesIn(cs, "table") # {} THEN NamesIn(cs, "table") ELSE OfSidecar

\* ps is what the directives of the first j comments merge to.
Merged(ps, cs, j) ==
  /\ ps = [k \in Keys |-> ps[k]]
  /\ \A i \in 1..j : ~IsMalformed(cs[i])
  /\ \A i \in 1..j, k \in Keys : GivenBy(cs[i])[k] \in {"unset", ps[k]}
  /\ \A k \in Keys : ps[k] # "unset" => \E i \in 1..j : GivenBy(cs[i])[k] = ps[k]

\* us are the comments of cs behind the first j.
LeftOf(us, cs, j) ==
  us \in Seq(Spans) /\ Len(us) = Len(cs) - j /\ \A i \in 1..Len(us) : us[i] = cs[j + i]

MetadataInv ==
  /\ at \in 1..Len(text) + 1 /\ comments \in Seq(Spans)
  /\ \A cs, a : cs = comments /\ a = at =>
       /\ Leads(cs) /\ Resumes(cs, Len(cs)) <= a /\ Gap(Resumes(cs, Len(cs)), a)
       /\ resolving # "comments" => StopsAt(a)
  /\ resolving = "comments" => params = NoParams
  /\ resolving = "directives" =>
       \A us, cs, ps : us = unread /\ cs = comments /\ ps = params =>
         \E j \in 0..Len(cs) : LeftOf(us, cs, j) /\ Merged(ps, cs, j)
  /\ resolving = "sidecar" =>
       /\ path
       /\ \A cs, ps : cs = comments /\ ps = params =>
            Merged(ps, cs, Len(cs)) /\ ~Named(BaseTable(ps))
  /\ resolving = "resolved" => \A cs : cs = comments => answer \in PossibleFrom(cs)

\* Text, path and sidecars never change, and so neither does what is said of them.
LEMMA SameReading ==
  ASSUME text' = text
  PROVE  /\ \A cs : Leads(cs) => Leads(cs)'
         /\ \A a : StopsAt(a) => StopsAt(a)'
         /\ \A i, j : Gap(i, j) => Gap(i, j)'
         /\ \A cs, i : Resumes(cs, i)' = Resumes(cs, i)
         /\ \A ps, cs, j : Merged(ps, cs, j) => Merged(ps, cs, j)'
         /\ \A cs, k : GivenIn(cs, k)' = GivenIn(cs, k)
         /\ \A c : IsMalformed(c)' <=> IsMalformed(c)
<1>1. \A i, c : Has(i, c)' <=> Has(i, c)
  BY DEF Has
<1>2. \A i : EndOfLine(i)' = EndOfLine(i)
  BY DEF EndOfLine
<1>3. \A o, s : StartsAt(o, s)' <=> StartsAt(o, s)
  BY DEF StartsAt, Has
<1>4. \A o : ClosesAfter(o)' = ClosesAfter(o)
  BY <1>1 DEF ClosesAfter
<1>5. \A c, o : CommentAt(c, o)' <=> CommentAt(c, o)
  BY <1>2, <1>3, <1>4 DEF CommentAt
<1>6. \A c : Behind(c)' = Behind(c)
  BY DEF Behind
<1>7. \A cs, i : Resumes(cs, i)' = Resumes(cs, i)
  BY <1>6 DEF Resumes
<1>8. \A i, j : Gap(i, j)' <=> Gap(i, j)
  BY DEF Gap
<1>9. \A cs : Leads(cs)' <=> Leads(cs)
  BY <1>5, <1>7, <1>8 DEF Leads, OpensBehind
<1>10. \A a : StopsAt(a)' <=> StopsAt(a)
  BY <1>3, <1>4 DEF StopsAt
<1>12. \A c : NonSpaces(c)' = NonSpaces(c)
  BY DEF NonSpaces
<1>13. \A c : /\ IsDirective(c)' <=> IsDirective(c)
              /\ IsMalformed(c)' <=> IsMalformed(c)
              /\ GivenBy(c)' = GivenBy(c)
  BY <1>12 DEF IsDirective, IsMalformed, GivenBy
<1>14. \A ps, cs, j : Merged(ps, cs, j)' <=> Merged(ps, cs, j)
  BY <1>13 DEF Merged
<1>15. \A cs, k : GivenIn(cs, k)' = GivenIn(cs, k)
  BY <1>13 DEF GivenIn
<1>16. QED
  BY <1>7, <1>8, <1>9, <1>10, <1>13, <1>14, <1>15

LEMMA SameAnswer ==
  ASSUME text' = text, sidecars' = sidecars, path' = path
  PROVE  \A cs : PossibleFrom(cs)' = PossibleFrom(cs)
<1>1. FirstSidecar' = FirstSidecar
  BY DEF FirstSidecar, Found, Absent, Sidecar, NoEntries
<1>2. \A e, k : Spellings(e, k)' = Spellings(e, k)
  BY DEF Spellings
<1>3. \A k : InSidecar(k)' = InSidecar(k)
  BY <1>1, <1>2 DEF InSidecar
<1>4. \A k : MayLack(k)' <=> MayLack(k)
  BY <1>3 DEF MayLack
<1>5. OfSidecar' = OfSidecar
  BY <1>1, <1>3, <1>4 DEF OfSidecar
<1>6. \A cs : WrongIn(cs)' <=> WrongIn(cs)
  BY SameReading DEF WrongIn
<1>7. \A cs, k : NamesIn(cs, k)' = NamesIn(cs, k)
  BY SameReading DEF NamesIn
<1>8. QED
  BY <1>5, <1>6, <1>7 DEF PossibleFrom

LEMMA FoundIs == Found \in 1..3
<1> DEFINE P == {i \in 1..3 : i = 3 \/ sidecars[i].state # "absent"}
<1>1. P \subseteq Nat /\ 3 \in P /\ 3 >= 1
  OBVIOUS
<1>2. FirstOf(P, 1) \in P
  <2> HIDE DEF P
  <2>1. QED
    BY <1>1, FirstOfIs
<1>3. Found = FirstOf(P, 1)
  BY DEF Found
<1>4. QED
  BY <1>2, <1>3

-----------------------------------------------------------------------------
(***************************************************************************)
(* Every answer of the metadata reader is one the file may have.           *)
(***************************************************************************)
LEMMA WholeNow ==
  ASSUME text \in Seq(Characters), MetadataInv, resolving # "comments"
  PROVE  Whole(comments)
<1>1. PICK cs, a : cs = comments /\ a = at
  OBVIOUS
<1>2. /\ Leads(cs) /\ Resumes(cs, Len(cs)) <= a /\ Gap(Resumes(cs, Len(cs)), a) /\ StopsAt(a)
      /\ a \in 1..Len(text) + 1 /\ cs \in Seq(Spans)
  BY <1>1 DEF MetadataInv
<1>3. Len(text) \in Nat /\ Len(cs) \in Nat
  BY <1>2, CharacterAt, LenProperties
<1>4. Resumes(cs, Len(cs)) \in 1..Len(text) + 1
  <2>1. Len(cs) \in 0..Len(cs)
    BY <1>3
  <2>2. QED
    BY <1>2, <2>1, ResumesIn
<1>5. a \in Resumes(cs, Len(cs))..Len(text) + 1
  BY <1>2, <1>3, <1>4
<1>6. Whole(cs)
  BY <1>2, <1>5 DEF Whole, EndsBehind
<1>7. QED
  BY <1>1, <1>6

\* What the directives of all the comments merge to is what they give.
LEMMA MergedAll ==
  ASSUME NEW cs, NEW ps, Merged(ps, cs, Len(cs))
  PROVE  /\ ~WrongIn(cs)
         /\ \A k \in Keys : GivenIn(cs, k) = {ps[k]} \ {"unset"}
<1>1. \A k \in Keys : GivenIn(cs, k) = {ps[k]} \ {"unset"}
  BY DEF GivenIn, Merged
<1>2. ~WrongIn(cs)
  BY <1>1 DEF WrongIn, Merged
<1>3. QED
  BY <1>1, <1>2

LEMMA FailsRightly ==
  ASSUME NEW cs, NEW j \in 0..Len(cs), NEW us, LeftOf(us, cs, j), NEW ps, Merged(ps, cs, j),
         Len(cs) \in Nat, us # << >>,
         \/ IsMalformed(us[1])
         \/ \E k \in Keys : GivenBy(us[1])[k] # "unset" /\ ps[k] \notin {"unset", GivenBy(us[1])[k]}
  PROVE  WrongIn(cs)
<1>1. 1 \in 1..Len(us) /\ us[1] = cs[j + 1] /\ j + 1 \in 1..Len(cs)
  <2>1. Len(us) \in Nat /\ Len(us) # 0 /\ Len(us) = Len(cs) - j
    BY EmptySeq, LenProperties DEF LeftOf
  <2>2. 1 \in 1..Len(us) /\ j + 1 \in 1..Len(cs)
    BY <2>1
  <2>3. QED
    BY <2>2 DEF LeftOf
<1>2. CASE IsMalformed(us[1])
  BY <1>1, <1>2 DEF WrongIn
<1>3. ASSUME NEW k \in Keys, GivenBy(us[1])[k] # "unset", ps[k] \notin {"unset", GivenBy(us[1])[k]}
      PROVE  WrongIn(cs)
  <2>1. PICK i \in 1..j : GivenBy(cs[i])[k] = ps[k]
    BY <1>3 DEF Merged
  <2>2. i \in 1..Len(cs)
    OBVIOUS
  <2>3. ps[k] \in GivenIn(cs, k)
    BY <1>3, <2>1, <2>2 DEF GivenIn
  <2>4. GivenBy(us[1])[k] \in GivenIn(cs, k)
    BY <1>1, <1>3 DEF GivenIn
  <2>5. QED
    BY <1>3, <2>3, <2>4 DEF WrongIn
<1>4. QED
  BY <1>2, <1>3

LEMMA MergesOne ==
  ASSUME NEW cs, Len(cs) \in Nat, NEW j \in 0..Len(cs), NEW us, LeftOf(us, cs, j), us # << >>,
         NEW ps, Merged(ps, cs, j), ~IsMalformed(us[1]),
         \A k \in Keys : GivenBy(us[1])[k] # "unset" => ps[k] \in {"unset", GivenBy(us[1])[k]},
         NEW qs, qs = MergedWith(ps, us[1])
  PROVE  j + 1 \in 0..Len(cs) /\ LeftOf(Tail(us), cs, j + 1) /\ Merged(qs, cs, j + 1)
<1> DEFINE n == j + 1
           c == us[1]
<1>1. us \in Seq(Spans) /\ Len(us) \in Nat /\ Len(us) # 0 /\ Len(us) = Len(cs) - j
  BY EmptySeq, LenProperties DEF LeftOf
<1>2. c = cs[n] /\ n \in 1..Len(cs) /\ n \in 0..Len(cs)
  <2>1. 1 \in 1..Len(us)
    BY <1>1
  <2>2. us[1] = cs[j + 1]
    BY <2>1 DEF LeftOf
  <2>3. QED
    BY <1>1, <2>2
<1>3. LeftOf(Tail(us), cs, n)
  <2>1. /\ Tail(us) \in Seq(Spans) /\ Len(Tail(us)) = Len(us) - 1
        /\ \A i \in 1..Len(Tail(us)) : Tail(us)[i] = us[i + 1]
    BY <1>1, HeadTailProperties
  <2>2. ASSUME NEW i \in 1..Len(Tail(us)) PROVE Tail(us)[i] = cs[n + i]
    <3>1. i + 1 \in 1..Len(us) /\ j + (i + 1) = n + i
      BY <1>1, <2>1
    <3>2. us[i + 1] = cs[j + (i + 1)]
      BY <3>1 DEF LeftOf
    <3>3. QED
      BY <2>1, <3>1, <3>2
  <2>3. Len(Tail(us)) = Len(cs) - n
    BY <1>1, <2>1
  <2>4. QED
    BY <2>1, <2>2, <2>3 DEF LeftOf
<1> HIDE DEF n, c
<1>4. Merged(qs, cs, n)
  <2>1. qs = [k \in Keys |-> IF GivenBy(c)[k] = "unset" THEN ps[k] ELSE GivenBy(c)[k]]
    BY DEF MergedWith, c
  <2>2. \A k \in Keys : GivenBy(c)[k] # "unset" => ps[k] \in {"unset", GivenBy(c)[k]}
    BY DEF c
  <2>3. \A k \in Keys : /\ GivenBy(c)[k] \in {"unset", qs[k]}
                        /\ ps[k] # "unset" => qs[k] = ps[k]
                        /\ qs[k] = ps[k] \/ qs[k] = GivenBy(c)[k]
    BY <2>1, <2>2
  <2>4. qs = [k \in Keys |-> qs[k]]
    BY <2>1
  <2>5. /\ \A i \in 1..n : i \in 1..j \/ i = n
        /\ \A i \in 1..j : i \in 1..n
        /\ n \in 1..n
    BY <1>2 DEF n
  <2>6. ASSUME NEW i \in 1..n PROVE ~IsMalformed(cs[i])
    BY <1>2, <2>5 DEF Merged, c
  <2>7. ASSUME NEW i \in 1..n, NEW k \in Keys PROVE GivenBy(cs[i])[k] \in {"unset", qs[k]}
    <3>1. CASE i = n
      BY <1>2, <2>3, <3>1
    <3>2. CASE i \in 1..j
      <4>1. GivenBy(cs[i])[k] \in {"unset", ps[k]}
        BY <3>2 DEF Merged
      <4>2. QED
        BY <2>3, <4>1
    <3>3. QED
      BY <2>5, <3>1, <3>2
  <2>8. ASSUME NEW k \in Keys, qs[k] # "unset" PROVE \E i \in 1..n : GivenBy(cs[i])[k] = qs[k]
    <3>1. CASE qs[k] = ps[k]
      <4>1. PICK i \in 1..j : GivenBy(cs[i])[k] = ps[k]
        BY <2>8, <3>1 DEF Merged
      <4>2. QED
        BY <2>5, <3>1, <4>1
    <3>2. CASE qs[k] = GivenBy(c)[k]
      BY <1>2, <2>5, <3>2
    <3>3. QED
      BY <2>3, <3>1, <3>2
  <2>9. QED
    BY <2>4, <2>6, <2>7, <2>8 DEF Merged
<1>5. QED
  BY <1>2, <1>3, <1>4 DEF n

LEMMA KeysAre == "base_table" \in Keys /\ "table" \in Keys
  BY DEF Keys

\* The table that the directives name, and that they name none.
LEMMA NamesRightly ==
  ASSUME NEW cs, NEW ps, Merged(ps, cs, Len(cs))
  PROVE  /\ Named(BaseTable(ps)) => BaseTable(ps) \in PossibleFrom(cs)
         /\ ~Named(BaseTable(ps)) => PossibleFrom(cs) = OfSidecar
<1>1. ~WrongIn(cs) /\ \A k \in Keys : GivenIn(cs, k) = {ps[k]} \ {"unset"}
  BY MergedAll
<1>2. \A k \in Keys : NamesIn(cs, k) = IF Named(ps[k]) THEN {ps[k]} ELSE {}
  BY <1>1 DEF NamesIn, Named
<1>3. QED
  BY <1>1, <1>2, KeysAre DEF PossibleFrom, BaseTable

LEMMA SidecarRead ==
  ASSUME path, Found < 3,
         sidecars[Found].state = "object",
         \A r \in RawKeys : sidecars[Found].entries[r] # "object",
         NEW ps, DecodedAs(sidecars[Found].entries, ps)
  PROVE  (IF Named(BaseTable(ps)) THEN BaseTable(ps) ELSE "missing") \in OfSidecar
<1>1. FirstSidecar = sidecars[Found]
  BY FoundIs DEF FirstSidecar
<1> DEFINE e == FirstSidecar.entries
<1>2. /\ DecodedAs(e, ps)
      /\ ~(FirstSidecar.state = "broken" \/ \E r \in RawKeys : e[r] = "object")
  BY <1>1
<1>3. ASSUME NEW k \in Keys
      PROVE  IF Named(ps[k]) THEN ps[k] \in InSidecar(k) \ {NoValue} ELSE MayLack(k)
  <2> HIDE DEF e
  <2>1. CASE Spellings(e, k) = {}
    <3>1. ps[k] = "unset" /\ InSidecar(k) = {}
      BY <1>2, <2>1 DEF DecodedAs, InSidecar, e
    <3>2. QED
      BY <3>1 DEF Named, MayLack
  <2>2. CASE Spellings(e, k) # {}
    <3>1. PICK r \in Spellings(e, k) : ps[k] = e[r]
      BY <1>2, <2>2 DEF DecodedAs
    <3>2. ps[k] \in InSidecar(k) /\ ps[k] # "unset"
      BY <3>1 DEF InSidecar, Spellings, e
    <3>3. QED
      BY <3>2 DEF Named, MayLack
  <2>3. QED
    BY <2>1, <2>2
<1>4. QED
  BY <1>2, <1>3, KeysAre DEF OfSidecar, BaseTable

LEMMA SidecarBroken ==
  ASSUME path, Found < 3,
         sidecars[Found].state = "broken" \/ \E r \in RawKeys : sidecars[Found].entries[r] = "object"
  PROVE  "sidecar_error" \in OfSidecar
<1>1. FirstSidecar = sidecars[Found]
  BY FoundIs DEF FirstSidecar
<1>2. QED
  BY <1>1 DEF OfSidecar

LEMMA SidecarMissing ==
  ASSUME ~path \/ Found = 3
  PROVE  "missing" \in OfSidecar
<1>1. FirstSidecar.state = "absent" /\ FirstSidecar.entries = NoEntries
  BY DEF FirstSidecar, Absent, Sidecar
<1>2. \A r \in RawKeys : NoEntries[r] = "unset"
  BY DEF NoEntries
<1>3. \A k : Spellings(NoEntries, k) = {}
  BY <1>2 DEF Spellings
<1>4. \A k : InSidecar(k) = {} /\ MayLack(k)
  BY <1>1, <1>3 DEF InSidecar, MayLack
<1>5. QED
  BY <1>1, <1>2, <1>4 DEF OfSidecar

LEMMA LeadsGrows ==
  ASSUME text \in Seq(Characters), NEW cs \in Seq(Spans), Leads(cs), NEW o \in 1..Len(text),
         Resumes(cs, Len(cs)) <= o, Gap(Resumes(cs, Len(cs)), o),
         NEW c \in Spans, CommentAt(c, o), NEW ds, ds = Append(cs, c)
  PROVE  /\ ds \in Seq(Spans) /\ Leads(ds) /\ Resumes(ds, Len(ds)) = Behind(c)
         /\ Behind(c) \in 1..Len(text) + 1
<1>1. /\ Len(text) \in Nat /\ Len(cs) \in Nat /\ ds \in Seq(Spans) /\ Len(ds) = Len(cs) + 1
      /\ ds[Len(cs) + 1] = c /\ \A k \in 1..Len(cs) : ds[k] = cs[k]
  BY CharacterAt, LenProperties, AppendProperties
<1>2. \A k \in 0..Len(cs) : Resumes(ds, k) = Resumes(cs, k)
  BY <1>1 DEF Resumes
<1>3. c.from - 2 = o /\ Behind(c) \in 1..Len(text) + 1
  BY <1>1, CommentIs
<1>4. OpensBehind(Resumes(cs, Len(cs)), o)
  <2>1. Len(cs) \in 0..Len(cs)
    BY <1>1
  <2>2. Resumes(cs, Len(cs)) \in 1..Len(text) + 1
    BY <2>1, ResumesIn
  <2>3. QED
    BY <1>1, <2>2 DEF OpensBehind
<1>5. ASSUME NEW i \in 1..Len(ds)
      PROVE  OpensBehind(Resumes(ds, i - 1), ds[i].from - 2) /\ CommentAt(ds[i], ds[i].from - 2)
  <2>1. CASE i = Len(cs) + 1
    <3>1. ds[i] = c /\ i - 1 = Len(cs) /\ Resumes(ds, i - 1) = Resumes(cs, Len(cs))
      BY <1>1, <1>2, <2>1
    <3>2. QED
      BY <1>3, <1>4, <3>1
  <2>2. CASE i # Len(cs) + 1
    <3>1. i \in 1..Len(cs) /\ i - 1 \in 0..Len(cs)
      BY <1>1, <2>2
    <3>2. ds[i] = cs[i] /\ Resumes(ds, i - 1) = Resumes(cs, i - 1)
      BY <1>1, <1>2, <3>1
    <3>3. QED
      BY <3>1, <3>2 DEF Leads
  <2>3. QED
    BY <2>1, <2>2
<1>6. Resumes(ds, Len(ds)) = Behind(c)
  BY <1>1 DEF Resumes
<1>7. QED
  BY <1>1, <1>3, <1>5, <1>6 DEF Leads

\* Behind nothing, the reader is where the text begins.
LEMMA LeadsNothing ==
  ASSUME NEW cs, cs = << >>
  PROVE  cs \in Seq(Spans) /\ Leads(cs) /\ Len(cs) = 0 /\ Resumes(cs, Len(cs)) = 1 /\ Gap(1, 1)
<1>1. cs \in Seq(Spans) /\ Len(cs) = 0
  BY EmptySeq
<1>2. QED
  BY <1>1 DEF Leads, Resumes, Gap

\* A step that gives an answer the file may have.
LEMMA AnswerKeeps ==
  ASSUME text \in Seq(Characters), MetadataInv, text' = text, resolving \in {"directives", "sidecar"},
         NEW z, Answer(z), z \in PossibleFrom(comments)
  PROVE  MetadataInv'
<1>1. /\ path' = path /\ sidecars' = sidecars /\ answer' = z /\ resolving' = "resolved"
      /\ at' = at /\ comments' = comments
  BY DEF Answer
<1>2. \A cs, a : cs = comments' /\ a = at' =>
        /\ Leads(cs)' /\ Resumes(cs, Len(cs))' <= a /\ Gap(Resumes(cs, Len(cs)), a)'
        /\ StopsAt(a)'
  BY <1>1, SameReading DEF MetadataInv
<1>3. \A cs : cs = comments' => answer' \in PossibleFrom(cs)'
  BY <1>1, SameAnswer
<1>4. at' \in 1..Len(text') + 1 /\ comments' \in Seq(Spans)
  BY <1>1 DEF MetadataInv
<1>5. QED
  BY <1>1, <1>2, <1>3, <1>4 DEF MetadataInv, Spans

\* A step that reads on in the comments.
LEMMA ReadingKeeps ==
  ASSUME MetadataInv, text' = text, resolving = "comments", resolving' = "comments",
         UNCHANGED <<path, sidecars, params, answer>>,
         NEW cs \in Seq(Spans), cs = comments', NEW a \in 1..Len(text) + 1, a = at',
         Leads(cs), Resumes(cs, Len(cs)) <= a, Gap(Resumes(cs, Len(cs)), a)
  PROVE  MetadataInv'
<1>1. \A ds, b : ds = comments' /\ b = at' =>
        Leads(ds)' /\ Resumes(ds, Len(ds))' <= b /\ Gap(Resumes(ds, Len(ds)), b)'
  BY SameReading
<1>3. comments' \in Seq(Spans) /\ at' \in 1..Len(text') + 1
  OBVIOUS
<1>4. params' = NoParams
  BY DEF MetadataInv
<1>6. QED
  BY <1>1, <1>3, <1>4 DEF MetadataInv

LEMMA TakeSpacesKeeps ==
  ASSUME text \in Seq(Characters), MetadataInv, TakeSpaces, text' = text
  PROVE  MetadataInv'
<1>1. PICK cs, a : cs = comments /\ a = at
  OBVIOUS
<1>2. /\ Leads(cs) /\ Resumes(cs, Len(cs)) <= a /\ Gap(Resumes(cs, Len(cs)), a)
      /\ a \in 1..Len(text) + 1 /\ cs \in Seq(Spans)
  BY <1>1 DEF MetadataInv
<1>3. Len(text) \in Nat /\ Len(cs) \in 0..Len(cs)
  BY <1>2, CharacterAt, LenProperties
<1> DEFINE P == {j \in a..Len(text) + 1 : j = Len(text) + 1 \/ text[j] \notin Spaces}
           b == FirstOf(P, a)
<1>4. /\ resolving = "comments" /\ resolving' = resolving /\ comments' = comments /\ at' = b
      /\ UNCHANGED <<path, sidecars, params, answer>>
  BY <1>1 DEF TakeSpaces, Reading
<1>5. P \subseteq Nat /\ Len(text) + 1 \in P /\ Len(text) + 1 >= a /\ a \in Nat
  BY <1>2, <1>3
<1>6. b \in P /\ \A k \in P : k >= a => b <= k
  <2> HIDE DEF P
  <2>1. QED
    BY <1>5, FirstOfIs
<1>7. b \in a..Len(text) + 1 /\ \A l \in a..b - 1 : text[l] \in Spaces
  <2> HIDE DEF b
  <2>1. b \in a..Len(text) + 1
    BY <1>6
  <2>2. ASSUME NEW l \in a..b - 1, text[l] \notin Spaces PROVE FALSE
    <3>1. l \in P /\ l >= a /\ ~(b <= l)
      BY <1>2, <1>3, <2>1, <2>2
    <3>2. QED
      BY <1>6, <3>1
  <2>3. QED
    BY <2>1, <2>2
<1> HIDE DEF b, P
<1>8. Resumes(cs, Len(cs)) \in 1..Len(text) + 1
  BY <1>2, <1>3, ResumesIn
<1>9. Resumes(cs, Len(cs)) <= b /\ Gap(Resumes(cs, Len(cs)), b) /\ b \in 1..Len(text) + 1
  BY <1>2, <1>3, <1>7, <1>8 DEF Gap
<1>10. QED
  BY <1>1, <1>2, <1>4, <1>9, ReadingKeeps

LEMMA TakeCommentKeeps ==
  ASSUME text \in Seq(Characters), MetadataInv, TakeLineComment \/ TakeBlockComment, text' = text
  PROVE  MetadataInv'
<1>1. PICK cs, a : cs = comments /\ a = at
  OBVIOUS
<1>2. /\ Leads(cs) /\ Resumes(cs, Len(cs)) <= a /\ Gap(Resumes(cs, Len(cs)), a)
      /\ a \in 1..Len(text) + 1 /\ cs \in Seq(Spans)
  BY <1>1 DEF MetadataInv
<1>3. Len(text) \in Nat /\ DOMAIN text = 1..Len(text)
  BY CharacterAt
<1>4. \E c : /\ CommentAt(c, a) /\ at' = Behind(c) /\ comments' = Append(cs, c)
             /\ c = Span(c.from, c.to) /\ a \in 1..Len(text)
  <2>1. CASE TakeLineComment
    <3> DEFINE c == Span(a + 2, EndOfLine(a + 2))
    <3>1. c.from = a + 2 /\ c.to = EndOfLine(a + 2) /\ c = Span(c.from, c.to)
      BY DEF Span
    <3>2. StartsAt(a, "slash") /\ comments' = Append(cs, c) /\ at' = c.to
      BY <1>1, <2>1, <3>1 DEF TakeLineComment, Opens, StartsAt, Take
    <3>3. a \in 1..Len(text) /\ text[a + 1] = "slash" /\ c.from - 1 = a + 1
      BY <1>2, <1>3, <3>1, <3>2 DEF StartsAt, Has
    <3> HIDE DEF c
    <3>4. CommentAt(c, a)
      BY <3>1, <3>2 DEF CommentAt
    <3>5. Behind(c) = c.to
      BY <3>3 DEF Behind
    <3>6. QED
      BY <3>1, <3>2, <3>3, <3>4, <3>5
  <2>2. CASE TakeBlockComment
    <3> DEFINE c == Span(a + 2, Min(ClosesAfter(a)))
    <3>1. c.from = a + 2 /\ c.to = Min(ClosesAfter(a)) /\ c = Span(c.from, c.to)
      BY DEF Span
    <3>2. /\ StartsAt(a, "star") /\ ClosesAfter(a) # {}
          /\ comments' = Append(cs, c) /\ at' = c.to + 2
      <4>1. CommentEnds = ClosesAfter(a)
        BY <1>1 DEF CommentEnds, ClosesAfter
      <4>2. QED
        BY <1>1, <2>2, <3>1, <4>1 DEF TakeBlockComment, Opens, StartsAt, Take
    <3>3. a \in 1..Len(text) /\ text[a + 1] = "star" /\ c.from - 1 = a + 1
      BY <1>2, <1>3, <3>1, <3>2 DEF StartsAt, Has
    <3> HIDE DEF c
    <3>4. CommentAt(c, a)
      BY <3>1, <3>2 DEF CommentAt
    <3>5. Behind(c) = c.to + 2
      BY <3>3 DEF Behind
    <3>6. QED
      BY <3>1, <3>2, <3>3, <3>4, <3>5
  <2>3. QED
    BY <2>1, <2>2
<1>5. PICK c : /\ CommentAt(c, a) /\ at' = Behind(c) /\ comments' = Append(cs, c)
               /\ c = Span(c.from, c.to) /\ a \in 1..Len(text)
  BY <1>4
<1>6. c \in Spans
  <2>1. c.from = a + 2 /\ c.to \in a + 2..Len(text) + 1
    BY <1>5, CommentIs
  <2>2. c.from \in Nat /\ c.to \in Nat
    BY <1>3, <1>5, <2>1
  <2>3. QED
    BY <1>5, <2>2 DEF Spans, Span
<1>7. PICK ds : ds = comments'
  OBVIOUS
<1>8. /\ ds \in Seq(Spans) /\ Leads(ds) /\ Resumes(ds, Len(ds)) = Behind(c)
      /\ Behind(c) \in 1..Len(text) + 1
  BY <1>2, <1>5, <1>6, <1>7, LeadsGrows
<1>9. PICK b : b = at'
  OBVIOUS
<1>10. b \in 1..Len(text) + 1 /\ Resumes(ds, Len(ds)) <= b /\ Gap(Resumes(ds, Len(ds)), b)
  BY <1>3, <1>5, <1>8, <1>9 DEF Gap
<1>11. resolving = "comments" /\ resolving' = "comments" /\ UNCHANGED <<path, sidecars, params, answer>>
  BY DEF TakeLineComment, TakeBlockComment, Take, Reading
<1>12. QED
  BY <1>7, <1>8, <1>9, <1>10, <1>11, ReadingKeeps

\* A step behind the comments that gives no answer.
LEMMA StayKeeps ==
  ASSUME MetadataInv, text' = text, UNCHANGED <<path, sidecars, at, comments, answer>>,
         resolving # "comments" \/ \A a : a = at => StopsAt(a),
         resolving # "resolved", resolving' \in {"directives", "sidecar"},
         resolving' = "directives" =>
           \A us, cs, ps : us = unread' /\ cs = comments /\ ps = params' =>
             \E j \in 0..Len(cs) : LeftOf(us, cs, j) /\ Merged(ps, cs, j),
         resolving' = "sidecar" =>
           /\ path
           /\ \A cs, ps : cs = comments /\ ps = params' =>
                Merged(ps, cs, Len(cs)) /\ ~Named(BaseTable(ps))
  PROVE  MetadataInv'
<1>1. \A cs, a : cs = comments' /\ a = at' =>
        /\ Leads(cs)' /\ Resumes(cs, Len(cs))' <= a /\ Gap(Resumes(cs, Len(cs)), a)'
        /\ StopsAt(a)'
  BY SameReading DEF MetadataInv
<1>3. comments' \in Seq(Spans) /\ at' \in 1..Len(text') + 1 /\ resolving' # "comments"
  BY DEF MetadataInv
<1>5. resolving' = "directives" =>
        \A us, cs, ps : us = unread' /\ cs = comments' /\ ps = params' =>
          \E j \in 0..Len(cs) : LeftOf(us, cs, j) /\ Merged(ps, cs, j)'
  BY SameReading
<1>6. resolving' = "sidecar" =>
        /\ path'
        /\ \A cs, ps : cs = comments' /\ ps = params' =>
             Merged(ps, cs, Len(cs))' /\ ~Named(BaseTable(ps))
  BY SameReading
<1>7. \A us, cs, j : LeftOf(us, cs, j)' <=> LeftOf(us, cs, j)
  BY DEF LeftOf
<1>8. \A ps : Named(BaseTable(ps))' <=> Named(BaseTable(ps))
  BY DEF Named, BaseTable
<1>9. QED
  BY <1>1, <1>3, <1>5, <1>6, <1>7, <1>8 DEF MetadataInv

LEMMA DirectivesStep ==
  ASSUME text \in Seq(Characters), MetadataInv, text' = text,
         EndOfComments \/ MergeDirective \/ DirectiveFails \/ NamedBySource \/ NotNamedBySource
  PROVE  MetadataInv'
<1>0. PICK cs, ps, us, a : cs = comments /\ ps = params /\ us = unread /\ a = at
  OBVIOUS
<1>1. Len(text) \in Nat /\ DOMAIN text = 1..Len(text) /\ cs \in Seq(Spans) /\ Len(cs) \in Nat
      /\ a \in 1..Len(text) + 1
  BY <1>0, CharacterAt, LenProperties DEF MetadataInv
<1>2. CASE EndOfComments
  <2>1. StopsAt(a)
    <3>1. CommentEnds = ClosesAfter(a)
      BY <1>0 DEF CommentEnds, ClosesAfter
    <3>2. AtEnd
      BY <1>2 DEF EndOfComments
    <3>3. QED
      BY <1>0, <1>1, <3>1, <3>2 DEF AtEnd, StopsAt, Opens, StartsAt
  <2>2. LeftOf(cs, cs, 0)
    BY <1>1 DEF LeftOf
  <2>3. Merged(NoParams, cs, 0)
    BY DEF Merged, NoParams
  <2>4. resolving = "comments" /\ params = NoParams
    BY <1>2 DEF EndOfComments, Reading, MetadataInv
  <2>5. resolving' = "directives" /\ unread' = cs /\ params' = NoParams
        /\ UNCHANGED <<path, sidecars, at, comments, answer>>
    BY <1>0, <1>2, <2>4 DEF EndOfComments
  <2>6. 0 \in 0..Len(cs)
    BY <1>1
  <2>7. \A vs, ds, qs : vs = unread' /\ ds = comments /\ qs = params' =>
          \E j \in 0..Len(ds) : LeftOf(vs, ds, j) /\ Merged(qs, ds, j)
    BY <1>0, <2>2, <2>3, <2>5, <2>6
  <2>8. \A b : b = at => StopsAt(b)
    BY <1>0, <2>1
  <2>9. QED
    BY <2>4, <2>5, <2>7, <2>8, StayKeeps
<1>3. ASSUME MergeDirective \/ DirectiveFails \/ NamedBySource \/ NotNamedBySource
      PROVE  resolving = "directives" /\ \E j \in 0..Len(cs) : LeftOf(us, cs, j) /\ Merged(ps, cs, j)
  <2>1. resolving = "directives"
    BY <1>3 DEF MergeDirective, DirectiveFails, NamedBySource, NotNamedBySource
  <2>2. QED
    BY <1>0, <2>1 DEF MetadataInv
<1>4. us # << >> /\ (\E j \in 0..Len(cs) : LeftOf(us, cs, j)) => Head(us) = us[1]
  OBVIOUS
<1>5. CASE MergeDirective
  <2>1. PICK j \in 0..Len(cs) : LeftOf(us, cs, j) /\ Merged(ps, cs, j)
    BY <1>3, <1>5
  <2>2. us # << >> /\ Head(us) = us[1] /\ resolving = "directives"
    BY <1>0, <1>3, <1>4, <1>5, <2>1 DEF MergeDirective
  <2>3. /\ ~IsMalformed(us[1])
        /\ \A k \in Keys : GivenBy(us[1])[k] # "unset" => ps[k] \in {"unset", GivenBy(us[1])[k]}
        /\ params' = MergedWith(ps, us[1])
        /\ unread' = Tail(us) /\ resolving' = resolving
        /\ UNCHANGED <<path, sidecars, at, comments, answer>>
    BY <1>0, <1>5, <2>2 DEF MergeDirective, Contradicts
  <2>4. PICK qs : qs = params'
    OBVIOUS
  <2>5. qs = MergedWith(ps, us[1])
    BY <2>3, <2>4
  <2>6. j + 1 \in 0..Len(cs) /\ LeftOf(Tail(us), cs, j + 1) /\ Merged(qs, cs, j + 1)
    BY <1>1, <2>1, <2>2, <2>3, <2>5, MergesOne
  <2>7. \A vs, ds, rs : vs = unread' /\ ds = comments /\ rs = params' =>
          \E i \in 0..Len(ds) : LeftOf(vs, ds, i) /\ Merged(rs, ds, i)
    BY <1>0, <2>3, <2>4, <2>6
  <2>8. QED
    BY <2>2, <2>3, <2>7, StayKeeps
<1>6. CASE DirectiveFails
  <2>1. PICK j \in 0..Len(cs) : LeftOf(us, cs, j) /\ Merged(ps, cs, j)
    BY <1>3, <1>6
  <2>2. us # << >> /\ Head(us) = us[1] /\ resolving = "directives"
    BY <1>0, <1>3, <1>4, <1>6, <2>1 DEF DirectiveFails
  <2>3. Answer("directive_error") /\ (IsMalformed(us[1]) \/ Contradicts(us[1]))
    BY <1>0, <1>6, <2>2 DEF DirectiveFails
  <2>4. WrongIn(cs)
    <3>1. \/ IsMalformed(us[1])
          \/ \E k \in Keys : GivenBy(us[1])[k] # "unset" /\ ps[k] \notin {"unset", GivenBy(us[1])[k]}
      BY <1>0, <2>3 DEF Contradicts
    <3>2. QED
      BY <1>1, <2>1, <2>2, <3>1, FailsRightly
  <2>5. "directive_error" \in PossibleFrom(comments)
    BY <1>0, <2>4 DEF PossibleFrom
  <2>6. QED
    BY <2>2, <2>3, <2>5, AnswerKeeps
<1>7. ASSUME NamedBySource \/ NotNamedBySource
      PROVE  Merged(ps, cs, Len(cs))
  <2>1. PICK j \in 0..Len(cs) : LeftOf(us, cs, j) /\ Merged(ps, cs, j)
    BY <1>3, <1>7
  <2>2. us = << >>
    BY <1>0, <1>7 DEF NamedBySource, NotNamedBySource
  <2>3. Len(us) = 0 /\ Len(us) = Len(cs) - j
    BY <2>1, <2>2, EmptySeq DEF LeftOf
  <2>4. j = Len(cs)
    BY <1>1, <2>3
  <2>5. QED
    BY <2>1, <2>4
<1>8. CASE NamedBySource
  <2>1. Named(BaseTable(ps)) /\ Answer(BaseTable(ps)) /\ resolving = "directives"
    BY <1>0, <1>8 DEF NamedBySource
  <2>2. BaseTable(ps) \in PossibleFrom(comments)
    BY <1>0, <1>7, <1>8, <2>1, NamesRightly
  <2>3. PICK z : z = BaseTable(ps)
    OBVIOUS
  <2>4. QED
    BY <2>1, <2>2, <2>3, AnswerKeeps
<1>9. CASE NotNamedBySource /\ path
  <2>1. /\ ~Named(BaseTable(ps)) /\ resolving = "directives" /\ resolving' = "sidecar"
        /\ UNCHANGED <<path, sidecars, at, comments, unread, params, answer>>
    BY <1>0, <1>9 DEF NotNamedBySource
  <2>2. \A ds, qs : ds = comments /\ qs = params' => Merged(qs, ds, Len(ds)) /\ ~Named(BaseTable(qs))
    BY <1>0, <1>7, <1>9, <2>1
  <2>3. QED
    BY <1>9, <2>1, <2>2, StayKeeps
<1>10. CASE NotNamedBySource /\ ~path
  <2>1. ~Named(BaseTable(ps)) /\ resolving = "directives" /\ Answer("missing")
    BY <1>0, <1>10 DEF NotNamedBySource
  <2>2. "missing" \in PossibleFrom(comments)
    BY <1>0, <1>7, <1>10, <2>1, NamesRightly, SidecarMissing
  <2>3. QED
    BY <2>1, <2>2, AnswerKeeps
<1>11. QED
  BY <1>2, <1>5, <1>6, <1>8, <1>9, <1>10

LEMMA SidecarStep ==
  ASSUME text \in Seq(Characters), MetadataInv, text' = text,
         ReadSidecar \/ SidecarFails \/ NoSidecar
  PROVE  MetadataInv'
<1>0. PICK cs, ps : cs = comments /\ ps = params
  OBVIOUS
<1>1. resolving = "sidecar" /\ path /\ PossibleFrom(comments) = OfSidecar
  <2>1. resolving = "sidecar"
    BY DEF ReadSidecar, SidecarFails, NoSidecar
  <2>2. path /\ Merged(ps, cs, Len(cs)) /\ ~Named(BaseTable(ps))
    BY <1>0, <2>1 DEF MetadataInv
  <2>3. QED
    BY <1>0, <2>1, <2>2, NamesRightly
<1>2. CASE ReadSidecar
  <2>1. /\ Found < 3 /\ sidecars[Found].state = "object"
        /\ \A r \in RawKeys : sidecars[Found].entries[r] # "object"
        /\ \E qs : /\ DecodedAs(sidecars[Found].entries, qs)
                   /\ Answer(IF Named(BaseTable(qs)) THEN BaseTable(qs) ELSE "missing")
    BY <1>2 DEF ReadSidecar
  <2>2. PICK qs : /\ DecodedAs(sidecars[Found].entries, qs)
                  /\ Answer(IF Named(BaseTable(qs)) THEN BaseTable(qs) ELSE "missing")
    BY <2>1
  <2>3. PICK z : z = IF Named(BaseTable(qs)) THEN BaseTable(qs) ELSE "missing"
    OBVIOUS
  <2>4. z \in PossibleFrom(comments)
    BY <1>1, <2>1, <2>2, <2>3, SidecarRead
  <2>5. Answer(z)
    BY <2>2, <2>3
  <2>6. QED
    BY <1>1, <2>4, <2>5, AnswerKeeps
<1>3. CASE SidecarFails
  <2>1. /\ Found < 3 /\ Answer("sidecar_error")
        /\ sidecars[Found].state = "broken" \/ \E r \in RawKeys : sidecars[Found].entries[r] = "object"
    BY <1>3 DEF SidecarFails
  <2>2. "sidecar_error" \in PossibleFrom(comments)
    BY <1>1, <2>1, SidecarBroken
  <2>3. QED
    BY <1>1, <2>1, <2>2, AnswerKeeps
<1>4. CASE NoSidecar
  <2>1. Found = 3 /\ Answer("missing")
    BY <1>4 DEF NoSidecar
  <2>2. "missing" \in PossibleFrom(comments)
    BY <1>1, <2>1, SidecarMissing
  <2>3. QED
    BY <1>1, <2>1, <2>2, AnswerKeeps
<1>5. QED
  BY <1>2, <1>3, <1>4

LEMMA MetadataStays ==
  ASSUME MetadataInv, text' = text, UNCHANGED metadataVars
  PROVE  MetadataInv'
<1>1. UNCHANGED <<path, sidecars, at, comments, unread, params, resolving, answer>>
  BY DEF metadataVars
<1>3. \A cs, a : cs = comments' /\ a = at' =>
        /\ Leads(cs)' /\ Resumes(cs, Len(cs))' <= a /\ Gap(Resumes(cs, Len(cs)), a)'
        /\ resolving' # "comments" => StopsAt(a)'
  BY <1>1, SameReading DEF MetadataInv
<1>4. \A us, cs, j : LeftOf(us, cs, j)' <=> LeftOf(us, cs, j)
  BY DEF LeftOf
<1>5. \A ps : Named(BaseTable(ps))' <=> Named(BaseTable(ps))
  BY DEF Named, BaseTable
<1>6. resolving' = "directives" =>
        \A us, cs, ps : us = unread' /\ cs = comments' /\ ps = params' =>
          \E j \in 0..Len(cs) : LeftOf(us, cs, j)' /\ Merged(ps, cs, j)'
  BY <1>1, <1>4, SameReading DEF MetadataInv
<1>7. resolving' = "sidecar" =>
        /\ path'
        /\ \A cs, ps : cs = comments' /\ ps = params' =>
             Merged(ps, cs, Len(cs))' /\ ~Named(BaseTable(ps))'
  BY <1>1, <1>5, SameReading DEF MetadataInv
<1>8. resolving' = "resolved" => \A cs : cs = comments' => answer' \in PossibleFrom(cs)'
  BY <1>1, SameAnswer DEF MetadataInv
<1>9. comments' \in Seq(Spans)' /\ at' \in 1..Len(text') + 1 /\ (resolving' = "comments" => params' = NoParams')
  BY <1>1 DEF MetadataInv, Spans, NoParams
<1>10. QED
  BY <1>3, <1>6, <1>7, <1>8, <1>9 DEF MetadataInv

LEMMA MetadataInvHolds == Spec => []MetadataInv
<1>1. Init => MetadataInv
  <2> SUFFICES ASSUME Init PROVE MetadataInv
    OBVIOUS
  <2>1. text \in Seq(Characters) /\ Len(text) \in Nat
    BY InitText, LenProperties
  <2>2. at = 1 /\ comments = << >> /\ params = NoParams /\ resolving = "comments"
    BY DEF Init, MetadataInit
  <2>3. \A cs : cs = comments => cs \in Seq(Spans) /\ Leads(cs) /\ Resumes(cs, Len(cs)) = 1 /\ Gap(1, 1)
    BY <2>2, LeadsNothing
  <2>4. QED
    BY <2>1, <2>2, <2>3 DEF MetadataInv
<1>2. LexerInv /\ MetadataInv /\ [Next]_vars => MetadataInv'
  <2> SUFFICES ASSUME LexerInv, MetadataInv, [Next]_vars PROVE MetadataInv'
    OBVIOUS
  <2>1. text \in Seq(Characters)
    BY DEF LexerInv
  <2>2. CASE UNCHANGED <<text, metadataVars>>
    BY <2>2, MetadataStays
  <2>3. CASE LexerNext /\ UNCHANGED metadataVars
    BY <2>3, MetadataStays DEF LexerNext
  <2>4. CASE MetadataNext
    <3>1. text' = text
      BY <2>4 DEF MetadataNext
    <3>2. CASE TakeSpaces
      BY <2>1, <3>1, <3>2, TakeSpacesKeeps
    <3>3. CASE TakeLineComment \/ TakeBlockComment
      BY <2>1, <3>1, <3>3, TakeCommentKeeps
    <3>4. CASE EndOfComments \/ MergeDirective \/ DirectiveFails \/ NamedBySource \/ NotNamedBySource
      BY <2>1, <3>1, <3>4, DirectivesStep
    <3>5. CASE ReadSidecar \/ SidecarFails \/ NoSidecar
      BY <2>1, <3>1, <3>5, SidecarStep
    <3>6. QED
      BY <2>4, <3>2, <3>3, <3>4, <3>5 DEF MetadataNext
  <2>5. QED
    BY <2>2, <2>3, <2>4 DEF Next, vars
<1>3. QED
  BY <1>1, <1>2, LexerInvHolds, PTL DEF Spec

-----------------------------------------------------------------------------
(***************************************************************************)
(* The comments the lexer skips in front of the first token, said of the   *)
(* text.                                                                   *)
(***************************************************************************)
SkippedAt(k) ==
  \/ /\ Ch(k.from) = "slash" /\ Ch(k.from + 1) = "slash"
     /\ k.to = Find({"lf", "nul"}, k.from + 2)
  \/ /\ Ch(k.from) = "slash" /\ Ch(k.from + 1) = "star"
     /\ Closings(k.from + 2) # {} /\ k.to = Min(Closings(k.from + 2)) + 2

\* Where the lexer goes on behind a comment, and behind the first i of them.
Past(k) == IF Ch(k.from + 1) = "slash" /\ Ch(k.to) = "lf" THEN k.to + 1 ELSE k.to
GoesOn(ks, i) == IF i = 0 THEN 1 ELSE Past(ks[i])

Blank(i, j) == \A l \in i..j - 1 : Ch(l) \in Blanks

SkipsTo(ks, n) ==
  \A i \in 1..n :
    /\ ks[i].from \in GoesOn(ks, i - 1)..Len(text)
    /\ Blank(GoesOn(ks, i - 1), ks[i].from)
    /\ SkippedAt(ks[i])

\* Behind the first n comments, and the blanks behind them, the lexer is at p.
Stands(ks, n, p) ==
  /\ SkipsTo(ks, n)
  /\ GoesOn(ks, n) <= p /\ Blank(GoesOn(ks, n), p)
  /\ \A i \in 1..n : ks[i].from < p

LexerStopsAt(p) ==
  /\ Ch(p) \notin Blanks
  /\ ~(Ch(p) = "slash" /\ Ch(p + 1) = "slash")
  /\ ~(Ch(p) = "slash" /\ Ch(p + 1) = "star" /\ Closings(p + 2) # {})

LeadingInv ==
  /\ lexed = << >> =>
       \A ks, p : ks = skipped /\ p = pos =>
         Stands(ks, Len(ks), p) /\ (lexing # "on" => LexerStopsAt(p))
  /\ lexed # << >> =>
       \A ks, p : ks = skipped /\ p = lexed[1].from =>
         /\ LexerStopsAt(p)
         /\ \E n \in 0..Len(ks) : Stands(ks, n, p) /\ \A i \in n + 1..Len(ks) : ks[i].from > p

LEMMA SameSkipping ==
  ASSUME text' = text
  PROVE  /\ \A ks, n, p : Stands(ks, n, p) => Stands(ks, n, p)'
         /\ \A p : LexerStopsAt(p) => LexerStopsAt(p)'
<1>1. \A i : Ch(i)' = Ch(i)
  BY DEF Ch
<1>2. \A s, i : Find(s, i)' = Find(s, i)
  BY <1>1 DEF Find
<1>3. \A i : Closings(i)' = Closings(i)
  BY <1>1, <1>2 DEF Closings
<1>4. \A k : (SkippedAt(k)' <=> SkippedAt(k)) /\ Past(k)' = Past(k)
  BY <1>1, <1>2, <1>3 DEF SkippedAt, Past
<1>5. \A ks, i : GoesOn(ks, i)' = GoesOn(ks, i)
  BY <1>4 DEF GoesOn
<1>6. \A i, j : Blank(i, j)' <=> Blank(i, j)
  BY <1>1 DEF Blank
<1>7. \A ks, n : SkipsTo(ks, n)' <=> SkipsTo(ks, n)
  BY <1>4, <1>5, <1>6 DEF SkipsTo
<1>8. \A ks, n, p : Stands(ks, n, p)' <=> Stands(ks, n, p)
  BY <1>5, <1>6, <1>7 DEF Stands
<1>9. \A p : LexerStopsAt(p)' <=> LexerStopsAt(p)
  BY <1>1, <1>3 DEF LexerStopsAt
<1>10. QED
  BY <1>8, <1>9

\* What is said of the first n comments does not change when one more is skipped.
LEMMA StandsAppended ==
  ASSUME NEW ks \in Seq(Spans), NEW k \in Spans, NEW n \in 0..Len(ks), NEW p, NEW js,
         js = Append(ks, k), Stands(ks, n, p)
  PROVE  Stands(js, n, p)
<1>1. Len(ks) \in Nat /\ \A i \in 1..Len(ks) : js[i] = ks[i]
  BY LenProperties, AppendProperties
<1>2. \A i \in 0..n : GoesOn(js, i) = GoesOn(ks, i)
  BY <1>1 DEF GoesOn
<1>3. ASSUME NEW i \in 1..n
      PROVE  js[i] = ks[i] /\ GoesOn(js, i - 1) = GoesOn(ks, i - 1)
  <2>1. i \in 1..Len(ks) /\ i - 1 \in 0..n
    BY <1>1
  <2>2. QED
    BY <1>1, <1>2, <2>1
<1>4. GoesOn(js, n) = GoesOn(ks, n)
  <2>1. n \in 0..n
    BY <1>1
  <2>2. QED
    BY <1>2, <2>1
<1>5. QED
  BY <1>3, <1>4 DEF Stands, SkipsTo

\* One more comment is skipped.
LEMMA StandsGrows ==
  ASSUME text \in Seq(Characters),
         NEW ks \in Seq(Spans), NEW k \in Spans, NEW js, js = Append(ks, k),
         NEW q \in Nat, Stands(ks, Len(ks), k.from), SkippedAt(k), k.from \in 1..Len(text),
         GoesOn(ks, Len(ks)) \in Nat,
         q = Past(k), k.from < q
  PROVE  Stands(js, Len(js), q)
<1>1. /\ Len(ks) \in Nat /\ Len(js) = Len(ks) + 1 /\ js[Len(ks) + 1] = k
      /\ \A i \in 1..Len(ks) : js[i] = ks[i]
  BY LenProperties, AppendProperties
<1>2. Stands(js, Len(ks), k.from)
  <2>1. Len(ks) \in 0..Len(ks)
    BY <1>1
  <2>2. QED
    BY <2>1, StandsAppended
<1>3. GoesOn(js, Len(ks)) = GoesOn(ks, Len(ks))
  BY <1>1 DEF GoesOn
<1>4. ASSUME NEW i \in 1..Len(js)
      PROVE  /\ js[i].from \in GoesOn(js, i - 1)..Len(text)
             /\ Blank(GoesOn(js, i - 1), js[i].from)
             /\ SkippedAt(js[i])
             /\ js[i].from < q
  <2>1. CASE i = Len(ks) + 1
    <3>1. i - 1 = Len(ks) /\ js[i] = k
      BY <1>1, <2>1
    <3>2. k.from \in GoesOn(js, Len(ks))..Len(text)
      BY <1>2, <1>3, CharacterAt DEF Stands
    <3>3. QED
      BY <1>2, <3>1, <3>2 DEF Stands
  <2>2. CASE i # Len(ks) + 1
    <3>1. i \in 1..Len(ks)
      BY <1>1, <2>2
    <3>2. /\ js[i].from \in GoesOn(js, i - 1)..Len(text)
          /\ Blank(GoesOn(js, i - 1), js[i].from)
          /\ SkippedAt(js[i]) /\ js[i].from < k.from
      BY <1>2, <3>1 DEF Stands, SkipsTo
    <3>3. js[i].from \in Nat /\ k.from \in Nat
      <4>1. ks[i] \in Spans
        BY <1>1, <3>1, ElementOfSeq
      <4>2. QED
        BY <1>1, <3>1, <4>1 DEF Spans
    <3>4. QED
      BY <3>2, <3>3
  <2>3. QED
    BY <2>1, <2>2
<1>5. GoesOn(js, Len(js)) = q
  BY <1>1 DEF GoesOn
<1>6. Blank(q, q) /\ q <= q
  BY DEF Blank
<1>7. QED
  BY <1>4, <1>5, <1>6 DEF Stands, SkipsTo

LEMMA SkippedIs ==
  ASSUME text \in Seq(Characters), NEW k \in Spans, SkippedAt(k)
  PROVE  /\ k.from \in 1..Len(text) /\ k.from + 1 \in 1..Len(text)
         /\ k.to \in k.from + 2..Len(text) + 1 /\ Past(k) \in k.from + 2..Len(text) + 1
<1>0. Len(text) \in Nat /\ (\A i : i \notin 1..Len(text) => Ch(i) = "nul") /\ k.from \in Nat /\ k.to \in Nat
  BY CharacterAt DEF Spans
<1>1. k.from \in 1..Len(text) /\ k.from + 1 \in 1..Len(text) /\ k.from + 2 \in 1..Len(text) + 1
  BY <1>0 DEF SkippedAt
<1>2. CASE Ch(k.from + 1) = "slash" /\ k.to = Find({"lf", "nul"}, k.from + 2)
  <2> DEFINE S == {"lf", "nul"}
             i == k.from + 2
  <2>1. "nul" \in S /\ i \in 1..Len(text) + 1 /\ k.to = Find(S, i)
    BY <1>1, <1>2
  <2> HIDE DEF S, i
  <2>2. k.to \in i..Len(text) + 1
    BY <2>1, FindIs
  <2>3. Ch(k.to) = "lf" => k.to \in 1..Len(text)
    BY <1>0
  <2>4. QED
    BY <1>0, <1>1, <2>2, <2>3 DEF Past, i
<1>3. CASE Ch(k.from + 1) = "star" /\ Closings(k.from + 2) # {} /\ k.to = Min(Closings(k.from + 2)) + 2
  <2> DEFINE i == k.from + 2
  <2>1. i \in Nat /\ Closings(i) # {} /\ k.to = Min(Closings(i)) + 2
    BY <1>0, <1>3
  <2> HIDE DEF i
  <2>2. Min(Closings(i)) >= i /\ Min(Closings(i)) + 1 \in 1..Len(text)
        /\ Min(Closings(i)) \in Closings(i)
    BY <2>1, ClosingIs
  <2>3. Min(Closings(i)) \in Int
    BY <2>1, <2>2 DEF Closings
  <2>4. k.to \in i..Len(text) + 1
    BY <1>0, <2>1, <2>2, <2>3
  <2>5. Past(k) = k.to
    BY <1>3 DEF Past
  <2>6. QED
    BY <1>1, <2>4, <2>5 DEF i
<1>4. QED
  BY <1>2, <1>3 DEF SkippedAt

LEMMA GoesOnIn ==
  ASSUME text \in Seq(Characters), NEW ks \in Seq(Spans), NEW n \in 0..Len(ks), SkipsTo(ks, n)
  PROVE  GoesOn(ks, n) \in 1..Len(text) + 1
<1>0. Len(text) \in Nat /\ Len(ks) \in Nat
  BY CharacterAt, LenProperties
<1>1. CASE n = 0
  BY <1>0, <1>1 DEF GoesOn
<1>2. CASE n # 0
  <2>1. n \in 1..Len(ks) /\ n \in 1..n
    BY <1>0, <1>2
  <2>2. ks[n] \in Spans /\ SkippedAt(ks[n])
    BY <2>1, ElementOfSeq DEF SkipsTo
  <2>3. Past(ks[n]) \in ks[n].from + 2..Len(text) + 1 /\ ks[n].from \in 1..Len(text)
    BY <2>2, SkippedIs
  <2>4. QED
    BY <1>0, <1>2, <2>3 DEF GoesOn
<1>3. QED
  BY <1>1, <1>2

\* What the lexer stops at, it is not past.
LEMMA LeadingStep ==
  ASSUME LexerInv, LeadingInv, LexerNext
  PROVE  LeadingInv'
<1>0. /\ text \in Seq(Characters) /\ pos \in 1..Len(text) + 1 /\ pos \in Nat /\ Len(text) \in Nat
      /\ skipped \in Seq(Spans) /\ Len(skipped) \in Nat
      /\ text' = text /\ lexing = "on"
      /\ \A i : i \notin 1..Len(text) => Ch(i) = "nul"
  BY CharacterAt, LenProperties DEF LexerInv, LexerNext, Spans
<1>1. PICK ks, p : ks = skipped /\ p = pos
  OBVIOUS
<1>2. /\ \A js, n, q : Stands(js, n, q) => Stands(js, n, q)'
      /\ \A q : LexerStopsAt(q) => LexerStopsAt(q)'
  BY <1>0, SameSkipping
<1>3. CASE SkipWhitespace
  <2> DEFINE S == Blanks
  <2>1. pos' = FindNot(S, p) /\ lexed' = lexed /\ skipped' = skipped /\ lexing' = "on"
    BY <1>0, <1>1, <1>3 DEF SkipWhitespace
  <2>2. CASE lexed # << >>
    BY <1>2, <2>1, <2>2 DEF LeadingInv
  <2>3. CASE lexed = << >>
    <3>1. Stands(ks, Len(ks), p)
      BY <1>1, <2>3 DEF LeadingInv
    <3>2. PICK q : q = pos'
      OBVIOUS
    <3>3. "nul" \notin S /\ p \in 1..Len(text) + 1
      BY <1>0, <1>1 DEF Blanks
    <3> HIDE DEF S
    <3>4. q \in p..Len(text) + 1 /\ \A j \in p..Len(text) + 1 : j < q => Ch(j) \in S
      BY <1>0, <2>1, <3>2, <3>3, FindNotIs
    <3>5. GoesOn(ks, Len(ks)) \in 1..Len(text) + 1
      <4>1. Len(ks) \in 0..Len(ks)
        BY <1>0, <1>1
      <4>2. QED
        BY <1>0, <1>1, <3>1, <4>1, GoesOnIn DEF Stands
    <3>6. ASSUME NEW l \in GoesOn(ks, Len(ks))..q - 1 PROVE Ch(l) \in Blanks
      <4>1. CASE l < p
        <5>1. l \in GoesOn(ks, Len(ks))..p - 1
          BY <1>0, <1>1, <3>4, <3>5, <4>1
        <5>2. QED
          BY <3>1, <5>1 DEF Stands, Blank
      <4>2. CASE ~(l < p)
        <5>1. l \in p..Len(text) + 1 /\ l < q
          BY <1>0, <1>1, <3>4, <3>5, <4>2
        <5>2. QED
          BY <3>4, <5>1 DEF S
      <4>3. QED
        BY <4>1, <4>2
    <3>7. GoesOn(ks, Len(ks)) <= q /\ \A i \in 1..Len(ks) : ks[i].from < q
      <4>1. ASSUME NEW i \in 1..Len(ks) PROVE ks[i].from < q
        <5>1. ks[i].from < p
          BY <3>1 DEF Stands
        <5>2. ks[i] \in Spans
          BY <1>0, <1>1, ElementOfSeq
        <5>3. ks[i].from \in Nat
          BY <5>2 DEF Spans
        <5>4. QED
          BY <1>0, <1>1, <3>4, <5>1, <5>3
      <4>2. GoesOn(ks, Len(ks)) <= p
        BY <3>1 DEF Stands
      <4>3. QED
        BY <1>0, <1>1, <3>4, <3>5, <4>1, <4>2
    <3>8. Stands(ks, Len(ks), q)
      BY <3>1, <3>6, <3>7 DEF Stands, Blank
    <3>9. \A js, r : js = skipped' /\ r = pos' => Stands(js, Len(js), r)'
      BY <1>1, <1>2, <2>1, <3>2, <3>8
    <3>10. QED
      BY <2>1, <2>3, <3>9 DEF LeadingInv
  <2>4. QED
    BY <2>2, <2>3
<1>4. CASE SkipLineComment \/ SkipBlockComment
  <2>1. PICK k : /\ k = Comment(k.from, k.to) /\ k.from = p /\ SkippedAt(k)
                 /\ pos' = Past(k) /\ skipped' = Append(ks, k)
                 /\ lexed' = lexed /\ lexing' = "on"
    <3>1. CASE SkipLineComment
      <4> DEFINE end == Find({"lf", "nul"}, p + 2)
                 k == Comment(p, end)
      <4>1. k.from = p /\ k.to = end /\ k = Comment(k.from, k.to)
        BY DEF Comment
      <4>2. /\ Ch(p) = "slash" /\ Ch(p + 1) = "slash" /\ lexed' = lexed /\ lexing' = "on"
            /\ pos' = IF Ch(end) = "lf" THEN end + 1 ELSE end
            /\ skipped' = Append(ks, k)
        BY <1>0, <1>1, <3>1 DEF SkipLineComment, OpensComment
      <4>3. SkippedAt(k) /\ Past(k) = IF Ch(end) = "lf" THEN end + 1 ELSE end
        BY <4>1, <4>2 DEF SkippedAt, Past
      <4> HIDE DEF k, end
      <4>4. QED
        BY <4>1, <4>2, <4>3
    <3>2. CASE SkipBlockComment
      <4> DEFINE end == Min(Closings(p + 2)) + 2
                 k == Comment(p, end)
      <4>1. k.from = p /\ k.to = end /\ k = Comment(k.from, k.to)
        BY DEF Comment
      <4>2. /\ Ch(p) = "slash" /\ Ch(p + 1) = "star" /\ Closings(p + 2) # {}
            /\ lexed' = lexed /\ lexing' = "on" /\ pos' = end
            /\ skipped' = Append(ks, k)
        BY <1>0, <1>1, <3>2 DEF SkipBlockComment, OpensComment
      <4>3. SkippedAt(k) /\ Past(k) = end
        BY <4>1, <4>2 DEF SkippedAt, Past
      <4> HIDE DEF k, end
      <4>4. QED
        BY <4>1, <4>2, <4>3
    <3>3. QED
      BY <1>4, <3>1, <3>2
  <2>2. PICK js, q : js = skipped' /\ q = pos'
    OBVIOUS
  <2>3. k \in Spans
    <3>1. k.to \in Nat
      <4>1. js \in Seq([from : Nat, to : Nat])
        <5>1. LexerInv'
          BY LexerStep
        <5>2. QED
          BY <2>2, <5>1 DEF LexerInv
      <4>2. js = Append(ks, k) /\ Len(js) = Len(ks) + 1 /\ js[Len(ks) + 1] = k
        <5>1. js = Append(ks, k) /\ ks \in Seq(Spans)
          BY <1>0, <1>1, <2>1, <2>2
        <5>2. QED
          BY <5>1
      <4>3. Len(ks) + 1 \in 1..Len(js)
        BY <1>0, <1>1, <4>2
      <4>4. k \in [from : Nat, to : Nat]
        BY <4>1, <4>2, <4>3, ElementOfSeq
      <4>5. QED
        BY <4>4
    <3>2. QED
      BY <1>0, <1>1, <2>1, <3>1 DEF Spans, Comment
  <2>4. k.from \in 1..Len(text) /\ Past(k) \in k.from + 2..Len(text) + 1
    BY <1>0, <2>1, <2>3, SkippedIs
  <2>5. CASE lexed = << >>
    <3>1. Stands(ks, Len(ks), k.from)
      BY <1>1, <2>1, <2>5 DEF LeadingInv
    <3>2. GoesOn(ks, Len(ks)) \in Nat
      <4>1. Len(ks) \in 0..Len(ks)
        BY <1>0, <1>1
      <4>2. GoesOn(ks, Len(ks)) \in 1..Len(text) + 1
        BY <1>0, <1>1, <3>1, <4>1, GoesOnIn DEF Stands
      <4>3. QED
        BY <4>2
    <3>3. q \in Nat /\ q = Past(k) /\ k.from < q /\ js = Append(ks, k) /\ ks \in Seq(Spans)
      BY <1>0, <1>1, <2>1, <2>2, <2>4
    <3>4. Stands(js, Len(js), q)
      BY <1>0, <2>1, <2>3, <2>4, <3>1, <3>2, <3>3, StandsGrows
    <3>5. \A is, r : is = skipped' /\ r = pos' => Stands(is, Len(is), r)'
      BY <1>2, <2>2, <3>4
    <3>6. QED
      BY <2>1, <2>5, <3>5 DEF LeadingInv
  <2>6. CASE lexed # << >>
    <3>1. PICK r : r = lexed[1].from
      OBVIOUS
    <3>2. PICK n \in 0..Len(ks) : Stands(ks, n, r) /\ \A i \in n + 1..Len(ks) : ks[i].from > r
      BY <1>1, <2>6, <3>1 DEF LeadingInv
    <3>3. LexerStopsAt(r)
      BY <1>1, <2>6, <3>1 DEF LeadingInv
    <3>4. ks \in Seq(Spans) /\ js = Append(ks, k) /\ Len(js) = Len(ks) + 1 /\ js[Len(ks) + 1] = k
          /\ \A i \in 1..Len(ks) : js[i] = ks[i]
      BY <1>0, <1>1, <2>1, <2>2, <2>3, AppendProperties
    <3>5. Stands(js, n, r)
      BY <2>3, <3>2, <3>4, StandsAppended
    <3>6. k.from > r
      <4>1. Len(lexed) \in Nat /\ Len(lexed) # 0
        BY <2>6, LenProperties, EmptySeq DEF LexerInv
      <4>2. 1 \in 1..Len(lexed)
        BY <4>1
      <4>3. lexed[1].from \in 1..Len(text) /\ lexed[1].to \in lexed[1].from + 1..pos
        BY <4>2 DEF LexerInv
      <4>4. QED
        BY <1>0, <1>1, <2>1, <3>1, <4>3
    <3>7. ASSUME NEW i \in n + 1..Len(js) PROVE js[i].from > r
      <4>1. CASE i = Len(ks) + 1
        BY <3>4, <3>6, <4>1
      <4>2. CASE i # Len(ks) + 1
        <5>1. i \in n + 1..Len(ks) /\ i \in 1..Len(ks)
          BY <1>0, <1>1, <3>4, <4>2
        <5>2. QED
          BY <3>2, <3>4, <5>1
      <4>3. QED
        BY <4>1, <4>2
    <3>8. n \in 0..Len(js)
      BY <1>0, <1>1, <3>4
    <3>9. \A is, x : is = skipped' /\ x = lexed'[1].from =>
            /\ LexerStopsAt(x)'
            /\ \E m \in 0..Len(is) : Stands(is, m, x)' /\ \A i \in m + 1..Len(is) : is[i].from > x
      BY <1>2, <2>1, <2>2, <3>1, <3>3, <3>5, <3>7, <3>8
    <3>10. QED
      BY <2>1, <2>6, <3>9 DEF LeadingInv
  <2>7. QED
    BY <2>5, <2>6
<1>5. CASE UnterminatedComment \/ UnterminatedString \/ RefuseCharacter \/ EndOfText
  <2>1. pos' = pos /\ lexed' = lexed /\ skipped' = skipped
    BY <1>5 DEF UnterminatedComment, UnterminatedString, RefuseCharacter, EndOfText, Refuse
  <2>2. LexerStopsAt(p)
    BY <1>1, <1>5
       DEF UnterminatedComment, UnterminatedString, RefuseCharacter, EndOfText, LexerStopsAt,
           OpensComment, AtToken, Blanks
  <2>3. QED
    BY <1>1, <1>2, <2>1, <2>2 DEF LeadingInv
<1>6. CASE ReadNumber \/ ReadIdentifier \/ ReadString \/ ReadOperator
  <2>1. LexerStopsAt(p)
    BY <1>1, <1>6
       DEF ReadNumber, ReadIdentifier, ReadString, ReadOperator, LexerStopsAt,
           OpensComment, AtToken, Blanks
  <2>2. PICK token : token.from = p /\ lexed' = Append(lexed, token) /\ skipped' = skipped
    <3>1. \E type, to : Emit(type, to)
      BY <1>6 DEF ReadNumber, ReadIdentifier, ReadString, ReadOperator
    <3>2. QED
      BY <1>1, <3>1 DEF Emit, Token
  <2>3. lexed' # << >> /\ lexed'[1] = IF lexed = << >> THEN token ELSE lexed[1]
    <3>1. PICK S : lexed \in Seq(S) /\ token \in S
      <4> DEFINE S == [type : Types, from : Nat, to : Nat] \cup {token}
      <4>1. lexed \in Seq(S) /\ token \in S
        <5> DEFINE Tokens == [type : Types, from : Nat, to : Nat]
        <5>1. lexed \in Seq(Tokens) /\ Tokens \subseteq S /\ token \in S
          BY DEF LexerInv
        <5> HIDE DEF Tokens, S
        <5>2. QED
          BY <5>1
      <4> HIDE DEF S
      <4>2. QED
        BY <4>1
    <3>2. /\ Len(lexed) \in Nat /\ lexed' # << >> /\ lexed'[Len(lexed) + 1] = token
          /\ \A i \in 1..Len(lexed) : lexed'[i] = lexed[i]
      BY <2>2, <3>1, AppendProperties, LenProperties
    <3>3. CASE lexed = << >>
      <4>1. Len(lexed) = 0
        BY <3>3
      <4>2. QED
        BY <3>2, <3>3, <4>1
    <3>4. CASE lexed # << >>
      <4>1. 1 \in 1..Len(lexed)
        BY <3>1, <3>2, <3>4, EmptySeq
      <4>2. QED
        BY <3>2, <3>4, <4>1
    <3>5. QED
      BY <3>3, <3>4
  <2>4. CASE lexed = << >>
    <3>1. Stands(ks, Len(ks), p) /\ Len(ks) \in 0..Len(ks) /\ \A i \in Len(ks) + 1..Len(ks) : FALSE
      BY <1>0, <1>1, <2>4 DEF LeadingInv
    <3>2. \A js, q : js = skipped' /\ q = lexed'[1].from =>
            /\ LexerStopsAt(q)'
            /\ \E n \in 0..Len(js) : Stands(js, n, q)' /\ \A i \in n + 1..Len(js) : js[i].from > q
      BY <1>1, <1>2, <2>1, <2>2, <2>3, <2>4, <3>1
    <3>3. QED
      BY <2>3, <3>2 DEF LeadingInv
  <2>5. CASE lexed # << >>
    <3>1. \A js, q : js = skipped' /\ q = lexed'[1].from =>
            /\ LexerStopsAt(q)'
            /\ \E n \in 0..Len(js) : Stands(js, n, q)' /\ \A i \in n + 1..Len(js) : js[i].from > q
      BY <1>2, <2>2, <2>3, <2>5 DEF LeadingInv
    <3>2. QED
      BY <2>3, <3>1 DEF LeadingInv
  <2>6. QED
    BY <2>4, <2>5
<1>7. QED
  BY <1>3, <1>4, <1>5, <1>6 DEF LexerNext

LEMMA LeadingInvHolds == Spec => []LeadingInv
<1>1. Init => LeadingInv
  <2> SUFFICES ASSUME Init PROVE LeadingInv
    OBVIOUS
  <2>1. pos = 1 /\ lexed = << >> /\ skipped = << >> /\ lexing = "on"
    BY DEF Init, LexerInit
  <2>2. \A ks : ks = << >> => Len(ks) = 0 /\ Stands(ks, 0, 1)
    BY DEF Stands, SkipsTo, GoesOn, Blank
  <2>3. QED
    BY <2>1, <2>2 DEF LeadingInv
<1>2. LexerInv /\ LeadingInv /\ [Next]_vars => LeadingInv'
  <2> SUFFICES ASSUME LexerInv, LeadingInv, [Next]_vars PROVE LeadingInv'
    OBVIOUS
  <2>1. CASE resolving = "resolved" /\ LexerNext
    BY <2>1, LeadingStep
  <2>2. CASE UNCHANGED <<text, lexerVars>>
    <3>1. text' = text /\ lexed' = lexed /\ pos' = pos /\ skipped' = skipped /\ lexing' = lexing
      BY <2>2 DEF lexerVars
    <3>2. QED
      BY <3>1, SameSkipping DEF LeadingInv
  <2>3. QED
    BY <2>1, <2>2 DEF Next, MetadataNext, vars
<1>3. QED
  BY <1>1, <1>2, LexerInvHolds, PTL DEF Spec

-----------------------------------------------------------------------------
(***************************************************************************)
(* In a conventional text the two lists of comments are the same.          *)
(***************************************************************************)
\* The comment c of the metadata reader is the comment k of the lexer.
Pairs(c, k) ==
  /\ c.from = k.from + 2
  /\ \/ text[k.from + 1] = "slash" /\ (c.to = k.to \/ (c.to = k.to - 1 /\ text[c.to] = "cr"))
     \/ text[k.from + 1] = "star" /\ c.to = k.to - 2

\* Where the metadata reader goes on is not behind where the lexer does.
Meets(r, g) == r <= g /\ Gap(r, g)

LEMMA ConventionalIs ==
  ASSUME text \in Seq(Characters), Conventional, NEW i \in 1..Len(text)
  PROVE  /\ text[i] # "nul" /\ text[i] # "vt" /\ Ch(i) = text[i]
         /\ text[i] = "cr" => i + 1 \in 1..Len(text) /\ text[i + 1] = "lf"
<1>1. Len(text) \in Nat /\ i \in DOMAIN text /\ Ch(i) = text[i]
  BY CharacterAt
<1>2. text[i] \notin {"vt", "nul"} /\ (text[i] = "cr" => i < Len(text) /\ text[i + 1] = "lf")
  BY <1>1 DEF Conventional
<1>3. i < Len(text) => i + 1 \in 1..Len(text)
  BY <1>1
<1>4. QED
  BY <1>1, <1>2, <1>3

LEMMA ClosingsAre ==
  ASSUME text \in Seq(Characters), Conventional, NEW o \in Nat, o + 2 \in 1..Len(text) + 1
  PROVE  Closings(o + 2) = ClosesAfter(o)
<1> DEFINE S == {"nul"}
           i == o + 2
           f == Find(S, i)
<1>0. Len(text) \in Nat /\ DOMAIN text = 1..Len(text) /\ (\A j : j \notin 1..Len(text) => Ch(j) = "nul")
      /\ \A j \in 1..Len(text) : Ch(j) = text[j]
  BY CharacterAt
<1>1. f = Len(text) + 1
  <2>1. f \in i..Len(text) + 1 /\ Ch(f) \in S
    <3>1. "nul" \in S /\ i \in 1..Len(text) + 1
      OBVIOUS
    <3> HIDE DEF S, i
    <3>2. QED
      BY <3>1, FindIs
  <2>2. f \in 1..Len(text) => Ch(f) # "nul"
    BY ConventionalIs
  <2> HIDE DEF f
  <2>3. QED
    BY <1>0, <2>1, <2>2
<1>2. Closings(o + 2) = {j \in i..f : Ch(j) = "star" /\ Ch(j + 1) = "slash"}
  BY DEF Closings
<1> HIDE DEF f
<1>3. ASSUME NEW j \in i..f, Ch(j) = "star", Ch(j + 1) = "slash" PROVE j \in ClosesAfter(o)
  <2>1. j \in 1..Len(text) /\ j + 1 \in 1..Len(text)
    BY <1>0, <1>3
  <2>2. text[j] = "star" /\ text[j + 1] = "slash"
    BY <1>0, <1>3, <2>1
  <2>3. QED
    BY <1>0, <2>1, <2>2 DEF ClosesAfter, Has
<1>4. ASSUME NEW j \in ClosesAfter(o) PROVE j \in i..f /\ Ch(j) = "star" /\ Ch(j + 1) = "slash"
  <2>1. j \in o + 2..Len(text) /\ j \in 1..Len(text) /\ j + 1 \in 1..Len(text)
        /\ text[j] = "star" /\ text[j + 1] = "slash"
    BY <1>0 DEF ClosesAfter, Has
  <2>2. QED
    BY <1>0, <1>1, <2>1
<1>5. QED
  BY <1>2, <1>3, <1>4

LEMMA PairAt ==
  ASSUME text \in Seq(Characters), Conventional,
         NEW c, NEW k \in Spans, SkippedAt(k), CommentAt(c, k.from)
  PROVE  Pairs(c, k) /\ Meets(Behind(c), Past(k))
<1> DEFINE o == k.from
<1>0. /\ Len(text) \in Nat /\ DOMAIN text = 1..Len(text)
      /\ \A j \in 1..Len(text) : Ch(j) = text[j]
  BY CharacterAt
<1>1. /\ o \in 1..Len(text) /\ o + 1 \in 1..Len(text) /\ k.to \in o + 2..Len(text) + 1
      /\ Past(k) \in o + 2..Len(text) + 1
  BY SkippedIs
<1>2. /\ c.from = o + 2 /\ c.to \in o + 2..Len(text) + 1
      /\ Behind(c) \in o + 2..Len(text) + 1 /\ text[o + 1] = Ch(o + 1)
      /\ text[c.from - 1] = text[o + 1]
  <2>1. c.from = o + 2 /\ c.to \in o + 2..Len(text) + 1 /\ Behind(c) \in o + 2..Len(text) + 1
    BY <1>1, CommentIs
  <2>2. c.from - 1 = o + 1
    BY <1>1, <2>1
  <2>3. QED
    BY <1>0, <1>1, <2>1, <2>2
<1> HIDE DEF o
<1>3. CASE text[o + 1] = "slash"
  <2> DEFINE S == {"lf", "nul"}
             i == o + 2
             e == EndOfLine(i)
             f == Find(S, i)
  <2>0. i \in 1..Len(text) + 1 /\ "nul" \in S
    BY <1>0, <1>1
  <2>1. c.to = e /\ k.to = f /\ Behind(c) = e /\ Past(k) = IF Ch(f) = "lf" THEN f + 1 ELSE f
    <3>1. c.to = e
      BY <1>0, <1>1, <1>3 DEF CommentAt, StartsAt, Has, o
    <3>2. k.to = f
      BY <1>2, <1>3 DEF SkippedAt, o
    <3>3. Behind(c) = c.to
      BY <1>2, <1>3 DEF Behind
    <3>4. Past(k) = IF Ch(k.to) = "lf" THEN k.to + 1 ELSE k.to
      BY <1>2, <1>3 DEF Past, o
    <3> HIDE DEF e, f
    <3>5. QED
      BY <3>1, <3>2, <3>3, <3>4
  <2>2. /\ e \in i..Len(text) + 1 /\ (e # Len(text) + 1 => text[e] \in {"lf", "cr"})
        /\ \A j \in i..Len(text) : j < e => text[j] \notin {"lf", "cr"}
    <3> HIDE DEF i
    <3>1. QED
      BY <2>0, EndOfLineIs
  <2>3. /\ f \in i..Len(text) + 1 /\ Ch(f) \in S
        /\ \A j \in i..Len(text) + 1 : j < f => Ch(j) \notin S
    <3> HIDE DEF i, S
    <3>1. QED
      BY <2>0, FindIs
  <2> HIDE DEF e, f
  <2>4. i \in Nat /\ i >= 1
    BY <2>0, <1>0
  <2> HIDE DEF i
  <2>5. f # Len(text) + 1 => f \in 1..Len(text) /\ text[f] = "lf"
    <3>1. f # Len(text) + 1 => f \in 1..Len(text)
      BY <1>0, <2>3, <2>4
    <3>2. QED
      BY <1>0, <2>3, <3>1, ConventionalIs
  <2>6. e <= f
    <3>1. CASE f = Len(text) + 1
      BY <1>0, <2>2, <2>4, <3>1
    <3>2. CASE f # Len(text) + 1
      BY <1>0, <2>2, <2>3, <2>4, <2>5, <3>2
    <3>3. QED
      BY <3>1, <3>2
  <2> HIDE DEF S
  <2>6a. e \in Nat /\ f \in Nat /\ e <= Len(text) + 1 /\ f <= Len(text) + 1 /\ e >= i /\ f >= i
    BY <1>0, <2>2, <2>3, <2>4
  <2>7. e = f \/ (e = f - 1 /\ text[e] = "cr")
    <3>1. CASE e = Len(text) + 1
      BY <1>0, <2>6, <2>6a, <3>1
    <3>2. CASE e # Len(text) + 1 /\ text[e] = "lf"
      <4>1. e \in 1..Len(text) /\ Ch(e) \in S
        BY <1>0, <2>4, <2>6a, <3>2 DEF S
      <4>2. ~(e < f)
        BY <1>0, <2>2, <2>3, <4>1
      <4>3. QED
        BY <2>6, <2>6a, <4>2
    <3>3. CASE e # Len(text) + 1 /\ text[e] = "cr"
      <4>1. e \in 1..Len(text) /\ e + 1 \in 1..Len(text) /\ Ch(e) \notin S /\ Ch(e + 1) \in S
        BY <1>0, <2>4, <2>6a, <3>3, ConventionalIs DEF S
      <4>2. e # f /\ ~(e + 1 < f)
        BY <1>0, <2>2, <2>3, <2>4, <4>1
      <4>3. QED
        BY <2>6, <2>6a, <3>3, <4>2
    <3>4. QED
      BY <2>2, <3>1, <3>2, <3>3
  <2>8. Pairs(c, k)
    BY <1>2, <1>3, <2>1, <2>7 DEF Pairs, o
  <2>9. Meets(Behind(c), Past(k))
    <3>1. e <= Past(k)
      BY <1>0, <2>1, <2>3, <2>4, <2>2, <2>6
    <3>2. ASSUME NEW l \in e..Past(k) - 1 PROVE text[l] \in {"lf", "cr"}
      <4>1. (l = e /\ text[e] = "cr") \/ (l = f /\ Ch(f) = "lf")
        BY <2>1, <2>7, <2>6a
      <4>2. Ch(f) = "lf" => text[f] = "lf"
        <5>1. Ch(f) = "lf" => f # Len(text) + 1
          BY <1>0, CharacterAt
        <5>2. QED
          BY <2>5, <5>1
      <4>3. QED
        BY <4>1, <4>2
    <3>3. {"lf", "cr"} \subseteq Spaces
      BY DEF Spaces, Blanks
    <3>4. QED
      BY <2>1, <3>1, <3>2, <3>3 DEF Meets, Gap
  <2>10. QED
    BY <2>8, <2>9
<1>4. CASE text[o + 1] = "star"
  <2>1. Closings(o + 2) = ClosesAfter(o)
    <3>1. o \in Nat /\ o + 2 \in 1..Len(text) + 1
      BY <1>0, <1>1
    <3>2. QED
      BY <3>1, ClosingsAre
  <2>2. c.to = Min(ClosesAfter(o))
    BY <1>0, <1>1, <1>4 DEF CommentAt, StartsAt, Has, o
  <2>3. k.to = Min(ClosesAfter(o)) + 2
    BY <1>2, <1>4, <2>1 DEF SkippedAt, o
  <2>4. Behind(c) = c.to + 2 /\ Past(k) = k.to
    BY <1>2, <1>4 DEF Behind, Past, o
  <2>5. c.to = k.to - 2 /\ Behind(c) = Past(k)
    BY <1>0, <1>1, <1>2, <2>2, <2>3, <2>4
  <2>6. QED
    BY <1>1, <1>2, <1>4, <2>5 DEF Pairs, Meets, Gap, o
<1>5. QED
  BY <1>1, <1>3, <1>4, CommentIs DEF o

\* What is blank to the lexer is blank to the metadata reader.
LEMMA GapBlank ==
  ASSUME text \in Seq(Characters), NEW r \in 1..Len(text) + 1, NEW g \in 1..Len(text) + 1,
         NEW p \in 1..Len(text) + 1, Meets(r, g), g <= p, Blank(g, p)
  PROVE  r <= p /\ Gap(r, p)
<1>0. Len(text) \in Nat /\ \A i \in 1..Len(text) : Ch(i) = text[i]
  BY CharacterAt
<1>1. ASSUME NEW l \in r..p - 1 PROVE text[l] \in Spaces
  <2>1. CASE l < g
    <3>1. l \in r..g - 1
      BY <1>0, <2>1
    <3>2. QED
      BY <3>1 DEF Meets, Gap
  <2>2. CASE ~(l < g)
    <3>1. l \in g..p - 1 /\ l \in 1..Len(text)
      BY <1>0, <2>2
    <3>2. text[l] \in Blanks
      BY <1>0, <3>1 DEF Blank
    <3>3. QED
      BY <3>2 DEF Spaces
  <2>3. QED
    BY <2>1, <2>2
<1>2. r <= p
  BY <1>0 DEF Meets
<1>3. QED
  BY <1>1, <1>2 DEF Gap

\* The first n comments are the same to both, and they go on at the same place.
Aligned(cs, ks, n) ==
  /\ n <= Len(cs) /\ \A i \in 1..n : Pairs(cs[i], ks[i])
  /\ Meets(Resumes(cs, n), GoesOn(ks, n))

LEMMA AlignedGrows ==
  ASSUME text \in Seq(Characters), Conventional, NEW cs, Whole(cs),
         NEW ks \in Seq(Spans), NEW m \in 0..Len(ks), SkipsTo(ks, m),
         NEW n \in Nat, n < m, Aligned(cs, ks, n)
  PROVE  Aligned(cs, ks, n + 1)
<1>0. /\ Len(text) \in Nat /\ Len(cs) \in Nat /\ Len(ks) \in Nat
      /\ cs \in Seq(Spans) /\ Leads(cs)
  BY CharacterAt, LenProperties DEF Whole
<1> DEFINE j == n + 1
           k == ks[j]
           r == Resumes(cs, n)
           g == GoesOn(ks, n)
           o == k.from
<1>1. j \in 1..m /\ j \in 1..Len(ks) /\ j - 1 = n /\ n \in 0..Len(ks) /\ n \in 0..Len(cs)
  BY <1>0 DEF Aligned
<1> HIDE DEF j
<1>2. k \in Spans /\ SkippedAt(k) /\ o \in g..Len(text) /\ Blank(g, o)
  <2>1. k \in Spans
    BY <1>1, ElementOfSeq
  <2>2. SkippedAt(k) /\ o \in GoesOn(ks, j - 1)..Len(text) /\ Blank(GoesOn(ks, j - 1), o)
    BY <1>1 DEF SkipsTo
  <2>3. QED
    BY <1>1, <2>1, <2>2
<1>3. o \in 1..Len(text) /\ Ch(o) = "slash"
  BY <1>2, SkippedIs DEF SkippedAt
<1>4. r \in 1..Len(text) + 1 /\ g \in 1..Len(text) + 1
  <2>1. SkipsTo(ks, n)
    <3>1. \A i \in 1..n : i \in 1..m
      OBVIOUS
    <3>2. QED
      BY <3>1 DEF SkipsTo
  <2>2. QED
    BY <1>0, <1>1, <2>1, ResumesIn, GoesOnIn
<1> HIDE DEF k, r, g, o
<1>5. r <= o /\ Gap(r, o)
  <2>1. g <= o /\ o \in 1..Len(text) + 1 /\ Meets(r, g)
    BY <1>0, <1>2, <1>3, <1>4 DEF Aligned, r, g
  <2>2. QED
    BY <1>2, <1>4, <2>1, GapBlank
<1>6. text[o] = "slash" /\ text[o] \notin Spaces
  BY <1>3, CharacterAt DEF Spaces, Blanks
<1>7. n < Len(cs)
  <2>1. ASSUME n = Len(cs) PROVE FALSE
    <3>1. PICK a \in r..Len(text) + 1 : Gap(r, a) /\ StopsAt(a)
      BY <2>1 DEF Whole, EndsBehind, r
    <3>2. a = o
      <4>1. a \in 1..Len(text) => text[a] \notin Spaces
        BY <3>1 DEF StopsAt
      <4>2. r \in Nat /\ r >= 1 /\ o \in Nat /\ a \in Nat /\ o >= r /\ a >= r
            /\ o <= Len(text) + 1 /\ a <= Len(text) + 1
        BY <1>0, <1>3, <1>4, <1>5, <3>1
      <4>3. QED
        BY <1>0, <1>5, <1>6, <3>1, <4>1, <4>2, OnePlace
    <3>3. /\ ~StartsAt(o, "slash") /\ ~(StartsAt(o, "star") /\ ClosesAfter(o) # {})
      BY <1>3, <3>1, <3>2 DEF StopsAt
    <3>4. o + 1 \in 1..Len(text) /\ DOMAIN text = 1..Len(text) /\ text[o + 1] = Ch(o + 1)
      BY <1>2, SkippedIs, CharacterAt DEF o
    <3>5. Ch(o + 1) = "star" /\ Closings(o + 2) # {}
      BY <1>2, <1>3, <1>6, <3>3, <3>4 DEF SkippedAt, StartsAt, Has, o
    <3>6. Closings(o + 2) = ClosesAfter(o)
      <4>1. o \in Nat /\ o + 2 \in 1..Len(text) + 1
        BY <1>0, <1>3, <3>4
      <4>2. QED
        BY <4>1, ClosingsAre
    <3>7. QED
      BY <1>3, <1>6, <3>3, <3>4, <3>5, <3>6 DEF StartsAt, Has
  <2>2. QED
    BY <1>0, <2>1 DEF Aligned
<1> DEFINE c == cs[j]
           q == c.from - 2
<1>8. OpensBehind(r, q) /\ CommentAt(c, q)
  <2>1. j \in 1..Len(cs)
    BY <1>0, <1>1, <1>7
  <2>2. OpensBehind(Resumes(cs, j - 1), q) /\ CommentAt(c, q)
    BY <1>0, <2>1 DEF Leads
  <2>3. QED
    BY <1>1, <2>2 DEF r
<1> HIDE DEF c, q
<1>9. q = o
  <2>1. q \in r..Len(text) /\ Gap(r, q) /\ q \in 1..Len(text)
    BY <1>0, <1>4, <1>8 DEF OpensBehind
  <2>2. text[q] \notin Spaces
    BY <1>8, <2>1, CommentIs
  <2>3. r \in Nat /\ r >= 1 /\ o \in Nat /\ q \in Nat /\ o >= r /\ q >= r
        /\ o <= Len(text) + 1 /\ q <= Len(text) + 1
    BY <1>0, <1>3, <1>4, <1>5, <2>1
  <2>4. QED
    BY <1>0, <1>5, <1>6, <2>1, <2>2, <2>3, OnePlace
<1>10. Pairs(c, k) /\ Meets(Behind(c), Past(k))
  BY <1>2, <1>8, <1>9, PairAt DEF o
<1>11. Resumes(cs, j) = Behind(c) /\ GoesOn(ks, j) = Past(k)
  BY <1>1 DEF Resumes, GoesOn, c, k
<1>12. ASSUME NEW i \in 1..j PROVE Pairs(cs[i], ks[i])
  <2>1. CASE i = j
    BY <1>10, <2>1 DEF c, k
  <2>2. CASE i # j
    <3>1. i \in 1..n
      BY <1>1, <2>2
    <3>2. QED
      BY <3>1 DEF Aligned
  <2>3. QED
    BY <2>1, <2>2
<1>13. Aligned(cs, ks, j)
  BY <1>0, <1>1, <1>7, <1>10, <1>11, <1>12 DEF Aligned
<1>14. QED
  BY <1>13 DEF j

LEMMA SameComments ==
  ASSUME text \in Seq(Characters), Conventional, NEW cs, Whole(cs),
         NEW ks \in Seq(Spans), NEW n \in 0..Len(ks), NEW p \in 1..Len(text) + 1,
         Stands(ks, n, p), LexerStopsAt(p)
  PROVE  n = Len(cs) /\ \A i \in 1..n : Pairs(cs[i], ks[i])
<1>0. /\ Len(text) \in Nat /\ Len(cs) \in Nat /\ Len(ks) \in Nat /\ n \in Nat
      /\ cs \in Seq(Spans) /\ Leads(cs) /\ SkipsTo(ks, n)
  BY CharacterAt, LenProperties DEF Whole, Stands
<1> DEFINE T == {m \in 0..n : Aligned(cs, ks, m)}
<1>1. 0 \in T
  <2>1. Meets(1, 1) /\ Resumes(cs, 0) = 1 /\ GoesOn(ks, 0) = 1
    BY DEF Meets, Gap, Resumes, GoesOn
  <2>2. QED
    BY <1>0, <2>1 DEF Aligned
<1>2. ASSUME NEW m \in Nat, m < n, m \in T PROVE m + 1 \in T
  <2>1. Aligned(cs, ks, m + 1)
    BY <1>0, <1>2, AlignedGrows
  <2>2. QED
    BY <1>0, <1>2, <2>1
<1>3. Aligned(cs, ks, n)
  <2>1. 0..n \subseteq T
    <3> HIDE DEF T
    <3>1. QED
      BY <1>0, <1>1, <1>2, CountUp
  <2>2. QED
    BY <1>0, <2>1
<1> DEFINE r == Resumes(cs, n)
           g == GoesOn(ks, n)
<1>4. r \in 1..Len(text) + 1 /\ g \in 1..Len(text) + 1
  <2>1. n \in 0..Len(cs)
    BY <1>0, <1>3 DEF Aligned
  <2>2. QED
    BY <1>0, <2>1, ResumesIn, GoesOnIn
<1> HIDE DEF r, g
<1>5. r <= p /\ Gap(r, p)
  <2>1. Meets(r, g) /\ g <= p /\ Blank(g, p)
    BY <1>3 DEF Aligned, Stands, r, g
  <2>2. QED
    BY <1>4, <2>1, GapBlank
<1>6. ASSUME n < Len(cs) PROVE FALSE
  <2> DEFINE j == n + 1
             c == cs[j]
             o == c.from - 2
  <2>1. j \in 1..Len(cs) /\ j - 1 = n
    BY <1>0, <1>6
  <2> HIDE DEF j
  <2>2. OpensBehind(r, o) /\ CommentAt(c, o)
    <3>1. OpensBehind(Resumes(cs, j - 1), o) /\ CommentAt(c, o)
      BY <1>0, <2>1 DEF Leads
    <3>2. QED
      BY <2>1, <3>1 DEF r
  <2> HIDE DEF c, o
  <2>3. o \in r..Len(text) /\ Gap(r, o) /\ o \in 1..Len(text)
    BY <1>0, <1>4, <2>2 DEF OpensBehind
  <2>4. text[o] \notin Spaces /\ o + 1 \in 1..Len(text)
    BY <2>2, <2>3, CommentIs
  <2>5. p \in 1..Len(text) => text[p] \notin Spaces
    <3>1. ASSUME p \in 1..Len(text) PROVE text[p] \notin Spaces
      <4>1. Ch(p) = text[p] /\ text[p] # "vt"
        BY <3>1, ConventionalIs
      <4>2. Ch(p) \notin Blanks
        BY DEF LexerStopsAt
      <4>3. QED
        BY <4>1, <4>2 DEF Spaces
    <3>2. QED
      BY <3>1
  <2>6. o = p
    <3>1. r \in Nat /\ r >= 1 /\ o \in Nat /\ p \in Nat /\ o >= r /\ p >= r
          /\ o <= Len(text) + 1 /\ p <= Len(text) + 1
      BY <1>0, <1>4, <1>5, <2>3
    <3>2. QED
      BY <1>0, <1>5, <2>3, <2>4, <2>5, <3>1, OnePlace
  <2>7. Ch(o) = text[o] /\ Ch(o + 1) = text[o + 1]
    BY <2>3, <2>4, CharacterAt
  <2>8. Closings(o + 2) = ClosesAfter(o)
    <3>1. o \in Nat /\ o + 2 \in 1..Len(text) + 1
      BY <1>0, <2>3, <2>4
    <3>2. QED
      BY <3>1, ClosingsAre
  <2>9. /\ ~(Ch(o) = "slash" /\ Ch(o + 1) = "slash")
        /\ ~(Ch(o) = "slash" /\ Ch(o + 1) = "star" /\ Closings(o + 2) # {})
    BY <2>6 DEF LexerStopsAt
  <2>10. QED
    BY <2>2, <2>7, <2>8, <2>9 DEF CommentAt, StartsAt, Has
<1>7. n = Len(cs)
  BY <1>0, <1>3, <1>6 DEF Aligned
<1>8. QED
  BY <1>3, <1>7 DEF Aligned

\* When the lexer has stopped, its leading comments are those of the metadata reader.
LEMMA LeadingPairs ==
  ASSUME LexerInv, MetadataInv, LeadingInv, resolving # "comments", Conventional, lexing # "on"
  PROVE  /\ Leading = 1..Len(comments)
         /\ \A i \in 1..Len(comments) : Pairs(comments[i], skipped[i]) /\ skipped[i] \in Spans
<1>0. /\ text \in Seq(Characters) /\ pos \in 1..Len(text) + 1 /\ Len(text) \in Nat
      /\ skipped \in Seq(Spans) /\ Len(skipped) \in Nat /\ DOMAIN skipped = 1..Len(skipped)
  BY LenProperties DEF LexerInv, Spans
<1>1. Whole(comments)
  BY <1>0, WholeNow
<1>2. ASSUME NEW n \in 0..Len(skipped), NEW p \in 1..Len(text) + 1,
             Stands(skipped, n, p), LexerStopsAt(p)
      PROVE  /\ n = Len(comments)
             /\ \A i \in 1..Len(comments) : Pairs(comments[i], skipped[i]) /\ skipped[i] \in Spans
  <2>1. n = Len(comments) /\ \A i \in 1..n : Pairs(comments[i], skipped[i])
    BY <1>0, <1>1, <1>2, SameComments
  <2>2. \A i \in 1..n : skipped[i] \in Spans
    <3>1. \A i \in 1..n : i \in 1..Len(skipped)
      BY <1>0
    <3>2. QED
      BY <1>0, <3>1, ElementOfSeq
  <2>3. QED
    BY <2>1, <2>2
<1>3. CASE lexed = << >>
  <2>1. Stands(skipped, Len(skipped), pos) /\ LexerStopsAt(pos)
    BY <1>3 DEF LeadingInv
  <2>2. Len(skipped) \in 0..Len(skipped)
    BY <1>0
  <2>3. Leading = 1..Len(skipped)
    BY <1>0, <1>3 DEF Leading
  <2>4. QED
    BY <1>0, <1>2, <2>1, <2>2, <2>3
<1>4. CASE lexed # << >>
  <2> DEFINE p == lexed[1].from
  <2>1. LexerStopsAt(p) /\ \E n \in 0..Len(skipped) :
          Stands(skipped, n, p) /\ \A i \in n + 1..Len(skipped) : skipped[i].from > p
    BY <1>4 DEF LeadingInv
  <2>2. PICK n \in 0..Len(skipped) :
          Stands(skipped, n, p) /\ \A i \in n + 1..Len(skipped) : skipped[i].from > p
    BY <2>1
  <2>3. p \in 1..Len(text) + 1
    <3>1. 1 \in 1..Len(lexed)
      BY <1>4, LenProperties, EmptySeq DEF LexerInv
    <3>2. QED
      BY <1>0, <3>1 DEF LexerInv
  <2>4. Leading = {i \in 1..Len(skipped) : skipped[i].from < p}
    BY <1>0, <1>4 DEF Leading
  <2> HIDE DEF p
  <2>5. \A i \in 1..n : skipped[i].from < p
    BY <2>2 DEF Stands
  <2>6. ASSUME NEW i \in 1..Len(skipped) PROVE skipped[i].from < p <=> i \in 1..n
    <3>1. skipped[i] \in Spans
      BY <1>0, ElementOfSeq
    <3>2. skipped[i].from \in Nat
      BY <3>1 DEF Spans
    <3>3. CASE i \in 1..n
      BY <2>5, <3>3
    <3>4. CASE i \notin 1..n
      <4>1. i \in n + 1..Len(skipped)
        BY <1>0, <3>4
      <4>2. skipped[i].from > p
        BY <2>2, <4>1
      <4>3. QED
        BY <1>0, <2>3, <3>2, <3>4, <4>2
    <3>5. QED
      BY <3>3, <3>4
  <2>7. Leading = 1..n
    <3>1. \A i \in 1..n : i \in 1..Len(skipped)
      BY <1>0
    <3>2. QED
      BY <2>4, <2>6, <3>1
  <2>8. QED
    BY <1>2, <2>1, <2>2, <2>3, <2>7
<1>5. QED
  BY <1>3, <1>4

\* The lexer begins when the file's table has been resolved.
Begun == lexing # "on" => resolving = "resolved"

LEMMA BegunHolds == Spec => []Begun
<1>1. Init => Begun
  BY DEF Init, LexerInit, Begun
<1>2. Begun /\ [Next]_vars => Begun'
  BY DEF Begun, Next, vars, lexerVars, metadataVars
<1>3. QED
  BY <1>1, <1>2, PTL DEF Spec

(***************************************************************************)
(* In a text without a vertical tab, a byte 0 or a carriage return that no *)
(* newline follows, the comments in which ParseSource looks for directives *)
(* (filemeta's leadingComments) are those the lexer's skipComment and      *)
(* skipBlockComment drop in front of the first token.                      *)
(***************************************************************************)
THEOREM ReadersSkipTheSame == Spec => []SameLeadingComments
<1>1. LexerInv /\ MetadataInv /\ LeadingInv /\ Begun => SameLeadingComments
  <2> SUFFICES ASSUME LexerInv, MetadataInv, LeadingInv, Begun, Conventional, lexing # "on"
               PROVE  /\ DOMAIN comments = Leading
                      /\ \A i \in Leading :
                           /\ comments[i].from = skipped[i].from + 2
                           /\ comments[i].to <= skipped[i].to
    BY DEF SameLeadingComments
  <2>1. /\ Leading = 1..Len(comments)
        /\ \A i \in 1..Len(comments) : Pairs(comments[i], skipped[i]) /\ skipped[i] \in Spans
    BY LeadingPairs DEF Begun
  <2>2. DOMAIN comments = 1..Len(comments)
    BY LenProperties DEF MetadataInv
  <2>3. ASSUME NEW i \in Leading
        PROVE  comments[i].from = skipped[i].from + 2 /\ comments[i].to <= skipped[i].to
    <3>1. Pairs(comments[i], skipped[i]) /\ skipped[i] \in Spans
      BY <2>1
    <3>2. skipped[i].to \in Nat
      BY <3>1 DEF Spans
    <3>3. QED
      BY <3>1, <3>2 DEF Pairs
  <2>4. QED
    BY <2>1, <2>2, <2>3
<1>2. QED
  BY <1>1, LexerInvHolds, MetadataInvHolds, LeadingInvHolds, BegunHolds, PTL

-----------------------------------------------------------------------------
(***************************************************************************)
(* The same comments give the same directives.                             *)
(***************************************************************************)
LEMMA SameInside ==
  ASSUME text \in Seq(Characters), NEW c, NEW k \in Spans, Pairs(c, k)
  PROVE  Inside(k) = NonSpaces(c)
<1>1. k.from \in Nat /\ k.to \in Nat
  BY DEF Spans
<1>2. k.from + 2 - 1 = k.from + 1 /\ c.from = k.from + 2
  BY <1>1 DEF Pairs
<1>3. CASE text[k.from + 1] = "slash" /\ c.to = k.to
  <2>1. Inside(k) = {i \in k.from + 2..k.to - 1 : text[i] \notin Spaces}
    BY <1>3 DEF Inside
  <2>2. QED
    BY <1>2, <1>3, <2>1 DEF NonSpaces
<1>4. CASE text[k.from + 1] = "slash" /\ c.to = k.to - 1 /\ text[c.to] = "cr"
  <2>1. Inside(k) = {i \in k.from + 2..k.to - 1 : text[i] \notin Spaces}
    BY <1>4 DEF Inside
  <2>2. text[c.to] \in Spaces
    BY <1>4 DEF Spaces, Blanks
  <2>3. \A i : (i \in k.from + 2..k.to - 1 /\ i # c.to) <=> i \in c.from..c.to - 1
    BY <1>1, <1>2, <1>4
  <2>4. QED
    BY <2>1, <2>2, <2>3 DEF NonSpaces
<1>5. CASE text[k.from + 1] = "star" /\ c.to = k.to - 2
  <2>1. Inside(k) = {i \in k.from + 2..k.to - 3 : text[i] \notin Spaces}
    BY <1>5 DEF Inside
  <2>2. c.to - 1 = k.to - 3
    BY <1>1, <1>5
  <2>3. QED
    BY <1>2, <2>1, <2>2 DEF NonSpaces
<1>6. QED
  BY <1>3, <1>4, <1>5 DEF Pairs

\* Comments of which each says what the lexer's says give what the lexer's give.
SameSaid(cs) ==
  Leading = 1..Len(cs) /\ \A i \in Leading : Inside(skipped[i]) = NonSpaces(cs[i])

\* What a directive gives is the last of its parameters with the key.
WithKey(d, k) == {i \in DOMAIN Parameters[d] : Parameters[d][i].key = k}
LastOf(d, k) ==
  {Parameters[d][i].value : i \in {i \in DOMAIN Parameters[d] : IsLastOf(Parameters[d], k, i)}}
GivenOf(d, k) == IF WithKey(d, k) = {} THEN "unset" ELSE Parameters[d][Max(WithKey(d, k))].value

LEMMA LastGiven ==
  ASSUME NEW d \in Directives, NEW k
  PROVE  LastOf(d, k) = {GivenOf(d, k)} \ {"unset"}
<1> DEFINE ps == Parameters[d]
           Lasts == {i \in DOMAIN ps : IsLastOf(ps, k, i)}
           With == {i \in DOMAIN ps : ps[i].key = k}
<1>0. /\ LastOf(d, k) = {ps[i].value : i \in Lasts}
      /\ GivenOf(d, k) = IF With = {} THEN "unset" ELSE ps[Max(With)].value
  BY DEF LastOf, GivenOf, WithKey
<1>1. Len(ps) \in Nat /\ DOMAIN ps = 1..Len(ps) /\ \A i \in DOMAIN ps : ps[i].value # "unset"
  BY DirectivesAssumption
<1>2. CASE With = {}
  <2>1. Lasts = {}
    BY <1>2 DEF IsLastOf
  <2>2. QED
    BY <1>0, <1>2, <2>1
<1>3. CASE With # {}
  <2>1. With \subseteq 1..Len(ps)
    BY <1>1
  <2>2. Max(With) \in With /\ \A m \in With : m <= Max(With)
    <3> HIDE DEF ps, With
    <3>1. QED
      BY <1>1, <1>3, <2>1, MaxIsGreatest
  <2>3. PICK last \in With : last = Max(With) /\ \A m \in With : m <= last
    BY <2>2
  <2>4. ASSUME NEW i \in DOMAIN ps PROVE IsLastOf(ps, k, i) <=> i = last
    <3>1. i \in Int /\ last \in Int /\ last \in DOMAIN ps /\ ps[last].key = k
      BY <1>1, <2>1, <2>3
    <3>2. ASSUME IsLastOf(ps, k, i) PROVE i = last
      <4>1. i \in With /\ ~(last > i)
        BY <3>1, <3>2 DEF IsLastOf
      <4>2. QED
        BY <2>3, <3>1, <4>1
    <3>3. ASSUME NEW j \in DOMAIN ps, j > last PROVE ps[j].key # k
      <4>1. j \in Int /\ ~(j <= last)
        BY <1>1, <3>1, <3>3
      <4>2. j \notin With
        BY <2>3, <4>1
      <4>3. QED
        BY <4>2
    <3>4. IsLastOf(ps, k, last)
      BY <3>1, <3>3 DEF IsLastOf
    <3>5. QED
      BY <3>2, <3>4
  <2>5. Lasts = {last}
    BY <2>1, <2>3, <2>4
  <2>6. {ps[i].value : i \in Lasts} = {ps[last].value} /\ ps[last].value # "unset"
    BY <1>1, <2>1, <2>3, <2>5
  <2>7. QED
    BY <1>0, <1>3, <2>3, <2>6
<1>4. QED
  BY <1>2, <1>3

LEMMA SameGiven ==
  ASSUME NEW cs, SameSaid(cs)
  PROVE  /\ \A k \in Keys : Values(k) = GivenIn(cs, k)
         /\ Wrong <=> WrongIn(cs)
<1> DEFINE D(i) == text[Min(Inside(skipped[i]))]
<1>1. ASSUME NEW i \in Leading
      PROVE  /\ IsDirective(cs[i]) <=> Inside(skipped[i]) # {} /\ D(i) \in Directives
             /\ NonSpaces(cs[i]) = Inside(skipped[i])
             /\ IsMalformed(cs[i]) <=>
                  \E j \in Inside(skipped[i]) : j # Min(Inside(skipped[i])) /\ D(i) \in Directives
  BY <1>1 DEF SameSaid, IsDirective, IsMalformed
<1>2. ASSUME NEW i \in Leading, NEW k \in Keys
      PROVE  {GivenBy(cs[i])[k]} \ {"unset"} = IF IsDirective(cs[i]) THEN LastOf(D(i), k) ELSE {}
  <2>1. GivenBy(cs[i])[k] = IF IsDirective(cs[i]) THEN GivenOf(D(i), k) ELSE "unset"
    BY <1>1 DEF GivenBy, GivenOf, WithKey
  <2>2. CASE ~IsDirective(cs[i])
    BY <2>1, <2>2
  <2>3. CASE IsDirective(cs[i])
    <3>1. D(i) \in Directives
      BY <1>1, <2>3
    <3>2. LastOf(D(i), k) = {GivenOf(D(i), k)} \ {"unset"}
      BY <3>1, LastGiven
    <3>3. QED
      BY <2>1, <2>3, <3>2
  <2>4. QED
    BY <2>2, <2>3
<1>3. ASSUME NEW k \in Keys PROVE Values(k) = GivenIn(cs, k)
  <2>1. Leading = 1..Len(cs)
    BY DEF SameSaid
  <2>2. Given = {D(i) : i \in {i \in Leading : IsDirective(cs[i])}}
    BY <1>1 DEF Given
  <2>3. Values(k) = UNION {LastOf(d, k) : d \in Given}
    BY DEF Values, LastOf
  <2> HIDE DEF D
  <2>4. \A v : v \in Values(k) <=> \E i \in Leading : IsDirective(cs[i]) /\ v \in LastOf(D(i), k)
    BY <2>2, <2>3
  <2>5. \A v : v \in GivenIn(cs, k) <=> \E i \in Leading : v \in {GivenBy(cs[i])[k]} \ {"unset"}
    BY <2>1 DEF GivenIn
  <2>6. ASSUME NEW i \in Leading, NEW v
        PROVE  v \in {GivenBy(cs[i])[k]} \ {"unset"} <=> IsDirective(cs[i]) /\ v \in LastOf(D(i), k)
    <3>1. {GivenBy(cs[i])[k]} \ {"unset"} = IF IsDirective(cs[i]) THEN LastOf(D(i), k) ELSE {}
      BY <1>2
    <3>2. QED
      BY <3>1
  <2>7. \A v : v \in Values(k) <=> v \in GivenIn(cs, k)
    BY <2>4, <2>5, <2>6
  <2>8. QED
    BY <2>7
<1>4. (\E i \in 1..Len(cs) : IsMalformed(cs[i])) <=>
      \E i \in Leading : \E j \in Inside(skipped[i]) :
        j # Min(Inside(skipped[i])) /\ text[Min(Inside(skipped[i]))] \in Directives
  <2>1. Leading = 1..Len(cs)
    BY DEF SameSaid
  <2>2. QED
    BY <1>1, <2>1
<1>5. QED
  BY <1>3, <1>4 DEF Wrong, WrongIn

LEMMA SamePossible ==
  ASSUME NEW cs, SameSaid(cs)
  PROVE  PossibleFrom(cs) = Possible
<1>1. (Wrong <=> WrongIn(cs)) /\ \A k \in Keys : Names(k) = NamesIn(cs, k)
  BY SameGiven DEF Names, NamesIn
<1>2. QED
  BY <1>1, KeysAre DEF PossibleFrom, Possible

(***************************************************************************)
(* In such a text the table of a file is the one that the directives in    *)
(* the comments the lexer skips name, base_table before table, unless one  *)
(* is malformed or two contradict each other; else the one the first       *)
(* sidecar there names, or one of those it names if it spells a key in two *)
(* ways (filemeta.ParseSource, parseParams and BaseTable, LoadSidecar and  *)
(* decodeSidecar, resolveFileBaseTable of main.go and server.go).          *)
(***************************************************************************)
THEOREM FilesNameTheirTable == Spec => []TableIsTheOneNamed
<1>1. LexerInv /\ MetadataInv /\ LeadingInv /\ Begun => TableIsTheOneNamed
  <2> SUFFICES ASSUME LexerInv, MetadataInv, LeadingInv, Begun, Conventional, lexing # "on"
               PROVE  answer \in Possible
    BY DEF TableIsTheOneNamed
  <2>1. text \in Seq(Characters) /\ resolving = "resolved"
    BY DEF LexerInv, Begun
  <2>2. /\ Leading = 1..Len(comments)
        /\ \A j \in 1..Len(comments) : Pairs(comments[j], skipped[j]) /\ skipped[j] \in Spans
    BY <2>1, LeadingPairs
  <2>3. SameSaid(comments)
    BY <2>1, <2>2, SameInside DEF SameSaid
  <2>4. answer \in PossibleFrom(comments)
    BY <2>1 DEF MetadataInv
  <2>5. QED
    BY <2>3, <2>4, SamePossible
<1>2. QED
  BY <1>1, LexerInvHolds, MetadataInvHolds, LeadingInvHolds, BegunHolds, PTL
=============================================================================
