--------------------------- MODULE SyntaxProofs -----------------------------
(****************************************************************************)
(* Proofs about the tokenizer and the parser. The tokenizer takes the      *)
(* characters of every text in their order, none of them twice, and comes  *)
(* to its end. Of any tokens the parser makes nodes no two of which share  *)
(* a token or an edge, keeps operators between their operands, and loses   *)
(* no node unless it says so. Of a text no more is used than that it has a *)
(* length.                                                                 *)
(****************************************************************************)
EXTENDS CaborParser, FiniteSetTheorems, SequenceTheorems, WellFoundedInduction, TLAPS

-----------------------------------------------------------------------------
(* Numbers and loops. *)

LEMMA SmallestNumber ==
    ASSUME NEW T, T \subseteq Nat, T # {}
    PROVE  \E n \in T : \A m \in T : n <= m
  <1>1. PICK n \in T : \A m \in T : <<m, n>> \notin OpToRel(<, Nat)
    BY NatLessThanWellFounded, WFMin
  <1>2. n \in Nat /\ \A m \in T : m \in Nat
    OBVIOUS
  <1>3. \A m \in T : ~(m < n)
    BY <1>1, <1>2 DEF OpToRel
  <1>4. \A m \in T : n <= m
    BY <1>2, <1>3
  <1> QED
    BY <1>4

\* The states of a loop, as Repeat has them.
Runs(s, round, first, rounds) ==
    s = [k \in 0 .. rounds |-> IF k = 0 THEN first ELSE round[s[k - 1]]]

\* The recursive function by which a loop is defined exists.
LEMMA LoopExists ==
    ASSUME NEW round, NEW first, NEW rounds \in Nat
    PROVE  \E s : Runs(s, round, first, rounds)
  <1> DEFINE Bad == {n \in Nat : ~ \E s : Runs(s, round, first, n)}
  <1>1. ASSUME Bad # {} PROVE FALSE
    <2>1. PICK n \in Bad : \A m \in Bad : n <= m
      BY <1>1, SmallestNumber
    <2>2. n \in Nat
      OBVIOUS
    <2>3. CASE n = 0
      <3> DEFINE s == [k \in 0 .. 0 |-> first]
      <3>1. s = [k \in 0 .. 0 |-> s[k]] /\ \A k \in 0 .. 0 : k = 0 /\ s[k] = first
        OBVIOUS
      <3> HIDE DEF s
      <3>2. Runs(s, round, first, 0)
        BY <3>1 DEF Runs
      <3> QED
        BY <2>1, <2>3, <3>2
    <2>4. CASE n # 0
      <3>1. n - 1 \in Nat /\ n - 1 \notin Bad
        BY <2>1, <2>2, <2>4
      <3>2. PICK s : Runs(s, round, first, n - 1)
        BY <3>1
      <3> DEFINE t == [k \in 0 .. n |-> IF k = n THEN round[s[n - 1]] ELSE s[k]]
      <3>3. \A k \in 0 .. n : t[k] = IF k = n THEN round[s[n - 1]] ELSE s[k]
        OBVIOUS
      <3>4. t = [k \in 0 .. n |-> t[k]]
        OBVIOUS
      <3> HIDE DEF t
      <3>5. ASSUME NEW k \in 0 .. n
            PROVE  t[k] = IF k = 0 THEN first ELSE round[t[k - 1]]
        <4>1. CASE k = n
          BY <4>1, <2>2, <2>4, <3>3
        <4>2. CASE k # n
          <5>1. k \in 0 .. n - 1 /\ (k # 0 => k - 1 \in 0 .. n - 1)
            BY <4>2, <2>2
          <5>2. s[k] = IF k = 0 THEN first ELSE round[s[k - 1]]
            BY <5>1, <3>2 DEF Runs
          <5>3. t[k] = s[k]
            BY <4>2, <3>3
          <5>4. k # 0 => t[k - 1] = s[k - 1]
            BY <5>1, <2>2, <3>3
          <5> QED
            BY <5>2, <5>3, <5>4
        <4> QED
          BY <4>1, <4>2
      <3>6. Runs(t, round, first, n)
        BY <3>4, <3>5 DEF Runs
      <3> QED
        BY <2>1, <3>6
    <2> QED
      BY <2>3, <2>4
  <1> QED
    BY <1>1

\* What holds before the first round and goes from round to round holds behind the last.
LEMMA RepeatReaches ==
    ASSUME NEW round, NEW first, NEW rounds \in Nat, NEW S,
           first \in S[0], \A k \in 0 .. rounds - 1 : \A x \in S[k] : round[x] \in S[k + 1]
    PROVE  Repeat(round, first, rounds) \in S[rounds]
  <1> DEFINE state == CHOOSE s : Runs(s, round, first, rounds)
  <1>1. Runs(state, round, first, rounds)
    BY LoopExists
  <1>2. Repeat(round, first, rounds) = state[rounds]
    BY DEF Repeat, Runs
  <1> HIDE DEF state
  <1> DEFINE Bad == {n \in Nat : n \in 0 .. rounds /\ state[n] \notin S[n]}
  <1>3. ASSUME Bad # {} PROVE FALSE
    <2>1. PICK n \in Bad : \A m \in Bad : n <= m
      BY <1>3, SmallestNumber
    <2>2. state[n] = IF n = 0 THEN first ELSE round[state[n - 1]]
      BY <1>1, <2>1 DEF Runs
    <2>3. n # 0 => n - 1 \in 0 .. rounds - 1 /\ n - 1 \notin Bad /\ n - 1 + 1 = n
      BY <2>1
    <2>4. n # 0 => state[n - 1] \in S[n - 1]
      BY <2>3
    <2>5. n # 0 => round[state[n - 1]] \in S[n]
      BY <2>3, <2>4
    <2> QED
      BY <2>1, <2>2, <2>5
  <1>4. rounds \notin Bad /\ rounds \in 0 .. rounds
    BY <1>3
  <1> QED
    BY <1>2, <1>4

-----------------------------------------------------------------------------
(* Where the scanners stop. *)

LEMMA MinIsIn ==
    ASSUME NEW T, T \subseteq Nat, T # {}
    PROVE  Min(T) \in T
  BY SmallestNumber DEF Min

\* A scan over characters of one kind stops behind the last of them.
StopsAt(text, i, chars, j) ==
    /\ j \in i .. Len(text) + 1
    /\ \A k \in i .. j - 1 : At(text, k) \in chars
    /\ j <= Len(text) => At(text, j) \notin chars

LEMMA EndOfStops ==
    ASSUME NEW text, Len(text) \in Nat, NEW chars, NEW i \in 1 .. Len(text) + 1
    PROVE  StopsAt(text, i, chars, EndOf(text, i, chars))
  <1> DEFINE Other == {j \in i .. Len(text) + 1 : j <= Len(text) => At(text, j) \notin chars}
  <1>1. Other \subseteq Nat /\ Len(text) + 1 \in Other
    OBVIOUS
  <1>2. PICK j \in Other : \A m \in Other : j <= m
    BY <1>1, SmallestNumber
  <1>3. ASSUME NEW k \in i .. j - 1 PROVE At(text, k) \in chars
    <2>1. k \notin Other
      BY <1>2
    <2>2. k \in i .. Len(text) + 1 /\ k <= Len(text)
      BY <1>2
    <2> QED
      BY <2>1, <2>2
  <1>4. \E m \in i .. Len(text) + 1 :
            /\ \A k \in i .. m - 1 : At(text, k) \in chars
            /\ m <= Len(text) => At(text, m) \notin chars
    BY <1>2, <1>3
  <1> QED
    BY <1>4 DEF EndOf, StopsAt

\* There is one place where it can stop.
LEMMA StopsOnce ==
    ASSUME NEW text, Len(text) \in Nat, NEW chars, NEW i \in 1 .. Len(text) + 1,
           NEW j, StopsAt(text, i, chars, j), NEW m, StopsAt(text, i, chars, m)
    PROVE  j = m
  <1>1. ASSUME j < m PROVE FALSE
    BY <1>1 DEF StopsAt
  <1>2. ASSUME m < j PROVE FALSE
    BY <1>2 DEF StopsAt
  <1>3. j \in Nat /\ m \in Nat
    BY DEF StopsAt
  <1> QED
    BY <1>1, <1>2, <1>3

LEMMA CommentIn ==
    ASSUME NEW text, Len(text) \in Nat, NEW i \in 1 .. Len(text) + 1
    PROVE  /\ EndOfComment(text, i) \in i .. Len(text) + 1
           /\ EndOfComment(text, i) > i => Begins(text, i, "//") \/ Begins(text, i, "/*")
  <1> DEFINE lines  == {j \in i + 2 .. Len(text) : At(text, j) = "\n"}
             blocks == {j \in i + 2 .. Len(text) - 1 : Begins(text, j, "*/")}
  <1>1. lines # {} => Min(lines) + 1 \in i .. Len(text) + 1
    <2>1. lines \subseteq Nat
      OBVIOUS
    <2>2. ASSUME lines # {} PROVE Min(lines) \in lines
      BY <2>1, <2>2, MinIsIn
    <2> QED
      BY <2>2
  <1>2. blocks # {} => Min(blocks) + 2 \in i .. Len(text) + 1
    <2>1. blocks \subseteq Nat
      OBVIOUS
    <2>2. ASSUME blocks # {} PROVE Min(blocks) \in blocks
      BY <2>1, <2>2, MinIsIn
    <2> QED
      BY <2>2
  <1>3. EndOfComment(text, i)
          = IF Begins(text, i, "//") /\ lines # {} THEN Min(lines) + 1
            ELSE IF Begins(text, i, "/*") /\ blocks # {} THEN Min(blocks) + 2
            ELSE i
    BY DEF EndOfComment
  <1> HIDE DEF lines, blocks
  <1> QED
    BY <1>1, <1>2, <1>3

\* A word ends behind letters and digits, and begins with a letter.
LEMMA WordStops ==
    ASSUME NEW text, Len(text) \in Nat, NEW i \in 1 .. Len(text) + 1
    PROVE  /\ EndOfWord(text, i) \in i .. Len(text) + 1
           /\ i <= Len(text) /\ EndOfWord(text, i) = i => At(text, i) \notin Letter
  <1> DEFINE e == EndOf(text, i, Letter)
             f == EndOf(text, i, Letter \union Digit)
  <1>1. StopsAt(text, i, Letter, e) /\ StopsAt(text, i, Letter \union Digit, f)
    BY EndOfStops
  <1>2. EndOfWord(text, i) = IF e > i THEN f ELSE i
    BY DEF EndOfWord
  <1> HIDE DEF e, f
  <1>3. e > i => At(text, i) \in Letter
    BY <1>1 DEF StopsAt
  <1>4. e <= i /\ i <= Len(text) => At(text, i) \notin Letter
    BY <1>1 DEF StopsAt
  <1>5. f = i /\ i <= Len(text) => At(text, i) \notin Letter
    BY <1>1 DEF StopsAt
  <1>6. e \in Nat /\ f \in i .. Len(text) + 1
    BY <1>1 DEF StopsAt
  <1> QED
    BY <1>2, <1>3, <1>4, <1>5, <1>6

-----------------------------------------------------------------------------
(* Where an operator ends. *)

WordAt(text, i) == \E w \in OperatorWord : Begins(text, i, w)
SignAt(text, i) == i \in 1 .. Len(text) /\ At(text, i) \in Sign

LEMMA SignIn ==
    ASSUME NEW text, Len(text) \in Nat, NEW i \in 1 .. Len(text) + 1
    PROVE  /\ BehindSign(text, i) \in i .. Len(text) + 1
           /\ WordAt(text, i) => \E w \in OperatorWord : /\ Begins(text, i, w)
                                                         /\ Len(w) \in Nat \ {0}
                                                         /\ BehindSign(text, i) = i + Len(w)
           /\ ~WordAt(text, i) /\ SignAt(text, i) => BehindSign(text, i) = i + 1
           /\ ~WordAt(text, i) /\ ~SignAt(text, i) => BehindSign(text, i) = i
  <1> DEFINE words == {w \in OperatorWord : Begins(text, i, w)}
             word  == CHOOSE w \in words : TRUE
  <1>1. BehindSign(text, i) = IF words # {} THEN i + Len(word)
                              ELSE IF i <= Len(text) /\ At(text, i) \in Sign THEN i + 1
                              ELSE i
    BY DEF BehindSign
  <1>2. words # {} <=> WordAt(text, i)
    BY DEF WordAt
  <1>3. words # {} => word \in words
    OBVIOUS
  <1> HIDE DEF word
  <1>4. ASSUME WordAt(text, i)
        PROVE  /\ word \in OperatorWord /\ Begins(text, i, word)
               /\ Len(word) \in Nat \ {0}
               /\ BehindSign(text, i) = i + Len(word)
               /\ i + Len(word) <= Len(text) + 1
    <2>1. word \in OperatorWord /\ Begins(text, i, word)
      BY <1>2, <1>3, <1>4
    <2>2. Len(word) \in Nat \ {0}
      BY <2>1, WordAssumption
    <2>3. i + Len(word) <= Len(text) + 1
      BY <2>1 DEF Begins
    <2>4. BehindSign(text, i) = i + Len(word)
      BY <1>1, <1>2, <1>4
    <2> QED
      BY <2>1, <2>2, <2>3, <2>4
  <1>5. ASSUME ~WordAt(text, i)
        PROVE  BehindSign(text, i) = IF SignAt(text, i) THEN i + 1 ELSE i
    BY <1>1, <1>2, <1>5 DEF SignAt
  <1>6. CASE WordAt(text, i)
    <2>1. BehindSign(text, i) \in i .. Len(text) + 1
      BY <1>4, <1>6
    <2> QED
      BY <1>4, <1>6, <2>1
  <1>7. CASE ~WordAt(text, i)
    <2>1. BehindSign(text, i) \in i .. Len(text) + 1
      BY <1>5, <1>7 DEF SignAt
    <2> QED
      BY <1>5, <1>7, <2>1
  <1> QED
    BY <1>6, <1>7

\* What end is in EndOfOperator, on the positions from m on.
IsEnd(f, text, m) ==
    f = [j \in m .. Len(text) + 1 |->
            IF BehindSign(text, j) = j THEN j ELSE f[BehindSign(text, j)]]

LEMMA EndGoesOn ==
    ASSUME NEW text, Len(text) \in Nat, NEW m \in 2 .. Len(text) + 1,
           NEW f, IsEnd(f, text, m)
    PROVE  \E g : IsEnd(g, text, m - 1)
  <1> DEFINE B(j) == BehindSign(text, j)
             first == IF B(m - 1) = m - 1 THEN m - 1 ELSE f[B(m - 1)]
             g == [j \in m - 1 .. Len(text) + 1 |-> IF j = m - 1 THEN first ELSE f[j]]
  <1>1. \A j \in m - 1 .. Len(text) + 1 : B(j) \in j .. Len(text) + 1
    BY SignIn
  <1> HIDE DEF B
  <1>2. ASSUME NEW j \in m - 1 .. Len(text) + 1
        PROVE  g[j] = IF B(j) = j THEN j ELSE g[B(j)]
    <2>1. CASE j = m - 1
      <3>1. g[j] = first
        BY <2>1
      <3>2. B(j) # j => g[B(j)] = f[B(j)]
        BY <1>1, <2>1
      <3> QED
        BY <2>1, <3>1, <3>2
    <2>2. CASE j \in m .. Len(text) + 1
      <3>1. f[j] = IF B(j) = j THEN j ELSE f[B(j)]
        BY <2>2 DEF IsEnd, B
      <3>2. g[j] = f[j]
        BY <2>2
      <3>3. g[B(j)] = f[B(j)]
        BY <1>1, <2>2
      <3> QED
        BY <3>1, <3>2, <3>3
    <2> QED
      BY <2>1, <2>2
  <1>3. g = [j \in m - 1 .. Len(text) + 1 |-> g[j]]
    OBVIOUS
  <1>4. IsEnd(g, text, m - 1)
    <2> HIDE DEF g
    <2> QED
      BY <1>2, <1>3 DEF IsEnd, B
  <1> QED
    BY <1>4

LEMMA EndExists ==
    ASSUME NEW text, Len(text) \in Nat, NEW i \in 1 .. Len(text) + 1
    PROVE  \E f : IsEnd(f, text, i)
  <1> DEFINE Without == {d \in 0 .. Len(text) : ~ \E f : IsEnd(f, text, Len(text) + 1 - d)}
  <1>1. ASSUME Without # {} PROVE FALSE
    <2>1. Without \subseteq Nat
      OBVIOUS
    <2>2. PICK d \in Without : \A e \in Without : d <= e
      BY <1>1, <2>1, SmallestNumber
    <2>3. d # 0
      <3> DEFINE z == Len(text) + 1
                 f == [j \in z .. z |-> z]
      <3>1. BehindSign(text, z) = z
        BY SignIn
      <3>2. IsEnd(f, text, z)
        BY <3>1 DEF IsEnd
      <3> QED
        BY <3>2
    <2>4. d - 1 \in 0 .. Len(text) /\ d - 1 \notin Without
      <3>1. d \in 1 .. Len(text)
        BY <2>3
      <3> HIDE DEF Without
      <3>2. ~(d <= d - 1)
        BY <3>1
      <3> QED
        BY <2>2, <3>1, <3>2
    <2>5. PICK f : IsEnd(f, text, Len(text) + 1 - (d - 1))
      BY <2>4
    <2>6. Len(text) + 1 - (d - 1) \in 2 .. Len(text) + 1
      BY <2>3, <2>4
    <2>7. \E g : IsEnd(g, text, Len(text) + 1 - (d - 1) - 1)
      BY <2>5, <2>6, EndGoesOn
    <2>8. Len(text) + 1 - (d - 1) - 1 = Len(text) + 1 - d
      BY <2>2
    <2> QED
      BY <2>2, <2>7, <2>8
  <1>2. Len(text) + 1 - i \in 0 .. Len(text) /\ Len(text) + 1 - (Len(text) + 1 - i) = i
    OBVIOUS
  <1> QED
    BY <1>1, <1>2

\* An operator that begins at j ends at e: nothing of an operator is at e, and
\* where the words keep away from each other and from the signs, it is one word
\* or signs alone.
OperatorEnds(text, j, e) ==
    /\ e \in j .. Len(text) + 1
    /\ ~WordAt(text, e) /\ ~SignAt(text, e)
    /\ ~Crowded(text) /\ WordAt(text, j) => SubSeq(text, j, e - 1) \in OperatorWord
    /\ ~Crowded(text) /\ ~WordAt(text, j) => \A k \in j .. e - 1 : SignAt(text, k)

LEMMA NotCrowded ==
    ASSUME NEW text, Len(text) \in Nat, ~Crowded(text), NEW i \in 1 .. Len(text),
           NEW w \in OperatorWord, Begins(text, i, w)
    PROVE  ~SignAt(text, i - 1) /\ ~SignAt(text, i + Len(w)) /\ ~WordAt(text, i + Len(w))
  BY DEF Crowded, SignAt, WordAt

LEMMA OperatorStep ==
    ASSUME NEW text, Len(text) \in Nat, NEW j \in 1 .. Len(text) + 1, NEW e,
           BehindSign(text, j) # j, OperatorEnds(text, BehindSign(text, j), e)
    PROVE  OperatorEnds(text, j, e)
  <1> DEFINE b == BehindSign(text, j)
  <1>1. b \in j + 1 .. Len(text) + 1
    BY SignIn
  <1>2. e \in j .. Len(text) + 1 /\ ~WordAt(text, e) /\ ~SignAt(text, e)
    BY <1>1 DEF OperatorEnds
  <1>3. j \in 1 .. Len(text)
    BY <1>1
  <1>4. ASSUME ~Crowded(text), WordAt(text, j)
        PROVE  SubSeq(text, j, e - 1) \in OperatorWord
    <2>1. PICK w \in OperatorWord : /\ Begins(text, j, w)
                                    /\ Len(w) \in Nat \ {0}
                                    /\ b = j + Len(w)
      BY <1>4, SignIn
    <2>2. ~SignAt(text, b) /\ ~WordAt(text, b)
      BY <1>3, <1>4, <2>1, NotCrowded
    <2>3. e = b
      <3>1. \A k \in b .. e - 1 : SignAt(text, k)
        BY <1>4, <2>2 DEF OperatorEnds
      <3>2. e \in b .. Len(text) + 1
        BY DEF OperatorEnds
      <3> HIDE DEF b
      <3> QED
        BY <1>1, <2>2, <3>1, <3>2
    <2>4. SubSeq(text, j, j + Len(w) - 1) = w
      BY <2>1 DEF Begins
    <2>5. e - 1 = j + Len(w) - 1
      BY <2>1, <2>3
    <2> QED
      BY <2>4, <2>5
  <1>5. ASSUME ~Crowded(text), ~WordAt(text, j)
        PROVE  \A k \in j .. e - 1 : SignAt(text, k)
    <2>1. SignAt(text, j) /\ b = j + 1
      BY <1>5, SignIn
    <2>2. ~WordAt(text, b)
      <3>1. ASSUME NEW w \in OperatorWord, Begins(text, b, w) PROVE FALSE
        <4>1. b \in 1 .. Len(text)
          <5>1. Len(w) \in Nat \ {0}
            BY WordAssumption
          <5>2. b + Len(w) <= Len(text) + 1
            BY <3>1 DEF Begins
          <5> HIDE DEF b
          <5> QED
            BY <1>1, <5>1, <5>2
        <4>2. ~SignAt(text, b - 1)
          BY <1>5, <3>1, <4>1, NotCrowded
        <4> QED
          BY <2>1, <4>2
      <3> QED
        BY <3>1 DEF WordAt
    <2>3. \A k \in b .. e - 1 : SignAt(text, k)
      BY <1>5, <2>2 DEF OperatorEnds
    <2> HIDE DEF b
    <2> QED
      BY <2>1, <2>3
  <1> QED
    BY <1>2, <1>4, <1>5 DEF OperatorEnds

LEMMA OperatorStands ==
    ASSUME NEW text, Len(text) \in Nat, NEW j \in 1 .. Len(text) + 1, BehindSign(text, j) = j
    PROVE  OperatorEnds(text, j, j)
  <1>1. ~WordAt(text, j)
    BY SignIn
  <1>2. ~SignAt(text, j)
    BY <1>1, SignIn
  <1> QED
    BY <1>1, <1>2 DEF OperatorEnds

LEMMA OperatorIn ==
    ASSUME NEW text, Len(text) \in Nat, NEW i \in 1 .. Len(text) + 1
    PROVE  OperatorEnds(text, i, EndOfOperator(text, i))
  <1> DEFINE F == CHOOSE f : IsEnd(f, text, i)
             z == Len(text) + 1
  <1>1. IsEnd(F, text, i)
    BY EndExists
  <1>2. EndOfOperator(text, i) = F[i]
    BY DEF EndOfOperator, IsEnd
  <1> HIDE DEF F
  <1> DEFINE Wrong == {d \in 0 .. z - i : ~OperatorEnds(text, z - d, F[z - d])}
  <1>3. ASSUME Wrong # {} PROVE FALSE
    <2>1. Wrong \subseteq Nat
      OBVIOUS
    <2>2. PICK d \in Wrong : \A c \in Wrong : d <= c
      BY <1>3, <2>1, SmallestNumber
    <2> DEFINE j == z - d
               b == BehindSign(text, j)
    <2>3. j \in i .. z /\ j \in 1 .. Len(text) + 1
      BY <2>2
    <2>4. F[j] = IF b = j THEN j ELSE F[b]
      BY <1>1, <2>3 DEF IsEnd
    <2>5. b = j
      <3>1. ASSUME b # j PROVE FALSE
        <4>1. b \in j + 1 .. z
          <5>1. b \in j .. Len(text) + 1
            BY <2>3, SignIn
          <5> HIDE DEF b, j
          <5> QED
            BY <2>3, <3>1, <5>1
        <4> HIDE DEF b
        <4>2. z - b \in 0 .. z - i /\ z - b < d /\ z - (z - b) = b
          BY <2>2, <2>3, <4>1
        <4>3. OperatorEnds(text, b, F[b])
          BY <2>2, <4>2
        <4>4. OperatorEnds(text, j, F[b])
          BY <2>3, <3>1, <4>3, OperatorStep DEF b
        <4> QED
          BY <2>2, <2>4, <3>1, <4>4
      <3> QED
        BY <3>1
    <2>6. OperatorEnds(text, j, j)
      BY <2>3, <2>5, OperatorStands
    <2> QED
      BY <2>2, <2>4, <2>5, <2>6
  <1>4. z - i \in 0 .. z - i /\ z - (z - i) = i
    OBVIOUS
  <1> QED
    BY <1>2, <1>3, <1>4

\* What is between a place and the end of the operator there is an operator,
\* unless the text is crowded.
LEMMA OperatorIs ==
    ASSUME NEW text, Len(text) \in Nat, ~Crowded(text), NEW i \in 1 .. Len(text) + 1,
           EndOfOperator(text, i) > i
    PROVE  IsOperator(text, i, EndOfOperator(text, i))
  <1> DEFINE e == EndOfOperator(text, i)
  <1>1. OperatorEnds(text, i, e)
    BY OperatorIn
  <1>2. CASE WordAt(text, i)
    BY <1>1, <1>2 DEF OperatorEnds, IsOperator
  <1>3. CASE ~WordAt(text, i)
    <2>1. StopsAt(text, i, Sign, e)
      BY <1>1, <1>3 DEF OperatorEnds, StopsAt, SignAt
    <2>2. EndOf(text, i, Sign) = e
      BY <2>1, EndOfStops, StopsOnce
    <2> QED
      BY <2>2 DEF IsOperator
  <1> QED
    BY <1>2, <1>3
-----------------------------------------------------------------------------
(* One round of the loop. *)

Pieces(text)   == {SubSeq(text, i, j) : i, j \in Nat}
Scanning(text) == [at : 1 .. Len(text) + 2, toks : Seq(Pieces(text)),
                   end : {"ok", "exited", "undefined"}, past : BOOLEAN]

\* The characters that are meant to be read: those of some token.
Meant(text, p) ==
    /\ p \in 1 .. Len(text)
    /\ At(text, p) \in (Sign \union Letter \union Digit \union Punctuation) \ Blank
    /\ \A c \in 1 .. p : EndOfComment(text, c) <= p

\* What a round from i on may read: one token that it stops behind, or none.
IsToken(text, i, from, to) ==
    /\ from \in i .. Len(text) /\ to \in from + 1 .. Len(text) + 1
    /\ to - from < MaxToken

\* What is true behind a round from i on, with nothing read.
Passes(text, i, s) ==
    /\ s \in Scanning(text) /\ s.toks = <<>>
    /\ s.end = "ok" => s.at \in i + 1 .. Len(text) + 2
    /\ ~Crowded(text) => ~s.past
    /\ ~Crowded(text) /\ s.end = "ok" => \A p \in i .. Len(text) : p < s.at => ~Meant(text, p)

\* And with a token read.
Reads(text, i, s, from) ==
    /\ s \in Scanning(text) /\ IsToken(text, i, from, s.at)
    /\ s.end = "ok" /\ ~s.past
    /\ s.toks = <<SubSeq(text, from, s.at - 1)>>
    /\ ~Crowded(text) => from = i

LEMMA StartIs ==
    ASSUME NEW text, Len(text) \in Nat, NEW i \in 1 .. Len(text) + 2
    PROVE  /\ Start(i) \in Scanning(text)
           /\ Start(i).at = i /\ Start(i).toks = <<>>
           /\ Start(i).end = "ok" /\ Start(i).past = FALSE
  <1>1. <<>> \in Seq(Pieces(text))
    OBVIOUS
  <1> QED
    BY <1>1 DEF Start, Scanning

LEMMA TakeReads ==
    ASSUME NEW text, Len(text) \in Nat, NEW i \in 1 .. Len(text),
           NEW from \in i .. Len(text), NEW to \in from + 1 .. Len(text) + 1,
           ~Crowded(text) => from = i
    PROVE  LET s == Take(Start(i), text, from, to)
           IN  Passes(text, i, s) \/ Reads(text, i, s, from)
  <1> DEFINE s == Take(Start(i), text, from, to)
             piece == SubSeq(text, from, to - 1)
  <1>1. /\ Start(i) \in Scanning(text) /\ Start(i).toks = <<>>
        /\ Start(i).end = "ok" /\ Start(i).past = FALSE
    <2>1. i \in 1 .. Len(text) + 2
      OBVIOUS
    <2> QED
      BY <2>1, StartIs
  <1>2. s = IF to - from > MaxToken THEN [Start(i) EXCEPT !.end = "undefined"]
            ELSE IF to - from = MaxToken THEN [Start(i) EXCEPT !.end = "exited"]
            ELSE [Start(i) EXCEPT !.at = to, !.toks = Append(Start(i).toks, piece)]
    BY DEF Take
  <1> HIDE DEF s, piece
  <1>3. CASE to - from >= MaxToken
    <2>1. PICK end \in {"undefined", "exited"} : s = [Start(i) EXCEPT !.end = end]
      BY <1>2, <1>3, MaxTokenAssumption
    <2>2. s \in Scanning(text) /\ s.toks = <<>> /\ s.end # "ok" /\ ~s.past
      BY <1>1, <2>1 DEF Scanning
    <2> QED
      BY <2>2 DEF Passes, s
  <1>4. CASE to - from < MaxToken
    <2>1. s = [Start(i) EXCEPT !.at = to, !.toks = Append(Start(i).toks, piece)]
      BY <1>2, <1>4, MaxTokenAssumption
    <2>2. piece \in Pieces(text)
      BY DEF piece, Pieces
    <2>3. Append(Start(i).toks, piece) = <<piece>> /\ <<piece>> \in Seq(Pieces(text))
      BY <1>1, <2>2
    <2>4. to \in 1 .. Len(text) + 2
      OBVIOUS
    <2>5. /\ s.at = to /\ s.toks = <<piece>> /\ s.end = "ok" /\ ~s.past
          /\ s \in Scanning(text)
      BY <1>1, <2>1, <2>3, <2>4 DEF Scanning
    <2>6. IsToken(text, i, from, s.at)
      BY <1>4, <2>5 DEF IsToken
    <2> QED
      BY <2>5, <2>6 DEF Reads, s, piece
  <1>5. to - from \in Nat /\ MaxToken \in Nat
    BY MaxTokenAssumption
  <1> QED
    BY <1>3, <1>4, <1>5

LEMMA SkipPasses ==
    ASSUME NEW text, Len(text) \in Nat, NEW i \in 1 .. Len(text),
           NEW to \in i + 1 .. Len(text) + 2,
           ~Crowded(text) => \A p \in i .. Len(text) : p < to => ~Meant(text, p)
    PROVE  /\ Passes(text, i, Skip(Start(i), to))
           /\ Crowded(text) => Passes(text, i, [Skip(Start(i), to) EXCEPT !.past = TRUE])
  <1>1. /\ Start(i) \in Scanning(text) /\ Start(i).toks = <<>>
        /\ Start(i).end = "ok" /\ Start(i).past = FALSE
    <2>1. i \in 1 .. Len(text) + 2
      OBVIOUS
    <2> QED
      BY <2>1, StartIs
  <1> DEFINE s == Skip(Start(i), to)
             q == [s EXCEPT !.past = TRUE]
  <1>2. to \in 1 .. Len(text) + 2
    OBVIOUS
  <1>3. s \in Scanning(text) /\ s.at = to /\ s.toks = <<>> /\ s.end = "ok" /\ ~s.past
    BY <1>1, <1>2 DEF Skip, Scanning
  <1>4. q \in Scanning(text) /\ q.at = to /\ q.toks = <<>> /\ q.end = "ok"
    BY <1>1, <1>2 DEF Skip, Scanning
  <1> HIDE DEF s, q
  <1>5. Passes(text, i, s)
    BY <1>3 DEF Passes
  <1>6. Crowded(text) => Passes(text, i, q)
    BY <1>4 DEF Passes
  <1> QED
    BY <1>5, <1>6 DEF s, q

\* A round reads one token or none, and goes on.
LEMMA ScanStep ==
    ASSUME NEW text, Len(text) \in Nat, NEW i \in 1 .. Len(text)
    PROVE  LET s == Scan(text, Start(i))
           IN  Passes(text, i, s) \/ \E from \in i .. Len(text) : Reads(text, i, s, from)
  <1> DEFINE s      == Scan(text, Start(i))
             behind == EndOfComment(text, i)
             op     == EndOfOperator(text, i)
             word   == EndOfWord(text, op)
             number == EndOf(text, op, Digit)
             Goal   == Passes(text, i, s) \/ \E from \in i .. Len(text) : Reads(text, i, s, from)
  <1>1. /\ Start(i) \in Scanning(text) /\ Start(i).at = i /\ Start(i).toks = <<>>
        /\ Start(i).end = "ok" /\ Start(i).past = FALSE
    <2>1. i \in 1 .. Len(text) + 2
      OBVIOUS
    <2> QED
      BY <2>1, StartIs
  <1>2. s = IF At(text, i) \in Blank            THEN Skip(Start(i), i + 1)
            ELSE IF behind > i                  THEN Skip(Start(i), behind)
            ELSE IF op - i > MaxToken           THEN [Start(i) EXCEPT !.end = "undefined"]
            ELSE IF IsOperator(text, i, op)     THEN Take(Start(i), text, i, op)
            ELSE IF word > op                   THEN Take(Start(i), text, op, word)
            ELSE IF number > op                 THEN Take(Start(i), text, op, number)
            ELSE IF op > Len(text)              THEN [Skip(Start(i), op + 1) EXCEPT !.past = TRUE]
            ELSE IF At(text, op) \in Punctuation THEN Take(Start(i), text, op, op + 1)
            ELSE Skip(Start(i), op + 1)
    BY <1>1 DEF Scan
  <1> HIDE DEF s
  <1>3. behind \in i .. Len(text) + 1
    BY CommentIn
  <1>4. OperatorEnds(text, i, op)
    BY OperatorIn
  <1>5. op \in i .. Len(text) + 1 /\ ~SignAt(text, op)
    BY <1>4 DEF OperatorEnds
  <1>6. ~Crowded(text) /\ ~IsOperator(text, i, op) => op = i
    BY <1>5, OperatorIs
  <1> HIDE DEF op, behind
  <1>7. word \in op .. Len(text) + 1 /\ (op <= Len(text) /\ word = op => At(text, op) \notin Letter)
    BY <1>5, WordStops
  <1>8. StopsAt(text, op, Digit, number)
    BY <1>5, EndOfStops
  <1>9. /\ number \in op .. Len(text) + 1
        /\ op <= Len(text) /\ number = op => At(text, op) \notin Digit
    BY <1>8 DEF StopsAt
  <1> HIDE DEF word, number
  <1>10. ASSUME At(text, i) \in Blank
        PROVE  Goal
    <2>1. \A p \in i .. Len(text) : p < i + 1 => ~Meant(text, p)
      BY <1>10 DEF Meant
    <2>2. Passes(text, i, Skip(Start(i), i + 1))
      <3>1. i + 1 \in i + 1 .. Len(text) + 2
        OBVIOUS
      <3> QED
        BY <2>1, <3>1, SkipPasses
    <2> QED
      BY <1>2, <1>10, <2>2
  <1>11. ASSUME At(text, i) \notin Blank /\ behind > i
        PROVE  Goal
    <2>1. \A p \in i .. Len(text) : p < behind => ~Meant(text, p)
      BY <1>3 DEF Meant, behind
    <2>2. Passes(text, i, Skip(Start(i), behind))
      <3>1. behind \in i + 1 .. Len(text) + 2
        BY <1>3, <1>11
      <3> QED
        BY <2>1, <3>1, SkipPasses
    <2> QED
      BY <1>2, <1>11, <2>2
  <1>12. ASSUME At(text, i) \notin Blank /\ ~(behind > i) /\ op - i > MaxToken
        PROVE  Goal
    <2>1. s = [Start(i) EXCEPT !.end = "undefined"]
      BY <1>2, <1>12
    <2>2. s \in Scanning(text) /\ s.toks = <<>> /\ s.end # "ok" /\ ~s.past
      BY <1>1, <2>1 DEF Scanning
    <2> QED
      BY <2>2 DEF Passes
  <1> DEFINE Far == At(text, i) \notin Blank /\ ~(behind > i) /\ ~(op - i > MaxToken)
  <1>13. ASSUME Far /\ IsOperator(text, i, op)
        PROVE  Goal
    <2>1. op > i
      BY <1>13 DEF IsOperator
    <2> QED
      BY <1>2, <1>5, <1>13, <2>1, TakeReads
  <1> DEFINE None == Far /\ ~IsOperator(text, i, op)
  <1>14. ASSUME None /\ word > op
        PROVE  Goal
    BY <1>2, <1>5, <1>6, <1>7, <1>14, TakeReads
  <1>15. ASSUME None /\ ~(word > op) /\ number > op
        PROVE  Goal
    BY <1>2, <1>5, <1>6, <1>9, <1>15, TakeReads
  <1>16. ASSUME None /\ ~(word > op) /\ ~(number > op) /\ op > Len(text)
        PROVE  Goal
    <2>1. Crowded(text)
      BY <1>6, <1>16
    <2>2. Passes(text, i, [Skip(Start(i), op + 1) EXCEPT !.past = TRUE])
      <3>1. op + 1 \in i + 1 .. Len(text) + 2
        BY <1>5
      <3> QED
        BY <2>1, <3>1, SkipPasses
    <2> QED
      BY <1>2, <1>16, <2>2
  <1>17. ASSUME /\ None /\ ~(word > op) /\ ~(number > op) /\ op <= Len(text)
               /\ At(text, op) \in Punctuation
        PROVE  Goal
    BY <1>2, <1>5, <1>6, <1>17, TakeReads
  <1>18. ASSUME /\ None /\ ~(word > op) /\ ~(number > op) /\ op <= Len(text)
               /\ At(text, op) \notin Punctuation
        PROVE  Goal
    <2>1. ~Crowded(text) => \A p \in i .. Len(text) : p < op + 1 => ~Meant(text, p)
      BY <1>5, <1>6, <1>7, <1>9, <1>18 DEF Meant, SignAt
    <2>2. Passes(text, i, Skip(Start(i), op + 1))
      <3>1. op + 1 \in i + 1 .. Len(text) + 2
        BY <1>5
      <3> QED
        BY <2>1, <3>1, SkipPasses
    <2> QED
      BY <1>2, <1>5, <1>18, <2>2
  <1>19. Passes(text, i, s) \/ \E from \in i .. Len(text) : Reads(text, i, s, from)
    BY <1>5, <1>10, <1>11, <1>12, <1>13, <1>14, <1>15, <1>16, <1>17, <1>18
  <1> QED
    BY <1>19 DEF s
-----------------------------------------------------------------------------
(* All rounds. *)

\* Where the tokens stand in the text: each is what the text has there, from i
\* on, and each begins where the one before it has ended, or later.
Spread(text, i, toks, spans) ==
    /\ spans \in Seq([from : Nat, to : Nat]) /\ Len(spans) = Len(toks)
    /\ \A k \in 1 .. Len(toks) : /\ IsToken(text, i, spans[k].from, spans[k].to)
                                 /\ toks[k] = SubSeq(text, spans[k].from, spans[k].to - 1)
    /\ \A j, k \in 1 .. Len(toks) : j < k => spans[j].to <= spans[k].from

\* Every character that is meant to be read has been.
AllRead(text, i, spans) ==
    \A p \in i .. Len(text) :
        Meant(text, p) => \E k \in DOMAIN spans : spans[k].from <= p /\ p < spans[k].to

\* What has been read from i on.
Result(text, i, r) ==
    /\ r \in Scanning(text)
    /\ r.end = "ok" => r.at > Len(text)
    /\ ~Crowded(text) => ~r.past
    /\ \E spans : /\ Spread(text, i, r.toks, spans)
                  /\ ~Crowded(text) /\ r.end = "ok" => AllRead(text, i, spans)

LEMMA NoSpans ==
    ASSUME NEW text, Len(text) \in Nat, NEW i \in 1 .. Len(text) + 2,
           NEW r \in Scanning(text), r.toks = <<>>, ~Crowded(text) => ~r.past,
           r.end = "ok" => r.at > Len(text) /\ i > Len(text)
    PROVE  Result(text, i, r)
  <1>1. Spread(text, i, r.toks, <<>>)
    BY DEF Spread
  <1>2. r.end = "ok" => AllRead(text, i, <<>>)
    BY DEF AllRead
  <1> QED
    BY <1>1, <1>2 DEF Result

LEMMA TokenMoves ==
    ASSUME NEW text, Len(text) \in Nat, NEW i \in 1 .. Len(text), NEW at \in i .. Len(text) + 2,
           NEW from, NEW to, IsToken(text, at, from, to)
    PROVE  IsToken(text, i, from, to)
  BY DEF IsToken

\* A round that reads nothing, before the others.
LEMMA PassFirst ==
    ASSUME NEW text, Len(text) \in Nat, NEW i \in 1 .. Len(text),
           NEW s, Passes(text, i, s), s.end = "ok",
           NEW q, Result(text, s.at, q)
    PROVE  Result(text, i, [q EXCEPT !.toks = s.toks \o @, !.past = s.past \/ @])
  <1> DEFINE r == [q EXCEPT !.toks = s.toks \o @, !.past = s.past \/ @]
  <1>1. /\ s.at \in i + 1 .. Len(text) + 2 /\ s.toks = <<>> /\ s.past \in BOOLEAN
        /\ ~Crowded(text) => ~s.past
        /\ ~Crowded(text) => \A p \in i .. Len(text) : p < s.at => ~Meant(text, p)
    BY DEF Passes, Scanning
  <1>2. /\ q \in Scanning(text) /\ (q.end = "ok" => q.at > Len(text))
        /\ ~Crowded(text) => ~q.past
    BY DEF Result
  <1>3. PICK spans : /\ Spread(text, s.at, q.toks, spans)
                     /\ ~Crowded(text) /\ q.end = "ok" => AllRead(text, s.at, spans)
    BY DEF Result
  <1>4. q.toks \in Seq(Pieces(text)) /\ q.past \in BOOLEAN
    BY <1>2 DEF Scanning
  <1>5. s.toks \o q.toks = q.toks
    BY <1>1, <1>4, ConcatEmptySeq
  <1>6. r = [q EXCEPT !.past = s.past \/ q.past]
    BY <1>2, <1>5 DEF Scanning
  <1>7. /\ r \in Scanning(text) /\ r.end = q.end /\ r.at = q.at /\ r.toks = q.toks
        /\ r.past = (s.past \/ q.past)
    BY <1>1, <1>2, <1>4, <1>6 DEF Scanning
  <1> HIDE DEF r
  <1>8. Spread(text, i, r.toks, spans)
    BY <1>1, <1>3, <1>7, TokenMoves DEF Spread
  <1>9. ~Crowded(text) /\ r.end = "ok" => AllRead(text, i, spans)
    BY <1>1, <1>3, <1>7 DEF AllRead
  <1>10. ~Crowded(text) => ~r.past
    BY <1>1, <1>2, <1>7
  <1>11. Result(text, i, r)
    BY <1>2, <1>7, <1>8, <1>9, <1>10 DEF Result
  <1> QED
    BY <1>11 DEF r

LEMMA PieceIn ==
    ASSUME NEW text, NEW i \in Nat, NEW j \in Nat
    PROVE  SubSeq(text, i, j) \in Pieces(text)
  BY DEF Pieces

LEMMA InFront ==
    ASSUME NEW S, NEW x \in S, NEW rest \in Seq(S)
    PROVE  /\ <<x>> \o rest \in Seq(S)
           /\ Len(<<x>> \o rest) = Len(rest) + 1
           /\ (<<x>> \o rest)[1] = x
           /\ \A k \in 2 .. Len(rest) + 1 : (<<x>> \o rest)[k] = rest[k - 1]
  <1>1. <<x>> \in Seq(S) /\ Len(<<x>>) = 1 /\ <<x>>[1] = x /\ Len(rest) \in Nat
    OBVIOUS
  <1>2. /\ <<x>> \o rest \in Seq(S)
        /\ Len(<<x>> \o rest) = 1 + Len(rest)
        /\ \A k \in 1 .. 1 + Len(rest) :
               (<<x>> \o rest)[k] = IF k <= 1 THEN <<x>>[k] ELSE rest[k - 1]
    BY <1>1, ConcatProperties
  <1> QED
    BY <1>1, <1>2

\* A round that reads a token, before the others.
LEMMA SpreadFirst ==
    ASSUME NEW text, Len(text) \in Nat, NEW i \in 1 .. Len(text),
           NEW from, NEW to, IsToken(text, i, from, to),
           NEW toks \in Seq(Pieces(text)), NEW spans, Spread(text, to, toks, spans)
    PROVE  Spread(text, i, <<SubSeq(text, from, to - 1)>> \o toks,
                           <<[from |-> from, to |-> to]>> \o spans)
  <1> DEFINE piece == SubSeq(text, from, to - 1)
             span  == [from |-> from, to |-> to]
             T     == <<piece>> \o toks
             P     == <<span>> \o spans
             Span  == [from : Nat, to : Nat]
  <1>1. from \in i .. Len(text) /\ to \in from + 1 .. Len(text) + 1
    BY DEF IsToken
  <1>2. piece \in Pieces(text) /\ span \in Span /\ span.from = from /\ span.to = to
    <2>1. from \in Nat /\ to \in Nat /\ to - 1 \in Nat
      BY <1>1
    <2> DEFINE last == to - 1
    <2>2. last \in Nat
      BY <2>1
    <2> HIDE DEF last
    <2>3. SubSeq(text, from, last) \in Pieces(text)
      BY <2>1, <2>2, PieceIn
    <2>4. piece \in Pieces(text)
      BY <2>3 DEF last
    <2> QED
      BY <2>1, <2>4
  <1> HIDE DEF piece, span
  <1>3. spans \in Seq(Span) /\ Len(spans) = Len(toks) /\ Len(toks) \in Nat
    BY DEF Spread
  <1>4. /\ Len(T) = Len(toks) + 1 /\ T[1] = piece
        /\ \A k \in 2 .. Len(toks) + 1 : T[k] = toks[k - 1]
    BY <1>2, InFront
  <1>5. /\ P \in Seq(Span) /\ Len(P) = Len(toks) + 1 /\ P[1] = span
        /\ \A k \in 2 .. Len(toks) + 1 : P[k] = spans[k - 1]
    <2>1. span \in Span /\ spans \in Seq(Span)
      BY <1>2, <1>3
    <2> HIDE DEF Span, T
    <2>2. /\ <<span>> \o spans \in Seq(Span)
          /\ Len(<<span>> \o spans) = Len(spans) + 1
          /\ (<<span>> \o spans)[1] = span
          /\ \A k \in 2 .. Len(spans) + 1 : (<<span>> \o spans)[k] = spans[k - 1]
      BY <2>1, InFront
    <2>3. P \in Seq(Span) /\ Len(P) = Len(spans) + 1 /\ P[1] = span
      BY <2>2
    <2>4. \A k \in 2 .. Len(spans) + 1 : P[k] = spans[k - 1]
      BY <2>2
    <2> HIDE DEF P
    <2> QED
      BY <1>3, <2>3, <2>4
  <1> HIDE DEF T, P
  <1>6. ASSUME NEW k \in 2 .. Len(T)
        PROVE  /\ IsToken(text, i, P[k].from, P[k].to)
               /\ T[k] = SubSeq(text, P[k].from, P[k].to - 1)
               /\ to <= P[k].from
    <2>1. k \in 2 .. Len(toks) + 1 /\ k - 1 \in 1 .. Len(toks)
      BY <1>3, <1>4
    <2>2. /\ IsToken(text, to, P[k].from, P[k].to)
          /\ T[k] = SubSeq(text, P[k].from, P[k].to - 1)
      <3>1. T[k] = toks[k - 1]
        BY <1>4, <2>1
      <3>2. P[k] = spans[k - 1]
        BY <1>5, <2>1
      <3> QED
        BY <2>1, <3>1, <3>2 DEF Spread
    <2>3. to \in i .. Len(text) + 2
      BY <1>1
    <2>4. to <= P[k].from
      BY <1>1, <2>2 DEF IsToken
    <2> QED
      BY <2>2, <2>3, <2>4, TokenMoves
  <1>7. /\ IsToken(text, i, P[1].from, P[1].to)
        /\ T[1] = SubSeq(text, P[1].from, P[1].to - 1)
    BY <1>2, <1>4, <1>5 DEF piece
  <1>8. ASSUME NEW j \in 1 .. Len(T), NEW k \in 1 .. Len(T), j < k
        PROVE  P[j].to <= P[k].from
    <2>1. CASE j = 1
      BY <1>2, <1>5, <1>6, <1>8, <2>1
    <2>2. CASE j # 1
      <3>1. j \in 2 .. Len(toks) + 1 /\ k \in 2 .. Len(toks) + 1
        BY <1>3, <1>4, <1>8, <2>2
      <3>2. j - 1 \in 1 .. Len(toks) /\ k - 1 \in 1 .. Len(toks) /\ j - 1 < k - 1
        BY <1>3, <1>8, <3>1
      <3>3. P[j] = spans[j - 1] /\ P[k] = spans[k - 1]
        BY <1>5, <3>1
      <3> QED
        BY <3>2, <3>3 DEF Spread
    <2> QED
      BY <2>1, <2>2
  <1>9. \A k \in 1 .. Len(T) : k = 1 \/ k \in 2 .. Len(T)
    BY <1>3, <1>4
  <1>10. \A k \in 1 .. Len(T) : /\ IsToken(text, i, P[k].from, P[k].to)
                                /\ T[k] = SubSeq(text, P[k].from, P[k].to - 1)
    BY <1>6, <1>7, <1>9
  <1>11. Spread(text, i, T, P)
    BY <1>4, <1>5, <1>8, <1>10 DEF Spread
  <1> QED
    BY <1>11 DEF T, P, piece, span
LEMMA ReadFirst ==
    ASSUME NEW text, Len(text) \in Nat, NEW i \in 1 .. Len(text),
           NEW s, NEW from, Reads(text, i, s, from),
           NEW q, Result(text, s.at, q)
    PROVE  Result(text, i, [q EXCEPT !.toks = s.toks \o @, !.past = s.past \/ @])
  <1> DEFINE r     == [q EXCEPT !.toks = s.toks \o @, !.past = s.past \/ @]
             piece == SubSeq(text, from, s.at - 1)
             span  == [from |-> from, to |-> s.at]
  <1>1. /\ IsToken(text, i, from, s.at) /\ s.toks = <<piece>> /\ s.past = FALSE
        /\ s.toks \in Seq(Pieces(text)) /\ (~Crowded(text) => from = i)
    BY DEF Reads, Scanning
  <1>2. /\ q \in Scanning(text) /\ (q.end = "ok" => q.at > Len(text))
        /\ ~Crowded(text) => ~q.past
    BY DEF Result
  <1>3. PICK spans : /\ Spread(text, s.at, q.toks, spans)
                     /\ ~Crowded(text) /\ q.end = "ok" => AllRead(text, s.at, spans)
    BY DEF Result
  <1> DEFINE P == <<span>> \o spans
  <1>4. q.toks \in Seq(Pieces(text)) /\ q.past \in BOOLEAN
    BY <1>2 DEF Scanning
  <1>5. s.toks \o q.toks \in Seq(Pieces(text))
    BY <1>1, <1>4, ConcatProperties
  <1>6. r = [q EXCEPT !.toks = s.toks \o q.toks, !.past = s.past \/ q.past]
    BY <1>2 DEF Scanning
  <1>7. /\ r \in Scanning(text) /\ r.end = q.end /\ r.at = q.at
        /\ r.toks = s.toks \o q.toks /\ r.past = (s.past \/ q.past)
    BY <1>1, <1>2, <1>4, <1>5, <1>6 DEF Scanning
  <1>8. Spread(text, i, <<piece>> \o q.toks, P)
    BY <1>1, <1>3, <1>4, SpreadFirst
  <1> HIDE DEF r
  <1>9. Spread(text, i, r.toks, P)
    BY <1>1, <1>7, <1>8
  <1>10. ASSUME ~Crowded(text), r.end = "ok" PROVE AllRead(text, i, P)
    <2>1. spans \in Seq([from : Nat, to : Nat]) /\ Len(spans) \in Nat
      BY <1>3 DEF Spread
    <2>2. span \in [from : Nat, to : Nat] /\ span.from = i /\ span.to = s.at
      BY <1>1, <1>10 DEF IsToken
    <2> HIDE DEF span
    <2>3. /\ P \in Seq([from : Nat, to : Nat]) /\ Len(P) = Len(spans) + 1 /\ P[1] = span
          /\ \A k \in 2 .. Len(spans) + 1 : P[k] = spans[k - 1]
      BY <2>1, <2>2, InFront
    <2> HIDE DEF P
    <2>4. DOMAIN P = 1 .. Len(spans) + 1 /\ DOMAIN spans = 1 .. Len(spans)
      BY <2>1, <2>3
    <2>5. ASSUME NEW p \in i .. Len(text), Meant(text, p)
          PROVE  \E k \in DOMAIN P : P[k].from <= p /\ p < P[k].to
      <3>1. CASE p < s.at
        <4>1. 1 \in DOMAIN P /\ P[1].from <= p /\ p < P[1].to
          BY <2>1, <2>2, <2>3, <2>4, <3>1
        <4> QED
          BY <4>1
      <3>2. CASE ~(p < s.at)
        <4>1. p \in s.at .. Len(text)
          BY <1>1, <3>2 DEF IsToken
        <4>2. PICK k \in DOMAIN spans : spans[k].from <= p /\ p < spans[k].to
          BY <1>3, <1>7, <1>10, <2>5, <4>1 DEF AllRead
        <4>3. k + 1 \in 2 .. Len(spans) + 1 /\ k + 1 - 1 = k
          BY <2>1, <2>4
        <4>4. k + 1 \in DOMAIN P /\ P[k + 1] = spans[k]
          BY <2>1, <2>3, <2>4, <4>3
        <4> QED
          BY <4>2, <4>4
      <3> QED
        BY <3>1, <3>2
    <2> QED
      BY <2>5 DEF AllRead
  <1>11. ~Crowded(text) => ~r.past
    BY <1>1, <1>2, <1>7
  <1> HIDE DEF P
  <1>12. Result(text, i, r)
    BY <1>2, <1>7, <1>9, <1>10, <1>11 DEF Result
  <1> QED
    BY <1>12 DEF r

\* What read is in Tokenize, on the positions from m on.
ReadAt(text, i, f) ==
    LET s == Scan(text, Start(i))
    IN  IF i > Len(text) \/ s.end # "ok" THEN s
        ELSE [f[s.at] EXCEPT !.toks = s.toks \o @, !.past = s.past \/ @]

IsReading(f, text, m) == f = [i \in m .. Len(text) + 2 |-> ReadAt(text, i, f)]

\* A round goes on in the text.
LEMMA ScanGoesOn ==
    ASSUME NEW text, Len(text) \in Nat, NEW i \in 1 .. Len(text),
           Scan(text, Start(i)).end = "ok"
    PROVE  Scan(text, Start(i)).at \in i + 1 .. Len(text) + 2
  <1> DEFINE s == Scan(text, Start(i))
  <1>1. Passes(text, i, s) \/ \E from \in i .. Len(text) : Reads(text, i, s, from)
    BY ScanStep
  <1> HIDE DEF s
  <1>2. s.end = "ok"
    BY DEF s
  <1>3. s.at \in i + 1 .. Len(text) + 2
    BY <1>1, <1>2 DEF Passes, Reads, IsToken
  <1> QED
    BY <1>3 DEF s

\* It reads the positions behind it only.
LEMMA ReadLooksAhead ==
    ASSUME NEW text, Len(text) \in Nat, NEW i \in 1 .. Len(text) + 2, NEW f, NEW g,
           \A j \in i + 1 .. Len(text) + 2 : f[j] = g[j]
    PROVE  ReadAt(text, i, f) = ReadAt(text, i, g)
  <1> DEFINE s == Scan(text, Start(i))
  <1>1. CASE i > Len(text) \/ s.end # "ok"
    BY <1>1 DEF ReadAt
  <1>2. CASE ~(i > Len(text) \/ s.end # "ok")
    <2>1. i \in 1 .. Len(text) /\ s.end = "ok"
      BY <1>2
    <2>2. s.at \in i + 1 .. Len(text) + 2
      BY <2>1, ScanGoesOn
    <2>3. f[s.at] = g[s.at]
      BY <2>2
    <2> QED
      BY <1>2, <2>3 DEF ReadAt
  <1> QED
    BY <1>1, <1>2

LEMMA ReadingGoesOn ==
    ASSUME NEW text, Len(text) \in Nat, NEW m \in 2 .. Len(text) + 2,
           NEW f, IsReading(f, text, m)
    PROVE  \E g : IsReading(g, text, m - 1)
  <1> DEFINE z == Len(text) + 2
             g == [i \in m - 1 .. z |-> IF i = m - 1 THEN ReadAt(text, m - 1, f) ELSE f[i]]
  <1>1. ASSUME NEW i \in m - 1 .. z PROVE g[i] = ReadAt(text, i, g)
    <2>1. i \in 1 .. Len(text) + 2
      OBVIOUS
    <2>2. \A j \in i + 1 .. Len(text) + 2 : f[j] = g[j]
      OBVIOUS
    <2>3. ReadAt(text, i, f) = ReadAt(text, i, g)
      BY <2>1, <2>2, ReadLooksAhead
    <2>4. CASE i = m - 1
      <3>1. g[i] = ReadAt(text, i, f)
        BY <2>4
      <3> QED
        BY <2>3, <3>1
    <2>5. CASE i \in m .. z
      <3>1. f[i] = ReadAt(text, i, f)
        BY <2>5 DEF IsReading
      <3>2. g[i] = f[i]
        BY <2>5
      <3> QED
        BY <2>3, <3>1, <3>2
    <2> QED
      BY <2>4, <2>5
  <1>2. g = [i \in m - 1 .. z |-> g[i]]
    OBVIOUS
  <1> HIDE DEF g
  <1>3. IsReading(g, text, m - 1)
    BY <1>1, <1>2 DEF IsReading
  <1> QED
    BY <1>3

LEMMA ReadingExists ==
    ASSUME NEW text, Len(text) \in Nat
    PROVE  \E f : IsReading(f, text, 1)
  <1> DEFINE z == Len(text) + 2
             Without == {d \in 0 .. Len(text) + 1 : ~ \E f : IsReading(f, text, z - d)}
  <1>1. ASSUME Without # {} PROVE FALSE
    <2>1. Without \subseteq Nat
      OBVIOUS
    <2>2. PICK d \in Without : \A e \in Without : d <= e
      BY <1>1, <2>1, SmallestNumber
    <2>3. d # 0
      <3> DEFINE f == [i \in z .. z |-> Scan(text, Start(i))]
      <3>1. \A i \in z .. z : ReadAt(text, i, f) = Scan(text, Start(i))
        BY DEF ReadAt
      <3>2. f = [i \in z .. z |-> ReadAt(text, i, f)]
        <4> HIDE DEF z
        <4> QED
          BY <3>1
      <3> HIDE DEF f
      <3>3. IsReading(f, text, z)
        BY <3>2 DEF IsReading
      <3> QED
        BY <3>3
    <2>4. d - 1 \in 0 .. Len(text) + 1 /\ d - 1 \notin Without
      <3>1. d \in 1 .. Len(text) + 1
        BY <2>3
      <3> HIDE DEF Without
      <3>2. ~(d <= d - 1)
        BY <3>1
      <3> QED
        BY <2>2, <3>1, <3>2
    <2>5. PICK f : IsReading(f, text, z - (d - 1))
      BY <2>4
    <2>6. z - (d - 1) \in 2 .. Len(text) + 2
      BY <2>3, <2>4
    <2>7. \E g : IsReading(g, text, z - (d - 1) - 1)
      BY <2>5, <2>6, ReadingGoesOn
    <2>8. z - (d - 1) - 1 = z - d
      BY <2>2
    <2> QED
      BY <2>2, <2>7, <2>8
  <1>2. Len(text) + 1 \in 0 .. Len(text) + 1 /\ z - (Len(text) + 1) = 1
    OBVIOUS
  <1> QED
    BY <1>1, <1>2

LEMMA ReadResult ==
    ASSUME NEW text, Len(text) \in Nat, NEW i \in 1 .. Len(text) + 2, NEW f,
           \A j \in i + 1 .. Len(text) + 2 : Result(text, j, f[j])
    PROVE  Result(text, i, ReadAt(text, i, f))
  <1> DEFINE s == Scan(text, Start(i))
  <1>1. CASE i > Len(text)
    <2>1. /\ Start(i) \in Scanning(text) /\ Start(i).at = i /\ Start(i).toks = <<>>
          /\ Start(i).past = FALSE
      BY StartIs
    <2>2. s = Start(i)
      BY <1>1, <2>1 DEF Scan
    <2>3. ReadAt(text, i, f) = Start(i)
      BY <1>1, <2>2 DEF ReadAt
    <2>4. Result(text, i, Start(i))
      BY <1>1, <2>1, NoSpans
    <2> QED
      BY <2>3, <2>4
  <1>2. CASE ~(i > Len(text)) /\ s.end # "ok"
    <2>1. i \in 1 .. Len(text)
      BY <1>2
    <2>2. Passes(text, i, s) \/ \E from \in i .. Len(text) : Reads(text, i, s, from)
      BY <2>1, ScanStep
    <2>3. ReadAt(text, i, f) = s
      BY <1>2 DEF ReadAt
    <2> HIDE DEF s
    <2>4. s \in Scanning(text) /\ s.toks = <<>> /\ (~Crowded(text) => ~s.past)
      BY <1>2, <2>2 DEF Passes, Reads
    <2>5. Result(text, i, s)
      BY <1>2, <2>4, NoSpans
    <2> QED
      BY <2>3, <2>5
  <1>3. CASE ~(i > Len(text)) /\ s.end = "ok"
    <2> DEFINE q == f[s.at]
    <2>1. i \in 1 .. Len(text)
      BY <1>3
    <2>2. Passes(text, i, s) \/ \E from \in i .. Len(text) : Reads(text, i, s, from)
      BY <2>1, ScanStep
    <2>3. Result(text, s.at, q)
      BY <1>3, <2>1, ScanGoesOn
    <2>4. ReadAt(text, i, f) = [q EXCEPT !.toks = s.toks \o @, !.past = s.past \/ @]
      BY <1>3 DEF ReadAt
    <2> HIDE DEF s, q
    <2>5. Result(text, i, [q EXCEPT !.toks = s.toks \o @, !.past = s.past \/ @])
      BY <1>3, <2>1, <2>2, <2>3, PassFirst, ReadFirst
    <2> QED
      BY <2>4, <2>5
  <1> QED
    BY <1>1, <1>2, <1>3

LEMMA Tokenized ==
    ASSUME NEW text, Len(text) \in Nat
    PROVE  Result(text, 1, Tokenize(text))
  <1> DEFINE F == CHOOSE f : IsReading(f, text, 1)
             z == Len(text) + 2
  <1>1. IsReading(F, text, 1)
    BY ReadingExists
  <1>2. Tokenize(text) = F[1]
    BY DEF Tokenize, IsReading, ReadAt
  <1> HIDE DEF F
  <1> DEFINE Wrong == {d \in 0 .. Len(text) + 1 : ~Result(text, z - d, F[z - d])}
  <1>3. ASSUME Wrong # {} PROVE FALSE
    <2>1. Wrong \subseteq Nat
      OBVIOUS
    <2>2. PICK d \in Wrong : \A c \in Wrong : d <= c
      BY <1>3, <2>1, SmallestNumber
    <2> DEFINE i == z - d
    <2>3. i \in 1 .. Len(text) + 2
      BY <2>2
    <2>4. ASSUME NEW j \in i + 1 .. Len(text) + 2 PROVE Result(text, j, F[j])
      <3>1. z - j \in 0 .. Len(text) + 1 /\ z - j < d /\ z - (z - j) = j
        BY <2>2, <2>3, <2>4
      <3>2. ~(d <= z - j)
        BY <2>2, <3>1
      <3>3. z - j \notin Wrong
        BY <2>2, <3>2
      <3> QED
        BY <3>1, <3>3
    <2>5. Result(text, i, ReadAt(text, i, F))
      BY <2>3, <2>4, ReadResult
    <2>6. F[i] = ReadAt(text, i, F)
      BY <1>1, <2>3 DEF IsReading
    <2> QED
      BY <2>2, <2>5, <2>6
  <1>4. Len(text) + 1 \in 0 .. Len(text) + 1 /\ z - (Len(text) + 1) = 1
    OBVIOUS
  <1> QED
    BY <1>2, <1>3, <1>4
-----------------------------------------------------------------------------
(* What follows for every text. *)

(***************************************************************************)
(* Every token of cabor_tokenize is what stands in the text at its place,  *)
(* is not empty and fits its array (tokenizer.c:18-34), and the tokens are *)
(* in the order of the text: no character is read into two of them.        *)
(***************************************************************************)
THEOREM TokensInOrder ==
    ASSUME NEW text, Len(text) \in Nat
    PROVE  \E spans : Spread(text, 1, Tokenize(text).toks, spans)
  BY Tokenized DEF Result

(***************************************************************************)
(* Of any text where or, and and not keep away from the signs and from     *)
(* each other, every character of the language that is neither blank nor   *)
(* in a comment is in a token (tokenizer.c:374-432), unless the tokenizer  *)
(* has ended the process over a token that is too long.                    *)
(***************************************************************************)
THEOREM NoCharacterLost ==
    ASSUME NEW text, Len(text) \in Nat, ~Crowded(text), Tokenize(text).end = "ok"
    PROVE  \E spans : /\ Spread(text, 1, Tokenize(text).toks, spans)
                     /\ AllRead(text, 1, spans)
  BY Tokenized DEF Result

(***************************************************************************)
(* The loop of cabor_tokenize goes on in the text at every round: it comes *)
(* to its end, and nowhere else does it stop.                              *)
(***************************************************************************)
THEOREM TokenizerEnds ==
    ASSUME NEW text, Len(text) \in Nat
    PROVE  /\ Tokenize(text).end \in {"ok", "exited", "undefined"}
           /\ Tokenize(text).end = "ok" => Tokenize(text).at \in Len(text) + 1 .. Len(text) + 2
  <1>1. /\ Tokenize(text) \in Scanning(text)
        /\ Tokenize(text).end = "ok" => Tokenize(text).at > Len(text)
    BY Tokenized DEF Result
  <1> QED
    BY <1>1 DEF Scanning

(***************************************************************************)
(* match_punctuation reads behind the end of the buffer (tokenizer.c:90)   *)
(* only when an operator has been given up there, which takes a word       *)
(* operator next to a sign or to another.                                  *)
(***************************************************************************)
THEOREM StaysInText ==
    ASSUME NEW text, Len(text) \in Nat, ~Crowded(text)
    PROVE  ~Tokenize(text).past
  BY Tokenized DEF Result

-----------------------------------------------------------------------------
(* What the parser leaves in the heap.                                     *)

\* How many edges a node of its kind has, as its readers take for granted.
Arity(node) ==
    LET edges == Len(node.edges)
    IN  /\ node.kind \in {"BINARY_OP", "WHILE"} => edges = 2
        /\ node.kind = "UNARY_OP" => edges = 1
        /\ node.kind \in {"VAR_EXPR", "IF_THEN_ELSE"} => edges \in {2, 3}
        /\ node.kind \in {"BINARY_OP", "VAR_EXPR"} => node.edges[1] # NullAst

\* A node at a token the parser was given.
Normal(node) == node.kind \notin {"UNIT", "UNKNOWN"}

\* The nodes of h are where they were.
Extended(h, i) == Len(h) <= Len(i) /\ \A n \in 1 .. Len(h) : i[n] = h[n]

\* Edges go down, no node has two, and those that are held have none.
Family(h, b, held) ==
    /\ held \subseteq {NullAst} \union (b + 1 .. Len(h))
    /\ \A n \in b + 1 .. Len(h) : Arity(h[n])
    /\ \A n \in b + 1 .. Len(h) : \A k \in DOMAIN h[n].edges :
          /\ h[n].edges[k] \in {NullAst} \union (b + 1 .. n - 1)
          /\ h[n].edges[k] \in held => h[n].edges[k] = NullAst
    /\ \A n, m \in b + 1 .. Len(h) : \A j \in DOMAIN h[n].edges, k \in DOMAIN h[m].edges :
          h[n].edges[j] = h[m].edges[k] /\ h[n].edges[j] # NullAst => n = m /\ j = k

\* Nothing was given up: neither an expression nor the arguments of a call.
Lossless(h, b, held) ==
    /\ NullAst \notin held
    /\ \A n \in b + 1 .. Len(h) : h[n].kind # "UNKNOWN"
    /\ \A n \in b + 1 .. Len(h) : \A k \in DOMAIN h[n].edges : h[n].edges[k] # NullAst

\* Every node is held or below another.
Complete(h, b, held) ==
    \A n \in b + 1 .. Len(h) :
        \/ n \in held
        \/ \E m \in b + 1 .. Len(h) : \E k \in DOMAIN h[m].edges : h[m].edges[k] = n

\* What was allocated is in the tree, unless something was given up.
Whole(h, b, held, count) ==
    Lossless(h, b, held) => count = Len(h) - b /\ Complete(h, b, held)

\* last is the number of tokens the parser was given, from and size the numbers
\* of all tokens before and now.
InPlace(h, b, last, from, size, low, top) ==
    /\ \A n \in b + 1 .. Len(h) :
          /\ Normal(h[n]) => h[n].at \in low .. top /\ h[n].at <= last
          /\ h[n].kind = "UNIT" => h[n].at \in from + 1 .. size
    /\ \A n, m \in b + 1 .. Len(h) :
          h[n].kind # "UNKNOWN" /\ h[m].kind # "UNKNOWN" /\ h[n].at = h[m].at => n = m

\* The nodes of a binary operator's operands are at tokens on either side of its own.
Ordered(h, b) ==
    \A n, m \in b + 1 .. Len(h) : h[n].kind = "BINARY_OP" =>
        /\ m <= h[n].edges[1] /\ Normal(h[m]) => h[m].at < h[n].at
        /\ h[n].edges[1] < m /\ m <= h[n].edges[2] /\ h[m].kind # "UNKNOWN"
              => h[m].at > h[n].at

\* A binary operator has two operands.
LEMMA TwoEdges ==
    ASSUME NEW node \in Node, Arity(node), node.kind = "BINARY_OP"
    PROVE  1 \in DOMAIN node.edges /\ 2 \in DOMAIN node.edges /\ node.edges[1] # NullAst
  <1>1. Len(node.edges) = 2 /\ node.edges[1] # NullAst
    BY DEF Arity
  <1>2. node.edges \in Seq(Nat)
    BY DEF Node
  <1> QED
    BY <1>1, <1>2

\* Two parts of the heap, one made behind the other, and what is held of each.
LEMMA FamilyJoin ==
    ASSUME NEW h \in Seq(Node), NEW i \in Seq(Node), NEW b \in Nat, b <= Len(h), Extended(h, i),
           NEW held, NEW more, Family(h, b, held), Family(i, Len(h), more)
    PROVE  Family(i, b, held \union more)
  <1> DEFINE c == Len(h)
             d == Len(i)
  <1>1. /\ c \in Nat /\ d \in Nat /\ b <= c /\ c <= d
        /\ \A n \in b + 1 .. c : i[n] = h[n]
        /\ \A n \in b + 1 .. d : n \in b + 1 .. c \/ n \in c + 1 .. d
    BY DEF Extended
  <1>2. held \union more \subseteq {NullAst} \union (b + 1 .. d)
    BY <1>1 DEF Family
  <1>3. \A n \in b + 1 .. d : Arity(i[n])
    BY <1>1 DEF Family
  <1>4. ASSUME NEW n \in b + 1 .. d, NEW k \in DOMAIN i[n].edges
        PROVE  /\ i[n].edges[k] \in {NullAst} \union (b + 1 .. n - 1)
               /\ i[n].edges[k] \in held \union more => i[n].edges[k] = NullAst
               /\ n \in c + 1 .. d => i[n].edges[k] \in {NullAst} \union (c + 1 .. n - 1)
               /\ n \in b + 1 .. c => i[n].edges[k] \in {NullAst} \union (b + 1 .. c)
    <2>1. CASE n \in b + 1 .. c
      <3>1. /\ h[n].edges[k] \in {NullAst} \union (b + 1 .. n - 1)
            /\ h[n].edges[k] \in held => h[n].edges[k] = NullAst
            /\ more \subseteq {NullAst} \union (c + 1 .. d)
        BY <1>1, <1>4, <2>1 DEF Family
      <3> QED
        BY <1>1, <2>1, <3>1
    <2>2. CASE n \in c + 1 .. d
      <3>1. /\ i[n].edges[k] \in {NullAst} \union (c + 1 .. n - 1)
            /\ i[n].edges[k] \in more => i[n].edges[k] = NullAst
            /\ held \subseteq {NullAst} \union (b + 1 .. c)
        BY <1>4, <2>2 DEF Family
      <3> QED
        BY <1>1, <2>2, <3>1
    <2> QED
      BY <1>1, <2>1, <2>2
  <1>5. ASSUME NEW n \in b + 1 .. d, NEW m \in b + 1 .. d,
               NEW j \in DOMAIN i[n].edges, NEW k \in DOMAIN i[m].edges,
               i[n].edges[j] = i[m].edges[k], i[n].edges[j] # NullAst
        PROVE  n = m /\ j = k
    <2>1. CASE n \in b + 1 .. c /\ m \in b + 1 .. c
      BY <1>1, <1>5, <2>1 DEF Family
    <2>2. CASE n \in c + 1 .. d /\ m \in c + 1 .. d
      BY <1>1, <1>5, <2>2 DEF Family
    <2>3. CASE n \in b + 1 .. c /\ m \in c + 1 .. d
      BY <1>1, <1>4, <1>5, <2>3
    <2>4. CASE n \in c + 1 .. d /\ m \in b + 1 .. c
      BY <1>1, <1>4, <1>5, <2>4
    <2> QED
      BY <1>1, <2>1, <2>2, <2>3, <2>4
  <1> QED
    BY <1>2, <1>3, <1>4, <1>5 DEF Family

LEMMA WholeJoin ==
    ASSUME NEW h \in Seq(Node), NEW i \in Seq(Node), NEW b \in Nat, b <= Len(h), Extended(h, i),
           NEW held, NEW more, NEW some \in Int, NEW rest \in Int,
           Whole(h, b, held, some), Whole(i, Len(h), more, rest)
    PROVE  Whole(i, b, held \union more, some + rest)
  <1> DEFINE c == Len(h)
             d == Len(i)
  <1>1. /\ c \in Nat /\ d \in Nat /\ b <= c /\ c <= d
        /\ \A n \in b + 1 .. c : i[n] = h[n] /\ n \in b + 1 .. d
        /\ \A n \in c + 1 .. d : n \in b + 1 .. d
        /\ \A n \in b + 1 .. d : n \in b + 1 .. c \/ n \in c + 1 .. d
    BY DEF Extended
  <1> SUFFICES ASSUME Lossless(i, b, held \union more)
               PROVE  some + rest = d - b /\ Complete(i, b, held \union more)
    BY DEF Whole
  <1>2. Lossless(h, b, held) /\ Lossless(i, c, more)
    BY <1>1 DEF Lossless
  <1>3. /\ some = c - b /\ Complete(h, b, held)
        /\ rest = d - c /\ Complete(i, c, more)
    BY <1>2 DEF Whole
  <1>4. Complete(i, b, held \union more)
    <2> SUFFICES ASSUME NEW n \in b + 1 .. d, n \notin held \union more
                 PROVE  \E m \in b + 1 .. d : \E k \in DOMAIN i[m].edges : i[m].edges[k] = n
      BY DEF Complete
    <2>1. CASE n \in b + 1 .. c
      <3>1. PICK m \in b + 1 .. c : \E k \in DOMAIN h[m].edges : h[m].edges[k] = n
        BY <1>3, <2>1 DEF Complete
      <3> QED
        BY <1>1, <3>1
    <2>2. CASE n \in c + 1 .. d
      <3>1. PICK m \in c + 1 .. d : \E k \in DOMAIN i[m].edges : i[m].edges[k] = n
        BY <1>3, <2>2 DEF Complete
      <3> QED
        BY <1>1, <3>1
    <2> QED
      BY <1>1, <2>1, <2>2
  <1> QED
    BY <1>1, <1>3, <1>4

LEMMA InPlaceJoin ==
    ASSUME NEW h \in Seq(Node), NEW i \in Seq(Node), NEW b \in Nat, b <= Len(h), Extended(h, i),
           NEW last \in Nat, NEW from \in Nat, NEW mid \in Nat, NEW size \in Nat,
           last <= from, from <= mid, mid <= size,
           NEW low \in Nat, NEW top \in Nat, NEW next \in Nat, NEW end \in Nat,
           low <= next, top < next, top <= end,
           InPlace(h, b, last, from, mid, low, top), InPlace(i, Len(h), last, mid, size, next, end)
    PROVE  InPlace(i, b, last, from, size, low, end)
  <1> DEFINE c == Len(h)
             d == Len(i)
  <1>1. /\ c \in Nat /\ d \in Nat /\ b <= c /\ c <= d
        /\ \A n \in b + 1 .. c : i[n] = h[n]
        /\ \A n \in b + 1 .. d : n \in b + 1 .. c \/ n \in c + 1 .. d
        /\ \A n \in b + 1 .. d : i[n] \in Node
    BY DEF Extended
  <1>2. ASSUME NEW n \in b + 1 .. c
        PROVE  /\ Normal(i[n]) => i[n].at \in low .. top /\ i[n].at <= last
               /\ i[n].kind = "UNIT" => i[n].at \in from + 1 .. mid
    BY <1>1 DEF InPlace
  <1>3. ASSUME NEW n \in c + 1 .. d
        PROVE  /\ Normal(i[n]) => i[n].at \in next .. end /\ i[n].at <= last
               /\ i[n].kind = "UNIT" => i[n].at \in mid + 1 .. size
    BY DEF InPlace
  <1>4. ASSUME NEW n \in b + 1 .. c, NEW m \in c + 1 .. d, i[n].kind # "UNKNOWN", i[m].kind # "UNKNOWN"
        PROVE  i[n].at # i[m].at
    <2> DEFINE x == i[n].at
               y == i[m].at
    <2>1. i[n] \in Node /\ i[m] \in Node
      BY <1>1
    <2>2. x \in Nat /\ y \in Nat
      BY <2>1 DEF Node
    <2>3. (x <= top /\ x <= last) \/ (x > from /\ x <= mid)
      <3>1. (x \in low .. top /\ x <= last) \/ x \in from + 1 .. mid
        BY <1>2, <1>4 DEF Normal
      <3> HIDE DEF x, y
      <3> QED
        BY <2>2, <3>1
    <2>4. (y >= next /\ y <= last) \/ y > mid
      <3>1. (y \in next .. end /\ y <= last) \/ y \in mid + 1 .. size
        BY <1>3, <1>4 DEF Normal
      <3> HIDE DEF x, y
      <3> QED
        BY <2>2, <3>1
    <2> HIDE DEF x, y
    <2>5. x # y
      BY <2>2, <2>3, <2>4
    <2> QED
      BY <2>5 DEF x, y
  <1>5. ASSUME NEW n \in b + 1 .. d, NEW m \in b + 1 .. d,
               i[n].kind # "UNKNOWN", i[m].kind # "UNKNOWN", i[n].at = i[m].at
        PROVE  n = m
    <2>1. CASE n \in b + 1 .. c /\ m \in b + 1 .. c
      <3>1. i[n] = h[n] /\ i[m] = h[m]
        BY <1>1, <2>1
      <3> QED
        BY <1>5, <2>1, <3>1 DEF InPlace
    <2>2. CASE n \in c + 1 .. d /\ m \in c + 1 .. d
      BY <1>5, <2>2 DEF InPlace
    <2> HIDE DEF c, d
    <2> QED
      BY <1>1, <1>4, <1>5, <2>1, <2>2
  <1>6. ASSUME NEW n \in b + 1 .. d
        PROVE  /\ Normal(i[n]) => i[n].at \in low .. end /\ i[n].at <= last
               /\ i[n].kind = "UNIT" => i[n].at \in from + 1 .. size
    <2> DEFINE x == i[n].at
    <2>1. i[n] \in Node
      BY <1>1
    <2>2. x \in Nat
      BY <2>1 DEF Node
    <2>3. n \in b + 1 .. c \/ n \in c + 1 .. d
      BY <1>1
    <2>4. Normal(i[n]) => ((low <= x /\ x <= top) \/ (next <= x /\ x <= end)) /\ x <= last
      BY <1>2, <1>3, <2>2, <2>3
    <2>5. i[n].kind = "UNIT" => (from + 1 <= x /\ x <= mid) \/ (mid + 1 <= x /\ x <= size)
      BY <1>2, <1>3, <2>2, <2>3
    <2> HIDE DEF x, c, d
    <2>6. /\ Normal(i[n]) => x \in low .. end /\ x <= last
          /\ i[n].kind = "UNIT" => x \in from + 1 .. size
      BY <2>2, <2>4, <2>5
    <2> QED
      BY <2>6 DEF x
  <1> QED
    BY <1>5, <1>6 DEF InPlace

LEMMA OrderedJoin ==
    ASSUME NEW h \in Seq(Node), NEW i \in Seq(Node), NEW b \in Nat, b <= Len(h), Extended(h, i),
           NEW held, NEW more, Family(h, b, held), Family(i, Len(h), more),
           NEW last \in Nat, NEW from \in Nat, NEW mid \in Nat, NEW size \in Nat,
           last <= from, from <= mid, mid <= size,
           NEW low \in Nat, NEW top \in Nat, NEW next \in Nat, NEW end \in Nat, top < next,
           InPlace(h, b, last, from, mid, low, top), InPlace(i, Len(h), last, mid, size, next, end),
           Ordered(h, b), Ordered(i, Len(h))
    PROVE  Ordered(i, b)
  <1> DEFINE c == Len(h)
             d == Len(i)
  <1>1. /\ c \in Nat /\ d \in Nat /\ b <= c /\ c <= d
        /\ \A n \in b + 1 .. c : i[n] = h[n]
        /\ \A n \in b + 1 .. d : n \in b + 1 .. c \/ n \in c + 1 .. d
        /\ \A n \in b + 1 .. d : i[n] \in Node
    BY DEF Extended
  <1> SUFFICES ASSUME NEW n \in b + 1 .. d, NEW m \in b + 1 .. d, i[n].kind = "BINARY_OP"
               PROVE  /\ m <= i[n].edges[1] /\ Normal(i[m]) => i[m].at < i[n].at
                      /\ i[n].edges[1] < m /\ m <= i[n].edges[2] /\ i[m].kind # "UNKNOWN"
                            => i[m].at > i[n].at
    BY DEF Ordered
  <1>6. n \in b + 1 .. c => h[n].edges[1] \in {NullAst} \union (b + 1 .. n - 1)
                              /\ h[n].edges[2] \in {NullAst} \union (b + 1 .. n - 1)
    <2> SUFFICES ASSUME n \in b + 1 .. c
                 PROVE  h[n].edges[1] \in {NullAst} \union (b + 1 .. n - 1)
                        /\ h[n].edges[2] \in {NullAst} \union (b + 1 .. n - 1)
      OBVIOUS
    <2>1. h[n] = i[n] /\ i[n] \in Node /\ Arity(h[n])
      BY <1>1 DEF Family
    <2>2. 1 \in DOMAIN h[n].edges /\ 2 \in DOMAIN h[n].edges
      BY <2>1, TwoEdges
    <2> QED
      BY <2>2 DEF Family
  <1>7. n \in c + 1 .. d => i[n].edges[1] \in c + 1 .. n - 1
    <2> SUFFICES ASSUME n \in c + 1 .. d PROVE i[n].edges[1] \in c + 1 .. n - 1
      OBVIOUS
    <2>1. i[n] \in Node /\ Arity(i[n])
      BY <1>1 DEF Family
    <2>2. 1 \in DOMAIN i[n].edges /\ i[n].edges[1] # NullAst
      BY <2>1, TwoEdges
    <2> QED
      BY <2>2 DEF Family
  <1>2. CASE n \in b + 1 .. c /\ m \in b + 1 .. c
    BY <1>1, <1>2 DEF Ordered
  <1>3. CASE n \in c + 1 .. d /\ m \in c + 1 .. d
    BY <1>1, <1>3 DEF Ordered
  <1>4. CASE n \in b + 1 .. c /\ m \in c + 1 .. d
    <2> DEFINE l == h[n].edges[1]
               r == h[n].edges[2]
    <2>1. l \in {0} \union (b + 1 .. n - 1) /\ r \in {0} \union (b + 1 .. n - 1)
      BY <1>4, <1>6 DEF NullAst
    <2>2. h[n] = i[n]
      BY <1>1, <1>4
    <2> HIDE DEF l, r
    <2>3. ~(m <= l) /\ ~(m <= r)
      BY <1>1, <1>4, <2>1
    <2> QED
      BY <2>2, <2>3 DEF l, r
  <1>5. CASE n \in c + 1 .. d /\ m \in b + 1 .. c
    <2> DEFINE x == i[m].at
               y == i[n].at
               l == i[n].edges[1]
    <2>1. Normal(i[n])
      BY DEF Normal
    <2>2. i[n] \in Node /\ i[m] \in Node
      BY <1>1
    <2>3. x \in Nat /\ y \in Nat
      BY <2>2 DEF Node
    <2>4. y >= next
      BY <1>5, <2>1, <2>3 DEF InPlace
    <2>5. Normal(i[m]) => x <= top
      BY <1>1, <1>5, <2>3 DEF InPlace
    <2>6. l \in c + 1 .. n - 1
      BY <1>5, <1>7
    <2> HIDE DEF x, y, l
    <2>7. (Normal(i[m]) => x < y) /\ ~(l < m)
      BY <1>1, <1>5, <2>3, <2>4, <2>5, <2>6
    <2> QED
      BY <2>7 DEF x, y, l
  <1> QED
    BY <1>1, <1>2, <1>3, <1>4, <1>5

\* A node behind the others.
LEMMA Appended ==
    ASSUME NEW h \in Seq(Node), NEW node \in Node, NEW b \in Nat, b <= Len(h)
    PROVE  LET i == Append(h, node)
               c == Len(h)
           IN  /\ i \in Seq(Node) /\ Len(i) = c + 1 /\ c \in Nat /\ Extended(h, i)
               /\ i[c + 1] = node
               /\ \A n \in b + 1 .. c : i[n] = h[n] /\ n # c + 1 /\ n \in b + 1 .. c + 1
               /\ \A n \in b + 1 .. c + 1 : n \in b + 1 .. c \/ n = c + 1
               /\ c + 1 \in b + 1 .. c + 1
  BY DEF Extended

\* A node is made over nodes that are held, and is held in their place.
LEMMA FamilyAdd ==
    ASSUME NEW h \in Seq(Node), NEW node \in Node, NEW b \in Nat, b <= Len(h), NEW held,
           Family(h, b, held), Arity(node),
           \A k \in DOMAIN node.edges : node.edges[k] \in held,
           \A j, k \in DOMAIN node.edges :
              node.edges[j] = node.edges[k] /\ node.edges[j] # NullAst => j = k
    PROVE  Family(Append(h, node), b,
                  (held \ {node.edges[k] : k \in DOMAIN node.edges}) \union {Len(h) + 1})
  <1> DEFINE c == Len(h)
             i == Append(h, node)
             now == (held \ {node.edges[k] : k \in DOMAIN node.edges}) \union {c + 1}
  <1>1. /\ i \in Seq(Node) /\ Len(i) = c + 1 /\ c \in Nat /\ b <= c
        /\ i[c + 1] = node
        /\ \A n \in b + 1 .. c : i[n] = h[n] /\ n # c + 1
        /\ \A n \in b + 1 .. c + 1 : n \in b + 1 .. c \/ n = c + 1
    BY Appended
  <1> HIDE DEF i, c
  <1>2. now \subseteq {NullAst} \union (b + 1 .. c + 1)
    BY <1>1 DEF Family, c
  <1>3. \A n \in b + 1 .. c + 1 : Arity(i[n])
    BY <1>1 DEF Family, c
  <1>4. \A n \in b + 1 .. c : \A k \in DOMAIN i[n].edges :
           /\ i[n].edges[k] \in {NullAst} \union (b + 1 .. n - 1)
           /\ i[n].edges[k] \in held => i[n].edges[k] = NullAst
    BY <1>1 DEF Family, c
  <1>5. \A k \in DOMAIN i[c + 1].edges :
           /\ i[c + 1].edges[k] \in held
           /\ i[c + 1].edges[k] \in {NullAst} \union (b + 1 .. c)
           /\ i[c + 1].edges[k] \notin held \ {node.edges[j] : j \in DOMAIN node.edges}
    BY <1>1 DEF Family, c
  <1>6. ASSUME NEW n \in b + 1 .. c + 1, NEW k \in DOMAIN i[n].edges
        PROVE  /\ i[n].edges[k] \in {NullAst} \union (b + 1 .. n - 1)
               /\ i[n].edges[k] \in now => i[n].edges[k] = NullAst
    <2> DEFINE e == i[n].edges[k]
    <2>1. CASE n \in b + 1 .. c
      <3>1. e \in {NullAst} \union (b + 1 .. n - 1) /\ (e \in held => e = NullAst)
        BY <1>4, <2>1, <1>6
      <3> HIDE DEF e
      <3>2. e # c + 1
        BY <1>1, <2>1, <3>1 DEF NullAst
      <3> QED
        BY <3>1, <3>2 DEF e
    <2>2. CASE n = c + 1
      <3>1. e \in {NullAst} \union (b + 1 .. c) /\ e \notin held \ {node.edges[j] : j \in DOMAIN node.edges}
        BY <1>5, <2>2, <1>6
      <3>2. e # c + 1
        <4> HIDE DEF e
        <4> QED
          BY <1>1, <2>2, <3>1 DEF NullAst
      <3>3. e \in {NullAst} \union (b + 1 .. n - 1)
        <4> HIDE DEF e
        <4> QED
          BY <1>1, <2>2, <3>1
      <3> QED
        BY <3>1, <3>2, <3>3
    <2> QED
      BY <1>1, <2>1, <2>2
  <1>7. ASSUME NEW n \in b + 1 .. c + 1, NEW m \in b + 1 .. c + 1,
               NEW j \in DOMAIN i[n].edges, NEW k \in DOMAIN i[m].edges,
               i[n].edges[j] = i[m].edges[k], i[n].edges[j] # NullAst
        PROVE  n = m /\ j = k
    <2>1. CASE n \in b + 1 .. c /\ m \in b + 1 .. c
      <3>1. i[n] = h[n] /\ i[m] = h[m]
        BY <1>1, <2>1
      <3> QED
        BY <1>7, <2>1, <3>1 DEF Family, c
    <2>2. CASE n = c + 1 /\ m = c + 1
      BY <1>1, <1>7, <2>2
    <2>3. CASE n \in b + 1 .. c /\ m = c + 1
      BY <1>4, <1>5, <1>7, <2>3
    <2>4. CASE n = c + 1 /\ m \in b + 1 .. c
      BY <1>4, <1>5, <1>7, <2>4
    <2> QED
      BY <1>1, <2>1, <2>2, <2>3, <2>4
  <1> QED
    BY <1>1, <1>2, <1>3, <1>6, <1>7 DEF Family, i, c

LEMMA WholeAdd ==
    ASSUME NEW h \in Seq(Node), NEW node \in Node, NEW b \in Nat, b <= Len(h), NEW held,
           NEW count \in Int, Whole(h, b, held, count)
    PROVE  Whole(Append(h, node), b,
                 (held \ {node.edges[k] : k \in DOMAIN node.edges}) \union {Len(h) + 1}, count + 1)
  <1> DEFINE c == Len(h)
             i == Append(h, node)
             now == (held \ {node.edges[k] : k \in DOMAIN node.edges}) \union {c + 1}
  <1>1. /\ i \in Seq(Node) /\ Len(i) = c + 1 /\ c \in Nat /\ b <= c
        /\ i[c + 1] = node
        /\ \A n \in b + 1 .. c : i[n] = h[n] /\ n # c + 1 /\ n \in b + 1 .. c + 1
        /\ \A n \in b + 1 .. c + 1 : n \in b + 1 .. c \/ n = c + 1
        /\ c + 1 \in b + 1 .. c + 1
    BY Appended
  <1> HIDE DEF i, c
  <1>2. SUFFICES ASSUME Lossless(i, b, now)
                 PROVE  count + 1 = c + 1 - b /\ Complete(i, b, now)
    BY <1>1 DEF Whole, i, c
  <1>3. /\ NullAst \notin now
        /\ \A n \in b + 1 .. c + 1 : i[n].kind # "UNKNOWN"
        /\ \A n \in b + 1 .. c + 1 : \A k \in DOMAIN i[n].edges : i[n].edges[k] # NullAst
    BY <1>1, <1>2 DEF Lossless
  <1>4. NullAst \notin held
    BY <1>1, <1>3
  <1>5. Lossless(h, b, held)
    BY <1>1, <1>3, <1>4 DEF Lossless, c
  <1>6. count = c - b /\ Complete(h, b, held)
    BY <1>5 DEF Whole, c
  <1>7. Complete(i, b, now)
    <2> SUFFICES ASSUME NEW n \in b + 1 .. c + 1, n \notin now
                 PROVE  \E m \in b + 1 .. c + 1 : \E k \in DOMAIN i[m].edges : i[m].edges[k] = n
      BY <1>1 DEF Complete
    <2>1. n \in b + 1 .. c
      BY <1>1
    <2>2. CASE n \in held
      <3>1. PICK k \in DOMAIN node.edges : node.edges[k] = n
        BY <2>2
      <3> QED
        BY <1>1, <3>1
    <2>3. CASE n \notin held
      <3>1. PICK m \in b + 1 .. c : \E k \in DOMAIN h[m].edges : h[m].edges[k] = n
        BY <1>6, <2>1, <2>3 DEF Complete, c
      <3> QED
        BY <1>1, <3>1
    <2> QED
      BY <2>2, <2>3
  <1> QED
    BY <1>1, <1>6, <1>7

LEMMA InPlaceAdd ==
    ASSUME NEW h \in Seq(Node), NEW node \in Node, NEW b \in Nat, b <= Len(h),
           NEW last \in Nat, NEW from \in Nat, NEW mid \in Nat, NEW size \in Nat,
           last <= from, from <= mid, mid <= size,
           NEW low \in Nat, NEW top \in Nat, NEW left \in Nat, NEW end \in Nat,
           left <= low, top <= end,
           InPlace(h, b, last, from, mid, low, top),
           Normal(node) =>
              /\ node.at \in left .. end /\ node.at <= last
              /\ \A n \in b + 1 .. Len(h) : Normal(h[n]) => h[n].at # node.at,
           node.kind = "UNIT" => node.at \in mid + 1 .. size
    PROVE  InPlace(Append(h, node), b, last, from, size, left, end)
  <1> DEFINE c == Len(h)
             i == Append(h, node)
  <1>1. /\ i \in Seq(Node) /\ Len(i) = c + 1 /\ c \in Nat /\ b <= c
        /\ i[c + 1] = node
        /\ \A n \in b + 1 .. c : i[n] = h[n] /\ h[n] \in Node
        /\ \A n \in b + 1 .. c + 1 : n \in b + 1 .. c \/ n = c + 1
    BY Appended
  <1> HIDE DEF i, c
  <1>2. ASSUME NEW n \in b + 1 .. c
        PROVE  /\ Normal(h[n]) => h[n].at \in low .. top /\ h[n].at <= last
               /\ h[n].kind = "UNIT" => h[n].at \in from + 1 .. mid
    BY DEF InPlace, c
  <1>3. ASSUME NEW n \in b + 1 .. c, h[n].kind # "UNKNOWN", node.kind # "UNKNOWN"
        PROVE  h[n].at # node.at
    <2> DEFINE x == h[n].at
               y == node.at
    <2>1. h[n] \in Node
      BY <1>1
    <2>2. x \in Nat /\ y \in Nat
      BY <2>1 DEF Node
    <2>3. (Normal(h[n]) /\ x <= last) \/ (~Normal(h[n]) /\ x > from /\ x <= mid)
      BY <1>2, <1>3, <2>2 DEF Normal
    <2>4. (Normal(node) /\ y <= last) \/ (~Normal(node) /\ y > mid)
      BY <1>3, <2>2 DEF Normal
    <2>5. ~(Normal(h[n]) /\ Normal(node) /\ x = y)
      BY <1>1 DEF c
    <2> HIDE DEF x, y
    <2>6. x # y
      BY <2>2, <2>3, <2>4, <2>5
    <2> QED
      BY <2>6 DEF x, y
  <1>4. ASSUME NEW n \in b + 1 .. c + 1, NEW m \in b + 1 .. c + 1,
               i[n].kind # "UNKNOWN", i[m].kind # "UNKNOWN", i[n].at = i[m].at
        PROVE  n = m
    <2>1. CASE n \in b + 1 .. c /\ m \in b + 1 .. c
      <3>1. i[n] = h[n] /\ i[m] = h[m]
        BY <1>1, <2>1
      <3> QED
        BY <1>4, <2>1, <3>1 DEF InPlace, c
    <2> QED
      BY <1>1, <1>3, <1>4, <2>1
  <1>5. ASSUME NEW n \in b + 1 .. c + 1
        PROVE  /\ Normal(i[n]) => i[n].at \in left .. end /\ i[n].at <= last
               /\ i[n].kind = "UNIT" => i[n].at \in from + 1 .. size
    <2>1. CASE n = c + 1
      <3> DEFINE y == node.at
      <3>1. y \in Nat
        BY DEF Node
      <3>2. node.kind = "UNIT" => y >= mid + 1 /\ y <= size
        BY <3>1
      <3> HIDE DEF y
      <3>3. node.kind = "UNIT" => y \in from + 1 .. size
        BY <3>1, <3>2
      <3> QED
        BY <1>1, <2>1, <3>3 DEF y
    <2>2. CASE n \in b + 1 .. c
      <3> DEFINE x == h[n].at
      <3>1. i[n] = h[n] /\ h[n] \in Node
        BY <1>1, <2>2
      <3>2. x \in Nat
        BY <3>1 DEF Node
      <3>3. /\ Normal(h[n]) => low <= x /\ x <= top /\ x <= last
            /\ h[n].kind = "UNIT" => from + 1 <= x /\ x <= mid
        BY <1>2, <2>2, <3>2
      <3> HIDE DEF x
      <3>4. /\ Normal(h[n]) => x \in left .. end /\ x <= last
            /\ h[n].kind = "UNIT" => x \in from + 1 .. size
        BY <3>2, <3>3
      <3> QED
        BY <3>1, <3>4 DEF x
    <2> QED
      BY <1>1, <2>1, <2>2
  <1> QED
    BY <1>1, <1>4, <1>5 DEF InPlace, i, c

LEMMA OrderedAdd ==
    ASSUME NEW h \in Seq(Node), NEW node \in Node, NEW b \in Nat, b <= Len(h), NEW held,
           Family(h, b, held), Ordered(h, b),
           node.kind = "BINARY_OP" =>
              /\ node.edges[1] \in 1 .. Len(h) /\ node.edges[2] \in 1 .. Len(h)
              /\ \A m \in b + 1 .. Len(h) :
                    /\ m <= node.edges[1] /\ Normal(h[m]) => h[m].at < node.at
                    /\ node.edges[1] < m /\ m <= node.edges[2] /\ h[m].kind # "UNKNOWN"
                          => h[m].at > node.at
    PROVE  Ordered(Append(h, node), b)
  <1> DEFINE c == Len(h)
             i == Append(h, node)
  <1>1. /\ i \in Seq(Node) /\ Len(i) = c + 1 /\ c \in Nat /\ b <= c
        /\ i[c + 1] = node
        /\ \A n \in b + 1 .. c : i[n] = h[n] /\ h[n] \in Node
        /\ \A n \in b + 1 .. c + 1 : n \in b + 1 .. c \/ n = c + 1
    BY Appended
  <1> HIDE DEF i, c
  <1> SUFFICES ASSUME NEW n \in b + 1 .. c + 1, NEW m \in b + 1 .. c + 1, i[n].kind = "BINARY_OP"
               PROVE  /\ m <= i[n].edges[1] /\ Normal(i[m]) => i[m].at < i[n].at
                      /\ i[n].edges[1] < m /\ m <= i[n].edges[2] /\ i[m].kind # "UNKNOWN"
                            => i[m].at > i[n].at
    BY <1>1 DEF Ordered, i, c
  <1>2. CASE n \in b + 1 .. c /\ m \in b + 1 .. c
    <2>1. i[n] = h[n] /\ i[m] = h[m]
      BY <1>1, <1>2
    <2> QED
      BY <1>2, <2>1 DEF Ordered, c
  <1>3. CASE n \in b + 1 .. c /\ m = c + 1
    <2> DEFINE l == h[n].edges[1]
               r == h[n].edges[2]
    <2>1. h[n] = i[n] /\ h[n] \in Node /\ Arity(h[n])
      BY <1>1, <1>3 DEF Family, c
    <2>2. 1 \in DOMAIN h[n].edges /\ 2 \in DOMAIN h[n].edges
      BY <2>1, TwoEdges
    <2>3. l \in {0} \union (b + 1 .. n - 1) /\ r \in {0} \union (b + 1 .. n - 1)
      BY <1>3, <2>2 DEF Family, c, NullAst
    <2> HIDE DEF l, r
    <2>4. ~(m <= l) /\ ~(m <= r)
      BY <1>1, <1>3, <2>3
    <2> QED
      BY <2>1, <2>4 DEF l, r
  <1>4. CASE n = c + 1 /\ m \in b + 1 .. c
    <2>1. i[n] = node /\ i[m] = h[m]
      BY <1>1, <1>4
    <2> QED
      BY <1>4, <2>1 DEF c
  <1>5. CASE n = c + 1 /\ m = c + 1
    <2> DEFINE l == node.edges[1]
               r == node.edges[2]
    <2>1. i[n] = node
      BY <1>1, <1>5
    <2>2. l \in 1 .. c /\ r \in 1 .. c
      BY <2>1 DEF c
    <2> HIDE DEF l, r
    <2>3. ~(m <= l) /\ ~(m <= r)
      BY <1>1, <1>5, <2>2
    <2> QED
      BY <2>1, <2>3 DEF l, r
  <1> QED
    BY <1>1, <1>2, <1>3, <1>4, <1>5

\* What the parser leaves between its states p and q: in the heap, at the tokens from low to top, nodes of which the others are below those of held.
Grown(p, q, low, top, held) ==
    /\ Extended(p.heap, q.heap)
    /\ p.units <= q.units
    /\ Family(q.heap, Len(p.heap), held)
    /\ Whole(q.heap, Len(p.heap), held, q.made - p.made)
    /\ InPlace(q.heap, Len(p.heap), Len(p.toks), Size(p), Size(q), low, top)
    /\ Ordered(q.heap, Len(p.heap))

\* The last of its tokens is one that needs another behind it.
Stuck(p) == ~More(p) /\ Token(p) \in Signs

\* The cursor is at a token.
Ready(p) == Ok(p) /\ p.at \in 1 .. Size(p)

\* What a function of the parser does with a state it is given.
Hand(p, q) ==
    /\ q \in Parser(p.toks)
    /\ Ok(q) => /\ p.at <= q.at /\ q.at <= Size(q)
                /\ q.node \in {NullAst, Len(q.heap)}
                /\ Grown(p, q, p.at, q.at, {q.node})
                /\ ~Stuck(p)

\* All functions do so when they are called through below.
Calling(toks, below) ==
    \A level \in 1 .. FactorLevel, p \in Parser(toks) : Ready(p) => Hand(p, below[level][p])

\* The parts of a parser state.
LEMMA ParserParts ==
    ASSUME NEW toks, Len(toks) \in Nat, NEW p \in Parser(toks)
    PROVE  /\ p.toks = toks /\ p.units \in Nat /\ p.at \in Nat /\ p.node \in Nat
           /\ p.heap \in Seq(Node) /\ Len(p.heap) \in Nat /\ p.made \in Int /\ p.end \in End
           /\ Size(p) \in Nat /\ Size(p) = Len(toks) + p.units /\ Len(toks) <= Size(p)
  <1>1. /\ p.toks = toks /\ p.units \in Nat /\ p.at \in Nat /\ p.node \in Nat
        /\ p.heap \in Seq(Node) /\ Len(p.heap) \in Nat /\ p.made \in Int /\ p.end \in End
    BY DEF Parser
  <1> QED
    BY <1>1 DEF Size

\* A cursor is set.
LEMMA Moved ==
    ASSUME NEW toks, Len(toks) \in Nat, NEW p \in Parser(toks), NEW at \in Nat
    PROVE  LET q == [p EXCEPT !.at = at]
           IN  /\ q \in Parser(toks) /\ q.at = at /\ q.heap = p.heap /\ q.units = p.units
               /\ q.made = p.made /\ q.end = p.end /\ q.node = p.node /\ q.toks = p.toks
  BY DEF Parser

\* What next does.
LEMMA Advanced ==
    ASSUME NEW toks, Len(toks) \in Nat, NEW p \in Parser(toks), Ready(p)
    PROVE  LET q == Advance(p)
           IN  /\ q \in Parser(toks) /\ Ready(q) /\ q.heap = p.heap /\ q.units = p.units
               /\ q.made = p.made /\ q.end = p.end /\ q.node = p.node /\ q.toks = p.toks
               /\ Size(q) = Size(p)
               /\ More(p) => q.at = p.at + 1 /\ Token(q) = Ahead(p)
               /\ ~More(p) => q = p
  <1>1. p.toks = toks /\ p.at \in Nat /\ Size(p) \in Nat
    BY ParserParts
  <1>2. CASE More(p)
    <2> DEFINE q == [p EXCEPT !.at = p.at + 1]
    <2>1. Advance(p) = q
      BY <1>2 DEF Advance
    <2>2. /\ q \in Parser(toks) /\ q.at = p.at + 1 /\ q.heap = p.heap /\ q.units = p.units
          /\ q.made = p.made /\ q.end = p.end /\ q.node = p.node /\ q.toks = p.toks
      BY <1>1, Moved
    <2> HIDE DEF q
    <2>3. Size(q) = Size(p)
      BY <2>2 DEF Size
    <2>4. Ready(q)
      BY <1>1, <1>2, <2>2, <2>3 DEF Ready, Ok, More
    <2>5. Token(q) = Ahead(p)
      BY <1>2, <2>2 DEF Token, Ahead, Word
    <2> QED
      BY <1>2, <2>1, <2>2, <2>3, <2>4, <2>5
  <1>3. CASE ~More(p)
    BY <1>3 DEF Advance
  <1> QED
    BY <1>2, <1>3

\* A token that is not a unit is one the parser was given.
LEMMA Given ==
    ASSUME NEW toks, Len(toks) \in Nat, NEW p \in Parser(toks), Token(p) # UnitToken
    PROVE  p.at <= Len(toks)
  <1>1. p.toks = toks /\ p.at \in Nat
    BY ParserParts
  <1> QED
    BY <1>1 DEF Token, Word

\* Nothing was parsed.
LEMMA GrownNothing ==
    ASSUME NEW toks, Len(toks) \in Nat, NEW p \in Parser(toks), NEW q \in Parser(toks),
           q.heap = p.heap, q.units = p.units, q.made = p.made, NEW low, NEW top
    PROVE  Grown(p, q, low, top, {}) /\ Grown(p, q, low, top, {NullAst})
  <1>1. /\ Len(p.heap) \in Nat /\ p.units \in Nat /\ p.made \in Int
    BY ParserParts
  <1>2. \A n : n \notin Len(p.heap) + 1 .. Len(p.heap)
    BY <1>1
  <1>3. Extended(p.heap, q.heap)
    BY <1>1 DEF Extended
  <1>4. q.made - p.made = Len(q.heap) - Len(p.heap)
    BY <1>1
  <1>5. ASSUME NEW held \in {{}, {NullAst}} PROVE Grown(p, q, low, top, held)
    <2>1. Family(q.heap, Len(p.heap), held) /\ Ordered(q.heap, Len(p.heap))
      BY <1>2, <1>5 DEF Family, Ordered
    <2>2. Whole(q.heap, Len(p.heap), held, q.made - p.made)
      BY <1>2, <1>4 DEF Whole, Complete
    <2>3. InPlace(q.heap, Len(p.heap), Len(p.toks), Size(p), Size(q), low, top)
      BY <1>2 DEF InPlace
    <2> QED
      BY <1>1, <1>3, <2>1, <2>2, <2>3 DEF Grown
  <1> QED
    BY <1>5

\* Of the states it reads no more than these parts.
LEMMA GrownSame ==
    ASSUME NEW p, NEW q, NEW p2, NEW q2, NEW low, NEW top, NEW held, Grown(p, q, low, top, held),
           p2.heap = p.heap, p2.units = p.units, p2.made = p.made, p2.toks = p.toks,
           q2.heap = q.heap, q2.units = q.units, q2.made = q.made, q2.toks = q.toks
    PROVE  Grown(p2, q2, low, top, held)
  BY DEF Grown, Size

\* The nodes that are held are given up.
LEMMA GrownDrop ==
    ASSUME NEW p, NEW q, NEW low, NEW top, NEW held, Grown(p, q, low, top, held)
    PROVE  Grown(p, q, low, top, {NullAst})
  <1>1. Family(q.heap, Len(p.heap), {NullAst})
    BY DEF Grown, Family
  <1>2. Whole(q.heap, Len(p.heap), {NullAst}, q.made - p.made)
    BY DEF Whole, Lossless
  <1> QED
    BY <1>1, <1>2 DEF Grown

\* The tokens are counted from farther to farther.
LEMMA GrownWide ==
    ASSUME NEW toks, Len(toks) \in Nat, NEW p \in Parser(toks), NEW q \in Parser(toks),
           NEW low \in Nat, NEW top \in Nat, NEW left \in Nat, NEW end \in Nat,
           left <= low, top <= end, NEW held, Grown(p, q, low, top, held)
    PROVE  Grown(p, q, left, end, held)
  <1> DEFINE b == Len(p.heap)
             h == q.heap
  <1>1. h \in Seq(Node) /\ b \in Nat
    BY ParserParts
  <1>2. ASSUME NEW n \in b + 1 .. Len(h), Normal(h[n])
        PROVE  h[n].at \in left .. end /\ h[n].at <= Len(p.toks)
    <2> DEFINE x == h[n].at
    <2>1. h[n] \in Node
      BY <1>1
    <2>2. x \in Nat
      BY <2>1 DEF Node
    <2>3. x >= low /\ x <= top /\ x <= Len(p.toks)
      BY <1>2, <2>2 DEF Grown, InPlace
    <2> HIDE DEF x
    <2>4. x \in left .. end /\ x <= Len(p.toks)
      BY <2>2, <2>3
    <2> QED
      BY <2>4 DEF x
  <1>3. InPlace(h, b, Len(p.toks), Size(p), Size(q), left, end)
    BY <1>2 DEF Grown, InPlace
  <1> QED
    BY <1>3 DEF Grown

LEMMA ExtendedOn ==
    ASSUME NEW h \in Seq(Node), NEW i \in Seq(Node), NEW j \in Seq(Node),
           Extended(h, i), Extended(i, j)
    PROVE  Extended(h, j)
  <1>1. Len(h) \in Nat /\ Len(i) \in Nat /\ Len(j) \in Nat
    OBVIOUS
  <1>2. ASSUME NEW n \in 1 .. Len(h) PROVE n \in 1 .. Len(i)
    BY <1>1 DEF Extended
  <1> QED
    BY <1>1, <1>2 DEF Extended

\* What is counted in two parts.
LEMMA Sums ==
    ASSUME NEW a \in Int, NEW b \in Int, NEW c \in Int
    PROVE  b - a \in Int /\ c - b \in Int /\ (b - a) + (c - b) = c - a
           /\ (b - a) + 1 = (b + 1) - a
  OBVIOUS

LEMMA Chain ==
    ASSUME NEW l \in Nat, NEW a \in Nat, NEW b \in Nat, NEW c \in Nat, a <= b, b <= c
    PROVE  a <= c /\ l <= l + a /\ l + a <= l + b /\ l + b <= l + c
  OBVIOUS

LEMMA Sizes ==
    ASSUME NEW toks, Len(toks) \in Nat, NEW p \in Parser(toks), NEW q \in Parser(toks),
           p.units <= q.units
    PROVE  Size(p) <= Size(q)
  <1> DEFINE a == p.units
             b == q.units
             l == Len(toks)
  <1>1. Size(p) = l + a /\ Size(q) = l + b /\ a \in Nat /\ b \in Nat /\ a <= b
        /\ l \in Nat
    BY ParserParts
  <1> HIDE DEF a, b, l
  <1> QED
    BY <1>1

\* One part of the parser behind another.
LEMMA GrownJoin ==
    ASSUME NEW toks, Len(toks) \in Nat, NEW p \in Parser(toks), NEW q \in Parser(toks),
           NEW s \in Parser(toks), NEW r \in Parser(toks), NEW held, NEW more,
           NEW low \in Nat, NEW top \in Nat, NEW next \in Nat, NEW end \in Nat,
           low <= next, top < next, top <= end,
           Grown(p, q, low, top, held), Grown(s, r, next, end, more),
           s.heap = q.heap, s.units = q.units, s.made = q.made
    PROVE  Grown(p, r, low, end, held \union more)
  <1>1. /\ p.heap \in Seq(Node) /\ q.heap \in Seq(Node) /\ r.heap \in Seq(Node)
        /\ Len(p.heap) \in Nat /\ Len(q.heap) \in Nat /\ Len(r.heap) \in Nat
        /\ p.made \in Int /\ q.made \in Int /\ r.made \in Int
        /\ p.units \in Nat /\ q.units \in Nat /\ r.units \in Nat
        /\ Size(p) \in Nat /\ Size(q) \in Nat /\ Size(r) \in Nat /\ Size(s) = Size(q)
        /\ Size(p) = Len(toks) + p.units /\ Size(q) = Len(toks) + q.units
        /\ Size(r) = Len(toks) + r.units
        /\ p.toks = toks /\ q.toks = toks /\ s.toks = toks
    BY ParserParts
  <1>2. Extended(p.heap, q.heap) /\ Extended(q.heap, r.heap) /\ Len(p.heap) <= Len(q.heap)
        /\ p.units <= q.units /\ q.units <= r.units
    BY DEF Grown, Extended
  <1>3. Extended(p.heap, r.heap) /\ p.units <= r.units
    <2>1. Extended(p.heap, r.heap)
      BY <1>1, <1>2, ExtendedOn
    <2>2. p.units <= r.units
      BY <1>1, <1>2, Chain
    <2> QED
      BY <2>1, <2>2
  <1>4. Len(toks) <= Size(p) /\ Size(p) <= Size(q) /\ Size(q) <= Size(r)
    <2>1. Size(p) <= Size(q) /\ Size(q) <= Size(r)
      BY <1>2, Sizes
    <2> QED
      BY <2>1, ParserParts
  <1>5. /\ Family(q.heap, Len(p.heap), held) /\ Family(r.heap, Len(q.heap), more)
        /\ Whole(q.heap, Len(p.heap), held, q.made - p.made)
        /\ Whole(r.heap, Len(q.heap), more, r.made - q.made)
        /\ InPlace(q.heap, Len(p.heap), Len(toks), Size(p), Size(q), low, top)
        /\ InPlace(r.heap, Len(q.heap), Len(toks), Size(q), Size(r), next, end)
        /\ Ordered(q.heap, Len(p.heap)) /\ Ordered(r.heap, Len(q.heap))
    BY <1>1 DEF Grown
  <1>6. Family(r.heap, Len(p.heap), held \union more)
    BY <1>1, <1>2, <1>5, FamilyJoin
  <1>7. Whole(r.heap, Len(p.heap), held \union more, r.made - p.made)
    <2>1. q.made - p.made \in Int /\ r.made - q.made \in Int
          /\ (q.made - p.made) + (r.made - q.made) = r.made - p.made
      BY <1>1, Sums
    <2>2. Whole(r.heap, Len(p.heap), held \union more, (q.made - p.made) + (r.made - q.made))
      BY <1>1, <1>2, <1>5, <2>1, WholeJoin
    <2> QED
      BY <2>1, <2>2
  <1>8. InPlace(r.heap, Len(p.heap), Len(toks), Size(p), Size(r), low, end)
    BY <1>1, <1>2, <1>4, <1>5, InPlaceJoin
  <1>9. Ordered(r.heap, Len(p.heap))
    BY <1>1, <1>2, <1>4, <1>5, OrderedJoin
  <1> QED
    BY <1>1, <1>3, <1>6, <1>7, <1>8, <1>9 DEF Grown

\* The spot no node of these has.
Free(p, q, at) ==
    \A n \in Len(p.heap) + 1 .. Len(q.heap) : Normal(q.heap[n]) => q.heap[n].at # at

\* The node cabor_allocate_ast_node makes.
NodeOf(kind, at, edges) == [kind |-> kind, at |-> at, edges |-> edges]

\* The node that is made at m goes over nodes that are held, at a spot that is free.
Fits(toks, p, q, m, held, kind, at, edges, left, end) ==
    /\ Arity(NodeOf(kind, at, edges))
    /\ \A k \in DOMAIN edges : edges[k] \in held
    /\ \A j, k \in DOMAIN edges : edges[j] = edges[k] /\ edges[j] # NullAst => j = k
    /\ kind \notin {"UNIT", "UNKNOWN"} =>
           at \in left .. end /\ at <= Len(toks) /\ Free(p, q, at)
    /\ kind = "UNIT" => at \in Size(q) + 1 .. Size(m)
    /\ kind = "BINARY_OP" =>
           /\ edges[1] \in 1 .. Len(q.heap) /\ edges[2] \in 1 .. Len(q.heap)
           /\ \A n \in Len(p.heap) + 1 .. Len(q.heap) :
                 /\ n <= edges[1] /\ Normal(q.heap[n]) => q.heap[n].at < at
                 /\ edges[1] < n /\ n <= edges[2] /\ q.heap[n].kind # "UNKNOWN"
                       => q.heap[n].at > at

\* What it leaves held.
Over(held, edges, node) == (held \ {edges[k] : k \in DOMAIN edges}) \union {node}

\* q is where m has come from with no node between.
Stands(toks, p, q, m, low, top, left, end, held) ==
    /\ Len(toks) \in Nat /\ p \in Parser(toks) /\ q \in Parser(toks) /\ m \in Parser(toks)
    /\ m.heap = q.heap /\ m.made = q.made /\ q.units <= m.units
    /\ low \in Nat /\ top \in Nat /\ left \in Nat /\ end \in Nat /\ left <= low /\ top <= end
    /\ Grown(p, q, low, top, held)

\* A node is made over those that are held.
LEMMA GrownMake ==
    ASSUME NEW toks, NEW p, NEW q, NEW m, NEW low, NEW top, NEW left, NEW end, NEW held,
           Stands(toks, p, q, m, low, top, left, end, held),
           NEW kind \in NodeKind, NEW at \in Nat, NEW edges \in Seq(Nat),
           Fits(toks, p, q, m, held, kind, at, edges, left, end),
           Ok(Make(m, kind, at, edges))
    PROVE  LET r == Make(m, kind, at, edges)
           IN  /\ r \in Parser(toks) /\ r.node = Len(q.heap) + 1
               /\ r.heap = Append(q.heap, NodeOf(kind, at, edges)) /\ Len(r.heap) = Len(q.heap) + 1
               /\ r.at = m.at /\ r.units = m.units /\ Size(r) = Size(m)
               /\ Grown(p, r, left, end, Over(held, edges, r.node))
  <1>a. /\ Len(toks) \in Nat /\ p \in Parser(toks) /\ q \in Parser(toks) /\ m \in Parser(toks)
        /\ m.heap = q.heap /\ m.made = q.made /\ q.units <= m.units
        /\ low \in Nat /\ top \in Nat /\ left \in Nat /\ end \in Nat /\ left <= low /\ top <= end
        /\ Grown(p, q, low, top, held)
    BY DEF Stands
  <1> USE <1>a
  <1> DEFINE node == NodeOf(kind, at, edges)
             heap == Append(q.heap, node)
             r    == [m EXCEPT !.node = Len(m.heap) + 1, !.heap = Append(m.heap, node), !.made = m.made + 1]
             now  == (held \ {edges[k] : k \in DOMAIN edges}) \union {Len(q.heap) + 1}
  <1>1. Make(m, kind, at, edges) = r
    <2>1. "undefined" # "ok"
      OBVIOUS
    <2>2. m.end \in End /\ Stop(m, "undefined").end = "undefined"
      BY ParserParts DEF Stop, Parser
    <2>3. ~(Len(edges) > MaxEdges)
      BY <2>1, <2>2 DEF Make, Ok
    <2> QED
      BY <2>3 DEF Make, NodeOf
  <1>2. /\ p.heap \in Seq(Node) /\ q.heap \in Seq(Node) /\ Len(p.heap) \in Nat /\ Len(q.heap) \in Nat
        /\ p.made \in Int /\ q.made \in Int /\ p.units \in Nat /\ q.units \in Nat /\ m.units \in Nat
        /\ Size(p) \in Nat /\ Size(q) \in Nat /\ Size(m) \in Nat
        /\ Size(p) = Len(toks) + p.units /\ Size(q) = Len(toks) + q.units /\ Size(m) = Len(toks) + m.units
        /\ p.toks = toks
    BY ParserParts
  <1>3. /\ node \in Node /\ node.kind = kind /\ node.at = at /\ node.edges = edges
    BY DEF NodeOf, Node
  <1>4. heap \in Seq(Node) /\ Len(heap) = Len(q.heap) + 1 /\ Extended(q.heap, heap)
    BY <1>2, <1>3, Appended
  <1>5. /\ r \in Parser(toks) /\ r.node = Len(q.heap) + 1 /\ r.heap = heap /\ r.made = q.made + 1
        /\ r.at = m.at /\ r.units = m.units /\ r.toks = m.toks /\ m.toks = toks
    <2> DEFINE x == Len(m.heap) + 1
               y == Append(m.heap, node)
               z == m.made + 1
    <2>1. x \in Nat /\ y \in Seq(Node) /\ z \in Int /\ y = heap /\ m.toks = toks
      <3>1. y = heap /\ m.toks = toks
        BY ParserParts
      <3>2. y \in Seq(Node)
        BY <3>1, <1>4
      <3>3. x \in Nat
        <4>1. m.heap = q.heap /\ Len(q.heap) \in Nat
          BY <1>2
        <4> HIDE DEF node, heap, r, now, y, z
        <4> QED
          BY <4>1
      <3>4. z \in Int
        <4>1. m.made = q.made /\ q.made \in Int
          BY <1>2
        <4> HIDE DEF node, heap, r, now, y, x
        <4> QED
          BY <4>1
      <3> QED
        BY <3>1, <3>2, <3>3, <3>4
    <2>2. r = [m EXCEPT !.node = x, !.heap = y, !.made = z] /\ x = Len(q.heap) + 1 /\ z = q.made + 1
      OBVIOUS
    <2> HIDE DEF x, y, z, node, heap, r
    <2>3. /\ r \in Parser(toks) /\ r.node = x /\ r.heap = y /\ r.made = z
          /\ r.at = m.at /\ r.units = m.units /\ r.toks = m.toks
      BY <2>1, <2>2 DEF Parser
    <2> QED
      BY <2>1, <2>2, <2>3
  <1> HIDE DEF r, heap, node
  <1>6. Len(p.heap) <= Len(q.heap) /\ Extended(p.heap, q.heap) /\ p.units <= q.units
    BY DEF Grown, Extended
  <1>7. Extended(p.heap, heap)
    BY <1>2, <1>4, <1>6, ExtendedOn
  <1>8. /\ Family(q.heap, Len(p.heap), held)
        /\ Whole(q.heap, Len(p.heap), held, q.made - p.made)
        /\ InPlace(q.heap, Len(p.heap), Len(toks), Size(p), Size(q), low, top)
        /\ Ordered(q.heap, Len(p.heap))
    BY <1>2 DEF Grown
  <1>9. Family(heap, Len(p.heap), now)
    <2>1. /\ Arity(node) /\ \A k \in DOMAIN node.edges : node.edges[k] \in held
          /\ \A j, k \in DOMAIN node.edges :
                node.edges[j] = node.edges[k] /\ node.edges[j] # NullAst => j = k
      BY <1>3 DEF node, Fits
    <2>2. Family(heap, Len(p.heap),
                 (held \ {node.edges[k] : k \in DOMAIN node.edges}) \union {Len(q.heap) + 1})
      BY <1>2, <1>3, <1>6, <1>8, <2>1, FamilyAdd DEF heap
    <2> QED
      BY <1>3, <2>2
  <1>10. Whole(heap, Len(p.heap), now, r.made - p.made)
    <2>1. q.made - p.made \in Int /\ (q.made - p.made) + 1 = r.made - p.made
      BY <1>2, <1>5, Sums
    <2>2. Whole(heap, Len(p.heap),
                (held \ {node.edges[k] : k \in DOMAIN node.edges}) \union {Len(q.heap) + 1},
                (q.made - p.made) + 1)
      BY <1>2, <1>3, <1>6, <1>8, <2>1, WholeAdd DEF heap
    <2> QED
      BY <1>3, <2>1, <2>2
  <1>11. InPlace(heap, Len(p.heap), Len(toks), Size(p), Size(m), left, end)
    <2>1. Len(toks) <= Size(p) /\ Size(p) <= Size(q) /\ Size(q) <= Size(m)
      <3>1. Size(p) <= Size(q) /\ Size(q) <= Size(m)
        BY <1>6, Sizes
      <3> QED
        BY <3>1, ParserParts
    <2>2. Normal(node) =>
              /\ node.at \in left .. end /\ node.at <= Len(toks)
              /\ \A n \in Len(p.heap) + 1 .. Len(q.heap) : Normal(q.heap[n]) => q.heap[n].at # node.at
      BY <1>3 DEF Normal, Free, Fits
    <2>3. node.kind = "UNIT" => node.at \in Size(q) + 1 .. Size(m)
      BY <1>3 DEF Fits
    <2> QED
      BY <1>2, <1>3, <1>6, <1>8, <2>1, <2>2, <2>3, InPlaceAdd DEF heap
  <1>12. Ordered(heap, Len(p.heap))
    <2>1. node.kind = "BINARY_OP" =>
              /\ node.edges[1] \in 1 .. Len(q.heap) /\ node.edges[2] \in 1 .. Len(q.heap)
              /\ \A n \in Len(p.heap) + 1 .. Len(q.heap) :
                    /\ n <= node.edges[1] /\ Normal(q.heap[n]) => q.heap[n].at < node.at
                    /\ node.edges[1] < n /\ n <= node.edges[2] /\ q.heap[n].kind # "UNKNOWN"
                          => q.heap[n].at > node.at
      BY <1>3 DEF Fits
    <2> QED
      BY <1>2, <1>3, <1>6, <1>8, <2>1, OrderedAdd DEF heap
  <1>13. Size(r) = Size(m) /\ p.units <= r.units
    <2>1. Size(r) = Size(m)
      BY <1>5 DEF Size
    <2>2. p.units <= m.units
      BY <1>2, <1>6, Chain
    <2> QED
      BY <1>5, <2>1, <2>2
  <1>14. Grown(p, r, left, end, now)
    BY <1>2, <1>5, <1>7, <1>9, <1>10, <1>11, <1>12, <1>13 DEF Grown
  <1> QED
    BY <1>1, <1>4, <1>5, <1>13, <1>14 DEF r, heap, node, Over

\* A parser state that has ended is handed on as it is.
LEMMA EndedHand ==
    ASSUME NEW toks, Len(toks) \in Nat, NEW p \in Parser(toks), NEW q \in Parser(toks), ~Ok(q)
    PROVE  Hand(p, q)
  BY ParserParts DEF Hand

LEMMA StopHand ==
    ASSUME NEW toks, Len(toks) \in Nat, NEW p \in Parser(toks), NEW q \in Parser(toks),
           NEW how \in {"exited", "aborted", "undefined"}
    PROVE  Hand(p, Stop(q, how)) /\ Stop(q, how) \in Parser(toks) /\ ~Ok(Stop(q, how))
  <1>1. Stop(q, how) \in Parser(toks) /\ Stop(q, how).end = how
    BY DEF Stop, Parser, End
  <1> QED
    BY <1>1, EndedHand DEF Ok

\* What a function returns when it has no node.
LEMMA FailIs ==
    ASSUME NEW toks, Len(toks) \in Nat, NEW q \in Parser(toks)
    PROVE  LET r == Fail(q)
           IN  /\ r \in Parser(toks) /\ r.node = NullAst /\ r.heap = q.heap /\ r.units = q.units
               /\ r.made = q.made /\ r.end = q.end /\ r.at = q.at /\ r.toks = q.toks
  BY DEF Fail, Parser, NullAst

\* What cabor_allocate_ast_node leaves.
LEMMA MakeIs ==
    ASSUME NEW toks, Len(toks) \in Nat, NEW m \in Parser(toks), NEW kind \in NodeKind,
           NEW at \in Nat, NEW edges \in Seq(Nat)
    PROVE  LET r == Make(m, kind, at, edges)
           IN  r \in Parser(toks) /\ (Ok(r) => Ok(m))
  <1>1. CASE Len(edges) > MaxEdges
    <2>1. Stop(m, "undefined") \in Parser(toks) /\ ~Ok(Stop(m, "undefined"))
      BY StopHand
    <2> QED
      BY <1>1, <2>1 DEF Make
  <1>2. CASE ~(Len(edges) > MaxEdges)
    <2> DEFINE node == NodeOf(kind, at, edges)
               x == Len(m.heap) + 1
               y == Append(m.heap, node)
               z == m.made + 1
    <2>1. Make(m, kind, at, edges) = [m EXCEPT !.node = x, !.heap = y, !.made = z]
      BY <1>2 DEF Make, NodeOf
    <2>2. node \in Node
      BY DEF NodeOf, Node
    <2>3. m.heap \in Seq(Node) /\ m.made \in Int /\ Len(m.heap) \in Nat
      BY ParserParts
    <2> HIDE DEF node
    <2>4. x \in Nat
      <3> HIDE DEF y, z
      <3> QED
        BY <2>3
    <2>5. y \in Seq(Node)
      <3> HIDE DEF x, z
      <3> QED
        BY <2>2, <2>3
    <2>6. z \in Int
      <3> HIDE DEF x, y
      <3> QED
        BY <2>3
    <2> HIDE DEF x, y, z
    <2>7. [m EXCEPT !.node = x, !.heap = y, !.made = z] \in Parser(toks)
          /\ [m EXCEPT !.node = x, !.heap = y, !.made = z].end = m.end
      BY <2>4, <2>5, <2>6 DEF Parser
    <2> QED
      BY <2>1, <2>7 DEF Ok
  <1> QED
    BY <1>1, <1>2

-----------------------------------------------------------------------------
(* Edges that are collected. *)

\* The nodes at the other end of edges.
Ends(edges) == {edges[k] : k \in DOMAIN edges}
\* No node is at the end of two of them.
Distinct(edges) ==
    \A j, k \in DOMAIN edges : edges[j] = edges[k] /\ edges[j] # NullAst => j = k

LEMMA NoEdges ==
    <<>> \in Seq(Nat) /\ Ends(<<>>) = {} /\ Distinct(<<>>) /\ Len(<<>>) = 0
  BY DEF Ends, Distinct

\* An edge behind the others.
LEMMA OneMore ==
    ASSUME NEW edges \in Seq(Nat), Distinct(edges), NEW node \in Nat,
           node # NullAst => node \notin Ends(edges)
    PROVE  LET all == Append(edges, node)
           IN  /\ all \in Seq(Nat) /\ Len(all) = Len(edges) + 1
               /\ Ends(all) = Ends(edges) \union {node} /\ Distinct(all)
  <1> DEFINE all == Append(edges, node)
             l == Len(edges)
  <1>1. /\ all \in Seq(Nat) /\ Len(all) = l + 1 /\ l \in Nat /\ DOMAIN edges = 1 .. l
        /\ DOMAIN all = 1 .. l + 1 /\ all[l + 1] = node
        /\ \A k \in 1 .. l : all[k] = edges[k]
    OBVIOUS
  <1> HIDE DEF all, l
  <1>2. \A k \in 1 .. l + 1 : k \in 1 .. l \/ k = l + 1
    BY <1>1
  <1>3. l + 1 \in 1 .. l + 1 /\ \A k \in 1 .. l : k \in 1 .. l + 1
    BY <1>1
  <1>4. Ends(all) = Ends(edges) \union {node}
    BY <1>1, <1>2, <1>3 DEF Ends
  <1>5. Distinct(all)
    <2> SUFFICES ASSUME NEW j \in 1 .. l + 1, NEW k \in 1 .. l + 1, all[j] = all[k],
                        all[j] # NullAst
                 PROVE  j = k
      BY <1>1 DEF Distinct
    <2>1. CASE j \in 1 .. l /\ k \in 1 .. l
      BY <2>1, <1>1 DEF Distinct
    <2>2. CASE j \in 1 .. l /\ k = l + 1
      BY <2>2, <1>1 DEF Ends
    <2>3. CASE k \in 1 .. l /\ j = l + 1
      BY <2>3, <1>1 DEF Ends
    <2> QED
      BY <1>2, <2>1, <2>2, <2>3
  <1> QED
    BY <1>1, <1>4, <1>5 DEF all, l

LEMMA OneEdge ==
    ASSUME NEW a \in Nat
    PROVE  <<a>> \in Seq(Nat) /\ Ends(<<a>>) = {a} /\ Distinct(<<a>>) /\ Len(<<a>>) = 1
  <1>1. Append(<<>>, a) = <<a>>
    OBVIOUS
  <1>2. Append(<<>>, a) \in Seq(Nat) /\ Len(Append(<<>>, a)) = Len(<<>>) + 1
        /\ Ends(Append(<<>>, a)) = Ends(<<>>) \union {a} /\ Distinct(Append(<<>>, a))
    BY NoEdges, OneMore
  <1> QED
    BY <1>1, <1>2, NoEdges

LEMMA ThreeEnds ==
    ASSUME NEW a \in Nat, NEW b \in Nat, b # NullAst => b # a, NEW c \in Nat,
           c # NullAst => c # a /\ c # b
    PROVE  /\ <<a, b, c>> \in Seq(Nat) /\ Ends(<<a, b, c>>) = {a, b, c}
           /\ Distinct(<<a, b, c>>) /\ Len(<<a, b, c>>) = 3
  <1> DEFINE t == <<a, b, c>>
  <1>1. t \in Seq(Nat) /\ Len(t) = 3 /\ DOMAIN t = {1, 2, 3} /\ t[1] = a /\ t[2] = b /\ t[3] = c
    <2>1. DOMAIN t = 1 .. 3
      OBVIOUS
    <2>2. 1 .. 3 = {1, 2, 3}
      OBVIOUS
    <2> QED
      BY <2>1, <2>2
  <1> HIDE DEF t
  <1>2. Ends(t) = {a, b, c}
    BY <1>1 DEF Ends
  <1>3. Distinct(t)
    BY <1>1 DEF Distinct
  <1> QED
    BY <1>1, <1>2, <1>3 DEF t

LEMMA TwoEnds ==
    ASSUME NEW a \in Nat, NEW b \in Nat, b # NullAst => b # a
    PROVE  /\ <<a, b>> \in Seq(Nat) /\ Ends(<<a, b>>) = {a, b} /\ Distinct(<<a, b>>)
           /\ Len(<<a, b>>) = 2
  <1> DEFINE t == <<a, b>>
  <1>1. t \in Seq(Nat) /\ Len(t) = 2 /\ DOMAIN t = {1, 2} /\ t[1] = a /\ t[2] = b
    <2>1. DOMAIN t = 1 .. 2
      OBVIOUS
    <2>2. 1 .. 2 = {1, 2}
      OBVIOUS
    <2> QED
      BY <2>1, <2>2
  <1> HIDE DEF t
  <1>2. Ends(t) = {a, b}
    BY <1>1 DEF Ends
  <1>3. Distinct(t)
    BY <1>1 DEF Distinct
  <1> QED
    BY <1>1, <1>2, <1>3 DEF t

-----------------------------------------------------------------------------
(* Going on from a state. *)

LEMMA HeldBelow ==
    ASSUME NEW toks, Len(toks) \in Nat, NEW p \in Parser(toks), NEW q \in Parser(toks),
           NEW low, NEW top, NEW held, Grown(p, q, low, top, held)
    PROVE  held \subseteq 0 .. Len(q.heap) /\ Len(p.heap) <= Len(q.heap)
  <1> DEFINE b == Len(p.heap)
             l == Len(q.heap)
  <1>1. b \in Nat /\ l \in Nat
    BY ParserParts
  <1>2. b <= l /\ held \subseteq {NullAst} \union (b + 1 .. l)
    BY DEF Grown, Extended, Family
  <1> HIDE DEF b, l
  <1>3. {NullAst} \union (b + 1 .. l) \subseteq 0 .. l
    BY <1>1 DEF NullAst
  <1> QED
    BY <1>2, <1>3 DEF b, l

LEMMA CallOn ==
    ASSUME NEW toks, Len(toks) \in Nat, NEW below, Calling(toks, below),
           NEW level \in 1 .. FactorLevel,
           NEW p \in Parser(toks), NEW q \in Parser(toks), NEW s \in Parser(toks), Ready(s),
           NEW low \in Nat, NEW top \in Nat, low <= s.at, top < s.at, NEW held,
           Grown(p, q, low, top, held),
           s.heap = q.heap, s.units = q.units, s.made = q.made
    PROVE  LET r == below[level][s]
           IN  /\ r \in Parser(toks)
               /\ Ok(r) =>
                    /\ Ready(r) /\ s.at <= r.at /\ ~Stuck(s)
                    /\ Grown(p, r, low, r.at, held \union {r.node})
                    /\ Grown(s, r, s.at, r.at, {r.node})
                    /\ r.node \in Nat /\ r.node \in {NullAst, Len(r.heap)}
                    /\ r.node # NullAst => r.node \notin held /\ Len(q.heap) < r.node
  <1> DEFINE r == below[level][s]
  <1>1. Hand(s, r) /\ s.toks = toks
    BY ParserParts DEF Calling
  <1> HIDE DEF r
  <1>2. r \in Parser(toks)
    BY <1>1 DEF Hand
  <1>3. ASSUME Ok(r)
        PROVE  /\ Ready(r) /\ s.at <= r.at /\ ~Stuck(s)
               /\ Grown(p, r, low, r.at, held \union {r.node})
               /\ Grown(s, r, s.at, r.at, {r.node})
               /\ r.node \in Nat /\ r.node \in {NullAst, Len(r.heap)}
               /\ r.node # NullAst => r.node \notin held /\ Len(q.heap) < r.node
    <2>1. /\ s.at <= r.at /\ r.at <= Size(r) /\ r.node \in {NullAst, Len(r.heap)}
          /\ Grown(s, r, s.at, r.at, {r.node}) /\ ~Stuck(s)
      BY <1>1, <1>3 DEF Hand
    <2>2. s.at \in Nat /\ 1 <= s.at /\ r.at \in Nat /\ Size(r) \in Nat /\ r.node \in Nat
      <3>1. s.at \in 1 .. Size(s) /\ Size(s) \in Nat
        BY ParserParts DEF Ready
      <3> QED
        BY <1>2, <3>1, ParserParts
    <2>3. Ready(r)
      <3> DEFINE x == r.at
                 y == s.at
                 z == Size(r)
      <3>1. x \in Nat /\ y \in Nat /\ z \in Nat /\ 1 <= y /\ y <= x /\ x <= z
        BY <2>1, <2>2
      <3> HIDE DEF x, y, z
      <3>2. x \in 1 .. z
        BY <3>1
      <3> QED
        BY <3>2, <1>3 DEF Ready, x, z
    <2>4. Grown(p, r, low, r.at, held \union {r.node})
      <3>1. r.at <= r.at
        BY <2>2
      <3> QED
        BY <1>2, <2>1, <2>2, <3>1, GrownJoin
    <2>5. ASSUME r.node # NullAst PROVE r.node \notin held /\ Len(q.heap) < r.node
      <3> DEFINE l == Len(q.heap)
                 x == r.node
      <3>1. l \in Nat /\ x \in Nat
        BY <2>2, ParserParts
      <3>2. x \in {NullAst} \union (l + 1 .. Len(r.heap))
        BY <2>1 DEF Grown, Family
      <3>3. held \subseteq 0 .. l
        BY HeldBelow
      <3>4. Len(r.heap) \in Nat
        BY <1>2, ParserParts
      <3>5. x \in l + 1 .. Len(r.heap)
        BY <3>2, <2>5
      <3> HIDE DEF l, x
      <3>6. l < x /\ x \notin 0 .. l
        BY <3>1, <3>4, <3>5
      <3> QED
        BY <3>3, <3>6 DEF l, x
    <2> QED
      BY <2>1, <2>2, <2>3, <2>4, <2>5
  <1> QED
    BY <1>2, <1>3 DEF r

-----------------------------------------------------------------------------
(* A construct, from its first token on.                                   *)

\* In front of the first token that was read every spot is free.
LEMMA FreeBelow ==
    ASSUME NEW toks, Len(toks) \in Nat, NEW p \in Parser(toks), NEW q \in Parser(toks),
           NEW low \in Nat, NEW top \in Nat, NEW held, Grown(p, q, low, top, held),
           NEW at \in Nat, at < low \/ top < at
    PROVE  Free(p, q, at)
  <1> SUFFICES ASSUME NEW n \in Len(p.heap) + 1 .. Len(q.heap), Normal(q.heap[n])
               PROVE  q.heap[n].at # at
    BY DEF Free
  <1> DEFINE x == q.heap[n].at
  <1>1. x \in low .. top
    BY DEF Grown, InPlace
  <1> HIDE DEF x
  <1>2. x # at
    BY <1>1
  <1> QED
    BY <1>2 DEF x

\* The node of a construct, over all that was parsed for it.
LEMMA MakeHand ==
    ASSUME NEW toks, Len(toks) \in Nat, NEW p \in Parser(toks), Ready(p), ~Stuck(p),
           p.at <= Len(toks),
           NEW q \in Parser(toks), NEW m \in Parser(toks), Ready(m),
           m.heap = q.heap, m.made = q.made, q.units = m.units,
           NEW low \in Nat, NEW top \in Nat, p.at < low, p.at <= m.at, top <= m.at,
           NEW edges \in Seq(Nat), Distinct(edges), Grown(p, q, low, top, Ends(edges)),
           NEW kind \in NodeKind, kind \notin {"UNIT", "UNKNOWN", "BINARY_OP"},
           Arity(NodeOf(kind, p.at, edges))
    PROVE  Hand(p, Make(m, kind, p.at, edges))
  <1> DEFINE r == Make(m, kind, p.at, edges)
  <1>1. p.at \in Nat /\ m.at \in Nat /\ p.toks = toks /\ m.units \in Nat
    BY ParserParts
  <1>2. r \in Parser(toks)
    BY <1>1, MakeIs
  <1>3. ASSUME Ok(r) PROVE Hand(p, r)
    <2>1. Free(p, q, p.at)
      BY <1>1, FreeBelow
    <2>2. p.at <= low /\ p.at \in p.at .. m.at /\ q.units <= m.units
      <3> DEFINE x == p.at
                 y == m.at
                 z == m.units
      <3>1. x \in Nat /\ y \in Nat /\ z \in Nat /\ x < low /\ x <= y /\ q.units = z
        BY <1>1
      <3> HIDE DEF x, y, z
      <3>2. x <= low /\ x \in x .. y /\ z <= z
        BY <3>1
      <3> QED
        BY <3>1, <3>2 DEF x, y, z
    <2>3. \A k \in DOMAIN edges : edges[k] \in Ends(edges)
      BY DEF Ends
    <2>4. \A j, k \in DOMAIN edges : edges[j] = edges[k] /\ edges[j] # NullAst => j = k
      BY DEF Distinct
    <2>5. kind # "UNIT" /\ kind # "BINARY_OP"
      OBVIOUS
    <2>6. /\ r.node = Len(q.heap) + 1 /\ Len(r.heap) = Len(q.heap) + 1 /\ r.at = m.at
          /\ Size(r) = Size(m)
          /\ Grown(p, r, p.at, m.at, Over(Ends(edges), edges, r.node))
      <3>1. Fits(toks, p, q, m, Ends(edges), kind, p.at, edges, p.at, m.at)
        BY <1>1, <2>1, <2>2, <2>3, <2>4, <2>5 DEF Fits
      <3>2. Stands(toks, p, q, m, low, top, p.at, m.at, Ends(edges))
        BY <1>1, <2>2 DEF Stands
      <3> QED
        BY <1>1, <1>3, <3>1, <3>2, GrownMake
    <2>7. Over(Ends(edges), edges, r.node) = {r.node}
      BY DEF Ends, Over
    <2>8. m.at <= Size(m)
      <3>1. Size(m) \in Nat /\ m.at \in 1 .. Size(m)
        BY ParserParts DEF Ready
      <3> QED
        BY <3>1, <1>1
    <2> HIDE DEF r
    <2> QED
      BY <1>1, <1>2, <1>3, <2>6, <2>7, <2>8 DEF Hand
  <1> HIDE DEF r
  <1> QED
    BY <1>2, <1>3, EndedHand DEF r

\* A construct that has no node to return.
LEMMA NothingHand ==
    ASSUME NEW toks, Len(toks) \in Nat, NEW p \in Parser(toks), Ready(p), ~Stuck(p),
           NEW q \in Parser(toks), NEW r \in Parser(toks), Ready(r),
           r.heap = q.heap, r.units = q.units, r.node = NullAst,
           NEW low \in Nat, NEW top \in Nat, p.at <= low, p.at <= r.at, top <= r.at,
           NEW held, Grown(p, q, low, top, held)
    PROVE  Hand(p, r)
  <1>1. p.at \in Nat /\ r.at \in Nat /\ p.toks = toks /\ q.toks = toks /\ r.toks = toks
    BY ParserParts
  <1>2. Grown(p, q, p.at, r.at, held)
    BY <1>1, GrownWide
  <1>3. Grown(p, r, p.at, r.at, {NullAst})
    <2>1. Family(r.heap, Len(p.heap), {NullAst})
      BY <1>2 DEF Grown, Family
    <2>2. Whole(r.heap, Len(p.heap), {NullAst}, r.made - p.made)
      BY DEF Whole, Lossless
    <2>3. Size(r) = Size(q)
      BY <1>1 DEF Size
    <2> QED
      BY <1>2, <2>1, <2>2, <2>3 DEF Grown
  <1>4. r.at <= Size(r)
    <2>1. Size(r) \in Nat /\ r.at \in 1 .. Size(r)
      BY ParserParts DEF Ready
    <2> QED
      BY <2>1, <1>1
  <1> QED
    BY <1>1, <1>3, <1>4 DEF Hand

\* A call whose arguments cannot be read: they are lost.
LEMMA LostHand ==
    ASSUME NEW toks, Len(toks) \in Nat, NEW p \in Parser(toks), Ready(p), ~Stuck(p),
           NEW q \in Parser(toks), NEW m \in Parser(toks), Ready(m),
           m.heap = q.heap, m.made = q.made, q.units = m.units,
           NEW low \in Nat, NEW top \in Nat, p.at <= low, p.at <= m.at, top <= m.at,
           NEW held, Grown(p, q, low, top, held)
    PROVE  Hand(p, Make(m, "UNKNOWN", 1, <<>>))
  <1> DEFINE r == Make(m, "UNKNOWN", 1, <<>>)
  <1>1. p.at \in Nat /\ m.at \in Nat /\ p.toks = toks /\ m.units \in Nat
    BY ParserParts
  <1>2. r \in Parser(toks)
    BY <1>1, MakeIs, NoEdges DEF NodeKind
  <1>3. ASSUME Ok(r) PROVE Hand(p, r)
    <2>1. NodeOf("UNKNOWN", 1, <<>>).kind = "UNKNOWN" /\ Arity(NodeOf("UNKNOWN", 1, <<>>))
      BY DEF NodeOf, Arity
    <2>2. q.units <= m.units
      <3> DEFINE z == m.units
      <3>1. z \in Nat /\ q.units = z
        BY <1>1
      <3> HIDE DEF z
      <3>2. z <= z
        BY <3>1
      <3> QED
        BY <3>1, <3>2 DEF z
    <2>3. "UNKNOWN" \in NodeKind /\ DOMAIN <<>> = {} /\ <<>> \in Seq(Nat)
      BY DEF NodeKind
    <2>4. /\ r.node = Len(q.heap) + 1 /\ r.heap = Append(q.heap, NodeOf("UNKNOWN", 1, <<>>))
          /\ Len(r.heap) = Len(q.heap) + 1 /\ r.at = m.at /\ Size(r) = Size(m)
          /\ Grown(p, r, p.at, m.at, Over(held, <<>>, r.node))
      <3> DEFINE lost == "UNKNOWN"
                 one  == 1
                 none == <<>>
      <3>1. Fits(toks, p, q, m, held, lost, one, none, p.at, m.at)
        BY <2>1, <2>3 DEF Fits
      <3>2. Stands(toks, p, q, m, low, top, p.at, m.at, held)
        BY <1>1, <2>2 DEF Stands
      <3>3. lost \in NodeKind /\ one \in Nat /\ none \in Seq(Nat) /\ r = Make(m, lost, one, none)
        BY <2>3
      <3>4. lost = "UNKNOWN" /\ one = 1 /\ none = <<>>
        OBVIOUS
      <3> HIDE DEF lost, one, none, r
      <3>5. /\ r.node = Len(q.heap) + 1 /\ r.heap = Append(q.heap, NodeOf(lost, one, none))
            /\ Len(r.heap) = Len(q.heap) + 1 /\ r.at = m.at /\ Size(r) = Size(m)
            /\ Grown(p, r, p.at, m.at, Over(held, none, r.node))
        BY <1>3, <3>1, <3>2, <3>3, GrownMake
      <3> QED
        BY <3>4, <3>5
    <2> HIDE DEF r
    <2> DEFINE all == Over(held, <<>>, r.node)
    <2>5. r.node \in all
      BY DEF Over
    <2>6. Grown(p, r, p.at, m.at, all)
      BY <2>4
    <2> HIDE DEF all
    <2>7. Grown(p, r, p.at, m.at, {r.node})
      <3>1. Family(r.heap, Len(p.heap), {r.node})
        BY <2>5, <2>6 DEF Grown, Family
      <3>2. Len(q.heap) + 1 \in Len(p.heap) + 1 .. Len(r.heap)
            /\ r.heap[Len(q.heap) + 1].kind = "UNKNOWN"
        <4>1. Len(p.heap) <= Len(q.heap)
          BY HeldBelow
        <4>2. q.heap \in Seq(Node) /\ Len(p.heap) \in Nat
          BY ParserParts
        <4>3. NodeOf("UNKNOWN", 1, <<>>) \in Node
          BY <2>3 DEF NodeOf, Node
        <4>4. /\ r.heap[Len(q.heap) + 1] = NodeOf("UNKNOWN", 1, <<>>)
              /\ Len(q.heap) + 1 \in Len(p.heap) + 1 .. Len(q.heap) + 1
          BY <2>4, <4>1, <4>2, <4>3, Appended
        <4> QED
          BY <2>1, <2>4, <4>4
      <3>3. Whole(r.heap, Len(p.heap), {r.node}, r.made - p.made)
        BY <3>2 DEF Whole, Lossless
      <3> QED
        BY <2>6, <3>1, <3>3 DEF Grown
    <2>8. m.at <= Size(m)
      <3>1. Size(m) \in Nat /\ m.at \in 1 .. Size(m)
        BY ParserParts DEF Ready
      <3> QED
        BY <3>1, <1>1
    <2> QED
      BY <1>1, <1>2, <1>3, <2>4, <2>7, <2>8 DEF Hand
  <1> HIDE DEF r
  <1> QED
    BY <1>2, <1>3, EndedHand DEF r

\* s is at what has been left in the heap between p and q.
Along(toks, p, q, s, low, top, held) ==
    /\ Len(toks) \in Nat /\ p \in Parser(toks) /\ q \in Parser(toks) /\ s \in Parser(toks)
    /\ Ready(p) /\ Ready(s) /\ s.heap = q.heap /\ s.units = q.units /\ s.made = q.made
    /\ low \in Nat /\ top \in Nat /\ Grown(p, q, low, top, held)

\* The state differs in its cursor alone.
Same(s, m) == m.heap = s.heap /\ m.units = s.units /\ m.made = s.made

\* Nothing has been read.
LEMMA AlongStart ==
    ASSUME NEW toks, Len(toks) \in Nat, NEW p \in Parser(toks), Ready(p),
           NEW s \in Parser(toks), Ready(s), Same(p, s), NEW low \in Nat, NEW top \in Nat
    PROVE  Along(toks, p, p, s, low, top, {})
  <1>1. Grown(p, p, low, top, {})
    BY GrownNothing
  <1> QED
    BY <1>1 DEF Along, Same

\* The cursor moves.
LEMMA AlongMove ==
    ASSUME NEW toks, NEW p, NEW q, NEW s, NEW low, NEW top, NEW held,
           Along(toks, p, q, s, low, top, held), NEW m \in Parser(toks), Ready(m), Same(s, m)
    PROVE  Along(toks, p, q, m, low, top, held)
  BY DEF Along, Same

\* Where that is.
LEMMA AlongSpot ==
    ASSUME NEW toks, NEW p, NEW q, NEW s, NEW low, NEW top, NEW held,
           Along(toks, p, q, s, low, top, held)
    PROVE  /\ s \in Parser(toks) /\ Ready(s) /\ s.at \in Nat /\ s.at >= 1 /\ s.at <= Size(s)
           /\ Size(s) \in Nat /\ s.toks = toks /\ p.at \in Nat
  <1>1. s \in Parser(toks) /\ Ready(s) /\ p \in Parser(toks) /\ Len(toks) \in Nat
    BY DEF Along
  <1>2. s.at \in 1 .. Size(s) /\ Size(s) \in Nat /\ s.at \in Nat /\ s.toks = toks /\ p.at \in Nat
    BY <1>1, ParserParts DEF Ready
  <1> QED
    BY <1>1, <1>2

\* The cursor goes to the next token.
LEMMA AlongAdvance ==
    ASSUME NEW toks, NEW p, NEW q, NEW s, NEW low, NEW top, NEW held,
           Along(toks, p, q, s, low, top, held)
    PROVE  LET m == Advance(s)
           IN  /\ Along(toks, p, q, m, low, top, held) /\ m \in Parser(toks) /\ Ready(m)
               /\ m.node = s.node /\ m.heap = s.heap /\ Size(m) = Size(s) /\ m.at \in Nat
               /\ s.at <= m.at /\ (More(s) => m.at = s.at + 1 /\ Token(m) = Ahead(s))
               /\ (~More(s) => m = s)
  <1> DEFINE m == Advance(s)
  <1>1. /\ m \in Parser(toks) /\ Ready(m) /\ Same(s, m) /\ m.node = s.node /\ m.heap = s.heap
        /\ Size(m) = Size(s) /\ (More(s) => m.at = s.at + 1 /\ Token(m) = Ahead(s))
        /\ (~More(s) => m = s)
    BY Advanced DEF Along, Same
  <1>2. s.at \in Nat
    BY AlongSpot
  <1> HIDE DEF m
  <1>3. Along(toks, p, q, m, low, top, held)
    BY <1>1, AlongMove
  <1>4. s.at <= m.at /\ m.at \in Nat
    BY <1>1, <1>2
  <1> QED
    BY <1>1, <1>3, <1>4 DEF m

\* What a call from s leaves, r being the state it returns.
Called(toks, p, q, s, r, low, held) ==
    /\ Along(toks, p, r, r, low, r.at, held \union {r.node})
    /\ r.at \in Nat /\ s.at <= r.at /\ ~Stuck(s)
    /\ Grown(s, r, s.at, r.at, {r.node})
    /\ r.node \in Nat /\ r.node \in {NullAst, Len(r.heap)}
    /\ r.node # NullAst => r.node \notin held /\ Len(q.heap) < r.node

\* A function is called there.
LEMMA AlongCall ==
    ASSUME NEW toks, NEW p, NEW q, NEW s, NEW low, NEW top, NEW held,
           Along(toks, p, q, s, low, top, held), low <= s.at, top < s.at,
           NEW below, Calling(toks, below), NEW level \in 1 .. FactorLevel,
           NEW r, r = below[level][s]
    PROVE  r \in Parser(toks) /\ (Ok(r) => Called(toks, p, q, s, r, low, held))
  <1>1. /\ Len(toks) \in Nat /\ p \in Parser(toks) /\ q \in Parser(toks) /\ s \in Parser(toks)
        /\ Ready(p) /\ Ready(s) /\ s.heap = q.heap /\ s.units = q.units /\ s.made = q.made
        /\ low \in Nat /\ top \in Nat /\ Grown(p, q, low, top, held)
    BY DEF Along
  <1>2. /\ r \in Parser(toks)
        /\ Ok(r) =>
             /\ Ready(r) /\ s.at <= r.at /\ ~Stuck(s)
             /\ Grown(p, r, low, r.at, held \union {r.node})
             /\ Grown(s, r, s.at, r.at, {r.node})
             /\ r.node \in Nat /\ r.node \in {NullAst, Len(r.heap)}
             /\ r.node # NullAst => r.node \notin held /\ Len(q.heap) < r.node
    BY <1>1, CallOn
  <1>3. r.at \in Nat
    BY <1>1, <1>2, ParserParts
  <1> QED
    BY <1>1, <1>2, <1>3 DEF Along, Called

\* The construct gets its node.
LEMMA AlongMake ==
    ASSUME NEW toks, NEW p, NEW q, NEW m, NEW low, NEW top, NEW edges,
           Along(toks, p, q, m, low, top, Ends(edges)),
           ~Stuck(p), p.at <= Len(toks), p.at < low, p.at <= m.at, top <= m.at,
           edges \in Seq(Nat), Distinct(edges),
           NEW kind, kind \in NodeKind, kind \notin {"UNIT", "UNKNOWN", "BINARY_OP"},
           Arity(NodeOf(kind, p.at, edges))
    PROVE  Hand(p, Make(m, kind, p.at, edges))
  <1>1. /\ Len(toks) \in Nat /\ p \in Parser(toks) /\ q \in Parser(toks) /\ m \in Parser(toks)
        /\ Ready(p) /\ Ready(m) /\ m.heap = q.heap /\ m.units = q.units /\ m.made = q.made
        /\ low \in Nat /\ top \in Nat /\ Grown(p, q, low, top, Ends(edges))
    BY DEF Along
  <1> QED
    BY <1>1, MakeHand

\* The construct has no node to return.
LEMMA AlongNothing ==
    ASSUME NEW toks, NEW p, NEW q, NEW s, NEW low, NEW top, NEW held,
           Along(toks, p, q, s, low, top, held), ~Stuck(p),
           p.at <= low, p.at <= s.at, top <= s.at
    PROVE  /\ Hand(p, Fail(s))
           /\ \A n \in Nat : Hand(p, [Fail(s) EXCEPT !.made = @ - n])
  <1>1. /\ Len(toks) \in Nat /\ p \in Parser(toks) /\ q \in Parser(toks) /\ s \in Parser(toks)
        /\ Ready(p) /\ Ready(s) /\ s.heap = q.heap /\ s.units = q.units /\ s.made = q.made
        /\ low \in Nat /\ top \in Nat /\ Grown(p, q, low, top, held) /\ s.toks = toks
    BY ParserParts DEF Along
  <1> DEFINE f == Fail(s)
  <1>2. /\ f \in Parser(toks) /\ f.node = NullAst /\ f.heap = s.heap /\ f.units = s.units
        /\ f.made = s.made /\ f.end = s.end /\ f.at = s.at /\ f.toks = s.toks
    BY <1>1, FailIs
  <1> HIDE DEF f
  <1>3. ASSUME NEW r \in Parser(toks), r.node = NullAst, r.heap = f.heap, r.units = f.units,
               r.end = f.end, r.at = f.at, r.toks = f.toks
        PROVE  Hand(p, r)
    <2>1. Ready(r)
      BY <1>1, <1>2, <1>3 DEF Ready, Ok, Size
    <2> QED
      BY <1>1, <1>2, <1>3, <2>1, NothingHand
  <1>4. Hand(p, f)
    BY <1>2, <1>3
  <1>5. ASSUME NEW n \in Nat PROVE Hand(p, [f EXCEPT !.made = @ - n])
    <2> DEFINE z == f.made - n
               r == [f EXCEPT !.made = z]
    <2>1. z \in Int
      <3>1. f.made \in Int
        BY <1>1, <1>2, ParserParts
      <3> QED
        BY <3>1
    <2> HIDE DEF z
    <2>2. /\ r \in Parser(toks) /\ r.node = f.node /\ r.heap = f.heap /\ r.units = f.units
          /\ r.end = f.end /\ r.at = f.at /\ r.toks = f.toks
      BY <1>2, <2>1 DEF Parser
    <2> HIDE DEF r
    <2>3. Hand(p, r)
      BY <1>2, <1>3, <2>2
    <2> QED
      BY <2>3 DEF r, z
  <1> QED
    BY <1>4, <1>5 DEF f

\* The arguments of a call are lost.
LEMMA AlongLost ==
    ASSUME NEW toks, NEW p, NEW q, NEW m, NEW low, NEW top, NEW held,
           Along(toks, p, q, m, low, top, held), ~Stuck(p),
           p.at <= low, p.at <= m.at, top <= m.at
    PROVE  Hand(p, Make(m, "UNKNOWN", 1, <<>>))
  <1>1. /\ Len(toks) \in Nat /\ p \in Parser(toks) /\ q \in Parser(toks) /\ m \in Parser(toks)
        /\ Ready(p) /\ Ready(m) /\ m.heap = q.heap /\ m.units = q.units /\ m.made = q.made
        /\ low \in Nat /\ top \in Nat /\ Grown(p, q, low, top, held)
    BY DEF Along
  <1> QED
    BY <1>1, LostHand

\* Parentheses: the state of another call is handed on, with the cursor behind it.
LEMMA HandOn ==
    ASSUME NEW toks, Len(toks) \in Nat, NEW p \in Parser(toks), NEW q \in Parser(toks),
           NEW r \in Parser(toks), Hand(p, q), Ok(q), Same(q, r), r.node = q.node,
           q.at <= r.at, Ready(r)
    PROVE  Hand(p, r)
  <1>1. /\ p.at \in Nat /\ q.at \in Nat /\ r.at \in Nat /\ p.toks = toks /\ q.toks = toks
        /\ r.toks = toks /\ Size(r) \in Nat /\ r.at \in 1 .. Size(r)
    BY ParserParts DEF Ready
  <1>2. /\ p.at <= q.at /\ q.node \in {NullAst, Len(q.heap)} /\ Grown(p, q, p.at, q.at, {q.node})
        /\ ~Stuck(p)
    BY DEF Hand
  <1>3. p.at <= r.at /\ r.at <= Size(r) /\ p.at <= p.at
    <2> DEFINE x == p.at
               y == q.at
               z == r.at
               u == Size(r)
    <2>1. x \in Nat /\ y \in Nat /\ z \in Nat /\ u \in Nat /\ x <= y /\ y <= z /\ z \in 1 .. u
      BY <1>1, <1>2
    <2> HIDE DEF x, y, z, u
    <2>2. x <= z /\ z <= u /\ x <= x
      BY <2>1
    <2> QED
      BY <2>2 DEF x, y, z, u
  <1>4. Grown(p, q, p.at, r.at, {q.node})
    BY <1>1, <1>2, <1>3, GrownWide
  <1>5. Grown(p, r, p.at, r.at, {r.node})
    BY <1>1, <1>4, GrownSame DEF Same
  <1> QED
    BY <1>1, <1>2, <1>3, <1>5 DEF Hand, Same

-----------------------------------------------------------------------------
(* Leaves, unary operators and parentheses.                                *)

\* The levels of precedence, and what they are made of.
LEMMA Levels ==
    /\ FactorLevel \in Nat /\ 1 \in 1 .. FactorLevel /\ FactorLevel \in 1 .. FactorLevel
    /\ \A level \in 1 .. FactorLevel : level # FactorLevel =>
          /\ level + 1 \in 1 .. FactorLevel
          /\ Precedence[level] \subseteq Signs
  <1>1. FactorLevel = 8
    BY DEF FactorLevel, Precedence
  <1>2. 1 .. 8 = {1, 2, 3, 4, 5, 6, 7, 8}
    OBVIOUS
  <1>3. ASSUME NEW level \in {1, 2, 3, 4, 5, 6, 7} PROVE Precedence[level] \subseteq Signs
    <2>1. /\ Precedence[1] = {"="} /\ Precedence[2] = {"or"} /\ Precedence[3] = {"and"}
          /\ Precedence[4] = {"==", "!="} /\ Precedence[5] = {"<", "<=", ">", ">="}
          /\ Precedence[6] = {"+", "-"} /\ Precedence[7] = {"*", "/", "%"}
      BY DEF Precedence
    <2> QED
      BY <1>3, <2>1 DEF Signs
  <1>4. \A level \in 1 .. 8 : level # 8 => level \in {1, 2, 3, 4, 5, 6, 7} /\ level + 1 \in 1 .. 8
    OBVIOUS
  <1>5. 8 \in Nat /\ 1 \in 1 .. 8 /\ 8 \in 1 .. 8
    OBVIOUS
  <1> QED
    BY <1>1, <1>3, <1>4, <1>5

\* The token of a unit is no operator.
LEMMA SignIsGiven == UnitToken \notin Signs
  BY DEF UnitToken, Signs

\* A construct begins at a token that was given, and may end the tokens.
Begun(toks, p) ==
    Len(toks) \in Nat /\ p \in Parser(toks) /\ Ready(p) /\ Token(p) # UnitToken

\* The first token behind the one a construct begins at.
Behind(p) == p.at + 1

\* What is known at its first token.
LEMMA BeginsAt ==
    ASSUME NEW toks, NEW p, Begun(toks, p)
    PROVE  /\ Len(toks) \in Nat /\ p \in Parser(toks) /\ Ready(p) /\ p.toks = toks
           /\ p.at \in Nat /\ p.at >= 1 /\ p.at <= Len(toks) /\ Behind(p) \in Nat /\ Behind(p) = p.at + 1
           /\ p.at < Behind(p) /\ p.at <= Behind(p) /\ p.at <= p.at
           /\ Along(toks, p, p, p, Behind(p), p.at, {})
  <1>1. Len(toks) \in Nat /\ p \in Parser(toks) /\ Ready(p)
    BY DEF Begun
  <1>2. p.at \in Nat /\ p.at \in 1 .. Size(p) /\ Size(p) \in Nat /\ p.toks = toks
    BY <1>1, ParserParts DEF Ready
  <1>3. p.at <= Len(toks)
    BY <1>1, Given DEF Begun
  <1>4. /\ p.at >= 1 /\ Behind(p) \in Nat /\ Behind(p) = p.at + 1 /\ p.at < Behind(p)
        /\ p.at <= Behind(p) /\ p.at <= p.at
    <2> DEFINE x == p.at
    <2>1. x \in Nat /\ x \in 1 .. Size(p) /\ Size(p) \in Nat
      BY <1>2
    <2> HIDE DEF x
    <2>2. x >= 1 /\ x + 1 \in Nat /\ x < x + 1 /\ x <= x + 1 /\ x <= x
      BY <2>1
    <2> QED
      BY <2>2 DEF x, Behind
  <1>5. Along(toks, p, p, p, Behind(p), p.at, {})
    BY <1>1, <1>2, <1>4, AlongStart DEF Same
  <1> QED
    BY <1>1, <1>2, <1>3, <1>4, <1>5

\* A name or a number.
LEMMA LeafWorks ==
    ASSUME NEW toks, NEW p, Begun(toks, p), Kind(Token(p)) \in {"identifier", "integer"},
           NEW kind \in {"LITERAL", "IDENTIFIER"}
    PROVE  Hand(p, Make(p, kind, p.at, <<>>))
  <1>1. /\ p.at <= Len(toks) /\ p.at < Behind(p) /\ p.at <= p.at
        /\ Along(toks, p, p, p, Behind(p), p.at, {})
    BY BeginsAt
  <1>2. ~Stuck(p)
    BY SignAssumption DEF Stuck
  <1> DEFINE none == <<>>
  <1>3. none \in Seq(Nat) /\ Ends(none) = {} /\ Distinct(none)
    BY NoEdges
  <1>4. kind \in NodeKind /\ kind \notin {"UNIT", "UNKNOWN", "BINARY_OP"}
        /\ Arity(NodeOf(kind, p.at, none))
    BY DEF NodeKind, NodeOf, Arity
  <1> HIDE DEF none
  <1>5. Hand(p, Make(p, kind, p.at, none))
    BY <1>1, <1>2, <1>3, <1>4, AlongMake
  <1> QED
    BY <1>5 DEF none

\* A unary operator.
LEMMA UnaryWorks ==
    ASSUME NEW toks, NEW p, Begun(toks, p), Token(p) \in {"-", "not"},
           NEW below, Calling(toks, below)
    PROVE  Hand(p, Unary(below, p))
  <1> DEFINE s == Advance(p)
             r == below[FactorLevel][s]
             edges == <<r.node>>
  <1>1. /\ Len(toks) \in Nat /\ p \in Parser(toks) /\ Ready(p)
        /\ p.at \in Nat /\ p.at <= Len(toks) /\ p.at < Behind(p) /\ Behind(p) \in Nat /\ p.at <= Behind(p)
        /\ Along(toks, p, p, p, Behind(p), p.at, {})
    BY BeginsAt
  <1>2. /\ Along(toks, p, p, s, Behind(p), p.at, {}) /\ s \in Parser(toks) /\ Ready(s)
        /\ s.at \in Nat /\ (More(p) => s.at = Behind(p)) /\ (~More(p) => s = p)
    BY <1>1, AlongAdvance DEF Behind
  <1>3. Unary(below, p) = IF ~Ok(r) THEN r ELSE Make(r, "UNARY_OP", p.at, edges)
    BY DEF Unary
  <1>4. FactorLevel \in 1 .. FactorLevel
    BY Levels
  <1> HIDE DEF s
  <1>5. r \in Parser(toks)
    BY <1>2, <1>4 DEF Calling, Hand, Parser
  <1>6. ASSUME Ok(r) PROVE Hand(p, Make(r, "UNARY_OP", p.at, edges))
    <2>1. More(p)
      <3>1. ASSUME ~More(p) PROVE FALSE
        <4>1. s = p /\ Stuck(p)
          BY <1>2, <3>1 DEF Stuck, Signs
        <4>2. Hand(s, r)
          BY <1>2, <1>4 DEF Calling
        <4> QED
          BY <1>6, <4>1, <4>2 DEF Hand
      <3> QED
        BY <3>1
    <2>2. s.at = Behind(p) /\ Behind(p) <= s.at /\ p.at < s.at
      BY <1>1, <1>2, <2>1
    <2>3. /\ Along(toks, p, r, r, Behind(p), r.at, {} \union {r.node})
          /\ r.at \in Nat /\ s.at <= r.at /\ r.node \in Nat
      <3>1. Called(toks, p, p, s, r, Behind(p), {})
        BY <1>2, <1>4, <1>6, <2>2, AlongCall
      <3> QED
        BY <3>1 DEF Called
    <2> DEFINE kind == "UNARY_OP"
    <2> HIDE DEF r
    <2>4. edges \in Seq(Nat) /\ Ends(edges) = {} \union {r.node} /\ Distinct(edges) /\ Len(edges) = 1
      BY <2>3, OneEdge
    <2>5. kind \in NodeKind /\ kind \notin {"UNIT", "UNKNOWN", "BINARY_OP"}
          /\ Arity(NodeOf(kind, p.at, edges)) /\ kind = "UNARY_OP"
      BY <2>4 DEF NodeKind, NodeOf, Arity
    <2>6. ~Stuck(p)
      BY <2>1 DEF Stuck
    <2>7. p.at <= r.at /\ r.at <= r.at
      BY <1>1, <1>2, <2>2, <2>3
    <2> HIDE DEF kind, edges
    <2>8. Hand(p, Make(r, kind, p.at, edges))
      BY <1>1, <2>3, <2>4, <2>5, <2>6, <2>7, AlongMake
    <2> QED
      BY <2>5, <2>8
  <1> QED
    BY <1>1, <1>3, <1>5, <1>6, EndedHand

\* Parentheses.
LEMMA ParenthesizedWorks ==
    ASSUME NEW toks, NEW p, Begun(toks, p), Token(p) = "(",
           NEW below, Calling(toks, below)
    PROVE  Hand(p, Parenthesized(below, p))
  <1> DEFINE s == Advance(p)
             r == below[1][s]
             close == Advance(r)
  <1>1. /\ Len(toks) \in Nat /\ p \in Parser(toks) /\ Ready(p)
        /\ p.at \in Nat /\ p.at <= Len(toks) /\ p.at < Behind(p) /\ Behind(p) \in Nat /\ p.at <= Behind(p)
        /\ Along(toks, p, p, p, Behind(p), p.at, {})
    BY BeginsAt
  <1>2. /\ Along(toks, p, p, s, Behind(p), p.at, {}) /\ s \in Parser(toks) /\ Ready(s)
        /\ s.at \in Nat /\ (More(p) => s.at = Behind(p)) /\ (~More(p) => s = p)
    BY <1>1, AlongAdvance DEF Behind
  <1>3. Parenthesized(below, p) =
            IF ~Ok(r) THEN r ELSE IF Token(close) # ")" THEN Stop(close, "aborted") ELSE close
    BY DEF Parenthesized, Expression
  <1>4. 1 \in 1 .. FactorLevel
    BY Levels
  <1> HIDE DEF s
  <1>5. Hand(s, r) /\ r \in Parser(toks)
    BY <1>2, <1>4 DEF Calling, Hand, Parser
  <1>6. ASSUME Ok(r)
        PROVE  Hand(p, close) /\ close \in Parser(toks)
    <2>1. ~Stuck(p)
      BY DEF Stuck, Signs
    <2>2. Hand(p, r)
      <3>1. CASE ~More(p)
        BY <1>2, <1>5, <3>1
      <3>2. CASE More(p)
        <4>1. s.at = Behind(p) /\ Behind(p) <= s.at /\ p.at < s.at
          BY <1>1, <1>2, <3>2
        <4>2. /\ Along(toks, p, r, r, Behind(p), r.at, {} \union {r.node})
              /\ r.at \in Nat /\ s.at <= r.at /\ r.node \in {NullAst, Len(r.heap)}
          <5>1. Called(toks, p, p, s, r, Behind(p), {})
            BY <1>2, <1>4, <1>6, <4>1, AlongCall
          <5> QED
            BY <5>1 DEF Called
        <4> HIDE DEF r
        <4>3. Grown(p, r, Behind(p), r.at, {r.node}) /\ Ready(r) /\ {} \union {r.node} = {r.node}
          BY <4>2 DEF Along
        <4>4. p.at <= Behind(p) /\ r.at <= r.at /\ p.at <= r.at
          BY <1>1, <1>2, <4>1, <4>2
        <4>5. Grown(p, r, p.at, r.at, {r.node})
          BY <1>1, <1>5, <4>2, <4>3, <4>4, GrownWide
        <4>6. r.at <= Size(r) /\ p.toks = toks
          <5>1. Size(r) \in Nat /\ r.at \in 1 .. Size(r) /\ p.toks = toks
            BY <1>1, <1>5, <4>3, ParserParts DEF Ready
          <5> QED
            BY <4>2, <5>1
        <4> QED
          BY <1>5, <2>1, <4>2, <4>4, <4>5, <4>6 DEF Hand
      <3> QED
        BY <3>1, <3>2
    <2> HIDE DEF r
    <2>3. Ready(r)
      <3>1. p.at <= r.at /\ r.at <= Size(r)
        BY <1>6, <2>2 DEF Hand
      <3>2. p.at \in Nat /\ p.at >= 1 /\ r.at \in Nat /\ Size(r) \in Nat
        BY <1>5, BeginsAt, ParserParts
      <3> DEFINE x == r.at
                 y == Size(r)
                 z == p.at
      <3>3. x \in Nat /\ y \in Nat /\ z \in Nat /\ z >= 1 /\ z <= x /\ x <= y
        BY <3>1, <3>2
      <3> HIDE DEF x, y, z
      <3>4. x \in 1 .. y
        BY <3>3
      <3> QED
        BY <1>6, <3>4 DEF Ready, x, y
    <2>4. /\ close \in Parser(toks) /\ Ready(close) /\ Same(r, close) /\ close.node = r.node
          /\ (More(r) => close.at = r.at + 1) /\ (~More(r) => close = r)
      BY <1>1, <1>5, <2>3, Advanced DEF Same
    <2> HIDE DEF close
    <2>5. r.at <= close.at
      <3>1. r.at \in Nat
        BY <1>1, <1>5, ParserParts
      <3> QED
        BY <2>4, <3>1
    <2> QED
      BY <1>1, <1>5, <1>6, <2>2, <2>4, <2>5, HandOn
  <1> HIDE DEF close, r
  <1>7. Ok(r) => Hand(p, Stop(close, "aborted"))
    BY <1>1, <1>6, StopHand
  <1> QED
    BY <1>1, <1>3, <1>5, <1>6, <1>7, EndedHand

-----------------------------------------------------------------------------
(* The function that began at one token has come to another.               *)

\* The function that began at p has come to s.
On(toks, p, q, s, top, held) ==
    Begun(toks, p) /\ Along(toks, p, q, s, Behind(p), top, held) /\ p.at <= s.at /\ top <= s.at

\* It has come nowhere yet.
LEMMA OnStart ==
    ASSUME NEW toks, NEW p, Begun(toks, p)
    PROVE  On(toks, p, p, p, p.at, {}) /\ Len(toks) \in Nat /\ p \in Parser(toks)
  BY BeginsAt DEF On

\* Where it is.
LEMMA OnSpot ==
    ASSUME NEW toks, NEW p, NEW q, NEW s, NEW top, NEW held, On(toks, p, q, s, top, held)
    PROVE  /\ s \in Parser(toks) /\ Ready(s) /\ p.at \in Nat /\ s.at \in Nat /\ top \in Nat
           /\ Behind(p) \in Nat /\ Behind(p) = p.at + 1 /\ p.at <= s.at /\ top <= s.at
           /\ q \in Parser(toks) /\ p \in Parser(toks) /\ Len(toks) \in Nat
           /\ Grown(p, q, Behind(p), top, held)
           /\ s.heap = q.heap /\ s.units = q.units /\ s.made = q.made
  <1>1. Along(toks, p, q, s, Behind(p), top, held) /\ Begun(toks, p) /\ p.at <= s.at /\ top <= s.at
    BY DEF On
  <1>2. p.at \in Nat /\ s.at \in Nat
    BY <1>1, AlongSpot
  <1>3. Behind(p) \in Nat /\ Behind(p) = p.at + 1
    BY <1>1, BeginsAt
  <1>4. /\ s \in Parser(toks) /\ Ready(s) /\ top \in Nat /\ q \in Parser(toks)
        /\ p \in Parser(toks) /\ Len(toks) \in Nat /\ Grown(p, q, Behind(p), top, held)
        /\ s.heap = q.heap /\ s.units = q.units /\ s.made = q.made
    BY <1>1 DEF Along
  <1> QED
    BY <1>1, <1>2, <1>3, <1>4

\* It goes on to the next token.
LEMMA OnNext ==
    ASSUME NEW toks, NEW p, NEW q, NEW s, NEW top, NEW held, On(toks, p, q, s, top, held),
           NEW m, m = Advance(s)
    PROVE  /\ On(toks, p, q, m, top, held) /\ m \in Parser(toks) /\ m.node = s.node
           /\ m.heap = s.heap /\ (More(s) => m.at = s.at + 1 /\ Token(m) = Ahead(s))
           /\ s.at <= m.at /\ (~More(s) => m = s)
  <1>1. Along(toks, p, q, s, Behind(p), top, held) /\ Begun(toks, p)
    BY DEF On
  <1>2. /\ Along(toks, p, q, m, Behind(p), top, held) /\ m \in Parser(toks) /\ m.node = s.node
        /\ m.heap = s.heap /\ (More(s) => m.at = s.at + 1 /\ Token(m) = Ahead(s))
        /\ m.at \in Nat /\ s.at <= m.at /\ (~More(s) => m = s)
    BY <1>1, AlongAdvance
  <1>3. p.at \in Nat /\ s.at \in Nat /\ top \in Nat /\ p.at <= s.at /\ top <= s.at
    BY OnSpot
  <1>4. p.at <= m.at /\ top <= m.at
    <2> DEFINE x == p.at
               y == s.at
               z == m.at
    <2>1. x \in Nat /\ y \in Nat /\ z \in Nat /\ top \in Nat /\ x <= y /\ y <= z /\ top <= y
      BY <1>2, <1>3
    <2> HIDE DEF x, y, z
    <2>2. x <= z /\ top <= z
      BY <2>1
    <2> QED
      BY <2>2 DEF x, z
  <1> QED
    BY <1>1, <1>2, <1>4 DEF On

\* What a call from a token behind those that are held leaves.
Gone(toks, p, q, s, r, held) ==
    /\ On(toks, p, r, r, r.at, held \union {r.node}) /\ s.at < r.at
    /\ r.node \in Nat /\ (r.node # NullAst => r.node \notin held)

\* It calls another function for the next expression.
LEMMA OnCall ==
    ASSUME NEW toks, NEW p, NEW q, NEW s, NEW top, NEW held, On(toks, p, q, s, top, held), More(s),
           NEW below, Calling(toks, below), NEW level \in 1 .. FactorLevel,
           NEW r, r = below[level][Advance(s)]
    PROVE  r \in Parser(toks) /\ (Ok(r) => Gone(toks, p, q, s, r, held))
  <1> DEFINE m == Advance(s)
  <1>1. On(toks, p, q, m, top, held) /\ m.at = s.at + 1
    BY OnNext
  <1>2. Along(toks, p, q, m, Behind(p), top, held) /\ Begun(toks, p)
    BY <1>1 DEF On
  <1>3. /\ p.at \in Nat /\ s.at \in Nat /\ top \in Nat /\ p.at <= s.at /\ top <= s.at
        /\ Behind(p) \in Nat /\ Behind(p) = p.at + 1
    BY OnSpot
  <1>4. r = below[level][m]
    OBVIOUS
  <1> HIDE DEF m
  <1>5. Behind(p) <= m.at /\ top < m.at
    <2> DEFINE x == p.at
               y == s.at
               z == m.at
               u == Behind(p)
    <2>1. /\ x \in Nat /\ y \in Nat /\ top \in Nat /\ x <= y /\ z = y + 1 /\ top <= y
          /\ u = x + 1
      BY <1>1, <1>3
    <2> HIDE DEF x, y, z, u
    <2>2. u <= z /\ top < z
      BY <2>1
    <2> QED
      BY <2>2 DEF z, u
  <1>6. r \in Parser(toks) /\ (Ok(r) => Called(toks, p, q, m, r, Behind(p), held))
    BY <1>2, <1>4, <1>5, AlongCall
  <1>7. ASSUME Ok(r) PROVE Gone(toks, p, q, s, r, held)
    <2>1. /\ Along(toks, p, r, r, Behind(p), r.at, held \union {r.node})
          /\ r.at \in Nat /\ m.at <= r.at /\ r.node \in Nat
          /\ (r.node # NullAst => r.node \notin held)
      BY <1>6, <1>7 DEF Called
    <2>2. p.at <= r.at /\ r.at <= r.at /\ s.at < r.at
      <3> DEFINE x == p.at
                 y == s.at
                 z == m.at
                 u == r.at
      <3>1. x \in Nat /\ y \in Nat /\ u \in Nat /\ x <= y /\ z = y + 1 /\ z <= u
        BY <1>1, <1>3, <2>1
      <3> HIDE DEF x, y, z, u
      <3>2. x <= u /\ u <= u /\ y < u
        BY <3>1
      <3> QED
        BY <3>2 DEF x, y, u
    <2> QED
      BY <1>2, <2>1, <2>2 DEF Gone, On
  <1> QED
    BY <1>6, <1>7

\* It makes its node over all that it holds.
LEMMA OnMake ==
    ASSUME NEW toks, NEW p, NEW q, NEW m, NEW top, NEW held, NEW edges,
           On(toks, p, q, m, top, held), held = Ends(edges), ~Stuck(p),
           edges \in Seq(Nat), Distinct(edges),
           NEW kind, kind \in NodeKind, kind \notin {"UNIT", "UNKNOWN", "BINARY_OP"},
           Arity(NodeOf(kind, p.at, edges))
    PROVE  Hand(p, Make(m, kind, p.at, edges))
  <1>1. Begun(toks, p) /\ p.at <= m.at /\ top <= m.at
        /\ Along(toks, p, q, m, Behind(p), top, Ends(edges))
    BY DEF On
  <1>2. p.at <= Len(toks) /\ p.at < Behind(p)
    BY <1>1, BeginsAt
  <1> QED
    BY <1>1, <1>2, AlongMake

\* It gives up what it holds.
LEMMA OnFail ==
    ASSUME NEW toks, NEW p, NEW q, NEW s, NEW top, NEW held, On(toks, p, q, s, top, held), ~Stuck(p)
    PROVE  /\ Hand(p, Fail(s)) /\ Hand(p, Make(s, "UNKNOWN", 1, <<>>))
           /\ \A n \in Nat : Hand(p, [Fail(s) EXCEPT !.made = @ - n])
  <1>1. /\ Begun(toks, p) /\ p.at <= s.at /\ top <= s.at
        /\ Along(toks, p, q, s, Behind(p), top, held)
    BY DEF On
  <1>2. p.at <= Behind(p)
    BY <1>1, BeginsAt
  <1>3. Hand(p, Fail(s)) /\ \A n \in Nat : Hand(p, [Fail(s) EXCEPT !.made = @ - n])
    BY <1>1, <1>2, AlongNothing
  <1>4. Hand(p, Make(s, "UNKNOWN", 1, <<>>))
    BY <1>1, <1>2, AlongLost
  <1> QED
    BY <1>3, <1>4

-----------------------------------------------------------------------------
(* Constructs that begin with a word. *)

\* An if, with or without its else.
LEMMA IfWorks ==
    ASSUME NEW toks, NEW p, Begun(toks, p), Token(p) = "if", NEW below, Calling(toks, below)
    PROVE  Hand(p, If(below, p))
  <1> DEFINE cond == below[1][Advance(p)]
             then == Advance(cond)
             yes  == below[1][Advance(then)]
             else == Advance(yes)
             no   == below[1][Advance(else)]
             two   == <<cond.node, yes.node>>
             three == <<cond.node, yes.node, no.node>>
             kind == "IF_THEN_ELSE"
  <1>1. On(toks, p, p, p, p.at, {}) /\ Len(toks) \in Nat /\ p \in Parser(toks)
    BY OnStart
  <1>2. If(below, p) =
            IF ~More(p) THEN Fail(p)
            ELSE IF ~Ok(cond) THEN cond
            ELSE IF Ahead(cond) # "then" \/ ~More(then) THEN Fail(then)
            ELSE IF ~Ok(yes) THEN yes
            ELSE IF Ahead(yes) # "else" \/ ~More(else) THEN Make(else, kind, p.at, two)
            ELSE IF ~Ok(no) THEN no
            ELSE Make(no, kind, p.at, three)
    BY DEF If, Expression
  <1>3. ~Stuck(p)
    BY DEF Stuck, Signs
  <1>4. 1 \in 1 .. FactorLevel
    BY Levels
  <1>5. cond = below[1][Advance(p)] /\ yes = below[1][Advance(then)] /\ no = below[1][Advance(else)]
        /\ then = Advance(cond) /\ else = Advance(yes)
    OBVIOUS
  <1>6. two = <<cond.node, yes.node>> /\ three = <<cond.node, yes.node, no.node>>
    OBVIOUS
  <1>7. kind \in NodeKind /\ kind \notin {"UNIT", "UNKNOWN", "BINARY_OP"}
        /\ \A at, edges : Len(edges) \in {2, 3} => Arity(NodeOf(kind, at, edges))
    BY DEF NodeKind, NodeOf, Arity
  <1> HIDE DEF cond, then, yes, else, no, two, three, kind
  <1>8. CASE ~More(p)
    <2>1. Hand(p, Fail(p))
      BY <1>1, <1>3, OnFail
    <2> QED
      BY <1>2, <1>8, <2>1
  <1>9. CASE More(p)
    <2>1. cond \in Parser(toks) /\ (Ok(cond) => Gone(toks, p, p, p, cond, {}))
      BY <1>1, <1>4, <1>5, <1>9, OnCall
    <2>2. CASE ~Ok(cond)
      BY <1>1, <1>2, <1>9, <2>1, <2>2, EndedHand
    <2>3. CASE Ok(cond)
      <3>1. On(toks, p, cond, cond, cond.at, {} \union {cond.node}) /\ cond.node \in Nat
        BY <2>1, <2>3 DEF Gone
      <3>2. On(toks, p, cond, then, cond.at, {} \union {cond.node})
        BY <1>5, <3>1, OnNext
      <3>3. CASE Ahead(cond) # "then" \/ ~More(then)
        <4>1. Hand(p, Fail(then))
          BY <1>3, <3>2, OnFail
        <4> QED
          BY <1>2, <1>9, <2>3, <3>3, <4>1
      <3>4. CASE ~(Ahead(cond) # "then" \/ ~More(then))
        <4>1. yes \in Parser(toks) /\ (Ok(yes) => Gone(toks, p, cond, then, yes, {} \union {cond.node}))
          BY <1>4, <1>5, <3>2, <3>4, OnCall
        <4>2. CASE ~Ok(yes)
          BY <1>1, <1>2, <1>9, <2>3, <3>4, <4>1, <4>2, EndedHand
        <4>3. CASE Ok(yes)
          <5>1. /\ On(toks, p, yes, yes, yes.at, ({} \union {cond.node}) \union {yes.node})
                /\ yes.node \in Nat /\ (yes.node # NullAst => yes.node \notin {} \union {cond.node})
            BY <4>1, <4>3 DEF Gone
          <5>2. On(toks, p, yes, else, yes.at, ({} \union {cond.node}) \union {yes.node})
            BY <1>5, <5>1, OnNext
          <5>3. /\ two \in Seq(Nat) /\ Ends(two) = {cond.node, yes.node} /\ Distinct(two)
                /\ Len(two) = 2
            BY <1>6, <3>1, <5>1, TwoEnds
          <5>4. CASE Ahead(yes) # "else" \/ ~More(else)
            <6>1. ({} \union {cond.node}) \union {yes.node} = Ends(two)
              BY <5>3
            <6>2. Arity(NodeOf(kind, p.at, two))
              BY <1>7, <5>3
            <6>3. Hand(p, Make(else, kind, p.at, two))
              BY <1>3, <1>7, <5>2, <5>3, <6>1, <6>2, OnMake
            <6> QED
              BY <1>2, <1>9, <2>3, <3>4, <4>3, <5>4, <6>3
          <5>5. CASE ~(Ahead(yes) # "else" \/ ~More(else))
            <6> DEFINE held == ({} \union {cond.node}) \union {yes.node}
            <6>1. no \in Parser(toks) /\ (Ok(no) => Gone(toks, p, yes, else, no, held))
              BY <1>4, <1>5, <5>2, <5>5, OnCall
            <6>2. CASE ~Ok(no)
              BY <1>1, <1>2, <1>9, <2>3, <3>4, <4>3, <5>5, <6>1, <6>2, EndedHand
            <6>3. CASE Ok(no)
              <7>1. /\ On(toks, p, no, no, no.at, held \union {no.node})
                    /\ no.node \in Nat /\ (no.node # NullAst => no.node \notin held)
                BY <6>1, <6>3 DEF Gone
              <7>2. /\ three \in Seq(Nat) /\ Ends(three) = {cond.node, yes.node, no.node}
                    /\ Distinct(three) /\ Len(three) = 3
                BY <1>6, <3>1, <5>1, <7>1, ThreeEnds
              <7>3. held \union {no.node} = Ends(three)
                BY <7>2
              <7>4. Arity(NodeOf(kind, p.at, three))
                BY <1>7, <7>2
              <7> HIDE DEF held
              <7>5. Hand(p, Make(no, kind, p.at, three))
                BY <1>3, <1>7, <7>1, <7>2, <7>3, <7>4, OnMake
              <7> QED
                BY <1>2, <1>9, <2>3, <3>4, <4>3, <5>5, <6>3, <7>5
            <6> QED
              BY <6>2, <6>3
          <5> QED
            BY <5>4, <5>5
        <4> QED
          BY <4>2, <4>3
      <3> QED
        BY <3>3, <3>4
    <2> QED
      BY <2>2, <2>3
  <1> QED
    BY <1>8, <1>9

\* A while.
LEMMA WhileWorks ==
    ASSUME NEW toks, NEW p, Begun(toks, p), Token(p) = "while", NEW below, Calling(toks, below)
    PROVE  Hand(p, While(below, p))
  <1> DEFINE start == Advance(p)
             cond == below[1][start]
             do   == Advance(cond)
             next == Advance(do)
             body == below[1][next]
             two  == <<cond.node, body.node>>
             kind == "WHILE"
  <1>1. On(toks, p, p, p, p.at, {}) /\ Len(toks) \in Nat /\ p \in Parser(toks)
    BY OnStart
  <1>2. While(below, p) =
            IF ~Ok(cond) THEN cond
            ELSE IF ~More(cond) THEN Stop(cond, "undefined")
            ELSE IF Ahead(cond) # "do" THEN Fail(do)
            ELSE IF ~Ok(body) THEN body
            ELSE Make(body, kind, p.at, two)
    BY DEF While, Expression
  <1>4. 1 \in 1 .. FactorLevel
    BY Levels
  <1>5. start = Advance(p) /\ cond = below[1][start] /\ do = Advance(cond) /\ next = Advance(do)
        /\ body = below[1][next] /\ two = <<cond.node, body.node>>
    OBVIOUS
  <1>7. kind \in NodeKind /\ kind \notin {"UNIT", "UNKNOWN", "BINARY_OP"}
        /\ \A at, edges : Len(edges) = 2 => Arity(NodeOf(kind, at, edges))
    BY DEF NodeKind, NodeOf, Arity
  <1> HIDE DEF start, cond, do, next, body, two, kind
  \* A word that is the last token is never left.
  <1>8. ASSUME NEW s \in Parser(toks), Ready(s), ~More(s), Token(s) \in Signs, Ok(below[1][Advance(s)])
        PROVE  FALSE
    <2>1. Advance(s) = s
      BY <1>8 DEF Advance
    <2>2. Hand(s, below[1][s])
      BY <1>4, <1>8 DEF Calling
    <2> QED
      BY <1>8, <2>1, <2>2 DEF Hand, Stuck
  <1>9. start \in Parser(toks) /\ Ready(start)
    <2>1. On(toks, p, p, start, p.at, {})
      BY <1>1, <1>5, OnNext
    <2> QED
      BY <2>1, OnSpot
  <1>10. cond \in Parser(toks)
    BY <1>4, <1>5, <1>9, ParserParts DEF Calling, Hand, Parser
  <1>11. CASE ~Ok(cond)
    BY <1>1, <1>2, <1>10, <1>11, EndedHand
  <1>12. CASE Ok(cond)
    <2>1. More(p)
      BY <1>1, <1>5, <1>8, <1>12, OnSpot DEF Signs
    <2>2. ~Stuck(p)
      BY <2>1 DEF Stuck
    <2>3. Gone(toks, p, p, p, cond, {})
      BY <1>1, <1>4, <1>5, <1>12, <2>1, OnCall
    <2>4. On(toks, p, cond, cond, cond.at, {} \union {cond.node}) /\ cond.node \in Nat
      BY <2>3 DEF Gone
    <2>5. On(toks, p, cond, do, cond.at, {} \union {cond.node}) /\ (More(cond) => Token(do) = Ahead(cond))
      BY <1>5, <2>4, OnNext
    <2>6. CASE ~More(cond)
      BY <1>1, <1>2, <1>10, <1>12, <2>6, StopHand
    <2>7. CASE More(cond) /\ Ahead(cond) # "do"
      <3>1. Hand(p, Fail(do))
        BY <2>2, <2>5, OnFail
      <3> QED
        BY <1>2, <1>12, <2>7, <3>1
    <2>8. CASE More(cond) /\ Ahead(cond) = "do"
      <3>1. do \in Parser(toks) /\ Ready(do) /\ Token(do) \in Signs
        BY <2>5, <2>8, OnSpot DEF Signs
      <3>2. next \in Parser(toks) /\ Ready(next)
        <4>1. On(toks, p, cond, next, cond.at, {} \union {cond.node})
          BY <1>5, <2>5, OnNext
        <4> QED
          BY <4>1, OnSpot
      <3>3. body \in Parser(toks)
        BY <1>4, <1>5, <3>2, ParserParts DEF Calling, Hand, Parser
      <3>4. CASE ~Ok(body)
        BY <1>1, <1>2, <1>12, <2>8, <3>3, <3>4, EndedHand
      <3>5. CASE Ok(body)
        <4>1. More(do)
          BY <1>5, <1>8, <3>1, <3>5
        <4>2. Gone(toks, p, cond, do, body, {} \union {cond.node})
          BY <1>4, <1>5, <2>5, <3>5, <4>1, OnCall
        <4>3. /\ On(toks, p, body, body, body.at, ({} \union {cond.node}) \union {body.node})
              /\ body.node \in Nat /\ (body.node # NullAst => body.node \notin {} \union {cond.node})
          BY <4>2 DEF Gone
        <4>4. /\ two \in Seq(Nat) /\ Ends(two) = {cond.node, body.node} /\ Distinct(two)
              /\ Len(two) = 2
          BY <1>5, <2>4, <4>3, TwoEnds
        <4>5. ({} \union {cond.node}) \union {body.node} = Ends(two)
          BY <4>4
        <4>6. Arity(NodeOf(kind, p.at, two))
          BY <1>7, <4>4
        <4>7. Hand(p, Make(body, kind, p.at, two))
          BY <1>7, <2>2, <4>3, <4>4, <4>5, <4>6, OnMake
        <4> QED
          BY <1>2, <1>12, <2>8, <3>5, <4>7
      <3> QED
        BY <3>4, <3>5
    <2> QED
      BY <2>6, <2>7, <2>8
  <1> QED
    BY <1>11, <1>12

\* A leaf at a spot that is free.
Leaf(m, kind, at) == Make(m, kind, at, <<>>)
\* A leaf fits in where no other node is.
LeafFits(toks, p, q, low, top, left, end, kind, at) ==
    /\ left \in Nat /\ end \in Nat /\ left <= low /\ top <= end
    /\ kind \in {"LITERAL", "IDENTIFIER", "DECLARATION"}
    /\ at \in Nat /\ left <= at /\ at <= end /\ at <= Len(toks) /\ Free(p, q, at)

\* A leaf is made, and is held.
LEMMA AlongNode ==
    ASSUME NEW toks, NEW p, NEW q, NEW m, NEW low, NEW top, NEW held,
           Along(toks, p, q, m, low, top, held),
           NEW left, NEW end, NEW kind, NEW at,
           LeafFits(toks, p, q, low, top, left, end, kind, at),
           NEW r, r = Leaf(m, kind, at), Ok(r)
    PROVE  /\ Along(toks, p, r, r, left, end, held \union {r.node})
           /\ r.node \in Nat /\ r.node # NullAst /\ r.node \notin held /\ r.at = m.at
           /\ \A x \in Nat : x # at /\ Free(p, q, x) => Free(p, r, x)
  <1>a. /\ left \in Nat /\ end \in Nat /\ left <= low /\ top <= end
        /\ kind \in {"LITERAL", "IDENTIFIER", "DECLARATION"}
        /\ at \in Nat /\ left <= at /\ at <= end /\ at <= Len(toks) /\ Free(p, q, at)
    BY DEF LeafFits
  <1> USE <1>a
  <1>1. /\ Len(toks) \in Nat /\ p \in Parser(toks) /\ q \in Parser(toks) /\ m \in Parser(toks)
        /\ Ready(p) /\ Ready(m) /\ m.heap = q.heap /\ m.units = q.units /\ m.made = q.made
        /\ low \in Nat /\ top \in Nat /\ Grown(p, q, low, top, held)
    BY DEF Along
  <1>2. q.units <= m.units
    <2> DEFINE z == m.units
    <2>1. z \in Nat /\ q.units = z
      BY <1>1, ParserParts
    <2> HIDE DEF z
    <2>2. z <= z
      BY <2>1
    <2> QED
      BY <2>1, <2>2 DEF z
  <1> DEFINE none == <<>>
             node == NodeOf(kind, at, none)
             now  == Over(held, none, r.node)
  <1>3. /\ none \in Seq(Nat) /\ DOMAIN none = {} /\ r = Make(m, kind, at, none)
        /\ kind \in NodeKind /\ Arity(node) /\ node.kind = kind /\ node.at = at
    BY DEF NodeKind, Arity, NodeOf, Leaf
  <1>4. now = held \union {r.node}
    BY DEF Over
  <1>5. Len(p.heap) \in Nat /\ Len(q.heap) \in Nat /\ q.heap \in Seq(Node) /\ node \in Node
    BY <1>1, <1>3, ParserParts DEF NodeOf, Node
  <1> HIDE DEF none
  <1>6. Fits(toks, p, q, m, held, kind, at, none, left, end)
    <2>1. at \in left .. end
      OBVIOUS
    <2> QED
      BY <1>3, <2>1 DEF Fits
  <1>7. Stands(toks, p, q, m, low, top, left, end, held)
    BY <1>1, <1>2 DEF Stands
  <1>8. /\ r \in Parser(toks) /\ r.node = Len(q.heap) + 1 /\ r.heap = Append(q.heap, node)
        /\ Len(r.heap) = Len(q.heap) + 1 /\ r.at = m.at /\ Size(r) = Size(m)
        /\ Grown(p, r, left, end, now)
    <2>1. kind \in NodeKind /\ none \in Seq(Nat) /\ r = Make(m, kind, at, none)
      BY <1>3
    <2>2. Ok(Make(m, kind, at, none))
      BY <2>1
    <2>3. LET x == Make(m, kind, at, none)
          IN  /\ x \in Parser(toks) /\ x.node = Len(q.heap) + 1
              /\ x.heap = Append(q.heap, NodeOf(kind, at, none)) /\ Len(x.heap) = Len(q.heap) + 1
              /\ x.at = m.at /\ x.units = m.units /\ Size(x) = Size(m)
              /\ Grown(p, x, left, end, Over(held, none, x.node))
      <3> HIDE DEF now, node
      <3> QED
        BY <1>6, <1>7, <2>1, <2>2, GrownMake
    <2> QED
      BY <2>1, <2>3
  <1> HIDE DEF node, now
  <1>9. Ready(r)
    BY <1>1, <1>8 DEF Ready
  <1>10. Along(toks, p, r, r, left, end, held \union {r.node})
    BY <1>1, <1>4, <1>8, <1>9 DEF Along
  <1>11. r.node \in Nat /\ r.node # NullAst /\ r.node \notin held
    <2>1. held \subseteq 0 .. Len(q.heap)
      BY <1>1, HeldBelow
    <2> DEFINE l == Len(q.heap)
               x == r.node
    <2>2. l \in Nat /\ x = l + 1 /\ held \subseteq 0 .. l
      BY <1>5, <1>8, <2>1
    <2> HIDE DEF l, x
    <2>3. x \in Nat /\ x # NullAst /\ x \notin 0 .. l
      BY <2>2 DEF NullAst
    <2> QED
      BY <2>2, <2>3 DEF x
  <1>12. ASSUME NEW x \in Nat, x # at, Free(p, q, x) PROVE Free(p, r, x)
    <2> SUFFICES ASSUME NEW n \in Len(p.heap) + 1 .. Len(r.heap), Normal(r.heap[n])
                 PROVE  r.heap[n].at # x
      BY DEF Free
    <2>1. Len(p.heap) <= Len(q.heap)
      BY <1>1, HeldBelow
    <2>2. /\ r.heap[Len(q.heap) + 1] = node
          /\ \A k \in Len(p.heap) + 1 .. Len(q.heap) : r.heap[k] = q.heap[k]
          /\ n \in Len(p.heap) + 1 .. Len(q.heap) \/ n = Len(q.heap) + 1
      BY <1>5, <1>8, <2>1, Appended
    <2>3. CASE n = Len(q.heap) + 1
      BY <1>3, <1>12, <2>2, <2>3
    <2>4. CASE n \in Len(p.heap) + 1 .. Len(q.heap)
      BY <1>12, <2>2, <2>4 DEF Free
    <2> QED
      BY <2>2, <2>3, <2>4
  <1> QED
    BY <1>8, <1>10, <1>11, <1>12

\* A var, with or without its type.
LEMMA VarWorks ==
    ASSUME NEW toks, NEW p, Begun(toks, p), Token(p) = "var", NEW below, Calling(toks, below)
    PROVE  Hand(p, Var(below, p))
  <1> DEFINE name  == Advance(p)
             typed == Ahead(name) = ":"
             sign  == name.at + (IF typed THEN 3 ELSE 1)
             last  == [name EXCEPT !.at = Size(p)]
             eq    == [name EXCEPT !.at = sign]
             start == Advance(eq)
             value == below[1][start]
             word  == Name(name)
             left  == Make(value, word, name.at, <<>>)
             spot  == name.at + 2
             type  == Make(left, "DECLARATION", spot, <<>>)
             two   == <<left.node, value.node>>
             three == Append(two, type.node)
             kind  == "VAR_EXPR"
  <1>1. On(toks, p, p, p, p.at, {}) /\ Len(toks) \in Nat /\ p \in Parser(toks)
    BY OnStart
  <1>2. Var(below, p) =
            IF ~More(p) \/ Kind(Token(name)) # "identifier" THEN Fail(name)
            ELSE IF ~More(name) THEN Stop(name, "undefined")
            ELSE IF sign > Size(p) THEN Fail(last)
            ELSE IF Token(eq) # "=" THEN Fail(eq)
            ELSE IF ~Ok(value) THEN value
            ELSE IF typed THEN Make(type, kind, p.at, three)
            ELSE Make(left, kind, p.at, two)
    BY DEF Var, Expression
  <1>3. ~Stuck(p)
    BY DEF Stuck, Signs
  <1>4. 1 \in 1 .. FactorLevel
    BY Levels
  <1>5. /\ name = Advance(p) /\ last = [name EXCEPT !.at = Size(p)] /\ eq = [name EXCEPT !.at = sign]
        /\ start = Advance(eq) /\ value = below[1][start]
        /\ left = Make(value, word, name.at, <<>>) /\ type = Make(left, "DECLARATION", spot, <<>>)
    OBVIOUS
  <1>6. two = <<left.node, value.node>> /\ three = Append(two, type.node)
    OBVIOUS
  <1>7. /\ kind \in NodeKind /\ kind \notin {"UNIT", "UNKNOWN", "BINARY_OP"}
        /\ \A at : \A edges : Len(edges) \in {2, 3} /\ edges[1] # NullAst => Arity(NodeOf(kind, at, edges))
        /\ word \in {"LITERAL", "IDENTIFIER"} /\ "DECLARATION" \in NodeKind /\ word \in NodeKind
    BY DEF NodeKind, NodeOf, Arity, Name
  <1>8. On(toks, p, p, name, p.at, {}) /\ name \in Parser(toks) /\ (More(p) => name.at = p.at + 1)
    BY <1>1, OnNext
  <1>9. /\ name.at \in Nat /\ p.at \in Nat /\ Size(p) \in Nat /\ p.at >= 1 /\ p.at <= Size(p)
        /\ name.heap = p.heap /\ name.units = p.units /\ name.made = p.made
        /\ name.toks = toks /\ p.toks = toks /\ Ok(name)
    <2>1. name.at \in Nat /\ p.at \in Nat /\ Ready(name)
          /\ name.heap = p.heap /\ name.units = p.units /\ name.made = p.made
      BY <1>8, OnSpot
    <2>2. Along(toks, p, p, p, Behind(p), p.at, {})
      BY <1>1 DEF On
    <2>3. p.at >= 1 /\ p.at <= Size(p) /\ Size(p) \in Nat
      BY <2>2, AlongSpot
    <2> QED
      BY <1>1, <1>8, <2>1, <2>3, ParserParts DEF Ready
  <1>10. sign \in Nat /\ sign >= name.at + 1 /\ spot \in Nat /\ spot = name.at + 2
         /\ (typed => sign = spot + 1)
    <2> DEFINE x == name.at
    <2>1. x \in Nat
      BY <1>9
    <2> HIDE DEF name
    <2> QED
      BY <2>1
  <1>11. \A m \in Parser(toks) : Ready(m) /\ m.heap = name.heap /\ m.units = name.units /\ m.made = name.made
             => \A low, top \in Nat : Along(toks, p, p, m, low, top, {})
    <2>1. Ready(p)
      BY <1>1, OnSpot
    <2> QED
      BY <1>1, <1>9, <2>1, AlongStart DEF Same
  <1> HIDE DEF name, typed, sign, last, eq, start, value, word, left, spot, type, two, three, kind
  <1>12. CASE ~More(p) \/ Kind(Token(name)) # "identifier"
    <2>1. Hand(p, Fail(name))
      BY <1>3, <1>8, OnFail
    <2> QED
      BY <1>2, <1>12, <2>1
  <1>13. CASE ~(~More(p) \/ Kind(Token(name)) # "identifier") /\ ~More(name)
    BY <1>1, <1>2, <1>8, <1>13, StopHand
  <1>14. CASE ~(~More(p) \/ Kind(Token(name)) # "identifier") /\ More(name) /\ sign > Size(p)
    <2>1. /\ last \in Parser(toks) /\ last.at = Size(p) /\ last.heap = name.heap
          /\ last.units = name.units /\ last.made = name.made /\ last.end = name.end
          /\ last.toks = name.toks
      BY <1>1, <1>5, <1>8, <1>9, Moved
    <2>2. Ready(last)
      <3>1. Size(last) = Size(p)
        BY <1>9, <2>1 DEF Size
      <3>2. Size(p) \in 1 .. Size(p)
        <4> DEFINE x == Size(p)
                   y == p.at
        <4>1. x \in Nat /\ y \in Nat /\ y >= 1 /\ y <= x
          BY <1>9
        <4> HIDE DEF x, y
        <4>2. x \in 1 .. x
          BY <4>1
        <4> QED
          BY <4>2 DEF x
      <3> QED
        BY <1>9, <2>1, <3>1, <3>2 DEF Ready, Ok
    <2>3. Along(toks, p, p, last, p.at, p.at, {})
      BY <1>9, <1>11, <2>1, <2>2
    <2>4. p.at <= p.at /\ p.at <= last.at
      BY <1>9, <2>1
    <2>5. Hand(p, Fail(last))
      BY <1>3, <2>3, <2>4, AlongNothing
    <2> QED
      BY <1>2, <1>14, <2>5
  <1>15. CASE ~(~More(p) \/ Kind(Token(name)) # "identifier") /\ More(name) /\ ~(sign > Size(p))
    <2>0. name.at = p.at + 1
      BY <1>8, <1>15
    <2>1. /\ eq \in Parser(toks) /\ eq.at = sign /\ eq.heap = name.heap
          /\ eq.units = name.units /\ eq.made = name.made /\ eq.end = name.end
          /\ eq.toks = name.toks
      BY <1>1, <1>5, <1>8, <1>10, Moved
    <2>2. Ready(eq)
      <3>1. Size(eq) = Size(p)
        BY <1>9, <2>1 DEF Size
      <3>2. sign \in 1 .. Size(p)
        <4> DEFINE x == Size(p)
                   y == name.at
        <4>1. x \in Nat /\ y \in Nat /\ sign \in Nat /\ sign >= y + 1 /\ ~(sign > x)
          BY <1>9, <1>10, <1>15
        <4> HIDE DEF x, y
        <4>2. sign \in 1 .. x
          BY <4>1
        <4> QED
          BY <4>2 DEF x
      <3> QED
        BY <1>9, <2>1, <3>1, <3>2 DEF Ready, Ok
    <2>3. p.at <= eq.at /\ p.at <= p.at /\ p.at < name.at
      <3> DEFINE x == p.at
                 y == name.at
      <3>1. x \in Nat /\ y = x + 1 /\ eq.at = sign /\ sign \in Nat /\ sign >= y + 1
        BY <1>9, <1>10, <2>0, <2>1
      <3> HIDE DEF x, y
      <3>2. x <= sign /\ x <= x /\ x < y
        BY <3>1
      <3> QED
        BY <3>1, <3>2 DEF x, y
    <2>4. Along(toks, p, p, eq, p.at, p.at, {})
      BY <1>9, <1>11, <2>1, <2>2
    <2>5. CASE Token(eq) # "="
      <3>1. Hand(p, Fail(eq))
        BY <1>3, <2>3, <2>4, AlongNothing
      <3> QED
        BY <1>2, <1>15, <2>5, <3>1
    <2>6. CASE Token(eq) = "="
      <3>1. /\ start \in Parser(toks) /\ Ready(start) /\ start.heap = eq.heap
            /\ start.units = eq.units /\ start.made = eq.made
            /\ (More(eq) => start.at = eq.at + 1) /\ (~More(eq) => start = eq)
        BY <1>1, <1>5, <2>1, <2>2, Advanced
      <3>2. Hand(start, value)
        BY <1>4, <1>5, <3>1 DEF Calling
      <3>3. value \in Parser(toks)
        BY <1>1, <3>1, <3>2, ParserParts DEF Hand
      <3>4. CASE ~Ok(value)
        BY <1>1, <1>2, <1>15, <2>6, <3>3, <3>4, EndedHand
      <3>5. CASE Ok(value)
        <4>1. More(eq)
          BY <2>6, <3>1, <3>2, <3>5 DEF Hand, Stuck, Signs
        <4> DEFINE low == sign + 1
        <4>2. start.at = low /\ low \in Nat
          BY <1>10, <2>1, <3>1, <4>1
        <4>3. /\ low <= start.at /\ p.at < start.at /\ p.at < name.at /\ name.at < low
              /\ name.at <= low /\ name.at <= start.at
              /\ (typed => spot < low /\ name.at <= spot /\ spot <= start.at /\ spot # name.at
                           /\ spot <= sign)
          <5> DEFINE x == p.at
                     y == name.at
                     z == start.at
          <5>1. /\ x \in Nat /\ y = x + 1 /\ sign \in Nat /\ sign >= y + 1 /\ spot = y + 2
                /\ (typed => sign = spot + 1) /\ z = low
            BY <1>9, <1>10, <2>0, <4>2
          <5> HIDE DEF x, y, z
          <5>2. low <= z /\ x < z /\ x < y /\ y < low /\ y <= low /\ y <= z
            BY <5>1
          <5>3. typed => spot < low /\ y <= spot /\ spot <= z /\ spot # y /\ spot <= sign
            BY <5>1
          <5> QED
            BY <5>2, <5>3 DEF x, y, z
        <4>4. name.at <= Len(toks) /\ sign <= Len(toks)
          <5>1. Token(name) # UnitToken
            BY <1>15 DEF Kind
          <5>2. Token(eq) # UnitToken
            BY <2>6 DEF UnitToken
          <5> QED
            BY <1>1, <1>8, <2>1, <5>1, <5>2, Given
        <4> HIDE DEF low
        <4>5. Along(toks, p, p, start, low, p.at, {})
          BY <1>9, <1>11, <2>1, <3>1, <4>2
        <4>6. Called(toks, p, p, start, value, low, {})
          BY <1>4, <1>5, <3>5, <4>3, <4>5, AlongCall
        <4>7. /\ Along(toks, p, value, value, low, value.at, {} \union {value.node})
              /\ value.at \in Nat /\ start.at <= value.at /\ value.node \in Nat
          BY <4>6 DEF Called
        <4>8. name.at <= value.at /\ p.at <= value.at /\ value.at <= value.at
              /\ (typed => spot <= value.at /\ spot <= Len(toks))
          <5> DEFINE x == p.at
                     y == name.at
                     z == start.at
                     u == value.at
                     l == Len(toks)
          <5>1. /\ x \in Nat /\ y \in Nat /\ z \in Nat /\ u \in Nat /\ spot \in Nat /\ sign \in Nat
                /\ l \in Nat /\ z <= u /\ x < z /\ y <= z /\ sign <= l
                /\ (typed => spot <= z /\ spot <= sign)
            BY <1>1, <1>9, <1>10, <4>2, <4>3, <4>4, <4>7
          <5> HIDE DEF x, y, z, u, l
          <5>2. y <= u /\ x <= u /\ u <= u /\ (typed => spot <= u /\ spot <= l)
            BY <5>1
          <5> QED
            BY <5>2 DEF x, y, u, l
        <4>9. /\ p \in Parser(toks) /\ Grown(p, value, low, value.at, {} \union {value.node})
          BY <4>7 DEF Along
        <4>10. Free(p, value, name.at) /\ (typed => Free(p, value, spot))
          BY <1>1, <1>9, <1>10, <3>3, <4>2, <4>3, <4>7, <4>9, FreeBelow
        <4>11. left \in Parser(toks)
          BY <1>1, <1>5, <1>7, <1>9, <3>3, NoEdges, MakeIs
        <4>12. two \in Seq(Nat) /\ type \in Parser(toks) /\ type.node \in Nat /\ left.node \in Nat
               /\ (Ok(type) => Ok(left))
          <5>1. left.node \in Nat
            BY <1>1, <4>11, ParserParts
          <5>2. type \in Parser(toks) /\ (Ok(type) => Ok(left))
            BY <1>1, <1>5, <1>7, <1>10, <4>11, NoEdges, MakeIs
          <5>3. type.node \in Nat
            BY <1>1, <5>2, ParserParts
          <5> QED
            BY <1>6, <4>7, <5>1, <5>2, <5>3
        <4>13. three \in Seq(Nat)
          BY <1>6, <4>12
        <4>14. CASE ~Ok(left)
          <5>1. /\ Make(left, kind, p.at, two) \in Parser(toks)
                /\ ~Ok(Make(left, kind, p.at, two))
            BY <1>1, <1>7, <1>9, <4>11, <4>12, <4>14, MakeIs
          <5>2. /\ Make(type, kind, p.at, three) \in Parser(toks)
                /\ ~Ok(Make(type, kind, p.at, three))
            BY <1>1, <1>7, <1>9, <4>12, <4>13, <4>14, MakeIs
          <5>3. Hand(p, Make(left, kind, p.at, two)) /\ Hand(p, Make(type, kind, p.at, three))
            BY <1>1, <5>1, <5>2, EndedHand
          <5> QED
            BY <1>2, <1>15, <2>6, <3>5, <5>3
        <4>15. CASE Ok(left)
          <5> DEFINE held == {} \union {value.node}
          <5>1. /\ Along(toks, p, left, left, name.at, value.at, held \union {left.node})
                /\ left.node \in Nat /\ left.node # NullAst /\ left.node \notin held
                /\ left.at = value.at
                /\ \A x \in Nat : x # name.at /\ Free(p, value, x) => Free(p, left, x)
            <6>1. name.at <= low /\ name.at <= name.at /\ word \in {"LITERAL", "IDENTIFIER", "DECLARATION"}
              BY <1>7, <1>9, <4>3
            <6> HIDE DEF held
            <6>2. Along(toks, p, value, value, low, value.at, held)
              BY <4>7 DEF held
            <6>3. LeafFits(toks, p, value, low, value.at, name.at, value.at, word, name.at)
              BY <1>9, <4>4, <4>7, <4>8, <4>10, <6>1 DEF LeafFits
            <6>4. left = Leaf(value, word, name.at)
              BY <1>5 DEF Leaf
            <6> QED
              BY <4>15, <6>2, <6>3, <6>4, AlongNode
          <5>2. /\ two \in Seq(Nat) /\ Ends(two) = {left.node, value.node} /\ Distinct(two)
                /\ Len(two) = 2 /\ two[1] # NullAst
            <6>1. value.node # NullAst => value.node # left.node
              BY <5>1
            <6>2. two[1] = left.node
              BY <1>6
            <6> QED
              BY <1>6, <4>7, <5>1, <6>1, <6>2, TwoEnds
          <5>3. held \union {left.node} = Ends(two)
            BY <5>2
          <5> HIDE DEF held
          <5>4. CASE ~typed
            <6>1. Arity(NodeOf(kind, p.at, two))
              BY <1>7, <5>2
            <6>2. p.at <= left.at /\ value.at <= left.at
              BY <4>8, <5>1
            <6>3. p.at <= Len(toks)
              BY BeginsAt
            <6>4. Along(toks, p, left, left, name.at, value.at, Ends(two))
              BY <5>1, <5>3
            <6>5. Hand(p, Make(left, kind, p.at, two))
              BY <1>3, <1>7, <4>3, <5>2, <6>1, <6>2, <6>3, <6>4, AlongMake
            <6> QED
              BY <1>2, <1>15, <2>6, <3>5, <5>4, <6>5
          <5>5. CASE typed
            <6>1. CASE ~Ok(type)
              <7>1. /\ Make(type, kind, p.at, three) \in Parser(toks)
                    /\ ~Ok(Make(type, kind, p.at, three))
                BY <1>1, <1>7, <1>9, <4>12, <4>13, <6>1, MakeIs
              <7> QED
                BY <1>1, <1>2, <1>15, <2>6, <3>5, <5>5, <7>1, EndedHand
            <6>2. CASE Ok(type)
              <7>1. /\ Along(toks, p, type, type, name.at, value.at, Ends(two) \union {type.node})
                    /\ type.node \in Nat /\ type.node \notin Ends(two) /\ type.at = left.at
                <8>1. Along(toks, p, left, left, name.at, value.at, Ends(two))
                  BY <5>1, <5>3
                <8>2. Free(p, left, spot)
                  BY <1>10, <4>3, <4>10, <5>1, <5>5
                <8>3. /\ name.at <= name.at /\ value.at <= value.at /\ name.at <= spot
                      /\ spot <= value.at /\ spot <= Len(toks)
                  BY <1>9, <4>3, <4>8, <5>5
                <8>4. LeafFits(toks, p, left, name.at, value.at, name.at, value.at, "DECLARATION", spot)
                  BY <1>9, <1>10, <4>7, <8>2, <8>3 DEF LeafFits
                <8>5. type = Leaf(left, "DECLARATION", spot)
                  BY <1>5 DEF Leaf
                <8> QED
                  BY <6>2, <8>1, <8>4, <8>5, AlongNode
              <7>2. /\ three \in Seq(Nat) /\ Len(three) = 3 /\ Distinct(three)
                    /\ Ends(three) = Ends(two) \union {type.node}
                <8>1. two \in Seq(Nat) /\ Distinct(two) /\ type.node \in Nat /\ type.node \notin Ends(two)
                      /\ Len(two) = 2 /\ three = Append(two, type.node)
                  BY <1>6, <5>2, <7>1
                <8>2. LET all == Append(two, type.node)
                      IN  /\ all \in Seq(Nat) /\ Len(all) = Len(two) + 1
                          /\ Ends(all) = Ends(two) \union {type.node} /\ Distinct(all)
                  BY <8>1, OneMore
                <8> QED
                  BY <8>1, <8>2
              <7>3. three[1] # NullAst
                <8>1. two \in Seq(Nat) /\ Len(two) = 2 /\ two[1] # NullAst
                      /\ three = Append(two, type.node)
                  BY <1>6, <5>2
                <8> QED
                  BY <8>1
              <7>4. Arity(NodeOf(kind, p.at, three))
                BY <1>7, <7>2, <7>3
              <7>5. p.at <= type.at /\ value.at <= type.at
                BY <4>8, <5>1, <7>1
              <7>6. p.at <= Len(toks)
                BY BeginsAt
              <7>7. Along(toks, p, type, type, name.at, value.at, Ends(three))
                BY <7>1, <7>2
              <7>8. Hand(p, Make(type, kind, p.at, three))
                BY <1>3, <1>7, <4>3, <7>2, <7>4, <7>5, <7>6, <7>7, AlongMake
              <7> QED
                BY <1>2, <1>15, <2>6, <3>5, <5>5, <7>8
            <6> QED
              BY <6>1, <6>2
          <5> QED
            BY <5>4, <5>5
        <4> QED
          BY <4>14, <4>15
      <3> QED
        BY <3>4, <3>5
    <2> QED
      BY <2>5, <2>6
  <1> QED
    BY <1>12, <1>13, <1>14, <1>15

\* Tokens are passed over.
LEMMA OnJump ==
    ASSUME NEW toks, NEW p, NEW q, NEW s, NEW top, NEW held, On(toks, p, q, s, top, held),
           NEW x \in Nat, s.at <= x, x <= Size(s), NEW m, m = [s EXCEPT !.at = x]
    PROVE  On(toks, p, q, m, top, held) /\ m \in Parser(toks) /\ m.at = x
  <1>1. /\ s \in Parser(toks) /\ Ready(s) /\ p.at \in Nat /\ s.at \in Nat /\ top \in Nat
        /\ p.at <= s.at /\ top <= s.at /\ Len(toks) \in Nat
    BY OnSpot
  <1>2. /\ m \in Parser(toks) /\ m.at = x /\ m.heap = s.heap /\ m.units = s.units
        /\ m.made = s.made /\ m.end = s.end /\ m.node = s.node /\ m.toks = s.toks
    BY <1>1, Moved
  <1>3. Size(s) \in Nat /\ s.at \in 1 .. Size(s) /\ Size(m) = Size(s)
    BY <1>1, <1>2, ParserParts DEF Ready, Size
  <1>4. x \in 1 .. Size(m) /\ p.at <= x /\ top <= x
    <2> DEFINE u == Size(s)
               y == s.at
               z == p.at
    <2>1. u \in Nat /\ y \in Nat /\ z \in Nat /\ top \in Nat /\ y \in 1 .. u /\ y <= x /\ x <= u
          /\ z <= y /\ top <= y
      BY <1>1, <1>3
    <2> HIDE DEF u, y, z
    <2>2. x \in 1 .. u /\ z <= x /\ top <= x
      BY <2>1
    <2> QED
      BY <1>3, <2>2 DEF u, z
  <1>5. Ready(m)
    BY <1>1, <1>2, <1>4 DEF Ready, Ok
  <1>6. Along(toks, p, q, s, Behind(p), top, held) /\ Begun(toks, p)
    BY DEF On
  <1>7. Along(toks, p, q, m, Behind(p), top, held)
    BY <1>2, <1>5, <1>6, AlongMove DEF Same
  <1> QED
    BY <1>2, <1>4, <1>6, <1>7 DEF On

\* The unit of a block, whose token goes behind all others.
Widened(s) == [s EXCEPT !.units = @ + 1, !.at = @ + 1]
UnitBehind(s) == Make(Widened(s), "UNIT", Size(s) + 1, <<>>)

\* The unit is made, and is held.
LEMMA OnUnit ==
    ASSUME NEW toks, NEW p, NEW q, NEW s, NEW top, NEW held, On(toks, p, q, s, top, held), More(s),
           NEW r, r = UnitBehind(s)
    PROVE  /\ r \in Parser(toks)
           /\ Ok(r) => /\ On(toks, p, r, r, r.at, held \union {r.node})
                       /\ r.node \in Nat /\ r.node \notin held
  <1> DEFINE m == Widened(s)
  <1>1. /\ s \in Parser(toks) /\ Ready(s) /\ p.at \in Nat /\ s.at \in Nat /\ top \in Nat
        /\ p.at <= s.at /\ top <= s.at /\ Len(toks) \in Nat /\ q \in Parser(toks)
        /\ p \in Parser(toks) /\ s.heap = q.heap /\ s.units = q.units /\ s.made = q.made
        /\ Grown(p, q, Behind(p), top, held) /\ Behind(p) \in Nat
    BY OnSpot
  <1>2. s.units \in Nat /\ s.toks = toks /\ q.toks = toks /\ Size(s) \in Nat
    BY <1>1, ParserParts
  <1>3. /\ m \in Parser(toks) /\ m.at = s.at + 1 /\ m.heap = s.heap /\ m.units = s.units + 1
        /\ m.made = s.made /\ m.end = s.end /\ m.toks = s.toks
    <2> DEFINE x == s.units + 1
               y == s.at + 1
    <2>1. x \in Nat /\ y \in Nat /\ m = [s EXCEPT !.units = x, !.at = y]
      BY <1>1, <1>2 DEF Widened
    <2> HIDE DEF x, y, m
    <2>2. /\ m \in Parser(toks) /\ m.at = y /\ m.heap = s.heap /\ m.units = x
          /\ m.made = s.made /\ m.end = s.end /\ m.toks = s.toks
      BY <1>1, <2>1 DEF Parser
    <2> QED
      BY <2>2 DEF x, y
  <1> HIDE DEF m
  <1>4. /\ Size(m) = Size(s) + 1 /\ Size(q) = Size(s) /\ m.at \in Nat /\ s.at < Size(s)
        /\ Size(m) = Len(toks) + m.units
    <2> DEFINE l == Len(toks)
               u == s.units
    <2>1. Size(m) = l + m.units /\ Size(s) = l + u /\ Size(q) = l + u /\ m.units = u + 1
          /\ l \in Nat /\ u \in Nat
      BY <1>1, <1>2, <1>3 DEF Size
    <2> HIDE DEF l, u
    <2>2. Size(m) = Size(s) + 1 /\ Size(q) = Size(s)
      BY <2>1
    <2>3. m.at \in Nat
      BY <1>1, <1>3
    <2> QED
      BY <2>1, <2>2, <2>3 DEF More, l
  <1> DEFINE at == Size(s) + 1
             none == <<>>
             unit == "UNIT"
  <1>5. at \in Nat /\ none \in Seq(Nat) /\ DOMAIN none = {} /\ unit \in NodeKind /\ unit = "UNIT"
        /\ r = Make(m, unit, at, none) /\ Arity(NodeOf(unit, at, none)) /\ at = Size(s) + 1
    <2>1. r = Make(m, unit, at, none)
      BY DEF UnitBehind, m
    <2>2. at \in Nat /\ at = Size(s) + 1
      BY <1>2
    <2> HIDE DEF at, m
    <2>3. none \in Seq(Nat) /\ DOMAIN none = {} /\ unit \in NodeKind /\ unit = "UNIT"
      BY DEF NodeKind
    <2>4. Arity(NodeOf(unit, at, none))
      BY DEF Arity, NodeOf
    <2> QED
      BY <2>1, <2>2, <2>3, <2>4
  <1> HIDE DEF at, none, unit
  <1>6. r \in Parser(toks)
    <2>1. unit \in NodeKind /\ at \in Nat /\ none \in Seq(Nat) /\ m \in Parser(toks)
          /\ Len(toks) \in Nat
      BY <1>1, <1>3, <1>5
    <2>2. Make(m, unit, at, none) \in Parser(toks)
      BY <2>1, MakeIs
    <2> QED
      BY <1>5, <2>2
  <1>7. ASSUME Ok(r)
        PROVE  On(toks, p, r, r, r.at, held \union {r.node}) /\ r.node \in Nat /\ r.node \notin held
    <2>1. q.units <= m.units /\ top <= m.at /\ Behind(p) <= Behind(p) /\ p.at <= m.at
      <3> DEFINE u == q.units
                 x == s.at
                 y == p.at
                 z == Behind(p)
      <3>1. u \in Nat /\ m.units = u + 1 /\ x \in Nat /\ y \in Nat /\ z \in Nat /\ top \in Nat
            /\ top <= x /\ m.at = x + 1 /\ y <= x
        BY <1>1, <1>2, <1>3
      <3> HIDE DEF u, x, y, z
      <3>2. u <= m.units /\ top <= m.at /\ z <= z /\ y <= m.at
        BY <3>1
      <3> QED
        BY <3>2 DEF u, y, z
    <2>2. Stands(toks, p, q, m, Behind(p), top, Behind(p), m.at, held)
      BY <1>1, <1>3, <1>4, <2>1 DEF Stands
    <2>3. at \in Size(q) + 1 .. Size(m)
      BY <1>2, <1>4, <1>5
    <2>4. Fits(toks, p, q, m, held, unit, at, none, Behind(p), m.at)
      BY <1>5, <2>3 DEF Fits
    <2>5. Ok(Make(m, unit, at, none))
      BY <1>5, <1>7
    <2>6. LET x == Make(m, unit, at, none)
          IN  /\ x \in Parser(toks) /\ x.node = Len(q.heap) + 1
              /\ x.heap = Append(q.heap, NodeOf(unit, at, none)) /\ Len(x.heap) = Len(q.heap) + 1
              /\ x.at = m.at /\ x.units = m.units /\ Size(x) = Size(m)
              /\ Grown(p, x, Behind(p), m.at, Over(held, none, x.node))
      <3>1. unit \in NodeKind /\ at \in Nat /\ none \in Seq(Nat)
        BY <1>5
      <3> QED
        BY <2>2, <2>4, <2>5, <3>1, GrownMake
    <2>7. r.node = Len(q.heap) + 1 /\ r.at = m.at /\ Size(r) = Size(m)
          /\ Grown(p, r, Behind(p), m.at, held \union {r.node})
      <3>1. Over(held, none, r.node) = held \union {r.node}
        BY <1>5 DEF Over
      <3> QED
        BY <1>5, <2>6, <3>1
    <2>8. Ready(r)
      <3> DEFINE x == s.at
                 y == Size(s)
      <3>1. x \in Nat /\ y \in Nat /\ x < y /\ r.at = x + 1 /\ Size(r) = y + 1
        BY <1>1, <1>2, <1>3, <1>4, <2>7
      <3> HIDE DEF x, y
      <3>2. r.at \in 1 .. Size(r)
        BY <3>1
      <3> QED
        BY <1>7, <3>2 DEF Ready
    <2>9. Begun(toks, p) /\ Ready(p)
      BY DEF On, Begun
    <2>10. Along(toks, p, r, r, Behind(p), r.at, held \union {r.node})
      BY <1>1, <1>4, <1>6, <2>7, <2>8, <2>9 DEF Along
    <2>11. r.at <= r.at
      BY <1>4, <2>7
    <2>12. On(toks, p, r, r, r.at, held \union {r.node})
      BY <2>1, <2>7, <2>9, <2>10, <2>11 DEF On
    <2>13. r.node \in Nat /\ r.node \notin held
      <3>1. held \subseteq 0 .. Len(q.heap)
        BY <1>1, HeldBelow
      <3>2. Len(q.heap) \in Nat
        BY <1>1, ParserParts
      <3> DEFINE l == Len(q.heap)
                 x == r.node
      <3>3. l \in Nat /\ x = l + 1 /\ held \subseteq 0 .. l
        BY <2>7, <3>1, <3>2
      <3> HIDE DEF l, x
      <3>4. x \in Nat /\ x \notin 0 .. l
        BY <3>3
      <3> QED
        BY <3>3, <3>4 DEF x
    <2> QED
      BY <2>12, <2>13
  <1> QED
    BY <1>6, <1>7

-----------------------------------------------------------------------------
(* Loops that collect edges. *)

\* The loop goes on behind the token at s, with the edges it has collected.
Keeps(toks, p, loop) ==
    /\ loop \in Collecting(toks)
    /\ loop.going =>
          /\ Distinct(loop.edges)
          /\ \E q, s, top : /\ On(toks, p, q, s, top, Ends(loop.edges)) /\ More(s)
                            /\ loop.parser = Advance(s)
    /\ ~loop.going => Hand(p, loop.parser)

\* The parts of such a loop, and how it ends.
LEMMA LoopParts ==
    ASSUME NEW toks, NEW p, NEW loop, Keeps(toks, p, loop), Len(toks) \in Nat, p.toks = toks
    PROVE  /\ loop.parser \in Parser(toks) /\ loop.edges \in Seq(Nat) /\ loop.going \in BOOLEAN
           /\ \A r : Hand(p, r) => Keeps(toks, p, Done(loop, r))
           /\ \A r, edges : /\ loop.going /\ r \in Parser(toks) /\ edges \in Seq(Nat)
                            /\ Distinct(edges)
                            /\ \E q, s, top : /\ On(toks, p, q, s, top, Ends(edges)) /\ More(s)
                                              /\ r = Advance(s)
                            => Keeps(toks, p, [loop EXCEPT !.parser = r, !.edges = edges])
  <1>1. loop \in Collecting(toks)
    BY DEF Keeps
  <1>2. loop.parser \in Parser(toks) /\ loop.edges \in Seq(Nat) /\ loop.going \in BOOLEAN
    BY <1>1 DEF Collecting
  <1>3. ASSUME NEW r, Hand(p, r) PROVE Keeps(toks, p, Done(loop, r))
    <2>1. r \in Parser(toks)
      BY <1>3 DEF Hand
    <2>2. Done(loop, r) \in Collecting(toks) /\ Done(loop, r).parser = r /\ Done(loop, r).going = FALSE
      BY <1>1, <2>1 DEF Collecting, Done
    <2> QED
      BY <1>3, <2>2 DEF Keeps
  <1>4. ASSUME NEW r, NEW edges, loop.going, r \in Parser(toks), edges \in Seq(Nat), Distinct(edges),
               \E q, s, top : On(toks, p, q, s, top, Ends(edges)) /\ More(s) /\ r = Advance(s)
        PROVE  Keeps(toks, p, [loop EXCEPT !.parser = r, !.edges = edges])
    <2> DEFINE more == [loop EXCEPT !.parser = r, !.edges = edges]
    <2>1. more \in Collecting(toks) /\ more.parser = r /\ more.edges = edges /\ more.going = loop.going
      BY <1>1, <1>4 DEF Collecting
    <2> HIDE DEF more
    <2>2. Keeps(toks, p, more)
      BY <1>4, <2>1 DEF Keeps
    <2> QED
      BY <2>2 DEF more
  <1> QED
    BY <1>2, <1>3, <1>4

\* A loop whose rounds keep to this.
LEMMA CollectWorks ==
    ASSUME NEW toks, NEW p, Begun(toks, p), NEW round, NEW s, On(toks, p, p, s, p.at, {}), More(s),
           \A loop : Keeps(toks, p, loop) => Keeps(toks, p, round[loop])
    PROVE  Hand(p, Collect(round, Advance(s)))
  <1> DEFINE T     == {loop \in Collecting(toks) : Keeps(toks, p, loop)}
             S     == [k \in 0 .. Len(toks) |-> T]
             start == Advance(s)
             first == [parser |-> start, edges |-> <<>>, going |-> TRUE]
             last  == Repeat(round, first, Len(toks))
  <1>1. Len(toks) \in Nat /\ p \in Parser(toks) /\ p.toks = toks
    BY BeginsAt
  <1>2. start \in Parser(toks) /\ start.toks = toks
    <2>1. start \in Parser(toks)
      BY OnNext
    <2> QED
      BY <1>1, <2>1, ParserParts
  <1>3. Keeps(toks, p, first)
    <2>1. /\ <<>> \in Seq(Nat) /\ Ends(<<>>) = {} /\ Distinct(<<>>)
      BY NoEdges
    <2>2. first.parser = start /\ first.edges = <<>> /\ first.going = TRUE /\ first \in Collecting(toks)
      BY <1>2, <2>1 DEF Collecting
    <2>3. On(toks, p, p, s, p.at, Ends(first.edges)) /\ Distinct(first.edges)
      BY <2>1, <2>2
    <2> HIDE DEF first
    <2>4. \E q, m, top : On(toks, p, q, m, top, Ends(first.edges)) /\ More(m) /\ first.parser = Advance(m)
      BY <2>2, <2>3
    <2> QED
      BY <2>2, <2>3, <2>4 DEF Keeps
  <1>4. Collect(round, start) = IF last.going THEN Stop(last.parser, "undefined") ELSE last.parser
    BY <1>2 DEF Collect
  <1> HIDE DEF first, start
  <1>5. first \in T
    BY <1>3 DEF Keeps
  <1>6. \A loop \in T : round[loop] \in T
    BY DEF Keeps
  <1> HIDE DEF T
  <1>7. first \in S[0] /\ \A k \in 0 .. Len(toks) - 1 : \A x \in S[k] : round[x] \in S[k + 1]
    <2>1. 0 \in 0 .. Len(toks) /\ \A k \in 0 .. Len(toks) - 1 : k \in 0 .. Len(toks) /\ k + 1 \in 0 .. Len(toks)
      BY <1>1
    <2> QED
      BY <1>5, <1>6, <2>1
  <1>8. S[Len(toks)] = T
    BY <1>1
  <1> HIDE DEF S
  <1>9. last \in T
    BY <1>1, <1>7, <1>8, RepeatReaches
  <1> HIDE DEF last
  <1>10. Keeps(toks, p, last)
    BY <1>9 DEF T
  <1>11. last.parser \in Parser(toks) /\ last.going \in BOOLEAN
    BY <1>1, <1>10, LoopParts
  <1>12. Hand(p, Stop(last.parser, "undefined"))
    BY <1>1, <1>11, StopHand
  <1>13. ~last.going => Hand(p, last.parser)
    BY <1>10 DEF Keeps
  <1>14. Hand(p, Collect(round, start))
    BY <1>4, <1>12, <1>13
  <1> QED
    BY <1>14 DEF start

\* Where the separator is.
LEMMA Separated ==
    ASSUME NEW p, p.at \in Nat, Size(p) \in Nat, Separator(p) # 0
    PROVE  Separator(p) \in Nat /\ p.at <= Separator(p) /\ Separator(p) <= Size(p)
  <1> DEFINE found == {i \in p.at + 1 .. Size(p) : Word(p, i) \in {",", ")"}}
  <1>1. found # {} /\ Separator(p) = Min(found)
    BY DEF Separator
  <1>2. found \subseteq Nat
    <2> DEFINE x == p.at
               y == Size(p)
    <2>1. x \in Nat /\ y \in Nat
      OBVIOUS
    <2>2. \A i \in found : i \in x + 1 .. y
      OBVIOUS
    <2> HIDE DEF x, y, found
    <2>3. \A i \in x + 1 .. y : i \in Nat
      BY <2>1
    <2> QED
      BY <2>2, <2>3
  <1>3. \E n \in found : \A m \in found : n <= m
    BY <1>1, <1>2, SmallestNumber
  <1>4. Min(found) \in found
    BY <1>3 DEF Min
  <1> DEFINE x == p.at
             y == Size(p)
  <1>5. Separator(p) \in x + 1 .. y /\ x \in Nat /\ y \in Nat
    BY <1>1, <1>4
  <1> HIDE DEF x, y, found
  <1>6. Separator(p) \in Nat /\ x <= Separator(p) /\ Separator(p) <= y
    BY <1>5
  <1> QED
    BY <1>6 DEF x, y

\* An argument of a call.
LEMMA ArgumentKeeps ==
    ASSUME NEW toks, NEW p, Begun(toks, p), ~Stuck(p), NEW below, Calling(toks, below),
           NEW loop, Keeps(toks, p, loop)
    PROVE  Keeps(toks, p, Argument(below, loop, p.at))
  <1> DEFINE s0     == loop.parser
             edges  == loop.edges
             arg    == below[1][s0]
             all    == Append(edges, arg.node)
             sep    == Separator(arg)
             spot   == IF sep = 0 THEN Size(arg) ELSE sep
             behind == [arg EXCEPT !.at = spot]
             next   == Advance(behind)
             kind   == "FUNCTION_CALL"
  <1>1. Len(toks) \in Nat /\ p \in Parser(toks) /\ p.toks = toks
    BY BeginsAt
  <1>2. /\ s0 \in Parser(toks) /\ edges \in Seq(Nat)
        /\ \A r : Hand(p, r) => Keeps(toks, p, Done(loop, r))
    BY <1>1, LoopParts
  <1>3. Argument(below, loop, p.at) =
            IF ~loop.going THEN loop
            ELSE IF Token(s0) = ")" THEN Done(loop, Make(s0, kind, p.at, edges))
            ELSE IF ~Ok(arg) THEN Done(loop, arg)
            ELSE IF sep = 0 THEN Done(loop, Make(behind, "UNKNOWN", 1, <<>>))
            ELSE IF Token(behind) = ")" THEN Done(loop, Make(behind, kind, p.at, all))
            ELSE IF ~More(behind) THEN Done(loop, Make(behind, "UNKNOWN", 1, <<>>))
            ELSE [loop EXCEPT !.parser = next, !.edges = all]
    BY DEF Argument, Expression
  <1>4. 1 \in 1 .. FactorLevel
    BY Levels
  <1>5. /\ kind \in NodeKind /\ kind \notin {"UNIT", "UNKNOWN", "BINARY_OP"}
        /\ \A at, e : Arity(NodeOf(kind, at, e))
    BY DEF NodeKind, NodeOf, Arity
  <1>6. /\ arg = below[1][s0] /\ all = Append(edges, arg.node) /\ behind = [arg EXCEPT !.at = spot]
        /\ next = Advance(behind) /\ (sep = 0 => spot = Size(arg)) /\ (sep # 0 => spot = sep)
        /\ sep = Separator(arg) /\ s0 = loop.parser
    OBVIOUS
  <1> HIDE DEF s0, edges, arg, all, sep, spot, behind, next, kind
  <1>7. CASE ~loop.going
    BY <1>3, <1>7
  <1>8. CASE loop.going
    <2>1. PICK q, s, top : On(toks, p, q, s, top, Ends(edges)) /\ More(s) /\ s0 = Advance(s)
      BY <1>8 DEF Keeps, s0, edges
    <2>2. Distinct(edges)
      BY <1>8 DEF Keeps, edges
    <2>3. On(toks, p, q, s0, top, Ends(edges))
      BY <2>1, OnNext
    <2>4. CASE Token(s0) = ")"
      <3>1. Hand(p, Make(s0, kind, p.at, edges))
        BY <1>2, <1>5, <2>2, <2>3, OnMake
      <3> QED
        BY <1>2, <1>3, <1>8, <2>4, <3>1
    <2>5. CASE Token(s0) # ")"
      <3>1. arg \in Parser(toks) /\ (Ok(arg) => Gone(toks, p, q, s, arg, Ends(edges)))
        <4>1. arg = below[1][Advance(s)]
          BY <1>6, <2>1
        <4> QED
          BY <1>4, <2>1, <4>1, OnCall
      <3>2. CASE ~Ok(arg)
        <4>1. Hand(p, arg)
          BY <1>1, <3>1, <3>2, EndedHand
        <4> QED
          BY <1>2, <1>3, <1>8, <2>5, <3>2, <4>1
      <3>3. CASE Ok(arg)
        <4>1. /\ On(toks, p, arg, arg, arg.at, Ends(edges) \union {arg.node}) /\ arg.node \in Nat
              /\ (arg.node # NullAst => arg.node \notin Ends(edges))
          BY <3>1, <3>3 DEF Gone
        <4>2. /\ all \in Seq(Nat) /\ Ends(all) = Ends(edges) \union {arg.node} /\ Distinct(all)
          BY <1>2, <1>6, <2>2, <4>1, OneMore
        <4>3. spot \in Nat /\ arg.at <= spot /\ spot <= Size(arg)
          <5>1. arg.at \in Nat /\ arg.at \in 1 .. Size(arg) /\ Size(arg) \in Nat
            BY <1>1, <3>1, <4>1, OnSpot, ParserParts DEF Ready
          <5>2. CASE sep = 0
            <6> DEFINE x == arg.at
                       y == Size(arg)
            <6>1. x \in Nat /\ y \in Nat /\ x \in 1 .. y /\ spot = y
              BY <1>6, <5>1, <5>2
            <6> HIDE DEF x, y
            <6>2. spot \in Nat /\ x <= spot /\ spot <= y
              BY <6>1
            <6> QED
              BY <6>2 DEF x, y
          <5>3. CASE sep # 0
            BY <1>6, <5>1, <5>3, Separated
          <5> QED
            BY <5>2, <5>3
        <4>4. On(toks, p, arg, behind, arg.at, Ends(edges) \union {arg.node})
          BY <1>6, <4>1, <4>3, OnJump
        <4>5. Hand(p, Make(behind, "UNKNOWN", 1, <<>>))
          BY <4>4, OnFail
        <4>6. Keeps(toks, p, Done(loop, Make(behind, "UNKNOWN", 1, <<>>)))
          BY <1>2, <4>5
        <4>7. CASE sep = 0
          BY <1>3, <1>8, <2>5, <3>3, <4>6, <4>7
        <4>8. CASE sep # 0 /\ Token(behind) = ")"
          <5>1. Hand(p, Make(behind, kind, p.at, all))
            BY <1>5, <4>2, <4>4, OnMake
          <5>2. Keeps(toks, p, Done(loop, Make(behind, kind, p.at, all)))
            BY <1>2, <5>1
          <5> QED
            BY <1>3, <1>8, <2>5, <3>3, <4>8, <5>2
        <4>9. CASE sep # 0 /\ Token(behind) # ")" /\ ~More(behind)
          BY <1>3, <1>8, <2>5, <3>3, <4>6, <4>9
        <4>10. CASE sep # 0 /\ Token(behind) # ")" /\ More(behind)
          <5>1. next \in Parser(toks)
            <6>1. next = Advance(behind)
              BY <1>6
            <6> QED
              BY <4>4, <6>1, OnNext
          <5>2. On(toks, p, arg, behind, arg.at, Ends(all)) /\ More(behind) /\ next = Advance(behind)
            BY <1>6, <4>2, <4>4, <4>10
          <5>3. \E q2, m, top2 : /\ On(toks, p, q2, m, top2, Ends(all)) /\ More(m) /\ next = Advance(m)
            BY <5>2
          <5>4. Keeps(toks, p, [loop EXCEPT !.parser = next, !.edges = all])
            BY <1>1, <1>8, <4>2, <5>1, <5>3, LoopParts
          <5> QED
            BY <1>3, <1>8, <2>5, <3>3, <4>10, <5>4
        <4> QED
          BY <4>7, <4>8, <4>9, <4>10
      <3> QED
        BY <3>2, <3>3
    <2> QED
      BY <2>4, <2>5
  <1> QED
    BY <1>2, <1>7, <1>8 DEF Keeps, Collecting

\* A call.
LEMMA FunctionWorks ==
    ASSUME NEW toks, NEW p, Begun(toks, p), Kind(Token(p)) = "identifier",
           NEW below, Calling(toks, below)
    PROVE  Hand(p, Function(below, p))
  <1> DEFINE open  == Advance(p)
             round == [loop \in Collecting(p.toks) |-> Argument(below, loop, p.at)]
  <1>1. On(toks, p, p, p, p.at, {}) /\ p.toks = toks
    BY OnStart, BeginsAt
  <1>2. ~Stuck(p)
    BY SignAssumption DEF Stuck
  <1>3. On(toks, p, p, open, p.at, {})
    BY <1>1, OnNext
  <1>4. Function(below, p) = IF More(open) THEN Collect(round, Advance(open))
                             ELSE Make(open, "UNKNOWN", 1, <<>>)
    BY DEF Function
  <1>5. \A loop : Keeps(toks, p, loop) => Keeps(toks, p, round[loop])
    <2>1. ASSUME NEW loop, Keeps(toks, p, loop) PROVE Keeps(toks, p, round[loop])
      <3>1. loop \in Collecting(p.toks)
        BY <1>1, <2>1 DEF Keeps
      <3>2. Keeps(toks, p, Argument(below, loop, p.at))
        BY <1>2, <2>1, ArgumentKeeps
      <3> QED
        BY <3>1, <3>2
    <2> QED
      BY <2>1
  <1>6. Hand(p, Make(open, "UNKNOWN", 1, <<>>))
    BY <1>2, <1>3, OnFail
  <1> HIDE DEF round, open
  <1>7. More(open) => Hand(p, Collect(round, Advance(open)))
    BY <1>3, <1>5, CollectWorks
  <1> QED
    BY <1>4, <1>6, <1>7

\* An expression of a block.
LEMMA StatementKeeps ==
    ASSUME NEW toks, NEW p, Begun(toks, p), ~Stuck(p), NEW below, Calling(toks, below),
           NEW loop, Keeps(toks, p, loop)
    PROVE  Keeps(toks, p, Statement(below, loop, p.at))
  <1> DEFINE s0    == loop.parser
             edges == loop.edges
             expr  == below[1][s0]
             all   == Append(edges, expr.node)
             sep   == Advance(expr)
             unit  == Make([sep EXCEPT !.units = @ + 1, !.at = @ + 1], "UNIT", Size(sep) + 1, <<>>)
             more  == Append(all, unit.node)
             next  == Advance(sep)
             kind  == "BLOCK"
             lost(e, f) == [Fail(e) EXCEPT !.made = @ - Len(f)]
  <1>1. Len(toks) \in Nat /\ p \in Parser(toks) /\ p.toks = toks
    BY BeginsAt
  <1>2. /\ s0 \in Parser(toks) /\ edges \in Seq(Nat)
        /\ \A r : Hand(p, r) => Keeps(toks, p, Done(loop, r))
    BY <1>1, LoopParts
  <1>3. Statement(below, loop, p.at) =
            IF ~loop.going THEN loop
            ELSE IF ~Ok(expr) THEN Done(loop, expr)
            ELSE IF expr.node = NullAst THEN Done(loop, FailBlock(expr, edges))
            ELSE IF ~More(expr) THEN Done(loop, Stop(expr, "undefined"))
            ELSE IF Token(sep) = "}" THEN Done(loop, Make(sep, kind, p.at, all))
            ELSE IF Token(sep) # ";" \/ ~More(sep) THEN Done(loop, FailBlock(sep, all))
            ELSE IF Ahead(sep) = "}" THEN Done(loop, Make(unit, kind, p.at, more))
            ELSE [loop EXCEPT !.parser = next, !.edges = all]
    BY DEF Statement, Expression
  <1>4. 1 \in 1 .. FactorLevel
    BY Levels
  <1>5. /\ kind \in NodeKind /\ kind \notin {"UNIT", "UNKNOWN", "BINARY_OP"}
        /\ \A at, e : Arity(NodeOf(kind, at, e))
    BY DEF NodeKind, NodeOf, Arity
  <1>6. /\ expr = below[1][s0] /\ all = Append(edges, expr.node) /\ sep = Advance(expr)
        /\ unit = UnitBehind(sep) /\ more = Append(all, unit.node)
        /\ next = Advance(sep) /\ s0 = loop.parser
    BY DEF UnitBehind, Widened
  <1> HIDE DEF s0, edges, expr, all, sep, unit, more, next, kind
  <1>7. CASE ~loop.going
    BY <1>3, <1>7
  <1>8. CASE loop.going
    <2>1. PICK q, s, top : On(toks, p, q, s, top, Ends(edges)) /\ More(s) /\ s0 = Advance(s)
      BY <1>8 DEF Keeps, s0, edges
    <2>2. Distinct(edges)
      BY <1>8 DEF Keeps, edges
    <2>3. expr \in Parser(toks) /\ (Ok(expr) => Gone(toks, p, q, s, expr, Ends(edges)))
      <3>1. expr = below[1][Advance(s)]
        BY <1>6, <2>1
      <3> QED
        BY <1>4, <2>1, <3>1, OnCall
    <2>4. CASE ~Ok(expr)
      <3>1. Hand(p, expr)
        BY <1>1, <2>3, <2>4, EndedHand
      <3> QED
        BY <1>2, <1>3, <1>8, <2>4, <3>1
    <2>5. CASE Ok(expr)
      <3>1. /\ On(toks, p, expr, expr, expr.at, Ends(edges) \union {expr.node}) /\ expr.node \in Nat
            /\ (expr.node # NullAst => expr.node \notin Ends(edges))
        BY <2>3, <2>5 DEF Gone
      <3>2. /\ all \in Seq(Nat) /\ Ends(all) = Ends(edges) \union {expr.node} /\ Distinct(all)
        BY <1>2, <1>6, <2>2, <3>1, OneMore
      <3>3. On(toks, p, expr, sep, expr.at, Ends(all)) /\ sep \in Parser(toks)
        <4>1. sep = Advance(expr)
          BY <1>6
        <4>2. /\ On(toks, p, expr, sep, expr.at, Ends(edges) \union {expr.node})
              /\ sep \in Parser(toks)
          BY <3>1, <4>1, OnNext
        <4> QED
          BY <3>2, <4>2
      <3>4. CASE expr.node = NullAst
        <4>1. Hand(p, FailBlock(expr, edges))
          <5>1. Len(edges) \in Nat
            BY <1>2
          <5> QED
            BY <3>1, <5>1, OnFail DEF FailBlock
        <4> QED
          BY <1>2, <1>3, <1>8, <2>5, <3>4, <4>1
      <3>5. CASE expr.node # NullAst /\ ~More(expr)
        <4>1. Hand(p, Stop(expr, "undefined"))
          BY <1>1, <2>3, StopHand
        <4> QED
          BY <1>2, <1>3, <1>8, <2>5, <3>5, <4>1
      <3>6. CASE expr.node # NullAst /\ More(expr) /\ Token(sep) = "}"
        <4>1. Hand(p, Make(sep, kind, p.at, all))
          BY <1>5, <3>2, <3>3, OnMake
        <4> QED
          BY <1>2, <1>3, <1>8, <2>5, <3>6, <4>1
      <3>7. CASE /\ expr.node # NullAst /\ More(expr) /\ Token(sep) # "}"
                 /\ (Token(sep) # ";" \/ ~More(sep))
        <4>1. Hand(p, FailBlock(sep, all))
          <5>1. Len(all) \in Nat
            BY <3>2
          <5> QED
            BY <3>3, <5>1, OnFail DEF FailBlock
        <4> QED
          BY <1>2, <1>3, <1>8, <2>5, <3>7, <4>1
      <3>8. CASE /\ expr.node # NullAst /\ More(expr) /\ Token(sep) # "}"
                 /\ ~(Token(sep) # ";" \/ ~More(sep)) /\ Ahead(sep) = "}"
        <4>1. /\ unit \in Parser(toks)
              /\ Ok(unit) => /\ On(toks, p, unit, unit, unit.at, Ends(all) \union {unit.node})
                             /\ unit.node \in Nat /\ unit.node \notin Ends(all)
          BY <1>6, <3>3, <3>8, OnUnit
        <4>2. CASE Ok(unit)
          <5>1. /\ more \in Seq(Nat) /\ Ends(more) = Ends(all) \union {unit.node} /\ Distinct(more)
            BY <1>6, <3>2, <4>1, <4>2, OneMore
          <5>2. Hand(p, Make(unit, kind, p.at, more))
            BY <1>5, <4>1, <4>2, <5>1, OnMake
          <5> QED
            BY <1>2, <1>3, <1>8, <2>5, <3>8, <5>2
        <4>3. CASE ~Ok(unit)
          <5>1. unit.node \in Nat /\ p.at \in Nat
            BY <1>1, <4>1, ParserParts
          <5>2. more \in Seq(Nat)
            BY <1>6, <3>2, <5>1
          <5>3. /\ Make(unit, kind, p.at, more) \in Parser(toks)
                /\ ~Ok(Make(unit, kind, p.at, more))
            BY <1>1, <1>5, <4>1, <4>3, <5>1, <5>2, MakeIs
          <5>4. Hand(p, Make(unit, kind, p.at, more))
            BY <1>1, <5>3, EndedHand
          <5> QED
            BY <1>2, <1>3, <1>8, <2>5, <3>8, <5>4
        <4> QED
          BY <4>2, <4>3
      <3>9. CASE /\ expr.node # NullAst /\ More(expr) /\ Token(sep) # "}"
                 /\ ~(Token(sep) # ";" \/ ~More(sep)) /\ Ahead(sep) # "}"
        <4>1. next \in Parser(toks)
          BY <1>6, <3>3, OnNext
        <4>2. On(toks, p, expr, sep, expr.at, Ends(all)) /\ More(sep) /\ next = Advance(sep)
          BY <1>6, <3>3, <3>9
        <4>3. \E q2, m, top2 : /\ On(toks, p, q2, m, top2, Ends(all)) /\ More(m) /\ next = Advance(m)
          BY <4>2
        <4>4. Keeps(toks, p, [loop EXCEPT !.parser = next, !.edges = all])
          BY <1>1, <1>8, <3>2, <4>1, <4>3, LoopParts
        <4> QED
          BY <1>3, <1>8, <2>5, <3>9, <4>4
      <3> QED
        BY <3>4, <3>5, <3>6, <3>7, <3>8, <3>9
    <2> QED
      BY <2>4, <2>5
  <1> QED
    BY <1>2, <1>7, <1>8 DEF Keeps, Collecting

\* A block.
LEMMA BlockWorks ==
    ASSUME NEW toks, NEW p, Begun(toks, p), Token(p) = "{",
           NEW below, Calling(toks, below)
    PROVE  Hand(p, Block(below, p))
  <1> DEFINE round == [loop \in Collecting(p.toks) |-> Statement(below, loop, p.at)]
  <1>1. On(toks, p, p, p, p.at, {}) /\ p.toks = toks /\ Len(toks) \in Nat /\ p \in Parser(toks)
    BY OnStart, BeginsAt
  <1>2. ~Stuck(p)
    BY DEF Stuck, Signs
  <1>3. Block(below, p) = IF More(p) THEN Collect(round, Advance(p)) ELSE Stop(p, "undefined")
    BY DEF Block
  <1>4. \A loop : Keeps(toks, p, loop) => Keeps(toks, p, round[loop])
    <2>1. ASSUME NEW loop, Keeps(toks, p, loop) PROVE Keeps(toks, p, round[loop])
      <3>1. loop \in Collecting(p.toks)
        BY <1>1, <2>1 DEF Keeps
      <3>2. Keeps(toks, p, Statement(below, loop, p.at))
        BY <1>2, <2>1, StatementKeeps
      <3> QED
        BY <3>1, <3>2
    <2> QED
      BY <2>1
  <1>5. Hand(p, Stop(p, "undefined"))
    BY <1>1, StopHand
  <1> HIDE DEF round
  <1>6. More(p) => Hand(p, Collect(round, Advance(p)))
    BY <1>1, <1>4, CollectWorks
  <1> QED
    BY <1>3, <1>5, <1>6

-----------------------------------------------------------------------------
(* Binary operators. *)

\* The spot of an operator is between those of its operands.
LEMMA Between ==
    ASSUME NEW toks, Len(toks) \in Nat, NEW p \in Parser(toks), NEW q \in Parser(toks),
           NEW s \in Parser(toks), NEW r \in Parser(toks), NEW low \in Nat, NEW held, NEW more,
           Grown(p, q, low, q.at, held), Grown(s, r, s.at, r.at, more),
           s.heap = q.heap, s.units = q.units,
           NEW x \in Nat, q.at < x, x < s.at, x <= Size(q)
    PROVE  \A n \in Len(p.heap) + 1 .. Len(r.heap) :
              /\ n <= Len(q.heap) /\ Normal(r.heap[n]) => r.heap[n].at < x
              /\ Len(q.heap) < n /\ r.heap[n].kind # "UNKNOWN" => r.heap[n].at > x
  <1> SUFFICES ASSUME NEW n \in Len(p.heap) + 1 .. Len(r.heap)
               PROVE  /\ n <= Len(q.heap) /\ Normal(r.heap[n]) => r.heap[n].at < x
                      /\ Len(q.heap) < n /\ r.heap[n].kind # "UNKNOWN" => r.heap[n].at > x
    OBVIOUS
  <1> DEFINE b == Len(p.heap)
             c == Len(q.heap)
             d == Len(r.heap)
             y == r.heap[n].at
             u == q.at
             v == s.at
             z == Size(s)
  <1>1. /\ b \in Nat /\ c \in Nat /\ d \in Nat /\ u \in Nat /\ v \in Nat /\ z \in Nat
        /\ r.heap \in Seq(Node) /\ z = Size(q)
    BY ParserParts
  <1>2. y \in Nat /\ n \in Nat
    <2>1. n \in 1 .. d
      BY <1>1
    <2>2. r.heap[n] \in Node
      BY <1>1, <2>1
    <2> QED
      BY <1>1, <2>1, <2>2 DEF Node
  <1>3. n \in b + 1 .. d
    OBVIOUS
  <1>4. ASSUME n <= c, Normal(r.heap[n]) PROVE y < x
    <2>1. n \in b + 1 .. c /\ n \in 1 .. c
      <3> HIDE DEF b, c, d, y, u, v, z
      <3> QED
        BY <1>1, <1>2, <1>3, <1>4
    <2>2. r.heap[n] = q.heap[n]
      BY <2>1 DEF Grown, Extended
    <2>3. y \in low .. u
      BY <1>4, <2>1, <2>2 DEF Grown, InPlace
    <2> HIDE DEF y, u
    <2> QED
      BY <1>1, <1>2, <2>3 DEF u
  <1>5. ASSUME c < n, r.heap[n].kind # "UNKNOWN" PROVE y > x
    <2>1. n \in c + 1 .. d
      <3> HIDE DEF b, c, d, y, u, v, z
      <3> QED
        BY <1>1, <1>2, <1>3, <1>5
    <2>2. CASE Normal(r.heap[n])
      <3>1. y \in v .. r.at
        BY <2>1, <2>2 DEF Grown, InPlace
      <3>2. r.at \in Nat
        BY ParserParts
      <3> HIDE DEF y
      <3>3. x < v
        OBVIOUS
      <3> HIDE DEF v
      <3> QED
        BY <1>1, <1>2, <3>1, <3>2, <3>3
    <2>3. CASE ~Normal(r.heap[n])
      <3>1. r.heap[n].kind = "UNIT"
        BY <1>5, <2>3 DEF Normal
      <3>2. y \in z + 1 .. Size(r)
        BY <2>1, <3>1 DEF Grown, InPlace
      <3>3. Size(r) \in Nat /\ x <= z
        BY <1>1, ParserParts
      <3> HIDE DEF y, z
      <3> QED
        BY <1>1, <1>2, <3>2, <3>3
    <2> QED
      BY <2>2, <2>3
  <1> QED
    BY <1>4, <1>5

\* An operator and its right operand, behind the left one.
LEMMA OperatorWorks ==
    ASSUME NEW toks, NEW p \in Parser(toks), Len(toks) \in Nat, Ready(p),
           NEW below, Calling(toks, below),
           NEW level \in 1 .. FactorLevel, level # FactorLevel, NEW q, Hand(p, q)
    PROVE  Hand(p, Operator(below, q, level))
  <1> DEFINE op == Advance(q)
             s  == Advance(op)
             next == level + 1
             r  == below[next][s]
             two == <<q.node, r.node>>
             kind == "BINARY_OP"
             made == Make(r, kind, op.at, two)
  <1>1. /\ p.toks = toks /\ p.at \in Nat /\ p.at \in 1 .. Size(p) /\ Size(p) \in Nat
    BY ParserParts DEF Ready
  <1>2. q \in Parser(toks)
    BY <1>1 DEF Hand
  <1>3. Operator(below, q, level) =
            IF ~Ok(q) \/ Ahead(q) \notin Precedence[level] THEN q
            ELSE IF ~Ok(r) THEN r
            ELSE IF NullAst \in {q.node, r.node} THEN Stop(r, "undefined")
            ELSE IF ~IsTerm(r, q.node) \/ ~IsTerm(r, r.node) THEN Stop(r, "aborted")
            ELSE made
    BY DEF Operator, Apply
  <1>4. next \in 1 .. FactorLevel /\ Precedence[level] \subseteq Signs
    BY Levels
  <1>5. op = Advance(q) /\ s = Advance(op) /\ r = below[next][s] /\ two = <<q.node, r.node>>
    OBVIOUS
  <1>6. /\ kind \in NodeKind /\ kind = "BINARY_OP"
        /\ \A at : \A edges : Len(edges) = 2 /\ edges[1] # NullAst => Arity(NodeOf(kind, at, edges))
    BY DEF NodeKind, NodeOf, Arity
  <1>7. made = Make(r, kind, op.at, two)
    OBVIOUS
  <1> HIDE DEF op, s, next, r, two, kind, made
  <1>8. CASE ~Ok(q) \/ Ahead(q) \notin Precedence[level]
    BY <1>3, <1>8
  <1>9. CASE Ok(q) /\ Ahead(q) \in Precedence[level]
    <2>1. /\ p.at <= q.at /\ q.at <= Size(q) /\ q.node \in {NullAst, Len(q.heap)}
          /\ Grown(p, q, p.at, q.at, {q.node}) /\ ~Stuck(p)
      BY <1>9 DEF Hand
    <2>2. More(q) /\ Ahead(q) \in Signs
      BY <1>4, <1>9 DEF Ahead, Signs
    <2>3. q.at \in Nat /\ Size(q) \in Nat /\ q.node \in Nat /\ q.toks = toks
      BY <1>2, ParserParts
    <2>4. Ready(q)
      <3> DEFINE x == q.at
                 y == p.at
                 z == Size(q)
      <3>1. x \in Nat /\ y \in Nat /\ z \in Nat /\ y >= 1 /\ y <= x /\ x <= z
        BY <1>1, <2>1, <2>3
      <3> HIDE DEF x, y, z
      <3>2. x \in 1 .. z
        BY <3>1
      <3> QED
        BY <1>9, <3>2 DEF x, z, Ready
    <2>5. Along(toks, p, q, q, p.at, q.at, {q.node})
      BY <1>1, <1>2, <2>1, <2>3, <2>4 DEF Along
    <2>6. /\ Along(toks, p, q, op, p.at, q.at, {q.node}) /\ op \in Parser(toks) /\ Ready(op)
          /\ op.at = q.at + 1 /\ Token(op) = Ahead(q) /\ op.at \in Nat /\ Size(op) = Size(q)
      BY <1>5, <2>2, <2>5, AlongAdvance
    <2>7. /\ Along(toks, p, q, s, p.at, q.at, {q.node}) /\ s \in Parser(toks) /\ Ready(s)
          /\ (More(op) => s.at = op.at + 1) /\ (~More(op) => s = op) /\ s.at \in Nat
      BY <1>5, <2>6, AlongAdvance
    <2>8. r \in Parser(toks) /\ Hand(s, r)
      <3>1. Hand(s, r) /\ s.toks = toks
        BY <1>4, <1>5, <2>7, ParserParts DEF Calling
      <3> QED
        BY <3>1 DEF Hand
    <2>9. CASE ~Ok(r)
      <3>1. Hand(p, r)
        BY <2>8, <2>9, EndedHand
      <3> QED
        BY <1>3, <1>9, <2>9, <3>1
    <2>10. CASE Ok(r) /\ NullAst \in {q.node, r.node}
      <3>1. Hand(p, Stop(r, "undefined"))
        BY <2>8, StopHand
      <3> QED
        BY <1>3, <1>9, <2>10, <3>1
    <2>11. CASE Ok(r) /\ NullAst \notin {q.node, r.node} /\ (~IsTerm(r, q.node) \/ ~IsTerm(r, r.node))
      <3>1. Hand(p, Stop(r, "aborted"))
        BY <2>8, StopHand
      <3> QED
        BY <1>3, <1>9, <2>11, <3>1
    <2>12. CASE Ok(r) /\ NullAst \notin {q.node, r.node} /\ ~(~IsTerm(r, q.node) \/ ~IsTerm(r, r.node))
      <3>1. More(op)
        BY <2>2, <2>6, <2>7, <2>8, <2>12 DEF Hand, Stuck
      <3>2. p.at <= s.at /\ q.at < s.at /\ q.at < op.at /\ op.at < s.at /\ op.at <= Size(q)
            /\ p.at <= op.at
        <4> DEFINE x == p.at
                   y == q.at
                   z == Size(q)
        <4>1. x \in Nat /\ y \in Nat /\ z \in Nat /\ x <= y /\ op.at = y + 1 /\ s.at = op.at + 1
              /\ op.at < z
          BY <1>1, <2>1, <2>3, <2>6, <2>7, <3>1 DEF More
        <4> HIDE DEF x, y, z
        <4>2. x <= s.at /\ y < s.at /\ y < op.at /\ op.at < s.at /\ op.at <= z /\ x <= op.at
          BY <4>1
        <4> QED
          BY <4>2 DEF x, y, z
      <3>3. Called(toks, p, q, s, r, p.at, {q.node})
        BY <1>4, <1>5, <2>7, <2>12, <3>2, AlongCall
      <3>4. /\ Along(toks, p, r, r, p.at, r.at, {q.node} \union {r.node})
            /\ r.at \in Nat /\ s.at <= r.at /\ Grown(s, r, s.at, r.at, {r.node})
            /\ r.node \in Nat /\ r.node \in {NullAst, Len(r.heap)}
            /\ r.node # NullAst => r.node \notin {q.node} /\ Len(q.heap) < r.node
        BY <3>3 DEF Called
      <3>5. s.heap = q.heap /\ s.units = q.units /\ Ready(p) /\ Ready(r)
            /\ Grown(p, r, p.at, r.at, {q.node} \union {r.node})
        BY <2>7, <3>4 DEF Along
      <3>6. \A n \in Len(p.heap) + 1 .. Len(r.heap) :
               /\ n <= Len(q.heap) /\ Normal(r.heap[n]) => r.heap[n].at < op.at
               /\ Len(q.heap) < n /\ r.heap[n].kind # "UNKNOWN" => r.heap[n].at > op.at
        BY <1>1, <1>2, <2>1, <2>6, <2>7, <2>8, <3>2, <3>4, <3>5, Between
      <3>7. /\ q.node = Len(q.heap) /\ r.node = Len(r.heap) /\ q.node # NullAst /\ r.node # NullAst
            /\ Len(q.heap) \in Nat /\ Len(r.heap) \in Nat /\ Len(p.heap) \in Nat
            /\ r.heap \in Seq(Node) /\ Len(q.heap) < Len(r.heap)
        BY <1>2, <2>1, <2>8, <2>12, <3>4, ParserParts
      <3>8. Free(p, r, op.at)
        <4> SUFFICES ASSUME NEW n \in Len(p.heap) + 1 .. Len(r.heap), Normal(r.heap[n])
                     PROVE  r.heap[n].at # op.at
          BY DEF Free
        <4> DEFINE y == r.heap[n].at
                   c == Len(q.heap)
        <4>1. n <= c \/ c < n
          BY <3>7
        <4>2. r.heap[n].kind # "UNKNOWN"
          BY DEF Normal
        <4>3. (n <= c => y < op.at) /\ (c < n => y > op.at)
          BY <3>6, <4>2
        <4>4. y \in Nat
          <5>1. n \in 1 .. Len(r.heap)
            BY <3>7
          <5>2. r.heap[n] \in Node
            BY <3>7, <5>1
          <5> QED
            BY <5>2 DEF Node
        <4> HIDE DEF y, c
        <4>5. y # op.at
          BY <2>6, <4>1, <4>3, <4>4
        <4> QED
          BY <4>5 DEF y
      <3>9. /\ two \in Seq(Nat) /\ Ends(two) = {q.node, r.node} /\ Distinct(two) /\ Len(two) = 2
            /\ two[1] = q.node /\ two[2] = r.node
        <4>1. two[1] = q.node /\ two[2] = r.node
          BY <1>5
        <4>2. r.node # NullAst => r.node # q.node
          BY <3>4
        <4> QED
          BY <1>5, <2>3, <3>4, <4>1, <4>2, TwoEnds
      <3>10. op.at <= Len(toks)
        <4>1. Token(op) # UnitToken
          BY <2>2, <2>6, SignIsGiven
        <4> QED
          BY <2>6, <4>1, Given
      <3>11. op.at \in p.at .. r.at /\ p.at <= p.at /\ r.at <= r.at /\ p.at <= r.at
             /\ r.units <= r.units
        <4> DEFINE x == p.at
                   u == r.units
        <4>1. x \in Nat /\ r.at \in Nat /\ op.at \in Nat /\ x <= op.at /\ op.at < s.at /\ s.at <= r.at
              /\ s.at \in Nat /\ u \in Nat
          BY <1>1, <2>6, <2>7, <2>8, <3>2, <3>4, ParserParts
        <4> HIDE DEF x, u
        <4>2. op.at \in x .. r.at /\ x <= x /\ r.at <= r.at /\ x <= r.at /\ u <= u
          BY <4>1
        <4> QED
          BY <4>2 DEF x, u
      <3> DEFINE held == {q.node} \union {r.node}
      <3>12. held = Ends(two)
        BY <3>9
      <3>13. two[1] \in 1 .. Len(r.heap) /\ two[2] \in 1 .. Len(r.heap)
             /\ \A n \in Len(p.heap) + 1 .. Len(r.heap) :
                   /\ n <= two[1] /\ Normal(r.heap[n]) => r.heap[n].at < op.at
                   /\ two[1] < n /\ n <= two[2] /\ r.heap[n].kind # "UNKNOWN" => r.heap[n].at > op.at
        <4>1. two[1] = Len(q.heap) /\ two[2] = Len(r.heap)
          BY <3>7, <3>9
        <4>2. Len(q.heap) \in 1 .. Len(r.heap) /\ Len(r.heap) \in 1 .. Len(r.heap)
          <5> DEFINE c == Len(q.heap)
                     d == Len(r.heap)
          <5>1. c \in Nat /\ d \in Nat /\ c # 0 /\ d # 0 /\ c < d
            BY <3>7 DEF NullAst
          <5> HIDE DEF c, d
          <5>2. c \in 1 .. d /\ d \in 1 .. d
            BY <5>1
          <5> QED
            BY <5>2 DEF c, d
        <4> QED
          BY <3>6, <4>1, <4>2
      <3>14. Stands(toks, p, r, r, p.at, r.at, p.at, r.at, held)
        BY <1>1, <2>8, <3>4, <3>5, <3>11 DEF Stands
      <3> HIDE DEF held
      <3>15. Fits(toks, p, r, r, held, kind, op.at, two, p.at, r.at)
        <4>1. \A k \in DOMAIN two : two[k] \in held
          BY <3>12 DEF Ends
        <4>2. \A j, k \in DOMAIN two : two[j] = two[k] /\ two[j] # NullAst => j = k
          BY <3>9 DEF Distinct
        <4>3. Arity(NodeOf(kind, op.at, two))
          BY <1>6, <3>7, <3>9
        <4>4. kind # "UNIT"
          BY <1>6
        <4> QED
          BY <3>8, <3>10, <3>11, <3>13, <4>1, <4>2, <4>3, <4>4 DEF Fits
      <3>16. made \in Parser(toks)
        <4>1. kind \in NodeKind /\ op.at \in Nat /\ two \in Seq(Nat)
          BY <1>6, <2>6, <3>9
        <4> QED
          BY <1>7, <2>8, <4>1, MakeIs
      <3>17. ASSUME Ok(made) PROVE Hand(p, made)
        <4>1. Ok(Make(r, kind, op.at, two))
          BY <1>7, <3>17
        <4>2. LET x == Make(r, kind, op.at, two)
              IN  /\ x \in Parser(toks) /\ x.node = Len(r.heap) + 1
                  /\ x.heap = Append(r.heap, NodeOf(kind, op.at, two)) /\ Len(x.heap) = Len(r.heap) + 1
                  /\ x.at = r.at /\ x.units = r.units /\ Size(x) = Size(r)
                  /\ Grown(p, x, p.at, r.at, Over(held, two, x.node))
          <5>1. kind \in NodeKind /\ op.at \in Nat /\ two \in Seq(Nat)
            BY <1>6, <2>6, <3>9
          <5> QED
            BY <3>14, <3>15, <4>1, <5>1, GrownMake
        <4>3. made.node = Len(made.heap) /\ made.at = r.at /\ Size(made) = Size(r)
              /\ Grown(p, made, p.at, r.at, Over(held, two, made.node))
          BY <1>7, <4>2
        <4>4. Over(held, two, made.node) = {made.node}
          BY <3>12 DEF Over, Ends
        <4>5. r.at <= Size(r)
          <5>1. Size(r) \in Nat /\ r.at \in 1 .. Size(r)
            BY <2>8, <3>5, ParserParts DEF Ready
          <5> QED
            BY <3>4, <5>1
        <4> QED
          BY <1>1, <2>1, <3>11, <3>16, <4>3, <4>4, <4>5 DEF Hand
      <3>18. Hand(p, made)
        BY <3>16, <3>17, EndedHand
      <3> QED
        BY <1>3, <1>9, <2>12, <3>18
    <2> QED
      BY <2>9, <2>10, <2>11, <2>12
  <1> QED
    BY <1>8, <1>9

\* A vector of tokens.
Vector(toks) == \E S : toks \in Seq(S)

\* It has a length, and is empty if that is 0.
LEMMA VectorParts ==
    ASSUME NEW toks, Vector(toks)
    PROVE  Len(toks) \in Nat /\ DOMAIN toks = 1 .. Len(toks) /\ (Len(toks) = 0 => toks = <<>>)
  <1>1. PICK S : toks \in Seq(S)
    BY DEF Vector
  <1> QED
    BY <1>1

\* All operators of a level.
LEMMA BinaryWorks ==
    ASSUME NEW toks, Vector(toks), NEW p \in Parser(toks), Ready(p),
           NEW below, Calling(toks, below), NEW level \in 1 .. FactorLevel, level # FactorLevel
    PROVE  Hand(p, Binary(below, p, level))
  <1> DEFINE ops    == {i \in DOMAIN toks : toks[i] \in Precedence[level]}
             rounds == Cardinality(ops)
             round  == [q \in Parser(toks) |-> Operator(below, q, level)]
             first  == below[level + 1][p]
             T      == {q \in Parser(toks) : Hand(p, q)}
             S      == [k \in 0 .. rounds |-> T]
  <1>1. Len(toks) \in Nat /\ p.toks = toks
    <2>1. Len(toks) \in Nat
      BY VectorParts
    <2> QED
      BY <2>1, ParserParts
  <1>2. rounds \in Nat
    <2>1. DOMAIN toks = 1 .. Len(toks)
      BY VectorParts
    <2>2. ops \subseteq 1 .. Len(toks)
      BY <2>1
    <2>3. IsFiniteSet(1 .. Len(toks))
      <3>1. 1 \in Int /\ Len(toks) \in Int
        BY <1>1
      <3> QED
        BY <3>1, FS_Interval
    <2> HIDE DEF ops
    <2>4. IsFiniteSet(ops)
      BY <2>2, <2>3, FS_Subset
    <2> QED
      BY <2>4, FS_CardinalityType
  <1>3. Binary(below, p, level) = Repeat(round, first, rounds)
    BY <1>1 DEF Binary
  <1>4. first \in T
    <2>1. level + 1 \in 1 .. FactorLevel
      BY Levels
    <2>2. Hand(p, first)
      BY <2>1 DEF Calling
    <2> QED
      BY <1>1, <2>2 DEF Hand
  <1>5. \A q \in T : round[q] \in T
    <2> SUFFICES ASSUME NEW q \in T PROVE round[q] \in T
      OBVIOUS
    <2>1. q \in Parser(toks) /\ Hand(p, q)
      OBVIOUS
    <2>2. Hand(p, Operator(below, q, level))
      BY <1>1, <2>1, OperatorWorks
    <2>3. round[q] = Operator(below, q, level)
      BY <2>1
    <2> QED
      BY <1>1, <2>2, <2>3 DEF Hand
  <1> HIDE DEF T, first, round, rounds
  <1>6. first \in S[0] /\ \A k \in 0 .. rounds - 1 : \A x \in S[k] : round[x] \in S[k + 1]
    <2>1. 0 \in 0 .. rounds /\ \A k \in 0 .. rounds - 1 : k \in 0 .. rounds /\ k + 1 \in 0 .. rounds
      BY <1>2
    <2> QED
      BY <1>4, <1>5, <2>1
  <1>7. S[rounds] = T
    BY <1>2
  <1> HIDE DEF S
  <1>8. Repeat(round, first, rounds) \in T
    BY <1>2, <1>6, <1>7, RepeatReaches
  <1> QED
    BY <1>3, <1>8 DEF T

\* A factor, by its first token.
LEMMA FactorWorks ==
    ASSUME NEW toks, NEW p \in Parser(toks), Len(toks) \in Nat, Ready(p),
           NEW below, Calling(toks, below)
    PROVE  Hand(p, Factor(below, p))
  <1> DEFINE t == Token(p)
  <1>1. \A how \in {"exited", "undefined"} : Hand(p, Stop(p, how))
    BY StopHand
  <1>2. CASE t = UnitToken
    <2>1. Kind(t) = "unit"
      BY <1>2 DEF Kind
    <2>2. t \notin {"-", "not", "(", "{", "if", "while", "var"}
      BY <1>2 DEF UnitToken
    <2>3. Factor(below, p) \in {Stop(p, "exited"), Stop(p, "undefined")}
      <3> HIDE DEF t
      <3>1. Factor(below, p) =
          CASE Kind(t) = "identifier" /\ Ahead(p) = "("  -> Function(below, p)
            [] Kind(t) = "identifier" /\ Ahead(p) # "("  -> Make(p, Name(p), p.at, <<>>)
            [] Kind(t) = "integer"                 -> Make(p, "LITERAL", p.at, <<>>)
            [] t \in {"-", "not"}                  -> Unary(below, p)
            [] t = "("                             -> Parenthesized(below, p)
            [] t = "{"                             -> Block(below, p)
            [] t = "if"                            -> If(below, p)
            [] t = "while"                         -> While(below, p)
            [] t = "var"                           -> Var(below, p)
            [] t \in (Punctuation \ {"(", "{"}) \union {UnitToken} -> Stop(p, "exited")
            [] OTHER                               -> Stop(p, "undefined")
        BY DEF Factor, t
      <3> QED
        BY <1>2, <2>1, <2>2, <3>1
    <2> QED
      BY <1>1, <2>3
  <1>3. CASE t # UnitToken
    <2>1. Begun(toks, p)
      BY <1>3 DEF Begun
    <2>2. Kind(t) = "identifier" => Hand(p, Function(below, p))
      BY <2>1, FunctionWorks
    <2>3. Name(p) \in {"LITERAL", "IDENTIFIER"}
      BY DEF Name
    <2>4. Kind(t) = "identifier" => Hand(p, Make(p, Name(p), p.at, <<>>))
      BY <2>1, <2>3, LeafWorks
    <2>5. Kind(t) = "integer" => Hand(p, Make(p, "LITERAL", p.at, <<>>))
      BY <2>1, LeafWorks
    <2>6. t \in {"-", "not"} => Hand(p, Unary(below, p))
      BY <2>1, UnaryWorks
    <2>7. t = "(" => Hand(p, Parenthesized(below, p))
      BY <2>1, ParenthesizedWorks
    <2>8. t = "{" => Hand(p, Block(below, p))
      BY <2>1, BlockWorks
    <2>9. t = "if" => Hand(p, If(below, p))
      BY <2>1, IfWorks
    <2>10. t = "while" => Hand(p, While(below, p))
      BY <2>1, WhileWorks
    <2>11. t = "var" => Hand(p, Var(below, p))
      BY <2>1, VarWorks
    <2>12. Hand(p, Stop(p, "exited")) /\ Hand(p, Stop(p, "undefined"))
      BY <1>1
    <2> HIDE DEF t
    <2>13. Factor(below, p) =
          CASE Kind(t) = "identifier" /\ Ahead(p) = "("  -> Function(below, p)
            [] Kind(t) = "identifier" /\ Ahead(p) # "("  -> Make(p, Name(p), p.at, <<>>)
            [] Kind(t) = "integer"                 -> Make(p, "LITERAL", p.at, <<>>)
            [] t \in {"-", "not"}                  -> Unary(below, p)
            [] t = "("                             -> Parenthesized(below, p)
            [] t = "{"                             -> Block(below, p)
            [] t = "if"                            -> If(below, p)
            [] t = "while"                         -> While(below, p)
            [] t = "var"                           -> Var(below, p)
            [] t \in (Punctuation \ {"(", "{"}) \union {UnitToken} -> Stop(p, "exited")
            [] OTHER                               -> Stop(p, "undefined")
        BY DEF Factor, t
    <2> QED
      BY <2>2, <2>4, <2>5, <2>6, <2>7, <2>8, <2>9, <2>10, <2>11, <2>12, <2>13
  <1> QED
    BY <1>2, <1>3

\* Where there is no room on the stack.
LEMMA OverflowCalling ==
    ASSUME NEW toks, Len(toks) \in Nat
    PROVE  Calling(toks, Overflow(toks))
  <1> SUFFICES ASSUME NEW level \in 1 .. FactorLevel, NEW p \in Parser(toks)
               PROVE  Hand(p, Overflow(toks)[level][p])
    BY DEF Calling
  <1>1. Overflow(toks)[level][p] = Stop(p, "undefined")
    BY DEF Overflow
  <1> QED
    BY <1>1, StopHand

\* One call deeper.
LEMMA CallsCalling ==
    ASSUME NEW toks, Vector(toks), NEW below, Calling(toks, below)
    PROVE  Calling(toks, Calls(below, toks))
  <1> SUFFICES ASSUME NEW level \in 1 .. FactorLevel, NEW p \in Parser(toks), Ready(p)
               PROVE  Hand(p, Calls(below, toks)[level][p])
    BY DEF Calling
  <1>1. Calls(below, toks)[level][p] =
            IF level = FactorLevel THEN Factor(below, p) ELSE Binary(below, p, level)
    BY DEF Calls
  <1>2. Len(toks) \in Nat
    BY VectorParts
  <1>3. CASE level = FactorLevel
    BY <1>1, <1>2, <1>3, FactorWorks
  <1>4. CASE level # FactorLevel
    BY <1>1, <1>4, BinaryWorks
  <1> QED
    BY <1>3, <1>4

\* The functions by how deep they may nest, as Parsing has them.
Nesting(call, toks, depth) ==
    call = [d \in 0 .. depth |-> IF d = 0 THEN Overflow(toks) ELSE Calls(call[d - 1], toks)]

\* The recursive function the calls are taken from exists.
LEMMA NestingExists ==
    ASSUME NEW toks, NEW depth \in Nat
    PROVE  \E call : Nesting(call, toks, depth)
  <1> DEFINE Bad == {n \in Nat : ~ \E call : Nesting(call, toks, n)}
  <1>1. ASSUME Bad # {} PROVE FALSE
    <2>1. PICK n \in Bad : \A m \in Bad : n <= m
      BY <1>1, SmallestNumber
    <2>2. n \in Nat
      OBVIOUS
    <2>3. CASE n = 0
      <3> DEFINE v == [d \in 0 .. 0 |-> Overflow(toks)]
      <3>1. v = [d \in 0 .. 0 |-> v[d]] /\ \A d \in 0 .. 0 : d = 0 /\ v[d] = Overflow(toks)
        OBVIOUS
      <3> HIDE DEF v
      <3>2. Nesting(v, toks, 0)
        BY <3>1 DEF Nesting
      <3> QED
        BY <2>1, <2>3, <3>2
    <2>4. CASE n # 0
      <3>1. n - 1 \in Nat /\ n - 1 \notin Bad
        BY <2>1, <2>2, <2>4
      <3>2. PICK v : Nesting(v, toks, n - 1)
        BY <3>1
      <3> DEFINE t == [d \in 0 .. n |-> IF d = n THEN Calls(v[n - 1], toks) ELSE v[d]]
      <3>3. \A d \in 0 .. n : t[d] = IF d = n THEN Calls(v[n - 1], toks) ELSE v[d]
        OBVIOUS
      <3>4. t = [d \in 0 .. n |-> t[d]]
        OBVIOUS
      <3> HIDE DEF t
      <3>5. ASSUME NEW d \in 0 .. n
            PROVE  t[d] = IF d = 0 THEN Overflow(toks) ELSE Calls(t[d - 1], toks)
        <4>1. CASE d = n
          <5>1. n - 1 \in 0 .. n /\ n - 1 # n
            BY <2>2, <2>4
          <5>2. t[n - 1] = v[n - 1]
            BY <3>3, <5>1
          <5> QED
            BY <4>1, <2>4, <3>3, <5>2
        <4>2. CASE d # n
          <5>1. d \in 0 .. n - 1 /\ (d # 0 => d - 1 \in 0 .. n - 1)
            BY <4>2, <2>2
          <5>2. v[d] = IF d = 0 THEN Overflow(toks) ELSE Calls(v[d - 1], toks)
            BY <5>1, <3>2 DEF Nesting
          <5>3. t[d] = v[d]
            BY <4>2, <3>3
          <5>4. d # 0 => t[d - 1] = v[d - 1]
            BY <5>1, <2>2, <3>3
          <5> QED
            BY <5>2, <5>3, <5>4
        <4> QED
          BY <4>1, <4>2
      <3>6. Nesting(t, toks, n)
        BY <3>4, <3>5 DEF Nesting
      <3> QED
        BY <2>1, <3>6
    <2> QED
      BY <2>3, <2>4
  <1> QED
    BY <1>1

\* However deep the calls may nest.
LEMMA ParsingCalling ==
    ASSUME NEW toks, Vector(toks)
    PROVE  Calling(toks, Parsing(toks))
  <1> DEFINE v == CHOOSE v : Nesting(v, toks, MaxDepth)
  <1>1. Nesting(v, toks, MaxDepth)
    BY DepthAssumption, NestingExists
  <1>2. Parsing(toks) = v[MaxDepth]
    BY DEF Parsing, Nesting
  <1> HIDE DEF v
  <1> DEFINE Bad == {n \in Nat : n \in 0 .. MaxDepth /\ ~Calling(toks, v[n])}
  <1>3. ASSUME Bad # {} PROVE FALSE
    <2>1. PICK n \in Bad : \A m \in Bad : n <= m
      BY <1>3, SmallestNumber
    <2>2. v[n] = IF n = 0 THEN Overflow(toks) ELSE Calls(v[n - 1], toks)
      BY <1>1, <2>1 DEF Nesting
    <2>3. n # 0 => n - 1 \in 0 .. MaxDepth /\ n - 1 \notin Bad
      BY <2>1, DepthAssumption
    <2>4. n # 0 => Calling(toks, v[n - 1])
      BY <2>3
    <2>5. Len(toks) \in Nat
      BY VectorParts
    <2> QED
      BY <2>1, <2>2, <2>4, <2>5, OverflowCalling, CallsCalling
  <1>4. MaxDepth \notin Bad /\ MaxDepth \in 0 .. MaxDepth
    BY <1>3, DepthAssumption
  <1> QED
    BY <1>2, <1>4, DepthAssumption

\* What a parse that ends well leaves: a heap of whole nodes, in the order of the source.
Sound(h, root, count) ==
    /\ h \in Seq(Node)
    /\ root \in {NullAst, Len(h)}
    /\ Family(h, 0, {root})
    /\ Whole(h, 0, {root}, count)
    /\ Ordered(h, 0)
    /\ \A n, m \in 1 .. Len(h) :
          h[n].kind # "UNKNOWN" /\ h[m].kind # "UNKNOWN" /\ h[n].at = h[m].at => n = m

(***************************************************************************)
(* Whatever the tokens, and however deep the calls may nest, what          *)
(* cabor_parse leaves when it returns (parser.c:170-741): no two nodes at  *)
(* one token, no node below two others, every node with the edges its kind *)
(* needs and nodes of the operands on either side of their operator, and   *)
(* nothing that was allocated lost, if no expression and no call was given *)
(* up.                                                                     *)
(***************************************************************************)
THEOREM ParseBuilds ==
    ASSUME NEW toks, Vector(toks)
    PROVE  LET p == Parse(toks)
           IN  /\ p \in Parser(toks)
               /\ Ok(p) => /\ Sound(p.heap, p.node, p.made)
                           /\ InPlace(p.heap, 0, Len(toks), Len(toks), Size(p), 1, p.at)
  <1> DEFINE start == [toks |-> toks, units |-> 0, at |-> 1, node |-> NullAst,
                       heap |-> <<>>, made |-> 0, end |-> "ok"]
  <1>1. Parse(toks) = IF toks = <<>> THEN Stop(start, "aborted") ELSE Parsing(toks)[1][start]
    BY DEF Parse
  <1>2. /\ start \in Parser(toks) /\ start.toks = toks /\ start.at = 1 /\ start.heap = <<>>
        /\ start.made = 0 /\ start.units = 0 /\ Ok(start)
    BY DEF Parser, NullAst, End, Ok
  <1>3. Len(toks) \in Nat
    BY VectorParts
  <1> HIDE DEF start
  <1>4. CASE toks = <<>>
    BY <1>1, <1>2, <1>3, <1>4, StopHand
  <1>5. CASE toks # <<>>
    <2> DEFINE q == Parse(toks)
    <2>1. Len(start.heap) = 0 /\ Size(start) = Len(toks)
      BY <1>2, <1>3 DEF Size
    <2>2. Len(toks) # 0
      BY <1>5, VectorParts
    <2>3. Ready(start)
      BY <1>2, <1>3, <2>1, <2>2 DEF Ready
    <2>4. Hand(start, q)
      BY <1>1, <1>2, <1>5, <2>3, ParsingCalling, Levels DEF Calling
    <2> HIDE DEF q
    <2>5. q \in Parser(toks)
      BY <1>2, <2>4 DEF Hand
    <2>6. ASSUME Ok(q)
          PROVE  /\ Sound(q.heap, q.node, q.made)
                 /\ InPlace(q.heap, 0, Len(toks), Len(toks), Size(q), 1, q.at)
      <3>1. /\ q.node \in {NullAst, Len(q.heap)} /\ Grown(start, q, 1, q.at, {q.node})
        BY <1>2, <2>4, <2>6 DEF Hand
      <3>2. Whole(q.heap, 0, {q.node}, q.made - 0)
        BY <1>2, <2>1, <3>1 DEF Grown
      <3>3. q.made - 0 = q.made /\ q.heap \in Seq(Node)
        BY <1>3, <2>5, ParserParts
      <3>4. Whole(q.heap, 0, {q.node}, q.made)
        BY <3>2, <3>3
      <3>5. /\ Family(q.heap, 0, {q.node}) /\ Ordered(q.heap, 0)
            /\ InPlace(q.heap, 0, Len(toks), Len(toks), Size(q), 1, q.at)
        BY <1>2, <2>1, <3>1 DEF Grown
      <3>6. \A n, m \in 1 .. Len(q.heap) :
               q.heap[n].kind # "UNKNOWN" /\ q.heap[m].kind # "UNKNOWN" /\ q.heap[n].at = q.heap[m].at
                 => n = m
        BY <3>5 DEF InPlace
      <3> QED
        BY <3>1, <3>3, <3>4, <3>5, <3>6 DEF Sound
    <2> QED
      BY <2>5, <2>6 DEF q
  <1> QED
    BY <1>4, <1>5
=============================================================================
