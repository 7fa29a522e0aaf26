--------------------------- MODULE OutcomesProofs ---------------------------
(***************************************************************************)
(* The properties of Outcomes, for inputs of any size.  The functions they *)
(* are about go through a sequence with FoldLeft, so each proof is by      *)
(* induction over how far they have got: that the numbers up to n can be   *)
(* counted through follows from the well-foundedness of Nat (Induction);   *)
(* from it, that what FoldLeft computes is defined (Folding) and is what   *)
(* it was one element before with the next one taken in (Unfolding).       *)
(***************************************************************************)
EXTENDS Outcomes, WellFoundedInduction, FunctionTheorems, FiniteSetTheorems, TLAPS

-----------------------------------------------------------------------------
LEMMA Least ==
  ASSUME NEW T \in SUBSET Nat, T # {}
  PROVE  \E m \in T : \A k \in T : m <= k
<1>1. \E x \in T : \A y \in T : ~ (<<y, x>> \in OpToRel(<, Nat))
  BY WFMin, NatLessThanWellFounded
<1>2. \A x, y \in T : <<y, x>> \in OpToRel(<, Nat) <=> y < x
  BY DEF OpToRel
<1>3. \E x \in T : \A y \in T : ~ (y < x)
  BY <1>1, <1>2, Zenon
<1> QED BY <1>3

LEMMA Induction ==
  ASSUME NEW T, NEW n \in Nat, 0 \in T, \A k \in 1 .. n : k - 1 \in T => k \in T
  PROVE  0 .. n \subseteq T
<1> DEFINE U == {k \in 0 .. n : k \notin T}
<1>1. SUFFICES ASSUME U # {} PROVE FALSE
  OBVIOUS
<1>2. PICK m \in U : \A k \in U : m <= k
  <2>1. U \in SUBSET Nat
    OBVIOUS
  <2> HIDE DEF U
  <2> QED BY <2>1, <1>1, Least
<1>3. m \in 1 .. n /\ m - 1 \in 0 .. n /\ m - 1 \notin U
  BY <1>2
<1>4. m - 1 \in T
  BY <1>3
<1> QED BY <1>3, <1>4, <1>2

(* The greatest of a set of numbers that has a bound.                      *)
LEMMA Greatest ==
  ASSUME NEW n \in Nat, NEW s \in SUBSET (1 .. n), s # {}
  PROVE  /\ Max(s) \in s
         /\ \A k \in s : k <= Max(s)
<1> DEFINE U == {n - k : k \in s}
<1>1. U \in SUBSET Nat /\ U # {}
  OBVIOUS
<1>2. PICK m \in U : \A k \in U : m <= k
  BY <1>1, Least
<1>3. PICK x \in s : m = n - x
  BY <1>2
<1>4. \A k \in s : x >= k
  BY <1>2, <1>3
<1>5. \E y \in s : \A k \in s : y >= k
  BY <1>4
<1> HIDE DEF U
<1>6. Max(s) \in s /\ \A k \in s : Max(s) >= k
  BY <1>5 DEF Max
<1> QED BY <1>6

LEMMA ButLast ==
  ASSUME NEW k \in Nat, k > 0
  PROVE  1 .. k # {} /\ (1 .. k) \ {k} = 1 .. k - 1
OBVIOUS

LEMMA MaxOfAll ==
  ASSUME NEW n \in Nat, n > 0
  PROVE  Max(1 .. n) = n
BY DEF Max

(* What FoldLeft computes is defined: turn says what it does with its k-th *)
(* element.                                                                *)
FoldedBy(h, turn, S, base, n) ==
  /\ h \in [SUBSET (1 .. n) -> S]
  /\ \A s \in SUBSET (1 .. n) : h[s] = IF s = {} THEN base ELSE turn[Max(s)][h[s \ {Max(s)}]]

LEMMA Folding ==
  ASSUME NEW n \in Nat, NEW S, NEW base \in S, NEW turn \in [1 .. n -> [S -> S]]
  PROVE  \E h : FoldedBy(h, turn, S, base, n)
<1> DEFINE T == {k \in 0 .. n : \E h : FoldedBy(h, turn, S, base, k)}
<1>1. 0 \in T
  <2> DEFINE h == [s \in SUBSET (1 .. 0) |-> base]
  <2>1. h \in [SUBSET (1 .. 0) -> S]
    OBVIOUS
  <2>2. \A s \in SUBSET (1 .. 0) : s = {} /\ h[s] = base
    OBVIOUS
  <2>3. FoldedBy(h, turn, S, base, 0)
    BY <2>1, <2>2 DEF FoldedBy
  <2> QED BY <2>3
<1>2. ASSUME NEW k \in 1 .. n, k - 1 \in T PROVE k \in T
  <2>1. PICK g : FoldedBy(g, turn, S, base, k - 1)
    BY <1>2
  <2>2. /\ g \in [SUBSET (1 .. k - 1) -> S]
        /\ \A s \in SUBSET (1 .. k - 1) : g[s] = IF s = {} THEN base ELSE turn[Max(s)][g[s \ {Max(s)}]]
    BY <2>1 DEF FoldedBy
  <2> DEFINE h == [s \in SUBSET (1 .. k) |-> IF k \in s THEN turn[k][g[s \ {k}]] ELSE g[s]]
  <2>3. \A s \in SUBSET (1 .. k) : s \ {k} \in SUBSET (1 .. k - 1)
    OBVIOUS
  <2>4. ASSUME NEW s \in SUBSET (1 .. k) PROVE h[s] \in S
    <3>1. CASE k \in s
      <4>1. g[s \ {k}] \in S
        BY <2>2, <2>3
      <4>2. h[s] = turn[k][g[s \ {k}]]
        BY <3>1
      <4> QED BY <4>1, <4>2
    <3>2. CASE k \notin s
      BY <3>2, <2>2
    <3> QED BY <3>1, <3>2
  <2>5. h \in [SUBSET (1 .. k) -> S]
    BY <2>4
  <2>6. ASSUME NEW s \in SUBSET (1 .. k)
        PROVE  h[s] = IF s = {} THEN base ELSE turn[Max(s)][h[s \ {Max(s)}]]
    <3>1. CASE k \in s
      <4>1. Max(s) = k
        <5>1. Max(s) \in s /\ k <= Max(s)
          BY <3>1, Greatest, k \in Nat, s # {}
        <5>2. Max(s) \in 1 .. k
          BY <5>1
        <5> QED BY <5>1, <5>2
      <4>2. h[s \ {k}] = g[s \ {k}]
        OBVIOUS
      <4>3. h[s] = turn[k][g[s \ {k}]]
        BY <3>1
      <4> HIDE DEF h
      <4> QED BY <4>1, <4>2, <4>3, <3>1
    <3>2. CASE k \notin s
      <4>1. s \in SUBSET (1 .. k - 1)
        BY <3>2
      <4>2. h[s] = g[s] /\ \A r \in SUBSET s : h[r] = g[r]
        BY <3>2
      <4> HIDE DEF h
      <4> QED BY <4>1, <4>2, <2>2
    <3> QED BY <3>1, <3>2
  <2>7. FoldedBy(h, turn, S, base, k)
    BY <2>5, <2>6 DEF FoldedBy
  <2> QED BY <2>7
<1>3. 0 .. n \subseteq T
  <2> HIDE DEF T
  <2> QED BY <1>1, <1>2, Induction
<1> QED BY <1>3

(* What it computes of the first k elements.                               *)
Unfolded(h, turn, S, base, n) ==
  /\ h[1 .. 0] = base
  /\ \A k \in 0 .. n : h[1 .. k] \in S
  /\ \A k \in 1 .. n : h[1 .. k] = turn[k][h[1 .. k - 1]]

LEMMA Unfolding ==
  ASSUME NEW n \in Nat, NEW S, NEW base \in S, NEW turn \in [1 .. n -> [S -> S]],
         NEW h, FoldedBy(h, turn, S, base, n)
  PROVE  Unfolded(h, turn, S, base, n)
<1>1. /\ h \in [SUBSET (1 .. n) -> S]
      /\ \A s \in SUBSET (1 .. n) : h[s] = IF s = {} THEN base ELSE turn[Max(s)][h[s \ {Max(s)}]]
  BY DEF FoldedBy
<1>2. 1 .. 0 = {} /\ \A k \in 0 .. n : 1 .. k \in SUBSET (1 .. n)
  OBVIOUS
<1>3. ASSUME NEW k \in 1 .. n
      PROVE  h[1 .. k] = turn[k][h[1 .. k - 1]]
  <2>1. Max(1 .. k) = k
    BY MaxOfAll
  <2>2. k \in Nat /\ k > 0 /\ k \in 0 .. n
    OBVIOUS
  <2>3. 1 .. k # {} /\ (1 .. k) \ {k} = 1 .. k - 1
    BY <2>2, ButLast, Zenon
  <2>4. 1 .. k \in SUBSET (1 .. n)
    BY <1>2, <2>2, Zenon
  <2>5. h[1 .. k] = turn[Max(1 .. k)][h[(1 .. k) \ {Max(1 .. k)}]]
    BY <1>1, <2>3, <2>4
  <2> QED BY <2>1, <2>3, <2>5
<1>4. h[1 .. 0] = base
  BY <1>1, <1>2
<1>5. \A k \in 0 .. n : h[1 .. k] \in S
  BY <1>1, <1>2
<1> QED BY <1>3, <1>4, <1>5 DEF Unfolded

(* The least of a set of numbers.                                          *)
LEMMA Smallest ==
  ASSUME NEW s \in SUBSET Nat, s # {}
  PROVE  /\ Min(s) \in s
         /\ \A k \in s : Min(s) <= k
<1>1. \E m \in s : \A k \in s : m <= k
  BY Least
<1> QED BY <1>1 DEF Min

-----------------------------------------------------------------------------
(* What a thread has found behind each line.                               *)
Searching(t, b, lines, slice, T, n) ==
  /\ t[0] = <<>>
  /\ \A k \in 0 .. n : t[k] \in Seq(T)
  /\ \A k \in 1 .. n : t[k] = IF k \in slice /\ Included(b, lines[k])
                              THEN Append(t[k - 1], Tag(b, lines[k])) ELSE t[k - 1]
  /\ do_tok_search(b, lines, slice) = t[n]

LEMMA SearchSteps ==
  ASSUME NEW b, NEW n \in Nat, NEW lines, Len(lines) = n, NEW slice, NEW T,
         \A k \in 1 .. n : k \in slice /\ Included(b, lines[k]) => Tag(b, lines[k]) \in T
  PROVE  \E t : Searching(t, b, lines, slice, T, n)
<1> DEFINE one(found, i) == IF i \in slice /\ Included(b, lines[i]) THEN Append(found, Tag(b, lines[i])) ELSE found
           turn == [k \in 1 .. n |-> [found \in Seq(T) |-> one(found, k)]]
           seq == [i \in 1 .. n |-> i]
           step(h) == [s \in SUBSET DOMAIN seq |-> IF s = {} THEN <<>> ELSE one(h[s \ {Max(s)}], seq[Max(s)])]
           h == CHOOSE h : h = step(h)
<1>1. do_tok_search(b, lines, slice) = h[DOMAIN seq]
  BY DEF do_tok_search, FoldLeft, MapThenFoldSet
<1>2. DOMAIN seq = 1 .. n /\ \A k \in 1 .. n : seq[k] = k
  OBVIOUS
<1> HIDE DEF seq
<1>3. \A k \in 1 .. n, found \in Seq(T) : one(found, k) \in Seq(T)
  OBVIOUS
<1> HIDE DEF one
<1>4. turn \in [1 .. n -> [Seq(T) -> Seq(T)]] /\ <<>> \in Seq(T)
  BY <1>3
<1> HIDE DEF turn
<1>5. PICK g : FoldedBy(g, turn, Seq(T), <<>>, n)
  BY <1>4, Folding
<1>6. g = step(g)
  <2>1. /\ g \in [SUBSET (1 .. n) -> Seq(T)]
        /\ \A s \in SUBSET (1 .. n) : g[s] = IF s = {} THEN <<>> ELSE turn[Max(s)][g[s \ {Max(s)}]]
    BY <1>5 DEF FoldedBy
  <2>2. ASSUME NEW s \in SUBSET (1 .. n), s # {}
        PROVE  g[s] = one(g[s \ {Max(s)}], seq[Max(s)])
    <3>1. Max(s) \in 1 .. n
      BY <2>2, Greatest
    <3>2. g[s \ {Max(s)}] \in Seq(T)
      BY <2>1
    <3>3. g[s] = turn[Max(s)][g[s \ {Max(s)}]]
      BY <2>1, <2>2
    <3> QED BY <3>1, <3>2, <3>3, <1>2 DEF turn
  <2> QED BY <2>1, <2>2, <1>2
<1>7. h = step(h)
  <2> HIDE DEF step
  <2> QED BY <1>6
<1> HIDE DEF h
<1>8. h[1 .. 0] = <<>>
  BY <1>7, <1>2
<1>9. ASSUME NEW k \in 1 .. n
      PROVE  h[1 .. k] = one(h[1 .. k - 1], k)
  <2>1. 1 .. k \in SUBSET DOMAIN seq /\ 1 .. k # {} /\ (1 .. k) \ {k} = 1 .. k - 1
    BY <1>2
  <2>2. Max(1 .. k) = k
    BY MaxOfAll
  <2>3. h[1 .. k] = one(h[(1 .. k) \ {Max(1 .. k)}], seq[Max(1 .. k)])
    BY <2>1, <1>7
  <2> QED BY <2>1, <2>2, <2>3, <1>2
<1> DEFINE t == [k \in 0 .. n |-> h[1 .. k]]
<1>10. t[0] = <<>> /\ (\A k \in 1 .. n : t[k] = one(t[k - 1], k)) /\ t[n] = h[1 .. n]
  BY <1>8, <1>9
<1> HIDE DEF t
<1>11. \A k \in 0 .. n : t[k] \in Seq(T)
  <2> DEFINE U == {k \in 0 .. n : t[k] \in Seq(T)}
  <2>1. 0 \in U /\ \A k \in 1 .. n : k - 1 \in U => k \in U
    <3>1. 0 \in U
      <4>1. t[0] \in Seq(T)
        BY <1>4, <1>10, Zenon
      <4> QED BY <4>1
    <3>2. ASSUME NEW k \in 1 .. n, k - 1 \in U PROVE k \in U
      <4>1. t[k] = one(t[k - 1], k) /\ t[k - 1] \in Seq(T)
        BY <1>10, <3>2
      <4> QED BY <4>1, <1>3
    <3> QED BY <3>1, <3>2
  <2>2. 0 .. n \subseteq U
    <3> HIDE DEF U
    <3> QED BY <2>1, Induction
  <2> QED BY <2>2
<1>12. do_tok_search(b, lines, slice) = t[n]
  BY <1>1, <1>2, <1>10
<1> QED BY <1>10, <1>11, <1>12 DEF one, Searching

(* The tags of the lines that one thread is to look at.                    *)
TagsOf(b, lines, slice) == {Tag(b, lines[k]) : k \in {j \in 1 .. Len(lines) : j \in slice /\ Included(b, lines[j])}}

(* A thread returns the tags of its slice.                                 *)
LEMMA Searched ==
  ASSUME NEW b, NEW lines, Len(lines) \in Nat, NEW slice
  PROVE  /\ do_tok_search(b, lines, slice) \in Seq(TagsOf(b, lines, slice))
         /\ ToSet(do_tok_search(b, lines, slice)) = TagsOf(b, lines, slice)
<1> DEFINE n == Len(lines)
           T == TagsOf(b, lines, slice)
<1>1. \A k \in 1 .. n : k \in slice /\ Included(b, lines[k]) => Tag(b, lines[k]) \in T
  BY DEF TagsOf
<1>2. \A x \in T : \E k \in 1 .. n : k \in slice /\ Included(b, lines[k]) /\ x = Tag(b, lines[k])
  BY DEF TagsOf
<1>3. n \in Nat /\ Len(lines) = n
  OBVIOUS
<1> HIDE DEF n, T
<1>4. PICK t : Searching(t, b, lines, slice, T, n)
  BY <1>3, <1>1, SearchSteps, Zenon
<1>5. /\ t[0] = <<>>
      /\ \A k \in 0 .. n : t[k] \in Seq(T)
      /\ \A k \in 1 .. n : t[k] = IF k \in slice /\ Included(b, lines[k])
                                  THEN Append(t[k - 1], Tag(b, lines[k])) ELSE t[k - 1]
      /\ do_tok_search(b, lines, slice) = t[n]
  BY <1>4 DEF Searching
<1> DEFINE U == {k \in 0 .. n : \A j \in 1 .. k : j \in slice /\ Included(b, lines[j])
                                                 => \E i \in 1 .. Len(t[k]) : t[k][i] = Tag(b, lines[j])}
<1>6. 0 \in U
  BY DEF n
<1>7. ASSUME NEW k \in 1 .. n, k - 1 \in U PROVE k \in U
  <2>1. t[k - 1] \in Seq(T) /\ k \in Nat
    BY <1>5 DEF n
  <2>2. \A j \in 1 .. k - 1 : j \in slice /\ Included(b, lines[j])
                              => \E i \in 1 .. Len(t[k - 1]) : t[k - 1][i] = Tag(b, lines[j])
    BY <1>7
  <2>3. CASE k \in slice /\ Included(b, lines[k])
    <3> DEFINE x == Tag(b, lines[k])
    <3>1. t[k] = Append(t[k - 1], x) /\ x \in T
      BY <2>3, <1>5, <1>1
    <3> HIDE DEF x
    <3>2. /\ Len(t[k]) = Len(t[k - 1]) + 1
          /\ t[k][Len(t[k - 1]) + 1] = x
          /\ \A i \in 1 .. Len(t[k - 1]) : t[k][i] = t[k - 1][i]
      BY <3>1, <2>1
    <3>3. Len(t[k - 1]) \in Nat
      BY <2>1
    <3>4. ASSUME NEW j \in 1 .. k, j \in slice, Included(b, lines[j])
          PROVE  \E i \in 1 .. Len(t[k]) : t[k][i] = Tag(b, lines[j])
      <4>1. CASE j = k
        BY <4>1, <3>2, <3>3 DEF x
      <4>2. CASE j # k
        <5>1. PICK i \in 1 .. Len(t[k - 1]) : t[k - 1][i] = Tag(b, lines[j])
          BY <4>2, <2>2, <3>4, <2>1
        <5> QED BY <5>1, <3>2, <3>3
      <4> QED BY <4>1, <4>2
    <3> QED BY <3>4
  <2>4. CASE ~ (k \in slice /\ Included(b, lines[k]))
    <3>1. t[k] = t[k - 1]
      BY <2>4, <1>5
    <3>2. \A j \in 1 .. k : j \in 1 .. k - 1 \/ j = k
      BY <2>1
    <3> QED BY <3>1, <3>2, <2>2, <2>4
  <2> QED BY <2>3, <2>4
<1>8. n \in U
  <2>1. n \in Nat
    BY DEF n
  <2>2. 0 .. n \subseteq U
    <3> HIDE DEF U
    <3> QED BY <1>6, <1>7, <2>1, Induction
  <2> QED BY <2>1, <2>2
<1>9. t[n] \in Seq(T)
  BY <1>5 DEF n
<1>10. ToSet(t[n]) \subseteq T
  BY <1>9 DEF ToSet
<1>11. ASSUME NEW x \in T PROVE x \in ToSet(t[n])
  <2>1. PICK j \in 1 .. n : j \in slice /\ Included(b, lines[j]) /\ x = Tag(b, lines[j])
    BY <1>2
  <2>2. PICK i \in 1 .. Len(t[n]) : t[n][i] = x
    BY <1>8, <2>1
  <2> QED BY <2>2, <1>9 DEF ToSet
<1> QED BY <1>5, <1>9, <1>10, <1>11 DEF T

-----------------------------------------------------------------------------
(* What FlattenSeq has joined behind each sequence.                        *)
Joining(t, seqs, T, n) ==
  /\ \A k \in 1 .. n : t[k] \in Seq(T)
  /\ \A k \in 1 .. n : t[k] = IF k = 1 THEN seqs[k] ELSE t[k - 1] \o seqs[k]
  /\ FlattenSeq(seqs) = t[n]

LEMMA JoinSteps ==
  ASSUME NEW n \in Nat, n > 0, NEW T, NEW seqs \in Seq(Seq(T)), Len(seqs) = n
  PROVE  \E t : Joining(t, seqs, T, n)
<1> DEFINE one(k, v) == IF k = 1 THEN seqs[k] ELSE v \o seqs[k]
           turn == [k \in 1 .. n |-> [v \in Seq(T) |-> one(k, v)]]
           step(f) == [i \in 1 .. n |-> IF i = 1 THEN seqs[i] ELSE f[i - 1] \o seqs[i]]
           t == CHOOSE f : f = step(f)
<1>1. FlattenSeq(seqs) = t[n]
  BY DEF FlattenSeq
<1>2. \A k \in 1 .. n : seqs[k] \in Seq(T)
  OBVIOUS
<1>3. \A k \in 1 .. n, v \in Seq(T) : one(k, v) \in Seq(T)
  BY <1>2
<1>4. turn \in [1 .. n -> [Seq(T) -> Seq(T)]]
  <2> HIDE DEF one
  <2> QED BY <1>3
<1>5. <<>> \in Seq(T)
  OBVIOUS
<1> HIDE DEF turn
<1>6. PICK h : FoldedBy(h, turn, Seq(T), <<>>, n)
  BY <1>4, <1>5, Folding
<1>7. /\ h[1 .. 0] = <<>>
      /\ \A k \in 0 .. n : h[1 .. k] \in Seq(T)
      /\ \A k \in 1 .. n : h[1 .. k] = turn[k][h[1 .. k - 1]]
  <2>1. Unfolded(h, turn, Seq(T), <<>>, n)
    BY <1>4, <1>5, <1>6, Unfolding
  <2> QED BY <2>1 DEF Unfolded
<1>8. ASSUME NEW k \in 1 .. n PROVE h[1 .. k] = one(k, h[1 .. k - 1])
  <2>1. h[1 .. k - 1] \in Seq(T)
    BY <1>7
  <2> QED BY <2>1, <1>7 DEF turn
<1> DEFINE g == [i \in 1 .. n |-> h[1 .. i]]
<1>9. g = step(g)
  <2>1. ASSUME NEW k \in 1 .. n
        PROVE  g[k] = IF k = 1 THEN seqs[k] ELSE g[k - 1] \o seqs[k]
    BY <1>8
  <2>2. g = [i \in 1 .. n |-> g[i]]
    OBVIOUS
  <2> HIDE DEF g
  <2> QED BY <2>1, <2>2
<1>10. t = step(t)
  <2> HIDE DEF step, g
  <2> QED BY <1>9
<1> HIDE DEF t, g
<1>11. \A k \in 1 .. n : t[k] = IF k = 1 THEN seqs[k] ELSE t[k - 1] \o seqs[k]
  BY <1>10
<1> HIDE DEF step
<1>12. ASSUME NEW k \in 1 .. n PROVE t[k] \in Seq(T)
  <2> DEFINE U == {j \in 0 .. n : j = 0 \/ t[j] \in Seq(T)}
  <2>1. 0 \in U
    OBVIOUS
  <2>2. ASSUME NEW j \in 1 .. n, j - 1 \in U PROVE j \in U
    <3>1. seqs[j] \in Seq(T) /\ (j = 1 \/ t[j - 1] \in Seq(T))
      BY <2>2, <1>2
    <3>2. t[j] = IF j = 1 THEN seqs[j] ELSE t[j - 1] \o seqs[j]
      BY <1>11
    <3>3. t[j] \in Seq(T)
      BY <3>1, <3>2
    <3> QED BY <3>3
  <2>3. 0 .. n \subseteq U
    <3> HIDE DEF U
    <3> QED BY <2>1, <2>2, Induction
  <2> QED BY <2>3
<1> QED BY <1>1, <1>11, <1>12 DEF Joining

LEMMA ToSetConcat ==
  ASSUME NEW T, NEW s \in Seq(T), NEW r \in Seq(T)
  PROVE  ToSet(s \o r) = ToSet(s) \cup ToSet(r)
<1>1. ASSUME NEW x \in ToSet(s \o r) PROVE x \in ToSet(s) \cup ToSet(r)
  <2>1. PICK i \in 1 .. Len(s) + Len(r) : x = (s \o r)[i]
    BY DEF ToSet
  <2>2. CASE i <= Len(s)
    BY <2>1, <2>2 DEF ToSet
  <2>3. CASE i > Len(s)
    <3>1. x = r[i - Len(s)] /\ i - Len(s) \in 1 .. Len(r)
      BY <2>1, <2>3
    <3> QED BY <3>1 DEF ToSet
  <2> QED BY <2>2, <2>3
<1>2. ASSUME NEW x \in ToSet(s) PROVE x \in ToSet(s \o r)
  <2>1. PICK i \in 1 .. Len(s) : x = s[i]
    BY DEF ToSet
  <2>2. i \in 1 .. Len(s \o r) /\ (s \o r)[i] = x
    BY <2>1
  <2>3. s \o r \in Seq(T)
    OBVIOUS
  <2> QED BY <2>2, <2>3 DEF ToSet
<1>3. ASSUME NEW x \in ToSet(r) PROVE x \in ToSet(s \o r)
  <2>1. PICK i \in 1 .. Len(r) : x = r[i]
    BY DEF ToSet
  <2>2. Len(s) + i \in 1 .. Len(s \o r) /\ (s \o r)[Len(s) + i] = x
    BY <2>1
  <2>3. s \o r \in Seq(T)
    OBVIOUS
  <2> QED BY <2>2, <2>3 DEF ToSet
<1> QED BY <1>1, <1>2, <1>3

(* Joined, sequences have the elements that they had.                      *)
LEMMA Joined ==
  ASSUME NEW n \in Nat, n > 0, NEW T, NEW seqs \in Seq(Seq(T)), Len(seqs) = n
  PROVE  /\ FlattenSeq(seqs) \in Seq(T)
         /\ \A x : x \in ToSet(FlattenSeq(seqs)) <=> \E i \in 1 .. n : x \in ToSet(seqs[i])
<1>1. PICK t : Joining(t, seqs, T, n)
  BY JoinSteps
<1>2. /\ \A k \in 1 .. n : t[k] \in Seq(T)
      /\ \A k \in 1 .. n : t[k] = IF k = 1 THEN seqs[k] ELSE t[k - 1] \o seqs[k]
      /\ FlattenSeq(seqs) = t[n]
  BY <1>1 DEF Joining
<1>3. \A k \in 1 .. n : seqs[k] \in Seq(T)
  OBVIOUS
<1> DEFINE U == {k \in 0 .. n : k = 0 \/ ToSet(t[k]) = UNION {ToSet(seqs[i]) : i \in 1 .. k}}
<1>4. 0 \in U
  OBVIOUS
<1>5. ASSUME NEW k \in 1 .. n, k - 1 \in U PROVE k \in U
  <2>1. CASE k = 1
    <3>1. t[1] = seqs[1]
      BY <1>2
    <3>2. 1 .. 1 = {1}
      OBVIOUS
    <3> QED BY <2>1, <3>1, <3>2
  <2>2. CASE k # 1
    <3>1. k - 1 \in 1 .. n
      BY <2>2
    <3>2. t[k] = t[k - 1] \o seqs[k] /\ t[k - 1] \in Seq(T) /\ seqs[k] \in Seq(T)
      BY <3>1, <2>2, <1>2, <1>3
    <3>3. ToSet(t[k]) = ToSet(t[k - 1]) \cup ToSet(seqs[k])
      BY <3>2, ToSetConcat
    <3>4. ToSet(t[k - 1]) = UNION {ToSet(seqs[i]) : i \in 1 .. k - 1}
      BY <1>5, <2>2
    <3>5. 1 .. k = (1 .. k - 1) \cup {k}
      OBVIOUS
    <3>6. UNION {ToSet(seqs[i]) : i \in 1 .. k} = (UNION {ToSet(seqs[i]) : i \in 1 .. k - 1}) \cup ToSet(seqs[k])
      BY <3>5
    <3>7. ToSet(t[k]) = UNION {ToSet(seqs[i]) : i \in 1 .. k}
      BY <3>3, <3>4, <3>6
    <3> QED BY <3>7
  <2> QED BY <2>1, <2>2
<1>6. 0 .. n \subseteq U
  <2> HIDE DEF U
  <2> QED BY <1>4, <1>5, Induction
<1>7. n \in U
  <2>1. n \in 0 .. n
    OBVIOUS
  <2> HIDE DEF U
  <2> QED BY <2>1, <1>6
<1> QED BY <1>2, <1>7

-----------------------------------------------------------------------------
(* An element is put at a place, and what was there moves.                 *)
Moved(r, s, i, e) ==
  /\ Len(r) = Len(s) + 1
  /\ \A j \in 1 .. i - 1 : r[j] = s[j]
  /\ r[i] = e
  /\ \A j \in i + 1 .. Len(s) + 1 : r[j] = s[j - 1]

LEMMA InsertAtElements ==
  ASSUME NEW T, NEW s \in Seq(T), NEW e \in T, NEW i \in 1 .. Len(s) + 1
  PROVE  InsertAt(s, i, e) \in Seq(T) /\ Moved(InsertAt(s, i, e), s, i, e)
<1> DEFINE front == SubSeq(s, 1, i - 1)
           back == SubSeq(s, i, Len(s))
<1>1. /\ front \in Seq(T) /\ Len(front) = i - 1
      /\ \A j \in 1 .. i - 1 : front[j] = s[j]
  OBVIOUS
<1>2. /\ back \in Seq(T) /\ Len(back) = Len(s) - i + 1
      /\ \A j \in 1 .. Len(s) - i + 1 : back[j] = s[i + j - 1]
  OBVIOUS
<1>3. InsertAt(s, i, e) = front \o <<e>> \o back
  BY DEF InsertAt
<1> HIDE DEF front, back
<1> DEFINE begin == front \o <<e>>
<1>4. begin \in Seq(T) /\ Len(begin) = i /\ begin[i] = e /\ \A j \in 1 .. i - 1 : begin[j] = s[j]
  BY <1>1
<1> HIDE DEF begin
<1>5. begin \o back \in Seq(T) /\ Len(begin \o back) = Len(s) + 1
  <2>1. begin \o back \in Seq(T) /\ Len(begin \o back) = Len(begin) + Len(back)
    <3>1. begin \in Seq(T) /\ back \in Seq(T)
      BY <1>2, <1>4
    <3> QED BY <3>1
  <2>2. i + (Len(s) - i + 1) = Len(s) + 1
    OBVIOUS
  <2> QED BY <2>1, <2>2, <1>2, <1>4
<1>6. ASSUME NEW j \in 1 .. i
      PROVE  (begin \o back)[j] = begin[j]
  BY <1>2, <1>4
<1>7. ASSUME NEW j \in i + 1 .. Len(s) + 1
      PROVE  (begin \o back)[j] = s[j - 1]
  <2>1. (begin \o back)[j] = back[j - i]
    BY <1>2, <1>4
  <2>2. j - i \in 1 .. Len(s) - i + 1 /\ i + (j - i) - 1 = j - 1
    OBVIOUS
  <2>3. back[j - i] = s[i + (j - i) - 1]
    BY <2>2, <1>2
  <2> QED BY <2>1, <2>2, <2>3
<1>8. i \in 1 .. i /\ \A j \in 1 .. i - 1 : j \in 1 .. i
  OBVIOUS
<1>9. begin \o back \in Seq(T) /\ Moved(begin \o back, s, i, e)
  BY <1>4, <1>5, <1>6, <1>7, <1>8 DEF Moved
<1> QED BY <1>3, <1>9 DEF begin

(* In the order of tag_cmp.                                                *)
Ordered(tags) == \A i, j \in 1 .. Len(tags) : i < j => tag_cmp(tags[i], tags[j])

SomeTags(T) == T \subseteq [name : Int, kind : Int]

LEMMA Comparing ==
  ASSUME NEW T, SomeTags(T)
  PROVE  /\ \A x, y \in T : tag_cmp(x, y) \/ tag_cmp(y, x)
         /\ \A x, y, z \in T : tag_cmp(x, y) /\ tag_cmp(y, z) => tag_cmp(x, z)
         /\ \A x, y \in T : tag_cmp(x, y) /\ tag_cmp(y, x) => x = y
<1>1. \A x \in T : x.kind \in Int /\ x.name \in Int
  BY DEF SomeTags
<1>2. \A x, y \in T : x.kind = y.kind /\ x.name = y.name => x = y
  BY DEF SomeTags
<1> QED BY <1>1, <1>2 DEF tag_cmp

(* Whatever the order.                                                     *)
LEMMA InsertedType ==
  ASSUME NEW T, NEW x \in T, NEW v \in Seq(T)
  PROVE  Inserted(v, x) \in Seq(T)
<1> DEFINE I == {i \in 1 .. Len(v) : ~ tag_cmp(v[i], x)}
<1>1. CASE I = {}
  <2>1. Inserted(v, x) = Append(v, x)
    BY <1>1 DEF Inserted, SelectInSeq
  <2> QED BY <2>1
<1>2. CASE I # {}
  <2>1. I \in SUBSET Nat
    OBVIOUS
  <2>2. Min(I) \in I
    <3> HIDE DEF I
    <3> QED BY <1>2, <2>1, Smallest
  <2>3. Min(I) \in 1 .. Len(v) /\ Min(I) # 0
    BY <2>2
  <2>4. Inserted(v, x) = InsertAt(v, Min(I), x)
    BY <2>3, <1>2 DEF Inserted, SelectInSeq
  <2> HIDE DEF I
  <2> QED BY <2>3, <2>4, InsertAtElements
<1> QED BY <1>1, <1>2

WithTag(r, tags, x) == Ordered(r) /\ ToSet(r) = ToSet(tags) \cup {x}

(* A tag is put where the order stays.                                     *)
LEMMA Inserting ==
  ASSUME NEW T, SomeTags(T), NEW tags \in Seq(T), NEW x \in T, Ordered(tags)
  PROVE  WithTag(Inserted(tags, x), tags, x)
<1> DEFINE n == Len(tags)
           I == {i \in 1 .. n : ~ tag_cmp(tags[i], x)}
           r == Inserted(tags, x)
<1>1. n \in Nat /\ I \in SUBSET Nat /\ \A i \in 1 .. n : tags[i] \in T
  OBVIOUS
<1>2. PICK p \in 1 .. n + 1 :
        /\ r \in Seq(T) /\ Len(r) = n + 1
        /\ \A j \in 1 .. p - 1 : r[j] = tags[j]
        /\ r[p] = x
        /\ \A j \in p + 1 .. n + 1 : r[j] = tags[j - 1]
        /\ \A j \in 1 .. n : j < p => tag_cmp(tags[j], x)
        /\ p <= n => ~ tag_cmp(tags[p], x)
  <2>1. CASE I = {}
    <3>1. r = Append(tags, x)
      BY <2>1 DEF Inserted, SelectInSeq
    <3>2. r \in Seq(T) /\ Len(r) = n + 1 /\ r[n + 1] = x /\ \A j \in 1 .. n : r[j] = tags[j]
      BY <3>1
    <3>3. \A j \in 1 .. n : tag_cmp(tags[j], x)
      BY <2>1
    <3> HIDE DEF r, I
    <3> QED BY <3>2, <3>3, <1>1
  <2>2. CASE I # {}
    <3>1. r = InsertAt(tags, Min(I), x)
      <4>1. Min(I) # 0
        <5> HIDE DEF I
        <5>1. Min(I) \in I
          BY <1>1, <2>2, Smallest
        <5> QED BY <5>1 DEF I
      <4> QED BY <4>1, <2>2 DEF Inserted, SelectInSeq
    <3>2. Min(I) \in I /\ \A j \in I : Min(I) <= j
      <4> HIDE DEF I
      <4> QED BY <1>1, <2>2, Smallest
    <3> DEFINE m == Min(I)
    <3>3. m \in 1 .. n /\ ~ tag_cmp(tags[m], x) /\ \A j \in 1 .. n : j < m => tag_cmp(tags[j], x)
      <4>1. m \in I /\ \A j \in I : m <= j
        BY <3>2
      <4> HIDE DEF m
      <4> QED BY <4>1
    <3> HIDE DEF r, I, m
    <3>4. /\ r \in Seq(T) /\ Len(r) = n + 1
          /\ \A j \in 1 .. m - 1 : r[j] = tags[j]
          /\ r[m] = x
          /\ \A j \in m + 1 .. n + 1 : r[j] = tags[j - 1]
      <4>1. m \in 1 .. Len(tags) + 1 /\ r = InsertAt(tags, m, x)
        BY <3>1, <3>3 DEF m, n
      <4> HIDE DEF n
      <4>2. /\ r \in Seq(T) /\ Len(r) = Len(tags) + 1
            /\ \A j \in 1 .. m - 1 : r[j] = tags[j]
            /\ r[m] = x
            /\ \A j \in m + 1 .. Len(tags) + 1 : r[j] = tags[j - 1]
        <5>1. r \in Seq(T) /\ Moved(r, tags, m, x)
          BY <4>1, InsertAtElements
        <5> QED BY <5>1 DEF Moved
      <4> QED BY <4>2 DEF n
    <3> QED BY <3>3, <3>4
  <2> QED BY <2>1, <2>2
<1> HIDE DEF r, I
<1>3. Ordered(r)
  <2> SUFFICES ASSUME NEW i \in 1 .. n + 1, NEW j \in 1 .. n + 1, i < j
               PROVE  tag_cmp(r[i], r[j])
    BY <1>2 DEF Ordered
  <2>1. \A k, l \in 1 .. n : k < l => tag_cmp(tags[k], tags[l])
    BY DEF Ordered
  <2>2. CASE j < p
    BY <2>2, <2>1, <1>2
  <2>3. CASE j = p
    BY <2>3, <1>2
  <2>4. CASE j > p /\ i < p
    <3>1. j - 1 \in 1 .. n /\ i \in 1 .. n /\ i < j - 1 /\ r[i] = tags[i] /\ r[j] = tags[j - 1]
      BY <2>4, <1>1, <1>2
    <3> QED BY <3>1, <2>1
  <2>5. CASE j > p /\ i > p
    <3>1. /\ i - 1 \in 1 .. n /\ j - 1 \in 1 .. n /\ i - 1 < j - 1
          /\ r[i] = tags[i - 1] /\ r[j] = tags[j - 1]
      BY <2>5, <1>1, <1>2
    <3> QED BY <3>1, <2>1
  <2>6. CASE j > p /\ i = p
    <3>1. p \in 1 .. n /\ j - 1 \in 1 .. n /\ r[i] = x /\ r[j] = tags[j - 1] /\ ~ tag_cmp(tags[p], x)
      BY <2>6, <1>2
    <3>2. tag_cmp(x, tags[p])
      BY <3>1, <1>1, Comparing
    <3>3. p = j - 1 \/ tag_cmp(tags[p], tags[j - 1])
      BY <3>1, <2>1, <2>6
    <3>4. tag_cmp(x, tags[j - 1])
      BY <3>1, <3>2, <3>3, <1>1, Comparing
    <3> QED BY <3>1, <3>4
  <2> QED BY <2>2, <2>3, <2>4, <2>5, <2>6
<1>4. ToSet(r) \subseteq ToSet(tags) \cup {x}
  BY <1>1, <1>2 DEF ToSet
<1>5. \A i \in 1 .. n : tags[i] \in ToSet(r)
  <2> TAKE i \in 1 .. n
  <2>1. CASE i < p
    <3>1. i \in 1 .. n + 1 /\ r[i] = tags[i]
      BY <2>1, <1>1, <1>2
    <3> QED BY <3>1, <1>2 DEF ToSet
  <2>2. CASE i >= p
    <3>1. i + 1 \in 1 .. n + 1 /\ r[i + 1] = tags[i]
      BY <2>2, <1>1, <1>2
    <3>2. DOMAIN r = 1 .. n + 1
      BY <1>1, <1>2
    <3> HIDE DEF n
    <3> QED BY <3>1, <3>2 DEF ToSet
  <2> QED BY <2>1, <2>2
<1>6. x \in ToSet(r)
  <2>1. r[p] = x /\ p \in 1 .. Len(r)
    BY <1>2
  <2> QED BY <2>1, <1>2 DEF ToSet
<1>7. ToSet(tags) \subseteq ToSet(r)
  BY <1>5 DEF ToSet
<1>8. ToSet(r) = ToSet(tags) \cup {x}
  BY <1>4, <1>6, <1>7
<1> QED BY <1>3, <1>8 DEF r, WithTag

(* What Sorted has of the first k tags.                                    *)
Sorting(t, tags, T, n) ==
  /\ t[0] = <<>>
  /\ \A k \in 0 .. n : t[k] \in Seq(T)
  /\ \A k \in 1 .. n : t[k] = Inserted(t[k - 1], tags[k])
  /\ Sorted(tags) = t[n]

LEMMA SortSteps ==
  ASSUME NEW T, NEW tags \in Seq(T)
  PROVE  \E t : Sorting(t, tags, T, Len(tags))
<1> DEFINE n == Len(tags)
           one(v, x) == Inserted(v, x)
           turn == [k \in 1 .. n |-> [v \in Seq(T) |-> one(v, tags[k])]]
           step(h) == [s \in SUBSET DOMAIN tags |-> IF s = {} THEN <<>> ELSE one(h[s \ {Max(s)}], tags[Max(s)])]
           h == CHOOSE h : h = step(h)
<1>1. Sorted(tags) = h[DOMAIN tags]
  BY DEF Sorted, FoldLeft, MapThenFoldSet
<1>2. n \in Nat /\ DOMAIN tags = 1 .. n /\ \A k \in 1 .. n : tags[k] \in T
  OBVIOUS
<1>3. \A x \in T, v \in Seq(T) : one(v, x) \in Seq(T)
  BY InsertedType
<1> HIDE DEF n, one
<1>4. turn \in [1 .. n -> [Seq(T) -> Seq(T)]] /\ <<>> \in Seq(T)
  BY <1>2, <1>3
<1> HIDE DEF turn
<1>5. PICK g : FoldedBy(g, turn, Seq(T), <<>>, n)
  BY <1>2, <1>4, Folding
<1>6. g = step(g)
  <2>1. /\ g \in [SUBSET (1 .. n) -> Seq(T)]
        /\ \A s \in SUBSET (1 .. n) : g[s] = IF s = {} THEN <<>> ELSE turn[Max(s)][g[s \ {Max(s)}]]
    BY <1>5 DEF FoldedBy
  <2>2. ASSUME NEW s \in SUBSET (1 .. n), s # {}
        PROVE  g[s] = one(g[s \ {Max(s)}], tags[Max(s)])
    <3>1. Max(s) \in 1 .. n
      BY <2>2, <1>2, Greatest
    <3>2. g[s \ {Max(s)}] \in Seq(T)
      BY <2>1
    <3>3. g[s] = turn[Max(s)][g[s \ {Max(s)}]]
      BY <2>1, <2>2
    <3> QED BY <3>1, <3>2, <3>3, <1>2 DEF turn
  <2> QED BY <2>1, <2>2, <1>2
<1>7. h = step(h)
  <2> HIDE DEF step
  <2> QED BY <1>6
<1> HIDE DEF h
<1>8. h[1 .. 0] = <<>>
  BY <1>7, <1>2
<1>9. ASSUME NEW k \in 1 .. n
      PROVE  h[1 .. k] = one(h[1 .. k - 1], tags[k])
  <2>1. 1 .. k \in SUBSET DOMAIN tags /\ 1 .. k # {} /\ (1 .. k) \ {k} = 1 .. k - 1
    <3>1. k \in Nat /\ k >= 1 /\ 1 .. k \in SUBSET (1 .. n)
      BY <1>2
    <3>2. 1 .. k # {} /\ (1 .. k) \ {k} = 1 .. k - 1
      BY <3>1
    <3> QED BY <3>1, <3>2, <1>2
  <2>2. Max(1 .. k) = k
    BY MaxOfAll
  <2>3. h[1 .. k] = one(h[(1 .. k) \ {Max(1 .. k)}], tags[Max(1 .. k)])
    BY <2>1, <1>7
  <2> QED BY <2>1, <2>2, <2>3, <1>2
<1> DEFINE t == [k \in 0 .. n |-> h[1 .. k]]
<1>10. t[0] = <<>> /\ (\A k \in 1 .. n : t[k] = one(t[k - 1], tags[k])) /\ t[n] = h[1 .. n]
  BY <1>2, <1>8, <1>9
<1> HIDE DEF t
<1>11. \A k \in 0 .. n : t[k] \in Seq(T)
  <2> DEFINE U == {k \in 0 .. n : t[k] \in Seq(T)}
  <2>1. 0 \in U
    <3>1. t[0] \in Seq(T)
      BY <1>4, <1>10, Zenon
    <3> QED BY <3>1, <1>2
  <2>2. ASSUME NEW k \in 1 .. n, k - 1 \in U PROVE k \in U
    <3>1. t[k] = one(t[k - 1], tags[k]) /\ t[k - 1] \in Seq(T)
      BY <1>10, <2>2
    <3>2. t[k] \in Seq(T)
      BY <3>1, <1>2, <1>3
    <3> QED BY <3>2, <1>2
  <2>3. 0 .. n \subseteq U
    <3> HIDE DEF U
    <3> QED BY <2>1, <2>2, <1>2, Induction
  <2> QED BY <2>3
<1>12. Sorted(tags) = t[n]
  BY <1>1, <1>2, <1>10
<1> QED BY <1>10, <1>11, <1>12 DEF Sorting, n, one

(* qsort puts the tags in order.                                           *)
LEMMA SortedTags ==
  ASSUME NEW T, SomeTags(T), NEW tags \in Seq(T)
  PROVE  /\ Sorted(tags) \in Seq(T)
         /\ Ordered(Sorted(tags))
         /\ ToSet(Sorted(tags)) = ToSet(tags)
<1> DEFINE n == Len(tags)
<1>1. PICK t : Sorting(t, tags, T, n)
  BY SortSteps
<1>2. /\ t[0] = <<>>
      /\ \A k \in 0 .. n : t[k] \in Seq(T)
      /\ \A k \in 1 .. n : t[k] = Inserted(t[k - 1], tags[k])
      /\ Sorted(tags) = t[n]
  BY <1>1 DEF Sorting
<1>3. n \in Nat /\ n \in 0 .. n /\ \A k \in 1 .. n : tags[k] \in T
  OBVIOUS
<1> HIDE DEF n
<1> DEFINE U == {k \in 0 .. n : Ordered(t[k]) /\ ToSet(t[k]) = {tags[j] : j \in 1 .. k}}
<1>4. 0 \in U
  <2>1. Ordered(t[0]) /\ ToSet(t[0]) = {tags[j] : j \in 1 .. 0}
    BY <1>2 DEF Ordered, ToSet
  <2> QED BY <2>1, <1>3
<1>5. ASSUME NEW k \in 1 .. n, k - 1 \in U PROVE k \in U
  <2>1. k \in Nat /\ k \in 0 .. n /\ k - 1 \in 0 .. n
    BY <1>3
  <2>2. t[k - 1] \in Seq(T) /\ k \in Nat /\ k \in 0 .. n
    BY <2>1, <1>2
  <2>3. Ordered(t[k - 1]) /\ ToSet(t[k - 1]) = {tags[j] : j \in 1 .. k - 1}
    BY <1>5
  <2>4. Ordered(t[k]) /\ ToSet(t[k]) = ToSet(t[k - 1]) \cup {tags[k]}
    <3>1. t[k] = Inserted(t[k - 1], tags[k]) /\ tags[k] \in T
      BY <1>2, <1>3
    <3>2. /\ Ordered(Inserted(t[k - 1], tags[k]))
          /\ ToSet(Inserted(t[k - 1], tags[k])) = ToSet(t[k - 1]) \cup {tags[k]}
      <4>1. WithTag(Inserted(t[k - 1], tags[k]), t[k - 1], tags[k])
        BY <3>1, <2>2, <2>3, Inserting
      <4> QED BY <4>1 DEF WithTag
    <3> QED BY <3>1, <3>2
  <2>5. {tags[j] : j \in 1 .. k} = {tags[j] : j \in 1 .. k - 1} \cup {tags[k]}
    BY <2>2
  <2> QED BY <2>2, <2>3, <2>4, <2>5
<1>6. n \in U
  <2> HIDE DEF U
  <2>1. 0 .. n \subseteq U
    BY <1>3, <1>4, <1>5, Induction
  <2> QED BY <2>1, <1>3
<1>7. ToSet(tags) = {tags[j] : j \in 1 .. n}
  BY DEF ToSet, n
<1> QED BY <1>2, <1>3, <1>6, <1>7

-----------------------------------------------------------------------------
(* What remove_duplicate_tags has of the first k tags.                     *)
Removing(t, tags, T, n) ==
  /\ t[0] = <<>>
  /\ \A k \in 0 .. n : t[k] \in Seq(T)
  /\ \A k \in 1 .. n : t[k] = IF t[k - 1] # <<>> /\ Last(t[k - 1]) = tags[k] THEN t[k - 1] ELSE Append(t[k - 1], tags[k])
  /\ remove_duplicate_tags(tags) = t[n]

LEMMA RemovalSteps ==
  ASSUME NEW T, NEW tags \in Seq(T)
  PROVE  \E t : Removing(t, tags, T, Len(tags))
<1> DEFINE n == Len(tags)
           one(v, x) == IF v # <<>> /\ Last(v) = x THEN v ELSE Append(v, x)
           turn == [k \in 1 .. n |-> [v \in Seq(T) |-> one(v, tags[k])]]
           step(h) == [s \in SUBSET DOMAIN tags |-> IF s = {} THEN <<>> ELSE one(h[s \ {Max(s)}], tags[Max(s)])]
           h == CHOOSE h : h = step(h)
<1>1. remove_duplicate_tags(tags) = h[DOMAIN tags]
  BY DEF remove_duplicate_tags, FoldLeft, MapThenFoldSet
<1>2. n \in Nat /\ DOMAIN tags = 1 .. n /\ \A k \in 1 .. n : tags[k] \in T
  OBVIOUS
<1>3. \A x \in T, v \in Seq(T) : one(v, x) \in Seq(T)
  OBVIOUS
<1> HIDE DEF n, one
<1>4. turn \in [1 .. n -> [Seq(T) -> Seq(T)]] /\ <<>> \in Seq(T)
  BY <1>2, <1>3
<1> HIDE DEF turn
<1>5. PICK g : FoldedBy(g, turn, Seq(T), <<>>, n)
  BY <1>2, <1>4, Folding
<1>6. g = step(g)
  <2>1. /\ g \in [SUBSET (1 .. n) -> Seq(T)]
        /\ \A s \in SUBSET (1 .. n) : g[s] = IF s = {} THEN <<>> ELSE turn[Max(s)][g[s \ {Max(s)}]]
    BY <1>5 DEF FoldedBy
  <2>2. ASSUME NEW s \in SUBSET (1 .. n), s # {}
        PROVE  g[s] = one(g[s \ {Max(s)}], tags[Max(s)])
    <3>1. Max(s) \in 1 .. n
      BY <2>2, <1>2, Greatest
    <3>2. g[s \ {Max(s)}] \in Seq(T)
      BY <2>1
    <3>3. g[s] = turn[Max(s)][g[s \ {Max(s)}]]
      BY <2>1, <2>2
    <3> QED BY <3>1, <3>2, <3>3, <1>2 DEF turn
  <2> QED BY <2>1, <2>2, <1>2
<1>7. h = step(h)
  <2> HIDE DEF step
  <2> QED BY <1>6
<1> HIDE DEF h
<1>8. h[1 .. 0] = <<>>
  BY <1>7, <1>2
<1>9. ASSUME NEW k \in 1 .. n
      PROVE  h[1 .. k] = one(h[1 .. k - 1], tags[k])
  <2>1. 1 .. k \in SUBSET DOMAIN tags /\ 1 .. k # {} /\ (1 .. k) \ {k} = 1 .. k - 1
    <3>1. k \in Nat /\ k >= 1 /\ 1 .. k \in SUBSET (1 .. n)
      BY <1>2
    <3>2. 1 .. k # {} /\ (1 .. k) \ {k} = 1 .. k - 1
      BY <3>1
    <3> QED BY <3>1, <3>2, <1>2
  <2>2. Max(1 .. k) = k
    BY MaxOfAll
  <2>3. h[1 .. k] = one(h[(1 .. k) \ {Max(1 .. k)}], tags[Max(1 .. k)])
    BY <2>1, <1>7
  <2> QED BY <2>1, <2>2, <2>3, <1>2
<1> DEFINE t == [k \in 0 .. n |-> h[1 .. k]]
<1>10. t[0] = <<>> /\ (\A k \in 1 .. n : t[k] = one(t[k - 1], tags[k])) /\ t[n] = h[1 .. n]
  BY <1>2, <1>8, <1>9
<1> HIDE DEF t
<1>11. \A k \in 0 .. n : t[k] \in Seq(T)
  <2> DEFINE U == {k \in 0 .. n : t[k] \in Seq(T)}
  <2>1. 0 \in U
    <3>1. t[0] \in Seq(T)
      BY <1>4, <1>10, Zenon
    <3> QED BY <3>1, <1>2
  <2>2. ASSUME NEW k \in 1 .. n, k - 1 \in U PROVE k \in U
    <3>1. t[k] = one(t[k - 1], tags[k]) /\ t[k - 1] \in Seq(T)
      BY <1>10, <2>2
    <3>2. t[k] \in Seq(T)
      BY <3>1, <1>2, <1>3
    <3> QED BY <3>2, <1>2
  <2>3. 0 .. n \subseteq U
    <3> HIDE DEF U
    <3> QED BY <2>1, <2>2, <1>2, Induction
  <2> QED BY <2>3
<1>12. remove_duplicate_tags(tags) = t[n]
  BY <1>1, <1>2, <1>10
<1> QED BY <1>10, <1>11, <1>12 DEF Removing, n, one


(* In order, and no tag twice.                                             *)
Strict(tags) == \A i, j \in 1 .. Len(tags) : i < j => tag_cmp(tags[i], tags[j]) /\ tags[i] # tags[j]

(* What is kept of the first k tags.                                       *)
Kept(kept, tags, k) ==
  /\ Strict(kept)
  /\ ToSet(kept) = {tags[j] : j \in 1 .. k}
  /\ k > 0 => Len(kept) > 0 /\ kept[Len(kept)] = tags[k]

LEMMA Keeping ==
  ASSUME NEW T, SomeTags(T), NEW tags \in Seq(T), Ordered(tags), NEW k \in 1 .. Len(tags),
         NEW kept \in Seq(T), Kept(kept, tags, k - 1),
         NEW next, next = IF kept # <<>> /\ Last(kept) = tags[k] THEN kept ELSE Append(kept, tags[k])
  PROVE  Kept(next, tags, k)
<1> DEFINE n == Len(kept)
           x == tags[k]
<1>1. n \in Nat /\ k \in Nat /\ x \in T /\ \A i \in 1 .. n : kept[i] \in T
  OBVIOUS
<1>2. {tags[j] : j \in 1 .. k} = {tags[j] : j \in 1 .. k - 1} \cup {x}
  BY <1>1
<1>3. Strict(kept) /\ ToSet(kept) = {tags[j] : j \in 1 .. k - 1}
  BY DEF Kept
<1>4. k - 1 > 0 => n > 0 /\ kept[n] = tags[k - 1]
  BY DEF Kept
<1>5. CASE kept # <<>> /\ kept[n] = x
  <2>1. next = kept /\ n > 0
    BY <1>5 DEF Last
  <2>2. x \in ToSet(kept)
    BY <2>1, <1>5 DEF ToSet
  <2> QED BY <2>1, <2>2, <1>1, <1>2, <1>3, <1>5 DEF Kept
<1>6. CASE ~ (kept # <<>> /\ kept[n] = x)
  <2>1. next = Append(kept, x)
    BY <1>6 DEF Last
  <2>2. Len(next) = n + 1 /\ next[n + 1] = x /\ \A i \in 1 .. n : next[i] = kept[i]
    BY <2>1
  <2>3. ToSet(next) = ToSet(kept) \cup {x}
    <3>1. DOMAIN next = 1 .. n + 1 /\ DOMAIN kept = 1 .. n
      BY <2>1
    <3> HIDE DEF n, x
    <3>2. ToSet(next) \subseteq ToSet(kept) \cup {x}
      BY <3>1, <2>2, <1>1 DEF ToSet
    <3>3. ASSUME NEW i \in 1 .. n PROVE kept[i] \in ToSet(next)
      <4>1. i \in DOMAIN next /\ next[i] = kept[i]
        BY <3>1, <2>2, <1>1
      <4> QED BY <4>1 DEF ToSet
    <3>4. ToSet(kept) \subseteq ToSet(next)
      BY <3>1, <3>3 DEF ToSet
    <3>5. x \in ToSet(next)
      BY <3>1, <2>2, <1>1 DEF ToSet
    <3> QED BY <3>2, <3>4, <3>5
  <2>4. ASSUME NEW i \in 1 .. n
        PROVE  tag_cmp(kept[i], x) /\ kept[i] # x
    <3>1. PICK j \in 1 .. k - 1 : kept[i] = tags[j]
      <4>1. kept[i] \in ToSet(kept)
        BY DEF ToSet
      <4> QED BY <4>1, <1>3
    <3>2. tag_cmp(kept[i], x)
      <4>1. j \in 1 .. Len(tags) /\ j < k
        BY <1>1
      <4> QED BY <4>1, <3>1 DEF Ordered
    <3>3. k - 1 \in 1 .. Len(tags) /\ k - 1 < k /\ k - 1 > 0
      BY <3>1, <1>1
    <3>4. kept[n] = tags[k - 1] /\ n \in 1 .. n /\ kept # <<>>
      BY <3>3, <1>1, <1>4
    <3>5. tag_cmp(kept[n], x)
      BY <3>3, <3>4 DEF Ordered
    <3>6. kept[n] # x
      BY <1>6, <3>4
    <3>7. CASE i = n
      BY <3>7, <3>2, <3>6
    <3>8. CASE i # n
      <4>1. tag_cmp(kept[i], kept[n]) /\ kept[i] # kept[n]
        BY <3>8, <3>4, <1>1, <1>3 DEF Strict
      <4>2. kept[i] = x => tag_cmp(kept[n], kept[i])
        BY <3>5
      <4>3. kept[i] \in T /\ kept[n] \in T
        BY <1>1, <3>4
      <4>4. tag_cmp(kept[i], kept[n]) /\ tag_cmp(kept[n], kept[i]) => kept[i] = kept[n]
        BY <4>3, Comparing
      <4> QED BY <4>1, <4>2, <4>4, <3>2
    <3> QED BY <3>7, <3>8
  <2>5. Strict(next)
    <3> SUFFICES ASSUME NEW i \in 1 .. n + 1, NEW j \in 1 .. n + 1, i < j
                 PROVE  tag_cmp(next[i], next[j]) /\ next[i] # next[j]
      BY <2>2 DEF Strict
    <3>1. i \in 1 .. n /\ next[i] = kept[i]
      BY <1>1, <2>2
    <3>2. CASE j = n + 1
      BY <3>1, <3>2, <2>2, <2>4
    <3>3. CASE j # n + 1
      <4>1. j \in 1 .. n /\ next[j] = kept[j]
        BY <3>3, <1>1, <2>2
      <4> QED BY <4>1, <3>1, <1>3 DEF Strict
    <3> QED BY <3>2, <3>3
  <2> QED BY <2>2, <2>3, <2>5, <1>1, <1>2, <1>3 DEF Kept
<1> QED BY <1>5, <1>6

(* Of tags that are in order, each is kept once.                           *)
LEMMA DistinctTags ==
  ASSUME NEW T, SomeTags(T), NEW tags \in Seq(T), Ordered(tags)
  PROVE  /\ remove_duplicate_tags(tags) \in Seq(T)
         /\ Strict(remove_duplicate_tags(tags))
         /\ ToSet(remove_duplicate_tags(tags)) = ToSet(tags)
<1> DEFINE n == Len(tags)
<1>1. PICK t : Removing(t, tags, T, n)
  BY RemovalSteps
<1>2. /\ t[0] = <<>>
      /\ \A k \in 0 .. n : t[k] \in Seq(T)
      /\ \A k \in 1 .. n : t[k] = IF t[k - 1] # <<>> /\ Last(t[k - 1]) = tags[k]
                                  THEN t[k - 1] ELSE Append(t[k - 1], tags[k])
      /\ remove_duplicate_tags(tags) = t[n]
  BY <1>1 DEF Removing
<1>3. n \in Nat /\ n \in 0 .. n
  OBVIOUS
<1> DEFINE U == {k \in 0 .. n : Kept(t[k], tags, k)}
<1>4. 0 \in U
  <2>1. Kept(t[0], tags, 0)
    BY <1>2 DEF Kept, Strict, ToSet
  <2> QED BY <2>1, <1>3
<1>5. ASSUME NEW k \in 1 .. n, k - 1 \in U PROVE k \in U
  <2>1. k \in 0 .. n /\ k - 1 \in 0 .. n
    BY <1>3
  <2>2. t[k - 1] \in Seq(T)
    BY <2>1, <1>2
  <2>3. Kept(t[k - 1], tags, k - 1)
    BY <1>5
  <2>4. t[k] = IF t[k - 1] # <<>> /\ Last(t[k - 1]) = tags[k] THEN t[k - 1] ELSE Append(t[k - 1], tags[k])
    BY <1>2
  <2>5. Kept(t[k], tags, k)
    BY <2>2, <2>3, <2>4, Keeping
  <2> QED BY <2>1, <2>5
<1> HIDE DEF n
<1>6. Kept(t[n], tags, n)
  <2>1. 0 .. n \subseteq U
    <3> HIDE DEF U
    <3> QED BY <1>3, <1>4, <1>5, Induction
  <2> QED BY <2>1, <1>3
<1>7. ToSet(tags) = {tags[j] : j \in 1 .. n}
  BY DEF ToSet, n
<1> QED BY <1>2, <1>3, <1>6, <1>7 DEF Kept

(* The run that begins with the first tag of a kind has all of them.       *)
LEMMA Handled ==
  ASSUME NEW T, SomeTags(T), NEW tags \in Seq(T), Ordered(tags), NEW kind \in Int
  PROVE  handle_kind(tags, kind) = {x.name : x \in {y \in ToSet(tags) : y.kind = kind}}
<1> DEFINE n == Len(tags)
           I == {i \in 1 .. n : tags[i].kind = kind}
           first == SelectInSeq(tags, LAMBDA t : t.kind = kind)
           run == {j \in first .. n : \A k \in first .. j : tags[k].kind = kind}
<1>1. n \in Nat /\ I \in SUBSET Nat /\ DOMAIN tags = 1 .. n
  OBVIOUS
<1>2. handle_kind(tags, kind) = IF first = 0 THEN {} ELSE {tags[j].name : j \in run}
  BY DEF handle_kind
<1>3. first = IF I # {} THEN Min(I) ELSE 0
  BY DEF SelectInSeq
<1>4. {x.name : x \in {y \in ToSet(tags) : y.kind = kind}} = {tags[j].name : j \in I}
  BY <1>1 DEF ToSet
<1>5. \A i \in 1 .. n : tags[i] \in T /\ tags[i].kind \in Int
  BY DEF SomeTags
<1>6. CASE I = {}
  <2> HIDE DEF first, I
  <2> QED BY <1>2, <1>3, <1>4, <1>6
<1>7. CASE I # {}
  <2>1. first \in I /\ \A j \in I : first <= j
    <3> HIDE DEF I, first
    <3> QED BY <1>7, <1>1, <1>3, Smallest
  <2> HIDE DEF first
  <2>2. first \in 1 .. n /\ tags[first].kind = kind
    BY <2>1
  <2>3. ASSUME NEW j \in I PROVE j \in run
    <3>1. j \in first .. n /\ tags[j].kind = kind
      BY <2>1, <2>2
    <3>2. ASSUME NEW k \in first .. j PROVE tags[k].kind = kind
      <4>1. k \in 1 .. n /\ j \in 1 .. n /\ first <= k /\ k <= j
        BY <2>2, <3>1
      <4>2. k = first \/ tag_cmp(tags[first], tags[k])
        BY <4>1, <2>2 DEF Ordered
      <4>3. k = j \/ tag_cmp(tags[k], tags[j])
        BY <4>1 DEF Ordered
      <4>4. kind <= tags[k].kind
        BY <4>1, <4>2, <2>2, <1>5 DEF tag_cmp
      <4>5. tags[k].kind <= kind
        BY <4>1, <4>3, <3>1, <1>5 DEF tag_cmp
      <4> QED BY <4>1, <4>4, <4>5, <1>5
    <3> QED BY <3>1, <3>2
  <2>4. ASSUME NEW j \in run PROVE j \in I
    BY <2>2
  <2>5. first # 0 /\ run = I
    BY <2>2, <2>3, <2>4
  <2> HIDE DEF run, I
  <2> QED BY <2>5, <1>2, <1>4
<1> QED BY <1>6, <1>7

-----------------------------------------------------------------------------
(* The quotient, characterised.                                            *)
LEMMA Quotient ==
  ASSUME NEW n \in Nat, NEW t \in Nat, t > 0
  PROVE  /\ n \div t \in Nat
         /\ t * (n \div t) <= n
         /\ n < t * (n \div t) + t
BY SMTT(30)

LEMMA Monotone ==
  ASSUME NEW q \in Nat, NEW i \in Nat, NEW j \in Nat, i < j
  PROVE  i * q + q <= j * q
<1>1. PICK d \in Nat : j = i + 1 + d
  <2>1. j - i - 1 \in Nat /\ j = i + 1 + (j - i - 1)
    OBVIOUS
  <2> QED BY <2>1
<1>2. (i + 1 + d) * q = i * q + q + d * q
  BY SMTT(30)
<1>3. d * q \in Nat /\ i * q \in Nat
  BY SMTT(30)
<1> QED BY <1>1, <1>2, <1>3

(* No line is searched by two threads.                                     *)
THEOREM SlicesDisjoint ==
  ASSUME NEW n \in Nat, NEW t \in Nat, t > 0,
         NEW i \in 0 .. t - 1, NEW j \in 0 .. t - 1, i < j
  PROVE  Slice(n, t, i) \cap Slice(n, t, j) = {}
<1> DEFINE q == n \div t
<1>1. q \in Nat
  BY Quotient
<1>2. i * q + q <= j * q
  BY <1>1, Monotone
<1>3. i * q \in Nat /\ j * q \in Nat
  BY <1>1, SMTT(30)
<1>4. Slice(n, t, i) = (i * q + 1) .. (i * q + q)
  BY DEF Slice, SliceFirst, SliceNum
<1>5. \A k \in Slice(n, t, j) : k \in Int /\ k > j * q
  BY <1>3 DEF Slice, SliceFirst
<1> HIDE DEF q
<1> QED BY <1>1, <1>2, <1>3, <1>4, <1>5

(* Every line is searched by a thread, and what is searched is a line.     *)
THEOREM SlicesCover ==
  ASSUME NEW n \in Nat, NEW t \in Nat, t > 0
  PROVE  1 .. n = UNION {Slice(n, t, i) : i \in 0 .. t - 1}
<1> DEFINE q == n \div t
<1>1. q \in Nat /\ t * q <= n
  BY Quotient
<1>2. (t - 1) * q \in Nat /\ (t - 1) * q + q = t * q
  BY <1>1, SMTT(30)
<1>3. Slice(n, t, t - 1) = ((t - 1) * q + 1) .. n
  <2>1. (t - 1) * q + (n - (t - 1) * q) = n
    BY <1>2
  <2> QED BY <2>1 DEF Slice, SliceFirst, SliceNum
<1>4. \A i \in 0 .. t - 2 : Slice(n, t, i) = (i * q + 1) .. (i * q + q)
  BY DEF Slice, SliceFirst, SliceNum
<1> HIDE DEF q
<1>5. ASSUME NEW k \in 1 .. n
      PROVE  \E i \in 0 .. t - 1 : k \in Slice(n, t, i)
  <2>1. CASE k > (t - 1) * q
    BY <2>1, <1>2, <1>3
  <2>2. CASE k <= (t - 1) * q
    <3>1. q > 0
      <4>1. SUFFICES ASSUME q = 0 PROVE FALSE
        BY <1>1
      <4>2. (t - 1) * q = 0
        BY <4>1
      <4> QED BY <4>2, <2>2
    <3> DEFINE i == (k - 1) \div q
    <3>2. i \in Nat /\ q * i <= k - 1 /\ k - 1 < q * i + q
      BY <3>1, <1>1, Quotient
    <3>3. q * i = i * q
      BY <3>2, <1>1, SMTT(30)
    <3> HIDE DEF i
    <3>4. i < t - 1
      <4>1. SUFFICES ASSUME ~ i < t - 1 PROVE FALSE
        OBVIOUS
      <4>2. (t - 1) * q <= i * q
        <5>1. CASE i = t - 1
          BY <5>1, <1>2
        <5>2. CASE t - 1 < i
          BY <5>2, <3>2, <1>1, <1>2, Monotone
        <5> QED BY <5>1, <5>2, <4>1, <3>2
      <4>3. i * q \in Int /\ i * q <= k - 1
        BY <3>2, <3>3, <1>1, SMTT(30)
      <4> QED BY <4>2, <4>3, <2>2, <1>2
    <3>5. k \in Slice(n, t, i)
      <4>1. i \in 0 .. t - 2
        BY <3>2, <3>4
      <4>2. i * q \in Nat
        BY <3>2, <1>1, SMTT(30)
      <4> QED BY <4>1, <4>2, <1>4, <3>2, <3>3, <1>1
    <3> QED BY <3>2, <3>4, <3>5
  <2> QED BY <2>1, <2>2, <1>2
<1>6. ASSUME NEW i \in 0 .. t - 1, NEW k \in Slice(n, t, i)
      PROVE  k \in 1 .. n
  <2>1. CASE i = t - 1
    BY <2>1, <1>2, <1>3
  <2>2. CASE i # t - 1
    <3>1. i * q + q <= (t - 1) * q
      BY <2>2, <1>1, Monotone
    <3>2. i * q \in Nat
      BY <1>1, SMTT(30)
    <3>3. Slice(n, t, i) = (i * q + 1) .. (i * q + q)
      BY <2>2, <1>4
    <3> QED BY <3>1, <3>2, <3>3, <1>1, <1>2
  <2> QED BY <2>1, <2>2
<1> QED BY <1>5, <1>6

(* Lines of which the names can be compared, and so can the kinds that are *)
(* highlighted.                                                            *)
TagInput(b, lines) ==
  /\ b.order \subseteq Int
  /\ \E L : lines \in Seq(L) /\ \A line \in L : line.name \in Int

LEMMA SomeTagsOf ==
  ASSUME NEW b, NEW lines, TagInput(b, lines), NEW slice
  PROVE  SomeTags(TagsOf(b, lines, slice))
<1>1. ASSUME NEW j \in 1 .. Len(lines), Included(b, lines[j])
      PROVE  Tag(b, lines[j]) \in [name : Int, kind : Int]
  <2>1. lines[j].name \in Int
    BY DEF TagInput
  <2>2. Equivalent(b, lines[j].kind) \in Int
    BY <1>1 DEF TagInput, Included, in_order
  <2> QED BY <2>1, <2>2 DEF Tag
<1> QED BY <1>1 DEF SomeTags, TagsOf

(* All threads together find the tags of all lines.                        *)
LEMMA AllSearched ==
  ASSUME NEW b, NEW lines, TagInput(b, lines), NEW n \in Nat, n > 0,
         NEW all, all = FlattenSeq([i \in 1 .. n |-> do_tok_search(b, lines, Slice(Len(lines), n, i - 1))])
  PROVE  /\ all \in Seq(TagsOf(b, lines, 1 .. Len(lines)))
         /\ ToSet(all) = TagsOf(b, lines, 1 .. Len(lines))
<1> DEFINE T == TagsOf(b, lines, 1 .. Len(lines))
           part(i) == do_tok_search(b, lines, Slice(Len(lines), n, i - 1))
           seqs == [i \in 1 .. n |-> part(i)]
<1>1. Len(lines) \in Nat
  BY DEF TagInput
<1>2. ASSUME NEW i \in 1 .. n
      PROVE  /\ part(i) \in Seq(TagsOf(b, lines, Slice(Len(lines), n, i - 1)))
             /\ ToSet(part(i)) = TagsOf(b, lines, Slice(Len(lines), n, i - 1))
  BY <1>1, Searched
<1>3. \A i \in 1 .. n : TagsOf(b, lines, Slice(Len(lines), n, i - 1)) \subseteq T
  BY DEF TagsOf
<1> HIDE DEF T, part
<1>4. ASSUME NEW i \in 1 .. n PROVE part(i) \in Seq(T)
  BY <1>2, <1>3
<1>5. seqs \in Seq(Seq(T)) /\ Len(seqs) = n /\ \A i \in 1 .. n : seqs[i] = part(i)
  BY <1>4
<1>6. all = FlattenSeq(seqs)
  BY DEF part
<1> HIDE DEF seqs
<1>7. all \in Seq(T) /\ \A x : x \in ToSet(all) <=> \E i \in 1 .. n : x \in ToSet(seqs[i])
  BY <1>5, <1>6, Joined
<1>8. ASSUME NEW x \in ToSet(all) PROVE x \in T
  <2>1. PICK i \in 1 .. n : x \in ToSet(seqs[i])
    BY <1>7
  <2>2. x \in TagsOf(b, lines, Slice(Len(lines), n, i - 1))
    BY <2>1, <1>2, <1>5
  <2> QED BY <2>2, <1>3
<1>9. ASSUME NEW x \in T PROVE x \in ToSet(all)
  <2>1. PICK k \in 1 .. Len(lines) : Included(b, lines[k]) /\ x = Tag(b, lines[k])
    BY DEF T, TagsOf
  <2>2. PICK i \in 0 .. n - 1 : k \in Slice(Len(lines), n, i)
    BY <1>1, SlicesCover
  <2>3. i + 1 \in 1 .. n /\ (i + 1) - 1 = i
    OBVIOUS
  <2>4. x \in TagsOf(b, lines, Slice(Len(lines), n, i))
    BY <2>1, <2>2 DEF TagsOf
  <2>5. x \in ToSet(seqs[i + 1])
    BY <2>3, <2>4, <1>2, <1>5
  <2> QED BY <2>3, <2>5, <1>7
<1> QED BY <1>7, <1>8, <1>9 DEF T

(* What process_tags returns is in order, and has each tag once.           *)
LEMMA Processed ==
  ASSUME NEW b, NEW lines, TagInput(b, lines), NEW n \in Nat, n > 0, b.words # {}, lines # <<>>
  PROVE  /\ process_tags(b, lines, n) \in Seq(TagsOf(b, lines, 1 .. Len(lines)))
         /\ Strict(process_tags(b, lines, n))
         /\ ToSet(process_tags(b, lines, n)) = TagsOf(b, lines, 1 .. Len(lines))
<1> DEFINE T == TagsOf(b, lines, 1 .. Len(lines))
           all == FlattenSeq([i \in 1 .. n |-> do_tok_search(b, lines, Slice(Len(lines), n, i - 1))])
<1>1. process_tags(b, lines, n) = remove_duplicate_tags(Sorted(all))
  BY DEF process_tags
<1>2. all \in Seq(T) /\ ToSet(all) = T
  <2> HIDE DEF T
  <2> QED BY AllSearched DEF T
<1>3. SomeTags(T)
  BY SomeTagsOf
<1> HIDE DEF T, all
<1>4. Sorted(all) \in Seq(T) /\ Ordered(Sorted(all)) /\ ToSet(Sorted(all)) = T
  BY <1>2, <1>3, SortedTags
<1> QED BY <1>1, <1>3, <1>4, DistinctTags DEF T

(* However many threads search, and whatever the lines are, update_commands*)
(* makes a command of exactly the tags of each kind that pass the filter,  *)
(* each once.                                                              *)
THEOREM AllTagsFound ==
  ASSUME MaxThreads \in Nat,
         input.kind = "tags" => TagInput(input.val.buffer, input.val.lines)
  PROVE  TagsFound
<1> DEFINE b == input.val.buffer
           lines == input.val.lines
           due(kind) == IF b.words = {} THEN {}
                        ELSE {lines[i].name : i \in {j \in 1 .. Len(lines) : /\ Included(b, lines[j])
                                                                             /\ Equivalent(b, lines[j].kind) = kind}}
<1> SUFFICES ASSUME input.kind = "tags", NEW n \in 1 .. MaxThreads
             PROVE  LET tags == process_tags(b, lines, n)
                    IN  /\ \A kind \in b.order : handle_kind(tags, kind) = due(kind)
                        /\ \A i, j \in 1 .. Len(tags) : tags[i] = tags[j] => i = j
  BY DEF TagsFound
<1> DEFINE tags == process_tags(b, lines, n)
<1>1. TagInput(b, lines) /\ n \in Nat /\ n > 0
  OBVIOUS
<1>2. CASE b.words = {} \/ lines = <<>>
  <2>1. tags = <<>>
    BY <1>2 DEF process_tags
  <2>2. \A kind : due(kind) = {}
    BY <1>2
  <2>3. \A kind : handle_kind(<<>>, kind) = {}
    BY DEF handle_kind, SelectInSeq
  <2> HIDE DEF tags, due
  <2>4. \A kind \in b.order : handle_kind(tags, kind) = due(kind)
    BY <2>1, <2>2, <2>3
  <2>5. \A i, j \in 1 .. Len(tags) : tags[i] = tags[j] => i = j
    BY <2>1
  <2> QED BY <2>4, <2>5 DEF tags, due
<1>3. CASE b.words # {} /\ lines # <<>>
  <2> DEFINE T == TagsOf(b, lines, 1 .. Len(lines))
  <2>1. tags \in Seq(T) /\ Strict(tags) /\ ToSet(tags) = T
    <3> HIDE DEF b, lines
    <3> QED BY <1>1, <1>3, Processed
  <2>2. SomeTags(T)
    BY <1>1, SomeTagsOf
  <2>3. Ordered(tags)
    BY <2>1 DEF Strict, Ordered
  <2>4. ASSUME NEW kind \in b.order PROVE handle_kind(tags, kind) = due(kind)
    <3>1. kind \in Int
      BY <1>1 DEF TagInput
    <3>2. due(kind) = {x.name : x \in {y \in T : y.kind = kind}}
      <4> DEFINE J == {j \in 1 .. Len(lines) : Included(b, lines[j]) /\ Equivalent(b, lines[j].kind) = kind}
      <4>1. due(kind) = {lines[i].name : i \in J}
        BY <1>3
      <4>2. ASSUME NEW i \in J PROVE lines[i].name \in {x.name : x \in {y \in T : y.kind = kind}}
        <5>1. Tag(b, lines[i]) \in T /\ Tag(b, lines[i]).kind = kind /\ Tag(b, lines[i]).name = lines[i].name
          <6> HIDE DEF b, lines
          <6> QED BY DEF TagsOf, Tag
        <5> QED BY <5>1
      <4>3. ASSUME NEW y \in T, y.kind = kind PROVE y.name \in {lines[i].name : i \in J}
        <5> HIDE DEF b, lines
        <5>1. PICK k \in 1 .. Len(lines) : Included(b, lines[k]) /\ y = Tag(b, lines[k])
          BY DEF TagsOf
        <5>2. y.name = lines[k].name /\ k \in J
          BY <5>1, <4>3 DEF Tag
        <5> QED BY <5>2
      <4> HIDE DEF T, J, due, b, lines
      <4> QED BY <4>1, <4>2, <4>3
    <3> HIDE DEF T, due, tags
    <3>3. handle_kind(tags, kind) = {x.name : x \in {y \in ToSet(tags) : y.kind = kind}}
      BY <2>1, <2>2, <2>3, <3>1, Handled
    <3> QED BY <2>1, <3>2, <3>3
  <2>5. \A i, j \in 1 .. Len(tags) : tags[i] = tags[j] => i = j
    <3> HIDE DEF tags
    <3>1. Len(tags) \in Nat
      BY <2>1
    <3> QED BY <2>1, <3>1 DEF Strict
  <2> QED BY <2>4, <2>5
<1> QED BY <1>2, <1>3

-----------------------------------------------------------------------------
(* Where the switch is after each look at a cursor.                        *)
Switching(t, tok, R) ==
  /\ t[0] = [last |-> 1, done |-> FALSE, group |-> "none"]
  /\ \A k \in 0 .. 3 : t[k] \in R
  /\ \A k \in 1 .. 3 : t[k] = CASE t[k - 1].done -> t[k - 1]
                              [] ~ t[k - 1].done /\ Retries(tok, t[k - 1].last) ->
                                   [t[k - 1] EXCEPT !.last = Referenced(tok, t[k - 1].last)]
                              [] ~ t[k - 1].done /\ ~ Retries(tok, t[k - 1].last) ->
                                   [t[k - 1] EXCEPT !.done = TRUE, !.group = Resolved(tok, t[k - 1].last)]
  /\ do_typeswitch(tok) = t[3]

LEMMA SwitchSteps ==
  ASSUME NEW tok, NEW m \in Nat, m > 0, Len(tok.cursors) = m,
         NEW G, "none" \in G, \A i \in 1 .. m : Resolved(tok, i) \in G
  PROVE  \E t : Switching(t, tok, [last : 1 .. m, done : BOOLEAN, group : G])
<1> DEFINE R == [last : 1 .. m, done : BOOLEAN, group : G]
           one(s, count) == CASE s.done -> s
                              [] ~ s.done /\ Retries(tok, s.last) -> [s EXCEPT !.last = Referenced(tok, s.last)]
                              [] ~ s.done /\ ~ Retries(tok, s.last) ->
                                   [s EXCEPT !.done = TRUE, !.group = Resolved(tok, s.last)]
           base == [last |-> 1, done |-> FALSE, group |-> "none"]
           turn == [k \in 1 .. 3 |-> [s \in R |-> one(s, Safety[k])]]
           step(h) == [s \in SUBSET DOMAIN Safety |-> IF s = {} THEN base
                                                      ELSE one(h[s \ {Max(s)}], Safety[Max(s)])]
           h == CHOOSE h : h = step(h)
<1>1. do_typeswitch(tok) = h[DOMAIN Safety]
  BY DEF do_typeswitch, FoldLeft, MapThenFoldSet
<1>2. DOMAIN Safety = 1 .. 3
  BY DEF Safety
<1>3. ASSUME NEW s \in R, NEW count PROVE one(s, count) \in R
  <2>1. s.last \in 1 .. m /\ s.done \in BOOLEAN
    OBVIOUS
  <2>2. Referenced(tok, s.last) \in 1 .. m
    BY <2>1 DEF Referenced
  <2>3. Resolved(tok, s.last) \in G
    BY <2>1
  <2>4. [s EXCEPT !.last = Referenced(tok, s.last)] \in R
    BY <2>2
  <2>5. [s EXCEPT !.done = TRUE, !.group = Resolved(tok, s.last)] \in R
    BY <2>3
  <2> QED BY <2>1, <2>4, <2>5
<1>4. base \in R
  OBVIOUS
<1> HIDE DEF R, one, base
<1>5. turn \in [1 .. 3 -> [R -> R]]
  BY <1>3
<1>6. PICK g : FoldedBy(g, turn, R, base, 3)
  <2> HIDE DEF turn
  <2> QED BY <1>4, <1>5, Folding
<1>7. g = step(g)
  <2>1. /\ g \in [SUBSET (1 .. 3) -> R]
        /\ \A s \in SUBSET (1 .. 3) : g[s] = IF s = {} THEN base ELSE turn[Max(s)][g[s \ {Max(s)}]]
    <3> HIDE DEF turn
    <3> QED BY <1>6 DEF FoldedBy
  <2>2. ASSUME NEW s \in SUBSET (1 .. 3), s # {}
        PROVE  g[s] = one(g[s \ {Max(s)}], Safety[Max(s)])
    <3>1. Max(s) \in 1 .. 3
      BY <2>2, Greatest
    <3>2. g[s \ {Max(s)}] \in R
      BY <2>1
    <3>3. g[s] = turn[Max(s)][g[s \ {Max(s)}]]
      BY <2>1, <2>2
    <3> QED BY <3>1, <3>2, <3>3
  <2> HIDE DEF turn
  <2> QED BY <2>1, <2>2, <1>2
<1> HIDE DEF turn
<1>8. h = step(h)
  <2> HIDE DEF step
  <2> QED BY <1>7
<1> HIDE DEF h
<1>9. h[1 .. 0] = base
  BY <1>8, <1>2
<1>10. ASSUME NEW k \in 1 .. 3
       PROVE  h[1 .. k] = one(h[1 .. k - 1], Safety[k])
  <2>1. 1 .. k \in SUBSET (1 .. 3) /\ 1 .. k # {} /\ (1 .. k) \ {k} = 1 .. k - 1
    <3>1. k \in Nat /\ k > 0 /\ 1 .. k \in SUBSET (1 .. 3)
      OBVIOUS
    <3>2. 1 .. k # {} /\ (1 .. k) \ {k} = 1 .. k - 1
      BY <3>1, ButLast, Zenon
    <3> QED BY <3>1, <3>2
  <2>2. Max(1 .. k) = k
    BY MaxOfAll
  <2>3. h[1 .. k] = one(h[(1 .. k) \ {Max(1 .. k)}], Safety[Max(1 .. k)])
    BY <2>1, <1>2, <1>8
  <2> QED BY <2>1, <2>2, <2>3
<1> DEFINE t == [k \in 0 .. 3 |-> h[1 .. k]]
<1>11. t[0] = base /\ (\A k \in 1 .. 3 : t[k] = one(t[k - 1], Safety[k])) /\ t[3] = h[1 .. 3]
  BY <1>9, <1>10
<1> HIDE DEF t, step
<1>12. \A k \in 0 .. 3 : t[k] \in R
  <2>1. t[0] \in R /\ t[1] \in R
    BY <1>3, <1>4, <1>11
  <2>2. t[2] \in R
    BY <2>1, <1>3, <1>11
  <2>3. t[3] \in R
    BY <2>2, <1>3, <1>11
  <2> QED BY <2>1, <2>2, <2>3
<1>13. do_typeswitch(tok) = t[3]
  BY <1>1, <1>2, <1>11
<1> QED BY <1>11, <1>12, <1>13 DEF Switching, R, one, base

-----------------------------------------------------------------------------
(* The first cursor that does not send the switch on is the i-th.          *)
Stops(tok, i) == ~ Retries(tok, i) /\ \A j \in 1 .. i - 1 : Retries(tok, j)

(* Such a cursor decides, if no more than two send the switch on.          *)
LEMMA Switched ==
  ASSUME NEW tok, NEW m \in Nat, m > 0, Len(tok.cursors) = m, NEW i \in 1 .. m, i <= 3, Stops(tok, i)
  PROVE  do_typeswitch(tok).last = i /\ do_typeswitch(tok).group = Resolved(tok, i)
<1> DEFINE G == {"none"} \cup {Resolved(tok, j) : j \in 1 .. m}
           R == [last : 1 .. m, done : BOOLEAN, group : G]
<1>1. PICK t : Switching(t, tok, R)
  <2>1. "none" \in G /\ \A j \in 1 .. m : Resolved(tok, j) \in G
    OBVIOUS
  <2> HIDE DEF G
  <2> QED BY <2>1, SwitchSteps
<1>2. /\ t[0].last = 1 /\ ~ t[0].done
      /\ do_typeswitch(tok) = t[3]
  BY <1>1 DEF Switching
<1>3. ASSUME NEW k \in 1 .. 3
      PROVE  /\ t[k - 1].done => t[k] = t[k - 1]
             /\ ~ t[k - 1].done /\ Retries(tok, t[k - 1].last) =>
                  ~ t[k].done /\ t[k].last = Referenced(tok, t[k - 1].last)
             /\ ~ t[k - 1].done /\ ~ Retries(tok, t[k - 1].last) =>
                  /\ t[k].done /\ t[k].last = t[k - 1].last
                  /\ t[k].group = Resolved(tok, t[k - 1].last)
  <2> DEFINE s == t[k - 1]
  <2>1. s \in R
    <3>1. k - 1 \in 0 .. 3
      OBVIOUS
    <3> HIDE DEF R
    <3> QED BY <3>1, <1>1 DEF Switching
  <2>2. t[k] = CASE s.done -> s
                 [] ~ s.done /\ Retries(tok, s.last) -> [s EXCEPT !.last = Referenced(tok, s.last)]
                 [] ~ s.done /\ ~ Retries(tok, s.last) ->
                      [s EXCEPT !.done = TRUE, !.group = Resolved(tok, s.last)]
    BY <1>1, Zenon DEF Switching
  <2> HIDE DEF s
  <2>3. CASE s.done
    BY <2>1, <2>2, <2>3 DEF s
  <2>4. CASE ~ s.done /\ Retries(tok, s.last)
    <3>1. t[k] = [s EXCEPT !.last = Referenced(tok, s.last)]
      BY <2>2, <2>4
    <3> QED BY <2>1, <2>4, <3>1 DEF s
  <2>5. CASE ~ s.done /\ ~ Retries(tok, s.last)
    <3>1. t[k] = [s EXCEPT !.done = TRUE, !.group = Resolved(tok, s.last)]
      BY <2>2, <2>5
    <3> QED BY <2>1, <2>5, <3>1 DEF s
  <2> QED BY <2>3, <2>4, <2>5
<1>4. \A j \in 1 .. m : j < i => Retries(tok, j) /\ Referenced(tok, j) = j + 1
  BY DEF Stops, Referenced
<1>5. ~ Retries(tok, i)
  BY DEF Stops
<1>6. CASE i = 1
  <2>1. t[1].done /\ t[1].last = 1 /\ t[1].group = Resolved(tok, 1)
    BY <1>2, <1>3, <1>5, <1>6
  <2>2. t[2] = t[1] /\ t[3] = t[1]
    BY <2>1, <1>3
  <2> QED BY <2>1, <2>2, <1>2, <1>6
<1>7. CASE i = 2
  <2>1. ~ t[1].done /\ t[1].last = 2
    BY <1>2, <1>3, <1>4, <1>7
  <2>2. t[2].done /\ t[2].last = 2 /\ t[2].group = Resolved(tok, 2)
    BY <2>1, <1>3, <1>5, <1>7
  <2>3. t[3] = t[2]
    BY <2>2, <1>3
  <2> QED BY <2>2, <2>3, <1>2, <1>7
<1>8. CASE i = 3
  <2>1. ~ t[1].done /\ t[1].last = 2
    BY <1>2, <1>3, <1>4, <1>8
  <2>2. ~ t[2].done /\ t[2].last = 3
    BY <2>1, <1>3, <1>4, <1>8
  <2>3. t[3].done /\ t[3].last = 3 /\ t[3].group = Resolved(tok, 3)
    BY <2>2, <1>3, <1>5, <1>8
  <2> QED BY <2>3, <1>2, <1>8
<1> QED BY <1>6, <1>7, <1>8

(* If three send the switch on, or all do, there is no group.              *)
LEMMA NotSwitched ==
  ASSUME NEW tok, NEW m \in Nat, m > 0, Len(tok.cursors) = m, \A j \in 1 .. m : j <= 3 => Retries(tok, j)
  PROVE  do_typeswitch(tok).group = "none"
<1> DEFINE G == {"none"} \cup {Resolved(tok, j) : j \in 1 .. m}
           R == [last : 1 .. m, done : BOOLEAN, group : G]
<1>1. PICK t : Switching(t, tok, R)
  <2>1. "none" \in G /\ \A j \in 1 .. m : Resolved(tok, j) \in G
    OBVIOUS
  <2> HIDE DEF G
  <2> QED BY <2>1, SwitchSteps
<1>2. do_typeswitch(tok) = t[3]
  BY <1>1 DEF Switching
<1> DEFINE Goes(k) == ~ t[k].done /\ t[k].group = "none" /\ t[k].last \in 1 .. m /\ t[k].last <= k + 1
<1>3. Goes(0)
  BY <1>1 DEF Switching
<1>4. ASSUME NEW k \in 1 .. 3, Goes(k - 1)
      PROVE  Goes(k)
  <2> DEFINE s == t[k - 1]
  <2>1. s \in R
    <3>1. k - 1 \in 0 .. 3
      OBVIOUS
    <3> HIDE DEF R
    <3> QED BY <3>1, <1>1 DEF Switching
  <2>2. t[k] = CASE s.done -> s
                 [] ~ s.done /\ Retries(tok, s.last) -> [s EXCEPT !.last = Referenced(tok, s.last)]
                 [] ~ s.done /\ ~ Retries(tok, s.last) ->
                      [s EXCEPT !.done = TRUE, !.group = Resolved(tok, s.last)]
    BY <1>1, Zenon DEF Switching
  <2> HIDE DEF s
  <2>3. ~ s.done /\ s.group = "none" /\ s.last \in 1 .. m /\ s.last <= k /\ Retries(tok, s.last)
    BY <1>4 DEF s
  <2>4. t[k] = [s EXCEPT !.last = Referenced(tok, s.last)]
    BY <2>2, <2>3
  <2>5. Referenced(tok, s.last) \in 1 .. m /\ Referenced(tok, s.last) <= k + 1
    BY <2>3 DEF Referenced
  <2> QED BY <2>1, <2>3, <2>4, <2>5
<1> HIDE DEF Goes
<1>5. Goes(1)
  BY <1>3, <1>4
<1>6. Goes(2)
  BY <1>5, <1>4
<1>7. Goes(3)
  BY <1>6, <1>4
<1> QED BY <1>2, <1>7 DEF Goes

-----------------------------------------------------------------------------
(* A token of C or C++: it has a cursor, and no operator of C is a         *)
(* function.                                                               *)
SomeCursor == [kind : STRING, type : STRING, def_type : STRING, named : BOOLEAN]
TokenInput(tok) ==
  /\ tok \in [ft : {"c", "cpp"}, punctuation : BOOLEAN, type_named : BOOLEAN,
              last_kind : STRING, last_type : STRING, cursors : Seq(SomeCursor)]
  /\ tok.cursors # <<>>
  /\ tok.ft = "c" => ~ tok.punctuation

(* The rest of a chain of cursors is looked at like the chain itself.      *)
LEMMA RestOfChain ==
  ASSUME NEW tok, TokenInput(tok), NEW i \in 1 .. Len(tok.cursors),
         NEW rest, rest = [tok EXCEPT !.cursors = SubSeq(@, i, Len(@))]
  PROVE  /\ Len(rest.cursors) \in Nat /\ Len(rest.cursors) > 0
         /\ Retries(rest, 1) <=> Retries(tok, i)
         /\ Resolved(rest, 1) = Resolved(tok, i)
<1> DEFINE m == Len(tok.cursors)
<1>1. m \in Nat /\ tok.cursors \in Seq(SomeCursor)
  BY DEF TokenInput
<1>2. rest.cursors = SubSeq(tok.cursors, i, m)
  BY DEF TokenInput
<1>3. Len(rest.cursors) = m - i + 1 /\ \A j \in 1 .. m - i + 1 : rest.cursors[j] = tok.cursors[i + j - 1]
  BY <1>1, <1>2
<1>4. /\ rest.ft = tok.ft /\ rest.punctuation = tok.punctuation /\ rest.type_named = tok.type_named
      /\ rest.last_kind = tok.last_kind /\ rest.last_type = tok.last_type
  BY DEF TokenInput
<1> HIDE DEF m
<1>5. At(rest, 1) = At(tok, i)
  BY <1>1, <1>3 DEF At
<1>6. Referenced(rest, 1) = 1 <=> Referenced(tok, i) = i
  BY <1>1, <1>3 DEF Referenced, m
<1>7. RefKind(rest, 1) = RefKind(tok, i)
  <2>1. CASE i < m
    <3>1. Referenced(rest, 1) = 2 /\ Referenced(tok, i) = i + 1
      BY <2>1, <1>1, <1>3 DEF Referenced, m
    <3>2. rest.cursors[2] = tok.cursors[i + 1]
      BY <2>1, <1>1, <1>3
    <3> QED BY <3>1, <3>2 DEF RefKind, At
  <2>2. CASE i = m
    <3>1. Referenced(rest, 1) = 1 /\ Referenced(tok, i) = i
      BY <2>2, <1>1, <1>3 DEF Referenced, m
    <3> QED BY <3>1, <1>5 DEF RefKind
  <2> QED BY <2>1, <2>2, <1>1 DEF m
<1>8. Retries(rest, 1) <=> Retries(tok, i)
  BY <1>4, <1>5, <1>7 DEF Retries
<1>9. GroupOf(rest, 1) = GroupOf(tok, i)
  <2>1. DeclRefExpr(rest, 1) = DeclRefExpr(tok, i)
    <3>1. InC(rest, 1) = InC(tok, i) /\ InCxx(rest, 1) = InCxx(tok, i)
      BY <1>7 DEF InC, InCxx
    <3> QED BY <3>1, <1>4, <1>5, Zenon DEF DeclRefExpr
  <2>2. NonTypeTemplateParameter(rest, 1) = NonTypeTemplateParameter(tok, i)
    BY <1>5, <1>6, Zenon DEF NonTypeTemplateParameter
  <2>3. /\ sanity_check_name(rest, 1) = sanity_check_name(tok, i)
        /\ is_really_template_parameter(rest, 1) = is_really_template_parameter(tok, i)
    BY <1>4, <1>5, Zenon DEF sanity_check_name, is_really_template_parameter
  <2> QED BY <2>1, <2>2, <2>3, <1>4, <1>5, <1>7, Zenon DEF GroupOf
<1>10. Resolved(rest, 1) = Resolved(tok, i)
  BY <1>4, <1>5, <1>7, <1>9, Zenon DEF Resolved
<1> QED BY <1>1, <1>3, <1>8, <1>10

(* The groups of the kinds that have one of their own.                     *)
LEMMA OwnGroups ==
  /\ \A k \in DOMAIN Plain : Plain[k] \in order("cpp")
  /\ \A k \in DOMAIN Plain : k \notin CxxOnly => Plain[k] \in order("c")
  /\ \A k \in DOMAIN Checked : Checked[k] \in order("cpp")
  /\ \A k \in DOMAIN Checked : k \in CxxOnly
  /\ \A k \in DOMAIN Parameter : Parameter[k] \in order("cpp") \cup {"none"}
  /\ \A k \in DOMAIN Parameter : k \notin CxxOnly => Parameter[k] \in order("c") \cup {"none"}
BY DEF Plain, Checked, Parameter, order, CxxOnly

(* A group that is not in the filetype's order is not for a token that has *)
(* the name of a cursor that its language has.                             *)
LEMMA Groups ==
  ASSUME NEW tok, TokenInput(tok), NEW i \in 1 .. Len(tok.cursors),
         tok.ft = "cpp" \/ \A j \in 1 .. Len(tok.cursors) : At(tok, j).named /\ At(tok, j).kind \notin CxxOnly
  PROVE  Resolved(tok, i) \in order(tok.ft) \cup {"none"}
<1> DEFINE c == At(tok, i)
           all == order(tok.ft) \cup {"none"}
<1>1. tok.ft \in {"c", "cpp"} /\ tok.cursors \in Seq(SomeCursor)
  BY DEF TokenInput
<1>2. Referenced(tok, i) \in 1 .. Len(tok.cursors)
  BY <1>1 DEF Referenced
<1>3. /\ {"t", "n", "c", "T", "O", "M", "m", "N", "K", "d", "e", "f", "g"} \subseteq order("cpp")
      /\ {"t", "m", "d", "e", "f"} \subseteq order("c")
  BY DEF order
<1>4. tok.ft = "c" => c.named /\ c.kind \notin CxxOnly /\ RefKind(tok, i) \notin CxxOnly
  BY <1>1, <1>2 DEF RefKind
<1>5. {"NonTypeTemplateParameter"} \subseteq CxxOnly
  BY DEF CxxOnly
<1> HIDE DEF c
<1>6. DeclRefExpr(tok, i) \in all
  <2>1. tok.ft = "c" => InC(tok, i) \in all
    BY <1>3, <1>4, <1>5 DEF InC
  <2>2. tok.ft = "cpp" => InCxx(tok, i) \in all
    BY <1>3 DEF InCxx
  <2>3. tok.ft = "c" => ~ tok.punctuation
    BY DEF TokenInput
  <2> HIDE DEF all
  <2>4. "none" \in all /\ "e" \in all /\ "f" \in all /\ "t" \in all /\ (tok.ft = "cpp" => "O" \in all)
    BY <1>1, <1>3 DEF all
  <2> QED BY <1>1, <2>1, <2>2, <2>3, <2>4 DEF DeclRefExpr
<1>7. tok.ft = "cpp" => NonTypeTemplateParameter(tok, i) \in all
  BY <1>3 DEF NonTypeTemplateParameter
<1>8. GroupOf(tok, i) \in all
  <2> DEFINE kind == At(tok, i).kind
  <2>1. kind \in DOMAIN Plain => Plain[kind] \in all
    BY <1>1, <1>4, OwnGroups DEF c
  <2>2. kind \in DOMAIN Checked => Checked[kind] \in all
    BY <1>1, <1>4, OwnGroups DEF c
  <2>3. kind \in DOMAIN Parameter =>
          (IF is_really_template_parameter(tok, i) THEN "O" ELSE Parameter[kind]) \in all
    <3>1. CASE tok.ft = "c"
      BY <3>1, <1>1, <1>4, OwnGroups DEF c, is_really_template_parameter
    <3>2. CASE tok.ft = "cpp"
      BY <3>2, <1>3, OwnGroups
    <3> QED BY <3>1, <3>2, <1>1
  <2>4. kind = "NonTypeTemplateParameter" => NonTypeTemplateParameter(tok, i) \in all
    BY <1>1, <1>4, <1>5, <1>7 DEF c
  <2>5. "none" \in all /\ "d" \in all /\ "m" \in all /\ "t" \in all
    BY <1>1, <1>3
  <2> HIDE DEF kind, all
  <2>6. kind \in DOMAIN Checked => (IF sanity_check_name(tok, i) THEN Checked[kind] ELSE "none") \in all
    BY <2>2, <2>5
  <2> QED BY <2>1, <2>3, <2>4, <2>5, <2>6, <1>6 DEF GroupOf, kind
<1>9. tok.ft = "cpp" => "O" \in all
  BY <1>3
<1> HIDE DEF all
<1>10. Resolved(tok, i) \in all
  BY <1>8, <1>9 DEF Resolved
<1> QED BY <1>10 DEF all

(* A token is highlighted as what it refers to in the end would be,        *)
(* through up to two references and no more; where it has the name of what *)
(* it refers to, its filetype has a group for it.                          *)
THEOREM AllTypesResolved ==
  ASSUME input.kind = "token" => TokenInput(input.val)
  PROVE  TypesResolved
<1> DEFINE tok == input.val
           m == Len(tok.cursors)
           r == do_typeswitch(tok)
           ends == {j \in 1 .. m : ~ Retries(tok, j)}
           i == CHOOSE j \in ends : \A k \in ends : j <= k
           rest == [tok EXCEPT !.cursors = SubSeq(@, i, Len(@))]
           named == \A c \in ToSet(tok.cursors) : c.named /\ c.kind \notin CxxOnly
<1> SUFFICES ASSUME input.kind = "token"
             PROVE  /\ IF ends # {} /\ i <= 3
                       THEN r.last = i /\ r.group = do_typeswitch(rest).group
                       ELSE r.group = "none"
                    /\ named \/ tok.ft = "cpp" => find_group(tok.ft, r.group) = r.group
  BY DEF TypesResolved
<1>1. TokenInput(tok) /\ m \in Nat /\ m > 0 /\ tok.cursors \in Seq(SomeCursor)
  <2>1. TokenInput(tok)
    OBVIOUS
  <2>2. tok.cursors \in Seq(SomeCursor) /\ tok.cursors # <<>>
    BY <2>1 DEF TokenInput
  <2> QED BY <2>1, <2>2
<1> HIDE DEF tok
<1>2. ends # {} => /\ i \in 1 .. m /\ ~ Retries(tok, i)
                   /\ \A j \in 1 .. m : j < i => Retries(tok, j)
  <2> SUFFICES ASSUME ends # {} PROVE i \in ends /\ \A k \in ends : i <= k
    OBVIOUS
  <2>1. ends \in SUBSET Nat
    BY <1>1
  <2> HIDE DEF ends
  <2>2. \E j \in ends : \A k \in ends : j <= k
    BY <2>1, Least
  <2> QED BY <2>2
<1>3. ends = {} => \A j \in 1 .. m : Retries(tok, j)
  OBVIOUS
<1> HIDE DEF ends, i
<1>4. CASE ends # {} /\ i <= 3
  <2>1. Stops(tok, i) /\ i \in 1 .. m
    BY <1>1, <1>2, <1>4 DEF Stops
  <2>2. r.last = i /\ r.group = Resolved(tok, i)
    BY <2>1, <1>1, <1>4, Switched
  <2>3. /\ Len(rest.cursors) \in Nat /\ Len(rest.cursors) > 0
        /\ Retries(rest, 1) <=> Retries(tok, i)
        /\ Resolved(rest, 1) = Resolved(tok, i)
    BY <2>1, <1>1, RestOfChain
  <2> HIDE DEF rest
  <2>4. Stops(rest, 1)
    BY <2>1, <2>3 DEF Stops
  <2>5. do_typeswitch(rest).group = Resolved(rest, 1)
    BY <2>3, <2>4, Switched
  <2>6. named \/ tok.ft = "cpp" => Resolved(tok, i) \in order(tok.ft) \cup {"none"}
    <3>1. named => \A j \in 1 .. m : At(tok, j).named /\ At(tok, j).kind \notin CxxOnly
      BY <1>1 DEF ToSet, At
    <3> QED BY <3>1, <2>1, <1>1, Groups
  <2>7. named \/ tok.ft = "cpp" => find_group(tok.ft, r.group) = r.group
    BY <2>2, <2>6 DEF find_group
  <2> QED BY <2>2, <2>3, <2>5, <2>7, <1>4 DEF rest
<1>5. CASE ~ (ends # {} /\ i <= 3)
  <2>1. \A j \in 1 .. m : j <= 3 => Retries(tok, j)
    BY <1>1, <1>2, <1>3, <1>5
  <2>2. r.group = "none"
    BY <2>1, <1>1, NotSwitched
  <2>3. find_group(tok.ft, r.group) = r.group
    BY <2>2 DEF find_group
  <2> QED BY <2>2, <2>3, <1>5
<1> QED BY <1>4, <1>5

-----------------------------------------------------------------------------
HighlightArgs == <<"nvim_buf_add_highlight", "buf", "ns", "group", "line", "start", "end">>
ClearArgs == <<"nvim_buf_clear_highlight", "buf", "ns", "0", "-1">>

LEMMA AppendedPair ==
  ASSUME NEW x, NEW y
  PROVE  Append(<<x>>, y) = <<x, y>>
<1> DEFINE r == Append(<<x>>, y)
           q == <<x, y>>
<1>1. <<x>> \in Seq({x, y}) /\ Len(<<x>>) = 1 /\ <<x>>[1] = x /\ y \in {x, y}
  OBVIOUS
<1>2. q \in Seq({x, y}) /\ Len(q) = 2 /\ q[1] = x /\ q[2] = y
  OBVIOUS
<1>3. r \in Seq({x, y}) /\ Len(r) = 2 /\ r[1] = x /\ r[2] = y
  BY <1>1
<1> HIDE DEF r, q
<1>4. \A i \in 1 .. 2 : r[i] = q[i]
  BY <1>2, <1>3
<1>5. r = q
  BY <1>2, <1>3, <1>4
<1> QED BY <1>5 DEF r, q

LEMMA NewCalls ==
  ASSUME NEW size
  PROVE  /\ "fmt" \in DOMAIN NewArray(size) /\ "args" \in DOMAIN NewArray(size)
         /\ NewArray(size).args = <<>>
BY DEF NewArray

LEMMA MoreCalls ==
  ASSUME NEW c, "fmt" \in DOMAIN c, "args" \in DOMAIN c, NEW f, NEW args
  PROVE  /\ "fmt" \in DOMAIN WithCall(c, f, args) /\ "args" \in DOMAIN WithCall(c, f, args)
         /\ WithCall(c, f, args).args = Append(c.args, args)
<1>1. DOMAIN Grown(c) = DOMAIN c /\ Grown(c).args = c.args
  BY DEF Grown
<1> QED BY <1>1 DEF WithCall

(* A pass asks for its highlight, and to clear those before it first,      *)
(* unless it is the first pass.                                            *)
LEMMA CallsOfPass ==
  ASSUME NEW n, NEW pass, pass = [parser |-> TRUE, first |-> n = 1, items |-> <<"group">>]
  PROVE  Calls(pass).args = IF n = 1 THEN <<HighlightArgs>> ELSE <<ClearArgs, HighlightArgs>>
<1> DEFINE one(c, item) == IF pass.parser THEN add_hl_call(c, item, "line") ELSE add_cmd_call(c, item)
           base == BeginPass(n = 1)
           seq == <<"group">>
           step(h) == [s \in SUBSET DOMAIN seq |-> IF s = {} THEN base ELSE one(h[s \ {Max(s)}], seq[Max(s)])]
           h == CHOOSE h : h = step(h)
<1>1. Calls(pass) = h[DOMAIN seq]
  <2>1. pass.parser /\ pass.first = (n = 1) /\ pass.items = seq
    OBVIOUS
  <2>2. Calls(pass) = FoldLeft(one, IF pass.parser THEN BeginPass(pass.first) ELSE BeginCommands, pass.items)
    BY DEF Calls
  <2>3. Calls(pass) = FoldLeft(one, base, seq)
    BY <2>1, <2>2
  <2> QED BY <2>3 DEF FoldLeft, MapThenFoldSet
<1>2. /\ DOMAIN seq = {1}
      /\ \A s \in SUBSET {1} : s # {} => s = {1} /\ s \ {Max(s)} = {} /\ seq[Max(s)] = "group"
  <2>1. Max({1}) = 1
    BY DEF Max
  <2>2. \A s \in SUBSET {1} : s # {} => s = {1} /\ s \ {1} = {}
    OBVIOUS
  <2> QED BY <2>1, <2>2
<1> HIDE DEF seq, base, one
<1>3. h = step(h)
  <2> DEFINE g == [s \in SUBSET DOMAIN seq |-> IF s = {} THEN base ELSE one(base, "group")]
  <2>1. g[{}] = base
    BY <1>2
  <2>2. \A s \in SUBSET DOMAIN seq : g[s] = IF s = {} THEN base ELSE one(g[s \ {Max(s)}], seq[Max(s)])
    BY <1>2, <2>1
  <2>3. g = [s \in SUBSET DOMAIN seq |-> g[s]]
    OBVIOUS
  <2> HIDE DEF g
  <2>4. g = step(g)
    BY <2>2, <2>3
  <2> HIDE DEF step
  <2> QED BY <2>4
<1> HIDE DEF h
<1>4. h[{}] = base
  BY <1>2, <1>3
<1>5. h[{1}] = one(base, "group")
  <2>1. {1} \in SUBSET DOMAIN seq /\ {1} # {}
    BY <1>2
  <2>2. h[{1}] = one(h[{1} \ {Max({1})}], seq[Max({1})])
    BY <2>1, <1>3
  <2> QED BY <2>1, <2>2, <1>2, <1>4
<1>6. Calls(pass) = add_hl_call(base, "group", "line")
  BY <1>1, <1>2, <1>5 DEF one
<1>7. /\ "fmt" \in DOMAIN base /\ "args" \in DOMAIN base
      /\ base.args = IF n = 1 THEN <<>> ELSE <<ClearArgs>>
  BY NewCalls, MoreCalls DEF base, BeginPass, add_clr_call, ClearArgs
<1>8. Calls(pass).args = Append(base.args, HighlightArgs)
  BY <1>6, <1>7, MoreCalls DEF add_hl_call, HighlightArgs
<1>9. CASE n = 1
  BY <1>7, <1>8, <1>9
<1>10. CASE n # 1
  <2>1. Append(<<ClearArgs>>, HighlightArgs) = <<ClearArgs, HighlightArgs>>
    BY AppendedPair, Zenon
  <2> QED BY <1>7, <1>8, <1>10, <2>1
<1> QED BY <1>9, <1>10

(* What neovim shows after a pass: its own highlight, for the first one    *)
(* along with what there was.                                              *)
LEMMA Executed ==
  ASSUME NEW was, NEW n
  PROVE  Execute(was, n) = IF n = 1 THEN was \cup {<<n, "group">>} ELSE {<<n, "group">>}
<1> DEFINE one(set, args) ==
             CASE args[1] = "nvim_buf_clear_highlight" -> {}
               [] args[1] = "nvim_buf_add_highlight"   -> set \cup {<<n, args[4]>>}
               [] args[1] = "nvim_command"             -> set
           pass == [parser |-> TRUE, first |-> n = 1, items |-> <<"group">>]
           seq == Calls(pass).args
           step(h) == [s \in SUBSET DOMAIN seq |-> IF s = {} THEN was ELSE one(h[s \ {Max(s)}], seq[Max(s)])]
           h == CHOOSE h : h = step(h)
           new == <<n, "group">>
<1>1. Execute(was, n) = h[DOMAIN seq]
  BY DEF Execute, FoldLeft, MapThenFoldSet
<1>2. seq = IF n = 1 THEN <<HighlightArgs>> ELSE <<ClearArgs, HighlightArgs>>
  BY CallsOfPass
<1>3. \A set : one(set, ClearArgs) = {} /\ one(set, HighlightArgs) = set \cup {new}
  BY DEF ClearArgs, HighlightArgs
<1> HIDE DEF seq, one, new
<1>4. CASE n = 1
  <2>1. /\ DOMAIN seq = {1}
        /\ \A s \in SUBSET {1} : s # {} => s = {1} /\ s \ {Max(s)} = {} /\ seq[Max(s)] = HighlightArgs
    <3>1. Max({1}) = 1
      BY DEF Max
    <3>2. \A s \in SUBSET {1} : s # {} => s = {1} /\ s \ {1} = {}
      OBVIOUS
    <3>3. seq = <<HighlightArgs>>
      BY <1>2, <1>4
    <3> QED BY <3>1, <3>2, <3>3
  <2>2. h = step(h)
    <3> DEFINE g == [s \in SUBSET DOMAIN seq |-> IF s = {} THEN was ELSE one(was, HighlightArgs)]
    <3>1. g[{}] = was
      BY <2>1
    <3>2. \A s \in SUBSET DOMAIN seq : g[s] = IF s = {} THEN was ELSE one(g[s \ {Max(s)}], seq[Max(s)])
      BY <2>1, <3>1
    <3>3. g = [s \in SUBSET DOMAIN seq |-> g[s]]
      OBVIOUS
    <3> HIDE DEF g
    <3>4. g = step(g)
      BY <3>2, <3>3
    <3> HIDE DEF step
    <3> QED BY <3>4
  <2> HIDE DEF h
  <2>3. h[{}] = was
    BY <2>1, <2>2
  <2>4. h[{1}] = one(was, HighlightArgs)
    <3>1. {1} \in SUBSET DOMAIN seq /\ {1} # {}
      BY <2>1
    <3>2. h[{1}] = one(h[{1} \ {Max({1})}], seq[Max({1})])
      BY <3>1, <2>2
    <3> QED BY <3>1, <3>2, <2>1, <2>3
  <2> QED BY <2>1, <2>4, <1>1, <1>3, <1>4 DEF new
<1>5. CASE n # 1
  <2>1. DOMAIN seq = {1, 2} /\ seq[1] = ClearArgs /\ seq[2] = HighlightArgs
    BY <1>2, <1>5
  <2>2. /\ Max({1}) = 1 /\ Max({2}) = 2 /\ Max({1, 2}) = 2
        /\ {1} \ {1} = {} /\ {2} \ {2} = {} /\ {1, 2} \ {2} = {1}
        /\ \A s \in SUBSET {1, 2} : s = {} \/ s = {1} \/ s = {2} \/ s = {1, 2}
        /\ {1} # {} /\ {2} # {} /\ {1, 2} # {} /\ {1} # {2} /\ {1} # {1, 2} /\ {2} # {1, 2}
    <3>1. Max({1}) = 1 /\ Max({2}) = 2 /\ Max({1, 2}) = 2
      BY DEF Max
    <3>2. {1} \ {1} = {} /\ {2} \ {2} = {} /\ {1, 2} \ {2} = {1}
      OBVIOUS
    <3>3. \A s \in SUBSET {1, 2} : s = {} \/ s = {1} \/ s = {2} \/ s = {1, 2}
      OBVIOUS
    <3>4. {1} # {} /\ {2} # {} /\ {1, 2} # {} /\ {1} # {2} /\ {1} # {1, 2} /\ {2} # {1, 2}
      OBVIOUS
    <3> QED BY <3>1, <3>2, <3>3, <3>4
  <2>3. h = step(h)
    <3> DEFINE g == [s \in SUBSET DOMAIN seq |-> IF s = {} THEN was
                                                 ELSE IF s = {1} THEN one(was, ClearArgs)
                                                 ELSE IF s = {2} THEN one(was, HighlightArgs)
                                                 ELSE one(one(was, ClearArgs), HighlightArgs)]
    <3>1. /\ g[{}] = was /\ g[{1}] = one(was, ClearArgs) /\ g[{2}] = one(was, HighlightArgs)
          /\ g[{1, 2}] = one(one(was, ClearArgs), HighlightArgs)
      BY <2>1, <2>2
    <3>2. g = [s \in SUBSET DOMAIN seq |-> g[s]]
      OBVIOUS
    <3> HIDE DEF g
    <3>3. ASSUME NEW s \in SUBSET {1, 2}
          PROVE  g[s] = IF s = {} THEN was ELSE one(g[s \ {Max(s)}], seq[Max(s)])
      <4>1. CASE s = {}
        BY <4>1, <3>1
      <4>2. CASE s = {1}
        <5>1. s \ {Max(s)} = {} /\ seq[Max(s)] = ClearArgs /\ s # {}
          BY <4>2, <2>1, <2>2
        <5> QED BY <5>1, <4>2, <3>1
      <4>3. CASE s = {2}
        <5>1. s \ {Max(s)} = {} /\ seq[Max(s)] = HighlightArgs /\ s # {}
          BY <4>3, <2>1, <2>2
        <5> QED BY <5>1, <4>3, <3>1
      <4>4. CASE s = {1, 2}
        <5>1. s \ {Max(s)} = {1} /\ seq[Max(s)] = HighlightArgs /\ s # {}
          BY <4>4, <2>1, <2>2
        <5> QED BY <5>1, <4>4, <3>1
      <4> QED BY <4>1, <4>2, <4>3, <4>4, <2>2
    <3>4. g = step(g)
      BY <2>1, <3>2, <3>3
    <3> HIDE DEF step
    <3> QED BY <3>4
  <2> HIDE DEF h
  <2>4. \A s \in SUBSET {1, 2} : h[s] = IF s = {} THEN was ELSE one(h[s \ {Max(s)}], seq[Max(s)])
    BY <2>1, <2>3
  <2>5. h[{1}] = one(h[{}], ClearArgs)
    <3>1. {1} \in SUBSET {1, 2}
      OBVIOUS
    <3>2. h[{1}] = one(h[{1} \ {Max({1})}], seq[Max({1})])
      BY <3>1, <2>2, <2>4
    <3> QED BY <3>2, <2>1, <2>2
  <2>6. h[{1, 2}] = one(h[{1}], HighlightArgs)
    <3>1. {1, 2} \in SUBSET {1, 2}
      OBVIOUS
    <3>2. h[{1, 2}] = one(h[{1, 2} \ {Max({1, 2})}], seq[Max({1, 2})])
      BY <3>1, <2>2, <2>4
    <3> QED BY <3>2, <2>1, <2>2
  <2> QED BY <2>1, <2>5, <2>6, <1>1, <1>3, <1>5 DEF new
<1> QED BY <1>4, <1>5

(* What neovim shows after each message.                                   *)
Showing(t, came, n) ==
  /\ t[0] = {}
  /\ \A k \in 1 .. n : t[k] = Execute(t[k - 1], came[k])
  /\ Shown(came) = t[n]

LEMMA ShownSteps ==
  ASSUME NEW n \in Nat, NEW A, NEW came \in [1 .. n -> A]
  PROVE  \E t : Showing(t, came, n)
<1> DEFINE S == SUBSET (A \X {"group"})
           turn == [k \in 1 .. n |-> [was \in S |-> Execute(was, came[k])]]
           step(h) == [s \in SUBSET DOMAIN came |->
                         IF s = {} THEN {} ELSE Execute(h[s \ {Max(s)}], came[Max(s)])]
           h == CHOOSE h : h = step(h)
<1>1. Shown(came) = h[DOMAIN came]
  BY DEF Shown, FoldLeft, MapThenFoldSet
<1>2. DOMAIN came = 1 .. n
  OBVIOUS
<1>3. \A k \in 1 .. n, was \in S : Execute(was, came[k]) \in S
  <2>1. ASSUME NEW a \in A, NEW was \in S PROVE Execute(was, a) \in S
    <3>1. Execute(was, a) = IF a = 1 THEN was \cup {<<a, "group">>} ELSE {<<a, "group">>}
      BY Executed
    <3> QED BY <3>1
  <2> HIDE DEF S
  <2> QED BY <2>1
<1>4. turn \in [1 .. n -> [S -> S]] /\ {} \in S
  <2>1. {} \in S
    OBVIOUS
  <2> HIDE DEF S
  <2> QED BY <1>3, <2>1
<1> HIDE DEF turn, S
<1>5. PICK g : FoldedBy(g, turn, S, {}, n)
  BY <1>4, Folding
<1>6. g = step(g)
  <2>1. /\ g \in [SUBSET (1 .. n) -> S]
        /\ \A s \in SUBSET (1 .. n) : g[s] = IF s = {} THEN {} ELSE turn[Max(s)][g[s \ {Max(s)}]]
    BY <1>5 DEF FoldedBy
  <2>2. ASSUME NEW s \in SUBSET (1 .. n), s # {}
        PROVE  g[s] = Execute(g[s \ {Max(s)}], came[Max(s)])
    <3>1. Max(s) \in 1 .. n
      BY <2>2, Greatest
    <3>2. g[s \ {Max(s)}] \in S
      BY <2>1
    <3>3. g[s] = turn[Max(s)][g[s \ {Max(s)}]]
      BY <2>1, <2>2
    <3> QED BY <3>1, <3>2, <3>3 DEF turn
  <2> QED BY <2>1, <2>2, <1>2
<1>7. h = step(h)
  <2> HIDE DEF step
  <2> QED BY <1>6
<1> HIDE DEF h
<1>8. h[1 .. 0] = {}
  BY <1>7, <1>2
<1>9. ASSUME NEW k \in 1 .. n
      PROVE  h[1 .. k] = Execute(h[1 .. k - 1], came[k])
  <2>1. 1 .. k \in SUBSET DOMAIN came /\ 1 .. k # {} /\ (1 .. k) \ {k} = 1 .. k - 1
    BY <1>2
  <2>2. Max(1 .. k) = k
    BY MaxOfAll
  <2>3. h[1 .. k] = Execute(h[(1 .. k) \ {Max(1 .. k)}], came[Max(1 .. k)])
    BY <2>1, <1>7
  <2> QED BY <2>1, <2>2, <2>3
<1> DEFINE t == [k \in 0 .. n |-> h[1 .. k]]
<1>10. t[0] = {} /\ (\A k \in 1 .. n : t[k] = Execute(t[k - 1], came[k])) /\ t[n] = h[1 .. n]
  BY <1>8, <1>9
<1> HIDE DEF t
<1> QED BY <1>1, <1>2, <1>10 DEF Showing

(* Nothing is shown but the highlights of the first pass and of one more.  *)
FirstAndOne(shown) == \E p : shown \subseteq {<<1, "group">>, <<p, "group">>}

(* The passes whose highlights are shown, the first one left aside.        *)
LEMMA OneShown ==
  ASSUME NEW n \in Nat, NEW A, NEW came \in [1 .. n -> A]
  PROVE  FirstAndOne(Shown(came))
<1>1. PICK t : Showing(t, came, n)
  BY ShownSteps
<1>2. /\ t[0] = {}
      /\ \A k \in 1 .. n : t[k] = Execute(t[k - 1], came[k])
      /\ Shown(came) = t[n]
  BY <1>1 DEF Showing
<1> DEFINE T == {k \in 0 .. n : FirstAndOne(t[k])}
<1>3. 0 \in T
  <2>1. t[0] = {}
    BY <1>2, Zenon
  <2>2. FirstAndOne(t[0])
    BY <2>1 DEF FirstAndOne
  <2> QED BY <2>2
<1>4. ASSUME NEW k \in 1 .. n, k - 1 \in T PROVE k \in T
  <2>1. PICK p : t[k - 1] \subseteq {<<1, "group">>, <<p, "group">>}
    BY <1>4 DEF FirstAndOne
  <2>2. t[k] = IF came[k] = 1 THEN t[k - 1] \cup {<<came[k], "group">>} ELSE {<<came[k], "group">>}
    BY <1>2, Executed
  <2>3. FirstAndOne(t[k])
    <3>1. CASE came[k] = 1
      <4>1. t[k] \subseteq {<<1, "group">>, <<p, "group">>}
        BY <2>1, <2>2, <3>1
      <4> QED BY <4>1 DEF FirstAndOne
    <3>2. CASE came[k] # 1
      <4>1. t[k] \subseteq {<<1, "group">>, <<came[k], "group">>}
        BY <2>2, <3>2
      <4> QED BY <4>1 DEF FirstAndOne
    <3> QED BY <3>1, <3>2
  <2> QED BY <2>3
<1>5. n \in T
  <2>1. 0 .. n \subseteq T
    <3> HIDE DEF T
    <3> QED BY <1>3, <1>4, Induction
  <2>2. n \in 0 .. n
    OBVIOUS
  <2> QED BY <2>1, <2>2, Zenon
<1> QED BY <1>2, <1>5

(* OnePass, of the messages of any number of passes in any order: a        *)
(* message that does not clear what is shown is that of the first pass,    *)
(* whatever came before it.                                                *)
THEOREM AllOnePass ==
  ASSUME input.kind = "passes" => \E A : input.val \in Seq(A)
  PROVE  OnePass
<1>1. SUFFICES ASSUME input.kind = "passes"
               PROVE  Cardinality({h[1] : h \in Shown(input.val)} \ {1}) <= 1
  BY DEF OnePass
<1>2. PICK A : input.val \in Seq(A)
  BY <1>1
<1>3. Len(input.val) \in Nat /\ input.val \in [1 .. Len(input.val) -> A]
  BY <1>2
<1>4. PICK p : Shown(input.val) \subseteq {<<1, "group">>, <<p, "group">>}
  BY <1>3, OneShown DEF FirstAndOne
<1> DEFINE passes == {h[1] : h \in Shown(input.val)} \ {1}
<1>5. passes \subseteq {p}
  BY <1>4
<1> HIDE DEF passes
<1>6. passes = {} \/ passes = {p}
  BY <1>5
<1>7. Cardinality({}) = 0 /\ Cardinality({p}) = 1
  BY FS_EmptySet, FS_Singleton
<1>8. Cardinality(passes) <= 1
  <2>1. CASE passes = {}
    BY <2>1, <1>7
  <2>2. CASE passes = {p}
    BY <2>2, <1>7
  <2> QED BY <2>1, <2>2, <1>6
<1> QED BY <1>8 DEF passes

-----------------------------------------------------------------------------
(* The candidates behind each line of the settings file.                   *)
Collecting(t, settings, dir, ft, T, n) ==
  /\ t[0] = <<>>
  /\ \A k \in 0 .. n : t[k] \in Seq(T)
  /\ \A k \in 1 .. n : t[k] = IF Candidate(settings[k], dir, ft) THEN Append(t[k - 1], settings[k]) ELSE t[k - 1]
  /\ get_project_directory_candidates(settings, dir, ft) = t[n]

LEMMA CollectSteps ==
  ASSUME NEW n \in Nat, NEW T, NEW settings \in Seq(T), Len(settings) = n, NEW dir, NEW ft
  PROVE  \E t : Collecting(t, settings, dir, ft, T, n)
<1> DEFINE one(found, line) == IF Candidate(line, dir, ft) THEN Append(found, line) ELSE found
           turn == [k \in 1 .. n |-> [found \in Seq(T) |-> one(found, settings[k])]]
           step(h) == [s \in SUBSET DOMAIN settings |-> IF s = {} THEN <<>> ELSE one(h[s \ {Max(s)}], settings[Max(s)])]
           h == CHOOSE h : h = step(h)
<1>1. get_project_directory_candidates(settings, dir, ft) = h[DOMAIN settings]
  BY DEF get_project_directory_candidates, FoldLeft, MapThenFoldSet
<1>2. DOMAIN settings = 1 .. n /\ \A k \in 1 .. n : settings[k] \in T
  OBVIOUS
<1>3. \A k \in 1 .. n, found \in Seq(T) : one(found, settings[k]) \in Seq(T)
  BY <1>2
<1> HIDE DEF one
<1>4. turn \in [1 .. n -> [Seq(T) -> Seq(T)]] /\ <<>> \in Seq(T)
  BY <1>3
<1> HIDE DEF turn
<1>5. PICK g : FoldedBy(g, turn, Seq(T), <<>>, n)
  BY <1>4, Folding
<1>6. g = step(g)
  <2>1. /\ g \in [SUBSET (1 .. n) -> Seq(T)]
        /\ \A s \in SUBSET (1 .. n) : g[s] = IF s = {} THEN <<>> ELSE turn[Max(s)][g[s \ {Max(s)}]]
    BY <1>5 DEF FoldedBy
  <2>2. ASSUME NEW s \in SUBSET (1 .. n), s # {}
        PROVE  g[s] = one(g[s \ {Max(s)}], settings[Max(s)])
    <3>1. Max(s) \in 1 .. n
      BY <2>2, Greatest
    <3>2. g[s \ {Max(s)}] \in Seq(T)
      BY <2>1
    <3>3. g[s] = turn[Max(s)][g[s \ {Max(s)}]]
      BY <2>1, <2>2
    <3> QED BY <3>1, <3>2, <3>3 DEF turn
  <2> QED BY <2>1, <2>2, <1>2
<1>7. h = step(h)
  <2> HIDE DEF step
  <2> QED BY <1>6
<1> HIDE DEF h
<1>8. h[1 .. 0] = <<>>
  BY <1>7, <1>2
<1>9. ASSUME NEW k \in 1 .. n
      PROVE  h[1 .. k] = one(h[1 .. k - 1], settings[k])
  <2>1. 1 .. k \in SUBSET DOMAIN settings /\ 1 .. k # {} /\ (1 .. k) \ {k} = 1 .. k - 1
    <3>1. k \in Nat /\ k > 0
      OBVIOUS
    <3>2. 1 .. k # {} /\ (1 .. k) \ {k} = 1 .. k - 1
      BY <3>1, ButLast, Zenon
    <3>3. 1 .. k \in SUBSET DOMAIN settings
      BY <1>2
    <3> QED BY <3>2, <3>3
  <2>2. Max(1 .. k) = k
    BY MaxOfAll
  <2>3. h[1 .. k] = one(h[(1 .. k) \ {Max(1 .. k)}], settings[Max(1 .. k)])
    BY <2>1, <1>7
  <2> QED BY <2>1, <2>2, <2>3
<1> DEFINE t == [k \in 0 .. n |-> h[1 .. k]]
<1>10. t[0] = <<>> /\ (\A k \in 1 .. n : t[k] = one(t[k - 1], settings[k])) /\ t[n] = h[1 .. n]
  BY <1>8, <1>9
<1> HIDE DEF t
<1>11. \A k \in 0 .. n : t[k] \in Seq(T)
  <2> DEFINE U == {k \in 0 .. n : t[k] \in Seq(T)}
  <2>1. 0 \in U
    <3>1. t[0] \in Seq(T)
      BY <1>4, <1>10, Zenon
    <3> QED BY <3>1
  <2>2. ASSUME NEW k \in 1 .. n, k - 1 \in U PROVE k \in U
    <3>1. t[k] = one(t[k - 1], settings[k]) /\ t[k - 1] \in Seq(T)
      BY <1>10, <2>2
    <3> QED BY <3>1, <1>3
  <2>3. 0 .. n \subseteq U
    <3> HIDE DEF U
    <3> QED BY <2>1, <2>2, Induction
  <2> QED BY <2>3
<1>12. get_project_directory_candidates(settings, dir, ft) = t[n]
  BY <1>1, <1>2, <1>10
<1> QED BY <1>10, <1>11, <1>12 DEF one, Collecting

(* All candidates are found, and nothing else.                             *)
Gathered(found, settings, dir, ft, T) ==
  /\ found \in Seq(T)
  /\ \A i \in 1 .. Len(found) : \E j \in 1 .. Len(settings) : found[i] = settings[j] /\ Candidate(settings[j], dir, ft)
  /\ \A j \in 1 .. Len(settings) : Candidate(settings[j], dir, ft) => \E i \in 1 .. Len(found) : found[i] = settings[j]

LEMMA Collected ==
  ASSUME NEW T, NEW settings \in Seq(T), NEW dir, NEW ft,
         NEW found, found = get_project_directory_candidates(settings, dir, ft)
  PROVE  Gathered(found, settings, dir, ft, T)
<1> DEFINE n == Len(settings)
<1>1. n \in Nat /\ Len(settings) = n
  OBVIOUS
<1> HIDE DEF n
<1>2. PICK t : Collecting(t, settings, dir, ft, T, n)
  BY <1>1, CollectSteps, Zenon
<1>3. /\ t[0] = <<>>
      /\ \A k \in 0 .. n : t[k] \in Seq(T)
      /\ \A k \in 1 .. n : t[k] = IF Candidate(settings[k], dir, ft) THEN Append(t[k - 1], settings[k]) ELSE t[k - 1]
      /\ found = t[n]
  BY <1>2 DEF Collecting
<1> DEFINE From(k) == \A i \in 1 .. Len(t[k]) : \E j \in 1 .. k : t[k][i] = settings[j] /\ Candidate(settings[j], dir, ft)
           All(k) == \A j \in 1 .. k : Candidate(settings[j], dir, ft) => \E i \in 1 .. Len(t[k]) : t[k][i] = settings[j]
           U == {k \in 0 .. n : From(k) /\ All(k)}
<1>4. 0 \in U
  BY <1>1, <1>3
<1>5. ASSUME NEW k \in 1 .. n, k - 1 \in U PROVE k \in U
  <2>1. t[k - 1] \in Seq(T) /\ k \in Nat /\ settings[k] \in T /\ Len(t[k - 1]) \in Nat
    BY <1>1, <1>3
  <2>2. From(k - 1) /\ All(k - 1)
    BY <1>5
  <2>3. CASE Candidate(settings[k], dir, ft)
    <3>1. t[k] = Append(t[k - 1], settings[k])
      BY <2>3, <1>3
    <3>2. /\ Len(t[k]) = Len(t[k - 1]) + 1
          /\ t[k][Len(t[k - 1]) + 1] = settings[k]
          /\ \A i \in 1 .. Len(t[k - 1]) : t[k][i] = t[k - 1][i]
      BY <3>1, <2>1
    <3>3. From(k)
      <4>1. SUFFICES ASSUME NEW i \in 1 .. Len(t[k])
                     PROVE  \E j \in 1 .. k : t[k][i] = settings[j] /\ Candidate(settings[j], dir, ft)
        OBVIOUS
      <4>2. CASE i = Len(t[k - 1]) + 1
        BY <4>2, <3>2, <2>1, <2>3
      <4>3. CASE i # Len(t[k - 1]) + 1
        <5>1. i \in 1 .. Len(t[k - 1])
          BY <4>3, <3>2, <2>1
        <5>2. PICK j \in 1 .. k - 1 : t[k - 1][i] = settings[j] /\ Candidate(settings[j], dir, ft)
          BY <5>1, <2>2
        <5> QED BY <5>1, <5>2, <3>2
      <4> QED BY <4>2, <4>3
    <3>4. All(k)
      <4>1. SUFFICES ASSUME NEW j \in 1 .. k, Candidate(settings[j], dir, ft)
                     PROVE  \E i \in 1 .. Len(t[k]) : t[k][i] = settings[j]
        OBVIOUS
      <4>2. CASE j = k
        BY <4>2, <3>2, <2>1
      <4>3. CASE j # k
        <5>1. PICK i \in 1 .. Len(t[k - 1]) : t[k - 1][i] = settings[j]
          BY <4>1, <4>3, <2>1, <2>2
        <5> QED BY <5>1, <3>2, <2>1
      <4> QED BY <4>2, <4>3
    <3> HIDE DEF From, All
    <3> QED BY <3>3, <3>4
  <2>4. CASE ~ Candidate(settings[k], dir, ft)
    <3>1. t[k] = t[k - 1]
      BY <2>4, <1>3
    <3>2. \A j \in 1 .. k : j \in 1 .. k - 1 \/ j = k
      BY <2>1
    <3>3. \A j \in 1 .. k - 1 : j \in 1 .. k
      BY <2>1
    <3>4. From(k)
      BY <3>1, <3>3, <2>2
    <3>5. All(k)
      BY <3>1, <3>2, <2>2, <2>4
    <3> HIDE DEF From, All
    <3> QED BY <3>4, <3>5
  <2> QED BY <2>3, <2>4
<1>6. n \in U
  <2>1. 0 .. n \subseteq U
    <3> HIDE DEF U
    <3> QED BY <1>1, <1>4, <1>5, Induction
  <2>2. n \in 0 .. n
    BY <1>1
  <2> HIDE DEF U
  <2> QED BY <2>1, <2>2
<1>7. From(n) /\ All(n) /\ t[n] \in Seq(T)
  BY <1>6, <1>3
<1> QED BY <1>3, <1>7 DEF n, Gathered

(* What is compared: from a base that is the first path that is found.     *)
Compared(settings, dir, ft, found, base, S, n) ==
  /\ found = get_project_directory_candidates(settings, dir, ft)
  /\ n \in Nat /\ DOMAIN found = 1 .. n
  /\ base = IF found = <<>> THEN dir ELSE found[1].path
  /\ base \in S /\ \A k \in 1 .. n : found[k].path \in S

(* The longest path behind each candidate.                                 *)
LongestSoFar(t, base, found, S, n) ==
  /\ t[0] = base
  /\ \A k \in 1 .. n : t[k] = IF Len(found[k].path) > Len(t[k - 1]) THEN found[k].path ELSE t[k - 1]
  /\ \A k \in 0 .. n : t[k] \in S

ComparingPaths(t, settings, dir, ft, found, base, S, n) ==
  LongestSoFar(t, base, found, S, n) /\ check_project_directories(settings, dir, ft) = t[n]

LEMMA CompareSteps ==
  ASSUME NEW settings, NEW dir, NEW ft, NEW found, NEW base, NEW S, NEW n,
         Compared(settings, dir, ft, found, base, S, n)
  PROVE  \E t : ComparingPaths(t, settings, dir, ft, found, base, S, n)
<1>1. /\ found = get_project_directory_candidates(settings, dir, ft)
      /\ n \in Nat /\ DOMAIN found = 1 .. n
      /\ base = IF found = <<>> THEN dir ELSE found[1].path
      /\ base \in S /\ \A k \in 1 .. n : found[k].path \in S
  BY DEF Compared
<1> DEFINE longer(longest, c) == IF Len(c.path) > Len(longest) THEN c.path ELSE longest
           turn == [k \in 1 .. n |-> [longest \in S |-> longer(longest, found[k])]]
           step(h) == [s \in SUBSET DOMAIN found |-> IF s = {} THEN base ELSE longer(h[s \ {Max(s)}], found[Max(s)])]
           h == CHOOSE h : h = step(h)
<1>2. check_project_directories(settings, dir, ft) = h[DOMAIN found]
  BY <1>1 DEF check_project_directories, FoldLeft, MapThenFoldSet
<1>3. n \in Nat /\ DOMAIN found = 1 .. n /\ \A k \in 1 .. n : found[k].path \in S
  BY <1>1
<1>4. \A k \in 1 .. n, longest \in S : longer(longest, found[k]) \in S
  BY <1>3
<1> HIDE DEF longer
<1>5. turn \in [1 .. n -> [S -> S]] /\ base \in S
  BY <1>1, <1>4
<1> HIDE DEF turn
<1>6. PICK g : FoldedBy(g, turn, S, base, n)
  BY <1>3, <1>5, Folding
<1>7. g = step(g)
  <2>1. /\ g \in [SUBSET (1 .. n) -> S]
        /\ \A s \in SUBSET (1 .. n) : g[s] = IF s = {} THEN base ELSE turn[Max(s)][g[s \ {Max(s)}]]
    BY <1>6 DEF FoldedBy
  <2>2. ASSUME NEW s \in SUBSET (1 .. n), s # {}
        PROVE  g[s] = longer(g[s \ {Max(s)}], found[Max(s)])
    <3>1. Max(s) \in 1 .. n
      BY <2>2, <1>3, Greatest
    <3>2. g[s \ {Max(s)}] \in S
      BY <2>1
    <3>3. g[s] = turn[Max(s)][g[s \ {Max(s)}]]
      BY <2>1, <2>2
    <3> QED BY <3>1, <3>2, <3>3 DEF turn
  <2> QED BY <2>1, <2>2, <1>3
<1>8. h = step(h)
  <2> HIDE DEF step
  <2> QED BY <1>7
<1> HIDE DEF h
<1>9. h[1 .. 0] = base
  BY <1>8, <1>3
<1>10. ASSUME NEW k \in 1 .. n
      PROVE  h[1 .. k] = longer(h[1 .. k - 1], found[k])
  <2>1. 1 .. k \in SUBSET DOMAIN found /\ 1 .. k # {} /\ (1 .. k) \ {k} = 1 .. k - 1
    <3>1. k \in Nat /\ k > 0
      BY <1>3
    <3>2. 1 .. k # {} /\ (1 .. k) \ {k} = 1 .. k - 1
      BY <3>1, ButLast, Zenon
    <3>3. 1 .. k \in SUBSET DOMAIN found
      BY <1>3
    <3> QED BY <3>2, <3>3
  <2>2. Max(1 .. k) = k
    BY <1>3, MaxOfAll
  <2>3. h[1 .. k] = longer(h[(1 .. k) \ {Max(1 .. k)}], found[Max(1 .. k)])
    BY <2>1, <1>8
  <2> QED BY <2>1, <2>2, <2>3
<1> DEFINE t == [k \in 0 .. n |-> h[1 .. k]]
<1>11. t[0] = base /\ (\A k \in 1 .. n : t[k] = longer(t[k - 1], found[k])) /\ t[n] = h[1 .. n]
  BY <1>3, <1>9, <1>10
<1> HIDE DEF t
<1>12. \A k \in 0 .. n : t[k] \in S
  <2> DEFINE U == {k \in 0 .. n : t[k] \in S}
  <2>1. 0 \in U
    BY <1>3, <1>5, <1>11
  <2>2. ASSUME NEW k \in 1 .. n, k - 1 \in U PROVE k \in U
    <3>1. t[k] = longer(t[k - 1], found[k]) /\ t[k - 1] \in S
      BY <1>11, <2>2
    <3> QED BY <3>1, <1>4
  <2>3. 0 .. n \subseteq U
    <3> HIDE DEF U
    <3> QED BY <1>3, <2>1, <2>2, Induction
  <2> QED BY <2>3
<1>13. LongestSoFar(t, base, found, S, n)
  BY <1>11, <1>12 DEF longer, LongestSoFar
<1>14. ComparingPaths(t, settings, dir, ft, found, base, S, n)
  BY <1>2, <1>3, <1>11, <1>13 DEF ComparingPaths
<1> QED BY <1>14

(* It is one of theirs, and none is longer.                                *)
LEMMA Longest ==
  ASSUME NEW n \in Nat, NEW found, NEW C, NEW S \in SUBSET Seq(C), NEW base \in S,
         \A k \in 1 .. n : found[k].path \in S,
         NEW t, LongestSoFar(t, base, found, S, n)
  PROVE  \A k \in 1 .. n : Len(found[k].path) <= Len(t[n])
<1>1. /\ \A k \in 1 .. n : t[k] = IF Len(found[k].path) > Len(t[k - 1]) THEN found[k].path ELSE t[k - 1]
      /\ \A k \in 0 .. n : t[k] \in S
  BY DEF LongestSoFar
<1>2. \A s \in S : Len(s) \in Nat
  OBVIOUS
<1> DEFINE U == {k \in 0 .. n : \A j \in 1 .. k : Len(found[j].path) <= Len(t[k])}
<1>3. 0 \in U
  OBVIOUS
<1>4. ASSUME NEW k \in 1 .. n, k - 1 \in U PROVE k \in U
  <2>1. /\ Len(t[k]) \in Nat /\ Len(t[k - 1]) \in Nat
        /\ \A j \in 1 .. k : Len(found[j].path) \in Nat
    BY <1>1, <1>2
  <2>2. Len(t[k]) >= Len(t[k - 1]) /\ Len(t[k]) >= Len(found[k].path)
    <3>1. CASE Len(found[k].path) > Len(t[k - 1])
      <4>1. t[k] = found[k].path
        BY <1>1, <3>1
      <4> QED BY <4>1, <3>1, <2>1
    <3>2. CASE ~ Len(found[k].path) > Len(t[k - 1])
      <4>1. t[k] = t[k - 1]
        BY <1>1, <3>2
      <4> QED BY <4>1, <3>2, <2>1
    <3> QED BY <3>1, <3>2
  <2>3. \A j \in 1 .. k - 1 : Len(found[j].path) <= Len(t[k - 1])
    BY <1>4
  <2>4. ASSUME NEW j \in 1 .. k PROVE Len(found[j].path) <= Len(t[k])
    <3>1. CASE j = k
      BY <3>1, <2>2, <2>1
    <3>2. CASE j # k
      <4>1. Len(found[j].path) <= Len(t[k - 1])
        BY <2>3, <3>2
      <4> QED BY <4>1, <2>1, <2>2
    <3> QED BY <3>1, <3>2
  <2> QED BY <2>4
<1>5. n \in U
  <2>1. 0 .. n \subseteq U
    <3> HIDE DEF U
    <3> QED BY <1>3, <1>4, Induction
  <2> QED BY <2>1
<1> QED BY <1>5

(* What a character begins with in the name of a tags file.                *)
FirstOf(ch) == IF ch = "/" THEN "_" ELSE ch

(* The elements of s, and behind them those of r.                          *)
Joint(x, s, r) ==
  /\ Len(x) = Len(s) + Len(r)
  /\ \A i \in 1 .. Len(s) : x[i] = s[i]
  /\ \A i \in 1 .. Len(r) : x[Len(s) + i] = r[i]

LEMMA Joints ==
  ASSUME NEW T, NEW s \in Seq(T), NEW r \in Seq(T), NEW x, x = s \o r
  PROVE  x \in Seq(T) /\ Joint(x, s, r)
BY DEF Joint

(* What a path has.                                                        *)
Characters == STRING \cup {"_", ".", "c", "cpp", "go"}

LEMMA CharactersHave ==
  {"_", ".", "c", "cpp", "go"} \subseteq Characters /\ "_" \in Characters /\ "." \in Characters
  /\ STRING \subseteq Characters
BY Zenon DEF Characters

(* Short sequences of what may be a string: SMT does not see that a string *)
(* is an element of a set of them.                                         *)
LEMMA OneOf ==
  ASSUME NEW T, NEW a \in T
  PROVE  <<a>> \in Seq(T) /\ Len(<<a>>) = 1 /\ <<a>>[1] = a
OBVIOUS

LEMMA TwoOf ==
  ASSUME NEW T, NEW a \in T, NEW b \in T
  PROVE  <<a, b>> \in Seq(T) /\ Len(<<a, b>>) = 2 /\ <<a, b>>[1] = a /\ <<a, b>>[2] = b
OBVIOUS

LEMMA SameElements ==
  ASSUME NEW T, NEW s \in Seq(T), NEW r \in Seq(T), Len(s) = Len(r),
         \A i \in 1 .. Len(s) : s[i] = r[i]
  PROVE  s = r
<1>1. ASSUME NEW x \in Seq(T) PROVE x \in [1 .. Len(x) -> T]
  OBVIOUS
<1>2. s \in [1 .. Len(s) -> T] /\ r \in [1 .. Len(s) -> T]
  BY <1>1, Zenon
<1> QED BY <1>2

(* What is written of a character.                                         *)
LEMMA EscapedSeq ==
  ASSUME NEW ch \in Characters
  PROVE  /\ Escaped(ch) \in Seq(Characters)
         /\ Escaped(ch)[1] = FirstOf(ch)
         /\ ch = "/" => Len(Escaped(ch)) = 2 /\ Escaped(ch)[2] = "_"
         /\ ch # "/" => Len(Escaped(ch)) = 1
<1>1. CASE ch = "/"
  <2>1. Escaped(ch) = <<"_", "_">> /\ FirstOf(ch) = "_"
    BY <1>1, Zenon DEF Escaped, FirstOf
  <2>2. /\ <<"_", "_">> \in Seq(Characters) /\ Len(<<"_", "_">>) = 2
        /\ <<"_", "_">>[1] = "_" /\ <<"_", "_">>[2] = "_"
    BY CharactersHave, TwoOf, Zenon
  <2> QED BY <1>1, <2>1, <2>2, Zenon
<1>2. CASE ch # "/"
  <2>1. Escaped(ch) = <<ch>> /\ FirstOf(ch) = ch
    BY <1>2, Zenon DEF Escaped, FirstOf
  <2>2. <<ch>> \in Seq(Characters) /\ Len(<<ch>>) = 1 /\ <<ch>>[1] = ch
    BY OneOf, Zenon
  <2> QED BY <1>2, <2>1, <2>2, Zenon
<1> QED BY <1>1, <1>2

(* A character more has been written.                                      *)
OneMore(r, s, ch) ==
  /\ Len(r) \in Nat /\ Len(r) > Len(s)
  /\ \A i \in 1 .. Len(s) : r[i] = s[i]
  /\ r[Len(s) + 1] = FirstOf(ch)
  /\ ch = "/" => Len(r) = Len(s) + 2 /\ r[Len(s) + 2] = "_"
  /\ ch # "/" => Len(r) = Len(s) + 1

LEMMA Writing ==
  ASSUME NEW s \in Seq(Characters), NEW ch \in Characters, NEW r, r = s \o Escaped(ch)
  PROVE  r \in Seq(Characters) /\ OneMore(r, s, ch)
<1> DEFINE e == Escaped(ch)
<1>1. /\ e \in Seq(Characters) /\ e[1] = FirstOf(ch)
      /\ ch = "/" => Len(e) = 2 /\ e[2] = "_"
      /\ ch # "/" => Len(e) = 1
  BY EscapedSeq
<1>2. r = s \o e
  OBVIOUS
<1> HIDE DEF e
<1>3. r \in Seq(Characters) /\ Joint(r, s, e)
  BY <1>1, <1>2, Joints
<1>4. Len(s) \in Nat /\ Len(e) \in Nat /\ Len(e) > 0
  <2>1. e \in Seq(Characters)
    BY <1>1, Zenon
  <2>2. Len(s) \in Nat /\ Len(e) \in Nat
    BY <2>1
  <2>3. Len(e) = 1 \/ Len(e) = 2
    BY <1>1, Zenon
  <2> DEFINE l == Len(e)
  <2> HIDE DEF l
  <2>4. l \in Nat /\ (l = 1 \/ l = 2) => l > 0
    OBVIOUS
  <2> QED BY <2>2, <2>3, <2>4, Zenon DEF l
<1>5. /\ Len(r) = Len(s) + Len(e)
      /\ \A i \in 1 .. Len(s) : r[i] = s[i]
      /\ \A i \in 1 .. Len(e) : r[Len(s) + i] = e[i]
  BY <1>3 DEF Joint
<1>6. r[Len(s) + 1] = FirstOf(ch)
  <2>1. 1 \in 1 .. Len(e)
    BY <1>4
  <2> QED BY <2>1, <1>1, <1>5
<1>7. ASSUME ch = "/" PROVE Len(r) = Len(s) + 2 /\ r[Len(s) + 2] = "_"
  <2>1. Len(e) = 2
    BY <1>1, <1>7, Zenon
  <2>2. 2 \in 1 .. 2
    OBVIOUS
  <2>3. r[Len(s) + 2] = e[2]
    BY <2>1, <2>2, <1>5, Zenon
  <2> QED BY <2>1, <2>3, <1>1, <1>5, <1>7, Zenon
<1>8. ASSUME ch # "/" PROVE Len(r) = Len(s) + 1
  BY <1>1, <1>5, <1>8
<1>9. Len(r) \in Nat /\ Len(r) > Len(s)
  BY <1>4, <1>5
<1> QED BY <1>3, <1>5, <1>6, <1>7, <1>8, <1>9 DEF OneMore

(* A path as get_tag_filename writes it: t[k] is what becomes of its first *)
(* k characters.                                                           *)
Escaping(t, p, n) ==
  /\ t[0] = <<>>
  /\ \A k \in 0 .. n : t[k] \in Seq(Characters)
  /\ \A k \in 1 .. n : t[k] = t[k - 1] \o Escaped(p[k])

EscapedPath(p) == FlattenSeq([i \in 1 .. Len(p) |-> Escaped(p[i])])

LEMMA EscapeSteps ==
  ASSUME NEW p \in Seq(Characters), NEW n, n = Len(p)
  PROVE  \E t : Escaping(t, p, n) /\ EscapedPath(p) = t[n]
<1> DEFINE seqs == [i \in 1 .. n |-> Escaped(p[i])]
<1>1. n \in Nat
  OBVIOUS
<1>2. \A i \in 1 .. n : Escaped(p[i]) \in Seq(Characters)
  <2>1. \A i \in 1 .. n : p[i] \in Characters
    OBVIOUS
  <2> QED BY <2>1, EscapedSeq
<1>3. seqs \in Seq(Seq(Characters)) /\ Len(seqs) = n /\ \A i \in 1 .. n : seqs[i] = Escaped(p[i])
  BY <1>1, <1>2
<1>4. EscapedPath(p) = FlattenSeq(seqs)
  BY DEF EscapedPath
<1> HIDE DEF seqs
<1>5. CASE n = 0
  <2>1. seqs = <<>>
    BY <1>3, <1>5
  <2>2. FlattenSeq(seqs) = <<>>
    BY <2>1 DEF FlattenSeq
  <2> DEFINE t == [k \in 0 .. 0 |-> <<>>]
  <2>3. t[0] = <<>> /\ t[0] \in Seq(Characters)
    OBVIOUS
  <2>4. Escaping(t, p, n)
    BY <1>5, <2>3 DEF Escaping
  <2> QED BY <1>4, <1>5, <2>2, <2>3, <2>4
<1>6. CASE n > 0
  <2>1. PICK u : Joining(u, seqs, Characters, n)
    BY <1>1, <1>3, <1>6, JoinSteps
  <2>2. /\ \A k \in 1 .. n : u[k] \in Seq(Characters)
        /\ \A k \in 1 .. n : u[k] = IF k = 1 THEN seqs[k] ELSE u[k - 1] \o seqs[k]
        /\ FlattenSeq(seqs) = u[n]
    BY <2>1 DEF Joining
  <2> DEFINE t == [k \in 0 .. n |-> IF k = 0 THEN <<>> ELSE u[k]]
  <2>3. t[0] = <<>> /\ \A k \in 1 .. n : t[k] = u[k]
    BY <1>1
  <2>4. t[n] = u[n]
    BY <1>1, <1>6
  <2> HIDE DEF t
  <2>5. ASSUME NEW k \in 0 .. n PROVE t[k] \in Seq(Characters)
    <3>1. <<>> \in Seq(Characters)
      OBVIOUS
    <3>2. CASE k = 0
      BY <3>1, <3>2, <2>3, Zenon
    <3>3. CASE k # 0
      <4>1. k \in 1 .. n
        BY <3>3, <1>1
      <4> QED BY <4>1, <2>2, <2>3, Zenon
    <3> QED BY <3>2, <3>3
  <2>6. ASSUME NEW k \in 1 .. n PROVE t[k] = t[k - 1] \o Escaped(p[k])
    <3>1. CASE k = 1
      <4>1. t[1] = seqs[1] /\ t[0] = <<>>
        BY <2>2, <2>3, <3>1
      <4>2. <<>> \o seqs[1] = seqs[1]
        BY <1>2, <1>3, <3>1
      <4>3. t[k] = seqs[1] /\ t[k - 1] = <<>>
        BY <4>1, <3>1
      <4>4. seqs[1] = Escaped(p[k])
        BY <3>1, <1>3
      <4> QED BY <4>2, <4>3, <4>4
    <3>2. CASE k # 1
      <4>1. k - 1 \in 1 .. n
        BY <1>1, <3>2
      <4>2. t[k] = u[k] /\ t[k - 1] = u[k - 1] /\ u[k] = u[k - 1] \o seqs[k]
        BY <4>1, <3>2, <2>2, <2>3, Zenon
      <4> QED BY <4>2, <1>3, Zenon
    <3> QED BY <3>1, <3>2
  <2>7. Escaping(t, p, n)
    BY <2>3, <2>5, <2>6 DEF Escaping
  <2> QED BY <2>2, <2>4, <2>7, <1>4
<1> QED BY <1>1, <1>5, <1>6

(* What has been written stays.                                            *)
LEMMA EscapedBefore ==
  ASSUME NEW p \in Seq(Characters), NEW n \in Nat, n = Len(p), NEW t, Escaping(t, p, n), NEW k \in 0 .. n
  PROVE  /\ Len(t[k]) <= Len(t[n])
         /\ \A i \in 1 .. Len(t[k]) : t[n][i] = t[k][i]
<1>1. /\ \A j \in 0 .. n : t[j] \in Seq(Characters)
      /\ \A j \in 1 .. n : t[j] = t[j - 1] \o Escaped(p[j])
  BY DEF Escaping
<1> DEFINE Stays(j) == Len(t[k]) <= Len(t[j]) /\ \A i \in 1 .. Len(t[k]) : t[j][i] = t[k][i]
           U == {j \in 0 .. n : j >= k => Stays(j)}
<1>2. Stays(k)
  BY <1>1
<1>3. 0 \in U
  BY <1>2
<1>4. ASSUME NEW j \in 1 .. n, j - 1 \in U PROVE j \in U
  <2>1. CASE j < k
    BY <2>1
  <2>2. CASE j = k
    BY <2>2, <1>2
  <2>3. CASE j > k
    <3>1. Stays(j - 1)
      BY <2>3, <1>4
    <3>2. /\ t[j] = t[j - 1] \o Escaped(p[j])
          /\ t[j - 1] \in Seq(Characters) /\ p[j] \in Characters /\ t[k] \in Seq(Characters)
      <4>1. j - 1 \in 0 .. n /\ p[j] \in Characters
        OBVIOUS
      <4> QED BY <4>1, <1>1, Zenon
    <3>3. OneMore(t[j], t[j - 1], p[j])
      BY <3>2, Writing
    <3>4. Stays(j)
      <4>1. Len(t[j - 1]) \in Nat /\ Len(t[k]) \in Nat
        BY <3>2
      <4>2. Len(t[j]) \in Nat /\ Len(t[j]) > Len(t[j - 1]) /\ \A i \in 1 .. Len(t[j - 1]) : t[j][i] = t[j - 1][i]
        BY <3>3 DEF OneMore
      <4> QED BY <3>1, <4>1, <4>2
    <3> HIDE DEF Stays
    <3> QED BY <3>4
  <2> QED BY <2>1, <2>2, <2>3
<1>5. n \in U
  <2>1. 0 .. n \subseteq U
    <3> HIDE DEF U
    <3> QED BY <1>3, <1>4, Induction
  <2> QED BY <2>1
<1> QED BY <1>5

(* How a character is found again.                                         *)
FoundAt(e, c, p, k) ==
  /\ c + 1 <= Len(e) /\ e[c + 1] = FirstOf(p[k])
  /\ p[k] = "/" => e[c + 2] = "_"
  /\ p[k] # "/" /\ k < Len(p) => e[c + 2] = FirstOf(p[k + 1])

LEMMA EscapedAt ==
  ASSUME NEW p \in Seq(Characters), NEW n \in Nat, n = Len(p), NEW t, Escaping(t, p, n), NEW k \in 1 .. n
  PROVE  FoundAt(t[n], Len(t[k - 1]), p, k)
<1>1. /\ \A j \in 0 .. n : t[j] \in Seq(Characters)
      /\ \A j \in 1 .. n : t[j] = t[j - 1] \o Escaped(p[j])
  BY DEF Escaping
<1> DEFINE c == Len(t[k - 1])
<1>2. c \in Nat /\ t[k - 1] \in Seq(Characters) /\ p[k] \in Characters
  BY <1>1
<1>3. t[k] = t[k - 1] \o Escaped(p[k])
  BY <1>1
<1>4. /\ Len(t[k]) <= Len(t[n]) /\ Len(t[k]) \in Nat /\ Len(t[n]) \in Nat
      /\ \A i \in 1 .. Len(t[k]) : t[n][i] = t[k][i]
  <2>1. k \in 0 .. n
    OBVIOUS
  <2> QED BY <2>1, <1>1, EscapedBefore
<1> HIDE DEF c
<1>5. OneMore(t[k], t[k - 1], p[k])
  BY <1>2, <1>3, Writing
<1>6. /\ Len(t[k]) > c
      /\ t[k][c + 1] = FirstOf(p[k])
      /\ p[k] = "/" => Len(t[k]) = c + 2 /\ t[k][c + 2] = "_"
      /\ p[k] # "/" => Len(t[k]) = c + 1
  BY <1>5, Zenon DEF OneMore, c
<1>7. c + 1 <= Len(t[n]) /\ t[n][c + 1] = FirstOf(p[k])
  <2>1. c \in Nat /\ Len(t[k]) > c
    BY <1>2, <1>6, Zenon
  <2>2. c + 1 <= Len(t[n]) /\ c + 1 \in 1 .. Len(t[k])
    BY <2>1, <1>4
  <2>3. t[n][c + 1] = t[k][c + 1]
    BY <2>2, <1>4, Zenon
  <2> QED BY <2>2, <2>3, <1>6, Zenon
<1>8. ASSUME p[k] = "/" PROVE t[n][c + 2] = "_"
  <2>1. Len(t[k]) = c + 2 /\ t[k][c + 2] = "_"
    BY <1>6, <1>8, Zenon
  <2>2. c + 2 \in 1 .. Len(t[k])
    <3>1. c \in Nat => c + 2 \in 1 .. c + 2
      OBVIOUS
    <3> QED BY <3>1, <2>1, <1>2, Zenon
  <2>3. t[n][c + 2] = t[k][c + 2]
    BY <2>2, <1>4, Zenon
  <2> QED BY <2>1, <2>3, Zenon
<1>9. ASSUME p[k] # "/", k < n PROVE t[n][c + 2] = FirstOf(p[k + 1])
  <2> DEFINE l == k + 1
  <2>1. l \in 1 .. n /\ l - 1 = k /\ l \in 0 .. n /\ l = k + 1
    BY <1>9
  <2> HIDE DEF l
  <2>2. t[l] = t[l - 1] \o Escaped(p[l]) /\ t[l - 1] \in Seq(Characters) /\ p[l] \in Characters
    <3>1. l - 1 \in 0 .. n /\ p[l] \in Characters
      BY <2>1
    <3> QED BY <3>1, <2>1, <1>1, Zenon
  <2>3. OneMore(t[l], t[k], p[l])
    BY <2>1, <2>2, Writing
  <2>4. Len(t[k]) = c + 1
    BY <1>6, <1>9
  <2>5. Len(t[l]) \in Nat /\ Len(t[l]) > Len(t[k]) /\ t[l][Len(t[k]) + 1] = FirstOf(p[l])
    BY <2>3 DEF OneMore
  <2>6. \A i \in 1 .. Len(t[l]) : t[n][i] = t[l][i]
    BY <2>1, EscapedBefore
  <2>7. c + 2 \in 1 .. Len(t[l]) /\ t[l][c + 2] = FirstOf(p[l])
    BY <2>4, <2>5, <1>2
  <2> QED BY <2>1, <2>6, <2>7
<1> QED BY <1>7, <1>8, <1>9 DEF FoundAt, c

(* Two plain paths that are written alike are the same.                    *)
LEMMA SameCharacter ==
  ASSUME NEW e, NEW c, NEW p, NEW q, NEW k \in Nat, PlainPath(q), k \in 1 .. Len(q), Len(q) \in Nat,
         FoundAt(e, c, p, k), FoundAt(e, c, q, k), p[k] = "/"
  PROVE  q[k] = "/"
<1>1. SUFFICES ASSUME q[k] # "/" PROVE FALSE
  OBVIOUS
<1>2. e[c + 1] = "_" /\ e[c + 2] = "_"
  BY DEF FoundAt, FirstOf
<1>3. q[k] = "_"
  BY <1>1, <1>2 DEF FoundAt, FirstOf
<1>4. k < Len(q) /\ q[k + 1] \notin {"/", "_"}
  BY <1>3 DEF PlainPath
<1>5. e[c + 2] = FirstOf(q[k + 1])
  BY <1>1, <1>4 DEF FoundAt
<1> QED BY <1>2, <1>4, <1>5 DEF FirstOf

LEMMA SamePath ==
  ASSUME NEW p \in Seq(Characters), NEW q \in Seq(Characters), PlainPath(p), PlainPath(q),
         EscapedPath(p) = EscapedPath(q)
  PROVE  p = q
<1> DEFINE n == Len(p)
           m == Len(q)
<1>1. n \in Nat /\ m \in Nat /\ n = Len(p) /\ m = Len(q)
  OBVIOUS
<1> HIDE DEF n, m
<1>2. PICK t : Escaping(t, p, n) /\ EscapedPath(p) = t[n]
  BY <1>1, EscapeSteps
<1>3. PICK u : Escaping(u, q, m) /\ EscapedPath(q) = u[m]
  BY <1>1, EscapeSteps
<1>4. t[n] = u[m]
  BY <1>2, <1>3
<1> DEFINE Alike(k) == t[k] = u[k] /\ \A j \in 1 .. k : p[j] = q[j]
           U == {k \in 0 .. n : k <= m => Alike(k)}
<1>5. 0 \in U
  <2>1. t[0] = u[0]
    BY <1>2, <1>3 DEF Escaping
  <2> QED BY <2>1, <1>1
<1>6. ASSUME NEW k \in 1 .. n, k - 1 \in U PROVE k \in U
  <2>1. SUFFICES ASSUME k <= m PROVE Alike(k)
    <3> HIDE DEF Alike
    <3> QED BY <2>1
  <2>2. k \in Nat /\ k \in 1 .. m /\ k \in 1 .. Len(q) /\ k \in 1 .. Len(p)
    BY <1>1, <2>1
  <2>3. Alike(k - 1)
    <3> HIDE DEF Alike
    <3> QED BY <1>1, <1>6, <2>1
  <2>4. FoundAt(t[n], Len(t[k - 1]), p, k)
    BY <1>1, <1>2, EscapedAt
  <2>5. FoundAt(u[m], Len(u[k - 1]), q, k)
    BY <1>1, <1>3, <2>2, EscapedAt
  <2>6. FoundAt(t[n], Len(t[k - 1]), q, k)
    BY <2>3, <2>5, <1>4
  <2>7. p[k] = q[k]
    <3>1. Len(p) \in Nat /\ Len(q) \in Nat
      BY <1>1
    <3>2. CASE p[k] = "/"
      BY <3>1, <3>2, <2>2, <2>4, <2>6, SameCharacter
    <3>3. CASE q[k] = "/"
      BY <3>1, <3>3, <2>2, <2>4, <2>6, SameCharacter
    <3>4. CASE p[k] # "/" /\ q[k] # "/"
      BY <3>4, <2>4, <2>6 DEF FoundAt, FirstOf
    <3> QED BY <3>2, <3>3, <3>4
  <2>8. t[k] = u[k]
    <3>1. t[k] = t[k - 1] \o Escaped(p[k]) /\ u[k] = u[k - 1] \o Escaped(q[k])
      BY <1>2, <1>3, <2>2 DEF Escaping
    <3> QED BY <3>1, <2>3, <2>7
  <2>9. \A j \in 1 .. k : j \in 1 .. k - 1 \/ j = k
    BY <2>2
  <2> QED BY <2>3, <2>7, <2>8, <2>9
<1>7. ASSUME NEW k \in 0 .. n, k <= m PROVE Alike(k)
  <2>1. 0 .. n \subseteq U
    <3> HIDE DEF U
    <3> QED BY <1>1, <1>5, <1>6, Induction
  <2> HIDE DEF Alike
  <2> QED BY <2>1, <1>7
<1> HIDE DEF U
<1>8. ~ n < m
  <2>1. SUFFICES ASSUME n < m PROVE FALSE
    OBVIOUS
  <2>2. t[n] = u[n]
    BY <1>1, <1>7, <2>1
  <2>3. FoundAt(u[m], Len(u[n]), q, n + 1)
    <3>1. n + 1 \in 1 .. m /\ (n + 1) - 1 = n
      BY <1>1, <2>1
    <3>2. FoundAt(u[m], Len(u[(n + 1) - 1]), q, n + 1)
      BY <3>1, <1>1, <1>3, EscapedAt
    <3> QED BY <3>1, <3>2
  <2>4. Len(u[n]) \in Nat
    <3>1. n \in 0 .. m
      BY <1>1, <2>1
    <3>2. u[n] \in Seq(Characters)
      BY <3>1, <1>3 DEF Escaping
    <3> QED BY <3>2
  <2>5. Len(u[n]) + 1 <= Len(u[m])
    BY <2>3 DEF FoundAt
  <2>6. Len(u[m]) = Len(u[n])
    BY <2>2, <1>4
  <2> QED BY <2>4, <2>5, <2>6
<1>9. ~ m < n
  <2>1. SUFFICES ASSUME m < n PROVE FALSE
    OBVIOUS
  <2>2. t[m] = u[m]
    BY <1>1, <1>7, <2>1
  <2>3. FoundAt(t[n], Len(t[m]), p, m + 1)
    <3>1. m + 1 \in 1 .. n /\ (m + 1) - 1 = m
      BY <1>1, <2>1
    <3>2. FoundAt(t[n], Len(t[(m + 1) - 1]), p, m + 1)
      BY <3>1, <1>1, <1>2, EscapedAt
    <3> QED BY <3>1, <3>2
  <2>4. Len(t[m]) \in Nat
    <3>1. m \in 0 .. n
      BY <1>1, <2>1
    <3>2. t[m] \in Seq(Characters)
      BY <3>1, <1>2 DEF Escaping
    <3> QED BY <3>2
  <2>5. Len(t[m]) + 1 <= Len(t[n])
    BY <2>3 DEF FoundAt
  <2>6. Len(t[m]) = Len(t[n])
    BY <2>2, <1>4
  <2> QED BY <2>4, <2>5, <2>6
<1>10. n = m
  BY <1>1, <1>8, <1>9
<1>11. \A j \in 1 .. n : p[j] = q[j]
  <2>1. Alike(n)
    <3> HIDE DEF Alike
    <3> QED BY <1>1, <1>7, <1>10
  <2> QED BY <2>1
<1> HIDE DEF Alike
<1>12. Len(p) = Len(q) /\ \A j \in 1 .. Len(p) : p[j] = q[j]
  BY <1>1, <1>10, <1>11, Zenon
<1> QED BY <1>12, SameElements, Zenon

(* A name tells the filetype, and what is before it.                       *)
LEMMA SameName ==
  ASSUME NEW p \in Seq(Characters), NEW q \in Seq(Characters), NEW f \in Characters, NEW g \in Characters,
         get_tag_filename(p, f) = get_tag_filename(q, g)
  PROVE  f = g /\ EscapedPath(p) = EscapedPath(q)
<1> DEFINE a == EscapedPath(p)
           b == EscapedPath(q)
<1>1. a \in Seq(Characters) /\ b \in Seq(Characters)
  <2>1. ASSUME NEW r \in Seq(Characters) PROVE EscapedPath(r) \in Seq(Characters)
    <3>1. PICK t : Escaping(t, r, Len(r)) /\ EscapedPath(r) = t[Len(r)]
      BY EscapeSteps
    <3>2. Len(r) \in 0 .. Len(r)
      OBVIOUS
    <3> QED BY <3>1, <3>2 DEF Escaping
  <2> QED BY <2>1
<1>2. get_tag_filename(p, f) = a \o <<".", f>> /\ get_tag_filename(q, g) = b \o <<".", g>>
  BY DEF get_tag_filename, EscapedPath
<1> HIDE DEF a, b
<1> DEFINE x == a \o <<".", f>>
           y == b \o <<".", g>>
<1>3. x = y
  BY <1>2
<1> HIDE DEF x, y
<1> DEFINE d == <<".", f>>
           e == <<".", g>>
<1>4. /\ d \in Seq(Characters) /\ Len(d) = 2 /\ d[2] = f
      /\ e \in Seq(Characters) /\ Len(e) = 2 /\ e[2] = g
      /\ x = a \o d /\ y = b \o e
  BY CharactersHave, TwoOf, Zenon DEF x, y
<1> HIDE DEF d, e
<1>5. Joint(x, a, d) /\ Joint(y, b, e)
  BY <1>1, <1>4, Joints
<1>6. Len(a) = Len(b) /\ f = g /\ \A i \in 1 .. Len(a) : a[i] = b[i]
  <2>1. Len(a) \in Nat /\ Len(b) \in Nat
    BY <1>1
  <2>2. /\ Len(x) = Len(a) + 2 /\ x[Len(a) + 2] = f
        /\ \A i \in 1 .. Len(a) : x[i] = a[i]
    BY <1>4, <1>5 DEF Joint
  <2>3. /\ Len(y) = Len(b) + 2 /\ y[Len(b) + 2] = g
        /\ \A i \in 1 .. Len(b) : y[i] = b[i]
    BY <1>4, <1>5 DEF Joint
  <2>4. Len(a) = Len(b)
    BY <2>1, <2>2, <2>3, <1>3
  <2> QED BY <2>2, <2>3, <2>4, <1>3
<1>7. a = b
  BY <1>1, <1>6, SameElements
<1> QED BY <1>6, <1>7 DEF a, b

(* A line of a settings file.                                              *)
Line == [path : Seq(STRING), ft : STRING \cup {None}]

LEMMA PathOf ==
  ASSUME NEW P, NEW Q, NEW line \in [path : P, ft : Q]
  PROVE  line.path \in P
OBVIOUS

LEMMA LinePaths ==
  ASSUME NEW lines \in Seq(Line)
  PROVE  /\ Len(lines) \in Nat
         /\ \A i \in 1 .. Len(lines) : lines[i].path \in Seq(STRING)
<1>1. \A line \in Line : line.path \in Seq(STRING)
  BY PathOf, Zenon DEF Line
<1>2. Len(lines) \in Nat /\ \A i \in 1 .. Len(lines) : lines[i] \in Line
  OBVIOUS
<1> QED BY <1>1, <1>2, Zenon

LEMMA MoreElements ==
  ASSUME NEW S, NEW T, S \subseteq T, NEW s \in Seq(S)
  PROVE  s \in Seq(T)
OBVIOUS

(* What is above a directory is found in it, by strstr.                    *)
LEMMA UnderWithin ==
  ASSUME NEW p \in Seq(STRING), NEW dir, Len(dir) \in Nat, Under(p, dir)
  PROVE  Within(p, dir)
<1>1. Len(p) \in Nat /\ SubSeq(p, 1, Len(p)) = p
  OBVIOUS
<1>2. Len(p) <= Len(dir) /\ SubSeq(p, 1, Len(p)) = SubSeq(dir, 1, Len(p))
  BY DEF Under, IsPrefix
<1>3. SubSeq(dir, 1, Len(p)) = p
  BY <1>1, <1>2, Zenon
<1>4. 0 \in 0 .. Len(dir) - Len(p) /\ 0 + 1 = 1 /\ 0 + Len(p) = Len(p)
  BY <1>1, <1>2
<1>5. SubSeq(dir, 0 + 1, 0 + Len(p)) = p
  BY <1>3, <1>4, Zenon
<1> QED BY <1>4, <1>5, Zenon DEF Within

(* The lines that get_project_directory_candidates takes the filetype of.  *)
LEMMA OwnLines ==
  ASSUME NEW line, NEW ft \in {"c", "cpp", "go"}
  PROVE  MatchesFiletype(line, ft) <=> (line.ft = ft \/ {line.ft, ft} = {"c", "cpp"})
<1>1. CASE ft = "c"
  BY <1>1, NoneAssumption DEF MatchesFiletype
<1>2. CASE ft = "cpp"
  BY <1>2, NoneAssumption DEF MatchesFiletype
<1>3. CASE ft = "go"
  BY <1>3, NoneAssumption DEF MatchesFiletype
<1> QED BY <1>1, <1>2, <1>3

LEMMA DirnameType ==
  ASSUME NEW full \in Seq(STRING), \E i \in 1 .. Len(full) : full[i] = "/"
  PROVE  b_dirname(full) \in Seq(STRING)
<1> DEFINE n == Len(full)
           s == {i \in 1 .. n : full[i] = "/"}
           AtEnd(i) == full[i] = "/" /\ \A j \in i + 1 .. n : full[j] # "/"
           m == CHOOSE i \in 1 .. n : AtEnd(i)
<1>1. n \in Nat /\ s \in SUBSET (1 .. n) /\ s # {}
  OBVIOUS
<1>2. Max(s) \in s /\ \A k \in s : k <= Max(s)
  <2> HIDE DEF s, n
  <2> QED BY <1>1, Greatest
<1>3. \E i \in 1 .. n : AtEnd(i)
  <2> DEFINE k == Max(s)
  <2>1. k \in 1 .. n /\ full[k] = "/" /\ \A j \in s : j <= k
    BY <1>2
  <2> HIDE DEF k
  <2>2. ASSUME NEW j \in k + 1 .. n PROVE full[j] # "/"
    <3>1. j \in 1 .. n /\ ~ j <= k
      BY <2>1, <1>1
    <3> QED BY <3>1, <2>1
  <2> QED BY <2>1, <2>2
<1>4. m \in 1 .. n
  <2> HIDE DEF AtEnd
  <2> QED BY <1>3
<1>5. b_dirname(full) = SubSeq(full, 1, m - 1)
  BY DEF b_dirname
<1> HIDE DEF m
<1>6. SubSeq(full, 1, m - 1) \in Seq(STRING)
  BY <1>4
<1> QED BY <1>5, <1>6

(* What is chosen for a directory: the longest of what is found, or itself.*)
ChosenOf(found, dir, top) ==
  \/ found = <<>> /\ top = dir
  \/ \E k \in 1 .. Len(found) : top = found[k].path /\ \A j \in 1 .. Len(found) : Len(found[j].path) <= Len(top)

LEMMA Chosen ==
  ASSUME NEW settings \in Seq(Line), NEW dir, NEW ft
  PROVE  ChosenOf(get_project_directory_candidates(settings, dir, ft), dir, check_project_directories(settings, dir, ft))
<1> DEFINE found == get_project_directory_candidates(settings, dir, ft)
           top == check_project_directories(settings, dir, ft)
           n == Len(found)
<1>1. found = get_project_directory_candidates(settings, dir, ft)
  OBVIOUS
<1>2. found \in Seq(Line)
  BY Collected DEF Gathered
<1> HIDE DEF found
<1>3. n \in Nat /\ DOMAIN found = 1 .. n /\ (n = 0 => found = <<>>) /\ (found = <<>> => n = 0)
  BY <1>2
<1>4. \A k \in 1 .. n : found[k].path \in Seq(STRING)
  BY <1>2, LinePaths, Zenon
<1> HIDE DEF n
<1>5. CASE found = <<>>
  <2>1. PICK t : ComparingPaths(t, settings, dir, ft, found, dir, {dir}, 0)
    <3>1. Compared(settings, dir, ft, found, dir, {dir}, 0)
      BY <1>1, <1>3, <1>5 DEF Compared
    <3> QED BY <3>1, CompareSteps
  <2> QED BY <2>1, <1>5 DEF ComparingPaths, LongestSoFar, ChosenOf, found
<1>6. CASE found # <<>>
  <2> DEFINE S == {found[k].path : k \in 1 .. n}
             base == found[1].path
  <2>1. base \in S /\ (\A k \in 1 .. n : found[k].path \in S) /\ S \in SUBSET Seq(STRING)
    BY <1>3, <1>4, <1>6
  <2>2. Compared(settings, dir, ft, found, base, S, n)
    <3>1. base = IF found = <<>> THEN dir ELSE found[1].path
      BY <1>6
    <3> HIDE DEF base, S
    <3> QED BY <3>1, <2>1, <1>1, <1>3 DEF Compared
  <2>3. \A p \in S : \E k \in 1 .. n : p = found[k].path
    OBVIOUS
  <2> HIDE DEF S, base
  <2>4. PICK t : ComparingPaths(t, settings, dir, ft, found, base, S, n)
    BY <2>2, CompareSteps, Zenon
  <2>5. LongestSoFar(t, base, found, S, n) /\ top = t[n]
    BY <2>4 DEF ComparingPaths
  <2>6. \A k \in 1 .. n : Len(found[k].path) <= Len(t[n])
    BY <1>3, <2>1, <2>5, Longest
  <2>7. top \in S
    BY <2>5, <1>3 DEF LongestSoFar
  <2>8. \E k \in 1 .. n : top = found[k].path
    BY <2>3, <2>7
  <2>9. \A j \in 1 .. n : Len(found[j].path) <= Len(top)
    BY <2>5, <2>6
  <2> HIDE DEF top
  <2>10. ChosenOf(found, dir, top)
    BY <2>8, <2>9 DEF n, ChosenOf
  <2> QED BY <2>10 DEF top, found
<1> QED BY <1>5, <1>6

(* A settings file, and the path of a buffer, which is absolute.           *)
PathInput(val) ==
  /\ val.settings \in Seq(Line)
  /\ val.full \in Seq(STRING) /\ \E i \in 1 .. Len(val.full) : val.full[i] = "/"

(* BaseChosen, whatever the settings file and the path are.                *)
THEOREM AllBasesChosen ==
  ASSUME input.kind = "path" => PathInput(input.val)
  PROVE  BaseChosen
<1> DEFINE settings == input.val.settings
           full == input.val.full
           dir == b_dirname(full)
<1> SUFFICES ASSUME input.kind = "path", NEW ft \in {"c", "cpp", "go"}
             PROVE  LET mine == {i \in 1 .. Len(settings) : settings[i].ft = ft \/ {settings[i].ft, ft} = {"c", "cpp"}}
                        above == {settings[i].path : i \in {j \in mine : Under(settings[j].path, dir)}}
                        top == init_topdir(settings, norecurse, full, ft)
                    IN  /\ \/ \E i \in mine : settings[i].path \notin above /\ Within(settings[i].path, dir)
                           \/ above = {} /\ top.dir = dir
                           \/ top.dir \in above /\ \A p \in above : Len(p) <= Len(top.dir)
                        /\ top.base = IF top.dir \in norecurse THEN full ELSE top.dir
                        /\ \A p \in Directories, other \in {"c", "cpp", "go"} :
                             get_tag_filename(top.base, ft) = get_tag_filename(p, other) =>
                               (p = top.base \/ ~ PlainPath(p) \/ ~ PlainPath(top.base)) /\ other = ft
  BY DEF BaseChosen
<1> DEFINE mine == {i \in 1 .. Len(settings) : settings[i].ft = ft \/ {settings[i].ft, ft} = {"c", "cpp"}}
           above == {settings[i].path : i \in {j \in mine : Under(settings[j].path, dir)}}
           top == init_topdir(settings, norecurse, full, ft)
           found == get_project_directory_candidates(settings, dir, ft)
<1>1. /\ settings \in Seq(Line) /\ Len(settings) \in Nat
      /\ \A i \in 1 .. Len(settings) : settings[i].path \in Seq(STRING)
  <2>1. settings \in Seq(Line)
    BY DEF PathInput
  <2> HIDE DEF settings, mine, above, top, found, dir, full
  <2> QED BY <2>1, LinePaths, Zenon
<1>2. full \in Seq(STRING) /\ dir \in Seq(STRING)
  <2>1. full \in Seq(STRING) /\ \E i \in 1 .. Len(full) : full[i] = "/"
    BY DEF PathInput
  <2> HIDE DEF full
  <2> QED BY <2>1, DirnameType
<1>3. /\ top.dir = check_project_directories(settings, dir, ft)
      /\ top.base = IF top.dir \in norecurse THEN full ELSE top.dir
  BY DEF init_topdir, check_norecurse_directories
<1>4. Len(dir) \in Nat
  BY <1>2
<1>5. \A i \in 1 .. Len(settings) : i \in mine <=> MatchesFiletype(settings[i], ft)
  BY OwnLines
<1>6. \A p : p \in above <=> \E i \in mine : p = settings[i].path /\ Under(p, dir)
  BY DEF above
<1>7. mine \subseteq 1 .. Len(settings)
  OBVIOUS
<1>8. \A p \in Directories : p \in Seq(STRING)
  BY <1>1, NoRecurseAssumption DEF Directories
<1> HIDE DEF settings, full, dir, mine, above, top, found
<1>9. /\ found \in Seq(Line)
      /\ \A k \in 1 .. Len(found) : \E i \in 1 .. Len(settings) : found[k] = settings[i] /\ Candidate(settings[i], dir, ft)
      /\ \A i \in 1 .. Len(settings) : Candidate(settings[i], dir, ft) => \E k \in 1 .. Len(found) : found[k] = settings[i]
  <2>1. found = get_project_directory_candidates(settings, dir, ft)
    BY DEF found
  <2>2. Gathered(found, settings, dir, ft, Line)
    BY <2>1, <1>1, Collected, Zenon
  <2> QED BY <2>2 DEF Gathered
<1>10. \/ found = <<>> /\ top.dir = dir
       \/ \E k \in 1 .. Len(found) : top.dir = found[k].path /\ \A j \in 1 .. Len(found) : Len(found[j].path) <= Len(top.dir)
  <2>1. ChosenOf(found, dir, top.dir)
    BY <1>1, <1>3, Chosen, Zenon DEF found
  <2> QED BY <2>1 DEF ChosenOf
<1>11. \A p \in above : \E k \in 1 .. Len(found) : p = found[k].path
  <2>1. SUFFICES ASSUME NEW p \in above PROVE \E k \in 1 .. Len(found) : p = found[k].path
    OBVIOUS
  <2>2. PICK i \in mine : p = settings[i].path /\ Under(p, dir)
    BY <1>6
  <2>3. Within(settings[i].path, dir)
    BY <2>2, <1>1, <1>4, <1>7, UnderWithin
  <2>4. Candidate(settings[i], dir, ft)
    BY <2>2, <2>3, <1>5, <1>7 DEF Candidate
  <2> QED BY <2>2, <2>4, <1>7, <1>9
<1>12. ASSUME ~ \E i \in mine : settings[i].path \notin above /\ Within(settings[i].path, dir),
              NEW k \in 1 .. Len(found)
       PROVE  found[k].path \in above
  <2>1. PICK i \in 1 .. Len(settings) : found[k] = settings[i] /\ Candidate(settings[i], dir, ft)
    BY <1>9
  <2>2. i \in mine /\ Within(settings[i].path, dir)
    BY <2>1, <1>5 DEF Candidate
  <2> QED BY <2>1, <2>2, <1>12
<1>13. \/ \E i \in mine : settings[i].path \notin above /\ Within(settings[i].path, dir)
       \/ above = {} /\ top.dir = dir
       \/ top.dir \in above /\ \A p \in above : Len(p) <= Len(top.dir)
  <2>1. SUFFICES ASSUME ~ \E i \in mine : settings[i].path \notin above /\ Within(settings[i].path, dir)
                 PROVE  \/ above = {} /\ top.dir = dir
                        \/ top.dir \in above /\ \A p \in above : Len(p) <= Len(top.dir)
    OBVIOUS
  <2>2. CASE found = <<>> /\ top.dir = dir
    <3>1. 1 .. Len(found) = {}
      BY <2>2
    <3> QED BY <3>1, <2>2, <1>11
  <2>3. ASSUME NEW k \in 1 .. Len(found), top.dir = found[k].path,
               \A j \in 1 .. Len(found) : Len(found[j].path) <= Len(top.dir)
        PROVE  top.dir \in above /\ \A p \in above : Len(p) <= Len(top.dir)
    <3>1. top.dir \in above
      BY <2>1, <2>3, <1>12
    <3>2. ASSUME NEW p \in above PROVE Len(p) <= Len(top.dir)
      BY <2>3, <1>11
    <3> QED BY <3>1, <3>2
  <2> QED BY <2>2, <2>3, <1>10
<1>14. top.base \in Seq(STRING)
  <2>1. top.dir \in Seq(STRING)
    <3>1. \A k \in 1 .. Len(found) : found[k].path \in Seq(STRING)
      BY <1>9, LinePaths, Zenon
    <3> QED BY <3>1, <1>2, <1>10, Zenon
  <2> QED BY <2>1, <1>2, <1>3, Zenon
<1>15. ASSUME NEW p \in Directories, NEW other \in {"c", "cpp", "go"},
              get_tag_filename(top.base, ft) = get_tag_filename(p, other)
       PROVE  (p = top.base \/ ~ PlainPath(p) \/ ~ PlainPath(top.base)) /\ other = ft
  <2> DEFINE base == top.base
  <2>1. base \in Seq(Characters) /\ p \in Seq(Characters)
    <3>1. \A s \in Seq(STRING) : s \in Seq(Characters)
      BY CharactersHave, MoreElements, Zenon
    <3> QED BY <3>1, <1>8, <1>14, Zenon
  <2>2. ft \in Characters /\ other \in Characters
    BY CharactersHave, Zenon
  <2>3. get_tag_filename(base, ft) = get_tag_filename(p, other)
    BY <1>15, Zenon
  <2> HIDE DEF base
  <2>4. ft = other /\ EscapedPath(base) = EscapedPath(p)
    BY <2>1, <2>2, <2>3, SameName
  <2>5. PlainPath(base) /\ PlainPath(p) => base = p
    BY <2>1, <2>4, SamePath, Zenon
  <2> QED BY <2>4, <2>5, Zenon DEF base
<1> QED BY <1>3, <1>13, <1>15 DEF settings, full, dir, mine, above, top

-----------------------------------------------------------------------------
(* An array that has room, and a list of arguments for each format.        *)
Stored(c, Fm, Ar) ==
  /\ c \in [mlen : Nat, fmt : Seq(Fm), args : Seq(Ar)]
  /\ Len(c.args) = Len(c.fmt) /\ Len(c.fmt) < c.mlen

(* d is c with one call more: its arguments are behind those of c.         *)
OneCallMore(d, c, a, Fm, Ar) == Stored(d, Fm, Ar) /\ d.args = Append(c.args, a)

(* The array doubles before its last place is used, so that a call that is *)
(* stored leaves it with room for another.                                 *)
LEMMA StoringOne ==
  ASSUME NEW Fm, NEW Ar, NEW c, Stored(c, Fm, Ar), NEW f \in Fm, NEW a \in Ar
  PROVE  OneCallMore(WithCall(c, f, a), c, a, Fm, Ar)
<1>1. /\ c \in [mlen : Nat, fmt : Seq(Fm), args : Seq(Ar)]
      /\ Len(c.args) = Len(c.fmt) /\ Len(c.fmt) < c.mlen
  BY DEF Stored
<1> DEFINE g == Grown(c)
<1>2. /\ g \in [mlen : Nat, fmt : Seq(Fm), args : Seq(Ar)]
      /\ g.fmt = c.fmt /\ g.args = c.args /\ Len(g.fmt) + 1 < g.mlen
  <2>1. CASE Len(c.fmt) >= c.mlen - 1
    <3>1. g = [c EXCEPT !.mlen = @ * 2]
      BY <2>1 DEF Grown
    <3> QED BY <3>1, <2>1, <1>1
  <2>2. CASE ~ Len(c.fmt) >= c.mlen - 1
    <3>1. g = c
      BY <2>2 DEF Grown
    <3> QED BY <3>1, <2>2, <1>1
  <2> QED BY <2>1, <2>2
<1> DEFINE d == WithCall(c, f, a)
<1>3. d = [g EXCEPT !.fmt = Append(@, f), !.args = Append(@, a)]
  BY DEF WithCall
<1> HIDE DEF g, d
<1>4. /\ d \in [mlen : Nat, fmt : Seq(Fm), args : Seq(Ar)] /\ d.mlen = g.mlen
      /\ d.fmt = Append(c.fmt, f) /\ d.args = Append(c.args, a)
  <2>1. g \in [mlen : Nat, fmt : Seq(Fm), args : Seq(Ar)]
    BY <1>2
  <2>2. d = [mlen |-> g.mlen, fmt |-> Append(g.fmt, f), args |-> Append(g.args, a)]
    BY <1>3, <2>1
  <2>3. Append(g.fmt, f) \in Seq(Fm) /\ Append(g.args, a) \in Seq(Ar) /\ g.mlen \in Nat
    BY <2>1
  <2> QED BY <1>2, <2>2, <2>3
<1>5. Len(d.fmt) = Len(c.fmt) + 1 /\ Len(d.args) = Len(c.args) + 1
  BY <1>1, <1>4
<1> QED BY <1>1, <1>2, <1>4, <1>5 DEF Stored, OneCallMore, d

(* The arguments of the call for an item, and of the one before all.       *)
RowOf(pass, item) == IF pass.parser THEN <<"nvim_buf_add_highlight", "buf", "ns", item, "line", "start", "end">>
                     ELSE <<"nvim_command", item>>
FirstRows(pass) == IF pass.parser THEN IF pass.first THEN <<>> ELSE <<ClearArgs>>
                   ELSE <<<<"nvim_command", "ownsyntax">>>>

(* The three formats that the passes use.                                  *)
Formats == {<<"s", "[", "d", "d", "s", "d", "d", "d", "]">>, <<"s", "[", "d", "d", "d", "d", "]">>, <<"s", "[", "s", "]">>}

(* An item is added by storing its arguments with one of the formats.      *)
LEMMA AddedCalls ==
  ASSUME NEW pass, NEW c, NEW item
  PROVE  \E f \in Formats : WithCall(c, f, RowOf(pass, item))
           = IF pass.parser THEN add_hl_call(c, item, "line") ELSE add_cmd_call(c, item)
BY DEF add_hl_call, add_cmd_call, RowOf, Formats

(* A pass begins with an array that has room.                              *)
LEMMA FirstCalls ==
  ASSUME NEW pass, NEW Ar, ClearArgs \in Ar, <<"nvim_command", "ownsyntax">> \in Ar,
         NEW base, base = IF pass.parser THEN BeginPass(pass.first) ELSE BeginCommands
  PROVE  Stored(base, Formats, Ar) /\ base.args = FirstRows(pass)
<1>1. ASSUME NEW size \in Nat, size > 1
      PROVE  Stored(NewArray(size), Formats, Ar) /\ NewArray(size).args = <<>>
  <2>1. <<>> \in Seq(Formats) /\ <<>> \in Seq(Ar) /\ Len(<<>>) = 0
    OBVIOUS
  <2> QED BY <2>1, <1>1 DEF NewArray, Stored
<1>2. ASSUME NEW size \in Nat, size > 1, NEW f \in Formats, NEW a \in Ar
      PROVE  /\ Stored(WithCall(NewArray(size), f, a), Formats, Ar)
             /\ WithCall(NewArray(size), f, a).args = <<a>>
  <2>1. OneCallMore(WithCall(NewArray(size), f, a), NewArray(size), a, Formats, Ar)
    BY <1>1, <1>2, StoringOne, Zenon
  <2>2. Append(<<>>, a) = <<a>>
    OBVIOUS
  <2> QED BY <2>1, <2>2, <1>1, <1>2, Zenon DEF OneCallMore
<1>3. CASE pass.parser /\ pass.first
  BY <1>1, <1>3, SizeAssumption DEF BeginPass, FirstRows
<1>4. CASE pass.parser /\ ~ pass.first
  <2> DEFINE f == <<"s", "[", "d", "d", "d", "d", "]">>
  <2>1. f \in Formats /\ base = WithCall(NewArray(INIT_ACALL_SIZE), f, ClearArgs) /\ FirstRows(pass) = <<ClearArgs>>
    BY <1>4, Zenon DEF BeginPass, add_clr_call, ClearArgs, Formats, FirstRows
  <2> HIDE DEF f
  <2> QED BY <2>1, <1>2, SizeAssumption
<1>5. CASE ~ pass.parser
  <2> DEFINE f == <<"s", "[", "s", "]">>
             a == <<"nvim_command", "ownsyntax">>
  <2>1. /\ f \in Formats /\ base = WithCall(NewArray(INIT_CMD_SIZE), f, a) /\ FirstRows(pass) = <<a>> /\ a \in Ar
    BY <1>5, Zenon DEF BeginCommands, add_cmd_call, Formats, FirstRows
  <2> HIDE DEF f, a
  <2> QED BY <2>1, <1>2, SizeAssumption
<1> QED BY <1>3, <1>4, <1>5

(* The array behind each item.                                             *)
Adding(t, pass, base, Ar, n) ==
  /\ t[0] = base
  /\ \A k \in 0 .. n : Stored(t[k], Formats, Ar)
  /\ \A k \in 1 .. n : t[k].args = Append(t[k - 1].args, RowOf(pass, pass.items[k]))
  /\ Calls(pass) = t[n]

(* Calls, one item after the other: the fold is opened from its end.       *)
LEMMA AddSteps ==
  ASSUME NEW pass, NEW T, NEW items \in Seq(T), pass.items = items, NEW n \in Nat, n = Len(items),
         NEW Ar, ClearArgs \in Ar, <<"nvim_command", "ownsyntax">> \in Ar,
         \A item \in T : RowOf(pass, item) \in Ar,
         NEW base, base = IF pass.parser THEN BeginPass(pass.first) ELSE BeginCommands
  PROVE  \E t : Adding(t, pass, base, Ar, n)
<1> DEFINE S == {c \in [mlen : Nat, fmt : Seq(Formats), args : Seq(Ar)] : Stored(c, Formats, Ar)}
           add(c, item) == IF pass.parser THEN add_hl_call(c, item, "line") ELSE add_cmd_call(c, item)
           turn == [k \in 1 .. n |-> [c \in S |-> add(c, items[k])]]
           step(h) == [s \in SUBSET DOMAIN items |-> IF s = {} THEN base ELSE add(h[s \ {Max(s)}], items[Max(s)])]
           h == CHOOSE h : h = step(h)
<1>1. Calls(pass) = h[DOMAIN items]
  <2>1. Calls(pass) = FoldLeft(add, IF pass.parser THEN BeginPass(pass.first) ELSE BeginCommands, pass.items)
    BY DEF Calls
  <2> HIDE DEF add
  <2>2. Calls(pass) = FoldLeft(add, base, items)
    BY <2>1
  <2> QED BY <2>2 DEF FoldLeft, MapThenFoldSet
<1>2. DOMAIN items = 1 .. n /\ \A k \in 1 .. n : items[k] \in T
  OBVIOUS
<1>3. \A c : c \in S <=> Stored(c, Formats, Ar)
  BY DEF Stored
<1> HIDE DEF S
<1>4. ASSUME NEW c \in S, NEW item \in T
      PROVE  add(c, item) \in S /\ add(c, item).args = Append(c.args, RowOf(pass, item))
  <2>1. PICK f \in Formats : add(c, item) = WithCall(c, f, RowOf(pass, item))
    BY AddedCalls
  <2> HIDE DEF add
  <2>2. OneCallMore(add(c, item), c, RowOf(pass, item), Formats, Ar)
    BY <2>1, <1>3, StoringOne
  <2> QED BY <2>2, <1>3 DEF OneCallMore
<1> HIDE DEF add
<1>5. turn \in [1 .. n -> [S -> S]] /\ base \in S
  <2>1. turn \in [1 .. n -> [S -> S]]
    BY <1>2, <1>4
  <2>2. Stored(base, Formats, Ar)
    BY FirstCalls, Zenon
  <2> QED BY <2>1, <2>2, <1>3
<1> HIDE DEF turn
<1>6. PICK g : FoldedBy(g, turn, S, base, n)
  BY <1>5, Folding
<1>7. g = step(g)
  <2>1. /\ g \in [SUBSET (1 .. n) -> S]
        /\ \A s \in SUBSET (1 .. n) : g[s] = IF s = {} THEN base ELSE turn[Max(s)][g[s \ {Max(s)}]]
    BY <1>6 DEF FoldedBy
  <2>2. ASSUME NEW s \in SUBSET (1 .. n), s # {}
        PROVE  g[s] = add(g[s \ {Max(s)}], items[Max(s)])
    <3>1. Max(s) \in 1 .. n
      BY <2>2, Greatest
    <3>2. g[s \ {Max(s)}] \in S
      BY <2>1
    <3>3. g[s] = turn[Max(s)][g[s \ {Max(s)}]]
      BY <2>1, <2>2
    <3> QED BY <3>1, <3>2, <3>3 DEF turn
  <2> QED BY <2>1, <2>2, <1>2
<1>8. h = step(h)
  <2> HIDE DEF step
  <2> QED BY <1>7
<1> HIDE DEF h
<1>9. h[1 .. 0] = base
  BY <1>8, <1>2
<1>10. ASSUME NEW k \in 1 .. n
       PROVE  h[1 .. k] = add(h[1 .. k - 1], items[k])
  <2>1. 1 .. k \in SUBSET DOMAIN items /\ 1 .. k # {} /\ (1 .. k) \ {k} = 1 .. k - 1
    <3>1. k \in Nat /\ k > 0
      OBVIOUS
    <3>2. 1 .. k # {} /\ (1 .. k) \ {k} = 1 .. k - 1
      BY <3>1, ButLast, Zenon
    <3>3. 1 .. k \in SUBSET DOMAIN items
      BY <1>2
    <3> QED BY <3>2, <3>3
  <2>2. Max(1 .. k) = k
    BY MaxOfAll
  <2>3. h[1 .. k] = add(h[(1 .. k) \ {Max(1 .. k)}], items[Max(1 .. k)])
    BY <2>1, <1>8
  <2> QED BY <2>1, <2>2, <2>3
<1> DEFINE t == [k \in 0 .. n |-> h[1 .. k]]
<1>11. t[0] = base /\ (\A k \in 1 .. n : t[k] = add(t[k - 1], items[k])) /\ t[n] = h[1 .. n]
  BY <1>9, <1>10
<1> HIDE DEF t
<1>12. \A k \in 0 .. n : t[k] \in S
  <2> DEFINE U == {k \in 0 .. n : t[k] \in S}
  <2>1. 0 \in U
    BY <1>5, <1>11
  <2>2. ASSUME NEW k \in 1 .. n, k - 1 \in U PROVE k \in U
    <3>1. t[k] = add(t[k - 1], items[k]) /\ t[k - 1] \in S
      BY <1>11, <2>2
    <3> QED BY <3>1, <1>2, <1>4
  <2>3. 0 .. n \subseteq U
    <3> HIDE DEF U
    <3> QED BY <2>1, <2>2, Induction
  <2> QED BY <2>3
<1>13. ASSUME NEW k \in 1 .. n PROVE t[k].args = Append(t[k - 1].args, RowOf(pass, items[k]))
  <2>1. t[k] = add(t[k - 1], items[k]) /\ t[k - 1] \in S /\ items[k] \in T
    BY <1>2, <1>11, <1>12
  <2> QED BY <2>1, <1>4
<1>14. Calls(pass) = t[n]
  BY <1>1, <1>2, <1>11
<1> QED BY <1>3, <1>11, <1>12, <1>13, <1>14 DEF Adding

(* The arguments of a call as they are stored: behind its function.        *)
Same(row, call) ==
  /\ row[1] = call.fn /\ Len(row) = Len(call.args) + 1
  /\ \A j \in 1 .. Len(call.args) : row[j + 1] = call.args[j]

(* What is asked for with an item, and before all of them.                 *)
CallFor(pass, item) ==
  IF pass.parser THEN [fn |-> "nvim_buf_add_highlight", args |-> <<"buf", "ns", item, "line", "start", "end">>]
  ELSE [fn |-> "nvim_command", args |-> <<item>>]

(* An item is asked for as it is stored, and so is what comes first.       *)
LEMMA SameRows ==
  ASSUME NEW pass, NEW item
  PROVE  Same(RowOf(pass, item), CallFor(pass, item))
<1>1. CASE pass.parser
  BY <1>1 DEF Same, RowOf, CallFor
<1>2. CASE ~ pass.parser
  BY <1>2 DEF Same, RowOf, CallFor
<1> QED BY <1>1, <1>2

FirstAsked(pass) ==
  IF pass.parser THEN IF pass.first THEN <<>> ELSE <<[fn |-> "nvim_buf_clear_highlight", args |-> <<"buf", "ns", "0", "-1">>]>>
  ELSE <<[fn |-> "nvim_command", args |-> <<"ownsyntax">>]>>

LEMMA SameFirst ==
  ASSUME NEW pass
  PROVE  /\ Len(FirstRows(pass)) = Len(FirstAsked(pass)) /\ Len(FirstAsked(pass)) \in {0, 1}
         /\ Len(FirstRows(pass)) = 1 => Same(FirstRows(pass)[1], FirstAsked(pass)[1])
<1>1. Same(ClearArgs, [fn |-> "nvim_buf_clear_highlight", args |-> <<"buf", "ns", "0", "-1">>])
  BY DEF Same, ClearArgs
<1>2. Same(<<"nvim_command", "ownsyntax">>, [fn |-> "nvim_command", args |-> <<"ownsyntax">>])
  BY DEF Same
<1>3. ASSUME NEW x PROVE Len(<<x>>) = 1 /\ <<x>>[1] = x
  OBVIOUS
<1>4. Len(<<>>) = 0 /\ 0 # 1
  OBVIOUS
<1>5. CASE pass.parser /\ pass.first
  BY <1>4, <1>5 DEF FirstRows, FirstAsked
<1>6. CASE pass.parser /\ ~ pass.first
  BY <1>1, <1>3, <1>6, Zenon DEF FirstRows, FirstAsked
<1>7. CASE ~ pass.parser
  BY <1>2, <1>3, <1>7, Zenon DEF FirstRows, FirstAsked
<1> QED BY <1>5, <1>6, <1>7

(* asked begins with what comes first and has a call for each item.        *)
AskedBy(asked, pass, items, off, n) ==
  /\ off \in Nat /\ Len(asked) = off + n
  /\ \A i \in 1 .. off : asked[i] = FirstAsked(pass)[i]
  /\ \A i \in 1 .. n : asked[off + i] = CallFor(pass, items[i])

(* The calls a pass asks for: the first one, if any, then one per item.    *)
LEMMA AskedFor ==
  ASSUME NEW pass, NEW T, NEW items \in Seq(T), pass.items = items, NEW n \in Nat, n = Len(items),
         NEW off, off = Len(FirstAsked(pass))
  PROVE  AskedBy(Asked(pass), pass, items, off, n)
<1> DEFINE asked == Asked(pass)
           rest == [i \in 1 .. n |-> CallFor(pass, items[i])]
           C == {CallFor(pass, item) : item \in T} \cup {FirstAsked(pass)[1]}
<1>1. DOMAIN items = 1 .. n /\ \A i \in 1 .. n : items[i] \in T
  OBVIOUS
<1>2. asked = FirstAsked(pass) \o rest
  <2>1. CASE pass.parser
    BY <1>1, <2>1 DEF Asked, FirstAsked, CallFor
  <2>2. CASE ~ pass.parser
    BY <1>1, <2>2 DEF Asked, FirstAsked, CallFor
  <2> QED BY <2>1, <2>2
<1>3. rest \in Seq(C) /\ Len(rest) = n /\ \A i \in 1 .. n : rest[i] = CallFor(pass, items[i])
  <2>1. \A i \in 1 .. n : CallFor(pass, items[i]) \in C
    BY <1>1
  <2> HIDE DEF C
  <2> QED BY <2>1
<1>4. FirstAsked(pass) \in Seq(C)
  <2>1. FirstAsked(pass)[1] \in C
    OBVIOUS
  <2> HIDE DEF C
  <2>2. ASSUME NEW x \in C PROVE <<x>> \in Seq(C) /\ <<x>>[1] = x
    OBVIOUS
  <2>3. <<>> \in Seq(C)
    OBVIOUS
  <2>4. FirstAsked(pass) = <<>> \/ \E x : FirstAsked(pass) = <<x>>
    BY Zenon DEF FirstAsked
  <2>5. ASSUME NEW x, FirstAsked(pass) = <<x>> PROVE FirstAsked(pass) \in Seq(C)
    <3>1. <<x>>[1] = x
      OBVIOUS
    <3>2. x \in C
      BY <3>1, <2>1, <2>5, Zenon
    <3> QED BY <3>2, <2>2, <2>5, Zenon
  <2> QED BY <2>3, <2>4, <2>5, Zenon
<1> HIDE DEF rest, C, asked
<1> DEFINE first == FirstAsked(pass)
<1> HIDE DEF first
<1>5. first \in Seq(C) /\ asked = first \o rest /\ off = Len(first)
  BY <1>2, <1>4 DEF first
<1>6. /\ off \in Nat /\ Len(asked) = off + n
      /\ \A i \in 1 .. off : asked[i] = first[i]
      /\ \A i \in 1 .. n : asked[off + i] = rest[i]
  <2>1. asked \in Seq(C) /\ Joint(asked, first, rest)
    BY <1>3, <1>5, Joints, Zenon
  <2>2. off \in Nat
    BY <1>5
  <2> QED BY <2>1, <2>2, <1>3, <1>5 DEF Joint
<1> QED BY <1>3, <1>6, Zenon DEF first, AskedBy, asked

(* What a pass asks for is in its arrays, in its order, each call with its *)
(* function and its arguments; and there is room for one more.             *)
CallsStored(pass) ==
  LET c == Calls(pass)
      asked == Asked(pass)
  IN  /\ Len(c.fmt) < c.mlen
      /\ Len(c.fmt) = Len(asked) /\ Len(c.args) = Len(asked)
      /\ \A i \in 1 .. Len(asked) : Same(c.args[i], asked[i])

(* However many calls a pass of a parser, or of ctags, adds: the arrays    *)
(* that nvim_call_atomic reads are never full (CallsStored).               *)
THEOREM AllCallsStored ==
  ASSUME NEW pass, NEW T, pass.items \in Seq(T)
  PROVE  CallsStored(pass)
<1> DEFINE items == pass.items
           n == Len(items)
           Ar == {RowOf(pass, item) : item \in T} \cup {ClearArgs, <<"nvim_command", "ownsyntax">>}
           base == IF pass.parser THEN BeginPass(pass.first) ELSE BeginCommands
           asked == Asked(pass)
           off == Len(FirstAsked(pass))
<1>1. items \in Seq(T) /\ pass.items = items /\ n \in Nat /\ n = Len(items)
  OBVIOUS
<1>2. /\ ClearArgs \in Ar /\ <<"nvim_command", "ownsyntax">> \in Ar
      /\ \A item \in T : RowOf(pass, item) \in Ar
  BY Zenon
<1>3. base = IF pass.parser THEN BeginPass(pass.first) ELSE BeginCommands
  OBVIOUS
<1>4. asked = Asked(pass) /\ off = Len(FirstAsked(pass))
  OBVIOUS
<1> HIDE DEF items, n, Ar, base, asked, off
<1>5. PICK t : Adding(t, pass, base, Ar, n)
  BY <1>1, <1>2, <1>3, AddSteps
<1>6. /\ t[0] = base
      /\ \A k \in 0 .. n : Stored(t[k], Formats, Ar)
      /\ \A k \in 1 .. n : t[k].args = Append(t[k - 1].args, RowOf(pass, items[k]))
      /\ Calls(pass) = t[n]
  BY <1>1, <1>5 DEF Adding
<1>7. /\ off \in Nat /\ Len(asked) = off + n
      /\ \A i \in 1 .. off : asked[i] = FirstAsked(pass)[i]
      /\ \A i \in 1 .. n : asked[off + i] = CallFor(pass, items[i])
  <2>1. AskedBy(asked, pass, items, off, n)
    BY <1>1, <1>4, AskedFor
  <2> QED BY <2>1, Zenon DEF AskedBy
<1>8. \A k \in 0 .. n : t[k].args \in Seq(Ar)
  BY <1>6 DEF Stored
<1> DEFINE Good(k) == Len(t[k].args) = off + k /\ \A i \in 1 .. off + k : Same(t[k].args[i], asked[i])
           U == {k \in 0 .. n : Good(k)}
<1>9. 0 \in U
  <2>1. base.args = FirstRows(pass)
    BY <1>2, <1>3, FirstCalls
  <2>2. /\ Len(FirstRows(pass)) = off /\ off \in {0, 1}
        /\ off = 1 => Same(FirstRows(pass)[1], FirstAsked(pass)[1])
    BY <1>4, SameFirst
  <2>3. ASSUME NEW i \in 1 .. off + 0 PROVE Same(t[0].args[i], asked[i])
    <3>1. i = 1 /\ off = 1 /\ i \in 1 .. off
      BY <2>2
    <3> QED BY <3>1, <2>1, <2>2, <1>6, <1>7
  <2>4. Good(0)
    BY <2>1, <2>2, <2>3, <1>6
  <2> HIDE DEF Good
  <2> QED BY <2>4, <1>1
<1>10. ASSUME NEW k \in 1 .. n, k - 1 \in U PROVE k \in U
  <2>1. k \in Nat /\ k - 1 \in 0 .. n /\ k \in 0 .. n
    BY <1>1
  <2>2. t[k].args = Append(t[k - 1].args, RowOf(pass, items[k])) /\ t[k - 1].args \in Seq(Ar)
    BY <2>1, <1>6, <1>8
  <2>3. Len(t[k - 1].args) = off + (k - 1) /\ \A i \in 1 .. off + (k - 1) : Same(t[k - 1].args[i], asked[i])
    BY <1>10
  <2> DEFINE l == off + k
  <2>4. l \in Nat /\ l = off + k /\ off + (k - 1) = l - 1
    BY <2>1, <1>7
  <2> HIDE DEF l
  <2>5. /\ Len(t[k].args) = l /\ t[k].args[l] = RowOf(pass, items[k])
        /\ \A i \in 1 .. l - 1 : t[k].args[i] = t[k - 1].args[i]
    BY <2>2, <2>3, <2>4
  <2>6. Same(t[k].args[l], asked[l])
    BY <2>4, <2>5, <1>7, SameRows
  <2>7. ASSUME NEW i \in 1 .. l PROVE Same(t[k].args[i], asked[i])
    <3>1. CASE i = l
      BY <3>1, <2>6
    <3>2. CASE i # l
      <4>1. i \in 1 .. l - 1
        BY <3>2, <2>4
      <4> QED BY <4>1, <2>3, <2>4, <2>5
    <3> QED BY <3>1, <3>2
  <2>8. Good(k)
    BY <2>4, <2>5, <2>7
  <2> HIDE DEF Good
  <2> QED BY <2>8, <2>1
<1>11. Good(n)
  <2>1. 0 .. n \subseteq U
    <3> HIDE DEF U
    <3> QED BY <1>1, <1>9, <1>10, Induction
  <2> HIDE DEF Good
  <2> QED BY <2>1, <1>1
<1>12. Stored(t[n], Formats, Ar)
  BY <1>1, <1>6
<1> QED BY <1>6, <1>7, <1>11, <1>12 DEF CallsStored, Stored, asked
=============================================================================
