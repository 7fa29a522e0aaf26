-------------------------- MODULE LineEditsProofs ---------------------------
(* Machine-checked lemmas about LineEdits, for lines of any kind and       *)
(* buffers and events of any size: what handle_line_event makes of a copy. *)
EXTENDS LineEdits, SequenceTheorems, TLAPS

(* The elements of a concatenation of three sequences, by position.        *)
LEMMA Join3 ==
  ASSUME NEW S, NEW s \in Seq(S), NEW t \in Seq(S), NEW u \in Seq(S)
  PROVE  /\ s \o t \o u \in Seq(S)
         /\ Len(s \o t \o u) = Len(s) + Len(t) + Len(u)
         /\ \A i \in 1 .. Len(s) + Len(t) + Len(u) :
              (s \o t \o u)[i] = IF i <= Len(s) THEN s[i]
                                 ELSE IF i <= Len(s) + Len(t) THEN t[i - Len(s)]
                                 ELSE u[i - Len(s) - Len(t)]
<1> DEFINE st == s \o t
<1>1. /\ st \in Seq(S)
      /\ Len(st) = Len(s) + Len(t)
      /\ \A i \in 1 .. Len(s) + Len(t) : st[i] = IF i <= Len(s) THEN s[i] ELSE t[i - Len(s)]
  BY ConcatProperties
<1>2. Len(s) \in Nat /\ Len(t) \in Nat /\ Len(u) \in Nat
  BY LenProperties
<1> HIDE DEF st
<1>3. /\ st \o u \in Seq(S)
      /\ Len(st \o u) = Len(st) + Len(u)
      /\ \A i \in 1 .. Len(st) + Len(u) : (st \o u)[i] = IF i <= Len(st) THEN st[i]
                                                         ELSE u[i - Len(st)]
  <2>1. st \in Seq(S)
    BY <1>1
  <2>2. QED
    BY <2>1, ConcatProperties
<1>4. \A i \in 1 .. Len(s) + Len(t) + Len(u) :
        (st \o u)[i] = IF i <= Len(s) THEN s[i]
                       ELSE IF i <= Len(s) + Len(t) THEN t[i - Len(s)]
                       ELSE u[i - Len(s) - Len(t)]
  BY <1>1, <1>2, <1>3
<1>5. QED
  BY <1>1, <1>2, <1>3, <1>4 DEF st

(* A stretch of a sequence, possibly empty, possibly up to its end.        *)
LEMMA Stretch ==
  ASSUME NEW S, NEW s \in Seq(S), NEW m \in Nat \ {0}, NEW n \in Nat,
         m <= n + 1, n <= Len(s)
  PROVE  /\ SubSeq(s, m, n) \in Seq(S)
         /\ Len(SubSeq(s, m, n)) = n - m + 1
         /\ \A i \in 1 .. n - m + 1 : SubSeq(s, m, n)[i] = s[m + i - 1]
<1>1. Len(s) \in Nat /\ \A i \in 1 .. Len(s) : s[i] \in S
  BY LenProperties, ElementOfSeq
<1>2. \A i \in m .. n : s[i] \in S
  BY <1>1
<1>3. QED
  BY <1>2, SubSeqProperties

(* The text s with its lines first .. last - 1 replaced by new ...         *)
Spliced(s, first, last, new) ==
  SubSeq(s, 1, first) \o new \o SubSeq(s, last + 1, Len(s))

(* ... position by position.                                               *)
IsSplice(t, S, s, first, last, new) ==
  /\ t \in Seq(S)
  /\ Len(t) = Len(s) - (last - first) + Len(new)
  /\ \A i \in 1 .. Len(s) - (last - first) + Len(new) :
       t[i] = IF i <= first THEN s[i]
              ELSE IF i <= first + Len(new) THEN new[i - first]
              ELSE s[i - Len(new) + (last - first)]

(* Neovim's edit, line by line: how long the new text is and where each    *)
(* of its lines comes from.                                                *)
LEMMA SpliceFacts ==
  ASSUME NEW S, NEW s \in Seq(S), NEW new \in Seq(S),
         NEW first \in Nat, NEW last \in Nat, first <= last, last <= Len(s)
  PROVE  IsSplice(Spliced(s, first, last, new), S, s, first, last, new)
<1> DEFINE a == SubSeq(s, 1, first)
           c == SubSeq(s, last + 1, Len(s))
<1>1. Len(s) \in Nat /\ Len(new) \in Nat
  BY LenProperties
<1>2. /\ a \in Seq(S) /\ Len(a) = first
      /\ \A i \in 1 .. first : a[i] = s[i]
  BY <1>1, Stretch
<1>3. /\ c \in Seq(S) /\ Len(c) = Len(s) - last
      /\ \A i \in 1 .. Len(s) - last : c[i] = s[last + i]
  BY <1>1, Stretch
<1> HIDE DEF a, c
<1>4. /\ a \o new \o c \in Seq(S)
      /\ Len(a \o new \o c) = Len(a) + Len(new) + Len(c)
      /\ \A i \in 1 .. Len(a) + Len(new) + Len(c) :
           (a \o new \o c)[i] = IF i <= Len(a) THEN a[i]
                                ELSE IF i <= Len(a) + Len(new) THEN new[i - Len(a)]
                                ELSE c[i - Len(a) - Len(new)]
  <2>1. a \in Seq(S) /\ c \in Seq(S)
    BY <1>2, <1>3
  <2>2. QED
    BY <2>1, Join3
<1>5. Len(a \o new \o c) = Len(s) - (last - first) + Len(new)
  BY <1>1, <1>2, <1>3, <1>4
<1>6. \A i \in 1 .. Len(s) - (last - first) + Len(new) :
        (a \o new \o c)[i] = IF i <= first THEN s[i]
                             ELSE IF i <= first + Len(new) THEN new[i - first]
                             ELSE s[i - Len(new) + (last - first)]
  <2> SUFFICES ASSUME NEW i \in 1 .. Len(s) - (last - first) + Len(new)
               PROVE  (a \o new \o c)[i] = IF i <= first THEN s[i]
                                           ELSE IF i <= first + Len(new) THEN new[i - first]
                                           ELSE s[i - Len(new) + (last - first)]
    OBVIOUS
  <2>1. (a \o new \o c)[i] = IF i <= first THEN a[i]
                             ELSE IF i <= first + Len(new) THEN new[i - first]
                             ELSE c[i - first - Len(new)]
    BY <1>1, <1>2, <1>3, <1>4
  <2>2. i <= first => a[i] = s[i]
    BY <1>1, <1>2
  <2>3. i > first + Len(new) =>
          c[i - first - Len(new)] = s[i - Len(new) + (last - first)]
    <3>1. SUFFICES ASSUME i > first + Len(new)
                   PROVE  c[i - first - Len(new)] = s[i - Len(new) + (last - first)]
      OBVIOUS
    <3>2. i - first - Len(new) \in 1 .. Len(s) - last
      BY <1>1, <3>1
    <3>3. c[i - first - Len(new)] = s[last + (i - first - Len(new))]
      BY <1>3, <3>2
    <3>4. last + (i - first - Len(new)) = i - Len(new) + (last - first)
      BY <1>1
    <3>5. QED
      BY <3>3, <3>4
  <2>4. QED
    BY <1>1, <2>1, <2>2, <2>3
<1>7. QED
  BY <1>4, <1>5, <1>6 DEF a, c, IsSplice, Spliced

(* There is only one such text.                                            *)
LEMMA OneSplice ==
  ASSUME NEW S, NEW s \in Seq(S), NEW new \in Seq(S), NEW first, NEW last,
         NEW t, NEW u,
         IsSplice(t, S, s, first, last, new), IsSplice(u, S, s, first, last, new)
  PROVE  t = u
<1>1. /\ t \in Seq(S) /\ u \in Seq(S) /\ Len(t) = Len(u)
      /\ \A i \in 1 .. Len(t) : t[i] = u[i]
  BY DEF IsSplice
<1>2. QED
  BY <1>1, SeqEqual

(* The loop of line_event_multi_op over lines the buffer has.              *)
LEMMA ReplacedFacts ==
  ASSUME NEW S, NEW s \in Seq(S), NEW new \in Seq(S), Broken \notin Seq(S),
         NEW first \in Nat, NEW n \in Nat, n <= Len(new), first + n <= Len(s)
  PROVE  LET r == Replaced(s, new, first, n)
         IN  /\ r \in Seq(S)
             /\ r # Broken
             /\ Len(r) = Len(s)
             /\ \A p \in 1 .. Len(s) :
                  r[p] = IF p \in first + 1 .. first + n THEN new[p - first] ELSE s[p]
<1>1. /\ Len(s) \in Nat /\ Len(new) \in Nat
      /\ \A p \in 1 .. Len(s) : s[p] \in S
      /\ \A p \in 1 .. Len(new) : new[p] \in S
  BY LenProperties, ElementOfSeq
<1>2. CASE n = 0
  BY <1>1, <1>2 DEF Replaced
<1>3. CASE n # 0
  <2> DEFINE f == [p \in 1 .. Len(s) |-> IF p \in first + 1 .. first + n THEN new[p - first]
                                         ELSE s[p]]
  <2>1. LlAt(s, first + n - 1) = first + n /\ first + n # 0
    <3>1. first + n - 1 \in 0 .. Len(s) - 1 /\ first + n - 1 + 1 = first + n /\ first + n # 0
      BY <1>1, <1>3
    <3>2. QED
      BY <3>1 DEF LlAt
  <2>2. Replaced(s, new, first, n) = f
    <3>1. Replaced(s, new, first, n) =
            [p \in 1 .. Len(s) |-> IF p = first + n THEN new[n]
                                   ELSE IF p \in first + 1 .. first + n THEN new[p - first]
                                   ELSE s[p]]
      BY <1>3, <2>1 DEF Replaced
    <3>2. ASSUME NEW p \in 1 .. Len(s), p = first + n
          PROVE  p \in first + 1 .. first + n /\ new[n] = new[p - first]
      <4>1. p - first = n
        BY <3>2
      <4>2. QED
        BY <1>1, <1>3, <3>2, <4>1
    <3>3. QED
      BY <3>1, <3>2
  <2>3. \A p \in 1 .. Len(s) : f[p] \in S
    BY <1>1
  <2>4. f \in Seq(S) /\ Len(f) = Len(s)
    BY <1>1, <2>3, SeqDef
  <2>5. QED
    BY <2>2, <2>4
<1>4. QED
  BY <1>2, <1>3

(* What line_event_multi_op does when strings run out: some lines are      *)
(* overwritten, the rest of the range is deleted.                          *)
LEMMA Shrunk ==
  ASSUME NEW S, NEW s \in Seq(S), NEW new \in Seq(S), NEW r \in Seq(S),
         NEW first \in Nat, NEW last \in Nat, last <= Len(s),
         first + Len(new) < last, Len(r) = Len(s),
         \A p \in 1 .. Len(s) :
            r[p] = IF p \in first + 1 .. first + Len(new) THEN new[p - first] ELSE s[p]
  PROVE  IsSplice(SubSeq(r, 1, first + Len(new)) \o SubSeq(r, last + 1, Len(r)),
                  S, s, first, last, new)
<1> DEFINE a == SubSeq(r, 1, first + Len(new))
           c == SubSeq(r, last + 1, Len(r))
<1>1. Len(s) \in Nat /\ Len(new) \in Nat
  BY LenProperties
<1>2. /\ a \in Seq(S) /\ Len(a) = first + Len(new)
      /\ \A i \in 1 .. first + Len(new) : a[i] = r[i]
  <2>1. first + Len(new) \in Nat /\ 1 <= first + Len(new) + 1 /\ first + Len(new) <= Len(r)
    BY <1>1
  <2>2. /\ a \in Seq(S) /\ Len(a) = first + Len(new) - 1 + 1
        /\ \A i \in 1 .. first + Len(new) - 1 + 1 : a[i] = r[1 + i - 1]
    BY <2>1, Stretch
  <2>3. QED
    BY <1>1, <2>2
<1>3. /\ c \in Seq(S) /\ Len(c) = Len(s) - last
      /\ \A i \in 1 .. Len(s) - last : c[i] = r[last + i]
  <2>1. last + 1 \in Nat \ {0} /\ Len(r) \in Nat /\ last + 1 <= Len(r) + 1
    BY <1>1
  <2>2. /\ c \in Seq(S) /\ Len(c) = Len(r) - (last + 1) + 1
        /\ \A i \in 1 .. Len(r) - (last + 1) + 1 : c[i] = r[last + 1 + i - 1]
    BY <2>1, Stretch
  <2>3. QED
    BY <1>1, <2>2
<1> HIDE DEF a, c
<1>4. /\ a \o c \in Seq(S)
      /\ Len(a \o c) = Len(a) + Len(c)
      /\ \A i \in 1 .. Len(a) + Len(c) :
           (a \o c)[i] = IF i <= Len(a) THEN a[i] ELSE c[i - Len(a)]
  <2>1. a \in Seq(S) /\ c \in Seq(S)
    BY <1>2, <1>3
  <2>2. QED
    BY <2>1, ConcatProperties
<1>5. Len(a \o c) = Len(s) - (last - first) + Len(new)
  BY <1>1, <1>2, <1>3, <1>4
<1>6. ASSUME NEW i \in 1 .. Len(s) - (last - first) + Len(new)
      PROVE  (a \o c)[i] = IF i <= first THEN s[i]
                           ELSE IF i <= first + Len(new) THEN new[i - first]
                           ELSE s[i - Len(new) + (last - first)]
  <2>1. CASE i <= first + Len(new)
    <3>1. (a \o c)[i] = r[i]
      BY <1>1, <1>2, <1>3, <1>4, <2>1
    <3>2. i \in 1 .. Len(s) /\ (i \in first + 1 .. first + Len(new) <=> ~ (i <= first))
      BY <1>1, <2>1
    <3>3. QED
      BY <2>1, <3>1, <3>2
  <2>2. CASE i > first + Len(new)
    <3>1. i - (first + Len(new)) \in 1 .. Len(s) - last
      BY <1>1, <2>2
    <3>2. (a \o c)[i] = r[last + (i - (first + Len(new)))]
      <4>1. /\ i \in 1 .. Len(a) + Len(c) /\ ~ (i <= Len(a))
            /\ i - Len(a) = i - (first + Len(new))
        BY <1>1, <1>2, <1>3, <2>2
      <4>2. (a \o c)[i] = c[i - (first + Len(new))]
        BY <1>4, <4>1
      <4>3. QED
        BY <1>3, <3>1, <4>2
    <3>3. last + (i - (first + Len(new))) = i - Len(new) + (last - first)
      BY <1>1
    <3>4. /\ i - Len(new) + (last - first) \in 1 .. Len(s)
          /\ i - Len(new) + (last - first) \notin first + 1 .. first + Len(new)
          /\ ~ (i <= first)
      BY <1>1, <2>2, <3>1, <3>3
    <3>5. r[i - Len(new) + (last - first)] = s[i - Len(new) + (last - first)]
      BY <3>4
    <3>6. QED
      BY <2>2, <3>2, <3>3, <3>4, <3>5
  <2>3. i <= first + Len(new) \/ i > first + Len(new)
    BY <1>1
  <2>4. QED
    BY <2>1, <2>2, <2>3
<1>7. QED
  BY <1>4, <1>5, <1>6 DEF a, c, IsSplice

(* What it does when lines run out: the whole range is overwritten, the    *)
(* strings that are left over go in at its end.                            *)
LEMMA Grown ==
  ASSUME NEW S, NEW s \in Seq(S), NEW new \in Seq(S), NEW r \in Seq(S),
         NEW first \in Nat, NEW last \in Nat, first <= last, last <= Len(s),
         last < first + Len(new), Len(r) = Len(s),
         \A p \in 1 .. Len(s) :
            r[p] = IF p \in first + 1 .. last THEN new[p - first] ELSE s[p]
  PROVE  IsSplice(Spliced(r, last, last, SubSeq(new, last - first + 1, Len(new))),
                  S, s, first, last, new)
<1> DEFINE rest == SubSeq(new, last - first + 1, Len(new))
           u == Spliced(r, last, last, rest)
<1>1. Len(s) \in Nat /\ Len(new) \in Nat
  BY LenProperties
<1>2. /\ rest \in Seq(S) /\ Len(rest) = Len(new) - (last - first)
      /\ \A i \in 1 .. Len(new) - (last - first) : rest[i] = new[last - first + i]
  <2>1. last - first + 1 \in Nat \ {0} /\ last - first + 1 <= Len(new) + 1
    BY <1>1
  <2>2. /\ rest \in Seq(S) /\ Len(rest) = Len(new) - (last - first + 1) + 1
        /\ \A i \in 1 .. Len(new) - (last - first + 1) + 1 :
             rest[i] = new[last - first + 1 + i - 1]
    BY <1>1, <2>1, Stretch
  <2>3. QED
    BY <1>1, <2>2
<1> HIDE DEF rest
<1>3. IsSplice(u, S, r, last, last, rest)
  BY <1>2, SpliceFacts
<1> HIDE DEF u
<1>4. /\ u \in Seq(S)
      /\ Len(u) = Len(s) - (last - first) + Len(new)
      /\ \A i \in 1 .. Len(s) - (last - first) + Len(new) :
           u[i] = IF i <= last THEN r[i]
                  ELSE IF i <= first + Len(new) THEN rest[i - last]
                  ELSE r[i - (Len(new) - (last - first))]
  <2>1. /\ Len(r) - (last - last) + Len(rest) = Len(s) - (last - first) + Len(new)
        /\ last + Len(rest) = first + Len(new)
    BY <1>1, <1>2
  <2>2. ASSUME NEW i \in 1 .. Len(s) - (last - first) + Len(new)
        PROVE  i - Len(rest) + (last - last) = i - (Len(new) - (last - first))
    BY <1>1, <1>2
  <2>3. QED
    BY <1>3, <2>1, <2>2 DEF IsSplice
<1>5. ASSUME NEW i \in 1 .. Len(s) - (last - first) + Len(new)
      PROVE  u[i] = IF i <= first THEN s[i]
                    ELSE IF i <= first + Len(new) THEN new[i - first]
                    ELSE s[i - Len(new) + (last - first)]
  <2>1. CASE i <= last
    <3>1. i \in 1 .. Len(s) /\ (i \in first + 1 .. last <=> ~ (i <= first)) /\ i <= first + Len(new)
      BY <1>1, <2>1
    <3>2. QED
      BY <1>4, <2>1, <3>1
  <2>2. CASE i > last /\ i <= first + Len(new)
    <3>1. /\ i - last \in 1 .. Len(new) - (last - first)
          /\ last - first + (i - last) = i - first
          /\ ~ (i <= first) /\ ~ (i <= last)
      BY <1>1, <2>2
    <3>2. QED
      BY <1>2, <1>4, <2>2, <3>1
  <2>3. CASE i > first + Len(new)
    <3>1. /\ i - (Len(new) - (last - first)) = i - Len(new) + (last - first)
          /\ i - Len(new) + (last - first) \in 1 .. Len(s)
          /\ i - Len(new) + (last - first) \notin first + 1 .. last
          /\ ~ (i <= first) /\ ~ (i <= last) /\ ~ (i <= first + Len(new))
      BY <1>1, <2>3
    <3>2. QED
      BY <1>4, <3>1
  <2>4. QED
    BY <1>1, <2>1, <2>2, <2>3
<1>6. QED
  BY <1>4, <1>5 DEF IsSplice, u, rest

(* The list operations, given a node.                                      *)
LEMMA AtNode ==
  ASSUME NEW s, NEW at, at # 0
  PROVE  /\ \A range : LlDeleteRange(s, at, range) =
                       SubSeq(s, 1, at - 1) \o SubSeq(s, at + range, Len(s))
         /\ \A new : new # <<>> /\ s # <<>> =>
              LlInsertBefore(s, at, new) = SubSeq(s, 1, at - 1) \o new \o SubSeq(s, at, Len(s))
BY Zenon DEF LlDeleteRange, LlInsertBefore

(* line_event_multi_op replaces the lines first .. last - 1 by the strings *)
(* of the event, whether they are fewer, as many or more.                  *)
LEMMA MultiOpIsSplice ==
  ASSUME NEW S, NEW s \in Seq(S), NEW new \in Seq(S), Broken \notin Seq(S),
         NEW first \in Nat, NEW last \in Nat, first <= last, last <= Len(s),
         s # <<>>, new # <<>>
  PROVE  MultiOp(s, new, first, last - first) = Spliced(s, first, last, new)
<1>1. Len(s) \in Nat \ {0} /\ Len(new) \in Nat \ {0}
  BY EmptySeq
<1>2. /\ last - first \in Nat
      /\ (IF last - first < Len(s) THEN last - first ELSE Len(s)) = last - first
      /\ first + (last - first) = last
  BY <1>1
<1>3. IsSplice(Spliced(s, first, last, new), S, s, first, last, new)
  BY SpliceFacts
<1>4. CASE Len(new) < last - first
  <2> DEFINE r == Replaced(s, new, first, Len(new))
  <2>1. first + Len(new) < last /\ first + Len(new) <= Len(s) /\ Len(new) \in Nat
    BY <1>1, <1>4
  <2>2. /\ r \in Seq(S) /\ r # Broken /\ Len(r) = Len(s)
        /\ \A p \in 1 .. Len(s) :
             r[p] = IF p \in first + 1 .. first + Len(new) THEN new[p - first] ELSE s[p]
    BY <2>1, ReplacedFacts
  <2>3. MultiOp(s, new, first, last - first) =
          LlDeleteRange(r, LlAt(r, first + Len(new)), last - first - Len(new))
    BY <1>2, <1>4, <2>2 DEF MultiOp
  <2> HIDE DEF r
  <2>4. LlAt(r, first + Len(new)) = first + Len(new) + 1
    <3>1. first + Len(new) \in 0 .. Len(r) - 1
      BY <1>1, <2>1, <2>2
    <3>2. QED
      BY <3>1 DEF LlAt
  <2>5. LlDeleteRange(r, LlAt(r, first + Len(new)), last - first - Len(new)) =
          SubSeq(r, 1, first + Len(new)) \o SubSeq(r, last + 1, Len(r))
    <3>1. PICK at, range : at = first + Len(new) + 1 /\ range = last - first - Len(new)
      OBVIOUS
    <3>2. at # 0 /\ at - 1 = first + Len(new) /\ at + range = last + 1
      BY <1>1, <3>1
    <3>3. LlDeleteRange(r, at, range) = SubSeq(r, 1, at - 1) \o SubSeq(r, at + range, Len(r))
      BY <3>2, AtNode
    <3>4. QED
      BY <2>4, <3>1, <3>2, <3>3
  <2>6. IsSplice(SubSeq(r, 1, first + Len(new)) \o SubSeq(r, last + 1, Len(r)),
                 S, s, first, last, new)
    BY <2>1, <2>2, Shrunk
  <2>7. QED
    BY <1>3, <2>3, <2>5, <2>6, OneSplice
<1>5. CASE Len(new) >= last - first
  <2> DEFINE r == Replaced(s, new, first, last - first)
             rest == SubSeq(new, last - first + 1, Len(new))
  <2>1. /\ r \in Seq(S) /\ r # Broken /\ Len(r) = Len(s)
        /\ \A p \in 1 .. Len(s) :
             r[p] = IF p \in first + 1 .. last THEN new[p - first] ELSE s[p]
    BY <1>1, <1>2, <1>5, ReplacedFacts
  <2>2. ~ (Len(new) < last - first)
    BY <1>1, <1>5
  <2>3. MultiOp(s, new, first, last - first) =
          IF Len(new) = last - first THEN r
          ELSE IF last >= Len(s) THEN LlInsertAfter(r, LlAt(r, last), rest)
          ELSE LlInsertBefore(r, LlAt(r, last), rest)
    BY <1>2, <2>1, <2>2 DEF MultiOp
  <2> HIDE DEF r
  <2>4. CASE Len(new) = last - first
    <3>1. IsSplice(r, S, s, first, last, new)
      <4>1. Len(s) = Len(s) - (last - first) + Len(new)
        BY <1>1, <2>4
      <4>2. ASSUME NEW i \in 1 .. Len(s)
            PROVE  r[i] = IF i <= first THEN s[i]
                          ELSE IF i <= first + Len(new) THEN new[i - first]
                          ELSE s[i - Len(new) + (last - first)]
        <5>1. /\ first + Len(new) = last
              /\ i - Len(new) + (last - first) = i
              /\ i \in first + 1 .. last <=> ~ (i <= first) /\ i <= last
              /\ i <= first => i <= last
          BY <1>1, <2>4
        <5>2. QED
          BY <2>1, <5>1
      <4>3. QED
        BY <2>1, <4>1, <4>2 DEF IsSplice
    <3>2. QED
      BY <1>3, <2>3, <2>4, <3>1, OneSplice
  <2>5. CASE Len(new) # last - first
    <3>1. last < first + Len(new) /\ rest # <<>>
      <4>1. last < first + Len(new)
        BY <1>1, <1>5, <2>5
      <4>2. /\ last - first + 1 \in Nat \ {0}
            /\ last - first + 1 <= Len(new) + 1
            /\ Len(new) - (last - first + 1) + 1 # 0
        BY <1>1, <4>1
      <4>3. Len(rest) # 0
        BY <4>2, Stretch
      <4>4. Len(<<>>) = 0
        OBVIOUS
      <4>5. rest # <<>>
        BY <4>3, <4>4, Zenon
      <4>6. QED
        BY <4>1, <4>5
    <3>2. IsSplice(Spliced(r, last, last, rest), S, s, first, last, new)
      BY <2>1, <3>1, Grown
    <3>3. CASE last >= Len(s)
      <4>1. last = Len(r) /\ last # 0
        BY <1>1, <2>1, <3>3
      <4>2. LlAt(r, last) = last
        <5>1. last \notin 0 .. Len(r) - 1
          BY <4>1
        <5>2. QED
          BY <4>1, <5>1 DEF LlAt
      <4>3. LlInsertAfter(r, LlAt(r, last), rest) = Spliced(r, last, last, rest)
        BY <3>1, <4>1, <4>2 DEF LlInsertAfter, Spliced
      <4>4. QED
        BY <1>3, <2>3, <2>5, <3>2, <3>3, <4>3, OneSplice
    <3>4. CASE ~ (last >= Len(s))
      <4>1. LlAt(r, last) = last + 1 /\ r # <<>>
        <5>1. last \in 0 .. Len(r) - 1 /\ Len(r) # 0
          BY <1>1, <2>1, <3>4
        <5>2. QED
          BY <5>1 DEF LlAt
      <4>2. LlInsertBefore(r, LlAt(r, last), rest) = Spliced(r, last, last, rest)
        <5>1. PICK at : at = last + 1
          OBVIOUS
        <5>2. at # 0 /\ at - 1 = last
          BY <5>1
        <5>3. LlInsertBefore(r, at, rest) = SubSeq(r, 1, at - 1) \o rest \o SubSeq(r, at, Len(r))
          BY <3>1, <4>1, <5>2, AtNode
        <5>4. QED
          BY <4>1, <5>1, <5>2, <5>3 DEF Spliced
      <4>4. QED
        BY <1>3, <2>3, <2>5, <3>2, <3>4, <4>2, OneSplice
    <3>5. QED
      BY <3>3, <3>4
  <2>6. QED
    BY <2>4, <2>5
<1>6. QED
  BY <1>1, <1>4, <1>5

(* For a copy that equals the buffer, handle_line_event is neovim's edit,  *)
(* whatever the range and the strings, save for the overlooked edits.      *)
LEMMA HandleIsSplice ==
  ASSUME NEW S, NEW s \in Seq(S), NEW new \in Seq(S), Broken \notin Seq(S), Blank \in S,
         NEW first \in Nat, NEW last \in Nat, first <= last, last <= Len(s),
         s # <<>>, ~ Overlooked(s, first, last, new)
  PROVE  HandleLineEvent(s, first, last, new) = Splice(s, first, last, new)
<1>1. Len(s) \in Nat \ {0} /\ s # Broken /\ AtLeastOne(s) = s
  BY EmptySeq DEF AtLeastOne
<1>2. Splice(s, first, last, new) = AtLeastOne(Spliced(s, first, last, new))
  BY DEF Splice, Spliced, AtLeastOne
<1>3. CASE new = <<>> /\ first = last
  <2>1. SubSeq(s, 1, first) \o new = SubSeq(s, 1, first)
    <3>1. SubSeq(s, 1, first) \in Seq(S)
      BY <1>1, Stretch
    <3>2. QED
      BY <1>3, <3>1, ConcatEmptySeq
  <2>2. SubSeq(s, 1, first) \o SubSeq(s, first + 1, Len(s)) = SubSeq(s, 1, Len(s))
    <3>1. 1 \in 1 .. Len(s) + 1 /\ first \in 1 - 1 .. Len(s) /\ Len(s) \in first .. Len(s)
      BY <1>1, <1>3
    <3>2. QED
      BY <3>1, ConcatAdjacentSubSeq
  <2>3. Spliced(s, first, last, new) = s
    BY <1>3, <2>1, <2>2, SubSeqFull DEF Spliced
  <2>4. QED
    BY <1>1, <1>2, <1>3, <2>3 DEF HandleLineEvent
<1>4. CASE new = <<>> /\ first # last
  <2>1. LlAt(s, first) = first + 1
    <3>1. first \in 0 .. Len(s) - 1
      BY <1>1, <1>4
    <3>2. QED
      BY <3>1 DEF LlAt
  <2>3. LlDeleteRange(s, LlAt(s, first), last - first) =
          SubSeq(s, 1, first) \o SubSeq(s, last + 1, Len(s))
    <3>1. PICK at, range : at = first + 1 /\ range = last - first
      OBVIOUS
    <3>2. at # 0 /\ at - 1 = first /\ at + range = last + 1
      BY <3>1
    <3>3. LlDeleteRange(s, at, range) = SubSeq(s, 1, at - 1) \o SubSeq(s, at + range, Len(s))
      BY <3>2, AtNode
    <3>4. QED
      BY <2>1, <3>1, <3>2, <3>3
  <2>4. SubSeq(s, 1, first) \o new = SubSeq(s, 1, first)
    <3>1. SubSeq(s, 1, first) \in Seq(S)
      BY <1>1, Stretch
    <3>2. QED
      BY <1>4, <3>1, ConcatEmptySeq
  <2>5. QED
    BY <1>1, <1>2, <1>4, <2>3, <2>4 DEF HandleLineEvent, Spliced
<1>5. CASE new # <<>> /\ Useless(s, first, new)
  BY <1>1, <1>5 DEF HandleLineEvent, Overlooked
<1>6. CASE new # <<>> /\ ~ Useless(s, first, new) /\ first = 0 /\ last = 0
  <2>1. LlAt(s, 0) = 1
    <3>1. 0 \in 0 .. Len(s) - 1
      BY <1>1
    <3>2. QED
      BY <3>1 DEF LlAt
  <2>2. LlInsertBefore(s, LlAt(s, 0), new) = Spliced(s, 0, 0, new)
    <3>1. PICK at : at = 1
      OBVIOUS
    <3>2. new # <<>> /\ at # 0 /\ at - 1 = 0 /\ 0 + 1 = at
      BY <1>6, <3>1
    <3>3. LlInsertBefore(s, at, new) = SubSeq(s, 1, at - 1) \o new \o SubSeq(s, at, Len(s))
      BY <3>2, AtNode
    <3>4. QED
      BY <2>1, <3>1, <3>2, <3>3 DEF Spliced
  <2>3. QED
    BY <1>1, <1>2, <1>6, <2>2 DEF HandleLineEvent
<1>7. CASE new # <<>> /\ ~ Useless(s, first, new) /\ ~ (first = 0 /\ last = 0)
  <2>1. MultiOp(s, new, first, last - first) = Spliced(s, first, last, new)
    BY <1>7, MultiOpIsSplice
  <2>2. QED
    BY <1>1, <1>2, <1>7, <2>1 DEF HandleLineEvent
<1>8. QED
  BY <1>3, <1>4, <1>5, <1>6, <1>7

-----------------------------------------------------------------------------
(* The bounded sequences of the model are the sequences of bounded length. *)
LEMMA SeqsUpToFacts ==
  ASSUME NEW S, NEW n \in Nat, NEW s
  PROVE  s \in SeqsUpTo(S, n) <=> s \in Seq(S) /\ Len(s) <= n
<1>1. ASSUME s \in SeqsUpTo(S, n) PROVE s \in Seq(S) /\ Len(s) <= n
  <2>1. PICK m \in 0 .. n : s \in [1 .. m -> S]
    BY <1>1 DEF SeqsUpTo
  <2>2. QED
    BY <2>1
<1>2. ASSUME s \in Seq(S), Len(s) <= n PROVE s \in SeqsUpTo(S, n)
  <2>1. Len(s) \in 0 .. n /\ s \in [1 .. Len(s) -> S]
    BY <1>2, LenProperties
  <2>2. QED
    BY <2>1 DEF SeqsUpTo
<1>3. QED
  BY <1>1, <1>2
(* Neovim's edit of a buffer yields a buffer.                              *)
LEMMA SpliceType ==
  ASSUME NEW S, NEW s \in Seq(S), NEW new \in Seq(S), Blank \in S,
         NEW first \in Nat, NEW last \in Nat, first <= last, last <= Len(s)
  PROVE  Splice(s, first, last, new) \in Seq(S) /\ Splice(s, first, last, new) # <<>>
<1>1. Spliced(s, first, last, new) \in Seq(S)
  BY SpliceFacts DEF IsSplice
<1>2. Splice(s, first, last, new) = IF Spliced(s, first, last, new) = <<>> THEN <<Blank>>
                                    ELSE Spliced(s, first, last, new)
  BY DEF Splice, Spliced
<1>3. <<Blank>> \in Seq(S) /\ <<Blank>> # <<>>
  OBVIOUS
<1>4. QED
  BY <1>1, <1>2, <1>3

-----------------------------------------------------------------------------
(* What follows holds of any copy, in step with the buffer or not.         *)

(* A stretch of a sequence that may begin behind its end.                  *)
LEMMA StretchType ==
  ASSUME NEW S, NEW s \in Seq(S), NEW m \in Nat \ {0}, NEW n \in Nat, n <= Len(s)
  PROVE  SubSeq(s, m, n) \in Seq(S)
<1>1. CASE m <= n + 1
  BY <1>1, Stretch
<1>2. CASE m > n + 1
  <2>1. SubSeq(s, m, n) = <<>>
    BY <1>2, SubSeqEmpty
  <2>2. QED
    BY <2>1
<1>3. QED
  BY <1>1, <1>2

(* A node that ll_at finds is in the list.                                 *)
LEMMA LlAtType ==
  ASSUME NEW S, NEW s \in Seq(S), NEW index \in Nat
  PROVE  LlAt(s, index) \in 0 .. Len(s)
<1>1. Len(s) \in Nat
  BY LenProperties
<1>2. QED
  BY <1>1 DEF LlAt

(* The list operations yield lists, or else Broken.                        *)
LEMMA InsertType ==
  ASSUME NEW S, NEW s \in Seq(S), NEW new \in Seq(S), NEW at \in 0 .. Len(s)
  PROVE  /\ LlInsertAfter(s, at, new) \in Seq(S) \cup {Broken}
         /\ LlInsertBefore(s, at, new) \in Seq(S) \cup {Broken}
<1>1. Len(s) \in Nat
  BY LenProperties
<1>2. LlInsertAfter(s, at, new) \in Seq(S) \cup {Broken}
  <2>1. SubSeq(s, 1, at) \in Seq(S) /\ SubSeq(s, at + 1, Len(s)) \in Seq(S)
    BY <1>1, StretchType
  <2>2. SubSeq(s, 1, at) \o new \o SubSeq(s, at + 1, Len(s)) \in Seq(S)
    BY <2>1, Join3
  <2>3. QED
    BY <2>2 DEF LlInsertAfter
<1>3. LlInsertBefore(s, at, new) \in Seq(S) \cup {Broken}
  <2>1. CASE at = 0
    BY <2>1 DEF LlInsertBefore
  <2>2. CASE at # 0
    <3>1. SubSeq(s, 1, at - 1) \in Seq(S) /\ SubSeq(s, at, Len(s)) \in Seq(S)
      BY <1>1, <2>2, StretchType
    <3>2. SubSeq(s, 1, at - 1) \o new \o SubSeq(s, at, Len(s)) \in Seq(S)
      BY <3>1, Join3
    <3>3. QED
      BY <3>2 DEF LlInsertBefore
  <2>3. QED
    BY <2>1, <2>2
<1>4. QED
  BY <1>2, <1>3

LEMMA DeleteType ==
  ASSUME NEW S, NEW s \in Seq(S), NEW at \in 0 .. Len(s), NEW range \in Nat \ {0}
  PROVE  LlDeleteRange(s, at, range) \in Seq(S) \cup {Broken}
<1>1. Len(s) \in Nat
  BY LenProperties
<1>2. CASE at = 0 /\ (s # <<>> \/ range = 1)
  BY <1>2 DEF LlDeleteRange
<1>3. CASE ~ (at = 0 /\ (s # <<>> \/ range = 1))
  <2>1. SubSeq(s, 1, at - 1) \in Seq(S)
    <3>1. CASE at = 0
      <4>1. SubSeq(s, 1, at - 1) = <<>>
        BY <3>1, SubSeqEmpty
      <4>2. QED
        BY <4>1
    <3>2. CASE at # 0
      BY <1>1, <3>2, StretchType
    <3>3. QED
      BY <3>1, <3>2
  <2>2. SubSeq(s, at + range, Len(s)) \in Seq(S)
    BY <1>1, StretchType
  <2>3. QED
    BY <1>3, <2>1, <2>2, ConcatProperties DEF LlDeleteRange
<1>4. QED
  BY <1>2, <1>3

LEMMA ReplacedType ==
  ASSUME NEW S, NEW s \in Seq(S), NEW new \in Seq(S), NEW first \in Nat,
         NEW n \in Nat, n <= Len(new), Broken \notin Seq(S)
  PROVE  /\ Replaced(s, new, first, n) \in Seq(S) \cup {Broken}
         /\ Replaced(s, new, first, n) # Broken => Len(Replaced(s, new, first, n)) = Len(s)
<1>1. /\ Len(s) \in Nat /\ Len(new) \in Nat
      /\ \A p \in 1 .. Len(s) : s[p] \in S
      /\ \A p \in 1 .. Len(new) : new[p] \in S
  BY LenProperties, ElementOfSeq
<1>2. CASE n = 0 \/ LlAt(s, first + n - 1) = 0
  BY <1>2 DEF Replaced
<1>3. CASE n # 0 /\ LlAt(s, first + n - 1) # 0
  <2> DEFINE f == [p \in 1 .. Len(s) |-> IF p = LlAt(s, first + n - 1) THEN new[n]
                                         ELSE IF p \in first + 1 .. first + n THEN new[p - first]
                                         ELSE s[p]]
  <2>1. Replaced(s, new, first, n) = f
    BY <1>3 DEF Replaced
  <2>2. ASSUME NEW p \in 1 .. Len(s) PROVE f[p] \in S
    <3>1. n \in 1 .. Len(new)
      BY <1>1, <1>3
    <3>2. p \in first + 1 .. first + n => p - first \in 1 .. Len(new)
      BY <1>1
    <3>3. new[n] \in S /\ s[p] \in S
      BY <1>1, <3>1
    <3>4. QED
      BY <1>1, <3>2, <3>3
  <2>3. f \in Seq(S) /\ Len(f) = Len(s)
    BY <1>1, <2>2, SeqDef
  <2>4. QED
    BY <2>1, <2>3
<1>4. QED
  BY <1>2, <1>3

LEMMA MultiOpType ==
  ASSUME NEW S, NEW s \in Seq(S), NEW new \in Seq(S), NEW first \in Nat,
         NEW num_to_modify \in Nat, Broken \notin Seq(S)
  PROVE  MultiOp(s, new, first, num_to_modify) \in Seq(S) \cup {Broken}
<1> DEFINE k == IF num_to_modify < Len(s) THEN num_to_modify ELSE Len(s)
           n == IF Len(new) < k THEN Len(new) ELSE k
           r == Replaced(s, new, first, n)
           rest == SubSeq(new, k + 1, Len(new))
<1>1. /\ Len(s) \in Nat /\ Len(new) \in Nat
      /\ k \in Nat /\ k <= num_to_modify /\ n \in Nat /\ n <= Len(new)
  BY LenProperties
<1>2. MultiOp(s, new, first, num_to_modify) =
        IF r = Broken THEN Broken
        ELSE IF Len(new) < k
        THEN LlDeleteRange(r, LlAt(r, first + Len(new)), num_to_modify - Len(new))
        ELSE IF Len(new) = k /\ num_to_modify = k THEN r
        ELSE IF first + k >= Len(s) THEN LlInsertAfter(r, LlAt(r, first + k), rest)
        ELSE LlInsertBefore(r, LlAt(r, first + k), rest)
  BY DEF MultiOp
<1>3. r \in Seq(S) \cup {Broken} /\ (r # Broken => Len(r) = Len(s))
  BY <1>1, ReplacedType
<1>4. rest \in Seq(S)
  BY <1>1, StretchType
<1> HIDE DEF k, n, r, rest
<1>5. CASE r = Broken
  BY <1>2, <1>5
<1>6. CASE r # Broken /\ Len(new) < k
  <2>1. r \in Seq(S) /\ first + Len(new) \in Nat /\ num_to_modify - Len(new) \in Nat \ {0}
    BY <1>1, <1>3, <1>6
  <2>2. LlAt(r, first + Len(new)) \in 0 .. Len(r)
    BY <2>1, LlAtType
  <2>3. LlDeleteRange(r, LlAt(r, first + Len(new)), num_to_modify - Len(new))
          \in Seq(S) \cup {Broken}
    BY <2>1, <2>2, DeleteType
  <2>4. QED
    BY <1>2, <1>6, <2>3
<1>7. CASE r # Broken /\ ~ (Len(new) < k)
  <2>1. r \in Seq(S) /\ first + k \in Nat
    BY <1>1, <1>3, <1>7
  <2>2. LlAt(r, first + k) \in 0 .. Len(r)
    BY <2>1, LlAtType
  <2>3. /\ LlInsertAfter(r, LlAt(r, first + k), rest) \in Seq(S) \cup {Broken}
        /\ LlInsertBefore(r, LlAt(r, first + k), rest) \in Seq(S) \cup {Broken}
    BY <1>4, <2>1, <2>2, InsertType
  <2>4. QED
    BY <1>2, <1>7, <2>1, <2>3
<1>8. QED
  BY <1>5, <1>6, <1>7

(* handle_line_event leaves a list of lines, or one that is broken.        *)
LEMMA HandleType ==
  ASSUME NEW S, NEW s \in Seq(S) \cup {Broken}, NEW new \in Seq(S),
         Broken \notin Seq(S), Blank \in S,
         NEW first \in Nat, NEW last \in Nat, first <= last
  PROVE  HandleLineEvent(s, first, last, new) \in Seq(S) \cup {Broken}
<1>1. CASE s = Broken
  BY <1>1 DEF HandleLineEvent
<1>2. CASE s \in Seq(S)
  <2> DEFINE t == IF new = <<>>
                  THEN IF first = last THEN s
                       ELSE LlDeleteRange(s, LlAt(s, first), last - first)
                  ELSE IF Useless(s, first, new) THEN s
                  ELSE IF first = 0 /\ last = 0 THEN LlInsertBefore(s, LlAt(s, 0), new)
                  ELSE MultiOp(s, new, first, last - first)
  <2>1. HandleLineEvent(s, first, last, new) = AtLeastOne(t)
    BY <1>2 DEF HandleLineEvent
  <2>2. LlAt(s, first) \in 0 .. Len(s) /\ LlAt(s, 0) \in 0 .. Len(s)
    BY <1>2, LlAtType
  <2>3. first # last => LlDeleteRange(s, LlAt(s, first), last - first) \in Seq(S) \cup {Broken}
    <3>1. SUFFICES ASSUME first # last
                   PROVE  LlDeleteRange(s, LlAt(s, first), last - first) \in Seq(S) \cup {Broken}
      OBVIOUS
    <3>2. last - first \in Nat \ {0}
      BY <3>1
    <3>3. QED
      BY <1>2, <2>2, <3>2, DeleteType
  <2>4. LlInsertBefore(s, LlAt(s, 0), new) \in Seq(S) \cup {Broken}
    BY <1>2, <2>2, InsertType
  <2>5. MultiOp(s, new, first, last - first) \in Seq(S) \cup {Broken}
    <3>1. last - first \in Nat
      OBVIOUS
    <3>2. QED
      BY <1>2, <3>1, MultiOpType
  <2>6. t \in Seq(S) \cup {Broken}
    BY <1>2, <2>3, <2>4, <2>5
  <2> HIDE DEF t
  <2>7. <<Blank>> \in Seq(S)
    OBVIOUS
  <2>8. AtLeastOne(t) \in Seq(S) \cup {Broken}
    BY <2>6, <2>7 DEF AtLeastOne
  <2>9. QED
    BY <2>1, <2>8
<1>3. QED
  BY <1>1, <1>2
=============================================================================
