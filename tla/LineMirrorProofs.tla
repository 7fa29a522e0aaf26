-------------------------- MODULE LineMirrorProofs --------------------------
(* Machine-checked theorems about LineMirror, for buffers, events and      *)
(* queues of any size.                                                     *)
EXTENDS LineMirror, LineEditsProofs

(* Buffers are the non-empty sequences of at most MaxLines lines.          *)
LEMMA BufferFacts ==
  ASSUME NEW s
  PROVE  s \in Buffers <=> s \in Seq(Strings) /\ Len(s) <= MaxLines /\ s # <<>>
BY SeqsUpToFacts, MirrorAssumption DEF Buffers

(* What makes both invariants inductive: the oldest unread event turns the *)
(* copy into the text neovim had after it.                                 *)
LEMMA NextEvent ==
  ASSUME BlankFirst = FALSE, TypeOK, InStep, wire # <<>>
  PROVE  /\ HandleLineEvent(lines, Head(wire).first, Head(wire).last, Head(wire).new)
              = Head(wire).text
         /\ Head(wire) \in LineEvents
         /\ Head(wire) = wire[1]
<1>1. 1 \in DOMAIN wire /\ Head(wire) = wire[1] /\ wire[1] \in LineEvents
  <2>1. wire \in Seq(LineEvents)
    BY DEF TypeOK
  <2>2. QED
    BY <2>1
<1>2. /\ Possible(lines, wire[1].first, wire[1].last, wire[1].new)
      /\ Splice(lines, wire[1].first, wire[1].last, wire[1].new) = wire[1].text
  BY <1>1 DEF InStep, Base
<1>3. /\ wire[1].first \in Nat /\ wire[1].last \in Nat
      /\ wire[1].new \in Seq(Strings)
  BY <1>1, SeqsUpToFacts, MirrorAssumption DEF LineEvents
<1>4. lines \in Seq(Strings) /\ lines # <<>>
  BY BufferFacts DEF TypeOK
<1>5. Broken \notin Seq(Strings) /\ Blank \in Strings
  BY MirrorAssumption DEF Strings
<1>6. /\ wire[1].first <= wire[1].last /\ wire[1].last <= Len(lines)
      /\ ~ Overlooked(lines, wire[1].first, wire[1].last, wire[1].new)
  BY <1>2 DEF Possible
<1>7. HandleLineEvent(lines, wire[1].first, wire[1].last, wire[1].new) =
        Splice(lines, wire[1].first, wire[1].last, wire[1].new)
  BY <1>3, <1>4, <1>5, <1>6, HandleIsSplice
<1>8. QED
  BY <1>1, <1>2, <1>7

(* InStep of the next state, spelled out.                                  *)
NextBase(i) == IF i = 1 THEN lines' ELSE wire'[i - 1].text

(* InStep in the next state, with the primes pushed down to the variables. *)
LEMMA NextInStep ==
  ASSUME \A i \in DOMAIN wire' :
            /\ Possible(NextBase(i), wire'[i].first, wire'[i].last, wire'[i].new)
            /\ Splice(NextBase(i), wire'[i].first, wire'[i].last, wire'[i].new) = wire'[i].text,
         NextBase(Len(wire') + 1) = text'
  PROVE  InStep'
BY DEF InStep, Base, NextBase, Possible

(* An exact copy and no unread event.                                      *)
LEMMA MirrorInit == Init => TypeOK /\ InStep
<1>1. ASSUME Init PROVE TypeOK
  BY <1>1, MirrorAssumption DEF Init, TypeOK
<1>2. ASSUME Init PROVE InStep
  BY <1>2 DEF Init, InStep, Base
<1>3. QED
  BY <1>1, <1>2

(* An edit in neovim adds its event at the end of those under way.         *)
LEMMA EditStep ==
  ASSUME TypeOK, InStep, NEW first \in 0 .. MaxLines, NEW last \in 0 .. MaxLines,
         NEW new \in SeqsUpTo(Strings, MaxNew), Edit(first, last, new)
  PROVE  TypeOK' /\ InStep'
<1> DEFINE ev == [first |-> first, last |-> last, new |-> new, text |-> text']
<1>1. /\ text' = Splice(text, first, last, new)
      /\ wire' = Append(wire, ev) /\ lines' = lines
      /\ Len(wire) < WireCap
      /\ Possible(text, first, last, new)
      /\ Len(text') <= MaxLines
  BY DEF Edit
<1>2. text \in Seq(Strings) /\ wire \in Seq(LineEvents) /\ Len(wire) \in Nat
  BY BufferFacts DEF TypeOK
<1>3. text' \in Buffers
  <2>1. new \in Seq(Strings) /\ first \in Nat /\ last \in Nat
    BY SeqsUpToFacts, MirrorAssumption
  <2>2. first <= last /\ last <= Len(text)
    BY <1>1 DEF Possible
  <2>3. text' \in Seq(Strings) /\ text' # <<>>
    BY <1>1, <1>2, <2>1, <2>2, SpliceType DEF Strings
  <2>4. QED
    BY <1>1, <2>3, BufferFacts
<1>4. ev \in LineEvents
  BY <1>3 DEF LineEvents
<1> HIDE DEF ev
<1>5. /\ wire' \in Seq(LineEvents) /\ Len(wire') = Len(wire) + 1
      /\ DOMAIN wire' = 1 .. Len(wire) + 1 /\ DOMAIN wire = 1 .. Len(wire)
      /\ \A i \in 1 .. Len(wire) : wire'[i] = wire[i]
      /\ wire'[Len(wire) + 1] = ev
  BY <1>1, <1>2, <1>4
<1>6. TypeOK'
  BY <1>1, <1>2, <1>3, <1>5, MirrorAssumption DEF TypeOK
<1>7. \A i \in 1 .. Len(wire) + 1 : NextBase(i) = Base(i)
  BY <1>1, <1>2, <1>5 DEF Base, NextBase
<1>8. Base(Len(wire) + 1) = text
  BY DEF InStep
<1>9. ASSUME NEW i \in DOMAIN wire'
      PROVE  /\ Possible(NextBase(i), wire'[i].first, wire'[i].last, wire'[i].new)
             /\ Splice(NextBase(i), wire'[i].first, wire'[i].last, wire'[i].new) = wire'[i].text
  <2>1. CASE i \in DOMAIN wire
    BY <1>5, <1>7, <2>1 DEF InStep
  <2>2. CASE i = Len(wire) + 1
    BY <1>1, <1>5, <1>7, <1>8, <2>2 DEF ev
  <2>3. QED
    BY <1>2, <1>5, <2>1, <2>2
<1>10. NextBase(Len(wire') + 1) = text'
  <2>1. Len(wire') + 1 # 1 /\ Len(wire') + 1 - 1 = Len(wire) + 1
    BY <1>2, <1>5
  <2>2. QED
    BY <1>5, <2>1 DEF NextBase, ev
<1>11. InStep'
  BY <1>9, <1>10, NextInStep
<1>12. QED
  BY <1>6, <1>11

(* Handling the oldest event brings the copy to that event's text.         *)
LEMMA HandleStep ==
  ASSUME BlankFirst = FALSE, TypeOK, InStep, HandleEvent
  PROVE  TypeOK' /\ InStep'
<1>1. /\ wire # <<>> /\ wire' = Tail(wire) /\ text' = text
      /\ lines' = Head(wire).text
      /\ Head(wire) = wire[1] /\ wire[1] \in LineEvents
  BY NextEvent DEF HandleEvent
<1>2. /\ wire \in Seq(LineEvents) /\ Len(wire) \in Nat \ {0} /\ Len(wire) <= WireCap
      /\ wire' \in Seq(LineEvents) /\ Len(wire') = Len(wire) - 1
      /\ DOMAIN wire = 1 .. Len(wire) /\ DOMAIN wire' = 1 .. Len(wire) - 1
      /\ \A i \in 1 .. Len(wire) - 1 : wire'[i] = wire[i + 1]
  <2>1. wire \in Seq(LineEvents) /\ Len(wire) <= WireCap
    BY DEF TypeOK
  <2>2. QED
    BY <1>1, <2>1
<1>3. TypeOK'
  <2>1. lines' \in Buffers
    BY <1>1 DEF LineEvents
  <2>2. QED
    BY <1>1, <1>2, <2>1, MirrorAssumption DEF TypeOK
<1>4. ASSUME NEW i \in 1 .. Len(wire) PROVE NextBase(i) = Base(i + 1)
  <2>1. CASE i = 1
    BY <1>1, <2>1 DEF Base, NextBase
  <2>2. CASE i # 1
    <3>1. i - 1 \in 1 .. Len(wire) - 1 /\ i - 1 + 1 = i /\ i + 1 - 1 = i /\ i + 1 # 1
      BY <1>2, <2>2
    <3>2. wire'[i - 1] = wire[i]
      BY <1>2, <3>1
    <3>3. QED
      BY <2>2, <3>1, <3>2 DEF Base, NextBase
  <2>3. QED
    BY <2>1, <2>2
<1>5. ASSUME NEW i \in DOMAIN wire'
      PROVE  /\ Possible(NextBase(i), wire'[i].first, wire'[i].last, wire'[i].new)
             /\ Splice(NextBase(i), wire'[i].first, wire'[i].last, wire'[i].new) = wire'[i].text
  <2>1. i + 1 \in DOMAIN wire /\ wire'[i] = wire[i + 1] /\ NextBase(i) = Base(i + 1)
    BY <1>2, <1>4
  <2>2. QED
    BY <2>1 DEF InStep
<1>6. NextBase(Len(wire') + 1) = text'
  <2>1. Len(wire') + 1 = Len(wire) /\ Len(wire) \in 1 .. Len(wire)
    BY <1>2
  <2>2. NextBase(Len(wire)) = Base(Len(wire) + 1)
    BY <1>4, <2>1
  <2>3. QED
    BY <1>1, <2>1, <2>2 DEF InStep
<1>7. InStep'
  BY <1>5, <1>6, NextInStep
<1>8. QED
  BY <1>3, <1>7

(* As long as no edit is one of those handle_line_event overlooks, the     *)
(* copy and the unread events stay consistent with neovim's text for ever, *)
(* however long the buffer, the events and the queue.                      *)
THEOREM CopyInStep ==
  ASSUME BlankFirst = FALSE
  PROVE  Spec => [](TypeOK /\ InStep)
<1>1. Init => TypeOK /\ InStep
  BY MirrorInit
<1>2. TypeOK /\ InStep /\ [Next]_vars => (TypeOK /\ InStep)'
  <2> SUFFICES ASSUME TypeOK, InStep, [Next]_vars PROVE (TypeOK /\ InStep)'
    OBVIOUS
  <2>1. CASE Next
    BY <2>1, EditStep, HandleStep DEF Next
  <2>2. CASE UNCHANGED vars
    BY <2>2 DEF vars, TypeOK, InStep, Base, Possible
  <2>3. QED
    BY <2>1, <2>2
<1>3. QED
  BY <1>1, <1>2, PTL DEF Spec

(* The copy is never broken and never empty: no event makes a list         *)
(* operation work on a node that does not exist.                           *)
THEOREM TypeCorrect ==
  ASSUME BlankFirst = FALSE
  PROVE  Spec => []TypeOK
<1>1. Spec => [](TypeOK /\ InStep)
  BY CopyInStep
<1>2. QED
  BY <1>1, PTL
=============================================================================
