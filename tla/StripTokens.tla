---------------------------- MODULE StripTokens ----------------------------
(***************************************************************************)
(* Which words of a buffer are looked up among the tags: strip_comments    *)
(* (lang/ctags_scan/strip.c) removes comments and literals, and tokenize   *)
(* (tok.c) cuts what is left into words.                                   *)
(*                                                                         *)
(* A buffer is a sequence of lines, a line a sequence of characters: "a"   *)
(* stands for letters, "1" for digits; "#if 0", "#if" (any other), "#else" *)
(* (and "#elif") and "#endif" are one character each.  A stripped text is  *)
(* a sequence of pairs: a character and where it was in the buffer, or     *)
(* <<0, 0>> if it was put in.                                              *)
(***************************************************************************)
EXTENDS Integers, Sequences, SequencesExt

Quotes == {"\"", "'"}
Blank(ch) == ch = " "
At(line, i) == IF i \in 1 .. Len(line) THEN line[i] ELSE "NUL"
FirstOf(line) == SelectInSeq(line, LAMBDA ch : ~ Blank(ch))

-----------------------------------------------------------------------------
(* handle_cstyle.  want is what ends the comment, literal or group that is *)
(* being left out, or "".  In a line, i is the next character to look at,  *)
(* repl what is kept, and over is true once the code goes to next_line.    *)
ContinuesComment(line) == /\ At(line, Len(line)) = "\\"
                          /\ Len(line) > 3 /\ line[Len(line) - 1] # "\\"

line_comment(line, st) == [st EXCEPT !.want = IF ContinuesComment(line) THEN "\n" ELSE "", !.over = TRUE]

(* Every literal ends at its quote.  Mutant: an escaped one too.           *)
closes_always(line, st, i) == \/ st.want = "*" /\ line[i] = "*" /\ At(line, i + 1) = "/"
                              \/ st.want \in Quotes /\ line[i] = st.want
closes(line, st, i) == \/ st.want = "*" /\ line[i] = "*" /\ At(line, i + 1) = "/"
                       \/ st.want \in Quotes /\ line[i] = st.want /\ ~ st.esc

(* The character after the end of a comment or literal is the next one to  *)
(* be kept: nothing looks at what it is.                                   *)
Keep(line, st, j) ==
  [st EXCEPT !.repl = IF st.want = "" /\ j <= Len(line) THEN Append(@, <<line[j], j>>) ELSE @,
             !.esc  = IF At(line, j) = "\\" THEN ~ st.esc ELSE FALSE,
             !.i    = j + 1]

cstyle_char(line, st, i) ==
  CASE st.over \/ i < st.i -> st
    [] ~ st.over /\ i = st.i /\ ~ Blank(line[i]) /\ st.want # "" ->
         IF st.want = "\n" THEN line_comment(line, st)
         ELSE IF closes(line, st, i)
              THEN Keep(line, [st EXCEPT !.want = ""], IF st.want = "*" THEN i + 2 ELSE i + 1)
              ELSE Keep(line, st, i)
    [] ~ st.over /\ i = st.i /\ line[i] \in Quotes /\ st.want = "" -> Keep(line, [st EXCEPT !.want = line[i]], i)
    [] ~ st.over /\ i = st.i /\ line[i] = "/" /\ st.want = "" ->
        (CASE At(line, i + 1) = "*" ->
                Keep(line, [st EXCEPT !.want = "*", !.repl = Append(@, <<" ", 0>>)], i + 1)
           [] At(line, i + 1) = "/" -> line_comment(line, st)
           [] At(line, i + 1) \notin {"*", "/"} -> Keep(line, st, i))
    [] ~ st.over /\ i = st.i /\ (Blank(line[i]) \/ (st.want = "" /\ line[i] \notin Quotes \cup {"/"})) ->
         Keep(line, st, i)

(* A line that leaves nothing is left out altogether.                      *)
EndLine(text, st, l) ==
  [text |-> text.text \o (IF st.repl = <<>> THEN <<>>
                          ELSE [k \in 1 .. Len(st.repl) |->
                                  <<st.repl[k][1], IF st.repl[k][2] = 0 THEN <<0, 0>> ELSE <<l, st.repl[k][2]>>>>]
                                 \o <<<<"\n", <<0, 0>>>>>>),
   want |-> st.want, ifcount |-> text.ifcount]

InGroup(text, first) ==
  LET n == CASE first \in {"#if 0", "#if"} -> text.ifcount + 1
             [] first = "#endif"           -> text.ifcount - 1
             [] first \notin {"#if 0", "#if", "#endif"} -> text.ifcount
  IN  [text EXCEPT !.ifcount = n, !.want = IF n = 0 THEN "" ELSE "#endif"]

cstyle_line(text, line, l) ==
  LET first == At(line, FirstOf(line))
      one(st, i) == cstyle_char(line, st, i)
      start == IF FirstOf(line) = 0 THEN Len(line) + 1 ELSE FirstOf(line)
  IN  IF text.want = "#endif" THEN InGroup(text, first)
      ELSE IF text.want = "" /\ first = "#if 0" THEN [text EXCEPT !.ifcount = @ + 1, !.want = "#endif"]
      ELSE EndLine(text,
                   FoldLeft(one, [want |-> text.want, esc |-> FALSE, i |-> start, repl |-> <<>>, over |-> FALSE],
                            [i \in 1 .. Len(line) |-> i]),
                   l)

handle_cstyle(lines) ==
  LET one(text, l) == cstyle_line(text, lines[l], l)
  IN  FoldLeft(one, [text |-> <<>>, want |-> "", ifcount |-> 0], [l \in 1 .. Len(lines) |-> l]).text

-----------------------------------------------------------------------------
(* handle_python, over the lines joined with newlines.                     *)
Joined(lines) == FlattenSeq([l \in 1 .. Len(lines) |->
                   [i \in 1 .. Len(lines[l]) + 1 |->
                      IF i <= Len(lines[l]) THEN <<lines[l][i], <<l, i>>>> ELSE <<"\n", <<l, i>>>>]])

OtherQuote(q) == CHOOSE r \in Quotes : r # q
Quoting(st) == st.in_docstring # "" \/ \E q \in Quotes : st.quoted[q]

(* check_docstring: quotes are counted to three, at the end back to zero.  *)
DocstringEnd(st, q, prev) ==
  LET n == IF st.cnt[q] = 3 \/ prev = q THEN st.cnt[q] - 1 ELSE 3
  IN  [st EXCEPT !.cnt[q] = n, !.in_docstring = IF n = 0 THEN "" ELSE q, !.skip = (n = 0)]

StringQuote(st, q, prev) ==
  LET n == IF (st.cnt[q] = 0 /\ \A r \in Quotes : ~ st.quoted[r]) \/ prev = q THEN st.cnt[q] + 1 ELSE st.cnt[q]
      st2 == [st EXCEPT !.cnt[q] = n]
  IN  CASE n = 3 -> [st2 EXCEPT !.in_docstring = q, !.quoted = [r \in Quotes |-> FALSE], !.skip = TRUE]
        [] n # 3 /\ st.quoted[OtherQuote(q)] -> st2
        [] n # 3 /\ ~ st.quoted[OtherQuote(q)] /\ ~ st.quoted[q] -> [st2 EXCEPT !.quoted[q] = TRUE]
        [] n # 3 /\ ~ st.quoted[OtherQuote(q)] /\ st.quoted[q] ->
             IF st.escape THEN st2 ELSE [st2 EXCEPT !.quoted[q] = FALSE, !.skip = TRUE]

(* Mutant: the three quotes of a docstring need not follow each other.     *)
ResetNothing(st, ch) == st
ResetCounts(st, ch) ==
  [st EXCEPT !.cnt = [q \in Quotes |->
     CASE st.in_docstring = q -> IF st.cnt[q] < 3 /\ ch # q THEN 3 ELSE st.cnt[q]
       [] st.in_docstring = OtherQuote(q) -> 0
       [] st.in_docstring = "" -> IF ch # q THEN 0 ELSE st.cnt[q]]]

PythonSwitch(st, ch, prev) ==
  LET newline == st.out # <<>> /\ Last(st.out)[1] = "\n" IN
  CASE ch = "\n" -> [st EXCEPT !.skip = newline, !.comment = FALSE, !.space = 0]
    [] ch \in Quotes -> [(CASE st.in_docstring = OtherQuote(ch) -> st
                            [] st.in_docstring = ch -> DocstringEnd(st, ch, prev)
                            [] st.in_docstring = "" -> StringQuote(st, ch, prev)) EXCEPT !.space = 0]
    [] ch = " " -> IF newline THEN [st EXCEPT !.skip = TRUE] ELSE [st EXCEPT !.space = @ + 1]
    [] ch \notin Quotes \cup {"\n", " "} -> [st EXCEPT !.space = 0]

PythonKeep(st, c) ==
  [st EXCEPT !.skip = FALSE,
             !.out = IF ~ st.skip /\ ~ Quoting(st) /\ st.space < 2 THEN Append(@, c) ELSE @,
             !.escape = IF c[1] = "\\" THEN ~ @ ELSE FALSE]

python_char(st, c, prev) ==
  CASE ~ st.comment /\ ~ Quoting(st) /\ ~ st.escape /\ c[1] = "#" -> [st EXCEPT !.comment = TRUE, !.space = 0]
    [] st.comment /\ c[1] # "\n" -> st
    [] OTHER -> PythonKeep(ResetCounts(PythonSwitch(st, c[1], prev), c[1]), c)

handle_python(lines) ==
  LET cs == Joined(lines)
      one(st, i) == python_char(st, cs[i], IF i = 1 THEN "NUL" ELSE cs[i - 1][1])
  IN  FoldLeft(one, [in_docstring |-> "", quoted |-> [q \in Quotes |-> FALSE], cnt |-> [q \in Quotes |-> 0],
                     comment |-> FALSE, skip |-> FALSE, escape |-> FALSE, space |-> 0, out |-> <<>>],
               [i \in 1 .. Len(cs) |-> i])

-----------------------------------------------------------------------------
(* do_tokenize: words begin with a letter and go on with letters and       *)
(* digits.  The length of a word is taken from where the next one begins;  *)
(* for a word that the end of the text ends there is no such place.        *)
c_func(ch, first) == ch = "a" \/ (~ first /\ ch = "1")

strsep_f(st, c) ==
  IF c_func(c[1], st.word = <<>>) THEN [st EXCEPT !.word = Append(@, c[2])]
  ELSE [st EXCEPT !.words = IF st.word = <<>> THEN @ ELSE Append(@, st.word), !.word = <<>>]

do_tokenize(text) ==
  LET end == FoldLeft(strsep_f, [words |-> <<>>, word |-> <<>>], text)
  IN  [words |-> end.words, unmeasured |-> end.word # <<>>]

-----------------------------------------------------------------------------
(* What C means.  skipping counts the open directives of a group that      *)
(* begins with #if 0, dead is the one whose code C leaves out, or 0: for   *)
(* behind #else that is none of them, or one further in.  fresh is true at *)
(* the start of a line.  kept are the letters of code, lost those of them  *)
(* that handle_cstyle leaves out: it drops the code behind the #else of an *)
(* #if 0, for it looks for nothing but the #endif.  odd marks texts that   *)
(* it is known to read otherwise:                                          *)
(*   - literals that do not end in their line, which are not C;            *)
(*   - a quote or slash right behind a comment or literal;                 *)
(*   - a line that ends in a backslash, unless in a literal, a /* comment, *)
(*     or a // comment that ContinuesComment and does not run into a line  *)
(*     of blanks.                                                          *)
Glued(cs, i) == At([k \in 1 .. Len(cs) |-> cs[k][1]], i) \in Quotes \cup {"/"}

Splice(lines, st, cs, i) ==
  LET l == cs[i][2][1] IN
  [st EXCEPT !.i = i + 2,
             !.odd = @ \/ ~ (\/ st.mode \in Quotes
                             \/ st.mode = "*" /\ cs[i - 1][1] # "*"
                             \/ /\ st.mode = "//"
                                /\ ContinuesComment(lines[l])
                                /\ l < Len(lines) => FirstOf(lines[l + 1]) # 0)]

c_code(st, ch, next, i, at) ==
  CASE ch \in Quotes                  -> [st EXCEPT !.mode = ch]
    [] ch = "/" /\ next = "/"         -> [st EXCEPT !.mode = "//", !.i = i + 2]
    [] ch = "/" /\ next = "*"         -> [st EXCEPT !.mode = "*", !.i = i + 2]
    [] ch = "#if 0" /\ st.fresh       -> [st EXCEPT !.skipping = 1, !.dead = 1]
    [] ch \in {"a", "1"}              -> [st EXCEPT !.kept = Append(@, at)]
    [] OTHER                          -> st

c_group(st, ch, at) ==
  LET n == st.skipping IN
  CASE st.fresh /\ ch = "#if 0" -> [st EXCEPT !.skipping = n + 1, !.over = TRUE, !.dead = IF @ = 0 THEN n + 1 ELSE @]
    [] st.fresh /\ ch = "#if"   -> [st EXCEPT !.skipping = n + 1, !.over = TRUE]
    [] st.fresh /\ ch = "#else" -> [st EXCEPT !.over = TRUE, !.dead = IF @ = n THEN 0 ELSE @]
    [] st.fresh /\ ch = "#endif" -> [st EXCEPT !.skipping = n - 1, !.over = TRUE, !.dead = IF @ = n THEN 0 ELSE @]
    [] ch \in {"a", "1"} /\ ~ st.over /\ st.dead = 0 -> [st EXCEPT !.kept = Append(@, at), !.lost = @ \cup {at}]
    [] OTHER                    -> st

c_char(lines, cs, st, i) ==
  LET ch == cs[i][1]
      next == IF i < Len(cs) THEN cs[i + 1][1] ELSE "NUL"
      moved == [st EXCEPT !.i = i + 1]
      new == CASE st.skipping > 0 -> c_group(moved, ch, cs[i][2])
               [] st.skipping = 0 /\ st.over -> moved
               [] st.skipping = 0 /\ st.mode = "//" -> moved
               [] st.skipping = 0 /\ st.mode = "*" ->
                    IF ch = "*" /\ next = "/"
                    THEN [st EXCEPT !.i = i + 2, !.mode = "", !.odd = @ \/ Glued(cs, i + 2)] ELSE moved
               [] st.skipping = 0 /\ st.mode \in Quotes ->
                   (CASE ch = "\\"    -> [st EXCEPT !.i = i + 2]
                      [] ch = st.mode -> [moved EXCEPT !.mode = "", !.odd = @ \/ Glued(cs, i + 1)]
                      [] ch = "\n"    -> [moved EXCEPT !.odd = TRUE]
                      [] ch \notin {"\\", "\n", st.mode} -> moved)
               [] st.skipping = 0 /\ ~ st.over /\ st.mode = "" -> c_code(moved, ch, next, i, cs[i][2])
  IN  CASE i < st.i -> st
        [] i = st.i /\ ch = "\\" /\ next = "\n" -> Splice(lines, st, cs, i)
        [] i = st.i /\ ch = "\n" ->
             [new EXCEPT !.fresh = TRUE, !.over = FALSE, !.mode = IF @ = "//" THEN "" ELSE @]
        [] i = st.i /\ ch # "\n" /\ ~ (ch = "\\" /\ next = "\n") -> [new EXCEPT !.fresh = @ /\ Blank(ch)]

CMeaning(lines) ==
  LET cs == Joined(lines)
      one(st, i) == c_char(lines, cs, st, i)
  IN  FoldLeft(one, [mode |-> "", i |-> 1, skipping |-> 0, dead |-> 0, fresh |-> TRUE, over |-> FALSE, odd |-> FALSE,
                     kept |-> <<>>, lost |-> {}],
               [i \in 1 .. Len(cs) |-> i])

(* What Python means.  Odd texts, which handle_python is known to read      *)
(* otherwise: a string that does not end in its line, which is not Python; *)
(* an escaped quote in a docstring; a backslash outside of strings.        *)
PyCode(st, ch, quotes, at) ==
  CASE ch \in Quotes /\ quotes = 3 -> [st EXCEPT !.mode = "docstring", !.by = ch, !.i = @ + 2]
    [] ch \in Quotes /\ quotes = 2 -> [st EXCEPT !.i = @ + 1]
    [] ch \in Quotes /\ quotes = 1 -> [st EXCEPT !.mode = "string", !.by = ch]
    [] ch = "#"                    -> [st EXCEPT !.mode = "comment"]
    [] ch = "\\"                   -> [st EXCEPT !.odd = TRUE]
    [] ch \in {"a", "1"}           -> [st EXCEPT !.kept = Append(@, at)]
    [] OTHER                       -> st

py_char(cs, st, i) ==
  LET ch == cs[i][1]
      next == IF i < Len(cs) THEN cs[i + 1][1] ELSE "NUL"
      quotes == CASE next # ch -> 1
                  [] next = ch /\ (i + 2 > Len(cs) \/ cs[i + 2][1] # ch) -> 2
                  [] next = ch /\ i + 2 <= Len(cs) /\ cs[i + 2][1] = ch  -> 3
      moved == [st EXCEPT !.i = i + 1]
  IN  CASE i < st.i -> st
        [] i = st.i /\ st.mode = "" -> PyCode(moved, ch, quotes, cs[i][2])
        [] i = st.i /\ st.mode = "comment" -> IF ch = "\n" THEN [moved EXCEPT !.mode = ""] ELSE moved
        [] i = st.i /\ st.mode \in {"string", "docstring"} /\ ch = "\\" ->
             [st EXCEPT !.i = i + 2, !.odd = @ \/ (st.mode = "docstring" /\ next = st.by)]
        [] i = st.i /\ st.mode = "string" /\ ch # "\\" ->
             IF ch = st.by THEN [moved EXCEPT !.mode = ""] ELSE [moved EXCEPT !.odd = @ \/ ch = "\n"]
        [] i = st.i /\ st.mode = "docstring" /\ ch # "\\" ->
             IF ch = st.by /\ quotes = 3 THEN [st EXCEPT !.mode = "", !.i = i + 3] ELSE moved

PythonMeaning(lines) ==
  LET cs == Joined(lines)
      one(st, i) == py_char(cs, st, i)
  IN  FoldLeft(one, [mode |-> "", by |-> "", i |-> 1, odd |-> FALSE, kept |-> <<>>], [i \in 1 .. Len(cs) |-> i])

(* The words of a text: where its letters and digits are.                  *)
Letters(text) == LET l == SelectSeq(text, LAMBDA c : c[1] \in {"a", "1"}) IN [k \in 1 .. Len(l) |-> l[k][2]]
=============================================================================
