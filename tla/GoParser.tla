------------------------------ MODULE GoParser ------------------------------
(***************************************************************************)
(* Highlighting Go: the plugin writes the text of a buffer to a program    *)
(* (go_src) that answers with one line for each identifier, from which     *)
(* calls to neovim are made (golang.c, pipe.c, main.go, pipe.go).  Only    *)
(* one thread at a time is about it, so this is an algorithm.              *)
(*                                                                         *)
(* A pipe is a sequence of bytes.  A file is a sequence of the lengths of  *)
(* its lines; an identifier is [name, len, line, col, object], counted     *)
(* from 1, and object says what the type checker found.                    *)
(***************************************************************************)
EXTENDS Integers, SequencesExt

LOCAL INSTANCE TLC

-----------------------------------------------------------------------------
(* The pipes.  Eight bytes of length go before what is asked, ten digits   *)
(* before what is answered.  Bound: what is asked has less than 2^24 bytes,  *)
(* what is answered less than 10^6.                                        *)
write_buffer(text) == [i \in 1 .. 8 |-> IF i > 3 THEN 0 ELSE (Len(text) \div 256 ^ (i - 1)) % 256] \o text

mkuint64(bytes) == FoldLeft(LAMBDA n, i : n + bytes[i] * 256 ^ (i - 1), 0, <<1, 2, 3>>)

Wait(in) == LET n == mkuint64(in) IN [text |-> SubSeq(in, 9, 8 + n), rest |-> SubSeq(in, 9 + n, Len(in))]

WriteOutput(s) == [i \in 1 .. 10 |-> 48 + (IF i < 5 THEN 0 ELSE (Len(s) \div 10 ^ (10 - i)) % 10)] \o s

Decimal(digits) == FoldLeft(LAMBDA n, d : 10 * n + d - 48, 0, digits)

(* One read asks for as much as the whole answer, whatever it has so far,  *)
(* and gets at most size bytes of what the pipe has.                       *)
Read(s, num2read, size) ==
  LET n == CHOOSE n \in 0 .. size : /\ n <= num2read /\ n <= Len(s.rest)
                                    /\ n = size \/ n = num2read \/ n = Len(s.rest)
  IN  [got |-> s.got \o SubSeq(s.rest, 1, n), rest |-> SubSeq(s.rest, n + 1, Len(s.rest))]

(* sizes: how many bytes each read gets; the first of them by which all is *)
(* there ends the loop.  At the end of the pipe a read gets none.          *)
read_pipe(out, sizes) ==
  IF Len(out) < 10 THEN [end |-> "exit", got |-> <<>>, rest |-> out]
  ELSE LET num2read == Decimal(SubSeq(out, 1, 10))
           s == FoldLeft(LAMBDA t, size : IF Len(t.got) = num2read THEN t ELSE Read(t, num2read, size),
                         [got |-> <<>>, rest |-> SubSeq(out, 11, Len(out))], sizes)
       IN  [end |-> IF Len(s.got) = num2read THEN "done"
                    ELSE IF s.rest = <<>> THEN "endless" ELSE "reading",
            got |-> s.got, rest |-> s.rest]

-----------------------------------------------------------------------------
(* What an identifier is.  A variable of a function's type is a function,  *)
(* unless it is a field or of the package.                                 *)
VarKind(x) == IF x.field THEN "m" ELSE IF x.global THEN "v" ELSE IF x.under = "signature" THEN "f" ELSE "none"

identify_kind(x) ==
  CASE x.class = "const"    -> "c"
    [] x.class = "func"     -> IF x.method THEN "F" ELSE "f"
    [] x.class = "pkgname"  -> "p"
    [] x.class = "typename" -> (CASE x.under = "interface" -> "i" [] x.under = "struct" -> "s" [] OTHER -> "t")
    [] x.class = "var"      -> VarKind(x)
    [] OTHER                -> "none"

(* fset.Position, of an offset from 0.  A Go file begins with a keyword: no *)
(* identifier is its first character, and none gets an offset before it.   *)
Starts(lines) == [l \in 1 .. Len(lines) |-> FoldLeft(LAMBDA n, i : n + lines[i] + 1, 0, [i \in 1 .. l - 1 |-> i])]
Position(lines, o) ==
  LET l == CHOOSE l \in 1 .. Len(lines) : /\ Starts(lines)[l] <= o
                                          /\ l = Len(lines) \/ o < Starts(lines)[l + 1]
  IN  [Line |-> l, Column |-> o - Starts(lines)[l] + 1]

get_range(lines, o, len) == <<Position(lines, o - 1), Position(lines, o - 1 + len)>>

handle_ident(file, ident) ==
  LET kind == identify_kind(ident.object)
      p == get_range(file.lines, Starts(file.lines)[ident.line] + ident.col - 1, ident.len)
  IN  IF kind = "none" \/ ident.file # file.name \/ p[1].Line <= 0 \/ p[2].Line <= 0 THEN <<>>
      ELSE <<[ch |-> kind, line |-> p[1].Line - 1, start |-> p[1].Column,
              end |-> p[2].Column, name |-> ident.name]>>

(* The maps Defs and Uses are walked in any order.                         *)
Highlight(file, idents) == FlattenSeq([i \in 1 .. Len(idents) |-> handle_ident(file, idents[i])])

-----------------------------------------------------------------------------
(* The plugin: the lines are sorted as strings; any order of lines does.   *)
KindOrder == <<"F", "c", "f", "i", "m", "p", "s", "t", "v">>
Before(x, y) == LET rank(l) == <<CHOOSE i \in 1 .. 9 : KindOrder[i] = l.ch, l.line, l.start, l.end, l.name>>
                    i == {i \in 1 .. 5 : rank(x)[i] # rank(y)[i]}
                IN  i # {} /\ LET first == CHOOSE k \in i : \A j \in i : k <= j
                              IN  rank(x)[first] < rank(y)[first]
separate_and_sort(output) == SortSeq(output, Before)

ident_is_ignored(ft, name) == name \in ft.ignored

find_group(ft, ch) == IF ch \in ft.order THEN <<ch>> ELSE <<>>

(* Mutant: what is to be ignored is highlighted.                           *)
parse_all_output(ft, first, output) ==
  (IF first THEN <<>> ELSE <<[call |-> "clear"]>>)
    \o FlattenSeq([i \in 1 .. Len(output) |->
         IF find_group(ft, output[i].ch) = <<>> THEN <<>>
         ELSE <<[call |-> "highlight", group |-> output[i].ch, line |-> output[i].line,
                 start |-> output[i].start, end |-> output[i].end]>>])

parse_go_output(ft, first, output) ==
  (IF first THEN <<>> ELSE <<[call |-> "clear"]>>)
    \o FlattenSeq([i \in 1 .. Len(output) |->
         IF ident_is_ignored(ft, output[i].name) \/ find_group(ft, output[i].ch) = <<>> THEN <<>>
         ELSE <<[call |-> "highlight", group |-> output[i].ch, line |-> output[i].line,
                 start |-> output[i].start, end |-> output[i].end]>>])

highlight_go(ft, first, file, idents) ==
  parse_go_output(ft, first, separate_and_sort(Highlight(file, idents)))
=============================================================================
