----------------------------- MODULE Algorithms -----------------------------
(***************************************************************************)
(* The sequential parts of the program, which have no state of their own,  *)
(* on all small inputs: a behaviour puts one input together, piece by      *)
(* piece, and the invariants say what the program makes of it.             *)
(*                                                                         *)
(* input.kind says what the input is for:                                  *)
(*   message  an object that goes through MpackCodec                       *)
(*   length   of a string, array or map                                    *)
(*   handle   of a buffer, as neovim sends it (MpackExpect)                *)
(*   object   that is read as some type (MpackExpect)                      *)
(*   format   of mpack_encode_fmt (MpackFormat)                            *)
(*   c, group, python   the lines of a buffer (StripTokens)                *)
(*   tags     the lines of a tags file (TagSearch)                         *)
(*   calls    that one pass over a buffer asks neovim for (AtomicCalls)    *)
(*   passes   the order in which their messages arrive (AtomicCalls)       *)
(*   path     of a buffer, with a settings file (ProjectDirs)              *)
(*   token    of C or C++, with what libclang says of it (TypeSwitch)      *)
(*   go       identifiers of a Go file, and how the pipe delivers them     *)
(*            (GoParser)                                                   *)
(***************************************************************************)
EXTENDS MpackExpect, Outcomes

CONSTANTS Numbers,     \* numbers in messages
          Strings,     \* strings in messages
          HeaderSizes, \* of strings, arrays and maps
          Handles,     \* of buffers
          MaxItems,    \* bound: items of an array or map
          MaxDepth,    \* bound: how deep arrays and maps nest
          Tokens,      \* characters of formats
          MaxFormat,   \* bound: length of a format
          Chars,       \* characters of lines, by kind of input
          MaxText,     \* bound: characters of a buffer, by kind of input
          TagLines,    \* lines of a tags file
          MaxTags,     \* bound: lines of a tags file
          Buffers,     \* what is known of the buffer that tags are searched for
          Groups,      \* highlight groups, or commands
          MaxCalls,    \* bound: calls of one pass
          MaxPasses,   \* bound: passes
          PathChars,   \* characters of paths
          MaxPath,     \* bound: length of a path
          Settings,    \* settings files
          Cursors,     \* cursors of libclang
          Contexts,    \* what else there is about a token
          MaxCursors,  \* bound: cursors of a token
          GoFile,      \* a Go file
          Idents,      \* identifiers of Go
          MaxIdents,   \* bound: identifiers of a Go file
          Answers      \* bound: lengths of answers

S == INSTANCE StripTokens
G == INSTANCE GoParser

Input(kind, val) == [kind |-> kind, val |-> val]
Texts == {"c", "group", "python"}

Atoms == {[type |-> "nil"]} \cup {[type |-> "bool", boolean |-> b] : b \in BOOLEAN}
           \cup {[type |-> "string", str |-> s] : s \in Strings}
           \cup {[type |-> "signed", num |-> v] : v \in Numbers}
           \cup {[type |-> "unsigned", num |-> v] : v \in Numbers}

(* One object of each type.                                                *)
Objects == {[type |-> "nil"], [type |-> "bool", boolean |-> TRUE], [type |-> "string", str |-> <<7>>],
            [type |-> "signed", num |-> Rep(255, 8)], [type |-> "unsigned", num |-> Rep(0, 8)],
            [type |-> "ext", ext |-> 0, data |-> <<5>>], [type |-> "array", arr |-> <<>>],
            [type |-> "dict", dict |-> <<>>]}

-----------------------------------------------------------------------------
RECURSIVE Depth(_)
Depth(o) == CASE o.type = "array" -> 1 + (IF o.arr = <<>> THEN 0 ELSE Depth(o.arr[1]))
              [] o.type = "dict"  -> 1 + (IF o.dict = <<>> THEN 0 ELSE Depth(o.dict[1].value))
              [] o.type \notin {"array", "dict"} -> 0

Key == [type |-> "string", str |-> <<1>>]

Enclose == /\ input.kind = "message"
           /\ Depth(input.val) < MaxDepth
           /\ \/ input' = [input EXCEPT !.val = [type |-> "array", arr |-> <<@>>]]
              \/ input' = [input EXCEPT !.val = [type |-> "dict", dict |-> <<[key |-> Key, value |-> @]>>]]

Extend == /\ input.kind = "message"
          /\ \E a \in {[type |-> "nil"], Key} :
               \/ /\ input.val.type = "array"
                  /\ Len(input.val.arr) < MaxItems
                  /\ input' = [input EXCEPT !.val.arr = Append(@, a)]
               \/ /\ input.val.type = "dict"
                  /\ Len(input.val.dict) < MaxItems
                  /\ input' = [input EXCEPT !.val.dict = Append(@, [key |-> a, value |-> a])]

(* Formats grow until they end.                                            *)
Lengthen == /\ input.kind = "format"
            /\ Len(input.val) < MaxFormat
            /\ ~ F!Lengths(input.val).fatal
            /\ input.val # <<>> => F!Lengths(input.val).stack # <<>>
            /\ \E ch \in Tokens : input' = [input EXCEPT !.val = Append(@, ch)]

Type == /\ input.kind \in Texts
        /\ Len(S!Joined(input.val)) <= MaxText[input.kind]
        /\ \/ \E ch \in Chars[input.kind] : input' = [input EXCEPT !.val[Len(input.val)] = Append(@, ch)]
           \/ input' = [input EXCEPT !.val = Append(@, <<>>)]

AddTag == /\ input.kind = "tags"
          /\ Len(input.val.lines) < MaxTags
          /\ \E l \in TagLines : input' = [input EXCEPT !.val.lines = Append(@, l)]

AddCall == /\ input.kind = "calls"
           /\ Len(input.val.items) < MaxCalls
           /\ \E g \in Groups : input' = [input EXCEPT !.val.items = Append(@, g)]

Deliver == /\ input.kind = "passes"
           /\ \E n \in {m \in 1 .. MaxPasses : \A i \in DOMAIN input.val : input.val[i] # m} : input' = [input EXCEPT !.val = Append(@, n)]

Lead == /\ input.kind = "path"
        /\ Len(input.val.full) < MaxPath
        /\ \E ch \in PathChars : input' = [input EXCEPT !.val.full = Append(@, ch)]

Refer == /\ input.kind = "token"
         /\ Len(input.val.cursors) < MaxCursors
         /\ \A i \in 1 .. Len(input.val.cursors) - 1 : Retries(input.val, i)
         /\ \E c \in Cursors : input' = [input EXCEPT !.val.cursors = Append(@, c)]

AddIdent == /\ input.kind = "go"
            /\ Len(input.val) < MaxIdents
            /\ \E x \in Idents : input' = [input EXCEPT !.val = Append(@, x)]

(* The pipe lets the reader have some of the answer.                       *)
Read == /\ input.kind = "answer"
        /\ G!read_pipe(G!WriteOutput(Rep(7, input.val.len)), input.val.sizes).end = "reading"
        /\ \E n \in 1 .. input.val.len : input' = [input EXCEPT !.val.sizes = Append(@, n)]

Init == input \in
  {Input("message", a) : a \in Atoms}
    \cup {Input("length", n) : n \in HeaderSizes}
    \cup {Input("handle", n) : n \in Handles}
    \cup {Input("object", o) : o \in Objects}
    \cup {Input("format", f) : f \in {<<>>} \cup {F!generic_call(c.fmt) : c \in F!Api}}
    \cup {Input(k, <<<<>>>>) : k \in Texts}
    \cup {Input("tags", [buffer |-> b, lines |-> <<>>]) : b \in Buffers}
    \cup {Input("calls", [parser |-> p, first |-> f, items |-> <<>>]) : p, f \in BOOLEAN}
    \cup {Input("passes", <<>>)}
    \cup {Input("token", [x \in DOMAIN t \cup {"cursors"} |-> IF x = "cursors" THEN <<c>> ELSE t[x]]) :
             t \in Contexts, c \in Cursors}
    \cup {Input("go", <<>>)}
    \cup {Input("answer", [len |-> n, sizes |-> <<>>]) : n \in Answers}
    \cup {Input("path", [settings |-> s, full |-> <<"/">>]) : s \in Settings}

Next == Enclose \/ Extend \/ Lengthen \/ Type \/ AddTag \/ AddCall \/ Deliver \/ Lead \/ Refer \/ AddIdent \/ Read

Spec == Init /\ [][Next]_input

-----------------------------------------------------------------------------
(* What mpack_decode_stream reads is what was encoded, but for the numbers *)
(* of Int8, and it reads not a byte more: the next message of the stream   *)
(* is still whole.  Lengths come back from each header, on each side of    *)
(* each boundary, and no header is that of two types (encode.c, decode.c). *)
RoundTrip ==
  /\ input.kind = "message" =>
       LET next == mpack_encode_array(1)
           got == do_decode(Encode(input.val) \o next)
       IN  Same(input.val, got.obj) /\ got.rest = next
  /\ input.kind = "length" =>
       /\ HeaderAgrees(string_header(input.val), "string", input.val)
       /\ HeaderAgrees(mpack_encode_array(input.val), "array", input.val)
       /\ HeaderAgrees(mpack_encode_dictionary(input.val), "map", input.val)

(* An event is applied to the buffer that neovim named: handles, which are *)
(* extensions, are read right up to 65535, and wrong beyond                *)
(* (decode_ext, attempt_to_interpret_ext).                                 *)
HandlesRead ==
  input.kind = "handle" =>
    (BufferOf(input.val) = Rep(0, 4) \o BigEndian(input.val, 4) <=> input.val < 65536)

(* And an object of a type its reader does not expect gives the default, never *)
(* data of another type, except where an array is expected, which is not   *)
(* tested.  The one reader that names an alternative (handle_buffer_update *)
(* takes nil for a number) ends for both, and would not for a boolean.     *)
Fits(t) == CASE t = "BOOL" -> {"bool", "signed", "unsigned"}
             [] t = "NUM"  -> {"signed", "unsigned", "ext"}
             [] t = "STRING" -> {"string"} [] t = "STRLIST" -> {"array"} [] t = "DICT" -> {"dict"}
             [] t = "EXT" -> {"ext"} [] t = "WSTRING" -> {"string"} [] t = "NIL" -> {"nil"}
ExpectSound ==
  input.kind = "object" =>
    /\ \A t \in {"DICT", "EXT", "BOOL", "NUM", "STRING", "STRLIST"} :
         LET r == mpack_expect(input.val, {t}, {}) IN
         IF input.val.type \in Fits(t) THEN r.read = t ELSE r = Default
    /\ LET r == mpack_expect(input.val, {"NUM"}, {"NIL"}) IN
       /\ input.val.type \in {"signed", "unsigned"} => r.num = input.val.num
       /\ r = Endless <=> input.val.type = "bool"

ReadAsSent == HandlesRead /\ ExpectSound

(* Every function of nvim_api/api.c takes from its own va_list, and from   *)
(* that of its caller, as many arguments as are there; its message is a    *)
(* request of four elements, and its format is never refused.              *)
ArgumentsMatch ==
  input.kind = "format" =>
    \A c \in {c \in F!Api : input.val = F!generic_call(c.fmt)} :
      LET e == F!mpack_encode_fmt(input.val)
      IN  /\ F!Accepted(input.val) /\ ~ e.fatal
          /\ F!From(e.out, 1) = 3 /\ F!From(e.out, 2) = c.own /\ F!From(e.out, 3) = c.passed
          /\ e.out[1] = [kind |-> "array", what |-> 4]

(* The message has everything its format asks for, in its order, each      *)
(* array and dictionary with the number of elements that it has, and each  *)
(* argument from where the caller put it: the counters of the two passes   *)
(* of mpack_encode_fmt, which are matched by order alone, do not drift.    *)
(* The formats of the interface get what they are given (ArgumentsMatch).  *)
Faithful ==
  /\ ArgumentsMatch
  /\ input.kind = "format" =>
       LET e == F!mpack_encode_fmt(input.val)
       IN  F!Accepted(input.val) /\ ~ e.fatal => F!Means(input.val, e.out)

(* Tags are looked up for the words of a buffer's code, and only for them: *)
(* what is kept of a text are the letters outside of comments, literals    *)
(* and what #if 0 leaves out (strip.c:27-30), but for the code behind the  *)
(* #else of an #if 0, which is dropped as well, and unless the text is odd *)
(* in one of the ways that CMeaning and PythonMeaning name; and no word    *)
(* ends with the text, where do_tokenize cannot tell its length, unless a  *)
(* Python string or docstring is open at the end.                          *)
StripsToCode ==
  /\ input.kind \in {"c", "group"} =>
       LET m == S!CMeaning(input.val)
           t == S!handle_cstyle(input.val)
       IN  /\ ~ m.odd => S!Letters(t) = SelectSeq(m.kept, LAMBDA at : at \notin m.lost)
           /\ ~ S!do_tokenize(t).unmeasured
  /\ input.kind = "python" =>
       LET m == S!PythonMeaning(input.val)
           t == S!handle_python(input.val)
       IN  /\ ~ m.odd => S!Letters(t.out) = m.kept
           /\ S!do_tokenize(t.out).unmeasured => S!Quoting(t)

(* Neovim is asked for exactly the calls that were added, in their order   *)
(* and each with its own arguments: the formats and the arguments, kept in *)
(* two arrays and read through one format with nested brackets, agree, and *)
(* neither a call nor a counter of mpack_encode_fmt is stored beyond what  *)
(* is allocated for it, however many there are.                            *)
Delivered ==
  input.kind = "calls" =>
    LET c == Calls(input.val)
    IN  /\ F!Accepted(AtomicFormat(c))
        /\ ~ F!mpack_encode_fmt(AtomicFormat(c)).fatal
        /\ Message(c) = Due(Asked(input.val))
        /\ Len(c.fmt) < c.mlen
        /\ Len(F!Lengths(AtomicFormat(c)).sub_lengths) <= ArraySize(Len(c.fmt))

(* Every identifier of the file that is of some kind, and not ignored, is  *)
(* highlighted at its place, whatever the order Go walks its maps in: but  *)
(* one in the first column is taken for part of the line before.  The text *)
(* gets to the parser whole, and its answer back, in however many pieces   *)
(* the pipe delivers it; if the parser dies amid its answer, the reader    *)
(* reads for ever.                                                         *)
GoHighlighted ==
  /\ input.kind = "go" =>
       LET ft == [ignored |-> {2}, order |-> G!ToSet(G!KindOrder)]
           calls == G!highlight_go(ft, FALSE, GoFile, input.val)
           due == {x \in G!ToSet(input.val) : /\ x.file = GoFile.name /\ x.name \notin ft.ignored
                                            /\ G!identify_kind(x.object) # "none"}
           at(x) == [call |-> "highlight", group |-> G!identify_kind(x.object), line |-> x.line - 1,
                     start |-> x.col - 1, end |-> x.col - 1 + x.len]
       IN  /\ calls[1] = [call |-> "clear"]
           /\ {at(x) : x \in {y \in due : y.col > 1}} \subseteq G!ToSet(Tail(calls))
           /\ \A c \in G!ToSet(Tail(calls)) : \E x \in due :
                c = at(x) \/ (x.col = 1 /\ x.line > 1 /\ c.line = x.line - 2)
  /\ input.kind = "answer" =>
       LET text == Rep(7, input.val.len)
           r == G!read_pipe(G!WriteOutput(text), input.val.sizes)
           asked == G!Wait(G!write_buffer(text) \o <<9>>)
           dead == G!read_pipe(SubSeq(G!WriteOutput(text), 1, 9 + input.val.len), input.val.sizes \o <<input.val.len>>)
       IN  /\ asked.text = text /\ asked.rest = <<9>>
           /\ r.got = SubSeq(text, 1, Len(r.got))
           /\ r.end = "reading" \/ (r.end = "done" /\ r.got = text)
           /\ dead.end # "done" \/ text = <<>>
=============================================================================
