---------------------------- MODULE MpackFormat ----------------------------
(***************************************************************************)
(* mpack_encode_fmt (mpack/mpack.c), which makes a message out of a format *)
(* string and of arguments from several places, and the formats with which *)
(* nvim_api/api.c calls it.                                                *)
(*                                                                         *)
(* A format is a sequence of its legal characters, those that are ignored  *)
(* left out.  Arguments are named, not valued: <<k, i>> is the i-th        *)
(* argument of the k-th va_list, <<0, i, j>> is a_args[i][j].  The         *)
(* message is the sequence of what is encoded, headers included.           *)
(***************************************************************************)
EXTENDS Integers, Sequences, FiniteSets, SequencesExt

With_argument == {"b", "d", "l", "u", "s", "c"}
Elements == With_argument \cup {"n"}
Openers == {"[", "{"}
Closers == {"]", "}"}

-----------------------------------------------------------------------------
(* The first pass: sub_lengths[1] counts what is at the top level, the     *)
(* others what is in each array and dictionary, in the order they open.    *)
NoLengths == [sub_lengths |-> <<0>>, cur |-> 1, stack |-> <<>>, fatal |-> FALSE]

(* Mutant: an array is not counted in the one that holds it.               *)
CountElementsOnly(st, ch) ==
  CASE st.fatal       -> st
    [] ~ st.fatal /\ ch \in Elements -> [st EXCEPT !.sub_lengths[st.cur] = @ + 1]
    [] ~ st.fatal /\ ch \in Openers  -> [st EXCEPT !.sub_lengths = Append(@, 0),
                                                   !.stack = Append(@, st.cur),
                                                   !.cur = Len(st.sub_lengths) + 1]
    [] ~ st.fatal /\ ch \in Closers  ->
         IF st.stack = <<>> THEN [st EXCEPT !.fatal = TRUE]
         ELSE [st EXCEPT !.stack = Front(@), !.cur = Last(st.stack)]
    [] ~ st.fatal /\ ch \in {"!", "@", "*"} -> st

CountOne(st, ch) ==
  CASE st.fatal       -> st
    [] ~ st.fatal /\ ch \in Elements -> [st EXCEPT !.sub_lengths[st.cur] = @ + 1]
    [] ~ st.fatal /\ ch \in Openers  -> [st EXCEPT !.sub_lengths = Append([@ EXCEPT ![st.cur] = @ + 1], 0),
                                                   !.stack = Append(@, st.cur),
                                                   !.cur = Len(st.sub_lengths) + 1]
    [] ~ st.fatal /\ ch \in Closers  ->
         IF st.stack = <<>> THEN [st EXCEPT !.fatal = TRUE]
         ELSE [st EXCEPT !.stack = Front(@), !.cur = Last(st.stack)]
    [] ~ st.fatal /\ ch \in {"!", "@", "*"} -> st

Lengths(f) == FoldLeft(CountOne, NoLengths, f)

(* errx: an array that is not closed, or several items at the top.         *)
Accepted(f) == LET l == Lengths(f) IN ~ l.fatal /\ l.stack = <<>> /\ l.sub_lengths[1] = 1

-----------------------------------------------------------------------------
(* The second pass.  len_ctr runs over sub_lengths; arguments come from    *)
(* the va_list number list, of which next is the next one, or from row and *)
(* col of an array.                                                        *)
NoOutput == [out |-> <<>>, len_ctr |-> 2, array |-> FALSE, lists |-> 1, list |-> 1,
             next |-> 1, row |-> 0, col |-> 0, fatal |-> FALSE]

NEXT(st) == IF st.array THEN <<0, st.row, st.col>> ELSE <<st.list, st.next>>
Taken(st) == IF st.array THEN [st EXCEPT !.col = @ + 1] ELSE [st EXCEPT !.next = @ + 1]

Put(st, kind, what) == [st EXCEPT !.out = Append(@, [kind |-> kind, what |-> what])]

(* Mutant: the next sub array is read on where the last one ended.         *)
NextRowSameColumn(st) == [st EXCEPT !.row = @ + 1]
NextRow(st) == [st EXCEPT !.row = @ + 1, !.col = 0]

EncodeOne(lengths, st, ch) ==
  LET n == lengths[st.len_ctr] IN
  CASE st.fatal -> st
    [] ~ st.fatal /\ ch \in With_argument -> Put(Taken(st), ch, NEXT(st))
    [] ~ st.fatal /\ ch = "n" -> Put(st, "n", <<>>)
    [] ~ st.fatal /\ ch = "[" -> Put([st EXCEPT !.len_ctr = @ + 1], "array", n)
    [] ~ st.fatal /\ ch = "{" -> IF n % 2 = 1 THEN [st EXCEPT !.fatal = TRUE]
                                 ELSE Put([st EXCEPT !.len_ctr = @ + 1], "dict", n \div 2)
    [] ~ st.fatal /\ ch \in Closers -> st
    [] ~ st.fatal /\ ch = "!" -> IF st.array THEN [st EXCEPT !.fatal = TRUE]
                                 ELSE [st EXCEPT !.lists = @ + 1, !.list = st.lists + 1, !.next = 1]
    [] ~ st.fatal /\ ch = "@" -> IF st.array THEN [st EXCEPT !.fatal = TRUE]
                                 ELSE [st EXCEPT !.array = TRUE, !.row = 0, !.col = 0]
    [] ~ st.fatal /\ ch = "*" -> IF st.array THEN NextRow(st) ELSE [st EXCEPT !.fatal = TRUE]

mpack_encode_fmt(f) ==
  LET lengths == Lengths(f).sub_lengths
      one(st, ch) == EncodeOne(lengths, st, ch)
  IN  FoldLeft(one, NoOutput, f)

-----------------------------------------------------------------------------
(* The formats of api.c, with the number of arguments each is given by its *)
(* caller, va_lists not counted: arguments of the function's own list, and *)
(* of the list that it passes on.                                          *)
Call(fn, f, own, passed) == [fn |-> fn, fmt |-> f, own |-> own, passed |-> passed]

Output_and_wrappers ==
  {Call("nvim_out_write", <<"s">>, 1, 0)}
    \cup {Call("nvim_call_function", <<"s", "[", "!">> \o f \o <<"]">>, 1, Len(f)) :
            f \in {<<"s">>, <<"s", "d">>}}

BufferFunctions ==
  {Call(fn, <<>>, 0, 0) : fn \in {"nvim_list_bufs", "nvim_get_current_buf", "nvim_get_current_line"}}
    \cup {Call(fn, <<"d">>, 1, 0) : fn \in {"nvim_buf_line_count", "nvim_buf_get_name",
                                            "nvim_buf_get_changedtick"}}
    \cup {Call("nvim_buf_get_lines", <<"d", "d", "d", "d">>, 4, 0)}
    \cup {Call(fn, <<"d", "s">>, 2, 0) : fn \in {"nvim_buf_get_var", "nvim_buf_get_option"}}

GlobalFunctions ==
  {Call(fn, <<"s">>, 1, 0) : fn \in {"nvim_command", "nvim_command_output", "nvim_eval",
                                     "nvim_get_var", "nvim_get_option"}}
    \cup {Call("nvim_exec", <<"s", "b">>, 2, 0),
          Call("nvim_call_function", <<"s", "[", "]">>, 1, 0),
          Call("nvim_set_option", <<"s", "s">>, 2, 0)}

HighlightFunctions ==
  {Call("nvim_buf_add_highlight", <<"d", "d", "s", "d", "d", "d">>, 6, 0),
   Call("nvim_buf_clear_highlight", <<"d", "d", "d", "d">>, 4, 0),
   Call("nvim_buf_clear_namespace", <<"d", "d", "d", "d">>, 4, 0),
   Call("nvim_get_hl_by_name", <<"s", "b">>, 2, 0),
   Call("nvim_get_hl_by_id", <<"d", "b">>, 2, 0)}

ClientFunctions ==
  {Call("nvim_get_api_info", <<>>, 0, 0),
   Call("nvim_subscribe", <<"s">>, 1, 0),
   Call("nvim_buf_attach", <<"d", "b", "[", "]">>, 2, 0),
   Call("nvim_set_client_info", <<"s", "{", "s", "d", "s", "d", "s", "s", "}", "s", "{", "}", "{", "}">>, 8, 0)}

Api == Output_and_wrappers \cup BufferFunctions \cup GlobalFunctions
         \cup HighlightFunctions \cup ClientFunctions

(* nvim_api_intern_make_generic_call puts the arguments, which the API     *)
(* function passes as its own va_list, behind the head of a request.       *)
generic_own_list(f) == <<"[", "d", "d", "s", "[">> \o f \o <<"]", "]">>   \* mutant: "!" is missing
generic_call(f) == IF f = <<>> THEN <<"[", "d", "d", "s", "[", "]", "]">>
                   ELSE <<"[", "d", "d", "s", "[", "!">> \o f \o <<"]", "]">>

-----------------------------------------------------------------------------
(* What a format means, said without stacks or counters.                   *)
Among(f, i, j, S) == Cardinality({k \in i .. j : f[k] \in S})
Depth(f, i, j) == Among(f, i, j, Openers) - Among(f, i, j, Closers)

CloserOf(f, i) == CHOOSE j \in i .. Len(f) : /\ Depth(f, i, j) = 0
                                             /\ \A k \in i .. j - 1 : Depth(f, i, k) > 0
Inside(f, i) == {k \in i + 1 .. CloserOf(f, i) - 1 :
                   f[k] \in Elements \cup Openers /\ Depth(f, i + 1, k - 1) = 0}

(* The place in the format where the current source of arguments was named *)
(* and which source that is.                                               *)
LastOf(f, i, S) == CHOOSE k \in 0 .. i : /\ k = 0 \/ f[k] \in S
                                         /\ Among(f, k + 1, i, S) = 0
ArgumentAt(f, i) ==
  LET since == LastOf(f, i, {"!", "@", "*"})
      count == Among(f, since + 1, i, With_argument)
  IN  IF Among(f, 1, i, {"@"}) > 0
      THEN <<0, Among(f, 1, i, {"*"}), count - 1>>
      ELSE <<1 + Among(f, 1, i, {"!"}), count>>

Encoded(f) == SelectSeq([i \in 1 .. Len(f) |-> i], LAMBDA i : f[i] \in Elements \cup Openers)

(* The message has everything the format asks for, in its order, every     *)
(* array and dictionary with the number of elements that it has, and each  *)
(* argument from the place where the caller put it.                        *)
Means(f, out) ==
  /\ Len(out) = Len(Encoded(f))
  /\ \A n \in 1 .. Len(out) :
       LET i == Encoded(f)[n] IN
       CASE f[i] = "["             -> out[n] = [kind |-> "array", what |-> Cardinality(Inside(f, i))]
         [] f[i] = "{"             -> out[n] = [kind |-> "dict", what |-> Cardinality(Inside(f, i)) \div 2]
         [] f[i] \in With_argument -> out[n] = [kind |-> f[i], what |-> ArgumentAt(f, i)]
         [] f[i] = "n"             -> out[n].kind = "n"

(* How many arguments a message takes from va_list k.                      *)
From(out, k) == Cardinality({n \in 1 .. Len(out) : out[n].kind \in With_argument /\ out[n].what[1] = k})
=============================================================================
