---------------------------- MODULE AtomicCalls ----------------------------
(***************************************************************************)
(* How highlights get to neovim: each pass over a buffer collects calls in *)
(* an mpack_arg_array (lang/lang.c, update.c), a format and arguments for  *)
(* each, and nvim_call_atomic makes one message of them, which a thread of *)
(* its own writes; messages of two passes may overtake each other.         *)
(*                                                                         *)
(* All values are strings; what neovim shows is a set of highlights.  A    *)
(* pass is [parser, first, items]: is the buffer highlighted by a parser   *)
(* or by ctags, is it the buffer's first pass, and the groups that are     *)
(* highlighted, or the kinds of tags that commands are made of.            *)
(***************************************************************************)
EXTENDS Integers, Sequences, SequencesExt

LOCAL INSTANCE TLC

CONSTANTS INIT_ACALL_SIZE,    \* allocated for a parser's calls (128 in the code)
          INIT_CMD_SIZE,      \* allocated for commands (16 in the code)
          ENCODE_FMT_ARRSIZE  \* arrays a format may have, besides 6 for each call (128 in the code)

ASSUME SizeAssumption == /\ INIT_ACALL_SIZE \in Nat /\ INIT_ACALL_SIZE > 1
                         /\ INIT_CMD_SIZE \in Nat /\ INIT_CMD_SIZE > 1
                         /\ ENCODE_FMT_ARRSIZE \in Nat /\ ENCODE_FMT_ARRSIZE > 4

F == INSTANCE MpackFormat

-----------------------------------------------------------------------------
NewArray(size) == [mlen |-> size, fmt |-> <<>>, args |-> <<>>]

(* The array doubles when its last place is about to be used.              *)
(* Mutant: it does not.                                                    *)
NeverGrown(c) == c
Grown(c) == IF Len(c.fmt) >= c.mlen - 1 THEN [c EXCEPT !.mlen = @ * 2] ELSE c

WithCall(c, f, args) == [Grown(c) EXCEPT !.fmt = Append(@, f), !.args = Append(@, args)]

add_hl_call(c, group, line) ==
  WithCall(c, <<"s", "[", "d", "d", "s", "d", "d", "d", "]">>,
           <<"nvim_buf_add_highlight", "buf", "ns", group, line, "start", "end">>)

(* Mutant: an argument of nvim_buf_clear_highlight is not in the format.   *)
add_short_clr_call(c) ==
  WithCall(c, <<"s", "[", "d", "d", "d", "]">>,
           <<"nvim_buf_clear_highlight", "buf", "ns", "0", "-1">>)

(* Mutant: each pass is shown along with those before it.                  *)
add_no_clr_call(c) == c

add_clr_call(c) ==
  WithCall(c, <<"s", "[", "d", "d", "d", "d", "]">>,
           <<"nvim_buf_clear_highlight", "buf", "ns", "0", "-1">>)

add_cmd_call(c, cmd) == WithCall(c, <<"s", "[", "s", "]">>, <<"nvim_command", cmd>>)

-----------------------------------------------------------------------------
(* nvim_call_atomic: "@" switches to the arguments of the first call, "*"  *)
(* goes on to those of the next.                                           *)
AtomicFormat(c) ==
  LET n == Len(c.fmt)
      one(i) == IF i = 1 THEN <<"@", "[">> \o c.fmt[i] \o <<"]">> ELSE <<"[", "*">> \o c.fmt[i] \o <<"]">>
      all == FlattenSeq([i \in 1 .. n |-> one(i)])
  IN  <<"[", "d", "d", "s", "[">> \o (IF n = 0 THEN <<>> ELSE <<"[">> \o all \o <<"]">>) \o <<"]", "]">>

Own == <<"REQUEST", "count", "nvim_call_atomic", "args">>
Resolve(c, what) == IF what[1] = 0 THEN c.args[what[2] + 1][what[3] + 1] ELSE Own[what[2]]

Message(c) ==
  LET e == F!mpack_encode_fmt(AtomicFormat(c))
  IN  [n \in 1 .. Len(e.out) |->
         IF e.out[n].kind = "array" THEN <<"array", ToString(e.out[n].what)>>
         ELSE <<"value", Resolve(c, e.out[n].what)>>]

-----------------------------------------------------------------------------
(* create_nvim_calls and parse_go_output: the first pass gets a namespace, *)
(* the others begin by clearing it.                                        *)
BeginPass(first) == IF first THEN NewArray(INIT_ACALL_SIZE)
                    ELSE add_clr_call(NewArray(INIT_ACALL_SIZE))

(* update_commands: ownsyntax, then a command for each kind of tag.        *)
BeginCommands == add_cmd_call(NewArray(INIT_CMD_SIZE), "ownsyntax")

Calls(pass) ==
  LET add(c, item) == IF pass.parser THEN add_hl_call(c, item, "line") ELSE add_cmd_call(c, item)
  IN  FoldLeft(add, IF pass.parser THEN BeginPass(pass.first) ELSE BeginCommands, pass.items)

(* Neovim (external) executes the calls of a message one after the other:  *)
(* what it shows after the messages of the passes of a buffer came in some *)
(* order, as pairs of a pass and a group.                                  *)
Execute(was, n) ==
  LET one(set, args) ==
        CASE args[1] = "nvim_buf_clear_highlight" -> {}
          [] args[1] = "nvim_buf_add_highlight"   -> set \cup {<<n, args[4]>>}
          [] args[1] = "nvim_command"             -> set
      pass == [parser |-> TRUE, first |-> n = 1, items |-> <<"group">>]
  IN  FoldLeft(one, was, Calls(pass).args)

Shown(order) == FoldLeft(Execute, {}, order)

-----------------------------------------------------------------------------
(* What a pass asks for, as functions and their arguments.                 *)
Asked(pass) ==
  LET call(fn, args) == [fn |-> fn, args |-> args]
      clear == call("nvim_buf_clear_highlight", <<"buf", "ns", "0", "-1">>)
      highlight(g) == call("nvim_buf_add_highlight", <<"buf", "ns", g, "line", "start", "end">>)
      command(c) == call("nvim_command", <<c>>)
  IN  IF pass.parser
      THEN (IF pass.first THEN <<>> ELSE <<clear>>) \o [i \in DOMAIN pass.items |-> highlight(pass.items[i])]
      ELSE <<command("ownsyntax")>> \o [i \in DOMAIN pass.items |-> command(pass.items[i])]

(* The message that is due: one request with the list of the calls, each a *)
(* function and the list of its arguments.                                 *)
Due(q) ==
  LET vals(args) == [i \in 1 .. Len(args) |-> <<"value", args[i]>>]
      one(c) == <<<<"array", "2">>, <<"value", c.fn>>, <<"array", ToString(Len(c.args))>>>> \o vals(c.args)
  IN  <<<<"array", "4">>, <<"value", "REQUEST">>, <<"value", "count">>, <<"value", "nvim_call_atomic">>>>
        \o (IF q = <<>> THEN <<<<"array", "0">>>>
            ELSE <<<<"array", "1">>, <<"array", ToString(Len(q))>>>> \o FlattenSeq([i \in 1 .. Len(q) |-> one(q[i])]))

(* The room in mpack_encode_fmt for counters of arrays.  Mutant: without   *)
(* regard to the number of calls.                                          *)
NoSizeHint(qty) == ENCODE_FMT_ARRSIZE
ArraySize(qty) == ENCODE_FMT_ARRSIZE + 6 * qty
=============================================================================
