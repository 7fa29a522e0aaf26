----------------------------- MODULE LineEdits ------------------------------
(***************************************************************************)
(* How a "nvim_buf_lines_event" changes the plugin's copy of a buffer:     *)
(* handle_line_event of event_handlers.c over the list operations of       *)
(* util/linked_list.c.  A list is the sequence of its data; a node is its  *)
(* position, 0 standing for NULL.  Indices of events are zero-based.       *)
(***************************************************************************)
EXTENDS Integers, Sequences

CONSTANTS Blank,   \* the empty line
          Broken   \* a list whose links are inconsistent: an operation was
                   \* given a node that does not exist

(* ll_at: one past the end is the tail, a wrong index no node at all.  (No *)
(* caller modelled here passes a negative index.)                          *)
LlAt(s, index) ==
  IF index \in 0 .. Len(s) - 1 THEN index + 1
  ELSE IF index = Len(s) THEN Len(s)
  ELSE 0

(* ll_insert_blist_after / _before.  Without a node to hang on to, the new *)
(* nodes are reachable only if the list was empty.                         *)
LlInsertAfter(s, at, new) ==
  IF new = <<>> \/ (at = 0 /\ s # <<>>) THEN Broken
  ELSE SubSeq(s, 1, at) \o new \o SubSeq(s, at + 1, Len(s))

(* Mutant: the new nodes are put on the wrong side of the node.            *)
LlInsertBehind(s, at, new) ==
  SubSeq(s, 1, at) \o new \o SubSeq(s, at + 1, Len(s))

LlInsertBefore(s, at, new) ==
  IF new = <<>> \/ (at = 0 /\ s # <<>>) THEN Broken
  ELSE IF s = <<>> THEN new
  ELSE SubSeq(s, 1, at - 1) \o new \o SubSeq(s, at, Len(s))

(* ll_delete_range; a range of one is ll_delete_node, which dereferences.  *)
LlDeleteRange(s, at, range) ==
  IF at = 0 /\ (s # <<>> \/ range = 1) THEN Broken
  ELSE SubSeq(s, 1, at - 1) \o SubSeq(s, at + range, Len(s))

(* The n calls of replace_line in the loop of line_event_multi_op.         *)
Replaced(s, new, first, n) ==
  IF n = 0 THEN s
  ELSE IF LlAt(s, first + n - 1) = 0 THEN Broken
  ELSE [p \in 1 .. Len(s) |-> IF p = LlAt(s, first + n - 1) THEN new[n]
                              ELSE IF p \in first + 1 .. first + n THEN new[p - first]
                              ELSE s[p]]

(* line_event_multi_op: overwrite the lines that have a replacement, then  *)
(* delete those that have none or insert the strings that are left over.   *)
MultiOp(s, new, first, num_to_modify) ==
  LET olen    == Len(s)
      num_new == Len(new)
      k       == IF num_to_modify < olen THEN num_to_modify ELSE olen
      r       == Replaced(s, new, first, IF num_new < k THEN num_new ELSE k)
      rest    == SubSeq(new, k + 1, num_new)
  IN  IF r = Broken THEN Broken
      ELSE IF num_new < k
      THEN LlDeleteRange(r, LlAt(r, first + num_new), num_to_modify - num_new)
      ELSE IF num_new = k /\ num_to_modify = k THEN r
      ELSE IF first + k >= olen THEN LlInsertAfter(r, LlAt(r, first + k), rest)
      ELSE LlInsertBefore(r, LlAt(r, first + k), rest)

(* "Useless update, one empty string in an empty buffer."                  *)
Useless(lines, first, new) == Len(lines) <= 1 /\ first = 0 /\ new = <<Blank>>

(* Mutant: a list that has lost all its lines stays empty.                 *)
AtLeastNone(s) == s

(* An empty buffer has one empty line.                                     *)
AtLeastOne(s) == IF s = <<>> THEN <<Blank>> ELSE s

HandleLineEvent(lines, first, last, new) ==
  IF lines = Broken THEN Broken
  ELSE AtLeastOne(
    IF new = <<>>
    THEN IF first = last THEN lines
         ELSE LlDeleteRange(lines, LlAt(lines, first), last - first)
    ELSE IF Useless(lines, first, new) THEN lines
    ELSE IF first = 0 /\ last = 0 THEN LlInsertBefore(lines, LlAt(lines, 0), new)
    ELSE MultiOp(lines, new, first, last - first))

(* What neovim did to the buffer (external): lines first .. last - 1 have  *)
(* been replaced by the new ones, and no buffer is without a line.         *)
Splice(text, first, last, new) ==
  LET t == SubSeq(text, 1, first) \o new \o SubSeq(text, last + 1, Len(text))
  IN  IF t = <<>> THEN <<Blank>> ELSE t

(* The edits that the "empty buffer" test also takes for useless although  *)
(* they change a buffer of one line.                                       *)
Overlooked(text, first, last, new) ==
  /\ Useless(text, first, new)
  /\ Splice(text, first, last, new) # text

(* The sequences over S of at most n elements.                             *)
SeqsUpTo(S, n) == UNION {[1 .. m -> S] : m \in 0 .. n}
=============================================================================
