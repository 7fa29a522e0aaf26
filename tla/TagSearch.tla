----------------------------- MODULE TagSearch -----------------------------
(***************************************************************************)
(* process_tags (lang/ctags_scan/scan.c): which lines of a tags file are   *)
(* tags of a buffer.  The list is cut into a slice for each thread; each   *)
(* thread filters its slice; the results are joined in the order of the    *)
(* threads, sorted, and freed of duplicates.                               *)
(*                                                                         *)
(* A line is a record with the fields that are looked at: name, file, kind *)
(* (or NoField), lang (or NoLang) and skip, which says that the line is   *)
(* empty or a comment.  Names and kinds are numbers, in the order in which *)
(* tag_cmp sorts them; kind 0 is the '\0' of a line without kind.          *)
(***************************************************************************)
EXTENDS Integers, Sequences, FiniteSets, SequencesExt

NoField == 0
NoLang == ""

-----------------------------------------------------------------------------
(* tok_search_launch_threads: slice i, of 0 to nthreads - 1, of n lines.   *)
(* It begins behind first(i); the last thread also gets the remainder.     *)
SliceFirst(n, nthreads, i) == i * (n \div nthreads)
SliceNum(n, nthreads, i) == IF i = nthreads - 1 THEN n - (nthreads - 1) * (n \div nthreads) ELSE n \div nthreads

(* Mutant: the remainder is forgotten.                                     *)
SliceEven(n, nthreads, i) == (SliceFirst(n, nthreads, i) + 1) .. (SliceFirst(n, nthreads, i) + n \div nthreads)
Slice(n, nthreads, i) ==
  (SliceFirst(n, nthreads, i) + 1) .. (SliceFirst(n, nthreads, i) + SliceNum(n, nthreads, i))

-----------------------------------------------------------------------------
(* A buffer: its file name, the words in it, and what its filetype says:   *)
(* order, the kinds that are highlighted; equiv, a sequence of pairs of    *)
(* kinds; the names to skip; the language, and whether it is C or C++.     *)

(* in_order: the first pair of equiv that fits replaces the kind.          *)
Equivalent(b, kind) ==
  IF \E i \in 1 .. Len(b.equiv) : b.equiv[i][1] = kind
  THEN b.equiv[SelectInSeq(b.equiv, LAMBDA e : e[1] = kind)][2]
  ELSE kind

in_order(b, line) == Equivalent(b, line.kind) \in b.order

C_family == {"C", "C++"}
is_correct_lang(b, line) == line.lang = b.lang \/ (b.c_family /\ line.lang \in C_family)

present(b, line) == line.file = b.file \/ line.name \in b.words

Included(b, line) == /\ ~ line.skip
                     /\ line.kind # NoField /\ line.lang # NoLang
                     /\ in_order(b, line)
                     /\ is_correct_lang(b, line)
                     /\ line.name \notin b.ignored
                     /\ present(b, line)

Tag(b, line) == [name |-> line.name, kind |-> Equivalent(b, line.kind)]

(* What one thread returns.                                                *)
do_tok_search(b, lines, slice) ==
  LET one(found, i) == IF i \in slice /\ Included(b, lines[i]) THEN Append(found, Tag(b, lines[i])) ELSE found
  IN  FoldLeft(one, <<>>, [i \in 1 .. Len(lines) |-> i])

-----------------------------------------------------------------------------
tag_cmp(s, t) == s.kind < t.kind \/ (s.kind = t.kind /\ s.name <= t.name)

(* qsort: tags that compare equal are equal.                               *)
Inserted(tags, t) == LET behind == SelectInSeq(tags, LAMBDA u : ~ tag_cmp(u, t))
                     IN  IF behind = 0 THEN Append(tags, t) ELSE InsertAt(tags, behind, t)
Sorted(tags) == FoldLeft(Inserted, <<>>, tags)

remove_duplicate_tags(tags) ==
  LET one(kept, t) == IF kept # <<>> /\ Last(kept) = t THEN kept ELSE Append(kept, t)
  IN  FoldLeft(one, <<>>, tags)

(* NULL, here <<>>, if there is nothing to search for, in, or found.  The   *)
(* words are a set: duplicates are looked for beside words that have been  *)
(* moved away (scan.c:221-227), and one that stays is found twice at most. *)
process_tags(b, lines, nthreads) ==
  LET all == FlattenSeq([i \in 1 .. nthreads |-> do_tok_search(b, lines, Slice(Len(lines), nthreads, i - 1))])
  IN  IF b.words = {} \/ lines = <<>> THEN <<>>
      ELSE remove_duplicate_tags(Sorted(all))

-----------------------------------------------------------------------------
(* update_commands and handle_kind (update.c): for each kind, the tags     *)
(* from the first one of the kind up to the next one of another kind.      *)
handle_kind(tags, kind) ==
  LET first == SelectInSeq(tags, LAMBDA t : t.kind = kind)
      run == {j \in first .. Len(tags) : \A k \in first .. j : tags[k].kind = kind}
  IN  IF first = 0 THEN {} ELSE {tags[j].name : j \in run}
=============================================================================
