----------------------------- MODULE LineMirror -----------------------------
(***************************************************************************)
(* A buffer in neovim, its copy in the plugin, and the line events in      *)
(* flight between them, from the moment the copy has been initialised.     *)
(***************************************************************************)
EXTENDS LineEdits, FiniteSets

CONSTANTS Texts,       \* the non-empty lines
          MaxLines,    \* bound: lines in a buffer
          MaxNew,      \* bound: strings in one event
          WireCap,     \* bound: unread events
          BlankFirst   \* may an edit be one that handle_line_event overlooks?

Strings == Texts \cup {Blank}

ASSUME MirrorAssumption == /\ Blank \notin Texts
                           /\ Broken \notin Seq(Strings)
                           /\ MaxLines \in Nat \ {0}
                           /\ MaxNew \in Nat
                           /\ WireCap \in Nat
                           /\ BlankFirst \in BOOLEAN

VARIABLES text,    \* the lines of the buffer in neovim
          wire,    \* FIFO of nvim_buf_lines_event's not yet handled; "text"
                   \* is history: the lines of the buffer after the edit
          lines    \* bdata->lines

vars == <<text, wire, lines>>

Buffers == SeqsUpTo(Strings, MaxLines) \ {<<>>}
LineEvents == [first : 0 .. MaxLines, last : 0 .. MaxLines,
               new : SeqsUpTo(Strings, MaxNew), text : Buffers]

(* Right after get_initial_lines the copy is exact.                        *)
Init == /\ text \in Buffers
        /\ lines = text
        /\ wire = <<>>

(* Lines first .. last - 1 of the buffer can be replaced.                  *)
Possible(s, first, last, new) ==
  /\ first <= last
  /\ last <= Len(s)
  /\ BlankFirst \/ ~ Overlooked(s, first, last, new)

(* Neovim (external) changes the buffer and says so.                       *)
Edit(first, last, new) ==
  /\ Len(wire) < WireCap
  /\ Possible(text, first, last, new)
  /\ Len(Splice(text, first, last, new)) <= MaxLines
  /\ text' = Splice(text, first, last, new)
  /\ wire' = Append(wire, [first |-> first, last |-> last, new |-> new, text |-> text'])
  /\ UNCHANGED lines

(* The event loop takes the next event and applies it under lock.total.    *)
HandleEvent ==
  /\ wire # <<>>
  /\ lines' = LET ev == Head(wire) IN HandleLineEvent(lines, ev.first, ev.last, ev.new)
  /\ wire' = Tail(wire)
  /\ UNCHANGED text

Next == \/ \E first, last \in 0 .. MaxLines, new \in SeqsUpTo(Strings, MaxNew) :
             Edit(first, last, new)
        \/ HandleEvent

Spec == Init /\ [][Next]_vars

-----------------------------------------------------------------------------
(* Type invariant.                                                         *)
TypeOK == /\ text \in Buffers
          /\ lines \in Buffers
          /\ wire \in Seq(LineEvents)
          /\ Len(wire) <= WireCap

(* The lines on which the i-th unread event is to be applied.              *)
Base(i) == IF i = 1 THEN lines ELSE wire[i - 1].text

(* The copy lags behind the buffer by exactly the unread events: whatever  *)
(* mixture of replacements, insertions and deletions is in flight, at      *)
(* either end of the buffer or across it, every unread event still speaks  *)
(* of lines the copy will have when its turn comes, and the list           *)
(* operations of handle_line_event amount to neovim's edit.                *)
InStep ==
  /\ \A i \in DOMAIN wire :
       LET ev == wire[i]
       IN  /\ Possible(Base(i), ev.first, ev.last, ev.new)
           /\ Splice(Base(i), ev.first, ev.last, ev.new) = ev.text
  /\ Base(Len(wire) + 1) = text

(* "Useless update, one empty string in an empty buffer": an update that   *)
(* handle_line_event ignores under this heading had changed nothing.       *)
IgnoredAreUseless ==
  wire # <<>> /\ Useless(lines, Head(wire).first, Head(wire).new) =>
    Head(wire).text = lines
=============================================================================
