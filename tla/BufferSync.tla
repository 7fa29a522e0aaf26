----------------------------- MODULE BufferSync -----------------------------
(***************************************************************************)
(* One buffer from the moment the plugin has registered it: neovim_init    *)
(* attaches to it, takes the initial lines and highlights it; the user     *)
(* edits it and gives commands; the event loop, the only reader of         *)
(* neovim's messages, applies line events and hands out replies; and       *)
(* everybody meets at bdata->lock.total.  The remote calls are those of    *)
(* RpcPromise, except that a reply reaches its caller only when the event  *)
(* loop gets to read it.  The filetype is one without a parser, so that    *)
(* update_highlight is update_other.                                       *)
(***************************************************************************)
EXTENDS LineEdits, FiniteSets

CONSTANTS Texts,        \* the non-empty lines
          MaxLines,     \* bound: lines in the buffer
          MaxNew,       \* bound: strings in one event
          MaxEdits,     \* bound: edits made by the user
          MaxCommands,  \* bound: commands given by the user
          None          \* no thread, no event, no lines

VARIABLES text,      \* the lines of the buffer in neovim
          attached,  \* does neovim send line events?
          snapshot,  \* what neovim answered to nvim_buf_get_lines, or None
          edits,     \* how many edits there have been
          early,     \* history: an edit came between attachment and snapshot
          command,   \* [Commands -> what the user asked for, or None]
          toNvim,    \* requests neovim has not served yet
          wire,      \* messages the event loop has not read yet
          event,     \* the line event the event loop is handling, or None
          lines,         \* bdata->lines
          initialized,   \* bdata->initialized
          total,         \* the owner of bdata->lock.total, or None
          autocmd_mutex, \* its owner, or None
          pc,        \* [Threads -> what the thread is about to do]
          call,      \* [Threads -> state of the thread's remote call]
          halted     \* has stop_event_loop been called?

nvimVars == <<text, attached, snapshot, edits, early, command>>
copyVars == <<lines, initialized>>
threadVars == <<pc, call>>
vars == <<nvimVars, toNvim, wire, event, copyVars, total, autocmd_mutex, threadVars, halted>>

Main == 0                        \* the thread of neovim_init
Commands == 1 .. MaxCommands     \* the threads of event_autocmd, by command
Threads == {Main} \cup Commands
Loop == "loop"                   \* the event loop's thread

Strings == Texts \cup {Blank}
Buffers == SeqsUpTo(Strings, MaxLines) \ {<<>>}
LineEvents == [first : 0 .. MaxLines, last : 0 .. MaxLines,
               new : SeqsUpTo(Strings, MaxNew),
               before : Buffers]   \* history: the text that was edited

ASSUME SyncAssumption == /\ Blank \notin Texts
                         /\ Broken \notin Seq(Strings)
                         /\ MaxLines \in Nat \ {0}
                         /\ MaxNew \in Nat
                         /\ MaxEdits \in Nat
                         /\ MaxCommands \in Nat
                         /\ None \notin Threads /\ None \notin {"update", "stop"}
                         /\ None \notin Buffers /\ None \notin LineEvents

(* The phases in which a thread makes a blocking remote call.              *)
Calls == {"buf_attach", "get_lines", "get_current_buf", "get_var"}

LinesMsg(ev) == [kind |-> "lines", event |-> ev]
ReplyMsg(t)  == [kind |-> "reply", to |-> t]
VimMsg(t)    == [kind |-> "vim", command |-> t]

Stops(t) == t # Main /\ command[t] = "stop"

Goto(t, phase) == /\ pc' = [pc EXCEPT ![t] = phase]
                  /\ call' = [call EXCEPT ![t] = "idle"]

-----------------------------------------------------------------------------
(* Neovim (external) executes an edit and reports it if somebody listens.  *)
Edit(first, last, new) ==
  /\ edits < MaxEdits
  /\ first <= last
  /\ last <= Len(text)
  /\ ~ Overlooked(text, first, last, new)
  /\ Len(Splice(text, first, last, new)) <= MaxLines
  /\ text' = Splice(text, first, last, new)
  /\ edits' = edits + 1
  /\ early' = (early \/ (attached /\ snapshot = None))
  /\ wire' = IF attached
             THEN Append(wire, LinesMsg([first |-> first, last |-> last, new |-> new,
                                         before |-> text]))
             ELSE wire
  /\ UNCHANGED <<attached, snapshot, command, toNvim, event, copyVars, total,
                 autocmd_mutex, threadVars, halted>>

(* The vimscript half sends a "vim_event_update".                          *)
Command(t, what) ==
  /\ command[t] = None
  /\ \A u \in Commands : u < t => command[u] # None
  /\ command' = [command EXCEPT ![t] = what]
  /\ wire' = Append(wire, VimMsg(t))
  /\ UNCHANGED <<text, attached, snapshot, edits, early, toNvim, event, copyVars, total,
                 autocmd_mutex, threadVars, halted>>

(* Requests are served in order, between two edits.                        *)
Serve ==
  /\ toNvim # <<>>
  /\ LET t == Head(toNvim) IN
       /\ attached' = (attached \/ pc[t] = "buf_attach")
       /\ snapshot' = IF pc[t] = "get_lines" THEN text ELSE snapshot
       /\ wire' = Append(wire, ReplyMsg(t))
  /\ toNvim' = Tail(toNvim)
  /\ UNCHANGED <<text, edits, early, command, event, copyVars, total,
                 autocmd_mutex, threadVars, halted>>

-----------------------------------------------------------------------------
(* A thread writes its request and sleeps until the reply is handed over.  *)
Request(t) ==
  /\ pc[t] \in Calls
  /\ call[t] = "idle"
  /\ call' = [call EXCEPT ![t] = "sent"]
  /\ toNvim' = Append(toNvim, t)
  /\ UNCHANGED <<nvimVars, wire, event, copyVars, total, autocmd_mutex, pc, halted>>

Attached(t) ==
  /\ pc[t] = "buf_attach"
  /\ call[t] = "answered"
  /\ Goto(t, "get_initial_lines")
  /\ UNCHANGED <<nvimVars, toNvim, wire, event, copyVars, total, autocmd_mutex, halted>>

(* Mutant: the initial lines are asked for without lock.total.             *)
LockNothing(t) ==
  /\ pc[t] = "get_initial_lines"
  /\ Goto(t, "get_lines")
  /\ UNCHANGED <<nvimVars, toNvim, wire, event, copyVars, total, autocmd_mutex, halted>>

(* get_initial_lines keeps lock.total for the whole of its remote call ... *)
LockForLines(t) ==
  /\ pc[t] = "get_initial_lines"
  /\ total = None
  /\ total' = t
  /\ Goto(t, "get_lines")
  /\ UNCHANGED <<nvimVars, toNvim, wire, event, copyVars, autocmd_mutex, halted>>

(* ... and replaces a lone line, or puts the lines after the first one.    *)
Populated(s) ==
  IF s = Broken THEN Broken
  ELSE IF Len(s) <= 1 THEN snapshot
  ELSE LlInsertAfter(s, 1, snapshot)

(* Mutant: the lines are stored as soon as they have been asked for.       *)
StoreUnanswered(t) ==
  /\ pc[t] = "get_lines"
  /\ call[t] # "idle"
  /\ lines' = Populated(lines)
  /\ initialized' = TRUE
  /\ total' = None
  /\ Goto(t, "update_highlight")
  /\ UNCHANGED <<nvimVars, toNvim, wire, event, autocmd_mutex, halted>>

StoreLines(t) ==
  /\ pc[t] = "get_lines"
  /\ call[t] = "answered"
  /\ lines' = Populated(lines)
  /\ initialized' = TRUE
  /\ total' = None
  /\ Goto(t, "update_highlight")
  /\ UNCHANGED <<nvimVars, toNvim, wire, event, autocmd_mutex, halted>>

(* update_other and clear_highlight ask for variables under lock.total.    *)
LockForUpdate(t) ==
  /\ pc[t] = "update_highlight"
  /\ total = None
  /\ total' = t
  /\ Goto(t, "get_var")
  /\ UNCHANGED <<nvimVars, toNvim, wire, event, copyVars, autocmd_mutex, halted>>

(* The end of neovim_init or of event_autocmd; event_stop goes on.         *)
UpdateDone(t) ==
  /\ pc[t] = "get_var"
  /\ call[t] = "answered"
  /\ total' = None
  /\ Goto(t, IF Stops(t) THEN "event_halt" ELSE "done")
  /\ autocmd_mutex' = IF t = Main \/ Stops(t) THEN autocmd_mutex ELSE None
  /\ UNCHANGED <<nvimVars, toNvim, wire, event, copyVars, halted>>

(* event_halt stops the event loop and ends with autocmd_mutex locked.     *)
EventHalt(t) ==
  /\ pc[t] = "event_halt"
  /\ Goto(t, "done")
  /\ halted' = TRUE
  /\ UNCHANGED <<nvimVars, toNvim, wire, event, copyVars, total, autocmd_mutex>>

(* event_autocmd: one command at a time, in any order.                     *)
LockForCommand(t) ==
  /\ pc[t] = "event_autocmd"
  /\ autocmd_mutex = None
  /\ autocmd_mutex' = t
  /\ Goto(t, "get_current_buf")
  /\ UNCHANGED <<nvimVars, toNvim, wire, event, copyVars, total, halted>>

CurrentBuf(t) ==
  /\ pc[t] = "get_current_buf"
  /\ call[t] = "answered"
  /\ Goto(t, "update_highlight")
  /\ UNCHANGED <<nvimVars, toNvim, wire, event, copyVars, total, autocmd_mutex, halted>>

-----------------------------------------------------------------------------
(* Mutant: the thread that waits for the reply is not woken.               *)
ReadUnnoticed ==
  /\ event = None
  /\ wire # <<>> /\ Head(wire).kind = "reply"
  /\ wire' = Tail(wire)
  /\ UNCHANGED <<nvimVars, toNvim, event, copyVars, total, autocmd_mutex, threadVars, halted>>

(* The event loop reads the next message.                                  *)
ReadReply ==
  /\ event = None
  /\ wire # <<>> /\ Head(wire).kind = "reply"
  /\ call' = [call EXCEPT ![Head(wire).to] = "answered"]
  /\ wire' = Tail(wire)
  /\ UNCHANGED <<nvimVars, toNvim, event, copyVars, total, autocmd_mutex, pc, halted>>

ReadCommand ==
  /\ event = None
  /\ wire # <<>> /\ Head(wire).kind = "vim"
  /\ Goto(Head(wire).command, "event_autocmd")
  /\ wire' = Tail(wire)
  /\ UNCHANGED <<nvimVars, toNvim, event, copyVars, total, autocmd_mutex, halted>>

ReadLines ==
  /\ event = None
  /\ wire # <<>> /\ Head(wire).kind = "lines"
  /\ event' = Head(wire).event
  /\ wire' = Tail(wire)
  /\ UNCHANGED <<nvimVars, toNvim, copyVars, total, autocmd_mutex, threadVars, halted>>

(* Mutant: the line event is applied without lock.total.                   *)
HandleUnlocked ==
  /\ event # None
  /\ lines' = HandleLineEvent(lines, event.first, event.last, event.new)
  /\ initialized' = (initialized \/ ~ Useless(lines, event.first, event.new))
  /\ event' = None
  /\ UNCHANGED <<nvimVars, toNvim, wire, total, autocmd_mutex, threadVars, halted>>

(* handle_line_event, on the event loop's own thread, under lock.total.    *)
HandleLines ==
  /\ event # None
  /\ total = None
  /\ lines' = HandleLineEvent(lines, event.first, event.last, event.new)
  /\ initialized' = (initialized \/ ~ Useless(lines, event.first, event.new))
  /\ event' = None
  /\ UNCHANGED <<nvimVars, toNvim, wire, total, autocmd_mutex, threadVars, halted>>

-----------------------------------------------------------------------------
Init ==
  /\ text \in Buffers
  /\ attached = FALSE
  /\ snapshot = None
  /\ edits = 0
  /\ early = FALSE
  /\ command = [t \in Commands |-> None]
  /\ toNvim = <<>>
  /\ wire = <<>>
  /\ event = None
  /\ lines = <<>>
  /\ initialized = FALSE
  /\ total = None
  /\ autocmd_mutex = None
  /\ pc = [t \in Threads |-> IF t = Main THEN "buf_attach" ELSE "none"]
  /\ call = [t \in Threads |-> "idle"]
  /\ halted = FALSE

ThreadStep(t) == \/ Request(t)
                 \/ Attached(t) \/ LockForLines(t) \/ StoreLines(t)
                 \/ LockForCommand(t) \/ CurrentBuf(t)
                 \/ LockForUpdate(t) \/ UpdateDone(t) \/ EventHalt(t)

LoopStep == ReadReply \/ ReadCommand \/ ReadLines \/ HandleLines

Next == /\ ~ halted
        /\ \/ \E first, last \in 0 .. MaxLines, new \in SeqsUpTo(Strings, MaxNew) :
                Edit(first, last, new)
           \/ \E t \in Commands, what \in {"update", "stop"} : Command(t, what)
           \/ Serve
           \/ \E t \in Threads : ThreadStep(t)
           \/ LoopStep

Spec == Init /\ [][Next]_vars

(* Threads run, neovim answers, nobody has to edit or to give commands.    *)
FairSpec == /\ Spec
            /\ \A t \in Threads : WF_vars(~ halted /\ ThreadStep(t))
            /\ WF_vars(~ halted /\ Serve)
            /\ WF_vars(~ halted /\ LoopStep)

-----------------------------------------------------------------------------
Phases == Calls \cup {"none", "get_initial_lines", "update_highlight", "event_autocmd",
                       "event_halt", "done"}
Messages == [kind : {"lines"}, event : LineEvents] \cup
            [kind : {"reply"}, to : Threads] \cup
            [kind : {"vim"}, command : Commands]

(* Type invariant.                                                         *)
TypeOK ==
  /\ text \in Buffers
  /\ attached \in BOOLEAN
  /\ snapshot \in Buffers \cup {None}
  /\ edits \in 0 .. MaxEdits
  /\ early \in BOOLEAN
  /\ command \in [Commands -> {"update", "stop", None}]
  /\ toNvim \in Seq(Threads)
  /\ wire \in Seq(Messages)
  /\ event \in LineEvents \cup {None}
  /\ lines = Broken \/ lines \in Seq(Strings)
  /\ initialized \in BOOLEAN
  /\ total \in Threads \cup {None}
  /\ autocmd_mutex \in Commands \cup {None}
  /\ pc \in [Threads -> Phases]
  /\ call \in [Threads -> {"idle", "sent", "answered"}]
  /\ halted \in BOOLEAN

(* What get_initial_lines has put or is about to put in bdata->lines.      *)
Stored == pc[Main] \in {"update_highlight", "get_var", "done"}
Copy == IF Stored THEN lines ELSE snapshot

(* The unread line events, by their place in the queue.                    *)
LinesAt == {i \in DOMAIN wire : wire[i].kind = "lines"}
Foremost(i) == i \in LinesAt /\ \A j \in LinesAt : i <= j

(* The initial lines and the line events are messages that different       *)
(* threads apply.  If no edit fell between the attachment and the moment   *)
(* neovim answered nvim_buf_get_lines, then from that moment on the next   *)
(* line event to be handled is about exactly the lines of the copy, and    *)
(* when none is under way the copy is neovim's text.                       *)
InSync ==
  snapshot # None /\ ~ early =>
    /\ event # None => Copy = event.before
    /\ event = None => \A i \in DOMAIN wire : Foremost(i) => Copy = wire[i].event.before
    /\ event = None /\ LinesAt = {} => Copy = text

(* The event loop waits for lock.total, and the thread that has it waits   *)
(* for a reply only the event loop can read.                               *)
Wedged == event # None /\ total # None /\ call[total] = "sent"

(* That circle is never broken: no command of the user's, no answer of     *)
(* neovim's, no other thread can undo it.                                  *)
WedgedForever == [][Wedged => Wedged']_vars

(* And it is the only way to hang: without it every thread that has been   *)
(* started ends, whatever holds lock.total or autocmd_mutex meanwhile, and *)
(* a stop command stops the program.                                       *)
NoOtherHang ==
  []~ Wedged =>
    /\ \A t \in Threads : (pc[t] # "none") ~> (pc[t] = "done" \/ halted)
    /\ \A t \in Commands : (command[t] = "stop") ~> halted

(* "If it hangs, try killing it first with :THLStop": a stop command given *)
(* when the program hangs stops it.                                        *)
StopStops == \A t \in Commands :
  [](Wedged /\ command[t] = None => [](command[t] = "stop" => <>halted))
=============================================================================
