-------------------------- MODULE BufferSyncProofs --------------------------
(* Machine-checked theorems about BufferSync, for buffers, events and      *)
(* queues of any size and any number of edits and commands.                *)
EXTENDS BufferSync, LineEditsProofs

(* lock.total is held exactly from one of these points to the next.        *)
LockInv == \A t \in Threads : total = t <=> pc[t] \in {"get_lines", "get_var"}

(* A request or its reply is in one place, as long as its thread waits.    *)
RepliesTracked ==
  /\ \A t \in Threads : call[t] # "idle" => pc[t] \in Calls
  /\ \A k \in DOMAIN toNvim :
       /\ call[toNvim[k]] = "sent"
       /\ \A l \in DOMAIN toNvim : toNvim[k] = toNvim[l] => k = l
  /\ \A i \in DOMAIN wire : wire[i].kind = "reply" =>
       /\ call[wire[i].to] = "sent"
       /\ \A j \in DOMAIN wire : wire[j].kind = "reply" /\ wire[j].to = wire[i].to => i = j
       /\ \A k \in DOMAIN toNvim : toNvim[k] # wire[i].to

(* A command's thread starts when its only message is read.                *)
CommandsTracked ==
  /\ \A t \in Commands : command[t] = None => pc[t] = "none"
  /\ \A i \in DOMAIN wire : wire[i].kind = "vim" =>
       /\ pc[wire[i].command] = "none"
       /\ command[wire[i].command] # None
       /\ \A j \in DOMAIN wire : wire[j].kind = "vim" /\ wire[j].command = wire[i].command => i = j

(* Neovim has executed the call that t makes, or t makes none.             *)
Served(t) == call[t] = "answered" \/ \E i \in DOMAIN wire : wire[i].kind = "reply" /\ wire[i].to = t

(* Only neovim_init attaches and takes the initial lines, in this order.   *)
Opening == {"buf_attach", "get_initial_lines", "get_lines"}
Attachment ==
  /\ pc[Main] \in Opening \cup {"update_highlight", "get_var", "done"}
  /\ \A t \in Commands : pc[t] \notin Opening
  /\ attached <=> pc[Main] # "buf_attach" \/ Served(Main)
  /\ snapshot # None <=> pc[Main] \notin Opening \/ (pc[Main] = "get_lines" /\ Served(Main))

(* Without early edits there is nothing to apply until the lines are       *)
(* stored.                                                                 *)
Quiet ==
  /\ ~ attached => LinesAt = {} /\ event = None
  /\ ~ early /\ snapshot = None => LinesAt = {} /\ event = None
  /\ ~ early /\ pc[Main] \in Opening => lines = <<>>

(* What an event makes of the text it is about.                            *)
After(ev) == Splice(ev.before, ev.first, ev.last, ev.new)

Sensible(ev) == /\ ev.first <= ev.last
                /\ ev.last <= Len(ev.before)
                /\ ~ Overlooked(ev.before, ev.first, ev.last, ev.new)

Hindmost(i) == i \in LinesAt /\ \A j \in LinesAt : j <= i
Consecutive(i, j) == i \in LinesAt /\ j \in LinesAt /\ i < j
                     /\ \A k \in LinesAt : ~ (i < k /\ k < j)

(* The events under way lead from one text to the next up to neovim's own. *)
Chain ==
  /\ \A i \in LinesAt : Sensible(wire[i].event)
  /\ \A i, j \in DOMAIN wire : Consecutive(i, j) => wire[j].event.before = After(wire[i].event)
  /\ \A i \in DOMAIN wire : Hindmost(i) => After(wire[i].event) = text
  /\ event # None =>
       /\ Sensible(event)
       /\ \A i \in DOMAIN wire : Foremost(i) => wire[i].event.before = After(event)
       /\ LinesAt = {} => After(event) = text

IInv == /\ TypeOK /\ LockInv /\ RepliesTracked /\ CommandsTracked
        /\ Attachment /\ Quiet /\ Chain /\ InSync

-----------------------------------------------------------------------------
(* Queues, by position.                                                    *)
LEMMA AppendFacts ==
  ASSUME NEW S, NEW q \in Seq(S), NEW m \in S
  PROVE  /\ Append(q, m) \in Seq(S) /\ Len(q) \in Nat
         /\ DOMAIN q = 1 .. Len(q) /\ DOMAIN Append(q, m) = 1 .. Len(q) + 1
         /\ \A i \in 1 .. Len(q) : Append(q, m)[i] = q[i]
         /\ Append(q, m)[Len(q) + 1] = m
OBVIOUS

LEMMA TailFacts ==
  ASSUME NEW S, NEW q \in Seq(S), q # <<>>
  PROVE  /\ Tail(q) \in Seq(S) /\ Len(q) \in Nat \ {0}
         /\ DOMAIN q = 1 .. Len(q) /\ DOMAIN Tail(q) = 1 .. Len(q) - 1
         /\ \A i \in 1 .. Len(q) - 1 : Tail(q)[i] = q[i + 1]
         /\ Head(q) = q[1] /\ q[1] \in S
OBVIOUS

LEMMA BufferFacts ==
  ASSUME NEW s
  PROVE  s \in Buffers <=> s \in Seq(Strings) /\ Len(s) <= MaxLines /\ s # <<>>
BY SeqsUpToFacts, SyncAssumption DEF Buffers

(* What a message holds.                                                   *)
LEMMA MessageFacts ==
  ASSUME NEW m \in Messages
  PROVE  /\ m.kind \in {"lines", "reply", "vim"}
         /\ m.kind = "lines" => m.event \in LineEvents
         /\ m.kind = "reply" => m.to \in Threads
         /\ m.kind = "vim" => m.command \in Commands
BY DEF Messages

LEMMA EventFacts ==
  ASSUME NEW ev \in LineEvents
  PROVE  /\ ev.first \in Nat /\ ev.last \in Nat /\ ev.new \in Seq(Strings)
         /\ ev.before \in Buffers /\ ev.before \in Seq(Strings) /\ ev.before # <<>>
BY SeqsUpToFacts, BufferFacts, SyncAssumption DEF LineEvents

-----------------------------------------------------------------------------
LEMMA InitIInv == Init => IInv
<1> SUFFICES ASSUME Init PROVE IInv
  OBVIOUS
<1>1. Main \in Threads /\ Main \notin Commands /\ Commands \subseteq Threads
  BY SyncAssumption DEF Threads, Main, Commands
<1>2. TypeOK
  <2>1. toNvim \in Seq(Threads) /\ wire \in Seq(Messages) /\ lines \in Seq(Strings)
    BY DEF Init
  <2>2. pc \in [Threads -> Phases]
    BY DEF Init, Calls, Phases
  <2>3. /\ edits \in 0 .. MaxEdits
        /\ command \in [Commands -> {"update", "stop", None}]
        /\ call \in [Threads -> {"idle", "sent", "answered"}]
    BY SyncAssumption DEF Init
  <2>4. /\ text \in Buffers /\ snapshot = None /\ event = None
        /\ total = None /\ autocmd_mutex = None
        /\ attached = FALSE /\ early = FALSE /\ initialized = FALSE /\ halted = FALSE
    BY DEF Init
  <2>5. QED
    BY <2>1, <2>2, <2>3, <2>4 DEF TypeOK
<1>3. LockInv
  BY SyncAssumption DEF Init, LockInv
<1>4. RepliesTracked /\ CommandsTracked
  BY <1>1 DEF Init, RepliesTracked, CommandsTracked
<1>5. LinesAt = {} /\ \A i \in DOMAIN wire : FALSE
  BY DEF Init, LinesAt
<1>6. Attachment
  BY <1>1, <1>5 DEF Init, Attachment, Served, Opening
<1>7. Quiet
  BY <1>5 DEF Init, Quiet
<1>8. Chain
  BY <1>5 DEF Init, Chain
<1>9. InSync
  BY DEF Init, InSync
<1>10. QED
  BY <1>2, <1>3, <1>4, <1>6, <1>7, <1>8, <1>9 DEF IInv

-----------------------------------------------------------------------------
(* Type correctness.                                                       *)
LEMMA GotoType ==
  ASSUME TypeOK, NEW t \in Threads, NEW phase \in Phases, Goto(t, phase)
  PROVE  /\ pc' \in [Threads -> Phases]
         /\ call' \in [Threads -> {"idle", "sent", "answered"}]
BY DEF TypeOK, Goto

LEMMA ThreadIds == Main \in Threads /\ Main \notin Commands /\ Commands \subseteq Threads
BY SyncAssumption DEF Threads, Main, Commands

LEMMA NewText ==
  ASSUME NEW s \in Buffers, NEW first \in 0 .. MaxLines, NEW last \in 0 .. MaxLines,
         NEW new \in SeqsUpTo(Strings, MaxNew), first <= last, last <= Len(s),
         Len(Splice(s, first, last, new)) <= MaxLines
  PROVE  Splice(s, first, last, new) \in Buffers
<1>1. /\ s \in Seq(Strings) /\ new \in Seq(Strings)
      /\ first \in Nat /\ last \in Nat /\ Blank \in Strings
  BY BufferFacts, SeqsUpToFacts, SyncAssumption DEF Strings
<1>2. Splice(s, first, last, new) \in Seq(Strings) /\ Splice(s, first, last, new) # <<>>
  BY <1>1, SpliceType
<1>3. QED
  BY <1>2, BufferFacts

LEMMA NvimType ==
  ASSUME TypeOK
  PROVE  /\ \A first, last \in 0 .. MaxLines, new \in SeqsUpTo(Strings, MaxNew) :
              Edit(first, last, new) => TypeOK'
         /\ \A t \in Commands, what \in {"update", "stop"} : Command(t, what) => TypeOK'
         /\ Serve => TypeOK'
<1>1. /\ text \in Buffers /\ wire \in Seq(Messages) /\ toNvim \in Seq(Threads)
      /\ attached \in BOOLEAN /\ early \in BOOLEAN /\ edits \in 0 .. MaxEdits
      /\ snapshot \in Buffers \cup {None}
      /\ command \in [Commands -> {"update", "stop", None}]
  BY DEF TypeOK
<1>2. ASSUME NEW first \in 0 .. MaxLines, NEW last \in 0 .. MaxLines,
             NEW new \in SeqsUpTo(Strings, MaxNew), Edit(first, last, new)
      PROVE  TypeOK'
  <2> DEFINE ev == [first |-> first, last |-> last, new |-> new, before |-> text]
  <2>1. text' \in Buffers
    BY <1>1, <1>2, NewText DEF Edit
  <2>2. LinesMsg(ev) \in Messages
    BY <1>1 DEF LinesMsg, Messages, LineEvents
  <2>3. wire' \in Seq(Messages)
    <3>1. CASE attached
      <4>1. wire' = Append(wire, LinesMsg(ev))
        BY <1>2, <3>1 DEF Edit
      <4>2. QED
        BY <1>1, <2>2, <4>1, AppendFacts
    <3>2. CASE ~ attached
      BY <1>1, <1>2, <3>2 DEF Edit
    <3>3. QED
      BY <3>1, <3>2
  <2>4. edits' \in 0 .. MaxEdits /\ early' \in BOOLEAN
    BY <1>1, <1>2, SyncAssumption DEF Edit
  <2>5. QED
    BY <1>2, <2>1, <2>3, <2>4 DEF Edit, TypeOK, copyVars, threadVars
<1>3. ASSUME NEW t \in Commands, NEW what \in {"update", "stop"}, Command(t, what)
      PROVE  TypeOK'
  <2>1. VimMsg(t) \in Messages
    BY DEF VimMsg, Messages
  <2>2. wire' \in Seq(Messages)
    BY <1>1, <1>3, <2>1, AppendFacts DEF Command
  <2>3. command' \in [Commands -> {"update", "stop", None}]
    BY <1>1, <1>3 DEF Command
  <2>4. QED
    BY <1>3, <2>2, <2>3 DEF Command, TypeOK, copyVars, threadVars
<1>4. ASSUME Serve PROVE TypeOK'
  <2>1. toNvim # <<>> /\ Head(toNvim) \in Threads /\ toNvim' \in Seq(Threads)
    BY <1>1, <1>4, TailFacts DEF Serve
  <2>2. ReplyMsg(Head(toNvim)) \in Messages
    BY <2>1 DEF ReplyMsg, Messages
  <2>3. wire' \in Seq(Messages)
    BY <1>1, <1>4, <2>2, AppendFacts DEF Serve
  <2>4. attached' \in BOOLEAN /\ snapshot' \in Buffers \cup {None}
    BY <1>1, <1>4 DEF Serve
  <2>5. QED
    BY <1>4, <2>1, <2>3, <2>4 DEF Serve, TypeOK, copyVars, threadVars
<1>5. QED
  BY <1>2, <1>3, <1>4

LEMMA LoopType ==
  ASSUME TypeOK, Chain, LoopStep
  PROVE  TypeOK'
<1>1. /\ wire \in Seq(Messages) /\ event \in LineEvents \cup {None}
      /\ lines \in Seq(Strings) \cup {Broken} /\ initialized \in BOOLEAN
      /\ call \in [Threads -> {"idle", "sent", "answered"}]
  BY DEF TypeOK
<1>2. ASSUME wire # <<>> PROVE Head(wire) \in Messages /\ Tail(wire) \in Seq(Messages)
  BY <1>1, <1>2, TailFacts
<1>3. CASE ReadReply
  <2>1. wire' \in Seq(Messages) /\ Head(wire).to \in Threads
    BY <1>2, <1>3, MessageFacts DEF ReadReply
  <2>2. call' \in [Threads -> {"idle", "sent", "answered"}]
    BY <1>1, <1>3, <2>1 DEF ReadReply
  <2>3. QED
    BY <1>3, <2>1, <2>2 DEF ReadReply, TypeOK, nvimVars, copyVars
<1>4. CASE ReadCommand
  <2>1. wire' \in Seq(Messages) /\ Head(wire).command \in Threads
    BY <1>2, <1>4, MessageFacts, ThreadIds DEF ReadCommand
  <2>2. Goto(Head(wire).command, "event_autocmd") /\ "event_autocmd" \in Phases
    BY <1>4 DEF ReadCommand, Phases
  <2>3. /\ pc' \in [Threads -> Phases]
        /\ call' \in [Threads -> {"idle", "sent", "answered"}]
    BY <2>1, <2>2, GotoType
  <2>4. QED
    BY <1>4, <2>1, <2>3 DEF ReadCommand, TypeOK, nvimVars, copyVars
<1>5. CASE ReadLines
  <2>1. wire' \in Seq(Messages) /\ event' \in LineEvents
    BY <1>2, <1>5, MessageFacts DEF ReadLines
  <2>2. QED
    BY <1>5, <2>1 DEF ReadLines, TypeOK, nvimVars, copyVars, threadVars
<1>6. CASE HandleLines
  <2>1. event \in LineEvents /\ Sensible(event)
    BY <1>1, <1>6 DEF HandleLines, Chain
  <2>2. /\ event.first \in Nat /\ event.last \in Nat /\ event.new \in Seq(Strings)
        /\ event.first <= event.last
    BY <2>1, EventFacts DEF Sensible
  <2>3. Blank \in Strings /\ Broken \notin Seq(Strings)
    BY SyncAssumption DEF Strings
  <2>4. HandleLineEvent(lines, event.first, event.last, event.new) \in Seq(Strings) \cup {Broken}
    BY <1>1, <2>2, <2>3, HandleType
  <2>5. lines' \in Seq(Strings) \cup {Broken} /\ initialized' \in BOOLEAN
    BY <1>1, <1>6, <2>4 DEF HandleLines
  <2>6. QED
    BY <1>6, <2>5 DEF HandleLines, TypeOK, nvimVars, threadVars
<1>7. QED
  BY <1>3, <1>4, <1>5, <1>6 DEF LoopStep

(* get_initial_lines stores a list of lines, or one that is broken.        *)
LEMMA PopulatedType ==
  ASSUME TypeOK, snapshot # None
  PROVE  Populated(lines) \in Seq(Strings) \cup {Broken}
<1>1. snapshot \in Seq(Strings) /\ lines \in Seq(Strings) \cup {Broken}
  BY BufferFacts DEF TypeOK
<1>2. CASE lines = Broken
  BY <1>2 DEF Populated
<1>3. CASE lines \in Seq(Strings) /\ Len(lines) <= 1
  BY <1>1, <1>3 DEF Populated
<1>4. CASE lines \in Seq(Strings) /\ ~ (Len(lines) <= 1)
  <2>1. 1 \in 0 .. Len(lines)
    BY <1>4
  <2>2. LlInsertAfter(lines, 1, snapshot) \in Seq(Strings) \cup {Broken}
    BY <1>1, <1>4, <2>1, InsertType
  <2>3. QED
    BY <1>1, <1>4, <2>2 DEF Populated
<1>5. QED
  BY <1>1, <1>2, <1>3, <1>4

LEMMA ThreadType ==
  ASSUME TypeOK, Attachment, NEW t \in Threads, ThreadStep(t)
  PROVE  TypeOK'
<1>1. /\ toNvim \in Seq(Threads) /\ call \in [Threads -> {"idle", "sent", "answered"}]
      /\ total \in Threads \cup {None} /\ autocmd_mutex \in Commands \cup {None}
      /\ pc \in [Threads -> Phases]
  BY DEF TypeOK
<1>2. Calls \subseteq Phases /\ {"none", "get_initial_lines", "update_highlight",
                                 "event_autocmd", "event_halt", "done"} \subseteq Phases
  BY DEF Phases
<1>3. CASE Request(t)
  <2>1. toNvim' \in Seq(Threads)
    BY <1>1, <1>3, AppendFacts DEF Request
  <2>2. call' \in [Threads -> {"idle", "sent", "answered"}]
    BY <1>1, <1>3 DEF Request
  <2>3. QED
    BY <1>3, <2>1, <2>2 DEF Request, TypeOK, nvimVars, copyVars
<1>4. ASSUME NEW phase \in Phases, Goto(t, phase),
             total' \in Threads \cup {None}, autocmd_mutex' \in Commands \cup {None},
             lines' \in Seq(Strings) \cup {Broken}, initialized' \in BOOLEAN, halted' \in BOOLEAN,
             UNCHANGED <<nvimVars, toNvim, wire, event>>
      PROVE  TypeOK'
  <2>1. /\ pc' \in [Threads -> Phases]
        /\ call' \in [Threads -> {"idle", "sent", "answered"}]
    BY <1>4, GotoType
  <2>2. QED
    BY <1>4, <2>1 DEF TypeOK, nvimVars
<1>5. CASE Attached(t) \/ CurrentBuf(t) \/ LockForLines(t) \/ LockForUpdate(t) \/ EventHalt(t)
  <2>1. PICK phase \in Phases : Goto(t, phase)
    BY <1>2, <1>5 DEF Attached, CurrentBuf, LockForLines, LockForUpdate, EventHalt, Calls
  <2>2. /\ total' \in Threads \cup {None} /\ autocmd_mutex' \in Commands \cup {None}
        /\ lines' \in Seq(Strings) \cup {Broken} /\ initialized' \in BOOLEAN
        /\ halted' \in BOOLEAN /\ UNCHANGED <<nvimVars, toNvim, wire, event>>
    BY <1>5 DEF Attached, CurrentBuf, LockForLines, LockForUpdate, EventHalt, TypeOK, copyVars
  <2>3. QED
    BY <1>4, <2>1, <2>2
<1>6. CASE StoreLines(t)
  <2>1. t = Main /\ snapshot # None
    BY <1>6 DEF StoreLines, Attachment, Opening, Served, Threads
  <2>2. lines' \in Seq(Strings) \cup {Broken}
    BY <1>6, <2>1, PopulatedType DEF StoreLines
  <2>3. QED
    BY <1>2, <1>4, <1>6, <2>2 DEF StoreLines, TypeOK
<1>7. CASE UpdateDone(t)
  <2>1. PICK phase \in Phases : Goto(t, phase)
    BY <1>2, <1>7 DEF UpdateDone
  <2>2. QED
    BY <1>1, <1>4, <1>7, <2>1 DEF UpdateDone, TypeOK, copyVars
<1>8. CASE LockForCommand(t)
  <2>1. t \in Commands
    BY <1>8 DEF LockForCommand, Attachment, Opening, Threads
  <2>2. "get_current_buf" \in Phases
    BY <1>2 DEF Calls
  <2>3. QED
    BY <1>1, <1>4, <1>8, <2>1, <2>2 DEF LockForCommand, TypeOK, copyVars
<1>9. QED
  BY <1>3, <1>5, <1>6, <1>7, <1>8 DEF ThreadStep

LEMMA TypeStep == IInv /\ Next => TypeOK'
BY NvimType, LoopType, ThreadType DEF IInv, Next

-----------------------------------------------------------------------------
(* Steps of threads, as far as phases and calls go.                        *)
LEMMA Went ==
  ASSUME TypeOK, NEW t \in Threads, NEW phase, Goto(t, phase)
  PROVE  /\ pc'[t] = phase /\ call'[t] = "idle"
         /\ \A u \in Threads \ {t} : pc'[u] = pc[u] /\ call'[u] = call[u]
BY DEF TypeOK, Goto

(* The message the event loop is about to read.                            *)
LEMMA Reading ==
  ASSUME TypeOK, wire # <<>>
  PROVE  /\ 1 \in DOMAIN wire /\ Head(wire) = wire[1] /\ wire[1] \in Messages
         /\ Head(wire).kind = "vim" => wire[1].command \in Commands
         /\ Head(wire).kind = "reply" => wire[1].to \in Threads
         /\ Head(wire).kind = "lines" => wire[1].event \in LineEvents
<1>1. wire \in Seq(Messages)
  BY DEF TypeOK
<1>2. 1 \in DOMAIN wire /\ Head(wire) = wire[1] /\ wire[1] \in Messages
  BY <1>1, TailFacts
<1>3. QED
  BY <1>2, MessageFacts

LEMMA LockStep == IInv /\ Next => LockInv'
<1> SUFFICES ASSUME IInv, Next PROVE LockInv'
  OBVIOUS
<1>1. TypeOK /\ LockInv /\ CommandsTracked /\ total \in Threads \cup {None} /\ None \notin Threads
  BY SyncAssumption DEF IInv, TypeOK
<1>2. ASSUME UNCHANGED <<total, pc>> PROVE LockInv'
  BY <1>1, <1>2 DEF LockInv
<1>3. ASSUME NEW t \in Threads, NEW phase, Goto(t, phase),
             \/ /\ pc[t] \notin {"get_lines", "get_var"} /\ phase \notin {"get_lines", "get_var"}
                /\ total' = total
             \/ /\ total = None /\ total' = t /\ phase \in {"get_lines", "get_var"}
             \/ /\ pc[t] \in {"get_lines", "get_var"} /\ phase \notin {"get_lines", "get_var"}
                /\ total' = None
      PROVE  LockInv'
  <2>1. /\ pc'[t] = phase /\ \A u \in Threads \ {t} : pc'[u] = pc[u]
    BY <1>1, <1>3, Went
  <2>2. \A u \in Threads : total = u <=> pc[u] \in {"get_lines", "get_var"}
    BY <1>1 DEF LockInv
  <2>3. QED
    BY <1>1, <1>3, <2>1, <2>2 DEF LockInv
<1>4. ASSUME NEW first, NEW last, NEW new, Edit(first, last, new) PROVE LockInv'
  BY <1>2, <1>4 DEF Edit, threadVars
<1>5. ASSUME NEW t, NEW what, Command(t, what) PROVE LockInv'
  BY <1>2, <1>5 DEF Command, threadVars
<1>6. CASE Serve
  BY <1>2, <1>6 DEF Serve, threadVars
<1>7. CASE ReadReply \/ ReadLines \/ HandleLines
  BY <1>2, <1>7 DEF ReadReply, ReadLines, HandleLines, threadVars
<1>8. CASE ReadCommand
  <2>1. /\ wire[1].command \in Commands /\ pc[wire[1].command] = "none"
        /\ Goto(wire[1].command, "event_autocmd")
    BY <1>1, <1>8, Reading DEF ReadCommand, CommandsTracked
  <2>2. wire[1].command \in Threads /\ total' = total
    BY <1>8, <2>1, ThreadIds DEF ReadCommand
  <2>3. QED
    BY <1>3, <2>1, <2>2
<1>9. ASSUME NEW t \in Threads, ThreadStep(t) PROVE LockInv'
  <2>1. CASE Request(t)
    BY <1>2, <2>1 DEF Request
  <2>2. CASE Attached(t) \/ CurrentBuf(t) \/ EventHalt(t) \/ LockForCommand(t)
    <3>1. PICK phase : Goto(t, phase) /\ phase \notin {"get_lines", "get_var"}
      BY <2>2 DEF Attached, CurrentBuf, EventHalt, LockForCommand
    <3>2. pc[t] \notin {"get_lines", "get_var"} /\ total' = total
      BY <2>2 DEF Attached, CurrentBuf, EventHalt, LockForCommand
    <3>3. QED
      BY <1>3, <3>1, <3>2
  <2>3. CASE LockForLines(t) \/ LockForUpdate(t)
    <3>1. PICK phase \in {"get_lines", "get_var"} : Goto(t, phase)
      BY <2>3 DEF LockForLines, LockForUpdate
    <3>2. QED
      BY <1>3, <2>3, <3>1 DEF LockForLines, LockForUpdate
  <2>4. CASE StoreLines(t) \/ UpdateDone(t)
    <3>1. PICK phase : Goto(t, phase) /\ phase \notin {"get_lines", "get_var"}
      BY <2>4 DEF StoreLines, UpdateDone
    <3>2. pc[t] \in {"get_lines", "get_var"} /\ total' = None
      BY <2>4 DEF StoreLines, UpdateDone
    <3>3. QED
      BY <1>3, <3>1, <3>2
  <2>5. QED
    BY <1>9, <2>1, <2>2, <2>3, <2>4 DEF ThreadStep
<1>10. QED
  BY <1>4, <1>5, <1>6, <1>7, <1>8, <1>9 DEF Next, LoopStep

-----------------------------------------------------------------------------
(* Requests and replies.                                                   *)

(* A message that is not a reply changes nothing about them.               *)
LEMMA OtherAppended ==
  ASSUME TypeOK, RepliesTracked, NEW m \in Messages, m.kind # "reply", wire' = Append(wire, m),
         UNCHANGED <<toNvim, call, pc>>
  PROVE  RepliesTracked'
<1>1. /\ DOMAIN wire = 1 .. Len(wire) /\ DOMAIN wire' = 1 .. Len(wire) + 1 /\ Len(wire) \in Nat
      /\ \A i \in DOMAIN wire : wire'[i] = wire[i]
      /\ wire'[Len(wire) + 1] = m
  BY AppendFacts DEF TypeOK
<1>2. \A i \in DOMAIN wire' : wire'[i].kind = "reply" => i \in DOMAIN wire /\ wire'[i] = wire[i]
  BY <1>1
<1>3. QED
  BY <1>2 DEF RepliesTracked

LEMMA OtherRead ==
  ASSUME TypeOK, RepliesTracked, wire # <<>>, wire' = Tail(wire), UNCHANGED toNvim,
         \A t \in Threads : call[t] = "sent" => call'[t] = "sent",
         \A t \in Threads : call'[t] # "idle" => pc'[t] \in Calls
  PROVE  RepliesTracked'
<1>1. /\ DOMAIN wire = 1 .. Len(wire) /\ DOMAIN wire' = 1 .. Len(wire) - 1 /\ Len(wire) \in Nat
      /\ \A i \in DOMAIN wire' : wire'[i] = wire[i + 1] /\ i + 1 \in DOMAIN wire
  BY TailFacts DEF TypeOK
<1>2. \A k \in DOMAIN toNvim : toNvim[k] \in Threads
  BY DEF TypeOK
<1>3. \A i \in DOMAIN wire' : wire'[i].kind = "reply" => wire'[i].to \in Threads
  <2>1. \A i \in DOMAIN wire : wire[i] \in Messages
    BY DEF TypeOK
  <2>2. QED
    BY <1>1, <2>1, MessageFacts
<1>4. \A k \in DOMAIN toNvim' :
        /\ call'[toNvim'[k]] = "sent"
        /\ \A l \in DOMAIN toNvim' : toNvim'[k] = toNvim'[l] => k = l
  BY <1>2 DEF RepliesTracked
<1>5. ASSUME NEW i \in DOMAIN wire', wire'[i].kind = "reply"
      PROVE  /\ call'[wire'[i].to] = "sent"
             /\ \A j \in DOMAIN wire' : wire'[j].kind = "reply" /\ wire'[j].to = wire'[i].to => i = j
             /\ \A k \in DOMAIN toNvim' : toNvim'[k] # wire'[i].to
  <2>1. i + 1 \in DOMAIN wire /\ wire'[i] = wire[i + 1]
    BY <1>1
  <2>2. call[wire[i + 1].to] = "sent" /\ wire[i + 1].to \in Threads
    BY <1>3, <1>5, <2>1 DEF RepliesTracked
  <2>3. ASSUME NEW j \in DOMAIN wire', wire'[j].kind = "reply", wire'[j].to = wire'[i].to
        PROVE  i = j
    <3>1. j + 1 \in DOMAIN wire /\ wire'[j] = wire[j + 1]
      BY <1>1
    <3>2. i + 1 = j + 1
      BY <1>5, <2>1, <2>3, <3>1 DEF RepliesTracked
    <3>3. QED
      BY <1>1, <3>2
  <2>4. QED
    BY <1>5, <2>1, <2>2, <2>3 DEF RepliesTracked
<1>6. QED
  BY <1>4, <1>5 DEF RepliesTracked

(* A thread goes on that waits for nothing.                                *)
LEMMA OtherGoes ==
  ASSUME TypeOK, RepliesTracked, NEW t \in Threads, NEW phase, Goto(t, phase),
         call[t] # "sent", UNCHANGED <<toNvim, wire>>
  PROVE  RepliesTracked'
<1>1. /\ call'[t] = "idle"
      /\ \A u \in Threads \ {t} : pc'[u] = pc[u] /\ call'[u] = call[u]
  BY Went
<1>2. \A k \in DOMAIN toNvim : toNvim[k] \in Threads /\ toNvim[k] # t
  BY DEF TypeOK, RepliesTracked
<1>3. \A i \in DOMAIN wire : wire[i].kind = "reply" => wire[i].to \in Threads /\ wire[i].to # t
  <2>1. \A i \in DOMAIN wire : wire[i] \in Messages
    BY DEF TypeOK
  <2>2. QED
    BY <2>1, MessageFacts DEF RepliesTracked
<1>4. QED
  BY <1>1, <1>2, <1>3 DEF RepliesTracked

LEMMA RequestTracked ==
  ASSUME TypeOK, RepliesTracked, NEW t \in Threads, Request(t)
  PROVE  RepliesTracked'
<1>1. /\ DOMAIN toNvim = 1 .. Len(toNvim) /\ DOMAIN toNvim' = 1 .. Len(toNvim) + 1
      /\ Len(toNvim) \in Nat
      /\ \A k \in DOMAIN toNvim : toNvim'[k] = toNvim[k] /\ toNvim[k] \in Threads
      /\ toNvim'[Len(toNvim) + 1] = t
  BY AppendFacts DEF TypeOK, Request
<1>2. /\ call[t] = "idle" /\ call'[t] = "sent" /\ pc[t] \in Calls /\ pc' = pc /\ wire' = wire
      /\ \A u \in Threads \ {t} : call'[u] = call[u]
  BY DEF TypeOK, Request
<1>3. \A k \in DOMAIN toNvim : toNvim[k] # t
  BY <1>2 DEF RepliesTracked
<1>4. \A i \in DOMAIN wire : wire[i].kind = "reply" => wire[i].to \in Threads /\ wire[i].to # t
  <2>1. \A i \in DOMAIN wire : wire[i] \in Messages
    BY DEF TypeOK
  <2>2. QED
    BY <1>2, <2>1, MessageFacts DEF RepliesTracked
<1>5. \A u \in Threads : call'[u] # "idle" => pc'[u] \in Calls
  BY <1>2 DEF RepliesTracked
<1>6. \A k \in DOMAIN toNvim' :
        /\ call'[toNvim'[k]] = "sent"
        /\ \A l \in DOMAIN toNvim' : toNvim'[k] = toNvim'[l] => k = l
  BY <1>1, <1>2, <1>3 DEF RepliesTracked
<1>7. \A i \in DOMAIN wire' : wire'[i].kind = "reply" =>
        /\ call'[wire'[i].to] = "sent"
        /\ \A j \in DOMAIN wire' : wire'[j].kind = "reply" /\ wire'[j].to = wire'[i].to => i = j
        /\ \A k \in DOMAIN toNvim' : toNvim'[k] # wire'[i].to
  BY <1>1, <1>2, <1>4 DEF RepliesTracked
<1>8. QED
  BY <1>5, <1>6, <1>7 DEF RepliesTracked

LEMMA ServeTracked ==
  ASSUME TypeOK, RepliesTracked, Serve
  PROVE  RepliesTracked'
<1> DEFINE h == Head(toNvim)
<1>1. /\ DOMAIN toNvim = 1 .. Len(toNvim) /\ DOMAIN toNvim' = 1 .. Len(toNvim) - 1
      /\ Len(toNvim) \in Nat \ {0}
      /\ \A k \in DOMAIN toNvim' : toNvim'[k] = toNvim[k + 1] /\ k + 1 \in DOMAIN toNvim
      /\ h = toNvim[1] /\ h \in Threads
  BY TailFacts DEF TypeOK, Serve
<1>2. ReplyMsg(h) \in Messages /\ ReplyMsg(h).kind = "reply" /\ ReplyMsg(h).to = h
  BY <1>1 DEF ReplyMsg, Messages
<1>3. /\ DOMAIN wire = 1 .. Len(wire) /\ DOMAIN wire' = 1 .. Len(wire) + 1 /\ Len(wire) \in Nat
      /\ \A i \in DOMAIN wire : wire'[i] = wire[i]
      /\ wire'[Len(wire) + 1] = ReplyMsg(h)
  BY <1>2, AppendFacts DEF TypeOK, Serve
<1>4. call' = call /\ pc' = pc
  BY DEF Serve, threadVars
<1> HIDE DEF h
<1>5. /\ 1 \in DOMAIN toNvim /\ call[h] = "sent"
      /\ \A k \in DOMAIN toNvim' : toNvim'[k] # h
      /\ \A i \in DOMAIN wire : wire[i].kind = "reply" => wire[i].to # h
  BY <1>1 DEF RepliesTracked
<1>6. \A k \in DOMAIN toNvim' :
        /\ call'[toNvim'[k]] = "sent"
        /\ \A l \in DOMAIN toNvim' : toNvim'[k] = toNvim'[l] => k = l
  <2>1. \A k \in DOMAIN toNvim' : call'[toNvim'[k]] = "sent"
    BY <1>1, <1>4 DEF RepliesTracked
  <2>2. ASSUME NEW k \in DOMAIN toNvim', NEW l \in DOMAIN toNvim', toNvim'[k] = toNvim'[l]
        PROVE  k = l
    <3>1. k + 1 \in DOMAIN toNvim /\ l + 1 \in DOMAIN toNvim /\ toNvim[k + 1] = toNvim[l + 1]
      BY <1>1, <2>2
    <3>2. k + 1 = l + 1
      BY <3>1 DEF RepliesTracked
    <3>3. QED
      BY <1>1, <3>2
  <2>3. QED
    BY <2>1, <2>2
<1>7. ASSUME NEW i \in DOMAIN wire', wire'[i].kind = "reply"
      PROVE  /\ call'[wire'[i].to] = "sent"
             /\ \A j \in DOMAIN wire' : wire'[j].kind = "reply" /\ wire'[j].to = wire'[i].to => i = j
             /\ \A k \in DOMAIN toNvim' : toNvim'[k] # wire'[i].to
  <2>1. CASE i = Len(wire) + 1
    BY <1>2, <1>3, <1>4, <1>5, <2>1
  <2>2. CASE i \in DOMAIN wire
    <3>1. /\ call[wire[i].to] = "sent" /\ wire[i].to # h
          /\ \A j \in DOMAIN wire : wire[j].kind = "reply" /\ wire[j].to = wire[i].to => i = j
          /\ \A k \in DOMAIN toNvim : toNvim[k] # wire[i].to
      BY <1>3, <1>5, <1>7, <2>2 DEF RepliesTracked
    <3>2. QED
      BY <1>1, <1>2, <1>3, <1>4, <2>2, <3>1
  <2>3. QED
    BY <1>3, <2>1, <2>2
<1>8. QED
  BY <1>4, <1>6, <1>7 DEF RepliesTracked

LEMMA ReplyReadTracked ==
  ASSUME TypeOK, RepliesTracked, ReadReply
  PROVE  RepliesTracked'
<1> DEFINE h == wire[1].to
<1>1. /\ wire # <<>> /\ 1 \in DOMAIN wire /\ wire[1].kind = "reply" /\ h \in Threads
      /\ call' = [call EXCEPT ![h] = "answered"] /\ pc' = pc /\ toNvim' = toNvim
  BY Reading DEF ReadReply
<1>2. /\ DOMAIN wire = 1 .. Len(wire) /\ DOMAIN wire' = 1 .. Len(wire) - 1 /\ Len(wire) \in Nat
      /\ \A i \in DOMAIN wire' : wire'[i] = wire[i + 1] /\ i + 1 \in DOMAIN wire /\ i + 1 # 1
  BY <1>1, TailFacts DEF TypeOK, ReadReply
<1> HIDE DEF h
<1>3. /\ call'[h] = "answered" /\ \A u \in Threads \ {h} : call'[u] = call[u]
  BY <1>1 DEF TypeOK
<1>4. /\ call[h] = "sent" /\ \A k \in DOMAIN toNvim : toNvim[k] # h /\ toNvim[k] \in Threads
  BY <1>1 DEF RepliesTracked, TypeOK, h
<1>5. \A i \in DOMAIN wire' : wire'[i].kind = "reply" => wire'[i].to \in Threads /\ wire'[i].to # h
  <2>1. \A i \in DOMAIN wire : wire[i] \in Messages
    BY DEF TypeOK
  <2>2. QED
    BY <1>1, <1>2, <2>1, MessageFacts DEF RepliesTracked, h
<1>6. \A u \in Threads : call'[u] # "idle" => pc'[u] \in Calls
  BY <1>1, <1>3, <1>4 DEF RepliesTracked
<1>7. ASSUME NEW i \in DOMAIN wire', wire'[i].kind = "reply"
      PROVE  /\ call'[wire'[i].to] = "sent"
             /\ \A j \in DOMAIN wire' : wire'[j].kind = "reply" /\ wire'[j].to = wire'[i].to => i = j
             /\ \A k \in DOMAIN toNvim' : toNvim'[k] # wire'[i].to
  <2>1. i + 1 \in DOMAIN wire /\ wire'[i] = wire[i + 1]
    BY <1>2
  <2>2. ASSUME NEW j \in DOMAIN wire', wire'[j].kind = "reply", wire'[j].to = wire'[i].to
        PROVE  i = j
    <3>1. j + 1 \in DOMAIN wire /\ wire'[j] = wire[j + 1]
      BY <1>2
    <3>2. i + 1 = j + 1
      BY <1>7, <2>1, <2>2, <3>1 DEF RepliesTracked
    <3>3. QED
      BY <1>2, <3>2
  <2>3. QED
    BY <1>1, <1>3, <1>5, <1>7, <2>1, <2>2 DEF RepliesTracked
<1>8. \A k \in DOMAIN toNvim' :
        /\ call'[toNvim'[k]] = "sent"
        /\ \A l \in DOMAIN toNvim' : toNvim'[k] = toNvim'[l] => k = l
  BY <1>1, <1>3, <1>4 DEF RepliesTracked
<1>9. QED
  BY <1>6, <1>7, <1>8 DEF RepliesTracked

(* A thread that goes on either makes no call or has its answer.           *)
LEMMA GoesOn ==
  ASSUME IInv, NEW t \in Threads, ThreadStep(t), ~ Request(t)
  PROVE  /\ \E phase : Goto(t, phase)
         /\ call[t] # "sent"
         /\ UNCHANGED <<nvimVars, toNvim, wire, event>>
<1>1. call[t] = "sent" => pc[t] \in Calls
  BY DEF IInv, RepliesTracked
<1>2. CASE Attached(t) \/ StoreLines(t) \/ UpdateDone(t) \/ CurrentBuf(t)
  BY <1>2 DEF Attached, StoreLines, UpdateDone, CurrentBuf
<1>3. CASE LockForLines(t) \/ LockForUpdate(t) \/ EventHalt(t) \/ LockForCommand(t)
  <2>1. pc[t] \notin Calls
    BY <1>3 DEF LockForLines, LockForUpdate, EventHalt, LockForCommand, Calls
  <2>2. QED
    BY <1>1, <1>3, <2>1 DEF LockForLines, LockForUpdate, EventHalt, LockForCommand
<1>4. QED
  BY <1>2, <1>3 DEF ThreadStep

LEMMA RepliesStep == IInv /\ Next => RepliesTracked'
<1> SUFFICES ASSUME IInv, Next PROVE RepliesTracked'
  OBVIOUS
<1>1. TypeOK /\ RepliesTracked /\ CommandsTracked
  BY DEF IInv
<1>2. ASSUME UNCHANGED <<toNvim, wire, call, pc>> PROVE RepliesTracked'
  BY <1>1, <1>2 DEF RepliesTracked
<1>3. ASSUME NEW first \in 0 .. MaxLines, NEW last \in 0 .. MaxLines,
             NEW new \in SeqsUpTo(Strings, MaxNew), Edit(first, last, new)
      PROVE  RepliesTracked'
  <2> DEFINE m == LinesMsg([first |-> first, last |-> last, new |-> new, before |-> text])
  <2>1. m \in Messages /\ m.kind # "reply"
    BY <1>1 DEF LinesMsg, Messages, LineEvents, TypeOK
  <2>2. wire' = Append(wire, m) \/ wire' = wire
    BY <1>3 DEF Edit
  <2>3. UNCHANGED <<toNvim, call, pc>>
    BY <1>3 DEF Edit, threadVars
  <2> HIDE DEF m
  <2>4. QED
    BY <1>1, <1>2, <2>1, <2>2, <2>3, OtherAppended
<1>4. ASSUME NEW t \in Commands, NEW what, Command(t, what) PROVE RepliesTracked'
  <2>1. VimMsg(t) \in Messages /\ VimMsg(t).kind # "reply"
    BY DEF VimMsg, Messages
  <2>2. QED
    BY <1>1, <1>4, <2>1, OtherAppended DEF Command, threadVars
<1>5. CASE Serve
  BY <1>1, <1>5, ServeTracked
<1>6. CASE ReadReply
  BY <1>1, <1>6, ReplyReadTracked
<1>7. CASE ReadLines
  BY <1>1, <1>7, OtherRead DEF ReadLines, threadVars, RepliesTracked
<1>8. CASE ReadCommand
  <2> DEFINE c == wire[1].command
  <2>1. c \in Threads /\ pc[c] = "none" /\ Goto(c, "event_autocmd")
    BY <1>1, <1>8, Reading, ThreadIds DEF ReadCommand, CommandsTracked
  <2>2. /\ call'[c] = "idle" /\ \A u \in Threads \ {c} : pc'[u] = pc[u] /\ call'[u] = call[u]
    BY <1>1, <2>1, Went
  <2>3. call[c] # "sent"
    BY <1>1, <2>1 DEF RepliesTracked, Calls
  <2> HIDE DEF c
  <2>4. /\ \A t \in Threads : call[t] = "sent" => call'[t] = "sent"
        /\ \A t \in Threads : call'[t] # "idle" => pc'[t] \in Calls
    BY <1>1, <2>2, <2>3 DEF RepliesTracked
  <2>5. QED
    BY <1>1, <1>8, <2>4, OtherRead DEF ReadCommand
<1>9. CASE HandleLines
  BY <1>2, <1>9 DEF HandleLines, threadVars
<1>10. ASSUME NEW t \in Threads, ThreadStep(t) PROVE RepliesTracked'
  <2>1. CASE Request(t)
    BY <1>1, <2>1, RequestTracked
  <2>2. CASE ~ Request(t)
    BY <1>1, <1>10, <2>2, GoesOn, OtherGoes
  <2>3. QED
    BY <2>1, <2>2
<1>11. QED
  BY <1>3, <1>4, <1>5, <1>6, <1>7, <1>8, <1>9, <1>10 DEF Next, LoopStep

-----------------------------------------------------------------------------
(* Commands and their threads.                                             *)
LEMMA NoCommandAppended ==
  ASSUME TypeOK, CommandsTracked, NEW m \in Messages, m.kind # "vim", wire' = Append(wire, m),
         UNCHANGED <<command, pc>>
  PROVE  CommandsTracked'
<1>1. /\ DOMAIN wire = 1 .. Len(wire) /\ DOMAIN wire' = 1 .. Len(wire) + 1 /\ Len(wire) \in Nat
      /\ \A i \in DOMAIN wire : wire'[i] = wire[i]
      /\ wire'[Len(wire) + 1] = m
  BY AppendFacts DEF TypeOK
<1>2. \A i \in DOMAIN wire' : wire'[i].kind = "vim" => i \in DOMAIN wire /\ wire'[i] = wire[i]
  BY <1>1
<1>3. QED
  BY <1>2 DEF CommandsTracked

(* Reading a message of any kind; its command, if it has one, may start.   *)
LEMMA CommandRead ==
  ASSUME TypeOK, CommandsTracked, wire # <<>>, wire' = Tail(wire), UNCHANGED command,
         \/ UNCHANGED pc
         \/ Head(wire).kind = "vim" /\ Goto(Head(wire).command, "event_autocmd")
  PROVE  CommandsTracked'
<1>1. /\ DOMAIN wire = 1 .. Len(wire) /\ DOMAIN wire' = 1 .. Len(wire) - 1 /\ Len(wire) \in Nat
      /\ \A i \in DOMAIN wire' : wire'[i] = wire[i + 1] /\ i + 1 \in DOMAIN wire /\ i + 1 # 1
      /\ 1 \in DOMAIN wire /\ Head(wire) = wire[1]
  BY TailFacts DEF TypeOK
<1>2. \A i \in DOMAIN wire : wire[i].kind = "vim" => wire[i].command \in Commands
  <2>1. \A i \in DOMAIN wire : wire[i] \in Messages
    BY DEF TypeOK
  <2>2. QED
    BY <2>1, MessageFacts
<1>3. \A t \in Threads : pc'[t] # pc[t] => wire[1].kind = "vim" /\ t = wire[1].command
  <2>1. CASE UNCHANGED pc
    BY <2>1
  <2>2. CASE Head(wire).kind = "vim" /\ Goto(Head(wire).command, "event_autocmd")
    BY <1>1, <1>2, <2>2, Went, ThreadIds
  <2>3. QED
    BY <2>1, <2>2
<1>4. \A t \in Commands : command'[t] = None => pc'[t] = "none"
  BY <1>1, <1>3, ThreadIds DEF CommandsTracked
<1>5. ASSUME NEW i \in DOMAIN wire', wire'[i].kind = "vim"
      PROVE  /\ pc'[wire'[i].command] = "none"
             /\ command'[wire'[i].command] # None
             /\ \A j \in DOMAIN wire' :
                  wire'[j].kind = "vim" /\ wire'[j].command = wire'[i].command => i = j
  <2>1. i + 1 \in DOMAIN wire /\ i + 1 # 1 /\ wire'[i] = wire[i + 1]
    BY <1>1
  <2>2. /\ pc[wire[i + 1].command] = "none" /\ command[wire[i + 1].command] # None
        /\ ~ (wire[1].kind = "vim" /\ wire[1].command = wire[i + 1].command)
    BY <1>1, <1>5, <2>1 DEF CommandsTracked
  <2>3. wire[i + 1].command \in Threads
    BY <1>2, <1>5, <2>1, ThreadIds
  <2>4. ASSUME NEW j \in DOMAIN wire', wire'[j].kind = "vim", wire'[j].command = wire'[i].command
        PROVE  i = j
    <3>1. j + 1 \in DOMAIN wire /\ wire'[j] = wire[j + 1]
      BY <1>1
    <3>2. i + 1 = j + 1
      BY <1>5, <2>1, <2>4, <3>1 DEF CommandsTracked
    <3>3. QED
      BY <1>1, <3>2
  <2>5. QED
    BY <1>3, <2>1, <2>2, <2>3, <2>4
<1>6. QED
  BY <1>4, <1>5 DEF CommandsTracked

LEMMA CommandGiven ==
  ASSUME TypeOK, CommandsTracked, NEW t \in Commands, NEW what \in {"update", "stop"},
         Command(t, what)
  PROVE  CommandsTracked'
<1>1. VimMsg(t) \in Messages /\ VimMsg(t).kind = "vim" /\ VimMsg(t).command = t
  BY DEF VimMsg, Messages
<1>2. /\ DOMAIN wire = 1 .. Len(wire) /\ DOMAIN wire' = 1 .. Len(wire) + 1 /\ Len(wire) \in Nat
      /\ \A i \in DOMAIN wire : wire'[i] = wire[i]
      /\ wire'[Len(wire) + 1] = VimMsg(t)
  BY <1>1, AppendFacts DEF TypeOK, Command
<1>3. /\ command[t] = None /\ command'[t] # None /\ pc' = pc
      /\ \A u \in Commands \ {t} : command'[u] = command[u]
  BY SyncAssumption DEF Command, TypeOK, threadVars
<1>4. pc[t] = "none" /\ \A i \in DOMAIN wire : wire[i].kind = "vim" =>
                          wire[i].command \in Commands /\ wire[i].command # t
  <2>1. \A i \in DOMAIN wire : wire[i] \in Messages
    BY DEF TypeOK
  <2>2. QED
    BY <1>3, <2>1, MessageFacts DEF CommandsTracked
<1>5. \A u \in Commands : command'[u] = None => pc'[u] = "none"
  BY <1>3 DEF CommandsTracked
<1>6. ASSUME NEW i \in DOMAIN wire', wire'[i].kind = "vim"
      PROVE  /\ pc'[wire'[i].command] = "none"
             /\ command'[wire'[i].command] # None
             /\ \A j \in DOMAIN wire' :
                  wire'[j].kind = "vim" /\ wire'[j].command = wire'[i].command => i = j
  <2>1. CASE i = Len(wire) + 1
    BY <1>1, <1>2, <1>3, <1>4, <2>1
  <2>2. CASE i \in DOMAIN wire
    BY <1>1, <1>2, <1>3, <1>4, <1>6, <2>2 DEF CommandsTracked
  <2>3. QED
    BY <1>2, <2>1, <2>2
<1>7. QED
  BY <1>5, <1>6 DEF CommandsTracked

(* A thread that goes on has been started.                                 *)
LEMMA CommandGoes ==
  ASSUME IInv, NEW t \in Threads, ThreadStep(t)
  PROVE  CommandsTracked'
<1>1. TypeOK /\ CommandsTracked
  BY DEF IInv
<1>2. /\ pc[t] # "none" /\ UNCHANGED <<command, wire>>
      /\ \A u \in Threads \ {t} : pc'[u] = pc[u]
  <2>1. CASE Request(t)
    BY <2>1 DEF Request, Calls, nvimVars
  <2>2. CASE ~ Request(t)
    <3>1. \A u \in Threads \ {t} : pc'[u] = pc[u]
      BY <1>1, <2>2, GoesOn, Went
    <3>2. UNCHANGED <<command, wire>>
      BY <2>2, GoesOn DEF nvimVars
    <3>3. pc[t] # "none"
      BY <2>2 DEF ThreadStep, Attached, LockForLines, StoreLines, LockForCommand, CurrentBuf,
                  LockForUpdate, UpdateDone, EventHalt
    <3>4. QED
      BY <3>1, <3>2, <3>3
  <2>3. QED
    BY <2>1, <2>2
<1>3. \A i \in DOMAIN wire : wire[i].kind = "vim" =>
        wire[i].command \in Threads /\ wire[i].command # t
  <2>1. \A i \in DOMAIN wire : wire[i] \in Messages
    BY <1>1 DEF TypeOK
  <2>2. QED
    BY <1>1, <1>2, <2>1, MessageFacts, ThreadIds DEF CommandsTracked
<1>4. \A u \in Commands : command'[u] = None => pc'[u] = "none"
  BY <1>1, <1>2, ThreadIds DEF CommandsTracked
<1>5. QED
  BY <1>1, <1>2, <1>3, <1>4 DEF CommandsTracked

LEMMA CommandsStep == IInv /\ Next => CommandsTracked'
<1> SUFFICES ASSUME IInv, Next PROVE CommandsTracked'
  OBVIOUS
<1>1. TypeOK /\ CommandsTracked
  BY DEF IInv
<1>2. ASSUME UNCHANGED <<command, wire, pc>> PROVE CommandsTracked'
  BY <1>1, <1>2 DEF CommandsTracked
<1>3. ASSUME NEW first \in 0 .. MaxLines, NEW last \in 0 .. MaxLines,
             NEW new \in SeqsUpTo(Strings, MaxNew), Edit(first, last, new)
      PROVE  CommandsTracked'
  <2> DEFINE m == LinesMsg([first |-> first, last |-> last, new |-> new, before |-> text])
  <2>1. m \in Messages /\ m.kind # "vim"
    BY <1>1 DEF LinesMsg, Messages, LineEvents, TypeOK
  <2>2. wire' = Append(wire, m) \/ wire' = wire
    BY <1>3 DEF Edit
  <2>3. UNCHANGED <<command, pc>>
    BY <1>3 DEF Edit, threadVars
  <2> HIDE DEF m
  <2>4. QED
    BY <1>1, <1>2, <2>1, <2>2, <2>3, NoCommandAppended
<1>4. CASE Serve
  <2>1. Head(toNvim) \in Threads
    BY <1>1, <1>4, TailFacts DEF TypeOK, Serve
  <2>2. ReplyMsg(Head(toNvim)) \in Messages /\ ReplyMsg(Head(toNvim)).kind # "vim"
    BY <2>1 DEF ReplyMsg, Messages
  <2>3. QED
    BY <1>1, <1>4, <2>2, NoCommandAppended DEF Serve, threadVars
<1>5. CASE ReadReply \/ ReadLines \/ ReadCommand
  BY <1>1, <1>5, CommandRead DEF ReadReply, ReadLines, ReadCommand, nvimVars, threadVars
<1>6. CASE HandleLines
  BY <1>2, <1>6 DEF HandleLines, nvimVars, threadVars
<1>7. QED
  BY <1>1, <1>3, <1>4, <1>5, <1>6, CommandGiven, CommandGoes DEF Next, LoopStep

-----------------------------------------------------------------------------
(* How far neovim_init has got.                                            *)
LEMMA ServedAppend ==
  ASSUME TypeOK, NEW t \in Threads, call' = call, NEW m \in Messages, wire' = Append(wire, m),
         m.kind = "reply" => m.to # t
  PROVE  Served(t)' <=> Served(t)
<1>1. /\ DOMAIN wire = 1 .. Len(wire) /\ DOMAIN wire' = 1 .. Len(wire) + 1 /\ Len(wire) \in Nat
      /\ \A i \in DOMAIN wire : wire'[i] = wire[i]
      /\ wire'[Len(wire) + 1] = m
  BY AppendFacts DEF TypeOK
<1>2. \A i \in DOMAIN wire : i \in DOMAIN wire' /\ wire'[i] = wire[i]
  BY <1>1
<1>3. \A i \in DOMAIN wire' : wire'[i].kind = "reply" /\ wire'[i].to = t =>
                              i \in DOMAIN wire /\ wire'[i] = wire[i]
  BY <1>1
<1>4. QED
  BY <1>2, <1>3 DEF Served

LEMMA ServedTail ==
  ASSUME TypeOK, NEW t \in Threads, call'[t] = call[t], wire # <<>>, wire' = Tail(wire),
         wire[1].kind = "reply" => wire[1].to # t
  PROVE  Served(t)' <=> Served(t)
<1>1. /\ DOMAIN wire = 1 .. Len(wire) /\ DOMAIN wire' = 1 .. Len(wire) - 1 /\ Len(wire) \in Nat
      /\ \A i \in DOMAIN wire' : wire'[i] = wire[i + 1] /\ i + 1 \in DOMAIN wire
  BY TailFacts DEF TypeOK
<1>2. ASSUME NEW i \in DOMAIN wire, wire[i].kind = "reply", wire[i].to = t
      PROVE  i - 1 \in DOMAIN wire' /\ wire'[i - 1] = wire[i]
  <2>1. i # 1
    BY <1>2
  <2>2. i - 1 \in DOMAIN wire' /\ i - 1 + 1 = i
    BY <1>1, <2>1
  <2>3. QED
    BY <1>1, <2>2
<1>3. QED
  BY <1>1, <1>2 DEF Served

LEMMA ServedRead ==
  ASSUME TypeOK, ReadReply, NEW t \in Threads
  PROVE  Served(t)' <=> Served(t)
<1>1. /\ wire # <<>> /\ 1 \in DOMAIN wire /\ wire[1].kind = "reply" /\ wire[1].to \in Threads
      /\ wire' = Tail(wire)
  BY Reading DEF ReadReply
<1>2. /\ call'[wire[1].to] = "answered"
      /\ \A u \in Threads \ {wire[1].to} : call'[u] = call[u]
  BY <1>1, Reading DEF ReadReply, TypeOK
<1>3. CASE t = wire[1].to
  BY <1>1, <1>2, <1>3 DEF Served
<1>4. CASE t # wire[1].to
  BY <1>1, <1>2, <1>4, ServedTail
<1>5. QED
  BY <1>3, <1>4

(* Nothing that matters to Attachment has changed.                         *)
LEMMA AttachmentSame ==
  ASSUME Attachment, Served(Main)' <=> Served(Main), UNCHANGED <<attached, snapshot>>,
         pc'[Main] = pc[Main], \A t \in Commands : pc'[t] = pc[t] \/ pc'[t] \notin Opening
  PROVE  Attachment'
BY DEF Attachment

LEMMA AttachmentServed ==
  ASSUME IInv, Serve
  PROVE  Attachment'
<1> DEFINE h == Head(toNvim)
<1>1. TypeOK /\ RepliesTracked /\ Attachment
  BY DEF IInv
<1>2. /\ h \in Threads /\ h = toNvim[1] /\ 1 \in DOMAIN toNvim
      /\ toNvim # <<>> /\ pc' = pc /\ call' = call
  BY <1>1, TailFacts DEF TypeOK, Serve, threadVars
<1>3. /\ ReplyMsg(h) \in Messages /\ ReplyMsg(h).kind = "reply" /\ ReplyMsg(h).to = h
      /\ wire' = Append(wire, ReplyMsg(h))
  BY <1>2 DEF ReplyMsg, Messages, Serve
<1>4. /\ attached' = (attached \/ pc[h] = "buf_attach")
      /\ snapshot' = IF pc[h] = "get_lines" THEN text ELSE snapshot
  BY DEF Serve
<1> HIDE DEF h
<1>5. call[h] = "sent" /\ pc[h] \in Calls
  BY <1>1, <1>2 DEF RepliesTracked
<1>6. CASE h = Main
  <2>1. Served(Main)'
    <3>1. Len(wire) + 1 \in DOMAIN wire' /\ wire'[Len(wire) + 1] = ReplyMsg(h)
      BY <1>1, <1>3, AppendFacts DEF TypeOK
    <3>2. QED
      BY <1>3, <1>6, <3>1 DEF Served
  <2>2. text # None
    BY <1>1, SyncAssumption DEF TypeOK
  <2>3. /\ pc'[Main] \in Opening \cup {"update_highlight", "get_var", "done"}
        /\ \A t \in Commands : pc'[t] \notin Opening
    BY <1>1, <1>2 DEF Attachment
  <2>4. attached'
    BY <1>1, <1>4, <1>6 DEF Attachment
  <2>5. snapshot' # None <=> pc[Main] \notin Opening \/ pc[Main] = "get_lines"
    BY <1>1, <1>4, <1>6, <2>2 DEF Attachment
  <2>6. QED
    BY <1>2, <2>1, <2>3, <2>4, <2>5 DEF Attachment
<1>7. CASE h # Main
  <2>1. Served(Main)' <=> Served(Main)
    BY <1>1, <1>2, <1>3, <1>7, ServedAppend, ThreadIds
  <2>2. h \in Commands
    BY <1>2, <1>7 DEF Threads
  <2>3. pc[h] \notin Opening
    BY <1>1, <2>2 DEF Attachment
  <2>4. attached' = attached /\ snapshot' = snapshot
    BY <1>1, <1>4, <2>3 DEF Opening, TypeOK
  <2>5. QED
    BY <1>1, <1>2, <2>1, <2>4, AttachmentSame
<1>8. QED
  BY <1>6, <1>7

(* neovim_init goes on.                                                    *)
LEMMA MainGoes ==
  ASSUME IInv, ThreadStep(Main), ~ Request(Main)
  PROVE  Attachment'
<1>1. TypeOK /\ RepliesTracked /\ Attachment /\ Main \in Threads
  BY ThreadIds DEF IInv
<1>2. PICK phase : Goto(Main, phase)
  BY <1>1, GoesOn
<1>3. /\ call[Main] # "sent" /\ UNCHANGED <<attached, snapshot, wire>>
      /\ pc'[Main] = phase /\ call'[Main] = "idle"
      /\ \A t \in Commands : pc'[t] = pc[t]
  BY <1>1, <1>2, GoesOn, Went, ThreadIds DEF nvimVars
<1>4. ~ Served(Main)'
  <2>1. \A i \in DOMAIN wire : wire[i].kind = "reply" => wire[i].to # Main
    BY <1>1, <1>3 DEF RepliesTracked
  <2>2. QED
    BY <1>3, <2>1 DEF Served
<1>5. \A t \in Commands : pc'[t] \notin Opening
  BY <1>1, <1>3 DEF Attachment
<1>6. CASE Attached(Main)
  <2>1. pc'[Main] = "get_initial_lines" /\ pc[Main] = "buf_attach" /\ Served(Main)
    BY <1>1, <1>6, Went DEF Attached, Served
  <2>2. attached /\ snapshot = None
    BY <1>1, <2>1 DEF Attachment, Opening
  <2>3. QED
    BY <1>3, <1>5, <2>1, <2>2 DEF Attachment, Opening
<1>7. CASE LockForLines(Main)
  <2>1. pc'[Main] = "get_lines" /\ pc[Main] = "get_initial_lines"
    BY <1>1, <1>7, Went DEF LockForLines
  <2>2. attached /\ snapshot = None
    BY <1>1, <2>1 DEF Attachment, Opening
  <2>3. QED
    BY <1>3, <1>4, <1>5, <2>1, <2>2 DEF Attachment, Opening
<1>8. CASE StoreLines(Main)
  <2>1. pc'[Main] = "update_highlight" /\ pc[Main] = "get_lines" /\ Served(Main)
    BY <1>1, <1>8, Went DEF StoreLines, Served
  <2>2. attached /\ snapshot # None
    BY <1>1, <2>1 DEF Attachment, Opening
  <2>3. QED
    BY <1>3, <1>5, <2>1, <2>2 DEF Attachment, Opening
<1>9. CASE LockForUpdate(Main) \/ UpdateDone(Main)
  <2>1. pc'[Main] \in {"get_var", "done"} /\ pc[Main] \in {"update_highlight", "get_var"}
    BY <1>1, <1>9, Went DEF LockForUpdate, UpdateDone, Stops
  <2>2. attached /\ snapshot # None
    BY <1>1, <2>1 DEF Attachment, Opening
  <2>3. QED
    BY <1>3, <1>5, <2>1, <2>2 DEF Attachment, Opening
<1>10. ~ (LockForCommand(Main) \/ CurrentBuf(Main) \/ EventHalt(Main))
  BY <1>1 DEF LockForCommand, CurrentBuf, EventHalt, Attachment, Opening
<1>11. QED
  BY <1>6, <1>7, <1>8, <1>9, <1>10 DEF ThreadStep

LEMMA AttachmentThread ==
  ASSUME IInv, NEW t \in Threads, ThreadStep(t)
  PROVE  Attachment'
<1>1. TypeOK /\ Attachment /\ Main \in Threads /\ Main \notin Commands
  BY ThreadIds DEF IInv
<1>2. CASE Request(t)
  <2>1. /\ call[t] = "idle" /\ call'[t] = "sent" /\ pc' = pc /\ wire' = wire
        /\ \A u \in Threads \ {t} : call'[u] = call[u]
        /\ UNCHANGED <<attached, snapshot>>
    BY <1>1, <1>2 DEF Request, TypeOK, nvimVars
  <2>2. call'[Main] = "answered" <=> call[Main] = "answered"
    BY <1>1, <2>1
  <2>3. Served(Main)' <=> Served(Main)
    BY <2>1, <2>2 DEF Served
  <2>4. QED
    BY <1>1, <2>1, <2>3, AttachmentSame
<1>3. CASE ~ Request(t) /\ t = Main
  BY <1>3, MainGoes
<1>4. CASE ~ Request(t) /\ t # Main
  <2>1. t \in Commands /\ pc[t] \notin Opening
    BY <1>1, <1>4 DEF Attachment, Threads
  <2>2. PICK phase : Goto(t, phase) /\ phase \notin Opening
    BY <1>4, <2>1 DEF ThreadStep, Attached, LockForLines, StoreLines, LockForCommand,
                      CurrentBuf, LockForUpdate, UpdateDone, EventHalt, Opening
  <2>3. /\ pc'[t] = phase
        /\ \A u \in Threads \ {t} : pc'[u] = pc[u] /\ call'[u] = call[u]
        /\ UNCHANGED <<attached, snapshot, wire>>
    BY <1>1, <1>4, <2>2, GoesOn, Went DEF nvimVars
  <2>4. Served(Main)' <=> Served(Main)
    BY <1>1, <1>4, <2>3 DEF Served
  <2>5. QED
    BY <1>1, <1>4, <2>2, <2>3, <2>4, AttachmentSame, ThreadIds
<1>5. QED
  BY <1>2, <1>3, <1>4

LEMMA AttachmentStep == IInv /\ Next => Attachment'
<1> SUFFICES ASSUME IInv, Next PROVE Attachment'
  OBVIOUS
<1>1. TypeOK /\ Attachment /\ CommandsTracked /\ Main \in Threads /\ Main \notin Commands
  BY ThreadIds DEF IInv
<1>2. ASSUME NEW first \in 0 .. MaxLines, NEW last \in 0 .. MaxLines,
             NEW new \in SeqsUpTo(Strings, MaxNew), Edit(first, last, new)
      PROVE  Attachment'
  <2> DEFINE m == LinesMsg([first |-> first, last |-> last, new |-> new, before |-> text])
  <2>1. m \in Messages /\ m.kind # "reply"
    BY <1>1 DEF LinesMsg, Messages, LineEvents, TypeOK
  <2>2. wire' = Append(wire, m) \/ wire' = wire
    BY <1>2 DEF Edit
  <2>3. UNCHANGED <<attached, snapshot, call, pc>>
    BY <1>2 DEF Edit, threadVars
  <2> HIDE DEF m
  <2>4. Served(Main)' <=> Served(Main)
    <3>1. CASE wire' = Append(wire, m)
      BY <1>1, <2>1, <2>3, <3>1, ServedAppend
    <3>2. CASE wire' = wire
      BY <2>3, <3>2 DEF Served
    <3>3. QED
      BY <2>2, <3>1, <3>2
  <2>5. QED
    BY <1>1, <2>3, <2>4, AttachmentSame
<1>3. ASSUME NEW t \in Commands, NEW what, Command(t, what) PROVE Attachment'
  <2>1. VimMsg(t) \in Messages /\ VimMsg(t).kind # "reply"
    BY DEF VimMsg, Messages
  <2>2. wire' = Append(wire, VimMsg(t)) /\ UNCHANGED <<attached, snapshot, call, pc>>
    BY <1>3 DEF Command, threadVars
  <2>3. Served(Main)' <=> Served(Main)
    BY <1>1, <2>1, <2>2, ServedAppend
  <2>4. QED
    BY <1>1, <2>2, <2>3, AttachmentSame
<1>4. CASE ReadReply
  <2>1. Served(Main)' <=> Served(Main)
    BY <1>1, <1>4, ServedRead
  <2>2. QED
    BY <1>1, <1>4, <2>1, AttachmentSame DEF ReadReply, nvimVars
<1>5. CASE ReadLines
  <2>1. /\ wire # <<>> /\ wire' = Tail(wire) /\ wire[1].kind = "lines"
        /\ UNCHANGED <<attached, snapshot, call, pc>>
    BY <1>1, <1>5, Reading DEF ReadLines, nvimVars, threadVars
  <2>2. Served(Main)' <=> Served(Main)
    BY <1>1, <2>1, ServedTail
  <2>3. QED
    BY <1>1, <2>1, <2>2, AttachmentSame
<1>6. CASE ReadCommand
  <2> DEFINE c == wire[1].command
  <2>1. /\ wire # <<>> /\ wire' = Tail(wire) /\ wire[1].kind = "vim" /\ c \in Commands
        /\ Goto(c, "event_autocmd") /\ UNCHANGED <<attached, snapshot>>
    BY <1>1, <1>6, Reading DEF ReadCommand, nvimVars
  <2> HIDE DEF c
  <2>2. /\ pc'[c] = "event_autocmd" /\ c # Main
        /\ \A u \in Threads \ {c} : pc'[u] = pc[u] /\ call'[u] = call[u]
    BY <1>1, <2>1, Went, ThreadIds
  <2>3. Served(Main)' <=> Served(Main)
    BY <1>1, <2>1, <2>2, ServedTail
  <2>4. \A t \in Commands : pc'[t] = pc[t] \/ pc'[t] \notin Opening
    BY <2>2, ThreadIds DEF Opening
  <2>5. QED
    BY <1>1, <2>1, <2>2, <2>3, <2>4, AttachmentSame
<1>7. CASE HandleLines
  <2>1. Served(Main)' <=> Served(Main)
    BY <1>7 DEF HandleLines, Served, threadVars
  <2>2. QED
    BY <1>1, <1>7, <2>1, AttachmentSame DEF HandleLines, nvimVars, threadVars
<1>8. QED
  BY <1>2, <1>3, <1>4, <1>5, <1>6, <1>7, AttachmentServed, AttachmentThread DEF Next, LoopStep

-----------------------------------------------------------------------------
(* The line events of the queue keep their order: a message at its end     *)
(* that is none, or such a message taken from its front, moves them all by *)
(* the same distance.                                                      *)
MovedBy(d) ==
  /\ \A i \in DOMAIN wire' :
       wire'[i].kind = "lines" => i + d \in DOMAIN wire /\ wire[i + d] = wire'[i]
  /\ \A i \in DOMAIN wire :
       wire[i].kind = "lines" => i - d \in DOMAIN wire' /\ wire'[i - d] = wire[i]

Unmoved == UNCHANGED <<text, event>> /\ \E d \in {0, 1} : MovedBy(d)

LEMMA MoveFacts ==
  ASSUME TypeOK, TypeOK', NEW d \in {0, 1}, MovedBy(d)
  PROVE  /\ LinesAt' = {} <=> LinesAt = {}
         /\ \A i \in LinesAt' : i + d \in LinesAt /\ wire'[i] = wire[i + d]
         /\ \A i \in DOMAIN wire' : Foremost(i)' => Foremost(i + d)
         /\ \A i \in DOMAIN wire' : Hindmost(i)' => Hindmost(i + d)
         /\ \A i, j \in DOMAIN wire' : Consecutive(i, j)' => Consecutive(i + d, j + d)
<1>1. /\ DOMAIN wire = 1 .. Len(wire) /\ DOMAIN wire' = 1 .. Len(wire')
      /\ Len(wire) \in Nat /\ Len(wire') \in Nat
  BY DEF TypeOK
<1>2. /\ \A i \in LinesAt' : i \in Int /\ i + d \in LinesAt /\ wire'[i] = wire[i + d]
      /\ \A i \in LinesAt : i \in Int /\ i - d \in LinesAt'
  BY <1>1 DEF MovedBy, LinesAt
<1>3. ASSUME NEW i \in DOMAIN wire', Foremost(i)' PROVE Foremost(i + d)
  <2>1. i \in LinesAt' /\ \A j \in LinesAt : i <= j - d
    BY <1>2, <1>3 DEF Foremost
  <2>2. i + d \in LinesAt /\ \A j \in LinesAt : i + d <= j
    BY <1>2, <2>1
  <2>3. QED
    BY <2>2 DEF Foremost
<1>4. ASSUME NEW i \in DOMAIN wire', Hindmost(i)' PROVE Hindmost(i + d)
  <2>1. i \in LinesAt' /\ \A j \in LinesAt : j - d <= i
    BY <1>2, <1>4 DEF Hindmost
  <2>2. i + d \in LinesAt /\ \A j \in LinesAt : j <= i + d
    BY <1>2, <2>1
  <2>3. QED
    BY <2>2 DEF Hindmost
<1>5. ASSUME NEW i \in DOMAIN wire', NEW j \in DOMAIN wire', Consecutive(i, j)'
      PROVE  Consecutive(i + d, j + d)
  <2>1. i \in LinesAt' /\ j \in LinesAt' /\ i < j /\ \A k \in LinesAt' : ~ (i < k /\ k < j)
    BY <1>5 DEF Consecutive
  <2>2. \A k \in LinesAt : ~ (i < k - d /\ k - d < j)
    BY <1>2, <2>1
  <2>3. i + d \in LinesAt /\ j + d \in LinesAt /\ i + d < j + d
        /\ \A k \in LinesAt : ~ (i + d < k /\ k < j + d)
    BY <1>2, <2>1, <2>2
  <2>4. QED
    BY <2>3 DEF Consecutive
<1>6. LinesAt' = {} <=> LinesAt = {}
  BY <1>2
<1>7. QED
  BY <1>2, <1>3, <1>4, <1>5, <1>6

LEMMA ChainMoved ==
  ASSUME TypeOK, TypeOK', Chain, Unmoved
  PROVE  Chain'
<1>1. PICK d \in {0, 1} : MovedBy(d)
  BY DEF Unmoved
<1>2. /\ LinesAt' = {} <=> LinesAt = {}
      /\ \A i \in LinesAt' : i + d \in LinesAt /\ wire'[i] = wire[i + d]
      /\ \A i \in DOMAIN wire' : Foremost(i)' => Foremost(i + d)
      /\ \A i \in DOMAIN wire' : Hindmost(i)' => Hindmost(i + d)
      /\ \A i, j \in DOMAIN wire' : Consecutive(i, j)' => Consecutive(i + d, j + d)
  BY <1>1, MoveFacts
<1>3. text' = text /\ event' = event
  BY DEF Unmoved
<1>4. \A i \in LinesAt' : Sensible(wire'[i].event)
  BY <1>2 DEF Chain
<1>5. ASSUME NEW i \in DOMAIN wire', NEW j \in DOMAIN wire', Consecutive(i, j)'
      PROVE  wire'[j].event.before = After(wire'[i].event)
  <2>1. i \in LinesAt' /\ j \in LinesAt' /\ Consecutive(i + d, j + d)
    BY <1>2, <1>5 DEF Consecutive
  <2>2. i + d \in DOMAIN wire /\ j + d \in DOMAIN wire
    BY <1>2, <2>1 DEF LinesAt
  <2>3. QED
    BY <1>2, <2>1, <2>2 DEF Chain
<1>6. ASSUME NEW i \in DOMAIN wire', Hindmost(i)' PROVE After(wire'[i].event) = text'
  <2>1. i \in LinesAt' /\ Hindmost(i + d)
    BY <1>2, <1>6 DEF Hindmost
  <2>2. QED
    BY <1>2, <1>3, <2>1 DEF Chain, LinesAt
<1>7. ASSUME event' # None
      PROVE  /\ Sensible(event')
             /\ \A i \in DOMAIN wire' : Foremost(i)' => wire'[i].event.before = After(event')
             /\ LinesAt' = {} => After(event') = text'
  <2>1. Sensible(event) /\ (LinesAt = {} => After(event) = text)
    BY <1>3, <1>7 DEF Chain
  <2>2. ASSUME NEW i \in DOMAIN wire', Foremost(i)' PROVE wire'[i].event.before = After(event)
    <3>1. i \in LinesAt' /\ Foremost(i + d)
      BY <1>2, <2>2 DEF Foremost
    <3>2. QED
      BY <1>2, <1>3, <1>7, <3>1 DEF Chain, LinesAt
  <2>3. QED
    BY <1>2, <1>3, <2>1, <2>2
<1>8. QED
  BY <1>4, <1>5, <1>6, <1>7 DEF Chain

LEMMA InSyncMoved ==
  ASSUME TypeOK, TypeOK', InSync, Unmoved,
         snapshot' # None /\ ~ early' => snapshot # None /\ ~ early /\ Copy' = Copy
  PROVE  InSync'
<1> SUFFICES ASSUME snapshot' # None, ~ early'
             PROVE  /\ event' # None => Copy' = event'.before
                    /\ event' = None =>
                         \A i \in DOMAIN wire' : Foremost(i)' => Copy' = wire'[i].event.before
                    /\ event' = None /\ LinesAt' = {} => Copy' = text'
  BY DEF InSync
<1>1. PICK d \in {0, 1} : MovedBy(d)
  BY DEF Unmoved
<1>2. /\ LinesAt' = {} <=> LinesAt = {}
      /\ \A i \in LinesAt' : i + d \in LinesAt /\ wire'[i] = wire[i + d]
      /\ \A i \in DOMAIN wire' : Foremost(i)' => Foremost(i + d)
  BY <1>1, MoveFacts
<1>3. text' = text /\ event' = event /\ Copy' = Copy
  BY DEF Unmoved
<1>4. /\ event # None => Copy = event.before
      /\ event = None => \A i \in DOMAIN wire : Foremost(i) => Copy = wire[i].event.before
      /\ event = None /\ LinesAt = {} => Copy = text
  BY DEF InSync
<1>5. ASSUME event = None, NEW i \in DOMAIN wire', Foremost(i)'
      PROVE  Copy = wire'[i].event.before
  <2>1. i \in LinesAt' /\ Foremost(i + d)
    BY <1>2, <1>5 DEF Foremost
  <2>2. QED
    BY <1>2, <1>4, <1>5, <2>1 DEF LinesAt
<1>6. QED
  BY <1>2, <1>3, <1>4, <1>5

(* What keeps the line events as they are.                                 *)
LEMMA AppendedUnmoved ==
  ASSUME TypeOK, NEW m \in Messages, m.kind # "lines", wire' = Append(wire, m),
         UNCHANGED <<text, event>>
  PROVE  Unmoved
<1>1. /\ DOMAIN wire = 1 .. Len(wire) /\ DOMAIN wire' = 1 .. Len(wire) + 1 /\ Len(wire) \in Nat
      /\ \A i \in DOMAIN wire : wire'[i] = wire[i]
      /\ wire'[Len(wire) + 1] = m
  BY AppendFacts DEF TypeOK
<1>2. /\ \A i \in DOMAIN wire' : wire'[i].kind = "lines" => i \in DOMAIN wire /\ wire[i] = wire'[i]
      /\ \A i \in DOMAIN wire : i \in DOMAIN wire' /\ wire'[i] = wire[i]
      /\ \A i \in DOMAIN wire' : i + 0 = i /\ i - 0 = i
      /\ \A i \in DOMAIN wire : i + 0 = i /\ i - 0 = i
  BY <1>1
<1>3. MovedBy(0)
  BY <1>2 DEF MovedBy
<1>4. QED
  BY <1>3 DEF Unmoved

LEMMA ReadUnmoved ==
  ASSUME TypeOK, wire # <<>>, wire' = Tail(wire), wire[1].kind # "lines",
         UNCHANGED <<text, event>>
  PROVE  Unmoved
<1>1. /\ DOMAIN wire = 1 .. Len(wire) /\ DOMAIN wire' = 1 .. Len(wire) - 1 /\ Len(wire) \in Nat
      /\ \A i \in DOMAIN wire' : wire'[i] = wire[i + 1] /\ i + 1 \in DOMAIN wire
  BY TailFacts DEF TypeOK
<1>2. ASSUME NEW i \in DOMAIN wire, wire[i].kind = "lines"
      PROVE  i - 1 \in DOMAIN wire' /\ wire'[i - 1] = wire[i]
  <2>1. i # 1
    BY <1>2
  <2>2. i - 1 \in DOMAIN wire' /\ i - 1 + 1 = i
    BY <1>1, <2>1
  <2>3. QED
    BY <1>1, <2>2
<1>3. MovedBy(1)
  BY <1>1, <1>2 DEF MovedBy
<1>4. QED
  BY <1>3 DEF Unmoved

LEMMA SameUnmoved ==
  ASSUME TypeOK, UNCHANGED <<wire, text, event>>
  PROVE  Unmoved
<1>1. \A i \in DOMAIN wire : i + 0 = i /\ i - 0 = i
  BY DEF TypeOK
<1>2. MovedBy(0)
  BY <1>1 DEF MovedBy
<1>3. QED
  BY <1>2 DEF Unmoved

(* Only three kinds of steps change the line events under way.             *)
Stirs == \/ \E first, last \in 0 .. MaxLines, new \in SeqsUpTo(Strings, MaxNew) :
              Edit(first, last, new)
         \/ ReadLines
         \/ HandleLines

LEMMA OthersUnmoved == IInv /\ Next /\ ~ Stirs => Unmoved /\ early' = early
<1> SUFFICES ASSUME IInv, Next, ~ Stirs PROVE Unmoved /\ early' = early
  OBVIOUS
<1>1. TypeOK
  BY DEF IInv
<1>2. ASSUME NEW t \in Commands, NEW what, Command(t, what) PROVE Unmoved /\ early' = early
  <2>1. VimMsg(t) \in Messages /\ VimMsg(t).kind # "lines"
    BY DEF VimMsg, Messages
  <2>2. QED
    BY <1>1, <1>2, <2>1, AppendedUnmoved DEF Command
<1>3. CASE Serve
  <2>1. Head(toNvim) \in Threads
    BY <1>1, <1>3, TailFacts DEF TypeOK, Serve
  <2>2. ReplyMsg(Head(toNvim)) \in Messages /\ ReplyMsg(Head(toNvim)).kind # "lines"
    BY <2>1 DEF ReplyMsg, Messages
  <2>3. QED
    BY <1>1, <1>3, <2>2, AppendedUnmoved DEF Serve
<1>4. CASE ReadReply \/ ReadCommand
  <2>1. /\ wire # <<>> /\ wire' = Tail(wire) /\ wire[1].kind # "lines"
        /\ UNCHANGED <<text, event, early>>
    BY <1>1, <1>4, Reading DEF ReadReply, ReadCommand, nvimVars
  <2>2. QED
    BY <1>1, <2>1, ReadUnmoved
<1>5. ASSUME NEW t \in Threads, ThreadStep(t) PROVE Unmoved /\ early' = early
  <2>1. UNCHANGED <<wire, text, event, early>>
    <3>1. CASE Request(t)
      BY <3>1 DEF Request, nvimVars
    <3>2. CASE ~ Request(t)
      BY <1>5, <3>2, GoesOn DEF nvimVars
    <3>3. QED
      BY <3>1, <3>2
  <2>2. QED
    BY <1>1, <2>1, SameUnmoved
<1>6. QED
  BY <1>2, <1>3, <1>4, <1>5 DEF Next, LoopStep, Stirs

(* Lines are stored once, at the end of the opening.                       *)
LEMMA OpeningStep ==
  ASSUME IInv, Next
  PROVE  /\ pc'[Main] \in Opening => pc[Main] \in Opening
         /\ lines' = lines \/ HandleLines \/ StoreLines(Main)
         /\ pc'[Main] # pc[Main] => ThreadStep(Main)
<1>1. TypeOK /\ Attachment /\ CommandsTracked /\ Main \in Threads /\ Main \notin Commands
  BY ThreadIds DEF IInv
<1>2. ASSUME NEW t \in Threads, ThreadStep(t)
      PROVE  lines' = lines \/ StoreLines(Main)
  <2>1. CASE StoreLines(t)
    <3>1. t = Main
      BY <1>1, <2>1 DEF StoreLines, Attachment, Opening, Threads
    <3>2. QED
      BY <2>1, <3>1
  <2>2. CASE ~ StoreLines(t)
    BY <1>2, <2>2 DEF ThreadStep, Request, Attached, LockForLines, LockForCommand, CurrentBuf,
                      LockForUpdate, UpdateDone, EventHalt, copyVars
  <2>3. QED
    BY <2>1, <2>2
<1>3. ASSUME NEW t \in Threads, ThreadStep(t), t # Main
      PROVE  pc'[Main] = pc[Main]
  <2>1. CASE Request(t)
    BY <2>1 DEF Request
  <2>2. CASE ~ Request(t)
    BY <1>1, <1>3, <2>2, GoesOn, Went
  <2>3. QED
    BY <2>1, <2>2
<1>4. ASSUME ThreadStep(Main), pc'[Main] \in Opening
      PROVE  pc[Main] \in Opening
  <2>1. CASE Request(Main)
    BY <1>4, <2>1 DEF Request
  <2>2. CASE ~ Request(Main)
    <3>1. PICK phase : Goto(Main, phase)
      BY <1>1, <1>4, <2>2, GoesOn
    <3>2. pc'[Main] = phase
      BY <1>1, <3>1, Went
    <3>3. CASE Attached(Main) \/ LockForLines(Main) \/ StoreLines(Main)
      BY <3>3 DEF Attached, LockForLines, StoreLines, Opening
    <3>4. CASE LockForCommand(Main) \/ CurrentBuf(Main) \/ LockForUpdate(Main)
               \/ UpdateDone(Main) \/ EventHalt(Main)
      <4>1. pc'[Main] \notin Opening
        BY <1>1, <3>4, Went
           DEF LockForCommand, CurrentBuf, LockForUpdate, UpdateDone, EventHalt, Opening,
               Attachment, Stops
      <4>2. QED
        BY <1>4, <4>1
    <3>5. QED
      BY <1>4, <2>2, <3>3, <3>4 DEF ThreadStep
  <2>3. QED
    BY <2>1, <2>2
<1>5. CASE UNCHANGED <<pc, lines>>
  BY <1>5
<1>6. CASE ReadCommand
  <2>1. wire[1].command \in Commands /\ Goto(wire[1].command, "event_autocmd") /\ lines' = lines
    BY <1>1, <1>6, Reading DEF ReadCommand, copyVars
  <2>2. pc'[Main] = pc[Main]
    BY <1>1, <2>1, Went, ThreadIds
  <2>3. QED
    BY <2>1, <2>2
<1>7. CASE HandleLines
  BY <1>7 DEF HandleLines, threadVars
<1>8. CASE \E t \in Threads : ThreadStep(t)
  BY <1>2, <1>3, <1>4, <1>8
<1>9. \/ UNCHANGED <<pc, lines>> \/ ReadCommand \/ HandleLines
      \/ \E t \in Threads : ThreadStep(t)
  BY DEF Next, LoopStep, Serve, ReadReply, ReadLines, Command, Edit, copyVars, threadVars
<1>10. QED
  BY <1>5, <1>6, <1>7, <1>8, <1>9

(* Once there is a snapshot and no thread has lock.total, the copy is in   *)
(* bdata->lines.                                                           *)
LEMMA StoredByThen ==
  ASSUME IInv, snapshot # None, total = None
  PROVE  Stored /\ pc[Main] \notin Opening
<1>1. pc[Main] # "get_lines"
  <2>1. Main # None /\ Main \in Threads
    BY ThreadIds, SyncAssumption
  <2>2. QED
    BY <2>1 DEF IInv, LockInv
<1>2. QED
  BY <1>1 DEF IInv, Attachment, Stored, Opening

LEMMA QuietStep == IInv /\ Next => Quiet'
<1> SUFFICES ASSUME IInv, Next PROVE Quiet'
  OBVIOUS
<1>1. TypeOK /\ TypeOK' /\ Quiet /\ Attachment
  BY TypeStep DEF IInv
<1>2. CASE ~ Stirs
  <2>1. Unmoved /\ early' = early
    BY <1>2, OthersUnmoved
  <2>2. PICK d \in {0, 1} : MovedBy(d)
    BY <2>1 DEF Unmoved
  <2>3. (LinesAt' = {} <=> LinesAt = {}) /\ event' = event
    BY <1>1, <2>1, <2>2, MoveFacts DEF Unmoved
  <2>4. (attached => attached') /\ (snapshot' = None => snapshot = None)
    <3>1. CASE Serve
      BY <1>1, <3>1, SyncAssumption DEF Serve, TypeOK
    <3>2. CASE ~ Serve
      <4>1. UNCHANGED <<attached, snapshot>>
        <5>1. ASSUME NEW t \in Threads, ThreadStep(t) PROVE UNCHANGED <<attached, snapshot>>
          BY <5>1, GoesOn DEF Request, nvimVars
        <5>2. QED
          BY <1>2, <3>2, <5>1 DEF Next, LoopStep, Stirs, Command, ReadReply, ReadCommand, nvimVars
      <4>2. QED
        BY <4>1
    <3>3. QED
      BY <3>1, <3>2
  <2>5. pc'[Main] \in Opening => pc[Main] \in Opening /\ lines' = lines
    <3>1. ~ HandleLines
      BY <1>2 DEF Stirs
    <3>2. StoreLines(Main) => pc'[Main] \notin Opening
      BY <1>1, Went, ThreadIds DEF StoreLines, Opening
    <3>3. QED
      BY <3>1, <3>2, OpeningStep
  <2>6. QED
    BY <1>1, <2>1, <2>3, <2>4, <2>5 DEF Quiet
<1>3. ASSUME NEW first \in 0 .. MaxLines, NEW last \in 0 .. MaxLines,
             NEW new \in SeqsUpTo(Strings, MaxNew), Edit(first, last, new)
      PROVE  Quiet'
  <2>1. /\ UNCHANGED <<attached, snapshot, event, lines, pc>>
        /\ early' = (early \/ (attached /\ snapshot = None))
    BY <1>3 DEF Edit, copyVars, threadVars
  <2>2. ~ attached => wire' = wire
    BY <1>3 DEF Edit
  <2>3. ~ attached => LinesAt' = LinesAt
    BY <2>2 DEF LinesAt
  <2>4. QED
    BY <1>1, <2>1, <2>3 DEF Quiet
<1>4. CASE ReadLines
  <2>1. 1 \in DOMAIN wire /\ wire[1].kind = "lines"
    BY <1>1, <1>4, Reading DEF ReadLines
  <2>2. LinesAt # {}
    BY <2>1 DEF LinesAt
  <2>3. UNCHANGED <<attached, snapshot, early, lines, pc>>
    BY <1>4 DEF ReadLines, nvimVars, copyVars, threadVars
  <2>4. QED
    BY <1>1, <2>2, <2>3 DEF Quiet
<1>5. CASE HandleLines
  <2>1. UNCHANGED <<attached, snapshot, early, pc>> /\ event # None /\ total = None
    BY <1>5 DEF HandleLines, nvimVars, threadVars
  <2>2. ~ early => pc[Main] \notin Opening
    BY <1>1, <2>1, StoredByThen DEF Quiet
  <2>3. QED
    BY <1>1, <2>1, <2>2 DEF Quiet
<1>6. QED
  BY <1>2, <1>3, <1>4, <1>5 DEF Stirs

-----------------------------------------------------------------------------
(* Reported edits: the new event is the last one of the queue.             *)
LEMMA EditAppended ==
  ASSUME IInv, NEW first \in 0 .. MaxLines, NEW last \in 0 .. MaxLines,
         NEW new \in SeqsUpTo(Strings, MaxNew), Edit(first, last, new), attached
  PROVE  \E n \in DOMAIN wire' :
           /\ n \in Int /\ \A i \in DOMAIN wire : i \in Int
           /\ \A i \in DOMAIN wire : i \in DOMAIN wire' /\ wire'[i] = wire[i] /\ i < n
           /\ LinesAt' = LinesAt \cup {n}
           /\ DOMAIN wire' = DOMAIN wire \cup {n}
           /\ wire'[n].event.before = text
           /\ After(wire'[n].event) = text'
           /\ Sensible(wire'[n].event)
<1> DEFINE ev == [first |-> first, last |-> last, new |-> new, before |-> text]
<1>1. TypeOK
  BY DEF IInv
<1>2. LinesMsg(ev) \in Messages /\ LinesMsg(ev).kind = "lines" /\ LinesMsg(ev).event = ev
  BY <1>1 DEF LinesMsg, Messages, LineEvents, TypeOK
<1>3. wire' = Append(wire, LinesMsg(ev))
  BY DEF Edit
<1>4. After(ev) = text' /\ Sensible(ev) /\ ev.before = text
  BY DEF Edit, After, Sensible
<1> HIDE DEF ev
<1>5. /\ DOMAIN wire = 1 .. Len(wire) /\ DOMAIN wire' = 1 .. Len(wire) + 1 /\ Len(wire) \in Nat
      /\ \A i \in DOMAIN wire : wire'[i] = wire[i]
      /\ wire'[Len(wire) + 1] = LinesMsg(ev)
  BY <1>1, <1>2, <1>3, AppendFacts DEF TypeOK
<1> DEFINE n == Len(wire) + 1
<1>6. /\ n \in DOMAIN wire' /\ DOMAIN wire' = DOMAIN wire \cup {n}
      /\ n \in Int /\ \A i \in DOMAIN wire : i \in Int
      /\ \A i \in DOMAIN wire : i \in DOMAIN wire' /\ wire'[i] = wire[i] /\ i < n
      /\ wire'[n] = LinesMsg(ev)
  BY <1>5
<1> HIDE DEF n
<1>7. LinesAt' = LinesAt \cup {n}
  BY <1>2, <1>6 DEF LinesAt
<1>8. QED
  BY <1>2, <1>4, <1>6, <1>7

(* Reading a line event: the others move up by one.                        *)
LEMMA LinesRead ==
  ASSUME TypeOK, ReadLines
  PROVE  /\ Foremost(1) /\ event' = wire[1].event /\ event' # None
         /\ \A i \in LinesAt' : i + 1 \in LinesAt /\ wire'[i] = wire[i + 1]
         /\ LinesAt' = {} => Hindmost(1)
         /\ \A i \in DOMAIN wire' : Foremost(i)' => Consecutive(1, i + 1)
         /\ \A i \in DOMAIN wire' : Hindmost(i)' => Hindmost(i + 1)
         /\ \A i, j \in DOMAIN wire' : Consecutive(i, j)' => Consecutive(i + 1, j + 1)
<1>1. /\ wire # <<>> /\ 1 \in DOMAIN wire /\ wire[1].kind = "lines"
      /\ wire[1].event \in LineEvents /\ wire' = Tail(wire) /\ event' = wire[1].event
  BY Reading DEF ReadLines
<1>2. /\ DOMAIN wire = 1 .. Len(wire) /\ DOMAIN wire' = 1 .. Len(wire) - 1 /\ Len(wire) \in Nat
      /\ \A i \in DOMAIN wire' : wire'[i] = wire[i + 1] /\ i + 1 \in DOMAIN wire
  BY <1>1, TailFacts DEF TypeOK
<1>3. event' # None
  BY <1>1, SyncAssumption
<1>4. 1 \in LinesAt /\ \A i \in LinesAt : i \in Int /\ 1 <= i
  BY <1>1, <1>2 DEF LinesAt
<1>5. \A i \in LinesAt' : i \in Int /\ 1 <= i /\ i + 1 \in LinesAt /\ wire'[i] = wire[i + 1]
  BY <1>2 DEF LinesAt
<1>6. ASSUME NEW i \in LinesAt, i # 1 PROVE i - 1 \in LinesAt'
  <2>1. i - 1 \in DOMAIN wire' /\ i - 1 + 1 = i
    BY <1>2, <1>6 DEF LinesAt
  <2>2. wire'[i - 1] = wire[i] /\ wire[i].kind = "lines"
    BY <1>2, <2>1 DEF LinesAt
  <2>3. QED
    BY <2>1, <2>2 DEF LinesAt
<1>7. Foremost(1)
  BY <1>4 DEF Foremost
<1>8. LinesAt' = {} => Hindmost(1)
  <2>1. SUFFICES ASSUME LinesAt' = {} PROVE \A j \in LinesAt : j <= 1
    BY <1>4 DEF Hindmost
  <2>2. \A j \in LinesAt : j = 1
    BY <1>6, <2>1
  <2>3. QED
    BY <2>2
<1>9. ASSUME NEW i \in DOMAIN wire', Foremost(i)' PROVE Consecutive(1, i + 1)
  <2>1. i \in LinesAt' /\ \A j \in LinesAt' : i <= j
    BY <1>9 DEF Foremost
  <2>2. ASSUME NEW k \in LinesAt PROVE ~ (1 < k /\ k < i + 1)
    <3>1. CASE k = 1
      BY <3>1
    <3>2. CASE k # 1
      <4>1. i <= k - 1
        BY <1>6, <2>1, <3>2
      <4>2. QED
        BY <1>4, <1>5, <2>1, <4>1
    <3>3. QED
      BY <3>1, <3>2
  <2>3. i + 1 \in LinesAt /\ 1 < i + 1
    BY <1>5, <2>1
  <2>4. QED
    BY <1>4, <2>2, <2>3 DEF Consecutive
<1>10. ASSUME NEW i \in DOMAIN wire', Hindmost(i)' PROVE Hindmost(i + 1)
  <2>1. i \in LinesAt' /\ \A j \in LinesAt' : j <= i
    BY <1>10 DEF Hindmost
  <2>2. ASSUME NEW k \in LinesAt PROVE k <= i + 1
    <3>1. CASE k = 1
      BY <1>5, <2>1, <3>1
    <3>2. CASE k # 1
      <4>1. k - 1 <= i
        BY <1>6, <2>1, <3>2
      <4>2. QED
        BY <1>4, <1>5, <2>1, <4>1
    <3>3. QED
      BY <3>1, <3>2
  <2>3. QED
    BY <1>5, <2>1, <2>2 DEF Hindmost
<1>11. ASSUME NEW i \in DOMAIN wire', NEW j \in DOMAIN wire', Consecutive(i, j)'
       PROVE  Consecutive(i + 1, j + 1)
  <2>1. i \in LinesAt' /\ j \in LinesAt' /\ i < j /\ \A k \in LinesAt' : ~ (i < k /\ k < j)
    BY <1>11 DEF Consecutive
  <2>2. ASSUME NEW k \in LinesAt PROVE ~ (i + 1 < k /\ k < j + 1)
    <3>1. CASE k = 1
      BY <1>5, <2>1, <3>1
    <3>2. CASE k # 1
      <4>1. ~ (i < k - 1 /\ k - 1 < j)
        BY <1>6, <2>1, <3>2
      <4>2. QED
        BY <1>4, <1>5, <2>1, <4>1
    <3>3. QED
      BY <3>1, <3>2
  <2>3. i + 1 \in LinesAt /\ j + 1 \in LinesAt /\ i + 1 < j + 1
    BY <1>5, <2>1
  <2>4. QED
    BY <2>2, <2>3 DEF Consecutive
<1>12. QED
  BY <1>1, <1>3, <1>5, <1>7, <1>8, <1>9, <1>10, <1>11

LEMMA ChainEdit ==
  ASSUME IInv, NEW first \in 0 .. MaxLines, NEW last \in 0 .. MaxLines,
         NEW new \in SeqsUpTo(Strings, MaxNew), Edit(first, last, new)
  PROVE  Chain'
<1>1. Chain /\ Quiet /\ event' = event
  BY DEF IInv, Edit
<1>2. CASE ~ attached
  <2>1. wire' = wire /\ event = None
    BY <1>1, <1>2 DEF Edit, Quiet
  <2>2. LinesAt' = {}
    BY <1>1, <1>2, <2>1 DEF Quiet, LinesAt
  <2>3. QED
    BY <1>1, <2>1, <2>2 DEF Chain, Consecutive, Hindmost
<1>3. CASE attached
  <2>1. PICK n \in DOMAIN wire' :
           /\ n \in Int /\ \A i \in DOMAIN wire : i \in Int
           /\ \A i \in DOMAIN wire : i \in DOMAIN wire' /\ wire'[i] = wire[i] /\ i < n
           /\ LinesAt' = LinesAt \cup {n}
           /\ DOMAIN wire' = DOMAIN wire \cup {n}
           /\ wire'[n].event.before = text
           /\ After(wire'[n].event) = text'
           /\ Sensible(wire'[n].event)
    BY <1>3, EditAppended
  <2>2. /\ LinesAt \subseteq DOMAIN wire
        /\ \A i \in DOMAIN wire : i \in Int
        /\ n \in Int
    BY <2>1 DEF LinesAt
  <2>3. \A i \in LinesAt' : Sensible(wire'[i].event)
    BY <1>1, <2>1, <2>2 DEF Chain
  <2>4. ASSUME NEW i \in DOMAIN wire', NEW j \in DOMAIN wire', Consecutive(i, j)'
        PROVE  wire'[j].event.before = After(wire'[i].event)
    <3>1. /\ i \in LinesAt' /\ j \in LinesAt' /\ i < j
          /\ \A k \in LinesAt' : ~ (i < k /\ k < j)
      BY <2>4 DEF Consecutive
    <3>2. i \in LinesAt
      BY <2>1, <2>2, <3>1
    <3>3. CASE j = n
      <4>1. \A k \in LinesAt : ~ (i < k)
        BY <2>1, <2>2, <3>1, <3>3
      <4>2. Hindmost(i)
        BY <2>2, <3>2, <4>1 DEF Hindmost
      <4>3. QED
        BY <1>1, <2>1, <2>2, <3>2, <3>3, <4>2 DEF Chain
    <3>4. CASE j # n
      <4>1. Consecutive(i, j)
        BY <2>1, <3>1, <3>2, <3>4 DEF Consecutive
      <4>2. QED
        BY <1>1, <2>1, <2>2, <3>1, <3>2, <3>4, <4>1 DEF Chain
    <3>5. QED
      BY <3>3, <3>4
  <2>5. ASSUME NEW i \in DOMAIN wire', Hindmost(i)' PROVE After(wire'[i].event) = text'
    <3>1. i \in LinesAt' /\ n <= i
      BY <2>1, <2>5 DEF Hindmost
    <3>2. i = n
      BY <2>1, <2>2, <3>1
    <3>3. QED
      BY <2>1, <3>2
  <2>6. ASSUME event # None, NEW i \in DOMAIN wire', Foremost(i)'
        PROVE  wire'[i].event.before = After(event)
    <3>1. i \in LinesAt' /\ \A j \in LinesAt : i <= j
      BY <2>1, <2>6 DEF Foremost
    <3>2. CASE i = n
      <4>1. LinesAt = {}
        BY <2>1, <2>2, <3>1, <3>2
      <4>2. QED
        BY <1>1, <2>1, <2>6, <3>2, <4>1 DEF Chain
    <3>3. CASE i # n
      <4>1. Foremost(i)
        BY <2>1, <3>1, <3>3 DEF Foremost
      <4>2. QED
        BY <1>1, <2>1, <2>2, <2>6, <3>1, <3>3, <4>1 DEF Chain
    <3>4. QED
      BY <3>2, <3>3
  <2>7. LinesAt' # {} /\ (event # None => Sensible(event))
    BY <1>1, <2>1 DEF Chain
  <2>8. QED
    BY <1>1, <2>3, <2>4, <2>5, <2>6, <2>7 DEF Chain
<1>4. QED
  BY <1>2, <1>3

LEMMA ChainStep == IInv /\ Next => Chain'
<1> SUFFICES ASSUME IInv, Next PROVE Chain'
  OBVIOUS
<1>1. TypeOK /\ TypeOK' /\ Chain
  BY TypeStep DEF IInv
<1>2. CASE ~ Stirs
  BY <1>1, <1>2, OthersUnmoved, ChainMoved
<1>3. CASE ReadLines
  <2>1. text' = text
    BY <1>3 DEF ReadLines, nvimVars
  <2>2. /\ Foremost(1) /\ event' = wire[1].event /\ event' # None
        /\ \A i \in LinesAt' : i + 1 \in LinesAt /\ wire'[i] = wire[i + 1]
        /\ LinesAt' = {} => Hindmost(1)
        /\ \A i \in DOMAIN wire' : Foremost(i)' => Consecutive(1, i + 1)
        /\ \A i \in DOMAIN wire' : Hindmost(i)' => Hindmost(i + 1)
        /\ \A i, j \in DOMAIN wire' : Consecutive(i, j)' => Consecutive(i + 1, j + 1)
    BY <1>1, <1>3, LinesRead
  <2>3. LinesAt \subseteq DOMAIN wire /\ 1 \in LinesAt
    BY <2>2 DEF LinesAt, Foremost
  <2>4. \A i \in LinesAt' : Sensible(wire'[i].event)
    BY <1>1, <2>2 DEF Chain
  <2>5. ASSUME NEW i \in DOMAIN wire', NEW j \in DOMAIN wire', Consecutive(i, j)'
        PROVE  wire'[j].event.before = After(wire'[i].event)
    <3>1. i \in LinesAt' /\ j \in LinesAt' /\ Consecutive(i + 1, j + 1)
      BY <2>2, <2>5 DEF Consecutive
    <3>2. QED
      BY <1>1, <2>2, <2>3, <3>1 DEF Chain
  <2>6. ASSUME NEW i \in DOMAIN wire', Hindmost(i)' PROVE After(wire'[i].event) = text'
    <3>1. i \in LinesAt' /\ Hindmost(i + 1)
      BY <2>2, <2>6 DEF Hindmost
    <3>2. QED
      BY <1>1, <2>1, <2>2, <2>3, <3>1 DEF Chain
  <2>7. ASSUME NEW i \in DOMAIN wire', Foremost(i)' PROVE wire'[i].event.before = After(event')
    <3>1. i \in LinesAt' /\ Consecutive(1, i + 1)
      BY <2>2, <2>7 DEF Foremost
    <3>2. QED
      BY <1>1, <2>2, <2>3, <3>1 DEF Chain
  <2>8. Sensible(event') /\ (LinesAt' = {} => After(event') = text')
    BY <1>1, <2>1, <2>2, <2>3 DEF Chain
  <2>9. QED
    BY <2>4, <2>5, <2>6, <2>7, <2>8 DEF Chain
<1>4. CASE HandleLines
  <2>1. UNCHANGED <<wire, text>> /\ event' = None
    BY <1>4 DEF HandleLines, nvimVars
  <2>2. /\ LinesAt' = LinesAt
        /\ \A i, j : Consecutive(i, j)' <=> Consecutive(i, j)
        /\ \A i : Hindmost(i)' <=> Hindmost(i)
    BY <2>1 DEF LinesAt, Consecutive, Hindmost
  <2>3. QED
    BY <1>1, <2>1, <2>2 DEF Chain
<1>5. QED
  BY <1>2, <1>3, <1>4, ChainEdit DEF Stirs

-----------------------------------------------------------------------------
(* The copy and the line events.                                           *)
LEMMA InSyncEdit ==
  ASSUME IInv, NEW first \in 0 .. MaxLines, NEW last \in 0 .. MaxLines,
         NEW new \in SeqsUpTo(Strings, MaxNew), Edit(first, last, new)
  PROVE  InSync'
<1> SUFFICES ASSUME snapshot' # None, ~ early'
             PROVE  /\ event' # None => Copy' = event'.before
                    /\ event' = None =>
                         \A i \in DOMAIN wire' : Foremost(i)' => Copy' = wire'[i].event.before
                    /\ event' = None /\ LinesAt' = {} => Copy' = text'
  BY DEF InSync
<1>1. /\ snapshot # None /\ ~ early /\ event' = event /\ Copy' = Copy
      /\ InSync /\ Attachment
  BY DEF Edit, IInv, Copy, Stored, copyVars, threadVars
<1>2. attached
  BY <1>1 DEF Attachment, Opening
<1>3. PICK n \in DOMAIN wire' :
         /\ n \in Int /\ \A i \in DOMAIN wire : i \in Int
         /\ \A i \in DOMAIN wire : i \in DOMAIN wire' /\ wire'[i] = wire[i] /\ i < n
         /\ LinesAt' = LinesAt \cup {n}
         /\ DOMAIN wire' = DOMAIN wire \cup {n}
         /\ wire'[n].event.before = text
         /\ After(wire'[n].event) = text'
         /\ Sensible(wire'[n].event)
  BY <1>2, EditAppended
<1>4. ASSUME event = None, NEW i \in DOMAIN wire', Foremost(i)'
      PROVE  Copy = wire'[i].event.before
  <2>1. i \in LinesAt' /\ \A j \in LinesAt : i <= j
    BY <1>3, <1>4 DEF Foremost
  <2>2. LinesAt \subseteq DOMAIN wire
    BY DEF LinesAt
  <2>3. CASE i = n
    <3>1. LinesAt = {}
      BY <1>3, <2>1, <2>2, <2>3
    <3>2. QED
      BY <1>1, <1>3, <1>4, <2>3, <3>1 DEF InSync
  <2>4. CASE i # n
    <3>1. Foremost(i)
      BY <1>3, <2>1, <2>4 DEF Foremost
    <3>2. QED
      BY <1>1, <1>3, <1>4, <2>1, <2>4, <3>1 DEF InSync
  <2>5. QED
    BY <2>3, <2>4
<1>5. LinesAt' # {} /\ (event # None => Copy = event.before)
  BY <1>1, <1>3 DEF InSync
<1>6. QED
  BY <1>1, <1>4, <1>5

LEMMA InSyncHandled ==
  ASSUME IInv, HandleLines
  PROVE  InSync'
<1> SUFFICES ASSUME snapshot # None, ~ early
             PROVE  /\ \A i \in DOMAIN wire : Foremost(i) => Copy' = wire[i].event.before
                    /\ LinesAt = {} => Copy' = text
  <2>1. /\ UNCHANGED <<snapshot, early, wire, text>> /\ event' = None
    BY DEF HandleLines, nvimVars
  <2>2. LinesAt' = LinesAt /\ \A i : Foremost(i)' <=> Foremost(i)
    BY <2>1 DEF LinesAt, Foremost
  <2>3. QED
    BY <2>1, <2>2 DEF InSync
<1>1. /\ event # None /\ total = None /\ pc' = pc
      /\ lines' = HandleLineEvent(lines, event.first, event.last, event.new)
  BY DEF HandleLines, threadVars
<1>2. Stored /\ Stored'
  BY <1>1, StoredByThen DEF Stored
<1>3. lines = event.before /\ Copy' = lines'
  BY <1>1, <1>2 DEF IInv, InSync, Copy
<1>4. Sensible(event) /\ event \in LineEvents
  BY <1>1 DEF IInv, TypeOK, Chain
<1>5. /\ event.first \in Nat /\ event.last \in Nat /\ event.new \in Seq(Strings)
      /\ lines \in Seq(Strings) /\ lines # <<>>
      /\ event.first <= event.last /\ event.last <= Len(lines)
      /\ ~ Overlooked(lines, event.first, event.last, event.new)
  BY <1>3, <1>4, EventFacts DEF Sensible
<1>6. lines' = After(event)
  <2>1. Broken \notin Seq(Strings) /\ Blank \in Strings
    BY SyncAssumption DEF Strings
  <2>2. lines' = Splice(lines, event.first, event.last, event.new)
    BY <1>1, <1>5, <2>1, HandleIsSplice
  <2>3. QED
    BY <1>3, <2>2 DEF After
<1>7. QED
  BY <1>1, <1>3, <1>6 DEF IInv, Chain

(* Neovim answers nvim_buf_get_lines.                                      *)
LEMMA InSyncSnapshot ==
  ASSUME IInv, Serve
  PROVE  InSync'
<1> DEFINE h == Head(toNvim)
<1>1. /\ TypeOK /\ TypeOK' /\ RepliesTracked /\ Attachment /\ Quiet /\ InSync
      /\ Main \in Threads
  <2>1. TypeOK'
    BY NvimType DEF IInv
  <2>2. QED
    BY <2>1, ThreadIds DEF IInv
<1>2. /\ h \in Threads /\ h = toNvim[1] /\ 1 \in DOMAIN toNvim /\ toNvim # <<>>
  BY <1>1, TailFacts DEF TypeOK, Serve
<1>3. /\ ReplyMsg(h) \in Messages /\ ReplyMsg(h).kind # "lines"
      /\ wire' = Append(wire, ReplyMsg(h))
  BY <1>2 DEF ReplyMsg, Messages, Serve
<1>4. /\ UNCHANGED <<text, event, early, lines, pc>>
      /\ snapshot' = IF pc[h] = "get_lines" THEN text ELSE snapshot
  BY DEF Serve, copyVars, threadVars
<1>5. Unmoved
  BY <1>1, <1>3, <1>4, AppendedUnmoved
<1>6. CASE pc[h] = "get_lines"
  <2>1. h = Main
    BY <1>1, <1>2, <1>6 DEF Attachment, Opening, Threads
  <2>2. call[Main] = "sent" /\ \A i \in DOMAIN wire : wire[i].kind = "reply" => wire[i].to # Main
    BY <1>1, <1>2, <2>1 DEF RepliesTracked
  <2>3. ~ Served(Main)
    BY <2>2 DEF Served
  <2>4. snapshot = None
    BY <1>1, <1>6, <2>1, <2>3 DEF Attachment, Opening
  <2>5. ~ early => LinesAt = {} /\ event = None
    BY <1>1, <2>4 DEF Quiet
  <2>6. PICK d \in {0, 1} : MovedBy(d)
    BY <1>5 DEF Unmoved
  <2>7. LinesAt' = {} <=> LinesAt = {}
    BY <1>1, <2>6, MoveFacts
  <2>8. Copy' = text'
    BY <1>4, <1>6, <2>1 DEF Copy, Stored
  <2>9. QED
    BY <1>4, <2>5, <2>7, <2>8 DEF InSync, Foremost
<1>7. CASE pc[h] # "get_lines"
  <2>1. snapshot' = snapshot /\ Copy' = Copy
    BY <1>4, <1>7 DEF Copy, Stored
  <2>2. QED
    BY <1>1, <1>4, <1>5, <2>1, InSyncMoved
<1>8. QED
  BY <1>6, <1>7

(* The initial lines are stored: they were the copy already.               *)
LEMMA CopyStored ==
  ASSUME IInv, StoreLines(Main), snapshot # None, ~ early
  PROVE  Copy' = Copy
<1>1. /\ pc[Main] = "get_lines" /\ pc'[Main] = "update_highlight"
      /\ lines' = Populated(lines) /\ snapshot' = snapshot
  BY Went, ThreadIds DEF StoreLines, nvimVars, IInv
<1>2. lines = <<>>
  BY <1>1 DEF IInv, Quiet, Opening
<1>3. <<>> # Broken
  <2>1. <<>> \in Seq(Strings)
    OBVIOUS
  <2>2. QED
    BY <2>1, SyncAssumption
<1>4. Populated(lines) = snapshot
  BY <1>2, <1>3 DEF Populated
<1>5. QED
  BY <1>1, <1>4 DEF Copy, Stored

LEMMA InSyncStep == IInv /\ Next => InSync'
<1> SUFFICES ASSUME IInv, Next PROVE InSync'
  OBVIOUS
<1>1. TypeOK /\ TypeOK' /\ InSync /\ Attachment /\ Attachment'
  BY TypeStep, AttachmentStep DEF IInv
<1>2. CASE ReadLines
  <2>1. UNCHANGED <<snapshot, early, lines, pc>>
    BY <1>2 DEF ReadLines, nvimVars, copyVars, threadVars
  <2>2. event = None /\ Foremost(1) /\ event' = wire[1].event /\ event' # None
    BY <1>1, <1>2, LinesRead DEF ReadLines
  <2>3. 1 \in DOMAIN wire
    BY <2>2 DEF Foremost, LinesAt
  <2>4. Copy' = Copy
    BY <2>1 DEF Copy, Stored
  <2>5. QED
    BY <1>1, <2>1, <2>2, <2>3, <2>4 DEF InSync
<1>3. CASE ~ Stirs /\ ~ Serve
  <2>1. Unmoved /\ early' = early
    BY <1>3, OthersUnmoved
  <2>2. snapshot' = snapshot
    <3>1. ASSUME NEW t \in Threads, ThreadStep(t) PROVE snapshot' = snapshot
      BY <3>1, GoesOn DEF Request, nvimVars
    <3>2. QED
      BY <1>3, <3>1 DEF Next, LoopStep, Stirs, Command, ReadReply, ReadCommand, nvimVars
  <2>3. ASSUME snapshot # None, ~ early PROVE Copy' = Copy
    <3>1. CASE StoreLines(Main)
      BY <2>3, <3>1, CopyStored
    <3>2. CASE ~ StoreLines(Main)
      <4>1. lines' = lines /\ (pc'[Main] \in Opening => pc[Main] \in Opening)
        BY <1>3, <3>2, OpeningStep DEF Stirs
      <4>2. pc[Main] \in Opening => pc'[Main] \in Opening
        <5>1. CASE pc'[Main] = pc[Main]
          BY <5>1
        <5>2. CASE ThreadStep(Main)
          <6>1. CASE Request(Main)
            BY <6>1 DEF Request
          <6>2. CASE Attached(Main) \/ LockForLines(Main)
            BY <1>1, <6>2, Went, ThreadIds DEF Attached, LockForLines, Opening
          <6>3. CASE LockForCommand(Main) \/ CurrentBuf(Main) \/ LockForUpdate(Main)
                     \/ UpdateDone(Main) \/ EventHalt(Main)
            BY <6>3 DEF LockForCommand, CurrentBuf, LockForUpdate, UpdateDone, EventHalt, Opening
          <6>4. QED
            BY <3>2, <5>2, <6>1, <6>2, <6>3 DEF ThreadStep
        <5>3. QED
          BY <5>1, <5>2, OpeningStep
      <4>3. Stored' <=> Stored
        BY <1>1, <4>1, <4>2 DEF Stored, Attachment, Opening
      <4>4. QED
        BY <2>2, <4>1, <4>3 DEF Copy
    <3>3. QED
      BY <3>1, <3>2
  <2>4. QED
    BY <1>1, <2>1, <2>2, <2>3, InSyncMoved
<1>4. QED
  BY <1>2, <1>3, InSyncEdit, InSyncHandled, InSyncSnapshot DEF Stirs

-----------------------------------------------------------------------------
LEMMA IInvStep == IInv /\ [Next]_vars => IInv'
<1> SUFFICES ASSUME IInv, [Next]_vars PROVE IInv'
  OBVIOUS
<1>1. CASE Next
  BY <1>1, TypeStep, LockStep, RepliesStep, CommandsStep, AttachmentStep, QuietStep,
     ChainStep, InSyncStep DEF IInv
<1>2. CASE UNCHANGED vars
  <2>1. UNCHANGED <<text, attached, snapshot, edits, early, command, toNvim, wire, event,
                    lines, initialized, total, autocmd_mutex, pc, call, halted>>
    BY <1>2 DEF vars, nvimVars, copyVars, threadVars
  <2>2. TypeOK' /\ LockInv' /\ RepliesTracked' /\ CommandsTracked'
    BY <2>1 DEF IInv, TypeOK, LockInv, RepliesTracked, CommandsTracked
  <2>3. Attachment' /\ Quiet'
    BY <2>1 DEF IInv, Attachment, Served, Quiet, LinesAt
  <2>4. Unmoved /\ Copy' = Copy
    BY <2>1, SameUnmoved DEF IInv, Copy, Stored
  <2>5. Chain' /\ InSync'
    BY <2>1, <2>2, <2>4, ChainMoved, InSyncMoved DEF IInv
  <2>6. QED
    BY <2>2, <2>3, <2>5 DEF IInv
<1>3. QED
  BY <1>1, <1>2

(* The thread that has lock.total waits for an answer that only the event  *)
(* loop can read, and the event loop waits for lock.total.                 *)
LEMMA WedgedStep == IInv /\ [Next]_vars => (Wedged => Wedged')
<1> SUFFICES ASSUME IInv, [Next]_vars, Wedged PROVE Wedged'
  OBVIOUS
<1>1. /\ TypeOK /\ RepliesTracked /\ LockInv
      /\ event # None /\ total \in Threads /\ call[total] = "sent"
  BY DEF IInv, Wedged, TypeOK
<1>2. UNCHANGED <<event, total>> /\ call'[total] = "sent"
  <2>1. CASE UNCHANGED vars
    BY <1>1, <2>1 DEF vars, threadVars
  <2>2. ASSUME NEW t \in Threads, ThreadStep(t)
        PROVE  UNCHANGED <<event, total>> /\ call'[total] = "sent"
    <3>1. CASE Request(t)
      BY <1>1, <3>1 DEF Request, TypeOK
    <3>2. CASE ~ Request(t)
      <4>1. t # total /\ event' = event /\ \E phase : Goto(t, phase)
        BY <1>1, <2>2, <3>2, GoesOn
      <4>2. call'[total] = "sent"
        BY <1>1, <4>1, Went
      <4>3. total # None /\ pc[t] \notin {"get_lines", "get_var"}
        BY <1>1, <2>2, <4>1, SyncAssumption DEF LockInv
      <4>4. total' = total
        BY <2>2, <3>2, <4>3 DEF ThreadStep, Attached, LockForLines, StoreLines,
             LockForCommand, CurrentBuf, LockForUpdate, UpdateDone, EventHalt
      <4>5. QED
        BY <4>1, <4>2, <4>4
    <3>3. QED
      BY <3>1, <3>2
  <2>3. ~ LoopStep
    BY <1>1, SyncAssumption DEF LoopStep, ReadReply, ReadCommand, ReadLines, HandleLines
  <2>4. CASE Serve \/ (\E t \in Commands, what \in {"update", "stop"} : Command(t, what))
             \/ (\E first, last \in 0 .. MaxLines, new \in SeqsUpTo(Strings, MaxNew) :
                   Edit(first, last, new))
    <3>1. UNCHANGED <<event, total, call>>
      BY <2>4 DEF Serve, Command, Edit, threadVars
    <3>2. QED
      BY <1>1, <3>1
  <2>5. QED
    BY <2>1, <2>2, <2>3, <2>4 DEF Next
<1>3. QED
  BY <1>1, <1>2 DEF Wedged

(* Every variable has its type, however many edits and commands there are. *)
THEOREM TypeCorrect == Spec => []TypeOK
<1>1. IInv => TypeOK
  BY DEF IInv
<1>2. QED
  BY InitIInv, IInvStep, <1>1, PTL DEF Spec

(* If no edit fell between nvim_buf_attach and neovim's answer to          *)
(* nvim_buf_get_lines, the initial lines and the line events meet: every   *)
(* event that handle_line_event applies is about exactly the lines of      *)
(* bdata->lines, and when none is under way those are neovim's.            *)
THEOREM CopyInSync == Spec => []InSync
<1>1. IInv => InSync
  BY DEF IInv
<1>2. QED
  BY InitIInv, IInvStep, <1>1, PTL DEF Spec

(* Once the event loop waits for lock.total while its owner waits for a    *)
(* reply, nothing in the program ever undoes it.                           *)
THEOREM Deadlocked == Spec => WedgedForever
<1>1. Spec => []IInv
  BY InitIInv, IInvStep, PTL DEF Spec
<1>2. IInv /\ [Next]_vars => [Wedged => Wedged']_vars
  BY WedgedStep
<1>3. QED
  BY <1>1, <1>2, PTL DEF Spec, WedgedForever
=============================================================================
