--------------------------- MODULE BufferRegistry ---------------------------
(***************************************************************************)
(* The registry of buffers (buffer_list in buffer.c) and the threads that  *)
(* look buffers up, open and destroy them: neovim_init, one event_autocmd  *)
(* per command, the event loop, one destroy_buffer_thread per detach and   *)
(* one highlight worker per line event.  The line copy, the project        *)
(* directories and what is highlighted have modules of their own: here an  *)
(* update is a remote call made with a pointer to the buffer.              *)
(*                                                                         *)
(* Nodes and Buffers are never reused: an index into nodes or bufs is a    *)
(* pointer.  A thread that follows a pointer to something freed sets       *)
(* undefined, and nothing is said of what happens after that.              *)
(***************************************************************************)
EXTENDS Integers, Sequences

CONSTANTS Nums,         \* numbers of buffers, from 1
          Known,        \* filetypes the plugin knows and does not skip
          Parsed,       \* those highlighted by a worker at each line event
          FirstTypes,   \* filetypes a buffer may have at first
          LaterTypes,   \* filetypes it may be given later
          Kinds,        \* the commands given by the user
          MaxMessages,  \* bound: notifications sent by neovim
          None

ASSUME RegistryAssumption == /\ Nums \subseteq Nat \ {0}
                             /\ Parsed \subseteq Known
                             /\ FirstTypes # {}
                             /\ Kinds \subseteq {"changed", "syntax", "want", "force"}
                             /\ MaxMessages \in Nat
                             /\ None \notin Known \cup Int

VARIABLES current,   \* neovim: the current buffer
          ft,        \* neovim: [Nums -> filetype]
          attached,  \* neovim: the buffers whose events it reports
          sent,      \* neovim: how many notifications it has sent
          wire,      \* messages the event loop has not read
          loop,      \* the event loop: what it does, with which Buffer
          nodes,     \* every buffer_node ever allocated
          list,      \* buffer_list: indices into nodes
          list_lock, \* the owner of buffer_list->lock while it is blocked
          bufs,      \* every Buffer ever allocated
          previous,  \* global_previous_buffer
          autocmd_mutex, \* its owner, or None
          th,        \* [Threads -> state of the thread]
          closed,    \* history: numbers that were taken off their node
          hurried,   \* history: did a command begin before neovim_init had its lines?
          refused,   \* history: was a listed node opened again, with an unknown filetype?
          undefined, \* history: who followed a dead pointer, and for which number
          aborted    \* the number errx was called for, or None

nvim == <<current, ft, attached, sent>>
registry == <<nodes, list, list_lock, bufs>>
excuses == <<hurried, refused>>
history == <<closed, excuses, undefined, aborted>>
vars == <<nvim, wire, loop, registry, previous, autocmd_mutex, th, history>>

Main == 0
Threads == 0 .. MaxMessages   \* neovim_init, and at most one per notification
Loop == -1
Live == undefined = None /\ aborted = None

Reading == [pc |-> "read", num |-> None, node |-> 0, buf |-> 0]
NoThread == [kind |-> None, pc |-> "idle", waiting |-> FALSE, ans |-> None,
             num |-> None, node |-> 0, buf |-> 0, prev |-> 0]

(* A thread of a kind that starts at a point, with what it is about.       *)
NewThread(k, p, n, b) == [NoThread EXCEPT !.kind = k, !.pc = p, !.num = n, !.buf = b]

FreeThread == CHOOSE t \in Threads : /\ th[t].pc = "idle"
                                     /\ \A u \in Threads : u < t => th[u].pc # "idle"

At(t, p) == th[t].pc = p /\ ~ th[t].waiting
Goto(t, p) == th' = [th EXCEPT ![t].pc = p]

(* A blocking remote call: neovim's answer queues up behind the messages   *)
(* it has already sent, and the event loop hands it over.                  *)
Call(t, p, a) == /\ th' = [th EXCEPT ![t].pc = p, ![t].waiting = TRUE, ![t].ans = a]
                 /\ wire' = Append(wire, [type |-> "reply", num |-> t])

Alive(b) == b # 0 /\ bufs[b].alive

(* Thread t follows a dead pointer.                                        *)
Stray(t) == /\ undefined' = [kind |-> IF t = Loop THEN "loop" ELSE th[t].kind,
                             num  |-> IF t = Loop THEN loop.num ELSE th[t].num]
            /\ UNCHANGED <<nvim, wire, loop, registry, previous, autocmd_mutex, th, closed, excuses, aborted>>

(* lock.total of a Buffer is kept over calls to neovim by whoever gets its *)
(* lines, updates it without a parser, or clears what such an update did.  *)
HasTotal(t) == \/ th[t].pc = "got_lines"
               \/ th[t].pc = "updated" /\ bufs[th[t].buf].ft \notin Parsed
               \/ th[t].pc \in {"unlist", "drain"} /\ th[t].waiting
Locked(b) == \E t \in Threads : th[t].buf = b /\ HasTotal(t)

-----------------------------------------------------------------------------
(* find_buffer_node walks the list, with its lock held and each node's     *)
(* read lock taken in turn, until it finds the number.                     *)
Positions(n) == {i \in 1 .. Len(list) : nodes[list[i]].num = n}
FirstAt(n) == CHOOSE i \in Positions(n) : \A j \in Positions(n) : i <= j
Visited(n) == IF Positions(n) = {} THEN 1 .. Len(list) ELSE 1 .. FirstAt(n)

find_buffer_node(n) == IF Positions(n) = {} THEN 0 ELSE list[FirstAt(n)]

find_buffer(n) == LET b == find_buffer_node(n)
                  IN  IF b # 0 /\ nodes[b].isopen THEN nodes[b].bdata ELSE 0

Blocked(n) == \E i \in Visited(n) : nodes[list[i]].writer # None
Dangling(n) == \E i \in Visited(n) : ~ nodes[list[i]].alive

Walk(me, n) == list_lock \in {None, me} /\ ~ Dangling(n) /\ ~ Blocked(n)
LeaveList == list_lock' = None

(* Somebody about to look n up cannot: the walk meets a freed node, or a   *)
(* node that is being opened, and then keeps the list lock.                *)
CannotWalk(me, n) ==
  /\ list_lock \in {None, me}
  /\ \/ Dangling(n) /\ Stray(me)
     \/ /\ ~ Dangling(n)
        /\ Blocked(n)
        /\ list_lock = None
        /\ list_lock' = me
        /\ UNCHANGED <<nvim, wire, loop, nodes, list, bufs, previous, autocmd_mutex, th, history>>

-----------------------------------------------------------------------------
(* Neovim (external), with the vimscript half of the plugin.               *)
Announce(m) == /\ sent < MaxMessages
               /\ sent' = sent + 1
               /\ wire' = Append(wire, m)
               /\ UNCHANGED <<loop, registry, previous, autocmd_mutex, th, history>>

Command(k) == /\ k \in Kinds
              /\ Announce([type |-> k, num |-> 0])
              /\ UNCHANGED attached

EnterBuffer(n) == Command("changed") /\ n # current /\ current' = n /\ UNCHANGED ft
SetFiletype(f) == Command("syntax") /\ f # ft[current] /\ ft' = [ft EXCEPT ![current] = f] /\ UNCHANGED current
UserUpdate(k) == k \in {"want", "force"} /\ Command(k) /\ UNCHANGED <<current, ft>>
EditBuffer(n) == n \in attached /\ Announce([type |-> "lines", num |-> n]) /\ UNCHANGED <<current, ft, attached>>
UnloadBuffer(n) == /\ n \in attached \ {current}
                   /\ Announce([type |-> "detach", num |-> n])
                   /\ attached' = attached \ {n}
                   /\ UNCHANGED <<current, ft>>

-----------------------------------------------------------------------------
(* Mutant: messages are read although an event is being handled.           *)
ReadAnyway(S) == /\ Live
                 /\ wire # <<>>
                 /\ Head(wire).type \in S
                 /\ wire' = Tail(wire)

(* The event loop: handle_nvim_message.                                    *)
Read(S) == /\ Live
           /\ loop.pc = "read"
           /\ wire # <<>>
           /\ Head(wire).type \in S
           /\ wire' = Tail(wire)

ReadReply == /\ Read({"reply"})
             /\ th' = [th EXCEPT ![Head(wire).num].waiting = FALSE]
             /\ UNCHANGED <<nvim, loop, registry, previous, autocmd_mutex, history>>

(* event_autocmd runs on a thread of its own.                              *)
ReadCommand == /\ Read(Kinds)
               /\ th' = [th EXCEPT ![FreeThread] = NewThread(Head(wire).type, "lock", None, 0)]
               /\ UNCHANGED <<nvim, loop, registry, previous, autocmd_mutex, history>>

(* Notifications about a buffer that nobody finds end the program.         *)
ReadEvent == /\ Read({"lines", "detach"})
             /\ loop' = [pc |-> Head(wire).type, num |-> Head(wire).num, node |-> 0, buf |-> 0]
             /\ UNCHANGED <<nvim, registry, previous, autocmd_mutex, th, history>>

LoopCannotFind == /\ Live
                  /\ loop.pc \in {"lines", "detach"}
                  /\ loop.node = 0
                  /\ CannotWalk(Loop, loop.num)

LoopFind == /\ Live
            /\ loop.pc \in {"lines", "detach"}
            /\ loop.node = 0
            /\ Walk(Loop, loop.num)
            /\ LeaveList
            /\ LET k == find_buffer_node(loop.num) IN
                 IF k = 0 THEN aborted' = loop.num /\ UNCHANGED loop
                          ELSE loop' = [loop EXCEPT !.node = k] /\ UNCHANGED aborted
            /\ UNCHANGED <<nvim, wire, nodes, list, bufs, previous, autocmd_mutex, th, closed, excuses, undefined>>

(* Mutant: only buffers that are initialized are found.                    *)
LoopReadInitialized ==
  LET k == loop.node
      b == nodes[k].bdata
  IN
  /\ Live
  /\ k # 0
  /\ loop.buf = 0
  /\ nodes[k].alive /\ nodes[k].writer = None
  /\ IF nodes[k].isopen /\ b # 0 /\ bufs[b].initialized
     THEN loop' = [loop EXCEPT !.buf = b] /\ UNCHANGED aborted
     ELSE aborted' = loop.num /\ UNCHANGED loop
  /\ UNCHANGED <<nvim, wire, registry, previous, autocmd_mutex, th, closed, excuses, undefined>>

(* find_buffer reads the node after the walk, when the list is unlocked.   *)
LoopReadNode ==
  LET k == loop.node IN
  /\ Live
  /\ k # 0
  /\ loop.buf = 0
  /\ IF ~ nodes[k].alive THEN Stray(Loop)
     ELSE /\ nodes[k].writer = None
          /\ IF nodes[k].isopen /\ nodes[k].bdata # 0
             THEN loop' = [loop EXCEPT !.buf = nodes[k].bdata] /\ UNCHANGED aborted
             ELSE aborted' = loop.num /\ UNCHANGED loop
          /\ UNCHANGED <<nvim, wire, registry, previous, autocmd_mutex, th, closed, excuses, undefined>>

(* handle_buffer_update, which waits for lock.total and ends in starting a *)
(* worker, or the start of a destroy_buffer_thread.  Only a blank line in  *)
(* an empty buffer does not make it an initialized one.                    *)
LoopHandle ==
  LET b == loop.buf IN
  /\ Live
  /\ b # 0
  /\ \/ loop.pc = "lines" /\ ~ Alive(b) /\ Stray(Loop)
     \/ /\ loop.pc = "lines" /\ Alive(b) /\ ~ Locked(b)
        /\ \E blank \in BOOLEAN : bufs' = [bufs EXCEPT ![b].initialized = @ \/ ~ blank]
        /\ th' = IF bufs[b].ft \in Parsed
                 THEN [th EXCEPT ![FreeThread] = NewThread("worker", "enter", loop.num, b)]
                 ELSE th
        /\ loop' = Reading
        /\ UNCHANGED <<nvim, wire, nodes, list, list_lock, previous, autocmd_mutex, history>>
     \/ /\ loop.pc = "detach"
        /\ th' = [th EXCEPT ![FreeThread] = NewThread("destroyer", "clear", loop.num, b)]
        /\ loop' = Reading
        /\ UNCHANGED <<nvim, wire, registry, previous, autocmd_mutex, history>>

-----------------------------------------------------------------------------
(* Threads.  Most steps use the Buffer they hold: Use(t, p) is the part    *)
(* common to them, for a thread at p whose Buffer is there.                *)
Use(t, p) == Live /\ At(t, p) /\ Alive(th[t].buf)

Uses == {"update", "attach", "lines", "got_lines", "updated", "compare", "judge",
         "clear", "unlist", "drain", "free", "enter", "work", "join", "leave", "suspend"}

UseFreed(t) == \E p \in Uses : Live /\ At(t, p) /\ th[t].buf # 0 /\ ~ Alive(th[t].buf) /\ Stray(t)

(* event_buffer_changed uses another one, that of the buffer before.       *)
UsePrevious(t) == /\ Live
                  /\ At(t, "suspend")
                  /\ th[t].prev # 0
                  /\ ~ Alive(th[t].prev)
                  /\ undefined' = [kind |-> th[t].kind, num |-> bufs[th[t].prev].num]
                  /\ UNCHANGED <<nvim, wire, loop, registry, previous, autocmd_mutex, th, closed, excuses, aborted>>

(* neovim_init does not take autocmd_mutex, as every command does: only    *)
(* at these points it has opened its buffer, or given up.                  *)
Settled == {"update", "updated", "end", "gone"}
Begin(t) == /\ Live
            /\ \/ At(t, "start") /\ Call(t, "init", current) /\ UNCHANGED <<autocmd_mutex, hurried>>
               \/ /\ At(t, "lock")
                  /\ autocmd_mutex = None
                  /\ autocmd_mutex' = t
                  /\ hurried' = (hurried \/ th[Main].pc \notin Settled)
                  /\ Call(t, th[t].kind, current)
            /\ UNCHANGED <<nvim, loop, registry, previous, closed, refused, undefined, aborted>>

Opening(t) == Live /\ (At(t, "init") \/ At(t, "find"))
OpeningNum(t) == IF At(t, "init") THEN th[t].ans ELSE th[t].num

(* A command looks its buffer up.                                          *)
Looks == {"changed", "syntax", "want", "force"}
Looking(t) == Live /\ \E p \in Looks : At(t, p)

(* Whoever walks the list for a number may be held up on the way.          *)
Seeks(t, n) == \/ th[t].pc \in Looks \cup {"previous", "init"} /\ n = th[t].ans
               \/ th[t].pc \in {"find", "unlist"} /\ n = th[t].num
Wants(t, n) == /\ Live
               /\ Seeks(t, n)
               /\ ~ th[t].waiting
               /\ th[t].pc = "unlist" => Alive(th[t].buf)
CannotLook(t) == \E n \in Nums \cup {None} : Wants(t, n) /\ CannotWalk(t, n)

Look(t) ==
  /\ Looking(t)
  /\ Walk(t, th[t].ans)
  /\ LeaveList
  /\ LET n == th[t].ans
         b == find_buffer(n)
         r == CASE th[t].pc = "changed" /\ previous = n /\ b # 0 -> "end"
                [] th[t].pc = "changed" /\ (previous # n \/ b = 0) -> "previous"
                [] th[t].pc = "syntax" -> IF b = 0 THEN "end" ELSE "compare"
                [] th[t].pc = "want"   -> IF b = 0 /\ find_buffer_node(n) # 0 THEN "find" ELSE "end"
                [] th[t].pc = "force"  -> IF b = 0 THEN "find" ELSE "update"
     IN  th' = [th EXCEPT ![t].pc = r, ![t].num = n, ![t].buf = b,
                          ![t].ans = IF r = "previous" THEN previous ELSE None]
  /\ previous' = th[t].ans
  /\ UNCHANGED <<nvim, wire, loop, nodes, list, bufs, autocmd_mutex, history>>

(* event_buffer_changed also looks up the buffer before, to suspend its    *)
(* translation unit; it attaches to what is not there, or not initialized. *)
FindPrevious(t) ==
  /\ Live
  /\ At(t, "previous")
  /\ Walk(t, th[t].ans)
  /\ LeaveList
  /\ th' = [th EXCEPT ![t].pc = "suspend", ![t].prev = find_buffer(th[t].ans)]
  /\ UNCHANGED <<nvim, wire, loop, nodes, list, bufs, previous, autocmd_mutex, history>>

Suspend(t) ==
  /\ Live
  /\ At(t, "suspend")
  /\ \A b \in {th[t].prev, th[t].buf} : b = 0 \/ Alive(b)
  /\ th' = [th EXCEPT ![t].pc = IF th[t].buf # 0 /\ bufs[th[t].buf].initialized
                                THEN "update" ELSE "find",
                      ![t].prev = 0]
  /\ UNCHANGED <<nvim, wire, loop, registry, previous, autocmd_mutex, history>>

(* event_syntax_changed destroys a buffer whose filetype is another now.   *)
AskFiletype(t) == /\ Use(t, "compare")
                  /\ Call(t, "judge", ft[th[t].num])
                  /\ UNCHANGED <<nvim, loop, registry, previous, autocmd_mutex, history>>
Judge(t) == /\ Use(t, "judge")
            /\ Goto(t, IF th[t].ans = bufs[th[t].buf].ft THEN "end" ELSE "clear")
            /\ UNCHANGED <<nvim, wire, loop, registry, previous, autocmd_mutex, history>>

-----------------------------------------------------------------------------
(* new_buffer: the node, found or new (a new one is not in the list yet).  *)
FindNode(t) ==
  /\ Opening(t)
  /\ Walk(t, OpeningNum(t))
  /\ LeaveList
  /\ LET n == OpeningNum(t)
         b == find_buffer_node(n)
     IN  /\ nodes' = IF b # 0 THEN nodes
                     ELSE Append(nodes, [num |-> n, isopen |-> FALSE, bdata |-> 0, alive |-> TRUE, writer |-> None])
         /\ th' = [th EXCEPT ![t].pc = "open", ![t].num = n, ![t].buf = 0,
                             ![t].node = IF b # 0 THEN b ELSE Len(nodes) + 1]
  /\ UNCHANGED <<nvim, wire, loop, list, bufs, previous, autocmd_mutex, history>>

(* make_new_buffer marks the node open and asks for the filetype, all with *)
(* the node's write lock held; an open node is refused.                    *)
OpenNode(t) ==
  LET b == th[t].node IN
  /\ Live
  /\ At(t, "open")
  /\ IF ~ nodes[b].alive THEN Stray(t)
     ELSE /\ nodes[b].writer = None
          /\ IF nodes[b].isopen
             THEN Goto(t, "failed") /\ UNCHANGED <<wire, nodes>>
             ELSE /\ nodes' = [nodes EXCEPT ![b].isopen = TRUE, ![b].writer = t]
                  /\ Call(t, "make", ft[th[t].num])
          /\ UNCHANGED <<nvim, loop, list, list_lock, bufs, previous, autocmd_mutex, history>>

MakeBuffer(t) ==
  LET b == th[t].node
      made == th[t].ans \in Known
  IN
  /\ Live
  /\ At(t, "make")
  /\ bufs' = IF made THEN Append(bufs, [num |-> th[t].num, ft |-> th[t].ans, alive |-> TRUE,
                                        initialized |-> FALSE, workers |-> 0])
                     ELSE bufs
  /\ nodes' = [nodes EXCEPT ![b].writer = None, ![b].bdata = IF made THEN Len(bufs) + 1 ELSE @]
  /\ th' = [th EXCEPT ![t].pc = IF made THEN "append" ELSE "failed",
                      ![t].buf = IF made THEN Len(bufs) + 1 ELSE 0]
  /\ refused' = (refused \/ (~ made /\ \E i \in 1 .. Len(list) : list[i] = b))
  /\ UNCHANGED <<nvim, wire, loop, list, list_lock, previous, autocmd_mutex, closed, hurried, undefined, aborted>>

(* Success: the node is listed, again if it already was.                   *)
AppendNode(t) ==
  /\ Live
  /\ At(t, "append")
  /\ list_lock = None
  /\ list' = Append(list, th[t].node)
  /\ Goto(t, "attach")
  /\ UNCHANGED <<nvim, wire, loop, nodes, list_lock, bufs, previous, autocmd_mutex, history>>

(* Failure: the node is freed, even if it is listed; destroy_buffer_node   *)
(* takes its Buffer along.                                                 *)
FreeNode(t) ==
  LET b == th[t].node IN
  /\ Live
  /\ At(t, "failed")
  /\ IF ~ nodes[b].alive THEN Stray(t)
     ELSE /\ IF nodes[b].bdata # 0
             THEN th' = [th EXCEPT ![t].pc = "clear", ![t].buf = nodes[b].bdata] /\ UNCHANGED nodes
             ELSE nodes' = [nodes EXCEPT ![b].alive = FALSE] /\ Goto(t, "end")
          /\ UNCHANGED <<nvim, wire, loop, list, list_lock, bufs, previous, autocmd_mutex, history>>

-----------------------------------------------------------------------------
(* attach_new_buffer and the rest of neovim_init: attach, take the lines,  *)
(* update.                                                                 *)
Attach(t) ==
  /\ Use(t, "attach")
  /\ attached' = attached \cup {th[t].num}
  /\ previous' = IF t = Main THEN th[t].num ELSE previous
  /\ Call(t, "lines", None)
  /\ UNCHANGED <<current, ft, sent, loop, registry, autocmd_mutex, history>>

GetLines(t) == /\ Use(t, "lines")
               /\ ~ Locked(th[t].buf)
               /\ Call(t, "got_lines", None)
               /\ UNCHANGED <<nvim, loop, registry, previous, autocmd_mutex, history>>

Initialize(t) == /\ Use(t, "got_lines")
                 /\ bufs' = [bufs EXCEPT ![th[t].buf].initialized = TRUE]
                 /\ Goto(t, "update")
                 /\ UNCHANGED <<nvim, wire, loop, nodes, list, list_lock, previous, autocmd_mutex, history>>

Update(t) == /\ Use(t, "update")
             /\ ~ Locked(th[t].buf)
             /\ Call(t, "updated", None)
             /\ UNCHANGED <<nvim, loop, registry, previous, autocmd_mutex, history>>

Updated(t) == /\ Use(t, "updated")
              /\ Goto(t, "end")
              /\ UNCHANGED <<nvim, wire, loop, registry, previous, autocmd_mutex, history>>

(* Mutant: a command ends without giving autocmd_mutex back.               *)
EndLocked(t) == /\ Live
                /\ At(t, "end")
                /\ Goto(t, "gone")
                /\ UNCHANGED <<nvim, wire, loop, registry, previous, autocmd_mutex, history>>

End(t) == /\ Live
          /\ At(t, "end")
          /\ Goto(t, "gone")
          /\ autocmd_mutex' = IF autocmd_mutex = t THEN None ELSE autocmd_mutex
          /\ UNCHANGED <<nvim, wire, loop, registry, previous, history>>

-----------------------------------------------------------------------------
(* destroy_buffer.  Without DES_BUF_DESTROY_NODE when a node is freed.     *)
ClearHighlight(t) ==
  /\ Use(t, "clear")
  /\ ~ Locked(th[t].buf)
  /\ LET p == IF th[t].node = 0 THEN "unlist" ELSE "drain"
     IN  IF bufs[th[t].buf].ft \in Parsed THEN Goto(t, p) /\ UNCHANGED wire ELSE Call(t, p, None)
  /\ UNCHANGED <<nvim, loop, registry, previous, autocmd_mutex, history>>

(* Mutant: the node stays open, without its Buffer.                        *)
CloseNodeHalf(t) ==
  LET n == th[t].num IN
  /\ Use(t, "unlist")
  /\ Walk(t, n)
  /\ LeaveList
  /\ nodes' = [nodes EXCEPT ![find_buffer_node(n)].bdata = 0]
  /\ closed' = closed \cup {n}
  /\ Goto(t, "drain")
  /\ UNCHANGED <<nvim, wire, loop, list, bufs, previous, autocmd_mutex, excuses, undefined, aborted>>

(* Mutant: the Buffer stays on its node.                                   *)
NodeKept(t) == /\ Use(t, "unlist")
               /\ Walk(t, th[t].num)
               /\ LeaveList
               /\ closed' = closed \cup {th[t].num}
               /\ Goto(t, "drain")
               /\ UNCHANGED <<nvim, wire, loop, nodes, list, bufs, previous, autocmd_mutex, excuses, undefined, aborted>>

CloseNode(t) ==
  LET n == th[t].num IN
  /\ Use(t, "unlist")
  /\ Walk(t, n)
  /\ LeaveList
  /\ nodes' = [nodes EXCEPT ![find_buffer_node(n)].isopen = FALSE, ![find_buffer_node(n)].bdata = 0]
  /\ closed' = closed \cup {n}
  /\ Goto(t, "drain")
  /\ UNCHANGED <<nvim, wire, loop, list, bufs, previous, autocmd_mutex, excuses, undefined, aborted>>

ShutDoor(t) == /\ Use(t, "drain")
               /\ bufs' = [bufs EXCEPT ![th[t].buf].initialized = FALSE]
               /\ Goto(t, "free")
               /\ UNCHANGED <<nvim, wire, loop, nodes, list, list_lock, previous, autocmd_mutex, history>>

(* When the last worker has left.  A changed filetype goes on to attach.   *)
FreeBuffer(t) ==
  /\ Use(t, "free")
  /\ bufs[th[t].buf].workers = 0
  /\ bufs' = [bufs EXCEPT ![th[t].buf].alive = FALSE]
  /\ nodes' = IF th[t].node = 0 THEN nodes ELSE [nodes EXCEPT ![th[t].node].alive = FALSE]
  /\ Goto(t, IF th[t].kind = "syntax" /\ th[t].node = 0 THEN "find" ELSE "end")
  /\ UNCHANGED <<nvim, wire, loop, list, list_lock, previous, autocmd_mutex, history>>

-----------------------------------------------------------------------------
(* A highlight worker: HighlightWorkers tells the whole story.             *)
WorkerEnter(t) == /\ Use(t, "enter")
                  /\ Goto(t, IF bufs[th[t].buf].initialized THEN "work" ELSE "end")
                  /\ UNCHANGED <<nvim, wire, loop, registry, previous, autocmd_mutex, history>>

WorkerCountIn(t) == /\ Use(t, "work")
                    /\ bufs' = [bufs EXCEPT ![th[t].buf].workers = @ + 1]
                    /\ Goto(t, "join")
                    /\ UNCHANGED <<nvim, wire, loop, nodes, list, list_lock, previous, autocmd_mutex, history>>

(* It takes the lines, for which it needs lock.total, and highlights them. *)
WorkerHighlight(t) == /\ Use(t, "join")
                      /\ ~ Locked(th[t].buf)
                      /\ Call(t, "leave", None)
                      /\ UNCHANGED <<nvim, loop, registry, previous, autocmd_mutex, history>>

(* Mutant: a worker counts itself out twice.                               *)
WorkerCountOutTwice(t) == /\ Use(t, "leave")
                          /\ bufs' = [bufs EXCEPT ![th[t].buf].workers = @ - 2]
                          /\ Goto(t, "end")
                          /\ UNCHANGED <<nvim, wire, loop, nodes, list, list_lock, previous, autocmd_mutex, history>>

WorkerCountOut(t) == /\ Use(t, "leave")
                     /\ bufs' = [bufs EXCEPT ![th[t].buf].workers = @ - 1]
                     /\ Goto(t, "end")
                     /\ UNCHANGED <<nvim, wire, loop, nodes, list, list_lock, previous, autocmd_mutex, history>>

-----------------------------------------------------------------------------
Init ==
  /\ current \in Nums
  /\ ft \in [Nums -> FirstTypes]
  /\ attached = {}
  /\ sent = 0
  /\ wire = <<>>
  /\ loop = Reading
  /\ nodes = <<>>
  /\ list = <<>>
  /\ list_lock = None
  /\ bufs = <<>>
  /\ previous = None
  /\ autocmd_mutex = None
  /\ th = [t \in Threads |-> IF t = Main THEN NewThread("main", "start", None, 0) ELSE NoThread]
  /\ closed = {}
  /\ hurried = FALSE
  /\ refused = FALSE
  /\ undefined = None
  /\ aborted = None

LoopStep == \/ ReadReply \/ ReadCommand \/ ReadEvent
            \/ LoopCannotFind \/ LoopFind \/ LoopReadNode \/ LoopHandle

ThreadStep(t) ==
  \/ UseFreed(t) \/ UsePrevious(t) \/ Begin(t)
  \/ CannotLook(t) \/ Look(t) \/ FindPrevious(t) \/ Suspend(t)
  \/ AskFiletype(t) \/ Judge(t)
  \/ FindNode(t) \/ OpenNode(t) \/ MakeBuffer(t) \/ AppendNode(t) \/ FreeNode(t)
  \/ Attach(t) \/ GetLines(t) \/ Initialize(t) \/ Update(t) \/ Updated(t) \/ End(t)
  \/ ClearHighlight(t) \/ CloseNode(t) \/ ShutDoor(t) \/ FreeBuffer(t)
  \/ WorkerEnter(t) \/ WorkerCountIn(t) \/ WorkerHighlight(t) \/ WorkerCountOut(t)

NvimStep ==
  /\ Live
  /\ \/ \E n \in Nums : EnterBuffer(n) \/ EditBuffer(n) \/ UnloadBuffer(n)
     \/ \E f \in LaterTypes : SetFiletype(f)
     \/ \E k \in Kinds : UserUpdate(k)

Next == NvimStep \/ LoopStep \/ \E t \in Threads : ThreadStep(t)

Spec == Init /\ [][Next]_vars

(* The system keeps every thread and the event loop running.               *)
FairSpec == Spec /\ WF_vars(LoopStep) /\ \A t \in Threads : WF_vars(ThreadStep(t))

-----------------------------------------------------------------------------
Filetypes == Known \cup FirstTypes \cup LaterTypes
Messages == [type : Kinds \cup {"lines", "detach", "reply"}, num : Nums \cup Threads]
Pcs == Uses \cup Looks \cup {"idle", "start", "lock", "init", "previous", "find", "open", "make",
                             "append", "failed", "end", "gone"}

(* Every variable holds what the code can put there.                       *)
TypeOK ==
  /\ current \in Nums /\ ft \in [Nums -> Filetypes] /\ attached \subseteq Nums
  /\ sent \in 0 .. MaxMessages
  /\ wire \in Seq(Messages)
  /\ loop \in [pc : {"read", "lines", "detach"}, num : Nums \cup {None},
              node : 0 .. Len(nodes), buf : 0 .. Len(bufs)]
  /\ nodes \in Seq([num : Nums, isopen : BOOLEAN, bdata : 0 .. Len(bufs), alive : BOOLEAN,
                    writer : Threads \cup {None}])
  /\ list \in Seq(1 .. Len(nodes))
  /\ list_lock \in Threads \cup {Loop, None}
  /\ bufs \in Seq([num : Nums, ft : Known, alive : BOOLEAN, initialized : BOOLEAN, workers : Threads])
  /\ previous \in Nums \cup {None}
  /\ autocmd_mutex \in Threads \cup {None}
  /\ th \in [Threads -> [kind : Kinds \cup {"main", "destroyer", "worker", None}, pc : Pcs,
                         waiting : BOOLEAN, ans : Nums \cup Filetypes \cup {None},
                         num : Nums \cup {None}, node : 0 .. Len(nodes), buf : 0 .. Len(bufs), prev : 0 .. Len(bufs)]]
  /\ closed \subseteq Nums
  /\ hurried \in BOOLEAN /\ refused \in BOOLEAN
  /\ aborted \in Nums \cup {None}

(* A number has one node: new_buffer looks for a node before it makes one, *)
(* and lists it in a later step; autocmd_mutex keeps two commands from     *)
(* doing so for one buffer, however the buffer was closed in between.      *)
OneNode == \A i, j \in 1 .. Len(list) :
             nodes[list[i]].num = nodes[list[j]].num => list[i] = list[j]

(* No node is freed while buffer_list refers to it, though new_buffer frees *)
(* whatever node it could not open.                                        *)
ListedAlive == \A i \in 1 .. Len(list) : nodes[list[i]].alive

(* find_buffer never returns a Buffer already freed, or another number's:  *)
(* destroy_buffer empties the node first, and a late destroy_buffer_thread *)
(* cannot be mistaken about the node.                                      *)
FoundIsLive == Live => \A n \in Nums : LET b == find_buffer(n) IN
                         b # 0 => bufs[b].alive /\ bufs[b].num = n

(* What buffer_list says of a number is true, and safe to follow: unless a *)
(* command began while neovim_init was still opening its buffer, or a      *)
(* buffer that the plugin knew was given a filetype it does not know.      *)
ListSound == hurried \/ refused \/ (OneNode /\ ListedAlive /\ FoundIsLive)

(* "Update called on uninitialized buffer." ends the program only after    *)
(* the program itself has taken the buffer off its node: a buffer is       *)
(* listed before neovim is asked for its events.                           *)
AbortCause == aborted # None => aborted \in closed

(* Commands never use a Buffer that another command destroyed: what they   *)
(* can stumble over is a detach, which is handled without autocmd_mutex.   *)
CommandsSafe ==
  undefined # None /\ undefined.kind \in Kinds =>
    \/ hurried \/ refused
    \/ \E u \in Threads : th[u].kind = "destroyer" /\ th[u].num = undefined.num

(* The event loop needs the list, which is locked by somebody, perhaps the *)
(* event loop, on the way to a node whose writer waits for the event loop. *)
ListWedge == /\ loop.pc # "read" /\ loop.node = 0
             /\ list_lock # None
             /\ \E n \in Nums \cup {None} :
                  /\ IF list_lock = Loop THEN n = loop.num ELSE Seeks(list_lock, n)
                  /\ \E i \in Visited(n) : LET w == nodes[list[i]].writer IN w # None /\ th[w].waiting

(* It needs the node it found, whose writer waits for the event loop.      *)
NodeWedge == /\ loop.node # 0 /\ loop.buf = 0
             /\ LET w == nodes[loop.node].writer IN w # None /\ th[w].waiting

(* It needs lock.total, whose owner waits for the event loop.              *)
TotalWedge == /\ loop.pc = "lines" /\ loop.buf # 0
              /\ \E t \in Threads : th[t].buf = loop.buf /\ HasTotal(t) /\ th[t].waiting

Wedged == ListWedge \/ NodeWedge \/ TotalWedge

(* Once the event loop and a thread wait for each other in one of these    *)
(* ways, neither gets on again.                                            *)
WedgedForever == [][Wedged => Wedged']_vars

(* Every command, worker and destroyer comes to its end: again and again    *)
(* none is under way, unless that happens or the program does not survive.  *)
ThreadsEnd == []<>(Wedged \/ ~ Live \/ \A t \in Threads : th[t].pc \in {"idle", "gone"})
=============================================================================
