------------------------ MODULE BufferRegistryProofs ------------------------
(* Proofs about BufferRegistry, for any buffers, filetypes and number of    *)
(* messages.                                                               *)
EXTENDS BufferRegistry, FiniteSetTheorems, NaturalsInduction, SequenceTheorems, TLAPS

-----------------------------------------------------------------------------
(* What TypeOK needs to be inductive.                                      *)

(* Messages are about what their type says.                                *)
WireSound == \A i \in 1 .. Len(wire) :
               /\ wire[i].type = "reply" => wire[i].num \in Threads
               /\ wire[i].type \in {"lines", "detach"} => wire[i].num \in Nums

LoopSound == /\ IF loop.pc = "read" THEN loop.node = 0 ELSE loop.num \in Nums
             /\ loop.node = 0 => loop.buf = 0

(* Points at which a thread may have no number of a buffer yet.            *)
Unplaced == Looks \cup {"idle", "start", "lock", "init", "end", "gone"}

ThreadSound(t) ==
  /\ th[t].pc \in Looks \cup {"init"} => th[t].ans \in Nums
  /\ th[t].pc = "previous" => th[t].ans \in Nums \cup {None}
  /\ th[t].pc \notin Unplaced => th[t].num \in Nums
  /\ th[t].pc \in {"open", "make", "append", "failed"} => th[t].node # 0

(* neovim_init is not a thread of another kind.                            *)
KindSound(t) ==
  /\ t = Main => th[t].kind = "main" /\ th[t].pc \notin {"idle", "lock", "enter", "work", "join", "leave"}
  /\ th[t].pc = "lock" => th[t].kind \in Kinds
  /\ th[t].pc \in {"enter", "work", "join", "leave"} => th[t].kind = "worker"

(* A thread is there for every message that starts one.                    *)
Started == {t \in Threads : th[t].pc # "idle"}
Pending == {i \in 1 .. Len(wire) : wire[i].type # "reply"}
Handled == IF loop.pc = "read" THEN 0 ELSE 1
Capacity == Cardinality(Started) + Cardinality(Pending) + Handled <= sent + 1

(* num_workers is the number of threads that have counted themselves in.   *)
Joined == {"join", "leave"}
Inside(b) == {t \in Threads : th[t].pc \in Joined /\ th[t].buf = b}
WorkersCounted == \A b \in 1 .. Len(bufs) : bufs[b].workers = Cardinality(Inside(b))

TypeInv == /\ TypeOK
           /\ WireSound
           /\ LoopSound
           /\ \A t \in Threads : ThreadSound(t) /\ KindSound(t)
           /\ Capacity
           /\ WorkersCounted

-----------------------------------------------------------------------------
(* A node has a writer exactly while the writer makes its buffer.          *)
WriterInv ==
  /\ \A k \in 1 .. Len(nodes) : LET w == nodes[k].writer IN
       w # None => th[w].pc = "make" /\ th[w].node = k
  /\ \A t \in Threads : th[t].pc = "make" => nodes[th[t].node].writer = t

-----------------------------------------------------------------------------
(* The registry, as long as nothing excuses it.                            *)
Excused == hurried \/ refused

(* neovim_init until its buffer is opened, or the command that has         *)
(* autocmd_mutex.                                                          *)
IsCommand(t) == th[t].kind \in Kinds /\ th[t].pc # "idle"
Working(t) == \/ t = Main /\ th[t].pc \notin Settled
              \/ IsCommand(t) /\ th[t].pc \notin {"lock", "gone"}

OneAtATime ==
  /\ Working(Main) => autocmd_mutex = None /\ \A t \in Threads : IsCommand(t) => th[t].pc = "lock"
  /\ \A t \in Threads : Working(t) /\ t # Main => autocmd_mutex = t

(* Who may be at which point.                                              *)
Opens == {"open", "make", "append", "failed", "attach", "lines", "got_lines", "update", "updated"}
Destroys == {"clear", "unlist", "drain", "free"}
PlacesOf(k) == CASE k = "main"      -> Opens \cup {"start", "init", "end", "gone"}
                 [] k = "destroyer" -> Destroys \cup {"end", "gone"}
                 [] k = "worker"    -> {"enter", "work", "join", "leave", "end", "gone"}
                 [] k \in Kinds     -> Opens \cup {k, "lock", "previous", "suspend", "find", "end", "gone"}
                                        \cup IF k = "syntax" THEN Destroys \cup {"compare", "judge"} ELSE {}
                 [] OTHER           -> {}
KindInv == \A t \in Threads : th[t].pc # "idle" => /\ th[t].pc \in PlacesOf(th[t].kind)
                                                   /\ th[t].kind = "main" <=> t = Main

Listed(k) == \E i \in 1 .. Len(list) : list[i] = k

(* A node that has a Buffer is open, and the only one that has it.         *)
OwnBuffer(k) == LET b == nodes[k].bdata IN
  b # 0 => /\ bufs[b].alive /\ bufs[b].num = nodes[k].num
           /\ \A j \in 1 .. Len(nodes) : nodes[j].bdata = b => j = k
           /\ nodes[k].isopen

(* A listed node that is open without one has a writer, who makes it.      *)
BufferComes(k) == Listed(k) /\ nodes[k].isopen /\ nodes[k].bdata = 0
                    => nodes[k].writer # None

(* A Buffer without its lines has somebody who gets them.                  *)
LinesCome(k) == LET b == nodes[k].bdata IN
  b # 0 => \/ bufs[b].initialized
           \/ \E t \in Threads : th[t].pc \in {"append", "attach", "lines", "got_lines"} /\ th[t].buf = b

(* A listed node is the only one for its number.                           *)
OwnNumber(k) == Listed(k) => /\ nodes[k].alive
                             /\ \A j \in 1 .. Len(nodes) : Listed(j) /\ nodes[j].num = nodes[k].num => j = k

NodesInv == \A k \in 1 .. Len(nodes) : OwnBuffer(k) /\ BufferComes(k) /\ LinesCome(k) /\ OwnNumber(k)

(* A Buffer that somebody else may have is on no node that is not listed.  *)
Found(b) == b # 0 => \A k \in 1 .. Len(nodes) : nodes[k].bdata = b => Listed(k)
Has(b, n) == b # 0 => bufs[b].num = n
NodeOf(k, n) == k # 0 => Listed(k) /\ nodes[k].num = n
HoldersInv == /\ NodeOf(loop.node, loop.num)
              /\ Found(loop.buf) /\ Has(loop.buf, loop.num)
              /\ \A t \in Threads : /\ th[t].pc # "append" => Found(th[t].buf)
                                    /\ Has(th[t].buf, th[t].num)
                                    /\ Found(th[t].prev)
                                    /\ th[t].prev # 0 => th[t].pc = "suspend"

(* The listed node of number n is closed, or has Buffer b.                 *)
Holds(n, b) == \A k \in 1 .. Len(nodes) :
                 Listed(k) /\ nodes[k].num = n => ~ nodes[k].isopen \/ (b # 0 /\ nodes[k].bdata = b)

(* The node a thread opens is nobody else's.                               *)
OpeningInv(t) == LET k == th[t].node IN
  /\ th[t].pc \in {"open", "make", "append", "failed"} =>
       /\ nodes[k].num = th[t].num /\ nodes[k].alive
       /\ \A j \in 1 .. Len(nodes) : Listed(j) /\ nodes[j].num = th[t].num => j = k
  /\ th[t].pc = "open" => ~ nodes[k].isopen
  /\ th[t].pc = "make" => nodes[k].isopen /\ nodes[k].bdata = 0
  /\ th[t].pc = "append" => /\ th[t].buf # 0
                            /\ nodes[k].isopen => nodes[k].bdata # 0
                            /\ nodes[k].isopen \/ th[t].num \in closed
                            /\ \A j \in 1 .. Len(nodes) : nodes[j].bdata = th[t].buf => j = k
  /\ th[t].pc = "failed" => ~ Listed(k) /\ nodes[k].bdata = 0 /\ nodes[k].isopen
  /\ th[t].pc = "find" => Holds(th[t].num, 0)
  /\ th[t].pc \in {"previous", "suspend"} => Holds(th[t].num, th[t].buf)
  /\ th[t].pc \in {"start", "init"} => Len(nodes) = 0 /\ Len(list) = 0

(* A Buffer that is being destroyed is on no node, and no node is taken     *)
(* down with it.                                                           *)
DestroyInv(t) ==
  /\ th[t].pc \in Destroys \cup Looks \cup {"lock", "compare", "judge"} => th[t].node = 0
  /\ th[t].pc \in {"drain", "free"} =>
       /\ th[t].buf # 0
       /\ \A k \in 1 .. Len(nodes) : nodes[k].bdata # th[t].buf
       /\ th[t].kind = "syntax" => Holds(th[t].num, 0)

RegistryInv == /\ OneAtATime /\ KindInv
               /\ NodesInv /\ HoldersInv
               /\ \A t \in Threads : OpeningInv(t) /\ DestroyInv(t)

-----------------------------------------------------------------------------
(* A listed node is open with its Buffer, until destroy_buffer closes it;  *)
(* so neovim's events are about buffers that are listed.                   *)
Filled(k) == nodes[k].num \in closed \/ (nodes[k].isopen /\ nodes[k].bdata # 0)
MakingInv(t) == LET k == th[t].node IN
  /\ th[t].pc \in {"open", "make", "append"} => nodes[k].num = th[t].num
  /\ th[t].pc = "make" => nodes[k].isopen
  /\ th[t].pc = "append" => Filled(k)
ListFilled == \A k \in 1 .. Len(nodes) : Listed(k) => Filled(k)

Reported(n) == \E k \in 1 .. Len(nodes) : Listed(k) /\ nodes[k].num = n
EventsKnown == /\ \A n \in attached : Reported(n)
               /\ \A i \in 1 .. Len(wire) : wire[i].type \in {"lines", "detach"} => Reported(wire[i].num)
               /\ loop.pc # "read" => Reported(loop.num)
               /\ \A t \in Threads : th[t].pc = "attach" => Reported(th[t].num)

EventsInv == /\ ListFilled
             /\ \A t \in Threads : MakingInv(t)
             /\ EventsKnown
             /\ NodeOf(loop.node, loop.num)

-----------------------------------------------------------------------------
(* Whoever destroyed a Buffer that a command uses is no command.           *)
Destroyed(n) == \E u \in Threads : th[u].kind = "destroyer" /\ th[u].pc # "idle" /\ th[u].num = n
FreedInv == \A t \in Threads : IsCommand(t) /\ th[t].pc \in Uses \cup {"previous", "append"} =>
              \A b \in {th[t].buf, th[t].prev} : b # 0 /\ ~ bufs[b].alive => Destroyed(bufs[b].num)
-----------------------------------------------------------------------------
(* The types of the variables.                                             *)
NodeRecs(b) == [num : Nums, isopen : BOOLEAN, bdata : 0 .. b, alive : BOOLEAN, writer : Threads \cup {None}]
BufRecs == [num : Nums, ft : Known, alive : BOOLEAN, initialized : BOOLEAN, workers : Threads]
ThRecs(n, b) == [kind : Kinds \cup {"main", "destroyer", "worker", None}, pc : Pcs,
                 waiting : BOOLEAN, ans : Nums \cup Filetypes \cup {None},
                 num : Nums \cup {None}, node : 0 .. n, buf : 0 .. b, prev : 0 .. b]

LoopRecs(n, b) == [pc : {"read", "lines", "detach"}, num : Nums \cup {None}, node : 0 .. n, buf : 0 .. b]

LEMMA RegistryTypes ==
  ASSUME TypeOK
  PROVE  /\ nodes \in Seq(NodeRecs(Len(bufs))) /\ Len(nodes) \in Nat
         /\ list \in Seq(1 .. Len(nodes)) /\ Len(list) \in Nat
         /\ bufs \in Seq(BufRecs) /\ Len(bufs) \in Nat
<1>1. /\ nodes \in Seq(NodeRecs(Len(bufs)))
      /\ list \in Seq(1 .. Len(nodes))
      /\ bufs \in Seq(BufRecs)
  BY DEF TypeOK, NodeRecs, BufRecs
<1>2. QED
  BY <1>1, LenProperties

LEMMA NodeTypes ==
  ASSUME TypeOK, NEW k \in 1 .. Len(nodes)
  PROVE  /\ nodes[k] \in NodeRecs(Len(bufs))
         /\ nodes[k].num \in Nums /\ nodes[k].isopen \in BOOLEAN /\ nodes[k].alive \in BOOLEAN
         /\ nodes[k].bdata \in 0 .. Len(bufs) /\ nodes[k].writer \in Threads \cup {None}
<1>1. nodes[k] \in NodeRecs(Len(bufs))
  BY RegistryTypes, ElementOfSeq
<1>2. QED
  BY <1>1 DEF NodeRecs

LEMMA BufTypes ==
  ASSUME TypeOK, NEW b \in 1 .. Len(bufs)
  PROVE  /\ bufs[b] \in BufRecs
         /\ bufs[b].num \in Nums /\ bufs[b].alive \in BOOLEAN
         /\ bufs[b].initialized \in BOOLEAN /\ bufs[b].workers \in Threads
<1>1. bufs[b] \in BufRecs
  BY RegistryTypes, ElementOfSeq
<1>2. QED
  BY <1>1 DEF BufRecs

LEMMA ListTypes ==
  ASSUME TypeOK, NEW i \in 1 .. Len(list)
  PROVE  list[i] \in 1 .. Len(nodes)
  BY RegistryTypes, ElementOfSeq

LEMMA ThreadTypes ==
  ASSUME TypeOK
  PROVE  /\ th \in [Threads -> ThRecs(Len(nodes), Len(bufs))]
         /\ \A t \in Threads : /\ th[t] \in ThRecs(Len(nodes), Len(bufs))
                               /\ th[t].pc \in Pcs /\ th[t].waiting \in BOOLEAN
                               /\ th[t].node \in 0 .. Len(nodes)
                               /\ th[t].buf \in 0 .. Len(bufs) /\ th[t].prev \in 0 .. Len(bufs)
<1>1. th \in [Threads -> ThRecs(Len(nodes), Len(bufs))]
  BY DEF TypeOK, ThRecs
<1>2. QED
  BY <1>1 DEF ThRecs

(* A step of thread t itself.                                              *)
OwnStep(t) ==
  /\ th' = [th EXCEPT ![t] = th'[t]]
  /\ th[t].pc # "idle" /\ th'[t].pc # "idle" /\ th'[t].kind = th[t].kind
  /\ wire' = wire \/ wire' = Append(wire, [type |-> "reply", num |-> t])
  /\ UNCHANGED <<current, ft, sent, loop, aborted>>

(* ... after which it is sound again.                                      *)
OwnSound(t) ==
  /\ OwnStep(t)
  /\ th'[t] \in ThRecs(Len(nodes)', Len(bufs)')
  /\ ThreadSound(t)'
  /\ KindSound(t)'

LEMMA PointsAre == /\ Uses \subseteq Pcs /\ Looks \subseteq Pcs /\ Kinds \subseteq Looks
                   /\ {"idle", "start", "lock", "init", "previous", "find", "open", "make",
                        "append", "failed", "end", "gone"} \subseteq Pcs
  BY RegistryAssumption DEF Pcs, Looks

(* Going somewhere, with a remote call or without.                         *)
LEMMA Goes ==
  ASSUME TypeInv, NEW t \in Threads, NEW p \in Pcs \ {"idle"}, th[t].pc # "idle",
         \/ Goto(t, p) /\ UNCHANGED wire
         \/ \E a \in Nums \cup Filetypes \cup {None} : Call(t, p, a),
         UNCHANGED <<current, ft, sent, loop, aborted>>,
         Len(nodes)' = Len(nodes), Len(bufs)' = Len(bufs)
  PROVE  /\ OwnStep(t)
         /\ th'[t] \in ThRecs(Len(nodes)', Len(bufs)')
         /\ th'[t].pc = p
         /\ th'[t].num = th[t].num /\ th'[t].node = th[t].node
         /\ th'[t].buf = th[t].buf /\ th'[t].prev = th[t].prev
<1>1. th[t] \in ThRecs(Len(nodes), Len(bufs)) /\ th \in [Threads -> ThRecs(Len(nodes), Len(bufs))]
  BY ThreadTypes DEF TypeInv
<1>2. CASE Goto(t, p) /\ UNCHANGED wire
  <2>1. th' = [th EXCEPT ![t] = [th[t] EXCEPT !.pc = p]]
    BY <1>1, <1>2 DEF Goto
  <2>2. QED
    BY <1>1, <1>2, <2>1 DEF OwnStep, ThRecs
<1>3. CASE \E a \in Nums \cup Filetypes \cup {None} : Call(t, p, a)
  <2>1. PICK a \in Nums \cup Filetypes \cup {None} : Call(t, p, a)
    BY <1>3
  <2>2. th' = [th EXCEPT ![t] = [th[t] EXCEPT !.pc = p, !.waiting = TRUE, !.ans = a]]
    BY <1>1, <2>1 DEF Call
  <2>3. wire' = Append(wire, [type |-> "reply", num |-> t])
    BY <2>1 DEF Call
  <2>4. th'[t] = [th[t] EXCEPT !.pc = p, !.waiting = TRUE, !.ans = a]
    BY <1>1, <2>2
  <2>5. th' = [th EXCEPT ![t] = th'[t]]
    BY <1>1, <2>2, <2>4
  <2>6. /\ th'[t] \in ThRecs(Len(nodes), Len(bufs)) /\ th'[t].kind = th[t].kind
        /\ th'[t].pc = p /\ th'[t].num = th[t].num /\ th'[t].node = th[t].node
        /\ th'[t].buf = th[t].buf /\ th'[t].prev = th[t].prev
    BY <1>1, <2>4 DEF ThRecs
  <2>7. QED
    BY <2>3, <2>5, <2>6 DEF OwnStep
<1>4. QED
  BY <1>2, <1>3

(* Points a thread gets to without learning of a buffer or a node.         *)
Plain == Pcs \ (Looks \cup {"init", "previous", "open", "append", "idle", "lock", "enter"})
Leads(t, p) == /\ th[t].pc # "idle"
               /\ th[t].pc \notin Unplaced \/ p \in Unplaced
               /\ p \in {"make", "failed"} => th[t].pc = "open"
               /\ p \in {"work", "join", "leave"} => th[t].pc \in {"enter", "work", "join"}

LEMMA GoesOn ==
  ASSUME TypeInv, NEW t \in Threads, NEW p \in Plain, Leads(t, p),
         \/ Goto(t, p) /\ UNCHANGED wire
         \/ \E a \in Nums \cup Filetypes \cup {None} : Call(t, p, a),
         UNCHANGED <<current, ft, sent, loop, aborted>>,
         Len(nodes)' = Len(nodes), Len(bufs)' = Len(bufs)
  PROVE  OwnSound(t) /\ th'[t].pc = p
<1>1. p \in Pcs \ {"idle"} /\ th[t].pc # "idle"
  BY DEF Plain, Leads
<1>2. /\ OwnStep(t)
      /\ th'[t] \in ThRecs(Len(nodes)', Len(bufs)')
      /\ th'[t].pc = p /\ th'[t].num = th[t].num /\ th'[t].node = th[t].node
  BY <1>1, Goes
<1>3. ThreadSound(t)'
  BY <1>2 DEF ThreadSound, Plain, TypeInv, Leads
<1>4. KindSound(t)'
  BY <1>2 DEF KindSound, Plain, OwnStep, TypeInv, Leads
<1>5. QED
  BY <1>2, <1>3, <1>4 DEF OwnSound

(* Nothing happens to a thread that goes astray.                           *)
LEMMA Strays ==
  ASSUME TypeInv, NEW t \in Threads, th[t].pc # "idle",
         UNCHANGED <<current, ft, sent, loop, aborted, th, wire, nodes, bufs>>
  PROVE  OwnSound(t)
<1>1. th' = [th EXCEPT ![t] = th'[t]] /\ th'[t] \in ThRecs(Len(nodes)', Len(bufs)')
  BY ThreadTypes DEF TypeInv
<1>2. ThreadSound(t)' /\ KindSound(t)'
  BY DEF TypeInv, ThreadSound, KindSound
<1>3. QED
  BY <1>1, <1>2 DEF OwnSound, OwnStep

(* What a look in the registry can return.                                 *)
LEMMA Least ==
  ASSUME NEW S, S \subseteq Nat, S # {}
  PROVE  \E i \in S : \A j \in S : i <= j
<1>1. \E i \in S : \A j \in S : ~ (<<j, i>> \in OpToRel(<, Nat))
  BY NatLessThanWellFounded, WFMin
<1>2. \E i \in S : \A j \in S : ~ (j < i)
  BY <1>1, Zenon DEF OpToRel
<1>3. QED
  BY <1>2

LEMMA FoundNode ==
  ASSUME TypeOK, NEW n
  PROVE  /\ Positions(n) # {} => /\ FirstAt(n) \in Positions(n)
                                 /\ \A j \in Positions(n) : FirstAt(n) <= j
         /\ find_buffer_node(n) \in 0 .. Len(nodes)
         /\ find_buffer_node(n) = 0 <=> Positions(n) = {}
         /\ find_buffer(n) \in 0 .. Len(bufs)
<1>1. Positions(n) \subseteq Nat /\ Positions(n) \subseteq 1 .. Len(list)
  BY RegistryTypes DEF Positions
<1>2. Positions(n) # {} => \E i \in Positions(n) : \A j \in Positions(n) : i <= j
  BY <1>1, Least
<1>3. Positions(n) # {} => /\ FirstAt(n) \in Positions(n)
                           /\ \A j \in Positions(n) : FirstAt(n) <= j
  BY <1>2 DEF FirstAt
<1>4. \A i \in 1 .. Len(list) : list[i] \in 1 .. Len(nodes)
  BY ListTypes
<1>5. /\ find_buffer_node(n) \in 0 .. Len(nodes)
      /\ find_buffer_node(n) = 0 <=> Positions(n) = {}
  <2>1. CASE Positions(n) = {}
    BY <2>1, RegistryTypes DEF find_buffer_node
  <2>2. CASE Positions(n) # {}
    BY <1>1, <1>3, <1>4, <2>2, RegistryTypes DEF find_buffer_node
  <2>3. QED
    BY <2>1, <2>2
<1>6. \A k \in 1 .. Len(nodes) : nodes[k].bdata \in 0 .. Len(bufs)
  BY NodeTypes
<1>7. find_buffer(n) \in 0 .. Len(bufs)
  BY <1>5, <1>6, RegistryTypes DEF find_buffer
<1>8. QED
  BY <1>3, <1>5, <1>7

(* A thread that is at some point is a thread, and not an idle one.        *)
LEMMA Somewhere ==
  ASSUME TypeInv, NEW t \in Threads
  PROVE  /\ th[t] \in ThRecs(Len(nodes), Len(bufs))
         /\ th[t].pc \in Pcs /\ th[t].ans \in Nums \cup Filetypes \cup {None}
         /\ th[t].num \in Nums \cup {None}
         /\ th[t].kind \in Kinds \cup {"main", "destroyer", "worker", None}
         /\ th[t].node \in 0 .. Len(nodes) /\ th[t].buf \in 0 .. Len(bufs) /\ th[t].prev \in 0 .. Len(bufs)
<1>1. th[t] \in ThRecs(Len(nodes), Len(bufs))
  BY ThreadTypes DEF TypeInv
<1>2. QED
  BY <1>1 DEF ThRecs

LEMMA OwnStray ==
  ASSUME TypeInv, NEW t \in Threads, UseFreed(t) \/ UsePrevious(t)
  PROVE  OwnSound(t)
<1>1. CASE UseFreed(t)
  <2>1. th[t].pc \in Uses /\ Stray(t)
    BY <1>1 DEF UseFreed, At
  <2>2. th[t].pc # "idle"
    BY <2>1 DEF Uses
  <2>3. t # Loop
    BY DEF Threads, Loop
  <2>4. QED
    BY <2>1, <2>2, Strays DEF Stray, nvim, registry
<1>2. CASE UsePrevious(t)
  <2>1. th[t].pc # "idle"
    BY <1>2 DEF UsePrevious, At
  <2>2. QED
    BY <1>2, <2>1, Strays DEF UsePrevious, nvim, registry
<1>3. QED
  BY <1>1, <1>2

LEMMA OwnCannotLook ==
  ASSUME TypeInv, NEW t \in Threads, CannotLook(t)
  PROVE  OwnSound(t)
<1>1. PICK n : Wants(t, n) /\ CannotWalk(t, n)
  BY DEF CannotLook
<1>2. th[t].pc # "idle"
  BY <1>1 DEF Wants, Seeks, Looks
<1>3. UNCHANGED <<current, ft, sent, loop, aborted, th, wire, nodes, bufs>>
  BY <1>1 DEF CannotWalk, Stray, nvim, registry, history
<1>4. QED
  BY <1>2, <1>3, Strays

(* What a remote call is to tell.                                          *)
LEMMA Asks ==
  ASSUME TypeInv, NEW t \in Threads, NEW p, NEW a, Call(t, p, a)
  PROVE  th'[t].ans = a /\ th'[t].waiting = TRUE
<1>1. th \in [Threads -> ThRecs(Len(nodes), Len(bufs))] /\ th[t] \in ThRecs(Len(nodes), Len(bufs))
  BY ThreadTypes DEF TypeInv
<1>2. th' = [th EXCEPT ![t] = [th[t] EXCEPT !.pc = p, !.waiting = TRUE, !.ans = a]]
  BY <1>1 DEF Call
<1>3. QED
  BY <1>1, <1>2 DEF ThRecs

LEMMA OwnBegin ==
  ASSUME TypeInv, NEW t \in Threads, Begin(t)
  PROVE  OwnSound(t) /\ th[t].pc \in {"start", "lock"} /\ th'[t].pc \in Looks \cup {"init"}
<1>1. /\ UNCHANGED <<current, ft, sent, loop, aborted, nodes, bufs>>
      /\ current \in Nums
  BY DEF Begin, nvim, registry, history, TypeInv, TypeOK
<1>2. CASE At(t, "start") /\ Call(t, "init", current)
  <2>1. th'[t].ans \in Nums
    BY <1>1, <1>2, Asks
  <2>2. /\ OwnStep(t)
        /\ th'[t] \in ThRecs(Len(nodes)', Len(bufs)')
        /\ th'[t].pc = "init"
    BY <1>1, <1>2, Goes, PointsAre DEF At
  <2>3. ThreadSound(t)' /\ KindSound(t)'
    BY <2>1, <2>2 DEF ThreadSound, KindSound, OwnStep, Looks, Unplaced, TypeInv
  <2>4. QED
    BY <1>2, <2>2, <2>3 DEF OwnSound, At
<1>3. CASE At(t, "lock") /\ Call(t, th[t].kind, current)
  <2>1. th'[t].ans \in Nums
    BY <1>1, <1>3, Asks
  <2>2. th[t].kind \in Looks
    BY <1>3, PointsAre DEF At, TypeInv, KindSound
  <2>3. th[t].kind \in Pcs \ {"idle"}
    BY <2>2, PointsAre DEF Looks
  <2>4. /\ OwnStep(t)
        /\ th'[t] \in ThRecs(Len(nodes)', Len(bufs)')
        /\ th'[t].pc = th[t].kind
    BY <1>1, <1>3, <2>3, Goes DEF At
  <2>5. ThreadSound(t)' /\ KindSound(t)'
    BY <2>1, <2>2, <2>4 DEF ThreadSound, KindSound, OwnStep, Looks, Unplaced, TypeInv
  <2>6. QED
    BY <1>3, <2>2, <2>4, <2>5 DEF OwnSound, At
<1>4. QED
  BY <1>2, <1>3 DEF Begin

(* Where a look in the registry leads.                                     *)
LooksTo(t) == LET n == th[t].ans
                  b == find_buffer(n)
              IN  CASE th[t].pc = "changed" /\ previous = n /\ b # 0 -> "end"
                    [] th[t].pc = "changed" /\ (previous # n \/ b = 0) -> "previous"
                    [] th[t].pc = "syntax" -> IF b = 0 THEN "end" ELSE "compare"
                    [] th[t].pc = "want"   -> IF b = 0 /\ find_buffer_node(n) # 0 THEN "find" ELSE "end"
                    [] th[t].pc = "force"  -> IF b = 0 THEN "find" ELSE "update"

LEMMA Looked ==
  ASSUME TypeInv, NEW t \in Threads, Look(t)
  PROVE  /\ th[t].pc \in Looks /\ th[t].ans \in Nums
         /\ LooksTo(t) \in {"end", "previous", "compare", "find", "update"}
         /\ th' = [th EXCEPT ![t] = [th[t] EXCEPT !.pc = LooksTo(t), !.num = th[t].ans,
                                                  !.buf = find_buffer(th[t].ans),
                                                  !.ans = IF LooksTo(t) = "previous" THEN previous ELSE None]]
<1>1. th[t].pc \in Looks /\ th[t].ans \in Nums
  BY DEF Look, Looking, At, TypeInv, ThreadSound
<1>2. LooksTo(t) \in {"end", "previous", "compare", "find", "update"}
  <2>1. CASE th[t].pc = "changed"
    BY <2>1 DEF LooksTo
  <2>2. CASE th[t].pc = "syntax"
    BY <2>2 DEF LooksTo
  <2>3. CASE th[t].pc = "want"
    BY <2>3 DEF LooksTo
  <2>4. CASE th[t].pc = "force"
    BY <2>4 DEF LooksTo
  <2>5. QED
    BY <1>1, <2>1, <2>2, <2>3, <2>4 DEF Looks
<1>3. th' = [th EXCEPT ![t].pc = LooksTo(t), ![t].num = th[t].ans, ![t].buf = find_buffer(th[t].ans),
                       ![t].ans = IF LooksTo(t) = "previous" THEN previous ELSE None]
  BY DEF Look, LooksTo
<1>4. th \in [Threads -> ThRecs(Len(nodes), Len(bufs))]
  BY ThreadTypes DEF TypeInv
<1>5. QED
  BY <1>1, <1>2, <1>3, <1>4

LEMMA OwnLook ==
  ASSUME TypeInv, NEW t \in Threads, Look(t)
  PROVE  OwnSound(t) /\ th'[t].pc = LooksTo(t)
<1> DEFINE r == LooksTo(t)
           a == IF r = "previous" THEN previous ELSE None
<1>1. /\ find_buffer(th[t].ans) \in 0 .. Len(bufs) /\ previous \in Nums \cup {None}
      /\ UNCHANGED <<current, ft, sent, loop, aborted, wire, nodes, bufs>>
  BY FoundNode DEF Look, TypeInv, TypeOK, nvim, history
<1>2. /\ th[t].pc \in Looks /\ th[t].ans \in Nums
      /\ r \in {"end", "previous", "compare", "find", "update"}
      /\ th' = [th EXCEPT ![t] = [th[t] EXCEPT !.pc = r, !.num = th[t].ans,
                                               !.buf = find_buffer(th[t].ans), !.ans = a]]
  BY Looked
<1>3. a \in Nums \cup {None}
  BY <1>1
<1>4. r \in Pcs
  BY <1>2 DEF Pcs, Uses
<1> HIDE DEF r, a
<1>5. /\ th[t] \in ThRecs(Len(nodes), Len(bufs)) /\ th \in [Threads -> ThRecs(Len(nodes), Len(bufs))]
  BY ThreadTypes DEF TypeInv
<1>6. /\ th'[t] = [th[t] EXCEPT !.pc = r, !.num = th[t].ans, !.buf = find_buffer(th[t].ans), !.ans = a]
      /\ th' = [th EXCEPT ![t] = th'[t]]
  BY <1>2, <1>5
<1>7. /\ th'[t] \in ThRecs(Len(nodes), Len(bufs))
      /\ th'[t].pc = r /\ th'[t].num \in Nums /\ th'[t].ans = a /\ th'[t].kind = th[t].kind
  BY <1>1, <1>2, <1>3, <1>4, <1>5, <1>6 DEF ThRecs
<1>8. OwnStep(t)
  BY <1>1, <1>2, <1>6, <1>7 DEF OwnStep, Looks
<1>9. ThreadSound(t)' /\ KindSound(t)'
  BY <1>2, <1>3, <1>7 DEF ThreadSound, KindSound, Looks, TypeInv
<1>10. QED
  BY <1>1, <1>7, <1>8, <1>9 DEF OwnSound, r

(* Changing one element of a sequence, or none.                            *)
LEMMA Replaced ==
  ASSUME NEW S, NEW T, S \subseteq T, NEW s \in Seq(S), NEW k, NEW r, k \in 1 .. Len(s) => r \in T
  PROVE  /\ [s EXCEPT ![k] = r] \in Seq(T)
         /\ Len([s EXCEPT ![k] = r]) = Len(s)
         /\ \A j \in 1 .. Len(s) : [s EXCEPT ![k] = r][j] = IF j = k THEN r ELSE s[j]
<1>1. s \in Seq(T)
  BY SeqMonotonic
<1>2. CASE k \in 1 .. Len(s)
  BY <1>1, <1>2, ExceptSeq
<1>3. CASE k \notin 1 .. Len(s)
  <2>1. DOMAIN s = 1 .. Len(s) /\ s = [i \in DOMAIN s |-> s[i]]
    BY LenProperties
  <2>2. [s EXCEPT ![k] = r] = s
    BY <1>3, <2>1
  <2>3. QED
    BY <1>1, <1>3, <2>2
<1>4. QED
  BY <1>2, <1>3

LEMMA Grows == ASSUME NEW b \in Nat, NEW c \in Nat, b <= c PROVE NodeRecs(b) \subseteq NodeRecs(c)
  BY DEF NodeRecs

(* What the steps that change nodes make of them.                          *)
NodesBecome(k, r) == /\ nodes' \in Seq(NodeRecs(Len(bufs)'))
                     /\ Len(nodes)' = Len(nodes)
                     /\ \A j \in 1 .. Len(nodes) : nodes'[j] = IF j = k THEN r ELSE nodes[j]

LEMMA NodeReplaced ==
  ASSUME TypeInv, NEW k \in 0 .. Len(nodes), NEW r, Len(bufs)' \in Nat, Len(bufs) <= Len(bufs)',
         k # 0 => r \in NodeRecs(Len(bufs)'), nodes' = [nodes EXCEPT ![k] = r]
  PROVE  NodesBecome(k, r)
<1>1. nodes \in Seq(NodeRecs(Len(bufs))) /\ Len(bufs) \in Nat /\ Len(nodes) \in Nat
  BY RegistryTypes DEF TypeInv
<1>2. NodeRecs(Len(bufs)) \subseteq NodeRecs(Len(bufs)')
  BY <1>1, Grows
<1>3. k \in 1 .. Len(nodes) => r \in NodeRecs(Len(bufs)')
  BY <1>1
<1>4. QED
  BY <1>1, <1>2, <1>3, Replaced DEF NodesBecome

LEMMA NodesOpened ==
  ASSUME TypeInv, NEW t \in Threads, OpenNode(t), nodes[th[t].node].alive, ~ nodes[th[t].node].isopen
  PROVE  NodesBecome(th[t].node, [nodes[th[t].node] EXCEPT !.isopen = TRUE, !.writer = t])
<1> DEFINE k == th[t].node
           r == [nodes[k] EXCEPT !.isopen = TRUE, !.writer = t]
<1>1. k \in 1 .. Len(nodes)
  BY Somewhere, RegistryTypes DEF OpenNode, At, TypeInv, ThreadSound
<1>2. /\ nodes' = [nodes EXCEPT ![k].isopen = TRUE, ![k].writer = t] /\ bufs' = bufs
  BY DEF OpenNode
<1>3. nodes[k] \in NodeRecs(Len(bufs)) /\ nodes \in Seq(NodeRecs(Len(bufs))) /\ Len(bufs) \in Nat
  BY <1>1, NodeTypes, RegistryTypes DEF TypeInv
<1>4. r \in NodeRecs(Len(bufs))
  BY <1>3 DEF NodeRecs
<1>5. nodes' = [nodes EXCEPT ![k] = r]
  BY <1>1, <1>2, <1>3
<1>6. Len(bufs)' = Len(bufs) /\ Len(bufs)' \in Nat /\ Len(bufs) <= Len(bufs)'
  BY <1>2, <1>3
<1>7. k \in 0 .. Len(nodes)
  BY <1>1
<1> HIDE DEF k, r
<1>8. k # 0 => r \in NodeRecs(Len(bufs)')
  BY <1>4, <1>6
<1>9. NodesBecome(k, r)
  BY <1>5, <1>6, <1>7, <1>8, NodeReplaced
<1>10. QED
  BY <1>9 DEF k, r

LEMMA NodeClosed ==
  ASSUME TypeInv, NEW t \in Threads, CloseNode(t)
  PROVE  LET k == find_buffer_node(th[t].num)
         IN  NodesBecome(k, [nodes[k] EXCEPT !.isopen = FALSE, !.bdata = 0])
<1> DEFINE k == find_buffer_node(th[t].num)
           r == [nodes[k] EXCEPT !.isopen = FALSE, !.bdata = 0]
<1>1. k \in 0 .. Len(nodes)
  BY FoundNode DEF TypeInv
<1>2. nodes' = [nodes EXCEPT ![k].isopen = FALSE, ![k].bdata = 0] /\ bufs' = bufs
  BY DEF CloseNode
<1> HIDE DEF k
<1>3. nodes \in Seq(NodeRecs(Len(bufs))) /\ Len(bufs) \in Nat /\ Len(nodes) \in Nat
  BY RegistryTypes DEF TypeInv
<1>4. k # 0 => nodes[k] \in NodeRecs(Len(bufs))
  BY <1>1, <1>3, NodeTypes DEF TypeInv
<1>5. k # 0 => r \in NodeRecs(Len(bufs))
  <2>1. SUFFICES ASSUME k # 0 PROVE r \in NodeRecs(Len(bufs))
    OBVIOUS
  <2>2. nodes[k] \in NodeRecs(Len(bufs))
    BY <1>4, <2>1
  <2>3. 0 \in 0 .. Len(bufs)
    BY <1>3
  <2>4. QED
    BY <2>2, <2>3 DEF NodeRecs
<1>6. nodes' = [nodes EXCEPT ![k] = r]
  <2>1. CASE k = 0
    <3>1. DOMAIN nodes = 1 .. Len(nodes)
      BY <1>3, LenProperties
    <3>2. QED
      BY <1>2, <2>1, <3>1
  <2>2. CASE k # 0
    BY <1>1, <1>2, <1>3, <2>2
  <2>3. QED
    BY <2>1, <2>2
<1>7. Len(bufs)' = Len(bufs) /\ Len(bufs)' \in Nat /\ Len(bufs) <= Len(bufs)'
  BY <1>2, <1>3
<1> HIDE DEF r
<1>8. NodesBecome(k, r)
  <2>1. k # 0 => r \in NodeRecs(Len(bufs)')
    BY <1>5, <1>7
  <2>2. QED
    BY <1>1, <1>6, <1>7, <2>1, NodeReplaced
<1>9. QED
  BY <1>8 DEF k, r

LEMMA OwnPrevious ==
  ASSUME TypeInv, NEW t \in Threads, FindPrevious(t)
  PROVE  OwnSound(t) /\ th'[t].pc = "suspend"
<1> DEFINE b == find_buffer(th[t].ans)
<1>1. b \in 0 .. Len(bufs)
  BY FoundNode DEF TypeInv
<1>2. /\ th' = [th EXCEPT ![t].pc = "suspend", ![t].prev = b]
      /\ UNCHANGED <<current, ft, sent, loop, aborted, wire, nodes, bufs>>
      /\ th[t].pc = "previous"
  BY DEF FindPrevious, At, nvim, history
<1> HIDE DEF b
<1>3. /\ th[t] \in ThRecs(Len(nodes), Len(bufs)) /\ th \in [Threads -> ThRecs(Len(nodes), Len(bufs))]
  BY ThreadTypes DEF TypeInv
<1>4. th' = [th EXCEPT ![t] = [th[t] EXCEPT !.pc = "suspend", !.prev = b]]
  BY <1>2, <1>3
<1>5. "suspend" \in Pcs
  BY DEF Pcs, Uses
<1>6. /\ th' = [th EXCEPT ![t] = th'[t]] /\ th'[t] = [th[t] EXCEPT !.pc = "suspend", !.prev = b]
  BY <1>3, <1>4
<1>7. /\ th'[t] \in ThRecs(Len(nodes), Len(bufs))
      /\ th'[t].pc = "suspend" /\ th'[t].num = th[t].num /\ th'[t].kind = th[t].kind
  BY <1>1, <1>3, <1>5, <1>6 DEF ThRecs
<1>8. OwnStep(t)
  BY <1>2, <1>6, <1>7 DEF OwnStep
<1>9. ThreadSound(t)' /\ KindSound(t)'
  BY <1>2, <1>7 DEF ThreadSound, KindSound, Looks, Unplaced, TypeInv
<1>10. QED
  BY <1>2, <1>7, <1>8, <1>9 DEF OwnSound

LEMMA OwnSuspend ==
  ASSUME TypeInv, NEW t \in Threads, Suspend(t)
  PROVE  OwnSound(t) /\ th'[t].pc \in {"update", "find"}
<1> DEFINE p == IF th[t].buf # 0 /\ bufs[th[t].buf].initialized THEN "update" ELSE "find"
<1>1. p \in {"update", "find"}
  OBVIOUS
<1>2. /\ th' = [th EXCEPT ![t].pc = p, ![t].prev = 0]
      /\ UNCHANGED <<current, ft, sent, loop, aborted, wire, nodes, bufs>>
      /\ th[t].pc = "suspend"
  BY DEF Suspend, At, nvim, history, registry
<1> HIDE DEF p
<1>3. /\ th[t] \in ThRecs(Len(nodes), Len(bufs)) /\ th \in [Threads -> ThRecs(Len(nodes), Len(bufs))]
      /\ 0 \in 0 .. Len(bufs)
  BY ThreadTypes, RegistryTypes DEF TypeInv
<1>4. th' = [th EXCEPT ![t] = [th[t] EXCEPT !.pc = p, !.prev = 0]]
  BY <1>2, <1>3
<1>5. p \in Pcs
  BY <1>1 DEF Pcs, Uses
<1>6. /\ th' = [th EXCEPT ![t] = th'[t]] /\ th'[t] = [th[t] EXCEPT !.pc = p, !.prev = 0]
  BY <1>3, <1>4
<1>7. /\ th'[t] \in ThRecs(Len(nodes), Len(bufs))
      /\ th'[t].pc = p /\ th'[t].num = th[t].num /\ th'[t].kind = th[t].kind
  BY <1>3, <1>5, <1>6 DEF ThRecs
<1>8. OwnStep(t)
  BY <1>1, <1>2, <1>6, <1>7 DEF OwnStep
<1>9. ThreadSound(t)' /\ KindSound(t)'
  BY <1>1, <1>2, <1>7 DEF ThreadSound, KindSound, Looks, Unplaced, TypeInv
<1>10. QED
  BY <1>1, <1>2, <1>7, <1>8, <1>9 DEF OwnSound

(* Looking for a node, or making one that is not listed yet.               *)
LEMMA FoundOrMade ==
  ASSUME TypeInv, NEW t \in Threads, FindNode(t)
  PROVE  LET n == OpeningNum(t)
             k == IF find_buffer_node(n) # 0 THEN find_buffer_node(n) ELSE Len(nodes) + 1
         IN  /\ n \in Nums /\ th[t].pc \in {"init", "find"}
             /\ k \in 1 .. Len(nodes)'
             /\ nodes' \in Seq(NodeRecs(Len(bufs))) /\ Len(nodes)' \in Nat /\ Len(nodes) <= Len(nodes)'
             /\ \A j \in 1 .. Len(nodes)' :
                  nodes'[j] = IF j <= Len(nodes) THEN nodes[j]
                              ELSE [num |-> n, isopen |-> FALSE, bdata |-> 0, alive |-> TRUE, writer |-> None]
             /\ Len(nodes)' = IF find_buffer_node(n) # 0 THEN Len(nodes) ELSE Len(nodes) + 1
             /\ th' = [th EXCEPT ![t] = [th[t] EXCEPT !.pc = "open", !.num = n, !.buf = 0, !.node = k]]
<1> DEFINE n == OpeningNum(t)
           b == find_buffer_node(n)
           k == IF b # 0 THEN b ELSE Len(nodes) + 1
           new == [num |-> n, isopen |-> FALSE, bdata |-> 0, alive |-> TRUE, writer |-> None]
<1>1. /\ nodes' = IF b # 0 THEN nodes ELSE Append(nodes, new)
      /\ th' = [th EXCEPT ![t].pc = "open", ![t].num = n, ![t].buf = 0, ![t].node = k]
  BY DEF FindNode
<1>2. th[t].pc \in {"init", "find"} /\ n \in Nums
  BY DEF FindNode, Opening, OpeningNum, At, TypeInv, ThreadSound, Unplaced, Looks
<1>3. b \in 0 .. Len(nodes)
  BY FoundNode DEF TypeInv
<1>4. nodes \in Seq(NodeRecs(Len(bufs))) /\ Len(nodes) \in Nat /\ Len(bufs) \in Nat
  BY RegistryTypes DEF TypeInv
<1>5. new \in NodeRecs(Len(bufs))
  BY <1>2, <1>4 DEF NodeRecs
<1> HIDE DEF n, b, new
<1>6. /\ nodes' \in Seq(NodeRecs(Len(bufs))) /\ Len(nodes)' \in Nat /\ Len(nodes) <= Len(nodes)'
      /\ \A j \in 1 .. Len(nodes)' : nodes'[j] = IF j <= Len(nodes) THEN nodes[j] ELSE new
      /\ Len(nodes)' = IF b # 0 THEN Len(nodes) ELSE Len(nodes) + 1
  <2>1. CASE b # 0
    BY <1>1, <1>4, <2>1
  <2>2. CASE b = 0
    <3>1. nodes' = Append(nodes, new)
      BY <1>1, <2>2
    <3>2. QED
      BY <1>4, <1>5, <2>2, <3>1, AppendProperties
  <2>3. QED
    BY <2>1, <2>2
<1>7. k \in 1 .. Len(nodes)'
  BY <1>3, <1>4, <1>6
<1>8. th \in [Threads -> ThRecs(Len(nodes), Len(bufs))]
  BY ThreadTypes DEF TypeInv
<1>9. th' = [th EXCEPT ![t] = [th[t] EXCEPT !.pc = "open", !.num = n, !.buf = 0, !.node = k]]
  BY <1>1, <1>8
<1>10. QED
  BY <1>2, <1>6, <1>7, <1>9 DEF n, b, new

LEMMA OwnFindNode ==
  ASSUME TypeInv, NEW t \in Threads, FindNode(t)
  PROVE  OwnSound(t) /\ th'[t].pc = "open"
<1> DEFINE n == OpeningNum(t)
           k == IF find_buffer_node(n) # 0 THEN find_buffer_node(n) ELSE Len(nodes) + 1
<1>1. /\ n \in Nums /\ th[t].pc \in {"init", "find"}
      /\ k \in 1 .. Len(nodes)'
      /\ Len(nodes)' \in Nat /\ Len(nodes) <= Len(nodes)'
      /\ th' = [th EXCEPT ![t] = [th[t] EXCEPT !.pc = "open", !.num = n, !.buf = 0, !.node = k]]
  BY FoundOrMade
<1>2. UNCHANGED <<current, ft, sent, loop, aborted, wire, bufs>>
  BY DEF FindNode, nvim, history
<1> HIDE DEF n, k
<1>3. /\ th[t] \in ThRecs(Len(nodes), Len(bufs)) /\ th \in [Threads -> ThRecs(Len(nodes), Len(bufs))]
      /\ Len(bufs) \in Nat /\ Len(nodes) \in Nat
  BY ThreadTypes, RegistryTypes DEF TypeInv
<1>4. /\ th' = [th EXCEPT ![t] = th'[t]]
      /\ th'[t] = [th[t] EXCEPT !.pc = "open", !.num = n, !.buf = 0, !.node = k]
  BY <1>1, <1>3
<1>5. "open" \in Pcs /\ 0 \in 0 .. Len(bufs) /\ k \in 0 .. Len(nodes)' /\ k # 0
  BY <1>1, <1>3 DEF Pcs
<1>6. /\ th'[t] \in ThRecs(Len(nodes)', Len(bufs)) /\ Len(bufs)' = Len(bufs)
      /\ th'[t].pc = "open" /\ th'[t].num = n /\ th'[t].node = k /\ th'[t].kind = th[t].kind
  BY <1>1, <1>2, <1>3, <1>4, <1>5 DEF ThRecs
<1>7. OwnStep(t)
  BY <1>1, <1>2, <1>4, <1>6 DEF OwnStep
<1>8. ThreadSound(t)' /\ KindSound(t)'
  BY <1>1, <1>5, <1>6 DEF ThreadSound, KindSound, Looks, Unplaced, TypeInv
<1>9. QED
  BY <1>6, <1>7, <1>8 DEF OwnSound

(* What make_new_buffer makes: a Buffer, or only an end of its node's lock. *)
LEMMA Made ==
  ASSUME TypeInv, NEW t \in Threads, MakeBuffer(t)
  PROVE  LET made == th[t].ans \in Known
             k == th[t].node
             b == IF made THEN Len(bufs) + 1 ELSE 0
             new == [num |-> th[t].num, ft |-> th[t].ans, alive |-> TRUE,
                     initialized |-> FALSE, workers |-> 0]
         IN  /\ th[t].pc = "make" /\ k \in 1 .. Len(nodes)
             /\ bufs' \in Seq(BufRecs) /\ Len(bufs)' \in Nat
             /\ Len(bufs)' = IF made THEN Len(bufs) + 1 ELSE Len(bufs)
             /\ \A j \in 1 .. Len(bufs)' : bufs'[j] = IF j <= Len(bufs) THEN bufs[j] ELSE new
             /\ NodesBecome(k, [nodes[k] EXCEPT !.writer = None, !.bdata = IF made THEN Len(bufs) + 1 ELSE @])
             /\ b \in 0 .. Len(bufs)'
             /\ th' = [th EXCEPT ![t] = [th[t] EXCEPT !.pc = IF made THEN "append" ELSE "failed", !.buf = b]]
<1> DEFINE made == th[t].ans \in Known
           k == th[t].node
           b == IF made THEN Len(bufs) + 1 ELSE 0
           new == [num |-> th[t].num, ft |-> th[t].ans, alive |-> TRUE,
                   initialized |-> FALSE, workers |-> 0]
           r == [nodes[k] EXCEPT !.writer = None, !.bdata = IF made THEN Len(bufs) + 1 ELSE @]
           p == IF made THEN "append" ELSE "failed"
<1>1. /\ bufs' = IF made THEN Append(bufs, new) ELSE bufs
      /\ nodes' = [nodes EXCEPT ![k].writer = None, ![k].bdata = IF made THEN Len(bufs) + 1 ELSE @]
      /\ th' = [th EXCEPT ![t].pc = p, ![t].buf = b]
      /\ th[t].pc = "make"
  BY DEF MakeBuffer, At
<1>2. /\ k \in 1 .. Len(nodes) /\ th[t].num \in Nums
  <2>1. th[t].node \in 0 .. Len(nodes) /\ Len(nodes) \in Nat
    BY Somewhere, RegistryTypes DEF TypeInv
  <2>2. th[t].node # 0 /\ th[t].num \in Nums
    BY <1>1 DEF TypeInv, ThreadSound, Unplaced, Looks
  <2>3. QED
    BY <2>1, <2>2
<1>3. /\ nodes \in Seq(NodeRecs(Len(bufs))) /\ Len(nodes) \in Nat /\ Len(bufs) \in Nat
      /\ bufs \in Seq(BufRecs) /\ nodes[k] \in NodeRecs(Len(bufs))
  BY <1>2, RegistryTypes, NodeTypes DEF TypeInv
<1>4. made => new \in BufRecs
  BY <1>2, RegistryAssumption DEF BufRecs, Threads
<1> HIDE DEF new
<1>5. /\ bufs' \in Seq(BufRecs) /\ Len(bufs)' \in Nat /\ Len(bufs) <= Len(bufs)'
      /\ Len(bufs)' = IF made THEN Len(bufs) + 1 ELSE Len(bufs)
      /\ \A j \in 1 .. Len(bufs)' : bufs'[j] = IF j <= Len(bufs) THEN bufs[j] ELSE new
  <2>1. CASE ~ made
    <3>1. bufs' = bufs
      BY <1>1, <2>1
    <3>2. QED
      BY <1>3, <2>1, <3>1
  <2>2. CASE made
    <3>1. bufs' = Append(bufs, new)
      BY <1>1, <2>2
    <3>2. QED
      BY <1>3, <1>4, <2>2, <3>1, AppendProperties
  <2>3. QED
    BY <2>1, <2>2
<1>6. b \in 0 .. Len(bufs)'
  BY <1>3, <1>5
<1> HIDE DEF made
<1>7. r \in NodeRecs(Len(bufs)')
  <2>1. (IF made THEN Len(bufs) + 1 ELSE nodes[k].bdata) \in 0 .. Len(bufs)'
    BY <1>3, <1>5 DEF NodeRecs
  <2>2. nodes[k] \in NodeRecs(Len(bufs)')
    BY <1>3, <1>5, Grows
  <2>3. QED
    BY <2>1, <2>2 DEF NodeRecs
<1>8. nodes' = [nodes EXCEPT ![k] = r]
  BY <1>1, <1>2, <1>3
<1>9. th \in [Threads -> ThRecs(Len(nodes), Len(bufs))]
  BY ThreadTypes DEF TypeInv
<1>10. th' = [th EXCEPT ![t] = [th[t] EXCEPT !.pc = p, !.buf = b]]
  BY <1>1, <1>9
<1>11. k \in 0 .. Len(nodes)
  BY <1>2
<1> HIDE DEF r, k
<1>12. NodesBecome(k, r)
  BY <1>5, <1>7, <1>8, <1>11, NodeReplaced
<1>13. QED
  BY <1>1, <1>2, <1>5, <1>6, <1>10, <1>12 DEF made, r, k, new

LEMMA OwnMakeBuffer ==
  ASSUME TypeInv, NEW t \in Threads, MakeBuffer(t)
  PROVE  OwnSound(t) /\ th'[t].pc \in {"append", "failed"}
<1> DEFINE made == th[t].ans \in Known
           b == IF made THEN Len(bufs) + 1 ELSE 0
           p == IF made THEN "append" ELSE "failed"
<1>1. /\ th[t].pc = "make" /\ th[t].node \in 1 .. Len(nodes)
      /\ b \in 0 .. Len(bufs)' /\ Len(bufs)' \in Nat
      /\ Len(bufs)' = IF made THEN Len(bufs) + 1 ELSE Len(bufs)
      /\ th' = [th EXCEPT ![t] = [th[t] EXCEPT !.pc = p, !.buf = b]]
      /\ Len(nodes)' = Len(nodes)
  BY Made DEF NodesBecome
<1>2. UNCHANGED <<current, ft, sent, loop, aborted, wire>>
  BY DEF MakeBuffer, nvim, history
<1>3. p \in {"append", "failed"} /\ p \in Pcs
  BY DEF Pcs
<1>4. Len(bufs) \in Nat /\ Len(nodes) \in Nat
  BY RegistryTypes DEF TypeInv
<1>5. Len(bufs) <= Len(bufs)'
  BY <1>1, <1>4
<1> HIDE DEF made, b, p
<1>6. /\ th[t] \in ThRecs(Len(nodes), Len(bufs)) /\ th \in [Threads -> ThRecs(Len(nodes), Len(bufs))]
  BY ThreadTypes DEF TypeInv
<1>7. /\ th' = [th EXCEPT ![t] = th'[t]]
      /\ th'[t] = [th[t] EXCEPT !.pc = p, !.buf = b]
  BY <1>1, <1>6
<1>8. th[t] \in ThRecs(Len(nodes), Len(bufs)')
  BY <1>1, <1>4, <1>5, <1>6 DEF ThRecs
<1> DEFINE c == Len(bufs)'
<1> HIDE DEF c
<1>9. /\ th'[t] \in ThRecs(Len(nodes), Len(bufs)')
      /\ th'[t].pc = p /\ th'[t].num = th[t].num /\ th'[t].node = th[t].node /\ th'[t].kind = th[t].kind
  <2>1. b \in 0 .. c /\ th[t] \in ThRecs(Len(nodes), c)
    BY <1>1, <1>8 DEF c
  <2>2. /\ th'[t] \in ThRecs(Len(nodes), c)
        /\ th'[t].pc = p /\ th'[t].num = th[t].num /\ th'[t].node = th[t].node /\ th'[t].kind = th[t].kind
    BY <1>3, <1>7, <2>1 DEF ThRecs
  <2>3. QED
    BY <2>2 DEF c
<1>10. OwnStep(t)
  BY <1>1, <1>2, <1>3, <1>7, <1>9 DEF OwnStep
<1>11. ThreadSound(t)' /\ KindSound(t)'
  BY <1>1, <1>3, <1>9 DEF ThreadSound, KindSound, Looks, Unplaced, TypeInv
<1>12. QED
  BY <1>1, <1>3, <1>9, <1>10, <1>11 DEF OwnSound

LEMMA OwnOpenNode ==
  ASSUME TypeInv, NEW t \in Threads, OpenNode(t)
  PROVE  OwnSound(t) /\ (th' = th \/ th'[t].pc \in {"make", "failed"})
<1>1. th[t].pc = "open"
  BY DEF OpenNode, At
<1>2. CASE ~ nodes[th[t].node].alive
  <2>1. UNCHANGED <<current, ft, sent, loop, aborted, th, wire, nodes, bufs>>
    BY <1>2 DEF OpenNode, Stray, nvim, registry, history
  <2>2. QED
    BY <1>1, <2>1, Strays
<1>3. CASE nodes[th[t].node].alive
  <2>1. UNCHANGED <<current, ft, sent, loop, aborted, bufs>>
    BY <1>3 DEF OpenNode, nvim, history
  <2>2. CASE nodes[th[t].node].isopen
    <3>1. Goto(t, "failed") /\ UNCHANGED <<wire, nodes>>
      BY <1>3, <2>2 DEF OpenNode
    <3>2. "failed" \in Plain /\ Leads(t, "failed")
      BY <1>1 DEF Plain, Pcs, Leads, Unplaced, Looks
    <3>3. QED
      BY <2>1, <3>1, <3>2, GoesOn
  <2>3. CASE ~ nodes[th[t].node].isopen
    <3>1. Call(t, "make", ft[th[t].num])
      BY <1>3, <2>3 DEF OpenNode
    <3>2. "make" \in Plain /\ Leads(t, "make")
      BY <1>1 DEF Plain, Pcs, Leads, Unplaced, Looks
    <3>3. th[t].num \in Nums /\ ft[th[t].num] \in Filetypes
      BY <1>1 DEF TypeInv, TypeOK, ThreadSound, Unplaced, Looks
    <3>4. Len(nodes)' = Len(nodes)
      BY <1>3, <2>3, NodesOpened DEF NodesBecome
    <3>5. QED
      BY <2>1, <3>1, <3>2, <3>3, <3>4, GoesOn
  <2>4. QED
    BY <2>2, <2>3
<1>4. QED
  BY <1>2, <1>3

LEMMA OwnFreeNode ==
  ASSUME TypeInv, NEW t \in Threads, FreeNode(t)
  PROVE  /\ OwnSound(t) /\ (th' = th \/ th'[t].pc \in {"clear", "end"})
         /\ \/ UNCHANGED nodes
            \/ /\ th[t].node \in 1 .. Len(nodes) /\ nodes[th[t].node].bdata = 0
               /\ NodesBecome(th[t].node, [nodes[th[t].node] EXCEPT !.alive = FALSE])
<1> DEFINE k == th[t].node
<1>1. th[t].pc = "failed"
  BY DEF FreeNode, At
<1>2. k \in 0 .. Len(nodes) /\ k # 0 /\ Len(nodes) \in Nat /\ Len(bufs) \in Nat
  BY <1>1, Somewhere, RegistryTypes DEF TypeInv, ThreadSound
<1>3. k \in 1 .. Len(nodes)
  BY <1>2
<1>4. nodes[k] \in NodeRecs(Len(bufs)) /\ nodes \in Seq(NodeRecs(Len(bufs))) /\ nodes[k].bdata \in 0 .. Len(bufs)
  BY <1>3, NodeTypes, RegistryTypes DEF TypeInv
<1>5. CASE ~ nodes[k].alive
  <2>1. UNCHANGED <<current, ft, sent, loop, aborted, th, wire, nodes, bufs>>
    BY <1>5 DEF FreeNode, Stray, nvim, registry, history
  <2>2. QED
    BY <1>1, <2>1, Strays
<1>6. CASE nodes[k].alive /\ nodes[k].bdata = 0
  <2>1. /\ nodes' = [nodes EXCEPT ![k].alive = FALSE] /\ Goto(t, "end")
        /\ UNCHANGED <<current, ft, sent, loop, aborted, bufs, wire>>
    BY <1>6 DEF FreeNode, nvim, history
  <2> DEFINE r == [nodes[k] EXCEPT !.alive = FALSE]
  <2>2. r \in NodeRecs(Len(bufs)) /\ nodes' = [nodes EXCEPT ![k] = r]
    BY <1>3, <1>4, <2>1 DEF NodeRecs
  <2>3. Len(bufs)' = Len(bufs)
    BY <2>1
  <2>4. NodesBecome(k, r)
    <3> HIDE DEF k, r
    <3>1. r \in NodeRecs(Len(bufs)') /\ Len(bufs)' \in Nat /\ Len(bufs) <= Len(bufs)'
      BY <1>2, <2>2, <2>3
    <3>2. QED
      BY <1>2, <2>2, <3>1, NodeReplaced
  <2>5. "end" \in Plain /\ Leads(t, "end")
    BY <1>1 DEF Plain, Pcs, Leads, Unplaced, Looks
  <2>6. OwnSound(t) /\ th'[t].pc = "end"
    BY <2>1, <2>3, <2>4, <2>5, GoesOn DEF NodesBecome
  <2>7. QED
    BY <1>3, <1>6, <2>4, <2>6
<1>7. CASE nodes[k].alive /\ nodes[k].bdata # 0
  <2> DEFINE b == nodes[k].bdata
  <2>1. /\ th' = [th EXCEPT ![t].pc = "clear", ![t].buf = b]
        /\ UNCHANGED <<current, ft, sent, loop, aborted, nodes, bufs, wire>>
    BY <1>7 DEF FreeNode, nvim, history
  <2>2. b \in 0 .. Len(bufs)
    BY <1>4
  <2> HIDE DEF b, k
  <2>3. /\ th[t] \in ThRecs(Len(nodes), Len(bufs)) /\ th \in [Threads -> ThRecs(Len(nodes), Len(bufs))]
        /\ "clear" \in Pcs
    BY ThreadTypes DEF TypeInv, Pcs, Uses
  <2>4. th' = [th EXCEPT ![t] = [th[t] EXCEPT !.pc = "clear", !.buf = b]]
    BY <2>1, <2>3
  <2>5. /\ th' = [th EXCEPT ![t] = th'[t]] /\ th'[t] = [th[t] EXCEPT !.pc = "clear", !.buf = b]
    BY <2>3, <2>4
  <2>6. /\ th'[t] \in ThRecs(Len(nodes), Len(bufs))
        /\ th'[t].pc = "clear" /\ th'[t].num = th[t].num /\ th'[t].kind = th[t].kind
    BY <2>2, <2>3, <2>5 DEF ThRecs
  <2>7. OwnStep(t)
    BY <1>1, <2>1, <2>5, <2>6 DEF OwnStep
  <2>8. ThreadSound(t)' /\ KindSound(t)'
    BY <1>1, <2>6 DEF ThreadSound, KindSound, Looks, Unplaced, TypeInv
  <2>9. QED
    BY <2>1, <2>6, <2>7, <2>8 DEF OwnSound
<1>8. QED
  BY <1>5, <1>6, <1>7

(* num_workers as any integer: what bounds it is how many threads there are. *)
CountRecs == [num : Nums, ft : Known, alive : BOOLEAN, initialized : BOOLEAN, workers : Int]
BufsBecome(b, r) == /\ bufs' \in Seq(CountRecs)
                    /\ Len(bufs)' = Len(bufs)
                    /\ \A j \in 1 .. Len(bufs) : bufs'[j] = IF j = b THEN r ELSE bufs[j]

LEMMA Counts == BufRecs \subseteq CountRecs
  BY RegistryAssumption DEF BufRecs, CountRecs, Threads

LEMMA BufReplaced ==
  ASSUME TypeInv, NEW b \in 1 .. Len(bufs), NEW r \in CountRecs, bufs' = [bufs EXCEPT ![b] = r]
  PROVE  BufsBecome(b, r)
<1>1. bufs \in Seq(BufRecs) /\ Len(bufs) \in Nat
  BY RegistryTypes DEF TypeInv
<1>2. QED
  BY <1>1, Counts, Replaced DEF BufsBecome

(* A thread that uses its Buffer.                                          *)
LEMMA Used ==
  ASSUME TypeInv, NEW t \in Threads, NEW p, Use(t, p)
  PROVE  /\ th[t].pc = p /\ ~ th[t].waiting /\ Live
         /\ th[t].buf \in 1 .. Len(bufs) /\ bufs[th[t].buf].alive
         /\ bufs[th[t].buf] \in BufRecs /\ bufs[th[t].buf] \in CountRecs /\ bufs \in Seq(BufRecs)
<1>1. th[t].pc = p /\ ~ th[t].waiting /\ th[t].buf # 0 /\ bufs[th[t].buf].alive /\ Live
  BY DEF Use, At, Alive
<1>2. th[t].buf \in 0 .. Len(bufs) /\ bufs \in Seq(BufRecs) /\ Len(bufs) \in Nat
  BY Somewhere, RegistryTypes DEF TypeInv
<1>3. th[t].buf \in 1 .. Len(bufs)
  BY <1>1, <1>2
<1>4. bufs[th[t].buf] \in BufRecs
  BY <1>2, <1>3, ElementOfSeq
<1>5. QED
  BY <1>1, <1>2, <1>3, <1>4, Counts

(* What the steps do that change a Buffer.                                 *)
LEMMA BufsChanged ==
  ASSUME TypeInv, NEW t \in Threads
  PROVE  LET b == th[t].buf IN
         /\ Initialize(t) => b \in 1 .. Len(bufs) /\ BufsBecome(b, [bufs[b] EXCEPT !.initialized = TRUE])
         /\ ShutDoor(t) => b \in 1 .. Len(bufs) /\ BufsBecome(b, [bufs[b] EXCEPT !.initialized = FALSE])
         /\ FreeBuffer(t) => b \in 1 .. Len(bufs) /\ BufsBecome(b, [bufs[b] EXCEPT !.alive = FALSE])
         /\ WorkerCountIn(t) => b \in 1 .. Len(bufs) /\ BufsBecome(b, [bufs[b] EXCEPT !.workers = @ + 1])
         /\ WorkerCountOut(t) => b \in 1 .. Len(bufs) /\ BufsBecome(b, [bufs[b] EXCEPT !.workers = @ - 1])
<1> DEFINE b == th[t].buf
<1>1. Initialize(t) => b \in 1 .. Len(bufs) /\ BufsBecome(b, [bufs[b] EXCEPT !.initialized = TRUE])
  <2>1. SUFFICES ASSUME Initialize(t)
                 PROVE  b \in 1 .. Len(bufs) /\ BufsBecome(b, [bufs[b] EXCEPT !.initialized = TRUE])
    OBVIOUS
  <2>2. Use(t, "got_lines") /\ bufs' = [bufs EXCEPT ![b].initialized = TRUE]
    BY <2>1 DEF Initialize
  <2>3. b \in 1 .. Len(bufs) /\ bufs[b] \in CountRecs
    BY <2>2, Used
  <2>4. [bufs[b] EXCEPT !.initialized = TRUE] \in CountRecs
    BY <2>3 DEF CountRecs
  <2>5. bufs' = [bufs EXCEPT ![b] = [bufs[b] EXCEPT !.initialized = TRUE]]
    BY <2>2
  <2>6. QED
    BY <2>3, <2>4, <2>5, BufReplaced
<1>2. ShutDoor(t) => b \in 1 .. Len(bufs) /\ BufsBecome(b, [bufs[b] EXCEPT !.initialized = FALSE])
  <2>1. SUFFICES ASSUME ShutDoor(t)
                 PROVE  b \in 1 .. Len(bufs) /\ BufsBecome(b, [bufs[b] EXCEPT !.initialized = FALSE])
    OBVIOUS
  <2>2. Use(t, "drain") /\ bufs' = [bufs EXCEPT ![b].initialized = FALSE]
    BY <2>1 DEF ShutDoor
  <2>3. b \in 1 .. Len(bufs) /\ bufs[b] \in CountRecs
    BY <2>2, Used
  <2>4. [bufs[b] EXCEPT !.initialized = FALSE] \in CountRecs
    BY <2>3 DEF CountRecs
  <2>5. bufs' = [bufs EXCEPT ![b] = [bufs[b] EXCEPT !.initialized = FALSE]]
    BY <2>2
  <2>6. QED
    BY <2>3, <2>4, <2>5, BufReplaced
<1>3. FreeBuffer(t) => b \in 1 .. Len(bufs) /\ BufsBecome(b, [bufs[b] EXCEPT !.alive = FALSE])
  <2>1. SUFFICES ASSUME FreeBuffer(t)
                 PROVE  b \in 1 .. Len(bufs) /\ BufsBecome(b, [bufs[b] EXCEPT !.alive = FALSE])
    OBVIOUS
  <2>2. Use(t, "free") /\ bufs' = [bufs EXCEPT ![b].alive = FALSE]
    BY <2>1 DEF FreeBuffer
  <2>3. b \in 1 .. Len(bufs) /\ bufs[b] \in CountRecs
    BY <2>2, Used
  <2>4. [bufs[b] EXCEPT !.alive = FALSE] \in CountRecs
    BY <2>3 DEF CountRecs
  <2>5. bufs' = [bufs EXCEPT ![b] = [bufs[b] EXCEPT !.alive = FALSE]]
    BY <2>2
  <2>6. QED
    BY <2>3, <2>4, <2>5, BufReplaced
<1>4. WorkerCountIn(t) => b \in 1 .. Len(bufs) /\ BufsBecome(b, [bufs[b] EXCEPT !.workers = @ + 1])
  <2>1. SUFFICES ASSUME WorkerCountIn(t)
                 PROVE  b \in 1 .. Len(bufs) /\ BufsBecome(b, [bufs[b] EXCEPT !.workers = @ + 1])
    OBVIOUS
  <2>2. Use(t, "work") /\ bufs' = [bufs EXCEPT ![b].workers = @ + 1]
    BY <2>1 DEF WorkerCountIn
  <2>3. b \in 1 .. Len(bufs) /\ bufs[b] \in CountRecs
    BY <2>2, Used
  <2>4. [bufs[b] EXCEPT !.workers = @ + 1] \in CountRecs
    BY <2>3 DEF CountRecs
  <2>5. bufs' = [bufs EXCEPT ![b] = [bufs[b] EXCEPT !.workers = @ + 1]]
    BY <2>2
  <2>6. QED
    BY <2>3, <2>4, <2>5, BufReplaced
<1>5. WorkerCountOut(t) => b \in 1 .. Len(bufs) /\ BufsBecome(b, [bufs[b] EXCEPT !.workers = @ - 1])
  <2>1. SUFFICES ASSUME WorkerCountOut(t)
                 PROVE  b \in 1 .. Len(bufs) /\ BufsBecome(b, [bufs[b] EXCEPT !.workers = @ - 1])
    OBVIOUS
  <2>2. Use(t, "leave") /\ bufs' = [bufs EXCEPT ![b].workers = @ - 1]
    BY <2>1 DEF WorkerCountOut
  <2>3. b \in 1 .. Len(bufs) /\ bufs[b] \in CountRecs
    BY <2>2, Used
  <2>4. [bufs[b] EXCEPT !.workers = @ - 1] \in CountRecs
    BY <2>3 DEF CountRecs
  <2>5. bufs' = [bufs EXCEPT ![b] = [bufs[b] EXCEPT !.workers = @ - 1]]
    BY <2>2
  <2>6. QED
    BY <2>3, <2>4, <2>5, BufReplaced
<1>6. QED
  BY <1>1, <1>2, <1>3, <1>4, <1>5

LEMMA NodeFreed ==
  ASSUME TypeInv, NEW t \in Threads, FreeBuffer(t)
  PROVE  IF th[t].node = 0 THEN nodes' = nodes
         ELSE /\ th[t].node \in 1 .. Len(nodes)
              /\ NodesBecome(th[t].node, [nodes[th[t].node] EXCEPT !.alive = FALSE])
<1> DEFINE k == th[t].node
           r == [nodes[k] EXCEPT !.alive = FALSE]
<1>1. CASE k = 0
  BY <1>1 DEF FreeBuffer
<1>2. CASE k # 0
  <2>1. k \in 0 .. Len(nodes) /\ Len(nodes) \in Nat /\ Len(bufs) \in Nat /\ nodes \in Seq(NodeRecs(Len(bufs)))
    BY Somewhere, RegistryTypes DEF TypeInv
  <2>2. k \in 1 .. Len(nodes)
    BY <1>2, <2>1
  <2>3. nodes[k] \in NodeRecs(Len(bufs))
    BY <2>2, NodeTypes DEF TypeInv
  <2>4. r \in NodeRecs(Len(bufs)) /\ nodes' = [nodes EXCEPT ![k] = r]
    BY <1>2, <2>1, <2>3 DEF NodeRecs, FreeBuffer
  <2>5. Len(bufs)' = Len(bufs)
    BY BufsChanged DEF BufsBecome
  <2> HIDE DEF k, r
  <2>6. r \in NodeRecs(Len(bufs)') /\ Len(bufs)' \in Nat /\ Len(bufs) <= Len(bufs)'
    BY <2>1, <2>4, <2>5
  <2>7. NodesBecome(k, r)
    BY <2>1, <2>4, <2>6, NodeReplaced
  <2>8. QED
    BY <1>2, <2>2, <2>7 DEF k, r
<1>3. QED
  BY <1>1, <1>2

(* Steps that leave nodes and Buffers alone.                               *)
LEMMA OwnPlainStep ==
  ASSUME TypeInv, NEW t \in Threads,
         \/ AskFiletype(t) \/ Judge(t) \/ AppendNode(t) \/ Attach(t) \/ GetLines(t)
         \/ Update(t) \/ Updated(t) \/ End(t) \/ ClearHighlight(t) \/ WorkerEnter(t)
  PROVE  OwnSound(t) /\ UNCHANGED <<nodes, bufs>> /\ th[t].pc \notin Joined /\ th'[t].pc \notin Joined
<1>1. UNCHANGED <<current, ft, sent, loop, aborted, nodes, bufs>>
  BY DEF AskFiletype, Judge, AppendNode, Attach, GetLines, Update, Updated, End, ClearHighlight, WorkerEnter,
         nvim, registry, history
<1>2. None \in Nums \cup Filetypes \cup {None}
  OBVIOUS
<1>3. SUFFICES \E p \in Plain \ Joined :
                 /\ Leads(t, p) /\ th[t].pc \notin Joined
                 /\ \/ Goto(t, p) /\ UNCHANGED wire
                    \/ \E a \in Nums \cup Filetypes \cup {None} : Call(t, p, a)
  BY <1>1, GoesOn
<1> USE DEF Joined, Plain, Pcs, Uses, Leads, Unplaced, Looks, Use, At
<1>4. CASE AskFiletype(t)
  <2>1. th[t].pc = "compare" /\ Call(t, "judge", ft[th[t].num])
    BY <1>4 DEF AskFiletype
  <2>2. th[t].num \in Nums /\ ft[th[t].num] \in Filetypes
    BY <2>1 DEF TypeInv, TypeOK, ThreadSound
  <2>3. QED
    BY <2>1, <2>2
<1>5. CASE Judge(t)
  BY <1>5 DEF Judge
<1>6. CASE AppendNode(t)
  BY <1>6 DEF AppendNode
<1>7. CASE Attach(t)
  BY <1>2, <1>7 DEF Attach
<1>8. CASE GetLines(t)
  BY <1>2, <1>8 DEF GetLines
<1>9. CASE Update(t)
  BY <1>2, <1>9 DEF Update
<1>10. CASE Updated(t)
  BY <1>10 DEF Updated
<1>11. CASE End(t)
  BY <1>11 DEF End
<1>12. CASE ClearHighlight(t)
  <2> DEFINE p == IF th[t].node = 0 THEN "unlist" ELSE "drain"
  <2>1. th[t].pc = "clear" /\ ((Goto(t, p) /\ UNCHANGED wire) \/ Call(t, p, None))
    BY <1>12 DEF ClearHighlight
  <2>2. p \in Plain \ Joined /\ Leads(t, p)
    BY <2>1
  <2> HIDE DEF p
  <2>3. QED
    BY <1>2, <2>1, <2>2
<1>13. CASE WorkerEnter(t)
  BY <1>13 DEF WorkerEnter
<1>14. QED
  BY <1>4, <1>5, <1>6, <1>7, <1>8, <1>9, <1>10, <1>11, <1>12, <1>13

(* A worker that highlights is counted all the time.                       *)
LEMMA OwnHighlight ==
  ASSUME TypeInv, NEW t \in Threads, WorkerHighlight(t)
  PROVE  /\ OwnSound(t) /\ UNCHANGED <<nodes, bufs>>
         /\ th[t].pc = "join" /\ th'[t].pc = "leave" /\ th'[t].buf = th[t].buf
<1>1. /\ UNCHANGED <<current, ft, sent, loop, aborted, nodes, bufs>> /\ th[t].pc = "join"
      /\ Call(t, "leave", None)
  BY DEF WorkerHighlight, nvim, registry, history, Use, At
<1>2. None \in Nums \cup Filetypes \cup {None}
  OBVIOUS
<1>3. "leave" \in Plain /\ Leads(t, "leave")
  BY <1>1 DEF Plain, Pcs, Uses, Leads, Unplaced, Looks
<1>4. OwnSound(t)
  BY <1>1, <1>2, <1>3, GoesOn
<1>5. "leave" \in Pcs \ {"idle"}
  BY DEF Pcs, Uses
<1>6. th'[t].pc = "leave" /\ th'[t].buf = th[t].buf
  BY <1>1, <1>2, <1>5, Goes
<1>7. QED
  BY <1>1, <1>4, <1>6

(* Steps that change a Buffer or close a node.                             *)
LEMMA OwnChange ==
  ASSUME TypeInv, NEW t \in Threads,
         \/ Initialize(t) \/ ShutDoor(t) \/ FreeBuffer(t) \/ CloseNode(t)
         \/ WorkerCountIn(t) \/ WorkerCountOut(t)
  PROVE  /\ OwnSound(t)
         /\ WorkerCountIn(t) => th[t].pc = "work" /\ th'[t].pc = "join"
         /\ WorkerCountOut(t) => th[t].pc = "leave" /\ th'[t].pc \notin Joined
         /\ ~ (WorkerCountIn(t) \/ WorkerCountOut(t)) => th[t].pc \notin Joined /\ th'[t].pc \notin Joined
<1>1. UNCHANGED <<current, ft, sent, loop, aborted>>
  BY DEF Initialize, ShutDoor, FreeBuffer, CloseNode, WorkerCountIn, WorkerCountOut, nvim, registry, history
<1>2. Len(nodes)' = Len(nodes)
  <2>1. CASE FreeBuffer(t)
    BY <2>1, NodeFreed DEF NodesBecome
  <2>2. CASE CloseNode(t)
    BY <2>2, NodeClosed DEF NodesBecome
  <2>3. CASE nodes' = nodes
    BY <2>3
  <2>4. QED
    BY <2>1, <2>2, <2>3 DEF Initialize, ShutDoor, WorkerCountIn, WorkerCountOut
<1>3. Len(bufs)' = Len(bufs)
  BY BufsChanged DEF BufsBecome, CloseNode
<1>4. SUFFICES \E p \in Plain :
                 /\ Leads(t, p)
                 /\ \/ Goto(t, p) /\ UNCHANGED wire
                    \/ \E a \in Nums \cup Filetypes \cup {None} : Call(t, p, a)
                 /\ WorkerCountIn(t) => th[t].pc = "work" /\ p = "join"
                 /\ WorkerCountOut(t) => th[t].pc = "leave" /\ p \notin Joined
                 /\ ~ (WorkerCountIn(t) \/ WorkerCountOut(t)) => th[t].pc \notin Joined /\ p \notin Joined
  BY <1>1, <1>2, <1>3, GoesOn
<1> USE DEF Joined, Plain, Pcs, Uses, Leads, Unplaced, Looks, Use, At
<1>5. CASE Initialize(t)
  BY <1>5 DEF Initialize, WorkerCountIn, WorkerCountOut
<1>6. CASE ShutDoor(t)
  BY <1>6 DEF ShutDoor, WorkerCountIn, WorkerCountOut
<1>7. CASE FreeBuffer(t)
  BY <1>7 DEF FreeBuffer, WorkerCountIn, WorkerCountOut
<1>8. CASE CloseNode(t)
  BY <1>8 DEF CloseNode, WorkerCountIn, WorkerCountOut
<1>9. CASE WorkerCountIn(t)
  BY <1>9 DEF WorkerCountIn, WorkerCountOut
<1>10. CASE WorkerCountOut(t)
  BY <1>10 DEF WorkerCountIn, WorkerCountOut
<1>11. QED
  BY <1>5, <1>6, <1>7, <1>8, <1>9, <1>10

LEMMA OwnSteps ==
  ASSUME TypeInv, NEW t \in Threads, ThreadStep(t)
  PROVE  OwnSound(t)
  BY OwnStray, OwnBegin, OwnCannotLook, OwnLook, OwnPrevious, OwnSuspend, OwnPlainStep, OwnFindNode,
     OwnOpenNode, OwnMakeBuffer, OwnFreeNode, OwnHighlight, OwnChange DEF ThreadStep

(* What a step of a thread may do to the nodes and the Buffers.            *)
LEMMA ThreadAllocs ==
  ASSUME TypeInv, NEW t \in Threads, ThreadStep(t)
  PROVE  /\ nodes' \in Seq(NodeRecs(Len(bufs)')) /\ Len(nodes)' \in Nat /\ Len(nodes) <= Len(nodes)'
         /\ bufs' \in Seq(CountRecs) /\ Len(bufs)' \in Nat /\ Len(bufs) <= Len(bufs)'
<1>1. /\ nodes \in Seq(NodeRecs(Len(bufs))) /\ Len(nodes) \in Nat
      /\ bufs \in Seq(BufRecs) /\ Len(bufs) \in Nat /\ bufs \in Seq(CountRecs)
  BY RegistryTypes, Counts, SeqMonotonic DEF TypeInv
<1>2. CASE UNCHANGED <<nodes, bufs>>
  BY <1>1, <1>2
<1>3. CASE UNCHANGED nodes /\ (Initialize(t) \/ ShutDoor(t) \/ WorkerCountIn(t) \/ WorkerCountOut(t))
  <2>1. bufs' \in Seq(CountRecs) /\ Len(bufs)' = Len(bufs)
    BY <1>3, BufsChanged DEF BufsBecome
  <2>2. QED
    BY <1>1, <1>3, <2>1
<1>4. CASE FindNode(t)
  <2>1. nodes' \in Seq(NodeRecs(Len(bufs))) /\ Len(nodes)' \in Nat /\ Len(nodes) <= Len(nodes)'
    BY <1>4, FoundOrMade
  <2>2. bufs' = bufs
    BY <1>4 DEF FindNode
  <2>3. QED
    BY <1>1, <2>1, <2>2
<1>5. CASE OpenNode(t)
  <2>1. bufs' = bufs
    BY <1>5 DEF OpenNode, Stray, registry
  <2>2. nodes' = nodes \/ (nodes[th[t].node].alive /\ ~ nodes[th[t].node].isopen)
    BY <1>5 DEF OpenNode, Stray, registry
  <2>3. \/ nodes' = nodes
        \/ nodes' \in Seq(NodeRecs(Len(bufs)')) /\ Len(nodes)' = Len(nodes)
    BY <1>5, <2>2, NodesOpened DEF NodesBecome
  <2>4. QED
    BY <1>1, <2>1, <2>3
<1>6. CASE MakeBuffer(t)
  <2>1. bufs' \in Seq(BufRecs) /\ Len(bufs)' \in Nat /\ Len(bufs) <= Len(bufs)'
    <3>1. /\ bufs' \in Seq(BufRecs) /\ Len(bufs)' \in Nat
          /\ Len(bufs)' = IF th[t].ans \in Known THEN Len(bufs) + 1 ELSE Len(bufs)
      BY <1>6, Made
    <3>2. QED
      BY <1>1, <3>1
  <2>2. nodes' \in Seq(NodeRecs(Len(bufs)')) /\ Len(nodes)' = Len(nodes)
    BY <1>6, Made DEF NodesBecome
  <2>3. bufs' \in Seq(CountRecs)
    BY <2>1, Counts, SeqMonotonic
  <2>4. QED
    BY <1>1, <2>1, <2>2, <2>3
<1>7. CASE FreeNode(t)
  <2>1. bufs' = bufs
    BY <1>7 DEF FreeNode, Stray, registry
  <2>2. \/ nodes' = nodes
        \/ nodes' \in Seq(NodeRecs(Len(bufs)')) /\ Len(nodes)' = Len(nodes)
    BY <1>7, OwnFreeNode DEF NodesBecome
  <2>3. QED
    BY <1>1, <2>1, <2>2
<1>8. CASE CloseNode(t)
  <2>1. bufs' = bufs
    BY <1>8 DEF CloseNode
  <2>2. nodes' \in Seq(NodeRecs(Len(bufs)')) /\ Len(nodes)' = Len(nodes)
    BY <1>8, NodeClosed DEF NodesBecome
  <2>3. QED
    BY <1>1, <2>1, <2>2
<1>9. CASE FreeBuffer(t)
  <2>1. bufs' \in Seq(CountRecs) /\ Len(bufs)' = Len(bufs)
    BY <1>9, BufsChanged DEF BufsBecome
  <2>2. nodes' \in Seq(NodeRecs(Len(bufs)')) /\ Len(nodes)' = Len(nodes)
    <3>1. CASE th[t].node = 0
      <4>1. nodes' = nodes
        BY <1>9, <3>1, NodeFreed
      <4>2. QED
        BY <1>1, <2>1, <4>1
    <3>2. CASE th[t].node # 0
      BY <1>9, <3>2, NodeFreed DEF NodesBecome
    <3>3. QED
      BY <3>1, <3>2
  <2>3. QED
    BY <1>1, <2>1, <2>2
<1>10. QED
  <2>1. \/ UNCHANGED <<nodes, bufs>>
        \/ UNCHANGED nodes /\ (Initialize(t) \/ ShutDoor(t) \/ WorkerCountIn(t) \/ WorkerCountOut(t))
        \/ FindNode(t) \/ OpenNode(t) \/ MakeBuffer(t) \/ FreeNode(t) \/ CloseNode(t) \/ FreeBuffer(t)
    <3>1. CASE UseFreed(t) \/ UsePrevious(t) \/ Begin(t) \/ CannotLook(t)
      BY <3>1 DEF UseFreed, UsePrevious, Begin, CannotLook, CannotWalk, Stray, registry
    <3>2. CASE Look(t) \/ FindPrevious(t) \/ Suspend(t)
      BY <3>2 DEF Look, FindPrevious, Suspend, registry
    <3>3. CASE \/ AskFiletype(t) \/ Judge(t) \/ AppendNode(t) \/ Attach(t) \/ GetLines(t)
               \/ Update(t) \/ Updated(t) \/ End(t) \/ ClearHighlight(t) \/ WorkerEnter(t)
      BY <3>3, OwnPlainStep
    <3>4. CASE Initialize(t) \/ ShutDoor(t) \/ WorkerCountIn(t) \/ WorkerCountOut(t)
      BY <3>4 DEF Initialize, ShutDoor, WorkerCountIn, WorkerCountOut
    <3>5. CASE WorkerHighlight(t)
      BY <3>5, OwnHighlight
    <3>6. QED
      BY <3>1, <3>2, <3>3, <3>4, <3>5 DEF ThreadStep
  <2>2. QED
    BY <1>2, <1>3, <1>4, <1>5, <1>6, <1>7, <1>8, <1>9, <2>1

(* The number of workers inside a Buffer is known by whom it counts.        *)
LEMMA Workers ==
  ASSUME NEW S, S \subseteq Threads, Main \notin S
  PROVE  IsFiniteSet(S) /\ Cardinality(S) \in Threads
<1>1. S \subseteq 1 .. MaxMessages /\ 1 \in Int /\ MaxMessages \in Int
  BY RegistryAssumption DEF Threads, Main
<1>2. IsFiniteSet(1 .. MaxMessages) /\ Cardinality(1 .. MaxMessages) = MaxMessages
  BY <1>1, FS_Interval, RegistryAssumption
<1>3. IsFiniteSet(S) /\ Cardinality(S) <= MaxMessages
  BY <1>1, <1>2, FS_Subset
<1>4. Cardinality(S) \in Nat
  BY <1>3, FS_CardinalityType
<1>5. QED
  BY <1>3, <1>4, RegistryAssumption DEF Threads

(* Steps that leave num_workers alone.                                     *)
KeepsCounts(t) ==
  /\ \/ th' = th
     \/ th[t].pc \notin Joined /\ th'[t].pc \notin Joined
     \/ th[t].pc \in Joined /\ th'[t].pc \in Joined /\ th'[t].buf = th[t].buf
  /\ \A j \in 1 .. Len(bufs)' : bufs'[j].workers = IF j <= Len(bufs) THEN bufs[j].workers ELSE 0

LEMMA CountsKept ==
  ASSUME TypeInv, NEW t \in Threads, OwnSound(t), KeepsCounts(t), Len(bufs)' \in Nat
  PROVE  WorkersCounted'
<1>1. th' = [th EXCEPT ![t] = th'[t]]
  BY DEF OwnSound, OwnStep
<1>2. th \in [Threads -> ThRecs(Len(nodes), Len(bufs))] /\ Len(bufs) \in Nat
  BY ThreadTypes, RegistryTypes DEF TypeInv
<1>3. \A u \in Threads : u # t => th'[u] = th[u]
  BY <1>1, <1>2
<1>4. \A b : Inside(b)' = Inside(b)
  BY <1>3 DEF Inside, KeepsCounts
<1>5. \A b \in 1 .. Len(bufs) : bufs[b].workers = Cardinality(Inside(b))
  BY DEF TypeInv, WorkersCounted
<1>6. \A b \in 1 .. Len(bufs)' : b > Len(bufs) => Inside(b) = {}
  <2>1. \A u \in Threads : th[u].buf \in 0 .. Len(bufs)
    BY ThreadTypes DEF TypeInv
  <2>2. QED
    BY <1>2, <2>1 DEF Inside
<1>7. Cardinality({}) = 0
  BY FS_EmptySet
<1>8. \A b \in 1 .. Len(bufs)' : bufs'[b].workers = Cardinality(Inside(b)')
  <2>1. SUFFICES ASSUME NEW b \in 1 .. Len(bufs)'
                 PROVE  bufs'[b].workers = Cardinality(Inside(b))
    BY <1>4
  <2>2. CASE b <= Len(bufs)
    BY <1>2, <1>5, <2>2 DEF KeepsCounts
  <2>3. CASE b > Len(bufs)
    <3>1. bufs'[b].workers = 0
      BY <1>2, <2>3 DEF KeepsCounts
    <3>2. Inside(b) = {}
      BY <1>6, <2>3
    <3>3. QED
      BY <1>7, <3>1, <3>2
  <2>4. QED
    BY <1>2, <2>2, <2>3
<1>9. QED
  BY <1>8 DEF WorkersCounted

LEMMA CountsAreKept ==
  ASSUME TypeInv, NEW t \in Threads, ThreadStep(t), ~ WorkerCountIn(t), ~ WorkerCountOut(t)
  PROVE  KeepsCounts(t)
<1>1. \/ th' = th
      \/ th[t].pc \notin Joined /\ th'[t].pc \notin Joined
      \/ th[t].pc \in Joined /\ th'[t].pc \in Joined /\ th'[t].buf = th[t].buf
  <2>1. CASE UseFreed(t) \/ UsePrevious(t) \/ CannotLook(t)
    BY <2>1 DEF UseFreed, UsePrevious, CannotLook, CannotWalk, Stray
  <2>2. CASE Begin(t)
    BY <2>2, OwnBegin DEF Looks, Joined
  <2>3. CASE Look(t)
    BY <2>3, OwnLook, Looked DEF Looks, Joined
  <2>4. CASE FindPrevious(t)
    BY <2>4, OwnPrevious DEF FindPrevious, At, Joined
  <2>5. CASE Suspend(t)
    BY <2>5, OwnSuspend DEF Suspend, At, Joined
  <2>6. CASE \/ AskFiletype(t) \/ Judge(t) \/ AppendNode(t) \/ Attach(t) \/ GetLines(t)
             \/ Update(t) \/ Updated(t) \/ End(t) \/ ClearHighlight(t) \/ WorkerEnter(t)
    BY <2>6, OwnPlainStep
  <2>7. CASE FindNode(t)
    BY <2>7, OwnFindNode DEF FindNode, Opening, At, Joined
  <2>8. CASE OpenNode(t)
    BY <2>8, OwnOpenNode DEF OpenNode, At, Joined
  <2>9. CASE MakeBuffer(t)
    BY <2>9, OwnMakeBuffer DEF MakeBuffer, At, Joined
  <2>10. CASE FreeNode(t)
    BY <2>10, OwnFreeNode DEF FreeNode, At, Joined
  <2>11. CASE Initialize(t) \/ ShutDoor(t) \/ FreeBuffer(t) \/ CloseNode(t)
    BY <2>11, OwnChange DEF Initialize, ShutDoor, FreeBuffer, CloseNode, WorkerCountIn, WorkerCountOut, Use, At
  <2>12. CASE WorkerHighlight(t)
    BY <2>12, OwnHighlight DEF Joined
  <2>13. QED
    BY <2>1, <2>2, <2>3, <2>4, <2>5, <2>6, <2>7, <2>8, <2>9, <2>10, <2>11, <2>12 DEF ThreadStep
<1>2. \A j \in 1 .. Len(bufs)' : bufs'[j].workers = IF j <= Len(bufs) THEN bufs[j].workers ELSE 0
  <2>1. Len(bufs) \in Nat
    BY RegistryTypes DEF TypeInv
  <2>2. CASE UNCHANGED bufs
    BY <2>1, <2>2
  <2>3. CASE MakeBuffer(t)
    <3>1. SUFFICES ASSUME NEW j \in 1 .. Len(bufs)'
                   PROVE  bufs'[j].workers = IF j <= Len(bufs) THEN bufs[j].workers ELSE 0
      OBVIOUS
    <3>2. bufs'[j] = IF j <= Len(bufs) THEN bufs[j]
                     ELSE [num |-> th[t].num, ft |-> th[t].ans, alive |-> TRUE, initialized |-> FALSE, workers |-> 0]
      BY <2>3, Made
    <3>3. QED
      BY <3>2
  <2>4. ASSUME Initialize(t) \/ ShutDoor(t) \/ FreeBuffer(t)
        PROVE  \A j \in 1 .. Len(bufs)' : bufs'[j].workers = IF j <= Len(bufs) THEN bufs[j].workers ELSE 0
    <3> DEFINE b == th[t].buf
    <3>1. PICK r : BufsBecome(b, r) /\ b \in 1 .. Len(bufs) /\ r.workers = bufs[b].workers
      <4>1. Use(t, th[t].pc)
        BY <2>4 DEF Initialize, ShutDoor, FreeBuffer, Use, At
      <4>2. bufs[b] \in CountRecs
        BY <4>1, Used
      <4>3. /\ [bufs[b] EXCEPT !.initialized = TRUE].workers = bufs[b].workers
            /\ [bufs[b] EXCEPT !.initialized = FALSE].workers = bufs[b].workers
            /\ [bufs[b] EXCEPT !.alive = FALSE].workers = bufs[b].workers
        BY <4>2 DEF CountRecs
      <4>4. QED
        BY <2>4, <4>3, BufsChanged
    <3>2. SUFFICES ASSUME NEW j \in 1 .. Len(bufs)
                   PROVE  bufs'[j].workers = bufs[j].workers
      BY <2>1, <3>1 DEF BufsBecome
    <3>3. bufs'[j] = IF j = b THEN r ELSE bufs[j]
      BY <3>1 DEF BufsBecome
    <3>4. QED
      BY <3>1, <3>3
  <2>5. bufs' = bufs \/ MakeBuffer(t) \/ Initialize(t) \/ ShutDoor(t) \/ FreeBuffer(t)
    <3>1. CASE UseFreed(t) \/ UsePrevious(t) \/ Begin(t) \/ CannotLook(t)
      BY <3>1 DEF UseFreed, UsePrevious, Begin, CannotLook, CannotWalk, Stray, registry
    <3>2. CASE Look(t) \/ FindPrevious(t) \/ Suspend(t) \/ FindNode(t) \/ CloseNode(t)
      BY <3>2 DEF Look, FindPrevious, Suspend, FindNode, CloseNode, registry
    <3>3. CASE \/ AskFiletype(t) \/ Judge(t) \/ AppendNode(t) \/ Attach(t) \/ GetLines(t)
               \/ Update(t) \/ Updated(t) \/ End(t) \/ ClearHighlight(t) \/ WorkerEnter(t)
      BY <3>3, OwnPlainStep
    <3>4. CASE OpenNode(t) \/ FreeNode(t)
      BY <3>4 DEF OpenNode, FreeNode, Stray, registry
    <3>5. CASE WorkerHighlight(t)
      BY <3>5, OwnHighlight
    <3>6. QED
      BY <3>1, <3>2, <3>3, <3>4, <3>5 DEF ThreadStep
  <2>6. QED
    BY <2>2, <2>3, <2>4, <2>5
<1>3. QED
  BY <1>1, <1>2 DEF KeepsCounts

LEMMA WorkersIn ==
  ASSUME TypeInv, NEW t \in Threads, WorkerCountIn(t) \/ WorkerCountOut(t)
  PROVE  WorkersCounted'
<1>0. PICK b : b = th[t].buf
  OBVIOUS
<1>1. /\ th' = [th EXCEPT ![t] = th'[t]] /\ th' \in [Threads -> ThRecs(Len(nodes), Len(bufs))]
      /\ WorkerCountIn(t) => th[t].pc = "work" /\ th'[t].pc = "join"
      /\ WorkerCountOut(t) => th[t].pc = "leave" /\ th'[t].pc \notin Joined
  <2>1. OwnSound(t)
    BY OwnChange
  <2>2. Len(nodes)' = Len(nodes) /\ Len(bufs)' = Len(bufs)
    BY BufsChanged DEF BufsBecome, WorkerCountIn, WorkerCountOut
  <2>3. /\ th' = [th EXCEPT ![t] = th'[t]] /\ th'[t] \in ThRecs(Len(nodes), Len(bufs))
    BY <2>1, <2>2 DEF OwnSound, OwnStep
  <2>4. th \in [Threads -> ThRecs(Len(nodes), Len(bufs))]
    BY ThreadTypes DEF TypeInv
  <2>5. QED
    BY <2>3, <2>4, OwnChange
<1>2. th'[t].buf = b /\ th[t].buf = b /\ \A u \in Threads : u # t => th'[u] = th[u]
  <2>1. th \in [Threads -> ThRecs(Len(nodes), Len(bufs))]
    BY ThreadTypes DEF TypeInv
  <2>2. Goto(t, "end") \/ Goto(t, "join")
    BY DEF WorkerCountIn, WorkerCountOut
  <2>3. QED
    BY <1>0, <1>1, <2>1, <2>2 DEF Goto, ThRecs
<1>3. \A j : j # b => Inside(j)' = Inside(j)
  BY <1>2 DEF Inside
<1>4. \A j : IsFiniteSet(Inside(j)) /\ Cardinality(Inside(j)) \in Nat
  <2>1. \A j : Inside(j) \subseteq Threads /\ Main \notin Inside(j)
    BY DEF Inside, Joined, TypeInv, KindSound, Threads, Main
  <2>2. Threads \subseteq Nat
    BY DEF Threads
  <2>3. QED
    BY <2>1, <2>2, Workers
<1>5. PICK r : BufsBecome(b, r) /\ b \in 1 .. Len(bufs) /\ r.workers = Cardinality(Inside(b)')
  <2>1. Use(t, th[t].pc)
    BY DEF WorkerCountIn, WorkerCountOut, Use, At
  <2>2. bufs[b] \in CountRecs /\ b \in 1 .. Len(bufs)
    BY <1>0, <2>1, Used
  <2>3. bufs[b].workers = Cardinality(Inside(b))
    BY <2>2 DEF TypeInv, WorkersCounted
  <2>4. CASE WorkerCountIn(t)
    <3>1. Inside(b)' = Inside(b) \cup {t} /\ t \notin Inside(b)
      BY <1>1, <1>2, <2>4 DEF Inside, Joined
    <3>2. Cardinality(Inside(b)') = Cardinality(Inside(b)) + 1
      BY <1>4, <3>1, FS_AddElement
    <3>3. BufsBecome(b, [bufs[b] EXCEPT !.workers = @ + 1])
      BY <1>0, <2>4, BufsChanged
    <3>4. [bufs[b] EXCEPT !.workers = @ + 1].workers = Cardinality(Inside(b)) + 1
      BY <2>2, <2>3 DEF CountRecs
    <3>5. QED
      BY <2>2, <3>2, <3>3, <3>4
  <2>5. CASE WorkerCountOut(t)
    <3>1. Inside(b)' = Inside(b) \ {t} /\ t \in Inside(b)
      BY <1>1, <1>2, <2>5 DEF Inside, Joined
    <3>2. Cardinality(Inside(b)') = Cardinality(Inside(b)) - 1
      BY <1>4, <3>1, FS_RemoveElement
    <3>3. BufsBecome(b, [bufs[b] EXCEPT !.workers = @ - 1])
      BY <1>0, <2>5, BufsChanged
    <3>4. [bufs[b] EXCEPT !.workers = @ - 1].workers = Cardinality(Inside(b)) - 1
      BY <2>2, <2>3 DEF CountRecs
    <3>5. QED
      BY <2>2, <3>2, <3>3, <3>4
  <2>6. QED
    BY <2>4, <2>5
<1>6. SUFFICES ASSUME NEW j \in 1 .. Len(bufs)
               PROVE  bufs'[j].workers = Cardinality(Inside(j)')
  BY <1>5 DEF WorkersCounted, BufsBecome
<1>7. bufs'[j] = IF j = b THEN r ELSE bufs[j]
  BY <1>5 DEF BufsBecome
<1>8. bufs[j].workers = Cardinality(Inside(j))
  BY DEF TypeInv, WorkersCounted
<1>9. QED
  BY <1>3, <1>5, <1>7, <1>8

(* The other variables.                                                    *)
LEMMA ThreadRest ==
  ASSUME TypeInv, NEW t \in Threads, ThreadStep(t)
  PROVE  /\ attached' \subseteq Nums
         /\ list_lock' \in Threads \cup {Loop, None}
         /\ previous' \in Nums \cup {None}
         /\ autocmd_mutex' \in Threads \cup {None}
         /\ closed' \subseteq Nums
         /\ list' = list \/ (list' = Append(list, th[t].node) /\ th[t].pc = "append")
<1>1. /\ attached \subseteq Nums /\ list_lock \in Threads \cup {Loop, None}
      /\ previous \in Nums \cup {None} /\ autocmd_mutex \in Threads \cup {None} /\ closed \subseteq Nums
  BY DEF TypeInv, TypeOK
<1>2. CASE UseFreed(t) \/ UsePrevious(t) \/ CannotLook(t)
  BY <1>1, <1>2 DEF UseFreed, UsePrevious, CannotLook, CannotWalk, Stray, registry, nvim, history
<1>3. CASE Begin(t)
  BY <1>1, <1>3 DEF Begin, registry, nvim, history
<1>4. CASE Look(t)
  <2>1. th[t].ans \in Nums
    BY <1>4, Looked
  <2>2. /\ UNCHANGED <<attached, autocmd_mutex, closed, list>> /\ list_lock' = None /\ previous' = th[t].ans
    BY <1>4 DEF Look, LeaveList, nvim, history
  <2>3. QED
    BY <1>1, <2>1, <2>2
<1>5. CASE FindPrevious(t) \/ Suspend(t) \/ FindNode(t)
  BY <1>1, <1>5 DEF FindPrevious, Suspend, FindNode, LeaveList, registry, nvim, history
<1>6. CASE AskFiletype(t) \/ Judge(t) \/ GetLines(t) \/ Update(t) \/ Updated(t) \/ ClearHighlight(t)
            \/ WorkerEnter(t) \/ WorkerHighlight(t)
  BY <1>1, <1>6 DEF AskFiletype, Judge, GetLines, Update, Updated, ClearHighlight, WorkerEnter, WorkerHighlight,
                     registry, nvim, history
<1>7. CASE Attach(t)
  <2>1. th[t].num \in Nums
    BY <1>7 DEF Attach, Use, At, TypeInv, ThreadSound, Unplaced, Looks
  <2>2. QED
    BY <1>1, <1>7, <2>1 DEF Attach, registry, history
<1>8. CASE End(t)
  BY <1>1, <1>8 DEF End, registry, nvim, history
<1>9. CASE AppendNode(t)
  BY <1>1, <1>9 DEF AppendNode, At, nvim, history
<1>10. CASE OpenNode(t)
  BY <1>1, <1>10 DEF OpenNode, Stray, registry, nvim, history
<1>11. CASE FreeNode(t)
  BY <1>1, <1>11 DEF FreeNode, Stray, registry, nvim, history
<1>12. CASE MakeBuffer(t) \/ Initialize(t) \/ ShutDoor(t) \/ FreeBuffer(t) \/ WorkerCountIn(t) \/ WorkerCountOut(t)
  BY <1>1, <1>12 DEF MakeBuffer, Initialize, ShutDoor, FreeBuffer, WorkerCountIn, WorkerCountOut, nvim, history
<1>13. CASE CloseNode(t)
  <2>1. th[t].num \in Nums
    BY <1>13 DEF CloseNode, Use, At, TypeInv, ThreadSound, Unplaced, Looks
  <2>2. QED
    BY <1>1, <1>13, <2>1 DEF CloseNode, LeaveList, nvim
<1>14. QED
  BY <1>2, <1>3, <1>4, <1>5, <1>6, <1>7, <1>8, <1>9, <1>10, <1>11, <1>12, <1>13 DEF ThreadStep

(* Only two steps give an excuse.                                          *)
LEMMA ExcusesMove ==
  ASSUME NEW t \in Threads, ThreadStep(t)
  PROVE  /\ UNCHANGED hurried \/ Begin(t)
         /\ UNCHANGED refused \/ MakeBuffer(t)
<1>1. CASE UseFreed(t) \/ UsePrevious(t) \/ CannotLook(t)
  BY <1>1 DEF UseFreed, UsePrevious, CannotLook, CannotWalk, Stray, history, excuses
<1>2. CASE Begin(t) \/ MakeBuffer(t)
  BY <1>2 DEF Begin, MakeBuffer
<1>3. CASE Look(t) \/ FindPrevious(t) \/ Suspend(t) \/ FindNode(t) \/ AskFiletype(t) \/ Judge(t)
  BY <1>3 DEF Look, FindPrevious, Suspend, FindNode, AskFiletype, Judge, history, excuses
<1>4. CASE \/ GetLines(t) \/ Update(t) \/ Updated(t) \/ ClearHighlight(t) \/ Attach(t) \/ End(t)
           \/ AppendNode(t) \/ WorkerEnter(t) \/ WorkerHighlight(t)
  BY <1>4 DEF GetLines, Update, Updated, ClearHighlight, Attach, End, AppendNode, WorkerEnter, WorkerHighlight,
              history, excuses
<1>5. CASE OpenNode(t) \/ FreeNode(t)
  BY <1>5 DEF OpenNode, FreeNode, Stray, history, excuses
<1>6. CASE \/ Initialize(t) \/ ShutDoor(t) \/ FreeBuffer(t) \/ CloseNode(t)
           \/ WorkerCountIn(t) \/ WorkerCountOut(t)
  BY <1>6 DEF Initialize, ShutDoor, FreeBuffer, CloseNode, WorkerCountIn, WorkerCountOut, history, excuses
<1>7. QED
  BY <1>1, <1>2, <1>3, <1>4, <1>5, <1>6 DEF ThreadStep

LEMMA ExcusesAreTypes ==
  ASSUME TypeInv, NEW t \in Threads, ThreadStep(t)
  PROVE  hurried' \in BOOLEAN /\ refused' \in BOOLEAN
<1>1. hurried \in BOOLEAN /\ refused \in BOOLEAN
  BY DEF TypeInv, TypeOK
<1>2. hurried' \in BOOLEAN
  BY <1>1, ExcusesMove DEF Begin
<1>3. refused' \in BOOLEAN
  BY <1>1, ExcusesMove DEF MakeBuffer
<1>4. QED
  BY <1>2, <1>3

(* A reply is one more message, and none of those that start a thread.     *)
LEMMA ReplyQueued ==
  ASSUME TypeInv, NEW t \in Threads,
         wire' = wire \/ wire' = Append(wire, [type |-> "reply", num |-> t])
  PROVE  /\ wire' \in Seq(Messages) /\ WireSound' /\ Pending' = Pending
         /\ \A i \in 1 .. Len(wire') : wire'[i].type # "reply" => i \in 1 .. Len(wire) /\ wire'[i] = wire[i]
<1> DEFINE m == [type |-> "reply", num |-> t]
<1>1. wire \in Seq(Messages) /\ Len(wire) \in Nat /\ m \in Messages
  BY LenProperties DEF TypeInv, TypeOK, Messages
<1>2. CASE wire' = wire
  BY <1>1, <1>2 DEF WireSound, Pending, TypeInv
<1>3. CASE wire' = Append(wire, m)
  <2>1. m.type = "reply" /\ m.num = t
    OBVIOUS
  <2> HIDE DEF m
  <2>2. /\ wire' \in Seq(Messages) /\ Len(wire') = Len(wire) + 1
        /\ \A i \in 1 .. Len(wire) : wire'[i] = wire[i]
        /\ wire'[Len(wire) + 1] = m
    BY <1>1, <1>3, AppendProperties
  <2>3. \A i \in 1 .. Len(wire') : (i \in 1 .. Len(wire) /\ wire'[i] = wire[i]) \/ wire'[i] = m
    BY <1>1, <2>2
  <2>4. WireSound'
    <3>1. SUFFICES ASSUME NEW i \in 1 .. Len(wire')
                   PROVE  /\ wire'[i].type = "reply" => wire'[i].num \in Threads
                          /\ wire'[i].type \in {"lines", "detach"} => wire'[i].num \in Nums
      BY DEF WireSound
    <3>2. QED
      BY <2>1, <2>3 DEF TypeInv, WireSound
  <2>5. Pending' = Pending
    <3>1. {i \in 1 .. Len(wire') : wire'[i].type # "reply"} = {i \in 1 .. Len(wire) : wire[i].type # "reply"}
      BY <1>1, <2>1, <2>2, <2>3
    <3>2. QED
      BY <3>1 DEF Pending
  <2>6. QED
    BY <2>1, <2>2, <2>3, <2>4, <2>5
<1>4. QED
  BY <1>2, <1>3

LEMMA CountsAreTypes ==
  ASSUME NEW s \in Seq(CountRecs), \A b \in 1 .. Len(s) : s[b].workers \in Threads
  PROVE  s \in Seq(BufRecs)
<1>1. \A b \in 1 .. Len(s) : s[b] \in BufRecs
  <2>1. \A b \in 1 .. Len(s) : s[b] \in CountRecs
    BY ElementOfSeq
  <2>2. QED
    BY <2>1 DEF CountRecs, BufRecs
<1>2. s = [b \in 1 .. Len(s) |-> s[b]] /\ Len(s) \in Nat
  BY LenProperties
<1>3. QED
  BY <1>1, <1>2, IsASeq

LEMMA TypesAgain ==
  ASSUME current' \in Nums, ft' \in [Nums -> Filetypes], attached' \subseteq Nums, sent' \in 0 .. MaxMessages,
         wire' \in Seq(Messages), nodes' \in Seq(NodeRecs(Len(bufs'))), list' \in Seq(1 .. Len(nodes')),
         loop' \in LoopRecs(Len(nodes'), Len(bufs')),
         list_lock' \in Threads \cup {Loop, None}, bufs' \in Seq(BufRecs), previous' \in Nums \cup {None},
         autocmd_mutex' \in Threads \cup {None}, th' \in [Threads -> ThRecs(Len(nodes'), Len(bufs'))],
         closed' \subseteq Nums, hurried' \in BOOLEAN, refused' \in BOOLEAN, aborted' \in Nums \cup {None}
  PROVE  TypeOK'
  BY DEF TypeOK, NodeRecs, BufRecs, ThRecs, LoopRecs

LEMMA ThreadTypeStep ==
  ASSUME TypeInv, NEW t \in Threads, ThreadStep(t)
  PROVE  TypeInv'
<1>1. /\ OwnStep(t) /\ th'[t] \in ThRecs(Len(nodes)', Len(bufs)')
      /\ ThreadSound(t)' /\ KindSound(t)'
  BY OwnSteps DEF OwnSound
<1>2. /\ nodes' \in Seq(NodeRecs(Len(bufs)')) /\ Len(nodes)' \in Nat /\ Len(nodes) <= Len(nodes)'
      /\ bufs' \in Seq(CountRecs) /\ Len(bufs)' \in Nat /\ Len(bufs) <= Len(bufs)'
  BY ThreadAllocs
<1>3. /\ Len(nodes) \in Nat /\ Len(bufs) \in Nat /\ list \in Seq(1 .. Len(nodes))
      /\ th \in [Threads -> ThRecs(Len(nodes), Len(bufs))]
  BY RegistryTypes, ThreadTypes DEF TypeInv
<1>4. th' = [th EXCEPT ![t] = th'[t]] /\ \A u \in Threads : u # t => th'[u] = th[u]
  BY <1>1, <1>3 DEF OwnStep
<1>5. \A u \in Threads : ThreadSound(u)' /\ KindSound(u)'
  <2>1. SUFFICES ASSUME NEW u \in Threads, u # t
                 PROVE  ThreadSound(u)' /\ KindSound(u)'
    BY <1>1
  <2>2. th'[u] = th[u] /\ ThreadSound(u) /\ KindSound(u)
    BY <1>4, <2>1 DEF TypeInv
  <2>3. QED
    BY <2>2 DEF ThreadSound, KindSound
<1>6. th' \in [Threads -> ThRecs(Len(nodes'), Len(bufs'))]
  <2>1. ThRecs(Len(nodes), Len(bufs)) \subseteq ThRecs(Len(nodes'), Len(bufs'))
    BY <1>2, <1>3 DEF ThRecs
  <2>2. th \in [Threads -> ThRecs(Len(nodes'), Len(bufs'))]
    BY <1>3, <2>1
  <2>3. QED
    BY <1>1, <1>4, <2>2
<1>7. WorkersCounted'
  <2>1. CASE WorkerCountIn(t) \/ WorkerCountOut(t)
    BY <2>1, WorkersIn
  <2>2. CASE ~ WorkerCountIn(t) /\ ~ WorkerCountOut(t)
    BY <1>2, <2>2, CountsAreKept, CountsKept, OwnSteps
  <2>3. QED
    BY <2>1, <2>2
<1>8. bufs' \in Seq(BufRecs)
  <2>1. \A b : Inside(b)' \subseteq Threads /\ Main \notin Inside(b)'
    BY <1>5 DEF Inside, Joined, KindSound, Main, Threads
  <2>2. \A b \in 1 .. Len(bufs') : bufs'[b].workers \in Threads
    BY <1>7, <2>1, Workers DEF WorkersCounted
  <2>3. QED
    BY <1>2, <2>2, CountsAreTypes
<1>9. wire' \in Seq(Messages) /\ WireSound' /\ Pending' = Pending
  BY <1>1, ReplyQueued DEF OwnStep
<1>10. LoopSound' /\ UNCHANGED <<current, ft, sent, loop, aborted>>
  BY <1>1 DEF OwnStep, LoopSound, TypeInv
<1>11. Capacity'
  <2>1. Started' = Started
    <3>1. \A u \in Threads : th'[u].pc # "idle" <=> th[u].pc # "idle"
      BY <1>1, <1>4 DEF OwnStep
    <3>2. QED
      BY <3>1 DEF Started
  <2>2. QED
    BY <1>9, <1>10, <2>1 DEF Capacity, Handled, TypeInv
<1>12. list' \in Seq(1 .. Len(nodes'))
  <2>1. list \in Seq(1 .. Len(nodes'))
    <3>1. 1 .. Len(nodes) \subseteq 1 .. Len(nodes')
      BY <1>2, <1>3
    <3>2. QED
      BY <1>3, <3>1, SeqMonotonic
  <2>2. CASE list' = Append(list, th[t].node) /\ th[t].pc = "append"
    <3>1. th[t].node \in 0 .. Len(nodes) /\ th[t].node # 0
      BY <2>2, Somewhere DEF TypeInv, ThreadSound
    <3>2. th[t].node \in 1 .. Len(nodes')
      BY <1>2, <1>3, <3>1
    <3>3. QED
      BY <2>1, <2>2, <3>2, AppendProperties
  <2>3. QED
    BY <2>1, <2>2, ThreadRest
<1>13. TypeOK'
  <2>1. loop' \in LoopRecs(Len(nodes'), Len(bufs'))
    <3>1. loop \in LoopRecs(Len(nodes), Len(bufs))
      BY DEF TypeInv, TypeOK, LoopRecs
    <3>2. 0 .. Len(bufs) \subseteq 0 .. Len(bufs') /\ 0 .. Len(nodes) \subseteq 0 .. Len(nodes')
      BY <1>2, <1>3
    <3>3. QED
      BY <1>10, <3>1, <3>2 DEF LoopRecs
  <2>2. /\ current' \in Nums /\ ft' \in [Nums -> Filetypes] /\ sent' \in 0 .. MaxMessages
        /\ aborted' \in Nums \cup {None}
    BY <1>10 DEF TypeInv, TypeOK
  <2>3. nodes' \in Seq(NodeRecs(Len(bufs')))
    BY <1>2
  <2>4. QED
    BY <1>6, <1>8, <1>9, <1>12, <2>1, <2>2, <2>3, ThreadRest, ExcusesAreTypes, TypesAgain
<1>14. QED
  BY <1>5, <1>7, <1>9, <1>10, <1>11, <1>13 DEF TypeInv

(* There is a thread for every message the event loop has not handled.     *)
LEMMA PendingIs ==
  ASSUME TypeInv
  PROVE  /\ wire \in Seq(Messages) /\ Len(wire) \in Nat
         /\ IsFiniteSet(Pending) /\ Cardinality(Pending) \in Nat /\ Pending \subseteq 1 .. Len(wire)
         /\ IsFiniteSet(Started) /\ Cardinality(Started) \in Nat /\ Started \subseteq Threads
<1>1. wire \in Seq(Messages) /\ Len(wire) \in Nat
  BY LenProperties DEF TypeInv, TypeOK
<1>2. IsFiniteSet(1 .. Len(wire)) /\ IsFiniteSet(Threads)
  BY <1>1, FS_Interval, RegistryAssumption DEF Threads
<1>3. Pending \subseteq 1 .. Len(wire) /\ Started \subseteq Threads
  BY DEF Pending, Started
<1>4. QED
  BY <1>1, <1>2, <1>3, FS_Subset, FS_CardinalityType

LEMMA SomeThreadFree ==
  ASSUME TypeInv, Pending # {} \/ Handled = 1
  PROVE  FreeThread \in Threads /\ th[FreeThread].pc = "idle" /\ FreeThread # Main
<1>1. Cardinality(Pending) + Handled >= 1
  <2>1. Cardinality(Pending) = 0 <=> Pending = {}
    BY PendingIs, FS_EmptySet
  <2>2. QED
    BY <2>1, PendingIs DEF Handled
<1>2. Cardinality(Started) <= MaxMessages
  <2>1. sent <= MaxMessages /\ sent \in Nat
    BY RegistryAssumption DEF TypeInv, TypeOK
  <2>2. Handled \in {0, 1}
    BY DEF Handled
  <2>3. QED
    BY <1>1, <2>1, <2>2, PendingIs, RegistryAssumption DEF TypeInv, Capacity
<1>3. Cardinality(Threads) = MaxMessages + 1
  BY FS_Interval, RegistryAssumption DEF Threads
<1>4. Started # Threads
  BY <1>2, <1>3, PendingIs, RegistryAssumption
<1> DEFINE Idle == {t \in Threads : th[t].pc = "idle"}
<1>5. Idle # {} /\ Idle \subseteq Nat
  BY <1>4 DEF Started, Threads
<1>6. \E t \in Idle : \A u \in Idle : t <= u
  BY <1>5, Least
<1>7. \E t \in Threads : th[t].pc = "idle" /\ \A u \in Threads : u < t => th[u].pc # "idle"
  BY <1>5, <1>6 DEF Threads
<1>8. FreeThread \in Threads /\ th[FreeThread].pc = "idle"
  BY <1>7 DEF FreeThread
<1>9. QED
  BY <1>8 DEF TypeInv, KindSound, Main, Threads

(* Reading a message: the ones behind it move up.                          *)
LEMMA MessageRead ==
  ASSUME TypeInv, NEW S, Read(S)
  PROVE  LET m == Head(wire) IN
         /\ m \in Messages /\ m.type \in S /\ m = wire[1] /\ loop.pc = "read" /\ Live
         /\ wire' \in Seq(Messages) /\ WireSound'
         /\ m.type = "reply" => m.num \in Threads
         /\ m.type \in {"lines", "detach"} => m.num \in Nums
         /\ IsFiniteSet(Pending') /\ Cardinality(Pending') \in Nat
         /\ IF m.type = "reply" THEN Cardinality(Pending') <= Cardinality(Pending)
            ELSE Pending # {} /\ Cardinality(Pending') + 1 <= Cardinality(Pending)
         /\ \A i \in 1 .. Len(wire') : i + 1 \in 1 .. Len(wire) /\ wire'[i] = wire[i + 1]
<1> DEFINE m == Head(wire)
<1>1. wire # <<>> /\ m.type \in S /\ wire' = Tail(wire) /\ loop.pc = "read" /\ Live
  BY DEF Read
<1>2. wire \in Seq(Messages) /\ Len(wire) \in Nat
  BY PendingIs
<1>3. Len(wire) > 0 /\ m = wire[1]
  BY <1>1, <1>2
<1>4. /\ m \in Messages /\ wire' \in Seq(Messages) /\ Len(wire') = Len(wire) - 1 /\ Len(wire') \in Nat
      /\ \A i \in 1 .. Len(wire') : wire'[i] = wire[i + 1]
  BY <1>1, <1>2, <1>3, HeadTailProperties
<1> HIDE DEF m
<1>5. 1 \in 1 .. Len(wire)
  BY <1>2, <1>3
<1>6. /\ m.type = "reply" => m.num \in Threads
      /\ m.type \in {"lines", "detach"} => m.num \in Nums
  BY <1>3, <1>5 DEF TypeInv, WireSound
<1>7. \A i \in 1 .. Len(wire') : i + 1 \in 1 .. Len(wire) /\ wire'[i] = wire[i + 1]
  BY <1>2, <1>4
<1>8. WireSound'
  <2>1. SUFFICES ASSUME NEW i \in 1 .. Len(wire')
                 PROVE  /\ wire'[i].type = "reply" => wire'[i].num \in Threads
                        /\ wire'[i].type \in {"lines", "detach"} => wire'[i].num \in Nums
    BY DEF WireSound
  <2>2. QED
    BY <1>7 DEF TypeInv, WireSound
<1> DEFINE f == [i \in Pending' |-> i + 1]
<1>9. /\ Pending' \subseteq 1 .. Len(wire')
      /\ \A i \in Pending' : i \in Nat /\ i + 1 \in Pending \ {1}
  BY <1>4, <1>7 DEF Pending
<1>10. f \in Injection(Pending', Pending \ {1})
  BY <1>9 DEF Injection, IsInjective
<1>11. /\ IsFiniteSet(Pending \ {1})
       /\ Cardinality(Pending \ {1}) = IF 1 \in Pending THEN Cardinality(Pending) - 1 ELSE Cardinality(Pending)
  BY PendingIs, FS_RemoveElement
<1>12. IsFiniteSet(Pending') /\ Cardinality(Pending') <= Cardinality(Pending \ {1})
  BY <1>10, <1>11, FS_Injection
<1>13. Cardinality(Pending') \in Nat
  BY <1>12, FS_CardinalityType
<1>14. 1 \in Pending <=> m.type # "reply"
  BY <1>3, <1>5 DEF Pending
<1>15. IF m.type = "reply" THEN Cardinality(Pending') <= Cardinality(Pending)
       ELSE Pending # {} /\ Cardinality(Pending') + 1 <= Cardinality(Pending)
  BY <1>11, <1>12, <1>13, <1>14, PendingIs
<1>16. QED
  BY <1>1, <1>3, <1>4, <1>6, <1>7, <1>8, <1>12, <1>13, <1>15 DEF m

(* The event loop initializes Buffers, and does nothing else to them.      *)
BufsAlike ==
  /\ bufs' \in Seq(BufRecs) /\ Len(bufs') = Len(bufs)
  /\ \A b \in 1 .. Len(bufs) :
       /\ bufs'[b].num = bufs[b].num /\ bufs'[b].ft = bufs[b].ft
       /\ bufs'[b].alive = bufs[b].alive /\ bufs'[b].workers = bufs[b].workers
       /\ bufs[b].initialized => bufs'[b].initialized

LEMMA Alike == ASSUME TypeInv, UNCHANGED bufs PROVE BufsAlike
  BY RegistryTypes DEF TypeInv, BufsAlike

LEMMA LinesTaken ==
  ASSUME TypeInv, LoopHandle, loop.pc = "lines", Alive(loop.buf)
  PROVE  BufsAlike /\ ~ Locked(loop.buf)
<1>1. PICK b : b = loop.buf
  OBVIOUS
<1>2. ~ Locked(b) /\ \E blank \in BOOLEAN : bufs' = [bufs EXCEPT ![b].initialized = @ \/ ~ blank]
  BY <1>1 DEF LoopHandle
<1>3. PICK blank \in BOOLEAN : bufs' = [bufs EXCEPT ![b].initialized = @ \/ ~ blank]
  BY <1>2
<1>4. b \in 1 .. Len(bufs)
  BY <1>1, RegistryTypes DEF TypeInv, TypeOK, Alive
<1>5. bufs \in Seq(BufRecs) /\ Len(bufs) \in Nat /\ bufs[b] \in BufRecs /\ bufs[b].initialized \in BOOLEAN
  BY <1>4, RegistryTypes, BufTypes DEF TypeInv
<1>6. PICK i \in BOOLEAN : i = (bufs[b].initialized \/ ~ blank)
  OBVIOUS
<1>7. bufs' = [bufs EXCEPT ![b] = [bufs[b] EXCEPT !.initialized = i]]
  BY <1>3, <1>4, <1>5, <1>6
<1> DEFINE r == [bufs[b] EXCEPT !.initialized = i]
<1>8. /\ r \in BufRecs /\ r.num = bufs[b].num /\ r.ft = bufs[b].ft
      /\ r.alive = bufs[b].alive /\ r.workers = bufs[b].workers /\ r.initialized = i
  BY <1>5 DEF BufRecs
<1> HIDE DEF r
<1>9. /\ bufs' \in Seq(BufRecs) /\ Len(bufs') = Len(bufs)
      /\ \A j \in 1 .. Len(bufs) : bufs'[j] = IF j = b THEN r ELSE bufs[j]
  <2>1. bufs' = [bufs EXCEPT ![b] = r]
    BY <1>7 DEF r
  <2>2. QED
    BY <1>5, <1>8, <2>1, Replaced
<1>10. BufsAlike
  <2>1. SUFFICES ASSUME NEW j \in 1 .. Len(bufs)
                 PROVE  /\ bufs'[j].num = bufs[j].num /\ bufs'[j].ft = bufs[j].ft
                        /\ bufs'[j].alive = bufs[j].alive /\ bufs'[j].workers = bufs[j].workers
                        /\ bufs[j].initialized => bufs'[j].initialized
    BY <1>9 DEF BufsAlike
  <2>2. CASE j = b
    BY <1>6, <1>8, <1>9, <2>2
  <2>3. CASE j # b
    BY <1>9, <2>3
  <2>4. QED
    BY <2>2, <2>3
<1>11. QED
  BY <1>1, <1>2, <1>10

(* A new thread.                                                           *)
LEMMA Spawned ==
  ASSUME TypeInv, NEW f \in Threads, th[f].pc = "idle", f # Main, NEW k, NEW p, NEW n, NEW b,
         th' = [th EXCEPT ![f] = NewThread(k, p, n, b)], UNCHANGED nodes, BufsAlike,
         \/ p = "lock" /\ k \in Kinds /\ n = None /\ b = 0
         \/ p = "clear" /\ k = "destroyer" /\ n \in Nums /\ b \in 0 .. Len(bufs)
         \/ p = "enter" /\ k = "worker" /\ n \in Nums /\ b \in 0 .. Len(bufs)
  PROVE  /\ th' \in [Threads -> ThRecs(Len(nodes'), Len(bufs'))]
         /\ \A u \in Threads : ThreadSound(u)' /\ KindSound(u)'
         /\ WorkersCounted'
         /\ Cardinality(Started') = Cardinality(Started) + 1
<1> DEFINE new == NewThread(k, p, n, b)
<1>1. /\ th \in [Threads -> ThRecs(Len(nodes), Len(bufs))] /\ 0 \in 0 .. Len(nodes) /\ 0 \in 0 .. Len(bufs)
  BY ThreadTypes, RegistryTypes DEF TypeInv
<1>2. NoThread \in ThRecs(Len(nodes), Len(bufs))
  BY <1>1 DEF NoThread, ThRecs, Pcs
<1>3. /\ p \in Pcs /\ k \in Kinds \cup {"main", "destroyer", "worker", None} /\ n \in Nums \cup {None}
      /\ b \in 0 .. Len(bufs) /\ p \in {"lock", "clear", "enter"}
  BY <1>1 DEF Pcs, Uses
<1>4. new \in ThRecs(Len(nodes), Len(bufs)) /\ new.pc = p /\ new.kind = k /\ new.num = n
  BY <1>2, <1>3 DEF ThRecs, NewThread
<1> HIDE DEF new
<1>5. /\ th'[f] = new /\ \A u \in Threads : u # f => th'[u] = th[u]
      /\ th' \in [Threads -> ThRecs(Len(nodes), Len(bufs))]
  BY <1>1, <1>4 DEF new
<1>6. \A u \in Threads : ThreadSound(u)' /\ KindSound(u)'
  <2>1. SUFFICES ASSUME NEW u \in Threads
                 PROVE  ThreadSound(u)' /\ KindSound(u)'
    OBVIOUS
  <2>2. CASE u = f
    BY <1>3, <1>4, <1>5, <2>2 DEF ThreadSound, KindSound, Looks, Unplaced
  <2>3. CASE u # f
    <3>1. th'[u] = th[u] /\ ThreadSound(u) /\ KindSound(u)
      BY <1>5, <2>3 DEF TypeInv
    <3>2. QED
      BY <3>1 DEF ThreadSound, KindSound
  <2>4. QED
    BY <2>2, <2>3
<1>7. WorkersCounted'
  <2>0. Len(bufs') = Len(bufs) /\ \A c \in 1 .. Len(bufs) : bufs'[c].workers = bufs[c].workers
    BY DEF BufsAlike
  <2>1. \A c : Inside(c)' = Inside(c)
    BY <1>3, <1>4, <1>5 DEF Inside, Joined
  <2>2. QED
    BY <2>0, <2>1 DEF WorkersCounted, TypeInv
<1>8. Cardinality(Started') = Cardinality(Started) + 1
  <2>1. Started' = Started \cup {f} /\ f \notin Started
    BY <1>3, <1>4, <1>5 DEF Started
  <2>2. QED
    BY <2>1, PendingIs, FS_AddElement
<1>9. QED
  BY <1>5, <1>6, <1>7, <1>8 DEF BufsAlike

(* The steps of the event loop leave nodes and the list as they are.       *)
LoopOK == /\ th' \in [Threads -> ThRecs(Len(nodes'), Len(bufs'))]
          /\ \A u \in Threads : ThreadSound(u)' /\ KindSound(u)'
          /\ WorkersCounted'
          /\ wire' \in Seq(Messages) /\ WireSound' /\ Capacity'
          /\ loop' \in LoopRecs(Len(nodes'), Len(bufs'))
          /\ LoopSound'
          /\ list_lock' \in Threads \cup {Loop, None}
          /\ aborted' \in Nums \cup {None}
          /\ BufsAlike
          /\ UNCHANGED <<current, ft, attached, sent, nodes, list, previous, autocmd_mutex, closed, hurried, refused>>

LEMMA LoopTypes == ASSUME TypeInv, LoopOK PROVE TypeInv'
<1>1. TypeOK'
  <2>1. /\ current' \in Nums /\ ft' \in [Nums -> Filetypes] /\ attached' \subseteq Nums /\ sent' \in 0 .. MaxMessages
        /\ previous' \in Nums \cup {None} /\ autocmd_mutex' \in Threads \cup {None} /\ closed' \subseteq Nums
    BY DEF TypeInv, TypeOK, LoopOK
  <2>1a. hurried' \in BOOLEAN /\ refused' \in BOOLEAN
    BY DEF TypeInv, TypeOK, LoopOK
  <2>2. nodes' \in Seq(NodeRecs(Len(bufs'))) /\ list' \in Seq(1 .. Len(nodes')) /\ bufs' \in Seq(BufRecs)
    BY RegistryTypes DEF TypeInv, LoopOK, BufsAlike
  <2>3. QED
    BY <2>1, <2>1a, <2>2, TypesAgain DEF LoopOK
<1>2. QED
  BY <1>1 DEF TypeInv, LoopOK

LEMMA ThreadsKept ==
  ASSUME TypeInv, UNCHANGED <<th, nodes>>, BufsAlike
  PROVE  /\ th' \in [Threads -> ThRecs(Len(nodes'), Len(bufs'))]
         /\ \A u \in Threads : ThreadSound(u)' /\ KindSound(u)'
         /\ WorkersCounted' /\ Started' = Started
<1>1. th \in [Threads -> ThRecs(Len(nodes), Len(bufs))]
  BY ThreadTypes DEF TypeInv
<1>0. Len(bufs') = Len(bufs) /\ \A b \in 1 .. Len(bufs) : bufs'[b].workers = bufs[b].workers
  BY DEF BufsAlike
<1>2. \A u \in Threads : ThreadSound(u)' /\ KindSound(u)'
  BY DEF TypeInv, ThreadSound, KindSound
<1>3. WorkersCounted' /\ Started' = Started
  BY <1>0 DEF TypeInv, WorkersCounted, Inside, Started
<1>4. QED
  BY <1>0, <1>1, <1>2, <1>3

LEMMA LoopIs ==
  ASSUME TypeInv
  PROVE  /\ loop \in LoopRecs(Len(nodes), Len(bufs))
         /\ loop.buf \in 0 .. Len(bufs) /\ loop.node \in 0 .. Len(nodes) /\ loop.pc \in {"read", "lines", "detach"}
         /\ Len(bufs) \in Nat /\ sent \in Nat
         /\ list_lock \in Threads \cup {Loop, None} /\ aborted \in Nums \cup {None}
         /\ wire \in Seq(Messages)
<1>1. /\ loop \in LoopRecs(Len(nodes), Len(bufs))
      /\ sent \in Nat
      /\ list_lock \in Threads \cup {Loop, None} /\ aborted \in Nums \cup {None} /\ wire \in Seq(Messages)
  BY RegistryAssumption DEF TypeInv, TypeOK, LoopRecs
<1>2. QED
  BY <1>1, RegistryTypes DEF TypeInv, LoopRecs

(* A reply only lets its thread go on.                                     *)
LEMMA ReplyIs ==
  ASSUME TypeInv, ReadReply
  PROVE  LET u == Head(wire).num IN
         /\ u \in Threads /\ th' = [th EXCEPT ![u] = [th[u] EXCEPT !.waiting = FALSE]]
         /\ th' \in [Threads -> ThRecs(Len(nodes), Len(bufs))]
         /\ \A v \in Threads : /\ th'[v].kind = th[v].kind /\ th'[v].pc = th[v].pc
                               /\ th'[v].ans = th[v].ans /\ th'[v].num = th[v].num
                               /\ th'[v].node = th[v].node /\ th'[v].buf = th[v].buf
                               /\ th'[v].prev = th[v].prev
                               /\ th'[v].waiting = IF v = u THEN FALSE ELSE th[v].waiting
<1>1. PICK u : u = Head(wire).num
  OBVIOUS
<1>2. Read({"reply"}) /\ th' = [th EXCEPT ![u].waiting = FALSE]
  BY <1>1 DEF ReadReply
<1>3. u \in Threads
  BY <1>1, <1>2, MessageRead
<1>4. th \in [Threads -> ThRecs(Len(nodes), Len(bufs))] /\ th[u] \in ThRecs(Len(nodes), Len(bufs))
  BY <1>3, ThreadTypes DEF TypeInv
<1>5. th' = [th EXCEPT ![u] = [th[u] EXCEPT !.waiting = FALSE]]
  BY <1>2, <1>3, <1>4
<1>6. [th[u] EXCEPT !.waiting = FALSE] \in ThRecs(Len(nodes), Len(bufs))
  BY <1>4 DEF ThRecs
<1>7. th' \in [Threads -> ThRecs(Len(nodes), Len(bufs))]
  BY <1>4, <1>5, <1>6
<1>8. ASSUME NEW v \in Threads
      PROVE  /\ th'[v].kind = th[v].kind /\ th'[v].pc = th[v].pc
             /\ th'[v].ans = th[v].ans /\ th'[v].num = th[v].num
             /\ th'[v].node = th[v].node /\ th'[v].buf = th[v].buf
             /\ th'[v].prev = th[v].prev
             /\ th'[v].waiting = IF v = u THEN FALSE ELSE th[v].waiting
  <2>1. th'[v] = IF v = u THEN [th[u] EXCEPT !.waiting = FALSE] ELSE th[v]
    BY <1>4, <1>5
  <2>2. QED
    BY <1>4, <2>1 DEF ThRecs
<1>9. QED
  BY <1>1, <1>3, <1>5, <1>7, <1>8

LEMMA LoopSteps ==
  ASSUME TypeInv, LoopStep
  PROVE  LoopOK
<1>1. /\ Cardinality(Started) + Cardinality(Pending) + Handled <= sent + 1
      /\ Handled = IF loop.pc = "read" THEN 0 ELSE 1
  BY DEF TypeInv, Capacity, Handled
<1>2. CASE ReadReply
  <2>1. Read({"reply"}) /\ UNCHANGED <<nvim, loop, registry, previous, autocmd_mutex, history>>
    BY <1>2 DEF ReadReply
  <2>2. UNCHANGED <<current, ft, attached, sent, loop, nodes, list, list_lock, bufs, previous, autocmd_mutex, closed,
                   hurried, refused, aborted>>
    BY <2>1 DEF nvim, registry, history, excuses
  <2>3. wire' \in Seq(Messages) /\ WireSound' /\ Cardinality(Pending') <= Cardinality(Pending) /\ Cardinality(Pending') \in Nat
    BY <2>1, MessageRead
  <2>4. /\ th' \in [Threads -> ThRecs(Len(nodes), Len(bufs))]
        /\ \A v \in Threads : /\ th'[v].kind = th[v].kind /\ th'[v].pc = th[v].pc
                              /\ th'[v].ans = th[v].ans /\ th'[v].num = th[v].num
                              /\ th'[v].node = th[v].node /\ th'[v].buf = th[v].buf
    BY <1>2, ReplyIs
  <2>5. \A u \in Threads : ThreadSound(u)' /\ KindSound(u)'
    BY <2>4 DEF TypeInv, ThreadSound, KindSound
  <2>6. WorkersCounted' /\ Started' = Started
    <3>1. \A b : Inside(b)' = Inside(b)
      BY <2>4 DEF Inside
    <3>2. Started' = Started
      BY <2>4 DEF Started
    <3>3. QED
      BY <2>2, <3>1, <3>2 DEF WorkersCounted, TypeInv
  <2>7. Capacity'
    BY <1>1, <2>2, <2>3, <2>6, PendingIs, LoopIs DEF Capacity, Handled
  <2>8. LoopSound'
    BY <2>2 DEF LoopSound, TypeInv
  <2>9. QED
    BY <2>2, <2>3, <2>4, <2>5, <2>6, <2>7, <2>8, LoopIs, Alike DEF LoopOK
<1>3. CASE ReadCommand
  <2>1. /\ Read(Kinds) /\ UNCHANGED <<nvim, loop, registry, previous, autocmd_mutex, history>>
        /\ th' = [th EXCEPT ![FreeThread] = NewThread(Head(wire).type, "lock", None, 0)]
    BY <1>3 DEF ReadCommand
  <2>2. UNCHANGED <<current, ft, attached, sent, loop, nodes, list, list_lock, bufs, previous, autocmd_mutex, closed,
                   hurried, refused, aborted>>
    BY <2>1 DEF nvim, registry, history, excuses
  <2>3. /\ wire' \in Seq(Messages) /\ WireSound' /\ Head(wire).type \in Kinds
        /\ Pending # {} /\ Cardinality(Pending') + 1 <= Cardinality(Pending) /\ Cardinality(Pending') \in Nat
    <3>1. Head(wire).type # "reply"
      BY <2>1, MessageRead, RegistryAssumption
    <3>2. QED
      BY <2>1, <3>1, MessageRead
  <2>4. FreeThread \in Threads /\ th[FreeThread].pc = "idle" /\ FreeThread # Main
    BY <2>3, SomeThreadFree
  <2>5. /\ th' \in [Threads -> ThRecs(Len(nodes'), Len(bufs'))]
        /\ \A u \in Threads : ThreadSound(u)' /\ KindSound(u)'
        /\ WorkersCounted'
        /\ Cardinality(Started') = Cardinality(Started) + 1
    BY <2>1, <2>2, <2>3, <2>4, Spawned, Alike
  <2>6. Capacity'
    BY <1>1, <2>2, <2>3, <2>5, PendingIs, LoopIs DEF Capacity, Handled
  <2>7. LoopSound'
    BY <2>2 DEF LoopSound, TypeInv
  <2>8. QED
    BY <2>2, <2>3, <2>5, <2>6, <2>7, LoopIs, Alike DEF LoopOK
<1>4. CASE ReadEvent
  <2>1. /\ Read({"lines", "detach"}) /\ UNCHANGED <<nvim, registry, previous, autocmd_mutex, th, history>>
        /\ loop' = [pc |-> Head(wire).type, num |-> Head(wire).num, node |-> 0, buf |-> 0]
    BY <1>4 DEF ReadEvent
  <2>2. UNCHANGED <<current, ft, attached, sent, th, nodes, list, list_lock, bufs, previous, autocmd_mutex, closed,
                   hurried, refused, aborted>>
    BY <2>1 DEF nvim, registry, history, excuses
  <2>3. /\ wire' \in Seq(Messages) /\ WireSound' /\ Head(wire).type \in {"lines", "detach"} /\ Head(wire).num \in Nums
        /\ Cardinality(Pending') + 1 <= Cardinality(Pending) /\ Cardinality(Pending') \in Nat
        /\ loop.pc = "read"
    BY <2>1, MessageRead
  <2>4. loop' \in LoopRecs(Len(nodes'), Len(bufs')) /\ LoopSound'
    BY <2>1, <2>2, <2>3, LoopIs, RegistryTypes DEF LoopSound, LoopRecs, TypeInv
  <2>5. Capacity'
    BY <1>1, <2>1, <2>2, <2>3, PendingIs, LoopIs, ThreadsKept, Alike DEF Capacity, Handled
  <2>6. QED
    BY <2>2, <2>3, <2>4, <2>5, LoopIs, Alike, ThreadsKept DEF LoopOK
<1>5. CASE LoopCannotFind
  <2>1. UNCHANGED <<current, ft, attached, sent, wire, loop, th, nodes, list, bufs, previous, autocmd_mutex, closed,
                   hurried, refused, aborted>>
    BY <1>5 DEF LoopCannotFind, CannotWalk, Stray, nvim, registry, history, excuses
  <2>2. list_lock' \in Threads \cup {Loop, None}
    BY <1>5, LoopIs DEF LoopCannotFind, CannotWalk, Stray, registry
  <2>3. WireSound' /\ LoopSound' /\ Pending' = Pending /\ Handled' = Handled
    BY <2>1 DEF WireSound, LoopSound, TypeInv, Pending, Handled
  <2>4. Capacity'
    BY <2>1, <2>3, ThreadsKept, Alike DEF Capacity, TypeInv
  <2>5. QED
    BY <2>1, <2>2, <2>3, <2>4, LoopIs, Alike, ThreadsKept DEF LoopOK
<1>6. CASE LoopFind
  <2>1. /\ UNCHANGED <<current, ft, attached, sent, wire, th, nodes, list, bufs, previous, autocmd_mutex, closed,
                      hurried, refused>>
        /\ list_lock' = None /\ loop.pc \in {"lines", "detach"} /\ loop.node = 0
        /\ LET k == find_buffer_node(loop.num) IN
             IF k = 0 THEN aborted' = loop.num /\ UNCHANGED loop
                      ELSE loop' = [loop EXCEPT !.node = k] /\ UNCHANGED aborted
    BY <1>6 DEF LoopFind, LeaveList, nvim, excuses
  <2>2. find_buffer_node(loop.num) \in 0 .. Len(nodes) /\ loop.num \in Nums
    BY <2>1, FoundNode DEF TypeInv, LoopSound
  <2>3. /\ loop' \in LoopRecs(Len(nodes'), Len(bufs')) /\ loop'.buf = 0
        /\ loop'.pc = loop.pc /\ loop'.num = loop.num /\ aborted' \in Nums \cup {None}
    BY <2>1, <2>2, LoopIs DEF LoopRecs, TypeInv, LoopSound
  <2>4. WireSound' /\ LoopSound' /\ Pending' = Pending /\ Handled' = Handled
    BY <2>1, <2>3 DEF WireSound, LoopSound, TypeInv, Pending, Handled
  <2>5. Capacity'
    BY <2>1, <2>4, ThreadsKept, Alike DEF Capacity, TypeInv
  <2>6. QED
    BY <2>1, <2>3, <2>4, <2>5, LoopIs, Alike, ThreadsKept DEF LoopOK
<1>7. CASE LoopReadNode
  <2>1. /\ UNCHANGED <<current, ft, attached, sent, wire, th, nodes, list, list_lock, bufs, previous, autocmd_mutex,
                      closed, hurried, refused>>
        /\ loop.node # 0
        /\ \/ UNCHANGED <<loop, aborted>>
           \/ aborted' = loop.num /\ UNCHANGED loop
           \/ loop' = [loop EXCEPT !.buf = nodes[loop.node].bdata] /\ UNCHANGED aborted
    BY <1>7 DEF LoopReadNode, Stray, nvim, registry, excuses
  <2>2. loop.pc # "read" /\ loop.num \in Nums
    BY <2>1 DEF TypeInv, LoopSound
  <2>3. nodes[loop.node].bdata \in 0 .. Len(bufs)
    <3>1. loop.node \in 1 .. Len(nodes)
      BY <2>1, LoopIs, RegistryTypes DEF TypeInv
    <3>2. QED
      BY <3>1, NodeTypes DEF TypeInv
  <2>4. /\ loop' \in LoopRecs(Len(nodes'), Len(bufs')) /\ loop'.node = loop.node
        /\ loop'.pc = loop.pc /\ loop'.num = loop.num /\ aborted' \in Nums \cup {None}
    BY <2>1, <2>2, <2>3, LoopIs DEF LoopRecs
  <2>5. WireSound' /\ LoopSound' /\ Pending' = Pending /\ Handled' = Handled
    BY <2>1, <2>2, <2>4 DEF WireSound, LoopSound, TypeInv, Pending, Handled
  <2>6. Capacity'
    BY <2>1, <2>5, ThreadsKept, Alike DEF Capacity, TypeInv
  <2>7. QED
    BY <2>1, <2>4, <2>5, <2>6, LoopIs, Alike, ThreadsKept DEF LoopOK
<1>8. CASE LoopHandle
  <2>1. loop.buf # 0
    BY <1>8 DEF LoopHandle
  <2>2. CASE loop.pc = "lines" /\ ~ Alive(loop.buf)
    <3>1. UNCHANGED <<current, ft, attached, sent, wire, loop, th, nodes, list, list_lock, bufs, previous, autocmd_mutex,
                      closed, hurried, refused, aborted>>
      BY <1>8, <2>2 DEF LoopHandle, Stray, nvim, registry, excuses
    <3>2. WireSound' /\ LoopSound' /\ Pending' = Pending /\ Handled' = Handled
      BY <3>1 DEF WireSound, LoopSound, TypeInv, Pending, Handled
    <3>3. Capacity'
      BY <3>1, <3>2, ThreadsKept, Alike DEF Capacity, TypeInv
    <3>4. QED
      BY <3>1, <3>2, <3>3, LoopIs, Alike, ThreadsKept DEF LoopOK
  <2>3. CASE ~ (loop.pc = "lines" /\ ~ Alive(loop.buf))
    <3>1. /\ UNCHANGED <<nvim, wire, nodes, list, list_lock, previous, autocmd_mutex, history>>
          /\ loop' = Reading
          /\ \/ th' = [th EXCEPT ![FreeThread] = NewThread("destroyer", "clear", loop.num, loop.buf)]
             \/ th' = [th EXCEPT ![FreeThread] = NewThread("worker", "enter", loop.num, loop.buf)]
             \/ UNCHANGED th
      BY <1>8, <2>3 DEF LoopHandle, registry
    <3>2. UNCHANGED <<current, ft, attached, sent, wire, nodes, list, list_lock, previous, autocmd_mutex, closed,
                      hurried, refused, aborted>>
      BY <3>1 DEF nvim, history, excuses
    <3>3. BufsAlike
      <4>1. CASE loop.pc = "lines"
        BY <1>8, <2>3, <4>1, LinesTaken
      <4>2. CASE loop.pc # "lines"
        <5>1. UNCHANGED bufs
          BY <1>8, <4>2 DEF LoopHandle, registry
        <5>2. QED
          BY <5>1, Alike
      <4>3. QED
        BY <4>1, <4>2
    <3>4. loop.pc # "read" /\ loop.num \in Nums /\ Handled = 1
      <4>1. loop.pc # "read"
        BY <2>1 DEF TypeInv, LoopSound
      <4>2. QED
        BY <4>1 DEF Handled, TypeInv, LoopSound
    <3>5. FreeThread \in Threads /\ th[FreeThread].pc = "idle" /\ FreeThread # Main
      BY <3>4, SomeThreadFree
    <3>6. /\ th' \in [Threads -> ThRecs(Len(nodes'), Len(bufs'))]
          /\ \A u \in Threads : ThreadSound(u)' /\ KindSound(u)'
          /\ WorkersCounted'
          /\ Started' = Started \/ Cardinality(Started') = Cardinality(Started) + 1
      <4>1. CASE UNCHANGED th
        BY <3>2, <3>3, <4>1, ThreadsKept
      <4>2. CASE ~ UNCHANGED th
        <5>1. PICK f : f = FreeThread
          OBVIOUS
        <5>2. PICK n, b : n = loop.num /\ b = loop.buf
          OBVIOUS
        <5>3. \/ th' = [th EXCEPT ![f] = NewThread("destroyer", "clear", n, b)]
              \/ th' = [th EXCEPT ![f] = NewThread("worker", "enter", n, b)]
          BY <3>1, <4>2, <5>1, <5>2
        <5>4. f \in Threads /\ th[f].pc = "idle" /\ f # Main /\ n \in Nums /\ b \in 0 .. Len(bufs)
          BY <3>4, <3>5, <5>1, <5>2, LoopIs
        <5>5. QED
          BY <3>2, <3>3, <5>3, <5>4, Spawned
      <4>3. QED
        BY <4>1, <4>2
    <3>7. WireSound' /\ Pending' = Pending
      BY <3>2 DEF WireSound, TypeInv, Pending
    <3>8. Capacity'
      <4>1. Handled' = 0
        BY <3>1 DEF Handled, Reading
      <4>2. QED
        BY <1>1, <3>2, <3>4, <3>6, <3>7, <4>1, PendingIs, LoopIs DEF Capacity
    <3>9. loop' \in LoopRecs(Len(nodes'), Len(bufs')) /\ LoopSound'
      <4>1. Len(nodes') \in Nat /\ Len(bufs') \in Nat
        BY <3>2, <3>3, RegistryTypes DEF TypeInv, BufsAlike
      <4>2. QED
        BY <3>1, <4>1 DEF LoopSound, LoopRecs, Reading
    <3>10. QED
      BY <3>2, <3>3, <3>6, <3>7, <3>8, <3>9, LoopIs DEF LoopOK
  <2>4. QED
    BY <2>2, <2>3
<1>9. QED
  BY <1>2, <1>3, <1>4, <1>5, <1>6, <1>7, <1>8 DEF LoopStep

LEMMA LoopTypeStep == ASSUME TypeInv, LoopStep PROVE TypeInv'
  BY LoopSteps, LoopTypes

(* Neovim sends a notification.                                            *)
LEMMA Announced ==
  ASSUME TypeInv, NEW m \in Messages, m.type # "reply", Announce(m),
         m.type \in {"lines", "detach"} => m.num \in Nums
  PROVE  /\ wire' \in Seq(Messages) /\ WireSound' /\ Capacity' /\ sent' \in 0 .. MaxMessages
         /\ \A i \in 1 .. Len(wire') : (i \in 1 .. Len(wire) /\ wire'[i] = wire[i]) \/ wire'[i] = m
<1>1. /\ wire' = Append(wire, m) /\ sent' = sent + 1 /\ sent < MaxMessages
      /\ UNCHANGED <<loop, th>>
  BY DEF Announce
<1>2. wire \in Seq(Messages) /\ Len(wire) \in Nat /\ sent \in 0 .. MaxMessages
  BY PendingIs DEF TypeInv, TypeOK
<1>3. /\ wire' \in Seq(Messages) /\ Len(wire') = Len(wire) + 1
      /\ \A i \in 1 .. Len(wire) : wire'[i] = wire[i]
      /\ wire'[Len(wire) + 1] = m
  BY <1>1, <1>2, AppendProperties
<1>4. \A i \in 1 .. Len(wire') : (i \in 1 .. Len(wire) /\ wire'[i] = wire[i]) \/ wire'[i] = m
  BY <1>2, <1>3
<1>5. WireSound'
  <2>1. SUFFICES ASSUME NEW i \in 1 .. Len(wire')
                 PROVE  /\ wire'[i].type = "reply" => wire'[i].num \in Threads
                        /\ wire'[i].type \in {"lines", "detach"} => wire'[i].num \in Nums
    BY DEF WireSound
  <2>2. QED
    BY <1>4 DEF TypeInv, WireSound
<1>6. Capacity'
  <2>1. Pending' = Pending \cup {Len(wire) + 1}
    <3>1. {i \in 1 .. Len(wire') : wire'[i].type # "reply"}
             = {i \in 1 .. Len(wire) : wire[i].type # "reply"} \cup {Len(wire) + 1}
      BY <1>2, <1>3
    <3>2. QED
      BY <3>1 DEF Pending
  <2>2. Cardinality(Pending') \in Nat /\ Cardinality(Pending') <= Cardinality(Pending) + 1
    <3>1. IsFiniteSet(Pending')
      BY <2>1, PendingIs, FS_AddElement
    <3>2. Cardinality(Pending') \in Nat
      BY <3>1, FS_CardinalityType
    <3>3. Cardinality(Pending') = IF Len(wire) + 1 \in Pending THEN Cardinality(Pending) ELSE Cardinality(Pending) + 1
      BY <2>1, PendingIs, FS_AddElement
    <3>4. QED
      BY <3>2, <3>3, PendingIs
  <2>3. Started' = Started /\ Handled' = Handled /\ Handled \in {0, 1}
    BY <1>1 DEF Started, Handled
  <2>4. QED
    BY <1>1, <1>2, <2>2, <2>3, PendingIs DEF Capacity, TypeInv
<1>7. sent' \in 0 .. MaxMessages
  BY <1>1, <1>2, RegistryAssumption
<1>8. QED
  BY <1>3, <1>4, <1>5, <1>6, <1>7

(* What neovim may announce, and change while it does.                     *)
LEMMA NvimIs ==
  ASSUME NvimStep
  PROVE  \E m \in Messages :
           /\ Announce(m) /\ m.type # "reply"
           /\ \/ m.type \in Kinds /\ attached' = attached
              \/ m.type \in {"lines", "detach"} /\ m.num \in attached \cap Nums /\ attached' \subseteq attached
           /\ \/ UNCHANGED <<current, ft>>
              \/ current' \in Nums /\ ft' = ft
              \/ current' = current /\ \E f \in LaterTypes : ft' = [ft EXCEPT ![current] = f]
<1>1. \A k \in Kinds : /\ [type |-> k, num |-> 0] \in Messages
                       /\ k # "reply" /\ k \notin {"lines", "detach"}
  BY RegistryAssumption DEF Messages, Threads
<1>2. \A n \in Nums : /\ [type |-> "lines", num |-> n] \in Messages
                      /\ [type |-> "detach", num |-> n] \in Messages
  BY DEF Messages
<1>3. CASE \E n \in Nums : EnterBuffer(n)
  BY <1>1, <1>3 DEF EnterBuffer, Command
<1>4. CASE \E n \in Nums : EditBuffer(n)
  <2>1. PICK n \in Nums : EditBuffer(n)
    BY <1>4
  <2>2. QED
    BY <1>2, <2>1 DEF EditBuffer
<1>5. CASE \E n \in Nums : UnloadBuffer(n)
  <2>1. PICK n \in Nums : UnloadBuffer(n)
    BY <1>5
  <2>2. QED
    BY <1>2, <2>1 DEF UnloadBuffer
<1>6. CASE \E f \in LaterTypes : SetFiletype(f)
  <2>1. PICK f \in LaterTypes : SetFiletype(f)
    BY <1>6
  <2>2. "syntax" \in Kinds
    BY <2>1 DEF SetFiletype, Command
  <2>3. [type |-> "syntax", num |-> 0] \in Messages
    BY <1>1, <2>2
  <2>4. QED
    BY <2>1, <2>2, <2>3 DEF SetFiletype, Command
<1>7. CASE \E k \in Kinds : UserUpdate(k)
  BY <1>1, <1>7 DEF UserUpdate, Command
<1>8. QED
  BY <1>3, <1>4, <1>5, <1>6, <1>7 DEF NvimStep

LEMMA NvimTypeStep ==
  ASSUME TypeInv, NvimStep
  PROVE  TypeInv'
<1>1. PICK m \in Messages :
        /\ Announce(m) /\ m.type # "reply"
        /\ m.type \in {"lines", "detach"} => m.num \in Nums
        /\ attached' \subseteq attached
        /\ \/ UNCHANGED <<current, ft>>
           \/ current' \in Nums /\ ft' = ft
           \/ current' = current /\ \E f \in LaterTypes : ft' = [ft EXCEPT ![current] = f]
  <2>1. \A k \in Kinds : k \notin {"lines", "detach"}
    BY RegistryAssumption
  <2>2. QED
    BY <2>1, NvimIs
<1>2. UNCHANGED <<loop, nodes, list, list_lock, bufs, previous, autocmd_mutex, th, closed, hurried, refused, aborted>>
  BY <1>1 DEF Announce, registry, history, excuses
<1>3. /\ current \in Nums /\ ft \in [Nums -> Filetypes] /\ attached \subseteq Nums
      /\ previous \in Nums \cup {None} /\ autocmd_mutex \in Threads \cup {None} /\ closed \subseteq Nums
  BY DEF TypeInv, TypeOK
<1>4. current' \in Nums /\ ft' \in [Nums -> Filetypes] /\ attached' \subseteq Nums
  BY <1>1, <1>3 DEF Filetypes
<1>5. nodes' \in Seq(NodeRecs(Len(bufs'))) /\ list' \in Seq(1 .. Len(nodes')) /\ bufs' \in Seq(BufRecs)
  BY <1>2, RegistryTypes DEF TypeInv
<1>6. LoopSound'
  BY <1>2 DEF TypeInv, LoopSound
<1>7. wire' \in Seq(Messages) /\ WireSound' /\ Capacity' /\ sent' \in 0 .. MaxMessages
  BY <1>1, Announced
<1>8. TypeOK'
  <2>1. /\ previous' \in Nums \cup {None} /\ autocmd_mutex' \in Threads \cup {None} /\ closed' \subseteq Nums
        /\ list_lock' \in Threads \cup {Loop, None} /\ aborted' \in Nums \cup {None}
        /\ loop' \in LoopRecs(Len(nodes'), Len(bufs'))
        /\ th' \in [Threads -> ThRecs(Len(nodes'), Len(bufs'))]
    BY <1>2, <1>3, LoopIs, Alike, ThreadsKept
  <2>2. hurried' \in BOOLEAN /\ refused' \in BOOLEAN
    BY <1>2 DEF TypeInv, TypeOK
  <2>3. QED
    BY <1>4, <1>5, <1>7, <2>1, <2>2, TypesAgain
<1>9. QED
  BY <1>2, <1>6, <1>7, <1>8, Alike, ThreadsKept DEF TypeInv

LEMMA TypeInit == Init => TypeInv
<1> SUFFICES ASSUME Init PROVE TypeInv
  OBVIOUS
<1>1. /\ current \in Nums /\ ft \in [Nums -> FirstTypes] /\ attached = {} /\ sent = 0 /\ wire = <<>>
      /\ loop = Reading /\ nodes = <<>> /\ list = <<>> /\ list_lock = None
      /\ bufs = <<>> /\ previous = None /\ autocmd_mutex = None
      /\ th = [t \in Threads |-> IF t = Main THEN NewThread("main", "start", None, 0) ELSE NoThread]
      /\ closed = {} /\ hurried = FALSE /\ refused = FALSE /\ undefined = None /\ aborted = None
  BY DEF Init
<1>2. Len(nodes) = 0 /\ Len(bufs) = 0 /\ Len(wire) = 0 /\ Len(list) = 0
  BY <1>1
<1>3. NoThread \in ThRecs(0, 0) /\ NoThread.pc = "idle" /\ NoThread.kind = None
  BY DEF NoThread, ThRecs, Pcs
<1>4. /\ NewThread("main", "start", None, 0) \in ThRecs(0, 0)
      /\ NewThread("main", "start", None, 0).pc = "start" /\ NewThread("main", "start", None, 0).kind = "main"
  <2>1. "start" \in Pcs /\ 0 \in 0 .. 0
    BY DEF Pcs
  <2>2. QED
    BY <1>3, <2>1 DEF NewThread, ThRecs
<1>5. Main \in Threads
  BY RegistryAssumption DEF Main, Threads
<1>6. /\ th \in [Threads -> ThRecs(0, 0)]
      /\ \A t \in Threads : IF t = Main THEN th[t].pc = "start" /\ th[t].kind = "main" ELSE th[t].pc = "idle"
  BY <1>1, <1>3, <1>4
<1>7. TypeOK
  <2>1. ft \in [Nums -> Filetypes]
    BY <1>1 DEF Filetypes
  <2>2. loop \in LoopRecs(Len(nodes), Len(bufs))
    BY <1>1, <1>2 DEF LoopRecs, Reading
  <2>3. /\ nodes \in Seq(NodeRecs(Len(bufs))) /\ list \in Seq(1 .. Len(nodes)) /\ bufs \in Seq(BufRecs)
        /\ wire \in Seq(Messages)
    BY <1>1
  <2>4. sent \in 0 .. MaxMessages
    BY <1>1, RegistryAssumption
  <2>5. th \in [Threads -> ThRecs(Len(nodes), Len(bufs))]
    BY <1>2, <1>6
  <2>6. QED
    BY <1>1, <2>1, <2>2, <2>3, <2>4, <2>5 DEF TypeOK, NodeRecs, BufRecs, ThRecs, LoopRecs
<1>8. WireSound /\ LoopSound
  BY <1>1, <1>2 DEF WireSound, LoopSound, Reading
<1>9. \A t \in Threads : ThreadSound(t) /\ KindSound(t)
  BY <1>6 DEF ThreadSound, KindSound, Looks, Unplaced
<1>10. Capacity
  <2>1. Started = {Main}
    BY <1>5, <1>6 DEF Started
  <2>2. Pending = {} /\ Handled = 0
    BY <1>1, <1>2 DEF Pending, Handled, Reading
  <2>3. Cardinality(Started) = 1 /\ Cardinality(Pending) = 0
    BY <2>1, <2>2, FS_EmptySet, FS_Singleton
  <2>4. QED
    BY <1>1, <2>2, <2>3 DEF Capacity
<1>11. WorkersCounted
  BY <1>2 DEF WorkersCounted
<1>12. QED
  BY <1>7, <1>8, <1>9, <1>10, <1>11 DEF TypeInv

LEMMA TypeStep == TypeInv /\ [Next]_vars => TypeInv'
<1> SUFFICES ASSUME TypeInv, [Next]_vars PROVE TypeInv'
  OBVIOUS
<1>1. CASE NvimStep
  BY <1>1, NvimTypeStep
<1>2. CASE LoopStep
  BY <1>2, LoopTypeStep
<1>3. CASE \E t \in Threads : ThreadStep(t)
  BY <1>3, ThreadTypeStep
<1>4. CASE UNCHANGED vars
  <2>1. UNCHANGED <<current, ft, attached, sent, wire, loop, nodes, list, list_lock, bufs, previous,
                    autocmd_mutex, th, closed, hurried, refused, aborted>>
    BY <1>4 DEF vars, nvim, registry, history, excuses
  <2>2. TypeOK' /\ WireSound' /\ LoopSound' /\ Capacity'
    BY <2>1 DEF TypeInv, TypeOK, WireSound, LoopSound, Capacity, Started, Pending, Handled
  <2>3. QED
    BY <2>1, <2>2, Alike, ThreadsKept DEF TypeInv
<1>5. QED
  BY <1>1, <1>2, <1>3, <1>4 DEF Next

LEMMA TypeAlways == Spec => []TypeInv
  BY TypeInit, TypeStep, PTL DEF Spec

(* Every variable holds what the code can put there: in particular there is *)
(* a thread for every notification, num_workers is never negative nor more  *)
(* than the workers there are, and no pointer points behind what was        *)
(* allocated.                                                              *)
THEOREM TypeCorrect == Spec => []TypeOK
<1>1. TypeInv => TypeOK
  BY DEF TypeInv
<1>2. QED
  BY <1>1, TypeAlways, PTL

-----------------------------------------------------------------------------
(* Threads that wait do nothing, and only one thread moves at a time.      *)
LEMMA NotWaiting ==
  ASSUME NEW t \in Threads, ThreadStep(t)
  PROVE  ~ th[t].waiting
<1>1. CASE UseFreed(t) \/ UsePrevious(t) \/ Begin(t) \/ CannotLook(t) \/ Look(t) \/ FindPrevious(t) \/ Suspend(t)
  BY <1>1 DEF UseFreed, UsePrevious, Begin, CannotLook, Wants, Look, Looking, FindPrevious, Suspend, At
<1>2. CASE FindNode(t) \/ OpenNode(t) \/ MakeBuffer(t) \/ AppendNode(t) \/ FreeNode(t) \/ End(t)
  BY <1>2 DEF FindNode, Opening, OpenNode, MakeBuffer, AppendNode, FreeNode, End, At
<1>3. CASE \E p : Use(t, p)
  BY <1>3 DEF Use, At
<1>4. QED
  BY <1>1, <1>2, <1>3 DEF ThreadStep, AskFiletype, Judge, Attach, GetLines, Initialize, Update, Updated,
     ClearHighlight, CloseNode, ShutDoor, FreeBuffer, WorkerEnter, WorkerCountIn, WorkerHighlight, WorkerCountOut

LEMMA OthersStay ==
  ASSUME TypeInv, NEW t \in Threads, ThreadStep(t)
  PROVE  /\ \A u \in Threads : u # t => th'[u] = th[u]
         /\ th'[t].kind = th[t].kind /\ th[t].pc # "idle" /\ th'[t].pc # "idle"
         /\ UNCHANGED <<current, ft, sent, loop, aborted>>
         /\ wire' = wire \/ wire' = Append(wire, [type |-> "reply", num |-> t])
<1>1. OwnStep(t)
  BY OwnSteps DEF OwnSound
<1>2. th \in [Threads -> ThRecs(Len(nodes), Len(bufs))]
  BY ThreadTypes DEF TypeInv
<1>3. QED
  BY <1>1, <1>2 DEF OwnStep

LEMMA NodesUnchanged ==
  ASSUME TypeInv, NEW t \in Threads, ThreadStep(t)
  PROVE  nodes' = nodes \/ FindNode(t) \/ OpenNode(t) \/ MakeBuffer(t) \/ FreeNode(t) \/ CloseNode(t) \/ FreeBuffer(t)
<1>1. CASE UseFreed(t) \/ UsePrevious(t) \/ Begin(t) \/ CannotLook(t)
  BY <1>1 DEF UseFreed, UsePrevious, Begin, CannotLook, CannotWalk, Stray, registry
<1>2. CASE Look(t) \/ FindPrevious(t) \/ Suspend(t)
  BY <1>2 DEF Look, FindPrevious, Suspend, registry
<1>3. CASE \/ AskFiletype(t) \/ Judge(t) \/ AppendNode(t) \/ Attach(t) \/ GetLines(t)
           \/ Update(t) \/ Updated(t) \/ End(t) \/ ClearHighlight(t) \/ WorkerEnter(t)
  BY <1>3, OwnPlainStep
<1>4. CASE Initialize(t) \/ ShutDoor(t) \/ WorkerCountIn(t) \/ WorkerCountOut(t)
  BY <1>4 DEF Initialize, ShutDoor, WorkerCountIn, WorkerCountOut
<1>5. CASE WorkerHighlight(t)
  BY <1>5, OwnHighlight
<1>6. QED
  BY <1>1, <1>2, <1>3, <1>4, <1>5 DEF ThreadStep

(* What a thread's step does to a node.                                    *)
LEMMA NodeStep ==
  ASSUME TypeInv, NEW t \in Threads, ThreadStep(t), NEW k \in 1 .. Len(nodes)
  PROVE  /\ nodes'[k].num = nodes[k].num
         /\ \/ nodes'[k].writer = nodes[k].writer
            \/ k = th[t].node /\ OpenNode(t) /\ nodes[k].writer = None /\ nodes'[k].writer = t
            \/ k = th[t].node /\ MakeBuffer(t) /\ nodes'[k].writer = None
<1>1. nodes[k] \in NodeRecs(Len(bufs))
  BY NodeTypes DEF TypeInv
<1>2. /\ [nodes[k] EXCEPT !.isopen = TRUE, !.writer = t].num = nodes[k].num
      /\ [nodes[k] EXCEPT !.isopen = TRUE, !.writer = t].writer = t
      /\ [nodes[k] EXCEPT !.isopen = FALSE, !.bdata = 0].num = nodes[k].num
      /\ [nodes[k] EXCEPT !.isopen = FALSE, !.bdata = 0].writer = nodes[k].writer
      /\ [nodes[k] EXCEPT !.alive = FALSE].num = nodes[k].num
      /\ [nodes[k] EXCEPT !.alive = FALSE].writer = nodes[k].writer
      /\ \A b : /\ [nodes[k] EXCEPT !.writer = None, !.bdata = b].num = nodes[k].num
                /\ [nodes[k] EXCEPT !.writer = None, !.bdata = b].writer = None
  BY <1>1 DEF NodeRecs
<1>3. CASE FindNode(t)
  <2>1. k \in 1 .. Len(nodes)' /\ k <= Len(nodes)
    <3>1. Len(nodes) <= Len(nodes)' /\ Len(nodes) \in Nat /\ Len(nodes)' \in Nat
      BY <1>3, FoundOrMade, RegistryTypes DEF TypeInv
    <3>2. QED
      BY <3>1
  <2>2. nodes'[k] = nodes[k]
    BY <1>3, <2>1, FoundOrMade
  <2>3. QED
    BY <2>2
<1>4. CASE OpenNode(t) /\ nodes' # nodes
  <2>1. /\ nodes[th[t].node].alive /\ ~ nodes[th[t].node].isopen /\ nodes[th[t].node].writer = None
    BY <1>4 DEF OpenNode, Stray, registry
  <2>2. nodes'[k] = IF k = th[t].node THEN [nodes[k] EXCEPT !.isopen = TRUE, !.writer = t] ELSE nodes[k]
    BY <1>4, <2>1, NodesOpened DEF NodesBecome
  <2>3. QED
    BY <1>2, <1>4, <2>1, <2>2
<1>5. CASE MakeBuffer(t)
  <2>1. nodes'[k] = IF k = th[t].node
                    THEN [nodes[th[t].node] EXCEPT !.writer = None, !.bdata = IF th[t].ans \in Known THEN Len(bufs) + 1 ELSE @]
                    ELSE nodes[k]
    BY <1>5, Made DEF NodesBecome
  <2>2. QED
    BY <1>2, <1>5, <2>1
<1>6. CASE FreeNode(t) /\ nodes' # nodes
  <2>1. nodes'[k] = IF k = th[t].node THEN [nodes[k] EXCEPT !.alive = FALSE] ELSE nodes[k]
    BY <1>6, OwnFreeNode DEF NodesBecome
  <2>2. QED
    BY <1>2, <2>1
<1>7. CASE CloseNode(t)
  <2>1. nodes'[k] = IF k = find_buffer_node(th[t].num) THEN [nodes[k] EXCEPT !.isopen = FALSE, !.bdata = 0] ELSE nodes[k]
    BY <1>7, NodeClosed DEF NodesBecome
  <2>2. QED
    BY <1>2, <2>1
<1>8. CASE FreeBuffer(t) /\ nodes' # nodes
  <2>1. nodes'[k] = IF k = th[t].node THEN [nodes[k] EXCEPT !.alive = FALSE] ELSE nodes[k]
    BY <1>8, NodeFreed DEF NodesBecome
  <2>2. QED
    BY <1>2, <2>1
<1>9. CASE UNCHANGED nodes
  BY <1>9
<1>10. QED
  BY <1>3, <1>4, <1>5, <1>6, <1>7, <1>8, <1>9, NodesUnchanged

LEMMA MakesNotOpens == ASSUME NEW t \in Threads, MakeBuffer(t) PROVE ~ OpenNode(t) /\ ~ FindNode(t)
  BY DEF MakeBuffer, OpenNode, FindNode, Opening, At

LEMMA NewNodes ==
  ASSUME TypeInv, NEW t \in Threads, ThreadStep(t), ~ FindNode(t)
  PROVE  Len(nodes') = Len(nodes)
<1>1. CASE nodes' = nodes
  BY <1>1
<1>2. CASE OpenNode(t) /\ nodes' # nodes
  <2>1. nodes[th[t].node].alive /\ ~ nodes[th[t].node].isopen
    BY <1>2 DEF OpenNode, Stray, registry
  <2>2. QED
    BY <1>2, <2>1, NodesOpened DEF NodesBecome
<1>3. CASE MakeBuffer(t)
  BY <1>3, Made DEF NodesBecome
<1>4. CASE FreeNode(t)
  BY <1>4, OwnFreeNode DEF NodesBecome
<1>5. CASE CloseNode(t)
  BY <1>5, NodeClosed DEF NodesBecome
<1>6. CASE FreeBuffer(t)
  BY <1>6, NodeFreed DEF NodesBecome
<1>7. QED
  BY <1>1, <1>2, <1>3, <1>4, <1>5, <1>6, NodesUnchanged

(* Steps other than opening a node or making a Buffer keep WriterInv.      *)
LEMMA WritersKept ==
  ASSUME TypeInv, WriterInv,
         \A k \in 1 .. Len(nodes') : nodes'[k].writer = IF k <= Len(nodes) THEN nodes[k].writer ELSE None,
         Len(nodes) <= Len(nodes'), Len(nodes') \in Nat,
         \A u \in Threads : /\ th'[u].pc = "make" <=> th[u].pc = "make"
                            /\ th[u].pc = "make" => th'[u].node = th[u].node
  PROVE  WriterInv'
<1>1. Len(nodes) \in Nat
  BY RegistryTypes DEF TypeInv
<1>2. ASSUME NEW k \in 1 .. Len(nodes'), nodes'[k].writer # None
      PROVE  th'[nodes'[k].writer].pc = "make" /\ th'[nodes'[k].writer].node = k
  <2>1. k \in 1 .. Len(nodes) /\ nodes'[k].writer = nodes[k].writer
    BY <1>1, <1>2
  <2>2. nodes[k].writer \in Threads
    BY <1>2, <2>1, NodeTypes DEF TypeInv
  <2>3. th[nodes[k].writer].pc = "make" /\ th[nodes[k].writer].node = k
    BY <1>2, <2>1 DEF WriterInv
  <2>4. QED
    BY <2>1, <2>2, <2>3
<1>3. ASSUME NEW u \in Threads, th'[u].pc = "make"
      PROVE  nodes'[th'[u].node].writer = u
  <2>1. th[u].pc = "make" /\ th'[u].node = th[u].node
    BY <1>3
  <2>2. th[u].node \in 1 .. Len(nodes)
    <3>1. th[u].node \in 0 .. Len(nodes) /\ th[u].node # 0
      BY <2>1, Somewhere DEF TypeInv, ThreadSound
    <3>2. QED
      BY <1>1, <3>1
  <2>3. nodes[th[u].node].writer = u
    BY <2>1 DEF WriterInv
  <2>4. QED
    BY <1>1, <2>1, <2>2, <2>3
<1>4. QED
  BY <1>2, <1>3 DEF WriterInv

(* Only who opens a node gets to make a Buffer, and does no more than that. *)
LEMMA MakersPoint ==
  ASSUME TypeInv, NEW t \in Threads, ThreadStep(t), ~ OpenNode(t), ~ MakeBuffer(t)
  PROVE  th' = th \/ (th[t].pc # "make" /\ th'[t].pc # "make")
<1>1. CASE UseFreed(t) \/ UsePrevious(t) \/ CannotLook(t)
  BY <1>1 DEF UseFreed, UsePrevious, CannotLook, CannotWalk, Stray
<1>2. CASE Begin(t)
  BY <1>2, OwnBegin DEF Looks
<1>3. CASE Look(t)
  BY <1>3, OwnLook, Looked DEF Looks
<1>4. CASE FindPrevious(t)
  BY <1>4, OwnPrevious DEF FindPrevious, At
<1>5. CASE Suspend(t)
  BY <1>5, OwnSuspend DEF Suspend, At
<1>6. CASE FindNode(t)
  BY <1>6, OwnFindNode DEF FindNode, Opening, At
<1>7. CASE FreeNode(t)
  BY <1>7, OwnFreeNode DEF FreeNode, At
<1>8. ASSUME NEW p, NEW q, At(t, p), p # "make", q # "make", Goto(t, q) \/ \E a : Call(t, q, a)
      PROVE  th[t].pc # "make" /\ th'[t].pc # "make"
  <2>1. th \in [Threads -> ThRecs(Len(nodes), Len(bufs))] /\ th[t] \in ThRecs(Len(nodes), Len(bufs))
    BY ThreadTypes DEF TypeInv
  <2>2. th'[t].pc = q
    <3>1. CASE Goto(t, q)
      BY <2>1, <3>1 DEF Goto, ThRecs
    <3>2. CASE \E a : Call(t, q, a)
      BY <2>1, <3>2 DEF Call, ThRecs
    <3>3. QED
      BY <1>8, <3>1, <3>2
  <2>3. QED
    BY <1>8, <2>2 DEF At
<1>9. CASE \/ AskFiletype(t) \/ Judge(t) \/ AppendNode(t) \/ Attach(t) \/ GetLines(t)
           \/ Update(t) \/ Updated(t) \/ End(t)
  BY <1>8, <1>9 DEF AskFiletype, Judge, AppendNode, Attach, GetLines, Update, Updated, End, Use
<1>10. CASE \/ ClearHighlight(t) \/ WorkerEnter(t) \/ Initialize(t) \/ ShutDoor(t) \/ FreeBuffer(t) \/ CloseNode(t)
            \/ WorkerCountIn(t) \/ WorkerHighlight(t) \/ WorkerCountOut(t)
  BY <1>8, <1>10 DEF ClearHighlight, WorkerEnter, Initialize, ShutDoor, FreeBuffer, CloseNode,
     WorkerCountIn, WorkerHighlight, WorkerCountOut, Use
<1>11. QED
  BY <1>1, <1>2, <1>3, <1>4, <1>5, <1>6, <1>7, <1>9, <1>10 DEF ThreadStep

LEMMA WriterStep == TypeInv /\ WriterInv /\ [Next]_vars => WriterInv'
<1> SUFFICES ASSUME TypeInv, WriterInv, [Next]_vars PROVE WriterInv'
  OBVIOUS
<1>1. Len(nodes) \in Nat
  BY RegistryTypes DEF TypeInv
<1>2. ASSUME UNCHANGED nodes,
             \A u \in Threads : /\ th'[u].pc = "make" <=> th[u].pc = "make"
                                /\ th[u].pc = "make" => th'[u].node = th[u].node
      PROVE  WriterInv'
  BY <1>1, <1>2, WritersKept
<1>3. CASE NvimStep \/ UNCHANGED vars
  <2>1. UNCHANGED <<nodes, th>>
    BY <1>3 DEF NvimStep, EnterBuffer, EditBuffer, UnloadBuffer, SetFiletype, UserUpdate, Command, Announce, vars, registry
  <2>2. QED
    BY <1>2, <2>1
<1>4. CASE LoopStep
  <2>1. UNCHANGED nodes
    BY <1>4 DEF LoopStep, ReadReply, ReadCommand, ReadEvent, LoopCannotFind, LoopFind, LoopReadNode, LoopHandle, CannotWalk, Stray, registry
  <2>2. CASE ReadReply
    BY <1>2, <2>1, <2>2, ReplyIs
  <2>3. CASE UNCHANGED th
    BY <1>2, <2>1, <2>3
  <2>4. CASE \E k, p, n, b : /\ th' = [th EXCEPT ![FreeThread] = NewThread(k, p, n, b)] /\ p \in {"lock", "clear", "enter"}
                             /\ Pending # {} \/ Handled = 1
    <3>1. PICK k, p, n, b : /\ th' = [th EXCEPT ![FreeThread] = NewThread(k, p, n, b)] /\ p \in {"lock", "clear", "enter"}
                            /\ Pending # {} \/ Handled = 1
      BY <2>4
    <3>2. FreeThread \in Threads /\ th[FreeThread].pc = "idle"
      BY <3>1, SomeThreadFree
    <3>3. th \in [Threads -> ThRecs(Len(nodes), Len(bufs))]
      BY ThreadTypes DEF TypeInv
    <3>4. NewThread(k, p, n, b).pc = p
      BY DEF NewThread, NoThread
    <3>5. \A u \in Threads : /\ th'[u].pc = "make" <=> th[u].pc = "make"
                             /\ th[u].pc = "make" => th'[u].node = th[u].node
      BY <3>1, <3>2, <3>3, <3>4
    <3>6. QED
      BY <1>2, <2>1, <3>5
  <2>5. CASE ReadCommand
    <3>1. Pending # {}
      <4>1. Read(Kinds)
        BY <2>5 DEF ReadCommand
      <4>2. Head(wire).type # "reply"
        BY <4>1, MessageRead, RegistryAssumption
      <4>3. QED
        BY <4>1, <4>2, MessageRead
    <3>2. QED
      BY <2>4, <2>5, <3>1 DEF ReadCommand
  <2>6. CASE LoopHandle
    <3>1. loop.buf # 0
      BY <2>6 DEF LoopHandle
    <3>2. Handled = 1
      BY <3>1 DEF TypeInv, LoopSound, Handled
    <3>3. QED
      BY <2>3, <2>4, <2>6, <3>2 DEF LoopHandle, Stray
  <2>7. QED
    BY <1>4, <2>2, <2>3, <2>5, <2>6 DEF LoopStep, ReadEvent, LoopCannotFind, LoopFind, LoopReadNode, CannotWalk, Stray
<1>5. ASSUME NEW t \in Threads, ThreadStep(t)
      PROVE  WriterInv'
  <2>1. /\ \A u \in Threads : u # t => th'[u] = th[u]
        /\ Len(nodes') \in Nat /\ Len(nodes) <= Len(nodes')
    BY <1>5, OthersStay, ThreadAllocs
  <2>2. CASE ~ OpenNode(t) /\ ~ MakeBuffer(t)
    <3>1. \A u \in Threads : /\ th'[u].pc = "make" <=> th[u].pc = "make"
                             /\ th[u].pc = "make" => th'[u].node = th[u].node
      BY <1>5, <2>1, <2>2, MakersPoint
    <3>2. \A k \in 1 .. Len(nodes) : nodes'[k].writer = nodes[k].writer
      BY <1>5, <2>2, NodeStep
    <3>3. ASSUME NEW k \in 1 .. Len(nodes'), k > Len(nodes)
          PROVE  nodes'[k].writer = None
      <4>1. FindNode(t)
        BY <1>1, <1>5, <2>2, <3>3, NewNodes
      <4>2. nodes'[k] = [num |-> OpeningNum(t), isopen |-> FALSE, bdata |-> 0, alive |-> TRUE, writer |-> None]
        <5>1. k \in 1 .. Len(nodes)' /\ ~ (k <= Len(nodes))
          BY <1>1, <2>1, <3>3
        <5>2. QED
          BY <4>1, <5>1, FoundOrMade
      <4>3. QED
        BY <4>2
    <3>4. \A k \in 1 .. Len(nodes') : nodes'[k].writer = IF k <= Len(nodes) THEN nodes[k].writer ELSE None
      BY <1>1, <2>1, <3>2, <3>3
    <3>5. QED
      BY <2>1, <3>1, <3>4, WritersKept
  <2>3. CASE OpenNode(t)
    <3> DEFINE k == th[t].node
    <3>1. th[t].pc = "open" /\ k \in 1 .. Len(nodes)
      <4>1. th[t].pc = "open" /\ k \in 0 .. Len(nodes) /\ k # 0
        BY <2>3, Somewhere DEF OpenNode, At, TypeInv, ThreadSound
      <4>2. QED
        BY <1>1, <4>1
    <3>2. CASE ~ nodes[k].alive \/ nodes[k].isopen
      <4>1. UNCHANGED nodes
        BY <2>3, <3>2 DEF OpenNode, Stray, registry
      <4>2. th' = th \/ Goto(t, "failed")
        BY <2>3, <3>2 DEF OpenNode, Stray
      <4>3. th \in [Threads -> ThRecs(Len(nodes), Len(bufs))] /\ th[t] \in ThRecs(Len(nodes), Len(bufs))
        BY ThreadTypes DEF TypeInv
      <4>4. th' = th \/ th'[t].pc = "failed"
        BY <4>2, <4>3 DEF Goto, ThRecs
      <4>5. QED
        BY <1>2, <2>1, <3>1, <4>1, <4>4
    <3>3. CASE nodes[k].alive /\ ~ nodes[k].isopen
      <4>1. nodes[k].writer = None /\ Call(t, "make", ft[th[t].num])
        BY <2>3, <3>3 DEF OpenNode
      <4>2. th'[t].pc = "make" /\ th'[t].node = k
        <5>1. th \in [Threads -> ThRecs(Len(nodes), Len(bufs))] /\ th[t] \in ThRecs(Len(nodes), Len(bufs))
          BY ThreadTypes DEF TypeInv
        <5>2. QED
          BY <4>1, <5>1 DEF Call, ThRecs
      <4>3. /\ Len(nodes') = Len(nodes)
            /\ nodes'[k] = [nodes[k] EXCEPT !.isopen = TRUE, !.writer = t]
            /\ \A j \in 1 .. Len(nodes) : j # k => nodes'[j] = nodes[j]
        BY <2>3, <3>1, <3>3, NodesOpened DEF NodesBecome
      <4>4. nodes'[k].writer = t
        <5>1. nodes[k] \in NodeRecs(Len(bufs))
          BY <3>1, NodeTypes DEF TypeInv
        <5>2. QED
          BY <4>3, <5>1 DEF NodeRecs
      <4>5. ASSUME NEW j \in 1 .. Len(nodes'), nodes'[j].writer # None
            PROVE  th'[nodes'[j].writer].pc = "make" /\ th'[nodes'[j].writer].node = j
        <5>1. CASE j = k
          BY <4>2, <4>4, <5>1
        <5>2. CASE j # k
          <6>1. j \in 1 .. Len(nodes) /\ nodes'[j] = nodes[j]
            BY <4>3, <5>2
          <6>2. nodes[j].writer \in Threads /\ th[nodes[j].writer].pc = "make" /\ th[nodes[j].writer].node = j
            BY <4>5, <6>1, NodeTypes DEF TypeInv, WriterInv
          <6>3. nodes[j].writer # t
            BY <3>1, <6>2
          <6>4. QED
            BY <2>1, <6>1, <6>2, <6>3
        <5>3. QED
          BY <5>1, <5>2
      <4>6. ASSUME NEW u \in Threads, th'[u].pc = "make"
            PROVE  nodes'[th'[u].node].writer = u
        <5>1. CASE u = t
          BY <4>2, <4>4, <5>1
        <5>2. CASE u # t
          <6>1. th'[u] = th[u] /\ nodes[th[u].node].writer = u
            BY <2>1, <4>6, <5>2 DEF WriterInv
          <6>2. th[u].node \in 0 .. Len(nodes) /\ th[u].node # 0
            BY <4>6, <6>1, Somewhere DEF TypeInv, ThreadSound
          <6>3. th[u].node # k /\ th[u].node \in 1 .. Len(nodes)
            BY <1>1, <4>1, <6>1, <6>2, RegistryAssumption DEF Threads
          <6>4. QED
            BY <4>3, <6>1, <6>3
        <5>3. QED
          BY <5>1, <5>2
      <4>7. QED
        BY <4>5, <4>6 DEF WriterInv
    <3>4. QED
      BY <3>2, <3>3
  <2>4. CASE MakeBuffer(t)
    <3> DEFINE k == th[t].node
    <3>1. th[t].pc = "make" /\ k \in 1 .. Len(nodes) /\ nodes[k].writer = t
      BY <2>4, Made DEF WriterInv
    <3>2. th'[t].pc \in {"append", "failed"}
      BY <2>4, OwnMakeBuffer
    <3>3. /\ Len(nodes') = Len(nodes)
          /\ \A j \in 1 .. Len(nodes) : j # k => nodes'[j] = nodes[j]
      BY <2>4, Made DEF NodesBecome
    <3>4. nodes'[k].writer = None
      <4>1. nodes'[k] = [nodes[k] EXCEPT !.writer = None, !.bdata = IF th[t].ans \in Known THEN Len(bufs) + 1 ELSE @]
        BY <2>4, <3>1, Made DEF NodesBecome
      <4>2. nodes[k] \in NodeRecs(Len(bufs))
        BY <3>1, NodeTypes DEF TypeInv
      <4>3. QED
        BY <4>1, <4>2 DEF NodeRecs
    <3>5. ASSUME NEW j \in 1 .. Len(nodes'), nodes'[j].writer # None
          PROVE  th'[nodes'[j].writer].pc = "make" /\ th'[nodes'[j].writer].node = j
      <4>1. j # k /\ j \in 1 .. Len(nodes) /\ nodes'[j] = nodes[j]
        BY <3>3, <3>4, <3>5
      <4>2. nodes[j].writer \in Threads /\ th[nodes[j].writer].pc = "make" /\ th[nodes[j].writer].node = j
        BY <3>5, <4>1, NodeTypes DEF TypeInv, WriterInv
      <4>3. nodes[j].writer # t
        BY <4>1, <4>2
      <4>4. QED
        BY <2>1, <4>1, <4>2, <4>3
    <3>6. ASSUME NEW u \in Threads, th'[u].pc = "make"
          PROVE  nodes'[th'[u].node].writer = u
      <4>1. u # t /\ th'[u] = th[u]
        BY <2>1, <3>2, <3>6
      <4>2. nodes[th[u].node].writer = u /\ th[u].node \in 0 .. Len(nodes) /\ th[u].node # 0
        BY <3>6, <4>1, Somewhere DEF TypeInv, WriterInv, ThreadSound
      <4>3. th[u].node # k /\ th[u].node \in 1 .. Len(nodes)
        BY <1>1, <3>1, <4>1, <4>2
      <4>4. QED
        BY <3>3, <4>1, <4>2, <4>3
    <3>7. QED
      BY <3>5, <3>6 DEF WriterInv
  <2>5. QED
    BY <2>2, <2>3, <2>4
<1>6. QED
  BY <1>3, <1>4, <1>5 DEF Next

LEMMA WriterInit == Init => WriterInv
<1> SUFFICES ASSUME Init PROVE WriterInv
  OBVIOUS
<1>1. nodes = <<>> /\ th = [t \in Threads |-> IF t = Main THEN NewThread("main", "start", None, 0) ELSE NoThread]
  BY DEF Init
<1>2. NewThread("main", "start", None, 0).pc = "start" /\ NoThread.pc = "idle"
  BY DEF NewThread, NoThread
<1>3. Len(nodes) = 0 /\ \A t \in Threads : th[t].pc # "make"
  BY <1>1, <1>2
<1>4. QED
  BY <1>3 DEF WriterInv

LEMMA WriterAlways == Spec => []WriterInv
<1>1. TypeInv /\ WriterInv /\ [Next]_vars => WriterInv'
  BY WriterStep
<1>2. QED
  BY <1>1, WriterInit, TypeAlways, PTL DEF Spec

(* While the list is locked by another, it stays as it is.                 *)
LEMMA LockedOut ==
  ASSUME NEW t \in Threads, ThreadStep(t), list_lock # None, list_lock # t
  PROVE  UNCHANGED <<list, list_lock>>
<1>1. \A n : ~ Walk(t, n)
  BY DEF Walk
<1>2. CASE UseFreed(t) \/ UsePrevious(t) \/ CannotLook(t) \/ Begin(t) \/ Suspend(t)
  BY <1>2 DEF UseFreed, UsePrevious, CannotLook, CannotWalk, Stray, Begin, Suspend, registry
<1>3. CASE Look(t) \/ FindPrevious(t) \/ FindNode(t) \/ CloseNode(t) \/ AppendNode(t)
  BY <1>1, <1>3 DEF Look, FindPrevious, FindNode, CloseNode, AppendNode
<1>4. CASE AskFiletype(t) \/ Judge(t) \/ GetLines(t) \/ Update(t) \/ Updated(t) \/ ClearHighlight(t) \/ WorkerEnter(t) \/ WorkerHighlight(t)
  BY <1>4 DEF AskFiletype, Judge, GetLines, Update, Updated, ClearHighlight, WorkerEnter, WorkerHighlight, registry
<1>5. CASE Attach(t) \/ End(t) \/ OpenNode(t) \/ FreeNode(t)
  BY <1>5 DEF Attach, End, OpenNode, FreeNode, Stray, registry
<1>6. CASE MakeBuffer(t) \/ Initialize(t) \/ ShutDoor(t) \/ FreeBuffer(t) \/ WorkerCountIn(t) \/ WorkerCountOut(t)
  BY <1>6 DEF MakeBuffer, Initialize, ShutDoor, FreeBuffer, WorkerCountIn, WorkerCountOut
<1>7. QED
  BY <1>2, <1>3, <1>4, <1>5, <1>6 DEF ThreadStep

(* Who holds the list on the way to a node that is being opened does nothing *)
(* but, perhaps, go astray.                                                *)
LEMMA HolderStuck ==
  ASSUME NEW t \in Threads, ThreadStep(t), list_lock = t, NEW n, Seeks(t, n), Blocked(n), t # None
  PROVE  UNCHANGED <<list, list_lock, nodes, th>>
<1>1. ~ Walk(t, n)
  BY DEF Walk
<1>2. CASE UseFreed(t) \/ UsePrevious(t) \/ CannotLook(t)
  BY <1>2 DEF UseFreed, UsePrevious, CannotLook, CannotWalk, Stray, registry
<1>3. ~ Look(t) /\ ~ FindPrevious(t) /\ ~ FindNode(t) /\ ~ CloseNode(t)
  BY <1>1 DEF Look, Looking, FindPrevious, FindNode, Opening, OpeningNum, CloseNode, Use, At, Seeks, Looks
<1>4. th[t].pc \in Looks \cup {"previous", "init", "find", "unlist"}
  BY DEF Seeks
<1>5. ~ Begin(t) /\ ~ Suspend(t) /\ ~ OpenNode(t) /\ ~ MakeBuffer(t) /\ ~ AppendNode(t) /\ ~ FreeNode(t) /\ ~ End(t)
  BY <1>4 DEF Begin, Suspend, OpenNode, MakeBuffer, AppendNode, FreeNode, End, At, Looks
<1>6. ~ AskFiletype(t) /\ ~ Judge(t) /\ ~ Attach(t) /\ ~ GetLines(t) /\ ~ Initialize(t) /\ ~ Update(t) /\ ~ Updated(t)
  BY <1>4 DEF AskFiletype, Judge, Attach, GetLines, Initialize, Update, Updated, Use, At, Looks
<1>7. /\ ~ ClearHighlight(t) /\ ~ ShutDoor(t) /\ ~ FreeBuffer(t)
      /\ ~ WorkerEnter(t) /\ ~ WorkerCountIn(t) /\ ~ WorkerHighlight(t) /\ ~ WorkerCountOut(t)
  BY <1>4 DEF ClearHighlight, ShutDoor, FreeBuffer, WorkerEnter, WorkerCountIn, WorkerHighlight, WorkerCountOut, Use, At, Looks
<1>8. QED
  BY <1>2, <1>3, <1>5, <1>6, <1>7 DEF ThreadStep

-----------------------------------------------------------------------------
(* The registry: what a thread's step changes of it.                       *)
LEMMA NodeFields ==
  ASSUME TypeInv, NEW t \in Threads, ThreadStep(t), NEW k \in 1 .. Len(nodes)
  PROVE  /\ \/ nodes'[k].alive = nodes[k].alive
            \/ k = th[t].node /\ (FreeNode(t) \/ FreeBuffer(t))
         /\ \/ nodes'[k].isopen = nodes[k].isopen /\ nodes'[k].bdata = nodes[k].bdata
            \/ /\ OpenNode(t) /\ k = th[t].node
               /\ ~ nodes[k].isopen /\ nodes'[k].isopen /\ nodes'[k].bdata = nodes[k].bdata
               /\ nodes'[k].writer = t
            \/ /\ MakeBuffer(t) /\ k = th[t].node /\ th[t].ans \in Known
               /\ nodes'[k].bdata = Len(bufs) + 1 /\ nodes'[k].isopen = nodes[k].isopen
            \/ CloseNode(t) /\ k = find_buffer_node(th[t].num) /\ ~ nodes'[k].isopen /\ nodes'[k].bdata = 0
<1>1. nodes[k] \in NodeRecs(Len(bufs))
  BY NodeTypes DEF TypeInv
<1>2. /\ [nodes[k] EXCEPT !.isopen = TRUE, !.writer = t].alive = nodes[k].alive
      /\ [nodes[k] EXCEPT !.isopen = TRUE, !.writer = t].isopen = TRUE
      /\ [nodes[k] EXCEPT !.isopen = TRUE, !.writer = t].writer = t
      /\ [nodes[k] EXCEPT !.isopen = TRUE, !.writer = t].bdata = nodes[k].bdata
      /\ [nodes[k] EXCEPT !.isopen = FALSE, !.bdata = 0].alive = nodes[k].alive
      /\ [nodes[k] EXCEPT !.isopen = FALSE, !.bdata = 0].isopen = FALSE
      /\ [nodes[k] EXCEPT !.isopen = FALSE, !.bdata = 0].bdata = 0
      /\ [nodes[k] EXCEPT !.alive = FALSE].isopen = nodes[k].isopen
      /\ [nodes[k] EXCEPT !.alive = FALSE].bdata = nodes[k].bdata
      /\ \A b : /\ [nodes[k] EXCEPT !.writer = None, !.bdata = b].alive = nodes[k].alive
                /\ [nodes[k] EXCEPT !.writer = None, !.bdata = b].isopen = nodes[k].isopen
                /\ [nodes[k] EXCEPT !.writer = None, !.bdata = b].bdata = b
  BY <1>1 DEF NodeRecs
<1>3. CASE FindNode(t)
  <2>1. k \in 1 .. Len(nodes)' /\ k <= Len(nodes)
    <3>1. Len(nodes) <= Len(nodes)' /\ Len(nodes) \in Nat /\ Len(nodes)' \in Nat
      BY <1>3, FoundOrMade, RegistryTypes DEF TypeInv
    <3>2. QED
      BY <3>1
  <2>2. nodes'[k] = nodes[k]
    BY <1>3, <2>1, FoundOrMade
  <2>3. QED
    BY <2>2
<1>4. CASE OpenNode(t) /\ nodes' # nodes
  <2>1. /\ nodes[th[t].node].alive /\ ~ nodes[th[t].node].isopen
    BY <1>4 DEF OpenNode, Stray, registry
  <2>2. nodes'[k] = IF k = th[t].node THEN [nodes[k] EXCEPT !.isopen = TRUE, !.writer = t] ELSE nodes[k]
    BY <1>4, <2>1, NodesOpened DEF NodesBecome
  <2>3. QED
    BY <1>2, <1>4, <2>1, <2>2
<1>5. CASE MakeBuffer(t)
  <2> DEFINE b == IF th[t].ans \in Known THEN Len(bufs) + 1 ELSE nodes[th[t].node].bdata
  <2>1. nodes'[k] = IF k = th[t].node THEN [nodes[th[t].node] EXCEPT !.writer = None, !.bdata = b] ELSE nodes[k]
    BY <1>5, Made DEF NodesBecome
  <2> HIDE DEF b
  <2>2. k = th[t].node => nodes'[k].alive = nodes[k].alive /\ nodes'[k].isopen = nodes[k].isopen /\ nodes'[k].bdata = b
    BY <1>2, <2>1
  <2>3. k # th[t].node => nodes'[k] = nodes[k]
    BY <2>1
  <2>4. QED
    BY <1>5, <2>2, <2>3 DEF b
<1>6. CASE FreeNode(t) /\ nodes' # nodes
  <2>1. nodes'[k] = IF k = th[t].node THEN [nodes[k] EXCEPT !.alive = FALSE] ELSE nodes[k]
    BY <1>6, OwnFreeNode DEF NodesBecome
  <2>2. QED
    BY <1>2, <1>6, <2>1
<1>7. CASE CloseNode(t)
  <2>1. nodes'[k] = IF k = find_buffer_node(th[t].num) THEN [nodes[k] EXCEPT !.isopen = FALSE, !.bdata = 0] ELSE nodes[k]
    BY <1>7, NodeClosed DEF NodesBecome
  <2>2. QED
    BY <1>2, <1>7, <2>1
<1>8. CASE FreeBuffer(t) /\ nodes' # nodes
  <2>1. nodes'[k] = IF k = th[t].node THEN [nodes[k] EXCEPT !.alive = FALSE] ELSE nodes[k]
    BY <1>8, NodeFreed DEF NodesBecome
  <2>2. QED
    BY <1>2, <1>8, <2>1
<1>9. CASE UNCHANGED nodes
  BY <1>9
<1>10. QED
  BY <1>3, <1>4, <1>5, <1>6, <1>7, <1>8, <1>9, NodesUnchanged

LEMMA BufsUnchanged ==
  ASSUME TypeInv, NEW t \in Threads, ThreadStep(t)
  PROVE  \/ bufs' = bufs \/ MakeBuffer(t) \/ Initialize(t) \/ ShutDoor(t) \/ FreeBuffer(t)
         \/ WorkerCountIn(t) \/ WorkerCountOut(t)
<1>1. CASE UseFreed(t) \/ UsePrevious(t) \/ Begin(t) \/ CannotLook(t)
  BY <1>1 DEF UseFreed, UsePrevious, Begin, CannotLook, CannotWalk, Stray, registry
<1>2. CASE Look(t) \/ FindPrevious(t) \/ Suspend(t) \/ FindNode(t) \/ CloseNode(t)
  BY <1>2 DEF Look, FindPrevious, Suspend, FindNode, CloseNode, registry
<1>3. CASE \/ AskFiletype(t) \/ Judge(t) \/ AppendNode(t) \/ Attach(t) \/ GetLines(t)
           \/ Update(t) \/ Updated(t) \/ End(t) \/ ClearHighlight(t) \/ WorkerEnter(t)
  BY <1>3, OwnPlainStep
<1>4. CASE OpenNode(t) \/ FreeNode(t)
  BY <1>4 DEF OpenNode, FreeNode, Stray, registry
<1>5. CASE WorkerHighlight(t)
  BY <1>5, OwnHighlight
<1>6. QED
  BY <1>1, <1>2, <1>3, <1>4, <1>5 DEF ThreadStep

LEMMA BufFields ==
  ASSUME TypeInv, NEW t \in Threads, ThreadStep(t), NEW b \in 1 .. Len(bufs)
  PROVE  /\ b \in 1 .. Len(bufs') /\ bufs'[b].num = bufs[b].num /\ bufs'[b].ft = bufs[b].ft
         /\ bufs'[b].alive = bufs[b].alive \/ (FreeBuffer(t) /\ b = th[t].buf)
         /\ \/ bufs'[b].initialized = bufs[b].initialized
            \/ Initialize(t) /\ b = th[t].buf /\ bufs'[b].initialized
            \/ ShutDoor(t) /\ b = th[t].buf
<1>1. bufs[b] \in BufRecs /\ Len(bufs) \in Nat /\ Len(bufs') \in Nat /\ Len(bufs) <= Len(bufs')
  BY BufTypes, RegistryTypes, ThreadAllocs DEF TypeInv
<1>2. b \in 1 .. Len(bufs')
  BY <1>1
<1>3. ASSUME NEW r, BufsBecome(th[t].buf, r) PROVE bufs'[b] = IF b = th[t].buf THEN r ELSE bufs[b]
  BY <1>3 DEF BufsBecome
<1>4. /\ [bufs[b] EXCEPT !.initialized = TRUE].num = bufs[b].num /\ [bufs[b] EXCEPT !.initialized = TRUE].ft = bufs[b].ft
      /\ [bufs[b] EXCEPT !.initialized = TRUE].alive = bufs[b].alive
      /\ [bufs[b] EXCEPT !.initialized = TRUE].initialized = TRUE
      /\ [bufs[b] EXCEPT !.initialized = FALSE].num = bufs[b].num /\ [bufs[b] EXCEPT !.initialized = FALSE].ft = bufs[b].ft
      /\ [bufs[b] EXCEPT !.initialized = FALSE].alive = bufs[b].alive
      /\ [bufs[b] EXCEPT !.alive = FALSE].num = bufs[b].num /\ [bufs[b] EXCEPT !.alive = FALSE].ft = bufs[b].ft
      /\ [bufs[b] EXCEPT !.alive = FALSE].initialized = bufs[b].initialized
      /\ \A w : /\ [bufs[b] EXCEPT !.workers = w].num = bufs[b].num /\ [bufs[b] EXCEPT !.workers = w].ft = bufs[b].ft
                /\ [bufs[b] EXCEPT !.workers = w].alive = bufs[b].alive
                /\ [bufs[b] EXCEPT !.workers = w].initialized = bufs[b].initialized
  BY <1>1 DEF BufRecs
<1>5. CASE MakeBuffer(t)
  <2>1. b <= Len(bufs) /\ b \in 1 .. Len(bufs)'
    BY <1>1, <1>2
  <2>2. bufs'[b] = bufs[b]
    BY <1>5, <2>1, Made
  <2>3. QED
    BY <1>2, <2>2
<1>6. CASE Initialize(t)
  <2>1. bufs'[b] = IF b = th[t].buf THEN [bufs[b] EXCEPT !.initialized = TRUE] ELSE bufs[b]
    BY <1>6, BufsChanged DEF BufsBecome
  <2>2. QED
    BY <1>2, <1>4, <1>6, <2>1
<1>7. CASE ShutDoor(t)
  <2>1. bufs'[b] = IF b = th[t].buf THEN [bufs[b] EXCEPT !.initialized = FALSE] ELSE bufs[b]
    BY <1>7, BufsChanged DEF BufsBecome
  <2>2. QED
    BY <1>2, <1>4, <1>7, <2>1
<1>8. CASE FreeBuffer(t)
  <2>1. bufs'[b] = IF b = th[t].buf THEN [bufs[b] EXCEPT !.alive = FALSE] ELSE bufs[b]
    BY <1>8, BufsChanged DEF BufsBecome
  <2>2. QED
    BY <1>2, <1>4, <1>8, <2>1
<1>9. CASE WorkerCountIn(t)
  <2>1. bufs'[b] = IF b = th[t].buf THEN [bufs[b] EXCEPT !.workers = @ + 1] ELSE bufs[b]
    BY <1>9, BufsChanged DEF BufsBecome
  <2>2. QED
    BY <1>2, <1>4, <2>1
<1>10. CASE WorkerCountOut(t)
  <2>1. bufs'[b] = IF b = th[t].buf THEN [bufs[b] EXCEPT !.workers = @ - 1] ELSE bufs[b]
    BY <1>10, BufsChanged DEF BufsBecome
  <2>2. QED
    BY <1>2, <1>4, <2>1
<1>11. CASE bufs' = bufs
  BY <1>2, <1>11
<1>12. QED
  BY <1>5, <1>6, <1>7, <1>8, <1>9, <1>10, <1>11, BufsUnchanged

-----------------------------------------------------------------------------
(* The three circles.                                                      *)
(* The event loop needs the list.                                          *)
LEMMA ListWedgeStep ==
  ASSUME TypeInv, WriterInv, Next, ListWedge
  PROVE  ListWedge'
<1> DEFINE h == list_lock
<1>1. PICK n \in Nums \cup {None} :
        /\ IF list_lock = Loop THEN n = loop.num ELSE Seeks(list_lock, n)
        /\ \E i \in Visited(n) : nodes[list[i]].writer # None /\ th[nodes[list[i]].writer].waiting
  BY DEF ListWedge
<1>2. PICK i \in Visited(n) : nodes[list[i]].writer # None /\ th[nodes[list[i]].writer].waiting
  BY <1>1
<1>3. loop.pc # "read" /\ loop.node = 0 /\ list_lock # None /\ list_lock \in Threads \cup {Loop}
  BY LoopIs DEF ListWedge
<1>4. i \in 1 .. Len(list) /\ list[i] \in 1 .. Len(nodes)
  <2>1. Len(list) \in Nat
    BY RegistryTypes DEF TypeInv
  <2>2. Positions(n) # {} => FirstAt(n) \in 1 .. Len(list)
    BY FoundNode DEF TypeInv, Positions
  <2>3. i \in 1 .. Len(list)
    BY <2>1, <2>2 DEF Visited
  <2>4. QED
    BY <2>3, ListTypes DEF TypeInv
<1>5. PICK k : k = list[i]
  OBVIOUS
<1>6. PICK w : w = nodes[k].writer
  OBVIOUS
<1>7. k \in 1 .. Len(nodes) /\ w # None /\ w \in Threads /\ th[w].waiting /\ th[w].pc = "make" /\ th[w].node = k
  BY <1>2, <1>4, <1>5, <1>6, NodeTypes DEF TypeInv, WriterInv
<1>8. Blocked(n)
  BY <1>2 DEF Blocked
<1>9. ASSUME UNCHANGED <<loop, list, list_lock>>,
             list_lock \in Threads => th'[list_lock] = th[list_lock],
             th'[w] = th[w], nodes'[k].writer = w,
             \A j \in 1 .. Len(nodes) : nodes'[j].num = nodes[j].num
      PROVE  ListWedge'
  <2>1. \A j \in 1 .. Len(list) : nodes'[list[j]].num = nodes[list[j]].num
    BY <1>9, ListTypes DEF TypeInv
  <2>2. Positions(n)' = Positions(n)
    BY <1>9, <2>1 DEF Positions
  <2>3. Visited(n)' = Visited(n)
    BY <1>9, <2>2 DEF Visited, FirstAt
  <2>4. i \in Visited(n)' /\ list'[i] = k
    BY <1>5, <1>9, <2>3
  <2>5. nodes'[list'[i]].writer # None /\ th'[nodes'[list'[i]].writer].waiting
    BY <1>7, <1>9, <2>4
  <2>6. IF list_lock' = Loop THEN n = loop'.num ELSE Seeks(list_lock, n)'
    BY <1>1, <1>3, <1>9 DEF Seeks
  <2>7. loop'.pc # "read" /\ loop'.node = 0 /\ list_lock' # None
    BY <1>3, <1>9
  <2>8. QED
    BY <2>4, <2>5, <2>6, <2>7 DEF ListWedge
<1>10. ASSUME UNCHANGED <<loop, list, list_lock, nodes, th>> PROVE ListWedge'
  BY <1>6, <1>9, <1>10
<1>11. CASE NvimStep
  <2>1. UNCHANGED <<loop, list, list_lock, nodes, th>>
    BY <1>11 DEF NvimStep, EnterBuffer, EditBuffer, UnloadBuffer, SetFiletype, UserUpdate, Command, Announce, registry
  <2>2. QED
    BY <1>10, <2>1
<1>12. CASE LoopStep
  <2>1. ~ ReadReply /\ ~ ReadCommand /\ ~ ReadEvent /\ ~ LoopReadNode /\ ~ LoopHandle
    BY <1>3 DEF ReadReply, ReadCommand, ReadEvent, LoopReadNode, LoopHandle, Read, TypeInv, LoopSound
  <2>2. CASE LoopCannotFind
    BY <1>3, <1>10, <2>2 DEF LoopCannotFind, CannotWalk, Stray, registry
  <2>3. CASE LoopFind
    BY <1>1, <1>3, <1>8, <2>3 DEF LoopFind, Walk
  <2>4. QED
    BY <1>12, <2>1, <2>2, <2>3 DEF LoopStep
<1>13. ASSUME NEW t \in Threads, ThreadStep(t)
       PROVE  ListWedge'
  <2>1. t # w
    BY <1>7, <1>13, NotWaiting
  <2>2. t # None /\ Loop \notin Threads
    BY RegistryAssumption DEF Threads, Loop
  <2>3. CASE list_lock = t
    <3>1. Seeks(t, n)
      BY <1>1, <2>2, <2>3
    <3>2. UNCHANGED <<list, list_lock, nodes, th>>
      BY <1>8, <1>13, <2>2, <2>3, <3>1, HolderStuck
    <3>3. QED
      BY <1>10, <1>13, <3>2, OthersStay
  <2>4. CASE list_lock # t
    <3>1. UNCHANGED <<list, list_lock, loop>>
      BY <1>3, <1>13, <2>4, LockedOut, OthersStay
    <3>2. \A u \in Threads : u # t => th'[u] = th[u]
      BY <1>13, OthersStay
    <3>3. \A j \in 1 .. Len(nodes) : nodes'[j].num = nodes[j].num
      BY <1>13, NodeStep
    <3>4. nodes'[k].writer = w
      <4>1. CASE k = th[t].node /\ MakeBuffer(t)
        <5>1. nodes[k].writer = t
          BY <4>1 DEF WriterInv, MakeBuffer, At
        <5>2. QED
          BY <1>6, <2>1, <5>1
      <4>2. QED
        BY <1>6, <1>7, <1>13, <4>1, NodeStep
    <3>5. QED
      BY <1>7, <1>9, <2>1, <2>4, <3>1, <3>2, <3>3, <3>4
  <2>5. QED
    BY <2>3, <2>4
<1>14. QED
  BY <1>11, <1>12, <1>13 DEF Next

(* It needs the node it found.                                             *)
LEMMA NodeWedgeStep ==
  ASSUME TypeInv, WriterInv, Next, NodeWedge
  PROVE  NodeWedge'
<1>1. PICK k, w : k = loop.node /\ w = nodes[k].writer
  OBVIOUS
<1>2. k # 0 /\ loop.buf = 0 /\ w # None /\ th[w].waiting
  BY <1>1 DEF NodeWedge
<1>3. k \in 1 .. Len(nodes) /\ w \in Threads
  <2>1. k \in 1 .. Len(nodes)
    BY <1>1, <1>2, LoopIs, RegistryTypes DEF TypeInv
  <2>2. QED
    BY <1>1, <1>2, <2>1, NodeTypes DEF TypeInv
<1>4. loop.pc # "read"
  BY <1>1, <1>2 DEF TypeInv, LoopSound
<1>5. ASSUME loop' = loop, th'[w] = th[w], nodes'[k].writer = w PROVE NodeWedge'
  BY <1>1, <1>2, <1>5 DEF NodeWedge
<1>6. ASSUME UNCHANGED <<loop, nodes, th>> PROVE NodeWedge'
  BY <1>1, <1>5, <1>6
<1>7. CASE NvimStep
  <2>1. UNCHANGED <<loop, nodes, th>>
    BY <1>7 DEF NvimStep, EnterBuffer, EditBuffer, UnloadBuffer, SetFiletype, UserUpdate, Command, Announce, registry
  <2>2. QED
    BY <1>6, <2>1
<1>8. CASE LoopStep
  <2>1. ~ ReadReply /\ ~ ReadCommand /\ ~ ReadEvent
    BY <1>4 DEF ReadReply, ReadCommand, ReadEvent, Read
  <2>2. ~ LoopCannotFind /\ ~ LoopFind /\ ~ LoopHandle
    BY <1>1, <1>2 DEF LoopCannotFind, LoopFind, LoopHandle
  <2>3. LoopReadNode => UNCHANGED <<loop, nodes, th>>
    BY <1>1, <1>2 DEF LoopReadNode, Stray, registry
  <2>4. QED
    BY <1>6, <1>8, <2>1, <2>2, <2>3 DEF LoopStep
<1>9. ASSUME NEW t \in Threads, ThreadStep(t)
      PROVE  NodeWedge'
  <2>1. t # w
    BY <1>2, <1>9, NotWaiting
  <2>2. th'[w] = th[w] /\ loop' = loop
    BY <1>3, <1>9, <2>1, OthersStay
  <2>3. nodes'[k].writer = w
    <3>1. ~ (k = th[t].node /\ MakeBuffer(t))
      BY <1>1, <1>2, <2>1 DEF WriterInv, MakeBuffer, At
    <3>2. QED
      BY <1>1, <1>2, <1>3, <1>9, <3>1, NodeStep
  <2>4. QED
    BY <1>5, <2>2, <2>3
<1>10. QED
  BY <1>7, <1>8, <1>9 DEF Next

(* It needs lock.total.                                                    *)
LEMMA TotalWedgeStep ==
  ASSUME TypeInv, Next, TotalWedge
  PROVE  TotalWedge'
<1>1. PICK b, u : b = loop.buf /\ u \in Threads /\ th[u].buf = b /\ HasTotal(u) /\ th[u].waiting
  BY DEF TotalWedge
<1>2. loop.pc = "lines" /\ b # 0
  BY <1>1 DEF TotalWedge
<1>3. b \in 1 .. Len(bufs) /\ loop.node # 0
  BY <1>1, <1>2, LoopIs DEF TypeInv, LoopSound
<1>4. ASSUME loop' = loop, th'[u] = th[u], bufs'[b].ft = bufs[b].ft PROVE TotalWedge'
  <2>1. HasTotal(u)'
    BY <1>1, <1>4 DEF HasTotal
  <2>2. QED
    BY <1>1, <1>2, <1>4, <2>1 DEF TotalWedge
<1>5. ASSUME UNCHANGED <<loop, bufs, th>> PROVE TotalWedge'
  BY <1>4, <1>5
<1>6. CASE NvimStep
  <2>1. UNCHANGED <<loop, bufs, th>>
    BY <1>6 DEF NvimStep, EnterBuffer, EditBuffer, UnloadBuffer, SetFiletype, UserUpdate, Command, Announce, registry
  <2>2. QED
    BY <1>5, <2>1
<1>7. CASE LoopStep
  <2>1. ~ ReadReply /\ ~ ReadCommand /\ ~ ReadEvent
    BY <1>2 DEF ReadReply, ReadCommand, ReadEvent, Read
  <2>2. ~ LoopCannotFind /\ ~ LoopFind /\ ~ LoopReadNode
    BY <1>1, <1>2, <1>3 DEF LoopCannotFind, LoopFind, LoopReadNode
  <2>3. LoopHandle => UNCHANGED <<loop, bufs, th>>
    <3>1. Locked(b)
      BY <1>1 DEF Locked
    <3>2. QED
      BY <1>1, <1>2, <3>1 DEF LoopHandle, Stray, registry
  <2>4. QED
    BY <1>5, <1>7, <2>1, <2>2, <2>3 DEF LoopStep
<1>8. ASSUME NEW t \in Threads, ThreadStep(t)
      PROVE  TotalWedge'
  <2>1. t # u
    BY <1>1, <1>8, NotWaiting
  <2>2. th'[u] = th[u] /\ loop' = loop
    BY <1>1, <1>8, <2>1, OthersStay
  <2>3. bufs'[b].ft = bufs[b].ft
    BY <1>3, <1>8, BufFields
  <2>4. QED
    BY <1>4, <2>2, <2>3
<1>9. QED
  BY <1>6, <1>7, <1>8 DEF Next

LEMMA WedgedStep == TypeInv /\ WriterInv /\ Next /\ Wedged => Wedged'
  BY ListWedgeStep, NodeWedgeStep, TotalWedgeStep DEF Wedged

(* Whoever waits in one of these circles waits for ever: the event loop for *)
(* the list, for the node it found or for lock.total, and their owner for  *)
(* an answer the event loop would have to read.  For any number of buffers *)
(* and threads, and whatever else they do.                                 *)
THEOREM DeadlockStays == Spec => WedgedForever
<1>1. TypeInv /\ WriterInv /\ [Next]_vars => [Wedged => Wedged']_vars
  BY WedgedStep
<1>2. QED
  BY <1>1, TypeAlways, WriterAlways, PTL DEF Spec, WedgedForever

-----------------------------------------------------------------------------
(* Threads: where their steps lead, and what they keep.                    *)
Keeps(t) == /\ th'[t].num = th[t].num /\ th'[t].node = th[t].node
            /\ th'[t].buf = th[t].buf /\ th'[t].prev = th[t].prev

Goes1(t, p, q) == th[t].pc = p /\ th'[t].pc = q /\ Keeps(t)

LEMMA Going ==
  ASSUME TypeInv, NEW t \in Threads, NEW p, Goto(t, p) \/ \E a : Call(t, p, a)
  PROVE  th'[t].pc = p /\ Keeps(t)
<1>1. th \in [Threads -> ThRecs(Len(nodes), Len(bufs))] /\ th[t] \in ThRecs(Len(nodes), Len(bufs))
  BY ThreadTypes DEF TypeInv
<1>2. CASE Goto(t, p)
  <2>1. th' = [th EXCEPT ![t] = [th[t] EXCEPT !.pc = p]]
    BY <1>1, <1>2 DEF Goto
  <2>2. QED
    BY <1>1, <2>1 DEF Keeps, ThRecs
<1>3. CASE \E a : Call(t, p, a)
  <2>1. PICK a : Call(t, p, a)
    BY <1>3
  <2>2. th' = [th EXCEPT ![t] = [th[t] EXCEPT !.pc = p, !.waiting = TRUE, !.ans = a]]
    BY <1>1, <2>1 DEF Call
  <2>3. QED
    BY <1>1, <2>2 DEF Keeps, ThRecs
<1>4. QED
  BY <1>2, <1>3

(* Every step of a thread is one of these.                                 *)
Simply(t) ==
  \/ Begin(t) /\ Goes1(t, "start", "init") /\ UNCHANGED autocmd_mutex
  \/ Begin(t) /\ Goes1(t, "lock", th[t].kind) /\ autocmd_mutex = None /\ autocmd_mutex' = t
  \/ AskFiletype(t) /\ Goes1(t, "compare", "judge")
  \/ Judge(t) /\ \E q \in {"end", "clear"} : Goes1(t, "judge", q)
  \/ Attach(t) /\ Goes1(t, "attach", "lines")
  \/ GetLines(t) /\ Goes1(t, "lines", "got_lines")
  \/ Update(t) /\ Goes1(t, "update", "updated")
  \/ Updated(t) /\ Goes1(t, "updated", "end")
  \/ End(t) /\ Goes1(t, "end", "gone")
  \/ ClearHighlight(t) /\ Goes1(t, "clear", IF th[t].node = 0 THEN "unlist" ELSE "drain")
  \/ WorkerEnter(t) /\ \E q \in {"work", "end"} : Goes1(t, "enter", q)
  \/ WorkerHighlight(t) /\ Goes1(t, "join", "leave")

Changes(t) ==
  \/ OpenNode(t) /\ \E q \in {"make", "failed"} : Goes1(t, "open", q)
  \/ AppendNode(t) /\ Goes1(t, "append", "attach")
  \/ FreeNode(t) /\ nodes[th[t].node].bdata = 0 /\ Goes1(t, "failed", "end")
  \/ Initialize(t) /\ Goes1(t, "got_lines", "update")
  \/ CloseNode(t) /\ Goes1(t, "unlist", "drain")
  \/ ShutDoor(t) /\ Goes1(t, "drain", "free")
  \/ FreeBuffer(t) /\ Goes1(t, "free", IF th[t].kind = "syntax" /\ th[t].node = 0 THEN "find" ELSE "end")
  \/ WorkerCountIn(t) /\ Goes1(t, "work", "join")
  \/ WorkerCountOut(t) /\ Goes1(t, "leave", "end")

Finds(t) ==
  \/ Look(t) /\ th[t].pc \in Looks
  \/ FindPrevious(t) /\ th[t].pc = "previous"
  \/ Suspend(t) /\ th[t].pc = "suspend"
  \/ FindNode(t) /\ th[t].pc \in {"init", "find"}
  \/ MakeBuffer(t) /\ th[t].pc = "make"
  \/ FreeNode(t) /\ th[t].pc = "failed" /\ nodes[th[t].node].bdata # 0

LEMMA Moves ==
  ASSUME TypeInv, NEW t \in Threads, ThreadStep(t)
  PROVE  \/ th' = th /\ UNCHANGED <<nodes, list, bufs, autocmd_mutex, attached, closed, wire>>
         \/ Simply(t) /\ UNCHANGED <<nodes, list, bufs, closed>>
         \/ Changes(t)
         \/ Finds(t)
<1>1. CASE UseFreed(t) \/ UsePrevious(t) \/ CannotLook(t)
  BY <1>1 DEF UseFreed, UsePrevious, CannotLook, CannotWalk, Stray, registry, nvim, history
<1>2. CASE Begin(t)
  <2>1. UNCHANGED <<nodes, list, bufs, closed>>
    BY <1>2 DEF Begin, registry, history
  <2>2. CASE At(t, "start") /\ Call(t, "init", current) /\ UNCHANGED autocmd_mutex
    BY <1>2, <2>1, <2>2, Going DEF Goes1, At, Simply
  <2>3. CASE At(t, "lock") /\ autocmd_mutex = None /\ autocmd_mutex' = t /\ Call(t, th[t].kind, current)
    BY <1>2, <2>1, <2>3, Going DEF Goes1, At, Simply
  <2>4. QED
    BY <1>2, <2>2, <2>3 DEF Begin
<1>3. CASE AskFiletype(t) \/ Judge(t) \/ Attach(t) \/ GetLines(t) \/ Update(t) \/ Updated(t)
  <2>1. UNCHANGED <<nodes, list, bufs, closed>>
    BY <1>3 DEF AskFiletype, Judge, Attach, GetLines, Update, Updated, registry, history
  <2>2. AskFiletype(t) => Goes1(t, "compare", "judge")
    BY Going DEF AskFiletype, Use, At, Goes1
  <2>3. Judge(t) => \E q \in {"end", "clear"} : Goes1(t, "judge", q)
    BY Going DEF Judge, Use, At, Goes1
  <2>4. Attach(t) => Goes1(t, "attach", "lines")
    BY Going DEF Attach, Use, At, Goes1
  <2>5. GetLines(t) => Goes1(t, "lines", "got_lines")
    BY Going DEF GetLines, Use, At, Goes1
  <2>6. Update(t) => Goes1(t, "update", "updated")
    BY Going DEF Update, Use, At, Goes1
  <2>7. Updated(t) => Goes1(t, "updated", "end")
    BY Going DEF Updated, Use, At, Goes1
  <2>8. QED
    BY <1>3, <2>1, <2>2, <2>3, <2>4, <2>5, <2>6, <2>7 DEF Simply
<1>4. CASE End(t) \/ ClearHighlight(t) \/ WorkerEnter(t) \/ WorkerHighlight(t)
  <2>1. UNCHANGED <<nodes, list, bufs, closed>>
    BY <1>4 DEF End, ClearHighlight, WorkerEnter, WorkerHighlight, registry, history
  <2>2. End(t) => Goes1(t, "end", "gone")
    BY Going DEF End, At, Goes1
  <2>3. ClearHighlight(t) => Goes1(t, "clear", IF th[t].node = 0 THEN "unlist" ELSE "drain")
    BY Going DEF ClearHighlight, Use, At, Goes1
  <2>4. WorkerEnter(t) => \E q \in {"work", "end"} : Goes1(t, "enter", q)
    BY Going DEF WorkerEnter, Use, At, Goes1
  <2>5. WorkerHighlight(t) => Goes1(t, "join", "leave")
    BY Going DEF WorkerHighlight, Use, At, Goes1
  <2>6. QED
    BY <1>4, <2>1, <2>2, <2>3, <2>4, <2>5 DEF Simply
<1>5. CASE OpenNode(t)
  <2>1. CASE ~ nodes[th[t].node].alive
    BY <1>5, <2>1 DEF OpenNode, Stray, registry, nvim
  <2>2. CASE nodes[th[t].node].alive
    BY <1>5, <2>2, Going DEF OpenNode, At, Goes1, Changes
  <2>3. QED
    BY <2>1, <2>2
<1>6. CASE FreeNode(t)
  <2>1. CASE ~ nodes[th[t].node].alive
    BY <1>6, <2>1 DEF FreeNode, Stray, registry, nvim
  <2>2. CASE nodes[th[t].node].alive /\ nodes[th[t].node].bdata = 0
    BY <1>6, <2>2, Going DEF FreeNode, At, Goes1, Changes
  <2>3. CASE nodes[th[t].node].bdata # 0
    BY <1>6, <2>3 DEF FreeNode, At, Finds
  <2>4. QED
    BY <2>1, <2>2, <2>3
<1>7. CASE AppendNode(t) \/ Initialize(t) \/ CloseNode(t)
  <2>1. AppendNode(t) => Goes1(t, "append", "attach")
    BY Going DEF AppendNode, At, Goes1
  <2>2. Initialize(t) => Goes1(t, "got_lines", "update")
    BY Going DEF Initialize, Use, At, Goes1
  <2>3. CloseNode(t) => Goes1(t, "unlist", "drain")
    BY Going DEF CloseNode, Use, At, Goes1
  <2>4. QED
    BY <1>7, <2>1, <2>2, <2>3 DEF Changes
<1>8. CASE ShutDoor(t) \/ FreeBuffer(t) \/ WorkerCountIn(t) \/ WorkerCountOut(t)
  <2>1. ShutDoor(t) => Goes1(t, "drain", "free")
    BY Going DEF ShutDoor, Use, At, Goes1
  <2>2. FreeBuffer(t) => Goes1(t, "free", IF th[t].kind = "syntax" /\ th[t].node = 0 THEN "find" ELSE "end")
    BY Going DEF FreeBuffer, Use, At, Goes1
  <2>3. WorkerCountIn(t) => Goes1(t, "work", "join")
    BY Going DEF WorkerCountIn, Use, At, Goes1
  <2>4. WorkerCountOut(t) => Goes1(t, "leave", "end")
    BY Going DEF WorkerCountOut, Use, At, Goes1
  <2>5. QED
    BY <1>8, <2>1, <2>2, <2>3, <2>4 DEF Changes
<1>9. CASE Look(t) \/ FindPrevious(t) \/ Suspend(t) \/ FindNode(t) \/ MakeBuffer(t)
  <2>1. Look(t) => th[t].pc \in Looks
    BY DEF Look, Looking, At
  <2>2. FindPrevious(t) => th[t].pc = "previous"
    BY DEF FindPrevious, At
  <2>3. Suspend(t) => th[t].pc = "suspend"
    BY DEF Suspend, At
  <2>4. FindNode(t) => th[t].pc \in {"init", "find"}
    BY DEF FindNode, Opening, At
  <2>5. MakeBuffer(t) => th[t].pc = "make"
    BY DEF MakeBuffer, At
  <2>6. QED
    BY <1>9, <2>1, <2>2, <2>3, <2>4, <2>5 DEF Finds
<1>10. QED
  BY <1>1, <1>2, <1>3, <1>4, <1>5, <1>6, <1>7, <1>8, <1>9 DEF ThreadStep

(* What the steps that find or make something leave in their thread.       *)
LookIs(t) == /\ th'[t].pc = LooksTo(t)
             /\ th'[t].num = th[t].ans /\ th'[t].buf = find_buffer(th[t].ans)
             /\ th'[t].node = th[t].node /\ th'[t].prev = th[t].prev
PreviousIs(t) == /\ th'[t].pc = "suspend" /\ th'[t].prev = find_buffer(th[t].ans)
                 /\ th'[t].num = th[t].num /\ th'[t].buf = th[t].buf /\ th'[t].node = th[t].node
SuspendIs(t) == /\ th'[t].pc = IF th[t].buf # 0 /\ bufs[th[t].buf].initialized THEN "update" ELSE "find"
                /\ th'[t].prev = 0
                /\ th'[t].num = th[t].num /\ th'[t].buf = th[t].buf /\ th'[t].node = th[t].node
NodeIs(t) == /\ th'[t].pc = "open" /\ th'[t].num = OpeningNum(t) /\ th'[t].buf = 0
             /\ th'[t].node = IF find_buffer_node(OpeningNum(t)) # 0 THEN find_buffer_node(OpeningNum(t))
                              ELSE Len(nodes) + 1
             /\ th'[t].prev = th[t].prev
BufferIs(t) == /\ th'[t].pc = IF th[t].ans \in Known THEN "append" ELSE "failed"
               /\ th'[t].buf = IF th[t].ans \in Known THEN Len(bufs) + 1 ELSE 0
               /\ th'[t].num = th[t].num /\ th'[t].node = th[t].node /\ th'[t].prev = th[t].prev

LEMMA FindsAre ==
  ASSUME TypeInv, NEW t \in Threads
  PROVE  /\ Look(t) => LookIs(t) /\ th[t].ans \in Nums /\ UNCHANGED <<nodes, list, bufs, autocmd_mutex, attached, closed>>
         /\ FindPrevious(t) => PreviousIs(t) /\ UNCHANGED <<nodes, list, bufs, autocmd_mutex, attached, closed>>
         /\ Suspend(t) => SuspendIs(t) /\ UNCHANGED <<nodes, list, bufs, autocmd_mutex, attached, closed>>
         /\ FindNode(t) => NodeIs(t) /\ UNCHANGED <<list, bufs, autocmd_mutex, attached, closed>>
         /\ MakeBuffer(t) => BufferIs(t) /\ UNCHANGED <<list, autocmd_mutex, attached, closed>>
<1>1. th \in [Threads -> ThRecs(Len(nodes), Len(bufs))] /\ th[t] \in ThRecs(Len(nodes), Len(bufs))
  BY ThreadTypes DEF TypeInv
<1>2. ASSUME Look(t)
      PROVE  LookIs(t) /\ th[t].ans \in Nums /\ UNCHANGED <<nodes, list, bufs, autocmd_mutex, attached, closed>>
  <2>1. PICK r : r = [th[t] EXCEPT !.pc = LooksTo(t), !.num = th[t].ans, !.buf = find_buffer(th[t].ans),
                                   !.ans = IF LooksTo(t) = "previous" THEN previous ELSE None]
    OBVIOUS
  <2>2. th' = [th EXCEPT ![t] = r] /\ th[t].ans \in Nums
    BY <1>2, <2>1, Looked
  <2>3. th'[t] = r
    BY <1>1, <2>2
  <2>4. /\ r.pc = LooksTo(t) /\ r.num = th[t].ans /\ r.buf = find_buffer(th[t].ans)
        /\ r.node = th[t].node /\ r.prev = th[t].prev
    BY <1>1, <2>1 DEF ThRecs
  <2>5. UNCHANGED <<nodes, list, bufs, autocmd_mutex, attached, closed>>
    BY <1>2 DEF Look, nvim, history
  <2>6. QED
    BY <2>2, <2>3, <2>4, <2>5 DEF LookIs
<1>3. ASSUME FindPrevious(t)
      PROVE  PreviousIs(t) /\ UNCHANGED <<nodes, list, bufs, autocmd_mutex, attached, closed>>
  <2>1. PICK b : b = find_buffer(th[t].ans)
    OBVIOUS
  <2>2. th' = [th EXCEPT ![t] = [th[t] EXCEPT !.pc = "suspend", !.prev = b]]
    BY <1>1, <1>3, <2>1 DEF FindPrevious
  <2>3. /\ th'[t].pc = "suspend" /\ th'[t].prev = b
        /\ th'[t].num = th[t].num /\ th'[t].buf = th[t].buf /\ th'[t].node = th[t].node
    BY <1>1, <2>2 DEF ThRecs
  <2>4. UNCHANGED <<nodes, list, bufs, autocmd_mutex, attached, closed>>
    BY <1>3 DEF FindPrevious, nvim, history
  <2>5. QED
    BY <2>1, <2>3, <2>4 DEF PreviousIs
<1>4. ASSUME Suspend(t)
      PROVE  SuspendIs(t) /\ UNCHANGED <<nodes, list, bufs, autocmd_mutex, attached, closed>>
  <2>1. PICK p : p = IF th[t].buf # 0 /\ bufs[th[t].buf].initialized THEN "update" ELSE "find"
    OBVIOUS
  <2>2. th' = [th EXCEPT ![t] = [th[t] EXCEPT !.pc = p, !.prev = 0]]
    BY <1>1, <1>4, <2>1 DEF Suspend
  <2>3. /\ th'[t].pc = p /\ th'[t].prev = 0
        /\ th'[t].num = th[t].num /\ th'[t].buf = th[t].buf /\ th'[t].node = th[t].node
    BY <1>1, <2>2 DEF ThRecs
  <2>4. UNCHANGED <<nodes, list, bufs, autocmd_mutex, attached, closed>>
    BY <1>4 DEF Suspend, nvim, registry, history
  <2>5. QED
    BY <2>1, <2>3, <2>4 DEF SuspendIs
<1>5. ASSUME FindNode(t)
      PROVE  NodeIs(t) /\ UNCHANGED <<list, bufs, autocmd_mutex, attached, closed>>
  <2>1. PICK n : n = OpeningNum(t)
    OBVIOUS
  <2>2. PICK k : k = IF find_buffer_node(n) # 0 THEN find_buffer_node(n) ELSE Len(nodes) + 1
    OBVIOUS
  <2>3. th' = [th EXCEPT ![t] = [th[t] EXCEPT !.pc = "open", !.num = n, !.buf = 0, !.node = k]]
    BY <1>5, <2>1, <2>2, FoundOrMade
  <2>4. th'[t].pc = "open" /\ th'[t].num = n /\ th'[t].buf = 0 /\ th'[t].node = k /\ th'[t].prev = th[t].prev
    BY <1>1, <2>3 DEF ThRecs
  <2>5. UNCHANGED <<list, bufs, autocmd_mutex, attached, closed>>
    BY <1>5 DEF FindNode, nvim, history
  <2>6. QED
    BY <2>1, <2>2, <2>4, <2>5 DEF NodeIs
<1>6. ASSUME MakeBuffer(t)
      PROVE  BufferIs(t) /\ UNCHANGED <<list, autocmd_mutex, attached, closed>>
  <2>1. PICK b : b = IF th[t].ans \in Known THEN Len(bufs) + 1 ELSE 0
    OBVIOUS
  <2>2. PICK p : p = IF th[t].ans \in Known THEN "append" ELSE "failed"
    OBVIOUS
  <2>3. th' = [th EXCEPT ![t] = [th[t] EXCEPT !.pc = p, !.buf = b]]
    BY <1>6, <2>1, <2>2, Made
  <2>4. th'[t].pc = p /\ th'[t].buf = b /\ th'[t].num = th[t].num /\ th'[t].node = th[t].node /\ th'[t].prev = th[t].prev
    BY <1>1, <2>3 DEF ThRecs
  <2>5. UNCHANGED <<list, autocmd_mutex, attached, closed>>
    BY <1>6 DEF MakeBuffer, nvim, history
  <2>6. QED
    BY <2>1, <2>2, <2>4, <2>5 DEF BufferIs
<1>7. QED
  BY <1>2, <1>3, <1>4, <1>5, <1>6

(* The rest of what Next changes.                                          *)
LEMMA RestKept ==
  ASSUME NEW t \in Threads, ThreadStep(t)
  PROVE  /\ list' = list \/ AppendNode(t)
         /\ closed' = closed \/ CloseNode(t)
         /\ autocmd_mutex' = autocmd_mutex \/ Begin(t) \/ End(t)
         /\ attached' = attached \/ Attach(t)
         /\ undefined' = undefined \/ UseFreed(t) \/ UsePrevious(t) \/ CannotLook(t) \/ OpenNode(t) \/ FreeNode(t)
<1>1. CASE UseFreed(t) \/ UsePrevious(t) \/ CannotLook(t)
  BY <1>1 DEF UseFreed, UsePrevious, CannotLook, CannotWalk, Stray, registry, nvim, history
<1>2. CASE \/ Begin(t) \/ Look(t) \/ FindPrevious(t) \/ Suspend(t) \/ FindNode(t) \/ MakeBuffer(t)
           \/ Attach(t) \/ End(t)
  BY <1>2 DEF Begin, Look, FindPrevious, Suspend, FindNode, MakeBuffer, Attach, End, registry, nvim, history
<1>3. CASE AskFiletype(t) \/ Judge(t) \/ GetLines(t) \/ Update(t) \/ Updated(t) \/ ClearHighlight(t) \/ WorkerEnter(t)
         \/ WorkerHighlight(t)
  BY <1>3 DEF AskFiletype, Judge, GetLines, Update, Updated, ClearHighlight, WorkerEnter, WorkerHighlight, registry, nvim, history
<1>4. CASE OpenNode(t) \/ FreeNode(t)
  BY <1>4 DEF OpenNode, FreeNode, Stray, registry, nvim, history
<1>5. CASE \/ AppendNode(t) \/ Initialize(t) \/ CloseNode(t) \/ ShutDoor(t) \/ FreeBuffer(t)
           \/ WorkerCountIn(t) \/ WorkerCountOut(t)
  BY <1>5 DEF AppendNode, Initialize, CloseNode, ShutDoor, FreeBuffer, WorkerCountIn, WorkerCountOut, nvim, history
<1>6. QED
  BY <1>1, <1>2, <1>3, <1>4, <1>5 DEF ThreadStep

LEMMA ActionPoints ==
  ASSUME NEW t
  PROVE  /\ Begin(t) => th[t].pc \in {"start", "lock"}
         /\ End(t) => th[t].pc = "end"
         /\ Attach(t) => th[t].pc = "attach"
         /\ OpenNode(t) => th[t].pc = "open"
         /\ FreeNode(t) => th[t].pc = "failed"
         /\ MakeBuffer(t) => th[t].pc = "make"
         /\ AppendNode(t) => th[t].pc = "append"
         /\ Initialize(t) => th[t].pc = "got_lines"
         /\ CloseNode(t) => th[t].pc = "unlist"
         /\ ShutDoor(t) => th[t].pc = "drain"
         /\ FreeBuffer(t) => th[t].pc = "free"
         /\ FindPrevious(t) => th[t].pc = "previous"
         /\ Suspend(t) => th[t].pc = "suspend"
         /\ FindNode(t) => th[t].pc \in {"init", "find"}
         /\ Look(t) => th[t].pc \in Looks
<1>1. Begin(t) => th[t].pc \in {"start", "lock"}
  BY DEF Begin, At
<1>2. (End(t) => th[t].pc = "end") /\ (Attach(t) => th[t].pc = "attach")
  BY DEF End, Attach, Use, At
<1>3. /\ OpenNode(t) => th[t].pc = "open"
      /\ FreeNode(t) => th[t].pc = "failed"
      /\ MakeBuffer(t) => th[t].pc = "make"
      /\ AppendNode(t) => th[t].pc = "append"
  BY DEF OpenNode, FreeNode, MakeBuffer, AppendNode, At
<1>4. /\ Initialize(t) => th[t].pc = "got_lines"
      /\ CloseNode(t) => th[t].pc = "unlist"
      /\ ShutDoor(t) => th[t].pc = "drain"
      /\ FreeBuffer(t) => th[t].pc = "free"
  BY DEF Initialize, CloseNode, ShutDoor, FreeBuffer, Use, At
<1>5. /\ FindPrevious(t) => th[t].pc = "previous"
      /\ Suspend(t) => th[t].pc = "suspend"
  BY DEF FindPrevious, Suspend, At
<1>6. FindNode(t) => th[t].pc \in {"init", "find"}
  BY DEF FindNode, Opening, At
<1>7. Look(t) => th[t].pc \in Looks
  BY DEF Look, Looking, At
<1>8. QED
  BY <1>1, <1>2, <1>3, <1>4, <1>5, <1>6, <1>7

-----------------------------------------------------------------------------
(* One command at a time.                                                  *)
LEMMA PlacesAre ==
  ASSUME NEW k, NEW p, p \in PlacesOf(k)
  PROVE  \/ k = "main" /\ p \in Opens \cup {"start", "init", "end", "gone"}
         \/ k = "destroyer" /\ p \in Destroys \cup {"end", "gone"}
         \/ k = "worker" /\ p \in {"enter", "work", "join", "leave", "end", "gone"}
         \/ k \in Kinds /\ p \in Opens \cup {k, "lock", "previous", "suspend", "find", "end", "gone"}
         \/ k \in Kinds /\ k = "syntax" /\ p \in Destroys \cup {"compare", "judge"}
  BY DEF PlacesOf

LEMMA InPlaces ==
  ASSUME NEW k, NEW p,
         \/ k = "main" /\ p \in Opens \cup {"start", "init", "end", "gone"}
         \/ k = "destroyer" /\ p \in Destroys \cup {"end", "gone"}
         \/ k = "worker" /\ p \in {"enter", "work", "join", "leave", "end", "gone"}
         \/ k \in Kinds /\ p \in Opens \cup {k, "lock", "previous", "suspend", "find", "end", "gone"}
         \/ k \in Kinds /\ k = "syntax" /\ p \in Destroys \cup {"compare", "judge"}
  PROVE  p \in PlacesOf(k)
<1>1. Kinds \subseteq {"changed", "syntax", "want", "force"}
  BY RegistryAssumption
<1>2. k \in Kinds => k # "main" /\ k # "destroyer" /\ k # "worker"
  BY <1>1
<1>3. CASE k = "main"
  BY <1>2, <1>3 DEF PlacesOf
<1>4. CASE k = "destroyer"
  BY <1>2, <1>4 DEF PlacesOf
<1>5. CASE k = "worker"
  BY <1>2, <1>5 DEF PlacesOf
<1>6. CASE k \in Kinds
  <2>1. PlacesOf(k) = Opens \cup {k, "lock", "previous", "suspend", "find", "end", "gone"}
                        \cup IF k = "syntax" THEN Destroys \cup {"compare", "judge"} ELSE {}
    BY <1>2, <1>6 DEF PlacesOf
  <2>2. QED
    BY <1>2, <1>6, <2>1
<1>7. QED
  BY <1>3, <1>4, <1>5, <1>6

(* The kind of a thread, by the point it is at.                            *)
LEMMA KindOf ==
  ASSUME KindInv, NEW t \in Threads
  PROVE  /\ th[t].pc \in {"start", "init"} => th[t].kind = "main"
         /\ th[t].pc \in {"enter", "work", "join", "leave"} => th[t].kind = "worker"
         /\ th[t].pc \in Opens => th[t].kind \in Kinds \cup {"main"}
         /\ th[t].pc \in Looks => th[t].kind \in Kinds /\ th[t].kind = th[t].pc
         /\ th[t].pc \in {"lock", "previous", "suspend", "find"} => th[t].kind \in Kinds
         /\ th[t].pc \in {"compare", "judge"} => th[t].kind = "syntax" /\ th[t].kind \in Kinds
         /\ th[t].pc \in Destroys => th[t].kind = "destroyer" \/ (th[t].kind = "syntax" /\ th[t].kind \in Kinds)
<1>1. CASE th[t].pc = "idle"
  BY <1>1 DEF Opens, Looks, Destroys
<1>2. CASE th[t].pc # "idle"
  <2>1. th[t].pc \in PlacesOf(th[t].kind)
    BY <1>2 DEF KindInv
  <2>2. PICK k, p : k = th[t].kind /\ p = th[t].pc
    OBVIOUS
  <2>3. \/ k = "main" /\ p \in Opens \cup {"start", "init", "end", "gone"}
        \/ k = "destroyer" /\ p \in Destroys \cup {"end", "gone"}
        \/ k = "worker" /\ p \in {"enter", "work", "join", "leave", "end", "gone"}
        \/ k \in Kinds /\ p \in Opens \cup {k, "lock", "previous", "suspend", "find", "end", "gone"}
        \/ k \in Kinds /\ k = "syntax" /\ p \in Destroys \cup {"compare", "judge"}
    BY <2>1, <2>2, PlacesAre
  <2>4. Kinds \subseteq {"changed", "syntax", "want", "force"}
    BY RegistryAssumption
  <2>5. k \in Kinds => k \in Looks
    BY <2>4 DEF Looks
  <2>6. QED
    BY <2>2, <2>3, <2>4, <2>5 DEF Opens, Looks, Destroys
<1>3. QED
  BY <1>1, <1>2

LEMMA KindThreadStep ==
  ASSUME TypeInv, KindInv, NEW t \in Threads, ThreadStep(t), th[t].pc = "failed" => nodes[th[t].node].bdata = 0
  PROVE  KindInv'
<1>1. /\ \A u \in Threads : u # t => th'[u] = th[u]
      /\ th'[t].kind = th[t].kind /\ th[t].pc # "idle" /\ th'[t].pc # "idle"
  BY OthersStay
<1>2. SUFFICES th'[t].pc \in PlacesOf(th[t].kind)
  BY <1>1 DEF KindInv
<1>3. th[t].pc \in PlacesOf(th[t].kind) /\ (th[t].kind = "main" <=> t = Main)
  BY <1>1 DEF KindInv
<1>4. Kinds \subseteq {"changed", "syntax", "want", "force"}
  BY RegistryAssumption
<1>5. PICK k : k = th[t].kind
  OBVIOUS
<1>6. CASE th' = th
  BY <1>3, <1>6
<1>7. CASE Simply(t)
  <2>1. CASE Goes1(t, "lock", th[t].kind)
    BY <1>5, <2>1, KindOf, InPlaces DEF Goes1
  <2>2. CASE Goes1(t, "start", "init")
    BY <1>5, <2>2, KindOf, InPlaces DEF Goes1
  <2>3. CASE Goes1(t, "compare", "judge") \/ \E q \in {"end", "clear"} : Goes1(t, "judge", q)
    BY <1>5, <2>3, KindOf, InPlaces DEF Goes1, Destroys
  <2>4. CASE Goes1(t, "attach", "lines") \/ Goes1(t, "lines", "got_lines") \/ Goes1(t, "update", "updated") \/ Goes1(t, "updated", "end")
    BY <1>5, <2>4, KindOf, InPlaces DEF Goes1, Opens
  <2>5. CASE Goes1(t, "end", "gone")
    <3>1. \/ k = "main" \/ k = "destroyer" \/ k = "worker" \/ k \in Kinds
      BY <1>3, <1>5, PlacesAre
    <3>2. QED
      BY <1>5, <2>5, <3>1, InPlaces DEF Goes1
  <2>6. CASE Goes1(t, "clear", IF th[t].node = 0 THEN "unlist" ELSE "drain")
    BY <1>5, <2>6, KindOf, InPlaces DEF Goes1, Destroys
  <2>7. CASE \E q \in {"work", "end"} : Goes1(t, "enter", q)
    BY <1>5, <2>7, KindOf, InPlaces DEF Goes1
  <2>8. CASE Goes1(t, "join", "leave")
    BY <1>5, <2>8, KindOf, InPlaces DEF Goes1
  <2>9. QED
    BY <1>7, <2>1, <2>2, <2>3, <2>4, <2>5, <2>6, <2>7, <2>8 DEF Simply
<1>8. CASE Changes(t)
  <2>1. CASE (\E q \in {"make", "failed"} : Goes1(t, "open", q)) \/ Goes1(t, "append", "attach") \/ Goes1(t, "failed", "end") \/ Goes1(t, "got_lines", "update")
    BY <1>5, <2>1, KindOf, InPlaces DEF Goes1, Opens
  <2>2. CASE Goes1(t, "unlist", "drain") \/ Goes1(t, "drain", "free")
    BY <1>5, <2>2, KindOf, InPlaces DEF Goes1, Destroys
  <2>3. CASE Goes1(t, "free", IF th[t].kind = "syntax" /\ th[t].node = 0 THEN "find" ELSE "end")
    BY <1>5, <2>3, KindOf, InPlaces DEF Goes1, Destroys
  <2>4. CASE Goes1(t, "work", "join") \/ Goes1(t, "leave", "end")
    BY <1>5, <2>4, KindOf, InPlaces DEF Goes1
  <2>5. QED
    BY <1>8, <2>1, <2>2, <2>3, <2>4 DEF Changes
<1>9. CASE Finds(t)
  <2>1. CASE Look(t)
    <3>1. th[t].pc \in Looks /\ k \in Kinds /\ k = th[t].pc /\ th'[t].pc = LooksTo(t)
      BY <1>5, <2>1, ActionPoints, FindsAre, KindOf DEF LookIs
    <3>2. LooksTo(t) \in {"end", "previous", "find", "update"} \/ (LooksTo(t) = "compare" /\ k = "syntax")
      BY <3>1 DEF LooksTo, Looks
    <3>3. QED
      BY <1>5, <3>1, <3>2, InPlaces DEF Opens
  <2>2. CASE FindPrevious(t) \/ Suspend(t)
    <3>1. k \in Kinds /\ th'[t].pc \in {"suspend", "update", "find"}
      BY <1>5, <2>2, ActionPoints, FindsAre, KindOf DEF PreviousIs, SuspendIs
    <3>2. QED
      BY <1>5, <3>1, InPlaces DEF Opens
  <2>3. CASE FindNode(t)
    <3>1. k \in Kinds \cup {"main"} /\ th'[t].pc = "open"
      BY <1>5, <2>3, ActionPoints, FindsAre, KindOf DEF NodeIs
    <3>2. QED
      BY <1>5, <3>1, InPlaces DEF Opens
  <2>4. CASE MakeBuffer(t)
    <3>1. k \in Kinds \cup {"main"} /\ th'[t].pc \in {"append", "failed"}
      BY <1>5, <2>4, ActionPoints, FindsAre, KindOf DEF BufferIs, Opens
    <3>2. QED
      BY <1>5, <3>1, InPlaces DEF Opens
  <2>5. QED
    BY <1>9, <2>1, <2>2, <2>3, <2>4 DEF Finds
<1>10. QED
  BY <1>6, <1>7, <1>8, <1>9, Moves

(* What the event loop does to threads.                                    *)
SameThreads == \A u \in Threads : /\ th'[u].kind = th[u].kind /\ th'[u].pc = th[u].pc /\ th'[u].ans = th[u].ans
                                  /\ th'[u].num = th[u].num /\ th'[u].node = th[u].node
                                  /\ th'[u].buf = th[u].buf /\ th'[u].prev = th[u].prev
Starts(f, k, p, n, b) == /\ f # Main /\ th[f].pc = "idle"
                         /\ \A u \in Threads : u # f => th'[u] = th[u]
                         /\ th'[f].kind = k /\ th'[f].pc = p /\ th'[f].num = n /\ th'[f].buf = b
                         /\ th'[f].node = 0 /\ th'[f].prev = 0
StartsCommand(f) == \E k \in Kinds : /\ wire # <<>> /\ 1 \in 1 .. Len(wire) /\ wire[1].type = k
                                     /\ Starts(f, k, "lock", None, 0)
StartsOther(f) == /\ loop.buf # 0 /\ loop.pc # "read"
                  /\ \/ Starts(f, "destroyer", "clear", loop.num, loop.buf)
                     \/ Starts(f, "worker", "enter", loop.num, loop.buf)

LEMMA Started1 ==
  ASSUME TypeInv, NEW f \in Threads, th[f].pc = "idle", f # Main, NEW k, NEW p, NEW n, NEW b,
         th' = [th EXCEPT ![f] = NewThread(k, p, n, b)]
  PROVE  Starts(f, k, p, n, b)
<1>1. th \in [Threads -> ThRecs(Len(nodes), Len(bufs))]
  BY ThreadTypes DEF TypeInv
<1>2. th'[f] = NewThread(k, p, n, b) /\ \A u \in Threads : u # f => th'[u] = th[u]
  BY <1>1
<1>3. /\ NewThread(k, p, n, b).kind = k /\ NewThread(k, p, n, b).pc = p
      /\ NewThread(k, p, n, b).num = n /\ NewThread(k, p, n, b).buf = b
      /\ NewThread(k, p, n, b).node = 0 /\ NewThread(k, p, n, b).prev = 0
  BY DEF NewThread, NoThread
<1>4. QED
  BY <1>2, <1>3 DEF Starts

LEMMA LoopThreads ==
  ASSUME TypeInv, LoopStep
  PROVE  /\ UNCHANGED <<current, ft, attached, nodes, list, autocmd_mutex, closed, hurried, refused>> /\ BufsAlike
         /\ \/ SameThreads
            \/ \E f \in Threads : StartsCommand(f) \/ StartsOther(f)
<1>1. UNCHANGED <<current, ft, attached, nodes, list, autocmd_mutex, closed, hurried, refused>> /\ BufsAlike
  BY LoopSteps DEF LoopOK
<1>2. CASE ReadReply
  BY <1>1, <1>2, ReplyIs DEF SameThreads
<1>3. CASE ReadCommand
  <2>1. /\ Head(wire) \in Messages /\ Head(wire).type \in Kinds /\ Head(wire) = wire[1]
        /\ IF Head(wire).type = "reply" THEN TRUE ELSE Pending # {}
    BY <1>3, MessageRead DEF ReadCommand
  <2>2. Head(wire).type # "reply"
    BY <2>1, RegistryAssumption
  <2>3. FreeThread \in Threads /\ th[FreeThread].pc = "idle" /\ FreeThread # Main
    BY <2>1, <2>2, SomeThreadFree
  <2>4. PICK f, k : f = FreeThread /\ k = Head(wire).type
    OBVIOUS
  <2>5. th' = [th EXCEPT ![f] = NewThread(k, "lock", None, 0)]
    BY <1>3, <2>4 DEF ReadCommand
  <2>6. Starts(f, k, "lock", None, 0)
    BY <2>3, <2>4, <2>5, Started1
  <2>7. wire # <<>> /\ 1 \in 1 .. Len(wire)
    <3>1. wire # <<>> /\ wire \in Seq(Messages)
      BY <1>3, LoopIs DEF ReadCommand, Read
    <3>2. QED
      BY <3>1
  <2>8. QED
    BY <1>1, <2>1, <2>3, <2>4, <2>6, <2>7 DEF StartsCommand
<1>4. CASE UNCHANGED th
  BY <1>1, <1>4 DEF SameThreads
<1>5. CASE LoopHandle /\ th' # th
  <2>1. /\ loop.buf # 0
        /\ \/ loop.pc = "detach" /\ th' = [th EXCEPT ![FreeThread] = NewThread("destroyer", "clear", loop.num, loop.buf)]
           \/ th' = [th EXCEPT ![FreeThread] = NewThread("worker", "enter", loop.num, loop.buf)]
    BY <1>5 DEF LoopHandle, Stray
  <2>2. loop.pc # "read"
    BY <2>1 DEF TypeInv, LoopSound
  <2>3. Handled = 1
    BY <2>2 DEF Handled
  <2>4. FreeThread \in Threads /\ th[FreeThread].pc = "idle" /\ FreeThread # Main
    BY <2>3, SomeThreadFree
  <2>5. PICK f : f = FreeThread
    OBVIOUS
  <2>6. \/ th' = [th EXCEPT ![f] = NewThread("destroyer", "clear", loop.num, loop.buf)]
        \/ th' = [th EXCEPT ![f] = NewThread("worker", "enter", loop.num, loop.buf)]
    BY <2>1, <2>5
  <2>7. \/ Starts(f, "destroyer", "clear", loop.num, loop.buf)
        \/ Starts(f, "worker", "enter", loop.num, loop.buf)
    BY <2>4, <2>5, <2>6, Started1
  <2>8. QED
    BY <1>1, <2>1, <2>2, <2>4, <2>5, <2>7 DEF StartsOther
<1>6. CASE ReadEvent \/ LoopCannotFind \/ LoopFind \/ LoopReadNode
  <2>1. UNCHANGED th
    BY <1>6 DEF ReadEvent, LoopCannotFind, CannotWalk, Stray, LoopFind, LoopReadNode
  <2>2. QED
    BY <1>4, <2>1
<1>7. QED
  BY <1>2, <1>3, <1>4, <1>5, <1>6 DEF LoopStep

LEMMA NvimKeeps ==
  ASSUME NvimStep
  PROVE  UNCHANGED <<loop, nodes, list, list_lock, bufs, previous, autocmd_mutex, th, closed, hurried, refused, undefined, aborted>>
  BY DEF NvimStep, EnterBuffer, EditBuffer, UnloadBuffer, SetFiletype, UserUpdate, Command, Announce, registry, history, excuses

LEMMA KindLoopStep ==
  ASSUME TypeInv, KindInv, LoopStep
  PROVE  KindInv'
<1>1. CASE SameThreads
  BY <1>1 DEF SameThreads, KindInv
<1>2. ASSUME NEW f \in Threads, NEW k, NEW p, NEW n, NEW b, Starts(f, k, p, n, b), k # "main", p \in PlacesOf(k)
      PROVE  KindInv'
  BY <1>2 DEF Starts, KindInv
<1>3. ASSUME NEW f \in Threads, StartsCommand(f) PROVE KindInv'
  <2>1. PICK k \in Kinds : Starts(f, k, "lock", None, 0)
    BY <1>3 DEF StartsCommand
  <2>2. k # "main" /\ "lock" \in PlacesOf(k)
    BY InPlaces, RegistryAssumption
  <2>3. QED
    BY <1>2, <2>1, <2>2
<1>4. ASSUME NEW f \in Threads, StartsOther(f) PROVE KindInv'
  <2>1. "clear" \in PlacesOf("destroyer") /\ "enter" \in PlacesOf("worker")
    BY InPlaces DEF Destroys
  <2>2. CASE Starts(f, "destroyer", "clear", loop.num, loop.buf)
    BY <1>2, <2>1, <2>2
  <2>3. CASE Starts(f, "worker", "enter", loop.num, loop.buf)
    BY <1>2, <2>1, <2>3
  <2>4. QED
    BY <1>4, <2>2, <2>3 DEF StartsOther
<1>5. QED
  BY <1>1, <1>3, <1>4, LoopThreads

LEMMA GoneStays ==
  ASSUME NEW t \in Threads, ThreadStep(t)
  PROVE  th[t].pc # "gone"
<1> SUFFICES ASSUME th[t].pc = "gone" PROVE FALSE
  OBVIOUS
<1>1. ~ Begin(t) /\ ~ End(t)
  BY ActionPoints
<1>2. ~ UseFreed(t) /\ ~ UsePrevious(t) /\ ~ CannotLook(t)
  BY DEF UseFreed, UsePrevious, CannotLook, Wants, Seeks, At, Uses, Looks
<1>3. ~ AskFiletype(t) /\ ~ Judge(t) /\ ~ GetLines(t) /\ ~ Update(t) /\ ~ Updated(t) /\ ~ ClearHighlight(t)
  BY DEF AskFiletype, Judge, GetLines, Update, Updated, ClearHighlight, Use, At
<1>4. ~ WorkerEnter(t) /\ ~ WorkerCountIn(t) /\ ~ WorkerHighlight(t) /\ ~ WorkerCountOut(t)
  BY DEF WorkerEnter, WorkerCountIn, WorkerHighlight, WorkerCountOut, Use, At
<1>5. /\ ~ Look(t) /\ ~ FindPrevious(t) /\ ~ Suspend(t) /\ ~ FindNode(t)
      /\ ~ OpenNode(t) /\ ~ MakeBuffer(t) /\ ~ AppendNode(t)
  BY ActionPoints DEF Looks
<1>6. ~ FreeNode(t) /\ ~ Attach(t) /\ ~ Initialize(t) /\ ~ CloseNode(t) /\ ~ ShutDoor(t) /\ ~ FreeBuffer(t)
  BY ActionPoints
<1>7. QED
  BY <1>1, <1>2, <1>3, <1>4, <1>5, <1>6 DEF ThreadStep

LEMMA SettledStays ==
  ASSUME TypeInv, NEW t \in Threads, ThreadStep(t), th[t].pc \in Settled
  PROVE  th'[t].pc \in Settled
  BY Moves DEF Simply, Changes, Finds, Goes1, Looks, Settled

LEMMA OneThreadStep ==
  ASSUME TypeInv, KindInv, OneAtATime, NEW t \in Threads, ThreadStep(t), ~ hurried'
  PROVE  OneAtATime'
<1>1. /\ \A u \in Threads : u # t => th'[u] = th[u]
      /\ th'[t].kind = th[t].kind /\ th[t].pc # "idle" /\ th'[t].pc # "idle"
  BY OthersStay
<1>2. Main \in Threads /\ None \notin Threads
  BY RegistryAssumption DEF Main, Threads
<1>3. \A u \in Threads : IsCommand(u)' <=> IsCommand(u)
  BY <1>1 DEF IsCommand
<1>4. ~ IsCommand(Main)
  <2>1. "main" \notin Kinds
    BY RegistryAssumption
  <2>2. th[Main].kind = "main"
    BY <1>2 DEF TypeInv, KindSound
  <2>3. QED
    BY <2>1, <2>2 DEF IsCommand
<1>5. th[t].pc # "gone"
  BY GoneStays
<1>6. Working(Main)' => Working(Main)
  BY <1>1, <1>2, <1>3, <1>4, SettledStays DEF Working
<1>7. CASE autocmd_mutex' = autocmd_mutex /\ th[t].pc # "lock"
  <2>1. \A u \in Threads : u # Main /\ Working(u)' => Working(u)
    BY <1>1, <1>3, <1>5, <1>7 DEF Working
  <2>2. Working(Main)' => \A u \in Threads : IsCommand(u)' => th'[u].pc = "lock"
    BY <1>1, <1>3, <1>6, <1>7 DEF OneAtATime
  <2>3. QED
    BY <1>6, <1>7, <2>1, <2>2 DEF OneAtATime
<1>8. CASE th' = th /\ autocmd_mutex' = autocmd_mutex
  BY <1>8 DEF OneAtATime, Working, IsCommand
<1>9. CASE Begin(t) /\ Goes1(t, "lock", th[t].kind) /\ autocmd_mutex = None /\ autocmd_mutex' = t
  <2>1. th[t].pc = "lock" /\ th[Main].pc \in Settled
    BY <1>9 DEF Begin, Goes1, At
  <2>2. t # Main
    BY <2>1 DEF Settled
  <2>3. ~ Working(Main)'
    BY <1>2, <1>3, <1>4, <1>6, <2>1 DEF Working
  <2>4. \A u \in Threads : u # Main /\ Working(u)' => u = t
    BY <1>1, <1>2, <1>3, <1>9 DEF OneAtATime, Working
  <2>5. QED
    BY <1>9, <2>3, <2>4 DEF OneAtATime
<1>10. CASE End(t)
  <2>1. autocmd_mutex' = (IF autocmd_mutex = t THEN None ELSE autocmd_mutex) /\ th'[t].pc = "gone" /\ th[t].pc = "end"
    BY <1>10, ActionPoints, Going DEF End
  <2>2. \A u \in Threads : Working(u)' => u # t /\ Working(u)
    BY <1>1, <1>3, <1>4, <2>1 DEF Working, Settled
  <2>3. \A u \in Threads : Working(u)' /\ u # Main => autocmd_mutex' = u
    BY <2>1, <2>2 DEF OneAtATime
  <2>4. Working(Main)' => /\ autocmd_mutex' = None
                          /\ \A u \in Threads : IsCommand(u)' => th'[u].pc = "lock"
    BY <1>1, <1>3, <1>6, <2>1 DEF OneAtATime
  <2>5. QED
    BY <2>3, <2>4 DEF OneAtATime
<1>11. CASE Begin(t) \/ th[t].pc = "lock"
  <2>1. th[t].pc \in {"start", "lock"}
    BY <1>11, ActionPoints
  <2>2. \/ th' = th /\ autocmd_mutex' = autocmd_mutex
        \/ Goes1(t, "start", "init") /\ UNCHANGED autocmd_mutex
        \/ Begin(t) /\ Goes1(t, "lock", th[t].kind) /\ autocmd_mutex = None /\ autocmd_mutex' = t
    BY <2>1, Moves DEF Simply, Changes, Finds, Goes1, Looks
  <2>3. CASE Goes1(t, "start", "init") /\ UNCHANGED autocmd_mutex
    BY <1>7, <2>3 DEF Goes1
  <2>4. QED
    BY <1>8, <1>9, <2>2, <2>3
<1>12. CASE ~ Begin(t) /\ ~ End(t) /\ th[t].pc # "lock"
  BY <1>7, <1>12, RestKept
<1>13. QED
  BY <1>10, <1>11, <1>12

LEMMA WireShrinks ==
  ASSUME TypeInv, LoopStep
  PROVE  \A i \in 1 .. Len(wire') : \E j \in 1 .. Len(wire) : wire'[i] = wire[j]
<1>1. CASE UNCHANGED wire
  BY <1>1
<1>2. CASE ReadReply \/ ReadCommand \/ ReadEvent
  <2>1. PICK S : Read(S)
    BY <1>2 DEF ReadReply, ReadCommand, ReadEvent
  <2>2. QED
    BY <2>1, MessageRead
<1>3. CASE LoopCannotFind \/ LoopFind \/ LoopReadNode \/ LoopHandle
  BY <1>1, <1>3 DEF LoopCannotFind, CannotWalk, Stray, LoopFind, LoopReadNode, LoopHandle
<1>4. QED
  BY <1>2, <1>3 DEF LoopStep

LEMMA OneLoopStep ==
  ASSUME TypeInv, OneAtATime, LoopStep
  PROVE  OneAtATime'
<1>1. autocmd_mutex' = autocmd_mutex
  BY LoopThreads
<1>2. Main \in Threads
  BY RegistryAssumption DEF Main, Threads
<1>3. CASE SameThreads
  <2>1. \A u \in Threads : (IsCommand(u)' <=> IsCommand(u)) /\ (Working(u)' <=> Working(u)) /\ th'[u].pc = th[u].pc
    BY <1>3 DEF SameThreads, IsCommand, Working
  <2>2. QED
    BY <1>1, <1>2, <2>1 DEF OneAtATime
<1>4. ASSUME NEW f \in Threads, NEW k, NEW p, NEW n, NEW b, Starts(f, k, p, n, b), k \in Kinds => p = "lock"
      PROVE  OneAtATime'
  <2>1. \A u \in Threads : Working(u)' => Working(u)
    BY <1>4 DEF Starts, Working, IsCommand
  <2>2. \A u \in Threads : IsCommand(u)' => (IsCommand(u) /\ th'[u].pc = th[u].pc) \/ th'[u].pc = "lock"
    BY <1>4 DEF Starts, IsCommand
  <2>3. QED
    BY <1>1, <1>2, <2>1, <2>2 DEF OneAtATime
<1>5. ASSUME NEW f \in Threads, StartsCommand(f) PROVE OneAtATime'
  <2>1. PICK k \in Kinds : Starts(f, k, "lock", None, 0)
    BY <1>5 DEF StartsCommand
  <2>2. QED
    BY <1>4, <2>1
<1>6. ASSUME NEW f \in Threads, StartsOther(f) PROVE OneAtATime'
  <2>1. "destroyer" \notin Kinds /\ "worker" \notin Kinds
    BY RegistryAssumption
  <2>2. CASE Starts(f, "destroyer", "clear", loop.num, loop.buf)
    BY <1>4, <2>1, <2>2
  <2>3. CASE Starts(f, "worker", "enter", loop.num, loop.buf)
    BY <1>4, <2>1, <2>3
  <2>4. QED
    BY <1>6, <2>2, <2>3 DEF StartsOther
<1>7. QED
  BY <1>3, <1>5, <1>6, LoopThreads

LEMMA OneNvimStep ==
  ASSUME OneAtATime, NvimStep
  PROVE  OneAtATime'
<1>1. UNCHANGED <<autocmd_mutex, th>>
  BY NvimKeeps
<1>2. QED
  BY <1>1 DEF OneAtATime, IsCommand, Working

(* Whoever opens, looks for or is about to open a buffer is working, and   *)
(* nobody else is.                                                         *)
Works == (Opens \ Settled) \cup Looks \cup {"start", "init", "previous", "suspend", "find", "compare", "judge"}

LEMMA WorkersWork ==
  ASSUME KindInv, NEW t \in Threads
  PROVE  /\ th[t].pc \in Works => Working(t)
         /\ th[t].pc \in Destroys /\ th[t].kind \in Kinds => Working(t)
<1>1. th[t].pc \in Works => th[t].kind \in Kinds \cup {"main"}
  BY KindOf DEF Works
<1>2. th[t].pc \in Works \cup Destroys => th[t].pc \notin {"idle", "lock", "gone"} \cup Settled
  BY DEF Works, Opens, Looks, Destroys, Settled
<1>3. th[t].pc # "idle" /\ th[t].kind = "main" => t = Main
  BY DEF KindInv
<1>4. QED
  BY <1>1, <1>2, <1>3 DEF Working, IsCommand

LEMMA OnlyOne ==
  ASSUME OneAtATime, NEW t \in Threads, NEW u \in Threads, Working(t), Working(u)
  PROVE  t = u
<1>1. CASE Working(Main)
  <2>1. \A v \in Threads : v # Main => ~ Working(v)
    BY <1>1 DEF OneAtATime, Working
  <2>2. QED
    BY <2>1
<1>2. CASE ~ Working(Main)
  <2>1. t # Main /\ u # Main
    BY <1>2
  <2>2. QED
    BY <2>1 DEF OneAtATime
<1>3. QED
  BY <1>1, <1>2

-----------------------------------------------------------------------------
(* What a look in the registry finds.                                      *)
LEMMA ListedIs ==
  ASSUME TypeInv, NEW n
  PROVE  /\ find_buffer_node(n) # 0 => /\ find_buffer_node(n) \in 1 .. Len(nodes) /\ Listed(find_buffer_node(n))
                                       /\ nodes[find_buffer_node(n)].num = n
         /\ find_buffer_node(n) = 0 => \A k \in 1 .. Len(nodes) : Listed(k) => nodes[k].num # n
<1>1. CASE Positions(n) = {}
  BY <1>1 DEF find_buffer_node, Positions, Listed
<1>2. CASE Positions(n) # {}
  <2>1. FirstAt(n) \in Positions(n)
    BY <1>2, FoundNode DEF TypeInv
  <2>2. FirstAt(n) \in 1 .. Len(list) /\ nodes[list[FirstAt(n)]].num = n /\ find_buffer_node(n) = list[FirstAt(n)]
    BY <1>2, <2>1 DEF Positions, find_buffer_node
  <2>3. list[FirstAt(n)] \in 1 .. Len(nodes)
    BY <2>2, ListTypes DEF TypeInv
  <2>4. Len(nodes) \in Nat
    BY RegistryTypes DEF TypeInv
  <2>5. QED
    BY <2>2, <2>3, <2>4 DEF Listed
<1>3. QED
  BY <1>1, <1>2

LEMMA OnlyListed ==
  ASSUME TypeInv, NodesInv, NEW k \in 1 .. Len(nodes), Listed(k)
  PROVE  find_buffer_node(nodes[k].num) = k
<1>1. PICK n, j : n = nodes[k].num /\ j = find_buffer_node(n)
  OBVIOUS
<1>2. j # 0 /\ j \in 1 .. Len(nodes) /\ Listed(j) /\ nodes[j].num = n
  BY <1>1, ListedIs
<1>3. j = k
  BY <1>1, <1>2 DEF NodesInv, OwnNumber
<1>4. QED
  BY <1>1, <1>3

LEMMA Walked ==
  ASSUME TypeInv, NEW n, NEW t, Walk(t, n), find_buffer_node(n) # 0
  PROVE  nodes[find_buffer_node(n)].writer = None
<1>1. Positions(n) # {}
  BY FoundNode DEF TypeInv
<1>2. FirstAt(n) \in 1 .. Len(list) /\ find_buffer_node(n) = list[FirstAt(n)]
  BY <1>1, FoundNode DEF TypeInv, Positions, find_buffer_node
<1>3. FirstAt(n) \in Visited(n)
  BY <1>1, <1>2, RegistryTypes DEF TypeInv, Visited
<1>4. QED
  BY <1>2, <1>3 DEF Walk, Blocked

LEMMA LooksFine ==
  ASSUME TypeInv, NodesInv, NEW n
  PROVE  LET b == find_buffer(n) IN
         /\ b # 0 => bufs[b].alive
         /\ Found(b) /\ Has(b, n)
         /\ (\E t : Walk(t, n)) => Holds(n, b)
<1>1. PICK k, b : k = find_buffer_node(n) /\ b = find_buffer(n)
  OBVIOUS
<1>2. b # 0 => k # 0 /\ nodes[k].isopen /\ nodes[k].bdata = b
  BY <1>1 DEF find_buffer
<1>3. k # 0 => k \in 1 .. Len(nodes) /\ Listed(k) /\ nodes[k].num = n
  BY <1>1, ListedIs
<1>4. b # 0 => /\ bufs[b].alive /\ bufs[b].num = n
               /\ \A j \in 1 .. Len(nodes) : nodes[j].bdata = b => j = k
  BY <1>2, <1>3 DEF NodesInv, OwnBuffer
<1>5. Found(b)
  BY <1>2, <1>3, <1>4 DEF Found
<1>6. Has(b, n)
  BY <1>4 DEF Has
<1>7. ASSUME NEW t, Walk(t, n), NEW j \in 1 .. Len(nodes), Listed(j), nodes[j].num = n, nodes[j].isopen
      PROVE  b # 0 /\ nodes[j].bdata = b
  <2>1. j = k
    BY <1>1, <1>7, OnlyListed
  <2>2. k # 0
    BY <2>1, RegistryTypes DEF TypeInv
  <2>3. nodes[k].writer = None
    BY <1>1, <1>7, <2>2, Walked
  <2>4. nodes[k].bdata # 0
    BY <1>7, <2>1, <2>3 DEF NodesInv, BufferComes
  <2>5. b = nodes[k].bdata
    BY <1>1, <1>7, <2>1, <2>2 DEF find_buffer
  <2>6. QED
    BY <2>1, <2>4, <2>5
<1>8. (\E t : Walk(t, n)) => Holds(n, b)
  BY <1>7 DEF Holds
<1>9. QED
  BY <1>1, <1>4, <1>5, <1>6, <1>8

-----------------------------------------------------------------------------
(* What a thread's step does to the list, and what is new.                 *)
LEMMA ListedStep ==
  ASSUME TypeInv, NEW t \in Threads, ThreadStep(t), NEW j
  PROVE  Listed(j)' <=> Listed(j) \/ (AppendNode(t) /\ j = th[t].node)
<1>1. list \in Seq(1 .. Len(nodes)) /\ Len(list) \in Nat
  BY RegistryTypes DEF TypeInv
<1>2. CASE AppendNode(t)
  <2>1. list' = Append(list, th[t].node)
    BY <1>2 DEF AppendNode
  <2>2. PICK k : k = th[t].node
    OBVIOUS
  <2>3. /\ Len(list') = Len(list) + 1 /\ list'[Len(list) + 1] = k
        /\ \A i \in 1 .. Len(list) : list'[i] = list[i]
    BY <1>1, <2>1, <2>2
  <2>4. Listed(j) => Listed(j)'
    BY <1>1, <2>3 DEF Listed
  <2>5. j = k => Listed(j)'
    BY <1>1, <2>3 DEF Listed
  <2>6. Listed(j)' => Listed(j) \/ j = k
    <3>1. SUFFICES ASSUME NEW i \in 1 .. Len(list'), list'[i] = j PROVE Listed(j) \/ j = k
      BY DEF Listed
    <3>2. i \in 1 .. Len(list) \/ i = Len(list) + 1
      BY <1>1, <2>3
    <3>3. QED
      BY <2>3, <3>1, <3>2 DEF Listed
  <2>7. QED
    BY <1>2, <2>2, <2>4, <2>5, <2>6
<1>3. CASE ~ AppendNode(t)
  <2>1. list' = list
    BY <1>3, RestKept
  <2>2. QED
    BY <1>3, <2>1 DEF Listed
<1>4. QED
  BY <1>2, <1>3

LEMMA NewNode ==
  ASSUME TypeInv, NEW t \in Threads, ThreadStep(t), NEW k \in 1 .. Len(nodes'), k \notin 1 .. Len(nodes)
  PROVE  /\ FindNode(t) /\ k = Len(nodes) + 1 /\ k = th'[t].node /\ find_buffer_node(OpeningNum(t)) = 0
         /\ nodes'[k].num = OpeningNum(t) /\ nodes'[k].isopen = FALSE /\ nodes'[k].bdata = 0
         /\ nodes'[k].alive = TRUE
         /\ ~ Listed(k)'
<1>1. Len(nodes) \in Nat /\ Len(nodes') \in Nat /\ list \in Seq(1 .. Len(nodes))
  BY RegistryTypes, ThreadAllocs DEF TypeInv
<1>2. FindNode(t)
  BY <1>1, NewNodes
<1>3. /\ Len(nodes)' = IF find_buffer_node(OpeningNum(t)) # 0 THEN Len(nodes) ELSE Len(nodes) + 1
      /\ \A j \in 1 .. Len(nodes)' :
           nodes'[j] = IF j <= Len(nodes) THEN nodes[j]
                       ELSE [num |-> OpeningNum(t), isopen |-> FALSE, bdata |-> 0, alive |-> TRUE, writer |-> None]
  BY <1>2, FoundOrMade
<1>4. find_buffer_node(OpeningNum(t)) = 0 /\ k = Len(nodes) + 1 /\ ~ (k <= Len(nodes))
  BY <1>1, <1>3
<1>5. nodes'[k] = [num |-> OpeningNum(t), isopen |-> FALSE, bdata |-> 0, alive |-> TRUE, writer |-> None]
  BY <1>3, <1>4
<1>6. k = th'[t].node
  BY <1>2, <1>4, FindsAre DEF NodeIs
<1>7. ~ Listed(k)
  BY <1>1, <1>4 DEF Listed
<1>8. ~ AppendNode(t)
  BY <1>2, ActionPoints
<1>9. ~ Listed(k)'
  BY <1>7, <1>8, ListedStep
<1>10. QED
  BY <1>2, <1>4, <1>5, <1>6, <1>9

LEMMA NewBuffer ==
  ASSUME TypeInv, NEW t \in Threads, MakeBuffer(t), th[t].ans \in Known
  PROVE  /\ Len(bufs) + 1 \in 1 .. Len(bufs') /\ Len(bufs') = Len(bufs) + 1
         /\ bufs'[Len(bufs) + 1].alive /\ bufs'[Len(bufs) + 1].num = th[t].num
<1>1. /\ Len(bufs)' = IF th[t].ans \in Known THEN Len(bufs) + 1 ELSE Len(bufs)
      /\ \A j \in 1 .. Len(bufs)' :
           bufs'[j] = IF j <= Len(bufs) THEN bufs[j]
                      ELSE [num |-> th[t].num, ft |-> th[t].ans, alive |-> TRUE, initialized |-> FALSE, workers |-> 0]
  BY Made
<1>2. Len(bufs) \in Nat
  BY RegistryTypes DEF TypeInv
<1>3. Len(bufs) + 1 \in 1 .. Len(bufs') /\ Len(bufs') = Len(bufs) + 1 /\ ~ (Len(bufs) + 1 <= Len(bufs))
  BY <1>1, <1>2
<1>4. bufs'[Len(bufs) + 1] = [num |-> th[t].num, ft |-> th[t].ans, alive |-> TRUE, initialized |-> FALSE, workers |-> 0]
  BY <1>1, <1>3
<1>5. QED
  BY <1>3, <1>4

(* A node that has a Buffer had it before, or its maker has just made it.  *)
LEMMA BdataStep ==
  ASSUME TypeInv, NEW t \in Threads, ThreadStep(t), NEW k \in 1 .. Len(nodes'), nodes'[k].bdata # 0
  PROVE  /\ k \in 1 .. Len(nodes)
         /\ \/ /\ nodes'[k].bdata = nodes[k].bdata
               /\ nodes[k].isopen => nodes'[k].isopen
               /\ nodes[k].bdata \in 1 .. Len(bufs)
            \/ /\ MakeBuffer(t) /\ k = th[t].node /\ th[t].ans \in Known
               /\ nodes'[k].bdata = Len(bufs) + 1 /\ nodes'[k].isopen = nodes[k].isopen
<1>1. k \in 1 .. Len(nodes)
  BY NewNode
<1>2. nodes[k].bdata \in 0 .. Len(bufs) /\ Len(bufs) \in Nat /\ nodes[k].isopen \in BOOLEAN
  BY <1>1, NodeTypes, RegistryTypes DEF TypeInv
<1>3. \/ nodes'[k].isopen = nodes[k].isopen /\ nodes'[k].bdata = nodes[k].bdata
      \/ nodes'[k].isopen /\ nodes'[k].bdata = nodes[k].bdata
      \/ /\ MakeBuffer(t) /\ k = th[t].node /\ th[t].ans \in Known
         /\ nodes'[k].bdata = Len(bufs) + 1 /\ nodes'[k].isopen = nodes[k].isopen
  BY <1>1, NodeFields
<1>4. QED
  BY <1>1, <1>2, <1>3

LEMMA AliveStep ==
  ASSUME TypeInv, RegistryInv, NEW t \in Threads, ThreadStep(t), NEW k \in 1 .. Len(nodes), Listed(k)
  PROVE  nodes'[k].alive = nodes[k].alive
<1>1. FreeNode(t) => k # th[t].node
  BY ActionPoints DEF RegistryInv, OpeningInv
<1>2. FreeBuffer(t) => th[t].node = 0
  BY ActionPoints DEF RegistryInv, DestroyInv, Destroys
<1>3. k # 0
  BY RegistryTypes DEF TypeInv
<1>4. QED
  BY <1>1, <1>2, <1>3, NodeFields

LEMMA BufAliveStep ==
  ASSUME TypeInv, RegistryInv, NEW t \in Threads, ThreadStep(t), NEW k \in 1 .. Len(nodes), nodes[k].bdata # 0
  PROVE  LET b == nodes[k].bdata IN
         /\ bufs'[b].alive = bufs[b].alive /\ bufs'[b].num = bufs[b].num
         /\ bufs[b].initialized => bufs'[b].initialized
<1>1. nodes[k].bdata \in 1 .. Len(bufs)
  BY NodeTypes, RegistryTypes DEF TypeInv
<1>2. FreeBuffer(t) \/ ShutDoor(t) => nodes[k].bdata # th[t].buf
  BY ActionPoints DEF RegistryInv, DestroyInv
<1>3. QED
  BY <1>1, <1>2, BufFields

LEMMA OwnBufferStep ==
  ASSUME TypeInv, RegistryInv, NEW t \in Threads, ThreadStep(t), NEW k \in 1 .. Len(nodes')
  PROVE  OwnBuffer(k)'
<1> SUFFICES ASSUME nodes'[k].bdata # 0
             PROVE  /\ bufs'[nodes'[k].bdata].alive /\ bufs'[nodes'[k].bdata].num = nodes'[k].num
                    /\ \A j \in 1 .. Len(nodes') : nodes'[j].bdata = nodes'[k].bdata => j = k
                    /\ nodes'[k].isopen
  BY DEF OwnBuffer
<1>1. k \in 1 .. Len(nodes) /\ nodes'[k].num = nodes[k].num /\ Len(bufs) \in Nat
  BY BdataStep, NodeStep, RegistryTypes DEF TypeInv
<1>2. CASE /\ nodes'[k].bdata = nodes[k].bdata
           /\ nodes[k].isopen => nodes'[k].isopen
           /\ nodes[k].bdata \in 1 .. Len(bufs)
  <2>1. /\ bufs[nodes[k].bdata].alive /\ bufs[nodes[k].bdata].num = nodes[k].num
        /\ \A j \in 1 .. Len(nodes) : nodes[j].bdata = nodes[k].bdata => j = k
        /\ nodes[k].isopen
    BY <1>1, <1>2 DEF RegistryInv, NodesInv, OwnBuffer
  <2>2. bufs'[nodes[k].bdata].alive /\ bufs'[nodes[k].bdata].num = nodes[k].num
    BY <1>1, <1>2, <2>1, BufAliveStep
  <2>3. ASSUME NEW j \in 1 .. Len(nodes'), nodes'[j].bdata = nodes'[k].bdata PROVE j = k
    BY <1>1, <1>2, <2>1, <2>3, BdataStep
  <2>4. QED
    BY <1>1, <1>2, <2>1, <2>2, <2>3
<1>3. CASE /\ MakeBuffer(t) /\ k = th[t].node /\ th[t].ans \in Known
           /\ nodes'[k].bdata = Len(bufs) + 1 /\ nodes'[k].isopen = nodes[k].isopen
  <2>1. nodes[k].num = th[t].num /\ nodes[k].isopen
    BY <1>3, ActionPoints DEF RegistryInv, OpeningInv
  <2>2. bufs'[Len(bufs) + 1].alive /\ bufs'[Len(bufs) + 1].num = th[t].num
    BY <1>3, NewBuffer
  <2>3. ASSUME NEW j \in 1 .. Len(nodes'), nodes'[j].bdata = nodes'[k].bdata PROVE j = k
    BY <1>1, <1>3, <2>3, BdataStep
  <2>4. QED
    BY <1>1, <1>3, <2>1, <2>2, <2>3
<1>4. QED
  BY <1>2, <1>3, BdataStep

LEMMA BufferComesStep ==
  ASSUME TypeInv, RegistryInv, NEW t \in Threads, ThreadStep(t), ~ refused', NEW k \in 1 .. Len(nodes')
  PROVE  BufferComes(k)'
<1> SUFFICES ASSUME Listed(k)', nodes'[k].isopen, nodes'[k].bdata = 0
             PROVE  nodes'[k].writer # None
  BY DEF BufferComes
<1>1. k \in 1 .. Len(nodes) /\ t # None /\ Len(bufs) \in Nat
  <2>1. k \in 1 .. Len(nodes)
    BY NewNode
  <2>2. t # None
    BY RegistryAssumption DEF Threads
  <2>3. QED
    BY <2>1, <2>2, RegistryTypes DEF TypeInv
<1>2. CASE nodes'[k].isopen = nodes[k].isopen /\ nodes'[k].bdata = nodes[k].bdata
  <2>1. ~ AppendNode(t) \/ k # th[t].node
    BY <1>1, <1>2, ActionPoints DEF RegistryInv, OpeningInv
  <2>2. Listed(k)
    BY <2>1, ListedStep
  <2>3. nodes[k].writer # None
    BY <1>1, <1>2, <2>2 DEF RegistryInv, NodesInv, BufferComes
  <2>4. CASE MakeBuffer(t) /\ k = th[t].node
    <3>1. th[t].ans \in Known
      <4>1. \E i \in 1 .. Len(list) : list[i] = th[t].node
        BY <2>2, <2>4 DEF Listed
      <4>2. QED
        BY <2>4, <4>1 DEF MakeBuffer
    <3>2. PICK b : b = IF th[t].ans \in Known THEN Len(bufs) + 1 ELSE nodes[th[t].node].bdata
      OBVIOUS
    <3>3. nodes'[k] = [nodes[k] EXCEPT !.writer = None, !.bdata = b]
      BY <1>1, <2>4, <3>2, Made DEF NodesBecome
    <3>4. nodes'[k].bdata = b
      BY <1>1, <3>3, NodeTypes DEF TypeInv, NodeRecs
    <3>5. QED
      BY <1>1, <3>1, <3>2, <3>4
  <2>5. QED
    BY <1>1, <2>3, <2>4, NodeStep
<1>3. CASE OpenNode(t) /\ nodes'[k].writer = t
  BY <1>1, <1>3
<1>4. Len(bufs) + 1 # 0
  BY <1>1
<1>5. QED
  BY <1>1, <1>2, <1>3, <1>4, NodeFields

LEMMA LinesComeStep ==
  ASSUME TypeInv, RegistryInv, NEW t \in Threads, ThreadStep(t), NEW k \in 1 .. Len(nodes')
  PROVE  LinesCome(k)'
<1> DEFINE Getting == {"append", "attach", "lines", "got_lines"}
<1> SUFFICES ASSUME nodes'[k].bdata # 0, ~ bufs'[nodes'[k].bdata].initialized
             PROVE  \E u \in Threads : th'[u].pc \in Getting /\ th'[u].buf = nodes'[k].bdata
  BY DEF LinesCome
<1>1. k \in 1 .. Len(nodes) /\ Len(bufs) \in Nat
  BY BdataStep, RegistryTypes DEF TypeInv
<1>2. CASE nodes'[k].bdata = nodes[k].bdata
  <2>1. ~ bufs[nodes[k].bdata].initialized
    BY <1>1, <1>2, BufAliveStep
  <2>2. PICK u \in Threads : th[u].pc \in Getting /\ th[u].buf = nodes[k].bdata
    BY <1>1, <1>2, <2>1 DEF RegistryInv, NodesInv, LinesCome
  <2>3. CASE u # t
    BY <1>2, <2>2, <2>3, OthersStay
  <2>4. CASE u = t
    <3>1. ~ Initialize(t)
      <4>1. nodes[k].bdata \in 1 .. Len(bufs)
        BY <1>1, <1>2, NodeTypes, RegistryTypes DEF TypeInv
      <4>2. Initialize(t) => bufs'[th[t].buf] = [bufs[th[t].buf] EXCEPT !.initialized = TRUE]
        BY <4>1, <2>2, <2>4, BufsChanged DEF BufsBecome
      <4>3. [bufs[th[t].buf] EXCEPT !.initialized = TRUE].initialized
        BY <4>1, <2>2, <2>4, BufTypes DEF BufRecs, TypeInv
      <4>4. QED
        BY <1>2, <2>2, <2>4, <4>2, <4>3
    <3>2. \/ th' = th
          \/ Goes1(t, "append", "attach")
          \/ Goes1(t, "attach", "lines")
          \/ Goes1(t, "lines", "got_lines")
      BY <2>2, <2>4, <3>1, Moves DEF Simply, Changes, Finds, Goes1, Looks
    <3>3. th'[t].pc \in Getting /\ th'[t].buf = th[t].buf
      BY <2>2, <2>4, <3>2 DEF Goes1, Keeps
    <3>4. QED
      BY <1>2, <2>2, <2>4, <3>3
  <2>5. QED
    BY <2>3, <2>4
<1>3. CASE MakeBuffer(t) /\ th[t].ans \in Known /\ nodes'[k].bdata = Len(bufs) + 1
  <2>1. th'[t].pc = "append" /\ th'[t].buf = Len(bufs) + 1
    BY <1>3, FindsAre DEF BufferIs
  <2>2. QED
    BY <1>3, <2>1
<1>4. QED
  BY <1>2, <1>3, BdataStep

LEMMA OwnNumberStep ==
  ASSUME TypeInv, RegistryInv, NEW t \in Threads, ThreadStep(t), NEW k \in 1 .. Len(nodes')
  PROVE  OwnNumber(k)'
<1> SUFFICES ASSUME Listed(k)'
             PROVE  /\ nodes'[k].alive
                    /\ \A j \in 1 .. Len(nodes') : Listed(j)' /\ nodes'[j].num = nodes'[k].num => j = k
  BY DEF OwnNumber
<1>1. k \in 1 .. Len(nodes) /\ nodes'[k].num = nodes[k].num
  BY NewNode, NodeStep
<1>2. \A j \in 1 .. Len(nodes') : Listed(j)' => j \in 1 .. Len(nodes) /\ nodes'[j].num = nodes[j].num
  BY NewNode, NodeStep
<1>3. AppendNode(t) => /\ th[t].node \in 1 .. Len(nodes)
                       /\ nodes[th[t].node].num = th[t].num /\ nodes[th[t].node].alive
                       /\ \A j \in 1 .. Len(nodes) : Listed(j) /\ nodes[j].num = th[t].num => j = th[t].node
  <2> SUFFICES ASSUME AppendNode(t)
               PROVE  /\ th[t].node \in 1 .. Len(nodes)
                      /\ nodes[th[t].node].num = th[t].num /\ nodes[th[t].node].alive
                      /\ \A j \in 1 .. Len(nodes) : Listed(j) /\ nodes[j].num = th[t].num => j = th[t].node
    OBVIOUS
  <2>1. th[t].pc = "append"
    BY ActionPoints
  <2>2. th[t].node \in 0 .. Len(nodes) /\ th[t].node # 0 /\ Len(nodes) \in Nat
    BY <2>1, Somewhere, RegistryTypes DEF TypeInv, ThreadSound
  <2>3. QED
    BY <2>1, <2>2 DEF RegistryInv, OpeningInv
<1>4. CASE Listed(k)
  <2>1. /\ nodes[k].alive
        /\ \A j \in 1 .. Len(nodes) : Listed(j) /\ nodes[j].num = nodes[k].num => j = k
    BY <1>1, <1>4 DEF RegistryInv, NodesInv, OwnNumber
  <2>2. nodes'[k].alive
    BY <1>1, <1>4, <2>1, AliveStep
  <2>3. ASSUME NEW j \in 1 .. Len(nodes'), Listed(j)', nodes'[j].num = nodes'[k].num PROVE j = k
    <3>1. j \in 1 .. Len(nodes) /\ nodes[j].num = nodes[k].num
      BY <1>1, <1>2, <2>3
    <3>2. CASE Listed(j)
      BY <2>1, <3>1, <3>2
    <3>3. CASE AppendNode(t) /\ j = th[t].node
      BY <1>1, <1>3, <1>4, <3>1, <3>3
    <3>4. QED
      BY <2>3, <3>2, <3>3, ListedStep
  <2>4. QED
    BY <1>1, <2>1, <2>2, <2>3
<1>5. CASE AppendNode(t) /\ k = th[t].node
  <2>1. nodes'[k].alive
    <3>1. ~ FreeNode(t) /\ ~ FreeBuffer(t)
      BY <1>5, ActionPoints
    <3>2. QED
      BY <1>1, <1>3, <1>5, <3>1, NodeFields
  <2>2. ASSUME NEW j \in 1 .. Len(nodes'), Listed(j)', nodes'[j].num = nodes'[k].num PROVE j = k
    <3>1. j \in 1 .. Len(nodes) /\ nodes[j].num = th[t].num
      BY <1>1, <1>2, <1>3, <1>5, <2>2
    <3>2. QED
      BY <1>3, <1>5, <2>2, <3>1, ListedStep
  <2>3. QED
    BY <1>1, <1>3, <1>5, <2>1, <2>2
<1>6. QED
  BY <1>4, <1>5, ListedStep

LEMMA NodesThreadStep ==
  ASSUME TypeInv, RegistryInv, NEW t \in Threads, ThreadStep(t), ~ refused'
  PROVE  NodesInv'
  BY OwnBufferStep, BufferComesStep, LinesComeStep, OwnNumberStep DEF NodesInv

-----------------------------------------------------------------------------
(* Found and Has, for a Buffer that was there before.                      *)
LEMMA FoundStep ==
  ASSUME TypeInv, NEW t \in Threads, ThreadStep(t), NEW b \in 0 .. Len(bufs), Found(b)
  PROVE  Found(b)'
<1> SUFFICES ASSUME b # 0, NEW k \in 1 .. Len(nodes'), nodes'[k].bdata = b
             PROVE  Listed(k)'
  BY DEF Found
<1>1. k \in 1 .. Len(nodes) /\ nodes[k].bdata = b
  BY RegistryTypes, BdataStep DEF TypeInv
<1>2. QED
  BY <1>1, ListedStep DEF Found

LEMMA HasStep ==
  ASSUME TypeInv, NEW t \in Threads, ThreadStep(t), NEW b \in 0 .. Len(bufs), NEW n, Has(b, n)
  PROVE  Has(b, n)'
<1> SUFFICES ASSUME b # 0 PROVE bufs'[b].num = n
  BY DEF Has
<1>1. b \in 1 .. Len(bufs)
  BY RegistryTypes DEF TypeInv
<1>2. QED
  BY <1>1, BufFields DEF Has

HolderInv(t) == /\ th[t].pc # "append" => Found(th[t].buf)
                /\ Has(th[t].buf, th[t].num)
                /\ Found(th[t].prev)
                /\ th[t].prev # 0 => th[t].pc = "suspend"

LEMMA HolderIs ==
  ASSUME NEW t \in Threads, NEW b, NEW c, NEW n, b = th'[t].buf, c = th'[t].prev, n = th'[t].num,
         th'[t].pc # "append" => Found(b)', Has(b, n)', Found(c)', c # 0 => th'[t].pc = "suspend"
  PROVE  HolderInv(t)'
BY DEF HolderInv, Found, Has

LEMMA OwnHolderStep ==
  ASSUME TypeInv, RegistryInv, NEW t \in Threads, ThreadStep(t)
  PROVE  HolderInv(t)'
<1> PICK b, c, n : b = th'[t].buf /\ c = th'[t].prev /\ n = th'[t].num
  OBVIOUS
<1>1. /\ th[t].pc # "append" => Found(th[t].buf)
      /\ Has(th[t].buf, th[t].num) /\ Found(th[t].prev)
      /\ th[t].prev # 0 => th[t].pc = "suspend"
      /\ th[t].buf \in 0 .. Len(bufs) /\ th[t].prev \in 0 .. Len(bufs) /\ Len(bufs) \in Nat
  BY Somewhere, RegistryTypes DEF RegistryInv, HoldersInv, TypeInv
<1>2. Found(0)' /\ Has(0, n)'
  BY DEF Found, Has
<1>3. b = th[t].buf /\ n = th[t].num => Has(b, n)'
  BY <1>1, HasStep
<1>4. c = th[t].prev => Found(c)'
  BY <1>1, FoundStep
<1>5. b = th[t].buf /\ th[t].pc # "append" => Found(b)'
  BY <1>1, FoundStep
<1>6. CASE th' = th
  BY <1>1, <1>3, <1>4, <1>5, <1>6, HolderIs
<1>7. CASE AppendNode(t) /\ Goes1(t, "append", "attach")
  <2>1. b = th[t].buf /\ c = th[t].prev /\ n = th[t].num /\ c = 0
    BY <1>1, <1>7 DEF Goes1, Keeps
  <2>2. b # 0 /\ \A j \in 1 .. Len(nodes) : nodes[j].bdata = b => j = th[t].node
    BY <1>7, <2>1, ActionPoints DEF RegistryInv, OpeningInv
  <2>3. ASSUME NEW k \in 1 .. Len(nodes'), nodes'[k].bdata = b PROVE Listed(k)'
    <3>1. k \in 1 .. Len(nodes) /\ nodes[k].bdata = b
      BY <1>1, <2>1, <2>2, <2>3, BdataStep
    <3>2. QED
      BY <1>7, <2>2, <3>1, ListedStep
  <2>4. Found(b)'
    BY <2>3 DEF Found
  <2>5. QED
    BY <1>3, <1>4, <2>1, <2>4, HolderIs
<1>8. CASE Keeps(t) /\ th[t].pc \notin {"append", "suspend"}
  <2>1. b = th[t].buf /\ c = th[t].prev /\ n = th[t].num /\ c = 0
    BY <1>1, <1>8 DEF Keeps
  <2>2. QED
    BY <1>3, <1>4, <1>5, <1>8, <2>1, HolderIs
<1>9. CASE Look(t)
  <2>1. b = find_buffer(n) /\ n = th[t].ans /\ c = th[t].prev /\ c = 0 /\ UNCHANGED <<nodes, list, bufs>>
    BY <1>1, <1>9, FindsAre, ActionPoints DEF LookIs, Looks
  <2>2. Found(b) /\ Has(b, n)
    BY <2>1, LooksFine DEF RegistryInv
  <2>3. Found(b)' /\ Has(b, n)'
    BY <2>1, <2>2 DEF Found, Has, Listed
  <2>4. QED
    BY <1>2, <2>1, <2>3, HolderIs
<1>10. CASE FindPrevious(t)
  <2>1. /\ b = th[t].buf /\ n = th[t].num /\ c = find_buffer(th[t].ans)
        /\ th'[t].pc = "suspend" /\ UNCHANGED <<nodes, list, bufs>>
    BY <1>10, FindsAre DEF PreviousIs
  <2>2. Found(c)
    BY <2>1, LooksFine DEF RegistryInv
  <2>3. Found(c)'
    BY <2>1, <2>2 DEF Found, Listed
  <2>4. th[t].pc # "append"
    BY <1>10, ActionPoints
  <2>5. QED
    BY <1>3, <1>5, <2>1, <2>3, <2>4, HolderIs
<1>11. CASE Suspend(t)
  <2>1. b = th[t].buf /\ n = th[t].num /\ c = 0 /\ th[t].pc = "suspend"
    BY <1>11, FindsAre, ActionPoints DEF SuspendIs
  <2>2. QED
    BY <1>2, <1>3, <1>5, <2>1, HolderIs
<1>12. CASE FindNode(t)
  <2>1. b = 0 /\ c = th[t].prev /\ c = 0
    BY <1>1, <1>12, FindsAre, ActionPoints DEF NodeIs
  <2>2. QED
    BY <1>2, <2>1, HolderIs
<1>13. CASE MakeBuffer(t)
  <2>1. /\ n = th[t].num /\ c = th[t].prev /\ c = 0
        /\ th'[t].pc = IF th[t].ans \in Known THEN "append" ELSE "failed"
        /\ b = IF th[t].ans \in Known THEN Len(bufs) + 1 ELSE 0
    BY <1>1, <1>13, FindsAre, ActionPoints DEF BufferIs
  <2>2. CASE th[t].ans \in Known
    <3>1. Has(b, n)'
      BY <1>13, <2>1, <2>2, NewBuffer DEF Has
    <3>2. QED
      BY <1>2, <2>1, <2>2, <3>1, HolderIs
  <2>3. CASE th[t].ans \notin Known
    BY <1>2, <2>1, <2>3, HolderIs
  <2>4. QED
    BY <2>2, <2>3
<1>14. ~ (FreeNode(t) /\ nodes[th[t].node].bdata # 0)
  BY ActionPoints DEF RegistryInv, OpeningInv
<1>15. CASE Simply(t)
  BY <1>8, <1>15 DEF Simply, Goes1
<1>16. CASE Changes(t)
  <2>1. CASE ~ Goes1(t, "append", "attach")
    BY <1>8, <1>16, <2>1 DEF Changes, Goes1
  <2>2. CASE Goes1(t, "append", "attach")
    BY <1>7, <1>16, <2>2 DEF Changes, Goes1
  <2>3. QED
    BY <2>1, <2>2
<1>17. CASE Finds(t)
  BY <1>9, <1>10, <1>11, <1>12, <1>13, <1>14, <1>17 DEF Finds
<1>18. QED
  BY <1>6, <1>15, <1>16, <1>17, Moves

LEMMA HoldersThreadStep ==
  ASSUME TypeInv, RegistryInv, NEW t \in Threads, ThreadStep(t)
  PROVE  HoldersInv'
<1>1. /\ \A u \in Threads : u # t => th'[u] = th[u]
      /\ loop' = loop
  BY OthersStay
<1>2. Found(loop.buf)' /\ Has(loop.buf, loop.num)'
  <2> PICK b, n : b = loop.buf /\ n = loop.num
    OBVIOUS
  <2>1. b \in 0 .. Len(bufs) /\ Found(b) /\ Has(b, n)
    BY LoopIs DEF RegistryInv, HoldersInv
  <2>2. Found(b)' /\ Has(b, n)'
    BY <2>1, FoundStep, HasStep
  <2>3. QED
    BY <1>1, <2>2 DEF Found, Has
<1>3. ASSUME NEW u \in Threads, u # t PROVE HolderInv(u)'
  <2> PICK b, c, n : b = th[u].buf /\ c = th[u].prev /\ n = th[u].num
    OBVIOUS
  <2>1. /\ b \in 0 .. Len(bufs) /\ c \in 0 .. Len(bufs)
        /\ th[u].pc # "append" => Found(b)
        /\ Has(b, n) /\ Found(c)
        /\ c # 0 => th[u].pc = "suspend"
    BY Somewhere DEF RegistryInv, HoldersInv
  <2>2. (Found(b) => Found(b)') /\ Has(b, n)' /\ Found(c)'
    BY <2>1, FoundStep, HasStep
  <2>3. QED
    BY <1>1, <1>3, <2>1, <2>2, HolderIs
<1>4. NodeOf(loop.node, loop.num)'
  <2> PICK k, n : k = loop.node /\ n = loop.num
    OBVIOUS
  <2>1. k \in 0 .. Len(nodes) /\ Len(nodes) \in Nat /\ (k # 0 => Listed(k) /\ nodes[k].num = n)
    BY LoopIs, RegistryTypes DEF RegistryInv, HoldersInv, NodeOf, TypeInv
  <2>2. NodeOf(k, n)'
    BY <2>1, ListedStep, NodeStep DEF NodeOf
  <2>3. QED
    BY <1>1, <2>2 DEF NodeOf, Listed
<1>5. QED
  BY <1>1, <1>2, <1>3, <1>4, OwnHolderStep DEF HoldersInv, HolderInv

-----------------------------------------------------------------------------
(* What destroy_buffer closes.                                             *)
LEMMA Closes ==
  ASSUME TypeInv, RegistryInv, NEW t \in Threads, CloseNode(t), ThreadStep(t)
  PROVE  /\ UNCHANGED list /\ Len(nodes') = Len(nodes) /\ closed' = closed \cup {th[t].num}
         /\ th[t].pc = "unlist" /\ th[t].buf # 0
         /\ \A k \in 1 .. Len(nodes) :
              /\ nodes'[k].num = nodes[k].num /\ nodes'[k].alive = nodes[k].alive
              /\ IF Listed(k) /\ nodes[k].num = th[t].num
                 THEN nodes[k].writer = None /\ ~ nodes'[k].isopen /\ nodes'[k].bdata = 0
                 ELSE nodes'[k].isopen = nodes[k].isopen /\ nodes'[k].bdata = nodes[k].bdata
<1>1. UNCHANGED list /\ closed' = closed \cup {th[t].num} /\ Use(t, "unlist") /\ Walk(t, th[t].num)
  BY DEF CloseNode
<1>2. th[t].pc = "unlist" /\ th[t].buf # 0
  BY <1>1 DEF Use, At, Alive
<1>3. Len(nodes') = Len(nodes)
  BY <1>2, NewNodes, ActionPoints
<1>4. PICK k0 : k0 = find_buffer_node(th[t].num)
  OBVIOUS
<1>5. ASSUME NEW k \in 1 .. Len(nodes)
      PROVE  /\ nodes'[k].num = nodes[k].num /\ nodes'[k].alive = nodes[k].alive
             /\ IF Listed(k) /\ nodes[k].num = th[t].num
                THEN nodes[k].writer = None /\ ~ nodes'[k].isopen /\ nodes'[k].bdata = 0
                ELSE nodes'[k].isopen = nodes[k].isopen /\ nodes'[k].bdata = nodes[k].bdata
  <2>1. nodes'[k].num = nodes[k].num /\ nodes'[k].alive = nodes[k].alive
    BY <1>2, NodeStep, NodeFields, ActionPoints
  <2>2. nodes'[k] = IF k = k0 THEN [nodes[k0] EXCEPT !.isopen = FALSE, !.bdata = 0] ELSE nodes[k]
    BY <1>4, NodeClosed DEF NodesBecome
  <2>3. k = k0 => ~ nodes'[k].isopen /\ nodes'[k].bdata = 0
    BY <2>2, NodeTypes DEF NodeRecs, TypeInv
  <2>4. k # 0
    BY RegistryTypes DEF TypeInv
  <2>5. k = k0 <=> Listed(k) /\ nodes[k].num = th[t].num
    BY <1>4, <2>4, ListedIs, OnlyListed DEF RegistryInv
  <2>6. k = k0 => nodes[k].writer = None
    BY <1>1, <1>4, <2>4, Walked
  <2>7. QED
    BY <2>1, <2>2, <2>3, <2>5, <2>6
<1>6. QED
  BY <1>1, <1>2, <1>3, <1>5

(* Threads that are not working only close nodes.                          *)
LEMMA Bystanders ==
  ASSUME TypeInv, RegistryInv, NEW t \in Threads, ThreadStep(t), ~ Working(t)
  PROVE  UNCHANGED <<nodes, list, closed>> \/ CloseNode(t)
<1>1. th[t].pc \notin Works
  BY WorkersWork DEF RegistryInv
<1>2. ~ Finds(t)
  BY <1>1 DEF Finds, Works, Opens, Settled
<1>3. CASE Changes(t) /\ ~ CloseNode(t)
  <2>1. th[t].pc \in {"drain", "free", "work", "leave"}
    BY <1>1, <1>3 DEF Changes, Goes1, Works, Opens, Settled
  <2>2. th[t].pc = "free" => th[t].node = 0
    BY DEF RegistryInv, DestroyInv, Destroys
  <2>3. ~ FindNode(t) /\ ~ OpenNode(t) /\ ~ MakeBuffer(t) /\ ~ FreeNode(t) /\ ~ AppendNode(t)
    BY <2>1, ActionPoints
  <2>4. FreeBuffer(t) => nodes' = nodes
    BY <2>2, ActionPoints DEF FreeBuffer
  <2>5. nodes' = nodes
    BY <1>3, <2>3, <2>4, NodesUnchanged
  <2>6. QED
    BY <1>3, <2>3, <2>5, RestKept
<1>4. QED
  BY <1>2, <1>3, Moves

LEMMA OthersOpening ==
  ASSUME TypeInv, WriterInv, RegistryInv, NEW t \in Threads, ThreadStep(t), NEW u \in Threads, u # t
  PROVE  OpeningInv(u)'
<1>1. th'[u] = th[u] /\ OpeningInv(u)
  BY OthersStay DEF RegistryInv
<1>2. CASE UNCHANGED <<nodes, list, closed>>
  BY <1>1, <1>2 DEF OpeningInv, Listed, Holds
<1>3. CASE Working(t)
  <2>1. th[u].pc \notin Works
    BY <1>3, OnlyOne, WorkersWork DEF RegistryInv
  <2>2. QED
    BY <1>1, <2>1 DEF OpeningInv, Works, Opens, Settled
<1>4. CASE CloseNode(t)
  <2> PICK k, n, b, p : k = th[u].node /\ n = th[u].num /\ b = th[u].buf /\ p = th[u].pc
    OBVIOUS
  <2>1. /\ \A j : Listed(j)' <=> Listed(j)
        /\ Len(list') = Len(list) /\ Len(nodes') = Len(nodes) /\ closed' = closed \cup {th[t].num}
    BY <1>4, Closes DEF Listed
  <2>2. \A j \in 1 .. Len(nodes) :
          /\ nodes'[j].num = nodes[j].num /\ nodes'[j].alive = nodes[j].alive
          /\ IF Listed(j) /\ nodes[j].num = th[t].num
             THEN nodes[j].writer = None /\ ~ nodes'[j].isopen /\ nodes'[j].bdata = 0
             ELSE nodes'[j].isopen = nodes[j].isopen /\ nodes'[j].bdata = nodes[j].bdata
    BY <1>4, Closes
  <2>3. p \in {"open", "make", "append", "failed"} => k \in 1 .. Len(nodes)
    BY Somewhere, RegistryTypes DEF TypeInv, ThreadSound
  <2>4. p \in {"open", "make", "append", "failed"} =>
          /\ nodes'[k].num = n /\ nodes'[k].alive
          /\ \A j \in 1 .. Len(nodes') : Listed(j)' /\ nodes'[j].num = n => j = k
    BY <1>1, <2>1, <2>2, <2>3 DEF OpeningInv
  <2>5. p = "open" => ~ nodes'[k].isopen
    BY <1>1, <2>2, <2>3 DEF OpeningInv
  <2>6. p = "make" => /\ nodes'[k].isopen /\ nodes'[k].bdata = 0
    <3>1. p = "make" => nodes[k].writer = u
      BY DEF WriterInv
    <3>2. u # None
      BY RegistryAssumption DEF Threads
    <3>3. QED
      BY <1>1, <2>1, <2>2, <2>3, <3>1, <3>2 DEF OpeningInv
  <2>7. p = "append" => /\ b # 0
                        /\ nodes'[k].isopen => nodes'[k].bdata # 0
                        /\ nodes'[k].isopen \/ n \in closed'
                        /\ \A j \in 1 .. Len(nodes') : nodes'[j].bdata = b => j = k
    <3> SUFFICES ASSUME p = "append"
                 PROVE  /\ b # 0
                        /\ nodes'[k].isopen => nodes'[k].bdata # 0
                        /\ nodes'[k].isopen \/ n \in closed'
                        /\ \A j \in 1 .. Len(nodes') : nodes'[j].bdata = b => j = k
      OBVIOUS
    <3>1. /\ b # 0 /\ nodes[k].num = n
          /\ nodes[k].isopen => nodes[k].bdata # 0
          /\ nodes[k].isopen \/ n \in closed
          /\ \A j \in 1 .. Len(nodes) : nodes[j].bdata = b => j = k
      BY <1>1 DEF OpeningInv
    <3>2. nodes'[k].isopen => nodes'[k].bdata # 0
      BY <2>2, <2>3, <3>1
    <3>3. nodes'[k].isopen \/ n \in closed'
      BY <2>1, <2>2, <2>3, <3>1
    <3>4. \A j \in 1 .. Len(nodes') : nodes'[j].bdata = b => j = k
      BY <2>1, <2>2, <3>1
    <3>5. QED
      BY <3>1, <3>2, <3>3, <3>4
  <2>8. p = "failed" => ~ Listed(k)' /\ nodes'[k].bdata = 0 /\ nodes'[k].isopen
    BY <1>1, <2>1, <2>2, <2>3 DEF OpeningInv
  <2>9. ASSUME NEW c, Holds(n, c) PROVE Holds(n, c)'
    BY <2>1, <2>2, <2>9 DEF Holds
  <2>10. /\ p = "find" => Holds(n, 0)'
         /\ p \in {"previous", "suspend"} => Holds(n, b)'
         /\ p \in {"start", "init"} => Len(nodes') = 0 /\ Len(list') = 0
    BY <1>1, <2>1, <2>9 DEF OpeningInv
  <2>11. QED
    BY <1>1, <2>4, <2>5, <2>6, <2>7, <2>8, <2>10 DEF OpeningInv, Holds
<1>5. QED
  BY <1>2, <1>3, <1>4, Bystanders

(* The thread that moves: at the points that OpeningInv is about.          *)
LEMMA OpenIs ==
  ASSUME TypeInv, RegistryInv, NEW t \in Threads, FindNode(t), ThreadStep(t)
  PROVE  OpeningInv(t)'
<1> PICK k, n : k = th'[t].node /\ n = th'[t].num
  OBVIOUS
<1>1. /\ th'[t].pc = "open" /\ n = OpeningNum(t)
      /\ k = IF find_buffer_node(n) # 0 THEN find_buffer_node(n) ELSE Len(nodes) + 1
      /\ UNCHANGED <<list, bufs, closed>>
  BY FindsAre DEF NodeIs
<1>2. Len(nodes) \in Nat /\ Len(nodes') \in Nat /\ Len(nodes) <= Len(nodes') /\ k \in 1 .. Len(nodes')
      /\ Len(list) \in Nat
  <2>1. k \in 1 .. Len(nodes')
    <3>1. (IF find_buffer_node(OpeningNum(t)) # 0 THEN find_buffer_node(OpeningNum(t)) ELSE Len(nodes) + 1) \in 1 .. Len(nodes')
      BY FoundOrMade
    <3>2. QED
      BY <1>1, <3>1
  <2>2. QED
    BY <2>1, RegistryTypes, ThreadAllocs DEF TypeInv
<1>3. \A j \in 1 .. Len(nodes) : /\ nodes'[j].num = nodes[j].num /\ nodes'[j].alive = nodes[j].alive
                                 /\ nodes'[j].isopen = nodes[j].isopen
  BY ActionPoints, NodeStep, NodeFields
<1>4. \A j : Listed(j)' <=> Listed(j)
  BY <1>1 DEF Listed
<1>5. \A j \in 1 .. Len(nodes') : Listed(j)' => j \in 1 .. Len(nodes) /\ nodes'[j].num = nodes[j].num
  BY <1>3, NewNode
<1>6. CASE find_buffer_node(n) # 0
  <2>1. k = find_buffer_node(n) /\ k \in 1 .. Len(nodes) /\ Listed(k) /\ nodes[k].num = n
    BY <1>1, <1>6, ListedIs
  <2>2. nodes'[k].num = n /\ nodes'[k].alive
    BY <1>3, <2>1 DEF RegistryInv, NodesInv, OwnNumber
  <2>3. \A j \in 1 .. Len(nodes') : Listed(j)' /\ nodes'[j].num = n => j = k
    BY <1>4, <1>5, <2>1 DEF RegistryInv, NodesInv, OwnNumber
  <2>4. th[t].pc # "init"
    <3>1. Len(list) # 0
      BY <1>2, <2>1 DEF Listed
    <3>2. QED
      BY <3>1 DEF RegistryInv, OpeningInv
  <2>5. th[t].pc = "find" /\ n = th[t].num
    BY <1>1, <2>4, ActionPoints DEF OpeningNum, At
  <2>6. ~ nodes[k].isopen
    BY <2>1, <2>5 DEF RegistryInv, OpeningInv, Holds
  <2>7. ~ nodes'[k].isopen
    BY <1>3, <2>1, <2>6
  <2>8. QED
    BY <1>1, <2>2, <2>3, <2>7 DEF OpeningInv
<1>7. CASE find_buffer_node(n) = 0
  <2>1. k \notin 1 .. Len(nodes)
    BY <1>1, <1>2, <1>7
  <2>2. nodes'[k].num = n /\ nodes'[k].alive /\ ~ nodes'[k].isopen
    BY <1>1, <1>2, <2>1, NewNode
  <2>3. \A j \in 1 .. Len(nodes') : ~ (Listed(j)' /\ nodes'[j].num = n)
    BY <1>4, <1>5, <1>7, ListedIs
  <2>4. QED
    BY <1>1, <2>2, <2>3 DEF OpeningInv
<1>8. QED
  BY <1>6, <1>7

LEMMA OpenedIs ==
  ASSUME TypeInv, RegistryInv, NEW t \in Threads, OpenNode(t), ThreadStep(t)
  PROVE  OpeningInv(t)'
<1> PICK k, n : k = th[t].node /\ n = th[t].num
  OBVIOUS
<1>1. /\ th[t].pc = "open" /\ k \in 1 .. Len(nodes)
      /\ nodes[k].num = n /\ nodes[k].alive /\ ~ nodes[k].isopen
      /\ \A j \in 1 .. Len(nodes) : Listed(j) /\ nodes[j].num = n => j = k
  <2>1. th[t].pc = "open"
    BY ActionPoints
  <2>2. k \in 1 .. Len(nodes)
    BY <2>1, Somewhere, RegistryTypes DEF TypeInv, ThreadSound
  <2>3. QED
    BY <2>1, <2>2 DEF RegistryInv, OpeningInv
<1>2. Call(t, "make", ft[n]) /\ UNCHANGED list
  BY <1>1 DEF OpenNode
<1>3. th'[t].pc = "make" /\ th'[t].node = k /\ th'[t].num = n
  BY <1>2, Going DEF Keeps
<1>4. \A j \in 1 .. Len(nodes) : nodes'[j] = IF j = k THEN [nodes[k] EXCEPT !.isopen = TRUE, !.writer = t] ELSE nodes[j]
  BY <1>1, NodesOpened DEF NodesBecome
<1>5. nodes[k].bdata = 0
  BY <1>1 DEF RegistryInv, NodesInv, OwnBuffer
<1>6. /\ nodes'[k].isopen /\ nodes'[k].bdata = 0 /\ nodes'[k].num = n /\ nodes'[k].alive
  <2>1. nodes[k] \in NodeRecs(Len(bufs))
    BY <1>1, NodeTypes DEF TypeInv
  <2>2. nodes'[k] = [nodes[k] EXCEPT !.isopen = TRUE, !.writer = t]
    BY <1>1, <1>4
  <2>3. QED
    BY <1>1, <1>5, <2>1, <2>2 DEF NodeRecs
<1>7. \A j : Listed(j)' <=> Listed(j)
  BY <1>2 DEF Listed
<1>8. Len(nodes') = Len(nodes) /\ \A j \in 1 .. Len(nodes) : nodes'[j].num = nodes[j].num
  BY <1>1, NewNodes, NodeStep, ActionPoints
<1>9. \A j \in 1 .. Len(nodes') : Listed(j)' /\ nodes'[j].num = n => j = k
  BY <1>1, <1>7, <1>8
<1>10. QED
  BY <1>3, <1>6, <1>8, <1>9 DEF OpeningInv

LEMMA MadeIs ==
  ASSUME TypeInv, RegistryInv, NEW t \in Threads, MakeBuffer(t), ThreadStep(t), ~ refused'
  PROVE  OpeningInv(t)'
<1> PICK k, n : k = th[t].node /\ n = th[t].num
  OBVIOUS
<1>1. th[t].pc = "make" /\ k \in 1 .. Len(nodes) /\ Len(bufs) \in Nat
  BY ActionPoints, Somewhere, RegistryTypes DEF TypeInv, ThreadSound
<1>2. /\ nodes[k].num = n /\ nodes[k].alive /\ nodes[k].isopen /\ nodes[k].bdata = 0
      /\ \A j \in 1 .. Len(nodes) : Listed(j) /\ nodes[j].num = n => j = k
      /\ th[t].ans \in Known \/ ~ Listed(k)
  <2>1. th[t].ans \in Known \/ ~ Listed(k)
    BY DEF MakeBuffer, Listed
  <2>2. QED
    BY <1>1, <2>1 DEF RegistryInv, OpeningInv
<1>3. UNCHANGED <<list, closed>> /\ \A j : Listed(j)' <=> Listed(j)
  BY FindsAre DEF Listed
<1>4. Len(nodes') = Len(nodes) /\ \A j \in 1 .. Len(nodes) : nodes'[j].num = nodes[j].num /\ nodes'[j].alive = nodes[j].alive
  BY <1>1, NewNodes, NodeStep, NodeFields, ActionPoints
<1>5. /\ nodes'[k].num = n /\ nodes'[k].alive
      /\ \A j \in 1 .. Len(nodes') : Listed(j)' /\ nodes'[j].num = n => j = k
  BY <1>1, <1>2, <1>3, <1>4
<1>6. /\ nodes'[k].isopen
      /\ nodes'[k].bdata = IF th[t].ans \in Known THEN Len(bufs) + 1 ELSE 0
  <2>1. PICK b : b = IF th[t].ans \in Known THEN Len(bufs) + 1 ELSE nodes[k].bdata
    OBVIOUS
  <2>2. nodes'[k] = [nodes[k] EXCEPT !.writer = None, !.bdata = b]
    BY <1>1, <2>1, Made DEF NodesBecome
  <2>3. nodes'[k].isopen = nodes[k].isopen /\ nodes'[k].bdata = b
    BY <1>1, <2>2, NodeTypes DEF NodeRecs, TypeInv
  <2>4. QED
    BY <1>2, <2>1, <2>3
<1>7. /\ th'[t].pc = IF th[t].ans \in Known THEN "append" ELSE "failed"
      /\ th'[t].buf = IF th[t].ans \in Known THEN Len(bufs) + 1 ELSE 0
      /\ th'[t].num = n /\ th'[t].node = k
  BY FindsAre DEF BufferIs
<1>8. CASE th[t].ans \in Known
  <2>1. \A j \in 1 .. Len(nodes') : nodes'[j].bdata = Len(bufs) + 1 => j = k
    <3>1. ASSUME NEW j \in 1 .. Len(nodes'), nodes'[j].bdata = Len(bufs) + 1, j # k PROVE FALSE
      BY <1>1, <3>1, BdataStep
    <3>2. QED
      BY <3>1
  <2>2. Len(bufs) + 1 # 0
    BY <1>1
  <2>3. PICK b : b = Len(bufs) + 1
    OBVIOUS
  <2>4. th'[t].pc = "append" /\ th'[t].buf = b /\ b # 0 /\ nodes'[k].bdata = b
        /\ \A j \in 1 .. Len(nodes') : nodes'[j].bdata = b => j = k
    BY <1>6, <1>7, <1>8, <2>1, <2>2, <2>3
  <2>5. QED
    BY <1>2, <1>3, <1>5, <1>6, <1>7, <1>8, <2>4 DEF OpeningInv
<1>9. CASE th[t].ans \notin Known
  BY <1>2, <1>3, <1>5, <1>6, <1>7, <1>9 DEF OpeningInv
<1>10. QED
  BY <1>8, <1>9

LEMMA SeekingIs ==
  ASSUME TypeInv, RegistryInv, NEW t \in Threads, ThreadStep(t), Look(t) \/ FindPrevious(t) \/ Suspend(t) \/ FreeBuffer(t)
  PROVE  OpeningInv(t)'
<1> PICK n, b, p : n = th'[t].num /\ b = th'[t].buf /\ p = th'[t].pc
  OBVIOUS
<1>1. ASSUME UNCHANGED <<nodes, list>>, p \notin {"open", "make", "append", "failed", "start", "init"},
             p = "find" => Holds(n, 0), p \in {"previous", "suspend"} => Holds(n, b)
      PROVE  OpeningInv(t)'
  <2>1. (p = "find" => Holds(n, 0)') /\ (p \in {"previous", "suspend"} => Holds(n, b)')
    BY <1>1 DEF Holds, Listed
  <2>2. QED
    BY <1>1, <2>1 DEF OpeningInv, Holds
<1>2. CASE Look(t)
  <2>1. /\ p = LooksTo(t) /\ n = th[t].ans /\ b = find_buffer(n) /\ UNCHANGED <<nodes, list>>
        /\ Walk(t, n) /\ th[t].pc \in Looks
        /\ p \in {"end", "previous", "compare", "find", "update"}
    BY <1>2, FindsAre, ActionPoints, Looked DEF LookIs, Look
  <2>2. Holds(n, b)
    BY <2>1, LooksFine DEF RegistryInv
  <2>3. p = "find" => b = 0
    BY <2>1 DEF LooksTo, Looks
  <2>4. QED
    BY <1>1, <2>1, <2>2, <2>3
<1>3. CASE FindPrevious(t)
  <2>1. p = "suspend" /\ n = th[t].num /\ b = th[t].buf /\ UNCHANGED <<nodes, list>> /\ th[t].pc = "previous"
    BY <1>3, FindsAre, ActionPoints DEF PreviousIs
  <2>2. Holds(n, b)
    BY <2>1 DEF RegistryInv, OpeningInv
  <2>3. QED
    BY <1>1, <2>1, <2>2
<1>4. CASE Suspend(t)
  <2>1. /\ p = IF b # 0 /\ bufs[b].initialized THEN "update" ELSE "find"
        /\ n = th[t].num /\ b = th[t].buf /\ UNCHANGED <<nodes, list>> /\ th[t].pc = "suspend"
    BY <1>4, FindsAre, ActionPoints DEF SuspendIs
  <2>2. Holds(n, b)
    BY <2>1 DEF RegistryInv, OpeningInv
  <2>3. ASSUME p = "find", NEW k \in 1 .. Len(nodes), Listed(k), nodes[k].num = n, nodes[k].isopen
        PROVE  FALSE
    <3>1. b # 0 /\ nodes[k].bdata = b
      BY <2>2, <2>3 DEF Holds
    <3>2. ~ bufs[b].initialized
      BY <2>1, <2>3, <3>1
    <3>3. PICK u \in Threads : th[u].pc \in {"append", "attach", "lines", "got_lines"}
      BY <2>3, <3>1, <3>2 DEF RegistryInv, NodesInv, LinesCome
    <3>4. Working(u) /\ Working(t)
      BY <2>1, <3>3, WorkersWork DEF RegistryInv, Works, Opens, Settled
    <3>5. u = t
      BY <3>4, OnlyOne DEF RegistryInv
    <3>6. QED
      BY <2>1, <3>3, <3>5
  <2>4. p = "find" => Holds(n, 0)
    BY <2>3 DEF Holds
  <2>5. QED
    BY <1>1, <2>1, <2>4
<1>5. CASE FreeBuffer(t)
  <2>1. /\ th[t].pc = "free" /\ p = (IF th[t].kind = "syntax" /\ th[t].node = 0 THEN "find" ELSE "end")
        /\ n = th[t].num
    BY <1>5, ActionPoints, Going DEF FreeBuffer, Keeps
  <2>2. th[t].node = 0 /\ (th[t].kind = "syntax" => Holds(n, 0))
    BY <2>1 DEF RegistryInv, DestroyInv, Destroys
  <2>3. UNCHANGED <<nodes, list>>
    BY <1>5, <2>2 DEF FreeBuffer
  <2>4. QED
    BY <1>1, <2>1, <2>2, <2>3
<1>6. QED
  BY <1>2, <1>3, <1>4, <1>5

LEMMA OwnOpening ==
  ASSUME TypeInv, RegistryInv, NEW t \in Threads, ThreadStep(t), ~ refused'
  PROVE  OpeningInv(t)'
<1>1. ASSUME th'[t].pc \notin {"open", "make", "append", "failed", "find", "previous", "suspend", "start", "init"}
      PROVE  OpeningInv(t)'
  BY <1>1 DEF OpeningInv
<1>2. CASE th' = th /\ UNCHANGED <<nodes, list, closed>>
  <2>1. OpeningInv(t)
    BY DEF RegistryInv
  <2>2. QED
    BY <1>2, <2>1 DEF OpeningInv, Holds, Listed
<1>3. CASE Simply(t) /\ UNCHANGED <<nodes, list>>
  <2>1. CASE Goes1(t, "start", "init")
    <3>1. th[t].pc = "start" /\ th'[t].pc = "init"
      BY <2>1 DEF Goes1
    <3>2. Len(nodes) = 0 /\ Len(list) = 0
      BY <3>1 DEF RegistryInv, OpeningInv
    <3>3. QED
      BY <1>3, <3>1, <3>2 DEF OpeningInv
  <2>2. CASE Goes1(t, "lock", th[t].kind)
    <3>1. th'[t].pc \in Kinds
      BY <2>2, KindOf DEF Goes1, RegistryInv
    <3>2. QED
      BY <1>1, <3>1, RegistryAssumption
  <2>3. QED
    BY <1>1, <1>3, <2>1, <2>2 DEF Simply, Goes1
<1>4. ~ (FreeNode(t) /\ nodes[th[t].node].bdata # 0)
  BY ActionPoints DEF RegistryInv, OpeningInv
<1>5. CASE Changes(t)
  <2>1. CASE OpenNode(t)
    BY <2>1, OpenedIs
  <2>2. CASE FreeBuffer(t)
    BY <2>2, SeekingIs
  <2>3. QED
    BY <1>1, <1>5, <2>1, <2>2 DEF Changes, Goes1
<1>6. CASE Finds(t)
  BY <1>4, <1>6, OpenIs, MadeIs, SeekingIs DEF Finds
<1>7. QED
  BY <1>2, <1>3, <1>5, <1>6, Moves

LEMMA OthersDestroy ==
  ASSUME TypeInv, RegistryInv, NEW t \in Threads, ThreadStep(t), NEW u \in Threads, u # t
  PROVE  DestroyInv(u)'
<1> PICK n, b, p : n = th[u].num /\ b = th[u].buf /\ p = th[u].pc
  OBVIOUS
<1>1. th'[u] = th[u] /\ DestroyInv(u) /\ b \in 0 .. Len(bufs) /\ Len(bufs) \in Nat
  BY OthersStay, Somewhere, RegistryTypes DEF RegistryInv, TypeInv
<1>2. ASSUME p \in {"drain", "free"}, NEW k \in 1 .. Len(nodes'), nodes'[k].bdata = b PROVE FALSE
  <2>1. b # 0 /\ \A j \in 1 .. Len(nodes) : nodes[j].bdata # b
    BY <1>1, <1>2 DEF DestroyInv
  <2>2. QED
    BY <1>1, <1>2, <2>1, BdataStep
<1>3. ASSUME p \in {"drain", "free"}, th[u].kind = "syntax" PROVE Holds(n, 0)'
  <2>1. Holds(n, 0)
    BY <1>1, <1>3 DEF DestroyInv
  <2>2. Working(u)
    BY <1>3, KindOf, WorkersWork DEF RegistryInv, Destroys
  <2>3. ~ Working(t)
    BY <2>2, OnlyOne DEF RegistryInv
  <2>4. CASE UNCHANGED <<nodes, list>>
    BY <2>1, <2>4 DEF Holds, Listed
  <2>5. CASE CloseNode(t)
    <3>1. \A j : Listed(j)' <=> Listed(j)
      BY <2>5, Closes DEF Listed
    <3>2. /\ Len(nodes') = Len(nodes)
          /\ \A j \in 1 .. Len(nodes) : nodes'[j].num = nodes[j].num /\ (nodes'[j].isopen => nodes[j].isopen)
      BY <2>5, Closes
    <3>3. ASSUME NEW j \in 1 .. Len(nodes'), Listed(j)', nodes'[j].num = n PROVE ~ nodes'[j].isopen
      <4>1. j \in 1 .. Len(nodes) /\ Listed(j)
        BY <3>1, <3>2, <3>3
      <4>2. nodes[j].num = n /\ (nodes'[j].isopen => nodes[j].isopen)
        BY <3>2, <3>3, <4>1
      <4>3. ~ nodes[j].isopen
        BY <2>1, <4>1, <4>2 DEF Holds
      <4>4. QED
        BY <4>2, <4>3
    <3>4. QED
      BY <3>3 DEF Holds
  <2>6. QED
    BY <2>3, <2>4, <2>5, Bystanders
<1>4. QED
  BY <1>1, <1>2, <1>3 DEF DestroyInv, Holds

LEMMA ClosedIs ==
  ASSUME TypeInv, RegistryInv, NEW t \in Threads, CloseNode(t), ThreadStep(t)
  PROVE  DestroyInv(t)'
<1> PICK n, b : n = th[t].num /\ b = th[t].buf
  OBVIOUS
<1>1. th[t].pc = "unlist" /\ b # 0 /\ th[t].node = 0
  BY Closes DEF RegistryInv, DestroyInv, Destroys
<1>2. th'[t].pc = "drain" /\ th'[t].num = n /\ th'[t].buf = b /\ th'[t].node = 0
  BY <1>1, Going DEF CloseNode, Keeps
<1>3. /\ Len(nodes') = Len(nodes) /\ \A j : Listed(j)' <=> Listed(j)
      /\ \A j \in 1 .. Len(nodes) :
           /\ nodes'[j].num = nodes[j].num
           /\ IF Listed(j) /\ nodes[j].num = n THEN ~ nodes'[j].isopen /\ nodes'[j].bdata = 0
              ELSE nodes'[j].bdata = nodes[j].bdata
  BY Closes DEF Listed
<1>4. Found(b) /\ Has(b, n)
  BY <1>1 DEF RegistryInv, HoldersInv
<1>5. ASSUME NEW k \in 1 .. Len(nodes'), nodes'[k].bdata = b PROVE FALSE
  <2>1. nodes[k].bdata = b /\ ~ (Listed(k) /\ nodes[k].num = n)
    BY <1>1, <1>3, <1>5
  <2>2. Listed(k)
    BY <1>1, <1>3, <1>4, <2>1 DEF Found
  <2>3. nodes[k].num = n
    BY <1>1, <1>3, <1>4, <2>1 DEF Has, RegistryInv, NodesInv, OwnBuffer
  <2>4. QED
    BY <2>1, <2>2, <2>3
<1>6. Holds(n, 0)'
  BY <1>3 DEF Holds
<1>7. QED
  BY <1>1, <1>2, <1>5, <1>6 DEF DestroyInv, Holds

LEMMA OwnDestroy ==
  ASSUME TypeInv, RegistryInv, NEW t \in Threads, ThreadStep(t)
  PROVE  DestroyInv(t)'
<1> DEFINE Bare == Destroys \cup Looks \cup {"lock", "compare", "judge"}
<1>1. th[t].pc \in Bare => th[t].node = 0
  BY DEF RegistryInv, DestroyInv
<1>2. ASSUME th'[t].pc \notin {"drain", "free"}, th'[t].pc \in Bare => th[t].pc \in Bare /\ th'[t].node = th[t].node
      PROVE  DestroyInv(t)'
  BY <1>1, <1>2 DEF DestroyInv
<1>3. CASE th' = th /\ UNCHANGED <<nodes, list>>
  BY <1>3 DEF RegistryInv, DestroyInv, Holds, Listed
<1>4. CASE ShutDoor(t) /\ Goes1(t, "drain", "free")
  <2>1. DestroyInv(t) /\ th[t].pc = "drain" /\ th'[t].pc = "free" /\ Keeps(t)
    BY <1>4 DEF RegistryInv, Goes1
  <2>2. th'[t].kind = th[t].kind /\ UNCHANGED <<nodes, list>>
    BY <1>4, OthersStay DEF ShutDoor
  <2>3. QED
    BY <2>1, <2>2 DEF DestroyInv, Holds, Listed, Keeps, Destroys
<1>5. CASE Simply(t)
  <2>1. CASE Goes1(t, "clear", IF th[t].node = 0 THEN "unlist" ELSE "drain")
    <3>1. th[t].pc = "clear" /\ th[t].node = 0
      BY <1>1, <2>1 DEF Goes1, Destroys
    <3>2. QED
      BY <1>2, <2>1, <3>1 DEF Goes1, Keeps, Destroys
  <2>2. CASE Goes1(t, "lock", th[t].kind)
    <3>1. th'[t].pc \in Kinds
      BY <2>2, KindOf DEF Goes1, RegistryInv
    <3>2. QED
      BY <1>2, <2>2, <3>1, RegistryAssumption DEF Goes1, Keeps
  <2>3. CASE Goes1(t, "compare", "judge") \/ \E q \in {"end", "clear"} : Goes1(t, "judge", q)
    BY <1>2, <2>3 DEF Goes1, Keeps, Destroys
  <2>4. QED
    BY <1>2, <1>5, <2>1, <2>2, <2>3 DEF Simply, Goes1, Destroys, Looks
<1>6. CASE Changes(t)
  <2>1. CASE ~ CloseNode(t) /\ ~ ShutDoor(t)
    BY <1>2, <1>6, <2>1 DEF Changes, Goes1, Destroys, Looks
  <2>2. CASE CloseNode(t)
    BY <2>2, ClosedIs
  <2>3. CASE ShutDoor(t)
    <3>1. Goes1(t, "drain", "free")
      BY <2>3, Going DEF ShutDoor, Use, At, Goes1
    <3>2. QED
      BY <1>4, <2>3, <3>1
  <2>4. QED
    BY <2>1, <2>2, <2>3
<1>7. CASE Finds(t)
  <2>1. CASE Look(t)
    <3>1. th[t].pc \in Looks /\ th'[t].pc \in {"end", "previous", "compare", "find", "update"} /\ th'[t].node = th[t].node
      BY <2>1, ActionPoints, FindsAre, Looked DEF LookIs
    <3>2. QED
      BY <1>2, <3>1
  <2>2. CASE FindPrevious(t) \/ Suspend(t) \/ FindNode(t) \/ MakeBuffer(t)
    <3>1. th'[t].pc \in {"suspend", "update", "find", "open", "append", "failed"}
      BY <2>2, FindsAre DEF PreviousIs, SuspendIs, NodeIs, BufferIs
    <3>2. QED
      BY <1>2, <3>1 DEF Destroys, Looks
  <2>3. ~ (FreeNode(t) /\ nodes[th[t].node].bdata # 0)
    BY ActionPoints DEF RegistryInv, OpeningInv
  <2>4. QED
    BY <1>7, <2>1, <2>2, <2>3 DEF Finds
<1>8. QED
  BY <1>3, <1>5, <1>6, <1>7, Moves

LEMMA RegistryThreadStep ==
  ASSUME TypeInv, WriterInv, RegistryInv, NEW t \in Threads, ThreadStep(t), ~ Excused'
  PROVE  RegistryInv'
<1>1. th[t].pc = "failed" => nodes[th[t].node].bdata = 0
  BY DEF RegistryInv, OpeningInv
<1>2. KindInv' /\ OneAtATime'
  BY <1>1, KindThreadStep, OneThreadStep DEF RegistryInv, Excused
<1>3. \A u \in Threads : OpeningInv(u)' /\ DestroyInv(u)'
  BY OthersOpening, OwnOpening, OthersDestroy, OwnDestroy DEF Excused
<1>4. QED
  BY <1>2, <1>3, NodesThreadStep, HoldersThreadStep DEF RegistryInv, Excused

-----------------------------------------------------------------------------
(* The other steps.                                                        *)
LEMMA RegistryLoopStep ==
  ASSUME TypeInv, RegistryInv, LoopStep
  PROVE  RegistryInv'
<1>1. /\ UNCHANGED <<nodes, list, autocmd_mutex, closed>> /\ BufsAlike
      /\ \A k : Listed(k)' <=> Listed(k)
      /\ \A b : Found(b) => Found(b)'
      /\ \A b \in 0 .. Len(bufs) : \A n : Has(b, n) => Has(b, n)'
      /\ \A b, n : Holds(n, b) => Holds(n, b)'
  <2>1. UNCHANGED <<nodes, list, autocmd_mutex, closed>> /\ BufsAlike
    BY LoopThreads
  <2>2. \A b \in 0 .. Len(bufs) : \A n : Has(b, n) => Has(b, n)'
    BY <2>1, RegistryTypes DEF Has, BufsAlike, TypeInv
  <2>3. QED
    BY <2>1, <2>2 DEF Found, Holds, Listed
<1>2. KindInv' /\ OneAtATime'
  BY KindLoopStep, OneLoopStep DEF RegistryInv
<1>3. Found(loop.buf) /\ Has(loop.buf, loop.num)
  BY DEF RegistryInv, HoldersInv
<1>4. Found(loop.buf)' /\ Has(loop.buf, loop.num)' /\ NodeOf(loop.node, loop.num)'
  <2>1. ASSUME NEW k, NEW b \in 0 .. Len(bufs), NEW n, k = loop'.node, b = loop'.buf, n = loop'.num,
               Found(b), Has(b, n), NodeOf(k, n)
        PROVE  Found(loop.buf)' /\ Has(loop.buf, loop.num)' /\ NodeOf(loop.node, loop.num)'
    <3>1. Found(b)' /\ Has(b, n)' /\ NodeOf(k, n)'
      BY <1>1, <2>1 DEF NodeOf
    <3>2. Found(loop.buf)' /\ Has(loop.buf, loop.num)'
      BY <2>1, <3>1 DEF Found, Has
    <3>3. NodeOf(loop.node, loop.num)'
      BY <2>1, <3>1 DEF NodeOf, Listed
    <3>4. QED
      BY <3>2, <3>3
  <2>2. /\ NodeOf(loop.node, loop.num) /\ \A n : NodeOf(0, n)
        /\ loop.buf \in 0 .. Len(bufs) /\ loop.node \in 0 .. Len(nodes) /\ 0 \in 0 .. Len(bufs)
        /\ Found(0) /\ \A n : Has(0, n)
    BY LoopIs DEF RegistryInv, HoldersInv, Found, Has, NodeOf
  <2>3. CASE loop' = loop
    BY <1>3, <2>1, <2>2, <2>3
  <2>4. CASE loop'.buf = 0 /\ loop'.node = 0
    BY <2>1, <2>2, <2>4
  <2>5. CASE LoopFind /\ loop' # loop
    <3> PICK k : k = find_buffer_node(loop.num)
      OBVIOUS
    <3>1. loop' = [loop EXCEPT !.node = k] /\ k # 0 /\ loop.node = 0
      BY <2>5 DEF LoopFind
    <3>2. loop'.node = k /\ loop'.num = loop.num /\ loop'.buf = 0
      BY <3>1, LoopIs DEF LoopRecs, TypeInv, LoopSound
    <3>3. NodeOf(k, loop.num)
      BY <3>1, ListedIs DEF NodeOf
    <3>4. QED
      BY <2>1, <2>2, <3>2, <3>3
  <2>6. CASE LoopReadNode /\ loop' # loop
    <3> PICK k, b : k = loop.node /\ b = nodes[k].bdata
      OBVIOUS
    <3>1. loop' = [loop EXCEPT !.buf = b] /\ k # 0
      BY <2>6 DEF LoopReadNode, Stray
    <3>2. loop'.node = k /\ loop'.num = loop.num /\ loop'.buf = b
      BY <3>1, LoopIs DEF LoopRecs
    <3>3. k \in 1 .. Len(nodes) /\ b \in 0 .. Len(bufs)
      <4>1. k \in 1 .. Len(nodes)
        BY <3>1, LoopIs, RegistryTypes DEF TypeInv
      <4>2. QED
        BY <4>1, NodeTypes DEF TypeInv
    <3>4. OwnBuffer(k) /\ Listed(k) /\ nodes[k].num = loop.num
      BY <2>2, <3>1, <3>3 DEF RegistryInv, NodesInv, NodeOf
    <3>5. Found(b) /\ Has(b, loop.num)
      BY <3>3, <3>4 DEF OwnBuffer, Found, Has
    <3>6. QED
      BY <2>1, <2>2, <3>2, <3>3, <3>4, <3>5
  <2>7. \/ loop' = loop \/ (loop'.buf = 0 /\ loop'.node = 0) \/ LoopFind \/ LoopReadNode
    BY DEF LoopStep, ReadReply, ReadCommand, ReadEvent, LoopCannotFind, CannotWalk, Stray, LoopHandle, Reading
  <2>8. QED
    BY <2>3, <2>4, <2>5, <2>6, <2>7
<1>5. ASSUME NEW u \in Threads, th'[u].kind = th[u].kind, th'[u].pc = th[u].pc, th'[u].ans = th[u].ans,
             th'[u].num = th[u].num, th'[u].node = th[u].node, th'[u].buf = th[u].buf, th'[u].prev = th[u].prev
      PROVE  HolderInv(u)' /\ OpeningInv(u)' /\ DestroyInv(u)'
  <2>1. /\ HolderInv(u) /\ OpeningInv(u) /\ DestroyInv(u)
        /\ th[u].buf \in 0 .. Len(bufs)
    BY Somewhere DEF RegistryInv, HoldersInv, HolderInv
  <2>2. HolderInv(u)'
    <3> PICK b, n : b = th[u].buf /\ n = th[u].num
      OBVIOUS
    <3>1. Has(b, n)'
      BY <1>1, <2>1 DEF HolderInv
    <3>2. QED
      BY <1>1, <1>5, <2>1, <3>1 DEF HolderInv, Found, Has
  <2>3. OpeningInv(u)'
    BY <1>1, <1>5, <2>1 DEF OpeningInv, Holds
  <2>4. DestroyInv(u)'
    BY <1>1, <1>5, <2>1 DEF DestroyInv, Holds
  <2>5. QED
    BY <2>2, <2>3, <2>4
<1>6. ASSUME SameThreads PROVE \A u \in Threads : HolderInv(u)' /\ OpeningInv(u)' /\ DestroyInv(u)'
  BY <1>5, <1>6 DEF SameThreads
<1>7. ASSUME NEW f \in Threads, NEW k, NEW p, NEW n, NEW b, Starts(f, k, p, n, b), p \in {"lock", "clear", "enter"},
             b \in 0 .. Len(bufs), Found(b), Has(b, n)
      PROVE  \A u \in Threads : HolderInv(u)' /\ OpeningInv(u)' /\ DestroyInv(u)'
  <2>1. ASSUME NEW u \in Threads, u # f PROVE HolderInv(u)' /\ OpeningInv(u)' /\ DestroyInv(u)'
    BY <1>5, <1>7, <2>1 DEF Starts
  <2>2. th'[f].pc = p /\ th'[f].num = n /\ th'[f].buf = b /\ th'[f].prev = 0 /\ th'[f].node = 0
    BY <1>7 DEF Starts
  <2>3. HolderInv(f)'
    <3>1. Found(b)' /\ Has(b, n)'
      BY <1>1, <1>7
    <3>2. QED
      BY <1>7, <2>2, <3>1 DEF HolderInv, Found, Has
  <2>4. OpeningInv(f)' /\ DestroyInv(f)'
    BY <1>7, <2>2 DEF OpeningInv, DestroyInv
  <2>5. QED
    BY <2>1, <2>3, <2>4
<1>8. ASSUME NEW f \in Threads, StartsCommand(f) \/ StartsOther(f)
      PROVE  \A u \in Threads : HolderInv(u)' /\ OpeningInv(u)' /\ DestroyInv(u)'
  <2>1. Found(0) /\ Has(0, None) /\ 0 \in 0 .. Len(bufs) /\ loop.buf \in 0 .. Len(bufs)
    BY LoopIs DEF Found, Has
  <2>2. CASE StartsCommand(f)
    BY <1>7, <2>1, <2>2 DEF StartsCommand
  <2>3. CASE StartsOther(f)
    BY <1>3, <1>7, <2>1, <2>3 DEF StartsOther
  <2>4. QED
    BY <1>8, <2>2, <2>3
<1>9. \A u \in Threads : HolderInv(u)' /\ OpeningInv(u)' /\ DestroyInv(u)'
  BY <1>6, <1>8, LoopThreads
<1>10. NodesInv'
  <2>1. ASSUME NEW k \in 1 .. Len(nodes) PROVE OwnBuffer(k)' /\ BufferComes(k)' /\ OwnNumber(k)'
    <3>1. nodes[k].bdata \in 0 .. Len(bufs) /\ Len(bufs) \in Nat
      BY NodeTypes, RegistryTypes DEF TypeInv
    <3>2. OwnBuffer(k)'
      BY <1>1, <3>1 DEF RegistryInv, NodesInv, OwnBuffer, BufsAlike
    <3>3. QED
      BY <1>1, <3>2 DEF RegistryInv, NodesInv, BufferComes, OwnNumber
  <2>2. ASSUME NEW k \in 1 .. Len(nodes) PROVE LinesCome(k)'
    <3>1. SUFFICES ASSUME nodes[k].bdata # 0, ~ bufs[nodes[k].bdata].initialized
                   PROVE  \E u \in Threads : th'[u].pc \in {"append", "attach", "lines", "got_lines"} /\ th'[u].buf = nodes[k].bdata
      <4>1. nodes[k].bdata \in 0 .. Len(bufs) /\ Len(bufs) \in Nat
        BY <2>2, NodeTypes, RegistryTypes DEF TypeInv
      <4>2. QED
        BY <1>1, <4>1 DEF LinesCome, BufsAlike
    <3>2. PICK u \in Threads : th[u].pc \in {"append", "attach", "lines", "got_lines"} /\ th[u].buf = nodes[k].bdata
      BY <2>2, <3>1 DEF RegistryInv, NodesInv, LinesCome
    <3>3. CASE SameThreads
      BY <3>2, <3>3 DEF SameThreads
    <3>4. CASE \E f \in Threads : StartsCommand(f) \/ StartsOther(f)
      <4>1. th'[u] = th[u]
        BY <3>2, <3>4 DEF StartsCommand, StartsOther, Starts
      <4>2. QED
        BY <3>2, <4>1
    <3>5. QED
      BY <3>3, <3>4, LoopThreads
  <2>3. QED
    BY <1>1, <2>1, <2>2 DEF NodesInv
<1>11. QED
  BY <1>2, <1>4, <1>9, <1>10 DEF RegistryInv, HoldersInv, HolderInv

LEMMA RegistryNvimStep ==
  ASSUME TypeInv, RegistryInv, NvimStep
  PROVE  RegistryInv'
<1>1. /\ UNCHANGED <<loop, nodes, list, bufs, th, closed>>
      /\ \A k : Listed(k)' <=> Listed(k)
      /\ \A b : Found(b)' <=> Found(b)
      /\ \A b, n : (Has(b, n)' <=> Has(b, n)) /\ (Holds(n, b)' <=> Holds(n, b))
  BY NvimKeeps DEF Found, Has, Holds, Listed
<1>2. OneAtATime'
  BY OneNvimStep DEF RegistryInv
<1>3. KindInv'
  BY <1>1 DEF RegistryInv, KindInv
<1>4. NodesInv'
  BY <1>1 DEF RegistryInv, NodesInv, OwnBuffer, BufferComes, LinesCome, OwnNumber
<1>5. HoldersInv'
  BY <1>1 DEF RegistryInv, HoldersInv, Found, Has, NodeOf
<1>6. ASSUME NEW u \in Threads PROVE OpeningInv(u)'
  BY <1>1 DEF RegistryInv, OpeningInv, Holds
<1>7. ASSUME NEW u \in Threads PROVE DestroyInv(u)'
  BY <1>1 DEF RegistryInv, DestroyInv, Holds
<1>8. QED
  BY <1>2, <1>3, <1>4, <1>5, <1>6, <1>7 DEF RegistryInv

LEMMA RegistryInit == Init => RegistryInv
<1> SUFFICES ASSUME Init PROVE RegistryInv
  OBVIOUS
<1>1. /\ nodes = <<>> /\ list = <<>> /\ bufs = <<>> /\ wire = <<>> /\ autocmd_mutex = None
      /\ loop = Reading
      /\ th = [t \in Threads |-> IF t = Main THEN NewThread("main", "start", None, 0) ELSE NoThread]
  BY DEF Init
<1>2. /\ NewThread("main", "start", None, 0).pc = "start" /\ NewThread("main", "start", None, 0).kind = "main"
      /\ NewThread("main", "start", None, 0).buf = 0 /\ NewThread("main", "start", None, 0).prev = 0
      /\ NoThread.pc = "idle" /\ NoThread.buf = 0 /\ NoThread.prev = 0
  BY DEF NewThread, NoThread
<1>3. /\ Len(nodes) = 0 /\ Len(list) = 0 /\ Len(wire) = 0 /\ loop.buf = 0 /\ loop.node = 0 /\ Main \in Threads
      /\ \A t \in Threads : /\ th[t].buf = 0 /\ th[t].prev = 0
                            /\ IF t = Main THEN th[t].pc = "start" /\ th[t].kind = "main" ELSE th[t].pc = "idle"
  BY <1>1, <1>2, RegistryAssumption DEF Main, Threads, Reading
<1>4. "main" \notin Kinds /\ "start" \in PlacesOf("main")
  BY RegistryAssumption, InPlaces
<1>5. OneAtATime
  BY <1>1, <1>3, <1>4 DEF OneAtATime, IsCommand, Working
<1>6. KindInv
  BY <1>3, <1>4 DEF KindInv
<1>7. NodesInv
  BY <1>3 DEF NodesInv
<1>8. HoldersInv
  BY <1>3 DEF HoldersInv, Found, Has, NodeOf
<1>9. \A t \in Threads : OpeningInv(t) /\ DestroyInv(t)
  BY <1>3 DEF OpeningInv, DestroyInv, Destroys, Looks
<1>10. QED
  BY <1>5, <1>6, <1>7, <1>8, <1>9 DEF RegistryInv

LEMMA RegistryStutters ==
  ASSUME RegistryInv, UNCHANGED vars
  PROVE  RegistryInv'
<1>1. UNCHANGED <<ft, wire, loop, nodes, list, bufs, autocmd_mutex, th, closed>>
  BY DEF vars, nvim, registry, history
<1>2. OneAtATime' /\ KindInv'
  BY <1>1 DEF RegistryInv, OneAtATime, KindInv, Working, IsCommand
<1>3. NodesInv' /\ HoldersInv'
  BY <1>1 DEF RegistryInv, NodesInv, HoldersInv, OwnBuffer, BufferComes, LinesCome, OwnNumber, Found, Has, NodeOf, Listed
<1>4. \A t \in Threads : OpeningInv(t)' /\ DestroyInv(t)'
  BY <1>1 DEF RegistryInv, OpeningInv, DestroyInv, Holds, Listed
<1>5. QED
  BY <1>2, <1>3, <1>4 DEF RegistryInv

(* An excuse is never withdrawn, so that the registry is looked at only in *)
(* behaviours that have had none.                                          *)
LEMMA ExcuseStays == TypeInv /\ Excused /\ [Next]_vars => Excused'
<1> SUFFICES ASSUME TypeInv, Excused, [Next]_vars PROVE Excused'
  OBVIOUS
<1>1. CASE NvimStep
  BY <1>1, NvimKeeps DEF Excused
<1>2. CASE LoopStep
  BY <1>2, LoopThreads DEF Excused
<1>3. ASSUME NEW t \in Threads, ThreadStep(t) PROVE Excused'
  BY <1>3, ExcusesMove DEF Excused, Begin, MakeBuffer
<1>4. CASE UNCHANGED vars
  BY <1>4 DEF vars, history, excuses, Excused
<1>5. QED
  BY <1>1, <1>2, <1>3, <1>4 DEF Next

LEMMA RegistryStep ==
  TypeInv /\ WriterInv /\ (Excused \/ RegistryInv) /\ [Next]_vars => (Excused \/ RegistryInv)'
<1> SUFFICES ASSUME TypeInv, WriterInv, RegistryInv, [Next]_vars, ~ Excused' PROVE RegistryInv'
  BY ExcuseStays
<1>1. CASE NvimStep
  BY <1>1, RegistryNvimStep
<1>2. CASE LoopStep
  BY <1>2, RegistryLoopStep
<1>3. ASSUME NEW t \in Threads, ThreadStep(t) PROVE RegistryInv'
  BY <1>3, RegistryThreadStep
<1>4. CASE UNCHANGED vars
  BY <1>4, RegistryStutters
<1>5. QED
  BY <1>1, <1>2, <1>3, <1>4 DEF Next

LEMMA RegistryAlways == Spec => [](Excused \/ RegistryInv)
<1>1. Init => Excused \/ RegistryInv
  BY RegistryInit
<1>2. QED
  BY <1>1, RegistryStep, TypeAlways, WriterAlways, PTL DEF Spec

LEMMA RegistrySound ==
  ASSUME TypeInv, RegistryInv
  PROVE  ListSound
<1>1. \A i \in 1 .. Len(list) : list[i] \in 1 .. Len(nodes) /\ Listed(list[i])
  BY ListTypes DEF TypeInv, Listed
<1>2. OneNode
  BY <1>1 DEF OneNode, RegistryInv, NodesInv, OwnNumber
<1>3. ListedAlive
  BY <1>1 DEF ListedAlive, RegistryInv, NodesInv, OwnNumber
<1>4. ASSUME NEW n \in Nums, find_buffer(n) # 0
      PROVE  bufs[find_buffer(n)].alive /\ bufs[find_buffer(n)].num = n
  <2>1. bufs[find_buffer(n)].alive /\ Has(find_buffer(n), n)
    BY <1>4, LooksFine DEF RegistryInv
  <2>2. QED
    BY <1>4, <2>1 DEF Has
<1>5. FoundIsLive
  BY <1>4 DEF FoundIsLive
<1>6. QED
  BY <1>2, <1>3, <1>5 DEF ListSound

(* buffer_list never says anything wrong: a number has one node, no node   *)
(* in the list was freed though new_buffer frees what it cannot open, and  *)
(* find_buffer returns a living Buffer of the number asked for; whatever   *)
(* commands, detaches and line events come and when, until a command       *)
(* begins before neovim_init has its lines, or new_buffer is told of a     *)
(* listed node that its filetype is unknown.                               *)
THEOREM ListIsSound == Spec => []ListSound
<1>1. TypeInv /\ (Excused \/ RegistryInv) => ListSound
  BY RegistrySound DEF Excused, ListSound
<1>2. QED
  BY <1>1, TypeAlways, RegistryAlways, PTL

-----------------------------------------------------------------------------
(* Events of a buffer come only once it is listed.                         *)
LEMMA ClosedGrows ==
  ASSUME NEW t \in Threads, ThreadStep(t)
  PROVE  closed \subseteq closed' /\ (CloseNode(t) => th[t].num \in closed')
BY RestKept DEF CloseNode

LEMMA FilledStays ==
  ASSUME TypeInv, NEW t \in Threads, ThreadStep(t), NEW k \in 1 .. Len(nodes), Filled(k)
  PROVE  Filled(k)'
<1>1. nodes'[k].num = nodes[k].num
  BY NodeStep
<1>2. CASE nodes[k].num \in closed
  BY <1>1, <1>2, ClosedGrows DEF Filled
<1>3. CASE nodes[k].isopen /\ nodes[k].bdata # 0
  <2>1. CASE CloseNode(t) /\ k = find_buffer_node(th[t].num)
    <3>1. k # 0
      BY RegistryTypes DEF TypeInv
    <3>2. nodes[k].num = th[t].num
      BY <2>1, <3>1, ListedIs
    <3>3. QED
      BY <1>1, <2>1, <3>2, ClosedGrows DEF Filled
  <2>2. CASE ~ (CloseNode(t) /\ k = find_buffer_node(th[t].num))
    <3>1. Len(bufs) + 1 # 0
      BY RegistryTypes DEF TypeInv
    <3>2. nodes'[k].isopen /\ nodes'[k].bdata # 0
      BY <1>3, <2>2, <3>1, NodeFields
    <3>3. QED
      BY <3>2 DEF Filled
  <2>3. QED
    BY <2>1, <2>2
<1>4. QED
  BY <1>2, <1>3 DEF Filled

LEMMA MakingIs ==
  ASSUME NEW u \in Threads, NEW k, NEW n, k = th'[u].node, n = th'[u].num,
         th'[u].pc \in {"open", "make", "append"} => nodes'[k].num = n,
         th'[u].pc = "make" => nodes'[k].isopen,
         th'[u].pc = "append" => Filled(k)'
  PROVE  MakingInv(u)'
BY DEF MakingInv, Filled

(* Nobody closes a node that has a writer.                                 *)
LEMMA OpenWritten ==
  ASSUME TypeInv, NEW t \in Threads, ThreadStep(t), NEW k \in 1 .. Len(nodes),
         nodes[k].writer # None, nodes[k].isopen
  PROVE  nodes'[k].isopen
<1>1. ~ (CloseNode(t) /\ k = find_buffer_node(th[t].num))
  <2>1. k # 0
    BY RegistryTypes DEF TypeInv
  <2>2. CloseNode(t) => Walk(t, th[t].num)
    BY DEF CloseNode
  <2>3. QED
    BY <2>1, <2>2, Walked
<1>2. QED
  BY <1>1, NodeFields

(* A thread on its way from a node to a Buffer.                            *)
LEMMA MakingOthers ==
  ASSUME TypeInv, WriterInv, EventsInv, NEW t \in Threads, ThreadStep(t), NEW u \in Threads, th'[u] = th[u]
  PROVE  MakingInv(u)'
<1> PICK k, n : k = th[u].node /\ n = th[u].num
  OBVIOUS
<1>1. CASE th[u].pc \in {"open", "make", "append"}
  <2>1. k \in 1 .. Len(nodes)
    BY <1>1, Somewhere, RegistryTypes DEF TypeInv, ThreadSound
  <2>2. MakingInv(u)
    BY DEF EventsInv
  <2>3. nodes'[k].num = n
    BY <1>1, <2>1, <2>2, NodeStep DEF MakingInv
  <2>4. ASSUME th[u].pc = "make" PROVE nodes'[k].isopen
    <3>1. nodes[k].isopen /\ nodes[k].writer = u
      BY <2>2, <2>4 DEF MakingInv, WriterInv
    <3>2. u # None
      BY RegistryAssumption DEF Threads
    <3>3. QED
      BY <2>1, <3>1, <3>2, OpenWritten
  <2>5. ASSUME th[u].pc = "append" PROVE Filled(k)'
    BY <2>1, <2>2, <2>5, FilledStays DEF MakingInv
  <2>6. QED
    BY <2>3, <2>4, <2>5, MakingIs
<1>2. CASE th[u].pc \notin {"open", "make", "append"}
  BY <1>2, MakingIs
<1>3. QED
  BY <1>1, <1>2

LEMMA MakingOpens ==
  ASSUME TypeInv, EventsInv, NEW t \in Threads, ThreadStep(t), FindNode(t) \/ OpenNode(t) \/ MakeBuffer(t), th' # th
  PROVE  MakingInv(t)'
<1> PICK k, n : k = th'[t].node /\ n = th'[t].num
  OBVIOUS
<1>0. MakingInv(t)
  BY DEF EventsInv
<1>1. CASE FindNode(t)
  <2>1. th'[t].pc = "open" /\ n = OpeningNum(t)
        /\ k = IF find_buffer_node(n) # 0 THEN find_buffer_node(n) ELSE Len(nodes) + 1
    BY <1>1, FindsAre DEF NodeIs
  <2>2. nodes'[k].num = n
    <3>1. CASE find_buffer_node(n) # 0
      BY <2>1, <3>1, ListedIs, NodeStep
    <3>2. CASE find_buffer_node(n) = 0
      <4>1. k \in 1 .. Len(nodes') /\ k \notin 1 .. Len(nodes)
        <5>1. k = Len(nodes) + 1 /\ Len(nodes) \in Nat
          BY <2>1, <3>2, RegistryTypes DEF TypeInv
        <5>2. Len(nodes)' = Len(nodes) + 1
          BY <1>1, <2>1, <3>2, FoundOrMade
        <5>3. QED
          BY <5>1, <5>2
      <4>2. QED
        BY <2>1, <4>1, NewNode
    <3>3. QED
      BY <3>1, <3>2
  <2>3. QED
    BY <2>1, <2>2, MakingIs
<1>2. CASE OpenNode(t)
  <2>1. th[t].pc = "open" /\ k = th[t].node /\ n = th[t].num /\ nodes[k].alive
    <3>1. nodes[th[t].node].alive
      BY <1>2 DEF OpenNode, Stray
    <3>2. (\E q : Goto(t, q)) \/ (\E q, a : Call(t, q, a))
      BY <1>2, <3>1 DEF OpenNode
    <3>3. Keeps(t)
      BY <3>2, Going
    <3>4. QED
      BY <1>2, <3>1, <3>3, ActionPoints DEF Keeps
  <2>2. k \in 1 .. Len(nodes)
    BY <2>1, Somewhere, RegistryTypes DEF TypeInv, ThreadSound
  <2>3. nodes'[k].num = n
    BY <1>0, <2>1, <2>2, NodeStep DEF MakingInv
  <2>4. ASSUME th'[t].pc = "make" PROVE nodes'[k].isopen
    <3>1. ~ nodes[k].isopen
      <4>1. nodes[k].isopen => Goto(t, "failed")
        BY <1>2, <2>1 DEF OpenNode
      <4>2. QED
        BY <2>4, <4>1, Going
    <3>2. nodes'[k] = [nodes[k] EXCEPT !.isopen = TRUE, !.writer = t]
      BY <1>2, <2>1, <2>2, <3>1, NodesOpened DEF NodesBecome
    <3>3. QED
      BY <2>2, <3>2, NodeTypes DEF NodeRecs, TypeInv
  <2>5. th'[t].pc # "append"
    <3>1. Goto(t, "failed") \/ \E a : Call(t, "make", a)
      BY <1>2, <2>1 DEF OpenNode
    <3>2. QED
      BY <3>1, Going
  <2>6. QED
    BY <2>1, <2>3, <2>4, <2>5, MakingIs
<1>3. CASE MakeBuffer(t)
  <2>1. th[t].pc = "make" /\ k = th[t].node /\ n = th[t].num
        /\ th'[t].pc = IF th[t].ans \in Known THEN "append" ELSE "failed"
    BY <1>3, FindsAre, ActionPoints DEF BufferIs
  <2>2. k \in 1 .. Len(nodes)
    BY <2>1, Somewhere, RegistryTypes DEF TypeInv, ThreadSound
  <2>3. nodes'[k].num = n
    BY <1>0, <2>1, <2>2, NodeStep DEF MakingInv
  <2>4. ASSUME th'[t].pc = "append" PROVE Filled(k)'
    <3>1. th[t].ans \in Known /\ nodes[k].isopen
      BY <1>0, <2>1, <2>4 DEF MakingInv
    <3>2. PICK b : b = Len(bufs) + 1 /\ b # 0
      BY RegistryTypes DEF TypeInv
    <3>3. nodes'[k] = [nodes[k] EXCEPT !.writer = None, !.bdata = b]
      BY <1>3, <2>1, <2>2, <3>1, <3>2, Made DEF NodesBecome
    <3>4. nodes'[k].isopen /\ nodes'[k].bdata = b
      BY <2>2, <3>1, <3>3, NodeTypes DEF NodeRecs, TypeInv
    <3>5. QED
      BY <3>2, <3>4 DEF Filled
  <2>5. QED
    BY <2>1, <2>3, <2>4, MakingIs
<1>4. QED
  BY <1>1, <1>2, <1>3

(* Who else gets to the points in question, and how.                       *)
LEMMA Elsewhere ==
  ASSUME TypeInv, NEW t \in Threads, ThreadStep(t), th' # th, ~ FindNode(t), ~ OpenNode(t), ~ MakeBuffer(t)
  PROVE  /\ th'[t].pc \notin {"open", "make", "append"}
         /\ th'[t].pc = "attach" => AppendNode(t) /\ Goes1(t, "append", "attach")
<1>1. CASE Simply(t)
  <2>1. Goes1(t, "lock", th[t].kind) => th'[t].pc \in Looks
    BY RegistryAssumption DEF Goes1, TypeInv, KindSound, Looks
  <2>2. QED
    BY <1>1, <2>1 DEF Simply, Goes1, Looks
<1>2. CASE Changes(t)
  BY <1>2 DEF Changes, Goes1
<1>3. CASE Finds(t)
  <2>1. Look(t) => th'[t].pc \in {"end", "previous", "compare", "find", "update"}
    BY FindsAre, Looked DEF LookIs
  <2>2. FindPrevious(t) \/ Suspend(t) => th'[t].pc \in {"suspend", "update", "find"}
    BY FindsAre DEF PreviousIs, SuspendIs
  <2>3. FreeNode(t) => th'[t].pc \in {"clear", "end"}
    BY OwnFreeNode
  <2>4. QED
    BY <1>3, <2>1, <2>2, <2>3 DEF Finds
<1>4. QED
  BY <1>1, <1>2, <1>3, Moves

LEMMA MakingThreadStep ==
  ASSUME TypeInv, WriterInv, EventsInv, NEW t \in Threads, ThreadStep(t), NEW u \in Threads
  PROVE  MakingInv(u)'
<1>1. CASE th'[u] = th[u]
  BY <1>1, MakingOthers
<1>2. CASE th'[u] # th[u] /\ (FindNode(t) \/ OpenNode(t) \/ MakeBuffer(t))
  BY <1>2, OthersStay, MakingOpens
<1>3. CASE th'[u] # th[u] /\ ~ (FindNode(t) \/ OpenNode(t) \/ MakeBuffer(t))
  BY <1>3, OthersStay, Elsewhere, MakingIs
<1>4. QED
  BY <1>1, <1>2, <1>3

LEMMA FilledThreadStep ==
  ASSUME TypeInv, EventsInv, NEW t \in Threads, ThreadStep(t)
  PROVE  ListFilled'
<1>1. ASSUME NEW k \in 1 .. Len(nodes'), Listed(k)' PROVE Filled(k)'
  <2>1. k \in 1 .. Len(nodes)
    BY <1>1, NewNode
  <2>2. Filled(k)
    <3>1. AppendNode(t) /\ k = th[t].node => Filled(k)
      BY ActionPoints DEF EventsInv, MakingInv, Filled
    <3>2. QED
      BY <1>1, <2>1, <3>1, ListedStep DEF EventsInv, ListFilled
  <2>3. QED
    BY <2>1, <2>2, FilledStays
<1>2. QED
  BY <1>1 DEF ListFilled

LEMMA ReportedStays ==
  ASSUME TypeInv, NEW t \in Threads, ThreadStep(t), NEW n, Reported(n)
  PROVE  Reported(n)'
<1>1. PICK k \in 1 .. Len(nodes) : Listed(k) /\ nodes[k].num = n
  BY DEF Reported
<1>2. Len(nodes) \in Nat /\ Len(nodes') \in Nat /\ Len(nodes) <= Len(nodes')
  BY RegistryTypes, ThreadAllocs DEF TypeInv
<1>3. k \in 1 .. Len(nodes') /\ Listed(k)' /\ nodes'[k].num = n
  BY <1>1, <1>2, ListedStep, NodeStep
<1>4. QED
  BY <1>3 DEF Reported

LEMMA AttachReported ==
  ASSUME TypeInv, EventsInv, NEW t \in Threads, AppendNode(t), ThreadStep(t), NEW n, n = th[t].num
  PROVE  Reported(n)'
<1> PICK k : k = th[t].node
  OBVIOUS
<1>1. th[t].pc = "append" /\ k \in 1 .. Len(nodes)
  BY ActionPoints, Somewhere, RegistryTypes DEF TypeInv, ThreadSound
<1>2. nodes[k].num = n
  BY <1>1 DEF EventsInv, MakingInv
<1>3. nodes' = nodes /\ Listed(k)'
  BY ListedStep DEF AppendNode
<1>4. QED
  BY <1>1, <1>2, <1>3 DEF Reported

LEMMA KnownThreadStep ==
  ASSUME TypeInv, EventsInv, NEW t \in Threads, ThreadStep(t)
  PROVE  EventsKnown'
<1>0. EventsKnown
  BY DEF EventsInv
<1>1. /\ \A u \in Threads : u # t => th'[u] = th[u]
      /\ loop' = loop
      /\ wire' = wire \/ wire' = Append(wire, [type |-> "reply", num |-> t])
  BY OthersStay
<1>2. \A n : Reported(n) => Reported(n)'
  BY ReportedStays
<1>3. \A i \in 1 .. Len(wire') : wire'[i].type # "reply" => i \in 1 .. Len(wire) /\ wire'[i] = wire[i]
  BY <1>1, ReplyQueued
<1>4. \A n \in attached' : Reported(n)'
  <2>1. CASE Attach(t)
    <3>1. th[t].pc = "attach" /\ attached' = attached \cup {th[t].num}
      BY <2>1, ActionPoints DEF Attach
    <3>2. QED
      BY <1>0, <1>2, <3>1 DEF EventsKnown
  <2>2. CASE attached' = attached
    BY <1>0, <1>2, <2>2 DEF EventsKnown
  <2>3. QED
    BY <2>1, <2>2, RestKept
<1>5. \A i \in 1 .. Len(wire') : wire'[i].type \in {"lines", "detach"} =>
        \A n : n = wire'[i].num => Reported(n)'
  BY <1>0, <1>2, <1>3 DEF EventsKnown
<1>6. loop'.pc # "read" => \A n : n = loop'.num => Reported(n)'
  BY <1>0, <1>1, <1>2 DEF EventsKnown
<1>7. ASSUME NEW u \in Threads, th'[u].pc = "attach" PROVE \A n : n = th'[u].num => Reported(n)'
  <2>1. CASE th'[u] = th[u]
    BY <1>0, <1>2, <1>7, <2>1 DEF EventsKnown
  <2>2. CASE u = t /\ th' # th
    <3>1. ~ FindNode(t) /\ ~ MakeBuffer(t)
      BY <1>7, <2>2, FindsAre DEF NodeIs, BufferIs
    <3>2. ~ OpenNode(t)
      <4>1. ASSUME OpenNode(t) PROVE th'[t].pc \in {"make", "failed"}
        BY <2>2, <4>1, Going DEF OpenNode, Stray
      <4>2. QED
        BY <1>7, <2>2, <4>1
    <3>3. AppendNode(t) /\ th'[t].num = th[t].num
      BY <1>7, <2>2, <3>1, <3>2, Elsewhere DEF Goes1, Keeps
    <3>4. QED
      BY <2>2, <3>3, AttachReported
  <2>3. QED
    BY <1>1, <2>1, <2>2
<1>8. QED
  BY <1>4, <1>5, <1>6, <1>7 DEF EventsKnown, Reported

LEMMA EventsThreadStep ==
  ASSUME TypeInv, WriterInv, EventsInv, NEW t \in Threads, ThreadStep(t)
  PROVE  EventsInv'
<1>1. NodeOf(loop.node, loop.num)'
  <2> PICK k, n : k = loop.node /\ n = loop.num
    OBVIOUS
  <2>1. loop' = loop /\ k \in 0 .. Len(nodes) /\ Len(nodes) \in Nat /\ (k # 0 => Listed(k) /\ nodes[k].num = n)
    BY OthersStay, LoopIs, RegistryTypes DEF EventsInv, NodeOf, TypeInv
  <2>2. NodeOf(k, n)'
    BY <2>1, ListedStep, NodeStep DEF NodeOf
  <2>3. QED
    BY <2>1, <2>2 DEF NodeOf, Listed
<1>2. QED
  BY <1>1, MakingThreadStep, FilledThreadStep, KnownThreadStep DEF EventsInv

LEMMA KnownLoopStep ==
  ASSUME TypeInv, EventsKnown, LoopStep
  PROVE  EventsKnown'
<1>1. \A n : Reported(n) => Reported(n)'
  BY LoopThreads DEF Reported, Listed
<1>2. \A n \in attached' : Reported(n)'
  BY <1>1, LoopThreads DEF EventsKnown
<1>3. \A i \in 1 .. Len(wire') : wire'[i].type \in {"lines", "detach"} =>
        \A n : n = wire'[i].num => Reported(n)'
  BY <1>1, WireShrinks DEF EventsKnown
<1>4. loop'.pc # "read" => \A n : n = loop'.num => Reported(n)'
  <2>1. CASE ReadEvent
    <3>1. /\ Head(wire) = wire[1] /\ Head(wire).type \in {"lines", "detach"} /\ wire # <<>> /\ wire \in Seq(Messages)
      BY <2>1, MessageRead, LoopIs DEF ReadEvent, Read
    <3>2. 1 \in 1 .. Len(wire)
      BY <3>1
    <3>3. loop' = [pc |-> Head(wire).type, num |-> Head(wire).num, node |-> 0, buf |-> 0]
      BY <2>1 DEF ReadEvent
    <3>4. Reported(wire[1].num) /\ loop'.num = wire[1].num
      BY <3>1, <3>2, <3>3 DEF EventsKnown
    <3>5. QED
      BY <1>1, <3>4
  <2>2. CASE loop'.pc = loop.pc /\ loop'.num = loop.num
    BY <1>1, <2>2 DEF EventsKnown
  <2>3. CASE LoopFind \/ LoopReadNode
    <3>1. loop' = loop \/ (\E k : loop' = [loop EXCEPT !.node = k]) \/ \E b : loop' = [loop EXCEPT !.buf = b]
      BY <2>3 DEF LoopFind, LoopReadNode, Stray
    <3>2. loop'.pc = loop.pc /\ loop'.num = loop.num
      BY <3>1, LoopIs DEF LoopRecs
    <3>3. QED
      BY <2>2, <3>2
  <2>4. CASE ReadReply \/ ReadCommand \/ LoopCannotFind \/ LoopHandle
    <3>1. loop' = loop \/ loop'.pc = "read"
      BY <2>4 DEF ReadReply, ReadCommand, LoopCannotFind, CannotWalk, Stray, LoopHandle, Reading
    <3>2. QED
      BY <2>2, <3>1
  <2>5. QED
    BY <2>1, <2>3, <2>4 DEF LoopStep
<1>5. ASSUME NEW u \in Threads, th'[u].pc = "attach" PROVE \A n : n = th'[u].num => Reported(n)'
  <2>1. th[u].pc = "attach" /\ th'[u].num = th[u].num
    BY <1>5, LoopThreads DEF SameThreads, StartsCommand, StartsOther, Starts
  <2>2. QED
    BY <1>1, <2>1 DEF EventsKnown
<1>6. QED
  BY <1>2, <1>3, <1>4, <1>5 DEF EventsKnown, Reported

LEMMA EventsLoopStep ==
  ASSUME TypeInv, EventsInv, LoopStep
  PROVE  EventsInv'
<1>1. /\ UNCHANGED <<nodes, list, closed>>
      /\ \A k : (Listed(k)' <=> Listed(k)) /\ (Filled(k)' <=> Filled(k))
      /\ \A k, n : NodeOf(k, n)' <=> NodeOf(k, n)
  BY LoopThreads DEF Listed, Filled, NodeOf
<1>2. ListFilled'
  BY <1>1 DEF EventsInv, ListFilled
<1>3. ASSUME NEW u \in Threads PROVE MakingInv(u)'
  <2>1. MakingInv(u)
    BY DEF EventsInv
  <2>2. \/ th'[u].pc = th[u].pc /\ th'[u].node = th[u].node /\ th'[u].num = th[u].num
        \/ th'[u].pc \in {"lock", "clear", "enter"}
    BY LoopThreads DEF SameThreads, StartsCommand, StartsOther, Starts
  <2>3. CASE th'[u].pc = th[u].pc /\ th'[u].node = th[u].node /\ th'[u].num = th[u].num
    BY <1>1, <2>1, <2>3 DEF MakingInv, Filled
  <2>4. CASE th'[u].pc \in {"lock", "clear", "enter"}
    BY <2>4, MakingIs
  <2>5. QED
    BY <2>2, <2>3, <2>4
<1>4. NodeOf(loop.node, loop.num)'
  <2>1. ASSUME NEW k, NEW n, k = loop'.node, n = loop'.num, NodeOf(k, n) PROVE NodeOf(loop.node, loop.num)'
    BY <1>1, <2>1 DEF NodeOf, Listed
  <2>2. NodeOf(loop.node, loop.num) /\ \A n : NodeOf(0, n)
    BY DEF EventsInv, NodeOf
  <2>3. CASE LoopFind /\ loop' # loop
    <3> PICK k : k = find_buffer_node(loop.num)
      OBVIOUS
    <3>1. loop' = [loop EXCEPT !.node = k] /\ k # 0
      BY <2>3 DEF LoopFind
    <3>2. loop'.node = k /\ loop'.num = loop.num
      BY <3>1, LoopIs DEF LoopRecs
    <3>3. NodeOf(k, loop.num)
      BY <3>1, ListedIs DEF NodeOf
    <3>4. QED
      BY <2>1, <3>2, <3>3
  <2>4. CASE LoopReadNode /\ loop' # loop
    <3>1. \E b : loop' = [loop EXCEPT !.buf = b]
      BY <2>4 DEF LoopReadNode, Stray
    <3>2. loop'.node = loop.node /\ loop'.num = loop.num
      BY <3>1, LoopIs DEF LoopRecs
    <3>3. QED
      BY <2>1, <2>2, <3>2
  <2>5. CASE loop' = loop
    BY <2>1, <2>2, <2>5
  <2>6. CASE loop'.node = 0
    BY <2>1, <2>2, <2>6
  <2>7. loop' = loop \/ loop'.node = 0 \/ LoopFind \/ LoopReadNode
    BY DEF LoopStep, ReadReply, ReadCommand, ReadEvent, LoopCannotFind, CannotWalk, Stray, LoopHandle, Reading
  <2>8. QED
    BY <2>3, <2>4, <2>5, <2>6, <2>7
<1>5. EventsKnown'
  BY KnownLoopStep DEF EventsInv
<1>6. QED
  BY <1>2, <1>3, <1>4, <1>5 DEF EventsInv

LEMMA EventsNvimStep ==
  ASSUME TypeInv, EventsInv, NvimStep
  PROVE  EventsInv'
<1>0. EventsKnown
  BY DEF EventsInv
<1>1. UNCHANGED <<loop, th, nodes, list, closed>> /\ \A n : Reported(n) => Reported(n)'
  BY NvimKeeps DEF Reported, Listed
<1>2. PICK m \in Messages : /\ Announce(m) /\ m.type # "reply"
                            /\ attached' \subseteq attached
                            /\ m.type \in {"lines", "detach"} => m.num \in attached \cap Nums
  <2>1. Kinds \cap {"lines", "detach"} = {}
    BY RegistryAssumption
  <2>2. QED
    BY <2>1, NvimIs
<1>3. \A i \in 1 .. Len(wire') : (i \in 1 .. Len(wire) /\ wire'[i] = wire[i]) \/ wire'[i] = m
  BY <1>2, Announced
<1>4. \A n \in attached' : Reported(n)'
  BY <1>0, <1>1, <1>2 DEF EventsKnown
<1>5. \A i \in 1 .. Len(wire') : wire'[i].type \in {"lines", "detach"} =>
        \A n : n = wire'[i].num => Reported(n)'
  BY <1>0, <1>1, <1>2, <1>3 DEF EventsKnown
<1>6. (loop'.pc # "read" => \A n : n = loop'.num => Reported(n)')
      /\ \A u \in Threads : th'[u].pc = "attach" => \A n : n = th'[u].num => Reported(n)'
  BY <1>0, <1>1 DEF EventsKnown
<1>7. EventsKnown'
  BY <1>4, <1>5, <1>6 DEF EventsKnown, Reported
<1>8. ListFilled' /\ NodeOf(loop.node, loop.num)' /\ \A u \in Threads : MakingInv(u)'
  BY <1>1 DEF EventsInv, ListFilled, NodeOf, MakingInv, Filled, Listed
<1>9. QED
  BY <1>7, <1>8 DEF EventsInv

EventsCause == EventsInv /\ AbortCause

LEMMA CauseStep == TypeInv /\ WriterInv /\ EventsCause /\ [Next]_vars => EventsCause'
<1> SUFFICES ASSUME TypeInv, WriterInv, EventsCause, [Next]_vars PROVE EventsCause'
  OBVIOUS
<1>1. EventsInv /\ AbortCause
  BY DEF EventsCause
<1>2. CASE NvimStep
  <2>1. UNCHANGED <<aborted, closed>>
    BY <1>2, NvimKeeps
  <2>2. QED
    BY <1>1, <1>2, <2>1, EventsNvimStep DEF EventsCause, AbortCause
<1>3. CASE LoopStep
  <2>1. closed' = closed
    BY <1>3, LoopThreads
  <2>2. CASE aborted' = aborted
    BY <1>1, <1>3, <2>1, <2>2, EventsLoopStep DEF EventsCause, AbortCause
  <2>3. CASE LoopFind /\ aborted' # aborted
    <3>1. find_buffer_node(loop.num) = 0 /\ loop.pc \in {"lines", "detach"}
      BY <2>3 DEF LoopFind
    <3>2. Reported(loop.num)
      BY <1>1, <3>1 DEF EventsInv, EventsKnown
    <3>3. QED
      BY <3>1, <3>2, ListedIs DEF Reported
  <2>4. CASE LoopReadNode /\ aborted' # aborted
    <3> PICK k : k = loop.node
      OBVIOUS
    <3>1. aborted' = loop.num /\ k # 0 /\ ~ (nodes[k].isopen /\ nodes[k].bdata # 0)
      BY <2>4 DEF LoopReadNode, Stray
    <3>2. k \in 1 .. Len(nodes)
      BY <3>1, LoopIs, RegistryTypes DEF TypeInv
    <3>3. Listed(k) /\ nodes[k].num = loop.num
      BY <1>1, <3>1 DEF EventsInv, NodeOf
    <3>4. loop.num \in closed
      BY <1>1, <3>1, <3>2, <3>3 DEF EventsInv, ListFilled, Filled
    <3>5. QED
      BY <1>1, <1>3, <2>1, <3>1, <3>4, EventsLoopStep DEF EventsCause, AbortCause
  <2>5. aborted' = aborted \/ LoopFind \/ LoopReadNode
    <3>1. CASE ReadReply \/ ReadCommand \/ ReadEvent
      BY <3>1 DEF ReadReply, ReadCommand, ReadEvent, history
    <3>2. CASE LoopCannotFind \/ LoopHandle
      BY <3>2 DEF LoopCannotFind, CannotWalk, Stray, LoopHandle, history
    <3>3. QED
      BY <1>3, <3>1, <3>2 DEF LoopStep
  <2>6. QED
    BY <2>2, <2>3, <2>4, <2>5
<1>4. ASSUME NEW t \in Threads, ThreadStep(t) PROVE EventsCause'
  <2>1. aborted' = aborted /\ closed \subseteq closed'
    BY <1>4, OthersStay, ClosedGrows
  <2>2. QED
    BY <1>1, <1>4, <2>1, EventsThreadStep DEF EventsCause, AbortCause
<1>5. CASE UNCHANGED vars
  <2>1. UNCHANGED <<attached, wire, loop, nodes, list, th, closed, aborted>>
    BY <1>5 DEF vars, nvim, registry, history
  <2>2. EventsKnown' /\ AbortCause' /\ NodeOf(loop.node, loop.num)'
    BY <1>1, <2>1 DEF EventsInv, EventsKnown, AbortCause, Reported, Listed, NodeOf
  <2>3. ListFilled' /\ \A u \in Threads : MakingInv(u)'
    BY <1>1, <2>1 DEF EventsInv, ListFilled, MakingInv, Filled, Listed
  <2>4. QED
    BY <2>2, <2>3 DEF EventsCause, EventsInv
<1>6. QED
  BY <1>2, <1>3, <1>4, <1>5 DEF Next

LEMMA CauseInit == Init => EventsCause
<1> SUFFICES ASSUME Init PROVE EventsCause
  OBVIOUS
<1>1. /\ attached = {} /\ wire = <<>> /\ aborted = None /\ loop = Reading /\ nodes = <<>>
      /\ th = [t \in Threads |-> IF t = Main THEN NewThread("main", "start", None, 0) ELSE NoThread]
  BY DEF Init
<1>2. NewThread("main", "start", None, 0).pc = "start" /\ NoThread.pc = "idle"
  BY DEF NewThread, NoThread
<1>3. /\ Len(wire) = 0 /\ Len(nodes) = 0 /\ loop.pc = "read" /\ loop.node = 0
      /\ \A t \in Threads : th[t].pc \in {"start", "idle"}
  BY <1>1, <1>2 DEF Reading
<1>4. EventsKnown /\ AbortCause
  BY <1>1, <1>3 DEF EventsKnown, AbortCause
<1>5. ListFilled /\ NodeOf(loop.node, loop.num) /\ \A t \in Threads : MakingInv(t)
  BY <1>3 DEF ListFilled, NodeOf, MakingInv
<1>6. QED
  BY <1>4, <1>5 DEF EventsCause, EventsInv

(* Neovim's events never end the program by surprise: the buffer nobody     *)
(* finds was closed by destroy_buffer, and never one that new_buffer has   *)
(* not listed yet.  For every order of commands and events, also those that *)
(* break the list (ListSound's excuses).                                   *)
THEOREM AbortExplained == Spec => []AbortCause
<1>1. TypeInv /\ WriterInv /\ EventsCause /\ [Next]_vars => EventsCause'
  BY CauseStep
<1>2. EventsCause => AbortCause
  BY DEF EventsCause
<1>3. QED
  BY <1>1, <1>2, CauseInit, TypeAlways, WriterAlways, PTL DEF Spec

-----------------------------------------------------------------------------
(* Commands and the Buffers that detaches destroy.                         *)
Blamed == undefined # None /\ undefined.kind \in Kinds => Destroyed(undefined.num)

LEMMA DestroyedStays ==
  ASSUME TypeInv, KindInv, NEW n, Destroyed(n), LoopStep \/ \E t \in Threads : ThreadStep(t)
  PROVE  Destroyed(n)'
<1>1. PICK u \in Threads : th[u].kind = "destroyer" /\ th[u].pc # "idle" /\ th[u].num = n
  BY DEF Destroyed
<1>2. SUFFICES th'[u].kind = "destroyer" /\ th'[u].pc # "idle" /\ th'[u].num = n
  BY <1>1 DEF Destroyed
<1>3. CASE LoopStep
  BY <1>1, <1>3, LoopThreads DEF SameThreads, StartsCommand, StartsOther, Starts
<1>4. ASSUME NEW t \in Threads, ThreadStep(t)
      PROVE  th'[u].kind = "destroyer" /\ th'[u].pc # "idle" /\ th'[u].num = n
  <2>1. CASE u # t
    BY <1>1, <1>4, <2>1, OthersStay
  <2>2. CASE u = t
    <3>1. "destroyer" \notin Kinds
      BY RegistryAssumption
    <3>2. ~ Finds(t)
      BY <1>1, <2>2, <3>1, KindOf DEF Finds, Opens
    <3>3. th'[t].num = th[t].num
      BY <1>4, <3>2, Moves DEF Simply, Changes, Goes1, Keeps
    <3>4. QED
      BY <1>1, <1>4, <2>2, <3>3, OthersStay
  <2>3. QED
    BY <2>1, <2>2
<1>5. QED
  BY <1>3, <1>4

Using == Uses \cup {"previous", "append"}

LEMMA FreedBuffer ==
  ASSUME TypeInv, RegistryInv, NEW t \in Threads, ThreadStep(t), NEW b \in 1 .. Len(bufs),
         ~ bufs[b].alive => Destroyed(bufs[b].num), ~ (FreeBuffer(t) /\ IsCommand(t)), ~ bufs'[b].alive
  PROVE  Destroyed(bufs[b].num)' /\ bufs'[b].num = bufs[b].num
<1> PICK n : n = bufs[b].num
  OBVIOUS
<1>1. bufs'[b].num = n
  BY BufFields
<1>2. CASE ~ bufs[b].alive
  <2>1. Destroyed(n)
    BY <1>2
  <2>2. Destroyed(n)'
    BY <2>1, DestroyedStays DEF RegistryInv
  <2>3. QED
    BY <1>1, <2>2 DEF Destroyed
<1>3. CASE bufs[b].alive
  <2>1. FreeBuffer(t) /\ b = th[t].buf /\ th[t].pc = "free"
    BY <1>3, BufFields, ActionPoints
  <2>2. th[t].kind = "destroyer"
    BY <2>1, KindOf DEF RegistryInv, Destroys, IsCommand
  <2>3. th[t].num = n
    <3>1. b # 0 /\ Has(b, th[t].num)
      BY <2>1, RegistryTypes DEF RegistryInv, HoldersInv, TypeInv
    <3>2. QED
      BY <3>1 DEF Has
  <2>4. Destroyed(n)
    BY <2>1, <2>2, <2>3 DEF Destroyed
  <2>5. Destroyed(n)'
    BY <2>4, DestroyedStays DEF RegistryInv
  <2>6. QED
    BY <1>1, <2>5 DEF Destroyed
<1>4. QED
  BY <1>2, <1>3

LEMMA FreedThreadStep ==
  ASSUME TypeInv, RegistryInv, FreedInv, NEW t \in Threads, ThreadStep(t)
  PROVE  FreedInv'
<1>1. /\ \A u \in Threads : u # t => th'[u] = th[u]
      /\ th'[t].kind = th[t].kind /\ th[t].pc # "idle" /\ th'[t].pc # "idle"
  BY OthersStay
<1>2. SUFFICES ASSUME NEW u \in Threads, th'[u].kind \in Kinds, th'[u].pc \in Using,
                      NEW b, b \in {th'[u].buf, th'[u].prev}, b # 0, ~ bufs'[b].alive
               PROVE  \A n : n = bufs'[b].num => Destroyed(n)'
  BY DEF FreedInv, IsCommand, Using, Destroyed
<1>3. ASSUME th[u].pc \in Using, b \in {th[u].buf, th[u].prev}
      PROVE  \A n : n = bufs'[b].num => Destroyed(n)'
  <2>1. th[u].buf \in 0 .. Len(bufs) /\ th[u].prev \in 0 .. Len(bufs) /\ Len(bufs) \in Nat
    BY Somewhere, RegistryTypes DEF TypeInv
  <2>2. b \in 1 .. Len(bufs)
    BY <1>2, <1>3, <2>1
  <2>3. IsCommand(u) /\ th[u].pc \notin {"lock", "gone"}
    BY <1>1, <1>2, <1>3 DEF IsCommand, Using, Uses
  <2>4. ~ bufs[b].alive => Destroyed(bufs[b].num)
    BY <1>2, <1>3, <2>3 DEF FreedInv, Using
  <2>5. ASSUME FreeBuffer(t), IsCommand(t) PROVE FALSE
    <3>1. th[t].pc = "free"
      BY <2>5, ActionPoints
    <3>2. Working(t) /\ Working(u)
      BY <2>3, <2>5, <3>1 DEF Working
    <3>3. u = t
      BY <3>2, OnlyOne DEF RegistryInv
    <3>4. th'[t].pc \in {"find", "end"}
      BY <2>5, Going DEF FreeBuffer
    <3>5. QED
      BY <1>2, <3>3, <3>4 DEF Using, Uses
  <2>6. Destroyed(bufs[b].num)' /\ bufs'[b].num = bufs[b].num
    BY <1>2, <2>2, <2>4, <2>5, FreedBuffer
  <2>7. QED
    BY <2>6 DEF Destroyed
<1>4. CASE u # t \/ th' = th
  BY <1>1, <1>2, <1>3, <1>4
<1>5. CASE u = t /\ Keeps(t) /\ th[t].pc \in Using
  BY <1>2, <1>3, <1>5 DEF Keeps
<1>6. CASE u = t /\ Simply(t)
  <2>1. th'[t].pc \notin Kinds
    BY <1>2, <1>6, RegistryAssumption DEF Using, Uses
  <2>2. Goes1(t, "lock", th[t].kind) => th'[t].pc \in Kinds
    BY KindOf DEF Goes1, RegistryInv
  <2>3. Keeps(t) /\ th[t].pc \in Using
    BY <1>2, <1>6, <2>1, <2>2 DEF Simply, Goes1, Using, Uses
  <2>4. QED
    BY <1>5, <1>6, <2>3
<1>7. CASE u = t /\ Changes(t)
  <2>1. Keeps(t) /\ th[t].pc \in Using
    BY <1>2, <1>7 DEF Changes, Goes1, Using, Uses
  <2>2. QED
    BY <1>5, <1>7, <2>1
<1>8. CASE u = t /\ Finds(t)
  <2>1. th[t].prev # 0 => th[t].pc = "suspend"
    BY DEF RegistryInv, HoldersInv
  <2>2. CASE Look(t)
    <3>1. b = find_buffer(th[t].ans) /\ bufs' = bufs
      BY <1>2, <1>8, <2>1, <2>2, FindsAre, ActionPoints DEF LookIs, Looks
    <3>2. QED
      BY <1>2, <3>1, LooksFine DEF RegistryInv
  <2>3. CASE FindPrevious(t)
    <3>1. b = find_buffer(th[t].ans) \/ b = th[t].buf
      BY <1>2, <1>8, <2>3, FindsAre DEF PreviousIs
    <3>2. bufs' = bufs /\ th[t].pc \in Using
      BY <2>3, FindsAre, ActionPoints DEF Using
    <3>3. b = th[t].buf
      BY <1>2, <3>1, <3>2, LooksFine DEF RegistryInv
    <3>4. QED
      BY <1>3, <1>8, <3>2, <3>3
  <2>4. CASE Suspend(t)
    <3>1. b = th[t].buf /\ th[t].pc \in Using
      BY <1>2, <1>8, <2>4, FindsAre, ActionPoints DEF SuspendIs, Using, Uses
    <3>2. QED
      BY <1>3, <1>8, <3>1
  <2>5. ~ FindNode(t)
    BY <1>2, <1>8, <2>1, FindsAre, ActionPoints DEF NodeIs
  <2>6. ~ MakeBuffer(t)
    <3>1. ASSUME MakeBuffer(t) PROVE FALSE
      <4>1. b = (IF th[t].ans \in Known THEN Len(bufs) + 1 ELSE 0)
        BY <1>2, <1>8, <2>1, <3>1, FindsAre, ActionPoints DEF BufferIs
      <4>2. th[t].ans \in Known /\ b = Len(bufs) + 1
        BY <1>2, <4>1
      <4>3. bufs'[b].alive
        BY <3>1, <4>2, NewBuffer
      <4>4. QED
        BY <1>2, <4>3
    <3>2. QED
      BY <3>1
  <2>7. ~ (FreeNode(t) /\ nodes[th[t].node].bdata # 0)
    BY ActionPoints DEF RegistryInv, OpeningInv
  <2>8. QED
    BY <1>8, <2>2, <2>3, <2>4, <2>5, <2>6, <2>7 DEF Finds
<1>9. QED
  BY <1>4, <1>6, <1>7, <1>8, Moves

(* Nobody who walks the list, or opens a node, meets one that was freed.   *)
LEMMA BlamedThreadStep ==
  ASSUME TypeInv, RegistryInv, FreedInv, Blamed, NEW t \in Threads, ThreadStep(t)
  PROVE  Blamed'
<1>1. \A n : Destroyed(n) => Destroyed(n)'
  BY DestroyedStays DEF RegistryInv
<1>2. ASSUME NEW n, undefined'.num = n, undefined'.kind \in Kinds => Destroyed(n) PROVE Blamed'
  BY <1>1, <1>2 DEF Blamed, Destroyed
<1>3. CASE undefined' = undefined
  BY <1>1, <1>3 DEF Blamed, Destroyed
<1>4. CASE UseFreed(t)
  <2>1. PICK p \in Uses : th[t].pc = p /\ th[t].buf # 0 /\ ~ bufs[th[t].buf].alive /\ Stray(t)
    BY <1>4 DEF UseFreed, At, Alive
  <2>2. undefined' = [kind |-> IF t = Loop THEN "loop" ELSE th[t].kind, num |-> IF t = Loop THEN loop.num ELSE th[t].num]
        /\ t # Loop
    BY <2>1, RegistryAssumption DEF Stray, Threads, Loop
  <2>3. undefined'.kind = th[t].kind /\ undefined'.num = th[t].num
    BY <2>2
  <2>4. bufs[th[t].buf].num = th[t].num
    BY <2>1 DEF RegistryInv, HoldersInv, Has
  <2>5. th[t].kind \in Kinds => Destroyed(th[t].num)
    BY <2>1, <2>4, OthersStay DEF FreedInv, IsCommand
  <2>6. QED
    BY <1>2, <2>3, <2>5
<1>5. CASE UsePrevious(t)
  <2>1. /\ th[t].pc = "suspend" /\ th[t].prev # 0 /\ ~ bufs[th[t].prev].alive
        /\ undefined' = [kind |-> th[t].kind, num |-> bufs[th[t].prev].num]
    BY <1>5 DEF UsePrevious, At, Alive
  <2>2. th[t].kind \in Kinds => Destroyed(bufs[th[t].prev].num)
    BY <2>1, OthersStay DEF FreedInv, IsCommand, Uses
  <2>3. QED
    BY <1>2, <2>1, <2>2
<1>6. CASE CannotLook(t) /\ undefined' # undefined
  <2>1. PICK n : Dangling(n)
    BY <1>6 DEF CannotLook, CannotWalk, history
  <2>2. PICK i \in Visited(n) : ~ nodes[list[i]].alive
    BY <2>1 DEF Dangling
  <2>3. i \in 1 .. Len(list)
    <3>1. Positions(n) # {} => FirstAt(n) \in 1 .. Len(list)
      BY FoundNode DEF TypeInv, Positions
    <3>2. QED
      BY <3>1, RegistryTypes DEF Visited, TypeInv
  <2>4. list[i] \in 1 .. Len(nodes) /\ Listed(list[i])
    BY <2>3, ListTypes DEF TypeInv, Listed
  <2>5. QED
    BY <2>2, <2>4 DEF RegistryInv, NodesInv, OwnNumber
<1>7. CASE OpenNode(t) \/ FreeNode(t)
  <2>1. nodes[th[t].node].alive
    BY <1>7, ActionPoints DEF RegistryInv, OpeningInv
  <2>2. undefined' = undefined
    BY <1>7, <2>1 DEF OpenNode, FreeNode, history
  <2>3. QED
    BY <1>3, <2>2
<1>8. QED
  BY <1>3, <1>4, <1>5, <1>6, <1>7, RestKept

LEMMA FreedLoopStep ==
  ASSUME TypeInv, RegistryInv, FreedInv, Blamed, LoopStep
  PROVE  FreedInv' /\ Blamed'
<1>1. BufsAlike /\ \A n : Destroyed(n) => Destroyed(n)'
  BY LoopThreads, DestroyedStays DEF RegistryInv
<1>2. FreedInv'
  <2>1. SUFFICES ASSUME NEW u \in Threads, th'[u].kind \in Kinds, th'[u].pc \in Using,
                        NEW b, b \in {th'[u].buf, th'[u].prev}, b # 0, ~ bufs'[b].alive
                 PROVE  \A n : n = bufs'[b].num => Destroyed(n)'
    BY DEF FreedInv, IsCommand, Using, Destroyed
  <2>2. th[u].kind = th'[u].kind /\ th[u].pc = th'[u].pc /\ th[u].buf = th'[u].buf /\ th[u].prev = th'[u].prev
    <3>1. CASE SameThreads
      BY <3>1 DEF SameThreads
    <3>2. ASSUME NEW f \in Threads, StartsCommand(f) \/ StartsOther(f), u = f PROVE FALSE
      <4>1. "destroyer" \notin Kinds /\ "worker" \notin Kinds
        BY RegistryAssumption
      <4>2. th'[f].pc = "lock" \/ th'[f].kind \in {"destroyer", "worker"}
        BY <3>2 DEF StartsCommand, StartsOther, Starts
      <4>3. QED
        BY <2>1, <3>2, <4>1, <4>2 DEF Using, Uses
    <3>3. QED
      BY <3>1, <3>2, LoopThreads DEF StartsCommand, StartsOther, Starts
  <2>3. bufs'[b].num = bufs[b].num /\ bufs'[b].alive = bufs[b].alive
    <3>1. th[u].buf \in 0 .. Len(bufs) /\ th[u].prev \in 0 .. Len(bufs) /\ Len(bufs) \in Nat
      BY Somewhere, RegistryTypes DEF TypeInv
    <3>2. b \in 1 .. Len(bufs)
      BY <2>1, <2>2, <3>1
    <3>3. QED
      BY <1>1, <3>2 DEF BufsAlike
  <2>4. Destroyed(bufs[b].num)
    BY <2>1, <2>2, <2>3 DEF FreedInv, IsCommand, Using, Uses
  <2>5. QED
    BY <1>1, <2>3, <2>4
<1>3. "loop" \notin Kinds
  BY RegistryAssumption
<1>4. undefined' = undefined \/ Stray(Loop)
  <2>1. CASE ReadReply \/ ReadCommand \/ ReadEvent \/ LoopFind
    BY <2>1 DEF ReadReply, ReadCommand, ReadEvent, LoopFind, history
  <2>2. CASE LoopCannotFind \/ LoopReadNode \/ LoopHandle
    BY <2>2 DEF LoopCannotFind, CannotWalk, LoopReadNode, LoopHandle, history
  <2>3. QED
    BY <2>1, <2>2 DEF LoopStep
<1>5. Stray(Loop) => undefined'.kind = "loop"
  BY DEF Stray
<1>6. Blamed'
  BY <1>1, <1>3, <1>4, <1>5 DEF Blamed, Destroyed
<1>7. QED
  BY <1>2, <1>6

LEMMA FreedStep ==
  TypeInv /\ RegistryInv /\ (FreedInv /\ Blamed) /\ [Next]_vars /\ ~ Excused' => (FreedInv /\ Blamed)'
<1> SUFFICES ASSUME TypeInv, RegistryInv, FreedInv, Blamed, [Next]_vars, ~ Excused' PROVE FreedInv' /\ Blamed'
  OBVIOUS
<1>1. ASSUME UNCHANGED <<bufs, th, undefined>> PROVE FreedInv' /\ Blamed'
  BY <1>1 DEF FreedInv, Blamed, Destroyed, IsCommand
<1>2. CASE NvimStep
  BY <1>1, <1>2, NvimKeeps
<1>3. CASE LoopStep
  BY <1>3, FreedLoopStep
<1>4. ASSUME NEW t \in Threads, ThreadStep(t) PROVE FreedInv' /\ Blamed'
  BY <1>4, FreedThreadStep, BlamedThreadStep
<1>5. CASE UNCHANGED vars
  BY <1>1, <1>5 DEF vars, registry, history
<1>6. QED
  BY <1>2, <1>3, <1>4, <1>5 DEF Next

LEMMA FreedInit == Init => FreedInv /\ Blamed
<1> SUFFICES ASSUME Init PROVE FreedInv /\ Blamed
  OBVIOUS
<1>1. /\ undefined = None
      /\ th = [t \in Threads |-> IF t = Main THEN NewThread("main", "start", None, 0) ELSE NoThread]
  BY DEF Init
<1>2. NewThread("main", "start", None, 0).pc = "start" /\ NoThread.pc = "idle"
  BY DEF NewThread, NoThread
<1>3. \A t \in Threads : th[t].pc \notin Uses \cup {"previous", "append"}
  BY <1>1, <1>2 DEF Uses
<1>4. QED
  BY <1>1, <1>3 DEF FreedInv, Blamed

(* A command that follows a pointer to a freed Buffer, its own or that of   *)
(* the buffer before, was overtaken by a detach of that very number: no    *)
(* other command, worker or opener can free what a command uses.  With the *)
(* excuses of ListSound.                                                   *)
THEOREM CommandsAreSafe == Spec => []CommandsSafe
<1>1. TypeInv /\ WriterInv /\ (Excused \/ RegistryInv) /\ (Excused \/ (FreedInv /\ Blamed)) /\ [Next]_vars
        => (Excused \/ (FreedInv /\ Blamed))'
  BY FreedStep, ExcuseStays
<1>2. Excused \/ (FreedInv /\ Blamed) => CommandsSafe
  BY DEF Blamed, CommandsSafe, Destroyed, Excused
<1>3. Init => Excused \/ (FreedInv /\ Blamed)
  BY FreedInit
<1>4. QED
  BY <1>1, <1>2, <1>3, TypeAlways, WriterAlways, RegistryAlways, PTL DEF Spec
=============================================================================
