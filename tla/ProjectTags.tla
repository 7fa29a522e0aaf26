---------------------------- MODULE ProjectTags ----------------------------
(***************************************************************************)
(* What buffers share: project directories with their tags (buffer.c,      *)
(* ctags.c), filetypes (buffer.c), and neovim, whose current buffer gets   *)
(* whatever highlights are sent, for whichever buffer (update.c).  Threads *)
(* are those of neovim_init, of event_autocmd and of destroy_buffer.       *)
(*                                                                         *)
(* Buffers are highlighted with ctags.  A version stands for the tags of a *)
(* project at some moment: 0 is no tags at all, a file that is written     *)
(* brings a new one.  What goes wrong when two threads are about the same  *)
(* buffer is the matter of BufferRegistry: here they wait for each other.  *)
(***************************************************************************)
EXTENDS Integers, Sequences, FiniteSets

CONSTANTS Bufs,        \* numbers of buffers, from 1
          Dirs,        \* directories that files are in
          NoRecurse,   \* those ctags is not to descend into (norecurse_dirs)
          Types,       \* filetypes
          Early,       \* may commands come before neovim_init has ended?
          MaxMessages, \* bound: messages of the user's doing
          MaxVersion,  \* bound: versions of the tags
          None

ASSUME BufsAssumption == Bufs \subseteq Nat \ {0} /\ Bufs # {} /\ IsFiniteSet(Bufs)
ASSUME EarlyAssumption == Early \in BOOLEAN
ASSUME NoRecurseAssumption == NoRecurse \subseteq Dirs
ASSUME BoundsAssumption == MaxMessages \in Nat /\ MaxVersion \in Nat \ {0}
ASSUME NoneAssumption == None \notin Int \cup Types \cup Dirs \cup (Dirs \X Bufs)
ASSUME DirsAssumption == Dirs \cap (Dirs \X Bufs) = {}   \* a directory is not a file

VARIABLES
  current,    \* neovim: the current buffer
  file,       \* neovim: the directory of each buffer's file
  type,       \* neovim: the filetype of each buffer
  version,    \* the tags that ctags would now find
  shown,      \* neovim: for each buffer and type, the buffer and version shown
  sent,       \* how many messages there have been
  new_bufs, seen_bufs, \* the lists of the vimscript half
  waiting,    \* event_autocmd: how many threads of each kind wait for autocmd_mutex
  previous,   \* event_handlers.c: the buffer that the last command was about
  open,       \* buffers that are open and initialized
  ft,         \* bdata->ft
  calls,      \* bdata->calls: the version its commands were made of, or None
  topdir,     \* bdata->topdir: an index of tdirs, or 0
  tdirs,      \* every Top_Dir there ever was
  cache,      \* on disk: the version in the tags file of each base
  enabled,    \* run_ctags
  ftinit,     \* ft->initialized
  ftfilled,   \* filetypes whose data is there
  ftdata_mutex,
  th,         \* the threads
  toNvim,     \* commands on their way to neovim: the buffer, its type, the version
  undefined,  \* history: what freed or missing data has been used, or None
  raced,      \* history: a Top_Dir was released by one thread and taken up by another at a time
  excuses     \* history: why neovim may not show what it should

nvim == <<current, file, type, version, shown, sent, new_bufs, seen_bufs>>
bdata == <<open, ft, calls, topdir>>
filetypes == <<ftinit, ftfilled, ftdata_mutex>>
history == <<undefined, raced, excuses>>
vars == <<nvim, waiting, previous, bdata, tdirs, cache, enabled, filetypes, th, toNvim, history>>

Kinds == {"changed", "syntax", "want", "force"}
Main == 0    \* neovim_init
Cmd == -1    \* event_autocmd, of which one at a time has autocmd_mutex
Threads == {Main, Cmd} \cup Bufs     \* b: the destroy_buffer_thread of buffer b

(* What a thread is at: a buffer, its directory, the count it has read,    *)
(* whether cached commands will do, which run of ctags this is, and the    *)
(* tags in hand.                                                           *)
Idle == [pc |-> "idle", num |-> None, dir |-> 0, refs |-> 0, normal |-> FALSE,
         run |-> "none", ver |-> 0, forced |-> FALSE, freed |-> FALSE]

At(t, p) == th[t].pc = p
Goto(t, p) == th' = [th EXCEPT ![t].pc = p]
Busy(b) == \E t \in Threads : th[t].pc # "idle" /\ th[t].num = b

-----------------------------------------------------------------------------
(* Project directories.  Two buffers may share one if their base and type  *)
(* agree.  Where ctags is not to descend, the base is the file itself.     *)
Recurse(b) == file[b] \notin NoRecurse
Base(b) == IF Recurse(b) THEN file[b] ELSE <<file[b], b>>

Tags(v, f) == [there |-> TRUE, ver |-> v, forced |-> f]
NoTags == [there |-> FALSE, ver |-> 0, forced |-> FALSE]

Gone == [base |-> None, path |-> None, ftid |-> None, refs |-> 0, listed |-> FALSE, tags |-> NoTags]
Alive(d) == tdirs[d].base # None

(* check_open_topdirs compares the path of a directory with a base.        *)
check_open_topdirs(b) ==
  {d \in 1 .. Len(tdirs) : tdirs[d].listed /\ tdirs[d].ftid = ft[b] /\ tdirs[d].path = Base(b)}

(* Somebody stands between a step that looked at d and the one that counts *)
(* itself in or out.                                                       *)
Counting(t, d) == \E u \in Threads \ {t} : /\ th[u].dir = d
                                           /\ th[u].pc \in {"count_in", "store_in", "count_out", "store_out"}

(* The list of tags of d is freed: whoever has it in hand has it no more.  *)
Loses(d, u) == th[u].dir = d /\ th[u].pc = "searching"

Broken(what) == undefined' = IF undefined = None THEN what ELSE undefined

-----------------------------------------------------------------------------
(* Neovim (external) and the vimscript half of the plugin.                 *)
Announce(k) == /\ sent < MaxMessages
               /\ sent' = sent + 1
               /\ waiting' = [waiting EXCEPT ![k] = @ + 1]

(* s:BufChanged, on BufEnter.  One case announces nothing.                 *)
EnterBuffer(n) ==
  /\ n # current
  /\ current' = n
  /\ new_bufs' = new_bufs \cup {n}
  /\ seen_bufs' = seen_bufs \cup {n}
  /\ IF n \in new_bufs /\ n \notin seen_bufs
     THEN /\ sent < MaxMessages /\ sent' = sent + 1
          /\ excuses' = excuses \cup {"unannounced"} /\ UNCHANGED waiting
     ELSE Announce("changed") /\ UNCHANGED excuses
  /\ UNCHANGED <<file, type, version, shown, previous, bdata, tdirs, cache, enabled, filetypes,
                 th, toNvim, undefined, raced>>

(* s:NewBuf, on BufAdd: some buffer is added, the current one is noted.    *)
AddBuffer ==
  /\ current \notin new_bufs
  /\ Announce("changed")
  /\ new_bufs' = new_bufs \cup {current}
  /\ UNCHANGED <<current, file, type, version, shown, seen_bufs, previous, bdata, tdirs, cache, enabled,
                 filetypes, th, toNvim, history>>

(* Another buffer is deleted: s:DeleteBuf forgets the current one, and the *)
(* event loop starts a destroy_buffer_thread.                              *)
DeleteBuffer(n) ==
  /\ n \in open \ {current}
  /\ ~ Busy(n)
  /\ sent < MaxMessages /\ sent' = sent + 1
  /\ new_bufs' = new_bufs \ {current}
  /\ seen_bufs' = seen_bufs \ {current}
  /\ th' = [th EXCEPT ![n] = [Idle EXCEPT !.pc = "clear", !.num = n, !.dir = topdir[n]]]
  /\ UNCHANGED <<current, file, type, version, shown, waiting, previous, bdata, tdirs, cache, enabled,
                 filetypes, toNvim, history>>

SetFiletype(f) == /\ f # type[current]
                  /\ type' = [type EXCEPT ![current] = f]
                  /\ Announce("syntax")
                  /\ UNCHANGED <<current, file, version, shown, new_bufs, seen_bufs, previous, bdata, tdirs,
                                 cache, enabled, filetypes, th, toNvim, history>>

WriteFile == /\ version < MaxVersion
             /\ version' = version + 1
             /\ Announce("want")
             /\ UNCHANGED <<current, file, type, shown, new_bufs, seen_bufs, previous, bdata, tdirs,
                            cache, enabled, filetypes, th, toNvim, history>>

ForceUpdate == /\ Announce("force")
               /\ UNCHANGED <<current, file, type, version, shown, new_bufs, seen_bufs, previous, bdata,
                              tdirs, cache, enabled, filetypes, th, toNvim, history>>

(* Commands of two passes may overtake each other; neovim executes them    *)
(* for the buffer that is current by then.                                 *)
Execute(i) ==
  LET m == toNvim[i] IN
  /\ toNvim' = SubSeq(toNvim, 1, i - 1) \o SubSeq(toNvim, i + 1, Len(toNvim))
  /\ shown' = [shown EXCEPT ![current][m.type] = <<m.num, m.ver>>]
  /\ excuses' = IF i = 1 THEN excuses ELSE excuses \cup {"overtaken"}
  /\ UNCHANGED <<current, file, type, version, sent, new_bufs, seen_bufs, waiting, previous, bdata, tdirs,
                 cache, enabled, filetypes, th, undefined, raced>>

-----------------------------------------------------------------------------
(* A command gets autocmd_mutex and asks for the current buffer.           *)
Begin(p, normal) == th' = [th EXCEPT ![Cmd] = [Idle EXCEPT !.pc = p, !.num = current, !.normal = normal,
                                                           !.dir = IF current \in open THEN topdir[current] ELSE 0]]

event_buffer_changed ==
  IF current \notin open THEN Begin("open", FALSE) /\ UNCHANGED excuses
  ELSE IF previous = current THEN excuses' = excuses \cup {"bounced"} /\ UNCHANGED th
  ELSE Begin("update", TRUE) /\ UNCHANGED excuses

(* The buffer whose filetype has changed may no longer be current.         *)
event_syntax_changed ==
  /\ IF current \in open /\ ft[current] # type[current] THEN Begin("clear", FALSE) ELSE UNCHANGED th
  /\ excuses' = excuses \cup {x \in {"mistaken"} : \E b \in open \ {current} : ft[b] # type[b]}

(* A buffer that was destroyed is still on the list of nodes.              *)
event_want_update == /\ IF current \notin open /\ ft[current] # None
                        THEN Begin("open", FALSE) ELSE UNCHANGED th
                     /\ UNCHANGED excuses

event_force_update == /\ Begin(IF current \in open THEN "update" ELSE "open", FALSE)
                      /\ UNCHANGED excuses

Take(k) ==
  /\ At(Cmd, "idle")
  /\ waiting[k] > 0
  /\ ~ Busy(current)
  /\ waiting' = [waiting EXCEPT ![k] = @ - 1]
  /\ previous' = current
  /\ CASE k = "changed" -> event_buffer_changed
       [] k = "syntax"  -> event_syntax_changed
       [] k = "want"    -> event_want_update
       [] k = "force"   -> event_force_update
  /\ UNCHANGED <<nvim, bdata, tdirs, cache, enabled, filetypes, toNvim, undefined, raced>>

-----------------------------------------------------------------------------
(* Opening a buffer: init_topdir, init_filetype, get_initial_taglist.      *)
Open(t) == LET b == th[t].num IN
  /\ At(t, "open")
  /\ ft' = [ft EXCEPT ![b] = type[b]]
  /\ Goto(t, "find")
  /\ UNCHANGED <<nvim, waiting, previous, open, calls, topdir, tdirs, cache, enabled, filetypes, toNvim, history>>

init_topdir(t) == LET D == check_open_topdirs(th[t].num) IN
  /\ At(t, "find")
  /\ IF D = {}
     THEN Goto(t, "create") /\ UNCHANGED raced
     ELSE \E d \in D : /\ \A e \in D : d <= e
                      /\ th' = [th EXCEPT ![t].pc = "count_in", ![t].dir = d]
                      /\ raced' = (raced \/ Counting(t, d))
  /\ UNCHANGED <<nvim, waiting, previous, bdata, tdirs, cache, enabled, filetypes, toNvim, undefined, excuses>>

CountIn(t) == LET d == th[t].dir IN
  /\ At(t, "count_in")
  /\ IF Alive(d) THEN /\ th' = [th EXCEPT ![t].pc = "store_in", ![t].refs = tdirs[d].refs]
                      /\ UNCHANGED undefined
                 ELSE Broken("topdir") /\ UNCHANGED th
  /\ UNCHANGED <<nvim, waiting, previous, bdata, tdirs, cache, enabled, filetypes, toNvim, raced, excuses>>

StoreIn(t) == LET d == th[t].dir IN
  /\ At(t, "store_in")
  /\ IF Alive(d) THEN /\ tdirs' = [tdirs EXCEPT ![d].refs = th[t].refs + 1]
                      /\ topdir' = [topdir EXCEPT ![th[t].num] = d]
                      /\ th' = [th EXCEPT ![t].pc = "filetype", ![t].refs = 0]
                      /\ UNCHANGED undefined
                 ELSE Broken("topdir") /\ UNCHANGED <<tdirs, topdir, th>>
  /\ UNCHANGED <<nvim, waiting, previous, open, ft, calls, cache, enabled, filetypes, toNvim,
                 raced, excuses>>

(* After a call of neovim's tempname, the directory is new to everybody.   *)
CreateDir(t) == LET b == th[t].num IN
  /\ At(t, "create")
  /\ tdirs' = Append(tdirs, [base |-> Base(b), path |-> file[b], ftid |-> ft[b], refs |-> 1, listed |-> TRUE,
                             tags |-> NoTags])
  /\ topdir' = [topdir EXCEPT ![b] = Len(tdirs) + 1]
  /\ th' = [th EXCEPT ![t].pc = "filetype", ![t].dir = Len(tdirs) + 1]
  /\ UNCHANGED <<nvim, waiting, previous, open, ft, calls, cache, enabled, filetypes, toNvim, history>>

(* init_filetype: initialized is tested before the mutex is taken, and set *)
(* before there is any data.                                               *)
init_filetype(t) ==
  /\ At(t, "filetype")
  /\ Goto(t, IF ft[th[t].num] \in ftinit THEN "lines" ELSE "ftlock")
  /\ UNCHANGED <<nvim, waiting, previous, bdata, tdirs, cache, enabled, filetypes, toNvim, history>>

(* Mutant: the filetype is never marked.                                   *)
LockUnmarked(t) ==
  /\ At(t, "ftlock")
  /\ ftdata_mutex = None
  /\ ftdata_mutex' = t
  /\ Goto(t, "ftfill")
  /\ UNCHANGED <<nvim, waiting, previous, bdata, tdirs, cache, enabled, ftinit, ftfilled, toNvim, history>>

LockFiletypes(t) ==
  /\ At(t, "ftlock")
  /\ ftdata_mutex = None
  /\ ftdata_mutex' = t
  /\ ftinit' = ftinit \cup {ft[th[t].num]}
  /\ Goto(t, "ftfill")
  /\ UNCHANGED <<nvim, waiting, previous, bdata, tdirs, cache, enabled, ftfilled, toNvim, history>>

(* The array of tags to be ignored is freed by the first filling.          *)
FillFiletype(t) == LET f == ft[th[t].num] IN
  /\ At(t, "ftfill")
  /\ ftdata_mutex' = None
  /\ ftfilled' = ftfilled \cup {f}
  /\ IF f \in ftfilled THEN Broken("filetype") ELSE UNCHANGED undefined
  /\ Goto(t, "lines")
  /\ UNCHANGED <<nvim, waiting, previous, bdata, tdirs, cache, enabled, ftinit, toNvim, raced, excuses>>

get_initial_lines(t) ==
  /\ At(t, "lines")
  /\ open' = open \cup {th[t].num}
  /\ Goto(t, "tags")
  /\ UNCHANGED <<nvim, waiting, previous, ft, calls, topdir, tdirs, cache, enabled, filetypes, toNvim, history>>

Key(d) == <<tdirs[d].base, tdirs[d].ftid>>   \* get_tag_filename

(* get_initial_taglist: the tags that are there are replaced; else those   *)
(* in the cache are taken, or ctags is run to fill it.                     *)
get_initial_taglist(t) == LET d == th[t].dir IN
  /\ At(t, "tags")
  /\ \/ ~ Alive(d) /\ Broken("topdir") /\ UNCHANGED <<tdirs, th>>
     \/ /\ Alive(d) /\ tdirs[d].tags.there
        /\ th' = [th EXCEPT ![t].pc = "ctags", ![t].run = "replace"]
        /\ UNCHANGED <<tdirs, undefined>>
     \/ /\ Alive(d) /\ ~ tdirs[d].tags.there /\ cache[Key(d)] # None
        /\ tdirs' = [tdirs EXCEPT ![d].tags = Tags(cache[Key(d)], FALSE)]
        /\ Goto(t, "update")
        /\ UNCHANGED undefined
     \/ /\ Alive(d) /\ ~ tdirs[d].tags.there   \* no file, or one that cannot be read
        /\ tdirs' = [tdirs EXCEPT ![d].tags = Tags(0, FALSE)]
        /\ th' = [th EXCEPT ![t].pc = "ctags", ![t].run = "cache"]
        /\ UNCHANGED undefined
  /\ UNCHANGED <<nvim, waiting, previous, bdata, cache, enabled, filetypes, toNvim, raced, excuses>>

-----------------------------------------------------------------------------
(* Running ctags: run_ctags_pipe, update_taglist.                          *)
(* Mutant: what was found with the language forced is searched.            *)
AfterForcedRun(r) == CASE r \in {"replace", "cache"} -> [pc |-> "update", run |-> "none"]
                       [] r = "first"  -> [pc |-> "search", run |-> r]
                       [] r = "forced" -> [pc |-> "search", run |-> "second"]
                       [] OTHER        -> [pc |-> "search", run |-> "none"]

AfterRun(r) == CASE r \in {"replace", "cache"} -> [pc |-> "update", run |-> "none"]
                 [] r \in {"first", "second"}  -> [pc |-> "search", run |-> r]
                 [] r = "forced"               -> [pc |-> "ctags", run |-> "second"]
                 [] OTHER                      -> [pc |-> "search", run |-> "none"]

Proceed(t) == LET n == AfterRun(th[t].run) IN [th EXCEPT ![t].pc = n.pc, ![t].run = n.run, ![t].ver = 0]

(* The cached commands are dropped before ctags has found anything.        *)
run_ctags_pipe(t) ==
  /\ At(t, "ctags")
  /\ IF enabled THEN /\ th' = [th EXCEPT ![t].pc = "running", ![t].ver = version]
                     /\ calls' = [calls EXCEPT ![th[t].num] = None]
                ELSE th' = Proceed(t) /\ UNCHANGED calls
  /\ UNCHANGED <<nvim, waiting, previous, open, ft, topdir, tdirs, cache, enabled, filetypes, toNvim, history>>

(* What a run that fails has written is taken for its tags.                *)
update_taglist(t) == LET d == th[t].dir
                         r == th[t].run
                         done == Proceed(t) IN
  /\ At(t, "running")
  /\ IF Alive(d)
     THEN \E v \in {th[t].ver, 0} :
            /\ tdirs' = [tdirs EXCEPT ![d].tags = Tags(v, r = "forced")]
            /\ cache' = IF r = "cache" THEN [cache EXCEPT ![Key(d)] = v] ELSE cache
            /\ th' = [u \in Threads |-> IF r # "cache" /\ Loses(d, u)
                                       THEN [th[u] EXCEPT !.freed = TRUE] ELSE done[u]]
            /\ UNCHANGED undefined
     ELSE Broken("topdir") /\ UNCHANGED <<tdirs, cache, th>>
  /\ UNCHANGED <<nvim, waiting, previous, bdata, enabled, filetypes, toNvim, raced, excuses>>

-----------------------------------------------------------------------------
(* Updating the highlights of a buffer: update_highlight, update_other.    *)
Send(b, v) == toNvim' = Append(toNvim, [num |-> b, type |-> ft[b], ver |-> v])

Ends(t) == th' = [th EXCEPT ![t] = [Idle EXCEPT !.pc = IF t = Main THEN "gone" ELSE "idle"]]

(* Mutant: a buffer that has its commands is taken for highlighted.        *)
update_only_new(t) == LET b == th[t].num IN
  /\ At(t, "update")
  /\ IF calls[b] # None /\ th[t].normal
     THEN Ends(t)
     ELSE th' = [th EXCEPT ![t].pc = "ctags", ![t].run = "first"]
  /\ UNCHANGED <<nvim, waiting, previous, bdata, tdirs, cache, enabled, filetypes, history, toNvim>>

update_highlight(t) == LET b == th[t].num IN
  /\ At(t, "update")
  /\ IF calls[b] # None /\ th[t].normal
     THEN Send(b, calls[b]) /\ Ends(t)
     ELSE th' = [th EXCEPT ![t].pc = "ctags", ![t].run = "first"] /\ UNCHANGED toNvim
  /\ UNCHANGED <<nvim, waiting, previous, bdata, tdirs, cache, enabled, filetypes, history>>

(* process_tags takes the list of tags to search it, ...                   *)
Search(t) == LET d == th[t].dir IN
  /\ At(t, "search")
  /\ IF Alive(d)
     THEN /\ th' = [th EXCEPT ![t].pc = "searching", ![t].ver = tdirs[d].tags.ver,
                              ![t].forced = tdirs[d].tags.forced]
          /\ UNCHANGED undefined
     ELSE Broken("topdir") /\ UNCHANGED th
  /\ UNCHANGED <<nvim, waiting, previous, bdata, tdirs, cache, enabled, filetypes, toNvim, raced, excuses>>

(* ... and what it finds in the lines of the buffer is sent.               *)
Found(t) == LET b == th[t].num IN
  /\ At(t, "searching")
  /\ th[t].ver # 0
  /\ IF th[t].freed \/ ~ Alive(th[t].dir) \/ ft[b] \notin ftfilled
     THEN Broken("tags") /\ UNCHANGED <<calls, toNvim, th>>
     ELSE /\ calls' = [calls EXCEPT ![b] = th[t].ver]
          /\ Send(b, th[t].ver)
          /\ Ends(t)
          /\ UNCHANGED undefined
  /\ UNCHANGED <<nvim, waiting, previous, open, ft, topdir, tdirs, cache, enabled, filetypes, raced, excuses>>

(* Nothing at all: once, ctags is told the language, and run again.        *)
NothingFound(t) ==
  /\ At(t, "searching")
  /\ IF th[t].freed \/ ~ Alive(th[t].dir) THEN Broken("tags") /\ UNCHANGED th
     ELSE /\ IF th[t].run = "first"
             THEN th' = [th EXCEPT ![t].pc = "ctags", ![t].run = "forced", ![t].ver = 0]
             ELSE Ends(t)
          /\ UNCHANGED undefined
  /\ UNCHANGED <<nvim, waiting, previous, bdata, tdirs, cache, enabled, filetypes, toNvim, raced, excuses>>

-----------------------------------------------------------------------------
(* destroy_buffer, by a thread of its own or for a new filetype.           *)
ClearedElsewhere(b) == IF current # b /\ ft[b] = ft[current] THEN {"cleared"} ELSE {}

(* The command is not for a buffer: it clears the current one.             *)
clear_highlight(t) == LET b == th[t].num IN
  /\ At(t, "clear")
  /\ shown' = [shown EXCEPT ![current][ft[b]] = None]
  /\ excuses' = excuses \cup ClearedElsewhere(b) \cup (IF toNvim = <<>> THEN {} ELSE {"overtaken"})
  /\ Goto(t, "unlist")
  /\ UNCHANGED <<current, file, type, version, sent, new_bufs, seen_bufs, waiting, previous, bdata, tdirs,
                 cache, enabled, filetypes, toNvim, undefined, raced>>

Unlist(t) ==
  /\ At(t, "unlist")
  /\ open' = open \ {th[t].num}
  /\ Goto(t, "count_out")
  /\ raced' = (raced \/ Counting(t, th[t].dir))
  /\ UNCHANGED <<nvim, waiting, previous, ft, calls, topdir, tdirs, cache, enabled, filetypes, toNvim,
                 undefined, excuses>>

CountOut(t) == LET d == th[t].dir IN
  /\ At(t, "count_out")
  /\ IF Alive(d) THEN /\ th' = [th EXCEPT ![t].pc = "store_out", ![t].refs = tdirs[d].refs]
                      /\ UNCHANGED undefined
                 ELSE Broken("topdir") /\ UNCHANGED th
  /\ UNCHANGED <<nvim, waiting, previous, bdata, tdirs, cache, enabled, filetypes, toNvim, raced, excuses>>

(* What is freed with the last buffer, destroy_topdir takes off the list.  *)
Released(d, n) == [tdirs EXCEPT ![d] = IF n = 0 THEN Gone ELSE [@ EXCEPT !.refs = n]]

(* Mutant: the directory goes with the first buffer that is closed.        *)
ReleasedAtOnce(d, n) == [tdirs EXCEPT ![d] = Gone]

destroy_topdir(d, n) == Released(d, n)

StoreOut(t) == LET d == th[t].dir
                   b == th[t].num IN
  /\ At(t, "store_out")
  /\ IF Alive(d)
     THEN /\ tdirs' = destroy_topdir(d, th[t].refs - 1)
          /\ topdir' = [topdir EXCEPT ![b] = 0]
          /\ calls' = [calls EXCEPT ![b] = None]
          /\ th' = [th EXCEPT ![t] = IF t = Cmd THEN [Idle EXCEPT !.pc = "open", !.num = b] ELSE Idle]
          /\ UNCHANGED undefined
     ELSE Broken("topdir") /\ UNCHANGED <<tdirs, topdir, calls, th>>
  /\ UNCHANGED <<nvim, waiting, previous, open, ft, cache, enabled, filetypes, toNvim, raced, excuses>>

-----------------------------------------------------------------------------
Bases == Dirs \cup (NoRecurse \X Bufs)

Init ==
  /\ current = CHOOSE b \in Bufs : TRUE   \* buffers are alike
  /\ file \in [Bufs -> Dirs]
  /\ type \in [Bufs -> Types]
  /\ version = 1
  /\ shown = [b \in Bufs |-> [f \in Types |-> None]]
  /\ sent = 0
  /\ new_bufs = {current} /\ seen_bufs = {current}
  /\ waiting = [k \in Kinds |-> 0]
  /\ previous = None
  /\ open = {} /\ topdir = [b \in Bufs |-> 0]
  /\ ft = [b \in Bufs |-> None] /\ calls = [b \in Bufs |-> None]
  /\ tdirs = <<>>
  /\ cache = [k \in Bases \X Types |-> None]
  /\ enabled \in BOOLEAN
  /\ ftinit = {} /\ ftfilled = {} /\ ftdata_mutex = None
  /\ th = [t \in Threads |-> IF t = Main THEN [Idle EXCEPT !.pc = "open", !.num = current] ELSE Idle]
  /\ toNvim = <<>>
  /\ undefined = None  /\ raced = FALSE /\ excuses = {}

User == /\ Early \/ At(Main, "gone")
        /\ \/ \E b \in Bufs : EnterBuffer(b) \/ DeleteBuffer(b)
           \/ AddBuffer \/ WriteFile \/ ForceUpdate
           \/ \E f \in Types : SetFiletype(f)

Opens(t) == \/ Open(t) \/ init_topdir(t) \/ CountIn(t) \/ StoreIn(t) \/ CreateDir(t)
            \/ init_filetype(t) \/ LockFiletypes(t) \/ FillFiletype(t)
            \/ get_initial_lines(t) \/ get_initial_taglist(t)
Updates(t) == \/ run_ctags_pipe(t) \/ update_taglist(t) \/ update_highlight(t)
              \/ Search(t) \/ Found(t) \/ NothingFound(t)
Destroys(t) == clear_highlight(t) \/ Unlist(t) \/ CountOut(t) \/ StoreOut(t)

Next == /\ undefined = None
        /\ \/ User
           \/ \E i \in 1 .. Len(toNvim) : Execute(i)
           \/ \E k \in Kinds : Take(k)
           \/ \E t \in {Main, Cmd} : Opens(t) \/ Updates(t)
           \/ \E t \in Threads : Destroys(t)

Spec == Init /\ [][Next]_vars

-----------------------------------------------------------------------------
Versions == 0 .. MaxVersion
Pcs == {"idle", "gone", "open", "find", "create", "count_in", "store_in", "filetype", "ftlock", "ftfill",
        "lines", "tags", "ctags", "running", "update", "search", "searching",
        "clear", "unlist", "count_out", "store_out"}
Runs == {"none", "replace", "cache", "first", "forced", "second"}
TagRecs == [there : BOOLEAN, ver : Versions, forced : BOOLEAN]
DirRecs == [base : Bases \cup {None}, path : Dirs \cup {None}, ftid : Types \cup {None}, refs : Nat,
            listed : BOOLEAN, tags : TagRecs]

(* Every variable holds what the code can put there, a filetype is marked  *)
(* before it is filled, and refs is never negative.                        *)
TypeOK ==
  /\ current \in Bufs /\ file \in [Bufs -> Dirs] /\ type \in [Bufs -> Types]
  /\ version \in Versions /\ sent \in 0 .. MaxMessages
  /\ shown \in [Bufs -> [Types -> (Bufs \X Versions) \cup {None}]]
  /\ new_bufs \subseteq Bufs /\ seen_bufs \subseteq Bufs
  /\ waiting \in [Kinds -> 0 .. MaxMessages]
  /\ previous \in Bufs \cup {None}
  /\ open \subseteq Bufs
  /\ ft \in [Bufs -> Types \cup {None}] /\ calls \in [Bufs -> Versions \cup {None}]
  /\ topdir \in [Bufs -> 0 .. Len(tdirs)] /\ tdirs \in Seq(DirRecs)
  /\ cache \in [Bases \X Types -> Versions \cup {None}]
  /\ enabled \in BOOLEAN
  /\ ftfilled \subseteq ftinit /\ ftinit \subseteq Types
  /\ ftdata_mutex \in {None, Main, Cmd}
  /\ th \in [Threads -> [pc : Pcs, num : Bufs \cup {None}, dir : 0 .. Len(tdirs), refs : Nat,
                         normal : BOOLEAN, run : Runs, ver : Versions, forced : BOOLEAN, freed : BOOLEAN]]
  /\ toNvim \in Seq([num : Bufs, type : Types, ver : Versions])
  /\ undefined \in {None, "topdir", "filetype", "tags"} /\ raced \in BOOLEAN
  /\ excuses \subseteq {"bounced", "cleared", "overtaken", "unannounced", "mistaken"}

(* A project directory is counted by exactly the buffers that use it, is   *)
(* never freed while one does, and is open only once: unless one thread    *)
(* counted itself in or out while another was about to (++refs and --refs  *)
(* are done without a lock), or commands came before neovim_init was done. *)
DirsCounted ==
  raced \/ /\ \A d \in 1 .. Len(tdirs) :
               Alive(d) => tdirs[d].refs = Cardinality({b \in Bufs : topdir[b] = d})
           /\ \A b \in Bufs : topdir[b] # 0 => Alive(topdir[b])
           /\ Early \/ \A d, e \in 1 .. Len(tdirs) :
                         Alive(d) /\ Alive(e) /\ Key(d) = Key(e) => d = e

(* No thread uses tags, a directory or the data of a filetype that another *)
(* has freed or not yet filled in, and what is sent to neovim never comes  *)
(* of tags that were made with the language forced on every file (update.c *)
(* runs ctags again): unless a directory was counted in and out at once,   *)
(* or commands came before neovim_init was done.                           *)
UseSafe == Early \/ raced \/ /\ undefined = None
                             /\ \A t \in Threads : At(t, "searching") => ~ th[t].forced

(* When all is quiet, the current buffer shows its own commands.  Neovim   *)
(* executes commands for whichever buffer is current, so this takes every  *)
(* handler's part: it holds unless somebody has an excuse, and the excuses *)
(* are the ways in which the code falls short of it: a change of buffer    *)
(* taken for none, because another command was handled first ("bounced");  *)
(* another buffer destroyed, of the type the current one is highlighted    *)
(* with ("cleared"); two updates that overtook each other ("overtaken"); a *)
(* change s:BufChanged does not tell ("unannounced"); a new filetype of a  *)
(* buffer that was left before it was looked at ("mistaken").  Or else     *)
(* commands came before neovim_init was done.                              *)
Quiet == /\ \A t \in Threads : th[t].pc \in {"idle", "gone"}
         /\ waiting = [k \in Kinds |-> 0]
         /\ toNvim = <<>>
CurrentShown ==
  \/ Early
  \/ Quiet /\ excuses = {} /\ current \in open /\ calls[current] # None =>
       /\ ft[current] = type[current]
       /\ shown[current][ft[current]] = <<current, calls[current]>>
=============================================================================
