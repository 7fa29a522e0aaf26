# A TLA+ model of tag-highlight.nvim

tag-highlight.nvim is a Neovim plugin: a C program that Neovim starts as a job
and talks to in msgpack-RPC over the program's standard input and output, and a
small vimscript half that forwards autocommands and user commands to it. The
program keeps a copy of the lines of every buffer it is attached to, finds the
identifiers worth highlighting with libclang, a Go helper or ctags, and sends
Neovim the commands that highlight them.

This directory holds TLA+ modules for that program, TLC configurations that
check them on small instances, and proofs, checked by TLAPS, of the properties
that matter most. Paths below are relative to `tag-highlight/src/` unless they
start with another directory of the repository.

## The system

| Part | State it keeps | Operations | Talks to |
|---|---|---|---|
| Event loop (`event_loop.c`) | the libuv loop, a grace flag | read and dispatch one message, stop, signals | everybody, through messages |
| Dispatch (`event_handlers.c`) | – | notifications on the loop's own thread, one detached thread per response, per update command, per detach | remote calls, line copy, registry |
| Remote calls (`nvim_api/`) | `nvim_wait_queue`, the request counter | blocking call, detached (non-blocking) call, search for the wait node, wake-up | neovim's pipe, event loop |
| Line copy (`event_handlers.c`, `util/linked_list.c`) | `bdata->lines`, `bdata->initialized` | `get_initial_lines`, `handle_line_event` | guarded by `bdata->lock.total` |
| Commands (`event_autocmd`) | `autocmd_mutex`, `global_previous_buffer` | buffer changed, syntax changed, want or force an update, clear, stop, exit | registry, updates, remote calls |
| Registry (`buffer.c`) | `buffer_list`, nodes with `isopen` and a lock | open, find, destroy a buffer | remote calls, highlighters, event loop |
| Project directories and filetypes (`buffer.c`, `ctags.c`) | `top_dirs` with `refs` and `tags`, `ftdata`, tags files | share a directory, run ctags, initialise a filetype, release | registry, updates |
| Updates (`update.c`, `lang/ctags_scan/`) | `bdata->calls` | strip and tokenise the lines, find tags, build and cache commands, clear | remote calls, under `lock.total` |
| Highlight workers (`lang/clang/`, `lang/golang/`) | `lock.num_workers`, `lock.hl_waiters`, `lock.lang_mtx`, the Go pipe | highlight, delayed highlight | line copy, remote calls |
| Startup (`main.c`) | `settings` | `neovim_init` on a detached thread | registry, line copy, updates |
| Vimscript (`plugin/Tag-Highlight_Setup.vim`) | job id, `s:new_bufs`, `s:seen_bufs` | announce buffers, forward commands, stop, restart | event loop |
| Codec (`mpack/`) | – | encode, decode, convert, formats | event loop, remote calls |

What makes a part correct, and what is hard about it:

* **Remote calls.** Every caller gets the answer to its own request, exactly
  once. Threads write requests and enqueue wait nodes in two steps, responses
  are carried by detached threads which search one shared FIFO by popping and
  appending, and they may arrive before the node does.
* **Line copy.** After every line event the copy equals the buffer as it was
  after the edit. The handler is written with three insertion cases, a loop
  with three counters and list operations which accept an index one past the
  end.
* **Attachment.** Initial lines and line events are applied by two threads, in
  the order they get `lock.total`, and must meet exactly.
* **Locks and the event loop.** Threads keep `lock.total`, a node's lock or
  `autocmd_mutex` while they wait for replies, and only the event loop, which
  itself takes the first two, delivers replies.
* **Registry.** A buffer that is found is one that stays. Lookups return bare
  pointers; opening and closing run on unrelated threads.
* **Project directories.** A directory is freed when the last of its buffers
  is, and not before; its tags are shared; neovim executes highlight commands
  for whichever buffer is current.
* **Highlight workers.** A bounded number of workers per buffer; turning the
  others away must not lose the last edit; every path out counts out and unlocks.
  The counter is raised before it is tested.
* **Sequential algorithms.** Codec, formats with two passes matched by order
  alone, comment stripping, the search by slices, arrays of calls, paths, the
  classification of tokens, positions of Go identifiers.

`PROJECT.json` lists every component with its state of modelling and every
hazard with the properties that cover it.

## Modules

| Module | What it is |
|---|---|
| `RpcPromise` | abstract: what the remote-call layer promises |
| `NvimRpc` | detailed: callers, pipes, wait queue, responders; `MCNvimRpc`, `NvimRpcProofs` |
| `LineEdits` | pure: `handle_line_event` and the list operations on sequences, and neovim's own edit; `LineEditsProofs` |
| `LineMirror` | buffer, events in flight, copy; `MCLineMirror`, `LineMirrorProofs` |
| `BufferSync` | composition, for one buffer: attachment, line events (`LineEdits`), commands, replies (the promise of `RpcPromise`) and the two locks; `MCBufferSync`, `BufferSyncProofs` |
| `HighlightWorkers` | the threads that highlight one C buffer, counted by where they are; `HighlightWorkersProofs` |
| `BufferRegistry` | `buffer_list` and every thread that looks up, opens, retypes or destroys a buffer; `MCBufferRegistry`, `BufferRegistryProofs` |
| `ProjectTags` | project directories, tags, cached commands, filetypes, the vimscript lists and what neovim shows; `MCProjectTags`, `ProjectTagsProofs` |
| `MpackFormat`, `MpackCodec`, `MpackExpect` | pure: `mpack_encode_fmt` and the formats of `nvim_api/api.c`; encoder and decoder; `mpack_expect` |
| `StripTokens`, `TagSearch`, `AtomicCalls` | pure: comment stripping and tokenising; the search for tags and the commands made of them; the arrays of `nvim_call_atomic` and the passes of highlights |
| `ProjectDirs`, `TypeSwitch`, `GoParser` | pure: the base of a buffer and its tags file; `do_typeswitch`; the Go helper and the exchange with it |
| `Outcomes` | what becomes of a tags file, of the passes over a buffer, of its path and of a token, from `TagSearch`, `AtomicCalls`, `ProjectDirs` and `TypeSwitch`; `OutcomesProofs` |
| `Algorithms` | a specification whose states are inputs of the pure modules and whose invariants compare them with reference definitions; `MCAlgorithms` |

### NvimRpc

A call, its request, its wait node, its response and its responder share the
number `INC_COUNT()` drew, so all per-call state is a function on `Counts`.

| Model | Code |
|---|---|
| `IssueCall(t, b, locked)` | `nvim_api_intern_make_generic_call` draws the number and packs; `make_call` runs the call in place (`b`) or on a detached thread; the caller may have taken a lock before (`locked`) |
| `Unlock` | the caller gives it back, after that call or after others, as `clear_highlight`, `update_other` and `get_initial_lines` do with `lock.total` |
| `WriteRequest`, `AppendNode`, `FutexWait`, `TakePackage` | `write_and_clean` and `await_package`, one action per step another thread can observe |
| `Unpack` | `nvim_api_intern_mpack_expect_wrapper`: an error reply gives the default |
| `LoopNotification`, `LoopHandled`, `LoopResponse` | `handle_nvim_message`: a command only starts a thread, a line event keeps the loop busy until the lock is free (`handle_line_event`), a response starts a responder |
| `PopNode`, `MatchNode`, `RequeueNode`, `Deposit`, `Wakeup` | `handle_nvim_response` |
| `NvimServe`, `NvimNotify` | neovim (external): serves requests in order, answers with data or an error, volunteers notifications |

One lock stands for `lock.total` of all buffers, and `Keepers` are the callers
that may keep it over blocking calls; without any (`rpc_safe`) the safety
properties are those of the protocol alone, which the proofs have for any
`Keepers`. The nap of a responder that finds the queue empty changes nothing and is a
stutter. P99's FIFO (its submodule is not part of the tree) is taken to be
atomic, and `p99_futex_wakeup(fut, 1, MAX)` to insist on waking at least one
waiter, which is how the code relies on it.

### LineEdits and LineMirror

A list is the sequence of its data, a node its position. `LlAt`,
`LlInsertAfter`, `LlInsertBefore` and `LlDeleteRange` translate the list
operations, `MultiOp` the loop of `line_event_multi_op`, `HandleLineEvent` the
whole handler. An operation on a node that does not exist yields `Broken`, which
no property allows. `Splice` is neovim's own edit. In `LineMirror` the buffer is
edited, events queue up, and the event loop applies them one by one; a history
field of each event records the text neovim had after the edit.

### BufferSync

One buffer that `new_buffer` has just registered, of a filetype without a
parser.

| Model | Code |
|---|---|
| `Edit`, `Command`, `Serve` | neovim (external): edits, sends a line event if attached; sends a command; answers a request |
| `Attached`, `LockForLines`, `StoreLines` | `neovim_init`: `nvim_buf_attach`, `get_initial_lines` with its remote call under `lock.total` |
| `LockForUpdate`, `UpdateDone` | `update_other`, `update_from_cache`, `clear_highlight`: remote calls under `lock.total`; one call stands for theirs |
| `LockForCommand`, `CurrentBuf`, `EventHalt` | `event_autocmd` under `autocmd_mutex`; `event_stop` and `event_halt` |
| `Request`, `ReadReply` | a blocking remote call: `NvimRpc` is shown to implement it; a reply is worth nothing until the event loop reads it |
| `ReadLines`, `HandleLines`, `ReadCommand` | `handle_nvim_message`, `handle_buffer_update` |

`lock.total` and `autocmd_mutex` are variables that name their owner. `Populated`
is how `get_initial_lines` adds its lines to a list that is not empty. `early`
and the field `before` of events are history.

### HighlightWorkers

Every line event of a C buffer starts a thread, the first of them a delayed one
besides, commands add more. They all go through `libclang_highlight` and are
interchangeable there, so `at[k][p]` counts the threads of kind `k` (a `"waiter"`
is counted in `hl_waiters`, any `"other"` is not) at point `p`.

| Model | Code |
|---|---|
| `LineEvent`, `UpdateCommand` | `handle_buffer_update` applies the lines and starts a thread; `event_force_update` |
| `CountWaiter`, `Awake`, `Finish` | `wrap_update_highlight`, `delayed_update_highlight` |
| `CheckFailure`, `Enter`, `Reject` | the early returns: `total_failure`, `num_workers` raised, tested, taken back |
| `SetJmp`, `LockLang` | the one static `jbuf`, then `lang_mtx` |
| `GiveUp`, `CopyLines`, `ParseAndSend`, `ParseFails` | `do_libclang_highlight`; a failure of libclang counts and jumps to `jbuf` |
| `CountOut`, `UnlockLang` | the label `done`: out of `num_workers` first, then out of the lock |

The delay of 1.5 seconds is a thread that may wake at any time. The variable
`jbuf` says whose `setjmp` is the latest; `ParseFails` is taken only if it is the
lock owner's, because a jump to another thread's is undefined and nothing can be
said of what follows. The lines are represented by the number of edits they
contain (`version`) and so is the latest snapshot of them (`seen`). `crowded` is
history.

### BufferRegistry

`nodes` and `bufs` are every `buffer_node` and every `Buffer` ever allocated, so
that an index is a pointer; freeing clears `alive`, and whoever follows a pointer
to something freed sets `undefined`, after which nothing happens any more.
`list` is `buffer_list`, `list_lock` and the field `writer` its lock and that of
a node.

| Model | Code |
|---|---|
| `Walk`, `Look`, `find_buffer_node`, `CannotLook` | `find_buffer_node`, which takes the lock of the list and then the read lock of one node after the other; `CannotLook` is somebody who is stuck there, with the list locked |
| `FindNode`, `OpenNode`, `MakeBuffer`, `AppendNode`, `FreeNode` | `new_buffer`: the node is opened and the filetype asked for under its write lock (`make_new_buffer`), then listed, or freed if that failed |
| `Attach`, `GetLines`, `Initialize`, `Update`, `Updated` | `attach_new_buffer`, `neovim_init` |
| `Begin`, `Look`, `FindPrevious`, `Suspend`, `AskFiletype`, `Judge`, `End` | `event_autocmd` and its handlers |
| `ClearHighlight`, `CloseNode`, `ShutDoor`, `FreeBuffer` | `destroy_buffer`, by `destroy_buffer_thread` or after a change of filetype |
| `ReadEvent`, `LoopFind`, `LoopReadNode`, `LoopHandle` | the event loop with line and detach events: it walks the list, reads the node it found once the list is unlocked, waits for `lock.total` and applies the event; a buffer not found ends the program (`aborted`) |
| `HasTotal`, `Locked` | who has `lock.total` of a Buffer over a remote call: `get_initial_lines`, an update without a parser, and `clear_highlight` of such a buffer |
| `WorkerEnter`, `WorkerCountIn`, `WorkerHighlight`, `WorkerCountOut` | a highlight worker as `destroy_buffer` sees it |
| `EnterBuffer`, `SetFiletype`, `UserUpdate`, `EditBuffer`, `UnloadBuffer` | neovim with the autocommands of the plugin |

`find_buffer` takes the read lock of the node a second time when it has unlocked
the list (`buffer.c:252`). For the event loop this is a step of its own
(`LoopReadNode`), since waiting there is another circle than waiting in the list.
For threads the second lock is part of the walk: a thread that has to wait for
it waits there instead, with the list locked, which the code can do as well, a
moment earlier. `closed`, `hurried` and `refused` are history: which
numbers were taken off their nodes, whether a command began before `neovim_init`
had its lines, and whether a listed node was opened again and refused because of
its new filetype.

### ProjectTags

A version stands for the tags of a project at some moment, 0 for none. `tdirs`
is every `Top_Dir` there ever was; `cache` the tags files; `calls` the commands
cached with a buffer; `shown` what neovim shows.

| Model | Code |
|---|---|
| `init_topdir`, `CountIn`, `StoreIn`, `CreateDir` | `init_topdir`, `check_open_topdirs`; `++refs` is a read and a write |
| `init_filetype`, `LockFiletypes`, `FillFiletype` | `init_filetype` with its unlocked test |
| `get_initial_taglist`, `run_ctags_pipe`, `update_taglist` | `ctags.c`: tags file, run of ctags, replacement of the list |
| `update_highlight`, `Search`, `Found`, `NothingFound` | `update.c`: cached commands, the search, the retry with a forced language |
| `clear_highlight`, `Unlist`, `CountOut`, `StoreOut` | `destroy_buffer`, `destroy_topdir` |
| `Take`, `Open` | the handlers of commands, one at a time |
| `EnterBuffer`, `AddBuffer`, `DeleteBuffer`, `WriteFile`, `SetFiletype`, `ForceUpdate` | the vimscript half with its lists of new and seen buffers |
| `Execute` | neovim executes a command for the buffer that is current |

### Outcomes and Algorithms

A state is one input of one algorithm, and steps make inputs longer: bytes of a
message, characters of a text, lines of a tags file, calls of an array, cursors
that refer to each other, identifiers of a Go file. The modules translate the
code function by function; the invariants compare each with a definition written
independently of it: what a stripper of comments should leave (`CMeaning`,
`PythonMeaning`), what a message means (`Means`), which tags are due, and so on.
Where the code is known to deviate, the reference says exactly where.
`Outcomes` holds the three of these properties that are also proved; its modules
have no recursive operators, so that they can be.

## Runs

| Run | Configuration | Shows |
|---|---|---|
| `rpc_safe` | `NvimRpcSafe.cfg` | type and call-track invariants, conservation of wait nodes, own answers, program order of blocking calls |
| `rpc_live` | `NvimRpcLive.cfg` | refinement of `RpcPromise`, with its progress unless responders contend for ever or the event loop and the owner of a lock wait for each other |
| `line_mirror` | `LineMirror.cfg` | the copy follows the buffer |
| `line_blank` | `LineBlank.cfg` | *violation*: an update ignored as useless was not |
| `buffer_sync` | `BufferSync.cfg` | initial lines and events meet; the circle of event loop and lock owner is permanent, and the only way to hang |
| `buffer_stop` | `BufferStop.cfg` | *violation*: `:THLStop` given to a hung program does not stop it |
| `workers` | `Workers.cfg` | counters agree with threads, workers are bounded, the last change is not turned away, all threads end |
| `workers_lost` | `WorkersLost.cfg` | *violation*: the last change is never highlighted |
| `registry` | `Registry.cfg` | the list is sound and which pointers are safe, until there is an excuse |
| `registry_live` | `RegistryLive.cfg` | what ends the program; every thread ends unless the event loop and the owner of the list, of a node or of `lock.total` wait for each other, which is permanent |
| `projects` | `Projects.cfg` | directories are counted rightly, what is used is there, and neovim shows the current buffer's highlights but for five named exceptions |
| `algorithms` | `Algorithms.cfg` | ten properties of the pure modules |

### Bounds

* `rpc_safe`: two callers, three calls, blocking or not. Three calls are the
  fewest with which a responder can hold one foreign node while another foreign
  node is queued and a third thread appends its own. `PipeCap` only limits
  notifications, which carry nothing. `rpc_live` drops to two calls, enough for
  two responders to contend and for the owner of the lock to wait for a response
  behind an event. In `rpc_safe` nobody has the lock, so that no call can hang and a
  deadlock would be an error; in `rpc_live` any caller may (`Keepers <- Two`).
* `line_mirror`: up to four lines, two new strings, two events in flight, two
  different texts besides the blank line. Ranges at the start, in the middle, at
  the end, covering and emptying the buffer all occur, with fewer, as many and
  more strings than lines. The texts are interchangeable, hence the symmetry.
* `buffer_sync`: one line, so that what edits do to the lines is left to
  `line_mirror`; two edits, one before and one after the snapshot or both under
  way; two commands besides `neovim_init`, which compete for `autocmd_mutex`.
* `workers`: the code's limit of 3, four edits and one command. With the delayed
  threads more than four are inside and around the door at once, so threads are
  turned away. The code's ten failures are `FailLimit = 0`, one failure being
  enough to give the buffer up. `workers_lost` has six edits, the fewest with
  which one thread is inside, three are being turned away, another comes and no
  delayed one is left; no failures.
* `registry`: two buffers, two known filetypes of which one has workers, and one
  unknown; three notifications at any time: enough to open a second buffer, unload
  it or change its type, and meet a line event. The constraint `NoExcuse` ends a
  behaviour where `ListSound` and `CommandsSafe` have an excuse, which never goes
  away again. `registry_live` has no constraint: two notifications at any time, with
  changes to unknown filetypes, so that `neovim_init` and a command open buffers at
  once, and nodes are refused.
* `projects`: two buffers in a project or in the home directory, which ctags is
  not to descend into, two filetypes, three commands, two versions of the tags.
  Buffers and filetypes are interchangeable.
* `algorithms`: texts of C of six characters out of comment, string, escape and
  line ends, seven of preprocessor lines (`#if 0`, other `#if`s, `#else`, `#endif`),
  six of Python; formats of seven
  tokens; integers around each boundary of the encoding and lengths around each
  header; four lines of tags for up to three threads; five calls in arrays that
  start with two places; three passes of highlights in any order; paths of six
  characters; up to four cursors referring to each other; three identifiers.
  `INIT_ACALL_SIZE`, `INIT_CMD_SIZE` and `ENCODE_FMT_ARRSIZE` are smaller than
  in the code (and named for its macros) so that arrays grow.

`CHECK_DEADLOCK FALSE` is set where the modelled system may come to rest: for
`rpc_live`, `BufferSync` and `BufferRegistry`, where the program stops, ends itself or
hangs, all being subjects of their properties; for `HighlightWorkers` and `ProjectTags`,
at rest when the bounds are reached and all threads have ended; for `Algorithms`,
when an input is as long as it may be.

### Fairness

Running threads keep running (`WF` on the steps of each thread), neovim keeps
serving requests, and the event loop keeps reading *while it is not kept by a lock*:
the operating system's scheduler and neovim's own loop justify this much. Nobody
has to issue a call, send a notification, edit, or give a command.

That the event loop always comes back to reading is not assumed, for it is not so:
`handle_line_event` waits for `lock.total` on the loop's own thread
(`event_handlers.c:248`), and `find_buffer` waits for the list and for nodes. Their
owners may themselves wait for replies. All three modules in which the event loop
takes part have these locks, and name the circle (`Wedged`) as what the liveness
properties except: `CallsReturnUnlessContended` and `KeepsFairPromise` in `NvimRpc`
(behaviours in which it ever occurs), `NoOtherHang` in `BufferSync`, `ThreadsEnd` in
`BufferRegistry`. What they say is that nothing else holds a thread up, in particular
no lock that is kept over a call while the event loop does not need it.

`NvimRpc` deliberately has no stronger fairness: with two responders at work each
may always pop the other's node, and no fairness of the scheduler excludes it,
hence the other premise of its properties. There, who has the lock gives it back
unless a call keeps him from it (`WF` on `Unlock`). In `HighlightWorkers` libclang
always returns. In `BufferSync` and `BufferRegistry` a free lock that is always tried
again is eventually obtained: weak fairness suffices, because with these bounds every
lock is contended for finitely often.

### What the violations show

* `line_blank`: `handle_line_event` takes one empty string at line 0 for a no-op
  whenever the list has *at most one* line. A blank line put above the only
  line, or the only line being emptied, is ignored, and from then on the copy
  differs from the buffer. `LineMirror` excludes these edits with
  `BlankFirst = FALSE`, `BufferSync` in the guard of `Edit`, to check that
  nothing else goes wrong.
* `buffer_stop`: `get_initial_lines`, `update_other` and `clear_highlight` wait
  for replies under `lock.total`; a line event read meanwhile blocks the event
  loop on the same lock. Nothing breaks the circle (`WedgedForever`). A stop command
  that is given then, as the README recommends, stays in the pipe, since nobody
  reads it.
* `workers_lost`: a thread that comes while one is inside, having copied the
  lines already, and three others are being turned away is turned away on account
  of those three. The delayed thread, which is there to make up for it, is started
  by the first waiter only and may be over by then. `DropsAreCovered` says that
  nothing else loses a change.

### Where the passing properties stop

Several properties name conditions; each is there because without it TLC shows
the code to fail.

* `InSync` excepts an edit between attachment and snapshot (`early`). Such an
  event passes the test of `event_handlers.c:115` ("Update called on
  uninitialized buffer." is about unknown buffers only), edits an empty list, in
  which a deletion finds no node, and the initial lines are then put behind what
  it left.
* `ListSound` and `CommandsSafe` except two kinds of behaviours, from the step on
  that makes them so. *hurried*: a command begins before `neovim_init`, which does not
  take `autocmd_mutex`, has the lines of its buffer; that buffer can then get two
  nodes, and be destroyed by a command while `neovim_init` still uses it. Commands may
  come as soon as the job has started (`Tag-Highlight_Setup.vim:493`). *refused*: a
  buffer the plugin knew is given a filetype that is unknown or skipped; its node,
  still in the list, is freed. `AbortCause`, `WedgedForever` and `ThreadsEnd` have no
  such exceptions.
* `CommandsSafe` is about commands. A late highlight worker, a delayed one above
  all, can use a freed buffer: `UseFreed` is reachable for workers, and for
  commands only through a detach.
* `DirsCounted` and `UseSafe` except `raced`: `refs` is changed without a lock.
* `CurrentShown` holds unless one of five excuses has occurred. *bounced*: every
  command notes the current buffer as the previous one, so a change of buffer
  handled after another command of the same visit is taken for none. *cleared*:
  destroying a buffer clears the highlights of the current one, to which
  `clear_highlight` sends its commands. *overtaken*: commands of two threads
  are executed in another order than they were made, or a clear while others are
  on their way. *unannounced*: `s:BufChanged` skips a
  new buffer once, and `s:DeleteBuf` forgets the current buffer instead of the
  deleted one. *mistaken*: a new filetype is looked up when the buffer has been
  left.

Other deviations the modules record in comments or in their reference
definitions: signed integers of one byte lose their value (`decode.c:319`);
handles of buffers beyond 65535 are misread (`mpack.c:216`); `mpack_expect`
retries with a type in place of a mask, for a boolean without end
(`mpack.c:142`); the code behind the `#else` or `#elif` of an `#if 0` is dropped up to
the `#endif`, though it may be compiled (`strip.c:96-109`); the character after a closing quote or
`*/` is not looked at, and
an open Python string leaves a last word without a length (`strip.c`, `tok.c:36`);
directories of the settings are looked for anywhere in a path, not at its start,
and names with underscores may share a tags file (`buffer.c:486`); directories
not descended into are never shared; a failed run of ctags replaces the tags by
none, and a tags file is not written again (`ctags.c`); a Go identifier in the
first column is placed on the line before (`go_src/main.go:293`), and a helper
that dies amid its answer leaves the reader in its loop (`lang/golang/pipe.c:322`).

## Proofs

| Module | Proves | Inductive invariant |
|---|---|---|
| `NvimRpcProofs` | the invariants of `rpc_safe`, the refinement of `rpc_live` | `TypeOK /\ CallTrack /\ NodesConserved` |
| `LineEditsProofs` | lemmas only: what the handler makes of a list | – |
| `LineMirrorProofs` | `TypeOK`, `InStep` | `TypeOK /\ InStep` |
| `BufferSyncProofs` | `TypeOK`, `InSync`, `WedgedForever` | `IInv`, below |
| `HighlightWorkersProofs` | the invariants of `workers` | `TypeOK /\ Counted /\ GivenUp` |
| `BufferRegistryProofs` | the invariants of `registry`, `AbortCause` and `WedgedForever` of `registry_live` | `TypeInv`, `WriterInv`, `RegistryInv`, `EventsInv`, `FreedInv`, below |
| `ProjectTagsProofs` | the invariants of `projects` | `TypeInv`, `CountInv`, `Alone`, `KeysInv`, `FiletypesInv`, `TagsInv`, `CallsInv`, `ShownInv`, below |
| `OutcomesProofs` | four invariants of `algorithms`: `TagsFound`, `TypesResolved`, `OnePass`, `BaseChosen`; the slices of a search are disjoint and cover the list; the calls of a pass are all stored, in arrays that are never full | – (induction over the input) |

**Remote calls.** `CallTrack` ties the phase of a call to where its request, its
response, its responder and its package are, which is why a responder that
matched a node is the only one to touch it; `NodesConserved` says that a live
node is in one place. `OwnPackage` follows directly. `OwnAnswer` and
`ProgramOrder` are each inductive relative to it. `Implements` maps each step to
a step or a stutter of the promise (`PromiseStep`).

**Line edits.** The central lemmas are `MultiOpIsSplice` and `HandleIsSplice`: on
a copy that equals the buffer, the handler is neovim's edit, for every length of
buffer and event. They are proved position by position from `SpliceFacts`, which
says what each line of an edited buffer is. `InStep` is inductive with the type
invariant because each event carries the text the buffer had after it.

**Attachment.** `InSync` alone is not inductive: that the next event is about the
lines of the copy says nothing of the event after that, nor of which thread
stores what. `IInv` adds

* `LockInv`: a thread owns `lock.total` exactly while it asks for lines or
  variables;
* `RepliesTracked`, `CommandsTracked`: a request or its reply is in one place
  while its caller waits, and a command's thread starts when its only message is
  read;
* `Attachment`: only `neovim_init` attaches and takes lines, and neovim has done
  either exactly when the reply exists;
* `Quiet`: before the attachment, and without early edits before the snapshot,
  there are no events, and without early edits the list is empty until the lines
  are stored;
* `Chain`: the event being handled and those in the queue lead from one text to
  the next, and the last of them to neovim's text.

A step that only appends or reads other messages moves all line events by the
same distance (`MovedBy`), and `ChainMoved` and `InSyncMoved` deal with all of
those at once. An edit appends the new end of the chain; reading takes its front;
handling is `HandleIsSplice`, with `StoredByThen` showing that a free
`lock.total` means that the lines have been stored. `WedgedForever` follows from
`LockInv` and `RepliesTracked`: the owner of `lock.total` has no step but to read
its answer, and the event loop has none at all.

**Highlight workers.** `WorkersBounded` follows from `Counted` at `Enter`: the
count is never less than the workers. For `DropsAreCovered`, `Counted` says that
at most one thread is behind the lock, so a count above the limit with fewer than
`Limit` threads being turned away leaves one that has yet to copy the lines
(`FullHouse`). All rest on `Moved`, what the counts are after a step.

**Buffer registry.** `TypeOK` says that an index never points behind what was
allocated and that a message always finds an idle thread to handle it; that takes
`TypeInv`:

* `WireSound`, `LoopSound`, `ThreadSound`, `KindSound`: which fields of a message,
  of the event loop and of a thread have a value at which point;
* `Capacity`: the threads that are not idle, the messages that will start one and
  the one the event loop has in hand are no more than messages were sent;
* `WorkersCounted`: `num_workers` of a Buffer is the number of workers inside.

All its theorems hold for every instance, whatever commands come and when and
whatever filetypes buffers are given. For `DeadlockStays`, `WriterInv` is enough: a
node has a writer exactly while that thread is making its buffer; and whoever has
a node or `lock.total` and waits for its answer has no step, no more than the
event loop has.

The other theorems rest on the following, most of which holds as long as nothing
is `Excused`, that is, neither `hurried` nor `refused`:

* `OneAtATime`: whoever opens, looks up or retypes a buffer works alone
  (`Working`): `neovim_init` until it has its lines, afterwards the command that
  has `autocmd_mutex`; this is what makes "find, then open, then list" one step to
  other commands;
* `KindInv`: which points the threads of each kind can be at;
* `NodesInv`: a node with a Buffer is open and alone has it, and the Buffer is
  alive and of the node's number (`OwnBuffer`); a listed node that is open
  without a Buffer is being made (`BufferComes`); lines that are missing are being
  fetched (`LinesCome`); a listed node is alive and alone has its number
  (`OwnNumber`);
* `HoldersInv`: a Buffer that others may have found is on no node but a listed one;
* `OpeningInv`, `DestroyInv`: what a thread that opens or destroys a buffer has
  left of its node, step by step. A late `destroy_buffer_thread` finds its Buffer
  on no node, so it takes none down.

`ListSound` follows. `AbortCause` needs none of this: `EventsInv`, which holds with
excuses as well, says that an event, a pending attachment or an attached number is
always `Reported`, that is, has a node in the list, from which nothing is ever taken,
and that a listed node is open with a Buffer or its number has been closed
(`Filled`), whatever else is wrong with the list. For `CommandsSafe`, `FreedInv` says
that a command whose Buffer has been freed was overtaken by a destroyer of that
number: no other command can be past the lock, and a worker frees nothing.

**Project directories.** `refs` is never negative although it is written back
without a lock: `TypeInv` says that a thread that counts its buffer out has read a
count of a living directory, and that is at least one (`DirSound`). It also says
that no two threads are about one buffer (`OnePerBuffer`) and, for every point of a
thread, whether its buffer is open and has its directory (`Placed`).

`CountInv` is what holds until two threads count in or out at once (`raced`): a
thread that stands between looking at a directory and counting is the only one
there, so what it has read is still true, and `refs` is the number of the buffers
that have the directory (`Users`). `CountAt` is the common part of all steps that
count. That a directory is open once needs more: while commands wait for
`neovim_init`, it is alone, and afterwards one command at a time is (`Alone`), so
nobody opens a directory between the search for one and its creation (`KeysInv`).
A directory that is not to be descended into belongs to one file, so an older one
of the same name would count the very buffer that has none (`NewKey`).

`UseSafe` rests on these and on two more: a filetype marked but not filled has a
thread that is filling it, and every open buffer's is filled (`FiletypesInv`); and
tags made with the language forced belong to a thread that is about to make them
again (`TagsInv`); it works alone, so nobody else can search them.

`CurrentShown` speaks of quiet states only; what holds on the way there, until
somebody has an excuse, is `ShownInv`:

* `ShowsInv`: the current buffer, if it has commands, is announced by a waiting
  `BufChanged`, or a thread is about it, or what neovim will show once all
  commands are executed (`WillShow`: the last one of its type) is what it has;
* `ElsewhereInv`: a thread that is about another buffer than the current one, or
  that destroys the current one, can only be there while a `BufChanged` waits, so
  what it sends or clears will be repaired;
* `TypedInv`: a buffer that has not the filetype neovim says is announced by a
  waiting message, or is being closed for that reason.

`CallsInv` closes the gap of a thread that finds nothing and ends without sending:
its buffer has no commands then, since running ctags has dropped them, and where
ctags is disabled there never were any. The proof showed that `cleared` used to
excuse too little: what a destroyed buffer's `clear_highlight` clears is what the
current one was highlighted with, which need not be the filetype it has by now.

**Tags, tokens, passes and paths.** `Outcomes` is about single inputs, not behaviours, so
its theorems speak of every input and have no inductive invariant. The functions
go through a sequence with `FoldLeft`, and no induction theorem of the library can
be used with the provers at hand. What can be used is that `<` on `Nat` is
well-founded: `Induction` derives from it that a set with 0 that has each `k` up to
`n` if it has `k - 1` has all of them. `Folding` shows with it that the function
`FoldLeft` chooses exists; `Unfolding`, that its value for the first `k` elements is
the step on its value for the first `k - 1`. One lemma for each fold (`SearchSteps`,
`JoinSteps`, `SortSteps`, `RemovalSteps`, `SwitchSteps`, `ShownSteps`,
`CollectSteps`, `CompareSteps`, `AddSteps`) then says so
of that function, and all that follows are inductions over how far it has got.

* `AllTagsFound`: a thread returns the tags of its slice (`Searched`); the slices
  cover the list (`SlicesCover`); sorting keeps the tags and orders them by kind
  (`Inserting`, `SortedTags`); in a sorted list equal tags are neighbours, so
  dropping those leaves each once and all of them (`DistinctTags`); what
  `handle_kind` takes is all of its kind (`Handled`). It holds for lines whose names
  and kinds can be compared (`TagInput`) and any number of threads.
* `AllTypesResolved`: while the switch jumps back, `last` moves one reference at a
  time, and after the second it stops (`Switched`, `NotSwitched`); what is decided
  for a cursor does not depend on those before it (`RestOfChain`). That the
  filetype has the group is a comparison of the switch with the letters of `c.vim`
  and `cpp.vim` (`OwnGroups`, `Groups`). It holds for tokens of C or C++ with a
  cursor (`TokenInput`); no operator of C is a function.
* `AllOnePass`: a pass that is not the first begins by clearing (`CallsOfPass`), so
  what is shown after each message is the highlights of one pass, along with the
  first's if that came later (`Executed`, `OneShown`).
* `AllCallsStored`: an array doubles before its last place is used, so that storing a
  call in one with room leaves one with room (`StoringOne`); each call a pass asks
  for is in it, in its order, with its function and its arguments (`CallsStored`).
  It holds for any number of calls and any initial size above 1. That is the half of
  `Delivered` that the three copies of the array's code are about; that the message
  made of the arrays says the same is its other half, which is model-checked.
* `AllBasesChosen`: the candidates are the lines that match (`Collected`), and the
  longest of them is taken (`Longest`, `Chosen`); what is above a directory is found
  in it (`UnderWithin`), so that the two differ only by what `strstr` finds
  elsewhere. In the name of a tags file each character of the base is found at a
  place that depends on those before it (`EscapedAt`); in a name without stray
  underscores two of them that are followed by each other can only be a separator
  (`SameCharacter`), so two plain bases written alike are the same (`SamePath`). It
  holds for any settings file and any path with a separator (`PathInput`).

The inputs that `Algorithms` enumerates are of these kinds: lines and kinds that are
numbers, tokens with a cursor, absolute paths.

The exceptions that the properties name (`hurried`, `refused`, `raced`, `Early`, the
excuses) are part of the theorems; nothing else is assumed.

Every proof rests on the named `ASSUME`s of the modules (bounds are naturals,
sentinels are not values), and on nothing else. `DirsAssumption` says that a directory is not a file, and
`BufsAssumption` that there is a buffer and finitely many.

Model-checked only: every liveness property (`NoOtherHang`, `Drains`, `ThreadsEnd`,
the progress part of `KeepsFairPromise` and `CallsReturnUnlessContended`), and six
properties of `Algorithms`. Liveness under fairness and ENABLED are beyond the prover.
`RoundTrip` and `ReadAsSent` rest on RECURSIVE operators of `MpackCodec`, which the
prover cannot use. The other four would need inductions that nobody has written:
`Faithful` and `Delivered` over `mpack_encode_fmt`, a machine with ten registers,
on formats of any length, `StripsToCode` over the states of two lexers at once,
`GoHighlighted` over the text in the pipe.

## Not modelled

* **Event loop and shutdown.** Signals, the grace flag, the libevent, libev and
  poll variants of the loop, and `exit_cleanup`, which frees everything just
  before the process ends, whatever its threads are at: what follows depends on
  the C library and the kernel. `halted` in `BufferSync` stands for it.
* **Commands.** `ClearBuffer` is one call of `clear_highlight`, which `event_halt` and
  the destruction of a buffer make as well. The tick of `EVENT_BUF_CHANGED_TICK` is read by nobody.
* **Lists.** The links between nodes; `ll_pop`, `ll_dequeue` and most of
  `generic_list.c` are used by no modelled code, or by none at all.
* **Text of highlights.** The restoring of earlier highlight groups
  (`get_restore_cmds`, `get_tags_from_restored_groups`) is string processing of
  neovim's output.
* **libclang.** Compile commands, tokenising and `index.c`, whose only call is
  compiled out. What libclang says of a token is an input of `TypeSwitch`.
* **Go.** Starting the helper, the socket variant, Go's own parser; the threads
  of `highlight_go`, which gives up `lang_mtx` and its count before it sends its
  commands.
* **Vimscript.** Starting the job, `OnExit`, defaults of options, menus.
* **Codec.** Reading more bytes from a descriptor, and memory management.
* **No state of their own.** Printing, files and archives, process utilities, the
  build system, the colour scheme, bundled libraries.
