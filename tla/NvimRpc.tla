------------------------------ MODULE NvimRpc -------------------------------
(***************************************************************************)
(* The remote calls of the plugin: any thread sends a request to neovim    *)
(* and sleeps on a wait node it has put on nvim_wait_queue; the event loop *)
(* starts one detached responder thread per response; a responder searches *)
(* the queue by popping nodes and appending again those that are not the   *)
(* one it looks for, deposits the response in the node and wakes the       *)
(* sleeper.  (src/tag-highlight/src/nvim_api/common.c, event_handlers.c)   *)
(*                                                                         *)
(* A call, its request, its wait node, its response and the responder that *)
(* carries the response are all named by the number INC_COUNT() gave it.   *)
(*                                                                         *)
(* Of the rest of the program there is one lock here, such as lock.total   *)
(* of a buffer: callers keep it over blocking calls, and the event loop    *)
(* needs it to handle an event of the buffer.                              *)
(***************************************************************************)
EXTENDS Naturals, Sequences

CONSTANTS Callers,     \* the plugin's threads that use the API
          MaxCalls,    \* bound: calls issued in a behaviour
          PipeCap,     \* bound: neovim only volunteers a notification while
                       \* fewer than this many messages are unread
          AsyncCalls,  \* may a caller issue non-blocking calls?
          Keepers,     \* the callers that may keep the lock over a call
          None,         \* no thread, no package, no result
          Notification, \* a message neovim sends without being asked (an event)
          Default       \* what an API function returns for an error response

Counts == 0 .. MaxCalls - 1

ASSUME RpcAssumption == /\ MaxCalls \in Nat \ {0}
                        /\ PipeCap \in Nat
                        /\ AsyncCalls \in BOOLEAN
                        /\ Keepers \subseteq Callers
                        /\ None \notin Counts \cup Callers
                        /\ None \notin {"ok", "err"}
                        /\ Notification \notin Counts
                        /\ Default \notin Counts \cup {None}

VARIABLES count,     \* the counter behind INC_COUNT()
          issuer,    \* [Counts -> thread that made the call, or None]
          blocking,  \* [Counts -> does the issuer itself run the call?]
          pc,        \* [Counts -> where the thread running the call is]
          toNvim,    \* the plugin's stdout: requests not yet read by neovim
          fromNvim,  \* the plugin's stdin: messages not yet decoded
          answer,    \* [Counts -> what neovim answered]
          handling,  \* is the event loop inside the handler of an event?
          lock,      \* the caller that has the lock, or None
          nvim_wait_queue,  \* the FIFO of wait nodes
          resp,      \* [Counts -> where the responder of that response is]
          held,      \* [Counts -> the node the responder has popped]
          obj,       \* [Counts -> the package deposited in the wait node]
          ret        \* [Counts -> what the call returned to its issuer]

callVars == <<count, issuer, blocking>>
respVars == <<resp, held>>
nvimVars == <<toNvim, fromNvim, answer>>
loopVars == <<handling, lock>>
vars == <<callVars, pc, nvimVars, loopVars, nvim_wait_queue, respVars, obj, ret>>

CallPhases == {"none", "packed", "written", "queued", "waiting", "woken", "returned"}
RespPhases == {"none", "polling", "holding", "matched", "deposited", "gone"}

-----------------------------------------------------------------------------
(* Mutant: blocking calls are handed to a detached thread like the others. *)
InCallNever(t) == FALSE

(* A thread is inside a blocking call it issued.                           *)
InCall(t) == \E c \in Counts : /\ issuer[c] = t
                               /\ blocking[c]
                               /\ pc[c] # "returned"

(* The caller takes a number and packs the request; a non-blocking call is *)
(* then run by a detached thread of its own, so the caller goes on.  It    *)
(* may have taken the lock before.                                         *)
IssueCall(t, b, locked) ==
  /\ count < MaxCalls
  /\ ~ InCall(t)
  /\ b \/ AsyncCalls
  /\ locked => b /\ t \in Keepers /\ lock = None
  /\ lock' = IF locked THEN t ELSE lock
  /\ count' = count + 1
  /\ issuer' = [issuer EXCEPT ![count] = t]
  /\ blocking' = [blocking EXCEPT ![count] = b]
  /\ pc' = [pc EXCEPT ![count] = "packed"]
  /\ UNCHANGED <<nvimVars, handling, nvim_wait_queue, respVars, obj, ret>>

(* ... and gives it back after that call, or after others.                 *)
Unlock(t) ==
  /\ lock = t
  /\ ~ InCall(t)
  /\ lock' = None
  /\ UNCHANGED <<callVars, pc, nvimVars, handling, nvim_wait_queue, respVars, obj, ret>>

(* write_and_clean: the request leaves before the wait node is enqueued.   *)
WriteRequest(c) ==
  /\ pc[c] = "packed"
  /\ pc' = [pc EXCEPT ![c] = "written"]
  /\ toNvim' = Append(toNvim, c)
  /\ UNCHANGED <<callVars, fromNvim, answer, loopVars, nvim_wait_queue, respVars, obj, ret>>

AppendNode(c) ==
  /\ pc[c] = "written"
  /\ pc' = [pc EXCEPT ![c] = "queued"]
  /\ nvim_wait_queue' = Append(nvim_wait_queue, c)
  /\ UNCHANGED <<callVars, nvimVars, loopVars, respVars, obj, ret>>

(* await_package: p99_futex_wait suspends the thread ...                   *)
FutexWait(c) ==
  /\ pc[c] = "queued"
  /\ pc' = [pc EXCEPT ![c] = "waiting"]
  /\ UNCHANGED <<callVars, nvimVars, loopVars, nvim_wait_queue, respVars, obj, ret>>

(* Mutant: the error element of the response is not looked at.             *)
UnpackBlindly(p) == IF p # None THEN p ELSE Default

(* intern_mpack_expect: an error reply yields the default value.           *)
Unpack(p) == IF p # None /\ answer[p] = "ok" THEN p ELSE Default

(* ... and once awake it loads the package and frees the node; a detached  *)
(* thread throws the package away.                                         *)
TakePackage(c) ==
  /\ pc[c] = "woken"
  /\ pc' = [pc EXCEPT ![c] = "returned"]
  /\ ret' = IF blocking[c] THEN [ret EXCEPT ![c] = Unpack(obj[c])] ELSE ret
  /\ UNCHANGED <<callVars, nvimVars, loopVars, nvim_wait_queue, respVars, obj>>

-----------------------------------------------------------------------------
(* Neovim (external): executes requests in the order it reads them.        *)
NvimServe ==
  /\ toNvim # <<>>
  /\ toNvim' = Tail(toNvim)
  /\ \E a \in {"ok", "err"} : answer' = [answer EXCEPT ![Head(toNvim)] = a]
  /\ fromNvim' = Append(fromNvim, Head(toNvim))
  /\ UNCHANGED <<callVars, pc, loopVars, nvim_wait_queue, respVars, obj, ret>>

NvimNotify ==
  /\ Len(fromNvim) < PipeCap
  /\ fromNvim' = Append(fromNvim, Notification)
  /\ UNCHANGED <<callVars, pc, toNvim, answer, loopVars, nvim_wait_queue, respVars, obj, ret>>

-----------------------------------------------------------------------------
(* The event loop decodes one message at a time.  A notification is        *)
(* handled on the loop's own thread, a response by a detached responder.   *)
(* A command has been handled once its thread is started ...               *)
LoopNotification ==
  /\ ~ handling
  /\ fromNvim # <<>> /\ Head(fromNvim) = Notification
  /\ fromNvim' = Tail(fromNvim)
  /\ handling' \in BOOLEAN
  /\ UNCHANGED <<callVars, pc, toNvim, answer, lock, nvim_wait_queue, respVars, obj, ret>>

(* ... but an event waits for the lock.                                    *)
LoopHandled ==
  /\ handling
  /\ lock = None
  /\ handling' = FALSE
  /\ UNCHANGED <<callVars, pc, nvimVars, lock, nvim_wait_queue, respVars, obj, ret>>

LoopResponse ==
  /\ ~ handling
  /\ fromNvim # <<>> /\ Head(fromNvim) # Notification
  /\ fromNvim' = Tail(fromNvim)
  /\ resp' = [resp EXCEPT ![Head(fromNvim)] = "polling"]
  /\ UNCHANGED <<callVars, pc, toNvim, answer, loopVars, nvim_wait_queue, held, obj, ret>>

-----------------------------------------------------------------------------
(* Mutant: the responder gives up when it finds the queue empty.           *)
PopNodeOnce(r) ==
  /\ resp[r] = "polling"
  /\ IF nvim_wait_queue = <<>>
     THEN /\ resp' = [resp EXCEPT ![r] = "gone"]
          /\ UNCHANGED <<nvim_wait_queue, held>>
     ELSE /\ nvim_wait_queue' = Tail(nvim_wait_queue)
          /\ held' = [held EXCEPT ![r] = Head(nvim_wait_queue)]
          /\ resp' = [resp EXCEPT ![r] = "holding"]
  /\ UNCHANGED <<callVars, pc, nvimVars, loopVars, obj, ret>>

(* handle_nvim_response.  An empty queue makes the responder nap and try   *)
(* again, which changes nothing.                                           *)
PopNode(r) ==
  /\ resp[r] = "polling"
  /\ nvim_wait_queue # <<>>
  /\ nvim_wait_queue' = Tail(nvim_wait_queue)
  /\ held' = [held EXCEPT ![r] = Head(nvim_wait_queue)]
  /\ resp' = [resp EXCEPT ![r] = "holding"]
  /\ UNCHANGED <<callVars, pc, nvimVars, loopVars, obj, ret>>

(* Mutant: the count of the node is not compared.                          *)
NodeMatchesAny(r) == held[r] \in Counts

NodeMatches(r) == held[r] = r

MatchNode(r) ==
  /\ resp[r] = "holding"
  /\ NodeMatches(r)
  /\ resp' = [resp EXCEPT ![r] = "matched"]
  /\ UNCHANGED <<callVars, pc, nvimVars, loopVars, nvim_wait_queue, held, obj, ret>>

(* Mutants: a foreign node is dropped; it is cleared before the append.    *)
DropNode(r) ==
  /\ resp[r] = "holding"
  /\ ~ NodeMatches(r)
  /\ held' = [held EXCEPT ![r] = None]
  /\ resp' = [resp EXCEPT ![r] = "polling"]
  /\ UNCHANGED <<callVars, pc, nvimVars, loopVars, nvim_wait_queue, obj, ret>>

RequeueCleared(r) ==
  /\ resp[r] = "holding"
  /\ ~ NodeMatches(r)
  /\ held' = [held EXCEPT ![r] = None]
  /\ nvim_wait_queue' = Append(nvim_wait_queue, held'[r])
  /\ resp' = [resp EXCEPT ![r] = "polling"]
  /\ UNCHANGED <<callVars, pc, nvimVars, loopVars, obj, ret>>

RequeueNode(r) ==
  /\ resp[r] = "holding"
  /\ ~ NodeMatches(r)
  /\ nvim_wait_queue' = Append(nvim_wait_queue, held[r])
  /\ held' = [held EXCEPT ![r] = None]
  /\ resp' = [resp EXCEPT ![r] = "polling"]
  /\ UNCHANGED <<callVars, pc, nvimVars, loopVars, obj, ret>>

(* Mutant: the waiter is woken without a package.                          *)
DepositNothing(r) ==
  /\ resp[r] = "matched"
  /\ resp' = [resp EXCEPT ![r] = "deposited"]
  /\ UNCHANGED <<callVars, pc, nvimVars, loopVars, nvim_wait_queue, held, obj, ret>>

Deposit(r) ==
  /\ resp[r] = "matched"
  /\ obj' = [obj EXCEPT ![held[r]] = r]
  /\ resp' = [resp EXCEPT ![r] = "deposited"]
  /\ UNCHANGED <<callVars, pc, nvimVars, loopVars, nvim_wait_queue, held, ret>>

(* Mutant: a plain futex wake, lost on a caller that does not sleep yet.   *)
WakeupOnce(r) ==
  /\ resp[r] = "deposited"
  /\ pc' = IF pc[held[r]] = "waiting" THEN [pc EXCEPT ![held[r]] = "woken"] ELSE pc
  /\ resp' = [resp EXCEPT ![r] = "gone"]
  /\ held' = [held EXCEPT ![r] = None]
  /\ UNCHANGED <<callVars, nvimVars, loopVars, nvim_wait_queue, obj, ret>>

(* p99_futex_wakeup(fut, 1, MAX) (external) retries until it has woken at  *)
(* least one waiter, so it takes effect once the caller sleeps.            *)
Wakeup(r) ==
  /\ resp[r] = "deposited"
  /\ pc[held[r]] = "waiting"
  /\ pc' = [pc EXCEPT ![held[r]] = "woken"]
  /\ resp' = [resp EXCEPT ![r] = "gone"]
  /\ held' = [held EXCEPT ![r] = None]
  /\ UNCHANGED <<callVars, nvimVars, loopVars, nvim_wait_queue, obj, ret>>

-----------------------------------------------------------------------------
Init ==
  /\ count = 0
  /\ issuer = [c \in Counts |-> None]
  /\ blocking = [c \in Counts |-> FALSE]
  /\ pc = [c \in Counts |-> "none"]
  /\ toNvim = <<>>
  /\ fromNvim = <<>>
  /\ answer = [c \in Counts |-> None]
  /\ handling = FALSE
  /\ lock = None
  /\ nvim_wait_queue = <<>>
  /\ resp = [c \in Counts |-> "none"]
  /\ held = [c \in Counts |-> None]
  /\ obj = [c \in Counts |-> None]
  /\ ret = [c \in Counts |-> None]

CallStep(c) == WriteRequest(c) \/ AppendNode(c) \/ FutexWait(c) \/ TakePackage(c)

RespStep(r) == PopNode(r) \/ MatchNode(r) \/ RequeueNode(r) \/ Deposit(r) \/ Wakeup(r)

LoopStep == LoopNotification \/ LoopHandled \/ LoopResponse

Next == \/ \E t \in Callers, b, locked \in BOOLEAN : IssueCall(t, b, locked)
        \/ \E t \in Callers : Unlock(t)
        \/ \E c \in Counts : CallStep(c) \/ RespStep(c)
        \/ NvimServe
        \/ NvimNotify
        \/ LoopStep

Spec == Init /\ [][Next]_vars

(* Every running thread keeps running and neovim keeps answering; nobody   *)
(* is obliged to issue a call or to send a notification.  Who has the lock *)
(* gives it back unless a call keeps him from it; the event loop may wait. *)
Fairness == /\ \A c \in Counts : WF_vars(CallStep(c)) /\ WF_vars(RespStep(c))
            /\ \A t \in Callers : WF_vars(Unlock(t))
            /\ WF_vars(NvimServe)
            /\ WF_vars(LoopStep)

FairSpec == Spec /\ Fairness

-----------------------------------------------------------------------------
(* Type invariant: the variables keep to their phases and ranges.          *)
TypeOK ==
  /\ count \in 0 .. MaxCalls
  /\ issuer \in [Counts -> Callers \cup {None}]
  /\ blocking \in [Counts -> BOOLEAN]
  /\ pc \in [Counts -> CallPhases]
  /\ toNvim \in Seq(Counts)
  /\ fromNvim \in Seq(Counts \cup {Notification})
  /\ answer \in [Counts -> {"ok", "err", None}]
  /\ handling \in BOOLEAN
  /\ lock \in Callers \cup {None}
  /\ nvim_wait_queue \in Seq(Counts)
  /\ resp \in [Counts -> RespPhases]
  /\ held \in [Counts -> Counts \cup {None}]
  /\ obj \in [Counts -> Counts \cup {None}]
  /\ ret \in [Counts -> Counts \cup {None, Default}]

In(c, s) == \E i \in DOMAIN s : s[i] = c
NoRepeat(s) == \A i, j \in DOMAIN s : s[i] = s[j] /\ s[i] # Notification => i = j

Queued(c) == In(c, nvim_wait_queue)
HeldNode(c) == \E r \in Counts : held[r] = c

(* The node of a call belongs to the layer from the append until wakeup.   *)
NodeLive(c) == pc[c] \in {"queued", "waiting"}

(* However many responders pop and re-append nodes at once, the node of a  *)
(* sleeping call is always in exactly one place, the queue or the hands of *)
(* one responder, and a node whose owner has been woken (and which the     *)
(* owner frees) is in neither: no node is lost, doubled or used after free *)
(* by handle_nvim_response.                                                *)
NodesConserved ==
  /\ \A c \in Counts : NodeLive(c) <=> (Queued(c) \/ HeldNode(c))
  /\ \A c \in Counts : ~ (Queued(c) /\ HeldNode(c))
  /\ NoRepeat(nvim_wait_queue)
  /\ \A r, s \in Counts : held[r] = held[s] /\ held[r] # None => r = s

(* Every call moves through the layer along one path: numbered once, asked *)
(* once, answered once, carried by one responder that ends when and only   *)
(* when it has woken the call; a package is only ever put in its own node. *)
(* This is what makes NodesConserved, OwnAnswer and ProgramOrder inductive.*)
CallTrack ==
  /\ \A c \in Counts : c < count <=> pc[c] # "none"
  /\ \A c \in Counts : issuer[c] # None => c < count
  /\ \A c \in Counts : In(c, toNvim) => /\ pc[c] \notin {"none", "packed"}
                                        /\ answer[c] = None
  /\ \A c \in Counts : answer[c] # None => pc[c] \notin {"none", "packed"}
  /\ \A c \in Counts : In(c, fromNvim) => answer[c] # None /\ resp[c] = "none"
  /\ NoRepeat(toNvim) /\ NoRepeat(fromNvim)
  /\ \A r \in Counts : resp[r] # "none" => answer[r] # None
  /\ \A r \in Counts : resp[r] = "gone" <=> pc[r] \in {"woken", "returned"}
  /\ \A r \in Counts : held[r] # None <=> resp[r] \in {"holding", "matched", "deposited"}
  /\ \A r \in Counts : resp[r] \in {"matched", "deposited"} => held[r] = r
  /\ \A r \in Counts : resp[r] \in {"deposited", "gone"} => obj[r] = r
  /\ \A c \in Counts : obj[c] \in {c, None}

(* await_package never meets the NULL package it would exit on, and what   *)
(* it loads is the response to the very request it wrote, even when        *)
(* responses overtake the append of the wait node.                         *)
OwnPackage == \A c \in Counts : pc[c] \in {"woken", "returned"} => obj[c] = c

(* A blocking call returns what neovim answered to it: the data, or the    *)
(* default of the API function if neovim reported an error.                *)
OwnAnswer ==
  \A c \in Counts :
    pc[c] = "returned" /\ blocking[c] =>
      ret[c] = IF answer[c] = "ok" THEN c ELSE Default

(* Neovim executes a blocking call before anything the same thread asks    *)
(* for later, whatever the other threads interleave.  (Nothing of the kind *)
(* holds after a non-blocking call.)                                       *)
ProgramOrder ==
  \A c, d \in Counts :
    /\ c < d
    /\ blocking[c]
    /\ issuer[c] # None
    /\ issuer[c] = issuer[d]
    => answer[c] # None

(* Two or more responders are searching the queue at the same time.        *)
Searching(r) == resp[r] \in {"polling", "holding"}
Contention == \E r, s \in Counts : r # s /\ Searching(r) /\ Searching(s)

(* The event loop waits for the lock, and who has it waits for a response  *)
(* that only the event loop can read.                                      *)
Wedged == /\ handling
          /\ \E c \in Counts : /\ issuer[c] = lock
                               /\ blocking[c]
                               /\ pc[c] # "none"
                               /\ resp[c] = "none"

(* A call that has been issued completes: unless the event loop and a      *)
(* caller wait for each other in that way, or responders contend for the   *)
(* queue for ever, popping and re-appending each other's node in step,     *)
(* which no fairness of the scheduler rules out.                           *)
CallsReturnUnlessContended ==
  []~ Wedged /\ (<>[] ~ Contention) =>
    \A c \in Counts : (pc[c] # "none") ~> (pc[c] = "returned")

(* What RpcPromise knows of a call: its status, by where the call is.      *)
CallStatus ==
  [c \in Counts |-> IF pc[c] = "none" THEN "unused"
                    ELSE IF pc[c] = "returned" THEN "done"
                    ELSE IF answer[c] = None THEN "issued"
                    ELSE "served"]

Promise == INSTANCE RpcPromise WITH status <- CallStatus

(* The layer implements RpcPromise: to the rest of the program the pipes,  *)
(* the wait queue and the responders are invisible.                        *)
KeepsPromise == Promise!PromiseSpec

(* It implements RpcPromise with its progress, unless either happens:      *)
(* other calls, events, and a lock that is kept over calls while the event *)
(* loop does not need it, hold no call up.                                 *)
KeepsFairPromise == []~ Wedged /\ (<>[] ~ Contention) => Promise!Progress
=============================================================================
