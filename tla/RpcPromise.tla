----------------------------- MODULE RpcPromise -----------------------------
(***************************************************************************)
(* What the remote-call layer of the plugin (nvim_api/common.c together    *)
(* with the response half of event_handlers.c) promises to the rest of the *)
(* program, with no pipe, no wait queue and no responder thread in sight:  *)
(* a call is issued, neovim executes it once and answers, and the call     *)
(* completes; a blocking call hands its own answer to its caller.          *)
(***************************************************************************)
EXTENDS Naturals

CONSTANTS Callers,   \* threads that use the API
          MaxCalls,  \* how many calls a behaviour may issue
          None,      \* nothing yet
          Default    \* what a call returns when neovim reports an error

VARIABLES status,    \* [Counts -> {"unused", "issued", "served", "done"}]
          issuer,    \* the thread that issued the call
          blocking,  \* does the issuer wait for the answer?
          answer,    \* what neovim answered: "ok", "err" or None
          ret        \* what the call returned to its issuer

pvars == <<status, issuer, blocking, answer, ret>>

Counts == 0 .. MaxCalls - 1

Waits(t) == \E c \in Counts : /\ issuer[c] = t
                              /\ blocking[c]
                              /\ status[c] \in {"issued", "served"}

PromiseInit == /\ status = [c \in Counts |-> "unused"]
               /\ issuer = [c \in Counts |-> None]
               /\ blocking = [c \in Counts |-> FALSE]
               /\ answer = [c \in Counts |-> None]
               /\ ret = [c \in Counts |-> None]

Issue(t, b) ==
  /\ ~ Waits(t)
  /\ \E c \in Counts :
       /\ status[c] = "unused"
       /\ status' = [status EXCEPT ![c] = "issued"]
       /\ issuer' = [issuer EXCEPT ![c] = t]
       /\ blocking' = [blocking EXCEPT ![c] = b]
  /\ UNCHANGED <<answer, ret>>

Serve(c) ==
  /\ status[c] = "issued"
  /\ status' = [status EXCEPT ![c] = "served"]
  /\ \E a \in {"ok", "err"} : answer' = [answer EXCEPT ![c] = a]
  /\ UNCHANGED <<issuer, blocking, ret>>

Complete(c) ==
  /\ status[c] = "served"
  /\ status' = [status EXCEPT ![c] = "done"]
  /\ ret' = IF blocking[c]
            THEN [ret EXCEPT ![c] = IF answer[c] = "ok" THEN c ELSE Default]
            ELSE ret
  /\ UNCHANGED <<issuer, blocking, answer>>

PromiseNext == \/ \E t \in Callers, b \in BOOLEAN : Issue(t, b)
               \/ \E c \in Counts : Serve(c) \/ Complete(c)

PromiseSpec == PromiseInit /\ [][PromiseNext]_pvars

(* The promise with progress: an issued call is served and completes.      *)
Progress == \A c \in Counts : WF_pvars(Serve(c)) /\ WF_pvars(Complete(c))
=============================================================================
