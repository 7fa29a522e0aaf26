-------------------------- MODULE HighlightWorkers --------------------------
(***************************************************************************)
(* The threads that highlight one C buffer: one per line event, one that   *)
(* is delayed, and those of user commands.  They meet in                   *)
(* libclang_highlight, which lets a few of them in, one after the other,   *)
(* and turns the others away.  (event_handlers.c, lang/clang/clang.c; the  *)
(* entry and exit of highlight_go in lang/golang/golang.c are the same.)   *)
(*                                                                         *)
(* Threads are interchangeable, so the model counts how many are at each   *)
(* point.  The buffer is initialized and is not destroyed meanwhile.       *)
(***************************************************************************)
EXTENDS Integers

CONSTANTS Limit,        \* threads are turned away beyond this count (3)
          FailLimit,    \* failures after which the buffer is given up (10)
          MaxEdits,     \* bound: line events
          MaxCommands,  \* bound: other updates
          MaxFails      \* bound: failures of libclang

ASSUME WorkersAssumption == /\ Limit \in Nat
                            /\ FailLimit \in Nat
                            /\ MaxEdits \in Nat
                            /\ MaxCommands \in Nat
                            /\ MaxFails \in Nat

VARIABLES version,        \* line events applied to bdata->lines
          seen,           \* the version in the latest snapshot of the lines
          commands,       \* updates asked for by commands
          at,             \* how many threads of each kind are at each point
          hl_waiters,     \* bdata->lock.hl_waiters
          num_workers,    \* bdata->lock.num_workers
          lang_mtx,       \* is bdata->lock.lang_mtx locked?
          jbuf,           \* whose setjmp is the latest: the lock owner's
                          \* ("inside"), one of a kind of waiter's, or neither
          num_failures,   \* bdata->num_failures
          total_failure,  \* bdata->total_failure
          crowded         \* history: somebody has been turned away because of
                          \* threads that were themselves being turned away

counters == <<hl_waiters, num_workers>>
failures == <<num_failures, total_failure>>
vars == <<version, seen, commands, at, counters, lang_mtx, jbuf, failures, crowded>>

Kinds == {"waiter",  \* counted in hl_waiters
          "other"}   \* delayed_update_highlight, or an update by a command

Points == {"start", "update", "entering", "rejected", "admitted", "waiting",
           "locked", "parsing", "done", "unlocking", "finish"}

N(p) == at["waiter"][p] + at["other"][p]

(* One thread of a kind goes from one point to another.                    *)
Move(k, from, to) ==
  /\ at[k][from] > 0
  /\ at' = [at EXCEPT ![k][from] = @ - 1, ![k][to] = @ + 1]

-----------------------------------------------------------------------------
(* handle_buffer_update: the lines change, a thread is started.            *)
LineEvent ==
  /\ version < MaxEdits
  /\ version' = version + 1
  /\ at' = [at EXCEPT !["waiter"]["start"] = @ + 1]
  /\ UNCHANGED <<seen, commands, counters, lang_mtx, jbuf, failures, crowded>>

(* A command on the buffer calls update_highlight.  (autocmd_mutex, which  *)
(* only orders commands among themselves, is left out.)                    *)
UpdateCommand ==
  /\ commands < MaxCommands
  /\ commands' = commands + 1
  /\ at' = [at EXCEPT !["other"]["start"] = @ + 1]
  /\ UNCHANGED <<version, seen, counters, lang_mtx, jbuf, failures, crowded>>

(* wrap_update_highlight: the first waiter starts the delayed thread.      *)
CountWaiter ==
  /\ at["waiter"]["start"] > 0
  /\ at' = [at EXCEPT !["waiter"]["start"] = @ - 1,
                      !["waiter"]["update"] = @ + 1,
                      !["other"]["start"] = IF hl_waiters = 0 THEN @ + 1 ELSE @]
  /\ hl_waiters' = hl_waiters + 1
  /\ UNCHANGED <<version, seen, commands, num_workers, lang_mtx, jbuf, failures, crowded>>

(* The delayed thread wakes up; the command gets going.                    *)
Awake ==
  /\ Move("other", "start", "update")
  /\ UNCHANGED <<version, seen, commands, counters, lang_mtx, jbuf, failures, crowded>>

-----------------------------------------------------------------------------
(* libclang_highlight.                                                     *)
CheckFailure(k) ==
  /\ Move(k, "update", IF total_failure THEN "finish" ELSE "entering")
  /\ UNCHANGED <<version, seen, commands, counters, lang_mtx, jbuf, failures, crowded>>

(* Mutants: one worker too many is let in; only one is.                    *)
EnterOneMore(k) ==
  /\ Move(k, "entering", IF num_workers > Limit + 1 THEN "rejected" ELSE "admitted")
  /\ num_workers' = num_workers + 1
  /\ crowded' = (crowded \/ (num_workers > Limit /\ N("rejected") >= Limit))
  /\ UNCHANGED <<version, seen, commands, hl_waiters, lang_mtx, jbuf, failures>>

EnterAlone(k) ==
  /\ Move(k, "entering", IF num_workers > 0 THEN "rejected" ELSE "admitted")
  /\ num_workers' = num_workers + 1
  /\ crowded' = (crowded \/ (num_workers > Limit /\ N("rejected") >= Limit))
  /\ UNCHANGED <<version, seen, commands, hl_waiters, lang_mtx, jbuf, failures>>

(* p99_count_inc yields the count before; who is turned away has counted.  *)
Enter(k) ==
  /\ Move(k, "entering", IF num_workers > Limit THEN "rejected" ELSE "admitted")
  /\ num_workers' = num_workers + 1
  /\ crowded' = (crowded \/ (num_workers > Limit /\ N("rejected") >= Limit))
  /\ UNCHANGED <<version, seen, commands, hl_waiters, lang_mtx, jbuf, failures>>

(* Mutants: the count is not taken back; it is taken back at "done" too.   *)
RejectCounted(k) ==
  /\ Move(k, "rejected", "finish")
  /\ UNCHANGED <<version, seen, commands, counters, lang_mtx, jbuf, failures, crowded>>

RejectTwice(k) ==
  /\ Move(k, "rejected", "finish")
  /\ num_workers' = num_workers - 2
  /\ UNCHANGED <<version, seen, commands, hl_waiters, lang_mtx, jbuf, failures, crowded>>

Reject(k) ==
  /\ Move(k, "rejected", "finish")
  /\ num_workers' = num_workers - 1
  /\ UNCHANGED <<version, seen, commands, hl_waiters, lang_mtx, jbuf, failures, crowded>>

(* There is one jump buffer for all threads, and lang_mtx is taken later.  *)
SetJmp(k) ==
  /\ Move(k, "admitted", "waiting")
  /\ jbuf' = k
  /\ UNCHANGED <<version, seen, commands, counters, lang_mtx, failures, crowded>>

LockLang(k) ==
  /\ ~ lang_mtx
  /\ lang_mtx' = TRUE
  /\ Move(k, "waiting", "locked")
  /\ \/ jbuf = k /\ jbuf' = "inside"
     \/ (jbuf = k => at[k]["waiting"] > 1) /\ UNCHANGED jbuf
  /\ UNCHANGED <<version, seen, commands, counters, failures, crowded>>

(* do_libclang_highlight: give up, or copy the lines under lock.total.     *)
GiveUp(k) ==
  /\ num_failures > FailLimit
  /\ Move(k, "locked", "done")
  /\ total_failure' = TRUE
  /\ UNCHANGED <<version, seen, commands, counters, lang_mtx, jbuf, num_failures, crowded>>

CopyLines(k) ==
  /\ num_failures <= FailLimit
  /\ Move(k, "locked", "parsing")
  /\ seen' = version
  /\ UNCHANGED <<version, commands, counters, lang_mtx, jbuf, failures, crowded>>

ParseAndSend(k) ==
  /\ Move(k, "parsing", "done")
  /\ UNCHANGED <<version, seen, commands, counters, lang_mtx, jbuf, failures, crowded>>

(* handle_libclang_error jumps to jbuf.  A jump to the setjmp of another   *)
(* thread is undefined, nothing is said of what follows it.                *)
ParseFails(k) ==
  /\ num_failures < MaxFails
  /\ jbuf = "inside"
  /\ Move(k, "parsing", "done")
  /\ num_failures' = num_failures + 1
  /\ UNCHANGED <<version, seen, commands, counters, lang_mtx, jbuf, total_failure, crowded>>

CountOut(k) ==
  /\ Move(k, "done", "unlocking")
  /\ num_workers' = num_workers - 1
  /\ UNCHANGED <<version, seen, commands, hl_waiters, lang_mtx, jbuf, failures, crowded>>

(* Mutant: lang_mtx stays locked.                                          *)
UnlockNothing(k) ==
  /\ Move(k, "unlocking", "finish")
  /\ UNCHANGED <<version, seen, commands, counters, lang_mtx, jbuf, failures, crowded>>

UnlockLang(k) ==
  /\ Move(k, "unlocking", "finish")
  /\ lang_mtx' = FALSE
  /\ jbuf' = IF jbuf = "inside" THEN "gone" ELSE jbuf
  /\ UNCHANGED <<version, seen, commands, counters, failures, crowded>>

(* A waiter counts itself out; either thread ends.                         *)
Finish(k) ==
  /\ at[k]["finish"] > 0
  /\ at' = [at EXCEPT ![k]["finish"] = @ - 1]
  /\ hl_waiters' = IF k = "waiter" THEN hl_waiters - 1 ELSE hl_waiters
  /\ UNCHANGED <<version, seen, commands, num_workers, lang_mtx, jbuf, failures, crowded>>

-----------------------------------------------------------------------------
(* The lines are the initial ones and have been highlighted.               *)
Init ==
  /\ version = 0
  /\ seen = 0
  /\ commands = 0
  /\ at = [k \in Kinds |-> [p \in Points |-> 0]]
  /\ hl_waiters = 0
  /\ num_workers = 0
  /\ lang_mtx = FALSE
  /\ jbuf = "gone"
  /\ num_failures = 0
  /\ total_failure = FALSE
  /\ crowded = FALSE

Highlight(k) == \/ CheckFailure(k) \/ Enter(k) \/ Reject(k) \/ SetJmp(k) \/ LockLang(k)
                \/ GiveUp(k) \/ CopyLines(k) \/ ParseAndSend(k) \/ ParseFails(k)
                \/ CountOut(k) \/ UnlockLang(k) \/ Finish(k)

Next == \/ LineEvent \/ UpdateCommand \/ CountWaiter \/ Awake
        \/ \E k \in Kinds : Highlight(k)

Spec == Init /\ [][Next]_vars

(* Threads run and libclang returns; nobody has to edit or give commands.  *)
FairSpec == /\ Spec
            /\ WF_vars(CountWaiter)
            /\ WF_vars(Awake)
            /\ \A k \in Kinds : WF_vars(Highlight(k))

-----------------------------------------------------------------------------
(* Type invariant.                                                         *)
TypeOK ==
  /\ version \in Nat
  /\ seen \in Nat
  /\ commands \in Nat
  /\ at \in [Kinds -> [Points -> Nat]]
  /\ hl_waiters \in Nat
  /\ num_workers \in Nat
  /\ lang_mtx \in BOOLEAN
  /\ jbuf \in Kinds \cup {"inside", "gone"}
  /\ num_failures \in Nat
  /\ total_failure \in BOOLEAN
  /\ crowded \in BOOLEAN

Inside == N("locked") + N("parsing") + N("done")
Workers == N("admitted") + N("waiting") + Inside

(* The counters agree with where the threads are, on every path through    *)
(* libclang_highlight, early returns and longjmp included: destroy_buffer  *)
(* waits for num_workers to become zero, and delayed threads are started   *)
(* when hl_waiters is.                                                     *)
Counted ==
  /\ num_workers = Workers + N("rejected")
  /\ hl_waiters = at["waiter"]["update"] + at["waiter"]["entering"] + at["waiter"]["rejected"]
                  + at["waiter"]["admitted"] + at["waiter"]["waiting"] + at["waiter"]["locked"]
                  + at["waiter"]["parsing"] + at["waiter"]["done"]
                  + at["waiter"]["unlocking"] + at["waiter"]["finish"]
  /\ Inside + N("unlocking") = IF lang_mtx THEN 1 ELSE 0

(* "Only a limited number of threads will be allowed to wait for a chance  *)
(* to update": at most Limit + 1 are between being let in and counting out,*)
(* though the count is raised before it is looked at.                      *)
WorkersBounded == Workers <= Limit + 1

(* Somebody will still copy the lines.                                     *)
Coming == N("start") + N("update") + N("entering") + N("admitted")
          + N("waiting") + N("locked") > 0

(* Threads are turned away, but not the last change with them: whenever    *)
(* the latest lines have not been copied, a thread is on its way that will *)
(* copy them.  The exceptions are a buffer that has been given up, and a   *)
(* thread that is turned away because Limit others, being turned away      *)
(* themselves, have not taken back their count yet.                        *)
DropsAreCovered ==
  ~ crowded /\ num_failures <= FailLimit => seen = version \/ Coming

(* "It's possible to fail to update for the last handful of changes.  This *)
(* waiting thread should hopefully belatedly fix the situation": once all  *)
(* threads have ended, the last change has been copied.                    *)
LastEditSeen ==
  (\A k \in Kinds, p \in Points : at[k][p] = 0) /\ num_failures = 0 => seen = version

(* All threads end: none of them is left waiting for lang_mtx.             *)
Drains == []<> (\A k \in Kinds, p \in Points : at[k][p] = 0)
=============================================================================
