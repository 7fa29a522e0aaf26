----------------------- MODULE HighlightWorkersProofs -----------------------
(* Proofs about HighlightWorkers, for any limit and any number of threads. *)
EXTENDS HighlightWorkers, TLAPS

Types == [Kinds -> [Points -> Nat]]
W(p) == at["waiter"][p]

(* Threads can be counted.                                                 *)
LEMMA Counts ==
  ASSUME at \in Types
  PROVE  /\ \A k \in Kinds, p \in Points : at[k][p] \in Nat
         /\ \A p \in Points : N(p) \in Nat /\ W(p) \in Nat /\ W(p) <= N(p)
  BY DEF Types, N, W, Kinds

(* What the counts are after one thread of kind k has gone from f to t.    *)
Passed(k, f, t) ==
  /\ at' \in Types
  /\ \A p \in Points : N(p)' \in Nat
  /\ N(f) > 0
  /\ N(f)' = N(f) - 1
  /\ N(t)' = N(t) + 1
  /\ \A p \in Points \ {f, t} : N(p)' = N(p)
  /\ k = "waiter" => /\ W(f)' = W(f) - 1
                     /\ W(t)' = W(t) + 1
                     /\ \A p \in Points \ {f, t} : W(p)' = W(p)
  /\ k = "other" => \A p \in Points : W(p)' = W(p)

LEMMA Moved ==
  ASSUME at \in Types,
         NEW k \in Kinds, NEW f \in Points, NEW t \in Points, f # t, Move(k, f, t)
  PROVE  Passed(k, f, t)
<1>1. \A q \in Kinds, p \in Points : at[q][p] \in Nat
  BY DEF Types
<1>2. DEFINE new == [at[k] EXCEPT ![f] = @ - 1, ![t] = @ + 1]
<1>3. at' = [at EXCEPT ![k] = new] /\ at[k][f] > 0
  BY DEF Move, Types
<1>4. new \in [Points -> Nat]
  <2>1. at[k] \in [Points -> Nat] /\ at[k][f] - 1 \in Nat /\ at[k][t] + 1 \in Nat
    BY <1>1, <1>3 DEF Types
  <2>2. QED
    BY <2>1
<1>5. /\ new[f] = at[k][f] - 1
      /\ new[t] = at[k][t] + 1
      /\ \A p \in Points \ {f, t} : new[p] = at[k][p]
  BY DEF Types
<1>6. /\ at' \in Types
      /\ at'[k] = new
      /\ \A q \in Kinds \ {k} : at'[q] = at[q]
  BY <1>3, <1>4 DEF Types
<1> HIDE DEF new
<1>7. \A p \in Points : N(p)' \in Nat
  BY <1>6 DEF Types, N, Kinds
<1>8. CASE k = "waiter"
  BY <1>1, <1>3, <1>5, <1>6, <1>7, <1>8 DEF Passed, N, W, Kinds
<1>9. CASE k = "other"
  BY <1>1, <1>3, <1>5, <1>6, <1>7, <1>9 DEF Passed, N, W, Kinds
<1>10. QED
  BY <1>8, <1>9 DEF Kinds

Starts(k, t) == at' = [at EXCEPT ![k][t] = @ + 1]
Ends(k, f) == at[k][f] > 0 /\ at' = [at EXCEPT ![k][f] = @ - 1]

(* What they are after one has been started, or has ended.                 *)
LEMMA Started ==
  ASSUME at \in Types, NEW k \in Kinds, NEW t \in Points, Starts(k, t)
  PROVE  /\ at' \in Types
         /\ N(t)' = N(t) + 1
         /\ \A p \in Points \ {t} : N(p)' = N(p) /\ W(p)' = W(p)
<1> DEFINE new == [at[k] EXCEPT ![t] = @ + 1]
<1>1. \A q \in Kinds, p \in Points : at[q][p] \in Nat
  BY DEF Types
<1>2. new \in [Points -> Nat] /\ at' = [at EXCEPT ![k] = new]
  BY <1>1 DEF Types, Starts
<1>3. new[t] = at[k][t] + 1 /\ \A p \in Points \ {t} : new[p] = at[k][p]
  BY DEF Types
<1>4. /\ at' \in Types
      /\ at'[k] = new
      /\ \A q \in Kinds \ {k} : at'[q] = at[q]
  BY <1>2 DEF Types
<1> HIDE DEF new
<1>5. CASE k = "waiter"
  BY <1>1, <1>3, <1>4, <1>5 DEF N, W, Kinds
<1>6. CASE k = "other"
  BY <1>1, <1>3, <1>4, <1>6 DEF N, W, Kinds
<1>7. QED
  BY <1>5, <1>6 DEF Kinds

LEMMA Ended ==
  ASSUME at \in Types, NEW k \in Kinds, NEW f \in Points, Ends(k, f)
  PROVE  /\ at' \in Types
         /\ N(f) > 0
         /\ N(f)' = N(f) - 1
         /\ W(f)' = IF k = "waiter" THEN W(f) - 1 ELSE W(f)
         /\ \A p \in Points \ {f} : N(p)' = N(p) /\ W(p)' = W(p)
         /\ k = "waiter" => W(f) > 0
<1> DEFINE new == [at[k] EXCEPT ![f] = @ - 1]
<1>1. \A q \in Kinds, p \in Points : at[q][p] \in Nat
  BY DEF Types
<1>2. at[k][f] > 0 /\ at[k][f] - 1 \in Nat
  BY <1>1 DEF Ends
<1>3. new \in [Points -> Nat] /\ at' = [at EXCEPT ![k] = new]
  BY <1>2 DEF Types, Ends
<1>4. new[f] = at[k][f] - 1 /\ \A p \in Points \ {f} : new[p] = at[k][p]
  BY DEF Types
<1>5. /\ at' \in Types
      /\ at'[k] = new
      /\ \A q \in Kinds \ {k} : at'[q] = at[q]
  BY <1>3 DEF Types
<1> HIDE DEF new
<1>6. CASE k = "waiter"
  BY <1>1, <1>2, <1>4, <1>5, <1>6 DEF N, W, Kinds
<1>7. CASE k = "other"
  BY <1>1, <1>2, <1>4, <1>5, <1>7 DEF N, W, Kinds
<1>8. QED
  BY <1>6, <1>7 DEF Kinds

(* The first waiter starts a thread as well.                               *)
LEMMA WaiterCounted ==
  ASSUME at \in Types, CountWaiter
  PROVE  /\ at' \in Types
         /\ W("start") > 0
         /\ N("start") > 0
         /\ N("start")' \in {N("start") - 1, N("start")}
         /\ N("update")' = N("update") + 1
         /\ W("update")' = W("update") + 1
         /\ \A p \in Points \ {"start", "update"} : N(p)' = N(p) /\ W(p)' = W(p)
<1> DEFINE waiter == [at["waiter"] EXCEPT !["start"] = @ - 1, !["update"] = @ + 1]
           other == [at["other"] EXCEPT !["start"] = IF hl_waiters = 0 THEN @ + 1 ELSE @]
<1>1. \A q \in Kinds, p \in Points : at[q][p] \in Nat
  BY DEF Types
<1>2. at["waiter"]["start"] > 0
  BY DEF CountWaiter
<1>3. /\ at["waiter"] \in [Points -> Nat]
      /\ at["other"] \in [Points -> Nat]
      /\ "start" \in Points /\ "update" \in Points
  BY DEF Types, Kinds, Points
<1>4. waiter \in [Points -> Nat]
  <2>1. at["waiter"]["start"] - 1 \in Nat /\ at["waiter"]["update"] + 1 \in Nat
    BY <1>2, <1>3
  <2>2. QED
    BY <1>3, <2>1
<1>5. other \in [Points -> Nat]
  BY <1>3
<1>6. /\ waiter["start"] = at["waiter"]["start"] - 1
      /\ waiter["update"] = at["waiter"]["update"] + 1
      /\ \A p \in Points \ {"start", "update"} : waiter[p] = at["waiter"][p]
      /\ other["start"] \in {at["other"]["start"], at["other"]["start"] + 1}
      /\ \A p \in Points \ {"start"} : other[p] = at["other"][p]
  BY <1>3
<1>7. at' = [at EXCEPT !["waiter"] = waiter, !["other"] = other]
  BY DEF CountWaiter, Types, Kinds
<1>8. at' \in Types /\ at'["waiter"] = waiter /\ at'["other"] = other
  BY <1>4, <1>5, <1>7 DEF Types, Kinds
<1> HIDE DEF waiter, other
<1>9. QED
  BY <1>1, <1>2, <1>3, <1>6, <1>8 DEF N, W, Kinds

-----------------------------------------------------------------------------
(* The inductive invariant: a buffer is given up only after enough         *)
(* failures, besides the types and the counts.                             *)
GivenUp == total_failure => num_failures > FailLimit
IInv == TypeOK /\ Counted /\ GivenUp

(* It holds initially.                                                     *)
LEMMA IInvInit == Init => IInv
<1> SUFFICES ASSUME Init PROVE IInv
  OBVIOUS
<1>1. at \in [Kinds -> [Points -> Nat]]
  BY DEF Init
<1>2. \A k \in Kinds, p \in Points : at[k][p] = 0
  BY DEF Init
<1>3. /\ "waiter" \in Kinds
      /\ \A p \in Points : N(p) = 0
  BY <1>2 DEF N, Kinds
<1>4. Counted
  BY <1>2, <1>3 DEF Counted, Workers, Inside, Points, Init
<1>5. TypeOK
  BY <1>1 DEF TypeOK, Init
<1>6. QED
  BY <1>4, <1>5 DEF IInv, GivenUp, Init

(* The counters in terms of the counts.                                    *)
Waiters == W("update") + W("entering") + W("rejected") + W("admitted") + W("waiting")
           + W("locked") + W("parsing") + W("done") + W("unlocking") + W("finish")

LEMMA CountedWaiters == Counted => hl_waiters = Waiters
BY DEF Counted, Waiters, W

LEMMA StillCounted ==
  ASSUME /\ num_workers' = (Workers + N("rejected"))'
         /\ hl_waiters' = Waiters'
         /\ (Inside + N("unlocking"))' = IF lang_mtx' THEN 1 ELSE 0
  PROVE  Counted'
BY DEF Counted, Waiters, W

(* It is preserved by what a thread does in libclang_highlight.            *)
LEMMA HighlightStep ==
  ASSUME IInv, NEW k \in Kinds, Highlight(k)
  PROVE  IInv'
<1>1. /\ at \in Types
      /\ \A p \in Points : N(p) \in Nat /\ W(p) \in Nat
  BY Counts DEF IInv, TypeOK, Types
<1>2. hl_waiters = Waiters
  BY CountedWaiters DEF IInv
<1>3. CASE CheckFailure(k)
  <2>1. PICK t \in {"finish", "entering"} : Move(k, "update", t)
    BY <1>3 DEF CheckFailure
  <2>2. t \in Points /\ "update" \in Points /\ t # "update"
    BY DEF Points
  <2>3. Passed(k, "update", t)
    BY <1>1, <2>1, <2>2, Moved
  <2>4. Waiters' = Waiters
    BY <1>1, <2>3 DEF Passed, Waiters, Points, Kinds
  <2>5. num_workers' = (Workers + N("rejected"))'
    BY <1>3, <1>1, <2>3 DEF IInv, TypeOK, Counted, Workers, Inside, Passed, Points, CheckFailure, counters
  <2>6. (Inside + N("unlocking"))' = IF lang_mtx' THEN 1 ELSE 0
    BY <1>3, <1>1, <2>3 DEF IInv, TypeOK, Counted, Inside, Passed, Points, CheckFailure
  <2>7. hl_waiters' = hl_waiters
    BY <1>3 DEF CheckFailure, counters
  <2>8. Counted'
    BY <1>2, <2>4, <2>5, <2>6, <2>7, StillCounted
  <2>9. num_workers' \in Nat
    BY <1>1, <2>3, <2>5 DEF Workers, Inside, Passed, Points
  <2>10. TypeOK' /\ GivenUp'
    BY <1>3, <2>3, <2>9 DEF IInv, TypeOK, GivenUp, Types, Passed, Kinds, CheckFailure, counters, failures
  <2>11. QED
    BY <2>8, <2>10 DEF IInv
<1>4. CASE Enter(k)
  <2>1. PICK t \in {"rejected", "admitted"} : Move(k, "entering", t)
    BY <1>4 DEF Enter
  <2>2. t \in Points /\ "entering" \in Points /\ t # "entering"
    BY DEF Points
  <2>3. Passed(k, "entering", t)
    BY <1>1, <2>1, <2>2, Moved
  <2>4. Waiters' = Waiters
    BY <1>1, <2>3 DEF Passed, Waiters, Points, Kinds
  <2>5. num_workers' = (Workers + N("rejected"))'
    BY <1>4, <1>1, <2>3 DEF IInv, TypeOK, Counted, Workers, Inside, Passed, Points, Enter, counters
  <2>6. (Inside + N("unlocking"))' = IF lang_mtx' THEN 1 ELSE 0
    BY <1>4, <1>1, <2>3 DEF IInv, TypeOK, Counted, Inside, Passed, Points, Enter
  <2>7. hl_waiters' = hl_waiters
    BY <1>4 DEF Enter, counters
  <2>8. Counted'
    BY <1>2, <2>4, <2>5, <2>6, <2>7, StillCounted
  <2>9. num_workers' \in Nat
    BY <1>1, <2>3, <2>5 DEF Workers, Inside, Passed, Points
  <2>10. TypeOK' /\ GivenUp'
    BY <1>4, <2>3, <2>9 DEF IInv, TypeOK, GivenUp, Types, Passed, Kinds, Enter, counters, failures
  <2>11. QED
    BY <2>8, <2>10 DEF IInv
<1>5. CASE Reject(k)
  <2>1. Move(k, "rejected", "finish")
    BY <1>5 DEF Reject
  <2>2. "finish" \in Points /\ "rejected" \in Points /\ "finish" # "rejected"
    BY DEF Points
  <2>3. Passed(k, "rejected", "finish")
    BY <1>1, <2>1, <2>2, Moved
  <2>4. Waiters' = Waiters
    BY <1>1, <2>3 DEF Passed, Waiters, Points, Kinds
  <2>5. num_workers' = (Workers + N("rejected"))'
    BY <1>5, <1>1, <2>3 DEF IInv, TypeOK, Counted, Workers, Inside, Passed, Points, Reject, counters
  <2>6. (Inside + N("unlocking"))' = IF lang_mtx' THEN 1 ELSE 0
    BY <1>5, <1>1, <2>3 DEF IInv, TypeOK, Counted, Inside, Passed, Points, Reject
  <2>7. hl_waiters' = hl_waiters
    BY <1>5 DEF Reject, counters
  <2>8. Counted'
    BY <1>2, <2>4, <2>5, <2>6, <2>7, StillCounted
  <2>9. num_workers' \in Nat
    BY <1>1, <2>3, <2>5 DEF Workers, Inside, Passed, Points
  <2>10. TypeOK' /\ GivenUp'
    BY <1>5, <2>3, <2>9 DEF IInv, TypeOK, GivenUp, Types, Passed, Kinds, Reject, counters, failures
  <2>11. QED
    BY <2>8, <2>10 DEF IInv
<1>6. CASE SetJmp(k)
  <2>1. Move(k, "admitted", "waiting")
    BY <1>6 DEF SetJmp
  <2>2. "waiting" \in Points /\ "admitted" \in Points /\ "waiting" # "admitted"
    BY DEF Points
  <2>3. Passed(k, "admitted", "waiting")
    BY <1>1, <2>1, <2>2, Moved
  <2>4. Waiters' = Waiters
    BY <1>1, <2>3 DEF Passed, Waiters, Points, Kinds
  <2>5. num_workers' = (Workers + N("rejected"))'
    BY <1>6, <1>1, <2>3 DEF IInv, TypeOK, Counted, Workers, Inside, Passed, Points, SetJmp, counters
  <2>6. (Inside + N("unlocking"))' = IF lang_mtx' THEN 1 ELSE 0
    BY <1>6, <1>1, <2>3 DEF IInv, TypeOK, Counted, Inside, Passed, Points, SetJmp
  <2>7. hl_waiters' = hl_waiters
    BY <1>6 DEF SetJmp, counters
  <2>8. Counted'
    BY <1>2, <2>4, <2>5, <2>6, <2>7, StillCounted
  <2>9. num_workers' \in Nat
    BY <1>1, <2>3, <2>5 DEF Workers, Inside, Passed, Points
  <2>10. TypeOK' /\ GivenUp'
    BY <1>6, <2>3, <2>9 DEF IInv, TypeOK, GivenUp, Types, Passed, Kinds, SetJmp, counters, failures
  <2>11. QED
    BY <2>8, <2>10 DEF IInv
<1>7. CASE LockLang(k)
  <2>1. Move(k, "waiting", "locked")
    BY <1>7 DEF LockLang
  <2>2. "locked" \in Points /\ "waiting" \in Points /\ "locked" # "waiting"
    BY DEF Points
  <2>3. Passed(k, "waiting", "locked")
    BY <1>1, <2>1, <2>2, Moved
  <2>4. Waiters' = Waiters
    BY <1>1, <2>3 DEF Passed, Waiters, Points, Kinds
  <2>5. num_workers' = (Workers + N("rejected"))'
    BY <1>7, <1>1, <2>3 DEF IInv, TypeOK, Counted, Workers, Inside, Passed, Points, LockLang, counters
  <2>6. (Inside + N("unlocking"))' = IF lang_mtx' THEN 1 ELSE 0
    <3>1. ~ lang_mtx /\ lang_mtx'
      BY <1>7 DEF LockLang
    <3>2. QED
      BY <1>1, <2>3, <3>1 DEF IInv, Counted, Inside, Passed, Points
  <2>7. hl_waiters' = hl_waiters
    BY <1>7 DEF LockLang, counters
  <2>8. Counted'
    BY <1>2, <2>4, <2>5, <2>6, <2>7, StillCounted
  <2>9. num_workers' \in Nat
    BY <1>1, <2>3, <2>5 DEF Workers, Inside, Passed, Points
  <2>10. TypeOK' /\ GivenUp'
    BY <1>7, <2>3, <2>9 DEF IInv, TypeOK, GivenUp, Types, Passed, Kinds, LockLang, counters, failures
  <2>11. QED
    BY <2>8, <2>10 DEF IInv
<1>8. CASE GiveUp(k)
  <2>1. Move(k, "locked", "done")
    BY <1>8 DEF GiveUp
  <2>2. "done" \in Points /\ "locked" \in Points /\ "done" # "locked"
    BY DEF Points
  <2>3. Passed(k, "locked", "done")
    BY <1>1, <2>1, <2>2, Moved
  <2>4. Waiters' = Waiters
    BY <1>1, <2>3 DEF Passed, Waiters, Points, Kinds
  <2>5. num_workers' = (Workers + N("rejected"))'
    BY <1>8, <1>1, <2>3 DEF IInv, TypeOK, Counted, Workers, Inside, Passed, Points, GiveUp, counters
  <2>6. (Inside + N("unlocking"))' = IF lang_mtx' THEN 1 ELSE 0
    BY <1>8, <1>1, <2>3 DEF IInv, TypeOK, Counted, Inside, Passed, Points, GiveUp
  <2>7. hl_waiters' = hl_waiters
    BY <1>8 DEF GiveUp, counters
  <2>8. Counted'
    BY <1>2, <2>4, <2>5, <2>6, <2>7, StillCounted
  <2>9. num_workers' \in Nat
    BY <1>1, <2>3, <2>5 DEF Workers, Inside, Passed, Points
  <2>10. TypeOK' /\ GivenUp'
    BY <1>8, <2>3, <2>9 DEF IInv, TypeOK, GivenUp, Types, Passed, Kinds, GiveUp, counters, failures
  <2>11. QED
    BY <2>8, <2>10 DEF IInv
<1>9. CASE CopyLines(k)
  <2>1. Move(k, "locked", "parsing")
    BY <1>9 DEF CopyLines
  <2>2. "parsing" \in Points /\ "locked" \in Points /\ "parsing" # "locked"
    BY DEF Points
  <2>3. Passed(k, "locked", "parsing")
    BY <1>1, <2>1, <2>2, Moved
  <2>4. Waiters' = Waiters
    BY <1>1, <2>3 DEF Passed, Waiters, Points, Kinds
  <2>5. num_workers' = (Workers + N("rejected"))'
    BY <1>9, <1>1, <2>3 DEF IInv, TypeOK, Counted, Workers, Inside, Passed, Points, CopyLines, counters
  <2>6. (Inside + N("unlocking"))' = IF lang_mtx' THEN 1 ELSE 0
    BY <1>9, <1>1, <2>3 DEF IInv, TypeOK, Counted, Inside, Passed, Points, CopyLines
  <2>7. hl_waiters' = hl_waiters
    BY <1>9 DEF CopyLines, counters
  <2>8. Counted'
    BY <1>2, <2>4, <2>5, <2>6, <2>7, StillCounted
  <2>9. num_workers' \in Nat
    BY <1>1, <2>3, <2>5 DEF Workers, Inside, Passed, Points
  <2>10. TypeOK' /\ GivenUp'
    BY <1>9, <2>3, <2>9 DEF IInv, TypeOK, GivenUp, Types, Passed, Kinds, CopyLines, counters, failures
  <2>11. QED
    BY <2>8, <2>10 DEF IInv
<1>10. CASE ParseAndSend(k)
  <2>1. Move(k, "parsing", "done")
    BY <1>10 DEF ParseAndSend
  <2>2. "done" \in Points /\ "parsing" \in Points /\ "done" # "parsing"
    BY DEF Points
  <2>3. Passed(k, "parsing", "done")
    BY <1>1, <2>1, <2>2, Moved
  <2>4. Waiters' = Waiters
    BY <1>1, <2>3 DEF Passed, Waiters, Points, Kinds
  <2>5. num_workers' = (Workers + N("rejected"))'
    BY <1>10, <1>1, <2>3 DEF IInv, TypeOK, Counted, Workers, Inside, Passed, Points, ParseAndSend, counters
  <2>6. (Inside + N("unlocking"))' = IF lang_mtx' THEN 1 ELSE 0
    BY <1>10, <1>1, <2>3 DEF IInv, TypeOK, Counted, Inside, Passed, Points, ParseAndSend
  <2>7. hl_waiters' = hl_waiters
    BY <1>10 DEF ParseAndSend, counters
  <2>8. Counted'
    BY <1>2, <2>4, <2>5, <2>6, <2>7, StillCounted
  <2>9. num_workers' \in Nat
    BY <1>1, <2>3, <2>5 DEF Workers, Inside, Passed, Points
  <2>10. TypeOK' /\ GivenUp'
    BY <1>10, <2>3, <2>9 DEF IInv, TypeOK, GivenUp, Types, Passed, Kinds, ParseAndSend, counters, failures
  <2>11. QED
    BY <2>8, <2>10 DEF IInv
<1>11. CASE ParseFails(k)
  <2>1. Move(k, "parsing", "done")
    BY <1>11 DEF ParseFails
  <2>2. "done" \in Points /\ "parsing" \in Points /\ "done" # "parsing"
    BY DEF Points
  <2>3. Passed(k, "parsing", "done")
    BY <1>1, <2>1, <2>2, Moved
  <2>4. Waiters' = Waiters
    BY <1>1, <2>3 DEF Passed, Waiters, Points, Kinds
  <2>5. num_workers' = (Workers + N("rejected"))'
    BY <1>11, <1>1, <2>3 DEF IInv, TypeOK, Counted, Workers, Inside, Passed, Points, ParseFails, counters
  <2>6. (Inside + N("unlocking"))' = IF lang_mtx' THEN 1 ELSE 0
    BY <1>11, <1>1, <2>3 DEF IInv, TypeOK, Counted, Inside, Passed, Points, ParseFails
  <2>7. hl_waiters' = hl_waiters
    BY <1>11 DEF ParseFails, counters
  <2>8. Counted'
    BY <1>2, <2>4, <2>5, <2>6, <2>7, StillCounted
  <2>9. num_workers' \in Nat
    BY <1>1, <2>3, <2>5 DEF Workers, Inside, Passed, Points
  <2>10. TypeOK' /\ GivenUp'
    BY <1>11, <2>3, <2>9, WorkersAssumption DEF IInv, TypeOK, GivenUp, Types, Passed, Kinds, ParseFails, counters, failures
  <2>11. QED
    BY <2>8, <2>10 DEF IInv
<1>12. CASE CountOut(k)
  <2>1. Move(k, "done", "unlocking")
    BY <1>12 DEF CountOut
  <2>2. "unlocking" \in Points /\ "done" \in Points /\ "unlocking" # "done"
    BY DEF Points
  <2>3. Passed(k, "done", "unlocking")
    BY <1>1, <2>1, <2>2, Moved
  <2>4. Waiters' = Waiters
    BY <1>1, <2>3 DEF Passed, Waiters, Points, Kinds
  <2>5. num_workers' = (Workers + N("rejected"))'
    BY <1>12, <1>1, <2>3 DEF IInv, TypeOK, Counted, Workers, Inside, Passed, Points, CountOut, counters
  <2>6. (Inside + N("unlocking"))' = IF lang_mtx' THEN 1 ELSE 0
    BY <1>12, <1>1, <2>3 DEF IInv, TypeOK, Counted, Inside, Passed, Points, CountOut
  <2>7. hl_waiters' = hl_waiters
    BY <1>12 DEF CountOut, counters
  <2>8. Counted'
    BY <1>2, <2>4, <2>5, <2>6, <2>7, StillCounted
  <2>9. num_workers' \in Nat
    BY <1>1, <2>3, <2>5 DEF Workers, Inside, Passed, Points
  <2>10. TypeOK' /\ GivenUp'
    BY <1>12, <2>3, <2>9 DEF IInv, TypeOK, GivenUp, Types, Passed, Kinds, CountOut, counters, failures
  <2>11. QED
    BY <2>8, <2>10 DEF IInv
<1>13. CASE UnlockLang(k)
  <2>1. Move(k, "unlocking", "finish")
    BY <1>13 DEF UnlockLang
  <2>2. "finish" \in Points /\ "unlocking" \in Points /\ "finish" # "unlocking"
    BY DEF Points
  <2>3. Passed(k, "unlocking", "finish")
    BY <1>1, <2>1, <2>2, Moved
  <2>4. Waiters' = Waiters
    BY <1>1, <2>3 DEF Passed, Waiters, Points, Kinds
  <2>5. num_workers' = (Workers + N("rejected"))'
    BY <1>13, <1>1, <2>3 DEF IInv, TypeOK, Counted, Workers, Inside, Passed, Points, UnlockLang, counters
  <2>6. (Inside + N("unlocking"))' = IF lang_mtx' THEN 1 ELSE 0
    BY <1>13, <1>1, <2>3 DEF IInv, TypeOK, Counted, Inside, Passed, Points, UnlockLang
  <2>7. hl_waiters' = hl_waiters
    BY <1>13 DEF UnlockLang, counters
  <2>8. Counted'
    BY <1>2, <2>4, <2>5, <2>6, <2>7, StillCounted
  <2>9. num_workers' \in Nat
    BY <1>1, <2>3, <2>5 DEF Workers, Inside, Passed, Points
  <2>10. TypeOK' /\ GivenUp'
    BY <1>13, <2>3, <2>9 DEF IInv, TypeOK, GivenUp, Types, Passed, Kinds, UnlockLang, counters, failures
  <2>11. QED
    BY <2>8, <2>10 DEF IInv
<1>14. CASE Finish(k)
  <2>1. Ends(k, "finish")
    BY <1>14 DEF Finish, Ends
  <2>2. "finish" \in Points
    BY DEF Points
  <2>3. /\ at' \in Types
        /\ W("finish")' = IF k = "waiter" THEN W("finish") - 1 ELSE W("finish")
        /\ \A p \in Points \ {"finish"} : N(p)' = N(p) /\ W(p)' = W(p)
        /\ k = "waiter" => W("finish") > 0
    BY <1>1, <2>1, <2>2, Ended
  <2>4. hl_waiters' = Waiters'
    BY <1>14, <1>1, <1>2, <2>3 DEF Waiters, Points, Finish
  <2>5. num_workers' = (Workers + N("rejected"))'
    BY <1>14, <1>1, <2>3 DEF IInv, TypeOK, Counted, Workers, Inside, Points, Finish
  <2>6. (Inside + N("unlocking"))' = IF lang_mtx' THEN 1 ELSE 0
    BY <1>14, <1>1, <2>3 DEF IInv, TypeOK, Counted, Inside, Points, Finish
  <2>7. Counted'
    BY <2>4, <2>5, <2>6, StillCounted
  <2>8. hl_waiters' \in Nat
    BY <1>14, <1>1, <1>2, <2>3 DEF Waiters, Points, Finish
  <2>9. TypeOK' /\ GivenUp'
    BY <1>14, <2>3, <2>8 DEF IInv, TypeOK, GivenUp, Types, Finish, failures
  <2>10. QED
    BY <2>7, <2>9 DEF IInv
<1>15. QED
  BY <1>3, <1>4, <1>5, <1>6, <1>7, <1>8, <1>9, <1>10, <1>11, <1>12, <1>13, <1>14 DEF Highlight

(* It is preserved by every step.                                          *)
LEMMA IInvStep == IInv /\ [Next]_vars => IInv'
<1> SUFFICES ASSUME IInv, [Next]_vars PROVE IInv'
  OBVIOUS
<1>1. /\ at \in Types
      /\ \A p \in Points : N(p) \in Nat /\ W(p) \in Nat
  BY Counts DEF IInv, TypeOK, Types
<1>2. hl_waiters = Waiters
  BY CountedWaiters DEF IInv
<1>3. CASE LineEvent
  <2>1. Starts("waiter", "start") /\ "waiter" \in Kinds /\ "start" \in Points
    BY <1>3 DEF LineEvent, Starts, Kinds, Points
  <2>2. /\ at' \in Types
        /\ \A p \in Points \ {"start"} : N(p)' = N(p) /\ W(p)' = W(p)
    BY <1>1, <2>1, Started
  <2>3. Counted'
    BY <1>1, <1>2, <1>3, <2>2, StillCounted
    DEF IInv, Counted, Workers, Inside, Waiters, Points, LineEvent, counters
  <2>4. TypeOK' /\ GivenUp'
    BY <1>3, <2>2 DEF IInv, TypeOK, GivenUp, Types, LineEvent, counters, failures
  <2>5. QED
    BY <2>3, <2>4 DEF IInv
<1>4. CASE UpdateCommand
  <2>1. Starts("other", "start") /\ "other" \in Kinds /\ "start" \in Points
    BY <1>4 DEF UpdateCommand, Starts, Kinds, Points
  <2>2. /\ at' \in Types
        /\ \A p \in Points \ {"start"} : N(p)' = N(p) /\ W(p)' = W(p)
    BY <1>1, <2>1, Started
  <2>3. Counted'
    BY <1>1, <1>2, <1>4, <2>2, StillCounted
    DEF IInv, Counted, Workers, Inside, Waiters, Points, UpdateCommand, counters
  <2>4. TypeOK' /\ GivenUp'
    BY <1>4, <2>2 DEF IInv, TypeOK, GivenUp, Types, UpdateCommand, counters, failures
  <2>5. QED
    BY <2>3, <2>4 DEF IInv
<1>5. CASE CountWaiter
  <2>1. /\ at' \in Types
        /\ W("update")' = W("update") + 1
        /\ \A p \in Points \ {"start", "update"} : N(p)' = N(p) /\ W(p)' = W(p)
    BY <1>1, <1>5, WaiterCounted
  <2>2. Counted'
    <3>1. /\ hl_waiters' = hl_waiters + 1
          /\ num_workers' = num_workers
          /\ lang_mtx' = lang_mtx
      BY <1>5 DEF CountWaiter
    <3>2. QED
      BY <1>1, <1>2, <2>1, <3>1, StillCounted
      DEF IInv, Counted, Workers, Inside, Waiters, Points
  <2>3. /\ hl_waiters' = hl_waiters + 1
        /\ UNCHANGED <<version, seen, commands, num_workers, lang_mtx, jbuf, failures, crowded>>
    BY <1>5 DEF CountWaiter
  <2>4. TypeOK' /\ GivenUp'
    BY <2>1, <2>3 DEF IInv, TypeOK, GivenUp, Types, failures
  <2>5. QED
    BY <2>2, <2>4 DEF IInv
<1>6. CASE Awake
  <2>1. /\ Move("other", "start", "update") /\ "other" \in Kinds
        /\ "start" \in Points /\ "update" \in Points /\ "start" # "update"
    BY <1>6 DEF Awake, Kinds, Points
  <2>2. /\ at' \in Types
        /\ \A p \in Points \ {"start", "update"} : N(p)' = N(p)
        /\ \A p \in Points : W(p)' = W(p)
    BY <1>1, <2>1, Moved DEF Passed
  <2>3. Counted'
    BY <1>1, <1>2, <1>6, <2>2, StillCounted
    DEF IInv, Counted, Workers, Inside, Waiters, Points, Awake, counters
  <2>4. TypeOK' /\ GivenUp'
    BY <1>6, <2>2 DEF IInv, TypeOK, GivenUp, Types, Awake, counters, failures
  <2>5. QED
    BY <2>3, <2>4 DEF IInv
<1>7. CASE \E k \in Kinds : Highlight(k)
  BY <1>7, HighlightStep
<1>8. CASE UNCHANGED vars
  BY <1>8 DEF IInv, TypeOK, Counted, GivenUp, Workers, Inside, N, vars, counters, failures
<1>9. QED
  BY <1>3, <1>4, <1>5, <1>6, <1>7, <1>8 DEF Next

(* Type correctness, and the counters agree with the threads, whatever the *)
(* number of edits, commands and failures.                                 *)
THEOREM Counting == Spec => [](TypeOK /\ Counted)
<1>1. IInv => TypeOK /\ Counted
  BY DEF IInv
<1>2. QED
  BY <1>1, IInvInit, IInvStep, PTL DEF Spec

(* No count of threads, of workers or of waiters drops below zero, for any *)
(* bounds: nobody is counted out who was not counted in.                   *)
THEOREM TypeCorrect == Spec => []TypeOK
<1>1. Spec => [](TypeOK /\ Counted)
  BY Counting
<1>2. QED
  BY <1>1, PTL

-----------------------------------------------------------------------------
(* Where a thread is that is on its way to copying the lines.              *)
Before == {"start", "update", "entering", "admitted", "waiting", "locked"}

(* A thread that moves on short of copying the lines is still to come, and *)
(* so are those that have not moved.                                       *)
LEMMA StillComing ==
  ASSUME at \in Types, NEW k, NEW f \in Points, NEW t \in Points, Passed(k, f, t)
  PROVE  /\ t \in Before => Coming'
         /\ f \notin Before /\ Coming => Coming'
<1>1. \A q \in Points : N(q)' \in Nat /\ N(q) \in Nat
  BY Counts DEF Passed
<1>2. N(t)' > 0
  BY <1>1 DEF Passed
<1>3. ASSUME NEW p \in Before, N(p)' > 0
      PROVE  Coming'
  BY <1>1, <1>3 DEF Coming, Before, Points
<1>4. ASSUME f \notin Before, Coming
      PROVE  Coming'
  <2>1. PICK p \in Before : N(p) > 0
    BY <1>1, <1>4 DEF Coming, Before, Points
  <2>2. N(p)' > 0
    <3>1. CASE p = t
      BY <1>2, <3>1
    <3>2. CASE p # t
      BY <1>4, <2>1, <3>2 DEF Passed, Before, Points
    <3>3. QED
      BY <3>1, <3>2
  <2>3. QED
    BY <1>3, <2>2
<1>5. QED
  BY <1>2, <1>3, <1>4

(* At most one thread is behind the lock: so a full house of workers has   *)
(* somebody in it who has yet to copy the lines.                           *)
LEMMA FullHouse ==
  ASSUME IInv, num_workers > Limit, N("rejected") < Limit
  PROVE  N("admitted") > 0 \/ N("waiting") > 0
<1>1. \A p \in Points : N(p) \in Nat
  BY Counts DEF IInv, TypeOK, Types
<1>2. Inside <= 1
  BY <1>1 DEF IInv, Counted, Inside, Points
<1>3. num_workers = N("admitted") + N("waiting") + Inside + N("rejected")
  BY <1>1 DEF IInv, Counted, Workers, Inside, Points
<1>4. Inside \in Nat
  BY <1>1 DEF Inside, Points
<1>5. QED
  BY <1>1, <1>2, <1>3, <1>4, WorkersAssumption DEF Points

(* The bound on the workers is preserved: Enter lets a thread in only if   *)
(* the count, which is never less than the workers, leaves room.           *)
LEMMA BoundedStep == IInv /\ WorkersBounded /\ [Next]_vars => WorkersBounded'
<1> SUFFICES ASSUME IInv, WorkersBounded, [Next]_vars PROVE WorkersBounded'
  OBVIOUS
<1>1. /\ at \in Types
      /\ \A p \in Points : N(p) \in Nat /\ W(p) \in Nat
  BY Counts DEF IInv, TypeOK, Types
<1>2. Limit \in Nat
  BY WorkersAssumption
<1>3. CASE LineEvent
  <2>1. Starts("waiter", "start") /\ "waiter" \in Kinds /\ "start" \in Points
    BY <1>3 DEF LineEvent, Starts, Kinds, Points
  <2>2. \A p \in Points \ {"start"} : N(p)' = N(p)
    BY <1>1, <2>1, Started
  <2>3. QED
    BY <2>2 DEF WorkersBounded, Workers, Inside, Points
<1>4. CASE UpdateCommand
  <2>1. Starts("other", "start") /\ "other" \in Kinds /\ "start" \in Points
    BY <1>4 DEF UpdateCommand, Starts, Kinds, Points
  <2>2. \A p \in Points \ {"start"} : N(p)' = N(p)
    BY <1>1, <2>1, Started
  <2>3. QED
    BY <2>2 DEF WorkersBounded, Workers, Inside, Points
<1>5. CASE CountWaiter
  <2>1. \A p \in Points \ {"start", "update"} : N(p)' = N(p)
    BY <1>1, <1>5, WaiterCounted
  <2>2. QED
    BY <2>1 DEF WorkersBounded, Workers, Inside, Points
<1>6. CASE Awake
  <2>1. Passed("other", "start", "update")
    <3>1. /\ Move("other", "start", "update") /\ "other" \in Kinds
          /\ "start" \in Points /\ "update" \in Points /\ "start" # "update"
      BY <1>6 DEF Awake, Kinds, Points
    <3>2. QED
      BY <1>1, <3>1, Moved
  <2>2. QED
    BY <2>1 DEF Passed, WorkersBounded, Workers, Inside, Points
<1>7. ASSUME NEW k \in Kinds, Enter(k)
      PROVE  WorkersBounded'
  <2>1. CASE num_workers > Limit
    <3>1. Passed(k, "entering", "rejected")
      BY <1>1, <1>7, <2>1, Moved DEF Enter, Points
    <3>2. QED
      BY <3>1 DEF Passed, WorkersBounded, Workers, Inside, Points
  <2>2. CASE num_workers <= Limit
    <3>1. ~ (num_workers > Limit)
      BY <1>2, <2>2 DEF IInv, TypeOK
    <3>2. Passed(k, "entering", "admitted")
      BY <1>1, <1>7, <3>1, Moved DEF Enter, Points
    <3>3. Workers <= Limit
      BY <1>1, <1>2, <2>2 DEF IInv, TypeOK, Counted, Workers, Inside, Points
    <3>4. Workers' = Workers + 1
      BY <1>1, <3>2 DEF Passed, Workers, Inside, Points
    <3>5. QED
      BY <1>1, <1>2, <3>3, <3>4 DEF WorkersBounded, Workers, Inside, Points
  <2>3. QED
    BY <1>2, <2>1, <2>2 DEF IInv, TypeOK
<1>8. ASSUME NEW k \in Kinds, CheckFailure(k)
      PROVE  WorkersBounded'
  <2>1. PICK t \in {"finish", "entering"} : Move(k, "update", t)
    BY <1>8 DEF CheckFailure
  <2>2. t \in Points /\ "update" \in Points /\ t # "update"
    BY DEF Points
  <2>3. Passed(k, "update", t)
    BY <1>1, <2>1, <2>2, Moved
  <2>4. QED
    BY <1>1, <1>2, <2>3 DEF Passed, WorkersBounded, Workers, Inside, Points
<1>9. ASSUME NEW k \in Kinds, Reject(k)
      PROVE  WorkersBounded'
  <2>1. Move(k, "rejected", "finish")
    BY <1>9 DEF Reject
  <2>2. "finish" \in Points /\ "rejected" \in Points /\ "finish" # "rejected"
    BY DEF Points
  <2>3. Passed(k, "rejected", "finish")
    BY <1>1, <2>1, <2>2, Moved
  <2>4. QED
    BY <1>1, <1>2, <2>3 DEF Passed, WorkersBounded, Workers, Inside, Points
<1>10. ASSUME NEW k \in Kinds, SetJmp(k)
      PROVE  WorkersBounded'
  <2>1. Move(k, "admitted", "waiting")
    BY <1>10 DEF SetJmp
  <2>2. "waiting" \in Points /\ "admitted" \in Points /\ "waiting" # "admitted"
    BY DEF Points
  <2>3. Passed(k, "admitted", "waiting")
    BY <1>1, <2>1, <2>2, Moved
  <2>4. QED
    BY <1>1, <1>2, <2>3 DEF Passed, WorkersBounded, Workers, Inside, Points
<1>11. ASSUME NEW k \in Kinds, LockLang(k)
      PROVE  WorkersBounded'
  <2>1. Move(k, "waiting", "locked")
    BY <1>11 DEF LockLang
  <2>2. "locked" \in Points /\ "waiting" \in Points /\ "locked" # "waiting"
    BY DEF Points
  <2>3. Passed(k, "waiting", "locked")
    BY <1>1, <2>1, <2>2, Moved
  <2>4. QED
    BY <1>1, <1>2, <2>3 DEF Passed, WorkersBounded, Workers, Inside, Points
<1>12. ASSUME NEW k \in Kinds, GiveUp(k)
      PROVE  WorkersBounded'
  <2>1. Move(k, "locked", "done")
    BY <1>12 DEF GiveUp
  <2>2. "done" \in Points /\ "locked" \in Points /\ "done" # "locked"
    BY DEF Points
  <2>3. Passed(k, "locked", "done")
    BY <1>1, <2>1, <2>2, Moved
  <2>4. QED
    BY <1>1, <1>2, <2>3 DEF Passed, WorkersBounded, Workers, Inside, Points
<1>13. ASSUME NEW k \in Kinds, CopyLines(k)
      PROVE  WorkersBounded'
  <2>1. Move(k, "locked", "parsing")
    BY <1>13 DEF CopyLines
  <2>2. "parsing" \in Points /\ "locked" \in Points /\ "parsing" # "locked"
    BY DEF Points
  <2>3. Passed(k, "locked", "parsing")
    BY <1>1, <2>1, <2>2, Moved
  <2>4. QED
    BY <1>1, <1>2, <2>3 DEF Passed, WorkersBounded, Workers, Inside, Points
<1>14. ASSUME NEW k \in Kinds, ParseAndSend(k)
      PROVE  WorkersBounded'
  <2>1. Move(k, "parsing", "done")
    BY <1>14 DEF ParseAndSend
  <2>2. "done" \in Points /\ "parsing" \in Points /\ "done" # "parsing"
    BY DEF Points
  <2>3. Passed(k, "parsing", "done")
    BY <1>1, <2>1, <2>2, Moved
  <2>4. QED
    BY <1>1, <1>2, <2>3 DEF Passed, WorkersBounded, Workers, Inside, Points
<1>15. ASSUME NEW k \in Kinds, ParseFails(k)
      PROVE  WorkersBounded'
  <2>1. Move(k, "parsing", "done")
    BY <1>15 DEF ParseFails
  <2>2. "done" \in Points /\ "parsing" \in Points /\ "done" # "parsing"
    BY DEF Points
  <2>3. Passed(k, "parsing", "done")
    BY <1>1, <2>1, <2>2, Moved
  <2>4. QED
    BY <1>1, <1>2, <2>3 DEF Passed, WorkersBounded, Workers, Inside, Points
<1>16. ASSUME NEW k \in Kinds, CountOut(k)
      PROVE  WorkersBounded'
  <2>1. Move(k, "done", "unlocking")
    BY <1>16 DEF CountOut
  <2>2. "unlocking" \in Points /\ "done" \in Points /\ "unlocking" # "done"
    BY DEF Points
  <2>3. Passed(k, "done", "unlocking")
    BY <1>1, <2>1, <2>2, Moved
  <2>4. QED
    BY <1>1, <1>2, <2>3 DEF Passed, WorkersBounded, Workers, Inside, Points
<1>17. ASSUME NEW k \in Kinds, UnlockLang(k)
      PROVE  WorkersBounded'
  <2>1. Move(k, "unlocking", "finish")
    BY <1>17 DEF UnlockLang
  <2>2. "finish" \in Points /\ "unlocking" \in Points /\ "finish" # "unlocking"
    BY DEF Points
  <2>3. Passed(k, "unlocking", "finish")
    BY <1>1, <2>1, <2>2, Moved
  <2>4. QED
    BY <1>1, <1>2, <2>3 DEF Passed, WorkersBounded, Workers, Inside, Points
<1>18. ASSUME NEW k \in Kinds, Finish(k)
      PROVE  WorkersBounded'
  <2>1. Ends(k, "finish") /\ "finish" \in Points
    BY <1>18 DEF Finish, Ends, Points
  <2>2. \A p \in Points \ {"finish"} : N(p)' = N(p)
    BY <1>1, <2>1, Ended
  <2>3. QED
    BY <2>2 DEF WorkersBounded, Workers, Inside, Points
<1>19. CASE UNCHANGED vars
  BY <1>19 DEF WorkersBounded, Workers, Inside, N, vars
<1>20. QED
  BY <1>3, <1>4, <1>5, <1>6, <1>7, <1>8, <1>9, <1>10, <1>11, <1>12, <1>13, <1>14, <1>15, <1>16, <1>17, <1>18, <1>19 DEF Next, Highlight

(* No more than Limit + 1 threads are ever between being let in and        *)
(* counting out, however many edits there are.                             *)
THEOREM Bounded == Spec => []WorkersBounded
<1>1. Init => WorkersBounded
  <2> SUFFICES ASSUME Init PROVE WorkersBounded
    OBVIOUS
  <2>1. \A p \in Points : N(p) = 0
    BY DEF Init, N, Kinds
  <2>2. QED
    BY <2>1, WorkersAssumption DEF WorkersBounded, Workers, Inside, Points
<1>2. QED
  BY <1>1, BoundedStep, IInvInit, IInvStep, PTL DEF Spec

(* Turning threads away is covered for: a step that takes a thread off the *)
(* way copies the lines, or leaves somebody on the way.                    *)
LEMMA CoveredStep == IInv /\ DropsAreCovered /\ [Next]_vars => DropsAreCovered'
<1> SUFFICES ASSUME IInv, DropsAreCovered, [Next]_vars,
                    ~ crowded', num_failures' <= FailLimit
             PROVE  seen' = version' \/ Coming'
  BY DEF DropsAreCovered
<1>1. /\ at \in Types
      /\ \A p \in Points : N(p) \in Nat
  BY Counts DEF IInv, TypeOK, Types
<1>2. FailLimit \in Nat /\ num_failures \in Nat
  BY WorkersAssumption DEF IInv, TypeOK
<1>3. ASSUME at' \in Types, NEW p \in Before, N(p)' > 0
      PROVE  Coming'
  <2>1. \A q \in Points : N(q)' \in Nat
    BY <1>3 DEF Types, N, Kinds
  <2>2. QED
    BY <1>3, <2>1 DEF Coming, Before, Points
<1>4. CASE LineEvent
  <2>1. Starts("waiter", "start") /\ "waiter" \in Kinds /\ "start" \in Points
    BY <1>4 DEF LineEvent, Starts, Kinds, Points
  <2>2. at' \in Types /\ N("start")' = N("start") + 1
    BY <1>1, <2>1, Started
  <2>3. QED
    BY <1>1, <1>3, <2>1, <2>2 DEF Before
<1>5. CASE UpdateCommand
  <2>1. Starts("other", "start") /\ "other" \in Kinds /\ "start" \in Points
    BY <1>5 DEF UpdateCommand, Starts, Kinds, Points
  <2>2. at' \in Types /\ N("start")' = N("start") + 1
    BY <1>1, <2>1, Started
  <2>3. QED
    BY <1>1, <1>3, <2>1, <2>2 DEF Before
<1>6. CASE CountWaiter
  <2>1. at' \in Types /\ N("update")' = N("update") + 1
    BY <1>1, <1>6, WaiterCounted
  <2>2. QED
    BY <1>1, <1>3, <2>1 DEF Before, Points
<1>7. CASE Awake
  <2>1. /\ Move("other", "start", "update") /\ "other" \in Kinds
        /\ "start" \in Points /\ "update" \in Points /\ "start" # "update"
    BY <1>7 DEF Awake, Kinds, Points
  <2>2. Passed("other", "start", "update")
    BY <1>1, <2>1, Moved
  <2>3. QED
    BY <1>1, <2>1, <2>2, StillComing DEF Before
<1>8. ASSUME NEW k \in Kinds, CheckFailure(k)
      PROVE  Coming'
  <2>1. ~ total_failure
    BY <1>2, <1>8 DEF CheckFailure, failures, IInv, GivenUp
  <2>2. Passed(k, "update", "entering")
    BY <1>1, <1>8, <2>1, Moved DEF CheckFailure, Points
  <2>3. QED
    BY <1>1, <2>2, StillComing DEF Before, Points
<1>9. ASSUME NEW k \in Kinds, Enter(k)
      PROVE  Coming'
  <2>1. CASE num_workers > Limit
    <3>1. Passed(k, "entering", "rejected")
      BY <1>1, <1>9, <2>1, Moved DEF Enter, Points
    <3>2. N("rejected") < Limit
      <4>1. ~ (num_workers > Limit /\ N("rejected") >= Limit)
        BY <1>9, Zenon DEF Enter
      <4>2. QED
        BY <1>1, <2>1, <4>1, WorkersAssumption DEF Points
    <3>3. N("admitted") > 0 \/ N("waiting") > 0
      BY <2>1, <3>2, FullHouse
    <3>4. N("admitted")' > 0 \/ N("waiting")' > 0
      BY <3>1, <3>3 DEF Passed, Points
    <3>5. QED
      BY <1>3, <3>1, <3>4 DEF Passed, Before
  <2>2. CASE ~ (num_workers > Limit)
    <3>1. Passed(k, "entering", "admitted")
      BY <1>1, <1>9, <2>2, Moved DEF Enter, Points
    <3>2. QED
      BY <1>1, <3>1, StillComing DEF Before, Points
  <2>3. QED
    BY <2>1, <2>2
<1>10. ASSUME NEW k \in Kinds, SetJmp(k)
       PROVE  Coming'
  <2>1. Passed(k, "admitted", "waiting")
    BY <1>1, <1>10, Moved DEF SetJmp, Points
  <2>2. QED
    BY <1>1, <2>1, StillComing DEF Before, Points
<1>11. ASSUME NEW k \in Kinds, LockLang(k)
       PROVE  Coming'
  <2>1. Move(k, "waiting", "locked")
    BY <1>11 DEF LockLang
  <2>2. Passed(k, "waiting", "locked")
    BY <1>1, <2>1, Moved DEF Points
  <2>3. QED
    BY <1>1, <2>2, StillComing DEF Before, Points
<1>12. ASSUME NEW k \in Kinds, GiveUp(k)
       PROVE  FALSE
  BY <1>2, <1>12 DEF GiveUp
<1>13. ASSUME NEW k \in Kinds, CopyLines(k)
       PROVE  seen' = version'
  BY <1>13 DEF CopyLines
<1>14. ASSUME NEW k \in Kinds, Reject(k)
       PROVE  seen' = version' \/ Coming'
  <2>1. Passed(k, "rejected", "finish")
    BY <1>1, <1>14, Moved DEF Reject, Points
  <2>2. Coming => Coming'
    BY <1>1, <2>1, StillComing DEF Before, Points
  <2>3. seen = version \/ Coming
    BY <1>2, <1>14 DEF Reject, failures, DropsAreCovered
  <2>4. QED
    BY <1>14, <2>2, <2>3 DEF Reject
<1>15. ASSUME NEW k \in Kinds, ParseAndSend(k)
       PROVE  seen' = version' \/ Coming'
  <2>1. Passed(k, "parsing", "done")
    BY <1>1, <1>15, Moved DEF ParseAndSend, Points
  <2>2. Coming => Coming'
    BY <1>1, <2>1, StillComing DEF Before, Points
  <2>3. seen = version \/ Coming
    BY <1>2, <1>15 DEF ParseAndSend, failures, DropsAreCovered
  <2>4. QED
    BY <1>15, <2>2, <2>3 DEF ParseAndSend
<1>16. ASSUME NEW k \in Kinds, ParseFails(k)
       PROVE  seen' = version' \/ Coming'
  <2>1. Passed(k, "parsing", "done")
    BY <1>1, <1>16, Moved DEF ParseFails, Points
  <2>2. Coming => Coming'
    BY <1>1, <2>1, StillComing DEF Before, Points
  <2>3. seen = version \/ Coming
    BY <1>2, <1>16 DEF ParseFails, failures, DropsAreCovered
  <2>4. QED
    BY <1>16, <2>2, <2>3 DEF ParseFails
<1>17. ASSUME NEW k \in Kinds, CountOut(k)
       PROVE  seen' = version' \/ Coming'
  <2>1. Passed(k, "done", "unlocking")
    BY <1>1, <1>17, Moved DEF CountOut, Points
  <2>2. Coming => Coming'
    BY <1>1, <2>1, StillComing DEF Before, Points
  <2>3. seen = version \/ Coming
    BY <1>2, <1>17 DEF CountOut, failures, DropsAreCovered
  <2>4. QED
    BY <1>17, <2>2, <2>3 DEF CountOut
<1>18. ASSUME NEW k \in Kinds, UnlockLang(k)
       PROVE  seen' = version' \/ Coming'
  <2>1. Passed(k, "unlocking", "finish")
    BY <1>1, <1>18, Moved DEF UnlockLang, Points
  <2>2. Coming => Coming'
    BY <1>1, <2>1, StillComing DEF Before, Points
  <2>3. seen = version \/ Coming
    BY <1>2, <1>18 DEF UnlockLang, failures, DropsAreCovered
  <2>4. QED
    BY <1>18, <2>2, <2>3 DEF UnlockLang
<1>19. ASSUME NEW k \in Kinds, Finish(k)
       PROVE  seen' = version' \/ Coming'
  <2>1. Ends(k, "finish") /\ "finish" \in Points
    BY <1>19 DEF Finish, Ends, Points
  <2>2. \A p \in Points \ {"finish"} : N(p)' = N(p)
    BY <1>1, <2>1, Ended
  <2>3. Coming' <=> Coming
    BY <2>2 DEF Coming, Points
  <2>4. QED
    BY <1>19, <2>3 DEF Finish, failures, DropsAreCovered
<1>20. CASE UNCHANGED vars
  BY <1>20 DEF DropsAreCovered, Coming, N, vars, failures
<1>21. QED
  BY <1>4, <1>5, <1>6, <1>7, <1>8, <1>9, <1>10, <1>11, <1>12, <1>13, <1>14, <1>15, <1>16, <1>17, <1>18, <1>19, <1>20 DEF Next, Highlight

(* The last change is not turned away: while the latest lines have not     *)
(* been copied by any thread, one is on its way that will.                 *)
THEOREM Covered == Spec => []DropsAreCovered
<1>1. Init => DropsAreCovered
  BY DEF Init, DropsAreCovered
<1>2. QED
  BY <1>1, CoveredStep, IInvInit, IInvStep, PTL DEF Spec
=============================================================================
