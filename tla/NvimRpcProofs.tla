--------------------------- MODULE NvimRpcProofs ----------------------------
(* Machine-checked theorems about NvimRpc, for any number of callers and   *)
(* calls and any pipe bound.                                               *)
EXTENDS NvimRpc, SequenceTheorems, TLAPS

USE RpcAssumption

(* A FIFO after an append holds the old elements and the new one, and has  *)
(* no repetition if the new one was not in it.                             *)
LEMMA AppendFacts ==
  ASSUME NEW S, NEW s \in Seq(S), NEW e \in S
  PROVE  /\ \A c : In(c, Append(s, e)) <=> In(c, s) \/ c = e
         /\ NoRepeat(s) /\ (e = Notification \/ ~ In(e, s)) => NoRepeat(Append(s, e))
<1>1. /\ Append(s, e) \in Seq(S)
      /\ Len(s) \in Nat
      /\ DOMAIN s = 1 .. Len(s)
      /\ DOMAIN Append(s, e) = 1 .. Len(s) + 1
      /\ \A i \in 1 .. Len(s) : Append(s, e)[i] = s[i]
      /\ Append(s, e)[Len(s) + 1] = e
  OBVIOUS
<1>2. \A c : In(c, Append(s, e)) <=> In(c, s) \/ c = e
  <2>1. ASSUME NEW c, In(c, Append(s, e)) PROVE In(c, s) \/ c = e
    BY <1>1, <2>1 DEF In
  <2>2. ASSUME NEW c, In(c, s) \/ c = e PROVE In(c, Append(s, e))
    BY <1>1, <2>2 DEF In
  <2>3. QED
    BY <2>1, <2>2
<1>3. ASSUME NoRepeat(s), e = Notification \/ ~ In(e, s)
      PROVE  NoRepeat(Append(s, e))
  BY <1>1, <1>3 DEF NoRepeat, In
<1>4. QED
  BY <1>2, <1>3

(* Popping a FIFO without repetition removes its head and nothing else.    *)
LEMMA TailFacts ==
  ASSUME NEW S, NEW s \in Seq(S), s # <<>>
  PROVE  /\ Head(s) \in S
         /\ In(Head(s), s)
         /\ \A c : In(c, Tail(s)) => In(c, s)
         /\ \A c : In(c, s) => c = Head(s) \/ In(c, Tail(s))
         /\ NoRepeat(s) => NoRepeat(Tail(s))
         /\ NoRepeat(s) /\ Head(s) # Notification => ~ In(Head(s), Tail(s))
<1>1. /\ Len(s) \in Nat \ {0}
      /\ DOMAIN s = 1 .. Len(s)
      /\ Head(s) = s[1]
      /\ DOMAIN Tail(s) = 1 .. Len(s) - 1
      /\ \A i \in 1 .. Len(s) - 1 : Tail(s)[i] = s[i + 1]
  OBVIOUS
<1>2. Head(s) \in S /\ In(Head(s), s)
  BY <1>1 DEF In
<1>3. \A c : In(c, Tail(s)) => In(c, s)
  BY <1>1 DEF In
<1>4. ASSUME NEW c, In(c, s), c # Head(s) PROVE In(c, Tail(s))
  <2>1. PICK i \in 1 .. Len(s) : s[i] = c
    BY <1>1, <1>4 DEF In
  <2>2. i - 1 \in 1 .. Len(s) - 1 /\ Tail(s)[i - 1] = c
    BY <1>1, <1>4, <2>1
  <2>3. QED
    BY <1>1, <2>2 DEF In
<1>5. NoRepeat(s) => NoRepeat(Tail(s))
  BY <1>1 DEF NoRepeat
<1>6. NoRepeat(s) /\ Head(s) # Notification => ~ In(Head(s), Tail(s))
  BY <1>1 DEF NoRepeat, In
<1>7. QED
  BY <1>2, <1>3, <1>4, <1>5, <1>6

-----------------------------------------------------------------------------
(* TypeOK, CallTrack and NodesConserved are proved inductive together: the *)
(* type of nvim_wait_queue depends on what responders hold.                *)
LEMMA InitTrack == Init => TypeOK /\ CallTrack /\ NodesConserved
<1> SUFFICES ASSUME Init PROVE TypeOK /\ CallTrack /\ NodesConserved
  OBVIOUS
<1>1. TypeOK
  <2>1. count \in 0 .. MaxCalls /\ issuer \in [Counts -> Callers \cup {None}] /\ blocking \in [Counts -> BOOLEAN]
    BY DEF Init, RpcAssumption
  <2>2. pc \in [Counts -> CallPhases] /\ toNvim \in Seq(Counts) /\ fromNvim \in Seq(Counts \cup {Notification})
    BY DEF Init, CallPhases
  <2>3. answer \in [Counts -> {"ok", "err", None}] /\ handling \in BOOLEAN /\ lock \in Callers \cup {None}
    BY DEF Init
  <2>4. nvim_wait_queue \in Seq(Counts) /\ resp \in [Counts -> RespPhases]
    BY DEF Init, RespPhases
  <2>5. held \in [Counts -> Counts \cup {None}] /\ obj \in [Counts -> Counts \cup {None}] /\ ret \in [Counts -> Counts \cup {None, Default}]
    BY DEF Init
  <2>6. QED
    BY <2>1, <2>2, <2>3, <2>4, <2>5 DEF TypeOK
<1>2. CallTrack /\ NodesConserved
  BY DEF Init, CallTrack, NodesConserved, Counts, CallPhases, RespPhases,
         In, NoRepeat, Queued, HeldNode, NodeLive
<1>3. QED
  BY <1>1, <1>2

(* No step of a caller, a responder, the loop or neovim breaks a type.     *)
LEMMA TypeStep ==
  ASSUME TypeOK, CallTrack, [Next]_vars
  PROVE  TypeOK'
<1> USE DEF TypeOK, CallPhases, RespPhases, callVars, nvimVars, loopVars, respVars
<1>1. ASSUME NEW t \in Callers, NEW b \in BOOLEAN, NEW l \in BOOLEAN, IssueCall(t, b, l) PROVE TypeOK'
  <2>1. count \in Counts /\ count + 1 \in 0 .. MaxCalls
    BY <1>1 DEF IssueCall, Counts
  <2>2. QED
    BY <1>1, <2>1 DEF IssueCall
<1>2. ASSUME NEW c \in Counts, CallStep(c) PROVE TypeOK'
  <2>1. CASE WriteRequest(c)
    BY <2>1 DEF WriteRequest
  <2>2. CASE AppendNode(c)
    BY <2>2 DEF AppendNode
  <2>3. CASE FutexWait(c)
    BY <2>3 DEF FutexWait
  <2>4. CASE TakePackage(c)
    BY <2>4 DEF TakePackage, Unpack
  <2>5. QED
    BY <1>2, <2>1, <2>2, <2>3, <2>4 DEF CallStep
<1>3. ASSUME NEW r \in Counts, RespStep(r) PROVE TypeOK'
  <2>1. CASE PopNode(r)
    <3>1. Head(nvim_wait_queue) \in Counts /\ Tail(nvim_wait_queue) \in Seq(Counts)
      BY <2>1 DEF PopNode
    <3>2. QED
      BY <2>1, <3>1 DEF PopNode
  <2>2. CASE MatchNode(r)
    BY <2>2 DEF MatchNode
  <2>3. CASE RequeueNode(r)
    <3>1. held[r] \in Counts
      BY <2>3 DEF RequeueNode, CallTrack
    <3>2. QED
      BY <2>3, <3>1 DEF RequeueNode
  <2>4. CASE Deposit(r)
    BY <2>4 DEF Deposit
  <2>5. CASE Wakeup(r)
    BY <2>5 DEF Wakeup
  <2>6. QED
    BY <1>3, <2>1, <2>2, <2>3, <2>4, <2>5 DEF RespStep
<1>4. CASE NvimServe
  <2>1. Head(toNvim) \in Counts /\ Tail(toNvim) \in Seq(Counts)
    BY <1>4 DEF NvimServe
  <2>2. QED
    BY <1>4, <2>1 DEF NvimServe
<1>5. CASE NvimNotify
  BY <1>5 DEF NvimNotify
<1>6. CASE LoopStep
  <2>1. fromNvim # <<>> => /\ Head(fromNvim) \in Counts \cup {Notification}
                           /\ Tail(fromNvim) \in Seq(Counts \cup {Notification})
    OBVIOUS
  <2>2. QED
    BY <1>6, <2>1 DEF LoopStep, LoopNotification, LoopHandled, LoopResponse
<1>7. CASE UNCHANGED vars
  BY <1>7 DEF vars
<1>8. ASSUME NEW t \in Callers, Unlock(t) PROVE TypeOK'
  BY <1>8 DEF Unlock
<1>9. QED
  BY <1>1, <1>2, <1>3, <1>4, <1>5, <1>6, <1>7, <1>8 DEF Next

(* No step breaks the track of a call.                                     *)
LEMMA TrackStep ==
  ASSUME TypeOK, CallTrack, [Next]_vars
  PROVE  CallTrack'
<1> USE DEF TypeOK, CallTrack, CallPhases, RespPhases, callVars, nvimVars, loopVars, respVars
<1>1. ASSUME NEW t \in Callers, NEW b \in BOOLEAN, NEW l \in BOOLEAN, IssueCall(t, b, l) PROVE CallTrack'
  BY <1>1 DEF IssueCall, Counts, In, NoRepeat
<1>2. ASSUME NEW c \in Counts, CallStep(c) PROVE CallTrack'
  <2>1. CASE WriteRequest(c)
    <3>1. /\ \A d : In(d, toNvim') <=> In(d, toNvim) \/ d = c
          /\ NoRepeat(toNvim')
      BY <2>1, AppendFacts DEF WriteRequest
    <3>2. QED
      BY <2>1, <3>1 DEF WriteRequest
  <2>2. CASE AppendNode(c)
    BY <2>2 DEF AppendNode
  <2>3. CASE FutexWait(c)
    BY <2>3 DEF FutexWait
  <2>4. CASE TakePackage(c)
    BY <2>4 DEF TakePackage
  <2>5. QED
    BY <1>2, <2>1, <2>2, <2>3, <2>4 DEF CallStep
<1>3. ASSUME NEW r \in Counts, RespStep(r) PROVE CallTrack'
  <2>1. CASE PopNode(r)
    <3>1. Head(nvim_wait_queue) \in Counts
      BY <2>1, TailFacts DEF PopNode
    <3>2. QED
      BY <2>1, <3>1 DEF PopNode
  <2>2. CASE MatchNode(r)
    BY <2>2 DEF MatchNode, NodeMatches
  <2>3. CASE RequeueNode(r)
    BY <2>3 DEF RequeueNode
  <2>4. CASE Deposit(r)
    BY <2>4 DEF Deposit
  <2>5. CASE Wakeup(r)
    BY <2>5 DEF Wakeup
  <2>6. QED
    BY <1>3, <2>1, <2>2, <2>3, <2>4, <2>5 DEF RespStep
<1>4. CASE NvimServe
  <2> DEFINE h == Head(toNvim)
  <2>1. /\ h \in Counts /\ In(h, toNvim) /\ ~ In(h, toNvim')
        /\ \A d : In(d, toNvim') => In(d, toNvim)
        /\ NoRepeat(toNvim')
    BY <1>4, TailFacts DEF NvimServe
  <2>2. ~ In(h, fromNvim)
    BY <2>1
  <2>3. /\ \A d : In(d, fromNvim') <=> In(d, fromNvim) \/ d = h
        /\ NoRepeat(fromNvim')
    <3>1. h \in Counts \cup {Notification}
      BY <2>1
    <3>2. QED
      BY <1>4, <2>2, <3>1, AppendFacts DEF NvimServe
  <2>4. /\ pc[h] \notin {"none", "packed"}
        /\ resp[h] = "none"
        /\ answer'[h] # None
        /\ \A d \in Counts : d # h => answer'[d] = answer[d]
    <3>1. /\ pc[h] \notin {"none", "packed"}
          /\ resp[h] = "none"
      BY <2>1
    <3>2. PICK a \in {"ok", "err"} : answer' = [answer EXCEPT ![h] = a]
      BY <1>4 DEF NvimServe
    <3>3. a # None
      BY <3>2
    <3>4. QED
      BY <2>1, <3>1, <3>2, <3>3
  <2>5. UNCHANGED <<count, issuer, pc, resp, held, obj>>
    BY <1>4 DEF NvimServe
  <2>6. QED
    BY <2>1, <2>3, <2>4, <2>5
<1>5. CASE NvimNotify
  <2>1. /\ \A d \in Counts : In(d, fromNvim') <=> In(d, fromNvim)
        /\ NoRepeat(fromNvim')
    <3>1. Notification \in Counts \cup {Notification}
      OBVIOUS
    <3>2. QED
      BY <1>5, <3>1, AppendFacts DEF NvimNotify
  <2>2. QED
    BY <1>5, <2>1 DEF NvimNotify
<1>6. CASE LoopStep
  <2>1. CASE LoopHandled
    BY <2>1 DEF LoopHandled
  <2>2. CASE LoopNotification
    <3>1. /\ \A d : In(d, fromNvim') => In(d, fromNvim)
          /\ NoRepeat(fromNvim')
      BY <2>2, TailFacts DEF LoopNotification
    <3>2. QED
      BY <2>2, <3>1 DEF LoopNotification
  <2>3. CASE LoopResponse
    <3> DEFINE h == Head(fromNvim)
    <3>1. /\ h \in Counts /\ In(h, fromNvim) /\ ~ In(h, fromNvim')
          /\ \A d : In(d, fromNvim') => In(d, fromNvim)
          /\ NoRepeat(fromNvim')
      BY <2>3, TailFacts DEF LoopResponse
    <3>2. QED
      BY <2>3, <3>1 DEF LoopResponse
  <2>4. QED
    BY <1>6, <2>1, <2>2, <2>3 DEF LoopStep
<1>7. CASE UNCHANGED vars
  BY <1>7 DEF vars
<1>8. ASSUME NEW t \in Callers, Unlock(t) PROVE CallTrack'
  BY <1>8 DEF Unlock
<1>9. QED
  BY <1>1, <1>2, <1>3, <1>4, <1>5, <1>6, <1>7, <1>8 DEF Next

(* No step loses, doubles or frees a node that a responder can still reach.*)
LEMMA ConserveStep ==
  ASSUME TypeOK, CallTrack, NodesConserved, [Next]_vars
  PROVE  NodesConserved'
<1> USE DEF TypeOK, NodesConserved, CallPhases, RespPhases, callVars, nvimVars,
            loopVars, respVars, NodeLive, HeldNode, Queued
<1>1. ASSUME NEW t \in Callers, NEW b \in BOOLEAN, NEW l \in BOOLEAN, IssueCall(t, b, l) PROVE NodesConserved'
  <2>1. count \in Counts /\ pc[count] = "none"
    BY <1>1 DEF IssueCall, Counts, CallTrack
  <2>2. QED
    BY <1>1, <2>1 DEF IssueCall
<1>2. ASSUME NEW c \in Counts, CallStep(c) PROVE NodesConserved'
  <2>1. CASE WriteRequest(c)
    BY <2>1 DEF WriteRequest
  <2>2. CASE AppendNode(c)
    <3>1. pc[c] = "written" /\ ~ Queued(c) /\ ~ HeldNode(c)
      BY <2>2 DEF AppendNode
    <3>2. /\ \A d : In(d, nvim_wait_queue') <=> In(d, nvim_wait_queue) \/ d = c
          /\ NoRepeat(nvim_wait_queue')
      BY <2>2, <3>1, AppendFacts DEF AppendNode
    <3>3. pc' = [pc EXCEPT ![c] = "queued"] /\ held' = held
      BY <2>2 DEF AppendNode
    <3>4. \A d \in Counts : pc'[d] = IF d = c THEN "queued" ELSE pc[d]
      BY <3>3
    <3>5. QED
      BY <3>1, <3>2, <3>3, <3>4
  <2>3. CASE FutexWait(c)
    BY <2>3 DEF FutexWait
  <2>4. CASE TakePackage(c)
    BY <2>4 DEF TakePackage
  <2>5. QED
    BY <1>2, <2>1, <2>2, <2>3, <2>4 DEF CallStep
<1>3. ASSUME NEW r \in Counts, RespStep(r) PROVE NodesConserved'
  <2>1. CASE PopNode(r)
    <3> DEFINE h == Head(nvim_wait_queue)
    <3>1. /\ h \in Counts /\ In(h, nvim_wait_queue) /\ ~ In(h, nvim_wait_queue')
          /\ \A d : In(d, nvim_wait_queue') => In(d, nvim_wait_queue)
          /\ \A d : In(d, nvim_wait_queue) => d = h \/ In(d, nvim_wait_queue')
          /\ NoRepeat(nvim_wait_queue')
      BY <2>1, TailFacts DEF PopNode
    <3>2. held[r] = None
      BY <2>1 DEF PopNode, CallTrack
    <3>3. QED
      BY <2>1, <3>1, <3>2 DEF PopNode
  <2>2. CASE MatchNode(r)
    BY <2>2 DEF MatchNode
  <2>3. CASE RequeueNode(r)
    <3>1. held[r] \in Counts
      BY <2>3 DEF RequeueNode, CallTrack
    <3>2. /\ \A d : In(d, nvim_wait_queue') <=> In(d, nvim_wait_queue) \/ d = held[r]
          /\ NoRepeat(nvim_wait_queue')
      BY <2>3, <3>1, AppendFacts DEF RequeueNode
    <3>3. QED
      BY <2>3, <3>1, <3>2 DEF RequeueNode
  <2>4. CASE Deposit(r)
    BY <2>4 DEF Deposit
  <2>5. CASE Wakeup(r)
    <3>1. held[r] = r
      BY <2>5 DEF Wakeup, CallTrack
    <3>2. QED
      BY <2>5, <3>1 DEF Wakeup
  <2>6. QED
    BY <1>3, <2>1, <2>2, <2>3, <2>4, <2>5 DEF RespStep
<1>4. CASE NvimServe
  BY <1>4 DEF NvimServe
<1>5. CASE NvimNotify
  BY <1>5 DEF NvimNotify
<1>6. CASE LoopStep
  BY <1>6 DEF LoopStep, LoopNotification, LoopHandled, LoopResponse
<1>7. CASE UNCHANGED vars
  BY <1>7 DEF vars
<1>8. ASSUME NEW t \in Callers, Unlock(t) PROVE NodesConserved'
  BY <1>8 DEF Unlock
<1>9. QED
  BY <1>1, <1>2, <1>3, <1>4, <1>5, <1>6, <1>7, <1>8 DEF Next

-----------------------------------------------------------------------------
(* Type correctness, for any number of callers and calls.                  *)
THEOREM TypeCorrect == Spec => []TypeOK
<1>1. TypeOK /\ CallTrack /\ [Next]_vars => TypeOK' /\ CallTrack'
  BY TypeStep, TrackStep
<1>2. QED
  BY <1>1, InitTrack, PTL DEF Spec

(* Every call keeps to the single path from number to answer.              *)
THEOREM CallsTracked == Spec => []CallTrack
<1>1. TypeOK /\ CallTrack /\ [Next]_vars => TypeOK' /\ CallTrack'
  BY TypeStep, TrackStep
<1>2. QED
  BY <1>1, InitTrack, PTL DEF Spec

(* Popping and re-appending by any number of responders loses no node.     *)
THEOREM NoNodeLost == Spec => []NodesConserved
<1>1. TypeOK /\ CallTrack /\ NodesConserved /\ [Next]_vars => NodesConserved'
  BY ConserveStep
<1>2. QED
  BY <1>1, InitTrack, TypeCorrect, CallsTracked, PTL DEF Spec

(* An awake caller always finds the response to its own request.           *)
THEOREM PackageIsOwn == Spec => []OwnPackage
<1>1. TypeOK /\ CallTrack => OwnPackage
  BY DEF TypeOK, CallTrack, OwnPackage
<1>2. QED
  BY <1>1, TypeCorrect, CallsTracked, PTL

(* A blocking call returns neovim's answer to it, or the default.          *)
THEOREM AnswerIsOwn == Spec => []OwnAnswer
<1>1. Init => OwnAnswer
  BY DEF Init, OwnAnswer
<1>2. TypeOK /\ CallTrack /\ OwnAnswer /\ [Next]_vars => OwnAnswer'
  <2> SUFFICES ASSUME TypeOK, CallTrack, OwnAnswer, [Next]_vars,
                      NEW c \in Counts, pc'[c] = "returned", blocking'[c]
               PROVE  ret'[c] = IF answer'[c] = "ok" THEN c ELSE Default
    BY DEF OwnAnswer
  <2> USE DEF TypeOK, CallTrack, callVars, nvimVars, loopVars, respVars
  <2>1. ASSUME NEW t \in Callers, NEW b \in BOOLEAN, NEW l \in BOOLEAN, IssueCall(t, b, l)
        PROVE  ret'[c] = IF answer'[c] = "ok" THEN c ELSE Default
    BY <2>1 DEF IssueCall, OwnAnswer, Counts
  <2>2. ASSUME NEW d \in Counts, CallStep(d)
        PROVE  ret'[c] = IF answer'[c] = "ok" THEN c ELSE Default
    <3>1. CASE TakePackage(d)
      <4>1. obj[d] = d /\ d # None
        BY <3>1 DEF TakePackage
      <4>2. QED
        BY <3>1, <4>1 DEF TakePackage, Unpack, OwnAnswer
    <3>2. CASE ~ TakePackage(d)
      BY <2>2, <3>2 DEF CallStep, WriteRequest, AppendNode, FutexWait, OwnAnswer
    <3>3. QED
      BY <3>1, <3>2
  <2>3. ASSUME NEW r \in Counts, RespStep(r)
        PROVE  ret'[c] = IF answer'[c] = "ok" THEN c ELSE Default
    BY <2>3 DEF RespStep, PopNode, MatchNode, RequeueNode, Deposit, Wakeup, OwnAnswer
  <2>4. CASE NvimServe
    <3>1. Head(toNvim) \in Counts /\ In(Head(toNvim), toNvim)
      BY <2>4, TailFacts DEF NvimServe
    <3>2. Head(toNvim) # c
      BY <2>4, <3>1 DEF NvimServe
    <3>3. QED
      BY <2>4, <3>1, <3>2 DEF NvimServe, OwnAnswer
  <2>5. CASE NvimNotify
    BY <2>5 DEF NvimNotify, OwnAnswer
  <2>6. CASE LoopStep
    BY <2>6 DEF LoopStep, LoopNotification, LoopHandled, LoopResponse, OwnAnswer
  <2>7. CASE UNCHANGED vars
    BY <2>7 DEF vars, OwnAnswer
  <2>8. ASSUME NEW t \in Callers, Unlock(t) PROVE ret'[c] = IF answer'[c] = "ok" THEN c ELSE Default
    BY <2>8 DEF Unlock, OwnAnswer
  <2>9. QED
    BY <2>1, <2>2, <2>3, <2>4, <2>5, <2>6, <2>7, <2>8 DEF Next
<1>3. QED
  BY <1>1, <1>2, TypeCorrect, CallsTracked, PTL DEF Spec

(* Neovim executes a thread's blocking call before its later calls.        *)
THEOREM BlockingCallsInOrder == Spec => []ProgramOrder
<1>1. Init => ProgramOrder
  BY DEF Init, ProgramOrder
<1>2. TypeOK /\ CallTrack /\ ProgramOrder /\ [Next]_vars => ProgramOrder'
  <2> SUFFICES ASSUME TypeOK, CallTrack, ProgramOrder, [Next]_vars,
                      NEW c \in Counts, NEW d \in Counts, c < d, blocking'[c],
                      issuer'[c] # None, issuer'[c] = issuer'[d]
               PROVE  answer'[c] # None
    BY DEF ProgramOrder
  <2> USE DEF TypeOK, CallTrack, callVars, nvimVars, loopVars, respVars
  <2>1. ASSUME NEW t \in Callers, NEW b \in BOOLEAN, NEW l \in BOOLEAN, IssueCall(t, b, l)
        PROVE  answer'[c] # None
    <3>1. count \in Counts /\ issuer' = [issuer EXCEPT ![count] = t]
                           /\ blocking' = [blocking EXCEPT ![count] = b]
                           /\ answer' = answer
      BY <2>1 DEF IssueCall, Counts
    <3>2. c # count
      <4>1. SUFFICES ASSUME c = count PROVE FALSE
        OBVIOUS
      <4>2. d # count /\ ~ (d < count)
        BY <3>1, <4>1 DEF Counts
      <4>3. issuer[d] = issuer'[d]
        BY <3>1, <4>2
      <4>4. QED
        BY <4>2, <4>3
    <3>3. CASE d = count
      <4>1. issuer[c] = t /\ blocking[c]
        BY <3>1, <3>2, <3>3
      <4>2. pc[c] = "returned"
        BY <2>1, <4>1 DEF IssueCall, InCall
      <4>3. QED
        BY <3>1, <4>2
    <3>4. CASE d # count
      <4>1. /\ issuer[c] = issuer'[c] /\ issuer[d] = issuer'[d]
            /\ blocking[c] = blocking'[c]
        BY <3>1, <3>2, <3>4
      <4>2. QED
        BY <3>1, <4>1 DEF ProgramOrder
    <3>5. QED
      BY <3>3, <3>4
  <2>2. CASE NvimServe
    BY <2>2 DEF NvimServe, ProgramOrder
  <2>3. CASE UNCHANGED <<issuer, blocking, answer>>
    BY <2>3 DEF ProgramOrder
  <2>4. (\E e \in Counts : CallStep(e) \/ RespStep(e)) \/ (\E t \in Callers : Unlock(t))
          \/ NvimNotify \/ LoopStep => UNCHANGED <<issuer, blocking, answer>>
    BY DEF Unlock, CallStep, WriteRequest, AppendNode, FutexWait, TakePackage, RespStep,
           PopNode, MatchNode, RequeueNode, Deposit, Wakeup, NvimNotify,
           LoopStep, LoopNotification, LoopHandled, LoopResponse
  <2>5. CASE UNCHANGED vars
    BY <2>5 DEF vars, ProgramOrder
  <2>6. QED
    BY <2>1, <2>2, <2>3, <2>4, <2>5 DEF Next
<1>3. QED
  BY <1>1, <1>2, TypeCorrect, CallsTracked, PTL DEF Spec
-----------------------------------------------------------------------------
(* NvimRpc implements RpcPromise: issuing a call, its execution by neovim  *)
(* and its return are the steps of the promise, all others stutter.        *)
LEMMA PromiseStep ==
  ASSUME TypeOK, CallTrack, [Next]_vars
  PROVE  [Promise!PromiseNext]_(Promise!pvars)
<1> USE DEF TypeOK, CallTrack, callVars, nvimVars, loopVars, respVars,
            Promise!pvars, Promise!PromiseNext, Promise!Counts
<1>1. ASSUME NEW t \in Callers, NEW b \in BOOLEAN, NEW l \in BOOLEAN, IssueCall(t, b, l)
      PROVE  Promise!Issue(t, b)
  <2>1. /\ count \in Counts /\ pc[count] = "none" /\ answer[count] = None
        /\ CallStatus[count] = "unused"
    BY <1>1 DEF IssueCall, Counts, CallStatus
  <2>2. ~ Promise!Waits(t)
    <3>1. SUFFICES ASSUME NEW c \in Counts, issuer[c] = t, blocking[c],
                          CallStatus[c] \in {"issued", "served"}
                   PROVE  FALSE
      BY DEF Promise!Waits, Counts
    <3>2. pc[c] # "returned"
      BY <3>1 DEF CallStatus
    <3>3. QED
      BY <1>1, <3>1, <3>2 DEF IssueCall, InCall
  <2>3. CallStatus' = [CallStatus EXCEPT ![count] = "issued"]
    BY <1>1, <2>1 DEF IssueCall, CallStatus
  <2>4. /\ issuer' = [issuer EXCEPT ![count] = t]
        /\ blocking' = [blocking EXCEPT ![count] = b]
        /\ UNCHANGED <<answer, ret>>
    BY <1>1 DEF IssueCall
  <2>5. count \in Promise!Counts
    BY <2>1 DEF Counts
  <2>6. QED
    BY <2>1, <2>2, <2>3, <2>4, <2>5 DEF Promise!Issue
<1>2. ASSUME NEW c \in Counts, TakePackage(c)
      PROVE  Promise!Complete(c)
  <2>1. /\ pc[c] = "woken" /\ obj[c] = c /\ answer[c] # None /\ c # None
        /\ CallStatus[c] = "served"
    BY <1>2 DEF TakePackage, CallStatus
  <2>2. CallStatus' = [CallStatus EXCEPT ![c] = "done"]
    BY <1>2, <2>1 DEF TakePackage, CallStatus
  <2>3. QED
    BY <1>2, <2>1, <2>2 DEF TakePackage, Unpack, Promise!Complete
<1>3. ASSUME NEW c \in Counts, WriteRequest(c) \/ AppendNode(c) \/ FutexWait(c)
      PROVE  UNCHANGED Promise!pvars
  BY <1>3 DEF WriteRequest, AppendNode, FutexWait, CallStatus
<1>4. ASSUME NEW r \in Counts, RespStep(r)
      PROVE  UNCHANGED Promise!pvars
  <2>1. CASE Wakeup(r)
    <3>1. /\ held[r] = r /\ pc[r] = "waiting" /\ answer[r] # None
          /\ pc' = [pc EXCEPT ![r] = "woken"] /\ answer' = answer
      BY <2>1 DEF Wakeup
    <3>2. CallStatus' = CallStatus
      BY <3>1 DEF CallStatus
    <3>3. QED
      BY <2>1, <3>2 DEF Wakeup
  <2>2. CASE ~ Wakeup(r)
    BY <1>4, <2>2 DEF RespStep, PopNode, MatchNode, RequeueNode, Deposit, CallStatus
  <2>3. QED
    BY <2>1, <2>2
<1>5. ASSUME NvimServe
      PROVE  \E c \in Counts : Promise!Serve(c)
  <2> DEFINE h == Head(toNvim)
  <2>1. h \in Counts /\ In(h, toNvim)
    BY <1>5, TailFacts DEF NvimServe
  <2>2. PICK a \in {"ok", "err"} : answer' = [answer EXCEPT ![h] = a]
    BY <1>5 DEF NvimServe
  <2>3. answer[h] = None /\ a # None /\ pc[h] \notin {"none", "returned"} /\ pc' = pc
    BY <1>5, <2>1, <2>2 DEF NvimServe
  <2> HIDE DEF h
  <2>4. CallStatus[h] = "issued"
    BY <2>1, <2>3 DEF CallStatus
  <2>5. CallStatus' = [CallStatus EXCEPT ![h] = "served"]
    <3>1. \A d \in Counts : answer'[d] = IF d = h THEN a ELSE answer[d]
      BY <2>2
    <3>2. \A d \in Counts : CallStatus'[d] = IF d = h THEN "served" ELSE CallStatus[d]
      BY <2>3, <3>1 DEF CallStatus
    <3>3. QED
      BY <2>1, <3>2 DEF CallStatus
  <2>6. QED
    BY <1>5, <2>1, <2>2, <2>4, <2>5 DEF NvimServe, Promise!Serve
<1>6. CASE NvimNotify \/ LoopStep
  BY <1>6 DEF NvimNotify, LoopStep, LoopNotification, LoopHandled, LoopResponse, CallStatus
<1>7. CASE UNCHANGED vars
  BY <1>7 DEF vars, CallStatus
<1>8. ASSUME NEW t \in Callers, Unlock(t) PROVE UNCHANGED Promise!pvars
  BY <1>8 DEF Unlock, CallStatus
<1> HIDE DEF TypeOK, CallTrack, Promise!pvars
<1>9. QED
  BY <1>1, <1>2, <1>3, <1>4, <1>5, <1>6, <1>7, <1>8 DEF Next, CallStep, Counts

(* The remote-call layer implements RpcPromise, for any number of callers  *)
(* and calls: nothing of the pipes, the wait queue and the responder       *)
(* threads is visible in what a caller gets back.                          *)
THEOREM Implements == Spec => KeepsPromise
<1>1. Init => Promise!PromiseInit
  BY DEF Init, Promise!PromiseInit, Promise!Counts, Counts, CallStatus
<1>2. TypeOK /\ CallTrack /\ [Next]_vars => [Promise!PromiseNext]_(Promise!pvars)
  BY PromiseStep
<1>3. QED
  BY <1>1, <1>2, TypeCorrect, CallsTracked, PTL
     DEF Spec, KeepsPromise, Promise!PromiseSpec
=============================================================================
