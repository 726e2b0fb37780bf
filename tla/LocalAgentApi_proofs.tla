------------------------ MODULE LocalAgentApi_proofs ------------------------
(***************************************************************************)
(* Theorems about LocalAgentApi for every set of sessions and requests,    *)
(* every number of restarts, events and store failures.                    *)
(***************************************************************************)
EXTENDS LocalAgentApi, SequenceTheorems, FiniteSetTheorems, TLAPS

(***************************************************************************)
(* Type correctness.                                                       *)
(***************************************************************************)
LEMMA LineTypes ==
  /\ <<>> \in Seq(Events) /\ <<"delta">> \in Seq(Events)
  /\ <<"aborted">> \in Seq(Events) /\ <<"failed">> \in Seq(Events)
  /\ <<"delta", "aborted">> \in Seq(Events)
  /\ \A e \in Terminals : <<e>> \in Seq(Events) /\ Outcome(e) \in Outcomes
  /\ "cancelled" \in Outcomes /\ "failed" \in Outcomes /\ "completed" \in Outcomes
BY DEF Events, Terminals, Outcome, Outcomes

LEMMA EmitType ==
  ASSUME TypeOK, NEW r \in Requests, NEW ls \in Seq(Events), Emit(r, ls)
  PROVE  /\ events' \in [Sessions -> Seq(LogEntries)]
         /\ out' \in [Requests -> Seq(Events)]
<1> DEFINE own == [i \in 1 .. Len(ls) |-> [turn |-> r, event |-> ls[i]]]
<1>1. sess[r] \in Sessions
  BY DEF TypeOK
<1>2. \A i \in 1 .. Len(ls) : [turn |-> r, event |-> ls[i]] \in LogEntries
  BY ElementOfSeq DEF LogEntries
<1>3. own \in Seq(LogEntries)
  <2>1. Len(ls) \in Nat
    BY LenProperties
  <2> QED BY <1>2, <2>1
<1>4. events[sess[r]] \in Seq(LogEntries) /\ out[r] \in Seq(Events)
  BY <1>1 DEF TypeOK
<1>5. events[sess[r]] \o own \in Seq(LogEntries) /\ out[r] \o ls \in Seq(Events)
  BY <1>3, <1>4, ConcatProperties
<1>6. /\ events' = [events EXCEPT ![sess[r]] = events[sess[r]] \o own]
      /\ out' = [out EXCEPT ![r] = out[r] \o ls]
  BY DEF Emit
<1> HIDE DEF own
<1> QED BY <1>1, <1>5, <1>6 DEF TypeOK

LEMMA PrefixType ==
  ASSUME NEW ls \in Seq(Events), NEW k \in 1 .. Len(ls) + 1
  PROVE  SubSeq(ls, 1, k - 1) \in Seq(Events)
<1>1. Len(ls) \in Nat /\ \A i \in 1 .. k - 1 : ls[i] \in Events
  BY LenProperties
<1> QED BY <1>1, SubSeqProperties, 1 \in Int, k - 1 \in Int

LEMMA StoreThrowsType ==
  ASSUME TypeOK, NEW r \in Requests, NEW ls \in Seq(Events), NEW b \in BOOLEAN,
         NEW k \in 1 .. Len(ls) + 1, StoreThrows(r, ls, b, k)
  PROVE  /\ events' \in [Sessions -> Seq(LogEntries)]
         /\ out' \in [Requests -> Seq(Events)]
         /\ active' \in [Sessions -> Requests \cup {None}]
         /\ faults' \in Nat
         /\ status' \in [Sessions -> Statuses]
         /\ turn' \in [Sessions -> Requests \cup {None}]
<1>1. SubSeq(ls, 1, k - 1) \in Seq(Events) /\ Emit(r, SubSeq(ls, 1, k - 1))
  BY PrefixType DEF StoreThrows
<1>2. /\ events' \in [Sessions -> Seq(LogEntries)]
      /\ out' \in [Requests -> Seq(Events)]
  BY <1>1, EmitType
<1> QED BY <1>2 DEF StoreThrows, TypeOK

LEMMA WriteAndWaitType ==
  ASSUME TypeOK, NEW r \in Requests, NEW ls \in Seq(Events), WriteAndWait(r, ls)
  PROVE  TypeOK'
<1>1. \/ Emit(r, ls) /\ UNCHANGED <<active, status, turn, faults>>
      \/ \E k \in 1 .. Len(ls) : StoreThrows(r, ls, FALSE, k)
  BY DEF WriteAndWait
<1>2. /\ pc' \in {[pc EXCEPT ![r] = "waiting"], [pc EXCEPT ![r] = "unwinding"]}
      /\ \E v \in {"open", "returned"} : iter' = [iter EXCEPT ![r] = v]
      /\ UNCHANGED <<server, starts, sess, reply, conn, aborted>>
  BY DEF WriteAndWait, Release
<1>3. /\ events' \in [Sessions -> Seq(LogEntries)]
      /\ out' \in [Requests -> Seq(Events)]
      /\ active' \in [Sessions -> Requests \cup {None}]
      /\ faults' \in Nat
      /\ status' \in [Sessions -> Statuses]
      /\ turn' \in [Sessions -> Requests \cup {None}]
  <2>1. CASE Emit(r, ls) /\ UNCHANGED <<active, status, turn, faults>>
    BY <2>1, EmitType DEF TypeOK
  <2>2. CASE \E k \in 1 .. Len(ls) : StoreThrows(r, ls, FALSE, k)
    <3>1. PICK k \in 1 .. Len(ls) : StoreThrows(r, ls, FALSE, k)
      BY <2>2
    <3>2. k \in 1 .. Len(ls) + 1
      BY LenProperties
    <3> QED BY <3>1, <3>2, StoreThrowsType
  <2> QED BY <1>1, <2>1, <2>2
<1>4. pc' \in [Requests -> {"unsent", "reading", "running", "waiting",
                           "releasing", "unwinding", "done"}]
  <2>1. pc \in [Requests -> {"unsent", "reading", "running", "waiting",
                             "releasing", "unwinding", "done"}]
    BY DEF TypeOK
  <2>2. PICK p \in {"waiting", "unwinding"} : pc' = [pc EXCEPT ![r] = p]
    BY <1>2
  <2> QED BY <2>1, <2>2
<1>5. iter' \in [Requests -> {"none", "open", "returned"}]
  <2>1. PICK v \in {"open", "returned"} : iter' = [iter EXCEPT ![r] = v]
    BY <1>2
  <2>2. iter \in [Requests -> {"none", "open", "returned"}]
    BY DEF TypeOK
  <2> QED BY <2>1, <2>2
<1> QED BY <1>2, <1>3, <1>4, <1>5 DEF TypeOK

LEMMA FinishType ==
  ASSUME TypeOK, NEW r \in Requests, NEW final \in Outcomes, Finish(r, final)
  PROVE  /\ active' \in [Sessions -> Requests \cup {None}]
         /\ status' \in [Sessions -> Statuses]
         /\ turn' \in [Sessions -> Requests \cup {None}]
BY DEF TypeOK, Finish, Statuses

\* The variables a step that emits lines and finishes may change.
LEMMA EmitFinishType ==
  ASSUME TypeOK, NEW r \in Requests, NEW ls \in Seq(Events), NEW final \in Outcomes,
         \/ Emit(r, ls) /\ Finish(r, final) /\ UNCHANGED faults
         \/ \E k \in 1 .. Len(ls) + 1 : StoreThrows(r, ls, TRUE, k)
  PROVE  /\ events' \in [Sessions -> Seq(LogEntries)]
         /\ out' \in [Requests -> Seq(Events)]
         /\ active' \in [Sessions -> Requests \cup {None}]
         /\ faults' \in Nat
         /\ status' \in [Sessions -> Statuses]
         /\ turn' \in [Sessions -> Requests \cup {None}]
<1>1. CASE Emit(r, ls) /\ Finish(r, final) /\ UNCHANGED faults
  BY <1>1, EmitType, FinishType DEF TypeOK
<1>2. CASE \E k \in 1 .. Len(ls) + 1 : StoreThrows(r, ls, TRUE, k)
  BY <1>2, StoreThrowsType
<1> QED BY <1>1, <1>2

LEMMA WriteAndFinishType ==
  ASSUME TypeOK, NEW r \in Requests, NEW ls \in Seq(Events), NEW final \in Outcomes,
         WriteAndFinish(r, ls, final)
  PROVE  TypeOK'
<1>1. \/ Emit(r, ls) /\ Finish(r, final) /\ UNCHANGED faults
      \/ \E k \in 1 .. Len(ls) + 1 : StoreThrows(r, ls, TRUE, k)
  BY DEF WriteAndFinish
<1>2. /\ pc' \in {[pc EXCEPT ![r] = "releasing"], [pc EXCEPT ![r] = "unwinding"]}
      /\ iter' = [iter EXCEPT ![r] = "returned"]
      /\ UNCHANGED <<server, starts, sess, reply, conn, aborted>>
  BY DEF WriteAndFinish, Release
<1>3. /\ events' \in [Sessions -> Seq(LogEntries)]
      /\ out' \in [Requests -> Seq(Events)]
      /\ active' \in [Sessions -> Requests \cup {None}]
      /\ faults' \in Nat
      /\ status' \in [Sessions -> Statuses]
      /\ turn' \in [Sessions -> Requests \cup {None}]
  BY <1>1, EmitFinishType
<1>4. pc' \in [Requests -> {"unsent", "reading", "running", "waiting",
                           "releasing", "unwinding", "done"}]
  <2>1. pc \in [Requests -> {"unsent", "reading", "running", "waiting",
                             "releasing", "unwinding", "done"}]
    BY DEF TypeOK
  <2>2. PICK p \in {"releasing", "unwinding"} : pc' = [pc EXCEPT ![r] = p]
    BY <1>2
  <2> QED BY <2>1, <2>2
<1>5. iter' \in [Requests -> {"none", "open", "returned"}]
  <2>1. iter \in [Requests -> {"none", "open", "returned"}]
    BY DEF TypeOK
  <2> QED BY <1>2, <2>1
<1> QED BY <1>2, <1>3, <1>4, <1>5 DEF TypeOK

LEMMA CatchType ==
  ASSUME TypeOK, NEW r \in Requests, Catch(r)
  PROVE  TypeOK'
<1> DEFINE ls == IF SawTerminal(r) THEN <<>> ELSE <<"failed">>
<1>1. ls \in Seq(Events) /\ "failed" \in Outcomes
  BY LineTypes
<1>2. \/ Emit(r, ls) /\ Finish(r, "failed") /\ UNCHANGED faults
      \/ \E k \in 1 .. Len(ls) + 1 : StoreThrows(r, ls, TRUE, k)
  BY DEF Catch
<1>3. /\ pc' = [pc EXCEPT ![r] = "done"]
      /\ UNCHANGED <<server, starts, sess, reply, conn, aborted, iter>>
  BY DEF Catch
<1> HIDE DEF ls
<1> QED BY <1>1, <1>2, <1>3, EmitFinishType DEF TypeOK

LEMMA RefuseType ==
  ASSUME TypeOK, NEW r \in Requests, NEW code \in {400, 404, 409}, Refuse(r, code)
  PROVE  TypeOK'
BY DEF TypeOK, Refuse, storeVars

\* Every variable keeps its type.
THEOREM TypeCorrect == Spec => []TypeOK
<1>1. Init => TypeOK
  BY ConstantsAssumption DEF Init, TypeOK, Statuses
<1>2. TypeOK /\ [Next]_vars => TypeOK'
  <2> SUFFICES ASSUME TypeOK, [Next]_vars PROVE TypeOK'
    OBVIOUS
  <2>1. CASE Start
    BY <2>1 DEF Start, TypeOK, storeVars
  <2>2. CASE Close
    BY <2>2 DEF Close, TypeOK, storeVars
  <2>3. ASSUME NEW s \in Sessions, CreateSession(s) PROVE TypeOK'
    BY <2>3 DEF CreateSession, TypeOK, storeVars, Statuses
  <2>4. ASSUME NEW s \in Sessions, Cancel(s) PROVE TypeOK'
    BY <2>4 DEF Cancel, TypeOK, storeVars
  <2>5. ASSUME NEW r \in Requests, Handler(r) PROVE TypeOK'
    <3>1. CASE TurnNotFound(r) \/ TurnBusy(r) \/ BodyBad(r)
      BY <3>1, RefuseType DEF TurnNotFound, TurnBusy, BodyBad
    <3>2. CASE TurnArrives(r)
      BY <3>2 DEF TurnArrives, TypeOK, storeVars
    <3>3. CASE BodyOk(r)
      BY <3>3 DEF BodyOk, TypeOK, Statuses
    <3>4. CASE BodyOkStoreFails(r)
      BY <3>4 DEF BodyOkStoreFails, TypeOK, storeVars
    <3>5. CASE RunnerStarts(r)
      BY <3>5, LineTypes, WriteAndWaitType, WriteAndFinishType DEF RunnerStarts
    <3>6. CASE RunnerThrows(r) \/ Unwound(r)
      BY <3>6, CatchType DEF RunnerThrows, Unwound
    <3>7. CASE NextEvent(r)
      BY <3>7, LineTypes, WriteAndWaitType, WriteAndFinishType DEF NextEvent
    <3>8. CASE NextTerminal(r)
      BY <3>8, LineTypes, WriteAndFinishType DEF NextTerminal
    <3>9. CASE NextThrows(r) \/ NextDone(r) \/ AbortWins(r)
      BY <3>9, LineTypes, WriteAndFinishType DEF NextThrows, NextDone, AbortWins
    <3>10. CASE Released(r)
      BY <3>10 DEF Released, TypeOK, storeVars
    <3>11. CASE Disconnect(r)
      BY <3>11 DEF Disconnect, TypeOK, storeVars
    <3>12. CASE NoticeClose(r)
      BY <3>12 DEF NoticeClose, TypeOK, storeVars
    <3> QED BY <2>5, <3>1, <3>2, <3>3, <3>4, <3>5, <3>6, <3>7, <3>8, <3>9, <3>10, <3>11, <3>12 DEF Handler
  <2>6. CASE UNCHANGED vars
    BY <2>6 DEF vars, TypeOK
  <2> QED BY <2>1, <2>2, <2>3, <2>4, <2>5, <2>6 DEF Next
<1> QED BY <1>1, <1>2, PTL DEF Spec

(***************************************************************************)
(* No session is left busy or running without a running turn.  The         *)
(* property is inductive: an entry of #active, and the status running, are *)
(* only written together with the turn they name, and every path on which  *)
(* that turn ends goes through finish.                                     *)
(***************************************************************************)
LEMMA StoreThrowsCounts ==
  ASSUME TypeOK, NEW r, NEW ls, NEW b, NEW k, StoreThrows(r, ls, b, k)
  PROVE  faults' # 0
BY DEF TypeOK, StoreThrows

\* A step that leaves every live turn live and touches no session.
LEMMA GhostStutter ==
  ASSUME NoGhostTurn, UNCHANGED <<active, status, turn, sess, faults>>,
         \A q : pc[q] \in TurnPcs => pc'[q] \in TurnPcs
  PROVE  NoGhostTurn'
BY DEF NoGhostTurn, BusyWhileLive, RunningWhileLive, Live

\* A step that finishes the turn r.
LEMMA GhostFinish ==
  ASSUME TypeOK, NoGhostTurn, NEW r \in Requests, NEW final \in Outcomes,
         Finish(r, final), UNCHANGED <<sess, faults>>,
         \A q \in Requests \ {r} : pc[q] \in TurnPcs => pc'[q] \in TurnPcs
  PROVE  NoGhostTurn'
<1> SUFFICES ASSUME faults = 0, NEW s \in Sessions
             PROVE  /\ active'[s] # None => /\ sess'[active'[s]] = s /\ pc'[active'[s]] \in TurnPcs
                                            /\ status'[s] = "running" /\ turn'[s] = active'[s]
                    /\ status'[s] = "running" => /\ turn'[s] # None /\ sess'[turn'[s]] = s
                                                 /\ pc'[turn'[s]] \in TurnPcs
  BY DEF NoGhostTurn, BusyWhileLive, RunningWhileLive, Live
<1>1. /\ active[s] # None => /\ sess[active[s]] = s /\ pc[active[s]] \in TurnPcs
                             /\ status[s] = "running" /\ turn[s] = active[s]
      /\ status[s] = "running" => /\ turn[s] # None /\ sess[turn[s]] = s /\ pc[turn[s]] \in TurnPcs
  BY DEF NoGhostTurn, BusyWhileLive, RunningWhileLive, Live
<1>2. active[s] \in Requests \cup {None} /\ turn[s] \in Requests \cup {None} /\ sess[r] \in Sessions
  BY DEF TypeOK
<1>3. CASE s = sess[r]
  BY <1>3 DEF Finish, TypeOK, Outcomes
<1>4. CASE s # sess[r]
  <2>1. active'[s] = active[s] /\ status'[s] = status[s] /\ turn'[s] = turn[s] /\ sess' = sess
    BY <1>4 DEF Finish, TypeOK
  <2>2. (active[s] # None => active[s] \in Requests \ {r}) /\ (status[s] = "running" => turn[s] \in Requests \ {r})
    BY <1>1, <1>2, <1>4
  <2> QED BY <1>1, <2>1, <2>2
<1> QED BY <1>3, <1>4

\* Only pc[r] changes: whether another turn is live does not.
LEMMA LiveFrame ==
  ASSUME TypeOK, NEW r \in Requests, NEW p, pc' = [pc EXCEPT ![r] = p]
  PROVE  \A q \in Requests \ {r} : pc[q] \in TurnPcs => pc'[q] \in TurnPcs
BY DEF TypeOK, Live, TurnPcs

LEMMA GhostWriteAndWait ==
  ASSUME TypeOK, NoGhostTurn, NEW r \in Requests, Live(r), NEW ls, WriteAndWait(r, ls)
  PROVE  NoGhostTurn'
<1>1. CASE /\ pc' = [pc EXCEPT ![r] = "waiting"]
           /\ UNCHANGED <<active, status, turn, faults, sess>>
  <2>1. \A q : pc[q] \in TurnPcs => pc'[q] \in TurnPcs
    BY <1>1 DEF TypeOK, Live, TurnPcs
  <2> QED BY <1>1, <2>1, GhostStutter
<1>2. CASE \E k \in 1 .. Len(ls) : StoreThrows(r, ls, FALSE, k)
  BY <1>2, StoreThrowsCounts DEF NoGhostTurn
<1> QED BY <1>1, <1>2 DEF WriteAndWait

LEMMA GhostWriteAndFinish ==
  ASSUME TypeOK, NoGhostTurn, NEW r \in Requests, NEW ls, NEW final \in Outcomes,
         WriteAndFinish(r, ls, final)
  PROVE  NoGhostTurn'
<1>1. CASE /\ Finish(r, final) /\ UNCHANGED <<faults, sess>>
           /\ pc' = [pc EXCEPT ![r] = "releasing"]
  BY <1>1, LiveFrame, GhostFinish
<1>2. CASE \E k \in 1 .. Len(ls) + 1 : StoreThrows(r, ls, TRUE, k)
  BY <1>2, StoreThrowsCounts DEF NoGhostTurn
<1> QED BY <1>1, <1>2 DEF WriteAndFinish

LEMMA GhostCatch ==
  ASSUME TypeOK, NoGhostTurn, NEW r \in Requests, Catch(r)
  PROVE  NoGhostTurn'
<1> DEFINE ls == IF SawTerminal(r) THEN <<>> ELSE <<"failed">>
<1>1. CASE Finish(r, "failed") /\ UNCHANGED <<faults, sess>> /\ pc' = [pc EXCEPT ![r] = "done"]
  BY <1>1, LiveFrame, GhostFinish, LineTypes
<1>2. CASE \E k \in 1 .. Len(ls) + 1 : StoreThrows(r, ls, TRUE, k)
  BY <1>2, StoreThrowsCounts DEF NoGhostTurn
<1> QED BY <1>1, <1>2 DEF Catch

\* A handler that is not in a turn moves to another place outside a turn.
LEMMA GhostOutside ==
  ASSUME TypeOK, NoGhostTurn, NEW r \in Requests, ~Live(r), NEW p,
         pc' = [pc EXCEPT ![r] = p],
         UNCHANGED <<active, status, turn, sess, faults>>
  PROVE  NoGhostTurn'
<1>1. \A q : pc[q] \in TurnPcs => pc'[q] \in TurnPcs
  BY DEF TypeOK, Live, TurnPcs
<1> QED BY <1>1, GhostStutter

LEMMA GhostBegin ==
  ASSUME TypeOK, NoGhostTurn, NEW r \in Requests, BodyOk(r)
  PROVE  NoGhostTurn'
<1> SUFFICES ASSUME faults = 0, NEW s \in Sessions
             PROVE  /\ active'[s] # None => /\ sess'[active'[s]] = s /\ pc'[active'[s]] \in TurnPcs
                                            /\ status'[s] = "running" /\ turn'[s] = active'[s]
                    /\ status'[s] = "running" => /\ turn'[s] # None /\ sess'[turn'[s]] = s
                                                 /\ pc'[turn'[s]] \in TurnPcs
  BY DEF NoGhostTurn, BusyWhileLive, RunningWhileLive, Live, BodyOk
<1>1. /\ active[s] # None => /\ sess[active[s]] = s /\ pc[active[s]] \in TurnPcs
                             /\ status[s] = "running" /\ turn[s] = active[s]
      /\ status[s] = "running" => /\ turn[s] # None /\ sess[turn[s]] = s /\ pc[turn[s]] \in TurnPcs
  BY DEF NoGhostTurn, BusyWhileLive, RunningWhileLive, Live
<1>2. /\ active[s] \in Requests \cup {None} /\ turn[s] \in Requests \cup {None}
      /\ sess[r] \in Sessions /\ r # None /\ sess' = sess
  BY ConstantsAssumption DEF TypeOK, BodyOk
<1>3. \A q : pc[q] \in TurnPcs => pc'[q] \in TurnPcs
  BY DEF TypeOK, TurnPcs, BodyOk
<1>4. pc'[r] \in TurnPcs
  BY DEF TypeOK, TurnPcs, BodyOk
<1>5. CASE s = sess[r]
  <2>1. active'[s] = r /\ status'[s] = "running" /\ turn'[s] = r
    BY <1>2, <1>5 DEF BodyOk, TypeOK
  <2> QED BY <1>2, <1>4, <1>5, <2>1
<1>6. CASE s # sess[r]
  <2>1. active'[s] = active[s] /\ status'[s] = status[s] /\ turn'[s] = turn[s]
    BY <1>6 DEF BodyOk, TypeOK
  <2> QED BY <1>1, <1>2, <1>3, <2>1
<1> QED BY <1>5, <1>6

\* However turns overlap and the server restarts, a session is busy or
\* running only while a turn of its own is live (finish, server.ts:749).
THEOREM NoGhost == Spec => []NoGhostTurn
<1>1. Init => NoGhostTurn
  BY DEF Init, NoGhostTurn, BusyWhileLive, RunningWhileLive
<1>2. TypeOK /\ NoGhostTurn /\ [Next]_vars => NoGhostTurn'
  <2> SUFFICES ASSUME TypeOK, NoGhostTurn, [Next]_vars PROVE NoGhostTurn'
    OBVIOUS
  <2>1. CASE Start \/ UNCHANGED vars
    BY <2>1, GhostStutter DEF Start, vars, storeVars, Live, TurnPcs
  <2>2. CASE Close
    BY <2>2 DEF Close, storeVars, NoGhostTurn, BusyWhileLive, RunningWhileLive, Live
  <2>3. ASSUME NEW s \in Sessions, CreateSession(s) PROVE NoGhostTurn'
    <3>1. active[s] = None \/ faults # 0
      BY <2>3 DEF CreateSession, NoGhostTurn, BusyWhileLive, Statuses
    <3> QED BY <2>3, <3>1 DEF CreateSession, TypeOK, NoGhostTurn, BusyWhileLive, RunningWhileLive, Live
  <2>4. ASSUME NEW s \in Sessions, Cancel(s) PROVE NoGhostTurn'
    BY <2>4, GhostStutter DEF Cancel, storeVars, Live, TurnPcs
  <2>5. ASSUME NEW r \in Requests, Handler(r) PROVE NoGhostTurn'
    <3>1. CASE TurnNotFound(r) \/ TurnBusy(r) \/ BodyBad(r) \/ TurnArrives(r) \/ Released(r)
      BY <3>1, GhostOutside DEF TurnNotFound, TurnBusy, BodyBad, TurnArrives, Arrives, Refuse,
                                Released, Live, TurnPcs, storeVars
    <3>2. CASE BodyOk(r)
      BY <3>2, GhostBegin
    <3>3. CASE BodyOkStoreFails(r)
      BY <3>3 DEF BodyOkStoreFails, TypeOK, NoGhostTurn
    <3>4. CASE RunnerStarts(r)
      BY <3>4, LineTypes, GhostWriteAndWait, GhostWriteAndFinish DEF RunnerStarts, Live, TurnPcs
    <3>5. CASE RunnerThrows(r) \/ Unwound(r)
      BY <3>5, GhostCatch DEF RunnerThrows, Unwound
    <3>6. CASE NextEvent(r)
      BY <3>6, LineTypes, GhostWriteAndWait, GhostWriteAndFinish DEF NextEvent, Live, TurnPcs
    <3>7. CASE NextTerminal(r) \/ NextThrows(r) \/ NextDone(r) \/ AbortWins(r)
      BY <3>7, LineTypes, GhostWriteAndFinish DEF NextTerminal, NextThrows, NextDone, AbortWins
    <3>8. CASE Disconnect(r) \/ NoticeClose(r)
      BY <3>8, GhostStutter DEF Disconnect, NoticeClose, storeVars, Live, TurnPcs
    <3> QED BY <2>5, <3>1, <3>2, <3>3, <3>4, <3>5, <3>6, <3>7, <3>8 DEF Handler
  <2> QED BY <2>1, <2>2, <2>3, <2>4, <2>5 DEF Next
<1> QED BY <1>1, <1>2, TypeCorrect, PTL DEF Spec

(***************************************************************************)
(* Patient clients of a server that is started once and whose store works: *)
(* one turn at a time.  The strengthening relates every handler to the     *)
(* entry of its session in #active.                                        *)
(***************************************************************************)
OnceServed ==
  /\ starts = 0 => server = "none" /\ \A r \in Requests : pc[r] = "unsent"
  /\ \A r \in Requests :
       pc[r] = "reading" => /\ status[sess[r]] # "absent"
                            /\ conn[r] = "open" => server = "listening"
ReadersAlone ==
  server = "listening" =>
    \A r \in Requests : pc[r] = "reading" =>
      /\ active[sess[r]] = None
      /\ \A q \in Requests : pc[q] = "reading" /\ sess[q] = sess[r] => q = r
TurnsHold ==
  \A r \in Requests : pc[r] \in TurnPcs =>
    /\ status[sess[r]] = "running" /\ turn[sess[r]] = r
    /\ server = "listening" => active[sess[r]] = r

PatientInv == faults = 0 /\ OnceServed /\ ReadersAlone /\ TurnsHold

Benign == PatientClients /\ MaxStarts = 1 /\ MaxFaults = 0

LEMMA NoFault ==
  ASSUME Benign, TypeOK, PatientInv, NEW r, NEW ls, NEW b, NEW k
  PROVE  ~StoreThrows(r, ls, b, k)
BY DEF Benign, TypeOK, PatientInv, StoreThrows

AbstractNext == [Turns!Next]_(Turns!vars)

\* A handler leaves reading or its turn for a place outside both, and only
\* its own pc changes.
LEMMA PatientStutter ==
  ASSUME PatientInv, UNCHANGED <<server, starts, active, status, turn, sess, faults, conn>>,
         \A q \in Requests : \/ pc'[q] = pc[q]
                             \/ starts # 0 /\ pc'[q] \in {"done", "releasing"}
                             \/ pc[q] \in TurnPcs /\ pc'[q] \in TurnPcs
  PROVE  PatientInv' /\ AbstractNext
<1>1. UNCHANGED Turns!vars
  BY DEF Turns!vars
<1>2. PatientInv'
  BY DEF PatientInv, OnceServed, ReadersAlone, TurnsHold, TurnPcs
<1> QED BY <1>1, <1>2 DEF AbstractNext

LEMMA PatientLeaves ==
  ASSUME TypeOK, PatientInv, NEW r \in Requests, pc[r] # "unsent" \/ starts # 0,
         UNCHANGED <<server, starts, active, status, turn, sess, faults, conn>>,
         pc' = [pc EXCEPT ![r] = "done"]
  PROVE  PatientInv' /\ AbstractNext
<1>1. starts # 0
  BY DEF PatientInv, OnceServed
<1>2. \A q \in Requests : pc'[q] = pc[q] \/ pc'[q] = "done"
  BY DEF TypeOK
<1> QED BY <1>1, <1>2, PatientStutter

LEMMA PatientFinish ==
  ASSUME TypeOK, PatientInv, NEW r \in Requests, NEW final \in Outcomes, pc[r] \in TurnPcs,
         Finish(r, final), UNCHANGED <<server, starts, sess, faults, conn>>,
         NEW p \in {"done", "releasing"}, pc' = [pc EXCEPT ![r] = p]
  PROVE  /\ PatientInv'
         /\ Turns!End(sess[r], final)
<1>1. /\ sess[r] \in Sessions /\ starts # 0
      /\ pc'[r] = p /\ p \notin TurnPcs /\ p # "reading"
      /\ \A q \in Requests \ {r} : pc'[q] = pc[q]
  BY DEF TypeOK, PatientInv, OnceServed, TurnPcs
<1>2. /\ status[sess[r]] = "running" /\ turn[sess[r]] = r
      /\ server = "listening" => active[sess[r]] = r
  BY DEF PatientInv, TurnsHold
<1>3. /\ active'[sess[r]] = None /\ status'[sess[r]] # "absent"
      /\ \A s \in Sessions \ {sess[r]} : /\ active'[s] = active[s]
                                         /\ status'[s] = status[s]
                                         /\ turn'[s] = turn[s]
  BY <1>1 DEF Finish, TypeOK, Outcomes
<1>4. \A q \in Requests : sess[q] \in Sessions
  BY DEF TypeOK
<1>5. TurnsHold'
  <2> SUFFICES ASSUME NEW q \in Requests, pc'[q] \in TurnPcs
               PROVE  /\ status'[sess[q]] = "running" /\ turn'[sess[q]] = q
                      /\ server = "listening" => active'[sess[q]] = q
    BY DEF TurnsHold
  <2>1. q # r /\ pc[q] \in TurnPcs
    BY <1>1
  <2>2. /\ status[sess[q]] = "running" /\ turn[sess[q]] = q
        /\ server = "listening" => active[sess[q]] = q
    BY <2>1 DEF PatientInv, TurnsHold
  <2>3. sess[q] # sess[r]
    BY <1>2, <2>1, <2>2
  <2> QED BY <1>3, <1>4, <2>2, <2>3
<1>6. OnceServed'
  BY <1>1, <1>3, <1>4 DEF PatientInv, OnceServed
<1>7. ReadersAlone'
  BY <1>1, <1>3, <1>4 DEF PatientInv, ReadersAlone
<1>8. Turns!End(sess[r], final)
  BY <1>2 DEF Turns!End, Finish
<1> QED BY <1>5, <1>6, <1>7, <1>8 DEF PatientInv

LEMMA PatientBegin ==
  ASSUME TypeOK, PatientInv, NoGhostTurn, NEW r \in Requests, BodyOk(r)
  PROVE  /\ PatientInv'
         /\ Turns!Begin(sess[r], r)
<1>1. /\ sess[r] \in Sessions /\ starts # 0 /\ server = "listening"
      /\ status[sess[r]] # "absent" /\ active[sess[r]] = None
      /\ \A q \in Requests : pc[q] = "reading" /\ sess[q] = sess[r] => q = r
  BY DEF TypeOK, PatientInv, OnceServed, ReadersAlone, BodyOk
<1>2. \A q \in Requests : pc[q] \in TurnPcs => sess[q] # sess[r]
  BY <1>1, ConstantsAssumption DEF PatientInv, TurnsHold
<1>3. status[sess[r]] # "running"
  <2>1. status[sess[r]] = "running" => /\ turn[sess[r]] # None
                                       /\ sess[turn[sess[r]]] = sess[r]
                                       /\ pc[turn[sess[r]]] \in TurnPcs
    BY <1>1 DEF PatientInv, NoGhostTurn, RunningWhileLive, Live
  <2>2. turn[sess[r]] \in Requests \cup {None}
    BY <1>1 DEF TypeOK
  <2> QED BY <1>2, <2>1, <2>2
<1>4. Turns!Begin(sess[r], r)
  BY <1>1, <1>3 DEF Turns!Begin, Turns!Outcomes, BodyOk, TypeOK, Statuses, Outcomes
<1>5. /\ pc'[r] = "running" /\ \A q \in Requests \ {r} : pc'[q] = pc[q]
      /\ active'[sess[r]] = r /\ status'[sess[r]] = "running" /\ turn'[sess[r]] = r
      /\ \A s \in Sessions \ {sess[r]} : /\ active'[s] = active[s]
                                         /\ status'[s] = status[s]
                                         /\ turn'[s] = turn[s]
      /\ UNCHANGED <<server, starts, sess, faults, conn>>
  BY <1>1 DEF BodyOk, TypeOK
<1>6. \A q \in Requests : sess[q] \in Sessions
  BY DEF TypeOK
<1>7. OnceServed'
  BY <1>1, <1>5, <1>6 DEF PatientInv, OnceServed
<1>8. ReadersAlone'
  BY <1>1, <1>5, <1>6 DEF PatientInv, ReadersAlone
<1>9. TurnsHold'
  <2> SUFFICES ASSUME NEW q \in Requests, pc'[q] \in TurnPcs
               PROVE  /\ status'[sess[q]] = "running" /\ turn'[sess[q]] = q
                      /\ server = "listening" => active'[sess[q]] = q
    BY <1>5 DEF TurnsHold
  <2>1. CASE q = r
    BY <1>5, <2>1
  <2>2. CASE q # r
    BY <1>2, <1>5, <1>6, <2>2 DEF PatientInv, TurnsHold
  <2> QED BY <2>1, <2>2
<1> QED BY <1>4, <1>5, <1>7, <1>8, <1>9 DEF PatientInv

LEMMA PatientArrives ==
  ASSUME Benign, TypeOK, PatientInv, NEW r \in Requests, TurnArrives(r)
  PROVE  PatientInv'
<1>1. /\ server = "listening" /\ status[sess[r]] # "absent" /\ active[sess[r]] = None
      /\ ~ \E q \in Requests : sess[q] = sess[r] /\ pc[q] = "reading"
      /\ UNCHANGED <<server, starts, active, status, turn, sess, faults, conn>>
  BY DEF Benign, TurnArrives, Arrives, storeVars
<1>2. pc'[r] = "reading" /\ \A q \in Requests \ {r} : pc'[q] = pc[q]
  BY DEF TurnArrives, TypeOK
<1> QED BY <1>1, <1>2 DEF PatientInv, OnceServed, ReadersAlone, TurnsHold, TurnPcs

\* One step keeps PatientInv and is a step of SessionTurns or leaves its
\* variables alone.
LEMMA PatientStep ==
  ASSUME Benign, TypeOK, NoGhostTurn, PatientInv, [Next]_vars
  PROVE  PatientInv' /\ AbstractNext
<1>1. CASE UNCHANGED vars
  BY <1>1, PatientStutter DEF vars
<1>2. CASE Start
  BY <1>2 DEF Start, Benign, TypeOK, storeVars, Turns!vars, AbstractNext, PatientInv, OnceServed,
              ReadersAlone, TurnsHold, TurnPcs
<1>3. CASE Close
  <2>1. \A r \in Requests : pc[r] = "reading" => conn'[r] = "lost"
    BY <1>3 DEF Close
  <2> QED BY <1>3, <2>1 DEF Close, storeVars, Turns!vars, AbstractNext, PatientInv, OnceServed, ReadersAlone, TurnsHold
<1>4. ASSUME NEW s \in Sessions, CreateSession(s) PROVE PatientInv' /\ AbstractNext
  <2>1. Turns!Create(s)
    BY <1>4 DEF CreateSession, Turns!Create
  <2>2. \A r \in Requests : sess[r] \in Sessions
    BY DEF TypeOK
  <2>3. PatientInv'
    BY <1>4, <2>2 DEF CreateSession, TypeOK, PatientInv, OnceServed, ReadersAlone, TurnsHold
  <2> QED BY <2>1, <2>3 DEF AbstractNext, Turns!Next
<1>5. ASSUME NEW s \in Sessions, Cancel(s) PROVE PatientInv' /\ AbstractNext
  BY <1>5, PatientStutter DEF Cancel, storeVars
<1>6. ASSUME NEW r \in Requests, Handler(r) PROVE PatientInv' /\ AbstractNext
  <2>1. ASSUME NEW ls, NEW final \in Outcomes, pc[r] \in TurnPcs, WriteAndFinish(r, ls, final)
        PROVE  PatientInv' /\ AbstractNext
    <3>1. /\ Finish(r, final) /\ UNCHANGED <<server, starts, sess, faults, conn>>
          /\ pc' = [pc EXCEPT ![r] = "releasing"]
      BY <2>1, NoFault DEF WriteAndFinish
    <3>2. PatientInv' /\ Turns!End(sess[r], final) /\ sess[r] \in Sessions
      BY <2>1, <3>1, PatientFinish, ZenonT(60) DEF TypeOK
    <3> QED BY <3>2 DEF AbstractNext, Turns!Next, Turns!Outcomes, Outcomes
  <2>2. ASSUME pc[r] \in TurnPcs, Catch(r) PROVE PatientInv' /\ AbstractNext
    <3>1. /\ Finish(r, "failed") /\ UNCHANGED <<server, starts, sess, faults, conn>>
          /\ pc' = [pc EXCEPT ![r] = "done"]
      BY <2>2, NoFault DEF Catch
    <3>2. PatientInv' /\ Turns!End(sess[r], "failed") /\ sess[r] \in Sessions
      BY <2>2, <3>1, PatientFinish, LineTypes, ZenonT(60) DEF TypeOK
    <3> QED BY <3>2 DEF AbstractNext, Turns!Next, Turns!Outcomes
  <2>3. ASSUME NEW ls, pc[r] \in TurnPcs, WriteAndWait(r, ls) PROVE PatientInv' /\ AbstractNext
    <3>1. /\ UNCHANGED <<server, starts, active, status, turn, sess, faults, conn>>
          /\ pc' = [pc EXCEPT ![r] = "waiting"]
      BY <2>3, NoFault DEF WriteAndWait
    <3>2. \A q \in Requests : q # r => pc'[q] = pc[q]
      BY <3>1 DEF TypeOK
    <3>3. pc'[r] \in TurnPcs
      BY <3>1 DEF TypeOK, TurnPcs
    <3> QED BY <2>3, <3>1, <3>2, <3>3, PatientStutter
  <2>4. CASE TurnNotFound(r) \/ TurnBusy(r) \/ BodyBad(r)
    <3>1. Refuse(r, 400) \/ Refuse(r, 404) \/ Refuse(r, 409)
      BY <2>4 DEF TurnNotFound, TurnBusy, BodyBad
    <3>2. UNCHANGED <<server, starts, active, status, turn, sess, faults, conn>>
      BY <3>1 DEF Refuse, storeVars
    <3>3. pc' = [pc EXCEPT ![r] = "done"] /\ (pc[r] # "unsent" \/ starts # 0)
      BY <2>4, <3>1 DEF TurnNotFound, TurnBusy, BodyBad, Arrives, Refuse, PatientInv, OnceServed
    <3> QED BY <3>2, <3>3, PatientLeaves
  <2>5. CASE TurnArrives(r)
    BY <2>5, PatientArrives DEF TurnArrives, storeVars, Turns!vars, AbstractNext
  <2>6. CASE BodyOk(r)
    BY <2>6, PatientBegin DEF AbstractNext, Turns!Next, TypeOK
  <2>7. CASE BodyOkStoreFails(r)
    BY <2>7 DEF BodyOkStoreFails, Benign, TypeOK, PatientInv
  <2>8. CASE RunnerStarts(r) \/ NextEvent(r)
    BY <2>1, <2>3, <2>8, LineTypes DEF RunnerStarts, NextEvent, TurnPcs
  <2>9. CASE RunnerThrows(r) \/ Unwound(r)
    BY <2>2, <2>9 DEF RunnerThrows, Unwound, TurnPcs
  <2>10. CASE NextTerminal(r) \/ NextThrows(r) \/ NextDone(r) \/ AbortWins(r)
    BY <2>1, <2>10, LineTypes DEF NextTerminal, NextThrows, NextDone, AbortWins, TurnPcs
  <2>11. CASE Released(r)
    BY <2>11, PatientLeaves DEF Released, storeVars
  <2>12. CASE Disconnect(r)
    BY <2>12 DEF Disconnect, TypeOK, storeVars, Turns!vars, AbstractNext, PatientInv, OnceServed, ReadersAlone, TurnsHold
  <2>13. CASE NoticeClose(r)
    BY <2>13, PatientStutter DEF NoticeClose, storeVars
  <2> QED BY <1>6, <2>4, <2>5, <2>6, <2>7, <2>8, <2>9, <2>10, <2>11, <2>12, <2>13 DEF Handler
<1> QED BY <1>1, <1>2, <1>3, <1>4, <1>5, <1>6 DEF Next

LEMMA PatientInit == Init => PatientInv /\ Turns!Init
BY DEF Init, PatientInv, OnceServed, ReadersAlone, TurnsHold, TurnPcs, Turns!Init

LEMMA PatientAlways == ASSUME Benign PROVE Spec => []PatientInv
<1>1. TypeOK /\ NoGhostTurn /\ PatientInv /\ [Next]_vars => PatientInv'
  BY PatientStep
<1> QED BY <1>1, PatientInit, TypeCorrect, NoGhost, PTL DEF Spec

\* For patient clients, cancel reaches every running turn (server.ts:481).
THEOREM CancelReaches == ASSUME Benign PROVE Spec => []CancelReachesTurn
<1>1. PatientInv => CancelReachesTurn
  BY DEF PatientInv, TurnsHold, CancelReachesTurn, Live
<1> QED BY <1>1, PatientAlways, PTL

\* For patient clients, a session has one running turn (server.ts:675).
THEOREM SingleTurn == ASSUME Benign PROVE Spec => []SingleTurnPerSession
<1>1. PatientInv => SingleTurnPerSession
  BY DEF PatientInv, TurnsHold, SingleTurnPerSession, Live
<1> QED BY <1>1, PatientAlways, PTL

\* For patient clients, the server implements one turn at a time.
THEOREM Implementation == ASSUME Benign PROVE Spec => ImplementsSessionTurns
<1>1. Init => Turns!Init
  BY PatientInit
<1>2. TypeOK /\ NoGhostTurn /\ PatientInv /\ [Next]_vars => [Turns!Next]_(Turns!vars)
  BY PatientStep DEF AbstractNext
<1> QED BY <1>1, <1>2, TypeCorrect, NoGhost, PatientAlways, PTL
        DEF Spec, ImplementsSessionTurns, Turns!Spec

(***************************************************************************)
(* At most one terminal line, and nothing after it.  The strengthening: a  *)
(* handler that may still emit without looking has written no terminal     *)
(* line.                                                                   *)
(***************************************************************************)
Clean(o)  == \A i \in 1 .. Len(o) : o[i] \notin Terminals
Closed(o) == \A i \in 1 .. Len(o) - 1 : o[i] \notin Terminals

LinesInv ==
  \A r \in Requests :
    /\ Closed(out[r])
    /\ pc[r] \notin {"releasing", "unwinding", "done"} => Clean(out[r])

LEMMA ConcatLines ==
  ASSUME NEW o \in Seq(Events), NEW ls \in Seq(Events), Clean(o)
  PROVE  /\ Closed(ls) => Closed(o \o ls)
         /\ Clean(ls) => Clean(o \o ls)
<1>1. /\ Len(o) \in Nat /\ Len(ls) \in Nat /\ Len(o \o ls) = Len(o) + Len(ls)
      /\ \A i \in 1 .. Len(o) + Len(ls) :
           (o \o ls)[i] = IF i <= Len(o) THEN o[i] ELSE ls[i - Len(o)]
  BY LenProperties, ConcatProperties
<1>2. ASSUME Closed(ls), NEW i \in 1 .. Len(o \o ls) - 1 PROVE (o \o ls)[i] \notin Terminals
  BY <1>1, <1>2 DEF Clean, Closed
<1>3. ASSUME Clean(ls), NEW i \in 1 .. Len(o \o ls) PROVE (o \o ls)[i] \notin Terminals
  BY <1>1, <1>3 DEF Clean
<1> QED BY <1>2, <1>3 DEF Clean, Closed

LEMMA PrefixLines ==
  ASSUME NEW ls \in Seq(Events), Closed(ls), NEW k \in 1 .. Len(ls) + 1
  PROVE  Closed(SubSeq(ls, 1, k - 1))
<1>1. Len(ls) \in Nat /\ \A i \in 1 .. k - 1 : ls[i] \in Events
  BY LenProperties
<1>2. /\ Len(SubSeq(ls, 1, k - 1)) = IF 1 <= k - 1 THEN k - 1 ELSE 0
      /\ \A i \in 1 .. k - 1 : SubSeq(ls, 1, k - 1)[i] = ls[i]
  BY <1>1, SubSeqProperties, 1 \in Int, k - 1 \in Int
<1> QED BY <1>1, <1>2 DEF Closed

\* Lines emitted by a handler that has written no terminal one, the store
\* failing at any of them.
LEMMA EmitLines ==
  ASSUME TypeOK, LinesInv, NEW r \in Requests, Clean(out[r]), NEW ls \in Seq(Events), Closed(ls),
         \/ Emit(r, ls)
         \/ \E b \in BOOLEAN, k \in 1 .. Len(ls) + 1 : StoreThrows(r, ls, b, k)
  PROVE  /\ Closed(out'[r])
         /\ Clean(ls) /\ Emit(r, ls) => Clean(out'[r])
         /\ \A q \in Requests \ {r} : out'[q] = out[q]
<1>0. out \in [Requests -> Seq(Events)]
  BY DEF TypeOK
<1>1. out[r] \in Seq(Events)
  BY <1>0
<1>2. CASE Emit(r, ls)
  <2>1. out' = [out EXCEPT ![r] = @ \o ls]
    BY <1>2 DEF Emit
  <2>2. out'[r] = out[r] \o ls
    BY <1>0, <2>1
  <2>3. \A q \in Requests \ {r} : out'[q] = out[q]
    BY <1>0, <2>1
  <2> QED BY <1>1, <2>2, <2>3, ConcatLines
<1>3. CASE ~Emit(r, ls)
  <2>1. PICK b \in BOOLEAN, k \in 1 .. Len(ls) + 1 : StoreThrows(r, ls, b, k)
    BY <1>3
  <2> DEFINE pre == SubSeq(ls, 1, k - 1)
  <2>2. pre \in Seq(Events) /\ Closed(pre)
    BY PrefixType, PrefixLines
  <2>3. Emit(r, pre)
    BY <2>1 DEF StoreThrows
  <2> HIDE DEF pre
  <2>5. out' = [out EXCEPT ![r] = @ \o pre]
    BY <2>3 DEF Emit
  <2>4. out'[r] = out[r] \o pre /\ \A q \in Requests \ {r} : out'[q] = out[q]
    BY <1>0, <2>5
  <2> QED BY <1>1, <1>3, <2>2, <2>4, ConcatLines
<1> QED BY <1>2, <1>3

LEMMA ShortLines ==
  /\ Clean(<<>>) /\ Closed(<<>>) /\ Clean(<<"delta">>) /\ Closed(<<"delta">>)
  /\ Closed(<<"aborted">>) /\ Closed(<<"failed">>) /\ Closed(<<"delta", "aborted">>)
  /\ \A e \in Terminals : Closed(<<e>>)
BY DEF Clean, Closed, Terminals

LEMMA LinesWait ==
  ASSUME TypeOK, LinesInv, NEW r \in Requests, pc[r] \in {"running", "waiting"},
         NEW ls \in Seq(Events), Clean(ls), Closed(ls), WriteAndWait(r, ls)
  PROVE  LinesInv'
<1>1. Clean(out[r])
  BY DEF LinesInv
<1>2. \/ Emit(r, ls) /\ pc' = [pc EXCEPT ![r] = "waiting"]
      \/ /\ \E k \in 1 .. Len(ls) + 1 : StoreThrows(r, ls, FALSE, k)
         /\ pc' = [pc EXCEPT ![r] = "unwinding"]
  <2>1. 1 .. Len(ls) \subseteq 1 .. Len(ls) + 1
    BY LenProperties
  <2> QED BY <2>1 DEF WriteAndWait
<1>3. /\ Closed(out'[r])
      /\ Emit(r, ls) => Clean(out'[r])
      /\ \A q \in Requests \ {r} : out'[q] = out[q]
  BY <1>1, <1>2, EmitLines
<1>6. DOMAIN pc = Requests
  BY DEF TypeOK
<1>7. PICK p : pc' = [pc EXCEPT ![r] = p]
  BY <1>2
<1>4. \A q \in Requests \ {r} : pc'[q] = pc[q]
  BY <1>7
<1>5. pc'[r] = "unwinding" \/ Clean(out'[r])
  BY <1>2, <1>3, <1>6
<1> QED BY <1>3, <1>4, <1>5 DEF LinesInv

LEMMA LinesEnd ==
  ASSUME TypeOK, LinesInv, NEW r \in Requests, Clean(out[r]),
         NEW ls \in Seq(Events), Closed(ls),
         \/ Emit(r, ls)
         \/ \E k \in 1 .. Len(ls) + 1 : StoreThrows(r, ls, TRUE, k),
         NEW p \in {"releasing", "unwinding", "done"}, pc' = [pc EXCEPT ![r] = p]
  PROVE  LinesInv'
<1>1. Closed(out'[r]) /\ \A q \in Requests \ {r} : out'[q] = out[q]
  BY EmitLines
<1>2. pc'[r] = p /\ \A q \in Requests \ {r} : pc'[q] = pc[q]
  BY DEF TypeOK
<1> QED BY <1>1, <1>2 DEF LinesInv

LEMMA LinesFinish ==
  ASSUME TypeOK, LinesInv, NEW r \in Requests, pc[r] \in {"running", "waiting"},
         NEW ls \in Seq(Events), Closed(ls), NEW final, WriteAndFinish(r, ls, final)
  PROVE  LinesInv'
<1>1. Clean(out[r])
  BY DEF LinesInv
<1>2. \/ Emit(r, ls)
      \/ \E k \in 1 .. Len(ls) + 1 : StoreThrows(r, ls, TRUE, k)
  BY DEF WriteAndFinish
<1>3. pc' = [pc EXCEPT ![r] = "releasing"] \/ pc' = [pc EXCEPT ![r] = "unwinding"]
  BY DEF WriteAndFinish
<1> QED BY <1>1, <1>2, <1>3, LinesEnd

LEMMA LinesCatch ==
  ASSUME TypeOK, LinesInv, NEW r \in Requests, pc[r] \in {"running", "unwinding"}, Catch(r)
  PROVE  LinesInv'
<1>1. pc' = [pc EXCEPT ![r] = "done"]
  BY DEF Catch
<1>2. out[r] \in Seq(Events) /\ Closed(out[r])
  BY DEF TypeOK, LinesInv
<1>3. CASE SawTerminal(r)
  <2>1. out' = [out EXCEPT ![r] = out[r] \o <<>>]
    <3>1. \/ Emit(r, <<>>)
          \/ \E k \in 1 .. Len(<<>>) + 1 : StoreThrows(r, <<>>, TRUE, k)
      BY <1>3 DEF Catch
    <3>2. ASSUME NEW k \in 1 .. Len(<<>>) + 1, StoreThrows(r, <<>>, TRUE, k) PROVE Emit(r, <<>>)
      <4>1. k = 1 /\ SubSeq(<<>>, 1, k - 1) = <<>>
        BY SubSeqEmpty
      <4> QED BY <3>2, <4>1 DEF StoreThrows
    <3> QED BY <3>1, <3>2 DEF Emit
  <2>2. \A q \in Requests : out'[q] = out[q]
    BY <1>2, <2>1, ConcatEmptySeq DEF TypeOK
  <2>3. \A q \in Requests : pc'[q] = pc[q] \/ pc'[q] = "done"
    BY <1>1 DEF TypeOK
  <2> QED BY <2>2, <2>3 DEF LinesInv
<1>4. CASE ~SawTerminal(r)
  <2>1. Clean(out[r])
    BY <1>2, <1>4, LenProperties, EmptySeq DEF SawTerminal, Clean, Closed
  <2>2. \/ Emit(r, <<"failed">>)
        \/ \E k \in 1 .. Len(<<"failed">>) + 1 : StoreThrows(r, <<"failed">>, TRUE, k)
    BY <1>4 DEF Catch
  <2> QED BY <1>1, <2>1, <2>2, LineTypes, ShortLines, LinesEnd
<1> QED BY <1>3, <1>4

\* A handler that writes nothing and does not move back into its turn.
LEMMA LinesStutter ==
  ASSUME TypeOK, LinesInv, UNCHANGED out,
         \A q \in Requests : \/ pc'[q] = pc[q]
                             \/ pc'[q] \in {"reading", "running"} /\ pc[q] \in {"unsent", "reading"}
                             \/ pc'[q] = "done"
  PROVE  LinesInv'
BY DEF LinesInv

LEMMA LinesAlways == Spec => []LinesInv
<1>1. Init => LinesInv
  BY DEF Init, LinesInv, Clean, Closed
<1>2. TypeOK /\ LinesInv /\ [Next]_vars => LinesInv'
  <2> SUFFICES ASSUME TypeOK, LinesInv, [Next]_vars PROVE LinesInv'
    OBVIOUS
  <2>1. CASE Start \/ Close \/ UNCHANGED vars
    BY <2>1, LinesStutter DEF Start, Close, vars
  <2>2. ASSUME NEW s \in Sessions, CreateSession(s) \/ Cancel(s) PROVE LinesInv'
    BY <2>2, LinesStutter DEF CreateSession, Cancel
  <2>3. ASSUME NEW r \in Requests, Handler(r) PROVE LinesInv'
    <3>1. ASSUME NEW p, pc' = [pc EXCEPT ![r] = p], UNCHANGED out,
                 p = "done" \/ (p \in {"reading", "running"} /\ pc[r] \in {"unsent", "reading"})
          PROVE  LinesInv'
      BY <3>1, LinesStutter DEF TypeOK
    <3>2. CASE TurnNotFound(r) \/ TurnBusy(r) \/ BodyBad(r) \/ Released(r) \/ BodyOkStoreFails(r)
      <4>1. pc' = [pc EXCEPT ![r] = "done"] /\ UNCHANGED out
        BY <3>2 DEF TurnNotFound, TurnBusy, BodyBad, Refuse, Released, BodyOkStoreFails
      <4> QED BY <4>1, LinesStutter DEF TypeOK
    <3>3. CASE TurnArrives(r) \/ BodyOk(r)
      BY <3>1, <3>3 DEF TurnArrives, Arrives, BodyOk
    <3>4. CASE RunnerStarts(r) \/ NextEvent(r)
      BY <3>4, LineTypes, ShortLines, LinesWait, LinesFinish DEF RunnerStarts, NextEvent
    <3>5. CASE RunnerThrows(r) \/ Unwound(r)
      BY <3>5, LinesCatch DEF RunnerThrows, Unwound
    <3>6. CASE NextTerminal(r) \/ NextThrows(r) \/ NextDone(r) \/ AbortWins(r)
      BY <3>6, LineTypes, ShortLines, LinesFinish DEF NextTerminal, NextThrows, NextDone, AbortWins
    <3>7. CASE Disconnect(r) \/ NoticeClose(r)
      BY <3>7, LinesStutter DEF Disconnect, NoticeClose
    <3> QED BY <2>3, <3>2, <3>3, <3>4, <3>5, <3>6, <3>7 DEF Handler
  <2> QED BY <2>1, <2>2, <2>3 DEF Next
<1> QED BY <1>1, <1>2, TypeCorrect, PTL DEF Spec

\* A client reads at most one terminal line, and none after it (emit and
\* sawTerminal, server.ts:737).
THEOREM TerminalOnce == Spec => []OneTerminal
<1>1. LinesInv => OneTerminal
  BY DEF LinesInv, OneTerminal, Closed
<1> QED BY <1>1, LinesAlways, PTL

(***************************************************************************)
(* The runner's iterator.  The strengthening: a handler that has not got   *)
(* as far as runner.run's result has no iterator, and a handler unwinds    *)
(* only after a store call has thrown.                                     *)
(***************************************************************************)
IteratorInv ==
  \A r \in Requests :
    /\ pc[r] \in {"unsent", "reading", "running"} => iter[r] = "none"
    /\ pc[r] \in {"releasing", "unwinding", "done"} => iter[r] # "open"
    /\ pc[r] = "unwinding" => faults # 0

\* A handler that has its iterator, or has given it back, goes on to p with
\* the iterator v.
LEMMA IteratorMoves ==
  ASSUME TypeOK, IteratorInv, NEW r \in Requests,
         NEW p \in {"waiting", "releasing", "unwinding", "done"}, pc' = [pc EXCEPT ![r] = p],
         NEW v \in {"none", "open", "returned"}, iter' = [iter EXCEPT ![r] = v],
         p # "waiting" => v # "open",
         p = "unwinding" => faults' # 0, faults # 0 => faults' # 0
  PROVE  IteratorInv'
<1>1. pc'[r] = p /\ iter'[r] = v
  BY DEF TypeOK
<1>2. \A q \in Requests \ {r} : pc'[q] = pc[q] /\ iter'[q] = iter[q]
  BY DEF TypeOK
<1> QED BY <1>1, <1>2 DEF IteratorInv

LEMMA IteratorWrites ==
  ASSUME TypeOK, IteratorInv, NEW r \in Requests, NEW ls, NEW final,
         WriteAndWait(r, ls) \/ WriteAndFinish(r, ls, final)
  PROVE  IteratorInv'
<1>1. \A k, b : StoreThrows(r, ls, b, k) => faults' # 0
  BY StoreThrowsCounts
<1>2. CASE pc' = [pc EXCEPT ![r] = "waiting"]
  <2>1. iter' = [iter EXCEPT ![r] = "open"] /\ UNCHANGED faults
    <3>1. DOMAIN pc = Requests
      BY DEF TypeOK
    <3> QED BY <1>2, <3>1 DEF WriteAndWait, WriteAndFinish
  <2> QED BY <1>2, <2>1, IteratorMoves
<1>3. CASE pc' # [pc EXCEPT ![r] = "waiting"]
  <2>1. iter' = [iter EXCEPT ![r] = "returned"]
    BY <1>3 DEF WriteAndWait, WriteAndFinish, Release
  <2>2. \/ pc' = [pc EXCEPT ![r] = "releasing"] /\ UNCHANGED faults
        \/ pc' = [pc EXCEPT ![r] = "unwinding"] /\ faults' # 0
    BY <1>1, <1>3 DEF WriteAndWait, WriteAndFinish
  <2> QED BY <2>1, <2>2, IteratorMoves
<1> QED BY <1>2, <1>3

\* The handler returns, and has no iterator open.
LEMMA IteratorLeaves ==
  ASSUME TypeOK, IteratorInv, NEW r \in Requests, pc[r] # "waiting",
         pc' = [pc EXCEPT ![r] = "done"], UNCHANGED iter, faults # 0 => faults' # 0
  PROVE  IteratorInv'
<1>1. pc'[r] = "done" /\ iter'[r] # "open"
  <2>1. pc[r] \in {"unsent", "reading", "running", "releasing", "unwinding", "done"}
    BY DEF TypeOK
  <2>2. iter[r] # "open"
    BY <2>1 DEF IteratorInv
  <2>3. pc'[r] = "done"
    BY DEF TypeOK
  <2> QED BY <2>2, <2>3
<1>2. \A q \in Requests \ {r} : pc'[q] = pc[q] /\ iter'[q] = iter[q]
  BY DEF TypeOK
<1> QED BY <1>1, <1>2 DEF IteratorInv

LEMMA IteratorStep == ASSUME TypeOK, IteratorInv, [Next]_vars PROVE IteratorInv'
<1>1. CASE Start \/ Close \/ UNCHANGED vars
  BY <1>1 DEF Start, Close, vars, IteratorInv
<1>2. ASSUME NEW s \in Sessions, CreateSession(s) \/ Cancel(s) PROVE IteratorInv'
  BY <1>2 DEF CreateSession, Cancel, IteratorInv
<1>3. ASSUME NEW r \in Requests, Handler(r) PROVE IteratorInv'
  <2>1. CASE TurnNotFound(r) \/ TurnBusy(r) \/ BodyBad(r) \/ Released(r)
    BY <2>1, IteratorLeaves DEF TurnNotFound, TurnBusy, Arrives, BodyBad, Refuse, Released
  <2>2. CASE BodyOkStoreFails(r)
    <3>1. faults # 0 => faults' # 0
      BY <2>2 DEF BodyOkStoreFails, TypeOK
    <3> QED BY <2>2, <3>1, IteratorLeaves DEF BodyOkStoreFails
  <2>3. CASE TurnArrives(r) \/ BodyOk(r)
    BY <2>3 DEF TurnArrives, Arrives, BodyOk, TypeOK, IteratorInv
  <2>4. CASE RunnerStarts(r) \/ NextEvent(r) \/ NextTerminal(r) \/ NextThrows(r) \/ NextDone(r) \/ AbortWins(r)
    BY <2>4, IteratorWrites DEF RunnerStarts, NextEvent, NextTerminal, NextThrows, NextDone, AbortWins
  <2>5. CASE RunnerThrows(r) \/ Unwound(r)
    <3>1. pc[r] # "waiting" /\ Catch(r)
      BY <2>5 DEF RunnerThrows, Unwound
    <3>2. faults # 0 => faults' # 0
      BY <3>1, StoreThrowsCounts DEF Catch
    <3> QED BY <3>1, <3>2, IteratorLeaves DEF Catch
  <2>6. CASE Disconnect(r) \/ NoticeClose(r)
    BY <2>6 DEF Disconnect, NoticeClose, IteratorInv
  <2> QED BY <1>3, <2>1, <2>2, <2>3, <2>4, <2>5, <2>6 DEF Handler
<1> QED BY <1>1, <1>2, <1>3 DEF Next

LEMMA IteratorAlways == Spec => []IteratorInv
<1>1. Init => IteratorInv
  BY DEF Init, IteratorInv
<1> QED BY <1>1, IteratorStep, TypeCorrect, PTL DEF Spec

\* However a turn ends, the runner's iterator is given back (#release,
\* server.ts:845).
THEOREM IteratorComesBack == Spec => []IteratorReleased
<1>1. IteratorInv => IteratorReleased
  BY DEF IteratorInv, IteratorReleased
<1> QED BY <1>1, IteratorAlways, PTL

(***************************************************************************)
(* What a session's new status says.  Only a step that finishes a turn     *)
(* writes an outcome; before its lines the turn has written no terminal    *)
(* one (LinesInv), and while the store works no turn unwinds               *)
(* (IteratorInv), so its last line decides.                                *)
(***************************************************************************)
Told(s) ==
  \E r \in Requests :
    /\ sess[r] = s /\ Live(r) /\ ~Live(r)'
    /\ status'[s] = IF SawTerminal(r)' THEN Outcome(out'[r][Len(out'[r])])
                                       ELSE "completed"

\* A turn that writes nothing, and has written no terminal line, completes.
LEMMA SilentEnd ==
  ASSUME TypeOK, NEW r \in Requests, Live(r), ~Live(r)', UNCHANGED sess, Clean(out[r]),
         Emit(r, <<>>), Finish(r, "completed"), NEW s \in Sessions, status'[s] # status[s]
  PROVE  Told(s)
<1>1. s = sess[r] /\ status'[s] = "completed"
  BY DEF Finish, TypeOK
<1>2. out[r] \in Seq(Events) /\ out'[r] = out[r] \o <<>>
  BY DEF Emit, TypeOK
<1>3. out'[r] = out[r]
  BY <1>2, ConcatEmptySeq
<1>4. ~SawTerminal(r)'
  <2>1. out[r] # <<>> => Len(out[r]) \in 1 .. Len(out[r])
    BY <1>2, LenProperties, EmptySeq
  <2> QED BY <1>3, <2>1 DEF SawTerminal, Clean
<1> QED BY <1>1, <1>4 DEF Told

\* A turn whose last line is the terminal e has e's outcome.
LEMMA SpokenEnd ==
  ASSUME TypeOK, NEW r \in Requests, Live(r), ~Live(r)', UNCHANGED sess,
         NEW ls \in Seq(Events), ls # <<>>, NEW e \in Terminals, ls[Len(ls)] = e,
         Emit(r, ls), Finish(r, Outcome(e)), NEW s \in Sessions, status'[s] # status[s]
  PROVE  Told(s)
<1>1. s = sess[r] /\ status'[s] = Outcome(e)
  BY DEF Finish, TypeOK
<1>2. out[r] \in Seq(Events) /\ out'[r] = out[r] \o ls
  BY DEF Emit, TypeOK
<1>3. /\ Len(out[r]) \in Nat /\ Len(ls) \in Nat /\ Len(ls) # 0
      /\ Len(out'[r]) = Len(out[r]) + Len(ls)
      /\ out'[r][Len(out'[r])] = ls[Len(ls)]
  <2>1. Len(out[r]) \in Nat /\ Len(ls) \in Nat /\ Len(ls) # 0
    BY <1>2, LenProperties, EmptySeq
  <2>2. /\ Len(out[r] \o ls) = Len(out[r]) + Len(ls)
        /\ \A i \in 1 .. Len(out[r]) + Len(ls) :
             (out[r] \o ls)[i] = IF i <= Len(out[r]) THEN out[r][i] ELSE ls[i - Len(out[r])]
    BY <1>2, ConcatProperties
  <2>3. /\ Len(out[r]) + Len(ls) \in 1 .. Len(out[r]) + Len(ls)
        /\ ~(Len(out[r]) + Len(ls) <= Len(out[r]))
        /\ Len(out[r]) + Len(ls) - Len(out[r]) = Len(ls)
    BY <2>1
  <2> QED BY <1>2, <2>1, <2>2, <2>3
<1>4. out'[r] # <<>>
  BY <1>3, EmptySeq
<1>5. SawTerminal(r)'
  BY <1>3, <1>4 DEF SawTerminal
<1> QED BY <1>1, <1>3, <1>5 DEF Told

LEMMA Leaves ==
  ASSUME TypeOK, NEW r \in Requests, NEW p \in {"releasing", "unwinding", "done"},
         pc' = [pc EXCEPT ![r] = p], p # "unwinding"
  PROVE  ~Live(r)'
<1>1. pc'[r] = p
  BY DEF TypeOK
<1> QED BY <1>1 DEF Live, TurnPcs

LEMMA OutcomeStep ==
  ASSUME TypeOK, LinesInv, IteratorInv, [Next]_vars, faults' = 0,
         NEW s \in Sessions, status'[s] # status[s], status'[s] \in Outcomes
  PROVE  Told(s)
<1>1. CASE Start \/ Close \/ UNCHANGED vars
  BY <1>1 DEF Start, Close, vars, storeVars
<1>2. ASSUME NEW t \in Sessions, CreateSession(t) \/ Cancel(t) PROVE Told(s)
  BY <1>2 DEF CreateSession, Cancel, storeVars, TypeOK, Outcomes
<1>3. ASSUME NEW r \in Requests, Handler(r) PROVE Told(s)
  <2>1. \A ls, b, k : ~StoreThrows(r, ls, b, k)
    BY StoreThrowsCounts
  <2>2. Catch(r) => pc[r] # "unwinding"
    BY <2>1 DEF Catch, IteratorInv
  <2>3. CASE \/ TurnNotFound(r) \/ TurnBusy(r) \/ BodyBad(r) \/ Released(r) \/ TurnArrives(r)
             \/ BodyOkStoreFails(r) \/ Disconnect(r) \/ NoticeClose(r)
    BY <2>3 DEF TurnNotFound, TurnBusy, BodyBad, Refuse, Released, TurnArrives,
                BodyOkStoreFails, Disconnect, NoticeClose, storeVars
  <2>4. CASE BodyOk(r)
    BY <2>4 DEF BodyOk, TypeOK, Outcomes
  <2>5. ASSUME NEW ls, WriteAndWait(r, ls) PROVE Told(s)
    BY <2>1, <2>5 DEF WriteAndWait
  <2>6. ASSUME NEW ls, NEW final, WriteAndFinish(r, ls, final)
        PROVE  Emit(r, ls) /\ Finish(r, final) /\ UNCHANGED sess /\ ~Live(r)'
    BY <2>1, <2>6, Leaves DEF WriteAndFinish
  <2>7. CASE RunnerStarts(r) \/ AbortWins(r)
    <3>1. Live(r) /\ (WriteAndWait(r, <<>>) \/ WriteAndFinish(r, <<"aborted">>, "cancelled"))
      BY <2>7 DEF RunnerStarts, AbortWins, Live, TurnPcs
    <3>2. "aborted" \in Terminals /\ Outcome("aborted") = "cancelled"
      BY DEF Terminals, Outcome
    <3> QED BY <2>5, <2>6, <3>1, <3>2, SpokenEnd, LineTypes
  <2>8. CASE NextEvent(r)
    <3>1. Live(r) /\ (WriteAndWait(r, <<"delta">>) \/ WriteAndFinish(r, <<"delta", "aborted">>, "cancelled"))
      BY <2>8 DEF NextEvent, Live, TurnPcs
    <3>2. "aborted" \in Terminals /\ Outcome("aborted") = "cancelled"
      BY DEF Terminals, Outcome
    <3> QED BY <2>5, <2>6, <3>1, <3>2, SpokenEnd, LineTypes
  <2>9. CASE NextTerminal(r)
    <3>1. PICK e \in Terminals : WriteAndFinish(r, <<e>>, Outcome(e))
      BY <2>9 DEF NextTerminal
    <3>2. Live(r)
      BY <2>9 DEF NextTerminal, Live, TurnPcs
    <3> QED BY <2>6, <3>1, <3>2, SpokenEnd, LineTypes
  <2>10. CASE NextThrows(r)
    <3>1. Live(r) /\ WriteAndFinish(r, <<"failed">>, "failed")
      BY <2>10 DEF NextThrows, Live, TurnPcs
    <3>2. "failed" \in Terminals /\ Outcome("failed") = "failed"
      BY DEF Terminals, Outcome
    <3> QED BY <2>6, <3>1, <3>2, SpokenEnd, LineTypes
  <2>11. CASE NextDone(r)
    <3>1. Live(r) /\ Clean(out[r]) /\ WriteAndFinish(r, <<>>, "completed")
      BY <2>11 DEF NextDone, Live, TurnPcs, LinesInv
    <3> QED BY <2>6, <3>1, SilentEnd
  <2>12. CASE RunnerThrows(r) \/ Unwound(r)
    <3>1. pc[r] = "running" /\ Catch(r) /\ Live(r)
      BY <2>2, <2>12 DEF RunnerThrows, Unwound, Live, TurnPcs
    <3>2. ~SawTerminal(r)
      <4>1. out[r] \in Seq(Events) /\ Clean(out[r])
        BY <3>1 DEF LinesInv, TypeOK
      <4>2. out[r] # <<>> => Len(out[r]) \in 1 .. Len(out[r])
        BY <4>1, LenProperties, EmptySeq
      <4> QED BY <4>1, <4>2 DEF SawTerminal, Clean
    <3>3. Emit(r, <<"failed">>) /\ Finish(r, "failed") /\ UNCHANGED sess
          /\ pc' = [pc EXCEPT ![r] = "done"]
      BY <2>1, <3>1, <3>2 DEF Catch
    <3>4. "failed" \in Terminals /\ Outcome("failed") = "failed"
      BY DEF Terminals, Outcome
    <3>5. ~Live(r)'
      BY <3>3, Leaves
    <3> QED BY <3>1, <3>3, <3>4, <3>5, SpokenEnd, LineTypes
  <2> QED BY <1>3, <2>3, <2>4, <2>7, <2>8, <2>9, <2>10, <2>11, <2>12 DEF Handler
<1> QED BY <1>1, <1>2, <1>3 DEF Next

\* The outcome a session shows is what the finishing turn's client was told
\* by its last line (finish and sawTerminal, server.ts:737-760).
THEOREM OutcomeIsTold == Spec => StatusTellsOutcome
<1>1. TypeOK /\ LinesInv /\ IteratorInv /\ [Next]_vars =>
        [\A s \in Sessions : faults' = 0 /\ status'[s] # status[s] /\ status'[s] \in Outcomes
           => Told(s)]_vars
  BY OutcomeStep
<1> QED BY <1>1, TypeCorrect, LinesAlways, IteratorAlways, PTL DEF Spec, StatusTellsOutcome, Told

(***************************************************************************)
(* The log.  Every step appends the same lines to the session's log and to *)
(* the client's stream, or leaves both alone.                              *)
(***************************************************************************)
\* What a step does to the two.
LEMMA StepEmits ==
  ASSUME TypeOK, [Next]_vars
  PROVE  /\ UNCHANGED sess
         /\ \/ UNCHANGED <<events, out>>
            \/ \E r \in Requests, ls \in Seq(Events) : Emit(r, ls)
<1>1. CASE Start \/ Close \/ UNCHANGED vars
  BY <1>1 DEF Start, Close, vars, storeVars
<1>2. ASSUME NEW s \in Sessions, CreateSession(s) \/ Cancel(s)
      PROVE  UNCHANGED <<sess, events, out>>
  BY <1>2 DEF CreateSession, Cancel, storeVars
<1>3. ASSUME NEW r \in Requests, Handler(r)
      PROVE  UNCHANGED sess /\ (UNCHANGED <<events, out>> \/ \E ls \in Seq(Events) : Emit(r, ls))
  <2>1. ASSUME NEW ls \in Seq(Events), NEW b \in BOOLEAN, NEW k, StoreThrows(r, ls, b, k)
        PROVE  \E l \in Seq(Events) : Emit(r, l)
    <3>1. k \in 1 .. Len(ls) + 1
      BY <2>1, LenProperties DEF StoreThrows
    <3>2. SubSeq(ls, 1, k - 1) \in Seq(Events)
      BY <3>1, PrefixType
    <3> QED BY <2>1, <3>2 DEF StoreThrows
  <2>2. ASSUME NEW ls \in Seq(Events), NEW final, WriteAndWait(r, ls) \/ WriteAndFinish(r, ls, final)
        PROVE  UNCHANGED sess /\ \E l \in Seq(Events) : Emit(r, l)
    BY <2>1, <2>2 DEF WriteAndWait, WriteAndFinish
  <2>3. ASSUME Catch(r) PROVE UNCHANGED sess /\ \E l \in Seq(Events) : Emit(r, l)
    <3> DEFINE ls == IF SawTerminal(r) THEN <<>> ELSE <<"failed">>
    <3>1. ls \in Seq(Events)
      BY LineTypes
    <3>2. /\ Emit(r, ls) \/ \E k \in 1 .. Len(ls) + 1 : StoreThrows(r, ls, TRUE, k)
          /\ UNCHANGED sess
      BY <2>3 DEF Catch
    <3> HIDE DEF ls
    <3> QED BY <2>1, <3>1, <3>2
  <2>4. CASE TurnNotFound(r) \/ TurnBusy(r) \/ BodyBad(r) \/ Released(r) \/ TurnArrives(r) \/ BodyOk(r)
    BY <2>4 DEF TurnNotFound, TurnBusy, BodyBad, Refuse, Released, TurnArrives, BodyOk, storeVars
  <2>5. CASE BodyOkStoreFails(r) \/ Disconnect(r) \/ NoticeClose(r)
    BY <2>5 DEF BodyOkStoreFails, Disconnect, NoticeClose, storeVars
  <2>6. CASE RunnerStarts(r) \/ NextEvent(r) \/ NextTerminal(r) \/ NextThrows(r) \/ NextDone(r) \/ AbortWins(r)
    BY <2>2, <2>6, LineTypes DEF RunnerStarts, NextEvent, NextTerminal, NextThrows, NextDone, AbortWins
  <2>7. CASE RunnerThrows(r) \/ Unwound(r)
    BY <2>3, <2>7 DEF RunnerThrows, Unwound
  <2> QED BY <1>3, <2>4, <2>5, <2>6, <2>7 DEF Handler
<1> QED BY <1>1, <1>2, <1>3 DEF Next

\* The entries of one turn among the first i, in a log that grows by the
\* lines ls of the turn r.
LEMMA UptoFinite ==
  ASSUME NEW log, NEW r, NEW i \in Nat
  PROVE  IsFiniteSet(Upto(log, r, i)) /\ Cardinality(Upto(log, r, i)) \in Nat
<1>1. Upto(log, r, i) \in SUBSET (1 .. i)
  BY DEF Upto
<1>2. IsFiniteSet(1 .. i)
  BY FS_Interval, 1 \in Int, i \in Int
<1>3. IsFiniteSet(Upto(log, r, i))
  BY <1>1, <1>2, FS_Subset
<1> QED BY <1>3, FS_CardinalityType

LEMMA IntervalSize ==
  ASSUME NEW a \in Nat, NEW n \in Nat
  PROVE  IsFiniteSet((a + 1) .. (a + n)) /\ Cardinality((a + 1) .. (a + n)) = n
<1>1. \A x, y \in Int : /\ IsFiniteSet(x .. y)
                        /\ Cardinality(x .. y) = IF x > y THEN 0 ELSE y - x + 1
  BY FS_Interval
<1>2. a + 1 \in Int /\ a + n \in Int
  OBVIOUS
<1>3. (IF a + 1 > a + n THEN 0 ELSE a + n - (a + 1) + 1) = n
  OBVIOUS
<1> QED BY <1>1, <1>2, <1>3

Entries(r, ls) == [i \in 1 .. Len(ls) |-> [turn |-> r, event |-> ls[i]]]

LEMMA LogGrows ==
  ASSUME NEW log \in Seq(LogEntries), NEW r \in Requests, NEW ls \in Seq(Events)
  PROVE  LET new == log \o Entries(r, ls) IN
         /\ Len(log) \in Nat /\ Len(ls) \in Nat
         /\ Len(new) = Len(log) + Len(ls)
         /\ \A i \in 1 .. Len(log) : new[i] = log[i]
         /\ \A i \in 1 .. Len(ls) : new[Len(log) + i] = [turn |-> r, event |-> ls[i]]
<1>1. Len(log) \in Nat /\ Len(ls) \in Nat
  BY LenProperties
<1>2. \A i \in 1 .. Len(ls) : [turn |-> r, event |-> ls[i]] \in LogEntries
  BY ElementOfSeq DEF LogEntries
<1>3. Entries(r, ls) \in Seq(LogEntries) /\ Len(Entries(r, ls)) = Len(ls)
  BY <1>1, <1>2 DEF Entries
<1>4. \A i \in 1 .. Len(ls) : Entries(r, ls)[i] = [turn |-> r, event |-> ls[i]]
  BY DEF Entries
<1>5. /\ Len(log \o Entries(r, ls)) = Len(log) + Len(Entries(r, ls))
      /\ \A i \in 1 .. Len(log) + Len(Entries(r, ls)) :
           (log \o Entries(r, ls))[i] = IF i <= Len(log) THEN log[i] ELSE Entries(r, ls)[i - Len(log)]
  BY <1>3, ConcatProperties
<1>6. ASSUME NEW i \in 1 .. Len(ls)
      PROVE  (log \o Entries(r, ls))[Len(log) + i] = Entries(r, ls)[i]
  <2>1. Len(log) + i \in 1 .. Len(log) + Len(Entries(r, ls)) /\ ~(Len(log) + i <= Len(log))
        /\ Len(log) + i - Len(log) = i
    BY <1>1, <1>3
  <2> QED BY <1>5, <2>1
<1>7. ASSUME NEW i \in 1 .. Len(log) PROVE (log \o Entries(r, ls))[i] = log[i]
  BY <1>1, <1>3, <1>5
<1> QED BY <1>1, <1>3, <1>4, <1>5, <1>6, <1>7

\* The turn that writes: its new entries are its new lines.
LEMMA OwnLogGrows ==
  ASSUME NEW log \in Seq(LogEntries), NEW r \in Requests, NEW ls \in Seq(Events),
         NEW lines \in Seq(Events), LogShows(log, r, lines)
  PROVE  LogShows(log \o Entries(r, ls), r, lines \o ls)
<1> DEFINE new == log \o Entries(r, ls)
           L == Len(log)
           n == Len(ls)
<1>1. /\ L \in Nat /\ n \in Nat /\ Len(new) = L + n
      /\ \A i \in 1 .. L : new[i] = log[i]
      /\ \A i \in 1 .. n : new[L + i] = [turn |-> r, event |-> ls[i]]
  BY LogGrows
<1>2. /\ Len(lines) \in Nat /\ Len(lines \o ls) = Len(lines) + n
      /\ \A c \in 1 .. Len(lines) : (lines \o ls)[c] = lines[c]
      /\ \A c \in 1 .. n : (lines \o ls)[Len(lines) + c] = ls[c]
  <2>1. /\ Len(lines) \in Nat /\ Len(ls) \in Nat /\ Len(lines \o ls) = Len(lines) + Len(ls)
        /\ \A i \in 1 .. Len(lines) + Len(ls) :
             (lines \o ls)[i] = IF i <= Len(lines) THEN lines[i] ELSE ls[i - Len(lines)]
    BY LenProperties, ConcatProperties
  <2>2. ASSUME NEW c \in 1 .. n PROVE (lines \o ls)[Len(lines) + c] = ls[c]
    <3>1. Len(lines) + c \in 1 .. Len(lines) + Len(ls) /\ ~(Len(lines) + c <= Len(lines))
          /\ Len(lines) + c - Len(lines) = c
      BY <2>1
    <3> QED BY <2>1, <3>1
  <2> QED BY <2>1, <2>2
<1>3. ASSUME NEW i \in 1 .. L PROVE Upto(new, r, i) = Upto(log, r, i)
  BY <1>1, <1>3 DEF Upto
<1> HIDE DEF new
<1>4. ASSUME NEW i \in 0 .. n
      PROVE  Upto(new, r, L + i) = Upto(log, r, L) \cup ((L + 1) .. (L + i))
  <2>1. ASSUME NEW j, j \in Upto(new, r, L + i) PROVE j \in Upto(log, r, L) \cup ((L + 1) .. (L + i))
    BY <1>1, <2>1 DEF Upto
  <2>2. ASSUME NEW j \in Upto(log, r, L) PROVE j \in Upto(new, r, L + i)
    BY <1>1 DEF Upto
  <2>3. ASSUME NEW j \in (L + 1) .. (L + i) PROVE j \in Upto(new, r, L + i)
    <3>1. j - L \in 1 .. n /\ L + (j - L) = j /\ j \in 1 .. L + i
      BY <1>1
    <3>2. new[j] = [turn |-> r, event |-> ls[j - L]]
      BY <1>1, <3>1
    <3> QED BY <3>1, <3>2 DEF Upto
  <2> QED BY <2>1, <2>2, <2>3
<1>5. ASSUME NEW i \in 0 .. n
      PROVE  Cardinality(Upto(new, r, L + i)) = Len(lines) + i
  <2> DEFINE old == Upto(log, r, L)
             add == (L + 1) .. (L + i)
  <2>1. IsFiniteSet(old) /\ Cardinality(old) = Len(lines)
    BY <1>1, UptoFinite DEF LogShows
  <2>2. IsFiniteSet(add) /\ Cardinality(add) = i
    <3>1. i \in Nat
      BY <1>1
    <3> QED BY <1>1, <3>1, IntervalSize
  <2>3. old \cap add = {}
    BY <1>1 DEF Upto
  <2> HIDE DEF old, add
  <2>4. Cardinality(old \cup add) = Cardinality(old) + Cardinality(add) - Cardinality(old \cap add)
    BY <2>1, <2>2, FS_Union
  <2>5. Cardinality(old \cup add) = Len(lines) + i
    <3>1. Cardinality(old \cap add) = 0
      BY <2>3, FS_EmptySet
    <3>2. Cardinality(old \cup add) = Len(lines) + i - 0
      BY <2>1, <2>2, <2>4, <3>1
    <3>3. Len(lines) + i \in Nat
      BY <1>1, <1>2
    <3> QED BY <3>2, <3>3
  <2> QED BY <1>4, <2>5 DEF old, add
<1>6. Cardinality(Upto(new, r, Len(new))) = Len(lines \o ls)
  <2>1. n \in 0 .. n
    BY <1>1
  <2> QED BY <1>1, <1>2, <1>5, <2>1
<1>7. ASSUME NEW i \in Upto(new, r, Len(new))
      PROVE  new[i].event = (lines \o ls)[Cardinality(Upto(new, r, i))]
  <2>0. i \in 1 .. L + n
    BY <1>1 DEF Upto
  <2>1. CASE i \in 1 .. L
    <3>1. i \in Upto(log, r, L) /\ i \in Upto(log, r, i)
      BY <1>1, <2>1 DEF Upto
    <3>2. Upto(log, r, i) \in SUBSET Upto(log, r, L)
      BY <1>1, <2>1 DEF Upto
    <3> DEFINE few == Upto(log, r, i)
               all == Upto(log, r, L)
    <3>3. IsFiniteSet(few) /\ Cardinality(few) \in Nat /\ IsFiniteSet(all)
      <4>1. i \in Nat /\ L \in Nat
        BY <1>1, <2>1
      <4> HIDE DEF L
      <4> QED BY <4>1, UptoFinite
    <3>5. i \in few /\ few \in SUBSET all /\ Cardinality(all) = Len(lines)
      BY <3>1, <3>2 DEF LogShows
    <3> HIDE DEF few, all
    <3>6. Cardinality(few) <= Len(lines) /\ Cardinality(few) # 0
      BY <3>3, <3>5, FS_Subset, FS_EmptySet
    <3>4. Cardinality(few) \in 1 .. Len(lines)
      BY <1>2, <3>3, <3>6
    <3>7. new[i] = log[i] /\ Upto(new, r, i) = few
      BY <1>1, <1>3, <2>1 DEF few
    <3>8. log[i].event = lines[Cardinality(few)]
      BY <3>1 DEF LogShows, few
    <3> QED BY <1>2, <3>4, <3>7, <3>8
  <2>2. CASE i \notin 1 .. L
    <3>1. i - L \in 1 .. n /\ L + (i - L) = i
      BY <1>1, <2>0, <2>2
    <3>2. PICK j \in 1 .. n : i = L + j
      BY <3>1
    <3>3. new[i] = [turn |-> r, event |-> ls[j]]
      BY <1>1, <3>2
    <3>4. Cardinality(Upto(new, r, i)) = Len(lines) + j
      BY <1>5, <3>2
    <3> QED BY <1>2, <3>3, <3>4
  <2> QED BY <2>1, <2>2
<1>8. LogShows(new, r, lines \o ls)
  BY <1>6, <1>7 DEF LogShows
<1> QED BY <1>8 DEF new

\* Another turn: the log shows of it what it showed.
LEMMA OtherLogStays ==
  ASSUME NEW log \in Seq(LogEntries), NEW r \in Requests, NEW ls \in Seq(Events),
         NEW q, q # r, NEW lines, LogShows(log, q, lines)
  PROVE  LogShows(log \o Entries(r, ls), q, lines)
<1> DEFINE new == log \o Entries(r, ls)
           L == Len(log)
           n == Len(ls)
<1>1. /\ L \in Nat /\ n \in Nat /\ Len(new) = L + n
      /\ \A i \in 1 .. L : new[i] = log[i]
      /\ \A i \in 1 .. n : new[L + i] = [turn |-> r, event |-> ls[i]]
  BY LogGrows
<1> HIDE DEF new
<1>2. ASSUME NEW i \in 1 .. L PROVE Upto(new, q, i) = Upto(log, q, i)
  BY <1>1, <1>2 DEF Upto
<1>3. Upto(new, q, Len(new)) = Upto(log, q, L)
  <2>1. ASSUME NEW j \in (L + 1) .. (L + n) PROVE new[j].turn = r
    <3>1. j - L \in 1 .. n /\ L + (j - L) = j
      BY <1>1
    <3>2. new[j] = [turn |-> r, event |-> ls[j - L]]
      BY <1>1, <3>1
    <3> QED BY <3>2
  <2>2. ASSUME NEW j, j \in Upto(new, q, L + n) PROVE j \in Upto(log, q, L)
    <3>1. j \in 1 .. L + n /\ new[j].turn = q
      BY <2>2 DEF Upto
    <3>2. j \notin (L + 1) .. (L + n)
      BY <2>1, <3>1
    <3>3. j \in 1 .. L
      BY <1>1, <3>1, <3>2
    <3> QED BY <1>1, <3>1, <3>3 DEF Upto
  <2>3. ASSUME NEW j \in Upto(log, q, L) PROVE j \in Upto(new, q, L + n)
    BY <1>1 DEF Upto
  <2> QED BY <1>1, <2>2, <2>3
<1>4. \A i \in Upto(log, q, L) : i \in 1 .. L
  BY DEF Upto
<1>5. LogShows(new, q, lines)
  BY <1>1, <1>2, <1>3, <1>4 DEF LogShows
<1> QED BY <1>5 DEF new

LEMMA LogStep ==
  ASSUME TypeOK, LogMatchesStreams, [Next]_vars
  PROVE  LogMatchesStreams'
<1>1. UNCHANGED sess /\ \A q \in Requests : sess[q] \in Sessions
  BY StepEmits DEF TypeOK
<1>2. CASE UNCHANGED <<events, out>>
  BY <1>1, <1>2 DEF LogMatchesStreams
<1>3. ASSUME NEW r \in Requests, NEW ls \in Seq(Events), Emit(r, ls)
      PROVE  LogMatchesStreams'
  <2> DEFINE log == events[sess[r]]
  <2>1. log \in Seq(LogEntries) /\ out[r] \in Seq(Events)
    BY <1>1 DEF TypeOK
  <2>2. /\ events'[sess[r]] = log \o Entries(r, ls)
        /\ \A s \in Sessions \ {sess[r]} : events'[s] = events[s]
    BY <1>1, <1>3 DEF Emit, Entries, TypeOK
  <2>3. /\ out'[r] = out[r] \o ls
        /\ \A q \in Requests \ {r} : out'[q] = out[q]
    BY <1>3 DEF Emit, TypeOK
  <2>4. \A q \in Requests : LogShows(events[sess[q]], q, out[q])
    BY DEF LogMatchesStreams
  <2> HIDE DEF log
  <2>5. LogShows(events'[sess[r]], r, out'[r])
    <3>1. LogShows(log, r, out[r])
      BY <2>4 DEF log
    <3> QED BY <2>1, <2>2, <2>3, <3>1, OwnLogGrows
  <2>6. ASSUME NEW q \in Requests, q # r PROVE LogShows(events'[sess[q]], q, out'[q])
    <3>1. CASE sess[q] = sess[r]
      <4>1. LogShows(log, q, out[q])
        BY <2>4, <3>1 DEF log
      <4> QED BY <2>1, <2>2, <2>3, <2>6, <3>1, <4>1, OtherLogStays
    <3>2. CASE sess[q] # sess[r]
      BY <1>1, <2>2, <2>3, <2>4, <2>6, <3>2
    <3> QED BY <3>1, <3>2
  <2> QED BY <1>1, <2>5, <2>6 DEF LogMatchesStreams
<1> QED BY <1>2, <1>3, StepEmits

\* The stored log and the streams agree, turn by turn and in order (emit,
\* server.ts:738).
THEOREM LogShowsTheStreams == Spec => []LogMatchesStreams
<1>1. Init => LogMatchesStreams
  <2> SUFFICES ASSUME Init, NEW r \in Requests PROVE LogShows(events[sess[r]], r, out[r])
    BY DEF LogMatchesStreams
  <2>1. events[sess[r]] = <<>> /\ out[r] = <<>>
    BY DEF Init
  <2>2. Upto(<<>>, r, Len(<<>>)) = {}
    BY DEF Upto
  <2> QED BY <2>1, <2>2, FS_EmptySet DEF LogShows
<1> QED BY <1>1, LogStep, TypeCorrect, PTL DEF Spec
=============================================================================
