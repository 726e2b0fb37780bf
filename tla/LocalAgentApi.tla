---------------------------- MODULE LocalAgentApi ----------------------------
(***************************************************************************)
(* The loopback HTTP server packages/local-agent-api/src/server.ts over a  *)
(* session store (session-store.ts, or the file store).                    *)
(*                                                                         *)
(* A request in Requests is one POST /v1/sessions/:id/turns; it is also    *)
(* the id of the turn that it starts.  JavaScript runs a handler without   *)
(* interruption from one await to the next, so an action is the code       *)
(* between two awaits of one handler, and pc says where a handler awaits:  *)
(*   unsent     the client has not sent the request                        *)
(*   reading    await readBody                                             *)
(*   running    await runner.run                                           *)
(*   waiting    await the race of iterator.next() and the abort signal     *)
(*   releasing  finish() was called, await #release                        *)
(*   unwinding  in the catch block, await #release                         *)
(*   done       the handler has returned                                   *)
(* The runner is any implementation of LocalAgentRunner: its stream may    *)
(* yield, throw, end early or stay silent.                                 *)
(***************************************************************************)
EXTENDS Naturals, Sequences, FiniteSets

CONSTANTS Sessions,       \* session ids the store may hand out
          Requests,       \* POST .../turns requests
          None,           \* no turn
          PatientClients, \* clients await an answer before posting to a session again
          MaxDeltas,      \* bound: non-terminal events a runner yields in a turn
          MaxStarts,      \* bound: calls of start()
          MaxFaults       \* bound: store calls that throw

ASSUME ConstantsAssumption ==
  /\ None \notin Requests
  /\ PatientClients \in BOOLEAN
  /\ MaxDeltas \in Nat
  /\ MaxStarts \in Nat
  /\ MaxFaults \in Nat

VARIABLES server,   \* #server: none, listening, or unbound (listen failed)
          starts,   \* how often start() created a server (for MaxStarts)
          active,   \* #active: session -> turn that cancel() reaches
          status,   \* the store's session.status
          turn,     \* the store's session.activeTurnId
          events,   \* the store's session.events, each with its turn
          faults,   \* store calls that have thrown (for MaxFaults)
          pc,       \* where each handler awaits
          sess,     \* the session a request names
          reply,    \* HTTP status sent, 0 before
          conn,     \* the request's connection: open or lost
          aborted,  \* controller.signal.aborted
          iter,     \* the runner's iterator: none, open, returned
          out       \* NDJSON lines the handler wrote

storeVars == <<status, turn, events>>
vars == <<server, starts, active, status, turn, events, faults,
          pc, sess, reply, conn, aborted, iter, out>>

(***************************************************************************)
(* Agent events, as far as the server tells them apart.                    *)
(***************************************************************************)
Terminals == {"completed", "aborted", "failed"}  \* completed; error aborted; other error
Events == {"delta"} \cup Terminals

\* Mutant: the event's own name becomes the session's status.
MutantOutcome(e) == e

Outcome(e) == CASE e = "completed" -> "completed"
                [] e = "aborted"   -> "cancelled"
                [] OTHER           -> "failed"

Outcomes == {"completed", "cancelled", "failed"}
Statuses == {"absent", "idle", "running"} \cup Outcomes

\* sawTerminal of the handler: its last line is a terminal event.
SawTerminal(r) == out[r] # <<>> /\ out[r][Len(out[r])] \in Terminals

\* The handler holds a running turn: finish() has not been reached.
TurnPcs == {"running", "waiting", "unwinding"}
Live(r) == pc[r] \in TurnPcs

(***************************************************************************)
(* Initial state: the server is constructed, the store is empty.           *)
(***************************************************************************)
Init == /\ server = "none" /\ starts = 0 /\ faults = 0
        /\ active = [s \in Sessions |-> None]
        /\ status = [s \in Sessions |-> "absent"]
        /\ turn = [s \in Sessions |-> None]
        /\ events = [s \in Sessions |-> <<>>]
        /\ pc = [r \in Requests |-> "unsent"]
        /\ sess \in [Requests -> Sessions]
        /\ reply = [r \in Requests |-> 0]
        /\ conn = [r \in Requests |-> "open"]
        /\ aborted = [r \in Requests |-> FALSE]
        /\ iter = [r \in Requests |-> "none"]
        /\ out = [r \in Requests |-> <<>>]

(***************************************************************************)
(* start() and close().                                                    *)
(***************************************************************************)
\* A server that could not bind stays in #server: later calls return at once.
Start == /\ server = "none" /\ starts < MaxStarts
         /\ server' \in {"listening", "unbound"}
         /\ starts' = starts + 1
         /\ UNCHANGED <<active, storeVars, faults, pc, sess, reply, conn, aborted, iter, out>>

\* Every turn in #active is aborted, #active is emptied, every connection is
\* destroyed; the handlers themselves keep running.
Close == /\ server # "none"
         /\ server' = "none"
         /\ aborted' = [r \in Requests |-> aborted[r] \/ \E s \in Sessions : active[s] = r]
         /\ active' = [s \in Sessions |-> None]
         /\ conn' = [r \in Requests |->
                       IF pc[r] \in {"unsent", "done"} THEN conn[r] ELSE "lost"]
         /\ UNCHANGED <<starts, storeVars, faults, pc, sess, reply, iter, out>>

(***************************************************************************)
(* POST /v1/sessions and POST /v1/sessions/:id/cancel.                     *)
(***************************************************************************)
CreateSession(s) ==
  /\ server = "listening"
  /\ status[s] = "absent"
  /\ status' = [status EXCEPT ![s] = "idle"]
  /\ UNCHANGED <<server, starts, active, turn, events, faults,
                 pc, sess, reply, conn, aborted, iter, out>>

\* Mutant: cancel frees the session at once, before its turn has ended.
MutantCancel(s) ==
  /\ server = "listening" /\ active[s] # None
  /\ aborted' = [aborted EXCEPT ![active[s]] = TRUE]
  /\ active' = [active EXCEPT ![s] = None]
  /\ UNCHANGED <<server, starts, storeVars, faults, pc, sess, reply, conn, iter, out>>

\* With no entry in #active the answer is "not_running" and nothing changes.
Cancel(s) ==
  /\ server = "listening"
  /\ status[s] # "absent"
  /\ active[s] # None
  /\ aborted' = [aborted EXCEPT ![active[s]] = TRUE]
  /\ UNCHANGED <<server, starts, active, storeVars, faults, pc, sess, reply, conn, iter, out>>

(***************************************************************************)
(* POST /v1/sessions/:id/turns, up to await readBody.                      *)
(***************************************************************************)
Refuse(r, code) ==
  /\ pc' = [pc EXCEPT ![r] = "done"]
  /\ reply' = [reply EXCEPT ![r] = code]
  /\ UNCHANGED <<server, starts, active, storeVars, faults, sess, conn, aborted, iter, out>>

Arrives(r) == /\ pc[r] = "unsent"
              /\ server = "listening"
              /\ PatientClients => ~ \E q \in Requests : sess[q] = sess[r] /\ pc[q] = "reading"

TurnNotFound(r) == Arrives(r) /\ status[sess[r]] = "absent" /\ Refuse(r, 404)

TurnBusy(r) == /\ Arrives(r)
               /\ status[sess[r]] # "absent"
               /\ active[sess[r]] # None
               /\ Refuse(r, 409)

\* Mutant: the check of #active is dropped.
MutantTurnArrives(r) ==
  /\ Arrives(r)
  /\ status[sess[r]] # "absent"
  /\ pc' = [pc EXCEPT ![r] = "reading"]
  /\ UNCHANGED <<server, starts, active, storeVars, faults, sess, reply, conn, aborted, iter, out>>

TurnArrives(r) ==
  /\ Arrives(r)
  /\ status[sess[r]] # "absent"
  /\ active[sess[r]] = None
  /\ pc' = [pc EXCEPT ![r] = "reading"]
  /\ UNCHANGED <<server, starts, active, storeVars, faults, sess, reply, conn, aborted, iter, out>>

\* The body is too large, no JSON, not a turn request, or the connection
\* was lost while it was read.
BodyBad(r) == pc[r] = "reading" /\ Refuse(r, 400)

\* The turn takes the session's entry in #active, whoever holds it, and the
\* session runs; the handler calls runner.run.
BodyOk(r) ==
  /\ pc[r] = "reading" /\ conn[r] = "open"
  /\ active' = [active EXCEPT ![sess[r]] = r]
  /\ status' = [status EXCEPT ![sess[r]] = "running"]
  /\ turn' = [turn EXCEPT ![sess[r]] = r]
  /\ reply' = [reply EXCEPT ![r] = 200]
  /\ pc' = [pc EXCEPT ![r] = "running"]
  /\ UNCHANGED <<server, starts, events, faults, sess, conn, aborted, iter, out>>

\* setStatus throws outside the handler's try: the outer catch answers 500
\* and the entry in #active stays.
BodyOkStoreFails(r) ==
  /\ pc[r] = "reading" /\ conn[r] = "open" /\ faults < MaxFaults
  /\ faults' = faults + 1
  /\ active' = [active EXCEPT ![sess[r]] = r]
  /\ reply' = [reply EXCEPT ![r] = 500]
  /\ pc' = [pc EXCEPT ![r] = "done"]
  /\ UNCHANGED <<server, starts, storeVars, sess, conn, aborted, iter, out>>

(***************************************************************************)
(* emit, finish and the catch block.                                       *)
(***************************************************************************)
\* emit(ls[1]), emit(ls[2]), ...: stored, then written.
Emit(r, ls) ==
  /\ events' = [events EXCEPT ![sess[r]] =
                  @ \o [i \in 1 .. Len(ls) |-> [turn |-> r, event |-> ls[i]]]]
  /\ out' = [out EXCEPT ![r] = @ \o ls]

\* Mutant: finish deletes the session's entry only if it is the turn's own.
MutantFinish(r, final) ==
  /\ active' = [active EXCEPT ![sess[r]] = IF @ = r THEN None ELSE @]
  /\ status' = [status EXCEPT ![sess[r]] = final]
  /\ turn' = [turn EXCEPT ![sess[r]] = None]

\* finish(final): the session's entry is deleted, whoever holds it.
Finish(r, final) ==
  /\ active' = [active EXCEPT ![sess[r]] = None]
  /\ status' = [status EXCEPT ![sess[r]] = final]
  /\ turn' = [turn EXCEPT ![sess[r]] = None]

\* Mutant: the line is written before it is stored.
MutantStoreThrows(r, ls, finishing, k) ==
  /\ faults < MaxFaults
  /\ faults' = faults + 1
  /\ k \in 1 .. (IF finishing THEN Len(ls) + 1 ELSE Len(ls))
  /\ out' = [out EXCEPT ![r] = @ \o SubSeq(ls, 1, k)]
  /\ active' = IF k > Len(ls) THEN [active EXCEPT ![sess[r]] = None] ELSE active
  /\ UNCHANGED <<events, status, turn>>

\* The k-th line (or, past the last one, setStatus in finish) hits a store
\* call that throws; what precedes it has happened.
StoreThrows(r, ls, finishing, k) ==
  /\ faults < MaxFaults
  /\ faults' = faults + 1
  /\ k \in 1 .. (IF finishing THEN Len(ls) + 1 ELSE Len(ls))
  /\ Emit(r, SubSeq(ls, 1, k - 1))
  /\ active' = IF k > Len(ls) THEN [active EXCEPT ![sess[r]] = None] ELSE active
  /\ UNCHANGED <<status, turn>>

\* Mutant: an aborted turn leaves the runner's iterator open.
MutantRelease(r) ==
  iter' = [iter EXCEPT ![r] = IF aborted[r] THEN @ ELSE "returned"]

\* #release: iterator.return() is called.
Release(r) == iter' = [iter EXCEPT ![r] = "returned"]

\* Write ls and go on waiting for the next event.
WriteAndWait(r, ls) ==
  /\ \/ /\ Emit(r, ls)
        /\ pc' = [pc EXCEPT ![r] = "waiting"]
        /\ iter' = [iter EXCEPT ![r] = "open"]
        /\ UNCHANGED <<active, status, turn, faults>>
     \/ /\ \E k \in 1 .. Len(ls) : StoreThrows(r, ls, FALSE, k)
        /\ pc' = [pc EXCEPT ![r] = "unwinding"]
        /\ Release(r)
  /\ UNCHANGED <<server, starts, sess, reply, conn, aborted>>

\* Write ls, finish, and release the iterator; a store call that throws
\* leads to the catch block, which releases it too.
WriteAndFinish(r, ls, final) ==
  /\ \/ /\ Emit(r, ls)
        /\ Finish(r, final)
        /\ pc' = [pc EXCEPT ![r] = "releasing"]
        /\ UNCHANGED faults
     \/ /\ \E k \in 1 .. Len(ls) + 1 : StoreThrows(r, ls, TRUE, k)
        /\ pc' = [pc EXCEPT ![r] = "unwinding"]
  /\ Release(r)
  /\ UNCHANGED <<server, starts, sess, reply, conn, aborted>>

\* Mutant: the catch block does not look at sawTerminal.
MutantCatch(r) ==
  /\ \/ Emit(r, <<"failed">>) /\ Finish(r, "failed") /\ UNCHANGED faults
     \/ \E k \in 1 .. 2 : StoreThrows(r, <<"failed">>, TRUE, k)
  /\ pc' = [pc EXCEPT ![r] = "done"]
  /\ UNCHANGED <<server, starts, sess, reply, conn, aborted, iter>>

\* The rest of the catch block; if the store throws here the handler ends.
Catch(r) ==
  LET ls == IF SawTerminal(r) THEN <<>> ELSE <<"failed">>
  IN /\ \/ Emit(r, ls) /\ Finish(r, "failed") /\ UNCHANGED faults
        \/ \E k \in 1 .. Len(ls) + 1 : StoreThrows(r, ls, TRUE, k)
     /\ pc' = [pc EXCEPT ![r] = "done"]
     /\ UNCHANGED <<server, starts, sess, reply, conn, aborted, iter>>

(***************************************************************************)
(* The running turn.                                                       *)
(***************************************************************************)
\* runner.run resolves; the loop first looks at the abort signal.
RunnerStarts(r) ==
  /\ pc[r] = "running"
  /\ \/ aborted[r] /\ WriteAndFinish(r, <<"aborted">>, "cancelled")
     \/ ~aborted[r] /\ WriteAndWait(r, <<>>)

\* runner.run rejects: there is no iterator to release.
RunnerThrows(r) == pc[r] = "running" /\ Catch(r)

\* next() yields a non-terminal event; an abort that came meanwhile is seen
\* at the top of the loop.
NextEvent(r) ==
  /\ pc[r] = "waiting"
  /\ Len(out[r]) < MaxDeltas
  /\ \/ aborted[r] /\ WriteAndFinish(r, <<"delta", "aborted">>, "cancelled")
     \/ ~aborted[r] /\ WriteAndWait(r, <<"delta">>)

\* Mutant: every terminal event completes the turn.
MutantNextTerminal(r) ==
  /\ pc[r] = "waiting"
  /\ \E e \in Terminals : WriteAndFinish(r, <<e>>, "completed")

\* next() yields a terminal event, which decides the outcome.
NextTerminal(r) ==
  /\ pc[r] = "waiting"
  /\ \E e \in Terminals : WriteAndFinish(r, <<e>>, Outcome(e))

\* next() rejects.
NextThrows(r) == pc[r] = "waiting" /\ WriteAndFinish(r, <<"failed">>, "failed")

\* The stream ends without a terminal event.
NextDone(r) == pc[r] = "waiting" /\ WriteAndFinish(r, <<>>, "completed")

\* Mutant: the race is won by the stream alone.
MutantAbortWins(r) == pc[r] = "waiting" /\ aborted[r] /\ FALSE /\ UNCHANGED vars

\* The abort signal wins the race.
AbortWins(r) ==
  /\ pc[r] = "waiting"
  /\ aborted[r]
  /\ WriteAndFinish(r, <<"aborted">>, "cancelled")

\* iterator.return() settled, or the timeout of #release fired.
Released(r) ==
  /\ pc[r] = "releasing"
  /\ pc' = [pc EXCEPT ![r] = "done"]
  /\ UNCHANGED <<server, starts, active, storeVars, faults, sess, reply, conn, aborted, iter, out>>

Unwound(r) == pc[r] = "unwinding" /\ Catch(r)

(***************************************************************************)
(* The client goes away; the listeners of the handler notice it.           *)
(***************************************************************************)
Disconnect(r) ==
  /\ pc[r] = "reading" \/ Live(r)
  /\ conn[r] = "open"
  /\ conn' = [conn EXCEPT ![r] = "lost"]
  /\ UNCHANGED <<server, starts, active, storeVars, faults, pc, sess, reply, aborted, iter, out>>

NoticeClose(r) ==
  /\ Live(r) /\ conn[r] = "lost" /\ ~aborted[r]
  /\ aborted' = [aborted EXCEPT ![r] = TRUE]
  /\ UNCHANGED <<server, starts, active, storeVars, faults, pc, sess, reply, conn, iter, out>>

(***************************************************************************)
(* The specification.                                                      *)
(***************************************************************************)
Handler(r) ==
  \/ TurnNotFound(r) \/ TurnBusy(r) \/ TurnArrives(r)
  \/ BodyBad(r) \/ BodyOk(r) \/ BodyOkStoreFails(r)
  \/ RunnerStarts(r) \/ RunnerThrows(r)
  \/ NextEvent(r) \/ NextTerminal(r) \/ NextThrows(r) \/ NextDone(r) \/ AbortWins(r)
  \/ Released(r) \/ Unwound(r)
  \/ Disconnect(r) \/ NoticeClose(r)

Next == \/ Start \/ Close
        \/ \E s \in Sessions : CreateSession(s) \/ Cancel(s)
        \/ \E r \in Requests : Handler(r)

Spec == Init /\ [][Next]_vars

\* The event loop runs what is ready: closed connections are reported, the
\* abort signal settles the race, #release has a timeout.  Of the runner only
\* that runner.run settles; the stream itself may stay silent for ever.
Fairness ==
  \A r \in Requests : /\ WF_vars(NoticeClose(r))
                      /\ WF_vars(RunnerStarts(r) \/ RunnerThrows(r))
                      /\ WF_vars(AbortWins(r))
                      /\ WF_vars(Released(r))
                      /\ WF_vars(Unwound(r))
                      /\ WF_vars(pc[r] = "reading" /\ conn[r] = "lost" /\ BodyBad(r))

FairSpec == Spec /\ Fairness
(***************************************************************************)
(* Properties.                                                             *)
(***************************************************************************)
LogEntries == [turn : Requests, event : Events]

\* Every variable has its type.
TypeOK ==
  /\ server \in {"none", "listening", "unbound"}
  /\ starts \in Nat
  /\ active \in [Sessions -> Requests \cup {None}]
  /\ status \in [Sessions -> Statuses]
  /\ turn \in [Sessions -> Requests \cup {None}]
  /\ events \in [Sessions -> Seq(LogEntries)]
  /\ faults \in Nat
  /\ pc \in [Requests -> {"unsent", "reading", "running", "waiting",
                          "releasing", "unwinding", "done"}]
  /\ sess \in [Requests -> Sessions]
  /\ reply \in [Requests -> {0, 200, 400, 404, 409, 500}]
  /\ conn \in [Requests -> {"open", "lost"}]
  /\ aborted \in [Requests -> BOOLEAN]
  /\ iter \in [Requests -> {"none", "open", "returned"}]
  /\ out \in [Requests -> Seq(Events)]

\* However aborts, ends of the stream, thrown errors and store failures
\* race, a client reads at most one terminal line, and none after it
\* (docs/local-agent-api.md: completed / error only once).
OneTerminal ==
  \A r \in Requests : \A i \in 1 .. Len(out[r]) - 1 : out[r][i] \notin Terminals

\* GET .../events shows of each turn exactly the lines its client was sent,
\* in order, also when turns of one session overlap and when the store fails:
\* the turn's n-th entry in the session's log is its n-th line.
Upto(log, r, i) == {j \in 1 .. i : log[j].turn = r}
LogShows(log, r, lines) ==
  /\ Cardinality(Upto(log, r, Len(log))) = Len(lines)
  /\ \A i \in Upto(log, r, Len(log)) : log[i].event = lines[Cardinality(Upto(log, r, i))]
LogMatchesStreams == \A r \in Requests : LogShows(events[sess[r]], r, out[r])

\* A session is busy, and shown as running, only while a turn of its own is:
\* as long as the store works, no order of overlapping turns, cancels,
\* lost connections and restarts leaves it busy or running for ever.
BusyWhileLive ==
  \A s \in Sessions :
    active[s] # None => sess[active[s]] = s /\ Live(active[s])
                        /\ status[s] = "running" /\ turn[s] = active[s]
RunningWhileLive ==
  \A s \in Sessions :
    status[s] = "running" => turn[s] # None /\ sess[turn[s]] = s /\ Live(turn[s])
NoGhostTurn == faults = 0 => BusyWhileLive /\ RunningWhileLive

\* A handler that has left its turn, by whatever path, gave the runner's
\* iterator back.
IteratorReleased ==
  \A r \in Requests :
    pc[r] \in {"releasing", "unwinding", "done"} => iter[r] # "open"

\* The outcome a session shows is what the finishing turn's client was told
\* by its last line: an error line is never recorded as completed, an abort
\* never as failed; without a terminal line it is completed.
StatusTellsOutcome ==
  [][\A s \in Sessions :
       faults' = 0 /\ status'[s] # status[s] /\ status'[s] \in Outcomes =>
         \E r \in Requests :
           /\ sess[r] = s /\ Live(r) /\ ~Live(r)'
           /\ status'[s] = IF SawTerminal(r)' THEN Outcome(out'[r][Len(out'[r])])
                                              ELSE "completed"]_vars

\* While clients are patient and the server was started once, cancel reaches
\* every running turn.
CancelReachesTurn ==
  server = "listening" => \A r \in Requests : Live(r) => active[sess[r]] = r

\* One running turn per session (docs/local-agent-api.md: "a session with a
\* running turn answers 409 session_busy").
SingleTurnPerSession ==
  \A q, r \in Requests : Live(q) /\ Live(r) /\ sess[q] = sess[r] => q = r

\* A session answers 409 only when it has a running turn (same sentence).
BusyOnlyWhileTurnRuns == \A s \in Sessions : active[s] # None => Live(active[s])

\* A turn that was cancelled, or whose client went away, ends even though
\* the runner's stream stays silent, and no longer makes its session busy.
StopEndsTurn ==
  \A r \in Requests :
    (Live(r) /\ (aborted[r] \/ conn[r] = "lost"))
      ~> (pc[r] = "done" /\ active[sess[r]] # r)

\* For patient clients the server implements one turn at a time.
Turns == INSTANCE SessionTurns WITH Turns <- Requests
ImplementsSessionTurns == Turns!Spec
=============================================================================
