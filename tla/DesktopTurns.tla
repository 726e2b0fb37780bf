---------------------------- MODULE DesktopTurns ----------------------------
(***************************************************************************)
(* The desktop renderer: DesktopController and the handlers of             *)
(* mountDesktopUi (apps/desktop/src/controller.ts, ui.ts), over one of its *)
(* two bridges to the host: the Tauri commands and events                  *)
(* (tauri-api-client.ts, the native side in src-tauri/src/proxy.rs) or     *)
(* HTTP on the loopback (local-api-client.ts,                              *)
(* packages/local-agent-client/src/client.ts).                             *)
(*                                                                         *)
(* JavaScript runs to completion: a task from outside (a click, an answer, *)
(* an event) starts only when the promises settled by the one before it    *)
(* have been consumed, which is what Calm says.  The native side answers   *)
(* commands and forwards events on two channels, in no common order, or    *)
(* not at all.                                                             *)
(*                                                                         *)
(* Texts are known by the turn they come from; error messages, the         *)
(* rendering and the configuration panel are left out.                     *)
(***************************************************************************)
EXTENDS Integers, Sequences, SequencesExt, FiniteSets

CONSTANTS None,
          Sessions,   \* ids the host can give
          MaxTurns,   \* bound: turns submitted
          MaxDeltas,  \* bound: text events of a turn
          MaxPending  \* events kept until the turn's id is known (256)

VARIABLES bridge,     \* "tauri" or "http"
          disposed,
          connection,
          sessions, active, draft, isSubmitting,
          events,     \* state.events
          talk,       \* conversations: the texts of each session
          creating,   \* creatingSession
          ctrl,       \* abortControllers: the turn whose controller a session has
          turn        \* the turns submitted

uiVars == <<connection, sessions, active, creating>>
stateVars == <<draft, isSubmitting, events>>
vars == <<bridge, disposed, uiVars, stateVars, talk, ctrl, turn>>

Terminals == {"completed", "error"}
Turns == DOMAIN turn

Init ==
  /\ bridge \in {"tauri", "http"}
  /\ disposed = FALSE /\ connection = "idle"
  /\ sessions = {} /\ active = None /\ draft = FALSE /\ isSubmitting = FALSE
  /\ events = <<>> /\ talk = [s \in Sessions |-> {}] /\ creating = FALSE
  /\ ctrl = [s \in Sessions |-> None]
  /\ turn = <<>>

(***************************************************************************)
(* Tasks and what they leave to settle.                                    *)
(***************************************************************************)
\* Mutant: the answer to start_turn is awaited without the signal.
MutantRaced == {"listening", "waiting", "fetching", "reading"}

\* The awaits that race the abort signal.
Raced == {"listening", "starting", "waiting", "fetching", "reading"}

Aborting(t) == turn[t].aborted /\ turn[t].pc \in Raced
Pulls(t)    == turn[t].pc = "waiting" /\ (turn[t].queue # <<>> \/ turn[t].failed)
Calm        == \A t \in Turns : ~Aborting(t) /\ ~Pulls(t)

\* A click, while the user interface is mounted.
Ui == Calm /\ ~disposed

(***************************************************************************)
(* The end of a turn: the generator's finally, submitTurn's catch and      *)
(* finally, and the finally of handleSend.                                 *)
(***************************************************************************)
TextOf(shown) == {shown[i].turn : i \in {j \in DOMAIN shown : shown[j].type = "delta"}}

\* Mutant: a listener that is registered is not removed.
MutantReleased(hold) == hold

Released(hold) == IF hold = "on" THEN "released" ELSE hold

\* Mutant: an error leaves the submission open.
MutantSettled(shown, restore) ==
  events' = shown /\ isSubmitting' = restore /\ draft' = (draft \/ restore)

Settled(shown, restore) ==
  events' = shown /\ isSubmitting' = FALSE /\ draft' = (draft \/ restore)

\* shown: state.events by now; restore: the draft comes back.
EndTurn(t, shown, got, restore) ==
  LET s == turn[t].session
  IN  /\ turn' = [turn EXCEPT ![t].pc = "ended", ![t].got = got,
                              ![t].hold = Released(@), ![t].queue = <<>>]
      /\ ctrl' = [ctrl EXCEPT ![s] = None]
      /\ IF disposed THEN UNCHANGED stateVars
         ELSE Settled(shown, restore)
      /\ talk' = [talk EXCEPT ![s] = @ \cup TextOf(IF disposed THEN events ELSE shown)]
      /\ UNCHANGED <<bridge, disposed, uiVars>>

AbortSettles(t) == Aborting(t) /\ EndTurn(t, events, turn[t].got, TRUE)

Fails(t) == EndTurn(t, events, turn[t].got, FALSE)

\* The for await loop of submitTurn gets an event.
Receive(t, type, rest) ==
  LET event == [turn |-> t, type |-> type]
      got   == Append(turn[t].got, event)
      shown == IF disposed THEN events ELSE Append(events, event)
  IN  IF type \in Terminals
      THEN EndTurn(t, shown, got, type = "error")
      ELSE /\ events' = shown
           /\ turn' = [turn EXCEPT ![t].got = got, ![t].queue = rest]
           /\ UNCHANGED <<bridge, disposed, uiVars, draft, isSubmitting, talk, ctrl>>

\* AsyncEventQueue.next: what is queued comes before a failure.
Pull(t) ==
  /\ Pulls(t) /\ ~turn[t].aborted
  /\ \/ turn[t].queue # <<>> /\ Receive(t, Head(turn[t].queue), Tail(turn[t].queue))
     \/ turn[t].queue = <<>> /\ Fails(t)

(***************************************************************************)
(* The user interface.                                                     *)
(***************************************************************************)
Connect == /\ Ui /\ connection \in {"idle", "failed"}
           /\ connection' = "loading"
           /\ UNCHANGED <<bridge, disposed, sessions, active, creating, stateVars, talk, ctrl, turn>>

LoadAnswers == /\ Ui /\ connection = "loading"
               /\ connection' \in {"ready", "failed"}
               /\ UNCHANGED <<bridge, disposed, sessions, active, creating, stateVars, talk, ctrl, turn>>

NewSession == /\ Ui /\ connection = "ready" /\ ~creating /\ ~isSubmitting
              /\ sessions # Sessions
              /\ creating' = TRUE
              /\ UNCHANGED <<bridge, disposed, connection, sessions, active, stateVars, talk, ctrl, turn>>

Show(s) == active' = s /\ events' = <<>> /\ draft' = FALSE

SessionCreated(s) ==
  /\ Ui /\ creating /\ s \notin sessions
  /\ creating' = FALSE /\ sessions' = sessions \cup {s}
  /\ Show(s)
  /\ UNCHANGED <<bridge, disposed, connection, isSubmitting, talk, ctrl, turn>>

CreateFails == /\ Ui /\ creating /\ creating' = FALSE
               /\ UNCHANGED <<bridge, disposed, connection, sessions, active, stateVars, talk, ctrl, turn>>

SessionClick(s) ==
  /\ Ui /\ s \in sessions /\ ~isSubmitting /\ active # s
  /\ Show(s)
  /\ UNCHANGED <<bridge, disposed, connection, sessions, creating, isSubmitting, talk, ctrl, turn>>

DraftInput == /\ Ui /\ active # None /\ ~isSubmitting /\ ~draft
              /\ draft' = TRUE
              /\ UNCHANGED <<bridge, disposed, uiVars, isSubmitting, events, talk, ctrl, turn>>

CanSend == ~isSubmitting /\ draft

\* handleSend and submitTurn up to its first await: listen, or fetch.
Send ==
  /\ Ui /\ active # None /\ CanSend /\ Len(turn) < MaxTurns
  /\ turn' = Append(turn,
       [session |-> active, aborted |-> FALSE, got |-> <<>>, hold |-> "asked",
        pc |-> IF bridge = "tauri" THEN "listening" ELSE "fetching",
        pending |-> <<>>, others |-> 0, queue |-> <<>>, failed |-> FALSE,
        host |-> IF bridge = "tauri" THEN "none" ELSE "asked",
        sent |-> <<>>, wire |-> <<>>])
  /\ ctrl' = [ctrl EXCEPT ![active] = Len(turn')]
  /\ talk' = [talk EXCEPT ![active] = @ \cup {Len(turn')}]
  /\ isSubmitting' = TRUE /\ draft' = FALSE /\ events' = <<>>
  /\ UNCHANGED <<bridge, disposed, uiVars>>

\* The host is asked to cancel too; it may end a turn at any time (HostEmit).
Cancel ==
  /\ Ui /\ active # None /\ isSubmitting
  /\ ctrl[active] # None
  /\ turn' = [turn EXCEPT ![ctrl[active]].aborted = TRUE]
  /\ UNCHANGED <<bridge, disposed, uiVars, stateVars, talk, ctrl>>

\* unmount: dispose aborts every turn that has a controller.
Unmount ==
  /\ Ui
  /\ disposed' = TRUE
  /\ turn' = [t \in Turns |-> [turn[t] EXCEPT !.aborted = @ \/ ctrl[turn[t].session] = t]]
  /\ ctrl' = [s \in Sessions |-> None]
  /\ UNCHANGED <<bridge, uiVars, stateVars, talk>>

(***************************************************************************)
(* The Tauri bridge.                                                       *)
(***************************************************************************)
\* A listener that arrives after the turn has ended is removed at once.
LateHold == "released"

\* The listener is registered; start_turn is called.
ListenAnswers(t) ==
  /\ Calm /\ bridge = "tauri" /\ turn[t].hold = "asked"
  /\ \/ /\ turn[t].pc = "listening"
        /\ turn' = [turn EXCEPT ![t].hold = "on", ![t].pc = "starting", ![t].host = "asked"]
     \/ /\ turn[t].pc = "ended"
        /\ turn' = [turn EXCEPT ![t].hold = LateHold]
  /\ UNCHANGED <<bridge, disposed, uiVars, stateVars, talk, ctrl>>

\* The listener cannot be registered.
RegistrationFails(t) == Calm /\ turn[t].pc = "listening" /\ Fails(t)

\* What push makes of these types: nothing comes after a terminal event.
Pushed(types) ==
  LET ends == {i \in DOMAIN types : types[i] \in Terminals}
  IN  IF ends = {} THEN types ELSE SubSeq(types, 1, CHOOSE i \in ends : \A j \in ends : i <= j)

\* Mutant: events that come before the turn's id is known are dropped.
MutantKept(t) == <<>>

Kept(t) == turn[t].pending

\* The turn's id is known: what was kept is handed to the handler again.
StartAnswers(t) ==
  /\ Calm /\ turn[t].pc = "starting" /\ turn[t].host \in {"running", "done"}
  /\ turn' = [turn EXCEPT ![t].pc = "waiting", ![t].pending = <<>>, ![t].others = 0,
                          ![t].queue = IF turn[t].failed THEN <<>> ELSE Pushed(Kept(t))]
  /\ UNCHANGED <<bridge, disposed, uiVars, stateVars, talk, ctrl>>

\* The host refuses the turn, or the native proxy gives up or loses its answer,
\* although the host runs the turn.  (The proxy then forwards nothing of it;
\* here its events may come all the same.)
StartFails(t) == Calm /\ turn[t].pc = "starting" /\ Fails(t)

\* acceptEvent of the listener of a turn t, of an event of a turn u.  While the
\* turn's id is not known, every event of the session is kept.
Accept(t, u, type) ==
  LET r == turn[t]
  IN  IF r.hold # "on" \/ turn[u].session # r.session \/ r.pc = "ended" THEN r
      ELSE IF r.pc = "starting"
           THEN IF Len(r.pending) + r.others >= MaxPending THEN [r EXCEPT !.failed = TRUE]
                ELSE IF u = t THEN [r EXCEPT !.pending = Append(@, type)]
                ELSE [r EXCEPT !.others = @ + 1]
      ELSE IF u = t THEN [r EXCEPT !.queue = Append(@, type)] ELSE r

\* An event of turn u reaches the listeners.
Deliver(u) ==
  /\ Calm /\ turn[u].wire # <<>>
  /\ turn' = [t \in Turns |->
       [Accept(t, u, Head(turn[u].wire)) EXCEPT !.wire = IF t = u THEN Tail(@) ELSE @]]
  /\ UNCHANGED <<bridge, disposed, uiVars, stateVars, talk, ctrl>>

(***************************************************************************)
(* The HTTP bridge.                                                        *)
(***************************************************************************)
\* A response that comes after the abort is released.
FetchAnswers(t) ==
  /\ Calm /\ bridge = "http" /\ turn[t].hold = "asked" /\ turn[t].host \in {"running", "done"}
  /\ \/ turn[t].pc = "fetching" /\ turn' = [turn EXCEPT ![t].hold = "on", ![t].pc = "reading"]
     \/ turn[t].pc = "ended" /\ turn' = [turn EXCEPT ![t].hold = LateHold]
  /\ UNCHANGED <<bridge, disposed, uiVars, stateVars, talk, ctrl>>

\* The request is refused, or the connection breaks.
FetchFails(t) == Calm /\ turn[t].pc \in {"fetching", "reading"} /\ Fails(t)

BodyLine(t) ==
  /\ Calm /\ turn[t].pc = "reading" /\ Len(turn[t].got) < Len(turn[t].sent)
  /\ Receive(t, turn[t].sent[Len(turn[t].got) + 1], <<>>)

(***************************************************************************)
(* The host: a session runs one turn at a time, and the native proxy       *)
(* forwards its events only once start_turn is being answered.             *)
(***************************************************************************)
HostStarts(t) ==
  /\ Calm /\ turn[t].host = "asked"
  /\ turn' = [turn EXCEPT ![t].host =
       IF \E u \in Turns : turn[u].host = "running" /\ turn[u].session = turn[t].session
       THEN "refused" ELSE "running"]
  /\ UNCHANGED <<bridge, disposed, uiVars, stateVars, talk, ctrl>>

HostRefuses(t) ==
  /\ Calm /\ turn[t].host = "asked"
  /\ turn' = [turn EXCEPT ![t].host = "refused"]
  /\ UNCHANGED <<bridge, disposed, uiVars, stateVars, talk, ctrl>>

HostEmits(t, type) ==
  /\ Calm /\ turn[t].host = "running"
  /\ type = "delta" => Len(turn[t].sent) < MaxDeltas
  /\ turn' = [turn EXCEPT ![t].sent = Append(@, type),
                          ![t].host = IF type \in Terminals THEN "done" ELSE @,
                          ![t].wire = IF bridge = "tauri" THEN Append(@, type) ELSE @]
  /\ UNCHANGED <<bridge, disposed, uiVars, stateVars, talk, ctrl>>

Next ==
  \/ Connect \/ LoadAnswers \/ NewSession \/ CreateFails \/ DraftInput
  \/ Send \/ Cancel \/ Unmount
  \/ \E s \in Sessions : SessionCreated(s) \/ SessionClick(s)
  \/ \E t \in Turns : \/ AbortSettles(t) \/ Pull(t)
                      \/ ListenAnswers(t) \/ RegistrationFails(t)
                      \/ StartAnswers(t) \/ StartFails(t) \/ Deliver(t)
                      \/ FetchAnswers(t) \/ FetchFails(t) \/ BodyLine(t)
                      \/ HostStarts(t) \/ HostRefuses(t)
                      \/ \E type \in Terminals \cup {"delta"} : HostEmits(t, type)

\* Promises that are settled are consumed; nothing else must ever happen.
Spec == Init /\ [][Next]_vars
             /\ WF_vars(\E t \in Turns : AbortSettles(t) \/ Pull(t))

(***************************************************************************)
(* Properties.                                                             *)
(***************************************************************************)
Types(got) == [i \in DOMAIN got |-> got[i].type]

\* A turn gets the events the host sent for it and no others, in their order
\* and without a gap, also when the first of them overtake the answer to
\* start_turn and while events of an earlier turn of the session still arrive;
\* a turn that was neither aborted nor failed got the last one.
DeliveryExact ==
  \A t \in Turns :
    /\ \A i \in DOMAIN turn[t].got : turn[t].got[i].turn = t
    /\ IsPrefix(Types(turn[t].got), turn[t].sent)
    /\ turn[t].pc = "waiting" /\ ~turn[t].failed /\ turn[t].wire = <<>> /\ turn[t].queue = <<>>
         => Types(turn[t].got) = turn[t].sent

\* A turn that has ended leaves nothing behind: the listener or the response it
\* had asked for is released, also when it arrives after the end.
NothingLeftBehind == \A t \in Turns : turn[t].pc = "ended" => turn[t].hold # "on"

\* The cancel button is shown exactly while one turn runs, and the abort
\* controller kept for that turn's session is that turn's own.
SubmittingIsTheTurn ==
  ~disposed =>
    LET running == {t \in Turns : turn[t].pc # "ended"}
    IN  /\ Cardinality(running) <= 1
        /\ isSubmitting <=> running # {}
        /\ \A t \in running : ctrl[turn[t].session] = t

\* Whatever the host does, a turn that was cancelled, or was running when the
\* window was closed, ends.
CancelSettles == []<>(\A t \in Turns : turn[t].aborted => turn[t].pc = "ended")

\* What is shown of a session, its conversation and the events of the turn that
\* runs, are this session's own texts.
SessionsIsolated ==
  /\ \A s \in Sessions : \A t \in talk[s] : turn[t].session = s
  /\ \A i \in DOMAIN events : turn[events[i].turn].session = active
=============================================================================
