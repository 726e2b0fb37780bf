-------------------------- MODULE FileSessionStore --------------------------
(***************************************************************************)
(* FileLocalAgentSessionStore                                              *)
(* (packages/session-persistence/src/file-session-store.ts): the sessions  *)
(* of the Local Agent API, kept in memory and, after every change, written *)
(* as a whole to one encrypted file.  All calls are synchronous; a file    *)
(* operation of a call may fail, and the process may be killed between any *)
(* two of them.  The file is replaced by a rename, so it is never read     *)
(* half written; a temporary file that is left behind is never read.       *)
(***************************************************************************)
EXTENDS Naturals, Sequences, SequencesExt, FiniteSets

CONSTANTS Sessions,    \* session ids idFactory may return
          Turns,       \* turn ids
          Events,      \* agent events
          NoTurn,      \* no active turn
          MaxSessions, \* maxSessions
          MaxEvents,   \* maxEventsPerSession
          MaxFile      \* maxFileBytes, counted in events

ASSUME StoreAssumption ==
  /\ NoTurn \notin Turns
  /\ MaxSessions \in Nat \ {0}
  /\ MaxEvents \in Nat \ {0}
  /\ MaxFile \in Nat

VARIABLES up,     \* the constructor returned and the process runs
          mem,    \* #sessions
          file,   \* the sessions in the file
          acked,  \* #sessions when a call last returned normally
          result  \* how the last call ended: returned, threw or killed

vars == <<up, mem, file, acked, result>>

Outcomes == {"completed", "cancelled", "failed"}

Absent == [status |-> "absent", turn |-> NoTurn, events |-> <<>>]
Empty  == [s \in Sessions |-> Absent]
Has(store, s) == store[s].status # "absent"
Existing(store) == {s \in Sessions : Has(store, s)}

\* A missing file is an empty store; the constructor writes nothing then.
Init == /\ up = TRUE
        /\ mem = Empty /\ file = Empty /\ acked = Empty
        /\ result = "returned"

(***************************************************************************)
(* #persist, from its size check to its stat, and the rollback of its      *)
(* caller.                                                                 *)
(***************************************************************************)
EventsIn(store) == UNION {{s} \X DOMAIN store[s].events : s \in Sessions}
TooBig(store) == Cardinality(EventsIn(store)) > MaxFile

\* Mutant: the caller does not restore what it changed.
MutantRollBack(new) == up' = TRUE /\ mem' = new

\* A call that throws restores the memory; a constructor leaves no store.
RollBack(new) == UNCHANGED <<up, mem>>

Saved(new) == /\ file' = new
              /\ up' = TRUE /\ mem' = new /\ acked' = new
              /\ result' = "returned"

\* Too large, or temporary file or rename failed: the old file stays.
NotSaved(new) == RollBack(new) /\ UNCHANGED <<file, acked>> /\ result' = "threw"

\* The rename succeeded and the stat after it did not.
SavedButThrew(new) ==
  RollBack(new) /\ file' = new /\ UNCHANGED acked /\ result' = "threw"

\* Mutant: the file is written in place.
MutantKilled(new) == /\ file' \in {file, new, Empty}
                     /\ up' = FALSE /\ mem' = Empty
                     /\ UNCHANGED acked
                     /\ result' = "killed"

\* Killed before or after the rename.
Killed(new) == /\ file' \in {file, new}
               /\ up' = FALSE /\ mem' = Empty
               /\ UNCHANGED acked
               /\ result' = "killed"

Persist(new) ==
  \/ TooBig(new) /\ NotSaved(new)
  \/ ~TooBig(new) /\ (Saved(new) \/ NotSaved(new) \/ SavedButThrew(new) \/ Killed(new))

Refused == result' = "threw" /\ UNCHANGED <<up, mem, file, acked>>
Ignored == result' = "returned" /\ UNCHANGED <<up, mem, file, acked>>

(***************************************************************************)
(* The calls of a store.                                                   *)
(***************************************************************************)
\* idFactory returns an id that is free, or one that is taken.
Create(s) ==
  /\ up
  /\ IF Cardinality(Existing(mem)) >= MaxSessions \/ Has(mem, s)
       THEN Refused
       ELSE Persist([mem EXCEPT ![s].status = "idle"])

\* Mutant: one event more than the limit.
MutantFull(s) == Len(mem[s].events) > MaxEvents

Full(s) == Len(mem[s].events) >= MaxEvents

AppendEvent(s, e) ==
  /\ up
  /\ \/ ~Has(mem, s) /\ Ignored
     \/ Has(mem, s) /\ Full(s) /\ Refused
     \/ /\ Has(mem, s) /\ ~Full(s)
        /\ Persist([mem EXCEPT ![s].events = Append(@, e)])

SetStatus(s, status, turn) ==
  /\ up
  /\ \/ ~Has(mem, s) /\ Ignored
     \/ /\ Has(mem, s)
        /\ Persist([mem EXCEPT ![s].status = status, ![s].turn = turn])

(***************************************************************************)
(* Crash and restart.                                                      *)
(***************************************************************************)
Crash == /\ up
         /\ up' = FALSE /\ mem' = Empty /\ result' = "killed"
         /\ UNCHANGED <<file, acked>>

\* A session that was running has failed.
Recovered(store) ==
  [s \in Sessions |->
     IF store[s].status = "running" THEN [store[s] EXCEPT !.status = "failed", !.turn = NoTurn]
                                    ELSE store[s]]

\* Mutant: what was recovered is not written back.
MutantRestart ==
  /\ ~up
  /\ up' = TRUE /\ mem' = Recovered(file) /\ acked' = Recovered(file) /\ result' = "returned"
  /\ UNCHANGED file

\* #loadFromDisk: what was recovered is written back before anyone reads it.
Restart ==
  /\ ~up
  /\ \/ Recovered(file) = file /\ Saved(file)
     \/ Recovered(file) # file /\ Persist(Recovered(file))

Next ==
  \/ \E s \in Sessions : \/ Create(s)
                         \/ \E e \in Events : AppendEvent(s, e)
                         \/ \E t \in Turns : SetStatus(s, "running", t)
                         \/ \E o \in Outcomes : SetStatus(s, o, NoTurn)
  \/ Crash \/ Restart

Spec == Init /\ [][Next]_vars

(***************************************************************************)
(* Properties.                                                             *)
(***************************************************************************)
\* #loadFromDisk accepts it.
Loadable(store) ==
  /\ Cardinality(Existing(store)) <= MaxSessions
  /\ \A s \in Sessions : Len(store[s].events) <= MaxEvents
  /\ ~TooBig(store)

\* No event and no session that a call acknowledged is ever lost, whatever
\* fails and whenever the process is killed: the file has it and can be loaded
\* again, although limits are reached in any order.  Readers see exactly what
\* was acknowledged: a call that throws leaves no trace in memory.
AckedSurvives ==
  /\ \A s \in Sessions :
       Has(acked, s) => Has(file, s) /\ IsPrefix(acked[s].events, file[s].events)
  /\ Loadable(file)
  /\ up => mem = acked

\* A store that comes up knows no running session and no active turn, in
\* memory and in the file, and has every event of the file it found.
RestartFailsRunning ==
  [][~up /\ up' =>
       /\ file' = mem'
       /\ \A s \in Sessions : /\ mem'[s].status # "running"
                              /\ mem'[s].turn = NoTurn
                              /\ mem'[s].events = file[s].events]_vars
=============================================================================
