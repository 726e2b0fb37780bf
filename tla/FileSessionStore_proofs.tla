----------------------- MODULE FileSessionStore_proofs -----------------------
(***************************************************************************)
(* FileSessionStore, for any number of sessions, turns and events and any  *)
(* limits: what a call acknowledged survives every failure and every kill, *)
(* and a restart leaves no running session.                                *)
(***************************************************************************)
EXTENDS FileSessionStore, FiniteSetTheorems, TLAPS

Statuses == {"absent", "idle", "running"} \cup Outcomes
Stores == [Sessions -> [status : Statuses, turn : Turns \cup {NoTurn}, events : Seq(Events)]]

\* What every version of the store keeps to, in memory and in the file.
Sane(store) ==
  /\ store \in Stores
  /\ IsFiniteSet(Existing(store)) /\ Cardinality(Existing(store)) <= MaxSessions
  /\ \A s \in Sessions : /\ Len(store[s].events) <= MaxEvents
                         /\ store[s].status # "running" => store[s].turn = NoTurn

\* new has all that old has.
Extends(old, new) ==
  \A s \in Sessions : Has(old, s) => Has(new, s) /\ IsPrefix(old[s].events, new[s].events)

StoreInv ==
  /\ up \in BOOLEAN
  /\ Sane(acked) /\ Sane(file) /\ ~TooBig(file)
  /\ Extends(acked, file)
  /\ up => mem = acked

(***************************************************************************)
(* Prefixes.                                                               *)
(***************************************************************************)
LEMMA PrefixReflexive == ASSUME NEW S, NEW s \in Seq(S) PROVE IsPrefix(s, s)
BY DEF IsPrefix

LEMMA PrefixOfAppend ==
  ASSUME NEW S, NEW s \in Seq(S), NEW e \in S
  PROVE  IsPrefix(s, Append(s, e))
<1>1. Len(s) \in Nat /\ Len(Append(s, e)) = Len(s) + 1 /\ Append(s, e) \in Seq(S)
  OBVIOUS
<1>2. SubSeq(s, 1, Len(s)) = SubSeq(Append(s, e), 1, Len(s))
  BY <1>1
<1> QED BY <1>1, <1>2 DEF IsPrefix

LEMMA ExtendsItself == ASSUME NEW store \in Stores PROVE Extends(store, store)
<1>1. \A s \in Sessions : store[s].events \in Seq(Events) BY DEF Stores
<1> QED BY <1>1, PrefixReflexive DEF Extends

(***************************************************************************)
(* The stores that calls make.                                             *)
(***************************************************************************)
LEMMA EmptyIsSane == Sane(Empty) /\ ~TooBig(Empty)
<1>1. Empty \in Stores
  <2>1. <<>> \in Seq(Events) OBVIOUS
  <2> QED BY <2>1 DEF Empty, Absent, Stores, Statuses
<1>2. \A s \in Sessions : Empty[s] = [status |-> "absent", turn |-> NoTurn, events |-> <<>>]
  BY DEF Empty, Absent
<1>3. Existing(Empty) = {}
  BY <1>2 DEF Existing, Has
<1>4. EventsIn(Empty) = {}
  <2>1. \A s \in Sessions : DOMAIN Empty[s].events = {}
    BY <1>2
  <2> QED BY <2>1 DEF EventsIn
<1> QED BY <1>1, <1>2, <1>3, <1>4, FS_EmptySet, StoreAssumption DEF Sane, TooBig

\* A new session, where there is room for one more.
LEMMA CreateIsSane ==
  ASSUME NEW store, Sane(store), NEW s \in Sessions, ~Has(store, s),
         ~(Cardinality(Existing(store)) >= MaxSessions),
         NEW new, new = [store EXCEPT ![s].status = "idle"]
  PROVE  Sane(new) /\ Extends(store, new)
<1>1. new \in Stores BY DEF Sane, Stores, Statuses
<1>2. /\ new[s].status = "idle" /\ new[s].events = store[s].events /\ new[s].turn = store[s].turn
      /\ \A t \in Sessions \ {s} : new[t] = store[t]
  BY DEF Sane, Stores
<1>3. Existing(new) = Existing(store) \cup {s} /\ s \notin Existing(store)
  BY <1>2 DEF Existing, Has
<1>4. Cardinality(Existing(store)) \in Nat
  BY FS_CardinalityType DEF Sane
<1>5. IsFiniteSet(Existing(new)) /\ Cardinality(Existing(new)) <= MaxSessions
  <2>1. /\ IsFiniteSet(Existing(store) \cup {s})
        /\ Cardinality(Existing(store) \cup {s}) = Cardinality(Existing(store)) + 1
    BY <1>3, FS_AddElement DEF Sane
  <2>2. IsFiniteSet(Existing(new)) /\ Cardinality(Existing(new)) = Cardinality(Existing(store)) + 1
    BY <1>3, <2>1
  <2>3. \A n \in Nat : ~(n >= MaxSessions) => n + 1 <= MaxSessions
    BY StoreAssumption
  <2> QED BY <1>4, <2>2, <2>3
<1>6. \A t \in Sessions : new[t].events = store[t].events /\ new[t].turn = store[t].turn
  BY <1>2
<1>7. \A t \in Sessions : new[t].status # "running" => new[t].turn = NoTurn
  BY <1>2 DEF Sane, Has
<1>8. Sane(new)
  BY <1>1, <1>5, <1>6, <1>7 DEF Sane
<1>9. Extends(store, new)
  <2>1. \A t \in Sessions : store[t].events \in Seq(Events) BY DEF Sane, Stores
  <2>2. \A t \in Sessions : Has(store, t) => Has(new, t) BY <1>2 DEF Has
  <2> QED BY <1>6, <2>1, <2>2, PrefixReflexive DEF Extends
<1> QED BY <1>8, <1>9

\* One more event, where there is room for one.
LEMMA AppendIsSane ==
  ASSUME NEW store, Sane(store), NEW s \in Sessions, NEW e \in Events,
         ~(Len(store[s].events) >= MaxEvents),
         NEW new, new = [store EXCEPT ![s].events = Append(@, e)]
  PROVE  Sane(new) /\ Extends(store, new)
<1>1. new \in Stores
  <2>1. store[s].events \in Seq(Events) BY DEF Sane, Stores
  <2>2. Append(store[s].events, e) \in Seq(Events) BY <2>1
  <2> QED BY <2>2 DEF Sane, Stores
<1>2. /\ new[s].events = Append(store[s].events, e)
      /\ \A t \in Sessions \ {s} : new[t].events = store[t].events
      /\ \A t \in Sessions : new[t].status = store[t].status /\ new[t].turn = store[t].turn
  BY DEF Sane, Stores
<1>3. \A t \in Sessions : store[t].events \in Seq(Events) BY DEF Sane, Stores
<1>4. Existing(new) = Existing(store) BY <1>2 DEF Existing, Has
<1>5. Len(new[s].events) <= MaxEvents
  <2>1. Len(store[s].events) \in Nat /\ Len(new[s].events) = Len(store[s].events) + 1
    BY <1>2, <1>3
  <2> QED BY <2>1, StoreAssumption
<1>6. \A t \in Sessions : Len(new[t].events) <= MaxEvents BY <1>2, <1>5 DEF Sane
<1>7. Sane(new) BY <1>1, <1>2, <1>4, <1>6 DEF Sane
<1>8. \A t \in Sessions : IsPrefix(store[t].events, new[t].events)
  BY <1>2, <1>3, PrefixReflexive, PrefixOfAppend
<1>9. Extends(store, new) BY <1>2, <1>8 DEF Extends, Has
<1> QED BY <1>7, <1>9

\* A status that a turn takes or leaves with its id.
LEMMA StatusIsSane ==
  ASSUME NEW store, Sane(store), NEW s \in Sessions, Has(store, s),
         NEW status \in Outcomes \cup {"running"}, NEW turn \in Turns \cup {NoTurn},
         status # "running" => turn = NoTurn,
         NEW new, new = [store EXCEPT ![s].status = status, ![s].turn = turn]
  PROVE  Sane(new) /\ Extends(store, new)
<1>1. new \in Stores BY DEF Sane, Stores, Statuses
<1>2. /\ new[s].status = status /\ new[s].turn = turn
      /\ \A t \in Sessions \ {s} : new[t] = store[t]
      /\ \A t \in Sessions : new[t].events = store[t].events
  BY DEF Sane, Stores
<1>3. \A t \in Sessions : store[t].events \in Seq(Events) BY DEF Sane, Stores
<1>4. \A t \in Sessions : Has(new, t) <=> Has(store, t) BY <1>2 DEF Has, Outcomes
<1>5. Existing(new) = Existing(store) BY <1>4 DEF Existing
<1>6. Sane(new) BY <1>1, <1>2, <1>5 DEF Sane
<1>7. Extends(store, new) BY <1>2, <1>3, <1>4, PrefixReflexive DEF Extends
<1> QED BY <1>6, <1>7

\* #loadFromDisk changes statuses only, and no session is running then.
LEMMA RecoveredIsSane ==
  ASSUME NEW store, Sane(store)
  PROVE  /\ Sane(Recovered(store))
         /\ \A s \in Sessions : /\ Recovered(store)[s].events = store[s].events
                                /\ Recovered(store)[s].status # "running"
                                /\ Recovered(store)[s].turn = NoTurn
                                /\ Has(Recovered(store), s) <=> Has(store, s)
<1> DEFINE new == Recovered(store)
<1>1. \A s \in Sessions :
        new[s] = IF store[s].status = "running"
                 THEN [store[s] EXCEPT !.status = "failed", !.turn = NoTurn] ELSE store[s]
  BY DEF Recovered
<1>2. store \in Stores BY DEF Sane
<1>3. new \in Stores BY <1>2 DEF Recovered, Stores, Statuses, Outcomes
<1>4. \A s \in Sessions : /\ new[s].events = store[s].events
                          /\ new[s].status # "running"
                          /\ Has(new, s) <=> Has(store, s)
  BY <1>1, <1>2 DEF Stores, Has
<1>5. \A s \in Sessions : new[s].turn = NoTurn
  BY <1>1, <1>2 DEF Stores, Sane
<1> HIDE DEF new
<1>6. Existing(new) = Existing(store) BY <1>4 DEF Existing
<1>7. Sane(new) BY <1>3, <1>4, <1>5, <1>6 DEF Sane
<1> QED BY <1>4, <1>5, <1>7 DEF new

(***************************************************************************)
(* The invariant.                                                          *)
(***************************************************************************)
LEMMA InitInv == Init => StoreInv
<1> SUFFICES ASSUME Init PROVE StoreInv OBVIOUS
<1>1. Sane(Empty) /\ ~TooBig(Empty) BY EmptyIsSane
<1>2. Extends(Empty, Empty) BY <1>1, ExtendsItself DEF Sane
<1> QED BY <1>1, <1>2 DEF Init, StoreInv

\* However #persist ends, the file is a version that extends what was
\* acknowledged before, and memory is what is acknowledged now.
LEMMA PersistInv ==
  ASSUME StoreInv, NEW new, Sane(new), Extends(acked, new), Persist(new)
  PROVE  StoreInv'
<1>1. CASE Saved(new) /\ ~TooBig(new)
  <2>1. Extends(new, new) BY ExtendsItself DEF Sane
  <2> QED BY <1>1, <2>1 DEF Saved, StoreInv
<1>2. CASE NotSaved(new)
  BY <1>2 DEF NotSaved, RollBack, StoreInv
<1>3. CASE SavedButThrew(new) /\ ~TooBig(new)
  BY <1>3 DEF SavedButThrew, RollBack, StoreInv
<1>4. CASE Killed(new) /\ ~TooBig(new)
  <2>1. file' = file \/ file' = new BY <1>4 DEF Killed
  <2>2. up' = FALSE /\ acked' = acked BY <1>4 DEF Killed
  <2> QED BY <1>4, <2>1, <2>2 DEF StoreInv
<1> QED BY <1>1, <1>2, <1>3, <1>4 DEF Persist

LEMMA NextInv == StoreInv /\ [Next]_vars => StoreInv'
<1> SUFFICES ASSUME StoreInv, [Next]_vars PROVE StoreInv' OBVIOUS
<1>r. ASSUME Refused \/ Ignored PROVE StoreInv'
  BY <1>r DEF Refused, Ignored, StoreInv
<1>u. up => mem = acked /\ Sane(mem) BY DEF StoreInv
<1>1. ASSUME NEW s \in Sessions, Create(s) PROVE StoreInv'
  <2>1. CASE Refused BY <1>r, <2>1
  <2>2. CASE ~Refused
    <3>1. /\ up /\ ~(Cardinality(Existing(mem)) >= MaxSessions) /\ ~Has(mem, s)
          /\ Persist([mem EXCEPT ![s].status = "idle"])
      BY <1>1, <2>2 DEF Create
    <3> QED BY <1>u, <3>1, CreateIsSane, PersistInv
  <2> QED BY <2>1, <2>2
<1>2. ASSUME NEW s \in Sessions, NEW e \in Events, AppendEvent(s, e) PROVE StoreInv'
  <2>1. CASE Refused \/ Ignored BY <1>r, <2>1
  <2>2. CASE ~(Refused \/ Ignored)
    <3>1. up /\ ~Full(s) /\ Persist([mem EXCEPT ![s].events = Append(@, e)])
      BY <1>2, <2>2 DEF AppendEvent
    <3> QED BY <1>u, <3>1, AppendIsSane, PersistInv DEF Full
  <2> QED BY <2>1, <2>2
<1>3. ASSUME NEW s \in Sessions, NEW status \in Outcomes \cup {"running"},
             NEW turn \in Turns \cup {NoTurn}, status # "running" => turn = NoTurn,
             SetStatus(s, status, turn)
      PROVE  StoreInv'
  <2>1. CASE Ignored BY <1>r, <2>1
  <2>2. CASE ~Ignored
    <3>1. up /\ Has(mem, s) /\ Persist([mem EXCEPT ![s].status = status, ![s].turn = turn])
      BY <1>3, <2>2 DEF SetStatus
    <3> QED BY <1>u, <1>3, <3>1, StatusIsSane, PersistInv
  <2> QED BY <2>1, <2>2
<1>4. CASE Crash
  BY <1>4 DEF Crash, StoreInv
<1>5. CASE Restart
  <2>1. Sane(file) /\ Extends(acked, file) /\ ~TooBig(file) BY DEF StoreInv
  <2>2. Extends(acked, Recovered(file)) /\ Sane(Recovered(file))
    BY <2>1, RecoveredIsSane DEF Extends
  <2>3. CASE Saved(file)
    <3>1. Extends(file, file) BY <2>1, ExtendsItself DEF Sane
    <3> QED BY <2>1, <2>3, <3>1 DEF Saved, StoreInv
  <2>4. CASE Persist(Recovered(file)) BY <2>2, <2>4, PersistInv
  <2> QED BY <1>5, <2>3, <2>4 DEF Restart
<1>6. CASE UNCHANGED vars
  BY <1>6 DEF vars, StoreInv
<1>7. ASSUME NEW s \in Sessions, NEW t \in Turns, SetStatus(s, "running", t) PROVE StoreInv'
  BY <1>3, <1>7
<1>8. ASSUME NEW s \in Sessions, NEW o \in Outcomes, SetStatus(s, o, NoTurn) PROVE StoreInv'
  BY <1>3, <1>8 DEF Outcomes
<1> QED BY <1>1, <1>2, <1>4, <1>5, <1>6, <1>7, <1>8 DEF Next

(***************************************************************************)
(* What follows from it.                                                   *)
(***************************************************************************)
\* No event and no session that a call acknowledged is ever lost, the file can
\* always be loaded again, and readers see exactly what was acknowledged:
\* whatever limits, failures and kills #persist and its callers run into.
THEOREM NothingAckedIsLost == Spec => []AckedSurvives
<1>1. StoreInv => AckedSurvives
  BY DEF StoreInv, AckedSurvives, Sane, Extends, Loadable
<1> QED BY InitInv, NextInv, <1>1, PTL DEF Spec

\* A store that comes up knows no running session and no active turn, in
\* memory and in its file, and has every event of the file it found
\* (#loadFromDisk).
THEOREM RestartRecovers == Spec => RestartFailsRunning
<1> DEFINE Recovers == ~up /\ up' =>
      /\ file' = mem'
      /\ \A s \in Sessions : /\ mem'[s].status # "running"
                             /\ mem'[s].turn = NoTurn
                             /\ mem'[s].events = file[s].events
<1>1. StoreInv /\ [Next]_vars => [Recovers]_vars
  <2> SUFFICES ASSUME StoreInv, Next, ~up, up' PROVE Recovers OBVIOUS
  <2>1. Restart
    BY DEF Next, Create, AppendEvent, SetStatus, Crash
  <2>2. Saved(Recovered(file))
    BY <2>1 DEF Restart, Persist, NotSaved, SavedButThrew, RollBack, Killed
  <2>3. file' = Recovered(file) /\ mem' = Recovered(file) BY <2>2 DEF Saved
  <2>4. Sane(file) BY DEF StoreInv
  <2> QED BY <2>3, <2>4, RecoveredIsSane
<1>2. StoreInv /\ [Next]_vars => StoreInv' BY NextInv
<1> QED BY InitInv, <1>1, <1>2, PTL DEF Spec, RestartFailsRunning
==============================================================================
