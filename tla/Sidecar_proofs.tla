---------------------------- MODULE Sidecar_proofs ----------------------------
(***************************************************************************)
(* The process behind the window, from both sides.                         *)
(*                                                                         *)
(* What NodeHostSupervisor guarantees for any number of threads and        *)
(* processes: the types, that no process is orphaned, and that a start     *)
(* which answers ok was answered by its own child.                         *)
(*                                                                         *)
(* What the host that runs there guarantees for any number of callers:     *)
(* ClosedForGood.                                                          *)
(***************************************************************************)
EXTENDS Sidecar, HostLifecycle, FiniteSetTheorems, TLAPS

\* What a call past the lock knows of the state and of the child.
Phase(c) ==
  /\ at[c] \in {"spawning", "polling", "probing"} => call[c] = "start" /\ state = "starting"
  /\ at[c] \in {"polling", "probing", "killing", "awaiting"} => child # Nobody

\* The port is held by a process that runs.
ServingAlive == serving # Nobody => Alive(serving)

\* While supervision works every process that runs is the child.
Owned == Supervised => \A p \in Procs : Alive(p) => child = p

\* Not started, or stopped: there is no child.
NoChildAtRest == state \in {"created", "stopped"} => child = Nobody

\* Before a spawn, and after a failure that nothing below the supervisor
\* caused, the child that will be overwritten no longer runs.
DeadBeforeSpawn ==
  faults = {} /\ ((lock = Nobody /\ state = "failed") \/ \E c \in Threads : at[c] = "spawning")
    => (child # Nobody => ~Alive(child))

IInv == /\ TypeOK
        /\ \A c \in Threads : Phase(c)
        /\ ServingAlive
        /\ Owned
        /\ NoChildAtRest
        /\ DeadBeforeSpawn

USE SidecarAssumption

\* Initially there is no process and no thread is in a call.
LEMMA InitInv == SidecarInit => IInv
<1>1. SidecarInit => TypeOK
  BY DEF SidecarInit, TypeOK, SidecarStates, LockHeld, PastLock
<1>2. SidecarInit => /\ \A c \in Threads : Phase(c)
              /\ ServingAlive /\ Owned /\ NoChildAtRest /\ DeadBeforeSpawn
  BY DEF SidecarInit, Phase, ServingAlive, Owned, NoChildAtRest, DeadBeforeSpawn, Alive
<1> QED
  BY <1>1, <1>2 DEF IInv

\* The types, action by action.
LEMMA NextType == TypeOK /\ (\A c \in Threads : Phase(c)) /\ [SidecarNext]_sidecarVars => TypeOK'
<1> SUFFICES ASSUME TypeOK, \A c \in Threads : Phase(c), [SidecarNext]_sidecarVars
             PROVE  TypeOK'
  OBVIOUS
<1> USE DEF TypeOK, SidecarStates, LockHeld, PastLock, Goto, Answer
<1>1. ASSUME NEW c \in Threads, NEW which \in {"start", "stop"}, Call(c, which) PROVE TypeOK'
  BY <1>1 DEF Call
<1>2. ASSUME NEW c \in Threads, Start(c) PROVE TypeOK'
  BY <1>2 DEF Start, AnswersAtOnce, Enters, LockFree
<1>3. ASSUME NEW c \in Threads, Stop(c) PROVE TypeOK'
  BY <1>3 DEF Stop, AnswersAtOnce, Enters, LockFree
<1>4. ASSUME NEW c \in Threads, SpawnFails(c) PROVE TypeOK'
  BY <1>4 DEF SpawnFails
<1>5. ASSUME NEW c \in Threads, NEW p \in Procs, Spawn(c, p) PROVE TypeOK'
  BY <1>5 DEF Spawn
<1>6. ASSUME NEW c \in Threads, PollExited(c) PROVE TypeOK'
  BY <1>6 DEF PollExited
<1>7. ASSUME NEW c \in Threads, PollFails(c) PROVE TypeOK'
  BY <1>7 DEF PollFails, Fault
<1>8. ASSUME NEW c \in Threads, PollAlive(c) PROVE TypeOK'
  BY <1>8 DEF PollAlive
<1>9. ASSUME NEW c \in Threads, Healthy(c) PROVE TypeOK'
  BY <1>9 DEF Healthy
<1>10. ASSUME NEW c \in Threads, NotYetHealthy(c) PROVE TypeOK'
  BY <1>10 DEF NotYetHealthy
<1>11. ASSUME NEW c \in Threads, HealthTimeout(c) PROVE TypeOK'
  BY <1>11 DEF HealthTimeout
<1>12. ASSUME NEW c \in Threads, Reap(c) PROVE TypeOK'
  <2>1. CASE Reaped(c) /\ UNCHANGED faults
    <3>1. CASE call[c] = "start" /\ Answer(c, "health_timeout") /\ UNCHANGED state
      BY <1>12, <2>1, <3>1 DEF Reap, Reaped
    <3>2. CASE call[c] = "stop" /\ Answer(c, "ok") /\ state' = "stopped"
      BY <1>12, <2>1, <3>2 DEF Reap, Reaped
    <3> QED BY <2>1, <3>1, <3>2 DEF Reaped
  <2>2. CASE Fault("wait") /\ NotReaped(c)
    BY <1>12, <2>2 DEF Reap, NotReaped, Fault
  <2>3. CASE Goto(c, "killing") /\ UNCHANGED <<unix, state, child, proc, serving, faults>>
    BY <1>12, <2>3 DEF Reap
  <2> QED
    BY <1>12, <2>1, <2>2, <2>3 DEF Reap
<1>13. ASSUME NEW c \in Threads, Kill(c) PROVE TypeOK'
  <2>1. CASE Fault("kill") /\ NotReaped(c)
    BY <1>13, <2>1 DEF Kill, NotReaped, Fault
  <2>2. CASE proc' = [proc EXCEPT ![child] = IF @ = "up" THEN "dying" ELSE @]
             /\ Goto(c, "awaiting") /\ UNCHANGED <<unix, state, child, serving, faults>>
    <3>1. child \in Procs /\ at[c] = "killing"
      BY <1>13 DEF Kill, Phase
    <3>2. proc' \in [Procs -> {"unborn", "up", "dying", "exited", "signalled"}]
      BY <2>2, <3>1
    <3> QED
      BY <2>2, <3>1, <3>2
  <2> QED
    BY <1>13, <2>1, <2>2 DEF Kill
<1>14. ASSUME NEW c \in Threads, WaitTimesOut(c) PROVE TypeOK'
  BY <1>14 DEF WaitTimesOut, NotReaped, Fault
<1>15. ASSUME NEW c \in Threads, WaitFails(c) PROVE TypeOK'
  BY <1>15 DEF WaitFails, NotReaped, Fault
<1>16. ASSUME NEW c \in Threads, WaitSees(c) PROVE TypeOK'
  BY <1>16 DEF WaitSees, Reaped
<1>17. ASSUME NEW p \in Procs, Bind(p) PROVE TypeOK'
  BY <1>17 DEF Bind, threadVars
<1>18. ASSUME NEW p \in Procs, NEW how \in {"exited", "signalled"}, Ends(p, how) PROVE TypeOK'
  BY <1>18 DEF Ends, threadVars
<1>19. CASE UNCHANGED sidecarVars
  BY <1>19 DEF sidecarVars, threadVars
<1> QED
  BY <1>1, <1>2, <1>3, <1>4, <1>5, <1>6, <1>7, <1>8, <1>9, <1>10, <1>11, <1>12, <1>13, <1>14, <1>15, <1>16, <1>17, <1>18, <1>19 DEF SidecarNext, Thread

\* The other parts, action by action.
LEMMA NextInv == IInv /\ [SidecarNext]_sidecarVars => IInv'
<1> SUFFICES ASSUME IInv, [SidecarNext]_sidecarVars
             PROVE  IInv'
  OBVIOUS
<1> DEFINE Rest == /\ \A t \in Threads : Phase(t)
                   /\ ServingAlive /\ Owned /\ NoChildAtRest /\ DeadBeforeSpawn
<1>0. TypeOK'
  BY NextType DEF IInv
<1> USE <1>0 DEF IInv, TypeOK, SidecarStates, LockHeld, PastLock, Goto, Answer, Alive, Phase,
                 ServingAlive, Owned, NoChildAtRest, DeadBeforeSpawn, Supervised, Spawned
<1>1. ASSUME NEW c \in Threads, NEW which \in {"start", "stop"}, Call(c, which) PROVE Rest'
  BY <1>1 DEF Call
<1>2. ASSUME NEW c \in Threads, Start(c) PROVE Rest'
  BY <1>2 DEF Start, AnswersAtOnce, Enters, LockFree
<1>3. ASSUME NEW c \in Threads, Stop(c) PROVE Rest'
  BY <1>3 DEF Stop, AnswersAtOnce, Enters, LockFree
<1>4. ASSUME NEW c \in Threads, SpawnFails(c) PROVE Rest'
  BY <1>4 DEF SpawnFails
<1>5. ASSUME NEW c \in Threads, NEW p \in Procs, Spawn(c, p) PROVE Rest'
  BY <1>5 DEF Spawn
<1>6. ASSUME NEW c \in Threads, PollExited(c) PROVE Rest'
  BY <1>6 DEF PollExited, SeenExited
<1>7. ASSUME NEW c \in Threads, PollFails(c) PROVE Rest'
  BY <1>7 DEF PollFails, Fault
<1>8. ASSUME NEW c \in Threads, PollAlive(c) PROVE Rest'
  BY <1>8 DEF PollAlive, SeenExited
<1>9. ASSUME NEW c \in Threads, Healthy(c) PROVE Rest'
  BY <1>9 DEF Healthy
<1>10. ASSUME NEW c \in Threads, NotYetHealthy(c) PROVE Rest'
  BY <1>10 DEF NotYetHealthy
<1>11. ASSUME NEW c \in Threads, HealthTimeout(c) PROVE Rest'
  BY <1>11 DEF HealthTimeout
<1>12. ASSUME NEW c \in Threads, Reap(c) PROVE Rest'
  BY <1>12 DEF Reap, Reaped, NotReaped, Fault, SeenExited
<1>13. ASSUME NEW c \in Threads, Kill(c) PROVE Rest'
  BY <1>13 DEF Kill, NotReaped, Fault
<1>14. ASSUME NEW c \in Threads, WaitTimesOut(c) PROVE Rest'
  BY <1>14 DEF WaitTimesOut, NotReaped, Fault
<1>15. ASSUME NEW c \in Threads, WaitFails(c) PROVE Rest'
  BY <1>15 DEF WaitFails, NotReaped, Fault
<1>16. ASSUME NEW c \in Threads, WaitSees(c) PROVE Rest'
  BY <1>16 DEF WaitSees, Reaped, SeenExited
<1>17. ASSUME NEW p \in Procs, Bind(p) PROVE Rest'
  BY <1>17 DEF Bind, threadVars
<1>18. ASSUME NEW p \in Procs, NEW how \in {"exited", "signalled"}, Ends(p, how) PROVE Rest'
  BY <1>18 DEF Ends, threadVars
<1>19. CASE UNCHANGED sidecarVars
  BY <1>19 DEF sidecarVars, threadVars
<1> QED
  BY <1>1, <1>2, <1>3, <1>4, <1>5, <1>6, <1>7, <1>8, <1>9, <1>10, <1>11, <1>12, <1>13, <1>14, <1>15, <1>16, <1>17, <1>18, <1>19 DEF SidecarNext, Thread

\* IInv is an invariant of the supervisor.
LEMMA Invariance == SidecarSpec => []IInv
<1> QED
  BY InitInv, NextInv, PTL DEF SidecarSpec

\* Every variable has its type and the operation lock is a lock, for any
\* threads that call start() and stop() and any processes.
THEOREM TypeCorrect == SidecarSpec => []TypeOK
<1>1. IInv => TypeOK
  BY DEF IInv
<1> QED
  BY <1>1, Invariance, PTL

\* No process is orphaned: while waits succeed, and no process is started
\* after a kill that failed or timed out, whatever runs is the child, and
\* nothing runs when the supervisor is not started or has stopped.
THEOREM NoProcessOrphaned == SidecarSpec => []NoOrphan
<1>1. IInv => NoOrphan
  BY SidecarAssumption DEF IInv, Owned, NoChildAtRest, NoOrphan
<1> QED
  BY <1>1, Invariance, PTL

\* A start that answers ok was answered by its own child.
THEOREM OwnChildServes == SidecarSpec => RunningIsOwnChild
<1> DEFINE Own == Supervised' /\ state' = "running" /\ state # "running" => serving = child
<1>1. IInv /\ IInv' /\ [SidecarNext]_sidecarVars => [Own]_sidecarVars
  <2> SUFFICES ASSUME IInv, SidecarNext, Supervised', state' = "running", state # "running"
               PROVE  serving = child
    BY DEF sidecarVars
  <2>1. PICK c \in Threads : Healthy(c)
    BY DEF SidecarNext, Thread, Call, Start, Stop, AnswersAtOnce, Enters, SpawnFails, Spawn,
           PollExited, PollFails, PollAlive, NotYetHealthy, HealthTimeout, Reap, Reaped,
           NotReaped, Kill, WaitTimesOut, WaitFails, WaitSees, Bind, Ends
  <2>2. Supervised
    BY <2>1 DEF Healthy, Supervised, Spawned
  <2> QED
    BY <2>1, <2>2 DEF Healthy, IInv, TypeOK, ServingAlive, Owned
<1> QED
  BY <1>1, Invariance, PTL DEF SidecarSpec, RunningIsOwnChild

(***************************************************************************)
(* The host.  Its invariant relates what listens to the calls that will    *)
(* close it, and a close that waits to the start it waits for.             *)
(***************************************************************************)
Waits == {"idle", "starting", "waiting", "resuming", "done", "failed"}

\* A caller is neither the absent one nor a word for what a call waits for.
CallersAreNew == NoCaller \notin Callers /\ Callers \cap Waits = {}

HostTypes ==
  /\ starter \in Callers \cup {NoCaller} /\ server \in Callers \cup {NoCaller}
  /\ listening \subseteq Callers
  /\ hostCall \in [Callers -> Waits \cup Callers]

\* While no start has succeeded there is no server.
Serverless == starter = NoCaller /\ server = NoCaller /\ listening = {}

\* At most one start ever succeeds; what it made is the host's server, or a
\* close is about to end it.
OneServer ==
  /\ starter # NoCaller => server = NoCaller /\ listening = {} /\ hostCall[starter] = "starting"
  /\ hostState \in {"unborn", "refused", "created"} => Serverless
  /\ \A x, y \in listening : x = y
  /\ \A x \in listening : (server = x /\ hostState = "running") \/ \E c \in Callers : hostCall[c] = x
  /\ \A c \in Callers : hostCall[c] \in Callers => hostState \in {"closing", "closed"} /\ starter = NoCaller
  /\ hostState = "closing" => \E c \in Callers : hostCall[c] \in Callers
  /\ server # NoCaller => hostState = "running"

\* A close that the host took is done, under way, or waits.
CloseKept ==
  ~raced => /\ starter # NoCaller => hostState = "starting" /\ Undisturbed
            /\ last = "close" => \/ hostState \in {"closing", "closed"}
                                 \/ \E c \in Callers : hostCall[c] \in {"waiting", "resuming"}

HostInv == HostTypes /\ OneServer /\ CloseKept

LEMMA HostInitInv == ASSUME CallersAreNew PROVE HostInit => HostInv
BY DEF CallersAreNew, HostInit, HostInv, HostTypes, OneServer, CloseKept, Serverless, Waits

LEMMA HostNextInv ==
  ASSUME CallersAreNew, HostInv, [HostNext]_hostVars
  PROVE  HostInv'
<1> USE DEF HostTypes, OneServer, CloseKept, Serverless, Waits, CallersAreNew, HostInv
<1>1. CASE UNCHANGED hostVars
  BY <1>1 DEF hostVars, Undisturbed
<1>2. CASE CreateConfig \/ BootstrapFails \/ CreateHost
  BY <1>2 DEF CreateConfig, BootstrapFails, CreateHost, Undisturbed
<1>3. ASSUME NEW c \in Callers, HostStart(c) PROVE HostInv'
  <2>1. HostTypes' BY <1>3 DEF HostStart, To, Undisturbed
  <2>2. OneServer' BY <1>3 DEF HostStart, To, Undisturbed
  <2>3. CASE hostState = "created"
    <3>1. \A d \in Callers : d # c => hostCall'[d] = hostCall[d] BY <1>3, <2>3 DEF HostStart, To
    <3>2. hostCall'[c] = "starting" BY <1>3, <2>3 DEF HostStart, To
    <3>3. hostState' = "starting" /\ last' = "start" BY <1>3, <2>3 DEF HostStart
    <3>4. raced' = (raced \/ ~Undisturbed) BY <1>3, <2>3 DEF HostStart
    <3>5. ~raced' => Undisturbed BY <3>4, Zenon
    <3>6. ASSUME Undisturbed PROVE Undisturbed' BY <3>1, <3>2, <3>6 DEF Undisturbed
    <3>7. CloseKept' BY <3>3, <3>5, <3>6
    <3> QED BY <2>1, <2>2, <3>7
  <2>4. CASE hostState # "created"
    <3>1. /\ UNCHANGED <<hostState, starter, last, raced>>
          /\ hostCall[c] \in {"idle", "failed"}
          /\ hostCall' = [hostCall EXCEPT ![c] = "done"]
      BY <1>3, <2>4 DEF HostStart, To
    <3>2. \A d \in Callers : d # c => hostCall'[d] = hostCall[d] BY <3>1
    <3>3. hostCall'[c] = "done" BY <3>1
    <3>4. ASSUME Undisturbed PROVE Undisturbed' BY <3>2, <3>3, <3>4 DEF Undisturbed
    <3>5. ASSUME NEW d \in Callers, hostCall[d] \in {"waiting", "resuming"}
          PROVE  \E e \in Callers : hostCall'[e] \in {"waiting", "resuming"}
      BY <3>1, <3>2, <3>5
    <3>6. CloseKept' BY <3>1, <3>4, <3>5
    <3> QED BY <2>1, <2>2, <3>6
  <2> QED BY <2>3, <2>4
<1>4. ASSUME NEW c \in Callers, Listens(c) PROVE HostInv'
  <2>1. HostTypes' BY <1>4 DEF Listens, Settle, Undisturbed
  <2>2. OneServer' BY <1>4 DEF Listens, Settle, Undisturbed
  <2>3. starter' = NoCaller /\ UNCHANGED <<last, raced>> BY <1>4 DEF Listens, Settle
  <2>4. ~raced /\ last = "close" => \E d \in Callers : hostCall[d] = "waiting"
    BY <1>4 DEF Listens, Settle, Undisturbed
  <2>5. ASSUME NEW d \in Callers, hostCall[d] = "waiting" PROVE hostCall'[d] = "resuming"
    BY <1>4, <2>5 DEF Listens, Settle
  <2>6. CloseKept' BY <2>3, <2>4, <2>5
  <2> QED BY <2>1, <2>2, <2>6
<1>5. ASSUME NEW c \in Callers, ListenFails(c) PROVE HostInv'
  <2>1. HostTypes' BY <1>5 DEF ListenFails, Settle, Undisturbed
  <2>2. OneServer' BY <1>5 DEF ListenFails, Settle, Undisturbed
  <2>3. starter' = NoCaller /\ UNCHANGED <<last, raced>> BY <1>5 DEF ListenFails, Settle
  <2>4. ~raced /\ last = "close" => \E d \in Callers : hostCall[d] = "waiting"
    BY <1>5 DEF ListenFails, Settle, Undisturbed
  <2>5. ASSUME NEW d \in Callers, hostCall[d] = "waiting" PROVE hostCall'[d] = "resuming"
    BY <1>5, <2>5 DEF ListenFails, Settle
  <2>6. CloseKept' BY <2>3, <2>4, <2>5
  <2> QED BY <2>1, <2>2, <2>6
<1>6. ASSUME NEW c \in Callers, Close(c) PROVE HostInv'
  <2>1. HostTypes' BY <1>6 DEF Close, CloseNow, MustWait, To, Undisturbed
  <2>2. OneServer' BY <1>6 DEF Close, CloseNow, MustWait, To, Undisturbed
  <2>3. CloseKept' BY <1>6 DEF Close, CloseNow, MustWait, To, Undisturbed
  <2> QED BY <2>1, <2>2, <2>3
<1>7. ASSUME NEW c \in Callers, StartSettled(c) PROVE HostInv'
  <2>1. HostTypes' BY <1>7 DEF StartSettled, CloseNow, To, Undisturbed
  <2>2. OneServer' BY <1>7 DEF StartSettled, CloseNow, To, Undisturbed
  <2>3. CloseKept' BY <1>7 DEF StartSettled, CloseNow, To, Undisturbed
  <2> QED BY <2>1, <2>2, <2>3
<1>8. ASSUME NEW c \in Callers, ServerClosed(c) PROVE HostInv'
  <2>1. HostTypes' BY <1>8 DEF ServerClosed, To, Undisturbed
  <2>2. OneServer' BY <1>8 DEF ServerClosed, To, Undisturbed
  <2>3. CloseKept' BY <1>8 DEF ServerClosed, To, Undisturbed
  <2> QED BY <2>1, <2>2, <2>3
<1> QED BY <1>1, <1>2, <1>3, <1>4, <1>5, <1>6, <1>7, <1>8 DEF HostNext

LEMMA AtMostOne ==
  ASSUME NEW S, \A x, y \in S : x = y
  PROVE  Cardinality(S) <= 1
<1>1. CASE S = {} BY <1>1, FS_EmptySet
<1>2. CASE S # {}
  <2> PICK x \in S : TRUE BY <1>2
  <2>1. S = {x} OBVIOUS
  <2> QED BY <2>1, FS_Singleton
<1> QED BY <1>1, <1>2

\* A host whose last call was a close stays closed and leaves no server, for
\* any number of callers that start and close it at any moment (host.ts: close
\* waits for a start, and looks at the state again).
THEOREM HostClosedForGood == ASSUME CallersAreNew PROVE HostSpec => []ClosedForGood
<1>1. HostInv => ClosedForGood
  BY AtMostOne DEF HostInv, HostTypes, OneServer, CloseKept, Waits, CallersAreNew, ClosedForGood, Serverless
<1> QED BY <1>1, HostInitInv, HostNextInv, PTL DEF HostSpec
=============================================================================
