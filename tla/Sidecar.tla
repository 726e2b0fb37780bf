------------------------------- MODULE Sidecar -------------------------------
(***************************************************************************)
(* NodeHostSupervisor (apps/desktop/src-tauri/src/sidecar.rs): start() and *)
(* stop() of the Node process that serves the Local Agent API, called from *)
(* several threads, and the operating system under it.                     *)
(*                                                                         *)
(* A call runs under the operation lock; between two of its system calls   *)
(* the process may bind its port, exit or be killed.  at[c] says where     *)
(* thread c is:                                                            *)
(*   idle      in no call                                                  *)
(*   blocked   at the operation lock                                       *)
(*   spawning  in launcher.spawn                                           *)
(*   polling   in start's loop, before try_wait                            *)
(*   probing   in start's loop, before the health probe                    *)
(*   reaping   in force_stop_child, before try_wait                        *)
(*   killing   in force_stop_child, before kill                            *)
(*   awaiting  in wait_with_timeout                                        *)
(***************************************************************************)

CONSTANTS Threads, \* threads that call start() and stop()
          Procs,   \* processes that may be spawned
          Nobody   \* no process, no thread

ASSUME SidecarAssumption == Nobody \notin Threads \cup Procs

VARIABLES unix,    \* a killed process has no exit code there; it has on Windows
          state,   \* SidecarState
          child,   \* the child the supervisor owns
          lock,    \* the thread that holds the operation lock
          at,      \* where each thread is
          call,    \* the call it is in, or was in last
          answer,  \* what that call answered
          proc,    \* the processes
          serving, \* the process that answers on the port
          faults   \* what has gone wrong below the supervisor so far

threadVars == <<lock, at, call, answer>>
sidecarVars == <<unix, state, child, threadVars, proc, serving, faults>>

SidecarStates == {"created", "starting", "running", "stopping", "stopped", "failed"}
Alive(p) == proc[p] \in {"up", "dying"}   \* dying: the kill is delivered, not yet done
Spawned  == {p \in Procs : proc[p] # "unborn"}

SidecarInit ==
  /\ unix \in BOOLEAN
  /\ state = "created"
  /\ child = Nobody /\ lock = Nobody
  /\ at = [c \in Threads |-> "idle"]
  /\ call = [c \in Threads |-> "none"]
  /\ answer = [c \in Threads |-> "none"]
  /\ proc = [p \in Procs |-> "unborn"]
  /\ serving = Nobody
  /\ faults = {}

(***************************************************************************)
(* What the operating system tells.                                        *)
(***************************************************************************)
\* try_wait answers the exit code: a process killed by a signal has none.
SeenExited == child # Nobody => proc[child] = "exited"

\* kill, try_wait and the wait may fail; faults remembers that one did.
Fault(kind) == faults' = faults \cup {kind}

Goto(c, where) == at' = [at EXCEPT ![c] = where] /\ UNCHANGED <<lock, call, answer>>

\* The call returns and the operation lock is released.
Answer(c, result) ==
  /\ at' = [at EXCEPT ![c] = "idle"]
  /\ answer' = [answer EXCEPT ![c] = result]
  /\ lock' = Nobody
  /\ UNCHANGED call

(***************************************************************************)
(* A call and the operation lock.                                          *)
(***************************************************************************)
Call(c, which) ==
  /\ at[c] = "idle"
  /\ at' = [at EXCEPT ![c] = "blocked"]
  /\ call' = [call EXCEPT ![c] = which]
  /\ answer' = [answer EXCEPT ![c] = "none"]
  /\ UNCHANGED <<unix, state, child, lock, proc, serving, faults>>

\* Mutant: no lock but the state's own.
MutantLockFree == TRUE

LockFree == lock = Nobody

AnswersAtOnce(c, result) == LockFree /\ at[c] = "blocked" /\ Answer(c, result)

Enters(c, where) == /\ LockFree /\ at[c] = "blocked"
                    /\ lock' = c
                    /\ at' = [at EXCEPT ![c] = where]
                    /\ UNCHANGED <<call, answer>>

\* start(): the match on the state; starting and stopping are an error.
Start(c) ==
  /\ call[c] = "start"
  /\ \/ /\ state \in {"running", "starting", "stopping"}
        /\ AnswersAtOnce(c, IF state = "running" THEN "ok" ELSE "start_failed")
        /\ UNCHANGED state
     \/ /\ state \in {"created", "stopped", "failed"}
        /\ Enters(c, "spawning")
        /\ state' = "starting"
  /\ UNCHANGED <<unix, child, proc, serving, faults>>

\* stop(): the match on the state.
Stop(c) ==
  /\ call[c] = "stop"
  /\ \/ /\ state \in {"created", "stopped", "stopping"}
        /\ AnswersAtOnce(c, "ok")
        /\ state' = IF state = "stopping" THEN state ELSE "stopped"
     \/ /\ state \in {"starting", "running", "failed"}
        /\ Enters(c, "reaping")
        /\ state' = "stopping"
  /\ UNCHANGED <<unix, child, proc, serving, faults>>

(***************************************************************************)
(* start(): spawn, then poll until the child is healthy.                   *)
(***************************************************************************)
SpawnFails(c) ==
  /\ at[c] = "spawning"
  /\ state' = "failed"
  /\ Answer(c, "start_failed")
  /\ UNCHANGED <<unix, child, proc, serving, faults>>

\* The new child takes the place of the one that was there.
Spawn(c, p) ==
  /\ at[c] = "spawning" /\ proc[p] = "unborn"
  /\ proc' = [proc EXCEPT ![p] = "up"]
  /\ child' = p
  /\ Goto(c, "polling")
  /\ UNCHANGED <<unix, state, serving, faults>>

PollExited(c) ==
  /\ at[c] = "polling" /\ SeenExited
  /\ state' = "failed" /\ child' = Nobody
  /\ Answer(c, "start_failed")
  /\ UNCHANGED <<unix, proc, serving, faults>>

\* try_wait fails: the child is dropped as it is.
PollFails(c) ==
  /\ at[c] = "polling" /\ child # Nobody
  /\ Fault("wait")
  /\ state' = "failed" /\ child' = Nobody
  /\ Answer(c, "stop_failed")
  /\ UNCHANGED <<unix, proc, serving>>

PollAlive(c) ==
  /\ at[c] = "polling" /\ ~SeenExited
  /\ Goto(c, "probing")
  /\ UNCHANGED <<unix, state, child, proc, serving, faults>>

Healthy(c) ==
  /\ at[c] = "probing" /\ serving # Nobody
  /\ state' = "running"
  /\ Answer(c, "ok")
  /\ UNCHANGED <<unix, child, proc, serving, faults>>

\* No answer, or too slow a one, before the deadline.
NotYetHealthy(c) ==
  /\ at[c] = "probing"
  /\ Goto(c, "polling")
  /\ UNCHANGED <<unix, state, child, proc, serving, faults>>

\* Mutant: the child is left to itself.
MutantHealthTimeout(c) ==
  /\ at[c] = "probing"
  /\ state' = "failed" /\ child' = Nobody
  /\ Answer(c, "health_timeout")
  /\ UNCHANGED <<unix, proc, serving, faults>>

HealthTimeout(c) ==
  /\ at[c] = "probing"
  /\ state' = "failed"
  /\ Goto(c, "reaping")
  /\ UNCHANGED <<unix, child, proc, serving, faults>>

(***************************************************************************)
(* force_stop_child, for start() after its deadline and for stop().        *)
(***************************************************************************)
\* Ok(()): the child is gone, or there was none.
Reaped(c) ==
  /\ child' = Nobody
  /\ \/ call[c] = "start" /\ Answer(c, "health_timeout") /\ UNCHANGED state
     \/ call[c] = "stop" /\ Answer(c, "ok") /\ state' = "stopped"
  /\ UNCHANGED <<unix, proc, serving>>

\* Mutant: the child is forgotten.
MutantNotReaped(c) == /\ state' = "failed" /\ child' = Nobody
                      /\ Answer(c, "stop_failed")
                      /\ UNCHANGED <<unix, proc, serving>>

\* Err: the child is kept, for a retry.
NotReaped(c) == /\ state' = "failed"
                /\ Answer(c, "stop_failed")
                /\ UNCHANGED <<unix, child, proc, serving>>

Reap(c) ==
  /\ at[c] = "reaping"
  /\ \/ SeenExited /\ Reaped(c) /\ UNCHANGED faults
     \/ child # Nobody /\ Fault("wait") /\ NotReaped(c)
     \/ /\ ~SeenExited
        /\ Goto(c, "killing")
        /\ UNCHANGED <<unix, state, child, proc, serving, faults>>

\* Killing a process that has ended is no error.
Kill(c) ==
  /\ at[c] = "killing"
  /\ \/ Fault("kill") /\ NotReaped(c)
     \/ /\ proc' = [proc EXCEPT ![child] = IF @ = "up" THEN "dying" ELSE @]
        /\ Goto(c, "awaiting")
        /\ UNCHANGED <<unix, state, child, serving, faults>>

\* Mutant: the wait has no bound.
MutantWaitTimesOut(c) == at[c] = "awaiting" /\ FALSE /\ UNCHANGED sidecarVars

\* STOP_TIMEOUT has passed and no exit code was seen.
WaitTimesOut(c) ==
  /\ at[c] = "awaiting" /\ ~SeenExited
  /\ IF Alive(child) THEN Fault("slow") ELSE UNCHANGED faults
  /\ NotReaped(c)

WaitFails(c) == at[c] = "awaiting" /\ Fault("wait") /\ NotReaped(c)

WaitSees(c) == at[c] = "awaiting" /\ SeenExited /\ Reaped(c) /\ UNCHANGED faults

(***************************************************************************)
(* The processes.                                                          *)
(***************************************************************************)
\* A process binds the port; /health answers from then on.
Bind(p) == /\ proc[p] = "up" /\ serving = Nobody
           /\ serving' = p
           /\ UNCHANGED <<unix, state, child, threadVars, proc, faults>>

\* A process ends by itself, by a signal from elsewhere, or by the kill.
Ends(p, how) ==
  /\ Alive(p)
  /\ how \in IF ~unix THEN {"exited"}
             ELSE IF proc[p] = "dying" THEN {"signalled"} ELSE {"exited", "signalled"}
  /\ proc' = [proc EXCEPT ![p] = how]
  /\ serving' = IF serving = p THEN Nobody ELSE serving
  /\ UNCHANGED <<unix, state, child, threadVars, faults>>

Thread(c) ==
  \/ \E which \in {"start", "stop"} : Call(c, which)
  \/ Start(c) \/ Stop(c)
  \/ SpawnFails(c) \/ \E p \in Procs : Spawn(c, p)
  \/ PollExited(c) \/ PollFails(c) \/ PollAlive(c)
  \/ Healthy(c) \/ NotYetHealthy(c) \/ HealthTimeout(c)
  \/ Reap(c) \/ Kill(c) \/ WaitTimesOut(c) \/ WaitFails(c) \/ WaitSees(c)

SidecarNext == \/ \E c \in Threads : Thread(c)
               \/ \E p \in Procs : Bind(p) \/ \E how \in {"exited", "signalled"} : Ends(p, how)

SidecarSpec == SidecarInit /\ [][SidecarNext]_sidecarVars

\* System calls return and deadlines pass, the one of start's loop however
\* often the loop has gone round; nothing is asked of the processes.
SidecarFairness == \A c \in Threads :
  /\ WF_sidecarVars(SpawnFails(c) \/ \E p \in Procs : Spawn(c, p))
  /\ WF_sidecarVars(PollExited(c) \/ PollAlive(c))
  /\ SF_sidecarVars(HealthTimeout(c))
  /\ WF_sidecarVars(Reap(c)) /\ WF_sidecarVars(Kill(c))
  /\ WF_sidecarVars(WaitTimesOut(c) \/ WaitSees(c))

FairSidecar == SidecarSpec /\ SidecarFairness

(***************************************************************************)
(* Properties.                                                             *)
(***************************************************************************)
\* A call is past the lock only as its holder.
PastLock(c) == at[c] \notin {"idle", "blocked"}
LockHeld == \A c \in Threads : PastLock(c) <=> lock = c

\* Every variable has its type; the operation lock is a lock.
TypeOK ==
  /\ unix \in BOOLEAN
  /\ state \in SidecarStates
  /\ child \in Procs \cup {Nobody} /\ serving \in Procs \cup {Nobody}
  /\ lock \in Threads \cup {Nobody}
  /\ at \in [Threads -> {"idle", "blocked", "spawning", "polling", "probing",
                         "reaping", "killing", "awaiting"}]
  /\ LockHeld
  /\ call \in [Threads -> {"none", "start", "stop"}]
  /\ answer \in [Threads -> {"none", "ok", "start_failed", "stop_failed", "health_timeout"}]
  /\ proc \in [Procs -> {"unborn", "up", "dying", "exited", "signalled"}]
  /\ faults \subseteq {"wait", "kill", "slow"}

\* The supervisor can be held to its promise as long as it can see its child,
\* and kills work or nothing is started after one that did not.
Supervised == /\ "wait" \notin faults
              /\ faults = {} \/ \A p, q \in Spawned : p = q

\* No process outlives the supervisor's knowledge of it (docs/architecture.md:
\* no orphans, concurrent starts never make several children): in any mix of
\* calls, exits, failed kills and timeouts a process that runs is the child,
\* and a supervisor that is not started or has stopped has none.
NoOrphan ==
  Supervised => \A p \in Procs : Alive(p) => /\ child = p
                                             /\ state \notin {"created", "stopped"}

\* A start that answers ok was answered by its own child, not by a process
\* that an earlier start left behind on the port.
RunningIsOwnChild ==
  [][Supervised' /\ state' = "running" /\ state # "running" => serving = child]_sidecarVars

\* A call that holds the lock lets it go, although the child never gets
\* healthy and ignores the kill: start() and stop() are bounded, and the lock is
\* free again and again.
LockReleased == []<>(lock = Nobody)
=============================================================================
