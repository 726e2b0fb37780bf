---------------------------- MODULE HostLifecycle ----------------------------
(***************************************************************************)
(* The life of a loopback host: createLocalAgentHost                       *)
(* (apps/local-agent-host/src/host.ts), the bootstrap from a configuration *)
(* file (configured-host.ts) and the process's entry point, which starts a *)
(* host and closes it at each signal (main.ts).                            *)
(*                                                                         *)
(* Callers call start and close at any time; a caller is the entry point,  *)
(* a handler of SIGINT or SIGTERM, or code that embeds the host.  A caller *)
(* waits for the promise of its call.  A promise that is rejected runs its *)
(* reactions one after the other, so that a start may be called again      *)
(* before a close that waits for the first one goes on.                    *)
(***************************************************************************)
EXTENDS Integers, FiniteSets

CONSTANTS NoCaller, Callers

VARIABLES configFile, \* the configuration file, or "none": a plain host
          hostState,  \* the host's state, "unborn" before it exists
          starter,    \* the caller whose start runs
          listening,  \* callers whose start made a server that listens
          server,     \* the caller whose server the host has
          hostCall,   \* what each caller waits for
          last,       \* the last call the host took (for the properties)
          raced       \* a start was taken before a resumed close went on

hostVars == <<configFile, hostState, starter, listening, server, hostCall, last, raced>>

HostInit ==
  /\ configFile \in {"none", "missing", "valid", "invalid"}
  /\ hostState = "unborn" /\ starter = NoCaller /\ server = NoCaller /\ listening = {}
  /\ hostCall = [c \in Callers |-> "idle"] /\ last = "none"
  /\ raced = FALSE

To(c, what) == hostCall' = [hostCall EXCEPT ![c] = what]

(***************************************************************************)
(* The bootstrap, up to the host that it starts.                           *)
(***************************************************************************)
\* A file that is missing is written, if that is asked for and succeeds.
CreateConfig == /\ hostState = "unborn" /\ configFile = "missing" /\ configFile' = "valid"
                /\ UNCHANGED <<hostState, starter, listening, server, hostCall, last, raced>>

BootstrapFails == /\ hostState = "unborn" /\ configFile \in {"missing", "invalid"}
                  /\ hostState' = "refused"
                  /\ UNCHANGED <<configFile, starter, listening, server, hostCall, last, raced>>

CreateHost == /\ hostState = "unborn" /\ configFile \in {"none", "valid"}
              /\ hostState' = "created"
              /\ UNCHANGED <<configFile, starter, listening, server, hostCall, last, raced>>

(***************************************************************************)
(* start.                                                                  *)
(***************************************************************************)
\* Reactions to a settled promise run before the next task.
Undisturbed == \A c \in Callers : hostCall[c] # "resuming"

HostStart(c) ==
  /\ hostCall[c] \in {"idle", "failed"} /\ hostState \notin {"unborn", "refused"}
  /\ IF hostState = "created"
     THEN /\ hostState' = "starting" /\ starter' = c /\ To(c, "starting")
          /\ last' = "start" /\ raced' = (raced \/ ~Undisturbed)
     ELSE To(c, "done") /\ UNCHANGED <<hostState, starter, last, raced>>
  /\ UNCHANGED <<configFile, listening, server>>

\* startPromise settles: the closes that wait for it are resumed.
Settle(c, what) ==
  /\ Undisturbed /\ starter = c /\ starter' = NoCaller
  /\ hostCall' = [d \in Callers |-> IF d = c THEN what
                                    ELSE IF hostCall[d] = "waiting" THEN "resuming"
                                    ELSE hostCall[d]]
  /\ UNCHANGED <<configFile, last, raced>>

\* The server listens, or the port is taken.
Listens(c) == /\ Settle(c, "done")
              /\ listening' = listening \cup {c} /\ server' = c /\ hostState' = "running"

ListenFails(c) == /\ Settle(c, "failed")
                  /\ server' = NoCaller /\ hostState' = "created" /\ UNCHANGED listening

(***************************************************************************)
(* close.                                                                  *)
(***************************************************************************)
\* Mutant: a host that is starting has no server yet and is closed at once.
MutantMustWait == FALSE

MustWait == hostState = "starting"

\* From the check of the state on, without an await before server.close.
CloseNow(c) ==
  /\ server' = NoCaller
  /\ IF server = NoCaller \/ hostState = "closed"
     THEN hostState' = "closed" /\ To(c, "done")
     ELSE hostState' = "closing" /\ To(c, server)
  /\ UNCHANGED <<configFile, starter, listening, raced>>

Close(c) ==
  /\ hostCall[c] = "idle" /\ hostState \notin {"unborn", "refused"}
  /\ last' = "close"
  /\ IF MustWait
     THEN To(c, "waiting") /\ UNCHANGED <<configFile, hostState, starter, listening, server, raced>>
     ELSE CloseNow(c)

\* The start it waited for has settled; another one may run by now.
StartSettled(c) == hostCall[c] = "resuming" /\ CloseNow(c) /\ UNCHANGED last

\* server.close is done: nobody listens any more.
ServerClosed(c) ==
  /\ Undisturbed /\ hostCall[c] \in Callers
  /\ listening' = listening \ {hostCall[c]}
  /\ hostState' = "closed" /\ To(c, "done")
  /\ UNCHANGED <<configFile, starter, server, last, raced>>

HostNext == \/ CreateConfig \/ BootstrapFails \/ CreateHost
            \/ \E c \in Callers : \/ HostStart(c) \/ Listens(c) \/ ListenFails(c)
                                  \/ Close(c) \/ StartSettled(c) \/ ServerClosed(c)

HostSpec == HostInit /\ [][HostNext]_hostVars

(***************************************************************************)
(* Properties.                                                             *)
(***************************************************************************)
\* When every call has returned and the last one the host took was a close, it
\* is closed and no server of any start listens, whatever the calls overlapped
\* with; at no time two servers listen.  One case is excluded (raced): a start
\* that is repeated as soon as the first one fails, before a close that waited
\* for that failure goes on; the host is then closed although it starts.
ClosedForGood ==
  /\ Cardinality(listening) <= 1
  /\ ~raced /\ last = "close" /\ (\A c \in Callers : hostCall[c] \in {"idle", "failed", "done"})
       => hostState = "closed" /\ listening = {}
=============================================================================
