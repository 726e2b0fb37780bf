----------------------------- MODULE ConfigPanel -----------------------------
(***************************************************************************)
(* The settings of the desktop: loadConfig, saveProvider, saveRoute and    *)
(* the two deletions of mountDesktopUi (apps/desktop/src/ui.ts), over the  *)
(* commands of config-client.ts and credential-client.ts and the routes of *)
(* #handleConfig (packages/local-agent-api/src/server.ts).                 *)
(*                                                                         *)
(* Nothing keeps the user from starting a call while others run: requests  *)
(* are served, and answers come, in any order.  The host changes its       *)
(* configuration one call at a time, first in memory, where a load reads   *)
(* it, and takes the change back if it cannot be saved; ConfigManager has  *)
(* the details.  An entry is a provider or a route, known by the call that *)
(* wrote it; whether the relations between entries forbid a change is      *)
(* arbitrary.                                                              *)
(***************************************************************************)
EXTENDS Integers, Sequences, FiniteSets

CONSTANTS Entries,  \* ids of providers and routes
          MaxCalls  \* bound: calls the user starts

VARIABLES status,   \* configState.status
          snapshot, \* configState.snapshot
          unmounted,
          task,     \* the calls of the panel, in the order they were started
          config,   \* the host's registry
          secrets,  \* entries whose credential the system's store has
          clean     \* no answer failed or was overtaken since the last refresh

panelVars == <<status, snapshot, unmounted, task, config, secrets, clean>>

Absent == 0
Given  == -1        \* an entry nobody has changed yet
NotLoaded == [e \in Entries |-> Absent]

Calls  == DOMAIN task
Idle   == \A c \in Calls : task[c].at = "answered"
Pending(c, verbs, at) == task[c].verb \in verbs /\ task[c].at = at
Change == {"create", "update", "delete"}

PanelInit ==
  /\ config \in [Entries -> {Absent, Given}]
  /\ snapshot = NotLoaded /\ status = "loading"
  /\ unmounted = FALSE /\ task = <<>> /\ secrets = {} /\ clean = FALSE

(***************************************************************************)
(* The panel's calls.                                                      *)
(***************************************************************************)
LoadTask == [verb |-> "load", entry |-> CHOOSE e \in Entries : TRUE, by |-> "panel",
             secret |-> FALSE, at |-> "asked", seen |-> NotLoaded]

\* The user starts it.
Asked(t) ==
  /\ ~unmounted
  /\ Cardinality({c \in Calls : task[c].by = "user"}) < MaxCalls
  /\ task' = Append(task, [t EXCEPT !.by = "user"])
  /\ UNCHANGED <<snapshot, unmounted, config, secrets>>

\* loadConfig: at the connection, and when the user asks for it.
Refresh == /\ Asked(LoadTask) /\ status' = "loading"
           /\ clean' = (clean \/ Idle)

\* The panel is shown when the host is connected, and loads then.
Shown == task # <<>>

\* An entry the panel has seen is updated, another one is created.
Verb(e) == IF snapshot[e] = Absent THEN "create" ELSE "update"

Save(e, secret) ==
  /\ Shown /\ Asked([LoadTask EXCEPT !.entry = e, !.secret = secret,
                            !.verb = IF secret THEN "set" ELSE Verb(e)])
  /\ UNCHANGED <<status, clean>>

Delete(e) == /\ snapshot[e] # Absent
             /\ Asked([LoadTask EXCEPT !.entry = e, !.verb = "delete"])
             /\ UNCHANGED <<status, clean>>

\* An input the client refuses is never sent.
LocalRefuse == /\ Shown /\ ~unmounted /\ status' = "failed"
               /\ UNCHANGED <<snapshot, unmounted, task, config, secrets, clean>>

\* The catch of a save or a deletion.
Fail(c) == /\ status' = "failed" /\ clean' = FALSE
           /\ task' = [task EXCEPT ![c].at = "answered"]
           /\ UNCHANGED <<snapshot, unmounted, config, secrets>>

\* Mutant: the provider is saved beside its credential, not after it.
MutantCredentialSet(c) ==
  /\ Pending(c, {"set"}, "asked")
  /\ task' = [task EXCEPT ![c].verb = Verb(task[c].entry)]
  /\ UNCHANGED <<status, snapshot, unmounted, config, secrets, clean>>

\* The credential is stored; only now the provider is saved.
CredentialSet(c) ==
  /\ Pending(c, {"set"}, "asked")
  /\ secrets' = secrets \cup {task[c].entry}
  /\ task' = [task EXCEPT ![c].verb = Verb(task[c].entry)]
  /\ UNCHANGED <<status, snapshot, unmounted, config, clean>>

CredentialFails(c) == Pending(c, {"set"}, "asked") /\ Fail(c)

\* Mutant: a change that succeeds is not followed by a load.
MutantReload(tasks) == task' = tasks /\ UNCHANGED status

Reload(tasks) ==
  IF unmounted THEN task' = tasks /\ UNCHANGED status
  ELSE task' = Append(tasks, LoadTask) /\ status' = "loading"

Changed(c) ==
  /\ Pending(c, Change, "done")
  /\ Reload([task EXCEPT ![c].at = "answered"])
  /\ UNCHANGED <<snapshot, unmounted, config, secrets, clean>>

ChangeFails(c) == Pending(c, Change, "failed") /\ Fail(c)

\* A load that was started later has been answered before.
Overtaken(c) == \E d \in Calls : d > c /\ Pending(d, {"load"}, "answered")

Loaded(c) ==
  /\ Pending(c, {"load"}, "done")
  /\ snapshot' = task[c].seen /\ status' = "ready"
  /\ clean' = (clean /\ ~Overtaken(c))
  /\ task' = [task EXCEPT ![c].at = "answered"]
  /\ UNCHANGED <<unmounted, config, secrets>>

LoadFails(c) == /\ Pending(c, {"load"}, "failed") /\ status' = "failed"
                /\ task' = [task EXCEPT ![c].at = "answered"]
                /\ UNCHANGED <<snapshot, unmounted, config, secrets, clean>>

Unmounts == /\ ~unmounted /\ unmounted' = TRUE
            /\ UNCHANGED <<status, snapshot, task, config, secrets, clean>>

(***************************************************************************)
(* The host.                                                               *)
(***************************************************************************)
Serve(c, at, seen) == /\ task' = [task EXCEPT ![c].at = at, ![c].seen = seen]
                      /\ UNCHANGED <<status, snapshot, unmounted, secrets, clean>>

ConfigRead(c) == /\ Pending(c, {"load"}, "asked") /\ Serve(c, "done", config)
                 /\ UNCHANGED config

\* configErrorKey: whatever is wrong, the panel only learns that it failed; so
\* it does if the answer is lost, although the change was made.
Refused(c) == /\ \/ task[c].verb # "set" /\ task[c].at = "asked"
                 \/ task[c].at = "done"
              /\ Serve(c, "failed", task[c].seen) /\ UNCHANGED config

Allowed(c) == IF task[c].verb = "create" THEN config[task[c].entry] = Absent
              ELSE config[task[c].entry] # Absent

\* The change is made in memory, under the configuration's lock.
Apply(c) ==
  /\ Pending(c, Change, "asked") /\ Allowed(c)
  /\ ~ \E d \in Calls : task[d].at = "saving"
  /\ config' = [config EXCEPT ![task[c].entry] = IF task[c].verb = "delete" THEN Absent ELSE c]
  /\ Serve(c, "saving", config)

ChangeSaved(c) == Pending(c, Change, "saving") /\ Serve(c, "done", NotLoaded) /\ UNCHANGED config

ChangeUndone(c) == /\ Pending(c, Change, "saving")
                   /\ config' = task[c].seen /\ Serve(c, "failed", NotLoaded)

PanelNext ==
  \/ Refresh \/ LocalRefuse \/ Unmounts
  \/ \E e \in Entries : Delete(e) \/ \E secret \in BOOLEAN : Save(e, secret)
  \/ \E c \in Calls :
       \/ CredentialSet(c) \/ CredentialFails(c) \/ Changed(c) \/ ChangeFails(c)
       \/ Loaded(c) \/ LoadFails(c)
       \/ ConfigRead(c) \/ Refused(c) \/ Apply(c) \/ ChangeSaved(c) \/ ChangeUndone(c)

(***************************************************************************)
(* Properties.                                                             *)
(***************************************************************************)
\* docs/config-management.md: the panel loads the configuration again after
\* every change that succeeded.  While it is mounted: when all its calls are
\* answered and it is ready, it shows what the host has, however its calls overlapped, unless an
\* answer failed or came after that of a later load; a refresh while nothing
\* else runs mends that.  It does not stay at loading once it has asked.  An
\* entry that was saved with a secret has one in the system's store, also if
\* the save or an answer failed.
PanelSound ==
  /\ ~unmounted /\ clean /\ Idle /\ status = "ready" => snapshot = config
  /\ ~unmounted /\ Idle /\ Shown => status # "loading"
  /\ \A e \in Entries :
       config[e] \in Calls /\ task[config[e]].secret => e \in secrets
=============================================================================
