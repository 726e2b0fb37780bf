---------------------------- MODULE ConfigManager ----------------------------
(***************************************************************************)
(* ConfigManagerImpl (apps/local-agent-host/src/config-manager.ts) over    *)
(* the registry, the JSON file store                                       *)
(* (packages/local-persistence/src/file-store.ts) and the host's bootstrap *)
(* from that file (configured-host.ts).                                    *)
(*                                                                         *)
(* A mutator runs inside #withLock: it changes the shared registry, awaits *)
(* the save of a snapshot of it, and restores the registry when the save   *)
(* fails.  Turns and GET /v1/config read the registry at any moment, also  *)
(* during the save.  phase[c] is where the call c of a mutator is:         *)
(*   idle     not made                                                     *)
(*   queued   in #queue                                                    *)
(*   saving   await saveProviderRegistry, the file not yet replaced        *)
(*   written  the same, the file replaced                                  *)
(*   ok / refused / failed   answered; refused by the registry, or         *)
(*            config_persistence_failed                                    *)
(***************************************************************************)
EXTENDS ProviderRegistry

CONSTANT Calls \* calls of mutators that clients make at the same time

VARIABLES running,    \* the host runs
          registry,   \* the shared InMemoryProviderRegistry
          configFile, \* the configuration in the file
          queue,      \* #queue: calls in the order they took the lock in
          phase,      \* where each call is
          before,     \* snapshot a call restores on failure
          writing     \* snapshot a call saves

configVars == <<running, registry, configFile, queue, phase, before, writing>>

Answered == {"idle", "ok", "refused", "failed"}
Phases   == Answered \cup {"queued", "saving", "written"}

Reset == [c \in Calls |-> EmptyConfig]

\* The bootstrap wrote or found a file, here an empty configuration.
ConfigInit == /\ running = TRUE
              /\ registry = EmptyConfig /\ configFile = EmptyConfig
              /\ queue = <<>>
              /\ phase = [c \in Calls |-> "idle"]
              /\ before = Reset /\ writing = Reset

To(c, ph) == phase' = [phase EXCEPT ![c] = ph]

(***************************************************************************)
(* #withLock and #restore.                                                 *)
(***************************************************************************)
\* Mutant: a call does not wait for the ones before it.
MutantHasLock(c) == TRUE

HasLock(c) == Head(queue) = c

\* The call that has the lock settles and the next one in the queue may run.
Answer(c, ph) ==
  /\ To(c, ph)
  /\ queue' = Tail(queue)
  /\ before' = [before EXCEPT ![c] = EmptyConfig]
  /\ writing' = [writing EXCEPT ![c] = EmptyConfig]

\* createRegistryFromSnapshot throws before anything is removed.
Restored(snapshot) == IF Valid(snapshot) THEN snapshot ELSE registry

Ask(c) == /\ running /\ phase[c] \in Answered
          /\ To(c, "queued")
          /\ queue' = Append(queue, c)
          /\ UNCHANGED <<running, registry, configFile, before, writing>>

(***************************************************************************)
(* The mutators, up to the await of the save.                              *)
(***************************************************************************)
\* The registry throws before it changes anything, and is restored.
Refuse(c) == /\ registry' = Restored(registry)
             /\ Answer(c, "refused")
             /\ UNCHANGED <<running, configFile>>

Apply(c, new) == /\ registry' = new
                 /\ before' = [before EXCEPT ![c] = registry]
                 /\ writing' = [writing EXCEPT ![c] = new]
                 /\ To(c, "saving")
                 /\ UNCHANGED <<running, configFile, queue>>

Mutate(c, accepted, new) ==
  \/ accepted /\ Apply(c, new)
  \/ ~accepted /\ Refuse(c)

CreateProvider(c, p, v) ==
  Mutate(c, CanRegisterProvider(registry, p), SetProvider(registry, p, v))
UpdateProvider(c, p, v) ==
  Mutate(c, CanUpdateProvider(registry, p, v), SetProvider(registry, p, v))
DeleteProvider(c, p) ==
  Mutate(c, CanRemoveProvider(registry, p), SetProvider(registry, p, None))
CreateRoute(c, r, v) ==
  Mutate(c, CanRegisterRoute(registry, r, v), SetRoute(registry, r, v))
UpdateRoute(c, r, v) ==
  Mutate(c, CanUpdateRoute(registry, r, v), SetRoute(registry, r, v))
DeleteRoute(c, r) ==
  Mutate(c, CanRemoveRoute(registry, r), SetRoute(registry, r, None))

Mutator(c) ==
  /\ phase[c] = "queued" /\ HasLock(c)
  /\ \/ \E p \in Providers :
          \/ DeleteProvider(c, p)
          \/ \E v \in ProviderDefs : CreateProvider(c, p, v) \/ UpdateProvider(c, p, v)
     \/ \E r \in Routes :
          \/ DeleteRoute(c, r)
          \/ \E v \in RouteDefs : CreateRoute(c, r, v) \/ UpdateRoute(c, r, v)

(***************************************************************************)
(* The save settles.                                                       *)
(***************************************************************************)
\* The snapshot is invalid, or the temporary file or the rename failed.
SaveRejects(c) == phase[c] = "saving"

\* Mutant: the memory keeps what the file has not.
MutantSaveFails(c) == /\ SaveRejects(c)
                      /\ Answer(c, "failed")
                      /\ UNCHANGED <<running, registry, configFile>>

\* Mutant: the queue is the rejected promise itself.
MutantFailureBlocks(c) == /\ SaveRejects(c)
                          /\ registry' = Restored(before[c])
                          /\ To(c, "failed")
                          /\ UNCHANGED <<running, configFile, queue, before, writing>>

SaveFails(c) == /\ SaveRejects(c)
                /\ registry' = Restored(before[c])
                /\ Answer(c, "failed")
                /\ UNCHANGED <<running, configFile>>

\* Mutant: the snapshot is written as it is.
MutantReplace(c) == /\ phase[c] = "saving"
                    /\ configFile' = writing[c]
                    /\ To(c, "written")
                    /\ UNCHANGED <<running, registry, queue, before, writing>>

\* #saveOnce: the validated snapshot replaces the file.
Replace(c) == /\ phase[c] = "saving" /\ Valid(writing[c])
              /\ configFile' = writing[c]
              /\ To(c, "written")
              /\ UNCHANGED <<running, registry, queue, before, writing>>

Return(c) == /\ phase[c] = "written"
             /\ Answer(c, "ok")
             /\ UNCHANGED <<running, registry, configFile>>

(***************************************************************************)
(* The process.                                                            *)
(***************************************************************************)
ConfigCrash == /\ running
               /\ running' = FALSE /\ registry' = EmptyConfig
               /\ queue' = <<>> /\ phase' = [c \in Calls |-> "idle"]
               /\ before' = Reset /\ writing' = Reset
               /\ UNCHANGED configFile

\* loadProviderRegistry; an invalid file is config_invalid and no host.
Boot == /\ ~running /\ Valid(configFile)
        /\ running' = TRUE /\ registry' = configFile
        /\ UNCHANGED <<configFile, queue, phase, before, writing>>

ConfigNext == \/ ConfigCrash \/ Boot
              \/ \E c \in Calls : Ask(c) \/ Mutator(c) \/ SaveFails(c) \/ Replace(c) \/ Return(c)

ConfigSpec == ConfigInit /\ [][ConfigNext]_configVars

\* Promise callbacks run, and file operations end one way or the other.
ConfigFairness == \A c \in Calls : /\ WF_configVars(Mutator(c))
                                   /\ WF_configVars(SaveFails(c) \/ Replace(c))
                                   /\ WF_configVars(Return(c))

ConfigFairSpec == ConfigSpec /\ ConfigFairness

(***************************************************************************)
(* Properties.                                                             *)
(***************************************************************************)
AtRest == \A c \in Calls : phase[c] \notin {"saving", "written"}

\* A turn resolves its route at any moment, also from a registry whose save
\* is under way and may be undone: it never meets a provider that is missing
\* or does not serve the model; while no save is under way, an enabled route
\* starts with its primary.
RoutesResolve ==
  \A r \in Routes : registry.routes[r] # None =>
    /\ Consistent(registry, r)
    /\ AtRest /\ registry.routes[r].enabled => 1 \in Candidates(registry, r)

\* Whenever no save is under way, the host runs what its file holds: after
\* any mix of saves that failed and calls that queued up, no mutation is
\* lost, half undone or only in memory.  Whenever it is killed, it boots again
\* from its file (configured-host.ts throws config_invalid otherwise).
MemoryIsFile == /\ running /\ AtRest => registry = configFile
                /\ Valid(configFile)

\* Every call is answered, however the calls before it ended, or dies with
\* the process.
EveryCallAnswered == \A c \in Calls : phase[c] = "queued" ~> phase[c] \in Answered

\* The config manager changes the file as atomic configuration calls would,
\* and answers as they would.
CallState == [c \in Calls |->
  CASE phase[c] \in {"queued", "saving"}   -> "asked"
    [] phase[c] = "written"                -> "committed"
    [] phase[c] \in {"refused", "failed"}  -> "error"
    [] OTHER                               -> phase[c]]

Atomic == INSTANCE AtomicConfig WITH config <- configFile, call <- CallState
ImplementsAtomicConfig == Atomic!Spec

=============================================================================
