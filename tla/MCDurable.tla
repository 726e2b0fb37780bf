------------------------------ MODULE MCDurable ------------------------------
(***************************************************************************)
(* What the host keeps in files: the sessions of FileSessionStore, with    *)
(* limits that calls, crashes and restarts run into, and the providers and *)
(* routes of ConfigManager, with two providers that one route may name     *)
(* either way.  The two files and their owners share nothing; the initial  *)
(* state chooses one of them, the other rests.                             *)
(***************************************************************************)
EXTENDS FileSessionStore, ConfigManager

VARIABLE kept \* the file that is used

DurableInit == kept \in {"sessions", "configuration"} /\ Init /\ ConfigInit

DurableNext == /\ UNCHANGED kept
               /\ \/ kept = "sessions" /\ Next /\ UNCHANGED configVars
                  \/ kept = "configuration" /\ ConfigNext /\ UNCHANGED vars

DurableSpec == /\ DurableInit /\ [][DurableNext]_<<kept, vars, configVars>>
               /\ ConfigFairness
=============================================================================
