------------------------------ MODULE MCDesktop ------------------------------
(***************************************************************************)
(* The desktop application.  Its window: turns of two sessions, or the     *)
(* settings with two entries; all these have in common is the send button, *)
(* which the settings can switch off, and DraftInput stands for that too.  *)
(* Its processes: the sidecar, started and stopped by two threads, or the  *)
(* host that runs in it, with three callers, which sees nothing of the     *)
(* supervisor but the end of its process; nor does the window see of both  *)
(* more than answers that fail or do not come.  The initial state chooses  *)
(* one part, the others rest.                                              *)
(***************************************************************************)
EXTENDS DesktopTurns, ConfigPanel, Sidecar, HostLifecycle

VARIABLE part \* the part of the application that lives

NoTurns == /\ bridge = "http" /\ disposed = TRUE /\ connection = "idle"
           /\ sessions = {} /\ active = None /\ draft = FALSE /\ isSubmitting = FALSE
           /\ events = <<>> /\ talk = [s \in Sessions |-> {}] /\ creating = FALSE
           /\ ctrl = [s \in Sessions |-> None] /\ turn = <<>>

NoPanel == /\ config = [e \in Entries |-> 0] /\ snapshot = config
           /\ status = "loading" /\ unmounted = TRUE /\ task = <<>>
           /\ secrets = {} /\ clean = FALSE

NoSidecar == SidecarInit /\ unix

NoHost == /\ configFile = "invalid" /\ hostState = "refused" /\ starter = NoCaller
          /\ server = NoCaller /\ listening = {} /\ hostCall = [c \in Callers |-> "idle"]
          /\ last = "none" /\ raced = FALSE

DesktopInit ==
  \/ part = "turns"      /\ Init    /\ NoPanel   /\ NoSidecar   /\ NoHost
  \/ part = "settings"   /\ NoTurns /\ PanelInit /\ NoSidecar   /\ NoHost
  \/ part = "supervisor" /\ NoTurns /\ NoPanel   /\ SidecarInit /\ NoHost
  \/ part = "host"       /\ NoTurns /\ NoPanel   /\ NoSidecar   /\ HostInit

DesktopNext ==
  /\ UNCHANGED part
  /\ \/ part = "turns"      /\ Next        /\ UNCHANGED <<panelVars, sidecarVars, hostVars>>
     \/ part = "settings"   /\ PanelNext   /\ UNCHANGED <<vars, sidecarVars, hostVars>>
     \/ part = "supervisor" /\ SidecarNext /\ UNCHANGED <<vars, panelVars, hostVars>>
     \/ part = "host"       /\ HostNext    /\ UNCHANGED <<vars, panelVars, sidecarVars>>

DesktopSpec == /\ DesktopInit
               /\ [][DesktopNext]_<<part, vars, panelVars, sidecarVars, hostVars>>
               /\ WF_vars(\E t \in Turns : AbortSettles(t) \/ Pull(t))
               /\ SidecarFairness
=============================================================================
