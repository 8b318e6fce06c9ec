------------------------------- MODULE MCHosts -------------------------------
(***************************************************************************)
(* What runs processes for a test, or tests for a person, and what waits   *)
(* for such hosts and tries again, one part at a time: an application      *)
(* under two calls and a shutdown, a command with two descendants, a       *)
(* debugging session over two tests of two steps, the editor with two      *)
(* documents, two contexts that compete for one wait registration, and a   *)
(* retry node.  The part is chosen at the start and runs alone; the others *)
(* stay as they start, and enable nothing that fairness is asked for.      *)
(***************************************************************************)
EXTENDS Hosts

CONSTANT s1

\* A backoff that is capped at the second retry.
OneBackoff == {[initial |-> 2, max |-> 3]}

VARIABLE part

partVars == <<part, vars, applicationVars, captureVars, sessionVars, editorVars, waitVars>>

-----------------------------------------------------------------------------
(* Parts                                                                   *)

\* A retry that is over.
RetryIdle ==
  /\ attempts = 1 /\ backoff \in OneBackoff /\ inherits = FALSE
  /\ pc = "done" /\ parent = FALSE /\ page = "owner" /\ current = Fresh
  /\ tried = <<>> /\ waited = <<>> /\ pending = {} /\ published = {}
  /\ result = [kind |-> "None"]

PartInit ==
  /\ part \in {"application", "command", "session", "editor", "wait", "retry"}
  /\ App!Init /\ Capture!Init /\ Session!Init /\ Editor!Init /\ Wait!Init
  /\ part = "wait" \/ \A c \in Contexts : deadline[c] = NoCause
  /\ IF part = "retry" THEN Init ELSE RetryIdle

InWait(A) ==
  part = "wait" /\ A /\ UNCHANGED <<part, vars, applicationVars, captureVars, sessionVars, editorVars>>

PartNext ==
  \/ /\ part = "application" /\ App!Next
     /\ UNCHANGED <<part, vars, captureVars, sessionVars, editorVars, waitVars>>
  \/ /\ part = "command" /\ Capture!Next
     /\ UNCHANGED <<part, vars, applicationVars, sessionVars, editorVars, waitVars>>
  \/ /\ part = "session" /\ Session!Next
     /\ UNCHANGED <<part, vars, applicationVars, captureVars, editorVars, waitVars>>
  \/ /\ part = "editor" /\ Editor!Next
     /\ UNCHANGED <<part, vars, applicationVars, captureVars, sessionVars, waitVars>>
  \/ /\ part = "retry" /\ Next
     /\ UNCHANGED <<part, applicationVars, captureVars, sessionVars, editorVars, waitVars>>
  \/ InWait(Wait!Next)

PartFairness ==
  /\ App!Fairness /\ Capture!Fairness /\ Session!Fairness
  /\ SF_partVars(InWait(Wait!Tick)) /\ \A c \in Contexts : WF_partVars(InWait(Wait!Driven(c)))

PartSpec == PartInit /\ [][PartNext]_partVars /\ PartFairness

-----------------------------------------------------------------------------
\* Whoever waits for the application is answered, a command ends, a session closes, and a wait
\* that was interrupted ends (the two contexts are alike): see the modules.  All but the last
\* are never left again.
HostsEnd ==
  []<>(/\ \A t \in Calls \cup Closers : at[t] \in {"new", "over", "dropped"}
       /\ phase \in {"new", "over", "dropped"}
       /\ runner = "over" => serving = "over"
       /\ shutting => runner \in {"idle", "over"}
       /\ waitPhase[s1] \in {"idle", "done"} \/ token[s1] = NoCause)
=============================================================================
