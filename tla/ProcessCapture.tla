---------------------------- MODULE ProcessCapture ----------------------------
(***************************************************************************)
(* One command run to its end: capture() of crates/provider/src/process.rs,*)
(* which a process provider and the command adapter of AppProvider use.    *)
(*                                                                         *)
(* The command is the leader of a process group of its own.  It may leave  *)
(* descendants in the background, with its pipes or without.  The processes*)
(* and the kernel (on Linux) are external: SIGKILL reaches every member of *)
(* a group at once, and a dead member keeps the group until it is reaped.  *)
(***************************************************************************)
EXTENDS Naturals, FiniteSets

CONSTANTS
  Leader, Descendants,   \* processes
  Attempts               \* of cleanup_process_group(): 50 in the code

VARIABLES
  phase,      \* of capture()
  process,    \* "none", "alive", "dying" of a signal, "zombie" or "gone"
  pipes,      \* the processes that hold the output open
  reaped,     \* the leader was waited for
  failure,    \* why the operation was interrupted
  attempts, signalled,   \* of cleanup_process_group()
  outcome     \* "ok", "clean": interrupted and all is gone, "unclean"

vars == <<phase, process, pipes, reaped, failure, attempts, signalled, outcome>>

Processes == {Leader} \cup Descendants
Group == {p \in Processes : process[p] \in {"alive", "dying", "zombie"}}
Killed(ps) == [p \in Processes |-> IF p \in ps /\ process[p] = "alive" THEN "dying" ELSE process[p]]

Init ==
  /\ phase = "new" /\ process = [p \in Processes |-> "none"] /\ pipes = {} /\ reaped = FALSE
  /\ failure = "none" /\ attempts = 0 /\ signalled = FALSE /\ outcome = "none"

Returns(answer) == phase' = "over" /\ outcome' = answer

Spawn ==
  /\ phase = "new"
  /\ phase' = "running" /\ process' = [process EXCEPT ![Leader] = "alive"] /\ pipes' = {Leader}
  /\ UNCHANGED <<reaped, failure, attempts, signalled, outcome>>

\* The call was cancelled before, or the command cannot be started.
Refused ==
  /\ phase = "new" /\ Returns("clean")
  /\ UNCHANGED <<process, pipes, reaped, failure, attempts, signalled>>

\* child.wait(), in the operation or beside the cleanup.
Reap ==
  /\ phase \in {"running", "interrupted"} /\ process[Leader] = "zombie"
  /\ process' = [process EXCEPT ![Leader] = "gone"] /\ reaped' = TRUE
  /\ UNCHANGED <<phase, pipes, failure, attempts, signalled, outcome>>

\* Mutant: what the leader left behind is nobody's business.
OperationEndsOwningLeader ==
  /\ phase = "running" /\ reaped /\ pipes = {} /\ Returns("ok")
  /\ UNCHANGED <<process, pipes, reaped, failure, attempts, signalled>>

\* The status is there and both pipes are at their end.
OperationEnds ==
  /\ phase = "running" /\ reaped /\ pipes = {} /\ phase' = "completed"
  /\ UNCHANGED <<process, pipes, reaped, failure, attempts, signalled, outcome>>

\* Cancellation, the timeout, too much output, an error of a pipe.
Interrupt(why) ==
  /\ phase = "running"
  /\ phase' = "interrupted" /\ failure' = why /\ process' = Killed({Leader})
  /\ UNCHANGED <<pipes, reaped, attempts, signalled, outcome>>

\* One turn of the loop: a signal until one was accepted, then a look whether anyone is left.
Clean ==
  /\ phase \in {"completed", "interrupted"} /\ attempts < Attempts /\ Group # {}
  /\ attempts' = attempts + 1 /\ signalled' = TRUE
  /\ process' = IF signalled THEN process ELSE Killed(Group)
  /\ UNCHANGED <<phase, pipes, reaped, failure, outcome>>

\* A guard kills the group once more unless the cleanup succeeded.
Finish ==
  /\ \/ phase = "completed" /\ (Group = {} \/ attempts = Attempts)
     \/ phase = "interrupted" /\ (Group = {} \/ attempts = Attempts)
        /\ (reaped \/ process[Leader] = "dying")   \* child.wait() is given a second
  /\ IF Group = {}
     THEN Returns(IF phase = "completed" THEN "ok" ELSE "clean") /\ UNCHANGED process
     ELSE Returns("unclean") /\ process' = Killed(Group)
  /\ UNCHANGED <<pipes, reaped, failure, attempts, signalled>>

\* The caller is dropped: kill_on_drop, and the guard.
Drop ==
  /\ phase \in {"running", "completed", "interrupted"}
  /\ phase' = "dropped" /\ process' = Killed(Group)
  /\ UNCHANGED <<pipes, reaped, failure, attempts, signalled, outcome>>

-----------------------------------------------------------------------------
(* The processes                                                           *)

Fork(p, q) ==
  /\ process[p] = "alive" /\ process[q] = "none" /\ q # Leader
  /\ process' = [process EXCEPT ![q] = "alive"]
  /\ pipes' = IF p \in pipes THEN pipes \cup {q} ELSE pipes
  /\ UNCHANGED <<phase, reaped, failure, attempts, signalled, outcome>>

CloseOutput(p) ==
  /\ process[p] = "alive" /\ p \in pipes /\ pipes' = pipes \ {p}
  /\ UNCHANGED <<phase, process, reaped, failure, attempts, signalled, outcome>>

Exit(p) ==
  /\ process[p] \in {"alive", "dying"}
  /\ process' = [process EXCEPT ![p] = "zombie"] /\ pipes' = pipes \ {p}
  /\ UNCHANGED <<phase, reaped, failure, attempts, signalled, outcome>>

\* An orphan is reaped by init; so is the leader of a call that is no more, by the runtime.
Collected(p) ==
  /\ process[p] = "zombie" /\ (p # Leader \/ phase \in {"over", "dropped"})
  /\ process' = [process EXCEPT ![p] = "gone"]
  /\ UNCHANGED <<phase, pipes, reaped, failure, attempts, signalled, outcome>>

Ends == OperationEnds \/ Reap \/ Clean \/ Finish

Next ==
  \/ Spawn \/ Refused \/ Ends \/ Drop
  \/ \E why \in {"cancelled", "timeout", "failed"} : Interrupt(why)
  \/ \E p \in Processes : CloseOutput(p) \/ Exit(p) \/ Collected(p)
  \/ \E p, q \in Processes : Fork(p, q)

\* The future is polled and its timeout fires.  A process need not end by itself.
Fairness == WF_vars(Ends) /\ WF_vars(Interrupt("timeout"))

Spec == Init /\ [][Next]_vars /\ Fairness

-----------------------------------------------------------------------------
(* Properties                                                              *)

\* A call that ends owns its descendants: a success, and an interruption that claims to
\* have been clean, leave no process of the group, and no ending leaves one that was not
\* even signalled.
NoProcessLeft ==
  /\ outcome \in {"ok", "clean"} => Group = {}
  /\ phase \in {"over", "dropped"} => \A p \in Processes : process[p] # "alive"

\* The call ends whatever the processes do.
CaptureEnds == phase = "running" ~> phase \in {"over", "dropped"}
=============================================================================
