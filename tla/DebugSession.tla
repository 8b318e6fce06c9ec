----------------------------- MODULE DebugSession -----------------------------
(***************************************************************************)
(* The debug adapter: DebugState and serve_state() of crates/dap.          *)
(*                                                                         *)
(* One task handles the requests of the client in order; another runs the  *)
(* program and pauses before a step, or after a failure of the application,*)
(* until a resume arrives on an unbounded channel.  They share mutexes that*)
(* are held for one access.  The program is Tests tests of Steps steps.    *)
(* The client and the host are external.                                   *)
(***************************************************************************)
EXTENDS Naturals, Sequences

CONSTANTS
  Tests, Steps,
  MaxRequests     \* bound: requests that change the session

VARIABLES
  launched, configured, shutting,   \* program # None, configured, shutting_down
  pending,        \* pending_pause
  breakpoints,    \* the places with one
  exceptions,     \* the filter of the application's failures is set
  serving,        \* the request being handled, or "idle" or "over"
  meant,          \* history: the last resume, and the pause it found, 0 for none
  channel,        \* resume_sender
  asked,          \* requests so far
  runner,
  place,          \* the step of the runner
  leads,          \* where its pause leads
  paused,         \* the frame that the client can look at
  pause, pauses,  \* history: the number of this pause, 0 for none, and of all
  completion,
  stepping,       \* history: the runner goes on after a step command meant for its pause
  early, missed   \* history: a pause ended with a resume of another time; a step did not stop

flagVars == <<launched, configured, shutting, breakpoints, exceptions>>
serverVars == <<serving, meant, channel, asked>>
runnerVars == <<runner, place, leads, paused, pause, pauses, completion>>
vars == <<flagVars, pending, serverVars, runnerVars, stepping, early, missed>>
history == <<stepping, early, missed>>

Places == 1..(Tests * Steps)
TestEnd(p) == (((p - 1) \div Steps) + 1) * Steps
Resumes == {"continue", "step"}

TypeOK ==
  /\ launched \in BOOLEAN /\ configured \in BOOLEAN /\ shutting \in BOOLEAN
  /\ pending \in {"none", "entry", "pause", "step"}
  /\ breakpoints \in SUBSET Places /\ exceptions \in BOOLEAN
  /\ serving \in {"idle", "continue", "step", "continued", "over"}
  /\ channel \in Seq([command : Resumes, pause : Nat]) /\ asked \in 0..MaxRequests
  /\ runner \in {"idle", "before", "stopping", "paused", "running", "failed", "over"}
  /\ place \in Places \cup {Tests * Steps + 1} /\ paused \in Places \cup {0}

Init ==
  /\ launched = FALSE /\ configured = FALSE /\ shutting = FALSE
  /\ pending = "none" /\ breakpoints = {} /\ exceptions = FALSE
  /\ serving = "idle" /\ meant = [command |-> "none", pause |-> 0] /\ channel = <<>> /\ asked = 0
  /\ runner = "idle" /\ place = 1 /\ leads = "running" /\ paused = 0 /\ pause = 0 /\ pauses = 0 /\ completion = FALSE
  /\ stepping = FALSE /\ early = FALSE /\ missed = FALSE

-----------------------------------------------------------------------------
(* Requests                                                                *)

Handles == serving = "idle" /\ asked < MaxRequests /\ asked' = asked + 1

\* start_if_ready() starts the program once.
Starts == runner' = IF launched' /\ configured' /\ runner = "idle" THEN "before" ELSE runner

Launch(stopOnEntry) ==
  /\ Handles /\ ~launched
  /\ launched' = TRUE /\ UNCHANGED <<configured, shutting, breakpoints, exceptions>>
  /\ pending' = (IF stopOnEntry THEN "entry" ELSE pending) /\ Starts
  /\ UNCHANGED <<serving, meant, channel, place, leads, paused, pause, pauses, completion, history>>

ConfigurationDone ==
  /\ Handles /\ ~configured
  /\ configured' = TRUE /\ UNCHANGED <<launched, shutting, breakpoints, exceptions>> /\ Starts
  /\ UNCHANGED <<pending, serving, meant, channel, place, leads, paused, pause, pauses, completion, history>>

SetBreakpoints(ps) ==
  /\ Handles /\ breakpoints' = ps
  /\ UNCHANGED <<launched, configured, shutting, exceptions, pending, serving, meant, channel, runnerVars,
                 history>>

SetExceptionBreakpoints ==
  /\ Handles /\ exceptions' = ~exceptions
  /\ UNCHANGED <<launched, configured, shutting, breakpoints, pending, serving, meant, channel, runnerVars,
                 history>>

Pause ==
  /\ Handles /\ pending' = "pause"
  /\ UNCHANGED <<flagVars, serving, meant, channel, runnerVars, history>>

Meant(command) == [command |-> command, pause |-> pause]
Queued(command) == IF command = "step" THEN "step" ELSE "none"

\* Mutant: the next pause is queued behind the resume.
QueueLate(command, stage) == pending' = IF stage = "sent" THEN Queued(command) ELSE pending

\* The pause that a step asks for, or a continue takes back, precedes the resume itself.
Queue(command, stage) == pending' = IF stage = "handled" THEN Queued(command) ELSE pending

Resume(command) ==
  /\ Handles /\ Queue(command, "handled")
  /\ serving' = command /\ meant' = Meant(command)
  /\ UNCHANGED <<flagVars, channel, runnerVars, history>>

\* Behind the response; nobody looks whether a step is paused.
Send ==
  /\ serving \in Resumes
  /\ channel' = Append(channel, meant) /\ serving' = "continued"
  /\ UNCHANGED <<flagVars, pending, meant, asked, runnerVars, history>>

\* The event of a resumed thread is behind it, on a writer that the runner uses as well.
Continued ==
  /\ serving = "continued" /\ serving' = "idle" /\ Queue(meant.command, "sent")
  /\ UNCHANGED <<flagVars, meant, channel, asked, runnerVars, history>>

\* A resume for a paused step, which keeps no later one from running.
Disconnect ==
  /\ Handles /\ shutting' = TRUE /\ serving' = "over" /\ channel' = Append(channel, Meant("continue"))
  /\ UNCHANGED <<launched, configured, breakpoints, exceptions, pending, meant, runnerVars, history>>

\* The program ended.  The end of the input, which ends the process, is left out.
Serve ==
  /\ serving = "idle" /\ completion /\ serving' = "over"
  /\ UNCHANGED <<flagVars, pending, meant, channel, asked, runnerVars, history>>

-----------------------------------------------------------------------------
(* The program                                                             *)

Goes(where, p) == runner' = where /\ place' = p

Pauses(next) ==
  /\ paused' = place /\ pauses' = pauses + 1 /\ pause' = pauses + 1
  /\ Goes("stopping", place) /\ leads' = next

\* pause_before_step(): a request to pause is used up, a breakpoint stays.
BeforeStep ==
  /\ runner = "before" /\ place \in Places /\ ~shutting
  /\ \/ /\ pending # "none" \/ place \in breakpoints
        /\ Pauses("running") /\ UNCHANGED missed
     \/ /\ pending = "none" /\ place \notin breakpoints /\ Goes("running", place)
        /\ missed' = (missed \/ (stepping /\ meant.command = "step"))
        /\ UNCHANGED <<leads, paused, pause, pauses>>
  /\ pending' = "none" /\ stepping' = FALSE
  /\ UNCHANGED <<flagVars, serverVars, completion, early>>

\* pause_after_app_failure().
StepFails ==
  /\ runner = "running"
  /\ \/ exceptions /\ ~shutting /\ Pauses("failed")
     \/ Goes("failed", place) /\ UNCHANGED <<leads, paused, pause, pauses>>
  /\ UNCHANGED <<flagVars, pending, serverVars, completion, history>>

\* "stopped" is written and the next resume awaited.
Stopped ==
  /\ runner = "stopping" /\ Goes("paused", place)
  /\ UNCHANGED <<flagVars, pending, serverVars, leads, paused, pause, pauses, completion, history>>

Resumed ==
  /\ runner = "paused" /\ channel # <<>> /\ channel' = Tail(channel)
  /\ LET mine == Head(channel).pause = pause IN
       /\ stepping' = (mine /\ Head(channel).command = "step")
       /\ early' = (early \/ (~mine /\ ~shutting))
  /\ Goes(leads, place) /\ paused' = 0 /\ pause' = 0
  /\ UNCHANGED <<flagVars, pending, serving, meant, asked, leads, pauses, completion, missed>>

StepReturns ==
  /\ runner = "running" /\ Goes("before", place + 1)
  /\ UNCHANGED <<flagVars, pending, serverVars, leads, paused, pause, pauses, completion, history>>

\* The step is dropped, paused or not, and after_test_timeout() takes the frame away.
TestTimesOut ==
  /\ runner \in {"stopping", "paused", "running"}
  /\ Goes("before", TestEnd(place) + 1) /\ paused' = 0 /\ pause' = 0 /\ stepping' = FALSE
  /\ UNCHANGED <<flagVars, pending, serverVars, leads, pauses, completion, early, missed>>

\* A timeout node drops the step without a word to the control: the frame stays.
BranchTimesOut ==
  /\ runner \in {"stopping", "paused", "running"}
  /\ Goes("failed", place) /\ pause' = 0 /\ stepping' = FALSE
  /\ UNCHANGED <<flagVars, pending, serverVars, leads, paused, pauses, completion, early, missed>>

TestFails ==
  /\ runner = "failed" /\ Goes("before", TestEnd(place) + 1) /\ stepping' = FALSE
  /\ UNCHANGED <<flagVars, pending, serverVars, leads, paused, pause, pauses, completion, early, missed>>

\* The control cancels the test, and the run ends without a word.
Cancelled ==
  /\ shutting /\ runner \notin {"idle", "over"} /\ Goes("over", place)
  /\ UNCHANGED <<flagVars, pending, serverVars, leads, paused, pause, pauses, completion, history>>

\* "exited" and "terminated" are written, then the server is told.
RunEnds ==
  /\ runner = "before" /\ place \notin Places /\ ~shutting
  /\ Goes("over", place) /\ completion' = TRUE
  /\ UNCHANGED <<flagVars, pending, serverVars, leads, paused, pause, pauses, history>>

-----------------------------------------------------------------------------
Requests ==
  \/ \E stop \in BOOLEAN : Launch(stop)
  \/ ConfigurationDone \/ SetExceptionBreakpoints \/ Pause \/ Disconnect
  \/ \E ps \in SUBSET Places : SetBreakpoints(ps)
  \/ \E command \in Resumes : Resume(command)

Server == Send \/ Continued \/ Serve
Program ==
  BeforeStep \/ Stopped \/ Resumed \/ StepReturns \/ TestFails \/ Cancelled \/ RunEnds

Next == Requests \/ Server \/ Program \/ StepFails \/ TestTimesOut \/ BranchTimesOut

\* Both tasks are scheduled and a step returns; a client may leave a step paused for ever.
Fairness == WF_vars(Server) /\ WF_vars(Program)

Spec == Init /\ [][Next]_vars
FairSpec == Spec /\ Fairness

-----------------------------------------------------------------------------
(* Properties                                                              *)

\* A step command stops the program before its next step, whatever the runner does while
\* the command is handled, unless the client has continued since.
StepStops == ~missed

\* "The debug session closes automatically after the final step", and after a disconnect
\* the program does not run on.
SessionCloses ==
  /\ (runner = "over" ~> serving = "over")
  /\ (shutting ~> runner \in {"idle", "over"})

\* A pause lasts until the client resumes this pause ("pauses before the marked operation",
\* breakpoint_pauses_before_the_step_until_continue).
PausedUntilContinue == ~early
=============================================================================
