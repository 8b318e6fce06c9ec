-------------------------------- MODULE Hosts --------------------------------
(***************************************************************************)
(* A retry node, what runs processes for a test, or tests for a person,    *)
(* and what waits for such hosts: an application, the command of a         *)
(* provider, a debugging session, the editor and the waits of contexts.    *)
(* Each is a module with variables of its own; here they have names that   *)
(* differ.                                                                 *)
(***************************************************************************)
EXTENDS RetryNode

CONSTANTS
  Calls, Closers, MaxStarts,                                    \* of the application
  Leader, Descendants, CleanupAttempts,                         \* of a provider's command
  Tests, Steps, MaxRequests,                                    \* of the debugging session
  Docs, Revisions, BrokenRevisions, MaxEdits, MaxRuns, MaxReloads,   \* of the editor
  Contexts, MaxActive, CleanupTimeout, Causes, Timeout, Deadlines, Horizon, NoCause   \* of waits

VARIABLES
  at, queue, state, active, starting, socket, process, client, open, answer, transport,
  phase, tree, pipes, reaped, failure, tries, signalled, outcome,
  launched, configured, shutting, requests, breakpoints, exceptions, serving, meant, channel, asked,
  runner, place, leads, paused, pause, pauses, completion, stepping, early, missed,
  now, token, polledAt, deadline, registrations, waitPhase, primary, cleanupBy, secondary, doomed,
  openedAt,
  text, generation, version, config, runs, flying, latest, stored, shown, republish

applicationVars == <<at, queue, state, active, starting, socket, process, client, open, answer, transport>>
captureVars == <<phase, tree, pipes, reaped, failure, tries, signalled, outcome>>
sessionVars == <<launched, configured, shutting, requests, breakpoints, exceptions, serving, meant,
                 channel, asked, runner, place, leads, paused, pause, pauses, completion, stepping,
                 early, missed>>
waitVars == <<now, token, polledAt, deadline, registrations, waitPhase, primary, cleanupBy, secondary,
              doomed, openedAt>>
editorVars == <<text, generation, version, config, runs, flying, latest, stored, shown, republish>>

App == INSTANCE AppProvider
Capture == INSTANCE ProcessCapture WITH
  Attempts <- CleanupAttempts, process <- tree, attempts <- tries
Session == INSTANCE DebugSession WITH pending <- requests
Editor == INSTANCE EditorDiagnostics WITH Broken <- BrokenRevisions
Wait == INSTANCE WaitRegistry WITH
  None <- NoCause, cause <- token, at <- polledAt, active <- registrations, phase <- waitPhase

ASSUME StartsAssumption == MaxStarts \in Nat
\* A document that is not open has no text.
ASSUME ClosedAssumption == "closed" \notin Revisions
ASSUME WaitAssumption == Wait!ConstantsFit

-----------------------------------------------------------------------------
(* The properties of the modules.                                          *)

\* See AppProvider, ProcessCapture, DebugSession and EditorDiagnostics.
OneApplication == App!OneApplication
NoProcessLeft == Capture!NoProcessLeft
StepStops == Session!StepStops
DiagnosticsCurrent == Editor!DiagnosticsCurrent
\* A wait that was interrupted does not succeed, and has one cleanup budget: see WaitRegistry.
WaitHonest == Wait!StaleContextNeverSucceeds /\ Wait!OneCleanupBudget
=============================================================================
