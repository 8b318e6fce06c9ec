------------------------------- MODULE Runner -------------------------------
(***************************************************************************)
(* The runner that admits tests to workers, and what stands around it: the *)
(* scopes its tests are made of, the bridge to an application, the command *)
(* `webtest test' that starts applications and runs the files, and beside  *)
(* it the command `webtest init'.  Each is a module with variables of its  *)
(* own; here they have names that differ.                                  *)
(***************************************************************************)
EXTENDS RunnerJobs

CONSTANTS
  Calls, Shutdowns, MaxPending, SupportsCancel,     \* of the bridge
  TestFiles, Planned, Applications,                 \* of `webtest test'
  Paths, DirOf,                                     \* of `webtest init'
  Scopes, Cooperative, MaxActive, CleanupTimeout, Causes, Timeout, Deadlines, Horizon, NoCause

VARIABLES
  call, why, callAnswer, slot, requests, reserved, failure, queue, stream,
  received, replied, reader, task, shut,
  now, cause, at, deadline, active, waitPhase, primary, cleanupBy, secondary, doomed, openedAt,
  nextId, entries, leases, begun, finished,
  scopePc, host, body, scopeResult, observed, scopeBy, teardownAt, refused,
  phase, broken, app, startup, report, exit, teardowns, answer,
  initPc, initNext, content, dirs, missing, created, createdDirs, by, dirsAtStart, initAnswer

bridgeVars == <<call, why, callAnswer, slot, requests, reserved, failure, queue,
                stream, received, replied, reader, task, shut>>
scopeVars == <<now, cause, at, deadline, active, waitPhase, primary, cleanupBy, secondary, doomed,
               openedAt, nextId, entries, leases, begun, finished,
               scopePc, host, body, scopeResult, observed, scopeBy, teardownAt, refused>>
commandVars == <<phase, broken, app, startup, report, exit, teardowns, answer>>
initVars == <<initPc, initNext, content, dirs, missing, created, createdDirs, by, dirsAtStart,
              initAnswer>>

Bridge == INSTANCE BridgeClient WITH answer <- callAnswer
Timed == INSTANCE ResourceScope WITH
  None <- NoCause, phase <- waitPhase, pc <- scopePc, result <- scopeResult
Command == INSTANCE TestCommand WITH Files <- TestFiles
Setup == INSTANCE ProjectInit WITH pc <- initPc, next <- initNext, answer <- initAnswer

ASSUME ScopesAssumption == Timed!ScopesFit
ASSUME FilesAssumption == Command!ConstantsFit
ASSUME PathsAssumption == Setup!ConstantsFit

-----------------------------------------------------------------------------
(* The properties of the modules.                                          *)

\* A scope keeps the result that was observed first, and its teardown ends within the larger
\* of its budgets: see ResourceScope.
ScopeInTime == Timed!ObservedResultStands /\ Timed!TeardownInBudget
\* A reply reaches its call, and whoever waits for one is woken: see BridgeClient.
BridgeHonest == Bridge!AnswersHonest /\ Bridge!NobodyForgotten
\* The exit class tells the worst that happened, and no application stays: see TestCommand.
CommandHonest == Command!ExitHonest /\ Command!ApplicationsStopped
\* See ProjectInit.
InitAllOrNothing == Setup!InitAllOrNothing
=============================================================================
