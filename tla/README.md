# webtest, verified: TLA+ models and proofs

webtest runs tests written in a small language. A compiler turns source files into
plans; a runtime executes the plans as a tree of scopes (test, branch, attempt,
resource) over host adapters (Chrome through CDP, the application under test through a
bridge, built-in providers); every front end (command line, language server, debug
adapter) watches a run through one event stream.

What is hard in it is seldom what a step computes; it is how work ends: by a result, a
failure, a deadline, a user, a sibling, a crash, at any moment and often at two of them.
This directory holds TLA+ models of that part and of the compiler in front of it, TLC
configurations that check them on small instances, and TLAPS proofs of what matters most
for instances of every size.

`src/...` paths below are relative to the repository's parent directory, module names to
this directory; `R/` abbreviates `src/crates/runtime/src/`, `C/` `src/crates/`.

## 1. Inventory

| Component | State it keeps | Operations | Status, module |
|---|---|---|---|
| Cancellation tree, `R/cancellation.rs` | per token: mutex with cause, instant and weak child list; a `Notify` | `child`, `cancel`, `cancelled`, `cleanup_deadline` | in part (`ScopeContext::child` is in TestBody), proved: CancellationTree |
| Wait registry, `R/waits.rs`, `R/cleanup.rs` | the set of running waits | `wait` and its phases | modelled, proved: WaitRegistry |
| Resource registry, `R/resources.rs` | entries with generation and policy, leases, id counter | the ten public methods | modelled, proved: ResourceRegistry |
| Resource scope, `R/resource_scope.rs` | locals of `run_observed` | acquire, lease, body, report, teardown | modelled, proved: ResourceScope |
| Test body, `R/execution.rs`, `R/execution/` | path of open nodes, contexts, deadlines, temporaries | run a test, a timeout, a resource, a step | modelled, proved: TestBody |
| Sibling scheduler, `R/execution/scheduler.rs`, `concurrent.rs` | completed, winner and unhealthy children | `schedule`, `concurrent_node` | one level of children, proved: SiblingScheduler |
| Retry node, `R/execution/retry.rs`, `child.rs` | borrowed page, attempt branches, pending observations | `retry_node`, `execute_child` | in part, proved: RetryNode |
| Concurrent test roots, `R/runner/jobs.rs`, `R/runner.rs` | free workers, running roots, result slots, an outcome per file | `run_allocated`, `finish_run` | in part, proved: RunnerJobs |
| Events, `R/events.rs`, `R/subscription.rs`, `C/observation/src/journal.rs` | journal and overflow per run, bounded queue, registered roots, replay index | `emit_event*`, `register_root`, `publish`, `next`, `insert` | modelled, proved: EventStream |
| CDP connection, `C/browser-cdp/src/connection.rs` | command queue, pending ids, writer | `command_with_timeout`, the actor | modelled, proved: CdpConnection |
| CDP pages, `C/browser-cdp/src/page/` | lossy broadcast of events, a watcher | `open`, `perform`, `wait_for_locator` | in part, proved: CdpPage |
| Chrome session, `C/browser-cdp/src/process.rs`, `host.rs`, `C/app/src/chrome.rs` | one process, one profile directory | start, close, drop | in part, proved: ChromeSession |
| Managed Chrome, `C/browser-manager/` | lock file, archive, install directory, on disk | `install`, `clean`, `current` | in part, proved: BrowserInstall |
| Bridge client, `C/app-bridge/src/provider.rs` | table of calls, writer mutex, transport | call, cancel, close, ping | modelled, proved: BridgeClient |
| Application, `C/app-bridge/src/provider.rs` | lifecycle under an async mutex | start on first call, readiness, shutdown | modelled, proved: AppProvider |
| Process capture, `C/provider/src/process.rs` | process group, pipes | run, time out, kill, reap | modelled, proved: ProcessCapture |
| Debug adapter, `C/dap/` | paused flag, resume channel, breakpoints | requests, pauses | in part, proved: DebugSession |
| Observation store, language server, editor, `C/observation/`, `C/lsp/`, `C/editor/` | batches per file, documents, revisions, diagnostics | open, edit, run, publish | in part, proved: EditorDiagnostics |
| Test command and its report, `C/app/` | applications, files, exit class | `run_test`, reports | in part, proved: TestCommand |
| Project initialisation, `C/app/src/init.rs` | files created so far | `initialize` | in part, proved: ProjectInit |
| Compiler and plan tree, `C/analysis/src/compiler/`, `C/plan/src/tree.rs` | names, captures, retry safety | compile, build, validate | in part: PlanCompiler |
| Types and transfers, `C/model/`, `R/evaluation.rs` | none | `accepts`, `is_transferable`, decode, join | in part: ValueTypes, RaceResult |
| Sequential runner, `R/runner.rs` | current file and test | `run_with_control` | the end of a run only: RunnerJobs |
| Expressions, assertions, artifacts, event records, `R/`, `C/observation/` | none across calls | sequential functions, data | not modelled: values and texts |
| Browser host interface, `C/browser/` | none | traits | not modelled: external to the runtime modules |
| Schema of an application, `C/app-bridge/src/schema.rs` | none | validate | not modelled: sequential |
| Plan files and project, `C/plan/`, `C/project/` | static data | read, write, validate | not modelled, except tree and retry settings |
| Text, syntax, HIR, format, feedback, queries, `C/syntax/` ... | none across calls | parse, lower, format | not modelled: property-based tests fit better |
| Provider registry, http, fs, `C/provider/` | none | I/O with limits | not modelled: their answers are inputs |
| Configuration, progress, other commands, wasm, editors, SDKs, protocol, examples | none of their own | formats, bindings | not modelled |

### How they interact

- Everything that suspends does so through one wait: a test body, an acquisition, a retry
  backoff. A wait watches the *token* of its scope and its *deadline* and drives a
  *source*. A token is cancelled by other threads: Ctrl-C, a debug client, a journal that
  overflowed, the scheduler of a sibling.
- A test runs its plan tree in one task: the root, every timeout and every resource drive
  the body below them as a wait, so that a cancellation or a deadline cuts the tree at any
  depth. A resource scope calls the wait registry twice and the resource registry at six
  points in between, and reports its result *before* it tears down.
- Children report a primary failure to their scheduler through a `FailureSignal` that
  wakes it before their teardown is over, and return through the scheduler's future set. A
  retry runs each attempt through the same `execute_child` and lends it its own page.
- Roots on several workers share one file's control, failure signal and journal. A
  journal that overflows cancels all its roots and closes nothing else; the subscriber is
  shared by all runs of a `Runner` and is given up at the first gap.
- Chrome is reached by callers that queue commands for one actor, which owns the socket;
  a page learns of its document through a broadcast that may lose events.
- The application under test is started by the first call, behind a mutex; calls share
  one writer and one reader. Several workers have an application each, and the command
  stops all of them.
- The language server completes runs out of order with edits; the debug adapter answers
  its client while another task runs the program.

### What is hard, and what makes it right

- **Cancellation at any step.** No child may slip between the mark of its parent and the
  visit to its list, and no waiter may sleep through its wakeup. A scope that is already
  cancelled never reports success.
- **Hanging hosts.** Interrupt, cleanup and teardown share one absolute budget. A
  cancelled scope returns, whatever the adapter does.
- **Ownership across failure.** Whatever was obtained (a context, a lease, a temporary
  directory, a process, a profile, a half-made installation) is torn down once, never
  before its user is gone, and whoever is left behind is reported.
- **Order of results.** Which child wins, which failure a test and a file report and which
  event comes last must not depend on the schedule.
- **Budgets.** Journals, queues, worker pools and id tables meet their limits; every
  loss must be stated exactly.
- **Late, double and misdirected answers** from Chrome, the application, a debug client.
- **Four ideas of the same scope**: names, compiler, plan validation and interpreter each
  decide what a branch may use and provide, and must agree.

`PROJECT.json` lists each hazard at the line where it bites, with the property that
would catch it, or the reason why none does.

## 2. Modules

Each component has one module with its state, one action per step that other actors can
come between, and its properties. Bottom-up:

```
CancellationTree     WaitRegistry      ResourceRegistry ──refines──> ResourceLifecycle
                           └── ResourceScope ──┘  (INSTANCEs both)
TestBody    SiblingScheduler    RetryNode    RunnerJobs ──refines──> TestAdmission
EventStream    CdpConnection    CdpPage    ChromeSession    BrowserInstall
BridgeClient   AppProvider   ProcessCapture   DebugSession   EditorDiagnostics
ValueTypes <── RaceResult    PlanCompiler ──> (ValueTypes)    TestCommand    ProjectInit

Browser = SiblingScheduler + CdpConnection, CdpPage, ChromeSession, BrowserInstall
Hosts   = RetryNode + WaitRegistry, AppProvider, ProcessCapture, DebugSession, EditorDiagnostics
Runner  = RunnerJobs + ResourceScope, BridgeClient, TestCommand, ProjectInit
Events  = EventStream + ResourceScope
```

`ResourceScope` is a composition: its scopes wait through the actions of `WaitRegistry`
and own through the guards and effects of `ResourceRegistry`. The other modules treat a
cancelled token as one variable per scope (a first cause that is never rewritten), which
is what `CancellationTree` establishes, and a cancelled wait as one that ends, which is
what `WaitRegistry` establishes.

`Browser`, `Hosts`, `Runner` and `Events` gather components that live side by side: each
extends the first module of its line, takes the others with `INSTANCE` under variables of
their own, states what is assumed of their constants, and names the properties that join
those of several parts. Their constants are open. Each is extended twice: by an `MC*`
module, which gives the constants and checks the properties, and by a `*_proofs` module,
which proves the same definitions for every value of them.

In an `MC*` module over several components `part` names the component that runs; it is
chosen at the start and never changes, and the variables of the others keep their initial
values. The components do not influence each other there; the grouping only saves runs,
and a theorem is about the specification of its component, not about the grouping.
`MCSources` holds the small programs, types and values of the compiler's part.

### CancellationTree — `R/cancellation.rs`
A call of `cancel()` is split at its lock: `Mark` is the critical section on one token
(cause, instant, taking the child list), `NotifyWaiters` the wakeup after it, the set
`work[t]` the visits the recursion still owes, `SkipVisit` the visit of a token that is
cancelled or dropped. `CreateChild` is `child()` under the parent's lock. A waiter goes
through `BeginWait`, `Enable`, `SeeCause` or `Sleep`, `Wake`; `Abandon` is a select that
drops its future. Abstracted: the depth-first order of the visits.

### WaitRegistry — `R/waits.rs`, `R/cleanup.rs`
`Begin`, `Register`/`Reject` (duplicate or full registry); `PollCancelled`,
`PollDeadline`, `PollSource` are the branches of the biased select in the order in which
one poll takes them, so that a cancellation may arrive between two of them;
`OpenCleanup`, `InterruptEnds`/`InterruptExpires`, `CleanupEnds`/`CleanupExpires`. The
source is external: ready, failed or pending at each poll, and its interrupt and cleanup
succeed, fail or hang. `Horizon` bounds time: nothing new arrives after it.

### ResourceRegistry, ResourceLifecycle — `R/resources.rs`
One action per public method, with the errors of the method as its guard (`Can...`): a
refused call changes nothing. Any owner calls any method with any key, stale
generations included. `ResourceLifecycle` is what one resource is promised: acquired,
owned, ready, released, and only then used again by a new generation.

### ResourceScope — `R/resource_scope.rs`
`run_observed()` one step at a time, with `pc` between two awaits or two locks;
`AcquireWait` and `BodyWait` are the sources it passes to `wait()`. `HostOpens` is the
moment the adapter holds a handle, which may come before an acquisition fails.
`Validate` is the caller's check that the owner is finished. The adapter and the body
are external; a cooperative adapter keeps its body polled beside `interrupt()`.

### SiblingScheduler — `R/execution/scheduler.rs`, `concurrent.rs`
`Report`, `Finish` are what a child future does when polled; `PollChildren`, `Notice`,
`Complete`, `CancelLosers`, `Return` are the loop of `schedule()` and the aggregate of
`concurrent_node()`. The parent token is cancelled by another thread and its children
are told one by one (`CancelParent`, `Propagate`). One level of children.

### RetryNode — `R/execution/retry.rs`, `child.rs`
`BeginAttempt` lends the page and opens a branch; the body of the attempt lets contained
children end (`ChildrenWon`, `ChildrenLose`), fails, passes or is interrupted;
`Finalize` closes its branch, which is where what it observed becomes final, and `Complete`
tears it down and returns the page; then the attempt passes, is given up, or waits
(`BeginBackoff`, `Timer...`). `Abandon` drops the node in the middle, the teardown included,
and `Publish` is what the drop of the observation projection hands up: whatever was final. "Eligible" stands for a failure the
retry policy accepts with all that is below it.

### RunnerJobs, TestAdmission — `R/runner/jobs.rs`, `R/runner.rs`
`Admit`, `SkipTest`, `AdmissionEnds`, `Complete`, `Finish` are the driver task; what
roots do while polled (`Speak`, `Exhaust`) and the cancellation of a control
(`CancelControl`) happen between its steps. `TestAdmission` promises that at most `Jobs`
roots run, that roots are taken up once and in plan order, and that a file is reported
once and after its tests.

### EventStream — `R/events.rs`, `R/subscription.rs`, `observation/src/journal.rs`
`EmitFact` is `emit_event` under the journal lock: append, reserve the last slot, or
widen the gap, cancel the roots and project to the subscriber. `Publish` fails in two
steps (gap recorded, then sender closed), as the code does under another lock than the
consumer's. `Finish` is `finish_run()`. The consumer reads (`Receive`, `EndOfStream`),
gives up (`DropReceiver`) or replays the journal of a result into a `ReplayJournal`
(`Resync`, external).

### CdpConnection — `C/browser-cdp/src/connection.rs`
Callers `Begin`, `Send`, `Receive` or are dropped; the actor `Take`s a command, writes it
(`WriteEnds`, `WriteTimesOut`), correlates a response (`Respond`), sweeps (`Sweep`) and
ends (`Break`, `AnswerPending`, `ActorEnds`). Chrome answers what it was sent in any
order, more than once, in the wrong session, late, or not at all. Time is one flag per
command, `due`.

### TestBody — `R/execution.rs`, `R/execution/`
One task interprets a plan tree, so its state is the suspended path `stack` and what a
node hands upwards, `ret`. `Proceed`, `SequenceEnds` are `body()`; `StepBegins` to
`EvidenceTaken` one leaf with its evidence; `BodyStarts`, `Observe`, `BodyReturns`,
`Abandon`, `Closes`, `Releases`, `WaiterEnds` the life of a timeout, a resource and the
root around their body; `Provisional`, `SessionCloses`, `TestEnds` the combination of
outcomes; `RootFact` is what the root's scope tells of itself, which may be a failure where
the test timed out. Control and clocks (`Ask`, `ControlCancels`, `Expire`, `BudgetEnds`) come
between any two of them. Retry, parallel and race nodes are other modules.

### BridgeClient, AppProvider — `C/app-bridge/src/provider.rs`
BridgeClient: callers register, write under a fair mutex and wait; an interrupted call
writes a cancel frame and closes the transport when nobody acknowledges it; a dropped
call leaves a task behind. AppProvider: the first call starts the application under the
mutex of the state, a shutdown takes it out and ends it outside; a shutdown that the
registry refuses closes the transport all the same. The application is external.

### ProcessCapture — `C/provider/src/process.rs`
`capture()` and the process group of one command, with descendants that keep its pipes.

### DebugSession — `C/dap/`; EditorDiagnostics — `C/lsp/`, `C/editor/`, `C/observation/`
A server task and a program that pauses, with an unbounded channel of resumes between
them. The handlers of a language server, each atomic up to an await, over open documents,
runs that complete late, reloads and publications.

### CdpPage, ChromeSession, BrowserInstall
CdpPage: `open()`, `perform()`, `wait_for_locator()` over a document that changes under them.
ChromeSession: one Chrome with its profile, its start or close dropped at any await.
BrowserInstall: processes that share a cache directory and may die anywhere.

### PlanCompiler, ValueTypes, RaceResult — `C/analysis/src/compiler/`, `C/plan/src/tree.rs`
A small test goes through name resolution, compilation, validation and a run, four sets of
rules for the same scopes. ValueTypes has the types and values; RaceResult takes a bound race
from the join of its branches to the binding of the winner's value. `MaxPath` and
`MaxBranches` are limits of the program, the ones `validate()` applies: only the number of
branches has a diagnostic too, so the model has trees that compile and are too high.

### TestCommand, ProjectInit — `C/app/`
`webtest test` from analysis to exit class and shutdown of all applications;
`webtest init` with its rollback while somebody else writes.

## 3. Runs

All runs use two workers and end within three minutes. Deadlock is not checked:
every one of these systems stops when its work is done.

| Run | Instance | Shows |
|---|---|---|
| `cancellation_tree` | three tokens, two cancelling threads, one waiter, clock 0..1; 637 000 states | no child escapes, no wakeup is lost. Three tokens make a chain and a fork; two threads race on both |
| `resource_registry` | two resources, two owners, four ids, symmetric in resources; 595 000 states | leases exclude each other, a cancelled resource is not handed out, and the registry implements `ResourceLifecycle`. Four ids are two generations with a lease each |
| `test_body` | a resource around a timeout with a provider step, and a browser step, seven nodes; 242 000 states | nothing of a scope is left behind its terminal fact, the outcome is justified, the first failure decides, every test ends. Each kind of node has one above and one below it |
| `browser` | two siblings; two commands in two sessions, a queue of one; one page, one Chrome, two installers and a clean; 81 000 states | only a healthy child wins and nothing is hidden; answers of Chrome and of a page are true; a Chrome and an installation are whole or gone; whatever was begun ends |
| `runner` | two files, two workers; one scope with deadlines 1 and 2 and budget 2; small tests of blocks in blocks, nested up to and past a limit of 12 for a path; races of three branches; two calls over a bridge; two applications; three paths; 275 000 states | green means everything ran, source order, `TestAdmission`; accepted tests run unless they are too deep; budgets hold; a reply reaches its call; exit class and shutdown; `init` is all or nothing; all of it ends |
| `runner_jobs_cancellation` | one file of three tests, two workers (`MCRunner`) | finding 1 |
| `events` | two runs, journals of three, queue of one, five events each; two scopes over one registration; 743 000 states | gaps are exact, the terminal fact is honest, roots stop, a subscriber sees exact prefixes and can resynchronise, its stream ends; the body lives under its lease and nothing outlives a scope. Five events overflow a journal of three and still reach `RunFinished`; a queue of one overflows at the second |
| `bridge_partial_frame` | two calls | finding 3 |
| `hosts` | two calls and a shutdown of one application; one command with a descendant; two steps under a debugger; one document edited, run and reloaded; two contexts of one wait registration; three attempts of a retry; 396 000 states | one application at a time, no process left, a step stops, diagnostics are current, waits are honest, retries and verdicts justified, pages come back; all of it ends |
| `debug_stale_resume` | one test of two steps | finding 4 |
| `retry_eligible` | up to three attempts | finding 2 |
| `race_optional_field` | types with an optional field | finding 5 |

`MaxTime`, `Horizon`, `MaxId`, `MaxEvents`, `MaxAttempts` and the like bound what would grow
without end; each is a constant that appears in a guard. `MaxPath` and `MaxBranches` are
limits of the program itself. The tests have none to three branches where two are allowed;
the longest path is scaled down from 128 to 12, because TLC evaluates a tree by recursion,
and nestings of four to six blocks make trees of heights from 9 to 16, the last that is
accepted and the first that is refused among them. Each property of a passing run has a
mutant in `PROJECT.json`: a plausible bug in one definition, written in the module just
before it, that breaks the property in the same instance; a property that joins those of
several components has one for each.

### Fairness

No run assumes that the environment is kind: a source, an adapter, a child, Chrome or an
application owes nothing unless it is listed here.

- CancellationTree: a thread inside `cancel()` goes on, and a woken task is polled (weak).
- WaitRegistry: time passes (strong: finitely many polls fit between two ticks), and the
  steps that the executor and the timer drive are taken (weak). Tokio polls what was
  woken and `timeout_at` fires. The source is not assumed to become ready.
- ResourceScope: time passes, and `run_observed()` goes on when it can.
- TestBody: the task is scheduled and deadlines and budgets expire (weak). No host has to
  answer, and the control may hold a step for ever; what is bounded by a budget ends with it.
- SiblingScheduler: the scheduler's loop and the propagation of `cancel()` go on (weak); a
  *cancelled* child finishes (strong), which `CancelledScopeReturns` shows for a child
  with a resource. A child that nobody cancelled may run for ever, so no property says
  that the node ends unless it is decided.
- RunnerJobs: the driver goes on, and while roots are pending one of them ends: each is
  bounded by its deadline and cleanup budget.
- EventStream: the publisher that found the queue full closes its sender; the consumer
  of the property is one that goes on reading.
- CdpConnection, CdpPage, ChromeSession: the actor's and the operation's own steps are
  taken, and clocks pass each deadline and grace (weak); a Chrome that was killed dies. The
  connection to a new Chrome has no timeout of its own (`C/browser-cdp/src/connection.rs:63`):
  it fails or is dropped in the end because the root wait of the test, under which the browser
  is acquired, drops it at the test's deadline and cleanup budget.
- BridgeClient, AppProvider, ProcessCapture: a task takes the steps that need nobody else,
  and timeouts fire (weak). The application may fall silent for ever.
- DebugSession: the server and the program are scheduled (weak). The client may stop asking.
- RetryNode, EditorDiagnostics, BrowserInstall, TestCommand, ProjectInit and the compiler:
  safety only, no fairness.

## 4. Proofs

The theorems hold for every value of the constants under the named assumptions of the
modules, which TLC evaluates in the runs. Most fix types and non-emptiness only
(`CapacityAssumption`, `MaxIdAssumption`, `OwnersAssumption`, `AttemptsAssumption`,
`ChildrenAssumption`, `CausesAssumption`, a `None` that is none of the values). Those that
say more say what the code guarantees:

- `SizeAssumption`, `FileOfAssumption` (RunnerJobs): roots are in the order of their files.
- `TreeAssumption`, `ResourceAssumption` (TestBody): no node is below itself, the root is
  the test, steps are leaves, a timeout and a resource have one body; and no resource node
  is inside another, because the compiler wraps the body of a test in one
  (`C/analysis/src/compiler.rs:138`) and inner bodies only below a retry or a concurrent
  node (`compiler/statements.rs:115`).
- `BackoffAssumption` (RetryNode): the delays of a backoff are natural numbers, and the
  initial one is at most the maximum.
- `RunsAssumption` (EventStream): a `Runner` has finitely many runs, and every root is one's.
- `ScopesFit` (ResourceScope) and `ConstantsFit` (WaitRegistry), named `ScopesAssumption`
  and `WaitAssumption` where they are assumed: finitely many scopes; capacities, budgets and
  deadlines are natural numbers, and a timeout is no cause.
- `CdpAssumption` (Browser): finitely many commands, each in a session, and room for one in
  the queue.
- `PageAssumption` (Browser): room for one event; "no loader" is no loader, and a fault of
  Chrome is told apart from the other answers.
- `StartsAssumption`, `ClosedAssumption` (Hosts): a bound on starts is a natural number, and
  a closed document has no revision.
- `FilesAssumption`, `PathsAssumption` (Runner): files, applications and the scaffold are
  finite sequences, a file has a natural number of tests, and a path one directory.

For each component a proof module states an inductive invariant (`Inv`, or the one named
below), proves that `Init` implies it and that each step keeps it, one lemma per part or per
operation, and derives the properties. TLC checked each invariant on small instances before
it was proved: on the states of the listed runs, and those of TestBody and ResourceScope on
370 000 states of two trees and 648 000 states of one and two scopes.

`CancellationTree_proofs`, `ResourceRegistry_proofs`, `ResourceScope_proofs` and
`TestBody_proofs` are about one module each; `Browser_proofs`, `Hosts_proofs`, `Runner_proofs`
and `Events_proofs` have one section for each of their components.

| Module | Inductive invariant beyond types | Why the property alone is not inductive | Results |
|---|---|---|---|
| CancellationTree | creation, work and list of a call agree with the marks (`CreationInv`, `WorkInv`); a sleeper has its future enabled, and is notified or owed it (`WaiterInv`) | a child may be missing from its parent's list, and a sleeper not be woken yet, because a call has taken that over: the call's debt must be part of the invariant | `NoChildLost`, `OnlyDownwards`, `FirstCause`, `NoWakeupMissed` |
| ResourceRegistry | entries agree with the history (`EntryInv`), leases are of ready, current generations (`LeaseSafety`), lease ids are unique, finished owners own nothing open | a lease granted against a stale generation would break exclusion later | `LeasesSafe`, `ExclusiveMeansAlone`, `TornDownOnce`, `FinishedForGood`, `CancelledStaysBack`, and `Implements`: refinement of `ResourceLifecycle` |
| ResourceScope | where the entry, the handle, the lease, the wait and the result of a scope are at each of its steps (`EntryFits` ... `ResultFits`); for a wait, what a late one still has to notice and what its cleanup deadline is counted from (`Doomed`, `Budget`) | that the registry accepts a call depends on all the calls before it; that a scope is torn down in time on a deadline its wait fixed long before | `BodiesUnderLease`, `NothingIsLeft`, `NeverRefused`, `ResultsStand`, `TeardownsInBudget`; `WaitsHold` for WaitRegistry alone; `RegistryUsed`: refinement of ResourceRegistry, and with it `ScopesTearDownOnce` |
| TestBody | the suspended path is a path of the tree with each node in a stage that fits its kind, and for each node on it what its body, its control and its terminal fact owe each other (`Path`, `StagesFit`, `Terminals`, `Completions`, `Unwinds`, `Verdict` and others) | what a suspended node will complete with, and what must be gone by then, is settled long before its terminal fact: by the failure below it, the cancellation above it or the first failure of the test | `NothingStaysBehind`, `OutcomesJustified`, `FirstFailureKept`, `TypeCorrect` |
| SiblingScheduler | what the loop has in hand, why it is unhealthy, what makes a winner, that the race is over for the others | a report not yet noticed must already forbid a win in the state before it is looked at | `WinnersHealthy`, `CancellationsJustified`, `FailuresReported`, `NoSecondWinner` |
| RunnerJobs | conservation of workers, progress of admission, slots and phases agree, reasons of skips | the verdict depends on slots filled in any order | `WorkersSafe`, `VerdictOrdered`, `NoFalseSuccess`, `FilesIndependent`, and `Implements`: refinement of `TestAdmission` |
| EventStream | per run: what is kept, where the gap begins and ends, what was judged; for the subscriber: what was sent is the head of what was published, in the order of each journal (`SenderInv`, `SentInv`); for the replay index: what it holds was offered and what it refused did not fit (`IndexInv`) | the reserved slot is what lets the last record follow a gap; an item leaves the queue long after its sender was closed | `GapsAccounted`, `TerminalFactsHonest`, `OverflowStopsRoots`, `StreamsExact` |
| RetryNode | what was lost, borrowed and projected in each phase, and the delay of the next attempt (`BackoffInv`) | a verdict needs the losses of the attempt before the attempt is judged | `OnlyEligibleRepeated`, `FailuresPublished`, `RetriedInPlace`, `TypeCorrect` |
| CdpConnection | `CdpInv`: ids are given once and what Chrome was asked under an id is what is pending there (`Correlation`); whatever an oneshot or a caller holds is true (`AnswersTrue`) | an answer that comes late, or twice, meets what is pending long after it was asked for, and is right only because no id is given to a second command | `CommandAnswersTrue` |
| CdpPage | `PageInv`: the memory of an action holds its reasons (`Remembered`); a navigation waited for, and each load that was told, happened (`Awaited`); a click has the request since its input in its queue, and behind it what settles the frame (`Watched`) | "waits until its navigation has settled" depends on the order of a lossy queue, which the answer no longer shows | `PagesHonest` |
| ChromeSession | `ChromeInv`: what a start or close has announced, and what has ended, at each await | the profile is removed only after a step that relies on the end of Chrome | `ChromesOwned` |
| BrowserInstall | `InstallInv`: until a lock is taken for stale it has one owner, and until a clean only the owner changes the target (`OneOwner`) | a target is whole because of who could not have written to it between two looks | `InstallsWhole` |
| BridgeClient | `BridgeInv`: only the reader fills an oneshot with a reply (`RepliesRead`); a call that waits stays registered until it is filled (`Registered`) | that nobody waits in vain rests on who may take a registration out | `BridgeStaysHonest` |
| AppProvider | `AppInv`: whoever starts holds the mutex and the state is empty (`HolderStarts`); a process in the making has a starter, who kills it before failing (`StarterKnown`) | a second application would be begun many awaits before it runs | `OneApplicationRuns` |
| ProcessCapture | `CaptureInv`: nothing before the spawn, nothing that forks after the end | a descendant may be born between the kill and the reaping | `ProcessesEnd` |
| DebugSession | `DebugInv`: pauses are numbered, and a resume names one that was (`Numbered`); between a step command and the next stop a request to pause is queued (`StepQueued`) | the command is handled in one pause and used up in another | `StepsStop` |
| EditorDiagnostics | `EditorInv`: the run that may commit is the last one of its file and configuration (`Latest`); what is shown is out of date only while somebody owes a publication (`Shown`) | stored results look alike whoever committed them, and the client lags behind the store | `DiagnosticsStayCurrent` |
| TestCommand | `CommandInv`: which applications are up in each phase, and the count of failed teardowns; `ExitInv`: what the reports say of each file as soon as there are any (`FilesTold`) | the property speaks of the end; the exit class is combined from reports made one at a time | `CommandStaysHonest` |
| ProjectInit | `SetupInv`: who wrote what is there (`Authors`), and what the loop has passed (`Walked`) | what the rollback may remove was decided path by path, while somebody else wrote | `SetupAllOrNothing` |
| WaitRegistry, ResourceScope beside others | those of `ResourceScope_proofs`, by instantiation | | `WaitsHonest`, `ScopesInTime`, `ScopesHold` |

How some of the arguments go:

- *TestBody.* A step enters a node, leaves one, abandons the path below one, or stays. The
  proof has a lemma for what each of these four moves keeps of the path above, and
  derives each of the invariant's parts for it once; an action then only has to be one of
  the moves and to get its own node right.
- *RetryNode.* The delay before an attempt is a recursive function. That one exists
  is proved from the existence of all its finite parts, by the least attempt for which
  there would be none; that delays double up to the maximum is then its equation.
- *TestCommand.* The counts of a report are cardinalities of sets of pairs of a file and an
  index, and the file whose result is judged next is the least index of a set, so that no
  fold and no recursion has to be reasoned about. That a sequence of files has finitely many
  such pairs has no induction to lean on either: it is proved by the least number of files
  for which they would not be finitely many.
- *CdpPage.* The invariant says of each position of the queue what must have happened when
  its event was told, so that it survives reading the head; once events were lost, it
  claims no more of a click that waits, and neither does the property.

`ResourceScope_proofs` takes what it needs of the registry's types and of `TornDownOnce`
from `ResourceRegistry_proofs` by instantiation, and proves the waits as a system of its own
whose steps scopes take. The modules with scopes or waits of their own take its theorems the
same way, with their variables put in. Where a theorem states a type invariant or a property
that no run lists by that name (`FirstCauseWins`, `LeaseSafety`, `TeardownOnce`,
`WorkersConserved`, `WinnerNeverReplaced`, those of `ResourceScope_proofs`), the theorem
stands alone; the listed runs check the ones about scopes and waits as parts of `ScopeHolds`,
`ScopeInTime` and `WaitHonest`, which have theorems too.

Every invariant and every safety action property that a passing run checks has a theorem,
except `AcceptedRuns`. Only model-checked are:

- every liveness property (`NoLostWakeup`, `BrowserEnds`, `RunsEnd`, `HostsEnd`, `EveryTestEnds`,
  `GapEndsStream`): fairness and `ENABLED` are out of the prover's reach, so that a cancelled
  wait, scope, call or test *ends* is TLC's result (`NoWakeupMissed` is the safety half of
  `NoLostWakeup`);
- `AcceptedRuns`, and with it the compiler's part (PlanCompiler, ValueTypes, RaceResult). It
  is an induction over programs and types, and made of recursive operators, which the
  prover does not take;
- the findings, which are counterexamples.

## 5. Findings

1. **A cancellation is lost from a verdict** (run `runner_jobs_cancellation`,
   `R/runner/jobs.rs:326`). Tests are skipped as cancelled; a root that ran already
   aborts without having been cancelled itself. `run_allocated()` then derives the prior
   outcome from tests that were cancelled themselves and finds none, so the file ends
   `Aborted` with no prior outcome. `src/specs/milestone-e.md:348` says that summaries
   retain cancellation "whether it finishes before or after an independent abort".
2. **Recovered failures forbid a retry** (run `retry_eligible`,
   `R/execution/retry.rs:129`). The comment at line 122 says "Inspect every unrecovered
   failure" and that children that passed "may themselves retain recovered alternatives".
   `retryable_result()` also descends into the losers of a race the attempt won, so an
   eligible failure after such a race is not retried.
3. **A frame behind a part of one** (run `bridge_partial_frame`,
   `C/app-bridge/src/provider.rs:1395`). A call interrupted inside its frame gives up the
   writer's mutex before the transport is closed; a sibling writes its frame behind the
   part. The comment at line 1393 says that the transport "can no longer be used safely by
   this or sibling calls".
4. **A stale resume** (run `debug_stale_resume`, `C/dap/src/lib.rs:555`). A `continue` that is
   handled while no step is paused stays in the channel and ends the next pause at once.
   The test at line 1956 is named `breakpoint_pauses_before_the_step_until_continue`.
5. **A winner that cannot be bound** (run `race_optional_field`,
   `R/execution/state.rs:46`). A record that lacks an optional field is decoded to one
   that has it, null, and is rejected when it is decoded again for the parent.
   `src/specs/milestone-e.md:206` says that the parent binds the winner of branches with
   compatible types.

Two more limits are documented nowhere and so are no findings:

- A value of type `Json` may be built of parts that must not cross into another branch
  (ValueTypes).
- Nothing before the validation of a plan bounds how deep blocks are nested. About 63 nested
  `timeout`, `retry` or `parallel` blocks compile without a diagnostic to a tree that
  `validate()` refuses as too deep (`C/plan/src/tree.rs:402`), and the author gets an internal
  error: from the runner, before the first test of the file (`R/runner.rs:161`), or from
  `webtest build` (`C/app/src/commands/build.rs:86`). `AcceptedRuns` says exactly this: such a
  tree is refused, and every other tree that compiles is accepted and runs. The compiler's own
  assertion (`C/analysis/src/compiler.rs:163`) looks at capabilities only.

## 6. Plan

Done, the most depended-on behaviour first: the runtime (cancellation, waits, resources,
scopes, test body, schedulers, retries, runner, events), then Chrome, bridge, application,
processes, debugger and editor, then compiler and command.

Next: the parser and the lowering of a source as functions on small token sequences (what
is accepted without a diagnostic is kept); the cache of the query database; a sequential
runner as a second implementation of `TestAdmission`; nested schedulers that share a
failure signal; types of expressions against their evaluation.

Next proofs: that a resource node of TestBody sees of its scope only what `ResultsStand` and
`NothingIsLeft` say; and that the parts of PlanCompiler which are not recursive (the rules for
one scope) agree with each other for all names.

## 7. What is left out, and why

- Texts, paths and messages: a property never looks into them. Values only where a type
  or a transfer is at stake (ValueTypes).
- What a test does in a page, in a provider or in the application is external. Its
  outcomes are chosen freely.
- `wait()` is never dropped by the code's callers, so no model drops it; a node inside it
  may be, and RetryNode's is.
- Allocation of execution identities and its exhaustion (`u64`).
- Sequential code over large data: lexing, parsing and formatting, descriptions and
  completion, JSON schemas, plan files, configuration. No step of another actor comes
  between theirs, and property-based tests fit them better than a model checker.
- Straight lines of operating system calls: search for executables, downloads, sockets.
