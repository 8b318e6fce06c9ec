---------------------------- MODULE ResourceScope ----------------------------
(***************************************************************************)
(* The acquire / body / teardown protocol of                               *)
(* crates/runtime/src/resource_scope.rs, run by several scopes over one    *)
(* WaitRegistry and one ResourceRegistry.                                  *)
(*                                                                         *)
(* A scope waits for its adapter to acquire a host handle, leases the      *)
(* resource, waits for the body, reports the primary result and tears the  *)
(* handle down.  Its token may be cancelled from another thread between    *)
(* any two steps.  Scope, context, owner and resource share one name: a    *)
(* run acquires one resource for the scope of its context.                 *)
(*                                                                         *)
(* The adapter and the body are external: acquire() may obtain a handle    *)
(* and still fail or never become ready, interrupt() and teardown() may    *)
(* fail or hang.  An adapter acknowledges a handle when it obtains it.     *)
(***************************************************************************)
EXTENDS Naturals, FiniteSets

CONSTANTS
  Scopes, MaxActive, CleanupTimeout, Causes, Timeout, Deadlines, Horizon, None,
  Cooperative   \* scopes whose adapter has cooperative_body_interruption()

VARIABLES
  now, cause, at, deadline, active, phase, primary, cleanupBy, secondary, doomed, openedAt,
  nextId, entries, leases, begun, finished,
  pc,        \* where run_observed() of the scope is
  host,      \* the adapter's host handle
  body,      \* the body future: not yet or no longer there, or alive
  result,    \* the local `primary' of run_observed()
  observed,  \* history: what primary_known() was told
  scopeBy,   \* the local `cleanup_deadline'
  teardownAt, \* history: when teardown() started
  refused    \* scopes with a ResourceCleanupFailure::Invariant

W == INSTANCE WaitRegistry WITH Contexts <- Scopes
R == INSTANCE ResourceRegistry WITH Resources <- Scopes, Owners <- Scopes,
                                    MaxId <- 2 * Cardinality(Scopes)

\* What the proofs assume of the constants: those of the waits, and a finite number of scopes.
ScopesFit == W!ConstantsFit /\ IsFiniteSet(Scopes) /\ Scopes # {}

scopeVars == <<pc, host, body, result, observed, scopeBy, teardownAt, refused>>
waitVars == <<now, cause, at, deadline, active, phase, primary, cleanupBy, secondary, doomed, openedAt>>
registryVars == <<nextId, entries, leases, begun, finished>>
vars == <<waitVars, registryVars, scopeVars>>

Pcs == {"start", "acquiring", "acquire", "lease", "bodystart", "body", "report", "unlease",
        "classify", "release", "teardown", "torn", "failed", "finish", "finishfailed",
        "done", "validated"}

TypeOK ==
  /\ W!TypeOK
  /\ R!TypeOK
  /\ pc \in [Scopes -> Pcs]
  /\ host \in [Scopes -> {"absent", "open", "closed"}]
  /\ body \in [Scopes -> {"none", "alive"}]
  /\ \A s \in Scopes : result[s] = W!Unknown <=>
       pc[s] \in {"start", "acquiring", "acquire", "lease", "bodystart", "body"}
  /\ scopeBy \in [Scopes -> 0..(now + CleanupTimeout)]
  /\ refused \in SUBSET Scopes

Idle ==
  /\ pc = [s \in Scopes |-> "start"]
  /\ host = [s \in Scopes |-> "absent"]
  /\ body = [s \in Scopes |-> "none"]
  /\ result = [s \in Scopes |-> W!Unknown]
  /\ observed = [s \in Scopes |-> W!Unknown]
  /\ scopeBy = [s \in Scopes |-> 0]
  /\ teardownAt = [s \in Scopes |-> 0]
  /\ refused = {}

Init == W!Init /\ R!Init /\ Idle

-----------------------------------------------------------------------------
(* Helpers                                                                 *)

Gen(s) == entries[s].gen
At(s, from) == pc[s] = from
Goto(s, to) == pc' = [pc EXCEPT ![s] = to]
Result(s, r) == result' = [result EXCEPT ![s] = r]

\* A registry call: a refusal is recorded and changes nothing.
Call(s, can, operation) ==
  \/ can /\ operation /\ UNCHANGED refused
  \/ ~can /\ refused' = refused \cup {s} /\ UNCHANGED registryVars

-----------------------------------------------------------------------------
(* Acquisition                                                             *)

BeginAcquisition(s) ==
  /\ now <= Horizon
  /\ At(s, "start") /\ Goto(s, "acquiring")
  /\ R!BeginAcquisition(s, s, "Exclusive")
  /\ UNCHANGED <<waitVars, host, body, result, observed, scopeBy, teardownAt, refused>>

BeginAcquireWait(s) ==
  /\ At(s, "acquiring") /\ Goto(s, "acquire")
  /\ W!Register(s) \/ W!Reject(s)
  /\ UNCHANGED <<registryVars, host, body, result, observed, scopeBy, teardownAt, refused>>

\* The adapter obtains the handle while it is polled, and acknowledges it.
HostOpens(s) ==
  /\ At(s, "acquire") /\ phase[s] = "source"
  /\ host[s] = "absent"
  /\ host' = [host EXCEPT ![s] = "open"]
  /\ Call(s, R!CanAcknowledge(s, Gen(s)), R!AcknowledgeOwnership(s, Gen(s)))
  /\ UNCHANGED <<waitVars, pc, body, result, observed, scopeBy, teardownAt>>

\* The steps of wait() on the acquisition; AcquireWait::cleanup does nothing.
AcquireWait(s) ==
  /\ At(s, "acquire")
  /\ \/ W!PollCancelled(s) \/ W!PollDeadline(s) \/ W!OpenCleanup(s)
     \/ W!PollSource(s) /\ (primary'[s].kind = "Ready" => host[s] = "open")
     \/ W!InterruptExpires(s) \/ W!CleanupEnds(s, FALSE)
  /\ UNCHANGED <<registryVars, scopeVars>>

\* A cancellation that arrived since the wait ended wins over a ready handle.
AfterAcquire(s) ==
  /\ At(s, "acquire") /\ phase[s] = "done"
  /\ scopeBy' = [scopeBy EXCEPT ![s] = cleanupBy[s]]
  /\ \/ /\ cause[s] # None
        /\ Result(s, W!CancelledBy(cause[s])) /\ Goto(s, "report")
        /\ UNCHANGED <<registryVars, refused>>
     \/ /\ cause[s] = None /\ primary[s].kind # "Ready"
        /\ Result(s, primary[s]) /\ Goto(s, "report")
        /\ UNCHANGED <<registryVars, refused>>
     \/ /\ cause[s] = None /\ primary[s].kind = "Ready"
        /\ Call(s, R!CanReady(s, Gen(s)), R!Ready(s, Gen(s)))
        /\ IF s \in refused'
             THEN Result(s, W!Completion("Failed")) /\ Goto(s, "report")
             ELSE Goto(s, "lease") /\ UNCHANGED result
  /\ UNCHANGED <<waitVars, host, body, observed, teardownAt>>

TakeLease(s) ==
  /\ At(s, "lease")
  /\ Call(s, R!CanLease(s, Gen(s), "Exclusive"), R!TakeLease(s, Gen(s), s, "Exclusive"))
  /\ IF s \in refused'
       THEN Result(s, W!Completion("Failed")) /\ Goto(s, "report")
       ELSE Goto(s, "bodystart") /\ UNCHANGED result
  /\ UNCHANGED <<waitVars, host, body, observed, scopeBy, teardownAt>>

-----------------------------------------------------------------------------
(* Body                                                                    *)

\* A full wait registry drops the body without polling it.
BeginBodyWait(s) ==
  /\ At(s, "bodystart") /\ Goto(s, "body")
  /\ \/ W!Register(s) /\ body' = [body EXCEPT ![s] = "alive"]
     \/ W!Reject(s) /\ UNCHANGED body
  /\ UNCHANGED <<registryVars, host, result, observed, scopeBy, teardownAt, refused>>

\* Mutant: BodyWait::cleanup leaves an interrupted body to its destructor.
BodyWaitKeepsBody(s) ==
  /\ At(s, "body")
  /\ \/ (W!PollCancelled(s) \/ W!PollDeadline(s) \/ W!InterruptExpires(s) \/ W!CleanupEnds(s, FALSE))
        /\ UNCHANGED body
     \/ /\ W!PollSource(s)
        /\ body' = IF phase'[s] = "settled" THEN [body EXCEPT ![s] = "none"] ELSE body
     \/ /\ W!OpenCleanup(s)
        /\ body' = IF s \in Cooperative THEN body ELSE [body EXCEPT ![s] = "none"]
  /\ UNCHANGED <<registryVars, pc, host, result, observed, scopeBy, teardownAt, refused>>

\* A body that completes is gone; an interrupted one is dropped before the
\* adapter's interrupt(), or goes on next to it when the adapter is cooperative.
BodyWait(s) ==
  /\ At(s, "body")
  /\ \/ /\ W!PollCancelled(s) \/ W!PollDeadline(s)
        /\ UNCHANGED body
     \/ /\ W!PollSource(s)
        /\ body' = IF phase'[s] = "settled" THEN [body EXCEPT ![s] = "none"] ELSE body
     \/ /\ W!OpenCleanup(s)
        /\ body' = IF s \in Cooperative THEN body ELSE [body EXCEPT ![s] = "none"]
     \/ /\ W!InterruptExpires(s)
        /\ UNCHANGED body
     \/ /\ W!CleanupEnds(s, FALSE)
        /\ body' = [body EXCEPT ![s] = "none"]
  /\ UNCHANGED <<registryVars, pc, host, result, observed, scopeBy, teardownAt, refused>>

\* The adapter's interrupt() returns; a cooperative body is joined with it.
AdapterInterrupted(s, failed) ==
  /\ pc[s] \in {"acquire", "body"}
  /\ W!InterruptEnds(s, failed)
  /\ body' = [body EXCEPT ![s] = "none"]
  /\ UNCHANGED <<registryVars, pc, host, result, observed, scopeBy, teardownAt, refused>>

\* Mutant: teardown gets a cleanup timeout on top of the wait's deadline.
AfterBodyExtended(s) ==
  /\ At(s, "body") /\ phase[s] = "done" /\ Goto(s, "report")
  /\ Result(s, primary[s])
  /\ scopeBy' = [scopeBy EXCEPT ![s] = cleanupBy[s] + CleanupTimeout]
  /\ UNCHANGED <<waitVars, registryVars, host, body, observed, teardownAt, refused>>

AfterBody(s) ==
  /\ At(s, "body") /\ phase[s] = "done" /\ Goto(s, "report")
  /\ Result(s, primary[s])
  /\ scopeBy' = [scopeBy EXCEPT ![s] = cleanupBy[s]]
  /\ UNCHANGED <<waitVars, registryVars, host, body, observed, teardownAt, refused>>

-----------------------------------------------------------------------------
(* Report and teardown                                                     *)

Report(s) ==
  /\ At(s, "report") /\ Goto(s, "unlease")
  /\ observed' = [observed EXCEPT ![s] = result[s]]
  /\ IF result[s].kind = "Cancelled"
       THEN Call(s, R!CanCancel(s, Gen(s)), R!Cancel(s, Gen(s)))
       ELSE UNCHANGED <<registryVars, refused>>
  /\ UNCHANGED <<waitVars, host, body, result, scopeBy, teardownAt>>

\* Mutant: the lease is given back after a success only.
UnleaseOnSuccess(s) ==
  /\ At(s, "unlease") /\ Goto(s, "classify")
  /\ \/ result[s].kind = "Ready" /\ \E l \in leases : l.owner = s /\ R!ReleaseLease(l)
     \/ result[s].kind # "Ready" /\ UNCHANGED registryVars
  /\ UNCHANGED <<waitVars, host, body, result, observed, scopeBy, teardownAt, refused>>

Unlease(s) ==
  /\ At(s, "unlease") /\ Goto(s, "classify")
  /\ \/ \E l \in leases : l.owner = s /\ R!ReleaseLease(l)
     \/ (\A l \in leases : l.owner # s) /\ UNCHANGED registryVars
  /\ UNCHANGED <<waitVars, host, body, result, observed, scopeBy, teardownAt, refused>>

\* Mutant: only a resource that became ready is torn down.
ClassifyReady(s) ==
  /\ At(s, "classify") /\ Goto(s, IF entries[s].acquisition = "Ready" THEN "release" ELSE "done")
  /\ IF entries[s].acquisition = "Acquiring"
       THEN Call(s, R!CanAcquireFail(s, Gen(s)), R!AcquireFailed(s, Gen(s)))
       ELSE UNCHANGED <<registryVars, refused>>
  /\ UNCHANGED <<waitVars, host, body, result, observed, scopeBy, teardownAt>>

\* An acquisition that never became ready failed; only an owned one is torn down.
Classify(s) ==
  /\ At(s, "classify") /\ Goto(s, IF entries[s].owned THEN "release" ELSE "done")
  /\ IF entries[s].acquisition = "Acquiring"
       THEN Call(s, R!CanAcquireFail(s, Gen(s)), R!AcquireFailed(s, Gen(s)))
       ELSE UNCHANGED <<registryVars, refused>>
  /\ UNCHANGED <<waitVars, host, body, result, observed, scopeBy, teardownAt>>

\* Mutant: teardown gets a cleanup budget of its own.
BeginTeardownAfresh(s) ==
  /\ At(s, "release")
  /\ Call(s, R!CanBeginRelease(s, Gen(s)), R!BeginRelease(s, Gen(s)))
  /\ Goto(s, IF s \in refused' THEN "done" ELSE "teardown")
  /\ teardownAt' = [teardownAt EXCEPT ![s] = now]
  /\ scopeBy' = [scopeBy EXCEPT ![s] = now + CleanupTimeout]
  /\ UNCHANGED <<waitVars, host, body, result, observed>>

BeginTeardown(s) ==
  /\ At(s, "release")
  /\ Call(s, R!CanBeginRelease(s, Gen(s)), R!BeginRelease(s, Gen(s)))
  /\ Goto(s, IF s \in refused' THEN "done" ELSE "teardown")
  /\ teardownAt' = [teardownAt EXCEPT ![s] = now]
  /\ UNCHANGED <<waitVars, host, body, result, observed, scopeBy>>

\* adapter.teardown(), bounded by what is left of the cleanup budget.
TeardownEnds(s, succeeded) ==
  /\ At(s, "teardown") /\ Goto(s, IF succeeded THEN "torn" ELSE "failed")
  /\ host' = IF succeeded THEN [host EXCEPT ![s] = "closed"] ELSE host
  /\ UNCHANGED <<waitVars, registryVars, body, result, observed, scopeBy, teardownAt, refused>>

\* Mutant: teardown is awaited without a bound.
TeardownNeverExpires(s) == FALSE /\ TeardownEnds(s, FALSE)

TeardownExpires(s) == now >= scopeBy[s] /\ TeardownEnds(s, FALSE)

\* Mutant: a late cancellation replaces a failure as well.
CancelLateAlways(s) ==
  /\ pc[s] \in {"torn", "failed"}
  /\ Goto(s, IF pc[s] = "torn" THEN "finish" ELSE "finishfailed")
  /\ IF cause[s] = None
       THEN UNCHANGED <<registryVars, refused, result>>
       ELSE /\ Call(s, R!CanCancel(s, Gen(s)), R!Cancel(s, Gen(s)))
            /\ Result(s, W!CancelledBy(cause[s]))
  /\ UNCHANGED <<waitVars, host, body, observed, scopeBy, teardownAt>>

\* The token is read again: a success cancelled during its teardown is cancelled.
CancelLate(s) ==
  /\ pc[s] \in {"torn", "failed"}
  /\ Goto(s, IF pc[s] = "torn" THEN "finish" ELSE "finishfailed")
  /\ IF cause[s] = None
       THEN UNCHANGED <<registryVars, refused, result>>
       ELSE /\ Call(s, R!CanCancel(s, Gen(s)), R!Cancel(s, Gen(s)))
            /\ Result(s, IF result[s].kind = "Ready" THEN W!CancelledBy(cause[s]) ELSE result[s])
  /\ UNCHANGED <<waitVars, host, body, observed, scopeBy, teardownAt>>

FinishTeardown(s) ==
  /\ pc[s] \in {"finish", "finishfailed"} /\ Goto(s, "done")
  /\ Call(s, R!CanFinishRelease(s, Gen(s)), R!FinishRelease(s, Gen(s), At(s, "finish")))
  /\ UNCHANGED <<waitVars, host, body, result, observed, scopeBy, teardownAt>>

\* The owner's check after run() returned.
Validate(s) ==
  /\ At(s, "done") /\ Goto(s, "validated")
  /\ Call(s, R!OwnerFinished(s), R!ValidateOwnerFinished(s))
  /\ UNCHANGED <<waitVars, host, body, result, observed, scopeBy, teardownAt>>

-----------------------------------------------------------------------------
Cancel(s, k) == W!Cancel(s, k) /\ UNCHANGED <<registryVars, scopeVars>>

\* As in WaitRegistry; after the bound only external work takes time.
Tick ==
  /\ W!Tick
  /\ \A s \in Scopes :
       /\ At(s, "teardown") => now < scopeBy[s]
       /\ now >= Horizon =>
            \/ pc[s] \in {"start", "teardown", "done", "validated"}
            \/ pc[s] \in {"acquire", "body"} /\ phase[s] \in {"select", "interrupt"}
  /\ UNCHANGED <<registryVars, scopeVars>>

\* What the scope does by itself, whatever the adapter and the body do.
Step(s) ==
  \/ BeginAcquireWait(s) \/ AcquireWait(s) \/ AfterAcquire(s) \/ TakeLease(s)
  \/ BeginBodyWait(s) \/ BodyWait(s) \/ AfterBody(s) \/ Report(s) \/ Unlease(s) \/ Classify(s)
  \/ BeginTeardown(s) \/ TeardownExpires(s) \/ CancelLate(s) \/ FinishTeardown(s) \/ Validate(s)

Next ==
  \/ Tick
  \/ \E s \in Scopes :
       \/ BeginAcquisition(s) \/ HostOpens(s) \/ Step(s)
       \/ \E ok \in BOOLEAN : AdapterInterrupted(s, ~ok) \/ TeardownEnds(s, ok)
       \/ \E k \in Causes : Cancel(s, k)

Spec == Init /\ [][Next]_vars
FairSpec == Spec /\ SF_vars(Tick) /\ \A s \in Scopes : WF_vars(Step(s))

-----------------------------------------------------------------------------
(* Properties                                                              *)

\* A body future exists only while its scope holds the lease of a ready
\* resource whose handle is open: never before the acquisition is acknowledged
\* and never once the lease is given back or the teardown has begun.
BodyUnderLease ==
  \A s \in Scopes : body[s] = "alive" =>
    /\ host[s] = "open"
    /\ \E l \in leases : l.owner = s /\ l.res = s /\ R!Current(s, l.gen)
    /\ entries[s].acquisition = "Ready" /\ entries[s].teardown = "Pending"

\* Nothing outlives run(): no registered wait, no lease, no body, and a handle
\* that is still open is recorded as a failed teardown.
NothingOutlivesScope ==
  \A s \in Scopes : pc[s] \in {"done", "validated"} =>
    /\ s \notin active
    /\ \A l \in leases : l.owner # s
    /\ body[s] = "none"
    /\ host[s] = "open" => entries[s].teardown = "Failed"

\* The protocol never asks the registry for something it refuses.
RegistryNeverRefuses == refused = {}

\* What the scheduler was told when the primary result became known stays true,
\* except that a success may still turn into a cancellation during teardown.
ObservedResultStands ==
  \A s \in Scopes : observed[s] # W!Unknown =>
    result[s] = observed[s] \/ (observed[s].kind = "Ready" /\ result[s].kind = "Cancelled")

\* Teardown spends what the interrupt left of the one cleanup budget.
TeardownInBudget ==
  \A s \in Scopes : At(s, "teardown") =>
    \/ now = teardownAt[s]
    \/ now <= openedAt[s] + CleanupTimeout
       /\ (primary[s].kind = "Cancelled" => now <= at[s] + CleanupTimeout)

\* A cancelled scope is torn down and returns, whatever host calls hang.
CancelledScopeReturns ==
  \A s \in Scopes :
    (pc[s] # "start" /\ cause[s] # None) ~> pc[s] = "validated"
=============================================================================
