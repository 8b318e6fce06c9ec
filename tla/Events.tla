------------------------------- MODULE Events -------------------------------
(***************************************************************************)
(* The events of the runs of a Runner, and the resource scopes such runs   *)
(* are made of, which are a module with variables of its own.              *)
(***************************************************************************)
EXTENDS EventStream

CONSTANTS
  Scopes, Cooperative, MaxActive, CleanupTimeout, Causes, Timeout, Deadlines, Horizon, NoCause

VARIABLES
  now, cause, at, deadline, active, waitPhase, primary, cleanupBy, secondary, doomed, openedAt,
  nextId, entries, leases, begun, finished,
  pc, host, body, result, observed, scopeBy, teardownAt, refusals

scopeVars == <<now, cause, at, deadline, active, waitPhase, primary, cleanupBy, secondary, doomed,
               openedAt, nextId, entries, leases, begun, finished,
               pc, host, body, result, observed, scopeBy, teardownAt, refusals>>

Scope == INSTANCE ResourceScope WITH
  None <- NoCause, phase <- waitPhase, refused <- refusals

ASSUME ScopesAssumption == Scope!ScopesFit

\* The body of a scope runs under its lease, the registry refuses no step of a scope, and
\* nothing of a scope that returned is left in the registries: see ResourceScope.
ScopeHolds == Scope!BodyUnderLease /\ Scope!RegistryNeverRefuses /\ Scope!NothingOutlivesScope
=============================================================================
