------------------------ MODULE ResourceScope_proofs ------------------------
(***************************************************************************)
(* Proofs about ResourceScope for any scopes, deadlines and budgets: what  *)
(* it promises, that it uses the two registries as their own modules       *)
(* allow, and what follows from the proofs about them.  The waits are      *)
(* proved first, whoever takes their steps.                                *)
(***************************************************************************)
EXTENDS ResourceScope, FiniteSetTheorems, TLAPS

RP == INSTANCE ResourceRegistry_proofs WITH Resources <- Scopes, Owners <- Scopes,
                                            MaxId <- 2 * Cardinality(Scopes)

-----------------------------------------------------------------------------
(* The wait of a scope                                                     *)

\* A wait is registered exactly while it runs, its result is unknown exactly until it is settled,
\* and a cancelled result comes from a cancelled token.
Waits(s) ==
  /\ s \in active <=> phase[s] \in W!Running
  /\ primary[s] = W!Unknown <=> phase[s] \in {"idle", "select", "polling", "source"}
  /\ primary[s].kind = "Cancelled" => cause[s] # None

\* What a wait that was entered too late still has to notice, at each of its polls.
Doomed(s) ==
  doomed[s] =>
    /\ primary[s].kind \notin {"Ready", "Failed"}
    /\ phase[s] # "source"
    /\ phase[s] = "polling" => W!Overdue(s)
    /\ phase[s] = "select" => cause[s] # None \/ W!Overdue(s)

\* The cleanup deadline, from the moment it is fixed to the end of the wait and beyond.
Budget(s) ==
  phase[s] \in W!Cleaning \cup {"done"} =>
    /\ cleanupBy[s] <= openedAt[s] + CleanupTimeout
    /\ primary[s].kind = "Cancelled" => cleanupBy[s] = at[s] + CleanupTimeout
    /\ phase[s] \in W!Cleaning => now = openedAt[s] \/ now <= cleanupBy[s]

WaitInv == W!TypeOK /\ \A s \in Scopes : Waits(s) /\ Doomed(s) /\ Budget(s)

-----------------------------------------------------------------------------
(* What the registries know of a scope                                     *)

Early == {"start", "acquiring", "acquire", "lease", "bodystart", "body"}
Untorn == Early \cup {"report", "unlease", "classify", "release"}
Tearing == {"teardown", "torn", "failed", "finish", "finishfailed"}
Over == {"done", "validated"}

\* The resource of a scope is where the scope is.
EntryFits(s) ==
  /\ entries[s].gen = 0 <=> pc[s] = "start"
  /\ entries[s].gen # 0 => entries[s].owner = s
  /\ entries[s].owned <=> host[s] # "absent"
  /\ entries[s].acquisition = "Ready" => entries[s].owned
  /\ pc[s] \in {"start", "acquiring"} => ~entries[s].owned
  /\ pc[s] \in {"start", "acquiring", "acquire"} => entries[s].acquisition = "Acquiring"
  /\ pc[s] \in {"lease", "bodystart", "body"} => entries[s].acquisition = "Ready"
  /\ pc[s] \in {"report", "unlease", "classify"} =>
       entries[s].acquisition \in {"Acquiring", "Ready"}
  /\ pc[s] = "release" => entries[s].acquisition # "Acquiring"
  /\ pc[s] \in Early \cup {"report"} => ~entries[s].cancelled
  /\ pc[s] \in Untorn => entries[s].teardown = "Pending"
  /\ pc[s] \in {"release"} \cup Tearing => entries[s].owned
  /\ pc[s] \in Tearing => entries[s].teardown = "Releasing"
  /\ pc[s] \in Over => entries[s].teardown \in {"Released", "Failed"}
  /\ s \in finished => pc[s] = "validated"

\* An acquisition is ready with a handle only, which a teardown that succeeded closes and nothing
\* else does.
HandleFits(s) ==
  /\ host[s] = "closed" => pc[s] \in {"torn", "finish"} \cup Over
  /\ pc[s] = "acquire" /\ primary[s].kind = "Ready" => host[s] = "open"
  /\ pc[s] \in {"torn", "finish"} => host[s] = "closed"
  /\ pc[s] \in Over /\ host[s] = "open" => entries[s].teardown = "Failed"

\* A scope holds at most one lease, on its own resource, and holds it while its body may run.
Held(s) == {l \in leases : l.owner = s}

LeaseFits(s) ==
  /\ \A l \in Held(s) :
       l.res = s /\ l.gen = entries[s].gen /\ pc[s] \in {"bodystart", "body", "report", "unlease"}
  /\ \A l, m \in Held(s) : l = m
  /\ pc[s] \in {"bodystart", "body"} => Held(s) # {}

\* A scope is in its wait or has none, and takes the deadline of its last wait with it.
WaitFits(s) ==
  /\ pc[s] \notin {"acquire", "body"} => phase[s] \in {"idle", "done"}
  /\ body[s] = "alive" => pc[s] = "body" /\ phase[s] \in W!Running
  /\ pc[s] \in {"report", "unlease", "classify", "release", "teardown"} =>
       phase[s] = "done" /\ scopeBy[s] = cleanupBy[s]
  /\ pc[s] = "teardown" => now = teardownAt[s] \/ now <= scopeBy[s]

\* The result is told once, when it is known.
ResultFits(s) ==
  /\ result[s] = W!Unknown <=> pc[s] \in Early
  /\ pc[s] \in Early \cup {"report"} => observed[s] = W!Unknown
  /\ observed[s] # W!Unknown =>
       result[s] = observed[s] \/ (observed[s].kind = "Ready" /\ result[s].kind = "Cancelled")

ScopeFits(s) == EntryFits(s) /\ HandleFits(s) /\ LeaseFits(s) /\ WaitFits(s) /\ ResultFits(s)

Outcome == [kind : {"unknown", "Ready", "Failed", "Rejected", "Cancelled"},
            cause : W!AnyCause \cup {None}]

ScopeTypes ==
  /\ pc \in [Scopes -> Pcs]
  /\ host \in [Scopes -> {"absent", "open", "closed"}]
  /\ body \in [Scopes -> {"none", "alive"}]
  /\ result \in [Scopes -> Outcome] /\ observed \in [Scopes -> Outcome]
  /\ scopeBy \in [Scopes -> 0..(now + CleanupTimeout)]
  /\ teardownAt \in [Scopes -> Nat]
  /\ refused = {}

Inv == WaitInv /\ R!TypeOK /\ ScopeTypes /\ \A s \in Scopes : ScopeFits(s)

-----------------------------------------------------------------------------
(* Waits: whoever takes the steps of wait()                                *)

WaitMoves(s) ==
  \/ \E k \in Causes : W!Cancel(s, k)
  \/ W!Register(s) \/ W!Reject(s)
  \/ W!PollCancelled(s) \/ W!PollDeadline(s) \/ W!PollSource(s) \/ W!OpenCleanup(s)
  \/ \E f \in BOOLEAN : W!InterruptEnds(s, f) \/ W!CleanupEnds(s, f)

WaitStep == W!Tick \/ (\E s \in Scopes : WaitMoves(s)) \/ UNCHANGED waitVars

\* Its steps leave the waits of other scopes alone.
OthersWait(s) ==
  /\ now' = now
  /\ \A u \in Scopes \ {s} :
       /\ cause'[u] = cause[u] /\ at'[u] = at[u] /\ deadline'[u] = deadline[u]
       /\ u \in active' <=> u \in active
       /\ phase'[u] = phase[u] /\ primary'[u] = primary[u] /\ cleanupBy'[u] = cleanupBy[u]
       /\ secondary'[u] = secondary[u] /\ doomed'[u] = doomed[u] /\ openedAt'[u] = openedAt[u]

LEMMA WaitLocal ==
  ASSUME W!TypeOK, NEW s \in Scopes, WaitMoves(s)
  PROVE  OthersWait(s)
<1> USE DEF W!TypeOK, OthersWait, W!waitVars, W!tokenVars
<1>1. CASE \E k \in Causes : W!Cancel(s, k)
  BY <1>1 DEF W!Cancel
<1>2. CASE W!Register(s)
  BY <1>2 DEF W!Register, W!Begin
<1>3. CASE W!Reject(s)
  BY <1>3 DEF W!Reject, W!Begin, W!OpenBudget
<1>4. CASE W!PollCancelled(s)
  BY <1>4 DEF W!PollCancelled, W!Settle
<1>5. CASE W!PollDeadline(s)
  BY <1>5 DEF W!PollDeadline, W!Settle
<1>6. CASE W!PollSource(s)
  BY <1>6 DEF W!PollSource, W!Settle
<1>7. CASE W!OpenCleanup(s)
  BY <1>7 DEF W!OpenCleanup, W!OpenBudget
<1>8. CASE \E f \in BOOLEAN : W!InterruptEnds(s, f)
  BY <1>8 DEF W!InterruptEnds, W!BoundedEnds
<1>9. CASE \E f \in BOOLEAN : W!CleanupEnds(s, f)
  BY <1>9 DEF W!CleanupEnds, W!BoundedEnds
<1> QED
  BY <1>1, <1>2, <1>3, <1>4, <1>5, <1>6, <1>7, <1>8, <1>9 DEF WaitMoves

LEMMA Outcomes ==
  /\ \A k \in W!AnyCause : W!CancelledBy(k) \in Outcome
  /\ \A k \in {"unknown", "Ready", "Failed", "Rejected"} : W!Completion(k) \in Outcome
  /\ W!Unknown \in Outcome
BY DEF Outcome, W!CancelledBy, W!Completion, W!Unknown

LEMMA SettleTypes ==
  ASSUME W!TypeOK, NEW s \in Scopes, NEW r \in Outcome, W!Settle(s, r)
  PROVE  phase' \in [Scopes -> W!Phases] /\ primary' \in [Scopes -> Outcome]
BY DEF W!TypeOK, W!Settle, W!Phases, W!Running, Outcome

LEMMA WaitTypes ==
  ASSUME W!ConstantsFit, W!TypeOK, NEW s \in Scopes, WaitMoves(s)
  PROVE  W!TypeOK'
<1>1. CASE \E k \in Causes : W!Cancel(s, k)
  BY <1>1 DEF W!Cancel, W!TypeOK, W!waitVars, W!AnyCause
<1>2. CASE W!Register(s)
  BY <1>2 DEF W!Register, W!Begin, W!TypeOK, W!tokenVars, W!Phases, W!Running, W!Completion,
              W!Unknown
<1>3. CASE W!Reject(s)
  BY <1>3 DEF W!ConstantsFit, W!Reject, W!Begin, W!OpenBudget, W!Epoch, W!TypeOK,
              W!tokenVars, W!Phases, W!Running,
              W!MaxTime, W!Completion
<1>4. CASE W!PollCancelled(s)
  <2>1. phase' \in [Scopes -> W!Phases] /\ primary' \in [Scopes -> Outcome]
    <3>1. CASE cause[s] # None
      <4>1. W!CancelledBy(cause[s]) \in Outcome
        BY <3>1, Outcomes DEF W!TypeOK
      <4> QED
        BY <1>4, <3>1, <4>1, SettleTypes DEF W!PollCancelled
    <3>2. CASE cause[s] = None
      BY <1>4, <3>2 DEF W!PollCancelled, W!TypeOK, W!Phases, W!Running, Outcome
    <3> QED
      BY <3>1, <3>2
  <2> QED
    BY <1>4, <2>1 DEF W!PollCancelled, W!TypeOK, W!tokenVars, Outcome
<1>5. CASE W!PollDeadline(s)
  <2>1. phase' \in [Scopes -> W!Phases] /\ primary' \in [Scopes -> Outcome]
    <3>1. CASE W!Overdue(s)
      <4>1. W!CancelledBy(Timeout) \in Outcome
        BY Outcomes DEF W!AnyCause
      <4> QED
        BY <1>5, <3>1, <4>1, SettleTypes DEF W!PollDeadline
    <3>2. CASE ~W!Overdue(s)
      BY <1>5, <3>2 DEF W!PollDeadline, W!TypeOK, W!Phases, W!Running, Outcome
    <3> QED
      BY <3>1, <3>2
  <2>2. cause' \in [Scopes -> W!AnyCause \cup {None}] /\ at' \in [Scopes -> 0..now]
    <3>1. CASE W!Overdue(s) /\ cause[s] = None
      BY <1>5, <3>1 DEF W!PollDeadline, W!TypeOK, W!AnyCause
    <3>2. CASE ~(W!Overdue(s) /\ cause[s] = None)
      BY <1>5, <3>2 DEF W!PollDeadline, W!TypeOK
    <3> QED
      BY <3>1, <3>2
  <2> QED
    BY <1>5, <2>1, <2>2 DEF W!PollDeadline, W!TypeOK, Outcome
<1>6. CASE W!PollSource(s)
  <2>1. phase' \in [Scopes -> W!Phases] /\ primary' \in [Scopes -> Outcome]
    <3>1. CASE \E k \in {"Ready", "Failed"} : W!Settle(s, W!Completion(k))
      <4>1. PICK k \in {"Ready", "Failed"} : W!Settle(s, W!Completion(k))
        BY <3>1
      <4>2. W!Completion(k) \in Outcome
        BY Outcomes
      <4> QED
        BY <4>1, <4>2, SettleTypes
    <3>2. CASE phase' = [phase EXCEPT ![s] = "select"] /\ primary' = primary
      BY <3>2 DEF W!TypeOK, W!Phases, W!Running, Outcome
    <3> QED
      BY <1>6, <3>1, <3>2 DEF W!PollSource
  <2> QED
    BY <1>6, <2>1 DEF W!PollSource, W!TypeOK, W!tokenVars, Outcome
<1>7. CASE W!OpenCleanup(s)
  BY <1>7 DEF W!ConstantsFit, W!OpenCleanup, W!OpenBudget, W!Epoch, W!TypeOK,
              W!tokenVars, W!Phases, W!Running,
              W!MaxTime
<1>8. CASE \E f \in BOOLEAN : W!InterruptEnds(s, f)
  BY <1>8 DEF W!InterruptEnds, W!BoundedEnds, W!TypeOK, W!tokenVars, W!Phases, W!Running
<1>9. CASE \E f \in BOOLEAN : W!CleanupEnds(s, f)
  BY <1>9 DEF W!CleanupEnds, W!BoundedEnds, W!TypeOK, W!tokenVars, W!Phases, W!Running
<1> QED
  BY <1>1, <1>2, <1>3, <1>4, <1>5, <1>6, <1>7, <1>8, <1>9 DEF WaitMoves

LEMMA WaitsKept ==
  ASSUME W!ConstantsFit, WaitInv, NEW s \in Scopes, WaitMoves(s)
  PROVE  Waits(s)'
<1> USE DEF W!ConstantsFit, W!TypeOK, W!waitVars, W!tokenVars, WaitInv, Waits,
            W!Running, W!Completion, W!CancelledBy, W!Unknown
<1>1. CASE \E k \in Causes : W!Cancel(s, k)
  BY <1>1 DEF W!Cancel
<1>2. CASE W!Register(s)
  BY <1>2 DEF W!Register, W!Begin
<1>3. CASE W!Reject(s)
  BY <1>3 DEF W!Reject, W!Begin, W!OpenBudget
<1>4. CASE W!PollCancelled(s)
  BY <1>4 DEF W!PollCancelled, W!Settle
<1>5. CASE W!PollDeadline(s)
  BY <1>5 DEF W!PollDeadline, W!Settle
<1>6. CASE W!PollSource(s)
  BY <1>6 DEF W!PollSource, W!Settle
<1>7. CASE W!OpenCleanup(s)
  BY <1>7 DEF W!OpenCleanup, W!OpenBudget
<1>8. CASE \E f \in BOOLEAN : W!InterruptEnds(s, f)
  BY <1>8 DEF W!InterruptEnds, W!BoundedEnds
<1>9. CASE \E f \in BOOLEAN : W!CleanupEnds(s, f)
  BY <1>9 DEF W!CleanupEnds, W!BoundedEnds
<1> QED
  BY <1>1, <1>2, <1>3, <1>4, <1>5, <1>6, <1>7, <1>8, <1>9 DEF WaitMoves

\* A deadline that has passed stays passed, a token that was cancelled stays cancelled.
LEMMA DoomedKept ==
  ASSUME W!ConstantsFit, WaitInv, NEW s \in Scopes, WaitMoves(s)
  PROVE  Doomed(s)'
<1> USE DEF W!ConstantsFit, W!TypeOK, W!waitVars, W!tokenVars, WaitInv, Waits, Doomed,
            W!Completion, W!CancelledBy, W!Unknown, W!Overdue
<1>1. CASE \E k \in Causes : W!Cancel(s, k)
  BY <1>1 DEF W!Cancel
<1>2. CASE W!Register(s)
  BY <1>2 DEF W!Register, W!Begin
<1>3. CASE W!Reject(s)
  BY <1>3 DEF W!Reject, W!Begin, W!OpenBudget
<1>4. CASE W!PollCancelled(s)
  BY <1>4 DEF W!PollCancelled, W!Settle
<1>5. CASE W!PollDeadline(s)
  BY <1>5 DEF W!PollDeadline, W!Settle
<1>6. CASE W!PollSource(s)
  BY <1>6 DEF W!PollSource, W!Settle
<1>7. CASE W!OpenCleanup(s)
  BY <1>7 DEF W!OpenCleanup, W!OpenBudget
<1>8. CASE \E f \in BOOLEAN : W!InterruptEnds(s, f)
  BY <1>8 DEF W!InterruptEnds, W!BoundedEnds
<1>9. CASE \E f \in BOOLEAN : W!CleanupEnds(s, f)
  BY <1>9 DEF W!CleanupEnds, W!BoundedEnds
<1> QED
  BY <1>1, <1>2, <1>3, <1>4, <1>5, <1>6, <1>7, <1>8, <1>9 DEF WaitMoves

\* The budget is counted from the cancellation, which never moves.
LEMMA BudgetKept ==
  ASSUME W!ConstantsFit, WaitInv, NEW s \in Scopes, WaitMoves(s)
  PROVE  Budget(s)'
<1> USE DEF W!ConstantsFit, W!TypeOK, W!waitVars, W!tokenVars, WaitInv, Waits, Budget,
            W!Completion, W!CancelledBy, W!Unknown, W!Cleaning
<1>1. CASE \E k \in Causes : W!Cancel(s, k)
  BY <1>1 DEF W!Cancel
<1>2. CASE W!Register(s)
  BY <1>2 DEF W!Register, W!Begin
<1>3. CASE W!Reject(s)
  BY <1>3 DEF W!Reject, W!Begin, W!OpenBudget, W!Epoch
<1>4. CASE W!PollCancelled(s)
  BY <1>4 DEF W!PollCancelled, W!Settle
<1>5. CASE W!PollDeadline(s)
  BY <1>5 DEF W!PollDeadline, W!Settle
<1>6. CASE W!PollSource(s)
  BY <1>6 DEF W!PollSource, W!Settle
<1>7. CASE W!OpenCleanup(s)
  BY <1>7 DEF W!OpenCleanup, W!OpenBudget, W!Epoch
<1>8. CASE \E f \in BOOLEAN : W!InterruptEnds(s, f)
  BY <1>8 DEF W!InterruptEnds, W!BoundedEnds
<1>9. CASE \E f \in BOOLEAN : W!CleanupEnds(s, f)
  BY <1>9 DEF W!CleanupEnds, W!BoundedEnds
<1> QED
  BY <1>1, <1>2, <1>3, <1>4, <1>5, <1>6, <1>7, <1>8, <1>9 DEF WaitMoves

\* A tick only moves the clock, and not past a cleanup deadline that somebody sleeps on.
LEMMA TickWaits ==
  ASSUME W!ConstantsFit, WaitInv, W!Tick
  PROVE  WaitInv'
<1>1. now \in Nat /\ now' = now + 1 /\ now' \in 0..W!MaxTime
  BY DEF W!ConstantsFit, WaitInv, W!TypeOK, W!Tick, W!MaxTime
<1>2. W!TypeOK'
  BY <1>1 DEF W!ConstantsFit, WaitInv, W!TypeOK, W!Tick, W!tokenVars, W!waitVars
<1>3. ASSUME NEW s \in Scopes
      PROVE  (Waits(s) /\ Doomed(s) /\ Budget(s))'
  <2>1. Waits(s)'
    BY <1>3 DEF WaitInv, Waits, W!Tick, W!tokenVars, W!waitVars
  <2>2. Doomed(s)'
    <3>1. deadline[s] # None => deadline[s] \in Nat
      <4>1. deadline[s] \in Deadlines \cup {None}
        BY <1>3 DEF WaitInv, W!TypeOK
      <4>2. Deadlines \subseteq Nat
        BY DEF W!ConstantsFit
      <4> QED
        BY <4>1, <4>2
    <3>2. W!Overdue(s) => W!Overdue(s)'
      BY <1>1, <3>1 DEF W!Overdue, W!Tick, W!tokenVars
    <3> QED
      BY <1>3, <3>2 DEF WaitInv, Doomed, W!Tick, W!tokenVars, W!waitVars
  <2>3. Budget(s)'
    BY <1>1, <1>3 DEF W!ConstantsFit, WaitInv, W!TypeOK, Budget, W!Tick, W!Cleaning,
              W!tokenVars, W!waitVars
  <2> QED
    BY <2>1, <2>2, <2>3
<1> QED
  BY <1>2, <1>3 DEF WaitInv

LEMMA WaitsStep ==
  ASSUME W!ConstantsFit, WaitInv, WaitStep
  PROVE  WaitInv'
<1>1. CASE W!Tick
  BY <1>1, TickWaits
<1>2. CASE \E s \in Scopes : WaitMoves(s)
  <2>1. PICK s \in Scopes : WaitMoves(s)
    BY <1>2
  <2>2. W!TypeOK' /\ OthersWait(s)
    BY <2>1, WaitTypes, WaitLocal DEF WaitInv
  <2>3. ASSUME NEW u \in Scopes
        PROVE  (Waits(u) /\ Doomed(u) /\ Budget(u))'
    <3>1. CASE u = s
      BY <2>1, <3>1, WaitsKept, DoomedKept, BudgetKept
    <3>2. CASE u # s
      BY <2>2, <2>3, <3>2 DEF WaitInv, OthersWait, Waits, Doomed, Budget, W!Overdue
    <3> QED
      BY <3>1, <3>2
  <2> QED
    BY <2>2, <2>3 DEF WaitInv
<1>3. CASE UNCHANGED waitVars
  BY <1>3 DEF waitVars, WaitInv, W!TypeOK, Waits, Doomed, Budget, W!Overdue
<1> QED
  BY <1>1, <1>2, <1>3 DEF WaitStep

LEMMA WaitsBegin ==
  ASSUME W!ConstantsFit, W!Init
  PROVE  WaitInv
<1>1. W!TypeOK
  BY DEF W!ConstantsFit, W!Init, W!TypeOK, W!MaxTime, W!Phases, W!Unknown, W!Completion
<1>2. ASSUME NEW s \in Scopes
      PROVE  Waits(s) /\ Doomed(s) /\ Budget(s)
  BY <1>2 DEF W!Init, Waits, Doomed, Budget, W!Running, W!Cleaning, W!Unknown, W!Completion
<1> QED
  BY <1>1, <1>2 DEF WaitInv

-----------------------------------------------------------------------------
(* The registry: what its accepted calls keep of the types                 *)

LEMMA RegistryConstants ==
  ASSUME ScopesFit
  PROVE  2 * Cardinality(Scopes) \in Nat
<1>1. Cardinality(Scopes) \in Nat
  BY FS_CardinalityType DEF ScopesFit
<1> QED
  BY <1>1

\* The registry of the scopes and the one the proofs are about are the same.
LEMMA SameTypes == R!TypeOK <=> RP!TypeOK
BY DEF R!TypeOK, RP!TypeOK, R!Entry, RP!Entry, R!Access, RP!Access, R!Lease, RP!Lease, R!Ids, RP!Ids

LEMMA SameNext == R!Next <=> RP!Next
BY DEF R!Next, RP!Next, R!Access, RP!Access, R!Ids, RP!Ids, R!BeginAcquisition, RP!BeginAcquisition,
  R!AcknowledgeOwnership, RP!AcknowledgeOwnership, R!Ready, RP!Ready, R!AcquireFailed,
  RP!AcquireFailed, R!Cancel, RP!Cancel, R!BeginRelease, RP!BeginRelease, R!FinishRelease,
  RP!FinishRelease, R!Reacquire, RP!Reacquire, R!TakeLease, RP!TakeLease, R!ReleaseLease,
  RP!ReleaseLease, R!ValidateOwnerFinished, RP!ValidateOwnerFinished,
  R!CanAcknowledge, RP!CanAcknowledge, R!CanReady, RP!CanReady, R!CanAcquireFail, RP!CanAcquireFail,
  R!CanLease, RP!CanLease, R!CanCancel, RP!CanCancel, R!CanBeginRelease, RP!CanBeginRelease,
  R!CanFinishRelease, RP!CanFinishRelease, R!OwnerFinished, RP!OwnerFinished, R!Current, RP!Current,
  R!LeasesOn, RP!LeasesOn, R!Fresh, RP!Fresh, R!Update, RP!Update, R!Acquiring, RP!Acquiring

LEMMA RegistryTypes ==
  ASSUME ScopesFit, R!TypeOK, [R!Next]_(R!vars)
  PROVE  R!TypeOK'
<1>1. RP!MaxIdAssumption /\ RP!OwnersAssumption
  BY RegistryConstants DEF ScopesFit, RP!MaxIdAssumption, RP!OwnersAssumption
<1>2. RP!TypeOK /\ [RP!Next]_(RP!vars)
  BY SameTypes, SameNext DEF R!vars, RP!vars
<1>3. RP!TypeOK'
  BY <1>1, <1>2, RP!TypeStep
<1> QED
  BY <1>3 DEF R!TypeOK, RP!TypeOK, R!Entry, RP!Entry, R!Access, RP!Access, R!Lease, RP!Lease, R!Ids,
              RP!Ids

-----------------------------------------------------------------------------
(* One scope's step                                                        *)

\* It leaves the other scopes alone ...
OtherScopes(s) ==
  /\ now' = now
  /\ \A u \in Scopes \ {s} :
       /\ pc'[u] = pc[u] /\ host'[u] = host[u] /\ body'[u] = body[u] /\ result'[u] = result[u]
       /\ observed'[u] = observed[u] /\ scopeBy'[u] = scopeBy[u] /\ teardownAt'[u] = teardownAt[u]
       /\ phase'[u] = phase[u] /\ primary'[u] = primary[u] /\ cleanupBy'[u] = cleanupBy[u]
       /\ entries'[u] = entries[u]
       /\ u \in finished' <=> u \in finished
       /\ Held(u)' = Held(u)

\* ... waits and owns as the registries allow, and stays where it should be.
Kept(s) ==
  /\ WaitStep /\ [R!Next]_(R!vars)
  /\ ScopeTypes' /\ OtherScopes(s) /\ ScopeFits(s)'

\* What it leaves alone stays where it was.
LEMMA Others ==
  ASSUME NEW s, OtherScopes(s), NEW u \in Scopes, u # s, ScopeFits(u)
  PROVE  ScopeFits(u)'
<1> USE DEF OtherScopes
<1>1. EntryFits(u)' /\ HandleFits(u)'
  BY DEF ScopeFits, EntryFits, HandleFits
<1>2. LeaseFits(u)'
  BY DEF ScopeFits, LeaseFits
<1>3. WaitFits(u)' /\ ResultFits(u)'
  BY DEF ScopeFits, WaitFits, ResultFits
<1> QED
  BY <1>1, <1>2, <1>3 DEF ScopeFits

\* From here on, one lemma per operation of run_observed().
LEMMA BeginAcquisitionKept ==
  ASSUME ScopesFit, Inv, NEW s \in Scopes, BeginAcquisition(s)
  PROVE  Kept(s)
<1>0. ScopeTypes /\ ScopeFits(s)
  BY DEF Inv
<1>1. pc[s] = "start" /\ pc' = [pc EXCEPT ![s] = "acquiring"]
      /\ UNCHANGED <<waitVars, leases, finished>>
  BY DEF BeginAcquisition, At, Goto, R!BeginAcquisition
<1>2. nextId # 0 /\ entries' = [entries EXCEPT ![s] = R!Acquiring(nextId, s, "Exclusive")]
  BY DEF BeginAcquisition, R!BeginAcquisition, R!Update, Inv, R!TypeOK
<1>3. WaitStep
  BY <1>1 DEF WaitStep
<1>4. [R!Next]_(R!vars)
  BY <1>0, <1>1 DEF BeginAcquisition, R!Next, R!Access, ScopeFits, EntryFits
<1>5. ScopeTypes'
  BY <1>0, <1>1 DEF BeginAcquisition, ScopeTypes, Pcs, waitVars
<1>6. OtherScopes(s)
  BY <1>0, <1>1, <1>2 DEF BeginAcquisition, ScopeTypes, OtherScopes, Held, waitVars, Inv, R!TypeOK
<1>7. EntryFits(s)' /\ HandleFits(s)'
  <2>1. entries'[s] = R!Acquiring(nextId, s, "Exclusive")
    BY <1>2 DEF Inv, R!TypeOK
  <2>2. /\ entries'[s].gen # 0 /\ entries'[s].owner = s /\ entries'[s].acquisition = "Acquiring"
        /\ entries'[s].teardown = "Pending" /\ ~entries'[s].owned /\ ~entries'[s].cancelled
    BY <1>2, <2>1 DEF R!Acquiring
  <2>3. pc'[s] = "acquiring" /\ host'[s] = "absent" /\ s \notin finished'
    BY <1>0, <1>1 DEF BeginAcquisition, ScopeTypes, ScopeFits, EntryFits, HandleFits, R!Entry, Inv,
      R!TypeOK, Over
  <2> QED
    BY <2>2, <2>3 DEF EntryFits, HandleFits, Early, Untorn, Tearing, Over
<1>8. LeaseFits(s)'
  BY <1>0, <1>1 DEF ScopeTypes, ScopeFits, LeaseFits, Held
<1>9. WaitFits(s)' /\ ResultFits(s)'
  BY <1>0, <1>1 DEF BeginAcquisition, ScopeTypes, ScopeFits, WaitFits, ResultFits, Early, waitVars
<1> QED
  BY <1>3, <1>4, <1>5, <1>6, <1>7, <1>8, <1>9 DEF Kept, ScopeFits

LEMMA BeginAcquireWaitKept ==
  ASSUME ScopesFit, Inv, NEW s \in Scopes, BeginAcquireWait(s)
  PROVE  Kept(s)
<1>0. ScopeTypes /\ ScopeFits(s) /\ W!TypeOK
  BY DEF Inv, WaitInv
<1>1. pc[s] = "acquiring" /\ pc' = [pc EXCEPT ![s] = "acquire"]
  BY DEF BeginAcquireWait, At, Goto
<1>2. WaitMoves(s)
  BY DEF BeginAcquireWait, WaitMoves
<1>3. OthersWait(s)
  BY <1>0, <1>2, WaitLocal
<1>4. WaitStep /\ [R!Next]_(R!vars)
  BY <1>2 DEF WaitStep, BeginAcquireWait, registryVars, R!vars
<1>5. ScopeTypes'
  BY <1>0, <1>1, <1>3 DEF BeginAcquireWait, ScopeTypes, Pcs, OthersWait
<1>6. OtherScopes(s)
  BY <1>0, <1>1, <1>3 DEF BeginAcquireWait, ScopeTypes, OtherScopes, OthersWait, Held, registryVars
<1>a. primary'[s].kind # "Ready"
  BY <1>0 DEF BeginAcquireWait, W!TypeOK, W!Register, W!Reject, W!Unknown, W!Completion
<1>7. EntryFits(s)' /\ HandleFits(s)'
  BY <1>0, <1>1, <1>a DEF BeginAcquireWait, ScopeTypes, ScopeFits, EntryFits, HandleFits,
      registryVars, Early, Untorn, Tearing, Over
<1>8. LeaseFits(s)'
  BY <1>0, <1>1 DEF BeginAcquireWait, ScopeTypes, ScopeFits, LeaseFits, Held, registryVars
<1>9. WaitFits(s)' /\ ResultFits(s)'
  BY <1>0, <1>1 DEF BeginAcquireWait, ScopeTypes, ScopeFits, WaitFits, ResultFits, Early
<1> QED
  BY <1>4, <1>5, <1>6, <1>7, <1>8, <1>9 DEF Kept, ScopeFits

LEMMA HostOpensKept ==
  ASSUME ScopesFit, Inv, NEW s \in Scopes, HostOpens(s)
  PROVE  Kept(s)
<1>0. ScopeTypes /\ ScopeFits(s) /\ entries[s] \in R!Entry /\ entries \in [Scopes -> R!Entry]
  BY DEF Inv, R!TypeOK
<1>1. pc[s] = "acquire" /\ host[s] = "absent" /\ host' = [host EXCEPT ![s] = "open"] /\ now' = now
      /\ UNCHANGED <<waitVars, pc, body, result, observed, scopeBy, teardownAt>>
  BY DEF HostOpens, At, waitVars
<1>2. R!CanAcknowledge(s, Gen(s)) /\ Gen(s) \in R!Ids
  BY <1>0, <1>1, RegistryConstants DEF ScopeFits, EntryFits, R!CanAcknowledge, R!Current, Gen,
    R!Ids, R!Entry
<1>3. R!AcknowledgeOwnership(s, Gen(s)) /\ refused' = refused
  BY <1>2 DEF HostOpens, Call
<1>4. entries' = [entries EXCEPT ![s] = [entries[s] EXCEPT !.owned = TRUE]]
      /\ UNCHANGED <<leases, finished>>
  BY <1>3 DEF R!AcknowledgeOwnership, R!Update
<1>5. WaitStep /\ [R!Next]_(R!vars)
  BY <1>1, <1>2, <1>3 DEF WaitStep, R!Next
<1>6. ScopeTypes'
  BY <1>0, <1>1, <1>3 DEF ScopeTypes
<1>7. OtherScopes(s)
  BY <1>0, <1>1, <1>4 DEF ScopeTypes, OtherScopes, Held, waitVars
<1>8. EntryFits(s)' /\ HandleFits(s)'
  BY <1>0, <1>1, <1>4 DEF ScopeTypes, ScopeFits, EntryFits, HandleFits, R!Entry, Early, Untorn,
    Tearing, Over
<1>9. LeaseFits(s)'
  BY <1>0, <1>1, <1>4 DEF ScopeTypes, ScopeFits, LeaseFits, Held, R!Entry
<1>10. WaitFits(s)' /\ ResultFits(s)'
  BY <1>0, <1>1 DEF ScopeTypes, ScopeFits, WaitFits, ResultFits, Early, waitVars
<1> QED
  BY <1>5, <1>6, <1>7, <1>8, <1>9, <1>10 DEF Kept, ScopeFits

LEMMA AcquireWaitKept ==
  ASSUME ScopesFit, Inv, NEW s \in Scopes, AcquireWait(s)
  PROVE  Kept(s)
<1>0. ScopeTypes /\ ScopeFits(s) /\ W!TypeOK
  BY DEF Inv, WaitInv
<1>1. WaitMoves(s) /\ pc[s] = "acquire" /\ UNCHANGED <<registryVars, scopeVars>>
  BY DEF AcquireWait, WaitMoves, W!InterruptExpires, At
<1>2. OthersWait(s)
  BY <1>0, <1>1, WaitLocal
<1>3. WaitStep /\ [R!Next]_(R!vars)
  BY <1>1 DEF WaitStep, registryVars, R!vars
<1>4. ScopeTypes'
  BY <1>0, <1>1, <1>2 DEF ScopeTypes, scopeVars, OthersWait
<1>5. OtherScopes(s)
  BY <1>1, <1>2 DEF OtherScopes, OthersWait, Held, registryVars, scopeVars
<1>a. primary'[s].kind = "Ready" => host[s] = "open"
  <2> USE DEF W!TypeOK, ScopeFits, HandleFits
  <2>1. CASE W!PollCancelled(s)
    BY <1>0, <1>1, <2>1 DEF W!PollCancelled, W!Settle, W!CancelledBy
  <2>2. CASE W!PollDeadline(s)
    BY <1>0, <1>1, <2>2 DEF W!PollDeadline, W!Settle, W!CancelledBy
  <2>3. CASE W!PollSource(s) /\ (primary'[s].kind = "Ready" => host[s] = "open")
    BY <2>3
  <2>4. CASE W!OpenCleanup(s) \/ W!InterruptExpires(s) \/ W!CleanupEnds(s, FALSE)
    BY <1>0, <1>1, <2>4 DEF W!OpenCleanup, W!InterruptExpires, W!InterruptEnds, W!CleanupEnds,
      W!BoundedEnds
  <2> QED
    BY <2>1, <2>2, <2>3, <2>4 DEF AcquireWait
<1>6. ScopeFits(s)'
  BY <1>0, <1>1, <1>a DEF ScopeFits, EntryFits, HandleFits, LeaseFits, Held, WaitFits, ResultFits,
    registryVars, scopeVars
<1> QED
  BY <1>3, <1>4, <1>5, <1>6 DEF Kept

LEMMA AfterAcquireKept ==
  ASSUME ScopesFit, Inv, NEW s \in Scopes, AfterAcquire(s)
  PROVE  Kept(s)
<1>0. ScopeTypes /\ ScopeFits(s) /\ W!TypeOK /\ Waits(s) /\ entries \in [Scopes -> R!Entry]
  BY DEF Inv, WaitInv, R!TypeOK
<1>1. pc[s] = "acquire" /\ phase[s] = "done" /\ scopeBy' = [scopeBy EXCEPT ![s] = cleanupBy[s]]
      /\ now' = now /\ UNCHANGED <<waitVars, host, body, observed, teardownAt>>
  BY DEF AfterAcquire, At, waitVars
<1>2. CASE cause[s] # None \/ primary[s].kind # "Ready"
  <2>1. PICK r \in Outcome : r # W!Unknown /\ result' = [result EXCEPT ![s] = r]
    <3>1. CASE cause[s] # None
      <4>1. W!CancelledBy(cause[s]) \in Outcome
        BY <1>0, <3>1, Outcomes DEF W!TypeOK
      <4>2. W!CancelledBy(cause[s]) # W!Unknown
        BY DEF W!CancelledBy, W!Unknown, W!Completion
      <4> QED
        BY <3>1, <4>1, <4>2 DEF AfterAcquire, Result
    <3>2. CASE cause[s] = None
      <4>1. primary[s] \in Outcome /\ primary[s] # W!Unknown
        BY <1>0, <1>1 DEF W!TypeOK, Outcome, Waits
      <4> QED
        BY <1>2, <3>2, <4>1 DEF AfterAcquire, Result
    <3> QED
      BY <3>1, <3>2
  <2>2. pc' = [pc EXCEPT ![s] = "report"] /\ UNCHANGED <<registryVars, refused>>
    BY <1>2 DEF AfterAcquire, Goto
  <2>3. WaitStep /\ [R!Next]_(R!vars)
    BY <1>1, <2>2 DEF WaitStep, registryVars, R!vars
  <2>4. ScopeTypes'
    BY <1>0, <1>1, <2>1, <2>2 DEF ScopeTypes, Pcs, W!TypeOK
  <2>5. OtherScopes(s)
    BY <1>0, <1>1, <2>1, <2>2 DEF ScopeTypes, OtherScopes, Held, registryVars, waitVars
  <2>6. EntryFits(s)' /\ HandleFits(s)' /\ LeaseFits(s)'
    BY <1>0, <1>1, <2>2 DEF ScopeTypes, ScopeFits, EntryFits, HandleFits, LeaseFits, Held,
      registryVars, Early, Untorn, Tearing, Over
  <2>7. WaitFits(s)' /\ ResultFits(s)'
    BY <1>0, <1>1, <2>1, <2>2 DEF ScopeTypes, ScopeFits, WaitFits, ResultFits, Early, waitVars
  <2> QED
    BY <2>3, <2>4, <2>5, <2>6, <2>7 DEF Kept, ScopeFits
<1>3. CASE cause[s] = None /\ primary[s].kind = "Ready"
  <2>1. R!CanReady(s, Gen(s)) /\ Gen(s) \in R!Ids
    BY <1>0, <1>1, <1>3, RegistryConstants DEF ScopeFits, EntryFits, HandleFits, R!CanReady,
      R!Current, Gen, R!Ids, R!Entry, Early, Untorn
  <2>2. R!Ready(s, Gen(s)) /\ refused' = refused
    BY <1>0, <1>3, <2>1 DEF AfterAcquire, Call
  <2>3. pc' = [pc EXCEPT ![s] = "lease"] /\ result' = result
    BY <1>0, <1>3, <2>2 DEF AfterAcquire, Goto, ScopeTypes
  <2>4. entries' = [entries EXCEPT ![s] = [entries[s] EXCEPT !.acquisition = "Ready"]]
        /\ UNCHANGED <<leases, finished>>
    BY <2>2 DEF R!Ready, R!Update
  <2>5. WaitStep /\ [R!Next]_(R!vars)
    BY <1>1, <2>1, <2>2 DEF WaitStep, R!Next
  <2>6. ScopeTypes'
    BY <1>0, <1>1, <2>2, <2>3 DEF ScopeTypes, Pcs, W!TypeOK
  <2>7. OtherScopes(s)
    BY <1>0, <1>1, <2>3, <2>4 DEF ScopeTypes, OtherScopes, Held, waitVars
  <2>8. EntryFits(s)' /\ HandleFits(s)' /\ LeaseFits(s)'
    BY <1>0, <1>1, <2>1, <2>3, <2>4 DEF ScopeTypes, ScopeFits, EntryFits, HandleFits, LeaseFits,
      Held, R!CanReady, R!Entry, Early, Untorn, Tearing, Over
  <2>9. WaitFits(s)' /\ ResultFits(s)'
    BY <1>0, <1>1, <2>3 DEF ScopeTypes, ScopeFits, WaitFits, ResultFits, Early, waitVars
  <2> QED
    BY <2>5, <2>6, <2>7, <2>8, <2>9 DEF Kept, ScopeFits
<1> QED
  BY <1>2, <1>3

LEMMA TakeLeaseKept ==
  ASSUME ScopesFit, Inv, NEW s \in Scopes, TakeLease(s)
  PROVE  Kept(s)
<1>0. ScopeTypes /\ ScopeFits(s) /\ R!TypeOK /\ \A u \in Scopes : LeaseFits(u)
  BY DEF Inv, ScopeFits
<1>1. pc[s] = "lease" /\ now' = now
      /\ UNCHANGED <<waitVars, host, body, observed, scopeBy, teardownAt>>
  BY DEF TakeLease, At, waitVars
<1>2. \A l \in leases : l.res # s
  <2> SUFFICES ASSUME NEW l \in leases, l.res = s PROVE FALSE
    OBVIOUS
  <2>1. l.owner \in Scopes /\ l \in Held(l.owner)
    BY <1>0 DEF R!TypeOK, R!Lease, Held
  <2> QED
    BY <1>0, <1>1, <2>1 DEF LeaseFits
<1>3. R!CanLease(s, Gen(s), "Exclusive") /\ Gen(s) \in R!Ids
  BY <1>0, <1>1, <1>2, RegistryConstants DEF ScopeFits, EntryFits, R!CanLease, R!LeasesOn,
    R!Current, Gen, R!Ids, R!Entry, R!TypeOK, Early, Untorn
<1>4. R!TakeLease(s, Gen(s), s, "Exclusive") /\ refused' = refused
  BY <1>3 DEF TakeLease, Call
<1>5. pc' = [pc EXCEPT ![s] = "bodystart"] /\ result' = result
  BY <1>0, <1>4 DEF TakeLease, Goto, ScopeTypes
<1> DEFINE lease == [id |-> nextId, res |-> s, gen |-> Gen(s), owner |-> s, access |-> "Exclusive"]
<1>6. leases' = leases \cup {lease} /\ UNCHANGED <<entries, finished>>
  BY <1>4 DEF R!TakeLease
<1>7. lease.owner = s /\ lease.res = s /\ lease.gen = entries[s].gen
  BY DEF Gen
<1> HIDE DEF lease
<1>8. WaitStep /\ [R!Next]_(R!vars)
  BY <1>0, <1>1, <1>3, <1>4 DEF WaitStep, R!Next, R!Access, ScopeFits, EntryFits
<1>9. ScopeTypes'
  BY <1>0, <1>1, <1>4, <1>5 DEF ScopeTypes, Pcs
<1>10. OtherScopes(s)
  BY <1>0, <1>1, <1>5, <1>6, <1>7 DEF ScopeTypes, OtherScopes, Held, waitVars
<1>11. EntryFits(s)' /\ HandleFits(s)'
  BY <1>0, <1>1, <1>5, <1>6 DEF ScopeTypes, ScopeFits, EntryFits, HandleFits, Early, Untorn,
      Tearing, Over
<1>12. LeaseFits(s)'
  <2>1. Held(s) = {}
    BY <1>0, <1>1 DEF LeaseFits
  <2>2. Held(s)' = {lease}
    BY <1>6, <1>7, <2>1 DEF Held
  <2> QED
    BY <1>0, <1>5, <1>6, <1>7, <2>2 DEF LeaseFits, ScopeTypes
<1>13. WaitFits(s)' /\ ResultFits(s)'
  BY <1>0, <1>1, <1>5 DEF ScopeTypes, ScopeFits, WaitFits, ResultFits, Early, waitVars
<1> QED
  BY <1>8, <1>9, <1>10, <1>11, <1>12, <1>13 DEF Kept, ScopeFits

LEMMA BeginBodyWaitKept ==
  ASSUME ScopesFit, Inv, NEW s \in Scopes, BeginBodyWait(s)
  PROVE  Kept(s)
<1>0. ScopeTypes /\ ScopeFits(s) /\ W!TypeOK
  BY DEF Inv, WaitInv
<1>1. /\ pc[s] = "bodystart" /\ pc' = [pc EXCEPT ![s] = "body"]
      /\ UNCHANGED <<registryVars, host, result, observed, scopeBy, teardownAt, refused>>
  BY DEF BeginBodyWait, At, Goto
<1>2. WaitMoves(s)
  BY DEF BeginBodyWait, WaitMoves
<1>3. OthersWait(s)
  BY <1>0, <1>2, WaitLocal
<1>4. \/ phase'[s] = "select" /\ body' = [body EXCEPT ![s] = "alive"]
      \/ body' = body
  BY <1>0 DEF BeginBodyWait, W!Register, W!TypeOK
<1>5. WaitStep /\ [R!Next]_(R!vars)
  BY <1>1, <1>2 DEF WaitStep, registryVars, R!vars
<1>6. ScopeTypes'
  BY <1>0, <1>1, <1>3, <1>4 DEF ScopeTypes, Pcs, OthersWait
<1>7. OtherScopes(s)
  BY <1>0, <1>1, <1>3, <1>4 DEF ScopeTypes, OtherScopes, OthersWait, Held, registryVars
<1>8. EntryFits(s)' /\ HandleFits(s)' /\ LeaseFits(s)'
  BY <1>0, <1>1 DEF ScopeTypes, ScopeFits, EntryFits, HandleFits, LeaseFits, Held, registryVars,
    Early, Untorn, Tearing, Over
<1>9. WaitFits(s)' /\ ResultFits(s)'
  BY <1>0, <1>1, <1>4 DEF ScopeTypes, ScopeFits, WaitFits, ResultFits, Early, W!Running
<1> QED
  BY <1>5, <1>6, <1>7, <1>8, <1>9 DEF Kept, ScopeFits

\* The steps of the body's wait: the body is gone before its wait is over.
LEMMA WithinBody ==
  ASSUME ScopesFit, Inv, NEW s \in Scopes, pc[s] \in {"acquire", "body"}, WaitMoves(s),
         UNCHANGED <<registryVars, pc, host, result, observed, scopeBy, teardownAt, refused>>,
         body' \in {body, [body EXCEPT ![s] = "none"]},
         body'[s] = "alive" => phase'[s] \in W!Running,
         pc[s] = "acquire" /\ primary'[s].kind = "Ready" => host[s] = "open"
  PROVE  Kept(s)
<1>0. ScopeTypes /\ ScopeFits(s) /\ W!TypeOK
  BY DEF Inv, WaitInv
<1>1. OthersWait(s)
  BY <1>0, WaitLocal
<1>2. WaitStep /\ [R!Next]_(R!vars)
  BY DEF WaitStep, registryVars, R!vars
<1>3. ScopeTypes'
  BY <1>0, <1>1 DEF ScopeTypes, OthersWait
<1>4. OtherScopes(s)
  BY <1>0, <1>1 DEF ScopeTypes, OtherScopes, OthersWait, Held, registryVars
<1>5. EntryFits(s)' /\ HandleFits(s)' /\ LeaseFits(s)'
  BY <1>0 DEF ScopeFits, EntryFits, HandleFits, LeaseFits, Held, registryVars, Over
<1>6. WaitFits(s)' /\ ResultFits(s)'
  BY <1>0 DEF ScopeTypes, ScopeFits, WaitFits, ResultFits, Early
<1> QED
  BY <1>2, <1>3, <1>4, <1>5, <1>6 DEF Kept, ScopeFits

LEMMA BodyWaitKept ==
  ASSUME ScopesFit, Inv, NEW s \in Scopes, BodyWait(s)
  PROVE  Kept(s)
<1>0. ScopeTypes /\ ScopeFits(s) /\ W!TypeOK
  BY DEF Inv, WaitInv
<1>1. /\ pc[s] = "body"
      /\ UNCHANGED <<registryVars, pc, host, result, observed, scopeBy, teardownAt, refused>>
  BY DEF BodyWait, At
<1>2. WaitMoves(s)
  BY DEF BodyWait, WaitMoves, W!InterruptExpires
<1>3. body' \in {body, [body EXCEPT ![s] = "none"]}
  BY DEF BodyWait
<1>4. body'[s] = "alive" => phase'[s] \in W!Running
  <2> USE DEF W!TypeOK, ScopeTypes, W!Running
  <2>1. CASE W!PollCancelled(s) \/ W!PollDeadline(s)
    BY <1>0, <2>1 DEF W!PollCancelled, W!PollDeadline, W!Settle
  <2>2. CASE W!PollSource(s)
    BY <1>0, <2>2 DEF W!PollSource, W!Settle
  <2>3. CASE W!OpenCleanup(s) \/ W!InterruptExpires(s)
    BY <1>0, <2>3 DEF W!OpenCleanup, W!InterruptExpires, W!InterruptEnds
  <2>4. CASE W!CleanupEnds(s, FALSE) /\ body' = [body EXCEPT ![s] = "none"]
    BY <1>0, <2>4
  <2> QED
    BY <2>1, <2>2, <2>3, <2>4 DEF BodyWait
<1> QED
  BY <1>1, <1>2, <1>3, <1>4, WithinBody

LEMMA AdapterInterruptedKept ==
  ASSUME ScopesFit, Inv, NEW s \in Scopes, NEW failed \in BOOLEAN, AdapterInterrupted(s, failed)
  PROVE  Kept(s)
<1>0. ScopeTypes /\ ScopeFits(s)
  BY DEF Inv
<1>1. WaitMoves(s) /\ primary' = primary
  BY DEF AdapterInterrupted, WaitMoves, W!InterruptEnds, W!BoundedEnds
<1>2. body'[s] # "alive"
  BY <1>0 DEF AdapterInterrupted, ScopeTypes
<1>3. pc[s] = "acquire" /\ primary'[s].kind = "Ready" => host[s] = "open"
  BY <1>0, <1>1 DEF ScopeFits, HandleFits
<1> QED
  BY <1>1, <1>2, <1>3, WithinBody DEF AdapterInterrupted

LEMMA AfterBodyKept ==
  ASSUME ScopesFit, Inv, NEW s \in Scopes, AfterBody(s)
  PROVE  Kept(s)
<1>0. ScopeTypes /\ ScopeFits(s) /\ W!TypeOK /\ Waits(s)
  BY DEF Inv, WaitInv
<1>1. /\ pc[s] = "body" /\ phase[s] = "done" /\ pc' = [pc EXCEPT ![s] = "report"]
      /\ scopeBy' = [scopeBy EXCEPT ![s] = cleanupBy[s]] /\ now' = now
      /\ UNCHANGED <<waitVars, registryVars, host, body, observed, teardownAt, refused>>
  BY DEF AfterBody, At, Goto, waitVars
<1>2. /\ result' = [result EXCEPT ![s] = primary[s]]
      /\ primary[s] \in Outcome /\ primary[s] # W!Unknown
  BY <1>0, <1>1 DEF AfterBody, Result, W!TypeOK, Outcome, Waits
<1>3. WaitStep /\ [R!Next]_(R!vars)
  BY <1>1 DEF WaitStep, registryVars, R!vars
<1>4. ScopeTypes'
  BY <1>0, <1>1, <1>2 DEF ScopeTypes, Pcs, W!TypeOK
<1>5. OtherScopes(s)
  BY <1>0, <1>1, <1>2 DEF ScopeTypes, OtherScopes, Held, registryVars, waitVars
<1>6. EntryFits(s)' /\ HandleFits(s)' /\ LeaseFits(s)'
  BY <1>0, <1>1 DEF ScopeTypes, ScopeFits, EntryFits, HandleFits, LeaseFits, Held,
    registryVars, Early, Untorn, Tearing, Over
<1>7. WaitFits(s)' /\ ResultFits(s)'
  BY <1>0, <1>1, <1>2 DEF ScopeTypes, ScopeFits, WaitFits, ResultFits, Early, waitVars, W!Running
<1> QED
  BY <1>3, <1>4, <1>5, <1>6, <1>7 DEF Kept, ScopeFits

LEMMA ReportKept ==
  ASSUME ScopesFit, Inv, NEW s \in Scopes, Report(s)
  PROVE  Kept(s)
<1>0. ScopeTypes /\ ScopeFits(s) /\ entries[s] \in R!Entry /\ entries \in [Scopes -> R!Entry]
  BY DEF Inv, R!TypeOK
<1>1. /\ pc[s] = "report" /\ pc' = [pc EXCEPT ![s] = "unlease"] /\ now' = now
      /\ observed' = [observed EXCEPT ![s] = result[s]]
      /\ UNCHANGED <<waitVars, host, body, result, scopeBy, teardownAt>>
  BY DEF Report, At, Goto, waitVars
<1>2. R!CanCancel(s, Gen(s)) /\ Gen(s) \in R!Ids
  BY <1>0, <1>1, RegistryConstants DEF ScopeFits, EntryFits, R!CanCancel, R!Current, Gen, R!Ids,
    R!Entry, Untorn
<1>3. refused' = refused /\ (R!Cancel(s, Gen(s)) \/ UNCHANGED registryVars)
  BY <1>2 DEF Report, Call
<1>4. /\ UNCHANGED <<leases, finished>>
      /\ \/ entries' = [entries EXCEPT ![s] = [entries[s] EXCEPT !.cancelled = TRUE]]
         \/ entries' = entries
  BY <1>3 DEF R!Cancel, R!Update, registryVars
<1>5. WaitStep /\ [R!Next]_(R!vars)
  BY <1>1, <1>2, <1>3 DEF WaitStep, R!Next, registryVars, R!vars
<1>6. ScopeTypes'
  BY <1>0, <1>1, <1>3 DEF ScopeTypes, Pcs
<1>7. OtherScopes(s)
  BY <1>0, <1>1, <1>4 DEF ScopeTypes, OtherScopes, Held, waitVars
<1>8. EntryFits(s)' /\ HandleFits(s)' /\ LeaseFits(s)'
  BY <1>0, <1>1, <1>4 DEF ScopeTypes, ScopeFits, EntryFits, HandleFits, LeaseFits, Held, R!Entry,
    Early, Untorn, Tearing, Over
<1>9. WaitFits(s)' /\ ResultFits(s)'
  BY <1>0, <1>1 DEF ScopeTypes, ScopeFits, WaitFits, ResultFits, Early, waitVars
<1> QED
  BY <1>5, <1>6, <1>7, <1>8, <1>9 DEF Kept, ScopeFits

\* The one lease of the scope goes back.
LEMMA UnleaseKept ==
  ASSUME ScopesFit, Inv, NEW s \in Scopes, Unlease(s)
  PROVE  Kept(s)
<1>0. ScopeTypes /\ ScopeFits(s)
  BY DEF Inv
<1>1. /\ pc[s] = "unlease" /\ pc' = [pc EXCEPT ![s] = "classify"] /\ now' = now
      /\ UNCHANGED <<waitVars, host, body, result, observed, scopeBy, teardownAt, refused>>
  BY DEF Unlease, At, Goto, waitVars
<1>2. /\ UNCHANGED <<entries, finished>>
      /\ Held(s)' = {}
      /\ \A u \in Scopes \ {s} : Held(u)' = Held(u)
  <2>1. CASE \E l \in leases : l.owner = s /\ R!ReleaseLease(l)
    <3>1. PICK l \in leases : l.owner = s /\ R!ReleaseLease(l)
      BY <2>1
    <3>2. Held(s) = {l}
      BY <1>0, <3>1 DEF ScopeFits, LeaseFits, Held
    <3> QED
      BY <3>1, <3>2 DEF R!ReleaseLease, Held
  <2>2. CASE (\A l \in leases : l.owner # s) /\ UNCHANGED registryVars
    BY <2>2 DEF registryVars, Held
  <2> QED
    BY <2>1, <2>2 DEF Unlease
<1>3. WaitStep /\ [R!Next]_(R!vars)
  BY <1>1 DEF WaitStep, Unlease, R!Next, registryVars, R!vars
<1>4. ScopeTypes'
  BY <1>0, <1>1 DEF ScopeTypes, Pcs
<1>5. OtherScopes(s)
  BY <1>0, <1>1, <1>2 DEF ScopeTypes, OtherScopes, waitVars
<1>6. EntryFits(s)' /\ HandleFits(s)' /\ LeaseFits(s)'
  BY <1>0, <1>1, <1>2 DEF ScopeTypes, ScopeFits, EntryFits, HandleFits, LeaseFits,
    Early, Untorn, Tearing, Over
<1>7. WaitFits(s)' /\ ResultFits(s)'
  BY <1>0, <1>1 DEF ScopeTypes, ScopeFits, WaitFits, ResultFits, Early, waitVars
<1> QED
  BY <1>3, <1>4, <1>5, <1>6, <1>7 DEF Kept, ScopeFits

LEMMA ClassifyKept ==
  ASSUME ScopesFit, Inv, NEW s \in Scopes, Classify(s)
  PROVE  Kept(s)
<1>0. ScopeTypes /\ ScopeFits(s) /\ entries[s] \in R!Entry /\ entries \in [Scopes -> R!Entry]
  BY DEF Inv, R!TypeOK
<1>1. /\ pc[s] = "classify" /\ now' = now
      /\ pc' = [pc EXCEPT ![s] = IF entries[s].owned THEN "release" ELSE "done"]
      /\ UNCHANGED <<waitVars, host, body, result, observed, scopeBy, teardownAt>>
  BY DEF Classify, At, Goto, waitVars
<1>2. Gen(s) \in R!Ids /\ (entries[s].acquisition = "Acquiring" => R!CanAcquireFail(s, Gen(s)))
  BY <1>0, <1>1, RegistryConstants DEF ScopeFits, EntryFits, R!CanAcquireFail, R!Current, Gen,
    R!Ids, R!Entry
<1>3. /\ refused' = refused
      /\ IF entries[s].acquisition = "Acquiring" THEN R!AcquireFailed(s, Gen(s))
                                                 ELSE UNCHANGED registryVars
  BY <1>2 DEF Classify, Call
<1>4. WaitStep /\ [R!Next]_(R!vars)
  BY <1>1, <1>2, <1>3 DEF WaitStep, R!Next, registryVars, R!vars
<1>5. UNCHANGED <<leases, finished>>
  BY <1>3 DEF R!AcquireFailed, registryVars
<1>6. ScopeTypes'
  BY <1>0, <1>1, <1>3 DEF ScopeTypes, Pcs
<1>7. OtherScopes(s) /\ EntryFits(s)' /\ HandleFits(s)'
  <2>1. CASE entries[s].acquisition = "Acquiring"
    <3>1. entries' = [entries EXCEPT ![s] = [entries[s] EXCEPT !.acquisition = "Failed",
                                  !.teardown = IF entries[s].owned THEN @ ELSE "Released"]]
      BY <1>3, <2>1 DEF R!AcquireFailed, R!Update
    <3>2. OtherScopes(s)
      BY <1>0, <1>1, <1>5, <3>1 DEF ScopeTypes, OtherScopes, Held, waitVars
    <3>3. EntryFits(s)' /\ HandleFits(s)'
      BY <1>0, <1>1, <1>5, <3>1 DEF ScopeTypes, ScopeFits, EntryFits, HandleFits, R!Entry, Early,
        Untorn, Tearing, Over
    <3> QED
      BY <3>2, <3>3
  <2>2. CASE entries[s].acquisition = "Ready"
    <3>1. entries' = entries /\ entries[s].owned
      BY <1>0, <1>3, <2>2 DEF registryVars, ScopeFits, EntryFits
    <3>2. OtherScopes(s)
      BY <1>0, <1>1, <1>5, <3>1 DEF ScopeTypes, OtherScopes, Held, waitVars
    <3>3. EntryFits(s)' /\ HandleFits(s)'
      BY <1>0, <1>1, <1>5, <2>2, <3>1 DEF ScopeTypes, ScopeFits, EntryFits, HandleFits, Early,
        Untorn, Tearing, Over
    <3> QED
      BY <3>2, <3>3
  <2> QED
    BY <1>0, <1>1, <2>1, <2>2 DEF ScopeFits, EntryFits
<1>8. LeaseFits(s)'
  BY <1>0, <1>1, <1>5 DEF ScopeTypes, ScopeFits, LeaseFits, Held
<1>9. WaitFits(s)' /\ ResultFits(s)'
  BY <1>0, <1>1 DEF ScopeTypes, ScopeFits, WaitFits, ResultFits, Early, waitVars
<1> QED
  BY <1>4, <1>6, <1>7, <1>8, <1>9 DEF Kept, ScopeFits

LEMMA BeginTeardownKept ==
  ASSUME ScopesFit, Inv, NEW s \in Scopes, BeginTeardown(s)
  PROVE  Kept(s)
<1>0. /\ ScopeTypes /\ ScopeFits(s) /\ R!TypeOK /\ \A u \in Scopes : LeaseFits(u)
      /\ entries[s] \in R!Entry /\ entries \in [Scopes -> R!Entry] /\ now \in Nat
  BY DEF Inv, ScopeFits, R!TypeOK, WaitInv, W!TypeOK
<1>1. /\ pc[s] = "release" /\ now' = now /\ teardownAt' = [teardownAt EXCEPT ![s] = now]
      /\ UNCHANGED <<waitVars, host, body, result, observed, scopeBy>>
  BY DEF BeginTeardown, At, waitVars
<1>2. R!LeasesOn(s, Gen(s)) = {}
  <2> SUFFICES ASSUME NEW l \in leases, l.res = s PROVE FALSE
    BY DEF R!LeasesOn
  <2>1. l.owner \in Scopes /\ l \in Held(l.owner)
    BY <1>0 DEF R!TypeOK, R!Lease, Held
  <2> QED
    BY <1>0, <1>1, <2>1 DEF LeaseFits
<1>3. R!CanBeginRelease(s, Gen(s)) /\ Gen(s) \in R!Ids
  BY <1>0, <1>1, <1>2, RegistryConstants DEF ScopeFits, EntryFits, R!CanBeginRelease, R!Current,
      Gen, R!Ids, R!Entry, Untorn
<1>4. R!BeginRelease(s, Gen(s)) /\ refused' = refused
  BY <1>3 DEF BeginTeardown, Call
<1>5. pc' = [pc EXCEPT ![s] = "teardown"]
  BY <1>0, <1>4 DEF BeginTeardown, Goto, ScopeTypes
<1>6. /\ entries' = [entries EXCEPT ![s] = [entries[s] EXCEPT !.teardown = "Releasing"]]
      /\ UNCHANGED <<leases, finished>>
  BY <1>4 DEF R!BeginRelease, R!Update
<1>7. WaitStep /\ [R!Next]_(R!vars)
  BY <1>1, <1>3, <1>4 DEF WaitStep, R!Next
<1>8. ScopeTypes'
  BY <1>0, <1>1, <1>4, <1>5 DEF ScopeTypes, Pcs
<1>9. OtherScopes(s)
  BY <1>0, <1>1, <1>5, <1>6 DEF ScopeTypes, OtherScopes, Held, waitVars
<1>10. EntryFits(s)' /\ HandleFits(s)' /\ LeaseFits(s)'
  BY <1>0, <1>1, <1>5, <1>6 DEF ScopeTypes, ScopeFits, EntryFits, HandleFits, LeaseFits, Held,
    R!Entry, Early, Untorn, Tearing, Over
<1>11. WaitFits(s)' /\ ResultFits(s)'
  BY <1>0, <1>1, <1>5 DEF ScopeTypes, ScopeFits, WaitFits, ResultFits, Early, waitVars
<1> QED
  BY <1>7, <1>8, <1>9, <1>10, <1>11 DEF Kept, ScopeFits

LEMMA TeardownEndsKept ==
  ASSUME ScopesFit, Inv, NEW s \in Scopes, NEW succeeded \in BOOLEAN, TeardownEnds(s, succeeded)
  PROVE  Kept(s)
<1>0. ScopeTypes /\ ScopeFits(s)
  BY DEF Inv
<1>1. /\ pc[s] = "teardown" /\ now' = now
      /\ UNCHANGED <<waitVars, registryVars, body, result, observed, scopeBy, teardownAt, refused>>
      /\ \/ pc' = [pc EXCEPT ![s] = "torn"] /\ host' = [host EXCEPT ![s] = "closed"]
         \/ pc' = [pc EXCEPT ![s] = "failed"] /\ host' = host
  BY DEF TeardownEnds, At, Goto, waitVars
<1>2. WaitStep /\ [R!Next]_(R!vars)
  BY <1>1 DEF WaitStep, registryVars, R!vars
<1>3. ScopeTypes'
  BY <1>0, <1>1 DEF ScopeTypes, Pcs
<1>4. OtherScopes(s)
  BY <1>0, <1>1 DEF ScopeTypes, OtherScopes, Held, registryVars, waitVars
<1>5. EntryFits(s)' /\ HandleFits(s)' /\ LeaseFits(s)'
  BY <1>0, <1>1 DEF ScopeTypes, ScopeFits, EntryFits, HandleFits, LeaseFits, Held, registryVars,
    Early, Untorn, Tearing, Over
<1>6. WaitFits(s)' /\ ResultFits(s)'
  BY <1>0, <1>1 DEF ScopeTypes, ScopeFits, WaitFits, ResultFits, Early, waitVars
<1> QED
  BY <1>2, <1>3, <1>4, <1>5, <1>6 DEF Kept, ScopeFits

\* A success becomes a cancellation, anything else stays as it was told.
LEMMA CancelLateKept ==
  ASSUME ScopesFit, Inv, NEW s \in Scopes, CancelLate(s)
  PROVE  Kept(s)
<1>0. /\ ScopeTypes /\ ScopeFits(s) /\ W!TypeOK /\ entries[s] \in R!Entry
      /\ entries \in [Scopes -> R!Entry]
  BY DEF Inv, R!TypeOK, WaitInv
<1>1. /\ now' = now /\ UNCHANGED <<waitVars, host, body, observed, scopeBy, teardownAt>>
      /\ \/ pc[s] = "torn" /\ pc' = [pc EXCEPT ![s] = "finish"]
         \/ pc[s] = "failed" /\ pc' = [pc EXCEPT ![s] = "finishfailed"]
  BY DEF CancelLate, Goto, waitVars
<1>2. R!CanCancel(s, Gen(s)) /\ Gen(s) \in R!Ids
  BY <1>0, <1>1, RegistryConstants DEF ScopeFits, EntryFits, R!CanCancel, R!Current, Gen, R!Ids,
    R!Entry, Tearing
<1>3. refused' = refused /\ (R!Cancel(s, Gen(s)) \/ UNCHANGED registryVars)
  BY <1>2 DEF CancelLate, Call
<1>4. /\ UNCHANGED <<leases, finished>>
      /\ \/ entries' = [entries EXCEPT ![s] = [entries[s] EXCEPT !.cancelled = TRUE]]
         \/ entries' = entries
  BY <1>3 DEF R!Cancel, R!Update, registryVars
<1>5. PICK r \in Outcome : /\ result' = [result EXCEPT ![s] = r]
                           /\ r = result[s] \/ (result[s].kind = "Ready" /\ r.kind = "Cancelled")
  <2>1. CASE cause[s] # None /\ result[s].kind = "Ready"
    <3>1. W!CancelledBy(cause[s]) \in Outcome /\ W!CancelledBy(cause[s]).kind = "Cancelled"
      BY <1>0, <2>1, Outcomes DEF W!TypeOK, W!CancelledBy
    <3> QED
      BY <2>1, <3>1 DEF CancelLate, Result
  <2>2. CASE ~(cause[s] # None /\ result[s].kind = "Ready")
    <3>1. result' = [result EXCEPT ![s] = result[s]]
      BY <1>0, <2>2 DEF CancelLate, Result, ScopeTypes
    <3> QED
      BY <1>0, <3>1 DEF ScopeTypes
  <2> QED
    BY <2>1, <2>2
<1>6. WaitStep /\ [R!Next]_(R!vars)
  BY <1>1, <1>2, <1>3 DEF WaitStep, R!Next, registryVars, R!vars
<1>7. ScopeTypes'
  BY <1>0, <1>1, <1>3, <1>5 DEF ScopeTypes, Pcs
<1>8. OtherScopes(s)
  BY <1>0, <1>1, <1>4, <1>5 DEF ScopeTypes, OtherScopes, Held, waitVars
<1>9. EntryFits(s)' /\ HandleFits(s)' /\ LeaseFits(s)'
  BY <1>0, <1>1, <1>4 DEF ScopeTypes, ScopeFits, EntryFits, HandleFits, LeaseFits, Held, R!Entry,
    Early, Untorn, Tearing, Over
<1>10. WaitFits(s)'
  BY <1>0, <1>1 DEF ScopeTypes, ScopeFits, WaitFits, waitVars
<1>11. ResultFits(s)'
  BY <1>0, <1>1, <1>5 DEF ScopeTypes, ScopeFits, ResultFits, Early, W!Unknown, W!Completion
<1> QED
  BY <1>6, <1>7, <1>8, <1>9, <1>10, <1>11 DEF Kept, ScopeFits

LEMMA FinishTeardownKept ==
  ASSUME ScopesFit, Inv, NEW s \in Scopes, FinishTeardown(s)
  PROVE  Kept(s)
<1>0. /\ ScopeTypes /\ ScopeFits(s) /\ entries[s] \in R!Entry /\ entries \in [Scopes -> R!Entry]
  BY DEF Inv, R!TypeOK
<1>1. /\ pc[s] \in {"finish", "finishfailed"} /\ pc' = [pc EXCEPT ![s] = "done"] /\ now' = now
      /\ UNCHANGED <<waitVars, host, body, result, observed, scopeBy, teardownAt>>
  BY DEF FinishTeardown, Goto, waitVars
<1>2. R!CanFinishRelease(s, Gen(s)) /\ Gen(s) \in R!Ids
  BY <1>0, <1>1, RegistryConstants DEF ScopeFits, EntryFits, R!CanFinishRelease, R!Current, Gen,
    R!Ids, R!Entry, Tearing
<1>3. PICK succeeded \in BOOLEAN : /\ R!FinishRelease(s, Gen(s), succeeded)
                                   /\ succeeded <=> pc[s] = "finish"
                                   /\ refused' = refused
  BY <1>2 DEF FinishTeardown, Call, At
<1>4. /\ UNCHANGED <<leases, finished>>
      /\ entries' = [entries EXCEPT ![s] =
                       [entries[s] EXCEPT !.teardown = IF succeeded THEN "Released" ELSE "Failed"]]
  BY <1>3 DEF R!FinishRelease, R!Update
<1>5. WaitStep /\ [R!Next]_(R!vars)
  BY <1>1, <1>2, <1>3 DEF WaitStep, R!Next
<1>6. ScopeTypes'
  BY <1>0, <1>1, <1>3 DEF ScopeTypes, Pcs
<1>7. OtherScopes(s)
  BY <1>0, <1>1, <1>4 DEF ScopeTypes, OtherScopes, Held, waitVars
<1>8. EntryFits(s)' /\ HandleFits(s)' /\ LeaseFits(s)'
  BY <1>0, <1>1, <1>3, <1>4 DEF ScopeTypes, ScopeFits, EntryFits, HandleFits, LeaseFits, Held,
    R!Entry, Early, Untorn, Tearing, Over
<1>9. WaitFits(s)' /\ ResultFits(s)'
  BY <1>0, <1>1 DEF ScopeTypes, ScopeFits, WaitFits, ResultFits, Early, waitVars
<1> QED
  BY <1>5, <1>6, <1>7, <1>8, <1>9 DEF Kept, ScopeFits

LEMMA ValidateKept ==
  ASSUME ScopesFit, Inv, NEW s \in Scopes, Validate(s)
  PROVE  Kept(s)
<1>0. /\ ScopeTypes /\ \A u \in Scopes : ScopeFits(u)
  BY DEF Inv
<1>1. /\ pc[s] = "done" /\ pc' = [pc EXCEPT ![s] = "validated"] /\ now' = now
      /\ UNCHANGED <<waitVars, host, body, result, observed, scopeBy, teardownAt>>
  BY DEF Validate, At, Goto, waitVars
<1>2. R!OwnerFinished(s)
  BY <1>0, <1>1 DEF R!OwnerFinished, ScopeFits, EntryFits, LeaseFits, Held, Over
<1>3. R!ValidateOwnerFinished(s) /\ refused' = refused
  BY <1>2 DEF Validate, Call
<1>4. UNCHANGED <<entries, leases>> /\ finished' = finished \cup {s}
  BY <1>3 DEF R!ValidateOwnerFinished
<1>5. WaitStep /\ [R!Next]_(R!vars)
  BY <1>1, <1>3 DEF WaitStep, R!Next
<1>6. ScopeTypes'
  BY <1>0, <1>1, <1>3 DEF ScopeTypes, Pcs
<1>7. OtherScopes(s)
  BY <1>0, <1>1, <1>4 DEF ScopeTypes, OtherScopes, Held, waitVars
<1>8. EntryFits(s)' /\ HandleFits(s)' /\ LeaseFits(s)'
  BY <1>0, <1>1, <1>4 DEF ScopeTypes, ScopeFits, EntryFits, HandleFits, LeaseFits, Held,
    Early, Untorn, Tearing, Over
<1>9. WaitFits(s)' /\ ResultFits(s)'
  BY <1>0, <1>1 DEF ScopeTypes, ScopeFits, WaitFits, ResultFits, Early, waitVars
<1> QED
  BY <1>5, <1>6, <1>7, <1>8, <1>9 DEF Kept, ScopeFits

LEMMA CancelKept ==
  ASSUME ScopesFit, Inv, NEW s \in Scopes, NEW k \in Causes, Cancel(s, k)
  PROVE  Kept(s)
<1>0. ScopeTypes /\ ScopeFits(s) /\ W!TypeOK
  BY DEF Inv, WaitInv
<1>1. WaitMoves(s) /\ UNCHANGED <<registryVars, scopeVars, phase, primary, cleanupBy>>
  BY DEF Cancel, WaitMoves, W!Cancel, W!waitVars
<1>2. OthersWait(s)
  BY <1>0, <1>1, WaitLocal
<1>3. WaitStep /\ [R!Next]_(R!vars)
  BY <1>1 DEF WaitStep, registryVars, R!vars
<1>4. ScopeTypes'
  BY <1>0, <1>1, <1>2 DEF ScopeTypes, scopeVars, OthersWait
<1>5. OtherScopes(s)
  BY <1>1, <1>2 DEF OtherScopes, OthersWait, Held, registryVars, scopeVars
<1>6. ScopeFits(s)'
  BY <1>0, <1>1, <1>2 DEF ScopeFits, EntryFits, HandleFits, LeaseFits, Held, WaitFits, ResultFits,
    registryVars, scopeVars, OthersWait
<1> QED
  BY <1>3, <1>4, <1>5, <1>6 DEF Kept

-----------------------------------------------------------------------------
(* All scopes                                                              *)

\* Whatever a scope does is one of these.
LEMMA ScopeSteps ==
  ASSUME Next, ~Tick
  PROVE  \E s \in Scopes :
           \/ BeginAcquisition(s) \/ BeginAcquireWait(s) \/ HostOpens(s) \/ AcquireWait(s)
           \/ AfterAcquire(s) \/ TakeLease(s) \/ BeginBodyWait(s) \/ BodyWait(s) \/ AfterBody(s)
           \/ Report(s) \/ Unlease(s) \/ Classify(s) \/ BeginTeardown(s) \/ CancelLate(s)
           \/ FinishTeardown(s) \/ Validate(s)
           \/ \E b \in BOOLEAN : AdapterInterrupted(s, b) \/ TeardownEnds(s, b)
           \/ \E k \in Causes : Cancel(s, k)
BY DEF Next, Step, TeardownExpires

LEMMA ScopeKept ==
  ASSUME ScopesFit, Inv, Next, ~Tick
  PROVE  \E s \in Scopes : Kept(s)
BY ScopeSteps, BeginAcquisitionKept, BeginAcquireWaitKept, HostOpensKept, AcquireWaitKept,
   AfterAcquireKept, TakeLeaseKept, BeginBodyWaitKept, BodyWaitKept, AfterBodyKept, ReportKept,
   UnleaseKept, ClassifyKept, BeginTeardownKept, CancelLateKept, FinishTeardownKept, ValidateKept,
   AdapterInterruptedKept, TeardownEndsKept, CancelKept

\* A step of the system is one of the waits and one of the registry, and keeps the invariant.
LEMMA InvStep ==
  ASSUME ScopesFit, Inv, [Next]_vars
  PROVE  WaitStep /\ [R!Next]_(R!vars) /\ Inv'
<1>1. CASE UNCHANGED vars
  <2>1. WaitStep /\ [R!Next]_(R!vars)
    BY <1>1 DEF vars, WaitStep, registryVars, R!vars
  <2>2. WaitInv' /\ R!TypeOK'
    BY <2>1, WaitsStep, RegistryTypes DEF Inv, ScopesFit
  <2>3. now' = now
    BY <1>1 DEF vars, waitVars
  <2>4. ScopeTypes' /\ \A s \in Scopes : ScopeFits(s)'
    BY <1>1, <2>3 DEF Inv, vars, waitVars, registryVars, scopeVars, ScopeTypes, ScopeFits,
        EntryFits, HandleFits, LeaseFits, Held, WaitFits, ResultFits
  <2> QED
    BY <2>1, <2>2, <2>4 DEF Inv
<1>2. CASE Tick
  <2>1. WaitStep /\ [R!Next]_(R!vars)
    BY <1>2 DEF Tick, WaitStep, registryVars, R!vars
  <2>2. WaitInv' /\ R!TypeOK'
    BY <2>1, WaitsStep, RegistryTypes DEF Inv, ScopesFit
  <2>3. now \in Nat /\ CleanupTimeout \in Nat /\ now' = now + 1
    BY <1>2 DEF Tick, W!Tick, Inv, WaitInv, W!TypeOK, ScopesFit, W!ConstantsFit
  <2>4. ScopeTypes'
    BY <1>2, <2>3 DEF Inv, Tick, scopeVars, ScopeTypes
  <2>5. ASSUME NEW s \in Scopes
        PROVE  ScopeFits(s)'
    <3>1. UNCHANGED <<registryVars, scopeVars, phase, primary, cleanupBy>> /\ ScopeFits(s)
      BY <1>2, <2>5 DEF Tick, W!Tick, W!waitVars, Inv
    <3>2. EntryFits(s)' /\ HandleFits(s)' /\ LeaseFits(s)' /\ ResultFits(s)'
      BY <3>1 DEF registryVars, scopeVars, ScopeFits, EntryFits, HandleFits, LeaseFits, Held,
        ResultFits
    <3>3. scopeBy[s] \in Nat /\ (pc[s] = "teardown" => now < scopeBy[s])
      BY <1>2, <2>3, <2>5 DEF Tick, At, Inv, ScopeTypes
    <3>4. WaitFits(s)'
      BY <2>3, <3>1, <3>3 DEF scopeVars, ScopeFits, WaitFits
    <3> QED
      BY <3>2, <3>4 DEF ScopeFits
  <2> QED
    BY <2>1, <2>2, <2>4, <2>5 DEF Inv
<1>3. CASE Next /\ ~Tick
  <2>1. PICK s \in Scopes : Kept(s)
    BY <1>3, ScopeKept
  <2>2. WaitStep /\ [R!Next]_(R!vars) /\ ScopeTypes'
    BY <2>1 DEF Kept
  <2>3. WaitInv' /\ R!TypeOK'
    BY <2>2, WaitsStep, RegistryTypes DEF Inv, ScopesFit
  <2>4. ASSUME NEW u \in Scopes
        PROVE  ScopeFits(u)'
    <3>1. ScopeFits(u)
      BY <2>4 DEF Inv
    <3> QED
      BY <2>1, <2>4, <3>1, Others DEF Kept
  <2> QED
    BY <2>2, <2>3, <2>4 DEF Inv
<1> QED
  BY <1>1, <1>2, <1>3

LEMMA Begins ==
  ASSUME ScopesFit, Init
  PROVE  Inv
<1>1. WaitInv
  BY WaitsBegin DEF Init, ScopesFit
<1>2. entries = [r \in Scopes |-> R!Acquiring(0, CHOOSE o \in Scopes : TRUE, "Exclusive")]
  BY DEF Init, R!Init
<1>3. ASSUME NEW s \in Scopes
      PROVE  /\ entries[s] \in R!Entry /\ entries[s].gen = 0 /\ entries[s].acquisition = "Acquiring"
             /\ entries[s].teardown = "Pending" /\ ~entries[s].owned /\ ~entries[s].cancelled
  <2>1. (CHOOSE o \in Scopes : TRUE) \in Scopes
    BY <1>3
  <2> QED
    BY <1>2, <1>3, <2>1, RegistryConstants DEF R!Acquiring, R!Entry, R!Access
<1>4. R!TypeOK
  BY <1>2, <1>3, RegistryConstants DEF Init, R!Init, R!TypeOK
<1>5. ScopeTypes
  BY <1>1, Outcomes DEF Init, Idle, ScopeTypes, Pcs, WaitInv, W!TypeOK, ScopesFit, W!ConstantsFit
<1>6. ASSUME NEW s \in Scopes
      PROVE  ScopeFits(s)
  <2>1. /\ pc[s] = "start" /\ host[s] = "absent" /\ body[s] = "none" /\ result[s] = W!Unknown
        /\ observed[s] = W!Unknown /\ phase[s] = "idle" /\ Held(s) = {} /\ finished = {}
    BY <1>6 DEF Init, Idle, W!Init, R!Init, Held
  <2> QED
    BY <1>3, <1>6, <2>1 DEF ScopeFits, EntryFits, HandleFits, LeaseFits, WaitFits, ResultFits,
        Early, Untorn, Tearing, Over
<1> QED
  BY <1>1, <1>4, <1>5, <1>6 DEF Inv

\* The invariant holds in every reachable state, which everything below follows from.
THEOREM Invariance ==
  ASSUME ScopesFit
  PROVE  Spec => []Inv
<1>1. Init => Inv
  BY Begins
<1>2. Inv /\ [Next]_vars => Inv'
  BY InvStep
<1> QED
  BY <1>1, <1>2, PTL DEF Spec

-----------------------------------------------------------------------------
(* Results                                                                 *)

\* Every variable keeps its type, the result is unknown exactly until there is one.
THEOREM TypeCorrect ==
  ASSUME ScopesFit
  PROVE  Spec => []TypeOK
<1>1. Inv => TypeOK
  BY DEF Inv, WaitInv, ScopeTypes, ScopeFits, ResultFits, Early, TypeOK
<1> QED
  BY <1>1, Invariance, PTL

\* A body lives under the lease of a ready resource whose handle is open: run_observed() of
\* resource_scope.rs takes the lease before it starts the body and returns it after the body's wait.
THEOREM BodiesUnderLease ==
  ASSUME ScopesFit
  PROVE  Spec => []BodyUnderLease
<1>1. Inv => BodyUnderLease
  <2> SUFFICES ASSUME Inv, NEW s \in Scopes, body[s] = "alive"
               PROVE  /\ host[s] = "open"
                      /\ \E l \in leases : l.owner = s /\ l.res = s /\ R!Current(s, l.gen)
                      /\ entries[s].acquisition = "Ready" /\ entries[s].teardown = "Pending"
    BY DEF BodyUnderLease
  <2>1. pc[s] = "body" /\ ScopeFits(s) /\ ScopeTypes
    BY DEF Inv, ScopeFits, WaitFits
  <2>2. host[s] = "open" /\ entries[s].acquisition = "Ready" /\ entries[s].teardown = "Pending"
    BY <2>1 DEF ScopeFits, EntryFits, HandleFits, ScopeTypes, Early, Untorn, Over
  <2>3. PICK l \in Held(s) : l.res = s /\ l.gen = entries[s].gen
    BY <2>1 DEF ScopeFits, LeaseFits
  <2>4. R!Current(s, l.gen)
    BY <2>1, <2>3 DEF ScopeFits, EntryFits, R!Current
  <2> QED
    BY <2>2, <2>3, <2>4 DEF Held
<1> QED
  BY <1>1, Invariance, PTL

\* run() leaves nothing in the registries, and a handle that is still open is a recorded failure.
THEOREM NothingIsLeft ==
  ASSUME ScopesFit
  PROVE  Spec => []NothingOutlivesScope
<1>1. Inv => NothingOutlivesScope
  <2> SUFFICES ASSUME Inv, NEW s \in Scopes, pc[s] \in Over
               PROVE  /\ s \notin active /\ (\A l \in leases : l.owner # s) /\ body[s] = "none"
                      /\ host[s] = "open" => entries[s].teardown = "Failed"
    BY DEF NothingOutlivesScope, Over
  <2>1. ScopeFits(s) /\ Waits(s) /\ ScopeTypes
    BY DEF Inv, WaitInv
  <2>2. s \notin active /\ body[s] = "none"
    BY <2>1 DEF ScopeFits, WaitFits, Waits, W!Running, ScopeTypes, Over
  <2>3. \A l \in leases : l.owner # s
    BY <2>1 DEF ScopeFits, LeaseFits, Held, Over
  <2>4. host[s] = "open" => entries[s].teardown = "Failed"
    BY <2>1 DEF ScopeFits, HandleFits
  <2> QED
    BY <2>2, <2>3, <2>4
<1> QED
  BY <1>1, Invariance, PTL

\* Whatever the adapter, the body and other threads do, resources.rs answers Ok to every call that
\* resource_scope.rs makes.
THEOREM NeverRefused ==
  ASSUME ScopesFit
  PROVE  Spec => []RegistryNeverRefuses
<1>1. Inv => RegistryNeverRefuses
  BY DEF Inv, ScopeTypes, RegistryNeverRefuses
<1> QED
  BY <1>1, Invariance, PTL

\* What primary_known() was told stays the result, but for a success cancelled in its teardown.
THEOREM ResultsStand ==
  ASSUME ScopesFit
  PROVE  Spec => []ObservedResultStands
<1>1. Inv => ObservedResultStands
  BY DEF Inv, ScopeFits, ResultFits, ObservedResultStands
<1> QED
  BY <1>1, Invariance, PTL

\* A teardown runs in what the interrupt left of the cleanup budget.
THEOREM TeardownsInBudget ==
  ASSUME ScopesFit
  PROVE  Spec => []TeardownInBudget
<1>1. Inv => TeardownInBudget
  <2> SUFFICES ASSUME Inv, NEW s \in Scopes, pc[s] = "teardown", now # teardownAt[s]
               PROVE  /\ now <= openedAt[s] + CleanupTimeout
                      /\ primary[s].kind = "Cancelled" => now <= at[s] + CleanupTimeout
    BY DEF TeardownInBudget, At
  <2>1. now <= cleanupBy[s] /\ phase[s] = "done" /\ Budget(s)
    BY DEF Inv, WaitInv, ScopeFits, WaitFits
  <2>2. now \in Nat /\ cleanupBy[s] \in Nat /\ at[s] \in Nat /\ openedAt[s] \in Nat
        /\ CleanupTimeout \in Nat
    BY DEF Inv, WaitInv, W!TypeOK, ScopesFit, W!ConstantsFit
  <2> QED
    BY <2>1, <2>2 DEF Budget
<1> QED
  BY <1>1, Invariance, PTL

\* Scopes use the registry as its own module allows, so that what ResourceRegistry guarantees holds
\* of them.
THEOREM RegistryUsed ==
  ASSUME ScopesFit
  PROVE  Spec => R!Spec
<1>1. Init => R!Init
  BY DEF Init
<1>2. Inv /\ [Next]_vars => [R!Next]_(R!vars)
  BY InvStep
<1> QED
  BY <1>1, <1>2, Invariance, PTL DEF Spec, R!Spec

\* A handle is torn down in exactly one teardown.
THEOREM ScopesTearDownOnce ==
  ASSUME ScopesFit
  PROVE  Spec => []R!TeardownOnce
<1>1. RP!MaxIdAssumption /\ RP!OwnersAssumption
  BY RegistryConstants DEF ScopesFit, RP!MaxIdAssumption, RP!OwnersAssumption
<1>2. R!Init => RP!Init
  BY DEF R!Init, RP!Init, R!Acquiring, RP!Acquiring
<1>3. [R!Next]_(R!vars) => [RP!Next]_(RP!vars)
  BY SameNext DEF R!vars, RP!vars
<1>4. RP!TeardownOnce => R!TeardownOnce
  BY DEF RP!TeardownOnce, R!TeardownOnce
<1>5. RP!Spec => []RP!TeardownOnce
  BY <1>1, RP!TornDownOnce
<1> QED
  BY <1>2, <1>3, <1>4, <1>5, RegistryUsed, PTL DEF R!Spec, RP!Spec

-----------------------------------------------------------------------------
(* Waits on their own: WaitRegistry for any contexts                       *)

WaitHolds == W!TypeOK /\ W!StaleContextNeverSucceeds /\ W!OneCleanupBudget

LEMMA WaitInvHolds ==
  ASSUME W!ConstantsFit, WaitInv
  PROVE  WaitHolds
<1>1. W!StaleContextNeverSucceeds
  BY DEF WaitInv, Doomed, W!StaleContextNeverSucceeds
<1>2. ASSUME NEW s \in Scopes, phase[s] \in W!Cleaning, now # openedAt[s]
      PROVE  now <= (IF primary[s].kind = "Cancelled" THEN at[s] ELSE openedAt[s]) + CleanupTimeout
  <2>1. now <= cleanupBy[s] /\ Budget(s)
    BY <1>2 DEF WaitInv, Budget
  <2>2. now \in Nat /\ cleanupBy[s] \in Nat /\ at[s] \in Nat /\ openedAt[s] \in Nat
        /\ CleanupTimeout \in Nat
    BY DEF WaitInv, W!TypeOK, W!ConstantsFit
  <2> QED
    BY <1>2, <2>1, <2>2 DEF Budget
<1>3. W!OneCleanupBudget
  BY <1>2 DEF W!OneCleanupBudget
<1> QED
  BY <1>1, <1>3 DEF WaitInv, WaitHolds

\* wait() of waits.rs: one that is entered under a cancelled token or after the deadline reports no
\* result of its source, and interrupt and cleanup share one budget.
THEOREM WaitsHold ==
  ASSUME W!ConstantsFit
  PROVE  W!Spec => []WaitHolds
<1>1. W!Init => WaitInv
  BY WaitsBegin
<1>2. [W!Next]_(W!vars) => WaitStep
  BY DEF W!Next, W!Driven, W!vars, W!tokenVars, W!waitVars, WaitStep, WaitMoves, waitVars,
    W!InterruptExpires, W!CleanupExpires
<1>3. WaitInv /\ WaitStep => WaitInv'
  BY WaitsStep
<1>4. WaitInv => WaitHolds
  BY WaitInvHolds
<1> QED
  BY <1>1, <1>2, <1>3, <1>4, PTL DEF W!Spec

\* The same of the waits of scopes, whose steps come between those of run_observed().
THEOREM ScopesWait ==
  ASSUME ScopesFit
  PROVE  Spec => []WaitHolds
<1>1. Inv => WaitHolds
  BY WaitInvHolds DEF Inv, ScopesFit
<1> QED
  BY <1>1, Invariance, PTL
=============================================================================
