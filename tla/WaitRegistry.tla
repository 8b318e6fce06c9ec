----------------------------- MODULE WaitRegistry -----------------------------
(***************************************************************************)
(* The bounded wait protocol of crates/runtime/src/waits.rs.               *)
(*                                                                         *)
(* Every suspension of the runtime (a test body, a resource acquisition, a *)
(* retry backoff) is a wait(): register, select on cancellation, deadline  *)
(* and source, then interrupt and clean the source up inside one absolute  *)
(* cleanup budget.  A context runs one wait at a time; contexts share the  *)
(* registry and its capacity and are cancelled from other threads.         *)
(*                                                                         *)
(* The source is external: at each poll it is ready, failed or pending and *)
(* its interrupt() and cleanup() may succeed, fail or hang.                *)
(***************************************************************************)
EXTENDS Naturals, FiniteSets

CONSTANTS
  Contexts,        \* ScopeContexts, each with a token of its own
  MaxActive,       \* WaitRegistry::max_active
  CleanupTimeout,  \* cleanup budget of a wait
  Causes,          \* causes that arrive from outside (user, parent, race)
  Timeout,         \* the cause of a deadline
  Deadlines,       \* absolute deadlines a context may have
  Horizon,         \* bound: nothing new arrives after it and polls become prompt
  None

ConstantsFit ==
  /\ None \notin Causes \cup Deadlines \cup {Timeout} /\ Timeout \notin Causes
  /\ MaxActive \in Nat /\ CleanupTimeout \in Nat /\ Horizon \in Nat
  /\ Deadlines \subseteq 0..Horizon

VARIABLES
  now,        \* monotonic clock
  cause, at,  \* token of the context: first cause and the epoch it opened
  deadline,   \* ScopeContext.deadline, None if there is none
  active,     \* contexts with a registration in WaitRegistry.state.active
  phase,      \* control state of the context's wait()
  primary,    \* [kind, cause]: WaitOutcome.primary
  cleanupBy,  \* the CleanupDeadline of the wait
  secondary,  \* phases with a secondary failure, WaitOutcome.secondary
  doomed,     \* history: the token was cancelled or overdue when wait() was called
  openedAt    \* history: when the cleanup deadline of the wait was fixed

tokenVars == <<cause, at, deadline>>
waitVars  == <<active, phase, primary, cleanupBy, secondary, doomed, openedAt>>
vars == <<now, tokenVars, waitVars>>

Cleaning == {"interrupt", "cleanup", "rejected"}
Running == {"select", "polling", "source", "settled", "interrupt", "cleanup"}
Phases == Running \cup {"idle", "rejected", "done"}
AnyCause == Causes \cup {Timeout}

MaxTime == Horizon + CleanupTimeout

Completion(k) == [kind |-> k, cause |-> None]
CancelledBy(k) == [kind |-> "Cancelled", cause |-> k]
Unknown == Completion("unknown")

TypeOK ==
  /\ now \in 0..MaxTime
  /\ cause \in [Contexts -> AnyCause \cup {None}]
  /\ at \in [Contexts -> 0..now]
  /\ deadline \in [Contexts -> Deadlines \cup {None}]
  /\ active \in SUBSET Contexts
  /\ phase \in [Contexts -> Phases]
  /\ primary \in [Contexts -> [kind : {"unknown", "Ready", "Failed", "Rejected", "Cancelled"},
                               cause : AnyCause \cup {None}]]
  /\ cleanupBy \in [Contexts -> 0..(now + CleanupTimeout)]
  /\ secondary \in [Contexts -> SUBSET {"Interrupt", "Cleanup"}]
  /\ doomed \in [Contexts -> BOOLEAN]
  /\ openedAt \in [Contexts -> 0..now]

Init ==
  /\ now = 0
  /\ cause = [c \in Contexts |-> None]
  /\ at = [c \in Contexts |-> 0]
  /\ deadline \in [Contexts -> Deadlines \cup {None}]
  /\ active = {}
  /\ phase = [c \in Contexts |-> "idle"]
  /\ primary = [c \in Contexts |-> Unknown]
  /\ cleanupBy = [c \in Contexts |-> 0]
  /\ secondary = [c \in Contexts |-> {}]
  /\ doomed = [c \in Contexts |-> FALSE]
  /\ openedAt = [c \in Contexts |-> 0]

-----------------------------------------------------------------------------
(* Environment                                                             *)

\* Some thread cancels the token of c, or of an ancestor of it.
Cancel(c, k) ==
  /\ now <= Horizon
  /\ cause[c] = None
  /\ cause' = [cause EXCEPT ![c] = k]
  /\ at' = [at EXCEPT ![c] = now]
  /\ UNCHANGED <<now, deadline, waitVars>>

Overdue(c) == deadline[c] # None /\ deadline[c] <= now

\* Timers are prompt: the clock does not pass a cleanup deadline somebody sleeps
\* on.  A poll may come arbitrarily late, up to the bound.
Tick ==
  /\ now < MaxTime
  /\ \A c \in Contexts :
       /\ phase[c] \in Cleaning => now < cleanupBy[c]
       /\ now >= Horizon =>
            /\ phase[c] \notin {"polling", "source", "settled"}
            /\ phase[c] = "select" => cause[c] = None /\ ~Overdue(c)
  /\ now' = now + 1
  /\ UNCHANGED <<tokenVars, waitVars>>

-----------------------------------------------------------------------------
(* wait()                                                                  *)

\* CancellationToken::cleanup_deadline
Epoch(c) == IF cause[c] = None THEN now ELSE at[c]

\* CleanupDeadline::at(cleanup_deadline(..), ..): one absolute instant.
OpenBudget(c) ==
  /\ cleanupBy' = [cleanupBy EXCEPT ![c] = Epoch(c) + CleanupTimeout]
  /\ openedAt' = [openedAt EXCEPT ![c] = now]

Begin(c) ==
  /\ phase[c] \in {"idle", "done"}
  /\ secondary' = [secondary EXCEPT ![c] = {}]
  /\ doomed' = [doomed EXCEPT ![c] = cause[c] # None \/ Overdue(c)]

\* A registration is free.
Register(c) ==
  /\ Begin(c)
  /\ Cardinality(active) < MaxActive
  /\ active' = active \cup {c}
  /\ phase' = [phase EXCEPT ![c] = "select"]
  /\ primary' = [primary EXCEPT ![c] = Unknown]
  /\ UNCHANGED <<now, tokenVars, cleanupBy, openedAt>>

\* The registry is full: the source is still cleaned up, within the budget.
Reject(c) ==
  /\ Begin(c)
  /\ Cardinality(active) >= MaxActive
  /\ phase' = [phase EXCEPT ![c] = "rejected"]
  /\ primary' = [primary EXCEPT ![c] = Completion("Rejected")]
  /\ OpenBudget(c)
  /\ UNCHANGED <<now, tokenVars, active>>

Settle(c, completion) ==
  /\ phase' = [phase EXCEPT ![c] = "settled"]
  /\ primary' = [primary EXCEPT ![c] = completion]

\* Mutant: the source is polled first, cancellation only when it is pending.
PollCancelledLast(c) ==
  /\ phase[c] = "select"
  /\ \/ cause[c] # None /\ Settle(c, CancelledBy(cause[c]))
     \/ phase' = [phase EXCEPT ![c] = "polling"] /\ primary' = primary
  /\ UNCHANGED <<now, tokenVars, active, cleanupBy, secondary, doomed, openedAt>>

\* A poll of the biased select!: cancellation first ...
PollCancelled(c) ==
  /\ phase[c] = "select"
  /\ IF cause[c] # None
       THEN Settle(c, CancelledBy(cause[c]))
       ELSE phase' = [phase EXCEPT ![c] = "polling"] /\ primary' = primary
  /\ UNCHANGED <<now, tokenVars, active, cleanupBy, secondary, doomed, openedAt>>

\* ... then the deadline, which cancels the token unless another thread just did ...
PollDeadline(c) ==
  /\ phase[c] = "polling"
  /\ IF Overdue(c)
       THEN Settle(c, CancelledBy(Timeout))
       ELSE phase' = [phase EXCEPT ![c] = "source"] /\ primary' = primary
  /\ IF Overdue(c) /\ cause[c] = None
       THEN cause' = [cause EXCEPT ![c] = Timeout] /\ at' = [at EXCEPT ![c] = now]
       ELSE UNCHANGED <<cause, at>>
  /\ UNCHANGED <<now, deadline, active, cleanupBy, secondary, doomed, openedAt>>

\* ... then the source, by which time another thread may have cancelled.
PollSource(c) ==
  /\ phase[c] = "source"
  /\ \/ \E k \in {"Ready", "Failed"} : Settle(c, Completion(k))
     \/ phase' = [phase EXCEPT ![c] = "select"] /\ primary' = primary
  /\ UNCHANGED <<now, tokenVars, active, cleanupBy, secondary, doomed, openedAt>>

\* The one cleanup deadline of the wait is fixed from the cancellation epoch.
OpenCleanup(c) ==
  /\ phase[c] = "settled"
  /\ OpenBudget(c)
  /\ phase' = [phase EXCEPT ![c] = IF primary[c].kind = "Cancelled" THEN "interrupt" ELSE "cleanup"]
  /\ UNCHANGED <<now, tokenVars, active, primary, secondary, doomed>>

\* A bounded future ends: on its own, with or without an error, or at the deadline.
BoundedEnds(c, step, failed) ==
  /\ secondary' = [secondary EXCEPT ![c] = IF failed THEN @ \cup {step} ELSE @]
  /\ UNCHANGED <<now, tokenVars, primary, doomed, openedAt>>

\* Mutant: the cleanup deadline starts over after the interrupt.
InterruptEndsRenewing(c, failed) ==
  /\ phase[c] = "interrupt"
  /\ BoundedEnds(c, "Interrupt", failed)
  /\ phase' = [phase EXCEPT ![c] = "cleanup"]
  /\ cleanupBy' = [cleanupBy EXCEPT ![c] = now + CleanupTimeout]
  /\ UNCHANGED active

InterruptEnds(c, failed) ==
  /\ phase[c] = "interrupt"
  /\ BoundedEnds(c, "Interrupt", failed)
  /\ phase' = [phase EXCEPT ![c] = "cleanup"]
  /\ UNCHANGED <<active, cleanupBy>>

\* Mutant: the interrupt is awaited without its bound.
InterruptNeverExpires(c) == FALSE /\ InterruptEnds(c, TRUE)

InterruptExpires(c) == now >= cleanupBy[c] /\ InterruptEnds(c, TRUE)

CleanupEnds(c, failed) ==
  /\ phase[c] \in {"cleanup", "rejected"}
  /\ BoundedEnds(c, "Cleanup", failed)
  /\ active' = active \ {c}
  /\ phase' = [phase EXCEPT ![c] = "done"]
  /\ UNCHANGED cleanupBy

CleanupExpires(c) == now >= cleanupBy[c] /\ CleanupEnds(c, TRUE)

-----------------------------------------------------------------------------
\* What the runtime itself does; the rest depends on the source.
Driven(c) ==
  \/ PollCancelled(c) \/ PollDeadline(c) \/ PollSource(c) \/ OpenCleanup(c)
  \/ InterruptExpires(c) \/ CleanupExpires(c)

Next ==
  \/ Tick
  \/ \E c \in Contexts :
       \/ \E k \in Causes : Cancel(c, k)
       \/ now <= Horizon /\ (Register(c) \/ Reject(c))
       \/ Driven(c)
       \/ \E failed \in BOOLEAN : InterruptEnds(c, failed) \/ CleanupEnds(c, failed)

\* A registered task is polled, timers fire and time passes (finitely many steps
\* fit between two ticks); a source owes nothing.
Fairness == SF_vars(Tick) /\ \A c \in Contexts : WF_vars(Driven(c))

Spec == Init /\ [][Next]_vars
FairSpec == Spec /\ Fairness

-----------------------------------------------------------------------------
(* Properties                                                              *)

\* A wait entered under a cancelled token or after the deadline never reports
\* the source's result, however ready the source is.
StaleContextNeverSucceeds ==
  \A c \in Contexts : doomed[c] => primary[c].kind \notin {"Ready", "Failed"} \/ phase[c] = "idle"

\* One absolute cleanup budget: interrupt and cleanup together end within
\* CleanupTimeout of the cancellation (of the result, if there was one), or at
\* once when the wait only noticed later than that.
OneCleanupBudget ==
  \A c \in Contexts :
    phase[c] \in Cleaning =>
      \/ now = openedAt[c]
      \/ now <= (IF primary[c].kind = "Cancelled" THEN at[c] ELSE openedAt[c]) + CleanupTimeout

\* A cancelled wait ends, even when interrupt() and cleanup() of its source hang.
Interrupted(c) == phase[c] \in {"select", "polling", "source"} /\ cause[c] # None
CancelledWaitEnds == \A c \in Contexts : Interrupted(c) ~> phase[c] = "done"
=============================================================================
