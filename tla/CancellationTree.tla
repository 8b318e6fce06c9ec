-------------------------- MODULE CancellationTree --------------------------
(***************************************************************************)
(* The tree of cancellation tokens of crates/runtime/src/cancellation.rs.  *)
(*                                                                         *)
(* Every token has its own mutex, and a parent knows its children through  *)
(* weak references only.  Cancelling marks one token under its lock, takes *)
(* its child list, releases the lock, wakes the waiters and then visits    *)
(* the children: callers on other threads (a Ctrl-C handler, a journal     *)
(* that overflowed, a deadline) and tasks that create children interleave  *)
(* between any two of those steps.                                         *)
(*                                                                         *)
(* Abstracted: the order in which one call visits the tokens it still owes *)
(* a visit to (the code goes depth first, `work' is a set).                *)
(***************************************************************************)
EXTENDS Naturals, FiniteSets

CONSTANTS
  Tokens,    \* token identities, each used for at most one token
  Root,      \* the token of the run
  Causes,    \* webtest_host::Cancellation
  Callers,   \* threads that call cancel()
  Waiters,   \* tasks that await cancelled()
  MaxTime,   \* bound on the clock
  None

ASSUME RootAssumption == Root \in Tokens
ASSUME NoneAssumption == None \notin Tokens /\ None \notin Causes
ASSUME TimeAssumption == MaxTime \in Nat

VARIABLES
  now,       \* the monotonic clock
  alive,     \* tokens with a strong reference
  parent,    \* parent[c]: token whose child() call made c; None for the root and unused identities
  children,  \* children[n]: the weak list in the state of n
  cause,     \* cause[n]: CancellationState.cause
  at,        \* at[n]: CancellationState.cancelled_at, 0 while cause[n] = None
  call,      \* call[t]: token, cause and instant of t's cancel(), or NoCall
  work,      \* work[t]: tokens t's call still has to visit
  notify,    \* notify[t]: token t marked and whose waiters it has not woken yet
  asked,     \* history: asked[n]: cancel() was called on n itself
  awaiting,  \* awaiting[w]: token w awaits, or None
  armed,     \* armed[w]: w's Notified future is enabled in the token's waiter list
  asleep,    \* asleep[w]: w saw no cause and awaits its Notified future
  notified   \* notified[w]: a notify_waiters() reached w's enabled future

tokenVars  == <<alive, parent, children, cause, at>>
callVars   == <<call, work, notify, asked>>
waiterVars == <<awaiting, armed, asleep, notified>>
vars == <<now, tokenVars, callVars, waiterVars>>

Created == {n \in Tokens : n = Root \/ parent[n] # None}

NoCall == [target |-> None, cause |-> None, at |-> 0]

TypeOK ==
  /\ now \in 0..MaxTime
  /\ alive \in SUBSET Tokens
  /\ parent \in [Tokens -> Tokens \cup {None}]
  /\ children \in [Tokens -> SUBSET Tokens]
  /\ cause \in [Tokens -> Causes \cup {None}]
  /\ at \in [Tokens -> 0..now]
  /\ call \in [Callers -> [target : Tokens \cup {None}, cause : Causes \cup {None}, at : 0..now]]
  /\ work \in [Callers -> SUBSET Tokens]
  /\ notify \in [Callers -> Tokens \cup {None}]
  /\ asked \in SUBSET Tokens
  /\ awaiting \in [Waiters -> Tokens \cup {None}]
  /\ armed \in [Waiters -> BOOLEAN]
  /\ asleep \in [Waiters -> BOOLEAN]
  /\ notified \in [Waiters -> BOOLEAN]

Init ==
  /\ now = 0
  /\ alive = {Root}
  /\ parent = [n \in Tokens |-> None]
  /\ children = [n \in Tokens |-> {}]
  /\ cause = [n \in Tokens |-> None]
  /\ at = [n \in Tokens |-> 0]
  /\ call = [t \in Callers |-> NoCall]
  /\ work = [t \in Callers |-> {}]
  /\ notify = [t \in Callers |-> None]
  /\ asked = {}
  /\ awaiting = [w \in Waiters |-> None]
  /\ armed = [w \in Waiters |-> FALSE]
  /\ asleep = [w \in Waiters |-> FALSE]
  /\ notified = [w \in Waiters |-> FALSE]

-----------------------------------------------------------------------------
(* Token creation and release                                              *)

\* Mutant: child() registers the token but does not look at the parent's cause.
CreateChildUninformed(n, c) ==
  /\ n \in alive
  /\ c \in Tokens \ Created
  /\ parent' = [parent EXCEPT ![c] = n]
  /\ alive' = alive \cup {c}
  /\ children' = [children EXCEPT ![n] = (@ \cap alive) \cup {c}]
  /\ UNCHANGED <<now, cause, at, callVars, waiterVars>>

\* child(): the whole method, the child's own cancel_at() included, runs under
\* the parent's lock; a new token has no children and no waiters yet.
CreateChild(n, c) ==
  /\ n \in alive
  /\ c \in Tokens \ Created
  /\ parent' = [parent EXCEPT ![c] = n]
  /\ alive' = alive \cup {c}
  /\ children' = [children EXCEPT ![n] = (@ \cap alive) \cup {c}]
  /\ cause' = [cause EXCEPT ![c] = cause[n]]
  /\ at' = [at EXCEPT ![c] = at[n]]
  /\ UNCHANGED <<now, callVars, waiterVars>>

\* The last owner drops its token.  A borrow by a running cancel() or
\* cancelled() keeps the token alive.
Drop(n) ==
  /\ n \in alive \ {Root}
  /\ \A w \in Waiters : awaiting[w] # n
  /\ \A t \in Callers : call[t].target # n /\ notify[t] # n
  /\ alive' = alive \ {n}
  /\ UNCHANGED <<now, parent, children, cause, at, callVars, waiterVars>>

-----------------------------------------------------------------------------
(* cancel() and its propagation                                            *)

\* cancel(): the instant is read before any lock is taken.
Cancel(t, n, k) ==
  /\ call[t].target = None
  /\ n \in alive
  /\ call' = [call EXCEPT ![t] = [target |-> n, cause |-> k, at |-> now]]
  /\ work' = [work EXCEPT ![t] = {n}]
  /\ asked' = asked \cup {n}
  /\ UNCHANGED <<now, tokenVars, notify, waiterVars>>

\* Mutant: every token of the subtree takes a fresh Instant::now().
MarkAtOwnInstant(t, n) ==
  /\ notify[t] = None
  /\ n \in work[t] \cap alive
  /\ cause[n] = None
  /\ cause' = [cause EXCEPT ![n] = call[t].cause]
  /\ at' = [at EXCEPT ![n] = now]
  /\ children' = [children EXCEPT ![n] = {}]
  /\ work' = [work EXCEPT ![t] = (@ \ {n}) \cup children[n]]
  /\ notify' = [notify EXCEPT ![t] = n]
  /\ UNCHANGED <<now, alive, parent, call, asked, waiterVars>>

\* The critical section of cancel_at() on a token without a cause.
Mark(t, n) ==
  /\ notify[t] = None
  /\ n \in work[t] \cap alive
  /\ cause[n] = None
  /\ cause' = [cause EXCEPT ![n] = call[t].cause]
  /\ at' = [at EXCEPT ![n] = call[t].at]
  /\ children' = [children EXCEPT ![n] = {}]
  /\ work' = [work EXCEPT ![t] = (@ \ {n}) \cup children[n]]
  /\ notify' = [notify EXCEPT ![t] = n]
  /\ UNCHANGED <<now, alive, parent, call, asked, waiterVars>>

\* cancel_at() returns early, or upgrade() finds the child gone.
SkipVisit(t, n) ==
  /\ notify[t] = None
  /\ n \in work[t]
  /\ n \in alive => cause[n] # None
  /\ work' = [work EXCEPT ![t] = @ \ {n}]
  /\ UNCHANGED <<now, tokenVars, call, notify, asked, waiterVars>>

\* notify_waiters() after the lock is released: it wakes the futures that are
\* enabled at that moment and stores no permit.
NotifyWaiters(t) ==
  /\ notify[t] # None
  /\ notify' = [notify EXCEPT ![t] = None]
  /\ notified' = [w \in Waiters |->
       notified[w] \/ (armed[w] /\ awaiting[w] = notify[t])]
  /\ UNCHANGED <<now, tokenVars, call, work, asked, awaiting, armed, asleep>>

Return(t) ==
  /\ call[t].target # None
  /\ work[t] = {}
  /\ notify[t] = None
  /\ call' = [call EXCEPT ![t] = NoCall]
  /\ UNCHANGED <<now, tokenVars, work, notify, asked, waiterVars>>

-----------------------------------------------------------------------------
(* cancelled()                                                             *)

BeginWait(w, n) ==
  /\ awaiting[w] = None
  /\ n \in alive
  /\ awaiting' = [awaiting EXCEPT ![w] = n]
  /\ UNCHANGED <<now, tokenVars, callVars, armed, asleep, notified>>

\* notified.as_mut().enable(), before the cause is looked at.
Enable(w) ==
  /\ awaiting[w] # None
  /\ ~armed[w]
  /\ armed' = [armed EXCEPT ![w] = TRUE]
  /\ UNCHANGED <<now, tokenVars, callVars, awaiting, asleep, notified>>

\* The cause is set: cancelled() returns.
SeeCause(w) ==
  /\ armed[w] /\ ~asleep[w]
  /\ cause[awaiting[w]] # None
  /\ awaiting' = [awaiting EXCEPT ![w] = None]
  /\ armed' = [armed EXCEPT ![w] = FALSE]
  /\ notified' = [notified EXCEPT ![w] = FALSE]
  /\ UNCHANGED <<now, tokenVars, callVars, asleep>>

\* Mutant: the cause is read before the Notified future is enabled.
SleepBeforeEnable(w) ==
  /\ awaiting[w] # None /\ ~asleep[w]
  /\ cause[awaiting[w]] = None
  /\ asleep' = [asleep EXCEPT ![w] = TRUE]
  /\ UNCHANGED <<now, tokenVars, callVars, awaiting, armed, notified>>

Sleep(w) ==
  /\ armed[w] /\ ~asleep[w]
  /\ cause[awaiting[w]] = None
  /\ asleep' = [asleep EXCEPT ![w] = TRUE]
  /\ UNCHANGED <<now, tokenVars, callVars, awaiting, armed, notified>>

\* notified.await completes and the loop starts over with a new future.
Wake(w) ==
  /\ asleep[w] /\ notified[w]
  /\ asleep' = [asleep EXCEPT ![w] = FALSE]
  /\ armed' = [armed EXCEPT ![w] = FALSE]
  /\ notified' = [notified EXCEPT ![w] = FALSE]
  /\ UNCHANGED <<now, tokenVars, callVars, awaiting>>

\* Another branch of the caller's select! won: the future is dropped.
Abandon(w) ==
  /\ asleep[w]
  /\ awaiting' = [awaiting EXCEPT ![w] = None]
  /\ armed' = [armed EXCEPT ![w] = FALSE]
  /\ asleep' = [asleep EXCEPT ![w] = FALSE]
  /\ notified' = [notified EXCEPT ![w] = FALSE]
  /\ UNCHANGED <<now, tokenVars, callVars>>

-----------------------------------------------------------------------------
Tick ==
  /\ now < MaxTime
  /\ now' = now + 1
  /\ UNCHANGED <<tokenVars, callVars, waiterVars>>

CallerStep(t) ==
  \/ \E n \in Tokens : Mark(t, n) \/ SkipVisit(t, n)
  \/ NotifyWaiters(t)
  \/ Return(t)

WaiterStep(w) == Enable(w) \/ SeeCause(w) \/ Sleep(w) \/ Wake(w)

Next ==
  \/ \E n, c \in Tokens : CreateChild(n, c)
  \/ \E n \in Tokens : Drop(n)
  \/ \E t \in Callers, n \in Tokens, k \in Causes : Cancel(t, n, k)
  \/ \E t \in Callers : CallerStep(t)
  \/ \E w \in Waiters, n \in Tokens : BeginWait(w, n)
  \/ \E w \in Waiters : WaiterStep(w) \/ Abandon(w)
  \/ Tick

\* A thread inside cancel() keeps running and a task that can be polled is.
Fairness ==
  /\ \A t \in Callers : WF_vars(CallerStep(t))
  /\ \A w \in Waiters : WF_vars(WaiterStep(w))

Spec == Init /\ [][Next]_vars
FairSpec == Spec /\ Fairness

-----------------------------------------------------------------------------
(* Properties                                                              *)

\* No child escapes its parent's cancellation, however cancel(), child() and
\* other cancels interleave: a live child of a cancelled token is cancelled or
\* some running call still owes it a visit, and a child of a token that is not
\* cancelled is on the list the next call will take.
ChildAccounted ==
  \A c \in alive \ {Root} :
    IF cause[parent[c]] = None
      THEN c \in children[parent[c]]
      ELSE cause[c] # None \/ \E t \in Callers : c \in work[t]

\* Cancellation only flows downwards and carries its cleanup epoch: a token
\* nobody called cancel() on is cancelled only with its parent's cause at its
\* parent's instant, so a sibling or an ancestor of the target never changes
\* and a late child gets no fresh cleanup time.
CauseFromAbove ==
  \A n \in Tokens \ asked :
    cause[n] # None =>
      /\ parent[n] # None
      /\ cause[n] = cause[parent[n]]
      /\ at[n] = at[parent[n]]

\* The first cause wins and the cleanup epoch it opened never moves.
FirstCauseWins ==
  [][\A n \in Tokens : cause[n] # None =>
       cause'[n] = cause[n] /\ at'[n] = at[n]]_vars

\* cancelled() never misses a wakeup: a task does not stay asleep on a token
\* that has been cancelled.
NoLostWakeup ==
  \A w \in Waiters :
    (asleep[w] /\ cause[IF awaiting[w] = None THEN Root ELSE awaiting[w]] # None)
      ~> ~asleep[w]
=============================================================================
