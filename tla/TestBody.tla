------------------------------- MODULE TestBody -------------------------------
(***************************************************************************)
(* How one test is executed: execute_test() and the interpreter of a plan  *)
(* tree in crates/runtime/src/execution.rs, with wait.rs, steps.rs,        *)
(* scopes.rs, temporary.rs and cleanup.rs beside it.                       *)
(*                                                                         *)
(* One task runs the tree, so a path of it is suspended at a time: stack.  *)
(* The root, every timeout and every resource scope drive their body as a  *)
(* wait (WaitRegistry) that a cancellation or a deadline interrupts; what  *)
(* a body does after that is bounded by the cleanup budget of the wait,    *)
(* and then the body is dropped where it stands.  Retry, parallel and race *)
(* nodes have modules of their own and are no part of the tree here.       *)
(*                                                                         *)
(* Hosts are external: a step answers when it likes or never.  A provider  *)
(* is told about a cancellation but may go on; browser and assertion steps *)
(* are dropped.  While ret is set the task is between two awaits and       *)
(* nothing else of the test happens.                                       *)
(***************************************************************************)
EXTENDS Naturals, Sequences, FiniteSets, SequencesExt

CONSTANTS
  Nodes, Root,
  Kind,       \* "test", "sequence", "timeout", "resource", "provider", "browser"
  Children,   \* in order; of a timeout and a resource one sequence
  Below       \* the nodes inside each node

VARIABLES
  stack,      \* the suspended path, the root first
  ret,        \* the outcome the last node hands to the top of the stack
  at,         \* where each node is
  cause,      \* of the token of each scope
  timer,      \* the scope whose deadline bounds each scope
  due,        \* scopes whose deadline has passed
  late,       \* waits whose cleanup budget is over
  primary,    \* what each wait completes with
  first,      \* BranchState.primary_failure
  failures,   \* BranchState.cleanup_failures, as [scope, what]
  temp,       \* the temporary directory a provider step handed over
  terminal,   \* the ScopeOutcome of the terminal scope event
  asked,      \* RunControl.is_cancelled()
  outcome,    \* of the test
  unprovoked  \* history: steps that failed while not cancelled

vars == <<stack, ret, at, cause, timer, due, late, primary, first, failures, temp, terminal,
          asked, outcome, unprovoked>>

None == [kind |-> "none", by |-> Root, class |-> "none"]
Outcome(kind, by, class) == [kind |-> kind, by |-> by, class |-> class]
Passed == Outcome("passed", Root, "none")
Failed(n, class) == Outcome("failed", n, class)   \* PendingFailure
TimedOut(n) == Outcome("timedout", n, "test")
Cancelled(reason) == Outcome("cancelled", Root, reason)
Aborted(n) == Outcome("aborted", n, "infrastructure")
Interrupted(c) == Outcome("interrupted", c.by, c.class)   \* WaitCompletion::Cancelled

Steps == {n \in Nodes : Kind[n] \in {"provider", "browser"}}
Waiters == {n \in Nodes : Kind[n] \in {"test", "timeout", "resource"}}
Deadlines == {n \in Nodes : Kind[n] \in {"test", "timeout"}}
\* The nearest lexical resource owner of a node.
IsOwner(w, n) == n \in Below[w] /\ \A v \in Waiters : n \in Below[v] => v = w \/ w \in Below[v]
Owner(n) == CHOOSE w \in Waiters : IsOwner(w, n)

\* A plan is a tree of nodes that have children or are steps.
ASSUME TreeAssumption ==
  /\ Root \in Nodes
  /\ Kind \in [Nodes -> {"test", "sequence", "timeout", "resource", "provider", "browser"}]
  /\ Children \in [Nodes -> Seq(Nodes)] /\ Below \in [Nodes -> SUBSET Nodes]
  /\ \A n \in Nodes : Kind[n] = "test" <=> n = Root
  /\ \A n \in Nodes : Kind[n] \in {"timeout", "resource"} => Len(Children[n]) = 1
  /\ \A n \in Steps : Children[n] = <<>>
  /\ \A n \in Nodes : n \notin Below[n] /\ \A m \in Below[n] : Below[m] \subseteq Below[n]
  /\ \A n \in Nodes : Below[n] = UNION {{c} \cup Below[c] : c \in ToSet(Children[n])}
  /\ \A n, p \in Nodes : \A c \in ToSet(Children[p]) : c \in Below[n] => n = p \/ p \in Below[n]
  /\ Below[Root] = Nodes \ {Root}
  /\ \A n \in Nodes \ {Root} : \E w \in Waiters : IsOwner(w, n)
\* The compiler wraps what needs a browser, and what is wrapped needs none.
ASSUME ResourceAssumption ==
  \A r, n \in Nodes : Kind[r] = "resource" /\ Kind[n] = "resource" => n \notin Below[r]

Classes == {"test", "infrastructure", "internal"}
Stages == {"idle", "before", "step", "evidence", "acquiring", "open", "interrupting", "closing",
           "releasing", "session", "over", "dropped"}

TypeOK ==
  /\ stack \in Seq(Nodes) /\ at \in [Nodes -> Stages]
  /\ \A n \in Nodes : cause[n] = None \/ cause[n].by \in Nodes
  /\ timer \in [Nodes -> Deadlines] /\ due \in SUBSET Deadlines /\ late \in SUBSET Waiters
  /\ failures \in SUBSET [scope : Nodes, what : {"timedout", "host", "directory", "session"}]
  /\ temp \in [Nodes -> {"none", "owned", "released", "lost"}]
  /\ terminal \in [Nodes -> {"none", "Passed", "Failed", "TimedOut", "Cancelled", "Aborted"}]
  /\ asked \in BOOLEAN

Init ==
  /\ stack = <<Root>> /\ ret = Passed
  /\ at = [n \in Nodes |-> IF n = Root THEN "open" ELSE "idle"]
  /\ cause = [n \in Nodes |-> None] /\ timer = [n \in Nodes |-> Root]
  /\ due = {} /\ late = {}
  /\ primary = [n \in Nodes |-> None] /\ first = None /\ failures = {}
  /\ temp = [n \in Nodes |-> "none"] /\ terminal = [n \in Nodes |-> "none"]
  /\ asked = FALSE /\ outcome = None /\ unprovoked = {}

-----------------------------------------------------------------------------
(* Scopes, tokens, and the ends of nodes                                   *)

Top == Last(stack)
OnPath(n) == n \in ToSet(stack)
Started(n) == at[n] # "idle"
\* The waits are polled from the outside in, each with its token first.
Unseen(n) == OnPath(n) /\ at[n] \in {"acquiring", "open"} /\ cause[n] # None
Running(n, stages) ==
  /\ ret = None /\ outcome = None /\ Top = n /\ at[n] \in stages
  /\ \A w \in Waiters : ~Unseen(w)

\* A token keeps its first cause and hands it to its children.
CancelToken(n, c) ==
  cause' = [m \in Nodes |->
    IF m \in {n} \cup Below[n] /\ Started(m) /\ cause[m] = None THEN c ELSE cause[m]]

\* A child and its scope, whose deadline is its own only if that is the earlier one; a
\* sequence goes on to its first child.
Enter(c) ==
  /\ stack' = Append(stack, c)
  /\ ret' = IF Kind[c] = "sequence" THEN Passed ELSE None
  /\ at' = [at EXCEPT ![c] = CASE c \in Steps -> "before"
                               [] Kind[c] = "resource" -> "acquiring"
                               [] OTHER -> "open"]
  /\ cause' = [cause EXCEPT ![c] = cause[Top]]
  /\ \E t \in {timer[Top]} \cup ({c} \cap Deadlines) :
       /\ t = c => timer[Top] \notin due
       /\ timer' = [timer EXCEPT ![c] = t]
  /\ UNCHANGED <<due, late, primary, first, failures, temp, terminal, asked, outcome, unprovoked>>

\* The terminal fact of a scope, which a foreign cancellation overrides.
ScopeFact(n, o, failed) ==
  LET foreign == cause[n] # None /\ cause[n].by # n
      fact == CASE failed -> "Aborted"
                [] ~failed /\ o.kind = "passed" -> "Passed"
                [] ~failed /\ o.kind = "cancelled" -> "Cancelled"
                [] ~failed /\ o.kind = "timedout" ->
                     IF cause[n] # None /\ ~foreign THEN "TimedOut" ELSE "Failed"
                [] ~failed /\ o.kind = "aborted" -> "Aborted"
                [] ~failed /\ o.kind = "failed" -> IF o.class = "test" THEN "Failed" ELSE "Aborted"
  IN IF foreign /\ fact \notin {"Failed", "Aborted"} THEN "Cancelled" ELSE fact

Fails(o) == o.kind \in {"failed", "timedout", "aborted"}

\* A node returns: the branch keeps the first failure no cancellation preceded.
End(n, o) ==
  /\ stack' = Front(stack) /\ ret' = o
  /\ at' = [at EXCEPT ![n] = "over"]
  /\ first' = IF Fails(o) /\ cause[n] = None /\ first = None THEN o ELSE first
  /\ terminal' = [terminal EXCEPT ![n] = ScopeFact(n, o, failures # {})]
  /\ UNCHANGED <<cause, timer, due, late, primary, failures, temp, asked, outcome, unprovoked>>

Goto(n, stage) == at' = [at EXCEPT ![n] = stage]

-----------------------------------------------------------------------------
(* Sequences                                                               *)

Waiting(n) == {i \in DOMAIN Children[n] : ~Started(Children[n][i])}
NextChild(n) == Children[n][CHOOSE i \in Waiting(n) : \A j \in Waiting(n) : i <= j]
GoesOn(n) == Kind[n] \in {"test", "sequence"} /\ ret = Passed /\ failures = {} /\ Waiting(n) # {}

\* A sequence stops at the first child that did not pass, and at a failed cleanup.
Proceed ==
  /\ ret # None /\ outcome = None /\ GoesOn(Top)
  /\ Enter(NextChild(Top))

SequenceEnds ==
  /\ ret # None /\ ~GoesOn(Top) /\ Kind[Top] = "sequence"
  /\ End(Top, ret)

-----------------------------------------------------------------------------
(* Steps                                                                   *)

Reason(n) == IF cause[n] # None THEN cause[n].class ELSE "user"

\* Before a step the control may hold the test; a cancellation does not wait for it.
StepBegins(n) ==
  /\ Running(n, {"before"})
  /\ IF cause[n] # None \/ asked
     THEN End(n, Cancelled(Reason(n)))
     ELSE /\ Goto(n, "step")
          /\ UNCHANGED <<stack, ret, cause, timer, due, late, primary, first, failures, temp,
                         terminal, asked, outcome, unprovoked>>

\* The host answers; a provider may hand over a directory, and its nearest resource
\* owner takes it before anything else is looked at.
StepReturns(n) ==
  /\ Running(n, {"step"}) /\ (Kind[n] = "provider" \/ cause[n] = None)
  /\ stack' = Front(stack) /\ Goto(n, "over")
  /\ ret' = IF cause[n] = None THEN Passed ELSE Cancelled(Reason(n))
  /\ terminal' = [terminal EXCEPT ![n] = ScopeFact(n, ret', failures # {})]
  /\ \/ UNCHANGED temp
     \/ Kind[n] = "provider" /\ temp' = [temp EXCEPT ![n] = "owned"]
  /\ UNCHANGED <<cause, timer, due, late, primary, first, failures, asked, outcome, unprovoked>>

\* A browser step is dropped; a provider says that it stopped.
StepCancelled(n) ==
  /\ Running(n, {"step"}) /\ cause[n] # None
  /\ End(n, Cancelled(Reason(n)))

\* The failure is kept before the control and the evidence of the page are awaited,
\* unless the step was cancelled first.
StepFails(n, class) ==
  /\ Running(n, {"step"}) /\ (Kind[n] = "provider" \/ cause[n] = None)
  /\ Goto(n, "evidence")
  /\ primary' = [primary EXCEPT ![n] = Failed(n, class)]
  /\ first' = IF cause[n] = None THEN Failed(n, class) ELSE first
  /\ unprovoked' = unprovoked \cup ({n} \cap {m \in Steps : cause[m] = None})
  /\ UNCHANGED <<stack, ret, cause, timer, due, late, failures, temp, terminal, asked, outcome>>

EvidenceTaken(n) ==
  /\ Running(n, {"evidence"})
  /\ End(n, primary[n])

-----------------------------------------------------------------------------
(* Waits: the root, timeouts and resource scopes                           *)

Pass(n) == IF Kind[n] = "resource" THEN "closing" ELSE "releasing"
Completes(n, o) == primary' = [primary EXCEPT ![n] = o]

\* The body of a wait starts with its first poll.
BodyStarts(n) ==
  /\ Kind[n] \in {"timeout", "resource"} /\ Running(n, {"open"}) /\ Waiting(n) # {}
  /\ Enter(NextChild(n))

ResourceOpens(n) ==
  /\ Running(n, {"acquiring"})
  /\ \/ Goto(n, "open") /\ UNCHANGED primary
     \/ Goto(n, "closing") /\ Completes(n, Aborted(n))
  /\ UNCHANGED <<stack, ret, cause, timer, due, late, first, failures, temp, terminal, asked,
                 outcome, unprovoked>>

\* Mutant: a wait looks at its token only.
ObserveTokenOnly(n) ==
  /\ ret = None /\ OnPath(n) /\ n \in Waiters /\ at[n] \in {"acquiring", "open"}
  /\ cause[n] # None /\ Completes(n, Interrupted(cause[n]))
  /\ Goto(n, IF at[n] = "open" THEN "interrupting" ELSE "closing")
  /\ UNCHANGED <<stack, ret, cause, timer, due, late, first, failures, temp, terminal, asked, outcome,
                 unprovoked>>

\* wait() looks at the token, then at the deadline, then at its source.
Observe(n) ==
  /\ ret = None /\ OnPath(n) /\ n \in Waiters /\ at[n] \in {"acquiring", "open"}
  /\ \A w \in Waiters : n \in Below[w] => ~Unseen(w)
  /\ \/ cause[n] # None /\ Completes(n, Interrupted(cause[n])) /\ UNCHANGED cause
     \/ /\ cause[n] = None /\ timer[n] \in due
        /\ CancelToken(n, Outcome("cancelled", timer[n], "timeout"))
        /\ Completes(n, Interrupted(Outcome("cancelled", timer[n], "timeout")))
  /\ Goto(n, IF at[n] = "open" THEN "interrupting" ELSE "closing")
  /\ UNCHANGED <<stack, ret, timer, due, late, first, failures, temp, terminal, asked, outcome, unprovoked>>

\* The body returns to its wait.  Once interrupted only an abort counts, and a failure
\* of the interruption itself joins the cleanup failures.
BodyReturns(n) ==
  /\ ret # None /\ Top = n /\ n \in Waiters /\ ~GoesOn(n)
  /\ Completes(n, CASE at[n] = "open" -> ret
                    [] at[n] # "open" /\ ret.kind = "aborted" /\ Kind[n] # "resource" -> ret
                    [] OTHER -> primary[n])
  /\ failures' = failures \cup
       IF at[n] = "interrupting" /\ ret.kind = "failed" /\ ret.class # "test"
       THEN {[scope |-> n, what |-> "host"]} ELSE {}
  /\ ret' = None /\ Goto(n, Pass(n))
  /\ UNCHANGED <<stack, cause, timer, due, late, first, temp, terminal, asked, outcome, unprovoked>>

\* The budget of the interruption is over: the body is dropped where it stands.
Abandon(n) ==
  /\ ret = None /\ OnPath(n) /\ at[n] = "interrupting" /\ n \in late
  /\ \E i \in DOMAIN stack : stack[i] = n /\ stack' = SubSeq(stack, 1, i)
  /\ at' = [m \in Nodes |-> CASE m = n -> Pass(n)
                              [] m \in Below[n] /\ OnPath(m) -> "dropped"
                              [] OTHER -> at[m]]
  /\ failures' = failures \cup {[scope |-> n, what |-> "timedout"]}
  /\ UNCHANGED <<ret, cause, timer, due, late, primary, first, temp, terminal, asked, outcome, unprovoked>>

\* The context is closed, or refuses to, or hangs until the budget is over.  A
\* cancellation meanwhile replaces the result of the body.
Closes(n) ==
  /\ Running(n, {"closing"}) /\ Goto(n, "releasing")
  /\ failures' \in {failures} \cup {failures \cup {[scope |-> n, what |-> w]} :
                      w \in {"host"} \cup IF n \in late THEN {"timedout"} ELSE {}}
  /\ Completes(n, IF cause[n] # None /\ primary[n].kind # "aborted"
                  THEN Interrupted(cause[n]) ELSE primary[n])
  /\ UNCHANGED <<stack, ret, cause, timer, due, late, first, temp, terminal, asked, outcome, unprovoked>>

\* Mutant: only what the scope itself was handed.
OwnedOwn(n) == {s \in Steps : temp[s] = "owned" /\ (Owner(s) = n \/ n = Root)}

\* The scopes of an abandoned body still count as active.
Owned(n) ==
  {s \in Steps : temp[s] = "owned" /\
     \/ n = Root
     \/ Owner(s) \in {n} \cup Below[n] /\ terminal[Owner(s)] = "none"}

Releases(n, s) ==
  /\ Running(n, {"releasing"}) /\ s \in Owned(n)
  /\ \/ temp' = [temp EXCEPT ![s] = "released"] /\ UNCHANGED failures
     \/ /\ temp' = [temp EXCEPT ![s] = "lost"]
        /\ failures' = failures \cup {[scope |-> n, what |-> "directory"]}
  /\ UNCHANGED <<stack, ret, at, cause, timer, due, late, primary, first, terminal, asked, outcome, unprovoked>>

\* finish_descendants()
ClosedBelow(n) ==
  [m \in Nodes |-> IF m \in Below[n] /\ Started(m) /\ terminal[m] = "none"
                   THEN "Cancelled" ELSE terminal[m]]

\* Mutant: every deadline is the scope's own.
WaitResultAnyDeadline(n) ==
  LET p == primary[n] IN
  CASE p.kind = "interrupted" /\ p.class = "timeout" -> TimedOut(n)
    [] p.kind = "interrupted" /\ p.class # "timeout" -> Cancelled(p.class)
    [] OTHER -> p

WaitResult(n) ==
  LET p == primary[n] IN
  CASE p.kind = "interrupted" /\ p.class = "timeout" /\ p.by = n -> TimedOut(n)
    [] p.kind = "interrupted" /\ ~(p.class = "timeout" /\ p.by = n) -> Cancelled(p.class)
    [] OTHER -> p

WaiterEnds(n) ==
  /\ Running(n, {"releasing"}) /\ n # Root /\ Owned(n) = {}
  /\ LET o == WaitResult(n) IN
       /\ stack' = Front(stack) /\ ret' = o
       /\ Goto(n, "over")
       /\ first' = IF Fails(o) /\ cause[n] = None /\ first = None THEN o ELSE first
       /\ terminal' = [ClosedBelow(n) EXCEPT ![n] = ScopeFact(n, o, failures # {})]
  /\ UNCHANGED <<cause, timer, due, late, primary, failures, temp, asked, outcome, unprovoked>>

-----------------------------------------------------------------------------
(* The end of the test                                                     *)

\* Mutant: the body's own result comes first.
ProvisionalBodyFirst == IF primary[Root].kind # "interrupted" THEN primary[Root] ELSE WaitResult(Root)

\* What the test comes to, before the cleanup: its first failure, else its body.
Provisional ==
  LET body == IF first # None THEN first ELSE WaitResult(Root) IN
  IF body.kind = "failed" /\ body.class # "test" THEN [body EXCEPT !.kind = "aborted"] ELSE body

\* The session is closed after a timeout and a cancellation, and when the root owns it.
SessionCloses ==
  /\ Running(Root, {"releasing"}) /\ Owned(Root) = {}
  /\ Goto(Root, "session")
  /\ failures' \in {failures, failures \cup {[scope |-> Root, what |-> "session"]}}
  /\ UNCHANGED <<stack, ret, cause, timer, due, late, primary, first, temp, terminal, asked, outcome, unprovoked>>

\* The terminal fact of the root says what the test came to; nobody but itself has cancelled it.
RootFact(o) ==
  CASE o.kind = "passed" -> "Passed" [] o.kind = "failed" -> "Failed" [] o.kind = "timedout" -> "TimedOut"
    [] o.kind = "cancelled" -> "Cancelled" [] o.kind = "aborted" -> "Aborted"

\* A cleanup failure turns every outcome into an abort that keeps the prior one.
TestEnds ==
  /\ Running(Root, {"session"})
  /\ outcome' = IF failures = {} THEN Provisional ELSE [Provisional EXCEPT !.kind = "aborted"]
  /\ terminal' = [ClosedBelow(Root) EXCEPT ![Root] = RootFact(outcome')]
  /\ Goto(Root, "over")
  /\ UNCHANGED <<stack, ret, cause, timer, due, late, primary, first, failures, temp, asked, unprovoked>>

-----------------------------------------------------------------------------
(* Control and time                                                        *)

Ask ==
  /\ ~asked /\ outcome = None /\ asked' = TRUE
  /\ UNCHANGED <<stack, ret, at, cause, timer, due, late, primary, first, failures, temp,
                 terminal, outcome, unprovoked>>

\* with_control() cancels the root, and goes on driving it.
ControlCancels ==
  /\ ret = None /\ asked /\ at[Root] \in {"open", "interrupting"} /\ cause[Root] = None
  /\ CancelToken(Root, Outcome("cancelled", Root, "user"))
  /\ UNCHANGED <<stack, ret, at, timer, due, late, primary, first, failures, temp, terminal,
                 asked, outcome, unprovoked>>

\* An inner deadline of its own is the earlier one.
Expire(n) ==
  /\ ret = None /\ outcome = None /\ OnPath(n) /\ timer[n] = n /\ n \notin due
  /\ \A m \in Below[n] : OnPath(m) /\ timer[m] = m => m \in due
  /\ due' = due \cup {n}
  /\ UNCHANGED <<stack, ret, at, cause, timer, late, primary, first, failures, temp, terminal,
                 asked, outcome, unprovoked>>

\* So is an inner budget: it is no longer, and began no later.
BudgetEnds(n) ==
  /\ ret = None /\ OnPath(n) /\ n \notin late
  /\ at[n] \in {"interrupting", "closing", "releasing"}
  /\ \A m \in Below[n] \cap Waiters : OnPath(m) => m \in late
  /\ late' = late \cup {n}
  /\ UNCHANGED <<stack, ret, at, cause, timer, due, primary, first, failures, temp, terminal,
                 asked, outcome, unprovoked>>

-----------------------------------------------------------------------------
Answers(n) ==
  \/ StepReturns(n) \/ \E class \in Classes : StepFails(n, class)
  \/ ResourceOpens(n) \/ EvidenceTaken(n)

Next ==
  \/ Proceed \/ SequenceEnds \/ SessionCloses \/ TestEnds \/ Ask \/ ControlCancels
  \/ \E n \in Nodes :
       \/ StepBegins(n) \/ StepCancelled(n) \/ Answers(n)
       \/ BodyStarts(n) \/ Observe(n) \/ BodyReturns(n) \/ Abandon(n) \/ Closes(n)
       \/ WaiterEnds(n) \/ Expire(n) \/ BudgetEnds(n) \/ \E s \in Steps : Releases(n, s)

\* The task is scheduled and clocks advance.  No host has to answer, and the control
\* may hold a step for ever; what is bounded by a budget ends with it.
Fairness ==
  /\ WF_vars(Proceed) /\ WF_vars(SequenceEnds) /\ WF_vars(SessionCloses) /\ WF_vars(TestEnds)
  /\ WF_vars(ControlCancels)
  /\ \A n \in Nodes :
       /\ WF_vars(Observe(n)) /\ WF_vars(BodyReturns(n)) /\ WF_vars(Abandon(n))
       /\ WF_vars(BodyStarts(n)) /\ WF_vars(n \in late /\ Closes(n)) /\ WF_vars(WaiterEnds(n))
       /\ WF_vars(cause[n] # None /\ StepBegins(n))
       /\ WF_vars(Kind[n] = "browser" /\ StepCancelled(n))
       /\ WF_vars(Expire(n)) /\ WF_vars(BudgetEnds(n))
       /\ WF_vars(n \in late /\ \E s \in Steps : Releases(n, s))

Spec == Init /\ [][Next]_vars
FairSpec == Spec /\ Fairness

-----------------------------------------------------------------------------
(* Properties                                                              *)

\* What a scope owns is gone before its terminal fact: every scope below has one, no
\* node below is running, and every directory handed over is released or reported.
NothingLeftBehind ==
  \A n \in Waiters : terminal[n] # "none" =>
    \A m \in Below[n] :
      /\ Started(m) => terminal[m] # "none" /\ ~OnPath(m)
      /\ temp[m] # "owned"
      /\ temp[m] = "lost" => failures # {}

\* A scope that reports Passed ran everything in it, and all of that passed; a test
\* that did not pass says why truthfully.
OutcomeJustified ==
  /\ \A n \in Nodes : terminal[n] = "Passed" => \A m \in Below[n] : terminal[m] = "Passed"
  /\ outcome.kind = "passed" => failures = {} /\ terminal[Root] = "Passed"
  /\ outcome.kind = "timedout" => outcome.by \in due
  /\ outcome.kind = "cancelled" => CASE outcome.class = "user" -> asked
                                     [] outcome.class = "timeout" -> due # {}

\* A step that fails while nobody has cancelled it decides the test, whatever happens
\* while its evidence is taken and the scopes above are torn down; and a context that
\* could not be created makes the test an abort, also under a cancellation.
FirstFailureDecides ==
  outcome # None =>
    /\ \A n \in unprovoked : outcome.by = n /\ outcome.kind \in {"failed", "aborted"}
    /\ (\E n \in Waiters : primary[n].kind = "aborted") => outcome.kind = "aborted"

\* With hosts that hang, refuse and fail at any point, and a control that may hold any
\* step, every test comes to an outcome.
EveryTestEnds == <>(outcome # None)
=============================================================================
