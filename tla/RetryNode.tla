------------------------------ MODULE RetryNode ------------------------------
(***************************************************************************)
(* One `retry' of a test: retry_node() of execution/retry.rs with the      *)
(* attempts it runs one at a time through execute_child().                 *)
(*                                                                         *)
(* An attempt has a branch of its own, which it may let contain finished   *)
(* parallel, race and retry nodes.  It fails, passes or is cancelled, its  *)
(* end is made final and shown to editors, its lexical resources are torn  *)
(* down, and only then is it judged: retried after a backoff, or handed up.  The parent scope may be cancelled from  *)
(* another thread at any time, and an enclosing wait that has run out of   *)
(* cleanup time drops the node wherever it is.                             *)
(*                                                                         *)
(* A nested child is known by how it ended.  "Eligible" is a failure that  *)
(* retryable_result() accepts together with all that is below it.          *)
(***************************************************************************)
EXTENDS Naturals, Sequences

CONSTANTS
  MaxAttempts,  \* settings.attempts is at most this
  Backoffs      \* RetryBackoff: records of an initial and a largest delay

ASSUME AttemptsAssumption == MaxAttempts \in Nat \ {0}
ASSUME BackoffAssumption ==
  \A b \in Backoffs : b.initial \in Nat /\ b.max \in Nat /\ b.initial <= b.max

VARIABLES
  attempts,   \* settings.attempts
  backoff,    \* settings.backoff
  inherits,   \* the child uses the browser context of the enclosing scope
  pc,         \* where retry_node() is
  parent,     \* the parent token is cancelled
  page,       \* who has the page of the enclosing context: "owner", "attempt" or "lost"
  current,    \* the branch of the running attempt
  tried,      \* completed_branches: the attempts, in order
  waited,     \* history: the delays slept between attempts
  pending,    \* ObservationProjection.pending, as the attempts they are of
  published,  \* observations given to the parent's store, as above
  result      \* what retry_node() returned, or where it was dropped

vars == <<attempts, backoff, inherits, pc, parent, page, current, tried, waited,
          pending, published, result>>
settings == <<attempts, backoff, inherits>>

Outcomes == {"Passed", "Eligible", "Ineligible", "TimedOut", "Cancelled", "Aborted"}
Failures == Outcomes \ {"Passed", "Cancelled"}
Unset == "Unset"

\* severity(): the worst of several children stands for all of them.
Severity(o) ==
  CASE o = "Aborted" -> 3
    [] o \in {"Eligible", "Ineligible", "TimedOut"} -> 2
    [] o = "Cancelled" -> 1
    [] o = "Passed" -> 0

Worst(os) == {o \in os : \A p \in os : Severity(p) <= Severity(o)}

\* A branch: how its children ended (completed_branches), those among them that
\* a winner made up for, its first failure (primary_failure), how its body ended,
\* and the cause of its token.
Fresh == [children |-> {}, recovered |-> {}, primary |-> Unset, body |-> Unset, cause |-> Unset]

Branches == [children : SUBSET Outcomes, recovered : SUBSET Outcomes, primary : Failures \cup {Unset},
             body : Outcomes \cup {Unset}, cause : {Unset, "own", "parent"}]
Attempts == [outcome : Outcomes, children : SUBSET Outcomes, lost : SUBSET Outcomes, observed : BOOLEAN]
Attempting == {"running", "failing", "closing", "teardown"}
Stages == {"loop", "judge", "backoff"} \cup Attempting
Results == [kind : {"None", "Passed", "Cancelled", "Internal"}] \cup
           [kind : {"Finalized"}, outcome : Outcomes] \cup [kind : {"Dropped"}, at : Stages]

TypeOK ==
  /\ attempts \in 1..MaxAttempts /\ backoff \in Backoffs /\ inherits \in BOOLEAN
  /\ pc \in Stages \cup {"done", "dropped"}
  /\ parent \in BOOLEAN
  /\ page \in {"owner", "attempt", "lost"}
  /\ current \in Branches
  /\ tried \in Seq(Attempts) /\ Len(tried) <= attempts
  /\ waited \in Seq(Nat)
  /\ pending \subseteq 1..attempts /\ published \subseteq 1..attempts
  /\ result \in Results

Init ==
  /\ attempts \in 1..MaxAttempts /\ backoff \in Backoffs /\ inherits \in BOOLEAN
  /\ pc = "loop" /\ parent = FALSE /\ page = "owner" /\ current = Fresh
  /\ tried = <<>> /\ waited = <<>> /\ pending = {} /\ published = {}
  /\ result = [kind |-> "None"]

-----------------------------------------------------------------------------
(* The end of the node: its projection publishes what was not recovered     *)

Publish(recovered) ==
  /\ published' = IF recovered THEN published ELSE published \cup pending
  /\ pending' = {}

Return(r, recovered) ==
  /\ pc' = "done" /\ result' = r
  /\ Publish(recovered)

\* The enclosing wait drops a cancelled node that does not end in time, and what
\* its running attempt holds with it.
Abandon ==
  /\ parent /\ pc \notin {"done", "dropped"}
  /\ pc' = "dropped" /\ page' = IF page = "attempt" THEN "lost" ELSE page
  /\ result' = [kind |-> "Dropped", at |-> pc]
  /\ Publish(FALSE)
  /\ UNCHANGED <<settings, parent, current, tried, waited>>

-----------------------------------------------------------------------------
(* The attempt: execute_child()                                             *)

\* The scope and the branch of the next attempt; it borrows the page.
BeginAttempt ==
  /\ pc = "loop" /\ ~parent
  /\ pc' = "running" /\ current' = Fresh
  /\ page' = IF inherits /\ page = "owner" THEN "attempt" ELSE page
  /\ UNCHANGED <<settings, parent, tried, waited, pending, published, result>>

CancelledBetween ==
  /\ pc = "loop" /\ parent
  /\ Return([kind |-> "Cancelled"], FALSE)
  /\ UNCHANGED <<settings, parent, page, current, tried, waited>>

\* A race or a retry in the attempt was won: the other children are recovered.
ChildrenWon(others) ==
  /\ pc = "running" /\ current.children = {}
  /\ current' = [current EXCEPT !.children = others \cup {"Passed"}, !.recovered = others]
  /\ UNCHANGED <<settings, pc, parent, page, tried, waited, pending, published, result>>

\* The wait on the body sees its own deadline, if the child is a timeout, or the
\* parent's token.
Interrupt(cause) ==
  /\ pc \in {"running", "failing"} /\ current.cause = Unset
  /\ cause = "parent" => parent
  /\ current' = [current EXCEPT !.cause = cause]
  /\ UNCHANGED <<settings, pc, parent, page, tried, waited, pending, published, result>>

\* A failure in the body that no cancellation preceded is kept aside, whatever the
\* wait makes of the attempt; its evidence is collected before the body ends.
Fail(o, children) ==
  /\ pc = "running" /\ pc' = "failing"
  /\ current' = [current EXCEPT !.body = o, !.children = @ \cup children,
                                !.primary = IF current.cause = Unset THEN o ELSE Unset]
  /\ UNCHANGED <<settings, parent, page, tried, waited, published, result>>

Ordinal == Len(tried) + 1   \* of the running attempt

StepFails(o) == Fail(o, {}) /\ UNCHANGED pending

\* A parallel, race or retry node fails with the worst of its children, and the end of
\* its own projection hands their observations up.
ChildrenLose(children, o) ==
  /\ current.children = {} /\ o \in Worst(children)
  /\ Fail(o, children)
  /\ pending' = IF children \cap Failures # {} THEN pending \cup {Ordinal} ELSE pending

EndBody(from, o) ==
  /\ pc = from /\ pc' = "closing"
  /\ current' = [current EXCEPT !.body = o]
  /\ UNCHANGED <<settings, parent, page, tried, waited, pending, published, result>>

BodyPasses == EndBody("running", "Passed")
BodyFails == EndBody("failing", current.body)

\* A cancelled body is awaited by the interrupt and gives up.
BodyStops == current.cause # Unset /\ EndBody("running", "Cancelled")

\* The wait's verdict on the body, and what the branch remembers instead.
Primary ==
  IF current.primary # Unset THEN current.primary
  ELSE IF current.cause = Unset \/ current.body = "Aborted" THEN current.body
  ELSE IF current.cause = "own" THEN "TimedOut" ELSE "Cancelled"

\* Something an editor can show: the attempt's own failure, or that of a child.
ChildrenLost == (current.children \ current.recovered) \cap Failures # {}
Observed == Primary \in Failures \/ ChildrenLost

\* Mutant: what an attempt shows is kept until its teardown is over.
FinalizeUnseen ==
  /\ pc = "closing" /\ pc' = "teardown"
  /\ UNCHANGED <<settings, parent, page, current, tried, waited, pending, published, result>>

\* finalize_body(): the failure is final, and is shown before anything is torn down.
Finalize ==
  /\ pc = "closing" /\ pc' = "teardown"
  /\ pending' = IF Primary \in Failures THEN pending \cup {Ordinal} ELSE pending
  /\ UNCHANGED <<settings, parent, page, current, tried, waited, published, result>>

\* What retry_node() gets of an attempt.
Completed(outcome) ==
  [outcome |-> outcome, children |-> current.children,
   lost |-> (current.children \ current.recovered) \cup {outcome}, observed |-> Observed]

\* Mutant: an attempt gives the page back only if it passed.
CompleteKeepingPage(clean) ==
  LET outcome == IF clean THEN Primary ELSE "Aborted" IN
  /\ pc = "teardown" /\ pc' = "judge"
  /\ tried' = Append(tried, Completed(outcome))
  /\ page' = IF page = "attempt" /\ outcome = "Passed" THEN "owner" ELSE page
  /\ UNCHANGED <<settings, parent, current, waited, pending, published, result>>

\* Teardown is over; a failure in it aborts the attempt.  The page goes back.
Complete(clean) ==
  LET outcome == IF clean THEN Primary ELSE "Aborted" IN
  /\ pc = "teardown" /\ pc' = "judge"
  /\ tried' = Append(tried, Completed(outcome))
  /\ page' = IF page = "attempt" THEN "owner" ELSE page
  /\ UNCHANGED <<settings, parent, current, waited, pending, published, result>>

-----------------------------------------------------------------------------
(* The verdict on the attempt: retry_node()                                 *)

Last == tried[Len(tried)]

\* Mutant: only the summary of the attempt is looked at.
RetryableSummary(a) == a.outcome = "Eligible"

\* retryable_result()
Retryable(a) == a.outcome = "Eligible" /\ a.children \subseteq {"Passed", "Eligible"}

\* Mutant: the observations are recovered before the parent's token is looked at.
PassedRecoveredFirst ==
  /\ pc = "judge" /\ Last.outcome = "Passed"
  /\ Return([kind |-> IF parent THEN "Cancelled" ELSE "Passed"], TRUE)
  /\ UNCHANGED <<settings, parent, page, current, tried, waited>>

\* An attempt passed: unless the parent was cancelled meanwhile, it recovers all.
AttemptPassed ==
  /\ pc = "judge" /\ Last.outcome = "Passed"
  /\ Return([kind |-> IF parent THEN "Cancelled" ELSE "Passed"], ~parent)
  /\ UNCHANGED <<settings, parent, page, current, tried, waited>>

GiveUp ==
  /\ pc = "judge" /\ Last.outcome # "Passed"
  /\ ~Retryable(Last) \/ Len(tried) = attempts
  /\ Return([kind |-> "Finalized", outcome |-> Last.outcome], FALSE)
  /\ UNCHANGED <<settings, parent, page, current, tried, waited>>

BeginBackoff ==
  /\ pc = "judge" /\ Last.outcome # "Passed"
  /\ Retryable(Last) /\ Len(tried) < attempts
  /\ pc' = "backoff"
  /\ UNCHANGED <<settings, parent, page, current, tried, waited, pending, published, result>>

Capped(d) == IF d < backoff.max THEN d ELSE backoff.max

\* Mutant: the ordinal is counted from one.
DelayFromOne(retry) ==
  LET delay[k \in 0..(retry + 1)] == IF k = 0 THEN Capped(backoff.initial) ELSE Capped(2 * delay[k - 1])
  IN  delay[retry + 1]

\* RetryBackoff::delay(): doubled from one retry to the next, capped.
Delay(retry) ==
  LET delay[k \in 0..retry] == IF k = 0 THEN Capped(backoff.initial) ELSE Capped(2 * delay[k - 1])
  IN  delay[retry]

\* The timer is ready; its wait looked at the token before.
TimerReady ==
  /\ pc = "backoff" /\ pc' = "loop"
  /\ waited' = Append(waited, Delay(Len(tried) - 1))
  /\ UNCHANGED <<settings, parent, page, current, tried, pending, published, result>>

TimerCancelled ==
  /\ pc = "backoff" /\ parent
  /\ Return([kind |-> "Cancelled"], FALSE)
  /\ UNCHANGED <<settings, parent, page, current, tried, waited>>

\* The wait registry is full.
TimerRejected ==
  /\ pc = "backoff"
  /\ Return([kind |-> "Internal"], FALSE)
  /\ UNCHANGED <<settings, parent, page, current, tried, waited>>

-----------------------------------------------------------------------------
CancelParent ==
  /\ ~parent /\ pc \notin {"done", "dropped"}
  /\ parent' = TRUE
  /\ UNCHANGED <<settings, pc, page, current, tried, waited, pending, published, result>>

Next ==
  \/ BeginAttempt \/ CancelledBetween \/ AttemptPassed \/ GiveUp \/ BeginBackoff
  \/ TimerReady \/ TimerCancelled \/ TimerRejected
  \/ \E others \in {{"Eligible"}, {"Ineligible"}, {"Cancelled"}} : ChildrenWon(others)
  \/ \E cause \in {"own", "parent"} : Interrupt(cause)
  \/ BodyPasses \/ BodyFails \/ BodyStops \/ \E o \in Failures : StepFails(o)
  \/ \E o, p \in Failures : ChildrenLose({o, p}, o)
  \/ Finalize \/ \E clean \in BOOLEAN : Complete(clean)
  \/ CancelParent \/ Abandon

Spec == Init /\ [][Next]_vars

-----------------------------------------------------------------------------
(* Properties                                                              *)

\* An attempt is repeated only if nothing was lost in it but what may be retried:
\* no child that failed for another reason is hidden behind an eligible summary,
\* none was interrupted and no teardown failed.  What is handed up is how the last
\* attempt ended, and it passed only if that one did.
AttemptsJustifyVerdict ==
  /\ \A k \in DOMAIN tried : k < Len(tried) => tried[k].lost \subseteq {"Passed", "Eligible"}
  /\ pc = "backoff" => Last.lost \subseteq {"Passed", "Eligible"}
  /\ result.kind \in {"Passed", "Finalized"} =>
       Last.outcome = IF result.kind = "Passed" THEN "Passed" ELSE result.outcome
  /\ result.kind = "Finalized" => result.outcome # "Passed"

\* An attempt that was running at this stage has failed children, or failed itself for good.
ShownAt(stage) ==
  \/ stage \in Attempting \ {"running"} /\ ChildrenLost
  \/ stage = "teardown" /\ Primary \in Failures

\* Editors see the failures of all attempts unless the node passed, and then of none, also
\* when it is cancelled after an attempt passed.  When it is dropped they see those of the
\* attempt under way too, however far its teardown is, and no failure that was not final.
ObservationsHonest ==
  pc \in {"done", "dropped"} =>
    published = CASE result.kind = "Passed" -> {}
                  [] result.kind # "Passed" ->
                       {k \in DOMAIN tried : tried[k].observed} \cup
                       {k \in {Ordinal} : result.kind = "Dropped" /\ ShownAt(result.at)}

\* The borrowed page is with the running attempt and with nobody else, and it is
\* back with its owner between attempts and when the node returns.
PageComesBack ==
  /\ pc \in Attempting => page = IF inherits THEN "attempt" ELSE "owner"
  /\ pc \in {"loop", "judge", "backoff", "done"} => page = "owner"

\* The first delay is the initial one and each is twice the one before it, except
\* where that is more than the largest, which the later ones stay at.
BackoffDoubles ==
  \A k \in DOMAIN waited :
    /\ k = 1 => waited[k] = backoff.initial
    /\ k > 1 => LET doubled == 2 * waited[k - 1] IN
         waited[k] = IF doubled < backoff.max THEN doubled ELSE backoff.max

\* A retry is in place: it returns the page it borrows and keeps to its backoff.
RetryInPlace == PageComesBack /\ BackoffDoubles

\* retry.rs and the design: every unrecovered failure must qualify for a retry.
\* So an attempt is given up before the last one only for a failure that does not
\* and that no winner made up for.
EligibleIsRetried ==
  result.kind = "Finalized" /\ Len(tried) < attempts => ~(Last.lost \subseteq {"Passed", "Eligible"})
=============================================================================
