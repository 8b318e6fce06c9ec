--------------------------- MODULE SiblingScheduler ---------------------------
(***************************************************************************)
(* Structured sibling scheduling of parallel and race nodes:               *)
(* schedule() of crates/runtime/src/execution/scheduler.rs and the         *)
(* concurrent_node() of execution/concurrent.rs around it.                 *)
(*                                                                         *)
(* One task owns the child futures and polls them; only the parent token   *)
(* is cancelled by other threads, and that cancel() reaches the tokens of  *)
(* the children one by one.  A child future is external: while polled it   *)
(* may report a primary failure through its FailureSignal (its teardown is *)
(* still to come) and it may finish with any outcome.                      *)
(***************************************************************************)
EXTENDS Naturals

CONSTANTS
  Children,   \* ordinals of the child nodes
  Causes,     \* causes that reach the parent token from outside
  None

ASSUME CausesAssumption == Causes \cap {None, "RaceLost", "ParentFailed"} = {}
\* The plan validates that a parallel or race node has branches.
ASSUME ChildrenAssumption == Children # {}

VARIABLES
  policy,     \* SiblingPolicy
  parent,     \* cause of the parent token
  untold,     \* child tokens the parent's cancel() still has to visit
  cause,      \* causes of the child tokens
  reported,   \* children whose FailureSignal holds a class
  noticed,    \* children whose notice was taken from `notices'
  result,     \* Completion of a child future that returned
  completed, winner, unhealthy,   \* locals of schedule()
  pc, current,                    \* where schedule() is, the ordinal it handles
  final, outcome                  \* its result, and that of concurrent_node()

tokenVars == <<parent, untold, cause>>
loopVars  == <<completed, winner, unhealthy>>
vars == <<policy, tokenVars, reported, noticed, result, loopVars, pc, current, final, outcome>>

Broken == {"Infrastructure", "Internal"}
Completions == Broken \cup {"Passed", "Test", "Cancelled"}

ASSUME NoneAssumption == None \notin Children \cup Completions \cup {"RaceLost", "ParentFailed"}

TypeOK ==
  /\ policy \in {"All", "FirstSuccess"}
  /\ parent \in Causes \cup {None}
  /\ untold \in SUBSET Children
  /\ cause \in [Children -> Causes \cup {None, "RaceLost", "ParentFailed"}]
  /\ reported \in SUBSET Children /\ noticed \in SUBSET reported
  /\ result \in [Children -> Completions \cup {None}]
  /\ completed \in SUBSET {c \in Children : result[c] # None}
  /\ winner \in Children \cup {None} /\ final \in Children \cup {None}
  /\ unhealthy \in BOOLEAN
  /\ pc \in {"notices", "children", "complete", "losers", "returned"}
  /\ current \in Children \cup {None}
  /\ outcome \in Completions \cup {None}

Init ==
  /\ policy \in {"All", "FirstSuccess"}
  /\ parent = None /\ untold = {} /\ cause = [c \in Children |-> None]
  /\ reported = {} /\ noticed = {}
  /\ result = [c \in Children |-> None]
  /\ completed = {} /\ winner = None /\ unhealthy = FALSE
  /\ pc = "notices" /\ current = None
  /\ final = None /\ outcome = None

-----------------------------------------------------------------------------
(* Tokens                                                                  *)

\* Some thread cancels the parent's token ...
CancelParent(k) ==
  /\ parent = None /\ pc # "returned"
  /\ parent' = k
  /\ untold' = Children
  /\ UNCHANGED <<policy, cause, reported, noticed, result, loopVars, pc, current, final, outcome>>

\* The first cause of every token in S wins.
Cancelled(S, k) == [c \in Children |-> IF c \in S /\ cause[c] = None THEN k ELSE cause[c]]

\* ... and then those of its children.
Propagate(c) ==
  /\ c \in untold
  /\ untold' = untold \ {c}
  /\ cause' = Cancelled({c}, parent)
  /\ UNCHANGED <<policy, parent, reported, noticed, result, loopVars, pc, current, final, outcome>>

\* Mutant: the completed siblings are cancelled instead of the others.
SiblingsDone(failed) == {c \in completed : \E f \in failed : f # c}

\* Who cancel_siblings() reaches for a set of failed (or winning) children.
Siblings(failed) == {c \in Children \ completed : \E f \in failed : f # c}

-----------------------------------------------------------------------------
(* The child futures, polled by `pending.next()'                           *)

\* FailureSignal::report, before the child's teardown.
Report(c) ==
  /\ pc = "children" /\ result[c] = None /\ c \notin reported
  /\ reported' = reported \cup {c}
  /\ UNCHANGED <<policy, tokenVars, noticed, result, loopVars, pc, current, final, outcome>>

\* A child ends as cancelled only if its token is; teardown may break any of them.
Finish(c, r) ==
  /\ pc = "children" /\ result[c] = None
  /\ r = "Cancelled" => cause[c] # None
  /\ result' = [result EXCEPT ![c] = r]
  /\ pc' = "complete" /\ current' = c
  /\ UNCHANGED <<policy, tokenVars, reported, noticed, loopVars, final, outcome>>

-----------------------------------------------------------------------------
(* schedule()                                                              *)

BreakUp(failed) ==
  /\ unhealthy' = TRUE
  /\ winner' = None
  /\ cause' = Cancelled(Siblings(failed), "ParentFailed")

\* The biased select! looks at the notices first ...
Notice(c) ==
  /\ pc = "notices" /\ completed # Children
  /\ c \in reported \ noticed
  /\ noticed' = noticed \cup {c}
  /\ BreakUp({c})
  /\ UNCHANGED <<policy, parent, untold, reported, result, completed, pc, current, final, outcome>>

\* ... and polls the children when there is none; they may all be pending.
PollChildren ==
  /\ pc = "notices" /\ completed # Children
  /\ reported = noticed
  /\ pc' = "children"
  /\ UNCHANGED <<policy, tokenVars, reported, noticed, result, loopVars, current, final, outcome>>

ChildrenPending ==
  /\ pc = "children"
  /\ pc' = "notices"
  /\ UNCHANGED <<policy, tokenVars, reported, noticed, result, loopVars, current, final, outcome>>

\* Mutant: reports made during the poll that completed a child are left to the notices.
FailedUnchecked == {c \in {current} : result[c] \in Broken}

\* Mutant: every failure breaks the node up.
FailedAny == reported \cup {c \in {current} : result[c] \notin {"Passed", "Cancelled"}}

\* Reports made during the same poll count before a success does.
Failed == reported \cup {c \in {current} : result[c] \in Broken}

Wins ==
  /\ policy = "FirstSuccess" /\ result[current] = "Passed"
  /\ winner = None /\ ~unhealthy
  /\ parent = None

Complete ==
  /\ pc = "complete"
  /\ \/ /\ Failed # {}
        /\ BreakUp(Failed)
        /\ pc' = "notices" /\ completed' = completed \cup {current}
     \/ /\ Failed = {} /\ Wins
        /\ winner' = current
        /\ pc' = "losers"
        /\ UNCHANGED <<cause, unhealthy, completed>>
     \/ /\ Failed = {} /\ ~Wins
        /\ pc' = "notices" /\ completed' = completed \cup {current}
        /\ UNCHANGED <<cause, winner, unhealthy>>
  /\ UNCHANGED <<policy, parent, untold, reported, noticed, result, current, final, outcome>>

\* The parent may be cancelled between the look at its token and this.
CancelLosers ==
  /\ pc = "losers"
  /\ cause' = Cancelled(Siblings({current}), "RaceLost")
  /\ completed' = completed \cup {current}
  /\ pc' = "notices"
  /\ UNCHANGED <<policy, parent, untold, reported, noticed, result, winner, unhealthy, current,
                 final, outcome>>

\* Mutant: a cancelled child outweighs a broken one.
SeverityCancelled == [r \in Completions |->
  CASE r = "Passed" -> 0 [] r = "Test" -> 1 [] r = "Infrastructure" -> 2
    [] r = "Internal" -> 3 [] r = "Cancelled" -> 4]

Severity == [r \in Completions |->
  CASE r = "Passed" -> 0 [] r = "Cancelled" -> 1 [] r = "Test" -> 2
    [] r = "Infrastructure" -> 3 [] r = "Internal" -> 4]

\* The aggregate starts from "Passed" and takes what is worse.
Worst(r) ==
  /\ r \in {"Passed"} \cup {result[c] : c \in Children}
  /\ \A c \in Children : Severity[result[c]] <= Severity[r]

\* Mutant: the look at the parent that came before the award has to do.
Unfiltered == winner

\* Who was awarded the race, unless the parent was cancelled since.
Filtered == IF parent = None THEN winner ELSE None

\* The filter, then concurrent_node(): a winner whose value cannot be bound is an
\* internal failure; without a winner the worst result stands.
Return(bound) ==
  /\ pc = "notices" /\ completed = Children
  /\ final' = Filtered
  /\ \/ final' # None /\ outcome' = IF bound THEN "Passed" ELSE "Internal"
     \/ final' = None /\ \E r \in Completions : Worst(r) /\ outcome' = r
  /\ pc' = "returned"
  /\ UNCHANGED <<policy, tokenVars, reported, noticed, result, loopVars, current>>

-----------------------------------------------------------------------------
\* A child whose teardown has begun: it was cancelled or reported its failure.
Ending(c) == cause[c] # None \/ c \in reported

Loop ==
  \/ \E c \in Children : Notice(c)
  \/ PollChildren \/ ChildrenPending \/ Complete \/ CancelLosers
  \/ \E bound \in BOOLEAN : Return(bound)

Next ==
  \/ Loop
  \/ \E k \in Causes : CancelParent(k)
  \/ \E c \in Children :
       \/ Propagate(c) \/ Report(c)
       \/ \E r \in Completions : Finish(c, r)

\* The task is polled, cancel() runs to its end, and teardown is bounded (see
\* ResourceScope); a child left alone may run for ever.
Fairness ==
  /\ WF_vars(Loop)
  /\ \A c \in Children :
       /\ WF_vars(Propagate(c))
       /\ SF_vars(Ending(c) /\ \E r \in Completions : Finish(c, r))

Spec == Init /\ [][Next]_vars
FairSpec == Spec /\ Fairness

-----------------------------------------------------------------------------
(* Properties                                                              *)

\* A race is won only if no child broke: neither by a report, seen or not, nor
\* by a teardown that failed after the winner was chosen.  Nor is it won under a
\* parent that was cancelled at any time before, after the award of the race too.
HealthyWinner ==
  (pc = "returned" /\ final # None) =>
    /\ policy = "FirstSuccess" /\ result[final] = "Passed"
    /\ reported = {} /\ parent = None
    /\ \A c \in Children : result[c] \in {"Passed", "Test", "Cancelled"}

\* The scheduler cancels a child only for another one's sake: as a loser when
\* somebody else passed, as a victim when somebody else broke.  A test failure
\* cancels nobody, and the winner of a race is never told it lost.
CancelledForAReason ==
  \A c \in Children :
    /\ cause[c] = "RaceLost" =>
         c # winner /\ \E d \in Children \ {c} : result[d] = "Passed"
    /\ cause[c] = "ParentFailed" =>
         \E d \in Children \ {c} : d \in reported \/ result[d] \in Broken

\* A node passes only if it should: all children of a parallel node did, a race
\* has a winner unless its parent was cancelled or a child reported a failure.
\* An infrastructure or internal failure of any child is never outvoted.
NothingHidden ==
  pc = "returned" =>
    /\ outcome = "Passed" =>
         \/ final # None
         \/ /\ \A c \in Children : result[c] = "Passed"
            /\ policy = "All" \/ parent # None \/ reported # {}
    /\ (\E c \in Children : result[c] \in Broken) => outcome \in Broken

\* The first winner stays the winner or there is none: a provisional winner is
\* taken back when a sibling breaks and never handed on.
WinnerNeverReplaced ==
  [][winner # None /\ winner' # winner => winner' = None /\ unhealthy']_vars

\* Once a race is decided, a child broke or the parent is cancelled, the node ends.
DecidedEnds == (winner # None \/ unhealthy \/ parent # None) ~> pc = "returned"
=============================================================================
