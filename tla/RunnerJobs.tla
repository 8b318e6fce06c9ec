------------------------------ MODULE RunnerJobs ------------------------------
(***************************************************************************)
(* Concurrent test roots: run_allocated() of                               *)
(* crates/runtime/src/runner/jobs.rs and finish_run() of runner.rs.        *)
(*                                                                         *)
(* One task owns the futures of the admitted roots.  What a root does      *)
(* while it is polled is external: it may report a primary failure on the  *)
(* signal of its file, exhaust the file's journal, which cancels its       *)
(* roots, and end with any TestOutcome its token allows.  A RunControl is  *)
(* cancelled by other threads at any time.                                 *)
(***************************************************************************)
EXTENDS Naturals, Sequences

CONSTANTS
  NFiles,   \* files are 1..NFiles, in the order of the inputs
  N,        \* test roots 1..N, in the order of files and plans
  FileOf,   \* the file of each root
  Jobs      \* JobLimit

ASSUME SizeAssumption == NFiles \in Nat /\ N \in Nat /\ Jobs \in Nat \ {0}
ASSUME FileOfAssumption ==
  /\ FileOf \in [1..N -> 1..NFiles]
  /\ \A i, j \in 1..N : i <= j => FileOf[i] <= FileOf[j]

VARIABLES
  cancelled,  \* files whose RunControl says is_cancelled()
  overflow,   \* files whose journal has overflowed
  spoke,      \* roots that reported on the failure signal of their file
  available,  \* the queue of free workers
  pending,    \* admitted roots that have not been completed, with their workers
  next,       \* the root `roots.next()' returns
  result,     \* the result slot of each root
  outcome,    \* RunOutcome of each file
  pc,
  reported    \* files, from the first, whose RunResult is final

driverVars == <<available, pending, next, result, outcome, pc, reported>>
vars == <<cancelled, overflow, spoke, driverVars>>

Files == 1..NFiles
Roots == 1..N
Workers == 1..Jobs

\* "Failed" stands for every outcome of class Test; an aborted test may have been
\* cancelled before (its prior outcome).
Ran == {"Passed", "Failed", "Cancelled", "Aborted", "AbortedCancelled"}
Skipped == {"SkippedAborted", "SkippedCancelled"}
Aborts == {"Aborted", "AbortedCancelled"}
Cancels == {"Cancelled", "AbortedCancelled"}

\* failure: the root whose error is kept, 0 if there is none or it is the plan's;
\* prior: a cancellation the abort replaced; journal: JournalOverflow is part of it.
Outcome == [kind : {"Completed", "Cancelled", "Aborted"}, failure : 0..N,
            prior : BOOLEAN, journal : BOOLEAN]
RunOutcome(kind, failure, prior) ==
  [kind |-> kind, failure |-> failure, prior |-> prior, journal |-> FALSE]
Completed == RunOutcome("Completed", 0, FALSE)
Cancelled == RunOutcome("Cancelled", 0, FALSE)

RootsOf(f) == {i \in Roots : FileOf[i] = f}
\* Mutant: all files share one failure signal.
NoticedAnywhere(f) == spoke # {}

Noticed(f) == \E i \in spoke : FileOf[i] = f

TypeOK ==
  /\ cancelled \in SUBSET Files /\ overflow \in SUBSET Files
  /\ spoke \in SUBSET {i \in Roots : i < next}
  /\ available \in Seq(Workers)
  /\ pending \in SUBSET [root : {i \in Roots : i < next /\ result[i] = "None"}, worker : Workers]
  /\ next \in 1..(N + 1)
  /\ result \in [Roots -> Ran \cup Skipped \cup {"None"}]
  /\ outcome \in [Files -> Outcome]
  /\ pc \in {"admit", "wait", "finish"}
  /\ reported \in 0..NFiles

\* The plan of a file may be invalid, its control cancelled already, its journal
\* full with RunStarted.
Init ==
  /\ cancelled \in SUBSET Files /\ overflow \in SUBSET Files /\ spoke = {}
  /\ available = [w \in Workers |-> w]
  /\ pending = {} /\ next = 1
  /\ result = [i \in Roots |-> "None"]
  /\ \E invalid \in SUBSET Files :
       outcome = [f \in Files |-> IF f \in invalid THEN RunOutcome("Aborted", 0, FALSE)
                                  ELSE IF f \in cancelled THEN Cancelled ELSE Completed]
  /\ pc = "admit" /\ reported = 0

-----------------------------------------------------------------------------
(* Outside the driver                                                      *)

CancelControl(f) ==
  /\ f \notin cancelled /\ pc # "finish"
  /\ cancelled' = cancelled \cup {f}
  /\ UNCHANGED <<overflow, spoke, driverVars>>

\* Polled by `pending.next()', a root reports a failure before its teardown ...
Speak(p) ==
  /\ pc = "wait" /\ p.root \notin spoke
  /\ spoke' = spoke \cup {p.root}
  /\ UNCHANGED <<cancelled, overflow, driverVars>>

\* ... or publishes an event the journal of its file has no room for.
Exhaust(p) ==
  /\ pc = "wait" /\ FileOf[p.root] \notin overflow
  /\ overflow' = overflow \cup {FileOf[p.root]}
  /\ UNCHANGED <<cancelled, spoke, driverVars>>

-----------------------------------------------------------------------------
(* Admission                                                               *)

\* The outcome of the file, once its control was looked at.
Checked(f) ==
  IF outcome[f].kind = "Completed" /\ f \in cancelled THEN Cancelled ELSE outcome[f]

SkipReason(f) ==
  CASE f \in overflow -> "SkippedAborted"
    [] f \notin overflow /\ Checked(f).kind = "Aborted" -> "SkippedAborted"
    [] f \notin overflow /\ Checked(f).kind = "Cancelled" -> "SkippedCancelled"
    [] f \notin overflow /\ Checked(f).kind = "Completed" ->
         IF Noticed(f) THEN "SkippedAborted" ELSE "None"

Admitting == pc = "admit" /\ available # <<>> /\ next <= N

Admit ==
  /\ Admitting /\ SkipReason(FileOf[next]) = "None"
  /\ pending' = pending \cup {[root |-> next, worker |-> Head(available)]}
  /\ available' = Tail(available)
  /\ next' = next + 1
  /\ UNCHANGED <<cancelled, overflow, spoke, result, outcome, pc, reported>>

\* TestSkipped is an event too, and may be the one that does not fit.
SkipTest ==
  /\ Admitting /\ SkipReason(FileOf[next]) # "None"
  /\ outcome' = [outcome EXCEPT ![FileOf[next]] = Checked(FileOf[next])]
  /\ result' = [result EXCEPT ![next] = SkipReason(FileOf[next])]
  /\ overflow' \in {overflow, overflow \cup {FileOf[next]}}
  /\ next' = next + 1
  /\ UNCHANGED <<cancelled, spoke, available, pending, pc, reported>>

\* Mutant: the driver stops when there is nothing left to admit.
AdmissionEndsLoop ==
  /\ pc = "admit" /\ (available = <<>> \/ next > N)
  /\ pc' = IF next > N THEN "finish" ELSE "wait"
  /\ UNCHANGED <<cancelled, overflow, spoke, available, pending, next, result, outcome, reported>>

\* Mutant: the driver waits for roots that are not there.
AdmissionEndsForEver ==
  /\ pc = "admit" /\ (available = <<>> \/ next > N)
  /\ pc' = "wait"
  /\ UNCHANGED <<cancelled, overflow, spoke, available, pending, next, result, outcome, reported>>

AdmissionEnds ==
  /\ pc = "admit" /\ (available = <<>> \/ next > N)
  /\ pc' = IF pending = {} THEN "finish" ELSE "wait"
  /\ UNCHANGED <<cancelled, overflow, spoke, available, pending, next, result, outcome, reported>>

-----------------------------------------------------------------------------
(* Completion                                                              *)

\* What a root can end with: its token is cancelled by the control of the file or
\* its journal, and a failure it reported is not forgotten.
Possible(i, r) ==
  /\ r \in Cancels => FileOf[i] \in cancelled \cup overflow
  /\ i \in spoke => r # "Passed"

\* The summary kept while roots are running: the first failure to arrive.
Updated(o, i, r) ==
  CASE r \in Aborts /\ o.kind # "Aborted" -> RunOutcome("Aborted", i, o.kind = "Cancelled")
    [] r = "Cancelled" /\ o.kind = "Completed" -> Cancelled
    [] OTHER -> o

Complete(p, r) ==
  /\ pc = "wait" /\ Possible(p.root, r)
  /\ pending' = pending \ {p}
  /\ available' = Append(available, p.worker)
  /\ result' = [result EXCEPT ![p.root] = r]
  /\ outcome' = [outcome EXCEPT ![FileOf[p.root]] = Updated(@, p.root, r)]
  /\ pc' = "admit"
  /\ UNCHANGED <<cancelled, overflow, spoke, next, reported>>

-----------------------------------------------------------------------------
(* The results                                                             *)

With(f, rs) == {i \in RootsOf(f) : result[i] \in rs}

\* Mutant: the failure that arrived first stays.
SummaryAsArrived(f) ==
  IF outcome[f].kind = "Completed" /\ With(f, Cancels) # {} THEN Cancelled ELSE outcome[f]

\* The stable summary: the first failure in plan order, with a cancelled test as prior.
Summary(f) ==
  IF With(f, Aborts) # {}
  THEN RunOutcome("Aborted", CHOOSE i \in With(f, Aborts) : \A j \in With(f, Aborts) : i <= j,
                  With(f, Cancels) # {})
  ELSE IF With(f, Cancels) # {} THEN Cancelled ELSE outcome[f]

\* Mutant: the journal is not asked again.
FinalOutcomeComplacent(f) == Summary(f)

\* finish_run(): a journal that could not hold the run aborts it.
FinalOutcome(f) ==
  LET o == Summary(f) IN
  IF f \in overflow
  THEN [kind |-> "Aborted", failure |-> o.failure,
        prior |-> o.prior \/ o.kind = "Cancelled", journal |-> TRUE]
  ELSE o

Finish ==
  /\ pc = "finish" /\ reported < NFiles
  /\ outcome' = [outcome EXCEPT ![reported + 1] = FinalOutcome(reported + 1)]
  /\ reported' = reported + 1
  /\ UNCHANGED <<cancelled, overflow, spoke, available, pending, next, result, pc>>

-----------------------------------------------------------------------------
Driver == Admit \/ SkipTest \/ AdmissionEnds \/ Finish

Next ==
  \/ Driver
  \/ \E f \in Files : CancelControl(f)
  \/ \E p \in pending : Speak(p) \/ Exhaust(p) \/ \E r \in Ran : Complete(p, r)

\* The task is polled, and a root ends: its deadline and the cleanup budgets bound it.
Fairness == WF_vars(Driver) /\ WF_vars(\E p \in pending, r \in Ran : Complete(p, r))

Spec == Init /\ [][Next]_vars
FairSpec == Spec /\ Fairness

-----------------------------------------------------------------------------
(* Properties                                                              *)

Final(f) == f <= reported

\* A worker is free or lent to one root, never both, never lost: no two running
\* tests share a browser session or an application process.
WorkersConserved ==
  /\ \A w \in Workers :
       \/ /\ \E k \in DOMAIN available : available[k] = w
          /\ \A p \in pending : p.worker # w
       \/ /\ \A k \in DOMAIN available : available[k] # w
          /\ \E p \in pending : p.worker = w
  /\ \A p, q \in pending : p.worker = q.worker => p = q
  /\ \A j, k \in DOMAIN available : available[j] = available[k] => j = k

\* No false success: a completed file all of whose executed tests passed skipped none.
GreenRanEverything ==
  \A f \in Files : Final(f) /\ outcome[f].kind = "Completed" =>
    \/ With(f, Skipped \cup {"None"}) = {}
    \/ With(f, {"Failed", "Cancelled"} \cup Aborts) # {}

\* Trouble in one file skips no test of another.
SkippedForItsOwnFile ==
  \A f \in Files : With(f, Skipped) # {} /\ f \notin cancelled \cup overflow =>
    \/ spoke \cap RootsOf(f) # {} \/ With(f, Aborts) # {}
    \/ outcome[f] = RunOutcome("Aborted", 0, FALSE)

\* The verdict on a file does not depend on the order in which its tests ended.
SourceOrdered ==
  \A f \in Files : Final(f) =>
    /\ outcome[f].failure # 0 =>
         /\ result[outcome[f].failure] \in Aborts
         /\ \A i \in With(f, Aborts) : outcome[f].failure <= i
    /\ With(f, Aborts) # {} => outcome[f].failure # 0
    /\ With(f, Cancels) # {} => outcome[f].kind = "Cancelled" \/ outcome[f].prior

\* A cancellation is part of the verdict whether it comes before or after an abort.
CancellationRetained ==
  \A f \in Files : Final(f) /\ With(f, Cancels \cup {"SkippedCancelled"}) # {} =>
    outcome[f].kind = "Cancelled" \/ outcome[f].prior

\* Every file is reported in the end.
AllReported == <>(reported = NFiles)

\* The runner keeps what TestAdmission promises.
Ended(i) == result[i] \in Ran
LentTo(w) == IF \E p \in pending : p.worker = w
             THEN (CHOOSE p \in pending : p.worker = w).root ELSE 0
Admission == INSTANCE TestAdmission WITH
  lent <- [w \in Workers |-> LentTo(w)],
  ran <- {i \in Roots : Ended(i)},
  skipped <- {i \in Roots : result[i] \in Skipped},
  reported <- 1..reported
Refines == Admission!ASpec
=============================================================================
