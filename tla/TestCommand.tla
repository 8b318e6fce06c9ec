------------------------------ MODULE TestCommand ------------------------------
(***************************************************************************)
(* The command `webtest test`: run_test() of                               *)
(* crates/app/src/commands/test.rs, the applications of its workers        *)
(* (worker_applications.rs) and the report it writes (report.rs).          *)
(*                                                                         *)
(* Files are analysed, the applications started one after another, the     *)
(* files without errors run, their results turned into reports, and every  *)
(* application is shut down.  What a run answers is external here: any     *)
(* result that the runner can give (RunnerJobs models it); a test that     *)
(* timed out is a failed one.                                              *)
(***************************************************************************)
EXTENDS Naturals, Sequences, FiniteSets, SequencesExt

CONSTANTS
  Files, Planned,   \* the files in order, and the number of tests each plans
  Applications      \* of the workers, or the single one, in order; or none

VARIABLES
  phase,
  broken,      \* files with static errors
  app,         \* of each application
  startup,     \* the failure of start(), if any
  report,      \* the FileReport of each file
  exit,        \* report.exit_class
  teardowns,   \* warnings "app.teardown"
  answer       \* what the process answers with

\* What the proofs assume.
ConstantsFit ==
  /\ Files \in Seq(Range(Files)) /\ Planned \in [Range(Files) -> Nat]
  /\ Applications \in Seq(Range(Applications))

vars == <<phase, broken, app, startup, report, exit, teardowns, answer>>

None == "none"
Classes == {"Infrastructure", "Internal"}

\* ExitClass: the code orders the classes, combine() takes the greater one.
Code(class) == CASE class = "Success" -> 0 [] class = "TestFailure" -> 1 [] class = "Usage" -> 2
                 [] class = "Infrastructure" -> 3 [] class = "Internal" -> 4
Worst(classes) ==
  IF classes = {} THEN "Success" ELSE CHOOSE c \in classes : \A d \in classes : Code(d) <= Code(c)

\* Mutant: what was found later stands.
CombineLatest(a, b) == IF b = "Success" THEN a ELSE b

Combine(a, b) == Worst({a, b})

-----------------------------------------------------------------------------
(* What a run can answer                                                   *)

Ran == {[outcome |-> o, class |-> None] : o \in {"Passed", "Failed"}}
Stopped == {[outcome |-> o, class |-> None] : o \in {"Cancelled", "Skipped"}}
Lost(class) == {[outcome |-> o, class |-> class] : o \in {"Aborted", "Skipped"}}

Results(f) ==
  LET Of(run, class, tests) ==
        {[run |-> run, class |-> class, overflow |-> over, tests |-> ts] :
           over \in (IF run = "Aborted" THEN BOOLEAN ELSE {FALSE}), ts \in [1..Planned[f] -> tests]}
  IN Of("Completed", None, Ran) \cup Of("Cancelled", None, Ran \cup Stopped)
       \cup UNION {Of("Aborted", class, Ran \cup Lost(class)) : class \in Classes}

-----------------------------------------------------------------------------
(* Reports                                                                 *)

\* test_report()
TestExit(t) ==
  CASE t.outcome = "Passed" -> "Success"
    [] t.outcome \in {"Aborted", "Skipped"} /\ t.class # None -> t.class
    [] OTHER -> "TestFailure"

NoReport == [exit |-> "Success", tests |-> <<>>, error |-> None, outcome |-> None]
StaticReport == [NoReport EXCEPT !.exit = "TestFailure"]
StartupReport == [NoReport EXCEPT !.exit = "Infrastructure", !.error = "Infrastructure"]

Aborted(result) == {i \in DOMAIN result.tests : result.tests[i].outcome = "Aborted"}

\* A run that aborted is told by its aborted tests, or else, and for a journal that
\* overflowed, by an error of the file.
RunReport(result) ==
  [tests |-> result.tests, outcome |-> result.run,
   error |-> IF result.run = "Aborted" /\ (Aborted(result) = {} \/ result.overflow)
             THEN result.class ELSE None,
   exit |-> Combine(CASE result.run = "Completed" -> "Success"
                      [] result.run = "Cancelled" -> "TestFailure"
                      [] OTHER -> result.class,
                    Worst({TestExit(result.tests[i]) : i \in DOMAIN result.tests}))]

-----------------------------------------------------------------------------
(* The command                                                             *)

Init ==
  /\ phase = "analysis" /\ broken = {} /\ app = [a \in Range(Applications) |-> None]
  /\ startup = None /\ report = [f \in Range(Files) |-> NoReport]
  /\ exit = "Success" /\ teardowns = 0 /\ answer = None

Runnable == Range(Files) \ broken

\* A file that cannot be read or analysed ends the command before anything was started; so
\* does a pool that cannot be prepared.
Analyse ==
  /\ phase = "analysis"
  /\ \/ \E bad \in SUBSET Range(Files) :
          /\ broken' = bad /\ answer' = answer
          /\ phase' = IF Runnable' = {} \/ Applications = <<>> THEN "reports" ELSE "starting"
     \/ phase' = "over" /\ answer' \in {"Infrastructure", "Internal", "Usage"} /\ UNCHANGED broken
  /\ UNCHANGED <<app, startup, report, exit, teardowns>>

\* WorkerApplications::start(), RuntimeApplication::start(): the first failure ends it.
StartNext ==
  /\ phase = "starting"
  /\ LET a == Applications[1 + Cardinality({b \in DOMAIN app : app[b] # None})] IN
     \/ /\ app' = [app EXCEPT ![a] = "started"] /\ startup' = startup
        /\ phase' = IF a = Last(Applications) THEN "reports" ELSE phase
     \/ app' = [app EXCEPT ![a] = "failed"] /\ startup' = "Infrastructure" /\ phase' = "reports"
  /\ UNCHANGED <<broken, report, exit, teardowns, answer>>

\* The reports of the files that do not run.
Assemble ==
  /\ phase = "reports"
  /\ report' = [f \in Range(Files) |->
       CASE f \in broken -> StaticReport
         [] f \notin broken /\ startup # None -> StartupReport
         [] OTHER -> NoReport]
  /\ exit' = Worst({"Success"} \cup {report'[f].exit : f \in Range(Files)})
  /\ phase' = "running"
  /\ UNCHANGED <<broken, app, startup, teardowns, answer>>

Judged(f) == report[f].outcome # None
Left == {k \in DOMAIN Files : Files[k] \in Runnable /\ ~Judged(Files[k])}

\* The loop over the results of run_jobs(), in the order of the files.
Judge ==
  /\ phase = "running" /\ startup = None
  /\ \E k \in Left : \E result \in Results(Files[k]) :
       /\ \A j \in Left : k <= j
       /\ report' = [report EXCEPT ![Files[k]] = RunReport(result)]
       /\ exit' = Combine(exit, RunReport(result).exit)
  /\ UNCHANGED <<phase, broken, app, startup, teardowns, answer>>

Judgement ==
  /\ phase = "running" /\ (startup # None \/ Left = {})
  /\ phase' = IF Runnable = {} \/ Applications = <<>> THEN "finish" ELSE "stopping"
  /\ UNCHANGED <<broken, app, startup, report, exit, teardowns, answer>>

\* WorkerApplications::shutdown(): each application, the failed and the unstarted too, and
\* every failure is told.
StopsOf(a) == IF app[a] = "started" THEN {"stopped", "unstoppable"} ELSE {"stopped"}

\* Mutant: the first failure ends the shutdown.
ShutdownToFirstFailure ==
  /\ phase = "stopping" /\ phase' = "finish"
  /\ \E last \in DOMAIN Applications :
       /\ app' = [a \in DOMAIN app |-> IF \E i \in 1..(last - 1) : Applications[i] = a THEN "stopped"
                                       ELSE IF a = Applications[last] THEN "unstoppable" ELSE app[a]]
       /\ teardowns' = 1 /\ exit' = Combine(exit, "Infrastructure")
  /\ UNCHANGED <<broken, startup, report, answer>>

Shutdown ==
  /\ phase = "stopping" /\ phase' = "finish"
  /\ \E stops \in [DOMAIN app -> {"stopped", "unstoppable"}] :
       /\ \A a \in DOMAIN app : stops[a] \in StopsOf(a)
       /\ app' = stops
       /\ teardowns' = Cardinality({a \in DOMAIN app : stops[a] = "unstoppable"})
       /\ exit' = IF teardowns' > 0 THEN Combine(exit, "Infrastructure") ELSE exit
  /\ UNCHANGED <<broken, startup, report, answer>>

\* A progress line, at any time, or the report may not have been written.
Finish ==
  /\ phase = "finish" /\ phase' = "over"
  /\ answer' \in {exit, "Infrastructure"}
  /\ UNCHANGED <<broken, app, startup, report, exit, teardowns>>

Next == Analyse \/ StartNext \/ Assemble \/ Judge \/ Judgement \/ Shutdown \/ Finish

Spec == Init /\ [][Next]_vars

-----------------------------------------------------------------------------
(* What the reporters write                                                *)

Outcomes == {"Passed", "Failed", "Cancelled", "Skipped", "Aborted"}
FileTests(f) == {f} \X DOMAIN report[f].tests
AllTests == UNION {FileTests(f) : f \in Range(Files)}
AllPlanned == UNION {{f} \X (1..Planned[f]) : f \in Range(Files)}
Test(p) == report[p[1]].tests[p[2]]
Tests(outcomes) == Cardinality({p \in AllTests : Test(p).outcome \in outcomes})
Errored == {f \in Range(Files) : report[f].error # None}
StaticCases == {f \in broken : report[f].tests = <<>>}

\* finish()
Summary(class) ==
  Cardinality({f \in Errored : report[f].error = class})
    + Cardinality({p \in AllTests : Test(p).outcome = "Aborted" /\ Test(p).class = class})

\* The attributes of write_junit(), and its elements, file by file.
JunitTests == Tests(Outcomes) + Cardinality(StaticCases) + Cardinality(Errored)
JunitFailures == Tests({"Failed"}) + Cardinality(StaticCases)
JunitErrors == Tests({"Aborted"}) + Cardinality(Errored)
JunitSkipped == Tests({"Cancelled", "Skipped"})
JunitRed == JunitFailures + JunitErrors + JunitSkipped > 0

-----------------------------------------------------------------------------
(* Properties                                                              *)

\* The exit class tells the worst that happened: it is a success exactly when every file was
\* clean, every test passed and every application came and went, an infrastructure or an
\* internal error is never lowered to a test failure, and the reporters agree with it, but
\* for a teardown, which only the warnings tell.
ExitHonest ==
  phase \in {"finish", "over"} /\ answer \in {None, exit} =>
    /\ exit = "Success" <=>
         /\ broken = {} /\ startup = None /\ teardowns = 0
         /\ Tests({"Passed"}) = Cardinality(AllPlanned)
         /\ \A f \in Range(Files) : report[f].outcome = "Completed"
    /\ \A class \in Classes : Summary(class) > 0 => Code(exit) >= Code(class)
    /\ exit # "Success" /\ teardowns = 0 => JunitRed \/ \E f \in Range(Files) : report[f].outcome = "Cancelled"
    /\ JunitRed => exit # "Success"

\* However the command ends, no application it started is left running unless its shutdown
\* failed, which is then told.
ApplicationsStopped ==
  phase = "over" =>
    /\ \A a \in DOMAIN app : app[a] \notin {"started", "failed"}
    /\ teardowns = Cardinality({a \in DOMAIN app : app[a] = "unstoppable"})
=============================================================================
