------------------------------- MODULE MCRunner -------------------------------
(***************************************************************************)
(* The command `webtest test' from the outside in, one part at a time: the *)
(* command over two files and two applications; small tests that are       *)
(* compiled, and bound races that are joined and won; the runner that      *)
(* admits three tests to two workers; a resource scope with deadlines and  *)
(* a larger cleanup budget; the bridge to one application, with two calls  *)
(* of which one is the shutdown; and beside the command `webtest init'     *)
(* over three paths.  The part is chosen at the start and runs alone; the  *)
(* variables of the others keep their initial values.                      *)
(***************************************************************************)
EXTENDS Runner, MCSources, TLC

CONSTANTS f1, f2, a1, a2, s1

\* Two tests in the first file, one in the second; three in one file.
TwoFiles == <<1, 1, 2>>
ThreeTests == <<1, 1, 1>>
FilesInOrder == <<f1, f2>>
PlannedTests == (f1 :> 2) @@ (f2 :> 1)
TwoApplications == <<a1, a2>>
Scaffold == <<"config", "skill", "link">>
Homes == ("config" :> "root") @@ ("skill" :> ".agents") @@ ("link" :> ".claude")

VARIABLES part, source, plan, annotation, provides, race, winner

planVars == <<source, plan>>
raceVars == <<annotation, provides, race, winner>>
nodeVars == <<scopeVars, planVars, raceVars>>
hostVars == <<bridgeVars, commandVars, initVars>>
partVars == <<part, vars, nodeVars, hostVars>>

\* The limit of 128 is scaled down to 12, which the nested tests reach and exceed.
Compiler == INSTANCE PlanCompiler WITH Programs <- SmallTests, MaxBranches <- 2, MaxPath <- 12
Race == INSTANCE RaceResult WITH Types <- RaceTypes, Values <- RaceValues, MaxBranches <- 3

-----------------------------------------------------------------------------
(* Parts                                                                   *)

PartInit ==
  /\ part \in {"jobs", "scope", "source", "race", "bridge", "command", "init"}
  /\ Init /\ Bridge!Init /\ Command!Init /\ Setup!Init /\ Timed!Init /\ Race!Init
  /\ part = "jobs" \/ (cancelled = {} /\ overflow = {} /\ \A f \in Files : outcome[f] = Completed)
  /\ part = "init" \/ (dirs = {} /\ \A p \in DOMAIN content : content[p] = "none")
  /\ part = "scope" \/ deadline[s1] = NoCause
  /\ part = "race" \/ annotation = {}
  /\ IF part = "source" THEN Compiler!Init ELSE source = <<>> /\ plan = Compiler!Uncompiled

InJobs(A) == part = "jobs" /\ A /\ UNCHANGED <<part, nodeVars, hostVars>>
InScope(A) ==
  part = "scope" /\ A /\ UNCHANGED <<part, vars, planVars, raceVars, hostVars>>

PartNext ==
  \/ InJobs(Next)
  \/ InScope(Timed!Next)
  \/ /\ part = "source" /\ Compiler!Compile
     /\ UNCHANGED <<part, vars, scopeVars, raceVars, hostVars>>
  \/ /\ part = "race" /\ Race!Next
     /\ UNCHANGED <<part, vars, scopeVars, planVars, hostVars>>
  \/ part = "bridge" /\ Bridge!Next /\ UNCHANGED <<part, vars, nodeVars, commandVars, initVars>>
  \/ part = "command" /\ Command!Next /\ UNCHANGED <<part, vars, nodeVars, bridgeVars, initVars>>
  \/ part = "init" /\ Setup!Next /\ UNCHANGED <<part, vars, nodeVars, bridgeVars, commandVars>>

\* As in RunnerJobs and ResourceScope, if it runs, and in BridgeClient; a bridge without calls
\* enables nothing.
PartFairness ==
  /\ WF_partVars(InJobs(Driver)) /\ WF_partVars(InJobs(\E p \in pending, r \in Ran : Complete(p, r)))
  /\ SF_partVars(InScope(Timed!Tick)) /\ WF_partVars(InScope(Timed!Step(s1)))
  /\ Bridge!Fairness

PartSpec == PartInit /\ [][PartNext]_partVars /\ PartFairness

-----------------------------------------------------------------------------
\* Every file is reported in the end, every call over the bridge ends although the application
\* never reads nor replies, and a scope that was cancelled returns whatever its host does:
\* see RunnerJobs, BridgeClient and ResourceScope.  What is reached here is never left.
RunsEnd ==
  []<>(/\ part = "jobs" => reported = NFiles
       /\ \A c \in Calls : call[c] \in {"new", "over", "dropped"}
       /\ scopePc[s1] \in {"start", "validated"} \/ cause[s1] = NoCause)

\* A test without a diagnostic makes a tree that is valid and that a run does not stumble
\* over, unless it is too high, which validate() refuses; and a winner of a race that compiles
\* is bound: see PlanCompiler and RaceResult.
AcceptedRuns == Compiler!AcceptedRuns /\ Race!WinnerBinds
=============================================================================
