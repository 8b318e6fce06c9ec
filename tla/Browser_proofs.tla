--------------------------- MODULE Browser_proofs ---------------------------
(***************************************************************************)
(* Proofs about SiblingScheduler for any non-empty set of children and any *)
(* causes of the parent token, and about what the branches drive: the      *)
(* connection for any commands, sessions and queue, a page for any frames  *)
(* and loads, the start and the end of a Chrome, and the installations of  *)
(* any number of processes.                                                *)
(***************************************************************************)
EXTENDS Browser, FiniteSetTheorems, TLAPS

-----------------------------------------------------------------------------
(* The inductive invariant                                                 *)

\* A completion in hand is new; one about to cancel the losers is a clean success.
InHand ==
  /\ pc \in {"complete", "losers"} => current \in Children \ completed /\ result[current] # None
  /\ pc = "losers" => result[current] = "Passed" /\ current \notin reported /\ winner = current

\* The scheduler knows of every failure it has handled, and makes none up.
HealthInv ==
  /\ noticed # {} => unhealthy
  /\ \A c \in completed : (c \in reported \/ result[c] \in Broken) => unhealthy
  /\ unhealthy => \E c \in Children : c \in reported \/ result[c] \in Broken

\* A winner passed a race in which nobody is known to have failed.
WinnerInv == winner # None =>
  policy = "FirstSuccess" /\ result[winner] = "Passed" /\ ~unhealthy

\* Nobody wins a race that has told a child it lost, unless it holds the winner.
RaceOver == \A c \in Children : cause[c] = "RaceLost" => winner # None \/ unhealthy

\* The first success of a healthy, uncancelled race was awarded.
Awarded ==
  policy = "FirstSuccess" /\ parent = None /\ ~unhealthy =>
    \A c \in completed : result[c] = "Passed" => winner # None

\* What schedule() and concurrent_node() returned fits the locals they saw.
FinalInv == pc = "returned" =>
  /\ completed = Children
  /\ final # None => final = winner /\ parent = None /\ outcome \in {"Passed", "Internal"}
  /\ final = None => Worst(outcome) /\ (parent = None => winner = None)

Inv == TypeOK /\ InHand /\ HealthInv /\ WinnerInv /\ RaceOver /\ CancelledForAReason
         /\ Awarded /\ FinalInv

-----------------------------------------------------------------------------
(* Initially, and by the steps of tokens and children                      *)

\* The scheduler starts within the invariant.
LEMMA InitInv == Init => Inv
  BY NoneAssumption
  DEF Init, Inv, TypeOK, InHand, HealthInv, WinnerInv, RaceOver, CancelledForAReason, Awarded,
      FinalInv, Broken, Completions

\* A stutter changes nothing.
LEMMA StutterInv == Inv /\ UNCHANGED vars => Inv'
  BY DEF vars, tokenVars, loopVars, Inv, TypeOK, InHand, HealthInv, WinnerInv, RaceOver,
         CancelledForAReason, Awarded, FinalInv, Worst, Broken, Completions

\* Cancelling the parent's token awards nothing and blames nobody.
LEMMA CancelParentInv ==
  ASSUME Inv, NEW k \in Causes, CancelParent(k)
  PROVE  Inv'
  BY CausesAssumption
  DEF CancelParent, loopVars, Inv, TypeOK, InHand, HealthInv, WinnerInv, RaceOver,
      CancelledForAReason, Awarded, FinalInv, Broken, Completions

\* The parent's cause is neither of the scheduler's own.
LEMMA PropagateInv ==
  ASSUME Inv, NEW c \in Children, Propagate(c)
  PROVE  Inv'
  BY CausesAssumption
  DEF Propagate, Cancelled, loopVars, Inv, TypeOK, InHand, HealthInv, WinnerInv, RaceOver,
      CancelledForAReason, Awarded, FinalInv, Worst, Broken, Completions

\* A report comes from a child that has not finished, between completions.
LEMMA ReportInv ==
  ASSUME Inv, NEW c \in Children, Report(c)
  PROVE  Inv'
  BY DEF Report, tokenVars, loopVars, Inv, TypeOK, InHand, HealthInv, WinnerInv, RaceOver,
      CancelledForAReason, Awarded, FinalInv, Broken, Completions

\* A result comes into the scheduler's hand and alters no other.
LEMMA FinishInv ==
  ASSUME Inv, NEW c \in Children, NEW r \in Completions, Finish(c, r)
  PROVE  Inv'
<1> USE DEF Inv, TypeOK
<1>1. /\ result[c] = None /\ result' = [result EXCEPT ![c] = r] /\ r # None
      /\ c \notin completed /\ pc = "children" /\ pc' = "complete" /\ current' = c
      /\ UNCHANGED <<policy, parent, untold, cause, reported, noticed, completed, winner,
                     unhealthy, final, outcome>>
  BY NoneAssumption DEF Finish, tokenVars, loopVars, Completions, Broken, HealthInv
<1> QED
  BY <1>1, NoneAssumption
  DEF InHand, HealthInv, WinnerInv, RaceOver, CancelledForAReason, Awarded, FinalInv, Broken,
      Completions

-----------------------------------------------------------------------------
(* The steps of the scheduler                                              *)

\* Breaking the node up for children that did fail leaves nothing to award and
\* blames the siblings' cancellation on those children.
LEMMA BreakUpInv ==
  ASSUME Inv, NEW failed, failed # {}, BreakUp(failed),
         \A f \in failed : f \in Children /\ (f \in reported \/ result[f] \in Broken),
         pc # "losers", pc # "returned", pc' = "notices",
         UNCHANGED <<policy, parent, untold, reported, result, current, final, outcome>>,
         noticed' \in SUBSET reported,
         completed' \in SUBSET {c \in Children : result[c] # None}
  PROVE  Inv'
<1> USE DEF Inv, TypeOK, BreakUp
<1>1. TypeOK'
  BY DEF Cancelled
<1>2. InHand' /\ HealthInv' /\ WinnerInv' /\ RaceOver' /\ Awarded' /\ FinalInv'
  BY DEF InHand, HealthInv, WinnerInv, RaceOver, Awarded, FinalInv
<1>3. CancelledForAReason'
  <2> SUFFICES ASSUME NEW c \in Children
               PROVE  /\ cause'[c] = "RaceLost" =>
                           c # winner' /\ \E d \in Children \ {c} : result'[d] = "Passed"
                      /\ cause'[c] = "ParentFailed" =>
                           \E d \in Children \ {c} : d \in reported' \/ result'[d] \in Broken
    BY DEF CancelledForAReason
  <2>1. CASE cause'[c] = cause[c]
    BY <2>1, NoneAssumption DEF CancelledForAReason
  <2>2. CASE cause'[c] # cause[c]
    <3>1. cause'[c] = "ParentFailed" /\ c \in Siblings(failed)
      BY <2>2 DEF Cancelled
    <3> QED
      BY <3>1 DEF Siblings
  <2> QED
    BY <2>1, <2>2
<1> QED
  BY <1>1, <1>2, <1>3

\* A notice breaks the node up for the child that reported.
LEMMA NoticeInv ==
  ASSUME Inv, NEW c \in Children, Notice(c)
  PROVE  Inv'
<1>1. /\ \A f \in {c} : f \in Children /\ (f \in reported \/ result[f] \in Broken)
      /\ pc = "notices" /\ pc' = "notices"
      /\ UNCHANGED <<policy, parent, untold, reported, result, current, final, outcome, completed>>
      /\ BreakUp({c})
  BY DEF Notice
<1>2. noticed' \in SUBSET reported
  BY DEF Notice, Inv, TypeOK
<1>3. completed' \in SUBSET {d \in Children : result[d] # None}
  BY <1>1 DEF Inv, TypeOK
<1> QED
  BY <1>1, <1>2, <1>3, BreakUpInv

\* Turning from the notices to the children and back decides nothing.
LEMMA PollInv == Inv /\ (PollChildren \/ ChildrenPending) => Inv'
  BY DEF PollChildren, ChildrenPending, tokenVars, loopVars, Inv, TypeOK, InHand, HealthInv,
         WinnerInv, RaceOver, CancelledForAReason, Awarded, FinalInv, Broken, Completions

\* A completion breaks the node up, wins the race or is just counted.
LEMMA CompleteInv ==
  ASSUME Inv, Complete
  PROVE  Inv'
<1> USE DEF Complete
<1>1. CASE Failed # {}
  <2>1. /\ BreakUp(Failed) /\ pc = "complete" /\ pc' = "notices"
        /\ completed' = completed \cup {current}
        /\ UNCHANGED <<policy, parent, untold, reported, noticed, result, current, final, outcome>>
    BY <1>1
  <2>2. \A f \in Failed : f \in Children /\ (f \in reported \/ result[f] \in Broken)
    BY <2>1 DEF Failed, Inv, TypeOK, InHand
  <2>3. completed' \in SUBSET {c \in Children : result[c] # None} /\ noticed' \in SUBSET reported
    BY <2>1 DEF Inv, TypeOK, InHand
  <2> QED
    BY <1>1, <2>1, <2>2, <2>3, BreakUpInv
<1>2. CASE Failed = {} /\ Wins
  <2>1. /\ result[current] = "Passed" /\ winner = None /\ ~unhealthy /\ policy = "FirstSuccess"
        /\ winner' = current /\ pc = "complete" /\ pc' = "losers" /\ current \in Children
        /\ current \notin reported /\ current \notin completed
        /\ UNCHANGED <<cause, unhealthy, completed, policy, parent, untold, reported, noticed,
                       result, current, final, outcome>>
    BY <1>2 DEF Failed, Wins, Inv, TypeOK, InHand
  <2>2. CancelledForAReason'
    BY <2>1 DEF Inv, CancelledForAReason, RaceOver, Broken
  <2>3. TypeOK' /\ InHand' /\ HealthInv' /\ WinnerInv' /\ RaceOver' /\ Awarded' /\ FinalInv'
    BY <2>1, NoneAssumption
    DEF Inv, TypeOK, InHand, HealthInv, WinnerInv, RaceOver, Awarded, FinalInv, Broken
  <2> QED
    BY <2>2, <2>3 DEF Inv
<1>3. CASE Failed = {} /\ ~Wins
  <2>1. /\ result[current] \notin Broken /\ current \notin reported
        /\ pc = "complete" /\ pc' = "notices" /\ current \in Children /\ result[current] # None
        /\ completed' = completed \cup {current}
        /\ UNCHANGED <<cause, winner, unhealthy, policy, parent, untold, reported, noticed,
                       result, current, final, outcome>>
    BY <1>3 DEF Failed, Inv, TypeOK, InHand
  <2>2. Awarded'
    BY <1>3, <2>1 DEF Inv, Wins, Awarded
  <2>3. TypeOK' /\ InHand' /\ HealthInv' /\ WinnerInv' /\ RaceOver' /\ CancelledForAReason'
          /\ FinalInv'
    BY <2>1
    DEF Inv, TypeOK, InHand, HealthInv, WinnerInv, RaceOver, CancelledForAReason, FinalInv, Broken
  <2> QED
    BY <2>2, <2>3 DEF Inv
<1> QED
  BY <1>1, <1>2, <1>3

\* The losers are cancelled for the sake of the child that passed.
LEMMA CancelLosersInv ==
  ASSUME Inv, CancelLosers
  PROVE  Inv'
<1>1. /\ winner = current /\ result[current] = "Passed" /\ current \in Children
      /\ current \notin reported /\ winner # None
      /\ pc = "losers" /\ pc' = "notices" /\ completed' = completed \cup {current}
      /\ cause' = Cancelled(Siblings({current}), "RaceLost")
      /\ UNCHANGED <<policy, parent, untold, reported, noticed, result, winner, unhealthy, current,
                     final, outcome>>
  BY NoneAssumption DEF CancelLosers, Inv, TypeOK, InHand
<1>2. TypeOK' /\ InHand' /\ HealthInv' /\ WinnerInv' /\ RaceOver' /\ Awarded' /\ FinalInv'
  BY <1>1, NoneAssumption
  DEF Cancelled, Inv, TypeOK, InHand, HealthInv, WinnerInv, RaceOver, Awarded, FinalInv, Broken
<1>3. CancelledForAReason'
  BY <1>1 DEF Cancelled, Siblings, Inv, TypeOK, CancelledForAReason
<1> QED
  BY <1>2, <1>3 DEF Inv

\* What is returned is computed from the locals.
LEMMA ReturnInv ==
  ASSUME Inv, NEW bound \in BOOLEAN, Return(bound)
  PROVE  Inv'
<1>1. /\ pc = "notices" /\ pc' = "returned" /\ completed = Children
      /\ final' = IF parent = None THEN winner ELSE None
      /\ UNCHANGED <<policy, parent, untold, cause, reported, noticed, result, completed, winner,
                     unhealthy, current>>
  BY DEF Return, Filtered, tokenVars, loopVars
<1>2. \/ final' # None /\ outcome' \in {"Passed", "Internal"}
      \/ final' = None /\ outcome' \in Completions /\ Worst(outcome')
  BY DEF Return
<1>3. Worst(outcome') => Worst(outcome)'
  BY <1>1 DEF Worst
<1>4. FinalInv'
  BY <1>1, <1>2, <1>3 DEF FinalInv
<1>5. TypeOK' /\ InHand' /\ HealthInv' /\ WinnerInv' /\ RaceOver' /\ Awarded' /\ CancelledForAReason'
  BY <1>1, <1>2
  DEF Inv, TypeOK, InHand, HealthInv, WinnerInv, RaceOver, Awarded, CancelledForAReason, Broken,
      Completions
<1> QED
  BY <1>4, <1>5 DEF Inv

\* Every step keeps the invariant.
LEMMA StepInv == Inv /\ [Next]_vars => Inv'
  BY StutterInv, CancelParentInv, PropagateInv, ReportInv, FinishInv, NoticeInv, PollInv,
     CompleteInv, CancelLosersInv, ReturnInv
  DEF Next, Loop

-----------------------------------------------------------------------------
(* The results                                                             *)

\* Everything below follows from it.
THEOREM Invariance == Spec => []Inv
  BY InitInv, StepInv, PTL DEF Spec

\* Type correctness of the scheduler.
THEOREM TypeCorrect == Spec => []TypeOK
  BY Invariance, PTL DEF Inv

\* The scheduler cancels a child only for another's sake and never its winner.
THEOREM CancellationsJustified == Spec => []CancelledForAReason
  BY Invariance, PTL DEF Inv

\* Nobody wins a race in which a child reported a failure or was torn down badly.
THEOREM WinnersHealthy == Spec => []HealthyWinner
<1>1. Inv => HealthyWinner
  <2> SUFFICES ASSUME Inv, pc = "returned", final # None PROVE HealthyWinner
    BY DEF HealthyWinner
  <2>1. winner = final /\ completed = Children /\ parent = None
    BY DEF Inv, FinalInv
  <2>2. policy = "FirstSuccess" /\ result[final] = "Passed" /\ ~unhealthy
    BY <2>1 DEF Inv, WinnerInv
  <2>3. \A c \in Children : c \notin reported /\ result[c] \notin Broken
    BY <2>1, <2>2 DEF Inv, HealthInv
  <2>4. \A c \in Children : result[c] \in Completions
    BY <2>1 DEF Inv, TypeOK
  <2>5. reported = {}
    BY <2>3 DEF Inv, TypeOK
  <2> QED
    BY <2>1, <2>2, <2>3, <2>4, <2>5 DEF HealthyWinner, Completions, Broken
<1> QED
  BY <1>1, Invariance, PTL

\* How bad a completion is.
LEMMA SeverityOrder ==
  /\ Severity["Passed"] = 0 /\ Severity["Cancelled"] = 1 /\ Severity["Test"] = 2
  /\ Severity["Infrastructure"] = 3 /\ Severity["Internal"] = 4
  BY DEF Severity, Completions, Broken

\* A node that passed should have, and no failure that is not a test's is outvoted.
THEOREM FailuresReported == Spec => []NothingHidden
<1>1. Inv => NothingHidden
  <2> SUFFICES ASSUME Inv, pc = "returned" PROVE NothingHidden
    BY DEF NothingHidden
  <2>1. \A c \in Children : result[c] \in Completions
    BY DEF Inv, TypeOK, FinalInv
  <2>2. CASE final # None
    <3>1. outcome \in {"Passed", "Internal"} /\ winner = final /\ completed = Children
      BY <2>2 DEF Inv, FinalInv
    <3>2. \A c \in Children : result[c] \notin Broken
      BY <2>2, <3>1 DEF Inv, WinnerInv, HealthInv
    <3> QED
      BY <2>2, <3>1, <3>2 DEF NothingHidden
  <2>3. CASE final = None
    <3>1. /\ outcome \in {"Passed"} \cup {result[c] : c \in Children}
          /\ \A c \in Children : Severity[result[c]] <= Severity[outcome]
      BY <2>3 DEF Inv, FinalInv, Worst
    <3>2. outcome \in Completions
      BY <2>1, <3>1 DEF Completions
    <3>3. (\E c \in Children : result[c] \in Broken) => outcome \in Broken
      BY <2>1, <3>1, <3>2, SeverityOrder DEF Completions, Broken
    <3>4. ASSUME outcome = "Passed" PROVE \A c \in Children : result[c] = "Passed"
      <4> SUFFICES ASSUME NEW c \in Children PROVE result[c] = "Passed"
        OBVIOUS
      <4>1. Severity[result[c]] <= 0
        BY <3>1, <3>4, SeverityOrder
      <4> QED
        BY <2>1, <4>1, SeverityOrder DEF Completions, Broken
    <3>5. ASSUME outcome = "Passed", policy # "All", parent = None PROVE reported # {}
      <4>1. policy = "FirstSuccess" /\ winner = None /\ completed = Children
        BY <2>3, <3>5 DEF Inv, TypeOK, FinalInv
      <4>2. unhealthy
        BY <3>4, <3>5, <4>1, ChildrenAssumption DEF Inv, Awarded
      <4> QED
        BY <3>4, <3>5, <4>2 DEF Inv, HealthInv, Broken
    <3> QED
      BY <3>3, <3>4, <3>5 DEF NothingHidden
  <2> QED
    BY <2>2, <2>3
<1> QED
  BY <1>1, Invariance, PTL

\* A winner may be taken back, never replaced.
THEOREM NoSecondWinner == Spec => WinnerNeverReplaced
<1>1. Inv /\ [Next]_vars => [winner # None /\ winner' # winner => winner' = None /\ unhealthy']_vars
  <2> SUFFICES ASSUME Next, winner # None, winner' # winner PROVE winner' = None /\ unhealthy'
    OBVIOUS
  <2>1. ASSUME NEW c \in Children, Notice(c) PROVE winner' = None /\ unhealthy'
    BY <2>1 DEF Notice, BreakUp
  <2>2. ASSUME Complete PROVE winner' = None /\ unhealthy'
    BY <2>2 DEF Complete, BreakUp, Wins
  <2>3. ASSUME \/ PollChildren \/ ChildrenPending \/ CancelLosers
               \/ \E bound \in BOOLEAN : Return(bound)
               \/ \E k \in Causes : CancelParent(k)
               \/ \E c \in Children : \/ Propagate(c) \/ Report(c)
                                      \/ \E r \in Completions : Finish(c, r)
        PROVE FALSE
    BY <2>3
    DEF PollChildren, ChildrenPending, CancelLosers, Return, CancelParent, Propagate, Report,
      Finish,
        loopVars
  <2> QED
    BY <2>1, <2>2, <2>3 DEF Next, Loop
<1> QED
  BY <1>1, Invariance, PTL DEF Spec, WinnerNeverReplaced

-----------------------------------------------------------------------------
(* CdpConnection: commands and their answers                               *)

CdpTypes ==
  /\ slot \in [Commands -> Cdp!Answers \cup {Cdp!NoCommand}] /\ answer \in [Commands -> Cdp!Answers \cup {Cdp!NoCommand}]
  /\ actor \in {"select", "writing", "ending", "ended"}
  /\ terminal \in {Cdp!NoCommand, Cdp!Failed("Disconnected"), Cdp!Failed("Malformed")}
  /\ channel \in Seq(Commands)

\* Ids are given once, and what Chrome was asked under an id is what is pending there, if
\* anything is.
Correlation ==
  /\ nextId \in Nat \ {0}
  /\ DOMAIN pending \subseteq 1..(nextId - 1) /\ \A i \in DOMAIN pending : pending[i] \in Commands
  /\ actor = "writing" => writing \in DOMAIN pending
  /\ \A r \in asked : /\ r.id \in 1..(nextId - 1) /\ r.command \in Commands
                      /\ r.id \in DOMAIN pending => pending[r.id] = r.command

\* What an oneshot or a caller may hold of a command.
IsTrue(c, a) ==
  /\ a.kind = "Result" => a = Cdp!Result(c, SessionOf[c])
  /\ a.kind = "CommandTimeout" => c \in due
  /\ a.kind = "Disconnected" => terminal # Cdp!NoCommand

AnswersTrue ==
  /\ \A c \in Commands : IsTrue(c, slot[c]) /\ IsTrue(c, answer[c])
  /\ actor \in {"ending", "ended"} => terminal # Cdp!NoCommand
  /\ actor \in {"select", "writing"} => terminal = Cdp!NoCommand

CdpInv == CdpTypes /\ Correlation /\ AnswersTrue

LEMMA IsTrueStays ==
  ASSUME due \subseteq due', terminal # Cdp!NoCommand => terminal' # Cdp!NoCommand,
         NEW c, NEW x, IsTrue(c, x)
  PROVE  IsTrue(c, x)'
BY DEF IsTrue

LEMMA CallerKept ==
  ASSUME Cdp!ConstantsFit, CdpInv, NEW c \in Commands,
         Cdp!Begin(c) \/ Cdp!Calling(c) \/ Cdp!Drop(c) \/ Cdp!Expire(c)
  PROVE  CdpInv'
<1>0. UNCHANGED <<slot, Cdp!actorVars>> /\ due \subseteq due'
  BY DEF Cdp!Begin, Cdp!Calling, Cdp!Send, Cdp!SendFails, Cdp!Receive, Cdp!Drop, Cdp!Expire
<1>1. channel' \in Seq(Commands)
  BY DEF CdpInv, CdpTypes, Cdp!Begin, Cdp!Calling, Cdp!Send, Cdp!SendFails, Cdp!Receive, Cdp!Drop,
    Cdp!Expire
<1>2. \/ answer' = answer
      \/ \E a \in Cdp!Answers \cup {Cdp!NoCommand} : answer' = [answer EXCEPT ![c] = a] /\ IsTrue(c, a)
  <2>1. CASE Cdp!SendFails(c)
    <3>1. /\ actor = "ended" => Cdp!Failed("Disconnected") \in Cdp!Answers /\ IsTrue(c, Cdp!Failed("Disconnected"))
          /\ c \in due => Cdp!Failed("CommandTimeout") \in Cdp!Answers /\ IsTrue(c, Cdp!Failed("CommandTimeout"))
      BY DEF CdpInv, AnswersTrue, IsTrue, Cdp!Failed, Cdp!Answers, Cdp!Ends
    <3> QED
      BY <2>1, <3>1 DEF Cdp!SendFails, Cdp!Return
  <2>2. CASE Cdp!Receive(c)
    BY <2>2 DEF Cdp!Receive, Cdp!Return, CdpInv, CdpTypes, AnswersTrue
  <2>3. CASE Cdp!Begin(c) \/ Cdp!Send(c) \/ Cdp!Drop(c) \/ Cdp!Expire(c)
    BY <2>3 DEF Cdp!Begin, Cdp!Send, Cdp!Drop, Cdp!Expire
  <2> QED
    BY <2>1, <2>2, <2>3 DEF Cdp!Calling
<1>3. CdpTypes'
  BY <1>0, <1>1, <1>2 DEF CdpInv, CdpTypes, Cdp!actorVars
<1>4. Correlation'
  BY <1>0 DEF CdpInv, Correlation, Cdp!actorVars
<1>5. \A d \in Commands : IsTrue(d, slot[d]) /\ IsTrue(d, answer'[d])
  BY <1>2 DEF CdpInv, CdpTypes, AnswersTrue
<1>6. AnswersTrue'
  <2>1. ASSUME NEW d \in Commands
        PROVE  IsTrue(d, slot[d])' /\ IsTrue(d, answer[d])'
    BY <1>0, <1>5 DEF IsTrue, Cdp!actorVars
  <2> QED
    BY <1>0, <2>1 DEF CdpInv, AnswersTrue, Cdp!actorVars
<1> QED
  BY <1>3, <1>4, <1>6 DEF CdpInv

LEMMA WriteKept ==
  ASSUME Cdp!ConstantsFit, CdpInv, Cdp!Take \/ Cdp!Writing \/ Cdp!Break
  PROVE  CdpInv'
<1>1. CASE Cdp!Take
  <2>1. channel' \in Seq(Commands) /\ Head(channel) \in Commands
    BY <1>1 DEF Cdp!Take, CdpInv, CdpTypes
  <2>2. CdpTypes'
    BY <1>1, <2>1 DEF Cdp!Take, CdpInv, CdpTypes, Cdp!callerVars
  <2>3. Correlation'
    BY <1>1, <2>1 DEF Cdp!Take, CdpInv, Correlation
  <2>4. AnswersTrue'
    BY <1>1 DEF Cdp!Take, CdpInv, AnswersTrue, IsTrue, Cdp!callerVars
  <2> QED
    BY <2>2, <2>3, <2>4 DEF CdpInv
<1>2. CASE Cdp!WriteEnds
  <2>1. CdpTypes'
    BY <1>2 DEF Cdp!WriteEnds, CdpInv, CdpTypes, Cdp!callerVars
  <2>2. Correlation'
    BY <1>2 DEF Cdp!WriteEnds, Cdp!Request, CdpInv, Correlation
  <2>3. AnswersTrue'
    BY <1>2 DEF Cdp!WriteEnds, CdpInv, AnswersTrue, IsTrue, Cdp!callerVars
  <2> QED
    BY <2>1, <2>2, <2>3 DEF CdpInv
<1>3. CASE Cdp!WriteTimesOut
  <2>0. writing \in DOMAIN pending /\ pending[writing] \in Commands /\ pending[writing] \in due
    BY <1>3 DEF Cdp!WriteTimesOut, CdpInv, Correlation
  <2>1. Cdp!Failed("CommandTimeout") \in Cdp!Answers
    BY DEF Cdp!Answers, Cdp!Ends
  <2>2. CdpTypes'
    BY <1>3, <2>0, <2>1 DEF Cdp!WriteTimesOut, CdpInv, CdpTypes, Cdp!callerVars
  <2>3. Correlation'
    BY <1>3 DEF Cdp!WriteTimesOut, Cdp!Request, CdpInv, Correlation, Cdp!Without, Cdp!Restrict
  <2>4. IsTrue(pending[writing], Cdp!Failed("CommandTimeout"))
    BY <2>0 DEF IsTrue, Cdp!Failed
  <2>5. AnswersTrue'
    BY <1>3, <2>0, <2>4 DEF Cdp!WriteTimesOut, CdpInv, CdpTypes, AnswersTrue, IsTrue, Cdp!callerVars
  <2> QED
    BY <2>2, <2>3, <2>5 DEF CdpInv
<1>4. CASE Cdp!Break
  <2>1. CdpTypes'
    BY <1>4 DEF Cdp!Break, CdpInv, CdpTypes, Cdp!callerVars
  <2>2. Correlation'
    BY <1>4 DEF Cdp!Break, CdpInv, Correlation
  <2>3. AnswersTrue'
    BY <1>4 DEF Cdp!Break, CdpInv, AnswersTrue, IsTrue, Cdp!callerVars, Cdp!NoCommand, Cdp!Failed
  <2> QED
    BY <2>1, <2>2, <2>3 DEF CdpInv
<1> QED
  BY <1>1, <1>2, <1>3, <1>4 DEF Cdp!Writing

\* Where the actor answers and takes out of its table.
LEMMA AnswerKept ==
  ASSUME Cdp!ConstantsFit, CdpInv, UNCHANGED <<Cdp!callerVars, terminal, nextId, asked>>, channel' \in Seq(Commands),
         actor' \in {"select", "ending", "ended"}, actor' = actor \/ actor \in {"writing", "ending"},
         actor' = "select" => terminal = Cdp!NoCommand, actor' # "select" => terminal # Cdp!NoCommand,
         NEW ids, pending' = Cdp!Without(pending, ids),
         slot' \in [Commands -> Cdp!Answers \cup {Cdp!NoCommand}], \A c \in Commands : IsTrue(c, slot'[c])
  PROVE  CdpInv'
<1>1. CdpTypes'
  BY DEF CdpInv, CdpTypes, Cdp!callerVars
<1>2. Correlation'
  BY DEF CdpInv, Correlation, Cdp!Without, Cdp!Restrict
<1>3. AnswersTrue'
  BY DEF CdpInv, AnswersTrue, IsTrue, Cdp!callerVars
<1> QED
  BY <1>1, <1>2, <1>3 DEF CdpInv

LEMMA RespondKept ==
  ASSUME Cdp!ConstantsFit, CdpInv, NEW r \in asked, NEW s \in Sessions, NEW body \in {"result", "error", "neither"},
         Cdp!Respond(r, s, body)
  PROVE  CdpInv'
<1>1. /\ r.id \in DOMAIN pending /\ pending[r.id] = r.command /\ r.command \in Commands /\ actor = "select"
      /\ SessionOf[r.command] \in Sessions
  BY DEF Cdp!Respond, CdpInv, Correlation, Cdp!ConstantsFit
<1> DEFINE a == Cdp!Correlated(r, s, body)
<1>2. a \in Cdp!Answers /\ IsTrue(r.command, a)
  <2>1. CASE s = SessionOf[r.command] /\ body = "result"
    <3>1. a = Cdp!Result(r.command, SessionOf[r.command])
      BY <1>1, <2>1 DEF Cdp!Correlated
    <3> QED
      BY <1>1, <3>1 DEF Cdp!Answers, IsTrue, Cdp!Result
  <2>2. CASE ~(s = SessionOf[r.command] /\ body = "result")
    <3>1. a \in {Cdp!Failed("Malformed"), Cdp!Failed("Protocol")}
      BY <1>1, <2>2 DEF Cdp!Correlated
    <3>2. a \in Cdp!Answers
      BY <3>1 DEF Cdp!Answers, Cdp!Ends
    <3>3. a.kind \in {"Malformed", "Protocol"}
      BY <3>1 DEF Cdp!Failed
    <3> QED
      BY <3>2, <3>3 DEF IsTrue
  <2> QED
    BY <2>1, <2>2
<1> HIDE DEF a
<1>3. slot' = [slot EXCEPT ![r.command] = a]
  BY <1>1 DEF Cdp!Respond, a
<1>4. slot' \in [Commands -> Cdp!Answers \cup {Cdp!NoCommand}] /\ \A c \in Commands : IsTrue(c, slot'[c])
  BY <1>1, <1>2, <1>3 DEF CdpInv, CdpTypes, AnswersTrue
<1>5. terminal = Cdp!NoCommand /\ channel' \in Seq(Commands) /\ pending' = Cdp!Without(pending, {r.id})
  BY <1>1 DEF Cdp!Respond, CdpInv, CdpTypes, AnswersTrue
<1> QED
  BY <1>1, <1>4, <1>5, AnswerKept DEF Cdp!Respond

LEMMA SweepKept ==
  ASSUME Cdp!ConstantsFit, CdpInv, Cdp!Sweep
  PROVE  CdpInv'
<1>1. Cdp!Failed("CommandTimeout") \in Cdp!Answers /\ \A c \in due : IsTrue(c, Cdp!Failed("CommandTimeout"))
  BY DEF Cdp!Answers, Cdp!Ends, IsTrue, Cdp!Failed
<1>2. \A c \in Commands : slot'[c] = slot[c] \/ (slot'[c] = Cdp!Failed("CommandTimeout") /\ c \in due)
  BY DEF Cdp!Sweep, Cdp!Expired
<1>3. slot' \in [Commands -> Cdp!Answers \cup {Cdp!NoCommand}] /\ \A c \in Commands : IsTrue(c, slot'[c])
  BY <1>1, <1>2 DEF CdpInv, CdpTypes, AnswersTrue, Cdp!Sweep
<1>4. terminal = Cdp!NoCommand /\ channel' \in Seq(Commands) /\ pending' = Cdp!Without(pending, Cdp!Expired)
  BY DEF Cdp!Sweep, CdpInv, CdpTypes, AnswersTrue
<1> QED
  BY <1>3, <1>4, AnswerKept DEF Cdp!Sweep

LEMMA EndingKept ==
  ASSUME Cdp!ConstantsFit, CdpInv, Cdp!Ending
  PROVE  CdpInv'
<1>1. actor = "ending" /\ terminal # Cdp!NoCommand
  BY DEF Cdp!Ending, Cdp!ActorEnds, Cdp!AnswerPending, CdpInv, AnswersTrue
<1>2. /\ terminal \in Cdp!Answers /\ \A c \in Commands : IsTrue(c, terminal)
      /\ Cdp!Failed("Disconnected") \in Cdp!Answers /\ \A c \in Commands : IsTrue(c, Cdp!Failed("Disconnected"))
  BY <1>1 DEF CdpInv, CdpTypes, Cdp!Answers, Cdp!Ends, IsTrue, Cdp!Failed
<1>3. ASSUME NEW i \in DOMAIN pending, Cdp!AnswerPending(i)
      PROVE  CdpInv'
  <2>1. pending[i] \in Commands /\ slot' = [slot EXCEPT ![pending[i]] = terminal]
    BY <1>3 DEF Cdp!AnswerPending, CdpInv, Correlation
  <2>2. slot' \in [Commands -> Cdp!Answers \cup {Cdp!NoCommand}] /\ \A c \in Commands : IsTrue(c, slot'[c])
    BY <1>2, <2>1 DEF CdpInv, CdpTypes, AnswersTrue
  <2>3. channel' \in Seq(Commands) /\ pending' = Cdp!Without(pending, {i})
    BY <1>3 DEF Cdp!AnswerPending, CdpInv, CdpTypes
  <2> QED
    BY <1>1, <1>3, <2>2, <2>3, AnswerKept DEF Cdp!AnswerPending
<1>4. CASE Cdp!ActorEnds
  <2>1. slot' \in [Commands -> Cdp!Answers \cup {Cdp!NoCommand}] /\ \A c \in Commands : IsTrue(c, slot'[c])
    BY <1>2, <1>4 DEF Cdp!ActorEnds, CdpInv, CdpTypes, AnswersTrue
  <2>2. CdpTypes' /\ Correlation'
    BY <1>4, <2>1 DEF Cdp!ActorEnds, CdpInv, CdpTypes, Correlation, Cdp!callerVars
  <2>3. AnswersTrue'
    BY <1>1, <1>4, <2>1 DEF Cdp!ActorEnds, CdpInv, AnswersTrue, IsTrue, Cdp!callerVars
  <2> QED
    BY <2>2, <2>3 DEF CdpInv
<1> QED
  BY <1>3, <1>4 DEF Cdp!Ending

LEMMA CdpInvStep ==
  ASSUME Cdp!ConstantsFit, CdpInv, [Cdp!Next]_(Cdp!vars)
  PROVE  CdpInv'
<1>1. CASE UNCHANGED Cdp!vars
  BY <1>1 DEF Cdp!vars, Cdp!callerVars, Cdp!actorVars, CdpInv, CdpTypes, Correlation, AnswersTrue,
    IsTrue
<1> QED
  BY <1>1, CallerKept, WriteKept, RespondKept, SweepKept, EndingKept DEF Cdp!Next

\* CdpConnection: whatever Chrome says under which id and session, and whenever, a result is the
\* answer to the command of its caller, and a time-out or a lost browser is told only of what was one.
THEOREM CommandAnswersTrue == Cdp!Spec => []AnswersHonest
<1>1. Cdp!Init => CdpInv
  <2> SUFFICES ASSUME Cdp!Init PROVE CdpInv
    OBVIOUS
  <2>1. \A c \in Commands : IsTrue(c, Cdp!NoCommand)
    BY DEF IsTrue, Cdp!NoCommand
  <2> QED
    BY <2>1 DEF Cdp!Init, CdpInv, CdpTypes, Correlation, AnswersTrue
<1>2. CdpInv /\ [Cdp!Next]_(Cdp!vars) => CdpInv'
  BY CdpAssumption, CdpInvStep
<1>3. CdpInv => AnswersHonest
  BY DEF AnswersHonest, CdpInv, AnswersTrue, IsTrue, Cdp!AnswersBelong, Cdp!ErrorsHonest
<1> QED
  BY <1>1, <1>2, <1>3, PTL DEF Cdp!Spec

-----------------------------------------------------------------------------
(* CdpPage: what an operation of a page answers                            *)

Reading == {"initial", "scroll", "first", "still", "second", "backoff"}
Acting == {"dispatch", "recheck", "grace", "lifecycle"}
Reasons == Faults \cup {"Detached", "Unstable"}
Events == [kind : {"Requested", "Load", "Within", "Terminal"},
           frame : {FrameOf[l] : l \in Loaders} \cup {Page!Nil}, loader : Loaders \cup {Page!Nil}]

PageTypes ==
  /\ op \in Page!Actions \cup {Page!Nil, "Open", "Expect"}
  /\ pagePc \in Reading \cup Acting \cup {"idle", "navigate", "expect", "look again"}
  /\ op \in Page!Actions => pagePc \in Reading \cup Acting \cup {"idle"}
  /\ op = "Open" => pagePc \in {"idle", "navigate", "lifecycle"}
  /\ pagePc \in Reading \cup {"dispatch"} => op \in Page!Actions
  /\ (pagePc = "grace" => op = "Click") /\ (pagePc = "recheck" => op = "Check")
  /\ (pagePc = "lifecycle" => op \in {"Click", "Open"}) /\ (pagePc = "navigate" => op = "Open")
  /\ pagePc \in {"expect", "look again"} => op = "Expect"
  /\ changed \in BOOLEAN /\ watching \in BOOLEAN
  /\ events \in Seq(Events)

\* The memory of an action: the last reason, and whether there were several.
Remembered ==
  op \in Page!Actions =>
    /\ IsFiniteSet(kinds) /\ kinds \subseteq Reasons
    /\ last = Page!Nil => kinds = {}
    /\ last # Page!Nil => last \in kinds
    /\ ~changed => kinds \subseteq {last}
    /\ changed => \E k1, k2 \in kinds : k1 # k2
    /\ pagePc \in Acting => last = Page!Nil /\ ~changed

\* A navigation that is waited for, and the loads that were told.
Awaited ==
  /\ op = "Open" /\ waitFor # Page!Anything => waitFor.loader \in Loaders
  /\ op = "Open" /\ pagePc = "lifecycle" => waitFor # Page!Anything
  /\ \A i \in 1..Len(events) : events[i].kind = "Load" => events[i].loader \in loaded

\* A click finds the first request since its input in the queue, and behind it every load or
\* navigation within that settles the frame.
Tells(e) == e.frame = requested /\ e.kind \in {"Load", "Within"}
Unheard == requested = Page!Nil /\ \A i \in 1..Len(events) : events[i].kind # "Requested"
HeardAt(i) ==
  /\ requested # Page!Nil /\ events[i].kind = "Requested" /\ events[i].frame = requested
  /\ \A j \in 1..Len(events) : j < i => events[j].kind # "Requested"
  /\ \A j \in 1..Len(events) : i < j /\ Tells(events[j]) => settled

Watched ==
  op = "Click" =>
    /\ pagePc \in Reading => ~watching /\ events = <<>> /\ requested = Page!Nil
    /\ pagePc \in {"dispatch", "grace", "lifecycle"} => watching
    /\ pagePc \in {"dispatch", "grace"} /\ ~lagged => Unheard \/ \E i \in 1..Len(events) : HeardAt(i)
    /\ pagePc = "lifecycle" /\ ~lagged =>
         /\ waitFor = [frame |-> requested, loader |-> Page!Nil]
         /\ \A j \in 1..Len(events) : Tells(events[j]) => settled

\* What an operation may answer.
IsHonest(a) ==
  /\ op \in Page!Actions /\ a \in Reasons => kinds = {a}
  /\ op \in Page!Actions /\ a = Page!ActionTimeout => Cardinality(kinds) # 1
  /\ op = "Open" /\ a = "Ok" /\ waitFor # Page!Anything => waitFor.loader \in loaded
  /\ op = "Click" /\ a = "Ok" /\ requested # Page!Nil /\ ~lagged => settled

Told == IsHonest(pageResult) /\ (pagePc # "idle" => pageResult = Page!Nil)

PageInv == PageTypes /\ Remembered /\ Awaited /\ Watched /\ Told

\* What Terminal() makes of the memory of an action.
LEMMA TerminalTells ==
  ASSUME Page!ConstantsFit, NEW K, NEW l, NEW c \in BOOLEAN, IsFiniteSet(K), K \subseteq Reasons,
         l = Page!Nil => K = {}, l # Page!Nil => l \in K, ~c => K \subseteq {l},
         c => \E k1, k2 \in K : k1 # k2
  PROVE  /\ Page!Terminal(c, l) \in Reasons => K = {Page!Terminal(c, l)}
         /\ Page!Terminal(c, l) = Page!ActionTimeout => Cardinality(K) # 1
         /\ Page!Terminal(c, l) # "Ok"
<1>0. Page!ActionTimeout \notin Reasons \cup {"Ok"} /\ "Ok" \notin Reasons /\ Page!Nil \notin Reasons
  BY DEF Page!ActionTimeout, Reasons, Page!ConstantsFit, Page!Nil
<1>1. CASE ~c /\ l # Page!Nil
  <2>1. Page!Terminal(c, l) = l /\ K = {l} /\ l \in Reasons
    BY <1>1 DEF Page!Terminal
  <2> QED
    BY <1>0, <2>1
<1>2. CASE c \/ l = Page!Nil
  <2>1. Page!Terminal(c, l) = Page!ActionTimeout
    BY <1>2 DEF Page!Terminal
  <2>2. Cardinality(K) # 1
    <3>1. ~\E x : K = {x}
      BY <1>2
    <3> QED
      BY <3>1, FS_Singleton
  <2> QED
    BY <1>0, <2>1, <2>2
<1> QED
  BY <1>1, <1>2

\* Nothing to answer, and answers that claim nothing.
LEMMA PlainHonest ==
  ASSUME Page!ConstantsFit,
         NEW a \in {Page!Nil, "CommandError", "Disconnected", "AssertionFailed", "NavigationFailed", "NavigationTimeout"}
  PROVE  IsHonest(a) /\ IsHonest(a)'
<1>1. a \notin Reasons /\ a # Page!ActionTimeout /\ a # "Ok"
  BY DEF Page!ConstantsFit, Reasons, Page!ActionTimeout, Page!Nil
<1> QED
  BY <1>1 DEF IsHonest

LEMMA BeginKept ==
  ASSUME Page!ConstantsFit, PageInv, NEW kind \in Page!Actions \cup {"Open", "Expect"}, Page!Begin(kind)
  PROVE  PageInv'
<1>1. /\ op' = kind /\ pageResult' = Page!Nil /\ last' = Page!Nil /\ changed' = FALSE /\ kinds' = {} /\ waitFor' = Page!Anything
      /\ watching' = (kind = "Open") /\ events' = <<>> /\ requested' = Page!Nil
      /\ kind \in Page!Actions => pagePc' = "initial"
      /\ kind = "Open" => pagePc' = "navigate"
      /\ kind = "Expect" => pagePc' = "expect"
  BY DEF Page!Begin, Page!Actions
<1>2. PageTypes'
  <2>0. watching' \in BOOLEAN
    <3>1. watching' = (kind = "Open")
      BY <1>1, Zenon
    <3> QED
      BY <3>1, Zenon
  <2>1. events' \in Seq(Events) /\ changed' \in BOOLEAN
    <3>1. <<>> \in Seq(Events)
      OBVIOUS
    <3>2. changed' \in BOOLEAN
      BY <1>1, Zenon
    <3> QED
      BY <1>1, <3>1, <3>2
  <2>2. kind = "Open" \/ kind = "Expect" \/ (kind \in Page!Actions /\ kind # "Open" /\ kind # "Expect")
    BY DEF Page!Actions
  <2> QED
    BY <1>1, <2>0, <2>1, <2>2 DEF PageTypes, Reading
<1>3. Remembered'
  BY <1>1, FS_EmptySet DEF Remembered, Reading, Acting, Page!Actions
<1>4. Awaited'
  BY <1>1 DEF Awaited
<1>5. Watched'
  <2>1. op' = "Click" => pagePc' = "initial" /\ watching' = FALSE
    BY <1>1 DEF Page!Actions
  <2> QED
    BY <1>1, <2>1 DEF Watched
<1>6. Told'
  BY <1>1, PlainHonest DEF Told
<1> QED
  BY <1>2, <1>3, <1>4, <1>5, <1>6 DEF PageInv

\* An operation returns, or goes on, with nothing else changed.
LEMMA EndsKept ==
  ASSUME Page!ConstantsFit, PageInv, NEW a, Page!Ends(a), IsHonest(a)
  PROVE  PageInv'
<1>1. /\ UNCHANGED <<op, last, changed, waitFor, loaded, events, settled, lagged, requested, kinds>>
      /\ pagePc' = "idle" /\ pageResult' = a /\ watching' = FALSE
  BY DEF Page!Ends, Page!Return, Page!chromeVars, Page!eventVars
<1>2. PageTypes'
  BY <1>1 DEF PageInv, PageTypes, Reading
<1>3. Remembered' /\ Awaited' /\ Watched'
  BY <1>1 DEF PageInv, Remembered, Awaited, Watched, Reading, Acting
<1>4. Told'
  BY <1>1 DEF Told, IsHonest
<1> QED
  BY <1>2, <1>3, <1>4 DEF PageInv

LEMMA ProceedsKept ==
  ASSUME Page!ConstantsFit, PageInv, NEW where, Page!Proceeds(where), pagePc # "idle",
         \/ pagePc \in Reading /\ where \in Reading
         \/ pagePc = "dispatch" /\ op = "Click" /\ where = "grace"
         \/ pagePc = "dispatch" /\ op = "Check" /\ where = "recheck"
         \/ pagePc = "navigate" /\ waitFor # Page!Anything /\ where = "lifecycle"
         \/ pagePc = "look again" /\ where = "expect"
  PROVE  PageInv'
<1>1. /\ UNCHANGED <<op, pageResult, last, changed, waitFor, loaded, events, settled, lagged, requested, kinds, watching>>
      /\ pagePc' = where
  BY DEF Page!Proceeds, Page!GoTo, Page!chromeVars, Page!eventVars
<1>2. PageTypes'
  BY <1>1 DEF PageInv, PageTypes, Reading, Acting, Page!Actions
<1>3. Remembered'
  BY <1>1 DEF PageInv, PageTypes, Remembered, Reading, Acting, Page!Actions
<1>4. Awaited'
  BY <1>1 DEF PageInv, PageTypes, Awaited, Reading, Acting, Page!Actions
<1>5. Watched'
  <2>1. op = "Click" => (pagePc \in Reading /\ where \in Reading) \/ (pagePc = "dispatch" /\ where = "grace")
    BY DEF PageInv, PageTypes, Reading, Acting, Page!Actions
  <2> QED
    BY <1>1, <2>1 DEF PageInv, Watched, Unheard, HeardAt, Tells, Reading
<1>6. Told'
  BY <1>1 DEF PageInv, Told, IsHonest
<1> QED
  BY <1>2, <1>3, <1>4, <1>5, <1>6 DEF PageInv

\* What keeps an element from being used is remembered, and told when the time is up.
LEMMA AttemptKept ==
  ASSUME Page!ConstantsFit, PageInv, op \in Page!Actions, pagePc \in Reading, NEW kind \in Reasons, Page!AttemptFails(kind)
  PROVE  PageInv'
<1>0. kind # Page!Nil /\ IsFiniteSet(kinds)
  BY DEF PageInv, Remembered, Page!ConstantsFit, Reasons, Page!Nil
<1>1. /\ UNCHANGED <<op, waitFor, loaded, events, settled, lagged, requested>>
      /\ changed' = (changed \/ (last # Page!Nil /\ last # kind)) /\ last' = kind /\ kinds' = kinds \cup {kind}
  BY DEF Page!AttemptFails, Page!chromeVars, Page!eventVars
<1>2. /\ IsFiniteSet(kinds') /\ kinds' \subseteq Reasons /\ last' # Page!Nil /\ last' \in kinds'
      /\ ~changed' => kinds' \subseteq {last'}
      /\ changed' => \E k1, k2 \in kinds' : k1 # k2
      /\ changed' \in BOOLEAN
  <2>1. IsFiniteSet(kinds')
    BY <1>0, <1>1, FS_AddElement
  <2>2. kinds' \subseteq Reasons /\ last' # Page!Nil /\ last' \in kinds'
    BY <1>0, <1>1 DEF PageInv, Remembered
  <2>3. (~changed' => kinds' \subseteq {last'}) /\ (changed' => \E k1, k2 \in kinds' : k1 # k2)
    BY <1>1 DEF PageInv, Remembered
  <2>4. changed' \in BOOLEAN
    BY <1>1, Zenon
  <2> QED
    BY <2>1, <2>2, <2>3, <2>4
<1>3. /\ pagePc' \in {"idle", "backoff"} /\ watching' \in {watching, FALSE}
      /\ pagePc' = "idle" => pageResult' = Page!Terminal(changed', kind)
      /\ pagePc' = "backoff" => pageResult' = pageResult
  BY DEF Page!AttemptFails, Page!Return, Page!GoTo
<1>4. PageTypes'
  <2>1. watching' \in BOOLEAN
    BY <1>3 DEF PageInv, PageTypes
  <2> QED
    BY <1>1, <1>2, <1>3, <2>1 DEF PageInv, PageTypes, Reading, Page!Actions
<1>5. Remembered'
  BY <1>1, <1>2, <1>3 DEF Remembered, Acting
<1>6. Awaited' /\ Watched'
  <2>1. Awaited'
    BY <1>1, <1>3 DEF PageInv, Awaited
  <2>2. ~watching => ~watching'
    BY DEF Page!AttemptFails, Page!Return, Page!GoTo, PageInv, PageTypes
  <2>3. Watched'
    BY <1>1, <1>3, <2>2 DEF PageInv, Watched, Reading
  <2> QED
    BY <2>1, <2>3
<1>7. Told'
  <2>1. CASE pagePc' = "backoff"
    <3>1. pageResult' = Page!Nil
      BY <1>3, <2>1 DEF PageInv, Told, Reading
    <3> QED
      BY <3>1, PlainHonest DEF Told
  <2>2. CASE pagePc' = "idle"
    <3>1. /\ Page!Terminal(changed', kind) \in Reasons => kinds' = {Page!Terminal(changed', kind)}
          /\ Page!Terminal(changed', kind) = Page!ActionTimeout => Cardinality(kinds') # 1
          /\ Page!Terminal(changed', kind) # "Ok"
      BY <1>1, <1>2, TerminalTells
    <3> QED
      BY <1>3, <2>2, <3>1 DEF Told, IsHonest
  <2> QED
    BY <1>3, <2>1, <2>2
<1> QED
  BY <1>4, <1>5, <1>6, <1>7 DEF PageInv

LEMMA DispatchKept ==
  ASSUME Page!ConstantsFit, PageInv, op \in Page!Actions, pagePc = "second", Page!Dispatch
  PROVE  PageInv'
<1>1. /\ UNCHANGED <<op, waitFor, loaded, events, settled, lagged, requested>>
      /\ last' = Page!Nil /\ changed' = FALSE /\ kinds' = {}
      /\ \/ pagePc' = "dispatch" /\ pageResult' = pageResult /\ watching' = (op = "Click")
         \/ op = "Check" /\ pagePc' = "idle" /\ pageResult' = "Ok" /\ watching' = FALSE
  BY DEF Page!Dispatch, Page!Return, Page!chromeVars, Page!eventVars
<1>2. watching' \in BOOLEAN
  BY <1>1, Zenon
<1>3. PageTypes'
  BY <1>1, <1>2 DEF PageInv, PageTypes, Acting, Page!Actions
<1>4. Remembered'
  BY <1>1, FS_EmptySet DEF Remembered
<1>5. Awaited'
  BY <1>1 DEF PageInv, Awaited, Page!Actions
<1>6. Watched'
  <2>1. op = "Click" => events = <<>> /\ requested = Page!Nil
    BY DEF PageInv, Watched, Reading
  <2>2. op = "Click" /\ pagePc' = "dispatch" => watching'
    BY <1>1
  <2>3. op = "Click" => pagePc' = "dispatch"
    BY <1>1
  <2> QED
    BY <1>1, <2>1, <2>2, <2>3 DEF Watched, Unheard, Reading
<1>7. Told'
  BY <1>1, PlainHonest DEF PageInv, Told, IsHonest, Reading, Page!Actions, Page!ConstantsFit,
    Reasons, Page!ActionTimeout, Page!Nil
<1> QED
  BY <1>3, <1>4, <1>5, <1>6, <1>7 DEF PageInv

LEMMA AnythingHonest ==   \* what an action has found when its time is up
  ASSUME Page!ConstantsFit, PageInv, op \in Page!Actions, pagePc # "idle"
  PROVE  /\ IsHonest(Page!Terminal(changed, last))
         /\ pagePc \in Acting => IsHonest(Page!ActionTimeout)
<1>0. op # "Open"
  BY DEF Page!Actions
<1>1. IsHonest(Page!Terminal(changed, last))
  BY <1>0, TerminalTells DEF PageInv, PageTypes, Remembered, IsHonest
<1>2. pagePc \in Acting => Page!Terminal(changed, last) = Page!ActionTimeout
  BY DEF PageInv, Remembered, Page!Terminal, Page!Nil
<1> QED
  BY <1>1, <1>2

LEMMA ActionKept ==   \* the reads of an element, the input, and their deadline
  ASSUME Page!ConstantsFit, PageInv,
         \/ Page!ReadInitial \/ Page!Scroll \/ Page!ReadFirst \/ Page!HeldStill \/ Page!ReadSecond \/ Page!Backoff \/ Page!ActionExpires
         \/ Page!InputDone \/ Page!Recheck
  PROVE  PageInv'
<1>0. op \in Page!Actions /\ pagePc # "idle" /\ (pagePc \in Reading \/ pagePc \in {"dispatch", "recheck"})
  <2>1. pagePc \in Reading \/ pagePc \in {"dispatch", "recheck"}
    BY DEF Page!ReadInitial, Page!Scroll, Page!ReadFirst, Page!HeldStill, Page!ReadSecond,
      Page!Backoff, Page!ActionExpires, Page!InputDone, Page!Recheck, Reading
  <2> QED
    BY <2>1 DEF PageInv, PageTypes, Reading, Page!Actions
<1>1. ASSUME NEW fault \in Faults
      PROVE  fault \in Reasons /\ Page!PostScroll(fault) \in Reasons
  BY DEF Reasons, Page!PostScroll
<1>2. ASSUME NEW kind \in Reasons, Page!AttemptFails(kind), pagePc \in Reading
      PROVE  PageInv'
  BY <1>0, <1>2, AttemptKept
<1>3. "Unstable" \in Reasons
  BY DEF Reasons
<1>4. CASE Page!ReadInitial
  BY <1>0, <1>1, <1>2, <1>4, ProceedsKept DEF Page!ReadInitial, Reading
<1>5. CASE Page!Scroll \/ Page!HeldStill \/ Page!Backoff
  BY <1>0, <1>5, ProceedsKept DEF Page!Scroll, Page!HeldStill, Page!Backoff, Reading
<1>6. CASE Page!ReadFirst
  BY <1>0, <1>1, <1>2, <1>6, ProceedsKept DEF Page!ReadFirst, Reading
<1>7. CASE Page!ReadSecond
  BY <1>0, <1>1, <1>2, <1>3, <1>7, DispatchKept DEF Page!ReadSecond, Reading
<1>8. CASE Page!ActionExpires
  BY <1>0, <1>8, AnythingHonest, EndsKept DEF Page!ActionExpires, Acting
<1>9. IsHonest("AssertionFailed") /\ (op # "Click" => IsHonest("Ok"))
  <2>1. "Ok" \notin Reasons /\ "Ok" # Page!ActionTimeout /\ op # "Open"
    BY <1>0 DEF Page!ConstantsFit, Reasons, Page!ActionTimeout, Page!Actions
  <2> QED
    BY <2>1, PlainHonest DEF IsHonest
<1>10. CASE Page!InputDone
  BY <1>0, <1>9, <1>10, ProceedsKept, EndsKept DEF Page!InputDone
<1>11. CASE Page!Recheck
  <2>1. op # "Click"
    BY <1>11 DEF Page!Recheck, PageInv, PageTypes
  <2> QED
    BY <1>9, <1>11, <2>1, EndsKept DEF Page!Recheck
<1> QED
  BY <1>4, <1>5, <1>6, <1>7, <1>8, <1>10, <1>11

LEMMA ExpectKept ==   \* wait_for_locator(), and a command that fails
  ASSUME Page!ConstantsFit, PageInv, Page!Expect \/ Page!LookAgain \/ Page!ExpectExpires \/ Page!CommandFails
  PROVE  PageInv'
<1>1. CASE Page!CommandFails
  <2>1. Page!Ends("CommandError")
    BY <1>1 DEF Page!CommandFails, Page!Ends
  <2> QED
    BY <2>1, PlainHonest, EndsKept
<1>2. CASE Page!LookAgain
  BY <1>2, ProceedsKept DEF Page!LookAgain
<1>3. pagePc \in {"expect", "look again"} => op \notin Page!Actions \cup {"Open", "Click"}
  BY DEF PageInv, PageTypes, Page!Actions
<1>4. CASE Page!ExpectExpires
  BY <1>3, <1>4, EndsKept DEF Page!ExpectExpires, IsHonest
<1>5. ASSUME pagePc = "expect", Page!Ends("Ok")
      PROVE  PageInv'
  BY <1>3, <1>5, EndsKept DEF IsHonest
<1>6. ASSUME NEW fault, pagePc = "expect", IF pageDue THEN Page!Return(fault) ELSE Page!GoTo("look again"),
             UNCHANGED <<op, changed, waitFor, Page!chromeVars, Page!eventVars>>
      PROVE  PageInv'
  <2>1. op = "Expect" /\ pagePc' \in {"idle", "look again"} /\ (pagePc' # "idle" => pageResult' = pageResult)
    BY <1>6 DEF Page!Return, Page!GoTo, PageInv, PageTypes
  <2>2. watching' \in BOOLEAN
    BY <1>6 DEF Page!Return, Page!GoTo, PageInv, PageTypes
  <2>3. PageTypes'
    BY <1>6, <2>1, <2>2 DEF PageInv, PageTypes, Reading, Acting, Page!eventVars
  <2>4. Remembered' /\ Watched'
    BY <1>6, <2>1 DEF Remembered, Watched, Page!Actions
  <2>5. Awaited'
    BY <1>6, <2>1 DEF PageInv, Awaited, Page!chromeVars, Page!eventVars
  <2>6. Told'
    BY <1>6, <2>1 DEF PageInv, Told, IsHonest, Page!Actions
  <2> QED
    BY <2>3, <2>4, <2>5, <2>6 DEF PageInv
<1>7. CASE Page!Expect
  BY <1>5, <1>6, <1>7 DEF Page!Expect
<1> QED
  BY <1>1, <1>2, <1>4, <1>7

LEMMA NavigateKept ==   \* Page.navigate and its answer
  ASSUME Page!ConstantsFit, PageInv, Page!Navigated \/ \E l \in Loaders : Page!NavigationStarts(l)
  PROVE  PageInv'
<1>0. pagePc = "navigate" /\ op = "Open"
  BY DEF Page!Navigated, Page!NavigationStarts, PageInv, PageTypes
<1>1. CASE Page!Navigated
  <2>1. waitFor = Page!Anything => IsHonest("Ok") /\ IsHonest("NavigationFailed")
    BY <1>0 DEF IsHonest, Page!Actions
  <2> QED
    BY <1>0, <1>1, <2>1, EndsKept, ProceedsKept DEF Page!Navigated
<1>2. ASSUME NEW l \in Loaders, Page!NavigationStarts(l)
      PROVE  PageInv'
  <2>1. /\ UNCHANGED <<op, pagePc, pageResult, last, changed, watching, loaded, events, settled, lagged, requested, kinds>>
        /\ waitFor' = [frame |-> FrameOf[l], loader |-> l]
    BY <1>2 DEF Page!NavigationStarts, Page!eventVars
  <2>2. PageTypes' /\ Remembered' /\ Watched'
    BY <1>0, <2>1 DEF PageInv, PageTypes, Remembered, Watched, Page!Actions
  <2>3. Awaited'
    BY <1>0, <2>1 DEF PageInv, Awaited
  <2>4. Told'
    BY <1>0, <2>1, PlainHonest DEF PageInv, Told
  <2> QED
    BY <2>2, <2>3, <2>4 DEF PageInv
<1> QED
  BY <1>1, <1>2

LEMMA ExpiresKept ==   \* a click that nothing was requested under, and navigations out of time
  ASSUME Page!ConstantsFit, PageInv, Page!NothingRequested \/ Page!NavigationExpires
  PROVE  PageInv'
<1>1. CASE Page!NothingRequested
  <2>1. op = "Click" /\ events = <<>> /\ Page!Ends("Ok") /\ pagePc = "grace"
    BY <1>1 DEF Page!NothingRequested, PageInv, PageTypes
  <2>2. requested # Page!Nil => lagged
    BY <2>1 DEF PageInv, Watched, Unheard
  <2>3. IsHonest("Ok")
    BY <2>1, <2>2 DEF IsHonest, Page!ConstantsFit, Reasons, Page!ActionTimeout
  <2> QED
    BY <2>1, <2>3, EndsKept
<1>2. CASE Page!NavigationExpires
  <2>1. op = "Click" /\ pagePc = "lifecycle" => IsHonest(Page!ActionTimeout)
    BY AnythingHonest DEF Page!Actions, Acting
  <2>2. pagePc = "lifecycle" => op \in {"Click", "Open"}
    BY DEF PageInv, PageTypes
  <2> QED
    BY <1>2, <2>1, <2>2, PlainHonest, EndsKept DEF Page!NavigationExpires
<1> QED
  BY <1>1, <1>2

LEMMA TimeKept ==
  ASSUME Page!ConstantsFit, PageInv, Page!DeadlinePasses \/ Page!GracePasses \/ UNCHANGED Page!vars
  PROVE  PageInv'
<1>1. UNCHANGED <<op, pagePc, pageResult, last, changed, watching, waitFor, loaded, events, settled, lagged, requested, kinds>>
  BY DEF Page!DeadlinePasses, Page!GracePasses, Page!vars, Page!taskVars, Page!chromeVars,
    Page!eventVars
<1>2. PageTypes' /\ Remembered' /\ Awaited'
  BY <1>1 DEF PageInv, PageTypes, Remembered, Awaited
<1>3. Watched'
  BY <1>1 DEF PageInv, Watched, Unheard, HeardAt, Tells
<1>4. Told'
  BY <1>1 DEF PageInv, Told, IsHonest
<1> QED
  BY <1>2, <1>3, <1>4 DEF PageInv

-----------------------------------------------------------------------------
(* Events                                                                  *)

LEMMA QueueEnd ==
  ASSUME NEW S, NEW es \in Seq(S), NEW e \in S
  PROVE  /\ Append(es, e) \in Seq(S) /\ Len(Append(es, e)) = Len(es) + 1 /\ Len(es) \in Nat
         /\ Append(es, e)[Len(es) + 1] = e
         /\ \A i \in 1..Len(es) : Append(es, e)[i] = es[i]
OBVIOUS

LEMMA QueueHead ==
  ASSUME NEW S, NEW es \in Seq(S), es # <<>>
  PROVE  /\ Head(es) = es[1] /\ es[1] \in S /\ 1 \in 1..Len(es) /\ Tail(es) \in Seq(S)
         /\ \A i \in 1..Len(Tail(es)) : Tail(es)[i] = es[i + 1] /\ i + 1 \in 1..Len(es)
         /\ \A i \in 1..Len(es) : i > 1 => i - 1 \in 1..Len(Tail(es)) /\ es[i] = Tail(es)[i - 1]
OBVIOUS

LEMMA DeliverKept ==
  ASSUME Page!ConstantsFit, PageInv, NEW e \in Events, Page!Deliver(e), UNCHANGED <<Page!taskVars, kinds>>, loaded \subseteq loaded',
         e.kind = "Requested" => e.frame # Page!Nil, e.kind = "Load" => e.loader \in loaded'
  PROVE  PageInv'
<1>0. events \in Seq(Events)
  BY DEF PageInv, PageTypes
<1> HIDE DEF Events
<1>1. UNCHANGED <<op, pagePc, pageResult, last, changed, watching, waitFor, kinds>>
  BY DEF Page!taskVars
<1>2. /\ settled => settled'
      /\ lagged => lagged'
      /\ events' = events \/ (watching /\ (events' = Append(events, e) \/ lagged'))
      /\ ~watching => events' = events
      /\ events' \in Seq(Events)
      /\ \A i \in 1..Len(events') : events'[i] = e \/ \E j \in 1..Len(events) : events'[i] = events[j]
  <2>0. (settled => settled') /\ (lagged => lagged')
    BY DEF Page!Deliver
  <2>1. CASE ~watching
    BY <1>0, <2>0, <2>1 DEF Page!Deliver
  <2>2. CASE watching /\ Len(events) # EventCapacity
    <3>1. events' = Append(events, e)
      BY <2>2 DEF Page!Deliver
    <3>2. \A i \in 1..Len(events') : i \in 1..Len(events) \/ i = Len(events) + 1
      BY <1>0, <3>1, QueueEnd
    <3> QED
      BY <1>0, <2>0, <2>2, <3>1, <3>2, QueueEnd
  <2>3. CASE watching /\ Len(events) = EventCapacity
    <3>1. events # <<>>
      BY <2>3 DEF Page!ConstantsFit
    <3>2. events' = Append(Tail(events), e) /\ lagged'
      BY <2>3 DEF Page!Deliver
    <3>3. \A i \in 1..Len(events') : i \in 1..Len(Tail(events)) \/ i = Len(Tail(events)) + 1
      BY <1>0, <3>1, <3>2, QueueHead, QueueEnd
    <3> QED
      BY <1>0, <2>0, <2>3, <3>1, <3>2, <3>3, QueueHead, QueueEnd
  <2> QED
    BY <2>1, <2>2, <2>3
<1>3. PageTypes' /\ Remembered'
  BY <1>1, <1>2 DEF PageInv, PageTypes, Remembered
<1>4. Awaited'
  BY <1>1, <1>2 DEF PageInv, Awaited
<1>5. requested' # requested => requested = Page!Nil /\ op = "Click" /\ pagePc \in {"dispatch", "grace"}
  BY DEF Page!Deliver
<1>6. Watched'
  <2>0. op = "Click" /\ pagePc \in {"dispatch", "grace", "lifecycle"} => watching
    BY DEF PageInv, Watched
  <2>1. ASSUME op = "Click", pagePc \in Reading
        PROVE  ~watching' /\ events' = <<>> /\ requested' = Page!Nil
    BY <1>1, <1>2, <1>5, <2>1 DEF PageInv, Watched, Reading
  <2>2. ASSUME op = "Click", pagePc \in {"dispatch", "grace", "lifecycle"}, ~lagged'
        PROVE  /\ ~lagged /\ events' = Append(events, e)
               /\ requested' = IF e.kind = "Requested" /\ requested = Page!Nil /\ pagePc # "lifecycle"
                               THEN e.frame ELSE requested
               /\ requested = e.frame /\ e.kind \in {"Load", "Within"} => settled'
    BY <1>2, <2>0, <2>2 DEF Page!Deliver
  <2>3. ASSUME op = "Click", pagePc \in {"dispatch", "grace"}, ~lagged', requested = Page!Nil
        PROVE  (Unheard \/ \E i \in 1..Len(events) : HeardAt(i))'
    <3>1. \A i \in 1..Len(events) : events[i].kind # "Requested"
      BY <2>2, <2>3 DEF PageInv, Watched, Unheard, HeardAt
    <3>2. /\ Len(events') = Len(events) + 1 /\ Len(events) \in Nat /\ events'[Len(events) + 1] = e
          /\ \A i \in 1..Len(events') : i = Len(events) + 1 \/ (i \in 1..Len(events) /\ events'[i] = events[i])
      BY <1>0, <2>2, <2>3, QueueEnd
    <3>3. CASE e.kind = "Requested"
      <4>1. requested' = e.frame /\ e.frame # Page!Nil
        BY <2>2, <2>3, <3>3
      <4>2. PICK n \in Nat : n = Len(events) + 1
        BY <3>2
      <4>3. HeardAt(n)'
        BY <3>1, <3>2, <3>3, <4>1, <4>2 DEF HeardAt
      <4> QED
        BY <3>2, <4>2, <4>3
    <3>4. CASE e.kind # "Requested"
      BY <2>2, <2>3, <3>1, <3>2, <3>4 DEF Unheard
    <3> QED
      BY <3>3, <3>4
  <2>4. ASSUME op = "Click", pagePc \in {"dispatch", "grace"}, ~lagged', requested # Page!Nil
        PROVE  (Unheard \/ \E i \in 1..Len(events) : HeardAt(i))'
    <3>1. PICK i \in 1..Len(events) : HeardAt(i)
      BY <2>2, <2>4 DEF PageInv, Watched, Unheard
    <3>2. /\ Len(events') = Len(events) + 1 /\ Len(events) \in Nat /\ events'[Len(events) + 1] = e
          /\ \A j \in 1..Len(events') : j = Len(events) + 1 \/ (j \in 1..Len(events) /\ events'[j] = events[j])
          /\ events'[i] = events[i]
      BY <1>0, <2>2, <2>4, QueueEnd
    <3>3. requested' = requested
      BY <2>2, <2>4
    <3>4. \A j \in 1..Len(events') : j < i => events'[j].kind # "Requested"
      BY <3>1, <3>2 DEF HeardAt
    <3>5. \A j \in 1..Len(events') : i < j /\ Tells(events[j])' => settled'
      BY <1>2, <2>2, <2>4, <3>1, <3>2, <3>3 DEF HeardAt, Tells
    <3>6. HeardAt(i)'
      BY <2>4, <3>1, <3>2, <3>3, <3>4, <3>5 DEF HeardAt
    <3> QED
      BY <3>2, <3>6
  <2>5. ASSUME op = "Click", pagePc = "lifecycle", ~lagged'
        PROVE  /\ waitFor = [frame |-> requested', loader |-> Page!Nil]
               /\ \A j \in 1..Len(events') : Tells(events[j])' => settled'
    <3>1. /\ waitFor = [frame |-> requested, loader |-> Page!Nil] /\ requested' = requested
          /\ \A j \in 1..Len(events) : Tells(events[j]) => settled
      BY <2>2, <2>5 DEF PageInv, Watched
    <3>2. \A j \in 1..Len(events') : events'[j] = e \/ (j \in 1..Len(events) /\ events'[j] = events[j])
      BY <1>0, <2>2, <2>5, QueueEnd
    <3> QED
      BY <1>2, <2>2, <2>5, <3>1, <3>2 DEF Tells
  <2> QED
    BY <1>1, <2>0, <2>1, <2>3, <2>4, <2>5 DEF Watched
<1>7. Told'
  <2>1. CASE pagePc # "idle"
    BY <1>1, <2>1, PlainHonest DEF PageInv, Told
  <2>2. CASE pagePc = "idle"
    <3>1. requested' = requested
      BY <1>5, <2>2
    <3> QED
      BY <1>1, <1>2, <2>2, <3>1 DEF PageInv, Told, IsHonest
  <2> QED
    BY <2>1, <2>2
<1> QED
  BY <1>3, <1>4, <1>6, <1>7 DEF PageInv

LEMMA ChromeKept ==
  ASSUME Page!ConstantsFit, PageInv,
         Page!Disconnects \/ \E l \in Loaders : Page!ScriptNavigates(l) \/ Page!Loads(l) \/ Page!NavigatesWithin(l)
  PROVE  PageInv'
<1>1. ASSUME NEW l \in Loaders
      PROVE  /\ [kind |-> "Requested", frame |-> FrameOf[l], loader |-> l] \in Events
             /\ [kind |-> "Load", frame |-> FrameOf[l], loader |-> l] \in Events
             /\ [kind |-> "Within", frame |-> FrameOf[l], loader |-> Page!Nil] \in Events
             /\ FrameOf[l] # Page!Nil
  BY DEF Events, Page!ConstantsFit
<1>2. [kind |-> "Terminal", frame |-> Page!Nil, loader |-> Page!Nil] \in Events
  BY DEF Events
<1> HIDE DEF Events
<1>3. CASE Page!Disconnects
  BY <1>2, <1>3, DeliverKept DEF Page!Disconnects
<1>4. ASSUME NEW l \in Loaders, Page!ScriptNavigates(l) \/ Page!NavigatesWithin(l) \/ Page!Loads(l)
      PROVE  PageInv'
  <2>1. CASE Page!ScriptNavigates(l)
    BY <1>1, <2>1, DeliverKept DEF Page!ScriptNavigates
  <2>2. CASE Page!NavigatesWithin(l)
    BY <1>1, <2>2, DeliverKept DEF Page!NavigatesWithin
  <2>3. CASE Page!Loads(l)
    BY <1>1, <2>3, DeliverKept DEF Page!Loads
  <2> QED
    BY <1>4, <2>1, <2>2, <2>3
<1> QED
  BY <1>3, <1>4

LEMMA ReceiveKept ==
  ASSUME Page!ConstantsFit, PageInv, Page!Receive
  PROVE  PageInv'
<1> DEFINE event == Head(events)
           taken == pagePc = "grace" /\ event.kind = "Requested"
<1>0. events \in Seq(Events) /\ pagePc \in {"grace", "lifecycle"} /\ events # <<>>
  BY DEF PageInv, PageTypes, Page!Receive
<1>1. /\ event = events[1] /\ 1 \in 1..Len(events) /\ events' \in Seq(Events)
      /\ \A i \in 1..Len(events') : events'[i] = events[i + 1] /\ i + 1 \in 1..Len(events)
      /\ \A i \in 1..Len(events) : i > 1 => i - 1 \in 1..Len(events') /\ events[i] = events'[i - 1]
  <2>1. events' = Tail(events)
    BY DEF Page!Receive
  <2> HIDE DEF Events
  <2> QED
    BY <1>0, <2>1, QueueHead
<1>2. /\ UNCHANGED <<op, last, changed, loaded, settled, lagged, requested, kinds>>
      /\ waitFor' = IF taken THEN [frame |-> event.frame, loader |-> Page!Nil] ELSE waitFor
  BY DEF Page!Receive, Page!chromeVars
<1>3. \/ event.kind = "Terminal" /\ pagePc' = "idle" /\ pageResult' = "Disconnected" /\ watching' = FALSE
      \/ taken /\ pagePc' = "lifecycle" /\ UNCHANGED <<pageResult, watching>>
      \/ pagePc = "lifecycle" /\ Page!Settles(event) /\ pagePc' = "idle" /\ pageResult' = "Ok" /\ watching' = FALSE
      \/ ~taken /\ pagePc' = pagePc /\ UNCHANGED <<pageResult, watching>>
  BY DEF Page!Receive, Page!Return, Page!GoTo
<1>4. pagePc = "grace" => op = "Click"
  BY DEF PageInv, PageTypes
<1>5. PageTypes'
  <2>1. watching' \in BOOLEAN
    BY <1>3 DEF PageInv, PageTypes
  <2> QED
    BY <1>0, <1>1, <1>2, <1>3, <2>1 DEF PageInv, PageTypes, Reading, Acting
<1>6. Remembered'
  BY <1>0, <1>2, <1>3 DEF PageInv, Remembered, Acting
<1>7. Awaited'
  <2>1. op = "Open" => waitFor' = waitFor /\ (pagePc' = "lifecycle" => pagePc = "lifecycle")
    BY <1>2, <1>3, <1>4
  <2> QED
    BY <1>1, <1>2, <2>1 DEF PageInv, Awaited
<1>8. ASSUME op = "Click", ~lagged, pagePc = "lifecycle"
      PROVE  /\ waitFor = [frame |-> requested, loader |-> Page!Nil]
             /\ \A j \in 1..Len(events') : Tells(events'[j]) => settled
             /\ Page!Settles(event) => settled
  <2>1. /\ waitFor = [frame |-> requested, loader |-> Page!Nil]
        /\ \A j \in 1..Len(events) : Tells(events[j]) => settled
    BY <1>8 DEF PageInv, Watched
  <2> QED
    BY <1>1, <2>1 DEF Page!Settles, Tells
<1>9. ASSUME op = "Click", ~lagged, pagePc = "grace"
      PROVE  /\ taken => /\ event.frame = requested
                         /\ \A j \in 1..Len(events') : Tells(events'[j]) => settled
             /\ ~taken => (Unheard \/ \E i \in 1..Len(events) : HeardAt(i))'
  <2>1. CASE Unheard
    <3>1. ~taken
      BY <1>1, <2>1 DEF Unheard
    <3>2. Unheard'
      BY <1>1, <1>2, <2>1 DEF Unheard
    <3> QED
      BY <3>1, <3>2
  <2>2. ASSUME NEW i \in 1..Len(events), HeardAt(i)
        PROVE  /\ taken => /\ event.frame = requested
                           /\ \A j \in 1..Len(events') : Tells(events'[j]) => settled
               /\ ~taken => (Unheard \/ \E k \in 1..Len(events) : HeardAt(k))'
    <3>1. taken => i = 1
      BY <1>1, <2>2 DEF HeardAt
    <3>2. i = 1 => taken
      BY <1>1, <1>9, <2>2 DEF HeardAt
    <3>3. CASE i = 1
      BY <1>1, <2>2, <3>2, <3>3 DEF HeardAt
    <3>4. CASE i # 1
      <4>1. PICK n \in 1..Len(events') : n = i - 1 /\ i = n + 1
        BY <1>1, <3>4
      <4>2. HeardAt(n)'
        <5>1. /\ events'[n] = events[i] /\ requested' = requested /\ settled' = settled
              /\ \A j \in 1..Len(events') : events'[j] = events[j + 1] /\ j + 1 \in 1..Len(events)
                                           /\ (j < n => j + 1 < i) /\ (n < j => i < j + 1)
          BY <1>1, <1>2, <4>1
        <5>2. \A j \in 1..Len(events') : j < n => events'[j].kind # "Requested"
          BY <2>2, <5>1 DEF HeardAt
        <5>3. \A j \in 1..Len(events') : n < j /\ Tells(events'[j]) => settled
          BY <2>2, <5>1 DEF HeardAt
        <5> QED
          BY <2>2, <5>1, <5>2, <5>3 DEF HeardAt, Tells
      <4> QED
        BY <3>1, <3>4, <4>2
    <3> QED
      BY <3>3, <3>4
  <2> QED
    BY <1>9, <2>1, <2>2 DEF PageInv, Watched
<1>10. Watched'
  <2>1. op = "Click" => watching
    BY <1>0 DEF PageInv, Watched
  <2>2. CASE pagePc' = "idle"
    BY <2>2 DEF Watched, Reading
  <2>3. CASE taken /\ pagePc' = "lifecycle" /\ watching' = watching
    <3>1. op = "Click" /\ pagePc = "grace"
      BY <1>4, <2>3
    <3>2. ~lagged => waitFor' = [frame |-> requested, loader |-> Page!Nil]
      BY <1>2, <1>9, <2>3, <3>1
    <3> QED
      BY <1>2, <1>9, <2>1, <2>3, <3>1, <3>2 DEF Watched, Reading, Tells
  <2>4. CASE ~taken /\ pagePc' = pagePc /\ watching' = watching
    <3>1. waitFor' = waitFor
      BY <1>2, <2>4
    <3>2. pagePc \notin Reading
      BY <1>0 DEF Reading
    <3>3. CASE pagePc = "grace"
      BY <1>2, <1>4, <1>9, <2>1, <2>4, <3>2, <3>3 DEF Watched
    <3>4. CASE pagePc = "lifecycle"
      BY <1>2, <1>8, <2>1, <2>4, <3>1, <3>2, <3>4 DEF Watched, Tells
    <3> QED
      BY <1>0, <3>3, <3>4
  <2> QED
    BY <1>3, <2>2, <2>3, <2>4
<1>11. Told'
  <2>1. CASE pagePc' = "idle" /\ pageResult' = "Disconnected"
    BY <2>1, PlainHonest DEF Told
  <2>2. CASE pagePc' # "idle" /\ pageResult' = pageResult
    BY <1>0, <2>2, PlainHonest DEF PageInv, Told
  <2>3. CASE pagePc = "lifecycle" /\ Page!Settles(event) /\ pagePc' = "idle" /\ pageResult' = "Ok"
    <3>1. "Ok" \notin Reasons /\ "Ok" # Page!ActionTimeout
      BY DEF Page!ConstantsFit, Reasons, Page!ActionTimeout
    <3>2. op = "Click" /\ ~lagged => settled
      BY <1>8, <2>3
    <3>3. op = "Open" => waitFor.loader \in loaded
      <4>1. op = "Open" => waitFor.loader # Page!Nil
        BY <2>3 DEF PageInv, Awaited, Page!ConstantsFit
      <4>2. event.kind = "Load" => event.loader \in loaded
        BY <1>1 DEF PageInv, Awaited
      <4> QED
        BY <2>3, <4>1, <4>2 DEF Page!Settles
    <3>4. waitFor' = waitFor
      BY <1>2, <2>3
    <3> QED
      BY <1>2, <2>3, <3>1, <3>2, <3>3, <3>4 DEF Told, IsHonest
  <2> QED
    BY <1>0, <1>3, <2>1, <2>2, <2>3
<1> QED
  BY <1>5, <1>6, <1>7, <1>10, <1>11 DEF PageInv

LEMMA PageInvStep ==
  ASSUME Page!ConstantsFit, PageInv, [Page!Next]_(Page!vars)
  PROVE  PageInv'
BY BeginKept, ActionKept, ExpectKept, NavigateKept, ReceiveKept, ExpiresKept, ChromeKept, TimeKept
DEF Page!Next, Page!Proceed, Page!Answered, Page!Expires

\* A module's Cardinality is everybody's.
LEMMA KindsCounted == ASSUME NEW S PROVE Page!Cardinality(S) = Cardinality(S)
  BY DEF Page!Cardinality, Cardinality

\* Page: open() saw its own document load, a click the navigation it caused, and an action
\* that failed tells the one reason of all its attempts, or that there were several.
THEOREM PagesHonest == Page!Spec => []PageHonest
<1>1. ASSUME Page!Init PROVE PageInv
  <2>1. PageTypes /\ Remembered
    <3>1. <<>> \in Seq(Events)
      OBVIOUS
    <3>2. pagePc = "idle" /\ op = Page!Nil /\ op \notin Page!Actions /\ changed = FALSE /\ watching = FALSE /\ events = <<>>
      BY <1>1 DEF Page!Init, Page!Actions, Page!Nil
    <3> QED
      BY <3>1, <3>2 DEF PageTypes, Remembered, Reading, Page!Nil
  <2>2. Awaited /\ Watched
    BY <1>1 DEF Page!Init, Awaited, Watched, Page!Nil
  <2>3. Told
    BY <1>1, PageAssumption, PlainHonest DEF Page!Init, Told
  <2> QED
    BY <2>1, <2>2, <2>3 DEF PageInv
<1>2. PageInv /\ [Page!Next]_(Page!vars) => PageInv'
  BY PageAssumption, PageInvStep
<1>3. PageInv => PageHonest
  BY KindsCounted DEF PageHonest, PageInv, Told, IsHonest, Page!OpenedIsLoaded, Page!ClickWaits,
    Page!FailureHonest, Reasons
<1> QED
  BY <1>1, <1>2, <1>3, PTL DEF Page!Spec

-----------------------------------------------------------------------------
(* ChromeSession: who ends a Chrome and its profile                        *)

\* What is not a result of a call yet, and what the calls below close() rely on.
ChromeInv ==
  /\ Chrome!ChromeOwned
  /\ session \in {"idle", "failed"} \/ Chrome!Starting \/ Chrome!Closing \/ session \in {"open", "closed", "dropped"}
  /\ announced => Chrome!Starting
  /\ session = "idle" => chrome = Chrome!Nil /\ profile = Chrome!Nil
  /\ session = "cleaning" => chrome = "ended"
  /\ chrome \in {Chrome!Nil, "running", "closing", "dying", "ended"}

LEMMA ChromeInvStep == ChromeInv /\ [Chrome!Next]_(Chrome!vars) => ChromeInv'
<1> SUFFICES ASSUME ChromeInv, [Chrome!Next]_(Chrome!vars) PROVE ChromeInv'
  OBVIOUS
<1> USE DEF ChromeInv, Chrome!ChromeOwned, Chrome!Over, Chrome!Running, Chrome!Starting,
      Chrome!Closing, Chrome!Nil, Chrome!Finish
<1>1. CASE UNCHANGED Chrome!vars
  BY <1>1 DEF Chrome!vars
<1>2. CASE Chrome!StartFails \/ Chrome!Launch \/ Chrome!PortKnown \/ Chrome!Connected
  BY <1>2 DEF Chrome!StartFails, Chrome!Launch, Chrome!PortKnown, Chrome!Connected
<1>3. ASSUME NEW how \in {"failed", "dropped"}, Chrome!LaunchFails(how) PROVE ChromeInv'
  BY <1>3 DEF Chrome!LaunchFails
<1>4. ASSUME NEW how \in {"failed", "dropped"}, Chrome!ConnectFails(how) PROVE ChromeInv'
  BY <1>4 DEF Chrome!ConnectFails, Chrome!DropProcess
<1>5. CASE Chrome!Drop \/ Chrome!CloseAsks \/ Chrome!CloseDropped
  BY <1>5 DEF Chrome!Drop, Chrome!CloseAsks, Chrome!CloseDropped, Chrome!DropProcess
<1>6. ASSUME NEW how \in {"ok", "disconnected", "failed"}, Chrome!CloseAnswered(how) PROVE ChromeInv'
  BY <1>6 DEF Chrome!CloseAnswered
<1>7. CASE Chrome!Reaped \/ Chrome!Kill \/ Chrome!GracePasses
  BY <1>7 DEF Chrome!Reaped, Chrome!Kill, Chrome!GracePasses
<1>8. CASE Chrome!ReapFails
  BY <1>8 DEF Chrome!ReapFails, Chrome!DropProcess
<1>9. CASE Chrome!Close \/ Chrome!Remove \/ Chrome!SweepExpires \/ Chrome!Ends
  BY <1>9 DEF Chrome!Close, Chrome!Remove, Chrome!SweepExpires, Chrome!Ends
<1> QED
  BY <1>1, <1>2, <1>3, <1>4, <1>5, <1>6, <1>7, <1>8, <1>9 DEF Chrome!Next, Chrome!CloseEnds

\* LazyChromeHost, ChromeHost and ChromeProcess: wherever a start or a close breaks off, Chrome was
\* killed, and one that was closed has been reaped and its profile removed.
THEOREM ChromesOwned == Chrome!Spec => []ChromeOwned
<1>1. Chrome!Init => ChromeInv
  BY DEF Chrome!Init, ChromeInv, Chrome!ChromeOwned, Chrome!Over, Chrome!Running, Chrome!Starting,
    Chrome!Closing, Chrome!Nil
<1>2. ChromeInv => ChromeOwned
  BY DEF ChromeInv, ChromeOwned
<1> QED
  BY <1>1, <1>2, ChromeInvStep, PTL DEF Chrome!Spec

-----------------------------------------------------------------------------
(* BrowserInstall: what a target directory holds                           *)

InstallTypes ==
  /\ installPc \in [Install!Processes -> Install!InLock \cup {"look", "lock", "stale", "validate", "remove", "over"}]
  /\ installAnswer \in [Install!Processes -> {"none", "installed", "lock timeout", "failed", "not activated", "missing",
                               "nothing", "unowned", "removed", "not removed", "died"}]
  /\ target \subseteq Install!Whole
  /\ lock \in {"none", "young", "old"} /\ takeover \in BOOLEAN /\ cleaned \in BOOLEAN

\* Until a lock is taken for stale it keeps its file and its one owner, and until a clean begins
\* only the owner changes the target.
OneOwner ==
  /\ ~cleaned => target \in {{}, Install!Whole}
  /\ ~takeover =>
       /\ \A p \in Installers : installPc[p] # "stale" /\ (installPc[p] \in Install!InLock => lock # "none")
       /\ \A p, q \in Installers : installPc[p] \in Install!InLock /\ installPc[q] \in Install!InLock => p = q
  /\ ~takeover /\ ~cleaned =>
       \A p \in Installers :
         /\ installPc[p] \in {"download", "stage", "activate"} => target = {}
         /\ installPc[p] = "confirm" => target = Install!Whole
  /\ \A p \in Installers : installAnswer[p] \in {"not activated", "missing"} => takeover \/ cleaned

InstallInv == InstallTypes /\ OneOwner

LEMMA InstallInvStep == InstallInv /\ [Install!Next]_(Install!vars) => InstallInv'
<1> SUFFICES ASSUME InstallInv, [Install!Next]_(Install!vars) PROVE InstallInv'
  OBVIOUS
<1> USE DEF InstallInv, InstallTypes, OneOwner, Install!InLock, Install!Processes
<1>1. CASE UNCHANGED Install!vars
  BY <1>1 DEF Install!vars
<1>2. ASSUME NEW p \in Installers, Install!Look(p) \/ Install!LockTimesOut(p) PROVE InstallInv'
  <2>1. CASE Install!Look(p) /\ target = Install!Whole
    <3>1. /\ installPc' = [installPc EXCEPT ![p] = "over"]
          /\ installAnswer' = [installAnswer EXCEPT ![p] = "installed"]
          /\ UNCHANGED <<target, lock, takeover, cleaned>>
      BY <2>1 DEF Install!Look, Install!Return
    <3>2. InstallTypes'
      BY <3>1
    <3>3. OneOwner'
      BY <3>1
    <3> QED
      BY <3>2, <3>3
  <2>2. CASE Install!Look(p) /\ target # Install!Whole
    BY <2>2 DEF Install!Look, Install!GoTo
  <2>3. CASE Install!LockTimesOut(p)
    BY <2>3 DEF Install!LockTimesOut, Install!Return
  <2> QED
    BY <1>2, <2>1, <2>2, <2>3
<1>11. ASSUME NEW p \in Installers, Install!FindsStale(p) PROVE InstallInv'
  BY <1>11 DEF Install!FindsStale, Install!GoTo
<1>12. ASSUME NEW p \in Installers, Install!RemoveStale(p) PROVE InstallInv'
  BY <1>12 DEF Install!RemoveStale, Install!GoTo
<1>3. ASSUME NEW p \in Installers, Install!Acquire(p) \/ Install!Download(p) \/ Install!Stage(p) PROVE InstallInv'
  <2>1. CASE Install!Acquire(p)
    BY <2>1 DEF Install!Acquire, Install!GoTo
  <2>2. CASE Install!Download(p)
    BY <2>2 DEF Install!Download, Install!Proceeds, Install!GoTo
  <2>3. CASE Install!Stage(p)
    BY <2>3 DEF Install!Stage, Install!Proceeds, Install!GoTo
  <2> QED
    BY <1>3, <2>1, <2>2, <2>3
<1>4. ASSUME NEW p \in Installers, Install!Recheck(p) \/ Install!InstallFails(p) PROVE InstallInv'
  BY <1>4 DEF Install!Recheck, Install!InstallFails, Install!GoTo, Install!Return, Install!Release
<1>5. ASSUME NEW p \in Installers, Install!Activate(p) PROVE InstallInv'
  BY <1>5 DEF Install!Activate, Install!GoTo, Install!Return, Install!Release
<1>6. ASSUME NEW p \in Installers, Install!Confirm(p) PROVE InstallInv'
  BY <1>6 DEF Install!Confirm, Install!Return, Install!Release
<1>7. ASSUME NEW c \in Cleaners, Install!List(c) \/ Install!Validate(c) PROVE InstallInv'
  <2>1. CASE Install!List(c)
    <3>1. CASE target = Install!Whole
      BY <2>1, <3>1 DEF Install!List, Install!GoTo
    <3>2. CASE target # Install!Whole
      BY <2>1, <3>2 DEF Install!List, Install!Return
    <3> QED
      BY <3>1, <3>2
  <2>2. CASE Install!Validate(c) /\ "marker" \in target
    BY <2>2 DEF Install!Validate, Install!GoTo
  <2>3. CASE Install!Validate(c) /\ "marker" \notin target
    BY <2>3 DEF Install!Validate, Install!Return
  <2> QED
    BY <1>7, <2>1, <2>2, <2>3
<1>8. ASSUME NEW c \in Cleaners, Install!Remove(c) PROVE InstallInv'
  BY <1>8 DEF Install!Remove, Install!GoTo, Install!Return
<1>9. ASSUME NEW p \in Install!Processes, Install!Die(p) PROVE InstallInv'
  BY <1>9 DEF Install!Die, Install!Return
<1>10. CASE Install!LockAges
  BY <1>10 DEF Install!LockAges
<1> QED
  BY <1>1, <1>2, <1>3, <1>4, <1>5, <1>6, <1>7, <1>8, <1>9, <1>10, <1>11, <1>12 DEF Install!Next,
    Install!Install, Install!Clean

\* A module's Cardinality is everybody's.
LEMMA InstallersCounted == ASSUME NEW S PROVE Install!Cardinality(S) = Cardinality(S)
  BY DEF Install!Cardinality, Cardinality

LEMMA OneDownloads ==
  ASSUME OneOwner
  PROVE  InstallWhole
<1>1. ASSUME ~takeover
      PROVE  Cardinality({p \in Installers : installPc[p] \in Install!InLock}) <= 1
  <2> DEFINE S == {p \in Installers : installPc[p] \in Install!InLock}
  <2>1. CASE S = {}
    BY <1>1, <2>1, FS_EmptySet, Z3
  <2>2. CASE S # {}
    <3>1. PICK p \in S : TRUE
      BY <2>2
    <3>2. S = {p}
      BY <1>1, <3>1 DEF OneOwner
    <3> QED
      BY <3>2, FS_Singleton
  <2> QED
    BY <2>1, <2>2
<1> QED
  BY <1>1, InstallersCounted DEF InstallWhole, Install!InstallWhole, OneOwner

\* install() and clean() of browser-manager: while no lock is taken for stale one process at a time
\* works on the target, an install fails to activate or to find it only where that was or a clean
\* came in between, and before a clean the target is complete or absent.
THEOREM InstallsWhole == Install!Spec => []InstallWhole
<1>1. Install!Init => InstallInv
  BY DEF Install!Init, InstallInv, InstallTypes, OneOwner, Install!InLock, Install!Whole,
    Install!Processes
<1>2. InstallInv => InstallWhole
  BY OneDownloads DEF InstallInv
<1> QED
  BY <1>1, <1>2, InstallInvStep, PTL DEF Install!Spec
=============================================================================
