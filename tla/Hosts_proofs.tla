---------------------------- MODULE Hosts_proofs ----------------------------
(***************************************************************************)
(* Proofs about RetryNode for any number of attempts and any backoff, and  *)
(* about the hosts: an application for any calls and shutdowns, the        *)
(* command of a provider with any processes, a debugging session over any  *)
(* tests, the editor over any documents, and the waits of any contexts.    *)
(***************************************************************************)
EXTENDS Hosts, FiniteSetTheorems, WellFoundedInduction, TLAPS

Good == {"Passed", "Eligible"}
Ended == {"done", "dropped"}

\* TypeOK without the delays.
Types ==
  /\ attempts \in 1..MaxAttempts /\ inherits \in BOOLEAN
  /\ pc \in Stages \cup Ended
  /\ parent \in BOOLEAN /\ page \in {"owner", "attempt", "lost"}
  /\ current \in Branches
  /\ tried \in Seq(Attempts)
  /\ result \in Results

\* Attempts are counted, and what was lost in one is among what it retains.
CountInv ==
  /\ Len(tried) <= attempts
  /\ pc \in {"loop", "backoff"} \cup Attempting => Len(tried) < attempts
  /\ pc \in {"judge", "backoff"} => Len(tried) > 0
  /\ pc = "failing" => current.body \in Failures
  /\ pc \in {"closing", "teardown"} => current.body \in Outcomes
  /\ \A k \in DOMAIN tried : tried[k].lost \subseteq tried[k].children \cup {tried[k].outcome}

\* Every attempt the node went on from lost nothing but what may be retried.
LostInv ==
  /\ \A k \in DOMAIN tried : k < Len(tried) => tried[k].lost \subseteq Good
  /\ pc \notin {"judge"} \cup Ended => \A k \in DOMAIN tried : tried[k].lost \subseteq Good

ResultInv ==
  /\ pc \notin Ended => result = [kind |-> "None"]
  /\ pc = "dropped" <=> result.kind = "Dropped"
  /\ result.kind = "Dropped" /\ result.at \in Attempting => Len(tried) < attempts
  /\ result.kind \in {"Passed", "Finalized"} =>
       /\ Len(tried) > 0
       /\ Last.outcome = IF result.kind = "Passed" THEN "Passed" ELSE result.outcome
  /\ result.kind = "Finalized" => result.outcome # "Passed"

\* A child that lost is known only when a node of the running attempt has failed.
ChildrenInv ==
  /\ current.recovered \subseteq current.children
  /\ pc = "running" => ~ChildrenLost

\* What the projection holds when the node is at this stage.
Observations(stage) ==
  {k \in DOMAIN tried : tried[k].observed} \cup {k \in {Ordinal} : ShownAt(stage)}

ProjectionInv ==
  /\ pc \notin Ended => pending = Observations(pc) /\ published = {}
  /\ pc \in Ended =>
       /\ pending = {}
       /\ published = CASE result.kind = "Passed" -> {}
                        [] result.kind = "Dropped" -> Observations(result.at)
                        [] OTHER -> Observations("judge")

Inv == Types /\ CountInv /\ LostInv /\ ResultInv /\ ChildrenInv /\ ProjectionInv /\ PageComesBack

-----------------------------------------------------------------------------
\* A retried attempt lost nothing else.
LEMMA RetryableLost ==
  ASSUME Types, CountInv, Len(tried) > 0, Retryable(Last)
  PROVE  Last.lost \subseteq Good
BY DEF Types, CountInv, Last, Retryable, Good

\* Complete() adds one attempt that keeps what is known of attempts.
LEMMA CompleteAppends ==
  ASSUME Types, CountInv, NEW clean \in BOOLEAN, Complete(clean)
  PROVE  \E a \in Attempts :
           /\ tried' = Append(tried, a)
           /\ a.lost \subseteq a.children \cup {a.outcome}
           /\ a.observed <=> Observed
<1> DEFINE verdict == IF clean THEN Primary ELSE "Aborted"
           a == Completed(verdict)
<1>1. Primary \in Outcomes
  BY DEF Types, CountInv, Complete, Primary, Branches, Failures, Outcomes, Unset
<1>2. verdict \in Outcomes
  BY <1>1 DEF Outcomes
<1>3. Observed \in BOOLEAN
  BY DEF Observed
<1>4. a \in Attempts
  BY <1>2, <1>3 DEF Types, Branches, Attempts, Completed
<1>5. a.lost \subseteq a.children \cup {a.outcome} /\ (a.observed <=> Observed)
  BY DEF Completed
<1>6. tried' = Append(tried, a)
  BY DEF Complete
<1> QED
  BY <1>4, <1>5, <1>6

LEMMA InitInv == Init => Inv
<1> SUFFICES ASSUME Init PROVE Inv
  OBVIOUS
<1>1. Types
  <2>1. Fresh \in Branches
    BY DEF Fresh, Branches, Unset
  <2>2. result \in Results
    BY DEF Init, Results
  <2>3. tried \in Seq(Attempts) /\ Len(tried) = 0
    BY DEF Init
  <2> QED
    BY <2>1, <2>2, <2>3 DEF Init, Types, Stages
<1>2. CountInv /\ LostInv /\ ResultInv
  BY AttemptsAssumption DEF Init, CountInv, LostInv, ResultInv, Attempting, Ended
<1>3. ProjectionInv /\ PageComesBack
  BY DEF Init, ProjectionInv, Observations, ShownAt, PageComesBack, Attempting, Ended
<1>4. ChildrenInv
  BY DEF Init, ChildrenInv, Fresh
<1> QED
  BY <1>1, <1>2, <1>3, <1>4 DEF Inv

\* The end of the node, by any of its return statements.
LEMMA ReturnKeeps ==
  ASSUME Inv, NEW r \in Results, NEW recovered \in BOOLEAN, Return(r, recovered),
         UNCHANGED <<settings, page, current, tried>>, parent' \in BOOLEAN,
         pc \notin Attempting \cup Ended,
         recovered <=> r.kind = "Passed",
         r.kind \notin {"None", "Dropped"},
         r.kind \in {"Passed", "Finalized"} =>
           /\ Len(tried) > 0
           /\ Last.outcome = IF r.kind = "Passed" THEN "Passed" ELSE r.outcome,
         r.kind = "Finalized" => r.outcome # "Passed"
  PROVE  Inv'
<1>1. Types' /\ ChildrenInv'
  BY DEF Inv, Types, ChildrenInv, ChildrenLost, Return, settings, Ended
<1>2. CountInv' /\ LostInv'
  BY DEF Inv, CountInv, LostInv, Return, settings, Attempting, Ended
<1>3. ResultInv'
  BY DEF Return, ResultInv, Last, Ended
<1>4. ProjectionInv'
  <2>1. pc \notin Ended /\ Observations(pc) = Observations("judge")
    BY DEF Inv, Types, Stages, Observations, ShownAt, Attempting, Ended
  <2>2. pending = Observations("judge") /\ published = {}
    BY <2>1 DEF Inv, ProjectionInv
  <2>3. Observations("judge")' = Observations("judge")
    BY DEF Observations, ShownAt, Ordinal, Attempting
  <2> QED
    BY <2>2, <2>3 DEF ProjectionInv, Return, Publish, Ended
<1>5. PageComesBack'
  BY DEF Inv, Types, Stages, PageComesBack, Return, settings, Attempting, Ended
<1> QED
  BY <1>1, <1>2, <1>3, <1>4, <1>5 DEF Inv

\* A step of the attempt's branch.
LEMMA BranchKeeps ==
  ASSUME Inv, current' \in Branches, pc \in Attempting, pc' \in Attempting,
         UNCHANGED <<settings, parent, page, tried, waited, published, result>>,
         pc' = "failing" => current'.body \in Failures,
         pc' \in {"closing", "teardown"} => current'.body \in Outcomes,
         ChildrenInv',
         pending' = Observations(pc)'
  PROVE  Inv'
<1>1. Types' /\ CountInv' /\ LostInv' /\ ResultInv'
  BY DEF Inv, Types, Stages, CountInv, LostInv, ResultInv, Last, settings, Attempting, Ended
<1>2. ProjectionInv' /\ PageComesBack'
  BY DEF Inv, ProjectionInv, PageComesBack, settings, Attempting, Ended
<1> QED
  BY <1>1, <1>2 DEF Inv

LEMMA StepInv == Inv /\ [Next]_vars => Inv'
<1> SUFFICES ASSUME Inv, [Next]_vars PROVE Inv'
  OBVIOUS
<1> USE DEF Inv
<1>0. ASSUME UNCHANGED tried, NEW s, NEW t, ShownAt(t)' <=> ShownAt(s)
      PROVE  Observations(t)' = Observations(s)
  BY <1>0 DEF Observations, Ordinal
<1>1. CASE BeginAttempt
  <2>1. Types' /\ CountInv' /\ LostInv' /\ ResultInv' /\ ChildrenInv'
    BY <1>1 DEF BeginAttempt, Types, CountInv, LostInv, ResultInv, ChildrenInv, ChildrenLost, Last, settings,
      Fresh, Branches, Stages, Attempting, Ended
  <2>2. Observations(pc)' = Observations(pc)
    BY <1>0, <1>1 DEF BeginAttempt, ShownAt, Attempting
  <2>3. ProjectionInv' /\ PageComesBack'
    BY <1>1, <2>2 DEF BeginAttempt, ProjectionInv, PageComesBack, Types, settings, Ended
  <2> QED
    BY <2>1, <2>3
<1>2. CASE CancelledBetween \/ TimerCancelled
  <2>1. [kind |-> "Cancelled"] \in Results
    BY DEF Results
  <2> QED
    BY <1>2, <2>1, ReturnKeeps DEF CancelledBetween, TimerCancelled, Types, Attempting, Ended,
      settings
<1>3. CASE TimerRejected
  <2>1. [kind |-> "Internal"] \in Results
    BY DEF Results
  <2> QED
    BY <1>3, <2>1, ReturnKeeps DEF TimerRejected, Types, Attempting, Ended, settings
<1>4. CASE AttemptPassed
  <2> DEFINE r == [kind |-> IF parent THEN "Cancelled" ELSE "Passed"]
  <2>1. r \in Results /\ (~parent <=> r.kind = "Passed") /\ r.kind \notin {"None", "Finalized", "Dropped"}
    BY DEF Results, Types
  <2>2. Len(tried) > 0
    BY <1>4 DEF AttemptPassed, CountInv
  <2> QED
    BY <1>4, <2>1, <2>2, ReturnKeeps DEF AttemptPassed, Types, Attempting, Ended, settings
<1>5. CASE GiveUp
  <2> DEFINE r == [kind |-> "Finalized", outcome |-> Last.outcome]
  <2>1. Len(tried) > 0
    BY <1>5 DEF GiveUp, CountInv
  <2>2. Last.outcome \in Outcomes
    <3>1. tried[Len(tried)] \in Attempts
      BY <2>1 DEF Types
    <3> QED
      BY <3>1 DEF Last, Attempts
  <2>3. r \in Results /\ r.kind = "Finalized" /\ r.outcome = Last.outcome
    BY <2>2 DEF Results
  <2> QED
    BY <1>5, <2>1, <2>3, ReturnKeeps DEF GiveUp, Types, Attempting, Ended, settings
<1>6. CASE BeginBackoff
  <2>1. Last.lost \subseteq Good
    BY <1>6, RetryableLost DEF BeginBackoff, CountInv
  <2>2. LostInv'
    BY <1>6, <2>1 DEF BeginBackoff, LostInv, Last, Types, CountInv, Ended
  <2>3. Types' /\ CountInv' /\ ResultInv' /\ ChildrenInv'
    BY <1>6 DEF BeginBackoff, Types, CountInv, ResultInv, ChildrenInv, ChildrenLost, Last, settings, Stages,
      Attempting, Ended
  <2>4. Observations(pc)' = Observations(pc)
    BY <1>0, <1>6 DEF BeginBackoff, ShownAt, Attempting
  <2>5. ProjectionInv' /\ PageComesBack'
    BY <1>6, <2>4 DEF BeginBackoff, ProjectionInv, PageComesBack, settings, Attempting, Ended
  <2> QED
    BY <2>2, <2>3, <2>5
<1>7. CASE TimerReady
  <2>1. Types' /\ CountInv' /\ LostInv' /\ ResultInv' /\ ChildrenInv'
    BY <1>7 DEF TimerReady, Types, CountInv, LostInv, ResultInv, ChildrenInv, ChildrenLost, Last, settings,
      Stages, Attempting, Ended
  <2>2. Observations(pc)' = Observations(pc)
    BY <1>0, <1>7 DEF TimerReady, ShownAt, Attempting
  <2>3. ProjectionInv' /\ PageComesBack'
    BY <1>7, <2>2 DEF TimerReady, ProjectionInv, PageComesBack, settings, Attempting, Ended
  <2> QED
    BY <2>1, <2>3
<1>8. CASE \E others \in {{"Eligible"}, {"Ineligible"}, {"Cancelled"}} : ChildrenWon(others)
  <2> PICK others \in {{"Eligible"}, {"Ineligible"}, {"Cancelled"}} : ChildrenWon(others)
    BY <1>8
  <2>1. current' \in Branches /\ current'.body = current.body
    BY DEF ChildrenWon, Types, Branches, Outcomes
  <2>2. ChildrenInv'
    BY DEF ChildrenWon, ChildrenInv, ChildrenLost, Types, Branches, Failures
  <2>3. Observations(pc)' = Observations(pc)
    BY <1>0 DEF ChildrenWon, ShownAt
  <2> QED
    BY <2>1, <2>2, <2>3, BranchKeeps DEF ChildrenWon, Attempting, Ended, ProjectionInv
<1>9. CASE \E cause \in {"own", "parent"} : Interrupt(cause)
  <2> PICK cause \in {"own", "parent"} : Interrupt(cause)
    BY <1>9
  <2>1. /\ current' \in Branches /\ current'.body = current.body
        /\ current'.children = current.children /\ current'.recovered = current.recovered
    BY DEF Interrupt, Types, Branches
  <2>2. ChildrenInv' /\ (ChildrenLost' <=> ChildrenLost)
    BY <2>1 DEF Interrupt, ChildrenInv, ChildrenLost
  <2>3. Observations(pc)' = Observations(pc)
    BY <1>0, <2>2 DEF Interrupt, ShownAt
  <2> QED
    BY <2>1, <2>2, <2>3, BranchKeeps DEF Interrupt, Attempting, Ended, CountInv, ProjectionInv
<1>10. CASE BodyPasses \/ BodyFails \/ BodyStops
  <2>1. /\ \E o \in Outcomes : current' = [current EXCEPT !.body = o]
        /\ pc \in {"running", "failing"} /\ pc' = "closing"
        /\ UNCHANGED <<settings, parent, page, tried, waited, pending, published, result>>
    BY <1>10 DEF BodyPasses, BodyFails, BodyStops, EndBody, CountInv, Outcomes, Failures
  <2>2. /\ current' \in Branches /\ current'.body \in Outcomes
        /\ current'.children = current.children /\ current'.recovered = current.recovered
    BY <2>1 DEF Types, Branches
  <2>3. ChildrenInv' /\ (ChildrenLost' <=> ChildrenLost)
    BY <2>1, <2>2 DEF ChildrenInv, ChildrenLost
  <2>4. Observations(pc)' = Observations(pc)
    BY <1>0, <2>1, <2>3 DEF ShownAt, ChildrenInv, Attempting
  <2> QED
    BY <2>1, <2>2, <2>3, <2>4, BranchKeeps DEF Attempting, Ended, ProjectionInv
<1>11. ASSUME NEW o \in Failures, NEW children \in SUBSET Outcomes, Fail(o, children),
              children = {} \/ current.children = {},
              pending' = IF children \cap Failures # {} THEN pending \cup {Ordinal} ELSE pending
       PROVE  Inv'
  <2>1. /\ current' \in Branches /\ current'.body = o /\ current'.recovered = current.recovered
        /\ current'.children = current.children \cup children
    BY <1>11 DEF Fail, Types, Branches, Failures
  <2>2. pc = "running" /\ ~ChildrenLost /\ current.recovered \subseteq current.children
    BY <1>11 DEF Fail, ChildrenInv
  <2>3. ChildrenLost' <=> children \cap Failures # {}
    BY <1>11, <2>1, <2>2 DEF ChildrenLost
  <2>4. ChildrenInv'
    BY <1>11, <2>1, <2>2 DEF ChildrenInv, Fail
  <2>5. pending' = Observations(pc)'
    <3>1. pending = {k \in DOMAIN tried : tried[k].observed}
      BY <2>2 DEF ProjectionInv, Observations, ShownAt, Ended
    <3>2. ShownAt(pc)' <=> children \cap Failures # {}
      BY <1>11, <2>3 DEF Fail, ShownAt, Attempting
    <3>3. UNCHANGED tried
      BY <1>11 DEF Fail
    <3> QED
      BY <1>11, <3>1, <3>2, <3>3 DEF Observations, Ordinal
  <2> QED
    BY <1>11, <2>1, <2>2, <2>4, <2>5, BranchKeeps DEF Fail, Attempting
<1>12. CASE \E o \in Failures : StepFails(o)
  BY <1>11, <1>12 DEF StepFails
<1>13. CASE \E o, p \in Failures : ChildrenLose({o, p}, o)
  <2> PICK o \in Failures, p \in Failures : ChildrenLose({o, p}, o)
    BY <1>13
  <2>1. {o, p} \in SUBSET Outcomes
    BY DEF Failures
  <2> QED
    BY <1>11, <2>1 DEF ChildrenLose
<1>14. CASE Finalize
  <2>1. ChildrenInv' /\ (ChildrenLost' <=> ChildrenLost) /\ Primary' = Primary
    BY <1>14 DEF Finalize, ChildrenInv, ChildrenLost, Primary
  <2>2. pending' = Observations(pc)'
    <3>1. pending = {k \in DOMAIN tried : tried[k].observed} \cup {k \in {Ordinal} : ChildrenLost}
      BY <1>14 DEF Finalize, ProjectionInv, Observations, ShownAt, Attempting, Ended
    <3>2. ShownAt(pc)' <=> ChildrenLost \/ Primary \in Failures
      BY <1>14, <2>1 DEF Finalize, ShownAt, Attempting
    <3>3. UNCHANGED tried /\ pending' = IF Primary \in Failures THEN pending \cup {Ordinal} ELSE pending
      BY <1>14 DEF Finalize
    <3> QED
      BY <3>1, <3>2, <3>3 DEF Observations, Ordinal
  <2> QED
    BY <1>14, <2>1, <2>2, BranchKeeps DEF Finalize, Types, CountInv, Attempting
<1>15. CASE \E clean \in BOOLEAN : Complete(clean)
  <2> PICK clean \in BOOLEAN : Complete(clean)
    BY <1>15
  <2> PICK a \in Attempts : /\ tried' = Append(tried, a)
                            /\ a.lost \subseteq a.children \cup {a.outcome}
                            /\ a.observed <=> Observed
    BY CompleteAppends
  <2>0. /\ pc = "teardown" /\ pc' = "judge"
        /\ page' = IF page = "attempt" THEN "owner" ELSE page
        /\ UNCHANGED <<settings, parent, current, waited, pending, published, result>>
    BY DEF Complete
  <2>1. /\ Len(tried') = Len(tried) + 1
        /\ tried'[Len(tried) + 1] = a
        /\ \A k \in DOMAIN tried : tried'[k] = tried[k]
        /\ DOMAIN tried = 1..Len(tried) /\ DOMAIN tried' = 1..(Len(tried) + 1)
        /\ tried' \in Seq(Attempts) /\ Len(tried) \in Nat
    BY DEF Types
  <2>2. Types' /\ ChildrenInv'
    <3>1. current \in Branches /\ result \in Results
      BY DEF Types
    <3> QED
      BY <2>0, <2>1, <3>1 DEF Types, Stages, settings, ChildrenInv, ChildrenLost
  <2>3. CountInv'
    BY <2>0, <2>1 DEF CountInv, ResultInv, Types, settings, Attempting, Ended
  <2>4. LostInv'
    BY <2>0, <2>1 DEF LostInv, Attempting, Ended
  <2>5. ResultInv'
    BY <2>0 DEF ResultInv, Ended
  <2>6. Observations(pc)' = Observations(pc)
    <3>1. ~ShownAt(pc)' /\ (ShownAt(pc) <=> a.observed)
      BY <2>0 DEF ShownAt, Observed, Attempting
    <3>2. {k \in DOMAIN tried' : tried'[k].observed} =
            {k \in DOMAIN tried : tried[k].observed} \cup {k \in {Len(tried) + 1} : a.observed}
      BY <2>1
    <3> QED
      BY <3>1, <3>2 DEF Observations, Ordinal
  <2>7. ProjectionInv' /\ PageComesBack'
    BY <2>0, <2>6 DEF ProjectionInv, PageComesBack, Types, settings, Attempting, Ended
  <2> QED
    BY <2>2, <2>3, <2>4, <2>5, <2>7
<1>16. CASE CancelParent
  <2>1. Types' /\ CountInv' /\ LostInv' /\ ResultInv' /\ ChildrenInv'
    BY <1>16 DEF CancelParent, Types, CountInv, LostInv, ResultInv, ChildrenInv, ChildrenLost, Last, settings
  <2>2. Observations(pc)' = Observations(pc)
    BY <1>0, <1>16 DEF CancelParent, ShownAt, ChildrenLost, Primary
  <2>3. ProjectionInv' /\ PageComesBack'
    BY <1>16, <2>2 DEF CancelParent, ProjectionInv, PageComesBack, settings, Ended
  <2> QED
    BY <2>1, <2>3
<1>17. CASE Abandon
  <2>0. pc \in Stages /\ pc \notin Ended /\ result' = [kind |-> "Dropped", at |-> pc] /\ result' \in Results
    BY <1>17 DEF Abandon, Types, Results, Ended
  <2>1. Types' /\ CountInv' /\ LostInv' /\ ResultInv' /\ ChildrenInv'
    BY <1>17, <2>0 DEF Abandon, Publish, Types, CountInv, LostInv, ResultInv, ChildrenInv, ChildrenLost, Last,
      settings, Attempting, Ended
  <2>2. Observations(result.at)' = Observations(pc)
    BY <1>17, <2>0 DEF Abandon, Observations, Ordinal, ShownAt, ChildrenLost, Primary
  <2>3. ProjectionInv' /\ PageComesBack'
    BY <1>17, <2>0, <2>2 DEF Abandon, Publish, ProjectionInv, PageComesBack, settings, Attempting, Ended
  <2> QED
    BY <2>1, <2>3
<1>18. CASE UNCHANGED vars
  <2>1. Types' /\ CountInv' /\ LostInv' /\ ResultInv' /\ ChildrenInv'
    BY <1>18 DEF vars, Types, CountInv, LostInv, ResultInv, ChildrenInv, ChildrenLost, Last
  <2>2. \A s : Observations(s)' = Observations(s)
    BY <1>18 DEF vars, Observations, Ordinal, ShownAt, ChildrenLost, Primary
  <2>3. ProjectionInv' /\ PageComesBack'
    BY <1>18, <2>2 DEF vars, ProjectionInv, PageComesBack
  <2> QED
    BY <2>1, <2>3
<1> QED
  BY <1>1, <1>2, <1>3, <1>4, <1>5, <1>6, <1>7, <1>8, <1>9, <1>10, <1>12, <1>13, <1>14, <1>15,
     <1>16, <1>17, <1>18 DEF Next

LEMMA Invariance == Spec => []Inv
BY InitInv, StepInv, PTL DEF Spec

-----------------------------------------------------------------------------
(* The delays                                                              *)

\* What Delay() computes, for a backoff b.
CappedBy(b, d) == IF d < b.max THEN d ELSE b.max
DelayOf(b, retry) ==
  LET delay[k \in 0..retry] == IF k = 0 THEN CappedBy(b, b.initial) ELSE CappedBy(b, 2 * delay[k - 1])
  IN  delay[retry]

\* f tells the delays up to the one before retry n.
Doubles(b, f, n) ==
  f = [k \in 0..n |-> IF k = 0 THEN CappedBy(b, b.initial) ELSE CappedBy(b, 2 * f[k - 1])]

\* A delay was slept after each attempt but a running or a last one, and each is
\* what Delay() says of its retry.
BackoffInv ==
  /\ backoff \in Backoffs
  /\ waited \in Seq(Nat)
  /\ pc \notin Ended => Len(tried) = Len(waited) + (IF pc \in {"judge", "backoff"} THEN 1 ELSE 0)
  /\ \A k \in DOMAIN waited : waited[k] = DelayOf(backoff, k - 1)

\* The recursive function of Delay() is one that tells the delays ...
LEMMA DelayChosen ==
  ASSUME NEW b, NEW n \in Nat
  PROVE DelayOf(b, n) = (CHOOSE f : Doubles(b, f, n))[n]
BY DEF DelayOf, Doubles

\* A non-empty set of naturals has a least element.
LEMMA LeastExists ==
  ASSUME NEW T, T \subseteq Nat, T # {}
  PROVE  \E m \in T : \A k \in T : m <= k
<1> DEFINE Less == {s \in Nat \X Nat : s[1] < s[2]}
<1>1. IsWellFoundedOn(Less, Nat)
  BY NatLessThanWellFounded, Zenon DEF OpToRel
<1>2. PICK m \in T : \A k \in T : ~(<<k, m>> \in Less)
  <2> HIDE DEF Less
  <2>1. QED
    BY <1>1, WFMin
<1>3. ASSUME NEW k \in T PROVE m <= k
  <2>1. k \in Nat /\ m \in Nat /\ <<k, m>> \in Nat \X Nat
    BY Zenon
  <2>2. ~(k < m)
    BY <1>2, <2>1
  <2>3. QED
    BY <2>1, <2>2
<1>4. QED
  BY <1>3

\* ... which exists for any number of retries.
LEMMA DelaysExist ==
  ASSUME NEW b, NEW n \in Nat
  PROVE  \E f : Doubles(b, f, n)
<1> DEFINE Missing == {m \in Nat : ~ \E f : Doubles(b, f, m)}
<1>1. SUFFICES ASSUME Missing # {} PROVE FALSE
  OBVIOUS
<1>2. PICK m \in Missing : \A k \in Missing : m <= k
  BY <1>1, LeastExists
<1>3. CASE m = 0
  <2> DEFINE f == [k \in 0..0 |-> CappedBy(b, b.initial)]
  <2>1. Doubles(b, f, 0)
    BY DEF Doubles
  <2> QED
    BY <1>2, <1>3, <2>1
<1>4. CASE m # 0
  <2>1. m \in Nat /\ m - 1 \in Nat /\ m - 1 \notin Missing
    BY <1>2, <1>4
  <2>2. PICK f : Doubles(b, f, m - 1)
    BY <2>1
  <2> DEFINE g == [k \in 0..m |-> IF k = m THEN CappedBy(b, 2 * f[m - 1]) ELSE f[k]]
  <2>3. ASSUME NEW k \in 0..m
        PROVE  g[k] = IF k = 0 THEN CappedBy(b, b.initial) ELSE CappedBy(b, 2 * g[k - 1])
    <3>1. CASE k = m
      <4>1. g[k - 1] = f[m - 1] /\ k # 0
        BY <1>4, <2>1, <3>1
      <4> QED
        BY <3>1, <4>1
    <3>2. CASE k # m
      <4>1. k \in 0..(m - 1) /\ g[k] = f[k]
        BY <2>1, <3>2
      <4>2. k # 0 => k - 1 \in 0..m /\ k - 1 # m /\ g[k - 1] = f[k - 1]
        BY <2>1, <3>2
      <4>3. f[k] = IF k = 0 THEN CappedBy(b, b.initial) ELSE CappedBy(b, 2 * f[k - 1])
        <5> HIDE DEF g
        <5> QED
          BY <2>2, <4>1 DEF Doubles
      <4> HIDE DEF g
      <4> QED
        BY <4>1, <4>2, <4>3
    <3> QED
      BY <3>1, <3>2
  <2>4. g = [k \in 0..m |-> g[k]]
    OBVIOUS
  <2>5. Doubles(b, g, m)
    <3> HIDE DEF g
    <3> QED
      BY <2>3, <2>4, Zenon DEF Doubles
  <2> QED
    BY <1>2, <2>5
<1> QED
  BY <1>3, <1>4

\* Two that tell the delays agree where both do.
LEMMA DelaysAgree ==
  ASSUME NEW b, NEW m \in Nat, NEW n \in Nat, m <= n,
         NEW f, NEW g, Doubles(b, f, m), Doubles(b, g, n)
  PROVE  \A k \in 0..m : f[k] = g[k]
<1> DEFINE Differ == {k \in 0..m : f[k] # g[k]}
<1>1. SUFFICES ASSUME Differ # {} PROVE FALSE
  BY Zenon
<1>a. Differ \subseteq Nat
  OBVIOUS
<1>2. PICK d \in Differ : \A k \in Differ : d <= k
  <2> HIDE DEF Differ
  <2> QED
    BY <1>1, <1>a, LeastExists
<1>3. /\ f[d] = IF d = 0 THEN CappedBy(b, b.initial) ELSE CappedBy(b, 2 * f[d - 1])
      /\ g[d] = IF d = 0 THEN CappedBy(b, b.initial) ELSE CappedBy(b, 2 * g[d - 1])
  <2>1. d \in 0..m /\ d \in 0..n
    OBVIOUS
  <2> QED
    BY <2>1 DEF Doubles
<1>4. ASSUME d # 0 PROVE f[d - 1] = g[d - 1]
  <2>1. d - 1 \in 0..m /\ ~(d <= d - 1)
    BY <1>4
  <2> QED
    BY <1>2, <2>1
<1> QED
  BY <1>2, <1>3, <1>4

\* RetryBackoff::delay() doubles the delay of the retry before it, up to the cap.
LEMMA DelayDoubles ==
  ASSUME NEW b, NEW n \in Nat
  PROVE  /\ DelayOf(b, 0) = CappedBy(b, b.initial)
         /\ DelayOf(b, n + 1) = CappedBy(b, 2 * DelayOf(b, n))
<1> DEFINE F(k) == CHOOSE f : Doubles(b, f, k)
<1>1. \A k \in Nat : Doubles(b, F(k), k) /\ DelayOf(b, k) = F(k)[k]
  BY DelaysExist, DelayChosen
<1> HIDE DEF F
<1>2. DelayOf(b, 0) = CappedBy(b, b.initial)
  <2>1. Doubles(b, F(0), 0) /\ DelayOf(b, 0) = F(0)[0]
    BY <1>1
  <2> QED
    BY <2>1 DEF Doubles
<1>3. n + 1 \in Nat /\ n <= n + 1 /\ n \in 0..n /\ n + 1 \in 0..(n + 1) /\ (n + 1) - 1 = n /\ n + 1 # 0
  OBVIOUS
<1>4. F(n)[n] = F(n + 1)[n]
  BY <1>1, <1>3, DelaysAgree
<1>5. F(n + 1)[n + 1] = CappedBy(b, 2 * F(n + 1)[n])
  <2>1. Doubles(b, F(n + 1), n + 1)
    BY <1>1, <1>3
  <2> QED
    BY <1>3, <2>1 DEF Doubles
<1> QED
  BY <1>1, <1>2, <1>3, <1>4, <1>5

LEMMA DelayNat ==
  ASSUME NEW b \in Backoffs, NEW n \in Nat
  PROVE  DelayOf(b, n) \in Nat
<1>1. b.initial \in Nat /\ b.max \in Nat
  BY BackoffAssumption
<1> DEFINE Odd == {k \in Nat : DelayOf(b, k) \notin Nat}
<1>2. SUFFICES ASSUME Odd # {} PROVE FALSE
  BY Zenon
<1>3. PICK d \in Odd : \A k \in Odd : d <= k
  BY <1>2, LeastExists
<1>4. d \in Nat /\ DelayOf(b, d) \notin Nat
  OBVIOUS
<1>5. d # 0
  BY <1>1, <1>4, DelayDoubles DEF CappedBy
<1>6. d - 1 \in Nat /\ (d - 1) + 1 = d /\ ~(d <= d - 1)
  BY <1>4, <1>5
<1>7. DelayOf(b, d - 1) \in Nat
  BY <1>3, <1>6
<1>8. DelayOf(b, d) = CappedBy(b, 2 * DelayOf(b, d - 1))
  BY <1>6, DelayDoubles
<1> QED
  BY <1>1, <1>4, <1>7, <1>8 DEF CappedBy

LEMMA BackoffStep == Inv /\ BackoffInv /\ [Next]_vars => BackoffInv'
<1> SUFFICES ASSUME Inv, BackoffInv, [Next]_vars PROVE BackoffInv'
  OBVIOUS
<1>0. Types /\ CountInv
  BY DEF Inv
<1> USE DEF BackoffInv
<1>1. CASE TimerReady
  <2> DEFINE d == Delay(Len(tried) - 1)
  <2>1. Len(waited) \in Nat /\ Len(tried) = Len(waited) + 1 /\ Len(tried) - 1 = Len(waited)
    BY <1>0, <1>1 DEF TimerReady, Types, Ended
  <2>2. d = DelayOf(backoff, Len(waited)) /\ d \in Nat
    BY <2>1, DelayNat DEF Delay, DelayOf, Capped, CappedBy
  <2>3. /\ waited' = Append(waited, d) /\ pc' = "loop"
        /\ UNCHANGED <<backoff, tried>>
    BY <1>1 DEF TimerReady, settings
  <2> HIDE DEF d
  <2>4. /\ waited' \in Seq(Nat) /\ Len(waited') = Len(waited) + 1
        /\ \A k \in DOMAIN waited' :
             waited'[k] = IF k = Len(waited) + 1 THEN d ELSE waited[k]
        /\ DOMAIN waited = 1..Len(waited) /\ DOMAIN waited' = 1..(Len(waited) + 1)
    BY <2>2, <2>3
  <2>5. ASSUME NEW k \in DOMAIN waited' PROVE waited'[k] = DelayOf(backoff, k - 1)
    <3>1. CASE k = Len(waited) + 1
      <4>1. k - 1 = Len(waited)
        BY <2>1, <3>1
      <4> QED
        BY <2>2, <2>4, <3>1, <4>1
    <3>2. CASE k # Len(waited) + 1
      <4>1. k \in DOMAIN waited
        <5>1. k \in 1..(Len(waited) + 1)
          BY <2>4
        <5>2. k \in 1..Len(waited)
          BY <2>1, <3>2, <5>1
        <5> QED
          BY <2>4, <5>2
      <4> QED
        BY <2>4, <3>2, <4>1
    <3> QED
      BY <3>1, <3>2
  <2>6. Len(tried') = Len(waited')
    BY <2>1, <2>3, <2>4
  <2> QED
    BY <2>3, <2>4, <2>5, <2>6
<1>2. CASE \E clean \in BOOLEAN : Complete(clean)
  <2> PICK clean \in BOOLEAN : Complete(clean)
    BY <1>2
  <2>1. \E a \in Attempts : tried' = Append(tried, a)
    BY <1>0, CompleteAppends
  <2>2. Len(tried') = Len(tried) + 1 /\ Len(tried) \in Nat
    BY <1>0, <2>1 DEF Types
  <2> QED
    BY <2>2 DEF Complete, settings, Ended
<1>3. CASE ~TimerReady /\ ~(\E clean \in BOOLEAN : Complete(clean))
  <2>1. UNCHANGED <<backoff, waited, tried>>
    BY <1>3 DEF Next, vars, settings, BeginAttempt, CancelledBetween, AttemptPassed, GiveUp,
      BeginBackoff, TimerCancelled, TimerRejected, ChildrenWon, Interrupt, BodyPasses, BodyFails,
      BodyStops, EndBody, StepFails, ChildrenLose, Fail, Finalize, CancelParent, Abandon
  <2>2. pc' \notin Ended => /\ pc \notin Ended
                            /\ pc' \in {"judge", "backoff"} <=> pc \in {"judge", "backoff"}
    BY <1>3 DEF Next, vars, BeginAttempt, CancelledBetween, AttemptPassed, GiveUp,
      BeginBackoff, TimerCancelled, TimerRejected, ChildrenWon, Interrupt, BodyPasses, BodyFails,
      BodyStops, EndBody, StepFails, ChildrenLose, Fail, Finalize, CancelParent, Abandon, Return, Ended
  <2> QED
    BY <2>1, <2>2
<1> QED
  BY <1>1, <1>2, <1>3

LEMMA BackoffInvariance == Spec => [](Inv /\ BackoffInv)
<1>1. Init => BackoffInv
  BY DEF Init, BackoffInv
<1> QED
  BY <1>1, BackoffStep, InitInv, StepInv, PTL DEF Spec

-----------------------------------------------------------------------------
(* The theorems                                                            *)

\* Type correctness of the retry node.
THEOREM TypeCorrect == Spec => []TypeOK
<1>1. Inv /\ BackoffInv => TypeOK
  <2> SUFFICES ASSUME Inv, BackoffInv PROVE TypeOK
    OBVIOUS
  <2>1. Types /\ CountInv /\ ProjectionInv
    BY DEF Inv
  <2>2. Len(tried) \in Nat /\ Len(tried) <= attempts /\ attempts \in Nat /\ DOMAIN tried = 1..Len(tried)
    BY <2>1 DEF Types, CountInv
  <2>3. ASSUME NEW stage, stage \in Attempting => Len(tried) < attempts
        PROVE  Observations(stage) \subseteq 1..attempts
    <3>1. ShownAt(stage) => Ordinal \in 1..attempts
      BY <2>2, <2>3 DEF ShownAt, Ordinal, Attempting
    <3>2. DOMAIN tried \subseteq 1..attempts
      BY <2>2
    <3> QED
      BY <3>1, <3>2 DEF Observations
  <2>4. pending \subseteq 1..attempts /\ published \subseteq 1..attempts
    <3>1. CASE pc \notin Ended
      BY <2>1, <2>3, <3>1 DEF ProjectionInv, CountInv
    <3>2. CASE pc \in Ended
      <4>1. Observations("judge") \subseteq 1..attempts
        BY <2>3 DEF Attempting
      <4>2. result.kind = "Dropped" => Observations(result.at) \subseteq 1..attempts
        BY <2>3 DEF Inv, ResultInv
      <4> QED
        BY <2>1, <3>2, <4>1, <4>2 DEF ProjectionInv
    <3> QED
      BY <3>1, <3>2
  <2> QED
    BY <2>1, <2>2, <2>4 DEF TypeOK, Types, BackoffInv, Ended
<1> QED
  BY <1>1, BackoffInvariance, PTL

\* No attempt is repeated over a failure that must not be, and the verdict is the
\* last attempt's.
THEOREM OnlyEligibleRepeated == Spec => []AttemptsJustifyVerdict
<1>1. Inv => AttemptsJustifyVerdict
  BY DEF Inv, AttemptsJustifyVerdict, Types, CountInv, LostInv, ResultInv, Last, Good, Ended
<1> QED
  BY <1>1, Invariance, PTL

\* Failures reach the parent's observations exactly if the node did not recover them.
THEOREM FailuresPublished == Spec => []ObservationsHonest
<1>1. Inv => ObservationsHonest
  <2> SUFFICES ASSUME Inv, pc \in Ended, result.kind # "Passed"
               PROVE  published = {k \in DOMAIN tried : tried[k].observed} \cup
                        {k \in {Ordinal} : result.kind = "Dropped" /\ ShownAt(result.at)}
    BY DEF Inv, ObservationsHonest, ProjectionInv, Ended
  <2>1. ~ShownAt("judge")
    BY DEF ShownAt, Attempting
  <2> QED
    BY <2>1 DEF Inv, ProjectionInv, Observations
<1> QED
  BY <1>1, Invariance, PTL

\* The page and the clock of a retry: what is borrowed comes back, and the delays
\* double up to the largest.
THEOREM RetriedInPlace == Spec => []RetryInPlace
<1>1. Inv /\ BackoffInv => BackoffDoubles
  <2> SUFFICES ASSUME Inv, BackoffInv, NEW k \in DOMAIN waited
               PROVE  /\ k = 1 => waited[k] = backoff.initial
                      /\ k > 1 => LET doubled == 2 * waited[k - 1] IN
                           waited[k] = IF doubled < backoff.max THEN doubled ELSE backoff.max
    BY DEF BackoffDoubles
  <2>1. /\ k \in 1..Len(waited) /\ Len(waited) \in Nat
        /\ waited[k] = DelayOf(backoff, k - 1)
    BY DEF BackoffInv
  <2>2. CASE k = 1
    <3>1. waited[k] = CappedBy(backoff, backoff.initial)
      BY <2>1, <2>2, DelayDoubles
    <3>2. backoff.initial \in Nat /\ backoff.max \in Nat /\ backoff.initial <= backoff.max
      BY BackoffAssumption DEF BackoffInv
    <3> QED
      BY <2>2, <3>1, <3>2 DEF CappedBy
  <2>3. CASE k > 1
    <3>1. k - 1 \in DOMAIN waited /\ k - 2 \in Nat /\ (k - 1) - 1 = k - 2 /\ (k - 2) + 1 = k - 1
      BY <2>1, <2>3 DEF BackoffInv
    <3>2. waited[k - 1] = DelayOf(backoff, k - 2)
      BY <3>1 DEF BackoffInv
    <3>3. DelayOf(backoff, k - 1) = CappedBy(backoff, 2 * DelayOf(backoff, k - 2))
      BY <3>1, DelayDoubles
    <3> QED
      BY <2>1, <2>3, <3>2, <3>3 DEF CappedBy
  <2> QED
    BY <2>1, <2>2, <2>3
<1>2. Inv => PageComesBack
  BY DEF Inv
<1> QED
  BY <1>1, <1>2, BackoffInvariance, PTL DEF RetryInPlace

-----------------------------------------------------------------------------
(* AppProvider: at most one application runs                               *)

AtWork == {"binding", "accepting", "checking", "greeting", "failing"}   \* with the mutex

AppTypes ==
  /\ queue \in Seq(App!Tasks)
  /\ at \in [App!Tasks -> {"new", "locking", "fetching", "calling", "draining", "killing", "over", "dropped"} \cup AtWork]
  /\ client \in [App!Tasks -> 0..MaxStarts] /\ active \in 0..MaxStarts /\ starting \in 0..MaxStarts
  /\ state \in {"stopped", "failed", "bridge"}
  /\ process \in [App!Starts -> {"none", "running", "killed", "gone"}]

\* Whoever starts an application has the mutex all the while, and the state is empty.
HolderStarts == \A t \in App!Tasks : at[t] \in AtWork => App!Holds(t) /\ state = "stopped"

\* A process is being started by whoever has the mutex, and killed before that fails.
StarterKnown ==
  /\ starting # 0 => \E t \in App!Tasks : at[t] \in AtWork \ {"binding"}
  /\ \A t \in App!Tasks : at[t] = "failing" => \A p \in App!Starts : starting = p => process[p] # "running"

AppInv == AppTypes /\ HolderStarts /\ StarterKnown /\ App!OneApplication

\* A module's Cardinality is everybody's.
LEMMA StartsCounted == ASSUME NEW S PROVE App!Cardinality(S) = Cardinality(S)
  BY DEF App!Cardinality, Cardinality

LEMMA LeavesHead ==
  ASSUME queue \in Seq(App!Tasks), NEW t \in App!Tasks, App!Leaves(t)
  PROVE  /\ queue' \in Seq(App!Tasks)
         /\ \A u \in App!Tasks : App!Holds(u) /\ u # t => App!Holds(u)'
<1>1. CASE t \notin App!Range(queue)
  BY <1>1 DEF App!Leaves, App!Holds
<1>2. CASE t \in App!Range(queue)
  <2> DEFINE k == CHOOSE k \in DOMAIN queue : queue[k] = t
  <2>1. k \in 1..Len(queue) /\ queue[k] = t
    BY <1>2 DEF App!Range
  <2>2. queue' = SubSeq(queue, 1, k - 1) \o SubSeq(queue, k + 1, Len(queue))
    BY <1>2 DEF App!Leaves, App!RemoveAt
  <2> HIDE DEF k
  <2>3. /\ SubSeq(queue, 1, k - 1) \in Seq(App!Tasks) /\ SubSeq(queue, k + 1, Len(queue)) \in Seq(App!Tasks)
        /\ Len(SubSeq(queue, 1, k - 1)) = k - 1
        /\ k > 1 => SubSeq(queue, 1, k - 1)[1] = queue[1]
    BY <2>1
  <2>4. queue' \in Seq(App!Tasks)
    BY <2>2, <2>3
  <2>5. ASSUME NEW u \in App!Tasks, App!Holds(u), u # t
        PROVE  App!Holds(u)'
    <3>1. queue[1] = u /\ k > 1
      BY <2>1, <2>5 DEF App!Holds
    <3> DEFINE a == SubSeq(queue, 1, k - 1)
               b == SubSeq(queue, k + 1, Len(queue))
    <3>2. a \in Seq(App!Tasks) /\ b \in Seq(App!Tasks) /\ Len(a) > 0 /\ a[1] = u /\ queue' = a \o b
      BY <2>1, <2>2, <2>3, <3>1
    <3> HIDE DEF a, b
    <3>3. queue'[1] = u /\ Len(queue') > 0
      BY <3>2
    <3> QED
      BY <3>3, <2>4 DEF App!Holds
  <2> QED
    BY <2>4, <2>5
<1> QED
  BY <1>1, <1>2

LEMMA QueueKept ==
  ASSUME queue \in Seq(App!Tasks), NEW t \in App!Tasks
  PROVE  /\ queue' = Append(queue, t) => queue' \in Seq(App!Tasks) /\ \A u \in App!Tasks : App!Holds(u) => App!Holds(u)'
         /\ App!Holds(t) /\ queue' = Tail(queue) => queue' \in Seq(App!Tasks)
         /\ App!Holds(t) /\ queue' = Append(Tail(queue), t) => queue' \in Seq(App!Tasks)
BY DEF App!Holds

LEMMA StartingKept ==   \* ensure_started() and the start itself
  ASSUME AppInv, NEW c \in Calls,
         App!Ensure(c) \/ App!Bind(c) \/ App!Accepted(c) \/ App!Healthy(c) \/ App!StartFails(c) \/
         App!Failed(c) \/ App!Connected(c)
  PROVE  AppInv'
<1> USE StartsAssumption DEF AtWork, App!Goes, App!Returns, App!Tasks, App!providerVars
<1>0. c \in App!Tasks /\ \A t \in App!Tasks : at[t] \in AtWork /\ App!Holds(c) => t = c
  BY DEF AppInv, HolderStarts, App!Holds
<1>1. CASE App!Ensure(c)
  <2>0. /\ UNCHANGED <<App!providerVars, process, client>> /\ App!Holds(c) /\ at[c] = "locking"
        /\ \A t \in App!Tasks : t # c => at[t] \notin AtWork
    BY <1>0, <1>1 DEF App!Ensure
  <2>1. CASE state = "stopped"
    <3>1. at' = [at EXCEPT ![c] = "binding"] /\ queue' = queue
      BY <1>1, <2>1 DEF App!Ensure
    <3>2. AppTypes' /\ (\A t \in App!Tasks : t # c => at'[t] = at[t]) /\ at'[c] = "binding"
      BY <1>0, <2>0, <3>1 DEF AppInv, AppTypes
    <3>3. starting = 0
      BY <2>0 DEF AppInv, StarterKnown
    <3>4. HolderStarts' /\ StarterKnown' /\ App!OneApplication'
      BY <2>0, <2>1, <3>1, <3>2, <3>3 DEF AppInv, HolderStarts, StarterKnown, App!OneApplication,
        App!Holds
    <3> QED
      BY <3>2, <3>4 DEF AppInv
  <2>2. CASE state # "stopped"
    <3>1. /\ at' \in {[at EXCEPT ![c] = "fetching"], [at EXCEPT ![c] = "over"]}
          /\ queue' \in {Append(Tail(queue), c), Tail(queue)}
      BY <1>1, <2>2 DEF App!Ensure, AppInv, AppTypes
    <3>2. AppTypes' /\ (\A t \in App!Tasks : t # c => at'[t] = at[t]) /\ at'[c] \in {"fetching", "over"}
      <4>1. queue' \in Seq(App!Tasks)
        BY <1>0, <2>0, <3>1, QueueKept DEF AppInv, AppTypes
      <4> QED
        BY <1>0, <2>0, <3>1, <4>1 DEF AppInv, AppTypes
    <3>3. HolderStarts' /\ StarterKnown' /\ App!OneApplication'
      BY <2>0, <2>2, <3>1, <3>2 DEF AppInv, HolderStarts, StarterKnown, App!OneApplication
    <3> QED
      BY <3>2, <3>3 DEF AppInv
  <2> QED
    BY <2>1, <2>2
<1>2. CASE App!Bind(c)
  <2>0. /\ UNCHANGED <<queue, state, active, client>> /\ App!Holds(c) /\ state = "stopped"
        /\ \A t \in App!Tasks : t # c => at[t] \notin AtWork
        /\ starting = 0
    BY <1>0, <1>2 DEF App!Bind, AppInv, HolderStarts, StarterKnown
  <2>1. AppTypes' /\ (\A t \in App!Tasks : t # c => at'[t] = at[t]) /\ at'[c] \in AtWork
    <3>1. App!Started \in Nat
      <4>1. IsFiniteSet(App!Starts) /\ App!Spawned \subseteq App!Starts
        BY FS_Interval DEF App!Starts, App!Spawned
      <4> QED
        BY <4>1, FS_Subset, FS_CardinalityType, StartsCounted DEF App!Started
    <3>2. starting' \in 0..MaxStarts
      BY <1>2, <2>0, <3>1 DEF App!Bind
    <3>3. process' \in [App!Starts -> {"none", "running", "killed", "gone"}]
      BY <1>2 DEF App!Bind, AppInv, AppTypes
    <3>4. /\ \A t \in App!Tasks : t # c => at'[t] = at[t]
          /\ at' \in [App!Tasks -> {"new", "locking", "fetching", "calling", "draining", "killing", "over", "dropped"} \cup AtWork]
          /\ at'[c] \in AtWork
      BY <1>0, <1>2 DEF App!Bind, AppInv, AppTypes
    <3> QED
      BY <2>0, <3>2, <3>3, <3>4 DEF AppInv, AppTypes
  <2>2. HolderStarts'
    BY <2>0, <2>1 DEF HolderStarts, App!Holds
  <2>3. StarterKnown'
    BY <1>0, <1>2, <2>0, <2>1 DEF AppInv, AppTypes, StarterKnown, App!Bind, App!Starts
  <2>4. App!OneApplication'
    <3>1. \A p \in App!Starts : process'[p] = "running" => process[p] = "running" \/ starting' = p
      BY <1>2 DEF App!Bind, AppInv, AppTypes
    <3>2. \A t \in Closers : at[t] = "draining" => at'[t] = "draining"
      BY <1>2, <2>1 DEF App!Bind
    <3> QED
      BY <2>0, <3>1, <3>2 DEF AppInv, App!OneApplication, App!Starts
  <2> QED
    BY <2>1, <2>2, <2>3, <2>4 DEF AppInv
<1>3. CASE App!Accepted(c) \/ App!Healthy(c)
  <2>0. UNCHANGED <<queue, App!providerVars, process, client>>
    BY <1>3 DEF App!Accepted, App!Healthy
  <2>1. /\ \A t \in App!Tasks : t # c => at'[t] = at[t]
        /\ at' \in [App!Tasks -> {"new", "locking", "fetching", "calling", "draining", "killing", "over", "dropped"} \cup AtWork]
        /\ at[c] \in AtWork \ {"binding"} /\ at'[c] \in AtWork \ {"binding", "failing"}
    BY <1>0, <1>3 DEF AppInv, AppTypes, App!Accepted, App!Healthy
  <2>2. AppTypes' /\ HolderStarts'
    BY <1>0, <2>0, <2>1 DEF AppInv, AppTypes, HolderStarts, App!Holds
  <2>3. StarterKnown'
    BY <1>0, <2>0, <2>1 DEF AppInv, StarterKnown
  <2>4. App!OneApplication'
    BY <2>0, <2>1 DEF AppInv, App!OneApplication
  <2> QED
    BY <2>2, <2>3, <2>4 DEF AppInv
<1>4. CASE App!StartFails(c)
  <2>0. UNCHANGED <<queue, App!providerVars, client>>
    BY <1>4 DEF App!StartFails
  <2>1. /\ \A t \in App!Tasks : t # c => at'[t] = at[t]
        /\ at' \in [App!Tasks -> {"new", "locking", "fetching", "calling", "draining", "killing", "over", "dropped"} \cup AtWork]
        /\ at[c] \in AtWork \ {"binding"} /\ at'[c] = "failing" /\ process' = App!Kill(starting)
    BY <1>0, <1>4 DEF AppInv, AppTypes, App!StartFails
  <2>2. /\ process' \in [App!Starts -> {"none", "running", "killed", "gone"}]
        /\ \A p \in App!Starts : process'[p] = "running" => process[p] = "running" /\ p # starting
    BY <2>1 DEF AppInv, AppTypes, App!Kill
  <2>3. AppTypes' /\ HolderStarts'
    BY <1>0, <2>0, <2>1, <2>2 DEF AppInv, AppTypes, HolderStarts, App!Holds
  <2>4. StarterKnown'
    BY <1>0, <2>0, <2>1, <2>2 DEF AppInv, StarterKnown
  <2>5. App!OneApplication'
    BY <2>0, <2>1, <2>2 DEF AppInv, App!OneApplication
  <2> QED
    BY <2>3, <2>4, <2>5 DEF AppInv
<1>5. CASE App!Failed(c)
  <2>0. /\ App!Holds(c) /\ state = "stopped" /\ (\A t \in App!Tasks : t # c => at[t] \notin AtWork)
        /\ starting' = 0 /\ App!Leaves(c) /\ UNCHANGED <<process, client>>
        /\ \A p \in App!Starts : starting = p => process[p] # "running"
    BY <1>0, <1>5 DEF App!Failed, AppInv, HolderStarts, StarterKnown
  <2>1. AppTypes' /\ (\A t \in App!Tasks : t # c => at'[t] = at[t]) /\ at'[c] = "over"
    BY <1>0, <1>5, <2>0, LeavesHead DEF AppInv, AppTypes, App!Failed
  <2>2. HolderStarts' /\ StarterKnown'
    BY <2>0, <2>1 DEF HolderStarts, StarterKnown
  <2>3. App!OneApplication'
    BY <1>5, <2>0, <2>1 DEF AppInv, App!OneApplication, App!Failed
  <2> QED
    BY <2>1, <2>2, <2>3 DEF AppInv
<1>6. CASE App!Connected(c)
  <2>0. /\ App!Holds(c) /\ state = "stopped" /\ (\A t \in App!Tasks : t # c => at[t] \notin AtWork)
        /\ state' = "bridge" /\ active' = starting
        /\ starting' = 0 /\ queue' = Append(Tail(queue), c) /\ UNCHANGED <<process, client>>
    BY <1>0, <1>6 DEF App!Connected, AppInv, HolderStarts
  <2>1. AppTypes' /\ (\A t \in App!Tasks : t # c => at'[t] = at[t]) /\ at'[c] = "fetching" /\ at[c] = "greeting"
    <3>1. queue' \in Seq(App!Tasks)
      <4>1. Tail(queue) \in Seq(App!Tasks)
        BY <2>0 DEF AppInv, AppTypes, App!Holds
      <4> QED
        BY <1>0, <2>0, <4>1
    <3> QED
      BY <1>0, <1>6, <2>0, <3>1 DEF AppInv, AppTypes, App!Connected
  <2>2. HolderStarts' /\ StarterKnown'
    BY <2>0, <2>1 DEF HolderStarts, StarterKnown
  <2>3. App!OneApplication'
    BY <2>0, <2>1 DEF AppInv, App!OneApplication
  <2> QED
    BY <2>1, <2>2, <2>3 DEF AppInv
<1> QED
  BY <1>1, <1>2, <1>3, <1>4, <1>5, <1>6

LEMMA CallingKept ==   \* call(), and a caller that is dropped
  ASSUME AppInv, NEW c \in Calls, App!Call(c) \/ App!Fetch(c) \/ App!Answered(c) \/ App!Drop(c)
  PROVE  AppInv'
<1> USE StartsAssumption DEF AtWork, App!Goes, App!Returns, App!Tasks, App!providerVars
<1>0. c \in App!Tasks /\ \A t \in App!Tasks : at[t] \in AtWork /\ App!Holds(c) => t = c
  BY DEF AppInv, HolderStarts, App!Holds
<1>1. CASE App!Call(c) \/ App!Fetch(c) \/ App!Answered(c)
  <2>0. /\ UNCHANGED <<state, active, starting, process>> /\ at[c] \notin AtWork \cup {"draining"}
        /\ at[c] # "calling" => at'[c] \in {"locking", "calling", "over"}
        /\ at[c] = "calling" => at'[c] = "over"
    BY <1>0, <1>1 DEF App!Call, App!Fetch, App!Answered, AppInv, AppTypes
  <2>1. AppTypes' /\ (\A t \in App!Tasks : t # c => at'[t] = at[t] /\ client'[t] = client[t])
    <3>1. CASE App!Call(c)
      BY <1>0, <3>1, QueueKept DEF AppInv, AppTypes, App!Call
    <3>2. CASE App!Answered(c)
      BY <1>0, <3>2 DEF AppInv, AppTypes, App!Answered
    <3>3. CASE App!Fetch(c)
      <4>1. active \in 0..MaxStarts
        BY DEF AppInv, AppTypes
      <4> QED
        BY <1>0, <3>3, <4>1, QueueKept DEF AppInv, AppTypes, App!Fetch
    <3> QED
      BY <1>1, <3>1, <3>2, <3>3
  <2>2. \A t \in App!Tasks : at[t] \in AtWork => App!Holds(t)'
    <3>1. CASE App!Call(c)
      BY <1>0, <3>1, QueueKept DEF AppInv, AppTypes, App!Call, HolderStarts
    <3>2. CASE App!Answered(c)
      BY <3>2 DEF AppInv, App!Answered, HolderStarts, App!Holds
    <3>3. CASE App!Fetch(c)
      BY <1>0, <3>3 DEF App!Fetch
    <3> QED
      BY <1>1, <3>1, <3>2, <3>3
  <2>3. HolderStarts' /\ StarterKnown'
    BY <2>0, <2>1, <2>2 DEF AppInv, HolderStarts, StarterKnown
  <2>4. App!OneApplication'
    BY <2>0, <2>1 DEF AppInv, App!OneApplication
  <2> QED
    BY <2>1, <2>3, <2>4 DEF AppInv
<1>2. CASE App!Drop(c)
  <2>0. /\ UNCHANGED <<state, active, client>> /\ at[c] # "draining" /\ App!Leaves(c)
    BY <1>2 DEF App!Drop
  <2>1. /\ \A t \in App!Tasks : t # c => at'[t] = at[t]
        /\ at' \in [App!Tasks -> {"new", "locking", "fetching", "calling", "draining", "killing", "over", "dropped"} \cup AtWork]
        /\ at'[c] = "dropped"
    BY <1>0, <1>2 DEF AppInv, AppTypes, App!Drop
  <2>2. /\ queue' \in Seq(App!Tasks)
        /\ \A u \in App!Tasks : App!Holds(u) /\ u # c => App!Holds(u)'
    BY <1>0, <2>0, LeavesHead DEF AppInv, AppTypes
  <2>3. HolderStarts'
    BY <2>0, <2>1, <2>2 DEF AppInv, HolderStarts
  <2>4. CASE at[c] \in AtWork
    <3>1. /\ starting' = 0 /\ process' \in [App!Starts -> {"none", "running", "killed", "gone"}]
          /\ \A p \in App!Starts : process'[p] = "running" => process[p] = "running" /\ p # starting
          /\ \A t \in App!Tasks : t # c => at[t] \notin AtWork
      BY <1>0, <1>2, <2>4 DEF App!Drop, App!Kill, AppInv, AppTypes, HolderStarts
    <3>2. StarterKnown' /\ App!OneApplication'
      BY <2>0, <2>1, <3>1 DEF AppInv, StarterKnown, App!OneApplication
    <3> QED
      BY <2>0, <2>1, <2>2, <2>3, <3>1, <3>2 DEF AppInv, AppTypes
  <2>5. CASE at[c] \notin AtWork
    <3>1. UNCHANGED <<starting, process>>
      BY <1>2, <2>5 DEF App!Drop
    <3>2. StarterKnown' /\ App!OneApplication'
      BY <2>0, <2>1, <2>5, <3>1 DEF AppInv, StarterKnown, App!OneApplication
    <3> QED
      BY <2>0, <2>1, <2>2, <2>3, <3>1, <3>2 DEF AppInv, AppTypes
  <2> QED
    BY <2>4, <2>5
<1> QED
  BY <1>1, <1>2

LEMMA ClosingKept ==   \* shutdown(), and a process that exits
  ASSUME AppInv,
         (\E s \in Closers : App!Close(s) \/ App!Take(s) \/ App!Drained(s) \/ App!Terminated(s)) \/ \E p \in App!Starts : App!Exit(p)
  PROVE  AppInv'
<1> USE StartsAssumption DEF AtWork, App!Goes, App!Returns, App!Tasks, App!providerVars
<1>1. ASSUME NEW s \in Closers, App!Close(s) \/ App!Drained(s) \/ App!Terminated(s)
      PROVE  AppInv'
  <2>0. /\ UNCHANGED <<state, active, starting, client>> /\ at[s] \notin AtWork
        /\ at[s] = "new" \/ queue' = queue
        /\ at[s] = "draining" \/ process' = process
    BY <1>1 DEF App!Close, App!Drained, App!Terminated
  <2>1. /\ \A t \in App!Tasks : t # s => at'[t] = at[t]
        /\ at' \in [App!Tasks -> {"new", "locking", "fetching", "calling", "draining", "killing", "over", "dropped"} \cup AtWork]
        /\ at'[s] \in {"locking", "killing", "over"}
    BY <1>1 DEF AppInv, AppTypes, App!Close, App!Drained, App!Terminated
  <2>2. queue' \in Seq(App!Tasks) /\ \A u \in App!Tasks : App!Holds(u) => App!Holds(u)'
    <3>1. CASE App!Close(s)
      BY <3>1, QueueKept DEF AppInv, AppTypes, App!Close
    <3>2. CASE App!Drained(s) \/ App!Terminated(s)
      BY <3>2 DEF AppInv, AppTypes, App!Drained, App!Terminated, App!Holds
    <3> QED
      BY <1>1, <3>1, <3>2
  <2>3. /\ process' \in [App!Starts -> {"none", "running", "killed", "gone"}]
        /\ \A p \in App!Starts : process'[p] = "running" => process[p] = "running"
        /\ at[s] = "draining" => \A p \in App!Starts : process'[p] = "running" => p # client[s]
    <3>1. CASE App!Drained(s)
      BY <3>1 DEF AppInv, AppTypes, App!Drained, App!Kill
    <3>2. CASE App!Close(s) \/ App!Terminated(s)
      BY <3>2 DEF AppInv, AppTypes, App!Close, App!Terminated
    <3> QED
      BY <1>1, <3>1, <3>2
  <2>4. AppTypes' /\ HolderStarts' /\ StarterKnown'
    BY <2>0, <2>1, <2>2, <2>3 DEF AppInv, AppTypes, HolderStarts, StarterKnown
  <2>5. App!OneApplication'
    BY <2>0, <2>1, <2>3 DEF AppInv, App!OneApplication
  <2> QED
    BY <2>4, <2>5 DEF AppInv
<1>2. ASSUME NEW s \in Closers, App!Take(s)
      PROVE  AppInv'
  <2>0. /\ UNCHANGED <<starting, process>> /\ App!Holds(s) /\ at[s] = "locking" /\ queue' = Tail(queue)
        /\ state' = "stopped" /\ active' = 0
    BY <1>2 DEF App!Take
  <2>1. \A t \in App!Tasks : at[t] \notin AtWork
    BY <2>0 DEF AppInv, HolderStarts, App!Holds
  <2>2. queue' \in Seq(App!Tasks)
    BY <2>0, QueueKept DEF AppInv, AppTypes
  <2>3. CASE state = "bridge"
    <3>1. at' = [at EXCEPT ![s] = "draining"] /\ client' = [client EXCEPT ![s] = active]
      BY <1>2, <2>3 DEF App!Take
    <3>2. AppTypes' /\ HolderStarts' /\ StarterKnown'
      BY <2>0, <2>1, <2>2, <3>1 DEF AppInv, AppTypes, HolderStarts, StarterKnown
    <3>3. at'[s] = "draining" /\ client'[s] = active /\ starting = 0
          /\ \A t \in Closers : at[t] = "draining" => at'[t] = "draining" /\ client'[t] = client[t]
      BY <2>0, <2>1, <3>1 DEF AppInv, AppTypes, StarterKnown
    <3>4. App!OneApplication'
      BY <2>0, <3>3 DEF AppInv, App!OneApplication, App!Starts
    <3> QED
      BY <3>2, <3>4 DEF AppInv
  <2>4. CASE state # "bridge"
    <3>1. at' = [at EXCEPT ![s] = "over"] /\ client' = client
      BY <1>2, <2>4 DEF App!Take
    <3>2. AppTypes' /\ HolderStarts' /\ StarterKnown'
      BY <2>0, <2>1, <2>2, <3>1 DEF AppInv, AppTypes, HolderStarts, StarterKnown
    <3>3. App!OneApplication'
      BY <2>0, <2>4, <3>1 DEF AppInv, AppTypes, App!OneApplication
    <3> QED
      BY <3>2, <3>3 DEF AppInv
  <2> QED
    BY <2>3, <2>4
<1>3. ASSUME NEW p \in App!Starts, App!Exit(p)
      PROVE  AppInv'
  <2>1. UNCHANGED <<at, queue, App!providerVars, client>>
    BY <1>3 DEF App!Exit
  <2>2. /\ process' \in [App!Starts -> {"none", "running", "killed", "gone"}]
        /\ \A q \in App!Starts : process'[q] = "running" => process[q] = "running"
    BY <1>3 DEF App!Exit, AppInv, AppTypes
  <2>3. AppTypes' /\ HolderStarts' /\ StarterKnown'
    BY <2>1, <2>2 DEF AppInv, AppTypes, HolderStarts, StarterKnown, App!Holds
  <2>4. App!OneApplication'
    BY <2>1, <2>2 DEF AppInv, App!OneApplication
  <2> QED
    BY <2>3, <2>4 DEF AppInv
<1> QED
  BY <1>1, <1>2, <1>3

LEMMA AppInvStep ==
  ASSUME AppInv, [App!Next]_(App!vars)
  PROVE  AppInv'
<1>1. CASE UNCHANGED App!vars
  BY <1>1 DEF App!vars, App!providerVars, AppInv, AppTypes, HolderStarts, StarterKnown,
    App!OneApplication, App!Holds
<1> QED
  BY <1>1, StartingKept, CallingKept, ClosingKept DEF App!Next, App!Ends

\* provider.rs of the bridge: however calls, dropped calls and shutdowns interleave, a running
\* application is the one of the state, the one being started, or one a shutdown is about to end.
THEOREM OneApplicationRuns == App!Spec => []OneApplication
<1>1. App!Init => AppInv
  BY StartsAssumption DEF App!Init, AppInv, AppTypes, HolderStarts, StarterKnown,
    App!OneApplication, AtWork
<1>2. AppInv /\ [App!Next]_(App!vars) => AppInv'
  BY AppInvStep
<1>3. AppInv => OneApplication
  BY DEF AppInv, OneApplication
<1> QED
  BY <1>1, <1>2, <1>3, PTL DEF App!Spec

-----------------------------------------------------------------------------
(* ProcessCapture: no process outlives its command                         *)

\* Nothing lives before the spawn, and nothing that could fork after the end.
CaptureInv ==
  /\ phase \in {"new", "running", "completed", "interrupted", "over", "dropped"}
  /\ tree \in [Capture!Processes -> {"none", "alive", "dying", "zombie", "gone"}]
  /\ phase = "new" => \A p \in Capture!Processes : tree[p] = "none"
  /\ outcome # "none" => phase = "over"
  /\ Capture!NoProcessLeft

LEMMA CaptureInvStep == CaptureInv /\ [Capture!Next]_(Capture!vars) => CaptureInv'
<1> SUFFICES ASSUME CaptureInv, [Capture!Next]_(Capture!vars) PROVE CaptureInv'
  OBVIOUS
<1> USE DEF CaptureInv, Capture!NoProcessLeft, Capture!Group, Capture!Processes
<1>1. CASE UNCHANGED Capture!vars
  BY <1>1 DEF Capture!vars
<1>2. CASE Capture!Spawn \/ Capture!Refused
  BY <1>2 DEF Capture!Spawn, Capture!Refused, Capture!Returns
<1>3. CASE Capture!Reap \/ Capture!OperationEnds
  BY <1>3 DEF Capture!Reap, Capture!OperationEnds
<1>4. ASSUME NEW why, Capture!Interrupt(why) PROVE CaptureInv'
  BY <1>4 DEF Capture!Interrupt, Capture!Killed
<1>5. CASE Capture!Clean
  BY <1>5 DEF Capture!Clean, Capture!Killed
<1>6. CASE Capture!Finish
  <2>1. CASE Capture!Group = {}
    BY <1>6, <2>1 DEF Capture!Finish, Capture!Returns
  <2>2. CASE Capture!Group # {}
    BY <1>6, <2>2 DEF Capture!Finish, Capture!Returns, Capture!Killed
  <2> QED
    BY <2>1, <2>2
<1>7. CASE Capture!Drop
  BY <1>7 DEF Capture!Drop, Capture!Killed
<1>8. ASSUME NEW p \in Capture!Processes, Capture!CloseOutput(p) \/ Capture!Exit(p) \/ Capture!Collected(p) PROVE CaptureInv'
  BY <1>8 DEF Capture!CloseOutput, Capture!Exit, Capture!Collected
<1>9. ASSUME NEW p \in Capture!Processes, NEW q \in Capture!Processes, Capture!Fork(p, q) PROVE CaptureInv'
  BY <1>9 DEF Capture!Fork
<1> QED
  BY <1>1, <1>2, <1>3, <1>4, <1>5, <1>6, <1>7, <1>8, <1>9 DEF Capture!Next, Capture!Ends

\* capture() of the provider: a command that ended leaves no process it owned unsignalled, and none
\* at all if it succeeded or claims a clean interruption.
THEOREM ProcessesEnd == Capture!Spec => []NoProcessLeft
<1>1. Capture!Init => CaptureInv
  BY DEF Capture!Init, CaptureInv, Capture!NoProcessLeft, Capture!Group, Capture!Processes
<1>2. CaptureInv => NoProcessLeft
  BY DEF CaptureInv, NoProcessLeft
<1> QED
  BY <1>1, <1>2, CaptureInvStep, PTL DEF Capture!Spec

-----------------------------------------------------------------------------
(* DebugSession: a step stops after one step                               *)

DebugTypes ==
  /\ channel \in Seq([command : Session!Resumes, pause : Nat])
  /\ meant \in [command : Session!Resumes \cup {"none"}, pause : Nat]
  /\ serving \in Session!Resumes => meant.command \in Session!Resumes
  /\ pause \in Nat /\ pauses \in Nat /\ leads \in {"running", "failed"}

\* Pauses are numbered; no resume names one that was not there yet.
Numbered ==
  /\ pause <= pauses /\ meant.pause <= pauses
  /\ \A i \in 1..Len(channel) : channel[i].pause <= pauses
  /\ runner \in {"idle", "before", "running", "failed"} => pause = 0
  /\ runner \in {"stopping", "paused"} => pause # 0

\* While the runner stays in the pause a step command was meant for, and until the step after
\* it, a request to pause is queued.
StepQueued ==
  /\ meant.command = "step" /\ meant.pause = pause /\ pause # 0 => requests # "none"
  /\ \A i \in 1..Len(channel) :
       channel[i].command = "step" /\ channel[i].pause = pause /\ pause # 0 => meant.pause = pause
  /\ stepping /\ meant.command = "step" => requests # "none"

DebugInv == DebugTypes /\ Numbered /\ StepQueued /\ Session!StepStops

LEMMA RequestKept ==
  ASSUME DebugInv, Session!Requests
  PROVE  DebugInv'
<1>0. /\ UNCHANGED <<pause, pauses, stepping, missed, leads>>
      /\ runner' = runner \/ (runner = "idle" /\ runner' = "before")
  BY DEF Session!Requests, Session!Launch, Session!ConfigurationDone,
    Session!SetExceptionBreakpoints, Session!Pause, Session!Disconnect, Session!SetBreakpoints,
    Session!Resume,
         Session!Starts, Session!runnerVars, Session!history
<1>1. CASE \E command \in Session!Resumes : Session!Resume(command)
  <2>1. PICK command \in Session!Resumes : Session!Resume(command)
    BY <1>1
  <2>2. /\ requests' = Session!Queued(command) /\ meant' = [command |-> command, pause |-> pause] /\ UNCHANGED channel
        /\ serving' = command
    BY <2>1 DEF Session!Resume, Session!Queue, Session!Meant
  <2>3. DebugTypes' /\ Numbered'
    BY <1>0, <2>2 DEF DebugInv, DebugTypes, Numbered
  <2>4. StepQueued' /\ Session!StepStops'
    BY <1>0, <2>2 DEF DebugInv, DebugTypes, StepQueued, Session!StepStops, Session!Queued,
      Session!Resumes
  <2> QED
    BY <2>3, <2>4 DEF DebugInv
<1>2. CASE Session!Disconnect
  <2>1. /\ UNCHANGED <<meant, requests>> /\ channel' = Append(channel, [command |-> "continue", pause |-> pause])
        /\ serving' = "over"
    BY <1>2 DEF Session!Disconnect, Session!Meant
  <2>2. DebugTypes' /\ Numbered'
    BY <1>0, <2>1 DEF DebugInv, DebugTypes, Numbered, Session!Resumes
  <2>3. StepQueued' /\ Session!StepStops'
    BY <1>0, <2>1 DEF DebugInv, DebugTypes, StepQueued, Session!StepStops
  <2> QED
    BY <2>2, <2>3 DEF DebugInv
<1>3. CASE ~Session!Disconnect /\ ~\E command \in Session!Resumes : Session!Resume(command)
  <2>1. /\ UNCHANGED <<channel, meant>> /\ (requests' = requests \/ requests' \in {"entry", "pause"})
        /\ serving' = serving
    BY <1>3 DEF Session!Requests, Session!Launch, Session!ConfigurationDone,
      Session!SetExceptionBreakpoints, Session!Pause, Session!SetBreakpoints
  <2> QED
    BY <1>0, <2>1 DEF DebugInv, DebugTypes, Numbered, StepQueued, Session!StepStops
<1> QED
  BY <1>1, <1>2, <1>3

LEMMA ServerKept ==
  ASSUME DebugInv, Session!Server
  PROVE  DebugInv'
<1>0. /\ UNCHANGED <<pause, pauses, stepping, missed, leads, runner, meant, requests>>
      /\ channel' = channel \/ (channel' = Append(channel, meant) /\ meant.command \in Session!Resumes)
      /\ serving' \notin Session!Resumes
  BY DEF Session!Server, Session!Send, Session!Continued, Session!Serve, Session!Queue,
    Session!runnerVars, Session!history, DebugInv, DebugTypes, Session!Resumes
<1>1. /\ channel' \in Seq([command : Session!Resumes, pause : Nat])
      /\ \A i \in 1..Len(channel') : channel'[i] = meant \/ (i \in 1..Len(channel) /\ channel'[i] = channel[i])
  <2>1. CASE channel' = channel
    BY <2>1 DEF DebugInv, DebugTypes
  <2>2. CASE channel' = Append(channel, meant) /\ meant.command \in Session!Resumes
    <3>1. meant \in [command : Session!Resumes, pause : Nat]
      BY <2>2 DEF DebugInv, DebugTypes
    <3> QED
      BY <2>2, <3>1 DEF DebugInv, DebugTypes
  <2> QED
    BY <1>0, <2>1, <2>2
<1>2. DebugTypes'
  BY <1>0, <1>1 DEF DebugInv, DebugTypes
<1>3. Numbered'
  BY <1>0, <1>1 DEF DebugInv, Numbered
<1>4. StepQueued' /\ Session!StepStops'
  BY <1>0, <1>1 DEF DebugInv, StepQueued, Session!StepStops
<1> QED
  BY <1>2, <1>3, <1>4 DEF DebugInv

LEMMA PausesKept ==   \* BeforeStep and StepFails
  ASSUME DebugInv, Session!BeforeStep \/ Session!StepFails
  PROVE  DebugInv'
<1>0. UNCHANGED <<channel, meant, serving>> /\ pause = 0
  BY DEF Session!BeforeStep, Session!StepFails, Session!serverVars, DebugInv, Numbered
<1>1. /\ \/ pauses' = pauses + 1 /\ pause' = pauses + 1 /\ runner' = "stopping"
         \/ UNCHANGED <<pauses, pause>> /\ runner' \in {"running", "failed"}
      /\ leads' \in {leads, "running", "failed"}
  BY DEF Session!BeforeStep, Session!StepFails, Session!Pauses, Session!Goes
<1>2. ~missed'
  <2>1. CASE Session!BeforeStep
    <3>1. ~missed /\ ~(requests = "none" /\ stepping /\ meant.command = "step")
      BY DEF DebugInv, StepQueued, Session!StepStops
    <3> QED
      BY <2>1, <3>1 DEF Session!BeforeStep
  <2>2. CASE Session!StepFails
    BY <2>2 DEF Session!StepFails, Session!history, DebugInv, Session!StepStops
  <2> QED
    BY <2>1, <2>2
<1>3. stepping' = FALSE \/ UNCHANGED <<requests, stepping>>
  BY DEF Session!BeforeStep, Session!StepFails, Session!history
<1>4. DebugTypes'
  BY <1>0, <1>1 DEF DebugInv, DebugTypes
<1>5. Numbered'
  <2>1. CASE UNCHANGED <<pauses, pause>> /\ runner' \in {"running", "failed"}
    BY <1>0, <2>1 DEF DebugInv, Numbered
  <2>2. CASE pauses' = pauses + 1 /\ pause' = pauses + 1 /\ runner' = "stopping"
    <3>0. pauses \in Nat
      BY DEF DebugInv, DebugTypes
    <3>1. pause' # 0 /\ pause' <= pauses' /\ \A n \in Nat : n <= pauses => n <= pauses'
      BY <2>2, <3>0
    <3>2. meant.pause \in Nat /\ \A i \in 1..Len(channel) : channel[i].pause \in Nat
      <4> DEFINE Messages == [command : Session!Resumes, pause : Nat]
      <4>0. channel \in Seq(Messages)
        BY DEF DebugInv, DebugTypes
      <4> HIDE DEF Messages
      <4>1. \A i \in 1..Len(channel) : channel[i] \in Messages
        BY <4>0
      <4> USE DEF Messages
      <4> QED
        BY <4>1 DEF DebugInv, DebugTypes
    <3> QED
      BY <1>0, <2>2, <3>1, <3>2 DEF DebugInv, Numbered
  <2> QED
    BY <1>1, <2>1, <2>2
<1>6. StepQueued' /\ Session!StepStops'
  <2>1. CASE pause' = 0
    BY <1>0, <1>2, <1>3, <2>1 DEF DebugInv, StepQueued, Session!StepStops
  <2>2. CASE pause' = pauses + 1
    <3>1. meant.pause # pause' /\ \A i \in 1..Len(channel) : channel[i].pause # pause'
      BY <2>2 DEF DebugInv, DebugTypes, Numbered
    <3> QED
      BY <1>0, <1>2, <1>3, <3>1 DEF DebugInv, StepQueued, Session!StepStops
  <2> QED
    BY <1>0, <1>1, <2>1, <2>2
<1> QED
  BY <1>4, <1>5, <1>6 DEF DebugInv

LEMMA ResumedKept ==
  ASSUME DebugInv, Session!Resumed
  PROVE  DebugInv'
<1>0. /\ UNCHANGED <<meant, serving, pauses, requests, missed, leads>> /\ pause' = 0
      /\ channel' = Tail(channel) /\ runner' = leads /\ runner = "paused" /\ channel # <<>>
  BY DEF Session!Resumed, Session!Goes
<1>1. stepping' => channel[1].pause = pause /\ channel[1].command = "step"
  <2>1. Head(channel) = channel[1]
    BY <1>0 DEF DebugInv, DebugTypes
  <2> QED
    BY <2>1 DEF Session!Resumed
<1>2. /\ pause # 0 /\ 1 \in 1..Len(channel) /\ channel' \in Seq([command : Session!Resumes, pause : Nat])
      /\ \A i \in 1..Len(channel') : i + 1 \in 1..Len(channel) /\ channel'[i] = channel[i + 1]
  BY <1>0 DEF DebugInv, DebugTypes, Numbered
<1>3. DebugTypes'
  BY <1>0, <1>2 DEF DebugInv, DebugTypes
<1>4. Numbered'
  BY <1>0, <1>2 DEF DebugInv, DebugTypes, Numbered
<1>5. StepQueued' /\ Session!StepStops'
  BY <1>0, <1>1, <1>2 DEF DebugInv, StepQueued, Session!StepStops
<1> QED
  BY <1>3, <1>4, <1>5 DEF DebugInv

LEMMA RunnerKept ==   \* the other steps of the program
  ASSUME DebugInv,
         Session!Stopped \/ Session!StepReturns \/ Session!TestFails \/ Session!Cancelled \/
         Session!RunEnds \/ Session!TestTimesOut \/ Session!BranchTimesOut
         \/ UNCHANGED Session!vars
  PROVE  DebugInv'
<1>1. UNCHANGED <<requests, channel, meant, serving, leads, pauses, missed>>
  BY DEF Session!Stopped, Session!StepReturns, Session!TestFails, Session!Cancelled,
    Session!RunEnds, Session!TestTimesOut, Session!BranchTimesOut, Session!vars, Session!serverVars,
         Session!runnerVars, Session!history
<1>2. pause' \in {pause, 0} /\ (stepping' = FALSE \/ stepping' = stepping)
  BY DEF Session!Stopped, Session!StepReturns, Session!TestFails, Session!Cancelled,
    Session!RunEnds, Session!TestTimesOut, Session!BranchTimesOut, Session!vars, Session!serverVars,
         Session!runnerVars, Session!history
<1>3. /\ runner' \in {"idle", "before", "running", "failed"} =>
           pause' = 0 \/ (pause' = pause /\ runner \in {"idle", "before", "running", "failed"})
      /\ runner' \in {"stopping", "paused"} => pause' = pause /\ runner \in {"stopping", "paused"}
  BY DEF Session!Stopped, Session!StepReturns, Session!TestFails, Session!Cancelled,
    Session!RunEnds, Session!TestTimesOut, Session!BranchTimesOut, Session!vars, Session!serverVars,
         Session!runnerVars, Session!history, Session!Goes
<1>4. DebugTypes' /\ Numbered'
  BY <1>1, <1>2, <1>3 DEF DebugInv, DebugTypes, Numbered
<1>5. StepQueued' /\ Session!StepStops'
  BY <1>1, <1>2 DEF DebugInv, StepQueued, Session!StepStops
<1> QED
  BY <1>4, <1>5 DEF DebugInv

LEMMA DebugInvStep ==
  ASSUME DebugInv, [Session!Next]_(Session!vars)
  PROVE  DebugInv'
BY RequestKept, ServerKept, PausesKept, ResumedKept, RunnerKept DEF Session!Next, Session!Program

\* The debug adapter: a step command stops the program before its next step, unless the client
\* continued since, whatever the runner does while the request is served.
THEOREM StepsStop == Session!Spec => []StepStops
<1>1. Session!Init => DebugInv
  BY DEF Session!Init, DebugInv, DebugTypes, Numbered, StepQueued, Session!StepStops,
    Session!Resumes
<1>2. DebugInv /\ [Session!Next]_(Session!vars) => DebugInv'
  BY DebugInvStep
<1>3. DebugInv => StepStops
  BY DEF DebugInv, StepStops
<1> QED
  BY <1>1, <1>2, <1>3, PTL DEF Session!Spec

-----------------------------------------------------------------------------
(* EditorDiagnostics: what the client shows                                *)

DocumentTypes ==
  text \in [Docs -> Revisions \cup {"closed"}] /\ generation \in [Docs -> Nat] /\ version \in [Docs -> Nat]

RunTypes ==
  /\ DOMAIN runs = 1..Editor!Started /\ Editor!Started \in Nat /\ flying \subseteq DOMAIN runs
  /\ \A i \in DOMAIN runs : runs[i].doc \in Docs /\ runs[i].revision \in Revisions

StoreTypes == latest \in [Docs -> Nat] /\ stored \in [Docs -> [Revisions -> Nat]]

ShownTypes == shown \in [Docs -> [version : Nat, run : Nat]]

\* The run that may commit is the last one of its document's file, under the configuration in
\* force, and only it has observations.
Latest(d) ==
  /\ latest[d] # 0 =>
       /\ latest[d] \in DOMAIN runs
       /\ \A j \in DOMAIN runs : runs[j].doc = d => j <= latest[d]
       /\ runs[latest[d]] =
            [doc |-> d, file |-> generation[d], revision |-> runs[latest[d]].revision, config |-> config]
  /\ \A r \in Revisions : stored[d][r] # 0 =>
       latest[d] # 0 /\ stored[d][r] = latest[d] /\ r = runs[latest[d]].revision
  /\ ~Editor!Open(d) => latest[d] = 0

\* What the client shows is out of date only while somebody owes it a publication.
Shown(d) ==
  \/ shown[d] = IF Editor!Open(d) THEN Editor!View(d, text, version, stored) ELSE Editor!Nothing
  \/ Editor!Open(d) /\ (d \in republish \/ \E i \in flying : runs[i].doc = d)

EditorTypes == DocumentTypes /\ RunTypes /\ StoreTypes /\ ShownTypes

EditorInv == EditorTypes /\ \A d \in Docs : Latest(d) /\ Shown(d)

\* A module's Cardinality is everybody's.
LEMMA RunsCounted == ASSUME NEW S PROVE Editor!Cardinality(S) = Cardinality(S)
  BY DEF Editor!Cardinality, Cardinality

\* What publish() makes is a view.
LEMMA ViewTypes ==
  ASSUME NEW d \in Docs, NEW texts, texts[d] \in Revisions,
         NEW versions \in [Docs -> Nat], NEW store \in [Docs -> [Revisions -> Nat]]
  PROVE  Editor!View(d, texts, versions, store) \in [version : Nat, run : Nat]
BY DEF Editor!View

LEMMA EditorCurrent ==
  ASSUME EditorInv
  PROVE  DiagnosticsCurrent
<1>1. ASSUME NEW d \in Docs, NEW r \in Revisions, stored[d][r] # 0
      PROVE  LET i == stored[d][r] IN
               /\ \A j \in DOMAIN runs : runs[j].doc = d => j <= i
               /\ runs[i] = [doc |-> d, file |-> generation[d], revision |-> r, config |-> config]
  BY <1>1 DEF EditorInv, Latest
<1>2. flying = {} /\ republish = {} => \A d \in Docs :
        shown[d] = IF Editor!Open(d) THEN Editor!View(d, text, version, stored) ELSE Editor!Nothing
  BY DEF EditorInv, Shown
<1> QED
  BY <1>1, <1>2 DEF DiagnosticsCurrent, Editor!DiagnosticsCurrent

\* A document is opened or edited.
LEMMA EditKept ==
  ASSUME EditorInv, NEW d \in Docs, NEW r \in Revisions, Editor!DidOpen(d, r) \/ Editor!DidChange(d, r)
  PROVE  EditorInv'
<1> USE DEF EditorInv, EditorTypes
<1>1. text' = [text EXCEPT ![d] = r] /\ text'[d] = r /\ text'[d] # "closed"
  BY ClosedAssumption DEF Editor!DidOpen, Editor!DidChange, DocumentTypes
<1>2. version' = [version EXCEPT ![d] = @ + 1]
  BY DEF Editor!DidOpen, Editor!DidChange
<1>3. shown' = [shown EXCEPT ![d] = Editor!View(d, text', version', stored)]
  BY <1>1 DEF Editor!DidOpen, Editor!DidChange, Editor!Publish, Editor!View
<1>4. UNCHANGED <<config, runs, flying, latest, stored, republish>>
  BY DEF Editor!DidOpen, Editor!DidChange, Editor!storeVars
<1>5. \/ UNCHANGED generation
      \/ text[d] = "closed" /\ generation' = [generation EXCEPT ![d] = @ + 1]
  BY DEF Editor!DidOpen, Editor!DidChange, Editor!Open
<1>6. EditorTypes'
  <2>1. DocumentTypes'
    BY <1>1, <1>2, <1>5 DEF DocumentTypes
  <2>2. RunTypes' /\ StoreTypes'
    BY <1>4 DEF RunTypes, StoreTypes, Editor!Started
  <2>3. Editor!View(d, text', version', stored) \in [version : Nat, run : Nat]
    BY <1>1, <2>1, ViewTypes DEF DocumentTypes, StoreTypes
  <2>4. ShownTypes'
    BY <1>3, <2>3 DEF ShownTypes
  <2> QED
    BY <2>1, <2>2, <2>4
<1>7. ASSUME NEW e \in Docs PROVE Latest(e)'
  <2>1. CASE latest[e] = 0
    BY <1>4, <2>1 DEF Latest
  <2>2. CASE latest[e] # 0
    <3>1. generation'[e] = generation[e] /\ text'[e] # "closed"
      BY <1>1, <1>5, <2>2 DEF Latest, DocumentTypes, Editor!Open
    <3> QED
      BY <1>4, <2>2, <3>1 DEF Latest, Editor!Open
  <2> QED
    BY <2>1, <2>2
<1>8. ASSUME NEW e \in Docs PROVE Shown(e)'
  <2>1. CASE e = d
    <3>1. shown'[d] = Editor!View(d, text', version', stored)
      BY <1>3 DEF ShownTypes
    <3> QED
      BY <1>1, <1>4, <2>1, <3>1 DEF Shown, Editor!Open, Editor!View
  <2>2. CASE e # d
    <3>1. text'[e] = text[e] /\ version'[e] = version[e] /\ shown'[e] = shown[e]
      BY <1>1, <1>2, <1>3, <2>2 DEF DocumentTypes, ShownTypes
    <3> QED
      BY <1>4, <3>1 DEF Shown, Editor!Open, Editor!View
  <2> QED
    BY <2>1, <2>2
<1> QED
  BY <1>6, <1>7, <1>8

\* A file's observations and its last run are forgotten, and the client is told.
LEMMA ClearKept ==
  ASSUME EditorInv, NEW d \in Docs, Editor!DidClose(d) \/ Editor!RunUnidentified(d)
  PROVE  EditorInv'
<1> USE DEF EditorInv, EditorTypes
<1>1. latest' = [latest EXCEPT ![d] = 0] /\ stored' = [stored EXCEPT ![d] = Editor!NoObservations]
  BY DEF Editor!DidClose, Editor!RunUnidentified, Editor!ClearForFile
<1>2. UNCHANGED <<generation, version, config, runs, flying, republish>>
  BY DEF Editor!DidClose, Editor!RunUnidentified, Editor!documentVars
<1>3. \/ text' = [text EXCEPT ![d] = "closed"] /\ shown' = [shown EXCEPT ![d] = Editor!Nothing]
      \/ /\ UNCHANGED text
         /\ text[d] # "closed" /\ shown' = [shown EXCEPT ![d] = Editor!View(d, text, version, stored')]
  BY DEF Editor!DidClose, Editor!RunUnidentified, Editor!documentVars, Editor!Publish, Editor!Open
<1>4. StoreTypes'
  BY <1>1 DEF StoreTypes, Editor!NoObservations
<1>5. DocumentTypes' /\ RunTypes'
  BY <1>2, <1>3 DEF DocumentTypes, RunTypes, Editor!Started
<1>6. ShownTypes'
  <2>1. text[d] # "closed" => Editor!View(d, text, version, stored') \in [version : Nat, run : Nat]
    BY <1>4, ViewTypes DEF DocumentTypes, StoreTypes
  <2> QED
    BY <1>3, <2>1 DEF ShownTypes, Editor!Nothing
<1>7. ASSUME NEW e \in Docs PROVE Latest(e)'
  <2>1. CASE e = d
    BY <1>1, <2>1 DEF Latest, StoreTypes, Editor!NoObservations
  <2>2. CASE e # d
    <3>1. latest'[e] = latest[e] /\ stored'[e] = stored[e] /\ text'[e] = text[e]
      BY <1>1, <1>3, <2>2 DEF StoreTypes, DocumentTypes
    <3> QED
      BY <1>2, <3>1 DEF Latest, Editor!Open
  <2> QED
    BY <2>1, <2>2
<1>8. ASSUME NEW e \in Docs PROVE Shown(e)'
  <2>1. CASE e = d
    BY <1>2, <1>3, <2>1 DEF Shown, DocumentTypes, ShownTypes, Editor!View, Editor!Open
  <2>2. CASE e # d
    <3>1. shown'[e] = shown[e] /\ stored'[e] = stored[e] /\ text'[e] = text[e]
      BY <1>1, <1>3, <2>2 DEF StoreTypes, DocumentTypes, ShownTypes
    <3> QED
      BY <1>2, <3>1 DEF Shown, Editor!Open, Editor!View
  <2> QED
    BY <2>1, <2>2
<1> QED
  BY <1>4, <1>5, <1>6, <1>7, <1>8

\* A run that starts outdates the others of its file, and owes the client a publication.
LEMMA RunFileKept ==
  ASSUME EditorInv, NEW d \in Docs, Editor!RunFile(d)
  PROVE  EditorInv'
<1> USE DEF EditorInv, EditorTypes
<1> DEFINE n == Editor!Started + 1
<1>1. n \in Nat \ {0} /\ DOMAIN runs = 1..(n - 1) /\ Editor!Started \in Nat
  BY DEF RunTypes
<1>2. /\ runs' = [i \in 1..n |-> IF i <= Editor!Started THEN runs[i] ELSE
           [doc |-> d, file |-> generation[d], revision |-> text[d], config |-> config]]
      /\ flying' = flying \cup {n}
      /\ latest' = [latest EXCEPT ![d] = n] /\ stored' = [stored EXCEPT ![d] = Editor!NoObservations]
  BY DEF Editor!RunFile
<1>10. UNCHANGED <<text, generation, version, config, shown, republish>> /\ text[d] # "closed"
  BY DEF Editor!RunFile, Editor!documentVars, Editor!Open
<1>3. DOMAIN runs' = 1..n
  BY <1>2
<1>4. Editor!Started' = n
  BY <1>1, <1>3, FS_Interval, RunsCounted DEF Editor!Started
<1>5. /\ \A j \in 1..(n - 1) : runs'[j] = runs[j]
      /\ runs'[n] = [doc |-> d, file |-> generation[d], revision |-> text[d], config |-> config]
  BY <1>1, <1>2
<1> HIDE DEF n
<1>6. RunTypes'
  <2>1. ASSUME NEW j \in 1..n PROVE runs'[j].doc \in Docs /\ runs'[j].revision \in Revisions
    <3>1. CASE j = n
      BY <1>5, <1>10, <3>1 DEF DocumentTypes
    <3>2. CASE j # n
      <4>1. j \in 1..(n - 1)
        BY <1>1, <3>2
      <4> QED
        BY <1>1, <1>5, <4>1 DEF RunTypes
    <3> QED
      BY <3>1, <3>2
  <2>2. flying' \subseteq 1..n
    BY <1>1, <1>2 DEF RunTypes
  <2> QED
    BY <1>1, <1>3, <1>4, <2>1, <2>2 DEF RunTypes
<1>7. StoreTypes' /\ DocumentTypes' /\ ShownTypes'
  BY <1>1, <1>2, <1>10 DEF StoreTypes, DocumentTypes, ShownTypes, Editor!NoObservations
<1>8. ASSUME NEW e \in Docs PROVE Latest(e)'
  <2>1. CASE e = d
    <3>1. latest'[e] = n /\ \A r \in Revisions : stored'[e][r] = 0
      BY <1>2, <2>1 DEF StoreTypes, Editor!NoObservations
    <3> QED
      BY <1>1, <1>3, <1>5, <1>10, <2>1, <3>1 DEF Latest, Editor!Open
  <2>2. CASE e # d
    <3>1. latest'[e] = latest[e] /\ stored'[e] = stored[e]
      BY <1>2, <2>2 DEF StoreTypes
    <3>2. \A j \in 1..(n - 1) : j \in DOMAIN runs' /\ runs'[j] = runs[j]
      BY <1>1, <1>3, <1>5
    <3>3. \A j \in DOMAIN runs' : runs'[j].doc = e => j \in 1..(n - 1)
      BY <1>1, <1>3, <1>5, <2>2
    <3>4. CASE latest[e] = 0
      BY <1>10, <3>1, <3>4 DEF Latest, Editor!Open
    <3>5. CASE latest[e] # 0
      <4>1. runs'[latest[e]] = runs[latest[e]] /\ latest[e] \in DOMAIN runs'
        BY <1>1, <3>2, <3>5 DEF Latest
      <4>2. \A j \in DOMAIN runs' : runs'[j].doc = e => j <= latest[e]
        BY <1>1, <3>2, <3>3, <3>5 DEF Latest
      <4> QED
        BY <1>10, <3>1, <3>5, <4>1, <4>2 DEF Latest, Editor!Open
    <3> QED
      BY <3>4, <3>5
  <2> QED
    BY <2>1, <2>2
<1>9. ASSUME NEW e \in Docs PROVE Shown(e)'
  <2>1. CASE e = d
    <3>1. n \in flying' /\ runs'[n].doc = e
      BY <1>2, <1>5, <2>1
    <3> QED
      BY <1>10, <2>1, <3>1 DEF Shown, Editor!Open
  <2>2. CASE e # d
    <3>1. \A j \in flying : j \in flying' /\ runs'[j] = runs[j]
      BY <1>1, <1>2, <1>5 DEF RunTypes
    <3>2. stored'[e] = stored[e]
      BY <1>2, <2>2 DEF StoreTypes
    <3> QED
      BY <1>10, <3>1, <3>2 DEF Shown, Editor!View, Editor!Open
  <2> QED
    BY <2>1, <2>2
<1> QED
  BY <1>6, <1>7, <1>8, <1>9

\* A run that completes commits only while it is the last one, and pays its publication.
LEMMA RunCompletesKept ==
  ASSUME EditorInv, NEW i \in flying, Editor!RunCompletes(i)
  PROVE  EditorInv'
<1> USE DEF EditorInv, EditorTypes
<1> DEFINE d == runs[i].doc
           r == runs[i].revision
<1>1. i \in Nat \ {0} /\ d \in Docs /\ r \in Revisions
  BY DEF RunTypes
<1>2. PICK found \in {0, i} :
        stored' = IF latest[d] = i THEN [stored EXCEPT ![d][r] = found] ELSE stored
  BY DEF Editor!RunCompletes, Editor!Commits
<1>3. /\ shown' = IF text[d] = "closed" THEN shown
                  ELSE [shown EXCEPT ![d] = Editor!View(d, text, version, stored')]
      /\ flying' = flying \ {i}
      /\ UNCHANGED <<text, generation, version, config, runs, latest, republish>>
  BY DEF Editor!RunCompletes, Editor!Publish, Editor!documentVars
<1> HIDE DEF d, r
<1>4. StoreTypes'
  <2>1. found \in Nat
    BY <1>1
  <2> QED
    BY <1>1, <1>2, <1>3, <2>1 DEF StoreTypes
<1>5. DocumentTypes' /\ RunTypes'
  BY <1>3 DEF DocumentTypes, RunTypes, Editor!Started
<1>6. ShownTypes'
  <2>1. text[d] # "closed" => Editor!View(d, text, version, stored') \in [version : Nat, run : Nat]
    BY <1>1, <1>4, ViewTypes DEF DocumentTypes, StoreTypes
  <2> QED
    BY <1>1, <1>3, <2>1 DEF ShownTypes
<1>7. ASSUME NEW e \in Docs PROVE Latest(e)'
  <2>1. CASE stored'[e] = stored[e]
    BY <1>3, <2>1 DEF Latest, Editor!Open
  <2>2. CASE stored'[e] # stored[e]
    <3>1. e = d /\ latest[e] = i /\ stored'[e] = [stored[e] EXCEPT ![r] = found]
      BY <1>1, <1>2, <2>2 DEF StoreTypes
    <3>2. r = runs[latest[e]].revision
      BY <3>1 DEF r
    <3>3. \A x \in Revisions : stored'[e][x] # 0 => stored'[e][x] = i /\ x = r
      BY <1>1, <1>2, <3>1, <3>2 DEF Latest, StoreTypes
    <3> QED
      BY <1>1, <1>3, <3>1, <3>2, <3>3 DEF Latest, Editor!Open
  <2> QED
    BY <2>1, <2>2
<1>8. ASSUME NEW e \in Docs PROVE Shown(e)'
  <2>1. CASE e = d /\ text[d] # "closed"
    <3>1. shown'[d] = Editor!View(d, text, version, stored')
      BY <1>1, <1>3, <2>1 DEF ShownTypes
    <3> QED
      BY <1>3, <2>1, <3>1 DEF Shown, Editor!View, Editor!Open
  <2>2. CASE e = d /\ text[d] = "closed"
    BY <1>1, <1>3, <2>2 DEF Shown, Editor!Open
  <2>3. CASE e # d
    <3>1. stored'[e] = stored[e] /\ shown'[e] = shown[e]
      BY <1>1, <1>2, <1>3, <2>3 DEF StoreTypes, ShownTypes
    <3>2. \A j \in flying : runs[j].doc = e => j \in flying'
      BY <1>3, <2>3 DEF d
    <3> QED
      BY <1>3, <3>1, <3>2 DEF Shown, Editor!View, Editor!Open
  <2> QED
    BY <2>1, <2>2, <2>3
<1> QED
  BY <1>4, <1>5, <1>6, <1>7, <1>8

LEMMA ReloadKept ==
  ASSUME EditorInv, Editor!Reload
  PROVE  EditorInv'
<1> USE DEF EditorInv, EditorTypes, Editor!Reload, Editor!Forget, Editor!documentVars
<1>1. DocumentTypes' /\ RunTypes' /\ StoreTypes' /\ ShownTypes'
  BY DEF DocumentTypes, RunTypes, StoreTypes, ShownTypes, Editor!Started, Editor!NoObservations
<1>2. ASSUME NEW e \in Docs PROVE Latest(e)' /\ Shown(e)'
  BY DEF Latest, Shown, Editor!Open, Editor!NoObservations
<1> QED
  BY <1>1, <1>2

LEMMA RepublishKept ==
  ASSUME EditorInv, NEW d \in Docs, Editor!Republish(d)
  PROVE  EditorInv'
<1> USE DEF EditorInv, EditorTypes
<1>1. /\ republish' = republish \ {d}
      /\ shown' = IF text[d] = "closed" THEN shown
                  ELSE [shown EXCEPT ![d] = Editor!View(d, text, version, stored)]
      /\ UNCHANGED <<text, generation, version, config, runs, flying, latest, stored>>
  BY DEF Editor!Republish, Editor!Publish, Editor!documentVars, Editor!storeVars
<1>2. DocumentTypes' /\ RunTypes' /\ StoreTypes'
  BY <1>1 DEF DocumentTypes, RunTypes, StoreTypes, Editor!Started
<1>3. ShownTypes'
  <2>1. text[d] # "closed" => Editor!View(d, text, version, stored) \in [version : Nat, run : Nat]
    BY ViewTypes DEF DocumentTypes, StoreTypes
  <2> QED
    BY <1>1, <2>1 DEF ShownTypes
<1>4. ASSUME NEW e \in Docs PROVE Latest(e)'
  BY <1>1 DEF Latest, Editor!Open
<1>5. ASSUME NEW e \in Docs PROVE Shown(e)'
  <2>1. CASE e = d
    BY <1>1, <2>1 DEF Shown, ShownTypes, Editor!View, Editor!Open
  <2>2. CASE e # d
    BY <1>1, <2>2 DEF Shown, ShownTypes, Editor!View, Editor!Open
  <2> QED
    BY <2>1, <2>2
<1> QED
  BY <1>2, <1>3, <1>4, <1>5

LEMMA EditorInvStep == EditorInv /\ [Editor!Next]_(Editor!vars) => EditorInv'
<1> SUFFICES ASSUME EditorInv, [Editor!Next]_(Editor!vars) PROVE EditorInv'
  OBVIOUS
<1>1. CASE UNCHANGED Editor!vars
  <2> USE <1>1 DEF Editor!vars, Editor!documentVars, Editor!storeVars, EditorInv, EditorTypes
  <2>1. DocumentTypes' /\ RunTypes' /\ StoreTypes' /\ ShownTypes'
    BY DEF DocumentTypes, RunTypes, StoreTypes, ShownTypes, Editor!Started
  <2>2. ASSUME NEW e \in Docs PROVE Latest(e)' /\ Shown(e)'
    BY DEF Latest, Shown, Editor!Open, Editor!View
  <2> QED
    BY <2>1, <2>2
<1>2. CASE Editor!Next
  BY <1>2, EditKept, ClearKept, RunFileKept, RunCompletesKept, ReloadKept, RepublishKept
    DEF Editor!Next
<1> QED
  BY <1>1, <1>2

\* The language server: what it keeps of a file is of the run that was started last under the
\* configuration in force, and when nothing is under way the client shows exactly that.
THEOREM DiagnosticsStayCurrent == Editor!Spec => []DiagnosticsCurrent
<1>1. Editor!Init => EditorInv
  <2> SUFFICES ASSUME Editor!Init PROVE EditorInv
    OBVIOUS
  <2>1. runs = <<>> /\ DOMAIN runs = 1..0 /\ Editor!Started = 0
    BY FS_EmptySet, RunsCounted DEF Editor!Init, Editor!Started
  <2>2. DocumentTypes /\ RunTypes /\ StoreTypes /\ ShownTypes
    BY <2>1 DEF Editor!Init, DocumentTypes, RunTypes, StoreTypes, ShownTypes, Editor!NoObservations,
      Editor!Nothing
  <2>3. ASSUME NEW e \in Docs PROVE Latest(e) /\ Shown(e)
    BY DEF Editor!Init, Latest, Shown, Editor!NoObservations, Editor!Open, Editor!Nothing
  <2> QED
    BY <2>2, <2>3 DEF EditorInv, EditorTypes
<1>2. EditorInv => DiagnosticsCurrent
  BY EditorCurrent
<1> QED
  BY <1>1, <1>2, EditorInvStep, PTL DEF Editor!Spec

-----------------------------------------------------------------------------
(* WaitRegistry: waits that nobody hosts in a scope                        *)


\* The proofs about a scope's waits, for contexts that have no scope.
SP == INSTANCE ResourceScope_proofs WITH
  Scopes <- Contexts, Cooperative <- {}, None <- NoCause, cause <- token, at <- polledAt,
  active <- registrations, phase <- waitPhase,
  nextId <- 0, entries <- 0, leases <- {}, begun <- 0, finished <- {},
  pc <- 0, host <- 0, body <- 0, result <- 0, observed <- 0, scopeBy <- 0, teardownAt <- 0, refused <- 0

LEMMA SameWaits ==
  /\ Wait!ConstantsFit => SP!W!ConstantsFit
  /\ Wait!Init => SP!W!Init
  /\ Wait!Next => SP!W!Next
<1> USE DEF Wait!Unknown, SP!W!Unknown, Wait!Completion, SP!W!Completion, Wait!CancelledBy,
      SP!W!CancelledBy
<1>1. Wait!ConstantsFit => SP!W!ConstantsFit
  BY DEF Wait!ConstantsFit, SP!W!ConstantsFit
<1>2. Wait!Init => SP!W!Init
  BY DEF Wait!Init, SP!W!Init
<1>3. Wait!Next => SP!W!Next
  <2>1. Wait!Tick => SP!W!Tick
    BY DEF Wait!Tick, SP!W!Tick, Wait!Epoch, SP!W!Epoch, Wait!Cleaning, SP!W!Cleaning, Wait!Running,
      SP!W!Running, Wait!Overdue, SP!W!Overdue, Wait!MaxTime, SP!W!MaxTime, Wait!waitVars,
      SP!W!waitVars, Wait!tokenVars, SP!W!tokenVars
  <2>2. ASSUME NEW c \in Contexts
        PROVE  /\ \A k \in Causes : Wait!Cancel(c, k) => SP!W!Cancel(c, k)
               /\ Wait!Register(c) => SP!W!Register(c)
               /\ Wait!Reject(c) => SP!W!Reject(c)
    <3>1. Wait!Cardinality(registrations) = SP!W!Cardinality(registrations)
      BY DEF Wait!Cardinality, SP!W!Cardinality
    <3> QED
      BY <3>1 DEF Wait!Cancel, SP!W!Cancel, Wait!Register, SP!W!Register, Wait!Reject, SP!W!Reject,
        Wait!Begin, SP!W!Begin, Wait!Epoch, SP!W!Epoch, Wait!OpenBudget, SP!W!OpenBudget,
        Wait!Overdue, SP!W!Overdue, Wait!waitVars, SP!W!waitVars, Wait!tokenVars, SP!W!tokenVars
  <2>3. ASSUME NEW c \in Contexts
        PROVE  /\ Wait!PollCancelled(c) => SP!W!PollCancelled(c)
               /\ Wait!PollDeadline(c) => SP!W!PollDeadline(c)
               /\ Wait!PollSource(c) => SP!W!PollSource(c)
               /\ Wait!OpenCleanup(c) => SP!W!OpenCleanup(c)
    BY DEF Wait!PollCancelled, SP!W!PollCancelled, Wait!PollDeadline, SP!W!PollDeadline,
      Wait!PollSource, SP!W!PollSource, Wait!OpenCleanup, SP!W!OpenCleanup, Wait!Settle,
      SP!W!Settle, Wait!OpenBudget, SP!W!OpenBudget, Wait!Epoch, SP!W!Epoch, Wait!Overdue,
      SP!W!Overdue, Wait!AnyCause, SP!W!AnyCause, Wait!waitVars, SP!W!waitVars, Wait!tokenVars,
      SP!W!tokenVars
  <2>4. ASSUME NEW c \in Contexts, NEW failed
        PROVE  /\ Wait!InterruptEnds(c, failed) => SP!W!InterruptEnds(c, failed)
               /\ Wait!CleanupEnds(c, failed) => SP!W!CleanupEnds(c, failed)
    BY DEF Wait!InterruptEnds, SP!W!InterruptEnds, Wait!CleanupEnds, SP!W!CleanupEnds,
      Wait!BoundedEnds, SP!W!BoundedEnds, Wait!Settle, SP!W!Settle, Wait!waitVars, SP!W!waitVars,
      Wait!tokenVars, SP!W!tokenVars
  <2> QED
    BY <2>1, <2>2, <2>3, <2>4
    DEF Wait!Next, SP!W!Next, Wait!Driven, SP!W!Driven, Wait!InterruptExpires,
      SP!W!InterruptExpires, Wait!CleanupExpires, SP!W!CleanupExpires
<1> QED
  BY <1>1, <1>2, <1>3

\* wait() of waits.rs: one that is entered under a cancelled token or after its deadline reports no
\* result of its source, and interrupt and cleanup share one budget.
THEOREM WaitsHonest == Wait!Spec => []WaitHonest
<1>1. SP!W!Spec => []SP!WaitHolds
  BY SameWaits, WaitAssumption, SP!WaitsHold
<1>2. [Wait!Next]_(Wait!vars) => [SP!W!Next]_(SP!W!vars)
  BY SameWaits DEF Wait!vars, SP!W!vars, Wait!tokenVars, SP!W!tokenVars, Wait!waitVars,
    SP!W!waitVars
<1>3. SP!WaitHolds => WaitHonest
  BY DEF SP!WaitHolds, WaitHonest, SP!W!StaleContextNeverSucceeds, Wait!StaleContextNeverSucceeds,
    SP!W!OneCleanupBudget, Wait!OneCleanupBudget, SP!W!Cleaning, Wait!Cleaning
<1> QED
  BY <1>1, <1>2, <1>3, SameWaits, PTL DEF Wait!Spec, SP!W!Spec
=============================================================================
