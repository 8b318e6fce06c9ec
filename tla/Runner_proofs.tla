--------------------------- MODULE Runner_proofs ---------------------------
(***************************************************************************)
(* Proofs about RunnerJobs for any files, tests and number of workers: its *)
(* safety, and that it implements TestAdmission; and about what stands     *)
(* around it: the bridge for any calls, `webtest test' for any files and   *)
(* applications, `webtest init' for any scaffold, and the scopes for any   *)
(* deadlines and budgets.                                                  *)
(***************************************************************************)
EXTENDS Runner, FiniteSetTheorems, WellFoundedInduction, TLAPS

-----------------------------------------------------------------------------
(* The inductive invariant                                                 *)

PlanAbort == RunOutcome("Aborted", 0, FALSE)

\* Every root before `next' has a result or is running, once; none after it has.
Progress ==
  /\ \A i \in Roots : i < next => result[i] # "None" \/ \E p \in pending : p.root = i
  /\ \A i \in Roots : i >= next => result[i] = "None"
  /\ \A p, q \in pending : p.root = q.root => p = q

\* Nothing is left to do when the files are reported.
PhaseInv ==
  /\ pc = "finish" => pending = {} /\ next = N + 1
  /\ reported > 0 => pc = "finish"

\* What a result says of the signals its root got and gave.
ResultInv == \A i \in Roots :
  /\ result[i] \in Cancels => FileOf[i] \in cancelled \cup overflow
  /\ i \in spoke => result[i] \notin Skipped \cup {"Passed"}

\* A skipped test has its reason, and the verdict of its file shows it.
SkipInv == \A i \in Roots :
  /\ result[i] = "SkippedCancelled" =>
       FileOf[i] \in cancelled \cup overflow /\ outcome[FileOf[i]].kind # "Completed"
  /\ result[i] = "SkippedAborted" =>
       \/ FileOf[i] \in overflow
       \/ \E j \in spoke : FileOf[j] = FileOf[i]
       \/ outcome[FileOf[i]].kind = "Aborted"

\* A verdict has its grounds.
OutcomeInv == \A f \in Files :
  /\ outcome[f].kind = "Aborted" /\ f \notin overflow =>
       \/ outcome[f].failure # 0
       \/ outcome[f] = PlanAbort /\ \A i \in RootsOf(f) :
            result[i] \notin Ran /\ \A p \in pending : p.root # i
  /\ outcome[f].failure # 0 =>
       outcome[f].failure \in RootsOf(f) /\ result[outcome[f].failure] \in Aborts
  /\ outcome[f].kind = "Cancelled" => f \in cancelled \cup overflow
  /\ Final(f) /\ f \in overflow => outcome[f].kind = "Aborted"

Inv == TypeOK /\ WorkersConserved /\ Progress /\ PhaseInv /\ ResultInv /\ SkipInv
         /\ OutcomeInv /\ SourceOrdered

-----------------------------------------------------------------------------
(* The parts of the state one step at a time                               *)

LEMMA Sets ==
  /\ Roots \subseteq Nat /\ Files \subseteq Nat /\ Workers \subseteq Nat
  /\ \A i \in Roots : FileOf[i] \in Files
  /\ 1 \in Workers
  BY SizeAssumption, FileOfAssumption DEF Roots, Files, Workers

\* A non-empty set of naturals has a least element.
LEMMA LeastExists ==
  ASSUME NEW T, T \subseteq Nat, T # {}
  PROVE  \E m \in T : \A k \in T : m <= k
<1> DEFINE Less == {s \in Nat \X Nat : s[1] < s[2]}
<1>1. IsWellFoundedOn(Less, Nat)
  BY NatLessThanWellFounded, Zenon DEF OpToRel
<1>2. PICK m \in T : \A k \in T : ~ (<<k, m>> \in Less)
  <2> HIDE DEF Less
  <2> QED
    BY <1>1, WFMin
<1>3. ASSUME NEW k \in T PROVE m <= k
  <2>1. k \in Nat /\ m \in Nat /\ <<k, m>> \in Nat \X Nat
    BY Zenon
  <2>2. ~ (k < m)
    BY <1>2, <2>1
  <2> QED
    BY <2>1, <2>2
<1> QED
  BY <1>3

\* The runner starts with all workers free and nothing to show.
LEMMA InitInv == Init => Inv
<1> SUFFICES ASSUME Init PROVE Inv
  OBVIOUS
<1> USE Sets, SizeAssumption, FileOfAssumption
<1>1. PICK invalid \in SUBSET Files :
        outcome = [f \in Files |-> IF f \in invalid THEN RunOutcome("Aborted", 0, FALSE)
                                   ELSE IF f \in cancelled THEN Cancelled ELSE Completed]
  BY DEF Init
<1>2. TypeOK
  BY <1>1 DEF Init, TypeOK, Outcome, RunOutcome, Cancelled, Completed, Workers
<1>3. WorkersConserved
  BY DEF Init, WorkersConserved, Workers
<1>4. Progress /\ PhaseInv /\ ResultInv /\ SkipInv
  BY DEF Init, Progress, PhaseInv, ResultInv, SkipInv, Roots, Cancels, Skipped
<1>5. OutcomeInv /\ SourceOrdered
  BY <1>1
  DEF Init, OutcomeInv, SourceOrdered, PlanAbort, RunOutcome, Cancelled, Completed, Final, Files,
      RootsOf, Ran
<1> QED
  BY <1>2, <1>3, <1>4, <1>5 DEF Inv

\* What the threads around the driver do: cancel a control, report, exhaust a journal.
LEMMA OutsideInv ==
  ASSUME Inv,
         \/ \E f \in Files : CancelControl(f)
         \/ \E p \in pending : Speak(p) \/ Exhaust(p)
  PROVE  Inv'
<1> USE Sets DEF Inv
<1>1. /\ cancelled \subseteq cancelled' /\ cancelled' \subseteq Files
      /\ overflow \subseteq overflow' /\ overflow' \subseteq Files
      /\ overflow' # overflow => pc = "wait"
      /\ spoke \subseteq spoke' /\ spoke' \subseteq spoke \cup {p.root : p \in pending}
      /\ UNCHANGED <<available, pending, next, result, outcome, pc, reported>>
  BY DEF CancelControl, Speak, Exhaust, driverVars, TypeOK
<1>2. \A p \in pending : p.root \in Roots /\ p.root < next /\ result[p.root] = "None"
  BY DEF TypeOK
<1>3. TypeOK'
  BY <1>1, <1>2 DEF TypeOK
<1>4. WorkersConserved' /\ Progress' /\ PhaseInv'
  BY <1>1 DEF WorkersConserved, Progress, PhaseInv
<1>5. ResultInv'
  BY <1>1, <1>2 DEF ResultInv, Skipped
<1>6. SkipInv'
  BY <1>1 DEF SkipInv
<1>7. OutcomeInv'
  <2>1. \A f \in Files : Final(f)' /\ f \in overflow' => f \in overflow /\ Final(f)
    BY <1>1 DEF PhaseInv, Final, TypeOK, Files
  <2> QED
    BY <1>1, <2>1 DEF OutcomeInv, RootsOf
<1>8. SourceOrdered'
  BY <1>1 DEF SourceOrdered, Final, With, RootsOf
<1> QED
  BY <1>3, <1>4, <1>5, <1>6, <1>7, <1>8

\* The next root takes the first free worker.
LEMMA AdmitInv ==
  ASSUME Inv, Admit
  PROVE  Inv'
<1> USE Sets, SizeAssumption DEF Inv
<1> DEFINE new == [root |-> next, worker |-> Head(available)]
<1>1. /\ pc = "admit" /\ available # <<>> /\ next \in Roots /\ next <= N
      /\ pending' = pending \cup {new}
      /\ available' = Tail(available) /\ next' = next + 1
      /\ UNCHANGED <<cancelled, overflow, spoke, result, outcome, pc, reported>>
  BY DEF Admit, Admitting, TypeOK, Roots
<1>2. SkipReason(FileOf[next]) = "None"
  BY DEF Admit
<1>3. /\ available \in Seq(Workers) /\ Len(available) >= 1
      /\ Head(available) = available[1] /\ Head(available) \in Workers
      /\ Tail(available) \in Seq(Workers) /\ Len(Tail(available)) = Len(available) - 1
      /\ \A k \in 1..(Len(available) - 1) : Tail(available)[k] = available[k + 1]
      /\ 1 \in DOMAIN available
  BY <1>1 DEF TypeOK
<1>4. result[next] = "None" /\ \A p \in pending : p.root \in Roots /\ p.root < next
  BY <1>1 DEF Progress, TypeOK
<1>5. \A p \in pending : p.worker # Head(available)
  BY <1>3 DEF WorkersConserved
<1>6. TypeOK'
  BY <1>1, <1>3, <1>4 DEF TypeOK, Roots
<1>7. WorkersConserved'
  <2>1. \A w \in Workers : w # Head(available) =>
          ((\E k \in DOMAIN available : available[k] = w)
             <=> (\E k \in DOMAIN Tail(available) : Tail(available)[k] = w))
    <3> TAKE w \in Workers
    <3> HAVE w # Head(available)
    <3>1. ASSUME NEW k \in DOMAIN available, available[k] = w
          PROVE \E j \in DOMAIN Tail(available) : Tail(available)[j] = w
      <4>1. k # 1 /\ k - 1 \in 1..(Len(available) - 1) /\ Tail(available)[k - 1] = w
        BY <1>3, <3>1
      <4> QED
        BY <1>3, <4>1
    <3>2. ASSUME NEW k \in DOMAIN Tail(available), Tail(available)[k] = w
          PROVE \E j \in DOMAIN available : available[j] = w
      <4>1. k + 1 \in DOMAIN available /\ available[k + 1] = w
        BY <1>3, <3>2
      <4> QED
        BY <4>1
    <3> QED
      BY <3>1, <3>2
  <2>2. \A k \in DOMAIN Tail(available) : Tail(available)[k] # Head(available)
    BY <1>3 DEF WorkersConserved
  <2>3. \A j, k \in DOMAIN Tail(available) : Tail(available)[j] = Tail(available)[k] => j = k
    BY <1>3 DEF WorkersConserved
  <2>4. \A p, q \in pending' : p.worker = q.worker => p = q
    BY <1>1, <1>5 DEF WorkersConserved
  <2>5. \A w \in Workers :
          \/ /\ \E k \in DOMAIN available' : available'[k] = w
             /\ \A p \in pending' : p.worker # w
          \/ /\ \A k \in DOMAIN available' : available'[k] # w
             /\ \E p \in pending' : p.worker = w
    <3> TAKE w \in Workers
    <3>1. CASE w = Head(available)
      <4>1. new \in pending' /\ new.worker = w
        BY <1>1, <3>1
      <4> HIDE DEF new
      <4> QED
        BY <1>1, <2>2, <3>1, <4>1
    <3>2. CASE w # Head(available)
      BY <1>1, <2>1, <3>2 DEF WorkersConserved
    <3> QED
      BY <3>1, <3>2
  <2> QED
    BY <1>1, <2>3, <2>4, <2>5 DEF WorkersConserved
<1>8. Progress'
  <2>1. new \in pending' /\ new.root = next /\ pending \subseteq pending'
    BY <1>1
  <2>2. \A p \in pending' : p = new \/ p \in pending
    BY <1>1
  <2>3. next \in Nat /\ \A i \in Roots : i \in Nat /\ (i < next + 1 <=> i < next \/ i = next)
    BY DEF TypeOK, Roots
  <2> HIDE DEF new
  <2>4. \A i \in Roots : i < next' => result'[i] # "None" \/ \E p \in pending' : p.root = i
    BY <1>1, <2>1, <2>3 DEF Progress
  <2>5. \A i \in Roots : i >= next' => result'[i] = "None"
    BY <1>1, <2>3 DEF Progress
  <2>6. \A p, q \in pending' : p.root = q.root => p = q
    BY <1>4, <2>1, <2>2, <2>3 DEF Progress
  <2> QED
    BY <2>4, <2>5, <2>6 DEF Progress
<1>9. PhaseInv' /\ ResultInv' /\ SkipInv' /\ SourceOrdered'
  BY <1>1 DEF PhaseInv, ResultInv, SkipInv, SourceOrdered, Final, With, RootsOf
<1>10. OutcomeInv'
  <2>1. ~ (outcome[FileOf[next]].kind = "Aborted") /\ FileOf[next] \in Files
    BY <1>1, <1>2 DEF SkipReason, Checked, TypeOK, Outcome, RunOutcome, Cancelled
  <2> QED
    BY <1>1, <2>1 DEF OutcomeInv, Final, RootsOf
<1> QED
  BY <1>6, <1>7, <1>8, <1>9, <1>10

\* A skipped test gets the reason of its file as its result.
LEMMA SkipTestInv ==
  ASSUME Inv, SkipTest
  PROVE  Inv'
<1> USE Sets, SizeAssumption DEF Inv
<1> DEFINE f == FileOf[next]
           o == Checked(f)
           r == SkipReason(f)
<1>1. /\ pc = "admit" /\ next \in Roots /\ next <= N /\ next' = next + 1 /\ r # "None"
      /\ outcome' = [outcome EXCEPT ![f] = o]
      /\ result' = [result EXCEPT ![next] = r]
      /\ overflow' \in {overflow, overflow \cup {f}}
      /\ UNCHANGED <<cancelled, spoke, available, pending, pc, reported>>
  BY DEF SkipTest, Admitting, TypeOK, Roots
<1>2. /\ f \in Files /\ outcome[f] \in Outcome /\ o \in Outcome /\ reported = 0
      /\ result[next] = "None" /\ next \notin spoke
      /\ \A p \in pending : p.root < next /\ p.root \in Roots /\ p.root # next
  <2>1. f \in Files /\ outcome[f] \in Outcome /\ next \in Nat /\ reported = 0 /\ next \notin spoke
    BY <1>1 DEF TypeOK, PhaseInv, Roots, Files
  <2>2. o \in Outcome
    BY <2>1 DEF Checked, Outcome, Cancelled, RunOutcome
  <2>3. result[next] = "None"
    BY <1>1, <2>1 DEF Progress
  <2>4. \A p \in pending : p.root < next /\ p.root \in Roots /\ p.root # next
    BY <2>1 DEF TypeOK
  <2> QED
    BY <2>1, <2>2, <2>3, <2>4
<1>3. /\ o = outcome[f] \/ (o = Cancelled /\ outcome[f].kind = "Completed" /\ f \in cancelled)
      /\ r \in Skipped
      /\ r = "SkippedCancelled" => o.kind = "Cancelled"
      /\ r = "SkippedAborted" => \/ f \in overflow
                                 \/ \E j \in spoke : FileOf[j] = f
                                 \/ o.kind = "Aborted"
  <2>1. o = outcome[f] \/ (o = Cancelled /\ outcome[f].kind = "Completed" /\ f \in cancelled)
    BY DEF Checked
  <2>2. o.kind \in {"Completed", "Cancelled", "Aborted"}
    BY <1>2 DEF Outcome
  <2>3. f \notin overflow /\ o.kind = "Completed" => r = "None" \/ (r = "SkippedAborted" /\ Noticed(f))
    BY DEF SkipReason
  <2>4. f \notin overflow /\ o.kind = "Cancelled" => r = "SkippedCancelled"
    BY DEF SkipReason
  <2>5. f \notin overflow /\ o.kind = "Aborted" => r = "SkippedAborted"
    BY DEF SkipReason
  <2>6. f \in overflow => r = "SkippedAborted"
    BY DEF SkipReason
  <2> HIDE DEF o, r
  <2> QED
    BY <1>1, <2>1, <2>2, <2>3, <2>4, <2>5, <2>6 DEF Noticed, Skipped
<1>4. /\ Cancelled.kind = "Cancelled" /\ Cancelled.failure = 0
      /\ Skipped \cap Ran = {} /\ "None" \notin Skipped \cup Ran /\ Aborts \subseteq Ran
      /\ Cancels \subseteq Ran
  BY DEF Cancelled, RunOutcome, Skipped, Ran, Aborts, Cancels
<1> HIDE DEF o, r, f
<1>5. TypeOK'
  BY <1>1, <1>2, <1>3 DEF TypeOK, Roots
<1>6. WorkersConserved'
  BY <1>1 DEF WorkersConserved
<1>7. Progress'
  BY <1>1, <1>2, <1>3, <1>4 DEF Progress, TypeOK, Roots
<1>8. PhaseInv'
  BY <1>1 DEF PhaseInv
<1>9. ResultInv'
  BY <1>1, <1>2, <1>3, <1>4 DEF ResultInv, TypeOK
<1>10. SkipInv'
  <2> SUFFICES ASSUME NEW i \in Roots
               PROVE  /\ result'[i] = "SkippedCancelled" =>
                           /\ FileOf[i] \in cancelled' \cup overflow'
                           /\ outcome'[FileOf[i]].kind # "Completed"
                      /\ result'[i] = "SkippedAborted" =>
                           \/ FileOf[i] \in overflow'
                           \/ \E j \in spoke' : FileOf[j] = FileOf[i]
                           \/ outcome'[FileOf[i]].kind = "Aborted"
    BY DEF SkipInv
  <2>1. outcome' = [g \in Files |-> IF g = f THEN o ELSE outcome[g]] /\ overflow \subseteq overflow'
    BY <1>1, <1>2 DEF TypeOK
  <2>2. o.kind = "Cancelled" => f \in cancelled \cup overflow
    BY <1>2, <1>3 DEF OutcomeInv
  <2>3. CASE i = next
    <3>1. result'[i] = r /\ FileOf[i] = f
      BY <1>1, <2>3 DEF TypeOK, f
    <3> QED
      BY <1>1, <1>2, <1>3, <2>1, <2>2, <3>1
  <2>4. CASE i # next
    <3>1. result'[i] = result[i] /\ FileOf[i] \in Files
      BY <1>1, <2>4 DEF TypeOK
    <3>2. outcome[FileOf[i]].kind # "Completed" => outcome'[FileOf[i]] = outcome[FileOf[i]]
      BY <1>3, <2>1, <3>1
    <3> QED
      BY <1>1, <2>1, <3>1, <3>2 DEF SkipInv
  <2> QED
    BY <2>3, <2>4
<1>11. OutcomeInv'
  <2> SUFFICES ASSUME NEW g \in Files
               PROVE  /\ outcome'[g].kind = "Aborted" /\ g \notin overflow' =>
                           \/ outcome'[g].failure # 0
                           \/ outcome'[g] = PlanAbort /\ \A i \in RootsOf(g) :
                                result'[i] \notin Ran /\ \A p \in pending' : p.root # i
                      /\ outcome'[g].failure # 0 =>
                           /\ outcome'[g].failure \in RootsOf(g)
                           /\ result'[outcome'[g].failure] \in Aborts
                      /\ outcome'[g].kind = "Cancelled" => g \in cancelled' \cup overflow'
                      /\ Final(g)' /\ g \in overflow' => outcome'[g].kind = "Aborted"
    BY DEF OutcomeInv, RootsOf
  <2>1. ~ Final(g)'
    BY <1>1, <1>2 DEF Final, Files
  <2>2. \A i \in Roots : result'[i] = result[i] \/ (i = next /\ result'[i] \notin Ran)
    <3>1. \A i \in Roots : result'[i] = IF i = next THEN r ELSE result[i]
      BY <1>1 DEF TypeOK
    <3>2. r \notin Ran
      BY <1>3, <1>4
    <3> QED
      BY <3>1, <3>2
  <2>3. \A i \in Roots : result[i] \in Ran => result'[i] = result[i]
    BY <1>1, <1>2, <1>4 DEF TypeOK
  <2>4. CASE outcome'[g] = outcome[g]
    <3>1. outcome[g].failure \in RootsOf(g) /\ result[outcome[g].failure] \in Aborts =>
            result'[outcome[g].failure] \in Aborts
      BY <1>4, <2>3 DEF RootsOf
    <3> QED
      BY <1>1, <2>1, <2>2, <2>4, <3>1 DEF OutcomeInv, RootsOf
  <2>5. CASE outcome'[g] = Cancelled /\ g \in cancelled
    BY <1>1, <1>4, <2>1, <2>5
  <2> QED
    BY <1>1, <1>2, <1>3, <2>4, <2>5 DEF TypeOK
<1>12. SourceOrdered'
  BY <1>1, <1>2 DEF SourceOrdered, Final, Files
<1> QED
  BY <1>5, <1>6, <1>7, <1>8, <1>9, <1>10, <1>11, <1>12

\* The driver waits only for roots, and stops only when every root was taken up.
LEMMA AdmissionEndsInv ==
  ASSUME Inv, AdmissionEnds
  PROVE  Inv'
<1> USE Sets, SizeAssumption DEF Inv
<1>1. /\ pc = "admit" /\ (available = <<>> \/ next > N)
      /\ pc' = IF pending = {} THEN "finish" ELSE "wait"
      /\ UNCHANGED <<cancelled, overflow, spoke, available, pending, next, result, outcome, reported>>
  BY DEF AdmissionEnds
<1>2. pending = {} => next = N + 1
  <2>1. pending = {} => \E k \in DOMAIN available : available[k] = 1
    BY DEF WorkersConserved
  <2>2. available = <<>> => DOMAIN available = {}
    OBVIOUS
  <2> QED
    BY <1>1, <2>1, <2>2 DEF TypeOK
<1>3. TypeOK' /\ PhaseInv'
  BY <1>1, <1>2 DEF TypeOK, PhaseInv
<1>4. WorkersConserved' /\ Progress' /\ ResultInv' /\ SkipInv' /\ OutcomeInv' /\ SourceOrdered'
  BY <1>1
  DEF WorkersConserved, Progress, ResultInv, SkipInv, OutcomeInv, SourceOrdered, Final, With,
    RootsOf
<1> QED
  BY <1>3, <1>4

\* A root ends: its worker is free again, its result stands, the first abort counts.
LEMMA CompleteInv ==
  ASSUME Inv, NEW p \in pending, NEW r \in Ran, Complete(p, r)
  PROVE  Inv'
<1> USE Sets, SizeAssumption DEF Inv
<1> DEFINE f == FileOf[p.root]
           o == Updated(outcome[f], p.root, r)
<1>1. /\ pc = "wait" /\ Possible(p.root, r) /\ pc' = "admit"
      /\ pending' = pending \ {p} /\ available' = Append(available, p.worker)
      /\ result' = [result EXCEPT ![p.root] = r] /\ outcome' = [outcome EXCEPT ![f] = o]
      /\ UNCHANGED <<cancelled, overflow, spoke, next, reported>>
  BY DEF Complete
<1>2. /\ p.root \in Roots /\ p.root < next /\ p.worker \in Workers /\ result[p.root] = "None"
      /\ f \in Files /\ reported = 0 /\ outcome[f] \in Outcome /\ p.root \in 1..N /\ p.root # 0
  <2>1. p.root \in Roots /\ p.root < next /\ p.worker \in Workers /\ result[p.root] = "None"
    BY DEF TypeOK
  <2>2. p.root \in 1..N /\ p.root # 0 /\ f \in Files
    BY <2>1 DEF Roots
  <2>3. outcome[f] \in Outcome
    BY <2>2 DEF TypeOK
  <2>4. reported = 0
    BY <1>1 DEF TypeOK, PhaseInv
  <2> QED
    BY <2>1, <2>2, <2>3, <2>4
<1>3. /\ "None" \notin Ran /\ Skipped \cap Ran = {} /\ Aborts \subseteq Ran /\ Cancels \subseteq Ran
      /\ "None" \notin Aborts \cup Cancels \cup Skipped /\ "Passed" \notin Aborts \cup Cancels
  BY DEF Ran, Skipped, Aborts, Cancels
<1>4. \/ /\ r \in Aborts /\ o.kind = "Aborted" /\ o.failure = p.root
      \/ /\ r = "Cancelled" /\ outcome[f].kind = "Completed"
         /\ o.kind = "Cancelled" /\ o.failure = 0
      \/ /\ o = outcome[f] /\ (r \in Aborts => o.kind = "Aborted")
  BY <1>2 DEF Updated, RunOutcome, Cancelled, Outcome
<1>5. o \in Outcome
  BY <1>2 DEF Updated, RunOutcome, Cancelled, Outcome
<1>6. /\ outcome' = [g \in Files |-> IF g = f THEN o ELSE outcome[g]]
      /\ result' = [i \in Roots |-> IF i = p.root THEN r ELSE result[i]]
  BY <1>1 DEF TypeOK
<1> HIDE DEF o
<1>7. TypeOK'
  <2>1. pending' \in SUBSET [root : {i \in Roots : i < next' /\ result'[i] = "None"}, worker : Workers]
    <3>1. \A q \in pending' : q \in pending /\ q.root # p.root
      BY <1>1 DEF Progress
    <3> QED
      BY <1>1, <1>6, <3>1 DEF TypeOK
  <2> QED
    BY <1>1, <1>2, <1>5, <1>6, <2>1 DEF TypeOK
<1>8. WorkersConserved'
  <2>1. /\ available \in Seq(Workers) /\ Len(available) \in Nat
        /\ DOMAIN available = 1..Len(available)
        /\ DOMAIN available' = 1..(Len(available) + 1)
        /\ \A k \in DOMAIN available : available'[k] = available[k]
        /\ available'[Len(available) + 1] = p.worker
    BY <1>1, <1>2 DEF TypeOK
  <2>2. \A k \in DOMAIN available : available[k] # p.worker
    BY <1>2 DEF WorkersConserved
  <2>3. \A q \in pending' : q \in pending /\ q.worker # p.worker
    BY <1>1 DEF WorkersConserved
  <2>4. \A j, k \in DOMAIN available' : available'[j] = available'[k] => j = k
    <3>1. \A k \in DOMAIN available' : k \in DOMAIN available \/ k = Len(available) + 1
      BY <2>1
    <3> QED
      BY <2>1, <2>2, <3>1 DEF WorkersConserved
  <2>5. \A w \in Workers :
          \/ /\ \E k \in DOMAIN available' : available'[k] = w
             /\ \A q \in pending' : q.worker # w
          \/ /\ \A k \in DOMAIN available' : available'[k] # w
             /\ \E q \in pending' : q.worker = w
    <3> TAKE w \in Workers
    <3>1. CASE w = p.worker
      <4>1. Len(available) + 1 \in DOMAIN available'
        BY <2>1
      <4> QED
        BY <2>1, <2>3, <3>1, <4>1
    <3>2. CASE w # p.worker
      <4>1. (\E q \in pending' : q.worker = w) <=> \E q \in pending : q.worker = w
        BY <1>1, <3>2
      <4>2. (\E k \in DOMAIN available' : available'[k] = w)
              <=> \E k \in DOMAIN available : available[k] = w
        BY <2>1, <3>2
      <4> QED
        BY <4>1, <4>2 DEF WorkersConserved
    <3> QED
      BY <3>1, <3>2
  <2>6. \A q1, q2 \in pending' : q1.worker = q2.worker => q1 = q2
    BY <2>3 DEF WorkersConserved
  <2> QED
    BY <2>4, <2>5, <2>6 DEF WorkersConserved
<1>9. Progress'
  <2>1. \A i \in Roots : i < next' => result'[i] # "None" \/ \E q \in pending' : q.root = i
    BY <1>1, <1>3, <1>6 DEF Progress
  <2>2. \A i \in Roots : i >= next' => result'[i] = "None"
    BY <1>1, <1>2, <1>6 DEF Progress, TypeOK, Roots
  <2>3. \A q1, q2 \in pending' : q1.root = q2.root => q1 = q2
    BY <1>1 DEF Progress
  <2> QED
    BY <2>1, <2>2, <2>3 DEF Progress
<1>10. PhaseInv'
  BY <1>1, <1>2 DEF PhaseInv
<1>11. ResultInv'
  BY <1>1, <1>3, <1>6 DEF ResultInv, Possible
<1>12. \A i \in Roots : result[i] # "None" => result'[i] = result[i]
  BY <1>2, <1>6
<1>13. SkipInv'
  <2> SUFFICES ASSUME NEW i \in Roots
               PROVE  /\ result'[i] = "SkippedCancelled" =>
                           /\ FileOf[i] \in cancelled' \cup overflow'
                           /\ outcome'[FileOf[i]].kind # "Completed"
                      /\ result'[i] = "SkippedAborted" =>
                           \/ FileOf[i] \in overflow'
                           \/ \E j \in spoke' : FileOf[j] = FileOf[i]
                           \/ outcome'[FileOf[i]].kind = "Aborted"
    BY DEF SkipInv
  <2>1. CASE result'[i] \in Skipped
    <3>1. result[i] = result'[i] /\ FileOf[i] \in Files
      BY <1>3, <1>6, <2>1
    <3>2. /\ outcome[FileOf[i]].kind # "Completed" => outcome'[FileOf[i]].kind # "Completed"
          /\ outcome[FileOf[i]].kind = "Aborted" => outcome'[FileOf[i]].kind = "Aborted"
      BY <1>4, <1>6, <3>1
    <3> QED
      BY <1>1, <3>1, <3>2 DEF SkipInv
  <2>2. CASE result'[i] \notin Skipped
    BY <2>2 DEF Skipped
  <2> QED
    BY <2>1, <2>2
<1>14. OutcomeInv'
  <2> SUFFICES ASSUME NEW g \in Files
               PROVE  /\ outcome'[g].kind = "Aborted" /\ g \notin overflow' =>
                           \/ outcome'[g].failure # 0
                           \/ outcome'[g] = PlanAbort /\ \A i \in RootsOf(g) :
                                result'[i] \notin Ran /\ \A q \in pending' : q.root # i
                      /\ outcome'[g].failure # 0 =>
                           /\ outcome'[g].failure \in RootsOf(g)
                           /\ result'[outcome'[g].failure] \in Aborts
                      /\ outcome'[g].kind = "Cancelled" => g \in cancelled' \cup overflow'
                      /\ Final(g)' /\ g \in overflow' => outcome'[g].kind = "Aborted"
    BY DEF OutcomeInv, RootsOf
  <2>1. ~ Final(g)'
    BY <1>1, <1>2 DEF Final, Files
  <2>2. \A i \in Roots : result[i] \in Aborts => result'[i] \in Aborts
    BY <1>3, <1>12
  <2>3. outcome[g].failure # 0 =>
          outcome[g].failure \in RootsOf(g) /\ result'[outcome[g].failure] \in Aborts
    BY <2>2 DEF OutcomeInv, RootsOf
  <2>4. CASE g # f
    <3>1. outcome'[g] = outcome[g] /\ \A i \in RootsOf(g) : result'[i] = result[i]
      BY <1>6, <2>4 DEF RootsOf
    <3>2. \A q \in pending' : q \in pending
      BY <1>1
    <3>3. outcome[g] = PlanAbort /\ (\A i \in RootsOf(g) :
              result[i] \notin Ran /\ \A q \in pending : q.root # i) =>
            \A i \in RootsOf(g) : result'[i] \notin Ran /\ \A q \in pending' : q.root # i
      BY <3>1, <3>2
    <3> QED
      BY <1>1, <2>1, <2>3, <3>1, <3>3 DEF OutcomeInv
  <2>5. CASE g = f /\ o.kind = "Aborted" /\ o.failure = p.root /\ r \in Aborts
    <3>1. outcome'[g] = o /\ result'[p.root] = r /\ p.root \in RootsOf(g)
      BY <1>2, <1>6, <2>5 DEF RootsOf
    <3> QED
      BY <1>2, <2>1, <2>5, <3>1
  <2>6. CASE g = f /\ r = "Cancelled" /\ o.kind = "Cancelled" /\ o.failure = 0
    BY <1>1, <1>6, <2>1, <2>6 DEF Possible, Cancels
  <2>7. CASE g = f /\ o = outcome[f]
    <3>1. outcome'[g] = outcome[g] /\ p.root \in RootsOf(g)
      BY <1>2, <1>6, <2>7 DEF RootsOf
    <3> QED
      BY <1>1, <2>1, <2>3, <2>7, <3>1 DEF OutcomeInv
  <2> QED
    BY <1>4, <2>4, <2>5, <2>6, <2>7
<1>15. SourceOrdered'
  BY <1>1, <1>2 DEF SourceOrdered, Final, Files
<1> QED
  BY <1>7, <1>8, <1>9, <1>10, <1>11, <1>13, <1>14, <1>15

\* The verdict on a file, computed from the results of all its tests.
LEMMA FinishInv ==
  ASSUME Inv, Finish
  PROVE  Inv'
<1> USE Sets, SizeAssumption DEF Inv
<1> DEFINE f == reported + 1
           s == Summary(f)
           o == FinalOutcome(f)
<1>1. /\ pc = "finish" /\ reported' = reported + 1 /\ f \in Files
      /\ outcome' = [outcome EXCEPT ![f] = o]
      /\ UNCHANGED <<cancelled, overflow, spoke, available, pending, next, result, pc>>
  BY DEF Finish, TypeOK, Files
<1>2. outcome[f] \in Outcome /\ outcome' = [g \in Files |-> IF g = f THEN o ELSE outcome[g]]
  BY <1>1 DEF TypeOK
<1>3. \A g \in Files : Final(g)' <=> Final(g) \/ g = f
  BY <1>1 DEF Final, TypeOK, Files
<1>4. /\ With(f, Aborts) # {} =>
           /\ s.kind = "Aborted" /\ s.failure \in With(f, Aborts)
           /\ \A i \in With(f, Aborts) : s.failure <= i
           /\ s.prior = (With(f, Cancels) # {})
      /\ s \in Outcome
  <2>1. CASE With(f, Aborts) # {}
    <3> DEFINE m == CHOOSE i \in With(f, Aborts) : \A j \in With(f, Aborts) : i <= j
    <3>1. \E i \in With(f, Aborts) : \A j \in With(f, Aborts) : i <= j
      <4>1. With(f, Aborts) \subseteq Nat
        BY DEF With, RootsOf
      <4> QED
        BY <2>1, <4>1, LeastExists
    <3>2. m \in With(f, Aborts) /\ \A j \in With(f, Aborts) : m <= j
      BY <3>1
    <3>3. s = RunOutcome("Aborted", m, With(f, Cancels) # {})
      BY <2>1 DEF Summary
    <3>4. m \in 0..N
      BY <3>2 DEF With, RootsOf, Roots
    <3> HIDE DEF m, s
    <3> QED
      BY <3>2, <3>3, <3>4 DEF RunOutcome, Outcome
  <2>2. CASE With(f, Aborts) = {}
    <3>1. s = Cancelled \/ s = outcome[f]
      BY <2>2 DEF Summary
    <3>2. Cancelled \in Outcome
      BY DEF Cancelled, RunOutcome, Outcome
    <3> HIDE DEF s
    <3> QED
      BY <1>2, <2>2, <3>1, <3>2
  <2> QED
    BY <2>1, <2>2
<1>5. With(f, Aborts) = {} =>
        /\ With(f, Cancels) # {} => s = Cancelled
        /\ With(f, Cancels) = {} => s = outcome[f] /\ s.failure = 0
  <2>1. With(f, Aborts) = {} => s = IF With(f, Cancels) # {} THEN Cancelled ELSE outcome[f]
    BY DEF Summary
  <2>2. With(f, Aborts) = {} => outcome[f].failure = 0
    BY <1>1 DEF With, OutcomeInv
  <2> HIDE DEF s
  <2> QED
    BY <2>1, <2>2
<1>6. /\ o \in Outcome /\ o.failure = s.failure
      /\ f \in overflow => o.kind = "Aborted"
      /\ f \in overflow => (o.prior <=> s.prior \/ s.kind = "Cancelled")
      /\ f \notin overflow => o = s
  <2> HIDE DEF s
  <2>1. o = IF f \in overflow
            THEN [kind |-> "Aborted", failure |-> s.failure,
                  prior |-> s.prior \/ s.kind = "Cancelled", journal |-> TRUE]
            ELSE s
    BY DEF FinalOutcome, s
  <2> HIDE DEF o
  <2> QED
    BY <1>4, <2>1 DEF Outcome
<1>7. \A i \in RootsOf(f) : result[i] \in Ran =>
        ~ (outcome[f] = PlanAbort /\ \A j \in RootsOf(f) : result[j] \notin Ran)
  OBVIOUS
<1>8. Cancelled.kind = "Cancelled" /\ Cancelled.failure = 0
  BY DEF Cancelled, RunOutcome
<1>9. Cancels \subseteq Ran /\ Aborts \subseteq Ran
  BY DEF Cancels, Aborts, Ran
<1> HIDE DEF s, o
<1>10. TypeOK'
  BY <1>1, <1>2, <1>6 DEF TypeOK, Files
<1>11. WorkersConserved' /\ Progress' /\ PhaseInv' /\ ResultInv'
  BY <1>1 DEF WorkersConserved, Progress, PhaseInv, ResultInv
<1>12. outcome[f].kind = "Aborted" => f \in overflow \/ o.kind = "Aborted"
  <2> SUFFICES ASSUME outcome[f].kind = "Aborted", f \notin overflow PROVE s.kind = "Aborted"
    BY <1>6
  <2>1. CASE outcome[f].failure # 0
    BY <1>1, <1>4, <2>1 DEF OutcomeInv, With
  <2>2. CASE outcome[f].failure = 0
    <3>1. \A i \in RootsOf(f) : result[i] \notin Ran
      BY <1>1, <2>2 DEF OutcomeInv
    <3>2. With(f, Aborts) = {} /\ With(f, Cancels) = {}
      BY <1>9, <3>1 DEF With
    <3> QED
      BY <1>5, <3>2
  <2> QED
    BY <2>1, <2>2
<1>13. outcome[f].kind # "Completed" => o.kind # "Completed"
  BY <1>4, <1>5, <1>6, <1>8
<1>14. SkipInv'
  BY <1>1, <1>2, <1>12, <1>13 DEF SkipInv
<1>15. OutcomeInv'
  <2> SUFFICES ASSUME NEW g \in Files
               PROVE  /\ outcome'[g].kind = "Aborted" /\ g \notin overflow =>
                           \/ outcome'[g].failure # 0
                           \/ outcome'[g] = PlanAbort /\ \A i \in RootsOf(g) :
                                result[i] \notin Ran /\ \A q \in pending : q.root # i
                      /\ outcome'[g].failure # 0 =>
                           /\ outcome'[g].failure \in RootsOf(g)
                           /\ result[outcome'[g].failure] \in Aborts
                      /\ outcome'[g].kind = "Cancelled" => g \in cancelled \cup overflow
                      /\ Final(g)' /\ g \in overflow => outcome'[g].kind = "Aborted"
    BY <1>1 DEF OutcomeInv, RootsOf
  <2>1. CASE g # f
    BY <1>2, <1>3, <2>1 DEF OutcomeInv
  <2>2. CASE g = f
    <3>1. outcome'[g] = o
      BY <1>2, <2>2
    <3>2. With(f, Cancels) # {} => f \in cancelled \cup overflow
      BY DEF With, RootsOf, ResultInv
    <3>3. o.failure # 0 => o.failure \in RootsOf(f) /\ result[o.failure] \in Aborts
      BY <1>4, <1>5, <1>6, <1>8 DEF With
    <3>4. o.kind = "Cancelled" => f \in cancelled \cup overflow
      BY <1>1, <1>4, <1>5, <1>6, <3>2 DEF OutcomeInv
    <3>5. o.kind = "Aborted" /\ f \notin overflow /\ o.failure = 0 => o = outcome[f]
      <4>1. With(f, Aborts) # {} => s.failure # 0
        BY <1>4 DEF With, RootsOf, Roots
      <4> QED
        BY <1>5, <1>6, <1>8, <4>1
    <3>6. o.kind = "Aborted" /\ f \notin overflow /\ o.failure = 0 =>
            o = PlanAbort /\ \A i \in RootsOf(f) :
                               result[i] \notin Ran /\ \A q \in pending : q.root # i
      BY <1>1, <3>5 DEF OutcomeInv
    <3> QED
      BY <1>6, <2>2, <3>1, <3>3, <3>4, <3>6
  <2> QED
    BY <2>1, <2>2
<1>16. SourceOrdered'
  <2> SUFFICES ASSUME NEW g \in Files, Final(g)'
               PROVE  /\ outcome'[g].failure # 0 =>
                           /\ result[outcome'[g].failure] \in Aborts
                           /\ \A i \in With(g, Aborts) : outcome'[g].failure <= i
                      /\ With(g, Aborts) # {} => outcome'[g].failure # 0
                      /\ With(g, Cancels) # {} => outcome'[g].kind = "Cancelled" \/ outcome'[g].prior
    BY <1>1 DEF SourceOrdered, With, RootsOf
  <2>1. CASE g # f
    BY <1>2, <1>3, <2>1 DEF SourceOrdered
  <2>2. CASE g = f
    <3>1. outcome'[g] = o
      BY <1>2, <2>2
    <3>2. With(f, Aborts) # {} => s.failure # 0
      BY <1>4 DEF With, RootsOf, Roots
    <3>3. s.failure # 0 => With(f, Aborts) # {}
      BY <1>5, <1>8
    <3>4. With(f, Cancels) # {} => s.kind = "Cancelled" \/ s.prior
      BY <1>4, <1>5, <1>8
    <3> QED
      BY <1>4, <1>6, <2>2, <3>1, <3>2, <3>3, <3>4 DEF With
  <2> QED
    BY <2>1, <2>2
<1> QED
  BY <1>10, <1>11, <1>14, <1>15, <1>16

\* Every step keeps the invariant.
LEMMA StepInv == Inv /\ [Next]_vars => Inv'
<1> SUFFICES ASSUME Inv, [Next]_vars PROVE Inv'
  OBVIOUS
<1>1. CASE UNCHANGED vars
  BY <1>1
  DEF vars, driverVars, Inv, TypeOK, WorkersConserved, Progress, PhaseInv, ResultInv, SkipInv,
      OutcomeInv, SourceOrdered, Final, With, RootsOf
<1>2. CASE Next
  BY <1>2, OutsideInv, AdmitInv, SkipTestInv, AdmissionEndsInv, CompleteInv, FinishInv
  DEF Next, Driver
<1> QED
  BY <1>1, <1>2

-----------------------------------------------------------------------------
(* The results                                                             *)

\* Everything below follows from it.
THEOREM Invariance == Spec => []Inv
  BY InitInv, StepInv, PTL DEF Spec

\* Type correctness of the driver.
THEOREM TypeCorrect == Spec => []TypeOK
  BY Invariance, PTL DEF Inv

\* Workers are neither shared nor lost.
THEOREM WorkersSafe == Spec => []WorkersConserved
  BY Invariance, PTL DEF Inv

\* The verdict follows the plan's order, not the tests' completion.
THEOREM VerdictOrdered == Spec => []SourceOrdered
  BY Invariance, PTL DEF Inv

\* A file with a clean verdict ran all its tests.
THEOREM NoFalseSuccess == Spec => []GreenRanEverything
<1>1. Inv => GreenRanEverything
  <2> SUFFICES ASSUME Inv, NEW f \in Files, Final(f), outcome[f].kind = "Completed",
                      NEW i \in RootsOf(f), result[i] \in Skipped \cup {"None"}
               PROVE  With(f, {"Failed", "Cancelled"} \cup Aborts) # {}
    BY DEF GreenRanEverything, With
  <2> USE Sets, SizeAssumption DEF Inv
  <2>1. f \notin overflow
    BY DEF OutcomeInv
  <2>2. pending = {} /\ next = N + 1
    BY DEF Final, PhaseInv, TypeOK, Files
  <2>3. \A j \in Roots : result[j] # "None"
    BY <2>2 DEF Progress, Roots
  <2>4. i \in Roots /\ FileOf[i] = f
    BY DEF RootsOf
  <2>5. result[i] = "SkippedAborted"
    BY <2>3, <2>4 DEF SkipInv, Skipped
  <2>6. PICK j \in spoke : FileOf[j] = f
    BY <2>1, <2>4, <2>5 DEF SkipInv
  <2>7. j \in Roots /\ result[j] \notin Skipped \cup {"Passed"} /\ result[j] # "None"
    BY <2>3 DEF TypeOK, ResultInv
  <2>8. result[j] \in {"Failed", "Cancelled"} \cup Aborts
    BY <2>7 DEF TypeOK, Ran, Aborts
  <2> QED
    BY <2>6, <2>7, <2>8 DEF With, RootsOf
<1> QED
  BY <1>1, Invariance, PTL

\* A file loses tests only to its own troubles.
THEOREM FilesIndependent == Spec => []SkippedForItsOwnFile
<1>1. Inv => SkippedForItsOwnFile
  <2> SUFFICES ASSUME Inv, NEW f \in Files, f \notin cancelled \cup overflow,
                      NEW i \in RootsOf(f), result[i] \in Skipped,
                      spoke \cap RootsOf(f) = {}, With(f, Aborts) = {}
               PROVE  outcome[f] = RunOutcome("Aborted", 0, FALSE)
    BY DEF SkippedForItsOwnFile, With
  <2> USE DEF Inv
  <2>1. i \in Roots /\ FileOf[i] = f
    BY DEF RootsOf
  <2>2. result[i] = "SkippedAborted"
    BY <2>1 DEF SkipInv, Skipped
  <2>3. \A j \in spoke : FileOf[j] # f
    BY DEF TypeOK, RootsOf
  <2>4. outcome[f].kind = "Aborted"
    BY <2>1, <2>2, <2>3 DEF SkipInv
  <2>5. outcome[f].failure = 0
    BY DEF OutcomeInv, With
  <2> QED
    BY <2>4, <2>5 DEF OutcomeInv, PlanAbort
<1> QED
  BY <1>1, Invariance, PTL

-----------------------------------------------------------------------------
(* Refinement                                                              *)

\* Whom a worker is lent to.
LEMMA LentFacts ==
  ASSUME WorkersConserved, NEW w \in Workers
  PROVE  /\ \A p \in pending : p.worker = w => LentTo(w) = p.root
         /\ (\A p \in pending : p.worker # w) => LentTo(w) = 0
<1>1. ASSUME NEW p \in pending, p.worker = w PROVE LentTo(w) = p.root
  <2>1. \A q \in pending : q.worker = w => q = p
    BY <1>1 DEF WorkersConserved
  <2>2. (CHOOSE q \in pending : q.worker = w) = p
    BY <1>1, <2>1
  <2> QED
    BY <1>1, <2>2 DEF LentTo
<1>2. (\A p \in pending : p.worker # w) => LentTo(w) = 0
  BY DEF LentTo
<1> QED
  BY <1>1, <1>2

LEMMA LentAll ==
  WorkersConserved => \A w \in Workers :
    /\ \A p \in pending : p.worker = w => LentTo(w) = p.root
    /\ (\A p \in pending : p.worker # w) => LentTo(w) = 0
BY LentFacts

\* ... in the next state too.
LEMMA LentPrimed ==
  (WorkersConserved => \A w \in Workers :
    /\ \A p \in pending : p.worker = w => LentTo(w) = p.root
    /\ (\A p \in pending : p.worker # w) => LentTo(w) = 0)'
BY LentAll, PTL

\* The roots the abstraction calls running are those with a pending future.
LEMMA RunningFacts ==
  ASSUME Inv
  PROVE  Admission!Running = {p.root : p \in pending}
<1> USE Sets DEF Inv, Roots
<1>1. WorkersConserved /\ \A p \in pending : p.root \in 1..N /\ p.root # 0 /\ p.worker \in Workers
  BY DEF TypeOK
<1>2. ASSUME NEW i \in Admission!Running PROVE \E p \in pending : p.root = i
  <2>1. i \in 1..N /\ i # 0 /\ \E w \in Workers : LentTo(w) = i
    BY <1>2 DEF Admission!Running
  <2>2. PICK w \in Workers : LentTo(w) = i
    BY <2>1
  <2>3. PICK p \in pending : p.worker = w
    BY <1>1, <2>1, <2>2, LentFacts
  <2> QED
    BY <1>1, <2>2, <2>3, LentFacts
<1>3. ASSUME NEW p \in pending PROVE p.root \in Admission!Running
  <2>1. LentTo(p.worker) = p.root
    BY <1>1, LentFacts
  <2> QED
    BY <1>1, <2>1 DEF Admission!Running
<1> QED
  BY <1>2, <1>3

\* A root before `next' was taken up, the others were not.
LEMMA TakenFacts ==
  ASSUME Inv
  PROVE  \A i \in 1..N : i \in Admission!Taken <=> i < next
<1> USE DEF Inv, Roots
<1> SUFFICES ASSUME NEW i \in 1..N PROVE i \in Admission!Taken <=> i < next
  OBVIOUS
<1>1. i \in Admission!Taken <=>
        result[i] \in Ran \cup Skipped \/ \E p \in pending : p.root = i
  BY RunningFacts DEF Admission!Taken, Ended
<1>2. result[i] \in Ran \cup Skipped <=> result[i] # "None"
  BY DEF TypeOK, Ran, Skipped
<1>3. \A p \in pending : p.root < next
  BY DEF TypeOK
<1>4. next \in Nat /\ (i >= next <=> ~(i < next))
  BY DEF TypeOK
<1> QED
  BY <1>1, <1>2, <1>3, <1>4 DEF Progress

\* Workers start idle and no root was taken up.
LEMMA InitRefines == Init => Admission!AInit
<1> SUFFICES ASSUME Init PROVE Admission!AInit
  OBVIOUS
<1>1. pending = {} /\ reported = 0 /\ \A i \in Roots : result[i] = "None"
  BY DEF Init
<1>2. \A w \in Workers : LentTo(w) = 0
  BY <1>1 DEF LentTo
<1>3. 1..reported = {}
  BY <1>1
<1> QED
  BY <1>1, <1>2, <1>3 DEF Admission!AInit, Ended, Ran, Skipped

\* A step of the driver is a step of the abstraction or leaves it alone.
LEMMA StepRefines ==
  ASSUME Inv, Inv', [Next]_vars
  PROVE  [Admission!ANext]_Admission!avars
<1> USE Sets, SizeAssumption
<1> DEFINE ran == {i \in Roots : Ended(i)}
           skipped == {i \in Roots : result[i] \in Skipped}
           lent == [w \in Workers |-> LentTo(w)]
<1>a. WorkersConserved /\ WorkersConserved' /\ TypeOK /\ TypeOK' /\ PhaseInv
  BY DEF Inv
<1>b. /\ \A w \in Workers, p \in pending : p.worker = w => LentTo(w) = p.root
      /\ \A w \in Workers : (\A p \in pending : p.worker # w) => LentTo(w) = 0
  BY <1>a, LentFacts
<1>c. (WorkersConserved => \A w \in Workers :
         /\ \A p \in pending : p.worker = w => LentTo(w) = p.root
         /\ (\A p \in pending : p.worker # w) => LentTo(w) = 0)'
  BY LentPrimed
<1>d. /\ \A w \in Workers, p \in pending' : p.worker = w => LentTo(w)' = p.root
      /\ \A w \in Workers : (\A p \in pending' : p.worker # w) => LentTo(w)' = 0
  BY <1>a, <1>c
<1>e. \A i \in Roots : FileOf[i] \in 1..reported => pc = "finish"
  BY <1>a DEF PhaseInv, TypeOK
<1>1. ASSUME UNCHANGED <<pending, result, reported>> PROVE UNCHANGED Admission!avars
  <2>1. \A w \in Workers : LentTo(w)' = LentTo(w)
    BY <1>1 DEF LentTo
  <2> QED
    BY <1>1, <2>1 DEF Admission!avars, Ended
<1>2. CASE \/ UNCHANGED vars \/ AdmissionEnds
           \/ \E f \in Files : CancelControl(f)
           \/ \E p \in pending : Speak(p) \/ Exhaust(p)
  BY <1>1, <1>2 DEF vars, driverVars, AdmissionEnds, CancelControl, Speak, Exhaust
<1>3. CASE Admit
  <2> DEFINE new == [root |-> next, worker |-> Head(available)]
  <2>1. /\ pending' = pending \cup {new} /\ UNCHANGED <<result, reported>> /\ pc = "admit"
        /\ next \in Roots /\ available # <<>>
    BY <1>3, <1>a DEF Admit, Admitting, TypeOK, Roots
  <2>2. Head(available) \in Workers /\ 1 \in DOMAIN available /\ available[1] = Head(available)
    BY <1>a, <2>1 DEF TypeOK
  <2>3. \A p \in pending : p.worker # Head(available)
    BY <1>a, <2>2 DEF WorkersConserved
  <2>4. LentTo(Head(available)) = 0
    BY <1>b, <2>2, <2>3
  <2>5. \A w \in Workers : LentTo(w)' = IF w = Head(available) THEN next ELSE LentTo(w)
    <3> TAKE w \in Workers
    <3>1. CASE w = Head(available)
      <4>1. new \in pending' /\ new.worker = w /\ new.root = next
        BY <2>1, <3>1
      <4> HIDE DEF new
      <4> QED
        BY <1>d, <3>1, <4>1
    <3>2. CASE w # Head(available) /\ \E p \in pending : p.worker = w
      BY <1>b, <1>d, <2>1, <3>2
    <3>3. CASE w # Head(available) /\ \A p \in pending : p.worker # w
      <4>1. \A p \in pending' : p.worker # w
        BY <2>1, <3>3
      <4> QED
        BY <1>b, <1>d, <3>3, <4>1
    <3> QED
      BY <3>1, <3>2, <3>3
  <2>6. Admission!IsNext(next)
    BY <2>1, TakenFacts, <1>a DEF Admission!IsNext, Roots, TypeOK
  <2>7. FileOf[next] \notin 1..reported
    BY <1>e, <2>1
  <2>8. lent' = [lent EXCEPT ![Head(available)] = next]
    BY <2>2, <2>5
  <2>9. Admission!Start(Head(available), next)
    BY <2>1, <2>2, <2>4, <2>6, <2>7, <2>8 DEF Admission!Start, Ended
  <2> QED
    BY <2>1, <2>2, <2>9 DEF Admission!ANext, Roots
<1>4. CASE SkipTest
  <2>1. /\ UNCHANGED <<pending, reported>> /\ pc = "admit" /\ next \in Roots
        /\ result' = [result EXCEPT ![next] = SkipReason(FileOf[next])]
        /\ SkipReason(FileOf[next]) # "None"
    BY <1>4, <1>a DEF SkipTest, Admitting, TypeOK, Roots
  <2>2. result'[next] \in Skipped /\ result'[next] \notin Ran /\ result[next] = "None"
    <3>1. result'[next] = SkipReason(FileOf[next]) /\ result[next] = "None"
      BY <1>a, <2>1 DEF TypeOK, Inv, Progress
    <3>2. FileOf[next] \in Files /\ Checked(FileOf[next]).kind \in {"Completed", "Cancelled", "Aborted"}
      BY <1>a, <2>1 DEF TypeOK, Checked, Outcome, Cancelled, RunOutcome
    <3>3. SkipReason(FileOf[next]) \in {"None", "SkippedAborted", "SkippedCancelled"}
      BY <3>2 DEF SkipReason
    <3> QED
      BY <2>1, <3>1, <3>3 DEF Skipped, Ran
  <2>3. \A i \in Roots : i # next => result'[i] = result[i]
    BY <1>a, <2>1 DEF TypeOK
  <2>4. \A w \in Workers : LentTo(w)' = LentTo(w)
    BY <2>1 DEF LentTo
  <2>5. ran' = ran /\ skipped' = skipped \cup {next}
    BY <2>1, <2>2, <2>3 DEF Ended, Ran, Skipped
  <2>6. Admission!IsNext(next)
    BY <2>1, TakenFacts, <1>a DEF Admission!IsNext, Roots, TypeOK
  <2>7. FileOf[next] \notin 1..reported
    BY <1>e, <2>1
  <2>8. ASSUME NEW i \in 1..N, i = next PROVE Admission!Skip(i)
    BY <2>1, <2>4, <2>5, <2>6, <2>7, <2>8 DEF Admission!Skip, Ended
  <2>9. \E i \in 1..N : Admission!Skip(i)
    BY <2>1, <2>8 DEF Roots
  <2> QED
    BY <2>9 DEF Admission!ANext
<1>5. ASSUME NEW p \in pending, NEW r \in Ran, Complete(p, r) PROVE Admission!ANext
  <2>1. /\ pending' = pending \ {p} /\ UNCHANGED reported
        /\ result' = [result EXCEPT ![p.root] = r]
    BY <1>5 DEF Complete
  <2>2. p.root \in Roots /\ p.root # 0 /\ p.worker \in Workers /\ result[p.root] = "None"
    BY <1>a DEF TypeOK, Roots
  <2>3. LentTo(p.worker) = p.root
    BY <1>b, <2>2
  <2>4. \A q \in pending' : q \in pending /\ q.worker # p.worker
    BY <1>a, <2>1 DEF WorkersConserved
  <2>5. \A w \in Workers : LentTo(w)' = IF w = p.worker THEN 0 ELSE LentTo(w)
    <3> TAKE w \in Workers
    <3>1. CASE w = p.worker
      BY <1>d, <2>4, <3>1
    <3>2. CASE w # p.worker /\ \E q \in pending : q.worker = w
      BY <1>b, <1>d, <2>1, <3>2
    <3>3. CASE w # p.worker /\ \A q \in pending : q.worker # w
      BY <1>b, <1>d, <2>4, <3>3
    <3> QED
      BY <3>1, <3>2, <3>3
  <2>6. \A i \in Roots : result'[i] = IF i = p.root THEN r ELSE result[i]
    BY <1>a, <2>1 DEF TypeOK
  <2>7. ran' = ran \cup {p.root} /\ skipped' = skipped
    BY <2>2, <2>6 DEF Ended, Ran, Skipped
  <2>8. lent' = [lent EXCEPT ![p.worker] = 0]
    BY <2>2, <2>5
  <2>9. Admission!End(p.worker)
    BY <2>1, <2>2, <2>3, <2>7, <2>8 DEF Admission!End, Ended
  <2> QED
    BY <2>2, <2>9 DEF Admission!ANext
<1>6. CASE Finish
  <2>1. /\ reported' = reported + 1 /\ reported \in Nat /\ reported + 1 \in Files
        /\ UNCHANGED <<pending, result>> /\ pc = "finish"
    BY <1>6, <1>a DEF Finish, TypeOK, Files
  <2>2. \A w \in Workers : LentTo(w)' = LentTo(w)
    BY <2>1 DEF LentTo
  <2>3. \A i \in Roots : i \in ran \cup skipped
    <3>1. pending = {} /\ next = N + 1
      BY <1>a, <2>1 DEF PhaseInv
    <3>2. \A i \in Roots : result[i] # "None"
      BY <3>1 DEF Inv, Progress, Roots
    <3> QED
      BY <1>a, <3>2 DEF TypeOK, Ended
  <2>4. reported + 1 \notin 1..reported /\ 1..(reported + 1) = 1..reported \cup {reported + 1}
    BY <2>1
  <2>5. Admission!Report(reported + 1)
    BY <2>1, <2>2, <2>3, <2>4 DEF Admission!Report, Ended, Roots
  <2> QED
    BY <2>1, <2>5 DEF Admission!ANext
<1> QED
  BY <1>2, <1>3, <1>4, <1>5, <1>6 DEF Next, Driver

\* The driver of concurrent roots implements the promise made for tests and workers.
THEOREM Implements == Spec => Refines
  BY Invariance, InitRefines, StepRefines, PTL DEF Spec, Refines, Admission!ASpec

-----------------------------------------------------------------------------
(* BridgeClient: replies and those who wait for them                       *)

BridgeTypes ==
  /\ call \in [Calls -> {"new", "sending", "waiting", "cancelling", "acking", "aborting", "closing",
                         "failing", "over", "dropped"}]
  /\ why \in [Calls -> {"none", "cancelled", "deadline", "io", "reply"}]
  /\ callAnswer \in [Calls -> {"none", "result", "error", "refused", "clean", "unclean"}]
  /\ slot \in [Calls -> {"none", "reply", "error"}]
  /\ task \in [Calls -> {"none", "start", "writing", "over"}]
  /\ failure \in BOOLEAN

\* Nothing but the reader fills an oneshot with a reply, and it has read that.
RepliesRead == \A c \in Calls : slot[c] = "reply" \/ why[c] = "reply" => c \in replied

\* A call that is not being aborted is registered until its oneshot is filled; only the task of
\* a dropped one takes it out before.
Registered ==
  /\ \A c \in Calls : call[c] \in {"sending", "waiting", "cancelling", "acking"} /\ slot[c] = "none" => c \in requests
  /\ \A c \in Calls : task[c] = "start" => call[c] = "dropped"

BridgeInv == BridgeTypes /\ RepliesRead /\ Registered /\ Bridge!AnswersHonest /\ Bridge!NobodyForgotten

LEMMA CallKept ==   \* a step of the call alone
  ASSUME BridgeInv, NEW c \in Calls,
         Bridge!Sent(c) \/ Bridge!Interrupted(c) \/ Bridge!CancelSent(c) \/ Bridge!Receive(c) \/
         Bridge!Acknowledged(c) \/ Bridge!ShutsDown(c) \/ Bridge!Reply(c)
  PROVE  BridgeInv'
<1>0. /\ UNCHANGED <<requests, reserved, failure, slot, task>> /\ replied \subseteq replied'
      /\ \A d \in Calls : d # c => call'[d] = call[d] /\ why'[d] = why[d] /\ callAnswer'[d] = callAnswer[d]
      /\ call[c] = "dropped" => call'[c] = "dropped"
  BY DEF Bridge!Sent, Bridge!Interrupted, Bridge!SendFails, Bridge!Interrupt, Bridge!Unacknowledged,
    Bridge!CancelSent, Bridge!Receive, Bridge!Acknowledged,
         Bridge!ShutsDown, Bridge!Reply, Bridge!Closes, Bridge!Returns, BridgeInv, BridgeTypes,
         Bridge!clientVars, Bridge!stateVars
<1>1. BridgeTypes'
  BY <1>0
  DEF Bridge!Sent, Bridge!Interrupted, Bridge!SendFails, Bridge!Interrupt, Bridge!Interruptions,
    Bridge!Unacknowledged, Bridge!CancelSent, Bridge!Receive, Bridge!Acknowledged,
      Bridge!ShutsDown, Bridge!Reply, Bridge!Closes, Bridge!Returns, BridgeInv, BridgeTypes,
      Bridge!clientVars, Bridge!stateVars
<1>2. /\ callAnswer'[c] \in {callAnswer[c], "error"} \/ slot[c] = "reply"
      /\ callAnswer'[c] \in {"result", "clean", "error", callAnswer[c]}
      /\ why'[c] = "reply" => why[c] = "reply" \/ slot[c] = "reply"
      /\ call'[c] \in {"sending", "waiting", "cancelling", "acking"}
           => call[c] \in {"sending", "waiting", "cancelling", "acking"}
  BY DEF Bridge!Sent, Bridge!Interrupted, Bridge!SendFails, Bridge!Interrupt, Bridge!Interruptions,
    Bridge!Unacknowledged, Bridge!CancelSent, Bridge!Receive, Bridge!Acknowledged,
         Bridge!ShutsDown, Bridge!Reply, Bridge!Closes, Bridge!Returns, BridgeInv, BridgeTypes,
         Bridge!clientVars, Bridge!stateVars
<1>3. RepliesRead'
  BY <1>0, <1>2 DEF BridgeInv, RepliesRead
<1>4. Registered' /\ Bridge!NobodyForgotten'
  BY <1>0, <1>2 DEF BridgeInv, Registered, Bridge!NobodyForgotten
<1>5. Bridge!AnswersHonest'
  BY <1>0, <1>2 DEF BridgeInv, Bridge!AnswersHonest, RepliesRead
<1> QED
  BY <1>1, <1>3, <1>4, <1>5 DEF BridgeInv

LEMMA RegisterKept ==
  ASSUME BridgeInv, NEW c \in Calls, Bridge!Register(c)
  PROVE  BridgeInv'
<1>0. /\ UNCHANGED <<slot, reserved, failure, replied, task>> /\ call[c] = "new"
      /\ call'[c] \in {"sending", "aborting", "over"} /\ why' \in {why, [why EXCEPT ![c] = "io"]}
      /\ call'[c] = "sending" => c \in requests' /\ ~failure
      /\ requests' \in {requests, requests \cup {c}} /\ (requests' # requests => ~failure)
      /\ \A d \in Calls : d # c => call'[d] = call[d]
      /\ callAnswer' \in {callAnswer, [callAnswer EXCEPT ![c] = "refused"]}
      /\ call' \in [Calls -> {"new", "sending", "waiting", "cancelling", "acking", "aborting", "closing",
                              "failing", "over", "dropped"}]
  BY DEF Bridge!Register, Bridge!Refused, Bridge!Returns, Bridge!Closes, BridgeInv, BridgeTypes
<1>1. BridgeTypes' /\ RepliesRead'
  BY <1>0 DEF BridgeInv, BridgeTypes, RepliesRead
<1>2. Registered' /\ Bridge!NobodyForgotten'
  BY <1>0 DEF BridgeInv, Registered, Bridge!NobodyForgotten
<1>3. Bridge!AnswersHonest'
  BY <1>0 DEF BridgeInv, BridgeTypes, Bridge!AnswersHonest
<1> QED
  BY <1>1, <1>2, <1>3 DEF BridgeInv

LEMMA AbortsKept ==
  ASSUME BridgeInv, NEW c \in Calls, Bridge!Aborts(c)
  PROVE  BridgeInv'
<1>0. /\ UNCHANGED <<why, callAnswer, slot, requests, reserved, failure, replied>>
      /\ call' = [call EXCEPT ![c] = "closing"] /\ call[c] = "aborting"
      /\ task' = [d \in Calls |-> IF task[d] = "none" THEN "none" ELSE "over"]
  BY DEF Bridge!Aborts, Bridge!stateVars
<1> QED
  BY <1>0 DEF BridgeInv, BridgeTypes, RepliesRead, Registered, Bridge!AnswersHonest,
    Bridge!NobodyForgotten

LEMMA DropKept ==
  ASSUME BridgeInv, NEW c \in Calls, Bridge!Drop(c)
  PROVE  BridgeInv'
<1>0. /\ UNCHANGED <<why, callAnswer, slot, requests, reserved, failure, replied>>
      /\ call' = [call EXCEPT ![c] = "dropped"]
      /\ task' \in {task, [task EXCEPT ![c] = "start"]}
  BY DEF Bridge!Drop, Bridge!stateVars
<1> QED
  BY <1>0 DEF BridgeInv, BridgeTypes, RepliesRead, Registered, Bridge!AnswersHonest,
    Bridge!NobodyForgotten

LEMMA TaskKept ==
  ASSUME BridgeInv, NEW c \in Calls, Bridge!TaskStarts(c) \/ Bridge!TaskWrites(c)
  PROVE  BridgeInv'
<1>0. /\ UNCHANGED <<call, why, callAnswer, slot, failure, replied>>
      /\ task' \in {[task EXCEPT ![c] = "writing"], [task EXCEPT ![c] = "over"]}
      /\ \A d \in Calls : d \in requests => d \in requests' \/ (task[c] = "start" /\ d = c)
      /\ requests' \cup reserved' \subseteq requests \cup reserved
  BY DEF Bridge!TaskStarts, Bridge!TaskWrites, Bridge!clientVars, Bridge!stateVars
<1> QED
  BY <1>0 DEF BridgeInv, BridgeTypes, RepliesRead, Registered, Bridge!AnswersHonest,
    Bridge!NobodyForgotten

LEMMA FailKept ==   \* whoever is registered learns that there will be no reply
  ASSUME BridgeInv, Bridge!FailPending, UNCHANGED <<replied, task>>,
         UNCHANGED Bridge!clientVars \/ \E c \in Calls : Bridge!Closed(c)
  PROVE  BridgeInv'
<1>0. /\ slot' = [c \in Calls |-> IF c \in requests /\ slot[c] = "none" THEN "error" ELSE slot[c]]
      /\ requests' = {} /\ reserved' = {} /\ failure' = TRUE /\ UNCHANGED <<replied, task, why>>
  BY DEF Bridge!FailPending, Bridge!Closed, Bridge!clientVars
<1>1. /\ \A d \in Calls : call'[d] \in {call[d], "over"} /\ (call[d] = "dropped" => call'[d] = "dropped")
      /\ \A d \in Calls : callAnswer'[d] = "result" => callAnswer[d] = "result" \/ why[d] = "reply"
      /\ \A d \in Calls : callAnswer'[d] = "clean" => callAnswer[d] = "clean"
      /\ call' \in [Calls -> {"new", "sending", "waiting", "cancelling", "acking", "aborting", "closing",
                              "failing", "over", "dropped"}]
      /\ callAnswer' \in [Calls -> {"none", "result", "error", "refused", "clean", "unclean"}]
  BY DEF Bridge!Closed, Bridge!Returns, Bridge!clientVars, BridgeInv, BridgeTypes
<1>2. BridgeTypes' /\ RepliesRead'
  BY <1>0, <1>1 DEF BridgeInv, BridgeTypes, RepliesRead
<1>3. Registered' /\ Bridge!NobodyForgotten'
  BY <1>0, <1>1 DEF BridgeInv, BridgeTypes, Registered, Bridge!NobodyForgotten
<1>4. Bridge!AnswersHonest'
  BY <1>0, <1>1 DEF BridgeInv, Bridge!AnswersHonest, RepliesRead
<1> QED
  BY <1>2, <1>3, <1>4 DEF BridgeInv

LEMMA ReaderKept ==
  ASSUME BridgeInv, Bridge!ReadPing \/ Bridge!Pong \/ Bridge!ReaderFails \/ \E c \in Calls : Bridge!ReadReply(c)
  PROVE  BridgeInv'
<1>1. CASE Bridge!FailPending
  BY <1>1, FailKept DEF Bridge!ReadPing, Bridge!Pong, Bridge!ReaderFails, Bridge!ReadReply
<1>2. ASSUME NEW c \in Calls, Bridge!ReadReply(c), ~Bridge!FailPending
      PROVE  BridgeInv'
  <2>0. /\ UNCHANGED <<call, why, callAnswer, failure, replied, task>> /\ c \in replied
        /\ requests' \cup reserved' \subseteq requests \cup reserved
        /\ \/ UNCHANGED <<slot, requests>>
           \/ requests' = requests \ {c} /\ slot' = [slot EXCEPT ![c] = IF slot[c] = "none" THEN "reply" ELSE slot[c]]
    BY <1>2 DEF Bridge!ReadReply, Bridge!clientVars
  <2> QED
    BY <2>0 DEF BridgeInv, BridgeTypes, RepliesRead, Registered, Bridge!AnswersHonest,
      Bridge!NobodyForgotten
<1>3. CASE (Bridge!ReadPing \/ Bridge!Pong \/ Bridge!ReaderFails) /\ ~Bridge!FailPending
  <2>0. UNCHANGED <<call, why, callAnswer, failure, replied, task, slot, requests, reserved>>
    BY <1>3 DEF Bridge!ReadPing, Bridge!Pong, Bridge!ReaderFails, Bridge!clientVars,
      Bridge!stateVars
  <2> QED
    BY <2>0 DEF BridgeInv, BridgeTypes, RepliesRead, Registered, Bridge!AnswersHonest,
      Bridge!NobodyForgotten
<1> QED
  BY <1>1, <1>2, <1>3

LEMMA BridgeInvStep ==
  ASSUME BridgeInv, [Bridge!Next]_(Bridge!vars)
  PROVE  BridgeInv'
<1>1. CASE UNCHANGED Bridge!vars
  BY <1>1 DEF Bridge!vars, Bridge!clientVars, Bridge!stateVars, BridgeInv, BridgeTypes, RepliesRead,
    Registered, Bridge!AnswersHonest,
              Bridge!NobodyForgotten
<1>2. ASSUME NEW c \in Calls, Bridge!Closed(c)
      PROVE  BridgeInv'
  BY <1>2, FailKept DEF Bridge!Closed
<1> QED
  BY <1>1, <1>2, CallKept, RegisterKept, AbortsKept, DropKept, TaskKept, ReaderKept DEF Bridge!Next,
    Bridge!Ends

\* BridgeClient of provider.rs: results and clean interruptions rest on the reply of their own call, after an
\* unclean one nobody uses the transport, and whoever waits is registered while a reply or the
\* end of the transport can still come.
THEOREM BridgeStaysHonest == Bridge!Spec => []BridgeHonest
<1>1. Bridge!Init => BridgeInv
  BY DEF Bridge!Init, BridgeInv, BridgeTypes, RepliesRead, Registered, Bridge!AnswersHonest,
    Bridge!NobodyForgotten
<1>2. BridgeInv /\ [Bridge!Next]_(Bridge!vars) => BridgeInv'
  BY BridgeInvStep
<1>3. BridgeInv => BridgeHonest
  BY DEF BridgeInv, BridgeHonest
<1> QED
  BY <1>1, <1>2, <1>3, PTL DEF Bridge!Spec

-----------------------------------------------------------------------------
(* TestCommand: its exit class, and the applications it started            *)

\* Applications are started only when something runs, and each is stopped in the end.
CommandInv ==
  /\ phase \in {"analysis", "starting", "reports", "running", "stopping", "finish", "over"}
  /\ app \in [Command!Range(Applications) -> {Command!None, "started", "failed", "stopped", "unstoppable"}]
  /\ phase = "starting" => Command!Runnable # {} /\ Applications # <<>>
  /\ phase = "analysis" \/ (phase \in {"reports", "running"} /\ (Command!Runnable = {} \/ Applications = <<>>))
       => \A a \in DOMAIN app : app[a] = Command!None
  /\ phase \in {"analysis", "starting", "reports", "running", "stopping"} => teardowns = 0
  /\ phase \in {"finish", "over"} =>
       /\ \A a \in DOMAIN app : app[a] \notin {"started", "failed"}
       /\ teardowns = Cardinality({a \in DOMAIN app : app[a] = "unstoppable"})

\* A module's Cardinality is everybody's.
LEMMA TeardownsCounted == ASSUME NEW S PROVE Command!Cardinality(S) = Cardinality(S)
  BY DEF Command!Cardinality, Cardinality

\* Where nothing was started nothing is left, and there is no warning.
LEMMA NobodyLeft ==
  ASSUME \A a \in DOMAIN app : app[a] = Command!None, teardowns = 0
  PROVE  /\ \A a \in DOMAIN app : app[a] \notin {"started", "failed"}
         /\ teardowns = Cardinality({a \in DOMAIN app : app[a] = "unstoppable"})
<1>1. {a \in DOMAIN app : app[a] = "unstoppable"} = {}
  BY DEF Command!None
<1> QED
  BY <1>1, FS_EmptySet DEF Command!None

\* Every step keeps what the applications are at each stage.
LEMMA CommandInvStep ==
  ASSUME CommandInv, [Command!Next]_(Command!vars)
  PROVE  CommandInv'
<1>1. CASE Command!Analyse
  BY <1>1, NobodyLeft DEF Command!Analyse, CommandInv, Command!Runnable
<1>2. CASE Command!StartNext
  <2>1. Command!Runnable' = Command!Runnable /\ teardowns' = teardowns
    BY <1>2 DEF Command!StartNext, Command!Runnable
  <2> QED
    BY <1>2, <2>1 DEF Command!StartNext, CommandInv
<1>3. CASE Command!Assemble
  BY <1>3 DEF Command!Assemble, CommandInv, Command!Runnable
<1>4. CASE Command!Judge
  BY <1>4 DEF Command!Judge, CommandInv, Command!Runnable
<1>5. CASE Command!Judgement
  BY <1>5, NobodyLeft DEF Command!Judgement, CommandInv, Command!Runnable
<1>6. CASE Command!Shutdown
  BY <1>6, TeardownsCounted DEF Command!Shutdown, Command!StopsOf, CommandInv, Command!Runnable
<1>7. CASE Command!Finish
  BY <1>7 DEF Command!Finish, CommandInv, Command!Runnable
<1>8. CASE UNCHANGED Command!vars
  BY <1>8 DEF Command!vars, CommandInv, Command!Runnable
<1> QED
  BY <1>1, <1>2, <1>3, <1>4, <1>5, <1>6, <1>7, <1>8 DEF Command!Next

ExitClasses == {"Success", "TestFailure", "Usage", "Infrastructure", "Internal"}

\* The worst of some exit classes is one of them, and none is worse.
LEMMA WorstIsWorst ==
  ASSUME NEW S, S \subseteq ExitClasses, S # {}
  PROVE  /\ Command!Worst(S) \in S
         /\ \A c \in S : Command!Code(c) <= Command!Code(Command!Worst(S))
<1>1. \E c \in S : \A d \in S : Command!Code(d) <= Command!Code(c)
  <2>1. CASE "Internal" \in S
    BY <2>1 DEF ExitClasses, Command!Code
  <2>2. CASE "Internal" \notin S /\ "Infrastructure" \in S
    BY <2>2 DEF ExitClasses, Command!Code
  <2>3. CASE "Internal" \notin S /\ "Infrastructure" \notin S /\ "Usage" \in S
    BY <2>3 DEF ExitClasses, Command!Code
  <2>4. CASE S \subseteq {"TestFailure", "Success"} /\ "TestFailure" \in S
    BY <2>4 DEF ExitClasses, Command!Code
  <2>5. CASE S = {"Success"}
    BY <2>5 DEF Command!Code
  <2> QED
    BY <2>1, <2>2, <2>3, <2>4, <2>5 DEF ExitClasses
<1> QED
  BY <1>1 DEF Command!Worst

\* combine() answers with one of its two classes, and neither is worse.
LEMMA Combined ==
  ASSUME NEW a \in ExitClasses, NEW b \in ExitClasses
  PROVE  LET c == Command!Combine(a, b) IN
         /\ c \in ExitClasses /\ c \in {a, b}
         /\ Command!Code(a) <= Command!Code(c) /\ Command!Code(b) <= Command!Code(c)
  BY WorstIsWorst DEF Command!Combine

\* What the codes are used for.
LEMMA Codes ==
  ASSUME NEW a \in ExitClasses, NEW b \in ExitClasses
  PROVE  /\ Command!Code(a) \in 0..4
         /\ Command!Code(a) <= Command!Code(b) /\ a # "Success" => b # "Success"
  BY DEF ExitClasses, Command!Code

\* A report of a file that ran: which tests it is about, and what its exit class says of them.
RunTests == Command!Ran \cup Command!Stopped \cup Command!Lost("Infrastructure") \cup Command!Lost("Internal")
Reported(r, n) ==
  /\ r.exit \in ExitClasses /\ r.error \in Command!Classes \cup {Command!None}
  /\ r.outcome \in {"Completed", "Cancelled", "Aborted"}
  /\ r.tests \in [1..n -> RunTests]
\* The exit class of a report tells what happened in the file, and no class is lowered.
ReportHonest(r) ==
  /\ r.exit = "Success" <=> r.outcome = "Completed" /\ \A i \in DOMAIN r.tests : r.tests[i].outcome = "Passed"
  /\ \A class \in Command!Classes :
       r.error = class \/ (\E i \in DOMAIN r.tests : r.tests[i].outcome = "Aborted" /\ r.tests[i].class = class)
         => Command!Code(class) <= Command!Code(r.exit)
  /\ r.exit = "Success" => r.error = Command!None
  /\ r.exit # "Success" => \/ r.outcome = "Cancelled" \/ r.error # Command!None
                           \/ \E i \in DOMAIN r.tests : r.tests[i].outcome # "Passed"

\* What a run can answer with, by its outcome.
LEMMA ResultsRan ==
  ASSUME NEW f, Planned[f] \in Nat, NEW ran \in Command!Results(f)
  PROVE  /\ ran.tests \in [1..Planned[f] -> RunTests]
         /\ \/ ran.run = "Completed" /\ ran.class = Command!None
               /\ \A i \in 1..Planned[f] : ran.tests[i] \in Command!Ran
            \/ ran.run = "Cancelled" /\ ran.class = Command!None
               /\ \A i \in 1..Planned[f] : ran.tests[i] \in Command!Ran \cup Command!Stopped
            \/ ran.run = "Aborted" /\ ran.class \in Command!Classes
               /\ \A i \in 1..Planned[f] : ran.tests[i] \in Command!Ran \cup Command!Lost(ran.class)
  BY DEF Command!Results, RunTests, Command!Classes, Command!None

\* test_report(): only a test that passed is a success, and an aborted one keeps its class.
LEMMA ExitOfTest ==
  ASSUME NEW t \in RunTests
  PROVE  /\ Command!TestExit(t) \in ExitClasses
         /\ Command!TestExit(t) = "Success" <=> t.outcome = "Passed"
         /\ t.outcome = "Aborted" => t.class \in Command!Classes /\ Command!TestExit(t) = t.class
         /\ t.outcome \in Command!Outcomes
  BY DEF RunTests, Command!Ran, Command!Stopped, Command!Lost, Command!TestExit, ExitClasses,
    Command!Classes, Command!None, Command!Outcomes

\* The report that is made of any result is honest.
LEMMA RunReportHonest ==
  ASSUME NEW f, Planned[f] \in Nat, NEW ran \in Command!Results(f)
  PROVE  Reported(Command!RunReport(ran), Planned[f]) /\ ReportHonest(Command!RunReport(ran))
<1> DEFINE n == Planned[f]
           tests == ran.tests
           r == Command!RunReport(ran)
           exits == {Command!TestExit(tests[i]) : i \in DOMAIN tests}
           own == CASE ran.run = "Completed" -> "Success" [] ran.run = "Cancelled" -> "TestFailure"
                    [] OTHER -> ran.class
<1>1. tests \in [1..n -> RunTests] /\ DOMAIN tests = 1..n /\ \A i \in 1..n : tests[i] \in RunTests
  BY ResultsRan
<1>2. exits \subseteq ExitClasses
  BY <1>1, ExitOfTest
<1>3. \/ exits = {} /\ Command!Worst(exits) = "Success"
      \/ Command!Worst(exits) \in exits
  BY <1>2, WorstIsWorst, Zenon DEF Command!Worst
<1>4. Command!Worst(exits) \in ExitClasses /\ \A c \in exits : Command!Code(c) <= Command!Code(Command!Worst(exits))
  BY <1>2, <1>3, WorstIsWorst DEF ExitClasses
<1>5. own \in ExitClasses /\ (ran.run = "Aborted" => own = ran.class)
      /\ (own = "Success" <=> ran.run = "Completed")
  BY ResultsRan DEF ExitClasses, Command!Classes
<1>6. /\ r.tests = tests /\ r.outcome = ran.run
      /\ r.error = IF ran.run = "Aborted" /\ (Command!Aborted(ran) = {} \/ ran.overflow)
                   THEN ran.class ELSE Command!None
      /\ r.exit = Command!Combine(own, Command!Worst(exits))
  BY DEF Command!RunReport
<1>7. /\ r.exit \in ExitClasses /\ r.exit \in {own, Command!Worst(exits)}
      /\ Command!Code(own) <= Command!Code(r.exit)
      /\ Command!Code(Command!Worst(exits)) <= Command!Code(r.exit)
  BY <1>4, <1>5, <1>6, Combined
<1>8. r.error \in Command!Classes \cup {Command!None} /\ (r.error # Command!None => ran.run = "Aborted" /\ r.error = own)
  BY <1>5, <1>6, ResultsRan DEF Command!Classes, Command!None
<1>9. ASSUME NEW i \in 1..n
      PROVE  /\ Command!Code(Command!TestExit(tests[i])) <= Command!Code(r.exit)
             /\ Command!TestExit(tests[i]) \in ExitClasses
  <2>1. Command!TestExit(tests[i]) \in exits
    BY <1>1
  <2>2. Command!TestExit(tests[i]) \in ExitClasses
    BY <1>2, <2>1
  <2> QED
    BY <1>4, <1>7, <2>1, <2>2, Codes
<1>10. Reported(r, n)
  BY <1>1, <1>6, <1>7, <1>8, ResultsRan DEF Reported
<1>11. r.exit = "Success" => r.outcome = "Completed" /\ \A i \in 1..n : tests[i].outcome = "Passed"
  BY <1>1, <1>5, <1>6, <1>7, <1>9, Codes, ExitOfTest
<1>12. Command!Worst(exits) # "Success" => \E i \in 1..n : tests[i].outcome # "Passed"
  BY <1>1, <1>3, ExitOfTest
<1>13. (r.outcome = "Completed" /\ \A i \in 1..n : tests[i].outcome = "Passed") => r.exit = "Success"
  BY <1>5, <1>6, <1>7, <1>12
<1>14. ASSUME NEW class \in Command!Classes,
              r.error = class \/ \E i \in 1..n : tests[i].outcome = "Aborted" /\ tests[i].class = class
       PROVE  Command!Code(class) <= Command!Code(r.exit)
  <2>1. CASE r.error = class
    BY <1>7, <1>8, <2>1 DEF Command!Classes, Command!None
  <2>2. CASE \E i \in 1..n : tests[i].outcome = "Aborted" /\ tests[i].class = class
    BY <1>1, <1>9, <2>2, ExitOfTest
  <2> QED
    BY <1>14, <2>1, <2>2
<1>15. r.exit = "Success" => r.error = Command!None
  BY <1>6, <1>8, <1>11
<1>16. r.exit # "Success" => \/ r.outcome = "Cancelled" \/ r.error # Command!None
                             \/ \E i \in 1..n : tests[i].outcome # "Passed"
  <2>1. CASE ran.run = "Completed"
    BY <1>5, <1>7, <1>12, <2>1
  <2>2. CASE ran.run = "Cancelled"
    BY <1>6, <2>2
  <2>3. CASE ran.run = "Aborted" /\ Command!Aborted(ran) = {}
    BY <1>6, <2>3, ResultsRan DEF Command!Classes, Command!None
  <2>4. CASE ran.run = "Aborted" /\ Command!Aborted(ran) # {}
    BY <1>1, <2>4 DEF Command!Aborted
  <2> QED
    BY <2>1, <2>2, <2>3, <2>4, ResultsRan
<1> HIDE DEF r, tests, n, exits, own
<1>17. DOMAIN r.tests = 1..n /\ r.tests = tests
  BY <1>1, <1>6
<1>18. ReportHonest(r)
  BY <1>11, <1>13, <1>14, <1>15, <1>16, <1>17 DEF ReportHonest
<1> QED
  BY <1>10, <1>18 DEF r, n


\* The files of the command.
Tried == Command!Range(TestFiles)

\* What the report says of each file, once the command has told of any.
FilesTold ==
  /\ report = [f \in Tried |-> report[f]]
  /\ \A f \in broken : report[f] = Command!StaticReport
  /\ startup # Command!None => \A f \in Command!Runnable : report[f] = Command!StartupReport
  /\ startup = Command!None => \A f \in Command!Runnable :
       \/ phase = "running" /\ report[f] = Command!NoReport
       \/ Reported(report[f], Planned[f]) /\ ReportHonest(report[f])
  /\ \A f \in Tried : report[f].exit \in ExitClasses /\ Command!Code(report[f].exit) <= Command!Code(exit)
  /\ exit = "Success" \/ teardowns > 0 \/ \E f \in Tried : report[f].exit # "Success"
  /\ teardowns \in Nat /\ (teardowns > 0 => exit # "Success")

\* The property says nothing before the end; what it is made of is there as soon as reports are
\* assembled: the exit class is at least that of each report, and is one of them or that of a
\* teardown.  A command whose analysis failed answers with a class of its own and reports nothing.
ExitInv ==
  /\ phase \in {"analysis", "starting", "reports", "running", "stopping", "finish", "over"}
  /\ broken \subseteq Tried /\ startup \in {Command!None, "Infrastructure"} /\ exit \in ExitClasses
  /\ phase \in {"analysis", "starting"} => startup = Command!None
  /\ phase = "starting" \/ startup # Command!None => Command!Runnable # {}
  /\ phase = "over" => answer # Command!None
  /\ phase \in {"analysis", "starting", "reports"} => exit = "Success" /\ teardowns = 0
  /\ phase \in {"running", "stopping"} => teardowns = 0
  /\ phase \in {"running", "stopping", "finish"} \/ (phase = "over" /\ answer = exit) => FilesTold

\* A report stands while nothing it is about changes.
LEMMA ToldStands ==
  ASSUME FilesTold, UNCHANGED <<report, broken, startup, exit>>, teardowns' = teardowns,
         startup = Command!None => phase' = "running" \/ \A f \in Command!Runnable : report[f] # Command!NoReport
  PROVE  FilesTold'
  BY DEF FilesTold, Command!Runnable, Tried

\* The first reports, and the exit class that is made of them.
LEMMA AssembleTells ==
  ASSUME ExitInv, Command!Assemble
  PROVE  FilesTold' /\ exit' \in ExitClasses
<1> DEFINE exits == {"Success"} \cup {report'[f].exit : f \in Tried}
<1>1. /\ report' = [f \in Tried |->
            CASE f \in broken -> Command!StaticReport
              [] f \notin broken /\ startup # Command!None -> Command!StartupReport
              [] OTHER -> Command!NoReport]
      /\ exit' = Command!Worst(exits) /\ phase' = "running" /\ teardowns = 0
      /\ UNCHANGED <<broken, startup, teardowns>> /\ broken \subseteq Tried
  BY DEF Command!Assemble, ExitInv, Tried
<1>2. \A f \in Tried :
        /\ f \in broken => report'[f] = Command!StaticReport
        /\ f \in Command!Runnable /\ startup # Command!None => report'[f] = Command!StartupReport
        /\ f \in Command!Runnable /\ startup = Command!None => report'[f] = Command!NoReport
  BY <1>1 DEF Command!Runnable, Tried
<1>3. /\ Command!NoReport.exit = "Success" /\ Command!StaticReport.exit = "TestFailure"
      /\ Command!StartupReport.exit = "Infrastructure"
  BY DEF Command!NoReport, Command!StaticReport, Command!StartupReport
<1>4. \A f \in Tried : report'[f].exit \in ExitClasses
  BY <1>2, <1>3 DEF Command!Runnable, Tried, ExitClasses
<1>5. exits \subseteq ExitClasses
  BY <1>4 DEF ExitClasses
<1>6. exit' \in exits /\ \A c \in exits : Command!Code(c) <= Command!Code(exit')
  BY <1>1, <1>5, WorstIsWorst
<1>7. /\ \A f \in Tried : Command!Code(report'[f].exit) <= Command!Code(exit')
      /\ exit' = "Success" \/ \E f \in Tried : report'[f].exit # "Success"
  BY <1>6
<1> QED
  BY <1>1, <1>2, <1>4, <1>5, <1>6, <1>7 DEF FilesTold, Command!Runnable, Tried

\* The result of one more file; what it replaces is no report yet, so that no class is lost.
LEMMA JudgeTells ==
  ASSUME Command!ConstantsFit, ExitInv, Command!Judge
  PROVE  FilesTold' /\ exit' \in ExitClasses
<1>1. PICK k \in Command!Left : \E ran \in Command!Results(TestFiles[k]) :
        /\ report' = [report EXCEPT ![TestFiles[k]] = Command!RunReport(ran)]
        /\ exit' = Command!Combine(exit, Command!RunReport(ran).exit)
  BY DEF Command!Judge
<1> DEFINE g == TestFiles[k]
<1>2. PICK ran \in Command!Results(g) :
        /\ report' = [report EXCEPT ![g] = Command!RunReport(ran)]
        /\ exit' = Command!Combine(exit, Command!RunReport(ran).exit)
  BY <1>1
<1>3. g \in Tried /\ g \in Command!Runnable /\ Planned[g] \in Nat
  BY DEF Command!Left, Command!Runnable, Tried, Command!Range, Command!ConstantsFit
<1>4. /\ phase = "running" /\ startup = Command!None /\ teardowns = 0 /\ FilesTold
      /\ UNCHANGED <<phase, broken, startup, teardowns>> /\ exit \in ExitClasses
  BY DEF Command!Judge, ExitInv
<1> DEFINE r == Command!RunReport(ran)
<1> HIDE DEF g, r
<1>5. Reported(r, Planned[g]) /\ ReportHonest(r)
  BY <1>3, RunReportHonest DEF r
<1>6. r.exit \in ExitClasses
  BY <1>5 DEF Reported
<1>7. /\ exit' \in ExitClasses /\ exit' \in {exit, r.exit}
      /\ Command!Code(exit) <= Command!Code(exit') /\ Command!Code(r.exit) <= Command!Code(exit')
  BY <1>2, <1>4, <1>6, Combined DEF r
<1>8. /\ report' = [f \in Tried |-> report'[f]]
      /\ report'[g] = r /\ \A f \in Tried : f # g => report'[f] = report[f]
  BY <1>2, <1>3, <1>4 DEF FilesTold, r
<1>9. \A f \in Tried : report'[f].exit \in ExitClasses /\ Command!Code(report'[f].exit) <= Command!Code(exit')
  <2>1. ASSUME NEW f \in Tried, f # g
        PROVE report'[f].exit \in ExitClasses /\ Command!Code(report'[f].exit) <= Command!Code(exit')
    BY <1>4, <1>7, <1>8, <2>1, Codes DEF FilesTold
  <2> QED
    BY <1>6, <1>7, <1>8, <2>1
<1>10. exit' = "Success" \/ \E f \in Tried : report'[f].exit # "Success"
  <2>1. CASE r.exit # "Success"
    BY <1>3, <1>8, <2>1
  <2>2. CASE r.exit = "Success"
    <3>1. exit' # "Success" => exit # "Success"
      BY <1>7, <2>2
    <3>2. ASSUME NEW f \in Tried, report[f].exit # "Success"
          PROVE  exit' # "Success" => \E h \in Tried : report'[h].exit # "Success"
      <4>1. CASE f # g
        BY <1>8, <3>2, <4>1
      <4>2. CASE f = g
        <5>1. Command!Judged(g) = FALSE /\ report[g].outcome = Command!None
          BY DEF Command!Left, Command!Judged, g
        <5>2. report[g] = Command!NoReport
          BY <1>3, <1>4, <5>1 DEF FilesTold, Reported, Command!None
        <5> QED
          BY <3>2, <4>2, <5>2 DEF Command!NoReport
      <4> QED
        BY <4>1, <4>2
    <3> QED
      BY <1>4, <3>1, <3>2 DEF FilesTold
  <2> QED
    BY <2>1, <2>2
<1>11. \A f \in broken : f \in Tried /\ f # g
  BY <1>3 DEF Command!Runnable, ExitInv
<1>12. Command!Runnable' = Command!Runnable
  BY <1>4 DEF Command!Runnable
<1>13. \A f \in Command!Runnable : f \in Tried
  BY DEF Command!Runnable, Tried
<1> QED
  BY <1>3, <1>4, <1>5, <1>7, <1>8, <1>9, <1>10, <1>11, <1>12, <1>13 DEF FilesTold, Tried

\* A sequence has finitely many elements.
LEMMA RangeFinite ==
  ASSUME NEW s, s \in Seq(Command!Range(s))
  PROVE  IsFiniteSet(Command!Range(s))
<1>1. s \in [1..Len(s) -> Command!Range(s)] /\ Len(s) \in Nat
  OBVIOUS
<1>2. \A x \in Command!Range(s) : \E k \in 1..Len(s) : s[k] = x
  BY <1>1 DEF Command!Range
<1>3. s \in Surjection(1..Len(s), Command!Range(s))
  BY <1>1, <1>2 DEF Surjection
<1>4. IsFiniteSet(1..Len(s))
  BY <1>1, FS_Interval
<1> QED
  BY <1>3, <1>4, FS_Surjection

\* Every step keeps the exit class and the reports in line.
LEMMA ExitInvStep ==
  ASSUME Command!ConstantsFit, DOMAIN app = Command!Range(Applications), ExitInv,
         [Command!Next]_(Command!vars)
  PROVE  ExitInv'
<1>1. CASE Command!Analyse
  <2>1. Command!Runnable' = Tried \ broken'
    BY DEF Command!Runnable, Tried
  <2> QED
    BY <1>1, <2>1 DEF Command!Analyse, ExitInv, Command!Runnable, Tried, ExitClasses, Command!None
<1>2. CASE Command!StartNext
  <2>1. Command!Runnable' = Command!Runnable
    BY <1>2 DEF Command!StartNext, Command!Runnable
  <2> QED
    BY <1>2, <2>1 DEF Command!StartNext, ExitInv, Tried
<1>3. CASE Command!Assemble
  <2>1. Command!Runnable' = Command!Runnable
    BY <1>3 DEF Command!Assemble, Command!Runnable
  <2> QED
    BY <1>3, <2>1, AssembleTells DEF Command!Assemble, ExitInv, Tried
<1>4. CASE Command!Judge
  <2>1. Command!Runnable' = Command!Runnable
    BY <1>4 DEF Command!Judge, Command!Runnable
  <2> QED
    BY <1>4, <2>1, JudgeTells DEF Command!Judge, ExitInv, Tried
<1>5. CASE Command!Judgement
  <2>1. Command!Runnable' = Command!Runnable /\ phase' \in {"stopping", "finish"}
    BY <1>5 DEF Command!Judgement, Command!Runnable
  <2>2. FilesTold
    BY <1>5 DEF Command!Judgement, ExitInv
  <2>3. ASSUME startup = Command!None, NEW f \in Command!Runnable PROVE report[f] # Command!NoReport
    <3>1. PICK k \in DOMAIN TestFiles : TestFiles[k] = f
      BY DEF Command!Runnable, Command!Range
    <3>2. Command!Judged(f)
      BY <1>5, <2>3, <3>1 DEF Command!Judgement, Command!Left
    <3> QED
      BY <3>2 DEF Command!Judged, Command!NoReport
  <2>4. FilesTold'
    BY <1>5, <2>2, <2>3, ToldStands DEF Command!Judgement
  <2> QED
    BY <1>5, <2>1, <2>4 DEF Command!Judgement, ExitInv, Tried
<1>6. CASE Command!Shutdown
  <2>1. /\ phase = "stopping" /\ phase' = "finish" /\ FilesTold /\ exit \in ExitClasses /\ teardowns = 0
        /\ UNCHANGED <<broken, startup, report, answer>> /\ Command!Runnable' = Command!Runnable
    BY <1>6 DEF Command!Shutdown, ExitInv, Command!Runnable
  <2>2. /\ teardowns' \in Nat
        /\ exit' = IF teardowns' > 0 THEN Command!Combine(exit, "Infrastructure") ELSE exit
    <3>1. PICK stops \in [DOMAIN app -> {"stopped", "unstoppable"}] :
            /\ teardowns' = Command!Cardinality({a \in DOMAIN app : stops[a] = "unstoppable"})
            /\ exit' = IF teardowns' > 0 THEN Command!Combine(exit, "Infrastructure") ELSE exit
      BY <1>6 DEF Command!Shutdown
    <3>2. IsFiniteSet(DOMAIN app)
      BY RangeFinite DEF Command!ConstantsFit
    <3>3. Cardinality({a \in DOMAIN app : stops[a] = "unstoppable"}) \in Nat
      BY <3>2, FS_Subset, FS_CardinalityType
    <3> QED
      BY <3>1, <3>3, TeardownsCounted
  <2>3. /\ exit' \in ExitClasses /\ Command!Code(exit) <= Command!Code(exit')
        /\ teardowns' > 0 => exit' # "Success"
        /\ exit' # exit => teardowns' > 0
    <3>1. CASE teardowns' > 0
      <4>1. "Infrastructure" \in ExitClasses /\ Command!Code("Infrastructure") = 3 /\ Command!Code("Success") = 0
        BY DEF ExitClasses, Command!Code
      <4> QED
        BY <2>1, <2>2, <3>1, <4>1, Combined
    <3>2. CASE ~(teardowns' > 0)
      BY <2>1, <2>2, <3>2, Codes
    <3> QED
      BY <3>1, <3>2
  <2>4. \A f \in Tried : Command!Code(report[f].exit) <= Command!Code(exit')
    BY <2>1, <2>3, Codes DEF FilesTold
  <2>5. FilesTold'
    BY <2>1, <2>2, <2>3, <2>4 DEF FilesTold, Tried
  <2> QED
    BY <1>6, <2>1, <2>2, <2>3, <2>5 DEF ExitInv, Tried
<1>7. CASE Command!Finish
  <2>1. FilesTold /\ Command!Runnable' = Command!Runnable
    BY <1>7 DEF Command!Finish, ExitInv, Command!Runnable
  <2>2. phase = "finish" /\ phase' = "over" /\ UNCHANGED <<broken, startup, report, exit, teardowns>>
        /\ answer' \in {exit, "Infrastructure"}
    BY <1>7 DEF Command!Finish
  <2>3. FilesTold'
    BY <2>1, <2>2 DEF FilesTold, Tried
  <2> QED
    BY <1>7, <2>1, <2>2, <2>3 DEF ExitInv, Tried, ExitClasses, Command!None
<1>8. CASE UNCHANGED Command!vars
  BY <1>8 DEF Command!vars, ExitInv, Command!Runnable, FilesTold, Tried
<1> QED
  BY <1>1, <1>2, <1>3, <1>4, <1>5, <1>6, <1>7, <1>8 DEF Command!Next


\* A union of files' parts is finite.
LEMMA CasesFinite ==
  ASSUME Command!ConstantsFit
  PROVE  IsFiniteSet(Command!AllPlanned)
<1> DEFINE Cases(k) == {TestFiles[k]} \X (1..Planned[TestFiles[k]])
           Upto(m) == UNION {Cases(k) : k \in 1..m}
           Missing == {m \in Nat : m <= Len(TestFiles) /\ ~IsFiniteSet(Upto(m))}
<1>1. TestFiles \in Seq(Tried) /\ Len(TestFiles) \in Nat /\ DOMAIN TestFiles = 1..Len(TestFiles)
  BY DEF Command!ConstantsFit, Tried
<1>2. ASSUME NEW k \in 1..Len(TestFiles) PROVE IsFiniteSet(Cases(k))
  <2> DEFINE n == Planned[TestFiles[k]]
             each == [i \in 1..n |-> <<TestFiles[k], i>>]
  <2>1. n \in Nat
    BY <1>1, <1>2 DEF Command!ConstantsFit, Tried
  <2>2. each \in Surjection(1..n, Cases(k))
    BY DEF Surjection
  <2>3. IsFiniteSet(1..n)
    BY <2>1, FS_Interval
  <2> HIDE DEF Cases, each
  <2> QED
    BY <2>2, <2>3, FS_Surjection
<1>3. Missing = {}
  <2> SUFFICES ASSUME Missing # {} PROVE FALSE
    OBVIOUS
  <2>1. PICK m \in Missing : \A k \in Missing : m <= k
    BY LeastExists
  <2>2. CASE m = 0
    <3>1. Upto(0) = {}
      OBVIOUS
    <3> QED
      BY <2>1, <2>2, <3>1, FS_EmptySet
  <2>3. CASE m # 0
    <3>1. m - 1 \in Nat /\ m - 1 <= Len(TestFiles) /\ m - 1 \notin Missing /\ m \in 1..Len(TestFiles)
      <4> HIDE DEF Upto
      <4>1. m \in Nat /\ m <= Len(TestFiles)
        BY <2>1
      <4>2. m - 1 \notin Missing
        <5>1. m \in Nat /\ ~(m <= m - 1)
          BY <4>1
        <5> HIDE DEF Missing
        <5> QED
          BY <2>1, <5>1
      <4> HIDE DEF Missing
      <4> QED
        BY <1>1, <2>3, <4>1, <4>2
    <3>2. IsFiniteSet(Upto(m - 1)) /\ IsFiniteSet(Cases(m))
      BY <1>2, <3>1
    <3>3. 1..m = (1..(m - 1)) \cup {m}
      BY <3>1
    <3> HIDE DEF Cases
    <3>4. Upto(m) = Upto(m - 1) \cup Cases(m)
      BY <3>3
    <3> HIDE DEF Upto
    <3> QED
      BY <2>1, <3>2, <3>4, FS_Union
  <2> QED
    BY <2>2, <2>3
<1>4. IsFiniteSet(Upto(Len(TestFiles)))
  <2> HIDE DEF Upto
  <2> QED
    BY <1>1, <1>3
<1>5. Command!AllPlanned = Upto(Len(TestFiles))
  BY <1>1 DEF Command!AllPlanned, Command!Range
<1> QED
  BY <1>4, <1>5

\* What the reporters count is finite.
LEMMA CountsFit ==
  ASSUME Command!ConstantsFit, ExitInv, FilesTold, phase \in {"finish", "over"}
  PROVE  /\ Command!AllTests \subseteq Command!AllPlanned /\ IsFiniteSet(Command!AllTests)
         /\ IsFiniteSet(Command!Errored) /\ IsFiniteSet(Command!StaticCases)
         /\ \A p \in Command!AllTests :
              /\ p[1] \in Tried /\ p[2] \in DOMAIN report[p[1]].tests /\ Command!Test(p) \in RunTests
              /\ p[1] \in Command!Runnable /\ startup = Command!None
<1>1. ASSUME NEW f \in Tried
      PROVE  \/ DOMAIN report[f].tests = {}
             \/ /\ DOMAIN report[f].tests = 1..Planned[f] /\ report[f].tests \in [1..Planned[f] -> RunTests]
                /\ f \in Command!Runnable /\ startup = Command!None
  <2>1. DOMAIN Command!StaticReport.tests = {} /\ DOMAIN Command!StartupReport.tests = {}
    BY DEF Command!StaticReport, Command!StartupReport, Command!NoReport
  <2>2. f \in broken \/ f \in Command!Runnable
    BY DEF Command!Runnable, Tried
  <2> QED
    BY <2>1, <2>2 DEF FilesTold, Reported
<1>2. ASSUME NEW p \in Command!AllTests
      PROVE  /\ p \in Command!AllPlanned
             /\ p[1] \in Tried /\ p[2] \in DOMAIN report[p[1]].tests /\ Command!Test(p) \in RunTests
             /\ p[1] \in Command!Runnable /\ startup = Command!None
  <2>1. PICK f \in Tried : p \in {f} \X DOMAIN report[f].tests
    BY DEF Command!AllTests, Command!FileTests, Tried
  <2>2. p[1] = f /\ p[2] \in DOMAIN report[f].tests /\ p = <<f, p[2]>>
    BY <2>1
  <2>3. /\ DOMAIN report[f].tests = 1..Planned[f] /\ report[f].tests \in [1..Planned[f] -> RunTests]
        /\ f \in Command!Runnable /\ startup = Command!None
    BY <1>1, <2>2
  <2>4. p \in {f} \X (1..Planned[f])
    BY <2>2, <2>3
  <2> QED
    BY <2>2, <2>3, <2>4 DEF Command!AllPlanned, Command!Test, Tried
<1>3. IsFiniteSet(Command!AllTests)
  BY <1>2, CasesFinite, FS_Subset
<1>4. IsFiniteSet(Tried)
  BY RangeFinite DEF Command!ConstantsFit, Tried
<1>5. Command!Errored \subseteq Tried /\ Command!StaticCases \subseteq Tried
  BY DEF Command!Errored, Command!StaticCases, Tried, ExitInv
<1> QED
  BY <1>2, <1>3, <1>4, <1>5, FS_Subset

\* A count of tests tells whether there is one.
LEMMA TestsCounted ==
  ASSUME IsFiniteSet(Command!AllTests), NEW outcomes
  PROVE  /\ Command!Tests(outcomes) \in Nat
         /\ Command!Tests(outcomes) > 0 <=> \E p \in Command!AllTests : Command!Test(p).outcome \in outcomes
<1> DEFINE S == {p \in Command!AllTests : Command!Test(p).outcome \in outcomes}
<1>1. IsFiniteSet(S)
  BY FS_Subset
<1>2. Cardinality(S) \in Nat /\ (Cardinality(S) = 0 <=> S = {})
  BY <1>1, FS_CardinalityType, FS_EmptySet
<1>3. Command!Tests(outcomes) = Cardinality(S)
  BY TeardownsCounted DEF Command!Tests
<1>4. S = {} <=> ~\E p \in Command!AllTests : Command!Test(p).outcome \in outcomes
  OBVIOUS
<1> HIDE DEF S
<1> QED
  BY <1>2, <1>3, <1>4

\* A count tells whether there is something.
LEMMA SomeCounted ==
  ASSUME NEW S, IsFiniteSet(S)
  PROVE  Command!Cardinality(S) \in Nat /\ (Command!Cardinality(S) > 0 <=> S # {})
  BY TeardownsCounted, FS_CardinalityType, FS_EmptySet

\* The reporters are red when a file has static errors or an error, or a test did not pass.
LEMMA RedWhen ==
  ASSUME Command!ConstantsFit, ExitInv, FilesTold, phase \in {"finish", "over"}
  PROVE  Command!JunitRed <=> \/ Command!StaticCases # {} \/ Command!Errored # {}
                              \/ \E p \in Command!AllTests : Command!Test(p).outcome # "Passed"
<1>1. /\ IsFiniteSet(Command!AllTests) /\ IsFiniteSet(Command!Errored) /\ IsFiniteSet(Command!StaticCases)
      /\ \A p \in Command!AllTests : Command!Test(p).outcome \in Command!Outcomes
  BY CountsFit, ExitOfTest
<1>2. \A p \in Command!AllTests : Command!Test(p).outcome # "Passed" <=>
        \/ Command!Test(p).outcome \in {"Failed"} \/ Command!Test(p).outcome \in {"Aborted"}
        \/ Command!Test(p).outcome \in {"Cancelled", "Skipped"}
  BY <1>1 DEF Command!Outcomes
<1> DEFINE a == Command!Tests({"Failed"})  b == Command!Tests({"Aborted"})  c == Command!Tests({"Cancelled", "Skipped"})
           s == Command!Cardinality(Command!StaticCases)  e == Command!Cardinality(Command!Errored)
<1>3. a \in Nat /\ b \in Nat /\ c \in Nat /\ s \in Nat /\ e \in Nat
  BY <1>1, TestsCounted, SomeCounted
<1>4. (s > 0 <=> Command!StaticCases # {}) /\ (e > 0 <=> Command!Errored # {})
  BY <1>1, SomeCounted
<1>5. a > 0 \/ b > 0 \/ c > 0 <=> \E p \in Command!AllTests : Command!Test(p).outcome # "Passed"
  BY <1>1, <1>2, TestsCounted, Zenon
<1>6. Command!JunitRed <=> (a + s) + (b + e) + c > 0
  BY DEF Command!JunitRed, Command!JunitFailures, Command!JunitErrors, Command!JunitSkipped
<1> HIDE DEF a, b, c, s, e
<1>7. (a + s) + (b + e) + c > 0 <=> (a > 0 \/ b > 0 \/ c > 0) \/ s > 0 \/ e > 0
  BY <1>3
<1> QED
  BY <1>4, <1>5, <1>6, <1>7

\* What a file contributes to a red report.
LEMMA FileRed ==
  ASSUME ExitInv, FilesTold, phase \in {"finish", "over"}, NEW f \in Tried
  PROVE  /\ report[f].exit = "Success" =>
              /\ f \in Command!Runnable /\ startup = Command!None /\ f \notin Command!Errored
              /\ report[f].outcome = "Completed" /\ DOMAIN report[f].tests = 1..Planned[f]
              /\ \A i \in DOMAIN report[f].tests : report[f].tests[i].outcome = "Passed"
         /\ report[f].exit # "Success" =>
              \/ f \in Command!StaticCases \/ f \in Command!Errored \/ report[f].outcome = "Cancelled"
              \/ \E p \in Command!AllTests : Command!Test(p).outcome # "Passed"
         /\ \A class \in Command!Classes :
              report[f].error = class \/ (\E i \in DOMAIN report[f].tests :
                report[f].tests[i].outcome = "Aborted" /\ report[f].tests[i].class = class)
              => Command!Code(class) <= Command!Code(report[f].exit)
<1>1. CASE f \in broken
  <2>1. report[f] = Command!StaticReport
    BY <1>1 DEF FilesTold
  <2>2. /\ report[f].exit = "TestFailure" /\ report[f].tests = <<>> /\ report[f].error = Command!None
        /\ DOMAIN report[f].tests = {}
    BY <2>1 DEF Command!StaticReport, Command!NoReport
  <2> QED
    BY <1>1, <2>2 DEF Command!StaticCases, Command!Classes, Command!None
<1>2. CASE f \in Command!Runnable /\ startup # Command!None
  <2>1. report[f] = Command!StartupReport
    BY <1>2 DEF FilesTold
  <2>2. /\ report[f].exit = "Infrastructure" /\ report[f].tests = <<>> /\ report[f].error = "Infrastructure"
        /\ DOMAIN report[f].tests = {}
    BY <2>1 DEF Command!StartupReport, Command!NoReport
  <2> QED
    BY <2>2 DEF Command!Errored, Command!Classes, Command!None, Command!Code, Tried
<1>3. CASE f \in Command!Runnable /\ startup = Command!None
  <2>1. Reported(report[f], Planned[f]) /\ ReportHonest(report[f])
    BY <1>3 DEF FilesTold
  <2>2. DOMAIN report[f].tests = 1..Planned[f]
    BY <2>1 DEF Reported
  <2>3. ASSUME NEW i \in DOMAIN report[f].tests, report[f].tests[i].outcome # "Passed"
        PROVE  \E p \in Command!AllTests : Command!Test(p).outcome # "Passed"
    <3>1. <<f, i>> \in Command!AllTests
      BY DEF Command!AllTests, Command!FileTests, Tried
    <3>2. Command!Test(<<f, i>>) = report[f].tests[i]
      BY DEF Command!Test
    <3> QED
      BY <2>3, <3>1, <3>2
  <2> QED
    BY <1>3, <2>1, <2>2, <2>3 DEF ReportHonest, Command!Errored, Tried
<1> QED
  BY <1>1, <1>2, <1>3 DEF Command!Runnable, Tried

\* At the end, the counts of all files say what the reports of the files say: a success is one
\* whose passed tests are all that were planned, and a finite set has no other part of its size.
LEMMA ExitIsHonest ==
  ASSUME Command!ConstantsFit, ExitInv
  PROVE  Command!ExitHonest
<1> SUFFICES ASSUME phase \in {"finish", "over"}, answer \in {Command!None, exit}
    PROVE  /\ exit = "Success" <=>
                /\ broken = {} /\ startup = Command!None /\ teardowns = 0
                /\ Command!Tests({"Passed"}) = Command!Cardinality(Command!AllPlanned)
                /\ \A f \in Tried : report[f].outcome = "Completed"
           /\ \A class \in Command!Classes : Command!Summary(class) > 0 => Command!Code(exit) >= Command!Code(class)
           /\ exit # "Success" /\ teardowns = 0
                => Command!JunitRed \/ \E f \in Tried : report[f].outcome = "Cancelled"
           /\ Command!JunitRed => exit # "Success"
  BY DEF Command!ExitHonest, Tried
<1>1. FilesTold
  BY DEF ExitInv
<1> DEFINE passed == {p \in Command!AllTests : Command!Test(p).outcome \in {"Passed"}}
<1>2. /\ Command!Tests({"Passed"}) = Cardinality(passed)
      /\ Command!Cardinality(Command!AllPlanned) = Cardinality(Command!AllPlanned)
      /\ passed \subseteq Command!AllPlanned /\ IsFiniteSet(Command!AllPlanned)
  BY <1>1, TeardownsCounted, CasesFinite, CountsFit DEF Command!Tests
<1>3. ASSUME exit = "Success"
      PROVE  /\ broken = {} /\ startup = Command!None /\ teardowns = 0
             /\ passed = Command!AllPlanned /\ \A f \in Tried : report[f].outcome = "Completed"
             /\ Command!StaticCases = {} /\ Command!Errored = {}
             /\ \A p \in Command!AllTests : Command!Test(p).outcome = "Passed"
  <2>1. \A f \in Tried : report[f].exit = "Success"
    BY <1>1, <1>3, Codes DEF FilesTold, ExitInv
  <2>2. \A f \in Tried :
          /\ f \in Command!Runnable /\ startup = Command!None /\ f \notin Command!Errored
          /\ report[f].outcome = "Completed" /\ DOMAIN report[f].tests = 1..Planned[f]
          /\ \A i \in DOMAIN report[f].tests : report[f].tests[i].outcome = "Passed"
    BY <1>1, <2>1, FileRed
  <2>3. broken = {}
    BY <2>2 DEF Command!Runnable, ExitInv
  <2>4. startup = Command!None
    BY <2>2 DEF ExitInv, Command!Runnable, Tried
  <2>5. teardowns = 0
    BY <1>1, <1>3 DEF FilesTold
  <2>6. \A p \in Command!AllTests : Command!Test(p).outcome = "Passed"
    BY <1>1, <2>2, CountsFit DEF Command!Test
  <2>7. Command!AllTests = Command!AllPlanned
    <3>1. \A f \in Tried : Command!FileTests(f) = {f} \X (1..Planned[f])
      BY <2>2 DEF Command!FileTests
    <3> QED
      BY <3>1, Zenon DEF Command!AllTests, Command!AllPlanned, Tried
  <2>8. Command!StaticCases = {} /\ Command!Errored = {}
    BY <2>2, <2>3 DEF Command!StaticCases, Command!Errored, Tried
  <2> QED
    BY <2>2, <2>3, <2>4, <2>5, <2>6, <2>7, <2>8
<1>4. ASSUME exit # "Success", broken = {}, startup = Command!None, teardowns = 0,
             Command!Tests({"Passed"}) = Command!Cardinality(Command!AllPlanned),
             \A f \in Tried : report[f].outcome = "Completed"
      PROVE  FALSE
  <2>1. passed = Command!AllPlanned
    BY <1>2, <1>4, FS_Subset
  <2>2. PICK f \in Tried : report[f].exit # "Success"
    BY <1>1, <1>4 DEF FilesTold
  <2>3. f \in Command!Runnable /\ Reported(report[f], Planned[f]) /\ ReportHonest(report[f])
    BY <1>1, <1>4 DEF FilesTold, Command!Runnable, Tried
  <2>4. PICK i \in DOMAIN report[f].tests : report[f].tests[i].outcome # "Passed"
    BY <1>4, <2>2, <2>3 DEF ReportHonest
  <2>5. <<f, i>> \in Command!AllPlanned
    <3>1. <<f, i>> \in {f} \X (1..Planned[f])
      BY <2>3, <2>4 DEF Reported
    <3> QED
      BY <3>1, Zenon DEF Command!AllPlanned, Tried
  <2>6. Command!Test(<<f, i>>).outcome = "Passed"
    BY <2>1, <2>5
  <2> QED
    BY <2>4, <2>6 DEF Command!Test
<1>5. ASSUME NEW class \in Command!Classes, Command!Summary(class) > 0
      PROVE  Command!Code(exit) >= Command!Code(class)
  <2> DEFINE files == {f \in Command!Errored : report[f].error = class}
             tests == {p \in Command!AllTests : Command!Test(p).outcome = "Aborted" /\ Command!Test(p).class = class}
  <2>1. Command!Summary(class) = Cardinality(files) + Cardinality(tests)
    BY TeardownsCounted DEF Command!Summary
  <2>2. files # {} \/ tests # {}
    <3> HIDE DEF files, tests
    <3> QED
      BY <1>5, <2>1, FS_EmptySet
  <2>3. PICK f \in Tried : report[f].error = class \/ (\E i \in DOMAIN report[f].tests :
                report[f].tests[i].outcome = "Aborted" /\ report[f].tests[i].class = class)
    <3>1. CASE files # {}
      BY <3>1 DEF Command!Errored, Tried
    <3>2. CASE tests # {}
      BY <1>1, <3>2, CountsFit DEF Command!Test
    <3> QED
      BY <2>2, <3>1, <3>2
  <2>4. Command!Code(class) <= Command!Code(report[f].exit) /\ Command!Code(report[f].exit) <= Command!Code(exit)
    BY <1>1, <2>3, FileRed DEF FilesTold
  <2>5. class \in ExitClasses /\ report[f].exit \in ExitClasses /\ exit \in ExitClasses
    BY <1>1 DEF FilesTold, ExitInv, ExitClasses, Command!Classes
  <2> QED
    BY <2>4, <2>5, Codes
<1>6. ASSUME exit # "Success", teardowns = 0
      PROVE  Command!JunitRed \/ \E f \in Tried : report[f].outcome = "Cancelled"
  <2>1. PICK f \in Tried : report[f].exit # "Success"
    BY <1>1, <1>6 DEF FilesTold
  <2> QED
    BY <1>1, <2>1, FileRed, RedWhen
<1>7. Command!JunitRed => exit # "Success"
  BY <1>1, <1>3, RedWhen
<1> HIDE DEF passed
<1> QED
  BY <1>2, <1>3, <1>4, <1>5, <1>6, <1>7

\* run_test(): the exit class tells the worst that happened, the reporters agree with it but for
\* a teardown, and however the command ends, no application it started is left running unless
\* its shutdown failed, which is then told.
THEOREM CommandStaysHonest == Command!Spec => []CommandHonest
<1>1. Command!Init => CommandInv /\ ExitInv
  BY DEF Command!Init, CommandInv, ExitInv, ExitClasses, Command!None, Tried
<1>2. CommandInv /\ ExitInv /\ [Command!Next]_(Command!vars) => CommandInv' /\ ExitInv'
  BY CommandInvStep, ExitInvStep, FilesAssumption DEF CommandInv
<1>3. CommandInv /\ ExitInv => CommandHonest
  BY ExitIsHonest, FilesAssumption, TeardownsCounted
    DEF CommandInv, Command!ApplicationsStopped, CommandHonest
<1> QED
  BY <1>1, <1>2, <1>3, PTL DEF Command!Spec

-----------------------------------------------------------------------------
(* ProjectInit: all of the scaffold or nothing                             *)

SetupTypes ==
  /\ initPc \in {"look", "write", "rollback", "over"} /\ initNext \in Nat \ {0}
  /\ content \in [Setup!All -> Setup!States] /\ by \in [Setup!All -> {"nobody", "us", "them"}]
  /\ created \subseteq Setup!All /\ missing \subseteq Setup!All
  /\ initAnswer \in {"none", "conflict", "failed", "initialized"}
  /\ initAnswer = "none" <=> initPc # "over"
  /\ initPc = "write" => initNext <= Len(Paths)

\* Who wrote what is there, and where a directory is from.
Authors ==
  /\ \A p \in Setup!All : content[p] = "none" <=> by[p] = "nobody"
  /\ \A p \in Setup!All : by[p] = "us" => p \in created
  /\ initPc # "over" => \A p \in created : by[p] = "us" /\ content[p] = "ours"
  /\ initPc = "look" => created = {} /\ createdDirs = {}
  /\ \A d \in dirs \ dirsAtStart :
       d \in createdDirs \/ \E p \in Setup!All : DirOf[p] = d /\ by[p] = "them"

\* What was looked at, and what was written, is the scaffold's.
Walked ==
  /\ initPc = "look" => \A k \in 1..Len(Paths) :
       k < initNext => Paths[k] \in missing \/ content[Paths[k]] = "ours"
  /\ initPc = "write" => \A k \in 1..Len(Paths) :
       k < initNext \/ Paths[k] \notin missing => content[Paths[k]] = "ours"

SetupInv == SetupTypes /\ Authors /\ Walked /\ Setup!AllOrNothing

\* A path that was looked at or written keeps its content, and its author if that is not us.
Keeps(p) == by[p] = "them" => by'[p] = "them" /\ content'[p] = content[p]

LEMMA PathOf ==
  ASSUME Setup!ConstantsFit
  PROVE  /\ Len(Paths) \in Nat
         /\ \A k \in 1..Len(Paths) : Paths[k] \in Setup!All
         /\ \A p \in Setup!All : \E k \in 1..Len(Paths) : Paths[k] = p
BY DEF Setup!ConstantsFit, Setup!All, Setup!Range

LEMMA LookKept ==
  ASSUME Setup!ConstantsFit, SetupInv, Setup!Look
  PROVE  SetupInv' /\ \A p \in Setup!All : Keeps(p)
<1> USE PathOf DEF SetupInv, Setup!Look
<1>1. SetupTypes'
  BY DEF SetupTypes
<1>2. Authors'
  BY DEF Authors
<1>3. Walked'
  BY DEF SetupTypes, Walked, Setup!States
<1>4. Setup!AllOrNothing'
  BY DEF Setup!AllOrNothing, Authors, SetupTypes
<1>5. \A p \in Setup!All : Keeps(p)
  BY DEF Keeps
<1> QED
  BY <1>1, <1>2, <1>3, <1>4, <1>5

LEMMA SkipKept ==
  ASSUME Setup!ConstantsFit, SetupInv, Setup!Skip
  PROVE  SetupInv' /\ \A p \in Setup!All : Keeps(p)
<1> USE PathOf DEF SetupInv, Setup!Skip
<1>1. SetupTypes'
  BY DEF SetupTypes, Setup!Advances, Setup!Fails, Setup!States
<1>2. Authors'
  BY DEF Authors, SetupTypes, Setup!Advances, Setup!Fails, Setup!States, Setup!Directories
<1>3. Walked'
  BY DEF SetupTypes, Authors, Walked, Setup!States, Setup!Advances, Setup!Fails
<1>4. Setup!AllOrNothing'
  BY DEF Setup!AllOrNothing, Authors, Walked, SetupTypes, Setup!Advances, Setup!Fails, Setup!States
<1>5. \A p \in Setup!All : Keeps(p)
  BY DEF Keeps, Authors, SetupTypes, Setup!States
<1> QED
  BY <1>1, <1>2, <1>3, <1>4, <1>5

LEMMA MakeDirectoryKept ==
  ASSUME Setup!ConstantsFit, SetupInv, Setup!MakeDirectory
  PROVE  SetupInv' /\ \A p \in Setup!All : Keeps(p)
<1> USE PathOf DEF SetupInv, Setup!MakeDirectory
<1>1. SetupTypes'
  BY DEF SetupTypes, Setup!Advances, Setup!Fails, Setup!States
<1>2. Authors'
  BY DEF Authors, SetupTypes, Setup!Advances, Setup!Fails, Setup!States, Setup!Directories
<1>3. Walked'
  BY DEF SetupTypes, Authors, Walked, Setup!States, Setup!Advances, Setup!Fails
<1>4. Setup!AllOrNothing'
  BY DEF Setup!AllOrNothing, Authors, Walked, SetupTypes, Setup!Advances, Setup!Fails, Setup!States
<1>5. \A p \in Setup!All : Keeps(p)
  BY DEF Keeps, Authors, SetupTypes, Setup!States
<1> QED
  BY <1>1, <1>2, <1>3, <1>4, <1>5

LEMMA CreateKept ==
  ASSUME Setup!ConstantsFit, SetupInv, Setup!Create
  PROVE  SetupInv' /\ \A p \in Setup!All : Keeps(p)
<1> USE PathOf DEF SetupInv, Setup!Create
<1>1. SetupTypes'
  <2>1. CASE content[Paths[initNext]] # "none"
    BY <2>1 DEF SetupTypes, Setup!Fails
  <2>2. CASE content[Paths[initNext]] = "none"
    <3>1. /\ content' = [content EXCEPT ![Paths[initNext]] = "ours"] /\ by' = [by EXCEPT ![Paths[initNext]] = "us"]
          /\ created' = created \cup {Paths[initNext]} /\ missing' = missing /\ Paths[initNext] \in Setup!All
      BY <2>2 DEF SetupTypes
    <3>2. /\ content' \in [Setup!All -> Setup!States] /\ by' \in [Setup!All -> {"nobody", "us", "them"}]
          /\ created' \subseteq Setup!All /\ missing' \subseteq Setup!All
      BY <3>1 DEF SetupTypes, Setup!States
    <3> QED
      BY <2>2, <3>2 DEF SetupTypes, Setup!Advances
  <2> QED
    BY <2>1, <2>2
<1>2. Authors'
  BY DEF Authors, SetupTypes, Setup!Advances, Setup!Fails, Setup!States, Setup!Directories
<1>3. Walked'
  BY DEF SetupTypes, Authors, Walked, Setup!States, Setup!Advances, Setup!Fails
<1>4. Setup!AllOrNothing'
  BY DEF Setup!AllOrNothing, Authors, Walked, SetupTypes, Setup!Advances, Setup!Fails, Setup!States
<1>5. \A p \in Setup!All : Keeps(p)
  BY DEF Keeps, Authors, SetupTypes, Setup!States
<1> QED
  BY <1>1, <1>2, <1>3, <1>4, <1>5

LEMMA WriteFailsKept ==
  ASSUME Setup!ConstantsFit, SetupInv, Setup!WriteFails
  PROVE  SetupInv' /\ \A p \in Setup!All : Keeps(p)
<1> USE PathOf DEF SetupInv, Setup!WriteFails
<1>1. SetupTypes'
  BY DEF SetupTypes, Setup!Advances, Setup!Fails, Setup!States
<1>2. Authors'
  BY DEF Authors, SetupTypes, Setup!Advances, Setup!Fails, Setup!States, Setup!Directories
<1>3. Walked'
  BY DEF SetupTypes, Authors, Walked, Setup!States, Setup!Advances, Setup!Fails
<1>4. Setup!AllOrNothing'
  BY DEF Setup!AllOrNothing, Authors, Walked, SetupTypes, Setup!Advances, Setup!Fails, Setup!States
<1>5. \A p \in Setup!All : Keeps(p)
  BY DEF Keeps, Authors, SetupTypes, Setup!States
<1> QED
  BY <1>1, <1>2, <1>3, <1>4, <1>5

LEMMA RollbackKept ==
  ASSUME Setup!ConstantsFit, SetupInv, Setup!Rollback
  PROVE  SetupInv' /\ \A p \in Setup!All : Keeps(p)
<1> USE PathOf DEF SetupInv, Setup!Rollback
<1>1. SetupTypes'
  BY DEF SetupTypes, Setup!Advances, Setup!Fails, Setup!States
<1>2. Authors'
  BY DEF Authors, SetupTypes, Setup!Advances, Setup!Fails, Setup!States, Setup!Directories
<1>3. Walked'
  BY DEF SetupTypes, Authors, Walked, Setup!States, Setup!Advances, Setup!Fails
<1>4. Setup!AllOrNothing'
  BY DEF Setup!AllOrNothing, Authors, Walked, SetupTypes, Setup!Advances, Setup!Fails, Setup!States
<1>5. \A p \in Setup!All : Keeps(p)
  BY DEF Keeps, Authors, SetupTypes, Setup!States
<1> QED
  BY <1>1, <1>2, <1>3, <1>4, <1>5

LEMMA TheirsKept ==
  ASSUME Setup!ConstantsFit, SetupInv, NEW q \in Setup!All, Setup!Theirs(q)
  PROVE  SetupInv' /\ \A p \in Setup!All : Keeps(p)
<1> USE PathOf DEF SetupInv, Setup!Theirs
<1>1. SetupTypes'
  BY DEF SetupTypes, Setup!Advances, Setup!Fails, Setup!States
<1>2. Authors'
  BY DEF Authors, SetupTypes, Setup!Advances, Setup!Fails, Setup!States, Setup!Directories
<1>3. Walked'
  BY DEF SetupTypes, Authors, Walked, Setup!States, Setup!Advances, Setup!Fails
<1>4. Setup!AllOrNothing'
  BY DEF Setup!AllOrNothing, Authors, Walked, SetupTypes, Setup!Advances, Setup!Fails, Setup!States
<1>5. \A p \in Setup!All : Keeps(p)
  BY DEF Keeps, Authors, SetupTypes, Setup!States
<1> QED
  BY <1>1, <1>2, <1>3, <1>4, <1>5

LEMMA SetupInvStep ==
  ASSUME Setup!ConstantsFit, SetupInv, [Setup!Next]_(Setup!vars)
  PROVE  SetupInv' /\ \A p \in Setup!All : Keeps(p)
<1>1. CASE UNCHANGED Setup!vars
  BY <1>1 DEF SetupInv, SetupTypes, Authors, Walked, Setup!AllOrNothing, Keeps, Setup!vars
<1> QED
  BY <1>1, LookKept, SkipKept, MakeDirectoryKept, CreateKept, WriteFailsKept, RollbackKept,
    TheirsKept
  DEF Setup!Next

\* initialize(): all of the scaffold or nothing of it, and nothing of anybody else's.
THEOREM SetupAllOrNothing == Setup!Spec => InitAllOrNothing
<1>1. Setup!Init => SetupInv
  BY PathsAssumption, PathOf DEF Setup!Init, SetupInv, SetupTypes, Authors, Walked,
    Setup!AllOrNothing, Setup!States
<1>2. SetupInv /\ [Setup!Next]_(Setup!vars) => SetupInv'
  BY PathsAssumption, SetupInvStep
<1>3. SetupInv => Setup!AllOrNothing
  BY DEF SetupInv
<1>4. SetupInv /\ [Setup!Next]_(Setup!vars)
        => [\A p \in Setup!All : by[p] = "them" => by'[p] = "them" /\ content'[p] = content[p]]_<<by, content>>
  BY PathsAssumption, SetupInvStep DEF Keeps
<1> QED
  BY <1>1, <1>2, <1>3, <1>4, PTL DEF Setup!Spec, InitAllOrNothing, Setup!InitAllOrNothing,
    Setup!TheirsStay

-----------------------------------------------------------------------------
(* ResourceScope: what a scope returns, and when                           *)

\* The proofs about scopes, under the names they have here.
SP == INSTANCE ResourceScope_proofs WITH
  None <- NoCause, phase <- waitPhase, pc <- scopePc, result <- scopeResult

LEMMA SameCounts ==
  /\ \A S : Timed!Cardinality(S) = SP!Cardinality(S)
  /\ Timed!W!Cardinality(active) = SP!W!Cardinality(active)
  /\ Timed!IsFiniteSet(Scopes) <=> SP!IsFiniteSet(Scopes)
  BY DEF Timed!Cardinality, SP!Cardinality, Timed!W!Cardinality, SP!W!Cardinality,
         Timed!IsFiniteSet, SP!IsFiniteSet

LEMMA SameBegin ==
  /\ Timed!ScopesFit => SP!ScopesFit
  /\ Timed!Init => SP!Init
<1>1. Timed!ScopesFit => SP!ScopesFit
  BY SameCounts DEF Timed!ScopesFit, SP!ScopesFit, Timed!W!ConstantsFit, SP!W!ConstantsFit
<1>2. Timed!Init => SP!Init
  BY DEF Timed!Init, SP!Init, Timed!W!Init, SP!W!Init, Timed!R!Init, SP!R!Init, Timed!Idle, SP!Idle,
    Timed!R!Acquiring, SP!R!Acquiring, Timed!W!Unknown, SP!W!Unknown, Timed!W!Completion,
    SP!W!Completion, Timed!W!CancelledBy, SP!W!CancelledBy
<1> QED
  BY <1>1, <1>2

LEMMA SameSteps1 ==
  ASSUME NEW s \in Scopes
  PROVE  /\ Timed!BeginAcquisition(s) => SP!BeginAcquisition(s)
         /\ Timed!HostOpens(s) => SP!HostOpens(s)
         /\ Timed!BeginAcquireWait(s) => SP!BeginAcquireWait(s)
         /\ Timed!AcquireWait(s) => SP!AcquireWait(s)
  BY SameCounts
  DEF Timed!BeginAcquisition, SP!BeginAcquisition, Timed!HostOpens, SP!HostOpens,
    Timed!BeginAcquireWait, SP!BeginAcquireWait, Timed!AcquireWait, SP!AcquireWait,
    Timed!R!BeginAcquisition, SP!R!BeginAcquisition, Timed!R!CanAcknowledge,
    SP!R!CanAcknowledge, Timed!R!AcknowledgeOwnership, SP!R!AcknowledgeOwnership, Timed!Call,
    SP!Call, Timed!At, SP!At, Timed!Goto, SP!Goto, Timed!Result, SP!Result, Timed!Gen, SP!Gen,
    Timed!registryVars, SP!registryVars, Timed!scopeVars, SP!scopeVars, Timed!waitVars,
    SP!waitVars, Timed!W!Register, SP!W!Register, Timed!W!Reject, SP!W!Reject, Timed!W!Begin,
    SP!W!Begin, Timed!W!Epoch, SP!W!Epoch, Timed!W!OpenBudget, SP!W!OpenBudget, Timed!W!Overdue,
    SP!W!Overdue, Timed!W!PollCancelled, SP!W!PollCancelled, Timed!W!PollDeadline,
    SP!W!PollDeadline, Timed!W!PollSource, SP!W!PollSource, Timed!W!OpenCleanup,
    SP!W!OpenCleanup, Timed!W!Settle, SP!W!Settle, Timed!W!InterruptEnds, SP!W!InterruptEnds,
    Timed!W!InterruptExpires, SP!W!InterruptExpires, Timed!W!CleanupEnds, SP!W!CleanupEnds,
    Timed!W!BoundedEnds, SP!W!BoundedEnds, Timed!W!AnyCause, SP!W!AnyCause, Timed!W!tokenVars,
    SP!W!tokenVars, Timed!W!waitVars, SP!W!waitVars, Timed!W!Unknown, SP!W!Unknown,
    Timed!W!Completion, SP!W!Completion, Timed!W!CancelledBy, SP!W!CancelledBy, Timed!R!Current,
    SP!R!Current, Timed!R!LeasesOn, SP!R!LeasesOn, Timed!R!Fresh, SP!R!Fresh, Timed!R!Update,
    SP!R!Update, Timed!R!Acquiring, SP!R!Acquiring, Timed!R!Ids, SP!R!Ids

LEMMA SameSteps2 ==
  ASSUME NEW s \in Scopes
  PROVE  /\ Timed!AfterAcquire(s) => SP!AfterAcquire(s)
         /\ Timed!TakeLease(s) => SP!TakeLease(s)
         /\ Timed!BeginBodyWait(s) => SP!BeginBodyWait(s)
         /\ Timed!BodyWait(s) => SP!BodyWait(s)
         /\ Timed!AfterBody(s) => SP!AfterBody(s)
  BY SameCounts
  DEF Timed!AfterAcquire, SP!AfterAcquire, Timed!TakeLease, SP!TakeLease, Timed!BeginBodyWait,
    SP!BeginBodyWait, Timed!BodyWait, SP!BodyWait, Timed!AfterBody, SP!AfterBody,
    Timed!R!CanReady, SP!R!CanReady, Timed!R!Ready, SP!R!Ready, Timed!R!CanLease, SP!R!CanLease,
    Timed!R!TakeLease, SP!R!TakeLease, Timed!Call, SP!Call, Timed!At, SP!At, Timed!Goto,
    SP!Goto, Timed!Result, SP!Result, Timed!Gen, SP!Gen, Timed!registryVars, SP!registryVars,
    Timed!scopeVars, SP!scopeVars, Timed!waitVars, SP!waitVars, Timed!W!Register, SP!W!Register,
    Timed!W!Reject, SP!W!Reject, Timed!W!Begin, SP!W!Begin, Timed!W!Epoch, SP!W!Epoch,
    Timed!W!OpenBudget, SP!W!OpenBudget, Timed!W!Overdue, SP!W!Overdue, Timed!W!PollCancelled,
    SP!W!PollCancelled, Timed!W!PollDeadline, SP!W!PollDeadline, Timed!W!PollSource,
    SP!W!PollSource, Timed!W!OpenCleanup, SP!W!OpenCleanup, Timed!W!Settle, SP!W!Settle,
    Timed!W!InterruptEnds, SP!W!InterruptEnds, Timed!W!InterruptExpires, SP!W!InterruptExpires,
    Timed!W!CleanupEnds, SP!W!CleanupEnds, Timed!W!BoundedEnds, SP!W!BoundedEnds,
    Timed!W!AnyCause, SP!W!AnyCause, Timed!W!tokenVars, SP!W!tokenVars, Timed!W!waitVars,
    SP!W!waitVars, Timed!W!Unknown, SP!W!Unknown, Timed!W!Completion, SP!W!Completion,
    Timed!W!CancelledBy, SP!W!CancelledBy, Timed!R!Current, SP!R!Current, Timed!R!LeasesOn,
    SP!R!LeasesOn, Timed!R!Fresh, SP!R!Fresh, Timed!R!Update, SP!R!Update, Timed!R!Acquiring,
    SP!R!Acquiring, Timed!R!Ids, SP!R!Ids

LEMMA SameSteps3 ==
  ASSUME NEW s \in Scopes
  PROVE  /\ Timed!Report(s) => SP!Report(s)
         /\ Timed!Unlease(s) => SP!Unlease(s)
         /\ Timed!Classify(s) => SP!Classify(s)
         /\ Timed!BeginTeardown(s) => SP!BeginTeardown(s)
         /\ Timed!TeardownExpires(s) => SP!TeardownExpires(s)
  BY SameCounts
  DEF Timed!Report, SP!Report, Timed!Unlease, SP!Unlease, Timed!Classify, SP!Classify,
    Timed!BeginTeardown, SP!BeginTeardown, Timed!TeardownExpires, SP!TeardownExpires,
    Timed!TeardownEnds, SP!TeardownEnds, Timed!R!CanCancel, SP!R!CanCancel, Timed!R!Cancel,
    SP!R!Cancel, Timed!R!ReleaseLease, SP!R!ReleaseLease, Timed!R!CanAcquireFail,
    SP!R!CanAcquireFail, Timed!R!AcquireFailed, SP!R!AcquireFailed, Timed!R!CanBeginRelease,
    SP!R!CanBeginRelease, Timed!R!BeginRelease, SP!R!BeginRelease, Timed!Call, SP!Call,
    Timed!At, SP!At, Timed!Goto, SP!Goto, Timed!Result, SP!Result, Timed!Gen, SP!Gen,
    Timed!registryVars, SP!registryVars, Timed!scopeVars, SP!scopeVars, Timed!waitVars,
    SP!waitVars, Timed!W!Register, SP!W!Register, Timed!W!Reject, SP!W!Reject, Timed!W!Begin,
    SP!W!Begin, Timed!W!Epoch, SP!W!Epoch, Timed!W!OpenBudget, SP!W!OpenBudget, Timed!W!Overdue,
    SP!W!Overdue, Timed!W!PollCancelled, SP!W!PollCancelled, Timed!W!PollDeadline,
    SP!W!PollDeadline, Timed!W!PollSource, SP!W!PollSource, Timed!W!OpenCleanup,
    SP!W!OpenCleanup, Timed!W!Settle, SP!W!Settle, Timed!W!InterruptEnds, SP!W!InterruptEnds,
    Timed!W!InterruptExpires, SP!W!InterruptExpires, Timed!W!CleanupEnds, SP!W!CleanupEnds,
    Timed!W!BoundedEnds, SP!W!BoundedEnds, Timed!W!AnyCause, SP!W!AnyCause, Timed!W!tokenVars,
    SP!W!tokenVars, Timed!W!waitVars, SP!W!waitVars, Timed!W!Unknown, SP!W!Unknown,
    Timed!W!Completion, SP!W!Completion, Timed!W!CancelledBy, SP!W!CancelledBy, Timed!R!Current,
    SP!R!Current, Timed!R!LeasesOn, SP!R!LeasesOn, Timed!R!Fresh, SP!R!Fresh, Timed!R!Update,
    SP!R!Update, Timed!R!Acquiring, SP!R!Acquiring, Timed!R!Ids, SP!R!Ids

LEMMA SameSteps4 ==
  ASSUME NEW s \in Scopes
  PROVE  /\ Timed!CancelLate(s) => SP!CancelLate(s)
         /\ Timed!FinishTeardown(s) => SP!FinishTeardown(s)
         /\ Timed!Validate(s) => SP!Validate(s)
  BY SameCounts
  DEF Timed!CancelLate, SP!CancelLate, Timed!FinishTeardown, SP!FinishTeardown, Timed!Validate,
    SP!Validate, Timed!R!CanCancel, SP!R!CanCancel, Timed!R!Cancel, SP!R!Cancel,
    Timed!R!CanFinishRelease, SP!R!CanFinishRelease, Timed!R!FinishRelease, SP!R!FinishRelease,
    Timed!R!OwnerFinished, SP!R!OwnerFinished, Timed!R!ValidateOwnerFinished,
    SP!R!ValidateOwnerFinished, Timed!Call, SP!Call, Timed!At, SP!At, Timed!Goto, SP!Goto,
    Timed!Result, SP!Result, Timed!Gen, SP!Gen, Timed!registryVars, SP!registryVars,
    Timed!scopeVars, SP!scopeVars, Timed!waitVars, SP!waitVars, Timed!W!Register, SP!W!Register,
    Timed!W!Reject, SP!W!Reject, Timed!W!Begin, SP!W!Begin, Timed!W!Epoch, SP!W!Epoch,
    Timed!W!OpenBudget, SP!W!OpenBudget, Timed!W!Overdue, SP!W!Overdue, Timed!W!PollCancelled,
    SP!W!PollCancelled, Timed!W!PollDeadline, SP!W!PollDeadline, Timed!W!PollSource,
    SP!W!PollSource, Timed!W!OpenCleanup, SP!W!OpenCleanup, Timed!W!Settle, SP!W!Settle,
    Timed!W!InterruptEnds, SP!W!InterruptEnds, Timed!W!InterruptExpires, SP!W!InterruptExpires,
    Timed!W!CleanupEnds, SP!W!CleanupEnds, Timed!W!BoundedEnds, SP!W!BoundedEnds,
    Timed!W!AnyCause, SP!W!AnyCause, Timed!W!tokenVars, SP!W!tokenVars, Timed!W!waitVars,
    SP!W!waitVars, Timed!W!Unknown, SP!W!Unknown, Timed!W!Completion, SP!W!Completion,
    Timed!W!CancelledBy, SP!W!CancelledBy, Timed!R!Current, SP!R!Current, Timed!R!LeasesOn,
    SP!R!LeasesOn, Timed!R!Fresh, SP!R!Fresh, Timed!R!Update, SP!R!Update, Timed!R!Acquiring,
    SP!R!Acquiring, Timed!R!Ids, SP!R!Ids

LEMMA SameNext ==
  Timed!Next => SP!Next
<1>1. Timed!Tick => SP!Tick
  BY DEF Timed!Tick, SP!Tick, Timed!W!Tick, SP!W!Tick, Timed!W!Epoch, SP!W!Epoch, Timed!W!Cleaning,
    SP!W!Cleaning, Timed!W!Overdue, SP!W!Overdue, Timed!W!MaxTime, SP!W!MaxTime,
    Timed!W!tokenVars, SP!W!tokenVars, Timed!W!waitVars, SP!W!waitVars, Timed!At, SP!At,
    Timed!registryVars, SP!registryVars, Timed!scopeVars, SP!scopeVars
<1>2. ASSUME NEW s \in Scopes, NEW b \in BOOLEAN
      PROVE  /\ Timed!AdapterInterrupted(s, b) => SP!AdapterInterrupted(s, b)
             /\ Timed!TeardownEnds(s, b) => SP!TeardownEnds(s, b)
             /\ \A k \in Causes : Timed!Cancel(s, k) => SP!Cancel(s, k)
  BY DEF Timed!AdapterInterrupted, SP!AdapterInterrupted, Timed!TeardownEnds, SP!TeardownEnds,
    Timed!Cancel, SP!Cancel, Timed!W!Cancel, SP!W!Cancel, Timed!W!InterruptEnds,
    SP!W!InterruptEnds, Timed!W!BoundedEnds, SP!W!BoundedEnds, Timed!W!tokenVars,
    SP!W!tokenVars, Timed!W!waitVars, SP!W!waitVars, Timed!At, SP!At, Timed!Goto, SP!Goto,
    Timed!registryVars, SP!registryVars, Timed!scopeVars, SP!scopeVars, Timed!waitVars,
    SP!waitVars
<1>3. ASSUME NEW s \in Scopes
      PROVE  /\ Timed!Step(s) => SP!Step(s)
             /\ Timed!BeginAcquisition(s) => SP!BeginAcquisition(s)
             /\ Timed!HostOpens(s) => SP!HostOpens(s)
  BY SameSteps1, SameSteps2, SameSteps3, SameSteps4 DEF Timed!Step, SP!Step
<1> QED
  BY <1>1, <1>2, <1>3 DEF Timed!Next, SP!Next

\* run_observed() of resource_scope.rs: what primary_known() was told stays the result, but for a
\* success cancelled in its teardown, and a teardown spends what is left of the cleanup budget.
THEOREM ScopesInTime == Timed!Spec => []ScopeInTime
<1>1. [Timed!Next]_(Timed!vars) => [SP!Next]_(SP!vars)
  BY SameNext DEF Timed!vars, SP!vars, Timed!waitVars, SP!waitVars, Timed!registryVars,
    SP!registryVars,
    Timed!scopeVars, SP!scopeVars
<1>2. SP!Spec => [](SP!ObservedResultStands /\ SP!TeardownInBudget)
  BY SameBegin, ScopesAssumption, SP!ResultsStand, SP!TeardownsInBudget, PTL
<1>3. SP!ObservedResultStands /\ SP!TeardownInBudget => ScopeInTime
  BY DEF ScopeInTime, Timed!ObservedResultStands, SP!ObservedResultStands, Timed!TeardownInBudget,
    SP!TeardownInBudget, Timed!At, SP!At, Timed!W!Unknown, SP!W!Unknown, Timed!W!Completion,
    SP!W!Completion
<1> QED
  BY <1>1, <1>2, <1>3, SameBegin, PTL DEF Timed!Spec, SP!Spec
=============================================================================
