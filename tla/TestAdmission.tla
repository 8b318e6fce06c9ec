---------------------------- MODULE TestAdmission ----------------------------
(***************************************************************************)
(* What the runner of a project promises about the tests of its files: a   *)
(* worker runs one test at a time, from the admission of its root to the   *)
(* end of its teardown; tests are taken up in plan order, each once; and a *)
(* file is reported, once, when each of its tests has run or was skipped.  *)
(***************************************************************************)
EXTENDS Naturals

CONSTANTS
  Files,
  N,          \* test roots 1..N, in project order
  FileOf,     \* the file of each root
  Workers

VARIABLES
  lent,       \* the root each worker runs, 0 for none
  ran, skipped,
  reported    \* files whose RunResult is final

avars == <<lent, ran, skipped, reported>>

Running == {i \in 1..N : \E w \in Workers : lent[w] = i}
Taken == ran \cup skipped \cup Running

\* The earliest root nobody took up yet.
IsNext(i) == i \in 1..N \ Taken /\ 1..(i - 1) \subseteq Taken

AInit ==
  /\ lent = [w \in Workers |-> 0]
  /\ ran = {} /\ skipped = {} /\ reported = {}

Start(w, i) ==
  /\ lent[w] = 0 /\ IsNext(i) /\ FileOf[i] \notin reported
  /\ lent' = [lent EXCEPT ![w] = i]
  /\ UNCHANGED <<ran, skipped, reported>>

Skip(i) ==
  /\ IsNext(i) /\ FileOf[i] \notin reported
  /\ skipped' = skipped \cup {i}
  /\ UNCHANGED <<lent, ran, reported>>

End(w) ==
  /\ lent[w] # 0
  /\ ran' = ran \cup {lent[w]}
  /\ lent' = [lent EXCEPT ![w] = 0]
  /\ UNCHANGED <<skipped, reported>>

Report(f) ==
  /\ f \notin reported
  /\ \A i \in 1..N : FileOf[i] = f => i \in ran \cup skipped
  /\ reported' = reported \cup {f}
  /\ UNCHANGED <<lent, ran, skipped>>

ANext ==
  \/ \E w \in Workers : End(w) \/ \E i \in 1..N : Start(w, i)
  \/ \E i \in 1..N : Skip(i)
  \/ \E f \in Files : Report(f)

ASpec == AInit /\ [][ANext]_avars
=============================================================================
