--------------------------- MODULE Events_proofs ---------------------------
(***************************************************************************)
(* Proofs about EventStream for any runs, test roots and capacities, and   *)
(* about the resource scopes of such runs for any scopes and budgets.      *)
(***************************************************************************)
EXTENDS Events, FiniteSetTheorems, TLAPS

-----------------------------------------------------------------------------
(* The inductive invariant                                                 *)

Done(r) == phase[r] = "finished"

\* The records kept are numbered in order, and leave room for the last one.
KeptInv(r) ==
  /\ phase[r] = "new" => sequence[r] = 0 /\ overflow[r] = None
  /\ ~Done(r) => Len(journal[r]) <= Capacity - 1 /\ sequence[r] <= MaxEvents - 1
  /\ Done(r) =>
       /\ Len(journal[r]) \in 1..Capacity
       /\ journal[r][Len(journal[r])].kind = "RunFinished"
       /\ journal[r][Len(journal[r])].seq = sequence[r] - 1

\* Without a gap the journal holds every event; with one it stops where the gap
\* begins, and goes on with RunFinished alone.
GapInv(r) ==
  /\ overflow[r] = None =>
       /\ Len(journal[r]) = sequence[r]
       /\ \A k \in DOMAIN journal[r] : journal[r][k].seq = k - 1
  /\ overflow[r] # None =>
       /\ overflow[r].first <= overflow[r].last
       /\ overflow[r].rejected = overflow[r].last - overflow[r].first + 1
       /\ Len(journal[r]) = overflow[r].first + (IF Done(r) THEN 1 ELSE 0)
       /\ sequence[r] = overflow[r].last + (IF Done(r) THEN 2 ELSE 1)
       /\ \A k \in DOMAIN journal[r] : k <= overflow[r].first => journal[r][k].seq = k - 1

\* A run is judged when its roots are over.
JudgedInv(r) ==
  /\ phase[r] = "new" => \A i \in RootsOf(r) : root[i] = "new"
  /\ phase[r] \in {"judged", "finished"} =>
       /\ verdict[r] = "Aborted" <=> overflow[r] # None
       /\ \A i \in RootsOf(r) : root[i] # "live"

SyncInv == \A r \in Runs : synced[r] <= Len(journal[r])

Inv ==
  /\ TypeOK
  /\ \A r \in Runs : KeptInv(r) /\ GapInv(r) /\ JudgedInv(r)
  /\ NoWorkAfterGap
  /\ SyncInv

-----------------------------------------------------------------------------
(* What a step does to the journals                                        *)

\* A step grows one journal by an event of a kind its phase allows, or none.
Grows(r) ==
  /\ \/ phase[r] = "new" /\ phase' = [phase EXCEPT ![r] = "open"] /\ Emit(r, "RunStarted")
     \/ Publishing(r) /\ sequence[r] < MaxEvents - 1 /\ UNCHANGED phase /\ Emit(r, "Fact")
     \/ /\ phase[r] = "judged" /\ phase' = [phase EXCEPT ![r] = "finished"]
        /\ Emit(r, "RunFinished")
  /\ UNCHANGED <<verdict, root>>

\* ... and changes nothing else the invariant speaks of when it grows one.
LEMMA Steps ==
  ASSUME [Next]_vars
  PROVE  \/ \E r \in Runs : Grows(r)
         \/ \E r \in Runs : Judge(r)
         \/ \E i \in Roots : RegisterRoot(i) \/ DropRoot(i)
         \/ UNCHANGED <<journalVars, runVars, shutdown>>
BY DEF Next, vars, CloseSender, Receive, EndOfStream, DropReceiver, Resync, Begin, EmitFact,
       Finish, Grows, runVars

\* How one event changes the journal of its run.
LEMMA Growth ==
  ASSUME TypeOK, NEW r \in Runs, Grows(r), KeptInv(r)
  PROVE  /\ \A q \in Runs : q # r =>
              /\ journal'[q] = journal[q] /\ sequence'[q] = sequence[q]
              /\ overflow'[q] = overflow[q] /\ phase'[q] = phase[q]
         /\ sequence'[r] = sequence[r] + 1 /\ sequence[r] + 1 <= MaxEvents
         /\ \/ /\ Full(r) /\ phase'[r] # "finished" /\ phase[r] # "finished"
               /\ journal'[r] = journal[r]
               /\ overflow'[r].last = sequence[r]
               /\ overflow[r] = None => /\ overflow'[r].first = sequence[r]
                                        /\ overflow'[r].rejected = 1
               /\ overflow[r] # None => /\ overflow'[r].first = overflow[r].first
                                        /\ overflow'[r].rejected = overflow[r].rejected + 1
               /\ overflow'[r] \in [first : Nat, last : Nat, rejected : Nat]
            \/ \E kind \in Kinds :
                 /\ journal'[r] = Append(journal[r], Record(r, sequence[r], kind))
                 /\ overflow'[r] = overflow[r]
                 /\ \/ kind # "RunFinished" /\ ~Full(r) /\ phase'[r] # "finished"
                    \/ kind = "RunFinished" /\ phase[r] = "judged" /\ phase'[r] = "finished"
         /\ sequence[r] + 1 <= MaxEvents - 1 \/ phase'[r] = "finished"
         /\ phase'[r] # "new"
<1> USE CapacityAssumption DEF TypeOK, KeptInv, Done
<1>1. PICK kind \in Kinds :
        /\ Emit(r, kind)
        /\ sequence[r] + 1 <= MaxEvents
        /\ sequence[r] + 1 <= MaxEvents - 1 \/ phase'[r] = "finished"
        /\ phase'[r] # "new" /\ phase[r] # "finished"
        /\ kind = "RunFinished" <=> phase'[r] = "finished"
        /\ kind = "RunFinished" => phase[r] = "judged"
        /\ \A q \in Runs : q # r => phase'[q] = phase[q]
  <2>1. CASE phase[r] = "new" /\ phase' = [phase EXCEPT ![r] = "open"] /\ Emit(r, "RunStarted")
    BY <2>1 DEF Kinds
  <2>2. CASE Publishing(r) /\ sequence[r] < MaxEvents - 1 /\ UNCHANGED phase /\ Emit(r, "Fact")
    BY <2>2, SMTT(20) DEF Kinds, Publishing
  <2>3. CASE /\ phase[r] = "judged" /\ phase' = [phase EXCEPT ![r] = "finished"]
             /\ Emit(r, "RunFinished")
    BY <2>3 DEF Kinds
  <2> QED
    BY <2>1, <2>2, <2>3 DEF Grows
<1>2. CASE kind # "RunFinished" /\ Full(r)
  <2>1. Omitted(r)
    BY <1>1, <1>2 DEF Emit
  <2>2. overflow'[r] = Widened(overflow[r], sequence[r])
    BY <2>1 DEF Omitted
  <2>3. overflow[r] \in [first : Nat, last : Nat, rejected : Nat] /\ sequence[r] \in Nat
    OBVIOUS
  <2>4. /\ overflow'[r] \in [first : Nat, last : Nat, rejected : Nat]
        /\ overflow'[r].last = sequence[r]
        /\ overflow[r] = None => overflow'[r].first = sequence[r] /\ overflow'[r].rejected = 1
        /\ overflow[r] # None => /\ overflow'[r].first = overflow[r].first
                                 /\ overflow'[r].rejected = overflow[r].rejected + 1
    BY <2>2, <2>3 DEF Widened
  <2>5. /\ journal' = journal /\ sequence'[r] = sequence[r] + 1
        /\ \A q \in Runs : q # r => sequence'[q] = sequence[q] /\ overflow'[q] = overflow[q]
    BY <2>1 DEF Omitted
  <2> QED
    BY <1>1, <1>2, <2>4, <2>5
<1>3. CASE ~(kind # "RunFinished" /\ Full(r))
  <2>1. Retained(r, kind)
    BY <1>1, <1>3 DEF Emit
  <2>2. /\ journal'[r] = Append(journal[r], Record(r, sequence[r], kind))
        /\ sequence'[r] = sequence[r] + 1 /\ overflow' = overflow
        /\ \A q \in Runs : q # r => sequence'[q] = sequence[q] /\ journal'[q] = journal[q]
    BY <2>1 DEF Retained
  <2> QED
    BY <1>1, <1>3, <2>2
<1> QED
  BY <1>2, <1>3

\* How an action that is no event changes the runs.
LEMMA Quiet ==
  ASSUME TypeOK, NEW r \in Runs,
         \/ \E q \in Runs : Judge(q)
         \/ \E i \in Roots : RegisterRoot(i) \/ DropRoot(i)
         \/ UNCHANGED <<journalVars, runVars, shutdown>>
  PROVE  /\ UNCHANGED journalVars
         /\ phase'[r] = phase[r] \/ (phase[r] = "open" /\ phase'[r] = "judged")
BY DEF TypeOK, Judge, RegisterRoot, DropRoot, journalVars, runVars

-----------------------------------------------------------------------------
(* Preservation                                                            *)

\* The last slot is left to RunFinished.
LEMMA KeptStep ==
  ASSUME Inv, [Next]_vars, NEW r \in Runs
  PROVE  KeptInv(r)'
<1> USE CapacityAssumption
<1>a. TypeOK /\ \A q \in Runs : KeptInv(q)
  BY DEF Inv
<1>b. ASSUME NEW q \in Runs, Grows(q), q # r PROVE KeptInv(r)'
  <2>1. /\ journal'[r] = journal[r] /\ sequence'[r] = sequence[r]
        /\ overflow'[r] = overflow[r] /\ phase'[r] = phase[r]
    BY <1>a, <1>b, Growth
  <2> QED
    BY <1>a, <2>1 DEF KeptInv, Done
<1>1. CASE Grows(r)
  <2>a. /\ sequence[r] \in Nat /\ sequence'[r] = sequence[r] + 1 /\ phase'[r] # "new"
        /\ sequence'[r] <= MaxEvents - 1 \/ phase'[r] = "finished"
    <3>1. sequence[r] \in Nat
      BY <1>a DEF TypeOK
    <3>2. /\ sequence'[r] = sequence[r] + 1 /\ phase'[r] # "new"
          /\ sequence[r] + 1 <= MaxEvents - 1 \/ phase'[r] = "finished"
      BY <1>1, <1>a, Growth
    <3> QED
      BY <3>1, <3>2
  <2>1. ASSUME Full(r), phase'[r] # "finished", phase[r] # "finished", journal'[r] = journal[r]
        PROVE  KeptInv(r)'
    BY <1>a, <2>1, <2>a DEF KeptInv, Done
  <2>2. ASSUME NEW kind \in Kinds,
               journal'[r] = Append(journal[r], Record(r, sequence[r], kind)),
               \/ kind # "RunFinished" /\ ~Full(r) /\ phase'[r] # "finished"
               \/ kind = "RunFinished" /\ phase[r] = "judged" /\ phase'[r] = "finished"
        PROVE  KeptInv(r)'
    <3>1. /\ Len(journal'[r]) = Len(journal[r]) + 1 /\ Len(journal[r]) \in Nat
          /\ journal'[r][Len(journal'[r])] = Record(r, sequence[r], kind)
      BY <1>a, <2>2 DEF TypeOK
    <3>2. ~Full(r) => Len(journal[r]) + 1 <= Capacity - 1
      BY <3>1 DEF Full
    <3>3. phase[r] = "judged" => Len(journal[r]) <= Capacity - 1
      BY <1>a DEF KeptInv, Done
    <3> QED
      BY <2>2, <2>a, <3>1, <3>2, <3>3 DEF KeptInv, Done, Record
  <2> QED
    BY <1>1, <1>a, <2>1, <2>2, Growth
<1>2. CASE \/ \E q \in Runs : Judge(q)
           \/ \E i \in Roots : RegisterRoot(i) \/ DropRoot(i)
           \/ UNCHANGED <<journalVars, runVars, shutdown>>
  <2>1. /\ UNCHANGED journalVars
        /\ phase'[r] = phase[r] \/ (phase[r] = "open" /\ phase'[r] = "judged")
    BY <1>2, <1>a, Quiet
  <2> QED
    BY <1>a, <2>1 DEF journalVars, KeptInv, Done
<1> QED
  BY <1>1, <1>2, <1>b, Steps

\* An event is kept in its place or widens the gap.
LEMMA GapStep ==
  ASSUME Inv, [Next]_vars, NEW r \in Runs
  PROVE  GapInv(r)'
<1>a. TypeOK /\ \A q \in Runs : KeptInv(q) /\ GapInv(q)
  BY DEF Inv
<1>b. ASSUME NEW q \in Runs, Grows(q), q # r PROVE GapInv(r)'
  <2>1. /\ journal'[r] = journal[r] /\ sequence'[r] = sequence[r]
        /\ overflow'[r] = overflow[r] /\ phase'[r] = phase[r]
    BY <1>a, <1>b, Growth
  <2> QED
    BY <1>a, <2>1 DEF GapInv, Done
<1>1. CASE Grows(r)
  <2>n. sequence'[r] = sequence[r] + 1
    BY <1>1, <1>a, Growth
  <2>1. sequence[r] \in Nat /\ sequence'[r] = sequence[r] + 1 /\ journal[r] \in Seq(Records)
    BY <1>a, <2>n, CapacityAssumption DEF TypeOK
  <2>2. overflow[r] \in [first : Nat, last : Nat, rejected : Nat]
    BY <1>a DEF TypeOK
  <2>o. GapInv(r)
    BY <1>a
  <2>3. ASSUME journal'[r] = journal[r], phase'[r] # "finished", phase[r] # "finished",
               overflow'[r].last = sequence[r],
               overflow'[r] \in [first : Nat, last : Nat, rejected : Nat],
               overflow[r] = None => /\ overflow'[r].first = sequence[r]
                                     /\ overflow'[r].rejected = 1,
               overflow[r] # None => /\ overflow'[r].first = overflow[r].first
                                     /\ overflow'[r].rejected = overflow[r].rejected + 1
        PROVE  GapInv(r)'
    <3>4. CASE overflow[r] = None
      <4>1. overflow'[r] # None
        BY <2>3, <3>4 DEF None
      <4> QED
        BY <2>1, <2>3, <2>o, <3>4, <4>1 DEF GapInv, Done
    <3>5. CASE overflow[r] # None
      <4>1. overflow'[r] # None
        BY <2>2, <2>3, <3>5 DEF None
      <4> QED
        BY <2>1, <2>2, <2>3, <2>o, <3>5, <4>1 DEF GapInv, Done
    <3> QED
      BY <3>4, <3>5
  <2>4. ASSUME NEW kind \in Kinds,
               journal'[r] = Append(journal[r], Record(r, sequence[r], kind)),
               overflow'[r] = overflow[r],
               \/ kind # "RunFinished" /\ ~Full(r) /\ phase'[r] # "finished"
               \/ kind = "RunFinished" /\ phase[r] = "judged" /\ phase'[r] = "finished"
        PROVE  GapInv(r)'
    <3>1. /\ Len(journal'[r]) = Len(journal[r]) + 1 /\ Len(journal[r]) \in Nat
          /\ DOMAIN journal[r] = 1..Len(journal[r]) /\ DOMAIN journal'[r] = 1..(Len(journal[r]) + 1)
          /\ \A k \in DOMAIN journal[r] : journal'[r][k] = journal[r][k]
          /\ journal'[r][Len(journal[r]) + 1].seq = sequence[r]
      BY <2>1, <2>4 DEF Record
    <3>2. CASE overflow[r] = None
      BY <2>1, <2>4, <2>o, <3>1, <3>2, SMTT(20) DEF GapInv, Done
    <3>3. CASE overflow[r] # None
      <4>1. phase[r] = "judged" /\ phase'[r] = "finished"
        BY <2>4, <3>3 DEF Full
      <4> QED
        <5>1. /\ overflow[r].first <= overflow[r].last
              /\ overflow[r].rejected = overflow[r].last - overflow[r].first + 1
              /\ Len(journal[r]) = overflow[r].first /\ sequence[r] = overflow[r].last + 1
              /\ \A k \in DOMAIN journal[r] : k <= overflow[r].first => journal[r][k].seq = k - 1
          BY <2>o, <2>1, <2>2, <3>3, <4>1 DEF GapInv, Done
        <5>2. /\ Len(journal'[r]) = overflow[r].first + 1 /\ sequence'[r] = overflow[r].last + 2
          BY <2>1, <2>2, <3>1, <5>1
        <5>3. \A k \in DOMAIN journal'[r] :
                 k <= overflow[r].first => k \in DOMAIN journal[r] /\ journal'[r][k] = journal[r][k]
          BY <2>2, <3>1, <3>3, <5>1
        <5> QED
          BY <2>4, <3>3, <4>1, <5>1, <5>2, <5>3 DEF GapInv, Done
    <3> QED
      BY <3>2, <3>3
  <2> QED
    BY <1>1, <1>a, <2>3, <2>4, Growth
<1>2. CASE \/ \E q \in Runs : Judge(q)
           \/ \E i \in Roots : RegisterRoot(i) \/ DropRoot(i)
           \/ UNCHANGED <<journalVars, runVars, shutdown>>
  <2>1. /\ UNCHANGED journalVars
        /\ phase'[r] = phase[r] \/ (phase[r] = "open" /\ phase'[r] = "judged")
    BY <1>2, <1>a, Quiet
  <2> QED
    BY <1>a, <2>1 DEF journalVars, GapInv, Done
<1> QED
  BY <1>1, <1>2, <1>b, Steps

\* A root is registered while its run is open, and over when the run is judged.
LEMMA JudgedStep ==
  ASSUME Inv, [Next]_vars, NEW r \in Runs
  PROVE  JudgedInv(r)'
<1>a. TypeOK /\ KeptInv(r) /\ JudgedInv(r) /\ \A q \in Runs : KeptInv(q)
  BY DEF Inv
<1>1. ASSUME NEW q \in Runs, Grows(q) PROVE JudgedInv(r)'
  <2>1. UNCHANGED <<verdict, root>>
    BY <1>1 DEF Grows
  <2>2. CASE q # r
    <3>1. overflow'[r] = overflow[r] /\ phase'[r] = phase[r]
      BY <1>1, <1>a, <2>2, Growth
    <3> QED
      BY <1>a, <2>1, <3>1 DEF JudgedInv
  <2>3. CASE q = r /\ phase[r] \in {"new", "open"}
    <3>1. phase'[r] = "open"
      <4>1. \/ phase' = [phase EXCEPT ![r] = "open"]
            \/ phase[r] = "open" /\ phase' = phase
        BY <1>1, <2>3 DEF Grows, Publishing
      <4> QED
        BY <1>a, <4>1 DEF TypeOK
    <3> QED
      BY <3>1 DEF JudgedInv
  <2>4. CASE q = r /\ phase[r] \notin {"new", "open"}
    <3>1. ~Publishing(r)
      BY <1>a, <2>4 DEF Publishing, JudgedInv, TypeOK
    <3>2. phase[r] = "judged" /\ Emit(r, "RunFinished") /\ phase' = [phase EXCEPT ![r] = "finished"]
      BY <1>1, <2>4, <3>1 DEF Grows
    <3>3. overflow' = overflow
      BY <3>2 DEF Emit, Retained
    <3>4. phase'[r] = "finished"
      BY <1>a, <3>2 DEF TypeOK
    <3> QED
      BY <1>a, <2>1, <3>2, <3>3, <3>4 DEF JudgedInv
  <2> QED
    BY <2>2, <2>3, <2>4
<1>2. ASSUME NEW q \in Runs, Judge(q) PROVE JudgedInv(r)'
  <2>1. CASE q = r
    BY <1>2, <1>a, <2>1 DEF Judge, JudgedInv, TypeOK, journalVars
  <2>2. CASE q # r
    BY <1>2, <1>a, <2>2 DEF Judge, JudgedInv, TypeOK, journalVars
  <2> QED
    BY <2>1, <2>2
<1>3. ASSUME NEW i \in Roots, RegisterRoot(i) PROVE JudgedInv(r)'
  BY <1>3, <1>a DEF RegisterRoot, JudgedInv, TypeOK, journalVars, RootsOf
<1>4. ASSUME NEW i \in Roots, DropRoot(i) PROVE JudgedInv(r)'
  BY <1>4, <1>a DEF DropRoot, JudgedInv, TypeOK, journalVars, RootsOf
<1>5. CASE UNCHANGED <<journalVars, runVars, shutdown>>
  BY <1>5, <1>a DEF JudgedInv, journalVars, runVars
<1> QED
  BY <1>1, <1>2, <1>3, <1>4, <1>5, Steps

\* The event that opens the gap cancels the roots that are registered, and a root
\* that registers later is cancelled at once.
LEMMA NoWorkStep ==
  ASSUME Inv, [Next]_vars
  PROVE  NoWorkAfterGap'
<1> USE RunsAssumption
<1>a. TypeOK /\ NoWorkAfterGap /\ \A q \in Runs : KeptInv(q)
  BY DEF Inv
<1>1. ASSUME NEW q \in Runs, Grows(q) PROVE NoWorkAfterGap'
  <2>1. UNCHANGED root
    BY <1>1 DEF Grows
  <2>2. PICK kind \in Kinds : Emit(q, kind)
    BY <1>1 DEF Grows, Kinds
  <2>3. shutdown \subseteq shutdown'
    BY <2>2 DEF Emit
  <2>4. \A r \in Runs : r # q => overflow'[r] = overflow[r]
    BY <1>1, <1>a, Growth
  <2>5. overflow[q] = None /\ overflow'[q] # None =>
          {i \in RootsOf(q) : root[i] = "live"} \subseteq shutdown'
    BY <2>2 DEF Emit, Retained
  <2>6. ASSUME NEW i \in Roots, root'[i] = "live", overflow'[RunOf[i]] # None
        PROVE  i \in shutdown'
    BY <1>a, <2>1, <2>3, <2>4, <2>5, <2>6 DEF NoWorkAfterGap, RootsOf
  <2> QED
    BY <2>6 DEF NoWorkAfterGap
<1>2. CASE \/ \E q \in Runs : Judge(q)
           \/ \E i \in Roots : DropRoot(i)
           \/ UNCHANGED <<journalVars, runVars, shutdown>>
  BY <1>2, <1>a DEF NoWorkAfterGap, TypeOK, Judge, DropRoot, journalVars, runVars
<1>3. ASSUME NEW i \in Roots, RegisterRoot(i) PROVE NoWorkAfterGap'
  BY <1>3, <1>a DEF NoWorkAfterGap, TypeOK, RegisterRoot, journalVars
<1> QED
  BY <1>1, <1>2, <1>3, Steps

\* A replay does not run past the journal it reads.
LEMMA SyncStep ==
  ASSUME Inv, [Next]_vars
  PROVE  SyncInv'
<1>a. TypeOK /\ SyncInv /\ \A q \in Runs : KeptInv(q)
  BY DEF Inv
<1>1. ASSUME NEW q \in Runs, Resync(q) PROVE SyncInv'
  BY <1>1, <1>a DEF Resync, SyncInv, TypeOK, journalVars
<1>2. ASSUME NEW r \in Runs
      PROVE  Len(journal[r]) <= Len(journal'[r]) /\ Len(journal'[r]) \in Nat
  <2>1. journal[r] \in Seq(Records)
    BY <1>a DEF TypeOK
  <2>2. journal'[r] = journal[r] \/ \E x : journal'[r] = Append(journal[r], x)
    <3>1. CASE Grows(r)
      BY <1>a, <3>1, Growth
    <3>2. ASSUME NEW q \in Runs, q # r, Grows(q) PROVE journal'[r] = journal[r]
      BY <1>a, <3>2, Growth
    <3>3. CASE \/ \E q \in Runs : Judge(q)
               \/ \E i \in Roots : RegisterRoot(i) \/ DropRoot(i)
               \/ UNCHANGED <<journalVars, runVars, shutdown>>
      BY <3>3 DEF Judge, RegisterRoot, DropRoot, journalVars
    <3> QED
      BY <3>1, <3>2, <3>3, Steps
  <2> QED
    BY <2>1, <2>2
<1>3. ASSUME synced' = synced PROVE SyncInv'
  <2> SUFFICES ASSUME NEW r \in Runs PROVE synced'[r] <= Len(journal'[r])
    BY DEF SyncInv
  <2>1. synced[r] \in Nat /\ synced[r] <= Len(journal[r]) /\ journal[r] \in Seq(Records)
    BY <1>a, CapacityAssumption DEF TypeOK, SyncInv
  <2> QED
    BY <1>2, <1>3, <2>1
<1> QED
  BY <1>1, <1>3 DEF Next, vars, CloseSender, Receive, EndOfStream, DropReceiver, Begin, EmitFact,
     Judge, Finish, RegisterRoot, DropRoot, consumerVars, replayVars

-----------------------------------------------------------------------------
(* Type correctness                                                        *)

\* An event keeps the types of the journals and of the channel.
LEMMA EmitTypes ==
  ASSUME TypeOK, NEW r \in Runs, Grows(r), KeptInv(r)
  PROVE  /\ journal' \in [Runs -> Seq(Records)] /\ sequence' \in [Runs -> 0..MaxEvents]
         /\ overflow' \in [Runs -> [first : Nat, last : Nat, rejected : Nat]]
         /\ shutdown' \in SUBSET Roots
         /\ queue' \in Seq(Records) /\ Len(queue') <= QueueCapacity
         /\ sender' \in BOOLEAN /\ closing' \in BOOLEAN
         /\ gap' = NoGap \/ gap' \in [reason : {"SubscriberCapacity", "JournalCapacity"},
                                      run : Runs, seq : 0..MaxEvents]
<1> USE CapacityAssumption DEF TypeOK
<1>1. PICK kind \in Kinds : Emit(r, kind)
  BY DEF Grows, Kinds
<1>2. /\ sequence[r] \in Nat /\ sequence[r] + 1 <= MaxEvents /\ sequence[r] \in 0..MaxEvents
      /\ sequence[r] + 1 \in 0..MaxEvents
  <2>1. sequence[r] + 1 <= MaxEvents
    BY Growth
  <2> QED
    BY <2>1
<1>3. Record(r, sequence[r], kind) \in Records
  BY <1>2 DEF Record, Records
<1>4. ASSUME NEW rec \in Records, Publish(rec)
      PROVE  /\ queue' \in Seq(Records) /\ Len(queue') <= QueueCapacity
             /\ sender' \in BOOLEAN /\ closing' \in BOOLEAN
             /\ gap' = NoGap \/ gap' \in [reason : {"SubscriberCapacity", "JournalCapacity"},
                                          run : Runs, seq : 0..MaxEvents]
  <2>5. /\ Len(queue) \in Nat /\ QueueCapacity \in Nat
        /\ Len(queue) >= QueueCapacity <=> ~(Len(queue) < QueueCapacity)
    OBVIOUS
  <2>1. CASE ~sender
    BY <1>4, <2>1 DEF Publish, channelVars
  <2>2. CASE sender /\ consumer = "dropped"
    BY <1>4, <2>2 DEF Publish
  <2>3. CASE sender /\ consumer # "dropped" /\ Len(queue) < QueueCapacity
    <3>1. queue' = Append(queue, rec) /\ UNCHANGED <<sender, closing, gap>>
      BY <1>4, <2>3, <2>5, Zenon DEF Publish
    <3> QED
      BY <2>3, <3>1
  <2>4. CASE sender /\ consumer # "dropped" /\ Len(queue) >= QueueCapacity
    <3>1. GiveUp(Gap("SubscriberCapacity", rec.run, rec.seq))
      BY <1>4, <2>4, <2>5, Zenon DEF Publish
    <3>2. rec.run \in Runs /\ rec.seq \in 0..MaxEvents
      BY DEF Records
    <3> QED
      BY <3>1, <3>2 DEF GiveUp, Gap
  <2> QED
    BY <2>1, <2>2, <2>3, <2>4, <2>5
<1>5. CASE kind # "RunFinished" /\ Full(r)
  <2>1. /\ Omitted(r)
        /\ \/ JournalFailed(r, sequence[r]) \/ UNCHANGED channelVars
        /\ \/ shutdown' = shutdown \cup {i \in RootsOf(r) : root[i] = "live"}
           \/ UNCHANGED shutdown
    BY <1>1, <1>5 DEF Emit
  <2>2. Widened(overflow[r], sequence[r]) \in [first : Nat, last : Nat, rejected : Nat]
    BY <1>2 DEF Widened
  <2>3. /\ journal' \in [Runs -> Seq(Records)] /\ sequence' \in [Runs -> 0..MaxEvents]
        /\ overflow' \in [Runs -> [first : Nat, last : Nat, rejected : Nat]]
    BY <1>2, <2>1, <2>2 DEF Omitted
  <2>4. shutdown' \in SUBSET Roots
    BY <2>1 DEF RootsOf
  <2>5. CASE UNCHANGED channelVars
    BY <2>3, <2>4, <2>5 DEF channelVars
  <2>6. CASE JournalFailed(r, sequence[r]) /\ sender
    <3>1. GiveUp(Gap("JournalCapacity", r, sequence[r]))
      BY <2>6 DEF JournalFailed
    <3> QED
      BY <1>2, <2>3, <2>4, <3>1 DEF GiveUp, Gap
  <2>7. CASE JournalFailed(r, sequence[r]) /\ ~sender
    BY <2>5, <2>7 DEF JournalFailed
  <2> QED
    BY <2>1, <2>5, <2>6, <2>7
<1>6. CASE ~(kind # "RunFinished" /\ Full(r))
  <2>1. /\ Retained(r, kind) /\ Publish(Record(r, sequence[r], kind))
        /\ UNCHANGED shutdown
    BY <1>1, <1>6 DEF Emit
  <2>2. /\ journal' \in [Runs -> Seq(Records)] /\ sequence' \in [Runs -> 0..MaxEvents]
        /\ overflow' \in [Runs -> [first : Nat, last : Nat, rejected : Nat]]
    BY <1>2, <1>3, <2>1 DEF Retained
  <2> QED
    BY <1>3, <1>4, <2>1, <2>2
<1> QED
  BY <1>5, <1>6

LEMMA TypeStep ==
  ASSUME Inv, [Next]_vars
  PROVE  TypeOK'
<1> USE CapacityAssumption
<1>a. TypeOK /\ SyncInv /\ \A q \in Runs : KeptInv(q)
  BY DEF Inv
<1>1. CASE UNCHANGED vars
  BY <1>1, <1>a DEF TypeOK, vars, journalVars, runVars, channelVars, consumerVars, replayVars
<1>2. CASE CloseSender
  BY <1>2, <1>a DEF TypeOK, CloseSender, journalVars, runVars, consumerVars, replayVars
<1>3. CASE Receive
  <2>1. Head(queue) \in Records /\ Tail(queue) \in Seq(Records) /\ Len(Tail(queue)) <= QueueCapacity
    BY <1>3, <1>a DEF TypeOK, Receive
  <2>2. replay' \in SUBSET Records /\ refused' \in BOOLEAN
    BY <1>3, <1>a, <2>1 DEF TypeOK, Receive, Insert
  <2>3. received' \in Seq(Records)
    BY <1>3, <1>a, <2>1 DEF TypeOK, Receive
  <2> QED
    BY <1>3, <1>a, <2>1, <2>2, <2>3 DEF TypeOK, Receive, journalVars, runVars
<1>4. CASE EndOfStream
  BY <1>4, <1>a DEF TypeOK, EndOfStream, journalVars, runVars, channelVars, replayVars
<1>5. CASE DropReceiver
  BY <1>5, <1>a DEF TypeOK, DropReceiver, journalVars, runVars, replayVars
<1>6. ASSUME NEW r \in Runs, Begin(r) \/ EmitFact(r) \/ Finish(r) PROVE TypeOK'
  <2>1. Grows(r)
    BY <1>6 DEF Begin, EmitFact, Finish, Grows, runVars
  <2>2. /\ phase' \in [Runs -> {"new", "open", "judged", "finished"}]
        /\ UNCHANGED <<verdict, root, consumer, told, received, replay, refused, synced>>
    BY <1>6, <1>a DEF TypeOK, Begin, EmitFact, Finish, runVars, consumerVars, replayVars
  <2> QED
    BY <1>a, <2>1, <2>2, EmitTypes DEF TypeOK
<1>7. ASSUME NEW r \in Runs, Judge(r) PROVE TypeOK'
  BY <1>7, <1>a DEF TypeOK, Judge, journalVars, channelVars, consumerVars, replayVars
<1>8. ASSUME NEW r \in Runs, Resync(r) PROVE TypeOK'
  <2>1. journal[r] \in Seq(Records) /\ synced[r] \in Nat /\ sequence[r] \in 0..MaxEvents
    BY <1>a DEF TypeOK
  <2>2. journal[r][Len(journal[r]) - synced[r]] \in Records
    BY <1>8, <2>1, SMTT(20) DEF Resync
  <2>3. replay' \in SUBSET Records /\ refused' \in BOOLEAN
    BY <1>8, <1>a, <2>2 DEF TypeOK, Resync, Insert
  <2>4. Len(journal[r]) <= MaxEvents
    <3>0. /\ Len(journal[r]) \in Nat /\ MaxEvents \in Nat
          /\ sequence[r] \in Nat /\ sequence[r] <= MaxEvents
      BY <2>1, CapacityAssumption
    <3>1. GapInv(r) /\ overflow[r] \in [first : Nat, last : Nat, rejected : Nat]
      BY <1>a DEF Inv, TypeOK
    <3> QED
      <4>1. CASE overflow[r] = None
        BY <2>1, <3>1, <4>1 DEF GapInv
      <4>2. CASE overflow[r] # None
        <5>1. /\ Len(journal[r]) <= overflow[r].first + 1
              /\ sequence[r] >= overflow[r].last + 1
              /\ overflow[r].first <= overflow[r].last
              /\ overflow[r].first \in Nat /\ overflow[r].last \in Nat
          BY <3>1, <4>2 DEF GapInv
        <5>2. \A kept, first, last, given, max \in Nat :
                 kept <= first + 1 /\ first <= last /\ given >= last + 1 /\ given <= max => kept <= max
          OBVIOUS
        <5> QED
          BY <3>0, <5>1, <5>2
      <4> QED
        BY <4>1, <4>2
  <2>5. synced' \in [Runs -> 0..MaxEvents]
    BY <1>8, <1>a, <2>1, <2>4 DEF TypeOK, Resync
  <2> QED
    BY <1>8, <1>a, <2>3, <2>5 DEF TypeOK, Resync, journalVars, runVars, channelVars
<1>9. ASSUME NEW i \in Roots, RegisterRoot(i) \/ DropRoot(i) PROVE TypeOK'
  <2> USE DEF TypeOK, journalVars, channelVars, consumerVars, replayVars
  <2>1. CASE RegisterRoot(i)
    BY <1>a, <2>1 DEF RegisterRoot
  <2>2. CASE DropRoot(i)
    BY <1>a, <2>2 DEF DropRoot
  <2> QED
    BY <1>9, <2>1, <2>2
<1> QED
  BY <1>1, <1>2, <1>3, <1>4, <1>5, <1>6, <1>7, <1>8, <1>9 DEF Next

-----------------------------------------------------------------------------
(* What the subscriber was sent                                            *)

Journaled(x) == \E r \in Runs : \E k \in DOMAIN journal[r] : x = journal[r][k]

JournaledNext(x) == \E r \in Runs : \E k \in DOMAIN journal'[r] : x = journal'[r][k]

\* What waits in the queue or was received is in a journal.
QueuedInv ==
  /\ \A k \in DOMAIN received : Journaled(received[k])
  /\ \A k \in DOMAIN queue : Journaled(queue[k])

NamedInv == \A r \in Runs : \A k \in DOMAIN journal[r] : journal[r][k].run = r

\* A gap is recorded once, by the publisher that gives the sender up; while there is
\* none, nothing was omitted.
SenderInv ==
  /\ closing => gap # NoGap
  /\ gap # NoGap => closing \/ ~sender
  /\ consumer # "dropped" /\ gap = NoGap => sender /\ \A r \in Runs : overflow[r] = None
  /\ consumer = "ended" =>
       /\ queue = <<>>
       /\ told <=> gap # NoGap
       /\ ~sender \/ \A r \in Runs : phase[r] = "finished"

Ordered ==
  \A j, k \in DOMAIN Stream :
    j < k /\ Stream[j].run = Stream[k].run => Stream[j].seq < Stream[k].seq

\* What was sent of a run is what was journaled until the gap.
SentInv(r) ==
  \E n \in 0..Len(journal[r]) :
    /\ OfRun(Stream, r) = First(n, r)
    /\ gap = NoGap => n = Len(journal[r])
    /\ gap # NoGap /\ gap.run = r => gap.seq = n

StreamInv ==
  /\ NamedInv
  /\ SenderInv
  /\ QueuedInv
  /\ consumer # "dropped" => Ordered /\ \A r \in Runs : SentInv(r)

\* What is known of each journal accounts for every identity.
LEMMA Accounted == Inv => GapAccounted
<1> SUFFICES ASSUME Inv, NEW r \in Runs
             PROVE  LET o == overflow[r]
                        omitted == IF o = None THEN {} ELSE o.first..o.last IN
                    /\ Numbers(journal[r]) \cup omitted = 0..(sequence[r] - 1)
                    /\ Numbers(journal[r]) \cap omitted = {}
                    /\ o.rejected = Cardinality(omitted)
                    /\ \A j, k \in DOMAIN journal[r] :
                         j < k => journal[r][j].seq < journal[r][k].seq
                    /\ Len(journal[r]) <= Capacity
  BY DEF GapAccounted
<1>1. KeptInv(r) /\ GapInv(r)
  BY DEF Inv
<1>2. /\ journal[r] \in Seq(Records) /\ sequence[r] \in Nat
      /\ overflow[r] \in [first : Nat, last : Nat, rejected : Nat]
      /\ DOMAIN journal[r] = 1..Len(journal[r]) /\ Len(journal[r]) \in Nat
  BY CapacityAssumption DEF Inv, TypeOK
<1>3. Len(journal[r]) <= Capacity
  BY <1>1, <1>2, CapacityAssumption DEF KeptInv
<1>4. CASE overflow[r] = None
  <2>0. /\ sequence[r] = Len(journal[r])
        /\ \A k \in DOMAIN journal[r] : journal[r][k].seq = k - 1
    BY <1>1, <1>4 DEF GapInv
  <2>1. Numbers(journal[r]) = 0..(sequence[r] - 1)
    <3>1. ASSUME NEW n \in 0..(sequence[r] - 1) PROVE n \in Numbers(journal[r])
      <4>1. n \in Nat /\ n + 1 \in DOMAIN journal[r]
        BY <1>2, <2>0
      <4>2. journal[r][n + 1].seq = n
        BY <2>0, <4>1
      <4> QED
        BY <4>1, <4>2 DEF Numbers
    <3>2. ASSUME NEW k \in DOMAIN journal[r] PROVE journal[r][k].seq \in 0..(sequence[r] - 1)
      BY <1>2, <2>0
    <3> QED
      BY <3>1, <3>2 DEF Numbers
  <2>2. overflow[r].rejected = Cardinality({})
    BY <1>4, FS_EmptySet DEF None
  <2>3. \A j, k \in DOMAIN journal[r] : j < k => journal[r][j].seq < journal[r][k].seq
    BY <1>2, <2>0
  <2> QED
    BY <1>3, <1>4, <2>1, <2>2, <2>3
<1>5. CASE overflow[r] # None
  <2> DEFINE first == overflow[r].first
             last == overflow[r].last
  <2>1. /\ first \in Nat /\ last \in Nat /\ first <= last
        /\ overflow[r].rejected = last - first + 1
        /\ \A k \in 1..Len(journal[r]) : k <= first => journal[r][k].seq = k - 1
    BY <1>1, <1>2, <1>5 DEF GapInv
  <2>0. /\ ~Done(r) => Len(journal[r]) = first /\ sequence[r] = last + 1
        /\ Done(r) => Len(journal[r]) = first + 1 /\ sequence[r] = last + 2
    BY <1>1, <1>2, <1>5 DEF GapInv
  <2>9. Done(r) => journal[r][first + 1].seq = last + 1
    BY <1>1, <1>2, <2>0, <2>1 DEF KeptInv
  <2> HIDE DEF first, last
  <2>2. overflow[r].rejected = Cardinality(first..last)
    BY <2>1, FS_Interval
  <2>3. ASSUME NEW n \in 0..(sequence[r] - 1) PROVE n \in Numbers(journal[r]) \cup (first..last)
    <3>1. CASE n < first
      <4>1. n + 1 \in DOMAIN journal[r] /\ journal[r][n + 1].seq = n
        <5>1. n \in Nat /\ n + 1 \in 1..Len(journal[r]) /\ n + 1 <= first
          BY <1>2, <2>0, <2>1, <3>1
        <5>2. journal[r][n + 1].seq = (n + 1) - 1
          BY <2>1, <5>1
        <5> QED
          BY <1>2, <5>1, <5>2
      <4> QED
        BY <4>1 DEF Numbers
    <3>2. CASE n = last + 1
      <4>1. first + 1 \in DOMAIN journal[r] /\ journal[r][first + 1].seq = n
        BY <1>2, <2>0, <2>1, <2>9, <3>2
      <4> QED
        BY <4>1 DEF Numbers
    <3> QED
      BY <1>2, <2>0, <2>1, <3>1, <3>2
  <2>4. ASSUME NEW k \in DOMAIN journal[r]
        PROVE  /\ journal[r][k].seq \in 0..(sequence[r] - 1)
               /\ journal[r][k].seq \notin first..last
    <3>1. CASE k <= first
      <4>1. k \in 1..Len(journal[r]) /\ journal[r][k].seq = k - 1
        BY <1>2, <2>1, <3>1
      <4>2. sequence[r] \in Nat /\ first < sequence[r]
        BY <1>2, <2>0, <2>1
      <4> QED
        BY <2>1, <3>1, <4>1, <4>2
    <3>2. CASE ~(k <= first)
      <4>1. k = first + 1 /\ Done(r)
        BY <1>2, <2>0, <2>1, <3>2
      <4> QED
        BY <1>2, <2>0, <2>1, <2>9, <4>1
    <3> QED
      BY <3>1, <3>2
  <2>5. \A n \in first..last : n \in 0..(sequence[r] - 1)
    BY <2>0, <2>1
  <2>6. ASSUME NEW j \in DOMAIN journal[r], NEW k \in DOMAIN journal[r], j < k
        PROVE  journal[r][j].seq < journal[r][k].seq
    <3>0. j \in 1..Len(journal[r]) /\ k \in 1..Len(journal[r]) /\ Len(journal[r]) <= first + 1
      BY <1>2, <2>0, <2>1
    <3>1. j <= first /\ journal[r][j].seq = j - 1
      <4>1. j <= first
        BY <1>2, <2>1, <2>6, <3>0
      <4> QED
        BY <2>1, <3>0, <4>1
    <3>2. CASE k <= first
      BY <1>2, <2>1, <2>6, <3>1, <3>2
    <3>3. CASE ~(k <= first)
      <4>1. k = first + 1 /\ Done(r)
        BY <1>2, <2>0, <2>1, <3>3
      <4> QED
        BY <1>2, <2>1, <2>9, <3>1, <4>1
    <3> QED
      BY <3>2, <3>3
  <2>7. /\ Numbers(journal[r]) \cup (first..last) = 0..(sequence[r] - 1)
        /\ Numbers(journal[r]) \cap (first..last) = {}
    BY <2>3, <2>4, <2>5 DEF Numbers
  <2> QED
    BY <1>3, <1>5, <2>2, <2>6, <2>7 DEF first, last
<1> QED
  BY <1>4, <1>5

\* An event is journaled or not, and sent, or not, or it opens the gap.
LEMMA Sends ==
  ASSUME Inv, StreamInv, NEW r \in Runs, Grows(r), UNCHANGED <<consumer, told, received>>
  PROVE  LET rec(kind) == Record(r, sequence[r], kind) IN
         /\ ~closing /\ phase[r] # "finished"
         /\ \A q \in Runs : q # r => journal'[q] = journal[q] /\ overflow'[q] = overflow[q]
         /\ \/ /\ UNCHANGED <<queue, gap, closing>>
               /\ consumer = "dropped" \/ gap # NoGap
               /\ sender' = sender \/ consumer = "dropped"
               /\ \/ journal'[r] = journal[r]
                  \/ \E kind \in Kinds : journal'[r] = Append(journal[r], rec(kind))
            \/ /\ gap = NoGap /\ gap' # NoGap /\ gap'.run = r /\ gap'.seq = sequence[r]
               /\ closing' /\ UNCHANGED <<queue, sender>>
               /\ \/ journal'[r] = journal[r]
                  \/ \E kind \in Kinds : journal'[r] = Append(journal[r], rec(kind))
            \/ /\ UNCHANGED <<gap, closing, sender>> /\ sender /\ consumer # "dropped" /\ gap = NoGap
               /\ overflow'[r] = overflow[r]
               /\ \E kind \in Kinds : /\ journal'[r] = Append(journal[r], rec(kind))
                                      /\ queue' = Append(queue, rec(kind))
<1> DEFINE rec(kind) == Record(r, sequence[r], kind)
<1>a. TypeOK /\ KeptInv(r) /\ SenderInv
  BY DEF Inv, StreamInv
<1>1. PICK kind \in Kinds : Emit(r, kind)
  BY DEF Grows, Kinds
<1>2. ~closing /\ phase[r] # "finished"
  BY <1>1 DEF Emit, Grows, Publishing
<1>3. \A q \in Runs : q # r => journal'[q] = journal[q] /\ overflow'[q] = overflow[q]
  BY <1>a, Growth
<1>4. gap # NoGap => ~sender
  BY <1>a, <1>2 DEF SenderInv
<1>5. CASE kind # "RunFinished" /\ Full(r)
  <2>1. /\ journal' = journal
        /\ overflow[r] = None => JournalFailed(r, sequence[r])
        /\ overflow[r] # None => UNCHANGED channelVars
    BY <1>1, <1>5 DEF Emit, Omitted
  <2>2. CASE overflow[r] # None
    <3>1. consumer = "dropped" \/ gap # NoGap
      BY <1>a, <2>2 DEF SenderInv
    <3> QED
      BY <1>2, <1>3, <2>1, <2>2, <3>1 DEF channelVars
  <2>3. CASE overflow[r] = None /\ ~sender
    <3>1. consumer = "dropped" \/ gap # NoGap
      BY <1>a, <2>3 DEF SenderInv
    <3> QED
      BY <1>2, <1>3, <2>1, <2>3, <3>1 DEF channelVars, JournalFailed
  <2>4. CASE overflow[r] = None /\ sender
    <3>1. GiveUp(Gap("JournalCapacity", r, sequence[r]))
      BY <2>1, <2>4 DEF JournalFailed
    <3>2. /\ gap' # NoGap /\ gap'.run = r /\ gap'.seq = sequence[r]
          /\ closing' /\ UNCHANGED <<queue, sender>>
      BY <3>1 DEF GiveUp, Gap, NoGap
    <3> QED
      BY <1>2, <1>3, <1>4, <2>1, <2>4, <3>2
  <2> QED
    BY <2>2, <2>3, <2>4
<1>6. CASE ~(kind # "RunFinished" /\ Full(r))
  <2>1. Retained(r, kind) /\ Publish(rec(kind))
    BY <1>1, <1>6 DEF Emit
  <2>2. journal'[r] = Append(journal[r], rec(kind)) /\ overflow' = overflow
    BY <1>a, <2>1 DEF Retained, TypeOK
  <2>3. CASE ~sender
    <3>1. UNCHANGED channelVars
      BY <2>1, <2>3 DEF Publish
    <3>2. consumer = "dropped" \/ gap # NoGap
      BY <1>a, <2>3 DEF SenderInv
    <3> QED
      BY <1>2, <1>3, <2>2, <3>1, <3>2 DEF channelVars
  <2>4. CASE sender /\ consumer = "dropped"
    <3>1. UNCHANGED <<queue, closing, gap>>
      BY <2>1, <2>4 DEF Publish
    <3> QED
      BY <1>2, <1>3, <2>2, <2>4, <3>1
  <2>5. CASE sender /\ consumer # "dropped"
    <3>0. Len(queue) \in Nat /\ QueueCapacity \in Nat
      BY <1>a, CapacityAssumption DEF TypeOK
    <3>1. \/ queue' = Append(queue, rec(kind)) /\ UNCHANGED <<sender, closing, gap>>
          \/ GiveUp(Gap("SubscriberCapacity", rec(kind).run, rec(kind).seq))
      BY <2>1, <2>5 DEF Publish
    <3>2. CASE queue' = Append(queue, rec(kind)) /\ UNCHANGED <<sender, closing, gap>>
      BY <1>2, <1>3, <1>4, <2>2, <2>5, <3>2
    <3>3. CASE GiveUp(Gap("SubscriberCapacity", rec(kind).run, rec(kind).seq))
      <4>1. /\ gap' # NoGap /\ gap'.run = r /\ gap'.seq = sequence[r]
            /\ closing' /\ UNCHANGED <<queue, sender>>
        BY <3>3 DEF GiveUp, Gap, NoGap, Record
      <4> QED
        BY <1>2, <1>3, <1>4, <2>2, <2>5, <4>1
    <3> QED
      BY <3>1, <3>2, <3>3
  <2> QED
    BY <2>3, <2>4, <2>5
<1> QED
  BY <1>5, <1>6

\* A step sends, is one of the subscriber's or leaves the streams as they are.
LEMMA StreamSteps ==
  ASSUME [Next]_vars
  PROVE  \/ \E r \in Runs : Grows(r) /\ UNCHANGED consumerVars
         \/ CloseSender \/ Receive \/ EndOfStream \/ DropReceiver
         \/ \E r \in Runs : Resync(r)
         \/ /\ UNCHANGED <<journalVars, channelVars, consumerVars>>
            /\ phase' = phase \/ \E r \in Runs : Judge(r)
BY DEF Next, vars, Begin, EmitFact, Judge, Finish, RegisterRoot, DropRoot, Grows, runVars

\* The journals grow, each by records of its run.
LEMMA JournalGrows ==
  ASSUME Inv, StreamInv, [Next]_vars, NEW r \in Runs
  PROVE  /\ Len(journal[r]) \in Nat /\ Len(journal'[r]) \in Nat /\ Len(journal[r]) <= Len(journal'[r])
         /\ DOMAIN journal[r] = 1..Len(journal[r]) /\ DOMAIN journal'[r] = 1..Len(journal'[r])
         /\ \A k \in 1..Len(journal[r]) : journal'[r][k] = journal[r][k]
         /\ \A k \in 1..Len(journal'[r]) : journal'[r][k].run = r
<1>a. TypeOK /\ NamedInv
  BY DEF Inv, StreamInv
<1>b. journal[r] \in Seq(Records) /\ \A k \in 1..Len(journal[r]) : journal[r][k].run = r
  BY <1>a DEF TypeOK, NamedInv
<1>1. CASE journal'[r] = journal[r]
  BY <1>1, <1>b
<1>2. CASE \E kind \in Kinds : journal'[r] = Append(journal[r], Record(r, sequence[r], kind))
  <2>1. PICK x : journal'[r] = Append(journal[r], x) /\ x.run = r /\ x \in Records
    <3>1. PICK kind \in Kinds : journal'[r] = Append(journal[r], Record(r, sequence[r], kind))
      BY <1>2
    <3>2. Record(r, sequence[r], kind) \in Records /\ Record(r, sequence[r], kind).run = r
      BY <1>a, CapacityAssumption DEF Record, Records, TypeOK
    <3> QED
      BY <3>1, <3>2
  <2>2. /\ Len(journal'[r]) = Len(journal[r]) + 1 /\ DOMAIN journal'[r] = 1..(Len(journal[r]) + 1)
        /\ \A k \in 1..Len(journal[r]) : journal'[r][k] = journal[r][k]
        /\ journal'[r][Len(journal[r]) + 1] = x
    BY <1>b, <2>1
  <2> QED
    BY <1>b, <2>1, <2>2
<1>3. CASE \E q \in Runs : Grows(q) /\ UNCHANGED consumerVars
  <2>1. PICK q \in Runs : Grows(q) /\ UNCHANGED consumerVars
    BY <1>3
  <2>2. UNCHANGED <<consumer, told, received>>
    BY <2>1 DEF consumerVars
  <2>3. \/ journal'[r] = journal[r]
        \/ \E kind \in Kinds : journal'[r] = Append(journal[r], Record(r, sequence[r], kind))
    BY <2>1, <2>2, Sends
  <2> QED
    BY <1>1, <1>2, <2>3
<1> QED
  BY <1>1, <1>3, StreamSteps DEF CloseSender, Receive, EndOfStream, DropReceiver, Resync, journalVars

LEMMA SenderStep ==
  ASSUME Inv, StreamInv, [Next]_vars
  PROVE  SenderInv'
<1>a. TypeOK /\ SenderInv
  BY DEF Inv, StreamInv
<1>1. ASSUME NEW r \in Runs, Grows(r), UNCHANGED consumerVars PROVE SenderInv'
  <2>1. UNCHANGED <<consumer, told, received>>
    BY <1>1 DEF consumerVars
  <2>2. consumer = "ended" => ~sender
    <3>1. phase[r] # "finished"
      BY <1>1, <2>1, Sends
    <3> QED
      BY <1>a, <3>1 DEF SenderInv
  <2>3. /\ ~closing
        /\ \A q \in Runs : q # r => overflow'[q] = overflow[q]
        /\ \/ /\ UNCHANGED <<queue, gap, closing>>
              /\ consumer = "dropped" \/ gap # NoGap
              /\ sender' = sender \/ consumer = "dropped"
           \/ /\ gap = NoGap /\ gap' # NoGap /\ closing' /\ UNCHANGED <<queue, sender>>
           \/ /\ UNCHANGED <<gap, closing, sender>> /\ sender /\ consumer # "dropped" /\ gap = NoGap
              /\ overflow'[r] = overflow[r]
    BY <1>1, <2>1, Sends
  <2>4. CASE /\ UNCHANGED <<queue, gap, closing>>
             /\ consumer = "dropped" \/ gap # NoGap
             /\ sender' = sender \/ consumer = "dropped"
    <3>1. gap # NoGap => ~sender
      BY <1>a, <2>3 DEF SenderInv
    <3>2. sender' \in BOOLEAN /\ (~sender => ~sender')
      <4>1. ~sender => UNCHANGED channelVars
        <5>1. PICK kind \in Kinds : Emit(r, kind)
          BY <1>1 DEF Grows, Kinds
        <5> QED
          BY <5>1 DEF Emit, Publish, JournalFailed
      <4> QED
        BY <1>1, <1>a, <4>1, EmitTypes DEF Inv, channelVars
    <3> QED
      BY <1>a, <2>1, <2>2, <2>4, <3>1, <3>2 DEF SenderInv
  <2>5. CASE gap = NoGap /\ gap' # NoGap /\ closing' /\ UNCHANGED <<queue, sender>>
    <3>1. consumer # "ended"
      BY <1>a, <2>2, <2>5 DEF SenderInv
    <3> QED
      BY <2>1, <2>5, <3>1 DEF SenderInv
  <2>6. CASE /\ UNCHANGED <<gap, closing, sender>> /\ sender /\ consumer # "dropped" /\ gap = NoGap
             /\ overflow'[r] = overflow[r]
    <3>1. consumer # "ended"
      BY <2>2, <2>6
    <3> QED
      BY <1>a, <2>1, <2>3, <2>6, <3>1 DEF SenderInv
  <2> QED
    BY <2>3, <2>4, <2>5, <2>6
<1>2. CASE CloseSender
  BY <1>2, <1>a DEF CloseSender, SenderInv, journalVars, runVars, consumerVars
<1>3. CASE Receive
  BY <1>3, <1>a DEF Receive, SenderInv, journalVars, runVars
<1>4. CASE EndOfStream
  BY <1>4, <1>a DEF EndOfStream, SendersGone, SenderInv, journalVars, runVars, channelVars
<1>5. CASE DropReceiver
  BY <1>5, <1>a DEF DropReceiver, SenderInv, journalVars, runVars
<1>6. CASE \E r \in Runs : Resync(r)
  BY <1>6, <1>a DEF Resync, SenderInv, journalVars, runVars, channelVars
<1>7. CASE /\ UNCHANGED <<journalVars, channelVars, consumerVars>>
           /\ phase' = phase \/ \E r \in Runs : Judge(r)
  <2>1. \A r \in Runs : phase[r] = "finished" => phase'[r] = "finished"
    BY <1>7, <1>a DEF Judge, TypeOK
  <2> QED
    BY <1>7, <1>a, <2>1 DEF SenderInv, journalVars, channelVars, consumerVars
<1> QED
  BY <1>1, <1>2, <1>3, <1>4, <1>5, <1>6, <1>7, StreamSteps

LEMMA JournaledStep ==
  ASSUME Inv, StreamInv, [Next]_vars
  PROVE  QueuedInv'
<1>a. /\ TypeOK
      /\ \A k \in DOMAIN received : Journaled(received[k])
      /\ \A k \in DOMAIN queue : Journaled(queue[k])
  BY DEF Inv, StreamInv, QueuedInv
<1> SUFFICES /\ \A k \in DOMAIN received' : JournaledNext(received'[k])
             /\ \A k \in DOMAIN queue' : JournaledNext(queue'[k])
  BY DEF QueuedInv, Journaled, JournaledNext
<1>b. queue \in Seq(Records) /\ received \in Seq(Records)
  BY <1>a DEF TypeOK
<1>c. ASSUME NEW x, Journaled(x) PROVE JournaledNext(x)
  <2>0. PICK r \in Runs : \E k \in DOMAIN journal[r] : x = journal[r][k]
    BY <1>c DEF Journaled
  <2>1. PICK k \in DOMAIN journal[r] : x = journal[r][k]
    BY <2>0
  <2>2. k \in DOMAIN journal'[r] /\ x = journal'[r][k]
    BY <2>1, JournalGrows
  <2> QED
    BY <2>2 DEF JournaledNext
<1>1. ASSUME NEW r \in Runs, Grows(r), UNCHANGED consumerVars
      PROVE  /\ received' = received
             /\ \A k \in DOMAIN queue' : JournaledNext(queue'[k])
  <2>1. UNCHANGED <<consumer, told, received>>
    BY <1>1 DEF consumerVars
  <2>2. \/ queue' = queue
        \/ \E kind \in Kinds : /\ journal'[r] = Append(journal[r], Record(r, sequence[r], kind))
                               /\ queue' = Append(queue, Record(r, sequence[r], kind))
    BY <1>1, <2>1, Sends
  <2>3. CASE queue' = queue
    BY <1>a, <1>c, <2>1, <2>3
  <2>4. ASSUME NEW kind \in Kinds,
               journal'[r] = Append(journal[r], Record(r, sequence[r], kind)),
               queue' = Append(queue, Record(r, sequence[r], kind))
        PROVE  \A k \in DOMAIN queue' : JournaledNext(queue'[k])
    <3> DEFINE x == Record(r, sequence[r], kind)
    <3>1. Len(journal[r]) + 1 \in DOMAIN journal'[r] /\ journal'[r][Len(journal[r]) + 1] = x
      BY <1>a, <2>4 DEF TypeOK
    <3>2. JournaledNext(x)
      BY <3>1 DEF JournaledNext
    <3> HIDE DEF x
    <3>3. \A k \in DOMAIN queue' : queue'[k] = x \/ (k \in DOMAIN queue /\ queue'[k] = queue[k])
      BY <1>b, <2>4 DEF x
    <3> QED
      BY <1>a, <1>c, <3>2, <3>3
  <2> QED
    BY <2>1, <2>2, <2>3, <2>4
<1>2. CASE Receive
  <2>1. /\ \A k \in DOMAIN queue' : k + 1 \in DOMAIN queue /\ queue'[k] = queue[k + 1]
        /\ Head(queue) = queue[1] /\ 1 \in DOMAIN queue
        /\ \A k \in DOMAIN received' :
             received'[k] = Head(queue) \/ (k \in DOMAIN received /\ received'[k] = received[k])
    BY <1>2, <1>b DEF Receive
  <2> QED
    BY <1>a, <1>c, <2>1
<1>3. CASE received' = received /\ (queue' = queue \/ queue' = <<>>)
  BY <1>a, <1>c, <1>3
<1>4. CASE CloseSender \/ EndOfStream \/ DropReceiver \/ \E r \in Runs : Resync(r)
  BY <1>3, <1>4 DEF CloseSender, EndOfStream, DropReceiver, Resync, consumerVars, channelVars
<1>5. CASE UNCHANGED <<journalVars, channelVars, consumerVars>>
  BY <1>3, <1>5 DEF consumerVars, channelVars
<1> QED
  BY <1>1, <1>2, <1>4, <1>5, <1>a, <1>c, StreamSteps

\* The stream of the subscriber gets one record or stays what it is.
LEMMA StreamGrows ==
  ASSUME Inv, StreamInv, [Next]_vars, consumer' # "dropped"
  PROVE  /\ consumer # "dropped"
         /\ \/ /\ Stream' = Stream /\ gap' = gap
               /\ gap = NoGap => UNCHANGED journal
            \/ /\ Stream' = Stream /\ gap = NoGap /\ gap' # NoGap
               /\ gap'.run \in Runs /\ gap'.seq = Len(journal[gap'.run])
            \/ \E r \in Runs, kind \in Kinds :
                 LET x == Record(r, sequence[r], kind) IN
                 /\ gap = NoGap /\ gap' = NoGap /\ Stream' = Append(Stream, x)
                 /\ journal'[r] = Append(journal[r], x)
                 /\ \A q \in Runs : q # r => journal'[q] = journal[q]
<1>a. TypeOK /\ SenderInv /\ \A r \in Runs : GapInv(r)
  BY DEF Inv, StreamInv
<1>b. queue \in Seq(Records) /\ received \in Seq(Records)
  BY <1>a DEF TypeOK
<1>1. ASSUME NEW r \in Runs, Grows(r), UNCHANGED consumerVars, consumer # "dropped"
      PROVE  \/ /\ Stream' = Stream /\ gap' = gap
                /\ gap = NoGap => UNCHANGED journal
             \/ /\ Stream' = Stream /\ gap = NoGap /\ gap' # NoGap
                /\ gap'.run \in Runs /\ gap'.seq = Len(journal[gap'.run])
             \/ \E kind \in Kinds :
                  LET x == Record(r, sequence[r], kind) IN
                  /\ gap = NoGap /\ gap' = NoGap /\ Stream' = Append(Stream, x)
                  /\ journal'[r] = Append(journal[r], x)
                  /\ \A q \in Runs : q # r => journal'[q] = journal[q]
  <2>1. UNCHANGED <<consumer, told, received>>
    BY <1>1 DEF consumerVars
  <2>2. \A q \in Runs : q # r => journal'[q] = journal[q]
    BY <1>1, <2>1, Sends
  <2>3. \/ UNCHANGED <<queue, gap>> /\ gap # NoGap
        \/ gap = NoGap /\ gap' # NoGap /\ gap'.run = r /\ gap'.seq = sequence[r] /\ UNCHANGED queue
        \/ /\ UNCHANGED gap /\ gap = NoGap
           /\ \E kind \in Kinds : /\ journal'[r] = Append(journal[r], Record(r, sequence[r], kind))
                                  /\ queue' = Append(queue, Record(r, sequence[r], kind))
    BY <1>1, <2>1, Sends
  <2>4. CASE UNCHANGED <<queue, gap>> /\ gap # NoGap
    BY <2>1, <2>4 DEF Stream
  <2>5. CASE gap = NoGap /\ gap' # NoGap /\ gap'.run = r /\ gap'.seq = sequence[r] /\ UNCHANGED queue
    <3>1. sequence[r] = Len(journal[r])
      BY <1>a, <1>1, <2>5 DEF SenderInv, GapInv
    <3> QED
      BY <2>1, <2>5, <3>1 DEF Stream
  <2>6. ASSUME NEW kind \in Kinds, UNCHANGED gap, gap = NoGap,
               journal'[r] = Append(journal[r], Record(r, sequence[r], kind)),
               queue' = Append(queue, Record(r, sequence[r], kind))
        PROVE  Stream' = Append(Stream, Record(r, sequence[r], kind))
    <3>1. Record(r, sequence[r], kind) \in Records
      BY <1>a, CapacityAssumption DEF Record, Records, TypeOK
    <3> HIDE DEF Record
    <3> QED
      BY <1>b, <2>1, <2>6, <3>1 DEF Stream
  <2> QED
    BY <2>2, <2>3, <2>4, <2>5, <2>6
<1>2. CASE Receive
  <2>1. /\ queue # <<>> /\ queue' = Tail(queue) /\ received' = Append(received, Head(queue))
        /\ UNCHANGED <<gap, journal, consumer>>
    BY <1>2 DEF Receive, journalVars
  <2>2. Append(received, Head(queue)) \o Tail(queue) = received \o queue
    BY <1>b, <2>1
  <2> QED
    BY <2>1, <2>2 DEF Stream
<1>3. CASE \/ CloseSender \/ EndOfStream \/ \E r \in Runs : Resync(r)
           \/ UNCHANGED <<journalVars, channelVars, consumerVars>>
  <2>1. UNCHANGED <<queue, received, gap, journal>> /\ (consumer = "dropped" => consumer' = "dropped")
    BY <1>3 DEF CloseSender, EndOfStream, Resync, journalVars, channelVars, consumerVars
  <2> QED
    BY <2>1 DEF Stream
<1>4. CASE \E r \in Runs : Grows(r) /\ UNCHANGED consumerVars
  <2>1. consumer' = consumer
    BY <1>4 DEF consumerVars
  <2> QED
    BY <1>1, <1>4, <2>1
<1>5. CASE DropReceiver
  BY <1>5 DEF DropReceiver
<1> QED
  BY <1>2, <1>3, <1>4, <1>5, StreamSteps

\* A record more of run r, in a stream.
LEMMA OfRunGrows ==
  ASSUME NEW s \in Seq(Records), NEW x \in Records, NEW r
  PROVE  OfRun(Append(s, x), r) = IF x.run = r THEN OfRun(s, r) \cup {x} ELSE OfRun(s, r)
<1> DEFINE t == Append(s, x)
<1>1. /\ DOMAIN t = DOMAIN s \cup {Len(s) + 1} /\ t[Len(s) + 1] = x
      /\ \A k \in DOMAIN s : t[k] = s[k]
  OBVIOUS
<1> HIDE DEF t
<1>2. OfRun(t, r) = IF x.run = r THEN OfRun(s, r) \cup {x} ELSE OfRun(s, r)
  BY <1>1 DEF OfRun
<1> QED
  BY <1>2 DEF t

LEMMA FirstStays ==
  ASSUME Inv, StreamInv, [Next]_vars, NEW r \in Runs, NEW n \in 0..Len(journal[r])
  PROVE  First(n, r)' = First(n, r) /\ n \in 0..Len(journal'[r])
<1>1. /\ Len(journal[r]) \in Nat /\ Len(journal'[r]) \in Nat /\ Len(journal[r]) <= Len(journal'[r])
      /\ \A k \in 1..Len(journal[r]) : journal'[r][k] = journal[r][k]
  BY JournalGrows
<1>2. \A k \in 1..n : journal'[r][k] = journal[r][k]
  BY <1>1
<1> QED
  BY <1>1, <1>2 DEF First

\* What was sent stays the first part of each journal.
LEMMA SentStep ==
  ASSUME Inv, StreamInv, [Next]_vars, consumer' # "dropped"
  PROVE  Ordered' /\ \A r \in Runs : SentInv(r)'
<1>a. /\ TypeOK /\ SenderInv /\ \A r \in Runs : GapInv(r)
      /\ consumer # "dropped" /\ Ordered /\ \A r \in Runs : SentInv(r)
  BY StreamGrows DEF Inv, StreamInv
<1>b. \A r \in Runs : journal[r] \in Seq(Records) /\ Len(journal[r]) \in Nat
  BY <1>a DEF TypeOK
<1>c. Stream \in Seq(Records)
  BY <1>a DEF TypeOK, Stream
<1>1. ASSUME Stream' = Stream, gap' = gap, gap = NoGap => UNCHANGED journal
      PROVE  Ordered' /\ \A r \in Runs : SentInv(r)'
  <2>1. Ordered'
    BY <1>1, <1>a DEF Ordered
  <2>2. ASSUME NEW r \in Runs PROVE SentInv(r)'
    <3>1. PICK n \in 0..Len(journal[r]) :
            /\ OfRun(Stream, r) = First(n, r)
            /\ gap = NoGap => n = Len(journal[r])
            /\ gap # NoGap /\ gap.run = r => gap.seq = n
      BY <1>a DEF SentInv
    <3>2. First(n, r)' = First(n, r) /\ n \in 0..Len(journal'[r])
      BY FirstStays
    <3>3. OfRun(Stream, r)' = First(n, r)'
      BY <1>1, <3>1, <3>2
    <3> QED
      BY <1>1, <3>1, <3>2, <3>3 DEF SentInv
  <2> QED
    BY <2>1, <2>2
<1>2. ASSUME Stream' = Stream, gap = NoGap, gap' # NoGap,
             gap'.run \in Runs, gap'.seq = Len(journal[gap'.run])
      PROVE  Ordered' /\ \A r \in Runs : SentInv(r)'
  <2>1. Ordered'
    BY <1>2, <1>a DEF Ordered
  <2>2. ASSUME NEW r \in Runs PROVE SentInv(r)'
    <3>0. PICK n \in 0..Len(journal[r]) : n = Len(journal[r])
      BY <1>b
    <3>1. OfRun(Stream, r) = First(n, r)
      BY <1>a, <1>b, <1>2, <3>0 DEF SentInv
    <3>2. First(n, r)' = First(n, r) /\ n \in 0..Len(journal'[r])
      BY FirstStays
    <3> QED
      BY <1>2, <3>0, <3>1, <3>2 DEF SentInv
  <2> QED
    BY <2>1, <2>2
<1>3. ASSUME NEW r \in Runs, NEW kind \in Kinds, NEW x, x = Record(r, sequence[r], kind),
             gap = NoGap, gap' = NoGap, Stream' = Append(Stream, x),
             journal'[r] = Append(journal[r], x),
             \A q \in Runs : q # r => journal'[q] = journal[q]
      PROVE  Ordered' /\ \A q \in Runs : SentInv(q)'
  <2>1. x \in Records /\ x.run = r /\ x.seq = sequence[r]
    BY <1>3, <1>a, CapacityAssumption DEF Record, Records, TypeOK
  <2>2. \A q \in Runs : OfRun(Stream, q) = First(Len(journal[q]), q)
    BY <1>a, <1>3 DEF SentInv
  <2>3. /\ sequence[r] = Len(journal[r])
        /\ \A k \in 1..Len(journal[r]) : journal[r][k].seq = k - 1
    <3>1. overflow[r] = None
      BY <1>a, <1>3 DEF SenderInv
    <3> QED
      BY <1>a, <1>b, <3>1 DEF GapInv
  <2>4. ASSUME NEW j \in DOMAIN Stream, Stream[j].run = r PROVE Stream[j].seq < x.seq
    <3>1. Stream[j] \in First(Len(journal[r]), r)
      BY <2>2, <2>4 DEF OfRun
    <3>2. PICK k \in 1..Len(journal[r]) : Stream[j] = journal[r][k]
      BY <3>1 DEF First
    <3> QED
      BY <1>b, <2>1, <2>3, <3>2
  <2>5. Ordered'
    <3> DEFINE t == Stream'
    <3>1. /\ DOMAIN t = 1..(Len(Stream) + 1) /\ DOMAIN Stream = 1..Len(Stream) /\ Len(Stream) \in Nat
          /\ t[Len(Stream) + 1] = x
          /\ \A k \in DOMAIN Stream : t[k] = Stream[k]
      BY <1>c, <1>3, <2>1
    <3> SUFFICES ASSUME NEW j \in DOMAIN t, NEW k \in DOMAIN t, j < k, t[j].run = t[k].run
                 PROVE  t[j].seq < t[k].seq
      BY DEF Ordered
    <3>2. j \in DOMAIN Stream /\ t[j] = Stream[j]
      BY <3>1
    <3>3. CASE k = Len(Stream) + 1
      BY <2>1, <2>4, <3>1, <3>2, <3>3
    <3>4. CASE k # Len(Stream) + 1
      <4>1. k \in DOMAIN Stream /\ t[k] = Stream[k]
        <5>1. k \in 1..Len(Stream)
          BY <3>1, <3>4
        <5> QED
          BY <3>1, <5>1
      <4> QED
        BY <1>a, <3>2, <4>1 DEF Ordered
    <3> QED
      BY <3>3, <3>4
  <2>6. ASSUME NEW q \in Runs, q # r PROVE SentInv(q)'
    <3>0. PICK n \in Nat : n = Len(journal[q])
      BY <1>b
    <3>1. OfRun(Stream', q) = OfRun(Stream, q)
      BY <1>c, <1>3, <2>1, <2>6, OfRunGrows
    <3>2. First(n, q)' = First(n, q) /\ n \in 0..Len(journal'[q]) /\ n = Len(journal'[q])
      BY <1>b, <1>3, <2>6, <3>0 DEF First
    <3>3. OfRun(Stream, q)' = First(n, q)'
      BY <2>2, <3>0, <3>1, <3>2
    <3> QED
      BY <1>3, <3>2, <3>3 DEF SentInv
  <2>7. SentInv(r)'
    <3>0. PICK n \in Nat : n = Len(journal[r])
      BY <1>b
    <3>1. /\ Len(journal'[r]) = n + 1 /\ n \in Nat
          /\ journal'[r][n + 1] = x
          /\ \A k \in 1..n : journal'[r][k] = journal[r][k]
      BY <1>b, <1>3, <2>1, <3>0
    <3>2. First(n + 1, r)' = First(n, r) \cup {x}
      <4>1. 1..(n + 1) = (1..n) \cup {n + 1}
        BY <3>1
      <4> QED
        BY <3>1, <4>1 DEF First
    <3>3. OfRun(Stream', r) = OfRun(Stream, r) \cup {x}
      BY <1>c, <1>3, <2>1, OfRunGrows
    <3>4. OfRun(Stream, r)' = First(n + 1, r)' /\ n + 1 \in 0..Len(journal'[r])
      BY <2>2, <3>0, <3>1, <3>2, <3>3
    <3> QED
      BY <1>3, <3>1, <3>4 DEF SentInv
  <2> QED
    BY <2>5, <2>6, <2>7
<1> QED
  BY <1>1, <1>2, <1>3, StreamGrows

LEMMA StreamStep ==
  ASSUME Inv, StreamInv, [Next]_vars
  PROVE  StreamInv'
<1>1. NamedInv'
  BY JournalGrows DEF NamedInv
<1> QED
  BY <1>1, SenderStep, JournaledStep, SentStep DEF StreamInv

-----------------------------------------------------------------------------
(* The replay index                                                        *)

\* A result is replayed when its run is finished; the index holds what it was given
\* until that is more than it can hold.
IndexInv ==
  /\ \A r \in Runs : synced[r] > 0 => phase[r] = "finished"
  /\ replay \subseteq Offered
  /\ ~refused => replay = Offered
  /\ refused => Cardinality(Offered) > ReplayCapacity

LEMMA FiniteRecords == IsFiniteSet(Records)
<1> DEFINE T == Runs \X ((0..MaxEvents) \X Kinds)
           f == [x \in T |-> [run |-> x[1], seq |-> x[2][1], kind |-> x[2][2]]]
<1>1. IsFiniteSet(0..MaxEvents)
  BY CapacityAssumption, FS_Interval
<1>2. IsFiniteSet(Kinds)
  <2>1. Kinds = ({"RunStarted"} \cup {"Fact"}) \cup {"RunFinished"}
    BY DEF Kinds
  <2> QED
    BY <2>1, FS_Singleton, FS_AddElement
<1>3. IsFiniteSet(T)
  BY <1>1, <1>2, RunsAssumption, FS_Product
<1>4. f \in Surjection(T, Records)
  <2>1. ASSUME NEW x \in T PROVE f[x] \in Records
    BY DEF Records
  <2>2. ASSUME NEW y \in Records PROVE \E x \in T : f[x] = y
    <3>1. <<y.run, <<y.seq, y.kind>>>> \in T
      BY DEF Records
    <3>2. f[<<y.run, <<y.seq, y.kind>>>>] = y
      BY <3>1 DEF Records
    <3> QED
      BY <3>1, <3>2
  <2>3. f \in [T -> Records]
    BY <2>1
  <2> HIDE DEF f, T
  <2> QED
    BY <2>2, <2>3 DEF Surjection
<1> QED
  BY <1>3, <1>4, FS_Surjection

\* The consumer gives its index records of the journals, finitely many.
LEMMA OfferedJournaled ==
  ASSUME Inv, StreamInv
  PROVE  /\ \A x \in Offered : Journaled(x)
         /\ IsFiniteSet(Offered)
<1>1. ASSUME NEW x \in Offered PROVE Journaled(x)
  <2>1. CASE \E k \in DOMAIN received : x = received[k]
    BY <2>1 DEF StreamInv, QueuedInv
  <2>2. ASSUME NEW r \in Runs, x \in Replayed(r) PROVE Journaled(x)
    <3>1. PICK k \in (Len(journal[r]) - synced[r] + 1)..Len(journal[r]) : x = journal[r][k]
      BY <2>2 DEF Replayed
    <3>2. journal[r] \in Seq(Records) /\ synced[r] \in Nat /\ synced[r] <= Len(journal[r])
      BY CapacityAssumption DEF Inv, TypeOK, SyncInv
    <3>3. k \in 1..Len(journal[r])
      BY <3>2
    <3> QED
      BY <3>1, <3>2, <3>3 DEF Journaled
  <2> QED
    BY <2>1, <2>2 DEF Offered
<1>2. ASSUME NEW x, Journaled(x) PROVE x \in Records
  BY <1>2 DEF Inv, TypeOK, Journaled
<1> QED
  BY <1>1, <1>2, FiniteRecords, FS_Subset

\* A run and a sequence number identify a record.
LEMMA Identity ==
  ASSUME Inv, StreamInv, NEW x, NEW y, Journaled(x), Journaled(y), x.run = y.run, x.seq = y.seq
  PROVE  x = y
<1>1. PICK r \in Runs : \E k \in DOMAIN journal[r] : x = journal[r][k]
  BY DEF Journaled
<1>2. PICK j \in DOMAIN journal[r] : x = journal[r][j]
  BY <1>1
<1>3. PICK q \in Runs : \E k \in DOMAIN journal[q] : y = journal[q][k]
  BY DEF Journaled
<1>4. PICK k \in DOMAIN journal[q] : y = journal[q][k]
  BY <1>3
<1>5. q = r
  BY <1>2, <1>4 DEF StreamInv, NamedInv
<1>6. \A i, l \in DOMAIN journal[r] : i < l => journal[r][i].seq < journal[r][l].seq
  BY Accounted DEF GapAccounted
<1>7. journal[r] \in Seq(Records) /\ j \in Nat /\ k \in Nat
  BY <1>5 DEF Inv, TypeOK
<1>8. x.seq \in Nat
  <2>1. x \in Records
    BY <1>2, <1>7
  <2> QED
    BY <2>1, CapacityAssumption DEF Records
<1> QED
  BY <1>2, <1>4, <1>5, <1>6, <1>7, <1>8

\* The index takes what it does not hold while it has room.
LEMMA Inserted ==
  ASSUME Inv, StreamInv, IndexInv, NEW rec, Journaled(rec), Insert(rec),
         NEW offered, offered = Offered \cup {rec}
  PROVE  /\ replay' \subseteq offered
         /\ ~refused' => replay' = offered
         /\ refused' => Cardinality(offered) > ReplayCapacity
<1>a. /\ replay \subseteq Offered /\ (~refused => replay = Offered)
      /\ refused => Cardinality(Offered) > ReplayCapacity
  BY DEF IndexInv
<1>b. IsFiniteSet(Offered) /\ \A x \in Offered : Journaled(x)
  BY OfferedJournaled
<1>c. /\ IsFiniteSet(offered) /\ Cardinality(offered) \in Nat /\ Cardinality(Offered) \in Nat
      /\ Cardinality(Offered) <= Cardinality(offered) /\ ReplayCapacity \in Nat
  BY <1>b, CapacityAssumption, FS_AddElement, FS_CardinalityType
<1>1. CASE Known(rec)
  <2>1. rec \in replay
    BY <1>1, <1>a, <1>b, Identity DEF Known
  <2>2. refused' = refused /\ replay' = replay
    BY <1>1, <2>1 DEF Insert, Inv, TypeOK
  <2>3. offered = Offered
    BY <1>a, <2>1
  <2> QED
    BY <1>a, <2>2, <2>3
<1>2. CASE ~Known(rec) /\ Cardinality(replay) >= ReplayCapacity
  <2>1. refused' = TRUE /\ replay' = replay
    BY <1>2 DEF Insert
  <2>2. rec \notin replay
    BY <1>2 DEF Known
  <2>3. IsFiniteSet(replay) /\ Cardinality(replay) \in Nat
    BY <1>a, <1>b, FS_Subset, FS_CardinalityType
  <2>4. Cardinality(replay \cup {rec}) = Cardinality(replay) + 1
    BY <2>2, <2>3, FS_AddElement
  <2>5. Cardinality(replay \cup {rec}) <= Cardinality(offered)
    <3>1. replay \cup {rec} \in SUBSET offered
      BY <1>a
    <3> QED
      BY <1>c, <3>1, FS_Subset
  <2>6. Cardinality(offered) > ReplayCapacity
    BY <1>2, <1>c, <2>3, <2>4, <2>5
  <2> QED
    BY <1>a, <2>1, <2>6
<1>3. CASE ~Known(rec) /\ ~(Cardinality(replay) >= ReplayCapacity)
  <2>1. replay' = replay \cup {rec} /\ refused' = refused
    BY <1>3 DEF Insert
  <2> QED
    BY <1>a, <1>c, <2>1
<1> QED
  BY <1>1, <1>2, <1>3

\* A journal that is being replayed does not grow.
LEMMA ReplayedStays ==
  ASSUME Inv, StreamInv, IndexInv, [Next]_vars, NEW r \in Runs, synced'[r] = synced[r]
  PROVE  /\ Replayed(r)' = Replayed(r)
         /\ phase[r] = "finished" => phase'[r] = "finished" /\ journal'[r] = journal[r]
<1>a. TypeOK
  BY DEF Inv
<1>1. phase[r] = "finished" => phase'[r] = "finished" /\ journal'[r] = journal[r]
  <2>1. ASSUME NEW q \in Runs, Grows(q), UNCHANGED consumerVars, phase[r] = "finished"
        PROVE  phase'[r] = "finished" /\ journal'[r] = journal[r]
    <3>1. UNCHANGED <<consumer, told, received>>
      BY <2>1 DEF consumerVars
    <3>2. phase[q] # "finished" /\ \A p \in Runs : p # q => journal'[p] = journal[p]
      BY <2>1, <3>1, Sends
    <3>3. \A p \in Runs : p # q => phase'[p] = phase[p]
      BY <2>1, <1>a, Growth DEF Inv
    <3> QED
      BY <2>1, <3>2, <3>3
  <2>2. ASSUME NEW q \in Runs, Judge(q), phase[r] = "finished" PROVE phase'[r] = "finished"
    BY <2>2, <1>a DEF Judge, TypeOK
  <2> QED
    BY <2>1, <2>2, StreamSteps DEF CloseSender, Receive, EndOfStream, DropReceiver, Resync,
       journalVars, runVars
<1>2. CASE synced[r] > 0
  BY <1>1, <1>2 DEF IndexInv, Replayed
<1>3. CASE ~(synced[r] > 0)
  <2>1. Len(journal[r]) \in Nat /\ Len(journal'[r]) \in Nat /\ synced[r] = 0
    BY <1>a, <1>3, JournalGrows, CapacityAssumption DEF TypeOK
  <2>2. \A n \in Nat : (n - 0 + 1)..n = {}
    OBVIOUS
  <2>3. (Len(journal[r]) - synced[r] + 1)..Len(journal[r]) = {}
    BY <2>1, <2>2
  <2>4. (Len(journal'[r]) - synced'[r] + 1)..Len(journal'[r]) = {}
    BY <2>1, <2>2
  <2> QED
    BY <1>1, <2>3, <2>4 DEF Replayed
<1> QED
  BY <1>1, <1>2, <1>3

LEMMA IndexStep ==
  ASSUME Inv, StreamInv, IndexInv, [Next]_vars
  PROVE  IndexInv'
<1>a. TypeOK
  BY DEF Inv
<1>1. CASE Receive
  <2>1. /\ queue # <<>> /\ received' = Append(received, Head(queue))
        /\ UNCHANGED <<journal, phase, synced>> /\ Insert(Head(queue))
    BY <1>1 DEF Receive, journalVars, runVars
  <2>2. Journaled(Head(queue))
    <3>1. 1 \in DOMAIN queue /\ Head(queue) = queue[1]
      BY <1>a, <2>1 DEF TypeOK
    <3> QED
      BY <3>1 DEF StreamInv, QueuedInv
  <2>3. {received'[k] : k \in DOMAIN received'}
           = {received[k] : k \in DOMAIN received} \cup {Head(queue)}
    <3>1. /\ DOMAIN received' = DOMAIN received \cup {Len(received) + 1}
          /\ received'[Len(received) + 1] = Head(queue)
          /\ \A k \in DOMAIN received : received'[k] = received[k]
      BY <1>a, <2>1 DEF TypeOK
    <3> QED
      BY <3>1
  <2>4. Offered' = Offered \cup {Head(queue)}
    <3>1. \A r \in Runs : Replayed(r)' = Replayed(r)
      BY <2>1 DEF Replayed
    <3> QED
      BY <2>3, <3>1 DEF Offered
  <2> QED
    BY <2>1, <2>2, <2>4, Inserted DEF IndexInv
<1>2. ASSUME NEW r \in Runs, Resync(r) PROVE IndexInv'
  <2> DEFINE rec == journal[r][Len(journal[r]) - synced[r]]
  <2>1. /\ UNCHANGED <<journal, phase, received>> /\ Insert(rec)
        /\ phase[r] = "finished" /\ synced[r] < Len(journal[r])
        /\ synced' = [synced EXCEPT ![r] = @ + 1]
    BY <1>2 DEF Resync, journalVars, runVars
  <2>2. /\ Len(journal[r]) \in Nat /\ synced[r] \in Nat /\ journal[r] \in Seq(Records)
        /\ synced'[r] = synced[r] + 1 /\ \A q \in Runs : q # r => synced'[q] = synced[q]
    BY <1>a, <2>1, CapacityAssumption DEF TypeOK
  <2>3. Len(journal[r]) - synced[r] \in DOMAIN journal[r]
    BY <2>1, <2>2
  <2>4. Journaled(rec)
    BY <2>3 DEF Journaled
  <2>5. Replayed(r)' = Replayed(r) \cup {rec}
    <3>1. \A n, m \in Nat : m < n =>
            (n - (m + 1) + 1)..n = ((n - m + 1)..n) \cup {n - m}
      OBVIOUS
    <3>2. (Len(journal[r]) - synced'[r] + 1)..Len(journal[r])
            = ((Len(journal[r]) - synced[r] + 1)..Len(journal[r])) \cup {Len(journal[r]) - synced[r]}
      BY <2>1, <2>2, <3>1
    <3> QED
      BY <2>1, <3>2 DEF Replayed
  <2>6. \A q \in Runs : q # r => Replayed(q)' = Replayed(q)
    BY <2>1, <2>2 DEF Replayed
  <2> HIDE DEF rec
  <2>7. Offered' = Offered \cup {rec}
    BY <2>1, <2>5, <2>6 DEF Offered
  <2>8. \A q \in Runs : synced'[q] > 0 => phase'[q] = "finished"
    BY <2>1, <2>2 DEF IndexInv
  <2> QED
    BY <2>1, <2>4, <2>7, <2>8, Inserted DEF IndexInv
<1>3. ASSUME UNCHANGED <<received, synced, replay, refused>> PROVE IndexInv'
  <2>1. \A r \in Runs : Replayed(r)' = Replayed(r) /\ (phase[r] = "finished" => phase'[r] = "finished")
    BY <1>3, ReplayedStays
  <2>2. Offered' = Offered
    BY <1>3, <2>1 DEF Offered
  <2> QED
    BY <1>3, <2>1, <2>2 DEF IndexInv
<1>4. Receive \/ (\E r \in Runs : Resync(r)) \/ UNCHANGED <<received, synced, replay, refused>>
  BY StreamSteps DEF CloseSender, EndOfStream, DropReceiver, consumerVars, replayVars
<1> QED
  BY <1>1, <1>2, <1>3, <1>4

-----------------------------------------------------------------------------
(* The theorems                                                            *)

THEOREM Invariance == Spec => []Inv
<1>1. Init => Inv
  <2> SUFFICES ASSUME Init PROVE Inv
    OBVIOUS
  <2>1. /\ None \in [first : Nat, last : Nat, rejected : Nat]
        /\ <<>> \in Seq(Records) /\ Len(<<>>) <= QueueCapacity /\ 0 \in 0..MaxEvents
    BY CapacityAssumption DEF None
  <2>2. TypeOK
    BY <2>1, CapacityAssumption DEF Init, TypeOK
  <2> QED
    BY <2>2, CapacityAssumption
       DEF Init, Inv, KeptInv, GapInv, JudgedInv, NoWorkAfterGap, SyncInv, Done, RootsOf
<1>2. Inv /\ [Next]_vars => Inv'
  BY KeptStep, GapStep, JudgedStep, NoWorkStep, SyncStep, TypeStep DEF Inv
<1> QED
  BY <1>1, <1>2, PTL DEF Spec

\* Type correctness of EventBuffer, the subscription and the replay index.
THEOREM TypeCorrect == Spec => []TypeOK
<1>1. Inv => TypeOK
  BY DEF Inv
<1> QED
  BY <1>1, Invariance, PTL

\* The omitted identities of JournalOverflow and the retained ones are all that
\* were given out, each once, and the journal keeps within max_events.
THEOREM GapsAccounted == Spec => []GapAccounted
BY Accounted, Invariance, PTL

\* RunFinished is the last record of a run, and its verdict tells of a gap.
THEOREM TerminalFactsHonest == Spec => []TerminalFactHonest
<1>1. Inv => TerminalFactHonest
  BY DEF Inv, TerminalFactHonest, KeptInv, JudgedInv, Done, TypeOK
<1> QED
  BY <1>1, Invariance, PTL

\* A root registered with a journal that overflowed is cancelled.
THEOREM OverflowStopsRoots == Spec => []NoWorkAfterGap
<1>1. Inv => NoWorkAfterGap
  BY DEF Inv
<1> QED
  BY <1>1, Invariance, PTL

LEMMA StreamInvariance == Spec => [](Inv /\ StreamInv /\ IndexInv)
<1>1. Init => StreamInv /\ IndexInv
  <2> SUFFICES ASSUME Init PROVE StreamInv /\ IndexInv
    OBVIOUS
  <2>1. Stream = <<>> /\ DOMAIN Stream = {}
    BY DEF Init, Stream
  <2>2. \A r \in Runs : SentInv(r)
    <3> SUFFICES ASSUME NEW r \in Runs PROVE SentInv(r)
      OBVIOUS
    <3>1. 0 \in 0..Len(journal[r]) /\ Len(journal[r]) = 0 /\ 1..0 = {}
      BY DEF Init
    <3>2. OfRun(Stream, r) = First(0, r)
      BY <2>1, <3>1 DEF OfRun, First
    <3> QED
      BY <3>1, <3>2 DEF Init, SentInv
  <2>3. NamedInv /\ SenderInv /\ QueuedInv /\ Ordered
    BY <2>1 DEF Init, NamedInv, SenderInv, QueuedInv, Ordered
  <2>4. Offered = {}
    <3>1. \A r \in Runs : Replayed(r) = {}
      BY DEF Init, Replayed
    <3>2. DOMAIN received = {}
      BY DEF Init
    <3> QED
      BY <3>1, <3>2 DEF Offered
  <2>5. IndexInv
    BY <2>4 DEF Init, IndexInv
  <2> QED
    BY <2>2, <2>3, <2>5 DEF StreamInv
<1>2. Inv /\ StreamInv /\ IndexInv /\ [Next]_vars => (StreamInv /\ IndexInv)'
  BY StreamStep, IndexStep
<1> QED
  BY <1>1, <1>2, Invariance, PTL DEF Spec

\* What the subscription delivers is an exact prefix of every journal up to the gap
\* it reports, and replaying the results makes an index whole again that can hold them.
THEOREM StreamsExact == Spec => []StreamExact
<1>1. Inv /\ StreamInv => ExactPrefix
  <2> SUFFICES ASSUME Inv, StreamInv PROVE ExactPrefix
    OBVIOUS
  <2>1. consumer # "dropped" => Ordered /\ \A r \in Runs : SentInv(r)
    BY DEF StreamInv
  <2>2. ASSUME consumer = "ended", ~told, NEW r \in Runs
        PROVE  OfRun(received, r) = First(Len(journal[r]), r)
    <3>1. gap = NoGap /\ queue = <<>>
      BY <2>2 DEF StreamInv, SenderInv
    <3>2. received \in Seq(Records)
      BY DEF Inv, TypeOK
    <3>3. Stream = received
      BY <3>1, <3>2 DEF Stream
    <3> QED
      BY <2>1, <2>2, <3>1, <3>3 DEF SentInv
  <2> QED
    BY <2>1, <2>2 DEF ExactPrefix, Ordered, SentInv
<1>2. Inv /\ StreamInv /\ IndexInv => Resynchronised
  <2> SUFFICES ASSUME Inv, StreamInv, IndexInv, ~refused, NEW r \in Runs,
                      synced[r] = Len(journal[r])
               PROVE  {x \in replay : x.run = r} = First(Len(journal[r]), r)
    BY DEF Resynchronised, IndexInv
  <2>1. replay = Offered
    BY DEF IndexInv
  <2>2. Len(journal[r]) \in Nat /\ DOMAIN journal[r] = 1..Len(journal[r])
    BY DEF Inv, TypeOK
  <2>3. Replayed(r) = First(Len(journal[r]), r)
    <3>1. Len(journal[r]) - synced[r] + 1 = 1
      BY <2>2
    <3> QED
      BY <3>1 DEF Replayed, First
  <2>4. ASSUME NEW x \in First(Len(journal[r]), r) PROVE x \in Offered /\ x.run = r
    BY <2>2, <2>3, <2>4 DEF Offered, StreamInv, NamedInv, First
  <2>5. ASSUME NEW x \in Offered, x.run = r PROVE x \in First(Len(journal[r]), r)
    <3>1. PICK q \in Runs : \E k \in DOMAIN journal[q] : x = journal[q][k]
      BY OfferedJournaled DEF Journaled
    <3>2. PICK k \in DOMAIN journal[q] : x = journal[q][k]
      BY <3>1
    <3>3. q = r
      BY <2>5, <3>2 DEF StreamInv, NamedInv
    <3> QED
      BY <2>2, <3>2, <3>3 DEF First
  <2> QED
    BY <2>1, <2>4, <2>5
<1> QED
  BY <1>1, <1>2, StreamInvariance, PTL DEF StreamExact

-----------------------------------------------------------------------------
(* ResourceScope: what lives under a scope, and what it leaves             *)

\* The proofs about scopes, under the names they have here.
SP == INSTANCE ResourceScope_proofs WITH
  None <- NoCause, phase <- waitPhase, refused <- refusals

LEMMA SameCounts ==
  /\ \A S : Scope!Cardinality(S) = SP!Cardinality(S)
  /\ Scope!W!Cardinality(active) = SP!W!Cardinality(active)
  /\ Scope!IsFiniteSet(Scopes) <=> SP!IsFiniteSet(Scopes)
  BY DEF Scope!Cardinality, SP!Cardinality, Scope!W!Cardinality, SP!W!Cardinality,
         Scope!IsFiniteSet, SP!IsFiniteSet

LEMMA SameBegin ==
  /\ Scope!ScopesFit => SP!ScopesFit
  /\ Scope!Init => SP!Init
<1>1. Scope!ScopesFit => SP!ScopesFit
  BY SameCounts DEF Scope!ScopesFit, SP!ScopesFit, Scope!W!ConstantsFit, SP!W!ConstantsFit
<1>2. Scope!Init => SP!Init
  BY DEF Scope!Init, SP!Init, Scope!W!Init, SP!W!Init, Scope!R!Init, SP!R!Init, Scope!Idle, SP!Idle,
    Scope!R!Acquiring, SP!R!Acquiring, Scope!W!Unknown, SP!W!Unknown, Scope!W!Completion,
    SP!W!Completion, Scope!W!CancelledBy, SP!W!CancelledBy
<1> QED
  BY <1>1, <1>2

LEMMA SameSteps1 ==
  ASSUME NEW s \in Scopes
  PROVE  /\ Scope!BeginAcquisition(s) => SP!BeginAcquisition(s)
         /\ Scope!HostOpens(s) => SP!HostOpens(s)
         /\ Scope!BeginAcquireWait(s) => SP!BeginAcquireWait(s)
         /\ Scope!AcquireWait(s) => SP!AcquireWait(s)
  BY SameCounts
  DEF Scope!BeginAcquisition, SP!BeginAcquisition, Scope!HostOpens, SP!HostOpens,
    Scope!BeginAcquireWait, SP!BeginAcquireWait, Scope!AcquireWait, SP!AcquireWait,
    Scope!R!BeginAcquisition, SP!R!BeginAcquisition, Scope!R!CanAcknowledge,
    SP!R!CanAcknowledge, Scope!R!AcknowledgeOwnership, SP!R!AcknowledgeOwnership, Scope!Call,
    SP!Call, Scope!At, SP!At, Scope!Goto, SP!Goto, Scope!Result, SP!Result, Scope!Gen, SP!Gen,
    Scope!registryVars, SP!registryVars, Scope!scopeVars, SP!scopeVars, Scope!waitVars,
    SP!waitVars, Scope!W!Register, SP!W!Register, Scope!W!Reject, SP!W!Reject, Scope!W!Begin,
    SP!W!Begin, Scope!W!Epoch, SP!W!Epoch, Scope!W!OpenBudget, SP!W!OpenBudget, Scope!W!Overdue,
    SP!W!Overdue, Scope!W!PollCancelled, SP!W!PollCancelled, Scope!W!PollDeadline,
    SP!W!PollDeadline, Scope!W!PollSource, SP!W!PollSource, Scope!W!OpenCleanup,
    SP!W!OpenCleanup, Scope!W!Settle, SP!W!Settle, Scope!W!InterruptEnds, SP!W!InterruptEnds,
    Scope!W!InterruptExpires, SP!W!InterruptExpires, Scope!W!CleanupEnds, SP!W!CleanupEnds,
    Scope!W!BoundedEnds, SP!W!BoundedEnds, Scope!W!AnyCause, SP!W!AnyCause, Scope!W!tokenVars,
    SP!W!tokenVars, Scope!W!waitVars, SP!W!waitVars, Scope!W!Unknown, SP!W!Unknown,
    Scope!W!Completion, SP!W!Completion, Scope!W!CancelledBy, SP!W!CancelledBy, Scope!R!Current,
    SP!R!Current, Scope!R!LeasesOn, SP!R!LeasesOn, Scope!R!Fresh, SP!R!Fresh, Scope!R!Update,
    SP!R!Update, Scope!R!Acquiring, SP!R!Acquiring, Scope!R!Ids, SP!R!Ids

LEMMA SameSteps2 ==
  ASSUME NEW s \in Scopes
  PROVE  /\ Scope!AfterAcquire(s) => SP!AfterAcquire(s)
         /\ Scope!TakeLease(s) => SP!TakeLease(s)
         /\ Scope!BeginBodyWait(s) => SP!BeginBodyWait(s)
         /\ Scope!BodyWait(s) => SP!BodyWait(s)
         /\ Scope!AfterBody(s) => SP!AfterBody(s)
  BY SameCounts
  DEF Scope!AfterAcquire, SP!AfterAcquire, Scope!TakeLease, SP!TakeLease, Scope!BeginBodyWait,
    SP!BeginBodyWait, Scope!BodyWait, SP!BodyWait, Scope!AfterBody, SP!AfterBody,
    Scope!R!CanReady, SP!R!CanReady, Scope!R!Ready, SP!R!Ready, Scope!R!CanLease, SP!R!CanLease,
    Scope!R!TakeLease, SP!R!TakeLease, Scope!Call, SP!Call, Scope!At, SP!At, Scope!Goto,
    SP!Goto, Scope!Result, SP!Result, Scope!Gen, SP!Gen, Scope!registryVars, SP!registryVars,
    Scope!scopeVars, SP!scopeVars, Scope!waitVars, SP!waitVars, Scope!W!Register, SP!W!Register,
    Scope!W!Reject, SP!W!Reject, Scope!W!Begin, SP!W!Begin, Scope!W!Epoch, SP!W!Epoch,
    Scope!W!OpenBudget, SP!W!OpenBudget, Scope!W!Overdue, SP!W!Overdue, Scope!W!PollCancelled,
    SP!W!PollCancelled, Scope!W!PollDeadline, SP!W!PollDeadline, Scope!W!PollSource,
    SP!W!PollSource, Scope!W!OpenCleanup, SP!W!OpenCleanup, Scope!W!Settle, SP!W!Settle,
    Scope!W!InterruptEnds, SP!W!InterruptEnds, Scope!W!InterruptExpires, SP!W!InterruptExpires,
    Scope!W!CleanupEnds, SP!W!CleanupEnds, Scope!W!BoundedEnds, SP!W!BoundedEnds,
    Scope!W!AnyCause, SP!W!AnyCause, Scope!W!tokenVars, SP!W!tokenVars, Scope!W!waitVars,
    SP!W!waitVars, Scope!W!Unknown, SP!W!Unknown, Scope!W!Completion, SP!W!Completion,
    Scope!W!CancelledBy, SP!W!CancelledBy, Scope!R!Current, SP!R!Current, Scope!R!LeasesOn,
    SP!R!LeasesOn, Scope!R!Fresh, SP!R!Fresh, Scope!R!Update, SP!R!Update, Scope!R!Acquiring,
    SP!R!Acquiring, Scope!R!Ids, SP!R!Ids

LEMMA SameSteps3 ==
  ASSUME NEW s \in Scopes
  PROVE  /\ Scope!Report(s) => SP!Report(s)
         /\ Scope!Unlease(s) => SP!Unlease(s)
         /\ Scope!Classify(s) => SP!Classify(s)
         /\ Scope!BeginTeardown(s) => SP!BeginTeardown(s)
         /\ Scope!TeardownExpires(s) => SP!TeardownExpires(s)
  BY SameCounts
  DEF Scope!Report, SP!Report, Scope!Unlease, SP!Unlease, Scope!Classify, SP!Classify,
    Scope!BeginTeardown, SP!BeginTeardown, Scope!TeardownExpires, SP!TeardownExpires,
    Scope!TeardownEnds, SP!TeardownEnds, Scope!R!CanCancel, SP!R!CanCancel, Scope!R!Cancel,
    SP!R!Cancel, Scope!R!ReleaseLease, SP!R!ReleaseLease, Scope!R!CanAcquireFail,
    SP!R!CanAcquireFail, Scope!R!AcquireFailed, SP!R!AcquireFailed, Scope!R!CanBeginRelease,
    SP!R!CanBeginRelease, Scope!R!BeginRelease, SP!R!BeginRelease, Scope!Call, SP!Call,
    Scope!At, SP!At, Scope!Goto, SP!Goto, Scope!Result, SP!Result, Scope!Gen, SP!Gen,
    Scope!registryVars, SP!registryVars, Scope!scopeVars, SP!scopeVars, Scope!waitVars,
    SP!waitVars, Scope!W!Register, SP!W!Register, Scope!W!Reject, SP!W!Reject, Scope!W!Begin,
    SP!W!Begin, Scope!W!Epoch, SP!W!Epoch, Scope!W!OpenBudget, SP!W!OpenBudget, Scope!W!Overdue,
    SP!W!Overdue, Scope!W!PollCancelled, SP!W!PollCancelled, Scope!W!PollDeadline,
    SP!W!PollDeadline, Scope!W!PollSource, SP!W!PollSource, Scope!W!OpenCleanup,
    SP!W!OpenCleanup, Scope!W!Settle, SP!W!Settle, Scope!W!InterruptEnds, SP!W!InterruptEnds,
    Scope!W!InterruptExpires, SP!W!InterruptExpires, Scope!W!CleanupEnds, SP!W!CleanupEnds,
    Scope!W!BoundedEnds, SP!W!BoundedEnds, Scope!W!AnyCause, SP!W!AnyCause, Scope!W!tokenVars,
    SP!W!tokenVars, Scope!W!waitVars, SP!W!waitVars, Scope!W!Unknown, SP!W!Unknown,
    Scope!W!Completion, SP!W!Completion, Scope!W!CancelledBy, SP!W!CancelledBy, Scope!R!Current,
    SP!R!Current, Scope!R!LeasesOn, SP!R!LeasesOn, Scope!R!Fresh, SP!R!Fresh, Scope!R!Update,
    SP!R!Update, Scope!R!Acquiring, SP!R!Acquiring, Scope!R!Ids, SP!R!Ids

LEMMA SameSteps4 ==
  ASSUME NEW s \in Scopes
  PROVE  /\ Scope!CancelLate(s) => SP!CancelLate(s)
         /\ Scope!FinishTeardown(s) => SP!FinishTeardown(s)
         /\ Scope!Validate(s) => SP!Validate(s)
  BY SameCounts
  DEF Scope!CancelLate, SP!CancelLate, Scope!FinishTeardown, SP!FinishTeardown, Scope!Validate,
    SP!Validate, Scope!R!CanCancel, SP!R!CanCancel, Scope!R!Cancel, SP!R!Cancel,
    Scope!R!CanFinishRelease, SP!R!CanFinishRelease, Scope!R!FinishRelease, SP!R!FinishRelease,
    Scope!R!OwnerFinished, SP!R!OwnerFinished, Scope!R!ValidateOwnerFinished,
    SP!R!ValidateOwnerFinished, Scope!Call, SP!Call, Scope!At, SP!At, Scope!Goto, SP!Goto,
    Scope!Result, SP!Result, Scope!Gen, SP!Gen, Scope!registryVars, SP!registryVars,
    Scope!scopeVars, SP!scopeVars, Scope!waitVars, SP!waitVars, Scope!W!Register, SP!W!Register,
    Scope!W!Reject, SP!W!Reject, Scope!W!Begin, SP!W!Begin, Scope!W!Epoch, SP!W!Epoch,
    Scope!W!OpenBudget, SP!W!OpenBudget, Scope!W!Overdue, SP!W!Overdue, Scope!W!PollCancelled,
    SP!W!PollCancelled, Scope!W!PollDeadline, SP!W!PollDeadline, Scope!W!PollSource,
    SP!W!PollSource, Scope!W!OpenCleanup, SP!W!OpenCleanup, Scope!W!Settle, SP!W!Settle,
    Scope!W!InterruptEnds, SP!W!InterruptEnds, Scope!W!InterruptExpires, SP!W!InterruptExpires,
    Scope!W!CleanupEnds, SP!W!CleanupEnds, Scope!W!BoundedEnds, SP!W!BoundedEnds,
    Scope!W!AnyCause, SP!W!AnyCause, Scope!W!tokenVars, SP!W!tokenVars, Scope!W!waitVars,
    SP!W!waitVars, Scope!W!Unknown, SP!W!Unknown, Scope!W!Completion, SP!W!Completion,
    Scope!W!CancelledBy, SP!W!CancelledBy, Scope!R!Current, SP!R!Current, Scope!R!LeasesOn,
    SP!R!LeasesOn, Scope!R!Fresh, SP!R!Fresh, Scope!R!Update, SP!R!Update, Scope!R!Acquiring,
    SP!R!Acquiring, Scope!R!Ids, SP!R!Ids

LEMMA SameNext ==
  Scope!Next => SP!Next
<1>1. Scope!Tick => SP!Tick
  BY DEF Scope!Tick, SP!Tick, Scope!W!Tick, SP!W!Tick, Scope!W!Epoch, SP!W!Epoch, Scope!W!Cleaning,
    SP!W!Cleaning, Scope!W!Overdue, SP!W!Overdue, Scope!W!MaxTime, SP!W!MaxTime,
    Scope!W!tokenVars, SP!W!tokenVars, Scope!W!waitVars, SP!W!waitVars, Scope!At, SP!At,
    Scope!registryVars, SP!registryVars, Scope!scopeVars, SP!scopeVars
<1>2. ASSUME NEW s \in Scopes, NEW b \in BOOLEAN
      PROVE  /\ Scope!AdapterInterrupted(s, b) => SP!AdapterInterrupted(s, b)
             /\ Scope!TeardownEnds(s, b) => SP!TeardownEnds(s, b)
             /\ \A k \in Causes : Scope!Cancel(s, k) => SP!Cancel(s, k)
  BY DEF Scope!AdapterInterrupted, SP!AdapterInterrupted, Scope!TeardownEnds, SP!TeardownEnds,
    Scope!Cancel, SP!Cancel, Scope!W!Cancel, SP!W!Cancel, Scope!W!InterruptEnds,
    SP!W!InterruptEnds, Scope!W!BoundedEnds, SP!W!BoundedEnds, Scope!W!tokenVars,
    SP!W!tokenVars, Scope!W!waitVars, SP!W!waitVars, Scope!At, SP!At, Scope!Goto, SP!Goto,
    Scope!registryVars, SP!registryVars, Scope!scopeVars, SP!scopeVars, Scope!waitVars,
    SP!waitVars
<1>3. ASSUME NEW s \in Scopes
      PROVE  /\ Scope!Step(s) => SP!Step(s)
             /\ Scope!BeginAcquisition(s) => SP!BeginAcquisition(s)
             /\ Scope!HostOpens(s) => SP!HostOpens(s)
  BY SameSteps1, SameSteps2, SameSteps3, SameSteps4 DEF Scope!Step, SP!Step
<1> QED
  BY <1>1, <1>2, <1>3 DEF Scope!Next, SP!Next

\* run() of resource_scope.rs: a body lives under the lease of a ready resource, resources.rs answers
\* Ok to every call, and what returned has left no wait, lease, body or unrecorded handle behind.
THEOREM ScopesHold == Scope!Spec => []ScopeHolds
<1>1. [Scope!Next]_(Scope!vars) => [SP!Next]_(SP!vars)
  BY SameNext DEF Scope!vars, SP!vars, Scope!waitVars, SP!waitVars, Scope!registryVars, SP!registryVars,
    Scope!scopeVars, SP!scopeVars
<1>2. SP!Spec => [](SP!BodyUnderLease /\ SP!RegistryNeverRefuses /\ SP!NothingOutlivesScope)
  BY SameBegin, ScopesAssumption, SP!BodiesUnderLease, SP!NeverRefused, SP!NothingIsLeft, PTL
<1>3. SP!BodyUnderLease /\ SP!RegistryNeverRefuses /\ SP!NothingOutlivesScope => ScopeHolds
  BY DEF ScopeHolds, Scope!BodyUnderLease, SP!BodyUnderLease, Scope!RegistryNeverRefuses,
    SP!RegistryNeverRefuses, Scope!NothingOutlivesScope, SP!NothingOutlivesScope, Scope!R!Current, SP!R!Current
<1> QED
  BY <1>1, <1>2, <1>3, SameBegin, PTL DEF Scope!Spec, SP!Spec
=============================================================================
