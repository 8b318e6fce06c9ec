----------------------- MODULE ResourceRegistry_proofs -----------------------
(***************************************************************************)
(* Proofs about ResourceRegistry for any resources, owners and number of   *)
(* ids: its safety, and that it implements ResourceLifecycle.              *)
(***************************************************************************)
EXTENDS ResourceRegistry, TLAPS

-----------------------------------------------------------------------------
(* The inductive invariant                                                 *)

\* How the parts of one entry fit together: only an owned handle gets ready or
\* is torn down, nothing is torn down while it is acquired, and the history
\* names exactly the generations whose teardown left "Pending".
EntryInv ==
  /\ \A k \in begun : k[2] < nextId
  /\ \A r \in Resources : entries[r].gen # 0 =>
       /\ entries[r].acquisition = "Acquiring" => entries[r].teardown = "Pending"
       /\ entries[r].acquisition = "Ready" => entries[r].owned
       /\ <<r, entries[r].gen>> \in begun <=> entries[r].owned /\ entries[r].teardown # "Pending"

\* The verdict of validate_owner_finished() stays true.
FinishedInv == \A o \in finished : OwnerFinished(o)

\* A lease is known by its id.
LeaseIdInv == \A l, m \in leases : l.id = m.id => l = m

Inv == TypeOK /\ EntryInv /\ LeaseSafety /\ AccessSafety /\ FinishedInv /\ LeaseIdInv

\* The steps that rewrite one entry and nothing else but the history.
Rewrite(r, g) ==
  \/ AcknowledgeOwnership(r, g) \/ Ready(r, g) \/ AcquireFailed(r, g) \/ Cancel(r, g)
  \/ BeginRelease(r, g)
  \/ \E succeeded \in BOOLEAN : FinishRelease(r, g, succeeded)

-----------------------------------------------------------------------------
(* Type correctness                                                        *)

\* What the methods rewrite in an entry keeps its type, its generation and its policy.
LEMMA EntryTypes ==
  ASSUME NEW e \in Entry, NEW t \in {"Pending", "Releasing", "Released", "Failed"}
  PROVE  \A f \in {[e EXCEPT !.owned = TRUE], [e EXCEPT !.cancelled = TRUE],
                    [e EXCEPT !.acquisition = "Ready"], [e EXCEPT !.teardown = t],
                    [e EXCEPT !.acquisition = "Failed", !.teardown = t]} :
           f \in Entry /\ f.gen = e.gen /\ f.policy = e.policy
<1> USE DEF Entry, Access
<1> DEFINE Good(f) == f \in Entry /\ f.gen = e.gen /\ f.policy = e.policy
<1>1. Good([e EXCEPT !.owned = TRUE])
  OBVIOUS
<1>2. Good([e EXCEPT !.cancelled = TRUE])
  OBVIOUS
<1>3. Good([e EXCEPT !.acquisition = "Ready"])
  OBVIOUS
<1>4. Good([e EXCEPT !.teardown = t])
  OBVIOUS
<1>5. Good([e EXCEPT !.acquisition = "Failed", !.teardown = t])
  OBVIOUS
<1> HIDE DEF Entry, Good
<1>6. \A f \in {[e EXCEPT !.owned = TRUE], [e EXCEPT !.cancelled = TRUE],
                 [e EXCEPT !.acquisition = "Ready"], [e EXCEPT !.teardown = t],
                 [e EXCEPT !.acquisition = "Failed", !.teardown = t]} : Good(f)
  BY <1>1, <1>2, <1>3, <1>4, <1>5
<1> QED
  BY <1>6 DEF Good

\* A method that rewrites an entry replaces it by such a one.
LEMMA Rewritten ==
  ASSUME TypeOK, NEW r \in Resources, NEW g \in Ids, Rewrite(r, g)
  PROVE  /\ \E e \in Entry :
              Update(r, e) /\ e.gen = entries[r].gen /\ e.policy = entries[r].policy
         /\ UNCHANGED <<nextId, leases, finished>>
         /\ begun' \in {begun, begun \cup {<<r, g>>}}
<1>1. entries[r] \in Entry
  BY DEF TypeOK
<1>2. entries[r].teardown \in {"Pending", "Releasing", "Released", "Failed"}
  BY <1>1 DEF Entry
<1>3. CASE AcknowledgeOwnership(r, g)
  BY <1>1, <1>2, <1>3, EntryTypes DEF AcknowledgeOwnership
<1>4. CASE Ready(r, g)
  BY <1>1, <1>2, <1>4, EntryTypes DEF Ready
<1>5. CASE AcquireFailed(r, g)
  <2>1. PICK t \in {"Pending", "Releasing", "Released", "Failed"} :
          Update(r, [entries[r] EXCEPT !.acquisition = "Failed", !.teardown = t])
    <3>1. CASE entries[r].owned
      BY <1>2, <1>5, <3>1 DEF AcquireFailed
    <3>2. CASE ~entries[r].owned
      BY <1>5, <3>2 DEF AcquireFailed
    <3> QED
      BY <3>1, <3>2
  <2> DEFINE e == [entries[r] EXCEPT !.acquisition = "Failed", !.teardown = t]
  <2>2. e \in Entry /\ e.gen = entries[r].gen /\ e.policy = entries[r].policy
    BY <1>1, EntryTypes
  <2>3. Update(r, e)
    BY <2>1
  <2> HIDE DEF e
  <2> QED
    BY <1>5, <2>2, <2>3 DEF AcquireFailed
<1>6. CASE Cancel(r, g)
  BY <1>1, <1>2, <1>6, EntryTypes DEF Cancel
<1>7. CASE BeginRelease(r, g)
  BY <1>1, <1>7, EntryTypes DEF BeginRelease
<1>8. ASSUME NEW succeeded \in BOOLEAN, FinishRelease(r, g, succeeded)
      PROVE  /\ \E e \in Entry :
                  Update(r, e) /\ e.gen = entries[r].gen /\ e.policy = entries[r].policy
             /\ UNCHANGED <<nextId, leases, begun, finished>>
  <2>1. PICK t \in {"Released", "Failed"} : Update(r, [entries[r] EXCEPT !.teardown = t])
    BY <1>8 DEF FinishRelease
  <2> QED
    BY <1>1, <1>8, <2>1, EntryTypes DEF FinishRelease
<1> QED
  BY <1>3, <1>4, <1>5, <1>6, <1>7, <1>8 DEF Rewrite

\* Replacing an entry by one of its generation keeps the types.
LEMMA UpdateTypes ==
  ASSUME TypeOK, NEW r \in Resources, NEW e \in Entry, e.gen = entries[r].gen, Update(r, e),
         UNCHANGED <<nextId, leases, finished>>, begun' \in SUBSET (Resources \X Ids)
  PROVE  TypeOK'
<1>1. entries' \in [Resources -> Entry]
  BY DEF TypeOK, Update
<1>2. \A q \in Resources : entries'[q].gen = entries[q].gen
  BY DEF TypeOK, Update
<1>3. \A q \in Resources : entries'[q].gen < nextId'
  BY <1>2 DEF TypeOK
<1> QED
  BY <1>1, <1>3 DEF TypeOK, Entry, Lease

\* A step keeps the types, and what it hands out is older than the next id.
LEMMA TypeStep == TypeOK /\ [Next]_vars => TypeOK'
<1> USE MaxIdAssumption
<1> SUFFICES ASSUME TypeOK, [Next]_vars PROVE TypeOK'
  OBVIOUS
<1> USE DEF TypeOK
<1>1. CASE UNCHANGED vars
  BY <1>1 DEF vars
<1>2. ASSUME NEW r \in Resources, NEW o \in Owners, NEW p \in Access, BeginAcquisition(r, o, p)
      PROVE TypeOK'
  BY <1>2 DEF BeginAcquisition, Fresh, Update, Acquiring, Entry, Lease, Ids, Access
<1>3. ASSUME NEW r \in Resources, NEW g \in Ids, Rewrite(r, g) PROVE TypeOK'
  <2>1. begun' \in SUBSET (Resources \X Ids)
    BY <1>3, Rewritten
  <2> HIDE DEF TypeOK
  <2> QED
    BY <1>3, <2>1, Rewritten, UpdateTypes
<1>4. ASSUME NEW r \in Resources, NEW g \in Ids, NEW o \in Owners, Reacquire(r, g, o) PROVE TypeOK'
  BY <1>4 DEF Reacquire, Fresh, Update, Acquiring, Entry, Lease, Ids, Access
<1>5. ASSUME NEW r \in Resources, NEW g \in Ids, NEW o \in Owners, NEW a \in Access,
             TakeLease(r, g, o, a)
      PROVE TypeOK'
  BY <1>5 DEF TakeLease, Fresh, Entry, Lease, Ids, Access
<1>6. ASSUME NEW l \in leases, ReleaseLease(l) PROVE TypeOK'
  BY <1>6 DEF ReleaseLease
<1>7. ASSUME NEW o \in Owners, ValidateOwnerFinished(o) PROVE TypeOK'
  BY <1>7 DEF ValidateOwnerFinished
<1>8. QED
  BY <1>1, <1>2, <1>3, <1>4, <1>5, <1>6, <1>7 DEF Next, Rewrite

-----------------------------------------------------------------------------
(* Preservation of the other parts                                         *)

\* A step keeps every entry consistent with itself and with the history.
LEMMA EntryStep == TypeOK /\ EntryInv /\ LeaseSafety /\ [Next]_vars => EntryInv'
<1> USE MaxIdAssumption
<1> SUFFICES ASSUME TypeOK, EntryInv, LeaseSafety, [Next]_vars PROVE EntryInv'
  OBVIOUS
<1> USE DEF TypeOK, EntryInv, Entry, Ids, Update, Current
<1>1. CASE UNCHANGED vars
  BY <1>1 DEF vars
<1>2. ASSUME NEW r \in Resources, NEW o \in Owners, NEW p \in Access, BeginAcquisition(r, o, p)
      PROVE EntryInv'
  BY <1>2 DEF BeginAcquisition, Fresh, Acquiring
<1>3. ASSUME NEW r \in Resources, NEW g \in Ids, Rewrite(r, g) PROVE EntryInv'
  <2>1. CASE AcknowledgeOwnership(r, g)
    BY <2>1 DEF AcknowledgeOwnership, CanAcknowledge
  <2>2. CASE Ready(r, g)
    BY <2>2 DEF Ready, CanReady
  <2>3. CASE AcquireFailed(r, g)
    BY <2>3 DEF AcquireFailed, CanAcquireFail
  <2>4. CASE Cancel(r, g)
    BY <2>4 DEF Cancel, CanCancel
  <2>5. CASE BeginRelease(r, g)
    BY <2>5 DEF BeginRelease, CanBeginRelease
  <2>6. ASSUME NEW succeeded \in BOOLEAN, FinishRelease(r, g, succeeded) PROVE EntryInv'
    BY <2>6 DEF FinishRelease, CanFinishRelease
  <2>7. QED
    BY <1>3, <2>1, <2>2, <2>3, <2>4, <2>5, <2>6 DEF Rewrite
<1>4. ASSUME NEW r \in Resources, NEW g \in Ids, NEW o \in Owners, Reacquire(r, g, o)
      PROVE EntryInv'
  BY <1>4 DEF Reacquire, Fresh, Acquiring
<1>5. ASSUME NEW r \in Resources, NEW g \in Ids, NEW o \in Owners, NEW a \in Access,
             TakeLease(r, g, o, a)
      PROVE EntryInv'
  BY <1>5 DEF TakeLease, Fresh
<1>6. CASE UNCHANGED <<nextId, entries, begun>>
  BY <1>6
<1>7. QED
  BY <1>1, <1>2, <1>3, <1>4, <1>5, <1>6 DEF Next, Rewrite, ReleaseLease, ValidateOwnerFinished

\* A step neither takes a lease where none is due nor pulls an entry from under one.
LEMMA LeaseStep == TypeOK /\ EntryInv /\ LeaseSafety /\ [Next]_vars => LeaseSafety'
<1> USE MaxIdAssumption
<1> SUFFICES ASSUME TypeOK, EntryInv, LeaseSafety, [Next]_vars PROVE LeaseSafety'
  OBVIOUS
<1> USE DEF TypeOK, LeaseSafety, Lease, Ids, Current
<1>1. CASE UNCHANGED vars
  BY <1>1 DEF vars
<1>2. ASSUME NEW r \in Resources, NEW o \in Owners, NEW p \in Access, BeginAcquisition(r, o, p)
      PROVE LeaseSafety'
  BY <1>2 DEF BeginAcquisition, Update
<1>3. ASSUME NEW r \in Resources, NEW g \in Ids, Rewrite(r, g) PROVE LeaseSafety'
  <2> USE DEF Entry, Update
  <2>1. CASE AcknowledgeOwnership(r, g)
    BY <2>1 DEF AcknowledgeOwnership, CanAcknowledge
  <2>2. CASE Ready(r, g)
    BY <2>2 DEF Ready, CanReady
  <2>3. CASE AcquireFailed(r, g)
    BY <2>3 DEF AcquireFailed, CanAcquireFail
  <2>4. CASE Cancel(r, g)
    BY <2>4 DEF Cancel, CanCancel
  <2>5. CASE BeginRelease(r, g)
    <3>1. \A l \in leases : l.res # r
      BY <2>5 DEF BeginRelease, CanBeginRelease, LeasesOn
    <3>2. QED
      BY <2>5, <3>1 DEF BeginRelease
  <2>6. ASSUME NEW succeeded \in BOOLEAN, FinishRelease(r, g, succeeded) PROVE LeaseSafety'
    BY <2>6 DEF FinishRelease, CanFinishRelease
  <2>7. QED
    BY <1>3, <2>1, <2>2, <2>3, <2>4, <2>5, <2>6 DEF Rewrite
<1>4. ASSUME NEW r \in Resources, NEW g \in Ids, NEW o \in Owners, Reacquire(r, g, o)
      PROVE LeaseSafety'
  BY <1>4 DEF Reacquire, Update
<1>5. ASSUME NEW r \in Resources, NEW g \in Ids, NEW o \in Owners, NEW a \in Access,
             TakeLease(r, g, o, a)
      PROVE LeaseSafety'
  BY <1>5 DEF TakeLease, CanLease, Fresh
<1>6. ASSUME NEW l \in leases, ReleaseLease(l) PROVE LeaseSafety'
  BY <1>6 DEF ReleaseLease
<1>7. ASSUME NEW o \in Owners, ValidateOwnerFinished(o) PROVE LeaseSafety'
  BY <1>7 DEF ValidateOwnerFinished
<1>8. QED
  BY <1>1, <1>2, <1>3, <1>4, <1>5, <1>6, <1>7 DEF Next, Rewrite

\* A step keeps holders of one resource compatible; the policy survives rewrites.
LEMMA AccessStep ==
  TypeOK /\ EntryInv /\ LeaseSafety /\ AccessSafety /\ [Next]_vars => AccessSafety'
<1> USE MaxIdAssumption
<1> SUFFICES ASSUME TypeOK, EntryInv, LeaseSafety, AccessSafety, [Next]_vars PROVE AccessSafety'
  OBVIOUS
<1> USE DEF TypeOK, AccessSafety
<1>1. CASE UNCHANGED vars
  BY <1>1 DEF vars
<1>2. ASSUME NEW r \in Resources, NEW o \in Owners, NEW p \in Access, BeginAcquisition(r, o, p)
      PROVE AccessSafety'
  BY <1>2 DEF BeginAcquisition, Update, LeaseSafety, Current, Lease
<1>3. ASSUME NEW r \in Resources, NEW g \in Ids, Rewrite(r, g) PROVE AccessSafety'
  <2>1. leases' = leases /\ \A s \in Resources : entries'[s].policy = entries[s].policy
    BY <1>3, Rewritten DEF Update
  <2>2. QED
    BY <2>1 DEF Lease
<1>4. ASSUME NEW r \in Resources, NEW g \in Ids, NEW o \in Owners, Reacquire(r, g, o)
      PROVE AccessSafety'
  BY <1>4 DEF Reacquire, Update, LeaseSafety, Lease
<1>5. ASSUME NEW r \in Resources, NEW g \in Ids, NEW o \in Owners, NEW a \in Access,
             TakeLease(r, g, o, a)
      PROVE AccessSafety'
  BY <1>5 DEF TakeLease, CanLease, LeasesOn, Access
<1>6. ASSUME NEW l \in leases, ReleaseLease(l) PROVE AccessSafety'
  BY <1>6 DEF ReleaseLease
<1>7. ASSUME NEW o \in Owners, ValidateOwnerFinished(o) PROVE AccessSafety'
  BY <1>7 DEF ValidateOwnerFinished
<1>8. QED
  BY <1>1, <1>2, <1>3, <1>4, <1>5, <1>6, <1>7 DEF Next, Rewrite

\* A step gives nothing to a finished owner and reopens nothing it owned.
LEMMA FinishedStep == TypeOK /\ EntryInv /\ FinishedInv /\ [Next]_vars => FinishedInv'
<1> USE MaxIdAssumption
<1> SUFFICES ASSUME TypeOK, EntryInv, FinishedInv, [Next]_vars PROVE FinishedInv'
  OBVIOUS
<1> USE DEF TypeOK, EntryInv, FinishedInv, OwnerFinished, Entry, Update, Current
<1>1. CASE UNCHANGED vars
  BY <1>1 DEF vars
<1>2. ASSUME NEW r \in Resources, NEW o \in Owners \ finished, NEW p \in Access,
             BeginAcquisition(r, o, p)
      PROVE FinishedInv'
  BY <1>2 DEF BeginAcquisition, Acquiring
<1>3. ASSUME NEW r \in Resources, NEW g \in Ids, Rewrite(r, g) PROVE FinishedInv'
  <2>1. CASE AcknowledgeOwnership(r, g)
    BY <2>1 DEF AcknowledgeOwnership, CanAcknowledge
  <2>2. CASE Ready(r, g)
    BY <2>2 DEF Ready, CanReady
  <2>3. CASE AcquireFailed(r, g)
    BY <2>3 DEF AcquireFailed, CanAcquireFail
  <2>4. CASE Cancel(r, g)
    BY <2>4 DEF Cancel, CanCancel
  <2>5. CASE BeginRelease(r, g)
    BY <2>5 DEF BeginRelease, CanBeginRelease
  <2>6. ASSUME NEW succeeded \in BOOLEAN, FinishRelease(r, g, succeeded) PROVE FinishedInv'
    BY <2>6 DEF FinishRelease, CanFinishRelease
  <2>7. QED
    BY <1>3, <2>1, <2>2, <2>3, <2>4, <2>5, <2>6 DEF Rewrite
<1>4. ASSUME NEW r \in Resources, NEW g \in Ids, NEW o \in Owners \ finished, Reacquire(r, g, o)
      PROVE FinishedInv'
  BY <1>4 DEF Reacquire, Acquiring
<1>5. ASSUME NEW r \in Resources, NEW g \in Ids, NEW o \in Owners \ finished, NEW a \in Access,
             TakeLease(r, g, o, a)
      PROVE FinishedInv'
  BY <1>5 DEF TakeLease
<1>6. ASSUME NEW l \in leases, ReleaseLease(l) PROVE FinishedInv'
  BY <1>6 DEF ReleaseLease
<1>7. ASSUME NEW o \in Owners, ValidateOwnerFinished(o) PROVE FinishedInv'
  BY <1>7 DEF ValidateOwnerFinished
<1>8. QED
  BY <1>1, <1>2, <1>3, <1>4, <1>5, <1>6, <1>7 DEF Next, Rewrite

\* A step issues a lease under a fresh id.
LEMMA LeaseIdStep == TypeOK /\ LeaseIdInv /\ [Next]_vars => LeaseIdInv'
<1> SUFFICES ASSUME TypeOK, LeaseIdInv, [Next]_vars PROVE LeaseIdInv'
  OBVIOUS
<1>1. CASE leases' \subseteq leases
  BY <1>1 DEF LeaseIdInv
<1>2. ASSUME NEW r \in Resources, NEW g \in Ids, NEW o \in Owners, NEW a \in Access,
             TakeLease(r, g, o, a)
      PROVE LeaseIdInv'
  BY <1>2 DEF TakeLease, LeaseIdInv, TypeOK, Lease, Ids
<1>3. QED
  BY <1>1, <1>2
     DEF Next, vars, BeginAcquisition, AcknowledgeOwnership, Ready, AcquireFailed, Cancel,
         BeginRelease, FinishRelease, Reacquire, ReleaseLease, ValidateOwnerFinished

-----------------------------------------------------------------------------
(* The invariant and what follows from it                                  *)

\* Inv holds of the empty registry and every accepted call keeps it.
THEOREM Invariance == Spec => []Inv
<1>1. Init => Inv
  BY MaxIdAssumption, OwnersAssumption
     DEF Init, Inv, TypeOK, EntryInv, LeaseSafety, AccessSafety, FinishedInv, LeaseIdInv,
         Acquiring, Entry, Lease, Ids, Access
<1>2. Inv /\ [Next]_vars => Inv'
  BY TypeStep, EntryStep, LeaseStep, AccessStep, FinishedStep, LeaseIdStep DEF Inv
<1>3. QED
  BY <1>1, <1>2, PTL DEF Spec

\* State types; ids and generations are never handed out twice.
THEOREM TypeCorrect == Spec => []TypeOK
<1>1. Inv => TypeOK
  BY DEF Inv
<1>2. QED
  BY <1>1, Invariance, PTL

\* begin_release() and reacquire(): no lease survives into a teardown or a
\* later generation of its resource.
THEOREM LeasesSafe == Spec => []LeaseSafety
<1>1. Inv => LeaseSafety
  BY DEF Inv
<1>2. QED
  BY <1>1, Invariance, PTL

\* lease(): an exclusive holder is alone, and sharing is the policy's choice.
THEOREM ExclusiveMeansAlone == Spec => []AccessSafety
<1>1. Inv => AccessSafety
  BY DEF Inv
<1>2. QED
  BY <1>1, Invariance, PTL

\* An owned handle leaves "Pending" by begin_release() alone, so at most once.
THEOREM TornDownOnce == Spec => []TeardownOnce
<1>1. Inv => TeardownOnce
  BY DEF Inv, EntryInv, TeardownOnce
<1>2. QED
  BY <1>1, Invariance, PTL

\* validate_owner_finished(): its Ok is final for everything the owner has.
THEOREM FinishedForGood == Spec => []FinishedOwnerHoldsNothing
<1>1. Inv => FinishedOwnerHoldsNothing
  <2> SUFFICES ASSUME Inv, NEW o \in finished PROVE FinishedOwnerHoldsNothing!(o)
    BY DEF FinishedOwnerHoldsNothing
  <2> USE DEF Inv, TypeOK, EntryInv, LeaseSafety, FinishedInv, OwnerFinished, Current, Lease, Ids
  <2>1. \A l \in leases : o \notin {l.owner, entries[l.res].owner}
    OBVIOUS
  <2>2. \A r \in Resources : (entries[r].gen # 0 /\ entries[r].owner = o) =>
          /\ entries[r].acquisition # "Ready" \/ entries[r].teardown \in {"Released", "Failed"}
          /\ entries[r].owned => <<r, entries[r].gen>> \in begun
    OBVIOUS
  <2>3. QED
    BY <2>1, <2>2 DEF FinishedOwnerHoldsNothing
<1>2. QED
  BY <1>1, Invariance, PTL

\* cancel(): ready() and lease() refuse a cancelled generation, and only a new
\* generation is free of the cancellation.
THEOREM CancelledStaysBack == Spec => CancelledNotHandedOut
<1> DEFINE Kept(r) ==
      entries[r].cancelled /\ entries'[r].gen = entries[r].gen =>
        /\ entries'[r].cancelled
        /\ entries[r].acquisition # "Ready" => entries'[r].acquisition # "Ready"
        /\ {l \in leases' : l.res = r} \subseteq leases
<1>1. Inv /\ [Next]_vars => \A r \in Resources : Kept(r)
  <2> SUFFICES ASSUME Inv, [Next]_vars, NEW s \in Resources PROVE Kept(s)
    OBVIOUS
  <2> USE MaxIdAssumption DEF Inv, TypeOK, Entry
  <2>1. CASE UNCHANGED vars
    BY <2>1 DEF vars
  <2>2. ASSUME NEW r \in Resources, NEW o \in Owners, NEW p \in Access, BeginAcquisition(r, o, p)
        PROVE Kept(s)
    BY <2>2 DEF BeginAcquisition, Fresh, Update, Acquiring
  <2>3. ASSUME NEW r \in Resources, NEW g \in Ids, Rewrite(r, g) PROVE Kept(s)
    <3>1. CASE AcknowledgeOwnership(r, g)
      BY <3>1 DEF AcknowledgeOwnership, Update
    <3>2. CASE Ready(r, g)
      BY <3>2 DEF Ready, CanReady, Update
    <3>3. CASE AcquireFailed(r, g)
      BY <3>3 DEF AcquireFailed, Update
    <3>4. CASE Cancel(r, g)
      BY <3>4 DEF Cancel, Update
    <3>5. CASE BeginRelease(r, g)
      BY <3>5 DEF BeginRelease, Update
    <3>6. ASSUME NEW succeeded \in BOOLEAN, FinishRelease(r, g, succeeded) PROVE Kept(s)
      BY <3>6 DEF FinishRelease, Update
    <3>7. QED
      BY <2>3, <3>1, <3>2, <3>3, <3>4, <3>5, <3>6 DEF Rewrite
  <2>4. ASSUME NEW r \in Resources, NEW g \in Ids, NEW o \in Owners, Reacquire(r, g, o)
        PROVE Kept(s)
    BY <2>4 DEF Reacquire, Fresh, Update, Acquiring
  <2>5. ASSUME NEW r \in Resources, NEW g \in Ids, NEW o \in Owners, NEW a \in Access,
               TakeLease(r, g, o, a)
        PROVE Kept(s)
    BY <2>5 DEF TakeLease, CanLease
  <2>6. ASSUME NEW l \in leases, ReleaseLease(l) PROVE Kept(s)
    BY <2>6 DEF ReleaseLease
  <2>7. ASSUME NEW o \in Owners, ValidateOwnerFinished(o) PROVE Kept(s)
    BY <2>7 DEF ValidateOwnerFinished
  <2>8. QED
    BY <2>1, <2>2, <2>3, <2>4, <2>5, <2>6, <2>7 DEF Next, Rewrite
<1>2. QED
  BY <1>1, Invariance, PTL DEF Spec, CancelledNotHandedOut

-----------------------------------------------------------------------------
(* The registry implements the abstract life of a resource                 *)

Stage(r) == StageOf(entries[r])
UsersOf(r) == {l.id : l \in {m \in leases : m.res = r}}

\* Only a usable resource has users.
LEMMA UsersOnlyWhileUsable ==
  ASSUME TypeOK, LeaseSafety, NEW r \in Resources, Stage(r) # "usable"
  PROVE  UsersOf(r) = {}
BY DEF UsersOf, LeaseSafety, Current, Stage, StageOf, TypeOK, Lease, Entry

\* One rewritten entry moves its resource to the stage of the new entry and
\* leaves the others where they are.
LEMMA RewriteMoves ==
  ASSUME TypeOK, NEW r \in Resources, NEW e, entries' = [entries EXCEPT ![r] = e],
         leases' = leases, UsersOf(r) = {}, NEW from, Stage(r) \in from
  PROVE  Lifecycle!Move(r, from, StageOf(e))
<1>1. [s \in Resources |-> StageOf(entries'[s])]
        = [[s \in Resources |-> StageOf(entries[s])] EXCEPT ![r] = StageOf(e)]
  BY DEF TypeOK
<1>2. QED
  BY <1>1 DEF Lifecycle!Move, Stage, UsersOf

\* A rewritten entry at the same stage is a stutter.
LEMMA RewriteStutters ==
  ASSUME TypeOK, NEW r \in Resources, NEW e, entries' = [entries EXCEPT ![r] = e],
         leases' = leases, StageOf(e) = Stage(r)
  PROVE  UNCHANGED Lifecycle!vars
<1>1. \A s \in Resources : StageOf(entries'[s]) = StageOf(entries[s])
  BY DEF TypeOK, Stage
<1>2. QED
  BY <1>1 DEF Lifecycle!vars

\* Every accepted call is a move, the start or end of a use, or invisible.
LEMMA LifecycleStep == Inv /\ [Next]_vars => [Lifecycle!Next]_(Lifecycle!vars)
<1> USE MaxIdAssumption
<1> SUFFICES ASSUME Inv, [Next]_vars PROVE Lifecycle!Next \/ UNCHANGED Lifecycle!vars
  OBVIOUS
<1>0. TypeOK /\ EntryInv /\ LeaseSafety /\ LeaseIdInv
  BY DEF Inv
<1> USE <1>0
<1>1. CASE UNCHANGED vars
  BY <1>1 DEF vars, Lifecycle!vars
<1>2. ASSUME NEW r \in Resources, NEW o \in Owners, NEW p \in Access, BeginAcquisition(r, o, p)
      PROVE Lifecycle!Next
  <2> DEFINE e == Acquiring(nextId, o, p)
  <2>1. Stage(r) \in {"free"} /\ StageOf(e) = "acquiring"
    BY <1>2 DEF BeginAcquisition, Stage, StageOf, Acquiring, TypeOK
  <2>2. entries' = [entries EXCEPT ![r] = e] /\ leases' = leases
    BY <1>2 DEF BeginAcquisition, Update
  <2>3. Lifecycle!Move(r, {"free"}, "acquiring")
    BY <2>1, <2>2, UsersOnlyWhileUsable, RewriteMoves
  <2>4. QED
    BY <2>3 DEF Lifecycle!Next
<1>3. ASSUME NEW r \in Resources, NEW g \in Ids, Rewrite(r, g)
      PROVE Lifecycle!Next \/ UNCHANGED Lifecycle!vars
  <2> USE DEF Stage, StageOf, TypeOK, EntryInv, Entry, Current, Update
  <2>1. CASE AcknowledgeOwnership(r, g)
    <3> DEFINE e == [entries[r] EXCEPT !.owned = TRUE]
    <3>1. Stage(r) \in {"acquiring"} /\ StageOf(e) = "owned"
      BY <2>1 DEF AcknowledgeOwnership, CanAcknowledge
    <3>2. entries' = [entries EXCEPT ![r] = e] /\ leases' = leases
      BY <2>1 DEF AcknowledgeOwnership
    <3> HIDE DEF Stage, StageOf, TypeOK, EntryInv, Entry, Current, Update, e
    <3>3. Lifecycle!Move(r, {"acquiring"}, "owned")
      BY <3>1, <3>2, UsersOnlyWhileUsable, RewriteMoves
    <3>4. QED
      BY <3>3 DEF Lifecycle!Next
  <2>2. CASE Ready(r, g)
    <3> DEFINE e == [entries[r] EXCEPT !.acquisition = "Ready"]
    <3>1. Stage(r) \in {"owned"} /\ StageOf(e) = "usable"
      BY <2>2 DEF Ready, CanReady
    <3>2. entries' = [entries EXCEPT ![r] = e] /\ leases' = leases
      BY <2>2 DEF Ready
    <3> HIDE DEF Stage, StageOf, TypeOK, EntryInv, Entry, Current, Update, e
    <3>3. Lifecycle!Move(r, {"owned"}, "usable")
      BY <3>1, <3>2, UsersOnlyWhileUsable, RewriteMoves
    <3>4. QED
      BY <3>3 DEF Lifecycle!Next
  <2>3. CASE AcquireFailed(r, g) /\ entries[r].owned
    <3> DEFINE e == [entries[r] EXCEPT !.acquisition = "Failed",
                                       !.teardown = IF entries[r].owned THEN @ ELSE "Released"]
    <3>1. StageOf(e) = Stage(r)
      BY <2>3 DEF AcquireFailed, CanAcquireFail
    <3>2. entries' = [entries EXCEPT ![r] = e] /\ leases' = leases
      BY <2>3 DEF AcquireFailed
    <3> HIDE DEF Stage, StageOf, TypeOK, EntryInv, Entry, Current, Update, e
    <3>3. QED
      BY <3>1, <3>2, RewriteStutters
  <2>4. CASE AcquireFailed(r, g) /\ ~entries[r].owned
    <3> DEFINE e == [entries[r] EXCEPT !.acquisition = "Failed",
                                       !.teardown = IF entries[r].owned THEN @ ELSE "Released"]
    <3>1. Stage(r) \in {"acquiring"} /\ StageOf(e) = "free"
      BY <2>4 DEF AcquireFailed, CanAcquireFail
    <3>2. entries' = [entries EXCEPT ![r] = e] /\ leases' = leases
      BY <2>4 DEF AcquireFailed
    <3> HIDE DEF Stage, StageOf, TypeOK, EntryInv, Entry, Current, Update, e
    <3>3. Lifecycle!Move(r, {"acquiring"}, "free")
      BY <3>1, <3>2, UsersOnlyWhileUsable, RewriteMoves
    <3>4. QED
      BY <3>3 DEF Lifecycle!Next
  <2>5. CASE Cancel(r, g)
    <3> DEFINE e == [entries[r] EXCEPT !.cancelled = TRUE]
    <3>1. StageOf(e) = Stage(r)
      BY <2>5 DEF Cancel
    <3>2. entries' = [entries EXCEPT ![r] = e] /\ leases' = leases
      BY <2>5 DEF Cancel
    <3> HIDE DEF Stage, StageOf, TypeOK, EntryInv, Entry, Current, Update, e
    <3>3. QED
      BY <3>1, <3>2, RewriteStutters
  <2>6. CASE BeginRelease(r, g)
    <3> DEFINE e == [entries[r] EXCEPT !.teardown = "Releasing"]
    <3>1. Stage(r) \in {"owned", "usable"} /\ StageOf(e) = "teardown"
      BY <2>6 DEF BeginRelease, CanBeginRelease
    <3>2. entries' = [entries EXCEPT ![r] = e] /\ leases' = leases
      BY <2>6 DEF BeginRelease
    <3>3. UsersOf(r) = {}
      BY <2>6 DEF BeginRelease, CanBeginRelease, LeasesOn, UsersOf, LeaseSafety
    <3> HIDE DEF Stage, StageOf, TypeOK, EntryInv, Entry, Current, Update, e
    <3>4. Lifecycle!Move(r, {"owned", "usable"}, "teardown")
      BY <3>1, <3>2, <3>3, RewriteMoves
    <3>5. QED
      BY <3>4 DEF Lifecycle!Next
  <2>7. ASSUME NEW succeeded \in BOOLEAN, FinishRelease(r, g, succeeded) PROVE Lifecycle!Next
    <3> DEFINE e == [entries[r] EXCEPT !.teardown = IF succeeded THEN "Released" ELSE "Failed"]
    <3>1. Stage(r) \in {"teardown"} /\ StageOf(e) \in {"free", "lost"}
      BY <2>7 DEF FinishRelease, CanFinishRelease
    <3>2. entries' = [entries EXCEPT ![r] = e] /\ leases' = leases
      BY <2>7 DEF FinishRelease
    <3> HIDE DEF Stage, StageOf, TypeOK, EntryInv, Entry, Current, Update, e
    <3>3. Lifecycle!Move(r, {"teardown"}, StageOf(e))
      BY <3>1, <3>2, UsersOnlyWhileUsable, RewriteMoves
    <3>4. QED
      BY <3>1, <3>3 DEF Lifecycle!Next
  <2>8. QED
    BY <1>3, <2>1, <2>2, <2>3, <2>4, <2>5, <2>6, <2>7 DEF Rewrite
<1>4. ASSUME NEW r \in Resources, NEW g \in Ids, NEW o \in Owners, Reacquire(r, g, o)
      PROVE Lifecycle!Next
  <2> DEFINE e == Acquiring(nextId, o, entries[r].policy)
  <2>1. Stage(r) \in {"free"} /\ StageOf(e) = "acquiring"
    BY <1>4 DEF Reacquire, Stage, StageOf, Acquiring, TypeOK
  <2>2. entries' = [entries EXCEPT ![r] = e] /\ leases' = leases
    BY <1>4 DEF Reacquire, Update
  <2>3. Lifecycle!Move(r, {"free"}, "acquiring")
    BY <2>1, <2>2, UsersOnlyWhileUsable, RewriteMoves
  <2>4. QED
    BY <2>3 DEF Lifecycle!Next
<1>5. ASSUME NEW r \in Resources, NEW g \in Ids, NEW o \in Owners, NEW a \in Access,
             TakeLease(r, g, o, a)
      PROVE Lifecycle!Next
  <2> DEFINE lease == [id |-> nextId, res |-> r, gen |-> g, owner |-> o, access |-> a]
  <2>1. PICK u \in Ids : u = nextId
    BY <1>5 DEF TakeLease, Fresh, TypeOK, Ids
  <2>2. Stage(r) = "usable"
    BY <1>5 DEF TakeLease, CanLease, Current, Stage, StageOf, TypeOK, Entry, Ids
  <2>3. /\ leases' = leases \cup {lease} /\ entries' = entries
        /\ lease.res = r /\ lease.id = u
    BY <1>5, <2>1 DEF TakeLease
  <2>4. u \notin UsersOf(r)
    BY <2>1 DEF UsersOf, TypeOK, Lease, Ids
  <2> HIDE DEF lease
  <2>5. \A s \in Resources : {l.id : l \in {m \in leases' : m.res = s}}
          = IF s = r THEN UsersOf(s) \cup {u} ELSE UsersOf(s)
    BY <2>3 DEF UsersOf
  <2>6. Lifecycle!StartUse(r, u)
    <3>1. [s \in Resources |-> StageOf(entries[s])][r] = "usable"
      BY <2>2 DEF Stage
    <3>2. [s \in Resources |-> StageOf(entries'[s])] = [s \in Resources |-> StageOf(entries[s])]
      BY <2>3
    <3>3. u \notin [s \in Resources |-> UsersOf(s)][r]
      BY <2>4
    <3>4. [s \in Resources |-> {l.id : l \in {m \in leases' : m.res = s}}]
            = [[s \in Resources |-> UsersOf(s)] EXCEPT ![r] = @ \cup {u}]
      BY <2>5
    <3>5. QED
      BY <3>1, <3>2, <3>3, <3>4 DEF Lifecycle!StartUse, UsersOf
  <2>7. QED
    BY <2>6 DEF Lifecycle!Next
<1>6. ASSUME NEW l \in leases, ReleaseLease(l) PROVE Lifecycle!Next
  <2>1. l.res \in Resources /\ l.id \in Ids /\ l.id \in UsersOf(l.res)
    BY DEF TypeOK, Lease, UsersOf
  <2>2. leases' = leases \ {l} /\ entries' = entries
    BY <1>6 DEF ReleaseLease
  <2>3. \A s \in Resources : {k.id : k \in {m \in leases' : m.res = s}}
          = IF s = l.res THEN UsersOf(s) \ {l.id} ELSE UsersOf(s)
    BY <2>2 DEF UsersOf, LeaseIdInv
  <2>4. Lifecycle!StopUse(l.res, l.id)
    <3>1. l.id \in [s \in Resources |-> UsersOf(s)][l.res]
      BY <2>1
    <3>2. [s \in Resources |-> StageOf(entries'[s])] = [s \in Resources |-> StageOf(entries[s])]
      BY <2>2
    <3>3. [s \in Resources |-> {k.id : k \in {m \in leases' : m.res = s}}]
            = [[s \in Resources |-> UsersOf(s)] EXCEPT ![l.res] = @ \ {l.id}]
      BY <2>1, <2>3
    <3>4. QED
      BY <3>1, <3>2, <3>3 DEF Lifecycle!StopUse, UsersOf
  <2>5. QED
    BY <2>1, <2>4 DEF Lifecycle!Next
<1>7. ASSUME NEW o \in Owners, ValidateOwnerFinished(o) PROVE UNCHANGED Lifecycle!vars
  BY <1>7 DEF ValidateOwnerFinished, Lifecycle!vars
<1>8. QED
  BY <1>1, <1>2, <1>3, <1>4, <1>5, <1>6, <1>7 DEF Next, Rewrite

\* However its methods are called, every entry is acquired, used while usable,
\* torn down once nobody uses it, and acquired again only after that succeeded.
THEOREM Implements == Spec => ImplementsLifecycle
<1>1. Init => Lifecycle!Init
  BY DEF Init, Lifecycle!Init, StageOf, Acquiring
<1>2. Inv /\ [Next]_vars => [Lifecycle!Next]_(Lifecycle!vars)
  BY LifecycleStep
<1>3. QED
  BY <1>1, <1>2, Invariance, PTL DEF Spec, ImplementsLifecycle, Lifecycle!Spec

=============================================================================
