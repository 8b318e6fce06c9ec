--------------------------- MODULE ResourceRegistry ---------------------------
(***************************************************************************)
(* The ownership registry of crates/runtime/src/resources.rs.              *)
(*                                                                         *)
(* The registry is metadata only: acquisition and teardown run outside its *)
(* lock, so any caller may call any method in any order with any key it    *)
(* was ever given.  A call the registry refuses returns an error and       *)
(* changes nothing; each action below is the accepted call.                *)
(***************************************************************************)
EXTENDS Naturals, FiniteSets

CONSTANTS
  Resources,  \* RuntimeResourceIds; begin_acquisition takes an unused one
  Owners,     \* ExecutionScopeIds
  MaxId       \* bound on the ids the registry hands out

ASSUME MaxIdAssumption == MaxId \in Nat
ASSUME OwnersAssumption == Owners # {}

VARIABLES
  nextId,    \* State.next_id
  entries,   \* State.entries; generation 0 is an unused resource id
  leases,    \* State.leases
  begun,     \* history: keys whose teardown was started
  finished   \* history: owners whose validate_owner_finished() succeeded

vars == <<nextId, entries, leases, begun, finished>>

Access == {"Shared", "Exclusive"}
Ids == 1..MaxId
Entry == [gen : 0..MaxId, owner : Owners, policy : Access,
          acquisition : {"Acquiring", "Ready", "Failed"},
          teardown : {"Pending", "Releasing", "Released", "Failed"},
          owned : BOOLEAN, cancelled : BOOLEAN]
Lease == [id : Ids, res : Resources, gen : Ids, owner : Owners, access : Access]

TypeOK ==
  /\ nextId \in 1..(MaxId + 1)
  /\ entries \in [Resources -> Entry]
  /\ \A r \in Resources : entries[r].gen < nextId
  /\ leases \in SUBSET Lease
  /\ \A l \in leases : l.id < nextId
  /\ begun \in SUBSET (Resources \X Ids)
  /\ finished \in SUBSET Owners

Acquiring(g, owner, policy) ==
  [gen |-> g, owner |-> owner, policy |-> policy, acquisition |-> "Acquiring",
   teardown |-> "Pending", owned |-> FALSE, cancelled |-> FALSE]

Init ==
  /\ nextId = 1
  /\ entries = [r \in Resources |-> Acquiring(0, CHOOSE o \in Owners : TRUE, "Exclusive")]
  /\ leases = {}
  /\ begun = {}
  /\ finished = {}

-----------------------------------------------------------------------------
(* Helpers                                                                 *)

\* State::entry: the key names the current generation of a known resource.
Current(r, g) == g # 0 /\ entries[r].gen = g

LeasesOn(r, g) == {l \in leases : l.res = r /\ l.gen = g}

Fresh == nextId <= MaxId /\ nextId' = nextId + 1

Update(r, e) == entries' = [entries EXCEPT ![r] = e]

-----------------------------------------------------------------------------
(* Acquisition                                                             *)

BeginAcquisition(r, o, policy) ==
  /\ entries[r].gen = 0
  /\ Fresh
  /\ Update(r, Acquiring(nextId, o, policy))
  /\ UNCHANGED <<leases, begun, finished>>

CanAcknowledge(r, g) ==
  Current(r, g) /\ entries[r].acquisition = "Acquiring" /\ ~entries[r].owned

AcknowledgeOwnership(r, g) ==
  /\ CanAcknowledge(r, g)
  /\ Update(r, [entries[r] EXCEPT !.owned = TRUE])
  /\ UNCHANGED <<nextId, leases, begun, finished>>

CanReady(r, g) ==
  /\ Current(r, g)
  /\ entries[r].acquisition = "Acquiring"
  /\ entries[r].teardown = "Pending"
  /\ entries[r].owned
  /\ ~entries[r].cancelled

Ready(r, g) ==
  /\ CanReady(r, g)
  /\ Update(r, [entries[r] EXCEPT !.acquisition = "Ready"])
  /\ UNCHANGED <<nextId, leases, begun, finished>>

CanAcquireFail(r, g) == Current(r, g) /\ entries[r].acquisition = "Acquiring"

\* Without ownership there is nothing to tear down.
AcquireFailed(r, g) ==
  /\ CanAcquireFail(r, g)
  /\ Update(r, [entries[r] EXCEPT !.acquisition = "Failed",
                                  !.teardown = IF entries[r].owned THEN @ ELSE "Released"])
  /\ UNCHANGED <<nextId, leases, begun, finished>>

-----------------------------------------------------------------------------
(* Leases                                                                  *)

\* Mutant: only the requested access is compared with the holders.
CanLeaseBesideExclusive(r, g, access) ==
  /\ Current(r, g)
  /\ entries[r].acquisition = "Ready"
  /\ entries[r].teardown = "Pending"
  /\ ~entries[r].cancelled
  /\ access = "Shared" => entries[r].policy = "Shared"
  /\ access = "Shared" \/ LeasesOn(r, g) = {}

\* Mutant: a cancelled resource is still leased.
CanLeaseCancelled(r, g, access) ==
  /\ Current(r, g)
  /\ entries[r].acquisition = "Ready"
  /\ entries[r].teardown = "Pending"
  /\ access = "Shared" => entries[r].policy = "Shared"
  /\ \A l \in LeasesOn(r, g) : access = "Shared" /\ l.access = "Shared"

CanLease(r, g, access) ==
  /\ Current(r, g)
  /\ entries[r].acquisition = "Ready"
  /\ entries[r].teardown = "Pending"
  /\ ~entries[r].cancelled
  /\ access = "Shared" => entries[r].policy = "Shared"
  /\ \A l \in LeasesOn(r, g) : access = "Shared" /\ l.access = "Shared"

TakeLease(r, g, o, access) ==
  /\ CanLease(r, g, access)
  /\ Fresh
  /\ leases' = leases \cup {[id |-> nextId, res |-> r, gen |-> g, owner |-> o, access |-> access]}
  /\ UNCHANGED <<entries, begun, finished>>

ReleaseLease(l) ==
  /\ l \in leases
  /\ Current(l.res, l.gen)
  /\ leases' = leases \ {l}
  /\ UNCHANGED <<nextId, entries, begun, finished>>

-----------------------------------------------------------------------------
(* Cancellation, teardown and reuse                                        *)

CanCancel(r, g) == Current(r, g) /\ entries[r].teardown \notin {"Released", "Failed"}

Cancel(r, g) ==
  /\ CanCancel(r, g)
  /\ Update(r, [entries[r] EXCEPT !.cancelled = TRUE])
  /\ UNCHANGED <<nextId, leases, begun, finished>>

CanBeginRelease(r, g) ==
  /\ Current(r, g)
  /\ LeasesOn(r, g) = {}
  /\ entries[r].acquisition # "Acquiring"
  /\ entries[r].owned
  /\ entries[r].teardown = "Pending"

BeginRelease(r, g) ==
  /\ CanBeginRelease(r, g)
  /\ Update(r, [entries[r] EXCEPT !.teardown = "Releasing"])
  /\ begun' = begun \cup {<<r, g>>}
  /\ UNCHANGED <<nextId, leases, finished>>

CanFinishRelease(r, g) == Current(r, g) /\ entries[r].teardown = "Releasing"

FinishRelease(r, g, succeeded) ==
  /\ CanFinishRelease(r, g)
  /\ Update(r, [entries[r] EXCEPT !.teardown = IF succeeded THEN "Released" ELSE "Failed"])
  /\ UNCHANGED <<nextId, leases, begun, finished>>

\* Mutant: a failed teardown frees the resource as well.
ReacquireFailed(r, g, o) ==
  /\ Current(r, g)
  /\ entries[r].teardown \in {"Released", "Failed"}
  /\ Fresh
  /\ Update(r, Acquiring(nextId, o, entries[r].policy))
  /\ UNCHANGED <<leases, begun, finished>>

\* The access policy survives, everything else starts over.
Reacquire(r, g, o) ==
  /\ Current(r, g)
  /\ entries[r].teardown = "Released"
  /\ Fresh
  /\ Update(r, Acquiring(nextId, o, entries[r].policy))
  /\ UNCHANGED <<leases, begun, finished>>

\* Mutant: a resource that never became ready does not count as live.
OwnerFinishedWhileUnready(o) ==
  /\ \A l \in leases : l.owner # o
  /\ \A r \in Resources :
       (entries[r].gen # 0 /\ entries[r].owner = o) =>
         entries[r].teardown # "Pending" \/ entries[r].acquisition # "Ready"

\* validate_owner_finished(o) answers Ok.
OwnerFinished(o) ==
  /\ \A l \in leases : l.owner # o
  /\ \A r \in Resources :
       (entries[r].gen # 0 /\ entries[r].owner = o) => entries[r].teardown \in {"Released", "Failed"}

ValidateOwnerFinished(o) ==
  /\ OwnerFinished(o)
  /\ finished' = finished \cup {o}
  /\ UNCHANGED <<nextId, entries, leases, begun>>

-----------------------------------------------------------------------------
\* A scope acquires and leases nothing once its owner has finished it.
Next ==
  \/ \E r \in Resources, o \in Owners \ finished, p \in Access : BeginAcquisition(r, o, p)
  \/ \E r \in Resources, g \in Ids :
       \/ AcknowledgeOwnership(r, g) \/ Ready(r, g) \/ AcquireFailed(r, g)
       \/ Cancel(r, g) \/ BeginRelease(r, g)
       \/ \E succeeded \in BOOLEAN : FinishRelease(r, g, succeeded)
       \/ \E o \in Owners \ finished : Reacquire(r, g, o)
       \/ \E o \in Owners \ finished, a \in Access : TakeLease(r, g, o, a)
  \/ \E l \in leases : ReleaseLease(l)
  \/ \E o \in Owners : ValidateOwnerFinished(o)

Spec == Init /\ [][Next]_vars

-----------------------------------------------------------------------------
(* Properties                                                              *)

\* A lease is only ever held on the current generation of a resource that is
\* ready and whose teardown has not started: teardown cannot begin under a
\* lease and no lease leaks into a later generation.
LeaseSafety ==
  \A l \in leases :
    /\ Current(l.res, l.gen)
    /\ entries[l.res].acquisition = "Ready"
    /\ entries[l.res].teardown = "Pending"
    /\ l.gen < l.id

\* Two holders of one resource both share it, and its policy allows sharing.
AccessSafety ==
  \A l, m \in leases :
    (l.id # m.id /\ l.res = m.res /\ l.gen = m.gen) =>
      l.access = "Shared" /\ m.access = "Shared" /\ entries[l.res].policy = "Shared"

\* Ownership ends in exactly one teardown: an owned generation is terminal only
\* if its teardown was started, and a started one is never pending again.
TeardownOnce ==
  \A r \in Resources :
    (entries[r].gen # 0 /\ entries[r].owned) =>
      (entries[r].teardown # "Pending" <=> <<r, entries[r].gen>> \in begun)

\* Once an owner has been validated it holds nothing, and nobody holds a lease on
\* anything it owned, whatever other owners go on to do.
FinishedOwnerHoldsNothing ==
  \A o \in finished :
    /\ \A l \in leases : o \notin {l.owner, entries[l.res].owner}
    /\ \A r \in Resources :
         (entries[r].gen # 0 /\ entries[r].owner = o) =>
           /\ entries[r].acquisition # "Ready" \/ entries[r].teardown \in {"Released", "Failed"}
           /\ entries[r].owned => <<r, entries[r].gen>> \in begun

\* A cancelled generation never becomes ready and gets no further lease.
CancelledNotHandedOut ==
  [][\A r \in Resources : entries[r].cancelled /\ entries'[r].gen = entries[r].gen =>
       /\ entries'[r].cancelled
       /\ entries[r].acquisition # "Ready" => entries'[r].acquisition # "Ready"
       /\ {l \in leases' : l.res = r} \subseteq leases]_vars

-----------------------------------------------------------------------------
(* Refinement: every registry entry goes through the promised life.        *)

StageOf(e) ==
  CASE e.gen = 0 \/ e.teardown = "Released" -> "free"
    [] e.gen # 0 /\ e.teardown = "Failed" -> "lost"
    [] e.gen # 0 /\ e.teardown = "Releasing" -> "teardown"
    [] e.gen # 0 /\ e.teardown = "Pending" ->
         IF e.acquisition = "Ready" THEN "usable" ELSE IF e.owned THEN "owned" ELSE "acquiring"

Lifecycle == INSTANCE ResourceLifecycle WITH
  Users <- Ids,
  stage <- [r \in Resources |-> StageOf(entries[r])],
  users <- [r \in Resources |-> {l.id : l \in {m \in leases : m.res = r}}]

\* The registry implements the abstract life of a resource.
ImplementsLifecycle == Lifecycle!Spec
=============================================================================
