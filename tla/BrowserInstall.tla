----------------------------- MODULE BrowserInstall -----------------------------
(***************************************************************************)
(* The managed Chrome of a user's cache directory: install(), clean() and  *)
(* current() of crates/browser-manager/src/lib.rs, by several processes.   *)
(*                                                                         *)
(* Installers share a lock file.  One that is ten minutes old is taken for *)
(* a dead process's and removed, in two steps.  An archive is downloaded,  *)
(* verified, extracted beside the target and renamed onto it.  clean()     *)
(* takes no lock and removes file by file.  A process may die anywhere and *)
(* leave its files.  The target is the set of the files that tell an       *)
(* installation: its marker and its executable.                            *)
(***************************************************************************)
EXTENDS Naturals, FiniteSets

CONSTANTS Installers, Cleaners

VARIABLES
  pc,        \* of each process
  answer,    \* what its call returned
  target,    \* the files of the install directory
  lock,      \* the lock file: none, young or old
  takeover,  \* history: a lock was taken for stale
  cleaned    \* history: a clean has begun to remove

vars == <<pc, answer, target, lock, takeover, cleaned>>

Processes == Installers \cup Cleaners
Whole == {"marker", "executable"}
InLock == {"recheck", "download", "stage", "activate", "confirm"}

Init ==
  /\ pc = [p \in Processes |-> "look"] /\ answer = [p \in Processes |-> "none"]
  /\ target \in {{}, Whole} /\ lock = "none" /\ takeover = FALSE /\ cleaned = FALSE

GoTo(p, label) == pc' = [pc EXCEPT ![p] = label] /\ answer' = answer
Return(p, what) == pc' = [pc EXCEPT ![p] = "over"] /\ answer' = [answer EXCEPT ![p] = what]

\* InstallLock::drop() removes the file at its path, whoever made it.
Release == lock' = "none"

-----------------------------------------------------------------------------
(* install()                                                               *)

Look(p) ==
  /\ pc[p] = "look"
  /\ IF target = Whole THEN Return(p, "installed") ELSE GoTo(p, "lock")
  /\ UNCHANGED <<target, lock, takeover, cleaned>>

Acquire(p) ==
  /\ pc[p] = "lock" /\ lock = "none" /\ lock' = "young" /\ GoTo(p, "recheck")
  /\ UNCHANGED <<target, takeover, cleaned>>

FindsStale(p) ==
  /\ pc[p] = "lock" /\ lock = "old" /\ GoTo(p, "stale") /\ takeover' = TRUE
  /\ UNCHANGED <<target, lock, cleaned>>

RemoveStale(p) ==
  /\ pc[p] = "stale" /\ lock' = "none" /\ GoTo(p, "lock")
  /\ UNCHANGED <<target, takeover, cleaned>>

LockTimesOut(p) ==
  /\ pc[p] = "lock" /\ lock = "young" /\ Return(p, "lock timeout")
  /\ UNCHANGED <<target, lock, takeover, cleaned>>

\* Mutant: the double check under the lock is left out.
RecheckSkipped(p) ==
  /\ pc[p] = "recheck" /\ GoTo(p, "download") /\ UNCHANGED <<target, lock, takeover, cleaned>>

Recheck(p) ==
  /\ pc[p] = "recheck"
  /\ IF target = Whole THEN Return(p, "installed") /\ Release
     ELSE GoTo(p, "download") /\ UNCHANGED lock
  /\ UNCHANGED <<target, takeover, cleaned>>

\* The archive arrives and has the release's checksum, and is extracted and marked in a
\* directory of its own.
Proceeds(p, from, to) ==
  /\ pc[p] = from /\ GoTo(p, to) /\ UNCHANGED <<target, lock, takeover, cleaned>>
Download(p) == Proceeds(p, "download", "stage")
Stage(p) == Proceeds(p, "stage", "activate")

\* The connection, the checksum, the archive, the disk: the temporary files go, the lock too.
InstallFails(p) ==
  /\ pc[p] \in {"download", "stage"} /\ Return(p, "failed") /\ Release
  /\ UNCHANGED <<target, takeover, cleaned>>

\* Mutant: the archive is extracted in place and marked afterwards.
ActivateInPlace(p) ==
  /\ pc[p] = "activate"
  /\ IF target = {} THEN target' = {"marker"} /\ pc' = [pc EXCEPT ![p] = "activate"] /\ UNCHANGED <<lock, answer>>
     ELSE target' = Whole /\ GoTo(p, "confirm") /\ UNCHANGED lock
  /\ UNCHANGED <<takeover, cleaned>>

\* A rename replaces an empty directory and no other.
Activate(p) ==
  /\ pc[p] = "activate"
  /\ IF target = {} THEN target' = Whole /\ GoTo(p, "confirm") /\ UNCHANGED lock
     ELSE Return(p, "not activated") /\ Release /\ UNCHANGED target
  /\ UNCHANGED <<takeover, cleaned>>

Confirm(p) ==
  /\ pc[p] = "confirm"
  /\ Return(p, IF target = Whole THEN "installed" ELSE "missing") /\ Release
  /\ UNCHANGED <<target, takeover, cleaned>>

-----------------------------------------------------------------------------
(* clean(), death and time                                                 *)

\* list() and validate_owned_directory() both need the marker, list() the executable too.
List(c) ==
  /\ pc[c] = "look"
  /\ IF target = Whole THEN GoTo(c, "validate") ELSE Return(c, "nothing")
  /\ UNCHANGED <<target, lock, takeover, cleaned>>

Validate(c) ==
  /\ pc[c] = "validate"
  /\ IF "marker" \in target THEN GoTo(c, "remove") ELSE Return(c, "unowned")
  /\ UNCHANGED <<target, lock, takeover, cleaned>>

\* remove_dir_all(), in the order the directory lists its files; a second clean that meets a
\* file that is gone fails.
Remove(c) ==
  /\ pc[c] = "remove" /\ cleaned' = TRUE
  /\ \/ \E f \in target : target' = target \ {f} /\ GoTo(c, "remove")
     \/ target = {} /\ Return(c, "removed") /\ UNCHANGED target
     \/ target # Whole /\ Return(c, "not removed") /\ UNCHANGED target
  /\ UNCHANGED <<lock, takeover>>

\* The process dies where it is.
Die(p) ==
  /\ pc[p] # "over" /\ Return(p, "died")
  /\ UNCHANGED <<target, lock, takeover, cleaned>>

\* A lock file becomes LOCK_STALE_AFTER old, its owner alive or not.
LockAges ==
  /\ lock = "young" /\ lock' = "old"
  /\ UNCHANGED <<pc, answer, target, takeover, cleaned>>

Install(p) ==
  \/ Look(p) \/ Acquire(p) \/ FindsStale(p) \/ RemoveStale(p) \/ LockTimesOut(p) \/ Recheck(p)
  \/ Download(p) \/ Stage(p) \/ InstallFails(p) \/ Activate(p) \/ Confirm(p)
Clean(c) == List(c) \/ Validate(c) \/ Remove(c)

Next ==
  \/ \E p \in Installers : Install(p)
  \/ \E c \in Cleaners : Clean(c)
  \/ \E p \in Processes : Die(p)
  \/ LockAges

Spec == Init /\ [][Next]_vars

-----------------------------------------------------------------------------
(* Properties                                                              *)

\* Nobody ever finds half an installation: without a clean the directory is empty or whole,
\* whoever died or took over a lock; one process downloads at a time while no lock is taken
\* for stale, and then an activation can fail only on what a clean left.
InstallWhole ==
  /\ ~cleaned => target \in {{}, Whole}
  /\ ~takeover => Cardinality({p \in Installers : pc[p] \in InLock}) <= 1
  /\ \A p \in Installers : answer[p] \in {"not activated", "missing"} => takeover \/ cleaned
=============================================================================
