------------------------------ MODULE ProjectInit ------------------------------
(***************************************************************************)
(* The command `webtest init`: initialize() of crates/app/src/init.rs.     *)
(*                                                                         *)
(* Every path of the scaffold is looked at first; with a conflict nothing  *)
(* is written.  Then the missing ones are created, directories before      *)
(* their files, and the skill link last; a failure rolls back what this    *)
(* run created.  Somebody else may write into the same directory all the   *)
(* while.  The content of a path is none, ours (the scaffold's) or theirs; *)
(* who wrote it is kept aside, for the properties.                         *)
(***************************************************************************)
EXTENDS Naturals, Sequences, FiniteSets, SequencesExt

CONSTANTS
  Paths,      \* the scaffold in order: files and, last, the link
  DirOf       \* the directory of each path, or "root"

VARIABLES
  pc, next,   \* where initialize() is, and the index of its next path
  content,    \* of each path
  dirs,       \* directories that exist
  missing,    \* paths found missing
  created, createdDirs,
  by,         \* history: who wrote each path, or its directory, last
  dirsAtStart,   \* history: what there was before
  answer

vars == <<pc, next, content, dirs, missing, created, createdDirs, by, dirsAtStart, answer>>

All == Range(Paths)
Directories == {DirOf[p] : p \in All} \ {"root"}
DirExists(p, ds) == DirOf[p] = "root" \/ DirOf[p] \in ds
States == {"none", "ours", "theirs"}

\* What the proofs assume: the scaffold is a sequence.
ConstantsFit == Paths \in Seq(All) /\ DirOf \in [All -> Directories \cup {"root"}]

Init ==
  /\ pc = "look" /\ next = 1 /\ missing = {} /\ created = {} /\ createdDirs = {} /\ answer = "none"
  /\ content \in [All -> States] /\ dirs \in SUBSET Directories
  /\ \A p \in All : content[p] # "none" => DirExists(p, dirs)
  /\ by = [p \in All |-> IF content[p] = "none" THEN "nobody" ELSE "them"]
  /\ dirsAtStart = dirs

\* existing_file_state(), has_conflicting_parent(), existing_alias_state(), path by path.
Look ==
  /\ pc = "look" /\ next <= Len(Paths)
  /\ LET p == Paths[next] IN
     /\ missing' = IF content[p] = "none" THEN missing \cup {p} ELSE missing
     /\ IF content[p] = "theirs"
        THEN pc' = "over" /\ answer' = "conflict" /\ next' = next
        ELSE /\ answer' = answer /\ pc' = IF next = Len(Paths) THEN "write" ELSE "look"
             /\ next' = IF next = Len(Paths) THEN 1 ELSE next + 1
  /\ UNCHANGED <<content, dirs, created, createdDirs, by, dirsAtStart>>

Fails == pc' = "rollback" /\ UNCHANGED <<next, answer>>
Advances ==
  /\ next' = next + 1
  /\ IF next = Len(Paths) THEN pc' = "over" /\ answer' = "initialized" ELSE UNCHANGED <<pc, answer>>

Skip ==
  /\ pc = "write" /\ Paths[next] \notin missing /\ Advances
  /\ UNCHANGED <<content, dirs, missing, created, createdDirs, by, dirsAtStart>>

\* ensure_directory()
MakeDirectory ==
  /\ pc = "write" /\ Paths[next] \in missing /\ ~DirExists(Paths[next], dirs)
  /\ dirs' = dirs \cup {DirOf[Paths[next]]} /\ createdDirs' = createdDirs \cup {DirOf[Paths[next]]}
  /\ UNCHANGED <<pc, next, content, missing, created, by, dirsAtStart, answer>>

\* Mutant: the file is opened whether it is there or not.
CreateOver ==
  /\ pc = "write" /\ Paths[next] \in missing /\ DirExists(Paths[next], dirs)
  /\ LET p == Paths[next] IN
       content' = [content EXCEPT ![p] = "ours"] /\ created' = created \cup {p}
         /\ by' = [by EXCEPT ![p] = "us"] /\ Advances
  /\ UNCHANGED <<dirs, missing, createdDirs, dirsAtStart>>

\* create_file() with create_new, or the link: what appeared meanwhile is an error.
Create ==
  /\ pc = "write" /\ Paths[next] \in missing /\ DirExists(Paths[next], dirs)
  /\ LET p == Paths[next] IN
     IF content[p] # "none" THEN Fails /\ UNCHANGED <<content, created, by>>
     ELSE /\ content' = [content EXCEPT ![p] = "ours"] /\ created' = created \cup {p}
          /\ by' = [by EXCEPT ![p] = "us"] /\ Advances
  /\ UNCHANGED <<dirs, missing, createdDirs, dirsAtStart>>

\* A directory or a file cannot be made; what was written of the file is removed.
WriteFails ==
  /\ pc = "write" /\ Paths[next] \in missing /\ Fails
  /\ UNCHANGED <<content, dirs, missing, created, createdDirs, by, dirsAtStart>>

\* Mutant: everything that was missing is removed.
RollbackMissing ==
  /\ pc = "rollback" /\ pc' = "over" /\ answer' = "failed"
  /\ content' = [p \in All |-> IF p \in missing THEN "none" ELSE content[p]]
  /\ by' = [p \in All |-> IF p \in missing THEN "nobody" ELSE by[p]]
  /\ dirs' = dirs \ {d \in createdDirs : \A p \in All : DirOf[p] = d => content'[p] = "none"}
  /\ UNCHANGED <<next, missing, created, createdDirs, dirsAtStart>>

\* rollback(): files first, then the directories that are empty again.
Rollback ==
  /\ pc = "rollback" /\ pc' = "over" /\ answer' = "failed"
  /\ content' = [p \in All |-> IF p \in created THEN "none" ELSE content[p]]
  /\ by' = [p \in All |-> IF p \in created THEN "nobody" ELSE by[p]]
  /\ dirs' = dirs \ {d \in createdDirs : \A p \in All : DirOf[p] = d => content'[p] = "none"}
  /\ UNCHANGED <<next, missing, created, createdDirs, dirsAtStart>>

\* Somebody else writes a path that is not there yet.
Theirs(p) ==
  /\ pc # "over" /\ content[p] = "none"
  /\ \E what \in {"ours", "theirs"} : content' = [content EXCEPT ![p] = what]
  /\ dirs' = IF DirOf[p] = "root" THEN dirs ELSE dirs \cup {DirOf[p]}
  /\ by' = [by EXCEPT ![p] = "them"]
  /\ UNCHANGED <<pc, next, missing, created, createdDirs, dirsAtStart, answer>>

Next ==
  \/ Look \/ Skip \/ MakeDirectory \/ Create \/ WriteFails \/ Rollback
  \/ \E p \in All : Theirs(p)

Spec == Init /\ [][Next]_vars

-----------------------------------------------------------------------------
(* Properties                                                              *)

\* A run that did not succeed leaves nothing of its own behind, one that succeeded leaves
\* the whole scaffold,
AllOrNothing ==
  /\ answer \in {"conflict", "failed"} =>
       /\ \A p \in All : by[p] # "us"
       /\ \A d \in dirs \ dirsAtStart : \E p \in All : DirOf[p] = d /\ by[p] = "them"
  /\ answer = "initialized" => \A p \in All : content[p] = "ours"

\* and no step of it takes a path from somebody else, who wrote it before or meanwhile.
TheirsStay == [][\A p \in All : by[p] = "them" => by'[p] = "them" /\ content'[p] = content[p]]_<<by, content>>

InitAllOrNothing == []AllOrNothing /\ TheirsStay
=============================================================================
