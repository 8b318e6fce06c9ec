-------------------------- MODULE EditorDiagnostics --------------------------
(***************************************************************************)
(* Open documents, runs and reloads behind the language server: Backend of *)
(* crates/lsp, EditorService of crates/editor over the AnalysisDatabase,   *)
(* LspProjectEditors of crates/app, and the ObservationStore that runs     *)
(* complete.                                                               *)
(*                                                                         *)
(* The handlers are polled by one task, each until it awaits; a publication*)
(* is queued where it is computed.  A run is started and completed by its  *)
(* own handler and may be overtaken by edits, reloads and other runs.  All *)
(* documents are of one project.  A file id is not used again: a closed    *)
(* document has none, and an opened one gets a new one (its generation).   *)
(***************************************************************************)
EXTENDS Naturals, FiniteSets

CONSTANTS
  Docs,
  Revisions, Broken,             \* source texts; those with static errors
  MaxEdits, MaxRuns, MaxReloads  \* bounds

VARIABLES
  text,        \* of a document, or "closed"
  generation,  \* of the document's file
  version,     \* of the document, counts its edits
  config,      \* the configuration, by number
  runs,        \* each run: its document, file, revision and configuration
  flying,      \* the runs that have not completed
  latest,      \* latest_executions: the run of each document's file, or 0
  stored,      \* observations, by document and revision: of which run, or 0
  shown,       \* by the client: version and run of the observations, or nothing
  republish    \* the documents a reload has still to publish

documentVars == <<text, generation, version>>
storeVars == <<latest, stored>>
vars == <<documentVars, config, runs, flying, storeVars, shown, republish>>

Open(d) == text[d] # "closed"
Nothing == [version |-> 0, run |-> 0]
Started == Cardinality(DOMAIN runs)
NoObservations == [r \in Revisions |-> 0]

TypeOK ==
  /\ text \in [Docs -> Revisions \cup {"closed"}]
  /\ config \in 0..MaxReloads /\ flying \subseteq DOMAIN runs /\ DOMAIN runs \subseteq 1..MaxRuns
  /\ latest \in [Docs -> 0..MaxRuns] /\ stored \in [Docs -> [Revisions -> 0..MaxRuns]]
  /\ republish \in SUBSET Docs

Init ==
  /\ text = [d \in Docs |-> "closed"] /\ generation = [d \in Docs |-> 0]
  /\ version = [d \in Docs |-> 0] /\ config = 0 /\ runs = <<>> /\ flying = {}
  /\ latest = [d \in Docs |-> 0] /\ stored = [d \in Docs |-> NoObservations]
  /\ shown = [d \in Docs |-> Nothing] /\ republish = {}

\* publish(): the observations of the revision that the text has, under its version.
View(d, texts, versions, store) == [version |-> versions[d], run |-> store[d][texts[d]]]
Publish(d, texts, versions, store) ==
  shown' = IF texts[d] = "closed" THEN shown ELSE [shown EXCEPT ![d] = View(d, texts, versions, store)]

-----------------------------------------------------------------------------
(* Documents                                                               *)

DidOpen(d, r) ==
  /\ ~Open(d) /\ version[d] < MaxEdits
  /\ text' = [text EXCEPT ![d] = r] /\ version' = [version EXCEPT ![d] = @ + 1]
  /\ generation' = [generation EXCEPT ![d] = @ + 1]
  /\ Publish(d, text', version', stored)
  /\ UNCHANGED <<config, runs, flying, storeVars, republish>>

\* The observations of other revisions stay, in case the text comes back.
DidChange(d, r) ==
  /\ Open(d) /\ version[d] < MaxEdits
  /\ text' = [text EXCEPT ![d] = r] /\ version' = [version EXCEPT ![d] = @ + 1]
  /\ Publish(d, text', version', stored)
  /\ UNCHANGED <<generation, config, runs, flying, storeVars, republish>>

\* clear_for_file(): a run of the file that is still going on finds itself outdated.
ClearForFile(d) ==
  latest' = [latest EXCEPT ![d] = 0] /\ stored' = [stored EXCEPT ![d] = NoObservations]

DidClose(d) ==
  /\ Open(d) /\ ClearForFile(d)
  /\ text' = [text EXCEPT ![d] = "closed"] /\ shown' = [shown EXCEPT ![d] = Nothing]
  /\ UNCHANGED <<generation, version, config, runs, flying, republish>>

-----------------------------------------------------------------------------
(* Runs                                                                    *)

\* run_file() up to its first await: begin_execution() outdates every earlier run.
RunFile(d) ==
  /\ Open(d) /\ text[d] \notin Broken /\ Started < MaxRuns
  /\ runs' = [i \in 1..(Started + 1) |->
       IF i <= Started THEN runs[i]
       ELSE [doc |-> d, file |-> generation[d], revision |-> text[d], config |-> config]]
  /\ flying' = flying \cup {Started + 1}
  /\ latest' = [latest EXCEPT ![d] = Started + 1] /\ stored' = [stored EXCEPT ![d] = NoObservations]
  /\ UNCHANGED <<documentVars, config, shown, republish>>

\* No identity for the run: what is known of the file is forgotten.
RunUnidentified(d) ==
  /\ Open(d) /\ text[d] \notin Broken /\ ClearForFile(d)
  /\ Publish(d, text, version, stored')
  /\ UNCHANGED <<documentVars, config, runs, flying, republish>>

\* Mutant: the last run that completes wins.
CommitsAlways(i) == generation[runs[i].doc] = runs[i].file

\* complete_execution(): the last run that was started wins.
Commits(i) == latest[runs[i].doc] = i

\* The batch of a run that found nothing is empty.
RunCompletes(i) ==
  /\ i \in flying /\ flying' = flying \ {i}
  /\ LET d == runs[i].doc  r == runs[i].revision IN
       /\ \E found \in {0, i} : stored' = IF Commits(i) THEN [stored EXCEPT ![d][r] = found] ELSE stored
       /\ Publish(d, text, version, stored')
  /\ UNCHANGED <<documentVars, config, runs, latest, republish>>

-----------------------------------------------------------------------------
(* Reloads                                                                 *)

\* Mutant: only the observations are forgotten.
ForgetObservations == UNCHANGED latest /\ stored' = [d \in Docs |-> NoObservations]

\* ObservationStore::clear().
Forget == latest' = [d \in Docs |-> 0] /\ stored' = [d \in Docs |-> NoObservations]

\* A changed input, valid or not, gives the editor a new configuration.
Reload ==
  /\ config < MaxReloads /\ republish = {}
  /\ config' = config + 1 /\ Forget
  /\ republish' = {d \in Docs : Open(d)}
  /\ UNCHANGED <<documentVars, runs, flying, shown>>

\* One publication after the other; the document may be closed by then.
Republish(d) ==
  /\ d \in republish /\ republish' = republish \ {d}
  /\ Publish(d, text, version, stored)
  /\ UNCHANGED <<documentVars, config, runs, flying, storeVars>>

Next ==
  \/ \E d \in Docs, r \in Revisions : DidOpen(d, r) \/ DidChange(d, r)
  \/ \E d \in Docs : DidClose(d) \/ RunFile(d) \/ RunUnidentified(d) \/ Republish(d)
  \/ \E i \in flying : RunCompletes(i)
  \/ Reload

Spec == Init /\ [][Next]_vars

-----------------------------------------------------------------------------
(* Properties                                                              *)

\* What the store keeps comes from the run of its file that was started last, under the
\* configuration in force; and once no run and no reload is under way, the client shows
\* exactly that, for the text it has.
DiagnosticsCurrent ==
  /\ \A d \in Docs, r \in Revisions : stored[d][r] # 0 =>
       LET i == stored[d][r] IN
         /\ \A j \in DOMAIN runs : runs[j].doc = d => j <= i
         /\ runs[i] = [doc |-> d, file |-> generation[d], revision |-> r, config |-> config]
  /\ flying = {} /\ republish = {} => \A d \in Docs :
       shown[d] = IF Open(d) THEN View(d, text, version, stored) ELSE Nothing
=============================================================================
