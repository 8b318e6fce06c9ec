---------------------------- MODULE TestBody_proofs ----------------------------
(***************************************************************************)
(* Proofs about TestBody for every plan tree: what the scopes of a test    *)
(* own is gone before their terminal facts, and the outcome of a test is   *)
(* justified by what happened in it.                                       *)
(*                                                                         *)
(* The task of a test makes four kinds of move on its suspended path: it   *)
(* enters a child of the top, it leaves the top, it drops what is inside   *)
(* an interrupted wait, or it stays.  The lemmas say what each does to the *)
(* path, and every part of the inductive invariant is shown to survive     *)
(* every move.                                                             *)
(***************************************************************************)
EXTENDS TestBody, WellFoundedInduction, TLAPS

-----------------------------------------------------------------------------
(* The inductive invariant                                                 *)

OutcomeKinds == {"none", "passed", "failed", "timedout", "cancelled", "aborted", "interrupted"}
OutcomeClasses == {"none", "test", "infrastructure", "internal", "user", "timeout"}
Outcomes == [kind : OutcomeKinds, by : Nodes, class : OutcomeClasses]

\* An outcome that names a deadline names one that has passed, and one that says the
\* test was cancelled is so.
True(o) ==
  /\ o \in Outcomes
  /\ o.kind = "none" => o = None
  /\ o.kind = "passed" => o = Passed
  /\ o.kind = "timedout" => o.by \in due
  /\ o.kind \in {"cancelled", "interrupted"} =>
       \/ o.class = "user" /\ asked
       \/ o.class = "timeout" /\ o.by \in due
       \/ o.class = "timeout" /\ o.kind = "cancelled" /\ due # {}

\* Every outcome in the state is true, and a token is cancelled by the control or by a
\* deadline that has passed.
OutcomesTrue ==
  /\ True(ret) /\ ret.kind # "interrupted"
  /\ True(first) /\ (first # None => Fails(first))
  /\ primary \in [Nodes -> Outcomes] /\ \A n \in Nodes : True(primary[n])
  /\ cause \in [Nodes -> Outcomes]
  /\ \A n \in Nodes : cause[n] # None =>
       /\ cause[n].kind = "cancelled" /\ cause[n].by \in Deadlines
       /\ \/ cause[n].class = "user" /\ asked /\ cause[n].by = Root
          \/ cause[n].class = "timeout" /\ cause[n].by \in due

\* The suspended path starts at the root, goes from parent to child, and leaves out
\* nothing that is around one of its nodes.
Path ==
  /\ stack \in Seq(Nodes) /\ stack # <<>> /\ stack[1] = Root
  /\ \A i, j \in 1..Len(stack) : i < j => stack[j] \in Below[stack[i]]
  /\ \A i \in 1..Len(stack) : i > 1 => stack[i] \in ToSet(Children[stack[i - 1]])
  /\ \A n \in Nodes : \A m \in Below[n] : OnPath(m) => OnPath(n)

\* Each node is at a stage of its kind, and what is under the top is driving a body.
Gone == {"idle", "over", "dropped"}
StagesFit ==
  /\ \A n \in Nodes : OnPath(n) <=> (at[n] \notin Gone \/ n = Root)
  /\ \A n \in Nodes : at[n] \in {"before", "step", "evidence"} => n \in Steps
  /\ \A n \in Nodes : at[n] \in {"acquiring", "closing"} => Kind[n] = "resource"
  /\ \A n \in Nodes : at[n] \in {"interrupting", "releasing"} => n \in Waiters
  /\ \A n \in Nodes : at[n] = "open" => n \notin Steps
  /\ \A n \in Nodes : at[n] = "session" => n = Root
  /\ \A n \in Nodes : OnPath(n) /\ n # Top => at[n] \in {"open", "interrupting"}
  /\ ret # None => at[Top] \in {"open", "interrupting"}
  /\ at[Root] \in {"open", "interrupting", "releasing", "session", "over"}
  /\ outcome # None <=> at[Root] = "over"
  /\ outcome # None => Top = Root /\ ret = None
  /\ \A n \in Nodes : \A m \in Below[n] : Started(m) => Started(n)

\* A terminal fact is written at the end of a node and after those of everything inside
\* it; what was dropped waits for the end of the wait that dropped it.
Terminals ==
  /\ \A n \in Nodes : terminal[n] # "none" => at[n] \in {"over", "dropped"}
  /\ \A n \in Nodes : at[n] = "over" => terminal[n] # "none"
  /\ \A m \in Nodes : at[m] = "dropped" /\ terminal[m] = "none" =>
       m \in Below[Top] /\ at[Top] \in {"closing", "releasing", "session"}
  /\ \A n \in Nodes : terminal[n] # "none" =>
       \A m \in Below[n] : Started(m) => terminal[m] # "none"

\* A directory is owned only while every scope around its step is active.
Directories ==
  /\ \A s \in Nodes : temp[s] = "owned" =>
       s \in Steps /\ \A w \in Waiters : s \in Below[w] => terminal[w] = "none"
  /\ \A s \in Nodes : temp[s] = "lost" => failures # {}
  /\ at[Root] \in {"session", "over"} => \A s \in Nodes : temp[s] # "owned"

\* A cancellation reaches everything inside; the outermost wait it reached has seen it
\* or is about to, before anything else of the test goes on.
Cut(n) ==
  /\ at[n] \in {"interrupting", "closing", "releasing", "session"}
  /\ primary[n].kind \in {"interrupted", "aborted"}
Cancellations ==
  /\ \A n \in Nodes : \A m \in Below[n] : Started(m) /\ cause[n] # None => cause[m] # None
  /\ \A p \in Nodes : \A n \in ToSet(Children[p]) :
       OnPath(n) /\ OnPath(p) /\ cause[n] # None /\ cause[p] = None => Cut(n)
  /\ \A n \in Nodes : OnPath(n) /\ cause[n] # None /\ cause[n].by = n =>
       Cut(n) \/ (n = Root /\ at[n] \in {"open", "over"})
  /\ cause[Root] # None => cause[Root].by = Root
  /\ \A n \in Nodes : OnPath(n) => timer[n] = n \/ n \in Below[timer[n]]
  /\ timer[Root] = Root
  /\ \A n \in due : Started(n)
  /\ ret # None => \A w \in Waiters : ~Unseen(w)

\* What a wait completes with is set when it stops driving its body.
Completions ==
  /\ \A n \in Nodes : at[n] \in {"idle", "acquiring", "open"} => primary[n] = None
  /\ \A n \in Nodes : at[n] = "interrupting" => primary[n].kind = "interrupted"
  /\ \A n \in Nodes : at[n] \in {"closing", "releasing", "session"} => primary[n].kind # "none"
  /\ \A n \in Nodes : at[n] = "evidence" => primary[n].kind = "failed"

\* While nothing went wrong on the path, what ended beside it passed; so a node that
\* passes ran everything in it.
BodiesPass ==
  /\ \A n \in Nodes : OnPath(n) /\ cause[n] = None /\ failures = {} =>
       \/ n = Top /\ ret.kind \notin {"none", "passed"}
       \/ primary[n].kind \notin {"none", "passed"}
       \/ \A c \in ToSet(Children[n]) : Started(c) /\ ~OnPath(c) => terminal[c] = "Passed"
  /\ ret # None /\ Kind[Top] \in {"timeout", "resource"} => Waiting(Top) = {}
  /\ \A n \in Waiters : OnPath(n) /\ primary[n].kind = "passed" /\ failures = {} => Waiting(n) = {}
  /\ \A n \in Nodes : terminal[n] = "Passed" => \A m \in Below[n] : terminal[m] = "Passed"

\* Once the branch has a first failure the path only unwinds.
Unwinds ==
  first # None /\ outcome = None =>
    /\ ret.kind # "passed"
    /\ ret = None => \/ at[Top] = "evidence"
                     \/ /\ at[Top] \in {"closing", "releasing", "session"}
                        /\ primary[Top].kind \notin {"none", "passed"}

\* A failure that no cancellation preceded is the first failure.
Unprovoked ==
  /\ unprovoked \subseteq Steps
  /\ \A n \in unprovoked : first.kind = "failed" /\ first.by = n

\* An abort travels up the path as it is: no context is open around it that could
\* replace it, and only a failed cleanup adds to it.
Aborting == ret.kind = "aborted" \/ \E n \in Waiters : primary[n].kind = "aborted"
Aborts ==
  /\ Aborting /\ failures = {} /\ outcome = None =>
       /\ first = None \/ first.kind = "aborted"
       /\ \/ ret.kind = "aborted"
          \/ /\ ret = None /\ primary[Top].kind = "aborted"
             /\ at[Top] \in {"closing", "releasing", "session"}
  /\ \A r \in Nodes : Kind[r] = "resource" /\ OnPath(r) =>
       ret.kind # "aborted" /\ \A n \in Below[r] : OnPath(n) => primary[n].kind # "aborted"

\* The outcome of the test, once there is one.
Verdict ==
  /\ outcome.kind = "passed" => failures = {} /\ terminal[Root] = "Passed"
  /\ outcome.kind = "timedout" => outcome.by \in due
  /\ outcome.kind = "cancelled" => \/ outcome.class = "user" /\ asked
                                   \/ outcome.class = "timeout" /\ due # {}
  /\ FirstFailureDecides

Inv ==
  /\ TypeOK /\ OutcomesTrue /\ Path /\ StagesFit /\ Terminals /\ Directories
  /\ Cancellations /\ Completions /\ BodiesPass /\ Unwinds /\ Unprovoked /\ Aborts /\ Verdict

-----------------------------------------------------------------------------
(* The tree                                                                *)

\* What the assumption says of the nodes, one fact at a time.
LEMMA TreeFacts ==
  /\ Root \in Nodes /\ Root \in Waiters /\ Root \in Deadlines /\ Root \notin Steps
  /\ Waiters \subseteq Nodes /\ Steps \subseteq Nodes /\ Deadlines \subseteq Waiters
  /\ Steps \cap Waiters = {}
  /\ \A n \in Nodes : Below[n] \subseteq Nodes /\ n \notin Below[n]
  /\ \A n \in Nodes : \A m \in Below[n] : Below[m] \subseteq Below[n]
  /\ \A n \in Nodes : n # Root => n \in Below[Root]
  /\ \A n \in Nodes : Root \notin Below[n]
  /\ \A n \in Nodes : \A c \in ToSet(Children[n]) : c \in Nodes /\ c \in Below[n] /\ c # Root
  /\ \A n \in Nodes : Children[n] \in Seq(Nodes)
  /\ \A n \in Steps : Below[n] = {} /\ ToSet(Children[n]) = {}
<1>1. Root \in Nodes /\ Kind[Root] = "test"
  BY TreeAssumption
<1>2. /\ Root \in Waiters /\ Root \in Deadlines /\ Root \notin Steps
      /\ Waiters \subseteq Nodes /\ Steps \subseteq Nodes /\ Deadlines \subseteq Waiters
      /\ Steps \cap Waiters = {}
  BY <1>1 DEF Waiters, Steps, Deadlines
<1>3. \A n \in Nodes : Below[n] \subseteq Nodes /\ n \notin Below[n] /\ Children[n] \in Seq(Nodes)
  BY TreeAssumption
<1>4. \A n \in Nodes : \A m \in Below[n] : Below[m] \subseteq Below[n]
  BY TreeAssumption
<1>5. \A n \in Nodes : n # Root => n \in Below[Root]
  BY TreeAssumption
<1>6. \A n \in Nodes : Root \notin Below[n]
  BY <1>1, <1>3, <1>4, <1>5
<1>7. \A n \in Nodes : \A c \in ToSet(Children[n]) : c \in Nodes /\ c \in Below[n] /\ c # Root
  <2>1. ASSUME NEW n \in Nodes, NEW c \in ToSet(Children[n]) PROVE c \in Below[n]
    BY <2>1, TreeAssumption
  <2>2. QED
    BY <1>3, <1>6, <2>1
<1>8. ASSUME NEW n \in Steps PROVE Below[n] = {} /\ ToSet(Children[n]) = {}
  <2>1. n \in Nodes /\ Children[n] = <<>>
    BY TreeAssumption DEF Steps
  <2>2. ToSet(Children[n]) = {}
    BY <2>1 DEF ToSet
  <2>3. Below[n] = UNION {{c} \cup Below[c] : c \in ToSet(Children[n])}
    BY <2>1, TreeAssumption
  <2>4. QED
    BY <2>2, <2>3
<1>9. QED
  BY <1>1, <1>2, <1>3, <1>4, <1>5, <1>6, <1>7, <1>8

\* A node inside another is so through its parent, and is inside one of its children.
LEMMA Lineage ==
  ASSUME NEW n \in Nodes
  PROVE  /\ \A p \in Nodes : \A c \in ToSet(Children[p]) :
               c \in Below[n] => n = p \/ p \in Below[n]
         /\ \A m \in Below[n] : \E c \in ToSet(Children[n]) : m = c \/ m \in Below[c]
<1>1. Below[n] = UNION {{c} \cup Below[c] : c \in ToSet(Children[n])}
  BY TreeAssumption
<1>2. \A p \in Nodes : \A c \in ToSet(Children[p]) : c \in Below[n] => n = p \/ p \in Below[n]
  BY TreeAssumption
<1>3. QED
  BY <1>1, <1>2

\* A node has one parent.
LEMMA OneParent ==
  ASSUME NEW p \in Nodes, NEW q \in Nodes, NEW c, c \in ToSet(Children[p]), c \in ToSet(Children[q])
  PROVE  p = q
<1>1. c \in Below[p] /\ c \in Below[q]
  BY TreeFacts
<1>2. (p = q \/ q \in Below[p]) /\ (q = p \/ p \in Below[q])
  BY <1>1, Lineage
<1>3. p \notin Below[p] /\ (q \in Below[p] => Below[q] \subseteq Below[p])
  BY TreeFacts
<1>4. QED
  BY <1>2, <1>3

-----------------------------------------------------------------------------
(* The suspended path                                                      *)

\* The top is a node of the path, and everything else on the path is around it.
LEMMA PathTop ==
  ASSUME Path
  PROVE  /\ Len(stack) \in Nat /\ Len(stack) >= 1 /\ Top = stack[Len(stack)]
         /\ \A i \in 1..Len(stack) : stack[i] \in Nodes
         /\ \A n : OnPath(n) <=> \E i \in 1..Len(stack) : n = stack[i]
         /\ Top \in Nodes /\ OnPath(Top) /\ OnPath(Root)
         /\ \A n : OnPath(n) => n \in Nodes /\ (n = Top \/ Top \in Below[n])
         /\ \A m \in Below[Top] : ~OnPath(m)
<1>1. stack \in Seq(Nodes) /\ stack # <<>> /\ stack[1] = Root
  BY DEF Path
<1>2. Len(stack) \in Nat /\ Len(stack) >= 1 /\ DOMAIN stack = 1..Len(stack)
  BY <1>1
<1>3. Top = stack[Len(stack)]
  BY DEF Top, Last
<1>4. \A i \in 1..Len(stack) : stack[i] \in Nodes
  BY <1>1
<1>5. \A n : OnPath(n) <=> \E i \in 1..Len(stack) : n = stack[i]
  BY <1>2 DEF OnPath, ToSet
<1>6. Top \in Nodes /\ OnPath(Top) /\ OnPath(Root)
  BY <1>1, <1>2, <1>3, <1>4, <1>5
<1>7. ASSUME NEW n, OnPath(n) PROVE n \in Nodes /\ (n = Top \/ Top \in Below[n])
  <2>1. PICK i \in 1..Len(stack) : n = stack[i]
    BY <1>5, <1>7
  <2>2. i \in Nat /\ Len(stack) \in Nat /\ i <= Len(stack)
    BY <1>2
  <2>3. i < Len(stack) => stack[Len(stack)] \in Below[stack[i]]
    BY <1>2, <2>1 DEF Path
  <2>4. QED
    BY <1>3, <1>4, <2>1, <2>2, <2>3
<1>8. ASSUME NEW m \in Below[Top] PROVE ~OnPath(m)
  BY <1>6, <1>7, <1>8, TreeFacts
<1>9. QED
  BY <1>2, <1>3, <1>4, <1>5, <1>6, <1>7, <1>8

\* The path after a child of the top was entered.
LEMMA PathEntered ==
  ASSUME Path, NEW c \in ToSet(Children[Top]), stack' = Append(stack, c)
  PROVE  /\ Path' /\ Top' = c
         /\ \A n : OnPath(n)' <=> OnPath(n) \/ n = c
         /\ c \in Nodes /\ c \in Below[Top] /\ ~OnPath(c)
<1>1. /\ stack \in Seq(Nodes) /\ stack[1] = Root /\ Top \in Nodes
      /\ Len(stack) \in Nat /\ Len(stack) >= 1 /\ Top = stack[Len(stack)]
  BY PathTop DEF Path
<1>2. c \in Nodes /\ c \in Below[Top] /\ ~OnPath(c)
  BY <1>1, PathTop, TreeFacts
<1>3. stack' \in Seq(Nodes) /\ Len(stack') = Len(stack) + 1 /\ stack' # <<>>
  BY <1>1, <1>2
<1>4. /\ \A i \in 1..Len(stack) : stack'[i] = stack[i]
      /\ stack'[Len(stack) + 1] = c
  BY <1>1
<1>5. Top' = c
  BY <1>3, <1>4 DEF Top, Last
<1>6. \A n : OnPath(n)' <=> OnPath(n) \/ n = c
  <2>1. \A n : OnPath(n)' <=> \E i \in 1..Len(stack) + 1 : n = stack'[i]
    BY <1>3 DEF OnPath, ToSet
  <2>2. \A n : OnPath(n) <=> \E i \in 1..Len(stack) : n = stack[i]
    BY PathTop
  <2>3. ASSUME NEW n PROVE OnPath(n)' <=> OnPath(n) \/ n = c
    BY <1>1, <1>4, <2>1, <2>2
  <2>4. QED
    BY <2>3
<1>7. ASSUME NEW i \in 1..Len(stack'), NEW j \in 1..Len(stack'), i < j
      PROVE  stack'[j] \in Below[stack'[i]]
  <2>1. i \in 1..Len(stack) /\ (j \in 1..Len(stack) \/ j = Len(stack) + 1)
    BY <1>1, <1>3, <1>7
  <2>2. CASE j \in 1..Len(stack)
    BY <1>4, <1>7, <2>1, <2>2 DEF Path
  <2>3. CASE j = Len(stack) + 1
    <3>1. i = Len(stack) \/ Top \in Below[stack[i]]
      BY <1>1, <2>1 DEF Path
    <3>2. stack[i] \in Nodes
      BY <1>1, <2>1
    <3>3. QED
      BY <1>1, <1>2, <1>4, <2>1, <2>3, <3>1, <3>2, TreeFacts
  <2>4. QED
    BY <2>1, <2>2, <2>3
<1>8. ASSUME NEW i \in 1..Len(stack'), i > 1 PROVE stack'[i] \in ToSet(Children[stack'[i - 1]])
  <2>1. CASE i \in 1..Len(stack)
    <3>1. i - 1 \in 1..Len(stack)
      BY <1>1, <1>8, <2>1
    <3>2. QED
      BY <1>4, <1>8, <2>1, <3>1 DEF Path
  <2>2. CASE i = Len(stack) + 1
    BY <1>1, <1>4, <2>2
  <2>3. QED
    BY <1>1, <1>3, <1>8, <2>1, <2>2
<1>9. ASSUME NEW n \in Nodes, NEW m \in Below[n], OnPath(m)' PROVE OnPath(n)'
  <2>1. CASE OnPath(m)
    BY <1>6, <1>9, <2>1 DEF Path
  <2>2. CASE m = c
    <3>1. n = Top \/ Top \in Below[n]
      BY <1>1, <1>9, <2>2, Lineage
    <3>2. OnPath(n)
      BY <1>9, <3>1, PathTop DEF Path
    <3>3. QED
      BY <1>6, <3>2
  <2>3. QED
    BY <1>6, <1>9, <2>1, <2>2
<1>10. stack'[1] = Root
  BY <1>1, <1>4
<1>11. Path'
  BY <1>3, <1>7, <1>8, <1>9, <1>10 DEF Path
<1>12. QED
  BY <1>2, <1>5, <1>6, <1>11

\* The first nodes of the path are a path too.
LEMMA PathShortened ==
  ASSUME Path, NEW k \in 1..Len(stack),
         stack' \in Seq(Nodes), Len(stack') = k, \A i \in 1..k : stack'[i] = stack[i]
  PROVE  /\ Path' /\ Top' = stack[k]
         /\ \A n : OnPath(n)' <=> OnPath(n) /\ n \notin Below[stack[k]]
<1>1. stack \in Seq(Nodes) /\ stack[1] = Root /\ Len(stack) \in Nat
  BY DEF Path
<1>2. Top' = stack[k]
  BY DEF Top, Last
<1>3. \A n : OnPath(n)' <=> \E i \in 1..k : n = stack[i]
  BY DEF OnPath, ToSet
<1>4. \A n : OnPath(n) <=> \E i \in 1..Len(stack) : n = stack[i]
  BY PathTop
<1>5. ASSUME NEW n PROVE OnPath(n)' <=> OnPath(n) /\ n \notin Below[stack[k]]
  <2>1. ASSUME NEW i \in 1..k PROVE stack[i] \notin Below[stack[k]]
    <3>1. i = k \/ stack[k] \in Below[stack[i]]
      BY <1>1 DEF Path
    <3>2. stack[i] \in Nodes /\ stack[k] \in Nodes
      BY <1>1
    <3>3. QED
      BY <3>1, <3>2, TreeFacts
  <2>2. ASSUME NEW i \in 1..Len(stack), stack[i] \notin Below[stack[k]] PROVE i \in 1..k
    BY <1>1, <2>2 DEF Path
  <2>3. QED
    BY <1>1, <1>3, <1>4, <2>1, <2>2
<1>6. ASSUME NEW n \in Nodes, NEW m \in Below[n], OnPath(m)' PROVE OnPath(n)'
  <2>1. OnPath(m) /\ m \notin Below[stack[k]] /\ stack[k] \in Nodes
    BY <1>1, <1>5, <1>6
  <2>2. OnPath(n)
    BY <2>1 DEF Path
  <2>3. n \notin Below[stack[k]]
    BY <2>1, TreeFacts
  <2>4. QED
    BY <1>5, <2>2, <2>3
<1>7. ASSUME NEW i \in 1..k, NEW j \in 1..k, i < j PROVE stack'[j] \in Below[stack'[i]]
  <2>1. i \in 1..Len(stack) /\ j \in 1..Len(stack)
    BY <1>1
  <2>2. QED
    BY <1>7, <2>1 DEF Path
<1>8. ASSUME NEW i \in 1..k, i > 1 PROVE stack'[i] \in ToSet(Children[stack'[i - 1]])
  <2>1. i \in 1..Len(stack) /\ i - 1 \in 1..k
    BY <1>1, <1>8
  <2>2. QED
    BY <1>8, <2>1 DEF Path
<1>9. stack' # <<>> /\ stack'[1] = Root
  BY <1>1
<1>10. Path'
  BY <1>6, <1>7, <1>8, <1>9 DEF Path
<1>11. QED
  BY <1>2, <1>5, <1>10

\* The path after its top returned to the node around it.
LEMMA PathLeft ==
  ASSUME Path, Top # Root, stack' = Front(stack)
  PROVE  /\ Path' /\ Top' \in Nodes /\ Top \in ToSet(Children[Top']) /\ OnPath(Top')
         /\ Top \in Below[Top'] /\ OnPath(Top)
         /\ \A n : OnPath(n)' <=> OnPath(n) /\ n # Top
         /\ \A n : OnPath(n)' => n \in Nodes /\ (n = Top' \/ Top' \in Below[n])
<1>1. /\ stack \in Seq(Nodes) /\ stack[1] = Root /\ Top \in Nodes /\ OnPath(Top)
      /\ Len(stack) \in Nat /\ Len(stack) >= 1 /\ Top = stack[Len(stack)]
  BY PathTop DEF Path
<1>2. DEFINE k == Len(stack) - 1
<1>3. k \in 1..Len(stack)
  BY <1>1
<1>4. /\ stack' \in Seq(Nodes) /\ Len(stack') = k
      /\ \A i \in 1..k : stack'[i] = stack[i]
  BY <1>1, <1>3 DEF Front
<1>5. /\ Path' /\ Top' = stack[k]
      /\ \A n : OnPath(n)' <=> OnPath(n) /\ n \notin Below[stack[k]]
  <2> HIDE DEF k
  <2>1. QED
    BY <1>3, <1>4, PathShortened
<1>6. stack[k] \in Nodes /\ Top \in ToSet(Children[stack[k]]) /\ OnPath(stack[k])
  BY <1>1, <1>3, PathTop DEF Path
<1>7. Top \in Below[stack[k]]
  BY <1>6, TreeFacts
<1>8. ASSUME NEW n, OnPath(n), n # Top PROVE n = stack[k] \/ stack[k] \in Below[n]
  <2>1. n \in Nodes /\ Top \in Below[n]
    BY <1>8, PathTop
  <2>2. QED
    BY <1>6, <2>1, Lineage
<1>9. ASSUME NEW n PROVE OnPath(n)' <=> OnPath(n) /\ n # Top
  <2>1. CASE n = Top
    BY <1>5, <1>7, <2>1
  <2>2. CASE n # Top /\ OnPath(n)
    <3>1. n \in Nodes
      BY <2>2, PathTop
    <3>2. n \notin Below[stack[k]]
      BY <1>6, <1>8, <2>2, <3>1, TreeFacts
    <3>3. QED
      BY <1>5, <2>2, <3>2
  <2>3. QED
    BY <1>5, <2>1, <2>2
<1>10. QED
  <2> HIDE DEF k
  <2>1. \A n : OnPath(n)' => n \in Nodes /\ (n = Top' \/ Top' \in Below[n])
    BY <1>5, <1>8, <1>9, PathTop
  <2>2. QED
    BY <1>1, <1>5, <1>6, <1>7, <1>9, <2>1

\* The path after what is inside one of its nodes was dropped.
LEMMA PathDropped ==
  ASSUME Path, NEW n,
         \E i \in DOMAIN stack : stack[i] = n /\ stack' = SubSeq(stack, 1, i)
  PROVE  /\ Path' /\ Top' = n /\ n \in Nodes /\ OnPath(n)
         /\ \A m : OnPath(m)' <=> OnPath(m) /\ m \notin Below[n]
<1>1. stack \in Seq(Nodes) /\ Len(stack) \in Nat /\ DOMAIN stack = 1..Len(stack)
  BY DEF Path
<1>2. PICK k \in 1..Len(stack) : stack[k] = n /\ stack' = SubSeq(stack, 1, k)
  BY <1>1
<1>3. /\ stack' \in Seq(Nodes) /\ Len(stack') = k
      /\ \A i \in 1..k : stack'[i] = stack[i]
  BY <1>1, <1>2
<1>4. /\ Path' /\ Top' = stack[k]
      /\ \A m : OnPath(m)' <=> OnPath(m) /\ m \notin Below[stack[k]]
  BY <1>2, <1>3, PathShortened
<1>5. n \in Nodes /\ OnPath(n)
  BY <1>1, <1>2, PathTop
<1>6. QED
  BY <1>2, <1>4, <1>5

\* Nothing of the path changes while the task stays where it is.
LEMMA PathKept ==
  ASSUME Path, UNCHANGED stack
  PROVE  Path' /\ Top' = Top /\ \A n : OnPath(n)' <=> OnPath(n)
  BY DEF Path, Top, OnPath

-----------------------------------------------------------------------------
(* The moves of the task                                                   *)

Seen == \A w \in Waiters : ~Unseen(w)

\* A child of the top is entered: the next of a sequence, or the body of a wait.
Enters(c) ==
  /\ c \in ToSet(Children[Top]) /\ at[c] = "idle" /\ Seen /\ outcome = None
  /\ at[Top] \in {"open", "interrupting"}
  /\ \/ ret = Passed
     \/ ret = None /\ at[Top] = "open"
  /\ Enter(c)

\* What the top returns, and when.
Result(n, o) ==
  \/ ret # None /\ n \in Nodes \ (Waiters \cup Steps) /\ ~GoesOn(n) /\ o = ret
  \/ /\ ret = None /\ n \in Steps /\ at[n] \in {"before", "step"}
     /\ (cause[n] # None \/ asked) /\ o = Cancelled(Reason(n))
  \/ ret = None /\ n \in Steps /\ at[n] = "step" /\ cause[n] = None /\ o = Passed
  \/ ret = None /\ n \in Steps /\ at[n] = "evidence" /\ o = primary[n]
  \/ ret = None /\ n \in Waiters /\ at[n] = "releasing" /\ Owned(n) = {} /\ o = WaitResult(n)

\* The top is left.  There is nothing to close inside a node that is no wait.
Leaves(n, o) ==
  /\ n = Top /\ n # Root /\ Result(n, o) /\ Seen /\ outcome = None
  /\ stack' = Front(stack) /\ ret' = o
  /\ at' = [at EXCEPT ![n] = "over"]
  /\ first' = IF Fails(o) /\ cause[n] = None /\ first = None THEN o ELSE first
  /\ terminal' = [ClosedBelow(n) EXCEPT ![n] = ScopeFact(n, o, failures # {})]
  /\ temp' = temp \/ (n \in Steps /\ temp' = [temp EXCEPT ![n] = "owned"])
  /\ UNCHANGED <<cause, timer, due, late, primary, failures, asked, outcome, unprovoked>>

\* Everything else but Abandon happens where the task stands.
Stays ==
  \/ SessionCloses \/ TestEnds \/ Ask \/ ControlCancels
  \/ \E n \in Nodes :
       \/ StepBegins(n) /\ Goto(n, "step") /\ stack' = stack
       \/ \E class \in Classes : StepFails(n, class)
       \/ ResourceOpens(n) \/ Observe(n) \/ BodyReturns(n) \/ Closes(n)
       \/ Expire(n) \/ BudgetEnds(n) \/ \E s \in Steps : Releases(n, s)

\* Of these, what changes neither what a node completes with nor an outcome.
Quiet ==
  \/ Ask \/ ControlCancels
  \/ \E n \in Nodes :
       \/ StepBegins(n) /\ Goto(n, "step") /\ stack' = stack
       \/ Expire(n) \/ BudgetEnds(n) \/ \E s \in Steps : Releases(n, s)

\* A non-empty set of naturals has a least element.
LEMMA LeastExists ==
  ASSUME NEW T, T \subseteq Nat, T # {}
  PROVE  \E m \in T : \A k \in T : m <= k
<1> DEFINE Less == {s \in Nat \X Nat : s[1] < s[2]}
<1>1. IsWellFoundedOn(Less, Nat)
  BY NatLessThanWellFounded, Zenon DEF OpToRel
<1>2. PICK m \in T : \A k \in T : ~(<<k, m>> \in Less)
  <2> HIDE DEF Less
  <2>1. QED
    BY <1>1, WFMin
<1>3. ASSUME NEW k \in T PROVE m <= k
  <2>1. k \in Nat /\ m \in Nat /\ <<k, m>> \in Nat \X Nat
    BY Zenon
  <2>2. ~(k < m)
    BY <1>2, <2>1
  <2>3. QED
    BY <2>1, <2>2
<1>4. QED
  BY <1>3

\* The next child is one that was not started.
LEMMA NextChildWaits ==
  ASSUME NEW n \in Nodes, Waiting(n) # {}
  PROVE  NextChild(n) \in ToSet(Children[n]) /\ at[NextChild(n)] = "idle"
<1>1. Children[n] \in Seq(Nodes)
  BY TreeFacts
<1>2. Waiting(n) \subseteq Nat
  BY <1>1 DEF Waiting
<1>3. \E i \in Waiting(n) : \A j \in Waiting(n) : i <= j
  BY <1>2, LeastExists
<1>4. PICK i \in Waiting(n) : NextChild(n) = Children[n][i]
  BY <1>3 DEF NextChild
<1>5. QED
  BY <1>4 DEF Waiting, Started, ToSet

\* A wait ends in the states the test can be in only while the outcome is open.
LEMMA OutcomeLast ==
  ASSUME Inv, Next
  PROVE  outcome = None
<1>1. SUFFICES ASSUME outcome # None PROVE FALSE
  OBVIOUS
<1>2. Top = Root /\ ret = None /\ at[Root] = "over" /\ Root \in Nodes
  BY <1>1, TreeFacts DEF Inv, StagesFit
<1>3. \A n \in Nodes : OnPath(n) => n = Root
  <2>1. ASSUME NEW n \in Nodes, OnPath(n), n # Root PROVE FALSE
    <3>1. Top \in Below[n]
      BY <1>2, <2>1, PathTop DEF Inv
    <3>2. QED
      BY <1>2, <3>1, TreeFacts
  <2>2. QED
    BY <2>1
<1>4. ~Proceed /\ ~SequenceEnds /\ ~SessionCloses /\ ~TestEnds /\ ~Ask /\ ~ControlCancels
  BY <1>1, <1>2 DEF Proceed, SequenceEnds, SessionCloses, TestEnds, Ask, ControlCancels, Running
<1>5. ASSUME NEW n \in Nodes
      PROVE  /\ ~StepBegins(n) /\ ~StepCancelled(n) /\ ~Answers(n) /\ ~BodyStarts(n)
             /\ ~Closes(n) /\ ~WaiterEnds(n) /\ ~Expire(n) /\ \A s \in Steps : ~Releases(n, s)
  BY <1>1 DEF StepBegins, StepCancelled, Answers, StepReturns, StepFails, ResourceOpens,
              EvidenceTaken, BodyStarts, Closes, WaiterEnds, Expire, Releases, Running
<1>6. ASSUME NEW n \in Nodes
      PROVE  ~Observe(n) /\ ~BodyReturns(n) /\ ~Abandon(n) /\ ~BudgetEnds(n)
  <2>1. ~OnPath(n) \/ at[n] = "over"
    BY <1>2, <1>3
  <2>2. ~Observe(n) /\ ~Abandon(n) /\ ~BudgetEnds(n)
    BY <2>1 DEF Observe, Abandon, BudgetEnds
  <2>3. ~BodyReturns(n)
    BY <1>2 DEF BodyReturns
  <2>4. QED
    BY <2>2, <2>3
<1>7. QED
  BY <1>4, <1>5, <1>6 DEF Next

\* What a running node is.
LEMMA RunningFacts ==
  ASSUME Inv, NEW n \in Nodes, NEW stages, Running(n, stages)
  PROVE  /\ ret = None /\ outcome = None /\ n = Top /\ at[n] \in stages /\ Seen
         /\ \A m \in Below[n] : ~OnPath(m)
  BY PathTop DEF Running, Seen, Inv

\* What is inside the top and was started has ended, unless a wait at the top dropped it.
LEMMA EndedInside ==
  ASSUME Inv, outcome = None
  PROVE  /\ at \in [Nodes -> Stages] /\ Top \in Nodes
         /\ \A m \in Below[Top] : Started(m) => at[m] \in {"over", "dropped"}
         /\ at[Top] \notin {"closing", "releasing", "session"} =>
              \A m \in Below[Top] : Started(m) => terminal[m] # "none"
<1>1. at \in [Nodes -> Stages] /\ Top \in Nodes /\ Below[Top] \subseteq Nodes
  BY PathTop, TreeFacts DEF Inv, TypeOK
<1>2. ASSUME NEW m \in Below[Top], Started(m) PROVE at[m] \in {"over", "dropped"}
  BY <1>1, <1>2, PathTop DEF Inv, StagesFit, Gone, Started
<1>3. ASSUME NEW m \in Below[Top], Started(m), at[Top] \notin {"closing", "releasing", "session"}
      PROVE  terminal[m] # "none"
  BY <1>1, <1>2, <1>3 DEF Inv, Terminals
<1>4. QED
  BY <1>1, <1>2, <1>3

\* Nothing is closed with a node that drives no body of a wait.
LEMMA NothingToClose ==
  ASSUME Inv, outcome = None, at[Top] \notin {"closing", "releasing", "session"}
  PROVE  ClosedBelow(Top) = terminal
<1>1. terminal \in [Nodes -> {"none", "Passed", "Failed", "TimedOut", "Cancelled", "Aborted"}]
  BY DEF Inv, TypeOK
<1>2. \A m \in Nodes : ~(m \in Below[Top] /\ Started(m) /\ terminal[m] = "none")
  BY EndedInside
<1>3. QED
  BY <1>1, <1>2 DEF ClosedBelow

\* End() by a node that is no wait.
LEMMA EndLeaves ==
  ASSUME Inv, outcome = None, Seen, Top \notin Waiters,
         at[Top] \notin {"closing", "releasing", "session"},
         NEW o, Result(Top, o), End(Top, o)
  PROVE  Leaves(Top, o)
<1>1. Top # Root
  BY TreeFacts
<1>2. ClosedBelow(Top) = terminal
  BY NothingToClose
<1>3. QED
  BY <1>1, <1>2 DEF End, Leaves

\* Every step of the test is one of the moves.
LEMMA Moves ==
  ASSUME Inv, Next
  PROVE  \/ \E c : Enters(c)
         \/ \E o : Leaves(Top, o)
         \/ \E n \in Nodes : Abandon(n)
         \/ Stays
<1>1. outcome = None
  BY OutcomeLast
<1>2. /\ Top \in Nodes /\ OnPath(Top) /\ Root \in Nodes
      /\ Kind[Top] \in {"test", "sequence", "timeout", "resource", "provider", "browser"}
  BY PathTop, TreeAssumption DEF Inv
<1>3. ret # None => at[Top] \in {"open", "interrupting"} /\ Seen
  BY DEF Inv, StagesFit, Cancellations, Seen
<1>4. CASE Proceed
  <2>1. /\ GoesOn(Top) /\ Enter(NextChild(Top)) /\ ret = Passed /\ Waiting(Top) # {} /\ ret # None
    BY <1>4 DEF Proceed, GoesOn
  <2>2. NextChild(Top) \in ToSet(Children[Top]) /\ at[NextChild(Top)] = "idle"
    BY <1>2, <2>1, NextChildWaits
  <2>3. QED
    BY <1>1, <1>3, <2>1, <2>2 DEF Enters
<1>5. CASE SequenceEnds
  <2>1. ret # None /\ ~GoesOn(Top) /\ End(Top, ret) /\ Top \in Nodes \ (Waiters \cup Steps)
    BY <1>2, <1>5 DEF SequenceEnds, Waiters, Steps
  <2>2. Result(Top, ret) /\ Seen /\ at[Top] \notin {"closing", "releasing", "session"}
    BY <1>3, <2>1 DEF Result
  <2>3. QED
    BY <1>1, <2>1, <2>2, EndLeaves
<1>6. ASSUME NEW n \in Nodes, StepBegins(n) PROVE (\E o : Leaves(Top, o)) \/ Stays
  <2>1. ret = None /\ n = Top /\ at[n] = "before" /\ Seen
    BY <1>6, RunningFacts DEF StepBegins
  <2>2. n \in Steps /\ n \notin Waiters
    BY <2>1, TreeFacts DEF Inv, StagesFit
  <2>3. CASE cause[n] # None \/ asked
    <3>1. End(n, Cancelled(Reason(n))) /\ Result(n, Cancelled(Reason(n)))
      BY <1>6, <2>1, <2>2, <2>3 DEF StepBegins, Result
    <3>2. QED
      BY <1>1, <2>1, <2>2, <3>1, EndLeaves
  <2>4. CASE ~(cause[n] # None \/ asked)
    BY <1>6, <2>4 DEF StepBegins, Stays
  <2>5. QED
    BY <2>3, <2>4
<1>7. ASSUME NEW n \in Nodes, StepReturns(n) PROVE \E o : Leaves(Top, o)
  <2>1. ret = None /\ n = Top /\ at[n] = "step" /\ Seen
    BY <1>7, RunningFacts DEF StepReturns
  <2>2. n \in Steps /\ n \notin Waiters /\ n # Root
    BY <2>1, TreeFacts DEF Inv, StagesFit
  <2>3. Result(n, ret')
    BY <1>7, <2>1, <2>2 DEF StepReturns, Result
  <2>4. ClosedBelow(n) = terminal
    BY <1>1, <2>1, NothingToClose
  <2>5. ~Fails(ret')
    BY <1>7 DEF StepReturns, Fails, Passed, Cancelled, Outcome
  <2>6. temp' = temp \/ temp' = [temp EXCEPT ![n] = "owned"]
    BY <1>7 DEF StepReturns
  <2>7. QED
    BY <1>1, <1>7, <2>1, <2>2, <2>3, <2>4, <2>5, <2>6 DEF StepReturns, Leaves, Goto
<1>8. ASSUME NEW n \in Nodes, StepCancelled(n) PROVE \E o : Leaves(Top, o)
  <2>1. ret = None /\ n = Top /\ at[n] = "step" /\ Seen
    BY <1>8, RunningFacts DEF StepCancelled
  <2>2. n \in Steps /\ n \notin Waiters
    BY <2>1, TreeFacts DEF Inv, StagesFit
  <2>3. End(n, Cancelled(Reason(n))) /\ Result(n, Cancelled(Reason(n)))
    BY <1>8, <2>1, <2>2 DEF StepCancelled, Result
  <2>4. QED
    BY <1>1, <2>1, <2>2, <2>3, EndLeaves
<1>9. ASSUME NEW n \in Nodes, EvidenceTaken(n) PROVE \E o : Leaves(Top, o)
  <2>1. ret = None /\ n = Top /\ at[n] = "evidence" /\ Seen
    BY <1>9, RunningFacts DEF EvidenceTaken
  <2>2. n \in Steps /\ n \notin Waiters
    BY <2>1, TreeFacts DEF Inv, StagesFit
  <2>3. End(n, primary[n]) /\ Result(n, primary[n])
    BY <1>9, <2>1, <2>2 DEF EvidenceTaken, Result
  <2>4. QED
    BY <1>1, <2>1, <2>2, <2>3, EndLeaves
<1>10. ASSUME NEW n \in Nodes, WaiterEnds(n) PROVE \E o : Leaves(Top, o)
  <2>1. ret = None /\ n = Top /\ at[n] = "releasing" /\ Seen
    BY <1>10, RunningFacts DEF WaiterEnds
  <2>2. n \in Waiters
    BY <2>1 DEF Inv, StagesFit
  <2>3. Result(n, WaitResult(n))
    BY <1>10, <2>1, <2>2 DEF WaiterEnds, Result
  <2>4. QED
    BY <1>1, <1>10, <2>1, <2>2, <2>3 DEF WaiterEnds, Leaves, Goto
<1>11. ASSUME NEW n \in Nodes, BodyStarts(n) PROVE \E c : Enters(c)
  <2>1. ret = None /\ n = Top /\ at[n] = "open" /\ Seen
    BY <1>11, RunningFacts DEF BodyStarts
  <2>2. Enter(NextChild(n)) /\ NextChild(n) \in ToSet(Children[n]) /\ at[NextChild(n)] = "idle"
    BY <1>11, NextChildWaits DEF BodyStarts
  <2>3. QED
    BY <1>1, <2>1, <2>2 DEF Enters
<1>12. QED
  <2>1. CASE SessionCloses \/ TestEnds \/ Ask \/ ControlCancels
    BY <2>1 DEF Stays
  <2>2. ASSUME NEW n \in Nodes, NEW class \in Classes, StepFails(n, class) PROVE Stays
    BY <2>2 DEF Stays
  <2>3. ASSUME NEW n \in Nodes,
               \/ ResourceOpens(n) \/ Observe(n) \/ BodyReturns(n) \/ Closes(n)
               \/ Expire(n) \/ BudgetEnds(n) \/ \E s \in Steps : Releases(n, s)
        PROVE  Stays
    BY <2>3 DEF Stays
  <2>4. QED
    BY <1>4, <1>5, <1>6, <1>7, <1>8, <1>9, <1>10, <1>11, <2>1, <2>2, <2>3 DEF Next, Answers

-----------------------------------------------------------------------------
(* What each move does                                                     *)

\* A child is entered.
LEMMA EntersFacts ==
  ASSUME Inv, NEW c, Enters(c)
  PROVE  /\ Path' /\ Top' = c /\ Top \in Nodes /\ OnPath(Top)
         /\ \A n : OnPath(n)' <=> OnPath(n) \/ n = c
         /\ c \in Nodes /\ c \in Below[Top] /\ ~OnPath(c) /\ c # Root /\ c # Top
         /\ \A n \in Nodes : c \in Below[n] => n = Top \/ Top \in Below[n]
         /\ \A m \in Below[c] : at[m] = "idle" /\ at'[m] = "idle" /\ ~OnPath(m)'
         /\ at' \in [Nodes -> Stages] /\ \A n \in Nodes : n # c => at'[n] = at[n]
         /\ at'[c] \in {"before", "acquiring", "open"}
         /\ at'[c] = "before" <=> c \in Steps
         /\ at'[c] = "acquiring" <=> Kind[c] = "resource"
         /\ ret' \in {None, Passed} /\ (ret' # None => Kind[c] = "sequence")
         /\ cause' \in [Nodes -> Outcomes] /\ cause'[c] = cause[Top]
         /\ \A n \in Nodes : n # c => cause'[n] = cause[n]
         /\ \A n \in Nodes : Started(n)' <=> Started(n) \/ n = c
         /\ UNCHANGED <<due, late, primary, first, failures, temp, terminal, asked, outcome,
                        unprovoked>>
<1>1. /\ Path /\ c \in ToSet(Children[Top]) /\ stack' = Append(stack, c) /\ at[c] = "idle"
      /\ UNCHANGED <<due, late, primary, first, failures, temp, terminal, asked, outcome,
                     unprovoked>>
  BY DEF Enters, Enter, Inv
<1>2. /\ Path' /\ Top' = c /\ c \in Nodes /\ c \in Below[Top] /\ ~OnPath(c)
      /\ \A n : OnPath(n)' <=> OnPath(n) \/ n = c
  BY <1>1, PathEntered
<1>3. Top \in Nodes /\ OnPath(Top) /\ \A m \in Below[Top] : ~OnPath(m)
  BY <1>1, PathTop
<1>4. c # Root /\ c # Top
  BY <1>1, <1>3, TreeFacts
<1>5. \A n \in Nodes : c \in Below[n] => n = Top \/ Top \in Below[n]
  BY <1>1, <1>3, Lineage
<1>6. /\ at \in [Nodes -> Stages] /\ cause \in [Nodes -> Outcomes]
      /\ Kind[c] \in {"test", "sequence", "timeout", "resource", "provider", "browser"}
  BY <1>2, TreeAssumption DEF Inv, TypeOK, OutcomesTrue
<1>7. /\ at' \in [Nodes -> Stages] /\ \A n \in Nodes : n # c => at'[n] = at[n]
      /\ at'[c] \in {"before", "acquiring", "open"}
      /\ at'[c] = "before" <=> c \in Steps
      /\ at'[c] = "acquiring" <=> Kind[c] = "resource"
  <2>1. at' = [at EXCEPT ![c] = CASE c \in Steps -> "before"
                                  [] Kind[c] = "resource" -> "acquiring"
                                  [] OTHER -> "open"]
    BY DEF Enters, Enter
  <2>2. c \in Steps => Kind[c] # "resource"
    BY DEF Steps
  <2>3. QED
    BY <1>2, <1>6, <2>1, <2>2 DEF Stages
<1>8. ret' \in {None, Passed} /\ (ret' # None => Kind[c] = "sequence")
  BY DEF Enters, Enter
<1>9. /\ cause' \in [Nodes -> Outcomes] /\ cause'[c] = cause[Top]
      /\ \A n \in Nodes : n # c => cause'[n] = cause[n]
  BY <1>2, <1>3, <1>6 DEF Enters, Enter
<1>10. \A m \in Below[c] : at[m] = "idle" /\ at'[m] = "idle" /\ ~OnPath(m)'
  <2>1. ASSUME NEW m \in Below[c] PROVE at[m] = "idle" /\ m \in Nodes /\ m # c /\ m \in Below[Top]
    BY <1>1, <1>2, <1>3, TreeFacts DEF Inv, StagesFit, Started
  <2>2. QED
    BY <1>2, <1>3, <1>7, <2>1
<1>11. \A n \in Nodes : Started(n)' <=> Started(n) \/ n = c
  BY <1>7 DEF Started
<1>12. QED
  BY <1>1, <1>2, <1>3, <1>4, <1>5, <1>7, <1>8, <1>9, <1>10, <1>11

\* The top is left; every node below it that was started has a terminal fact then.
LEMMA LeavesFacts ==
  ASSUME Inv, NEW n, NEW o, Leaves(n, o)
  PROVE  /\ Path' /\ Top' \in Nodes /\ n = Top /\ n \in Nodes /\ n # Root /\ OnPath(n)
         /\ n \in ToSet(Children[Top']) /\ n \in Below[Top'] /\ OnPath(Top') /\ Top' # n
         /\ \A m : OnPath(m)' <=> OnPath(m) /\ m # n
         /\ \A m : OnPath(m)' => m \in Nodes /\ (m = Top' \/ Top' \in Below[m])
         /\ \A m \in Below[n] : ~OnPath(m)
         /\ at' \in [Nodes -> Stages] /\ at'[n] = "over"
         /\ \A m \in Nodes : m # n => at'[m] = at[m]
         /\ terminal'[n] = ScopeFact(n, o, failures # {})
         /\ \A m \in Nodes : m # n =>
              terminal'[m] = IF m \in Below[n] /\ Started(m) /\ terminal[m] = "none"
                             THEN "Cancelled" ELSE terminal[m]
         /\ terminal[n] = "none" /\ DOMAIN terminal' = Nodes
         /\ ret' = o
         /\ \A m \in Nodes : Started(m)' <=> Started(m)
         /\ UNCHANGED <<cause, timer, due, late, primary, failures, asked, outcome, unprovoked>>
<1>1. Path /\ Top # Root /\ n = Top /\ stack' = Front(stack)
  BY DEF Leaves, Inv
<1>2. /\ Path' /\ Top' \in Nodes /\ n \in ToSet(Children[Top']) /\ n \in Below[Top']
      /\ OnPath(Top') /\ OnPath(n)
      /\ \A m : OnPath(m)' <=> OnPath(m) /\ m # n
      /\ \A m : OnPath(m)' => m \in Nodes /\ (m = Top' \/ Top' \in Below[m])
  BY <1>1, PathLeft
<1>3. n \in Nodes /\ \A m \in Below[n] : ~OnPath(m)
  BY <1>1, PathTop
<1>4. Top' # n
  BY <1>2, TreeFacts
<1>5. /\ at \in [Nodes -> Stages]
      /\ terminal \in [Nodes -> {"none", "Passed", "Failed", "TimedOut", "Cancelled", "Aborted"}]
  BY DEF Inv, TypeOK
<1>6. at' \in [Nodes -> Stages] /\ at'[n] = "over" /\ \A m \in Nodes : m # n => at'[m] = at[m]
  BY <1>3, <1>5 DEF Leaves, Stages
<1>7. /\ terminal'[n] = ScopeFact(n, o, failures # {}) /\ DOMAIN terminal' = Nodes
      /\ \A m \in Nodes : m # n =>
           terminal'[m] = IF m \in Below[n] /\ Started(m) /\ terminal[m] = "none"
                          THEN "Cancelled" ELSE terminal[m]
  <2>1. terminal' = [ClosedBelow(n) EXCEPT ![n] = ScopeFact(n, o, failures # {})]
    BY DEF Leaves
  <2>2. /\ DOMAIN ClosedBelow(n) = Nodes
        /\ \A m \in Nodes : ClosedBelow(n)[m] =
             IF m \in Below[n] /\ Started(m) /\ terminal[m] = "none"
             THEN "Cancelled" ELSE terminal[m]
    BY DEF ClosedBelow
  <2>3. ClosedBelow(n) = [m \in Nodes |-> ClosedBelow(n)[m]]
    BY DEF ClosedBelow
  <2>4. QED
    BY <1>3, <2>1, <2>2, <2>3
<1>8. at[n] \notin Gone /\ terminal[n] = "none"
  BY <1>1, <1>2, <1>3 DEF Inv, StagesFit, Terminals, Gone
<1>9. \A m \in Nodes : Started(m)' <=> Started(m)
  BY <1>6, <1>8 DEF Started, Gone
<1>10. /\ n # Root /\ ret' = o
       /\ UNCHANGED <<cause, timer, due, late, primary, failures, asked, outcome, unprovoked>>
  BY <1>1 DEF Leaves
<1>11. QED
  BY <1>1, <1>2, <1>3, <1>4, <1>6, <1>7, <1>8, <1>9, <1>10

\* What is inside an interrupted wait is dropped.
LEMMA AbandonFacts ==
  ASSUME Inv, NEW n \in Nodes, Abandon(n)
  PROVE  /\ Path' /\ Top' = n /\ OnPath(n) /\ n \in Waiters /\ ret = None
         /\ \A m : OnPath(m)' <=> OnPath(m) /\ m \notin Below[n]
         /\ \A m : OnPath(m) => m = n \/ m \in Below[n] \/ n \in Below[m]
         /\ at[n] = "interrupting" /\ at' \in [Nodes -> Stages] /\ at'[n] = Pass(n)
         /\ Pass(n) \in {"closing", "releasing"}
         /\ Pass(n) = "closing" => Kind[n] = "resource"
         /\ \A m \in Nodes : m # n =>
              at'[m] = IF m \in Below[n] /\ OnPath(m) THEN "dropped" ELSE at[m]
         /\ failures' = failures \cup {[scope |-> n, what |-> "timedout"]} /\ failures' # {}
         /\ \A m \in Nodes : Started(m)' <=> Started(m)
         /\ UNCHANGED <<ret, cause, timer, due, late, primary, first, temp, terminal, asked,
                        outcome, unprovoked>>
<1>1. /\ Path /\ ret = None /\ at[n] = "interrupting"
      /\ \E i \in DOMAIN stack : stack[i] = n /\ stack' = SubSeq(stack, 1, i)
      /\ failures' = failures \cup {[scope |-> n, what |-> "timedout"]}
      /\ UNCHANGED <<ret, cause, timer, due, late, primary, first, temp, terminal, asked,
                     outcome, unprovoked>>
  BY DEF Abandon, Inv
<1>2. /\ Path' /\ Top' = n /\ OnPath(n)
      /\ \A m : OnPath(m)' <=> OnPath(m) /\ m \notin Below[n]
  BY <1>1, PathDropped
<1>3. n \in Waiters
  BY <1>1 DEF Inv, StagesFit
<1>4. Pass(n) \in {"closing", "releasing"} /\ (Pass(n) = "closing" => Kind[n] = "resource")
  BY DEF Pass
<1>5. /\ at \in [Nodes -> Stages] /\ n \notin Below[n]
      /\ at' = [m \in Nodes |-> CASE m = n -> Pass(n)
                                  [] m \in Below[n] /\ OnPath(m) -> "dropped"
                                  [] OTHER -> at[m]]
  BY TreeFacts DEF Inv, TypeOK, Abandon
<1>6. /\ at'[n] = Pass(n)
      /\ \A m \in Nodes : m # n =>
           at'[m] = IF m \in Below[n] /\ OnPath(m) THEN "dropped" ELSE at[m]
  BY <1>5
<1>7. at' \in [Nodes -> Stages]
  <2>1. \A m \in Nodes : at'[m] \in Stages
    BY <1>4, <1>5, <1>6 DEF Stages
  <2>2. at' = [m \in Nodes |-> at'[m]]
    BY <1>5
  <2>3. QED
    BY <2>1, <2>2
<1>8. \A m \in Nodes : Started(m)' <=> Started(m)
  <2>1. ASSUME NEW m \in Nodes, OnPath(m) PROVE Started(m)
    BY <2>1 DEF Inv, StagesFit, Gone, Started
  <2>2. QED
    BY <1>1, <1>4, <1>6, <2>1 DEF Started
<1>9. ASSUME NEW m, OnPath(m) PROVE m = n \/ m \in Below[n] \/ n \in Below[m]
  <2>1. PICK i \in 1..Len(stack), j \in 1..Len(stack) : stack[i] = n /\ stack[j] = m
    BY <1>1, <1>2, <1>9, PathTop
  <2>2. Len(stack) \in Nat
    BY <1>1, PathTop
  <2>3. i < j => stack[j] \in Below[stack[i]]
    BY <1>1 DEF Path
  <2>4. j < i => stack[i] \in Below[stack[j]]
    BY <1>1 DEF Path
  <2>5. i < j \/ j < i \/ i = j
    BY <2>2
  <2>6. QED
    BY <2>1, <2>3, <2>4, <2>5
<1>10. failures' # {}
  BY <1>1
<1>11. QED
  BY <1>1, <1>2, <1>3, <1>4, <1>6, <1>7, <1>8, <1>9, <1>10

\* The path is as it was, and what is known of time and failures only grows.
LEMMA StaysFacts ==
  ASSUME Inv, Stays
  PROVE  /\ Path' /\ Top' = Top /\ \A n : OnPath(n)' <=> OnPath(n)
         /\ Top \in Nodes /\ OnPath(Top)
         /\ \A n : OnPath(n) => n \in Nodes /\ (n = Top \/ Top \in Below[n])
         /\ due \subseteq due' /\ (asked => asked') /\ failures \subseteq failures'
<1>1. stack' = stack
  BY DEF Stays, SessionCloses, TestEnds, Ask, ControlCancels, StepFails, ResourceOpens, Observe,
         BodyReturns, Closes, Expire, BudgetEnds, Releases
<1>2. due \subseteq due' /\ (asked => asked') /\ failures \subseteq failures'
  BY DEF Stays, SessionCloses, TestEnds, Ask, ControlCancels, StepBegins, StepFails,
         ResourceOpens, Observe, BodyReturns, Closes, Expire, BudgetEnds, Releases, Goto, End
<1>3. Path
  BY DEF Inv
<1>4. QED
  BY <1>1, <1>2, <1>3, PathKept, PathTop

\* The suspended path stays a path.
LEMMA PathStep ==
  ASSUME Inv, Next
  PROVE  Path'
  BY Moves, EntersFacts, LeavesFacts, AbandonFacts, StaysFacts

-----------------------------------------------------------------------------
(* Outcomes                                                                *)

\* The terminal fact is one of five, and says Passed only of a scope without a failed
\* cleanup that nobody else cancelled and whose node passed.
LEMMA ScopeFactCases ==
  ASSUME NEW n, NEW o, o.kind \in OutcomeKinds \ {"none", "interrupted"}, NEW failed \in BOOLEAN
  PROVE  /\ ScopeFact(n, o, failed) \in {"Passed", "Failed", "TimedOut", "Cancelled", "Aborted"}
         /\ ScopeFact(n, o, failed) = "Passed" <=>
              ~failed /\ o.kind = "passed" /\ (cause[n] = None \/ cause[n].by = n)
<1>1. CASE failed
  BY <1>1 DEF ScopeFact
<1>2. CASE ~failed /\ o.kind = "passed"
  BY <1>2 DEF ScopeFact
<1>3. CASE ~failed /\ o.kind = "cancelled"
  BY <1>3 DEF ScopeFact
<1>4. CASE ~failed /\ o.kind = "timedout"
  BY <1>4 DEF ScopeFact
<1>5. CASE ~failed /\ o.kind = "aborted"
  BY <1>5 DEF ScopeFact
<1>6. CASE ~failed /\ o.kind = "failed"
  BY <1>6 DEF ScopeFact
<1>7. QED
  BY <1>1, <1>2, <1>3, <1>4, <1>5, <1>6 DEF OutcomeKinds

\* So is the terminal fact of the root, which says Passed only of a test that passed.
LEMMA RootFactCases ==
  ASSUME NEW o, o.kind \in OutcomeKinds \ {"none", "interrupted"}
  PROVE  /\ RootFact(o) \in {"Passed", "Failed", "TimedOut", "Cancelled", "Aborted"}
         /\ RootFact(o) = "Passed" <=> o.kind = "passed"
BY DEF RootFact, OutcomeKinds

\* What a wait returns is true, and is what it completed with unless that was cut short.
LEMMA WaitResultTrue ==
  ASSUME Inv, NEW n \in Waiters, primary[n].kind # "none"
  PROVE  /\ True(WaitResult(n)) /\ WaitResult(n).kind \notin {"none", "interrupted"}
         /\ WaitResult(n).kind = "passed" => primary[n].kind = "passed"
         /\ WaitResult(n).kind = "aborted" <=> primary[n].kind = "aborted"
<1>1. n \in Nodes /\ Root \in Nodes /\ primary[n] \in Outcomes /\ True(primary[n])
  BY TreeFacts DEF Inv, OutcomesTrue
<1>2. CASE primary[n].kind = "interrupted" /\ primary[n].class = "timeout" /\ primary[n].by = n
  <2>1. WaitResult(n) = TimedOut(n)
    BY <1>2 DEF WaitResult
  <2>2. n \in due
    BY <1>1, <1>2 DEF True
  <2>3. QED
    BY <1>1, <1>2, <2>1, <2>2
    DEF True, TimedOut, Outcome, Outcomes, OutcomeKinds, OutcomeClasses
<1>3. CASE /\ primary[n].kind = "interrupted"
           /\ ~(primary[n].class = "timeout" /\ primary[n].by = n)
  <2>1. WaitResult(n) = Cancelled(primary[n].class)
    BY <1>3 DEF WaitResult
  <2>2. /\ primary[n].class \in OutcomeClasses
        /\ \/ primary[n].class = "user" /\ asked
           \/ primary[n].class = "timeout" /\ due # {}
    BY <1>1, <1>3 DEF True, Outcomes
  <2>3. QED
    BY <1>1, <1>3, <2>1, <2>2 DEF True, Cancelled, Outcome, Outcomes, OutcomeKinds
<1>4. CASE primary[n].kind # "interrupted"
  <2>1. WaitResult(n) = primary[n]
    BY <1>4 DEF WaitResult
  <2>2. QED
    BY <1>1, <1>4, <2>1
<1>5. QED
  BY <1>2, <1>3, <1>4

\* A cancelled step says truthfully why.
LEMMA CancelledTrue ==
  ASSUME Inv, NEW n \in Nodes, cause[n] # None \/ asked
  PROVE  True(Cancelled(Reason(n))) /\ Cancelled(Reason(n)).kind = "cancelled"
<1>1. /\ Reason(n) \in OutcomeClasses
      /\ \/ Reason(n) = "user" /\ asked
         \/ Reason(n) = "timeout" /\ due # {}
  BY DEF Inv, OutcomesTrue, Reason, OutcomeClasses
<1>2. Root \in Nodes
  BY TreeFacts
<1>3. QED
  BY <1>1, <1>2 DEF True, Cancelled, Outcome, Outcomes, OutcomeKinds

\* What a node returns is true and says that it ended.
LEMMA ResultTrue ==
  ASSUME Inv, NEW n \in Nodes, NEW o, Result(n, o)
  PROVE  True(o) /\ o.kind \in OutcomeKinds \ {"none", "interrupted"}
<1>1. True(ret) /\ ret.kind # "interrupted" /\ True(primary[n])
  BY DEF Inv, OutcomesTrue
<1>2. CASE ret # None /\ o = ret
  BY <1>1, <1>2 DEF True, Outcomes
<1>3. CASE (cause[n] # None \/ asked) /\ o = Cancelled(Reason(n))
  BY <1>3, CancelledTrue DEF OutcomeKinds
<1>4. CASE o = Passed
  <2>1. Root \in Nodes
    BY TreeFacts
  <2>2. QED
    BY <1>4, <2>1 DEF True, Passed, Outcome, Outcomes, OutcomeKinds, OutcomeClasses
<1>5. CASE at[n] = "evidence" /\ o = primary[n]
  BY <1>1, <1>5 DEF Inv, Completions, OutcomeKinds
<1>6. CASE n \in Waiters /\ at[n] = "releasing" /\ o = WaitResult(n)
  <2>1. primary[n].kind # "none"
    BY <1>6 DEF Inv, Completions
  <2>2. QED
    BY <1>6, <2>1, WaitResultTrue DEF True, Outcomes
<1>7. QED
  BY <1>2, <1>3, <1>4, <1>5, <1>6 DEF Result

\* So is what the test comes to before the cleanup.
LEMMA ProvisionalTrue ==
  ASSUME Inv, at[Root] = "session"
  PROVE  /\ Provisional \in Outcomes /\ Provisional.kind \notin {"none", "interrupted"}
         /\ Provisional.kind = "passed" => first = None /\ primary[Root].kind = "passed"
         /\ Provisional.kind = "timedout" => Provisional.by \in due
         /\ Provisional.kind = "cancelled" => \/ Provisional.class = "user" /\ asked
                                              \/ Provisional.class = "timeout" /\ due # {}
         /\ first # None =>
              /\ Provisional.by = first.by
              /\ first.kind = "failed" => Provisional.kind \in {"failed", "aborted"}
              /\ first.kind = "aborted" => Provisional.kind = "aborted"
         /\ first = None /\ primary[Root].kind = "aborted" => Provisional.kind = "aborted"
<1>1. Root \in Waiters /\ primary[Root].kind # "none"
  BY TreeFacts DEF Inv, Completions
<1>2. /\ True(WaitResult(Root)) /\ WaitResult(Root).kind \notin {"none", "interrupted"}
      /\ WaitResult(Root).kind = "passed" => primary[Root].kind = "passed"
      /\ WaitResult(Root).kind = "aborted" <=> primary[Root].kind = "aborted"
  BY <1>1, WaitResultTrue
<1>3. True(first) /\ (first # None => Fails(first))
  BY DEF Inv, OutcomesTrue
<1>4. DEFINE body == IF first # None THEN first ELSE WaitResult(Root)
<1>5. /\ True(body) /\ body.kind \notin {"none", "interrupted"}
      /\ body.kind = "passed" => first = None /\ primary[Root].kind = "passed"
      /\ first # None => body = first
      /\ first = None /\ primary[Root].kind = "aborted" => body.kind = "aborted"
  BY <1>2, <1>3 DEF Fails
<1>6. Provisional = IF body.kind = "failed" /\ body.class # "test"
                    THEN [body EXCEPT !.kind = "aborted"] ELSE body
  BY DEF Provisional
<1>7. QED
  <2> HIDE DEF body
  <2>1. CASE body.kind = "failed" /\ body.class # "test"
    <3>1. Provisional = [body EXCEPT !.kind = "aborted"] /\ body \in Outcomes
      BY <1>5, <1>6, <2>1 DEF True
    <3>2. Provisional.kind = "aborted" /\ Provisional.by = body.by /\ Provisional \in Outcomes
      BY <3>1 DEF Outcomes, OutcomeKinds
    <3>3. QED
      BY <1>5, <2>1, <3>2
  <2>2. CASE ~(body.kind = "failed" /\ body.class # "test")
    BY <1>5, <1>6, <2>2 DEF True
  <2>3. QED
    BY <2>1, <2>2

-----------------------------------------------------------------------------
(* Stages                                                                  *)

Turns(n, from, to) == OnPath(n) /\ at[n] = from /\ at' = [at EXCEPT ![n] = to]

\* How a node goes from stage to stage while the task stays.
Advances ==
  \/ at' = at
  \/ \E n \in Nodes :
       \/ n = Top /\ Turns(n, "before", "step")
       \/ n = Top /\ Turns(n, "step", "evidence")
       \/ n = Top /\ Turns(n, "acquiring", "open")
       \/ n = Top /\ Turns(n, "acquiring", "closing")
       \/ n \in Waiters /\ Turns(n, "open", "interrupting")
       \/ n = Top /\ n \in Waiters /\ Turns(n, "open", Pass(n))
       \/ n = Top /\ n \in Waiters /\ Turns(n, "interrupting", Pass(n))
       \/ n = Top /\ Turns(n, "closing", "releasing")
       \/ n = Top /\ n = Root /\ Turns(n, "releasing", "session")
       \/ n = Top /\ n = Root /\ Turns(n, "session", "over") /\ TestEnds

LEMMA StaysAdvances ==
  ASSUME Inv, Stays, outcome = None
  PROVE  /\ Advances
         /\ ret' = None \/ (ret' = ret /\ at' = at)
         /\ ~TestEnds => terminal' = terminal /\ outcome' = outcome
<1>1. Top \in Nodes /\ OnPath(Top) /\ Root \in Nodes
  BY PathTop, TreeFacts DEF Inv
<1>2. CASE SessionCloses
  BY <1>1, <1>2 DEF SessionCloses, Running, Goto, Advances, Turns
<1>3. CASE TestEnds
  BY <1>1, <1>3 DEF TestEnds, Running, Goto, Advances, Turns
<1>4. CASE Ask \/ ControlCancels
  BY <1>4 DEF Ask, ControlCancels, Advances
<1>5. ASSUME NEW n \in Nodes, StepBegins(n) /\ Goto(n, "step") /\ stack' = stack
      PROVE  /\ n = Top /\ Turns(n, "before", "step") /\ outcome = None
             /\ ret' = None /\ terminal' = terminal /\ outcome' = outcome
  <2>1. n = Top /\ OnPath(n) /\ ret = None /\ outcome = None /\ at[n] = "before"
    BY <1>1, <1>5 DEF StepBegins, Running
  <2>2. at \in [Nodes -> Stages]
    BY DEF Inv, TypeOK
  <2>3. ~End(n, Cancelled(Reason(n)))
    BY <1>5, <2>2 DEF End, Goto
  <2>4. QED
    BY <1>5, <2>1, <2>3 DEF StepBegins, Goto, Turns
<1>6. ASSUME NEW n \in Nodes, NEW class \in Classes, StepFails(n, class)
      PROVE  /\ n = Top /\ Turns(n, "step", "evidence") /\ outcome = None
             /\ ret' = None /\ terminal' = terminal /\ outcome' = outcome
  BY <1>1, <1>6 DEF StepFails, Running, Goto, Turns
<1>7. ASSUME NEW n \in Nodes, ResourceOpens(n)
      PROVE  /\ n = Top /\ (Turns(n, "acquiring", "open") \/ Turns(n, "acquiring", "closing"))
             /\ outcome = None /\ ret' = None /\ terminal' = terminal /\ outcome' = outcome
  BY <1>1, <1>7 DEF ResourceOpens, Running, Goto, Turns
<1>8. ASSUME NEW n \in Nodes, Observe(n)
      PROVE  /\ \/ Turns(n, "open", "interrupting")
                \/ n = Top /\ Turns(n, "acquiring", "closing")
             /\ n \in Waiters /\ outcome = None
             /\ ret' = None /\ terminal' = terminal /\ outcome' = outcome
  <2>1. /\ OnPath(n) /\ n \in Waiters /\ at[n] \in {"acquiring", "open"} /\ ret = None
        /\ Goto(n, IF at[n] = "open" THEN "interrupting" ELSE "closing")
        /\ UNCHANGED <<ret, terminal, outcome>>
    BY <1>8 DEF Observe
  <2>2. outcome = None /\ (at[n] = "acquiring" => n = Top)
    BY <1>8, <2>1 DEF Inv, StagesFit, Observe
  <2>3. QED
    BY <2>1, <2>2 DEF Goto, Turns
<1>9. ASSUME NEW n \in Nodes, BodyReturns(n)
      PROVE  /\ n = Top /\ n \in Waiters /\ outcome = None
             /\ Turns(n, "open", Pass(n)) \/ Turns(n, "interrupting", Pass(n))
             /\ ret' = None /\ terminal' = terminal /\ outcome' = outcome
  <2>1. ret # None /\ n = Top /\ n \in Waiters
    BY <1>9 DEF BodyReturns
  <2>2. at[n] \in {"open", "interrupting"} /\ outcome = None
    BY <2>1 DEF Inv, StagesFit
  <2>3. QED
    BY <1>1, <1>9, <2>1, <2>2 DEF BodyReturns, Goto, Turns
<1>10. ASSUME NEW n \in Nodes, Closes(n)
       PROVE  /\ n = Top /\ Turns(n, "closing", "releasing") /\ outcome = None
              /\ ret' = None /\ terminal' = terminal /\ outcome' = outcome
  BY <1>1, <1>10 DEF Closes, Running, Goto, Turns
<1>11. ASSUME NEW n \in Nodes, Expire(n) \/ BudgetEnds(n) \/ \E s \in Steps : Releases(n, s)
       PROVE  at' = at /\ ret' = ret /\ terminal' = terminal /\ outcome' = outcome
  BY <1>11 DEF Expire, BudgetEnds, Releases
<1>12. ASSUME TestEnds PROVE ret' = None /\ outcome = None
  BY <1>12 DEF TestEnds, Running
<1>13. ASSUME SessionCloses
       PROVE  ret' = None /\ outcome = None /\ terminal' = terminal /\ outcome' = outcome
  BY <1>13 DEF SessionCloses, Running
<1>14. ASSUME Ask \/ ControlCancels
       PROVE  at' = at /\ ret' = ret /\ terminal' = terminal /\ outcome' = outcome
  BY <1>14 DEF Ask, ControlCancels
<1>15. Advances
  BY <1>2, <1>3, <1>4, <1>5, <1>6, <1>7, <1>8, <1>9, <1>10, <1>11 DEF Stays, Advances
<1>16. QED
  BY <1>5, <1>6, <1>7, <1>8, <1>9, <1>10, <1>11, <1>12, <1>13, <1>14, <1>15 DEF Stays

\* What the stages of the path become.
LEMMA AdvancesFacts ==
  ASSUME Inv, Advances
  PROVE  /\ at' \in [Nodes -> Stages]
         /\ \A n \in Nodes : ~OnPath(n) => at'[n] = at[n]
         /\ \A n \in Nodes : n # Top =>
              at'[n] = at[n] \/ (at[n] = "open" /\ at'[n] = "interrupting")
         /\ \A n \in Nodes : Started(n)' <=> Started(n)
<1>1. at \in [Nodes -> Stages]
  BY DEF Inv, TypeOK
<1>2. ASSUME NEW n \in Nodes, NEW from, NEW to \in Stages \ {"idle"}, from # "idle",
             n = Top \/ (from = "open" /\ to = "interrupting"), Turns(n, from, to)
      PROVE  /\ at' \in [Nodes -> Stages]
             /\ \A m \in Nodes : ~OnPath(m) => at'[m] = at[m]
             /\ \A m \in Nodes : m # Top =>
                  at'[m] = at[m] \/ (at[m] = "open" /\ at'[m] = "interrupting")
             /\ \A m \in Nodes : Started(m)' <=> Started(m)
  BY <1>1, <1>2 DEF Turns, Started
<1>3. \A n : Pass(n) \in {"closing", "releasing"}
  BY DEF Pass
<1>4. CASE at' = at
  BY <1>1, <1>4 DEF Started
<1>5. QED
  BY <1>2, <1>3, <1>4 DEF Advances, Stages

\* Every node stays at a stage of its kind.
LEMMA StagesFitStep ==
  ASSUME Inv, Next
  PROVE  StagesFit'
<1>1. StagesFit /\ outcome = None /\ at \in [Nodes -> Stages] /\ Root \in Nodes
  BY OutcomeLast, TreeFacts DEF Inv, TypeOK
<1>2. ASSUME NEW c, Enters(c) PROVE StagesFit'
  <2>1. c \in Nodes /\ at'[c] \in {"before", "acquiring", "open"}
    BY <1>2, EntersFacts
  <2>2. /\ \A n \in Nodes : OnPath(n)' <=> (at'[n] \notin Gone \/ n = Root)
        /\ \A n \in Nodes : (OnPath(n) /\ n # Top)' => at'[n] \in {"open", "interrupting"}
        /\ (ret # None)' => at'[Top'] \in {"open", "interrupting"}
    <3>1. at[Top] \in {"open", "interrupting"}
      BY <1>2 DEF Enters
    <3>2. ret' # None => at'[c] = "open"
      <4>1. Kind[c] = "sequence" => c \notin Steps /\ Kind[c] # "resource"
        BY DEF Steps
      <4>2. QED
        BY <1>2, <4>1, EntersFacts
    <3>3. QED
      BY <1>1, <1>2, <3>1, <3>2, EntersFacts DEF StagesFit, Gone, None, Outcome
  <2>3. /\ \A n \in Nodes : at'[n] \in {"before", "step", "evidence"} => n \in Steps
        /\ \A n \in Nodes : at'[n] \in {"acquiring", "closing"} => Kind[n] = "resource"
        /\ \A n \in Nodes : at'[n] \in {"interrupting", "releasing"} => n \in Waiters
        /\ \A n \in Nodes : at'[n] = "open" => n \notin Steps
        /\ \A n \in Nodes : at'[n] = "session" => n = Root
    BY <1>1, <1>2, EntersFacts DEF StagesFit
  <2>4. /\ at'[Root] \in {"open", "interrupting", "releasing", "session", "over"}
        /\ outcome' # None <=> at'[Root] = "over"
        /\ (outcome # None)' => (Top = Root /\ ret = None)'
    BY <1>1, <1>2, EntersFacts DEF StagesFit, None
  <2>5. \A n \in Nodes : \A m \in Below[n] : Started(m)' => Started(n)'
    <3>1. ASSUME NEW n \in Nodes, NEW m \in Below[n], Started(m)' PROVE Started(n)'
      <4>1. CASE Started(m)
        BY <1>1, <1>2, <3>1, <4>1, EntersFacts DEF StagesFit
      <4>2. CASE m = c
        <5>1. n = Top \/ Top \in Below[n]
          BY <1>2, <3>1, <4>2, EntersFacts
        <5>2. Started(Top)
          BY <1>2 DEF Enters, Started
        <5>3. Started(n)
          BY <1>1, <5>1, <5>2 DEF StagesFit
        <5>4. QED
          BY <1>2, <5>3, EntersFacts
      <4>3. QED
        BY <1>2, <3>1, <4>1, <4>2, EntersFacts, TreeFacts
    <3>2. QED
      BY <3>1
  <2>6. QED
    BY <2>2, <2>3, <2>4, <2>5 DEF StagesFit
<1>3. ASSUME NEW o, Leaves(Top, o) PROVE StagesFit'
  <2>1. /\ \A n \in Nodes : OnPath(n)' <=> (at'[n] \notin Gone \/ n = Root)
        /\ \A n \in Nodes : (OnPath(n) /\ n # Top)' => at'[n] \in {"open", "interrupting"}
        /\ (ret # None)' => at'[Top'] \in {"open", "interrupting"}
    BY <1>1, <1>3, LeavesFacts DEF StagesFit, Gone
  <2>2. /\ \A n \in Nodes : at'[n] \in {"before", "step", "evidence"} => n \in Steps
        /\ \A n \in Nodes : at'[n] \in {"acquiring", "closing"} => Kind[n] = "resource"
        /\ \A n \in Nodes : at'[n] \in {"interrupting", "releasing"} => n \in Waiters
        /\ \A n \in Nodes : at'[n] = "open" => n \notin Steps
        /\ \A n \in Nodes : at'[n] = "session" => n = Root
    BY <1>1, <1>3, LeavesFacts DEF StagesFit
  <2>3. /\ at'[Root] \in {"open", "interrupting", "releasing", "session", "over"}
        /\ outcome' # None <=> at'[Root] = "over"
        /\ (outcome # None)' => (Top = Root /\ ret = None)'
    BY <1>1, <1>3, LeavesFacts DEF StagesFit, None
  <2>4. \A n \in Nodes : \A m \in Below[n] : Started(m)' => Started(n)'
    BY <1>1, <1>3, LeavesFacts, TreeFacts DEF StagesFit
  <2>5. QED
    BY <2>1, <2>2, <2>3, <2>4 DEF StagesFit
<1>4. ASSUME NEW n \in Nodes, Abandon(n) PROVE StagesFit'
  <2>1. Root # n => at'[Root] = at[Root]
    BY <1>1, <1>4, AbandonFacts, TreeFacts
  <2>2. Root = n => Kind[n] = "test" /\ at'[Root] = "releasing"
    BY <1>4, AbandonFacts, TreeAssumption DEF Pass
  <2>3. /\ \A m \in Nodes : OnPath(m)' <=> (at'[m] \notin Gone \/ m = Root)
        /\ \A m \in Nodes : (OnPath(m) /\ m # Top)' => at'[m] \in {"open", "interrupting"}
    <3>1. ASSUME NEW m \in Nodes PROVE OnPath(m)' <=> (at'[m] \notin Gone \/ m = Root)
      <4>1. CASE m = n
        BY <1>4, <4>1, AbandonFacts, TreeFacts DEF Gone
      <4>2. CASE m # n /\ m \in Below[n] /\ OnPath(m)
        BY <1>4, <4>2, AbandonFacts, TreeFacts DEF Gone
      <4>3. CASE m # n /\ ~(m \in Below[n] /\ OnPath(m))
        <5>1. at'[m] = at[m] /\ (OnPath(m)' <=> OnPath(m))
          BY <1>4, <4>3, AbandonFacts
        <5>2. QED
          BY <1>1, <5>1 DEF StagesFit
      <4>4. QED
        BY <4>1, <4>2, <4>3
    <3>2. ASSUME NEW m \in Nodes, OnPath(m)', m # n PROVE at'[m] \in {"open", "interrupting"}
      <4>1. OnPath(m) /\ m \notin Below[n] /\ at'[m] = at[m] /\ n \in Below[m]
        BY <1>4, <3>2, AbandonFacts
      <4>2. m # Top
        BY <1>4, <4>1, AbandonFacts, PathTop DEF Inv
      <4>3. QED
        BY <1>1, <4>1, <4>2 DEF StagesFit
    <3>3. QED
      BY <1>4, <3>1, <3>2, AbandonFacts
  <2>4. /\ \A m \in Nodes : at'[m] \in {"before", "step", "evidence"} => m \in Steps
        /\ \A m \in Nodes : at'[m] \in {"acquiring", "closing"} => Kind[m] = "resource"
        /\ \A m \in Nodes : at'[m] \in {"interrupting", "releasing"} => m \in Waiters
        /\ \A m \in Nodes : at'[m] = "open" => m \notin Steps
        /\ \A m \in Nodes : at'[m] = "session" => m = Root
    BY <1>1, <1>4, AbandonFacts DEF StagesFit
  <2>5. /\ at'[Root] \in {"open", "interrupting", "releasing", "session", "over"}
        /\ outcome' # None <=> at'[Root] = "over"
        /\ (outcome # None)' => (Top = Root /\ ret = None)'
        /\ (ret # None)' => at'[Top'] \in {"open", "interrupting"}
    BY <1>1, <1>4, <2>1, <2>2, AbandonFacts DEF StagesFit, None
  <2>6. \A a \in Nodes : \A b \in Below[a] : Started(b)' => Started(a)'
    BY <1>1, <1>4, AbandonFacts, TreeFacts DEF StagesFit
  <2>7. QED
    BY <2>3, <2>4, <2>5, <2>6 DEF StagesFit
<1>5. ASSUME Stays PROVE StagesFit'
  <2>1. /\ Advances /\ (ret' = None \/ (ret' = ret /\ at' = at))
        /\ ~TestEnds => outcome' = outcome
    BY <1>1, <1>5, StaysAdvances
  <2>2. Top' = Top /\ (\A n : OnPath(n)' <=> OnPath(n)) /\ Top \in Nodes /\ OnPath(Top)
    BY <1>5, StaysFacts
  <2>3. \A n \in Nodes : \A m \in Below[n] : Started(m)' => Started(n)'
    BY <1>1, <2>1, AdvancesFacts, TreeFacts DEF StagesFit
  <2>4. /\ \A n \in Nodes : (OnPath(n) /\ n # Top)' => at'[n] \in {"open", "interrupting"}
        /\ (ret # None)' => at'[Top'] \in {"open", "interrupting"}
    BY <1>1, <2>1, <2>2, AdvancesFacts DEF StagesFit
  <2>5. CASE TestEnds
    <3>1. at' = [at EXCEPT ![Root] = "over"] /\ at[Root] = "session" /\ Top = Root /\ ret' = None
      BY <2>5 DEF TestEnds, Running, Goto
    <3>2. outcome' # None
      <4>1. outcome' = IF failures = {} THEN Provisional ELSE [Provisional EXCEPT !.kind = "aborted"]
        BY <2>5 DEF TestEnds
      <4>2. Provisional.kind # "none" /\ Provisional \in Outcomes
        BY <3>1, ProvisionalTrue
      <4>3. [Provisional EXCEPT !.kind = "aborted"].kind = "aborted"
        BY <4>2 DEF Outcomes
      <4>4. None.kind = "none"
        BY DEF None
      <4>5. QED
        BY <4>1, <4>2, <4>3, <4>4
    <3>3. /\ at'[Root] = "over" /\ \A n \in Nodes : n # Root => at'[n] = at[n]
      BY <1>1, <3>1
    <3>4. /\ \A n \in Nodes : OnPath(n)' <=> (at'[n] \notin Gone \/ n = Root)
          /\ \A n \in Nodes : at'[n] \in {"before", "step", "evidence"} => n \in Steps
          /\ \A n \in Nodes : at'[n] \in {"acquiring", "closing"} => Kind[n] = "resource"
          /\ \A n \in Nodes : at'[n] \in {"interrupting", "releasing"} => n \in Waiters
          /\ \A n \in Nodes : at'[n] = "open" => n \notin Steps
          /\ \A n \in Nodes : at'[n] = "session" => n = Root
      BY <1>1, <2>2, <3>1, <3>3, PathTop DEF StagesFit, Inv
    <3>5. QED
      BY <2>2, <2>3, <2>4, <3>1, <3>2, <3>3, <3>4 DEF StagesFit
  <2>6. CASE ~TestEnds
    <3>1. outcome' = None
      BY <1>1, <2>1, <2>6
    <3>2. ASSUME NEW n \in Nodes, NEW from \in Stages \ Gone, NEW to \in Stages \ Gone,
                 Turns(n, from, to), from # "session",
                 to \in {"step", "evidence"} => n \in Steps,
                 to = "closing" => Kind[n] = "resource",
                 to = "open" => n \notin Steps,
                 to \in {"interrupting", "releasing"} => n \in Waiters,
                 to = "session" => n = Root,
                 to \notin {"before", "acquiring"},
                 n = Root => to \in {"interrupting", "releasing", "session"}
          PROVE  /\ \A m \in Nodes : OnPath(m)' <=> (at'[m] \notin Gone \/ m = Root)
                 /\ \A m \in Nodes : at'[m] \in {"before", "step", "evidence"} => m \in Steps
                 /\ \A m \in Nodes : at'[m] \in {"acquiring", "closing"} => Kind[m] = "resource"
                 /\ \A m \in Nodes : at'[m] \in {"interrupting", "releasing"} => m \in Waiters
                 /\ \A m \in Nodes : at'[m] = "open" => m \notin Steps
                 /\ \A m \in Nodes : at'[m] = "session" => m = Root
                 /\ at'[Root] \in {"open", "interrupting", "releasing", "session"}
      <4>1. /\ at'[n] = to /\ at[n] = from /\ OnPath(n)
            /\ \A m \in Nodes : m # n => at'[m] = at[m]
        BY <1>1, <3>2 DEF Turns
      <4>2. QED
        BY <1>1, <2>2, <3>1, <3>2, <4>1 DEF StagesFit, Gone
    <3>3. /\ \A n \in Nodes : at[n] \in {"before", "step"} => n \in Steps
          /\ \A n \in Nodes : at[n] \in {"acquiring", "closing"} =>
               Kind[n] = "resource" /\ n \in Waiters /\ n \notin Steps
          /\ Root \notin Steps /\ Kind[Root] = "test"
          /\ \A n : (Pass(n) = "closing" /\ Kind[n] = "resource") \/ Pass(n) = "releasing"
      BY <1>1, TreeFacts, TreeAssumption DEF StagesFit, Waiters, Steps, Pass
    <3>4. \/ at' = at
          \/ \E n \in Nodes :
               \/ n \in Steps /\ n # Root /\ Turns(n, "before", "step")
               \/ n \in Steps /\ n # Root /\ Turns(n, "step", "evidence")
               \/ n \notin Steps /\ n # Root /\ Turns(n, "acquiring", "open")
               \/ Kind[n] = "resource" /\ n # Root /\ Turns(n, "acquiring", "closing")
               \/ n \in Waiters /\ Turns(n, "open", "interrupting")
               \/ \E from \in {"open", "interrupting"} :
                    \/ n \in Waiters /\ Kind[n] = "resource" /\ n # Root /\ Turns(n, from, "closing")
                    \/ n \in Waiters /\ Turns(n, from, "releasing")
               \/ n \in Waiters /\ Turns(n, "closing", "releasing")
               \/ n = Root /\ Turns(n, "releasing", "session")
      <4>1. PICK n \in Nodes : at' = at \/
               \/ n = Top /\ Turns(n, "before", "step")
               \/ n = Top /\ Turns(n, "step", "evidence")
               \/ n = Top /\ Turns(n, "acquiring", "open")
               \/ n = Top /\ Turns(n, "acquiring", "closing")
               \/ n \in Waiters /\ Turns(n, "open", "interrupting")
               \/ n = Top /\ n \in Waiters /\ Turns(n, "open", Pass(n))
               \/ n = Top /\ n \in Waiters /\ Turns(n, "interrupting", Pass(n))
               \/ n = Top /\ Turns(n, "closing", "releasing")
               \/ n = Top /\ n = Root /\ Turns(n, "releasing", "session")
        BY <1>1, <2>1, <2>6 DEF Advances
      <4>2. /\ \A from, to : Turns(n, from, to) => at[n] = from
        BY DEF Turns
      <4>3. QED
        BY <3>3, <4>1, <4>2
    <3>5. /\ \A n \in Nodes : OnPath(n)' <=> (at'[n] \notin Gone \/ n = Root)
          /\ \A n \in Nodes : at'[n] \in {"before", "step", "evidence"} => n \in Steps
          /\ \A n \in Nodes : at'[n] \in {"acquiring", "closing"} => Kind[n] = "resource"
          /\ \A n \in Nodes : at'[n] \in {"interrupting", "releasing"} => n \in Waiters
          /\ \A n \in Nodes : at'[n] = "open" => n \notin Steps
          /\ \A n \in Nodes : at'[n] = "session" => n = Root
          /\ at'[Root] \in {"open", "interrupting", "releasing", "session"}
      <4>1. CASE at' = at
        <5>1. at'[Root] # "over"
          BY <1>1, <4>1 DEF StagesFit
        <5>2. QED
          BY <1>1, <2>2, <4>1, <5>1 DEF StagesFit
      <4>2. Stages \ Gone = {"before", "step", "evidence", "acquiring", "open", "interrupting",
                             "closing", "releasing", "session"}
        BY DEF Stages, Gone
      <4>3. QED
        BY <3>2, <3>3, <3>4, <4>1, <4>2
    <3>6. QED
      BY <2>2, <2>3, <2>4, <3>1, <3>5 DEF StagesFit
  <2>7. QED
    BY <2>5, <2>6
<1>6. QED
  BY <1>2, <1>3, <1>4, <1>5, Moves

-----------------------------------------------------------------------------
(* Outcomes and types                                                      *)

\* What is true of an outcome stays true.
LEMMA TrueGrows ==
  ASSUME NEW o, True(o), due \subseteq due', asked => asked'
  PROVE  True(o)'
  BY DEF True, None, Passed, Outcome, Outcomes

\* Every outcome in the state stays true.
LEMMA OutcomesTrueStep ==
  ASSUME Inv, Next
  PROVE  OutcomesTrue'
<1> DEFINE CausesTrue ==
      /\ cause \in [Nodes -> Outcomes]
      /\ \A n \in Nodes : cause[n] # None =>
           /\ cause[n].kind = "cancelled" /\ cause[n].by \in Deadlines
           /\ \/ cause[n].class = "user" /\ asked /\ cause[n].by = Root
              \/ cause[n].class = "timeout" /\ cause[n].by \in due
<1>1. /\ True(ret) /\ ret.kind # "interrupted" /\ True(first) /\ (first # None => Fails(first))
      /\ primary \in [Nodes -> Outcomes] /\ (\A n \in Nodes : True(primary[n])) /\ CausesTrue
  BY DEF Inv, OutcomesTrue
<1>2. /\ Root \in Nodes /\ None \in Outcomes /\ Passed \in Outcomes /\ outcome = None
      /\ None.kind = "none" /\ Passed.kind = "passed" /\ timer \in [Nodes -> Deadlines]
  BY OutcomeLast, TreeFacts
  DEF Inv, TypeOK, None, Passed, Outcome, Outcomes, OutcomeKinds, OutcomeClasses
<1>3. ASSUME due \subseteq due', asked => asked'
      PROVE  /\ ret' = ret => (True(ret) /\ ret.kind # "interrupted")'
             /\ ret' \in {None, Passed} => (True(ret) /\ ret.kind # "interrupted")'
             /\ first' = first => (True(first) /\ (first # None => Fails(first)))'
             /\ primary' = primary =>
                  (primary \in [Nodes -> Outcomes] /\ \A n \in Nodes : True(primary[n]))'
             /\ cause' = cause => CausesTrue'
             /\ \A n \in Nodes : \A o : primary' = [primary EXCEPT ![n] = o] /\ True(o)' =>
                  (primary \in [Nodes -> Outcomes] /\ \A m \in Nodes : True(primary[m]))'
  <2>1. \A o : True(o) => True(o)'
    BY <1>3, TrueGrows
  <2>2. ret' = ret => (True(ret) /\ ret.kind # "interrupted")'
    BY <1>1, <1>3 DEF True, None, Passed, Outcome
  <2>3. ret' \in {None, Passed} => (True(ret) /\ ret.kind # "interrupted")'
    BY <1>2 DEF True
  <2>4. first' = first => (True(first) /\ (first # None => Fails(first)))'
    BY <1>1, <1>3 DEF True, None, Passed, Outcome, Fails
  <2>5. ASSUME primary' = primary
        PROVE  (primary \in [Nodes -> Outcomes] /\ \A n \in Nodes : True(primary[n]))'
    BY <1>1, <1>3, <2>5 DEF True, None, Passed, Outcome
  <2>6. cause' = cause => CausesTrue'
    BY <1>1, <1>3 DEF None
  <2>7. ASSUME NEW n \in Nodes, NEW o, primary' = [primary EXCEPT ![n] = o], True(o)'
        PROVE  (primary \in [Nodes -> Outcomes] /\ \A m \in Nodes : True(primary[m]))'
    <3>1. o \in Outcomes
      BY <2>7 DEF True, Outcomes
    <3>2. primary' \in [Nodes -> Outcomes]
      BY <1>1, <2>7, <3>1
    <3>3. ASSUME NEW m \in Nodes PROVE True(primary[m])'
      <4>1. CASE m = n
        BY <1>1, <2>7, <4>1 DEF True, None, Passed, Outcome
      <4>2. CASE m # n
        BY <1>1, <1>3, <2>7, <4>2 DEF True, None, Passed, Outcome
      <4>3. QED
        BY <4>1, <4>2
    <3>4. QED
      BY <3>2, <3>3
  <2>8. QED
    BY <2>2, <2>3, <2>4, <2>5, <2>6, <2>7
<1>4. ASSUME /\ (True(ret) /\ ret.kind # "interrupted")'
             /\ (True(first) /\ (first # None => Fails(first)))'
             /\ (primary \in [Nodes -> Outcomes] /\ \A n \in Nodes : True(primary[n]))'
             /\ CausesTrue'
      PROVE  OutcomesTrue'
  BY <1>4 DEF OutcomesTrue
<1> HIDE DEF CausesTrue
<1>5. ASSUME NEW c, Enters(c) PROVE OutcomesTrue'
  <2>1. CausesTrue'
    BY <1>1, <1>5, EntersFacts DEF CausesTrue, None
  <2>2. QED
    BY <1>3, <1>4, <1>5, <2>1, EntersFacts
<1>6. ASSUME NEW o, Leaves(Top, o) PROVE OutcomesTrue'
  <2>1. /\ UNCHANGED <<cause, due, primary, asked>> /\ ret' = o /\ Result(Top, o) /\ Top \in Nodes
        /\ first' = IF Fails(o) /\ cause[Top] = None /\ first = None THEN o ELSE first
    BY <1>6, LeavesFacts DEF Leaves
  <2>2. True(o) /\ o.kind \notin {"none", "interrupted"}
    BY <2>1, ResultTrue
  <2>3. (True(ret) /\ ret.kind # "interrupted")'
    BY <2>1, <2>2 DEF True, None, Passed, Outcome
  <2>4. (True(first) /\ (first # None => Fails(first)))'
    BY <1>1, <2>1, <2>2 DEF True, None, Passed, Outcome, Fails
  <2>5. QED
    BY <1>3, <1>4, <2>1, <2>3, <2>4
<1>7. ASSUME NEW n \in Nodes, Abandon(n) PROVE OutcomesTrue'
  BY <1>3, <1>4, <1>7, AbandonFacts
<1>8. ASSUME NEW n \in Nodes, NEW by \in Deadlines, NEW class \in OutcomeClasses,
             CancelToken(n, Outcome("cancelled", by, class)),
             \/ class = "user" /\ asked' /\ by = Root
             \/ class = "timeout" /\ by \in due',
             due \subseteq due', asked => asked'
      PROVE  CausesTrue'
  <2> DEFINE c == Outcome("cancelled", by, class)
  <2>1. c \in Outcomes /\ c.kind = "cancelled" /\ c.by = by /\ c.class = class
    BY <1>8, TreeFacts DEF Outcome, Outcomes, OutcomeKinds
  <2>2. /\ cause' = [m \in Nodes |-> IF m \in {n} \cup Below[n] /\ Started(m) /\ cause[m] = None
                                     THEN c ELSE cause[m]]
    BY <1>8 DEF CancelToken
  <2> HIDE DEF c
  <2>3. cause' \in [Nodes -> Outcomes]
    BY <1>1, <2>1, <2>2 DEF CausesTrue
  <2>4. \A m \in Nodes : cause'[m] = c \/ cause'[m] = cause[m]
    BY <2>2
  <2>5. QED
    BY <1>1, <1>8, <2>1, <2>3, <2>4 DEF CausesTrue, None
<1>9. ASSUME Stays PROVE OutcomesTrue'
  <2>1. due \subseteq due' /\ (asked => asked') /\ Top \in Nodes
    BY <1>9, StaysFacts
  <2>2. CASE SessionCloses \/ TestEnds \/ Ask
    BY <1>3, <1>4, <2>1, <2>2 DEF SessionCloses, TestEnds, Ask
  <2>3. CASE ControlCancels
    <3>1. CausesTrue'
      <4>1. Root \in Deadlines /\ "user" \in OutcomeClasses
        BY TreeFacts DEF OutcomeClasses
      <4>2. asked' /\ CancelToken(Root, Outcome("cancelled", Root, "user"))
        BY <2>3 DEF ControlCancels
      <4>3. QED
        BY <1>2, <1>8, <2>1, <4>1, <4>2
    <3>2. QED
      BY <1>3, <1>4, <2>1, <2>3, <3>1 DEF ControlCancels
  <2>4. ASSUME NEW n \in Nodes, StepBegins(n) /\ Goto(n, "step") /\ stack' = stack
        PROVE  OutcomesTrue'
    <3>1. at \in [Nodes -> Stages] /\ ~End(n, Cancelled(Reason(n)))
      BY <2>4 DEF Inv, TypeOK, End, Goto
    <3>2. UNCHANGED <<ret, first, primary, cause>>
      BY <2>4, <3>1 DEF StepBegins
    <3>3. QED
      BY <1>3, <1>4, <2>1, <3>2
  <2>5. ASSUME NEW n \in Nodes, NEW class \in Classes, StepFails(n, class) PROVE OutcomesTrue'
    <3>1. True(Failed(n, class))' /\ Fails(Failed(n, class)) /\ Failed(n, class).kind = "failed"
      BY <2>5 DEF True, Failed, Fails, Outcome, Outcomes, OutcomeKinds, OutcomeClasses, Classes
    <3>2. /\ primary' = [primary EXCEPT ![n] = Failed(n, class)] /\ cause' = cause /\ ret' = ret
          /\ first' = Failed(n, class) \/ first' = first
      BY <2>5 DEF StepFails
    <3>3. (True(first) /\ (first # None => Fails(first)))'
      <4>1. CASE first' = first
        BY <1>3, <2>1, <4>1
      <4>2. CASE first' = Failed(n, class)
        BY <3>1, <4>2 DEF True, None, Passed, Outcome, Fails
      <4>3. QED
        BY <3>2, <4>1, <4>2
    <3>4. QED
      BY <1>3, <1>4, <2>1, <3>1, <3>2, <3>3
  <2>6. ASSUME NEW n \in Nodes, ResourceOpens(n) PROVE OutcomesTrue'
    <3>1. True(Aborted(n))'
      BY <2>6 DEF True, Aborted, Outcome, Outcomes, OutcomeKinds, OutcomeClasses
    <3>2. /\ primary' = [primary EXCEPT ![n] = Aborted(n)] \/ primary' = primary
          /\ cause' = cause /\ ret' = ret /\ first' = first
      BY <2>6 DEF ResourceOpens, Completes
    <3>3. QED
      BY <1>3, <1>4, <2>1, <3>1, <3>2
  <2>7. ASSUME NEW n \in Nodes, NEW c, c.class \in OutcomeClasses, c.by \in Nodes,
               \/ c.class = "user" /\ asked
               \/ c.class = "timeout" /\ c.by \in due
        PROVE  True(Interrupted(c))'
    BY <2>1, <2>7 DEF True, Interrupted, Outcome, Outcomes, OutcomeKinds
  <2>8. ASSUME NEW n \in Nodes, Observe(n) PROVE OutcomesTrue'
    <3>1. ret' = ret /\ first' = first /\ timer' = timer
      BY <2>8 DEF Observe
    <3>2. CASE cause[n] # None /\ Completes(n, Interrupted(cause[n])) /\ UNCHANGED cause
      <4>1. True(Interrupted(cause[n]))'
        BY <1>1, <2>7, <2>8, <3>2 DEF CausesTrue, Outcomes
      <4>2. QED
        BY <1>3, <1>4, <2>1, <3>1, <3>2, <4>1 DEF Completes
    <3>3. CASE /\ timer[n] \in due
               /\ CancelToken(n, Outcome("cancelled", timer[n], "timeout"))
               /\ Completes(n, Interrupted(Outcome("cancelled", timer[n], "timeout")))
      <4>1. timer[n] \in Deadlines /\ timer[n] \in Nodes /\ "timeout" \in OutcomeClasses
        BY <1>2, TreeFacts DEF OutcomeClasses
      <4>2. True(Interrupted(Outcome("cancelled", timer[n], "timeout")))'
        BY <2>7, <2>8, <3>1, <3>3, <4>1 DEF Outcome
      <4>3. CausesTrue'
        BY <1>8, <2>1, <3>3, <4>1
      <4>4. PICK o : o = Interrupted(Outcome("cancelled", timer[n], "timeout"))
        OBVIOUS
      <4>5. True(o)' /\ primary' = [primary EXCEPT ![n] = o]
        BY <3>1, <3>3, <4>2, <4>4 DEF Completes, Interrupted, Outcome
      <4>6. QED
        BY <1>3, <1>4, <2>1, <3>1, <4>3, <4>5
    <3>4. QED
      BY <2>8, <3>2, <3>3 DEF Observe
  <2>9. ASSUME NEW n \in Nodes, BodyReturns(n) PROVE OutcomesTrue'
    <3>1. ret' = None /\ first' = first /\ cause' = cause
      BY <2>9 DEF BodyReturns
    <3>2. primary' = [primary EXCEPT ![n] = ret] \/ primary' = [primary EXCEPT ![n] = primary[n]]
      BY <2>9 DEF BodyReturns, Completes
    <3>3. True(ret) /\ True(primary[n])
      BY <1>1
    <3>4. primary' = [primary EXCEPT ![n] = primary[n]] => primary' = primary
      BY <1>1
    <3>5. CASE primary' = [primary EXCEPT ![n] = ret]
      <4>1. \A o : True(o) => True(o)'
        BY <2>1, TrueGrows
      <4>2. PICK o : o = ret /\ True(o)
        BY <3>3
      <4>3. QED
        BY <1>3, <1>4, <2>1, <3>1, <3>5, <4>1, <4>2
    <3>6. QED
      BY <1>3, <1>4, <2>1, <3>1, <3>2, <3>4, <3>5
  <2>10. ASSUME NEW n \in Nodes, Closes(n) PROVE OutcomesTrue'
    <3>1. ret' = ret /\ first' = first /\ cause' = cause
      BY <2>10 DEF Closes
    <3>2. \/ primary' = [primary EXCEPT ![n] = primary[n]]
          \/ cause[n] # None /\ primary' = [primary EXCEPT ![n] = Interrupted(cause[n])]
      BY <2>10 DEF Closes, Completes
    <3>3. primary' = [primary EXCEPT ![n] = primary[n]] => primary' = primary
      BY <1>1
    <3>4. cause[n] # None => True(Interrupted(cause[n]))'
      BY <1>1, <2>7, <2>10, <3>1 DEF CausesTrue, Outcomes
    <3>5. QED
      BY <1>3, <1>4, <2>1, <3>1, <3>2, <3>3, <3>4
  <2>11. ASSUME NEW n \in Nodes, Expire(n) \/ BudgetEnds(n) \/ \E s \in Steps : Releases(n, s)
         PROVE  OutcomesTrue'
    <3>1. UNCHANGED <<ret, first, primary, cause>>
      BY <2>11 DEF Expire, BudgetEnds, Releases
    <3>2. QED
      BY <1>3, <1>4, <2>1, <3>1
  <2>12. QED
    BY <1>9, <2>2, <2>3, <2>4, <2>5, <2>6, <2>8, <2>9, <2>10, <2>11 DEF Stays
<1>10. QED
  BY <1>5, <1>6, <1>7, <1>9, Moves

\* The state keeps its types.
LEMMA TypeOKStep ==
  ASSUME Inv, Next
  PROVE  TypeOK'
<1> DEFINE Facts == {"none", "Passed", "Failed", "TimedOut", "Cancelled", "Aborted"}
           Reports == [scope : Nodes, what : {"timedout", "host", "directory", "session"}]
<1>1. /\ TypeOK /\ outcome = None /\ Root \in Nodes /\ Top \in Nodes
      /\ terminal \in [Nodes -> Facts] /\ failures \in SUBSET Reports
  BY OutcomeLast, TreeFacts, PathTop DEF Inv, TypeOK
<1>2. /\ stack' \in Seq(Nodes) /\ \A n \in Nodes : cause'[n] = None \/ cause'[n].by \in Nodes
  BY PathStep, OutcomesTrueStep DEF Path, OutcomesTrue, Outcomes
<1>3. \A m, n \in Nodes : \A o : o.kind \in OutcomeKinds \ {"none", "interrupted"} =>
        ScopeFact(n, o, failures # {}) \in Facts
  BY ScopeFactCases
<1>4. \A n \in Nodes : ClosedBelow(n) \in [Nodes -> Facts]
  BY <1>1 DEF ClosedBelow
<1>5. \A f \in Facts : \A n, m \in Nodes : [ClosedBelow(n) EXCEPT ![m] = f] \in [Nodes -> Facts]
  <2> HIDE DEF Facts
  <2>1. QED
    BY <1>4
<1> HIDE DEF Facts, Reports
<1>6. ASSUME at' \in [Nodes -> Stages], timer' \in [Nodes -> Deadlines], due' \in SUBSET Deadlines,
             late' \in SUBSET Waiters, failures' \in SUBSET Reports,
             temp' \in [Nodes -> {"none", "owned", "released", "lost"}],
             terminal' \in [Nodes -> Facts], asked' \in BOOLEAN
      PROVE  TypeOK'
  BY <1>2, <1>6 DEF TypeOK, Facts, Reports
<1>7. ASSUME NEW c, Enters(c) PROVE TypeOK'
  <2>1. timer' \in [Nodes -> Deadlines]
    BY <1>1, <1>7 DEF Enters, Enter, TypeOK
  <2>2. QED
    BY <1>1, <1>6, <1>7, <2>1, EntersFacts DEF TypeOK
<1>8. ASSUME NEW o, Leaves(Top, o) PROVE TypeOK'
  <2>1. terminal' \in [Nodes -> Facts]
    BY <1>1, <1>3, <1>5, <1>8, ResultTrue DEF Leaves
  <2>2. temp' \in [Nodes -> {"none", "owned", "released", "lost"}]
    BY <1>1, <1>8 DEF Leaves, TypeOK
  <2>3. QED
    BY <1>1, <1>6, <1>8, <2>1, <2>2, LeavesFacts DEF TypeOK
<1>9. ASSUME NEW n \in Nodes, Abandon(n) PROVE TypeOK'
  <2>1. failures' \in SUBSET Reports
    BY <1>1, <1>9, AbandonFacts DEF Reports
  <2>2. QED
    BY <1>1, <1>6, <1>9, <2>1, AbandonFacts DEF TypeOK
<1>10. ASSUME Stays PROVE TypeOK'
  <2>1. at' \in [Nodes -> Stages]
    BY <1>1, <1>10, StaysAdvances, AdvancesFacts
  <2>2. terminal' \in [Nodes -> Facts]
    <3>1. CASE TestEnds
      <4>1. at[Root] = "session" /\ failures' = failures
        BY <3>1 DEF TestEnds, Running
      <4>2. /\ outcome' = IF failures = {} THEN Provisional
                          ELSE [Provisional EXCEPT !.kind = "aborted"]
            /\ terminal' = [ClosedBelow(Root) EXCEPT ![Root] =
                              RootFact(outcome')]
        BY <3>1 DEF TestEnds
      <4>3. Provisional \in Outcomes /\ Provisional.kind \notin {"none", "interrupted"}
        BY <4>1, ProvisionalTrue
      <4>4. outcome'.kind \in OutcomeKinds \ {"none", "interrupted"}
        BY <4>2, <4>3 DEF Outcomes, OutcomeKinds
      <4>5. RootFact(outcome') \in Facts
        BY <4>4, RootFactCases DEF Facts
      <4>6. QED
        BY <1>1, <1>5, <4>2, <4>5
    <3>2. CASE ~TestEnds
      BY <1>1, <1>10, <3>2, StaysAdvances
    <3>3. QED
      BY <3>1, <3>2
  <2>3. CASE SessionCloses
    <3>1. UNCHANGED <<timer, due, late, temp, asked>> /\ failures' \in SUBSET Reports
      BY <1>1, <2>3 DEF SessionCloses, Reports
    <3>2. QED
      BY <1>1, <1>6, <2>1, <2>2, <3>1 DEF TypeOK
  <2>4. CASE TestEnds \/ Ask \/ ControlCancels
    BY <1>1, <1>6, <2>1, <2>2, <2>4 DEF TestEnds, Ask, ControlCancels, TypeOK
  <2>5. ASSUME NEW n \in Nodes, StepBegins(n) /\ Goto(n, "step") /\ stack' = stack PROVE TypeOK'
    <3>1. ~End(n, Cancelled(Reason(n)))
      BY <1>1, <2>5 DEF TypeOK, End, Goto
    <3>2. QED
      BY <1>1, <1>6, <2>1, <2>2, <2>5, <3>1 DEF StepBegins, TypeOK
  <2>6. ASSUME NEW n \in Nodes,
               (\E class \in Classes : StepFails(n, class)) \/ ResourceOpens(n) \/ Observe(n)
        PROVE  TypeOK'
    BY <1>1, <1>6, <2>1, <2>2, <2>6 DEF StepFails, ResourceOpens, Observe, TypeOK
  <2>7. ASSUME NEW n \in Nodes, BodyReturns(n) \/ Closes(n) PROVE TypeOK'
    <3>1. UNCHANGED <<timer, due, late, temp, asked>> /\ failures' \in SUBSET Reports
      BY <1>1, <2>7 DEF BodyReturns, Closes, Reports
    <3>2. QED
      BY <1>1, <1>6, <2>1, <2>2, <3>1 DEF TypeOK
  <2>8. ASSUME NEW n \in Nodes, Expire(n) PROVE TypeOK'
    <3>1. timer[n] = n /\ due' = due \cup {n} /\ UNCHANGED <<timer, late, failures, temp, asked>>
      BY <2>8 DEF Expire
    <3>2. QED
      BY <1>1, <1>6, <2>1, <2>2, <3>1 DEF TypeOK
  <2>9. ASSUME NEW n \in Nodes, BudgetEnds(n) PROVE TypeOK'
    <3>1. /\ late' = late \cup {n} /\ UNCHANGED <<timer, due, failures, temp, asked>>
          /\ at[n] \in {"interrupting", "closing", "releasing"}
      BY <2>9 DEF BudgetEnds
    <3>2. n \in Waiters
      BY <3>1 DEF Inv, StagesFit, Waiters
    <3>3. QED
      BY <1>1, <1>6, <2>1, <2>2, <3>1, <3>2 DEF TypeOK
  <2>10. ASSUME NEW n \in Nodes, NEW s \in Steps, Releases(n, s) PROVE TypeOK'
    <3>1. /\ UNCHANGED <<timer, due, late, asked>> /\ failures' \in SUBSET Reports
          /\ temp' \in [Nodes -> {"none", "owned", "released", "lost"}]
      BY <1>1, <2>10, TreeFacts DEF Releases, Reports, TypeOK
    <3>2. QED
      BY <1>1, <1>6, <2>1, <2>2, <3>1 DEF TypeOK
  <2>11. QED
    BY <1>10, <2>3, <2>4, <2>5, <2>6, <2>7, <2>8, <2>9, <2>10 DEF Stays
<1>11. QED
  BY <1>7, <1>8, <1>9, <1>10, Moves

-----------------------------------------------------------------------------
(* Terminal facts and what the scopes own                                  *)

\* The end of the test, as the end of a scope.
LEMMA TestEndsFacts ==
  ASSUME Inv, TestEnds
  PROVE  /\ Top = Root /\ at[Root] = "session" /\ Root \in Nodes /\ ret = None
         /\ at' = [at EXCEPT ![Root] = "over"] /\ at'[Root] = "over"
         /\ \A m \in Nodes : m # Root => at'[m] = at[m]
         /\ outcome' = IF failures = {} THEN Provisional
                       ELSE [Provisional EXCEPT !.kind = "aborted"]
         /\ outcome'.kind \in OutcomeKinds \ {"none", "interrupted"}
         /\ terminal'[Root] = RootFact(outcome')
         /\ terminal'[Root] \in {"Passed", "Failed", "TimedOut", "Cancelled", "Aborted"}
         /\ \A m \in Nodes : m # Root =>
              terminal'[m] = IF Started(m) /\ terminal[m] = "none" THEN "Cancelled" ELSE terminal[m]
         /\ \A m \in Nodes : m # Root => ~OnPath(m)
         /\ \A m \in Nodes : Started(m)' <=> Started(m)
         /\ UNCHANGED <<stack, ret, cause, timer, due, late, primary, first, failures, temp, asked,
                        unprovoked>>
<1>1. /\ Top = Root /\ at[Root] = "session" /\ ret = None
      /\ at' = [at EXCEPT ![Root] = "over"]
      /\ outcome' = IF failures = {} THEN Provisional ELSE [Provisional EXCEPT !.kind = "aborted"]
      /\ terminal' = [ClosedBelow(Root) EXCEPT ![Root] = RootFact(outcome')]
      /\ UNCHANGED <<stack, ret, cause, timer, due, late, primary, first, failures, temp, asked,
                     unprovoked>>
  BY DEF TestEnds, Running, Goto
<1>2. Root \in Nodes /\ at \in [Nodes -> Stages]
  BY TreeFacts DEF Inv, TypeOK
<1>3. at'[Root] = "over" /\ \A m \in Nodes : m # Root => at'[m] = at[m]
  BY <1>1, <1>2
<1>4. Provisional \in Outcomes /\ Provisional.kind \notin {"none", "interrupted"}
  BY <1>1, ProvisionalTrue
<1>5. outcome'.kind \in OutcomeKinds \ {"none", "interrupted"}
  BY <1>1, <1>4 DEF Outcomes, OutcomeKinds
<1>6. RootFact(outcome') \in {"Passed", "Failed", "TimedOut", "Cancelled", "Aborted"}
  BY <1>5, RootFactCases
<1>7. /\ terminal'[Root] = RootFact(outcome')
      /\ \A m \in Nodes : m # Root =>
           terminal'[m] = IF Started(m) /\ terminal[m] = "none" THEN "Cancelled" ELSE terminal[m]
  <2>1. ClosedBelow(Root) = [m \in Nodes |->
          IF m \in Below[Root] /\ Started(m) /\ terminal[m] = "none" THEN "Cancelled" ELSE terminal[m]]
    BY DEF ClosedBelow
  <2>2. QED
    BY <1>1, <1>2, <2>1, TreeFacts
<1>8. \A m \in Nodes : m # Root => ~OnPath(m)
  BY <1>1, PathTop, TreeFacts DEF Inv
<1>9. \A m \in Nodes : Started(m)' <=> Started(m)
  BY <1>1, <1>3 DEF Started
<1>10. QED
  BY <1>1, <1>2, <1>3, <1>5, <1>6, <1>7, <1>8, <1>9

\* A terminal fact comes last in its scope.
LEMMA TerminalsStep ==
  ASSUME Inv, Next
  PROVE  Terminals'
<1>1. /\ Terminals /\ outcome = None /\ Top \in Nodes /\ Root \in Nodes /\ OnPath(Top)
      /\ \A n \in Nodes : Below[n] \subseteq Nodes
      /\ \A n \in Nodes : \A m \in Below[n] : Below[m] \subseteq Below[n]
  BY OutcomeLast, TreeFacts, PathTop DEF Inv
<1>2. \A n \in Nodes : OnPath(n) => at[n] \notin Gone /\ terminal[n] = "none"
  BY <1>1 DEF Inv, StagesFit, Terminals, Gone
<1>3. ASSUME NEW c, Enters(c) PROVE Terminals'
  <2>1. at[Top] \notin {"closing", "releasing", "session"} /\ at[c] = "idle" /\ c \in Nodes
    BY <1>3, EntersFacts DEF Enters
  <2>2. /\ \A n \in Nodes : terminal'[n] # "none" => at'[n] \in {"over", "dropped"}
        /\ \A n \in Nodes : at'[n] = "over" => terminal'[n] # "none"
        /\ \A m \in Nodes : ~(at'[m] = "dropped" /\ terminal'[m] = "none")
    BY <1>1, <1>3, <2>1, EntersFacts DEF Terminals
  <2>3. ASSUME NEW n \in Nodes, terminal'[n] # "none", NEW m \in Below[n], Started(m)'
        PROVE  terminal'[m] # "none"
    <3>1. terminal[n] # "none" /\ terminal' = terminal /\ (Started(m) \/ m = c) /\ m \in Nodes
      BY <1>1, <1>3, <2>3, EntersFacts
    <3>2. m # c
      <4>1. c \in Below[n] => n = Top \/ Top \in Below[n]
        BY <1>3, EntersFacts
      <4>2. OnPath(Top) /\ (Top \in Below[n] => OnPath(n))
        BY <1>1 DEF Inv, Path
      <4>3. QED
        BY <1>2, <2>3, <3>1, <4>1, <4>2
    <3>3. QED
      BY <1>1, <2>3, <3>1, <3>2 DEF Terminals
  <2>4. QED
    BY <2>2, <2>3 DEF Terminals
<1>4. ASSUME NEW o, Leaves(Top, o) PROVE Terminals'
  <2>1. terminal'[Top] # "none"
    <3>1. o.kind \in OutcomeKinds \ {"none", "interrupted"}
      BY <1>1, <1>4, ResultTrue DEF Leaves
    <3>2. terminal'[Top] = ScopeFact(Top, o, failures # {})
      BY <1>4, LeavesFacts
    <3>3. ScopeFact(Top, o, failures # {}) \in
            {"Passed", "Failed", "TimedOut", "Cancelled", "Aborted"}
      BY <3>1, ScopeFactCases
    <3>4. QED
      BY <3>2, <3>3
  <2>2. \A m \in Below[Top] : Started(m) => at[m] \in {"over", "dropped"}
    BY <1>1, EndedInside
  <2>3. /\ \A n \in Nodes : terminal'[n] # "none" => at'[n] \in {"over", "dropped"}
        /\ \A n \in Nodes : at'[n] = "over" => terminal'[n] # "none"
    BY <1>1, <1>4, <2>1, <2>2, LeavesFacts DEF Terminals
  <2>4. \A m \in Nodes : ~(at'[m] = "dropped" /\ terminal'[m] = "none")
    BY <1>1, <1>4, LeavesFacts DEF Terminals, Started
  <2>5. ASSUME NEW n \in Nodes, terminal'[n] # "none", NEW m \in Below[n], Started(m)'
        PROVE  terminal'[m] # "none"
    <3>1. m \in Nodes /\ Started(m) /\ (m = Top \/ terminal[m] = "none" \/ terminal'[m] # "none")
      BY <1>1, <1>4, <2>5, LeavesFacts
    <3>2. CASE n = Top \/ n \in Below[Top]
      <4>1. m \in Below[Top]
        BY <1>1, <2>5, <3>2
      <4>2. QED
        BY <1>1, <1>4, <3>1, <4>1, LeavesFacts, TreeFacts
    <3>3. CASE n # Top /\ n \notin Below[Top]
      <4>1. terminal[n] # "none"
        BY <1>4, <2>5, <3>3, LeavesFacts
      <4>2. terminal[m] # "none"
        BY <1>1, <2>5, <3>1, <4>1 DEF Terminals
      <4>3. QED
        BY <2>1, <3>1, <4>2
    <3>4. QED
      BY <3>2, <3>3
  <2>6. QED
    BY <2>3, <2>4, <2>5 DEF Terminals
<1>5. ASSUME NEW n \in Nodes, Abandon(n) PROVE Terminals'
  <2>1. \A m \in Nodes : terminal[m] # "none" => ~OnPath(m)
    BY <1>2
  <2>2. /\ \A m \in Nodes : terminal'[m] # "none" => at'[m] \in {"over", "dropped"}
        /\ \A m \in Nodes : at'[m] = "over" => terminal'[m] # "none"
    BY <1>1, <1>5, <2>1, AbandonFacts DEF Terminals
  <2>3. ASSUME NEW m \in Nodes, at'[m] = "dropped", terminal'[m] = "none"
        PROVE  m \in Below[Top'] /\ at'[Top'] \in {"closing", "releasing", "session"}
    <3>1. Top' = n /\ at'[n] \in {"closing", "releasing"} /\ terminal[m] = "none" /\ m # n
      BY <1>5, <2>3, AbandonFacts
    <3>2. CASE at[m] = "dropped"
      <4>1. m \in Below[Top] /\ (Top = n \/ Top \in Below[n])
        <5>1. m \in Below[Top] /\ at[Top] \in {"closing", "releasing", "session"}
          BY <1>1, <2>3, <3>1, <3>2 DEF Terminals
        <5>2. Top = n \/ Top \in Below[n]
          BY <1>5, AbandonFacts, PathTop DEF Inv
        <5>3. QED
          BY <5>1, <5>2
      <4>2. QED
        BY <1>1, <3>1, <4>1
    <3>3. CASE at[m] # "dropped"
      BY <1>5, <2>3, <3>1, <3>3, AbandonFacts
    <3>4. QED
      BY <3>2, <3>3
  <2>4. \A a \in Nodes : terminal'[a] # "none" =>
          \A b \in Below[a] : Started(b)' => terminal'[b] # "none"
    BY <1>1, <1>5, AbandonFacts DEF Terminals
  <2>5. QED
    BY <2>2, <2>3, <2>4 DEF Terminals
<1>6. CASE TestEnds
  <2>1. Top' = Top
    BY <1>6, TestEndsFacts DEF Top
  <2>2. \A m \in Nodes : m # Root /\ Started(m) => at[m] \in {"over", "dropped"}
    BY <1>1, <1>6, EndedInside, TestEndsFacts, TreeFacts
  <2>3. \A m \in Nodes : Started(m) => terminal'[m] # "none"
    BY <1>6, TestEndsFacts
  <2>4. /\ \A n \in Nodes : terminal'[n] # "none" => at'[n] \in {"over", "dropped"}
        /\ \A n \in Nodes : at'[n] = "over" => terminal'[n] # "none"
    BY <1>1, <1>6, <2>2, TestEndsFacts DEF Terminals
  <2>5. \A m \in Nodes : ~(at'[m] = "dropped" /\ terminal'[m] = "none")
    BY <1>6, <2>3, TestEndsFacts DEF Started
  <2>6. \A a \in Nodes : terminal'[a] # "none" =>
          \A b \in Below[a] : Started(b)' => terminal'[b] # "none"
    BY <1>1, <1>6, <2>3, TestEndsFacts
  <2>7. QED
    BY <2>4, <2>5, <2>6 DEF Terminals
<1>7. CASE Stays /\ ~TestEnds
  <2>1. Advances /\ terminal' = terminal /\ Top' = Top
    BY <1>1, <1>7, StaysAdvances, StaysFacts
  <2>2. \A n \in Nodes : at[n] \in Gone \/ n = Root => at'[n] = at[n] \/ at'[n] \notin Gone
    <3>1. \A n \in Nodes : at[n] \in Gone => ~OnPath(n) \/ n = Root
      BY DEF Inv, StagesFit
    <3>2. StagesFit' /\ outcome' = None
      BY <1>1, <1>7, StagesFitStep, StaysAdvances
    <3>3. at'[Root] \notin Gone
      BY <3>2 DEF StagesFit, Gone
    <3>4. QED
      BY <2>1, <3>1, <3>3, AdvancesFacts
  <2>3. \A n \in Nodes : at'[n] \in Gone => at'[n] = at[n]
    BY <1>7, <2>1, <2>2, StagesFitStep, StaysFacts, AdvancesFacts DEF Inv, StagesFit
  <2>4. /\ \A n \in Nodes : terminal'[n] # "none" => at'[n] \in {"over", "dropped"}
        /\ \A n \in Nodes : at'[n] = "over" => terminal'[n] # "none"
    <3>1. \A n \in Nodes : terminal[n] # "none" => ~OnPath(n)
      BY <1>2
    <3>2. QED
      BY <1>1, <2>1, <2>3, <3>1, AdvancesFacts DEF Terminals, Gone
  <2>5. ASSUME NEW m \in Nodes, at'[m] = "dropped", terminal'[m] = "none"
        PROVE  m \in Below[Top'] /\ at'[Top'] \in {"closing", "releasing", "session"}
    <3>1. m \in Below[Top] /\ at[Top] \in {"closing", "releasing", "session"}
      BY <1>1, <2>1, <2>3, <2>5 DEF Terminals, Gone
    <3>2. at'[Top] \in {"closing", "releasing", "session"}
      <4>1. at \in [Nodes -> Stages]
        BY DEF Inv, TypeOK
      <4>2. at' = at \/ \E to \in {"releasing", "session"} : at' = [at EXCEPT ![Top] = to]
              \/ \E n \in Nodes : at[n] = "open" /\ at' = [at EXCEPT ![n] = "interrupting"]
        BY <1>7, <2>1, <3>1 DEF Advances, Turns
      <4>3. QED
        BY <1>1, <3>1, <4>1, <4>2
    <3>3. QED
      BY <2>1, <3>1, <3>2
  <2>6. \A a \in Nodes : terminal'[a] # "none" =>
          \A b \in Below[a] : Started(b)' => terminal'[b] # "none"
    BY <1>1, <2>1, AdvancesFacts DEF Terminals
  <2>7. QED
    BY <2>4, <2>5, <2>6 DEF Terminals
<1>8. QED
  BY <1>3, <1>4, <1>5, <1>6, <1>7, Moves

-----------------------------------------------------------------------------
(* What the actions do that change more than a stage                       *)

\* A cancelled token hands its cause to the started nodes inside that have none.
LEMMA TokenFacts ==
  ASSUME NEW n \in Nodes, NEW c, CancelToken(n, c)
  PROVE  \A m \in Nodes :
           cause'[m] = IF m \in {n} \cup Below[n] /\ Started(m) /\ cause[m] = None
                       THEN c ELSE cause[m]
  BY DEF CancelToken

LEMMA ObserveFacts ==
  ASSUME Inv, NEW n \in Nodes, Observe(n)
  PROVE  /\ n \in Waiters /\ OnPath(n) /\ ret = None /\ ret' = None
         /\ at[n] \in {"acquiring", "open"} /\ at'[n] \in {"interrupting", "closing"}
         /\ at'[n] = "interrupting" <=> at[n] = "open"
         /\ \A m \in Nodes : m # n => at'[m] = at[m]
         /\ primary'[n].kind = "interrupted" /\ \A m \in Nodes : m # n => primary'[m] = primary[m]
         /\ \/ cause[n] # None /\ cause' = cause
            \/ /\ timer[n] \in due /\ timer[n] \in Nodes /\ cause[n] = None
               /\ CancelToken(n, Outcome("cancelled", timer[n], "timeout"))
         /\ \A w \in Waiters : n \in Below[w] => ~Unseen(w)
         /\ UNCHANGED <<stack, ret, timer, due, late, first, failures, temp, terminal, asked,
                        outcome, unprovoked>>
<1>1. /\ at \in [Nodes -> Stages] /\ primary \in [Nodes -> Outcomes]
      /\ timer \in [Nodes -> Deadlines]
  BY DEF Inv, TypeOK, OutcomesTrue
<1>2. at' = [at EXCEPT ![n] = IF at[n] = "open" THEN "interrupting" ELSE "closing"]
  BY DEF Observe, Goto
<1>3. \E c : primary' = [primary EXCEPT ![n] = Interrupted(c)]
  BY DEF Observe, Completes
<1>4. \A c : Interrupted(c).kind = "interrupted"
  BY DEF Interrupted, Outcome
<1>5. timer[n] \in Nodes
  BY <1>1, TreeFacts
<1>6. QED
  BY <1>1, <1>2, <1>3, <1>4, <1>5 DEF Observe

LEMMA BodyReturnsFacts ==
  ASSUME Inv, NEW n \in Nodes, BodyReturns(n)
  PROVE  /\ n \in Waiters /\ OnPath(n) /\ n = Top /\ ret # None /\ ret' = None /\ ~GoesOn(n)
         /\ at[n] \in {"interrupting", "open"} /\ at'[n] = Pass(n)
         /\ at'[n] \in {"closing", "releasing"} /\ \A m \in Nodes : m # n => at'[m] = at[m]
         /\ at[n] = "open" => primary'[n] = ret
         /\ at[n] = "interrupting" => \/ primary'[n] = primary[n]
                                      \/ primary'[n] = ret /\ ret.kind = "aborted"
         /\ ret.kind = "aborted" /\ Kind[n] # "resource" => primary'[n] = ret
         /\ \A m \in Nodes : m # n => primary'[m] = primary[m]
         /\ failures \subseteq failures'
         /\ UNCHANGED <<stack, cause, timer, due, late, first, temp, terminal, asked, outcome,
                        unprovoked>>
<1>1. at \in [Nodes -> Stages] /\ primary \in [Nodes -> Outcomes] /\ OnPath(Top)
  BY PathTop DEF Inv, TypeOK, OutcomesTrue
<1>2. /\ n \in Waiters /\ n = Top /\ ret # None /\ ret' = None /\ ~GoesOn(n)
      /\ at' = [at EXCEPT ![n] = Pass(n)]
      /\ primary' = [primary EXCEPT ![n] =
           CASE at[n] = "open" -> ret
             [] at[n] # "open" /\ ret.kind = "aborted" /\ Kind[n] # "resource" -> ret
             [] OTHER -> primary[n]]
      /\ failures \subseteq failures'
      /\ UNCHANGED <<stack, cause, timer, due, late, first, temp, terminal, asked, outcome,
                     unprovoked>>
  BY DEF BodyReturns, Completes, Goto
<1>3. at[n] \in {"interrupting", "open"}
  BY <1>2 DEF Inv, StagesFit
<1>4. /\ at[n] = "open" => primary'[n] = ret
      /\ at[n] = "interrupting" => \/ primary'[n] = primary[n]
                                   \/ primary'[n] = ret /\ ret.kind = "aborted"
      /\ ret.kind = "aborted" /\ Kind[n] # "resource" => primary'[n] = ret
      /\ \A m \in Nodes : m # n => primary'[m] = primary[m]
  BY <1>1, <1>2, <1>3
<1>5. Pass(n) \in {"closing", "releasing"}
  BY DEF Pass
<1>6. QED
  BY <1>1, <1>2, <1>3, <1>4, <1>5

LEMMA ClosesFacts ==
  ASSUME Inv, NEW n \in Nodes, Closes(n)
  PROVE  /\ Kind[n] = "resource" /\ OnPath(n) /\ n = Top /\ ret = None /\ outcome = None
         /\ at[n] = "closing" /\ at'[n] = "releasing" /\ \A m \in Nodes : m # n => at'[m] = at[m]
         /\ \/ primary'[n] = primary[n]
            \/ cause[n] # None /\ primary'[n].kind = "interrupted"
         /\ cause[n] # None => primary'[n].kind \in {"interrupted", "aborted"}
         /\ primary[n].kind = "aborted" => primary'[n] = primary[n]
         /\ \A m \in Nodes : m # n => primary'[m] = primary[m]
         /\ failures \subseteq failures'
         /\ UNCHANGED <<stack, ret, cause, timer, due, late, first, temp, terminal, asked, outcome,
                        unprovoked>>
<1>1. at \in [Nodes -> Stages] /\ primary \in [Nodes -> Outcomes] /\ OnPath(Top)
  BY PathTop DEF Inv, TypeOK, OutcomesTrue
<1>2. /\ n = Top /\ ret = None /\ outcome = None /\ at[n] = "closing"
      /\ at' = [at EXCEPT ![n] = "releasing"]
      /\ primary' = [primary EXCEPT ![n] =
           IF cause[n] # None /\ primary[n].kind # "aborted"
           THEN Interrupted(cause[n]) ELSE primary[n]]
      /\ failures \subseteq failures'
      /\ UNCHANGED <<stack, ret, cause, timer, due, late, first, temp, terminal, asked, outcome,
                     unprovoked>>
  BY DEF Closes, Completes, Goto, Running
<1>3. Kind[n] = "resource"
  BY <1>2 DEF Inv, StagesFit
<1>4. \A c : Interrupted(c).kind = "interrupted"
  BY DEF Interrupted, Outcome
<1>5. QED
  BY <1>1, <1>2, <1>3, <1>4

LEMMA ResourceOpensFacts ==
  ASSUME Inv, NEW n \in Nodes, ResourceOpens(n)
  PROVE  /\ Kind[n] = "resource" /\ n \in Waiters /\ OnPath(n) /\ n = Top
         /\ ret = None /\ outcome = None
         /\ at[n] = "acquiring" /\ \A m \in Nodes : m # n => at'[m] = at[m]
         /\ \/ at'[n] = "open" /\ primary' = primary
            \/ at'[n] = "closing" /\ primary'[n] = Aborted(n) /\ primary'[n].kind = "aborted"
         /\ cause[n] = None
         /\ \A m \in Nodes : m # n => primary'[m] = primary[m]
         /\ UNCHANGED <<stack, ret, cause, timer, due, late, first, failures, temp, terminal, asked,
                        outcome, unprovoked>>
<1>1. at \in [Nodes -> Stages] /\ primary \in [Nodes -> Outcomes] /\ OnPath(Top)
  BY PathTop DEF Inv, TypeOK, OutcomesTrue
<1>2. /\ n = Top /\ ret = None /\ outcome = None /\ at[n] = "acquiring"
      /\ \/ at' = [at EXCEPT ![n] = "open"] /\ primary' = primary
         \/ /\ at' = [at EXCEPT ![n] = "closing"]
            /\ primary' = [primary EXCEPT ![n] = Aborted(n)]
      /\ \A w \in Waiters : ~Unseen(w)
      /\ UNCHANGED <<stack, ret, cause, timer, due, late, first, failures, temp, terminal, asked,
                     outcome, unprovoked>>
  BY DEF ResourceOpens, Completes, Goto, Running
<1>3. Kind[n] = "resource" /\ n \in Waiters
  BY <1>2 DEF Inv, StagesFit, Waiters
<1>4. cause[n] = None
  BY <1>1, <1>2, <1>3 DEF Unseen
<1>5. Aborted(n).kind = "aborted"
  BY DEF Aborted, Outcome
<1>6. QED
  BY <1>1, <1>2, <1>3, <1>4, <1>5

LEMMA StepFailsFacts ==
  ASSUME Inv, NEW n \in Nodes, NEW class \in Classes, StepFails(n, class)
  PROVE  /\ n \in Steps /\ n \notin Waiters /\ OnPath(n) /\ n = Top /\ ret = None /\ outcome = None
         /\ at[n] = "step" /\ at'[n] = "evidence" /\ \A m \in Nodes : m # n => at'[m] = at[m]
         /\ primary'[n] = Failed(n, class) /\ primary'[n].kind = "failed"
         /\ \A m \in Nodes : m # n => primary'[m] = primary[m]
         /\ Failed(n, class).by = n /\ Failed(n, class).kind = "failed"
         /\ first' = IF cause[n] = None THEN Failed(n, class) ELSE first
         /\ unprovoked' = unprovoked \cup ({n} \cap {m \in Steps : cause[m] = None})
         /\ UNCHANGED <<stack, ret, cause, timer, due, late, failures, temp, terminal, asked,
                        outcome>>
<1>1. at \in [Nodes -> Stages] /\ primary \in [Nodes -> Outcomes] /\ OnPath(Top)
  BY PathTop DEF Inv, TypeOK, OutcomesTrue
<1>2. /\ n = Top /\ ret = None /\ outcome = None /\ at[n] = "step"
      /\ at' = [at EXCEPT ![n] = "evidence"]
      /\ primary' = [primary EXCEPT ![n] = Failed(n, class)]
      /\ first' = IF cause[n] = None THEN Failed(n, class) ELSE first
      /\ unprovoked' = unprovoked \cup ({n} \cap {m \in Steps : cause[m] = None})
      /\ UNCHANGED <<stack, ret, cause, timer, due, late, failures, temp, terminal, asked, outcome>>
  BY DEF StepFails, Goto, Running
<1>3. n \in Steps /\ n \notin Waiters
  BY <1>2, TreeFacts DEF Inv, StagesFit
<1>4. Failed(n, class).by = n /\ Failed(n, class).kind = "failed"
  BY DEF Failed, Outcome
<1>5. QED
  BY <1>1, <1>2, <1>3, <1>4

LEMMA SessionClosesFacts ==
  ASSUME Inv, SessionCloses
  PROVE  /\ Top = Root /\ Root \in Nodes /\ OnPath(Root) /\ ret = None /\ outcome = None
         /\ at[Root] = "releasing" /\ at'[Root] = "session"
         /\ \A m \in Nodes : m # Root => at'[m] = at[m]
         /\ Owned(Root) = {} /\ failures \subseteq failures'
         /\ UNCHANGED <<stack, ret, cause, timer, due, late, primary, first, temp, terminal, asked,
                        outcome, unprovoked>>
<1>1. at \in [Nodes -> Stages] /\ OnPath(Top) /\ Root \in Nodes
  BY PathTop, TreeFacts DEF Inv, TypeOK
<1>2. at' = [at EXCEPT ![Root] = "session"]
  BY DEF SessionCloses, Goto
<1>3. QED
  BY <1>1, <1>2 DEF SessionCloses, Running

LEMMA QuietFacts ==
  ASSUME Inv, Quiet
  PROVE  /\ \/ at' = at
            \/ ret = None /\ at[Top] = "before" /\ at'[Top] = "step" /\ Top \in Steps
         /\ \A m \in Nodes : m # Top => at'[m] = at[m]
         /\ failures \subseteq failures' /\ (cause' = cause \/ ControlCancels)
         /\ temp' = temp \/ \E n \in Nodes, s \in Steps : Releases(n, s)
         /\ due' = due \/ \E n \in Nodes : Expire(n)
         /\ UNCHANGED <<stack, ret, timer, primary, first, terminal, outcome, unprovoked>>
<1>1. at \in [Nodes -> Stages] /\ Top \in Nodes
  BY PathTop DEF Inv, TypeOK
<1>2. CASE Ask \/ ControlCancels
  BY <1>2 DEF Ask, ControlCancels
<1>3. ASSUME NEW n \in Nodes, StepBegins(n), Goto(n, "step")
      PROVE  /\ ret = None /\ at[Top] = "before" /\ at'[Top] = "step" /\ Top \in Steps
             /\ \A m \in Nodes : m # Top => at'[m] = at[m]
             /\ UNCHANGED <<stack, ret, cause, timer, due, primary, first, failures, temp, terminal,
                            outcome, unprovoked>>
  <2>1. ret = None /\ n = Top /\ at[n] = "before" /\ at' = [at EXCEPT ![n] = "step"]
    BY <1>3 DEF StepBegins, Running, Goto
  <2>2. ~End(n, Cancelled(Reason(n)))
    BY <1>1, <2>1 DEF End
  <2>3. Top \in Steps
    BY <1>1, <2>1 DEF Inv, StagesFit
  <2>4. QED
    BY <1>1, <1>3, <2>1, <2>2, <2>3 DEF StepBegins
<1>4. ASSUME NEW n \in Nodes, Expire(n) \/ BudgetEnds(n)
      PROVE  /\ due' = due \/ Expire(n)
             /\ UNCHANGED <<stack, ret, at, cause, timer, primary, first, failures, temp, terminal,
                            outcome, unprovoked>>
  BY <1>4 DEF Expire, BudgetEnds
<1>5. ASSUME NEW n \in Nodes, NEW s \in Steps, Releases(n, s)
      PROVE  /\ failures \subseteq failures'
             /\ UNCHANGED <<stack, ret, at, cause, timer, due, primary, first, terminal, outcome,
                            unprovoked>>
  BY <1>5 DEF Releases
<1>6. QED
  BY <1>2, <1>3, <1>4, <1>5 DEF Quiet

\* The cases of Stays by what they change.
LEMMA StaysCases ==
  ASSUME Stays
  PROVE  \/ TestEnds \/ SessionCloses
         \/ \E n \in Nodes : \/ Observe(n) \/ BodyReturns(n) \/ Closes(n) \/ ResourceOpens(n)
                             \/ \E class \in Classes : StepFails(n, class)
         \/ Quiet
  BY DEF Stays, Quiet

\* What a wait completes with is set when it stops driving its body.
LEMMA CompletionsStep ==
  ASSUME Inv, Next
  PROVE  Completions'
<1>1. Completions /\ None.kind = "none" /\ Top \in Nodes
  BY PathTop DEF Inv, None
<1>2. ASSUME NEW c, Enters(c) PROVE Completions'
  <2>1. at[c] = "idle"
    BY <1>2 DEF Enters
  <2>2. QED
    BY <1>1, <1>2, <2>1, EntersFacts DEF Completions
<1>3. ASSUME NEW o, Leaves(Top, o) PROVE Completions'
  BY <1>1, <1>3, LeavesFacts DEF Completions
<1>4. ASSUME NEW n \in Nodes, Abandon(n) PROVE Completions'
  BY <1>1, <1>4, AbandonFacts DEF Completions
<1>5. ASSUME Stays PROVE Completions'
  <2>1. CASE TestEnds
    BY <1>1, <2>1, TestEndsFacts DEF Completions
  <2>2. CASE SessionCloses
    BY <1>1, <2>2, SessionClosesFacts DEF Completions
  <2>3. ASSUME NEW n \in Nodes, Observe(n) PROVE Completions'
    BY <1>1, <2>3, ObserveFacts DEF Completions
  <2>4. ASSUME NEW n \in Nodes, BodyReturns(n) PROVE Completions'
    <3>1. ret.kind # "none"
      BY <2>4, BodyReturnsFacts DEF Inv, OutcomesTrue, True
    <3>2. QED
      BY <1>1, <2>4, <3>1, BodyReturnsFacts DEF Completions
  <2>5. ASSUME NEW n \in Nodes, Closes(n) PROVE Completions'
    BY <1>1, <2>5, ClosesFacts DEF Completions
  <2>6. ASSUME NEW n \in Nodes, ResourceOpens(n) PROVE Completions'
    BY <1>1, <2>6, ResourceOpensFacts DEF Completions
  <2>7. ASSUME NEW n \in Nodes, NEW class \in Classes, StepFails(n, class) PROVE Completions'
    BY <1>1, <2>7, StepFailsFacts DEF Completions
  <2>8. CASE Quiet
    BY <1>1, <2>8, QuietFacts DEF Completions
  <2>9. QED
    BY <1>5, <2>1, <2>2, <2>3, <2>4, <2>5, <2>6, <2>7, <2>8, StaysCases
<1>6. QED
  BY <1>2, <1>3, <1>4, <1>5, Moves

\* The nearest owner of a step inside a wait is that wait or inside it.
LEMMA OwnerInside ==
  ASSUME NEW n \in Waiters, NEW s \in Steps, s \in Below[n]
  PROVE  Owner(s) \in Waiters /\ s \in Below[Owner(s)] /\ Owner(s) \in {n} \cup Below[n]
<1>1. s \in Nodes \ {Root}
  BY TreeFacts
<1>2. \E w \in Waiters : IsOwner(w, s)
  BY <1>1, TreeAssumption
<1>3. Owner(s) \in Waiters /\ IsOwner(Owner(s), s)
  BY <1>2 DEF Owner
<1>4. QED
  BY <1>3 DEF IsOwner

\* A scope ends only when nothing is owned inside it.
LEMMA NothingOwned ==
  ASSUME Inv, NEW n \in Waiters, Owned(n) = {}
  PROVE  \A s \in Below[n] : temp[s] # "owned"
<1>1. ASSUME NEW s \in Below[n], temp[s] = "owned" PROVE FALSE
  <2>1. s \in Nodes /\ n \in Nodes
    BY TreeFacts
  <2>2. s \in Steps /\ \A w \in Waiters : s \in Below[w] => terminal[w] = "none"
    BY <1>1, <2>1 DEF Inv, Directories
  <2>3. terminal[Owner(s)] = "none" /\ Owner(s) \in {n} \cup Below[n]
    BY <2>2, OwnerInside
  <2>4. s \in Owned(n)
    BY <1>1, <2>2, <2>3 DEF Owned
  <2>5. QED
    BY <2>4
<1>2. QED
  BY <1>1

\* A directory is owned only while every scope around its step is active.
LEMMA DirectoriesStep ==
  ASSUME Inv, Next
  PROVE  Directories'
<1> DEFINE InScope == \A s \in Nodes : temp[s] = "owned" =>
             s \in Steps /\ \A w \in Waiters : s \in Below[w] => terminal[w] = "none"
<1>1. /\ Directories /\ InScope /\ outcome = None /\ Top \in Nodes /\ OnPath(Top)
      /\ Waiters \subseteq Nodes /\ temp \in [Nodes -> {"none", "owned", "released", "lost"}]
      /\ DOMAIN terminal = Nodes /\ terminal = [n \in Nodes |-> terminal[n]] /\ Root \in Nodes
      /\ \A n \in Nodes : \A m \in Below[n] : Below[m] \subseteq Below[n]
  BY OutcomeLast, TreeFacts, PathTop DEF Inv, TypeOK, Directories
<1>2. \A n \in Nodes : OnPath(n) => terminal[n] = "none"
  BY <1>1 DEF Inv, StagesFit, Terminals, Gone
<1>3. ASSUME temp' = temp, failures \subseteq failures'
      PROVE  \A s \in Nodes : temp'[s] = "lost" => failures' # {}
  BY <1>1, <1>3 DEF Directories
<1>4. ASSUME NEW c, Enters(c) PROVE Directories'
  <2>1. UNCHANGED <<temp, terminal, failures>> /\ at'[Root] = at[Root]
    BY <1>1, <1>4, EntersFacts
  <2>2. QED
    BY <1>1, <2>1 DEF Directories
<1>5. ASSUME NEW o, Leaves(Top, o) PROVE Directories'
  <2>1. \A m \in Waiters : m # Top /\ m \notin Below[Top] => terminal'[m] = terminal[m]
    BY <1>1, <1>5, LeavesFacts
  <2>2. /\ temp' = temp \/ (Top \in Steps /\ temp' = [temp EXCEPT ![Top] = "owned"])
        /\ Top \in Waiters => ret = None /\ at[Top] = "releasing" /\ Owned(Top) = {}
    BY <1>1, <1>5, TreeFacts DEF Leaves, Result
  <2>3. Top \in Waiters => \A s \in Below[Top] : temp[s] # "owned"
    BY <2>2, NothingOwned
  <2>4. Top \notin Waiters => terminal' = [terminal EXCEPT ![Top] = ScopeFact(Top, o, failures # {})]
    <3>1. ASSUME Top \notin Waiters PROVE at[Top] \notin {"closing", "releasing", "session"}
      BY <1>1, <3>1, TreeFacts DEF Inv, StagesFit, Waiters
    <3>2. QED
      BY <1>1, <1>5, <3>1, NothingToClose DEF Leaves
  <2>5. ASSUME NEW s \in Nodes, temp'[s] = "owned"
        PROVE  s \in Steps /\ \A w \in Waiters : s \in Below[w] => terminal'[w] = "none"
    <3>1. s \in Steps /\ \A w \in Waiters : s \in Below[w] => terminal[w] = "none"
      <4>1. CASE temp[s] = "owned"
        BY <1>1, <4>1
      <4>2. CASE s = Top /\ Top \in Steps
        BY <1>1, <1>2, <4>2 DEF Inv, Path
      <4>3. QED
        BY <1>1, <2>2, <2>5, <4>1, <4>2
    <3>2. ASSUME NEW w \in Waiters, s \in Below[w] PROVE terminal'[w] = terminal[w]
      <4>1. CASE Top \in Waiters
        <5>1. s \notin Below[Top]
          BY <1>1, <2>2, <2>3, <2>5, <4>1, TreeFacts
        <5>2. w # Top /\ w \notin Below[Top]
          BY <1>1, <3>2, <5>1
        <5>3. QED
          BY <2>1, <5>2
      <4>2. CASE Top \notin Waiters
        BY <1>1, <2>4, <4>2
      <4>3. QED
        BY <4>1, <4>2
    <3>3. QED
      BY <3>1, <3>2
  <2>6. \A s \in Nodes : temp'[s] = "lost" => failures' # {}
    <3>1. failures' = failures
      BY <1>5, LeavesFacts
    <3>2. QED
      BY <1>1, <2>2, <3>1 DEF Directories
  <2>7. at'[Root] \notin {"session", "over"}
    BY <1>1, <1>5, LeavesFacts, TreeFacts, PathTop DEF Inv, StagesFit
  <2>8. QED
    BY <2>5, <2>6, <2>7 DEF Directories
<1>6. ASSUME NEW n \in Nodes, Abandon(n) PROVE Directories'
  <2>1. at'[Root] \in {"session", "over"} => at[Root] \in {"session", "over"}
    BY <1>6, AbandonFacts, TreeFacts
  <2>2. temp' = temp /\ terminal' = terminal /\ failures' # {}
    BY <1>6, AbandonFacts
  <2>3. QED
    BY <1>1, <2>1, <2>2 DEF Directories
<1>7. CASE TestEnds
  <2>1. \A s \in Nodes : temp'[s] # "owned"
    BY <1>1, <1>7, TestEndsFacts DEF Directories
  <2>2. QED
    BY <1>1, <1>7, <2>1, TestEndsFacts DEF Directories
<1>8. CASE SessionCloses
  <2>1. \A s \in Below[Root] : temp[s] # "owned"
    BY <1>8, NothingOwned, SessionClosesFacts, TreeFacts
  <2>2. \A s \in Nodes : temp[s] # "owned"
    BY <1>1, <2>1, TreeFacts
  <2>3. QED
    BY <1>1, <1>3, <1>8, <2>2, SessionClosesFacts DEF Directories
<1>9. ASSUME at'[Root] \in {"session", "over"} => at[Root] \in {"session", "over"},
             temp' = temp, terminal' = terminal, failures \subseteq failures'
      PROVE  Directories'
  BY <1>1, <1>3, <1>9 DEF Directories
<1>10. ASSUME NEW n \in Nodes,
              \/ Observe(n) \/ BodyReturns(n) \/ Closes(n) \/ ResourceOpens(n)
              \/ \E class \in Classes : StepFails(n, class)
       PROVE  Directories'
  <2>1. CASE Observe(n)
    BY <1>9, <2>1, ObserveFacts, TreeFacts
  <2>2. CASE BodyReturns(n)
    BY <1>9, <2>2, BodyReturnsFacts, TreeFacts
  <2>3. CASE Closes(n)
    BY <1>9, <2>3, ClosesFacts, TreeFacts
  <2>4. CASE ResourceOpens(n)
    BY <1>9, <2>4, ResourceOpensFacts, TreeFacts
  <2>5. CASE \E class \in Classes : StepFails(n, class)
    BY <1>9, <2>5, StepFailsFacts, TreeFacts
  <2>6. QED
    BY <1>10, <2>1, <2>2, <2>3, <2>4, <2>5
<1>11. CASE Quiet
  <2>1. /\ at'[Root] \in {"session", "over"} => at[Root] \in {"session", "over"}
        /\ terminal' = terminal /\ failures \subseteq failures'
    BY <1>11, QuietFacts, TreeFacts
  <2>2. CASE temp' = temp
    BY <1>9, <2>1, <2>2
  <2>3. ASSUME NEW n \in Nodes, NEW s \in Steps, Releases(n, s) PROVE Directories'
    <3>1. \/ temp' = [temp EXCEPT ![s] = "released"]
          \/ temp' = [temp EXCEPT ![s] = "lost"] /\ failures' # {}
      BY <2>3 DEF Releases
    <3>2. \A m \in Nodes : temp'[m] = "owned" => temp[m] = "owned"
      BY <1>1, <3>1
    <3>3. \A m \in Nodes : temp'[m] = "lost" => failures' # {}
      BY <1>1, <2>1, <3>1 DEF Directories
    <3>4. QED
      BY <1>1, <2>1, <3>2, <3>3 DEF Directories
  <2>4. QED
    BY <1>11, <2>2, <2>3, QuietFacts
<1>12. CASE Stays
  BY <1>7, <1>8, <1>10, <1>11, <1>12, StaysCases
<1>13. QED
  BY <1>4, <1>5, <1>6, <1>12, Moves

-----------------------------------------------------------------------------
(* Failures travel up the path                                             *)

\* A node that returns while the branch has a failure returns no success.
LEMMA LeavesUnwinding ==
  ASSUME Inv, NEW o, Leaves(Top, o), first # None
  PROVE  /\ o.kind \notin {"none", "passed"}
         /\ \/ ret # None /\ o = ret
            \/ ret = None /\ at[Top] = "evidence" /\ o = primary[Top] /\ o.kind = "failed"
            \/ ret = None /\ at[Top] = "releasing" /\ Top \in Waiters /\ o = WaitResult(Top)
<1>1. /\ Top \in Nodes /\ Result(Top, o) /\ outcome = None /\ None.kind = "none"
  BY PathTop DEF Inv, Leaves, None
<1>2. /\ ret.kind # "passed"
      /\ ret = None => \/ at[Top] = "evidence"
                       \/ /\ at[Top] \in {"closing", "releasing", "session"}
                          /\ primary[Top].kind \notin {"none", "passed"}
  BY <1>1 DEF Inv, Unwinds
<1>3. o.kind # "none"
  BY <1>1, ResultTrue
<1>4. CASE ret # None /\ o = ret
  BY <1>2, <1>3, <1>4
<1>5. CASE ret = None /\ at[Top] \in {"before", "step"}
  BY <1>2, <1>5
<1>6. CASE ret = None /\ at[Top] = "evidence" /\ o = primary[Top]
  <2>1. primary[Top].kind = "failed"
    BY <1>1, <1>6 DEF Inv, Completions
  <2>2. QED
    BY <1>6, <2>1
<1>7. CASE ret = None /\ Top \in Waiters /\ at[Top] = "releasing" /\ o = WaitResult(Top)
  <2>1. primary[Top].kind \notin {"none", "passed"}
    BY <1>2, <1>7
  <2>2. o.kind \notin {"none", "passed"}
    BY <1>7, <2>1, WaitResultTrue
  <2>3. QED
    BY <1>7, <2>2
<1>8. QED
  BY <1>1, <1>4, <1>5, <1>6, <1>7 DEF Result

\* Once the branch has a first failure the path only unwinds.
LEMMA UnwindsStep ==
  ASSUME Inv, Next
  PROVE  Unwinds'
<1>1. Unwinds /\ outcome = None /\ Top \in Nodes /\ OnPath(Top) /\ None.kind = "none"
      /\ Passed.kind = "passed"
  BY OutcomeLast, PathTop DEF Inv, None, Passed, Outcome
<1>2. ASSUME NEW c, Enters(c) PROVE Unwinds'
  <2>1. first = None
    BY <1>1, <1>2 DEF Enters, Unwinds
  <2>2. QED
    BY <1>2, <2>1, EntersFacts DEF Unwinds, None
<1>3. ASSUME NEW o, Leaves(Top, o) PROVE Unwinds'
  <2>1. /\ ret' = o /\ o.kind # "none"
        /\ first' = IF Fails(o) /\ cause[Top] = None /\ first = None THEN o ELSE first
    BY <1>1, <1>3, ResultTrue DEF Leaves
  <2>2. first' # None => o.kind # "passed"
    BY <1>3, <2>1, LeavesUnwinding DEF Fails
  <2>3. QED
    BY <1>1, <2>1, <2>2 DEF Unwinds, None
<1>4. ASSUME NEW n \in Nodes, Abandon(n) PROVE Unwinds'
  <2>1. primary[n].kind = "interrupted"
    BY <1>4, AbandonFacts DEF Inv, Completions
  <2>2. QED
    BY <1>1, <1>4, <2>1, AbandonFacts DEF Unwinds
<1>5. ASSUME Stays PROVE Unwinds'
  <2>1. Top' = Top
    BY <1>5, StaysFacts
  <2>2. CASE TestEnds
    <3>1. outcome' # None
      BY <1>1, <2>2, TestEndsFacts
    <3>2. QED
      BY <3>1 DEF Unwinds, None
  <2>3. CASE SessionCloses
    BY <1>1, <2>1, <2>3, SessionClosesFacts DEF Unwinds, None
  <2>4. ASSUME NEW n \in Nodes, Observe(n) PROVE Unwinds'
    BY <1>1, <2>1, <2>4, ObserveFacts DEF Unwinds, None
  <2>5. ASSUME NEW n \in Nodes, BodyReturns(n) PROVE Unwinds'
    <3>1. /\ n = Top /\ ret' = None /\ at'[n] \in {"closing", "releasing"} /\ first' = first
          /\ outcome' = outcome /\ (primary'[n] = ret \/ primary'[n] = primary[n])
          /\ ret # None /\ (at[n] = "open" => primary'[n] = ret) /\ at[n] \in {"interrupting", "open"}
      BY <2>5, BodyReturnsFacts
    <3>2. ret.kind # "none" /\ (at[n] = "interrupting" => primary[n].kind = "interrupted")
      BY <2>5, <3>1 DEF Inv, OutcomesTrue, True, Completions
    <3>3. first # None => primary'[n].kind \notin {"none", "passed"}
      BY <1>1, <3>1, <3>2 DEF Unwinds
    <3>4. QED
      BY <1>1, <2>1, <3>1, <3>3 DEF Unwinds, None
  <2>6. ASSUME NEW n \in Nodes, Closes(n) PROVE Unwinds'
    BY <1>1, <2>1, <2>6, ClosesFacts DEF Unwinds, None
  <2>7. ASSUME NEW n \in Nodes, ResourceOpens(n) PROVE Unwinds'
    BY <1>1, <2>1, <2>7, ResourceOpensFacts DEF Unwinds, None
  <2>8. ASSUME NEW n \in Nodes, NEW class \in Classes, StepFails(n, class) PROVE Unwinds'
    BY <1>1, <2>1, <2>8, StepFailsFacts DEF Unwinds, None
  <2>9. CASE Quiet
    BY <1>1, <2>1, <2>9, QuietFacts DEF Unwinds, None
  <2>10. QED
    BY <1>5, <2>2, <2>3, <2>4, <2>5, <2>6, <2>7, <2>8, <2>9, StaysCases
<1>6. QED
  BY <1>2, <1>3, <1>4, <1>5, Moves

\* A failure that no cancellation preceded is the first failure.
LEMMA UnprovokedStep ==
  ASSUME Inv, Next
  PROVE  Unprovoked'
<1>1. Unprovoked /\ outcome = None /\ Top \in Nodes /\ None.kind = "none"
  BY OutcomeLast, PathTop DEF Inv, None
<1>2. first = None => unprovoked = {}
  BY <1>1 DEF Unprovoked
<1>3. ASSUME unprovoked' = unprovoked, first' = first \/ first = None PROVE Unprovoked'
  BY <1>1, <1>2, <1>3 DEF Unprovoked
<1>4. ASSUME NEW c, Enters(c) PROVE Unprovoked'
  BY <1>3, <1>4, EntersFacts
<1>5. ASSUME NEW o, Leaves(Top, o) PROVE Unprovoked'
  BY <1>3, <1>5 DEF Leaves
<1>6. ASSUME NEW n \in Nodes, Abandon(n) PROVE Unprovoked'
  BY <1>3, <1>6, AbandonFacts
<1>7. ASSUME NEW n \in Nodes, NEW class \in Classes, StepFails(n, class) PROVE Unprovoked'
  <2>1. first = None
    BY <1>1, <1>7, StepFailsFacts DEF Inv, Unwinds
  <2>2. unprovoked = {}
    BY <1>2, <2>1
  <2>3. CASE cause[n] = None
    <3>1. first' = Failed(n, class) /\ unprovoked' \subseteq {n} /\ n \in Steps
      BY <1>7, <2>2, <2>3, StepFailsFacts
    <3>2. QED
      BY <1>7, <3>1, StepFailsFacts DEF Unprovoked
  <2>4. CASE cause[n] # None
    <3>1. unprovoked' = {}
      BY <1>7, <2>2, <2>4, StepFailsFacts
    <3>2. QED
      BY <3>1 DEF Unprovoked
  <2>5. QED
    BY <2>3, <2>4
<1>8. ASSUME NEW n \in Nodes, Observe(n) \/ BodyReturns(n) \/ Closes(n) \/ ResourceOpens(n)
      PROVE  Unprovoked'
  BY <1>3, <1>8 DEF Observe, BodyReturns, Closes, ResourceOpens
<1>9. CASE TestEnds \/ SessionCloses \/ Quiet
  BY <1>3, <1>9, QuietFacts DEF TestEnds, SessionCloses
<1>10. QED
  BY <1>4, <1>5, <1>6, <1>7, <1>8, <1>9, Moves, StaysCases

\* An abort travels up the path as it is.
LEMMA AbortsStep ==
  ASSUME Inv, Next
  PROVE  Aborts'
<1> DEFINE AbortUp ==
        Aborting /\ failures = {} /\ outcome = None =>
          /\ first = None \/ first.kind = "aborted"
          /\ \/ ret.kind = "aborted"
             \/ /\ ret = None /\ primary[Top].kind = "aborted"
                /\ at[Top] \in {"closing", "releasing", "session"}
      AbortFree == \A r \in Nodes : Kind[r] = "resource" /\ OnPath(r) =>
         ret.kind # "aborted" /\ \A n \in Below[r] : OnPath(n) => primary[n].kind # "aborted"
<1>1. /\ AbortUp /\ AbortFree /\ outcome = None /\ Top \in Nodes /\ OnPath(Top)
      /\ None.kind = "none" /\ Passed.kind = "passed"
      /\ Waiters \subseteq Nodes /\ Steps \cap Waiters = {} /\ \A n \in Nodes : Below[n] \subseteq Nodes
  BY OutcomeLast, PathTop, TreeFacts DEF Inv, Aborts, None, Passed, Outcome
<1>2. ASSUME AbortUp', AbortFree' PROVE Aborts'
  BY <1>2 DEF Aborts
<1>3. ASSUME NEW c, Enters(c) PROVE Aborts'
  <2>1. primary' = primary /\ ret' \in {None, Passed} /\ Top \in Nodes /\ c \in Nodes
        /\ \A n : OnPath(n)' <=> OnPath(n) \/ n = c
    BY <1>3, EntersFacts
  <2>2. primary[c].kind = "none"
    BY <1>1, <1>3, <2>1 DEF Enters, Inv, Completions
  <2>3. AbortFree'
    <3>1. ASSUME NEW r \in Nodes, Kind[r] = "resource", OnPath(r)',
                 NEW n \in Below[r], OnPath(n)'
          PROVE  primary[n].kind # "aborted"
      <4>1. CASE r = c
        BY <1>3, <3>1, <4>1, EntersFacts
      <4>2. CASE r # c /\ n = c
        BY <2>2, <4>2
      <4>3. CASE r # c /\ n # c
        BY <1>1, <2>1, <3>1, <4>3
      <4>4. QED
        BY <4>1, <4>2, <4>3
    <3>2. ret'.kind # "aborted"
      BY <1>1, <2>1
    <3>3. QED
      BY <2>1, <3>1, <3>2
  <2>4. Aborting' => Aborting
    BY <1>1, <2>1 DEF Aborting
  <2>5. ~(Aborting /\ failures = {})
    BY <1>1, <1>3 DEF Enters
  <2>6. AbortUp'
    BY <1>3, <2>4, <2>5, EntersFacts
  <2>7. QED
    BY <1>2, <2>3, <2>6
<1>4. ASSUME NEW o, Leaves(Top, o) PROVE Aborts'
  <2>1. /\ ret' = o /\ primary' = primary /\ failures' = failures /\ outcome' = outcome
        /\ \A n : OnPath(n)' => OnPath(n) /\ n \in Nodes /\ n # Top
        /\ first' = IF Fails(o) /\ cause[Top] = None /\ first = None THEN o ELSE first
        /\ Result(Top, o)
    BY <1>1, <1>4, LeavesFacts DEF Leaves
  <2>2. o.kind = "aborted" =>
          \/ ret.kind = "aborted" /\ o = ret
          \/ Top \in Waiters /\ primary[Top].kind = "aborted" /\ ret = None
    <3>1. CASE ret # None /\ o = ret
      BY <3>1
    <3>2. CASE o = Cancelled(Reason(Top)) \/ o = Passed
      BY <3>2 DEF Cancelled, Passed, Outcome
    <3>3. CASE at[Top] = "evidence" /\ o = primary[Top]
      BY <1>1, <3>3 DEF Inv, Completions
    <3>4. CASE ret = None /\ Top \in Waiters /\ at[Top] = "releasing" /\ o = WaitResult(Top)
      <4>1. primary[Top].kind # "none"
        BY <1>1, <3>4 DEF Inv, Completions
      <4>2. QED
        BY <3>4, <4>1, WaitResultTrue
    <3>5. QED
      BY <2>1, <3>1, <3>2, <3>3, <3>4 DEF Result
  <2>3. AbortFree'
    <3>1. ASSUME NEW r \in Nodes, Kind[r] = "resource", OnPath(r)' PROVE o.kind # "aborted"
      <4>1. OnPath(r) /\ Top \in Below[r]
        BY <2>1, <3>1, PathTop DEF Inv
      <4>2. ret.kind # "aborted" /\ primary[Top].kind # "aborted"
        BY <1>1, <3>1, <4>1
      <4>3. QED
        BY <2>2, <4>2
    <3>2. QED
      BY <1>1, <2>1, <3>1
  <2>4. Aborting' => Aborting
    BY <2>1, <2>2 DEF Aborting
  <2>5. ASSUME Aborting, failures = {}
        PROVE  o.kind = "aborted" /\ (first' = None \/ first'.kind = "aborted")
    <3>1. /\ first = None \/ first.kind = "aborted"
          /\ \/ ret.kind = "aborted"
             \/ /\ ret = None /\ primary[Top].kind = "aborted"
                /\ at[Top] \in {"closing", "releasing", "session"}
      BY <1>1, <2>5
    <3>2. o.kind = "aborted"
      <4>1. CASE ret.kind = "aborted"
        BY <1>1, <2>1, <4>1 DEF Result
      <4>2. CASE /\ ret = None /\ primary[Top].kind = "aborted"
                 /\ at[Top] \in {"closing", "releasing", "session"}
        <5>1. Top \in Waiters /\ o = WaitResult(Top)
          BY <2>1, <4>2 DEF Result
        <5>2. QED
          BY <4>2, <5>1, WaitResultTrue
      <4>3. QED
        BY <3>1, <4>1, <4>2
    <3>3. QED
      BY <2>1, <3>1, <3>2
  <2>6. AbortUp'
    BY <2>1, <2>4, <2>5
  <2>7. QED
    BY <1>2, <2>3, <2>6
<1>5. ASSUME NEW n \in Nodes, Abandon(n) PROVE Aborts'
  <2>1. failures' # {} /\ ret' = ret /\ primary' = primary /\ \A m : OnPath(m)' => OnPath(m)
    BY <1>5, AbandonFacts
  <2>2. QED
    BY <1>1, <1>2, <2>1
<1>6. ASSUME Stays, ret' = ret, primary' = primary, first' = first,
             at' = at \/ at[Top] \notin {"closing", "releasing", "session"} \/ at'[Top] = "session"
      PROVE  Aborts'
  <2>1. Top' = Top /\ (\A n : OnPath(n)' <=> OnPath(n)) /\ failures \subseteq failures'
    BY <1>6, StaysFacts
  <2>2. AbortFree'
    BY <1>1, <1>6, <2>1
  <2>3. AbortUp'
    BY <1>1, <1>6, <2>1 DEF Aborting
  <2>4. QED
    BY <1>2, <2>2, <2>3
<1>7. ASSUME Stays PROVE Aborts'
  <2>1. Top' = Top /\ (\A n : OnPath(n)' <=> OnPath(n)) /\ failures \subseteq failures'
    BY <1>7, StaysFacts
  <2>2. CASE TestEnds
    <3>1. outcome' # None /\ ret' = ret /\ primary' = primary
      BY <1>1, <2>2, TestEndsFacts
    <3>2. QED
      BY <1>1, <1>2, <2>1, <3>1 DEF None
  <2>3. CASE SessionCloses
    BY <1>6, <1>7, <2>3, SessionClosesFacts
  <2>4. ASSUME NEW n \in Nodes, Observe(n) PROVE Aborts'
    <3>1. /\ primary'[n].kind = "interrupted" /\ \A m \in Nodes : m # n => primary'[m] = primary[m]
          /\ at[n] \in {"acquiring", "open"} /\ \A m \in Nodes : m # n => at'[m] = at[m]
          /\ ret' = ret /\ first' = first /\ outcome' = outcome
      BY <2>4, ObserveFacts
    <3>2. AbortFree'
      BY <1>1, <2>1, <3>1
    <3>3. Aborting' => Aborting
      BY <1>1, <3>1 DEF Aborting
    <3>4. AbortUp'
      BY <1>1, <2>1, <3>1, <3>3, StaysFacts
    <3>5. QED
      BY <1>2, <3>2, <3>4
  <2>5. ASSUME NEW n \in Nodes, BodyReturns(n) PROVE Aborts'
    <3>1. /\ n = Top /\ n \in Waiters /\ ret # None /\ ret' = None /\ first' = first
          /\ at'[n] \in {"closing", "releasing"}
          /\ primary'[n] = ret \/ primary'[n] = primary[n]
          /\ ret.kind = "aborted" /\ Kind[n] # "resource" => primary'[n] = ret
          /\ \A m \in Nodes : m # n => primary'[m] = primary[m]
      BY <2>5, BodyReturnsFacts
    <3>2. Kind[n] = "resource" => ret.kind # "aborted"
      BY <1>1, <3>1
    <3>3. AbortFree'
      BY <1>1, <2>1, <3>1
    <3>4. AbortUp'
      <4>1. ret.kind = "aborted" => primary'[n].kind = "aborted"
        BY <3>1, <3>2
      <4>2. ret.kind # "aborted" /\ Aborting' => Aborting
        BY <1>1, <3>1 DEF Aborting
      <4>3. ret.kind = "aborted" => Aborting
        BY DEF Aborting
      <4>4. QED
        BY <1>1, <2>1, <3>1, <4>1, <4>2, <4>3
    <3>5. QED
      BY <1>2, <3>3, <3>4
  <2>6. ASSUME NEW n \in Nodes, Closes(n) PROVE Aborts'
    <3>1. /\ n = Top /\ at[n] = "closing" /\ at'[n] = "releasing" /\ ret = None /\ ret' = None
          /\ Kind[n] = "resource" /\ n \in Waiters
          /\ primary'[n] = primary[n] \/ (primary'[n].kind = "interrupted" /\ cause[n] # None)
          /\ primary[n].kind = "aborted" => primary'[n] = primary[n]
          /\ \A m \in Nodes : m # n => primary'[m] = primary[m]
          /\ first' = first
      BY <2>6, ClosesFacts DEF Waiters
    <3>2. AbortFree'
      BY <1>1, <2>1, <3>1
    <3>3. Aborting' => Aborting
      BY <1>1, <3>1 DEF Aborting
    <3>4. AbortUp'
      BY <1>1, <2>1, <3>1, <3>3
    <3>5. QED
      BY <1>2, <3>2, <3>4
  <2>7. ASSUME NEW n \in Nodes, ResourceOpens(n) PROVE Aborts'
    <3>1. /\ n = Top /\ at[n] = "acquiring" /\ ret = None /\ ret' = None /\ first' = first
          /\ Kind[n] = "resource" /\ n \in Waiters
          /\ \/ at'[n] = "open" /\ primary' = primary
             \/ at'[n] = "closing" /\ primary'[n].kind = "aborted"
          /\ \A m \in Nodes : m # n => primary'[m] = primary[m]
      BY <2>7, ResourceOpensFacts
    <3>2. first = None /\ ~(Aborting /\ failures = {})
      BY <1>1, <3>1 DEF Inv, Unwinds
    <3>3. AbortFree'
      <4>1. \A r \in Nodes : Kind[r] = "resource" => n \notin Below[r]
        BY <3>1, ResourceAssumption
      <4>2. QED
        BY <1>1, <2>1, <3>1, <4>1
    <3>4. CASE primary' = primary
      <4>1. Aborting' => Aborting
        BY <3>1, <3>4 DEF Aborting
      <4>2. AbortUp'
        BY <2>1, <3>2, <4>1
      <4>3. QED
        BY <1>2, <3>3, <4>2
    <3>5. CASE at'[n] = "closing" /\ primary'[n].kind = "aborted"
      BY <1>2, <2>1, <3>1, <3>2, <3>3, <3>5
    <3>6. QED
      BY <3>1, <3>4, <3>5
  <2>8. ASSUME NEW n \in Nodes, NEW class \in Classes, StepFails(n, class) PROVE Aborts'
    <3>1. /\ n = Top /\ n \notin Waiters /\ at[n] = "step" /\ ret = None /\ ret' = None
          /\ primary'[n].kind = "failed" /\ \A m \in Nodes : m # n => primary'[m] = primary[m]
      BY <2>8, StepFailsFacts
    <3>2. ~(Aborting /\ failures = {})
      BY <1>1, <3>1
    <3>3. Aborting' => Aborting
      BY <1>1, <3>1 DEF Aborting
    <3>4. AbortFree'
      BY <1>1, <2>1, <3>1
    <3>5. QED
      BY <1>2, <2>1, <3>2, <3>3, <3>4
  <2>9. CASE Quiet
    <3>1. at' = at \/ at[Top] = "before"
      BY <2>9, QuietFacts
    <3>2. QED
      BY <1>6, <1>7, <2>9, <3>1, QuietFacts
  <2>10. QED
    BY <1>7, <2>2, <2>3, <2>4, <2>5, <2>6, <2>7, <2>8, <2>9, StaysCases
<1>8. QED
  BY <1>3, <1>4, <1>5, <1>7, Moves

-----------------------------------------------------------------------------
(* Cancellations                                                           *)

\* The parts of Cancellations, to name them.
Downwards == \A n \in Nodes : \A m \in Below[n] : Started(m) /\ cause[n] # None => cause[m] # None
OutermostCut == \A p \in Nodes : \A n \in ToSet(Children[p]) :
  OnPath(n) /\ OnPath(p) /\ cause[n] # None /\ cause[p] = None => Cut(n)
OwnDeadlineCut == \A n \in Nodes : OnPath(n) /\ cause[n] # None /\ cause[n].by = n =>
  Cut(n) \/ (n = Root /\ at[n] \in {"open", "over"})
RootByItself == cause[Root] # None => cause[Root].by = Root
TimersAround ==
  /\ \A n \in Nodes : OnPath(n) => timer[n] = n \/ n \in Below[timer[n]]
  /\ timer[Root] = Root
DueStarted == \A n \in due : Started(n)
SeenOnReturn == ret # None => Seen

\* A wait that was cut short stays so until it returns.
LEMMA CutStays ==
  ASSUME Inv, Next, NEW n \in Nodes, Cut(n), OnPath(n)', outcome' = None
  PROVE  Cut(n)'
<1>1. /\ at[n] \in {"interrupting", "closing", "releasing", "session"}
      /\ primary[n].kind \in {"interrupted", "aborted"}
  BY DEF Cut
<1>2. ASSUME \/ at'[n] = at[n]
             \/ at'[n] \in {"interrupting", "closing", "releasing", "session"},
             primary'[n] = primary[n] \/ primary'[n].kind \in {"interrupted", "aborted"}
      PROVE  Cut(n)'
  BY <1>1, <1>2 DEF Cut
<1>3. ASSUME NEW c, Enters(c) PROVE Cut(n)'
  <2>1. n # c
    BY <1>1, <1>3 DEF Enters
  <2>2. QED
    BY <1>2, <1>3, <2>1, EntersFacts
<1>4. ASSUME NEW o, Leaves(Top, o) PROVE Cut(n)'
  BY <1>2, <1>4, LeavesFacts
<1>5. ASSUME NEW a \in Nodes, Abandon(a) PROVE Cut(n)'
  <2>1. n = a => at'[n] \in {"closing", "releasing"}
    BY <1>5, AbandonFacts
  <2>2. n # a => at'[n] = at[n]
    BY <1>5, AbandonFacts
  <2>3. primary'[n] = primary[n]
    BY <1>5, AbandonFacts
  <2>4. QED
    BY <1>2, <2>1, <2>2, <2>3
<1>6. CASE TestEnds
  BY <1>6, TestEndsFacts DEF None
<1>7. CASE SessionCloses
  BY <1>2, <1>7, SessionClosesFacts
<1>8. ASSUME NEW a \in Nodes, Observe(a) PROVE Cut(n)'
  BY <1>1, <1>2, <1>8, ObserveFacts
<1>9. ASSUME NEW a \in Nodes, BodyReturns(a) PROVE Cut(n)'
  <2>1. n = a => \/ primary'[n] = primary[n]
                 \/ primary'[n].kind = "aborted"
    BY <1>1, <1>9, BodyReturnsFacts
  <2>2. QED
    BY <1>2, <1>9, <2>1, BodyReturnsFacts
<1>10. ASSUME NEW a \in Nodes, Closes(a) PROVE Cut(n)'
  BY <1>2, <1>10, ClosesFacts
<1>11. ASSUME NEW a \in Nodes, ResourceOpens(a) PROVE Cut(n)'
  BY <1>1, <1>2, <1>11, ResourceOpensFacts
<1>12. ASSUME NEW a \in Nodes, NEW class \in Classes, StepFails(a, class) PROVE Cut(n)'
  BY <1>1, <1>2, <1>12, StepFailsFacts
<1>13. CASE Quiet
  BY <1>1, <1>2, <1>13, QuietFacts
<1>14. QED
  BY <1>3, <1>4, <1>5, <1>6, <1>7, <1>8, <1>9, <1>10, <1>11, <1>12, <1>13, Moves, StaysCases

\* A cancellation reaches everything inside a wait that it reaches.
LEMMA CancellationsEnters ==
  ASSUME Inv, Next, NEW c, Enters(c)
  PROVE  Cancellations'
<1>1. /\ Downwards /\ OutermostCut /\ OwnDeadlineCut /\ RootByItself /\ TimersAround /\ DueStarted
  BY DEF Inv, Cancellations, Downwards, OutermostCut, OwnDeadlineCut, RootByItself, TimersAround,
         DueStarted
<1>2. /\ Top \in Nodes /\ OnPath(Top) /\ Root \in Nodes /\ at[c] = "idle" /\ Started(Top) /\ Seen
      /\ at[Top] \in {"open", "interrupting"}
  BY EntersFacts, TreeFacts DEF Enters, Started
<1>3. ASSUME NEW n \in Nodes, OnPath(n) PROVE Started(n)
  BY <1>3 DEF Inv, StagesFit, Gone, Started
<1>4. Downwards'
  <2>1. ASSUME NEW n \in Nodes, NEW m \in Below[n], Started(m)', cause'[n] # None
        PROVE  cause'[m] # None
    <3>1. n # c
      <4>1. n = c => ~Started(m)'
        BY <2>1, EntersFacts DEF Started
      <4>2. QED
        BY <2>1, <4>1
    <3>2. m \in Nodes /\ cause[n] # None
      BY <2>1, <3>1, EntersFacts, TreeFacts DEF None
    <3>3. CASE m = c
      <4>1. n = Top \/ Top \in Below[n]
        BY <2>1, <3>3, EntersFacts
      <4>2. cause[Top] # None
        BY <1>1, <1>2, <3>2, <4>1 DEF Downwards
      <4>3. QED
        BY <3>3, <4>2, EntersFacts DEF None
    <3>4. CASE m # c
      <4>1. Started(m)
        BY <2>1, <3>2, <3>4, EntersFacts
      <4>2. QED
        BY <1>1, <2>1, <3>2, <3>4, <4>1, EntersFacts DEF Downwards, None
    <3>5. QED
      BY <3>3, <3>4
  <2>2. QED
    BY <2>1 DEF Downwards
<1>5. OutermostCut'
  <2>1. ASSUME NEW p \in Nodes, NEW n \in ToSet(Children[p]), OnPath(n)', OnPath(p)',
               cause'[n] # None, cause'[p] = None
        PROVE  Cut(n)'
    <3>1. n \in Nodes /\ n \in Below[p]
      BY TreeFacts
    <3>2. p # c
      BY <2>1, <3>1, EntersFacts
    <3>3. n # c
      <4>1. ASSUME n = c PROVE FALSE
        <5>1. c \in ToSet(Children[Top])
          BY DEF Enters
        <5>2. p = Top
          BY <1>2, <4>1, <5>1, OneParent
        <5>3. QED
          BY <2>1, <3>2, <4>1, <5>2, EntersFacts DEF None
      <4>2. QED
        BY <4>1
    <3>4. Cut(n)
      BY <1>1, <2>1, <3>1, <3>2, <3>3, EntersFacts DEF OutermostCut, None
    <3>5. QED
      BY <2>1, <3>1, <3>4, CutStays, OutcomeLast, EntersFacts
  <2>2. QED
    BY <2>1 DEF OutermostCut
<1>6. OwnDeadlineCut'
  <2>1. ASSUME NEW n \in Nodes, OnPath(n)', cause'[n] # None, cause'[n].by = n
        PROVE  (Cut(n) \/ (n = Root /\ at[n] \in {"open", "over"}))'
    <3>1. n # c
      <4>1. ASSUME n = c PROVE FALSE
        <5>1. cause[Top] # None /\ cause[Top].by = c
          BY <2>1, <4>1, EntersFacts DEF None
        <5>2. c = Root \/ c \in due
          BY <1>2, <5>1 DEF Inv, OutcomesTrue
        <5>3. QED
          BY <1>1, <1>2, <5>2, EntersFacts DEF DueStarted, Started
      <4>2. QED
        BY <4>1
    <3>2. Cut(n) \/ (n = Root /\ at[n] \in {"open", "over"})
      BY <1>1, <2>1, <3>1, EntersFacts DEF OwnDeadlineCut, None
    <3>3. at'[n] = at[n] /\ primary'[n] = primary[n]
      BY <3>1, EntersFacts
    <3>4. QED
      BY <3>2, <3>3 DEF Cut
  <2>2. QED
    BY <2>1 DEF OwnDeadlineCut
<1>7. RootByItself'
  BY <1>1, <1>2, EntersFacts DEF RootByItself, None
<1>8. TimersAround'
  <2>1. /\ timer' = [timer EXCEPT ![c] = c] \/ timer' = [timer EXCEPT ![c] = timer[Top]]
        /\ timer \in [Nodes -> Deadlines]
    BY DEF Enters, Enter, Inv, TypeOK
  <2>2. /\ timer'[c] = c \/ timer'[c] = timer[Top]
        /\ \A n \in Nodes : n # c => timer'[n] = timer[n]
    BY <2>1, EntersFacts
  <2>3. c \in Below[timer[Top]]
    <3>1. timer[Top] = Top \/ Top \in Below[timer[Top]]
      BY <1>1, <1>2 DEF TimersAround
    <3>2. timer[Top] \in Nodes
      BY <1>2, <2>1, TreeFacts
    <3>3. QED
      BY <3>1, <3>2, EntersFacts, TreeFacts
  <2>4. QED
    BY <1>1, <1>2, <2>2, <2>3, EntersFacts DEF TimersAround
<1>9. DueStarted'
  <2>1. due \subseteq Nodes
    BY TreeFacts DEF Inv, TypeOK
  <2>2. QED
    BY <1>1, <2>1, EntersFacts DEF DueStarted
<1>10. SeenOnReturn'
  <2>1. ASSUME ret' # None, NEW w \in Waiters PROVE ~Unseen(w)'
    <3>1. w # c /\ w \in Nodes
      BY <2>1, EntersFacts, TreeFacts DEF Waiters, None
    <3>2. QED
      BY <1>2, <3>1, EntersFacts DEF Seen, Unseen, None
  <2>2. QED
    BY <2>1 DEF SeenOnReturn, Seen
<1>11. QED
  BY <1>4, <1>5, <1>6, <1>7, <1>8, <1>9, <1>10
  DEF Cancellations, Downwards, OutermostCut, OwnDeadlineCut, RootByItself, TimersAround,
      DueStarted, SeenOnReturn, Seen

\* What no cancellation touches stays so while nothing is cancelled.
LEMMA CancellationsKept ==
  ASSUME Inv, Next, UNCHANGED <<cause, timer>>,
         due \subseteq due', \A n \in due' : n \in due \/ Started(n),
         \A n : OnPath(n)' => OnPath(n),
         \A n \in Nodes : Started(n)' <=> Started(n),
         outcome' = None \/ (at'[Root] = "over" /\ \A n : OnPath(n)' => n = Root),
         at[Root] = "open" /\ cause[Root] # None => at'[Root] \in {"open", "over"} \/ Cut(Root)',
         SeenOnReturn'
  PROVE  Cancellations'
<1>1. /\ Downwards /\ OutermostCut /\ OwnDeadlineCut /\ RootByItself /\ TimersAround /\ DueStarted
      /\ Root \in Nodes /\ outcome = None /\ at[Root] # "over"
  BY OutcomeLast, TreeFacts
  DEF Inv, Cancellations, Downwards, OutermostCut, OwnDeadlineCut, RootByItself, TimersAround,
      DueStarted, StagesFit
<1>2. Downwards' /\ RootByItself' /\ TimersAround'
  BY <1>1, TreeFacts DEF Downwards, RootByItself, TimersAround, None
<1>3. DueStarted'
  <2>1. due \subseteq Nodes /\ due' \subseteq Nodes
    BY TypeOKStep, TreeFacts DEF Inv, TypeOK
  <2>2. QED
    BY <1>1, <2>1 DEF DueStarted
<1>4. OutermostCut'
  <2>1. ASSUME NEW p \in Nodes, NEW n \in ToSet(Children[p]), OnPath(n)', OnPath(p)',
               cause'[n] # None, cause'[p] = None
        PROVE  Cut(n)'
    <3>1. n \in Nodes /\ n # Root
      BY TreeFacts
    <3>2. Cut(n)
      BY <1>1, <2>1 DEF OutermostCut, None
    <3>3. outcome' = None
      BY <2>1, <3>1
    <3>4. QED
      BY <2>1, <3>1, <3>2, <3>3, CutStays
  <2>2. QED
    BY <2>1 DEF OutermostCut
<1>5. OwnDeadlineCut'
  <2>1. ASSUME NEW n \in Nodes, OnPath(n)', cause'[n] # None, cause'[n].by = n
        PROVE  (Cut(n) \/ (n = Root /\ at[n] \in {"open", "over"}))'
    <3>1. Cut(n) \/ (n = Root /\ at[n] = "open" /\ cause[Root] # None)
      BY <1>1, <2>1 DEF OwnDeadlineCut, None
    <3>2. CASE outcome' = None
      BY <2>1, <3>1, <3>2, CutStays
    <3>3. CASE at'[Root] = "over" /\ n = Root
      BY <3>3
    <3>4. QED
      BY <2>1, <3>2, <3>3
  <2>2. QED
    BY <2>1 DEF OwnDeadlineCut
<1>6. QED
  BY <1>2, <1>3, <1>4, <1>5
  DEF Cancellations, Downwards, OutermostCut, OwnDeadlineCut, RootByItself, TimersAround,
      DueStarted, SeenOnReturn, Seen

\* A token is cancelled by a wait that has seen its deadline pass, or by the control.
LEMMA CancellationsToken ==
  ASSUME Inv, Next, NEW n \in Nodes, NEW by \in Nodes, NEW class,
         CancelToken(n, Outcome("cancelled", by, class)),
         cause[n] = None, n = Root => by = Root, by \notin Below[n],
         OnPath(n), n = Root \/ Cut(n)', ret = None, ret' = None, outcome' = None,
         by = n => Cut(n)' \/ (n = Root /\ at'[n] = "open"),
         UNCHANGED <<stack, timer, due>>,
         \A m \in Nodes : m # n => at'[m] = at[m],
         \A m \in Nodes : Started(m)' <=> Started(m)
  PROVE  Cancellations'
<1>1. /\ Downwards /\ OutermostCut /\ OwnDeadlineCut /\ RootByItself /\ TimersAround /\ DueStarted
      /\ Root \in Nodes /\ outcome = None /\ at[Root] # "over"
  BY OutcomeLast, TreeFacts
  DEF Inv, Cancellations, Downwards, OutermostCut, OwnDeadlineCut, RootByItself, TimersAround,
      DueStarted, StagesFit
<1>2. PICK c : c = Outcome("cancelled", by, class)
  OBVIOUS
<1>3. c # None /\ c.by = by
  BY <1>2 DEF Outcome, None
<1>4. \A m \in Nodes : cause'[m] = IF m \in {n} \cup Below[n] /\ Started(m) /\ cause[m] = None
                                   THEN c ELSE cause[m]
  BY <1>2, TokenFacts
<1>5. \A m : OnPath(m)' <=> OnPath(m)
  BY PathKept DEF Inv
<1>6. \A m \in Nodes : OnPath(m) => Started(m)
  BY DEF Inv, StagesFit, Gone, Started
<1>7. Downwards'
  <2>1. ASSUME NEW a \in Nodes, NEW b \in Below[a], Started(b)', cause'[a] # None
        PROVE  cause'[b] # None
    <3>1. b \in Nodes /\ Started(b)
      BY <2>1, TreeFacts
    <3>2. CASE cause[a] # None
      BY <1>1, <1>3, <1>4, <3>1, <3>2 DEF Downwards, None
    <3>3. CASE cause[a] = None
      <4>1. a \in {n} \cup Below[n]
        BY <1>4, <2>1, <3>3 DEF None
      <4>2. b \in Below[n]
        BY <4>1, TreeFacts
      <4>3. QED
        BY <1>3, <1>4, <3>1, <4>2 DEF None
    <3>4. QED
      BY <3>2, <3>3
  <2>2. QED
    BY <2>1 DEF Downwards
<1>8. OutermostCut'
  <2>1. ASSUME NEW p \in Nodes, NEW m \in ToSet(Children[p]), OnPath(m)', OnPath(p)',
               cause'[m] # None, cause'[p] = None
        PROVE  Cut(m)'
    <3>1. m \in Nodes /\ m # Root
      BY TreeFacts
    <3>2. cause[p] = None /\ p \notin {n} \cup Below[n]
      BY <1>3, <1>4, <1>5, <1>6, <2>1 DEF None
    <3>3. CASE cause[m] # None
      <4>1. Cut(m)
        BY <1>1, <1>5, <2>1, <3>2, <3>3 DEF OutermostCut
      <4>2. QED
        BY <2>1, <3>1, <4>1, CutStays
    <3>4. CASE cause[m] = None
      <4>1. m \in {n} \cup Below[n]
        BY <1>4, <2>1, <3>1, <3>4 DEF None
      <4>2. m \in Below[n] => n = p \/ p \in Below[n]
        BY Lineage
      <4>3. m = n
        BY <3>2, <4>1, <4>2
      <4>4. QED
        BY <3>1, <4>3
    <3>5. QED
      BY <3>3, <3>4
  <2>2. QED
    BY <2>1 DEF OutermostCut
<1>9. OwnDeadlineCut'
  <2>1. ASSUME NEW m \in Nodes, OnPath(m)', cause'[m] # None, cause'[m].by = m
        PROVE  (Cut(m) \/ (m = Root /\ at[m] \in {"open", "over"}))'
    <3>1. CASE cause'[m] = cause[m]
      <4>1. Cut(m) \/ (m = Root /\ at[m] = "open" /\ cause[Root] # None)
        BY <1>1, <1>5, <2>1, <3>1 DEF OwnDeadlineCut, None
      <4>2. CASE Cut(m)
        BY <2>1, <4>2, CutStays
      <4>3. CASE m = Root /\ at[m] = "open" /\ cause[Root] # None
        <5>1. at'[m] = at[m]
          BY <4>3
        <5>2. QED
          BY <4>3, <5>1
      <4>4. QED
        BY <4>1, <4>2, <4>3
    <3>2. CASE cause'[m] # cause[m]
      <4>1. m \in {n} \cup Below[n] /\ by = m
        BY <1>3, <1>4, <2>1, <3>2
      <4>2. m = n
        BY <4>1
      <4>3. QED
        BY <4>1, <4>2
    <3>3. QED
      BY <3>1, <3>2
  <2>2. QED
    BY <2>1 DEF OwnDeadlineCut
<1>10. RootByItself'
  <2>1. Root \notin Below[n]
    BY TreeFacts
  <2>2. QED
    BY <1>1, <1>3, <1>4, <2>1 DEF RootByItself, None
<1>11. TimersAround' /\ DueStarted' /\ SeenOnReturn'
  <2>1. due \subseteq Nodes
    BY TreeFacts DEF Inv, TypeOK
  <2>2. QED
    BY <1>1, <1>5, <2>1 DEF TimersAround, DueStarted, SeenOnReturn, None
<1>12. QED
  BY <1>7, <1>8, <1>9, <1>10, <1>11
  DEF Cancellations, Downwards, OutermostCut, OwnDeadlineCut, RootByItself, TimersAround,
      DueStarted, SeenOnReturn, Seen

\* A cancellation reaches everything inside, and is seen from the outside in.
LEMMA CancellationsStep ==
  ASSUME Inv, Next
  PROVE  Cancellations'
<1>1. /\ outcome = None /\ Root \in Nodes /\ Root \in Waiters /\ OnPath(Root) /\ Top \in Nodes
      /\ SeenOnReturn /\ TimersAround
  BY OutcomeLast, TreeFacts, PathTop
  DEF Inv, Cancellations, SeenOnReturn, Seen, TimersAround
<1>2. ASSUME NEW c, Enters(c) PROVE Cancellations'
  BY <1>2, CancellationsEnters
<1>3. ASSUME NEW o, Leaves(Top, o) PROVE Cancellations'
  <2>1. SeenOnReturn'
    <3>1. Seen
      BY <1>3 DEF Leaves
    <3>2. ASSUME NEW w \in Waiters PROVE ~Unseen(w)'
      <4>1. w \in Nodes /\ ~Unseen(w)
        BY <3>1, TreeFacts DEF Seen
      <4>2. QED
        BY <1>3, <4>1, LeavesFacts DEF Unseen, None
    <3>3. QED
      BY <3>2 DEF SeenOnReturn, Seen
  <2>2. /\ UNCHANGED <<cause, timer, due, outcome>> /\ at'[Root] = at[Root]
        /\ \A n : OnPath(n)' => OnPath(n)
        /\ \A n \in Nodes : Started(n)' <=> Started(n)
    BY <1>1, <1>3, LeavesFacts
  <2>3. QED
    BY <1>1, <2>1, <2>2, CancellationsKept
<1>4. ASSUME NEW n \in Nodes, Abandon(n) PROVE Cancellations'
  <2>1. /\ UNCHANGED <<cause, timer, due, outcome>> /\ ret' = None
        /\ \A m : OnPath(m)' => OnPath(m)
        /\ \A m \in Nodes : Started(m)' <=> Started(m)
        /\ Root # n => at'[Root] = at[Root]
        /\ at[n] = "interrupting"
    BY <1>1, <1>4, AbandonFacts, TreeFacts
  <2>2. at[Root] = "open" => at'[Root] = "open"
    BY <2>1
  <2>3. SeenOnReturn'
    BY <2>1 DEF SeenOnReturn, None
  <2>4. QED
    BY <1>1, <2>1, <2>2, <2>3, CancellationsKept
<1>5. ASSUME Stays PROVE Cancellations'
  <2>1. /\ \A n : OnPath(n)' <=> OnPath(n)
        /\ \A n \in Nodes : Started(n)' <=> Started(n)
    BY <1>1, <1>5, StaysFacts, StaysAdvances, AdvancesFacts
  <2>2. CASE TestEnds
    <3>1. /\ UNCHANGED <<cause, timer, due>> /\ ret' = None /\ at'[Root] = "over"
          /\ \A n : OnPath(n)' => n = Root
      BY <2>1, <2>2, TestEndsFacts, PathTop DEF Inv
    <3>2. SeenOnReturn'
      BY <3>1 DEF SeenOnReturn, None
    <3>3. QED
      BY <2>1, <3>1, <3>2, CancellationsKept
  <2>3. ASSUME UNCHANGED <<cause, timer, due>>, outcome' = outcome, SeenOnReturn',
               at[Root] = "open" /\ cause[Root] # None => at'[Root] = "open" \/ Cut(Root)'
        PROVE  Cancellations'
    BY <1>1, <2>1, <2>3, CancellationsKept
  <2>4. CASE SessionCloses
    <3>1. SeenOnReturn'
      BY <2>4, SessionClosesFacts DEF SeenOnReturn, None
    <3>2. QED
      BY <2>3, <2>4, <3>1, SessionClosesFacts
  <2>5. ASSUME NEW n \in Nodes, Observe(n) PROVE Cancellations'
    <3>1. Cut(n)' /\ ret' = None /\ outcome' = outcome /\ UNCHANGED <<stack, timer, due>>
      BY <2>5, ObserveFacts DEF Cut
    <3>2. SeenOnReturn'
      BY <3>1 DEF SeenOnReturn, None
    <3>3. CASE cause' = cause
      <4>1. at[Root] = "open" => at'[Root] = "open" \/ Cut(Root)'
        BY <1>1, <2>5, <3>1, ObserveFacts
      <4>2. QED
        BY <2>3, <3>1, <3>2, <3>3, <4>1
    <3>4. CASE /\ timer[n] \in Nodes /\ cause[n] = None
               /\ CancelToken(n, Outcome("cancelled", timer[n], "timeout"))
      <4>1. /\ OnPath(n) /\ ret = None /\ \A m \in Nodes : m # n => at'[m] = at[m]
        BY <2>5, ObserveFacts
      <4>2. n = Root => timer[n] = Root
        BY <1>1 DEF TimersAround
      <4>3. timer[n] \notin Below[n]
        <5>1. timer[n] = n \/ n \in Below[timer[n]]
          BY <1>1, <2>5, <4>1 DEF TimersAround
        <5>2. QED
          BY <2>5, <3>4, <5>1, TreeFacts
      <4>4. PICK t \in Nodes : t = timer[n]
        BY <3>4
      <4>5. CancelToken(n, Outcome("cancelled", t, "timeout"))
        BY <3>1, <3>4, <4>4
      <4>6. QED
        BY <1>1, <2>1, <2>5, <3>1, <3>4, <4>1, <4>2, <4>3, <4>4, <4>5, CancellationsToken
    <3>5. QED
      BY <2>5, <3>3, <3>4, ObserveFacts
  <2>6. ASSUME NEW n \in Nodes, BodyReturns(n) PROVE Cancellations'
    <3>1. /\ UNCHANGED <<cause, timer, due>> /\ outcome' = outcome /\ ret # None /\ ret' = None
          /\ \A m \in Nodes : m # n => at'[m] = at[m]
      BY <2>6, BodyReturnsFacts
    <3>2. ~(at[Root] = "open" /\ cause[Root] # None)
      BY <1>1, <3>1 DEF SeenOnReturn, Seen, Unseen
    <3>3. SeenOnReturn'
      BY <3>1 DEF SeenOnReturn, None
    <3>4. QED
      BY <2>3, <3>1, <3>2, <3>3
  <2>7. ASSUME NEW n \in Nodes,
               \/ Closes(n) \/ ResourceOpens(n) \/ \E class \in Classes : StepFails(n, class)
        PROVE  Cancellations'
    <3>1. /\ UNCHANGED <<cause, timer, due>> /\ outcome' = outcome /\ ret' = None
          /\ at[n] # "open" /\ \A m \in Nodes : m # n => at'[m] = at[m]
      <4>1. CASE Closes(n)
        BY <2>7, <4>1, ClosesFacts
      <4>2. CASE ResourceOpens(n)
        BY <2>7, <4>2, ResourceOpensFacts
      <4>3. ASSUME NEW class \in Classes, StepFails(n, class)
            PROVE  /\ UNCHANGED <<cause, timer, due>> /\ outcome' = outcome /\ ret' = None
                   /\ at[n] # "open" /\ \A m \in Nodes : m # n => at'[m] = at[m]
        BY <2>7, <4>3, StepFailsFacts
      <4>4. QED
        BY <2>7, <4>1, <4>2, <4>3
    <3>2. SeenOnReturn'
      BY <3>1 DEF SeenOnReturn, None
    <3>3. at[Root] = "open" => at'[Root] = "open"
      BY <1>1, <3>1
    <3>4. QED
      BY <2>3, <3>1, <3>2, <3>3
  <2>8. CASE ControlCancels
    <3>1. /\ ret = None /\ ret' = None /\ at' = at /\ cause[Root] = None
          /\ at[Root] \in {"open", "interrupting"}
          /\ CancelToken(Root, Outcome("cancelled", Root, "user"))
          /\ UNCHANGED <<stack, timer, due, outcome, primary>>
      BY <2>8 DEF ControlCancels
    <3>2. Cut(Root)' \/ at'[Root] = "open"
      BY <1>1, <3>1 DEF Inv, Completions, Cut
    <3>3. Root \notin Below[Root]
      BY <1>1, TreeFacts
    <3>4. QED
      BY <1>1, <2>1, <3>1, <3>2, <3>3, CancellationsToken
  <2>9. CASE Quiet /\ ~ControlCancels
    <3>1. /\ cause' = cause /\ timer' = timer /\ outcome' = outcome /\ ret' = ret
          /\ at' = at \/ (ret = None /\ at[Top] = "before" /\ at'[Top] = "step")
          /\ \A m \in Nodes : m # Top => at'[m] = at[m]
      BY <2>9, QuietFacts
    <3>2. due \subseteq due' /\ \A n \in due' : n \in due \/ Started(n)
      <4>1. ASSUME NEW n \in Nodes, Expire(n) PROVE due' = due \cup {n} /\ Started(n)
        BY <4>1 DEF Expire, Inv, StagesFit, Gone, Started
      <4>2. QED
        BY <2>9, <4>1, QuietFacts
    <3>3. SeenOnReturn'
      <4>1. CASE ret' = None
        BY <4>1 DEF SeenOnReturn
      <4>2. CASE ret' # None
        <5>1. Seen /\ at' = at
          BY <1>1, <3>1, <4>2 DEF SeenOnReturn, None
        <5>2. ASSUME NEW w \in Waiters PROVE ~Unseen(w)'
          BY <2>1, <3>1, <5>1 DEF Seen, Unseen, None
        <5>3. QED
          BY <5>2 DEF SeenOnReturn, Seen
      <4>3. QED
        BY <4>1, <4>2
    <3>4. at[Root] = "open" => at'[Root] = "open"
      BY <1>1, <3>1
    <3>5. QED
      BY <1>1, <2>1, <3>1, <3>2, <3>3, <3>4, CancellationsKept
  <2>10. QED
    BY <1>5, <2>2, <2>4, <2>5, <2>6, <2>7, <2>8, <2>9, StaysCases
<1>6. QED
  BY <1>2, <1>3, <1>4, <1>5, Moves


-----------------------------------------------------------------------------
(* What passes ran everything in it                                        *)

\* The parts of BodiesPass, to name them.
Troubled(n) ==
  \/ n = Top /\ ret.kind \notin {"none", "passed"}
  \/ primary[n].kind \notin {"none", "passed"}
BesidePassed == \A n \in Nodes : OnPath(n) /\ cause[n] = None /\ failures = {} =>
  \/ Troubled(n)
  \/ \A c \in ToSet(Children[n]) : Started(c) /\ ~OnPath(c) => terminal[c] = "Passed"
BodyDriven == ret # None /\ Kind[Top] \in {"timeout", "resource"} => Waiting(Top) = {}
PassedRan == \A n \in Waiters :
  OnPath(n) /\ primary[n].kind = "passed" /\ failures = {} => Waiting(n) = {}
PassedInside == \A n \in Nodes :
  terminal[n] = "Passed" => \A m \in Below[n] : terminal[m] = "Passed"

LEMMA BodiesPassParts ==
  /\ BodiesPass <=> BesidePassed /\ BodyDriven /\ PassedRan /\ PassedInside
  /\ BodiesPass' <=> BesidePassed' /\ BodyDriven' /\ PassedRan' /\ PassedInside'
  BY DEF BodiesPass, BesidePassed, Troubled, BodyDriven, PassedRan, PassedInside

\* A wait that was cut short does not return a success.
LEMMA CutReturns ==
  ASSUME Inv, NEW n, NEW o, Leaves(n, o), Cut(n)
  PROVE  o.kind # "passed"
<1>1. n \in Nodes /\ Result(n, o)
  BY LeavesFacts DEF Leaves
<1>2. /\ at[n] \in {"interrupting", "closing", "releasing", "session"}
      /\ primary[n].kind \in {"interrupted", "aborted"}
  BY DEF Cut
<1>3. n \in Waiters
  <2>1. at[n] = "closing" => Kind[n] = "resource"
    BY <1>1 DEF Inv, StagesFit
  <2>2. at[n] \in {"interrupting", "releasing"} => n \in Waiters
    BY <1>1 DEF Inv, StagesFit
  <2>3. at[n] = "session" => n = Root
    BY <1>1 DEF Inv, StagesFit
  <2>4. QED
    BY <1>1, <1>2, <2>1, <2>2, <2>3, TreeFacts DEF Waiters
<1>4. o = WaitResult(n)
  BY <1>3, TreeFacts DEF Leaves, Result
<1>5. QED
  BY <1>2, <1>3, <1>4, WaitResultTrue

\* What is inside a top that nothing went wrong in and that waits for nothing passed.
LEMMA InsidePassed ==
  ASSUME Inv, cause[Top] = None, failures = {}, Waiting(Top) = {}, ~Troubled(Top)
  PROVE  \A m \in Below[Top] : terminal[m] = "Passed"
<1>1. BesidePassed /\ PassedInside /\ Top \in Nodes /\ OnPath(Top)
  BY BodiesPassParts, PathTop DEF Inv
<1>2. ASSUME NEW c \in ToSet(Children[Top]) PROVE terminal[c] = "Passed" /\ c \in Nodes
  <2>1. c \in Nodes /\ ~OnPath(c)
    BY <1>1, PathTop, TreeFacts DEF Inv
  <2>2. PICK i \in DOMAIN Children[Top] : c = Children[Top][i]
    BY DEF ToSet
  <2>3. Started(c)
    BY <2>2 DEF Waiting
  <2>4. QED
    BY <1>1, <2>1, <2>3 DEF BesidePassed
<1>3. ASSUME NEW m \in Below[Top] PROVE terminal[m] = "Passed"
  <2>1. PICK c \in ToSet(Children[Top]) : m = c \/ m \in Below[c]
    BY <1>1, Lineage
  <2>2. QED
    BY <1>1, <1>2, <2>1 DEF PassedInside
<1>4. QED
  BY <1>3

\* Whatever a node that reports Passed has inside it passed.
LEMMA LeavesPassed ==
  ASSUME Inv, NEW o, Leaves(Top, o), terminal'[Top] = "Passed"
  PROVE  \A m \in Below[Top] : terminal[m] = "Passed"
<1>1. /\ Top \in Nodes /\ Top # Root /\ OnPath(Top) /\ Result(Top, o)
      /\ terminal'[Top] = ScopeFact(Top, o, failures # {})
  BY LeavesFacts DEF Leaves
<1>2. o.kind \in OutcomeKinds \ {"none", "interrupted"}
  BY <1>1, ResultTrue
<1>3. failures = {} /\ o.kind = "passed" /\ (cause[Top] = None \/ cause[Top].by = Top)
  BY <1>1, <1>2, ScopeFactCases
<1>4. cause[Top] = None
  <2>1. cause[Top] # None => Cut(Top)
    BY <1>1, <1>3 DEF Inv, Cancellations
  <2>2. QED
    BY <1>3, <2>1, CutReturns
<1>5. BodyDriven /\ PassedRan
  BY BodiesPassParts DEF Inv
<1>6. CASE Top \in Steps
  BY <1>6, TreeFacts
<1>7. CASE Top \in Waiters
  <2>1. ret = None /\ at[Top] = "releasing" /\ o = WaitResult(Top)
    BY <1>1, <1>7, TreeFacts DEF Result
  <2>2. primary[Top].kind = "passed"
    <3>1. primary[Top].kind # "none"
      BY <1>1, <2>1 DEF Inv, Completions
    <3>2. QED
      BY <1>3, <1>7, <2>1, <3>1, WaitResultTrue
  <2>3. ~Troubled(Top)
    BY <2>1, <2>2 DEF Troubled, None
  <2>4. Waiting(Top) = {}
    BY <1>1, <1>3, <1>5, <1>7, <2>2 DEF PassedRan
  <2>5. QED
    BY <1>3, <1>4, <2>3, <2>4, InsidePassed
<1>8. CASE Top \in Nodes \ (Waiters \cup Steps)
  <2>1. ret # None /\ ~GoesOn(Top) /\ o = ret
    BY <1>1, <1>8 DEF Result
  <2>2. Kind[Top] = "sequence"
    BY <1>8, TreeAssumption DEF Waiters, Steps
  <2>3. at[Top] = "open"
    BY <1>1, <1>8, <2>1 DEF Inv, StagesFit
  <2>4. primary[Top].kind = "none"
    BY <1>1, <2>3 DEF Inv, Completions, None
  <2>5. ret = Passed
    BY <1>3, <2>1 DEF Inv, OutcomesTrue, True
  <2>6. Waiting(Top) = {}
    BY <1>3, <2>1, <2>2, <2>5 DEF GoesOn
  <2>7. ~Troubled(Top)
    BY <1>3, <2>1, <2>4 DEF Troubled
  <2>8. QED
    BY <1>3, <1>4, <2>6, <2>7, InsidePassed
<1>9. QED
  BY <1>1, <1>6, <1>7, <1>8


\* Nothing that was started is ever waited for again.
LEMMA WaitingShrinks ==
  ASSUME NEW n \in Nodes, \A m \in Nodes : Started(m) => Started(m)', Waiting(n) = {}
  PROVE  Waiting(n)' = {}
<1>1. Children[n] \in Seq(Nodes)
  BY TreeFacts
<1>2. \A i \in DOMAIN Children[n] : Children[n][i] \in Nodes
  BY <1>1
<1>3. QED
  BY <1>2 DEF Waiting

\* A token that is not cancelled after a step was not before.
LEMMA CausesStay ==
  ASSUME Inv, Stays
  PROVE  \A n \in Nodes : cause'[n] = None => cause[n] = None
<1>1. Root \in Nodes
  BY TreeFacts
<1>2. ASSUME NEW c, NEW n \in Nodes, CancelToken(n, c), NEW m \in Nodes, cause'[m] = None
      PROVE  cause[m] = None
  BY <1>2, TokenFacts
<1>3. CASE cause' = cause
  BY <1>3
<1>4. CASE ControlCancels
  BY <1>1, <1>2, <1>4 DEF ControlCancels
<1>5. ASSUME NEW n \in Nodes, Observe(n) PROVE \A m \in Nodes : cause'[m] = None => cause[m] = None
  BY <1>2, <1>3, <1>5 DEF Observe
<1>6. CASE Quiet
  BY <1>3, <1>4, <1>6, QuietFacts
<1>7. QED
  BY <1>3, <1>5, <1>6, StaysCases, TestEndsFacts, SessionClosesFacts, BodyReturnsFacts,
     ClosesFacts, ResourceOpensFacts, StepFailsFacts DEF TestEnds

\* What goes wrong at a node stays wrong, and a wait completes with a success only when
\* there is nothing left in its body.
LEMMA StaysTroubled ==
  ASSUME Inv, Stays, outcome = None, ~TestEnds
  PROVE  \A n \in Nodes :
           /\ Troubled(n) => Troubled(n)'
           /\ n \in Waiters /\ primary'[n].kind = "passed" /\ failures' = {} =>
                primary[n].kind = "passed" \/ Waiting(n) = {}
<1>1. Top' = Top /\ failures \subseteq failures' /\ None.kind = "none"
  BY StaysFacts DEF None
<1>2. ASSUME primary' = primary, ret' = ret
      PROVE  \A n \in Nodes : /\ Troubled(n) => Troubled(n)'
                              /\ primary'[n].kind = "passed" => primary[n].kind = "passed"
  BY <1>1, <1>2 DEF Troubled
<1>3. ASSUME NEW a \in Nodes, ret = None, \A m \in Nodes : m # a => primary'[m] = primary[m],
             primary'[a] = primary[a] \/ primary'[a].kind \notin {"none", "passed"}
      PROVE  \A n \in Nodes : /\ Troubled(n) => Troubled(n)'
                              /\ primary'[n].kind = "passed" => primary[n].kind = "passed"
  BY <1>1, <1>3 DEF Troubled
<1>4. CASE SessionCloses \/ Quiet
  BY <1>2, <1>4, SessionClosesFacts, QuietFacts
<1>5. ASSUME NEW a \in Nodes, Observe(a)
      PROVE  \A n \in Nodes : /\ Troubled(n) => Troubled(n)'
                              /\ primary'[n].kind = "passed" => primary[n].kind = "passed"
  BY <1>3, <1>5, ObserveFacts
<1>6. ASSUME NEW a \in Nodes, Closes(a) \/ ResourceOpens(a) \/ \E class \in Classes : StepFails(a, class)
      PROVE  \A n \in Nodes : /\ Troubled(n) => Troubled(n)'
                              /\ primary'[n].kind = "passed" => primary[n].kind = "passed"
  <2>1. CASE Closes(a)
    BY <1>3, <2>1, ClosesFacts
  <2>2. CASE ResourceOpens(a)
    BY <1>3, <2>2, ResourceOpensFacts
  <2>3. ASSUME NEW class \in Classes, StepFails(a, class)
        PROVE  \A n \in Nodes : /\ Troubled(n) => Troubled(n)'
                                /\ primary'[n].kind = "passed" => primary[n].kind = "passed"
    BY <1>3, <2>3, StepFailsFacts
  <2>4. QED
    BY <1>6, <2>1, <2>2, <2>3
<1>7. ASSUME NEW a \in Nodes, BodyReturns(a), NEW n \in Nodes
      PROVE  /\ Troubled(n) => Troubled(n)'
             /\ n \in Waiters /\ primary'[n].kind = "passed" /\ failures' = {} =>
                  primary[n].kind = "passed" \/ Waiting(n) = {}
  <2>1. /\ a = Top /\ a \in Waiters /\ ret # None /\ ~GoesOn(a) /\ OnPath(a)
        /\ at[a] \in {"interrupting", "open"}
    BY <1>7, BodyReturnsFacts
  <2>2. CASE n # a
    BY <1>7, <2>1, <2>2, BodyReturnsFacts DEF Troubled
  <2>3. CASE n = a /\ at[a] = "open"
    <3>1. primary'[a] = ret /\ primary[a].kind = "none"
      BY <1>1, <1>7, <2>3, BodyReturnsFacts DEF Inv, Completions
    <3>2. Troubled(n) => Troubled(n)'
      BY <2>3, <3>1 DEF Troubled
    <3>3. ASSUME ret.kind = "passed", failures' = {} PROVE Waiting(a) = {}
      <4>1. ret = Passed /\ failures = {}
        BY <1>1, <3>3 DEF Inv, OutcomesTrue, True
      <4>2. Kind[a] = "test" => Waiting(a) = {}
        BY <2>1, <4>1 DEF GoesOn
      <4>3. Kind[a] \in {"timeout", "resource"} => Waiting(a) = {}
        BY <2>1, BodiesPassParts DEF Inv, BodyDriven
      <4>4. QED
        BY <2>1, <4>2, <4>3 DEF Waiters
    <3>4. QED
      BY <2>3, <3>1, <3>2, <3>3
  <2>4. CASE n = a /\ at[a] = "interrupting"
    <3>1. primary[a].kind = "interrupted"
      BY <2>4 DEF Inv, Completions
    <3>2. primary'[a].kind \in {"interrupted", "aborted"}
      BY <1>7, <2>4, <3>1, BodyReturnsFacts
    <3>3. QED
      BY <2>4, <3>2 DEF Troubled
  <2>5. QED
    BY <2>1, <2>2, <2>3, <2>4
<1>8. QED
  BY <1>4, <1>2, <1>5, <1>6, <1>7, StaysCases, SessionClosesFacts, QuietFacts


\* While nothing goes wrong on the path, what ends beside it passes.
LEMMA BesidePassedStep ==
  ASSUME Inv, Next
  PROVE  BesidePassed'
<1>1. /\ outcome = None /\ BesidePassed /\ Top \in Nodes /\ OnPath(Top) /\ Root \in Nodes
      /\ OutermostCut
  BY OutcomeLast, PathTop, BodiesPassParts, TreeFacts DEF Inv, Cancellations, OutermostCut
<1>2. ASSUME NEW c, Enters(c) PROVE BesidePassed'
  <2>1. ret.kind \in {"none", "passed"}
    BY <1>2 DEF Enters, Passed, None, Outcome
  <2>2. ASSUME NEW n \in Nodes, OnPath(n)', cause'[n] = None, failures' = {}
        PROVE  \/ Troubled(n)'
               \/ \A k \in ToSet(Children[n]) : Started(k)' /\ ~OnPath(k)' => terminal'[k] = "Passed"
    <3>1. \A k \in ToSet(Children[n]) : k \in Nodes /\ k \in Below[n]
      BY TreeFacts
    <3>2. CASE n = c
      <4>1. \A k \in ToSet(Children[n]) : ~Started(k)'
        BY <1>2, <3>1, <3>2, EntersFacts DEF Started
      <4>2. QED
        BY <4>1
    <3>3. CASE n # c
      <4>1. OnPath(n) /\ cause[n] = None /\ failures = {}
        BY <1>2, <2>2, <3>3, EntersFacts
      <4>2. Troubled(n) => primary[n].kind \notin {"none", "passed"}
        BY <2>1 DEF Troubled
      <4>3. CASE Troubled(n)
        BY <1>2, <4>2, <4>3, EntersFacts DEF Troubled
      <4>4. CASE \A k \in ToSet(Children[n]) : Started(k) /\ ~OnPath(k) => terminal[k] = "Passed"
        BY <1>2, <3>1, <4>4, EntersFacts
      <4>5. QED
        BY <1>1, <4>1, <4>3, <4>4 DEF BesidePassed
    <3>4. QED
      BY <3>2, <3>3
  <2>3. QED
    BY <2>2 DEF BesidePassed
<1>3. ASSUME NEW o, Leaves(Top, o) PROVE BesidePassed'
  <2>1. ASSUME NEW n \in Nodes, OnPath(n)', cause'[n] = None, failures' = {}
        PROVE  \/ Troubled(n)'
               \/ \A k \in ToSet(Children[n]) : Started(k)' /\ ~OnPath(k)' => terminal'[k] = "Passed"
    <3>1. \A k \in ToSet(Children[n]) : k \in Nodes /\ k \in Below[n]
      BY TreeFacts
    <3>2. OnPath(n) /\ n # Top /\ cause[n] = None /\ failures = {} /\ Top \in Nodes /\ Top' \in Nodes
      BY <1>3, <2>1, LeavesFacts
    <3>3. CASE Troubled(n)
      BY <1>3, <3>2, <3>3, LeavesFacts DEF Troubled
    <3>4. ASSUME \A k \in ToSet(Children[n]) : Started(k) /\ ~OnPath(k) => terminal[k] = "Passed",
                 NEW k \in ToSet(Children[n]), Started(k)', ~OnPath(k)', terminal'[k] # "Passed"
          PROVE  Troubled(n)'
      <4>1. k = Top
        <5>1. k # Top => terminal[k] = "Passed"
          BY <1>3, <3>1, <3>4, LeavesFacts
        <5>2. QED
          BY <1>3, <3>1, <3>4, <5>1, LeavesFacts
      <4>2. n = Top'
        BY <1>3, <3>2, <4>1, LeavesFacts, OneParent
      <4>3. ret' = o /\ terminal'[Top] = ScopeFact(Top, o, failures # {})
        BY <1>3, LeavesFacts
      <4>4. o.kind \in OutcomeKinds \ {"none", "interrupted"}
        BY <1>3, <3>2, ResultTrue DEF Leaves
      <4>5. o.kind # "passed"
        <5>1. CASE cause[Top] = None
          BY <3>2, <3>4, <4>1, <4>3, <4>4, <5>1, ScopeFactCases
        <5>2. CASE cause[Top] # None
          <6>1. Cut(Top)
            BY <1>1, <3>2, <3>4, <4>1, <5>2 DEF OutermostCut
          <6>2. QED
            BY <1>3, <6>1, CutReturns
        <5>3. QED
          BY <5>1, <5>2
      <4>6. QED
        BY <4>2, <4>3, <4>4, <4>5 DEF Troubled
    <3>5. QED
      BY <1>1, <3>2, <3>3, <3>4 DEF BesidePassed
  <2>2. QED
    BY <2>1 DEF BesidePassed
<1>4. ASSUME NEW n \in Nodes, Abandon(n) PROVE BesidePassed'
  BY <1>4, AbandonFacts DEF BesidePassed
<1>5. CASE Stays
  <2>1. /\ \A n \in Nodes : cause'[n] = None => cause[n] = None
        /\ \A n : OnPath(n)' <=> OnPath(n)
        /\ \A n \in Nodes : Started(n)' <=> Started(n)
        /\ failures \subseteq failures'
    BY <1>1, <1>5, CausesStay, StaysFacts, StaysAdvances, AdvancesFacts
  <2>2. \A n \in Nodes : terminal[n] = "Passed" /\ n # Root => terminal'[n] = "Passed"
    <3>1. CASE TestEnds
      BY <3>1, TestEndsFacts
    <3>2. CASE ~TestEnds
      BY <1>1, <1>5, <3>2, StaysAdvances
    <3>3. QED
      BY <3>1, <3>2
  <2>3. \A n \in Nodes : Troubled(n) => Troubled(n)'
    <3>1. CASE TestEnds
      <4>1. Top' = Top /\ ret' = ret /\ primary' = primary
        BY <1>5, <3>1, StaysFacts DEF TestEnds
      <4>2. QED
        BY <4>1 DEF Troubled
    <3>2. CASE ~TestEnds
      BY <1>1, <1>5, <3>2, StaysTroubled
    <3>3. QED
      BY <3>1, <3>2
  <2>4. ASSUME NEW n \in Nodes, OnPath(n)', cause'[n] = None, failures' = {}
        PROVE  \/ Troubled(n)'
               \/ \A k \in ToSet(Children[n]) : Started(k)' /\ ~OnPath(k)' => terminal'[k] = "Passed"
    <3>1. \A k \in ToSet(Children[n]) : k \in Nodes /\ k # Root
      BY TreeFacts
    <3>2. OnPath(n) /\ cause[n] = None /\ failures = {}
      BY <2>1, <2>4
    <3>3. CASE Troubled(n)
      BY <2>3, <3>3
    <3>4. CASE \A k \in ToSet(Children[n]) : Started(k) /\ ~OnPath(k) => terminal[k] = "Passed"
      BY <2>1, <2>2, <3>1, <3>4
    <3>5. QED
      BY <1>1, <3>2, <3>3, <3>4 DEF BesidePassed
  <2>5. QED
    BY <2>4 DEF BesidePassed
<1>6. QED
  BY <1>2, <1>3, <1>4, <1>5, Moves

\* The body of a timeout or a resource scope is all there is in it.
LEMMA BodyDrivenStep ==
  ASSUME Inv, Next
  PROVE  BodyDriven'
<1>1. outcome = None /\ BodyDriven
  BY OutcomeLast, BodiesPassParts DEF Inv
<1>2. ASSUME NEW c, Enters(c) PROVE BodyDriven'
  BY <1>2, EntersFacts DEF BodyDriven
<1>3. ASSUME NEW o, Leaves(Top, o) PROVE BodyDriven'
  <2>1. ASSUME Kind[Top'] \in {"timeout", "resource"} PROVE Waiting(Top)' = {}
    <3>1. PICK p \in Nodes : p = Top'
      BY <1>3, LeavesFacts
    <3>2. Top \in ToSet(Children[p]) /\ at'[Top] = "over" /\ Kind[p] \in {"timeout", "resource"}
      BY <1>3, <2>1, <3>1, LeavesFacts
    <3>3. Len(Children[p]) = 1 /\ Children[p] \in Seq(Nodes)
      BY <3>2, TreeAssumption
    <3>4. \A i \in DOMAIN Children[p] : Children[p][i] = Top
      BY <3>2, <3>3 DEF ToSet
    <3>5. \A i \in DOMAIN Children[p] : at'[Children[p][i]] # "idle"
      BY <3>2, <3>4
    <3>6. \A i \in DOMAIN Children[Top'] : at'[Children[Top'][i]] # "idle"
      BY <3>1, <3>5
    <3>7. QED
      BY <3>6 DEF Waiting, Started
  <2>2. QED
    BY <2>1 DEF BodyDriven
<1>4. ASSUME NEW n \in Nodes, Abandon(n) PROVE BodyDriven'
  BY <1>4, AbandonFacts DEF BodyDriven
<1>5. CASE Stays
  <2>1. ret' = None \/ (ret' = ret /\ at' = at)
    BY <1>1, <1>5, StaysAdvances
  <2>2. Top' = Top
    BY <1>5, StaysFacts
  <2>3. ASSUME ret' = ret, at' = at PROVE BodyDriven'
    BY <1>1, <2>2, <2>3 DEF BodyDriven, Waiting, Started
  <2>4. QED
    BY <2>1, <2>3 DEF BodyDriven
<1>6. QED
  BY <1>2, <1>3, <1>4, <1>5, Moves

\* A wait that completes with a success has driven its whole body.
LEMMA PassedRanStep ==
  ASSUME Inv, Next
  PROVE  PassedRan'
<1>1. outcome = None /\ PassedRan /\ Waiters \subseteq Nodes /\ None.kind = "none"
  BY OutcomeLast, BodiesPassParts, TreeFacts DEF Inv, None
<1>2. ASSUME \A n \in Nodes : Started(n) => Started(n)',
             \A n \in Waiters : OnPath(n)' /\ primary'[n].kind = "passed" /\ failures' = {} =>
               Waiting(n) = {}
      PROVE  PassedRan'
  BY <1>1, <1>2, WaitingShrinks DEF PassedRan
<1>3. ASSUME NEW c, Enters(c) PROVE PassedRan'
  <2>1. primary'[c].kind = "none"
    BY <1>1, <1>3, EntersFacts DEF Enters, Inv, Completions
  <2>2. ASSUME NEW n \in Waiters, OnPath(n)', primary'[n].kind = "passed", failures' = {}
        PROVE  Waiting(n) = {}
    BY <1>1, <1>3, <2>1, <2>2, EntersFacts DEF PassedRan
  <2>3. \A n \in Nodes : Started(n) => Started(n)'
    BY <1>3, EntersFacts
  <2>4. QED
    BY <1>2, <2>2, <2>3
<1>4. ASSUME NEW o, Leaves(Top, o) PROVE PassedRan'
  BY <1>1, <1>2, <1>4, LeavesFacts DEF PassedRan
<1>5. ASSUME NEW n \in Nodes, Abandon(n) PROVE PassedRan'
  BY <1>5, AbandonFacts DEF PassedRan
<1>6. CASE Stays
  <2>1. /\ \A n : OnPath(n)' <=> OnPath(n)
        /\ \A n \in Nodes : Started(n)' <=> Started(n)
        /\ failures \subseteq failures'
    BY <1>1, <1>6, StaysFacts, StaysAdvances, AdvancesFacts
  <2>2. ASSUME NEW n \in Waiters, OnPath(n)', primary'[n].kind = "passed", failures' = {}
        PROVE  Waiting(n) = {}
    <3>1. OnPath(n) /\ failures = {} /\ n \in Nodes
      BY <1>1, <2>1, <2>2
    <3>2. primary[n].kind = "passed" \/ Waiting(n) = {}
      <4>1. CASE TestEnds
        BY <2>2, <4>1 DEF TestEnds
      <4>2. CASE ~TestEnds
        BY <1>1, <1>6, <2>2, <3>1, <4>2, StaysTroubled
      <4>3. QED
        BY <4>1, <4>2
    <3>3. QED
      BY <1>1, <3>1, <3>2 DEF PassedRan
  <2>3. QED
    BY <1>2, <2>1, <2>2
<1>7. QED
  BY <1>3, <1>4, <1>5, <1>6, Moves

\* So does a test that reports Passed.
LEMMA RootPassed ==
  ASSUME Inv, TestEnds, terminal'[Root] = "Passed"
  PROVE  \A m \in Below[Root] : terminal[m] = "Passed"
<1>1. /\ Top = Root /\ at[Root] = "session" /\ Root \in Nodes /\ Root \in Waiters /\ ret = None
      /\ OnPath(Root) /\ outcome'.kind \in OutcomeKinds \ {"none", "interrupted"}
      /\ terminal'[Root] = RootFact(outcome')
      /\ outcome' = IF failures = {} THEN Provisional ELSE [Provisional EXCEPT !.kind = "aborted"]
  BY TestEndsFacts, TreeFacts, PathTop DEF Inv
<1>2. failures = {} /\ outcome'.kind = "passed" /\ (cause[Root] = None \/ cause[Root].by = Root)
  <2>1. PICK o : o = outcome'
    OBVIOUS
  <2>2. RootFact(o) = "Passed" /\ o.kind \in OutcomeKinds \ {"none", "interrupted"}
    BY <1>1, <2>1
  <2>3. o.kind = "passed"
    BY <2>2, RootFactCases
  <2>4. failures # {} => outcome'.kind = "aborted"
    <3>1. Provisional \in Outcomes
      BY <1>1, ProvisionalTrue
    <3>2. QED
      BY <1>1, <3>1 DEF Outcomes
  <2>5. cause[Root] = None \/ cause[Root].by = Root
    BY DEF Inv, Cancellations
  <2>6. QED
    BY <2>1, <2>3, <2>4, <2>5
<1>3. primary[Root].kind = "passed"
  BY <1>1, <1>2, ProvisionalTrue
<1>4. cause[Root] = None
  <2>1. cause[Root] # None => Cut(Root)
    BY <1>1, <1>2 DEF Inv, Cancellations
  <2>2. QED
    BY <1>3, <2>1 DEF Cut
<1>5. Waiting(Root) = {}
  BY <1>1, <1>2, <1>3, BodiesPassParts DEF Inv, PassedRan
<1>6. ~Troubled(Top)
  BY <1>1, <1>3 DEF Troubled, None
<1>7. QED
  BY <1>1, <1>2, <1>4, <1>5, <1>6, InsidePassed


\* Whatever is inside a node that reports Passed reports Passed.
LEMMA PassedInsideStep ==
  ASSUME Inv, Next
  PROVE  PassedInside'
<1>1. /\ outcome = None /\ PassedInside /\ PassedRan /\ Top \in Nodes
  BY OutcomeLast, PathTop, BodiesPassParts DEF Inv
<1>2. ASSUME terminal' = terminal PROVE PassedInside'
  BY <1>1, <1>2 DEF PassedInside
<1>3. ASSUME NEW c, Enters(c) PROVE PassedInside'
  BY <1>2, <1>3, EntersFacts
<1>4. ASSUME NEW o, Leaves(Top, o) PROVE PassedInside'
  <2>1. \A m \in Nodes : terminal[m] = "Passed" => terminal'[m] = "Passed"
    BY <1>4, LeavesFacts
  <2>2. ASSUME NEW n \in Nodes, terminal'[n] = "Passed", NEW m \in Below[n]
        PROVE  terminal'[m] = "Passed"
    <3>1. m \in Nodes
      BY TreeFacts
    <3>2. CASE n = Top
      BY <1>4, <2>1, <2>2, <3>1, <3>2, LeavesPassed
    <3>3. CASE n # Top
      <4>1. terminal[n] = "Passed"
        BY <1>4, <2>2, <3>3, LeavesFacts
      <4>2. QED
        BY <1>1, <2>1, <3>1, <4>1 DEF PassedInside
    <3>4. QED
      BY <3>2, <3>3
  <2>3. QED
    BY <2>2 DEF PassedInside
<1>5. ASSUME NEW n \in Nodes, Abandon(n) PROVE PassedInside'
  BY <1>2, <1>5, AbandonFacts
<1>6. CASE TestEnds
  <2>1. \A m \in Nodes : terminal[m] = "Passed" /\ m # Root => terminal'[m] = "Passed"
    BY <1>6, TestEndsFacts
  <2>2. ASSUME NEW n \in Nodes, terminal'[n] = "Passed", NEW m \in Below[n]
        PROVE  terminal'[m] = "Passed"
    <3>1. m \in Nodes /\ m # Root
      BY TreeFacts
    <3>2. CASE n = Root
      <4>1. \A k \in Below[Root] : terminal[k] = "Passed"
        BY <1>6, <2>2, <3>2, RootPassed
      <4>2. QED
        BY <2>1, <2>2, <3>1, <3>2, <4>1
    <3>3. CASE n # Root
      <4>1. terminal[n] = "Passed"
        BY <1>6, <2>2, <3>3, TestEndsFacts
      <4>2. QED
        BY <1>1, <2>1, <3>1, <4>1 DEF PassedInside
    <3>4. QED
      BY <3>2, <3>3
  <2>3. QED
    BY <2>2 DEF PassedInside
<1>7. CASE Stays /\ ~TestEnds
  BY <1>1, <1>2, <1>7, StaysAdvances
<1>8. QED
  BY <1>3, <1>4, <1>5, <1>6, <1>7, Moves

\* What passes ran everything in it.
LEMMA BodiesPassStep ==
  ASSUME Inv, Next
  PROVE  BodiesPass'
  BY BesidePassedStep, BodyDrivenStep, PassedRanStep, PassedInsideStep, BodiesPassParts

-----------------------------------------------------------------------------
(* The outcome of the test                                                 *)

\* Only the end of the test has an outcome, which is true and keeps the first failure.
LEMMA VerdictStep ==
  ASSUME Inv, Next
  PROVE  Verdict'
<1>1. outcome = None /\ None.kind = "none"
  BY OutcomeLast DEF None
<1>2. ASSUME outcome' = None PROVE Verdict'
  BY <1>1, <1>2 DEF Verdict, FirstFailureDecides
<1>3. CASE TestEnds
  <2>1. /\ Top = Root /\ at[Root] = "session" /\ ret = None /\ Root \in Nodes
        /\ outcome' = IF failures = {} THEN Provisional ELSE [Provisional EXCEPT !.kind = "aborted"]
        /\ terminal'[Root] = RootFact(outcome')
        /\ outcome'.kind \in OutcomeKinds \ {"none", "interrupted"}
        /\ UNCHANGED <<due, asked, failures, primary, unprovoked>>
    BY <1>3, TestEndsFacts DEF TestEnds
  <2>2. Provisional \in Outcomes
    BY <2>1, ProvisionalTrue
  <2>3. /\ outcome'.by = Provisional.by /\ outcome'.class = Provisional.class
        /\ failures = {} => outcome' = Provisional
        /\ failures # {} => outcome'.kind = "aborted"
    BY <2>1, <2>2 DEF Outcomes
  <2>4. outcome'.kind = "passed" => failures' = {} /\ terminal'[Root] = "Passed"
    <3>1. ASSUME outcome'.kind = "passed" PROVE failures = {}
      BY <2>3, <3>1
    <3>2. outcome'.kind = "passed" => RootFact(outcome') = "Passed"
      BY <2>1, RootFactCases
    <3>3. QED
      BY <2>1, <3>1, <3>2
  <2>5. outcome'.kind = "timedout" => outcome'.by \in due'
    BY <2>1, <2>3, ProvisionalTrue
  <2>6. outcome'.kind = "cancelled" => \/ outcome'.class = "user" /\ asked'
                                       \/ outcome'.class = "timeout" /\ due' # {}
    BY <2>1, <2>3, ProvisionalTrue
  <2>7. ASSUME NEW n \in unprovoked PROVE outcome'.by = n /\ outcome'.kind \in {"failed", "aborted"}
    <3>1. first.kind = "failed" /\ first.by = n /\ first # None
      BY <1>1, <2>7 DEF Inv, Unprovoked
    <3>2. QED
      BY <2>1, <2>3, <3>1, ProvisionalTrue
  <2>8. ASSUME NEW n \in Waiters, primary[n].kind = "aborted" PROVE outcome'.kind = "aborted"
    <3>1. CASE failures # {}
      BY <2>3, <3>1
    <3>2. CASE failures = {}
      <4>1. /\ first = None \/ first.kind = "aborted"
            /\ primary[Root].kind = "aborted"
        BY <1>1, <2>1, <2>8, <3>2 DEF Inv, Aborts, Aborting
      <4>2. Provisional.kind = "aborted"
        BY <2>1, <4>1, ProvisionalTrue
      <4>3. QED
        BY <2>3, <3>2, <4>2
    <3>3. QED
      BY <3>1, <3>2
  <2>9. FirstFailureDecides'
    BY <2>1, <2>7, <2>8 DEF FirstFailureDecides
  <2>10. QED
    BY <2>4, <2>5, <2>6, <2>9 DEF Verdict
<1>4. CASE Stays /\ ~TestEnds
  BY <1>1, <1>2, <1>4, StaysAdvances
<1>5. ASSUME NEW c, Enters(c) PROVE Verdict'
  BY <1>1, <1>2, <1>5, EntersFacts
<1>6. ASSUME NEW o, Leaves(Top, o) PROVE Verdict'
  BY <1>1, <1>2, <1>6, LeavesFacts
<1>7. ASSUME NEW n \in Nodes, Abandon(n) PROVE Verdict'
  BY <1>1, <1>2, <1>7, AbandonFacts
<1>8. QED
  BY <1>3, <1>4, <1>5, <1>6, <1>7, Moves


-----------------------------------------------------------------------------
(* The theorems                                                            *)

\* A test starts with its root alone on the path, driving its body.
LEMMA InitInv ==
  ASSUME Init
  PROVE  Inv
<1>1. /\ Root \in Nodes /\ Root \in Waiters /\ Root \in Deadlines /\ Waiters \subseteq Nodes
      /\ Kind[Root] = "test" /\ Deadlines \subseteq Waiters /\ Root \notin Steps
  BY TreeFacts, TreeAssumption
<1>2. /\ stack = <<Root>> /\ ret = Passed
      /\ at \in [Nodes -> Stages] /\ at[Root] = "open" /\ \A n \in Nodes : n # Root => at[n] = "idle"
      /\ \A n \in Nodes : cause[n] = None /\ primary[n] = None
      /\ cause = [n \in Nodes |-> None] /\ primary = [n \in Nodes |-> None]
      /\ timer = [n \in Nodes |-> Root] /\ due = {} /\ late = {} /\ first = None /\ failures = {}
      /\ temp = [n \in Nodes |-> "none"] /\ terminal = [n \in Nodes |-> "none"]
      /\ \A n \in Nodes : temp[n] = "none" /\ terminal[n] = "none"
      /\ asked = FALSE /\ outcome = None /\ unprovoked = {}
  <2>1. at = [n \in Nodes |-> IF n = Root THEN "open" ELSE "idle"]
    BY DEF Init
  <2>2. at \in [Nodes -> Stages] /\ at[Root] = "open" /\ \A n \in Nodes : n # Root => at[n] = "idle"
    BY <1>1, <2>1 DEF Stages
  <2>3. QED
    BY <2>2 DEF Init
<1>3. /\ Top = Root /\ \A n : OnPath(n) <=> n = Root
  <2>1. Top = Root
    BY <1>1, <1>2 DEF Top, Last
  <2>2. \A n : OnPath(n) <=> n = Root
    BY <1>2 DEF OnPath, ToSet
  <2>3. QED
    BY <2>1, <2>2
<1>4. /\ None.kind = "none" /\ Passed.kind = "passed" /\ Passed # None
      /\ None \in Outcomes /\ Passed \in Outcomes
  BY <1>1 DEF None, Passed, Outcome, Outcomes, OutcomeKinds, OutcomeClasses
<1>5. True(None) /\ True(Passed)
  BY <1>4 DEF True
<1>6. TypeOK
  <2>1. stack \in Seq(Nodes) /\ at \in [Nodes -> Stages]
    BY <1>1, <1>2
  <2>2. timer \in [Nodes -> Deadlines] /\ due \in SUBSET Deadlines /\ late \in SUBSET Waiters
    BY <1>1, <1>2
  <2>3. failures \in SUBSET [scope : Nodes, what : {"timedout", "host", "directory", "session"}]
    BY <1>2
  <2>4. /\ temp \in [Nodes -> {"none", "owned", "released", "lost"}]
        /\ terminal \in [Nodes -> {"none", "Passed", "Failed", "TimedOut", "Cancelled", "Aborted"}]
    BY <1>2
  <2>5. asked \in BOOLEAN /\ \A n \in Nodes : cause[n] = None
    BY <1>2
  <2>6. QED
    BY <2>1, <2>2, <2>3, <2>4, <2>5 DEF TypeOK
<1>7. OutcomesTrue
  BY <1>2, <1>4, <1>5 DEF OutcomesTrue
<1>8. Path
  <2>1. stack \in Seq(Nodes) /\ stack # <<>> /\ stack[1] = Root /\ Len(stack) = 1
    BY <1>1, <1>2
  <2>2. \A n \in Nodes : \A m \in Below[n] : OnPath(m) => OnPath(n)
    BY <1>3, TreeFacts
  <2>3. QED
    BY <2>1, <2>2 DEF Path
<1>9. StagesFit
  BY <1>1, <1>2, <1>3, <1>4, TreeFacts DEF StagesFit, Gone, Started
<1>10. Terminals /\ Directories
  BY <1>2 DEF Terminals, Directories
<1>11. Cancellations
  BY <1>1, <1>2, <1>3, TreeFacts DEF Cancellations, Unseen
<1>12. Completions
  BY <1>2, <1>4 DEF Completions
<1>13. BodiesPass
  <2>1. \A n \in Nodes : \A c \in ToSet(Children[n]) : ~Started(c)
    BY <1>2, TreeFacts DEF Started
  <2>2. QED
    BY <1>1, <1>2, <1>3, <1>4, <2>1 DEF BodiesPass
<1>14. Unwinds /\ Unprovoked
  BY <1>2 DEF Unwinds, Unprovoked
<1>15. Aborts
  BY <1>1, <1>2, <1>3, <1>4 DEF Aborts, Aborting
<1>16. Verdict
  BY <1>2, <1>4 DEF Verdict, FirstFailureDecides
<1>17. QED
  BY <1>6, <1>7, <1>8, <1>9, <1>10, <1>11, <1>12, <1>13, <1>14, <1>15, <1>16 DEF Inv

LEMMA InvNext ==
  ASSUME Inv, Next
  PROVE  Inv'
BY TypeOKStep, OutcomesTrueStep, PathStep, StagesFitStep, TerminalsStep, DirectoriesStep,
   CancellationsStep, CompletionsStep, BodiesPassStep, UnwindsStep, UnprovokedStep, AbortsStep,
   VerdictStep DEF Inv

LEMMA InvStutters ==
  ASSUME Inv, UNCHANGED vars
  PROVE  Inv'
<1>1. /\ stack' = stack /\ ret' = ret /\ at' = at /\ cause' = cause /\ timer' = timer /\ due' = due
      /\ late' = late /\ primary' = primary /\ first' = first /\ failures' = failures
      /\ temp' = temp /\ terminal' = terminal /\ asked' = asked /\ outcome' = outcome
      /\ unprovoked' = unprovoked
  BY DEF vars
<1>2. /\ Top' = Top /\ \A n : OnPath(n)' <=> OnPath(n)
  BY <1>1 DEF Top, OnPath
<1>3. /\ \A n : Started(n)' <=> Started(n)
      /\ \A n : Unseen(n)' <=> Unseen(n)
      /\ \A n : Cut(n)' <=> Cut(n)
      /\ \A n : Waiting(n)' = Waiting(n)
      /\ \A o : True(o)' <=> True(o)
  BY <1>1 DEF Started, Unseen, OnPath, Cut, Waiting, True
<1>4. QED
  BY <1>1 DEF Inv, TypeOK, OutcomesTrue, True, Path, StagesFit, Terminals, Directories,
    Cancellations, Completions, BodiesPass, Unwinds, Unprovoked, Aborts, Aborting, Verdict,
    FirstFailureDecides, Top, OnPath, Started, Unseen, Cut, Waiting

\* The invariant holds in every state of every test.
THEOREM Invariance == Spec => []Inv
<1>1. Init => Inv
  BY InitInv
<1>2. Inv /\ [Next]_vars => Inv'
  BY InvNext, InvStutters
<1>3. QED
  BY <1>1, <1>2, PTL DEF Spec

\* Every variable has its type: the path is one of the plan's nodes, every node is at a
\* stage there is, and every scope is bounded by a test's or a timeout's deadline.
THEOREM TypeCorrect == Spec => []TypeOK
<1>1. Inv => TypeOK
  BY DEF Inv
<1>2. QED
  BY <1>1, Invariance, PTL

\* When a scope reports its end, in a branch that cleanup.rs or temporary.rs tore down or
\* that a wait dropped, every scope started inside it has reported too, nothing inside is
\* suspended, and each directory that was handed over is released or its loss recorded.
THEOREM NothingStaysBehind == Spec => []NothingLeftBehind
<1>1. Inv => NothingLeftBehind
  <2>1. SUFFICES ASSUME Inv, NEW n \in Waiters, terminal[n] # "none", NEW m \in Below[n]
                 PROVE  /\ Started(m) => terminal[m] # "none" /\ ~OnPath(m)
                        /\ temp[m] # "owned"
                        /\ temp[m] = "lost" => failures # {}
    BY DEF NothingLeftBehind
  <2>2. n \in Nodes /\ m \in Nodes /\ m # Root
    BY TreeFacts
  <2>3. Started(m) => terminal[m] # "none"
    BY <2>1, <2>2 DEF Inv, Terminals
  <2>4. Started(m) => ~OnPath(m)
    <3>1. terminal[m] # "none" => at[m] \in {"over", "dropped"}
      BY <2>1, <2>2 DEF Inv, Terminals
    <3>2. QED
      BY <2>1, <2>2, <2>3, <3>1 DEF Inv, StagesFit, Gone
  <2>5. temp[m] # "owned"
    BY <2>1, <2>2 DEF Inv, Directories
  <2>6. temp[m] = "lost" => failures # {}
    BY <2>1, <2>2 DEF Inv, Directories
  <2>7. QED
    BY <2>3, <2>4, <2>5, <2>6
<1>2. QED
  BY <1>1, Invariance, PTL

\* A scope that reports Passed ran all of its body and all of it passed, whatever was
\* cancelled, timed out or failed to clean up elsewhere; and an outcome that names a
\* deadline or a cancellation of the test names one that happened.
THEOREM OutcomesJustified == Spec => []OutcomeJustified
<1>1. Inv => OutcomeJustified
  <2>1. SUFFICES ASSUME Inv PROVE OutcomeJustified
    OBVIOUS
  <2>2. PassedInside
    BY <2>1, BodiesPassParts DEF Inv
  <2>3. outcome.kind = "cancelled" =>
          CASE outcome.class = "user" -> asked [] outcome.class = "timeout" -> due # {}
    <3>1. outcome.kind = "cancelled" => \/ outcome.class = "user" /\ asked
                                        \/ outcome.class = "timeout" /\ due # {}
      BY <2>1 DEF Inv, Verdict
    <3>2. CASE outcome.class = "user"
      BY <3>1, <3>2
    <3>3. CASE outcome.class = "timeout"
      BY <3>1, <3>3
    <3>4. QED
      BY <3>1, <3>2, <3>3
  <2>4. QED
    BY <2>1, <2>2, <2>3 DEF Inv, Verdict, OutcomeJustified, PassedInside
<1>2. QED
  BY <1>1, Invariance, PTL

\* The first step that fails while nothing has cancelled it is the failure the test
\* reports, and an abort is never reported as anything less.
THEOREM FirstFailureKept == Spec => []FirstFailureDecides
<1>1. Inv => FirstFailureDecides
  BY DEF Inv, Verdict
<1>2. QED
  BY <1>1, Invariance, PTL
=============================================================================
