----------------------------- MODULE PlanCompiler -----------------------------
(***************************************************************************)
(* From a test to its execution tree, three times over: the names of the   *)
(* source are resolved (crates/hir), the statements are checked and        *)
(* compiled (crates/analysis/compiler), the tree is validated where it is  *)
(* read (crates/plan), and it is run (crates/runtime).  Each of the four   *)
(* has its own idea of scopes, of what may be captured by a branch, of     *)
(* where a browser context comes from and of what a race branch provides.  *)
(*                                                                         *)
(* A statement is a record of its kind k and, by kind, a name, a value     *)
(* and a body of statements.  Name resolution and compilation, which never *)
(* read each other's tables, are one pass here.                            *)
(***************************************************************************)
EXTENDS ValueTypes, FiniteSets, TLC

CONSTANTS Programs,     \* the tests that are written
          MaxBranches,  \* MAX_PARALLEL_BRANCHES
          MaxPath       \* the longest path validate() accepts (128 in the code)

VARIABLES source, \* the statements of the test
          plan   \* what the compiler makes of them

vars == <<source, plan>>

Uncompiled == [errors |-> {"not compiled"}]

-----------------------------------------------------------------------------
(* The tree                                                                *)

\* The identity of a node is derived from its kind and its path.
Node(kind, path, caps, children) ==
  [kind |-> kind, path |-> path, id |-> <<kind, path>>, caps |-> caps, children |-> children,
   step |-> [op |-> "none"], result |-> 0, ty |-> Unknown]

CapsOf(children) == UNION {children[i].caps : i \in DOMAIN children}
Inner(kind, path, children) == Node(kind, path, CapsOf(children), children)
ResourceNode(path, body) == Node("resource", path, body.caps \cup {"Browser"}, <<body>>)

OperationCaps(op) ==
  CASE op = "call" -> {"Server"} [] op \in {"act", "wait"} -> {"Browser"}
    [] op = "assert" -> {"Test"} [] OTHER -> {}

StepNode(path, step) == [Node("operation", path, OperationCaps(step.op), <<>>) EXCEPT !.step = step]

\* Mutant: the children keep the paths they had.
RebasedRootOnly(node, path) == [node EXCEPT !.path = path, !.id = <<node.kind, path>>]

RECURSIVE Rebased(_, _)
Rebased(node, path) ==
  [node EXCEPT !.path = path, !.id = <<node.kind, path>>,
     !.children = [i \in DOMAIN node.children |-> Rebased(node.children[i], Append(path, i - 1))]]

WithBrowserResource(node) ==
  Inner("sequence", node.path, <<ResourceNode(Append(node.path, 0), Rebased(node, node.path \o <<0, 0>>))>>)

\* Whether the subtree needs a browser context from above; contexts are exclusive.
RECURSIVE Needs(_)
Needs(node) ==
  CASE node.kind = "operation" -> "Browser" \in node.caps
    [] node.kind = "resource" -> FALSE
    [] OTHER -> \E i \in DOMAIN node.children : Needs(node.children[i])

Conflicting(children) == Cardinality({i \in DOMAIN children : Needs(children[i])}) > 1

RECURSIVE UnsafeToRetry(_)
UnsafeToRetry(node) ==
  IF node.kind = "operation" THEN node.step.op = "act" \/ (node.step.op = "call" /\ ~node.step.safe)
  ELSE \E i \in DOMAIN node.children : UnsafeToRetry(node.children[i])

-----------------------------------------------------------------------------
(* The compiler's tables                                                   *)

\* scope and next are the resolver's: the ids of the names in view, the next id.
Empty == [scope |-> <<>>, next |-> 1, bindings |-> <<>>, names |-> {},
          concurrent |-> {}, retried |-> {}, depth |-> 0, retryDepth |-> 0,
          inRace |-> FALSE, provides |-> <<>>, steps |-> 0, required |-> {}, errors |-> {}]

Err(c, code) == [c EXCEPT !.errors = @ \cup {code}]
ErrIf(c, wrong, code) == IF wrong THEN Err(c, code) ELSE c

\* Mutant: the bindings of the body stay in view.
RestoredNamesOnly(c, outer) == [c EXCEPT !.names = outer.names]

\* What a body declares is gone after it.
Restored(c, outer) == [c EXCEPT !.scope = outer.scope, !.bindings = outer.bindings, !.names = outer.names]

\* Mutant: a retry body may capture anything.
NonTransferableNone(c) == {}

NonTransferable(c) == {id \in DOMAIN c.bindings : ~IsTransferable(c.bindings[id].ty)}

\* An expression is a literal, a name, a list of the name's value, or a call of a provider.
InferBound(id, b, domain, c) ==
  [ty |-> b.ty, reads |-> {id},
   c |-> ErrIf(ErrIf(c, id \in c.retried \cup c.concurrent, "non-transferable capture"),
               domain = "Browser" /\ b.domain = "Server" /\ ~IsTransferable(b.ty),
               "non-transferable value")]

InferId(id, domain, c) ==
  IF id \in DOMAIN c.bindings THEN InferBound(id, c.bindings[id], domain, c)
  ELSE [ty |-> Unknown, reads |-> {}, c |-> Err(c, "use before definition")]

InferName(name, domain, c) ==
  IF name \in DOMAIN c.scope THEN InferId(c.scope[name], domain, c)
  ELSE [ty |-> Unknown, reads |-> {}, c |-> Err(c, "unknown or undeclared name")]

ListOfOne(inferred) == [inferred EXCEPT !.ty = Of("List", inferred.ty)]

Infer(e, domain, c) ==
  CASE e.k = "int" -> [ty |-> Plain("Int"), reads |-> {}, c |-> c]
    [] e.k = "name" -> InferName(e.of, domain, c)
    [] e.k = "list" -> ListOfOne(InferName(e.of, domain, c))

\* Resolving and declaring: the first declaration of a name is what the name means.
Declare(c, name, ty, domain) ==
  [c EXCEPT !.scope = IF name \in DOMAIN @ THEN @ ELSE (name :> c.next) @@ @,
            !.next = @ + 1, !.names = @ \cup {name},
            !.bindings = (c.next :> [ty |-> ty, domain |-> domain]) @@ @,
            !.errors = IF name \in c.names THEN @ \cup {"duplicate binding"} ELSE @]

Numbered(c) == [c EXCEPT !.steps = @ + 1]
Requiring(c, caps) == [c EXCEPT !.required = @ \cup caps]

-----------------------------------------------------------------------------
(* Statements                                                              *)

\* Provider operations run on the server.
CompileCall(e, domain, path, c, bind) ==
  [node |-> StepNode(path, [op |-> "call", reads |-> {}, bind |-> bind, value |-> e.value,
                            safe |-> e.safe, number |-> c.steps]),
   c |-> Numbered(Requiring(ErrIf(c, domain # "Server", "capability mismatch"), {"Server"}))]

CallType(e) == IF e.value = "bytes" THEN Plain("Bytes") ELSE Plain("Int")
BoundCall(st, domain, call) == [call EXCEPT !.c = Declare(@, st.name, CallType(st.value), domain)]

\* A list is declared Json here, which accepts a list of anything.
LetType(value, ty) == IF value.k = "list" THEN Plain("Json") ELSE ty

LetValue(st, domain, path, next, value) ==
  [node |-> StepNode(path, [op |-> "eval", reads |-> value.reads, bind |-> next,
                            value |-> st.value.k, number |-> value.c.steps]),
   c |-> Numbered(Declare(ErrIf(value.c, ~Accepts(LetType(st.value, value.ty), value.ty), "type mismatch"),
                          st.name, LetType(st.value, value.ty), domain))]

CompileLet(st, domain, path, c) ==
  IF st.value.k = "call" THEN BoundCall(st, domain, CompileCall(st.value, domain, path, c, c.next))
  ELSE LetValue(st, domain, path, c.next, Infer(st.value, domain, c))

Providing(c, ty) ==
  IF c.inRace THEN [c EXCEPT !.provides = Append(@, ty)] ELSE Err(c, "provide outside race")

ProvideValue(st, path, value) ==
  [node |-> StepNode(path, [op |-> "provide", reads |-> value.reads, bind |-> 0,
                            value |-> st.value.k, ty |-> value.ty, number |-> value.c.steps]),
   c |-> Numbered(Providing(ErrIf(value.c, ~IsTransferable(value.ty), "non-transferable race result"),
                            value.ty))]

CompileProvide(st, domain, path, c) == ProvideValue(st, path, Infer(st.value, domain, c))

ExpectValue(path, value) ==
  [node |-> StepNode(path, [op |-> "assert", reads |-> value.reads, bind |-> 0, number |-> value.c.steps]),
   c |-> Numbered(Requiring(value.c, {"Test"}))]

CompileExpect(st, domain, path, c) == ExpectValue(path, Infer(st.value, domain, c))

CompileBrowserOperation(st, domain, path, c) ==
  [node |-> StepNode(path, [op |-> st.k, reads |-> {}, bind |-> 0, number |-> c.steps]),
   c |-> Numbered(Requiring(ErrIf(c, domain # "Browser", "capability mismatch"), {"Browser"}))]

\* Mutant: only a retry makes the block open one.
OwnContextInRetry(body, c) ==
  IF c.retryDepth > 0 /\ Needs(body.node) THEN [body EXCEPT !.node = WithBrowserResource(@)] ELSE body

\* A block in a branch or in an attempt opens a context of its own; elsewhere the test does.
OwnContext(body, c) ==
  IF (c.depth > 0 \/ c.retryDepth > 0) /\ Needs(body.node)
  THEN [body EXCEPT !.node = WithBrowserResource(@)] ELSE body

\* Mutant: a provide inside a timeout or a retry is overlooked.
StatementProvidesFlat(st) ==
  \/ st.k = "provide"
  \/ st.k \in {"server", "browser"} /\ \E i \in DOMAIN st.body : st.body[i].k = "provide"

\* Whether a statement provides, and what follows it is never reached.
RECURSIVE StatementProvides(_)
StatementProvides(st) ==
  \/ st.k = "provide"
  \/ st.k \in {"server", "browser", "timeout", "retry"} /\ \E i \in DOMAIN st.body : StatementProvides(st.body[i])

\* A sequence compiles its statements, and they the sequences of their blocks.
RECURSIVE CompileStatement(_, _, _, _)
Follow(sofar, st, one) ==
  [children |-> Append(sofar.children, one.node),
   c |-> ErrIf(one.c, sofar.over, "unreachable after provide"),
   over |-> sofar.over \/ StatementProvides(st)]
InSequence(path, all) == [node |-> Inner("sequence", path, all.children), c |-> all.c]
CompileSequence(statements, domain, path, c) ==
  InSequence(path,
    FoldLeft(LAMBDA sofar, i :
               Follow(sofar, statements[i],
                      CompileStatement(statements[i], domain, Append(path, i - 1), sofar.c)),
             [children |-> <<>>, c |-> c, over |-> FALSE], [i \in DOMAIN statements |-> i]))

InTimeout(path, body, c) == [node |-> Inner("timeout", path, <<body.node>>), c |-> Restored(body.c, c)]
CompileTimeout(st, domain, path, c) ==
  InTimeout(path, CompileSequence(st.body, domain, Append(path, 0), c), c)

InRetry(path, body, c) ==
  [node |-> Inner("retry", path, <<body.node>>),
   c |-> ErrIf([Restored(body.c, c) EXCEPT !.retried = c.retried, !.retryDepth = c.retryDepth],
               UnsafeToRetry(body.node), "unsafe retry")]
CompileRetry(st, domain, path, c) ==
  InRetry(path,
    CompileSequence(st.body, domain, Append(path, 0),
                    [c EXCEPT !.retried = @ \cup NonTransferable(c), !.retryDepth = @ + 1]), c)

Blocks == {"server", "browser", "timeout", "retry", "parallel", "race"}

\* Every branch, a block, starts from the same tables; only its findings outlive it.
InBranch(st, domain, sofar, one) ==
  [children |-> Append(sofar.children, one.node),
   types |-> sofar.types \o one.c.provides,
   c |-> ErrIf(ErrIf(one.c, Needs(one.node) /\ domain = "Browser", "concurrent resource conflict"),
               st.name # "" /\ one.c.provides = <<>>, "missing race result")]
CompileBranch(st, i, domain, path, sofar, c) ==
  IF st.body[i].k \notin Blocks THEN [sofar EXCEPT !.c = Err(@, "expected block")]
  ELSE InBranch(st, domain, sofar,
         CompileSequence(<<st.body[i]>>, domain, Append(path, i - 1),
           [Restored(sofar.c, c) EXCEPT !.inRace = st.k = "race", !.provides = <<>>]))

\* What the branches leave behind, and the binding of a race.
After(all, c) ==
  ErrIf([Restored(all.c, c) EXCEPT !.concurrent = c.concurrent, !.depth = c.depth,
                                   !.inRace = c.inRace, !.provides = c.provides],
        Conflicting(all.children), "concurrent resource conflict")
BoundRace(st, domain, node, after, race) ==
  [node |-> [node EXCEPT !.result = after.next, !.ty = race.ty],
   c |-> Declare(ErrIf(after, ~race.fits, "race result"), st.name, race.ty, domain)]
InConcurrent(st, domain, path, all, c) ==
  IF st.name = "" THEN [node |-> Inner(st.k, path, all.children), c |-> After(all, c)]
  ELSE BoundRace(st, domain, Inner(st.k, path, all.children), After(all, c), RaceType(all.types, {}))
CompileConcurrent(st, domain, path, c) ==
  InConcurrent(st, domain, path,
    FoldLeft(LAMBDA sofar, i : CompileBranch(st, i, domain, path, sofar, c),
             [children |-> <<>>, types |-> <<>>,
              c |-> [ErrIf(c, Len(st.body) \notin 1..MaxBranches, "branches")
                       EXCEPT !.concurrent = @ \cup NonTransferable(c), !.depth = @ + 1]],
             [i \in DOMAIN st.body |-> i]), c)

CompileStatement(st, domain, path, c) ==
  CASE st.k = "let" -> CompileLet(st, domain, path, c)
    [] st.k = "provide" -> CompileProvide(st, domain, path, c)
    [] st.k = "call" -> CompileCall(st, domain, path, c, 0)
    [] st.k = "expect" -> CompileExpect(st, domain, path, c)
    [] st.k \in {"act", "wait"} -> CompileBrowserOperation(st, domain, path, c)
    [] st.k = "server" -> CompileSequence(st.body, "Server", path, c)
    [] st.k = "browser" -> OwnContext(CompileSequence(st.body, "Browser", path, c), c)
    [] st.k = "timeout" -> CompileTimeout(st, domain, path, c)
    [] st.k = "retry" -> CompileRetry(st, domain, path, c)
    [] st.k \in {"parallel", "race"} -> CompileConcurrent(st, domain, path, c)

\* compile(): the root opens the context its body still needs.
Compiled(body) ==
  [errors |-> body.c.errors, required |-> body.c.required,
   root |-> IF Needs(body.node) THEN WithBrowserResource(body.node) ELSE body.node]
CompileTest(statements) == Compiled(CompileSequence(statements, "Pure", <<>>, Empty))

-----------------------------------------------------------------------------
(* Validation, where a plan is read                                        *)

\* Mutant: a path may be one longer.
FitsOneMore(path) == Len(path) <= MaxPath + 1

\* Only the reader of plans counts how deep a node is.
Fits(path) == Len(path) <= MaxPath

RECURSIVE Valid(_, _)
Valid(node, path) ==
  LET only == node.children IN
  /\ Fits(path) /\ node.path = path /\ node.id = <<node.kind, path>>
  /\ node.kind \in {"parallel", "race"} =>
       Len(only) \in 1..MaxBranches /\ \A i \in DOMAIN only : ~Needs(only[i])
  /\ node.kind = "retry" => ~UnsafeToRetry(only[1])
  /\ \A i \in DOMAIN only : Valid(only[i], Append(path, i - 1))
  /\ node.caps = CASE node.kind = "operation" -> OperationCaps(node.step.op)
                   [] node.kind = "resource" -> only[1].caps \cup {"Browser"}
                   [] OTHER -> CapsOf(only)

\* What a subtree provides: "invalid", "provided" or "none".
RECURSIVE Results(_, _, _)
Results(node, allowed, expected) ==
  LET Of1(i, may, ty) == Results(node.children[i], may, ty)
      All == DOMAIN node.children IN
  CASE node.kind = "operation" ->
         IF node.step.op # "provide" THEN "none"
         ELSE IF allowed /\ IsTransferable(node.step.ty) /\ Accepts(expected, node.step.ty)
              THEN "provided" ELSE "invalid"
    [] node.kind = "sequence" ->
         FoldLeft(LAMBDA s, i : IF s = "none" THEN Of1(i, allowed, expected) ELSE "invalid",
                  "none", [i \in All |-> i])
    [] node.kind \in {"retry", "timeout", "resource"} -> Of1(1, allowed, expected)
    [] node.kind = "parallel" ->
         IF \E i \in All : Of1(i, FALSE, Unknown) = "invalid" THEN "invalid" ELSE "none"
    [] node.kind = "race" ->
         LET bound == node.result # 0 IN
         IF \/ bound /\ ~IsTransferable(node.ty)
            \/ \E i \in All : Of1(i, TRUE, IF bound THEN node.ty ELSE Unknown)
                                \in {"invalid"} \cup (IF bound THEN {"none"} ELSE {})
         THEN "invalid" ELSE "none"

RECURSIVE StepNumbers(_)
StepNumbers(node) ==
  IF node.kind = "operation" THEN <<node.step.number>>
  ELSE FoldLeft(LAMBDA s, child : s \o StepNumbers(child), <<>>, node.children)

ValidTree(p) ==
  /\ p.root.kind = "sequence" /\ Valid(p.root, <<>>)
  /\ Results(p.root, FALSE, Unknown) # "invalid" /\ ~Needs(p.root)
  /\ IsInjective(StepNumbers(p.root)) /\ p.root.caps \subseteq p.required

-----------------------------------------------------------------------------
(* The run, when every step succeeds                                       *)

\* A branch holds values by id and maybe a page.  "lost" stands for a value that did not
\* cross: transferable by its type, Json, and made of one that is not.
Crossing(value) == CASE value = "plain" -> "plain" [] value \in {"hidden", "lost"} -> "lost" [] OTHER -> "bytes"

Snapshot(env) ==
  [id \in {id \in DOMAIN env : env[id] # "bytes"} |-> Crossing(env[id])]

Holding(step, env) ==
  LET read == {env[id] : id \in step.reads \cap DOMAIN env} IN
  CASE step.op = "call" -> step.value
    [] step.value = "list" -> IF read \subseteq {"plain"} THEN "plain" ELSE "hidden"
    [] OTHER -> IF read = {} THEN "plain" ELSE CHOOSE v \in read : TRUE

RunStep(step, b) ==
  LET troubles ==
        (IF step.reads \subseteq DOMAIN b.env THEN {} ELSE {"unbound"})
        \cup (IF \E id \in step.reads \cap DOMAIN b.env : b.env[id] = "lost" THEN {"lost"} ELSE {})
        \cup (IF step.op \in {"act", "wait"} /\ ~b.page THEN {"no page"} ELSE {})
        \cup (IF step.op = "provide" /\ Holding(step, b.env) # "plain" THEN {"lost"} ELSE {})
  IN [b EXCEPT !.stuck = @ \cup troubles, !.provided = step.op = "provide",
               !.env = IF step.bind = 0 THEN @ ELSE (step.bind :> Holding(step, b.env)) @@ @]

Fork(b, page) == [b EXCEPT !.env = Snapshot(b.env), !.page = page, !.provided = FALSE]

RECURSIVE Run(_, _)
Run(node, b) ==
  LET Child(i, branch) == Run(node.children[i], branch)
      forks == [i \in DOMAIN node.children |-> Child(i, Fork(b, FALSE))]
      troubles == UNION {forks[i].stuck : i \in DOMAIN forks}
  IN
  CASE node.kind = "operation" -> RunStep(node.step, b)
    [] node.kind = "sequence" ->
         FoldLeft(LAMBDA s, child : IF s.provided THEN s ELSE Run(child, s), b, node.children)
    [] node.kind = "timeout" ->
         LET inside == Child(1, b) IN
         [inside EXCEPT !.env = [id \in DOMAIN @ \cap DOMAIN b.env |-> @[id]]]
    [] node.kind = "resource" ->
         LET inside == Child(1, [b EXCEPT !.page = TRUE]) IN
         [inside EXCEPT !.page = FALSE, !.stuck = IF b.page THEN @ \cup {"two contexts"} ELSE @]
    [] node.kind = "retry" ->
         LET attempt == Child(1, Fork(b, b.page /\ Needs(node.children[1]))) IN
         [b EXCEPT !.stuck = attempt.stuck, !.provided = attempt.provided]
    [] node.kind = "parallel" -> [b EXCEPT !.stuck = @ \cup troubles]
    [] node.kind = "race" ->
         LET silent == node.result # 0 /\ \E i \in DOMAIN forks : ~forks[i].provided IN
         [b EXCEPT !.stuck = @ \cup troubles \cup (IF silent THEN {"no winner value"} ELSE {}),
                   !.env = IF node.result = 0 THEN @ ELSE (node.result :> "plain") @@ @]

Start == [env |-> <<>>, page |-> FALSE, provided |-> FALSE, stuck |-> {}]

-----------------------------------------------------------------------------

Init == source \in Programs /\ plan = Uncompiled

Compile == plan = Uncompiled /\ plan' = CompileTest(source) /\ UNCHANGED source

Spec == Init /\ [][Compile]_vars

-----------------------------------------------------------------------------
(* Properties                                                              *)

\* The longest path in a tree.
RECURSIVE Height(_)
Height(node) == FoldLeft(LAMBDA h, child : Max({h, 1 + Height(child)}), 0, node.children)

\* A test without a diagnostic compiles to a tree that every reader of plans accepts, and no
\* run of it stumbles over the tree: no value is read that no step before bound in view, no
\* browser step is without a page, no context is opened inside another, and every winner of
\* a bound race has provided.  What may be missing is a Json made of what is no JSON: its
\* type may cross into a branch and its value may not.
\*
\* The parser and the compiler bound no nesting.  A tree that is higher than the longest path
\* has no diagnostic and yet no reader: validate() refuses it, and the run of its file ends as
\* an internal error before any test starts.  Nothing else without a diagnostic is refused.
AcceptedRuns ==
  plan.errors = {} =>
    IF Height(plan.root) <= MaxPath
    THEN ValidTree(plan) /\ Run(plan.root, Start).stuck \subseteq {"lost"}
    ELSE ~ValidTree(plan)
=============================================================================
