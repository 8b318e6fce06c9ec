----------------------------- MODULE AppProvider -----------------------------
(***************************************************************************)
(* The application under test and the provider that owns it: AppProvider   *)
(* of crates/app-bridge/src/provider.rs, with the adapter "bridge" and an  *)
(* owned application on a local socket, or on TCP where there is none.     *)
(*                                                                         *)
(* The first call starts the application while it holds the mutex of the   *)
(* state; a shutdown takes the state out of the mutex and ends the         *)
(* application without it, so that a call may start another one meanwhile. *)
(* The mutex is fair: queue holds who wants it, the holder first.  A start *)
(* is named by its number; its process is external.                        *)
(***************************************************************************)
EXTENDS Naturals, Sequences, FiniteSets, SequencesExt

CONSTANTS
  Calls, Closers,   \* tasks that call, and that shut down
  MaxStarts         \* bound: processes that are spawned

VARIABLES
  at,         \* where each task is
  queue,
  state,      \* "stopped", "failed" or "bridge"
  active,     \* the start in the state
  starting,   \* the process that the holder starts, 0 before it is spawned
  socket,     \* the transport it tries: "local" or "tcp"
  process,    \* by start: "none", "running", "killed" or "gone"
  client,     \* the start whose client a call got, or whose state a closer took
  open,       \* the starts whose transport is open
  answer,     \* of each task
  transport   \* active_transport

providerVars == <<state, active, starting, socket, transport>>
vars == <<at, queue, providerVars, process, client, open, answer>>

Tasks == Calls \cup Closers
Starts == 1..MaxStarts
Spawned == {p \in Starts : process[p] # "none"}
Started == Cardinality(Spawned)

TypeOK ==
  /\ at \in [Tasks -> {"new", "locking", "binding", "accepting", "checking", "greeting", "failing",
                       "fetching", "calling", "draining", "killing", "over", "dropped"}]
  /\ state \in {"stopped", "failed", "bridge"} /\ active \in 0..MaxStarts
  /\ starting \in 0..MaxStarts /\ socket \in {"local", "tcp"}
  /\ process \in [Starts -> {"none", "running", "killed", "gone"}]
  /\ client \in [Tasks -> 0..MaxStarts] /\ open \in SUBSET Starts
  /\ answer \in [Tasks -> {"none", "result", "error", "ok"}]
  /\ transport \in {"none", "local", "tcp"}

Init ==
  /\ at = [t \in Tasks |-> "new"] /\ queue = <<>>
  /\ state = "stopped" /\ active = 0 /\ starting = 0 /\ socket = "local" /\ transport = "none"
  /\ process = [p \in Starts |-> "none"] /\ client = [t \in Tasks |-> 0] /\ open = {}
  /\ answer = [t \in Tasks |-> "none"]

Holds(t) == queue # <<>> /\ Head(queue) = t
Goes(t, where) == at' = [at EXCEPT ![t] = where]
Returns(t, a) == Goes(t, "over") /\ answer' = [answer EXCEPT ![t] = a]
Leaves(t) ==   \* the mutex, held or waited for
  queue' = IF t \notin Range(queue) THEN queue
           ELSE RemoveAt(queue, CHOOSE k \in DOMAIN queue : queue[k] = t)
Kill(p) == [process EXCEPT ![p] = IF @ = "running" THEN "killed" ELSE @]

-----------------------------------------------------------------------------
(* ensure_started()                                                        *)

Call(c) ==
  /\ at[c] = "new" /\ Goes(c, "locking") /\ queue' = Append(queue, c)
  /\ UNCHANGED <<providerVars, process, client, open, answer>>

\* Mutant: the state is looked at under the mutex, and the start done without it.
EnsureUnlocked(c) ==
  /\ at[c] = "locking" /\ Holds(c)
  /\ CASE state = "bridge" -> Goes(c, "fetching") /\ queue' = Append(Tail(queue), c) /\ UNCHANGED answer
       [] state = "failed" -> Returns(c, "error") /\ queue' = Tail(queue)
       [] state = "stopped" -> Goes(c, "binding") /\ queue' = Append(Tail(queue), c) /\ UNCHANGED answer
  /\ UNCHANGED <<providerVars, process, client, open>>

\* A failed start is for ever; one that was stopped can be repeated.  The holder keeps
\* the mutex while it starts the application, and takes it again to fetch the client.
Ensure(c) ==
  /\ at[c] = "locking" /\ Holds(c)
  /\ CASE state = "bridge" -> Goes(c, "fetching") /\ queue' = Append(Tail(queue), c) /\ UNCHANGED answer
       [] state = "failed" -> Returns(c, "error") /\ queue' = Tail(queue)
       [] state = "stopped" -> Goes(c, "binding") /\ UNCHANGED <<queue, answer>>
  /\ UNCHANGED <<providerVars, process, client, open>>

\* A local socket that cannot be had is replaced by TCP; the other errors are final.
Bind(c) ==
  /\ at[c] = "binding" /\ Started < MaxStarts
  /\ \/ /\ Goes(c, "accepting") /\ starting' = Started + 1
        /\ process' = [process EXCEPT ![Started + 1] = "running"] /\ UNCHANGED socket
     \/ socket = "local" /\ socket' = "tcp" /\ UNCHANGED <<at, starting, process>>
     \/ Goes(c, "failing") /\ UNCHANGED <<starting, process, socket>>
  /\ UNCHANGED <<queue, state, active, transport, client, open, answer>>

Accepted(c) ==
  /\ at[c] = "accepting" /\ process[starting] = "running" /\ Goes(c, "checking")
  /\ UNCHANGED <<queue, providerVars, process, client, open, answer>>

Healthy(c) ==
  /\ at[c] = "checking" /\ Goes(c, "greeting")
  /\ UNCHANGED <<queue, providerVars, process, client, open, answer>>

\* Mutant: a process is waited for until it connects or exits.
StartFailsByExit(c) ==
  /\ \/ at[c] = "accepting" /\ process[starting] = "gone"
     \/ at[c] \in {"checking", "greeting"}
  /\ Goes(c, "failing") /\ process' = Kill(starting)
  /\ UNCHANGED <<queue, providerVars, client, open, answer>>

\* It exits first, is late, or is the wrong one: it is killed.
StartFails(c) ==
  /\ at[c] \in {"accepting", "checking", "greeting"}
  /\ Goes(c, "failing") /\ process' = Kill(starting)
  /\ UNCHANGED <<queue, providerVars, client, open, answer>>

\* The wait for the killed process has a timeout.
Failed(c) ==
  /\ at[c] = "failing"
  /\ state' = "failed" /\ starting' = 0 /\ socket' = "local"
  /\ Returns(c, "error") /\ Leaves(c)
  /\ UNCHANGED <<active, transport, process, client, open>>

\* It said hello with the token and describes the functions of the manifest.
Connected(c) ==
  /\ at[c] = "greeting" /\ process[starting] = "running"
  /\ state' = "bridge" /\ active' = starting /\ transport' = socket
  /\ open' = open \cup {starting} /\ starting' = 0 /\ socket' = "local"
  /\ Goes(c, "fetching") /\ queue' = Append(Tail(queue), c)
  /\ UNCHANGED <<process, client, answer>>

-----------------------------------------------------------------------------
(* call()                                                                  *)

\* "bridge lost its active state": a shutdown came between the two locks.
Fetch(c) ==
  /\ at[c] = "fetching" /\ Holds(c) /\ queue' = Tail(queue)
  /\ IF state = "bridge"
     THEN Goes(c, "calling") /\ client' = [client EXCEPT ![c] = active] /\ UNCHANGED answer
     ELSE Returns(c, "error") /\ UNCHANGED client
  /\ UNCHANGED <<providerVars, process, open>>

\* BridgeClient: a result needs the transport; its deadline ends the call without one, and
\* may close the transport.
Answered(c) ==
  /\ at[c] = "calling"
  /\ \/ client[c] \in open /\ process[client[c]] = "running" /\ Returns(c, "result") /\ UNCHANGED open
     \/ Returns(c, "error") /\ open' \in {open, open \ {client[c]}}
  /\ UNCHANGED <<queue, providerVars, process, client>>

\* The caller is dropped; the process it was starting is killed with its handle.
Drop(c) ==
  /\ at[c] \in {"locking", "binding", "accepting", "checking", "greeting", "failing", "fetching", "calling"}
  /\ Goes(c, "dropped") /\ Leaves(c)
  /\ IF at[c] \in {"binding", "accepting", "checking", "greeting", "failing"}
     THEN /\ process' = [p \in Starts |-> IF p = starting THEN Kill(p)[p] ELSE process[p]]
          /\ starting' = 0 /\ socket' = "local"
     ELSE UNCHANGED <<process, starting, socket>>
  /\ UNCHANGED <<state, active, transport, client, open, answer>>

-----------------------------------------------------------------------------
(* shutdown()                                                              *)

Close(s) ==
  /\ at[s] = "new" /\ transport' = "none"
  /\ Goes(s, "locking") /\ queue' = Append(queue, s)
  /\ UNCHANGED <<state, active, starting, socket, process, client, open, answer>>

Take(s) ==
  /\ s \in Closers /\ at[s] = "locking" /\ Holds(s) /\ queue' = Tail(queue)
  /\ state' = "stopped" /\ active' = 0
  /\ IF state = "bridge"
     THEN Goes(s, "draining") /\ client' = [client EXCEPT ![s] = active] /\ UNCHANGED answer
     ELSE Returns(s, "ok") /\ UNCHANGED client
  /\ UNCHANGED <<starting, socket, transport, process, open>>

\* The client says goodbye, within a timeout, and closes its transport.
Drained(s) ==
  /\ at[s] = "draining" /\ Goes(s, "killing")
  /\ open' = open \ {client[s]} /\ process' = Kill(client[s])
  /\ UNCHANGED <<queue, providerVars, client, answer>>

Terminated(s) ==
  /\ at[s] = "killing" /\ \E a \in {"ok", "error"} : Returns(s, a)
  /\ UNCHANGED <<queue, providerVars, process, client, open>>

Exit(p) ==
  /\ process[p] \in {"running", "killed"} /\ process' = [process EXCEPT ![p] = "gone"]
  /\ UNCHANGED <<at, queue, providerVars, client, open, answer>>

-----------------------------------------------------------------------------
Ends(t) ==
  \/ t \in Calls /\ (Ensure(t) \/ StartFails(t) \/ Failed(t) \/ Connected(t) \/ Fetch(t) \/ Answered(t))
  \/ t \in Closers /\ (Take(t) \/ Drained(t) \/ Terminated(t))

Next ==
  \/ \E c \in Calls : Call(c) \/ Bind(c) \/ Accepted(c) \/ Healthy(c) \/ Drop(c)
  \/ \E s \in Closers : Close(s)
  \/ \E t \in Tasks : Ends(t)
  \/ \E p \in Starts : Exit(p)

\* Tasks are polled and every wait for the application has a timeout.
Fairness == \A t \in Tasks : WF_vars(Ends(t)) /\ WF_vars(t \in Calls /\ Bind(t))

Spec == Init /\ [][Next]_vars /\ Fairness

-----------------------------------------------------------------------------
(* Properties                                                              *)

\* However calls, dropped calls and shutdowns interleave, a running application is the one
\* of the state, the one being started, or one a shutdown is about to end: none is left
\* behind, and no two are in use.
OneApplication ==
  \A p \in Starts : process[p] = "running" =>
    \/ state = "bridge" /\ active = p
    \/ starting = p
    \/ \E s \in Closers : at[s] = "draining" /\ client[s] = p

\* A shutdown, and a call, wait for a start at most until it connects or times out.
ProviderAnswers == \A t \in Tasks : at[t] = "locking" ~> at[t] \in {"over", "dropped"}
=============================================================================
