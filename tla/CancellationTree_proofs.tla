----------------------- MODULE CancellationTree_proofs -----------------------
(***************************************************************************)
(* Proofs about CancellationTree for any number of tokens, threads, tasks  *)
(* and causes and any clock bound.                                         *)
(***************************************************************************)
EXTENDS CancellationTree, TLAPS

-----------------------------------------------------------------------------
(* The inductive invariant                                                 *)

\* A token exists before it is used, and only a created token has state.
CreationInv ==
  /\ Root \in alive
  /\ parent[Root] = None
  /\ alive \subseteq Created
  /\ \A n \in Tokens : parent[n] # None => parent[n] \in Created
  /\ \A n \in Tokens \ Created : cause[n] = None

\* A child list names children, and a token a call still has to visit is the
\* call's target or the child of a token already marked with the call's cause.
WorkInv ==
  /\ \A n \in Tokens : \A c \in children[n] : parent[c] = n
  /\ \A t \in Callers : \A c \in work[t] :
       /\ call[t].target \in Tokens /\ call[t].cause \in Causes
       /\ \/ c = call[t].target /\ c \in asked
          \/ /\ parent[c] # None
             /\ cause[parent[c]] = call[t].cause
             /\ at[parent[c]] = call[t].at

Inv ==
  /\ TypeOK
  /\ CreationInv
  /\ WorkInv
  /\ ChildAccounted
  /\ CauseFromAbove

-----------------------------------------------------------------------------
(* Type correctness                                                        *)

\* The types of TypeOK hold initially and every step keeps them.
LEMMA TypeStep == TypeOK /\ WorkInv /\ [Next]_vars => TypeOK'
<1> USE RootAssumption, NoneAssumption, TimeAssumption
<1> SUFFICES ASSUME TypeOK, WorkInv, [Next]_vars PROVE TypeOK'
  OBVIOUS
<1> USE DEF TypeOK
<1>1. CASE UNCHANGED vars
  BY <1>1 DEF vars, tokenVars, callVars, waiterVars
<1>2. ASSUME NEW n \in Tokens, NEW c \in Tokens, CreateChild(n, c) PROVE TypeOK'
  BY <1>2 DEF CreateChild, callVars, waiterVars
<1>3. ASSUME NEW n \in Tokens, Drop(n) PROVE TypeOK'
  BY <1>3 DEF Drop, callVars, waiterVars
<1>4. ASSUME NEW t \in Callers, NEW n \in Tokens, NEW k \in Causes, Cancel(t, n, k)
      PROVE TypeOK'
  BY <1>4 DEF Cancel, tokenVars, waiterVars
<1>5. ASSUME NEW t \in Callers, NEW n \in Tokens, Mark(t, n) PROVE TypeOK'
  <2>1. call[t].cause \in Causes /\ call[t].at \in 0..now
    BY <1>5 DEF Mark, WorkInv
  <2>2. QED
    BY <1>5, <2>1 DEF Mark, waiterVars
<1>6. ASSUME NEW t \in Callers, NEW n \in Tokens, SkipVisit(t, n) PROVE TypeOK'
  BY <1>6 DEF SkipVisit, tokenVars, waiterVars
<1>7. ASSUME NEW t \in Callers, NotifyWaiters(t) PROVE TypeOK'
  BY <1>7 DEF NotifyWaiters, tokenVars
<1>8. ASSUME NEW t \in Callers, Return(t) PROVE TypeOK'
  BY <1>8 DEF Return, NoCall, tokenVars, waiterVars
<1>9. ASSUME NEW w \in Waiters, NEW n \in Tokens, BeginWait(w, n) PROVE TypeOK'
  BY <1>9 DEF BeginWait, tokenVars, callVars
<1>10. ASSUME NEW w \in Waiters, WaiterStep(w) \/ Abandon(w) PROVE TypeOK'
  BY <1>10 DEF WaiterStep, Enable, SeeCause, Sleep, Wake, Abandon, tokenVars, callVars
<1>11. CASE Tick
  BY <1>11 DEF Tick, tokenVars, callVars, waiterVars
<1>12. QED
  BY <1>1, <1>2, <1>3, <1>4, <1>5, <1>6, <1>7, <1>8, <1>9, <1>10, <1>11
     DEF Next, CallerStep

-----------------------------------------------------------------------------
(* Preservation of the other parts                                         *)

\* Tokens come into being once, below a live token, without a cause of their own.
LEMMA CreationStep == TypeOK /\ CreationInv /\ [Next]_vars => CreationInv'
<1> USE RootAssumption, NoneAssumption DEF TypeOK, CreationInv, Created
<1> SUFFICES ASSUME TypeOK, CreationInv, [Next]_vars PROVE CreationInv'
  OBVIOUS
<1>1. CASE UNCHANGED vars
  BY <1>1 DEF vars, tokenVars
<1>2. ASSUME NEW n \in Tokens, NEW c \in Tokens, CreateChild(n, c) PROVE CreationInv'
  BY <1>2 DEF CreateChild
<1>3. ASSUME NEW n \in Tokens, Drop(n) PROVE CreationInv'
  BY <1>3 DEF Drop
<1>4. ASSUME NEW t \in Callers, NEW n \in Tokens, Mark(t, n) PROVE CreationInv'
  BY <1>4 DEF Mark
<1>5. CASE UNCHANGED tokenVars
  BY <1>5 DEF tokenVars
<1>6. QED
  BY <1>1, <1>2, <1>3, <1>4, <1>5
     DEF Next, CallerStep, WaiterStep, Cancel, SkipVisit, NotifyWaiters, Return, BeginWait,
         Enable, SeeCause, Sleep, Wake, Abandon, Tick

\* A call only ever owes visits to its target and to children of tokens it marked.
LEMMA WorkStep ==
  TypeOK /\ CreationInv /\ WorkInv /\ [Next]_vars => WorkInv'
<1> USE RootAssumption, NoneAssumption
<1> SUFFICES ASSUME TypeOK, CreationInv, WorkInv, [Next]_vars PROVE WorkInv'
  OBVIOUS
<1> USE DEF TypeOK, CreationInv, WorkInv, Created
<1>1. CASE UNCHANGED vars
  BY <1>1 DEF vars, tokenVars, callVars
<1>2. ASSUME NEW n \in Tokens, NEW c \in Tokens, CreateChild(n, c) PROVE WorkInv'
  <2>1. \A m \in Tokens : parent[m] # None => parent[m] # c /\ m # c
    BY <1>2 DEF CreateChild
  <2>2. \A m \in Tokens : parent[m] # None =>
          /\ parent'[m] = parent[m]
          /\ cause'[parent[m]] = cause[parent[m]]
          /\ at'[parent[m]] = at[parent[m]]
    BY <1>2, <2>1 DEF CreateChild
  <2>3. \A m \in Tokens : \A d \in children'[m] : parent'[d] = m
    BY <1>2, <2>2 DEF CreateChild
  <2>4. QED
    BY <1>2, <2>2, <2>3 DEF CreateChild, callVars
<1>3. ASSUME NEW n \in Tokens, Drop(n) PROVE WorkInv'
  BY <1>3 DEF Drop, callVars
<1>4. ASSUME NEW t \in Callers, NEW n \in Tokens, NEW k \in Causes, Cancel(t, n, k)
      PROVE WorkInv'
  <2>1. /\ call'[t] = [target |-> n, cause |-> k, at |-> now]
        /\ work'[t] = {n}
        /\ n \in asked' /\ asked \subseteq asked'
    BY <1>4 DEF Cancel
  <2>2. \A s \in Callers \ {t} : call'[s] = call[s] /\ work'[s] = work[s]
    BY <1>4 DEF Cancel
  <2>3. QED
    BY <1>4, <2>1, <2>2 DEF Cancel, tokenVars
<1>5. ASSUME NEW t \in Callers, NEW n \in Tokens, Mark(t, n) PROVE WorkInv'
  <2>1. /\ \A m \in Tokens : cause[m] # None => cause'[m] = cause[m] /\ at'[m] = at[m]
        /\ cause'[n] = call[t].cause /\ at'[n] = call[t].at
    BY <1>5 DEF Mark
  <2>2. \A c \in children[n] : parent[c] = n /\ n # None
    OBVIOUS
  <2>3. ASSUME NEW s \in Callers, NEW c \in work'[s] PROVE
          /\ call[s].target \in Tokens /\ call[s].cause \in Causes
          /\ \/ c = call[s].target /\ c \in asked
             \/ /\ parent[c] # None
                /\ cause'[parent[c]] = call[s].cause
                /\ at'[parent[c]] = call[s].at
    <3>1. CASE c \in work[s]
      BY <3>1, <2>1
    <3>2. CASE c \notin work[s]
      BY <1>5, <3>2, <2>1, <2>2 DEF Mark
    <3>3. QED
      BY <3>1, <3>2
  <2>4. \A m \in Tokens : \A d \in children'[m] : parent'[d] = m
    BY <1>5 DEF Mark
  <2>5. QED
    BY <1>5, <2>3, <2>4 DEF Mark
<1>6. ASSUME NEW t \in Callers, NEW n \in Tokens, SkipVisit(t, n) PROVE WorkInv'
  BY <1>6 DEF SkipVisit, tokenVars
<1>7. ASSUME NEW t \in Callers, Return(t) PROVE WorkInv'
  BY <1>7 DEF Return, NoCall, tokenVars
<1>8. CASE UNCHANGED <<tokenVars, call, work, asked>>
  BY <1>8 DEF tokenVars
<1>9. QED
  BY <1>1, <1>2, <1>3, <1>4, <1>5, <1>6, <1>7, <1>8
     DEF Next, CallerStep, WaiterStep, NotifyWaiters, BeginWait, callVars,
         Enable, SeeCause, Sleep, Wake, Abandon, Tick

\* No step loses a child: marking a token hands its list to the marking call.
LEMMA ChildAccountedStep ==
  TypeOK /\ CreationInv /\ WorkInv /\ ChildAccounted /\ [Next]_vars => ChildAccounted'
<1> USE RootAssumption, NoneAssumption
<1> SUFFICES ASSUME TypeOK, CreationInv, WorkInv, ChildAccounted, [Next]_vars,
                    NEW c \in alive' \ {Root}
             PROVE  IF cause'[parent'[c]] = None
                      THEN c \in children'[parent'[c]]
                      ELSE cause'[c] # None \/ \E t \in Callers : c \in work'[t]
  BY DEF ChildAccounted
<1> USE DEF TypeOK, CreationInv, ChildAccounted, Created
<1>1. CASE UNCHANGED vars
  BY <1>1 DEF vars, tokenVars, callVars
<1>2. ASSUME NEW n \in Tokens, NEW d \in Tokens, CreateChild(n, d)
      PROVE  IF cause'[parent'[c]] = None
               THEN c \in children'[parent'[c]]
               ELSE cause'[c] # None \/ \E t \in Callers : c \in work'[t]
  <2>1. CASE c = d
    BY <1>2, <2>1 DEF CreateChild
  <2>2. CASE c # d
    <3>1. c \in alive /\ parent'[c] = parent[c] /\ parent[c] # d /\ parent[c] \in Tokens
      BY <1>2, <2>2 DEF CreateChild
    <3>2. cause'[parent[c]] = cause[parent[c]] /\ cause'[c] = cause[c]
      BY <1>2, <2>2, <3>1 DEF CreateChild
    <3>3. c \in children[parent[c]] => c \in children'[parent[c]]
      BY <1>2, <3>1 DEF CreateChild
    <3>4. QED
      BY <1>2, <3>1, <3>2, <3>3 DEF CreateChild, callVars
  <2>3. QED
    BY <2>1, <2>2
<1>3. ASSUME NEW n \in Tokens, Drop(n)
      PROVE  IF cause'[parent'[c]] = None
               THEN c \in children'[parent'[c]]
               ELSE cause'[c] # None \/ \E t \in Callers : c \in work'[t]
  BY <1>3 DEF Drop, callVars
<1>4. ASSUME NEW t \in Callers, NEW n \in Tokens, NEW k \in Causes, Cancel(t, n, k)
      PROVE  IF cause'[parent'[c]] = None
               THEN c \in children'[parent'[c]]
               ELSE cause'[c] # None \/ \E s \in Callers : c \in work'[s]
  <2>1. c \in alive /\ UNCHANGED <<parent, children, cause>>
    BY <1>4 DEF Cancel, tokenVars
  <2>2. work[t] = {} => \A s \in Callers : work[s] \subseteq work'[s]
    BY <1>4 DEF Cancel
  <2>3. work[t] = {}
    BY <1>4 DEF Cancel, WorkInv
  <2>4. QED
    BY <1>4, <2>1, <2>2, <2>3 DEF Cancel
<1>5. ASSUME NEW t \in Callers, NEW n \in Tokens, Mark(t, n)
      PROVE  IF cause'[parent'[c]] = None
               THEN c \in children'[parent'[c]]
               ELSE cause'[c] # None \/ \E s \in Callers : c \in work'[s]
  <2>1. c \in alive /\ parent' = parent /\ parent[c] \in Tokens
    BY <1>5 DEF Mark
  <2>2. call[t].cause # None
    BY <1>5 DEF Mark, WorkInv
  <2>3. CASE parent[c] = n
    BY <1>5, <2>1, <2>2, <2>3 DEF Mark
  <2>4. CASE parent[c] # n
    <3>1. cause'[parent[c]] = cause[parent[c]] /\ children'[parent[c]] = children[parent[c]]
      BY <1>5, <2>1, <2>4 DEF Mark
    <3>2. cause[c] # None => cause'[c] # None
      BY <1>5, <2>2 DEF Mark
    <3>3. \A s \in Callers : c \in work[s] => c \in work'[s] \/ cause'[c] # None
      BY <1>5, <2>2 DEF Mark
    <3>4. QED
      BY <2>1, <3>1, <3>2, <3>3
  <2>5. QED
    BY <2>3, <2>4
<1>6. ASSUME NEW t \in Callers, NEW n \in Tokens, SkipVisit(t, n)
      PROVE  IF cause'[parent'[c]] = None
               THEN c \in children'[parent'[c]]
               ELSE cause'[c] # None \/ \E s \in Callers : c \in work'[s]
  BY <1>6 DEF SkipVisit, tokenVars
<1>7. CASE UNCHANGED <<tokenVars, work>>
  BY <1>7 DEF tokenVars
<1>8. QED
  BY <1>1, <1>2, <1>3, <1>4, <1>5, <1>6, <1>7
     DEF Next, CallerStep, WaiterStep, NotifyWaiters, Return, BeginWait, callVars,
         Enable, SeeCause, Sleep, Wake, Abandon, Tick

\* A token that is marked without having been asked for has a marked parent
\* with the same cause and instant.
LEMMA CauseFromAboveStep ==
  TypeOK /\ CreationInv /\ WorkInv /\ CauseFromAbove /\ [Next]_vars => CauseFromAbove'
<1> USE RootAssumption, NoneAssumption
<1> SUFFICES ASSUME TypeOK, CreationInv, WorkInv, CauseFromAbove, [Next]_vars,
                    NEW m \in Tokens, m \notin asked', cause'[m] # None
             PROVE  /\ parent'[m] # None
                    /\ cause'[m] = cause'[parent'[m]]
                    /\ at'[m] = at'[parent'[m]]
  BY DEF CauseFromAbove
<1> DEFINE Goal == /\ parent'[m] # None
                   /\ cause'[m] = cause'[parent'[m]]
                   /\ at'[m] = at'[parent'[m]]
<1> USE DEF TypeOK, CreationInv, CauseFromAbove, Created
<1>1. CASE UNCHANGED <<tokenVars, asked>>
  BY <1>1 DEF tokenVars
<1>2. ASSUME NEW n \in Tokens, NEW c \in Tokens, CreateChild(n, c) PROVE Goal
  <2>1. CASE m = c
    BY <1>2, <2>1 DEF CreateChild
  <2>2. CASE m # c
    <3>1. m \notin asked /\ cause[m] # None /\ cause'[m] = cause[m] /\ at'[m] = at[m]
      BY <1>2, <2>2 DEF CreateChild, callVars
    <3>2. parent[m] # None /\ parent'[m] = parent[m] /\ parent[m] # c
      BY <1>2, <2>2, <3>1 DEF CreateChild
    <3>3. QED
      BY <1>2, <3>1, <3>2 DEF CreateChild
  <2>3. QED
    BY <2>1, <2>2
<1>3. ASSUME NEW n \in Tokens, Drop(n) PROVE Goal
  BY <1>3 DEF Drop, callVars
<1>4. ASSUME NEW t \in Callers, NEW n \in Tokens, NEW k \in Causes, Cancel(t, n, k)
      PROVE Goal
  BY <1>4 DEF Cancel, tokenVars
<1>5. ASSUME NEW t \in Callers, NEW n \in Tokens, Mark(t, n) PROVE Goal
  <2>1. CASE m = n
    <3>1. parent[n] # None /\ cause[parent[n]] = call[t].cause /\ at[parent[n]] = call[t].at
      BY <1>5, <2>1 DEF Mark, WorkInv
    <3>2. parent[n] # n
      BY <1>5, <3>1 DEF Mark, WorkInv
    <3>3. QED
      BY <1>5, <2>1, <3>1, <3>2 DEF Mark
  <2>2. CASE m # n
    <3>1. m \notin asked /\ cause[m] # None /\ cause'[m] = cause[m] /\ at'[m] = at[m]
      BY <1>5, <2>2 DEF Mark
    <3>2. parent[m] # None /\ parent[m] # n /\ parent' = parent
      BY <1>5, <3>1 DEF Mark
    <3>3. QED
      BY <1>5, <3>1, <3>2 DEF Mark
  <2>3. QED
    BY <2>1, <2>2
<1>6. QED
  BY <1>1, <1>2, <1>3, <1>4, <1>5
     DEF Next, CallerStep, WaiterStep, SkipVisit, NotifyWaiters, Return, BeginWait, vars,
         callVars, Enable, SeeCause, Sleep, Wake, Abandon, Tick

-----------------------------------------------------------------------------
(* Waiters                                                                 *)

\* A waiter sleeps on a live token with its future enabled, and once the token has a cause it has
\* been notified or a call still owes the notification.
WaiterInv ==
  \A w \in Waiters :
    /\ awaiting[w] # None => awaiting[w] \in alive
    /\ armed[w] => awaiting[w] # None
    /\ asleep[w] => armed[w]
    /\ asleep[w] /\ cause[awaiting[w]] # None =>
         notified[w] \/ \E t \in Callers : notify[t] = awaiting[w]

\* A mark and the notification it owes come before or after the whole of enable(), look, sleep.
LEMMA WaiterInvStep == TypeOK /\ CreationInv /\ WaiterInv /\ [Next]_vars => WaiterInv'
<1> USE NoneAssumption
<1> SUFFICES ASSUME TypeOK, CreationInv, WaiterInv, [Next]_vars, NEW w \in Waiters
             PROVE  /\ awaiting'[w] # None => awaiting'[w] \in alive'
                    /\ armed'[w] => awaiting'[w] # None
                    /\ asleep'[w] => armed'[w]
                    /\ asleep'[w] /\ cause'[awaiting'[w]] # None =>
                         notified'[w] \/ \E t \in Callers : notify'[t] = awaiting'[w]
  BY DEF WaiterInv
<1> DEFINE Goal == /\ awaiting'[w] # None => awaiting'[w] \in alive'
                   /\ armed'[w] => awaiting'[w] # None
                   /\ asleep'[w] => armed'[w]
                   /\ asleep'[w] /\ cause'[awaiting'[w]] # None =>
                        notified'[w] \/ \E t \in Callers : notify'[t] = awaiting'[w]
<1> USE DEF TypeOK, WaiterInv
<1>1. CASE UNCHANGED vars
  BY <1>1 DEF vars, tokenVars, callVars, waiterVars
<1>2. ASSUME NEW n \in Tokens, NEW c \in Tokens, CreateChild(n, c) PROVE Goal
  BY <1>2 DEF CreateChild, CreationInv, callVars, waiterVars
<1>3. ASSUME NEW n \in Tokens, Drop(n) PROVE Goal
  BY <1>3 DEF Drop, callVars, waiterVars
<1>4. ASSUME NEW t \in Callers, NEW n \in Tokens, NEW k \in Causes, Cancel(t, n, k) PROVE Goal
  BY <1>4 DEF Cancel, tokenVars, waiterVars
<1>5. ASSUME NEW t \in Callers, NEW n \in Tokens, Mark(t, n) PROVE Goal
  <2>1. notify'[t] = n /\ \A u \in Callers \ {t} : notify'[u] = notify[u]
    BY <1>5 DEF Mark
  <2>2. CASE awaiting[w] = n
    BY <1>5, <2>1, <2>2 DEF Mark, waiterVars
  <2>3. CASE awaiting[w] # n
    <3>1. asleep[w] => cause'[awaiting[w]] = cause[awaiting[w]]
      BY <1>5, <2>3 DEF Mark
    <3>2. \A u \in Callers : notify[u] = awaiting[w] /\ asleep[w] => notify'[u] = awaiting[w]
      BY <1>5, <2>1 DEF Mark
    <3> QED
      BY <1>5, <3>1, <3>2 DEF Mark, waiterVars
  <2> QED
    BY <2>2, <2>3
<1>6. ASSUME NEW t \in Callers, NEW n \in Tokens, SkipVisit(t, n) PROVE Goal
  BY <1>6 DEF SkipVisit, tokenVars, waiterVars
<1>7. ASSUME NEW t \in Callers, NotifyWaiters(t) PROVE Goal
  <2>1. \A u \in Callers \ {t} : notify'[u] = notify[u]
    BY <1>7 DEF NotifyWaiters
  <2>2. notified'[w] <=> notified[w] \/ (armed[w] /\ awaiting[w] = notify[t])
    BY <1>7 DEF NotifyWaiters
  <2> QED
    BY <1>7, <2>1, <2>2 DEF NotifyWaiters, tokenVars
<1>8. ASSUME NEW t \in Callers, Return(t) PROVE Goal
  BY <1>8 DEF Return, tokenVars, waiterVars
<1>9. ASSUME NEW v \in Waiters, NEW n \in Tokens, BeginWait(v, n) PROVE Goal
  BY <1>9 DEF BeginWait, tokenVars, callVars
<1>10. ASSUME NEW v \in Waiters, WaiterStep(v) \/ Abandon(v) PROVE Goal
  <2>1. CASE v # w
    BY <1>10, <2>1 DEF WaiterStep, Enable, SeeCause, Sleep, Wake, Abandon, tokenVars, callVars
  <2>2. CASE v = w
    <3>1. CASE Enable(w)
      BY <3>1 DEF Enable, tokenVars, callVars
    <3>2. CASE SeeCause(w)
      BY <3>2 DEF SeeCause, tokenVars, callVars
    <3>3. CASE Sleep(w)
      BY <3>3 DEF Sleep, tokenVars, callVars
    <3>4. CASE Wake(w) \/ Abandon(w)
      BY <3>4 DEF Wake, Abandon, tokenVars, callVars
    <3> QED
      BY <1>10, <2>2, <3>1, <3>2, <3>3, <3>4 DEF WaiterStep
  <2> QED
    BY <2>1, <2>2
<1>11. CASE Tick
  BY <1>11 DEF Tick, tokenVars, callVars, waiterVars
<1>12. QED
  BY <1>1, <1>2, <1>3, <1>4, <1>5, <1>6, <1>7, <1>8, <1>9, <1>10, <1>11 DEF Next, CallerStep

-----------------------------------------------------------------------------
(* Theorems                                                                *)

\* The inductive invariant holds in every reachable state.
LEMMA Invariance == Spec => []Inv
<1>1. Init => Inv
  BY RootAssumption, NoneAssumption, TimeAssumption
     DEF Init, Inv, TypeOK, CreationInv, WorkInv, ChildAccounted, CauseFromAbove, Created, NoCall
<1>2. Inv /\ [Next]_vars => Inv'
  BY TypeStep, CreationStep, WorkStep, ChildAccountedStep, CauseFromAboveStep DEF Inv
<1>3. QED
  BY <1>1, <1>2, PTL DEF Spec

\* Every variable keeps its type and no token is marked in the future.
THEOREM TypeCorrect == Spec => []TypeOK
<1>1. Inv => TypeOK
  BY DEF Inv
<1>2. QED
  BY <1>1, Invariance, PTL

\* cancel(), child() and other cancel() calls never lose a child token.
THEOREM NoChildLost == Spec => []ChildAccounted
<1>1. Inv => ChildAccounted
  BY DEF Inv
<1>2. QED
  BY <1>1, Invariance, PTL

\* Cancelling a token changes nothing but its own subtree, and all of the
\* subtree shares the cause and the cleanup epoch of the call.
THEOREM OnlyDownwards == Spec => []CauseFromAbove
<1>1. Inv => CauseFromAbove
  BY DEF Inv
<1>2. QED
  BY <1>1, Invariance, PTL

\* The cause and the epoch of a token never change once they are set.
THEOREM FirstCause == Spec => FirstCauseWins
<1>1. Inv /\ [Next]_vars =>
        [\A n \in Tokens : cause[n] # None => cause'[n] = cause[n] /\ at'[n] = at[n]]_vars
  <2> SUFFICES ASSUME Inv, Next, NEW n \in Tokens, cause[n] # None
               PROVE  cause'[n] = cause[n] /\ at'[n] = at[n]
    OBVIOUS
  <2> USE DEF Inv, TypeOK, CreationInv, Created
  <2>1. ASSUME NEW m \in Tokens, NEW c \in Tokens, CreateChild(m, c)
        PROVE  cause'[n] = cause[n] /\ at'[n] = at[n]
    BY <2>1 DEF CreateChild
  <2>2. ASSUME NEW t \in Callers, NEW m \in Tokens, Mark(t, m)
        PROVE  cause'[n] = cause[n] /\ at'[n] = at[n]
    BY <2>2 DEF Mark
  <2>3. QED
    BY <2>1, <2>2
       DEF Next, CallerStep, WaiterStep, Drop, Cancel, SkipVisit, NotifyWaiters, Return,
           BeginWait, Enable, SeeCause, Sleep, Wake, Abandon, Tick, tokenVars
<1>2. QED
  BY <1>1, Invariance, PTL DEF Spec, FirstCauseWins

\* Nobody sleeps through a cancellation: a task asleep in cancelled() on a token that has a cause
\* is notified, or the cancel() that set the cause has not returned and will notify it.
THEOREM NoWakeupMissed == Spec => []WaiterInv
<1>1. Init => WaiterInv
  BY DEF Init, WaiterInv
<1>2. Inv /\ WaiterInv /\ [Next]_vars => WaiterInv'
  BY WaiterInvStep DEF Inv
<1>3. QED
  BY <1>1, <1>2, Invariance, PTL DEF Spec
=============================================================================
