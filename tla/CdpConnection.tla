----------------------------- MODULE CdpConnection -----------------------------
(***************************************************************************)
(* The command channel to Chrome: CdpConnection of                         *)
(* crates/browser-cdp/src/connection.rs.                                   *)
(*                                                                         *)
(* Callers queue commands on a bounded channel.  One actor gives each an   *)
(* id, writes it to the socket and correlates the responses; a sweep ends  *)
(* what is overdue or was abandoned.  Chrome is external: it answers what  *)
(* it was sent, in any order, more than once, late, with the wrong         *)
(* session, or closes.  Time is the passing of each command's deadline.    *)
(***************************************************************************)
EXTENDS Naturals, Sequences, FiniteSets, Functions

CONSTANTS
  Commands,          \* calls of command_with_timeout()
  Sessions, SessionOf,
  ChannelCapacity    \* of the outgoing queue (32)

ConstantsFit ==
  /\ IsFiniteSet(Commands) /\ ChannelCapacity \in Nat \ {0}
  /\ SessionOf \in [Commands -> Sessions]

VARIABLES
  caller,    \* of each command
  due,       \* commands whose deadline has passed
  slot,      \* the oneshot of each command, as its receiver will find it
  answer,    \* what the call returned
  channel,
  actor,
  writing,   \* the id being written
  nextId,
  pending,   \* PendingCommand by id
  inFlight,
  asked,     \* requests Chrome got: [id, command]
  terminal   \* the error the actor ends with

callerVars == <<caller, due, answer>>
actorVars == <<actor, writing, nextId, pending, inFlight, asked, terminal>>
vars == <<callerVars, slot, channel, actorVars>>

NoCommand == [kind |-> "None"]
Failed(kind) == [kind |-> kind]
Result(c, s) == [kind |-> "Result", of |-> c, in |-> s]
Ends == {"CommandTimeout", "Disconnected", "Malformed", "Protocol"}
Answers == {Failed(k) : k \in Ends} \cup {Result(c, s) : c \in Commands, s \in Sessions}

N == Cardinality(Commands)

TypeOK ==
  /\ caller \in [Commands -> {"new", "sending", "waiting", "ended", "dropped"}]
  /\ due \in SUBSET Commands
  /\ slot \in [Commands -> Answers \cup {NoCommand}]
  /\ answer \in [Commands -> Answers \cup {NoCommand}]
  /\ channel \in Seq(Commands) /\ Len(channel) <= ChannelCapacity
  /\ actor \in {"select", "writing", "ending", "ended"}
  /\ nextId \in 1..(N + 1) /\ writing \in 0..N
  /\ DOMAIN pending \in SUBSET (1..N) /\ Range(pending) \subseteq Commands
  /\ inFlight \in 0..N
  /\ asked \in SUBSET [id : 1..N, command : Commands]
  /\ terminal \in {NoCommand, Failed("Disconnected"), Failed("Malformed")}

Init ==
  /\ caller = [c \in Commands |-> "new"] /\ due = {}
  /\ slot = [c \in Commands |-> NoCommand] /\ answer = [c \in Commands |-> NoCommand]
  /\ channel = <<>> /\ actor = "select" /\ writing = 0 /\ nextId = 1
  /\ pending = <<>> /\ inFlight = 0 /\ asked = {} /\ terminal = NoCommand

Without(f, ids) == Restrict(f, DOMAIN f \ ids)

-----------------------------------------------------------------------------
(* Callers                                                                 *)

Begin(c) ==
  /\ caller[c] = "new"
  /\ caller' = [caller EXCEPT ![c] = "sending"]
  /\ UNCHANGED <<due, answer, slot, channel, actorVars>>

Return(c, a) ==
  /\ caller' = [caller EXCEPT ![c] = "ended"]
  /\ answer' = [answer EXCEPT ![c] = a]

\* timeout_at() polls the send before the clock.
Send(c) ==
  /\ caller[c] = "sending" /\ actor # "ended" /\ Len(channel) < ChannelCapacity
  /\ channel' = Append(channel, c)
  /\ caller' = [caller EXCEPT ![c] = "waiting"]
  /\ UNCHANGED <<due, answer, slot, actorVars>>

SendFails(c) ==
  /\ caller[c] = "sending"
  /\ \/ actor = "ended" /\ Return(c, Failed("Disconnected"))
     \/ /\ actor # "ended" /\ Len(channel) = ChannelCapacity /\ c \in due
        /\ Return(c, Failed("CommandTimeout"))
  /\ UNCHANGED <<due, slot, channel, actorVars>>

\* The response is awaited without a clock: the actor has to come up with one.
Receive(c) ==
  /\ caller[c] = "waiting" /\ slot[c] # NoCommand
  /\ Return(c, slot[c])
  /\ UNCHANGED <<due, slot, channel, actorVars>>

\* The operation above is cancelled and drops the call.
Drop(c) ==
  /\ caller[c] \in {"sending", "waiting"}
  /\ caller' = [caller EXCEPT ![c] = "dropped"]
  /\ UNCHANGED <<due, answer, slot, channel, actorVars>>

Expire(c) ==
  /\ caller[c] # "new" /\ c \notin due
  /\ due' = due \cup {c}
  /\ UNCHANGED <<caller, answer, slot, channel, actorVars>>

-----------------------------------------------------------------------------
(* The actor                                                               *)

Take ==
  /\ actor = "select" /\ channel # <<>>
  /\ LET c == Head(channel) IN
       pending' = [i \in DOMAIN pending \cup {nextId} |-> IF i = nextId THEN c ELSE pending[i]]
  /\ channel' = Tail(channel)
  /\ inFlight' = inFlight + 1
  /\ writing' = nextId /\ nextId' = nextId + 1
  /\ actor' = "writing"
  /\ UNCHANGED <<callerVars, slot, asked, terminal>>

Request == [id |-> writing, command |-> pending[writing]]

WriteEnds ==
  /\ actor = "writing"
  /\ asked' = asked \cup {Request}
  /\ actor' = "select" /\ writing' = 0
  /\ UNCHANGED <<callerVars, slot, channel, nextId, pending, inFlight, terminal>>

\* The socket would not take it in time; Chrome may have got it all the same.
WriteTimesOut ==
  /\ actor = "writing" /\ pending[writing] \in due
  /\ asked' \in {asked, asked \cup {Request}}
  /\ slot' = [slot EXCEPT ![pending[writing]] = Failed("CommandTimeout")]
  /\ pending' = Without(pending, {writing}) /\ inFlight' = inFlight - 1
  /\ actor' = "select" /\ writing' = 0
  /\ UNCHANGED <<callerVars, channel, nextId, terminal>>

\* Mutant: the session of a response is not compared.
CorrelatedAnySession(r, session, body) ==
  CASE body = "error" -> Failed("Protocol")
    [] body = "neither" -> Failed("Malformed")
    [] body = "result" -> Result(r.command, session)

\* What a response is to the command pending under its id.
Correlated(r, session, body) ==
  CASE session # SessionOf[pending[r.id]] -> Failed("Malformed")
    [] session = SessionOf[pending[r.id]] /\ body = "error" -> Failed("Protocol")
    [] session = SessionOf[pending[r.id]] /\ body = "neither" -> Failed("Malformed")
    [] session = SessionOf[pending[r.id]] /\ body = "result" -> Result(r.command, session)

\* A response; one for an id that is not pending any more is only logged.  Chrome
\* answers in the session it was asked in, or else says something about another.
Respond(r, session, body) ==
  /\ actor = "select" /\ r.id \in DOMAIN pending
  /\ slot' = [slot EXCEPT ![pending[r.id]] = Correlated(r, session, body)]
  /\ pending' = Without(pending, {r.id}) /\ inFlight' = inFlight - 1
  /\ UNCHANGED <<callerVars, channel, actor, writing, nextId, asked, terminal>>

\* Mutant: a command nobody waits for is left alone.
ExpiredAwaited == {i \in DOMAIN pending : pending[i] \in due /\ caller[pending[i]] # "dropped"}

Expired == {i \in DOMAIN pending : pending[i] \in due \/ caller[pending[i]] = "dropped"}

\* Mutant: overdue commands are forgotten without an answer, which drops their senders.
SweepSilently ==
  /\ actor = "select" /\ Expired # {}
  /\ slot' = [c \in Commands |->
       IF \E i \in Expired : pending[i] = c THEN Failed("Disconnected") ELSE slot[c]]
  /\ pending' = Without(pending, Expired) /\ inFlight' = inFlight - Cardinality(Expired)
  /\ UNCHANGED <<callerVars, channel, actor, writing, nextId, asked, terminal>>

\* Every CORRELATION_SWEEP.
Sweep ==
  /\ actor = "select" /\ Expired # {}
  /\ slot' = [c \in Commands |->
       IF \E i \in Expired : pending[i] = c /\ caller[c] # "dropped"
       THEN Failed("CommandTimeout") ELSE slot[c]]
  /\ pending' = Without(pending, Expired) /\ inFlight' = inFlight - Cardinality(Expired)
  /\ UNCHANGED <<callerVars, channel, actor, writing, nextId, asked, terminal>>

\* The socket breaks, Chrome closes it or sends what is no protocol message, or the
\* last handle of the connection is dropped and with it every caller.
Break ==
  /\ \/ actor = "select" /\ terminal' \in {Failed("Disconnected"), Failed("Malformed")}
     \/ actor = "writing" /\ terminal' = Failed("Disconnected")
  /\ actor' = "ending" /\ writing' = 0
  /\ UNCHANGED <<callerVars, slot, channel, nextId, pending, inFlight, asked>>

\* One pending command after the other learns why.
AnswerPending(i) ==
  /\ actor = "ending"
  /\ slot' = [slot EXCEPT ![pending[i]] = terminal]
  /\ pending' = Without(pending, {i}) /\ inFlight' = inFlight - 1
  /\ UNCHANGED <<callerVars, channel, actor, writing, nextId, asked, terminal>>

\* Mutant: the queue outlives the actor.
ActorEndsKeepingQueue ==
  /\ actor = "ending" /\ DOMAIN pending = {}
  /\ actor' = "ended"
  /\ UNCHANGED <<callerVars, slot, channel, writing, nextId, pending, inFlight, asked, terminal>>

\* The queue is dropped, with the response senders of the commands in it.
ActorEnds ==
  /\ actor = "ending" /\ DOMAIN pending = {}
  /\ actor' = "ended"
  /\ slot' = [c \in Commands |-> IF c \in Range(channel) THEN Failed("Disconnected") ELSE slot[c]]
  /\ channel' = <<>>
  /\ UNCHANGED <<callerVars, writing, nextId, pending, inFlight, asked, terminal>>

-----------------------------------------------------------------------------
Writing == WriteEnds \/ WriteTimesOut
Ending == ActorEnds \/ \E i \in DOMAIN pending : AnswerPending(i)
Calling(c) == Send(c) \/ SendFails(c) \/ Receive(c)

Next ==
  \/ \E c \in Commands : Begin(c) \/ Calling(c) \/ Drop(c) \/ Expire(c)
  \/ Take \/ Writing \/ Sweep \/ Break \/ Ending
  \/ \E r \in asked, session \in Sessions, body \in {"result", "error", "neither"} :
       Respond(r, session, body)

\* The actor is scheduled and its select is fair, a write ends with its deadline at
\* the latest, and clocks advance.
Fairness ==
  /\ WF_vars(Take) /\ WF_vars(Writing) /\ WF_vars(Sweep) /\ WF_vars(Ending)
  /\ \A c \in Commands : WF_vars(Calling(c)) /\ WF_vars(Expire(c))

Spec == Init /\ [][Next]_vars
FairSpec == Spec /\ Fairness

-----------------------------------------------------------------------------
(* Properties                                                              *)

\* A result is Chrome's answer to this very command, in the command's session,
\* however late, doubled or reordered the answers are.
AnswersBelong ==
  \A c \in Commands : answer[c].kind = "Result" => answer[c] = Result(c, SessionOf[c])

\* A call says that it timed out when it did, and that the browser is gone when it is.
ErrorsHonest ==
  \A c \in Commands :
    /\ answer[c].kind = "CommandTimeout" => c \in due
    /\ answer[c].kind = "Disconnected" => terminal # NoCommand

\* A call in which nobody is interested any more leaves the table.
AbandonedForgotten ==
  \A c \in Commands : caller[c] = "dropped" ~> c \notin Range(pending)

\* Every call ends, although Chrome never answers.
EveryCallEnds == \A c \in Commands : caller[c] = "sending" ~> caller[c] \in {"ended", "dropped"}
=============================================================================
