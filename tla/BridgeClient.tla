----------------------------- MODULE BridgeClient -----------------------------
(***************************************************************************)
(* Calls to the application under test over a bridge: BridgeClient of      *)
(* crates/app-bridge/src/provider.rs, after its handshake.                 *)
(*                                                                         *)
(* Callers register under an id, write their frame under the mutex of the  *)
(* writer and wait for a terminal reply.  An interrupted call writes a     *)
(* cancel frame and waits on; when no reply acknowledges it in time, the   *)
(* transport is closed for everybody.  The mutex is fair: queue holds who  *)
(* wants it, the holder first.  One task reads, and one more task per      *)
(* dropped call writes its cancel frame.  The application is external.     *)
(***************************************************************************)
EXTENDS Naturals, Sequences, FiniteSets, SequencesExt

CONSTANTS
  Calls, Shutdowns,   \* ids; those of Shutdown requests
  MaxPending,         \* max_pending_calls
  SupportsCancel      \* the capability of the application

VARIABLES
  call,       \* where each call is
  why,        \* what interrupted it
  answer,     \* what it returned
  slot,       \* its oneshot
  requests, reserved,     \* PendingState.requests and .cancelled
  failure,    \* PendingState.failure
  queue,      \* of the writer's mutex
  stream,     \* "whole", "part" of a frame, or "garbled" by a frame after a part
  received,   \* the calls whose frame arrived
  replied,    \* the calls whose terminal reply is on its way or was
  reader,
  task,       \* the maintenance task of each dropped call
  shut        \* the writer was shut down

clientVars == <<call, why, answer>>
stateVars == <<slot, requests, reserved, failure>>
wireVars == <<stream, received>>
vars == <<clientVars, stateVars, queue, wireVars, replied, reader, task, shut>>

TypeOK ==
  /\ call \in [Calls -> {"new", "sending", "waiting", "cancelling", "acking", "aborting", "closing",
                         "failing", "over", "dropped"}]
  /\ why \in [Calls -> {"none", "cancelled", "deadline", "io", "reply"}]
  /\ answer \in [Calls -> {"none", "result", "error", "refused", "clean", "unclean"}]
  /\ slot \in [Calls -> {"none", "reply", "error"}]
  /\ requests \in SUBSET Calls /\ reserved \in SUBSET Calls /\ failure \in BOOLEAN
  /\ stream \in {"whole", "part", "garbled"} /\ reader \in {"reading", "ponging", "over"}
  /\ task \in [Calls -> {"none", "start", "writing", "over"}] /\ shut \in BOOLEAN

Init ==
  /\ call = [c \in Calls |-> "new"] /\ why = [c \in Calls |-> "none"]
  /\ answer = [c \in Calls |-> "none"] /\ slot = [c \in Calls |-> "none"]
  /\ requests = {} /\ reserved = {} /\ failure = FALSE
  /\ queue = <<>> /\ stream = "whole" /\ received = {} /\ replied = {}
  /\ reader = "reading" /\ task = [c \in Calls |-> "none"] /\ shut = FALSE

-----------------------------------------------------------------------------
(* The writer                                                              *)

Entry(kind, c) == [kind |-> kind, call |-> c]
CallOf(e) == IF e.kind = "call" THEN {e.call} ELSE {}
Holds(e) == queue # <<>> /\ Head(queue) = e
Leaves(es) == queue' = SelectSeq(queue, LAMBDA e : e \notin es)

\* A holder that is dropped has written nothing of its frame, a part, or all of it.
Interrupts(es) ==
  IF queue # <<>> /\ Head(queue) \in es /\ Head(queue).kind # "close" /\ ~shut
  THEN \/ UNCHANGED wireVars
       \/ stream' = (IF stream = "whole" THEN "part" ELSE "garbled") /\ UNCHANGED received
       \/ stream = "whole" /\ received' = received \cup CallOf(Head(queue)) /\ UNCHANGED stream
  ELSE UNCHANGED wireVars

\* A whole frame; what follows a part of one is no frame any more.
Writes(e) ==
  /\ Holds(e) /\ ~shut /\ queue' = Tail(queue)
  /\ received' = IF stream = "whole" THEN received \cup CallOf(e) ELSE received
  /\ stream' = IF stream = "whole" THEN "whole" ELSE "garbled"

FailPending ==
  /\ slot' = [c \in Calls |-> IF c \in requests /\ slot[c] = "none" THEN "error" ELSE slot[c]]
  /\ requests' = {} /\ reserved' = {} /\ failure' = TRUE

-----------------------------------------------------------------------------
(* Calls                                                                   *)

Returns(c, a) == call' = [call EXCEPT ![c] = "over"] /\ answer' = [answer EXCEPT ![c] = a]

Closes(c, reason) == call' = [call EXCEPT ![c] = "aborting"] /\ why' = [why EXCEPT ![c] = reason]

\* request() refuses before it registers; a shutdown closes the transport all the same.
Refused(c) ==
  \/ c \notin Shutdowns /\ Returns(c, "refused") /\ UNCHANGED why
  \/ /\ c \in Shutdowns /\ (failure \/ Cardinality(requests \cup reserved) >= MaxPending)
     /\ Closes(c, "io") /\ UNCHANGED answer

Register(c) ==
  /\ call[c] = "new"
  /\ \/ Refused(c) /\ UNCHANGED <<requests, queue>>
     \/ /\ ~failure /\ Cardinality(requests \cup reserved) < MaxPending
        /\ call' = [call EXCEPT ![c] = "sending"] /\ UNCHANGED <<why, answer>>
        /\ requests' = requests \cup {c}
        /\ queue' = Append(queue, Entry("call", c))
  /\ UNCHANGED <<slot, reserved, failure, wireVars, replied, reader, task, shut>>

Sent(c) ==
  /\ call[c] = "sending" /\ Writes(Entry("call", c))
  /\ call' = [call EXCEPT ![c] = "waiting"]
  /\ UNCHANGED <<why, answer, stateVars, replied, reader, task, shut>>

\* A cancellation and a deadline come when they are noticed; the interruption of a
\* Shutdown is its deadline.
Interruptions(c) == IF c \in Shutdowns THEN {"deadline"} ELSE {"cancelled", "deadline"}

\* A write that fails, is cancelled or too late closes the transport.
SendFails(c) ==
  /\ call[c] = "sending"
  /\ \/ Holds(Entry("call", c)) /\ Closes(c, "io")
     \/ \E reason \in Interruptions(c) : Closes(c, reason)
  /\ Leaves({Entry("call", c)}) /\ Interrupts({Entry("call", c)})
  /\ UNCHANGED <<answer, stateVars, replied, reader, task, shut>>

\* The reply, or why there will be none.
Receive(c) ==
  /\ call[c] = "waiting" /\ slot[c] # "none"
  /\ IF c \in Shutdowns
     THEN Closes(c, IF slot[c] = "reply" THEN "reply" ELSE "io") /\ UNCHANGED answer
     ELSE Returns(c, IF slot[c] = "reply" THEN "result" ELSE "error") /\ UNCHANGED why
  /\ UNCHANGED <<stateVars, queue, wireVars, replied, reader, task, shut>>

\* Mutant: an interrupted call gives up its place among the requests.
InterruptForgetting(c) ==
  /\ call[c] = "waiting"
  /\ \E reason \in Interruptions(c) :
       (reason = "cancelled" \/ slot[c] = "none") /\ why' = [why EXCEPT ![c] = reason]
  /\ IF SupportsCancel /\ c \notin Shutdowns
     THEN call' = [call EXCEPT ![c] = "cancelling"] /\ queue' = Append(queue, Entry("cancel", c))
     ELSE call' = [call EXCEPT ![c] = "aborting"] /\ UNCHANGED queue
  /\ requests' = requests \ {c} /\ reserved' = reserved \cup (requests \cap {c})
  /\ UNCHANGED <<answer, slot, failure, wireVars, replied, reader, task, shut>>

\* The call stays registered, so that its reply can acknowledge the cancellation.
Interrupt(c) ==
  /\ call[c] = "waiting"
  /\ \E reason \in Interruptions(c) :
       (reason = "cancelled" \/ slot[c] = "none") /\ why' = [why EXCEPT ![c] = reason]
  /\ IF SupportsCancel /\ c \notin Shutdowns
     THEN call' = [call EXCEPT ![c] = "cancelling"] /\ queue' = Append(queue, Entry("cancel", c))
     ELSE call' = [call EXCEPT ![c] = "aborting"] /\ UNCHANGED queue
  /\ UNCHANGED <<answer, stateVars, wireVars, replied, reader, task, shut>>

CancelSent(c) ==
  /\ call[c] = "cancelling" /\ Writes(Entry("cancel", c))
  /\ call' = [call EXCEPT ![c] = "acking"]
  /\ UNCHANGED <<why, answer, stateVars, replied, reader, task, shut>>

\* Mutant: the cancel frame is taken for the acknowledgement.
AcknowledgedUnread(c) ==
  /\ call[c] = "acking" /\ slot[c] # "error"
  /\ Returns(c, "clean")
  /\ UNCHANGED <<why, stateVars, queue, wireVars, replied, reader, task, shut>>

Acknowledged(c) ==
  /\ call[c] = "acking" /\ slot[c] = "reply"
  /\ Returns(c, "clean")
  /\ UNCHANGED <<why, stateVars, queue, wireVars, replied, reader, task, shut>>

\* Mutant: the cleanup deadline bounds only the wait for the reply.
UnacknowledgedWritten(c) ==
  /\ \/ call[c] = "cancelling" /\ Holds(Entry("cancel", c))
     \/ call[c] = "acking" /\ slot[c] # "reply"
  /\ Closes(c, why[c])
  /\ Leaves({Entry("cancel", c)}) /\ Interrupts({Entry("cancel", c)})
  /\ UNCHANGED <<answer, stateVars, replied, reader, task, shut>>

Unacknowledged(c) ==
  /\ \/ call[c] = "cancelling"
     \/ call[c] = "acking" /\ slot[c] # "reply"
  /\ Closes(c, why[c])
  /\ Leaves({Entry("cancel", c)}) /\ Interrupts({Entry("cancel", c)})
  /\ UNCHANGED <<answer, stateVars, replied, reader, task, shut>>

-----------------------------------------------------------------------------
(* close_transport()                                                       *)

\* The maintenance tasks and the reader are aborted, whatever they write.
Aborts(c) ==
  /\ call[c] = "aborting"
  /\ LET es == {e \in ToSet(queue) : e.kind \in {"task", "pong"}} IN
       /\ queue' = Append(SelectSeq(queue, LAMBDA e : e \notin es), Entry("close", c))
       /\ Interrupts(es)
  /\ task' = [d \in Calls |-> IF task[d] = "none" THEN "none" ELSE "over"]
  /\ reader' = "over"
  /\ call' = [call EXCEPT ![c] = "closing"]
  /\ UNCHANGED <<why, answer, stateVars, replied, shut>>

\* The writer is shut down, unless somebody keeps its mutex for too long.
ShutsDown(c) ==
  /\ call[c] = "closing"
  /\ \/ Holds(Entry("close", c)) /\ shut' = TRUE
     \/ UNCHANGED shut
  /\ Leaves({Entry("close", c)})
  /\ call' = [call EXCEPT ![c] = "failing"]
  /\ UNCHANGED <<why, answer, stateVars, wireVars, replied, reader, task>>

Closed(c) ==
  /\ call[c] = "failing" /\ FailPending
  /\ Returns(c, CASE why[c] = "io" -> "error" [] why[c] = "reply" -> "result" [] OTHER -> "unclean")
  /\ UNCHANGED <<why, queue, wireVars, replied, reader, task, shut>>

-----------------------------------------------------------------------------
(* A caller that is dropped                                                *)

\* The guard of the request is disarmed once the transport is being closed.
Drop(c) ==
  /\ call[c] \in {"sending", "waiting", "cancelling", "acking", "aborting", "closing", "failing"}
  /\ call' = [call EXCEPT ![c] = "dropped"]
  /\ LET es == {e \in ToSet(queue) : e.call = c /\ e.kind \in {"call", "cancel", "close"}} IN
       Leaves(es) /\ Interrupts(es)
  /\ task' = IF call[c] \in {"sending", "waiting", "cancelling", "acking"}
             THEN [task EXCEPT ![c] = "start"] ELSE task
  /\ UNCHANGED <<why, answer, stateVars, replied, reader, shut>>

TaskStarts(c) ==
  /\ task[c] = "start"
  /\ requests' = requests \ {c} /\ reserved' = reserved \cup (requests \cap {c})
  /\ IF c \in requests /\ c \notin Shutdowns /\ SupportsCancel
     THEN task' = [task EXCEPT ![c] = "writing"] /\ queue' = Append(queue, Entry("task", c))
     ELSE task' = [task EXCEPT ![c] = "over"] /\ UNCHANGED queue
  /\ UNCHANGED <<clientVars, slot, failure, wireVars, replied, reader, shut>>

\* No deadline bounds this write.
TaskWrites(c) ==
  /\ task[c] = "writing"
  /\ \/ Writes(Entry("task", c))
     \/ shut /\ Holds(Entry("task", c)) /\ queue' = Tail(queue) /\ UNCHANGED wireVars
  /\ task' = [task EXCEPT ![c] = "over"]
  /\ UNCHANGED <<clientVars, stateVars, replied, reader, shut>>

-----------------------------------------------------------------------------
(* The reader                                                              *)

\* A terminal reply: to a waiting call, to a dropped one, or one too many.
ReadReply(c) ==
  /\ reader = "reading" /\ c \in replied
  /\ CASE c \in requests ->
            /\ requests' = requests \ {c}
            /\ slot' = [slot EXCEPT ![c] = IF slot[c] = "none" THEN "reply" ELSE slot[c]]
            /\ UNCHANGED <<reserved, failure, reader>>
       [] c \in reserved \ requests ->
            reserved' = reserved \ {c} /\ UNCHANGED <<slot, requests, failure, reader>>
       [] c \notin requests \cup reserved -> FailPending /\ reader' = "over"
  /\ UNCHANGED <<clientVars, queue, wireVars, replied, task, shut>>

ReadPing ==
  /\ reader = "reading" /\ reader' = "ponging"
  /\ queue' = Append(queue, Entry("pong", "reader"))
  /\ UNCHANGED <<clientVars, stateVars, wireVars, replied, task, shut>>

Pong ==
  /\ reader = "ponging"
  /\ \/ Writes(Entry("pong", "reader")) /\ reader' = "reading" /\ UNCHANGED stateVars
     \/ /\ Holds(Entry("pong", "reader")) /\ queue' = Tail(queue)
        /\ FailPending /\ reader' = "over" /\ UNCHANGED wireVars
  /\ UNCHANGED <<clientVars, replied, task, shut>>

\* The end of the stream, a frame that is none, or a message that may not come now.
ReaderFails ==
  /\ reader = "reading" /\ FailPending /\ reader' = "over"
  /\ UNCHANGED <<clientVars, queue, wireVars, replied, task, shut>>

-----------------------------------------------------------------------------
(* The application                                                         *)

\* It replies once to a call whose frame it got.
Reply(c) ==
  /\ c \in received \ replied
  /\ replied' = replied \cup {c}
  /\ UNCHANGED <<clientVars, stateVars, queue, wireVars, reader, task, shut>>

-----------------------------------------------------------------------------
Interrupted(c) == SendFails(c) \/ Interrupt(c) \/ Unacknowledged(c)
Ends(c) == Receive(c) \/ Acknowledged(c) \/ Aborts(c) \/ ShutsDown(c) \/ Closed(c)

Next ==
  \/ \E c \in Calls :
       \/ Register(c) \/ Sent(c) \/ Interrupted(c) \/ CancelSent(c) \/ Ends(c)
       \/ Drop(c) \/ TaskStarts(c) \/ TaskWrites(c)
       \/ ReadReply(c) \/ Reply(c)
  \/ ReadPing \/ Pong \/ ReaderFails

\* Callers are scheduled and every deadline comes.  The application need neither read nor
\* reply.
Fairness == \A c \in Calls : WF_vars(Interrupted(c)) /\ WF_vars(Ends(c))

Spec == Init /\ [][Next]_vars
FairSpec == Spec /\ Fairness

-----------------------------------------------------------------------------
(* Properties                                                              *)

\* A result, and an interruption that claims to have been clean, rest on the terminal
\* reply of this very call; after an unclean one nobody else uses the transport.
AnswersHonest ==
  \A c \in Calls :
    /\ answer[c] \in {"result", "clean"} => c \in replied
    /\ answer[c] = "unclean" => failure

\* Whoever waits for a reply is registered, so that a reply or the end of the transport
\* wakes it; and after that end nobody is registered.
NobodyForgotten ==
  /\ failure => requests \cup reserved = {}
  /\ \A c \in Calls : call[c] \in {"waiting", "acking"} /\ slot[c] = "none" => c \in requests

\* Every call ends, although the application never reads nor replies.
EveryCallEnds == \A c \in Calls : call[c] = "sending" ~> call[c] \in {"over", "dropped"}

\* "A cancelled or timed-out write may have sent part of a frame.  The transport can no
\* longer be used safely by this or sibling calls" (request_with_context()).
NoFrameAfterPartial == stream # "garbled"
=============================================================================
