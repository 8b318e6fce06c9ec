------------------------------ MODULE EventStream ------------------------------
(***************************************************************************)
(* The authoritative journals of the runs of one Runner and the bounded    *)
(* subscription that projects them: EventBuffer of                         *)
(* crates/runtime/src/events.rs, subscription.rs, EventJournal and         *)
(* ReplayJournal of crates/observation/src/journal.rs, and the end of a    *)
(* run in runner.rs.                                                       *)
(*                                                                         *)
(* Each run appends under the lock of its own journal; the runs share the  *)
(* subscriber, whose consumer is another thread.  A consumer that is told  *)
(* of a gap replays the journals of the results.                           *)
(***************************************************************************)
EXTENDS Naturals, Sequences, FiniteSets

CONSTANTS
  Runs,            \* runs of one Runner
  Roots, RunOf,    \* test roots, and the run each belongs to
  Capacity,        \* journal_max_events
  QueueCapacity,   \* of the subscription
  ReplayCapacity,
  MaxEvents        \* bound: events one run publishes, RunFinished included

ASSUME CapacityAssumption ==
  /\ Capacity \in Nat \ {0} /\ QueueCapacity \in Nat \ {0} /\ MaxEvents \in Nat \ {0, 1}
  /\ ReplayCapacity \in Nat \ {0}
ASSUME RunsAssumption == IsFiniteSet(Runs) /\ RunOf \in [Roots -> Runs]

VARIABLES
  journal,     \* the retained records of each run
  sequence,    \* the sequence number its next event is given
  overflow,    \* JournalOverflow, once there is one
  phase,       \* of the run
  verdict,     \* the RunOutcome RunFinished states
  root,        \* of each test root
  shutdown,    \* roots whose token the journal has cancelled
  queue,       \* the bounded channel
  sender,      \* Producer.sender is Some
  closing,     \* a publisher holds the Producer and has still to close its sender
  gap,         \* SubscriptionOverflow, once there is one
  consumer, told, received,
  replay, refused, synced

journalVars == <<journal, sequence, overflow>>
runVars == <<phase, verdict, root>>
channelVars == <<queue, sender, closing, gap>>
replayVars == <<replay, refused, synced>>
consumerVars == <<consumer, told, received, replayVars>>
vars == <<journalVars, runVars, shutdown, channelVars, consumerVars>>

None == [first |-> 0, last |-> 0, rejected |-> 0]
NoGap == [reason |-> "None"]
Gap(reason, r, n) == [reason |-> reason, run |-> r, seq |-> n]
Record(r, n, kind) == [run |-> r, seq |-> n, kind |-> kind]

Kinds == {"RunStarted", "Fact", "RunFinished"}
Records == [run : Runs, seq : 0..MaxEvents, kind : Kinds]
RootsOf(r) == {i \in Roots : RunOf[i] = r}

TypeOK ==
  /\ journal \in [Runs -> Seq(Records)]
  /\ sequence \in [Runs -> 0..MaxEvents]
  /\ overflow \in [Runs -> [first : Nat, last : Nat, rejected : Nat]]
  /\ phase \in [Runs -> {"new", "open", "judged", "finished"}]
  /\ verdict \in [Runs -> {"None", "Completed", "Aborted"}]
  /\ root \in [Roots -> {"new", "live", "over"}]
  /\ shutdown \in SUBSET Roots
  /\ queue \in Seq(Records) /\ Len(queue) <= QueueCapacity
  /\ sender \in BOOLEAN /\ closing \in BOOLEAN
  /\ gap = NoGap \/ gap \in [reason : {"SubscriberCapacity", "JournalCapacity"},
                             run : Runs, seq : 0..MaxEvents]
  /\ consumer \in {"reading", "ended", "dropped"} /\ told \in BOOLEAN
  /\ received \in Seq(Records)
  /\ replay \in SUBSET Records /\ refused \in BOOLEAN
  /\ synced \in [Runs -> 0..MaxEvents]

Init ==
  /\ journal = [r \in Runs |-> <<>>] /\ sequence = [r \in Runs |-> 0]
  /\ overflow = [r \in Runs |-> None]
  /\ phase = [r \in Runs |-> "new"] /\ verdict = [r \in Runs |-> "None"]
  /\ root = [i \in Roots |-> "new"] /\ shutdown = {}
  /\ queue = <<>> /\ sender = TRUE /\ closing = FALSE /\ gap = NoGap
  /\ consumer = "reading" /\ told = FALSE /\ received = <<>>
  /\ replay = {} /\ refused = FALSE /\ synced = [r \in Runs |-> 0]

-----------------------------------------------------------------------------
(* The subscriber, seen from a publisher                                   *)

\* The gap is recorded, then the only sender is dropped.
GiveUp(g) == gap' = g /\ closing' = TRUE /\ UNCHANGED <<sender, queue>>

\* Mutant: the publisher that gave up waits for the receiver to go.
CloseSenderLast ==
  /\ closing /\ consumer = "dropped"
  /\ sender' = FALSE /\ closing' = FALSE
  /\ UNCHANGED <<journalVars, runVars, shutdown, queue, gap, consumerVars>>

CloseSender ==
  /\ closing
  /\ sender' = FALSE /\ closing' = FALSE
  /\ UNCHANGED <<journalVars, runVars, shutdown, queue, gap, consumerVars>>

\* Mutant: a record that does not fit is dropped and the stream goes on.
PublishLossy(rec) ==
  IF sender /\ consumer # "dropped" /\ Len(queue) < QueueCapacity
  THEN queue' = Append(queue, rec) /\ UNCHANGED <<sender, closing, gap>>
  ELSE UNCHANGED channelVars

Publish(rec) ==
  \/ ~sender /\ UNCHANGED channelVars
  \/ sender /\ consumer = "dropped" /\ sender' = FALSE /\ UNCHANGED <<queue, closing, gap>>
  \/ /\ sender /\ consumer # "dropped" /\ Len(queue) < QueueCapacity
     /\ queue' = Append(queue, rec) /\ UNCHANGED <<sender, closing, gap>>
  \/ /\ sender /\ consumer # "dropped" /\ Len(queue) >= QueueCapacity
     /\ GiveUp(Gap("SubscriberCapacity", rec.run, rec.seq))

JournalFailed(r, n) ==
  IF sender THEN GiveUp(Gap("JournalCapacity", r, n)) ELSE UNCHANGED channelVars

-----------------------------------------------------------------------------
(* The journal of a run                                                    *)

Full(r) == overflow[r] # None \/ Len(journal[r]) >= Capacity - 1

\* JournalOverflow, once event n is omitted too.
Widened(o, n) ==
  IF o = None THEN [first |-> n, last |-> n, rejected |-> 1]
  ELSE [first |-> o.first, last |-> n, rejected |-> o.rejected + 1]

\* Mutant: an omitted event is not given an identity.
OmittedAnonymously(r) ==
  /\ overflow' = [overflow EXCEPT ![r] = Widened(@, sequence[r])]
  /\ UNCHANGED <<journal, sequence>>

\* omit(): the event has an identity and is not retained.
Omitted(r) ==
  /\ overflow' = [overflow EXCEPT ![r] = Widened(@, sequence[r])]
  /\ sequence' = [sequence EXCEPT ![r] = @ + 1]
  /\ UNCHANGED journal

Retained(r, kind) ==
  /\ journal' = [journal EXCEPT ![r] = Append(@, Record(r, sequence[r], kind))]
  /\ sequence' = [sequence EXCEPT ![r] = @ + 1]
  /\ UNCHANGED overflow

\* emit_event(): the first event that does not fit ends the subscription and
\* cancels the roots that are registered.
Emit(r, kind) ==
  /\ ~closing
  /\ IF kind # "RunFinished" /\ Full(r)
     THEN /\ Omitted(r)
          /\ IF overflow[r] = None
             THEN /\ JournalFailed(r, sequence[r])
                  /\ shutdown' = shutdown \cup {i \in RootsOf(r) : root[i] = "live"}
             ELSE UNCHANGED <<channelVars, shutdown>>
     ELSE /\ Retained(r, kind)
          /\ Publish(Record(r, sequence[r], kind))
          /\ UNCHANGED shutdown

\* The runner and its roots publish alike; a cancelled root publishes its teardown.
Publishing(r) ==
  phase[r] = "open" \/ (phase[r] = "judged" /\ \E i \in RootsOf(r) : root[i] = "live")

EmitFact(r) ==
  /\ Publishing(r) /\ sequence[r] < MaxEvents - 1
  /\ Emit(r, "Fact")
  /\ UNCHANGED <<runVars, consumerVars>>

\* Mutant: a root that comes late is not told.
RegisterRootQuietly(i) ==
  /\ root[i] = "new" /\ phase[RunOf[i]] = "open" /\ ~closing
  /\ root' = [root EXCEPT ![i] = "live"]
  /\ UNCHANGED <<journalVars, phase, verdict, shutdown, channelVars, consumerVars>>

\* A late root is cancelled before it can do any work.
RegisterRoot(i) ==
  /\ root[i] = "new" /\ phase[RunOf[i]] = "open" /\ ~closing
  /\ root' = [root EXCEPT ![i] = "live"]
  /\ shutdown' = IF overflow[RunOf[i]] # None THEN shutdown \cup {i} ELSE shutdown
  /\ UNCHANGED <<journalVars, phase, verdict, channelVars, consumerVars>>

\* JournalRoot is dropped when the root is torn down.
DropRoot(i) ==
  /\ root[i] = "live" /\ ~closing
  /\ root' = [root EXCEPT ![i] = "over"]
  /\ UNCHANGED <<journalVars, phase, verdict, shutdown, channelVars, consumerVars>>

Begin(r) ==
  /\ phase[r] = "new"
  /\ phase' = [phase EXCEPT ![r] = "open"]
  /\ Emit(r, "RunStarted")
  /\ UNCHANGED <<verdict, root, consumerVars>>

\* Mutant: the run is judged while a root is being torn down.
JudgeEarly(r) ==
  /\ phase[r] = "open" /\ ~closing
  /\ phase' = [phase EXCEPT ![r] = "judged"]
  /\ verdict' = [verdict EXCEPT ![r] = IF overflow[r] # None THEN "Aborted" ELSE "Completed"]
  /\ UNCHANGED <<journalVars, root, shutdown, channelVars, consumerVars>>

\* finish_run() asks for the overflow, every root being over ...
Judge(r) ==
  /\ phase[r] = "open" /\ ~closing /\ \A i \in RootsOf(r) : root[i] # "live"
  /\ phase' = [phase EXCEPT ![r] = "judged"]
  /\ verdict' = [verdict EXCEPT ![r] = IF overflow[r] # None THEN "Aborted" ELSE "Completed"]
  /\ UNCHANGED <<journalVars, root, shutdown, channelVars, consumerVars>>

\* ... then publishes RunFinished and hands the records over.
Finish(r) ==
  /\ phase[r] = "judged"
  /\ phase' = [phase EXCEPT ![r] = "finished"]
  /\ Emit(r, "RunFinished")
  /\ UNCHANGED <<verdict, root, consumerVars>>

-----------------------------------------------------------------------------
(* The consumer                                                            *)

Known(rec) == \E x \in replay : x.run = rec.run /\ x.seq = rec.seq

\* Mutant: a full index refuses what it holds already.
InsertRefusing(rec) ==
  IF Cardinality(replay) >= ReplayCapacity
  THEN refused' = TRUE /\ UNCHANGED replay
  ELSE replay' = replay \cup {rec} /\ UNCHANGED refused

\* ReplayJournal::insert(): in any order, an exact duplicate costs nothing, a
\* different record of the same identity is refused.
Insert(rec) ==
  IF Known(rec)
  THEN refused' = (refused \/ rec \notin replay) /\ UNCHANGED replay
  ELSE IF Cardinality(replay) >= ReplayCapacity
  THEN refused' = TRUE /\ UNCHANGED replay
  ELSE replay' = replay \cup {rec} /\ UNCHANGED refused

\* next() takes a record ...
Receive ==
  /\ consumer = "reading" /\ queue # <<>>
  /\ queue' = Tail(queue) /\ received' = Append(received, Head(queue))
  /\ Insert(Head(queue))
  /\ UNCHANGED <<journalVars, runVars, shutdown, sender, closing, gap, consumer, told, synced>>

\* The Runner is dropped with its last run.
SendersGone == ~sender \/ \A r \in Runs : phase[r] = "finished"

\* ... or, when the last sender is gone, the gap, once, and ends.
EndOfStream ==
  /\ consumer = "reading" /\ queue = <<>> /\ SendersGone
  /\ consumer' = "ended" /\ told' = (gap # NoGap)
  /\ UNCHANGED <<journalVars, runVars, shutdown, channelVars, received, replayVars>>

DropReceiver ==
  /\ consumer = "reading"
  /\ consumer' = "dropped" /\ queue' = <<>>
  /\ UNCHANGED <<journalVars, runVars, shutdown, sender, closing, gap, told, received, replayVars>>

\* A consumer that was told of the gap replays a result, from its last record back.
Resync(r) ==
  /\ consumer = "ended" /\ told /\ phase[r] = "finished" /\ synced[r] < Len(journal[r])
  /\ Insert(journal[r][Len(journal[r]) - synced[r]])
  /\ synced' = [synced EXCEPT ![r] = @ + 1]
  /\ UNCHANGED <<journalVars, runVars, shutdown, channelVars, consumer, told, received>>

-----------------------------------------------------------------------------
Next ==
  \/ CloseSender \/ Receive \/ EndOfStream \/ DropReceiver
  \/ \E r \in Runs : Begin(r) \/ EmitFact(r) \/ Judge(r) \/ Finish(r) \/ Resync(r)
  \/ \E i \in Roots : RegisterRoot(i) \/ DropRoot(i)

\* publish() returns, and the consumer keeps asking for the next item.
Fairness == WF_vars(CloseSender) /\ WF_vars(Receive \/ EndOfStream)

Spec == Init /\ [][Next]_vars
FairSpec == Spec /\ Fairness

-----------------------------------------------------------------------------
(* Properties                                                              *)

Numbers(s) == {s[k].seq : k \in DOMAIN s}
OfRun(s, r) == {s[k] : k \in {j \in DOMAIN s : s[j].run = r}}
First(n, r) == {journal[r][k] : k \in 1..n}
Stream == received \o queue

\* Every identity is of a retained record or inside the reported gap, the gap
\* begins where the journal stops, and the journal keeps to its budget.
GapAccounted ==
  \A r \in Runs :
    LET o == overflow[r]
        omitted == IF o = None THEN {} ELSE o.first..o.last IN
    /\ Numbers(journal[r]) \cup omitted = 0..(sequence[r] - 1)
    /\ Numbers(journal[r]) \cap omitted = {}
    /\ o.rejected = Cardinality(omitted)
    /\ \A j, k \in DOMAIN journal[r] : j < k => journal[r][j].seq < journal[r][k].seq
    /\ Len(journal[r]) <= Capacity

\* The run's last record is RunFinished, and it does not hide a gap.
TerminalFactHonest ==
  \A r \in Runs :
    /\ phase[r] \in {"judged", "finished"} => (verdict[r] = "Aborted" <=> overflow[r] # None)
    /\ phase[r] = "finished" =>
         /\ journal[r] # <<>> /\ journal[r][Len(journal[r])].kind = "RunFinished"
         /\ journal[r][Len(journal[r])].seq = sequence[r] - 1

\* No root goes on under a journal that lost an event, registered before or after.
NoWorkAfterGap ==
  \A i \in Roots : root[i] = "live" /\ overflow[RunOf[i]] # None => i \in shutdown

\* The subscriber sees, of every run, exactly a prefix of the journal and in order;
\* the gap it is told of begins at the first record of that run it has not seen, and
\* a stream that ends without a gap has delivered everything.
ExactPrefix ==
  /\ consumer # "dropped" =>
       /\ \A j, k \in DOMAIN Stream :
            j < k /\ Stream[j].run = Stream[k].run => Stream[j].seq < Stream[k].seq
       /\ \A r \in Runs : \E n \in 0..Len(journal[r]) :
            /\ OfRun(Stream, r) = First(n, r)
            /\ gap # NoGap /\ gap.run = r => gap.seq = n
  /\ consumer = "ended" /\ ~told => \A r \in Runs : OfRun(received, r) = First(Len(journal[r]), r)

\* What the consumer gave its index: what it received, and of each result the
\* records it replayed.
Replayed(r) == {journal[r][k] : k \in (Len(journal[r]) - synced[r] + 1)..Len(journal[r])}
Offered == {received[k] : k \in DOMAIN received} \cup UNION {Replayed(r) : r \in Runs}

\* The index refuses nothing while what it was given fits, so that after a gap it
\* holds exactly the journals of the results that were replayed.
Resynchronised ==
  /\ refused => Cardinality(Offered) > ReplayCapacity
  /\ ~refused => \A r \in Runs : synced[r] = Len(journal[r]) /\ synced[r] > 0 =>
       {x \in replay : x.run = r} = First(Len(journal[r]), r)

\* A consumer has read an exact prefix, and after a gap can make itself whole.
StreamExact == ExactPrefix /\ Resynchronised

\* A consumer does not wait for a sender that gave up.
GapEndsStream == gap # NoGap ~> consumer # "reading"
=============================================================================
