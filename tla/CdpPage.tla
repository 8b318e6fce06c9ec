-------------------------------- MODULE CdpPage --------------------------------
(***************************************************************************)
(* One page of Chrome: its operations open(), perform(), wait_for_locator()*)
(* of crates/browser-cdp/src/page (mod.rs, navigation.rs, actions.rs,      *)
(* locator.rs).                                                            *)
(*                                                                         *)
(* The page's operations follow one another; the document changes under    *)
(* them.  Events reach an operation through a lossy broadcast that it      *)
(* joins when it begins to watch.  Chrome is external: every read of an    *)
(* element may find another one, frames navigate, loads finish late.  What *)
(* a read finds is the first thing that keeps the element from being used. *)
(* A command of the connection is one step that answers or fails; time is  *)
(* the passing of the operation's deadline and of the grace of a click.    *)
(***************************************************************************)
EXTENDS Naturals, Sequences, FiniteSets, SequencesExt

CONSTANTS
  Loaders, FrameOf,   \* the navigations Chrome can make (a bound), and the frame of each
  EventCapacity,      \* of the broadcast
  Faults              \* what can keep an element from being used

VARIABLES
  op, pc, result,
  due, graceOver,
  last, changed,      \* last_failure and failures_changed
  waitFor,            \* frame and loader wait_for_lifecycle() waits for
  watching, events,   \* the broadcast receiver
  navigating, loaded, \* Chrome: loaders under way and finished
  dead,               \* the connection has ended
  kinds, requested, settled, lagged   \* histories of the operation

taskVars == <<op, pc, result, due, graceOver, last, changed, waitFor, watching>>
chromeVars == <<navigating, loaded, dead>>
eventVars == <<events, settled, lagged, requested>>
vars == <<taskVars, chromeVars, eventVars, kinds>>

Nil == "none"
Actions == {"Click", "Hover", "Fill", "Check"}
Anything == [frame |-> Nil, loader |-> Nil]

\* What the proofs assume: a fault is no other answer, and nothing is not a navigation.
ConstantsFit ==
  /\ EventCapacity \in Nat \ {0} /\ Nil \notin Loaders /\ \A l \in Loaders : FrameOf[l] # Nil
  /\ Faults \cap {Nil, "Ok", "ActionTimeout", "CommandError", "Disconnected", "AssertionFailed",
                  "NavigationFailed", "NavigationTimeout"} = {}

Init ==
  /\ op = Nil /\ pc = "idle" /\ result = Nil /\ due = FALSE /\ graceOver = FALSE
  /\ last = Nil /\ changed = FALSE /\ waitFor = Anything
  /\ watching = FALSE /\ events = <<>>
  /\ navigating = {} /\ loaded = {} /\ dead = FALSE
  /\ kinds = {} /\ requested = Nil /\ settled = FALSE /\ lagged = FALSE

Return(answer) == pc' = "idle" /\ result' = answer /\ watching' = FALSE
GoTo(label) == pc' = label /\ UNCHANGED <<result, watching>>

\* The page is driven by one operation at a time.
Begin(kind) ==
  /\ pc = "idle"
  /\ op' = kind /\ result' = Nil /\ due' = FALSE /\ graceOver' = FALSE
  /\ last' = Nil /\ changed' = FALSE /\ kinds' = {} /\ waitFor' = Anything
  /\ pc' = CASE kind = "Open" -> "navigate" [] kind = "Expect" -> "expect" [] OTHER -> "initial"
  /\ watching' = (kind = "Open")
  /\ events' = <<>> /\ settled' = FALSE /\ lagged' = FALSE /\ requested' = Nil
  /\ UNCHANGED chromeVars

\* A command that fails ends the operation.
CommandFails ==
  /\ pc \in {"navigate", "initial", "scroll", "first", "second", "dispatch", "recheck", "expect"}
  /\ Return("CommandError")
  /\ UNCHANGED <<op, due, graceOver, last, changed, waitFor, chromeVars,
                 eventVars, kinds>>

-----------------------------------------------------------------------------
(* Actionability                                                           *)

ActionTimeout == "ActionTimeout"
Terminal(mixed, failure) == IF ~mixed /\ failure # Nil THEN failure ELSE ActionTimeout

\* Mutant: only the last two failures are compared.
AttemptFailsComparingTwo(kind) ==
  /\ changed' = (last # Nil /\ last # kind)
  /\ last' = kind /\ kinds' = kinds \cup {kind}
  /\ IF due THEN Return(Terminal(changed', kind)) ELSE GoTo("backoff")
  /\ UNCHANGED <<op, due, graceOver, waitFor, chromeVars, eventVars>>

AttemptFails(kind) ==
  /\ changed' = (changed \/ (last # Nil /\ last # kind))
  /\ last' = kind /\ kinds' = kinds \cup {kind}
  /\ IF due THEN Return(Terminal(changed', kind)) ELSE GoTo("backoff")
  /\ UNCHANGED <<op, due, graceOver, waitFor, chromeVars, eventVars>>

Proceeds(label) ==
  /\ GoTo(label)
  /\ UNCHANGED <<op, due, graceOver, last, changed, waitFor, chromeVars,
                 eventVars, kinds>>

\* preparation_failure(): what obscures the element is not looked at before the scroll.
ReadInitial ==
  /\ pc = "initial"
  /\ \/ \E fault \in Faults \ {"Obscured"} : AttemptFails(fault)
     \/ Proceeds("scroll")

Scroll == pc = "scroll" /\ Proceeds("first")

\* post_scroll_failure(): an element that is gone by now was detached.
PostScroll(fault) == IF fault = "Missing" THEN "Detached" ELSE fault

ReadFirst ==
  /\ pc = "first"
  /\ \/ \E fault \in Faults : AttemptFails(PostScroll(fault))
     \/ Proceeds("still")

HeldStill == pc = "still" /\ ~due /\ Proceeds("second")

\* Mutant: the click is watched only when its input is done.
DispatchUnwatched ==
  /\ last' = Nil /\ changed' = FALSE /\ kinds' = {}
  /\ \/ pc' = "dispatch" /\ result' = result /\ watching' = FALSE
     \/ op = "Check" /\ Return("Ok")
  /\ UNCHANGED <<op, due, graceOver, waitFor, chromeVars, eventVars>>

\* The pointer is sent where the second read found the element.  A click watches from here
\* on; a box that is already as wanted is left alone.
Dispatch ==
  /\ last' = Nil /\ changed' = FALSE /\ kinds' = {}
  /\ \/ pc' = "dispatch" /\ result' = result /\ watching' = (op = "Click")
     \/ op = "Check" /\ Return("Ok")
  /\ UNCHANGED <<op, due, graceOver, waitFor, chromeVars, eventVars>>

ReadSecond ==
  /\ pc = "second"
  /\ \/ \E fault \in Faults : AttemptFails(PostScroll(fault))
     \/ AttemptFails("Unstable")
     \/ Dispatch

Backoff == pc = "backoff" /\ Proceeds("initial")

Ends(answer) ==
  /\ Return(answer)
  /\ UNCHANGED <<op, due, graceOver, last, changed, waitFor, chromeVars,
                 eventVars, kinds>>

\* The deadline ends a pending read and every sleep with what the attempts found so far, and
\* the input phase, where nothing is kept, with ActionTimeout.
ActionExpires ==
  /\ due
  /\ \/ pc \in {"initial", "scroll", "first", "still", "second", "backoff"} /\ Ends(Terminal(changed, last))
     \/ pc \in {"dispatch", "recheck"} /\ Ends(ActionTimeout)

\* mouse_move, physical_click, select_all, key_event and insert_text: commands, each of which
\* may fail or be overtaken by the deadline.
InputDone ==
  /\ pc = "dispatch"
  /\ CASE op = "Click" -> Proceeds("grace")
       [] op = "Check" -> Proceeds("recheck")
       [] OTHER -> Ends("Ok")

\* Check reads the box again.
Recheck == pc = "recheck" /\ \E answer \in {"Ok", "AssertionFailed"} : Ends(answer)

\* wait_for_locator().
Expect ==
  /\ pc = "expect"
  /\ \/ Ends("Ok")
     \/ \E fault \in Faults \ {"Obscured"} :
          /\ last' = fault /\ kinds' = kinds \cup {fault}
          /\ IF due THEN Return(fault) ELSE GoTo("look again")
          /\ UNCHANGED <<op, due, graceOver, changed, waitFor, chromeVars, eventVars>>

LookAgain == pc = "look again" /\ Proceeds("expect")

ExpectExpires ==
  /\ due /\ pc \in {"expect", "look again"}
  /\ Ends(IF last = Nil THEN "AssertionFailed" ELSE last)

-----------------------------------------------------------------------------
(* Navigation                                                              *)

\* Chrome starts the navigation that Page.navigate asks for; its load may be told before
\* the answer is read.
NavigationStarts(l) ==
  /\ pc = "navigate" /\ waitFor = Anything /\ l \notin navigating \cup loaded /\ ~dead
  /\ navigating' = navigating \cup {l} /\ waitFor' = [frame |-> FrameOf[l], loader |-> l]
  /\ UNCHANGED <<op, pc, result, due, graceOver, last, changed, watching,
                 loaded, dead, eventVars, kinds>>

\* The answer: a loader, a navigation within the document, or an error.
Navigated ==
  /\ pc = "navigate"
  /\ IF waitFor # Anything THEN Proceeds("lifecycle")
     ELSE \E answer \in {"Ok", "NavigationFailed"} : Ends(answer)

\* Mutant: any load of the frame will do.
SettlesAnyLoader(event) == event.frame = waitFor.frame /\ event.kind = "Load"

Settles(event) ==
  /\ event.frame = waitFor.frame
  /\ \/ event.kind = "Within" /\ waitFor.loader = Nil
     \/ event.kind = "Load" /\ waitFor.loader \in {Nil, event.loader}

\* One event of wait_for_requested_navigation() or wait_for_lifecycle().
Receive ==
  /\ pc \in {"grace", "lifecycle"} /\ events # <<>>
  /\ LET event == Head(events)
         taken == pc = "grace" /\ event.kind = "Requested" IN
     /\ events' = Tail(events)
     /\ waitFor' = IF taken THEN [frame |-> event.frame, loader |-> Nil] ELSE waitFor
     /\ CASE event.kind = "Terminal" -> Return("Disconnected")
          [] taken -> GoTo("lifecycle")
          [] pc = "lifecycle" /\ Settles(event) -> Return("Ok")
          [] OTHER -> GoTo(pc)
  /\ UNCHANGED <<op, due, graceOver, last, changed, chromeVars, settled, lagged,
                 requested, kinds>>

\* timeout_at() looks for an event first.
NothingRequested == pc = "grace" /\ events = <<>> /\ (graceOver \/ due) /\ Ends("Ok")
NavigationExpires ==
  /\ due
  /\ \/ pc = "lifecycle" /\ events = <<>> /\ Ends(IF op = "Open" THEN "NavigationTimeout" ELSE ActionTimeout)
     \/ pc = "navigate" /\ Ends("CommandError")

-----------------------------------------------------------------------------
(* Chrome and time                                                         *)

Deliver(event) ==
  /\ events' = IF ~watching THEN events
               ELSE IF Len(events) = EventCapacity THEN Append(Tail(events), event)
               ELSE Append(events, event)
  /\ lagged' = (lagged \/ (watching /\ Len(events) = EventCapacity))
  /\ requested' = IF event.kind = "Requested" /\ requested = Nil /\ op = "Click"
                     /\ pc \in {"dispatch", "grace"}
                  THEN event.frame ELSE requested
  /\ settled' = (settled \/ (requested = event.frame /\ event.kind \in {"Load", "Within"}))

\* A script or a link starts a navigation.
ScriptNavigates(l) ==
  /\ l \notin navigating \cup loaded /\ ~dead
  /\ navigating' = navigating \cup {l}
  /\ Deliver([kind |-> "Requested", frame |-> FrameOf[l], loader |-> l])
  /\ UNCHANGED <<taskVars, loaded, dead, kinds>>

Loads(l) ==
  /\ l \in navigating /\ ~dead
  /\ navigating' = navigating \ {l} /\ loaded' = loaded \cup {l}
  /\ Deliver([kind |-> "Load", frame |-> FrameOf[l], loader |-> l])
  /\ UNCHANGED <<taskVars, dead, kinds>>

NavigatesWithin(l) ==
  /\ l \notin navigating \cup loaded /\ ~dead
  /\ loaded' = loaded \cup {l}
  /\ Deliver([kind |-> "Within", frame |-> FrameOf[l], loader |-> Nil])
  /\ UNCHANGED <<taskVars, navigating, dead, kinds>>

Disconnects ==
  /\ ~dead /\ dead' = TRUE
  /\ Deliver([kind |-> "Terminal", frame |-> Nil, loader |-> Nil])
  /\ UNCHANGED <<taskVars, navigating, loaded, kinds>>

DeadlinePasses ==
  /\ pc # "idle" /\ ~due /\ due' = TRUE
  /\ UNCHANGED <<op, pc, result, graceOver, last, changed, waitFor, watching,
                 chromeVars, eventVars, kinds>>

GracePasses ==
  /\ pc = "grace" /\ ~graceOver /\ graceOver' = TRUE
  /\ UNCHANGED <<op, pc, result, due, last, changed, waitFor, watching,
                 chromeVars, eventVars, kinds>>

Expires == ActionExpires \/ ExpectExpires \/ NavigationExpires \/ NothingRequested
Answered ==
  ~dead /\ (ReadInitial \/ Scroll \/ ReadFirst \/ ReadSecond \/ InputDone \/ Recheck \/ Expect \/ Navigated)
Proceed == Answered \/ CommandFails \/ HeldStill \/ Backoff \/ LookAgain \/ Receive

Next ==
  \/ \E kind \in Actions \cup {"Open", "Expect"} : Begin(kind)
  \/ Proceed \/ Expires \/ Disconnects \/ DeadlinePasses \/ GracePasses
  \/ \E l \in Loaders : NavigationStarts(l) \/ ScriptNavigates(l) \/ Loads(l) \/ NavigatesWithin(l)

\* The connection ends every command (EveryCallEnds of CdpConnection), and timers fire.
Fairness == WF_vars(Proceed) /\ WF_vars(Expires) /\ WF_vars(DeadlinePasses)

Spec == Init /\ [][Next]_vars /\ Fairness

-----------------------------------------------------------------------------
(* Properties                                                              *)

\* open() that succeeded has seen its own document load, whatever earlier navigations of the
\* frame, or of other frames, told meanwhile.
OpenedIsLoaded ==
  op = "Open" /\ result = "Ok" /\ waitFor # Anything => waitFor.loader \in loaded

\* A click that succeeded although a navigation was requested under it saw the frame settle
\* after the request, unless the broadcast dropped events.
ClickWaits == op = "Click" /\ result = "Ok" /\ requested # Nil /\ ~lagged => settled

\* A reason why the element could not be used is reported only when every attempt that was
\* completed failed for that reason, and "timed out" only when no single reason explains it.
FailureHonest ==
  op \in Actions =>
    /\ result \in Faults \cup {"Detached", "Unstable"} => kinds = {result}
    /\ result = ActionTimeout => Cardinality(kinds) # 1

\* Every operation of the page returns.
PageAnswers == pc # "idle" ~> pc = "idle"
=============================================================================
