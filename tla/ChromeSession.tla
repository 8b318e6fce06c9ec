----------------------------- MODULE ChromeSession -----------------------------
(***************************************************************************)
(* One Chrome of a test file: LazyChromeHost and LazyChromeSession         *)
(* (crates/app/src/chrome.rs), ChromeHost, CdpBrowserSession and           *)
(* ChromeProcess (crates/browser-cdp/src/host.rs, session.rs, process.rs). *)
(*                                                                         *)
(* A start makes a profile directory, spawns Chrome, waits for its port    *)
(* file and connects.  A close asks Chrome to end, waits, kills, reaps and *)
(* removes the profile.  The future of either may be dropped at any await, *)
(* and a session may be dropped without a close: the process is then       *)
(* killed by its destructor and a task removes the profile.  Chrome is     *)
(* external: it ends when it likes, and while it runs it may write into    *)
(* its profile again.                                                      *)
(***************************************************************************)
EXTENDS Naturals

VARIABLES
  session,    \* the call in hand: of start() or of close()
  chrome,     \* the child process
  profile,    \* its directory: owned by a TempDir, kept by a path, gone
  sweeping,   \* a task of the destructor removes the directory
  sweepOver,  \* the deadline of that removal, or of cleanup_profile()
  graceOver,  \* SHUTDOWN_GRACE of the wait
  graceful,   \* how Browser.close was answered
  outcome,    \* what start() or close() returned
  announced   \* BrowserStartProgress: starting_browser() without its browser_started()

vars == <<session, chrome, profile, sweeping, sweepOver, graceOver, graceful, outcome, announced>>

Nil == "none"
Running == chrome \in {"running", "closing"}
Starting == session \in {"launching", "connecting"}
Closing == session \in {"asking", "waiting", "killed", "cleaning"}

Init ==
  /\ session = "idle" /\ chrome = Nil /\ profile = Nil /\ sweeping = FALSE
  /\ sweepOver = FALSE /\ graceOver = FALSE /\ graceful = Nil /\ outcome = Nil
  /\ announced = FALSE

\* Mutant: the destructor leaves the process to itself.
DropProcessUnkilled ==
  /\ chrome' = chrome
  /\ IF profile = "owned" THEN profile' = "kept" /\ sweeping' = TRUE /\ sweepOver' = FALSE
     ELSE UNCHANGED <<profile, sweeping, sweepOver>>

\* Drop for ChromeProcess: a kill, and a task for the directory that is still there.
DropProcess ==
  /\ chrome' = IF Running THEN "dying" ELSE chrome
  /\ IF profile = "owned" THEN profile' = "kept" /\ sweeping' = TRUE /\ sweepOver' = FALSE
     ELSE UNCHANGED <<profile, sweeping, sweepOver>>

-----------------------------------------------------------------------------
(* start()                                                                 *)

Finish(answer) == session' = answer /\ outcome' = answer /\ announced' = FALSE

\* No executable, no directory, or a command that cannot be spawned.
StartFails ==
  /\ session = "idle" /\ session' = "failed" /\ outcome' = "failed"
  /\ UNCHANGED <<chrome, profile, sweeping, sweepOver, graceOver, graceful, announced>>

Launch ==
  /\ session = "idle" /\ session' = "launching" /\ announced' = TRUE
  /\ chrome' = "running" /\ profile' = "owned"
  /\ UNCHANGED <<sweeping, sweepOver, graceOver, graceful, outcome>>

PortKnown ==
  /\ session = "launching" /\ chrome = "running" /\ session' = "connecting"
  /\ UNCHANGED <<chrome, profile, sweeping, sweepOver, graceOver, graceful, outcome, announced>>

\* The child ended early, the port file is unreadable, or STARTUP_TIMEOUT is over: the locals
\* of launch() go, the child with kill_on_drop and the directory with one attempt to remove
\* it, which what Chrome still writes can defeat.  A dropped start() goes the same way.
LaunchFails(answer) ==
  /\ session = "launching" /\ Finish(answer)
  /\ chrome' = IF Running THEN "dying" ELSE chrome
  /\ \E left \in IF Running THEN {"gone", "kept"} ELSE {"gone"} : profile' = left
  /\ UNCHANGED <<sweeping, sweepOver, graceOver, graceful>>

Connected ==
  /\ session = "connecting" /\ chrome = "running" /\ Finish("open")
  /\ UNCHANGED <<chrome, profile, sweeping, sweepOver, graceOver, graceful>>

ConnectFails(answer) ==
  /\ session = "connecting" /\ Finish(answer) /\ DropProcess
  /\ UNCHANGED <<graceOver, graceful>>

-----------------------------------------------------------------------------
(* close(), and a session that is dropped                                  *)

Drop ==
  /\ session = "open" /\ Finish("dropped") /\ DropProcess
  /\ UNCHANGED <<graceOver, graceful>>

CloseAsks ==
  /\ session = "open" /\ session' = "asking"
  /\ UNCHANGED <<chrome, profile, sweeping, sweepOver, graceOver, graceful, outcome, announced>>

\* Browser.close is answered, or the connection is gone, or it fails; shutdown() waits.
CloseAnswered(answer) ==
  /\ session = "asking" /\ session' = "waiting" /\ graceful' = answer
  /\ chrome' = IF answer = "ok" /\ chrome = "running" THEN "closing" ELSE chrome
  /\ UNCHANGED <<profile, sweeping, sweepOver, graceOver, outcome, announced>>

Reaped ==
  /\ session \in {"waiting", "killed"} /\ chrome = "ended"
  /\ session' = "cleaning" /\ profile' = "kept" /\ sweepOver' = FALSE
  /\ UNCHANGED <<chrome, sweeping, graceOver, graceful, outcome, announced>>

GracePasses ==
  /\ session \in {"waiting", "killed"} /\ ~graceOver /\ graceOver' = TRUE
  /\ UNCHANGED <<session, chrome, profile, sweeping, sweepOver, graceful, outcome, announced>>

Kill ==
  /\ session = "waiting" /\ graceOver /\ chrome # "ended"
  /\ session' = "killed" /\ chrome' = "dying" /\ graceOver' = FALSE
  /\ UNCHANGED <<profile, sweeping, sweepOver, graceful, outcome, announced>>

\* A Chrome that cannot be reaped ends shutdown() before its cleanup; the process is dropped.
ReapFails ==
  /\ session = "killed" /\ graceOver /\ chrome # "ended"
  /\ Finish("failed") /\ DropProcess
  /\ UNCHANGED <<graceOver, graceful>>

\* cleanup_profile() ended: Ok needs the directory gone and a graceful end, or a connection
\* that Chrome had closed first.
Close ==
  /\ session = "cleaning" /\ (profile = "gone" \/ sweepOver)
  /\ Finish(IF profile = "gone" /\ graceful # "failed" THEN "closed" ELSE "failed")
  /\ UNCHANGED <<chrome, profile, sweeping, sweepOver, graceOver, graceful>>

\* The teardown budget is over: close() is dropped.  The process is still in the session
\* before shutdown() began, and a local of close() afterwards; either way it is dropped.
CloseDropped ==
  /\ Closing /\ Finish("dropped") /\ DropProcess
  /\ UNCHANGED <<graceOver, graceful>>

-----------------------------------------------------------------------------
(* The directory, Chrome and time                                          *)

\* One turn of cleanup_profile() or of the destructor's task.
Remove ==
  /\ profile = "kept" /\ ~sweepOver /\ (sweeping \/ session = "cleaning")
  /\ chrome = "ended" /\ profile' = "gone" /\ sweeping' = FALSE
  /\ UNCHANGED <<session, chrome, sweepOver, graceOver, graceful, outcome, announced>>

SweepExpires ==
  /\ ~sweepOver /\ (sweeping \/ session = "cleaning") /\ sweepOver' = TRUE /\ sweeping' = FALSE
  /\ UNCHANGED <<session, chrome, profile, graceOver, graceful, outcome, announced>>

Ends ==
  /\ chrome \in {"running", "closing", "dying"} /\ chrome' = "ended"
  /\ UNCHANGED <<session, profile, sweeping, sweepOver, graceOver, graceful, outcome, announced>>

CloseEnds == Reaped \/ Kill \/ ReapFails \/ Close \/ GracePasses \/ SweepExpires
               \/ \E answer \in {"ok", "disconnected", "failed"} : CloseAnswered(answer)

Next ==
  \/ StartFails \/ Launch \/ PortKnown \/ Connected \/ Drop \/ CloseAsks \/ CloseEnds
  \/ CloseDropped \/ Remove \/ Ends
  \/ \E answer \in {"failed", "dropped"} : LaunchFails(answer) \/ ConnectFails(answer)

\* The wait for the port has a timeout, the steps of a close have theirs.  connect() has none:
\* start() runs under the root wait of a test, which drops it when the deadline and the cleanup
\* budget are over, and a dropped connect does to Chrome what a failed one does.  Of Chrome,
\* only one that was killed has to end.
Fairness ==
  /\ WF_vars(LaunchFails("failed")) /\ WF_vars(CloseEnds)
  /\ WF_vars(ConnectFails("failed") \/ ConnectFails("dropped"))
  /\ WF_vars(Ends /\ chrome = "dying")

Spec == Init /\ [][Next]_vars /\ Fairness

-----------------------------------------------------------------------------
(* Properties                                                              *)

Over == session \in {"failed", "closed", "dropped"}

\* However a start or a close ends, half-way or dropped, Chrome was at least killed; a close
\* that claims success has reaped it and removed its profile, and the line that announces
\* the start is always taken back.
ChromeOwned ==
  /\ Over => ~Running
  /\ session = "closed" => chrome = "ended" /\ profile = "gone"
  /\ Over \/ session = "open" => ~announced

\* Started or stopped half-way, Chrome is gone in the end.
ChromeEnds == chrome # Nil /\ session # "open" ~> chrome = "ended" \/ session = "open"
=============================================================================
