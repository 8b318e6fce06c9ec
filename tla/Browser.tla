------------------------------- MODULE Browser -------------------------------
(***************************************************************************)
(* A parallel or race node and what its branches drive: commands to the    *)
(* browser and its pages, a page, the start and the end of a Chrome, and   *)
(* the managed Chrome it is.  Each is a module with variables of its own;  *)
(* here they have names that differ.                                       *)
(***************************************************************************)
EXTENDS SiblingScheduler, Sequences

CONSTANTS
  Commands, Sessions, SessionOf, ChannelCapacity,   \* of the connection
  Loaders, FrameOf, EventCapacity, Faults,          \* of a page
  Installers, Cleaners                              \* of the managed Chrome

VARIABLES
  caller, due, slot, answer, channel, actor, writing, nextId, pending, inFlight, asked, terminal,
  op, pagePc, pageResult, pageDue, pageGraceOver, last, changed, waitFor, watching, events,
  navigating, loaded, dead, kinds, requested, settled, lagged,
  session, chrome, profile, sweeping, sweepOver, graceOver, graceful, chromeOutcome, announced,
  installPc, installAnswer, target, lock, takeover, cleaned

cdpVars == <<caller, due, slot, answer, channel, actor, writing, nextId, pending, inFlight, asked, terminal>>
pageVars == <<op, pagePc, pageResult, pageDue, pageGraceOver, last, changed, waitFor, watching,
              events, navigating, loaded, dead, kinds, requested, settled, lagged>>
chromeVars == <<session, chrome, profile, sweeping, sweepOver, graceOver, graceful, chromeOutcome, announced>>
installVars == <<installPc, installAnswer, target, lock, takeover, cleaned>>

Cdp == INSTANCE CdpConnection
Page == INSTANCE CdpPage WITH
  pc <- pagePc, result <- pageResult, due <- pageDue, graceOver <- pageGraceOver
Chrome == INSTANCE ChromeSession WITH outcome <- chromeOutcome
Install == INSTANCE BrowserInstall WITH pc <- installPc, answer <- installAnswer

ASSUME CdpAssumption == Cdp!ConstantsFit
ASSUME PageAssumption == Page!ConstantsFit

-----------------------------------------------------------------------------
(* The properties of the modules.                                          *)

\* A command's answer is its own, in its session, and its error is true: see CdpConnection.
AnswersHonest == Cdp!AnswersBelong /\ Cdp!ErrorsHonest
\* What open(), a click and an unusable element are answered with is true: see CdpPage.
PageHonest == Page!OpenedIsLoaded /\ Page!ClickWaits /\ Page!FailureHonest
\* See ChromeSession and BrowserInstall.
ChromeOwned == Chrome!ChromeOwned
InstallWhole == Install!InstallWhole
=============================================================================
