------------------------------ MODULE MCBrowser ------------------------------
(***************************************************************************)
(* A parallel or race node of two children and what its branches drive,    *)
(* one part at a time: the siblings, a command to the browser and one to a *)
(* page on a queue of one, a page in a frame that navigates, the start and *)
(* the end of a Chrome, and two installers and a clean of the managed      *)
(* Chrome.  The part is chosen at the start and runs alone; the others are *)
(* idle or over.                                                           *)
(***************************************************************************)
EXTENDS Browser, TLC

CONSTANTS a, b, browser, page

\* A command of each session, and pages of one frame.
OneEach == (a :> browser) @@ (b :> page)
OneFrame == [l \in Loaders |-> "main"]

VARIABLE part

SiblingsOver ==
  /\ policy = "All" /\ parent = None /\ untold = {} /\ cause = [d \in Children |-> None]
  /\ reported = {} /\ noticed = {} /\ result = [d \in Children |-> None]
  /\ completed = {} /\ winner = None /\ unhealthy = FALSE
  /\ pc = "returned" /\ current = None /\ final = None /\ outcome = None

PartInit ==
  /\ part \in {"siblings", "connection", "page", "chrome", "install"}
  /\ IF part = "siblings" THEN Init ELSE SiblingsOver
  /\ Cdp!Init /\ Page!Init /\ Chrome!Init
  /\ Install!Init /\ (part = "install" \/ target = {})

PartNext ==
  /\ UNCHANGED part
  /\ \/ part = "siblings" /\ Next /\ UNCHANGED <<cdpVars, pageVars, chromeVars, installVars>>
     \/ part = "connection" /\ Cdp!Next /\ UNCHANGED <<vars, pageVars, chromeVars, installVars>>
     \/ part = "page" /\ Page!Next /\ UNCHANGED <<vars, cdpVars, chromeVars, installVars>>
     \/ part = "chrome" /\ Chrome!Next /\ UNCHANGED <<vars, cdpVars, pageVars, installVars>>
     \/ part = "install" /\ Install!Next /\ UNCHANGED <<vars, cdpVars, pageVars, chromeVars>>

\* A part that does not run enables nothing, so each may be asked for its fairness.
PartFairness == Fairness /\ Cdp!Fairness /\ Page!Fairness /\ Chrome!Fairness

PartSpec == PartInit /\ [][PartNext]_<<part, vars, cdpVars, pageVars, chromeVars, installVars>> /\ PartFairness

-----------------------------------------------------------------------------
\* A decided node, a command, an operation of a page, and a Chrome whose start or close was
\* broken off, end, and the connection forgets a command that was abandoned.
BrowserEnds ==
  /\ DecidedEnds /\ Cdp!EveryCallEnds /\ Page!PageAnswers /\ Chrome!ChromeEnds
  /\ Cdp!AbandonedForgotten
=============================================================================
