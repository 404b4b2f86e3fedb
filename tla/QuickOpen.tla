------------------------------ MODULE QuickOpen ------------------------------
(***************************************************************************)
(* The command palette (src/frontend/js/quickopen.js): one field in which  *)
(* the user looks for sessions, files and commands, or, after a prefix,    *)
(* text in the terminal, ports or settings.                                *)
(*                                                                         *)
(* The rows are drawn for what the field has, at once or, for ports, when  *)
(* the server answers; by then the field may have something else.  Enter   *)
(* runs the first row, whatever it is.                                     *)
(*                                                                         *)
(* X_... are slips of X: what a plausible mistake would make of it.        *)
(***************************************************************************)
EXTENDS Integers, FiniteSets

CONSTANTS Inputs,   \* what the field may have (without spaces around it), among them
          NoInput,  \* nothing
          ModeOf,   \* what each asks for: "all", "search", "ports", "settings"
          WebTabs,  \* sessions of the page
          MaxAsked  \* bound: answers awaited

VARIABLES palette, \* the panel is there
          field,   \* what the field has
          body,    \* [of, has]: the input the rows are for, what they are
          asked,   \* /api/ports: the inputs answers are awaited for
          cards,   \* the sessions of tmux: "none", "asked", "here"
          tabsNow, \* the sessions that are open
          gate     \* the server can list ports

quickVars == <<palette, field, body, asked, cards, tabsNow, gate>>

Blank == [of |-> NoInput, has |-> "nothing", tabs |-> {}]
Rows == {"nothing", "rows", "empty", "loading", "failed"}

QuickTypeOK ==
    /\ palette \in BOOLEAN /\ gate \in BOOLEAN
    /\ field \in Inputs
    /\ body \in [of : Inputs, has : Rows, tabs : SUBSET WebTabs]
    /\ asked \in [Inputs -> 0..MaxAsked]
    /\ cards \in {"none", "asked", "here"}
    /\ tabsNow \subseteq WebTabs

QuickInit ==
    /\ palette = FALSE /\ field = NoInput /\ body = Blank
    /\ asked = [i \in Inputs |-> 0] /\ cards = "none"
    /\ tabsNow \in SUBSET WebTabs
    /\ gate \in BOOLEAN

-----------------------------------------------------------------------------
(* render: ports are asked for, unless the server has none; everything     *)
(* else is there already.  Some inputs match nothing.                      *)
Render(i) ==
    IF ModeOf[i] = "ports" /\ gate
    THEN /\ asked[i] < MaxAsked
         /\ asked' = [asked EXCEPT ![i] = @ + 1]
         /\ body' = [of |-> i, has |-> "loading", tabs |-> {}]
    ELSE /\ \E h \in IF ModeOf[i] = "ports" THEN {"empty"}
                     ELSE IF ModeOf[i] = "search" THEN {"rows"} ELSE {"rows", "empty"},
               tabs \in IF ModeOf[i] = "all" THEN SUBSET tabsNow ELSE {{}} :
               /\ tabs # {} => h = "rows"
               /\ body' = [of |-> i, has |-> h, tabs |-> tabs]
         /\ UNCHANGED asked

(* openQuickOpen: opened again, the panel closes.  What the old one asked  *)
(* for is drawn where nobody sees it.                                      *)
Close ==
    /\ palette' = FALSE /\ field' = NoInput /\ body' = Blank
    /\ asked' = [i \in Inputs |-> 0] /\ cards' = "none"

OpenQuickOpen ==
    \/ palette /\ Close /\ UNCHANGED <<tabsNow, gate>>
    \/ /\ ~palette /\ palette' = TRUE
       /\ cards' = "asked"
       /\ Render(NoInput)
       /\ UNCHANGED <<field, tabsNow, gate>>

Type(i) ==
    /\ palette /\ i # field
    /\ field' = i
    /\ Render(i)
    /\ UNCHANGED <<palette, cards, tabsNow, gate>>

(* _fetchTmuxCandidates: drawn again, with cards for the sessions.         *)
CandidatesArrive ==
    /\ cards = "asked" /\ cards' = "here"
    /\ Render(field)
    /\ UNCHANGED <<palette, field, tabsNow, gate>>

StillAsked_Any(i) == TRUE

(* renderPortMode: an answer is for what was asked.                        *)
StillAsked(i) == field = i

PortsAnswered(i) ==
    /\ asked[i] > 0
    /\ asked' = [asked EXCEPT ![i] = @ - 1]
    /\ IF StillAsked(i)
       THEN \E h \in {"rows", "empty", "failed"} : body' = [of |-> i, has |-> h, tabs |-> {}]
       ELSE UNCHANGED body
    /\ UNCHANGED <<palette, field, cards, tabsNow, gate>>

(* A row: it runs a command, opens a file, or shows a session, which may   *)
(* have been closed.                                                       *)
PickRow ==
    /\ palette /\ body.has = "rows"
    /\ Close
    /\ UNCHANGED <<tabsNow, gate>>

ClosePalette == palette /\ Close /\ UNCHANGED <<tabsNow, gate>>

TabsChange(S) ==
    /\ tabsNow' = S /\ S # tabsNow
    /\ UNCHANGED <<palette, field, body, asked, cards, gate>>

(* agent/status.js hides what the server cannot do.                        *)
GateCloses ==
    /\ gate /\ gate' = FALSE
    /\ UNCHANGED <<palette, field, body, asked, cards, tabsNow>>

QuickNext ==
    \/ OpenQuickOpen \/ CandidatesArrive \/ PickRow \/ ClosePalette \/ GateCloses
    \/ \E i \in Inputs : Type(i) \/ PortsAnswered(i)
    \/ \E S \in SUBSET WebTabs : TabsChange(S)

QuickSpec == QuickInit /\ [][QuickNext]_quickVars

-----------------------------------------------------------------------------
(* quickopen.js:279: the rows are always those of what the field has now,  *)
(* whatever answers come in whatever order; so Enter never runs a row of   *)
(* something the user has since typed over.                                *)
ResultsMatchInput == palette => body.of = field
=============================================================================
