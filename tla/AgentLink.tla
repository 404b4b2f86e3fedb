------------------------------ MODULE AgentLink ------------------------------
(***************************************************************************)
(* The page's own connection to the server (src/frontend/js/agent/         *)
(* status.js): what it may ask once the user has logged in, and the socket *)
(* /ws-agent, which connects again when it is lost, but not for ever.      *)
(***************************************************************************)
EXTENDS Integers

CONSTANT MaxLost \* attempts to connect again; 15 in the code

VARIABLES authed, \* the login gate is gone
          caps,   \* /api/capabilities: asked for or not yet, or what it showed
          safe,   \* /api/safe-mode: the banner
          link,   \* wsAgent, or the timer of the next attempt
          tries    \* _wsAgentRetries

linkVars == <<authed, caps, safe, link, tries>>

Gates == {"fs", "ports", "push", "usage", "voice"}
Unasked == {"unasked"}
Asked == {"asked"}
Unknown == {"no answer"}

LinkTypeOK ==
    /\ authed \in BOOLEAN
    /\ caps \in {Unasked, Asked, Unknown} \cup SUBSET Gates
    /\ safe \in {"unasked", "asked", "banner", "none"}
    /\ link \in {"none", "connecting", "open", "stable", "waiting", "over"}
    /\ tries \in 0..MaxLost

LinkInit ==
    /\ authed = FALSE /\ caps = Unasked /\ safe = "unasked"
    /\ link = "none" /\ tries = 0

(* whenAuthed: everything that needs the login waits for it.               *)
Login ==
    /\ ~authed /\ authed' = TRUE
    /\ caps' = Asked /\ safe' = "asked" /\ link' = "connecting"
    /\ UNCHANGED tries

(* What the server cannot do is hidden; voice.js is loaded only if it can  *)
(* be used, or if the answer does not come.                                *)
CapsArrive(shown) ==
    /\ caps = Asked /\ caps' = shown
    /\ UNCHANGED <<authed, safe, link, tries>>

SafeModeArrives(on) ==
    /\ safe = "asked" /\ safe' = (IF on THEN "banner" ELSE "none")
    /\ UNCHANGED <<authed, caps, link, tries>>

-----------------------------------------------------------------------------
(* connectAgentWs: only three seconds of connection forget the attempts.   *)
LinkOpens ==
    /\ link = "connecting" /\ link' = "open"
    /\ UNCHANGED <<authed, caps, safe, tries>>

LinkStable ==
    /\ link = "open" /\ link' = "stable" /\ tries' = 0
    /\ UNCHANGED <<authed, caps, safe>>

(* scheduleAgentReconnect: after the last attempt there is none.           *)
LinkCloses ==
    /\ link \in {"connecting", "open", "stable"}
    /\ IF tries >= MaxLost THEN link' = "over" /\ UNCHANGED tries
       ELSE link' = "waiting" /\ tries' = tries + 1
    /\ UNCHANGED <<authed, caps, safe>>

LinkTimer ==
    /\ link = "waiting" /\ link' = "connecting"
    /\ UNCHANGED <<authed, caps, safe, tries>>

LinkNext ==
    \/ Login
    \/ \E shown \in {Unknown} \cup SUBSET Gates : CapsArrive(shown)
    \/ \E on \in BOOLEAN : SafeModeArrives(on)
    \/ LinkOpens \/ LinkStable \/ LinkCloses \/ LinkTimer

LinkSpec == LinkInit /\ [][LinkNext]_linkVars
=============================================================================
