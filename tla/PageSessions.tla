----------------------------- MODULE PageSessions -----------------------------
(***************************************************************************)
(* The tabs of a page: how they are opened, closed, remembered and found   *)
(* again (src/frontend/js/term: session.js, tab-dom.js, workspace.js,      *)
(* boot.js, tmux-panel.js; agent/preview.js).                              *)
(*                                                                         *)
(* The server keeps tmux sessions, which outlive it, and web sessions,     *)
(* which do not and most of which are attached to a tmux session.  The     *)
(* page keeps a tab per web session and writes its list of tabs to         *)
(* localStorage.  When it is loaded it opens what is in that list, then    *)
(* what the server has besides; meanwhile its user opens and closes tabs,  *)
(* and sessions come and go by other hands.                                *)
(*                                                                         *)
(* Left out: names shown on tabs, which tab is active and what is drawn    *)
(* (PageLayout), the connection of a tab (TerminalSockets), and a request  *)
(* to close a tab that is rejected, after which nothing is saved.  One     *)
(* to attach is one step with its answer while the page boots, two when    *)
(* the user asks.  A request is answered, refused (an answer that is not   *)
(* ok) or rejected (no answer, or one that cannot be read).                *)
(*                                                                         *)
(* X_... are slips of X: what a plausible mistake would make of it.        *)
(***************************************************************************)
EXTENDS Integers, Sequences, FiniteSets, SequencesExt

CONSTANTS Ids,      \* bound: web session ids; one nobody refers to is used again
          Tmux,     \* tmux sessions
          Plain,    \* what a web session without tmux is attached to
          Nothing,
          MaxTabs   \* bound: tabs in the list

VARIABLES alive,     \* the tmux sessions there are
          web,       \* web[i]: what web session i is attached to, or Nothing
          tabs,      \* the tabs, from left to right: ids
          named,     \* session records: id |-> tmuxName, Nothing if not set
          snap,      \* the list in localStorage: [id, tmux]
          boot,      \* where bootApp is
          arriving,  \* answers on their way to the page: [id, how]
          closing,   \* tabs closed, the server yet to be told
          owed       \* tmux sessions that booting lists and is to show

sessionsVars == <<alive, web, tabs, named, snap, boot, arriving, closing, owed>>

-----------------------------------------------------------------------------
Live == {i \in Ids : web[i] # Nothing}
Referred == Live \cup ToSet(tabs) \cup DOMAIN named \cup closing
            \cup {snap[k].id : k \in DOMAIN snap} \cup {a.id : a \in arriving}
            \cup {boot.todo[k].id : k \in DOMAIN boot.todo} \cup {boot.first}
Fresh == {i \in Ids \ Referred : \A j \in Ids \ Referred : i <= j}

(* /api/tmux/attach: the web session there is, or a new one. *)
AttachedTo(n) == {i \in Live : web[i] = n}
AttachIds(n) == IF n \notin alive THEN {} ELSE IF AttachedTo(n) # {} THEN AttachedTo(n) ELSE Fresh
Attach(i, n) == web' = [web EXCEPT ![i] = n]

(* A request that is rejected may have reached the server all the same.    *)
MayAttach(n) == UNCHANGED web \/ \E i \in AttachIds(n) : Attach(i, n)

(* saveWorkspace: the tabs as they are in the page, with the names known   *)
(* at the time.                                                            *)
Snapshot(ts, r) == [k \in DOMAIN ts |->
                       [id |-> ts[k], tmux |-> IF ts[k] \in DOMAIN r THEN r[ts[k]] ELSE Nothing]]

With(r, i, n) == [j \in DOMAIN r \cup {i} |-> IF j = i THEN n ELSE r[j]]

(* The tab the page finds for a session: the first of them.                *)
FirstOf(ts, i) == CHOOSE k \in DOMAIN ts : ts[k] = i /\ \A m \in 1..(k - 1) : ts[m] # i

(* addSession: the tab goes before another one or to the end; switchTo     *)
(* saves the list.  The callers fill in tmuxName afterwards.               *)
InsertTab(ts, i, before) ==
    IF before \in ToSet(ts) THEN InsertAt(ts, FirstOf(ts, before), i) ELSE Append(ts, i)

AddTab(i, before, n) ==
    /\ Len(tabs) < MaxTabs
    /\ tabs' = InsertTab(tabs, i, before)
    /\ named' = With(named, i, n)
    /\ snap' = Snapshot(tabs', With(named, i, Nothing))

(* The same, with a saveWorkspace after the name is known. *)
AddTabSaved(i, n) ==
    /\ Len(tabs) < MaxTabs
    /\ tabs' = Append(tabs, i)
    /\ named' = With(named, i, n)
    /\ snap' = Snapshot(tabs', named')

(* switchTo for a session that has a record; without one it throws. *)
SwitchTab(i) == /\ i \in DOMAIN named
                /\ snap' = Snapshot(tabs, named)
                /\ UNCHANGED <<tabs, named>>
SameTabs == UNCHANGED <<tabs, named, snap>>

-----------------------------------------------------------------------------
Entry == [id : Ids, tmux : Tmux \cup {Nothing}]
Steps == {"live", "restore", "reconcile", "fill", "sessions", "tmux", "attach", "failed",
          "ready"}
Idle == [step |-> "ready", todo |-> <<>>, first |-> Nothing, restored |-> FALSE,
         live |-> {}]

SessionsTypeOK ==
    /\ alive \subseteq Tmux
    /\ web \in [Ids -> Tmux \cup {Plain, Nothing}]
    /\ tabs \in BoundedSeq(Ids, MaxTabs)
    /\ DOMAIN named \subseteq ToSet(tabs) /\ \A i \in DOMAIN named : named[i] \in Tmux \cup {Nothing}
    /\ Len(snap) <= MaxTabs /\ ToSet(snap) \subseteq Entry
    /\ boot.step \in Steps
    /\ arriving \subseteq [id : Ids, how : {"plain", "create", "attach"},
                     tmux : Tmux \cup {Nothing}]
    /\ closing \subseteq Ids /\ owed \subseteq Tmux

(* A page that was never opened before, and a server just started.         *)
SessionsInit ==
    /\ alive \in SUBSET Tmux
    /\ web = [i \in Ids |-> Nothing]
    /\ tabs = <<>> /\ named = <<>> /\ snap = <<>>
    /\ boot = [Idle EXCEPT !.step = "sessions"]
    /\ arriving = {} /\ closing = {} /\ owed = {}

-----------------------------------------------------------------------------
(* bootApp.  restoreWorkspace goes first if there is a list.               *)
Load ==
    /\ tabs' = <<>> /\ named' = <<>>
    /\ arriving' = {} /\ closing' = {} /\ owed' = {}
    /\ boot' = IF snap = <<>> THEN [Idle EXCEPT !.step = "sessions"]
               ELSE [Idle EXCEPT !.step = "live", !.todo = snap]
    /\ UNCHANGED <<alive, web, snap>>

(* Which web sessions live; nothing is known when the server fails.        *)
FetchLive ==
    /\ boot.step = "live"
    /\ \E l \in {Live, {}} : boot' = [boot EXCEPT !.step = "restore", !.live = l]
    /\ UNCHANGED <<alive, web, tabs, named, snap, arriving, closing, owed>>

Restored(i) == [boot EXCEPT !.todo = Tail(@), !.restored = TRUE,
                            !.first = IF @ = Nothing /\ i \notin DOMAIN named THEN i ELSE @]

(* A tab of a tmux session is attached anew, under the id it then has.     *)
RestoreTmux(i) ==
    /\ boot.step = "restore" /\ boot.todo # <<>> /\ Head(boot.todo).tmux # Nothing
    /\ LET n == Head(boot.todo).tmux
       IN  /\ i \in AttachIds(n)
           /\ Attach(i, n)
           /\ IF i \in DOMAIN named THEN SameTabs ELSE AddTab(i, Nothing, n)
    /\ boot' = Restored(i)
    /\ UNCHANGED <<alive, arriving, closing, owed>>

NameFor_FromList(i, known) == known

(* Any other tab is there if its web session is; the server may know a     *)
(* tmux session for it that the list does not.                             *)
NameFor(i, known) == IF known # Nothing THEN known
                     ELSE IF web[i] \in Tmux /\ i \in boot.live THEN web[i] ELSE Nothing

RestorePlain ==
    /\ boot.step = "restore" /\ boot.todo # <<>> /\ Head(boot.todo).tmux = Nothing
    /\ Head(boot.todo).id \in boot.live
    /\ LET i == Head(boot.todo).id
       IN  /\ IF i \in DOMAIN named
              THEN /\ named' = [named EXCEPT ![i] = NameFor(i, @)]
                   /\ UNCHANGED <<tabs, snap>>
              ELSE AddTab(i, Nothing, NameFor(i, Nothing))
           /\ boot' = Restored(i)
    /\ UNCHANGED <<alive, web, arriving, closing, owed>>

(* It is gone, or the request was refused or rejected: on to the next.     *)
RestoreFails ==
    /\ boot.step = "restore" /\ boot.todo # <<>>
    /\ IF Head(boot.todo).tmux = Nothing
       THEN Head(boot.todo).id \notin boot.live /\ UNCHANGED web
       ELSE MayAttach(Head(boot.todo).tmux)
    /\ boot' = [boot EXCEPT !.todo = Tail(@)]
    /\ UNCHANGED <<alive, tabs, named, snap, arriving, closing, owed>>

(* The first restored tab is shown.  If the user has closed it by then,    *)
(* switchTo throws and booting goes on as if nothing had been restored.    *)
RestoreEnds ==
    /\ boot.step = "restore" /\ boot.todo = <<>>
    /\ IF boot.restored /\ boot.first \in DOMAIN named THEN SwitchTab(boot.first) ELSE SameTabs
    /\ boot' = IF boot.restored /\ boot.first \in DOMAIN named \cup {Nothing}
               THEN [Idle EXCEPT !.step = "reconcile"]
               ELSE [Idle EXCEPT !.step = "sessions"]
    /\ UNCHANGED <<alive, web, arriving, closing, owed>>

-----------------------------------------------------------------------------
NamesShown_FromList == {snap[k].tmux : k \in DOMAIN snap}

(* The names that follow a session in the list.                            *)
Following(list, n) ==
    LET at == SelectInSeq(list, LAMBDA e : e.tmux = n)
        rest == IF at = 0 THEN <<>> ELSE SubSeq(list, at + 1, Len(list))
    IN  SelectSeq([k \in DOMAIN rest |-> rest[k].tmux], LAMBDA m : m # Nothing)

(* reconcileMissingTmuxSessions: what the server has and no tab shows,     *)
(* those that the list has first, each with the names that follow it there *)
(* at that time; the rest by name, in any order here.                      *)
NamesShown == {named[i] : i \in DOMAIN named}
Wanted(S, list) ==
    {[k \in 1..Cardinality(S) |-> [id |-> 0, tmux |-> o[k], next |-> Following(list, o[k])]] :
        o \in SetToSeqs(S)}
Listed == {snap[k].tmux : k \in DOMAIN snap}

FetchTmux ==
    /\ boot.step = "reconcile"
    /\ \/ LET missing == alive \ NamesShown
          IN  /\ \E x \in Wanted(missing \cap Listed, snap),
                    y \in Wanted(missing \ Listed, <<>>) :
                     boot' = [boot EXCEPT !.step = "fill", !.todo = x \o y]
              /\ owed' = alive
       \/ boot' = Idle /\ owed' = {}   \* rejected, or no list
    /\ UNCHANGED <<alive, web, tabs, named, snap, arriving, closing>>

(* Its place: before a tab of the first of those names that is open now.   *)
TabsOf(n) == {i \in DOMAIN named : named[i] = n}
PlacesOf(next) ==
    LET open == SelectSeq(next, LAMBDA m : TabsOf(m) # {})
    IN  IF open = <<>> THEN {Nothing} ELSE TabsOf(Head(open))

FillTmux(i) ==
    /\ boot.step = "fill" /\ boot.todo # <<>>
    /\ LET n == Head(boot.todo).tmux
       IN  /\ i \in AttachIds(n)
           /\ Attach(i, n)
           /\ IF i \in DOMAIN named THEN SameTabs
              ELSE \E before \in PlacesOf(Head(boot.todo).next) : AddTab(i, before, n)
    /\ boot' = [boot EXCEPT !.todo = Tail(@), !.restored = @ \/ i \notin DOMAIN named]
    /\ UNCHANGED <<alive, arriving, closing, owed>>

(* One that the server refuses is left out, in the other loop below too.   *)
AttachRefused ==
    /\ boot.step \in {"fill", "attach"} /\ boot.todo # <<>>
    /\ owed' = owed \ {Head(boot.todo).tmux}
    /\ boot' = [boot EXCEPT !.todo = Tail(@)]
    /\ UNCHANGED <<alive, web, tabs, named, snap, arriving, closing>>

(* A request that is rejected ends the loop, and those after it are never  *)
(* asked for: reconcileMissingTmuxSessions keeps silent about it, bootApp  *)
(* goes to its catch.                                                      *)
AttachRejected ==
    /\ boot.step \in {"fill", "attach"} /\ boot.todo # <<>>
    /\ MayAttach(Head(boot.todo).tmux)
    /\ owed' = owed \ {boot.todo[k].tmux : k \in DOMAIN boot.todo}
    /\ boot' = IF boot.step = "fill" THEN Idle ELSE [Idle EXCEPT !.step = "failed"]
    /\ UNCHANGED <<alive, tabs, named, snap, arriving, closing>>

(* The tab that was active before is shown again, if it is still there. *)
FillEnds ==
    /\ boot.step = "fill" /\ boot.todo = <<>>
    /\ SameTabs \/ (boot.restored /\ \E i \in DOMAIN named : SwitchTab(i))
    /\ boot' = Idle
    /\ UNCHANGED <<alive, web, arriving, closing, owed>>

-----------------------------------------------------------------------------
(* Without a list: the web sessions there are get a tab each, at once;     *)
(* one the user has just opened is not looked for.                         *)
OpenWebSessions ==
    /\ boot.step = "sessions"
    /\ Live # {}
    /\ Len(tabs) + Cardinality(Live) <= MaxTabs
    /\ \E o \in SetToSeqs(Live) :
           /\ tabs' = tabs \o o
           /\ named' = [i \in DOMAIN named \cup Live |->
                         IF i \in Live /\ web[i] \in Tmux THEN web[i]
                         ELSE IF i \in DOMAIN named THEN named[i] ELSE Nothing]
           /\ snap' = Snapshot(tabs', With(named', Last(o), Nothing))
    /\ boot' = Idle
    /\ UNCHANGED <<alive, web, arriving, closing, owed>>

(* There are none, or the answer is an error: it has no length either.     *)
NoWebSessions ==
    /\ boot.step = "sessions"
    /\ boot' = [boot EXCEPT !.step = "tmux"]
    /\ UNCHANGED <<alive, web, tabs, named, snap, arriving, closing, owed>>

(* Without those either: every tmux session is attached; if there is none, *)
(* or the answer is an error, showOnboarding.                              *)
ListTmux ==
    /\ boot.step = "tmux"
    /\ \/ /\ alive # {}
          /\ \E o \in Wanted(alive, <<>>) : boot' = [Idle EXCEPT !.step = "attach", !.todo = o]
          /\ owed' = alive
       \/ boot' = Idle /\ owed' = {}
    /\ UNCHANGED <<alive, web, tabs, named, snap, arriving, closing>>

AttachNext(i) ==
    /\ boot.step = "attach" /\ boot.todo # <<>>
    /\ LET n == Head(boot.todo).tmux
       IN  /\ i \in AttachIds(n)
           /\ Attach(i, n)
           /\ IF i \in DOMAIN named THEN SwitchTab(i) ELSE AddTabSaved(i, n)
    /\ boot' = [boot EXCEPT !.todo = Tail(@)]
    /\ UNCHANGED <<alive, arriving, closing, owed>>

AttachEnds ==
    /\ boot.step = "attach" /\ boot.todo = <<>>
    /\ boot' = Idle
    /\ UNCHANGED <<alive, web, tabs, named, snap, arriving, closing, owed>>

-----------------------------------------------------------------------------
(* A request for a session, and its answer on the way to the page.         *)
Asks(i, how, n) ==
    /\ CASE how = "plain"  -> n = Plain /\ i \in Fresh /\ UNCHANGED alive
         [] how = "create" -> n \in Tmux \ alive /\ i \in Fresh /\ alive' = alive \cup {n}
         [] how = "attach" -> i \in AttachIds(n) /\ UNCHANGED alive
    /\ Attach(i, n)
    /\ arriving' = arriving \cup {[id |-> i, how |-> how,
                                  tmux |-> IF n = Plain THEN Nothing ELSE n]}

(* When one of the two lists is rejected, too, bootApp goes to its catch,  *)
(* which asks for a new session, in tmux if the box for the Mac is ticked; *)
(* that may fail as well.                                                  *)
ListRejected ==
    /\ boot.step \in {"sessions", "tmux"}
    /\ boot' = [boot EXCEPT !.step = "failed"]
    /\ UNCHANGED <<alive, web, tabs, named, snap, arriving, closing, owed>>

CreateSession ==
    /\ boot.step = "failed"
    /\ \/ UNCHANGED <<alive, web, arriving>>
       \/ \E i \in Ids : \/ Asks(i, "plain", Plain)
                         \/ \E n \in Tmux : Asks(i, "create", n)
    /\ boot' = Idle
    /\ UNCHANGED <<tabs, named, snap, closing, owed>>

(* The user's requests: createSession and createPlainSession,              *)
(* createTmuxSession, and attachTmux from a menu, the onboarding page, the *)
(* preview cards or the palette; one at a time here.                       *)
Request(i, how, n) ==
    /\ arriving = {}
    /\ Asks(i, how, n)
    /\ UNCHANGED <<tabs, named, snap, boot, closing, owed>>

(* Its answer names the tmux session.  Only attaching looks for a tab that *)
(* is there, and saves again when the name is known.                       *)
Answer(a) ==
    /\ a \in arriving
    /\ CASE a.how = "attach" /\ a.id \in DOMAIN named -> SwitchTab(a.id)
         [] a.how = "attach" /\ a.id \notin DOMAIN named -> AddTabSaved(a.id, a.tmux)
         [] OTHER -> AddTab(a.id, Nothing, a.tmux)
    /\ arriving' = arriving \ {a}
    /\ UNCHANGED <<alive, web, boot, closing, owed>>

AnswerLost(a) ==
    /\ a \in arriving
    /\ arriving' = arriving \ {a}
    /\ UNCHANGED <<alive, web, tabs, named, snap, boot, closing, owed>>

(* switchTo by a click on a tab, and a tab dragged to another place.       *)
ClickTab(i) ==
    /\ SwitchTab(i)
    /\ UNCHANGED <<alive, web, boot, arriving, closing, owed>>

DragTab(from, to) ==
    /\ tabs[from] # tabs[to] /\ from = FirstOf(tabs, tabs[from])
    /\ tabs' = InsertAt(RemoveAt(tabs, from), to, tabs[from])
    /\ snap' = Snapshot(tabs', named)
    /\ UNCHANGED <<alive, web, named, boot, arriving, closing, owed>>

(* removeSession: the record and its tab go at once; of two tabs of one    *)
(* session the other stays (which one is left open here).  The list is     *)
(* saved when the server has answered.                                     *)
CloseTab(i) ==
    /\ i \in DOMAIN named
    /\ \E k \in DOMAIN tabs : tabs[k] = i /\ tabs' = RemoveAt(tabs, k)
    /\ named' = [j \in DOMAIN named \ {i} |-> named[j]]
    /\ closing' = closing \cup {i}
    /\ owed' = owed \ {named[i]}
    /\ UNCHANGED <<alive, web, snap, boot, arriving>>

CloseAnswered(i) ==
    /\ i \in closing
    /\ web' = [web EXCEPT ![i] = Nothing]
    /\ closing' = closing \ {i}
    /\ snap' = Snapshot(tabs, named)
    /\ UNCHANGED <<alive, tabs, named, boot, arriving, owed>>

-----------------------------------------------------------------------------
(* A tmux session is made or ends, by other hands or by killTmuxSession,   *)
(* which closes its tab first; the web sessions attached to it end.        *)
TmuxStarts(n) ==
    /\ alive' = alive \cup {n}
    /\ UNCHANGED <<web, tabs, named, snap, boot, arriving, closing, owed>>

TmuxEnds(n) ==
    /\ n \in alive
    /\ alive' = alive \ {n}
    /\ web' = [i \in Ids |-> IF web[i] = n THEN Nothing ELSE web[i]]
    /\ owed' = owed \ {n}
    /\ UNCHANGED <<tabs, named, snap, boot, arriving, closing>>

(* The server is started anew: tmux sessions stay, web sessions do not.    *)
ServerRestarts ==
    /\ web' = [i \in Ids |-> Nothing]
    /\ UNCHANGED <<alive, tabs, named, snap, boot, arriving, closing, owed>>

SessionsNext ==
    \/ Load \/ FetchLive \/ RestorePlain \/ RestoreFails \/ RestoreEnds
    \/ FetchTmux \/ AttachRefused \/ AttachRejected \/ FillEnds
    \/ OpenWebSessions \/ NoWebSessions \/ ListTmux \/ AttachEnds
    \/ ListRejected \/ CreateSession
    \/ \E i \in Ids : \/ RestoreTmux(i)
                      \/ FillTmux(i)
                      \/ AttachNext(i)
                      \/ ClickTab(i)
                      \/ CloseTab(i)
                      \/ CloseAnswered(i)
                      \/ Request(i, "plain", Plain)
                      \/ \E n \in Tmux : Request(i, "create", n) \/ Request(i, "attach", n)
    \/ \E a \in arriving : Answer(a) \/ AnswerLost(a)
    \/ \E k, l \in DOMAIN tabs : DragTab(k, l)
    \/ \E n \in Tmux : TmuxStarts(n) \/ TmuxEnds(n)
    \/ ServerRestarts

SessionsSpec == SessionsInit /\ [][SessionsNext]_sessionsVars

-----------------------------------------------------------------------------
(* session.js:39, boot.js:153: a tab of a tmux session knows the name of   *)
(* that session, whichever of the seven ways opened it; without it the     *)
(* session cannot be opened on the Mac and its pane is not found again.    *)
TabKnowsTmux ==
    \A i \in DOMAIN named : web[i] \in Tmux => named[i] = web[i]

(* workspace.js:111, boot.js:163: when booting has ended, every tmux       *)
(* session that the server listed has a tab, whatever was opened and       *)
(* closed meanwhile, but for one that was refused, has ended or was closed *)
(* by the user, and those whose turn had not passed when a request to      *)
(* attach was rejected.  With no such request it is all of them; after one *)
(* it is those that had a tab before the loop and those tried before it.   *)
BootShowsAllTmux ==
    boot.step = "ready" => owed \subseteq NamesShown
=============================================================================
