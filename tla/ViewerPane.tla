------------------------------ MODULE ViewerPane ------------------------------
(***************************************************************************)
(* The pane of the code viewer beside its tree: files, git status, staging *)
(* and commits, diffs and the log                                          *)
(* (src/frontend/js/panels/viewer/git.js, file.js, diff.js).               *)
(*                                                                         *)
(* Each click asks the server and shows what it answers, whatever the pane *)
(* shows by then.  The log below the status is asked for page by page, and *)
(* goes on being asked for when the pane shows something else.  The agent  *)
(* in the terminal edits and commits in the same repository.               *)
(*                                                                         *)
(* One file stands for all; the contents of the views are left out.        *)
(*                                                                         *)
(* X_... are slips of X: what a plausible mistake would make of it.        *)
(***************************************************************************)
EXTENDS Integers, Sequences, FiniteSets

CONSTANTS Page,       \* commits of a page of the log
          MaxCommits, \* bound: commits of the repository
          MaxAwaited  \* bound: answers awaited at one time

VARIABLES inPane,   \* what the pane shows
          awaited,  \* views that were asked for
          index,    \* the file: "clean", "changed" or "staged"
          total,    \* commits of the repository, 1 the oldest
          listed,   \* the file in the status that is shown
          busy,     \* buttons of the status that wait
          sent,     \* "stage" and "commit" awaited; bound: one of each
          log,      \* the log that is shown: [commits, more], more: the skip of its button
          logAsks   \* pages awaited: [skip, here], here: for the log that is shown

paneVars == <<inPane, awaited, index, total, listed, busy, sent, log, logAsks>>

Views == {"file", "git", "diff", "commit", "commitFile"}
NoMore == -1
NoLog == [commits |-> <<>>, more |-> NoMore]

PaneTypeOK ==
    /\ inPane \in Views \cup {"empty", "loading", "message"}
    /\ awaited \subseteq Views
    /\ index \in {"clean", "changed", "staged"} /\ listed \in {"clean", "changed", "staged"}
    /\ total \in 1..MaxCommits
    /\ busy \subseteq {"stage", "commit"} /\ sent \subseteq {"stage", "commit"}
    /\ \A k \in DOMAIN log.commits : log.commits[k] \in 1..MaxCommits
    /\ log.more \in {NoMore} \cup 0..MaxCommits
    /\ logAsks \subseteq [skip : 0..MaxCommits, here : BOOLEAN]

PaneInit ==
    /\ inPane = "empty" /\ awaited = {} /\ busy = {} /\ sent = {}
    /\ index = "clean" /\ listed = "clean" /\ total = 1
    /\ log = NoLog /\ logAsks = {}

-----------------------------------------------------------------------------
(* The pane is emptied: the log in it is gone, its pages still come.       *)
Away == {[a EXCEPT !.here = FALSE] : a \in logAsks}
Emptied(what) ==
    /\ inPane' = what
    /\ log' = NoLog /\ busy' = {}

(* openFile, showGit, _showFileDiff, _showCommit, _showCommitFileDiff up   *)
(* to their awaits; the buttons that lead to them are in the tree, the     *)
(* status, the log and the commit.                                         *)
MayShow(v) ==
    CASE v = "file" -> TRUE
      [] v = "git" -> TRUE
      [] v = "diff" -> inPane = "git" /\ listed # "clean"
      [] v = "commit" -> inPane = "commitFile" \/ (inPane = "git" /\ log.commits # <<>>)
      [] v = "commitFile" -> inPane = "commit"

Show(v) ==
    /\ MayShow(v)
    /\ Cardinality(awaited \cup {v}) <= MaxAwaited
    /\ Emptied("loading")
    /\ awaited' = awaited \cup {v}
    /\ logAsks' = Away
    /\ UNCHANGED <<index, total, listed, sent>>

(* ... and after them.  The status is followed by the first page of a log. *)
Shown(v) ==
    /\ v \in awaited
    /\ awaited' = awaited \ {v}
    /\ Emptied(v)
    /\ IF v = "git" THEN listed' = index /\ logAsks' = Away \cup {[skip |-> 0, here |-> TRUE]}
       ELSE logAsks' = Away /\ UNCHANGED listed
    /\ UNCHANGED <<index, total, sent>>

(* It failed, there is no difference, the file is binary.                  *)
ShownAsMessage(v) ==
    /\ v \in awaited
    /\ awaited' = awaited \ {v}
    /\ Emptied("message")
    /\ logAsks' = Away
    /\ UNCHANGED <<index, total, listed, sent>>

-----------------------------------------------------------------------------
(* _renderCommitLog: its button is taken away while the next page is asked *)
(* for ...                                                                 *)
More ==
    /\ log.more # NoMore
    /\ logAsks' = logAsks \cup {[skip |-> log.more, here |-> TRUE]}
    /\ log' = [log EXCEPT !.more = NoMore]
    /\ UNCHANGED <<inPane, awaited, index, total, listed, busy, sent>>

NextSkip_OneTooFar(skip, n) == skip + n + 1

(* ... which goes into the log it was asked for, and has a button of its   *)
(* own if there are more.                                                  *)
Commits(skip) == [k \in 1..(IF total - skip < Page THEN total - skip ELSE Page) |->
                      total - skip - k + 1]
PageOf(skip) == IF skip < total THEN Commits(skip) ELSE <<>>
NextSkip(skip, n) == skip + n
ForShown(a) == a.here

LogAnswered(a) ==
    /\ a \in logAsks
    /\ logAsks' = logAsks \ {a}
    /\ LET page == PageOf(a.skip)
           next == NextSkip(a.skip, Len(page))
       IN  log' = IF ~ForShown(a) \/ page = <<>> THEN log
                  ELSE [commits |-> log.commits \o page,
                        more |-> IF a.skip + Page < total THEN next ELSE NoMore]
    /\ UNCHANGED <<inPane, awaited, index, total, listed, busy, sent>>

LogFails(a) ==
    /\ a \in logAsks
    /\ logAsks' = logAsks \ {a}
    /\ UNCHANGED <<inPane, awaited, index, total, listed, busy, sent, log>>

-----------------------------------------------------------------------------
(* The button of _gitRowEl, and _doCommit, whose button is enabled if the  *)
(* status showed something staged: pressed, they wait.                     *)
MayPress(b) ==
    /\ inPane = "git" /\ b \notin busy \cup sent
    /\ IF b = "stage" THEN listed # "clean" ELSE listed = "staged"

Press(b) ==
    /\ MayPress(b)
    /\ busy' = busy \cup {b} /\ sent' = sent \cup {b}
    /\ UNCHANGED <<inPane, awaited, index, total, listed, log, logAsks>>

(* The repository does it, and the status is shown, in place of whatever   *)
(* the pane shows by then; or it does not, and the button, if it is still  *)
(* there, can be pressed again.                                            *)
Done(b) ==
    /\ b \in sent
    /\ sent' = sent \ {b}
    /\ IF b = "stage"
       THEN /\ index' \in (IF index = "clean" THEN {"clean"} ELSE {"changed", "staged"})
            /\ UNCHANGED total
       ELSE index = "staged" /\ total < MaxCommits /\ index' = "clean" /\ total' = total + 1
    /\ Cardinality(awaited \cup {"git"}) <= MaxAwaited
    /\ Emptied("loading")
    /\ awaited' = awaited \cup {"git"} /\ logAsks' = Away
    /\ UNCHANGED listed

NotDone(b) ==
    /\ b \in sent
    /\ sent' = sent \ {b} /\ busy' = busy \ {b}
    /\ UNCHANGED <<inPane, awaited, index, total, listed, log, logAsks>>

(* What the agent does in the terminal.                                    *)
AgentEdits ==
    /\ index = "clean"
    /\ index' = "changed"
    /\ UNCHANGED <<inPane, awaited, total, listed, busy, sent, log, logAsks>>

AgentCommits ==
    /\ total < MaxCommits
    /\ total' = total + 1 /\ index' = "clean"
    /\ UNCHANGED <<inPane, awaited, listed, busy, sent, log, logAsks>>

(* closePanel and showViewer: another pane; every answer that still comes  *)
(* is shown in it, for the pane is looked up when the answer was asked for *)
(* and the one that is gone shows nothing.                                 *)
ReopenViewer ==
    /\ Emptied("empty")
    /\ awaited' = {} /\ logAsks' = Away
    /\ UNCHANGED <<index, total, listed, sent>>

PaneNext ==
    \/ \E v \in Views : Show(v) \/ Shown(v) \/ ShownAsMessage(v)
    \/ More \/ \E a \in logAsks : LogAnswered(a) \/ LogFails(a)
    \/ \E b \in {"stage", "commit"} : Press(b) \/ Done(b) \/ NotDone(b)
    \/ AgentEdits \/ AgentCommits
    \/ ReopenViewer

PaneSpec == PaneInit /\ [][PaneNext]_paneVars

-----------------------------------------------------------------------------
(* git.js:169: the pages of a log, put one after another, leave out no     *)
(* commit, though pages of other logs and of the same one come late and    *)
(* commits are added between them; those show one twice.                   *)
LogNoGap ==
    \A k \in 1..(Len(log.commits) - 1) : log.commits[k + 1] >= log.commits[k] - 1
=============================================================================
