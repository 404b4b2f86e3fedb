------------------------------ MODULE ViewerTree ------------------------------
(***************************************************************************)
(* The tree of folders of the code viewer                                  *)
(* (src/frontend/js/panels/viewer/tree.js, shell.js).                      *)
(*                                                                         *)
(* The tree is one list of rows.  Opening a folder asks the server for its *)
(* entries and puts them right after its row, closing it takes away the    *)
(* rows after it that lie below its path.  Going to another folder draws   *)
(* the list anew.  Nothing waits for an earlier answer: a folder may be    *)
(* closed, its row taken away, or the viewer closed, before its entries    *)
(* come.                                                                   *)
(*                                                                         *)
(* Left out: notes and files' sizes in the rows.  Two requests that are    *)
(* equal and awaited at one time are one.                                  *)
(*                                                                         *)
(* X_... are slips of X: what a plausible mistake would make of it.        *)
(***************************************************************************)
EXTENDS Integers, Sequences, FiniteSets, SequencesExt, FiniteSetsExt

CONSTANTS Nodes,     \* the paths of the files and folders, as sequences of names
          Folders,   \* those that are folders, and <<>>, the highest one
          Start,     \* the folder the server lets the viewer start in
          MaxRows,   \* bound: rows of the tree
          MaxAsks    \* bound: answers awaited at one time

VARIABLES shownTree, \* the viewer is open
          root,      \* _viewerState.root
          expanded,  \* _viewerState.expanded
          rows,      \* the rows: [path, dir, depth, asks], asks answers awaited
          lost,      \* folders whose row is gone while their answer is awaited
          navs,      \* folders to go to, awaited: [to, here], here: this viewer
          starts     \* first lists awaited: [step, of, here], here: for this viewer

treeVars == <<shownTree, root, expanded, rows, lost, navs, starts>>

Paths == {p \o q : p \in Nodes \cup {<<>>}, q \in {<<>>} \cup {<<Last(n)>> : n \in Nodes}}

TreeTypeOK ==
    /\ shownTree \in BOOLEAN /\ root \in Folders
    /\ expanded \subseteq Paths /\ lost \subseteq Paths
    /\ rows \in Seq([path : Paths, dir : BOOLEAN, depth : Nat, asks : Nat])
    /\ navs \subseteq [to : Folders, here : BOOLEAN]
    /\ starts \subseteq [step : {"roots", "tree"}, of : Folders, here : BOOLEAN]

TreeInit ==
    /\ shownTree = FALSE /\ root = Start /\ expanded = {} /\ rows = <<>>
    /\ lost = {} /\ navs = {} /\ starts = {}

-----------------------------------------------------------------------------
(* What the server answers for a folder, as rows below a path.  The        *)
(* entries come in an order of their own, the same each time.              *)
Names(dir) == SetToSeq({Last(n) : n \in {m \in Nodes : Front(m) = dir}})
RowsOf(dir, under, depth) ==
    [k \in DOMAIN Names(dir) |->
        [path |-> Append(under, Names(dir)[k]), depth |-> depth, asks |-> 0,
         dir |-> Append(dir, Names(dir)[k]) \in Folders]]

Asked == Cardinality(navs) + Cardinality(starts) + Cardinality(lost)
           + FoldSeq(LAMBDA r, n : r.asks + n, 0, rows)
MayAsk == Asked < MaxAsks

Awaited(rs) == {rs[k].path : k \in {j \in DOMAIN rs : rs[j].asks > 0}}

-----------------------------------------------------------------------------
(* showViewer: a new tree, nothing expanded, and the roots asked for; open,*)
(* it closes.  The answers that are still to come find another tree.       *)
Elsewhere(asks) == {[a EXCEPT !.here = FALSE] : a \in asks}

ShowViewer ==
    /\ rows' = <<>>
    /\ lost' = lost \cup Awaited(rows)
    /\ navs' = Elsewhere(navs)
    /\ IF shownTree
       THEN shownTree' = FALSE /\ starts' = Elsewhere(starts) /\ UNCHANGED expanded
       ELSE /\ MayAsk
            /\ shownTree' = TRUE /\ expanded' = {}
            /\ starts' = Elsewhere(starts)
                            \cup {[step |-> "roots", of |-> Start, here |-> TRUE]}
    /\ UNCHANGED root

(* _renderTopLevel, or a message in place of the rows.                     *)
DrawnAnew(rs) ==
    /\ rows' = rs
    /\ lost' = lost \cup Awaited(rows)
TopLevel(dir, under) == DrawnAnew(RowsOf(dir, under, 0))

(* _renderRootTree looks up the tree there is when the roots have come.    *)
RootsAnswered(s) ==
    /\ s \in starts /\ s.step = "roots"
    /\ root' = Start
    /\ starts' = (starts \ {s}) \cup {[s EXCEPT !.step = "tree", !.here = shownTree]}
    /\ UNCHANGED <<shownTree, expanded, rows, lost, navs>>

(* ... and puts the entries of the root it asked about into it, under the  *)
(* root there is by then.                                                  *)
StartAnswered(s) ==
    /\ s \in starts /\ s.step = "tree"
    /\ starts' = starts \ {s}
    /\ IF s.here THEN TopLevel(s.of, root) ELSE UNCHANGED <<rows, lost>>
    /\ UNCHANGED <<shownTree, root, expanded, navs>>

StartFails(s) ==
    /\ s \in starts
    /\ starts' = starts \ {s}
    /\ IF s.here THEN DrawnAnew(<<>>) ELSE UNCHANGED <<rows, lost>>
    /\ UNCHANGED <<shownTree, root, expanded, navs>>

(* _navigateRoot: from the path that was typed, the row "..", or the       *)
(* folder the terminal is in.                                              *)
Navigate(p) ==
    /\ shownTree /\ MayAsk
    /\ navs' = navs \cup {[to |-> p, here |-> TRUE]}
    /\ UNCHANGED <<shownTree, root, expanded, rows, lost, starts>>

GoUpRoot == root # <<>> /\ Navigate(Front(root))

NavigateAnswered(n) ==
    /\ n \in navs
    /\ navs' = navs \ {n}
    /\ root' = n.to /\ expanded' = {}
    /\ IF n.here THEN TopLevel(n.to, n.to) ELSE UNCHANGED <<rows, lost>>
    /\ UNCHANGED <<shownTree, starts>>

NavigateFails(n) ==
    /\ n \in navs
    /\ navs' = navs \ {n}
    /\ UNCHANGED <<shownTree, root, expanded, rows, lost, starts>>

-----------------------------------------------------------------------------
(* _collapseDir: the rows that follow and lie below the path.              *)
BlockEnd(rs, i) ==
    Max({i} \cup {m \in (i + 1)..Len(rs) :
                    \A j \in (i + 1)..m : IsStrictPrefix(rs[i].path, rs[j].path)})

Collapse(i) ==
    LET e == BlockEnd(rows, i)
    IN  /\ rows' = SubSeq(rows, 1, i) \o SubSeq(rows, e + 1, Len(rows))
        /\ lost' = lost \cup Awaited(SubSeq(rows, i + 1, e))
        /\ expanded' = {p \in expanded : ~IsPrefix(rows[i].path, p)}

(* _toggleDir: a folder that is expanded is closed, though its entries may *)
(* not have come yet; else it is expanded and they are asked for.          *)
ToggleDir(i) ==
    /\ rows[i].dir
    /\ IF rows[i].path \in expanded THEN Collapse(i)
       ELSE /\ MayAsk
            /\ expanded' = expanded \cup {rows[i].path}
            /\ rows' = [rows EXCEPT ![i].asks = @ + 1]
            /\ UNCHANGED lost
    /\ UNCHANGED <<shownTree, root, navs, starts>>

InsertAfter_AtTheEnd(rs, i, new) == rs \o new

InsertAfter(rs, i, new) == SubSeq(rs, 1, i) \o new \o SubSeq(rs, i + 1, Len(rs))

DirAnswered(i) ==
    /\ rows[i].asks > 0 /\ rows[i].path \in Folders
    /\ LET new == RowsOf(rows[i].path, rows[i].path, rows[i].depth + 1)
       IN  /\ Len(rows) + Len(new) <= MaxRows
           /\ rows' = InsertAfter([rows EXCEPT ![i].asks = @ - 1], i, new)
    /\ UNCHANGED <<shownTree, root, expanded, lost, navs, starts>>

DirFails(i) ==
    /\ rows[i].asks > 0
    /\ rows' = [rows EXCEPT ![i].asks = @ - 1]
    /\ expanded' = expanded \ {rows[i].path}
    /\ UNCHANGED <<shownTree, root, lost, navs, starts>>

(* A row that is gone is put nothing after; its failure is still noted.    *)
LostAnswered(p, ok) ==
    /\ p \in lost
    /\ lost' = lost \ {p}
    /\ expanded' = IF ok THEN expanded ELSE expanded \ {p}
    /\ UNCHANGED <<shownTree, root, rows, navs, starts>>

TreeNext ==
    \/ ShowViewer
    \/ \E s \in starts : RootsAnswered(s) \/ StartAnswered(s) \/ StartFails(s)
    \/ GoUpRoot \/ \E p \in Folders : Navigate(p)
    \/ \E n \in navs : NavigateAnswered(n) \/ NavigateFails(n)
    \/ \E i \in DOMAIN rows : ToggleDir(i) \/ DirAnswered(i) \/ DirFails(i)
    \/ \E p \in lost : \E ok \in BOOLEAN : LostAnswered(p, ok)

TreeSpec == TreeInit /\ [][TreeNext]_treeVars

-----------------------------------------------------------------------------
(* tree.js:270: closing a folder takes away what follows it and lies below *)
(* it.  For that to be all of it, an entry is always below a row of its    *)
(* folder with nothing between them that lies elsewhere, in whatever order *)
(* the answers came.                                                       *)
TreeNested ==
    \A i \in DOMAIN rows : rows[i].depth > 0 =>
        \E j \in 1..(i - 1) :
            /\ rows[j].path = Front(rows[i].path) /\ rows[j].depth = rows[i].depth - 1
            /\ \A m \in (j + 1)..i : IsStrictPrefix(rows[j].path, rows[m].path)
=============================================================================
