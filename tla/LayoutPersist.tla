----------------------------- MODULE LayoutPersist -----------------------------
(***************************************************************************)
(* Keeping the panes of a page (src/frontend/js/layout/persist.js).        *)
(*                                                                         *)
(* The panes and the sessions in them are written to localStorage and to   *)
(* the server a little after each change, and read back when the page is   *)
(* loaded and its tabs are open: the local copy at once, the server's when *)
(* it answers, if it is newer.  Sessions have other ids by then, or none:  *)
(* a pane is saved with the id and the tmux name of its session.           *)
(*                                                                         *)
(* The tree of panes is its leaves in order; PageLayout has the tree.      *)
(*                                                                         *)
(* X_... are slips of X: what a plausible mistake would make of it.        *)
(***************************************************************************)
EXTENDS Integers, Sequences, FiniteSets, SequencesExt

CONSTANTS TmuxSessions,   \* they outlive the server
          PlainSessions,  \* they do not
          Empty,
          MaxLeaves,      \* bound: panes
          MaxSaves        \* bound: savedAt

VARIABLES running,  \* the sessions there are
          opened,   \* the page's tabs, in the order of the store
          leaves,   \* the panes: sessions or Empty
          phase,    \* "booting", "asking" the server, "on", or "off": onboarding
          enabled,  \* _enabled
          timer,    \* a save is due
          compared, \* savedAt of the copy that restoreLayout has read
          local,    \* the copies: [leaves, at], at = 0 if there is none
          remote

persistVars == <<running, opened, leaves, phase, enabled, timer,
                 compared, local, remote>>

AllSessions == TmuxSessions \cup PlainSessions
Saved == [session : AllSessions, tmux : BOOLEAN]
NoCopy == [leaves |-> <<>>, at |-> 0]

PersistTypeOK ==
    /\ running \subseteq AllSessions
    /\ opened \in Seq(AllSessions)
    /\ leaves \in Seq(AllSessions \cup {Empty}) /\ Len(leaves) \in 1..MaxLeaves
    /\ phase \in {"booting", "asking", "on", "off"}
    /\ enabled \in BOOLEAN /\ timer \in BOOLEAN /\ compared \in 0..MaxSaves
    /\ \A copy \in {local, remote} :
           copy \in [leaves : Seq(Saved \cup {Empty}), at : 0..MaxSaves]

PersistInit ==
    /\ running = AllSessions
    /\ opened = <<>> /\ leaves = <<Empty>>
    /\ phase = "booting" /\ enabled = FALSE /\ timer = FALSE
    /\ compared = 0 /\ local = NoCopy /\ remote = NoCopy

-----------------------------------------------------------------------------
(* serializeTree and _lookupLive: the name of a tmux session is known      *)
(* while it has a tab.                                                     *)
Serialize(ls) ==
    [k \in DOMAIN ls |->
        IF ls[k] = Empty THEN Empty
        ELSE [session |-> ls[k], tmux |-> ls[k] \in TmuxSessions /\ ls[k] \in ToSet(opened)]]

(* makeResolver: by the tmux name; an id that was saved without one is     *)
(* that of a plain session, or of a closed tab and names nothing any more. *)
Resolve(info) ==
    IF /\ info # Empty
       /\ info.session \in ToSet(opened)
       /\ info.tmux \/ info.session \in PlainSessions
    THEN info.session ELSE Empty

(* deserializeTree: a session goes to the first pane that names it.        *)
Deserialize(saved) ==
    [k \in DOMAIN saved |->
        LET s == Resolve(saved[k])
        IN  IF \E j \in 1..(k - 1) : Resolve(saved[j]) = s THEN Empty ELSE s]

Spare_Any(ls) == DOMAIN opened

(* _fillEmptyLeaves: empty panes get the open sessions that have none, in  *)
(* order: the first empty pane the first of them, and so on.               *)
Spare(ls) == {i \in DOMAIN opened : opened[i] \notin ToSet(ls)}
Rank(S, k) == Cardinality({j \in S : j <= k})
Fill(ls) ==
    LET empties == {k \in DOMAIN ls : ls[k] = Empty}
        for(k)  == {i \in Spare(ls) : Rank(Spare(ls), i) = Rank(empties, k)}
    IN  [k \in DOMAIN ls |->
            IF k \in empties /\ for(k) # {} THEN opened[CHOOSE i \in for(k) : TRUE] ELSE ls[k]]

(* _applySnapshot: replaceTree tells its listeners, so that a save is due. *)
Apply(copy) == /\ leaves' = Fill(Deserialize(copy.leaves))
               /\ timer' = TRUE
Unapplied == UNCHANGED <<leaves, timer>>

-----------------------------------------------------------------------------
(* A page is loaded, with the tabs it finds (PageSessions).                *)
StartRestore ==
    /\ \E S \in SUBSET running : \E o \in SetToSeqs(S) : opened' = o
    /\ leaves' = IF opened' = <<>> THEN <<Empty>> ELSE <<Last(opened')>>
    /\ phase' = "booting" /\ enabled' = FALSE /\ timer' = FALSE
    /\ compared' = 0
    /\ UNCHANGED <<running, local, remote>>

(* restoreLayout, as far as it goes without the server. *)
RestoreLocal ==
    /\ phase = "booting"
    /\ IF local.at # 0 THEN Apply(local) ELSE Unapplied
    /\ compared' = local.at
    /\ enabled' = TRUE
    /\ phase' = "asking"
    /\ UNCHANGED <<running, opened, local, remote>>

(* The paths of bootApp that never call it. *)
SkipRestore ==
    /\ phase = "booting"
    /\ phase' = "off"
    /\ UNCHANGED <<running, opened, leaves, enabled, timer, compared, local, remote>>

(* The server's copy, compared with the local one as it was read before    *)
(* the request, or no answer.                                              *)
RestoreRemote ==
    /\ phase = "asking"
    /\ IF remote.at > compared THEN Apply(remote) ELSE Unapplied
    /\ phase' = "on" /\ compared' = 0
    /\ UNCHANGED <<running, opened, enabled, local, remote>>

RestoreUnanswered ==
    /\ phase = "asking"
    /\ phase' = "on" /\ compared' = 0
    /\ UNCHANGED <<running, opened, leaves, enabled, timer, local, remote>>

-----------------------------------------------------------------------------
(* The user's changes: each tells _scheduleSave. *)
Change(ls) == /\ leaves' = ls
              /\ timer' = TRUE
              /\ UNCHANGED <<running, opened, phase, enabled, compared, local, remote>>

ShowIn(k, s) ==
    /\ s \in ToSet(opened)
    /\ Change([j \in DOMAIN leaves |->
                  IF j = k THEN s ELSE IF leaves[j] = s THEN Empty ELSE leaves[j]])
SplitAt(k) == /\ Len(leaves) < MaxLeaves
              /\ Change(InsertAt(leaves, k + 1, Empty))
CloseLeaf(k) == Change(IF Len(leaves) = 1 THEN <<Empty>> ELSE RemoveAt(leaves, k))

(* A tab is closed: the pane keeps the id, nothing is told.                *)
CloseSession(k) ==
    /\ opened' = RemoveAt(opened, k)
    /\ running' = running \ ({opened[k]} \cap PlainSessions)
    /\ UNCHANGED <<leaves, phase, enabled, timer, compared, local, remote>>

(* saveLayoutNow: the local copy, and the server's if it gets there.        *)
Now == 1 + CHOOSE n \in 0..MaxSaves : /\ n \in {c.at : c \in {local, remote}}
                                      /\ \A c \in {local, remote} : c.at <= n
TimerFires ==
    /\ timer
    /\ timer' = FALSE
    /\ IF enabled /\ Now <= MaxSaves
       THEN /\ local' = [leaves |-> Serialize(leaves), at |-> Now]
            /\ remote' \in {local', remote}
       ELSE UNCHANGED <<local, remote>>
    /\ UNCHANGED <<running, opened, leaves, phase, enabled, compared>>

(* A page on another device saves its panes. *)
OtherSaves ==
    /\ Now <= MaxSaves
    /\ \E n \in 1..MaxLeaves : \E ls \in [1..n -> AllSessions \cup {Empty}] :
           /\ \A j, k \in 1..n : ls[j] = ls[k] /\ ls[j] # Empty => j = k
           /\ remote' = [at |-> Now, leaves |-> [k \in 1..n |->
                             IF ls[k] = Empty THEN Empty
                             ELSE [session |-> ls[k], tmux |-> ls[k] \in TmuxSessions]]]
    /\ UNCHANGED <<running, opened, leaves, phase, enabled, timer, compared, local>>

(* The server is started anew: plain sessions end. *)
ServerStarts ==
    /\ running' = running \ PlainSessions
    /\ UNCHANGED <<opened, leaves, phase, enabled, timer, compared, local, remote>>

PersistNext ==
    \/ StartRestore \/ RestoreLocal \/ SkipRestore \/ RestoreRemote \/ RestoreUnanswered
    \/ \E k \in DOMAIN leaves : \/ SplitAt(k)
                                \/ CloseLeaf(k)
                                \/ \E s \in AllSessions : ShowIn(k, s)
    \/ \E k \in DOMAIN opened : CloseSession(k)
    \/ TimerFires
    \/ OtherSaves
    \/ ServerStarts

PersistSpec == PersistInit /\ [][PersistNext]_persistVars

-----------------------------------------------------------------------------
(* persist.js:8: whatever happened to the page and the server between the  *)
(* save and the load, a pane that was saved with a tmux session shows that *)
(* session again if it has a tab; no session is in two panes; and no pane  *)
(* stays empty while there is a session that is in none.                   *)
KeepsPlace(copy, ls) ==
    \A k \in DOMAIN ls :
        copy.leaves[k] # Empty /\ copy.leaves[k].tmux /\ copy.leaves[k].session \in ToSet(opened)
            => ls[k] = copy.leaves[k].session
Full(ls) ==
    /\ \A j, k \in DOMAIN ls : ls[j] = ls[k] /\ ls[j] # Empty => j = k
    /\ Empty \in ToSet(ls) => ToSet(opened) \subseteq ToSet(ls)
RestoresPanes ==
    /\ RestoreLocal /\ local.at # 0 => KeepsPlace(local, leaves') /\ Full(leaves')
    /\ RestoreRemote /\ remote.at > compared => KeepsPlace(remote, leaves') /\ Full(leaves')
LayoutRestored == [][RestoresPanes]_persistVars
=============================================================================
