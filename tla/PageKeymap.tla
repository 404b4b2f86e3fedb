------------------------------ MODULE PageKeymap ------------------------------
(***************************************************************************)
(* The keyboard shortcuts (src/frontend/js/core/keymap.js) and the screen  *)
(* that changes them (panels/settings.js).                                 *)
(*                                                                         *)
(* Every action has a combination of keys, its own or the user's; pressed, *)
(* it runs the first action that has it, and goes on to the terminal only  *)
(* if the user asked for that.  Some combinations the browser keeps to     *)
(* itself unless the page runs as an app.                                  *)
(*                                                                         *)
(* A combination is written in two ways: as in the table of the actions,   *)
(* or as comboFromEvent spells a key that was pressed; normalize makes     *)
(* them one.                                                               *)
(*                                                                         *)
(* X_... are slips of X: what a plausible mistake would make of it.        *)
(***************************************************************************)
EXTENDS Integers

CONSTANTS NumActions, \* ACTIONS, in the order of the list; the first opens the settings
          Combos,
          Escape,     \* a key that cancels a recording and is bound to nothing
          Given,      \* the combination each action has by itself
          Reserved    \* the combinations the browser takes

VARIABLES overrides,  \* what the user changed: [binding, passthrough]
          standalone, \* the page runs as an app
          settingsOpen,
          recording   \* the actions that wait for their new combination

keymapVars == <<overrides, standalone, settingsOpen, recording>>

Actions == 1..NumActions
Settings == 1
NoOverride == [binding |-> Escape, passthrough |-> FALSE]

KeymapTypeOK ==
    /\ overrides \in [Actions -> [binding : Combos \cup {Escape}, passthrough : BOOLEAN]]
    /\ standalone \in BOOLEAN /\ settingsOpen \in BOOLEAN
    /\ recording \subseteq Actions

KeymapInit ==
    /\ overrides = [a \in Actions |-> NoOverride]
    /\ standalone \in BOOLEAN
    /\ settingsOpen = FALSE /\ recording = {}

-----------------------------------------------------------------------------
(* getBinding: the user's combination, as it was pressed, or the table's.  *)
Spelled(a) ==
    IF overrides[a].binding = Escape THEN [key |-> Given[a], pressed |-> FALSE]
    ELSE [key |-> overrides[a].binding, pressed |-> TRUE]
ComboOf(a) == Spelled(a).key

(* The browser's combinations are listed in the spelling of the table.     *)
Unavailable(a) ==
    Spelled(a) \in [key : Reserved, pressed : {FALSE}] /\ ~standalone

(* match: the first of the list; 0 if there is none.                       *)
Having(k) == {a \in Actions : ~Unavailable(a) /\ ComboOf(a) = k}
Match(k) ==
    IF Having(k) = {} THEN 0 ELSE CHOOSE a \in Having(k) : \A b \in Having(k) : a <= b

Conflicts_OfTheChanged ==
    {a \in Actions : \E b \in Actions : b # a /\ overrides[a].binding # Escape
                                             /\ overrides[a].binding = overrides[b].binding}

(* conflicts: the actions that share the combination of another.           *)
Conflicts == {a \in Actions : \E b \in Actions : b # a /\ ComboOf(a) = ComboOf(b)}

-----------------------------------------------------------------------------
(* showSettings: shown again, the panel closes.  The combinations that are *)
(* being recorded go on being recorded.                                    *)
ShowSettings ==
    /\ settingsOpen' = ~settingsOpen
    /\ UNCHANGED <<overrides, standalone, recording>>

(* startRebind; the controls of renderKeymapSection.                       *)
StartRebind(a) ==
    /\ settingsOpen
    /\ recording' = recording \cup {a}
    /\ UNCHANGED <<overrides, standalone, settingsOpen>>

SetPassthrough(a, on) ==
    /\ settingsOpen
    /\ overrides' = [overrides EXCEPT ![a].passthrough = on]
    /\ UNCHANGED <<standalone, settingsOpen, recording>>

Reset(a) ==
    /\ settingsOpen
    /\ overrides' = [overrides EXCEPT ![a] = NoOverride]
    /\ UNCHANGED <<standalone, settingsOpen, recording>>

(* A key that the browser does not keep: handleKeydown listens first and   *)
(* runs the action, if one is registered for it (none is for "viewer" and  *)
(* "paste", keymap.js:182), then every recording takes the key; the        *)
(* terminal gets it if neither kept it.                                    *)
Press(k) ==
    /\ k \in Reserved => standalone
    /\ k = Escape => recording # {}
    /\ settingsOpen' = (IF Match(k) = Settings THEN ~settingsOpen ELSE settingsOpen)
    /\ overrides' = [a \in Actions |->
           IF a \in recording /\ k # Escape THEN [overrides[a] EXCEPT !.binding = k]
           ELSE overrides[a]]
    /\ recording' = {}
    /\ UNCHANGED standalone

(* load(): the settings of another device, where the page may be an app.   *)
OverridesArrive(a, k) ==
    /\ overrides' = [overrides EXCEPT ![a].binding = k]
    /\ UNCHANGED <<standalone, settingsOpen, recording>>

KeymapNext ==
    \/ ShowSettings
    \/ \E a \in Actions :
        \/ StartRebind(a)
        \/ \E on \in BOOLEAN : SetPassthrough(a, on)
        \/ Reset(a)
        \/ \E k \in Combos : OverridesArrive(a, k)
    \/ \E k \in Combos \cup {Escape} : Press(k)

KeymapSpec == KeymapInit /\ [][KeymapNext]_keymapVars

-----------------------------------------------------------------------------
(* core/keymap.js:85: an action that its own combination does not run,     *)
(* because another takes it, is one that the settings screen warns of; one *)
(* the browser takes it from is marked as well.                            *)
ShadowWarned ==
    \A a \in Actions :
        Match(ComboOf(a)) # a => a \in Conflicts \/ Unavailable(a)

(* core/keymap.js:14 and its test (keymap.test.js:146): an action the user *)
(* gives a combination of the browser's is marked, unless the page runs as *)
(* an app.                                                                 *)
UnavailableMarked ==
    \A a \in Actions :
        ComboOf(a) \in Reserved /\ ~standalone => Unavailable(a)
=============================================================================
