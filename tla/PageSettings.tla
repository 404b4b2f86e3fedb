----------------------------- MODULE PageSettings -----------------------------
(***************************************************************************)
(* The settings of the page (src/frontend/js/core/settings.js) and the     *)
(* terminals that run under them (term/settings-apply.js, mouse-mode.js).  *)
(*                                                                         *)
(* The server has the settings; the page starts from its own copy of them  *)
(* (localStorage), takes the server's when they arrive, and sends all of   *)
(* its own whenever the user changes one.  Two settings stand for all: one *)
(* that a terminal is told of when it is made, "forward" (mouse reports go *)
(* to the application), and one that it is told of only when it changes,   *)
(* "style" (the cursor's; blink and scrollback are the same).              *)
(*                                                                         *)
(* The page's requests are taken to reach the server in order.             *)
(*                                                                         *)
(* X_... are slips of X: what a plausible mistake would make of it.        *)
(***************************************************************************)
EXTENDS FiniteSets

CONSTANT SettingTabs

VARIABLES vals,     \* _values, and the copy in localStorage: what the user set
          server,   \* what the server has
          loading,  \* load(): "asked", "answered" or "done"
          answer,   \* what it was answered with
          migrated, \* some values were taken over from the older keys
          screens   \* [style, local] of each tab's terminal, Closed

settingsVars == <<vals, server, loading, answer, migrated, screens>>

Legal == [forward |-> {"on", "off"}, style |-> {"block", "bar"}]
Default == [forward |-> "on", style |-> "block"]
Keys == DOMAIN Default
Unset == [k \in Keys |-> "unset"]

(* Another version of the page may have stored what this one cannot use.   *)
Own == [forward : {"unset"} \cup Legal.forward, style : {"unset"} \cup Legal.style]
Any == [forward : {"unset"} \cup Legal.forward, style : {"unset", "odd"} \cup Legal.style]
Closed == [style |-> "none", local |-> FALSE]

SettingsTypeOK ==
    /\ vals \in Own /\ server \in Any /\ answer \in Own
    /\ loading \in {"asked", "answered", "done"}
    /\ migrated \in BOOLEAN
    /\ screens \in [SettingTabs -> [style : Legal.style \cup {"none"}, local : BOOLEAN]]

Coerce_Not(k, x) == x

(* _coerce: what the schema has no room for is no value.                   *)
Coerce(k, x) == IF x \in Legal[k] THEN x ELSE "unset"

Get(v, k) == IF v[k] = "unset" THEN Default[k] ELSE v[k]

(* _initSync: the copy, and the older keys it has nothing for.             *)
SettingsInit ==
    /\ vals \in Own /\ server \in Any
    /\ migrated \in BOOLEAN /\ (migrated => vals # Unset)
    /\ loading = "asked" /\ answer = Unset
    /\ screens = [t \in SettingTabs |-> Closed]

-----------------------------------------------------------------------------
(* applyMouseMode and its notice that the setting changed; the older mode  *)
(* is undone by the function that wiring it returned.                      *)
MouseMode(v) == Get(v, "forward") = "off"

(* _notify: settings-apply.js and mouse-mode.js go over the open terminals.*)
Notified(changed, v) ==
    screens' = [t \in SettingTabs |->
        IF screens[t] = Closed THEN Closed
        ELSE [style |-> IF "style" \in changed THEN Get(v, "style") ELSE screens[t].style,
              local |-> IF "forward" \in changed THEN MouseMode(v) ELSE screens[t].local]]

(* _push: all the values go, and the server keeps the keys it has no new   *)
(* value for; or it fails, and the user is told.                           *)
Push(v) ==
    \/ server' = [k \in Keys |-> IF v[k] = "unset" THEN server[k] ELSE v[k]]
    \/ UNCHANGED server

(* set(), from a control of the settings panel.                            *)
Set(k, x) ==
    /\ Coerce(k, x) # "unset"
    /\ Get(vals, k) # x
    /\ vals' = [vals EXCEPT ![k] = x]
    /\ Notified({k}, vals')
    /\ Push(vals')
    /\ UNCHANGED <<loading, answer, migrated>>

(* load(): asked for when the page starts ...                              *)
Answered ==
    /\ loading = "asked"
    /\ loading' = "answered"
    /\ answer' = [k \in Keys |-> Coerce(k, server[k])]
    /\ UNCHANGED <<vals, server, migrated, screens>>

(* ... the server's values win, unless it has none and the page has just   *)
(* taken over its older ones ...                                           *)
Loaded ==
    /\ loading = "answered"
    /\ loading' = "done" /\ answer' = Unset
    /\ IF answer = Unset /\ migrated
       THEN Push(vals) /\ UNCHANGED <<vals, screens>>
       ELSE vals' = answer /\ Notified(Keys, answer) /\ UNCHANGED server
    /\ UNCHANGED migrated

(* ... or the page goes on with its copy.                                  *)
LoadFails ==
    /\ loading # "done"
    /\ loading' = "done" /\ answer' = Unset
    /\ UNCHANGED <<vals, server, migrated, screens>>

NewScreen_NotWired == [style |-> "block", local |-> FALSE]

(* createXtermInstance and addSession: the terminal is made with a cursor  *)
(* and a scrollback of its own, then put into the mouse mode of the        *)
(* settings.                                                               *)
NewScreen == [style |-> "block", local |-> MouseMode(vals)]

OpenTab(t) ==
    /\ screens[t] = Closed
    /\ screens' = [screens EXCEPT ![t] = NewScreen]
    /\ UNCHANGED <<vals, server, loading, answer, migrated>>

CloseTab(t) ==
    /\ screens[t] # Closed
    /\ screens' = [screens EXCEPT ![t] = Closed]
    /\ UNCHANGED <<vals, server, loading, answer, migrated>>

(* Another device, and this page loaded again: what the older keys had is  *)
(* in the copy by then.                                                    *)
OtherDevice(k, x) ==
    /\ server' = [server EXCEPT ![k] = x]
    /\ UNCHANGED <<vals, loading, answer, migrated, screens>>

Reload ==
    /\ loading' = "asked" /\ answer' = Unset /\ migrated' = FALSE
    /\ screens' = [t \in SettingTabs |-> Closed]
    /\ UNCHANGED <<vals, server>>

SettingsNext ==
    \/ \E k \in Keys : \E x \in Legal[k] : Set(k, x) \/ OtherDevice(k, x)
    \/ OtherDevice("style", "odd")
    \/ Answered \/ Loaded \/ LoadFails
    \/ \E t \in SettingTabs : OpenTab(t) \/ CloseTab(t)
    \/ Reload

SettingsSpec == SettingsInit /\ [][SettingsNext]_settingsVars

-----------------------------------------------------------------------------
(* mouse-mode.js: every open terminal selects by itself exactly when the   *)
(* setting says so, whether the setting came from the copy, the server or  *)
(* the user, before the tab was opened or after.                           *)
MouseModeFollows ==
    \A t \in SettingTabs : screens[t] # Closed =>
        (screens[t].local <=> Get(vals, "forward") = "off")

(* core/settings.js:151: the settings are ready before the first terminal  *)
(* is made because making one reads them; so every open terminal should    *)
(* run under them.                                                         *)
SettingsInForce ==
    \A t \in SettingTabs : screens[t] # Closed => screens[t].style = Get(vals, "style")
=============================================================================
