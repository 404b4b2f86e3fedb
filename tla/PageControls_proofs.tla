-------------------------- MODULE PageControls_proofs --------------------------
(***************************************************************************)
(* What holds of the command palette, the rail and the settings, for any   *)
(* inputs, entries and drawings; and the types of every part of the page.  *)
(*                                                                         *)
(* The page is one part beside the other, so the proofs are about the part *)
(* alone; PartSteps takes its step out of a step of the page.              *)
(***************************************************************************)
EXTENDS PageTerminals_proofs, PageViews_proofs

(* A step of the page is one of the part it is about, which stays.         *)
LEMMA PartSteps ==
    ASSUME [PageNext]_pageVars
    PROVE  /\ part' = part
           /\ part = "palette" => [Palette!QuickNext]_<<v1, v2, v3, v4, v5, v6, v7>>
           /\ part = "rail" => [Rail!RailNext]_<<v1, v2, v3, v4, v5, v6, v7, v8, v9>>
           /\ part = "settings" => [Settings!SettingsNext]_<<v1, v2, v3, v4, v5, v6>>
           /\ part = "keys" => [Keys!KeymapNext]_<<v1, v2, v3, v4>>
           /\ part = "link" => [Link!LinkNext]_<<v1, v2, v3, v4, v5>>
<1>1. CASE UNCHANGED pageVars
    BY <1>1 DEF pageVars
<1>2. CASE PageNext
    BY <1>2 DEF PageNext
<1> QED
    BY <1>1, <1>2

-----------------------------------------------------------------------------
(* The rows of the palette are for what the field has, and the field is    *)
(* empty while the palette is closed.                                      *)
PaletteInv == Palette!ResultsMatchInput /\ (v1 \/ v2 = NoInput)

(* No step of the palette leaves it with rows of another input.            *)
LEMMA PaletteStep ==
    PaletteInv /\ [Palette!QuickNext]_<<v1, v2, v3, v4, v5, v6, v7>> => PaletteInv'
<1> SUFFICES ASSUME PaletteInv, [Palette!QuickNext]_<<v1, v2, v3, v4, v5, v6, v7>>
             PROVE  PaletteInv'
    OBVIOUS
<1> USE DEF PaletteInv, Palette!ResultsMatchInput
<1>1. ASSUME NEW i, Palette!Render(i) PROVE v3'.of = i
    BY <1>1 DEF Palette!Render
<1>2. CASE Palette!OpenQuickOpen
    BY <1>1, <1>2 DEF Palette!OpenQuickOpen, Palette!Close
<1>3. CASE Palette!CandidatesArrive
    BY <1>1, <1>3 DEF Palette!CandidatesArrive
<1>4. CASE Palette!PickRow \/ Palette!ClosePalette
    BY <1>4 DEF Palette!PickRow, Palette!ClosePalette, Palette!Close
<1>5. ASSUME NEW i \in Inputs, Palette!Type(i) PROVE PaletteInv'
    BY <1>1, <1>5 DEF Palette!Type
<1>6. ASSUME NEW i \in Inputs, Palette!PortsAnswered(i) PROVE PaletteInv'
    <2>1. v1' = v1 /\ v2' = v2
        BY <1>6 DEF Palette!PortsAnswered
    <2>2. CASE Palette!StillAsked(i)
        BY <1>6, <2>1, <2>2 DEF Palette!PortsAnswered, Palette!StillAsked
    <2>3. CASE ~Palette!StillAsked(i)
        BY <1>6, <2>1, <2>3 DEF Palette!PortsAnswered
    <2> QED
        BY <2>2, <2>3
<1>7. CASE Palette!GateCloses \/ \E S \in SUBSET WebTabs : Palette!TabsChange(S)
    BY <1>7 DEF Palette!GateCloses, Palette!TabsChange
<1> QED
    BY <1>2, <1>3, <1>4, <1>5, <1>6, <1>7 DEF Palette!QuickNext

(* quickopen.js: whatever answers come in whatever order, the rows of the  *)
(* palette are those of what the field has.                                *)
THEOREM PaletteRowsMatch == PageSpec => []ResultsMatchInput
<1> DEFINE Inv == part = "palette" => PaletteInv
<1>1. PageInit => Inv
    BY DEF PageInit, PaletteInv, Palette!QuickInit, Palette!ResultsMatchInput
<1>2. Inv /\ [PageNext]_pageVars => Inv'
    BY PartSteps, PaletteStep
<1>3. Inv => ResultsMatchInput
    BY DEF PaletteInv, ResultsMatchInput
<1> QED
    BY <1>1, <1>2, <1>3, PTL DEF PageSpec

-----------------------------------------------------------------------------
(* The keys of the settings are two.                                       *)
LEMMA TwoKeys == Settings!Keys = {"forward", "style"}
BY DEF Settings!Keys, Settings!Default

(* Values given key by key are values of the page.                         *)
LEMMA OwnByKeys ==
    ASSUME NEW f, f = [k \in Settings!Keys |-> f[k]],
           f["forward"] \in {"unset", "on", "off"}, f["style"] \in {"unset", "block", "bar"}
    PROVE  f \in Settings!Own
<1>1. f = [forward |-> f["forward"], style |-> f["style"]]
    BY TwoKeys
<1> QED
    BY <1>1 DEF Settings!Own, Settings!Legal

(* And the server may have a style that the page cannot use.               *)
LEMMA AnyByKeys ==
    ASSUME NEW f, f = [k \in Settings!Keys |-> f[k]],
           f["forward"] \in {"unset", "on", "off"},
           f["style"] \in {"unset", "odd", "block", "bar"}
    PROVE  f \in Settings!Any
<1>1. f = [forward |-> f["forward"], style |-> f["style"]]
    BY TwoKeys
<1> QED
    BY <1>1 DEF Settings!Any, Settings!Legal

(* Read key by key, in turn.                                               *)
LEMMA KeyByKey ==
    /\ \A f \in Settings!Own :
          /\ f = [k \in Settings!Keys |-> f[k]]
          /\ f["forward"] \in {"unset", "on", "off"} /\ f["style"] \in {"unset", "block", "bar"}
    /\ \A f \in Settings!Any :
          /\ f = [k \in Settings!Keys |-> f[k]]
          /\ f["forward"] \in {"unset", "on", "off"}
          /\ f["style"] \in {"unset", "odd", "block", "bar"}
BY TwoKeys DEF Settings!Own, Settings!Any, Settings!Legal

(* A legal value is one of the key it is for, and what is legal is kept.   *)
LEMMA LegalByKey ==
    /\ Settings!Legal["forward"] = {"on", "off"} /\ Settings!Legal["style"] = {"block", "bar"}
    /\ \A x : Settings!Coerce("forward", x) \in {"unset", "on", "off"}
    /\ \A x : Settings!Coerce("style", x) \in {"unset", "block", "bar"}
    /\ \A x : Settings!Coerce("forward", x) # "unset" => x \in {"on", "off"}
    /\ \A x : Settings!Coerce("style", x) # "unset" => x \in {"block", "bar"}
BY DEF Settings!Legal, Settings!Coerce

(* The terminals of the tabs, open or not.                                 *)
Screens == [SettingTabs -> [style : {"block", "bar", "none"}, local : BOOLEAN]]

(* Every terminal of those that are open follows the values.               *)
Follow(terms, values) ==
    \A t \in SettingTabs : terms[t] # Settings!Closed =>
        (terms[t].local <=> Settings!Get(values, "forward") = "off")

(* Told of a change, the terminals follow the values, if they followed the *)
(* old ones wherever they were told of no change.                          *)
LEMMA ToldOfChange ==
    ASSUME v6 \in Screens, NEW changed, NEW v \in Settings!Own, NEW old,
           Settings!Notified(changed, v), Follow(v6, old),
           "forward" \in changed \/ Settings!Get(v, "forward") = Settings!Get(old, "forward")
    PROVE  v6' \in Screens /\ Follow(v6', v)
<1> DEFINE told(t) == IF v6[t] = Settings!Closed THEN Settings!Closed
                      ELSE [style |-> IF "style" \in changed THEN Settings!Get(v, "style")
                                      ELSE v6[t].style,
                            local |-> IF "forward" \in changed THEN Settings!MouseMode(v)
                                      ELSE v6[t].local]
<1>1. v6' = [t \in SettingTabs |-> told(t)]
    BY DEF Settings!Notified
<1>2. Settings!Get(v, "style") \in {"block", "bar"}
    BY KeyByKey DEF Settings!Get, Settings!Default
<1>3. Settings!MouseMode(v) = (Settings!Get(v, "forward") = "off")
    BY DEF Settings!MouseMode
<1>4. ASSUME NEW t \in SettingTabs
      PROVE  /\ told(t) \in [style : {"block", "bar", "none"}, local : BOOLEAN]
             /\ told(t) # Settings!Closed => v6[t] # Settings!Closed
             /\ v6[t] # Settings!Closed =>
                    (told(t).local <=> Settings!Get(v, "forward") = "off")
    <2> DEFINE off == Settings!Get(v, "forward") = "off"
    <2>1. v6[t].style \in {"block", "bar", "none"} /\ v6[t].local \in BOOLEAN
        BY DEF Screens
    <2>2. off \in BOOLEAN /\ Settings!MouseMode(v) = off
        BY <1>3
    <2>3. "forward" \notin changed /\ v6[t] # Settings!Closed => (v6[t].local <=> off)
        BY DEF Follow
    <2>7. off <=> Settings!Get(v, "forward") = "off"
        OBVIOUS
    <2>8. /\ v6[t] = Settings!Closed => told(t) = Settings!Closed
          /\ v6[t] # Settings!Closed => 
                told(t) = [style |-> IF "style" \in changed THEN Settings!Get(v, "style")
                                     ELSE v6[t].style,
                           local |-> IF "forward" \in changed THEN Settings!MouseMode(v)
                                     ELSE v6[t].local]
        OBVIOUS
    <2> HIDE DEF off, told
    <2>4. CASE v6[t] = Settings!Closed
        <3>1. told(t) = Settings!Closed
            BY <2>4, <2>8
        <3>2. Settings!Closed \in [style : {"block", "bar", "none"}, local : BOOLEAN]
            BY DEF Settings!Closed
        <3> QED
            BY <2>4, <3>1, <3>2
    <2>5. CASE v6[t] # Settings!Closed /\ "forward" \in changed
        <3> DEFINE style == IF "style" \in changed THEN Settings!Get(v, "style")
                            ELSE v6[t].style
        <3>1. told(t) = [style |-> style, local |-> Settings!MouseMode(v)]
            BY <2>5, <2>8
        <3>2. style \in {"block", "bar", "none"}
            BY <1>2, <2>1
        <3> HIDE DEF style
        <3>3. told(t).local = off
            BY <2>2, <3>1
        <3>4. told(t) \in [style : {"block", "bar", "none"}, local : BOOLEAN]
            BY <2>2, <3>1, <3>2
        <3>5. told(t).local <=> off
            BY <2>2, <3>3
        <3>6. told(t).local <=> Settings!Get(v, "forward") = "off"
            BY <2>7, <3>5
        <3> QED
            BY <2>5, <3>4, <3>6
    <2>6. CASE v6[t] # Settings!Closed /\ "forward" \notin changed
        BY <1>2, <2>1, <2>3, <2>6, <2>7, <2>8
    <2> QED
        BY <2>4, <2>5, <2>6
<1> HIDE DEF told
<1> QED
    BY <1>1, <1>4 DEF Screens, Follow

(* The values and the answer are the page's, and what is shown follows.    *)
SettingsInv ==
    /\ v1 \in Settings!Own /\ v4 \in Settings!Own
    /\ v6 \in Screens /\ Follow(v6, v1)

(* The user changes a setting: the terminals are told of that one.         *)
LEMMA SetKeeps ==
    ASSUME SettingsInv, NEW k \in Settings!Keys, NEW x \in Settings!Legal[k],
           Settings!Set(k, x)
    PROVE  SettingsInv'
<1>1. /\ v1' = [v1 EXCEPT ![k] = x] /\ v4' = v4
      /\ Settings!Notified({k}, v1')
    BY DEF Settings!Set
<1>2. /\ v1 = [j \in Settings!Keys |-> v1[j]]
      /\ v1["forward"] \in {"unset", "on", "off"} /\ v1["style"] \in {"unset", "block", "bar"}
    BY KeyByKey DEF SettingsInv
<1>3. v1' = [j \in Settings!Keys |-> v1'[j]]
    BY <1>1, <1>2
<1>4. CASE k = "forward"
    <2>1. v1'["forward"] = x /\ v1'["style"] = v1["style"]
        BY <1>1, <1>2, <1>4, TwoKeys
    <2>2. v1' \in Settings!Own
        BY <1>2, <1>3, <1>4, <2>1, LegalByKey, OwnByKeys
    <2> QED
        BY <1>1, <1>4, <2>2, ToldOfChange DEF SettingsInv
<1>5. CASE k = "style"
    <2>1. v1'["style"] = x /\ v1'["forward"] = v1["forward"]
        BY <1>1, <1>2, <1>5, TwoKeys
    <2>2. v1' \in Settings!Own
        BY <1>2, <1>3, <1>5, <2>1, LegalByKey, OwnByKeys
    <2>3. Settings!Get(v1', "forward") = Settings!Get(v1, "forward")
        BY <2>1 DEF Settings!Get
    <2> QED
        BY <1>1, <2>2, <2>3, ToldOfChange DEF SettingsInv
<1> QED
    BY <1>4, <1>5, TwoKeys

(* No step of the settings leaves an open terminal behind.                 *)
LEMMA SettingsStep ==
    SettingsInv /\ [Settings!SettingsNext]_<<v1, v2, v3, v4, v5, v6>> => SettingsInv'
<1> SUFFICES ASSUME SettingsInv, [Settings!SettingsNext]_<<v1, v2, v3, v4, v5, v6>>
             PROVE  SettingsInv'
    OBVIOUS
<1>1. ASSUME v1' = v1, v4' \in Settings!Own, v6' = v6 PROVE SettingsInv'
    BY <1>1 DEF SettingsInv, Follow, Settings!Get
<1>2. Settings!Unset \in Settings!Own
    <2>1. /\ Settings!Unset["forward"] = "unset" /\ Settings!Unset["style"] = "unset"
          /\ Settings!Unset = [k \in Settings!Keys |-> Settings!Unset[k]]
        BY TwoKeys DEF Settings!Unset
    <2> QED
        BY <2>1, OwnByKeys
<1>3. CASE Settings!Answered
    <2>1. v4' = [k \in Settings!Keys |-> Settings!Coerce(k, v2[k])] /\ v1' = v1 /\ v6' = v6
        BY <1>3 DEF Settings!Answered
    <2>2. v4'["forward"] \in {"unset", "on", "off"} /\ v4'["style"] \in {"unset", "block", "bar"}
        BY <2>1, TwoKeys, LegalByKey
    <2>3. v4' = [k \in Settings!Keys |-> v4'[k]]
        BY <2>1
    <2> QED
        BY <1>1, <2>1, <2>2, <2>3, OwnByKeys
<1>4. CASE Settings!Loaded
    <2>1. v4' = Settings!Unset
        BY <1>4 DEF Settings!Loaded
    <2>2. CASE v1' = v4 /\ Settings!Notified(Settings!Keys, v4)
        <3>1. v4 \in Settings!Own /\ v6 \in Screens /\ Follow(v6, v1)
              /\ "forward" \in Settings!Keys
            BY TwoKeys DEF SettingsInv
        <3>2. v6' \in Screens /\ Follow(v6', v4)
            BY <2>2, <3>1, ToldOfChange
        <3> QED
            BY <1>2, <2>1, <2>2, <3>1, <3>2 DEF SettingsInv
    <2>3. CASE v1' = v1 /\ v6' = v6
        BY <1>1, <1>2, <2>1, <2>3
    <2> QED
        BY <1>4, <2>2, <2>3 DEF Settings!Loaded
<1>5. CASE Settings!LoadFails
    BY <1>1, <1>2, <1>5 DEF Settings!LoadFails
<1>6. CASE \E t \in SettingTabs : Settings!OpenTab(t)
    <2>1. PICK t \in SettingTabs : Settings!OpenTab(t)
        BY <1>6
    <2> DEFINE n == Settings!NewScreen
    <2>2. /\ v6' = [v6 EXCEPT ![t] = n] /\ v1' = v1 /\ v4' = v4
          /\ v6 \in Screens
        BY <2>1 DEF Settings!OpenTab, SettingsInv
    <2>3. /\ n \in [style : {"block", "bar", "none"}, local : BOOLEAN]
          /\ n.local <=> Settings!Get(v1, "forward") = "off"
        BY DEF Settings!NewScreen, Settings!MouseMode
    <2> HIDE DEF n
    <2>4. v6' \in Screens /\ \A u \in SettingTabs : v6'[u] = IF u = t THEN n ELSE v6[u]
        BY <2>2, <2>3 DEF Screens
    <2> QED
        BY <2>2, <2>3, <2>4 DEF SettingsInv, Follow
<1>7. CASE \E t \in SettingTabs : Settings!CloseTab(t)
    <2>1. PICK t \in SettingTabs : Settings!CloseTab(t)
        BY <1>7
    <2>2. /\ v6' = [v6 EXCEPT ![t] = Settings!Closed] /\ v1' = v1 /\ v4' = v4
          /\ v6 \in Screens
        BY <2>1 DEF Settings!CloseTab, SettingsInv
    <2>3. Settings!Closed \in [style : {"block", "bar", "none"}, local : BOOLEAN]
        BY DEF Settings!Closed
    <2>4. /\ v6' \in Screens
          /\ \A u \in SettingTabs : v6'[u] = IF u = t THEN Settings!Closed ELSE v6[u]
        BY <2>2, <2>3 DEF Screens
    <2> QED
        BY <2>2, <2>3, <2>4 DEF SettingsInv, Follow
<1>8. CASE Settings!Reload
    <2>1. /\ v6' = [t \in SettingTabs |-> Settings!Closed] /\ v1' = v1
          /\ v4' = Settings!Unset
        BY <1>8 DEF Settings!Reload
    <2>2. v6' \in Screens
        BY <2>1 DEF Screens, Settings!Closed
    <2> QED
        BY <1>2, <2>1, <2>2 DEF SettingsInv, Follow
<1>9. ASSUME NEW k, NEW x, Settings!OtherDevice(k, x) PROVE SettingsInv'
    BY <1>1, <1>9 DEF SettingsInv, Settings!OtherDevice
<1>10. CASE UNCHANGED <<v1, v2, v3, v4, v5, v6>>
    BY <1>1, <1>10 DEF SettingsInv
<1> QED
    BY <1>3, <1>4, <1>5, <1>6, <1>7, <1>8, <1>9, <1>10, SetKeeps DEF Settings!SettingsNext

(* Whatever the user has bound, an action that another one shadows shares  *)
(* its combination, or the browser's is meant: so is the table read.       *)
LEMMA ShadowedShares == Keys!ShadowWarned
<1> SUFFICES ASSUME NEW a \in Keys!Actions, ~Keys!Unavailable(a),
                    a \notin Keys!Conflicts
             PROVE  Keys!Match(Keys!ComboOf(a)) = a
    BY DEF Keys!ShadowWarned
<1>1. Keys!Having(Keys!ComboOf(a)) = {a}
    BY DEF Keys!Having, Keys!Conflicts
<1>2. a <= a
    BY DEF Keys!Actions
<1> QED
    BY <1>1, <1>2 DEF Keys!Match

(* The screens follow the settings as long as the page is about them.      *)
LEMMA SettingsAlways == PageSpec => [](part = "settings" => SettingsInv)
<1> DEFINE Inv == part = "settings" => SettingsInv
<1>1. PageInit => Inv
    <2> SUFFICES ASSUME Settings!SettingsInit PROVE SettingsInv
        BY DEF PageInit
    <2>1. v4 = Settings!Unset /\ v1 \in Settings!Own
          /\ v6 = [t \in SettingTabs |-> Settings!Closed]
        BY DEF Settings!SettingsInit
    <2>2. v6 \in Screens
        BY <2>1 DEF Screens, Settings!Closed
    <2>3. /\ Settings!Unset["forward"] = "unset" /\ Settings!Unset["style"] = "unset"
          /\ Settings!Unset = [k \in Settings!Keys |-> Settings!Unset[k]]
        BY TwoKeys DEF Settings!Unset
    <2> QED
        BY <2>1, <2>2, <2>3, OwnByKeys DEF SettingsInv, Follow
<1>2. Inv /\ [PageNext]_pageVars => Inv'
    BY PartSteps, SettingsStep
<1> QED
    BY <1>1, <1>2, PTL DEF PageSpec

(* mouse-mode.js, keymap.js: every open terminal runs under the mouse      *)
(* setting, wherever it came from and whenever the tab was opened; and no  *)
(* combination runs another action without a warning.                      *)
THEOREM SettingsStayHonest == PageSpec => []SettingsHonest
<1>1. (part = "settings" => SettingsInv) => SettingsHonest
    BY ShadowedShares DEF SettingsInv, SettingsHonest, Follow, Settings!MouseModeFollows
<1> QED
    BY <1>1, SettingsAlways, PTL

-----------------------------------------------------------------------------
(* What a drawing of the list knows.                                       *)
List == [asked : BOOLEAN, entries : SUBSET Items, rows : SUBSET Items, twice : BOOLEAN]

(* What the panel shows is the drawing of the sessions that are there.     *)
Fresh(l, there) ==
    /\ l.asked => l.entries = there /\ l.rows = {}
    /\ ~l.asked => l.rows = there
    /\ ~l.twice

(* The pollers are the block the panel shows; none is left when it closes. *)
OneBlock == v8 \subseteq {v9} /\ (v3 = "none" => v8 = {})

(* A drawing of the panel belongs to the sessions of now.                  *)
RailInv ==
    /\ v1 \subseteq Items /\ v3 \in {"none", "session", "settings"}
    /\ v6 \in [Draws -> List] /\ v7 \in Draws \cup {NoItem}
    /\ OneBlock
    /\ v3 = "session" /\ v7 # NoItem => Fresh(v6[v7], v1)

(* A drawing begins with a fresh list, which takes the place of the old    *)
(* one.                                                                    *)
LEMMA DrawnAnew ==
    ASSUME v6 \in [Draws -> List], v8 \subseteq {v9},
           NEW d \in Draws, NEW there \in SUBSET Items, NEW active,
           Rail!Render(d, there, active)
    PROVE  /\ v6' \in [Draws -> List] /\ v7' = d /\ Fresh(v6'[d], there)
           /\ v8' \subseteq {v9'}
<1> DEFINE some == there # {}
           new == [Rail!Unused EXCEPT !.asked = some, !.entries = there]
<1>1. /\ v6' = [e \in Draws |-> IF e = d THEN new
                                ELSE IF v6[e].asked THEN v6[e] ELSE Rail!Unused]
      /\ v7' = d
    BY DEF Rail!Render
<1>2. some \in BOOLEAN /\ (~some => there = {})
    OBVIOUS
<1> HIDE DEF some
<1>3. /\ new \in List
      /\ new.asked = some /\ new.entries = there /\ new.rows = {} /\ new.twice = FALSE
    BY <1>2 DEF Rail!Unused, List
<1>4. Rail!Unused \in List
    BY DEF Rail!Unused, List
<1> HIDE DEF new
<1>5. v6' \in [Draws -> List] /\ v6'[d] = new
    BY <1>1, <1>3, <1>4
<1>6. Fresh(new, there)
    BY <1>2, <1>3 DEF Fresh
<1>7. v8' \subseteq {v9'}
    BY DEF Rail!Render, Rail!Stopped
<1> QED
    BY <1>1, <1>5, <1>6, <1>7

(* If the panel shows the list, a change of the sessions draws it anew.    *)
LEMMA DrawnIfShown ==
    ASSUME RailInv, NEW active, v1' \subseteq Items, v3' = v3, Rail!MayRender(v1', active)
    PROVE  RailInv'
<1>1. CASE v3 = "session"
    <2>1. PICK d \in Draws : Rail!Render(d, v1', active)
        BY <1>1 DEF Rail!MayRender, Rail!FreeDraws
    <2>2. /\ v6' \in [Draws -> List] /\ v7' = d /\ Fresh(v6'[d], v1')
          /\ v8' \subseteq {v9'}
        BY <2>1, DrawnAnew DEF RailInv, OneBlock
    <2>3. Fresh(v6'[v7'], v1')
        BY <2>2
    <2> QED
        BY <1>1, <2>2, <2>3 DEF RailInv, OneBlock
<1>2. CASE v3 # "session"
    BY <1>2 DEF Rail!MayRender, Rail!NoRender, RailInv, OneBlock
<1> QED
    BY <1>1, <1>2

(* The answer for one drawing goes into its own list.                      *)
LEMMA AnswerKeeps ==
    ASSUME RailInv, NEW d \in Draws, Rail!Rendered(d)
    PROVE  RailInv'
<1> DEFINE left(e) == v6[e].asked /\ e # d
           kept(e) == [v6[e] EXCEPT !.asked = left(e)]
           again == kept(d).twice \/ kept(d).rows \cap v6[d].entries # {}
           full == [kept(d) EXCEPT !.rows = @ \cup v6[d].entries, !.twice = again]
<1>1. /\ v6[d].asked
      /\ v6' = [e \in Draws |->
            IF e # v7 THEN IF kept(e).asked THEN kept(e) ELSE Rail!Unused
            ELSE IF e = d /\ v3 = "session" THEN full ELSE kept(e)]
      /\ v1' = v1 /\ v3' = v3 /\ v7' = v7 /\ v8' = v8 /\ v9' = v9
    BY DEF Rail!Rendered, Rail!Target
<1>2. \A e \in Draws : left(e) \in BOOLEAN /\ (left(e) => v6[e].asked /\ e # d)
                                /\ (v6[e].asked /\ e # d => left(e))
    OBVIOUS
<1>3. \A e \in Draws : /\ v6[e] \in List /\ v6[e].asked \in BOOLEAN
                        /\ v6[e].entries \subseteq Items /\ v6[e].rows \subseteq Items
                        /\ v6[e].twice \in BOOLEAN
    BY DEF RailInv, List
<1> HIDE DEF left
<1>4. \A e \in Draws : /\ kept(e) \in List /\ kept(e).asked = left(e)
                        /\ kept(e).entries = v6[e].entries /\ kept(e).rows = v6[e].rows
                        /\ kept(e).twice = v6[e].twice
    BY <1>2, <1>3 DEF List
<1> HIDE DEF kept
<1>5. again \in BOOLEAN /\ (again => v6[d].twice \/ v6[d].rows # {})
    BY <1>3, <1>4
<1> HIDE DEF again
<1>6. /\ full \in List /\ full.asked = left(d) /\ full.rows = v6[d].rows \cup v6[d].entries
      /\ full.twice = again
    BY <1>3, <1>4, <1>5 DEF List
<1> HIDE DEF full
<1>7. v6' \in [Draws -> List]
    BY <1>1, <1>4, <1>6 DEF Rail!Unused, List
<1>8. ASSUME v3 = "session", v7 # NoItem PROVE Fresh(v6'[v7], v1)
    <2>1. v7 \in Draws /\ Fresh(v6[v7], v1)
        BY <1>8 DEF RailInv
    <2>2. CASE v7 = d
        <3>1. v6'[v7] = full /\ ~full.asked
            BY <1>1, <1>2, <1>6, <1>8, <2>1, <2>2
        <3>2. full.rows = v1 /\ ~full.twice
            BY <1>1, <1>5, <1>6, <2>1, <2>2 DEF Fresh
        <3> QED
            BY <3>1, <3>2 DEF Fresh
    <2>3. CASE v7 # d
        <3>1. v6'[v7] = kept(v7) /\ kept(v7).asked = left(v7)
            BY <1>1, <1>4, <2>1, <2>3
        <3>2. left(v7) <=> v6[v7].asked
            BY <1>2, <1>3, <2>1, <2>3
        <3> QED
            BY <1>4, <2>1, <3>1, <3>2 DEF Fresh
    <2> QED
        BY <2>2, <2>3
<1> QED
    BY <1>1, <1>7, <1>8 DEF RailInv, OneBlock

(* No step of the rail leaves a second block asking, or an old list shown. *)
LEMMA RailStep ==
    RailInv /\ [Rail!RailNext]_<<v1, v2, v3, v4, v5, v6, v7, v8, v9>> => RailInv'
<1> SUFFICES ASSUME RailInv, [Rail!RailNext]_<<v1, v2, v3, v4, v5, v6, v7, v8, v9>>
             PROVE  RailInv'
    OBVIOUS
<1>1. ASSUME Rail!ClosePanel, v1' = v1 PROVE RailInv'
    BY <1>1 DEF RailInv, OneBlock, Rail!ClosePanel, Rail!Stopped
<1>2. ASSUME NEW item \in {"session", "settings"}, Rail!ClickRail(item) PROVE RailInv'
    <2>1. CASE v3 = item
        BY <1>1, <1>2, <2>1 DEF Rail!ClickRail
    <2>2. CASE v3 # item /\ item = "session"
        <3>1. v3' = "session" /\ v1' = v1
            BY <1>2, <2>2 DEF Rail!ClickRail
        <3>2. PICK d \in Draws : Rail!Render(d, v1, v2)
            BY <1>2, <2>2 DEF Rail!ClickRail, Rail!FreeDraws
        <3>3. /\ v6' \in [Draws -> List] /\ v7' = d /\ Fresh(v6'[d], v1)
              /\ v8' \subseteq {v9'}
            BY <3>2, DrawnAnew DEF RailInv, OneBlock
        <3>4. Fresh(v6'[v7'], v1)
            BY <3>3
        <3> QED
            BY <3>1, <3>3, <3>4 DEF RailInv, OneBlock
    <2>3. CASE v3 # item /\ item # "session"
        BY <1>2, <2>3 DEF Rail!ClickRail, RailInv, OneBlock
    <2> QED
        BY <2>1, <2>2, <2>3
<1>3. CASE Rail!CloseClick
    BY <1>1, <1>3 DEF Rail!CloseClick
<1>4. CASE Rail!ResizeRail
    BY <1>4 DEF Rail!ResizeRail, Rail!NoRender, RailInv, OneBlock
<1>5. ASSUME NEW s \in Items, Rail!SessionOpened(s) PROVE RailInv'
    BY <1>5, DrawnIfShown DEF Rail!SessionOpened, RailInv
<1>6. ASSUME NEW s \in Items, Rail!SessionShown(s) PROVE RailInv'
    BY <1>6, DrawnIfShown DEF Rail!SessionShown, RailInv
<1>7. ASSUME NEW s \in Items, Rail!SessionClosed(s) PROVE RailInv'
    BY <1>7, DrawnIfShown DEF Rail!SessionClosed, RailInv
<1>8. CASE Rail!StatusChanged
    BY <1>8, DrawnIfShown DEF Rail!StatusChanged, RailInv
<1>9. ASSUME NEW d \in Draws, Rail!Rendered(d) PROVE RailInv'
    BY <1>9, AnswerKeeps
<1>10. CASE UNCHANGED <<v1, v2, v3, v4, v5, v6, v7, v8, v9>>
    BY <1>10 DEF RailInv, OneBlock
<1> QED
    BY <1>2, <1>3, <1>4, <1>5, <1>6, <1>7, <1>8, <1>9, <1>10 DEF Rail!RailNext

(* The rail keeps its invariant as long as the page is about it.           *)
LEMMA RailInvariance == PageSpec => [](part = "rail" => RailInv)
<1> DEFINE Inv == part = "rail" => RailInv
<1>1. PageInit => Inv
    <2> SUFFICES ASSUME Rail!RailInit PROVE RailInv
        BY DEF PageInit
    <2> QED
        BY DEF Rail!RailInit, RailInv, OneBlock, Rail!Unused, List
<1>2. Inv /\ [PageNext]_pageVars => Inv'
    BY PartSteps, RailStep
<1> QED
    BY <1>1, <1>2, PTL DEF PageSpec

(* rail.js: however often the list is drawn anew, one block of screens     *)
(* goes on asking at most, and none once the panel is closed.              *)
THEOREM OneBlockAsks == PageSpec => []OnePoller
<1>1. (part = "rail" => RailInv) => OnePoller
    BY DEF RailInv, OneBlock, OnePoller, Rail!OnePoller
<1> QED
    BY <1>1, RailInvariance, PTL

(* clients.js: once its drawing has the answer, the list in the panel      *)
(* shows every session of the page once and no other, whatever order the   *)
(* answers came in.                                                        *)
THEOREM ListIsCurrent == PageSpec => []RailListCurrent
<1>1. (part = "rail" => RailInv) => RailListCurrent
    BY DEF RailInv, Fresh, RailListCurrent, Rail!RailListCurrent
<1> QED
    BY <1>1, RailInvariance, PTL

-----------------------------------------------------------------------------
(* The types.  The palette's answers are counted, up to the bound.         *)
Drawing == [of : Inputs, has : Palette!Rows, tabs : SUBSET WebTabs]

(* A drawing of the results is one of an input that was asked for.         *)
LEMMA RenderTyped ==
    ASSUME Palette!QuickTypeOK, NEW i \in Inputs, Palette!Render(i)
    PROVE  v3' \in Drawing /\ v4' \in [Inputs -> 0..MaxAsked]
<1>1. MaxAsked \in Nat
    BY PageAssumption
<1>2. CASE ModeOf[i] = "ports" /\ v7
    <2>1. /\ v4[i] < MaxAsked /\ v4' = [v4 EXCEPT ![i] = @ + 1]
          /\ v3' = [of |-> i, has |-> "loading", tabs |-> {}]
        BY <1>2 DEF Palette!Render
    <2>2. v4[i] \in 0..MaxAsked /\ v4 \in [Inputs -> 0..MaxAsked]
        BY DEF Palette!QuickTypeOK
    <2>3. v4[i] + 1 \in 0..MaxAsked
        BY <1>1, <2>1, <2>2
    <2> QED
        BY <2>1, <2>2, <2>3 DEF Drawing, Palette!Rows
<1>3. CASE ~(ModeOf[i] = "ports" /\ v7)
    <2>1. v4' = v4
        BY <1>3 DEF Palette!Render
    <2>2. PICK h \in {"rows", "empty"}, tabs \in SUBSET v6 :
             v3' = [of |-> i, has |-> h, tabs |-> tabs]
        BY <1>3 DEF Palette!Render
    <2> QED
        BY <2>1, <2>2 DEF Palette!QuickTypeOK, Drawing, Palette!Rows
<1> QED
    BY <1>2, <1>3

(* Every step of the palette keeps its types.                              *)
LEMMA PaletteTyped ==
    Palette!QuickTypeOK /\ [Palette!QuickNext]_<<v1, v2, v3, v4, v5, v6, v7>>
        => Palette!QuickTypeOK'
<1> SUFFICES ASSUME Palette!QuickTypeOK, [Palette!QuickNext]_<<v1, v2, v3, v4, v5, v6, v7>>
             PROVE  Palette!QuickTypeOK'
    OBVIOUS
<1>1. /\ v1 \in BOOLEAN /\ v7 \in BOOLEAN /\ v2 \in Inputs /\ v3 \in Drawing
      /\ v4 \in [Inputs -> 0..MaxAsked] /\ v5 \in {"none", "asked", "here"}
      /\ v6 \in SUBSET WebTabs
    BY DEF Palette!QuickTypeOK, Drawing
<1> DEFINE Next1 == /\ v1' \in BOOLEAN /\ v7' \in BOOLEAN /\ v2' \in Inputs /\ v3' \in Drawing
                    /\ v4' \in [Inputs -> 0..MaxAsked]
                    /\ v5' \in {"none", "asked", "here"} /\ v6' \in SUBSET WebTabs
<1>2. SUFFICES Next1
    BY DEF Palette!QuickTypeOK, Drawing
<1>3. MaxAsked \in Nat /\ NoInput \in Inputs
    BY PageAssumption
<1>4. Palette!Blank \in Drawing
    BY <1>3 DEF Palette!Blank, Drawing, Palette!Rows
<1>5. [i \in Inputs |-> 0] \in [Inputs -> 0..MaxAsked]
    BY <1>3
<1>6. CASE Palette!OpenQuickOpen
    BY <1>1, <1>3, <1>4, <1>5, <1>6, RenderTyped DEF Palette!OpenQuickOpen, Palette!Close
<1>7. CASE Palette!CandidatesArrive
    BY <1>1, <1>7, RenderTyped DEF Palette!CandidatesArrive
<1>8. CASE Palette!PickRow \/ Palette!ClosePalette
    BY <1>1, <1>3, <1>4, <1>5, <1>8 DEF Palette!PickRow, Palette!ClosePalette, Palette!Close
<1>9. CASE Palette!GateCloses
    BY <1>1, <1>9 DEF Palette!GateCloses
<1>10. ASSUME NEW i \in Inputs, Palette!Type(i) PROVE Next1
    BY <1>1, <1>10, RenderTyped DEF Palette!Type
<1>11. ASSUME NEW i \in Inputs, Palette!PortsAnswered(i) PROVE Next1
    <2>1. v4[i] \in 0..MaxAsked /\ v4[i] > 0 /\ v4' = [v4 EXCEPT ![i] = @ - 1]
        BY <1>1, <1>11 DEF Palette!PortsAnswered
    <2>2. v4[i] - 1 \in 0..MaxAsked
        BY <1>3, <2>1
    <2>3. v4' \in [Inputs -> 0..MaxAsked]
        BY <1>1, <2>1, <2>2
    <2>4. v3' \in Drawing
        BY <1>1, <1>11 DEF Palette!PortsAnswered, Drawing, Palette!Rows
    <2> QED
        BY <1>1, <1>11, <2>3, <2>4 DEF Palette!PortsAnswered
<1>12. ASSUME NEW S \in SUBSET WebTabs, Palette!TabsChange(S) PROVE Next1
    BY <1>1, <1>12 DEF Palette!TabsChange
<1>13. CASE UNCHANGED <<v1, v2, v3, v4, v5, v6, v7>>
    BY <1>1, <1>13
<1> QED
    BY <1>6, <1>7, <1>8, <1>9, <1>10, <1>11, <1>12, <1>13 DEF Palette!QuickNext

(* The attempts to connect to /ws-agent stop at the last one.              *)
LEMMA LinkTyped ==
    Link!LinkTypeOK /\ [Link!LinkNext]_<<v1, v2, v3, v4, v5>> => Link!LinkTypeOK'
<1> SUFFICES ASSUME Link!LinkTypeOK, [Link!LinkNext]_<<v1, v2, v3, v4, v5>>
             PROVE  Link!LinkTypeOK'
    OBVIOUS
<1>1. MaxLost \in Nat
    BY PageAssumption
<1>2. ASSUME v5' = v5 \/ v5' = 0 \/ (v5 < MaxLost /\ v5' = v5 + 1) PROVE v5' \in 0..MaxLost
    BY <1>1, <1>2 DEF Link!LinkTypeOK
<1>3. CASE Link!LinkCloses
    <2>1. v5 \in 0..MaxLost
        BY DEF Link!LinkTypeOK
    <2>2. v5' \in 0..MaxLost
        BY <1>1, <1>2, <1>3, <2>1 DEF Link!LinkCloses
    <2> QED
        BY <1>3, <2>2 DEF Link!LinkCloses, Link!LinkTypeOK
<1>4. CASE Link!Login \/ (\E on \in BOOLEAN : Link!SafeModeArrives(on))
    BY <1>4 DEF Link!Login, Link!SafeModeArrives, Link!LinkTypeOK
<1>5. ASSUME NEW shown \in {Link!Unknown} \cup SUBSET Link!Gates, Link!CapsArrive(shown)
      PROVE  Link!LinkTypeOK'
    BY <1>5 DEF Link!CapsArrive, Link!LinkTypeOK
<1>6. CASE Link!LinkOpens \/ Link!LinkStable \/ Link!LinkTimer
    BY <1>1, <1>6 DEF Link!LinkOpens, Link!LinkStable, Link!LinkTimer, Link!LinkTypeOK
<1>7. CASE UNCHANGED <<v1, v2, v3, v4, v5>>
    BY <1>7 DEF Link!LinkTypeOK
<1> QED
    BY <1>3, <1>4, <1>5, <1>6, <1>7 DEF Link!LinkNext

(* What the user gives an action is a combination, or the one of the table.*)
LEMMA KeysTyped ==
    Keys!KeymapTypeOK /\ [Keys!KeymapNext]_<<v1, v2, v3, v4>> => Keys!KeymapTypeOK'
<1> SUFFICES ASSUME Keys!KeymapTypeOK, [Keys!KeymapNext]_<<v1, v2, v3, v4>>
             PROVE  Keys!KeymapTypeOK'
    OBVIOUS
<1> DEFINE Over == [binding : Combos \cup {Escape}, passthrough : BOOLEAN]
<1>1. /\ v1 \in [Keys!Actions -> Over] /\ v2 \in BOOLEAN /\ v3 \in BOOLEAN
      /\ v4 \in SUBSET Keys!Actions
    BY DEF Keys!KeymapTypeOK
<1> DEFINE Next1 == /\ v1' \in [Keys!Actions -> Over] /\ v2' \in BOOLEAN /\ v3' \in BOOLEAN
                    /\ v4' \in SUBSET Keys!Actions
<1>2. SUFFICES Next1
    BY DEF Keys!KeymapTypeOK
<1>3. ASSUME NEW o \in Over
      PROVE  /\ \A k \in Combos \cup {Escape} : [o EXCEPT !.binding = k] \in Over
             /\ \A on \in BOOLEAN : [o EXCEPT !.passthrough = on] \in Over
    BY <1>3
<1>4. Keys!NoOverride \in Over
    BY DEF Keys!NoOverride
<1>5. ASSUME NEW a \in Keys!Actions, NEW o \in Over, v1' = [v1 EXCEPT ![a] = o]
      PROVE  v1' \in [Keys!Actions -> Over]
    BY <1>1, <1>5
<1>6. \A a \in Keys!Actions : v1[a] \in Over
    BY <1>1
<1> HIDE DEF Over
<1>7. CASE Keys!ShowSettings
    BY <1>1, <1>7 DEF Keys!ShowSettings
<1>8. ASSUME NEW a \in Keys!Actions, Keys!StartRebind(a) PROVE Next1
    BY <1>1, <1>8 DEF Keys!StartRebind
<1>9. ASSUME NEW a \in Keys!Actions, NEW on \in BOOLEAN, Keys!SetPassthrough(a, on)
      PROVE  Next1
    <2> DEFINE o == [v1[a] EXCEPT !.passthrough = on]
    <2>1. o \in Over
        BY <1>3, <1>6
    <2>2. v1' = [v1 EXCEPT ![a] = o]
        BY <1>9 DEF Keys!SetPassthrough
    <2> HIDE DEF o
    <2> QED
        BY <1>1, <1>5, <1>9, <2>1, <2>2 DEF Keys!SetPassthrough
<1>10. ASSUME NEW a \in Keys!Actions, Keys!Reset(a) PROVE Next1
    BY <1>1, <1>4, <1>5, <1>10 DEF Keys!Reset
<1>11. ASSUME NEW a \in Keys!Actions, NEW k \in Combos, Keys!OverridesArrive(a, k)
       PROVE  Next1
    <2> DEFINE o == [v1[a] EXCEPT !.binding = k]
    <2>1. o \in Over
        BY <1>3, <1>6
    <2>2. v1' = [v1 EXCEPT ![a] = o]
        BY <1>11 DEF Keys!OverridesArrive
    <2> HIDE DEF o
    <2> QED
        BY <1>1, <1>5, <1>11, <2>1, <2>2 DEF Keys!OverridesArrive
<1>12. ASSUME NEW k \in Combos \cup {Escape}, Keys!Press(k) PROVE Next1
    <2>1. ASSUME NEW a \in Keys!Actions PROVE v1'[a] \in Over
        BY <1>3, <1>6, <1>12 DEF Keys!Press
    <2>2. v1' = [a \in Keys!Actions |-> v1'[a]]
        BY <1>12 DEF Keys!Press
    <2>3. v1' \in [Keys!Actions -> Over]
        BY <2>1, <2>2
    <2> QED
        BY <1>1, <1>12, <2>3 DEF Keys!Press
<1>13. CASE UNCHANGED <<v1, v2, v3, v4>>
    BY <1>1, <1>13
<1> QED
    BY <1>7, <1>8, <1>9, <1>10, <1>11, <1>12, <1>13 DEF Keys!KeymapNext

(* What the server has is what pages sent it; another version of the page  *)
(* may have sent a style this one cannot use.                              *)
SettingsRest == v2 \in Settings!Any /\ v3 \in {"asked", "answered", "done"} /\ v5 \in BOOLEAN

(* What is sent to the server are settings.                                *)
LEMMA PushTyped ==
    ASSUME v2 \in Settings!Any, NEW v \in Settings!Own, Settings!Push(v)
    PROVE  v2' \in Settings!Any
<1>1. CASE v2' = v2
    BY <1>1
<1>2. CASE v2' = [k \in Settings!Keys |-> IF v[k] = "unset" THEN v2[k] ELSE v[k]]
    <2>1. v2' = [k \in Settings!Keys |-> v2'[k]]
        BY <1>2
    <2>2. /\ v["forward"] \in {"unset", "on", "off"} /\ v["style"] \in {"unset", "block", "bar"}
          /\ v2["forward"] \in {"unset", "on", "off"}
          /\ v2["style"] \in {"unset", "odd", "block", "bar"}
        BY KeyByKey
    <2>3. \A k \in {"forward", "style"} : v2'[k] = IF v[k] = "unset" THEN v2[k] ELSE v[k]
        BY <1>2, TwoKeys
    <2>4. /\ v2'["forward"] \in {"unset", "on", "off"}
          /\ v2'["style"] \in {"unset", "odd", "block", "bar"}
        BY <2>2, <2>3
    <2> QED
        BY <2>1, <2>4, AnyByKeys
<1> QED
    BY <1>1, <1>2 DEF Settings!Push

(* Every step of the settings keeps their types beside the known           *)
(* invariant.                                                              *)
LEMMA SettingsTyped ==
    SettingsInv /\ SettingsRest /\ [Settings!SettingsNext]_<<v1, v2, v3, v4, v5, v6>>
        => SettingsInv' /\ SettingsRest'
<1> SUFFICES ASSUME SettingsInv, SettingsRest,
                    [Settings!SettingsNext]_<<v1, v2, v3, v4, v5, v6>>
             PROVE  SettingsRest'
    BY SettingsStep
<1>1. v1 \in Settings!Own /\ v1' \in Settings!Own /\ v2 \in Settings!Any
    BY SettingsStep DEF SettingsInv, SettingsRest
<1>2. ASSUME NEW k \in Settings!Keys, NEW x, Settings!Set(k, x) PROVE SettingsRest'
    BY <1>1, <1>2, PushTyped DEF Settings!Set, SettingsRest
<1>3. ASSUME NEW k \in Settings!Keys, NEW x \in Settings!Legal[k] \cup {"odd"},
             x = "odd" => k = "style", Settings!OtherDevice(k, x)
      PROVE  SettingsRest'
    <2>1. v2' = [v2 EXCEPT ![k] = x]
        BY <1>3 DEF Settings!OtherDevice
    <2>2. k \in {"forward", "style"} /\ v2 = [j \in Settings!Keys |-> v2[j]]
        BY <1>1, TwoKeys, KeyByKey
    <2>3. /\ v2' = [j \in Settings!Keys |-> v2'[j]]
          /\ \A j \in {"forward", "style"} : v2'[j] = IF j = k THEN x ELSE v2[j]
        BY <2>1, <2>2, TwoKeys
    <2>4. /\ v2["forward"] \in {"unset", "on", "off"}
          /\ v2["style"] \in {"unset", "odd", "block", "bar"}
        BY <1>1, KeyByKey
    <2>5. /\ v2'["forward"] \in {"unset", "on", "off"}
          /\ v2'["style"] \in {"unset", "odd", "block", "bar"}
        BY <1>3, <2>2, <2>3, <2>4, LegalByKey
    <2>6. v2' \in Settings!Any
        BY <2>3, <2>5, AnyByKeys
    <2> QED
        BY <1>3, <2>6 DEF Settings!OtherDevice, SettingsRest
<1>4. CASE Settings!OtherDevice("style", "odd")
    BY <1>3, <1>4, TwoKeys
<1>5. CASE Settings!Answered \/ Settings!LoadFails \/ Settings!Reload
    BY <1>5 DEF Settings!Answered, Settings!LoadFails, Settings!Reload, SettingsRest
<1>6. CASE Settings!Loaded
    BY <1>1, <1>6, PushTyped DEF Settings!Loaded, SettingsRest
<1>7. ASSUME NEW t \in SettingTabs, Settings!OpenTab(t) \/ Settings!CloseTab(t)
      PROVE  SettingsRest'
    BY <1>7 DEF Settings!OpenTab, Settings!CloseTab, SettingsRest
<1>8. CASE UNCHANGED <<v1, v2, v3, v4, v5, v6>>
    BY <1>8 DEF SettingsRest
<1>9. \A k \in Settings!Keys : \A x \in Settings!Legal[k] : x # "odd"
    BY TwoKeys, LegalByKey
<1> QED
    BY <1>2, <1>3, <1>4, <1>5, <1>6, <1>7, <1>8, <1>9 DEF Settings!SettingsNext

(* The rail's other state.                                                 *)
RailRest ==
    /\ v2 \in v1 \cup {NoItem} /\ v4 \in BOOLEAN /\ v5 \in BOOLEAN
    /\ v8 \in SUBSET Rail!Blocks /\ v9 \in Rail!Blocks \cup {NoItem}

(* A drawing of the panel leaves only blocks that there are.               *)
LEMMA DrawingTyped ==
    ASSUME v8 \in SUBSET Rail!Blocks, v9 \in Rail!Blocks \cup {NoItem}, NEW there, NEW active,
           Rail!MayRender(there, active) \/ \E d \in Draws : Rail!Render(d, there, active)
    PROVE  v8' \in SUBSET Rail!Blocks /\ v9' \in Rail!Blocks \cup {NoItem}
<1>1. CASE Rail!NoRender
    BY <1>1 DEF Rail!NoRender
<1>2. ASSUME NEW d \in Draws, Rail!Render(d, there, active)
      PROVE  v8' \in SUBSET Rail!Blocks /\ v9' \in Rail!Blocks \cup {NoItem}
    <2> DEFINE mine == [about |-> active, by |-> d]
    <2>1. active \in TmuxItems => mine \in Rail!Blocks
        BY DEF Rail!Blocks
    <2>2. \/ v8' = (v8 \ {v9}) \cup {mine} /\ v9' = mine /\ active \in TmuxItems
          \/ v8' = v8 \ {v9} /\ v9' = NoItem
        BY <1>2 DEF Rail!Render, Rail!Stopped
    <2> HIDE DEF mine
    <2> QED
        BY <2>1, <2>2
<1>3. Rail!FreeDraws \subseteq Draws
    BY DEF Rail!FreeDraws
<1> QED
    BY <1>1, <1>2, <1>3 DEF Rail!MayRender

(* Every step of the panel keeps its types beside the known invariant.     *)
LEMMA RailTyped ==
    RailInv /\ RailRest /\ [Rail!RailNext]_<<v1, v2, v3, v4, v5, v6, v7, v8, v9>>
        => RailInv' /\ RailRest'
<1> SUFFICES ASSUME RailInv, RailRest, [Rail!RailNext]_<<v1, v2, v3, v4, v5, v6, v7, v8, v9>>
             PROVE  RailRest'
    BY RailStep
<1>1. /\ v2 \in v1 \cup {NoItem} /\ v4 \in BOOLEAN /\ v5 \in BOOLEAN
      /\ v8 \in SUBSET Rail!Blocks /\ v9 \in Rail!Blocks \cup {NoItem}
    BY DEF RailRest
<1>2. Rail!FreeDraws \subseteq Draws
    BY DEF Rail!FreeDraws
<1>3. ASSUME Rail!ClosePanel
      PROVE  /\ v4' \in BOOLEAN /\ v8' \in SUBSET Rail!Blocks
             /\ v9' \in Rail!Blocks \cup {NoItem}
    BY <1>1, <1>3 DEF Rail!ClosePanel, Rail!Stopped
<1>4. ASSUME NEW item, Rail!ClickRail(item) PROVE RailRest'
    <2>1. CASE Rail!ClosePanel
        BY <1>1, <1>3, <1>4, <2>1 DEF Rail!ClickRail, RailRest
    <2>2. CASE ~Rail!ClosePanel
        <3>1. /\ v1' = v1 /\ v2' = v2 /\ v5' = v5 /\ v4' = ~v5
              /\ \/ \E d \in Draws : Rail!Render(d, v1, v2)
                 \/ v8' = v8 /\ v9' = v9
            BY <1>2, <1>4, <2>2 DEF Rail!ClickRail
        <3> QED
            BY <1>1, <3>1, DrawingTyped DEF RailRest
    <2> QED
        BY <2>1, <2>2
<1>5. CASE Rail!CloseClick
    BY <1>1, <1>3, <1>5 DEF Rail!CloseClick, RailRest
<1>6. CASE Rail!ResizeRail
    BY <1>1, <1>6 DEF Rail!ResizeRail, Rail!NoRender, RailRest
<1>7. ASSUME NEW s \in Items, Rail!SessionOpened(s) PROVE RailRest'
    BY <1>1, <1>7, DrawingTyped DEF Rail!SessionOpened, RailRest
<1>8. ASSUME NEW s \in Items, Rail!SessionShown(s) PROVE RailRest'
    BY <1>1, <1>8, DrawingTyped DEF Rail!SessionShown, RailRest
<1>9. ASSUME NEW s \in Items, Rail!SessionClosed(s) PROVE RailRest'
    BY <1>1, <1>9, DrawingTyped DEF Rail!SessionClosed, RailRest
<1>10. CASE Rail!StatusChanged
    BY <1>1, <1>10, DrawingTyped DEF Rail!StatusChanged, RailRest
<1>11. ASSUME NEW d \in Draws, Rail!Rendered(d) PROVE RailRest'
    BY <1>1, <1>11 DEF Rail!Rendered, RailRest
<1>12. CASE UNCHANGED <<v1, v2, v3, v4, v5, v6, v7, v8, v9>>
    BY <1>1, <1>12 DEF RailRest
<1> QED
    BY <1>4, <1>5, <1>6, <1>7, <1>8, <1>9, <1>10, <1>11, <1>12 DEF Rail!RailNext

-----------------------------------------------------------------------------
(* What the three modules know of the parts' states; and what is left of   *)
(* their types.                                                            *)
Known ==
    /\ part = "sockets" => SocketsInv /\ OverlayOwned
    /\ part = "screen" => ScreenInv
    /\ part = "layout" => LayoutInv
    /\ part = "sessions" => NamesInv
    /\ part = "sessions" => OwedInv
    /\ part = "rail" => RailInv
    /\ part = "persist" => PersistInv
    /\ part = "settings" => SettingsInv
    /\ part = "tree" => TreeInv
    /\ part = "pane" => LogInv
Rests ==
    /\ part = "sockets" => FrontTyped
    /\ part = "screen" => Sized
    /\ part = "layout" => LayoutRest
    /\ part = "sessions" => SessionsRest
    /\ part = "rail" => RailRest
    /\ part = "settings" => SettingsRest
    /\ part = "keys" => Keys!KeymapTypeOK
    /\ part = "pane" => PaneKinds /\ LogBounds
    /\ part = "agents" => Agents!AgentTypeOK
    /\ part = "link" => Link!LinkTypeOK
    /\ part = "palette" => Palette!QuickTypeOK

(* The invariants of the three modules hold together.                      *)
LEMMA KnownAlways == PageSpec => []Known
BY SocketsInvariance, ScreenInvariance, LayoutAlways, NamesAlways, OwedAlways, RailInvariance,
   PersistAlways, SettingsAlways, TreeAlways, LogAlways, PTL DEF Known

(* At the start every part is of its type.                                 *)
LEMMA TypedAtStart == PageInit => Rests
<1> SUFFICES ASSUME PageInit PROVE Rests
    OBVIOUS
<1> RetryCap \in Nat /\ MaxLost \in Nat /\ MaxAsked \in Nat /\ NoInput \in Inputs
    BY PageAssumption
<1>1. ASSUME Sockets!Init PROVE FrontTyped
    <2>1. v2 = [s \in Sessions |-> Sockets!NoChain] /\ v6 = None
        BY <1>1 DEF Sockets!Init
    <2>2. Sockets!NoChain.retries = 0 /\ 0 \in 0..RetryCap
        BY DEF Sockets!NoChain
    <2> QED
        BY <2>1, <2>2 DEF FrontTyped
<1>2. ASSUME Screen!Init PROVE Sized
    <2>1. 0 \in Screen!Widths
        BY DEF Screen!Widths
    <2>2. v5 \in [cols : {0}, cell : Cells] /\ v7 = 0 /\ v10 = 0 /\ v4 = FALSE /\ v8 = FALSE
        BY <1>2 DEF Screen!Init
    <2>3. [cols : {0}, cell : Cells] \subseteq [cols : Screen!Widths, cell : Cells]
        BY <2>1
    <2> QED
        BY <2>1, <2>2, <2>3 DEF Sized
<1>3. ASSUME Rail!RailInit PROVE RailRest
    BY <1>3 DEF Rail!RailInit, RailRest
<1>4. ASSUME Settings!SettingsInit PROVE SettingsRest
    BY <1>4 DEF Settings!SettingsInit, SettingsRest
<1>5. ASSUME Keys!KeymapInit PROVE Keys!KeymapTypeOK
    BY <1>5 DEF Keys!KeymapInit, Keys!KeymapTypeOK, Keys!NoOverride
<1>6. ASSUME Pane!PaneInit PROVE PaneKinds /\ LogBounds
    <2>1. MaxCommits \in Nat \ {0}
        BY PageAssumption
    <2>2. v4 = 1 /\ v9 = {} /\ v8 = [commits |-> <<>>, more |-> -1]
        BY <1>6 DEF Pane!PaneInit, Pane!NoLog, Pane!NoMore
    <2>3. v8.more = -1 /\ v8.commits = <<>> /\ DOMAIN v8.commits = {}
        BY <2>2
    <2>4. LogBounds
        BY <2>1, <2>2, <2>3 DEF LogBounds
    <2> QED
        BY <1>6, <2>4 DEF Pane!PaneInit, PaneKinds
<1>7. ASSUME Agents!AgentInit PROVE Agents!AgentTypeOK
    BY <1>7, PageAssumption DEF Agents!AgentInit, Agents!AgentTypeOK, Agents!LeavesOf
<1>8. ASSUME Link!LinkInit PROVE Link!LinkTypeOK
    <2>1. v5 \in 0..MaxLost
        BY <1>8 DEF Link!LinkInit
    <2> QED
        BY <1>8, <2>1 DEF Link!LinkInit, Link!LinkTypeOK
<1>9. ASSUME Palette!QuickInit PROVE Palette!QuickTypeOK
    <2>1. Palette!Blank \in [of : Inputs, has : Palette!Rows, tabs : SUBSET WebTabs]
        BY DEF Palette!Blank, Palette!Rows
    <2>2. [i \in Inputs |-> 0] \in [Inputs -> 0..MaxAsked]
        OBVIOUS
    <2> QED
        BY <1>9, <2>1, <2>2 DEF Palette!QuickInit, Palette!QuickTypeOK
<1> QED
    BY <1>1, <1>2, <1>3, <1>4, <1>5, <1>6, <1>7, <1>8, <1>9, LayoutTypedAtStart,
       SessionsTypedAtStart DEF PageInit, Rests

(* Every part of the page keeps its state typed: lists, records and        *)
(* counters stay within the bounds that its actions promise, in the types  *)
(* that its TypeOK states; for any values of the constants.                *)
THEOREM PageIsTyped == PageSpec => []PageTypesOK
<1>1. Known /\ Rests /\ [PageNext]_pageVars => Rests'
    <2> SUFFICES ASSUME Known, Rests, [PageNext]_pageVars PROVE Rests'
        OBVIOUS
    <2>1. part' = part
        BY PartSteps
    <2>2. CASE part \in {"sockets", "screen"}
        BY <2>1, <2>2, TerminalPartSteps, FrontStep, SizedStep DEF Known, Rests
    <2>3. CASE part \in {"layout", "agents"}
        BY <2>1, <2>3, ViewPartSteps, LayoutTyped, AgentsTyped DEF Known, Rests
    <2>4. CASE part = "sessions"
        BY <2>1, <2>4, TerminalPartSteps, SessionsTyped DEF Known, Rests
    <2>5. CASE part \in {"rail", "settings"}
        BY <2>1, <2>5, PartSteps, RailTyped, SettingsTyped DEF Known, Rests
    <2>6. CASE part \in {"keys", "link", "palette"}
        BY <2>1, <2>6, PartSteps, KeysTyped, LinkTyped, PaletteTyped DEF Rests
    <2>7. CASE part = "pane"
        BY <2>1, <2>7, ViewPartSteps, KindsStep, BoundsStep DEF Known, Rests
    <2> QED
        BY <2>1, <2>2, <2>3, <2>4, <2>5, <2>6, <2>7 DEF Rests
<1>2. Known /\ Rests => PageTypesOK
    <2> SUFFICES ASSUME Known, Rests PROVE PageTypesOK
        OBVIOUS
    <2>1. part = "sockets" => Sockets!TypeOK
        <3> SUFFICES ASSUME part = "sockets" PROVE Sockets!TypeOK
            OBVIOUS
        <3>1. SocketsInv /\ OverlayOwned /\ FrontTyped
            BY DEF Known, Rests
        <3>2. \A s \in Sessions : v2[s] \in Sockets!Chain
            BY <3>1 DEF SocketsInv, FrontTyped, Chain, Sockets!Chain
        <3>3. v2 \in [Sessions -> Sockets!Chain]
            BY <3>1, <3>2 DEF SocketsInv
        <3> QED
            BY <3>1, <3>3
               DEF SocketsInv, OverlayOwned, FrontTyped, Records, Sockets!Rec, Sock, Sockets!Sock,
                   Sockets!TypeOK
    <2>2. part = "screen" => Screen!TypeOK
        BY DEF Known, Rests, ScreenInv, ScreenTypes, Sized, Conn, Screen!Conn, Screen!Conns,
               Screen!TypeOK
    <2>3. part = "rail" => Rail!RailTypeOK
        BY DEF Known, Rests, RailInv, RailRest, List, Rail!RailTypeOK
    <2>4. part = "settings" => Settings!SettingsTypeOK
        BY DEF Known, Rests, SettingsInv, SettingsRest, Screens, Settings!Legal,
               Settings!SettingsTypeOK
    <2>5. (part = "layout" => Layout!LayoutTypeOK) /\ (part = "sessions" => Boot!SessionsTypeOK)
        BY PanesTyped, TabsTyped DEF Known, Rests
    <2>6. /\ part = "persist" => Persist!PersistTypeOK
          /\ part = "tree" => Tree!TreeTypeOK
          /\ part = "pane" => Pane!PaneTypeOK
        BY PaneParts DEF Known, Rests, PersistInv, TreeInv
    <2> QED
        BY <2>1, <2>2, <2>3, <2>4, <2>5, <2>6 DEF Rests, PageTypesOK
<1> QED
    BY <1>1, <1>2, TypedAtStart, KnownAlways, PTL DEF PageSpec
=============================================================================
