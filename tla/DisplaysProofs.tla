--------------------------- MODULE DisplaysProofs ---------------------------
(***************************************************************************)
(* For any outputs, sizes and bounds: no list of the outputs that was asked *)
(* for is lost, a layout is what the next session restores, and what was     *)
(* asked for reads back off the screens.                                    *)
(***************************************************************************)
EXTENDS Displays, WellFoundedInduction, TLAPS

\* An answer that is not yet read is what Hyprland has now, unless an output came or went
\* since, or the outputs are to be listed again.
AnswerIsCurrent == listing = "told" /\ ~queued /\ ~stale => answer \in {Report, NoRules}

ListingTyped == listing \in {"idle", "asked", "told"}

IInv == ListingTyped /\ AnswerIsCurrent /\ ListIsCurrent

\* Hyprland's outputs and the lists stay: so does the invariant.
LEMMA ListerKept ==
  ASSUME IInv, UNCHANGED <<hyprland, monitors, listing, answer, queued, stale>>
  PROVE  IInv'
  BY DEF IInv, ListingTyped, AnswerIsCurrent, ListIsCurrent, hyprland, Report, Lit

\* Whatever changes the outputs lists them anew, or leaves them stale.
LEMMA Refreshed ==
  ASSUME IInv, Refresh
  PROVE  IInv'
  BY DEF IInv, ListingTyped, AnswerIsCurrent, ListIsCurrent, Refresh

LEMMA Answered == ASSUME IInv, Answer PROVE IInv'
<1>1. Report' = Report
  BY DEF Answer, Report, Lit, hyprland
<1>2. answer' \in {Report, NoRules}
  BY DEF Answer
<1>. QED
  BY <1>1, <1>2 DEF IInv, ListingTyped, AnswerIsCurrent, ListIsCurrent, Answer

LEMMA Read == ASSUME IInv, Listed PROVE IInv'
<1>1. Report' = Report /\ listing = "told"
  BY DEF Listed, Report, Lit, hyprland
<1>2. monitors' = answer /\ queued' = FALSE /\ stale' = stale
  BY DEF Listed
<1>3. listing' = IF queued THEN "asked" ELSE "idle"
  BY DEF Listed
<1>. QED
  BY <1>1, <1>2, <1>3 DEF IInv, ListingTyped, AnswerIsCurrent, ListIsCurrent

THEOREM Invariance == Spec => []IInv
<1>1. Init => IInv
  BY DEF Init, IInv, ListingTyped, AnswerIsCurrent, ListIsCurrent
<1>2. IInv /\ [Next]_vars => IInv'
  <2>. SUFFICES ASSUME IInv, [Next]_vars PROVE IInv'
    OBVIOUS
  <2>1. ASSUME NEW m \in Modes, SetMode(m) PROVE IInv'
    BY <2>1, ListerKept DEF SetMode, User, lister
  <2>2. ASSUME NEW o \in Panels \cup {Fallback}, SetMain(o) \/ SetSecondary(o) PROVE IInv'
    BY <2>2, ListerKept DEF SetMain, SetSecondary, User, lister
  <2>3. ASSUME NEW s \in Sides, SetPlacement(s) PROVE IInv'
    BY <2>3, ListerKept DEF SetPlacement, User, lister
  <2>4. CASE SetPinnedWorkspace
    BY <2>4, ListerKept DEF SetPinnedWorkspace, User, lister
  <2>5. CASE Open \/ RetryTimeout \/ EvalEnds \/ HealEnds
    BY <2>5, Refreshed DEF Open, RetryTimeout, EvalEnds, HealEnds
  <2>6. ASSUME NEW o \in Panels, Plug(o) PROVE IInv'
    BY <2>6 DEF Plug, IInv, ListingTyped, AnswerIsCurrent, ListIsCurrent, lister
  <2>7. CASE Login
    BY <2>7 DEF Login, Start, IInv, ListingTyped, AnswerIsCurrent, ListIsCurrent
  <2>8. CASE Answer
    BY <2>8, Answered
  <2>9. CASE Listed
    BY <2>9, Read
  <2>10. CASE WriteLands \/ MinutePasses
    BY <2>10, ListerKept DEF WriteLands, MinutePasses, lister, history
  <2>11. CASE UNCHANGED vars
    BY <2>11, ListerKept DEF vars, lister, history
  <2>. QED
    BY <2>1, <2>2, <2>3, <2>4, <2>5, <2>6, <2>7, <2>8, <2>9, <2>10, <2>11 DEF Next, Lister
<1>. QED
  BY <1>1, <1>2, PTL DEF Spec

\* No list that was asked for is lost: with nothing on its way, and unless an output came or
\* went since the last call of refresh, the shell shows the outputs as Hyprland has them,
\* however calls, answers, layouts and repairs interleave (Displays.qml:54-65, 250-333).
THEOREM ListsAreCurrent == Spec => []ListIsCurrent
  BY Invariance, PTL DEF IInv

----------------------------------------------------------------------------
(* That what is on the screens is what the file will restore.               *)

\* A rule that is on states every field; one that is off states that.
Shaped(r) == r.on \in BOOLEAN /\ r = [on |-> r.on, at |-> r.at, mirror |-> r.mirror]
Stated(f) == \A o \in DOMAIN f : f[o].on \in BOOLEAN /\ (f[o].on => Shaped(f[o]))

Agrees(shown, f) ==
  \A o \in DOMAIN f \cap Panels : shown[o].on = f[o].on /\ (f[o].on => shown[o] = f[o])

RulesStated ==
  /\ \A o \in Panels : Shaped(rule[o])
  /\ Stated(file) /\ Stated(writing) /\ Stated(code) /\ Stated(next)

\* What waits for an evaluation to end was asked for during one.
NextWaits == next # NoRules => code # NoRules /\ astray

\* What is evaluated is what is or will be in the file, and so is what is shown when
\* nothing is evaluated.
Kept ==
  ~astray /\ ~reload =>
    /\ code # NoRules /\ writing # NoRules => code = writing
    /\ code # NoRules /\ writing = NoRules => code = file
    /\ code = NoRules /\ writing # NoRules => Agrees(rule, writing)
    /\ code = NoRules /\ writing = NoRules => Agrees(rule, file)

KInv == RulesStated /\ NextWaits /\ Kept

LEMMA NothingStated == Stated(NoRules)
  BY DEF Stated, NoRules

LEMMA OnShaped ==
  ASSUME NEW at, NEW mirror
  PROVE  Shaped(On(at, mirror)) /\ On(at, mirror).on
  BY DEF Shaped, On

LEMMA LeftToRightStated ==
  ASSUME NEW S
  PROVE  Stated(LeftToRight(S)) /\ \A o \in S : Shaped(LeftToRight(S)[o])
<1>1. \A o \in S : Shaped(LeftToRight(S)[o]) /\ LeftToRight(S)[o].on
  BY OnShaped DEF LeftToRight
<1>. QED
  BY <1>1 DEF Stated, LeftToRight, Shaped

LEMMA LayoutStated ==
  ASSUME NEW ms, NEW main, NEW second, NEW mode, NEW side
  PROVE  Stated(Layout(ms, main, second, mode, side))
<1>. DEFINE rules == Layout(ms, main, second, mode, side)
<1>1. ASSUME NEW o \in DOMAIN ms
      PROVE  rules[o] = Off \/ \E at, mirror : rules[o] = On(at, mirror)
  BY DEF Layout
<1>2. ASSUME NEW o \in DOMAIN ms
      PROVE  rules[o].on \in BOOLEAN /\ (rules[o].on => Shaped(rules[o]))
  <2>1. CASE rules[o] = Off
    BY <2>1 DEF Off
  <2>2. CASE \E at, mirror : rules[o] = On(at, mirror)
    BY <2>2, OnShaped DEF Shaped
  <2>. QED
    BY <1>1, <2>1, <2>2
<1>. QED
  BY <1>2 DEF Stated, Layout

LEMMA LuaMonitorShaped ==
  ASSUME NEW old, NEW r, Shaped(old), r.on \in BOOLEAN, r.on => Shaped(r)
  PROVE  /\ Shaped(LuaMonitor(old, r)) /\ LuaMonitor(old, r).on = r.on
         /\ r.on => LuaMonitor(old, r) = r
  BY DEF Shaped, LuaMonitor

\* Once rules are merged into what is shown, it agrees with them.
LEMMA MergedAgrees ==
  ASSUME NEW old, NEW rules, \A o \in Panels : Shaped(old[o]), Stated(rules)
  PROVE  Agrees(Merged(old, rules), rules) /\ \A o \in Panels : Shaped(Merged(old, rules)[o])
<1>1. ASSUME NEW o \in Panels, o \in DOMAIN rules
      PROVE  /\ Shaped(Merged(old, rules)[o]) /\ Merged(old, rules)[o].on = rules[o].on
             /\ rules[o].on => Merged(old, rules)[o] = rules[o]
  <2>1. Merged(old, rules)[o] = LuaMonitor(old[o], rules[o])
    BY <1>1 DEF Merged
  <2>. QED
    BY <1>1, <2>1, LuaMonitorShaped DEF Stated
<1>2. ASSUME NEW o \in Panels, o \notin DOMAIN rules PROVE Shaped(Merged(old, rules)[o])
  BY <1>2 DEF Merged
<1>. QED
  BY <1>1, <1>2 DEF Agrees

LEMMA ConfiguredAgrees ==
  ASSUME NEW rules, Stated(rules)
  PROVE  Agrees(Configured(rules), rules) /\ \A o \in Panels : Shaped(Configured(rules)[o])
  BY MergedAgrees, LeftToRightStated DEF Configured

\* With no output listed there is no main output.
LEMMA NoMainOfNothing ==
  ASSUME NEW p, DOMAIN monitors = {}
  PROVE  MainName(p) = None
<1>1. Active(monitors) = {}
  BY DEF Active
<1>. DEFINE choices == <<{p.main} \cap DOMAIN monitors, {o \in Active(monitors) : monitors[o].at = Origin},
                         Active(monitors), DOMAIN monitors>>
<1>2. DOMAIN choices = 1..4
  OBVIOUS
<1>3. choices[1] = {} /\ choices[2] = {} /\ choices[3] = {} /\ choices[4] = {}
  BY <1>1
<1>4. \A k \in DOMAIN choices : choices[k] = {}
  BY <1>2, <1>3
<1>5. FirstIn(choices) = None
  BY <1>4 DEF FirstIn
<1>. QED
  BY <1>5 DEF MainName, PickMain

\* What apply does to the layouts: nothing, or the same layout to file and evaluation.
LEMMA AppliedKept ==
  ASSUME KInv, NEW p, NEW wanted, Apply(p, wanted), UNCHANGED <<rule, file, reload>>
  PROVE  KInv'
<1>. DEFINE mode == IF wanted = "single" \/ SecondName(p) = None THEN "main" ELSE wanted
            rules == Layout(monitors, MainName(p), SecondName(p), mode, Placement(p))
<1>1. CASE NoApply
  BY <1>1 DEF NoApply, KInv, RulesStated, NextWaits, Kept, Agrees
<1>2. CASE ~NoApply
  <2>1. /\ MainName(p) # None
        /\ writing' = rules
        /\ code' = IF code = NoRules THEN rules ELSE code
        /\ next' = IF code = NoRules THEN next ELSE rules
        /\ astray' = (code # NoRules \/ reload)
    BY <1>2 DEF Apply
  <2>2. Stated(rules)
    BY LayoutStated
  <2>3. rules # NoRules
    <3>1. DOMAIN monitors # {}
      BY <2>1, NoMainOfNothing
    <3>2. DOMAIN rules = DOMAIN monitors /\ DOMAIN NoRules = {}
      BY DEF Layout, NoRules
    <3>. QED
      BY <3>1, <3>2
  <2>. HIDE DEF rules
  <2>4. CASE code = NoRules
    BY <2>1, <2>2, <2>3, <2>4 DEF KInv, RulesStated, NextWaits, Kept
  <2>5. CASE code # NoRules
    BY <2>1, <2>2, <2>3, <2>5 DEF KInv, RulesStated, NextWaits, Kept
  <2>. QED
    BY <2>4, <2>5
<1>. QED
  BY <1>1, <1>2

LEMMA LayoutsKept ==
  ASSUME KInv, UNCHANGED <<rule, file, writing, code, next, reload, astray>>
  PROVE  KInv'
  BY DEF KInv, RulesStated, NextWaits, Kept, Agrees

LEMMA HealKept ==
  ASSUME KInv, NEW ms, Heal(ms), UNCHANGED <<rule, file, next, astray>>
  PROVE  KInv'
<1>1. CASE healing \/ recent
  BY <1>1, LayoutsKept DEF Heal, healer
<1>2. CASE ~(healing \/ recent)
  <2>1. writing' = HealRules(ms) /\ reload' = TRUE /\ code' = code
    BY <1>2 DEF Heal
  <2>2. Stated(HealRules(ms))
    BY LeftToRightStated DEF HealRules
  <2>. QED
    BY <2>1, <2>2 DEF KInv, RulesStated, NextWaits, Kept
<1>. QED
  BY <1>1, <1>2

LEMMA ListedKept == ASSUME KInv, Listed PROVE KInv'
<1>1. UNCHANGED <<rule, file, next, astray>>
  BY DEF Listed, hyprland
<1>2. Heal(answer) \/ UNCHANGED <<healer, writing, code, asked>>
  BY DEF Listed
<1>. QED
  BY <1>1, <1>2, HealKept, LayoutsKept DEF healer

LEMMA WriteLandsKept == ASSUME KInv, WriteLands PROVE KInv'
  BY DEF KInv, RulesStated, NextWaits, Kept, Agrees, WriteLands, NothingStated, hyprland,
         healer, history, NoRules, Stated

LEMMA EvalEndsKept == ASSUME KInv, EvalEnds PROVE KInv'
<1>1. /\ code # NoRules /\ code' \in {NoRules, next} /\ next' = NoRules
      /\ UNCHANGED <<file, writing, reload>>
  BY DEF EvalEnds
<1>2. RulesStated' /\ NextWaits'
  <2>1. \A o \in Panels : Shaped(rule'[o])
    BY MergedAgrees DEF EvalEnds, KInv, RulesStated
  <2>. QED
    BY <1>1, <2>1, NothingStated DEF KInv, RulesStated, NextWaits
<1>3. Kept'
  <2>1. CASE rule' = Merged(rule, code) /\ UNCHANGED astray
    <3>1. Agrees(rule', code)
      BY <2>1, MergedAgrees DEF KInv, RulesStated
    <3>2. astray \/ reload \/ code' = NoRules
      BY <1>1 DEF KInv, NextWaits
    <3>. QED
      BY <1>1, <2>1, <3>1, <3>2 DEF KInv, Kept
  <2>2. CASE astray' = TRUE
    BY <2>2 DEF Kept
  <2>. QED
    BY <2>1, <2>2 DEF EvalEnds
<1>. QED
  BY <1>2, <1>3 DEF KInv

LEMMA HealEndsKept == ASSUME KInv, HealEnds PROVE KInv'
<1>1. /\ rule' = Configured(file) /\ astray' = (writing # NoRules \/ code # NoRules)
      /\ UNCHANGED <<file, writing, code, next>>
  BY DEF HealEnds
<1>2. Agrees(rule', file) /\ \A o \in Panels : Shaped(rule'[o])
  BY <1>1, ConfiguredAgrees DEF KInv, RulesStated
<1>. QED
  BY <1>1, <1>2 DEF KInv, RulesStated, NextWaits, Kept

LEMMA LoginKept == ASSUME KInv, Login PROVE KInv'
<1>1. /\ rule' = Configured(file') /\ writing' = NoRules /\ code' = NoRules /\ next' = NoRules
      /\ file' \in {file, writing}
  BY DEF Login, Start
<1>2. Stated(file')
  BY <1>1 DEF KInv, RulesStated
<1>3. Agrees(rule', file') /\ \A o \in Panels : Shaped(rule'[o])
  BY <1>1, <1>2, ConfiguredAgrees
<1>. QED
  BY <1>1, <1>2, <1>3, NothingStated DEF KInv, RulesStated, NextWaits, Kept

THEOREM KeptInvariance == Spec => []KInv
<1>1. Init => KInv
  <2>. SUFFICES ASSUME Init PROVE KInv
    OBVIOUS
  <2>1. \A o \in Panels : Shaped(rule[o])
    BY LeftToRightStated DEF Init
  <2>2. Agrees(rule, NoRules)
    BY DEF Agrees, NoRules
  <2>. QED
    BY <2>1, <2>2, NothingStated DEF Init, KInv, RulesStated, NextWaits, Kept
<1>2. KInv /\ [Next]_vars => KInv'
  <2>. SUFFICES ASSUME KInv, [Next]_vars PROVE KInv'
    OBVIOUS
  <2>1. ASSUME NEW m \in Modes, SetMode(m) PROVE KInv'
    <3>1. UNCHANGED <<rule, file, reload>>
      BY <2>1 DEF SetMode, User, hyprland, healer
    <3>2. NoApply \/ Apply(prefs', m)
      BY <2>1 DEF SetMode
    <3>. QED
      BY <3>1, <3>2, AppliedKept, LayoutsKept DEF NoApply
  <2>2. ASSUME NEW o \in Panels \cup {Fallback}, SetMain(o) PROVE KInv'
    BY <2>2, AppliedKept DEF SetMain, User, hyprland, healer
  <2>3. ASSUME NEW o \in Panels \cup {Fallback}, SetSecondary(o) PROVE KInv'
    BY <2>3, AppliedKept DEF SetSecondary, User, hyprland, healer
  <2>4. ASSUME NEW s \in Sides, SetPlacement(s) PROVE KInv'
    <3>1. UNCHANGED <<rule, file, reload>>
      BY <2>4 DEF SetPlacement, User, hyprland, healer
    <3>2. NoApply \/ Apply(prefs', "extend")
      BY <2>4 DEF SetPlacement
    <3>. QED
      BY <3>1, <3>2, AppliedKept, LayoutsKept DEF NoApply
  <2>5. CASE SetPinnedWorkspace
    BY <2>5, AppliedKept DEF SetPinnedWorkspace, User, hyprland, healer
  <2>6. CASE Open \/ RetryTimeout \/ Answer \/ MinutePasses
    BY <2>6, LayoutsKept DEF Open, RetryTimeout, Answer, MinutePasses, hyprland, healer, history
  <2>7. ASSUME NEW o \in Panels, Plug(o) PROVE KInv'
    BY <2>7, LayoutsKept DEF Plug, healer
  <2>8. CASE Login \/ Listed \/ WriteLands \/ EvalEnds \/ HealEnds
    BY <2>8, LoginKept, ListedKept, WriteLandsKept, EvalEndsKept, HealEndsKept
  <2>9. CASE UNCHANGED vars
    BY <2>9, LayoutsKept DEF vars, hyprland, healer, history
  <2>. QED
    BY <2>1, <2>2, <2>3, <2>4, <2>5, <2>6, <2>7, <2>8, <2>9 DEF Next, Lister
<1>. QED
  BY <1>1, <1>2, PTL DEF Spec

\* What is on the screens is what the file has the next session show, once commands and
\* writes have ended, but for layouts lost on the way to Hyprland (Displays.qml:160-248).
THEOREM LayoutsAreKept == Spec => []LayoutIsKept
<1>1. KInv => LayoutIsKept
  BY DEF KInv, Kept, LayoutIsKept, Rest, Agrees
<1>. QED
  BY <1>1, KeptInvariance, PTL

----------------------------------------------------------------------------
(* What was asked for reads back.                                           *)

\* The outputs known by name.
Names == Panels \cup {Fallback}
Preferences == [main : Names \cup {None}, second : Names \cup {None}, side : Sides \cup {None}]
NamesKnown ==
  /\ plugged \subseteq Panels
  /\ DOMAIN monitors \subseteq Names /\ DOMAIN answer \subseteq Names
  /\ prefs \in Preferences /\ saved \in Preferences

\* A layout of main and second in a mode, as the preferences would choose them among the
\* outputs laid out.
LaidOut(f, p, main, second, mode, side) ==
  /\ main \in DOMAIN f /\ second \in (DOMAIN f \ {main}) \cup {None}
  /\ second = None => mode = "main"
  /\ mode = "extend" => side \in Sides
  /\ f = Layout(f, main, second, mode, side)
  /\ KeepsAPhysicalOutput(f, f)
  /\ p.main \in DOMAIN f => main = p.main
  /\ p.second \in DOMAIN f \ {main} => second = p.second

\* The file's layout once what is being written has landed.
Filed == IF writing # NoRules THEN writing ELSE file

\* What was last asked for, if all is as then, is on its way to the file.
AskedIsFiled ==
  asked # None =>
    /\ asked.mode \in Modes /\ asked.side \in Sides \cup {None} /\ (reload \/ ~astray)
    /\ \E main, second \in Names \cup {None} :
         LaidOut(Filed, prefs, main, second, asked.mode, asked.side)

AInv == NamesKnown /\ AskedIsFiled

\* A set of numbers has a least one.
LEMMA LeastOf ==
  ASSUME NEW T \in SUBSET Nat, T # {}
  PROVE  \E x \in T : \A y \in T : x <= y
<1>1. PICK x \in T : \A y \in T : ~(<<y, x>> \in OpToRel(<, Nat))
  BY NatLessThanWellFounded, WFMin
<1>2. \A y \in T : ~(y < x)
  BY <1>1 DEF OpToRel
<1>. QED
  BY <1>2

\* FirstIn is a member of the first set that has any.
LEMMA FirstInOf ==
  ASSUME NEW choices, DOMAIN choices \in SUBSET Nat,
         \A k \in DOMAIN choices : choices[k] \subseteq Names
  PROVE  \/ FirstIn(choices) = None /\ \A k \in DOMAIN choices : choices[k] = {}
         \/ \E k \in DOMAIN choices : /\ FirstIn(choices) \in choices[k]
                                      /\ \A j \in DOMAIN choices : j < k => choices[j] = {}
<1>1. CASE \A k \in DOMAIN choices : choices[k] = {}
  BY <1>1 DEF FirstIn
<1>2. CASE \E k \in DOMAIN choices : choices[k] # {}
  <2>. DEFINE First(k) == choices[k] # {} /\ \A j \in DOMAIN choices : j < k => choices[j] = {}
              some == {k \in DOMAIN choices : choices[k] # {}}
  <2>1. PICK least \in some : \A k \in some : least <= k
    BY <1>2, LeastOf
  <2>2. \A j \in DOMAIN choices : j < least => choices[j] = {}
    BY <2>1
  <2>3. \E k \in DOMAIN choices : First(k)
    BY <2>1, <2>2
  <2>. DEFINE k0 == CHOOSE k \in DOMAIN choices : First(k)
              Foremost(o) == \A p \in choices[k0] : Rank[o] <= Rank[p]
  <2>4. k0 \in DOMAIN choices /\ First(k0)
    BY <2>3
  <2>5. FirstIn(choices) = CHOOSE o \in choices[k0] : Foremost(o)
    BY <1>2 DEF FirstIn
  <2>. HIDE DEF k0
  <2>6. \E o \in choices[k0] : Foremost(o)
    <3>. DEFINE ranks == {Rank[o] : o \in choices[k0]}
    <3>1. ranks \in SUBSET Nat /\ ranks # {}
      BY <2>4, DisplaysAssumption DEF Names
    <3>2. PICK x \in ranks : \A y \in ranks : x <= y
      BY <3>1, LeastOf
    <3>. QED
      BY <3>2
  <2>7. FirstIn(choices) \in choices[k0]
    BY <2>5, <2>6
  <2>. QED
    BY <2>4, <2>7
<1>. QED
  BY <1>1, <1>2

\* What the shell takes for the main and the second output is listed.
LEMMA MainListed ==
  ASSUME NamesKnown, NEW p
  PROVE  /\ MainName(p) \in DOMAIN monitors \cup {None}
         /\ p.main \in DOMAIN monitors => MainName(p) = p.main
<1>. DEFINE choices == <<{p.main} \cap DOMAIN monitors,
                         {o \in Active(monitors) : monitors[o].at = Origin},
                         Active(monitors), DOMAIN monitors>>
<1>1. /\ DOMAIN choices = 1..4 /\ choices[1] = {p.main} \cap DOMAIN monitors
      /\ \A k \in 1..4 : choices[k] \subseteq DOMAIN monitors
  BY DEF Active
<1>2. MainName(p) = FirstIn(choices)
  BY DEF MainName, PickMain
<1>. HIDE DEF choices
<1>3. \/ FirstIn(choices) = None /\ \A k \in 1..4 : choices[k] = {}
      \/ \E k \in 1..4 : /\ FirstIn(choices) \in choices[k]
                         /\ \A j \in 1..4 : j < k => choices[j] = {}
  BY <1>1, FirstInOf DEF NamesKnown
<1>. QED
  BY <1>1, <1>2, <1>3

LEMMA SecondListed ==
  ASSUME NamesKnown, NEW p
  PROVE  LET others == DOMAIN monitors \ {MainName(p)} IN
         /\ SecondName(p) \in others \cup {None}
         /\ p.second \in others => SecondName(p) = p.second
         /\ p.second \notin others =>
              \A o : Active(monitors) \cap others = {o} => SecondName(p) = o
<1>. DEFINE others == DOMAIN monitors \ {MainName(p)}
            choices == <<{p.second} \cap others, Active(monitors) \cap others, others>>
<1>1. /\ DOMAIN choices = 1..3 /\ choices[1] = {p.second} \cap others
      /\ choices[2] = Active(monitors) \cap others
      /\ \A k \in 1..3 : choices[k] \subseteq others
  OBVIOUS
<1>2. SecondName(p) = FirstIn(choices)
  BY DEF SecondName
<1>. HIDE DEF choices
<1>3. \/ FirstIn(choices) = None /\ \A k \in 1..3 : choices[k] = {}
      \/ \E k \in 1..3 : /\ FirstIn(choices) \in choices[k]
                         /\ \A j \in 1..3 : j < k => choices[j] = {}
  BY <1>1, FirstInOf DEF NamesKnown
<1>. QED
  BY <1>1, <1>2, <1>3

LEMMA ModeKnown == ASSUME NEW p PROVE Mode(p) \in Modes \cup {"single"}
  BY DEF Mode, DetectMode, Modes

\* A layout depends on the outputs' names alone, and on the side in extended mode.
LEMMA LayoutOfNames ==
  ASSUME NEW ms, NEW main, NEW second, NEW mode, NEW side
  PROVE  LET f == Layout(ms, main, second, mode, side) IN
         /\ DOMAIN f = DOMAIN ms
         /\ f = Layout(f, main, second, mode, IF mode = "extend" THEN side ELSE None)
<1>. DEFINE f == Layout(ms, main, second, mode, side)
<1>1. DOMAIN f = DOMAIN ms
  BY DEF Layout
<1>2. \A o \in DOMAIN ms :
        f[o] = Layout(f, main, second, mode, IF mode = "extend" THEN side ELSE None)[o]
  BY <1>1 DEF Layout
<1>3. DOMAIN Layout(f, main, second, mode, IF mode = "extend" THEN side ELSE None) = DOMAIN ms
  BY <1>1 DEF Layout
<1>. QED
  BY <1>1, <1>2, <1>3 DEF Layout

\* Applying a layout files it as what was asked for, or forgets what was.
LEMMA AppliedIsFiled ==
  ASSUME NamesKnown, NEW p, prefs' = p, NEW wanted \in Modes \cup {"single"}, Apply(p, wanted),
         UNCHANGED <<file, reload>>, p \in Preferences
  PROVE  AskedIsFiled'
<1>. DEFINE main == MainName(p)
            second == SecondName(p)
            mode == IF wanted = "single" \/ second = None THEN "main" ELSE wanted
            side == IF mode = "extend" THEN Placement(p) ELSE None
            rules == Layout(monitors, main, second, mode, Placement(p))
<1>1. CASE asked' = None
  BY <1>1 DEF AskedIsFiled
<1>2. CASE asked' # None
  <2>1. /\ main # None /\ KeepsAPhysicalOutput(rules, monitors)
        /\ writing' = rules /\ asked' = [mode |-> mode, side |-> side]
        /\ astray' = (code # NoRules \/ reload) /\ code = NoRules
    <3>1. ~(main = None \/ ~KeepsAPhysicalOutput(rules, monitors))
      BY <1>2 DEF Apply, NoApply
    <3>2. /\ writing' = rules /\ astray' = (code # NoRules \/ reload)
          /\ asked' = IF code # NoRules THEN None ELSE [mode |-> mode, side |-> side]
      BY <3>1 DEF Apply
    <3>. QED
      BY <1>2, <3>1, <3>2
  <2>2. /\ main \in DOMAIN monitors /\ (p.main \in DOMAIN monitors => main = p.main)
        /\ second \in (DOMAIN monitors \ {main}) \cup {None}
        /\ (p.second \in DOMAIN monitors \ {main} => second = p.second)
    BY <2>1, MainListed, SecondListed
  <2>3. mode \in Modes /\ (second = None => mode = "main")
    BY DEF Modes
  <2>4. Placement(p) \in Sides
    <3>1. p.side \in Sides \cup {None}
      BY DEF Preferences
    <3>. QED
      BY <3>1 DEF Placement, DetectPlacement, Sides
  <2>5. /\ DOMAIN rules = DOMAIN monitors
        /\ rules = Layout(rules, main, second, mode, side)
    BY LayoutOfNames
  <2>6. side \in Sides \cup {None} /\ (mode = "extend" => side \in Sides)
    BY <2>4
  <2>7. KeepsAPhysicalOutput(rules, rules)
    BY <2>1, <2>5 DEF KeepsAPhysicalOutput
  <2>. HIDE DEF main, second, mode, side, rules
  <2>8. LaidOut(rules, p, main, second, mode, side)
    BY <2>2, <2>3, <2>5, <2>6, <2>7 DEF LaidOut
  <2>9. writing' # NoRules
    <3>1. DOMAIN NoRules = {} /\ DOMAIN rules # {}
      BY <2>2, <2>5 DEF NoRules
    <3>. QED
      BY <2>1, <3>1
  <2>10. Filed' = rules
    BY <2>1, <2>9 DEF Filed
  <2>11. main \in Names \cup {None} /\ second \in Names \cup {None}
    BY <2>2 DEF NamesKnown
  <2>12. asked'.mode = mode /\ asked'.side = side
    BY <2>1
  <2>13. reload' \/ ~astray'
    BY <2>1
  <2>. QED
    BY <2>3, <2>6, <2>8, <2>10, <2>11, <2>12, <2>13 DEF AskedIsFiled
<1>. QED
  BY <1>1, <1>2

\* Nothing about the layout asked for changes.
LEMMA AskedKept ==
  ASSUME AskedIsFiled, Filed' = Filed,
         asked' = None \/ UNCHANGED <<asked, prefs, reload, astray>>
  PROVE  AskedIsFiled'
  BY DEF AskedIsFiled

LEMMA AskedStep ==
  ASSUME AInv, [Next]_vars
  PROVE  AInv'
<1>. USE DEF AInv
<1>1. ASSUME asked' = None, UNCHANGED <<plugged, monitors, answer, prefs, saved>>
      PROVE  AInv'
  BY <1>1 DEF NamesKnown, AskedIsFiled
<1>2. ASSUME UNCHANGED <<file, writing, asked, prefs, reload, astray>>
      PROVE  AskedIsFiled'
  BY <1>2, AskedKept DEF Filed
<1>3. ASSUME User, prefs' \in Preferences, saved' \in Preferences,
             \/ NoApply
             \/ \E wanted \in Modes \cup {"single"} : Apply(prefs', wanted)
      PROVE  AInv'
  <2>1. NamesKnown' /\ UNCHANGED <<file, reload>>
    BY <1>3 DEF NamesKnown, User, hyprland, lister, healer
  <2>2. CASE NoApply
    BY <2>1, <2>2 DEF NoApply, AskedIsFiled
  <2>3. CASE \E wanted \in Modes \cup {"single"} : Apply(prefs', wanted)
    BY <1>3, <2>1, <2>3, AppliedIsFiled
  <2>. QED
    BY <1>3, <2>1, <2>2, <2>3
<1>4. ASSUME NEW m \in Modes, SetMode(m)
      PROVE  AInv'
  <2>1. PICK p \in {IF prefs.main = None THEN [prefs EXCEPT !.main = MainName(prefs)] ELSE prefs} :
          /\ saved' = IF p # prefs THEN p ELSE saved
          /\ \/ /\ SecondName(p) = None /\ m # "main"
                /\ prefs' = p
                /\ NoApply
             \/ /\ SecondName(p) # None \/ m = "main"
                /\ prefs' = [p EXCEPT !.second = IF @ = None THEN SecondName(p) ELSE @,
                                      !.side = IF m = "extend" THEN @ ELSE None]
                /\ Apply(prefs', m)
    BY <1>4 DEF SetMode
  <2>2. p \in Preferences
    <3>1. MainName(prefs) \in Names \cup {None}
      BY MainListed DEF NamesKnown
    <3>. QED
      BY <3>1 DEF NamesKnown, Preferences
  <2>3. saved' \in Preferences /\ User
    BY <1>4, <2>1, <2>2 DEF NamesKnown, SetMode
  <2>4. CASE prefs' = p /\ NoApply
    BY <1>3, <2>2, <2>3, <2>4 DEF NamesKnown
  <2>5. CASE /\ prefs' = [p EXCEPT !.second = IF @ = None THEN SecondName(p) ELSE @,
                                   !.side = IF m = "extend" THEN @ ELSE None]
             /\ Apply(prefs', m)
    <3>1. SecondName(p) \in Names \cup {None}
      BY SecondListed DEF NamesKnown
    <3>2. prefs' \in Preferences
      BY <2>2, <2>5, <3>1 DEF Preferences
    <3>. QED
      BY <1>3, <2>3, <2>5, <3>2
  <2>. QED
    BY <2>1, <2>4, <2>5
<1>5. ASSUME NEW o \in Panels \cup {Fallback}, SetMain(o) \/ SetSecondary(o)
      PROVE  AInv'
  <2>1. CASE SetMain(o)
    <3>1. prefs' \in Preferences /\ saved' = prefs'
      BY <2>1 DEF SetMain, NamesKnown, Preferences, Names
    <3>2. \E wanted \in Modes \cup {"single"} : Apply(prefs', wanted)
      BY <2>1, ModeKnown DEF SetMain, Modes
    <3>. QED
      BY <1>3, <2>1, <3>1, <3>2 DEF SetMain, NamesKnown
  <2>2. CASE SetSecondary(o)
    <3>1. prefs' \in Preferences /\ saved' = prefs'
      BY <2>2 DEF SetSecondary, NamesKnown, Preferences, Names
    <3>2. \E wanted \in Modes \cup {"single"} : Apply(prefs', wanted)
      BY <2>2, ModeKnown DEF SetSecondary
    <3>. QED
      BY <1>3, <2>2, <3>1, <3>2 DEF SetSecondary, NamesKnown
  <2>. QED
    BY <1>5, <2>1, <2>2
<1>6. ASSUME NEW side \in Sides, SetPlacement(side)
      PROVE  AInv'
  <2>1. saved' = prefs' /\ prefs' \in Preferences
    BY <1>6 DEF SetPlacement, NamesKnown, Preferences
  <2>2. NoApply \/ \E wanted \in Modes \cup {"single"} : Apply(prefs', wanted)
    BY <1>6 DEF SetPlacement, Modes
  <2>. QED
    BY <1>3, <1>6, <2>1, <2>2 DEF SetPlacement, NamesKnown
<1>7. CASE SetPinnedWorkspace
  <2>1. prefs' = prefs /\ saved' = prefs
    BY <1>7 DEF SetPinnedWorkspace
  <2>2. \E wanted \in Modes \cup {"single"} : Apply(prefs', wanted)
    BY <1>7, <2>1, ModeKnown DEF SetPinnedWorkspace
  <2>. QED
    BY <1>3, <1>7, <2>1, <2>2 DEF SetPinnedWorkspace, NamesKnown
<1>8. CASE Open \/ RetryTimeout
  <2>1. UNCHANGED <<plugged, monitors, answer, prefs, saved, file, writing, asked, reload, astray>>
    BY <1>8 DEF Open, RetryTimeout, Refresh, hyprland, healer
  <2>. QED
    BY <1>2, <2>1 DEF NamesKnown
<1>9. ASSUME NEW o \in Panels, Plug(o)
      PROVE  AInv'
  BY <1>9 DEF Plug, NamesKnown, AskedIsFiled, lister
<1>10. CASE Login
  <2>1. prefs' = saved /\ saved' = saved /\ plugged' \in SUBSET Panels /\ asked' = None
        /\ monitors' = NoRules /\ answer' = NoRules
    BY <1>10 DEF Login, Start
  <2>2. DOMAIN NoRules = {}
    BY DEF NoRules
  <2>. QED
    BY <2>1, <2>2 DEF NamesKnown, AskedIsFiled
<1>11. CASE Answer
  <2>1. UNCHANGED <<plugged, monitors, prefs, saved, file, writing, asked, reload, astray>>
    BY <1>11 DEF Answer, hyprland, healer, history
  <2>2. answer' = Report \/ answer' = NoRules
    BY <1>11 DEF Answer
  <2>3. DOMAIN Report \subseteq Names /\ DOMAIN NoRules = {}
    BY DEF Report, NoRules, NamesKnown, Names
  <2>. QED
    BY <1>2, <2>1, <2>2, <2>3 DEF NamesKnown
<1>12. CASE Listed
  <2>1. /\ UNCHANGED <<plugged, prefs, saved, file, astray>>
        /\ monitors' = answer /\ answer' = NoRules
    BY <1>12 DEF Listed, hyprland
  <2>2. DOMAIN NoRules = {}
    BY DEF NoRules
  <2>3. asked' = None \/ UNCHANGED <<writing, asked, reload>>
    BY <1>12 DEF Listed, Heal, healer
  <2>4. AskedIsFiled'
    BY <1>2, <2>1, <2>3 DEF AskedIsFiled
  <2>. QED
    BY <2>1, <2>2, <2>4 DEF NamesKnown
<1>13. CASE WriteLands
  <2>1. Filed' = Filed /\ UNCHANGED <<asked, prefs, reload, astray>>
    BY <1>13 DEF WriteLands, Filed, healer, history
  <2>2. UNCHANGED <<plugged, monitors, answer, prefs, saved>>
    BY <1>13 DEF WriteLands, hyprland, lister
  <2>. QED
    BY <2>1, <2>2, AskedKept DEF NamesKnown
<1>14. CASE EvalEnds
  <2>1. UNCHANGED <<plugged, monitors, answer, prefs, saved, file, writing, reload>>
    BY <1>14 DEF EvalEnds, Refresh
  <2>2. asked' = None \/ UNCHANGED <<asked, astray>>
    BY <1>14 DEF EvalEnds
  <2>. QED
    BY <1>1, <1>2, <2>1, <2>2 DEF NamesKnown
<1>15. CASE HealEnds
  <2>1. asked' = None /\ UNCHANGED <<plugged, monitors, answer, prefs, saved>>
    BY <1>15 DEF HealEnds, Refresh
  <2>. QED
    BY <1>1, <2>1
<1>16. CASE MinutePasses \/ UNCHANGED vars
  <2>1. UNCHANGED <<plugged, monitors, answer, prefs, saved, file, writing, asked, reload, astray>>
    BY <1>16 DEF MinutePasses, vars, hyprland, lister, healer, history
  <2>. QED
    BY <1>2, <2>1 DEF NamesKnown
<1>. QED
  BY <1>4, <1>5, <1>6, <1>7, <1>8, <1>9, <1>10, <1>11, <1>12, <1>13, <1>14, <1>15, <1>16
  DEF Next, Lister

LEMMA AskedInvariance == Spec => []AInv
<1>1. Init => AInv
  <2>. SUFFICES ASSUME Init PROVE AInv
    OBVIOUS
  <2>1. DOMAIN NoRules = {}
    BY DEF NoRules
  <2>. QED
    BY <2>1 DEF Init, AInv, NamesKnown, AskedIsFiled, Preferences
<1>. QED
  BY <1>1, AskedStep, PTL DEF Spec

\* The outputs as the shell lists them once a layout is on the screens.
LEMMA ReportOfLayout ==
  ASSUME NamesKnown, NEW f, Agrees(rule, f), DOMAIN f = DOMAIN Report, KeepsAPhysicalOutput(f, f)
  PROVE  \/ DOMAIN f = {Fallback} /\ Active(Report) = {Fallback}
         \/ /\ DOMAIN f \subseteq Panels
            /\ Active(Report) = {o \in DOMAIN f : f[o].on}
            /\ \A o \in Active(Report) :
                 /\ Report[o].at = f[o].at
                 /\ Report[o].mirror = IF f[o].mirror \in Active(Report) THEN f[o].mirror ELSE None
<1>1. /\ DOMAIN Report = plugged \cup (IF Lit = {} THEN {Fallback} ELSE {})
      /\ \A o \in DOMAIN Report : Report[o] =
           IF o = Fallback THEN [disabled |-> FALSE, at |-> Origin, mirror |-> None]
           ELSE [disabled |-> ~rule[o].on, at |-> rule[o].at,
                 mirror |-> IF rule[o].mirror \in Lit THEN rule[o].mirror ELSE None]
  BY DEF Report
<1>2. Fallback \notin plugged /\ plugged \subseteq Panels
  BY DisplaysAssumption DEF NamesKnown
<1>3. \A o \in DOMAIN f \cap Panels : rule[o].on = f[o].on /\ (f[o].on => rule[o] = f[o])
  BY DEF Agrees
<1>4. CASE Lit = {}
  <2>1. plugged = {}
    <3>. SUFFICES ASSUME plugged # {} PROVE FALSE
      OBVIOUS
    <3>1. PICK o \in DOMAIN f \cap Panels : f[o].on
      BY <1>1, <1>2 DEF KeepsAPhysicalOutput
    <3>2. o \in plugged /\ rule[o].on
      BY <1>1, <1>2, <1>3, <3>1, DisplaysAssumption
    <3>. QED
      BY <1>4, <3>2 DEF Lit
  <2>2. DOMAIN Report = {Fallback} /\ ~Report[Fallback].disabled
    BY <1>1, <1>4, <2>1
  <2>. QED
    BY <2>2 DEF Active
<1>5. CASE Lit # {}
  <2>1. DOMAIN f = plugged /\ DOMAIN Report = plugged
    BY <1>1, <1>5
  <2>2. \A o \in plugged : /\ Report[o].disabled = ~rule[o].on /\ Report[o].at = rule[o].at
                           /\ Report[o].mirror = IF rule[o].mirror \in Lit THEN rule[o].mirror
                                                 ELSE None
    <3>. SUFFICES ASSUME NEW o \in plugged
                  PROVE  /\ Report[o].disabled = ~rule[o].on /\ Report[o].at = rule[o].at
                         /\ Report[o].mirror = IF rule[o].mirror \in Lit THEN rule[o].mirror
                                               ELSE None
      OBVIOUS
    <3>1. o # Fallback /\ o \in DOMAIN Report
      BY <1>2, <2>1
    <3>2. Report[o] = [disabled |-> ~rule[o].on, at |-> rule[o].at,
                       mirror |-> IF rule[o].mirror \in Lit THEN rule[o].mirror ELSE None]
      BY <1>1, <3>1
    <3>. DEFINE off == ~rule[o].on
    <3>3. Report[o].disabled = off
      <4>1. Report[o] = [disabled |-> off, at |-> rule[o].at,
                         mirror |-> IF rule[o].mirror \in Lit THEN rule[o].mirror ELSE None]
        BY <3>2
      <4>. HIDE DEF off
      <4>. QED
        BY <4>1
    <3>4. Report[o].at = rule[o].at
      BY <3>2
    <3>5. Report[o].mirror = IF rule[o].mirror \in Lit THEN rule[o].mirror ELSE None
      BY <3>2
    <3>. QED
      BY <3>3, <3>4, <3>5
  <2>3. \A o \in plugged : rule[o].on = f[o].on /\ (f[o].on => rule[o] = f[o])
    BY <1>2, <1>3, <2>1
  <2>4. Active(Report) = Lit
    BY <2>1, <2>2 DEF Active, Lit
  <2>5. Lit = {o \in DOMAIN f : f[o].on}
    BY <2>1, <2>3 DEF Lit
  <2>. QED
    BY <1>2, <2>1, <2>2, <2>3, <2>4, <2>5
<1>. QED
  BY <1>4, <1>5

\* The mode is read off the outputs that are on, the main one first.
LEMMA DetectedMode ==
  ASSUME NEW ms, DOMAIN ms \subseteq Names, NEW main \in DOMAIN ms
  PROVE  /\ Active(ms) = {main} =>
              DetectMode(ms, main) = IF DOMAIN ms = {main} THEN "single" ELSE "main"
         /\ \A second : Active(ms) = {second} /\ second # main => DetectMode(ms, main) = "second"
         /\ \A second : Active(ms) = {main, second} /\ second # main =>
              DetectMode(ms, main) = IF ms[second].mirror = main THEN "duplicate" ELSE "extend"
<1>1. main # None /\ Active(ms) \subseteq DOMAIN ms
  BY DisplaysAssumption DEF Active, Names
<1>2. CASE Active(ms) = {main}
  <2>1. Active(ms) \ {main} = {} /\ main \in Active(ms)
    BY <1>2
  <2>. QED
    BY <1>1, <1>2, <2>1 DEF DetectMode
<1>3. ASSUME NEW second, Active(ms) = {second}, second # main
      PROVE  DetectMode(ms, main) = "second"
  <2>. DEFINE choices == <<Active(ms)>>
  <2>1. DOMAIN choices = 1..1 /\ choices[1] = {second}
    BY <1>3
  <2>2. second # None /\ second \in Names
    BY <1>1, <1>3, DisplaysAssumption DEF Names
  <2>. HIDE DEF choices
  <2>3. \/ FirstIn(choices) = None /\ \A k \in 1..1 : choices[k] = {}
        \/ \E k \in 1..1 : FirstIn(choices) \in choices[k]
    BY <2>1, <2>2, FirstInOf
  <2>4. FirstIn(<<Active(ms)>>) = second
    BY <2>1, <2>3 DEF choices
  <2>5. main \notin Active(ms) /\ Active(ms) \ {second} = {}
    BY <1>3
  <2>. QED
    BY <1>3, <2>2, <2>4, <2>5 DEF DetectMode
<1>4. ASSUME NEW second, Active(ms) = {main, second}, second # main
      PROVE  DetectMode(ms, main) = IF ms[second].mirror = main THEN "duplicate" ELSE "extend"
  <2>1. main \in Active(ms) /\ Active(ms) \ {main} = {second}
    BY <1>4
  <2>. QED
    BY <1>4, <2>1 DEF DetectMode
<1>. QED
  BY <1>2, <1>3, <1>4

\* Sizes that do not round down leave the second output wholly on its side of the main one.
LEMMA DetectedPlacement ==
  ASSUME NEW ms, NEW main \in Names, NEW second \in Names, NEW side \in Sides,
         ms[main].at = Origin, ms[second].at = PositionFor(main, second, side),
         \A o \in {main, second} : Rounded(Width[o]) >= Width[o] /\ Rounded(Height[o]) >= Height[o]
  PROVE  DetectPlacement(ms, main, second) = side
<1>. DEFINE wm == Width[main]  ws == Width[second]  hm == Height[main]  hs == Height[second]
<1>1. wm \in Nat \ {0} /\ ws \in Nat \ {0} /\ hm \in Nat \ {0} /\ hs \in Nat \ {0}
  BY DisplaysAssumption DEF Names
<1>2. /\ Rounded(wm) \in Int /\ Rounded(ws) \in Int /\ Rounded(hm) \in Int /\ Rounded(hs) \in Int
      /\ Rounded(wm) >= wm /\ Rounded(ws) >= ws /\ Rounded(hm) >= hm /\ Rounded(hs) >= hs
  BY <1>1 DEF Rounded
<1>3. /\ ms[main].at[1] = 0 /\ ms[main].at[2] = 0
      /\ side = "left" => ms[second].at[1] = -Rounded(ws) /\ ms[second].at[2] = 0
      /\ side = "top" => ms[second].at[1] = 0 /\ ms[second].at[2] = -Rounded(hs)
      /\ side = "bottom" => ms[second].at[1] = 0 /\ ms[second].at[2] = Rounded(hm)
      /\ side = "right" => ms[second].at[1] = Rounded(wm) /\ ms[second].at[2] = 0
  BY DEF Origin, PositionFor
<1>. HIDE DEF wm, ws, hm, hs
<1>4. DetectPlacement(ms, main, second) =
        CASE ms[second].at[1] >= ms[main].at[1] + wm -> "right"
          [] ms[second].at[1] + ws <= ms[main].at[1] -> "left"
          [] ms[second].at[2] + hs <= ms[main].at[2] -> "top"
          [] OTHER -> "bottom"
  BY DEF DetectPlacement, wm, ws, hs
<1>5. CASE side = "left"
  BY <1>1, <1>2, <1>3, <1>4, <1>5
<1>6. CASE side = "top"
  BY <1>1, <1>2, <1>3, <1>4, <1>6
<1>7. CASE side = "bottom"
  BY <1>1, <1>2, <1>3, <1>4, <1>7
<1>8. CASE side = "right"
  BY <1>1, <1>2, <1>3, <1>4, <1>8
<1>. QED
  BY <1>5, <1>6, <1>7, <1>8 DEF Sides

\* What was asked for reads back: at rest the mode that the card shows is the one last applied,
\* and so is the placement where the sizes do not round down (DisplayMath.js:23-127), for any
\* outputs, sizes and bounds.
THEOREM AskedReadsBack == Spec => []ModeReadsBack
<1>1. ASSUME IInv, KInv, AInv
      PROVE  ModeReadsBack
  <2>. SUFFICES ASSUME Rest, ~stale, asked # None, prefs.main \in DOMAIN monitors,
                       DOMAIN monitors = DOMAIN file
                PROVE  LET main == MainName(prefs)
                           second == SecondName(prefs)
                       IN /\ \/ Mode(prefs) = asked.mode
                             \/ Mode(prefs) = "single" /\ asked.mode = "main"
                          /\ asked.mode = "extend"
                               /\ (\A o \in {main, second} : Rounded(Width[o]) >= Width[o]
                                                             /\ Rounded(Height[o]) >= Height[o])
                               => DetectPlacement(monitors, main, second) = asked.side
    BY DEF ModeReadsBack
  <2>1. monitors = Report /\ monitors # NoRules
    <3>1. DOMAIN NoRules = {}
      BY DEF NoRules
    <3>. QED
      BY <1>1, <3>1 DEF IInv, ListIsCurrent, Rest
  <2>2. Filed = file /\ ~astray /\ ~reload /\ Agrees(rule, file)
    BY <1>1 DEF Rest, Filed, AInv, AskedIsFiled, KInv, Kept
  <2>3. PICK main, second \in Names \cup {None} :
          LaidOut(file, prefs, main, second, asked.mode, asked.side)
    BY <1>1, <2>2 DEF AInv, AskedIsFiled
  <2>4. main = prefs.main /\ main = MainName(prefs) /\ main \in DOMAIN monitors
    BY <1>1, <2>3, MainListed DEF AInv, LaidOut
  <2>5. /\ second \in (DOMAIN monitors \ {main}) \cup {None}
        /\ second = None => asked.mode = "main"
        /\ prefs.second \in DOMAIN monitors \ {main} => second = prefs.second
        /\ KeepsAPhysicalOutput(file, file)
    BY <2>3 DEF LaidOut
  <2>6. DOMAIN monitors \subseteq Names
    BY <1>1 DEF AInv, NamesKnown
  <2>7. main # None /\ None \notin DOMAIN monitors
    BY <2>4, <2>6, DisplaysAssumption DEF Names
  <2>8. \A o \in DOMAIN file : file[o] =
          CASE o = main /\ ~(asked.mode = "second" /\ second # None) -> On(Origin, None)
            [] o = second /\ asked.mode = "second" -> On(Origin, None)
            [] o = second /\ asked.mode = "duplicate" -> On(Origin, main)
            [] o = second /\ asked.mode = "extend" ->
                 On(PositionFor(main, second, asked.side), None)
            [] OTHER -> Off
    BY <2>3 DEF LaidOut, Layout
  <2>9. \/ DOMAIN monitors = {Fallback} /\ Active(monitors) = {Fallback}
        \/ /\ Active(monitors) = {o \in DOMAIN monitors : file[o].on}
           /\ \A o \in Active(monitors) :
                /\ monitors[o].at = file[o].at
                /\ monitors[o].mirror =
                     IF file[o].mirror \in Active(monitors) THEN file[o].mirror ELSE None
    BY <1>1, <2>1, <2>2, <2>5, ReportOfLayout DEF AInv
  <2>10. asked.mode \in Modes /\ Mode(prefs) = DetectMode(monitors, main)
    BY <1>1, <2>4 DEF AInv, AskedIsFiled, Mode
  <2>11. CASE DOMAIN monitors = {Fallback} /\ Active(monitors) = {Fallback}
    BY <2>4, <2>5, <2>6, <2>10, <2>11, DetectedMode
  <2>12. CASE /\ Active(monitors) = {o \in DOMAIN monitors : file[o].on}
              /\ \A o \in Active(monitors) :
                   /\ monitors[o].at = file[o].at
                   /\ monitors[o].mirror =
                        IF file[o].mirror \in Active(monitors) THEN file[o].mirror ELSE None
    <3>0. ~Off.on /\ \A at, mirror : /\ On(at, mirror).on /\ On(at, mirror).at = at
                                     /\ On(at, mirror).mirror = mirror
      BY DEF Off, On
    <3>1. CASE asked.mode = "main"
      <4>1. Active(monitors) = {main}
        BY <2>4, <2>7, <2>8, <2>12, <3>0, <3>1
      <4>. QED
        BY <2>4, <2>6, <2>10, <3>1, <4>1, DetectedMode
    <3>2. CASE asked.mode # "main"
      <4>1. second \in DOMAIN monitors /\ second # main
        BY <2>5, <3>2
      <4>2. CASE asked.mode = "second"
        <5>1. Active(monitors) = {second}
          BY <2>4, <2>7, <2>8, <2>12, <3>0, <4>1, <4>2
        <5>. QED
          BY <2>4, <2>6, <2>10, <4>1, <4>2, <5>1, DetectedMode
      <4>3. CASE asked.mode \in {"duplicate", "extend"}
        <5>1. /\ file[main] = On(Origin, None)
              /\ asked.mode = "duplicate" => file[second] = On(Origin, main)
              /\ asked.mode = "extend" =>
                   file[second] = On(PositionFor(main, second, asked.side), None)
          BY <2>4, <2>8, <4>1, <4>3
        <5>2. Active(monitors) = {main, second}
          BY <2>4, <2>8, <2>12, <3>0, <4>1, <4>3, <5>1
        <5>3. SecondName(prefs) = second
          <6>1. Active(monitors) \cap (DOMAIN monitors \ {main}) = {second}
            BY <4>1, <5>2
          <6>. QED
            BY <1>1, <2>4, <2>5, <6>1, SecondListed DEF AInv
        <5>4. CASE asked.mode = "duplicate"
          <6>1. monitors[second].mirror = main
            BY <2>12, <3>0, <5>1, <5>2, <5>4
          <6>. QED
            BY <2>4, <2>6, <2>10, <4>1, <5>2, <5>4, <6>1, DetectedMode
        <5>5. CASE asked.mode = "extend"
          <6>1. monitors[second].mirror # main
            BY <2>7, <2>12, <3>0, <5>1, <5>2, <5>5
          <6>2. Mode(prefs) = "extend"
            BY <2>4, <2>6, <2>10, <4>1, <5>2, <6>1, DetectedMode
          <6>3. /\ monitors[main].at = Origin
                /\ monitors[second].at = PositionFor(main, second, asked.side)
            BY <2>12, <3>0, <5>1, <5>2, <5>5
          <6>4. asked.side \in Sides /\ main \in Names /\ second \in Names
            BY <2>3, <2>4, <2>6, <4>1, <5>5 DEF LaidOut
          <6>5. ASSUME \A o \in {main, second} : Rounded(Width[o]) >= Width[o]
                                                 /\ Rounded(Height[o]) >= Height[o]
                PROVE  DetectPlacement(monitors, main, second) = asked.side
            BY <6>3, <6>4, <6>5, DetectedPlacement
          <6>. QED
            BY <2>4, <5>3, <5>5, <6>2, <6>5
        <5>. QED
          BY <4>3, <5>4, <5>5
      <4>. QED
        BY <2>10, <3>2, <4>2, <4>3 DEF Modes
    <3>. QED
      BY <3>1, <3>2
  <2>. QED
    BY <2>9, <2>11, <2>12
<1>. QED
  BY <1>1, Invariance, KeptInvariance, AskedInvariance, PTL

=============================================================================
