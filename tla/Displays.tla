------------------------------ MODULE Displays ------------------------------
(***************************************************************************)
(* The display switcher (services/Displays.qml, DisplayMath.js): which      *)
(* outputs are on and where, as a mode (main only, duplicate, extend, second *)
(* only), a placement and a choice of the main and the second output.  A     *)
(* layout is written to monitors.lua, for the next session, and evaluated    *)
(* by Hyprland, for this one; then the outputs are listed again.  A list     *)
(* that shows no panel on makes the shell restore the layout, once a minute  *)
(* at most.  Each command is a process that ends in its own time.            *)
(*                                                                         *)
(* Positions are in quarters of a logical pixel, which tells what rounds up *)
(* from what rounds down.  The focused output is the first in use.  What is *)
(* pinned to workspaces and the modes of outputs are data left out.          *)
(***************************************************************************)
EXTENDS Integers, Sequences, FiniteSetsExt

CONSTANTS
  Panels,                  \* the physical outputs there may be
  Fallback,                \* Hyprland's virtual output when no panel is on
  None,
  Rank,                    \* the order in which hyprctl lists outputs
  Width, Height,           \* logicalSize
  EmptyLimit,              \* empty lists in a row after which the shell gives up
  MaxInputs, MaxEvents     \* bounds: what users do; outputs that change, sessions that start

ASSUME DisplaysAssumption ==
  /\ Fallback \notin Panels /\ None \notin Panels \cup {Fallback}
  /\ Rank \in [Panels \cup {Fallback} -> Nat]
  /\ Width \in [Panels \cup {Fallback} -> Nat \ {0}]
  /\ Height \in [Panels \cup {Fallback} -> Nat \ {0}]
  /\ EmptyLimit \in Nat /\ MaxInputs \in Nat /\ MaxEvents \in Nat

VARIABLES
  plugged, rule,           \* Hyprland: the outputs connected, the rule of each
  file, writing,           \* monitors.lua, and what is being written to it
  monitors,                \* the outputs as last listed
  listing, answer,         \* monitorProc: "idle", "asked" or "told", and what it was told
  queued, retry, empties,  \* refreshQueued, retryTimer, emptyRefreshes
  prefs, saved,            \* preferredMain, ...Secondary, ...Placement; displays.json
  code, next,              \* what evalProc evaluates, and what came meanwhile
  healing, reload, recent, \* healing, healProc runs, lastHealAt is less than a minute ago
  asked,                   \* history: the mode and placement last applied, if all is as then
  stale, astray, gaveUp,   \* history: outputs changed unasked; file and screens differ; no heal
  inputs, events

hyprland == <<plugged, rule>>
lister == <<monitors, listing, answer, queued, retry, empties>>
healer == <<healing, reload, recent>>
history == <<asked, stale, astray, gaveUp>>
vars == <<hyprland, file, writing, lister, prefs, saved, code, next, healer, history, inputs, events>>

Origin == <<0, 0>>
Off == [on |-> FALSE]
On(at, mirror) == [on |-> TRUE, at |-> at, mirror |-> mirror]
Modes == {"main", "duplicate", "extend", "second"}
Sides == {"left", "right", "top", "bottom"}
NoRules == [o \in {} |-> Off]

----------------------------------------------------------------------------
(* DisplayMath.js.                                                          *)

\* The first output listed of the first set that has any.
FirstIn(choices) ==
  IF \A k \in DOMAIN choices : choices[k] = {} THEN None
  ELSE LET k == CHOOSE k \in DOMAIN choices :
                  choices[k] # {} /\ \A j \in DOMAIN choices : j < k => choices[j] = {}
       IN CHOOSE o \in choices[k] : \A p \in choices[k] : Rank[o] <= Rank[p]

Active(ms) == {o \in DOMAIN ms : ~ms[o].disabled}

PickMain(ms, preferred) ==
  FirstIn(<<{preferred} \cap DOMAIN ms, {o \in Active(ms) : ms[o].at = Origin}, Active(ms), DOMAIN ms>>)

DetectMode(ms, main) ==
  LET first == IF main \in Active(ms) THEN main ELSE FirstIn(<<Active(ms)>>)
      others == Active(ms) \ {first}
  IN CASE Active(ms) = {} \/ (others = {} /\ first = main /\ DOMAIN ms = {main}) -> "single"
       [] others = {} /\ first = main /\ DOMAIN ms # {main} -> "main"
       [] others = {} /\ first # None /\ first # main -> "second"
       [] others # {} /\ \A o \in others : ms[o].mirror = first -> "duplicate"
       [] OTHER -> "extend"

DetectPlacement(ms, main, other) ==
  CASE ms[other].at[1] >= ms[main].at[1] + Width[main] -> "right"
    [] ms[other].at[1] + Width[other] <= ms[main].at[1] -> "left"
    [] ms[other].at[2] + Height[other] <= ms[main].at[2] -> "top"
    [] OTHER -> "bottom"

\* Math.round, to whole pixels.
Rounded(n) == ((n + 2) \div 4) * 4

\* Faulty variant of PositionFor: the main output's size on every side.
PositionForMain(main, other, side) ==
  CASE side = "left" -> <<-Rounded(Width[main]), 0>>
    [] side = "top" -> <<0, -Rounded(Height[main])>>
    [] side = "bottom" -> <<0, Rounded(Height[main])>>
    [] OTHER -> <<Rounded(Width[main]), 0>>

PositionFor(main, other, side) ==
  CASE side = "left" -> <<-Rounded(Width[other]), 0>>
    [] side = "top" -> <<0, -Rounded(Height[other])>>
    [] side = "bottom" -> <<0, Rounded(Height[main])>>
    [] OTHER -> <<Rounded(Width[main]), 0>>

\* layout: a rule for each output listed, those without a part in the mode off.
Layout(ms, main, second, mode, side) ==
  [o \in DOMAIN ms |->
    CASE o = main /\ ~(mode = "second" /\ second # None) -> On(Origin, None)
      [] o = second /\ mode = "second" -> On(Origin, None)
      [] o = second /\ mode = "duplicate" -> On(Origin, main)
      [] o = second /\ mode = "extend" -> On(PositionFor(main, second, side), None)
      [] OTHER -> Off]

KeepsAPhysicalOutput(rules, ms) ==
  DOMAIN ms \cap Panels # {} => \E o \in DOMAIN rules \cap Panels : rules[o].on

\* Outputs side by side from the origin.
LeftToRight(S) ==
  [o \in S |-> On(<<Rounded(MapThenSumSet(LAMBDA p : Width[p], {p \in S : Rank[p] < Rank[o]})), 0>>, None)]

\* healRules: every panel on, or without one every output.
HealRules(ms) ==
  LeftToRight(IF DOMAIN ms \cap Panels # {} THEN DOMAIN ms \cap Panels ELSE DOMAIN ms)

----------------------------------------------------------------------------
(* Hyprland.                                                                *)

Lit == {o \in plugged : rule[o].on}
Dark == plugged # {} /\ Lit = {}

\* monitors all: the outputs connected, and the virtual one when none is on.
Report ==
  [o \in plugged \cup (IF Lit = {} THEN {Fallback} ELSE {}) |->
    IF o = Fallback THEN [disabled |-> FALSE, at |-> Origin, mirror |-> None]
    ELSE [disabled |-> ~rule[o].on, at |-> rule[o].at,
          mirror |-> IF rule[o].mirror \in Lit THEN rule[o].mirror ELSE None]]

\* Faulty variant of LuaMonitor: a rule that is on leaves "disabled" out, and it stays.
LuaMonitorImplicit(old, r) ==
  IF r.on THEN [r EXCEPT !.on = old.on] ELSE [old EXCEPT !.on = FALSE]

\* luaMonitor: a rule is merged into what is known of its output; off keeps the rest, on
\* states every field.
LuaMonitor(old, r) == IF r.on THEN r ELSE [old EXCEPT !.on = FALSE]

Merged(old, rules) ==
  [o \in Panels |-> IF o \in DOMAIN rules THEN LuaMonitor(old[o], rules[o]) ELSE old[o]]

\* The whole configuration: the wildcard rule, then the file.
Configured(rules) == Merged(LeftToRight(Panels), rules)

----------------------------------------------------------------------------
(* What is derived from the list and the preferences p.                     *)

MainName(p) == PickMain(monitors, p.main)
SecondName(p) ==
  LET others == DOMAIN monitors \ {MainName(p)}
  IN FirstIn(<<{p.second} \cap others, Active(monitors) \cap others, others>>)
Mode(p) == DetectMode(monitors, MainName(p))
Placement(p) ==
  CASE p.side # None -> p.side
    [] p.side = None /\ SecondName(p) # None -> DetectPlacement(monitors, MainName(p), SecondName(p))
    [] OTHER -> "right"

----------------------------------------------------------------------------
(* Listing.                                                                 *)

\* Faulty variant of Refresh: a call during the process is lost.
RefreshUnqueued ==
  /\ listing' = IF listing = "idle" THEN "asked" ELSE listing
  /\ stale' = FALSE
  /\ UNCHANGED <<queued, monitors, answer, empties>>

\* refresh()
Refresh ==
  /\ listing' = IF listing = "idle" THEN "asked" ELSE listing
  /\ queued' = (queued \/ listing # "idle")
  /\ stale' = FALSE
  /\ UNCHANGED <<monitors, answer, empties>>

\* Hyprland answers; after login, perhaps with nothing.
Answer ==
  /\ listing = "asked" /\ listing' = "told"
  /\ answer' \in {Report} \cup {r \in {NoRules} : monitors = NoRules}
  /\ UNCHANGED <<hyprland, file, writing, monitors, queued, retry, empties, prefs, saved, code, next,
                 healer, history, inputs, events>>

\* Faulty variant of Heal: by an evaluation, not by a reload.
HealByEval(ms) ==
  IF healing \/ recent THEN gaveUp' = TRUE /\ UNCHANGED <<healer, writing, code, asked>>
  ELSE /\ recent' = TRUE /\ healing' = TRUE /\ UNCHANGED reload
       /\ writing' = HealRules(ms) /\ code' = HealRules(ms)
       /\ asked' = None /\ UNCHANGED gaveUp

\* heal()
Heal(ms) ==
  IF healing \/ recent THEN gaveUp' = TRUE /\ UNCHANGED <<healer, writing, code, asked>>
  ELSE /\ recent' = TRUE /\ healing' = TRUE /\ reload' = TRUE
       /\ writing' = HealRules(ms)
       /\ asked' = None /\ UNCHANGED <<gaveUp, code>>

\* The list is there, and monitorProc ends.
Listed ==
  /\ listing = "told"
  /\ monitors' = answer /\ answer' = NoRules
  /\ listing' = IF queued THEN "asked" ELSE "idle"
  /\ queued' = FALSE
  /\ \/ /\ answer = NoRules /\ empties < EmptyLimit
        /\ empties' = empties + 1 /\ retry' = TRUE
        /\ UNCHANGED <<healer, writing, code, asked, gaveUp>>
     \/ /\ answer = NoRules /\ empties = EmptyLimit
        /\ gaveUp' = TRUE
        /\ UNCHANGED <<empties, retry, healer, writing, code, asked>>
     \/ /\ answer # NoRules
        /\ empties' = 0 /\ UNCHANGED retry
        /\ IF DOMAIN answer \cap Panels # {} /\ Active(answer) \cap Panels = {} THEN Heal(answer)
           ELSE UNCHANGED <<healer, writing, code, asked, gaveUp>>
  /\ UNCHANGED <<hyprland, file, prefs, saved, next, stale, astray, inputs, events>>

RetryTimeout ==
  /\ retry /\ retry' = FALSE
  /\ Refresh
  /\ UNCHANGED <<hyprland, file, writing, prefs, saved, code, next, healer, asked, astray, gaveUp,
                 inputs, events>>

----------------------------------------------------------------------------
(* Layouts.                                                                 *)

NoApply == asked' = None /\ UNCHANGED <<writing, code, next, astray>>

\* apply(): the layout goes to the file and, if none is being evaluated, to Hyprland.
Apply(p, wanted) ==
  LET mode == IF wanted = "single" \/ SecondName(p) = None THEN "main" ELSE wanted
      rules == Layout(monitors, MainName(p), SecondName(p), mode, Placement(p))
  IN IF MainName(p) = None \/ ~KeepsAPhysicalOutput(rules, monitors)
     THEN NoApply
     ELSE /\ writing' = rules
          /\ code' = IF code = NoRules THEN rules ELSE code
          /\ next' = IF code = NoRules THEN next ELSE rules
          /\ asked' = IF code # NoRules THEN None
                      ELSE [mode |-> mode, side |-> IF mode = "extend" THEN Placement(p) ELSE None]
          /\ astray' = (code # NoRules \/ reload)

Input == inputs < MaxInputs /\ inputs' = inputs + 1
User ==
  Input /\ UNCHANGED <<hyprland, file, lister, healer, stale, gaveUp, events>>

SetMode(wanted) ==
  /\ User
  /\ \E p \in {IF prefs.main = None THEN [prefs EXCEPT !.main = MainName(prefs)] ELSE prefs} :
       /\ saved' = IF p # prefs THEN p ELSE saved
       /\ \/ /\ SecondName(p) = None /\ wanted # "main"
             /\ prefs' = p
             /\ NoApply
          \/ /\ SecondName(p) # None \/ wanted = "main"
             /\ prefs' = [p EXCEPT !.second = IF @ = None THEN SecondName(p) ELSE @,
                                   !.side = IF wanted = "extend" THEN @ ELSE None]
             /\ Apply(prefs', wanted)

SetMain(name) ==
  /\ User
  /\ name \in DOMAIN monitors
  /\ prefs' = [prefs EXCEPT !.main = name, !.second = IF @ = name THEN None ELSE @]
  /\ saved' = prefs'
  /\ Apply(prefs', IF Mode(prefs') = "second" THEN "main" ELSE Mode(prefs'))

SetSecondary(name) ==
  /\ User
  /\ name \in DOMAIN monitors \ {MainName(prefs)}
  /\ prefs' = [prefs EXCEPT !.second = name] /\ saved' = prefs'
  /\ Apply(prefs', Mode(prefs'))

SetPlacement(side) ==
  /\ User
  /\ prefs' = [prefs EXCEPT !.side = side] /\ saved' = prefs'
  /\ IF Mode(prefs) = "extend" THEN Apply(prefs', "extend") ELSE NoApply

SetPinnedWorkspace ==
  /\ User
  /\ saved' = prefs /\ UNCHANGED prefs
  /\ Apply(prefs, Mode(prefs))

\* The card opens, or its button is pressed.
Open ==
  /\ Input /\ Refresh
  /\ UNCHANGED <<hyprland, file, writing, retry, prefs, saved, code, next, healer, asked, astray, gaveUp, events>>

\* setText's write, on another thread.
WriteLands ==
  /\ writing # NoRules
  /\ file' = writing /\ writing' = NoRules
  /\ UNCHANGED <<hyprland, lister, prefs, saved, code, next, healer, history, inputs, events>>

\* evalProc ends, and the outputs are listed; with no output on it may change nothing.  What
\* was started meanwhile is evaluated now or lost, as Process may have it.
EvalEnds ==
  /\ code # NoRules /\ code' \in {NoRules, next} /\ next' = NoRules
  /\ \/ /\ rule' = Merged(rule, code)
        /\ UNCHANGED <<asked, astray>>
     \/ /\ Lit = {} /\ UNCHANGED rule
        /\ asked' = None /\ astray' = TRUE
  /\ healing' = FALSE
  /\ Refresh
  /\ UNCHANGED <<plugged, file, writing, retry, prefs, saved, reload, recent, gaveUp, inputs, events>>

\* healProc ends: Hyprland has read its configuration, the file as it was by then.
HealEnds ==
  /\ reload /\ reload' = FALSE
  /\ rule' = Configured(file)
  /\ healing' = FALSE
  /\ asked' = None
  /\ astray' = (writing # NoRules \/ code # NoRules)
  /\ gaveUp' = (gaveUp \/ writing # NoRules)
  /\ Refresh
  /\ UNCHANGED <<plugged, file, writing, retry, prefs, saved, code, next, recent, inputs, events>>

MinutePasses ==
  /\ recent /\ recent' = FALSE
  /\ UNCHANGED <<hyprland, file, writing, lister, prefs, saved, code, next, healing, reload, history,
                 inputs, events>>

----------------------------------------------------------------------------
Event == events < MaxEvents /\ events' = events + 1

\* An output comes or goes; Displays is not told.
Plug(o) ==
  /\ Event
  /\ plugged' = IF o \in plugged THEN plugged \ {o} ELSE plugged \cup {o}
  /\ stale' = TRUE /\ asked' = None
  /\ UNCHANGED <<rule, file, writing, lister, prefs, saved, code, next, healer, astray, gaveUp, inputs>>

\* A session starts, with what is on disk and whatever is connected by then.
Start ==
  /\ rule' = Configured(file')
  /\ monitors' = NoRules /\ listing' = "asked" /\ queued' = TRUE /\ retry' = FALSE /\ empties' = 0
  /\ answer' = NoRules
  /\ writing' = NoRules /\ code' = NoRules /\ next' = NoRules
  /\ healing' = FALSE /\ reload' = FALSE /\ recent' = FALSE
  /\ asked' = None /\ stale' = FALSE /\ astray' = FALSE /\ gaveUp' = FALSE

Login ==
  /\ Event
  /\ plugged' \in SUBSET Panels
  /\ file' \in {file} \cup ({writing} \ {NoRules})
  /\ prefs' = saved
  /\ Start
  /\ UNCHANGED <<saved, inputs>>

Init ==
  /\ plugged \in SUBSET Panels /\ rule = LeftToRight(Panels)
  /\ file = NoRules /\ writing = NoRules
  /\ monitors = NoRules /\ listing = "asked" /\ answer = NoRules
  /\ queued = TRUE /\ retry = FALSE /\ empties = 0
  /\ prefs = [main |-> None, second |-> None, side |-> None] /\ saved = prefs
  /\ code = NoRules /\ next = NoRules /\ healing = FALSE /\ reload = FALSE /\ recent = FALSE
  /\ asked = None /\ stale = FALSE /\ astray = FALSE /\ gaveUp = FALSE
  /\ inputs = 0 /\ events = 0

Lister == Answer \/ Listed \/ RetryTimeout

Next ==
  \/ \E m \in Modes : SetMode(m)
  \/ \E o \in Panels \cup {Fallback} : SetMain(o) \/ SetSecondary(o)
  \/ \E s \in Sides : SetPlacement(s)
  \/ SetPinnedWorkspace \/ Open
  \/ \E o \in Panels : Plug(o)
  \/ Login
  \/ Lister \/ WriteLands \/ EvalEnds \/ HealEnds \/ MinutePasses

Spec == Init /\ [][Next]_vars

\* hyprctl answers and ends, writes land, timers fire.
FairSpec ==
  Spec /\ WF_vars(Lister) /\ WF_vars(WriteLands) /\ WF_vars(EvalEnds) /\ WF_vars(HealEnds)

----------------------------------------------------------------------------
(* Properties.                                                              *)

\* The states of the shell and of Hyprland.
TypeOK ==
  LET Names == Panels \cup {Fallback, None}
      Shown == [on : BOOLEAN, at : Int \X Int, mirror : Names]
  IN /\ plugged \subseteq Panels /\ rule \in [Panels -> Shown]
     /\ \A rules \in {file, writing, code, next} :
          \A o \in DOMAIN rules : o \in Names /\ (rules[o].on => rules[o] \in Shown)
     /\ \A list \in {monitors, answer} :
          /\ DOMAIN list \subseteq Panels \cup {Fallback}
          /\ \A o \in DOMAIN list : list[o] \in [disabled : BOOLEAN, at : Int \X Int, mirror : Names]
     /\ listing \in {"idle", "asked", "told"} /\ empties \in 0..EmptyLimit
     /\ {queued, retry, healing, reload, recent, stale, astray, gaveUp} \subseteq BOOLEAN
     /\ {prefs, saved} \subseteq [main : Names, second : Names, side : Sides \cup {None}]
     /\ asked \in [mode : Modes, side : Sides \cup {None}] \cup {None}
     /\ inputs \in 0..MaxInputs /\ events \in 0..MaxEvents

Rest == listing = "idle" /\ ~retry /\ writing = NoRules /\ code = NoRules /\ ~reload

\* A list that was asked for is not lost: at rest the shell shows the outputs as they are,
\* unless one came or went and nobody asked since ("A refresh requested while hyprctl is
\* already running must not be lost", Displays.qml:45-53).
ListIsCurrent == listing = "idle" /\ ~stale /\ monitors # NoRules => monitors = Report

\* What was asked for reads back: at rest the mode the card shows is the one last applied,
\* and so is the placement where the sizes do not round down (DisplayMath.js:81-127).
ModeReadsBack ==
  Rest /\ ~stale /\ asked # None /\ prefs.main \in DOMAIN monitors
      /\ DOMAIN monitors = DOMAIN file =>
    LET main == MainName(prefs)
        second == SecondName(prefs)
    IN /\ Mode(prefs) = asked.mode \/ (Mode(prefs) = "single" /\ asked.mode = "main")
       /\ asked.mode = "extend" /\ (\A o \in {main, second} : Rounded(Width[o]) >= Width[o]
                                                             /\ Rounded(Height[o]) >= Height[o])
            => DetectPlacement(monitors, main, second) = asked.side

\* What is on the screens is what the next session restores ("The generated files keep it
\* across sessions", Displays.qml:248-254), unless a layout came while another was being
\* evaluated, or a reload read the file before it was written.
LayoutIsKept ==
  Rest /\ ~astray =>
    \A o \in DOMAIN file \cap Panels :
      /\ rule[o].on = file[o].on
      /\ file[o].on => rule[o] = file[o]

\* Whoever lists the outputs while every panel is off gets one back, but within a minute of
\* the last repair or when a reload reads the file before it is written
\* (Displays.qml:256-276).
DarkIsHealed == (Dark /\ listing = "asked") ~> (~Dark \/ gaveUp)

=============================================================================
