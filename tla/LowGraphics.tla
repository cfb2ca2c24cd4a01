---------------------------- MODULE LowGraphics -----------------------------
(***************************************************************************)
(* Eco mode and game mode (services/PowerSaver.qml, services/GameMode.qml)  *)
(* over one compositor.  Both switch Hyprland's effects off by requests on  *)
(* its socket (Internal/hyprextras.cpp) and back on by asking it to reload  *)
(* its configuration; both switch them off again when it says it reloaded.  *)
(* Eco also freezes the shell's own animations through a global option.     *)
(***************************************************************************)
EXTENDS Integers, SequencesExt

CONSTANTS
  Levels,          \* battery percentages, and warning levels among them
  WarningLevels,
  Scales,          \* animation scales, 0 the frozen one and 1 the default
  MaxInputs        \* bound: what users, the charger and crashes may do

ASSUME GraphicsAssumption ==
  /\ Levels \subseteq Nat /\ WarningLevels \subseteq Nat
  /\ {0, 1} \subseteq Scales /\ Scales \subseteq Nat
  /\ MaxInputs \in Nat

VARIABLES
  hasBattery, onBattery, pct, warn,   \* UPower and the configured warning level
  ecoEnabled, autoOnBattery,          \* PowerSaver's persistent properties,
  prevAnimScale,                      \* lost when the process ends
  autoLatched, evalPending,           \* the latch, the 400 ms timer
  scale, savedScale,                  \* the option, and its value on disk
  gameEnabled, gameBound,             \* game mode; it still follows the compositor
  options,                            \* animations:enabled as last described
  requests,                           \* sent to the compositor, in order
  applied,                            \* answers to applied options on their way
  answer,                             \* the answer to the options request, or "none"
  reloaded,                           \* configreloaded events on their way, by reader
  compositor,                         \* what Hyprland shows
  touched,                            \* history: the user set the scale since eco's
                                      \* last switch
  steady,                             \* history: the level at the latch's last flip,
                                      \* -1 once anything else happened to it
  gameAsked,                          \* history: what the user last asked of game mode
  blind,                              \* history: game mode was switched off, off as it
                                      \* seemed, before the compositor had told
  inputs

power == <<hasBattery, onBattery, pct, warn>>
eco == <<ecoEnabled, autoOnBattery, autoLatched, prevAnimScale, scale, touched>>
game == <<gameEnabled, gameBound, gameAsked, blind, options>>
traffic == <<requests, applied, answer, reloaded>>
vars == <<power, eco, evalPending, savedScale, game, traffic, compositor, steady, inputs>>

\* "full": effects as configured.  "low": eco's.  "tear": game mode's, tearing allowed.
Shown == {"full", "low", "tear"}
Readers == {"extras", "services"}

Eco(manual, auto, latched) == manual \/ (hasBattery /\ auto /\ latched)
ecoActive == Eco(ecoEnabled, autoOnBattery, autoLatched)

----------------------------------------------------------------------------
(* Hypr.extras.                                                             *)

\* refreshOptions: a request under way (there is one at most) is closed, its answer
\* never read.
Refreshed(queue) ==
  LET asked == {i \in DOMAIN queue : queue[i] = "describe"} IN
  Append(IF asked = {} THEN queue ELSE RemoveAt(queue, CHOOSE i \in asked : TRUE), "describe")

If(b, request) == IF b THEN <<request>> ELSE <<>>

\* The answer to applied options: ask what the options are now.
AppliedAnswer ==
  /\ applied > 0
  /\ applied' = applied - 1
  /\ requests' = Refreshed(requests) /\ answer' = "none"
  /\ UNCHANGED <<power, eco, evalPending, savedScale, game, reloaded, compositor, steady, inputs>>

----------------------------------------------------------------------------
(* Game mode.                                                               *)

\* onEnabledChanged.
SwitchGame(on) ==
  /\ gameEnabled' = on
  /\ requests' = requests \o (IF on = gameEnabled THEN <<>>
                              ELSE IF on THEN <<"tear">>
                              ELSE If(~ecoActive, "reload"))

\* The options arrive.  Until someone assigns it, "enabled" is bound to them.
OptionsAnswer ==
  /\ answer # "none"
  /\ answer' = "none"
  /\ options' = answer
  /\ SwitchGame(IF gameBound THEN answer = "off" ELSE gameEnabled)
  /\ UNCHANGED <<power, eco, evalPending, savedScale, gameBound, gameAsked, blind, applied,
                 reloaded, compositor, steady, inputs>>

----------------------------------------------------------------------------
(* Eco mode.                                                                *)

\* Faulty variant of SwitchEco: the saved scale is taken as it is.
RestoreAsSaved(manual, auto, latched) ==
  /\ ecoEnabled' = manual /\ autoOnBattery' = auto /\ autoLatched' = latched
  /\ LET on == Eco(manual, auto, latched) IN
     CASE on /\ ~ecoActive ->
            /\ prevAnimScale' = scale /\ scale' = 0 /\ touched' = FALSE
            /\ requests' = Append(requests, "low")
       [] ~on /\ ecoActive ->
            /\ scale' = prevAnimScale /\ touched' = FALSE
            /\ requests' = requests \o If(~gameEnabled, "reload")
            /\ UNCHANGED prevAnimScale
       [] OTHER -> UNCHANGED <<prevAnimScale, scale, touched, requests>>

\* onEcoActiveChanged, behind whatever changes one of the three.
SwitchEco(manual, auto, latched) ==
  /\ ecoEnabled' = manual /\ autoOnBattery' = auto /\ autoLatched' = latched
  /\ LET on == Eco(manual, auto, latched) IN
     CASE on /\ ~ecoActive ->
            /\ prevAnimScale' = scale /\ scale' = 0 /\ touched' = FALSE
            /\ requests' = Append(requests, "low")
       [] ~on /\ ecoActive ->
            /\ scale' = IF prevAnimScale > 0 THEN prevAnimScale ELSE 1
            /\ touched' = FALSE
            /\ requests' = requests \o If(~gameEnabled, "reload")
            /\ UNCHANGED prevAnimScale
       [] OTHER -> UNCHANGED <<prevAnimScale, scale, touched, requests>>

\* Faulty variant of Latch: the hysteresis is one point short.
LatchShort(latched, auto) ==
  hasBattery /\ auto /\ onBattery /\ IF latched THEN pct < warn + 1 ELSE pct <= warn

\* evalAuto: latched at the warning level, released two points above it.
Latch(latched, auto) ==
  hasBattery /\ auto /\ onBattery /\ IF latched THEN pct < warn + 2 ELSE pct <= warn

EvalAuto ==
  /\ evalPending /\ evalPending' = FALSE
  /\ SwitchEco(ecoEnabled, autoOnBattery, Latch(autoLatched, autoOnBattery))
  /\ steady' = IF autoLatched' # autoLatched THEN pct ELSE steady
  /\ UNCHANGED <<power, savedScale, game, applied, answer, reloaded, compositor, inputs>>

----------------------------------------------------------------------------
(* The compositor and its events.                                           *)

\* Hyprland serves one request after another.
Serve ==
  /\ requests # <<>>
  /\ requests' = Tail(requests)
  /\ \/ /\ Head(requests) = "low"
        /\ compositor' = IF compositor = "full" THEN "low" ELSE compositor
        /\ applied' = applied + 1
        /\ UNCHANGED <<answer, reloaded>>
     \/ /\ Head(requests) = "tear"
        /\ compositor' = "tear" /\ applied' = applied + 1
        /\ UNCHANGED <<answer, reloaded>>
     \/ /\ Head(requests) = "reload"
        /\ compositor' = "full"
        /\ reloaded' = [r \in Readers |-> reloaded[r] + 1]
        /\ UNCHANGED <<answer, applied>>
     \/ /\ Head(requests) = "describe"
        /\ answer' = IF compositor = "full" THEN "on" ELSE "off"
        /\ UNCHANGED <<applied, reloaded, compositor>>
  /\ UNCHANGED <<power, eco, evalPending, savedScale, game, steady, inputs>>

\* HyprExtras reads the event on its own socket.
ExtrasReloaded ==
  /\ reloaded["extras"] > 0
  /\ reloaded' = [reloaded EXCEPT !["extras"] = @ - 1]
  /\ requests' = Refreshed(requests) /\ answer' = "none"
  /\ UNCHANGED <<power, eco, evalPending, savedScale, game, applied, compositor, steady, inputs>>

\* Faulty variant of ServicesReloaded: eco does not assert itself again.
GameOnlyReloaded ==
  /\ reloaded["services"] > 0
  /\ reloaded' = [reloaded EXCEPT !["services"] = @ - 1]
  /\ requests' = requests \o If(gameEnabled, "tear")
  /\ UNCHANGED <<power, eco, evalPending, savedScale, game, applied, answer, compositor, steady,
                 inputs>>

\* Faulty variant of ServicesReloaded: with both modes off, effects are restored again.
ReloadedAgain ==
  /\ reloaded["services"] > 0
  /\ reloaded' = [reloaded EXCEPT !["services"] = @ - 1]
  /\ requests' = requests \o If(gameEnabled, "tear") \o If(ecoActive, "low")
                          \o If(~gameEnabled /\ ~ecoActive, "reload")
  /\ UNCHANGED <<power, eco, evalPending, savedScale, game, applied, answer, compositor, steady,
                 inputs>>

\* Both services hear it from Quickshell, and assert themselves again.
ServicesReloaded ==
  /\ reloaded["services"] > 0
  /\ reloaded' = [reloaded EXCEPT !["services"] = @ - 1]
  /\ requests' = requests \o If(gameEnabled, "tear") \o If(ecoActive, "low")
  /\ UNCHANGED <<power, eco, evalPending, savedScale, game, applied, answer, compositor, steady,
                 inputs>>

----------------------------------------------------------------------------
(* Inputs.                                                                  *)

Input == inputs < MaxInputs /\ inputs' = inputs + 1

\* UPower's signals, and a new warning level, restart the 400 ms timer.
PowerChanged ==
  /\ Input
  /\ \/ /\ onBattery' = ~onBattery /\ steady' = -1
        /\ UNCHANGED <<pct, warn>>
     \/ /\ pct' \in Levels \ {pct}
        /\ UNCHANGED <<onBattery, warn, steady>>
     \/ /\ warn' \in WarningLevels \ {warn} /\ steady' = -1
        /\ UNCHANGED <<onBattery, pct>>
  /\ evalPending' = TRUE
  /\ UNCHANGED <<hasBattery, eco, savedScale, game, traffic, compositor>>

\* enable(), toggle() and the switches that assign "enabled"; disable() forgets the
\* latch too; the switch for "auto on battery".
EcoSwitched ==
  /\ Input
  /\ \/ SwitchEco(~ecoEnabled, autoOnBattery, autoLatched) /\ UNCHANGED steady
     \/ SwitchEco(FALSE, autoOnBattery, FALSE) /\ steady' = -1
     \/ SwitchEco(ecoEnabled, ~autoOnBattery, autoLatched) /\ steady' = -1
  /\ UNCHANGED <<power, evalPending, savedScale, game, applied, answer, reloaded, compositor>>

\* Whoever assigns "enabled" breaks its binding.
GameSwitched(on) ==
  /\ Input
  /\ SwitchGame(on)
  /\ gameBound' = FALSE /\ gameAsked' = on
  /\ blind' = (~on /\ (blind \/ (options = "unknown" /\ ~gameEnabled)))
  /\ UNCHANGED <<power, eco, evalPending, savedScale, options, applied, answer, reloaded,
                 compositor, steady>>

\* The user writes a scale into shell.json, and the store reads it.
ScaleSet(s) ==
  /\ Input
  /\ s # scale
  /\ scale' = s /\ savedScale' = s /\ touched' = TRUE
  /\ UNCHANGED <<power, ecoEnabled, autoOnBattery, autoLatched, prevAnimScale, evalPending, game,
                 traffic, compositor, steady>>

\* The configuration store writes the option out.
ScaleSaved ==
  /\ savedScale # scale
  /\ savedScale' = scale
  /\ UNCHANGED <<power, eco, evalPending, game, traffic, compositor, steady, inputs>>

\* Hyprland's own files are edited.
HyprlandEdited ==
  /\ Input
  /\ compositor' = "full"
  /\ reloaded' = [r \in Readers |-> reloaded[r] + 1]
  /\ UNCHANGED <<power, eco, evalPending, savedScale, game, requests, applied, answer, steady>>

----------------------------------------------------------------------------
(* Start.                                                                   *)

\* Component.onCompleted: persistent properties at their defaults, the latch
\* evaluated, the scale frozen again or healed.
Boot(latched) ==
  /\ ecoEnabled' = FALSE /\ autoOnBattery' = TRUE /\ autoLatched' = latched
  /\ prevAnimScale' = IF latched THEN savedScale ELSE 1
  /\ scale' = IF latched THEN 0 ELSE IF savedScale = 0 THEN 1 ELSE savedScale
  /\ touched' = FALSE /\ steady' = -1

\* The shell dies, and starts again.  What it sent is still served; no answer or event
\* of before is read.  UPower is known by now, or its first signals are to come.
Restart ==
  /\ Input
  /\ \E ready \in BOOLEAN :
       LET latched == ready /\ Latch(FALSE, TRUE) IN
       /\ Boot(latched)
       /\ evalPending' = ~ready
       /\ requests' = Refreshed(requests) \o If(latched, "low")
  /\ gameEnabled' = FALSE /\ gameBound' = TRUE /\ options' = "unknown"
  /\ blind' = FALSE
  /\ answer' = "none" /\ applied' = 0 /\ reloaded' = [r \in Readers |-> 0]
  /\ UNCHANGED <<power, savedScale, gameAsked, compositor>>

Init ==
  /\ hasBattery \in BOOLEAN /\ onBattery \in {b \in BOOLEAN : b => hasBattery}
  /\ pct \in Levels /\ warn \in WarningLevels
  /\ ecoEnabled = FALSE /\ autoOnBattery = TRUE /\ autoLatched = FALSE /\ prevAnimScale = 1
  /\ scale = 1 /\ savedScale = 1 /\ touched = FALSE /\ steady = -1
  /\ evalPending = TRUE
  /\ gameEnabled = FALSE /\ gameBound = TRUE /\ gameAsked = FALSE
  /\ blind = FALSE /\ options = "unknown"
  /\ requests = <<"describe">> /\ applied = 0 /\ answer = "none"
  /\ reloaded = [r \in Readers |-> 0]
  /\ compositor = "full"
  /\ inputs = 0

ShellStep == AppliedAnswer \/ OptionsAnswer \/ ExtrasReloaded \/ ServicesReloaded

Next ==
  \/ ShellStep \/ Serve \/ EvalAuto \/ ScaleSaved
  \/ PowerChanged \/ EcoSwitched \/ HyprlandEdited \/ Restart
  \/ \E on \in BOOLEAN : GameSwitched(on)
  \/ \E s \in Scales : ScaleSet(s)

Spec == Init /\ [][Next]_vars

\* Hyprland serves its socket and the event loop reads what came back; in which order
\* they take turns is left open.
FairSpec == Spec /\ WF_vars(Serve \/ ShellStep)

----------------------------------------------------------------------------
(* Properties.                                                              *)

AtRest ==
  /\ requests = <<>> /\ applied = 0 /\ answer = "none"
  /\ \A r \in Readers : reloaded[r] = 0

TypeOK ==
  /\ hasBattery \in BOOLEAN /\ onBattery \in BOOLEAN /\ pct \in Levels /\ warn \in WarningLevels
  /\ ecoEnabled \in BOOLEAN /\ autoOnBattery \in BOOLEAN /\ autoLatched \in BOOLEAN
  /\ {prevAnimScale, scale, savedScale} \subseteq Scales /\ touched \in BOOLEAN
  /\ steady \in Levels \cup {-1} /\ evalPending \in BOOLEAN
  /\ gameEnabled \in BOOLEAN /\ gameBound \in BOOLEAN /\ gameAsked \in BOOLEAN
  /\ blind \in BOOLEAN
  /\ options \in {"unknown", "on", "off"}
  /\ requests \in Seq({"low", "tear", "reload", "describe"})
  /\ applied \in Nat /\ answer \in {"none", "on", "off"} /\ reloaded \in [Readers -> Nat]
  /\ compositor \in Shown
  /\ inputs \in Nat

\* "low-gfx stays while EITHER is on": when nothing is under way between the shell and
\* the compositor, its effects are off exactly when a mode is on, and game mode has its
\* tearing, through reloads, restarts and any order of switching, unless game mode was
\* switched off in the moment after a start in which it did not know it was on.
GraphicsFollowModes ==
  AtRest /\ ~blind =>
    /\ compositor # "full" <=> ecoActive \/ gameEnabled
    /\ gameEnabled => compositor = "tear"

\* The shell's animations are frozen exactly while eco is on, unless the user set the
\* scale since eco last switched; a crash in eco leaves nothing frozen.
MotionFollowsEco == touched \/ (scale = 0 <=> ecoActive)

\* "2-point hysteresis (no flapping)": two flips of the latch on one battery charge are
\* two points of charge apart, when neither the charger, the warning level nor the user
\* had a hand in it.
LatchHasHysteresis ==
  [][(EvalAuto /\ autoLatched' # autoLatched /\ steady # -1)
       => (pct - steady >= 2 \/ steady - pct >= 2)]_vars

\* The modes, the reload they ask for and the reload they answer do not chase each
\* other for ever.
TrafficEnds == <>[]AtRest

(* What the design and its plan say, and the code does not do.              *)

\* "reload only when both off", "powerSaver disable, confirm reload restores": with eco
\* off and game mode never asked for, the effects are back.
EffectsComeBack ==
  AtRest /\ ~evalPending /\ ~ecoActive /\ ~gameAsked /\ ~blind => compositor = "full"

=============================================================================
