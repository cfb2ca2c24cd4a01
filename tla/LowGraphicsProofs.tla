------------------------- MODULE LowGraphicsProofs --------------------------
(***************************************************************************)
(* Proofs about LowGraphics, for any battery levels, warning levels, scales *)
(* and any number of inputs.                                                *)
(***************************************************************************)
EXTENDS LowGraphics, TLAPS

(* Type correctness.                                                        *)

PowerOK ==
  hasBattery \in BOOLEAN /\ onBattery \in BOOLEAN /\ pct \in Levels /\ warn \in WarningLevels
EcoOK ==
  /\ ecoEnabled \in BOOLEAN /\ autoOnBattery \in BOOLEAN /\ autoLatched \in BOOLEAN
  /\ prevAnimScale \in Scales /\ scale \in Scales /\ touched \in BOOLEAN
GameOK ==
  /\ gameEnabled \in BOOLEAN /\ gameBound \in BOOLEAN /\ gameAsked \in BOOLEAN
  /\ blind \in BOOLEAN /\ options \in {"unknown", "on", "off"}
Requests == {"low", "tear", "reload", "describe"}
TrafficOK ==
  /\ requests \in Seq(Requests) /\ applied \in Nat /\ answer \in {"none", "on", "off"}
  /\ reloaded \in [Readers -> Nat]
RestOK ==
  /\ evalPending \in BOOLEAN /\ savedScale \in Scales /\ compositor \in Shown
  /\ steady \in Levels \cup {-1} /\ inputs \in Nat

LEMMA Parts == TypeOK <=> PowerOK /\ EcoOK /\ GameOK /\ TrafficOK /\ RestOK
BY DEF TypeOK, PowerOK, EcoOK, GameOK, TrafficOK, RestOK, Requests

LEMMA PowerKept == PowerOK /\ UNCHANGED power => PowerOK'
BY DEF PowerOK, power
LEMMA EcoKept == EcoOK /\ UNCHANGED eco => EcoOK'
BY DEF EcoOK, eco
LEMMA GameKept == GameOK /\ UNCHANGED game => GameOK'
BY DEF GameOK, game

LEMMA Sent ==
  ASSUME NEW q \in Seq(Requests), NEW r \in Requests, NEW b
  PROVE  Append(q, r) \in Seq(Requests) /\ q \o If(b, r) \in Seq(Requests)
BY DEF If

LEMMA RefreshedSent ==
  ASSUME NEW q \in Seq(Requests) PROVE Refreshed(q) \in Seq(Requests)
<1>. DEFINE asked == {i \in DOMAIN q : q[i] = "describe"}
            at == CHOOSE i \in asked : TRUE
<1>1. CASE asked = {}
  BY <1>1 DEF Refreshed, Requests
<1>2. CASE asked # {}
  <2>1. at \in 1 .. Len(q)
    BY <1>2
  <2>. HIDE DEF at
  <2>2. SubSeq(q, 1, at - 1) \in Seq(Requests) /\ SubSeq(q, at + 1, Len(q)) \in Seq(Requests)
    BY <2>1
  <2>3. Append(SubSeq(q, 1, at - 1) \o SubSeq(q, at + 1, Len(q)), "describe") \in Seq(Requests)
    BY <2>2 DEF Requests
  <2>. QED
    BY <1>2, <2>3 DEF at, Refreshed, RemoveAt
<1>. QED
  BY <1>1, <1>2

LEMMA EcoIsBoolean ==
  ASSUME PowerOK, NEW m \in BOOLEAN, NEW a \in BOOLEAN, NEW l \in BOOLEAN
  PROVE  Eco(m, a, l) \in BOOLEAN
BY DEF Eco, PowerOK

LEMMA SwitchEcoTypes ==
  ASSUME TypeOK, NEW m \in BOOLEAN, NEW a \in BOOLEAN, NEW l \in BOOLEAN, SwitchEco(m, a, l)
  PROVE  EcoOK' /\ requests' \in Seq(Requests)
<1>1. EcoOK /\ requests \in Seq(Requests) /\ gameEnabled \in BOOLEAN
  BY Parts DEF GameOK, TrafficOK
<1>2. ecoEnabled' = m /\ autoOnBattery' = a /\ autoLatched' = l
  BY DEF SwitchEco
<1>3. CASE Eco(m, a, l) /\ ~ecoActive
  <2>1. prevAnimScale' = scale /\ scale' = 0 /\ touched' = FALSE /\ requests' = Append(requests, "low")
    BY <1>3 DEF SwitchEco
  <2>. QED
    BY <1>1, <1>2, <2>1, GraphicsAssumption, Sent DEF EcoOK, Requests
<1>4. CASE ~Eco(m, a, l) /\ ecoActive
  <2>1. /\ scale' = IF prevAnimScale > 0 THEN prevAnimScale ELSE 1
        /\ touched' = FALSE /\ prevAnimScale' = prevAnimScale
        /\ requests' = requests \o If(~gameEnabled, "reload")
    BY <1>4 DEF SwitchEco
  <2>2. requests' \in Seq(Requests)
    BY <1>1, <2>1, Sent DEF Requests
  <2>. QED
    BY <1>1, <1>2, <2>1, <2>2, GraphicsAssumption DEF EcoOK
<1>5. CASE ~(Eco(m, a, l) /\ ~ecoActive) /\ ~(~Eco(m, a, l) /\ ecoActive)
  <2>1. UNCHANGED <<prevAnimScale, scale, touched, requests>>
    BY <1>5 DEF SwitchEco
  <2>. QED
    BY <1>1, <1>2, <2>1 DEF EcoOK
<1>. QED
  BY <1>3, <1>4, <1>5

LEMMA SwitchGameTypes ==
  ASSUME TypeOK, NEW on \in BOOLEAN, SwitchGame(on)
  PROVE  gameEnabled' \in BOOLEAN /\ requests' \in Seq(Requests)
<1>1. requests \in Seq(Requests)
  BY Parts DEF TrafficOK
<1>3. requests \o If(~ecoActive, "reload") \in Seq(Requests)
  BY <1>1, Sent DEF Requests
<1>4. requests \o <<>> \in Seq(Requests) /\ requests \o <<"tear">> \in Seq(Requests)
  BY <1>1 DEF Requests
<1>. QED
  BY <1>3, <1>4 DEF SwitchGame

LEMMA LatchIsBoolean ==
  ASSUME TypeOK, NEW l \in BOOLEAN, NEW a \in BOOLEAN PROVE Latch(l, a) \in BOOLEAN
BY DEF Latch

LEMMA TypeInit == Init => TypeOK
<1>. SUFFICES ASSUME Init PROVE TypeOK
  OBVIOUS
<1>1. PowerOK
  BY DEF Init, PowerOK
<1>2. EcoOK /\ GameOK
  BY GraphicsAssumption DEF Init, EcoOK, GameOK
<1>3. TrafficOK
  BY DEF Init, TrafficOK, Requests, Readers
<1>4. RestOK
  BY GraphicsAssumption DEF Init, RestOK, Shown
<1>. QED
  BY <1>1, <1>2, <1>3, <1>4, Parts

LEMMA TypeStep == TypeOK /\ [Next]_vars => TypeOK'
<1>. SUFFICES ASSUME TypeOK, [Next]_vars PROVE TypeOK'
  OBVIOUS
<1>1. PowerOK /\ EcoOK /\ GameOK /\ TrafficOK /\ RestOK
  BY Parts
<1>. DEFINE NewParts == PowerOK' /\ EcoOK' /\ GameOK' /\ TrafficOK' /\ RestOK'
<1>2. NewParts => TypeOK'
  BY DEF TypeOK, PowerOK, EcoOK, GameOK, TrafficOK, RestOK, Requests
<1>3. Refreshed(requests) \in Seq(Requests)
  BY <1>1, RefreshedSent DEF TrafficOK
<1>4. CASE AppliedAnswer
  BY <1>1, <1>2, <1>3, <1>4, PowerKept, EcoKept, GameKept DEF AppliedAnswer, TrafficOK, RestOK
<1>5. CASE OptionsAnswer
  <2>. DEFINE on == IF gameBound THEN answer = "off" ELSE gameEnabled
  <2>1. on \in BOOLEAN
    BY <1>1 DEF GameOK
  <2>2. SwitchGame(on)
    BY <1>5 DEF OptionsAnswer
  <2>. HIDE DEF on
  <2>3. gameEnabled' \in BOOLEAN /\ requests' \in Seq(Requests)
    BY <2>1, <2>2, SwitchGameTypes
  <2>. QED
    BY <1>1, <1>2, <1>5, <2>3, PowerKept, EcoKept DEF OptionsAnswer, GameOK, TrafficOK, RestOK
<1>6. CASE ExtrasReloaded
  <2>1. TrafficOK'
    BY <1>1, <1>3, <1>6 DEF ExtrasReloaded, TrafficOK, Readers
  <2>. QED
    BY <1>1, <1>2, <1>6, <2>1, PowerKept, EcoKept, GameKept DEF ExtrasReloaded, RestOK
<1>7. CASE ServicesReloaded
  <2>1. gameEnabled \in BOOLEAN /\ ecoActive \in BOOLEAN /\ requests \in Seq(Requests)
    BY <1>1, EcoIsBoolean DEF GameOK, EcoOK, TrafficOK, ecoActive
  <2>2. requests \o If(gameEnabled, "tear") \in Seq(Requests)
    BY <2>1, Sent DEF Requests
  <2>3. (requests \o If(gameEnabled, "tear")) \o If(ecoActive, "low") \in Seq(Requests)
    BY <2>1, <2>2, Sent DEF Requests
  <2>4. requests' \in Seq(Requests)
    BY <1>7, <2>3 DEF ServicesReloaded
  <2>5. TrafficOK'
    BY <1>1, <1>7, <2>4 DEF ServicesReloaded, TrafficOK, Readers
  <2>. QED
    BY <1>1, <1>2, <1>7, <2>5, PowerKept, EcoKept, GameKept DEF ServicesReloaded, RestOK
<1>8. CASE Serve
  <2>1. requests' \in Seq(Requests)
    BY <1>1, <1>8 DEF Serve, TrafficOK
  <2>2. compositor' \in Shown /\ applied' \in Nat /\ answer' \in {"none", "on", "off"}
        /\ reloaded' \in [Readers -> Nat]
    BY <1>1, <1>8 DEF Serve, TrafficOK, RestOK, Shown
  <2>. QED
    BY <1>1, <1>2, <1>8, <2>1, <2>2, PowerKept, EcoKept, GameKept DEF Serve, TrafficOK, RestOK
<1>9. CASE EvalAuto
  <2>1. Latch(autoLatched, autoOnBattery) \in BOOLEAN /\ ecoEnabled \in BOOLEAN
        /\ autoOnBattery \in BOOLEAN
    BY <1>1, LatchIsBoolean DEF EcoOK
  <2>2. EcoOK' /\ requests' \in Seq(Requests)
    BY <1>9, <2>1, SwitchEcoTypes DEF EvalAuto
  <2>. QED
    BY <1>1, <1>2, <1>9, <2>2, PowerKept, GameKept DEF EvalAuto, TrafficOK, RestOK, PowerOK
<1>10. CASE ScaleSaved
  BY <1>1, <1>2, <1>10, PowerKept, EcoKept, GameKept DEF ScaleSaved, EcoOK, TrafficOK, RestOK, traffic
<1>11. CASE PowerChanged
  <2>1. PowerOK' /\ steady' \in {steady, -1}
    BY <1>1, <1>11 DEF PowerChanged, PowerOK
  <2>. QED
    BY <1>1, <1>2, <1>11, <2>1, EcoKept, GameKept DEF PowerChanged, Input, TrafficOK, RestOK, traffic
<1>12. CASE EcoSwitched
  <2>1. EcoOK' /\ requests' \in Seq(Requests)
    BY <1>1, <1>12, SwitchEcoTypes DEF EcoSwitched, EcoOK
  <2>2. steady' \in {steady, -1}
    BY <1>12 DEF EcoSwitched
  <2>. QED
    BY <1>1, <1>2, <1>12, <2>1, <2>2, PowerKept, GameKept DEF EcoSwitched, Input, TrafficOK, RestOK
<1>13. CASE HyprlandEdited
  BY <1>1, <1>2, <1>13, PowerKept, EcoKept, GameKept
     DEF HyprlandEdited, Input, TrafficOK, RestOK, Readers, Shown
<1>14. CASE Restart
  <2>1. PICK ready \in BOOLEAN :
          LET latched == ready /\ Latch(FALSE, TRUE) IN
          /\ Boot(latched)
          /\ evalPending' = ~ready
          /\ requests' = Refreshed(requests) \o If(latched, "low")
    BY <1>14 DEF Restart
  <2>. DEFINE latched == ready /\ Latch(FALSE, TRUE)
  <2>2. latched \in BOOLEAN
    OBVIOUS
  <2>3. Boot(latched) /\ requests' = Refreshed(requests) \o If(latched, "low")
        /\ evalPending' \in BOOLEAN
    BY <2>1
  <2>. HIDE DEF latched
  <2>4. EcoOK' /\ steady' = -1
    BY <1>1, <2>2, <2>3, GraphicsAssumption DEF Boot, EcoOK, RestOK
  <2>5. requests' \in Seq(Requests)
    BY <1>3, <2>2, <2>3, Sent DEF Requests
  <2>6. PowerOK' /\ GameOK'
    BY <1>1, <1>14, PowerKept DEF Restart, GameOK
  <2>7. TrafficOK'
    BY <1>14, <2>5 DEF Restart, TrafficOK, Readers
  <2>8. RestOK'
    BY <1>1, <1>14, <2>3, <2>4 DEF Restart, Input, RestOK
  <2>. QED
    BY <1>2, <2>4, <2>6, <2>7, <2>8
<1>15. ASSUME NEW on \in BOOLEAN, GameSwitched(on) PROVE TypeOK'
  <2>1. gameEnabled' \in BOOLEAN /\ requests' \in Seq(Requests)
    BY <1>15, SwitchGameTypes DEF GameSwitched
  <2>2. blind' \in BOOLEAN /\ gameBound' \in BOOLEAN /\ gameAsked' \in BOOLEAN
    BY <1>1, <1>15 DEF GameSwitched, GameOK
  <2>. QED
    BY <1>1, <1>2, <1>15, <2>1, <2>2, PowerKept, EcoKept
       DEF GameSwitched, Input, GameOK, TrafficOK, RestOK
<1>16. ASSUME NEW s \in Scales, ScaleSet(s) PROVE TypeOK'
  BY <1>1, <1>2, <1>16, PowerKept, GameKept DEF ScaleSet, Input, EcoOK, TrafficOK, RestOK, traffic
<1>17. CASE UNCHANGED vars
  BY <1>1, <1>2, <1>17, PowerKept, EcoKept, GameKept DEF vars, traffic, TrafficOK, RestOK
<1>. QED
  BY <1>4, <1>5, <1>6, <1>7, <1>8, <1>9, <1>10, <1>11, <1>12, <1>13, <1>14, <1>15, <1>16, <1>17
     DEF Next, ShellStep

\* Every variable of the two modes keeps its type, the exchange with the compositor
\* included.
THEOREM TypeCorrect == Spec => []TypeOK
BY TypeInit, TypeStep, PTL DEF Spec

----------------------------------------------------------------------------
(* The shell's own animations.  Every switch of eco sets the scale with it; *)
(* nothing but eco moves what eco depends on, hasBattery excepted, which    *)
(* does not change while the machine runs.                                  *)

LEMMA MotionSwitched ==
  ASSUME TypeOK, MotionFollowsEco, NEW m \in BOOLEAN, NEW a \in BOOLEAN, NEW l \in BOOLEAN,
         SwitchEco(m, a, l), UNCHANGED hasBattery
  PROVE  MotionFollowsEco'
<1>1. ecoActive' <=> Eco(m, a, l)
  BY DEF SwitchEco, ecoActive, Eco
<1>2. prevAnimScale \in Nat
  BY GraphicsAssumption DEF TypeOK
<1>3. CASE Eco(m, a, l) /\ ~ecoActive
  <2>1. scale' = 0
    BY <1>3 DEF SwitchEco
  <2>. QED
    BY <1>1, <1>3, <2>1 DEF MotionFollowsEco
<1>4. CASE ~Eco(m, a, l) /\ ecoActive
  <2>1. scale' = IF prevAnimScale > 0 THEN prevAnimScale ELSE 1
    BY <1>4 DEF SwitchEco
  <2>2. scale' # 0
    BY <1>2, <2>1
  <2>. QED
    BY <1>1, <1>4, <2>2 DEF MotionFollowsEco
<1>5. CASE Eco(m, a, l) <=> ecoActive
  <2>1. UNCHANGED <<scale, touched>>
    BY <1>5 DEF SwitchEco
  <2>. QED
    BY <1>1, <1>5, <2>1 DEF MotionFollowsEco
<1>. QED
  BY <1>3, <1>4, <1>5

LEMMA MotionKept ==
  MotionFollowsEco /\ UNCHANGED <<eco, hasBattery>> => MotionFollowsEco'
BY DEF MotionFollowsEco, ecoActive, Eco, eco

LEMMA MotionStep == TypeOK /\ MotionFollowsEco /\ [Next]_vars => MotionFollowsEco'
<1>. SUFFICES ASSUME TypeOK, MotionFollowsEco, [Next]_vars PROVE MotionFollowsEco'
  OBVIOUS
<1>1. /\ ecoEnabled \in BOOLEAN /\ autoOnBattery \in BOOLEAN /\ autoLatched \in BOOLEAN
      /\ Latch(autoLatched, autoOnBattery) \in BOOLEAN
  BY LatchIsBoolean DEF TypeOK
<1>2. CASE EvalAuto
  <2>1. SwitchEco(ecoEnabled, autoOnBattery, Latch(autoLatched, autoOnBattery))
        /\ UNCHANGED hasBattery
    BY <1>2 DEF EvalAuto, power
  <2>. QED
    BY <1>1, <2>1, MotionSwitched
<1>3. CASE EcoSwitched
  <2>1. UNCHANGED hasBattery
    BY <1>3 DEF EcoSwitched, power
  <2>2. CASE SwitchEco(~ecoEnabled, autoOnBattery, autoLatched)
    <3>1. (~ecoEnabled) \in BOOLEAN
      BY <1>1
    <3>. QED
      BY <1>1, <2>1, <2>2, <3>1, MotionSwitched
  <2>3. CASE SwitchEco(FALSE, autoOnBattery, FALSE)
    BY <1>1, <2>1, <2>3, MotionSwitched
  <2>4. CASE SwitchEco(ecoEnabled, ~autoOnBattery, autoLatched)
    <3>1. (~autoOnBattery) \in BOOLEAN
      BY <1>1
    <3>. QED
      BY <1>1, <2>1, <2>4, <3>1, MotionSwitched
  <2>. QED
    BY <1>3, <2>2, <2>3, <2>4 DEF EcoSwitched
<1>4. CASE Restart
  <2>1. PICK latched \in BOOLEAN : Boot(latched) /\ (latched => Latch(FALSE, TRUE))
    BY <1>4 DEF Restart
  <2>2. UNCHANGED hasBattery
    BY <1>4 DEF Restart, power
  <2>3. ecoActive' <=> hasBattery /\ latched
    BY <2>1, <2>2 DEF Boot, ecoActive, Eco
  <2>4. latched => hasBattery
    BY <2>1 DEF Latch
  <2>5. latched <=> scale' = 0
    BY <2>1 DEF Boot
  <2>. QED
    BY <2>3, <2>4, <2>5 DEF MotionFollowsEco
<1>5. ASSUME NEW s \in Scales, ScaleSet(s) PROVE MotionFollowsEco'
  BY <1>5 DEF ScaleSet, MotionFollowsEco
<1>6. CASE PowerChanged \/ HyprlandEdited \/ ScaleSaved \/ Serve \/ ShellStep \/ UNCHANGED vars
  <2>1. UNCHANGED <<eco, hasBattery>>
    BY <1>6 DEF PowerChanged, HyprlandEdited, ScaleSaved, Serve, ShellStep, AppliedAnswer,
                OptionsAnswer, ExtrasReloaded, ServicesReloaded, vars, power
  <2>. QED
    BY <2>1, MotionKept
<1>7. ASSUME NEW on \in BOOLEAN, GameSwitched(on) PROVE MotionFollowsEco'
  BY <1>7, MotionKept DEF GameSwitched, power
<1>. QED
  BY <1>2, <1>3, <1>4, <1>5, <1>6, <1>7 DEF Next

\* The shell's animations are frozen exactly while eco is on, whatever the battery, the
\* charger, the two modes' switches and restarts do, until the user sets the scale
\* (PowerSaver.qml:63-74, 110-118).
THEOREM MotionTracksEco == Spec => []MotionFollowsEco
<1>1. Init => MotionFollowsEco
  BY DEF Init, MotionFollowsEco, ecoActive, Eco
<1>2. TypeOK /\ MotionFollowsEco /\ [Next]_vars => MotionFollowsEco'
  BY MotionStep
<1>. QED
  BY <1>1, <1>2, TypeInit, TypeStep, PTL DEF Spec

----------------------------------------------------------------------------
(* The latch.  While nothing but the charge moved since the latch last      *)
(* flipped, the level of that flip is on the flip's side of the two-point   *)
(* gap: this is what makes the next flip two points away.                   *)

Armed == hasBattery /\ onBattery /\ autoOnBattery
FlipInv ==
  steady # -1 =>
    /\ autoLatched => Armed /\ steady <= warn
    /\ ~autoLatched /\ Armed => steady >= warn + 2

LEMMA FlipKept ==
  FlipInv /\ UNCHANGED <<steady, autoLatched, hasBattery, onBattery, autoOnBattery, warn>>
    => FlipInv'
BY DEF FlipInv, Armed

LEMMA Levelled == ASSUME TypeOK PROVE pct \in Nat /\ warn \in Nat /\ steady \in Nat \cup {-1}
BY GraphicsAssumption DEF TypeOK

LEMMA FlipStep == TypeOK /\ FlipInv /\ [Next]_vars => FlipInv'
<1>. SUFFICES ASSUME TypeOK, FlipInv, [Next]_vars PROVE FlipInv'
  OBVIOUS
<1>1. CASE EvalAuto
  <2>1. /\ autoLatched' = Latch(autoLatched, autoOnBattery) /\ autoOnBattery' = autoOnBattery
        /\ UNCHANGED <<hasBattery, onBattery, pct, warn>>
        /\ steady' = IF autoLatched' # autoLatched THEN pct ELSE steady
    BY <1>1 DEF EvalAuto, SwitchEco, power
  <2>2. CASE autoLatched' = autoLatched
    BY <2>1, <2>2, FlipKept
  <2>3. CASE autoLatched' # autoLatched
    <3>1. steady' = pct /\ autoLatched \in BOOLEAN /\ autoLatched' \in BOOLEAN
      BY <2>1, <2>3, LatchIsBoolean DEF TypeOK
    <3>2. ASSUME autoLatched' PROVE Armed' /\ pct <= warn
      BY <2>1, <2>3, <3>1, <3>2 DEF Latch, Armed
    <3>3. ASSUME ~autoLatched', Armed' PROVE ~(pct < warn + 2)
      BY <2>1, <2>3, <3>1, <3>3 DEF Latch, Armed
    <3>4. Armed' => (~autoLatched' => pct >= warn + 2)
      BY <3>3, Levelled
    <3>. QED
      BY <2>1, <3>1, <3>2, <3>4 DEF FlipInv
  <2>. QED
    BY <2>2, <2>3
<1>2. CASE PowerChanged
  <2>1. UNCHANGED <<hasBattery, autoLatched, autoOnBattery>>
    BY <1>2 DEF PowerChanged, eco
  <2>2. steady' = -1 \/ UNCHANGED <<steady, onBattery, warn>>
    BY <1>2 DEF PowerChanged
  <2>. QED
    BY <2>1, <2>2, FlipKept DEF FlipInv
<1>3. CASE EcoSwitched
  <2>1. UNCHANGED <<hasBattery, onBattery, warn>>
    BY <1>3 DEF EcoSwitched, power
  <2>2. steady' = -1 \/ UNCHANGED <<steady, autoLatched, autoOnBattery>>
    BY <1>3 DEF EcoSwitched, SwitchEco
  <2>. QED
    BY <2>1, <2>2, FlipKept DEF FlipInv
<1>4. CASE Restart
  BY <1>4 DEF Restart, Boot, FlipInv
<1>5. CASE \/ HyprlandEdited \/ ScaleSaved \/ Serve \/ ShellStep \/ UNCHANGED vars
           \/ (\E s \in Scales : ScaleSet(s)) \/ (\E on \in BOOLEAN : GameSwitched(on))
  <2>1. UNCHANGED <<steady, autoLatched, hasBattery, onBattery, autoOnBattery, warn>>
    BY <1>5 DEF HyprlandEdited, ScaleSaved, Serve, ShellStep, AppliedAnswer, OptionsAnswer,
                ExtrasReloaded, ServicesReloaded, ScaleSet, GameSwitched, vars, power, eco
  <2>. QED
    BY <2>1, FlipKept
<1>. QED
  BY <1>1, <1>2, <1>3, <1>4, <1>5 DEF Next

\* Two flips of the latch in a row are two points of charge apart, for every warning
\* level and every battery (PowerSaver.qml:27-43).
THEOREM Hysteresis == Spec => LatchHasHysteresis
<1>1. Init => FlipInv
  BY DEF Init, FlipInv
<1>2. TypeOK /\ FlipInv /\ [Next]_vars =>
        [(EvalAuto /\ autoLatched' # autoLatched /\ steady # -1)
           => (pct - steady >= 2 \/ steady - pct >= 2)]_vars
  <2>. SUFFICES ASSUME TypeOK, FlipInv, EvalAuto, autoLatched' # autoLatched, steady # -1
                PROVE  pct - steady >= 2 \/ steady - pct >= 2
    OBVIOUS
  <2>1. autoLatched' = Latch(autoLatched, autoOnBattery) /\ autoLatched \in BOOLEAN
        /\ autoLatched' \in BOOLEAN
    BY LatchIsBoolean DEF EvalAuto, SwitchEco, TypeOK
  <2>2. CASE autoLatched
    <3>1. Armed /\ steady <= warn
      BY <2>2 DEF FlipInv
    <3>2. ~(pct < warn + 2)
      BY <2>1, <2>2, <3>1 DEF Latch, Armed
    <3>. QED
      BY <3>1, <3>2, Levelled
  <2>3. CASE ~autoLatched
    <3>1. Armed /\ pct <= warn
      BY <2>1, <2>3 DEF Latch, Armed
    <3>2. steady >= warn + 2
      BY <2>3, <3>1 DEF FlipInv
    <3>. QED
      BY <3>1, <3>2, Levelled
  <2>. QED
    BY <2>1, <2>2, <2>3
<1>. QED
  BY <1>1, <1>2, TypeInit, TypeStep, FlipStep, PTL DEF Spec, LatchHasHysteresis

----------------------------------------------------------------------------
(* The compositor.  What it comes to show is what the requests under way    *)
(* make of it: while a mode is on, effects go off unless a reload is still  *)
(* to be answered; while none is, a reload follows whatever turns them off. *)
(* Until game mode has been told what the compositor shows, it counts as on *)
(* if what is asked now would be answered with "off".                       *)

Effects == {"low", "tear"}
Holds(q, r) == \E i \in DOMAIN q : q[i] = r
UndoneAt(q, i) == q[i] \in Effects => \E j \in DOMAIN q : j > i /\ q[j] = "reload"
Undone(q) == \A i \in DOMAIN q : UndoneAt(q, i)
Cleared(q, c) == Undone(q) /\ (c = "full" \/ Holds(q, "reload"))
AskedClear(q) ==
  \A i \in DOMAIN q : q[i] = "describe" => \A k \in DOMAIN q : k > i => UndoneAt(q, k)
AskedOnce(q) == \A i, j \in DOMAIN q : q[i] = "describe" /\ q[j] = "describe" => i = j

Untold == gameBound /\ options = "unknown"
Asserted ==
  ~Holds(requests, "reload") /\ reloaded["services"] = 0 =>
    /\ ecoActive => compositor # "full" \/ Holds(requests, "low") \/ Holds(requests, "tear")
    /\ gameEnabled => compositor = "tear" \/ Holds(requests, "tear")
WillBeTold == Untold => ~gameEnabled /\ (answer = "none" => Holds(requests, "describe"))
Restored ==
  ~ecoActive /\ ~gameEnabled /\ ~blind =>
    IF Untold THEN AskedClear(requests) /\ (answer = "on" => Cleared(requests, compositor))
    ELSE Cleared(requests, compositor)
ShownInv == AskedOnce(requests) /\ Asserted /\ WillBeTold /\ Restored

LEMMA Appended ==
  ASSUME NEW q \in Seq(Requests), NEW r \in Requests
  PROVE  /\ \A x : Holds(Append(q, r), x) <=> Holds(q, x) \/ x = r
         /\ r = "reload" => Undone(Append(q, r))
         /\ r \notin Effects /\ Undone(q) => Undone(Append(q, r))
         /\ r # "describe" /\ AskedOnce(q) => AskedOnce(Append(q, r))
         /\ ~Holds(q, "describe") => AskedOnce(Append(q, r)) /\ AskedClear(Append(q, r))
<1>. DEFINE s == Append(q, r)
<1>1. /\ DOMAIN q = 1 .. Len(q) /\ Len(q) \in Nat
      /\ DOMAIN s = 1 .. Len(q) + 1
      /\ \A i \in 1 .. Len(q) : s[i] = q[i]
      /\ s[Len(q) + 1] = r
  OBVIOUS
<1>. HIDE DEF s
<1>2. \A x : Holds(s, x) <=> Holds(q, x) \/ x = r
  BY <1>1 DEF Holds
<1>3. r = "reload" => Undone(s)
  BY <1>1 DEF Undone, UndoneAt, Effects
<1>4. r \notin Effects /\ Undone(q) => Undone(s)
  BY <1>1 DEF Undone, UndoneAt
<1>5. r # "describe" /\ AskedOnce(q) => AskedOnce(s)
  BY <1>1 DEF AskedOnce
<1>6. ~Holds(q, "describe") => AskedOnce(s) /\ AskedClear(s)
  BY <1>1 DEF AskedOnce, AskedClear, Holds
<1>. QED
  BY <1>2, <1>3, <1>4, <1>5, <1>6 DEF s

LEMMA Chained ==
  ASSUME NEW q \in Seq(Requests), NEW r, NEW b \in BOOLEAN
  PROVE  q \o If(b, r) = IF b THEN Append(q, r) ELSE q
BY DEF If

LEMMA UndoneIsClear == ASSUME NEW q, Undone(q) PROVE AskedClear(q)
BY DEF Undone, AskedClear

LEMMA Served ==
  ASSUME NEW q \in Seq(Requests), q # <<>>
  PROVE  /\ Tail(q) \in Seq(Requests) /\ Head(q) \in Requests
         /\ \A x : Holds(q, x) <=> Holds(Tail(q), x) \/ x = Head(q)
         /\ Undone(q) => Undone(Tail(q)) /\ (Head(q) \in Effects => Holds(Tail(q), "reload"))
         /\ AskedOnce(q) => AskedOnce(Tail(q))
         /\ AskedClear(q) => AskedClear(Tail(q)) /\ (Head(q) = "describe" => Undone(Tail(q)))
<1>. DEFINE s == Tail(q)
<1>1. /\ DOMAIN q = 1 .. Len(q) /\ Len(q) \in Nat \ {0} /\ Head(q) = q[1]
      /\ DOMAIN s = 1 .. Len(q) - 1
      /\ \A i \in 1 .. Len(q) - 1 : s[i] = q[i + 1]
      /\ s \in Seq(Requests) /\ Head(q) \in Requests
  OBVIOUS
<1>. HIDE DEF s
<1>2. ASSUME NEW x PROVE Holds(q, x) <=> Holds(s, x) \/ x = Head(q)
  <2>1. ASSUME Holds(q, x) PROVE Holds(s, x) \/ x = Head(q)
    <3>1. PICK i \in 1 .. Len(q) : q[i] = x
      BY <1>1, <2>1 DEF Holds
    <3>2. CASE i > 1
      <4>1. i - 1 \in 1 .. Len(q) - 1 /\ (i - 1) + 1 = i
        BY <1>1, <3>2
      <4>. QED
        BY <1>1, <3>1, <4>1 DEF Holds
    <3>. QED
      BY <1>1, <3>1, <3>2
  <2>2. x = Head(q) => Holds(q, x)
    BY <1>1 DEF Holds
  <2>3. ASSUME Holds(s, x) PROVE Holds(q, x)
    <3>1. PICK i \in DOMAIN s : s[i] = x
      BY <2>3 DEF Holds
    <3>2. i + 1 \in DOMAIN q /\ q[i + 1] = x
      BY <1>1, <3>1
    <3>. QED
      BY <3>2 DEF Holds
  <2>. QED
    BY <2>1, <2>2, <2>3
<1>3. ASSUME NEW i \in DOMAIN s, UndoneAt(q, i + 1) PROVE UndoneAt(s, i)
  <2>. SUFFICES ASSUME s[i] \in Effects PROVE \E j \in DOMAIN s : j > i /\ s[j] = "reload"
    BY DEF UndoneAt
  <2>1. PICK j \in DOMAIN q : j > i + 1 /\ q[j] = "reload"
    BY <1>1, <1>3 DEF UndoneAt
  <2>2. j - 1 \in DOMAIN s /\ j - 1 > i /\ s[j - 1] = "reload"
    <3>1. j - 1 \in 1 .. Len(q) - 1 /\ (j - 1) + 1 = j
      BY <1>1, <2>1
    <3>. QED
      BY <1>1, <2>1, <3>1
  <2>. QED
    BY <2>2
<1>4. Undone(q) => Undone(s)
  BY <1>1, <1>3 DEF Undone
<1>5. Undone(q) /\ Head(q) \in Effects => Holds(s, "reload")
  <2>. SUFFICES ASSUME Undone(q), Head(q) \in Effects PROVE Holds(s, "reload")
    OBVIOUS
  <2>1. Holds(q, "reload") /\ Head(q) # "reload"
    BY <1>1 DEF Undone, UndoneAt, Holds, Effects
  <2>. QED
    BY <1>2, <2>1
<1>6. AskedOnce(q) => AskedOnce(s)
  <2>. SUFFICES ASSUME AskedOnce(q), NEW i \in DOMAIN s, NEW j \in DOMAIN s,
                       s[i] = "describe", s[j] = "describe"
                PROVE  i = j
    BY DEF AskedOnce
  <2>1. i + 1 \in DOMAIN q /\ j + 1 \in DOMAIN q /\ q[i + 1] = "describe" /\ q[j + 1] = "describe"
    BY <1>1
  <2>2. i + 1 = j + 1
    BY <2>1 DEF AskedOnce
  <2>. QED
    BY <1>1, <2>2
<1>7. ASSUME AskedClear(q) PROVE AskedClear(s)
  <2>. SUFFICES ASSUME NEW i \in DOMAIN s, s[i] = "describe", NEW k \in DOMAIN s, k > i
                PROVE  UndoneAt(s, k)
    BY DEF AskedClear
  <2>1. i + 1 \in DOMAIN q /\ k + 1 \in DOMAIN q /\ q[i + 1] = "describe" /\ k + 1 > i + 1
    BY <1>1
  <2>2. UndoneAt(q, k + 1)
    BY <1>7, <2>1 DEF AskedClear
  <2>. QED
    BY <1>3, <2>2
<1>8. ASSUME AskedClear(q), Head(q) = "describe" PROVE Undone(s)
  <2>. SUFFICES ASSUME NEW i \in DOMAIN s PROVE UndoneAt(s, i)
    BY DEF Undone
  <2>1. 1 \in DOMAIN q /\ q[1] = "describe" /\ i + 1 \in DOMAIN q /\ i + 1 > 1
    BY <1>1, <1>8
  <2>2. UndoneAt(q, i + 1)
    BY <1>8, <2>1 DEF AskedClear
  <2>. QED
    BY <1>3, <2>2
<1>. QED
  BY <1>1, <1>2, <1>4, <1>5, <1>6, <1>7, <1>8 DEF s

\* Without one of its requests, a queue holds the others in their order.
LEMMA Withdrawn ==
  ASSUME NEW q \in Seq(Requests), NEW at \in DOMAIN q, q[at] = "describe", AskedOnce(q)
  PROVE  /\ RemoveAt(q, at) \in Seq(Requests)
         /\ ~Holds(RemoveAt(q, at), "describe")
         /\ \A x : x # "describe" => (Holds(RemoveAt(q, at), x) <=> Holds(q, x))
         /\ Undone(q) => Undone(RemoveAt(q, at))
<1>. DEFINE s == RemoveAt(q, at)
            To(i) == IF i < at THEN i ELSE i + 1
            From(i) == IF i < at THEN i ELSE i - 1
<1>1. /\ DOMAIN q = 1 .. Len(q) /\ Len(q) \in Nat /\ at \in 1 .. Len(q)
      /\ SubSeq(q, 1, at - 1) \in Seq(Requests) /\ SubSeq(q, at + 1, Len(q)) \in Seq(Requests)
  OBVIOUS
<1>2. s \in Seq(Requests)
  BY <1>1 DEF RemoveAt
<1>3. DOMAIN s = 1 .. Len(q) - 1 /\ \A i \in DOMAIN s : s[i] = q[To(i)]
  <2>. DEFINE a == SubSeq(q, 1, at - 1)
              b == SubSeq(q, at + 1, Len(q))
  <2>1. /\ Len(a) = at - 1 /\ \A i \in 1 .. at - 1 : a[i] = q[i]
        /\ Len(b) = Len(q) - at /\ \A i \in 1 .. Len(q) - at : b[i] = q[at + i]
    BY <1>1
  <2>2. s = a \o b /\ a \in Seq(Requests) /\ b \in Seq(Requests)
    BY <1>1 DEF RemoveAt
  <2>. HIDE DEF a, b, s
  <2>3. /\ Len(s) = Len(a) + Len(b) /\ DOMAIN s = 1 .. Len(s)
        /\ \A i \in 1 .. Len(s) : s[i] = IF i <= Len(a) THEN a[i] ELSE b[i - Len(a)]
    BY <2>2
  <2>4. ASSUME NEW i \in 1 .. Len(q) - 1 PROVE s[i] = q[To(i)]
    <3>1. CASE i < at
      BY <1>1, <2>1, <2>3, <3>1
    <3>2. CASE ~(i < at)
      <4>1. i - (at - 1) \in 1 .. Len(q) - at /\ at + (i - (at - 1)) = i + 1
        BY <1>1, <3>2
      <4>2. s[i] = b[i - Len(a)]
        BY <1>1, <2>1, <2>3, <3>2
      <4>3. b[i - (at - 1)] = q[i + 1]
        BY <2>1, <4>1
      <4>. QED
        BY <2>1, <3>2, <4>2, <4>3
    <3>. QED
      BY <3>1, <3>2
  <2>5. Len(s) = Len(q) - 1
    BY <1>1, <2>1, <2>3
  <2>6. DOMAIN s = 1 .. Len(q) - 1
    BY <2>3, <2>5
  <2>. HIDE DEF To
  <2>. QED
    BY <2>4, <2>6
<1>. HIDE DEF s
<1>4. \A i \in DOMAIN s : To(i) \in DOMAIN q \ {at} /\ s[i] = q[To(i)]
  BY <1>1, <1>3
<1>5. \A i \in DOMAIN q \ {at} : From(i) \in DOMAIN s /\ To(From(i)) = i /\ s[From(i)] = q[i]
  BY <1>1, <1>3
<1>6. \A i \in DOMAIN s, j \in DOMAIN q \ {at} : j > To(i) => From(j) > i
  BY <1>1, <1>3
<1>. HIDE DEF To, From
<1>7. ~Holds(s, "describe")
  BY <1>1, <1>4 DEF Holds, AskedOnce
<1>8. ASSUME NEW x, x # "describe" PROVE Holds(s, x) <=> Holds(q, x)
  BY <1>4, <1>5, <1>8 DEF Holds
<1>9. ASSUME Undone(q) PROVE Undone(s)
  <2>. SUFFICES ASSUME NEW i \in DOMAIN s, s[i] \in Effects
                PROVE  \E j \in DOMAIN s : j > i /\ s[j] = "reload"
    BY DEF Undone, UndoneAt
  <2>1. PICK j \in DOMAIN q : j > To(i) /\ q[j] = "reload"
    BY <1>4, <1>9 DEF Undone, UndoneAt
  <2>2. j \in DOMAIN q \ {at}
    BY <2>1
  <2>. QED
    BY <1>5, <1>6, <2>1, <2>2
<1>. QED
  BY <1>2, <1>7, <1>8, <1>9 DEF s

LEMMA AskedAgain ==
  ASSUME NEW q \in Seq(Requests), AskedOnce(q)
  PROVE  /\ Refreshed(q) \in Seq(Requests)
         /\ Holds(Refreshed(q), "describe")
         /\ \A x : x # "describe" => (Holds(Refreshed(q), x) <=> Holds(q, x))
         /\ Undone(q) => Undone(Refreshed(q))
         /\ AskedOnce(Refreshed(q)) /\ AskedClear(Refreshed(q))
<1>. DEFINE asked == {i \in DOMAIN q : q[i] = "describe"}
            at == CHOOSE i \in asked : TRUE
            rest == IF asked = {} THEN q ELSE RemoveAt(q, at)
<1>1. /\ rest \in Seq(Requests) /\ ~Holds(rest, "describe")
      /\ \A x : x # "describe" => (Holds(rest, x) <=> Holds(q, x))
      /\ Undone(q) => Undone(rest)
  <2>1. CASE asked = {}
    BY <2>1 DEF Holds
  <2>2. CASE asked # {}
    <3>1. at \in asked
      BY <2>2
    <3>. HIDE DEF at
    <3>2. at \in DOMAIN q /\ q[at] = "describe"
      BY <3>1
    <3>. QED
      BY <2>2, <3>2, Withdrawn
  <2>. QED
    BY <2>1, <2>2
<1>2. Refreshed(q) = Append(rest, "describe")
  BY DEF Refreshed
<1>. HIDE DEF rest
<1>3. "describe" \in Requests /\ "describe" \notin Effects
  BY DEF Requests, Effects
<1>. QED
  BY <1>1, <1>2, <1>3, Appended, RefreshedSent

\* What the steps make of the queue.
LEMMA EcoUnmoved == UNCHANGED <<eco, hasBattery>> => ecoActive' = ecoActive
BY DEF ecoActive, Eco, eco

LEMMA EcoOrGame ==
  ASSUME TypeOK
  PROVE  /\ ecoActive \in BOOLEAN /\ gameEnabled \in BOOLEAN /\ requests \in Seq(Requests)
         /\ applied \in Nat /\ reloaded \in [Readers -> Nat] /\ "services" \in Readers
         /\ compositor \in Shown
BY Parts, EcoIsBoolean DEF ecoActive, EcoOK, GameOK, TrafficOK, RestOK, Readers

LEMMA GameSends ==
  ASSUME TypeOK, NEW on \in BOOLEAN, SwitchGame(on)
  PROVE  /\ gameEnabled' = on
         /\ on = gameEnabled => requests' = requests
         /\ on /\ ~gameEnabled => requests' = Append(requests, "tear")
         /\ ~on /\ gameEnabled /\ ~ecoActive => requests' = Append(requests, "reload")
         /\ ~on /\ gameEnabled /\ ecoActive => requests' = requests
<1>1. requests \o <<>> = requests /\ requests \o <<"tear">> = Append(requests, "tear")
      /\ requests \o <<"reload">> = Append(requests, "reload")
  BY EcoOrGame
<1>. QED
  BY <1>1, EcoOrGame DEF SwitchGame, If

LEMMA EcoSends ==
  ASSUME TypeOK, NEW m \in BOOLEAN, NEW a \in BOOLEAN, NEW l \in BOOLEAN, SwitchEco(m, a, l),
         UNCHANGED hasBattery
  PROVE  \/ ecoActive' = ecoActive /\ requests' = requests
         \/ ecoActive' /\ ~ecoActive /\ requests' = Append(requests, "low")
         \/ ~ecoActive' /\ ecoActive /\ ~gameEnabled /\ requests' = Append(requests, "reload")
         \/ ~ecoActive' /\ ecoActive /\ gameEnabled /\ requests' = requests
<1>1. ecoActive' = Eco(m, a, l) /\ ecoActive' \in BOOLEAN
  BY Parts, EcoIsBoolean DEF SwitchEco, ecoActive, Eco
<1>2. CASE Eco(m, a, l) /\ ~ecoActive
  BY <1>1, <1>2 DEF SwitchEco
<1>3. CASE ~Eco(m, a, l) /\ ecoActive
  <2>1. requests' = requests \o If(~gameEnabled, "reload")
    BY <1>3 DEF SwitchEco
  <2>. QED
    BY <1>1, <1>3, <2>1, EcoOrGame, Chained
<1>4. CASE Eco(m, a, l) = ecoActive
  <2>1. requests' = requests
    BY <1>4 DEF SwitchEco
  <2>. QED
    BY <1>1, <1>4, <2>1
<1>. QED
  BY <1>1, <1>2, <1>3, <1>4, EcoOrGame

\* Eco moves, and nothing else that the compositor depends on.
LEMMA ShownSwitched ==
  ASSUME TypeOK, ShownInv, NEW m \in BOOLEAN, NEW a \in BOOLEAN, NEW l \in BOOLEAN,
         SwitchEco(m, a, l), UNCHANGED <<hasBattery, game, answer, reloaded, compositor>>
  PROVE  ShownInv'
<1>1. /\ requests \in Seq(Requests) /\ {"low", "reload"} \subseteq Requests
      /\ UNCHANGED <<gameEnabled, gameBound, options, blind, answer, reloaded, compositor>>
      /\ ecoActive \in BOOLEAN /\ ecoActive' \in BOOLEAN
  BY EcoOrGame, Parts, EcoIsBoolean
     DEF game, Requests, SwitchEco, ecoActive, Eco, PowerOK
<1>2. CASE ecoActive' = ecoActive /\ requests' = requests
  BY <1>1, <1>2 DEF ShownInv, Asserted, WillBeTold, Restored, Untold
<1>3. CASE ecoActive' /\ ~ecoActive /\ requests' = Append(requests, "low")
  <2>1. /\ \A x : Holds(requests', x) <=> Holds(requests, x) \/ x = "low"
        /\ AskedOnce(requests) => AskedOnce(requests')
    BY <1>1, <1>3, Appended
  <2>. QED
    BY <1>1, <1>3, <2>1 DEF ShownInv, Asserted, WillBeTold, Restored, Untold
<1>4. CASE ~ecoActive' /\ ecoActive /\ ~gameEnabled /\ requests' = Append(requests, "reload")
  <2>1. /\ \A x : Holds(requests', x) <=> Holds(requests, x) \/ x = "reload"
        /\ AskedOnce(requests) => AskedOnce(requests')
        /\ Undone(requests') /\ AskedClear(requests')
    BY <1>1, <1>4, Appended, UndoneIsClear
  <2>. QED
    BY <1>1, <1>4, <2>1 DEF ShownInv, Asserted, WillBeTold, Restored, Untold, Cleared
<1>5. CASE ~ecoActive' /\ ecoActive /\ gameEnabled /\ requests' = requests
  BY <1>1, <1>5 DEF ShownInv, Asserted, WillBeTold, Restored, Untold
<1>. QED
  BY <1>2, <1>3, <1>4, <1>5, EcoSends

\* The options are asked for again, and nothing else changes.
LEMMA ShownRefreshed ==
  ASSUME TypeOK, ShownInv, requests' = Refreshed(requests), answer' = "none",
         UNCHANGED <<eco, hasBattery, game, compositor>>,
         reloaded'["services"] = reloaded["services"]
  PROVE  ShownInv'
<1>1. UNCHANGED <<gameEnabled, gameBound, options, blind, compositor>> /\ ecoActive' = ecoActive
  BY EcoUnmoved DEF game
<1>2. /\ Holds(requests', "describe")
      /\ \A x : x # "describe" => (Holds(requests', x) <=> Holds(requests, x))
      /\ Undone(requests) => Undone(requests')
      /\ AskedOnce(requests') /\ AskedClear(requests')
  BY AskedAgain, EcoOrGame DEF ShownInv
<1>3. Asserted'
  BY <1>1, <1>2 DEF ShownInv, Asserted
<1>4. WillBeTold'
  BY <1>1, <1>2 DEF ShownInv, WillBeTold, Untold
<1>5. Restored'
  BY <1>1, <1>2 DEF ShownInv, Restored, Untold, Cleared
<1>. QED
  BY <1>2, <1>3, <1>4, <1>5 DEF ShownInv

LEMMA ShownInit == Init => ShownInv
<1>. SUFFICES ASSUME Init PROVE ShownInv
  OBVIOUS
<1>1. DOMAIN requests = {1} /\ requests[1] = "describe"
  BY DEF Init
<1>2. AskedOnce(requests) /\ AskedClear(requests) /\ Holds(requests, "describe")
  BY <1>1 DEF AskedOnce, AskedClear, Holds
<1>. QED
  BY <1>2 DEF Init, ShownInv, Asserted, WillBeTold, Restored, Untold, ecoActive, Eco

LEMMA ShownStep == TypeOK /\ ShownInv /\ [Next]_vars => ShownInv'
<1>. SUFFICES ASSUME TypeOK, ShownInv, [Next]_vars PROVE ShownInv'
  OBVIOUS
<1>1. /\ requests \in Seq(Requests) /\ {"low", "tear", "reload"} \subseteq Requests
      /\ ecoActive \in BOOLEAN /\ gameEnabled \in BOOLEAN /\ reloaded \in [Readers -> Nat]
      /\ "services" \in Readers
  BY EcoOrGame DEF Requests
<1>2. AskedOnce(requests) /\ Asserted /\ WillBeTold /\ Restored
  BY DEF ShownInv
<1>3. CASE AppliedAnswer \/ ExtrasReloaded
  <2>1. /\ requests' = Refreshed(requests) /\ answer' = "none"
        /\ UNCHANGED <<eco, hasBattery, game, compositor>>
        /\ reloaded'["services"] = reloaded["services"]
    BY <1>1, <1>3 DEF AppliedAnswer, ExtrasReloaded, power, Readers
  <2>. QED
    BY <2>1, ShownRefreshed
<1>4. CASE OptionsAnswer
  <2>. DEFINE on == IF gameBound THEN answer = "off" ELSE gameEnabled
  <2>1. /\ SwitchGame(on) /\ on \in BOOLEAN /\ answer \in {"on", "off"}
        /\ options' = answer /\ answer' = "none"
        /\ UNCHANGED <<gameBound, blind, compositor, reloaded>>
    BY <1>1, <1>4 DEF OptionsAnswer, TypeOK
  <2>2. ecoActive' = ecoActive
    BY <1>4, EcoUnmoved DEF OptionsAnswer, power
  <2>3. ~Untold'
    BY <2>1 DEF Untold
  <2>4. gameBound => (on <=> answer = "off")
    OBVIOUS
  <2>5. ~gameBound => on = gameEnabled
    OBVIOUS
  <2>. HIDE DEF on
  <2>6. gameEnabled' = on
    BY <2>1, GameSends
  <2>7. CASE on = gameEnabled
    <3>1. requests' = requests
      BY <2>1, <2>7, GameSends
    <3>2. Untold /\ ~gameEnabled => answer = "on"
      BY <2>1, <2>4, <2>7 DEF Untold
    <3>. QED
      BY <1>2, <2>1, <2>2, <2>3, <2>6, <2>7, <3>1, <3>2
         DEF ShownInv, Asserted, WillBeTold, Restored, Untold
  <2>8. CASE on /\ ~gameEnabled
    <3>1. requests' = Append(requests, "tear")
      BY <2>1, <2>8, GameSends
    <3>2. /\ \A x : Holds(requests', x) <=> Holds(requests, x) \/ x = "tear"
          /\ AskedOnce(requests')
      BY <1>1, <1>2, <3>1, Appended
    <3>. QED
      BY <1>2, <2>1, <2>2, <2>3, <2>6, <2>8, <3>2 DEF ShownInv, Asserted, WillBeTold, Restored
  <2>9. CASE ~on /\ gameEnabled /\ ~ecoActive
    <3>1. requests' = Append(requests, "reload")
      BY <2>1, <2>9, GameSends
    <3>2. /\ \A x : Holds(requests', x) <=> Holds(requests, x) \/ x = "reload"
          /\ AskedOnce(requests') /\ Undone(requests')
      BY <1>1, <1>2, <3>1, Appended
    <3>. QED
      BY <1>2, <2>1, <2>2, <2>3, <2>6, <2>9, <3>2
         DEF ShownInv, Asserted, WillBeTold, Restored, Cleared
  <2>10. CASE ~on /\ gameEnabled /\ ecoActive
    <3>1. requests' = requests
      BY <2>1, <2>10, GameSends
    <3>. QED
      BY <1>2, <2>1, <2>2, <2>3, <2>6, <2>10, <3>1
         DEF ShownInv, Asserted, WillBeTold, Restored
  <2>. QED
    BY <1>1, <2>1, <2>7, <2>8, <2>9, <2>10
<1>5. CASE ServicesReloaded
  <2>1. UNCHANGED <<gameEnabled, gameBound, options, blind, answer, compositor>>
        /\ ecoActive' = ecoActive
    BY <1>5, EcoUnmoved DEF ServicesReloaded, power, game
  <2>. DEFINE half == requests \o If(gameEnabled, "tear")
  <2>2. half = IF gameEnabled THEN Append(requests, "tear") ELSE requests
    BY <1>1, Chained
  <2>. HIDE DEF half
  <2>3. /\ half \in Seq(Requests) /\ AskedOnce(half)
        /\ \A x : Holds(half, x) <=> Holds(requests, x) \/ (gameEnabled /\ x = "tear")
    BY <1>1, <1>2, <2>2, Appended, Sent
  <2>4. requests' = half \o If(ecoActive, "low")
    BY <1>5 DEF ServicesReloaded, half
  <2>5. requests' = IF ecoActive THEN Append(half, "low") ELSE half
    BY <1>1, <2>3, <2>4, Chained
  <2>6. /\ AskedOnce(requests')
        /\ \A x : Holds(requests', x) <=> Holds(half, x) \/ (ecoActive /\ x = "low")
    BY <1>1, <2>3, <2>5, Appended
  <2>7. ~gameEnabled /\ ~ecoActive => requests' = requests
    BY <2>2, <2>5
  <2>. QED
    BY <1>2, <2>1, <2>3, <2>6, <2>7 DEF ShownInv, Asserted, WillBeTold, Restored, Untold
<1>6. CASE Serve
  <2>1. requests # <<>> /\ requests' = Tail(requests)
    BY <1>6 DEF Serve
  <2>2. UNCHANGED <<gameEnabled, gameBound, options, blind>> /\ ecoActive' = ecoActive
    BY <1>6, EcoUnmoved DEF Serve, power, game
  <2>. DEFINE q == requests
              r == Head(requests)
              s == requests'
  <2>3. /\ \A x : Holds(q, x) <=> Holds(s, x) \/ x = r
        /\ Undone(q) => Undone(s) /\ (r \in Effects => Holds(s, "reload"))
        /\ AskedOnce(s)
        /\ AskedClear(q) => AskedClear(s) /\ (r = "describe" => Undone(s))
    BY <1>1, <1>2, <2>1, Served
  <2>4. CASE r = "low" \/ r = "tear"
    <3>1. /\ compositor' # "full" /\ UNCHANGED <<answer, reloaded>>
          /\ compositor = "tear" \/ r = "tear" => compositor' = "tear"
      BY <1>6, <2>4 DEF Serve
    <3>2. Asserted'
      BY <1>2, <2>2, <2>3, <2>4, <3>1 DEF Asserted
    <3>3. WillBeTold'
      BY <1>2, <2>2, <2>3, <2>4, <3>1 DEF WillBeTold, Untold
    <3>4. Undone(q) => Cleared(s, compositor')
      BY <2>3, <2>4 DEF Cleared, Effects
    <3>5. Restored'
      BY <1>2, <2>2, <2>3, <3>1, <3>4 DEF Restored, Untold, Cleared
    <3>. QED
      BY <2>3, <3>2, <3>3, <3>5 DEF ShownInv
  <2>5. CASE r = "reload"
    <3>1. /\ compositor' = "full" /\ answer' = answer
          /\ reloaded'["services"] = reloaded["services"] + 1
      BY <1>1, <1>6, <2>5 DEF Serve, Readers
    <3>2. Asserted'
      BY <1>1, <3>1 DEF Asserted
    <3>3. WillBeTold'
      BY <1>2, <2>2, <2>3, <2>5, <3>1 DEF WillBeTold, Untold
    <3>4. Restored'
      BY <1>2, <2>2, <2>3, <3>1 DEF Restored, Untold, Cleared
    <3>. QED
      BY <2>3, <3>2, <3>3, <3>4 DEF ShownInv
  <2>6. CASE r = "describe"
    <3>1. /\ answer' = IF compositor = "full" THEN "on" ELSE "off"
          /\ UNCHANGED <<compositor, reloaded>>
      BY <1>6, <2>6 DEF Serve
    <3>2. Asserted'
      BY <1>2, <2>2, <2>3, <2>6, <3>1 DEF Asserted
    <3>3. WillBeTold'
      BY <1>2, <2>2, <3>1 DEF WillBeTold, Untold
    <3>4. Restored'
      BY <1>2, <2>2, <2>3, <2>6, <3>1 DEF Restored, Untold, Cleared
    <3>. QED
      BY <2>3, <3>2, <3>3, <3>4 DEF ShownInv
  <2>. QED
    BY <1>6, <2>4, <2>5, <2>6 DEF Serve
<1>7. CASE EvalAuto
  <2>1. /\ SwitchEco(ecoEnabled, autoOnBattery, Latch(autoLatched, autoOnBattery))
        /\ UNCHANGED <<hasBattery, game, answer, reloaded, compositor>>
    BY <1>7 DEF EvalAuto, power
  <2>. QED
    BY <2>1, LatchIsBoolean, ShownSwitched DEF TypeOK
<1>8. CASE EcoSwitched
  <2>1. UNCHANGED <<hasBattery, game, answer, reloaded, compositor>>
    BY <1>8 DEF EcoSwitched, power
  <2>2. PICK m \in BOOLEAN, a \in BOOLEAN, l \in BOOLEAN : SwitchEco(m, a, l)
    <3>1. /\ ecoEnabled \in BOOLEAN /\ autoOnBattery \in BOOLEAN /\ autoLatched \in BOOLEAN
          /\ (~ecoEnabled) \in BOOLEAN /\ (~autoOnBattery) \in BOOLEAN
      BY DEF TypeOK
    <3>2. \/ SwitchEco(~ecoEnabled, autoOnBattery, autoLatched)
          \/ SwitchEco(FALSE, autoOnBattery, FALSE)
          \/ SwitchEco(ecoEnabled, ~autoOnBattery, autoLatched)
      BY <1>8 DEF EcoSwitched
    <3>. QED
      BY <3>1, <3>2
  <2>. QED
    BY <2>1, <2>2, ShownSwitched
<1>9. CASE HyprlandEdited
  <2>1. UNCHANGED <<gameEnabled, gameBound, options, blind, requests, answer>>
        /\ ecoActive' = ecoActive
    BY <1>9, EcoUnmoved DEF HyprlandEdited, power, game
  <2>2. compositor' = "full" /\ reloaded'["services"] = reloaded["services"] + 1
    BY <1>1, <1>9 DEF HyprlandEdited
  <2>3. Asserted'
    BY <1>1, <2>2 DEF Asserted
  <2>. QED
    BY <1>2, <2>1, <2>2, <2>3 DEF ShownInv, WillBeTold, Restored, Untold, Cleared
<1>10. CASE Restart
  <2>1. PICK latched \in BOOLEAN : /\ Boot(latched) /\ (latched => hasBattery)
                                   /\ requests' = Refreshed(requests) \o If(latched, "low")
    BY <1>10 DEF Restart, Latch
  <2>2. /\ ~gameEnabled' /\ gameBound' /\ options' = "unknown" /\ answer' = "none"
        /\ hasBattery' = hasBattery
    BY <1>10 DEF Restart, power
  <2>3. ecoActive' <=> latched
    BY <2>1, <2>2 DEF Boot, ecoActive, Eco
  <2>. DEFINE q == Refreshed(requests)
  <2>4. q \in Seq(Requests) /\ AskedOnce(q) /\ AskedClear(q) /\ Holds(q, "describe")
    BY <1>1, <1>2, AskedAgain
  <2>. HIDE DEF q
  <2>5. requests' = IF latched THEN Append(q, "low") ELSE q
    BY <2>1, <2>4, Chained DEF q
  <2>6. /\ AskedOnce(requests') /\ Holds(requests', "describe")
        /\ latched => Holds(requests', "low")
    BY <1>1, <2>4, <2>5, Appended
  <2>. QED
    BY <2>2, <2>3, <2>4, <2>5, <2>6 DEF ShownInv, Asserted, WillBeTold, Restored, Untold
<1>11. ASSUME NEW on \in BOOLEAN, GameSwitched(on) PROVE ShownInv'
  <2>1. /\ SwitchGame(on) /\ ~gameBound' /\ UNCHANGED <<options, answer, reloaded, compositor>>
        /\ blind' = (~on /\ (blind \/ (options = "unknown" /\ ~gameEnabled)))
    BY <1>11 DEF GameSwitched
  <2>2. ecoActive' = ecoActive /\ gameEnabled' = on
    BY <1>11, <2>1, EcoUnmoved, GameSends DEF GameSwitched, power
  <2>3. CASE on = gameEnabled
    <3>1. requests' = requests
      BY <2>1, <2>3, GameSends
    <3>. QED
      BY <1>1, <1>2, <2>1, <2>2, <2>3, <3>1
         DEF ShownInv, Asserted, WillBeTold, Restored, Untold
  <2>4. CASE on /\ ~gameEnabled
    <3>1. requests' = Append(requests, "tear")
      BY <2>1, <2>4, GameSends
    <3>2. /\ \A x : Holds(requests', x) <=> Holds(requests, x) \/ x = "tear"
          /\ AskedOnce(requests')
      BY <1>1, <1>2, <3>1, Appended
    <3>. QED
      BY <1>2, <2>1, <2>2, <2>4, <3>2 DEF ShownInv, Asserted, WillBeTold, Restored, Untold
  <2>5. CASE ~on /\ gameEnabled /\ ~ecoActive
    <3>1. requests' = Append(requests, "reload")
      BY <2>1, <2>5, GameSends
    <3>2. /\ \A x : Holds(requests', x) <=> Holds(requests, x) \/ x = "reload"
          /\ AskedOnce(requests') /\ Undone(requests')
      BY <1>1, <1>2, <3>1, Appended
    <3>. QED
      BY <2>1, <2>2, <2>5, <3>2 DEF ShownInv, Asserted, WillBeTold, Restored, Untold, Cleared
  <2>6. CASE ~on /\ gameEnabled /\ ecoActive
    <3>1. requests' = requests
      BY <2>1, <2>6, GameSends
    <3>. QED
      BY <1>2, <2>1, <2>2, <2>6, <3>1 DEF ShownInv, Asserted, WillBeTold, Restored, Untold
  <2>. QED
    BY <1>1, <2>3, <2>4, <2>5, <2>6
<1>12. CASE PowerChanged \/ ScaleSaved \/ (\E s \in Scales : ScaleSet(s)) \/ UNCHANGED vars
  <2>1. UNCHANGED <<gameEnabled, gameBound, options, blind, requests, answer, reloaded, compositor>>
    BY <1>12 DEF PowerChanged, ScaleSaved, ScaleSet, vars, game, traffic
  <2>2. ecoActive' = ecoActive
    BY <1>12 DEF PowerChanged, ScaleSaved, ScaleSet, vars, eco, power, ecoActive, Eco
  <2>. QED
    BY <1>2, <2>1, <2>2 DEF ShownInv, Asserted, WillBeTold, Restored, Untold
<1>. QED
  BY <1>3, <1>4, <1>5, <1>6, <1>7, <1>8, <1>9, <1>10, <1>11, <1>12 DEF Next, ShellStep

\* With nothing under way between shell and compositor, its effects are off exactly when a
\* mode is on, for any interleaving of switches, reloads, answers and restarts, unless game
\* mode was switched off before it had been told it was on (PowerSaver.qml:57-77,
\* 120-125, GameMode.qml:28-56).
THEOREM GraphicsFollow == Spec => []GraphicsFollowModes
<1>1. TypeOK /\ ShownInv => GraphicsFollowModes
  <2>. SUFFICES ASSUME TypeOK, ShownInv, AtRest, ~blind
                PROVE  /\ compositor # "full" <=> ecoActive \/ gameEnabled
                       /\ gameEnabled => compositor = "tear"
    BY DEF GraphicsFollowModes
  <2>1. \A x : ~Holds(requests, x)
    BY DEF AtRest, Holds
  <2>2. answer = "none" /\ reloaded["services"] = 0
    BY DEF AtRest, Readers
  <2>3. gameEnabled => compositor = "tear"
    BY <2>1, <2>2 DEF ShownInv, Asserted
  <2>4. ecoActive => compositor # "full"
    BY <2>1, <2>2 DEF ShownInv, Asserted
  <2>5. ~ecoActive /\ ~gameEnabled => compositor = "full"
    BY <2>1, <2>2 DEF ShownInv, WillBeTold, Restored, Cleared
  <2>. QED
    BY <2>3, <2>4, <2>5
<1>. QED
  BY <1>1, ShownInit, ShownStep, TypeInit, TypeStep, PTL DEF Spec

=============================================================================
