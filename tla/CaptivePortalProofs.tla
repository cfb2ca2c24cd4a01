------------------------ MODULE CaptivePortalProofs -------------------------
(***************************************************************************)
(* Proofs about CaptivePortal, for any number of chains, any portals and    *)
(* any bounds.                                                              *)
(***************************************************************************)
EXTENDS CaptivePortal, FiniteSetTheorems, TLAPS

(* Type correctness.                                                        *)

\* What a step leaves alone keeps its type.
LEMMA NmcliKept == NmcliOK /\ UNCHANGED nmcli => NmcliOK'
BY DEF NmcliOK, nmcli
LEMMA VerdictKept == VerdictOK /\ UNCHANGED verdict => VerdictOK'
BY DEF VerdictOK, verdict
LEMMA EpisodeKept == EpisodeOK /\ UNCHANGED episode => EpisodeOK'
BY DEF EpisodeOK, episode
LEMMA LockKept == LockOK /\ UNCHANGED lock => LockOK'
BY DEF LockOK, lock
LEMMA UsedKept == UsedOK /\ UNCHANGED used => UsedOK'
BY DEF UsedOK, used

LEMMA Idle == Nothing \in Opening
BY DEF Nothing, Opening

LEMMA Launched ==
  ASSUME NEW by \in {"click", "auto"}, NEW url \in Urls \cup {NoUrl}
  PROVE  Launch(by, url) \in Opening
BY Idle DEF Launch, Opening

LEMMA PageUrls ==
  /\ Redirects \subseteq Urls /\ CheckUri \in Urls /\ GatewayUrl \in Urls /\ NoUrl \notin Urls
  /\ PortalPages(CheckUri) \subseteq Urls /\ PortalPages(GatewayUrl) \subseteq Urls
BY PortalAssumption DEF Urls, PortalPages

\* Taking the lock, and a chain letting go of it.
LEMMA StartTypes ==
  ASSUME LockOK, NEW stage \in Stages, StartChain(stage) \/ UNCHANGED lock
  PROVE  LockOK'
<1>1. CASE UNCHANGED lock
  BY <1>1, LockKept
<1>2. CASE StartChain(stage)
  BY <1>2 DEF StartChain, LockOK
<1>. QED
  BY <1>1, <1>2

LEMMA EndTypes ==
  ASSUME LockOK, NEW c \in Chains, chain' = [chain EXCEPT ![c] = "idle"], Unlock
  PROVE  LockOK'
BY DEF LockOK, Unlock, Stages

LEMMA FinishTypes ==
  ASSUME TypeOK, NEW c \in Chains, NEW cls \in {"online", "portal", "unknown"},
         NEW url \in Urls \cup {NoUrl}, NEW candidate \in Urls,
         FinishProbe(c, cls, url, candidate)
  PROVE  TypeOK'
<1>1. LockOK' /\ NmcliOK' /\ UsedOK'
  BY EndTypes, NmcliKept, UsedKept DEF FinishProbe, TypeOK
<1>2. VerdictOK'
  BY DEF FinishProbe, SetVerdict, VerdictOK
<1>3. AnswerClick(cls, url, candidate)
        \/ (MaybeAutoOpen(cls, url) /\ UNCHANGED openWhenProbed)
  BY DEF FinishProbe
<1>4. CASE (MarkOpened(url) /\ PageShown(url)) \/ UNCHANGED episode
  <2>1. EpisodeOK'
    BY <1>4, EpisodeKept DEF MarkOpened, PageShown, EpisodeOK, TypeOK
  <2>2. opened' \in {Nothing, Launch("click", url), Launch("click", candidate), Launch("auto", url)}
    BY <1>3 DEF AnswerClick, MaybeAutoOpen
  <2>3. openWhenProbed' \in BOOLEAN
    BY <1>3 DEF AnswerClick, TypeOK
  <2>. QED
    BY <1>1, <1>2, <2>1, <2>2, <2>3, Idle, Launched DEF TypeOK
<1>. QED
  BY <1>3, <1>4 DEF AnswerClick, MaybeAutoOpen

\* Every way a chain can move: to its end with some verdict, to another stage, or,
\* for the classifying probe, to its end without opening anything.
LEMMA ChainMoves ==
  ASSUME NEW c \in Chains, ChainStep(c)
  PROVE  \/ \E cls \in {"online", "portal", "unknown"}, url \in Urls \cup {NoUrl}, candidate \in Urls :
              FinishProbe(c, cls, url, candidate) /\ (cls = "portal" => url \in Urls)
         \/ \E stage \in Stages \ {"idle"} : MoveOn(c, stage)
         \/ ExplicitAnswers(c)
<1>. DEFINE End == \E cls \in {"online", "portal", "unknown"}, url \in Urls \cup {NoUrl}, candidate \in Urls :
                     FinishProbe(c, cls, url, candidate) /\ (cls = "portal" => url \in Urls)
<1>1. ASSUME NEW probed \in {CheckUri, GatewayUrl}, Concludes(c, probed) PROVE End
  <2>1. probed \in Urls /\ PortalPages(probed) \subseteq Urls
    BY PageUrls
  <2>. QED
    BY <1>1, <2>1 DEF Concludes
<1>2. FinishProbe(c, "unknown", NoUrl, CheckUri) => End
  BY PageUrls
<1>3. FinishProbe(c, "unknown", CheckUri, CheckUri) => End
  BY PageUrls
<1>4. FinishProbe(c, "unknown", GatewayUrl, GatewayUrl) => End
  BY PageUrls
<1>. HIDE DEF End
<1>5. ASSUME CheckAnswers(c) \/ ResolveAnswers(c) \/ RouteAnswers(c) \/ GatewayAnswers(c)
             \/ AutoProbeAnswers(c)
      PROVE  End \/ \E stage \in Stages \ {"idle"} : MoveOn(c, stage)
  BY <1>1, <1>2, <1>3, <1>4, <1>5
     DEF CheckAnswers, ResolveAnswers, RouteAnswers, GatewayAnswers, AutoProbeAnswers, Stages
<1>. QED
  BY <1>5 DEF ChainStep, End

LEMMA TypeInit == Init => TypeOK
<1>. SUFFICES ASSUME Init PROVE TypeOK
  OBVIOUS
<1>1. NmcliOK /\ UsedOK /\ openWhenProbed \in BOOLEAN
  BY DEF Init, NmcliOK, UsedOK
<1>2. VerdictOK /\ EpisodeOK
  BY DEF Init, VerdictOK, EpisodeOK
<1>3. LockOK
  BY DEF Init, LockOK, Stages
<1>. QED
  BY <1>1, <1>2, <1>3, Idle DEF Init, TypeOK

LEMMA TypeStep == TypeOK /\ [Next]_vars => TypeOK'
<1>. SUFFICES ASSUME TypeOK, [Next]_vars PROVE TypeOK'
  OBVIOUS
<1>. USE NmcliKept, VerdictKept, EpisodeKept, LockKept, UsedKept, Idle DEF TypeOK
<1>1. ASSUME NEW c \in Chains, NEW stage \in Stages, MoveOn(c, stage) PROVE TypeOK'
  <2>1. LockOK'
    BY <1>1 DEF MoveOn, LockOK
  <2>. QED
    BY <1>1, <2>1 DEF MoveOn
<1>2. ASSUME NEW c \in Chains, ExplicitAnswers(c) PROVE TypeOK'
  <2>1. LockOK'
    BY <1>2, EndTypes DEF ExplicitAnswers
  <2>2. VerdictOK'
    BY <1>2, PageUrls DEF ExplicitAnswers, SetVerdict, VerdictOK
  <2>. QED
    BY <1>2, <2>1, <2>2 DEF ExplicitAnswers
<1>3. ASSUME NEW c \in Chains, ChainStep(c) PROVE TypeOK'
  BY <1>1, <1>2, <1>3, ChainMoves, FinishTypes
<1>4. CASE Open
  <2>1. CASE lastProbe = "portal"
    <3>1. portalUrl \in Urls \cup {NoUrl}
      BY DEF VerdictOK
    <3>2. EpisodeOK' /\ opened' \in Opening
      BY <1>4, <2>1, <3>1, Launched DEF Open, MarkOpened, PageShown, EpisodeOK
    <3>. QED
      BY <1>4, <2>1, <3>2 DEF Open
  <2>2. CASE lastProbe # "portal"
    <3>1. LockOK'
      BY <1>4, <2>2, StartTypes DEF Open, ProbeNow, Stages
    <3>. QED
      BY <1>4, <2>2, <3>1 DEF Open
  <2>. QED
    BY <2>1, <2>2
<1>5. CASE ReprobeTick \/ RecheckAnswered
  <2>1. LockOK'
    BY <1>5, StartTypes DEF ReprobeTick, RecheckAnswered, ProbeNow, Stages
  <2>. QED
    BY <1>5, <2>1 DEF ReprobeTick, RecheckAnswered
<1>6. ASSUME NEW stage \in {"explicit", "auto"}, DebugProbe(stage) PROVE TypeOK'
  <2>1. LockOK'
    BY <1>6, StartTypes DEF DebugProbe, Stages
  <2>2. UsedOK'
    BY <1>6 DEF DebugProbe, UsedOK
  <2>. QED
    BY <1>6, <2>1, <2>2 DEF DebugProbe
<1>7. ASSUME NEW v \in Connectivities, ConnectivityChanged(v) PROVE TypeOK'
  <2>1. NmcliOK'
    BY <1>7 DEF ConnectivityChanged, NmcliOK
  <2>2. CASE v = "full"
    <3>1. VerdictOK' /\ EpisodeOK' /\ UNCHANGED lock
      BY <1>7, <2>2 DEF ConnectivityChanged, VerdictOK, EpisodeOK
    <3>. QED
      BY <1>7, <2>1, <3>1 DEF ConnectivityChanged
  <2>3. CASE v # "full"
    <3>1. (StartChain("check") \/ UNCHANGED lock) /\ UNCHANGED verdict /\ UNCHANGED episode
      BY <1>7, <2>3 DEF ConnectivityChanged, ProbeNow
    <3>2. LockOK'
      BY <3>1, StartTypes DEF Stages
    <3>. QED
      BY <1>7, <2>1, <3>1, <3>2 DEF ConnectivityChanged
  <2>. QED
    BY <2>2, <2>3
<1>8. CASE ConnectedChanged
  <2>1. NmcliOK'
    BY <1>8 DEF ConnectedChanged, NmcliOK
  <2>. QED
    BY <1>8, <2>1 DEF ConnectedChanged
<1>9. CASE Watchdog
  <2>1. LockOK'
    BY <1>9 DEF Watchdog, Unlock, LockOK
  <2>2. UsedOK'
    BY <1>9 DEF Watchdog, UsedOK
  <2>. QED
    BY <1>9, <2>1, <2>2 DEF Watchdog
<1>10. ASSUME NEW c \in Chains, Wedge(c) PROVE TypeOK'
  <2>1. LockOK' /\ UsedOK'
    BY <1>10 DEF Wedge, LockOK, UsedOK, Stages
  <2>. QED
    BY <1>10, <2>1 DEF Wedge
<1>11. CASE MinutePasses
  <2>1. EpisodeOK'
    BY <1>11 DEF MinutePasses, EpisodeOK
  <2>. QED
    BY <1>11, <2>1 DEF MinutePasses
<1>12. CASE UNCHANGED vars
  BY <1>12 DEF vars
<1>. QED
  BY <1>3, <1>4, <1>5, <1>6, <1>7, <1>8, <1>9, <1>10, <1>11, <1>12 DEF Next

\* Every variable keeps its type: no verdict but the script's three words, no page
\* but a portal's, and the lock is held by a chain.
THEOREM TypeCorrect == Spec => []TypeOK
<1>. QED
  BY TypeInit, TypeStep, PTL DEF Spec

(* The verdict and its pages.                                               *)

LEMMA VerdictStep == TypeOK /\ PortalUrlIffPortal /\ [Next]_vars => PortalUrlIffPortal'
<1>. SUFFICES ASSUME TypeOK, PortalUrlIffPortal, [Next]_vars PROVE PortalUrlIffPortal'
  OBVIOUS
<1>1. CASE UNCHANGED verdict
  BY <1>1 DEF PortalUrlIffPortal, verdict
<1>2. ASSUME NEW cls \in {"online", "portal", "unknown"}, NEW url, NEW candidate \in Urls,
             cls = "portal" => url \in Urls, SetVerdict(cls, url, candidate)
      PROVE  PortalUrlIffPortal'
  BY <1>2, PageUrls DEF SetVerdict, PortalUrlIffPortal
<1>3. ASSUME NEW c \in Chains, ChainStep(c) PROVE PortalUrlIffPortal'
  <2>1. ASSUME ExplicitAnswers(c) PROVE PortalUrlIffPortal'
    BY <1>2, <2>1, PageUrls DEF ExplicitAnswers
  <2>. QED
    BY <1>1, <1>2, <1>3, <2>1, ChainMoves DEF FinishProbe, MoveOn
<1>4. ASSUME NEW v \in Connectivities, ConnectivityChanged(v) PROVE PortalUrlIffPortal'
  BY <1>1, <1>4 DEF ConnectivityChanged, PortalUrlIffPortal
<1>. QED
  BY <1>1, <1>3, <1>4
     DEF Next, Wedge, Open, ReprobeTick, RecheckAnswered, DebugProbe, ConnectedChanged, Watchdog,
         MinutePasses, vars

\* A sign-in URL is known exactly when the last verdict was a portal, and a verdict
\* always leaves the click something to open.
THEOREM UrlIffPortal == Spec => []PortalUrlIffPortal
<1>1. Init => TypeOK /\ PortalUrlIffPortal
  BY TypeInit DEF Init, PortalUrlIffPortal
<1>2. TypeOK /\ PortalUrlIffPortal /\ [Next]_vars => (TypeOK /\ PortalUrlIffPortal)'
  BY TypeStep, VerdictStep
<1>. QED
  BY <1>1, <1>2, PTL DEF Spec

(* How many chains run.  The bound is not inductive: a chain that ends under    *)
(* another's lock lets a third one start.  Counting a free lock as a chain that *)
(* may start makes it so.                                                       *)

MayStart == IF probing /\ chain[owner] # "idle" THEN 0 ELSE 1
RoomForChains == Cardinality(InFlight) + MayStart <= 1 + slow

LEMMA FiniteFlight ==
  ASSUME TypeOK
  PROVE  /\ IsFiniteSet(InFlight) /\ Cardinality(InFlight) \in Nat
         /\ InFlight \subseteq Chains /\ slow \in Nat
<1>1. IsFiniteSet(InFlight)
  BY PortalAssumption, FS_Subset DEF InFlight
<1>. QED
  BY <1>1, FS_CardinalityType DEF InFlight, TypeOK, UsedOK

\* The chains in flight before and after a chain starts, moves on or ends.
LEMMA StartFlight ==
  ASSUME TypeOK, NEW stage \in Stages \ {"idle"}, StartChain(stage)
  PROVE  Cardinality(InFlight') = Cardinality(InFlight) + 1 /\ MayStart' = 0 /\ MayStart = 1
<1>1. PICK c \in Chains : /\ chain[c] = "idle" /\ chain' = [chain EXCEPT ![c] = stage]
                          /\ owner' = c
  BY DEF StartChain, FirstFree
<1>2. ~probing /\ probing' /\ chain \in [Chains -> Stages]
  BY DEF StartChain, TypeOK, LockOK
<1>3. InFlight' = InFlight \cup {c} /\ c \notin InFlight
  BY <1>1, <1>2 DEF InFlight
<1>. QED
  BY <1>1, <1>2, <1>3, FiniteFlight, FS_AddElement DEF MayStart

LEMMA EndFlight ==
  ASSUME TypeOK, NEW c \in Chains, chain[c] # "idle", chain' = [chain EXCEPT ![c] = "idle"]
  PROVE  Cardinality(InFlight') = Cardinality(InFlight) - 1
<1>1. InFlight' = InFlight \ {c} /\ c \in InFlight
  BY DEF InFlight, TypeOK, LockOK
<1>. QED
  BY <1>1, FiniteFlight, FS_RemoveElement

LEMMA MovesInFlight ==
  ASSUME NEW c \in Chains, ChainStep(c)
  PROVE  chain[c] # "idle"
BY DEF ChainStep, CheckAnswers, ResolveAnswers, RouteAnswers, GatewayAnswers, AutoProbeAnswers,
       ExplicitAnswers

LEMMA RoomStep == TypeOK /\ RoomForChains /\ [Next]_vars => RoomForChains'
<1>. SUFFICES ASSUME TypeOK, RoomForChains, [Next]_vars PROVE RoomForChains'
  OBVIOUS
<1>0. /\ Cardinality(InFlight) \in Nat /\ slow \in Nat /\ chain \in [Chains -> Stages]
      /\ MayStart \in {0, 1} /\ MayStart' \in {0, 1}
      /\ Cardinality(InFlight) + MayStart <= 1 + slow
  BY FiniteFlight DEF RoomForChains, TypeOK, LockOK, MayStart
<1>1. CASE UNCHANGED lock /\ slow' = slow
  BY <1>0, <1>1 DEF RoomForChains, MayStart, InFlight, lock
<1>2. ASSUME NEW stage \in {"check", "explicit", "auto"}, StartChain(stage), slow' = slow
      PROVE  RoomForChains'
  BY <1>0, <1>2, StartFlight DEF RoomForChains, Stages
<1>3. ASSUME ProbeNow, slow' = slow PROVE RoomForChains'
  BY <1>1, <1>2, <1>3 DEF ProbeNow
<1>4. ASSUME NEW c \in Chains, chain[c] # "idle", chain' = [chain EXCEPT ![c] = "idle"], slow' = slow
      PROVE  RoomForChains'
  <2>1. Cardinality(InFlight') = Cardinality(InFlight) - 1
    BY <1>4, EndFlight
  <2>2. Cardinality(InFlight') + MayStart' <= 1 + slow'
    BY <1>0, <1>4, <2>1
  <2>. QED
    BY <2>2 DEF RoomForChains
<1>5. ASSUME NEW c \in Chains, ChainStep(c) PROVE RoomForChains'
  <2>1. chain[c] # "idle"
    BY <1>5, MovesInFlight
  <2>2. ASSUME NEW stage \in Stages \ {"idle"}, MoveOn(c, stage) PROVE RoomForChains'
    <3>1. /\ chain' = [chain EXCEPT ![c] = stage] /\ probing' = probing /\ owner' = owner
          /\ slow' = slow
      BY <2>2 DEF MoveOn, used
    <3>2. InFlight' = InFlight
      BY <1>0, <2>1, <3>1 DEF InFlight
    <3>3. MayStart' = MayStart
      BY <1>0, <2>1, <3>1 DEF MayStart, TypeOK, LockOK
    <3>. QED
      BY <3>1, <3>2, <3>3 DEF RoomForChains
  <2>3. ExplicitAnswers(c) => RoomForChains'
    BY <1>4, <2>1 DEF ExplicitAnswers, used
  <2>. QED
    BY <1>4, <1>5, <2>1, <2>2, <2>3, ChainMoves DEF FinishProbe, used
<1>6. ASSUME NEW c \in Chains, Wedge(c) PROVE RoomForChains'
  BY <1>4, <1>6 DEF Wedge
<1>7. CASE Watchdog
  <2>1. InFlight' = InFlight /\ MayStart' = 1 /\ probing
    BY <1>7 DEF Watchdog, Unlock, InFlight, MayStart
  <2>2. CASE chain[owner] = "idle" /\ slow' = slow
    BY <1>0, <2>1, <2>2 DEF RoomForChains, MayStart
  <2>3. CASE slow' = slow + 1
    BY <1>0, <2>1, <2>3 DEF RoomForChains
  <2>. QED
    BY <1>7, <2>2, <2>3 DEF Watchdog
<1>8. ASSUME NEW v \in Connectivities, ConnectivityChanged(v) PROVE RoomForChains'
  BY <1>1, <1>3, <1>8 DEF ConnectivityChanged, used
<1>9. CASE Open
  BY <1>1, <1>3, <1>9 DEF Open, used
<1>. QED
  BY <1>1, <1>2, <1>3, <1>5, <1>6, <1>7, <1>8, <1>9
     DEF Next, ReprobeTick, RecheckAnswered, DebugProbe, ConnectedChanged, MinutePasses, vars, used

\* No more chains run at once than one and one for each chain the watchdog overtook
\* (probeNow's lock, finishProbe's release, the watchdog timer).
THEOREM OverlapBounded == Spec => []ChainsBounded
<1>1. Init => TypeOK /\ RoomForChains
  <2>1. Init => InFlight = {} /\ MayStart = 1 /\ slow = 0
    BY DEF Init, InFlight, MayStart
  <2>. QED
    BY <2>1, TypeInit, FS_EmptySet DEF RoomForChains
<1>2. TypeOK /\ RoomForChains /\ [Next]_vars => (TypeOK /\ RoomForChains)'
  BY TypeStep, RoomStep
<1>3. TypeOK /\ RoomForChains => ChainsBounded
  BY FiniteFlight DEF RoomForChains, ChainsBounded, MayStart
<1>. QED
  BY <1>1, <1>2, <1>3, PTL DEF Spec

(* When a page opens by itself.                                             *)

\* The page shown last is the episode's, and the floor runs from its opening.
SameEpisode == shown = openedFor /\ fresh = recent

LEMMA RationStep ==
  ASSUME TypeOK, SameEpisode, Next
  PROVE  /\ SameEpisode'
         /\ opened'.by = "auto" => /\ lastProbe' = "portal" /\ opened'.url = portalUrl'
                                   /\ opened'.url # shown /\ ~fresh
<1>. DEFINE Rationed == opened'.by = "auto" => /\ lastProbe' = "portal" /\ opened'.url = portalUrl'
                                              /\ opened'.url # shown /\ ~fresh
<1>1. ASSUME opened' = Nothing \/ \E url : opened' = Launch("click", url) PROVE Rationed
  BY <1>1 DEF Nothing, Launch
<1>2. ASSUME UNCHANGED episode, opened' = Nothing PROVE SameEpisode' /\ Rationed
  BY <1>1, <1>2 DEF SameEpisode, episode
<1>3. ASSUME NEW url, MarkOpened(url), PageShown(url) PROVE SameEpisode'
  BY <1>3 DEF MarkOpened, PageShown, SameEpisode
<1>4. ASSUME NEW c, NEW cls, NEW url, NEW candidate, FinishProbe(c, cls, url, candidate)
      PROVE  SameEpisode' /\ Rationed
  <2>1. CASE AnswerClick(cls, url, candidate)
    <3>1. \E x : opened' = Launch("click", x) \/ opened' = Nothing
      BY <2>1 DEF AnswerClick
    <3>2. SameEpisode'
      BY <1>3, <2>1 DEF AnswerClick, SameEpisode, episode
    <3>. QED
      BY <1>1, <3>1, <3>2
  <2>2. CASE MaybeAutoOpen(cls, url)
    <3>1. CASE cls = "portal" /\ openedFor # url /\ ~recent
      <4>1. SameEpisode' /\ opened' = Launch("auto", url)
        BY <1>3, <2>2, <3>1 DEF MaybeAutoOpen
      <4>2. lastProbe' = "portal" /\ portalUrl' = url
        BY <1>4, <3>1 DEF FinishProbe, SetVerdict
      <4>3. opened'.by = "auto" => opened'.url = url
        BY <4>1 DEF Launch, Nothing
      <4>. QED
        BY <3>1, <4>1, <4>2, <4>3 DEF SameEpisode
    <3>2. CASE ~(cls = "portal" /\ openedFor # url /\ ~recent)
      BY <1>2, <2>2, <3>2 DEF MaybeAutoOpen
    <3>. QED
      BY <3>1, <3>2
  <2>. QED
    BY <1>4, <2>1, <2>2 DEF FinishProbe
<1>5. ASSUME NEW c \in Chains, ChainStep(c) PROVE SameEpisode' /\ Rationed
  <2>1. ASSUME NEW stage, MoveOn(c, stage) PROVE SameEpisode' /\ Rationed
    BY <1>2, <2>1 DEF MoveOn
  <2>2. ExplicitAnswers(c) => SameEpisode' /\ Rationed
    BY <1>2 DEF ExplicitAnswers
  <2>. QED
    BY <1>4, <1>5, <2>1, <2>2, ChainMoves
<1>6. CASE Open
  BY <1>1, <1>2, <1>3, <1>6 DEF Open
<1>7. ASSUME NEW v \in Connectivities, ConnectivityChanged(v) PROVE SameEpisode' /\ Rationed
  <2>1. SameEpisode'
    BY <1>7 DEF ConnectivityChanged, SameEpisode, episode
  <2>. QED
    BY <1>1, <1>7, <2>1 DEF ConnectivityChanged
<1>8. CASE MinutePasses
  BY <1>1, <1>8 DEF MinutePasses, SameEpisode
<1>. QED
  BY <1>2, <1>5, <1>6, <1>7, <1>8
     DEF Next, Wedge, ReprobeTick, RecheckAnswered, DebugProbe, ConnectedChanged, Watchdog

\* A page opens by itself only on a portal verdict, never twice for the portal whose
\* page was shown last, and never within a minute of that page -- whichever chain,
\* late or not, brings the verdict (finishProbe, maybeAutoOpen).
THEOREM AutoOpenOnce == Spec => AutoOpenRationed
<1>1. Init => TypeOK /\ SameEpisode
  BY TypeInit DEF Init, SameEpisode
<1>2. TypeOK /\ SameEpisode /\ [Next]_vars => (TypeOK /\ SameEpisode)'
  <2>1. SameEpisode /\ UNCHANGED vars => SameEpisode'
    BY DEF SameEpisode, vars, episode
  <2>. QED
    BY <2>1, TypeStep, RationStep
<1>3. TypeOK /\ SameEpisode /\ [Next]_vars
        => [opened'.by = "auto" =>
              /\ lastProbe' = "portal" /\ opened'.url = portalUrl'
              /\ opened'.url # shown
              /\ ~fresh]_vars
  BY RationStep
<1>. QED
  BY <1>1, <1>2, <1>3, PTL DEF Spec, AutoOpenRationed

=============================================================================
