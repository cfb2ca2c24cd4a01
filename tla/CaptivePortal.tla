--------------------------- MODULE CaptivePortal ----------------------------
(***************************************************************************)
(* The captive-portal service (services/CaptivePortal.qml): probe chains    *)
(* run by external processes, the lock that is meant to keep them one at a  *)
(* time, the watchdog that releases it, the user's click, and the automatic *)
(* opening of the sign-in page.                                             *)
(*                                                                          *)
(* A chain is the sequence of process callbacks one probe call sets off.    *)
(* Nothing in the code names a chain: a slot here stands for the closures   *)
(* of one call, and a released lock does not stop them.                     *)
(***************************************************************************)
EXTENDS Naturals, FiniteSets

CONSTANTS
  Chains,          \* numbered slots for probe chains in flight (bound)
  Redirects,       \* sign-in pages a portal can redirect to
  Unsafe,          \* those that are not http(s)
  CheckUri,        \* the URL probed first
  GatewayUrl,      \* http://<gateway>/
  NoUrl,           \* the empty string
  Connectivities,  \* NetworkManager's verdicts, "full" the healthy one
  MaxSlow,         \* bound: chains so slow that the watchdog overtakes them
  MaxWedges,       \* bound: chains whose nmcli or ip process never answers
  MaxDebug         \* bound: debugging probes over IPC

Urls == Redirects \cup {CheckUri, GatewayUrl}

ASSUME PortalAssumption ==
  /\ Chains \subseteq Nat \ {0} /\ IsFiniteSet(Chains)
  /\ NoUrl \notin Urls
  /\ Unsafe \subseteq Redirects
  /\ "full" \in Connectivities /\ Connectivities \subseteq STRING
  /\ MaxSlow \in Nat /\ MaxWedges \in Nat /\ MaxDebug \in Nat

VARIABLES
  connected, connectivity,            \* what the Nmcli service reports
  lastProbe, portalUrl, candidateUrl, \* the last verdict
  openedFor, recent,                  \* episode key; Date.now() - lastOpenTime < 60000
  probing, openWhenProbed,            \* the lock, the pending click
  chain,                              \* what each chain waits for
  owner,                              \* history: the chain that holds the lock, or 0
  opened,                             \* history: the page this step opened, and for whom
  shown, fresh,                       \* history: the portal whose page was opened last,
                                      \* and whether that was less than a minute ago
  slow, wedges, debugs                \* how much of each bound is used

nmcli == <<connected, connectivity>>
verdict == <<lastProbe, portalUrl, candidateUrl>>
episode == <<openedFor, recent, shown, fresh>>
lock == <<probing, chain, owner>>
used == <<slow, wedges, debugs>>
vars == <<nmcli, verdict, episode, lock, openWhenProbed, opened, used>>

Stages == {"idle", "check", "resolve", "route", "gateway", "explicit", "auto"}

InFlight == {c \in Chains : chain[c] # "idle"}

Nothing == [by |-> "nobody", url |-> NoUrl]

\* launchBrowser: only http(s) reaches a browser.
Launch(by, url) == IF url \in Unsafe THEN Nothing ELSE [by |-> by, url |-> url]

active ==
  connected /\ (connectivity \in {"portal", "limited", "unknown"} \/ lastProbe = "portal")

----------------------------------------------------------------------------
(* The lock.                                                                *)

\* Slots are anonymous: a new chain takes the first free one.
FirstFree(c) == chain[c] = "idle" /\ \A d \in Chains : d < c => chain[d] # "idle"

\* A caller finds the lock free and its probe script is started.
StartChain(stage) ==
  /\ ~probing
  /\ \E c \in Chains :
       /\ FirstFree(c)
       /\ chain' = [chain EXCEPT ![c] = stage]
       /\ owner' = c
  /\ probing' = TRUE

\* A finished chain releases the lock, whoever holds it.
Unlock == probing' = FALSE /\ owner' = 0

\* probeNow does nothing while a probe is in flight.
ProbeNow == StartChain("check") \/ (probing /\ UNCHANGED lock)

----------------------------------------------------------------------------
(* The end of a chain.                                                      *)

\* Faulty variant of SetVerdict: the URL stays whatever the verdict.
UrlAlways(cls, url, candidate) ==
  /\ lastProbe' = cls /\ portalUrl' = url /\ candidateUrl' = candidate

SetVerdict(cls, url, candidate) ==
  /\ lastProbe' = cls
  /\ portalUrl' = IF cls = "portal" THEN url ELSE NoUrl
  /\ candidateUrl' = candidate

\* Faulty variant of MarkOpened: the time is noted, the portal is not.
MarkTimeOnly(url) == recent' = TRUE /\ UNCHANGED openedFor

MarkOpened(url) == openedFor' = url /\ recent' = TRUE

\* History, beside every opening of a portal's page.
PageShown(url) == shown' = url /\ fresh' = TRUE

\* The click that waited is answered; maybeAutoOpen then finds the portal's page
\* opened for this episode, or no portal.
AnswerClick(cls, url, candidate) ==
  /\ openWhenProbed' = FALSE
  /\ \/ /\ cls = "portal"
        /\ MarkOpened(url) /\ PageShown(url)
        /\ opened' = Launch("click", url)
     \/ /\ cls = "unknown"
        /\ opened' = Launch("click", candidate)
        /\ UNCHANGED episode
     \/ /\ cls = "online"
        /\ opened' = Nothing
        /\ UNCHANGED episode

\* maybeAutoOpen: a portal, a new episode, and a minute since the last window.
MaybeAutoOpen(cls, url) ==
  IF cls = "portal" /\ openedFor # url /\ ~recent
  THEN MarkOpened(url) /\ PageShown(url) /\ opened' = Launch("auto", url)
  ELSE opened' = Nothing /\ UNCHANGED episode

\* Faulty variant of FinishProbe: the click is answered only by a portal.
FinishForPortalOnly(c, cls, url, candidate) ==
  /\ chain' = [chain EXCEPT ![c] = "idle"]
  /\ Unlock
  /\ SetVerdict(cls, url, candidate)
  /\ IF openWhenProbed /\ cls = "portal"
     THEN AnswerClick(cls, url, candidate)
     ELSE MaybeAutoOpen(cls, url) /\ UNCHANGED openWhenProbed
  /\ UNCHANGED <<nmcli, used>>

FinishProbe(c, cls, url, candidate) ==
  /\ chain' = [chain EXCEPT ![c] = "idle"]
  /\ Unlock
  /\ SetVerdict(cls, url, candidate)
  /\ IF openWhenProbed
     THEN AnswerClick(cls, url, candidate)
     ELSE MaybeAutoOpen(cls, url) /\ UNCHANGED openWhenProbed
  /\ UNCHANGED <<nmcli, used>>

MoveOn(c, stage) ==
  /\ chain' = [chain EXCEPT ![c] = stage]
  /\ opened' = Nothing
  /\ UNCHANGED <<nmcli, verdict, episode, probing, owner, openWhenProbed, used>>

\* A portal is seen as a redirect, or as a page served in the probed URL's place.
PortalPages(probed) == Redirects \cup {probed}

\* The probe script prints the probed URL unless a redirect names another.
Concludes(c, probed) ==
  \/ FinishProbe(c, "online", probed, probed)
  \/ \E url \in PortalPages(probed) : FinishProbe(c, "portal", url, url)

----------------------------------------------------------------------------
(* The callbacks of a chain, one process after another.                     *)

\* The check URI's verdict.  "unknown" goes on to the gateway: nmcli if there is
\* an active interface, else the default route.
CheckAnswers(c) ==
  /\ chain[c] = "check"
  /\ \/ Concludes(c, CheckUri)
     \/ MoveOn(c, "resolve")
     \/ MoveOn(c, "route")

ResolveAnswers(c) ==
  /\ chain[c] = "resolve"
  /\ \/ MoveOn(c, "gateway")
     \/ MoveOn(c, "route")

RouteAnswers(c) ==
  /\ chain[c] = "route"
  /\ \/ MoveOn(c, "gateway")
     \/ FinishProbe(c, "unknown", NoUrl, CheckUri)

GatewayAnswers(c) ==
  /\ chain[c] = "gateway"
  /\ \/ Concludes(c, GatewayUrl)
     \/ FinishProbe(c, "unknown", GatewayUrl, GatewayUrl)

\* probeAuto, the debugging probe that ends like a real one.
AutoProbeAnswers(c) ==
  /\ chain[c] = "auto"
  /\ \/ Concludes(c, CheckUri)
     \/ FinishProbe(c, "unknown", CheckUri, CheckUri)

\* probeExplicit, the debugging probe that only classifies.
ExplicitAnswers(c) ==
  /\ chain[c] = "explicit"
  /\ chain' = [chain EXCEPT ![c] = "idle"]
  /\ Unlock
  /\ \/ SetVerdict("online", CheckUri, CheckUri)
     \/ SetVerdict("unknown", CheckUri, CheckUri)
     \/ \E url \in PortalPages(CheckUri) : SetVerdict("portal", url, url)
  /\ opened' = Nothing
  /\ UNCHANGED <<nmcli, episode, openWhenProbed, used>>

ChainStep(c) ==
  \/ CheckAnswers(c)
  \/ ResolveAnswers(c)
  \/ RouteAnswers(c)
  \/ GatewayAnswers(c)
  \/ AutoProbeAnswers(c)
  \/ ExplicitAnswers(c)

----------------------------------------------------------------------------
(* Callers.                                                                 *)

\* open(): a known portal is opened at once, else the click waits for a probe.
Open ==
  /\ IF lastProbe = "portal"
     THEN /\ MarkOpened(portalUrl) /\ PageShown(portalUrl)
          /\ opened' = Launch("click", portalUrl)
          /\ UNCHANGED <<lock, openWhenProbed>>
     ELSE /\ openWhenProbed' = TRUE
          /\ ProbeNow
          /\ opened' = Nothing
          /\ UNCHANGED episode
  /\ UNCHANGED <<nmcli, verdict, used>>

\* The 15 s timer, running while the row is visible.
ReprobeTick ==
  /\ active
  /\ ProbeNow
  /\ opened' = Nothing
  /\ UNCHANGED <<nmcli, verdict, episode, openWhenProbed, used>>

\* recheck(): NetworkManager has answered, whenever it was asked.
RecheckAnswered ==
  /\ ProbeNow
  /\ opened' = Nothing
  /\ UNCHANGED <<nmcli, verdict, episode, openWhenProbed, used>>

\* IPC probe(url) and probeAuto(url): refused while a probe is in flight.
DebugProbe(stage) ==
  /\ debugs < MaxDebug
  /\ debugs' = debugs + 1
  /\ StartChain(stage)
  /\ opened' = Nothing
  /\ UNCHANGED <<nmcli, verdict, episode, openWhenProbed, slow, wedges>>

\* onConnectivityChanged: "full" forgets the verdict and the episode, and leaves
\* the lock and the pending click alone; any other verdict probes.
ConnectivityChanged(v) ==
  /\ v # connectivity
  /\ connectivity' = v
  /\ IF v = "full"
     THEN /\ lastProbe' = "" /\ portalUrl' = NoUrl /\ candidateUrl' = NoUrl
          /\ openedFor' = NoUrl /\ shown' = NoUrl
          /\ UNCHANGED <<recent, fresh, lock>>
     ELSE /\ IF connected THEN ProbeNow ELSE UNCHANGED lock
          /\ UNCHANGED <<verdict, episode>>
  /\ opened' = Nothing
  /\ UNCHANGED <<connected, openWhenProbed, used>>

ConnectedChanged ==
  /\ connected' = ~connected
  /\ opened' = Nothing
  /\ UNCHANGED <<connectivity, verdict, episode, lock, openWhenProbed, used>>

----------------------------------------------------------------------------
(* Time, and processes that hang.                                           *)

\* Faulty variant of Watchdog: it trusts a hung process to answer in the end.
WatchdogForSlowOnly ==
  /\ probing
  /\ chain[owner] \in {"resolve", "route", "gateway"}
  /\ slow < MaxSlow
  /\ slow' = slow + 1
  /\ Unlock
  /\ opened' = Nothing
  /\ UNCHANGED <<nmcli, verdict, episode, chain, openWhenProbed, wedges, debugs>>

\* 30 s after the lock was taken it is released.  A chain is only ever that slow
\* once past its first probe (curl gives up after 8 s): it is still waiting for
\* nmcli, ip or the gateway, or hangs for good.
Watchdog ==
  /\ probing
  /\ \/ chain[owner] = "idle" /\ UNCHANGED slow
     \/ /\ chain[owner] \in {"resolve", "route", "gateway"}
        /\ slow < MaxSlow
        /\ slow' = slow + 1
  /\ Unlock
  /\ opened' = Nothing
  /\ UNCHANGED <<nmcli, verdict, episode, chain, openWhenProbed, wedges, debugs>>

\* nmcli or ip never answers: the chain's callbacks never run.
Wedge(c) ==
  /\ chain[c] \in {"resolve", "route"}
  /\ wedges < MaxWedges
  /\ wedges' = wedges + 1
  /\ chain' = [chain EXCEPT ![c] = "idle"]
  /\ opened' = Nothing
  /\ UNCHANGED <<nmcli, verdict, episode, probing, owner, openWhenProbed, slow, debugs>>

MinutePasses ==
  /\ recent \/ fresh
  /\ recent' = FALSE /\ fresh' = FALSE
  /\ opened' = Nothing
  /\ UNCHANGED <<nmcli, verdict, openedFor, shown, lock, openWhenProbed, used>>

----------------------------------------------------------------------------
Init ==
  /\ connected \in BOOLEAN /\ connectivity = "unknown"
  /\ lastProbe = "" /\ portalUrl = NoUrl /\ candidateUrl = NoUrl
  /\ openedFor = NoUrl /\ recent = FALSE /\ shown = NoUrl /\ fresh = FALSE
  /\ probing = FALSE /\ chain = [c \in Chains |-> "idle"] /\ owner = 0
  /\ openWhenProbed = FALSE
  /\ opened = Nothing
  /\ slow = 0 /\ wedges = 0 /\ debugs = 0

Next ==
  \/ \E c \in Chains : ChainStep(c) \/ Wedge(c)
  \/ Open
  \/ ReprobeTick
  \/ RecheckAnswered
  \/ DebugProbe("explicit")
  \/ DebugProbe("auto")
  \/ \E v \in Connectivities : ConnectivityChanged(v)
  \/ ConnectedChanged
  \/ Watchdog
  \/ MinutePasses

Spec == Init /\ [][Next]_vars

\* A process that has not hung exits, and QML timers fire.
FairSpec ==
  /\ Spec
  /\ \A c \in Chains : WF_vars(ChainStep(c))
  /\ WF_vars(Watchdog)
  /\ WF_vars(ReprobeTick)

----------------------------------------------------------------------------
(* Properties.                                                              *)

NmcliOK == connected \in BOOLEAN /\ connectivity \in Connectivities \cup {"unknown"}
VerdictOK ==
  /\ lastProbe \in {"", "online", "portal", "unknown"}
  /\ portalUrl \in Urls \cup {NoUrl} /\ candidateUrl \in Urls \cup {NoUrl}
EpisodeOK ==
  /\ openedFor \in Urls \cup {NoUrl} /\ recent \in BOOLEAN
  /\ shown \in Urls \cup {NoUrl} /\ fresh \in BOOLEAN
LockOK ==
  /\ chain \in [Chains -> Stages]
  /\ probing \in BOOLEAN /\ owner \in IF probing THEN Chains ELSE {0}
UsedOK == slow \in Nat /\ wedges \in Nat /\ debugs \in Nat

Opening == [by : {"nobody", "click", "auto"}, url : Urls \cup {NoUrl}]

TypeOK ==
  /\ NmcliOK /\ VerdictOK /\ EpisodeOK /\ LockOK /\ UsedOK
  /\ openWhenProbed \in BOOLEAN /\ opened \in Opening

\* "The auto-open invariant depends on this being empty for online/unknown": a
\* sign-in URL is known exactly when the last verdict was a portal, and a verdict
\* always leaves the click something to open.
PortalUrlIffPortal ==
  /\ portalUrl # NoUrl <=> lastProbe = "portal"
  /\ candidateUrl # NoUrl <=> lastProbe # ""

\* Probe chains overlap only when the watchdog overtook one that was still alive:
\* the lock, with a late chain releasing it under its successor, never lets more
\* chains run than one and one for each of those.
ChainsBounded == Cardinality(InFlight) <= 1 + slow

\* A page opens by itself only on a portal verdict, never twice for the portal
\* whose page was shown last (but after a healthy network), and never within a
\* minute of the last such page -- whichever chain, late or not, brings the verdict.
AutoOpenRationed ==
  [][opened'.by = "auto" =>
       /\ lastProbe' = "portal" /\ opened'.url = portalUrl'
       /\ opened'.url # shown
       /\ ~fresh]_vars

\* The watchdog: no hung process keeps the lock for ever.
LockIsReleased == probing ~> ~probing

\* A click that waits for a probe is answered while the row stays visible, through
\* hung chains, the watchdog and debugging probes in between.
ClickIsAnswered == openWhenProbed ~> (~openWhenProbed \/ ~active)

(* What the comments and the design document say, and the code does not do. *)

\* Design, anti-goal A3: "Opening a browser when the connection is actually online".
NoAutoOpenWhenFull == [][opened'.by = "auto" => connectivity # "full"]_vars

=============================================================================
