------------------------------- MODULE Lyrics -------------------------------
(***************************************************************************)
(* The lyrics service (Services/lyrics.cpp): a track's lyrics from a local  *)
(* file, LRCLIB or NetEase, one after the other, with candidates to pick    *)
(* from and preferences kept per track.  Loads wait for a debounce timer;    *)
(* replies of earlier loads are aborted, and known by their request's id.   *)
(* A reply whose id is no longer current does nothing, and is not kept here. *)
(***************************************************************************)
EXTENDS Integers

CONSTANTS
  Tracks, NoTrack,         \* artist and title; both empty
  Offsets,                 \* of the lyrics to the music, 0 among them
  Pickable,                \* candidates some client of the service may pick
  NoCandidate,
  MaxInputs                \* bound: calls of the service's methods and restarts

Online == {"LRCLIB", "NetEase"}
Backends == Online \cup {"Local"}
Candidates == [backend : Backends, of : Tracks]

ASSUME LyricsAssumption ==
  /\ NoTrack \notin Tracks /\ NoCandidate \notin Candidates
  /\ 0 \in Offsets /\ Pickable \subseteq Candidates /\ MaxInputs \in Nat

VARIABLES
  track,                   \* m_artist, m_title
  scheduled,               \* m_loadDebounce runs
  preferred, backend,      \* m_preferredBackend, m_backend
  candidates, selected,    \* m_candidates, m_selected
  loading, hasLyrics,
  shown,                   \* whose lines m_lines are
  offset,
  replies,                 \* replies under the current id that have not come
  saved,                   \* m_lyricsMap, and its file
  cached,                  \* candidates with lyrics in the cache
  chosen,                  \* history: a client picked since the last load
  unanswered,              \* history: the last load restored what was selected already
  misfiled,                \* history: tracks that were once saved with another's lyrics
  inputs

display == <<backend, loading, hasLyrics, shown, candidates, selected>>
prefs == <<saved, misfiled>>
history == <<chosen, unanswered>>
vars == <<track, scheduled, preferred, display, offset, replies, prefs, cached, history, inputs>>

Input == inputs < MaxInputs /\ inputs' = inputs + 1

\* What a reply answers: a search for candidates, the try of a backend, or the fetch
\* of one candidate's lyrics; and whether m_pendingReplies holds it.
Reply(kind, site, t) == [kind |-> kind, site |-> site, of |-> t, pending |-> TRUE]
Searches(t) == {Reply("search", site, t) : site \in Online}
Try(site) == Reply("try", site, track)
Fetch(c) == Reply("fetch", c.backend, c.of)
Found(r) == [backend |-> r.site, of |-> r.of]

\* persistTrackPrefs: under the track of now.
Persist(o, c) ==
  IF track = NoTrack THEN UNCHANGED prefs
  ELSE LET entry == [offset |-> o, pick |-> IF c = NoCandidate THEN saved[track].pick ELSE c]
       IN /\ saved' = [saved EXCEPT ![track] = entry]
          /\ misfiled' = IF entry.pick # NoCandidate /\ entry.pick.of # track
                         THEN misfiled \cup {track} ELSE misfiled

Show(c) == shown' = c /\ hasLyrics' = TRUE

----------------------------------------------------------------------------
(* cancelInFlight: a reply that is aborted finishes there and then, with an *)
(* error, under the id that is current still; Auto's chain goes on, to a    *)
(* request that m_pendingReplies no longer knows.                           *)

Aborted == {r \in replies : r.pending}
Chains == preferred = "Auto" /\ \E r \in Aborted : r.kind = "try" /\ r.site = "LRCLIB"
GivesUp ==
  \E r \in Aborted : \/ r.kind = "fetch"
                     \/ r.kind = "try" /\ (r.site = "NetEase" \/ preferred # "Auto")

Survivors ==
  (replies \ Aborted) \cup (IF Chains THEN {[Try("NetEase") EXCEPT !.pending = FALSE]} ELSE {})

----------------------------------------------------------------------------
(* The service's methods.                                                   *)

\* setTrack; the same track with another length is a Refresh.
SetTrack(t) ==
  /\ Input
  /\ t # track /\ track' = t /\ scheduled' = TRUE
  /\ UNCHANGED <<preferred, display, offset, replies, prefs, cached, history>>

\* refresh, a change of the folder of local lyrics.
Refresh ==
  /\ Input /\ scheduled' = TRUE
  /\ UNCHANGED <<track, preferred, display, offset, replies, prefs, cached, history>>

SetPreferredBackend(b) ==
  /\ Input
  /\ b # preferred /\ preferred' = b /\ scheduled' = TRUE
  /\ UNCHANGED <<track, display, offset, replies, prefs, cached, history>>

SetOffset(o) ==
  /\ Input
  /\ o # offset /\ offset' = o /\ Persist(o, selected)
  /\ UNCHANGED <<track, scheduled, preferred, display, replies, cached, history>>

\* clearTrack: the id stays current.
ClearTrack ==
  /\ Input
  /\ track' = NoTrack
  /\ candidates' = {} /\ hasLyrics' = FALSE /\ loading' = FALSE
  /\ backend' = IF Chains THEN "NetEase" ELSE backend
  /\ replies' = Survivors
  /\ chosen' = FALSE /\ unanswered' = FALSE
  /\ UNCHANGED <<scheduled, preferred, shown, selected, offset, prefs, cached>>

\* From its cache, or its file, or by a fetch.  m has the backend, hasLyrics and loading
\* of just before, and the replies that outlive the new id.
Take(c, m) ==
  /\ selected' = c
  /\ \/ /\ c \in cached \/ c.backend = "Local"
        /\ Show(c) /\ backend' = c.backend /\ loading' = FALSE /\ replies' = m.replies
     \/ /\ c.backend = "Local"
        /\ \/ shown' = c /\ hasLyrics' = FALSE /\ backend' = "Local"
           \/ UNCHANGED shown /\ hasLyrics' = m.hasLyrics /\ backend' = m.backend
        /\ loading' = FALSE /\ replies' = m.replies
     \/ /\ c.backend \in Online /\ c \notin cached
        /\ UNCHANGED shown /\ hasLyrics' = m.hasLyrics /\ backend' = m.backend
        /\ loading' = m.loading /\ replies' = m.replies \cup {Fetch(c)}

\* Faulty variant of Pick: the aborted chain's request keeps the id.
PickUnderSameId(c) ==
  /\ Input
  /\ c \in candidates \cap Pickable /\ c # selected
  /\ Take(c, [backend |-> IF Chains THEN "NetEase" ELSE c.backend, hasLyrics |-> hasLyrics,
              loading |-> ~GivesUp, replies |-> Survivors])
  /\ Persist(offset, c)
  /\ chosen' = TRUE /\ unanswered' = FALSE
  /\ UNCHANGED <<track, scheduled, preferred, candidates, offset, cached>>

\* setSelectedCandidate: loading is set before the replies in flight are aborted.
Pick(c) ==
  /\ Input
  /\ c \in candidates \cap Pickable /\ c # selected
  /\ Take(c, [backend |-> IF Chains THEN "NetEase" ELSE c.backend, hasLyrics |-> hasLyrics,
              loading |-> ~GivesUp, replies |-> {}])
  /\ Persist(offset, c)
  /\ chosen' = TRUE /\ unanswered' = FALSE
  /\ UNCHANGED <<track, scheduled, preferred, candidates, offset, cached>>

----------------------------------------------------------------------------
(* doLoad, when the debounce timer fires.                                   *)

LoadNothing ==
  /\ track = NoTrack
  /\ hasLyrics' = FALSE /\ candidates' = {} /\ loading' = FALSE
  /\ unanswered' = FALSE
  /\ UNCHANGED <<backend, shown, selected, offset, replies, prefs>>

Restored == saved[track].pick
Chained == IF Chains THEN "NetEase" ELSE backend

\* The saved selection, which may be selected already; then nothing more is done.
\* Otherwise the searches just sent are aborted.
LoadSaved ==
  /\ Restored # NoCandidate
  /\ candidates' = {}
  /\ IF Restored = selected
     THEN /\ loading' = TRUE /\ hasLyrics' = FALSE /\ backend' = Chained
          /\ replies' = Searches(track)
          /\ UNCHANGED <<shown, selected>>
     ELSE Take(Restored, [backend |-> Restored.backend, hasLyrics |-> FALSE, loading |-> TRUE,
                          replies |-> {}])
  /\ unanswered' = (Restored = selected)
  /\ UNCHANGED prefs

LocalLyrics == [backend |-> "Local", of |-> track]

\* tryLocal found a file with lyrics in it.
LoadLocal ==
  /\ Restored = NoCandidate /\ preferred \in {"Auto", "Local"}
  /\ Show(LocalLyrics) /\ backend' = "Local"
  /\ candidates' = {LocalLyrics} /\ selected' = LocalLyrics
  /\ Persist(saved[track].offset, LocalLyrics)
  /\ loading' = FALSE /\ replies' = Searches(track)
  /\ unanswered' = FALSE

\* Faulty variant of LoadOnline: the load has no id of its own.
LoadUnderSameId ==
  /\ Restored = NoCandidate
  /\ LET site == IF preferred = "Auto" THEN "LRCLIB" ELSE preferred IN
     /\ backend' = site /\ loading' = (site \in Online)
     /\ replies' = Survivors \cup Searches(track) \cup (IF site \in Online THEN {Try(site)} ELSE {})
  /\ hasLyrics' = FALSE /\ candidates' = {}
  /\ unanswered' = FALSE
  /\ UNCHANGED <<shown, selected, prefs>>

\* tryLocal found none, or it is not asked.
LoadOnline ==
  /\ Restored = NoCandidate
  /\ LET site == IF preferred = "Auto" THEN "LRCLIB" ELSE preferred IN
     /\ backend' = site /\ loading' = (site \in Online)
     /\ replies' = Searches(track) \cup (IF site \in Online THEN {Try(site)} ELSE {})
  /\ hasLyrics' = FALSE /\ candidates' = {}
  /\ unanswered' = FALSE
  /\ UNCHANGED <<shown, selected, prefs>>

\* Faulty variant of LoadTrack: the last track's offset stays.
LoadKeepingOffset == track # NoTrack /\ UNCHANGED offset /\ (LoadSaved \/ LoadLocal \/ LoadOnline)

LoadTrack ==
  /\ track # NoTrack
  /\ offset' = saved[track].offset
  /\ LoadSaved \/ LoadLocal \/ LoadOnline

DoLoad ==
  /\ scheduled /\ scheduled' = FALSE
  /\ LoadNothing \/ LoadTrack
  /\ chosen' = FALSE
  /\ UNCHANGED <<track, preferred, cached, inputs>>

----------------------------------------------------------------------------
(* Replies.                                                                 *)

Answers(kind, r) ==
  /\ r \in replies /\ r.kind = kind
  /\ UNCHANGED <<track, scheduled, preferred, offset, history, inputs>>

\* The callbacks of searchLrclibCandidates and searchNetEaseCandidates.
SearchAnswered(r) ==
  /\ Answers("search", r) /\ replies' = replies \ {r}
  /\ candidates' \in {candidates, candidates \cup {Found(r)}}
  /\ UNCHANGED <<backend, loading, hasLyrics, shown, selected, prefs, cached>>

\* tryLrclib's callback, with lyrics.
LrclibFound(r) ==
  /\ Answers("try", r) /\ r.site = "LRCLIB" /\ replies' = replies \ {r}
  /\ cached' = cached \cup {Found(r)}
  /\ Show(Found(r)) /\ backend' = "LRCLIB"
  /\ candidates' = candidates \cup {Found(r)} /\ selected' = Found(r)
  /\ Persist(offset, Found(r))
  /\ loading' = FALSE

\* tryNetEase's callback, with a song that matches; a search for nothing finds none.
NetEaseFound(r) ==
  /\ Answers("try", r) /\ r.site = "NetEase" /\ r.of # NoTrack
  /\ replies' = (replies \ {r}) \cup {Fetch(Found(r))}
  /\ UNCHANGED <<display, prefs, cached>>

\* Faulty variant of TryFailed: a try that failed is the last.
TryForgotten(r) ==
  /\ Answers("try", r)
  /\ replies' = replies \ {r}
  /\ IF r.site = "LRCLIB" /\ preferred = "Auto"
     THEN backend' = "NetEase" /\ UNCHANGED loading
     ELSE loading' = FALSE /\ UNCHANGED backend
  /\ UNCHANGED <<hasLyrics, shown, candidates, selected, prefs, cached>>

\* Their callbacks with an error or nothing of use, and chainNext.
TryFailed(r) ==
  /\ Answers("try", r)
  /\ IF r.site = "LRCLIB" /\ preferred = "Auto"
     THEN /\ replies' = (replies \ {r}) \cup {Try("NetEase")}
          /\ backend' = "NetEase" /\ UNCHANGED loading
     ELSE /\ replies' = replies \ {r}
          /\ loading' = FALSE /\ UNCHANGED backend
  /\ UNCHANGED <<hasLyrics, shown, candidates, selected, prefs, cached>>

\* The callbacks of fetchLrclibById and fetchNetEaseLyricsById: lyrics, text without a
\* line of lyrics, an error.
Fetched(r) ==
  /\ Answers("fetch", r) /\ replies' = replies \ {r}
  /\ \/ /\ shown' = Found(r) /\ hasLyrics' \in BOOLEAN /\ backend' = r.site
        /\ cached' = IF hasLyrics' THEN cached \cup {Found(r)} ELSE cached \ {Found(r)}
     \/ UNCHANGED <<shown, hasLyrics, backend, cached>>
  /\ loading' = FALSE
  /\ UNCHANGED <<candidates, selected, prefs>>

----------------------------------------------------------------------------
Fresh ==
  /\ track' = NoTrack /\ scheduled' = FALSE /\ preferred' = "Auto" /\ backend' = "Auto"
  /\ candidates' = {} /\ selected' = NoCandidate /\ loading' = FALSE /\ hasLyrics' = FALSE
  /\ shown' = NoCandidate /\ offset' = 0 /\ replies' = {}
  /\ chosen' = FALSE /\ unanswered' = FALSE

\* The shell ends and starts again, with the preferences and the cache on disk.
Restart == Input /\ Fresh /\ UNCHANGED <<prefs, cached>>

Init ==
  /\ track = NoTrack /\ scheduled = FALSE /\ preferred = "Auto" /\ backend = "Auto"
  /\ candidates = {} /\ selected = NoCandidate /\ loading = FALSE /\ hasLyrics = FALSE
  /\ shown = NoCandidate /\ offset = 0 /\ replies = {}
  /\ saved = [t \in Tracks |-> [offset |-> 0, pick |-> NoCandidate]] /\ cached = {}
  /\ chosen = FALSE /\ unanswered = FALSE /\ misfiled = {} /\ inputs = 0

Next ==
  \/ \E t \in Tracks \cup {NoTrack} : SetTrack(t)
  \/ \E b \in Backends \cup {"Auto"} : SetPreferredBackend(b)
  \/ \E o \in Offsets : SetOffset(o)
  \/ \E c \in Pickable : Pick(c)
  \/ Refresh \/ ClearTrack \/ Restart \/ DoLoad
  \/ \E r \in replies : SearchAnswered(r) \/ LrclibFound(r) \/ NetEaseFound(r) \/ TryFailed(r) \/ Fetched(r)

Spec == Init /\ [][Next]_vars

----------------------------------------------------------------------------
(* Properties.                                                              *)

\* Only NetEase is ever asked about no track, by a chain that goes on.
Requests ==
  [kind : {"search", "try", "fetch"}, site : Online, of : Tracks, pending : BOOLEAN]
    \cup [kind : {"try"}, site : {"NetEase"}, of : {NoTrack}, pending : BOOLEAN]

TypeOK ==
  /\ track \in Tracks \cup {NoTrack} /\ scheduled \in BOOLEAN
  /\ preferred \in Backends \cup {"Auto"} /\ backend \in Backends \cup {"Auto"}
  /\ candidates \subseteq Candidates /\ selected \in Candidates \cup {NoCandidate}
  /\ loading \in BOOLEAN /\ hasLyrics \in BOOLEAN
  /\ shown \in Candidates \cup {NoCandidate} /\ offset \in Offsets
  /\ replies \subseteq Requests
  /\ saved \in [Tracks -> [offset : Offsets, pick : Candidates \cup {NoCandidate}]]
  /\ cached \subseteq Candidates
  /\ chosen \in BOOLEAN /\ unanswered \in BOOLEAN /\ misfiled \subseteq Tracks
  /\ inputs \in 0..MaxInputs

Settled == track # NoTrack /\ ~scheduled

\* Once a track's load has begun, only its lyrics are shown and only they can be picked:
\* replies of earlier tracks come too late, or were aborted, unless another's lyrics were
\* saved for the track.
OnlyThisTracks ==
  Settled /\ track \notin misfiled =>
    /\ hasLyrics => shown.of = track
    /\ \A c \in candidates : c.of = track

\* The spinner turns only while a reply is on its way that stops it, but for a load that
\* restored what was selected already.
LoadingIsAwaited == loading => unanswered \/ \E r \in replies : r.kind \in {"try", "fetch"}

\* The offset shown is the track's own, once its load has begun.
OffsetIsRemembered == Settled => offset = saved[track].offset

\* What a client picked is what comes to be shown, until the next load: a backend
\* that was being tried does not slip its lyrics in.
ChoiceStands == [][chosen /\ chosen' /\ shown' # shown => shown' = selected']_vars

\* lyrics.cpp:368: "Restore per-track prefs (offset, last-selected backend/id)".
PrefsArePerTrack == \A t \in Tracks : saved[t].pick # NoCandidate => saved[t].pick.of = t

=============================================================================
