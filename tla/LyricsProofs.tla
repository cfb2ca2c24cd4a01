---------------------------- MODULE LyricsProofs ----------------------------
(***************************************************************************)
(* Proofs about Lyrics, for any tracks, offsets and clients.                *)
(***************************************************************************)
EXTENDS Lyrics, TLAPS

(* Type correctness.                                                        *)

Entries == [offset : Offsets, pick : Candidates \cup {NoCandidate}]

LEMMA Asked ==
  ASSUME NEW t \in Tracks, NEW site \in Online, NEW kind \in {"search", "try", "fetch"}
  PROVE  Reply(kind, site, t) \in Requests
BY DEF Reply, Requests

LEMMA SearchesAsked == ASSUME NEW t \in Tracks PROVE Searches(t) \subseteq Requests
BY Asked DEF Searches, Online

LEMMA TryAsked ==
  ASSUME track \in Tracks \cup {NoTrack}
  PROVE  /\ Try("NetEase") \in Requests
         /\ [Try("NetEase") EXCEPT !.pending = FALSE] \in Requests
         /\ track \in Tracks => \A site \in Online : Try(site) \in Requests
BY Asked DEF Try, Reply, Requests, Online

LEMMA FoundTypes ==
  ASSUME NEW r \in Requests, r.kind = "try" /\ r.site = "NetEase" => r.of # NoTrack
  PROVE  Found(r) \in Candidates
BY LyricsAssumption DEF Found, Requests, Candidates, Backends

LEMMA FetchAsked ==
  ASSUME NEW c \in Candidates, c.backend \in Online
  PROVE  Fetch(c) \in Requests
BY Asked DEF Fetch, Candidates

LEMMA SurvivorsAsked ==
  ASSUME TypeOK PROVE Survivors \subseteq Requests
BY TryAsked DEF Survivors, TypeOK

LEMMA PersistTypes ==
  ASSUME TypeOK, NEW o \in Offsets, NEW c \in Candidates \cup {NoCandidate}, Persist(o, c)
  PROVE  saved' \in [Tracks -> Entries] /\ misfiled' \subseteq Tracks
<1>1. CASE track = NoTrack
  BY <1>1 DEF Persist, prefs, TypeOK, Entries
<1>2. CASE track # NoTrack
  <2>. DEFINE entry == [offset |-> o, pick |-> IF c = NoCandidate THEN saved[track].pick ELSE c]
  <2>1. track \in Tracks /\ entry \in Entries
    BY <1>2 DEF TypeOK, Entries
  <2>2. saved' = [saved EXCEPT ![track] = entry] /\ misfiled' \in {misfiled, misfiled \cup {track}}
    BY <1>2 DEF Persist
  <2>. HIDE DEF entry
  <2>. QED
    BY <2>1, <2>2 DEF TypeOK, Entries
<1>. QED
  BY <1>1, <1>2

\* What a picked or restored candidate leaves on display.
LEMMA TakeTypes ==
  ASSUME NEW c \in Candidates, shown \in Candidates \cup {NoCandidate},
         NEW m, m.backend \in Backends \cup {"Auto"}, m.hasLyrics \in BOOLEAN,
         m.loading \in BOOLEAN, m.replies \subseteq Requests, Take(c, m)
  PROVE  /\ selected' \in Candidates /\ shown' \in Candidates \cup {NoCandidate}
         /\ hasLyrics' \in BOOLEAN /\ loading' \in BOOLEAN
         /\ backend' \in Backends \cup {"Auto"} /\ replies' \subseteq Requests
BY FetchAsked DEF Take, Show, Candidates, Backends

LEMMA TypeInit == Init => TypeOK
<1>. SUFFICES ASSUME Init PROVE TypeOK
  OBVIOUS
<1>. USE LyricsAssumption
<1>1. saved \in [Tracks -> Entries] /\ inputs \in 0..MaxInputs
  BY DEF Init, Entries
<1>2. offset \in Offsets /\ replies \subseteq Requests /\ cached \subseteq Candidates
  BY DEF Init
<1>3. /\ track \in Tracks \cup {NoTrack} /\ candidates \subseteq Candidates
      /\ selected \in Candidates \cup {NoCandidate} /\ shown \in Candidates \cup {NoCandidate}
      /\ misfiled \subseteq Tracks
  BY DEF Init
<1>. QED
  BY <1>1, <1>2, <1>3 DEF Init, TypeOK, Entries

LEMMA TypeStep == TypeOK /\ [Next]_vars => TypeOK'
<1>. SUFFICES ASSUME TypeOK, [Next]_vars PROVE TypeOK'
  OBVIOUS
<1>. USE LyricsAssumption
<1>1. ASSUME NEW t \in Tracks \cup {NoTrack}, SetTrack(t) PROVE TypeOK'
  BY <1>1 DEF SetTrack, Input, TypeOK, display, prefs, history
<1>2. ASSUME NEW b \in Backends \cup {"Auto"}, SetPreferredBackend(b) PROVE TypeOK'
  BY <1>2 DEF SetPreferredBackend, Input, TypeOK, display, prefs, history
<1>3. ASSUME NEW o \in Offsets, SetOffset(o) PROVE TypeOK'
  <2>1. Persist(o, selected) /\ selected \in Candidates \cup {NoCandidate}
    BY <1>3 DEF SetOffset, TypeOK
  <2>2. saved' \in [Tracks -> Entries] /\ misfiled' \subseteq Tracks
    BY <2>1, PersistTypes
  <2>. QED
    BY <1>3, <2>2 DEF SetOffset, Input, TypeOK, display, history, Entries
<1>4. ASSUME NEW c \in Pickable, Pick(c) PROVE TypeOK'
  <2>. DEFINE m == [backend |-> IF Chains THEN "NetEase" ELSE c.backend, hasLyrics |-> hasLyrics,
                    loading |-> ~GivesUp, replies |-> {}]
  <2>1. c \in Candidates
    OBVIOUS
  <2>2. m.backend \in Backends \cup {"Auto"}
    BY <2>1 DEF Candidates, Backends, Online
  <2>3. m.hasLyrics \in BOOLEAN /\ m.loading \in BOOLEAN /\ m.replies \subseteq Requests
    BY DEF TypeOK
  <2>4. Take(c, m)
    BY <1>4 DEF Pick
  <2>. HIDE DEF m
  <2>5. shown \in Candidates \cup {NoCandidate}
    BY DEF TypeOK
  <2>6. /\ selected' \in Candidates /\ shown' \in Candidates \cup {NoCandidate}
        /\ hasLyrics' \in BOOLEAN /\ loading' \in BOOLEAN
        /\ backend' \in Backends \cup {"Auto"} /\ replies' \subseteq Requests
    BY <2>1, <2>2, <2>3, <2>4, <2>5, TakeTypes
  <2>7. saved' \in [Tracks -> Entries] /\ misfiled' \subseteq Tracks
    <3>1. Persist(offset, c) /\ offset \in Offsets
      BY <1>4 DEF Pick, TypeOK
    <3>. QED
      BY <2>1, <3>1, PersistTypes
  <2>. QED
    <3>1. inputs' \in 0..MaxInputs
      BY <1>4 DEF Pick, Input, TypeOK
    <3>2. chosen' \in BOOLEAN /\ unanswered' \in BOOLEAN
      BY <1>4 DEF Pick
    <3>3. UNCHANGED <<track, scheduled, preferred, candidates, offset, cached>>
      BY <1>4 DEF Pick
    <3>. QED
      BY <2>6, <2>7, <3>1, <3>2, <3>3 DEF TypeOK, Entries
<1>5. CASE Refresh
  BY <1>5 DEF Refresh, Input, TypeOK, display, prefs, history
<1>6. CASE ClearTrack
  <2>1. replies' \subseteq Requests /\ backend' \in Backends \cup {"Auto"}
    BY <1>6, SurvivorsAsked DEF ClearTrack, TypeOK, Backends, Online
  <2>. QED
    <3>1. inputs' \in 0..MaxInputs
      BY <1>6 DEF ClearTrack, Input, TypeOK
    <3>2. /\ track' = NoTrack /\ candidates' = {} /\ hasLyrics' = FALSE /\ loading' = FALSE
          /\ chosen' = FALSE /\ unanswered' = FALSE
          /\ UNCHANGED <<scheduled, preferred, shown, selected, offset, prefs, cached>>
      BY <1>6 DEF ClearTrack
    <3>. QED
      BY <2>1, <3>1, <3>2 DEF TypeOK, prefs
<1>7. CASE Restart
  <2>1. offset' \in Offsets /\ inputs' \in 0..MaxInputs
    BY <1>7 DEF Restart, Fresh, Input, TypeOK
  <2>2. saved' \in [Tracks -> Entries] /\ misfiled' \subseteq Tracks /\ cached' \subseteq Candidates
    BY <1>7 DEF Restart, TypeOK, prefs, Entries
  <2>. QED
    BY <1>7, <2>1, <2>2 DEF Restart, Fresh, TypeOK, Entries
<1>8. CASE DoLoad
  <2>1. CASE LoadNothing
    BY <1>8, <2>1 DEF DoLoad, LoadNothing, TypeOK, prefs
  <2>2. CASE LoadTrack
    <3>1. track \in Tracks /\ offset' = saved[track].offset /\ offset' \in Offsets
      BY <2>2 DEF LoadTrack, TypeOK
    <3>2. Restored \in Candidates \cup {NoCandidate}
      BY <3>1 DEF Restored, TypeOK
    <3>3. Searches(track) \subseteq Requests
      BY <3>1, SearchesAsked
    <3>4. CASE LoadSaved
      <4>1. CASE Restored = selected
        BY <1>8, <2>2, <3>1, <3>3, <3>4, <4>1
           DEF DoLoad, LoadSaved, Chained, TypeOK, prefs, Backends, Online
      <4>2. CASE Restored # selected
        <5>. DEFINE m == [backend |-> Restored.backend, hasLyrics |-> FALSE, loading |-> TRUE,
                          replies |-> {}]
        <5>1. Restored \in Candidates
          BY <3>2, <3>4 DEF LoadSaved
        <5>2. m.backend \in Backends \cup {"Auto"} /\ m.hasLyrics \in BOOLEAN
              /\ m.loading \in BOOLEAN /\ m.replies \subseteq Requests
          BY <5>1 DEF Candidates
        <5>3. Take(Restored, m)
          BY <3>4, <4>2 DEF LoadSaved
        <5>. HIDE DEF m
        <5>4. shown \in Candidates \cup {NoCandidate}
          BY DEF TypeOK
        <5>5. /\ selected' \in Candidates /\ shown' \in Candidates \cup {NoCandidate}
              /\ hasLyrics' \in BOOLEAN /\ loading' \in BOOLEAN
              /\ backend' \in Backends \cup {"Auto"} /\ replies' \subseteq Requests
          BY <5>1, <5>2, <5>3, <5>4, TakeTypes
        <5>. QED
          BY <1>8, <3>1, <3>4, <5>5 DEF DoLoad, LoadSaved, TypeOK, prefs
      <4>. QED
        BY <4>1, <4>2
    <3>5. CASE LoadLocal
      <4>1. LocalLyrics \in Candidates
        BY <3>1 DEF LocalLyrics, Candidates, Backends
      <4>2. saved' \in [Tracks -> Entries] /\ misfiled' \subseteq Tracks
        BY <3>1, <3>5, <4>1, PersistTypes DEF LoadLocal
      <4>. QED
        BY <1>8, <3>1, <3>3, <3>5, <4>1, <4>2 DEF DoLoad, LoadLocal, Show, TypeOK, Entries, Backends
    <3>6. CASE LoadOnline
      <4>1. \A site \in Online : Try(site) \in Requests
        BY <3>1, TryAsked
      <4>2. replies' \subseteq Requests
        BY <3>3, <3>6, <4>1 DEF LoadOnline
      <4>3. backend' \in Backends \cup {"Auto"} /\ loading' \in BOOLEAN
        BY <3>6 DEF LoadOnline, TypeOK, Backends, Online
      <4>. QED
        BY <1>8, <3>1, <3>6, <4>2, <4>3 DEF DoLoad, LoadOnline, TypeOK, prefs
    <3>. QED
      BY <2>2, <3>4, <3>5, <3>6 DEF LoadTrack
  <2>. QED
    BY <1>8, <2>1, <2>2 DEF DoLoad
<1>9. ASSUME NEW r \in replies, SearchAnswered(r) PROVE TypeOK'
  <2>1. Found(r) \in Candidates
    BY <1>9, FoundTypes DEF SearchAnswered, Answers, TypeOK
  <2>. QED
    BY <1>9, <2>1 DEF SearchAnswered, Answers, TypeOK, prefs, history
<1>10. ASSUME NEW r \in replies, LrclibFound(r) PROVE TypeOK'
  <2>1. Found(r) \in Candidates
    BY <1>10, FoundTypes DEF LrclibFound, Answers, TypeOK
  <2>2. saved' \in [Tracks -> Entries] /\ misfiled' \subseteq Tracks
    <3>1. Persist(offset, Found(r)) /\ offset \in Offsets
      BY <1>10 DEF LrclibFound, TypeOK
    <3>. QED
      BY <2>1, <3>1, PersistTypes
  <2>. QED
    BY <1>10, <2>1, <2>2 DEF LrclibFound, Answers, Show, TypeOK, Entries, history, Backends, Online
<1>11. ASSUME NEW r \in replies, NetEaseFound(r) PROVE TypeOK'
  <2>1. Found(r) \in Candidates
    BY <1>11, FoundTypes DEF NetEaseFound, TypeOK
  <2>2. Fetch(Found(r)) \in Requests
    BY <1>11, <2>1, FetchAsked DEF NetEaseFound, Found, Online
  <2>. QED
    BY <1>11, <2>2 DEF NetEaseFound, Answers, TypeOK, display, prefs, history
<1>12. ASSUME NEW r \in replies, TryFailed(r) PROVE TypeOK'
  <2>1. Try("NetEase") \in Requests
    BY TryAsked DEF TypeOK
  <2>2. replies' \subseteq Requests /\ backend' \in Backends \cup {"Auto"} /\ loading' \in BOOLEAN
    BY <1>12, <2>1 DEF TryFailed, TypeOK, Backends, Online
  <2>. QED
    BY <1>12, <2>2 DEF TryFailed, Answers, TypeOK, prefs, history
<1>13. ASSUME NEW r \in replies, Fetched(r) PROVE TypeOK'
  <2>1. Found(r) \in Candidates /\ r.site \in Backends
    BY <1>13, FoundTypes DEF Fetched, Answers, TypeOK, Requests, Backends, Online
  <2>. QED
    BY <1>13, <2>1 DEF Fetched, Answers, TypeOK, prefs, history
<1>14. CASE UNCHANGED vars
  BY <1>14 DEF vars, display, prefs, history, TypeOK
<1>. QED
  BY <1>1, <1>2, <1>3, <1>4, <1>5, <1>6, <1>7, <1>8, <1>9, <1>10, <1>11, <1>12, <1>13, <1>14 DEF Next

\* Every variable of the lyrics service keeps its type: no reply is kept for no track, but a
\* chain's, and nothing of one comes to be shown or saved.
THEOREM TypeCorrect == Spec => []TypeOK
BY TypeInit, TypeStep, PTL DEF Spec

(* The offset.                                                              *)

LEMMA PersistKeepsOffset ==
  ASSUME TypeOK, NEW o \in Offsets, NEW c, Persist(o, c), track \in Tracks
  PROVE  saved'[track].offset = o
BY LyricsAssumption DEF Persist, TypeOK

LEMMA OffsetStep == TypeOK /\ OffsetIsRemembered /\ [Next]_vars => OffsetIsRemembered'
<1>. SUFFICES ASSUME TypeOK, OffsetIsRemembered, [Next]_vars PROVE OffsetIsRemembered'
  OBVIOUS
<1>. USE LyricsAssumption
<1>1. ASSUME UNCHANGED <<offset, saved>>, UNCHANGED <<track, scheduled>> \/ ~Settled'
      PROVE  OffsetIsRemembered'
  BY <1>1 DEF OffsetIsRemembered, Settled
<1>2. ASSUME NEW o \in Offsets, NEW c, Persist(o, c), offset' = o, track' = track,
             track \in Tracks
      PROVE  OffsetIsRemembered'
  BY <1>2, PersistKeepsOffset DEF OffsetIsRemembered
<1>3. ASSUME NEW o \in Offsets, SetOffset(o) PROVE OffsetIsRemembered'
  <2>1. CASE track = NoTrack
    BY <1>3, <2>1 DEF SetOffset, OffsetIsRemembered, Settled
  <2>2. CASE track # NoTrack
    BY <1>2, <1>3, <2>2 DEF SetOffset, TypeOK
  <2>. QED
    BY <2>1, <2>2
<1>4. ASSUME NEW c \in Candidates, Persist(offset, c), UNCHANGED <<offset, track>>
      PROVE  OffsetIsRemembered'
  <2>1. CASE track = NoTrack
    BY <1>4, <2>1 DEF OffsetIsRemembered, Settled
  <2>2. CASE track # NoTrack
    BY <1>2, <1>4, <2>2 DEF TypeOK
  <2>. QED
    BY <2>1, <2>2
<1>5. CASE DoLoad
  <2>1. CASE LoadNothing
    BY <1>5, <2>1 DEF DoLoad, LoadNothing, OffsetIsRemembered, Settled
  <2>2. CASE LoadTrack
    <3>1. track \in Tracks /\ track' = track /\ offset' = saved[track].offset /\ offset' \in Offsets
      BY <1>5, <2>2 DEF DoLoad, LoadTrack, TypeOK
    <3>2. CASE LoadLocal
      BY <1>2, <3>1, <3>2 DEF LoadLocal
    <3>3. CASE LoadSaved \/ LoadOnline
      BY <3>1, <3>3 DEF LoadSaved, LoadOnline, prefs, OffsetIsRemembered
    <3>. QED
      BY <2>2, <3>2, <3>3 DEF LoadTrack
  <2>. QED
    BY <1>5, <2>1, <2>2 DEF DoLoad
<1>6. ASSUME NEW t \in Tracks \cup {NoTrack}, SetTrack(t) PROVE OffsetIsRemembered'
  BY <1>6 DEF SetTrack, OffsetIsRemembered, Settled
<1>7. ASSUME NEW b, SetPreferredBackend(b) PROVE OffsetIsRemembered'
  BY <1>7 DEF SetPreferredBackend, OffsetIsRemembered, Settled
<1>8. ASSUME Refresh \/ ClearTrack \/ Restart PROVE OffsetIsRemembered'
  BY <1>8 DEF Refresh, ClearTrack, Restart, Fresh, OffsetIsRemembered, Settled
<1>9. ASSUME NEW c \in Pickable, Pick(c) PROVE OffsetIsRemembered'
  BY <1>4, <1>9 DEF Pick
<1>10. ASSUME NEW r \in replies, LrclibFound(r) PROVE OffsetIsRemembered'
  <2>1. Found(r) \in Candidates
    BY <1>10, FoundTypes DEF LrclibFound, Answers, TypeOK
  <2>. QED
    BY <1>4, <1>10, <2>1 DEF LrclibFound, Answers
<1>11. ASSUME NEW r \in replies, SearchAnswered(r) \/ NetEaseFound(r) \/ TryFailed(r) \/ Fetched(r)
       PROVE OffsetIsRemembered'
  BY <1>1, <1>11 DEF SearchAnswered, NetEaseFound, TryFailed, Fetched, Answers, prefs
<1>12. CASE UNCHANGED vars
  BY <1>1, <1>12 DEF vars, prefs
<1>. QED
  BY <1>3, <1>5, <1>6, <1>7, <1>8, <1>9, <1>10, <1>11, <1>12 DEF Next

\* The offset shown is the one saved for the track, whatever arrived or was picked between
\* the change of track and its load.
THEOREM OffsetRemembered == Spec => []OffsetIsRemembered
<1>1. Init => OffsetIsRemembered
  BY DEF Init, OffsetIsRemembered, Settled
<1>. QED
  BY <1>1, TypeInit, TypeStep, OffsetStep, PTL DEF Spec

----------------------------------------------------------------------------
(* Loading.                                                                 *)

LEMMA LoadingStep == LoadingIsAwaited /\ [Next]_vars => LoadingIsAwaited'
<1>. SUFFICES ASSUME LoadingIsAwaited, [Next]_vars PROVE LoadingIsAwaited'
  OBVIOUS
<1>1. ASSUME UNCHANGED <<loading, unanswered, replies>> PROVE LoadingIsAwaited'
  BY <1>1 DEF LoadingIsAwaited
<1>2. ASSUME loading' = FALSE PROVE LoadingIsAwaited'
  BY <1>2 DEF LoadingIsAwaited
<1>3. ASSUME NEW r \in replies', r.kind \in {"try", "fetch"} PROVE LoadingIsAwaited'
  BY <1>3 DEF LoadingIsAwaited
<1>4. ASSUME NEW c, NEW m, Take(c, m) PROVE LoadingIsAwaited'
  <2>1. Fetch(c).kind = "fetch"
    BY DEF Fetch, Reply
  <2>. QED
    BY <1>2, <1>3, <1>4, <2>1 DEF Take
<1>5. \A site : Try(site).kind = "try"
  BY DEF Try, Reply
<1>6. ASSUME NEW t, SetTrack(t) PROVE LoadingIsAwaited'
  BY <1>1, <1>6 DEF SetTrack, display, history
<1>7. ASSUME NEW b, SetPreferredBackend(b) PROVE LoadingIsAwaited'
  BY <1>1, <1>7 DEF SetPreferredBackend, display, history
<1>8. ASSUME NEW o, SetOffset(o) PROVE LoadingIsAwaited'
  BY <1>1, <1>8 DEF SetOffset, display, history
<1>9. ASSUME NEW c, Pick(c) PROVE LoadingIsAwaited'
  BY <1>4, <1>9 DEF Pick
<1>10. CASE Refresh
  BY <1>1, <1>10 DEF Refresh, display, history
<1>11. CASE ClearTrack \/ Restart
  BY <1>2, <1>11 DEF ClearTrack, Restart, Fresh
<1>12. CASE DoLoad
  <2>1. CASE LoadNothing \/ LoadLocal
    BY <1>2, <2>1 DEF LoadNothing, LoadLocal
  <2>2. CASE LoadSaved
    <3>1. CASE Restored = selected
      BY <2>2, <3>1 DEF LoadSaved, LoadingIsAwaited
    <3>2. CASE Restored # selected
      BY <1>4, <2>2, <3>2 DEF LoadSaved
    <3>. QED
      BY <3>1, <3>2
  <2>3. CASE LoadOnline
    BY <1>2, <1>3, <1>5, <2>3 DEF LoadOnline, LoadingIsAwaited
  <2>. QED
    BY <1>12, <2>1, <2>2, <2>3 DEF DoLoad, LoadTrack
<1>13. ASSUME NEW r \in replies, SearchAnswered(r) PROVE LoadingIsAwaited'
  BY <1>13 DEF SearchAnswered, Answers, history, LoadingIsAwaited
<1>14. ASSUME NEW r \in replies, LrclibFound(r) \/ Fetched(r) PROVE LoadingIsAwaited'
  BY <1>2, <1>14 DEF LrclibFound, Fetched
<1>15. ASSUME NEW r \in replies, NetEaseFound(r) PROVE LoadingIsAwaited'
  <2>1. Fetch(Found(r)) \in replies' /\ Fetch(Found(r)).kind = "fetch"
    BY <1>15 DEF NetEaseFound, Fetch, Reply
  <2>. QED
    BY <1>3, <2>1
<1>16. ASSUME NEW r \in replies, TryFailed(r) PROVE LoadingIsAwaited'
  BY <1>2, <1>3, <1>5, <1>16 DEF TryFailed
<1>17. CASE UNCHANGED vars
  BY <1>1, <1>17 DEF vars, display, history
<1>. QED
  BY <1>6, <1>7, <1>8, <1>9, <1>10, <1>11, <1>12, <1>13, <1>14, <1>15, <1>16, <1>17 DEF Next

\* The spinner turns only while a reply that stops it is on its way, except after a load
\* that restored the selection it found.
THEOREM LoadingAwaited == Spec => []LoadingIsAwaited
<1>1. Init => LoadingIsAwaited
  BY DEF Init, LoadingIsAwaited
<1>. QED
  BY <1>1, LoadingStep, PTL DEF Spec

----------------------------------------------------------------------------
(* Only this track's lyrics.                                                *)

\* The strengthening: what is still to come is this track's as well, and so is what is
\* saved for a track that never got another's.
FiledRight == \A t \in Tracks \ misfiled : saved[t].pick # NoCandidate => saved[t].pick.of = t
OwnDisplay == (hasLyrics => shown.of = track) /\ \A c \in candidates : c.of = track
OwnReplies == \A r \in replies : r.of = track
OwnInv == FiledRight /\ (Settled /\ track \notin misfiled => OwnDisplay /\ OwnReplies)

LEMMA RepliesAsk ==
  /\ \A site, t : \A r \in Searches(t) : r.of = t
  /\ \A site : Try(site).of = track
  /\ \A c : Fetch(c).of = c.of
  /\ \A r : Found(r).of = r.of
BY DEF Searches, Try, Fetch, Found, Reply

LEMMA PersistFiles ==
  ASSUME TypeOK, FiledRight, NEW o \in Offsets, NEW c \in Candidates \cup {NoCandidate}, Persist(o, c)
  PROVE  FiledRight' /\ misfiled \subseteq misfiled'
<1>1. CASE track = NoTrack
  BY <1>1 DEF Persist, prefs, FiledRight
<1>2. CASE track # NoTrack
  <2>. DEFINE entry == [offset |-> o, pick |-> IF c = NoCandidate THEN saved[track].pick ELSE c]
  <2>1. track \in Tracks
    BY <1>2 DEF TypeOK
  <2>2. /\ saved' = [saved EXCEPT ![track] = entry]
        /\ misfiled' = IF entry.pick # NoCandidate /\ entry.pick.of # track
                       THEN misfiled \cup {track} ELSE misfiled
    BY <1>2 DEF Persist
  <2>. HIDE DEF entry
  <2>3. saved'[track] = entry /\ \A t \in Tracks \ {track} : saved'[t] = saved[t]
    BY <2>1, <2>2 DEF TypeOK
  <2>4. misfiled \subseteq misfiled'
    BY <2>2
  <2>5. ASSUME NEW t \in Tracks \ misfiled', saved'[t].pick # NoCandidate
        PROVE  saved'[t].pick.of = t
    <3>1. CASE t = track
      BY <2>2, <2>3, <2>5, <3>1
    <3>2. CASE t # track
      BY <2>3, <2>4, <2>5, <3>2 DEF FiledRight
    <3>. QED
      BY <3>1, <3>2
  <2>. QED
    BY <2>4, <2>5 DEF FiledRight
<1>. QED
  BY <1>1, <1>2

LEMMA PrefsFile == FiledRight /\ UNCHANGED prefs => FiledRight' /\ misfiled \subseteq misfiled'
BY DEF prefs, FiledRight

\* What is shown after a candidate of this track was picked or restored.
LEMMA TakeOwn ==
  ASSUME NEW c, NEW m, Take(c, m), UNCHANGED track, c.of = track,
         m.hasLyrics => shown.of = track, \A r \in m.replies : r.of = track
  PROVE  (hasLyrics' => shown'.of = track') /\ OwnReplies'
BY RepliesAsk DEF Take, Show, OwnReplies

LEMMA OwnStep == TypeOK /\ OwnInv /\ [Next]_vars => OwnInv'
<1>. SUFFICES ASSUME TypeOK, OwnInv, [Next]_vars PROVE OwnInv'
  OBVIOUS
<1>. USE LyricsAssumption
<1>. DEFINE Own == OwnDisplay /\ OwnReplies
            Filed == FiledRight' /\ misfiled \subseteq misfiled'
<1>1. ASSUME Filed, ~Settled' PROVE OwnInv'
  BY <1>1 DEF OwnInv
<1>2. ASSUME Filed, UNCHANGED <<track, scheduled>>, Settled /\ track \notin misfiled /\ Own => Own'
      PROVE  OwnInv'
  BY <1>2 DEF OwnInv, Settled
<1>3. FiledRight
  BY DEF OwnInv
<1>4. ASSUME NEW t, SetTrack(t) PROVE OwnInv'
  BY <1>1, <1>3, <1>4, PrefsFile DEF SetTrack, Settled
<1>5. ASSUME NEW b, SetPreferredBackend(b) PROVE OwnInv'
  BY <1>1, <1>3, <1>5, PrefsFile DEF SetPreferredBackend, Settled
<1>6. ASSUME NEW o \in Offsets, SetOffset(o) PROVE OwnInv'
  <2>1. Filed
    BY <1>3, <1>6, PersistFiles DEF SetOffset, TypeOK
  <2>. QED
    BY <1>2, <1>6, <2>1 DEF SetOffset, display, OwnDisplay, OwnReplies
<1>7. ASSUME NEW c \in Pickable, Pick(c) PROVE OwnInv'
  <2>1. Filed
    BY <1>3, <1>7, PersistFiles DEF Pick, TypeOK
  <2>2. ASSUME OwnDisplay PROVE Own'
    <3>. DEFINE m == [backend |-> IF Chains THEN "NetEase" ELSE c.backend, hasLyrics |-> hasLyrics,
                      loading |-> ~GivesUp, replies |-> {}]
    <3>1. Take(c, m) /\ UNCHANGED <<track, candidates>> /\ c.of = track
      BY <1>7, <2>2 DEF Pick, OwnDisplay
    <3>2. (m.hasLyrics => shown.of = track) /\ \A r \in m.replies : r.of = track
      BY <2>2 DEF OwnDisplay
    <3>. HIDE DEF m
    <3>3. (hasLyrics' => shown'.of = track') /\ OwnReplies'
      BY <3>1, <3>2, TakeOwn
    <3>. QED
      BY <2>2, <3>1, <3>3 DEF OwnDisplay
  <2>. QED
    BY <1>2, <1>7, <2>1, <2>2 DEF Pick
<1>8. CASE Refresh
  BY <1>1, <1>3, <1>8, PrefsFile DEF Refresh, Settled
<1>9. CASE ClearTrack
  BY <1>1, <1>3, <1>9, PrefsFile DEF ClearTrack, Settled
<1>10. CASE Restart
  BY <1>1, <1>3, <1>10, PrefsFile DEF Restart, Fresh, Settled
<1>11. CASE DoLoad
  <2>1. CASE LoadNothing
    BY <1>1, <1>3, <1>11, <2>1, PrefsFile DEF DoLoad, LoadNothing, Settled
  <2>2. CASE LoadTrack
    <3>1. track \in Tracks /\ track' = track /\ saved[track].offset \in Offsets
      BY <1>11, <2>2 DEF DoLoad, LoadTrack, TypeOK
    <3>2. CASE LoadSaved
      <4>1. Filed /\ misfiled' = misfiled
        BY <1>3, <3>2, PrefsFile DEF LoadSaved, prefs
      <4>2. ASSUME track \notin misfiled PROVE Own'
        <5>1. Restored.of = track
          BY <1>3, <3>1, <3>2, <4>2 DEF LoadSaved, Restored, FiledRight
        <5>2. CASE Restored = selected
          BY <3>1, <3>2, <5>2, RepliesAsk DEF LoadSaved, OwnDisplay, OwnReplies
        <5>3. CASE Restored # selected
          <6>. DEFINE m == [backend |-> Restored.backend, hasLyrics |-> FALSE, loading |-> TRUE,
                            replies |-> {}]
          <6>1. Take(Restored, m) /\ candidates' = {}
            BY <3>2, <5>3 DEF LoadSaved
          <6>2. ~m.hasLyrics /\ m.replies = {}
            OBVIOUS
          <6>. HIDE DEF m
          <6>3. (hasLyrics' => shown'.of = track') /\ OwnReplies'
            BY <3>1, <5>1, <6>1, <6>2, TakeOwn
          <6>. QED
            BY <6>1, <6>3 DEF OwnDisplay
        <5>. QED
          BY <5>2, <5>3
      <4>. QED
        BY <3>1, <4>1, <4>2 DEF OwnInv
    <3>3. CASE LoadLocal
      <4>1. LocalLyrics \in Candidates /\ LocalLyrics.of = track
        BY <3>1 DEF LocalLyrics, Candidates, Backends
      <4>2. Filed
        BY <1>3, <3>1, <3>3, <4>1, PersistFiles DEF LoadLocal
      <4>3. Own'
        BY <3>1, <3>3, <4>1, RepliesAsk DEF LoadLocal, Show, OwnDisplay, OwnReplies
      <4>. QED
        BY <4>2, <4>3 DEF OwnInv
    <3>4. CASE LoadOnline
      <4>1. Filed
        BY <1>3, <3>4, PrefsFile DEF LoadOnline
      <4>2. Own'
        BY <3>1, <3>4, RepliesAsk DEF LoadOnline, OwnDisplay, OwnReplies
      <4>. QED
        BY <4>1, <4>2 DEF OwnInv
    <3>. QED
      BY <2>2, <3>2, <3>3, <3>4 DEF LoadTrack
  <2>. QED
    BY <1>11, <2>1, <2>2 DEF DoLoad
<1>12. ASSUME NEW r \in replies, SearchAnswered(r) PROVE OwnInv'
  <2>1. Filed /\ UNCHANGED <<track, scheduled>>
    BY <1>3, <1>12, PrefsFile DEF SearchAnswered, Answers
  <2>2. Own => Own'
    BY <1>12, RepliesAsk DEF SearchAnswered, Answers, OwnDisplay, OwnReplies
  <2>. QED
    BY <1>2, <2>1, <2>2
<1>13. ASSUME NEW r \in replies, LrclibFound(r) PROVE OwnInv'
  <2>1. Found(r) \in Candidates
    BY <1>13, FoundTypes DEF LrclibFound, Answers, TypeOK
  <2>2. Filed /\ UNCHANGED <<track, scheduled>>
    <3>1. Persist(offset, Found(r)) /\ offset \in Offsets /\ UNCHANGED <<track, scheduled>>
      BY <1>13 DEF LrclibFound, Answers, TypeOK
    <3>. QED
      BY <1>3, <2>1, <3>1, PersistFiles
  <2>3. Own => Own'
    BY <1>13, RepliesAsk DEF LrclibFound, Answers, Show, OwnDisplay, OwnReplies
  <2>. QED
    BY <1>2, <2>2, <2>3
<1>14. ASSUME NEW r \in replies, NetEaseFound(r) PROVE OwnInv'
  <2>1. Filed /\ UNCHANGED <<track, scheduled>>
    BY <1>3, <1>14, PrefsFile DEF NetEaseFound, Answers
  <2>2. Own => Own'
    BY <1>14, RepliesAsk DEF NetEaseFound, Answers, display, OwnDisplay, OwnReplies
  <2>. QED
    BY <1>2, <2>1, <2>2
<1>15. ASSUME NEW r \in replies, TryFailed(r) PROVE OwnInv'
  <2>1. Filed /\ UNCHANGED <<track, scheduled>>
    BY <1>3, <1>15, PrefsFile DEF TryFailed, Answers
  <2>2. Own => Own'
    BY <1>15, RepliesAsk DEF TryFailed, Answers, OwnDisplay, OwnReplies
  <2>. QED
    BY <1>2, <2>1, <2>2
<1>16. ASSUME NEW r \in replies, Fetched(r) PROVE OwnInv'
  <2>1. Filed /\ UNCHANGED <<track, scheduled>>
    BY <1>3, <1>16, PrefsFile DEF Fetched, Answers
  <2>2. Own => Own'
    BY <1>16, RepliesAsk DEF Fetched, Answers, OwnDisplay, OwnReplies
  <2>. QED
    BY <1>2, <2>1, <2>2
<1>17. CASE UNCHANGED vars
  BY <1>17 DEF vars, display, prefs, OwnInv, FiledRight, Settled, OwnDisplay, OwnReplies
<1>. QED
  BY <1>4, <1>5, <1>6, <1>7, <1>8, <1>9, <1>10, <1>11, <1>12, <1>13, <1>14, <1>15, <1>16, <1>17
     DEF Next

\* Unless another's lyrics were saved for a track, only its own are shown and offered once
\* its load has begun, however late the replies of earlier tracks come.
THEOREM OnlyOwnLyrics == Spec => []OnlyThisTracks
<1>1. Init => OwnInv
  BY DEF Init, OwnInv, FiledRight, Settled
<1>2. OwnInv => OnlyThisTracks
  BY DEF OwnInv, OnlyThisTracks, OwnDisplay
<1>. QED
  BY <1>1, <1>2, TypeInit, TypeStep, OwnStep, PTL DEF Spec

----------------------------------------------------------------------------
(* A client's choice.                                                       *)

\* After a pick, nothing is on its way but the lyrics that were picked.
ChoiceInv == chosen => \A r \in replies : r.kind = "fetch" /\ Found(r) = selected

LEMMA ChoiceStep ==
  ASSUME ChoiceInv, [Next]_vars
  PROVE  /\ ChoiceInv'
         /\ chosen /\ chosen' /\ shown' # shown => shown' = selected'
<1>. DEFINE Stands == chosen /\ chosen' /\ shown' # shown => shown' = selected'
<1>1. ASSUME UNCHANGED <<chosen, replies, selected, shown>> PROVE ChoiceInv' /\ Stands
  BY <1>1 DEF ChoiceInv, Found
<1>2. ASSUME chosen' = FALSE PROVE ChoiceInv' /\ Stands
  BY <1>2 DEF ChoiceInv
<1>3. ASSUME NEW t, SetTrack(t) PROVE ChoiceInv' /\ Stands
  BY <1>1, <1>3 DEF SetTrack, display, history
<1>4. ASSUME NEW b, SetPreferredBackend(b) PROVE ChoiceInv' /\ Stands
  BY <1>1, <1>4 DEF SetPreferredBackend, display, history
<1>5. ASSUME NEW o, SetOffset(o) PROVE ChoiceInv' /\ Stands
  BY <1>1, <1>5 DEF SetOffset, display, history
<1>6. ASSUME NEW c \in Pickable, Pick(c) PROVE ChoiceInv' /\ Stands
  <2>1. c \in Candidates
    BY LyricsAssumption
  <2>2. Found(Fetch(c)) = c /\ Fetch(c).kind = "fetch"
    BY <2>1 DEF Found, Fetch, Reply, Candidates
  <2>3. selected' = c /\ replies' \subseteq {Fetch(c)} /\ (shown' = shown \/ shown' = c)
    BY <1>6 DEF Pick, Take, Show
  <2>. QED
    BY <2>2, <2>3 DEF ChoiceInv, Found
<1>7. CASE Refresh
  BY <1>1, <1>7 DEF Refresh, display, history
<1>8. CASE ClearTrack \/ Restart \/ DoLoad
  BY <1>2, <1>8 DEF ClearTrack, Restart, Fresh, DoLoad
<1>9. ASSUME NEW r \in replies,
             SearchAnswered(r) \/ LrclibFound(r) \/ NetEaseFound(r) \/ TryFailed(r)
      PROVE  ChoiceInv' /\ Stands
  <2>1. r.kind # "fetch" /\ chosen' = chosen
    BY <1>9 DEF SearchAnswered, LrclibFound, NetEaseFound, TryFailed, Answers, history
  <2>. QED
    BY <2>1 DEF ChoiceInv
<1>10. ASSUME NEW r \in replies, Fetched(r) PROVE ChoiceInv' /\ Stands
  <2>1. /\ replies' \subseteq replies /\ UNCHANGED <<chosen, selected>>
        /\ shown' \in {shown, Found(r)}
    BY <1>10 DEF Fetched, Answers, history
  <2>. QED
    BY <2>1 DEF ChoiceInv, Found
<1>11. CASE UNCHANGED vars
  BY <1>1, <1>11 DEF vars, display, history
<1>. QED
  BY <1>3, <1>4, <1>5, <1>6, <1>7, <1>8, <1>9, <1>10, <1>11 DEF Next

\* What a client picked is what comes to be shown, until the next load.
THEOREM ChoiceKept == Spec => ChoiceStands
<1>1. Init => ChoiceInv
  BY DEF Init, ChoiceInv
<1>2. ChoiceInv /\ [Next]_vars =>
        [chosen /\ chosen' /\ shown' # shown => shown' = selected']_vars
  BY ChoiceStep
<1>3. ChoiceInv /\ [Next]_vars => ChoiceInv'
  BY ChoiceStep
<1>. QED
  BY <1>1, <1>2, <1>3, PTL DEF Spec, ChoiceStands

=============================================================================
