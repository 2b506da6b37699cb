------------------------- MODULE PodcastResolution -------------------------
(***************************************************************************)
(* How the worker of PlatformRelay finds the episode of a podcast link.    *)
(* A link of Spotify, Apple or Deezer tells a show and a title, which are  *)
(* looked for in the candidate feeds of PodcastIndex, one call each; an    *)
(* RSS link is a feed, whose newest episode is meant.  The episode is      *)
(* written into the job, and its transcript, if the feed has one, is taken *)
(* by the guid that was found.                                             *)
(*                                                                         *)
(* Every failure ends in an exception of the worker, whatever its code and *)
(* whether or not it is marked retryable.                                  *)
(***************************************************************************)
EXTENDS PlatformRelay, Sequences, FiniteSets

CONSTANTS
    Links,          \* the links that may be submitted, see LinkKinds
    FeedCount,      \* feeds of the index, in the order of its search results
    Episodes,
    NewEpisode,     \* the episode an RSS feed may publish meanwhile
    NoEpisode,
    MaxAttempts     \* max_retries of a resolver

\* like: 3 the title asked for, 2 one within the other, 1 enough words in common, 0
\* other; guid: its item in the feed carries one; known: the index has it.
Entries == [id : Episodes, like : 0..3, audio : BOOLEAN, guid : BOOLEAN, known : BOOLEAN]
CatalogSources == {"spotify", "apple", "deezer"}

\* named: the link says which episode; byId: the index knows Apple's id of the first
\* entry; show: the feed of Apple's show id; feeds: newest episode first.
LinkKinds == [source : CatalogSources \cup {"rss"}, named : BOOLEAN, byId : BOOLEAN,
              show : 1..FeedCount, feeds : [1..FeedCount -> Seq(Entries)]]

ASSUME LinksAssumption ==
    /\ FeedCount \in Nat \ {0} /\ MaxAttempts \in Nat \ {0}
    /\ Links \subseteq LinkKinds
    /\ NewEpisode \in Episodes /\ NoEpisode \notin Episodes

VARIABLES
    link,
    grown,          \* the feed has published the new episode
    seek,           \* the resolver and its local variables
    answers,        \* the episodes that deliveries of the message recorded
    named,          \* media_url and title of the job
    carried,        \* the audio of each transcription message
    text            \* whose words the stored transcript is

seekVars == <<link, grown, seek, answers, named, carried, text>>

SeekSteps == {"meta", "direct", "show", "search", "feed", "enrich", "found",
              "transcript", "lost", "over"}

\* queue: candidate feeds to look into; missed: a lookup of this attempt failed;
\* guid: the episode whose guid was found; words: the episode of the transcript.
NoSeek == [pc |-> "meta", attempt |-> 1, queue |-> <<>>, missed |-> FALSE,
           held |-> NoEpisode, guid |-> NoEpisode, words |-> NoEpisode]

-----------------------------------------------------------------------------
(* Matching                                                                *)

First(S) == CHOOSE k \in S : \A j \in S : k <= j

\* Mutant of BestMatches: the first that is alike at all.
AnyMatches(entries) == {k \in DOMAIN entries : entries[k].known /\ entries[k].like > 0}

\* best_match_episode: equality before inclusion before overlap; the first of equals.
BestMatches(entries) ==
    {k \in DOMAIN entries :
        /\ entries[k].known /\ entries[k].like > 0
        /\ \A j \in DOMAIN entries : entries[j].known => entries[j].like <= entries[k].like}

\* _match_podcastindex_episode: the same audio, else the title, else any with audio.
EnrichmentMatches(entries, id) ==
    LET same == {k \in DOMAIN entries : entries[k].known /\ entries[k].id = id}
    IN CASE same # {} -> same
         [] BestMatches(entries) # {} -> BestMatches(entries)
         [] OTHER -> {k \in DOMAIN entries : entries[k].known /\ entries[k].audio}

\* _extract_rss_resolution_payload: the newest with audio.
Playable(entries) == {k \in DOMAIN entries : entries[k].audio}

-----------------------------------------------------------------------------
(* The resolver                                                            *)

SeekTo(pc) == seek' = [seek EXCEPT !.pc = pc]
Lose == SeekTo("lost")
Hold(entry, guid) == seek' = [seek EXCEPT !.pc = "found", !.held = entry.id, !.guid = guid]

\* A transient error starts the attempt over while there is one left.
Retry ==
    IF seek.attempt < MaxAttempts
    THEN seek' = [NoSeek EXCEPT !.attempt = seek.attempt + 1]
    ELSE Lose

\* _fetch_spotify_episode_metadata: invalid for good, an outage, or the titles.
SpotifyMetadata == link.source = "spotify" /\ (Lose \/ Retry \/ SeekTo("search"))

AppleMetadata == link.source = "apple" /\ (Lose \/ Retry \/ SeekTo("direct"))

\* An outage of Deezer is not retried: it leaves the resolver.
DeezerMetadata == link.source = "deezer" /\ (Lose \/ SeekTo("search"))

\* The newest episode with audio of the document; its own guid, if it has one.
RssDocument ==
    LET entries == link.feeds[1]
        entry == entries[First(Playable(entries))]
    IN /\ link.source = "rss"
       /\ \/ Lose \/ Retry
          \/ Playable(entries) # {} /\ seek' = [seek EXCEPT !.pc = "enrich", !.held = entry.id,
                        !.guid = IF entry.guid THEN entry.id ELSE NoEpisode]

\* A link to a show is refused before anything is asked.
ReadLink ==
    /\ seek.pc = "meta"
    /\ IF link.named THEN SpotifyMetadata \/ AppleMetadata \/ DeezerMetadata \/ RssDocument
       ELSE Lose

\* _try_direct_itunes_episode_lookup: anything but an episode with audio falls back.
\* The record tells no feed URL, hence no transcript.
DirectLookup ==
    LET entry == link.feeds[1][1] IN
    /\ seek.pc = "direct"
    /\ \/ link.byId /\ entry.audio /\ Hold(entry, NoEpisode)
       \/ ~(link.byId /\ entry.audio) /\ SeekTo("show")
       \/ seek' = [seek EXCEPT !.pc = "show", !.missed = TRUE]

\* podcasts/byitunesid puts the feed of the show first; a failure is passed over.
ShowLookup ==
    /\ seek.pc = "show"
    /\ \/ seek' = [seek EXCEPT !.pc = "search", !.queue = <<link.show>>]
       \/ seek' = [seek EXCEPT !.pc = "search", !.missed = TRUE]

\* The results of a search, and those without the feed that is looked into first.
Results == [f \in 1..FeedCount |-> f]
ResultsBut(first) == [f \in 1..(FeedCount - 1) |-> IF f < first THEN f ELSE f + 1]

\* search_podcasts; Apple's page may tell no show to search for.
SearchFeeds ==
    /\ seek.pc = "search"
    /\ \/ Lose \/ Retry
       \/ /\ seek.queue = <<>>
          /\ seek' = [seek EXCEPT !.pc = "feed", !.queue = Results]
       \/ /\ seek.queue # <<>>
          /\ seek' = [seek EXCEPT !.pc = "feed", !.queue = @ \o ResultsBut(Head(@))]
       \/ link.source = "apple" /\ seek' = [seek EXCEPT !.pc = "feed", !.missed = TRUE]

\* The best match ends the search, even when it has no audio.
Matched(entries) ==
    LET entry == entries[First(BestMatches(entries))]
    IN IF entry.audio THEN Hold(entry, entry.id) ELSE Lose

\* One candidate feed: a lookup that fails is passed over.
NextFeed ==
    /\ seek.pc = "feed" /\ seek.queue # <<>>
    /\ LET entries == link.feeds[Head(seek.queue)] IN
       \/ BestMatches(entries) # {} /\ Matched(entries)
       \/ BestMatches(entries) = {} /\ seek' = [seek EXCEPT !.queue = Tail(@)]
       \/ seek' = [seek EXCEPT !.queue = Tail(@), !.missed = TRUE]

\* No candidates, no match, or no feed could be read: the codes differ, the end does not.
NoFeedLeft == seek.pc = "feed" /\ seek.queue = <<>> /\ Lose

\* Mutant of MergedGuid: the guid of the index comes first.
IndexGuid(own, found) == found

\* _merge_rss_and_enrichment_metadata: only a guid that is missing.
MergedGuid(own, found) == IF own # NoEpisode THEN own ELSE found

\* _try_podcastindex_enrichment: it may fail at any call, and nothing depends on it.
Enrich ==
    LET entries == link.feeds[1]
        matches == EnrichmentMatches(entries, seek.held)
    IN /\ seek.pc = "enrich"
       /\ \/ SeekTo("found")
          \/ /\ matches # {}
             /\ seek' = [seek EXCEPT !.pc = "found",
                            !.guid = MergedGuid(@, entries[First(matches)].id)]

Seeks == ReadLink \/ DirectLookup \/ ShowLookup \/ SearchFeeds \/ NextFeed \/ NoFeedLeft \/ Enrich

-----------------------------------------------------------------------------
(* The worker                                                              *)

Seeking(m, pc) == At(m, "extracting") /\ platform = "podcast" /\ seek.pc = pc
NotTheEpisode == UNCHANGED <<link, grown, answers, named, carried, text>>
Forget == seek' = NoSeek

\* The job is read, with the episode an earlier delivery wrote.
ReceiveLink(m) ==
    /\ Receive(m)
    /\ seek' = [NoSeek EXCEPT !.held = named]
    /\ NotTheEpisode

Seek(m) ==
    /\ Seeking(m, seek.pc) /\ Seeks
    /\ NotTheEpisode
    /\ UNCHANGED <<quotaVars, relayVars>>

\* process_message, once the episode is known: the job is written as it was read.
RecordEpisode(m) ==
    /\ Seeking(m, "found")
    /\ job' = Snap(m) /\ named' = seek.held /\ answers' = answers \cup {seek.held}
    /\ SeekTo("transcript")
    /\ UNCHANGED <<quotaVars, platform, stored, apify, messages, dispatches, announced,
                   link, grown, carried, text>>

\* _find_transcript_element: an item of the feed that carries the guid.
HasItem(guid) ==
    \E f \in 1..FeedCount : \E k \in DOMAIN link.feeds[f] :
        link.feeds[f][k].id = guid /\ link.feeds[f][k].guid

\* The transcript of the item with that guid, or none that is usable.
FetchTranscript(m) ==
    /\ Seeking(m, "transcript")
    /\ ResolvePodcast(m)
    /\ messages'[m].phase = "storing" => HasItem(seek.guid)
    /\ seek' = [seek EXCEPT !.pc = "over",
                            !.words = IF messages'[m].phase = "storing" THEN seek.guid
                                      ELSE NoEpisode]
    /\ NotTheEpisode

\* _resolve_audio_url raises, whatever the outcome says of a retry.
LoseLink(m) ==
    /\ Seeking(m, "lost")
    /\ To(m, Again(m))
    /\ Forget /\ NotTheEpisode
    /\ UNCHANGED <<quotaVars, platform, job, stored, apify, dispatches, announced>>

\* What the other steps do with the episode: the job is written as it is held, the
\* text stored is that of the item, the audio goes along with its message.
PodcastStep(m) ==
    \/ ReceiveLink(m) \/ Seek(m) \/ RecordEpisode(m) \/ FetchTranscript(m) \/ LoseLink(m)
    \/ /\ MarkExtracting(m) \/ EndRelay(m)
       /\ named' = seek.held
       /\ UNCHANGED <<link, grown, seek, answers, carried, text>>
    \/ /\ StoreText(m) /\ text' = seek.words
       /\ UNCHANGED <<link, grown, seek, answers, named, carried>>
    \/ PassGate(m) /\ UNCHANGED seek /\ NotTheEpisode
    \/ Publish(m) /\ Forget /\ NotTheEpisode
    \/ /\ RefuseByQuota(m) /\ named' = seek.held
       /\ Forget /\ UNCHANGED <<link, grown, answers, carried, text>>
    \/ /\ Dispatch(m) /\ Forget
       /\ carried' = [d \in Dispatches |->
                         IF dispatches'[d] # dispatches[d] THEN seek.held ELSE carried[d]]
       /\ UNCHANGED <<link, grown, answers, named, text>>

PodcastTranscribed(d) ==
    /\ FinishTranscription(d) /\ text' = carried[d]
    /\ UNCHANGED <<link, grown, seek, answers, named, carried>>

WorkerFails(m) ==
    /\ WorkerRaises(m) \/ WorkerKilled(m)
    /\ Forget /\ NotTheEpisode

\* The feed publishes between two reads of it; its items are of one habit.
FeedGrows ==
    /\ platform = "podcast" /\ link.source = "rss" /\ ~grown
    /\ grown' = TRUE
    /\ \E guid \in BOOLEAN :
          /\ link.feeds[1] # <<>> => guid = link.feeds[1][1].guid
          /\ link' = [link EXCEPT !.feeds[1] =
                <<[id |-> NewEpisode, like |-> 0, audio |-> TRUE, guid |-> guid, known |-> FALSE]>> \o @]
    /\ UNCHANGED <<quotaVars, relayVars, seek, answers, named, carried, text>>

-----------------------------------------------------------------------------
(* Specification                                                           *)

WorkersInit ==
    /\ Init
    /\ link \in IF platform = "podcast" THEN Links ELSE Any(Links)
    /\ grown = FALSE
    /\ seek = NoSeek
    /\ answers = {} /\ named = NoEpisode /\ text = NoEpisode
    /\ carried = [d \in Dispatches |-> NoEpisode]

WorkerStep(m) ==
    IF platform = "podcast" THEN PodcastStep(m) ELSE MessageStep(m) /\ UNCHANGED seekVars

TranscriberStep(d) ==
    \/ platform = "podcast" /\ PodcastTranscribed(d)
    \/ platform # "podcast" /\ FinishTranscription(d) /\ UNCHANGED seekVars
    \/ (Transcribe(d) \/ SettleMinutes(d)) /\ UNCHANGED seekVars

WorkersNext ==
    \/ \E m \in Messages : WorkerStep(m) \/ WorkerFails(m)
    \/ \E d \in Dispatches : TranscriberStep(d) \/ (TranscriptionRaises(d) /\ UNCHANGED seekVars)
    \/ (\E r \in Runs : RunEnds(r) \/ Webhook(r)) /\ UNCHANGED seekVars
    \/ LeaseExpires /\ UNCHANGED seekVars
    \/ FeedGrows

workersVars == <<vars, seekVars>>
WorkersSpec == WorkersInit /\ [][WorkersNext]_workersVars

\* The fairness of LiveSpec, with the resolver taken apart.
WorkersLiveSpec ==
    /\ WorkersSpec
    /\ \A m \in Messages : WF_workersVars(WorkerStep(m))
    /\ \A d \in Dispatches : WF_workersVars(TranscriberStep(d))

-----------------------------------------------------------------------------
(* Properties                                                              *)

\* The candidate feeds when nothing fails.
Candidates ==
    IF link.source = "apple" THEN <<link.show>> \o ResultsBut(link.show) ELSE Results

\* The episode of a link: of the first candidate feed with a match at all, an episode
\* no other of that feed is more alike.
Meant(id) ==
    \E c \in DOMAIN Candidates :
        LET entries == link.feeds[Candidates[c]] IN
        /\ \A b \in 1..(c - 1) : \A k \in DOMAIN link.feeds[Candidates[b]] :
              link.feeds[Candidates[b]][k].like = 0
        /\ \E k \in DOMAIN entries :
              /\ entries[k].id = id /\ entries[k].audio /\ entries[k].like > 0
              /\ \A j \in DOMAIN entries : entries[j].like <= entries[k].like

\* Retries and fallbacks never change the episode: in an attempt in which every lookup
\* answered, the resolver finds the episode of Apple's id, or the one the link means,
\* and none when that one has no audio.
FindsWhatIsMeant ==
    platform = "podcast" /\ seek.pc = "found" /\ link.source # "rss" /\ ~seek.missed =>
        \/ link.source = "apple" /\ link.byId /\ seek.held = link.feeds[1][1].id
        \/ Meant(seek.held)

\* A completed podcast job has the text of the episode it names, whichever delivery wrote
\* either, as long as all found the same one and the items of the feed carry guids.
TextIsOfTheEpisode ==
    platform = "podcast" /\ job.status = "completed" /\ Cardinality(answers) <= 1
        /\ (\A f \in 1..FeedCount : \A k \in DOMAIN link.feeds[f] : link.feeds[f][k].guid)
            => text = named
=============================================================================
