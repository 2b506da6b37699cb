------------------------ MODULE PlatformRelay_proofs ------------------------
(***************************************************************************)
(* What the job of a platform queue costs and who continues its run, for   *)
(* every bill, every number of runs, messages and deliveries, and every    *)
(* place where a worker may raise or be killed.                            *)
(*                                                                         *)
(* Three of the promises do not survive every fault, and the theorems say  *)
(* which ones they exclude: a worker that is delivered again after it      *)
(* started its run writes the job back as it was before, a message that is *)
(* delivered again after it passed the gate passes it twice, and a worker  *)
(* that gives up behind the end of the job fails what was completed.       *)
(***************************************************************************)
EXTENDS PodcastResolution, FiniteSetTheorems, SequenceTheorems, WellFoundedInduction, TLAPS

Faults == RaisesAt \cup KilledAt

\* The ingestion is not delivered again once its run is persisted.
StartsOnce(p) == \A step \in {"arming", "marking"} : <<p, "ingest", step>> \notin Faults

\* A message that passed the gate is not delivered again.
SendsOnce(p) == \A kind \in {"ingest", "callback"} : <<p, kind, "dispatching">> \notin Faults

\* A callback does not give up before it looked at the run's claim.
ClaimsFirst(p) == <<p, "callback", "received">> \notin RaisesAt

-----------------------------------------------------------------------------
(* The invariant                                                           *)

DeliveriesAreLeft ==
    /\ \A m \in Messages : At(m, "queued") => messages[m].receives < MaxReceives
    /\ \A d \in Dispatches :
          dispatches[d].phase \in {"unsent", "queued"} => dispatches[d].receives < MaxReceives

Typed == TypeOK /\ DeliveriesAreLeft

Starting == {"starting", "persisting", "arming", "marking"}
Gating == {"handing", "gating", "dispatching"}
Sent(d) == dispatches[d].phase # "unsent"

\* Which platforms and which kinds of message come by a step.
FollowsRoute(m) ==
    LET kind == messages[m].kind
        phase == messages[m].phase
    IN  /\ kind = "ingest" /\ phase # "gone" => m = Ingest
        /\ kind # "ingest" => phase # "gone"
        /\ kind = "backstop" => phase \in {"queued", "received", "failing", "reporting"}
        /\ phase = "extracting" => kind = "ingest" /\ platform # "youtube"
        /\ phase = "claimed" => kind = "callback"
        /\ phase = "metering" => platform \in {"document", "images"}
        /\ phase = "charging" => platform = "youtube"
        /\ phase \in {"storing", "completing"} /\ kind = "ingest" => platform # "youtube"
        /\ phase \in Starting =>
              \/ kind = "ingest" /\ platform \in Instagram \cup {"tiktok", "youtube"}
              \/ kind = "callback" /\ platform = "youtube"
        /\ phase \in Gating =>
              \/ kind = "ingest" /\ platform \in {"podcast", "tiktok"}
              \/ kind = "callback" /\ platform = "reel"

RoutesAreFollowed == \A m \in Messages : FollowsRoute(m)

Used(r) == r \in Runs /\ apify[r].status # "unused"

\* Only runs that were started are held, and the run a worker is about to
\* persist is its own.
RunsAreHeld ==
    /\ job.run # NoRun => Used(job.run)
    /\ \A m \in Messages :
          /\ messages[m].kind = "callback" => Used(messages[m].run)
          /\ Snap(m).run # NoRun => Used(Snap(m).run)
          /\ At(m, "persisting") =>
                /\ Snap(m).run \notin {NoRun, job.run}
                /\ \A n \in Messages :
                      /\ messages[n].kind = "callback" => messages[n].run # Snap(m).run
                      /\ n # m => Snap(n).run # Snap(m).run

Fresh(p) == p # "youtube" /\ (p \in Instagram \cup {"tiktok"} => StartsOnce(p))

Persisted == {"gone", "arming", "marking"}
Over == Persisted \cup {"persisting", "failing", "reporting"}

\* While the ingestion may write the job as it read it, there is no run, so
\* nobody's claim is lost.
Precedes(m) ==
    /\ messages[m].kind = "ingest" /\ messages[m].phase \notin Persisted => job.run = NoRun
    /\ messages[m].kind = "ingest" /\ messages[m].phase \notin Over => messages[m].snap.run = NoRun
    /\ messages[m].kind = "callback" => job.run # NoRun
    /\ messages[m].kind = "callback" /\ messages[m].phase \in {"claimed", "handing", "gating"} =>
          messages[m].snap.run # NoRun
    /\ messages[m].kind = "callback" /\ messages[m].phase = "gating" =>
          messages[m].snap.state = "processed"

WritesPrecedeRuns == Fresh(platform) => \A m \in Messages : Precedes(m)

\* A run that a callback continues is not up for another claim.
ClaimsAreRespected(p) ==
    p \notin Instagram /\ ClaimsFirst(p) /\ (p = "tiktok" => StartsOnce(p))

ClaimIsKept(m) ==
    Continuing(m) /\ job.run = messages[m].run => job.state \notin {"waiting", "lapsed"}

ClaimIsSingle(m) ==
    \A n \in Messages :
        Continuing(m) /\ Continuing(n) /\ messages[m].run = messages[n].run => m = n

ClaimsHold == \A m \in Messages : ClaimIsKept(m) /\ ClaimIsSingle(m)

ContinuedIsClaimed == ClaimsAreRespected(platform) => ClaimsHold

\* What was announced as debited was debited, and what was settled is paid,
\* unless the write of the settlement was lost.
Paid == charged >= Billed \/ "settle" \in lost

DebitsAreCharged ==
    /\ "settle" \in tokens => charged >= Billed
    /\ \A m \in Messages : charged >= messages[m].debited
    /\ \A d \in Dispatches :
          /\ charged >= dispatches[d].debited
          /\ dispatches[d].phase \in {"settled", "done"} /\ ~dispatches[d].free => Paid

\* The platforms that hand audio to be transcribed.
Spoken == {"podcast", "tiktok", "reel"}

GateIsSure(p) == p \in Spoken /\ SendsOnce(p) /\ (p = "reel" => StartsOnce(p))

\* The gate's debit was tried, and the write was applied or lost.
Debited == "gate" \in tokens \cup lost

\* No message comes to the gate after one was debited there.
GateIsPassedOnce ==
    GateIsSure(platform) =>
        /\ \A m, n \in Messages : At(m, "gating") /\ At(n, "gating") => m = n
        /\ Debited => \A m \in Messages : ~At(m, "gating")
        /\ platform # "reel" /\ Debited =>
              \A m \in Messages :
                  messages[m].kind = "ingest" => messages[m].phase \in {"gone", "dispatching"}
        /\ platform = "reel" /\ (Debited \/ \E m \in Messages : At(m, "gating")) =>
              job.run # NoRun /\ job.state = "processed"

Larger == IF Billed > GateMinutes THEN Billed ELSE GateMinutes

\* What the gate told, and what it charged without telling.
Told == IF "gate" \in tokens \ untold THEN GateMinutes ELSE 0
Silent == IF "gate" \in untold THEN GateMinutes ELSE 0

\* What passed the gate carries what was told there, and settles the rest.
GateIsSettled ==
    GateIsSure(platform) =>
        /\ \A m \in Messages :
              At(m, "dispatching") /\ ~messages[m].free => messages[m].debited = Told /\ Debited
        /\ \A d \in Dispatches :
              Sent(d) /\ ~dispatches[d].free => dispatches[d].debited = Told /\ Debited
        /\ "settle" \in tokens => Debited /\ charged <= Larger + Silent
        /\ "settle" \notin tokens /\ "gate" \in tokens => charged = GateMinutes

\* The others pay at most once, under the one token of the gate.  What was charged
\* in silence was charged.
OthersNeverSettle ==
    /\ tokens = {} => charged = 0
    /\ untold \subseteq tokens
    /\ platform \notin Spoken =>
          /\ \A d \in Dispatches : ~Sent(d)
          /\ "settle" \notin tokens
          /\ platform = "article" => tokens = {}
          /\ charged <= IF platform = "youtube" THEN Captions ELSE Pages

IInv ==
    /\ Typed
    /\ RoutesAreFollowed
    /\ RunsAreHeld
    /\ WritesPrecedeRuns
    /\ ContinuedIsClaimed
    /\ DebitsAreCharged
    /\ GateIsPassedOnce
    /\ GateIsSettled
    /\ OthersNeverSettle

-----------------------------------------------------------------------------
(* Moving a message                                                        *)

MessageRecords ==
    [kind : Kinds, run : Runs \cup {NoRun}, ok : BOOLEAN, phase : Phases,
     receives : 0 .. MaxReceives, snap : Jobs, debited : Nat, free : BOOLEAN]

DispatchRecords ==
    [phase : DispatchPhases, receives : 0 .. MaxReceives, debited : Nat, free : BOOLEAN]

\* A new message is one, and waits with all its deliveries left.
LEMMA NewMessages ==
    ASSUME NEW kind \in Kinds, NEW run \in Runs \cup {NoRun}, NEW ok \in BOOLEAN,
           NEW phase \in Phases
    PROVE  NewMessage(kind, run, ok, phase) \in MessageRecords
<1>1. NewJob \in Jobs
  BY DEF NewJob, Jobs, Statuses, States
<1>2. 0 \in 0 .. MaxReceives
  BY BoundsAssumption
<1>. QED  BY <1>1, <1>2 DEF NewMessage, MessageRecords

\* To changes one message: nothing is left of one that is gone, and of one that
\* waits again only what was sent and how often it was delivered.
LEMMA Going ==
    ASSUME Typed, NEW m \in Messages, NEW phase \in Phases, To(m, phase),
           phase = "queued" => messages[m].receives < MaxReceives
    PROVE  /\ messages' \in [Messages -> MessageRecords]
           /\ \A n \in Messages \ {m} : messages'[n] = messages[n]
           /\ \A n \in Messages :
                 messages'[n].phase = "queued" => messages'[n].receives < MaxReceives
           /\ messages'[m].phase = phase
           /\ phase = "gone" =>
                 /\ messages'[m].kind = "ingest" /\ messages'[m].run = NoRun
                 /\ messages'[m].snap = NewJob /\ messages'[m].debited = 0
           /\ phase # "gone" =>
                 /\ messages'[m].kind = messages[m].kind /\ messages'[m].run = messages[m].run
           /\ phase = "queued" => messages'[m].snap = NewJob /\ messages'[m].debited = 0
           /\ phase \notin {"gone", "queued"} =>
                 /\ messages'[m].snap = messages[m].snap
                 /\ messages'[m].debited = messages[m].debited
                 /\ messages'[m].free = messages[m].free
<1>0. messages \in [Messages -> MessageRecords]
  BY DEF Typed, TypeOK, MessageRecords
<1>1. /\ messages'[m] = Moved(messages[m], phase)
      /\ \A n \in Messages \ {m} : messages'[n] = messages[n]
      /\ DOMAIN messages' = Messages /\ messages' = [n \in Messages |-> messages'[n]]
  BY <1>0 DEF To
<1>2. CASE phase = "gone"
  <2>1. messages'[m] = NoMessage
    BY <1>1, <1>2 DEF Moved
  <2>2. NoMessage \in MessageRecords
    BY NewMessages DEF NoMessage, Kinds, Phases
  <2>3. /\ NoMessage.phase = "gone" /\ NoMessage.kind = "ingest" /\ NoMessage.run = NoRun
        /\ NoMessage.snap = NewJob /\ NoMessage.debited = 0
    BY DEF NoMessage, NewMessage
  <2>. HIDE DEF NoMessage
  <2>. QED
    BY <1>0, <1>1, <1>2, <2>1, <2>2, <2>3 DEF Typed, DeliveriesAreLeft, At
<1>3. CASE phase = "queued"
  <2>. DEFINE new == NewMessage(messages[m].kind, messages[m].run, messages[m].ok, "queued")
  <2>1. messages'[m] = [new EXCEPT !.receives = messages[m].receives]
    BY <1>1, <1>3 DEF Moved
  <2>2. /\ new \in MessageRecords /\ messages[m].receives \in 0 .. MaxReceives
        /\ new.kind = messages[m].kind /\ new.run = messages[m].run
        /\ new.snap = NewJob /\ new.debited = 0 /\ new.phase = "queued"
    BY <1>0, NewMessages DEF NewMessage, MessageRecords, Phases
  <2>. HIDE DEF new
  <2>3. /\ messages'[m] \in MessageRecords
        /\ messages'[m].kind = messages[m].kind /\ messages'[m].run = messages[m].run
        /\ messages'[m].snap = NewJob /\ messages'[m].debited = 0
        /\ messages'[m].phase = "queued" /\ messages'[m].receives = messages[m].receives
    BY <2>1, <2>2 DEF MessageRecords
  <2>. QED
    BY <1>0, <1>1, <1>3, <2>3 DEF Typed, DeliveriesAreLeft, At
<1>4. CASE phase \notin {"gone", "queued"}
  <2>1. messages'[m] = [messages[m] EXCEPT !.phase = phase]
    BY <1>1, <1>4 DEF Moved
  <2>. QED
    BY <1>0, <1>1, <1>4, <2>1 DEF MessageRecords, Typed, DeliveriesAreLeft, At
<1>. QED  BY <1>2, <1>3, <1>4

\* ToWith changes the phase and the job held.
LEMMA GoingWith ==
    ASSUME Typed, NEW m \in Messages, NEW phase \in Phases \ {"queued"}, NEW j \in Jobs,
           ToWith(m, phase, j)
    PROVE  /\ messages' \in [Messages -> MessageRecords]
           /\ \A n \in Messages \ {m} : messages'[n] = messages[n]
           /\ \A n \in Messages :
                 messages'[n].phase = "queued" => messages'[n].receives < MaxReceives
           /\ messages'[m].phase = phase /\ messages'[m].snap = j
           /\ messages'[m].kind = messages[m].kind /\ messages'[m].run = messages[m].run
           /\ messages'[m].debited = messages[m].debited
           /\ messages'[m].free = messages[m].free
<1>0. messages \in [Messages -> MessageRecords]
  BY DEF Typed, TypeOK, MessageRecords
<1>1. messages' = [messages EXCEPT ![m] = [@ EXCEPT !.phase = phase, !.snap = j]]
  BY <1>0 DEF ToWith, MessageRecords
<1>2. /\ messages'[m] = [messages[m] EXCEPT !.phase = phase, !.snap = j]
      /\ \A n \in Messages \ {m} : messages'[n] = messages[n]
      /\ messages' = [n \in Messages |-> messages'[n]]
  BY <1>0, <1>1
<1>3. /\ messages'[m] \in MessageRecords
      /\ messages'[m].phase = phase /\ messages'[m].snap = j
      /\ messages'[m].kind = messages[m].kind /\ messages'[m].run = messages[m].run
      /\ messages'[m].debited = messages[m].debited /\ messages'[m].free = messages[m].free
  BY <1>0, <1>2, ZenonT(60) DEF MessageRecords
<1>. QED  BY <1>0, <1>2, <1>3 DEF Typed, DeliveriesAreLeft, At

\* A message is sent into a place that was free.
LEMMA Sending ==
    ASSUME Typed, NEW n \in Messages, NEW msg \in MessageRecords,
           msg.phase = "queued" => msg.receives < MaxReceives,
           messages' = [messages EXCEPT ![n] = msg]
    PROVE  /\ messages' \in [Messages -> MessageRecords]
           /\ \A k \in Messages \ {n} : messages'[k] = messages[k]
           /\ messages'[n] = msg
           /\ \A k \in Messages :
                 messages'[k].phase = "queued" => messages'[k].receives < MaxReceives
<1>0. messages \in [Messages -> MessageRecords]
  BY DEF Typed, TypeOK, MessageRecords
<1>. QED  BY <1>0 DEF Typed, DeliveriesAreLeft, At
-----------------------------------------------------------------------------
(* The steps that write no job                                             *)

\* Where a worker takes its message without a word to the job.
Leads(m, phase) ==
    \/ phase = "gone"
    \/ /\ phase = "queued" /\ messages[m].receives < MaxReceives
       /\ <<platform, messages[m].kind, messages[m].phase>> \in Faults
    \/ /\ phase = "failing"
       /\ \/ <<platform, messages[m].kind, messages[m].phase>> \in RaisesAt
          \/ messages[m].phase \in {"extracting", "claimed", "starting"}
    \/ /\ phase = "storing"
       /\ At(m, "extracting") \/ (At(m, "claimed") /\ platform \in {"tiktok", "youtube"})
    \/ /\ phase = "metering"
       /\ \/ At(m, "extracting") /\ platform = "document"
          \/ At(m, "claimed") /\ platform = "images"
    \/ /\ phase = "handing"
       /\ \/ At(m, "extracting") /\ platform \in {"podcast", "tiktok"}
          \/ At(m, "claimed") /\ platform = "reel"
    \/ /\ phase = "starting"
       /\ \/ Is(m, "ingest", "received") /\ platform = "youtube"
          \/ At(m, "extracting") /\ platform \in Instagram \cup {"tiktok"}
          \/ At(m, "claimed") /\ platform = "youtube"
    \/ phase = "arming" /\ Is(m, "ingest", "starting") /\ Snap(m).run # NoRun
    \/ phase = "completing" /\ At(m, "storing")

Walk(m, phase) ==
    /\ phase \in Phases /\ Leads(m, phase)
    /\ To(m, phase)
    /\ stored' \in BOOLEAN /\ announced' \subseteq {"success", "failure"}
    /\ UNCHANGED <<quotaVars, platform, job, apify, dispatches>>

\* The actions that only walk, and the branches of the others that do.
Walks(m) ==
    \/ ExtractTikTok(m) \/ ResolveInstagram(m) \/ ResolvePodcast(m) \/ FetchArticle(m)
    \/ ParseDocument(m) \/ KeepRun(m) \/ RunRefused(m) \/ ReadTikTokTranscript(m)
    \/ ReadInstagramPost(m) \/ ReadYouTubeTranscript(m) \/ RunWasAborted(m) \/ StoreText(m)
    \/ Publish(m) \/ Report(m) \/ WorkerRaises(m) \/ WorkerKilled(m)
    \/ MarkExtracting(m) /\ platform = "youtube"
    \/ ClaimCallback(m) /\ ~MayClaim(job, messages[m].run)
    \/ EndRelay(m) /\ messages[m].kind = "callback" /\ ~MayComplete(job, Snap(m).run)
    \/ ExpireRun(m) /\ ~MayExpire(job, messages[m].run)

\* The others, and what is left of those.
Writes(m) ==
    \/ Receive(m)
    \/ MarkExtracting(m) /\ platform # "youtube"
    \/ ParseFails(m) \/ StartRun(m) \/ PersistRun(m) \/ ArmBackstop(m) \/ MarkArmed(m)
    \/ ClaimCallback(m) /\ MayClaim(job, messages[m].run)
    \/ MeterPages(m)
    \/ EndRelay(m) /\ (messages[m].kind # "callback" \/ MayComplete(job, Snap(m).run))
    \/ ChargeCaptions(m) \/ RefuseByQuota(m) \/ PassGate(m) \/ Dispatch(m)
    \/ ExpireRun(m) /\ MayExpire(job, messages[m].run)
    \/ GiveUp(m)

LEMMA WalksOrWrites ==
    ASSUME NEW m \in Messages, MessageStep(m) \/ WorkerRaises(m) \/ WorkerKilled(m)
    PROVE  Walks(m) \/ Writes(m)
  BY DEF MessageStep, Walks, Writes

LEMMA Walkers ==
    ASSUME Typed, NEW m \in Messages, Walks(m)
    PROVE  \E phase \in Phases : Walk(m, phase)
<1>. USE DEF Typed, TypeOK, Walk, Leads, Phases, Attempts, At, Is, Instagram
<1>1. ASSUME ExtractTikTok(m) PROVE \E phase \in Phases : Walk(m, phase)
  <2>1. PICK next \in {"storing", "handing", "starting", "failing"} : To(m, next)
    BY <1>1 DEF ExtractTikTok, Extracted
  <2>2. Walk(m, next)
    BY <1>1, <2>1 DEF ExtractTikTok, Extracted
  <2>. QED  BY <2>2
<1>2. ASSUME ResolveInstagram(m) PROVE \E phase \in Phases : Walk(m, phase)
  BY <1>2 DEF ResolveInstagram, Extracted
<1>3. ASSUME ResolvePodcast(m) PROVE \E phase \in Phases : Walk(m, phase)
  <2>1. PICK next \in {"storing", "handing"} : To(m, next)
    BY <1>3 DEF ResolvePodcast, Extracted
  <2>2. Walk(m, next)
    BY <1>3, <2>1 DEF ResolvePodcast, Extracted
  <2>. QED  BY <2>2
<1>4. ASSUME FetchArticle(m) PROVE \E phase \in Phases : Walk(m, phase)
  BY <1>4 DEF FetchArticle, Extracted
<1>5. ASSUME ParseDocument(m) PROVE \E phase \in Phases : Walk(m, phase)
  <2>1. PICK next \in {"metering"} : To(m, next)
    BY <1>5 DEF ParseDocument, Extracted
  <2>2. Walk(m, next)
    BY <1>5, <2>1 DEF ParseDocument, Extracted
  <2>. QED  BY <2>2
<1>6. ASSUME KeepRun(m) PROVE \E phase \in Phases : Walk(m, phase)
  <2>. DEFINE next == IF Snap(m).armed THEN "gone" ELSE "arming"
  <2>1. Walk(m, next)
    BY <1>6 DEF KeepRun
  <2>. QED  BY <2>1
<1>7. ASSUME RunRefused(m) PROVE \E phase \in Phases : Walk(m, phase)
  BY <1>7 DEF RunRefused, NeedsRun
<1>8. ASSUME ReadTikTokTranscript(m) PROVE \E phase \in Phases : Walk(m, phase)
  BY <1>8 DEF ReadTikTokTranscript, DatasetRead
<1>9. ASSUME ReadInstagramPost(m) PROVE \E phase \in Phases : Walk(m, phase)
  BY <1>9 DEF ReadInstagramPost, DatasetRead
<1>10. ASSUME ReadYouTubeTranscript(m) PROVE \E phase \in Phases : Walk(m, phase)
  <2>1. PICK next \in {"storing", "failing", "starting"} : To(m, next)
    BY <1>10 DEF ReadYouTubeTranscript, DatasetRead
  <2>2. Walk(m, next)
    BY <1>10, <2>1 DEF ReadYouTubeTranscript, DatasetRead
  <2>. QED  BY <2>2
<1>11. ASSUME RunWasAborted(m) PROVE \E phase \in Phases : Walk(m, phase)
  BY <1>11 DEF RunWasAborted, DatasetRead
<1>12. ASSUME StoreText(m) PROVE \E phase \in Phases : Walk(m, phase)
  BY <1>12 DEF StoreText
<1>13. ASSUME Publish(m) PROVE \E phase \in Phases : Walk(m, phase)
  BY <1>13 DEF Publish
<1>14. ASSUME Report(m) PROVE \E phase \in Phases : Walk(m, phase)
  BY <1>14 DEF Report
<1>15. ASSUME WorkerRaises(m) PROVE \E phase \in Phases : Walk(m, phase)
  <2>1. PICK next \in {"queued", "gone", "failing"} :
           To(m, next) /\ (next = "queued" => messages[m].receives < MaxReceives)
    BY <1>15 DEF WorkerRaises
  <2>2. Walk(m, next)
    BY <1>15, <2>1 DEF WorkerRaises, MayRaise, Faults
  <2>. QED  BY <2>2
<1>16. ASSUME WorkerKilled(m) PROVE \E phase \in Phases : Walk(m, phase)
  <2>1. PICK next \in {"queued", "gone"} :
           To(m, next) /\ (next = "queued" => messages[m].receives < MaxReceives)
    BY <1>16 DEF WorkerKilled, Again
  <2>2. Walk(m, next)
    BY <1>16, <2>1 DEF WorkerKilled, Faults
  <2>. QED  BY <2>2
<1>17. ASSUME MarkExtracting(m), platform = "youtube" PROVE \E phase \in Phases : Walk(m, phase)
  BY <1>17 DEF MarkExtracting
<1>18. ASSUME ClaimCallback(m), ~MayClaim(job, messages[m].run)
       PROVE  \E phase \in Phases : Walk(m, phase)
  BY <1>18 DEF ClaimCallback
<1>19. ASSUME EndRelay(m), messages[m].kind = "callback", ~MayComplete(job, Snap(m).run)
       PROVE  \E phase \in Phases : Walk(m, phase)
  BY <1>19 DEF EndRelay
<1>20. ASSUME ExpireRun(m), ~MayExpire(job, messages[m].run)
       PROVE  \E phase \in Phases : Walk(m, phase)
  BY <1>20 DEF ExpireRun
<1>. QED
  BY <1>1, <1>2, <1>3, <1>4, <1>5, <1>6, <1>7, <1>8, <1>9, <1>10, <1>11, <1>12, <1>13, <1>14,
     <1>15, <1>16, <1>17, <1>18, <1>19, <1>20 DEF Walks
-----------------------------------------------------------------------------
(* Types                                                                   *)

MessagesFit ==
    /\ messages' \in [Messages -> MessageRecords]
    /\ \A n \in Messages :
          messages'[n].phase = "queued" => messages'[n].receives < MaxReceives

DispatchesFit ==
    /\ dispatches' \in [Dispatches -> DispatchRecords]
    /\ \A d \in Dispatches :
          dispatches'[d].phase \in {"unsent", "queued"} => dispatches'[d].receives < MaxReceives

\* Types are kept when each variable that is written fits.
LEMMA Fitting ==
    ASSUME Typed, platform' = platform,
           MessagesFit \/ UNCHANGED messages, DispatchesFit \/ UNCHANGED dispatches,
           QuotaTypeOK' \/ UNCHANGED quotaVars, job' \in Jobs \/ UNCHANGED job,
           apify' \in [Runs -> [status : {"unused", "running", "succeeded", "aborted"},
                                calls : 0 .. Calls]]
              \/ UNCHANGED apify,
           stored' \in BOOLEAN \/ UNCHANGED stored,
           announced' \subseteq {"success", "failure"} \/ UNCHANGED announced
    PROVE  Typed'
<1>1. QuotaTypeOK' /\ platform' \in Platforms /\ job' \in Jobs /\ stored' \in BOOLEAN
      /\ announced' \subseteq {"success", "failure"}
  BY DEF Typed, TypeOK, QuotaTypeOK, quotaVars
<1>2. MessagesFit
  BY DEF MessagesFit, Typed, TypeOK, DeliveriesAreLeft, At, MessageRecords
<1>3. DispatchesFit
  BY DEF DispatchesFit, Typed, TypeOK, DeliveriesAreLeft, DispatchRecords
<1>4. apify' \in [Runs -> [status : {"unused", "running", "succeeded", "aborted"},
                           calls : 0 .. Calls]]
  BY DEF Typed, TypeOK
<1>5. TypeOK'
  BY <1>1, <1>2, <1>3, <1>4
     DEF TypeOK, MessagesFit, MessageRecords, DispatchesFit, DispatchRecords
<1>6. DeliveriesAreLeft'
  BY <1>2, <1>3 DEF MessagesFit, DispatchesFit, DeliveriesAreLeft, At
<1>. QED  BY <1>5, <1>6 DEF Typed

LEMMA HeldJobs == ASSUME Typed, NEW m \in Messages PROVE Snap(m) \in Jobs /\ job \in Jobs
  BY DEF Typed, TypeOK, Snap

\* The jobs that are written.
LEMMA WrittenJobs ==
    ASSUME NEW j \in Jobs
    PROVE  /\ \A status \in Statuses : [j EXCEPT !.status = status] \in Jobs
           /\ \A state \in States : [j EXCEPT !.state = state] \in Jobs
           /\ \A status \in Statuses, state \in States :
                 [j EXCEPT !.status = status, !.state = state] \in Jobs
           /\ [j EXCEPT !.armed = TRUE] \in Jobs
           /\ \A r \in Runs : WithRun(j, r) \in Jobs
  BY DEF Jobs, WithRun, States

\* The four outcomes of a debit: applied before, charged and told, lost, charged
\* and not told.
LEMMA Outcomes ==
    ASSUME NEW minutes, NEW token, NEW told, Debit(minutes, token, told)
    PROVE  \/ /\ token \in tokens /\ told = 0
              /\ lost' = lost \ {token} /\ UNCHANGED <<charged, tokens, untold>>
           \/ /\ token \notin tokens /\ told = minutes
              /\ charged' = charged + minutes /\ tokens' = tokens \cup {token}
              /\ lost' = lost \ {token} /\ untold' = untold
           \/ /\ token \notin tokens /\ told = 0
              /\ lost' = lost \cup {token} /\ UNCHANGED <<charged, tokens, untold>>
           \/ /\ token \notin tokens /\ told = 0
              /\ charged' = charged + minutes /\ tokens' = tokens \cup {token}
              /\ lost' = lost \ {token} /\ untold' = untold \cup {token}
<1>1. token \in tokens => tokens \cup {token} = tokens
  OBVIOUS
<1>. QED  BY <1>1 DEF Debit, Apply

\* A debit keeps the counter a number, never lowers it and changes no other token.
LEMMA Debits ==
    ASSUME QuotaTypeOK, NEW minutes \in Nat, NEW token \in Tokens,
           NEW told, Debit(minutes, token, told)
    PROVE  /\ QuotaTypeOK' /\ charged' >= charged
           /\ \A other \in Tokens \ {token} :
                 /\ (other \in tokens') <=> (other \in tokens)
                 /\ (other \in lost') <=> (other \in lost)
                 /\ (other \in untold') <=> (other \in untold)
           /\ token \in tokens \cup lost => token \in tokens' \cup lost'
           /\ untold \subseteq tokens => untold' \subseteq tokens'
  BY Outcomes DEF QuotaTypeOK

\* The same of a debit whose answer nobody reads.
LEMMA Charges ==
    ASSUME QuotaTypeOK, NEW minutes \in Nat, NEW token \in Tokens, Charge(minutes, token)
    PROVE  /\ QuotaTypeOK' /\ charged' >= charged
           /\ \A other \in Tokens \ {token} :
                 /\ (other \in tokens') <=> (other \in tokens)
                 /\ (other \in lost') <=> (other \in lost)
                 /\ (other \in untold') <=> (other \in untold)
           /\ untold \subseteq tokens => untold' \subseteq tokens'
<1>1. PICK told : Debit(minutes, token, told)
  BY DEF Charge
<1>. QED  BY <1>1, Debits

LEMMA GateIsPositive == GateMinutes \in Nat \ {0}
  BY QuotaAssumption DEF GateMinutes

LEMMA WalkTypes ==
    ASSUME Typed, NEW m \in Messages, NEW phase \in Phases, Walk(m, phase)
    PROVE  Typed'
<1>1. MessagesFit
  BY Going DEF Walk, Leads, MessagesFit
<1>. QED  BY <1>1, Fitting DEF Walk

LEMMA MessageTypes ==
    ASSUME Typed, RunsAreHeld, NEW m \in Messages, Walks(m) \/ Writes(m)
    PROVE  Typed'
<1>0. /\ messages \in [Messages -> MessageRecords] /\ messages[m] \in MessageRecords
      /\ Snap(m) \in Jobs /\ job \in Jobs /\ NewJob \in Jobs
  BY HeldJobs DEF Typed, TypeOK, MessageRecords, NewJob, Jobs, Statuses, States
<1>1. ASSUME Walks(m) PROVE Typed'
  BY <1>1, Walkers, WalkTypes
<1>2. ASSUME Receive(m) PROVE Typed'
  <2>. DEFINE new == [messages[m] EXCEPT !.phase = "received", !.snap = job, !.receives = @ + 1]
  <2>1. messages' = [messages EXCEPT ![m] = new]
    BY <1>0, <1>2 DEF Receive, MessageRecords
  <2>2. new \in MessageRecords
    <3>1. messages[m].receives + 1 \in 0 .. MaxReceives
      BY <1>0, <1>2, BoundsAssumption DEF Receive, Typed, DeliveriesAreLeft, At, MessageRecords
    <3>. QED  BY <1>0, <3>1 DEF MessageRecords, Phases, Attempts
  <2>3. new.phase = "received"
    BY <1>0 DEF MessageRecords
  <2>. HIDE DEF new
  <2>4. MessagesFit
    BY <2>1, <2>2, <2>3, Sending DEF MessagesFit
  <2>. QED  BY <1>2, <2>4, Fitting DEF Receive
<1>3. ASSUME MarkExtracting(m), platform # "youtube" PROVE Typed'
  <2>1. PICK j \in Jobs : ToWith(m, "extracting", j)
    BY <1>0, <1>3, WrittenJobs DEF MarkExtracting, Statuses
  <2>2. job' \in Jobs
    BY <1>0, <1>3, WrittenJobs DEF MarkExtracting, Statuses
  <2>3. MessagesFit
    BY <2>1, GoingWith DEF MessagesFit, Phases, Attempts
  <2>. QED  BY <1>3, <2>2, <2>3, Fitting DEF MarkExtracting
<1>4. ASSUME ParseFails(m) PROVE Typed'
  <2>1. MessagesFit
    BY <1>4, Going DEF ParseFails, Again, MessagesFit, Phases
  <2>2. job' \in Jobs
    BY <1>0, <1>4, WrittenJobs DEF ParseFails, Statuses
  <2>. QED  BY <1>4, <2>1, <2>2, Fitting DEF ParseFails
<1>5. ASSUME StartRun(m) PROVE Typed'
  <2>1. PICK r \in Runs : /\ apify' = [apify EXCEPT ![r].status = "running"]
                          /\ ToWith(m, "persisting", WithRun(Snap(m), r))
    BY <1>5 DEF StartRun, Any
  <2>2. MessagesFit
    BY <1>0, <2>1, GoingWith, WrittenJobs DEF MessagesFit, Phases, Attempts
  <2>3. apify' \in [Runs -> [status : {"unused", "running", "succeeded", "aborted"},
                             calls : 0 .. Calls]]
    BY <2>1 DEF Typed, TypeOK
  <2>. QED  BY <1>5, <2>2, <2>3, Fitting DEF StartRun
<1>6. ASSUME PersistRun(m) PROVE Typed'
  <2>1. MessagesFit
    BY <1>6, Going DEF PersistRun, MessagesFit, Phases, Attempts
  <2>2. job' \in Jobs
    BY <1>0, <1>6, WrittenJobs DEF PersistRun, Jobs, RunsAreHeld
  <2>. QED  BY <1>6, <2>1, <2>2, Fitting DEF PersistRun
<1>7. ASSUME ArmBackstop(m) PROVE Typed'
  <2>1. PICK n \in Messages : At(n, "gone") /\ messages' = WithBackstop(m, n)
    BY <1>7 DEF ArmBackstop, Free, Any
  <2>. DEFINE new == NewMessage("backstop", Snap(m).run, TRUE, "queued")
              armed == [messages[m] EXCEPT !.phase = "marking"]
  <2>2. new \in MessageRecords
    BY <1>0, NewMessages DEF Kinds, Phases, Jobs
  <2>3. new.phase = "queued" /\ new.receives = 0
    BY DEF NewMessage
  <2>4. armed \in MessageRecords /\ armed.phase = "marking"
    BY <1>0 DEF MessageRecords, Phases, Attempts
  <2>5. messages' = [k \in Messages |-> IF k = n THEN new ELSE IF k = m THEN armed
                                                               ELSE messages[k]]
    BY <1>0, <2>1 DEF WithBackstop
  <2>. HIDE DEF new, armed
  <2>6. MessagesFit
    BY <1>0, <2>2, <2>3, <2>4, <2>5, BoundsAssumption
       DEF MessagesFit, Typed, DeliveriesAreLeft, At
  <2>. QED  BY <1>7, <2>6, Fitting DEF ArmBackstop
<1>8. ASSUME MarkArmed(m) PROVE Typed'
  <2>1. MessagesFit
    BY <1>8, Going DEF MarkArmed, MessagesFit, Phases
  <2>2. job' \in Jobs
    BY <1>0, <1>8, WrittenJobs DEF MarkArmed
  <2>. QED  BY <1>8, <2>1, <2>2, Fitting DEF MarkArmed
<1>9. ASSUME ClaimCallback(m), MayClaim(job, messages[m].run) PROVE Typed'
  <2>1. job' \in Jobs /\ ToWith(m, "claimed", job')
    BY <1>0, <1>9, WrittenJobs DEF ClaimCallback, States
  <2>2. MessagesFit
    BY <2>1, GoingWith DEF MessagesFit, Phases, Attempts
  <2>. QED  BY <1>9, <2>1, <2>2, Fitting DEF ClaimCallback
<1>10. ASSUME MeterPages(m) PROVE Typed'
  <2>1. PICK next \in {"storing", "failing"} : To(m, next)
    BY <1>10 DEF MeterPages
  <2>2. MessagesFit
    BY <2>1, Going DEF MessagesFit, Phases, Attempts
  <2>3. QuotaTypeOK' \/ UNCHANGED quotaVars
    BY <1>10, Charges, QuotaAssumption DEF MeterPages, Tokens, Typed, TypeOK
  <2>. QED  BY <1>10, <2>2, <2>3, Fitting DEF MeterPages
<1>11. ASSUME EndRelay(m), messages[m].kind # "callback" \/ MayComplete(job, Snap(m).run)
       PROVE  Typed'
  <2>1. Ended(m) \in Jobs
    <3>. DEFINE status == IF At(m, "completing") THEN "completed"
                          ELSE IF platform = "podcast" THEN Snap(m).status ELSE "transcribing"
                state == IF messages[m].kind = "callback" THEN "processed" ELSE Snap(m).state
    <3>1. status \in Statuses
      BY <1>0 DEF Jobs, Statuses
    <3>2. state \in States
      BY <1>0 DEF Jobs, States
    <3>3. Ended(m) = [Snap(m) EXCEPT !.status = status, !.state = state]
      BY DEF Ended
    <3>. HIDE DEF status, state
    <3>4. [Snap(m) EXCEPT !.status = status, !.state = state] \in Jobs
      BY <1>0, <3>1, <3>2, WrittenJobs
    <3>. QED  BY <3>3, <3>4
  <2>2. job' = Ended(m) /\ ToWith(m, AfterEnd(m), job')
    BY <1>11 DEF EndRelay
  <2>3. AfterEnd(m) \in Phases \ {"queued"}
    BY DEF AfterEnd, Phases, Attempts
  <2>4. MessagesFit
    BY <2>1, <2>2, <2>3, GoingWith DEF MessagesFit
  <2>. QED  BY <1>11, <2>1, <2>2, <2>4, Fitting DEF EndRelay
<1>12. ASSUME ChargeCaptions(m) PROVE Typed'
  <2>1. MessagesFit
    BY <1>12, Going DEF ChargeCaptions, MessagesFit, Phases, Attempts
  <2>2. QuotaTypeOK'
    BY <1>12, Charges, QuotaAssumption DEF ChargeCaptions, Tokens, Typed, TypeOK
  <2>. QED  BY <1>12, <2>1, <2>2, Fitting DEF ChargeCaptions
<1>13. ASSUME RefuseByQuota(m) PROVE Typed'
  <2>1. MessagesFit
    BY <1>13, Going DEF RefuseByQuota, MessagesFit, Phases
  <2>2. job' \in Jobs
    BY <1>0, <1>13, WrittenJobs DEF RefuseByQuota, Statuses
  <2>3. announced' \subseteq {"success", "failure"}
    BY <1>13 DEF RefuseByQuota, Typed, TypeOK
  <2>. QED  BY <1>13, <2>1, <2>2, <2>3, Fitting DEF RefuseByQuota
<1>14. ASSUME PassGate(m) PROVE Typed'
  <2>1. PICK free \in BOOLEAN, told \in {0, GateMinutes} :
           /\ DebitGate(free, told)
           /\ messages' = [messages EXCEPT ![m] = [@ EXCEPT !.phase = "dispatching",
                                                            !.debited = told,
                                                            !.free = free]]
    BY <1>0, <1>14 DEF PassGate, MessageRecords
  <2>2. told \in Nat
    BY GateIsPositive
  <2>. DEFINE new == [messages[m] EXCEPT !.phase = "dispatching", !.debited = told,
                                         !.free = free]
  <2>3. new \in MessageRecords /\ new.phase = "dispatching"
    BY <1>0, <2>2 DEF MessageRecords, Phases, Attempts
  <2>4. messages' = [messages EXCEPT ![m] = new]
    BY <2>1
  <2>. HIDE DEF new
  <2>5. MessagesFit
    BY <2>3, <2>4, Sending DEF MessagesFit
  <2>6. QuotaTypeOK' \/ UNCHANGED quotaVars
    BY <2>1, GateIsPositive, Debits DEF DebitGate, Tokens, Typed, TypeOK
  <2>. QED  BY <1>14, <2>5, <2>6, Fitting DEF PassGate
<1>15. ASSUME Dispatch(m) PROVE Typed'
  <2>1. MessagesFit
    BY <1>15, Going DEF Dispatch, MessagesFit, Phases
  <2>2. PICK d \in Dispatches :
           /\ dispatches[d].phase = "unsent"
           /\ dispatches' = [dispatches EXCEPT ![d] =
                 [@ EXCEPT !.phase = "queued", !.debited = messages[m].debited,
                           !.free = messages[m].free]]
    BY <1>15 DEF Dispatch, Any
  <2>. DEFINE new == [dispatches[d] EXCEPT !.phase = "queued", !.debited = messages[m].debited,
                                           !.free = messages[m].free]
  <2>3. dispatches \in [Dispatches -> DispatchRecords]
        /\ dispatches' = [dispatches EXCEPT ![d] = new]
    BY <2>2 DEF Typed, TypeOK, DispatchRecords
  <2>4. /\ new \in DispatchRecords /\ new.phase = "queued"
        /\ new.receives = dispatches[d].receives
    BY <1>0, <2>3, ZenonT(60) DEF MessageRecords, DispatchRecords, DispatchPhases
  <2>6. new.receives < MaxReceives
    BY <2>2, <2>4 DEF Typed, DeliveriesAreLeft
  <2>. HIDE DEF new
  <2>5. DispatchesFit
    BY <2>3, <2>4, <2>6 DEF DispatchesFit, Typed, DeliveriesAreLeft
  <2>. QED  BY <1>15, <2>1, <2>5, Fitting DEF Dispatch
<1>16. ASSUME ExpireRun(m), MayExpire(job, messages[m].run) PROVE Typed'
  <2>1. MessagesFit
    BY <1>16, Going DEF ExpireRun, MessagesFit, Phases
  <2>2. job' \in Jobs
    BY <1>0, <1>16 DEF ExpireRun, Statuses, States, Jobs
  <2>. QED  BY <1>16, <2>1, <2>2, Fitting DEF ExpireRun
<1>17. ASSUME GiveUp(m) PROVE Typed'
  <2>1. MessagesFit
    BY <1>17, Going DEF GiveUp, MessagesFit, Phases
  <2>2. job' \in Jobs
    BY <1>0, <1>17 DEF GiveUp, Statuses, States, Jobs
  <2>. QED  BY <1>17, <2>1, <2>2, Fitting DEF GiveUp
<1>. QED
  BY <1>1, <1>2, <1>3, <1>4, <1>5, <1>6, <1>7, <1>8, <1>9, <1>10, <1>11, <1>12, <1>13, <1>14,
     <1>15, <1>16, <1>17 DEF Writes
\* The steps of the transcription worker, of Apify and of time.
Elsewhere ==
    \/ \E d \in Dispatches : TranscriptionStep(d) \/ TranscriptionRaises(d)
    \/ \E r \in Runs : RunEnds(r) \/ Webhook(r)
    \/ LeaseExpires

LEMMA DispatchMoves ==
    ASSUME Typed, NEW d \in Dispatches, NEW phase \in DispatchPhases \ {"unsent", "queued"},
           DispatchTo(d, phase)
    PROVE  DispatchesFit
  BY DEF DispatchTo, DispatchesFit, Typed, TypeOK, DeliveriesAreLeft, DispatchRecords

LEMMA SettlementTypes ==
    ASSUME QuotaTypeOK, NEW debited \in Nat, Settle(debited)
    PROVE  /\ QuotaTypeOK' /\ charged' >= charged
           /\ ("gate" \in tokens') <=> ("gate" \in tokens)
           /\ ("gate" \in lost') <=> ("gate" \in lost)
           /\ ("gate" \in untold') <=> ("gate" \in untold)
           /\ untold \subseteq tokens => untold' \subseteq tokens'
<1>1. CASE Billed <= debited
  BY <1>1 DEF Settle, QuotaTypeOK, quotaVars
<1>2. CASE ~(Billed <= debited)
  <2>1. Billed - debited \in Nat /\ Charge(Billed - debited, "settle")
    BY <1>2, QuotaAssumption DEF Settle
  <2>. QED  BY <2>1, Charges DEF Tokens
<1>. QED  BY <1>1, <1>2

LEMMA OtherTypes ==
    ASSUME Typed, Elsewhere
    PROVE  Typed'
<1>0. job \in Jobs /\ messages \in [Messages -> MessageRecords]
      /\ dispatches \in [Dispatches -> DispatchRecords]
  BY DEF Typed, TypeOK, MessageRecords, DispatchRecords
<1>1. ASSUME NEW d \in Dispatches, Transcribe(d) PROVE Typed'
  <2>1. dispatches[d].receives + 1 \in 0 .. MaxReceives
    BY <1>0, <1>1, BoundsAssumption DEF Transcribe, Typed, DeliveriesAreLeft, DispatchRecords
  <2>2. DispatchesFit
    BY <1>0, <1>1, <2>1
       DEF Transcribe, DispatchesFit, DispatchRecords, DispatchPhases, Typed, DeliveriesAreLeft
  <2>3. job' \in Jobs
    BY <1>0, <1>1, WrittenJobs DEF Transcribe, Statuses
  <2>. QED  BY <1>1, <2>2, <2>3, Fitting DEF Transcribe
<1>2. ASSUME NEW d \in Dispatches, SettleMinutes(d) PROVE Typed'
  <2>1. DispatchesFit
    BY <1>2, DispatchMoves DEF SettleMinutes, DispatchPhases
  <2>2. QuotaTypeOK' \/ UNCHANGED quotaVars
    BY <1>0, <1>2, SettlementTypes DEF SettleMinutes, Typed, TypeOK, DispatchRecords
  <2>. QED  BY <1>2, <2>1, <2>2, Fitting DEF SettleMinutes
<1>3. ASSUME NEW d \in Dispatches, FinishTranscription(d) PROVE Typed'
  <2>1. DispatchesFit
    BY <1>3, DispatchMoves DEF FinishTranscription, DispatchPhases
  <2>2. job' \in Jobs
    BY <1>0, <1>3, WrittenJobs DEF FinishTranscription, Statuses
  <2>3. stored' \in BOOLEAN /\ announced' \subseteq {"success", "failure"}
    BY <1>3 DEF FinishTranscription, Typed, TypeOK
  <2>. QED  BY <1>3, <2>1, <2>2, <2>3, Fitting DEF FinishTranscription
<1>4. ASSUME NEW d \in Dispatches, TranscriptionRaises(d) PROVE Typed'
  <2>1. DispatchesFit
    <3>1. CASE dispatches[d].receives < MaxReceives /\ DispatchTo(d, "queued")
      BY <1>0, <3>1
         DEF DispatchTo, DispatchesFit, DispatchRecords, DispatchPhases, Typed, DeliveriesAreLeft
    <3>2. CASE DispatchTo(d, "refused")
      BY <3>2, DispatchMoves DEF DispatchPhases
    <3>. QED  BY <1>4, <3>1, <3>2 DEF TranscriptionRaises
  <2>2. announced' \subseteq {"success", "failure"}
    BY <1>4 DEF TranscriptionRaises, Typed, TypeOK
  <2>. QED  BY <1>4, <2>1, <2>2, Fitting DEF TranscriptionRaises
<1>5. ASSUME NEW r \in Runs, RunEnds(r) PROVE Typed'
  <2>1. apify' \in [Runs -> [status : {"unused", "running", "succeeded", "aborted"},
                             calls : 0 .. Calls]]
    BY <1>5 DEF RunEnds, Typed, TypeOK
  <2>. QED  BY <1>5, <2>1, Fitting DEF RunEnds
<1>6. ASSUME NEW r \in Runs, Webhook(r) PROVE Typed'
  <2>1. apify' \in [Runs -> [status : {"unused", "running", "succeeded", "aborted"},
                             calls : 0 .. Calls]]
    <3>1. apify[r].calls + 1 \in 0 .. Calls
      BY <1>6, BoundsAssumption DEF Webhook, Typed, TypeOK
    <3>. QED  BY <1>6, <3>1 DEF Webhook, Typed, TypeOK
  <2>2. MessagesFit \/ UNCHANGED messages
    <3>1. CASE UNCHANGED messages
      BY <3>1
    <3>2. CASE \E n \in Free : messages' = [messages EXCEPT ![n] =
                   NewMessage("callback", r, apify[r].status = "succeeded", "queued")]
      <4>. DEFINE new == NewMessage("callback", r, apify[r].status = "succeeded", "queued")
      <4>1. PICK n \in Messages : messages' = [messages EXCEPT ![n] = new]
        BY <3>2 DEF Free, Any
      <4>2. new \in MessageRecords
        BY NewMessages DEF Kinds, Phases
      <4>3. new.receives < MaxReceives
        BY BoundsAssumption DEF NewMessage
      <4>. HIDE DEF new
      <4>. QED  BY <4>1, <4>2, <4>3, Sending DEF MessagesFit
    <3>. QED  BY <1>6, <3>1, <3>2 DEF Webhook
  <2>. QED  BY <1>6, <2>1, <2>2, Fitting DEF Webhook
<1>7. ASSUME LeaseExpires PROVE Typed'
  <2>1. job' \in Jobs
    BY <1>0, <1>7, WrittenJobs DEF LeaseExpires, States
  <2>. QED  BY <1>7, <2>1, Fitting DEF LeaseExpires
<1>. QED
  BY <1>1, <1>2, <1>3, <1>4, <1>5, <1>6, <1>7 DEF Elsewhere, TranscriptionStep

LEMMA NextSteps ==
    ASSUME Next
    PROVE  Elsewhere \/ \E m \in Messages : Walks(m) \/ Writes(m)
  BY WalksOrWrites DEF Next, Elsewhere
-----------------------------------------------------------------------------
(* What the steps of a worker do to its message                            *)

\* The one place that is written besides the message's own is that of a new
\* backstop, which was free.
Alone(m) == \A n \in Messages \ {m} : messages'[n] = messages[n]

KeepsName(m) == messages'[m].kind = messages[m].kind /\ messages'[m].run = messages[m].run

Gone(m) ==
    /\ messages'[m].phase = "gone" /\ messages'[m].kind = "ingest" /\ messages'[m].run = NoRun
    /\ messages'[m].snap = NewJob /\ messages'[m].debited = 0

KeepsBill(m) ==
    messages'[m].debited = messages[m].debited /\ messages'[m].free = messages[m].free

Steps(m, phase) ==
    /\ Alone(m) /\ KeepsName(m) /\ KeepsBill(m)
    /\ messages'[m].phase = phase

Waits(m) ==
    /\ Alone(m) /\ KeepsName(m)
    /\ messages'[m].phase = "queued" /\ messages'[m].snap = NewJob /\ messages'[m].debited = 0

LEMMA GoingGone ==
    ASSUME Typed, NEW m \in Messages, To(m, "gone")
    PROVE  Alone(m) /\ Gone(m)
  BY Going DEF Phases, Alone, Gone

LEMMA GoingQueued ==
    ASSUME Typed, NEW m \in Messages, To(m, "queued"), messages[m].receives < MaxReceives
    PROVE  Waits(m)
  BY Going DEF Phases, Waits, Alone, KeepsName

LEMMA GoingOn ==
    ASSUME Typed, NEW m \in Messages, NEW phase \in Phases \ {"gone", "queued"}, To(m, phase)
    PROVE  Steps(m, phase) /\ messages'[m].snap = messages[m].snap
  BY Going DEF Steps, Alone, KeepsName, KeepsBill

LEMMA GoingOnWith ==
    ASSUME Typed, NEW m \in Messages, NEW phase \in Phases \ {"queued"}, NEW j \in Jobs,
           ToWith(m, phase, j)
    PROVE  Steps(m, phase) /\ messages'[m].snap = j
  BY GoingWith DEF Steps, Alone, KeepsName, KeepsBill

LEMMA Walking ==
    ASSUME Typed, NEW m \in Messages, NEW phase \in Phases, Walk(m, phase)
    PROVE  \/ phase = "gone" /\ Alone(m) /\ Gone(m)
           \/ phase = "queued" /\ Waits(m)
           \/ /\ phase \notin {"gone", "queued"}
              /\ Steps(m, phase) /\ messages'[m].snap = messages[m].snap
  BY GoingGone, GoingQueued, GoingOn DEF Walk, Leads

\* The same for the steps that write.
LEMMA Receiving ==
    ASSUME Typed, NEW m \in Messages, Receive(m)
    PROVE  /\ At(m, "queued") /\ Steps(m, "received") /\ messages'[m].snap = job
           /\ UNCHANGED <<quotaVars, platform, job, apify, dispatches>>
<1>1. messages \in [Messages -> MessageRecords]
  BY DEF Typed, TypeOK, MessageRecords
<1>2. messages' = [messages EXCEPT ![m] = [messages[m] EXCEPT !.phase = "received", !.snap = job,
                                                              !.receives = @ + 1]]
  BY <1>1 DEF Receive, MessageRecords
<1>. QED
  BY <1>1, <1>2 DEF Receive, MessageRecords, Steps, Alone, KeepsName, KeepsBill

LEMMA Marking ==
    ASSUME Typed, NEW m \in Messages, MarkExtracting(m), platform # "youtube"
    PROVE  /\ Is(m, "ingest", "received") /\ Steps(m, "extracting")
           /\ job' \in {job, [Snap(m) EXCEPT !.status = "extracting"]}
           /\ messages'[m].snap.run = Snap(m).run
           /\ UNCHANGED <<quotaVars, platform, apify, dispatches>>
<1>1. Snap(m) \in Jobs /\ [Snap(m) EXCEPT !.status = "extracting"] \in Jobs
  BY HeldJobs, WrittenJobs DEF Statuses
<1>2. \A j \in Jobs : ToWith(m, "extracting", j)
         => Steps(m, "extracting") /\ messages'[m].snap = j
  BY GoingOnWith DEF Phases, Attempts
<1>3. [Snap(m) EXCEPT !.status = "extracting"].run = Snap(m).run
  BY <1>1 DEF Jobs
<1>. QED  BY <1>1, <1>2, <1>3 DEF MarkExtracting

LEMMA ParseFailing ==
    ASSUME Typed, NEW m \in Messages, ParseFails(m)
    PROVE  /\ At(m, "extracting") /\ platform = "document"
           /\ Waits(m) \/ (Alone(m) /\ Gone(m))
           /\ job' = [Snap(m) EXCEPT !.status = "failed"]
           /\ UNCHANGED <<quotaVars, platform, apify, dispatches>>
  BY GoingGone, GoingQueued DEF ParseFails, Again

LEMMA RunStarting ==
    ASSUME Typed, NEW m \in Messages, StartRun(m)
    PROVE  /\ At(m, "starting") /\ Steps(m, "persisting")
           /\ \E r \in Runs : /\ apify[r] = Unused
                              /\ apify' = [apify EXCEPT ![r].status = "running"]
                              /\ messages'[m].snap = WithRun(Snap(m), r)
           /\ UNCHANGED <<quotaVars, platform, job, dispatches>>
<1>1. PICK r \in Runs : /\ apify[r] = Unused
                        /\ apify' = [apify EXCEPT ![r].status = "running"]
                        /\ ToWith(m, "persisting", WithRun(Snap(m), r))
  BY DEF StartRun, Any
<1>2. WithRun(Snap(m), r) \in Jobs
  BY HeldJobs, WrittenJobs
<1>. QED  BY <1>1, <1>2, GoingOnWith DEF StartRun, NeedsRun, Phases, Attempts

LEMMA RunPersisting ==
    ASSUME Typed, NEW m \in Messages, PersistRun(m)
    PROVE  /\ At(m, "persisting") /\ Steps(m, "arming") /\ messages'[m].snap = messages[m].snap
           /\ job' = WithRun(job, Snap(m).run)
           /\ UNCHANGED <<quotaVars, platform, apify, dispatches>>
  BY GoingOn DEF PersistRun, Phases, Attempts

LEMMA BackstopArming ==
    ASSUME Typed, NEW m \in Messages, ArmBackstop(m)
    PROVE  /\ At(m, "arming")
           /\ \E n \in Messages \ {m} :
                 /\ At(n, "gone")
                 /\ \A k \in Messages \ {m, n} : messages'[k] = messages[k]
                 /\ messages'[n].kind = "backstop" /\ messages'[n].phase = "queued"
                 /\ messages'[n].snap = NewJob /\ messages'[n].debited = 0
           /\ KeepsName(m) /\ KeepsBill(m)
           /\ messages'[m].phase = "marking" /\ messages'[m].snap = messages[m].snap
           /\ UNCHANGED <<quotaVars, platform, job, apify, dispatches>>
<1>0. messages \in [Messages -> MessageRecords]
  BY DEF Typed, TypeOK, MessageRecords
<1>1. PICK n \in Messages : At(n, "gone") /\ messages' = WithBackstop(m, n)
  BY DEF ArmBackstop, Free, Any
<1>. DEFINE new == NewMessage("backstop", Snap(m).run, TRUE, "queued")
<1>2. new.kind = "backstop" /\ new.phase = "queued" /\ new.snap = NewJob /\ new.debited = 0
  BY DEF NewMessage
<1>3. n # m
  BY <1>1 DEF ArmBackstop, At
<1>4. messages' = [k \in Messages |-> IF k = n THEN new
                                      ELSE IF k = m THEN [messages[m] EXCEPT !.phase = "marking"]
                                      ELSE messages[k]]
  BY <1>0, <1>1, <1>3 DEF WithBackstop
<1>. HIDE DEF new
<1>5. messages'[m] = [messages[m] EXCEPT !.phase = "marking"]
  BY <1>3, <1>4
<1>6. KeepsName(m) /\ KeepsBill(m) /\ messages'[m].phase = "marking"
      /\ messages'[m].snap = messages[m].snap
  BY <1>0, <1>5 DEF KeepsName, KeepsBill, MessageRecords
<1>. QED
  BY <1>0, <1>1, <1>2, <1>3, <1>4, <1>6, ZenonT(60) DEF ArmBackstop

LEMMA ArmedMarking ==
    ASSUME Typed, NEW m \in Messages, MarkArmed(m)
    PROVE  /\ At(m, "marking") /\ Alone(m) /\ Gone(m)
           /\ job' \in {job, [job EXCEPT !.armed = TRUE]}
           /\ UNCHANGED <<quotaVars, platform, apify, dispatches>>
  BY GoingGone DEF MarkArmed

LEMMA Claiming ==
    ASSUME Typed, NEW m \in Messages, ClaimCallback(m), MayClaim(job, messages[m].run)
    PROVE  /\ Is(m, "callback", "received") /\ Steps(m, "claimed") /\ messages'[m].snap = job'
           /\ job' = [job EXCEPT !.state = "processing"]
           /\ job.run = messages[m].run /\ job.state \in {"waiting", "lapsed"}
           /\ UNCHANGED <<quotaVars, platform, apify, dispatches>>
<1>1. job' \in Jobs /\ ToWith(m, "claimed", job')
  BY HeldJobs, WrittenJobs DEF ClaimCallback, States
<1>2. Steps(m, "claimed") /\ messages'[m].snap = job'
  BY <1>1, GoingOnWith DEF Phases, Attempts
<1>. QED  BY <1>2 DEF ClaimCallback, MayClaim

LEMMA Metering ==
    ASSUME Typed, NEW m \in Messages, MeterPages(m)
    PROVE  /\ At(m, "metering") /\ messages'[m].snap = messages[m].snap
           /\ Steps(m, "storing") \/ Steps(m, "failing")
           /\ Charge(Pages, "gate") \/ UNCHANGED quotaVars
           /\ UNCHANGED <<platform, job, apify, dispatches>>
<1>1. PICK next \in {"storing", "failing"} : To(m, next)
  BY DEF MeterPages
<1>. QED  BY <1>1, GoingOn DEF MeterPages, Phases, Attempts

LEMMA Ending ==
    ASSUME Typed, NEW m \in Messages, EndRelay(m),
           messages[m].kind # "callback" \/ MayComplete(job, Snap(m).run)
    PROVE  /\ messages[m].phase \in {"completing", "handing"}
           /\ Steps(m, IF At(m, "handing") THEN "gating"
                       ELSE IF platform = "youtube" THEN "charging" ELSE "publishing")
           /\ messages'[m].snap = job' /\ job' \in Jobs /\ job'.run = Snap(m).run
           /\ messages[m].kind = "callback" =>
                 job'.state = "processed" /\ job.run = Snap(m).run /\ Claimed(job)
           /\ messages[m].kind # "callback" => job'.state = Snap(m).state
           /\ UNCHANGED <<quotaVars, platform, apify, dispatches>>
<1>. DEFINE status == IF At(m, "completing") THEN "completed"
                      ELSE IF platform = "podcast" THEN Snap(m).status ELSE "transcribing"
            state == IF messages[m].kind = "callback" THEN "processed" ELSE Snap(m).state
<1>0. Snap(m) \in Jobs
  BY HeldJobs
<1>1. status \in Statuses
  BY <1>0 DEF Jobs, Statuses
<1>2. state \in States
  BY <1>0 DEF Jobs, States
<1>3. Ended(m) = [Snap(m) EXCEPT !.status = status, !.state = state]
  BY DEF Ended
<1>4. state = IF messages[m].kind = "callback" THEN "processed" ELSE Snap(m).state
  OBVIOUS
<1>. HIDE DEF status, state
<1>5. Ended(m) \in Jobs /\ Ended(m).run = Snap(m).run /\ Ended(m).state = state
  BY <1>0, <1>1, <1>2, <1>3 DEF Jobs
<1>6. job' = Ended(m) /\ ToWith(m, AfterEnd(m), job')
  BY DEF EndRelay
<1>7. /\ AfterEnd(m) \in Phases \ {"queued"}
      /\ AfterEnd(m) = IF At(m, "handing") THEN "gating"
                       ELSE IF platform = "youtube" THEN "charging" ELSE "publishing"
  BY DEF AfterEnd, Phases, Attempts
<1>8. Steps(m, AfterEnd(m)) /\ messages'[m].snap = job'
  BY <1>5, <1>6, <1>7, GoingOnWith
<1>. QED
  BY <1>4, <1>5, <1>6, <1>7, <1>8 DEF EndRelay, MayComplete

LEMMA CaptionsCharging ==
    ASSUME Typed, NEW m \in Messages, ChargeCaptions(m)
    PROVE  /\ At(m, "charging") /\ messages'[m].snap = messages[m].snap
           /\ Steps(m, "publishing")
           /\ Charge(Captions, "gate")
           /\ UNCHANGED <<platform, job, apify, dispatches>>
  BY GoingOn DEF ChargeCaptions, Phases, Attempts

LEMMA Refusing ==
    ASSUME Typed, NEW m \in Messages, RefuseByQuota(m)
    PROVE  /\ At(m, "gating") /\ Alone(m) /\ Gone(m)
           /\ job' = [Snap(m) EXCEPT !.status = "failed"]
           /\ UNCHANGED <<quotaVars, platform, apify, dispatches>>
  BY GoingGone DEF RefuseByQuota

LEMMA Passing ==
    ASSUME Typed, NEW m \in Messages, PassGate(m)
    PROVE  /\ At(m, "gating") /\ Alone(m) /\ KeepsName(m)
           /\ messages'[m].phase = "dispatching" /\ messages'[m].snap = messages[m].snap
           /\ \E free \in BOOLEAN, told \in {0, GateMinutes} :
                 /\ DebitGate(free, told)
                 /\ messages'[m].debited = told /\ messages'[m].free = free
           /\ UNCHANGED <<platform, job, apify, dispatches>>
<1>0. messages \in [Messages -> MessageRecords]
  BY DEF Typed, TypeOK, MessageRecords
<1>1. PICK free \in BOOLEAN, told \in {0, GateMinutes} :
         /\ DebitGate(free, told)
         /\ messages' = [messages EXCEPT ![m] = [@ EXCEPT !.phase = "dispatching",
                                                          !.debited = told,
                                                          !.free = free]]
  BY <1>0 DEF PassGate, MessageRecords
<1>2. /\ messages'[m] = [messages[m] EXCEPT !.phase = "dispatching",
                                            !.debited = told, !.free = free]
      /\ Alone(m)
  BY <1>0, <1>1 DEF Alone
<1>3. /\ messages'[m].phase = "dispatching" /\ messages'[m].snap = messages[m].snap
      /\ messages'[m].debited = told /\ messages'[m].free = free /\ KeepsName(m)
  BY <1>0, <1>2 DEF MessageRecords, KeepsName
<1>. QED  BY <1>1, <1>2, <1>3 DEF PassGate

LEMMA Dispatching ==
    ASSUME Typed, NEW m \in Messages, Dispatch(m)
    PROVE  /\ At(m, "dispatching") /\ Alone(m) /\ Gone(m)
           /\ \E d \in Dispatches :
                 /\ ~Sent(d)
                 /\ \A e \in Dispatches \ {d} : dispatches'[e] = dispatches[e]
                 /\ dispatches'[d].phase = "queued" /\ dispatches'[d].free = messages[m].free
                 /\ dispatches'[d].debited = messages[m].debited
           /\ UNCHANGED <<quotaVars, platform, job, apify>>
<1>0. dispatches \in [Dispatches -> DispatchRecords]
  BY DEF Typed, TypeOK, DispatchRecords
<1>1. PICK d \in Dispatches :
         /\ dispatches[d].phase = "unsent"
         /\ dispatches' = [dispatches EXCEPT ![d] =
               [@ EXCEPT !.phase = "queued", !.debited = messages[m].debited,
                         !.free = messages[m].free]]
  BY DEF Dispatch, Any
<1>2. dispatches'[d] = [dispatches[d] EXCEPT !.phase = "queued", !.debited = messages[m].debited,
                                             !.free = messages[m].free]
      /\ \A e \in Dispatches \ {d} : dispatches'[e] = dispatches[e]
  BY <1>0, <1>1
<1>3. /\ dispatches'[d].phase = "queued" /\ dispatches'[d].free = messages[m].free
      /\ dispatches'[d].debited = messages[m].debited
  BY <1>0, <1>2 DEF DispatchRecords
<1>. QED  BY <1>1, <1>2, <1>3, GoingGone DEF Dispatch, Sent

LEMMA Expiring ==
    ASSUME Typed, NEW m \in Messages, ExpireRun(m), MayExpire(job, messages[m].run)
    PROVE  /\ Is(m, "backstop", "received") /\ Outstanding(job)
           /\ Steps(m, "reporting") /\ messages'[m].snap = messages[m].snap
           /\ job' = [job EXCEPT !.state = "expired", !.status = "failed"]
           /\ UNCHANGED <<quotaVars, platform, apify, dispatches>>
  BY GoingOn DEF ExpireRun, MayExpire, Phases

LEMMA GivingUp ==
    ASSUME Typed, NEW m \in Messages, GiveUp(m)
    PROVE  /\ At(m, "failing")
           /\ Steps(m, "reporting") /\ messages'[m].snap = messages[m].snap
           /\ job'.run = job.run
           /\ job'.state = IF Claimed(job) THEN "processed" ELSE job.state
           /\ UNCHANGED <<quotaVars, platform, apify, dispatches>>
<1>1. job'.run = job.run /\ job'.state = IF Claimed(job) THEN "processed" ELSE job.state
  BY HeldJobs DEF GiveUp, Jobs
<1>. QED  BY <1>1, GoingOn DEF GiveUp, Phases
\* Elsewhere a message is only added, and the job's run stays.
LEMMA Others ==
    ASSUME Typed, Elsewhere
    PROVE  /\ platform' = platform /\ job'.run = job.run
           /\ \/ UNCHANGED messages
              \/ \E n \in Messages, r \in Runs :
                    /\ At(n, "gone") /\ Alone(n)
                    /\ messages'[n].kind = "callback" /\ messages'[n].phase = "queued"
                    /\ messages'[n].run = r /\ job.run = r
                    /\ messages'[n].snap = NewJob /\ messages'[n].debited = 0
           /\ \A r \in Runs : apify[r].status # "unused" => apify'[r].status # "unused"
           /\ \/ job'.state = job.state
              \/ /\ job.state = "processing" /\ job'.state = "lapsed"
                 /\ platform \in Instagram \/ \A m \in Messages : ~Continuing(m)
<1>0. job \in Jobs /\ messages \in [Messages -> MessageRecords]
  BY DEF Typed, TypeOK, MessageRecords
<1>1. ASSUME NEW d \in Dispatches, TranscriptionStep(d) \/ TranscriptionRaises(d)
      PROVE  /\ UNCHANGED <<platform, apify, messages>>
             /\ job'.run = job.run /\ job'.state = job.state
  BY <1>0, <1>1 DEF TranscriptionStep, Transcribe, SettleMinutes, FinishTranscription,
                    TranscriptionRaises, Jobs
<1>2. ASSUME NEW r \in Runs, RunEnds(r)
      PROVE  /\ UNCHANGED <<platform, job, messages>>
             /\ \A x \in Runs : apify[x].status # "unused" => apify'[x].status # "unused"
  BY <1>2 DEF RunEnds, Typed, TypeOK
<1>3. ASSUME NEW r \in Runs, Webhook(r)
      PROVE  /\ UNCHANGED <<platform, job>>
             /\ \A x \in Runs : apify[x].status # "unused" => apify'[x].status # "unused"
             /\ \/ UNCHANGED messages
                \/ \E n \in Messages :
                      /\ At(n, "gone") /\ Alone(n) /\ job.run = r
                      /\ messages'[n].kind = "callback" /\ messages'[n].phase = "queued"
                      /\ messages'[n].run = r
                      /\ messages'[n].snap = NewJob /\ messages'[n].debited = 0
  <2>1. UNCHANGED <<platform, job>>
        /\ \A x \in Runs : apify[x].status # "unused" => apify'[x].status # "unused"
    BY <1>3 DEF Webhook, Typed, TypeOK
  <2>2. CASE ~UNCHANGED messages
    <3>. DEFINE new == NewMessage("callback", r, apify[r].status = "succeeded", "queued")
    <3>1. PICK n \in Messages : At(n, "gone") /\ messages' = [messages EXCEPT ![n] = new]
      BY <1>3, <2>2 DEF Webhook, Free, Any
    <3>2. /\ new.kind = "callback" /\ new.phase = "queued" /\ new.run = r
          /\ new.snap = NewJob /\ new.debited = 0
      BY DEF NewMessage
    <3>3. job.run = r
      BY <1>3, <2>2 DEF Webhook
    <3>. HIDE DEF new
    <3>4. messages'[n] = new /\ Alone(n)
      BY <1>0, <3>1 DEF Alone
    <3>. QED  BY <2>1, <3>1, <3>2, <3>3, <3>4
  <2>. QED  BY <2>1, <2>2
<1>4. ASSUME LeaseExpires
      PROVE  /\ UNCHANGED <<platform, apify, messages>>
             /\ job'.run = job.run /\ job.state = "processing" /\ job'.state = "lapsed"
             /\ platform \in Instagram \/ \A m \in Messages : ~Continuing(m)
  BY <1>0, <1>4 DEF LeaseExpires, Jobs
<1>. QED  BY <1>1, <1>2, <1>3, <1>4 DEF Elsewhere

-----------------------------------------------------------------------------
(* Routes                                                                  *)

LEMMA RouteAlone ==
    ASSUME RoutesAreFollowed, NEW m \in Messages, platform' = platform, Alone(m),
           FollowsRoute(m)'
    PROVE  RoutesAreFollowed'
<1>1. ASSUME NEW n \in Messages PROVE FollowsRoute(n)'
  BY <1>1 DEF RoutesAreFollowed, FollowsRoute, Alone
<1>. QED  BY <1>1 DEF RoutesAreFollowed

LEMMA RouteSteps ==
    ASSUME Typed, RoutesAreFollowed, Next
    PROVE  RoutesAreFollowed'
<1>. USE DEF FollowsRoute, At, Is, Starting, Gating, Gone, Waits, KeepsName, Steps
<1>0. \A m \in Messages : FollowsRoute(m)
  BY DEF RoutesAreFollowed
<1>1. ASSUME NEW m \in Messages, NEW phase \in Phases, Walk(m, phase) PROVE RoutesAreFollowed'
  <2>1. platform' = platform /\ Leads(m, phase)
    BY <1>1 DEF Walk
  <2>2. CASE phase = "gone"
    BY <1>1, <2>1, <2>2, Walking, RouteAlone
  <2>3. CASE phase = "queued"
    <3>1. messages[m].phase \in Attempts
      BY <2>1, <2>3, StepsAssumption DEF Leads, Faults
    <3>2. messages[m].phase # "gone"
      BY <3>1 DEF Attempts
    <3>. QED  BY <1>0, <1>1, <2>1, <2>3, <3>2, Walking, RouteAlone
  <2>4. CASE phase = "failing"
    <3>1. messages[m].phase \in Attempts
      BY <2>1, <2>4, StepsAssumption DEF Leads, Attempts
    <3>2. messages[m].phase # "gone"
      BY <3>1 DEF Attempts
    <3>. QED  BY <1>0, <1>1, <2>1, <2>4, <3>2, Walking, RouteAlone
  <2>5. CASE phase \notin {"gone", "queued", "failing"}
    <3>1. Steps(m, phase)
      BY <1>1, <2>5, Walking
    <3>2. FollowsRoute(m)'
      BY <1>0, <2>1, <2>5, <3>1 DEF Leads, Instagram
    <3>. QED  BY <2>1, <3>1, <3>2, RouteAlone
  <2>. QED  BY <2>2, <2>3, <2>4, <2>5
<1>2. ASSUME NEW m \in Messages, Receive(m) PROVE RoutesAreFollowed'
  BY <1>0, <1>2, Receiving, RouteAlone
<1>3. ASSUME NEW m \in Messages, MarkExtracting(m), platform # "youtube" PROVE RoutesAreFollowed'
  BY <1>0, <1>3, Marking, RouteAlone
<1>4. ASSUME NEW m \in Messages, ParseFails(m) PROVE RoutesAreFollowed'
  BY <1>0, <1>4, ParseFailing, RouteAlone
<1>5. ASSUME NEW m \in Messages, StartRun(m) PROVE RoutesAreFollowed'
  BY <1>0, <1>5, RunStarting, RouteAlone
<1>6. ASSUME NEW m \in Messages, PersistRun(m) PROVE RoutesAreFollowed'
  BY <1>0, <1>6, RunPersisting, RouteAlone
<1>7. ASSUME NEW m \in Messages, ArmBackstop(m) PROVE RoutesAreFollowed'
  BY <1>0, <1>7, BackstopArming DEF RoutesAreFollowed
<1>8. ASSUME NEW m \in Messages, MarkArmed(m) PROVE RoutesAreFollowed'
  BY <1>0, <1>8, ArmedMarking, RouteAlone
<1>9. ASSUME NEW m \in Messages, ClaimCallback(m), MayClaim(job, messages[m].run)
      PROVE  RoutesAreFollowed'
  BY <1>0, <1>9, Claiming, RouteAlone
<1>10. ASSUME NEW m \in Messages, MeterPages(m) PROVE RoutesAreFollowed'
  BY <1>0, <1>10, Metering, RouteAlone
<1>11. ASSUME NEW m \in Messages, EndRelay(m),
              messages[m].kind # "callback" \/ MayComplete(job, Snap(m).run)
       PROVE  RoutesAreFollowed'
  <2>1. CASE At(m, "handing")
    BY <1>0, <1>11, <2>1, Ending, RouteAlone
  <2>2. CASE At(m, "completing") /\ platform = "youtube"
    BY <1>0, <1>11, <2>2, Ending, RouteAlone
  <2>3. CASE At(m, "completing") /\ platform # "youtube"
    BY <1>0, <1>11, <2>3, Ending, RouteAlone
  <2>. QED  BY <1>11, <2>1, <2>2, <2>3 DEF EndRelay
<1>12. ASSUME NEW m \in Messages, ChargeCaptions(m) PROVE RoutesAreFollowed'
  BY <1>0, <1>12, CaptionsCharging, RouteAlone
<1>13. ASSUME NEW m \in Messages, RefuseByQuota(m) PROVE RoutesAreFollowed'
  BY <1>0, <1>13, Refusing, RouteAlone
<1>14. ASSUME NEW m \in Messages, PassGate(m) PROVE RoutesAreFollowed'
  BY <1>0, <1>14, Passing, RouteAlone
<1>15. ASSUME NEW m \in Messages, Dispatch(m) PROVE RoutesAreFollowed'
  BY <1>0, <1>15, Dispatching, RouteAlone
<1>16. ASSUME NEW m \in Messages, ExpireRun(m), MayExpire(job, messages[m].run)
       PROVE  RoutesAreFollowed'
  BY <1>0, <1>16, Expiring, RouteAlone
<1>17. ASSUME NEW m \in Messages, GiveUp(m) PROVE RoutesAreFollowed'
  BY <1>0, <1>17, GivingUp, RouteAlone
<1>18. ASSUME Elsewhere PROVE RoutesAreFollowed'
  <2>1. CASE UNCHANGED messages
    BY <1>0, <1>18, <2>1, Others DEF RoutesAreFollowed
  <2>2. CASE \E n \in Messages :
                /\ Alone(n) /\ messages'[n].kind = "callback" /\ messages'[n].phase = "queued"
    BY <1>18, <2>2, Others, RouteAlone
  <2>. QED  BY <1>18, <2>1, <2>2, Others
<1>. QED
  BY <1>1, <1>2, <1>3, <1>4, <1>5, <1>6, <1>7, <1>8, <1>9, <1>10, <1>11, <1>12, <1>13, <1>14,
     <1>15, <1>16, <1>17, <1>18, NextSteps, Walkers DEF Writes
-----------------------------------------------------------------------------
(* Runs                                                                    *)

\* What RunsAreHeld says of one message, and of the run it is about to persist.
HoldsRuns(m) ==
    /\ messages[m].kind = "callback" => Used(messages[m].run)
    /\ messages[m].snap.run # NoRun => Used(messages[m].snap.run)

OwnsRun(m) ==
    At(m, "persisting") =>
        /\ messages[m].snap.run \notin {NoRun, job.run}
        /\ \A n \in Messages :
              /\ messages[n].kind = "callback" => messages[n].run # messages[m].snap.run
              /\ n # m => messages[n].snap.run # messages[m].snap.run

LEMMA RunsByMessage ==
    /\ RunsAreHeld <=> /\ job.run # NoRun => Used(job.run)
                       /\ \A m \in Messages : HoldsRuns(m) /\ OwnsRun(m)
    /\ RunsAreHeld' <=> /\ job'.run # NoRun => Used(job.run)'
                        /\ \A m \in Messages : HoldsRuns(m)' /\ OwnsRun(m)'
  BY DEF RunsAreHeld, HoldsRuns, OwnsRun, Snap

\* A step that hands no run to anyone who did not hold it leaves all runs where
\* they are.
LEMMA RunsStay ==
    ASSUME RunsAreHeld,
           \A r \in Runs : apify[r].status # "unused" => apify'[r].status # "unused",
           \A n \in Messages :
              \/ messages'[n] = messages[n]
              \/ /\ messages'[n].phase # "persisting"
                 /\ messages'[n].kind = "callback" =>
                       \/ messages[n].kind = "callback" /\ messages'[n].run = messages[n].run
                       \/ messages'[n].run \in {job.run} \ {NoRun}
                 /\ messages'[n].snap.run \in {NoRun, messages[n].snap.run, job.run},
           \/ job'.run = job.run
           \/ \E m \in Messages : /\ messages'[m].phase # "persisting"
                                  /\ job'.run = messages[m].snap.run
    PROVE  RunsAreHeld'
<1>0. /\ job.run # NoRun => Used(job.run)
      /\ \A n \in Messages : HoldsRuns(n) /\ OwnsRun(n)
  BY RunsByMessage
<1>2. job'.run # NoRun => Used(job.run)'
  BY <1>0 DEF HoldsRuns, Used
<1>3. ASSUME NEW n \in Messages PROVE HoldsRuns(n)'
  BY <1>0 DEF HoldsRuns, Used
<1>4. ASSUME NEW n \in Messages, At(n, "persisting")' PROVE OwnsRun(n)'
  <2>1. messages'[n] = messages[n] /\ At(n, "persisting")
    BY <1>4 DEF At
  <2>2. /\ messages[n].snap.run \notin {NoRun, job.run}
        /\ \A k \in Messages :
              /\ messages[k].kind = "callback" => messages[k].run # messages[n].snap.run
              /\ k # n => messages[k].snap.run # messages[n].snap.run
    BY <1>0, <2>1 DEF OwnsRun
  <2>3. ASSUME NEW k \in Messages
        PROVE  /\ messages'[k].kind = "callback" => messages'[k].run # messages[n].snap.run
               /\ k # n => messages'[k].snap.run # messages[n].snap.run
    BY <2>2
  <2>4. job'.run # messages[n].snap.run
    BY <1>4, <2>1, <2>2 DEF At
  <2>. QED  BY <2>1, <2>2, <2>3, <2>4 DEF OwnsRun
<1>. QED  BY <1>2, <1>3, <1>4, RunsByMessage DEF OwnsRun

LEMMA RunSteps ==
    ASSUME Typed, RoutesAreFollowed, RunsAreHeld, Next
    PROVE  RunsAreHeld'
<1>. USE DEF Gone, Waits, KeepsName, Steps, Alone, NewJob
<1>1. ASSUME NEW m \in Messages, NEW phase \in Phases, Walk(m, phase) PROVE RunsAreHeld'
  <2>1. phase # "persisting" /\ UNCHANGED <<job, apify>>
    BY <1>1 DEF Walk, Leads
  <2>. QED  BY <1>1, <2>1, Walking, RunsStay
<1>2. ASSUME NEW m \in Messages, Receive(m) PROVE RunsAreHeld'
  BY <1>2, Receiving, RunsStay
<1>3. ASSUME NEW m \in Messages, MarkExtracting(m), platform # "youtube" PROVE RunsAreHeld'
  <2>1. job'.run \in {job.run, Snap(m).run}
    BY <1>3, Marking, HeldJobs DEF Jobs
  <2>. QED  BY <1>3, <2>1, Marking, RunsStay DEF Snap
<1>4. ASSUME NEW m \in Messages, ParseFails(m) PROVE RunsAreHeld'
  <2>1. job'.run = Snap(m).run
    BY <1>4, ParseFailing, HeldJobs DEF Jobs
  <2>. QED  BY <1>4, <2>1, ParseFailing, RunsStay DEF Snap
<1>5. ASSUME NEW m \in Messages, StartRun(m) PROVE RunsAreHeld'
  <2>1. PICK r \in Runs : /\ apify[r] = Unused
                          /\ apify' = [apify EXCEPT ![r].status = "running"]
                          /\ messages'[m].snap = WithRun(Snap(m), r)
    BY <1>5, RunStarting
  <2>2. Steps(m, "persisting") /\ job' = job
    BY <1>5, RunStarting
  <2>3. messages'[m].snap.run = r /\ r # NoRun
    BY <2>1, HeldJobs, RunsAssumption DEF WithRun, Jobs
  <2>4. /\ apify[r].status = "unused" /\ apify'[r].status # "unused"
        /\ \A x \in Runs : apify[x].status # "unused" => apify'[x].status # "unused"
    BY <2>1 DEF Unused, Typed, TypeOK
  <2>5. /\ job.run # r
        /\ \A n \in Messages : /\ messages[n].snap.run # r
                               /\ messages[n].kind = "callback" => messages[n].run # r
    BY <2>3, <2>4, RunsByMessage DEF HoldsRuns, Used
  <2>6. /\ job'.run # NoRun => Used(job.run)'
        /\ \A n \in Messages : HoldsRuns(n)'
    BY <2>2, <2>3, <2>4, RunsByMessage DEF HoldsRuns, Used
  <2>7. OwnsRun(m)'
    BY <2>2, <2>3, <2>5 DEF OwnsRun
  <2>8. ASSUME NEW n \in Messages \ {m} PROVE OwnsRun(n)'
    <3>1. OwnsRun(n) /\ (At(n, "persisting")' <=> At(n, "persisting"))
      BY <2>2, RunsByMessage DEF At
    <3>. QED  BY <2>2, <2>3, <2>5, <3>1 DEF OwnsRun
  <2>. QED  BY <2>6, <2>7, <2>8, RunsByMessage
<1>6. ASSUME NEW m \in Messages, PersistRun(m) PROVE RunsAreHeld'
  <2>1. job'.run = Snap(m).run
    BY <1>6, RunPersisting, HeldJobs DEF WithRun, Jobs
  <2>. QED  BY <1>6, <2>1, RunPersisting, RunsStay DEF Snap
<1>7. ASSUME NEW m \in Messages, ArmBackstop(m) PROVE RunsAreHeld'
  BY <1>7, BackstopArming, RunsStay
<1>8. ASSUME NEW m \in Messages, MarkArmed(m) PROVE RunsAreHeld'
  <2>1. job'.run = job.run
    BY <1>8, ArmedMarking, HeldJobs DEF Jobs
  <2>. QED  BY <1>8, <2>1, ArmedMarking, RunsStay
<1>9. ASSUME NEW m \in Messages, ClaimCallback(m), MayClaim(job, messages[m].run)
      PROVE  RunsAreHeld'
  <2>1. job'.run = job.run
    BY <1>9, Claiming, HeldJobs DEF Jobs
  <2>. QED  BY <1>9, <2>1, Claiming, RunsStay
<1>10. ASSUME NEW m \in Messages, MeterPages(m) PROVE RunsAreHeld'
  BY <1>10, Metering, RunsStay
<1>11. ASSUME NEW m \in Messages, EndRelay(m),
              messages[m].kind # "callback" \/ MayComplete(job, Snap(m).run)
       PROVE  RunsAreHeld'
  BY <1>11, Ending, RunsStay DEF Snap
<1>12. ASSUME NEW m \in Messages, ChargeCaptions(m) PROVE RunsAreHeld'
  BY <1>12, CaptionsCharging, RunsStay
<1>13. ASSUME NEW m \in Messages, RefuseByQuota(m) PROVE RunsAreHeld'
  <2>1. job'.run = Snap(m).run
    BY <1>13, Refusing, HeldJobs DEF Jobs
  <2>. QED  BY <1>13, <2>1, Refusing, RunsStay DEF Snap
<1>14. ASSUME NEW m \in Messages, PassGate(m) PROVE RunsAreHeld'
  BY <1>14, Passing, RunsStay
<1>15. ASSUME NEW m \in Messages, Dispatch(m) PROVE RunsAreHeld'
  BY <1>15, Dispatching, RunsStay
<1>16. ASSUME NEW m \in Messages, ExpireRun(m), MayExpire(job, messages[m].run)
       PROVE  RunsAreHeld'
  <2>1. job'.run = job.run
    BY <1>16, Expiring, HeldJobs DEF Jobs
  <2>. QED  BY <1>16, <2>1, Expiring, RunsStay
<1>17. ASSUME NEW m \in Messages, GiveUp(m) PROVE RunsAreHeld'
  BY <1>17, GivingUp, RunsStay
<1>18. ASSUME Elsewhere PROVE RunsAreHeld'
  <2>1. job'.run = job.run
        /\ \A r \in Runs : apify[r].status # "unused" => apify'[r].status # "unused"
    BY <1>18, Others
  <2>2. \A n \in Messages :
           \/ messages'[n] = messages[n]
           \/ /\ messages'[n].phase # "persisting"
              /\ messages'[n].kind = "callback" => messages'[n].run \in {job.run} \ {NoRun}
              /\ messages'[n].snap.run = NoRun
    BY <1>18, Others, RunsAssumption
  <2>. QED  BY <2>1, <2>2, RunsStay
<1>. QED
  BY <1>1, <1>2, <1>3, <1>4, <1>5, <1>6, <1>7, <1>8, <1>9, <1>10, <1>11, <1>12, <1>13, <1>14,
     <1>15, <1>16, <1>17, <1>18, NextSteps, Walkers DEF Writes
-----------------------------------------------------------------------------
(* The ingestion's writes                                                  *)

LEMMA PrecedeAlone ==
    ASSUME WritesPrecedeRuns, Fresh(platform), job'.run = job.run,
           \A n \in Messages : messages'[n] = messages[n] \/ Precedes(n)'
    PROVE  \A n \in Messages : Precedes(n)'
<1>. SUFFICES ASSUME NEW n \in Messages PROVE Precedes(n)'
  OBVIOUS
<1>1. CASE messages'[n] = messages[n]
  BY <1>1 DEF WritesPrecedeRuns, Precedes
<1>. QED  BY <1>1

\* When the job's run is written, the other messages are of no ingestion.
LEMMA PrecedeWrites ==
    ASSUME \A n \in Messages : messages'[n] = messages[n] \/ Precedes(n)',
           WritesPrecedeRuns, Fresh(platform),
           job'.run # NoRun \/ job.run = NoRun,
           \A n \in Messages :
              messages'[n] = messages[n] /\ messages[n].kind = "ingest"
                => messages[n].phase \in Persisted \/ job'.run = NoRun
    PROVE  \A n \in Messages : Precedes(n)'
<1>. SUFFICES ASSUME NEW n \in Messages PROVE Precedes(n)'
  OBVIOUS
<1>1. CASE messages'[n] = messages[n]
  <2>1. Precedes(n)
    BY DEF WritesPrecedeRuns
  <2>. QED  BY <1>1, <2>1 DEF Precedes
<1>. QED  BY <1>1

\* The kind of post a job is for never changes.
LEMMA PlatformStays ==
    ASSUME Next
    PROVE  platform' = platform
  BY ZenonT(60) DEF Next, MessageStep, Receive, MarkExtracting, ExtractTikTok, ResolveInstagram,
     ResolvePodcast, FetchArticle, ParseDocument, ParseFails, Extracted, KeepRun, StartRun,
     RunRefused, PersistRun, ArmBackstop, MarkArmed, ClaimCallback, ReadTikTokTranscript,
     ReadInstagramPost, ReadYouTubeTranscript, RunWasAborted, DatasetRead, MeterPages,
     StoreText, EndRelay, ChargeCaptions, Publish, RefuseByQuota, PassGate, Dispatch, ExpireRun,
     GiveUp, Report, WorkerRaises, WorkerKilled, TranscriptionStep, Transcribe, SettleMinutes,
     FinishTranscription, TranscriptionRaises, RunEnds, Webhook, LeaseExpires

LEMMA WriteSteps ==
    ASSUME Typed, RoutesAreFollowed, RunsAreHeld, WritesPrecedeRuns, Next
    PROVE  WritesPrecedeRuns'
<1>. USE DEF Gone, Waits, KeepsName, Steps, Alone, At, Is
<1>p. platform' = platform
  BY PlatformStays
<1>. SUFFICES ASSUME Fresh(platform) PROVE \A n \in Messages : Precedes(n)'
  BY <1>p DEF WritesPrecedeRuns
<1>0. \A m \in Messages : Precedes(m) /\ FollowsRoute(m)
  BY DEF WritesPrecedeRuns, RoutesAreFollowed
<1>00. NewJob.run = NoRun /\ platform # "youtube" /\ job \in Jobs
  BY HeldJobs DEF Fresh, NewJob, Typed, TypeOK
<1>1. ASSUME NEW m \in Messages, NEW phase \in Phases, Walk(m, phase)
      PROVE  \A n \in Messages : Precedes(n)'
  <2>1. job' = job /\ Leads(m, phase)
    BY <1>1 DEF Walk
  <2>2. CASE phase = "gone"
    <3>1. Alone(m) /\ Gone(m)
      BY <1>1, <2>2, Walking
    <3>2. Precedes(m)'
      BY <3>1 DEF Precedes, Persisted, Over
    <3>. QED  BY <2>1, <3>1, <3>2, PrecedeAlone
  <2>3. ASSUME phase \in {"queued", "failing"}, messages[m].kind = "ingest"
        PROVE  messages[m].phase \notin Persisted
    <3>1. \/ <<platform, "ingest", messages[m].phase>> \in Faults
          \/ messages[m].phase \in {"extracting", "claimed", "starting"}
      BY <2>1, <2>3 DEF Leads, Faults
    <3>2. CASE messages[m].phase \in {"arming", "marking"}
      <4>1. platform \in Instagram \cup {"tiktok"}
        BY <1>0, <1>00, <2>3, <3>2 DEF FollowsRoute, Starting
      <4>2. <<platform, "ingest", messages[m].phase>> \notin Faults
        BY <3>2, <4>1 DEF Fresh, StartsOnce
      <4>. QED  BY <3>1, <3>2, <4>2
    <3>3. CASE messages[m].phase = "gone"
      BY <3>1, <3>3, StepsAssumption DEF Attempts, Faults
    <3>. QED  BY <3>2, <3>3 DEF Persisted
  <2>4. CASE phase = "queued"
    <3>1. Waits(m)
      BY <1>1, <2>4, Walking
    <3>2. Precedes(m)'
      BY <1>0, <1>00, <2>1, <2>3, <2>4, <3>1 DEF Precedes, Persisted
    <3>. QED  BY <2>1, <3>1, <3>2, PrecedeAlone
  <2>5. CASE phase = "failing"
    <3>1. Steps(m, "failing")
      BY <1>1, <2>5, Walking
    <3>2. Precedes(m)'
      BY <1>0, <2>1, <2>3, <2>5, <3>1 DEF Precedes, Persisted, Over
    <3>. QED  BY <2>1, <3>1, <3>2, PrecedeAlone
  <2>6. CASE phase \notin {"gone", "queued", "failing"}
    <3>1. Steps(m, phase) /\ messages'[m].snap = messages[m].snap
      BY <1>1, <2>6, Walking
    <3>2. CASE phase = "arming"
      BY <2>1, <3>1, <3>2, <1>0, PrecedeAlone DEF Leads, Precedes, Persisted, Over
    <3>3. CASE phase # "arming"
      <4>1. messages[m].phase \in {"received", "extracting", "claimed", "storing"}
            /\ (phase = "handing" /\ messages[m].kind = "callback" => messages[m].phase = "claimed")
            /\ phase \notin Over \cup {"claimed", "gating"}
        BY <1>0, <2>1, <2>6, <3>3 DEF Leads, Over, Persisted, FollowsRoute
      <4>2. Precedes(m)'
        BY <1>0, <2>1, <3>1, <4>1 DEF Precedes, Over, Persisted
      <4>. QED  BY <2>1, <3>1, <4>2, PrecedeAlone
    <3>. QED  BY <3>2, <3>3
  <2>. QED  BY <2>2, <2>4, <2>5, <2>6
<1>2. ASSUME NEW m \in Messages, Receive(m) PROVE \A n \in Messages : Precedes(n)'
  <2>1. /\ At(m, "queued") /\ Steps(m, "received") /\ messages'[m].snap = job /\ job' = job
    BY <1>2, Receiving
  <2>2. Precedes(m)'
    BY <1>0, <2>1 DEF Precedes, Over, Persisted
  <2>. QED  BY <2>1, <2>2, PrecedeAlone
<1>3. ASSUME NEW m \in Messages, MarkExtracting(m), platform # "youtube"
      PROVE  \A n \in Messages : Precedes(n)'
  <2>1. /\ Is(m, "ingest", "received") /\ Steps(m, "extracting")
        /\ job' \in {job, [Snap(m) EXCEPT !.status = "extracting"]}
        /\ messages'[m].snap.run = Snap(m).run
    BY <1>3, Marking
  <2>2. job.run = NoRun /\ Snap(m).run = NoRun /\ job'.run = NoRun
    BY <1>0, <2>1, HeldJobs DEF Precedes, Over, Persisted, Snap, Jobs
  <2>3. Precedes(m)'
    BY <2>1, <2>2 DEF Precedes, Over, Persisted
  <2>. QED  BY <2>1, <2>2, <2>3, PrecedeAlone
<1>4. ASSUME NEW m \in Messages, ParseFails(m) PROVE \A n \in Messages : Precedes(n)'
  <2>1. /\ At(m, "extracting")
        /\ Waits(m) \/ (Alone(m) /\ Gone(m))
        /\ job' = [Snap(m) EXCEPT !.status = "failed"]
    BY <1>4, ParseFailing
  <2>2. messages[m].kind = "ingest"
    BY <1>0, <2>1 DEF FollowsRoute
  <2>3. job.run = NoRun /\ Snap(m).run = NoRun /\ job'.run = NoRun
    BY <1>0, <2>1, <2>2, HeldJobs DEF Precedes, Over, Persisted, Snap, Jobs
  <2>4. Precedes(m)' /\ Alone(m)
    BY <1>00, <2>1, <2>2, <2>3 DEF Precedes, Over, Persisted
  <2>. QED  BY <2>1, <2>3, <2>4, PrecedeAlone
<1>5. ASSUME NEW m \in Messages, StartRun(m) PROVE \A n \in Messages : Precedes(n)'
  <2>1. At(m, "starting") /\ Steps(m, "persisting") /\ job' = job
    BY <1>5, RunStarting
  <2>2. Precedes(m)'
    BY <1>0, <2>1 DEF Precedes, Over, Persisted
  <2>. QED  BY <2>1, <2>2, PrecedeAlone
<1>6. ASSUME NEW m \in Messages, PersistRun(m) PROVE \A n \in Messages : Precedes(n)'
  <2>1. /\ At(m, "persisting") /\ Steps(m, "arming")
        /\ job' = WithRun(job, Snap(m).run)
    BY <1>6, RunPersisting
  <2>2. Snap(m).run # NoRun /\ job'.run = Snap(m).run
    BY <1>00, <2>1 DEF RunsAreHeld, WithRun, Jobs
  <2>3. messages[m].kind = "ingest" /\ m = Ingest
    BY <1>0, <1>00, <2>1 DEF FollowsRoute, Starting
  <2>4. Precedes(m)'
    BY <2>1, <2>3 DEF Precedes, Over, Persisted
  <2>5. \A n \in Messages \ {m} : messages[n].kind = "ingest" => messages[n].phase = "gone"
    BY <1>0, <2>3 DEF FollowsRoute
  <2>6. messages'[m] # messages[m]
    BY <2>1
  <2>. QED  BY <2>1, <2>2, <2>4, <2>5, <2>6, PrecedeWrites DEF Persisted
<1>7. ASSUME NEW m \in Messages, ArmBackstop(m) PROVE \A n \in Messages : Precedes(n)'
  <2>1. PICK n \in Messages \ {m} :
           /\ \A k \in Messages \ {m, n} : messages'[k] = messages[k]
           /\ messages'[n].kind = "backstop"
    BY <1>7, BackstopArming
  <2>2. /\ At(m, "arming") /\ KeepsName(m) /\ job' = job
        /\ messages'[m].phase = "marking" /\ messages'[m].snap = messages[m].snap
    BY <1>7, BackstopArming
  <2>3. Precedes(m)' /\ Precedes(n)'
    BY <1>0, <2>1, <2>2 DEF Precedes, Over, Persisted
  <2>. QED  BY <2>1, <2>2, <2>3, PrecedeAlone
<1>8. ASSUME NEW m \in Messages, MarkArmed(m) PROVE \A n \in Messages : Precedes(n)'
  <2>1. job'.run = job.run /\ Alone(m) /\ Gone(m)
    BY <1>00, <1>8, ArmedMarking DEF Jobs
  <2>2. Precedes(m)'
    BY <2>1 DEF Precedes, Over, Persisted
  <2>. QED  BY <2>1, <2>2, PrecedeAlone
<1>9. ASSUME NEW m \in Messages, ClaimCallback(m), MayClaim(job, messages[m].run)
      PROVE  \A n \in Messages : Precedes(n)'
  <2>1. /\ Is(m, "callback", "received") /\ Steps(m, "claimed") /\ messages'[m].snap = job'
        /\ job'.run = job.run
    BY <1>00, <1>9, Claiming DEF Jobs
  <2>2. Precedes(m)'
    BY <1>0, <2>1 DEF Precedes
  <2>. QED  BY <2>1, <2>2, PrecedeAlone
<1>10. ASSUME NEW m \in Messages, MeterPages(m) PROVE \A n \in Messages : Precedes(n)'
  <2>1. /\ At(m, "metering") /\ messages'[m].snap = messages[m].snap
        /\ (Steps(m, "storing") \/ Steps(m, "failing")) /\ job' = job
    BY <1>10, Metering
  <2>2. Precedes(m)' /\ Alone(m) /\ job' = job
    BY <1>0, <1>10, <2>1, Metering DEF Precedes, Over, Persisted
  <2>. QED  BY <2>1, <2>2, PrecedeAlone
<1>11. ASSUME NEW m \in Messages, EndRelay(m),
              messages[m].kind # "callback" \/ MayComplete(job, Snap(m).run)
       PROVE  \A n \in Messages : Precedes(n)'
  <2>. DEFINE next == IF At(m, "handing") THEN "gating"
                      ELSE IF platform = "youtube" THEN "charging" ELSE "publishing"
  <2>1. /\ messages[m].phase \in {"completing", "handing"} /\ Steps(m, next)
        /\ messages'[m].snap = job' /\ job'.run = Snap(m).run
        /\ messages[m].kind = "callback" => job'.state = "processed" /\ job.run = Snap(m).run
    BY <1>11, Ending
  <2>2. next \in {"gating", "publishing"} /\ (next = "gating" => At(m, "handing"))
    BY <1>00
  <2>. HIDE DEF next
  <2>3. messages[m].kind \in {"ingest", "callback"}
    BY <1>0, <2>1 DEF FollowsRoute, Typed, TypeOK, Kinds
  <2>4. job'.run = job.run
    BY <1>0, <2>1, <2>3 DEF Precedes, Over, Persisted, Snap
  <2>5. Precedes(m)'
    BY <1>0, <2>1, <2>2, <2>3, <2>4 DEF Precedes, Over, Persisted, Snap
  <2>. QED  BY <2>1, <2>4, <2>5, PrecedeAlone
<1>12. ASSUME NEW m \in Messages, ChargeCaptions(m) PROVE \A n \in Messages : Precedes(n)'
  BY <1>0, <1>00, <1>12, CaptionsCharging DEF FollowsRoute
<1>13. ASSUME NEW m \in Messages, RefuseByQuota(m) PROVE \A n \in Messages : Precedes(n)'
  <2>1. At(m, "gating") /\ Alone(m) /\ Gone(m) /\ job'.run = Snap(m).run
    BY <1>13, Refusing, HeldJobs DEF Jobs
  <2>2. messages[m].kind \in {"ingest", "callback"}
    BY <1>0, <2>1 DEF FollowsRoute, Gating
  <2>3. Precedes(m)'
    BY <2>1 DEF Precedes, Over, Persisted
  <2>4. CASE messages[m].kind = "ingest"
    <3>1. job'.run = job.run
      BY <1>0, <2>1, <2>4 DEF Precedes, Over, Persisted, Snap
    <3>. QED  BY <2>1, <2>3, <3>1, PrecedeAlone
  <2>5. CASE messages[m].kind = "callback"
    <3>1. job.run # NoRun /\ job'.run # NoRun
      BY <1>0, <2>1, <2>5 DEF Precedes, Snap
    <3>2. \A n \in Messages : messages[n].kind = "ingest" => messages[n].phase \in Persisted
      BY <1>0, <3>1 DEF Precedes
    <3>. QED  BY <2>1, <2>3, <3>1, <3>2, PrecedeWrites
  <2>. QED  BY <2>2, <2>4, <2>5
<1>14. ASSUME NEW m \in Messages, PassGate(m) PROVE \A n \in Messages : Precedes(n)'
  <2>1. /\ At(m, "gating") /\ Alone(m) /\ KeepsName(m) /\ job' = job
        /\ messages'[m].phase = "dispatching" /\ messages'[m].snap = messages[m].snap
    BY <1>14, Passing
  <2>2. Precedes(m)'
    BY <1>0, <2>1 DEF Precedes, Over, Persisted
  <2>. QED  BY <2>1, <2>2, PrecedeAlone
<1>15. ASSUME NEW m \in Messages, Dispatch(m) PROVE \A n \in Messages : Precedes(n)'
  <2>1. Alone(m) /\ Gone(m) /\ job' = job
    BY <1>15, Dispatching
  <2>2. Precedes(m)'
    BY <2>1 DEF Precedes, Over, Persisted
  <2>. QED  BY <2>1, <2>2, PrecedeAlone
<1>16. ASSUME NEW m \in Messages, ExpireRun(m), MayExpire(job, messages[m].run)
       PROVE  \A n \in Messages : Precedes(n)'
  <2>1. /\ messages[m].kind = "backstop" /\ Steps(m, "reporting") /\ job'.run = job.run
    BY <1>00, <1>16, Expiring DEF Jobs
  <2>2. Precedes(m)'
    BY <2>1 DEF Precedes
  <2>. QED  BY <2>1, <2>2, PrecedeAlone
<1>17. ASSUME NEW m \in Messages, GiveUp(m) PROVE \A n \in Messages : Precedes(n)'
  <2>1. At(m, "failing") /\ Steps(m, "reporting") /\ job'.run = job.run
    BY <1>17, GivingUp
  <2>2. Precedes(m)'
    BY <1>0, <2>1 DEF Precedes, Over, Persisted
  <2>. QED  BY <2>1, <2>2, PrecedeAlone
<1>18. ASSUME Elsewhere PROVE \A n \in Messages : Precedes(n)'
  <2>1. job'.run = job.run
    BY <1>18, Others
  <2>2. \A n \in Messages :
           \/ messages'[n] = messages[n]
           \/ messages'[n].kind = "callback" /\ messages'[n].phase = "queued" /\ job.run # NoRun
    BY <1>18, Others, RunsAssumption
  <2>3. \A n \in Messages : messages'[n] = messages[n] \/ Precedes(n)'
    BY <2>1, <2>2 DEF Precedes
  <2>. QED  BY <2>1, <2>3, PrecedeAlone
<1>. QED
  BY <1>1, <1>2, <1>3, <1>4, <1>5, <1>6, <1>7, <1>8, <1>9, <1>10, <1>11, <1>12, <1>13, <1>14,
     <1>15, <1>16, <1>17, <1>18, NextSteps, Walkers, <1>00 DEF Writes
-----------------------------------------------------------------------------
(* Claims                                                                  *)

\* The claims stand when every callback that goes on went on before, and the
\* job still stands as it did to the run of each.
LEMMA ClaimsStand ==
    ASSUME ContinuedIsClaimed, ClaimsAreRespected(platform),
           \A n \in Messages :
              Continuing(n)' => Continuing(n) /\ messages'[n].run = messages[n].run,
           job'.run = job.run,
           job'.state = job.state \/ job'.state \notin {"waiting", "lapsed"}
    PROVE  ClaimsHold'
<1>1. ASSUME NEW n \in Messages PROVE ClaimIsKept(n)'
  BY DEF ContinuedIsClaimed, ClaimsHold, ClaimIsKept
<1>2. ASSUME NEW n \in Messages PROVE ClaimIsSingle(n)'
  BY DEF ContinuedIsClaimed, ClaimsHold, ClaimIsSingle
<1>. QED  BY <1>1, <1>2 DEF ClaimsHold

\* They stand as well when no callback is of the run that is written.
LEMMA ClaimsOfOtherRuns ==
    ASSUME ContinuedIsClaimed, ClaimsAreRespected(platform),
           \A n \in Messages :
              Continuing(n)' => Continuing(n) /\ messages'[n].run = messages[n].run,
           \A n \in Messages : messages[n].kind = "callback" => messages[n].run # job'.run
    PROVE  ClaimsHold'
<1>1. ASSUME NEW n \in Messages PROVE ClaimIsKept(n)'
  BY DEF ClaimIsKept, Continuing
<1>2. ASSUME NEW n \in Messages PROVE ClaimIsSingle(n)'
  BY DEF ContinuedIsClaimed, ClaimsHold, ClaimIsSingle
<1>. QED  BY <1>1, <1>2 DEF ClaimsHold

LEMMA ClaimSteps ==
    ASSUME Typed, RoutesAreFollowed, RunsAreHeld, WritesPrecedeRuns, ContinuedIsClaimed, Next
    PROVE  ContinuedIsClaimed'
<1>. USE DEF Gone, Waits, KeepsName, Steps, Alone, At, Is, Continuing
<1>. SUFFICES ASSUME ClaimsAreRespected(platform) PROVE ClaimsHold'
  BY PlatformStays DEF ContinuedIsClaimed
<1>0. /\ \A m \in Messages : FollowsRoute(m)
      /\ platform # "youtube" => \A m \in Messages : Precedes(m)
      /\ \A m \in Messages : messages[m].kind = "callback" => messages[m].run # NoRun
      /\ job \in Jobs /\ platform \notin Instagram
  BY HeldJobs, RunsAssumption
     DEF RoutesAreFollowed, WritesPrecedeRuns, Fresh, ClaimsAreRespected, RunsAreHeld, Used,
         Typed, TypeOK
<1>1. ASSUME NEW m \in Messages, NEW phase \in Phases, Walk(m, phase)
      PROVE  ClaimsHold'
  <2>1. job' = job /\ Leads(m, phase)
    BY <1>1 DEF Walk
  <2>2. CASE phase \in {"gone", "queued"}
    BY <1>1, <2>1, <2>2, Walking, ClaimsStand
  <2>3. CASE phase \notin {"gone", "queued"}
    <3>1. Steps(m, phase)
      BY <1>1, <2>3, Walking
    <3>2. messages[m].phase \in Attempts \cup {"received", "extracting"}
      BY <2>1, <2>3, StepsAssumption DEF Leads, Attempts
    <3>3. messages[m].kind = "callback" => messages[m].phase \notin {"gone", "queued", "received"}
      BY <1>0, <2>1, <2>3, <3>2 DEF Leads, ClaimsAreRespected, ClaimsFirst, Attempts, FollowsRoute
    <3>. QED  BY <2>1, <3>1, <3>3, ClaimsStand
  <2>. QED  BY <2>2, <2>3
<1>2. ASSUME NEW m \in Messages, Receive(m) PROVE ClaimsHold'
  BY <1>2, Receiving, ClaimsStand
<1>3. ASSUME NEW m \in Messages, MarkExtracting(m), platform # "youtube"
      PROVE  ClaimsHold'
  <2>1. /\ Is(m, "ingest", "received") /\ Steps(m, "extracting")
        /\ job' \in {job, [Snap(m) EXCEPT !.status = "extracting"]}
    BY <1>3, Marking
  <2>2. job'.run = NoRun
    BY <1>0, <1>3, <2>1, HeldJobs DEF Precedes, Over, Persisted, Snap, Jobs
  <2>. QED  BY <1>0, <2>1, <2>2, ClaimsOfOtherRuns
<1>4. ASSUME NEW m \in Messages, ParseFails(m) PROVE ClaimsHold'
  <2>1. /\ At(m, "extracting") /\ platform = "document"
        /\ Waits(m) \/ (Alone(m) /\ Gone(m))
        /\ job'.run = Snap(m).run
    BY <1>4, ParseFailing, HeldJobs DEF Jobs
  <2>2. job'.run = NoRun
    BY <1>0, <2>1 DEF FollowsRoute, Precedes, Over, Persisted, Snap
  <2>. QED  BY <1>0, <2>1, <2>2, ClaimsOfOtherRuns
<1>5. ASSUME NEW m \in Messages, StartRun(m) PROVE ClaimsHold'
  BY <1>5, RunStarting, ClaimsStand
<1>6. ASSUME NEW m \in Messages, PersistRun(m) PROVE ClaimsHold'
  <2>1. /\ At(m, "persisting") /\ Steps(m, "arming") /\ job'.run = Snap(m).run
    BY <1>6, RunPersisting, HeldJobs DEF WithRun, Jobs
  <2>2. \A n \in Messages : messages[n].kind = "callback" => messages[n].run # job'.run
    BY <2>1 DEF RunsAreHeld
  <2>. QED  BY <2>1, <2>2, ClaimsOfOtherRuns
<1>7. ASSUME NEW m \in Messages, ArmBackstop(m) PROVE ClaimsHold'
  <2>1. job' = job
        /\ \A n \in Messages : Continuing(n)' => Continuing(n) /\ messages'[n].run = messages[n].run
    BY <1>7, BackstopArming
  <2>. QED  BY <2>1, ClaimsStand
<1>8. ASSUME NEW m \in Messages, MarkArmed(m) PROVE ClaimsHold'
  <2>1. job'.run = job.run /\ job'.state = job.state
    BY <1>0, <1>8, ArmedMarking DEF Jobs
  <2>. QED  BY <1>8, <2>1, ArmedMarking, ClaimsStand
<1>9. ASSUME NEW m \in Messages, ClaimCallback(m), MayClaim(job, messages[m].run)
      PROVE  ClaimsHold'
  <2>1. Steps(m, "claimed") /\ job'.state = "processing"
    BY <1>0, <1>9, Claiming DEF Jobs
  <2>2. \A n \in Messages : Continuing(n) => messages[n].run # messages[m].run
    BY <1>9, Claiming DEF ContinuedIsClaimed, ClaimsHold, ClaimIsKept
  <2>3. \A n \in Messages : ClaimIsSingle(n)'
    BY <2>1, <2>2 DEF ContinuedIsClaimed, ClaimsHold, ClaimIsSingle
  <2>. QED  BY <2>1, <2>3 DEF ClaimsHold, ClaimIsKept
<1>10. ASSUME NEW m \in Messages, MeterPages(m) PROVE ClaimsHold'
  BY <1>10, Metering, ClaimsStand
<1>11. ASSUME NEW m \in Messages, EndRelay(m),
              messages[m].kind # "callback" \/ MayComplete(job, Snap(m).run)
       PROVE  ClaimsHold'
  <2>. DEFINE next == IF At(m, "handing") THEN "gating"
                      ELSE IF platform = "youtube" THEN "charging" ELSE "publishing"
  <2>1. /\ messages[m].phase \in {"completing", "handing"} /\ Steps(m, next)
        /\ job'.run = Snap(m).run
        /\ messages[m].kind = "callback" => job'.state = "processed"
    BY <1>11, Ending
  <2>. HIDE DEF next
  <2>2. CASE messages[m].kind = "callback"
    BY <2>1, <2>2 DEF ContinuedIsClaimed, ClaimsHold, ClaimIsKept, ClaimIsSingle
  <2>3. CASE messages[m].kind # "callback"
    <3>1. messages[m].kind = "ingest" /\ platform # "youtube"
      BY <1>0, <2>1, <2>3 DEF FollowsRoute, Gating, Typed, TypeOK, Kinds
    <3>2. job'.run = NoRun
      BY <1>0, <2>1, <3>1 DEF Precedes, Over, Persisted, Snap
    <3>. QED  BY <1>0, <2>1, <2>3, <3>2, ClaimsOfOtherRuns
  <2>. QED  BY <2>2, <2>3
<1>12. ASSUME NEW m \in Messages, ChargeCaptions(m) PROVE ClaimsHold'
  BY <1>12, CaptionsCharging, ClaimsStand
<1>13. ASSUME NEW m \in Messages, RefuseByQuota(m) PROVE ClaimsHold'
  <2>1. At(m, "gating") /\ Alone(m) /\ Gone(m) /\ job'.run = Snap(m).run
    BY <1>13, Refusing, HeldJobs DEF Jobs
  <2>2. messages[m].kind = "ingest" /\ platform # "youtube"
    BY <1>0, <2>1 DEF FollowsRoute, Gating, Instagram
  <2>3. job'.run = NoRun
    BY <1>0, <2>1, <2>2 DEF Precedes, Over, Persisted, Snap
  <2>. QED  BY <1>0, <2>1, <2>3, ClaimsOfOtherRuns
<1>14. ASSUME NEW m \in Messages, PassGate(m) PROVE ClaimsHold'
  BY <1>14, Passing, ClaimsStand
<1>15. ASSUME NEW m \in Messages, Dispatch(m) PROVE ClaimsHold'
  BY <1>15, Dispatching, ClaimsStand
<1>16. ASSUME NEW m \in Messages, ExpireRun(m), MayExpire(job, messages[m].run)
       PROVE  ClaimsHold'
  <2>1. job'.run = job.run /\ job'.state = "expired"
    BY <1>0, <1>16, Expiring DEF Jobs
  <2>. QED  BY <1>16, <2>1, Expiring, ClaimsStand
<1>17. ASSUME NEW m \in Messages, GiveUp(m) PROVE ClaimsHold'
  BY <1>17, GivingUp, ClaimsStand
<1>18. ASSUME Elsewhere PROVE ClaimsHold'
  <2>1. \A n \in Messages : Continuing(n)' => Continuing(n) /\ messages'[n].run = messages[n].run
    BY <1>18, Others
  <2>2. job'.run = job.run
    BY <1>18, Others
  <2>3. CASE job'.state = job.state
    BY <2>1, <2>2, <2>3, ClaimsStand
  <2>4. CASE \A m \in Messages : ~Continuing(m)
    BY <2>1, <2>4 DEF ClaimsHold, ClaimIsKept, ClaimIsSingle
  <2>. QED  BY <1>0, <1>18, <2>3, <2>4, Others
<1>. QED
  BY <1>1, <1>2, <1>3, <1>4, <1>5, <1>6, <1>7, <1>8, <1>9, <1>10, <1>11, <1>12, <1>13, <1>14,
     <1>15, <1>16, <1>17, <1>18, NextSteps, Walkers DEF Writes, FollowsRoute
-----------------------------------------------------------------------------
(* Charges                                                                 *)

LEMMA DebitsStay ==
    ASSUME Typed, DebitsAreCharged, charged' \in Nat, charged' >= charged,
           "settle" \in tokens' => "settle" \in tokens \/ charged' >= Billed,
           "settle" \in lost => "settle" \in lost' \/ charged' >= Billed,
           \A n \in Messages :
              messages'[n].debited \in {0, messages[n].debited} \/ charged' >= messages'[n].debited,
           \A d \in Dispatches :
              \/ dispatches'[d] = dispatches[d]
              \/ /\ charged' >= dispatches'[d].debited
                 /\ dispatches'[d].phase \in {"settled", "done"} /\ ~dispatches'[d].free
                       => Paid'
    PROVE  DebitsAreCharged'
<1>0. /\ charged \in Nat /\ Billed \in Nat
      /\ \A n \in Messages : messages[n].debited \in Nat
      /\ \A d \in Dispatches : dispatches[d].debited \in Nat
  BY QuotaAssumption DEF Typed, TypeOK, QuotaTypeOK
<1>1. "settle" \in tokens' => charged' >= Billed
  BY <1>0 DEF DebitsAreCharged
<1>2. ASSUME NEW n \in Messages PROVE charged' >= messages'[n].debited
  BY <1>0 DEF DebitsAreCharged
<1>3. ASSUME NEW d \in Dispatches
      PROVE  /\ charged' >= dispatches'[d].debited
             /\ dispatches'[d].phase \in {"settled", "done"} /\ ~dispatches'[d].free
                   => Paid'
  BY <1>0 DEF DebitsAreCharged, Paid
<1>. QED  BY <1>1, <1>2, <1>3 DEF DebitsAreCharged

LEMMA DebitSteps ==
    ASSUME Typed, DebitsAreCharged, Next
    PROVE  DebitsAreCharged'
<1>. USE DEF Gone, Waits, KeepsBill, Steps, Alone, quotaVars
<1>0. /\ charged \in Nat /\ Billed \in Nat \ {0} /\ QuotaTypeOK
      /\ charged >= charged
  BY QuotaAssumption DEF Typed, TypeOK, QuotaTypeOK
<1>1. ASSUME NEW m \in Messages, NEW phase \in Phases, Walk(m, phase) PROVE DebitsAreCharged'
  <2>1. UNCHANGED <<charged, tokens, lost, dispatches>>
    BY <1>1 DEF Walk
  <2>. QED  BY <1>0, <1>1, <2>1, Walking, DebitsStay
<1>2. ASSUME NEW m \in Messages, Receive(m) PROVE DebitsAreCharged'
  BY <1>0, <1>2, Receiving, DebitsStay
<1>3. ASSUME NEW m \in Messages, MarkExtracting(m), platform # "youtube" PROVE DebitsAreCharged'
  BY <1>0, <1>3, Marking, DebitsStay
<1>4. ASSUME NEW m \in Messages, ParseFails(m) PROVE DebitsAreCharged'
  BY <1>0, <1>4, ParseFailing, DebitsStay
<1>5. ASSUME NEW m \in Messages, StartRun(m) PROVE DebitsAreCharged'
  BY <1>0, <1>5, RunStarting, DebitsStay
<1>6. ASSUME NEW m \in Messages, PersistRun(m) PROVE DebitsAreCharged'
  BY <1>0, <1>6, RunPersisting, DebitsStay
<1>7. ASSUME NEW m \in Messages, ArmBackstop(m) PROVE DebitsAreCharged'
  BY <1>0, <1>7, BackstopArming, DebitsStay
<1>8. ASSUME NEW m \in Messages, MarkArmed(m) PROVE DebitsAreCharged'
  BY <1>0, <1>8, ArmedMarking, DebitsStay
<1>9. ASSUME NEW m \in Messages, ClaimCallback(m), MayClaim(job, messages[m].run)
      PROVE  DebitsAreCharged'
  BY <1>0, <1>9, Claiming, DebitsStay
<1>10. ASSUME NEW m \in Messages, MeterPages(m) PROVE DebitsAreCharged'
  <2>1. /\ dispatches' = dispatches
        /\ \A n \in Messages : messages'[n].debited \in {0, messages[n].debited}
    BY <1>10, Metering
  <2>2. Charge(Pages, "gate") \/ UNCHANGED <<charged, tokens, lost>>
    BY <1>10, Metering
  <2>3. /\ charged' \in Nat /\ charged' >= charged
        /\ "settle" \in tokens' => "settle" \in tokens
        /\ "settle" \in lost => "settle" \in lost'
    BY <1>0, <2>2, Charges, QuotaAssumption DEF Tokens, QuotaTypeOK
  <2>. QED  BY <2>1, <2>3, DebitsStay
<1>11. ASSUME NEW m \in Messages, EndRelay(m),
              messages[m].kind # "callback" \/ MayComplete(job, Snap(m).run)
       PROVE  DebitsAreCharged'
  BY <1>0, <1>11, Ending, DebitsStay
<1>12. ASSUME NEW m \in Messages, ChargeCaptions(m) PROVE DebitsAreCharged'
  <2>1. /\ dispatches' = dispatches /\ Charge(Captions, "gate")
        /\ \A n \in Messages : messages'[n].debited \in {0, messages[n].debited}
    BY <1>12, CaptionsCharging
  <2>2. /\ charged' \in Nat /\ charged' >= charged
        /\ "settle" \in tokens' => "settle" \in tokens
        /\ "settle" \in lost => "settle" \in lost'
    BY <1>0, <2>1, Charges, QuotaAssumption DEF Tokens, QuotaTypeOK
  <2>. QED  BY <2>1, <2>2, DebitsStay
<1>13. ASSUME NEW m \in Messages, RefuseByQuota(m) PROVE DebitsAreCharged'
  BY <1>0, <1>13, Refusing, DebitsStay
<1>14. ASSUME NEW m \in Messages, PassGate(m) PROVE DebitsAreCharged'
  <2>1. PICK free \in BOOLEAN, told \in {0, GateMinutes} :
           DebitGate(free, told) /\ messages'[m].debited = told
    BY <1>14, Passing
  <2>2. Alone(m) /\ dispatches' = dispatches
    BY <1>14, Passing
  <2>3. CASE free
    BY <1>0, <2>1, <2>2, <2>3, DebitsStay DEF DebitGate
  <2>4. CASE ~free
    <3>1. Debit(GateMinutes, "gate", told)
      BY <2>1, <2>4 DEF DebitGate
    <3>2. /\ charged' \in Nat /\ charged' >= charged
          /\ "settle" \in tokens' => "settle" \in tokens
          /\ "settle" \in lost => "settle" \in lost'
      BY <1>0, <3>1, Debits, GateIsPositive DEF Tokens, QuotaTypeOK
    <3>3. told = 0 \/ charged' >= told
      BY <1>0, <3>1, Outcomes, GateIsPositive
    <3>. QED  BY <2>1, <2>2, <3>2, <3>3, DebitsStay
  <2>. QED  BY <2>3, <2>4
<1>15. ASSUME NEW m \in Messages, Dispatch(m) PROVE DebitsAreCharged'
  <2>1. PICK d \in Dispatches :
           /\ \A e \in Dispatches \ {d} : dispatches'[e] = dispatches[e]
           /\ dispatches'[d].phase = "queued" /\ dispatches'[d].debited = messages[m].debited
    BY <1>15, Dispatching
  <2>2. charged >= messages[m].debited
    BY DEF DebitsAreCharged
  <2>. QED  BY <1>0, <1>15, <2>1, <2>2, Dispatching, DebitsStay
<1>16. ASSUME NEW m \in Messages, ExpireRun(m), MayExpire(job, messages[m].run)
       PROVE  DebitsAreCharged'
  BY <1>0, <1>16, Expiring, DebitsStay
<1>17. ASSUME NEW m \in Messages, GiveUp(m) PROVE DebitsAreCharged'
  BY <1>0, <1>17, GivingUp, DebitsStay
<1>18. ASSUME NEW d \in Dispatches, TranscriptionStep(d) \/ TranscriptionRaises(d)
       PROVE  DebitsAreCharged'
  <2>0. /\ dispatches \in [Dispatches -> DispatchRecords] /\ dispatches[d].debited \in Nat
        /\ charged >= dispatches[d].debited
    BY DEF Typed, TypeOK, DispatchRecords, DebitsAreCharged
  <2>1. CASE Transcribe(d) \/ TranscriptionRaises(d)
    <3>1. /\ UNCHANGED <<charged, tokens, lost, messages>>
          /\ \A e \in Dispatches \ {d} : dispatches'[e] = dispatches[e]
          /\ dispatches'[d].debited = dispatches[d].debited
          /\ dispatches'[d].phase \notin {"settled", "done"}
      BY <2>0, <2>1, ZenonT(60) DEF Transcribe, TranscriptionRaises, DispatchTo, DispatchRecords
    <3>. QED  BY <1>0, <2>0, <3>1, DebitsStay
  <2>2. CASE FinishTranscription(d)
    <3>1. /\ UNCHANGED <<charged, tokens, lost, messages>>
          /\ \A e \in Dispatches \ {d} : dispatches'[e] = dispatches[e]
          /\ dispatches'[d].debited = dispatches[d].debited
          /\ dispatches'[d].free = dispatches[d].free /\ dispatches[d].phase = "settled"
      BY <2>0, <2>2 DEF FinishTranscription, DispatchTo, DispatchRecords
    <3>2. ~dispatches[d].free => Paid
      BY <3>1 DEF DebitsAreCharged
    <3>3. Paid => Paid'
      BY <3>1 DEF Paid
    <3>. QED  BY <1>0, <2>0, <3>1, <3>2, <3>3, DebitsStay
  <2>3. CASE SettleMinutes(d)
    <3>1. /\ messages' = messages
          /\ \A e \in Dispatches \ {d} : dispatches'[e] = dispatches[e]
          /\ dispatches'[d].debited = dispatches[d].debited
          /\ dispatches'[d].free = dispatches[d].free
          /\ IF dispatches[d].free THEN UNCHANGED quotaVars
             ELSE Settle(dispatches[d].debited)
      BY <2>0, <2>3 DEF SettleMinutes, DispatchTo, DispatchRecords
    <3>2. CASE dispatches[d].free
      BY <1>0, <2>0, <3>1, <3>2, DebitsStay
    <3>3. CASE ~dispatches[d].free
      <4>1. /\ charged' \in Nat /\ charged' >= charged
        BY <1>0, <2>0, <3>1, <3>3, SettlementTypes DEF QuotaTypeOK
      <4>2. /\ Paid'
            /\ "settle" \in tokens' => "settle" \in tokens \/ charged' >= Billed
            /\ "settle" \in lost => "settle" \in lost' \/ charged' >= Billed
        <5>1. CASE Billed <= dispatches[d].debited
          BY <1>0, <2>0, <4>1, <5>1 DEF Paid
        <5>2. CASE ~(Billed <= dispatches[d].debited)
          <6>. DEFINE rest == Billed - dispatches[d].debited
          <6>1. rest \in Nat /\ charged + rest >= Billed
            BY <1>0, <2>0, <5>2
          <6>2. PICK told : Debit(rest, "settle", told)
            BY <3>1, <3>3, <5>2 DEF Settle, Charge
          <6>. HIDE DEF rest
          <6>3. "settle" \in tokens => charged >= Billed
            BY DEF DebitsAreCharged
          <6>. QED  BY <1>0, <4>1, <6>1, <6>2, <6>3, Outcomes DEF Paid
        <5>. QED  BY <5>1, <5>2
      <4>3. charged' >= dispatches[d].debited
        BY <1>0, <2>0, <4>1
      <4>. QED  BY <3>1, <4>1, <4>2, <4>3, DebitsStay
    <3>. QED  BY <3>2, <3>3
  <2>. QED  BY <1>18, <2>1, <2>2, <2>3 DEF TranscriptionStep
<1>19. ASSUME Elsewhere, \A d \in Dispatches : ~(TranscriptionStep(d) \/ TranscriptionRaises(d))
       PROVE  DebitsAreCharged'
  <2>1. UNCHANGED <<charged, tokens, lost, dispatches>>
    BY <1>19 DEF Elsewhere, RunEnds, Webhook, LeaseExpires
  <2>2. \A n \in Messages : messages'[n].debited \in {0, messages[n].debited}
    BY <1>19, Others
  <2>. QED  BY <1>0, <2>1, <2>2, DebitsStay
<1>. QED
  BY <1>1, <1>2, <1>3, <1>4, <1>5, <1>6, <1>7, <1>8, <1>9, <1>10, <1>11, <1>12, <1>13, <1>14,
     <1>15, <1>16, <1>17, <1>18, <1>19, NextSteps, Walkers DEF Writes, DebitsAreCharged
-----------------------------------------------------------------------------
(* The gate                                                                *)

LEMMA PassageStays ==
    ASSUME GateIsPassedOnce, GateIsSure(platform), platform' = platform,
           Debited' => Debited,
           \A n \in Messages : At(n, "gating")' => At(n, "gating"),
           \A n \in Messages :
              messages'[n].kind = "ingest" /\ messages'[n].phase \notin {"gone", "dispatching"}
                => messages[n].kind = "ingest" /\ messages[n].phase \notin {"gone", "dispatching"},
           platform = "reel" /\ job.run # NoRun /\ job.state = "processed"
                => job'.run # NoRun /\ job'.state = "processed"
    PROVE  GateIsPassedOnce'
  BY DEF GateIsPassedOnce

LEMMA PassageSteps ==
    ASSUME Typed, RoutesAreFollowed, RunsAreHeld, WritesPrecedeRuns, GateIsPassedOnce, Next
    PROVE  GateIsPassedOnce'
<1>. USE DEF Gone, Waits, KeepsName, Steps, Alone, At, Is, quotaVars, Debited
<1>p. platform' = platform
  BY PlatformStays
<1>. SUFFICES ASSUME GateIsSure(platform) PROVE GateIsPassedOnce'
  BY <1>p DEF GateIsPassedOnce
<1>0. /\ \A m \in Messages : FollowsRoute(m)
      /\ platform = "reel" => \A m \in Messages : Precedes(m)
      /\ \A m \in Messages : messages[m].kind = "callback" => messages[m].run # NoRun
      /\ job \in Jobs /\ platform \in Spoken
  BY HeldJobs, RunsAssumption
     DEF RoutesAreFollowed, WritesPrecedeRuns, Fresh, GateIsSure, RunsAreHeld, Used,
         Typed, TypeOK
<1>1. ASSUME NEW m \in Messages, NEW phase \in Phases, Walk(m, phase) PROVE GateIsPassedOnce'
  <2>1. job' = job /\ UNCHANGED <<tokens, lost>> /\ Leads(m, phase)
    BY <1>1 DEF Walk
  <2>2. phase \notin {"gating", "dispatching"}
    BY <2>1 DEF Leads
  <2>3. ASSUME phase # "gone", messages[m].kind = "ingest"
        PROVE  messages[m].phase \notin {"gone", "dispatching"}
    <3>1. \/ <<platform, "ingest", messages[m].phase>> \in Faults
          \/ messages[m].phase \in {"received", "extracting", "claimed", "starting", "storing"}
      BY <2>1, <2>3 DEF Leads, Faults
    <3>. QED  BY <3>1, StepsAssumption DEF GateIsSure, SendsOnce, Faults, Attempts
  <2>. QED  BY <1>p, <1>1, <2>1, <2>2, <2>3, Walking, PassageStays
<1>2. ASSUME NEW m \in Messages, Receive(m) PROVE GateIsPassedOnce'
  BY <1>p, <1>2, Receiving, PassageStays
<1>3. ASSUME NEW m \in Messages, MarkExtracting(m), platform # "youtube" PROVE GateIsPassedOnce'
  <2>1. /\ Is(m, "ingest", "received") /\ Steps(m, "extracting") /\ UNCHANGED <<tokens, lost>>
    BY <1>3, Marking
  <2>2. platform = "reel" => job.run = NoRun
    BY <1>0, <2>1 DEF Precedes, Persisted
  <2>. QED  BY <1>p, <2>1, <2>2, PassageStays
<1>4. ASSUME NEW m \in Messages, ParseFails(m) PROVE GateIsPassedOnce'
  BY <1>0, <1>4 DEF ParseFails, Spoken
<1>5. ASSUME NEW m \in Messages, StartRun(m) PROVE GateIsPassedOnce'
  BY <1>p, <1>5, RunStarting, PassageStays
<1>6. ASSUME NEW m \in Messages, PersistRun(m) PROVE GateIsPassedOnce'
  <2>1. At(m, "persisting") /\ Steps(m, "arming") /\ UNCHANGED <<tokens, lost>>
    BY <1>6, RunPersisting
  <2>2. platform = "reel" => job.run = NoRun
    BY <1>0, <2>1 DEF FollowsRoute, Starting, Precedes, Persisted
  <2>. QED  BY <1>p, <2>1, <2>2, PassageStays
<1>7. ASSUME NEW m \in Messages, ArmBackstop(m) PROVE GateIsPassedOnce'
  <2>1. PICK n \in Messages \ {m} :
           /\ \A k \in Messages \ {m, n} : messages'[k] = messages[k]
           /\ messages'[n].kind = "backstop" /\ messages'[n].phase = "queued"
    BY <1>7, BackstopArming
  <2>2. /\ At(m, "arming") /\ KeepsName(m) /\ messages'[m].phase = "marking"
        /\ job' = job /\ UNCHANGED <<tokens, lost>>
    BY <1>7, BackstopArming
  <2>. QED  BY <1>p, <2>1, <2>2, PassageStays
<1>8. ASSUME NEW m \in Messages, MarkArmed(m) PROVE GateIsPassedOnce'
  <2>1. job'.run = job.run /\ job'.state = job.state
    BY <1>0, <1>8, ArmedMarking DEF Jobs
  <2>. QED  BY <1>p, <1>8, <2>1, ArmedMarking, PassageStays
<1>9. ASSUME NEW m \in Messages, ClaimCallback(m), MayClaim(job, messages[m].run)
      PROVE  GateIsPassedOnce'
  BY <1>p, <1>9, Claiming, PassageStays
<1>10. ASSUME NEW m \in Messages, MeterPages(m) PROVE GateIsPassedOnce'
  BY <1>0, <1>10, Metering DEF FollowsRoute, Spoken
<1>11. ASSUME NEW m \in Messages, EndRelay(m),
              messages[m].kind # "callback" \/ MayComplete(job, Snap(m).run)
       PROVE  GateIsPassedOnce'
  <2>. DEFINE next == IF At(m, "handing") THEN "gating"
                      ELSE IF platform = "youtube" THEN "charging" ELSE "publishing"
  <2>1. /\ messages[m].phase \in {"completing", "handing"} /\ Steps(m, next)
        /\ job'.run = Snap(m).run /\ UNCHANGED <<tokens, lost>>
        /\ messages[m].kind = "callback" =>
              job'.state = "processed" /\ job.run = Snap(m).run /\ Claimed(job)
    BY <1>11, Ending
  <2>3. next = "gating" => At(m, "handing")
    OBVIOUS
  <2>. HIDE DEF next
  <2>5. messages[m].kind \in {"ingest", "callback"}
    BY <1>0, <2>1 DEF FollowsRoute, Gating, Typed, TypeOK, Kinds
  <2>6. CASE next # "gating"
    <3>1. platform = "reel" /\ messages[m].kind = "ingest" => job.run = NoRun
      BY <1>0, <2>1 DEF Precedes, Persisted
    <3>2. platform = "reel" /\ job.run # NoRun /\ job.state = "processed"
             => job'.run # NoRun /\ job'.state = "processed"
      BY <2>1, <2>5, <3>1
    <3>. QED  BY <1>p, <2>1, <2>6, <3>2, PassageStays
  <2>7. CASE next = "gating" /\ platform # "reel"
    <3>1. messages[m].kind = "ingest" /\ m = Ingest
      BY <1>0, <2>3, <2>7 DEF FollowsRoute, Gating
    <3>2. \A n \in Messages \ {m} : ~At(n, "gating")
      BY <1>0, <2>7, <3>1 DEF FollowsRoute, Gating
    <3>3. ~Debited
      BY <2>3, <2>7, <3>1 DEF GateIsPassedOnce
    <3>. QED  BY <1>p, <2>1, <2>7, <3>2, <3>3 DEF GateIsPassedOnce
  <2>8. CASE next = "gating" /\ platform = "reel"
    <3>1. messages[m].kind = "callback"
      BY <1>0, <2>3, <2>8 DEF FollowsRoute, Gating
    <3>2. job.state # "processed"
      BY <2>1, <3>1 DEF Claimed
    <3>3. ~Debited /\ \A n \in Messages : ~At(n, "gating")
      BY <2>8, <3>2 DEF GateIsPassedOnce
    <3>4. job'.run # NoRun /\ job'.state = "processed"
      BY <1>0, <2>1, <2>8, <3>1 DEF Precedes
    <3>. QED  BY <1>p, <2>1, <2>8, <3>3, <3>4 DEF GateIsPassedOnce
  <2>. QED  BY <2>6, <2>7, <2>8
<1>12. ASSUME NEW m \in Messages, ChargeCaptions(m) PROVE GateIsPassedOnce'
  BY <1>0, <1>12, CaptionsCharging DEF FollowsRoute, Spoken
<1>13. ASSUME NEW m \in Messages, RefuseByQuota(m) PROVE GateIsPassedOnce'
  <2>1. /\ At(m, "gating") /\ Alone(m) /\ Gone(m) /\ UNCHANGED <<tokens, lost>>
        /\ job'.run = Snap(m).run /\ job'.state = Snap(m).state
    BY <1>13, Refusing, HeldJobs DEF Jobs
  <2>2. platform = "reel" => messages[m].kind = "callback"
    BY <1>0, <2>1 DEF FollowsRoute, Gating
  <2>3. platform = "reel" => job'.run # NoRun /\ job'.state = "processed"
    BY <1>0, <2>1, <2>2 DEF Precedes, Snap
  <2>. QED  BY <1>p, <2>1, <2>3, PassageStays
<1>14. ASSUME NEW m \in Messages, PassGate(m) PROVE GateIsPassedOnce'
  <2>1. /\ At(m, "gating") /\ Alone(m) /\ KeepsName(m) /\ job' = job
        /\ messages'[m].phase = "dispatching"
    BY <1>14, Passing
  <2>2. \A n \in Messages \ {m} : ~At(n, "gating")
    BY <2>1 DEF GateIsPassedOnce
  <2>3. platform # "reel" =>
           \A n \in Messages \ {m} : messages[n].kind = "ingest" => messages[n].phase = "gone"
    BY <1>0, <2>1 DEF FollowsRoute, Gating
  <2>4. platform = "reel" => job.run # NoRun /\ job.state = "processed"
    BY <2>1 DEF GateIsPassedOnce
  <2>. QED  BY <1>p, <2>1, <2>2, <2>3, <2>4 DEF GateIsPassedOnce
<1>15. ASSUME NEW m \in Messages, Dispatch(m) PROVE GateIsPassedOnce'
  BY <1>p, <1>15, Dispatching, PassageStays
<1>16. ASSUME NEW m \in Messages, ExpireRun(m), MayExpire(job, messages[m].run)
       PROVE  GateIsPassedOnce'
  <2>1. job.state # "processed"
    BY <1>16, Expiring DEF Outstanding, Active, Claimed
  <2>. QED  BY <1>p, <1>16, <2>1, Expiring, PassageStays
<1>17. ASSUME NEW m \in Messages, GiveUp(m) PROVE GateIsPassedOnce'
  BY <1>p, <1>17, GivingUp, PassageStays DEF Claimed
<1>18. ASSUME Elsewhere PROVE GateIsPassedOnce'
  <2>1. Debited' => Debited
    <3>1. ASSUME NEW d \in Dispatches, SettleMinutes(d)
          PROVE  Debited' => Debited
      <4>1. dispatches[d].debited \in Nat /\ QuotaTypeOK
        BY DEF Typed, TypeOK
      <4>. QED  BY <3>1, <4>1, SettlementTypes DEF SettleMinutes
    <3>2. ASSUME NEW d \in Dispatches,
                 Transcribe(d) \/ FinishTranscription(d) \/ TranscriptionRaises(d)
          PROVE  UNCHANGED <<tokens, lost>>
      BY <3>2 DEF Transcribe, FinishTranscription, TranscriptionRaises
    <3>3. ASSUME LeaseExpires \/ \E r \in Runs : RunEnds(r) \/ Webhook(r)
          PROVE  UNCHANGED <<tokens, lost>>
      BY <3>3 DEF RunEnds, Webhook, LeaseExpires
    <3>. QED  BY <1>18, <3>1, <3>2, <3>3 DEF Elsewhere, TranscriptionStep
  <2>2. job'.run = job.run /\ (job.state = "processed" => job'.state = "processed")
    BY <1>18, Others
  <2>3. \A n \in Messages :
           \/ messages'[n] = messages[n]
           \/ messages'[n].kind = "callback" /\ messages'[n].phase = "queued"
    BY <1>18, Others
  <2>. QED  BY <1>p, <2>1, <2>2, <2>3, PassageStays
<1>. QED
  BY <1>1, <1>2, <1>3, <1>4, <1>5, <1>6, <1>7, <1>8, <1>9, <1>10, <1>11, <1>12, <1>13, <1>14,
     <1>15, <1>16, <1>17, <1>18, <1>0, NextSteps, Walkers DEF Writes, Spoken
-----------------------------------------------------------------------------
(* The bill                                                                *)

\* Few steps touch the counter, the messages of the transcription queue, or a
\* message that passed the gate.
LEMMA Payers ==
    ASSUME Typed, Next
    PROVE  \/ /\ UNCHANGED <<quotaVars, dispatches>>
              /\ \A n \in Messages : At(n, "dispatching")' => messages'[n] = messages[n]
           \/ \E m \in Messages : MeterPages(m) \/ ChargeCaptions(m) \/ PassGate(m) \/ Dispatch(m)
           \/ \E d \in Dispatches : TranscriptionStep(d) \/ TranscriptionRaises(d)
<1>. USE DEF Gone, Waits, Steps, Alone, At
<1>. DEFINE Quiet == /\ UNCHANGED <<quotaVars, dispatches>>
                     /\ \A n \in Messages : At(n, "dispatching")' => messages'[n] = messages[n]
<1>1. ASSUME NEW m \in Messages, NEW phase \in Phases, Walk(m, phase) PROVE Quiet
  <2>1. phase # "dispatching" /\ UNCHANGED <<quotaVars, dispatches>>
    BY <1>1 DEF Walk, Leads
  <2>. QED  BY <1>1, <2>1, Walking
<1>2. ASSUME NEW m \in Messages, Receive(m) PROVE Quiet
  BY <1>2, Receiving
<1>3. ASSUME NEW m \in Messages, MarkExtracting(m), platform # "youtube" PROVE Quiet
  BY <1>3, Marking
<1>4. ASSUME NEW m \in Messages, ParseFails(m) PROVE Quiet
  BY <1>4, ParseFailing
<1>5. ASSUME NEW m \in Messages, StartRun(m) PROVE Quiet
  BY <1>5, RunStarting
<1>6. ASSUME NEW m \in Messages, PersistRun(m) PROVE Quiet
  BY <1>6, RunPersisting
<1>7. ASSUME NEW m \in Messages, ArmBackstop(m) PROVE Quiet
  BY <1>7, BackstopArming
<1>8. ASSUME NEW m \in Messages, MarkArmed(m) PROVE Quiet
  BY <1>8, ArmedMarking
<1>9. ASSUME NEW m \in Messages, ClaimCallback(m), MayClaim(job, messages[m].run) PROVE Quiet
  BY <1>9, Claiming
<1>10. ASSUME NEW m \in Messages, EndRelay(m),
              messages[m].kind # "callback" \/ MayComplete(job, Snap(m).run)
       PROVE  Quiet
  BY <1>10, Ending
<1>11. ASSUME NEW m \in Messages, RefuseByQuota(m) PROVE Quiet
  BY <1>11, Refusing
<1>12. ASSUME NEW m \in Messages, ExpireRun(m), MayExpire(job, messages[m].run) PROVE Quiet
  BY <1>12, Expiring
<1>13. ASSUME NEW m \in Messages, GiveUp(m) PROVE Quiet
  BY <1>13, GivingUp
<1>14. ASSUME LeaseExpires \/ \E r \in Runs : RunEnds(r) \/ Webhook(r) PROVE Quiet
  <2>1. UNCHANGED <<quotaVars, dispatches>>
    BY <1>14 DEF LeaseExpires, RunEnds, Webhook
  <2>2. Elsewhere
    BY <1>14 DEF Elsewhere
  <2>. QED  BY <2>1, <2>2, Others
<1>. HIDE DEF Quiet
<1>15. ASSUME NEW m \in Messages, Walks(m) \/ Writes(m)
       PROVE  Quiet \/ MeterPages(m) \/ ChargeCaptions(m) \/ PassGate(m) \/ Dispatch(m)
  BY <1>1, <1>2, <1>3, <1>4, <1>5, <1>6, <1>7, <1>8, <1>9, <1>10, <1>11, <1>12, <1>13, <1>15,
     Walkers DEF Writes
<1>. QED  BY <1>14, <1>15, NextSteps DEF Elsewhere, Quiet

\* A step of the transcription worker keeps what its message carries, and pays
\* only to settle.
LEMMA TranscriptionPays ==
    ASSUME Typed, NEW d \in Dispatches, TranscriptionStep(d) \/ TranscriptionRaises(d)
    PROVE  /\ UNCHANGED <<platform, messages>> /\ Sent(d)
           /\ \A e \in Dispatches \ {d} : dispatches'[e] = dispatches[e]
           /\ dispatches'[d].debited = dispatches[d].debited
           /\ dispatches'[d].free = dispatches[d].free
           /\ \/ UNCHANGED quotaVars
              \/ ~dispatches[d].free /\ Settle(dispatches[d].debited)
<1>. dispatches \in [Dispatches -> DispatchRecords]
  BY DEF Typed, TypeOK, DispatchRecords
<1>1. CASE Transcribe(d)
  BY <1>1 DEF Transcribe, Sent, DispatchRecords
<1>2. CASE SettleMinutes(d)
  BY <1>2 DEF SettleMinutes, DispatchTo, Sent, DispatchRecords
<1>3. CASE FinishTranscription(d)
  BY <1>3 DEF FinishTranscription, DispatchTo, Sent, DispatchRecords
<1>4. CASE TranscriptionRaises(d)
  BY <1>4 DEF TranscriptionRaises, DispatchTo, Sent, DispatchRecords
<1>. QED  BY <1>1, <1>2, <1>3, <1>4 DEF TranscriptionStep

LEMMA OtherBillSteps ==
    ASSUME Typed, RoutesAreFollowed, OthersNeverSettle, Next
    PROVE  OthersNeverSettle'
<1>0. /\ QuotaTypeOK /\ charged \in Nat /\ platform' = platform
      /\ \A m \in Messages : FollowsRoute(m)
      /\ {Captions, Pages} \subseteq Nat \ {0}
  BY PlatformStays, QuotaAssumption DEF RoutesAreFollowed, Typed, TypeOK, QuotaTypeOK
<1>1. CASE UNCHANGED <<quotaVars, dispatches>>
  BY <1>0, <1>1 DEF OthersNeverSettle, Sent, quotaVars
<1>2. ASSUME NEW m \in Messages, MeterPages(m) PROVE OthersNeverSettle'
  <2>1. platform \in {"document", "images"} /\ dispatches' = dispatches
    BY <1>0, <1>2, Metering DEF FollowsRoute, At
  <2>2. CASE Charge(Pages, "gate")
    <3>1. tokens \in {{}, {"gate"}}
      BY <1>0, <2>1 DEF OthersNeverSettle, Spoken, QuotaTypeOK, Tokens
    <3>2. charged <= Pages /\ (tokens = {} => charged = 0)
      BY <2>1 DEF OthersNeverSettle, Spoken
    <3>3. /\ tokens' \in {{}, {"gate"}} /\ charged' <= Pages
          /\ tokens' = {} => charged' = 0
      BY <1>0, <2>2, <3>1, <3>2, Outcomes DEF Charge
    <3>4. untold' \subseteq tokens'
      BY <1>0, <2>2, Charges DEF Tokens, OthersNeverSettle
    <3>. QED  BY <1>0, <2>1, <3>3, <3>4 DEF OthersNeverSettle, Sent, Spoken
  <2>. QED  BY <1>1, <1>2, <2>1, <2>2, Metering DEF quotaVars
<1>3. ASSUME NEW m \in Messages, ChargeCaptions(m) PROVE OthersNeverSettle'
  <2>1. platform = "youtube" /\ dispatches' = dispatches /\ Charge(Captions, "gate")
    BY <1>0, <1>3, CaptionsCharging DEF FollowsRoute, At
  <2>2. tokens \in {{}, {"gate"}}
    BY <1>0, <2>1 DEF OthersNeverSettle, Spoken, QuotaTypeOK, Tokens
  <2>3. charged <= Captions /\ (tokens = {} => charged = 0)
    BY <2>1 DEF OthersNeverSettle, Spoken
  <2>4. /\ tokens' \in {{}, {"gate"}} /\ charged' <= Captions
        /\ tokens' = {} => charged' = 0
    BY <1>0, <2>1, <2>2, <2>3, Outcomes DEF Charge
  <2>5. untold' \subseteq tokens'
    BY <1>0, <2>1, Charges DEF Tokens, OthersNeverSettle
  <2>. QED  BY <1>0, <2>1, <2>4, <2>5 DEF OthersNeverSettle, Sent, Spoken
<1>4. ASSUME NEW m \in Messages, PassGate(m) PROVE OthersNeverSettle'
  <2>1. platform \in Spoken
    BY <1>0, <1>4, Passing DEF FollowsRoute, At, Gating, Spoken
  <2>2. tokens' = {} => charged' = 0
    BY <1>4, Passing, Outcomes DEF DebitGate, OthersNeverSettle, quotaVars
  <2>3. untold' \subseteq tokens'
    <3>1. PICK free \in BOOLEAN, told \in {0, GateMinutes} : DebitGate(free, told)
      BY <1>4, Passing
    <3>2. ASSUME ~free PROVE untold' \subseteq tokens'
      <4>1. Debit(GateMinutes, "gate", told) /\ GateMinutes \in Nat
        BY <3>1, <3>2, GateIsPositive DEF DebitGate
      <4>. QED  BY <1>0, <4>1, Debits DEF OthersNeverSettle, Tokens
    <3>. QED  BY <3>1, <3>2 DEF DebitGate, OthersNeverSettle, quotaVars
  <2>. QED  BY <1>0, <2>1, <2>2, <2>3 DEF OthersNeverSettle
<1>5. ASSUME NEW m \in Messages, Dispatch(m) PROVE OthersNeverSettle'
  <2>1. platform \in Spoken /\ UNCHANGED quotaVars
    BY <1>0, <1>5, Dispatching DEF FollowsRoute, At, Gating, Spoken
  <2>. QED  BY <1>0, <2>1 DEF OthersNeverSettle, quotaVars
<1>6. ASSUME NEW d \in Dispatches, TranscriptionStep(d) \/ TranscriptionRaises(d)
      PROVE  OthersNeverSettle'
  <2>1. platform \in Spoken
    BY <1>6, TranscriptionPays DEF OthersNeverSettle
  <2>2. tokens' = {} => charged' = 0
    BY <1>6, TranscriptionPays, Outcomes DEF Settle, Charge, OthersNeverSettle, quotaVars
  <2>3. untold' \subseteq tokens'
    <3>1. dispatches[d].debited \in Nat
      BY DEF Typed, TypeOK
    <3>2. ASSUME Settle(dispatches[d].debited) PROVE untold' \subseteq tokens'
      BY <1>0, <3>1, <3>2, SettlementTypes DEF OthersNeverSettle
    <3>. QED  BY <1>6, <3>2, TranscriptionPays DEF OthersNeverSettle, quotaVars
  <2>. QED  BY <1>0, <2>1, <2>2, <2>3 DEF OthersNeverSettle
<1>. QED  BY <1>1, <1>2, <1>3, <1>4, <1>5, <1>6, Payers

LEMMA GateBillSteps ==
    ASSUME Typed, RoutesAreFollowed, GateIsPassedOnce, GateIsSettled, OthersNeverSettle, Next
    PROVE  GateIsSettled'
<1>0. /\ QuotaTypeOK /\ charged \in Nat /\ platform' = platform
      /\ \A m \in Messages : FollowsRoute(m)
      /\ Billed \in Nat \ {0} /\ GateMinutes \in Nat \ {0}
  BY PlatformStays, QuotaAssumption, GateIsPositive
     DEF RoutesAreFollowed, Typed, TypeOK, QuotaTypeOK
<1>. SUFFICES ASSUME GateIsSure(platform) PROVE GateIsSettled'
  BY <1>0 DEF GateIsSettled
<1>. DEFINE Carried(n) == At(n, "dispatching") /\ ~messages[n].free =>
                             messages[n].debited = Told /\ Debited
            Owed(d) == Sent(d) /\ ~dispatches[d].free =>
                          dispatches[d].debited = Told /\ Debited
            Billing == /\ "settle" \in tokens => Debited /\ charged <= Larger + Silent
                       /\ "settle" \notin tokens /\ "gate" \in tokens => charged = GateMinutes
<1>00. /\ \A n \in Messages : Carried(n)
       /\ \A d \in Dispatches : Owed(d)
       /\ Billing
  BY DEF GateIsSettled
<1>s. SUFFICES /\ \A n \in Messages : Carried(n)'
               /\ \A d \in Dispatches : Owed(d)'
               /\ Billing'
  BY DEF GateIsSettled
<1>1. CASE /\ UNCHANGED <<quotaVars, dispatches>>
           /\ \A n \in Messages : At(n, "dispatching")' => messages'[n] = messages[n]
  BY <1>00, <1>1 DEF At, Sent, quotaVars, Debited, Told, Silent
<1>2. ASSUME NEW m \in Messages, MeterPages(m) \/ ChargeCaptions(m) PROVE FALSE
  BY <1>0, <1>2, Metering, CaptionsCharging DEF FollowsRoute, At, GateIsSure, Spoken
<1>3. ASSUME NEW m \in Messages, PassGate(m)
      PROVE  /\ \A n \in Messages : Carried(n)'
             /\ \A d \in Dispatches : Owed(d)'
             /\ Billing'
  <2>1. /\ At(m, "gating") /\ Alone(m) /\ dispatches' = dispatches
        /\ messages'[m].phase = "dispatching"
    BY <1>3, Passing
  <2>2. PICK free \in BOOLEAN, told \in {0, GateMinutes} :
           /\ DebitGate(free, told)
           /\ messages'[m].debited = told /\ messages'[m].free = free
    BY <1>3, Passing
  <2>3. ~Debited /\ "gate" \notin tokens /\ "settle" \notin tokens
    BY <1>00, <2>1 DEF GateIsPassedOnce, Debited
  <2>4. \A d \in Dispatches : ~(Sent(d) /\ ~dispatches[d].free)
    BY <1>00, <2>3
  <2>5. \A n \in Messages : ~(At(n, "dispatching") /\ ~messages[n].free)
    BY <1>00, <2>3
  <2>6. CASE free
    BY <1>00, <2>1, <2>2, <2>4, <2>5, <2>6
       DEF DebitGate, quotaVars, Alone, At, Sent, Debited, Told, Silent
  <2>7. CASE ~free
    <3>1. tokens = {} /\ charged = 0
      BY <1>0, <2>3 DEF QuotaTypeOK, Tokens, OthersNeverSettle
    <3>2. Debit(GateMinutes, "gate", told)
      BY <2>2, <2>7 DEF DebitGate
    <3>3. Debited' /\ told = Told'
      <4>1. "gate" \notin tokens /\ "gate" \notin untold
        BY <2>3 DEF OthersNeverSettle
      <4>. QED  BY <3>2, <4>1, Outcomes DEF Debited, Told
    <3>4. "settle" \notin tokens' /\ ("gate" \in tokens' => charged' = GateMinutes)
      BY <1>0, <3>1, <3>2, Outcomes
    <3>. QED  BY <2>1, <2>2, <2>4, <2>5, <3>3, <3>4 DEF Alone, At, Sent
  <2>. QED  BY <2>6, <2>7
<1>4. ASSUME NEW m \in Messages, Dispatch(m)
      PROVE  /\ \A n \in Messages : Carried(n)'
             /\ \A d \in Dispatches : Owed(d)'
             /\ Billing'
  <2>1. At(m, "dispatching") /\ Alone(m) /\ Gone(m) /\ UNCHANGED quotaVars
    BY <1>4, Dispatching
  <2>2. PICK d \in Dispatches :
           /\ \A e \in Dispatches \ {d} : dispatches'[e] = dispatches[e]
           /\ dispatches'[d].free = messages[m].free
           /\ dispatches'[d].debited = messages[m].debited
    BY <1>4, Dispatching
  <2>. QED  BY <1>00, <2>1, <2>2 DEF Alone, Gone, At, Sent, quotaVars, Debited, Told, Silent
<1>5. ASSUME NEW d \in Dispatches, TranscriptionStep(d) \/ TranscriptionRaises(d)
      PROVE  /\ \A n \in Messages : Carried(n)'
             /\ \A e \in Dispatches : Owed(e)'
             /\ Billing'
  <2>1. /\ messages' = messages /\ Sent(d)
        /\ \A e \in Dispatches \ {d} : dispatches'[e] = dispatches[e]
        /\ dispatches'[d].debited = dispatches[d].debited
        /\ dispatches'[d].free = dispatches[d].free
    BY <1>5, TranscriptionPays
  <2>2. CASE UNCHANGED quotaVars
    BY <1>00, <2>1, <2>2 DEF At, Sent, quotaVars, Debited, Told, Silent
  <2>3. CASE ~dispatches[d].free /\ Settle(dispatches[d].debited)
    <3>1. dispatches[d].debited = Told /\ Debited
      BY <1>00, <2>1, <2>3
    <3>2. Told \in Nat /\ Silent \in Nat
      BY <1>0 DEF Told, Silent
    <3>3. CASE Billed <= Told
      BY <1>00, <2>1, <2>3, <3>1, <3>3
         DEF Settle, At, Sent, quotaVars, Debited, Told, Silent
    <3>4. CASE ~(Billed <= Told)
      <4>. DEFINE rest == Billed - Told
      <4>1. rest \in Nat
        BY <1>0, <3>2, <3>4
      <4>2. PICK told : Debit(rest, "settle", told)
        BY <2>3, <3>1, <3>4 DEF Settle, Charge
      <4>3. /\ ("gate" \in tokens') <=> ("gate" \in tokens)
            /\ ("gate" \in lost') <=> ("gate" \in lost)
            /\ ("gate" \in untold') <=> ("gate" \in untold)
        BY <1>0, <4>1, <4>2, Debits DEF Tokens
      <4>4. Debited' /\ Told' = Told /\ Silent' = Silent
        BY <3>1, <4>3 DEF Debited, Told, Silent
      <4>5. "settle" \notin tokens => charged + rest <= Larger + Silent
        <5>1. "gate" \notin tokens /\ "settle" \notin tokens => charged = 0
          <6>1. "gate" \notin tokens /\ "settle" \notin tokens => tokens = {}
            BY <1>0 DEF QuotaTypeOK, Tokens
          <6>. QED  BY <6>1 DEF OthersNeverSettle
        <5>2. CASE "gate" \notin tokens
          BY <1>0, <3>2, <5>1, <5>2 DEF Told, Larger
        <5>3. CASE "gate" \in tokens /\ "gate" \in untold
          BY <1>0, <1>00, <5>3 DEF Told, Silent, Larger
        <5>4. CASE "gate" \in tokens /\ "gate" \notin untold
          BY <1>0, <1>00, <5>4 DEF Told, Silent, Larger
        <5>. QED  BY <5>2, <5>3, <5>4
      <4>. HIDE DEF rest
      <4>6. Billing'
        <5>1. CASE "settle" \in tokens
          <6>1. UNCHANGED <<charged, tokens>>
            BY <4>2, <5>1, Outcomes
          <6>. QED  BY <1>00, <4>3, <4>4, <5>1, <6>1
        <5>2. CASE "settle" \notin tokens
          BY <1>0, <1>00, <4>2, <4>3, <4>4, <4>5, <5>2, Outcomes
        <5>. QED  BY <5>1, <5>2
      <4>. QED  BY <1>00, <2>1, <3>1, <4>4, <4>6 DEF At, Sent
    <3>. QED  BY <3>3, <3>4
  <2>. QED  BY <1>5, <2>2, <2>3, TranscriptionPays
<1>. QED  BY <1>1, <1>2, <1>3, <1>4, <1>5, Payers
-----------------------------------------------------------------------------
(* Theorems                                                                *)

LEMMA Initially ==
    ASSUME Init
    PROVE  IInv
<1>0. MaxReceives \in Nat \ {0} /\ Ingest \in Messages /\ NoRun \notin Runs
  BY BoundsAssumption, RunsAssumption
<1>. DEFINE first == NewMessage("ingest", NoRun, TRUE, "queued")
<1>1. /\ first \in MessageRecords /\ first.phase = "queued" /\ first.receives = 0
      /\ first.kind = "ingest" /\ first.snap = NewJob /\ first.debited = 0
  BY NewMessages DEF NewMessage, Kinds, Phases
<1>2. /\ NoMessage \in MessageRecords /\ NoMessage.phase = "gone"
      /\ NoMessage.kind = "ingest" /\ NoMessage.snap = NewJob /\ NoMessage.debited = 0
  <2>1. NoMessage \in MessageRecords
    BY NewMessages DEF NoMessage, Kinds, Phases
  <2>. QED  BY <2>1 DEF NoMessage, NewMessage
<1>3. messages = [m \in Messages |-> IF m = Ingest THEN first ELSE NoMessage]
  BY DEF Init
<1>. HIDE DEF first, NoMessage
<1>4. /\ NewJob \in Jobs /\ NewJob.run = NoRun /\ NewJob.state = "none"
  BY DEF NewJob, Jobs, Statuses, States
<1>5. job \in Jobs /\ job.run = NoRun /\ job.state = "none"
  <2>1. SubmittedAs(platform) \subseteq Statuses
    BY DEF SubmittedAs, Statuses
  <2>2. PICK status \in Statuses : job = [NewJob EXCEPT !.status = status]
    BY <2>1 DEF Init
  <2>. QED  BY <1>4, <2>2, WrittenJobs DEF Jobs
<1>6. /\ NewDispatch \in DispatchRecords /\ NewDispatch.phase = "unsent"
      /\ NewDispatch.receives = 0 /\ NewDispatch.debited = 0
  BY <1>0 DEF NewDispatch, DispatchRecords, DispatchPhases
<1>7. \A d \in Dispatches : dispatches[d] = NewDispatch
  BY DEF Init
<1>8. /\ QuotaTypeOK /\ charged = 0 /\ tokens = {} /\ lost = {} /\ untold = {}
  BY DEF Init, QuotaInit, QuotaTypeOK
<1>9. Typed
  <2>1. messages \in [Messages -> MessageRecords]
    BY <1>1, <1>2, <1>3
  <2>2. dispatches \in [Dispatches -> DispatchRecords]
    BY <1>6 DEF Init
  <2>3. apify \in [Runs -> [status : {"unused", "running", "succeeded", "aborted"},
                            calls : 0 .. Calls]]
    BY BoundsAssumption DEF Init, Unused
  <2>4. TypeOK
    BY <1>5, <1>8, <2>1, <2>2, <2>3 DEF Init, TypeOK, MessageRecords, DispatchRecords
  <2>5. DeliveriesAreLeft
    BY <1>0, <1>1, <1>2, <1>3, <1>6, <1>7 DEF DeliveriesAreLeft, At
  <2>. QED  BY <2>4, <2>5 DEF Typed
<1>10. \A m \in Messages : /\ messages[m].kind = "ingest" /\ messages[m].snap = NewJob
                           /\ messages[m].debited = 0
                           /\ messages[m].phase \in {"gone", "queued"}
                           /\ messages[m].phase # "gone" => m = Ingest
  BY <1>1, <1>2, <1>3
<1>11. RoutesAreFollowed
  BY <1>10 DEF RoutesAreFollowed, FollowsRoute, Starting, Gating
<1>12. RunsAreHeld
  BY <1>4, <1>5, <1>10 DEF RunsAreHeld, Snap, At
<1>13. WritesPrecedeRuns
  BY <1>4, <1>5, <1>10 DEF WritesPrecedeRuns, Precedes
<1>14. ContinuedIsClaimed
  BY <1>10 DEF ContinuedIsClaimed, ClaimsHold, ClaimIsKept, ClaimIsSingle, Continuing
<1>15. DebitsAreCharged
  BY <1>6, <1>7, <1>8, <1>10 DEF DebitsAreCharged
<1>16. GateIsPassedOnce /\ GateIsSettled
  BY <1>6, <1>7, <1>8, <1>10 DEF GateIsPassedOnce, GateIsSettled, At, Sent, Debited
<1>17. OthersNeverSettle
  BY <1>6, <1>7, <1>8, QuotaAssumption DEF OthersNeverSettle, Sent
<1>. QED  BY <1>9, <1>11, <1>12, <1>13, <1>14, <1>15, <1>16, <1>17 DEF IInv

LEMMA Unchanging ==
    ASSUME IInv, UNCHANGED vars
    PROVE  IInv'
<1>1. Typed'
  BY DEF IInv, Typed, TypeOK, QuotaTypeOK, DeliveriesAreLeft, At, vars, quotaVars, relayVars
<1>2. RoutesAreFollowed' /\ RunsAreHeld'
  BY DEF IInv, RoutesAreFollowed, FollowsRoute, RunsAreHeld, Used, Snap, At, vars, quotaVars,
       relayVars
<1>3. WritesPrecedeRuns' /\ ContinuedIsClaimed'
  BY DEF IInv, WritesPrecedeRuns, Precedes, ContinuedIsClaimed, ClaimsHold, ClaimIsKept,
         ClaimIsSingle, Continuing,
         vars, quotaVars, relayVars
<1>4. DebitsAreCharged' /\ OthersNeverSettle'
  BY DEF IInv, DebitsAreCharged, Paid, OthersNeverSettle, Sent, vars, quotaVars, relayVars
<1>5. GateIsPassedOnce' /\ GateIsSettled'
  BY DEF IInv, GateIsPassedOnce, GateIsSettled, Debited, Told, Silent, Sent, At, vars,
         quotaVars, relayVars
<1>. QED  BY <1>1, <1>2, <1>3, <1>4, <1>5 DEF IInv

LEMMA EveryStepKeeps ==
    ASSUME IInv, [Next]_vars
    PROVE  IInv'
<1>1. ASSUME Next PROVE IInv'
  <2>0. /\ Typed /\ RoutesAreFollowed /\ RunsAreHeld /\ WritesPrecedeRuns /\ ContinuedIsClaimed
        /\ DebitsAreCharged /\ GateIsPassedOnce /\ GateIsSettled /\ OthersNeverSettle
    BY DEF IInv
  <2>1. Typed'
    BY <1>1, <2>0, NextSteps, MessageTypes, OtherTypes
  <2>2. RoutesAreFollowed' /\ RunsAreHeld' /\ WritesPrecedeRuns' /\ ContinuedIsClaimed'
    BY <1>1, <2>0, RouteSteps, RunSteps, WriteSteps, ClaimSteps
  <2>3. DebitsAreCharged' /\ OthersNeverSettle'
    BY <1>1, <2>0, DebitSteps, OtherBillSteps
  <2>4. GateIsPassedOnce' /\ GateIsSettled'
    BY <1>1, <2>0, PassageSteps, GateBillSteps
  <2>. QED  BY <2>1, <2>2, <2>3, <2>4 DEF IInv
<1>. QED  BY <1>1, Unchanging

-----------------------------------------------------------------------------
(* The podcast worker taken apart                                          *)

\* What the resolver adds to the relay: the job written as it was read, and a
\* link that was lost.
LEMMA WorkersAddTwoSteps ==
    ASSUME WorkersNext
    PROVE  \/ Next
           \/ UNCHANGED vars
           \/ \E m \in Messages : RecordEpisode(m) \/ LoseLink(m)
<1>1. ASSUME NEW m \in Messages, PodcastStep(m)
      PROVE  MessageStep(m) \/ UNCHANGED vars \/ RecordEpisode(m) \/ LoseLink(m)
  BY <1>1 DEF PodcastStep, MessageStep, ReceiveLink, Seek, FetchTranscript, vars, relayVars
<1>2. ASSUME NEW m \in Messages, WorkerStep(m) \/ WorkerFails(m)
      PROVE  Next \/ UNCHANGED vars \/ RecordEpisode(m) \/ LoseLink(m)
  BY <1>1, <1>2 DEF WorkerStep, WorkerFails, Next
<1>3. ASSUME NEW d \in Dispatches, TranscriberStep(d) \/ TranscriptionRaises(d)
      PROVE  Next
  BY <1>3 DEF TranscriberStep, PodcastTranscribed, TranscriptionStep, Next
<1>4. ASSUME FeedGrows PROVE UNCHANGED vars
  BY <1>4 DEF FeedGrows, vars
<1>. QED  BY <1>2, <1>3, <1>4 DEF WorkersNext, Next

\* A podcast's job and its messages know of no run.
LEMMA Recording ==
    ASSUME IInv, NEW m \in Messages, RecordEpisode(m)
    PROVE  /\ platform = "podcast" /\ At(m, "extracting") /\ messages[m].kind = "ingest"
           /\ job' = Snap(m) /\ job'.run = NoRun /\ job.run = NoRun
           /\ UNCHANGED <<quotaVars, platform, stored, apify, messages, dispatches, announced>>
<1>1. /\ platform = "podcast" /\ At(m, "extracting") /\ job' = Snap(m)
      /\ UNCHANGED <<quotaVars, platform, stored, apify, messages, dispatches, announced>>
  BY DEF RecordEpisode, Seeking
<1>2. messages[m].kind = "ingest"
  BY <1>1 DEF IInv, RoutesAreFollowed, FollowsRoute, At
<1>3. Precedes(m)
  BY <1>1 DEF IInv, WritesPrecedeRuns, Fresh, Instagram
<1>. QED  BY <1>1, <1>2, <1>3 DEF Precedes, Persisted, Over, At, Snap

LEMMA RecordingKeeps ==
    ASSUME IInv, NEW m \in Messages, RecordEpisode(m)
    PROVE  IInv'
<1>0. /\ platform = "podcast" /\ At(m, "extracting") /\ messages[m].kind = "ingest"
      /\ job' = Snap(m) /\ job'.run = NoRun /\ job.run = NoRun
      /\ UNCHANGED <<quotaVars, platform, stored, apify, messages, dispatches, announced>>
  BY Recording
<1>1. Typed'
  BY <1>0, HeldJobs, Fitting DEF IInv
<1>2. RoutesAreFollowed'
  BY <1>0 DEF IInv, RoutesAreFollowed, FollowsRoute
<1>3. RunsAreHeld'
  BY <1>0, RunsStay DEF IInv
<1>4. WritesPrecedeRuns'
  BY <1>0, PrecedeAlone DEF IInv, WritesPrecedeRuns
<1>5. ContinuedIsClaimed'
  <2>1. \A n \in Messages : messages[n].kind = "callback" => messages[n].run # job'.run
    BY <1>0, RunsAssumption DEF IInv, RunsAreHeld, Used
  <2>2. \A n \in Messages :
           Continuing(n)' => Continuing(n) /\ messages'[n].run = messages[n].run
    BY <1>0 DEF Continuing
  <2>. QED  BY <1>0, <2>1, <2>2, ClaimsOfOtherRuns DEF IInv, ContinuedIsClaimed
<1>6. DebitsAreCharged' /\ OthersNeverSettle'
  BY <1>0 DEF IInv, DebitsAreCharged, Paid, OthersNeverSettle, Sent, quotaVars
<1>7. GateIsPassedOnce' /\ GateIsSettled'
  BY <1>0 DEF IInv, GateIsPassedOnce, GateIsSettled, Debited, Told, Silent, Sent, At, quotaVars
<1>. QED  BY <1>1, <1>2, <1>3, <1>4, <1>5, <1>6, <1>7 DEF IInv

LEMMA LosingKeeps ==
    ASSUME IInv, NEW m \in Messages, LoseLink(m)
    PROVE  IInv'
<1>. USE DEF Gone, Waits, KeepsName, Alone, At
<1>0. /\ platform = "podcast" /\ At(m, "extracting") /\ Typed
      /\ UNCHANGED <<quotaVars, platform, job, stored, apify, dispatches, announced>>
      /\ messages[m].kind = "ingest" /\ FollowsRoute(m) /\ NewJob.run = NoRun
  BY DEF IInv, LoseLink, Seeking, RoutesAreFollowed, FollowsRoute, NewJob
<1>1. Waits(m) \/ (Alone(m) /\ Gone(m))
  BY <1>0, GoingGone, GoingQueued DEF LoseLink, Again
<1>2. Typed'
  <2>1. MessagesFit
    BY <1>0, Going DEF LoseLink, Again, MessagesFit, Phases
  <2>. QED  BY <1>0, <2>1, Fitting
<1>3. RoutesAreFollowed'
  <2>1. FollowsRoute(m)'
    BY <1>0, <1>1 DEF FollowsRoute, Starting, Gating
  <2>. QED  BY <1>0, <1>1, <2>1, RouteAlone DEF IInv
<1>4. RunsAreHeld'
  BY <1>0, <1>1, RunsStay DEF IInv
<1>5. WritesPrecedeRuns'
  <2>1. Fresh(platform) => Precedes(m) /\ Precedes(m)'
    BY <1>0, <1>1 DEF IInv, WritesPrecedeRuns, Precedes, Persisted, Over
  <2>. QED  BY <1>0, <1>1, <2>1, PrecedeAlone DEF IInv, WritesPrecedeRuns
<1>6. ContinuedIsClaimed'
  <2>1. \A n \in Messages :
           Continuing(n)' => Continuing(n) /\ messages'[n].run = messages[n].run
    BY <1>0, <1>1 DEF Continuing
  <2>. QED  BY <1>0, <2>1, ClaimsStand DEF IInv, ContinuedIsClaimed
<1>7. DebitsAreCharged'
  <2>1. charged' \in Nat /\ charged' >= charged
    BY <1>0 DEF Typed, TypeOK, QuotaTypeOK, quotaVars
  <2>. QED  BY <1>0, <1>1, <2>1, DebitsStay DEF IInv, quotaVars
<1>8. GateIsPassedOnce'
  BY <1>0, <1>1, PassageStays DEF IInv, GateIsPassedOnce, Debited, quotaVars
<1>9. GateIsSettled' /\ OthersNeverSettle'
  BY <1>0, <1>1 DEF IInv, GateIsSettled, Debited, Told, Silent, OthersNeverSettle, Sent, quotaVars
<1>. QED  BY <1>2, <1>3, <1>4, <1>5, <1>6, <1>7, <1>8, <1>9 DEF IInv

LEMMA EveryWorkersStepKeeps ==
    ASSUME IInv, [WorkersNext]_workersVars
    PROVE  IInv'
<1>1. CASE WorkersNext
  BY <1>1, WorkersAddTwoSteps, EveryStepKeeps, RecordingKeeps, LosingKeeps
<1>2. CASE UNCHANGED workersVars
  BY <1>2, Unchanging DEF workersVars
<1>. QED  BY <1>1, <1>2

-----------------------------------------------------------------------------
(* Whose text a podcast has                                                *)

\* A podcast has one message and no run.
PodcastsRunNothing ==
    platform = "podcast" =>
        /\ job.run = NoRun
        /\ \A m \in Messages : messages[m].kind = "ingest" /\ Snap(m).run = NoRun

Guided == \A f \in 1..FeedCount : \A k \in DOMAIN link.feeds[f] : link.feeds[f][k].guid

SeekIsARecord ==
    seek = [pc |-> seek.pc, attempt |-> seek.attempt, queue |-> seek.queue,
            missed |-> seek.missed, held |-> seek.held, guid |-> seek.guid,
            words |-> seek.words]

ResolverFits == link \in LinkKinds /\ SeekIsARecord /\ IsFiniteSet(answers)

\* The phases of a worker that has its answer.
Answered == {"storing", "completing", "handing", "gating", "dispatching"}

\* The episode is written into the job before anything is done with it, and a
\* delivery holds what an earlier one wrote until it looks for one itself.
EpisodesAreRecorded ==
    platform = "podcast" =>
        /\ answers # {} => named \in answers
        /\ seek.pc \in {"transcript", "over"} => seek.held \in answers
        /\ \A m \in Messages :
              /\ At(m, "received") => seek.held = named
              /\ messages[m].phase \in Answered => seek.pc = "over"
        /\ \A d \in Dispatches : Sent(d) => carried[d] \in answers

\* The item looked for is that of the episode held.
GuidIsOfTheHeld ==
    /\ seek.pc = "enrich" => seek.guid = seek.held /\ seek.held \in Episodes
    /\ seek.pc \in {"found", "transcript"} => seek.guid \in {NoEpisode, seek.held}

\* While the feeds carry guids, the text stored is of an episode that was
\* recorded.
TextsAreOfAnswers ==
    platform = "podcast" /\ Guided =>
        /\ GuidIsOfTheHeld
        /\ \A m \in Messages : At(m, "storing") => seek.words = seek.held
        /\ \/ text \in answers
           \/ /\ job.status # "completed"
              /\ \A m \in Messages : ~At(m, "completing") /\ Snap(m).status # "completed"

PodcastInv == ResolverFits /\ PodcastsRunNothing /\ EpisodesAreRecorded /\ TextsAreOfAnswers

LEMMA FirstIsIn ==
    ASSUME NEW S, S \subseteq Nat, S # {}
    PROVE  First(S) \in S
<1>. DEFINE Less == OpToRel(<, Nat)
<1>1. \A j, k \in Nat : j < k => <<j, k>> \in Less
  BY DEF OpToRel
<1>2. IsWellFoundedOn(Less, Nat)
  BY NatLessThanWellFounded
<1>. HIDE DEF Less
<1>3. PICK k \in S : \A j \in S : ~(<<j, k>> \in Less)
  BY <1>2, WFMin
<1>4. ASSUME NEW j \in S PROVE k <= j
  <2>1. j \in Nat /\ k \in Nat
    OBVIOUS
  <2>2. ~(j < k)
    BY <1>1, <1>3, <2>1
  <2>. QED  BY <2>1, <2>2
<1>. QED  BY <1>4 DEF First

\* Whatever the resolver does, the guid is that of the episode it holds.
LEMMA Resolving ==
    ASSUME ResolverFits, Guided => GuidIsOfTheHeld, Seeks
    PROVE  /\ SeekIsARecord'
           /\ seek'.pc \notin {"transcript", "over"}
           /\ Guided => GuidIsOfTheHeld'
<1>. DEFINE Goal == /\ SeekIsARecord'
                    /\ seek'.pc \notin {"transcript", "over"}
                    /\ Guided => GuidIsOfTheHeld'
<1>. USE DEF ResolverFits, SeekIsARecord, GuidIsOfTheHeld
<1>1. ASSUME NEW pc \in {"lost", "search", "direct", "show"}, SeekTo(pc) PROVE Goal
  BY <1>1 DEF SeekTo
<1>2. ASSUME Lose PROVE Goal
  BY <1>1, <1>2 DEF Lose
<1>3. ASSUME Retry PROVE Goal
  BY <1>2, <1>3 DEF Retry, NoSeek
<1>4. ASSUME NEW entry, NEW guid \in {NoEpisode, entry.id}, Hold(entry, guid) PROVE Goal
  BY <1>4 DEF Hold
<1>5. ASSUME RssDocument PROVE Goal
  <2>. DEFINE entries == link.feeds[1]
              entry == entries[First(Playable(entries))]
  <2>1. CASE Lose \/ Retry
    BY <1>2, <1>3, <2>1
  <2>2. CASE /\ Playable(entries) # {}
             /\ seek' = [seek EXCEPT !.pc = "enrich", !.held = entry.id,
                            !.guid = IF entry.guid THEN entry.id ELSE NoEpisode]
    <3>1. entries \in Seq(Entries) /\ 1 \in 1..FeedCount
      BY LinksAssumption DEF LinkKinds
    <3>2. Playable(entries) \subseteq Nat /\ Playable(entries) \subseteq DOMAIN entries
      BY <3>1 DEF Playable
    <3>. DEFINE k == First(Playable(entries))
    <3>3. k \in DOMAIN entries
      BY <2>2, <3>2, FirstIsIn
    <3>. HIDE DEF k
    <3>4. link.feeds[1][k] \in Entries
      BY <3>1, <3>3
    <3>5. entry.id \in Episodes
      BY <3>4 DEF Entries, k
    <3>6. Guided => entry.guid
      BY <3>1, <3>3 DEF Guided, k
    <3>. QED  BY <2>2, <3>5, <3>6
  <2>. QED  BY <1>5, <2>1, <2>2 DEF RssDocument
<1>6. ASSUME ReadLink PROVE Goal
  BY <1>1, <1>2, <1>3, <1>5, <1>6
     DEF ReadLink, SpotifyMetadata, AppleMetadata, DeezerMetadata
<1>7. ASSUME DirectLookup PROVE Goal
  <2>1. CASE seek' = [seek EXCEPT !.pc = "show", !.missed = TRUE]
    BY <2>1
  <2>. QED  BY <1>1, <1>4, <1>7, <2>1 DEF DirectLookup
<1>8. ASSUME ShowLookup PROVE Goal
  BY <1>8 DEF ShowLookup
<1>9. ASSUME SearchFeeds PROVE Goal
  <2>1. ASSUME NEW queue, seek' = [seek EXCEPT !.pc = "feed", !.queue = queue] PROVE Goal
    BY <2>1
  <2>2. CASE seek' = [seek EXCEPT !.pc = "feed", !.missed = TRUE]
    BY <2>2
  <2>. QED  BY <1>2, <1>3, <1>9, <2>1, <2>2 DEF SearchFeeds
<1>10. ASSUME NextFeed PROVE Goal
  <2>1. ASSUME NEW entries, Matched(entries) PROVE Goal
    BY <1>2, <1>4, <2>1 DEF Matched
  <2>. QED  BY <1>10, <2>1 DEF NextFeed
<1>11. ASSUME NoFeedLeft PROVE Goal
  BY <1>2, <1>11 DEF NoFeedLeft
<1>12. ASSUME Enrich PROVE Goal
  BY <1>12, LinksAssumption DEF Enrich, SeekTo, MergedGuid
<1>. QED  BY <1>6, <1>7, <1>8, <1>9, <1>10, <1>11, <1>12 DEF Seeks

\* A feed that grows carries guids no sooner than it did.
LEMMA Growing ==
    ASSUME link \in LinkKinds, FeedGrows
    PROVE  link' \in LinkKinds /\ (Guided' => Guided)
<1>. DEFINE old == link.feeds[1]
<1>1. PICK guid \in BOOLEAN : link' = [link EXCEPT !.feeds[1] =
          <<[id |-> NewEpisode, like |-> 0, audio |-> TRUE, guid |-> guid, known |-> FALSE]>> \o @]
  BY DEF FeedGrows
<1>. DEFINE new == [id |-> NewEpisode, like |-> 0, audio |-> TRUE, guid |-> guid, known |-> FALSE]
<1>2. old \in Seq(Entries) /\ 1 \in 1..FeedCount /\ link.feeds \in [1..FeedCount -> Seq(Entries)]
  BY LinksAssumption DEF LinkKinds
<1>3. new \in Entries
  BY LinksAssumption DEF Entries
<1>. HIDE DEF new
<1>4. /\ <<new>> \o old \in Seq(Entries)
      /\ \A k \in DOMAIN old : k + 1 \in DOMAIN (<<new>> \o old) /\ (<<new>> \o old)[k + 1] = old[k]
  BY <1>2, <1>3
<1>5. link' = [link EXCEPT !.feeds = [link.feeds EXCEPT ![1] = <<new>> \o old]]
  BY <1>1 DEF LinkKinds, new
<1>6. [link.feeds EXCEPT ![1] = <<new>> \o old] \in [1..FeedCount -> Seq(Entries)]
  BY <1>2, <1>4
<1>7. link' \in LinkKinds /\ link'.feeds = [link.feeds EXCEPT ![1] = <<new>> \o old]
  BY <1>5, <1>6 DEF LinkKinds
<1>8. ASSUME Guided', NEW f \in 1..FeedCount, NEW k \in DOMAIN link.feeds[f]
      PROVE  link.feeds[f][k].guid
  <2>1. CASE f # 1
    BY <1>2, <1>7, <1>8, <2>1 DEF Guided
  <2>2. CASE f = 1
    <3>1. link'.feeds[1] = <<new>> \o old
      BY <1>2, <1>7
    <3>2. k + 1 \in DOMAIN link'.feeds[1] /\ link'.feeds[1][k + 1] = link.feeds[f][k]
      BY <1>4, <1>8, <2>2, <3>1
    <3>. QED  BY <1>2, <1>8, <3>2 DEF Guided
  <2>. QED  BY <2>1, <2>2
<1>. QED  BY <1>7, <1>8 DEF Guided

LEMMA WorkersPlatformStays ==
    ASSUME WorkersNext
    PROVE  platform' = platform
  BY WorkersAddTwoSteps, PlatformStays DEF vars, relayVars, RecordEpisode, LoseLink

\* The message waits again, or is over.
Leaves(m) == Waits(m) \/ (Alone(m) /\ Gone(m))

\* The parts of the invariant that speak of the messages, for the one that moves.
LEMMA RunsNothingStill ==
    ASSUME PodcastsRunNothing, platform = "podcast", job'.run = NoRun,
           \A n \in Messages :
              \/ messages'[n] = messages[n]
              \/ messages'[n].kind = "ingest" /\ messages'[n].snap.run = NoRun
    PROVE  PodcastsRunNothing'
  BY DEF PodcastsRunNothing, Snap

LEMMA RecordedStill ==
    ASSUME EpisodesAreRecorded, platform = "podcast",
           UNCHANGED <<answers, named>>,
           seek'.pc \in {"transcript", "over"} => seek'.held \in answers,
           \A n \in Messages :
              \/ messages'[n] = messages[n] /\ messages[n].phase = "gone"
              \/ /\ messages'[n].phase = "received" => seek'.held = named
                 /\ messages'[n].phase \in Answered => seek'.pc = "over",
           \A d \in Dispatches :
              dispatches'[d].phase # "unsent" => Sent(d) /\ carried'[d] = carried[d]
    PROVE  EpisodesAreRecorded'
  BY DEF EpisodesAreRecorded, At, Sent, Answered

LEMMA TextsStill ==
    ASSUME TextsAreOfAnswers, platform = "podcast", Guided' => Guided,
           answers \subseteq answers', text' \in {text} \cup answers',
           Guided => GuidIsOfTheHeld',
           \A n \in Messages :
              /\ messages'[n].phase = "storing" /\ Guided => seek'.words = seek'.held
              /\ messages'[n].phase = "completing" =>
                    messages[n].phase = "completing" \/ (Guided => text' \in answers')
              /\ messages'[n].snap.status = "completed" =>
                    \/ messages[n].snap.status = "completed"
                    \/ job.status = "completed"
                    \/ messages[n].phase = "completing"
                    \/ Guided => text' \in answers',
           job'.status = "completed" =>
              \/ job.status = "completed"
              \/ \E n \in Messages : messages[n].snap.status = "completed"
              \/ \E n \in Messages : messages[n].phase = "completing"
              \/ Guided => text' \in answers'
    PROVE  TextsAreOfAnswers'
<1>. SUFFICES ASSUME platform' = "podcast", Guided' PROVE TextsAreOfAnswers'
  BY DEF TextsAreOfAnswers
<1>1. GuidIsOfTheHeld' /\ \A m \in Messages : At(m, "storing")' => seek'.words = seek'.held
  BY DEF At
<1>2. CASE text \in answers
  BY <1>1, <1>2 DEF TextsAreOfAnswers
<1>3. CASE text' \in answers'
  BY <1>1, <1>3 DEF TextsAreOfAnswers
<1>4. CASE text \notin answers /\ text' \notin answers'
  <2>1. /\ job.status # "completed"
        /\ \A n \in Messages :
              messages[n].phase # "completing" /\ messages[n].snap.status # "completed"
    BY <1>4 DEF TextsAreOfAnswers, At, Snap
  <2>2. /\ job'.status # "completed"
        /\ \A n \in Messages :
              messages'[n].phase # "completing" /\ messages'[n].snap.status # "completed"
    BY <1>4, <2>1
  <2>. QED  BY <1>1, <2>2 DEF TextsAreOfAnswers, At, Snap
<1>. QED  BY <1>2, <1>3, <1>4

LEMMA PodcastSteps ==
    ASSUME IInv, PodcastInv, WorkersNext, platform = "podcast"
    PROVE  PodcastInv'
<1>. USE DEF Alone, KeepsName, Steps, Gone, Waits, At, Is
<1>0. /\ Typed /\ platform' = platform /\ job \in Jobs /\ job.run = NoRun
      /\ NewJob.run = NoRun /\ NewJob.status = "pending"
      /\ \A n \in Messages :
            /\ messages[n].kind = "ingest" /\ messages[n].snap.run = NoRun
            /\ messages[n].phase # "gone" => n = Ingest
            /\ messages[n].snap \in Jobs
  <2>1. \A n \in Messages : FollowsRoute(n) /\ Snap(n) \in Jobs /\ job \in Jobs
    BY HeldJobs DEF IInv, RoutesAreFollowed
  <2>. QED
    BY <2>1, WorkersPlatformStays
       DEF IInv, PodcastInv, PodcastsRunNothing, FollowsRoute, Snap, NewJob, Typed, TypeOK
<1>00. /\ link \in LinkKinds /\ SeekIsARecord /\ IsFiniteSet(answers)
       /\ PodcastsRunNothing /\ EpisodesAreRecorded /\ TextsAreOfAnswers
       /\ Guided => GuidIsOfTheHeld
  BY DEF PodcastInv, ResolverFits, TextsAreOfAnswers
<1>000. ASSUME seek' = NoSeek
        PROVE  SeekIsARecord' /\ GuidIsOfTheHeld' /\ seek'.pc = "meta"
  BY <1>000 DEF NoSeek, SeekIsARecord, GuidIsOfTheHeld
<1>n. ASSUME UNCHANGED link PROVE Guided' => Guided
  BY <1>n DEF Guided
<1>s. ASSUME UNCHANGED seek PROVE SeekIsARecord' /\ (GuidIsOfTheHeld => GuidIsOfTheHeld')
  BY <1>00, <1>s DEF SeekIsARecord, GuidIsOfTheHeld
\* A message that waits again, or is over.
<1>w. ASSUME NEW m \in Messages, Leaves(m), Forget,
             UNCHANGED <<link, answers, named, carried, text, dispatches>>,
             job' = job,
             m = Ingest
      PROVE  PodcastInv'
  <2>1. SeekIsARecord' /\ GuidIsOfTheHeld' /\ seek'.pc = "meta"
    BY <1>w, <1>000 DEF Forget
  <2>0. Waits(m) \/ (Alone(m) /\ Gone(m))
    BY <1>w DEF Leaves
  <2>2. PodcastsRunNothing'
    BY <1>0, <1>00, <1>w, <2>0, RunsNothingStill
  <2>3. EpisodesAreRecorded'
    BY <1>0, <1>00, <1>w, <2>0, <2>1, RecordedStill DEF Sent, Answered
  <2>4. TextsAreOfAnswers'
    BY <1>0, <1>00, <1>n, <1>w, <2>0, <2>1, TextsStill
  <2>. QED  BY <1>00, <1>w, <2>1, <2>2, <2>3, <2>4 DEF PodcastInv, ResolverFits
<1>1. ASSUME NEW m \in Messages, ReceiveLink(m) PROVE PodcastInv'
  <2>1. /\ At(m, "queued") /\ Steps(m, "received") /\ messages'[m].snap = job /\ m = Ingest
        /\ seek' = [NoSeek EXCEPT !.held = named]
        /\ UNCHANGED <<job, dispatches, link, answers, named, carried, text>>
    BY <1>0, <1>1, Receiving DEF ReceiveLink, NotTheEpisode
  <2>2. SeekIsARecord' /\ GuidIsOfTheHeld' /\ seek'.pc = "meta" /\ seek'.held = named
    BY <2>1 DEF NoSeek, SeekIsARecord, GuidIsOfTheHeld
  <2>3. PodcastsRunNothing'
    BY <1>0, <1>00, <2>1, RunsNothingStill
  <2>4. EpisodesAreRecorded'
    BY <1>0, <1>00, <2>1, <2>2, RecordedStill DEF Sent, Answered
  <2>5. TextsAreOfAnswers'
    BY <1>0, <1>00, <1>n, <2>1, <2>2, TextsStill
  <2>. QED  BY <1>00, <2>1, <2>2, <2>3, <2>4, <2>5 DEF PodcastInv, ResolverFits
<1>2. ASSUME NEW m \in Messages, Seek(m) PROVE PodcastInv'
  <2>1. /\ At(m, "extracting") /\ m = Ingest /\ Seeks
        /\ UNCHANGED <<job, messages, dispatches, link, answers, named, carried, text>>
    BY <1>0, <1>2 DEF Seek, Seeking, NotTheEpisode, relayVars
  <2>2. SeekIsARecord' /\ seek'.pc \notin {"transcript", "over"} /\ (Guided => GuidIsOfTheHeld')
    BY <1>00, <2>1, Resolving DEF ResolverFits
  <2>3. PodcastsRunNothing'
    BY <1>0, <1>00, <2>1, RunsNothingStill
  <2>4. EpisodesAreRecorded'
    BY <1>0, <1>00, <2>1, <2>2, RecordedStill DEF Sent, Answered
  <2>5. TextsAreOfAnswers'
    BY <1>0, <1>00, <1>n, <2>1, <2>2, TextsStill
  <2>. QED  BY <1>00, <2>1, <2>2, <2>3, <2>4, <2>5 DEF PodcastInv, ResolverFits
<1>3. ASSUME NEW m \in Messages, RecordEpisode(m) PROVE PodcastInv'
  <2>1. /\ At(m, "extracting") /\ m = Ingest /\ seek.pc = "found"
        /\ job' = messages[m].snap /\ named' = seek.held /\ answers' = answers \cup {seek.held}
        /\ seek' = [seek EXCEPT !.pc = "transcript"]
        /\ UNCHANGED <<messages, dispatches, link, carried, text>>
    BY <1>0, <1>3 DEF RecordEpisode, Seeking, SeekTo, Snap
  <2>2. /\ SeekIsARecord' /\ seek'.pc = "transcript" /\ seek'.held = seek.held
        /\ Guided => GuidIsOfTheHeld'
    BY <1>00, <2>1 DEF SeekIsARecord, GuidIsOfTheHeld
  <2>3. PodcastsRunNothing'
    BY <1>0, <1>00, <2>1, RunsNothingStill
  <2>4. EpisodesAreRecorded'
    BY <1>0, <1>00, <2>1, <2>2 DEF EpisodesAreRecorded, Sent, Answered
  <2>5. TextsAreOfAnswers'
    BY <1>0, <1>00, <1>n, <2>1, <2>2, TextsStill
  <2>6. IsFiniteSet(answers')
    BY <1>00, <2>1, FS_AddElement
  <2>. QED  BY <1>00, <2>1, <2>2, <2>3, <2>4, <2>5, <2>6 DEF PodcastInv, ResolverFits
<1>4. ASSUME NEW m \in Messages, FetchTranscript(m) PROVE PodcastInv'
  <2>1. /\ At(m, "extracting") /\ m = Ingest /\ seek.pc = "transcript" /\ ResolvePodcast(m)
        /\ messages'[m].phase = "storing" => HasItem(seek.guid)
        /\ seek' = [seek EXCEPT !.pc = "over",
                       !.words = IF messages'[m].phase = "storing" THEN seek.guid ELSE NoEpisode]
        /\ UNCHANGED <<link, answers, named, carried, text>>
    BY <1>0, <1>4 DEF FetchTranscript, Seeking, NotTheEpisode
  <2>2. /\ \E next \in {"storing", "handing"} : Steps(m, next)
        /\ messages'[m].snap = messages[m].snap
        /\ UNCHANGED <<job, dispatches>>
    BY <1>0, <2>1, GoingOn DEF ResolvePodcast, Extracted, Phases, Attempts
  <2>3. /\ SeekIsARecord' /\ seek'.pc = "over" /\ seek'.held = seek.held
        /\ messages'[m].phase = "storing" => seek'.words = seek.guid
    BY <1>00, <2>1 DEF SeekIsARecord
  <2>4. ASSUME messages'[m].phase = "storing", Guided PROVE seek'.words = seek'.held
    <3>1. PICK f \in 1..FeedCount : \E k \in DOMAIN link.feeds[f] : link.feeds[f][k].id = seek.guid
      BY <2>1, <2>4 DEF HasItem
    <3>2. PICK k \in DOMAIN link.feeds[f] : link.feeds[f][k].id = seek.guid
      BY <3>1
    <3>3. link.feeds[f] \in Seq(Entries)
      BY <1>00 DEF LinkKinds
    <3>4. link.feeds[f][k] \in Entries
      BY <3>2, <3>3
    <3>5. seek.guid \in Episodes
      BY <3>2, <3>4 DEF Entries
    <3>. QED
      BY <1>00, <2>1, <2>3, <2>4, <3>5, LinksAssumption DEF GuidIsOfTheHeld
  <2>5. PodcastsRunNothing'
    BY <1>0, <1>00, <2>1, <2>2, RunsNothingStill
  <2>6. EpisodesAreRecorded'
    <3>1. seek.held \in answers
      BY <1>00, <2>1 DEF EpisodesAreRecorded
    <3>. QED
      BY <1>0, <1>00, <2>1, <2>2, <2>3, <3>1, RecordedStill DEF Sent, Answered
  <2>7. GuidIsOfTheHeld'
    BY <2>3 DEF GuidIsOfTheHeld
  <2>8. TextsAreOfAnswers'
    BY <1>0, <1>00, <1>n, <2>1, <2>2, <2>4, <2>7, TextsStill
  <2>. QED  BY <1>00, <2>1, <2>3, <2>5, <2>6, <2>8 DEF PodcastInv, ResolverFits
<1>5. ASSUME NEW m \in Messages, LoseLink(m) PROVE PodcastInv'
  <2>1. Leaves(m)
    BY <1>0, <1>5, GoingGone, GoingQueued DEF LoseLink, Again, Leaves
  <2>2. /\ m = Ingest /\ Forget /\ job' = job
        /\ UNCHANGED <<link, answers, named, carried, text, dispatches>>
    BY <1>0, <1>5 DEF LoseLink, Seeking, NotTheEpisode
  <2>. QED  BY <1>w, <2>1, <2>2
<1>6. ASSUME NEW m \in Messages, MarkExtracting(m), named' = seek.held,
             UNCHANGED <<link, grown, seek, answers, carried, text>>
      PROVE  PodcastInv'
  <2>1. /\ At(m, "received") /\ m = Ingest /\ Steps(m, "extracting") /\ UNCHANGED dispatches
        /\ job'.run = NoRun /\ messages'[m].snap.run = NoRun
        /\ job'.status # "completed" \/ job' = job
    BY <1>0, <1>6, Marking DEF Snap, Jobs
  <2>2. messages'[m].snap = messages[m].snap \/ messages'[m].snap.status # "completed"
    <3>1. [messages[m].snap EXCEPT !.status = "extracting"] \in Jobs
      BY <1>0, WrittenJobs, HeldJobs DEF Statuses, Snap
    <3>2. \A j \in Jobs : ToWith(m, "extracting", j) => messages'[m].snap = j
      BY <1>0, GoingOnWith DEF Phases, Attempts
    <3>. QED  BY <1>0, <1>6, <3>1, <3>2 DEF MarkExtracting, Snap, Jobs
  <2>3. named' = named /\ SeekIsARecord' /\ (Guided => GuidIsOfTheHeld')
    BY <1>00, <1>6, <1>s, <2>1 DEF EpisodesAreRecorded
  <2>4. PodcastsRunNothing'
    BY <1>0, <1>00, <2>1, RunsNothingStill
  <2>5. EpisodesAreRecorded'
    BY <1>0, <1>00, <1>6, <2>1, <2>3, RecordedStill DEF EpisodesAreRecorded, Sent, Answered
  <2>6. TextsAreOfAnswers'
    BY <1>0, <1>00, <1>6, <1>n, <2>1, <2>2, <2>3, TextsStill
  <2>. QED  BY <1>00, <1>6, <2>3, <2>4, <2>5, <2>6 DEF PodcastInv, ResolverFits
<1>7. ASSUME NEW m \in Messages, EndRelay(m), named' = seek.held,
             UNCHANGED <<link, grown, seek, answers, carried, text>>
      PROVE  PodcastInv'
  <2>1. /\ messages[m].phase \in {"completing", "handing"} /\ m = Ingest
        /\ Steps(m, IF At(m, "handing") THEN "gating" ELSE "publishing")
        /\ messages'[m].snap = job' /\ job'.run = NoRun /\ UNCHANGED dispatches
    BY <1>0, <1>7, Ending DEF Snap
  <2>2. job'.status = "completed" =>
           messages[m].phase = "completing" \/ messages[m].snap.status = "completed"
    BY <1>0, <1>7, <2>1 DEF EndRelay, Ended, Snap, Jobs
  <2>3. /\ SeekIsARecord' /\ (Guided => GuidIsOfTheHeld')
        /\ named' \in answers /\ seek.pc = "over"
    BY <1>00, <1>7, <1>s, <2>1 DEF EpisodesAreRecorded, Answered
  <2>4. PodcastsRunNothing'
    BY <1>0, <1>00, <2>1, RunsNothingStill
  <2>5. EpisodesAreRecorded'
    BY <1>0, <1>00, <1>7, <2>1, <2>3 DEF EpisodesAreRecorded, Sent, Answered
  <2>6. TextsAreOfAnswers'
    BY <1>0, <1>00, <1>7, <1>n, <2>1, <2>2, <2>3, TextsStill
  <2>. QED  BY <1>00, <1>7, <2>3, <2>4, <2>5, <2>6 DEF PodcastInv, ResolverFits
<1>8. ASSUME NEW m \in Messages, StoreText(m), text' = seek.words,
             UNCHANGED <<link, grown, seek, answers, named, carried>>
      PROVE  PodcastInv'
  <2>1. /\ At(m, "storing") /\ m = Ingest /\ Steps(m, "completing")
        /\ messages'[m].snap = messages[m].snap /\ UNCHANGED <<job, dispatches>>
    BY <1>0, <1>8, GoingOn DEF StoreText, Phases, Attempts
  <2>2. /\ SeekIsARecord' /\ (Guided => GuidIsOfTheHeld')
        /\ seek.pc = "over" /\ seek.held \in answers
    BY <1>00, <1>8, <1>s, <2>1 DEF EpisodesAreRecorded, Answered
  <2>3. Guided => text' \in answers'
    BY <1>0, <1>00, <1>8, <2>1, <2>2 DEF TextsAreOfAnswers
  <2>4. PodcastsRunNothing'
    BY <1>0, <1>00, <2>1, RunsNothingStill
  <2>5. EpisodesAreRecorded'
    BY <1>0, <1>00, <1>8, <2>1, <2>2, RecordedStill DEF Sent, Answered
  <2>6. TextsAreOfAnswers'
    <3>1. CASE Guided
      BY <1>0, <1>00, <1>8, <1>n, <2>1, <2>2, <2>3, <3>1, TextsStill
    <3>2. CASE ~Guided
      BY <1>8, <1>n, <3>2 DEF TextsAreOfAnswers
    <3>. QED  BY <3>1, <3>2
  <2>. QED  BY <1>00, <1>8, <2>2, <2>4, <2>5, <2>6 DEF PodcastInv, ResolverFits
<1>9. ASSUME NEW m \in Messages, PassGate(m), UNCHANGED seek, NotTheEpisode PROVE PodcastInv'
  <2>1. /\ At(m, "gating") /\ m = Ingest /\ Alone(m) /\ KeepsName(m)
        /\ messages'[m].phase = "dispatching" /\ messages'[m].snap = messages[m].snap
        /\ UNCHANGED <<job, dispatches, link, answers, named, carried, text>>
    BY <1>0, <1>9, Passing DEF NotTheEpisode
  <2>2. /\ SeekIsARecord' /\ (Guided => GuidIsOfTheHeld')
        /\ seek.pc = "over" /\ seek.held \in answers
    BY <1>00, <1>9, <1>s, <2>1 DEF EpisodesAreRecorded, Answered
  <2>3. PodcastsRunNothing'
    BY <1>0, <1>00, <2>1, RunsNothingStill
  <2>4. EpisodesAreRecorded'
    BY <1>0, <1>00, <1>9, <2>1, <2>2, RecordedStill DEF Sent, Answered
  <2>5. TextsAreOfAnswers'
    BY <1>0, <1>00, <1>n, <2>1, <2>2, TextsStill
  <2>. QED  BY <1>00, <2>1, <2>2, <2>3, <2>4, <2>5 DEF PodcastInv, ResolverFits
<1>10. ASSUME NEW m \in Messages, Publish(m), Forget, NotTheEpisode PROVE PodcastInv'
  <2>1. /\ m = Ingest /\ job' = job /\ Leaves(m)
        /\ UNCHANGED <<link, answers, named, carried, text, dispatches>>
    BY <1>0, <1>10, GoingGone DEF Publish, NotTheEpisode, Leaves
  <2>. QED  BY <1>10, <1>w, <2>1
<1>11. ASSUME NEW m \in Messages, RefuseByQuota(m), named' = seek.held,
              Forget, UNCHANGED <<link, grown, answers, carried, text>>
       PROVE  PodcastInv'
  <2>1. /\ At(m, "gating") /\ m = Ingest /\ Alone(m) /\ Gone(m) /\ UNCHANGED dispatches
        /\ job'.run = NoRun /\ job'.status = "failed"
    BY <1>0, <1>11, Refusing DEF Snap, Jobs
  <2>2. SeekIsARecord' /\ GuidIsOfTheHeld' /\ seek'.pc = "meta" /\ named' \in answers
    BY <1>00, <1>000, <1>11, <2>1 DEF Forget, EpisodesAreRecorded, Answered
  <2>3. PodcastsRunNothing'
    BY <1>0, <1>00, <2>1, RunsNothingStill
  <2>4. EpisodesAreRecorded'
    BY <1>0, <1>00, <1>11, <2>1, <2>2 DEF EpisodesAreRecorded, Sent, Answered
  <2>5. TextsAreOfAnswers'
    BY <1>0, <1>00, <1>11, <1>n, <2>1, <2>2, TextsStill
  <2>. QED  BY <1>00, <1>11, <2>2, <2>3, <2>4, <2>5 DEF PodcastInv, ResolverFits
<1>12. ASSUME NEW m \in Messages, Dispatch(m), Forget,
              carried' = [d \in Dispatches |->
                  IF dispatches'[d] # dispatches[d] THEN seek.held ELSE carried[d]],
              UNCHANGED <<link, grown, answers, named, text>>
       PROVE  PodcastInv'
  <2>1. /\ At(m, "dispatching") /\ m = Ingest /\ Alone(m) /\ Gone(m) /\ UNCHANGED job
    BY <1>0, <1>12, Dispatching
  <2>2. /\ SeekIsARecord' /\ GuidIsOfTheHeld' /\ seek'.pc = "meta"
        /\ seek.held \in answers
    BY <1>00, <1>000, <1>12, <2>1 DEF Forget, EpisodesAreRecorded, Answered
  <2>3. PodcastsRunNothing'
    BY <1>0, <1>00, <2>1, RunsNothingStill
  <2>4. EpisodesAreRecorded'
    <3>1. \A d \in Dispatches : dispatches'[d].phase # "unsent" => carried'[d] \in answers
      BY <1>00, <1>12, <2>2 DEF EpisodesAreRecorded, Sent
    <3>. QED
      BY <1>0, <1>00, <1>12, <2>1, <2>2, <3>1 DEF EpisodesAreRecorded, Sent, Answered
  <2>5. TextsAreOfAnswers'
    BY <1>0, <1>00, <1>12, <1>n, <2>1, <2>2, TextsStill
  <2>. QED  BY <1>00, <1>12, <2>2, <2>3, <2>4, <2>5 DEF PodcastInv, ResolverFits
<1>13. ASSUME NEW m \in Messages, WorkerFails(m) PROVE PodcastInv'
  <2>1. messages[m].phase \in Attempts
    BY <1>13, StepsAssumption DEF WorkerFails, WorkerRaises, WorkerKilled, MayRaise
  <2>2. m = Ingest
    BY <1>0, <2>1 DEF Attempts
  <2>3. Leaves(m)
    BY <1>0, <1>13, GoingGone, GoingQueued
       DEF WorkerFails, WorkerRaises, WorkerKilled, Again, Unreported, Leaves
  <2>4. /\ Forget /\ job' = job
        /\ UNCHANGED <<link, answers, named, carried, text, dispatches>>
    BY <1>13 DEF WorkerFails, WorkerRaises, WorkerKilled, NotTheEpisode
  <2>. QED  BY <1>w, <2>2, <2>3, <2>4
<1>14. ASSUME NEW d \in Dispatches, TranscriberStep(d) \/ TranscriptionRaises(d),
              UNCHANGED <<link, seek, answers, named, carried>>,
              IF FinishTranscription(d) THEN text' = carried[d] ELSE text' = text
       PROVE  PodcastInv'
  <2>1. /\ UNCHANGED messages /\ job'.run = NoRun
        /\ \A e \in Dispatches : dispatches'[e].phase # "unsent" => Sent(e)
        /\ job'.status = "completed" => job.status = "completed" \/ FinishTranscription(d)
        /\ FinishTranscription(d) => Sent(d)
    <3>1. dispatches \in [Dispatches -> DispatchRecords]
      BY <1>0 DEF Typed, TypeOK, DispatchRecords
    <3>. QED
      BY <1>0, <1>14, <3>1
         DEF TranscriberStep, PodcastTranscribed, Transcribe, SettleMinutes, FinishTranscription,
             TranscriptionRaises, DispatchTo, DispatchRecords, Sent, Jobs
  <2>2. SeekIsARecord' /\ (Guided => GuidIsOfTheHeld')
    BY <1>00, <1>14, <1>s
  <2>3. text' \in {text} \cup answers /\ (FinishTranscription(d) => text' \in answers)
    BY <1>00, <1>14, <2>1 DEF EpisodesAreRecorded
  <2>4. PodcastsRunNothing'
    BY <1>0, <1>00, <2>1, RunsNothingStill
  <2>5. EpisodesAreRecorded'
    BY <1>0, <1>00, <1>14, <2>1 DEF EpisodesAreRecorded, Sent, Answered
  <2>6. TextsAreOfAnswers'
    <3>1. \A n \in Messages : messages[n].phase = "storing" /\ Guided => seek.words = seek.held
      BY <1>00 DEF TextsAreOfAnswers
    <3>. QED  BY <1>0, <1>00, <1>14, <1>n, <2>1, <2>2, <2>3, <3>1, TextsStill
  <2>. QED  BY <1>00, <1>14, <2>2, <2>4, <2>5, <2>6 DEF PodcastInv, ResolverFits
<1>15. ASSUME (\E r \in Runs : RunEnds(r) \/ Webhook(r)) \/ LeaseExpires \/ FeedGrows,
              FeedGrows \/ UNCHANGED link,
              UNCHANGED <<seek, answers, named, carried, text>>
       PROVE  PodcastInv'
  <2>1. /\ UNCHANGED <<messages, dispatches>> /\ job'.run = NoRun /\ job'.status = job.status
    BY <1>0, <1>15 DEF RunEnds, Webhook, LeaseExpires, FeedGrows, relayVars, Jobs
  <2>2. link' \in LinkKinds /\ (Guided' => Guided)
    BY <1>00, <1>15, <1>n, Growing
  <2>3. SeekIsARecord' /\ (Guided => GuidIsOfTheHeld')
    BY <1>00, <1>15, <1>s
  <2>4. PodcastsRunNothing'
    BY <1>0, <1>00, <2>1, RunsNothingStill
  <2>5. EpisodesAreRecorded'
    BY <1>0, <1>00, <1>15, <2>1 DEF EpisodesAreRecorded, Sent, Answered
  <2>6. TextsAreOfAnswers'
    <3>1. \A n \in Messages : messages[n].phase = "storing" /\ Guided => seek.words = seek.held
      BY <1>00 DEF TextsAreOfAnswers
    <3>. QED  BY <1>0, <1>00, <1>15, <2>1, <2>2, <2>3, <3>1, TextsStill
  <2>. QED  BY <1>00, <1>15, <2>2, <2>3, <2>4, <2>5, <2>6 DEF PodcastInv, ResolverFits
<1>16. ASSUME NEW m \in Messages, WorkerStep(m) PROVE PodcastInv'
  BY <1>1, <1>2, <1>3, <1>4, <1>5, <1>6, <1>7, <1>8, <1>9, <1>10, <1>11, <1>12, <1>16
     DEF WorkerStep, PodcastStep
<1>17. ASSUME NEW d \in Dispatches,
              TranscriberStep(d) \/ (TranscriptionRaises(d) /\ UNCHANGED seekVars)
       PROVE  PodcastInv'
  <2>1. CASE PodcastTranscribed(d)
    <3>1. TranscriberStep(d)
      BY <1>0, <2>1 DEF TranscriberStep
    <3>2. /\ FinishTranscription(d) /\ text' = carried[d]
          /\ UNCHANGED <<link, seek, answers, named, carried>>
      BY <2>1 DEF PodcastTranscribed
    <3>. QED  BY <1>14, <3>1, <3>2
  <2>2. CASE (Transcribe(d) \/ SettleMinutes(d) \/ TranscriptionRaises(d)) /\ UNCHANGED seekVars
    <3>1. ~FinishTranscription(d)
      BY <1>0, <2>2 DEF Transcribe, SettleMinutes, FinishTranscription, TranscriptionRaises,
                        DispatchTo, Typed, TypeOK
    <3>. QED  BY <1>14, <1>17, <2>2, <3>1 DEF TranscriberStep, seekVars
  <2>. QED  BY <1>17, <2>1, <2>2 DEF TranscriberStep
<1>18. CASE \/ (\E r \in Runs : RunEnds(r) \/ Webhook(r)) /\ UNCHANGED seekVars
            \/ LeaseExpires /\ UNCHANGED seekVars
            \/ FeedGrows
  BY <1>15, <1>18 DEF FeedGrows, seekVars
<1>. QED  BY <1>13, <1>16, <1>17, <1>18 DEF WorkersNext

-----------------------------------------------------------------------------
(* Which episode a link is resolved to                                     *)

\* The feeds of a link that is searched for are those of the index.
IndexKnowsItsFeeds ==
    \A l \in Links :
        l.source # "rss" =>
            \A f \in 1..FeedCount : \A k \in DOMAIN l.feeds[f] : l.feeds[f][k].known

Unlike(f) == \A k \in DOMAIN link.feeds[f] : link.feeds[f][k].like = 0

\* The first c candidates were looked into, and the others are left.
Remaining(c) ==
    /\ Len(seek.queue) = Len(Candidates) - c
    /\ \A i \in 1..Len(seek.queue) : seek.queue[i] = Candidates[c + i]
    /\ \A b \in 1..c : Unlike(Candidates[b])

FoundByIdOrMeant ==
    \/ link.source = "apple" /\ link.byId /\ seek.held = link.feeds[1][1].id
    \/ Meant(seek.held)

\* In an attempt that missed nothing, no feed is passed over that has a match.
SearchMissesNothing ==
    platform = "podcast" /\ link.source # "rss" =>
        /\ link \in Links
        /\ seek.pc # "enrich"
        /\ seek.pc \in {"direct", "show"} => link.source = "apple"
        /\ ~seek.missed =>
              /\ seek.pc \in {"meta", "direct", "show"} => seek.queue = <<>>
              /\ seek.pc = "search" =>
                    seek.queue = IF link.source = "apple" THEN <<link.show>> ELSE <<>>
              /\ seek.pc = "feed" =>
                    /\ seek.queue \in Seq(1..FeedCount)
                    /\ \E c \in 0..Len(Candidates) : Remaining(c)
              /\ seek.pc = "found" => FoundByIdOrMeant

LEMMA CandidatesAreFeeds ==
    ASSUME link \in LinkKinds
    PROVE  Candidates \in Seq(1..FeedCount)
<1>1. Results \in Seq(1..FeedCount)
  BY LinksAssumption DEF Results
<1>2. link.show \in 1..FeedCount
  BY DEF LinkKinds
<1>3. ResultsBut(link.show) \in Seq(1..FeedCount)
  BY <1>2, LinksAssumption DEF ResultsBut
<1>4. <<link.show>> \o ResultsBut(link.show) \in Seq(1..FeedCount)
  BY <1>2, <1>3
<1>. QED  BY <1>1, <1>4 DEF Candidates

\* A feed of the index without a best match has nothing alike at all.
LEMMA NoneIsAlike ==
    ASSUME NEW entries \in Seq(Entries), \A k \in DOMAIN entries : entries[k].known,
           BestMatches(entries) = {}
    PROVE  \A k \in DOMAIN entries : entries[k].like = 0
<1>0. ASSUME NEW k \in DOMAIN entries PROVE entries[k].like \in 0..3
  <2>1. entries[k] \in Entries
    OBVIOUS
  <2>. QED  BY <2>1 DEF Entries
<1>1. \A k \in DOMAIN entries : entries[k].like # 3
  BY <1>0 DEF BestMatches
<1>2. \A k \in DOMAIN entries : entries[k].like # 2
  BY <1>0, <1>1 DEF BestMatches
<1>3. \A k \in DOMAIN entries : entries[k].like # 1
  BY <1>0, <1>1, <1>2 DEF BestMatches
<1>. QED  BY <1>0, <1>1, <1>2, <1>3

LEMMA SearchStays ==
    ASSUME SearchMissesNothing, platform' = platform,
           link' = link \/ (link.source = "rss" /\ link'.source = "rss"),
           \/ UNCHANGED seek
           \/ seek'.pc \in {"lost", "transcript", "over"}
           \/ seek'.pc = "meta" /\ seek'.queue = <<>>
    PROVE  SearchMissesNothing'
<1>1. CASE link' # link
  BY <1>1 DEF SearchMissesNothing
<1>2. CASE link' = link /\ UNCHANGED seek
  <2>1. Candidates' = Candidates
    BY <1>2 DEF Candidates
  <2>2. \A c : Remaining(c) => Remaining(c)'
    BY <1>2, <2>1 DEF Remaining, Unlike
  <2>3. FoundByIdOrMeant => FoundByIdOrMeant'
    BY <1>2, <2>1 DEF FoundByIdOrMeant, Meant
  <2>. QED  BY <1>2, <2>1, <2>2, <2>3 DEF SearchMissesNothing
<1>3. CASE link' = link /\ ~UNCHANGED seek
  BY <1>3 DEF SearchMissesNothing
<1>. QED  BY <1>1, <1>2, <1>3

LEMMA Searching ==
    ASSUME IndexKnowsItsFeeds, ResolverFits, SearchMissesNothing, Seeks,
           UNCHANGED <<platform, link>>
    PROVE  SearchMissesNothing'
<1>. SUFFICES ASSUME platform = "podcast", link.source # "rss" PROVE SearchMissesNothing'
  BY DEF SearchMissesNothing
<1>. USE DEF SeekIsARecord
<1>0. /\ link \in LinkKinds /\ SeekIsARecord /\ link \in Links
      /\ seek.pc # "enrich" /\ (seek.pc \in {"direct", "show"} => link.source = "apple")
      /\ Candidates' = Candidates
  BY DEF ResolverFits, SearchMissesNothing, Candidates
<1>1. ASSUME Lose PROVE SearchMissesNothing'
  BY <1>0, <1>1, SearchStays DEF Lose, SeekTo
<1>2. ASSUME Retry PROVE SearchMissesNothing'
  BY <1>0, <1>1, <1>2, SearchStays DEF Retry, NoSeek
<1>3. ASSUME ReadLink PROVE SearchMissesNothing'
  <2>1. CASE SeekTo("search") /\ link.source \in {"spotify", "deezer"}
    BY <1>0, <1>3, <2>1 DEF SeekTo, ReadLink, SearchMissesNothing
  <2>2. CASE SeekTo("direct") /\ link.source = "apple"
    BY <1>0, <1>3, <2>2 DEF SeekTo, ReadLink, SearchMissesNothing
  <2>. QED
    BY <1>1, <1>2, <1>3, <2>1, <2>2
       DEF ReadLink, SpotifyMetadata, AppleMetadata, DeezerMetadata, RssDocument
<1>4. ASSUME DirectLookup PROVE SearchMissesNothing'
  <2>1. CASE link.byId /\ Hold(link.feeds[1][1], NoEpisode)
    BY <1>0, <1>4, <2>1 DEF DirectLookup, Hold, SearchMissesNothing, FoundByIdOrMeant
  <2>2. CASE SeekTo("show")
    BY <1>0, <1>4, <2>2 DEF DirectLookup, SeekTo, SearchMissesNothing
  <2>3. CASE seek' = [seek EXCEPT !.pc = "show", !.missed = TRUE]
    BY <1>0, <1>4, <2>3 DEF DirectLookup, SearchMissesNothing
  <2>. QED  BY <1>4, <2>1, <2>2, <2>3 DEF DirectLookup
<1>5. ASSUME ShowLookup PROVE SearchMissesNothing'
  BY <1>0, <1>5 DEF ShowLookup, SearchMissesNothing
<1>6. ASSUME SearchFeeds PROVE SearchMissesNothing'
  <2>1. ASSUME NEW queue, seek' = [seek EXCEPT !.pc = "feed", !.queue = queue],
               seek.missed \/ queue = Candidates
        PROVE  SearchMissesNothing'
    <3>1. seek'.pc = "feed" /\ seek'.queue = queue /\ seek'.missed = seek.missed
      BY <1>0, <2>1
    <3>2. ~seek.missed => queue \in Seq(1..FeedCount) /\ Remaining(0)'
      BY <1>0, <2>1, <3>1, CandidatesAreFeeds DEF Remaining
    <3>3. ~seek.missed => 0 \in 0..Len(Candidates)
      BY <1>0, CandidatesAreFeeds
    <3>. QED  BY <1>0, <3>1, <3>2, <3>3 DEF SearchMissesNothing
  <2>2. ~seek.missed => seek.queue = IF link.source = "apple" THEN <<link.show>> ELSE <<>>
    BY <1>6 DEF SearchFeeds, SearchMissesNothing
  <2>3. CASE seek.queue = <<>> /\ seek' = [seek EXCEPT !.pc = "feed", !.queue = Results]
    <3>1. ~seek.missed => link.source # "apple"
      BY <2>2, <2>3
    <3>. QED  BY <2>1, <2>3, <3>1 DEF Candidates
  <2>4. CASE /\ seek.queue # <<>>
             /\ seek' = [seek EXCEPT !.pc = "feed", !.queue = @ \o ResultsBut(Head(@))]
    <3>. DEFINE queue == seek.queue \o ResultsBut(Head(seek.queue))
    <3>1. ~seek.missed => seek.queue = <<link.show>> /\ link.source = "apple"
      BY <2>2, <2>4
    <3>2. ~seek.missed => queue = Candidates
      <4>1. Head(<<link.show>>) = link.show
        OBVIOUS
      <4>. QED  BY <3>1, <4>1 DEF Candidates
    <3>3. seek' = [seek EXCEPT !.pc = "feed", !.queue = queue]
      BY <1>0, <2>4
    <3>. HIDE DEF queue
    <3>. QED  BY <2>1, <3>2, <3>3
  <2>5. CASE seek' = [seek EXCEPT !.pc = "feed", !.missed = TRUE]
    BY <1>0, <2>5 DEF SearchMissesNothing
  <2>. QED  BY <1>1, <1>2, <1>6, <2>3, <2>4, <2>5 DEF SearchFeeds
<1>7. ASSUME NextFeed PROVE SearchMissesNothing'
  <2>1. CASE seek' = [seek EXCEPT !.queue = Tail(@), !.missed = TRUE]
    BY <1>0, <1>7, <2>1 DEF NextFeed, SearchMissesNothing
  <2>. DEFINE feed == Head(seek.queue)
              entries == link.feeds[feed]
  <2>2. CASE seek.missed /\ seek' = [seek EXCEPT !.queue = Tail(@)]
    BY <1>0, <1>7, <2>2 DEF NextFeed, SearchMissesNothing
  <2>3. CASE seek.missed /\ Hold(entries[First(BestMatches(entries))],
                                 entries[First(BestMatches(entries))].id)
    BY <1>0, <1>7, <2>3 DEF Hold, SearchMissesNothing
  <2>4. CASE ~seek.missed
    <3>1. PICK c \in 0..Len(Candidates) : Remaining(c)
      BY <1>0, <1>7, <2>4 DEF NextFeed, SearchMissesNothing
    <3>2. /\ seek.queue \in Seq(1..FeedCount) /\ seek.queue # <<>>
          /\ Candidates \in Seq(1..FeedCount)
      BY <1>0, <1>7, <2>4, CandidatesAreFeeds DEF NextFeed, SearchMissesNothing
    <3>3. /\ feed = Candidates[c + 1] /\ c + 1 \in 1..Len(Candidates)
          /\ feed \in 1..FeedCount
      <4>1. Len(seek.queue) \in Nat /\ 1 \in 1..Len(seek.queue) /\ feed = seek.queue[1]
        BY <3>2
      <4>2. feed = Candidates[c + 1] /\ Len(seek.queue) = Len(Candidates) - c
        BY <3>1, <4>1 DEF Remaining
      <4>3. Len(Candidates) \in Nat /\ c \in Nat
        BY <3>2
      <4>4. c + 1 \in 1..Len(Candidates)
        BY <4>1, <4>2, <4>3
      <4>5. feed \in 1..FeedCount
        BY <3>2, HeadTailProperties
      <4>. QED  BY <4>2, <4>4, <4>5
    <3>4. entries \in Seq(Entries) /\ \A k \in DOMAIN entries : entries[k].known
      BY <1>0, <3>3 DEF LinkKinds, IndexKnowsItsFeeds
    <3>. HIDE DEF feed
    <3>5. CASE BestMatches(entries) = {} /\ seek' = [seek EXCEPT !.queue = Tail(@)]
      <4>1. Unlike(feed)
        BY <3>4, <3>5, NoneIsAlike DEF Unlike
      <4>2. seek'.pc = "feed" /\ seek'.queue = Tail(seek.queue) /\ seek'.missed = seek.missed
        BY <1>0, <1>7, <3>5 DEF NextFeed
      <4>3. /\ Tail(seek.queue) \in Seq(1..FeedCount)
            /\ Len(Tail(seek.queue)) = Len(seek.queue) - 1
            /\ \A i \in 1..(Len(seek.queue) - 1) : Tail(seek.queue)[i] = seek.queue[i + 1]
        BY <3>2, HeadTailProperties
      <4>4. \A b \in 1..(c + 1) : Unlike(Candidates[b])
        <5>1. \A b \in 1..(c + 1) : b \in 1..c \/ b = c + 1
          OBVIOUS
        <5>. QED  BY <3>1, <3>3, <4>1, <5>1 DEF Remaining
      <4>5. \A i \in 1..Len(Tail(seek.queue)) : Tail(seek.queue)[i] = Candidates[(c + 1) + i]
        <5>1. ASSUME NEW i \in 1..Len(Tail(seek.queue))
              PROVE  Tail(seek.queue)[i] = Candidates[(c + 1) + i]
          <6>1. /\ i + 1 \in 1..Len(seek.queue) /\ c + (i + 1) = (c + 1) + i
                /\ Tail(seek.queue)[i] = seek.queue[i + 1]
            BY <3>2, <4>3
          <6>2. seek.queue[i + 1] = Candidates[c + (i + 1)]
            BY <3>1, <6>1 DEF Remaining
          <6>. QED  BY <6>1, <6>2
        <5>. QED  BY <5>1
      <4>6. Len(Tail(seek.queue)) = Len(Candidates) - (c + 1)
        BY <3>1, <3>2, <4>3 DEF Remaining
      <4>7. Remaining(c + 1)'
        BY <1>0, <4>2, <4>4, <4>5, <4>6 DEF Remaining, Unlike
      <4>8. c + 1 \in 0..Len(Candidates)
        BY <3>2, <3>3
      <4>. QED  BY <1>0, <4>2, <4>3, <4>7, <4>8 DEF SearchMissesNothing
    <3>6. CASE BestMatches(entries) # {} /\ Matched(entries)
      <4>. DEFINE k == First(BestMatches(entries))
      <4>1. k \in BestMatches(entries)
        <5>1. BestMatches(entries) \subseteq Nat
          BY <3>4 DEF BestMatches
        <5>. QED  BY <3>6, <5>1, FirstIsIn
      <4>. HIDE DEF k
      <4>2. CASE ~entries[k].audio
        BY <1>1, <3>6, <4>2 DEF Matched, k
      <4>3. CASE entries[k].audio
        <5>1. seek'.pc = "found" /\ seek'.held = entries[k].id /\ seek'.missed = seek.missed
          BY <1>0, <3>6, <4>3 DEF Matched, Hold, k
        <5>2. /\ k \in DOMAIN entries /\ entries[k].like > 0
              /\ \A j \in DOMAIN entries : entries[j].like <= entries[k].like
          BY <3>4, <4>1 DEF BestMatches
        <5>3. \A b \in 1..((c + 1) - 1) : Unlike(Candidates[b])
          BY <3>1 DEF Remaining
        <5>4. c + 1 \in DOMAIN Candidates
          BY <3>2, <3>3
        <5>5. Meant(entries[k].id)
          BY <3>3, <4>3, <5>2, <5>3, <5>4 DEF Meant, Unlike
        <5>6. FoundByIdOrMeant'
          BY <1>0, <5>1, <5>5 DEF FoundByIdOrMeant, Meant
        <5>. QED  BY <1>0, <5>1, <5>6 DEF SearchMissesNothing
      <4>. QED  BY <4>2, <4>3
    <3>. QED  BY <1>7, <2>1, <3>5, <3>6 DEF NextFeed, feed
  <2>. QED  BY <1>1, <1>7, <2>1, <2>2, <2>3, <2>4 DEF NextFeed, Matched
<1>8. ASSUME NoFeedLeft PROVE SearchMissesNothing'
  BY <1>1, <1>8 DEF NoFeedLeft
<1>. QED  BY <1>0, <1>3, <1>4, <1>5, <1>6, <1>7, <1>8 DEF Seeks, Enrich

LEMMA SearchSteps ==
    ASSUME IndexKnowsItsFeeds, IInv, PodcastInv, SearchMissesNothing, WorkersNext
    PROVE  SearchMissesNothing'
<1>0. platform' = platform /\ link \in LinkKinds /\ SeekIsARecord
  BY WorkersPlatformStays DEF PodcastInv, ResolverFits
<1>1. ASSUME NEW m \in Messages, Seek(m) PROVE SearchMissesNothing'
  BY <1>0, <1>1, Searching DEF Seek, NotTheEpisode, PodcastInv
<1>2. ASSUME seek' = NoSeek \/ seek' = [NoSeek EXCEPT !.held = named], UNCHANGED link
      PROVE  SearchMissesNothing'
  BY <1>0, <1>2, SearchStays DEF NoSeek
<1>3. ASSUME UNCHANGED <<seek, link>> PROVE SearchMissesNothing'
  BY <1>0, <1>3, SearchStays
<1>4. ASSUME NEW m \in Messages, RecordEpisode(m) \/ FetchTranscript(m)
      PROVE  SearchMissesNothing'
  <2>1. seek'.pc \in {"transcript", "over"} /\ UNCHANGED link
    BY <1>0, <1>4 DEF RecordEpisode, FetchTranscript, SeekTo, NotTheEpisode, SeekIsARecord
  <2>. QED  BY <1>0, <2>1, SearchStays
<1>5. ASSUME FeedGrows PROVE SearchMissesNothing'
  <2>1. link.source = "rss" /\ link'.source = "rss" /\ UNCHANGED seek
    BY <1>0, <1>5 DEF FeedGrows, LinkKinds
  <2>. QED  BY <1>0, <2>1, SearchStays
<1>6. ASSUME NEW m \in Messages, PodcastStep(m) PROVE SearchMissesNothing'
  BY <1>1, <1>2, <1>3, <1>4, <1>6
     DEF PodcastStep, ReceiveLink, LoseLink, Forget, NotTheEpisode
<1>7. ASSUME NEW m \in Messages, WorkerStep(m) \/ WorkerFails(m) PROVE SearchMissesNothing'
  BY <1>2, <1>3, <1>6, <1>7 DEF WorkerStep, WorkerFails, Forget, NotTheEpisode, seekVars
<1>. QED
  BY <1>3, <1>5, <1>7 DEF WorkersNext, TranscriberStep, PodcastTranscribed, seekVars

LEMMA PodcastInitially ==
    ASSUME WorkersInit
    PROVE  PodcastInv
<1>1. /\ seek = NoSeek /\ answers = {} /\ link \in Links
  BY DEF WorkersInit, Any
<1>2. ResolverFits
  BY <1>1, LinksAssumption, FS_EmptySet DEF ResolverFits, SeekIsARecord, NoSeek
<1>3. \A m \in Messages : /\ messages[m].kind = "ingest" /\ messages[m].snap = NewJob
                          /\ messages[m].phase \in {"gone", "queued"}
  BY DEF WorkersInit, Init, NewMessage, NoMessage
<1>4. job.run = NoRun /\ job.status \in SubmittedAs(platform)
  BY DEF WorkersInit, Init, NewJob
<1>5. PodcastsRunNothing
  BY <1>3, <1>4 DEF PodcastsRunNothing, Snap, NewJob
<1>6. EpisodesAreRecorded
  <2>1. \A d \in Dispatches : ~Sent(d)
    BY DEF WorkersInit, Init, NewDispatch, Sent
  <2>2. seek.pc = "meta"
    BY <1>1 DEF NoSeek
  <2>. QED  BY <1>1, <1>3, <2>1, <2>2 DEF EpisodesAreRecorded, At, Answered
<1>7. TextsAreOfAnswers
  BY <1>1, <1>3, <1>4
     DEF TextsAreOfAnswers, GuidIsOfTheHeld, NoSeek, NewJob, SubmittedAs, Instagram, At, Snap
<1>. QED  BY <1>2, <1>5, <1>6, <1>7 DEF PodcastInv

LEMMA PodcastUnchanging ==
    ASSUME PodcastInv, UNCHANGED workersVars
    PROVE  PodcastInv'
<1>. USE DEF workersVars, vars, quotaVars, relayVars, seekVars
<1>1. ResolverFits' /\ PodcastsRunNothing'
  BY DEF PodcastInv, ResolverFits, SeekIsARecord, PodcastsRunNothing, Snap
<1>2. EpisodesAreRecorded'
  BY DEF PodcastInv, EpisodesAreRecorded, At, Sent
<1>3. TextsAreOfAnswers'
  BY DEF PodcastInv, TextsAreOfAnswers, GuidIsOfTheHeld, Guided, At, Snap
<1>. QED  BY <1>1, <1>2, <1>3 DEF PodcastInv

\* On the other platforms the resolver's variables keep what they were.
LEMMA ResolverRests ==
    ASSUME PodcastInv, WorkersNext, platform # "podcast"
    PROVE  PodcastInv'
<1>1. \/ UNCHANGED seekVars
      \/ Forget /\ NotTheEpisode
  BY DEF WorkersNext, WorkerStep, WorkerFails, TranscriberStep, FeedGrows
<1>2. ResolverFits'
  BY <1>1 DEF PodcastInv, ResolverFits, SeekIsARecord, Forget, NoSeek, NotTheEpisode, seekVars
<1>. QED
  BY <1>2, WorkersPlatformStays
     DEF PodcastInv, PodcastsRunNothing, EpisodesAreRecorded, TextsAreOfAnswers

-----------------------------------------------------------------------------
(* Success                                                                 *)

\* A worker gives up before it ended the job: a callback neither before it
\* looked at the claim nor behind its end or the run that replaced its own, a
\* backstop never; and a podcast that has its text is not delivered again.
GivesUpInTime(p) ==
    /\ ClaimsAreRespected(p)
    /\ \A step \in {"arming", "marking", "charging", "publishing"} :
          <<p, "callback", step>> \notin RaisesAt
    /\ <<p, "backstop", "received">> \notin RaisesAt
    /\ p = "podcast" => <<p, "ingest", "publishing">> \notin Faults

RunsNothing == {"article", "document", "podcast"}

\* A callback that may still end the job or give it up.
AtWork(m) ==
    /\ messages[m].kind = "callback"
    /\ messages[m].phase \in {"claimed", "starting", "persisting", "storing", "completing",
                              "failing"}

\* Who may still fail the job has not seen it completed; and YouTube's
\* ingestion replaces a run only when the job is over.
LeavesSuccess(m) ==
    LET kind == messages[m].kind
        phase == messages[m].phase
        snap == messages[m].snap
    IN  /\ AtWork(m) =>
              job.status # "completed" /\ (job.status = "failed" \/ job.run = messages[m].run)
        /\ kind = "backstop" => phase # "failing"
        /\ platform = "document" /\ phase = "extracting" => job.status # "completed"
        /\ platform = "tiktok" /\ phase = "gating" => job.status # "completed"
        /\ platform = "podcast" /\ kind = "ingest" /\ phase \notin {"gone", "publishing"} =>
              job.status # "completed" /\ snap.status # "completed"
        /\ platform = "youtube" =>
              /\ kind = "callback" => job.run # NoRun
              /\ kind = "ingest" /\ phase \in {"received", "starting"} =>
                    /\ snap.run = NoRun => job.run = NoRun
                    /\ Active(snap) \/ snap.run = NoRun \/ Terminal(job)
              /\ kind = "ingest" /\ phase = "persisting" => job.run = NoRun \/ Terminal(job)

\* What that rests on: some platforms start no run, a run of YouTube's is over
\* when its job is, and where the audio was sent no worker is left.
EndsAreSound ==
    /\ platform \in RunsNothing => job.run = NoRun
    /\ platform = "youtube" => job.run = NoRun \/ Active(job) \/ Terminal(job)
    /\ platform \in {"podcast", "tiktok"} =>
          \A d \in Dispatches : Sent(d) =>
              job.run = NoRun /\ \A m \in Messages : messages[m].kind = "ingest" => At(m, "gone")

SuccessIsLeft ==
    GivesUpInTime(platform) => EndsAreSound /\ \A m \in Messages : LeavesSuccess(m)

\* What the relay's invariant says of these platforms.
LEMMA TimelyFacts ==
    ASSUME IInv, GivesUpInTime(platform)
    PROVE  /\ Typed /\ job \in Jobs /\ platform \notin Instagram /\ platform # "reel"
           /\ \A m \in Messages : FollowsRoute(m)
           /\ platform # "youtube" => \A m \in Messages : Precedes(m)
           /\ \A m \in Messages : messages[m].kind = "callback" => messages[m].run # NoRun
           /\ \A m, n \in Messages :
                 Continuing(m) /\ Continuing(n) /\ messages[m].run = messages[n].run => m = n
           /\ platform \notin {"podcast", "tiktok"} => \A d \in Dispatches : ~Sent(d)
<1>1. /\ Typed /\ job \in Jobs /\ platform \notin Instagram
      /\ ClaimsAreRespected(platform)
  BY DEF IInv, Typed, TypeOK, GivesUpInTime, ClaimsAreRespected
<1>2. \A m \in Messages : FollowsRoute(m)
  BY DEF IInv, RoutesAreFollowed
<1>3. platform # "youtube" => \A m \in Messages : Precedes(m)
  BY <1>1 DEF IInv, WritesPrecedeRuns, Fresh, ClaimsAreRespected
<1>4. \A m \in Messages : messages[m].kind = "callback" => messages[m].run # NoRun
  BY RunsAssumption DEF IInv, RunsAreHeld, Used
<1>5. \A m, n \in Messages :
         Continuing(m) /\ Continuing(n) /\ messages[m].run = messages[n].run => m = n
  BY <1>1 DEF IInv, ContinuedIsClaimed, ClaimsHold, ClaimIsSingle
<1>6. platform \notin {"podcast", "tiktok"} => \A d \in Dispatches : ~Sent(d)
  BY <1>1 DEF IInv, OthersNeverSettle, Spoken, Instagram
<1>. QED  BY <1>1, <1>2, <1>3, <1>4, <1>5, <1>6 DEF Instagram

\* A message that did not move stays so while the job's run does and its status
\* does or becomes failed.
LEMMA LeftAlone ==
    ASSUME NEW n \in Messages, LeavesSuccess(n), platform' = platform,
           messages'[n] = messages[n], job'.run = job.run,
           job'.status \in {job.status, "failed"}
    PROVE  LeavesSuccess(n)'
  BY DEF LeavesSuccess, AtWork, Active, Claimed, Terminal

\* Nor does it matter what a worker writes that has no run: no callback is there.
LEMMA LeftByWrites ==
    ASSUME IInv, GivesUpInTime(platform), NEW m \in Messages, platform # "youtube",
           \A n \in Messages : LeavesSuccess(n),
           messages[m].kind = "ingest", messages[m].phase \notin Persisted,
           platform' = platform, Alone(m)
    PROVE  \A n \in Messages \ {m} : LeavesSuccess(n)'
<1>. SUFFICES ASSUME NEW n \in Messages \ {m} PROVE LeavesSuccess(n)'
  OBVIOUS
<1>1. messages'[n] = messages[n] /\ LeavesSuccess(n)
  BY DEF Alone
<1>2. messages[n].kind # "callback"
  BY TimelyFacts DEF Precedes
<1>3. messages[n].kind = "ingest" => messages[n].phase = "gone"
  BY TimelyFacts DEF FollowsRoute, Persisted
<1>4. messages[n].kind # "ingest" => messages[n].phase \notin {"extracting", "gating"}
  BY <1>2, TimelyFacts DEF FollowsRoute, Gating
<1>. QED  BY <1>1, <1>2, <1>3, <1>4 DEF LeavesSuccess, AtWork

\* What stays when a step leaves the job's run alone and ends it, if at all, as
\* failed; of the messages it concerns only those that moved.
LEMMA SuccessStays ==
    ASSUME IInv, SuccessIsLeft, GivesUpInTime(platform), platform' = platform,
           job'.run = job.run, job'.status \in {job.status, "failed"},
           job'.status = "failed" \/ job'.state = job.state \/ Active(job'),
           \A d \in Dispatches : Sent(d)' => Sent(d),
           \A n \in Messages :
              \/ messages'[n] = messages[n]
              \/ /\ LeavesSuccess(n)'
                 /\ messages'[n].kind = "ingest" /\ messages'[n].phase # "gone" =>
                       messages[n].kind = "ingest" /\ messages[n].phase # "gone"
    PROVE  SuccessIsLeft'
<1>0. EndsAreSound /\ \A n \in Messages : LeavesSuccess(n)
  BY DEF SuccessIsLeft
<1>1. ASSUME NEW n \in Messages PROVE LeavesSuccess(n)'
  BY <1>0, LeftAlone
<1>2. platform \in RunsNothing => job'.run = NoRun
  BY <1>0 DEF EndsAreSound
<1>3. job.run = NoRun \/ Active(job) \/ Terminal(job) =>
         job'.run = NoRun \/ Active(job') \/ Terminal(job')
  BY DEF Active, Claimed, Terminal
<1>4. ASSUME platform \in {"podcast", "tiktok"}, NEW d \in Dispatches, Sent(d)',
             NEW m \in Messages
      PROVE  /\ job'.run = NoRun
             /\ messages'[m].kind = "ingest" => messages'[m].phase = "gone"
  BY <1>0, <1>4 DEF EndsAreSound, At
<1>5. EndsAreSound'
  <2>1. platform' \in {"podcast", "tiktok"} =>
           \A d \in Dispatches : Sent(d)' =>
              job'.run = NoRun /\ \A m \in Messages : messages'[m].kind = "ingest" => At(m, "gone")'
    BY <1>0, <1>4 DEF EndsAreSound, At
  <2>2. platform' = "youtube" => job'.run = NoRun \/ Active(job') \/ Terminal(job')
    BY <1>0, <1>3 DEF EndsAreSound
  <2>. QED  BY <1>2, <2>1, <2>2 DEF EndsAreSound
<1>. QED  BY <1>1, <1>5 DEF SuccessIsLeft

\* A worker without a run is the only one, and nothing was sent for it yet.
LEMMA OnlyWorker ==
    ASSUME IInv, SuccessIsLeft, GivesUpInTime(platform), NEW m \in Messages,
           platform # "youtube", messages[m].kind = "ingest", messages[m].phase \notin Persisted
    PROVE  /\ job.run = NoRun
           /\ platform \in {"podcast", "tiktok"} => \A d \in Dispatches : ~Sent(d)
           /\ messages[m].phase \notin Over => messages[m].snap.run = NoRun
<1>1. Precedes(m)
  BY TimelyFacts
<1>2. platform \in {"podcast", "tiktok"} => \A d \in Dispatches : ~Sent(d)
  BY DEF SuccessIsLeft, EndsAreSound, At, Persisted
<1>. QED  BY <1>1, <1>2 DEF Precedes

LEMMA WrittenByWorker ==
    ASSUME IInv, SuccessIsLeft, GivesUpInTime(platform), NEW m \in Messages,
           platform # "youtube", messages[m].kind = "ingest", messages[m].phase \notin Persisted,
           platform' = platform, Alone(m), UNCHANGED dispatches, LeavesSuccess(m)',
           platform \in RunsNothing => job'.run = NoRun
    PROVE  SuccessIsLeft'
<1>1. \A n \in Messages : LeavesSuccess(n)'
  BY LeftByWrites DEF SuccessIsLeft
<1>2. EndsAreSound'
  BY OnlyWorker DEF EndsAreSound, Sent
<1>. QED  BY <1>1, <1>2 DEF SuccessIsLeft

LEMMA SuccessWalks ==
    ASSUME IInv, SuccessIsLeft, GivesUpInTime(platform),
           NEW m \in Messages, NEW phase \in Phases, Walk(m, phase)
    PROVE  SuccessIsLeft'
<1>. USE DEF Gone, Waits, KeepsName, Steps, Alone, At, Is
<1>0. /\ Typed /\ FollowsRoute(m) /\ LeavesSuccess(m) /\ EndsAreSound /\ platform \notin Instagram
      /\ UNCHANGED <<platform, job, dispatches>> /\ Leads(m, phase)
      /\ NewJob.status # "completed"
  BY TimelyFacts DEF SuccessIsLeft, Walk, NewJob
<1>1. CASE phase = "gone"
  <2>1. Alone(m) /\ Gone(m)
    BY <1>0, <1>1, Walking
  <2>2. LeavesSuccess(m)'
    BY <2>1 DEF LeavesSuccess, AtWork
  <2>. QED  BY <1>0, <2>1, <2>2, SuccessStays DEF Sent
<1>2. ASSUME phase \in {"queued", "failing"}, messages[m].kind = "ingest"
      PROVE  messages[m].phase # "gone" /\ (platform = "podcast" => messages[m].phase # "publishing")
  <2>1. \/ <<platform, "ingest", messages[m].phase>> \in Faults
        \/ messages[m].phase \in {"extracting", "claimed", "starting"}
    BY <1>0, <1>2 DEF Leads, Faults
  <2>2. messages[m].phase # "gone"
    BY <2>1, StepsAssumption DEF Faults, Attempts
  <2>. QED  BY <2>1, <2>2 DEF GivesUpInTime
<1>3. CASE phase = "queued"
  <2>1. Waits(m)
    BY <1>0, <1>3, Walking
  <2>2. LeavesSuccess(m)'
    BY <1>0, <1>2, <1>3, <2>1 DEF LeavesSuccess, AtWork
  <2>. QED  BY <1>0, <1>2, <1>3, <2>1, <2>2, SuccessStays DEF Sent
<1>4. CASE phase = "failing"
  <2>1. Steps(m, "failing") /\ messages'[m].snap = messages[m].snap
    BY <1>0, <1>4, Walking
  <2>2. ASSUME messages[m].kind = "callback" PROVE AtWork(m)
    <3>1. \/ <<platform, "callback", messages[m].phase>> \in RaisesAt
          \/ messages[m].phase \in {"claimed", "starting"}
      BY <1>0, <1>4, <2>2 DEF Leads, FollowsRoute
    <3>2. messages[m].phase \notin {"received", "arming", "marking", "charging", "publishing"}
      BY <3>1 DEF GivesUpInTime, ClaimsAreRespected, ClaimsFirst
    <3>3. messages[m].phase \notin {"extracting", "handing", "gating", "dispatching"}
      BY <1>0, <2>2 DEF FollowsRoute, Gating, Instagram
    <3>4. messages[m].phase # "metering"
      <4>1. platform # "document"
        BY <1>0, <2>2, TimelyFacts DEF EndsAreSound, RunsNothing, Precedes
      <4>. QED  BY <1>0, <4>1 DEF FollowsRoute, Instagram
    <3>. QED
      BY <2>2, <3>1, <3>2, <3>3, <3>4, StepsAssumption DEF AtWork, Attempts
  <2>3. messages[m].kind # "backstop"
    <3>1. SUFFICES ASSUME messages[m].kind = "backstop" PROVE FALSE
      OBVIOUS
    <3>2. messages[m].phase \in Attempts
      BY <1>0, <1>4, <3>1, StepsAssumption DEF Leads, Attempts
    <3>3. messages[m].phase = "received"
      BY <1>0, <3>1, <3>2 DEF FollowsRoute, Attempts
    <3>. QED  BY <1>0, <1>4, <3>1, <3>3 DEF Leads, GivesUpInTime
  <2>4. LeavesSuccess(m)'
    BY <1>0, <1>2, <1>4, <2>1, <2>2, <2>3 DEF LeavesSuccess, AtWork
  <2>. QED  BY <1>0, <1>2, <1>4, <2>1, <2>4, SuccessStays DEF Sent
<1>5. CASE phase \notin {"gone", "queued", "failing"}
  <2>1. Steps(m, phase) /\ messages'[m].snap = messages[m].snap
    BY <1>0, <1>5, Walking
  <2>2. /\ phase \in {"storing", "metering", "handing", "starting", "arming", "completing"}
        /\ messages[m].phase \in {"received", "extracting", "claimed", "starting", "storing"}
        /\ phase \in {"storing", "starting", "completing"} /\ messages[m].kind = "callback" =>
              messages[m].phase \in {"claimed", "storing"}
        /\ phase = "starting" /\ platform = "youtube" /\ messages[m].kind = "ingest" =>
              messages[m].phase = "received"
    BY <1>0, <1>5 DEF Leads, FollowsRoute, Instagram
  <2>3. LeavesSuccess(m)'
    BY <1>0, <2>1, <2>2 DEF LeavesSuccess, AtWork
  <2>. QED  BY <1>0, <2>1, <2>2, <2>3, SuccessStays DEF Sent
<1>. QED  BY <1>1, <1>3, <1>4, <1>5

LEMMA SuccessPersists ==
    ASSUME IInv, SuccessIsLeft, GivesUpInTime(platform), NEW m \in Messages, PersistRun(m)
    PROVE  SuccessIsLeft'
<1>. USE DEF Steps, KeepsName, Alone, At
<1>0. /\ Typed /\ job \in Jobs /\ FollowsRoute(m) /\ LeavesSuccess(m) /\ EndsAreSound
      /\ At(m, "persisting") /\ Steps(m, "arming")
      /\ UNCHANGED <<platform, dispatches>> /\ platform \notin Instagram
  BY TimelyFacts, RunPersisting DEF SuccessIsLeft
<1>1. /\ job'.run = Snap(m).run /\ job'.run # NoRun
      /\ job'.status = job.status /\ job'.state = "waiting"
  <2>1. Snap(m).run # NoRun
    BY <1>0 DEF IInv, RunsAreHeld
  <2>. QED  BY <1>0, <2>1, RunPersisting DEF WithRun, Jobs
<1>2. \/ messages[m].kind = "ingest" /\ platform \in {"tiktok", "youtube"}
      \/ messages[m].kind = "callback" /\ platform = "youtube"
  BY <1>0 DEF FollowsRoute, Starting
<1>3. LeavesSuccess(m)'
  BY <1>0, <1>1, <1>2 DEF LeavesSuccess, AtWork
<1>4. CASE platform = "tiktok"
  BY <1>0, <1>2, <1>3, <1>4, WrittenByWorker DEF Persisted, RunsNothing
<1>5. CASE platform = "youtube"
  <2>1. ASSUME NEW n \in Messages \ {m} PROVE LeavesSuccess(n)'
    <3>0. LeavesSuccess(n) /\ messages'[n] = messages[n]
      BY <1>0 DEF SuccessIsLeft
    <3>1. ASSUME AtWork(n) PROVE job.status = "failed"
      <4>1. SUFFICES ASSUME job.status # "failed" PROVE FALSE
        OBVIOUS
      <4>2. job.run = messages[n].run /\ job.run # NoRun /\ ~Terminal(job)
        BY <3>0, <3>1, <4>1, TimelyFacts DEF LeavesSuccess, AtWork, Terminal
      <4>3. messages[m].kind # "ingest"
        BY <1>0, <1>5, <4>2 DEF LeavesSuccess
      <4>4. AtWork(m) /\ Continuing(m) /\ Continuing(n)
        BY <1>0, <1>2, <3>1, <4>3 DEF AtWork, Continuing
      <4>5. job.run = messages[m].run
        BY <1>0, <4>1, <4>4 DEF LeavesSuccess
      <4>. QED  BY <4>2, <4>4, <4>5, TimelyFacts
    <3>2. messages[n].kind = "ingest" /\ messages[n].phase # "gone" =>
             messages[m].kind = "callback" /\ job.run # NoRun
      BY <1>0, <1>2, <1>5, TimelyFacts DEF FollowsRoute, LeavesSuccess
    <3>. QED  BY <1>0, <1>1, <1>5, <3>0, <3>1, <3>2 DEF LeavesSuccess, AtWork, Terminal
  <2>2. EndsAreSound'
    BY <1>0, <1>1, <1>5 DEF EndsAreSound, RunsNothing, Active
  <2>. QED  BY <1>3, <2>1, <2>2 DEF SuccessIsLeft
<1>. QED  BY <1>2, <1>4, <1>5

LEMMA EndedStatus ==
    ASSUME Typed, NEW m \in Messages, EndRelay(m),
           messages[m].kind # "callback" \/ MayComplete(job, Snap(m).run)
    PROVE  job'.status = IF At(m, "completing") THEN "completed"
                         ELSE IF platform = "podcast" THEN Snap(m).status ELSE "transcribing"
<1>. DEFINE status == IF At(m, "completing") THEN "completed"
                      ELSE IF platform = "podcast" THEN Snap(m).status ELSE "transcribing"
            state == IF messages[m].kind = "callback" THEN "processed" ELSE Snap(m).state
<1>1. job' = [Snap(m) EXCEPT !.status = status, !.state = state]
  BY DEF EndRelay, Ended
<1>. HIDE DEF status, state
<1>2. job'.status = status
  BY <1>1, HeldJobs DEF Jobs
<1>. QED  BY <1>2 DEF status

LEMMA SuccessEnds ==
    ASSUME IInv, SuccessIsLeft, GivesUpInTime(platform), NEW m \in Messages, EndRelay(m),
           messages[m].kind # "callback" \/ MayComplete(job, Snap(m).run)
    PROVE  SuccessIsLeft'
<1>. USE DEF Steps, KeepsName, Alone, At
<1>. DEFINE next == IF At(m, "handing") THEN "gating"
                    ELSE IF platform = "youtube" THEN "charging" ELSE "publishing"
<1>0. /\ Typed /\ FollowsRoute(m) /\ LeavesSuccess(m) /\ EndsAreSound /\ platform \notin Instagram
      /\ messages[m].phase \in {"completing", "handing"} /\ Steps(m, next)
      /\ messages'[m].snap = job' /\ job'.run = Snap(m).run
      /\ messages[m].kind = "callback" =>
            job'.state = "processed" /\ job.run = Snap(m).run
      /\ UNCHANGED <<platform, dispatches>>
  BY TimelyFacts, Ending DEF SuccessIsLeft
<1>1. job'.status = IF At(m, "completing") THEN "completed"
                    ELSE IF platform = "podcast" THEN Snap(m).status ELSE "transcribing"
  BY <1>0, EndedStatus
<1>2. CASE messages[m].kind # "callback"
  <2>1. messages[m].kind = "ingest" /\ platform # "youtube"
    BY <1>0, <1>2 DEF FollowsRoute, Gating, Typed, TypeOK, Kinds
  <2>2. next \in {"gating", "publishing"} /\ (next = "gating" => At(m, "handing"))
    BY <2>1
  <2>. HIDE DEF next
  <2>3. LeavesSuccess(m)'
    BY <1>0, <1>1, <2>1, <2>2 DEF LeavesSuccess, AtWork, Snap
  <2>4. messages[m].phase \notin Persisted \cup Over
    BY <1>0 DEF Persisted, Over
  <2>5. job'.run = NoRun
    BY <1>0, <2>1, <2>4, OnlyWorker DEF Snap
  <2>. QED  BY <1>0, <2>1, <2>3, <2>4, <2>5, WrittenByWorker
<1>3. CASE messages[m].kind = "callback"
  <2>1. messages[m].phase = "completing" /\ job'.status = "completed"
    BY <1>0, <1>1, <1>3 DEF FollowsRoute, Gating, Instagram
  <2>2. next \in {"charging", "publishing"}
    BY <2>1
  <2>. HIDE DEF next
  <2>3. AtWork(m) /\ Continuing(m) /\ ~Terminal(job) /\ job'.run = job.run
    BY <1>0, <1>3, <2>1 DEF AtWork, Continuing, MayComplete
  <2>4. job.run = messages[m].run /\ job.run # NoRun
    BY <1>0, <1>3, <2>3, TimelyFacts DEF LeavesSuccess, Terminal
  <2>5. platform \in {"tiktok", "youtube"}
    <3>1. platform \notin RunsNothing
      BY <1>0, <2>4 DEF EndsAreSound
    <3>. QED
      BY <1>0, <3>1, PlatformsAssumption DEF Typed, TypeOK, RunsNothing, Instagram
  <2>6. LeavesSuccess(m)'
    BY <1>0, <1>3, <2>1, <2>2, <2>3, <2>4, <2>5 DEF LeavesSuccess, AtWork
  <2>7. ASSUME NEW n \in Messages \ {m} PROVE LeavesSuccess(n)'
    <3>0. LeavesSuccess(n) /\ messages'[n] = messages[n]
      BY <1>0 DEF SuccessIsLeft
    <3>1. ~AtWork(n)
      <4>1. SUFFICES ASSUME AtWork(n) PROVE FALSE
        OBVIOUS
      <4>2. job.run = messages[n].run /\ Continuing(n)
        BY <2>3, <3>0, <4>1 DEF LeavesSuccess, AtWork, Continuing, Terminal
      <4>. QED  BY <2>3, <2>4, <4>2, TimelyFacts
    <3>2. platform = "tiktok" => messages[n].phase # "gating"
      <4>1. messages[n].phase = "gating" /\ platform = "tiktok" => messages[n].kind = "ingest"
        BY TimelyFacts DEF FollowsRoute, Gating
      <4>. QED  BY <2>4, <4>1, TimelyFacts DEF Precedes, Persisted
    <3>. QED
      BY <1>0, <2>1, <2>3, <2>4, <2>5, <3>0, <3>1, <3>2 DEF LeavesSuccess, AtWork, Terminal
  <2>8. EndsAreSound'
    BY <1>0, <2>1, <2>3, <2>4, <2>5 DEF EndsAreSound, RunsNothing, Terminal, Sent
  <2>. QED  BY <2>6, <2>7, <2>8 DEF SuccessIsLeft
<1>. QED  BY <1>2, <1>3

LEMMA SuccessTranscribes ==
    ASSUME IInv, SuccessIsLeft, GivesUpInTime(platform), Elsewhere
    PROVE  SuccessIsLeft'
<1>0. /\ Typed /\ job \in Jobs /\ EndsAreSound /\ platform' = platform /\ job'.run = job.run
      /\ \A n \in Messages : LeavesSuccess(n)
      /\ NewJob.status # "completed"
  BY TimelyFacts, Others DEF SuccessIsLeft, NewJob
<1>1. ASSUME NEW d \in Dispatches, TranscriptionStep(d) \/ TranscriptionRaises(d)
      PROVE  SuccessIsLeft'
  <2>1. UNCHANGED messages /\ Sent(d) /\ \A e \in Dispatches : Sent(e)' => Sent(e)
    BY <1>0, <1>1, TranscriptionPays DEF Sent
  <2>2. platform \in {"podcast", "tiktok"}
    BY <2>1, TimelyFacts
  <2>3. /\ job.run = NoRun
        /\ \A m \in Messages : messages[m].kind = "ingest" => messages[m].phase = "gone"
    BY <1>0, <2>1, <2>2 DEF EndsAreSound, At
  <2>4. \A m \in Messages : messages[m].kind # "callback"
    BY <2>2, <2>3, TimelyFacts DEF Precedes
  <2>5. \A m \in Messages : messages[m].kind # "ingest" => messages[m].phase \notin {"extracting", "gating"}
    BY <2>4, TimelyFacts DEF FollowsRoute, Gating
  <2>6. \A m \in Messages : LeavesSuccess(m)'
    BY <1>0, <2>1, <2>2, <2>3, <2>4, <2>5 DEF LeavesSuccess, AtWork
  <2>7. EndsAreSound'
    BY <1>0, <2>1, <2>2, <2>3 DEF EndsAreSound, At
  <2>. QED  BY <2>6, <2>7 DEF SuccessIsLeft
<1>2. ASSUME ~\E d \in Dispatches : TranscriptionStep(d) \/ TranscriptionRaises(d)
      PROVE  SuccessIsLeft'
  <2>1. /\ UNCHANGED dispatches /\ job'.status = job.status
        /\ job'.state = job.state \/ Active(job')
    BY <1>0, <1>2 DEF Elsewhere, RunEnds, Webhook, LeaseExpires, Jobs, Active, Claimed
  <2>2. ASSUME NEW n \in Messages, messages'[n].kind = "callback", messages'[n].phase = "queued",
               job.run # NoRun
        PROVE  LeavesSuccess(n)'
    BY <1>0, <2>2 DEF LeavesSuccess, AtWork
  <2>3. \A n \in Messages :
           \/ messages'[n] = messages[n]
           \/ messages'[n].kind = "callback" /\ messages'[n].phase = "queued" /\ job.run # NoRun
    BY <1>0, Others, RunsAssumption DEF Alone
  <2>. QED  BY <1>0, <2>1, <2>2, <2>3, SuccessStays DEF Sent
<1>. QED  BY <1>1, <1>2

LEMMA SuccessSteps ==
    ASSUME IInv, SuccessIsLeft, Next
    PROVE  SuccessIsLeft'
<1>. USE DEF Gone, Waits, KeepsName, Steps, Alone, At, Is, Sent
<1>p. platform' = platform
  BY PlatformStays
<1>. SUFFICES ASSUME GivesUpInTime(platform) PROVE SuccessIsLeft'
  BY <1>p DEF SuccessIsLeft, GivesUpInTime, ClaimsAreRespected
<1>0. /\ Typed /\ job \in Jobs /\ platform \notin Instagram /\ EndsAreSound
      /\ \A m \in Messages : FollowsRoute(m) /\ LeavesSuccess(m)
      /\ NewJob.status # "completed"
  BY TimelyFacts DEF SuccessIsLeft, NewJob
<1>1. ASSUME NEW m \in Messages, Walks(m) PROVE SuccessIsLeft'
  BY <1>0, <1>1, Walkers, SuccessWalks
<1>2. ASSUME NEW m \in Messages, Receive(m) PROVE SuccessIsLeft'
  <2>1. /\ At(m, "queued") /\ Steps(m, "received") /\ messages'[m].snap = job
        /\ UNCHANGED <<job, dispatches>>
    BY <1>0, <1>2, Receiving
  <2>2. LeavesSuccess(m)'
    BY <1>0, <1>p, <2>1 DEF LeavesSuccess, AtWork, EndsAreSound, Active, Claimed, Terminal
  <2>. QED  BY <1>p, <2>1, <2>2, SuccessStays
<1>3. ASSUME NEW m \in Messages, MarkExtracting(m), platform # "youtube" PROVE SuccessIsLeft'
  <2>1. /\ Is(m, "ingest", "received") /\ Steps(m, "extracting")
        /\ job' \in {job, [Snap(m) EXCEPT !.status = "extracting"]}
        /\ UNCHANGED dispatches
    BY <1>0, <1>3, Marking
  <2>2. Snap(m) \in Jobs /\ [Snap(m) EXCEPT !.status = "extracting"] \in Jobs
    BY <1>0, HeldJobs, WrittenJobs DEF Statuses
  <2>3. platform = "podcast" =>
           job'.status # "completed" /\ messages'[m].snap.status # "completed"
    <3>1. \A j \in Jobs : ToWith(m, "extracting", j) => messages'[m].snap = j
      BY <1>0, GoingOnWith DEF Phases, Attempts
    <3>2. job' \in Jobs
      BY <1>0, <2>1, <2>2
    <3>3. CASE platform = "podcast" /\ Snap(m).status # "pending"
      <4>1. job' = job /\ messages'[m].snap = Snap(m)
        BY <1>3, <2>2, <3>1, <3>3 DEF MarkExtracting
      <4>. QED  BY <1>0, <2>1, <3>3, <4>1 DEF LeavesSuccess, Snap
    <3>4. CASE platform = "podcast" /\ Snap(m).status = "pending"
      <4>1. messages'[m].snap = job' /\ job' = [Snap(m) EXCEPT !.status = "extracting"]
        BY <1>3, <3>1, <3>2, <3>4 DEF MarkExtracting
      <4>2. job'.status = "extracting"
        BY <2>2, <4>1 DEF Jobs
      <4>. QED  BY <4>1, <4>2
    <3>. QED  BY <3>3, <3>4
  <2>4. job'.run = NoRun
    BY <1>3, <2>1, <2>2, OnlyWorker DEF Persisted, Over, Snap, Jobs
  <2>5. platform = "document" => job'.status # "completed"
    <3>1. platform = "document" => job' = [Snap(m) EXCEPT !.status = "extracting"]
      BY <1>3 DEF MarkExtracting
    <3>. QED  BY <2>2, <3>1 DEF Jobs
  <2>6. LeavesSuccess(m)'
    BY <1>3, <1>p, <2>1, <2>3, <2>5 DEF LeavesSuccess, AtWork
  <2>. QED  BY <1>3, <1>p, <2>1, <2>4, <2>6, WrittenByWorker DEF Persisted
<1>4. ASSUME NEW m \in Messages, ParseFails(m) PROVE SuccessIsLeft'
  <2>1. /\ At(m, "extracting") /\ platform = "document" /\ messages[m].kind = "ingest"
        /\ Waits(m) \/ (Alone(m) /\ Gone(m))
        /\ job'.run = Snap(m).run /\ UNCHANGED dispatches
    BY <1>0, <1>4, ParseFailing, HeldJobs DEF FollowsRoute, Jobs
  <2>2. LeavesSuccess(m)'
    BY <1>p, <2>1 DEF LeavesSuccess, AtWork
  <2>3. job'.run = NoRun
    BY <2>1, OnlyWorker DEF Persisted, Over, Snap
  <2>. QED  BY <1>p, <2>1, <2>2, <2>3, WrittenByWorker DEF Persisted
<1>5. ASSUME NEW m \in Messages, StartRun(m) PROVE SuccessIsLeft'
  <2>1. At(m, "starting") /\ Steps(m, "persisting") /\ UNCHANGED <<job, dispatches>>
    BY <1>0, <1>5, RunStarting
  <2>2. messages[m].kind = "callback" \/ messages[m].snap.run = NoRun \/ ~Active(messages[m].snap)
    BY <1>5 DEF StartRun, NeedsRun, Snap
  <2>3. platform # "podcast"
    BY <1>0, <2>1 DEF FollowsRoute, Starting
  <2>4. LeavesSuccess(m)'
    BY <1>0, <1>p, <2>1, <2>2, <2>3 DEF LeavesSuccess, AtWork, Terminal
  <2>. QED  BY <1>p, <2>1, <2>4, SuccessStays
<1>6. ASSUME NEW m \in Messages, PersistRun(m) PROVE SuccessIsLeft'
  BY <1>6, SuccessPersists
<1>7. ASSUME NEW m \in Messages, ArmBackstop(m) PROVE SuccessIsLeft'
  <2>1. PICK n \in Messages \ {m} :
           /\ \A k \in Messages \ {m, n} : messages'[k] = messages[k]
           /\ messages'[n].kind = "backstop" /\ messages'[n].phase = "queued"
    BY <1>0, <1>7, BackstopArming
  <2>2. /\ At(m, "arming") /\ KeepsName(m) /\ UNCHANGED <<job, dispatches>>
        /\ messages'[m].phase = "marking"
    BY <1>0, <1>7, BackstopArming
  <2>3. platform # "podcast"
    BY <1>0, <2>2 DEF FollowsRoute, Starting
  <2>4. LeavesSuccess(m)' /\ LeavesSuccess(n)'
    BY <1>0, <1>p, <2>1, <2>2, <2>3 DEF LeavesSuccess, AtWork
  <2>. QED  BY <1>p, <2>1, <2>2, <2>4, SuccessStays
<1>8. ASSUME NEW m \in Messages, MarkArmed(m) PROVE SuccessIsLeft'
  <2>1. /\ Alone(m) /\ Gone(m) /\ UNCHANGED dispatches
        /\ job'.run = job.run /\ job'.status = job.status /\ job'.state = job.state
    BY <1>0, <1>8, ArmedMarking DEF Jobs
  <2>2. LeavesSuccess(m)'
    BY <2>1 DEF LeavesSuccess, AtWork
  <2>. QED  BY <1>p, <2>1, <2>2, SuccessStays
<1>9. ASSUME NEW m \in Messages, ClaimCallback(m), MayClaim(job, messages[m].run)
      PROVE  SuccessIsLeft'
  <2>1. /\ Is(m, "callback", "received") /\ Steps(m, "claimed")
        /\ job'.run = job.run /\ job'.status = job.status /\ Active(job')
        /\ UNCHANGED dispatches
    BY <1>0, <1>9, Claiming DEF Jobs, Active, Claimed
  <2>2. ~Terminal(job) /\ job.run = messages[m].run
    BY <1>9 DEF MayClaim
  <2>3. LeavesSuccess(m)'
    BY <1>0, <1>p, <2>1, <2>2 DEF LeavesSuccess, AtWork, Terminal
  <2>. QED  BY <1>p, <2>1, <2>3, SuccessStays
<1>10. ASSUME NEW m \in Messages, MeterPages(m) PROVE SuccessIsLeft'
  <2>1. /\ At(m, "metering") /\ (Steps(m, "storing") \/ Steps(m, "failing"))
        /\ UNCHANGED <<job, dispatches>>
    BY <1>0, <1>10, Metering
  <2>2. platform = "document" /\ messages[m].kind # "backstop"
    BY <1>0, <2>1 DEF FollowsRoute, Instagram
  <2>3. messages[m].kind # "callback"
    BY <1>0, <2>2, TimelyFacts DEF EndsAreSound, RunsNothing, Precedes
  <2>4. LeavesSuccess(m)'
    BY <1>p, <2>1, <2>2, <2>3 DEF LeavesSuccess, AtWork
  <2>. QED  BY <1>p, <2>1, <2>4, SuccessStays
<1>11. ASSUME NEW m \in Messages, EndRelay(m),
              messages[m].kind # "callback" \/ MayComplete(job, Snap(m).run)
       PROVE  SuccessIsLeft'
  BY <1>11, SuccessEnds
<1>12. ASSUME NEW m \in Messages, ChargeCaptions(m) PROVE SuccessIsLeft'
  <2>1. /\ At(m, "charging") /\ Steps(m, "publishing") /\ UNCHANGED <<job, dispatches>>
    BY <1>0, <1>12, CaptionsCharging
  <2>2. LeavesSuccess(m)'
    BY <1>0, <1>p, <2>1 DEF LeavesSuccess, AtWork
  <2>. QED  BY <1>p, <2>1, <2>2, SuccessStays
<1>13. ASSUME NEW m \in Messages, RefuseByQuota(m) PROVE SuccessIsLeft'
  <2>1. /\ At(m, "gating") /\ Alone(m) /\ Gone(m) /\ job'.run = Snap(m).run
        /\ UNCHANGED dispatches
    BY <1>0, <1>13, Refusing, HeldJobs DEF Jobs
  <2>2. messages[m].kind = "ingest" /\ platform # "youtube"
    BY <1>0, <2>1 DEF FollowsRoute, Gating, Instagram
  <2>3. LeavesSuccess(m)'
    BY <2>1 DEF LeavesSuccess, AtWork
  <2>4. job'.run = NoRun
    BY <2>1, <2>2, OnlyWorker DEF Persisted, Over, Snap
  <2>. QED  BY <1>p, <2>1, <2>2, <2>3, <2>4, WrittenByWorker DEF Persisted
<1>14. ASSUME NEW m \in Messages, PassGate(m) PROVE SuccessIsLeft'
  <2>1. /\ At(m, "gating") /\ Alone(m) /\ KeepsName(m) /\ UNCHANGED <<job, dispatches>>
        /\ messages'[m].phase = "dispatching" /\ messages'[m].snap = messages[m].snap
    BY <1>0, <1>14, Passing
  <2>2. LeavesSuccess(m)'
    BY <1>0, <1>p, <2>1 DEF LeavesSuccess, AtWork
  <2>. QED  BY <1>p, <2>1, <2>2, SuccessStays
<1>15. ASSUME NEW m \in Messages, Dispatch(m) PROVE SuccessIsLeft'
  <2>1. At(m, "dispatching") /\ Alone(m) /\ Gone(m) /\ UNCHANGED job
    BY <1>0, <1>15, Dispatching
  <2>2. messages[m].kind = "ingest" /\ platform # "youtube"
    BY <1>0, <2>1 DEF FollowsRoute, Gating, Instagram
  <2>3. \A n \in Messages : LeavesSuccess(n)'
    <3>1. LeavesSuccess(m)'
      BY <2>1 DEF LeavesSuccess, AtWork
    <3>. QED  BY <1>0, <1>p, <2>1, <3>1, LeftAlone
  <2>4. /\ job'.run = NoRun
        /\ \A n \in Messages : messages'[n].kind = "ingest" => messages'[n].phase = "gone"
    <3>1. \A n \in Messages \ {m} : messages[n].kind = "ingest" => messages[n].phase = "gone"
      BY <1>0, <2>1, <2>2 DEF FollowsRoute
    <3>2. job.run = NoRun
      BY <2>1, <2>2, OnlyWorker DEF Persisted
    <3>. QED  BY <2>1, <3>1, <3>2
  <2>5. EndsAreSound'
    BY <1>p, <2>2, <2>4 DEF EndsAreSound
  <2>. QED  BY <2>3, <2>5 DEF SuccessIsLeft
<1>16. ASSUME NEW m \in Messages, ExpireRun(m), MayExpire(job, messages[m].run)
       PROVE  SuccessIsLeft'
  <2>1. /\ Is(m, "backstop", "received") /\ Steps(m, "reporting") /\ UNCHANGED dispatches
        /\ job'.run = job.run /\ job'.status = "failed"
    BY <1>0, <1>16, Expiring DEF Jobs
  <2>2. LeavesSuccess(m)'
    BY <2>1 DEF LeavesSuccess, AtWork
  <2>. QED  BY <1>p, <2>1, <2>2, SuccessStays
<1>17. ASSUME NEW m \in Messages, GiveUp(m) PROVE SuccessIsLeft'
  <2>1. /\ At(m, "failing") /\ Steps(m, "reporting") /\ messages'[m].snap = messages[m].snap
        /\ job'.run = job.run /\ job'.status = "failed" /\ UNCHANGED dispatches
    BY <1>0, <1>17, GivingUp DEF GiveUp, Jobs
  <2>2. LeavesSuccess(m)'
    BY <1>0, <1>p, <2>1 DEF LeavesSuccess, AtWork
  <2>. QED  BY <1>p, <2>1, <2>2, SuccessStays
<1>18. ASSUME Elsewhere PROVE SuccessIsLeft'
  BY <1>18, SuccessTranscribes
<1>. QED
  BY <1>1, <1>2, <1>3, <1>4, <1>5, <1>6, <1>7, <1>8, <1>9, <1>10, <1>11, <1>12, <1>13, <1>14,
     <1>15, <1>16, <1>17, <1>18, NextSteps DEF Writes

\* The podcast worker taken apart: what it records it holds, and is not completed.
LEMMA SuccessWithWorkers ==
    ASSUME IInv, SuccessIsLeft, [WorkersNext]_workersVars
    PROVE  SuccessIsLeft'
<1>. USE DEF Gone, Waits, KeepsName, Alone, At
<1>1. ASSUME NEW m \in Messages, RecordEpisode(m), GivesUpInTime(platform)
      PROVE  SuccessIsLeft'
  <2>1. /\ platform = "podcast" /\ At(m, "extracting") /\ messages[m].kind = "ingest"
        /\ job' = Snap(m) /\ job'.run = NoRun
        /\ UNCHANGED <<platform, messages, dispatches>>
    BY <1>1, Recording
  <2>2. LeavesSuccess(m)
    BY <1>1 DEF SuccessIsLeft
  <2>3. messages[m].snap.status # "completed"
    BY <2>1, <2>2 DEF LeavesSuccess
  <2>4. LeavesSuccess(m)'
    BY <2>1, <2>3 DEF LeavesSuccess, AtWork, Snap
  <2>. QED  BY <1>1, <2>1, <2>4, WrittenByWorker DEF Persisted
<1>2. ASSUME NEW m \in Messages, LoseLink(m), GivesUpInTime(platform)
      PROVE  SuccessIsLeft'
  <2>1. /\ platform = "podcast" /\ At(m, "extracting") /\ Typed
        /\ messages[m].kind = "ingest" /\ NewJob.status # "completed"
        /\ UNCHANGED <<platform, job, dispatches>>
    BY <1>2 DEF IInv, LoseLink, Seeking, RoutesAreFollowed, FollowsRoute, NewJob
  <2>2. Waits(m) \/ (Alone(m) /\ Gone(m))
    BY <1>2, <2>1, GoingGone, GoingQueued DEF LoseLink, Again
  <2>3. LeavesSuccess(m)'
    BY <1>2, <2>1, <2>2 DEF SuccessIsLeft, LeavesSuccess, AtWork
  <2>. QED  BY <1>2, <2>1, <2>2, <2>3, SuccessStays DEF Sent
<1>3. ASSUME UNCHANGED vars PROVE SuccessIsLeft'
  BY <1>3 DEF SuccessIsLeft, EndsAreSound, LeavesSuccess, AtWork, Active, Claimed, Terminal, Sent,
     GivesUpInTime, ClaimsAreRespected, vars, relayVars
<1>4. CASE WorkersNext
  <2>1. ASSUME NEW m \in Messages, RecordEpisode(m) \/ LoseLink(m) PROVE SuccessIsLeft'
    <3>1. platform' = platform
      BY <2>1 DEF RecordEpisode, LoseLink
    <3>2. CASE ~GivesUpInTime(platform)
      BY <3>1, <3>2 DEF SuccessIsLeft, GivesUpInTime, ClaimsAreRespected
    <3>. QED  BY <1>1, <1>2, <2>1, <3>2
  <2>. QED  BY <1>3, <1>4, <2>1, WorkersAddTwoSteps, SuccessSteps
<1>5. CASE UNCHANGED workersVars
  BY <1>3, <1>5 DEF workersVars
<1>. QED  BY <1>4, <1>5

LEMMA SuccessUnchanging ==
    ASSUME SuccessIsLeft, UNCHANGED vars
    PROVE  SuccessIsLeft'
  BY DEF SuccessIsLeft, EndsAreSound, LeavesSuccess, AtWork, Active, Claimed, Terminal, Sent,
     GivesUpInTime, ClaimsAreRespected, vars, relayVars, At

LEMMA SuccessInitially ==
    ASSUME Init
    PROVE  SuccessIsLeft
<1>1. NewJob.run = NoRun /\ NewJob.status = "pending" /\ NewJob \in Jobs
  BY DEF NewJob, Jobs, Statuses, States
<1>2. job.run = NoRun /\ job.status # "completed"
  <2>1. SubmittedAs(platform) \subseteq Statuses \ {"completed"}
    BY DEF SubmittedAs, Statuses
  <2>2. PICK status \in Statuses \ {"completed"} : job = [NewJob EXCEPT !.status = status]
    BY <2>1 DEF Init
  <2>. QED  BY <1>1, <2>2 DEF Jobs
<1>3. \A m \in Messages : /\ messages[m].kind = "ingest" /\ messages[m].snap = NewJob
                          /\ messages[m].phase \in {"gone", "queued"}
  BY DEF Init, NoMessage, NewMessage
<1>4. \A d \in Dispatches : ~Sent(d)
  BY DEF Init, Sent, NewDispatch
<1>. QED
  BY <1>1, <1>2, <1>3, <1>4 DEF SuccessIsLeft, EndsAreSound, LeavesSuccess, AtWork

\* Only a worker that gives up its ingestion fails a job that was completed.
LEMMA SuccessIsNotTaken ==
    ASSUME IInv, SuccessIsLeft, GivesUpInTime(platform), Next,
           job.status = "completed", job'.status = "failed"
    PROVE  \E m \in Messages : Is(m, "ingest", "failing")
<1>0. /\ Typed /\ job \in Jobs /\ platform \notin Instagram
      /\ \A m \in Messages : FollowsRoute(m) /\ LeavesSuccess(m)
  BY TimelyFacts DEF SuccessIsLeft
<1>. SUFFICES ASSUME NEW m \in Messages, Writes(m), ~Is(m, "ingest", "failing") PROVE FALSE
  <2>1. ASSUME NEW m \in Messages, Walks(m) PROVE FALSE
    BY <1>0, <2>1, Walkers DEF Walk
  <2>2. ASSUME Elsewhere PROVE FALSE
    BY <1>0, <2>2 DEF Elsewhere, TranscriptionStep, Transcribe, SettleMinutes, FinishTranscription,
       TranscriptionRaises, RunEnds, Webhook, LeaseExpires, Jobs
  <2>. QED  BY <2>1, <2>2, NextSteps
<1>1. CASE GiveUp(m)
  <2>1. messages[m].kind \in {"callback", "backstop"} /\ At(m, "failing")
    BY <1>0, <1>1 DEF GiveUp, Is, At, Typed, TypeOK, Kinds
  <2>. QED  BY <1>0, <2>1 DEF LeavesSuccess, AtWork, At
<1>2. CASE ParseFails(m)
  BY <1>0, <1>2 DEF ParseFails, LeavesSuccess, At
<1>3. CASE RefuseByQuota(m)
  <2>1. At(m, "gating") /\ messages[m].kind = "ingest" /\ platform \in {"podcast", "tiktok"}
    BY <1>0, <1>3 DEF RefuseByQuota, FollowsRoute, Gating, At, Instagram
  <2>. QED  BY <1>0, <2>1 DEF LeavesSuccess, At
<1>4. CASE EndRelay(m) /\ (messages[m].kind # "callback" \/ MayComplete(job, Snap(m).run))
  <2>1. messages[m].kind # "callback"
    BY <1>4 DEF MayComplete, Terminal
  <2>2. /\ job'.status = IF At(m, "completing") THEN "completed"
                         ELSE IF platform = "podcast" THEN Snap(m).status ELSE "transcribing"
        /\ messages[m].phase \in {"completing", "handing"}
    BY <1>0, <1>4, <2>1, EndedStatus DEF EndRelay
  <2>3. At(m, "handing") /\ platform = "podcast"
    <3>1. messages[m].phase = "completing" => job'.status = "completed"
      BY <2>2 DEF At
    <3>2. messages[m].phase = "handing" /\ platform # "podcast" => job'.status = "transcribing"
      BY <2>2 DEF At
    <3>. QED  BY <2>2, <3>1, <3>2 DEF At
  <2>4. messages[m].kind = "ingest"
    BY <1>0, <2>3 DEF FollowsRoute, Gating, At
  <2>. QED  BY <1>0, <2>3, <2>4 DEF LeavesSuccess, At
<1>5. CASE ExpireRun(m) /\ MayExpire(job, messages[m].run)
  BY <1>5 DEF MayExpire, Outstanding, Terminal
<1>6. CASE MarkExtracting(m) /\ platform # "youtube"
  <2>1. job' \in {job, [Snap(m) EXCEPT !.status = "extracting"]}
    BY <1>0, <1>6, Marking
  <2>. QED  BY <2>1, HeldJobs, <1>0 DEF Jobs
<1>7. CASE PersistRun(m)
  <2>1. job'.status = job.status
    BY <1>0, <1>7 DEF PersistRun, WithRun, Jobs
  <2>. QED  BY <2>1
<1>8. CASE MarkArmed(m)
  BY <1>0, <1>8, ArmedMarking DEF Jobs
<1>9. CASE ClaimCallback(m) /\ MayClaim(job, messages[m].run)
  BY <1>0, <1>9, Claiming DEF Jobs
<1>10. CASE \/ Receive(m) \/ StartRun(m) \/ ArmBackstop(m) \/ MeterPages(m)
            \/ ChargeCaptions(m) \/ PassGate(m) \/ Dispatch(m)
  BY <1>10 DEF Receive, StartRun, ArmBackstop, MeterPages, ChargeCaptions, PassGate, Dispatch
<1>. QED
  BY <1>1, <1>2, <1>3, <1>4, <1>5, <1>6, <1>7, <1>8, <1>9, <1>10 DEF Writes

\* Recording the episode and losing the link fail no job.
LEMMA SuccessIsNotTakenByWorkers ==
    ASSUME IInv, SuccessIsLeft, GivesUpInTime(platform), [WorkersNext]_workersVars,
           job.status = "completed", job'.status = "failed"
    PROVE  \E m \in Messages : Is(m, "ingest", "failing")
<1>1. ASSUME NEW m \in Messages, RecordEpisode(m) PROVE FALSE
  <2>1. platform = "podcast" /\ At(m, "extracting") /\ messages[m].kind = "ingest"
    BY <1>1, Recording
  <2>. QED  BY <2>1 DEF SuccessIsLeft, LeavesSuccess, At
<1>2. ASSUME NEW m \in Messages, LoseLink(m) PROVE FALSE
  BY <1>2 DEF LoseLink
<1>3. CASE WorkersNext
  BY <1>1, <1>2, <1>3, WorkersAddTwoSteps, SuccessIsNotTaken DEF vars, relayVars
<1>4. CASE UNCHANGED workersVars
  BY <1>4 DEF workersVars, vars, relayVars
<1>. QED  BY <1>3, <1>4

-----------------------------------------------------------------------------
(* What holds of every behaviour                                           *)

\* The invariant holds of every behaviour, whatever raises and whatever is
\* killed, and whether or not the worker of podcasts is taken apart.
THEOREM Invariance == Spec \/ WorkersSpec => []IInv
<1>1. Init => IInv
  BY Initially
<1>2. IInv /\ [Next]_vars => IInv'
  BY EveryStepKeeps
<1>3. WorkersInit => IInv
  BY Initially DEF WorkersInit
<1>4. IInv /\ [WorkersNext]_workersVars => IInv'
  BY EveryWorkersStepKeeps
<1>. QED  BY <1>1, <1>2, <1>3, <1>4, PTL DEF Spec, WorkersSpec

\* What is known of the resolver holds of every behaviour of the workers.
THEOREM PodcastInvariance == WorkersSpec => []PodcastInv
<1>1. WorkersInit => PodcastInv
  BY PodcastInitially
<1>2. IInv /\ PodcastInv /\ [WorkersNext]_workersVars => PodcastInv'
  BY PodcastSteps, ResolverRests, PodcastUnchanging
<1>. QED  BY <1>1, <1>2, Invariance, PTL DEF WorkersSpec

\* Every variable keeps its type.
THEOREM TypesAreCorrect == Spec \/ WorkersSpec => []TypeOK
<1>1. IInv => TypeOK
  BY DEF IInv, Typed
<1>. QED  BY <1>1, Invariance, PTL

\* A transcription that is delivered was charged in full: what the gate took
\* and what settle_transcription_minutes added come to the bill, in whatever
\* order messages are delivered again and whichever writes of the gate fail.
\* Only a settlement whose own write raised and was swallowed leaves it short.
THEOREM DeliveriesAreCharged == Spec \/ WorkersSpec => []DeliveredIsCharged
<1>1. IInv => DeliveredIsCharged
  BY DEF IInv, DebitsAreCharged, Paid, DeliveredIsCharged
<1>. QED  BY <1>1, Invariance, PTL

\* The media never costs more than its price, unless the message of a podcast,
\* a clip or a reel is delivered again after it passed the gate, or that of a
\* reel after its run was started.  A write of _debit that charges and then raises
\* costs the gate's minutes once more, and never more than that.
THEOREM MediaAreChargedOnce ==
    ASSUME \A p \in Spoken : SendsOnce(p), StartsOnce("reel")
    PROVE  Spec \/ WorkersSpec => []ChargedOnce
<1>1. ASSUME IInv PROVE ChargedOnce
  <2>0. /\ charged \in Nat /\ tokens \subseteq {"gate", "settle"} /\ platform \in Platforms
        /\ Pages \in Nat /\ Captions \in Nat /\ Billed \in Nat /\ GateMinutes \in Nat
    BY <1>1, QuotaAssumption, GateIsPositive DEF IInv, Typed, TypeOK, QuotaTypeOK, Tokens
  <2>1. CASE platform \in Spoken
    <3>1. GateIsSure(platform)
      BY <2>1 DEF GateIsSure
    <3>2. charged <= Larger + Silent
      BY <1>1, <2>0, <3>1 DEF IInv, GateIsSettled, OthersNeverSettle, Larger, Silent
    <3>. QED  BY <2>1, <3>2 DEF ChargedOnce, Spoken, Larger, Silent
  <2>2. CASE platform \notin Spoken
    <3>1. platform \in {"article", "document", "images", "youtube"}
      BY <2>0, <2>2, PlatformsAssumption DEF Spoken
    <3>2. /\ platform = "article" => charged = 0
          /\ charged <= IF platform = "youtube" THEN Captions ELSE Pages
      BY <1>1, <2>2 DEF IInv, OthersNeverSettle
    <3>. QED  BY <2>0, <3>1, <3>2 DEF ChargedOnce
  <2>. QED  BY <2>1, <2>2
<1>. QED  BY <1>1, Invariance, PTL

\* Of all the callbacks of a run, one works on the job: claim_apify_callback
\* lets a second one in only when the first is over.  The ingestion of a clip
\* must not be delivered again after it persisted its run: it writes the job
\* back as it read it, and with it a claim already taken.
THEOREM OneCallbackContinues ==
    ASSUME StartsOnce("tiktok"), \A p \in Platforms : ClaimsFirst(p)
    PROVE  Spec \/ WorkersSpec => []OneContinuation
<1>1. ASSUME IInv, platform \notin Instagram PROVE ClaimsHold
  <2>1. ClaimsAreRespected(platform)
    BY <1>1 DEF IInv, Typed, TypeOK, ClaimsAreRespected
  <2>. QED  BY <1>1, <2>1 DEF IInv, ContinuedIsClaimed
<1>2. IInv => OneContinuation
  BY <1>1 DEF ClaimsHold, ClaimIsSingle, OneContinuation
<1>. QED  BY <1>2, Invariance, PTL

\* A completed podcast job has the text of the episode it names: what is stored
\* and what is named are both of an episode some delivery recorded, and when all
\* recorded the same one these are one.
THEOREM TextsAreOfTheEpisode == WorkersSpec => []TextIsOfTheEpisode
<1>1. ASSUME PodcastInv PROVE TextIsOfTheEpisode
  <2>. SUFFICES ASSUME platform = "podcast", job.status = "completed",
                       Cardinality(answers) <= 1, Guided
                PROVE  text = named
    BY DEF TextIsOfTheEpisode, Guided
  <2>1. text \in answers /\ named \in answers
    BY <1>1 DEF PodcastInv, TextsAreOfAnswers, EpisodesAreRecorded
  <2>2. IsFiniteSet(answers) /\ Cardinality(answers) \in Nat
    BY <1>1, FS_CardinalityType DEF PodcastInv, ResolverFits
  <2>3. Cardinality(answers) = 1
    BY <2>1, <2>2, FS_EmptySet
  <2>4. \E id : answers = {id}
    BY <2>2, <2>3, FS_Singleton
  <2>. QED  BY <2>1, <2>4
<1>. QED  BY <1>1, PodcastInvariance, PTL

\* Retries and fallbacks never change the episode: in an attempt in which every
\* lookup answered, the resolver holds the episode of Apple's id, or one that no
\* other of the first feed with a match is more alike.
THEOREM LinksFindWhatIsMeant ==
    ASSUME IndexKnowsItsFeeds
    PROVE  WorkersSpec => []FindsWhatIsMeant
<1>1. WorkersInit => SearchMissesNothing
  BY DEF WorkersInit, SearchMissesNothing, NoSeek
<1>2. IInv /\ PodcastInv /\ SearchMissesNothing /\ [WorkersNext]_workersVars => SearchMissesNothing'
  BY SearchSteps, SearchStays DEF workersVars, vars, relayVars, seekVars
<1>3. SearchMissesNothing => FindsWhatIsMeant
  BY DEF SearchMissesNothing, FindsWhatIsMeant, FoundByIdOrMeant
<1>. QED  BY <1>1, <1>2, <1>3, Invariance, PodcastInvariance, PTL DEF WorkersSpec

\* A success is not taken back: neither the quota gate nor a late callback or
\* backstop fails a job that was completed.  What ends behind the completion must
\* not give up for that: whatever raises on the last delivery of a message ends in
\* _mark_job_failed, which does not look at the status it overwrites.
THEOREM SuccessesStay ==
    ASSUME \A p \in Platforms \ Instagram : GivesUpInTime(p)
    PROVE  Spec \/ WorkersSpec => SuccessIsKept
<1>. DEFINE Kept == platform \notin Instagram /\ job.status = "completed" /\ job'.status = "failed"
                      => \E m \in Messages : Is(m, "ingest", "failing")
<1>1. ASSUME IInv, platform \notin Instagram PROVE GivesUpInTime(platform)
  BY <1>1 DEF IInv, Typed, TypeOK
<1>2. Init => SuccessIsLeft
  BY SuccessInitially
<1>3. WorkersInit => SuccessIsLeft
  BY SuccessInitially DEF WorkersInit
<1>4. IInv /\ SuccessIsLeft /\ [Next]_vars => SuccessIsLeft' /\ [Kept]_vars
  BY <1>1, SuccessSteps, SuccessUnchanging, SuccessIsNotTaken
<1>5. IInv /\ SuccessIsLeft /\ [WorkersNext]_workersVars => SuccessIsLeft' /\ [Kept]_vars
  BY <1>1, SuccessWithWorkers, SuccessIsNotTakenByWorkers
<1>. QED
  BY <1>2, <1>3, <1>4, <1>5, Invariance, PTL DEF Spec, WorkersSpec, SuccessIsKept
=============================================================================
