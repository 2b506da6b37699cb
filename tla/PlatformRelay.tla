---------------------------- MODULE PlatformRelay ----------------------------
(***************************************************************************)
(* One job of a platform queue.  The worker of an article or a document    *)
(* makes the text itself; that of a podcast finds a transcript or hands    *)
(* the audio to the transcription worker through the quota gate; TikTok's  *)
(* may also start an Apify run, and Instagram's and YouTube's always do,   *)
(* and return: the run's webhook then sends a callback message on the same *)
(* queue, and a delayed message, the backstop, ends a run nobody called    *)
(* back.                                                                   *)
(*                                                                         *)
(* A worker holds the job as it read it (snap) and writes it back whole.   *)
(* Only the claim of a callback, its completion and the backstop are       *)
(* conditional on the run and its state.                                   *)
(***************************************************************************)
EXTENDS AudioQuota

CONSTANTS
    Platforms,              \* images and reel are the two kinds of Instagram post
    Runs, NoRun,            \* the actor runs that can be started
    Messages, Ingest,       \* places for messages in the queue; Ingest is taken at first
    Dispatches,             \* the messages of the transcription queue
    Calls,                  \* webhook calls for the end of one run
    MaxReceives,            \* deliveries of a message, and attempts of a worker
    RaisesAt,               \* where a worker may raise: a platform, a kind of message, a step
    KilledAt                \* where its Lambda may be killed

ASSUME PlatformsAssumption ==
    Platforms \subseteq {"article", "document", "podcast", "tiktok", "images", "reel", "youtube"}
ASSUME RunsAssumption == NoRun \notin Runs /\ Ingest \in Messages
ASSUME BoundsAssumption == MaxReceives \in Nat \ {0} /\ Calls \in Nat

VARIABLES
    platform,
    job,
    stored,                 \* the transcript exists
    apify,                  \* the runs, at Apify
    messages,
    dispatches,
    announced               \* the outcomes published to the completion consumer

relayVars == <<platform, job, stored, apify, messages, dispatches, announced>>
vars == <<quotaVars, relayVars>>

-----------------------------------------------------------------------------
(* The job                                                                 *)

Statuses == {"pending", "extracting", "transcribing", "completed", "failed"}

\* apify_state, "lapsed" being processing when the lease that apify_claimed_at
\* started is over.
States == {"none", "waiting", "processing", "lapsed", "processed", "expired"}

\* armed - apify_backstop_scheduled
Jobs == [status : Statuses, run : Runs \cup {NoRun}, state : States, armed : BOOLEAN]

NewJob == [status |-> "pending", run |-> NoRun, state |-> "none", armed |-> FALSE]

Terminal(j) == j.status \in {"completed", "failed"}
Claimed(j) == j.state \in {"processing", "lapsed"}
Active(j) == j.state = "waiting" \/ Claimed(j)
Outstanding(j) == Active(j) /\ ~Terminal(j)

\* Mutant of MayClaim: the lease of a claim is not looked at.
MayClaimLeased(j, r) == j.run = r /\ Outstanding(j)

\* The condition of claim_apify_callback.
MayClaim(j, r) ==
    /\ j.run = r /\ ~Terminal(j)
    /\ j.state \in {"waiting", "lapsed"}

\* The condition of complete_apify_callback.
MayComplete(j, r) == j.run = r /\ Claimed(j) /\ ~Terminal(j)

\* Mutant of MayExpire: only the run is compared.
MayExpireEnded(j, r) == j.run = r

\* The condition of expire_apify_run.
MayExpire(j, r) == j.run = r /\ Outstanding(j)

WithRun(j, r) == [j EXCEPT !.run = r, !.state = "waiting", !.armed = FALSE]

-----------------------------------------------------------------------------
(* Messages                                                                *)

\* What a worker is about to do with its message:
\*   received, extracting      read the job; look for the text
\*   claimed                   fetch the dataset of the run it owns
\*   starting, persisting, arming, marking   start a run
\*   metering, storing, completing           pay for pages, keep the text, end the job
\*   handing, gating, dispatching            give the audio to be transcribed
\*   charging, publishing      after the job: captions, success event
\*   failing, reporting        end the job as failed, failure event
Attempts == {"received", "extracting", "claimed", "starting", "persisting", "arming",
             "marking", "metering", "storing", "completing", "handing", "gating", "dispatching",
             "charging", "publishing"}
Phases == {"gone", "queued", "failing", "reporting"} \cup Attempts

Instagram == {"images", "reel"}

\* The workers that leave their last failure to the dead letter queue.
Unreported == {"podcast", "document"}

Kinds == {"ingest", "callback", "backstop"}

\* The status a job has when its message is sent: the URL submission marks it
\* extracting first, the uploads, the polls and the endpoint of podcasts do not.
SubmittedAs(p) ==
    CASE p \in Instagram \cup {"tiktok", "youtube"} -> {"extracting"}
      [] p = "podcast" -> {"pending", "extracting"}
      [] OTHER -> {"pending"}

ASSUME StepsAssumption == RaisesAt \cup KilledAt \subseteq Platforms \X Kinds \X Attempts

NewMessage(kind, run, ok, phase) ==
    [kind |-> kind, run |-> run, ok |-> ok, phase |-> phase, receives |-> 0,
     snap |-> NewJob, debited |-> 0, free |-> FALSE]

\* Handled, dead or never sent.
NoMessage == NewMessage("ingest", NoRun, TRUE, "gone")

At(m, phase) == messages[m].phase = phase
Is(m, kind, phase) == messages[m].kind = kind /\ At(m, phase)
Snap(m) == messages[m].snap

\* The names of runs and messages mean nothing: the next one is any of them.
Any(S) == IF S = {} THEN {} ELSE {CHOOSE x \in S : TRUE}
Free == Any({n \in Messages : At(n, "gone")})

\* A message that is over, or that will be read anew, keeps nothing.
Moved(msg, phase) ==
    CASE phase = "gone" -> NoMessage
      [] phase = "queued" -> [NewMessage(msg.kind, msg.run, msg.ok, phase)
                                 EXCEPT !.receives = msg.receives]
      [] OTHER -> [msg EXCEPT !.phase = phase]

To(m, phase) == messages' = [messages EXCEPT ![m] = Moved(@, phase)]
ToWith(m, phase, j) == messages' = [messages EXCEPT
                                       ![m] = [@ EXCEPT !.phase = phase, !.snap = j]]
Again(m) == IF messages[m].receives < MaxReceives THEN "queued" ELSE "gone"

Receive(m) ==
    /\ At(m, "queued")
    /\ messages' = [messages EXCEPT ![m] = [messages[m] EXCEPT !.phase = "received", !.snap = job,
                                                               !.receives = @ + 1]]
    /\ UNCHANGED <<quotaVars, platform, job, stored, apify, dispatches, announced>>

-----------------------------------------------------------------------------
(* The ingestion message                                                   *)

\* YouTube has nothing to extract, a podcast leaves a job it finds started.
MarkExtracting(m) ==
    /\ Is(m, "ingest", "received")
    /\ IF platform = "youtube"
       THEN UNCHANGED job /\ To(m, "starting")
       ELSE /\ job' = IF platform = "podcast" /\ Snap(m).status # "pending" THEN job
                      ELSE [Snap(m) EXCEPT !.status = "extracting"]
            /\ ToWith(m, "extracting",
                      IF platform = "podcast" /\ Snap(m).status # "pending" THEN Snap(m) ELSE job')
    /\ UNCHANGED <<quotaVars, platform, stored, apify, dispatches, announced>>

Extracted(m, platforms, outcomes) ==
    /\ At(m, "extracting") /\ platform \in platforms
    /\ \E next \in outcomes : To(m, next)
    /\ UNCHANGED <<quotaVars, platform, job, stored, apify, dispatches, announced>>

\* Captions, an audio URL, a blocked address that needs Apify, or nothing.
ExtractTikTok(m) == Extracted(m, {"tiktok"}, {"storing", "handing", "starting", "failing"})

\* Apify is the only way to an Instagram post.
ResolveInstagram(m) == Extracted(m, Instagram, {"starting", "failing"})

\* A transcript of the feed, or the audio of the episode.
ResolvePodcast(m) == Extracted(m, {"podcast"}, {"storing", "handing"})

FetchArticle(m) == Extracted(m, {"article"}, {"storing", "failing"})

ParseDocument(m) == Extracted(m, {"document"}, {"metering"})

\* A document that cannot be parsed: the job is failed and the message
\* delivered again.
ParseFails(m) ==
    /\ At(m, "extracting") /\ platform = "document"
    /\ job' = [Snap(m) EXCEPT !.status = "failed"]
    /\ To(m, Again(m))
    /\ UNCHANGED <<quotaVars, platform, stored, apify, dispatches, announced>>

\* Mutant of KeepRun: the redelivered message does not arm the backstop.
KeepRunUnarmed(m) ==
    /\ Is(m, "ingest", "starting")
    /\ Snap(m).run # NoRun /\ Active(Snap(m))
    /\ To(m, "gone")
    /\ UNCHANGED <<quotaVars, platform, job, stored, apify, dispatches, announced>>

\* start_run_for_job, called again for a job whose run is still active.
KeepRun(m) ==
    /\ Is(m, "ingest", "starting")
    /\ Snap(m).run # NoRun /\ Active(Snap(m))
    /\ To(m, IF Snap(m).armed THEN "gone" ELSE "arming")
    /\ UNCHANGED <<quotaVars, platform, job, stored, apify, dispatches, announced>>

Unused == [status |-> "unused", calls |-> 0]

NeedsRun(m) ==
    /\ At(m, "starting")
    /\ messages[m].kind = "callback" \/ Snap(m).run = NoRun \/ ~Active(Snap(m))

\* The actor is started; a callback starts one to replace its own.
StartRun(m) ==
    /\ NeedsRun(m)
    /\ \E r \in Any({r \in Runs : apify[r] = Unused}) :
          /\ apify' = [apify EXCEPT ![r].status = "running"]
          /\ ToWith(m, "persisting", WithRun(Snap(m), r))
    /\ UNCHANGED <<quotaVars, platform, job, stored, dispatches, announced>>

\* The provider refuses the run for good.
RunRefused(m) ==
    /\ NeedsRun(m)
    /\ To(m, "failing")
    /\ UNCHANGED <<quotaVars, platform, job, stored, apify, dispatches, announced>>

\* persist_apify_run writes the run's attributes, and no condition but the row.
PersistRun(m) ==
    /\ At(m, "persisting")
    /\ job' = WithRun(job, Snap(m).run)
    /\ To(m, "arming")
    /\ UNCHANGED <<quotaVars, platform, stored, apify, dispatches, announced>>

WithBackstop(m, n) == [k \in Messages |->
    IF k = n THEN NewMessage("backstop", Snap(m).run, TRUE, "queued")
    ELSE IF k = m THEN [messages[m] EXCEPT !.phase = "marking"] ELSE messages[k]]

ArmBackstop(m) ==
    /\ At(m, "arming")
    /\ \E n \in Free : messages' = WithBackstop(m, n)
    /\ UNCHANGED <<quotaVars, platform, job, stored, apify, dispatches, announced>>

MarkArmed(m) ==
    /\ At(m, "marking")
    /\ job' = IF job.run = Snap(m).run THEN [job EXCEPT !.armed = TRUE] ELSE job
    /\ To(m, "gone")
    /\ UNCHANGED <<quotaVars, platform, stored, apify, dispatches, announced>>

-----------------------------------------------------------------------------
(* Apify, its webhook and the callback message                             *)

RunEnds(r) ==
    /\ apify[r].status = "running"
    /\ \E outcome \in {"succeeded", "aborted"} : apify' = [apify EXCEPT ![r].status = outcome]
    /\ UNCHANGED <<quotaVars, platform, job, stored, messages, dispatches, announced>>

\* handle_apify_webhook.  Before the run is persisted Apify is answered 409 and
\* calls again; a call that was answered may be repeated.
Webhook(r) ==
    /\ apify[r].status \in {"succeeded", "aborted"} /\ apify[r].calls < Calls
    /\ job.run # NoRun
    /\ apify' = [apify EXCEPT ![r].calls = @ + 1]
    /\ IF job.run = r /\ ~Terminal(job) /\ job.state \notin {"processed", "expired"}
       THEN \E n \in Free :
               messages' = [messages EXCEPT ![n] =
                   NewMessage("callback", r, apify[r].status = "succeeded", "queued")]
       ELSE UNCHANGED messages
    /\ UNCHANGED <<quotaVars, platform, job, stored, dispatches, announced>>

ClaimCallback(m) ==
    /\ Is(m, "callback", "received")
    /\ IF MayClaim(job, messages[m].run)
       THEN /\ job' = [job EXCEPT !.state = "processing"]
            /\ ToWith(m, "claimed", job')
       ELSE UNCHANGED job /\ To(m, "gone")
    /\ UNCHANGED <<quotaVars, platform, stored, apify, dispatches, announced>>

DatasetRead(m, platforms, outcomes) ==
    /\ At(m, "claimed") /\ platform \in platforms
    /\ \E next \in outcomes : To(m, next)
    /\ UNCHANGED <<quotaVars, platform, job, stored, apify, dispatches, announced>>

ReadTikTokTranscript(m) == messages[m].ok /\ DatasetRead(m, {"tiktok"}, {"storing", "failing"})

ReadInstagramPost(m) ==
    /\ messages[m].ok
    /\ \/ DatasetRead(m, {"images"}, {"metering", "failing"})
       \/ DatasetRead(m, {"reel"}, {"handing", "failing"})

\* Without captions in the language asked for, a second run takes the default.
ReadYouTubeTranscript(m) ==
    /\ messages[m].ok
    /\ DatasetRead(m, {"youtube"},
          {"storing", "failing"}
              \cup IF \A r \in Runs \ {messages[m].run} : apify[r] = Unused
                    THEN {"starting"} ELSE {})

RunWasAborted(m) == ~messages[m].ok /\ DatasetRead(m, Platforms, {"failing"})

\* record_document_consumption, before anything is kept.  Of the images of a post
\* none may be parsed, and none may hold a text.
MeterPages(m) ==
    /\ At(m, "metering")
    /\ Charge(Pages, "gate") \/ (platform = "images" /\ UNCHANGED quotaVars)
    /\ \E next \in {"storing"} \cup (IF platform = "images" THEN {"failing"} ELSE {}) : To(m, next)
    /\ UNCHANGED <<platform, job, stored, apify, dispatches, announced>>

\* Mutant of StoreText: an upload that fails is taken for done.
StoreSwallowed(m) ==
    /\ At(m, "storing")
    /\ stored' \in {stored, TRUE}
    /\ To(m, "completing")
    /\ UNCHANGED <<quotaVars, platform, job, apify, dispatches, announced>>

StoreText(m) ==
    /\ At(m, "storing")
    /\ stored' = TRUE
    /\ To(m, "completing")
    /\ UNCHANGED <<quotaVars, platform, job, apify, dispatches, announced>>

\* The job as its worker holds it when the text is kept, or the audio found.
Ended(m) ==
    LET status == IF At(m, "completing") THEN "completed"
                  ELSE IF platform = "podcast" THEN Snap(m).status ELSE "transcribing"
    IN  [Snap(m) EXCEPT !.status = status,
                        !.state = IF messages[m].kind = "callback" THEN "processed" ELSE @]

AfterEnd(m) == IF At(m, "handing") THEN "gating"
               ELSE IF platform = "youtube" THEN "charging" ELSE "publishing"

\* An ingestion writes without a condition, a callback while it owns the run.
EndRelay(m) ==
    /\ messages[m].phase \in {"completing", "handing"}
    /\ IF messages[m].kind = "callback" /\ ~MayComplete(job, Snap(m).run)
       THEN UNCHANGED job /\ To(m, "gone")
       ELSE job' = Ended(m) /\ ToWith(m, AfterEnd(m), job')
    /\ UNCHANGED <<quotaVars, platform, stored, apify, dispatches, announced>>

ChargeCaptions(m) ==
    /\ At(m, "charging")
    /\ Charge(Captions, "gate")
    /\ To(m, "publishing")
    /\ UNCHANGED <<platform, job, stored, apify, dispatches, announced>>

Publish(m) ==
    /\ At(m, "publishing")
    /\ announced' = announced \cup {"success"}
    /\ To(m, "gone")
    /\ UNCHANGED <<quotaVars, platform, job, stored, apify, dispatches>>

-----------------------------------------------------------------------------
(* The gate and the transcription worker                                   *)

\* gate_audio_transcription, refusing: the job it was given is written back
\* failed.
RefuseByQuota(m) ==
    /\ At(m, "gating")
    /\ job' = [Snap(m) EXCEPT !.status = "failed"]
    /\ announced' = announced \cup {"failure"}
    /\ To(m, "gone")
    /\ UNCHANGED <<quotaVars, platform, stored, apify, dispatches>>

\* A media that another save of the user holds is free.
PassGate(m) ==
    /\ At(m, "gating")
    /\ \E free \in BOOLEAN, told \in {0, GateMinutes} :
          /\ DebitGate(free, told)
          /\ messages' = [messages EXCEPT ![m] = [@ EXCEPT !.phase = "dispatching",
                                                           !.debited = told, !.free = free]]
    /\ UNCHANGED <<platform, job, stored, apify, dispatches, announced>>

Dispatch(m) ==
    /\ At(m, "dispatching")
    /\ \E d \in Any({d \in Dispatches : dispatches[d].phase = "unsent"}) :
          dispatches' = [dispatches EXCEPT ![d] =
              [@ EXCEPT !.phase = "queued", !.debited = messages[m].debited,
                        !.free = messages[m].free]]
    /\ To(m, "gone")
    /\ UNCHANGED <<quotaVars, platform, job, stored, apify, announced>>

NewDispatch == [phase |-> "unsent", receives |-> 0, debited |-> 0, free |-> FALSE]

DispatchPhases == {"unsent", "queued", "billed", "settled", "done", "refused"}
DispatchTo(d, phase) == dispatches' = [dispatches EXCEPT ![d].phase = phase]

\* The provider is called, and bills.
Transcribe(d) ==
    /\ dispatches[d].phase = "queued"
    /\ job' = [job EXCEPT !.status = "transcribing"]
    /\ dispatches' = [dispatches EXCEPT
                         ![d] = [dispatches[d] EXCEPT !.phase = "billed", !.receives = @ + 1]]
    /\ UNCHANGED <<quotaVars, platform, stored, apify, messages, announced>>

\* Mutant of SettleMinutes: nothing is settled.
SettleLate(d) ==
    /\ dispatches[d].phase = "billed"
    /\ DispatchTo(d, "settled")
    /\ UNCHANGED <<quotaVars, platform, job, stored, apify, messages, announced>>

\* _settle_audio_quota, before anything else can fail.
SettleMinutes(d) ==
    /\ dispatches[d].phase = "billed"
    /\ IF dispatches[d].free THEN UNCHANGED quotaVars ELSE Settle(dispatches[d].debited)
    /\ DispatchTo(d, "settled")
    /\ UNCHANGED <<platform, job, stored, apify, messages, announced>>

\* The rest of process_deepgram_message, which ContentPipeline takes apart.
FinishTranscription(d) ==
    /\ dispatches[d].phase = "settled"
    /\ stored' = TRUE
    /\ announced' = announced \cup {"success"}
    /\ job' = [job EXCEPT !.status = "completed"]
    /\ DispatchTo(d, "done")
    /\ UNCHANGED <<quotaVars, platform, apify, messages>>

\* Refused by the provider, or anything raised: the last delivery reports it.
TranscriptionRaises(d) ==
    /\ dispatches[d].phase \in {"billed", "settled"}
    /\ \/ /\ dispatches[d].receives < MaxReceives
          /\ DispatchTo(d, "queued")
          /\ UNCHANGED announced
       \/ /\ dispatches[d].receives = MaxReceives
          /\ DispatchTo(d, "refused")
          /\ announced' = announced \cup {"failure"}
    /\ UNCHANGED <<quotaVars, platform, job, stored, apify, messages>>

-----------------------------------------------------------------------------
(* The backstop, failures and time                                         *)

ExpireRun(m) ==
    /\ Is(m, "backstop", "received")
    /\ IF MayExpire(job, messages[m].run)
       THEN /\ job' = [job EXCEPT !.state = "expired", !.status = "failed"]
            /\ To(m, "reporting")
       ELSE UNCHANGED job /\ To(m, "gone")
    /\ UNCHANGED <<quotaVars, platform, stored, apify, dispatches, announced>>

MayRaise(m) == <<platform, messages[m].kind, messages[m].phase>> \in RaisesAt

\* Mutant of WorkerRaises: one delivery too many is expected.
RaisesOnceMore(m) ==
    /\ MayRaise(m)
    /\ To(m, IF messages[m].receives <= MaxReceives THEN "queued" ELSE "failing")
    /\ UNCHANGED <<quotaVars, platform, job, stored, apify, dispatches, announced>>

\* process_message: an error worth another delivery, while there is one.
WorkerRaises(m) ==
    /\ MayRaise(m)
    /\ To(m, IF messages[m].receives < MaxReceives THEN "queued"
             ELSE IF platform \in Unreported THEN "gone" ELSE "failing")
    /\ UNCHANGED <<quotaVars, platform, job, stored, apify, dispatches, announced>>

WorkerKilled(m) ==
    /\ <<platform, messages[m].kind, messages[m].phase>> \in KilledAt
    /\ To(m, Again(m))
    /\ UNCHANGED <<quotaVars, platform, job, stored, apify, dispatches, announced>>

\* _mark_job_failed reads the job again and writes it without a condition.
GiveUp(m) ==
    /\ At(m, "failing")
    /\ job' = [job EXCEPT !.status = "failed",
                          !.state = IF Claimed(job) THEN "processed" ELSE @]
    /\ To(m, "reporting")
    /\ UNCHANGED <<quotaVars, platform, stored, apify, dispatches, announced>>

Report(m) ==
    /\ At(m, "reporting")
    /\ announced' = announced \cup {"failure"}
    /\ To(m, "gone")
    /\ UNCHANGED <<quotaVars, platform, job, stored, apify, dispatches>>

\* A callback whose invocation has claimed the run.
Continuing(m) ==
    /\ messages[m].kind = "callback"
    /\ messages[m].phase \notin {"gone", "queued", "received"}

\* The lease is 120 s.  A TikTok or YouTube Lambda lives 60 s, Instagram's 300 s.
LeaseExpires ==
    /\ job.state = "processing"
    /\ platform \in Instagram \/ \A m \in Messages : ~Continuing(m)
    /\ job' = [job EXCEPT !.state = "lapsed"]
    /\ UNCHANGED <<quotaVars, platform, stored, apify, messages, dispatches, announced>>

-----------------------------------------------------------------------------
(* Specification                                                           *)

Init ==
    /\ QuotaInit
    /\ platform \in Platforms
    /\ \E status \in SubmittedAs(platform) : job = [NewJob EXCEPT !.status = status]
    /\ stored = FALSE
    /\ apify = [r \in Runs |-> Unused]
    /\ messages = [m \in Messages |->
          IF m = Ingest THEN NewMessage("ingest", NoRun, TRUE, "queued") ELSE NoMessage]
    /\ dispatches = [d \in Dispatches |-> NewDispatch]
    /\ announced = {}

MessageStep(m) ==
    \/ Receive(m) \/ MarkExtracting(m) \/ ExtractTikTok(m) \/ ResolveInstagram(m)
    \/ ResolvePodcast(m) \/ FetchArticle(m) \/ ParseDocument(m) \/ ParseFails(m)
    \/ KeepRun(m) \/ StartRun(m) \/ RunRefused(m)
    \/ PersistRun(m) \/ ArmBackstop(m) \/ MarkArmed(m) \/ ClaimCallback(m)
    \/ ReadTikTokTranscript(m) \/ ReadInstagramPost(m) \/ ReadYouTubeTranscript(m)
    \/ RunWasAborted(m) \/ MeterPages(m) \/ StoreText(m) \/ EndRelay(m) \/ ChargeCaptions(m) \/ Publish(m)
    \/ RefuseByQuota(m) \/ PassGate(m) \/ Dispatch(m) \/ ExpireRun(m)
    \/ GiveUp(m) \/ Report(m)

TranscriptionStep(d) ==
    Transcribe(d) \/ SettleMinutes(d) \/ FinishTranscription(d)

Next ==
    \/ \E m \in Messages : MessageStep(m) \/ WorkerRaises(m) \/ WorkerKilled(m)
    \/ \E d \in Dispatches : TranscriptionStep(d) \/ TranscriptionRaises(d)
    \/ \E r \in Runs : RunEnds(r) \/ Webhook(r)
    \/ LeaseExpires

Spec == Init /\ [][Next]_vars

\* The queues are served and their workers go on.  Nothing says that a run
\* ends, or that Apify calls.
LiveSpec ==
    /\ Spec
    /\ \A m \in Messages : WF_vars(MessageStep(m))
    /\ \A d \in Dispatches : WF_vars(TranscriptionStep(d))

-----------------------------------------------------------------------------
(* Properties                                                              *)

\* Every variable keeps its type.
TypeOK ==
    /\ QuotaTypeOK
    /\ platform \in Platforms
    /\ job \in Jobs
    /\ stored \in BOOLEAN
    /\ apify \in [Runs -> [status : {"unused", "running", "succeeded", "aborted"}, calls : 0 .. Calls]]
    /\ messages \in [Messages ->
          [kind : Kinds, run : Runs \cup {NoRun}, ok : BOOLEAN, phase : Phases,
           receives : 0 .. MaxReceives, snap : Jobs, debited : Nat, free : BOOLEAN]]
    /\ dispatches \in [Dispatches ->
          [phase : DispatchPhases, receives : 0 .. MaxReceives, debited : Nat, free : BOOLEAN]]
    /\ announced \subseteq {"success", "failure"}

\* settle_transcription_minutes: "a redelivered message cannot debit twice".
\* The media never costs more than the larger of what the gate took and what
\* the provider billed.  Only a debit of the gate that was charged and then
\* raised comes on top of the bill: the settlement is told that there was none.
ChargedOnce ==
    charged <= CASE platform = "youtube"                -> Captions
                 [] platform \in {"images", "document"} -> Pages
                 [] platform = "article"                -> 0
                 [] OTHER -> (IF Billed > GateMinutes THEN Billed ELSE GateMinutes)
                                + (IF "gate" \in untold THEN GateMinutes ELSE 0)

\* A transcription that is delivered was charged in full, unless the user
\* holds the media already or the write of its settlement raised and was lost:
\* a failed write of the gate is made good.
DeliveredIsCharged ==
    (\E d \in Dispatches : dispatches[d].phase = "done" /\ ~dispatches[d].free)
        => charged >= Billed \/ "settle" \in lost

\* A completed job has its text.
CompletedIsStored == job.status = "completed" => stored

\* claim_apify_callback: one callback works on a run.  Instagram's Lambda
\* outlives its lease and is left out.  A TikTok ingestion that is delivered
\* again after it persisted its run breaks it: it writes the job back whole,
\* and with it a claim already taken.
OneContinuation ==
    platform \notin Instagram =>
        \A m, n \in Messages :
            Continuing(m) /\ Continuing(n) /\ messages[m].run = messages[n].run => m = n

\* A success is not taken back: what ended well is never failed by the gate,
\* nor by a late callback or backstop of its run, outside Instagram's two
\* continuations.  _mark_job_failed of an ingestion writes over it all the same, and
\* so it does where a callback or a backstop raises behind the end of the run.
SuccessIsKept ==
    [][platform \notin Instagram /\ job.status = "completed" /\ job'.status = "failed"
          => \E m \in Messages : Is(m, "ingest", "failing")]_vars

\* The backstop: a run that waits or is claimed ends, whether or not Apify ever
\* calls.
RunEndsInTheEnd == Outstanding(job) ~> ~Outstanding(job)
=============================================================================
