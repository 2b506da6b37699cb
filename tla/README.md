# Formal model of the backend

The application saves links, shared texts, articles, posts and podcast episodes
into personal libraries. Processing is deduplicated *globally*: whoever saves a
content first pays for its transcription, and everybody else reuses it. That
deduplication is the heart of the backend and the part no unit test reaches: it
is kept by API requests, SQS workers and an event consumer that share DynamoDB
tables, run at the same time, fail between any two calls and see messages twice.
Around it stand the platform workers with their Apify runs and the minutes they
charge, the resolution of podcast links, translations, artifacts made from the texts,
the destruction of data, the account with its sessions, subscriptions, uploads and
minutes, and what surrounds a library: folders,
search, digests with their notifications and feeds. These modules model those parts
call by call; TLC checks them on small instances and TLAPS proves most of their safety
properties for every size.

Paths below are relative to `src/media_summarizer/` unless they start with `src/`.

## Inventory

| Component | State it keeps | Operations | Hard behaviour | What makes it correct |
|---|---|---|---|---|
| Content ledger, `utils/media_idempotence.py` | `media_idempotence`: media_key -> status, job_id | reserve, read, mark processed/failed, release, delete | conditional writes of racing actors | one owner at a time; an outcome is not reopened |
| URL submission, `core/media_ingestion/adapters/orchestrators.py` | none of its own | row, duplicate check, reservation, job, inline text or enqueue, clean-up | stale reads, ambiguous sends, partial clean-up | one job processed; the row's status ends truthful |
| Episode submission, `core/services/media_submission.py` | none of its own | row, reservation, watcher or job, debit, enqueue | nothing is undone on an exception; watcher races | a waiting save is not paid for and is answered |
| Durable library, `core/services/durable_media_service.py`, `utils/user_media.py` | `user_media` rows: status, last_job_id | save, finalize a duplicate, mirror a job on all saves | unordered unconditional writes, GSI lag | ready only when readable; no foreign job id |
| Processing jobs, `utils/database_async.py` | `processing_jobs` | create, update (no guard on the former status) | redelivery reopens jobs | terminal jobs stay terminal |
| Watchers and completion consumer, `utils/media_watchers.py`, `workers/events/media_completed_worker.py` | `media_watchers` | add, list, mark; close the ledger; fan out | duplicate, late or contradictory events | every watcher served, ledger closed |
| Workers: Deepgram, X | transcripts in S3 | transcribe / read, store, complete, announce | retries, last attempt, redelivery after success | text stored before news; every job ends |
| Other platform workers, `workers/*_worker.py`, `workers/apify_orchestration.py`, `api/endpoints/apify_webhook.py` | the job's apify_* attributes | resolve, store, start a run, continue it, dispatch, give up | lost or doubled callbacks, the backstop, leases, whole-row writes of old copies | one continuation per run; every run ends; success stays |
| Podcast resolution, `workers/podcast_platform_resolvers.py`, `workers/podcastindex_resolution_worker.py` | media_url and title of the job | read the page of a link, search the index, match titles, enrich an RSS feed, fetch the transcript of the feed | retries and fallbacks between services, redelivery after the feed grew | the episode meant, with its own text |
| Artifacts, `core/services/artifact_*.py`, `workers/artifact_generator` | `media_artifacts` | request, reclaim, wait, resume, generate, sweep | wake-ups lost before the wait is committed; resume claimed by event, hook, redelivery and sweep | generated once, over a text that exists; none waits for ever |
| Quotas, `core/services/quota_enforcer.py`, `utils/quota_usage_db.py` | counters and idempotency tokens by period and by day | gate, debit, settle, count | redelivery, provisional debits, periods that turn | a minute is charged once |
| Upload and share intake, `api/endpoints/media.py`, the shared-audio path of `orchestrators.py` | staging objects; rows and jobs | sign a URL, submit a document, an audio file, a voice note, a link | a key submitted twice, requests that break off, content shared with others | one charge per media held; an accepted file is whole |
| Translation, `utils/translation_idempotence.py` | one lock row per transcript and language, without expiry | reserve, progress, done, failed | messages of several reservations, redelivery | one call of the model at a time; done means stored |
| Deletion and purge, `core/services/media_purge_service.py`, `workers/cleanup/`, `core/services/account_deletion_service.py` | TTL and stream records | delete, restore, cascade, erase an account | replays against new saves, retries after a partial erasure | a text lives as long as its readers and no longer |
| Sessions, `api/endpoints/auth.py`, `auth_social.py` | `auth_tokens`, `users` | sign in, rotate with a grace window, log out, rewrite the row, erase | two refreshes of one token, lost answers, writes beside an erasure | a device stays signed in until it logs out, and not after |
| Subscriptions, `api/endpoints/revenucat_webhook.py`, `core/services/quota_enforcer.py` | `subscriptions`, `revenucat_events` | six event handlers, the row that decides | events doubled, reordered or broken off | the row says what the store says; buying takes nothing away |
| Folders, `core/services/folder_service.py` | `user_folders`, folder of each `user_media` row | create, rename, move, delete, list, file a save | requests decide on a survey and write whole rows later; a deletion is many calls | a forest of bounded depth; no save in a folder that is gone |
| Search, `workers/search_indexing_worker.py`, `core/services/search_*.py` | the index | index, clear, remove | late and repeated messages beside deletions | a deleted save stays out |
| Digests and push, `core/services/digest_service.py`, `workers/digest/`, `workers/push_notification_worker.py` | `user_digests`, `user_push_tokens` | capture, claim, announce, deliver, receipts | sweeps and screens capture the same period; devices leave while messages wait | announced once, as shown; silent after sign-out |
| Feeds, `core/services/rss_feed_service.py`, `workers/rss_feed_poll_worker.py` | `user_rss_feeds` with the guids seen | follow, pause, resume, end, poll | whole-row writes of old reads; redelivered polls | an item is processed at most once |
| Rate limits, API, mobile, infrastructure | see PROJECT.json | | stateless, or arithmetic on a clock | |

`PROJECT.json` lists every component with its status and every hazard with its line.

How they interact: a **save** is one submission by one user. It writes its
library row first, then asks the ledger. The save that reserves the content
creates a job and either stores the text itself or sends a message to a worker;
the worker writes the job, stores the transcript and sends a completion event;
the consumer closes the ledger and completes the watchers' jobs. Every write of
a job is *mirrored* on the rows of all saves of the content. A save that finds
the content owned either copies the resolved status to its row (URL path) or
creates a job of its own and registers as a watcher (episode path).

The platform workers stand between the request and the transcription worker:
they store a text themselves, or send the audio on through the quota gate, which
debits the user's minutes. A slow source runs at Apify; its webhook and a delayed
backstop message compete to continue the job. The completion event also wakes
artifacts that wait for a text; the text may first have to be translated, and the
translation worker wakes them too. Deleting saves starts a cascade that ends with
the ledger entry; erasing an account deletes everything of a user beside it.

A library row also carries the folder it is filed in and the time it was saved. The
end of an ingestion sends a message to the indexing worker; a deletion takes the
chunks out again, and the purge once more. Twice a day and once a week a sweep of the
scheduler, or the screen if it is opened first, captures the rows of the period that
closed; one sweep claims the capture and sends a notification, which the push worker
delivers to the devices registered by then. A poll of the followed feeds creates a job
per new item and sends it straight to the transcription or the article queue.

## Modules

| Module | Models | How |
|---|---|---|
| `MediaLedger` | `media_idempotence.py` | each conditional write as an operator on the entry it finds |
| `ContentPipeline` | Deepgram and X workers, completion consumer, job writes with their mirror, SQS delivery | the tables and queues as variables; one action per remote call of a worker or consumer |
| `UrlSubmission` | `ProcessingJobSubmissionOrchestrator.submit` and what it calls | one action per remote call of a request; EXTENDS ContentPipeline |
| `EpisodeSubmission` | `submit_media_for_user` | the same |
| `LibraryPromise` | no code: the abstract specification | owner, stored texts and shown statuses of one content |
| `AudioQuota` | the debits of one media with their tokens | `charged` and `tokens`; operators for gate, settlement, captions and pages; a write that raises is a step of each, `lost` when it charged nothing and `untold` when it charged and was reported as nothing |
| `PlatformRelay` | the article, document, podcast, TikTok, Instagram and YouTube workers, the Apify run with webhook and backstop, the transcription worker's settlement | one job; `messages` are places in its queue, each with the worker's copy of the job (`snap`); EXTENDS AudioQuota |
| `TranslationLock` | `translation_idempotence.py`, `transcript_translation.py`, the translation worker | the lock row; `readers` are resolutions of the text, `messages` the translation messages |
| `ArtifactLifecycle` | artifact requests, hooks, deadline, sweep, generator | one `entry` of `media_artifacts`; every request and hook is a reader; EXTENDS TranslationLock |
| `ContentPurge` | deletion, restore, TTL and stream cascade, erasure of accounts | the tables of one content as sets; job rows expire by their own TTL (`expired`), apart from what they lead to; EXTENDS MediaLedger |
| `PodcastResolution` | the four resolvers and what the podcast worker does with the episode | `link` is what the services know of a link, `seek` the resolver's local variables; EXTENDS PlatformRelay |
| `Sessions` | sign-in by password or provider, refresh, logout, rewrites of the user row, erasure of the identity | `tokens` are the rows, named after the device or request that made them; `call` the local variables of each request |
| `Subscriptions` | the RevenueCat webhook and the allowance | `store` is the truth and emits `events`; `delivery` is a webhook request, `rows` what it writes |
| `Consumption` | the quota rows of periods and days | `debits` and `counts` are the writes applied, each with its token; EXTENDS Subscriptions |
| `Intake` | uploads and shares, the charge of each | `req[r].todo` is the list of remote calls a request has left; `tells` whether the job behind known content was found and told what it cost; EXTENDS Consumption, MediaLedger |
| `Account` | sessions and submissions of one account | composes Sessions and Intake: the erasure deletes the rows of all, the trial lasts as long as the user row, a plan decides the period that is charged |
| `Saves` | the rows of `user_media` of one account as the features around it see them | state, folder, digest period; shared by the next three |
| `Folders` | `folder_service.py`, the filing of a new save | `folders` are the rows; `request` the local variables of each request; one action per remote call |
| `SearchIndex` | the indexing queue and worker, deletion's and cascade's removal | `chunks` are the saves with records in the index |
| `Digests` | captures, claims, notifications, devices | `digests` by period; `reader` is a sweep or an opening of the screen; `push` the message of a period |
| `Feeds` | follows and polls | `feeds` are the rows, `indexed` what `status-index` shows of them; a poll's `work` holds the rows as it read them, a document says how often it lists each item |
| `PersonalLibrary` | the four around one library | composes them over the rows of `Saves`; `load` bounds what happens in one behaviour |
| `MC*` | TLC instances | named sets, fault sets, symmetry |
| `ContentPipeline_proofs`, `UrlSubmission_proofs`, `EpisodeSubmission_proofs`, `ArtifactLifecycle_proofs`, `PlatformRelay_proofs` (with `PodcastResolution`), `ContentPurge_proofs`, `Account_proofs` (with `Sessions`, `Intake`, `Subscriptions`), `PersonalLibrary_proofs` | proofs | see below |

State and code: `ledger` is the item of `media_idempotence`; `jobs[s]` the
status attribute of the job that save `s` would create; `rows[s]` the
processing_status and last_job_id of its `user_media` row; `transcripts` the
jobs whose `<job>.txt` exists; `task[s]` the worker message of the job together
with the point the handler has reached; `events[s][kind]` the completion
messages of the job, `todo` being the watchers still to serve; `watchers[u]` the
row of `media_watchers`; `req[s]` the local variables of a request (`pc`, the
ledger item and job status it read). In `PlatformRelay`, `job` is the row with
its apify attributes and `state` the `apify_state`, of which `lapsed` is a
processing claim whose lease is over; `dispatches` are the messages to the
transcription worker with the minutes they carry. In `ArtifactLifecycle`,
`entry.waits` and `entry.lease` are `awaiting_expires_at` and
`lease_expires_at` compared with now. In `ContentPurge`, `cascade[s]` is the
stream record of the row TTL removed and `account[u]` the erasure of a user.

Definitions headed "Mutant of ..." take part in no specification: each is a
plausible bug of one definition, and the named property fails when it is put in
the definition's place.

### Abstractions

- One content per model: contents share no ledger entry, job, event or watcher.
- A call is one step, with the code up to the next call. The mirror belongs to
  the step of the job write it follows in `update_processing_job`. The fault
  `mirror` lets any set of rows miss a refresh: a swallowed write error or a save
  the index does not list yet. The theorems cover it; the TLC runs leave it out,
  since a choice of refreshed rows at every job write multiplies the states.
- Job and ledger reads see the latest completed write, and a worker finds its job. That
  the row of a finished job expires is followed where something is found by it afterwards:
  in `ContentPurge`, and in `Intake` for the cost of a copy.
- Events of one job and kind carry the same news, so a queue of them is one
  message plus the flag `again`. A message reaches the dead-letter queue after
  `MaxReceives` deliveries (`src/infrastructure/terraform/modules/platform/sqs.tf`).
- `source` stands for the branch `submit` takes: `x`, `audio` (a direct URL),
  `inline` (shared text, native transcript, article), `page` (an article that
  could not be read). The other enqueues differ in their queue only and are taken
  up by `PlatformRelay`, which starts from their message; staged audio (one more
  job write before the enqueue) is left out.
- Whether the audio gate refuses, and what a provider answers, are free choices.
- Titles, covers, folders, item counters, search indexing and review blurbs do not
  influence the modelled control and are left out.
- `PlatformRelay`: one job, with the status `SubmittedAs` says the request has written by
  the time the message can arrive; places in the queue are reused; giving up reads and writes
  the job in one step, and a quota refusal with its event is one step; the failure
  counters are left out; of the daily usage row only that its write may raise behind that
  of the month is kept (`Raising` names the tokens whose writes may raise). The provider tells
  how long what it transcribed was: for an answer without a duration the code settles
  nothing (`core/services/quota_enforcer.py:1202`). Workers fail where `RaisesAt` and
  `KilledAt` say (`MCPlatformRelay`), which keeps the state space small: around the
  send that follows the gate only in `relay_double_charge`, because that failure
  breaks `ChargedOnce`.
- `PodcastResolution`: an episode is told from another by how its title compares with the
  one asked for (equal, contained, overlapping, other), whether it has audio, a guid, and an
  entry in the index; of a page only what the resolver takes from it. Any remote call may
  fail, transiently or for good. Durations, covers, dates and languages are left out.
- `TranslationLock`, `ArtifactLifecycle`: one transcript, one language, one artifact.
  The kinds of a refusal are permanent, cooled and transient; time is the free choice
  of when a deadline or a lease has passed.
- `ContentPurge`: submission and processing are those of `UrlSubmission` and
  `EpisodeSubmission` without their faults; TTL removes a row after the work of its own
  job and of the job it points at is over (30 days later); a user who erases the account
  has no request under way; the row of a job expires when its work is over (30 to 90 days
  after its last transition), for the jobs of `Expiring`. Search documents, covers, watchers and per-user tables are
  left out.
- `Sessions`: the user row is present or absent, as its content decides nothing else; the
  expiry of tokens (months) and of access tokens is left out, the grace window is a step;
  token reads see the latest write. A sign-up, by form or by a provider's unknown email,
  makes another account and ends there; verification of a password, a signature or a state
  cookie is a free outcome.
- `Subscriptions`: a period is one day; each subscription has a store of its own; events
  whose tier the dashboard does not resolve are left out. The catalogue is the smallest and
  the largest plan and the trial, with the figures of `pricing_config_service.py:50`.
- `Consumption`, `Intake`: a total is the sum of the writes applied; the calendar month does
  not turn. A file has one staging key at a time, a kind, a bill and the length a probe can
  read; another user may own shared content from the start (`Other`). The row of the job behind
  known content may have expired, or not be readable, at any save of it. Burst guards only log,
  costs in euros decide nothing, and the generation debits are another counter: left out.
- `Saves`, `PersonalLibrary`: a row is visible, deleted or gone; its text, status and job
  are the pipeline's subject. Restoring a deleted row is an operator's command and is left
  out. The index on `user_id` is read as consistent.
- `Folders`: names, colours and counts are left out; a walk upwards sees the rows of one
  survey, as in the code.
- `SearchIndex`: a save has records or none; titles and renamings are left out.
- `Digests`: one kind of digest of one account; time is the number of the current period;
  settings, time zones and the grace after the send instant are a free choice to look.
- `Feeds`: one account, one feed; the order of the items in a document is left out, how often
  it lists one is not; the index may show any earlier row; an item's routing, with its job and its quota gate, is
  one step that sends or does not.
- URL and episode submissions use different media keys, so the two are not composed.

## Runs

| Run | Checks | Bounds | Distinct states |
|---|---|---|---|
| `url_faults` | `TypeOK OneJobProcesses NoForeignPointer StoredTextIsOwned CompletedIsReadable`, `KeepsPromise`, `SettledEntryIsKept` | 2 saves of 2 users, 2 receives, every fault except `mirror`, all four sources | 645,319 |
| `url_liveness` | `ReservationCloses`, `ReadingSettles` | 2 saves, 2 receives, faults `worker` and `redelivery` | about 67,000 |
| `episode_faults` | `KeepsPromise` | 3 saves of 2 users, 2 receives, faults `request` and `worker`; the two saves of one user are symmetric | about 277,000 |
| `relay` | `ChargedOnce DeliveredIsCharged OneContinuation FindsWhatIsMeant TextIsOfTheEpisode`, `SuccessIsKept`, `RunEndsInTheEnd` | every platform, 2 Apify runs, 3 places for messages, 2 dispatches, 2 webhook calls, 2 receives; 2 billed minutes, 1 known, 1 for captions and pages; writes of both tokens may raise; links of 4 sources over 2 feeds of up to 2 episodes, 2 attempts | 865,816 |
| `artifacts` | `OneTranslator DoneIsStored OneGenerator SentIsReadable`, `ReadyIsSealed`, `WaitEndsSpareGenerations` | 2 requests, 2 translation and 2 generation messages, 2 receives, every fault; symmetric | about 2,600,000 |
| `artifact_answers` | `RequestIsAnswered` | 2 requests, 1 translation and 2 generation messages, every fault but killed processes and raising translations | 265,030 |
| `purge` | `ReadyIsReadable NothingIsLeft`, `ReservationSurvives`, `ArtifactsOutliveOneSave` | 2 saves of one user and 1 of another, who may leave; 1 replay of the other's cascade, and the other's job row may expire | 6,444,002 |
| `account` | `LogoutEndsSession SessionIsKept ErasedIsGone RowTellsTheStore PaidOnce AcceptedIsWhole`, `BuyingTakesNothing` | 2 devices; 3 requests, or 5 events of one subscription in either store, or 3 of two, or 2 in every order, or 1 beside a request; 3 submissions of an audio file or a voice note, 1 or 2 of every kind with faults, 1 beside a purchase, 1 beside an erasure; a container that tells one minute too many; 1 staging key, 2 deliveries at once, 3 days, the trial ends after one | 2,018,358 |
| `library` | `FoldersFormATree SearchForgets DigestIsTold ItemRoutedOnce`, `QuietAfterSignOut` | 1 save, or 2; eight loads, see below; depth 2, 2 periods, 2 devices, 1 feed item, listed up to twice by a document of one load, 2 receives | 690,788 |
| `url_stale_answer` | refutes `AnsweredSaveSettles` | 2 saves, no fault | |
| `episode_watcher` | refutes `WatcherIsServed` | 2 saves, no fault | |
| `relay_double_charge` | refutes `ChargedOnce` | podcast, TikTok and reel, 1 run, a worker that raises around the send | |

Why the bounds are enough to meet the cases: two saves give every race of an
owner with a duplicate (each lost reservation, stale read and stranded entry
needs one of each); the third episode save makes two watchers of which two
belong to one user. `MaxReceives = 2` has a first and a last attempt, the only
distinction the workers make (the code's limit is 3). Two runs, with two calls
each and a backstop, are the smallest case of a callback for a run that was
replaced. Two translation messages come from two reservations; two requests and
the hooks are every pair of actors on one entry. In `purge` a user with two saves
and a user with one are the smallest case in which a sweep has other readers of
both kinds. Three requests are a logout beside a refresh beside another, or an
erasure beside two. `library` has one load per question: three requests on any tree
of two folders, as long as none overlaps a move or deletion; two that overlap as they
like; two indexing messages beside two deletions; two readers of a digest beside a save,
beside a deletion and beside devices that come and go, over two periods; two requests on follows beside two polls, and one request beside two polls of a feed that lists an
item twice, through an index that lags. Depth 2 is
met and exceeded by trees of two folders and a move. A feed with two episodes before
another feed with one is the smallest catalogue with a better match, a match without audio
and a match in the wrong feed. Three submissions are one content saved, deleted and saved
again, or two that race beside one that waits. A type invariant belongs to the runs of
the URL path; the others state theirs as a definition, which a theorem covers. All runs turn deadlock checking off: a system in which
everything was answered rightly stops.

What the passing runs show, with any interleaving and the named failures:

- *Pipeline.* At most one job is handed to a worker; a stored transcript stays owned;
  a job that says completed has a readable text; no row points at another user's job; a
  recorded outcome is not reopened; watchers' jobs are never processed; and the
  system implements `LibraryPromise`. A reservation is always closed or given
  back, and every job outside Deepgram comes to rest in a terminal status.
- *Relay.* A media is charged at most the larger of gate and bill, and a delivered
  transcription in full, but for the debits the code swallows: a settlement that was lost is
  not made good, and a gate debit that was charged and then raised comes on top; one callback works on a run (Instagram excepted: its Lambda may
  live 300 s, the lease 120 s); success is not taken back by the gate, a late callback
  or a backstop; every run ends, also when Apify never calls.
- *Podcasts.* Retries and fallbacks do not change the episode: when every lookup of an
  attempt answered, it is the one Apple's id names or the best match of the first feed that
  has any. The text stored is that episode's, whichever deliveries wrote what, as long as all
  found the same one and the feed's items carry guids.
- *Translation and artifacts.* One message at a time calls the model, a done translation
  is stored, one generator works at a time over a text that exists, a ready artifact is
  never written again, and ending waits never fails a generation that was sent. Whoever
  was answered queued is served or told so.
- *Purge.* A ready save stays readable while others are swept; when the last is swept, or
  an account closed, nothing is left but the transcripts of jobs whose rows had expired
  when the account was erased; a cascade that goes by its own pointer never takes a newer reservation;
  artifacts stay with a user's other save.
- *Account.* A logout is final for its session; a rotation that breaks off or loses its
  answer signs nobody out within the grace window; an erasure can be retried until all is
  gone; a settled row says what the store says, whatever is delivered twice; and buying a
  second plan or buying during the trial never lowers what the account may use.
- *Intake.* A media is charged its bill once while its user holds a save of it, however often
  its key is submitted, its request broken off or its work delivered, and a first copy of known content what the job
  behind it tells, which is nothing once that job is gone; and what was accepted
  has its row, its job, its bytes and its one item in the counts.
- *Library.* Whatever request breaks off between any two of its calls, the folders stay a
  forest of bounded depth and every save in a folder that exists; a save taken out of the
  index stays out although its message comes late or again; a period is announced at most
  once, with what the screen shows and without missing a save; a device that signed out
  is not posted to; an item of a feed is routed at most once unless a document
  lists it twice while it is new.

Where the code does not survive a race, the property says so as a condition, and
the hazard in `PROJECT.json` names the line: a send that failed though the queue
took it (`NoSendFailed`), a save inside a cascade (`overlap`), work still running
on an erased account (`busy`), a rotation under way beside a logout (`alone`), a
write of the account beside the end of its erasure (`raced`), a file whose saves overlap, whose
submission was refused, broke off or lost a write, whose period turned under it, or whose account is erased (`odd`), a debit that was lost
(`lost`) or charged in silence (`untold`), a job row that expired (`expired`), a lookup that failed on the way to an episode (`missed`), store events
that overlap, are handled out of turn or find the row of an earlier purchase (`wild`), folder requests beside a move or a
deletion (`crossed`), an indexing worker between its check and its write (`cleared`), a
capture put over a capture (`retaken`) or made before a save of its period was stored
(`late`), a feed's row put over a change (`stale`) and an item listed twice in one document
(`repeated`). These properties say nothing of the hazards they exempt, which stay real.

What the violation runs show (each quotes its claim in `PROJECT.json`):

1. `url_stale_answer`: a duplicate resolves "processing", the job completes and its
   mirror shows ready on the duplicate's row, and then the duplicate writes its older
   answer. Nothing refreshes the row again.
2. `episode_watcher`: the consumer lists the watchers before it closes the ledger; a
   save in between registers for an event that has passed.
3. `relay_double_charge`: the gate debits, the send raises, the message is delivered
   again; the gate's token makes its second debit nothing, and that nothing is what the
   transcription message carries: the settlement charges the whole bill again.

Known without a run, each from the code or from a run with the exemption removed:

- neither error path of the Deepgram worker writes the job, so a transcription that fails
  for good is shown as transcribing for ever (`workers/transcription/deepgram_worker.py:905`);
- an article outage fails the job *before* it releases the content: a duplicate save that
  reads the failed job in between closes the entry as failed and the outage sticks
  (`core/media_ingestion/adapters/orchestrators.py:1196`);
- a logout beside a rotation leaves the successor live although the docstring of
  `revoke_refresh_token_lineage` excludes it (`utils/database_async.py:882`);
- a screen that found no capture puts its own over the announced one, and the next sweep
  announces the period again (`core/services/digest_service.py:230`), although
  `mark_digest_published` "lets exactly one through" (`utils/digest_db.py:125`);
- a save stamped before a period closed and stored after it was captured is in no digest;
- an indexing worker that checked the save before its deletion puts it back into the index
  until the purge (`workers/search_indexing_worker.py:98`);
- a move beside another move closes a cycle of folders, on which `_get_descendant_ids` never
  ends (`core/services/folder_service.py:86`); beside a deletion, folders and saves end under
  a folder that is gone; two first requests make two default folders;
- a poll undoes a pause and recreates a feed that was ended
  (`utils/database_async.py:1246`), and two subscriptions at once make two rows of one feed
  (`core/services/rss_feed_service.py:229`); a guid, or the link or title that stands in for one
  (`:65`), that a document lists twice while it is new is routed twice, and an episode charged twice, with no
  fault at all, since the loop of `poll_feed` (`:362`) compares with the stored row only, although
  `workers/rss_feed_poll_worker.py:12` names deduplication by guid; polls of everything read an
  eventually consistent index (`utils/database_async.py:1215`) and put back what it showed;
  items that were marked seen and not yet routed
  when a poll broke off are never routed;
- an RSS item without a guid takes that of the index entry it was enriched with, which may be
  another episode's: its transcript is stored
  (`workers/podcast_platform_resolvers.py:1901`); an RSS link delivered again after the feed published
  names the newer episode; an outage while the right feed is read lets a later feed win; and the
  worker raises whatever `retryable` says, so that a link refused for good is tried again;
- where a store names no identifier, a change back to the product of an earlier purchase matches
  that purchase's row, which is over, and leaves the one in force as it was
  (`api/endpoints/revenucat_webhook.py:298`, `:321`);
- a worker's last delivery ends in `_mark_job_failed`, which does not look at the status
  (`workers/youtube_ingestion_worker.py:1029`, `workers/tiktok_ingestion_worker.py:1324`): a callback that raises behind
  its end, in the captions' charge or the event, one that raises arming the backstop of the run that replaced
  its own, a backstop whose own end raises, or a podcast with its text that is refused when it
  comes again, fails a completed job; the run leaves those failures out and `SuccessesStay` names them;
- job rows expire 30 to 90 days after their last transition
  (`src/infrastructure/terraform/modules/platform/dynamodb_core_tables.tf:77`; `src/docs/DATA_RETENTION.md:40`
  still calls that TTL frozen off). An account erased later leaves the transcripts of those jobs
  behind, since the inventory finds texts through rows alone
  (`core/services/account_deletion_service.py:185`);
- two overlapping submissions of one file each find the other's row and are both free; so is
  the retry after a submission that broke off behind its row
  (`core/services/durable_media_service.py:202`);
- a first copy of content that is still being transcribed for somebody else, whose job row has
  expired while the ledger's entry stays, or whose job cannot be read at that moment is never
  charged (`core/media_ingestion/adapters/orchestrators.py:309`, `:100`), although "their first
  copy of a media is charged like any other" (line 274); the same docstring accepts it for a
  job that is gone or unread (line 289). `PaidOnce` states the cost as the code arrives at it.
  And shared content is not counted
  in the items of the day;
- `_debit` swallows whatever raises in it, by design (`core/services/quota_enforcer.py:901`), and
  the worker's settlement "never raises": a settlement whose write is lost leaves a delivered
  transcription short of its bill, and a debit whose first write arrived and whose second
  raised tells 0, so that the settlement charges the bill in full on top; a message delivered again after the period turned charges the new
  period too; a document that is uploaded again is charged again;
- a request that breaks off behind its row and job leaves them pending with nothing to run them;
- a user's rename is overwritten by the next mirror of the job
  (`core/services/durable_media_service.py:520`), and two first sign-ins of one e-mail address at a
  provider may make two accounts (`api/endpoints/auth_social.py`);
- a TikTok ingestion delivered again after it persisted its run writes its whole copy of the
  job back (`workers/tiktok_ingestion_worker.py:951`, `utils/database_async.py:616`) and with it
  an `apify_state` from before the callback's claim: a second callback may claim the same run,
  which the docstring of `claim_apify_callback` (`utils/database_async.py:388`) excludes; the run
  leaves that failure out and the theorem `OneCallbackContinues` names it as a hypothesis;
- the comment on `MAX_FOLDER_DEPTH` counts six levels, the code allows five
  (`core/models/folder.py:17`).

### Fairness

`FairSpec` adds weak fairness of each save's request once it has started, of
each job's worker and of each job's consumer. Requests and handlers run to their
end or fail (Lambda bounds them, and failing is a step), and SQS keeps
delivering a visible message. Nobody is obliged to start a save. Nothing is
assumed of how choices inside a step fall: faults may occur every time.
`ReservationCloses` needs that reporting the last failure works, and that the
request is not killed between reservation and job: `url_liveness` therefore has
no `reporting` and no `request` fault. With those faults a reservation can
stay open for ever; the code offers only the reconciliation script for it.

`WorkersLiveSpec` of `PodcastResolution` (`LiveSpec` of `PlatformRelay` with the resolver
taken apart) is weak fairness of the steps of each message and
each dispatch: the queues are served. Nothing obliges Apify to end a run or to
call; `RunEndsInTheEnd` rests on the backstop message alone. `LiveSpec` of
`ArtifactLifecycle` is weak fairness of each request, hook and reader once it
has started, of the clock that reaches the deadline, of the reconciliation's
schedule and of the generation queue. The translation worker needs none: the
deadline ends a wait it never answers. `RequestIsAnswered` excludes killed
processes, because a request killed between its entry and its message leaves an
entry nothing ends. `ContentPurge`, `Account` and `PersonalLibrary` state safety only: how
fast a stream, a sweep or a user retries is not the code's to say.

## Proofs

Every theorem holds for all values of the constants that satisfy the named ASSUMEs of the
modules: any sets of saves, users, devices, readers and messages, any receive limit, and any
set of faults except where a hypothesis is named below. All 36 safety properties that the
passing runs check are proved so; the four liveness properties are not.

All proofs have one form. The property is seldom inductive; `IInv` of the proof module is the
conjunction of named parts that is. `Initially` proves it of `Init`, one lemma per action (or per
kind of write) proves that the action keeps each part it can disturb, `Invariance` concludes
`Spec => []IInv`, and each property follows from `IInv`, an action property from `IInv` and
one step. Where the components of a module hardly meet, each has an invariant of its own
(`IInv`, `SubmissionsInv` and `SubscriptionsInv` of `Account_proofs`), proved beside the others.

| Module | `IInv`, besides types | Theorems |
|---|---|---|
| `ContentPipeline_proofs`, `UrlSubmission_proofs` | who has a worker message owns the entry; text is stored before the phases and events that rely on it; watcher rows name own jobs; what each `pc` of a request implies for ledger, job, text and messages | `OnlyOneJobProcesses` `StoredTextKeepsOwner` `CompletedJobsAreReadable` `PointersStayOwn` `OutcomesAreKept` `PromiseIsKept` |
| `EpisodeSubmission_proofs` | the same `PipelineInv`; a request that reserved owns the entry until it hands it on; an outcome a request knows of has its text | the same six |
| `ArtifactLifecycle_proofs` | `Truthful`: what is marked or sent is stored; `Exclusive`: until a send fails, who works holds the lock or the lease, and its message is the one that was sent for it | `OnlyOneTranslates` `DoneTextsAreStored` `OnlyOneGenerates` `GenerationsHaveTheirText` `ReadyEntriesAreSealed` `WaitsEndOnlyWaits` |
| `PlatformRelay_proofs` | `charged` is what the tokens say, a message carries the gate's part of it unless that is `untold`, and what is `lost` was not applied; writes of the job come before its runs; a continuation holds the run's claim; for podcasts, what is known of the episode at each `pc` of the resolver; whoever may still fail the job has not seen it completed (`SuccessIsLeft`) | `DeliveriesAreCharged` `MediaAreChargedOnce` `OneCallbackContinues` `TextsAreOfTheEpisode` `LinksFindWhatIsMeant` `SuccessesStay` |
| `ContentPurge_proofs` | ledger, rows and cascades point at jobs that are there for their step; what a cascade listed is still so; an entry without its text has a cascade that will take it; an erasure past its listing has seen every text and is the user's last writer | `ReadySavesAreReadable` `NothingStaysBehind` `ReservationsSurvive` `ArtifactsStay` |
| `Account_proofs` | every session has a tip, a live token its device holds or one whose live successor did not arrive; a closed session has no live token and no rotation at work; an erasure past its listing writes alone | `LogoutsEndSessions` `ErasuresLeaveNothing` `SessionsAreKept` |
| `Account_proofs`, submissions | a request's remaining calls are the end of its route, and each call that is over has had its effect; whether a save owes is fixed when its row is written; what was charged is what gate and settlement were to charge so far | `AcceptedAreWhole` `SavesArePaidOnce` |
| `Account_proofs`, subscriptions | the events of a store follow one another and lead to its state (`HistoryFits`, `StoreFits`); the latest row of a subscription says its last purchase, renewal or change that was processed and what of the cancellation, failure and expiration behind it was; a request under way repeats that event, adds to it or goes on from it | `SubscriptionsHold` `RowsTellTheStore` `BuyingNeverLowers` |
| `PersonalLibrary_proofs` | nobody who saw a cleared save visible is about to index it; who is about to announce holds the claim and the capture that is there; what a poll still has to send was sent by nobody and counts as seen; no folder is on its own way up, and every way up is within the depth; the parent a request is about to put is there and not below the folder, what it is about to drop is bare, and requests that would cross are not at work together (`TreeIsRight`) | `FoldersStayATree` `ClearedSavesStayOut` `DigestsAreTold` `SignedOutDevicesAreQuiet` `ItemsAreRoutedOnce` |

Each of them also has its type theorem (`TypesAreCorrect`, `SessionTypes`). Four arguments
deserve a sentence. A release can never take a stored text away, because a request about to
release has no message, no event and no transcript (`RequestInv`): that makes
`StoredTextKeepsOwner` inductive. And a settlement charges `bill - carried`, so
`DeliveriesAreCharged` needs only that what a message carries was charged, while
`MediaAreChargedOnce` needs that nothing else was but what a debit charged in silence. The sums of `PaidOnce` are stated as
existence of the writes that add up, and the forest of `FoldersFormATree` as paths, so that
no proof needs an induction over data. And cancellation, expiration and payment failure commute in a
row because its status is a function of which of them came, whatever the order (`StatusBy`).

The modules update a function at one index per expression,
`[messages EXCEPT ![m] = [messages[m] EXCEPT !.phase = "received", !.receives = @ + 1]]`, and write
the record out where `@` occurs below it. tlapm 1.4.5 reads the shorter forms wrongly: its SMT
translation loses one of two updates at the same index, and it expands `@` in an EXCEPT under
`[@ EXCEPT ...]` twice.

Refinement: `PipelineStepPromised` shows every step of a worker or the consumer to be a step of
`LibraryPromise` or a stutter; the two submission modules add one step per request action and
conclude `Spec => KeepsPromise`.

Assumptions and hypotheses:

- `ContentPipeline`: `NoJob` is no save, `UserOf` is total, `MaxReceives` is positive, `Faults`
  are known; the theorems include the fault `mirror`, which the runs leave out.
- The other modules: limits are numbers, actors of different kinds have different names
  (`ReadersAreActors`, `ActorsAreDistinct`, `SessionsAssumption`, `PurgeAssumption`, ...).
- The theorems of `PlatformRelay_proofs` hold of `Spec` and of `WorkersSpec`, the one the run
  `relay` checks; those on podcasts of `WorkersSpec`. Four have hypotheses on the faults or
  the catalogue, which the run's constants satisfy. `MediaAreChargedOnce`: no message of a podcast,
  clip or reel is delivered again after the send behind its gate (`SendsOnce`), nor that of a
  reel after its run was persisted (`StartsOnce`); `relay_double_charge` refutes the property without
  it. `OneCallbackContinues`: the TikTok ingestion is not delivered again after it persisted its run, and
  a callback gives up only after it looked at the claim. `LinksFindWhatIsMeant`: the feeds a
  Spotify, Apple or Deezer link may lead to are feeds of the index (`IndexKnowsItsFeeds`), as
  the search returns no others. `SuccessesStay` has that of
  `OneCallbackContinues` and three more (`GivesUpInTime`): a callback gives up neither behind its
  end nor behind the run that replaced its own, a backstop never, and a podcast that has its
  text is not delivered again.
- The properties carry the exemptions listed under *Runs*, and the theorems with them:
  `DeliveriesAreCharged` excepts a lost settlement, `MediaAreChargedOnce` adds a gate debit
  charged in silence, `NothingStaysBehind` excepts the texts of expired job rows, `ItemsAreRoutedOnce` items
  a document listed twice, and `SavesArePaidOnce` counts a copy whose content job told
  nothing as free. Each of these failures is a step of the model the theorem is about.
- `BuyingNeverLowers`: of two plans the one of more minutes covers the other (`PlansAreRanked`), as
  `pricing_config_service.py` has it (60/60, 300/180 and 720/240 minutes a month and an
  import). Without it the property is false: `rank` (`core/services/quota_enforcer.py:435`) compares
  the number of the cap, of which 0, no cap, is the smallest.

Only model-checked: liveness (`ReservationCloses`, `ReadingSettles`, `RequestIsAnswered`, `RunEndsInTheEnd`), out
of the prover's reach.

## Plan

1. *Done*: `MediaLedger`, `ContentPipeline`, `UrlSubmission`, `EpisodeSubmission`,
   `LibraryPromise`, their runs, and the proofs of the URL path.
2. *Done*: `PlatformRelay` over `AudioQuota`, with `PodcastResolution`; `ArtifactLifecycle`
   over `TranslationLock`; `ContentPurge` over `MediaLedger`; `Account` over `Sessions` and
   `Intake`, which rests on `Consumption` and `Subscriptions`;
   `PersonalLibrary` over `Folders`, `SearchIndex`, `Digests` and `Feeds`.
3. *Done*: proofs of `EpisodeSubmission`, `ArtifactLifecycle` over `TranslationLock`,
   `PlatformRelay` with `PodcastResolution`, `ContentPurge`, and of all that `Account` and
   `PersonalLibrary` compose.
4. Left: the generation debits, the job row of a feed's item, the restoring of a deleted row,
   and `fail_artifact_generation`, which writes back the whole row it read
   (`core/services/artifact_service.py:1907`) and which no property covers.

## Not modelled

- Classification of URLs and media keys, presentation and read models, the mobile client and the deployment code: no state that several actors share.
- Of the library: engagement and renaming, which write one attribute each; search queries;
  digest settings; the job row of a feed's item and the scheduling of the next poll.
- A cache lookup of a translation that fails and is taken as a miss
  (`core/services/transcript_translation.py:571`); the store's event types the webhook ignores
  (`api/endpoints/revenucat_webhook.py:702`); the eventually consistent query for a user's push
  tokens; a post to Expo that a redelivered message repeats: `DigestIsTold` counts the messages
  sent to the queue.
- Rate limiters, provider pools, forecasts, burst guards, item counters and prices:
  arithmetic over the user's other activity or over wall-clock time.
- The job archiver, which copies removed job rows to a bucket no model reads, and the
  reconciliation script of the ledger, which an operator runs on rows at rest.
