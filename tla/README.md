# Verification of the conversion service

TLA+ models of the service in `src/` (a Go HTTP service that turns videos into
MP3 files with yt-dlp and ffmpeg), TLC configurations that check them, and
TLAPS proofs about them. Line numbers below refer to
`src/internal/handlers/api.go` unless another file is named.

## 1. The system

### Components

| component | code | state | operations |
|---|---|---|---|
| Job queue | `internal/queue/queue.go` | heap of jobs, capacity, mutex, condition variable | `Enqueue`, `Dequeue`, `PositionForSession`, `Len` |
| Worker pool | `internal/queue/queue.go` | goroutines, `stopCh` | `Start`, `Stop` |
| HTTP handlers | `internal/handlers/api.go` 176-463, 604-676 | none of their own, a copy of a session while they run | prepare, convert, status, delete, download file, health, ready, metrics |
| Download worker | 465-508 | job, copy of the session | `handleDownload`, retry timer |
| Conversion worker | 510-602 | job, copy of the session | `handleConvert`, requeue and retry timers |
| Memory store | `internal/store/store.go` 33-148 | maps of sessions, URLs, variants, assets | get, set, create, update, delete |
| Redis store | `internal/store/store.go` 151-247 | the same as keys, caches with a TTL of 24 h | the same |
| Cleanup | 87-128 | the directories `streams/` and `outputs/` | removal of old files every minute |
| Downloader | `internal/downloader/downloader.go` | permits | `FetchMetadata`, `Download` |
| Converter | `internal/converter/converter.go` | permits | `Convert` |
| Middleware | `internal/middleware/middleware.go` | token buckets | global and per-IP limits, API keys, allowlist |
| Helpers | `internal/util/url.go`, 390-448 | none | canonical video id, allowed domains, clip bounds, status flow |
| Periphery | config, metrics, server, `cmd/`, `web/`, `scripts/` | counters | wiring, pages, benchmark |

### How they interact

`/prepare` creates a session and, unless the *asset* cache (one entry per video)
says otherwise, marks the asset `preparing` and enqueues a download. `/convert`
completes the session at once if the *variant* cache (video, quality, trim) has
an output whose file exists; otherwise it makes sure a download is under way,
enqueues a conversion and writes the session a last time. Workers dequeue jobs,
copy the session out of the store, run a tool for minutes, and write the copy
back. A conversion whose source is missing submits another download and comes
back after five seconds; failed jobs come back after an exponential backoff.
`/status` fails a completed session whose output is gone; `DELETE` removes the
session and the files it points to; the cleanup removes files by age without
telling the store. Sessions of one video share stream, output and cache entries.
Every request first passes the allowlist, two token buckets and the key check;
`/prepare` then asks two services for the video's title and length, and yt-dlp if
neither answers. The tools run under permits, with pipes that somebody has to read.

### What is hard about it

* Nearly every write is a whole record computed from a copy that was read before
  a wait (mutex, permit, tool, timer). Lost updates are the rule.
* Asset state is tested, marked and acted on in separate calls.
* The store, the file system and the queues change independently; a file may
  go between its test and its use.
* Timers re-enqueue without looking at the answer, so that jobs can be dropped.
* The two stores differ: updates on Redis are unconditional, cache keys expire.
* Queues, timers and permits live in memory, Redis and the files outlive the
  process: a restart finds marks and sessions in the middle of their work.
* Answers, deadlines, a client that leaves, a tool that hangs or floods its pipes
  race each other around every external call.
* The queue is shared between handlers, timers and workers through a condition
  variable, and jobs re-enter it.

### What makes each component correct

| component | correctness |
|---|---|
| Queue, pool | no lost wake-up, one owner per job, capacity never exceeded, the order of the tiers, ranks that are ranks, no starvation at the top |
| Handlers, workers, store | a deleted session stays deleted; a `preparing` mark loses its download only where the code accepts that; nothing is announced before it was made; an accepted conversion ends in a result or a failure that the record shows; a completed session stays completed; one download per video; an output holds the cut it is cached for |
| Timers | retries are bounded and a download job only moves forward; requeued conversions settle; jobs of deleted sessions drain |
| Caches and files | an announced output or source was really produced |
| Restart | what is left announces nothing that was not made, and locks nobody out |
| Rate limiting | no more admissions in any window than burst plus rate; no refusal with the budget unspent |
| Metadata | the limit on the length is applied to what is known; the request is decided; no goroutine stays behind |
| Tools | permits bound them and come back; nobody blocks on a pipe; every call returns |
| Status flow | "completed" is final and comes with a link; a conversion that failed shows as failed |

`PROJECT.json` lists the hazards line by line with the properties that watch them.

## 2. Modules

| module | content |
|---|---|
| `WorkPool` | abstract: what queue and pool promise to the handlers; `JobQueue` implements it, `Pipeline` uses it |
| `JobQueue` | `queue.go` at the grain of the mutex; implements `WorkPool` |
| `JobQueueProofs` | theorems about `JobQueue` |
| `Pipeline` | handlers, workers, timers, cleanup over store, files and queues |
| `StatusFlow` | what `/status` and `/download` make of a session, and what clients are promised of it |
| `MCPipeline` | instances for TLC of both, and the loops of `buildFlow` |
| `PipelineProofs` | type correctness of `Pipeline` and the lemmas for it |
| `PipelineSafetyProofs` | the safety invariants of `Pipeline`, the progress of its jobs, its use of the queues |
| `Restart`, `MCRestart` | `Pipeline` with a process that dies and starts again |
| `RestartProofs` | what survives it |
| `RateLimiter`, `MCRateLimiter` | allowlist, token buckets, API key |
| `RateLimiterProofs` | the windows and the refusals, for all rates |
| `MetadataFetch` | `FetchMetadata` and the verdict of `handlePrepare` on the length |
| `ToolRun` | the runs of yt-dlp and ffmpeg: permits, pipes, readers, timeouts |
| `MCParts` | instances of `JobQueue`, `MetadataFetch` and `ToolRun`, which share no state: a behaviour is of one of them |
| `MetadataFetchProofs`, `ToolRunProofs` | their invariants |

### JobQueue and the code

`pq` is the heap as a set: `container/heap` returns an element that none
precedes, and that is all callers see (`Best`, `Before` = `jobPQ.Less`). `pc`
places each worker: at the select (`loop`), wanting the mutex (`lock`), inside
`notEmpty.Wait` (`asleep`), signalled but without the mutex (`woken`), in the
handler (`busy`), `exited`. Every critical section is one action. A woken worker
re-tests the queue because another one may have been faster; that is where a
wake-up could be lost. A job may be enqueued again once its handler returned,
with its old priority and timestamp, as the retries do. Two queues exist in the
program, one per job type, so `PositionForSession`'s filter by type is vacuous.

Neither `Stop` nor `PositionForSession` has a caller in the repository. They are
exported and modelled all the same: after `Stop` a worker asleep in `Dequeue`
sleeps on and `Stop` itself would wait for it for ever, which is why the run does
not check for deadlock; the ranks are checked as what a caller of
`PositionForSession` may rely on, and no hazard of the running service rests on
them.

### Pipeline and the code

A session record keeps its state, whether `SourcePath` is set (`src`), the cut
named by `VariantHash` (`cut`) and the cut named by `OutputPath` (`out`). Paths
and hashes are functions of the video and the cut. An asset entry is its state;
its path is set exactly when the state is `downloaded`. A variant entry is
mapped or not (an empty path counts as unmapped, as every reader tests for it).
An output file is `missing`, `partial` (being written, left behind by a failed
ffmpeg, or a mix of two) or the cut it holds. Jobs carry the place they are in,
the attempts, and the worker's copy of the session; handlers in progress (`req`)
carry theirs.

| actions | code |
|---|---|
| `Prepare`, `PrepareSubmit` | `handlePrepare` up to, and from, the asset test |
| `ConvertRead` | `handleConvertReq` up to its first update: the copy is taken (241) |
| `ConvertReuse` | first update; variant mapped and its file there (266-277) |
| `ConvertLookup` | first update; otherwise, the search for output and source (266-305) |
| `ConvertEnsureDownload`, `ConvertSubmit`, `ConvertFinal` | the rest, cut at the two enqueues and the last update |
| `StatusRead`, `StatusStat`, `StatusExpire` | `handleStatus` on a completed session: read (348), look for the output (355), write it back as failed (359) |
| `Delete` | `handleDelete` |
| `DlDiscard`, `DlStart`, `DlSucceed`, `DlRetry`, `DlGiveUp`, `DlTimer` | `handleDownload` and its timer |
| `CvDiscard`, `CvFetch`, `CvBounce`, `CvStale`, `CvBegin`, `CvWrite`, `CvSucceed`, `CvRetry`, `CvGiveUp`, `CvTimer` | `handleConvert`, ffmpeg, its timers |
| `Sweep` = `CleanStream`, `CleanOutput` | the cleanup goroutine, one file at a time, writers or not |
| `KeysExpire` = `ExpireAsset`, `ExpireVariant` | the TTL of the Redis keys |

**Encoders.** `ffmpeg -y` truncates the output whoever writes to it. A worker is
`encoding` while its file is its own, `mixing` from the moment a second encoder
opens the same file (both are, to the end), and `detached` when the file was
unlinked under its hands: what it writes then nobody sees. `Left` says what the
file holds afterwards: the encoder's cut, or a mix, which only the last of several
identical encoders may leave whole.

**Stores.** `Updated` is `UpdateSession`: the memory store refuses a session it
does not have, Redis sets the key. The memory store keeps the pointer it was
given, so that edits of a handler's record after `UpdateSession` show; the two
places where that matters (283-301 and 567-569) differ by `Redis`.

**Ghosts.** `known`, `deleted`, `fetched` and `encoded` are history, read by
properties and by the choice of ids only.

**Merged steps.** Every handler that writes a session from a copy has its read and
its writes in different actions, with every other action possible in between:
`/prepare` around its submission, `/convert` between the read, the first updates,
the two submissions and the last update, `/status` between read, test and update,
the workers around tools and permits. Merged are store calls that follow each other
inside one handler without a wait, a window of a few calls whose effects other
interleavings of the model have as well, or which are named here:

* the updates at 266 and at 273 or 280, which write the same copy, with the reads
  of variant and asset between them;
* `SetAsset` with the `Enqueue` after it; the updates of `handlePrepare` before its
  id is known to anybody;
* the first read and update of `handleDownload` (466-471) and of `handleConvert`
  (511-528). On Redis a DELETE in between would be undone there; the same worker's
  later write-back undoes one too, which is the run `redis_resurrection`;
* file, session and asset at the end of a download, session and variant at the end of
  a conversion. `Restart` takes these apart, as the process may die between them;
* `handleDelete`: record and files go in one step. A result that is announced between
  its read (452) and its deletion leaves a file without a session to the cleanup.

The moment in which ffmpeg has truncated its output to zero bytes is part of
`CvWrite`: readers see either the file before or a partial one.

**Queues.** Which of the queued jobs is taken is free in `Pipeline`; capacity
and pool size are kept. `JobQueue` is about the order. The two meet in
`WorkPool`: `JobQueue` implements it, mutex and condition variable included, and
`QueuesArePools` says that each of the pipeline's queues, with its workers, is
one, for jobs of one priority and one time (any best one may be taken). A worker
that finds its session deleted is done with the job at once, which `Pipeline` has
as one step and `WorkPool` as `Serve`, a `Grab` and a `Done` together.

### StatusFlow and the code

`Marked` and `Close` are what the two loops of `buildFlow` make of the nine steps;
`Status` and `Link` are the rest of the answer and `Served` is the test of
`handleDownloadFile`. All of it is a function of the record, so that the module
adds no variable; the table `Flows` holds `buildFlow`'s answer for every state.
The loops themselves are in `MCPipeline`, as folds (`LoopMarked`, `LoopClose`);
its assumption `LoopsAgree`, which TLC evaluates on every run of the pipeline, is that for
every state they give the same. Folds cannot be proved about, `Marked` and `Close` can.

The module ends with two sentences of the documentation that the code breaks.
`AcceptedEnds` looks at sessions whose requests and conversions are over
(`AtRest`): none may be left "queued" or "converting", as nobody is there to end
that, and a completed one has its link. `CompletedIsTerminal` is about a session
whose result is being served: it stays completed until it is deleted. Which earlier
steps are marked done is not claimed to be history: a queued session shows
"downloaded" as done before there is a source, and a failed one every step.

### Restart and the code

`Restarted` is `NewAPI` on what a dead process left: Redis keeps every record as it
is, `preparing` marks without a job included, the memory store is empty; queues,
timers, workers and handlers are gone. `Crash` may happen between any two steps of
`Pipeline`. Where `Pipeline` has merged a file with the two store calls that announce
it, `CrashInDlSucceed`, `CrashInDlGiveUp` and `CrashInCvSucceed` are the deaths
between those calls. The tools are taken to die with the process, as they do in a
container; an orderly shutdown is no different, since `main` waits for open requests
at most and never for workers.

### RateLimiter and the code

The two kinds of buckets have the same arithmetic (36-47 and 56-66 of
`middleware.go`): `Refilled`, `HasToken`, `Charged`. `Global` and `PerIp` are the
critical sections; between them the request holds no mutex and the clock may
move (`Tick`). Tokens are counted in `Token`-ths, so that rates below one per tick
exist; floating point rounding is left out. `passed[t]` and `ipPassed[ip][t]` are
history: how many tokens were given out from `t` on.

### MetadataFetch and the code

The goroutines (`Answer`, `Cut`, `Send`), the context (`Deadline`, `Leave`) and
the handler (`Receive`, `GiveUp`, `Choose`, `YtDlp`, `YtDlpKilled`) move
independently. The two `select` statements come in their order, and either branch
is taken when both are ready. An answer is what the code tells apart: something or
nothing, and the seconds. The first `"duration"` in yt-dlp's dump may be another
one than the video's, hence any length up to it.

### ToolRun and the code

A slot is a worker that calls `Download` or `Convert` again and again. The permit
channel is a count; the process is computing, stopped at a pipe, or dead; a pipe
is the number of lines in it. In `Download` two goroutines read and the caller
waits; in `Convert` the caller reads stdout itself and waits after it. `Start`,
`StartFails` and `Wait` are the ways out, each with the deferred release.
`ReadTooLong` is a `bufio.Scanner` that meets a line of more than 64 KiB: it stops
for good, and the tool may block on that pipe until its timeout. ffmpeg's stderr is
copied, not scanned, and always drained.

### Properties

*JobQueue.* `NoLostWakeup`: while a worker sleeps, the jobs in the queue are no
more than the woken workers on their way. `OneOwner`. `PositionAdvances`: when a
job is taken, the rank of each waiting session goes down by one, or its job is at
the top of the order itself. `RankIsPlace`: a reported rank is a place in the line,
and the first place only of a job that the heap may return next.
`TopJobServed`: a job nothing can precede is taken; jobs of lower tiers have no
such guarantee. `ImplementsPool`: the refinement, with fairness.

*Pipeline.* `NoResurrection`: no copy, of whatever age, brings a deleted session
back. `OrphansExplained`: a step leaves a `preparing` mark without a download job
only by a full queue, or by the discarded job of a deleted session; every other end
of a download settles the mark. These orphans are real, and the code's answer to
them is that a conversion asked for later submits its own download, which
`SettlesAfterRestart` checks from any of them. `NothingPremature`: what records,
asset and variant entries announce was made once. It compares with a history that
only grows, so that it is about announcing too early and not about files that went
since. `DownloadsProgress` (a download job only moves forward, within its budget);
`DrainsForward` (after a DELETE every step takes what is left of the session's work
nearer to its end, with the memory store; `redis_resurrection` is why not on Redis);
`QueuesArePools` (both queues are used as `WorkPool` allows); `DeletedJobsDrain`,
`RequeueSettles` (liveness). `TypeOK` carries the retry budget.

*Restart, StatusFlow.* `NothingPremature` once more, with deaths and on Redis;
`SettlesAfterRestart`. `StatusFlow`'s properties are those of two violation runs.

*RateLimiter.* `GlobalWindow`, `PerIpWindow`: over every stretch up to now no more
than burst plus rate. `RefusalsAreEarned`: the other direction, without which a
limiter that refuses everything would do.

*MetadataFetch, ToolRun.* `VerdictsSound`, `FetchDecides`, `AskersEnd`;
`ToolsBounded`, `NobodyBlocks`, `CallsReturn`, `ReadersEnd`. `FetchTypeOK` also says
that the context is cancelled exactly when the request is decided, `ToolTypeOK`
that the channels never hold more than their permits.

## 3. Runs

The pipeline's runs are for one video, which makes every cache entry and every
file shared; videos do not interact except by queue space.

| run | instance | shows |
|---|---|---|
| `parts` | queue: 4 jobs in two tiers, 3 workers, capacity 3. Metadata: 3 lengths around a limit of 2. Tools: 2 calls of any kinds, 1 permit of each, pipes of one line. 104,416 states | all properties of the three; woken workers that find the queue empty; races of answers and deadlines; calls that wait for a permit, hang, flood a pipe, print a line too long or fail |
| `pipeline_retry` | memory store, 1 session, 2 downloads, 1 conversion, queue 1, pool 1, 2 attempts. 3,283,365 states | retries, timers meeting a full queue, orphaned marks, duplicate downloads, cleanup; what is left after a DELETE; the use of the queues |
| `pipeline_shared` | memory store, 2 sessions, 2 downloads, 1 conversion, 1 attempt. 2,550,144 states | deletion of shared files and of the session a mark's job belongs to, reuse of outputs, stale polls and requests |
| `pipeline_restart` | Redis, 1 session, 1 download, 1 conversion, 1 attempt, any number of deaths. 363,839 states | unconditional updates, expiring keys, cleanup, a restart at any point and between the store calls, orphans of every kind |
| `pipeline_live` | memory store, 1 session, 2 downloads, 1 conversion, 1 attempt. 77,271 states | draining and settling with duplicates |
| `rate_limiter` | 2 requests in flight, 2 listed addresses and another, 4 ticks, bursts 3 and 2 | windows and refusals with both buckets empty, refilling and full |

Bounds: session ids, job slots, and one handler in progress at a time (`Clients`),
between whose steps all workers, timers, deletions and the cleanup run. Four jobs with
three workers and room for three give a full queue, a worker that loses its wake-up
to another one, and a session with jobs in both tiers. Two download slots with
one place in the queue give a queued duplicate beside a running one, a refused
submission and a timer that finds the queue full. With a pool of one two yt-dlp never
run at once; `duplicate_download` has two workers. Two sessions are what it takes for
one to delete what another one uses. Once its slots are used up a submitting step waits
for a slot, which the program would not; a session id is used once, so that a
system whose sessions are all deleted comes to rest, and the pipeline's runs do
not check for deadlock. `pipeline_shared` and `pipeline_live` leave out the cleanup,
whose effect on others DELETE has too, and `pipeline_restart` leaves out DELETE (see
Fairness).

The rates of `rate_limiter` (three halves and
one half of a token per tick) make refills that do not add up to whole tokens; four ticks let
every bucket run empty and fill to its brim. With two calls one holds the permit
while the other waits, and a pipe of one line is full after one print.

Every property is also run against a seeded error (`\* Seeded error` in the
modules: a dropped guard, a forgotten reset, a signal too few), and fails there.

### Where code and documentation disagree

| run | property | what happens |
|---|---|---|
| `duplicate_download` | `SingleDownload` | the bounce at 539-542 submits a download without looking at the asset, so two yt-dlp runs for one video overlap; README: "single download per URL (asset hash)" |
| `redis_resurrection` | `NoResurrection` | `RedisStore.UpdateSession` (store.go:173) brings a deleted session back; full.html: "Removes session and files." |
| `variant_cut` | `VariantHoldsItsCut` | a second `/convert` changes the session's `VariantHash`; the first job encodes its own quality and trim into that file; README: "conversion dedup per variant (url+quality+trim)" |
| `completed_regresses` | `CompletedIsTerminal` | a late duplicate download overwrites a completed session; developer-docs: "Only terminal states surface as-is" |
| `endless_requeue` | `RequeueUntilReady` | a `/convert` writes its copy at 266, and is then answered 503. If the copy said `downloading` and the download ended since, the session is `downloading` for good, with the source set (on the memory store, which holds the handler's record, by 295): the conversion accepted before finds a source and an unready state (537), submits nothing, and comes back every five seconds for ever; full.html: "auto-requeues until ready" |
| `accepted_ends` | `AcceptedEnds` | the last update of `/convert` (333) overwrites the `failed` or `completed` of a worker that was faster, or the job is dropped by a timer: the session is `queued` for good; a repeated `/convert` that finds the output gone (278-280) and is answered 503 leaves `completed` without a link; developer-docs: "If /convert returns 202 but the job later fails, /status will show `status=failed`" and "When `status=completed`, use `download_url`" |

`RequeueSettles` is the positive side of `endless_requeue`: if no `/convert` meets a
full queue, every conversion job ends once the tools stop failing, files stay and
clients only wait. That the tools recover must be assumed: neither the five seconds
of a bounce nor the download it submits count as an attempt, so that while downloads
fail, a conversion circulates without an end, whatever `MaxJobRetries` is.

## 4. Fairness

*JobQueue.* Weak fairness of each worker's own steps: the Go scheduler runs
every runnable goroutine, `sync.Mutex` starves none, handlers return because
`exec.CommandContext` kills the tools at their timeouts. Nobody has to enqueue
or stop.

*Pipeline.* Weak fairness for tools that end, timers that fire and files that are
opened. Strong fairness for taking a queued job, since other jobs may be taken
first again and again: within a tier the order is by arrival and a retried
job keeps its timestamp, so that it is passed over finitely often (in
`JobQueue`, `TopJobServed`). This is an assumption about traffic for the lower
tiers: an endless stream of premium jobs starves them. Strong fairness also for
handlers, whose submissions may have to wait for a free slot of the model. Requests,
deletions, cleanup and expiry are never obliged to happen.

The properties that need more of the surroundings name it as a premise, so that a
behaviour without it still counts as one of the system: `ToolsRecover` (from some point
on no tool fails), `FilesStay` (the cleanup finds nothing: a source removed each
time before it is used would keep a conversion waiting for ever, in the program as
in the model), `ClientsRest` (no new requests; a client that repeats `/convert` sets
the state back each time), `NothingRefused` (no `/convert` meets a full queue; see
`endless_requeue`) and, after deaths, `StaysUp`.

*Restart.* The same as `Pipeline`, across deaths. `RestartSpec` is the work of
handlers, workers and timers, the cleanup, the expiry and the deaths. It leaves out
DELETE: on Redis a session that is deleted may be brought back by the very
conversion that looks for its source (`redis_resurrection`), and circulates.

*MetadataFetch.* Weak fairness of the goroutines once they have something to do,
of the deadline, and of the kill at yt-dlp's timeout. Neither service, nor
yt-dlp, nor the client has to do anything.

*ToolRun.* Weak fairness of calls, readers and timeouts; strong fairness of
acquiring a permit, because a Go channel serves blocked senders in turn. A tool
may hang or print for ever; `exec.CommandContext` kills it.

## 5. Proofs

All theorems hold for every value of the constants under the modules' named
assumptions (`JobQueueAssumption`, `PipelineAssumption`,
`RateAssumption`, `FetchAssumption`, `ToolAssumption`: the types of the
constants, and that jobs, workers and calls are finitely many where they are
counted, as in any process they are). They use no fairness.

* `JobQueueProofs!TypeCorrect`, `Ownership`: inductive as they stand.
* `WakeupsKept` (`NoLostWakeup`): inductive with the type invariant. `Enqueue`
  adds one job and one woken worker if anybody sleeps; a worker that goes to
  sleep proves the queue empty; one that takes a job was either woken, and both
  sides shrink, or not, and only the queue does. The argument is about
  cardinalities; `FiniteParts` and `SameCount` do the counting.
* `PoolImplemented` (`SafeSpec => Pool!SafeSpec`): a step of a worker is a
  `Grab`, a `Done` or a stutter; `HeldBound` bounds the held jobs by the workers.
* `RanksArePlaces`, `RanksAdvance`: `Before` is a strict order, and in a finite set
  that is not empty something comes first. That is an induction over finite sets,
  which the library states with an operator as parameter; it is had instead from
  the well-foundedness of the strict subsets of a finite set.
* `PipelineProofs!TypeCorrect`: one lemma per group of actions. The retry budget
  is part of it.
* `MemoryForgets` (`~Redis => (SafeSpec => []NoResurrection)`): by
  `UpdatedExists`, the memory store's update creates nothing; only `Prepare`
  does, under an id that was never deleted. `redis_resurrection` shows that the
  premise cannot be dropped.
* `OnlyDropsOrphan` (`OrphansExplained`), for either store: three lemmas say what may
  happen to marks and jobs: no mark is set and no job goes (`MarkKept`), a job goes
  and its asset is not left marked (`MarkSettled`), a mark is set with its job or by a
  full queue (`MarkSubmitted`); `OrphanStep` has one step per group of actions and
  finds the code's two reasons for the rest.
* `NothingIsPremature`: the property is not inductive, as any worker may write
  back its copy. The invariant `Deserved` adds that every copy in a job or a
  handler is itself earned (`CopiesEarned`); `DeservedKept` reduces each step to
  the records it writes.
* `DownloadsMoveForward` (`SafeSpec => DownloadsProgress`): each action that
  touches a download job compares the numbers `Progress` gives before and after;
  the budget in `TypeOK` bounds them. With it the end of download jobs needs no
  more than that somebody takes a step.
* `DlSteps`, `CvSteps`, `ReqSteps`: what any step of the pipeline may do to the
  download jobs, the conversion jobs and the handlers. It leaves them alone, or
  one of them is submitted by somebody who goes forward, goes to its next place,
  or ends; or a removal or another encoder displaces the writers of an output
  (`CvDisplaces`). The next three theorems need no more of most actions than this.
* `DeletedWorkDrains` (`DrainsForward`): by `NoResurrection` a job of a deleted
  session fails the test at its next start, so that each move is to a place with
  fewer steps left. `DeletedJobsDrain` then needs only that these steps are taken.
* `PipelineUsesPools` (`QueuesArePools`): the same steps as `Put`, `Grab`, `Serve`,
  `Done` or stutters of two work pools; `PipelineKeepsLimits` concludes that queues
  and pools stay within their limits. With `PoolImplemented` this is the
  composition of queue and pipeline: one implements what the other uses.
* `RestartProofs`: the step lemmas of `Pipeline` cover every step but a death.
  `DeathFacts` reduces the four kinds of deaths to one restart, from a store in
  which each record is an old one or was earned by then, and `DeathKeeps` does the
  rest: `RestartTypeCorrect`, `NothingPrematureAfterRestart`, for either store and any
  number of deaths. `DownloadsMoveForwardAfterRestart`, `MemoryForgetsAfterRestart`,
  `DeletedWorkDrainsAfterRestart` and `LimitsKeptAfterRestart` rest on a death
  emptying queues, workers and handlers (`DeathEmpties`). `OrphansExplained` and
  `QueuesArePools` end with the process: a death orphans every mark, and a new process
  has new pools.
* `RateLimiterProofs`: a window bound is not inductive. The invariant `Covered`
  says of every moment `t` both that tokens left and tokens given out since then
  stay within burst plus rate (whence the windows), and that they make up at
  least what the rate granted, as far as the bucket can hold it (whence
  `RefusalsJustified`). Lemmas about one bucket are used for both kinds.
* `ToolRunProofs`: a permit is counted exactly by the calls that hold it, and a
  running tool's call holds one; `NobodyBlocks` needs that a reader ends only
  after its tool, or gave up on a line.
* `MetadataFetchProofs`: what the handler heard of a service is nothing or what
  that service answered; unless the collecting was cut short, it is the answer.

Only model-checked: the liveness properties (`TopJobServed`, `DeletedJobsDrain`,
`RequeueSettles`, `SettlesAfterRestart`, `FetchDecides`, `AskersEnd`, `CallsReturn`,
`ReadersEnd`) and the fairness part of `ImplementsPool`, since fairness and `ENABLED`
are beyond the prover; and `LoopsAgree`, since folds are. What is safety in the second
of them is proved: `DeletedWorkDrains`.

## 6. Not modelled

* The read-only endpoints (health, ready, metrics, stats, selftest, docs, admin)
  and the metrics: counters nobody decides on.
* Validation of requests: domains, canonical ids, clip bounds. They are functions
  of strings over `net/url`; `AssetOf` stands for the result, and the clip bounds
  only accept or refuse. Hours so large that `h*3600` wraps are listed as a hazard.
* The URL map, which is written and never read by a handler.
* Network errors of Redis after the start; the choice of the store at the start
  is the constant `Redis`.
* Durations, except as clock ticks of the rate limiter: backoffs and TTLs may
  pass at any time.
* That default jobs get their turn under a stream of premium ones: nothing promises it.
* The contents of files beyond whole, partial and which cut.
* Wording and progress.
* Configuration (read once, the modules' constants), server wiring beyond its
  death and start, benchmark client, pages, scripts, binaries.

`PROJECT.json` lists the hazards none of this covers with the reason for each.

## 7. Plan

Done: `WorkPool`, `JobQueue`; `Pipeline`; `Restart`; `StatusFlow`; `RateLimiter`;
`MetadataFetch`; `ToolRun`; with a theorem for every invariant and every action
property that a passing run checks.

Worth doing next:

1. `ClipBounds` and the backoff with integer widths, against reference
   definitions.
2. `HeapQueue`: `container/heap` on an array implementing `Best` of `JobQueue`.
3. The readers of `/download` while an output is being rewritten.
4. Two handlers in progress at once, on an instance small enough for it.
5. Proofs: the permits of `ToolRun` as a work pool; what a session that Redis
   brought back after a DELETE may still hold.
