------------------------------ MODULE Pipeline ------------------------------
(***************************************************************************)
(* The conversion pipeline of internal/handlers/api.go over the stores of  *)
(* internal/store/store.go: HTTP handlers, download and conversion         *)
(* workers, retry timers, the cleanup goroutine and the files they share.  *)
(*                                                                         *)
(* A session's SourcePath is always the stream of its asset and its        *)
(* OutputPath and VariantHash name an output of its asset, so that paths   *)
(* and hashes are a flag (src) and a cut: the quality and trim of a        *)
(* request.  A variant is an asset with a cut; it names both an entry of   *)
(* the variant cache and the file outputs/<hash>.mp3.                      *)
(*                                                                         *)
(* A handler works on a private copy of the session record, which          *)
(* UpdateSession later writes over whatever is stored.  The copy is kept   *)
(* (field s) wherever the handler waits between reading and writing: for   *)
(* the queue mutex, for a permit, for yt-dlp or ffmpeg.  Job ids come from *)
(* the finite sets DlJobs and CvJobs, the bound on the jobs alive at once. *)
(* The order in which queued jobs are taken is JobQueue's subject; here    *)
(* any queued job may be.                                                  *)
(***************************************************************************)
EXTENDS Integers, FiniteSets

CONSTANTS Sessions,        \* the ids newID may hand out (bound)
          Assets,          \* videos: HashString(CanonicalVideoID(url))
          AssetOf,         \* the video a session was prepared for
          Cuts, NoCut,     \* quality + start + end of a request; "no hash yet"
          Clients,         \* handlers in progress at once (bound)
          NoSession,
          DlJobs, CvJobs,  \* download and conversion jobs alive at once (bound)
          QueueCapacity,   \* cfg.JobQueueCapacity, of each queue
          WorkerPoolSize,  \* cfg.WorkerPoolSize, of each pool
          MaxJobRetries,   \* cfg.MaxJobRetries
          Redis            \* RedisStore rather than MemoryStore

ASSUME PipelineAssumption ==
    /\ AssetOf \in [Sessions -> Assets]
    /\ NoCut \notin Cuts
    /\ NoSession \notin Sessions
    /\ IsFiniteSet(DlJobs) /\ IsFiniteSet(CvJobs)
    /\ {QueueCapacity, WorkerPoolSize, MaxJobRetries} \subseteq Nat
    /\ Redis \in BOOLEAN

VARIABLES session,         \* the store's session records
          asset,           \* the store's asset states
          variant,         \* the store's variant entries: mapped to a path or not
          stream,          \* streams/<asset>.source exists
          output,          \* contents of outputs/<variant>.mp3
          dl, cv,          \* jobs: queued, in a worker, or in a retry timer
          req,             \* handlers in progress
          known,           \* session ids a client was given
          deleted,         \* sessions a client deleted
          fetched,         \* assets some download completed (history)
          encoded          \* variants some ffmpeg run completed (history)

store == <<session, asset, variant>>
files == <<stream, output>>
jobs == <<dl, cv>>
history == <<deleted, fetched, encoded>>
vars == <<store, files, jobs, req, known, history>>

Variants == Assets \X Cuts
Variant(i, c) == <<AssetOf[i], c>>

\* models.ConversionSession, "absent" when the store has no such key.
States == {"absent", "created", "downloading", "downloaded", "queued",
           "converting", "completed", "failed"}
SessionRecord == [state : States, src : BOOLEAN,
                  cut : Cuts \cup {NoCut}, out : Cuts \cup {NoCut}]
Absent == [state |-> "absent", src |-> FALSE, cut |-> NoCut, out |-> NoCut]

Exists(i) == session[i].state # "absent"

\* The states SetAsset records, and "none" for no entry.
AssetStates == {"none", "preparing", "downloaded", "failed", "expired"}

\* queue.Job with its place: "queued", "backoff" (asleep in a retry timer), or
\* in a worker.  A download worker is "running" yt-dlp; a conversion worker
\* has "fetched" its session, has "begun" (waits for a permit), is "encoding"
\* to a file of its own, "mixing" its output with another encoder's, or
\* "detached": its file was unlinked meanwhile.
Encoding == {"encoding", "mixing", "detached"}
DlJob == [at : {"free", "queued", "running", "backoff"},
          sess : Sessions \cup {NoSession}, attempts : Nat, s : SessionRecord]
CvJob == [at : {"free", "queued", "fetched", "begun", "backoff"} \cup Encoding,
          sess : Sessions \cup {NoSession}, attempts : Nat, s : SessionRecord,
          cut : Cuts \cup {NoCut}]
FreeDl == [at |-> "free", sess |-> NoSession, attempts |-> 0, s |-> Absent]
FreeCv == [at |-> "free", sess |-> NoSession, attempts |-> 0, s |-> Absent, cut |-> NoCut]

\* A handler that has read its session, or made it, and has yet to write.
\* /prepare is about to mark the asset and submit a download; /convert to look
\* for output and source, to submit a download and its conversion, and to write
\* the final state; GET /status to look for the output, and to write that it is
\* gone.
Request == [pc : {"idle", "prepare", "lookup", "download", "convert", "final",
                  "poll", "expire"},
            sess : Sessions \cup {NoSession}, s : SessionRecord]
Idle == [pc |-> "idle", sess |-> NoSession, s |-> Absent]

InWorker == {"running", "fetched", "begun"} \cup Encoding

DlAt(places) == {j \in DlJobs : dl[j].at \in places}
CvAt(places) == {j \in CvJobs : cv[j].at \in places}
DlFull == Cardinality(DlAt({"queued"})) >= QueueCapacity
CvFull == Cardinality(CvAt({"queued"})) >= QueueCapacity

AssetOfDl(j) == AssetOf[dl[j].sess]
AssetOfCv(j) == AssetOf[cv[j].sess]
Path(j) == Variant(cv[j].sess, cv[j].s.cut)      \* where job j's ffmpeg writes
Writers(v) == {j \in CvAt({"encoding", "mixing"}) : Path(j) = v}

-----------------------------------------------------------------------------
Init == /\ session = [i \in Sessions |-> Absent]
        /\ asset = [a \in Assets |-> "none"]
        /\ variant = [v \in Variants |-> FALSE]
        /\ stream = [a \in Assets |-> FALSE]
        /\ output = [v \in Variants |-> "missing"]
        /\ dl = [j \in DlJobs |-> FreeDl]
        /\ cv = [j \in CvJobs |-> FreeCv]
        /\ req = [c \in Clients |-> Idle]
        /\ known = {} /\ deleted = {} /\ fetched = {} /\ encoded = {}

\* Seeded error: the memory store replaces without looking.
UpdatedBlindly(i, rec) == [session EXCEPT ![i] = rec]

\* UpdateSession: Redis sets the key whether or not it exists, the memory
\* store only replaces a record it still has.
Updated(i, rec) == IF Redis \/ Exists(i) THEN [session EXCEPT ![i] = rec] ELSE session

\* os.Remove of an output: an encoder writing to it goes on writing to the
\* unlinked file.
RemoveOutput(v) == /\ output' = [output EXCEPT ![v] = "missing"]
                   /\ cv' = [j \in CvJobs |-> IF j \in Writers(v)
                                              THEN [cv[j] EXCEPT !.at = "detached"]
                                              ELSE cv[j]]

\* SetAsset("", "preparing") and then Enqueue of a fresh download job for
\* session i.  A full queue refuses the job and the mark stays.
MarkAndSubmit(i) ==
    /\ asset' = [asset EXCEPT ![AssetOf[i]] = "preparing"]
    /\ IF DlFull
       THEN UNCHANGED dl
       ELSE \E j \in DlAt({"free"}) :
              dl' = [dl EXCEPT ![j] = [FreeDl EXCEPT !.at = "queued", !.sess = i]]

-----------------------------------------------------------------------------
(* handlePrepare *)

\* Metadata, CreateSession, and the test of the asset cache.  The id reaches
\* the client with the 202.
Prepare(c, i) ==
    LET a == AssetOf[i]
        need == \/ asset[a] \in {"none", "failed"}
                \/ asset[a] = "downloaded" /\ ~stream[a]
    IN  /\ req[c] = Idle
        /\ ~Exists(i) /\ i \notin known \cup deleted
        /\ session' = [session EXCEPT ![i] = [Absent EXCEPT !.state = "created"]]
        /\ IF need
           THEN req' = [req EXCEPT ![c] = [Idle EXCEPT !.pc = "prepare", !.sess = i]]
                /\ UNCHANGED known
           ELSE known' = known \cup {i} /\ UNCHANGED req
        /\ UNCHANGED <<asset, variant, files, jobs, history>>

\* The download is submitted: 202, or 503 when the queue is full.
PrepareSubmit(c) ==
    LET i == req[c].sess
    IN  /\ req[c].pc = "prepare"
        /\ MarkAndSubmit(i)
        /\ known' = IF DlFull THEN known ELSE known \cup {i}
        /\ req' = [req EXCEPT ![c] = Idle]
        /\ UNCHANGED <<session, variant, files, cv, history>>

(* handleConvertReq *)

\* The session is read; its copy gets the variant asked for.
ConvertRead(c, i, cut) ==
    /\ req[c] = Idle /\ i \in known /\ Exists(i)
    /\ req' = [req EXCEPT ![c] = [pc |-> "lookup", sess |-> i,
                                  s |-> [session[i] EXCEPT !.cut = cut]]]
    /\ UNCHANGED <<store, files, jobs, known, history>>

\* The variant is mapped and its file is there: completed at once.
ConvertReuse(c) ==
    LET r == req[c]
        v == Variant(r.sess, r.s.cut)
    IN  /\ r.pc = "lookup" /\ variant[v] /\ output[v] # "missing"
        /\ session' = Updated(r.sess, [r.s EXCEPT !.out = r.s.cut, !.state = "completed"])
        /\ req' = [req EXCEPT ![c] = Idle]
        /\ UNCHANGED <<asset, variant, files, jobs, known, history>>

\* Otherwise a stale mapping is cleared, and the source is looked for in the
\* session and then in the asset cache; entries whose file is gone expire.
\* The SourcePath found or dropped here is written to the handler's record
\* without UpdateSession: only the memory store, which holds a pointer to
\* that record, shows it to others.  Whether UpdateSession found the session
\* is not asked: the work of a session deleted meanwhile goes on.
ConvertLookup(c) ==
    LET i == req[c].sess
        a == AssetOf[i]
        v == Variant(i, req[c].s.cut)
        old == [req[c].s EXCEPT !.out = IF variant[v] THEN NoCut ELSE @]
        ready == stream[a] /\ (old.src \/ asset[a] = "downloaded")
        expire == ~stream[a] /\ (old.src \/ asset[a] = "downloaded")
        new == [old EXCEPT !.src = ready]
    IN  /\ req[c].pc = "lookup"
        /\ ~(variant[v] /\ output[v] # "missing")
        /\ variant' = [variant EXCEPT ![v] = FALSE]
        /\ session' = Updated(i, IF Redis THEN old ELSE new)
        /\ asset' = IF expire THEN [asset EXCEPT ![a] = "expired"] ELSE asset
        /\ req' = [req EXCEPT
             ![c].pc = IF ~ready /\ asset'[a] \in {"none", "failed", "expired"}
                       THEN "download" ELSE "convert",
             ![c].s = [new EXCEPT !.state = IF ready THEN "converting" ELSE "queued"]]
        /\ UNCHANGED <<files, jobs, known, history>>

\* Source not ready: a fresh download is submitted, or 503.
ConvertEnsureDownload(c) ==
    /\ req[c].pc = "download"
    /\ MarkAndSubmit(req[c].sess)
    /\ req' = IF DlFull THEN [req EXCEPT ![c] = Idle] ELSE [req EXCEPT ![c].pc = "convert"]
    /\ UNCHANGED <<session, variant, files, cv, known, history>>

\* The conversion is submitted, or 503.
ConvertSubmit(c) ==
    /\ req[c].pc = "convert"
    /\ IF CvFull
       THEN req' = [req EXCEPT ![c] = Idle] /\ UNCHANGED cv
       ELSE /\ \E j \in CvAt({"free"}) :
                 cv' = [cv EXCEPT ![j] = [FreeCv EXCEPT !.at = "queued", !.sess = req[c].sess,
                                                        !.cut = req[c].s.cut]]
            /\ req' = [req EXCEPT ![c].pc = "final"]
    /\ UNCHANGED <<store, files, dl, known, history>>

\* The last UpdateSession, from the copy read before the job was submitted.
ConvertFinal(c) ==
    /\ req[c].pc = "final"
    /\ session' = Updated(req[c].sess, req[c].s)
    /\ req' = [req EXCEPT ![c] = Idle]
    /\ UNCHANGED <<asset, variant, files, jobs, known, history>>

(* handleStatus and handleDelete *)

\* A completed session is read; a poll of any other only answers.
StatusRead(c, i) ==
    /\ req[c] = Idle /\ i \in known
    /\ session[i].state = "completed" /\ session[i].out # NoCut
    /\ req' = [req EXCEPT ![c] = [pc |-> "poll", sess |-> i, s |-> session[i]]]
    /\ UNCHANGED <<store, files, jobs, known, history>>

\* Its output is looked for.
StatusStat(c) ==
    /\ req[c].pc = "poll"
    /\ req' = [req EXCEPT ![c] = IF output[Variant(req[c].sess, req[c].s.out)] = "missing"
                                 THEN [@ EXCEPT !.pc = "expire"] ELSE Idle]
    /\ UNCHANGED <<store, files, jobs, known, history>>

\* The output is gone: the copy is written back as failed.
StatusExpire(c) ==
    /\ req[c].pc = "expire"
    /\ session' = Updated(req[c].sess, [req[c].s EXCEPT !.state = "failed", !.out = NoCut])
    /\ req' = [req EXCEPT ![c] = Idle]
    /\ UNCHANGED <<asset, variant, files, jobs, known, history>>

\* The session goes, and the files it points to go with it.
Delete(i) ==
    LET s == session[i]
    IN  /\ i \in known /\ Exists(i)
        /\ session' = [session EXCEPT ![i] = Absent]
        /\ IF s.out = NoCut THEN UNCHANGED <<output, cv>> ELSE RemoveOutput(Variant(i, s.out))
        /\ stream' = IF s.src THEN [stream EXCEPT ![AssetOf[i]] = FALSE] ELSE stream
        /\ deleted' = deleted \cup {i}
        /\ UNCHANGED <<asset, variant, dl, req, known, fetched, encoded>>

-----------------------------------------------------------------------------
(* handleDownload *)

\* The job of a deleted session ends at once; the asset keeps its mark.
DlDiscard(j) ==
    /\ dl[j].at = "queued" /\ ~Exists(dl[j].sess)
    /\ Cardinality(DlAt(InWorker)) < WorkerPoolSize
    /\ dl' = [dl EXCEPT ![j] = FreeDl]
    /\ UNCHANGED <<store, files, cv, req, known, history>>

DlStart(j) ==
    LET i == dl[j].sess
        s == [session[i] EXCEPT !.state = "downloading"]
    IN  /\ dl[j].at = "queued" /\ Exists(i)
        /\ Cardinality(DlAt(InWorker)) < WorkerPoolSize
        /\ session' = Updated(i, s)
        /\ dl' = [dl EXCEPT ![j].at = "running", ![j].s = s]
        /\ UNCHANGED <<asset, variant, files, cv, req, known, history>>

\* yt-dlp put the stream in place; session and asset cache are told.
DlSucceed(j) ==
    LET a == AssetOfDl(j)
    IN  /\ dl[j].at = "running"
        /\ stream' = [stream EXCEPT ![a] = TRUE]
        /\ session' = Updated(dl[j].sess, [dl[j].s EXCEPT !.src = TRUE, !.state = "downloaded"])
        /\ asset' = [asset EXCEPT ![a] = "downloaded"]
        /\ fetched' = fetched \cup {a}
        /\ dl' = [dl EXCEPT ![j] = FreeDl]
        /\ UNCHANGED <<variant, output, cv, req, known, deleted, encoded>>

\* Seeded errors: one attempt too many; attempts that are not counted; a
\* retry that is never scheduled.
DlRetryOnceMore(j) ==
    /\ dl[j].at = "running"
    /\ dl[j].attempts + 1 <= MaxJobRetries
    /\ dl' = [dl EXCEPT ![j].at = "backoff", ![j].attempts = @ + 1, ![j].s = Absent]
    /\ UNCHANGED <<store, files, cv, req, known, history>>

DlRetryUncounted(j) ==
    /\ dl[j].at = "running"
    /\ dl[j].attempts + 1 < MaxJobRetries
    /\ dl' = [dl EXCEPT ![j].at = "backoff", ![j].s = Absent]
    /\ UNCHANGED <<store, files, cv, req, known, history>>

DlRetryForgotten(j) ==
    /\ dl[j].at = "running"
    /\ dl[j].attempts + 1 < MaxJobRetries
    /\ dl' = [dl EXCEPT ![j] = FreeDl]
    /\ UNCHANGED <<store, files, cv, req, known, history>>

\* yt-dlp failed or ran into its timeout with attempts left.
DlRetry(j) ==
    /\ dl[j].at = "running"
    /\ dl[j].attempts + 1 < MaxJobRetries
    /\ dl' = [dl EXCEPT ![j].at = "backoff", ![j].attempts = @ + 1, ![j].s = Absent]
    /\ UNCHANGED <<store, files, cv, req, known, history>>

\* Seeded error: only the session learns of the failure.
DlGiveUpQuietly(j) ==
    /\ dl[j].at = "running"
    /\ dl[j].attempts + 1 >= MaxJobRetries
    /\ session' = Updated(dl[j].sess, [dl[j].s EXCEPT !.state = "failed"])
    /\ dl' = [dl EXCEPT ![j] = FreeDl]
    /\ UNCHANGED <<asset, variant, files, cv, req, known, history>>

DlGiveUp(j) ==
    /\ dl[j].at = "running"
    /\ dl[j].attempts + 1 >= MaxJobRetries
    /\ session' = Updated(dl[j].sess, [dl[j].s EXCEPT !.state = "failed"])
    /\ asset' = [asset EXCEPT ![AssetOfDl(j)] = "failed"]
    /\ dl' = [dl EXCEPT ![j] = FreeDl]
    /\ UNCHANGED <<variant, files, cv, req, known, history>>

\* Seeded error: the timer puts the job back whether there is room or not.
DlTimerAnyway(j) ==
    /\ dl[j].at = "backoff"
    /\ dl' = [dl EXCEPT ![j].at = "queued"]
    /\ UNCHANGED <<store, files, cv, req, known, history>>

\* The timer submits the job again and ignores the answer.
DlTimer(j) ==
    /\ dl[j].at = "backoff"
    /\ dl' = IF DlFull THEN [dl EXCEPT ![j] = FreeDl] ELSE [dl EXCEPT ![j].at = "queued"]
    /\ UNCHANGED <<store, files, cv, req, known, history>>

-----------------------------------------------------------------------------
(* handleConvert *)

\* Seeded error: the job of a deleted session is tried again.
CvDiscardLater(j) ==
    /\ cv[j].at = "queued" /\ ~Exists(cv[j].sess)
    /\ Cardinality(CvAt(InWorker)) < WorkerPoolSize
    /\ cv' = [cv EXCEPT ![j].at = "backoff"]
    /\ UNCHANGED <<store, files, dl, req, known, history>>

CvDiscard(j) ==
    /\ cv[j].at = "queued" /\ ~Exists(cv[j].sess)
    /\ Cardinality(CvAt(InWorker)) < WorkerPoolSize
    /\ cv' = [cv EXCEPT ![j] = FreeCv]
    /\ UNCHANGED <<store, files, dl, req, known, history>>

\* The session is read, and its missing source taken from the asset cache.
CvFetch(j) ==
    LET i == cv[j].sess
        a == AssetOf[i]
        cached == ~session[i].src /\ asset[a] = "downloaded"
        s == IF cached /\ stream[a]
             THEN [session[i] EXCEPT !.src = TRUE, !.state = "downloaded"] ELSE session[i]
    IN  /\ cv[j].at = "queued" /\ Exists(i)
        /\ Cardinality(CvAt(InWorker)) < WorkerPoolSize
        /\ session' = Updated(i, s)
        /\ asset' = IF cached /\ ~stream[a] THEN [asset EXCEPT ![a] = "expired"] ELSE asset
        /\ cv' = [cv EXCEPT ![j].at = "fetched", ![j].s = s]
        /\ UNCHANGED <<variant, files, dl, req, known, history>>

Unready(s) == ~s.src \/ s.state \in {"downloading", "created"}

\* Seeded error: the bounced job trusts somebody else to download.
CvBounceIdle(j) ==
    /\ cv[j].at = "fetched" /\ Unready(cv[j].s)
    /\ cv' = [cv EXCEPT ![j].at = "backoff", ![j].s = Absent]
    /\ UNCHANGED <<store, files, dl, req, known, history>>

\* No source, or a download under way: back after five seconds, and without a
\* source another download is submitted.
CvBounce(j) ==
    /\ cv[j].at = "fetched" /\ Unready(cv[j].s)
    /\ IF cv[j].s.src THEN UNCHANGED <<asset, dl>> ELSE MarkAndSubmit(cv[j].sess)
    /\ cv' = [cv EXCEPT ![j].at = "backoff", ![j].s = Absent]
    /\ UNCHANGED <<session, variant, files, req, known, history>>

\* The source the session points to is gone: back after two seconds.
CvStale(j) ==
    /\ cv[j].at = "fetched" /\ ~Unready(cv[j].s) /\ ~stream[AssetOfCv(j)]
    /\ asset' = [asset EXCEPT ![AssetOfCv(j)] = "expired"]
    /\ session' = Updated(cv[j].sess, [cv[j].s EXCEPT !.src = FALSE])
    /\ cv' = [cv EXCEPT ![j].at = "backoff", ![j].s = Absent]
    /\ UNCHANGED <<variant, files, dl, req, known, history>>

\* Seeded error: the output is announced when the encoding starts.
CvBeginEarly(j) ==
    LET cut == IF cv[j].s.cut = NoCut THEN cv[j].cut ELSE cv[j].s.cut
        s == [cv[j].s EXCEPT !.state = "converting", !.cut = cut, !.out = cut]
    IN  /\ cv[j].at = "fetched" /\ ~Unready(cv[j].s) /\ stream[AssetOfCv(j)]
        /\ session' = Updated(cv[j].sess, s)
        /\ cv' = [cv EXCEPT ![j].at = "begun", ![j].s = s]
        /\ UNCHANGED <<asset, variant, files, dl, req, known, history>>

\* The session is converting; the variant is the session's, and the job's only
\* when the session has none (written to the record after UpdateSession).
CvBegin(j) ==
    LET s == [cv[j].s EXCEPT !.state = "converting"]
        named == [s EXCEPT !.cut = IF @ = NoCut THEN cv[j].cut ELSE @]
    IN  /\ cv[j].at = "fetched" /\ ~Unready(cv[j].s) /\ stream[AssetOfCv(j)]
        /\ session' = Updated(cv[j].sess, IF Redis THEN s ELSE named)
        /\ cv' = [cv EXCEPT ![j].at = "begun", ![j].s = named]
        /\ UNCHANGED <<asset, variant, files, dl, req, known, history>>

\* ffmpeg -y has opened its input and truncates the output, under the hands of
\* those who are writing to it.
CvWrite(j) ==
    LET v == Path(j)
        place == IF Writers(v) = {} THEN "encoding" ELSE "mixing"
    IN  /\ cv[j].at = "begun" /\ stream[AssetOfCv(j)]
        /\ output' = [output EXCEPT ![v] = "partial"]
        /\ cv' = [k \in CvJobs |-> IF k \in Writers(v) \cup {j}
                                   THEN [cv[k] EXCEPT !.at = place] ELSE cv[k]]
        /\ UNCHANGED <<store, stream, dl, req, known, history>>

\* What job j's output may hold when its ffmpeg is done.  The last of several
\* encoders leaves a whole file only if what the others wrote is the same.
Left(j) == CASE cv[j].at = "encoding" -> {cv[j].cut}
             [] cv[j].at = "mixing"   -> {"partial"} \cup
                                           {cut \in {cv[j].cut} : Writers(Path(j)) = {j}}
             [] OTHER                 -> {output[Path(j)]}

\* ffmpeg is done, and session and variant cache are told.
CvSucceed(j) ==
    LET v == Path(j)
    IN  /\ cv[j].at \in Encoding
        /\ \E left \in Left(j) : output' = [output EXCEPT ![v] = left]
        /\ session' = Updated(cv[j].sess, [cv[j].s EXCEPT !.out = cv[j].s.cut, !.state = "completed"])
        /\ variant' = [variant EXCEPT ![v] = TRUE]
        /\ encoded' = encoded \cup {v}
        /\ cv' = [cv EXCEPT ![j] = FreeCv]
        /\ UNCHANGED <<asset, stream, dl, req, known, deleted, fetched>>

\* Seeded error: a failed last attempt counts as a mapping of the variant.
CvGiveUpMapped(j) ==
    /\ cv[j].at \in {"begun"} \cup Encoding
    /\ cv[j].attempts + 1 >= MaxJobRetries
    /\ session' = Updated(cv[j].sess, [cv[j].s EXCEPT !.state = "failed"])
    /\ variant' = [variant EXCEPT ![Path(j)] = TRUE]
    /\ cv' = [cv EXCEPT ![j] = FreeCv]
    /\ UNCHANGED <<asset, files, dl, req, known, history>>

\* ffmpeg failed, before or after it opened its output.
CvRetry(j) ==
    /\ cv[j].at \in {"begun"} \cup Encoding
    /\ cv[j].attempts + 1 < MaxJobRetries
    /\ cv' = [cv EXCEPT ![j].at = "backoff", ![j].attempts = @ + 1, ![j].s = Absent]
    /\ UNCHANGED <<store, files, dl, req, known, history>>

CvGiveUp(j) ==
    /\ cv[j].at \in {"begun"} \cup Encoding
    /\ cv[j].attempts + 1 >= MaxJobRetries
    /\ session' = Updated(cv[j].sess, [cv[j].s EXCEPT !.state = "failed"])
    /\ cv' = [cv EXCEPT ![j] = FreeCv]
    /\ UNCHANGED <<asset, variant, files, dl, req, known, history>>

CvTimer(j) ==
    /\ cv[j].at = "backoff"
    /\ cv' = IF CvFull THEN [cv EXCEPT ![j] = FreeCv] ELSE [cv EXCEPT ![j].at = "queued"]
    /\ UNCHANGED <<store, files, dl, req, known, history>>

-----------------------------------------------------------------------------
(* startCleanup, and the TTL of Redis keys *)

\* A stream's age is its mtime, which yt-dlp may set to the upload's: any
\* stream may be old.
CleanStream(a) == /\ stream[a]
                  /\ stream' = [stream EXCEPT ![a] = FALSE]
                  /\ UNCHANGED <<store, output, jobs, req, known, history>>

\* An output's age is that of its last write: a hung ffmpeg has an hour, and
\* its output ten minutes (config.go).
CleanOutput(v) == /\ output[v] # "missing"
                  /\ RemoveOutput(v)
                  /\ UNCHANGED <<store, stream, dl, req, known, history>>

ExpireAsset(a) == /\ Redis /\ asset[a] # "none"
                  /\ asset' = [asset EXCEPT ![a] = "none"]
                  /\ UNCHANGED <<session, variant, files, jobs, req, known, history>>

ExpireVariant(v) == /\ Redis /\ variant[v]
                    /\ variant' = [variant EXCEPT ![v] = FALSE]
                    /\ UNCHANGED <<session, asset, files, jobs, req, known, history>>

-----------------------------------------------------------------------------
Ask(c) == \E i \in Sessions : \/ Prepare(c, i)
                              \/ \E cut \in Cuts : ConvertRead(c, i, cut)
                              \/ StatusRead(c, i)

Handler(c) == \/ PrepareSubmit(c)
              \/ ConvertReuse(c) \/ ConvertLookup(c)
              \/ ConvertEnsureDownload(c) \/ ConvertSubmit(c) \/ ConvertFinal(c)
              \/ StatusStat(c) \/ StatusExpire(c)

DlBegin(j) == DlDiscard(j) \/ DlStart(j)
DlEnd(j) == DlSucceed(j) \/ DlRetry(j) \/ DlGiveUp(j)

CvTake(j) == CvDiscard(j) \/ CvFetch(j)
CvDecide(j) == CvBounce(j) \/ CvStale(j) \/ CvBegin(j)
CvEnd(j) == CvSucceed(j) \/ CvRetry(j) \/ CvGiveUp(j)

Sweep == \/ \E a \in Assets : CleanStream(a)
         \/ \E v \in Variants : CleanOutput(v)

KeysExpire == \/ \E a \in Assets : ExpireAsset(a)
              \/ \E v \in Variants : ExpireVariant(v)

Work == \/ \E c \in Clients : Ask(c) \/ Handler(c)
        \/ \E j \in DlJobs : DlBegin(j) \/ DlEnd(j) \/ DlTimer(j)
        \/ \E j \in CvJobs : CvTake(j) \/ CvDecide(j) \/ CvWrite(j) \/ CvEnd(j) \/ CvTimer(j)

Next == \/ Work
        \/ \E i \in Sessions : Delete(i)
        \/ Sweep \/ KeysExpire

SafeSpec == Init /\ [][Next]_vars

\* Timers fire, handlers and tools return (the tools are killed at their
\* timeouts), and so do steps that need nothing but the CPU: weak fairness.
\* A queued job that is passed over again and again is taken in the end:
\* retries and later jobs do not precede it within its priority tier
\* (JobQueue), hence strong fairness.  Submitting waits for a free id, which
\* is this model's bound and not the program's: strong fairness too.
Fairness ==
    /\ \A c \in Clients : SF_vars(Handler(c))
    /\ \A j \in DlJobs : SF_vars(DlBegin(j)) /\ WF_vars(DlEnd(j) \/ DlTimer(j))
    /\ \A j \in CvJobs : /\ SF_vars(CvTake(j) \/ CvDecide(j))
                         /\ WF_vars(CvWrite(j) \/ CvEnd(j) \/ CvTimer(j))

Spec == SafeSpec /\ Fairness

\* The same while no file passes its TTL.
FreshSpec == /\ Init /\ [][Work \/ \E i \in Sessions : Delete(i)]_vars
             /\ Fairness

-----------------------------------------------------------------------------
\* Types; what a job or a handler in a given place is sure to carry; and the
\* retry budget: a job that was retried still has attempts left.
StoreOK == /\ session \in [Sessions -> SessionRecord]
           /\ asset \in [Assets -> AssetStates]
           /\ variant \in [Variants -> BOOLEAN]
FilesOK == /\ stream \in [Assets -> BOOLEAN]
           /\ output \in [Variants -> {"missing", "partial"} \cup Cuts]
DlOK == /\ dl \in [DlJobs -> DlJob]
        /\ \A j \in DlJobs :
             /\ dl[j].at # "free" => dl[j].sess \in Sessions
             /\ dl[j].attempts > 0 => dl[j].attempts < MaxJobRetries
CvOK == /\ cv \in [CvJobs -> CvJob]
        /\ \A j \in CvJobs :
             /\ cv[j].at # "free" => cv[j].sess \in Sessions /\ cv[j].cut \in Cuts
             /\ cv[j].at \in {"begun"} \cup Encoding => cv[j].s.cut \in Cuts
             /\ cv[j].attempts > 0 => cv[j].attempts < MaxJobRetries
ReqOK == /\ req \in [Clients -> Request]
         /\ \A c \in Clients :
              /\ req[c].pc # "idle" => req[c].sess \in Sessions
              /\ req[c].pc \in {"lookup", "download", "convert", "final"} => req[c].s.cut \in Cuts
              /\ req[c].pc \in {"poll", "expire"} => req[c].s.out \in Cuts
HistoryOK == /\ known \subseteq Sessions /\ deleted \subseteq Sessions
             /\ fetched \subseteq Assets /\ encoded \subseteq Variants
TypeOK == StoreOK /\ FilesOK /\ DlOK /\ CvOK /\ ReqOK /\ HistoryOK

\* Whatever workers and handlers still do with copies read before a DELETE,
\* a deleted session never comes back.  The memory store keeps this (its
\* UpdateSession tests the key, store.go:71); full.html:68 promises it of
\* every store: "Removes session and files."
NoResurrection == \A i \in deleted : ~Exists(i)

\* A download job for asset a is queued, in a worker, or about to be retried.
Downloading(a) == \E j \in DlJobs : dl[j].at # "free" /\ AssetOfDl(j) = a

\* An asset marked "preparing" keeps other sessions from downloading it
\* (api.go:220, 305).  A step leaves a mark without a job, be it a new mark or
\* one whose last job goes, only where the code accepts that: the queue was
\* full (api.go:226, 308, 487), or the job was one of a deleted session
\* (api.go:466).  A download that ends any other way settles its mark.
OrphansExplained ==
    [][\A a \in Assets :
         asset'[a] = "preparing" /\ ~Downloading(a)' /\ (asset[a] = "preparing" => Downloading(a))
         => \/ DlFull
            \/ \E j \in DlAt({"queued"}) :
                 AssetOfDl(j) = a /\ ~Exists(dl[j].sess) /\ dl'[j] = FreeDl]_vars

\* What a record of session i claims was made by then: its source by a
\* finished download of the video, its output by a finished encoding.
Earned(i, s) == /\ s.src => AssetOf[i] \in fetched
                /\ s.out # NoCut => Variant(i, s.out) \in encoded

\* Nothing is announced before it was made, through any number of stale
\* copies: a source only after a finished download of that video, an output
\* or a variant mapping only after a finished encoding of that variant.
NothingPremature ==
    /\ \A i \in Sessions : Earned(i, session[i])
    /\ \A a \in Assets : asset[a] = "downloaded" => a \in fetched
    /\ \A v \in Variants : variant[v] => v \in encoded

\* How far a download job has come: queued, running, asleep before the next
\* attempt, and again.
Progress(job) == 3 * job.attempts + CASE job.at = "running" -> 2
                                      [] job.at = "queued"  -> 1
                                      [] OTHER              -> 0

\* The attempts a job gets (api.go:482).
Tries == IF MaxJobRetries = 0 THEN 1 ELSE MaxJobRetries

\* A step that touches download job j ends it or brings it forward.
Advances(j) == dl[j].at # "free" /\ dl'[j] # dl[j] =>
    \/ dl'[j].at = "free"
    \/ /\ dl'[j].sess = dl[j].sess
       /\ Progress(dl[j]) < Progress(dl'[j]) /\ Progress(dl'[j]) < 3 * Tries

\* Whoever touches a download job, worker, timer or another job's submission,
\* brings it forward: with the retry budget it takes no more than three steps
\* for each of its attempts (api.go:480-500).
DownloadsProgress == [][\A j \in DlJobs : Advances(j)]_vars

\* How many steps a job or a handler may still take that will not meet the
\* test for its session again, or meet it and end.
DlLeft(place) == CASE place = "running" -> 3
                   [] place = "backoff" -> 2
                   [] place = "queued"  -> 1
                   [] OTHER             -> 0
CvLeft(place) == CASE place = "fetched"  -> 7
                   [] place = "begun"    -> 6
                   [] place = "encoding" -> 5
                   [] place = "mixing"   -> 4
                   [] place = "detached" -> 3
                   [] place = "backoff"  -> 2
                   [] place = "queued"   -> 1
                   [] OTHER              -> 0
ReqLeft(pc) == CASE pc = "lookup"            -> 4
                 [] pc = "download"          -> 3
                 [] pc \in {"convert", "poll"} -> 2
                 [] pc \in {"prepare", "final", "expire"} -> 1
                 [] OTHER                    -> 0

\* A step leaves the handlers and jobs of session i alone, or takes them
\* forward.  A new conversion comes from a handler that goes forward, a new
\* download from a handler or from a conversion that does.
ReqDrains(i) ==
    \A c \in Clients : req'[c].sess = i /\ req'[c] # req[c] =>
        req[c].sess = i /\ ReqLeft(req'[c].pc) < ReqLeft(req[c].pc)
CvDrains(i) ==
    \A j \in CvJobs : cv'[j].sess = i /\ cv'[j] # cv[j] =>
        \/ cv[j].sess = i /\ CvLeft(cv'[j].at) < CvLeft(cv[j].at)
        \/ \E c \in Clients : req[c].pc = "convert" /\ req[c].sess = i /\ req'[c] # req[c]
DlDrains(i) ==
    \A j \in DlJobs : dl'[j].sess = i /\ dl'[j] # dl[j] =>
        \/ dl[j].sess = i /\ DlLeft(dl'[j].at) < DlLeft(dl[j].at)
        \/ \E c \in Clients : /\ req[c].pc \in {"prepare", "download"} /\ req[c].sess = i
                             /\ req'[c] # req[c]
        \/ \E k \in CvJobs : cv[k].at = "fetched" /\ cv[k].sess = i /\ cv'[k] # cv[k]

\* With the memory store every step after a DELETE takes what is left of the
\* session's work nearer to its end: nothing is started for it but by what
\* was on its way, and that only once (store.go:71, api.go:466, 511).
DrainsForward ==
    [][~Redis => \A i \in deleted : ReqDrains(i) /\ CvDrains(i) /\ DlDrains(i)]_vars

\* After a DELETE the session's jobs leave queues, timers and workers: the
\* five-second loop of a conversion without a source does not outlive it.
DeletedJobsDrain ==
    \A i \in Sessions : (i \in deleted) ~>
        /\ \A j \in DlJobs : dl[j].sess # i
        /\ \A j \in CvJobs : cv[j].sess # i

\* From some point on no tool fails.
ToolsRecover ==
    <>[][/\ ~\E j \in DlJobs : DlRetry(j) \/ DlGiveUp(j)
         /\ ~\E j \in CvJobs : CvRetry(j) \/ CvGiveUp(j)]_vars

\* From some point on cleanup finds nothing.
FilesStay == <>[][~Sweep]_vars

\* From some point on clients only poll, delete and download.
ClientsRest ==
    <>[][~\E c \in Clients, i \in Sessions :
            Prepare(c, i) \/ \E cut \in Cuts : ConvertRead(c, i, cut)]_vars

\* No /convert comes to a full queue, and so none is answered 503.
NothingRefused ==
    [](\A c \in Clients : /\ req[c].pc = "download" => ~DlFull
                         /\ req[c].pc = "convert" => ~CvFull)

ConvertJobEnds == \A j \in CvJobs : (cv[j].at # "free") ~> (cv[j].at = "free")

\* "If conversion queued before download complete, it auto-requeues until
\* ready" (full.html:135): the requeueing is not for ever, in spite of
\* duplicate downloads and of sources, states and assets overwritten from
\* stale copies, once the tools stop failing, files stay and clients wait, if
\* every /convert came to its last UpdateSession.
RequeueSettles ==
    ToolsRecover /\ FilesStay /\ ClientsRest /\ NothingRefused => ConvertJobEnds

\* Each queue with its workers, as handlers, timers and conversions use it: the
\* jobs here carry neither priority nor time, so that any of them is as good
\* as another.
DlPool == INSTANCE WorkPool WITH
              Jobs <- DlJobs, Prio <- [j \in DlJobs |-> 0], Stamp <- [j \in DlJobs |-> 0],
              Capacity <- QueueCapacity, Workers <- 1 .. WorkerPoolSize,
              pending <- DlAt({"queued"}), held <- DlAt(InWorker), closed <- FALSE
CvPool == INSTANCE WorkPool WITH
              Jobs <- CvJobs, Prio <- [j \in CvJobs |-> 0], Stamp <- [j \in CvJobs |-> 0],
              Capacity <- QueueCapacity, Workers <- 1 .. WorkerPoolSize,
              pending <- CvAt({"queued"}), held <- CvAt(InWorker), closed <- FALSE

\* The pipeline asks of its queues no more than WorkPool promises and JobQueue
\* keeps: whoever submits, handler, bouncing conversion or timer, is refused
\* at the capacity, a job is in one pair of hands, and never more than the
\* workers there are.
QueuesArePools == DlPool!SafeSpec /\ CvPool!SafeSpec

-----------------------------------------------------------------------------
(* What the documentation says and the code does not do *)

\* README.md:9, "single download per URL (asset hash)".
SingleDownload ==
    \A a \in Assets : Cardinality({j \in DlAt({"running"}) : AssetOfDl(j) = a}) <= 1

\* README.md:9, "conversion dedup per variant (url+quality+trim)": what is
\* served for a variant has the quality and trim of that variant.
VariantHoldsItsCut ==
    \A v \in Variants : variant[v] /\ output[v] \in Cuts => output[v] = v[2]

\* full.html:135 again, without a condition on the answers to other requests:
\* a refused /convert has written its copy of the session all the same
\* (api.go:266), and nobody corrects a state it set back.
RequeueUntilReady == ToolsRecover /\ FilesStay /\ ClientsRest => ConvertJobEnds
=============================================================================
