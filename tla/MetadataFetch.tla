--------------------------- MODULE MetadataFetch ---------------------------
(***************************************************************************)
(* One POST /prepare up to its verdict on the video's length: FetchMetadata *)
(* of internal/downloader/downloader.go asks two services at once, each in *)
(* a goroutine of its own, and falls back to yt-dlp; handlePrepare ignores *)
(* its error and refuses videos that are too long.                         *)
(*                                                                         *)
(* An answer is a number: of the oEmbed service 1 for a title or a         *)
(* thumbnail and 0 for neither, of the duration service and of yt-dlp the  *)
(* seconds; an error is 0.  The duration service is taken to tell the      *)
(* truth; yt-dlp's dump is searched for the first "duration" in it, which  *)
(* may be that of a part of the video.                                     *)
(***************************************************************************)
EXTENDS Naturals

CONSTANTS Lengths,    \* lengths of videos
          MaxLength   \* cfg.MaxVideoDurationSeconds; 0 for no limit

ASSUME FetchAssumption == Lengths \subseteq Nat \ {0} /\ MaxLength \in Nat

VARIABLES length,     \* of the video asked for
          stage,         \* of the handler
          ctx,        \* httpCtx: "open", "done", or "released" by the deferred cancel
          gone,       \* the client has gone, r.Context() is cancelled
          asker,      \* the two goroutines
          answer,     \* what each was answered
          box,        \* chO and chD, with room for one answer each
          heard,      \* o and dd: what the handler got
          late        \* httpCtx ended while the handler was collecting (history)

fetchVars == <<length, stage, ctx, gone, asker, answer, box, heard, late>>

Services == {"oembed", "duration"}
Decided == {"accepted", "rejected"}

\* "none" stands for no request at all.
FetchIdle == stage = "none" /\ asker = [x \in Services |-> "ended"]

FetchInit == /\ length \in Lengths
             /\ \/ FetchIdle
                \/ stage = "oembed" /\ asker = [x \in Services |-> "asking"]
             /\ ctx = "open" /\ gone = FALSE /\ late = FALSE
             /\ answer = [x \in Services |-> 0]
             /\ box = [x \in Services |-> {}]
             /\ heard = [x \in Services |-> 0]

Answers(x) == IF x = "oembed" THEN {0, 1} ELSE {0, length}

-----------------------------------------------------------------------------
(* The goroutines, fetchOEmbed and fetchDuration *)

\* The service answers, or the request fails by itself.
Answer(x) == /\ asker[x] = "asking" /\ ctx = "open"
             /\ \E r \in Answers(x) : answer' = [answer EXCEPT ![x] = r]
             /\ asker' = [asker EXCEPT ![x] = "sending"]
             /\ UNCHANGED <<length, stage, ctx, gone, box, heard, late>>

\* The context ended: client.Do returns its error.
Cut(x) == /\ asker[x] = "asking" /\ ctx # "open"
          /\ asker' = [asker EXCEPT ![x] = "sending"]
          /\ UNCHANGED <<length, stage, ctx, gone, answer, box, heard, late>>

\* Seeded error: a channel without a buffer.
RoomAtMeeting(x) == stage = x

Room(x) == box[x] = {}

Send(x) == /\ asker[x] = "sending" /\ Room(x)
           /\ box' = [box EXCEPT ![x] = {answer[x]}]
           /\ asker' = [asker EXCEPT ![x] = "ended"]
           /\ UNCHANGED <<length, stage, ctx, gone, answer, heard, late>>

(* The context *)

\* Five seconds have passed.
Deadline == /\ stage \notin Decided \cup {"none"} /\ ctx = "open"
            /\ ctx' = "done" /\ late' = (late \/ stage \in Services)
            /\ UNCHANGED <<length, stage, gone, asker, answer, box, heard>>

\* The client closes its connection; the handler goes on.
Leave == /\ stage \notin Decided \cup {"none"} /\ ~gone
         /\ gone' = TRUE /\ ctx' = "done" /\ late' = (late \/ stage \in Services)
         /\ UNCHANGED <<length, stage, asker, answer, box, heard>>

(* The handler *)

After(x) == IF x = "oembed" THEN "duration" ELSE "choose"

\* Either select: an answer and the end of the context are taken as they come,
\* at random when both are there.
Receive(x) == /\ stage = x
           /\ \E r \in box[x] : heard' = [heard EXCEPT ![x] = r]
           /\ box' = [box EXCEPT ![x] = {}]
           /\ stage' = After(x)
           /\ UNCHANGED <<length, ctx, gone, asker, answer, late>>

\* Seeded error: the handler does not wait.
GiveUpAtOnce(x) == /\ stage = x
                   /\ stage' = After(x)
                   /\ UNCHANGED <<length, ctx, gone, asker, answer, box, heard, late>>

GiveUp(x) == /\ stage = x /\ ctx # "open"
             /\ stage' = After(x)
             /\ UNCHANGED <<length, ctx, gone, asker, answer, box, heard, late>>

\* Seeded error: the limit itself is too long.
TooLongAtLimit(duration) == MaxLength > 0 /\ duration >= MaxLength

TooLong(duration) == MaxLength > 0 /\ duration > MaxLength

\* Seeded error: the context is not cancelled on return.
ReturnOpen(duration) == /\ stage' = IF TooLong(duration) THEN "rejected" ELSE "accepted"
                        /\ UNCHANGED ctx

\* FetchMetadata returns with this duration, and handlePrepare decides.
Return(duration) == /\ stage' = IF TooLong(duration) THEN "rejected" ELSE "accepted"
                    /\ ctx' = "released"

Useful == heard["oembed"] # 0 \/ heard["duration"] > 0

\* Anything useful is returned as it is, a duration or not; otherwise yt-dlp.
Choose == /\ stage = "choose"
          /\ IF Useful THEN Return(heard["duration"]) ELSE stage' = "ytdlp" /\ UNCHANGED ctx
          /\ UNCHANGED <<length, gone, asker, answer, box, heard, late>>

\* yt-dlp ends by itself, with a duration of its dump or none.
YtDlp == /\ stage = "ytdlp" /\ ~gone
         /\ \E duration \in 0 .. length : Return(duration)
         /\ UNCHANGED <<length, gone, asker, answer, box, heard, late>>

\* Seeded error: yt-dlp runs under the request's context alone.
YtDlpKilledWithClient == /\ stage = "ytdlp" /\ gone
                         /\ Return(0)
                         /\ UNCHANGED <<length, gone, asker, answer, box, heard, late>>

\* It is killed: at its timeout, or because the client has gone.
YtDlpKilled == /\ stage = "ytdlp"
               /\ Return(0)
               /\ UNCHANGED <<length, gone, asker, answer, box, heard, late>>

Ask(x) == Answer(x) \/ Cut(x) \/ Send(x)
Collect(x) == Receive(x) \/ GiveUp(x)

FetchNext == \/ \E x \in Services : Ask(x) \/ Collect(x)
             \/ Deadline \/ Leave
             \/ Choose \/ YtDlp \/ YtDlpKilled

\* The deadline comes, the timeout kills; the services and yt-dlp need not
\* answer, and the client may stay.
FetchFairness == /\ \A x \in Services : WF_fetchVars(Cut(x) \/ Send(x)) /\ WF_fetchVars(Collect(x))
                 /\ WF_fetchVars(Deadline) /\ WF_fetchVars(Choose) /\ WF_fetchVars(YtDlpKilled)

FetchSpec == FetchInit /\ [][FetchNext]_fetchVars /\ FetchFairness

-----------------------------------------------------------------------------
FetchTypeOK == /\ length \in Lengths
               /\ stage \in {"none", "choose", "ytdlp"} \cup Services \cup Decided
               /\ ctx \in {"open", "done", "released"}
               /\ ctx = "released" <=> stage \in Decided
               /\ gone \in BOOLEAN /\ late \in BOOLEAN /\ (gone \/ late => ctx # "open")
               /\ asker \in [Services -> {"asking", "sending", "ended"}]
               /\ answer \in [Services -> Nat] /\ heard \in [Services -> Nat]
               /\ box \in [Services -> SUBSET Nat]

\* handlePrepare's limit (api.go:189): no video within the limit is refused;
\* and a longer one is, when the duration service gave its length and the
\* collecting was not cut short, whatever the other service did.
VerdictsSound ==
    /\ stage = "rejected" => length > MaxLength
    /\ stage = "accepted" /\ answer["duration"] = length /\ ~late =>
         MaxLength = 0 \/ length <= MaxLength

\* However the services, the clock and the client behave, FetchMetadata
\* returns and the request is decided.
FetchDecides == stage # "none" ~> stage \in Decided

\* No goroutine is left behind by a handler that gave up on it: each delivers
\* into its channel and ends (downloader.go:63, the buffers of one).
AskersEnd == \A x \in Services : asker[x] # "ended" ~> asker[x] = "ended"
=============================================================================
