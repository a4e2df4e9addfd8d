----------------------------- MODULE StatusFlow -----------------------------
(***************************************************************************)
(* What clients see of a session record: the answer of GET /status         *)
(* (handleStatus and buildFlow of internal/handlers/api.go), once          *)
(* StatusRead, StatusStat and StatusExpire of Pipeline had their chance,   *)
(* is one of three states, a download link, and a list of steps in which   *)
(* the finished ones and the current one are marked; and GET /download     *)
(* serves a file.  Then what clients are promised of it.                   *)
(***************************************************************************)
EXTENDS Pipeline, Sequences

Steps == <<"preparing", "fetching_metadata", "created", "downloading", "downloaded",
           "Prossccing", "converting", "completed", "failed">>

Terminal == {"completed", "failed"}

Status(s) == IF s.state \in Terminal THEN s.state ELSE "preparing"

\* download_url is given.
Link(s) == s.state = "completed" /\ s.out # NoCut

\* GET /download serves the session's output, in whatever state the session is.
Served(i) == session[i].out # NoCut /\ output[Variant(i, session[i].out)] # "missing"

\* currentName: the queue is hidden, and so is that a download is over.
Current(state) == IF state \in {"downloaded", "queued"} THEN "Prossccing" ELSE state

\* The loops have met the current step among the first k.
Reached(k, current) == \E m \in 1 .. k : Steps[m] = current

\* The first loop: done up to the current step, nothing after it.
Marked(current) ==
    [k \in 1 .. Len(Steps) |->
       [name |-> Steps[k],
        done |-> ~Reached(k, current),
        current |-> Steps[k] = current /\ ~Reached(k - 1, current)]]

\* The second loop, which ends at the terminal step.
Close(flow, current) ==
    [k \in 1 .. Len(Steps) |->
       IF Reached(k - 1, current) THEN flow[k]
       ELSE [name |-> flow[k].name, done |-> TRUE, current |-> FALSE]]

Flow(state) == IF Current(state) \in Terminal
               THEN Close(Marked(Current(state)), Current(state))
               ELSE Marked(Current(state))

\* buildFlow depends on the state alone.
Flows == [state \in States \ {"absent"} |-> Flow(state)]

-----------------------------------------------------------------------------
(* What the documentation says and the code does not do *)

\* No request and no conversion of session i is under way.
AtRest(i) == /\ \A c \in Clients : req[c].sess # i
             /\ \A j \in CvJobs : cv[j].sess # i

\* developer-docs.md:14, "Only terminal states surface as-is: completed or
\* failed": a completed session whose output is served, and for which no
\* request and no conversion is under way, stays completed.
CompletedIsTerminal ==
    [][\A i \in Sessions :
         Status(session[i]) = "completed" /\ Served(i) /\ AtRest(i)
         => session'[i].state \in {"completed", "absent"}]_vars

\* developer-docs.md:75, "If /convert returns 202 but the job later fails,
\* /status will show status=failed", and developer-docs.md:10, "When
\* status=completed, use download_url to download": what is left of a session
\* when its requests and conversions are over is no promise that nobody keeps,
\* neither "preparing" on account of a conversion nor "completed" without a
\* link.
AcceptedEnds ==
    \A i \in {k \in Sessions : Exists(k) /\ AtRest(k)} :
        /\ session[i].state \notin {"queued", "converting"}
        /\ Status(session[i]) = "completed" => Link(session[i])
=============================================================================
