------------------------------ MODULE Restart ------------------------------
(***************************************************************************)
(* Pipeline with a server process that dies and starts again (main.go,     *)
(* internal/server/server.go, and NewAPI of internal/handlers/api.go).     *)
(* Nothing is recovered on purpose: queues, timers, workers and handlers   *)
(* are gone, yt-dlp and ffmpeg die with the container, the files stay as   *)
(* they are, and the store is what is left of it.  Redis keeps everything, *)
(* "preparing" marks and sessions in the middle of their work included;    *)
(* the memory store is empty.                                              *)
(*                                                                         *)
(* Where the code tells the store in two calls of something that was done, *)
(* the process may die between them.                                       *)
(***************************************************************************)
EXTENDS Pipeline

\* NewAPI: the store as it is found, and empty queues.
Restarted(found) ==
    /\ session' = IF Redis THEN found ELSE [i \in Sessions |-> Absent]
    /\ asset' = IF Redis THEN asset ELSE [a \in Assets |-> "none"]
    /\ variant' = IF Redis THEN variant ELSE [v \in Variants |-> FALSE]
    /\ dl' = [j \in DlJobs |-> FreeDl]
    /\ cv' = [j \in CvJobs |-> FreeCv]
    /\ req' = [c \in Clients |-> Idle]
    /\ UNCHANGED <<known, deleted>>

Crash == Restarted(session) /\ UNCHANGED <<files, fetched, encoded>>

\* In handleDownload, with the stream in place: the session is told or not,
\* the asset cache is not.
CrashInDlSucceed(j) ==
    /\ dl[j].at = "running"
    /\ \E told \in BOOLEAN :
         Restarted(IF told
                   THEN Updated(dl[j].sess, [dl[j].s EXCEPT !.src = TRUE, !.state = "downloaded"])
                   ELSE session)
    /\ stream' = [stream EXCEPT ![AssetOfDl(j)] = TRUE]
    /\ fetched' = fetched \cup {AssetOfDl(j)}
    /\ UNCHANGED <<output, encoded>>

\* The session has failed, the asset has not.
CrashInDlGiveUp(j) ==
    /\ dl[j].at = "running" /\ dl[j].attempts + 1 >= MaxJobRetries
    /\ Restarted(Updated(dl[j].sess, [dl[j].s EXCEPT !.state = "failed"]))
    /\ UNCHANGED <<files, fetched, encoded>>

\* In handleConvert, with the output complete: the session is told or not, the
\* variant cache is not.
CrashInCvSucceed(j) ==
    LET v == Path(j)
    IN  /\ cv[j].at \in Encoding
        /\ \E told \in BOOLEAN :
             Restarted(IF told
                       THEN Updated(cv[j].sess,
                                    [cv[j].s EXCEPT !.out = cv[j].s.cut, !.state = "completed"])
                       ELSE session)
        /\ \E left \in Left(j) : output' = [output EXCEPT ![v] = left]
        /\ encoded' = encoded \cup {v}
        /\ UNCHANGED <<stream, fetched>>

Die == \/ Crash
       \/ \E j \in DlJobs : CrashInDlSucceed(j) \/ CrashInDlGiveUp(j)
       \/ \E j \in CvJobs : CrashInCvSucceed(j)

RestartNext == Next \/ Die

RestartSafeSpec == Init /\ [][RestartNext]_vars

\* The same while nobody deletes a session.
RestartSpec == Init /\ [][Work \/ Sweep \/ KeysExpire \/ Die]_vars /\ Fairness

-----------------------------------------------------------------------------
\* The process lives in the end.
StaysUp == <>[][~Die]_vars

\* A restart strands sessions, marks without a download job, outputs without a
\* mapping and streams without an entry, but nobody is locked out by them: a
\* conversion asked for afterwards settles once the tools stop failing,
\* whatever the store was left with by any number of deaths, and whenever keys
\* expire and files go.
SettlesAfterRestart ==
    ToolsRecover /\ FilesStay /\ ClientsRest /\ NothingRefused /\ StaysUp => ConvertJobEnds
=============================================================================
