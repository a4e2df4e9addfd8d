--------------------------- MODULE RestartProofs ---------------------------
(***************************************************************************)
(* Theorems about Restart.  Every step of Pipeline keeps the invariants    *)
(* that PipelineSafetyProofs proves of it; what is left are the deaths of  *)
(* the process, at any point and with either store.                        *)
(***************************************************************************)
EXTENDS Restart, PipelineSafetyProofs

\* What every death leaves: nobody at work, and a store of the right type.
LEMMA RestartedState ==
  ASSUME TypeOK, NEW found \in [Sessions -> SessionRecord], Restarted(found)
  PROVE  /\ session' \in [Sessions -> SessionRecord]
         /\ \A i \in Sessions : session'[i] = found[i] \/ session'[i] = Absent
         /\ asset' \in [Assets -> AssetStates]
         /\ \A a \in Assets : asset'[a] = "downloaded" => asset[a] = "downloaded"
         /\ variant' \in [Variants -> BOOLEAN]
         /\ \A v \in Variants : variant'[v] => variant[v]
         /\ dl' = [j \in DlJobs |-> FreeDl]
         /\ cv' = [j \in CvJobs |-> FreeCv]
         /\ req' = [c \in Clients |-> Idle]
         /\ UNCHANGED <<known, deleted>>
<1>1. /\ session' = found \/ session' = [i \in Sessions |-> Absent]
      /\ dl' = [j \in DlJobs |-> FreeDl]
      /\ cv' = [j \in CvJobs |-> FreeCv]
      /\ req' = [c \in Clients |-> Idle]
      /\ UNCHANGED <<known, deleted>>
  BY DEF Restarted
<1>2. /\ session' \in [Sessions -> SessionRecord]
      /\ \A i \in Sessions : session'[i] = found[i] \/ session'[i] = Absent
  BY <1>1, RecordTypes
<1>3. /\ asset' \in [Assets -> AssetStates]
      /\ \A a \in Assets : asset'[a] = "downloaded" => asset[a] = "downloaded"
  BY DEF Restarted, TypeOK, StoreOK, AssetStates
<1>4. /\ variant' \in [Variants -> BOOLEAN]
      /\ \A v \in Variants : variant'[v] => variant[v]
  BY DEF Restarted, TypeOK, StoreOK
<1> QED BY <1>1, <1>2, <1>3, <1>4

\* Every death is a restart from a store and files of the right types, in
\* which a session holds its old record or one that was earned by then.
LEMMA DeathFacts ==
  ASSUME TypeOK, Deserved, Die
  PROVE  \E found \in [Sessions -> SessionRecord] :
           /\ Restarted(found)
           /\ FilesOK'
           /\ fetched \subseteq fetched' /\ fetched' \subseteq Assets
           /\ encoded \subseteq encoded' /\ encoded' \subseteq Variants
           /\ \A i \in Sessions : found[i] = session[i]
                                  \/ EarnedBy(i, found[i], fetched', encoded')
<1>0. /\ session \in [Sessions -> SessionRecord] /\ FilesOK
      /\ dl \in [DlJobs -> DlJob] /\ cv \in [CvJobs -> CvJob]
      /\ fetched \subseteq Assets /\ encoded \subseteq Variants
  BY DEF TypeOK, StoreOK, DlOK, CvOK, HistoryOK
<1>1. CASE Crash
  BY <1>0, <1>1 DEF Crash, files, FilesOK
<1>2. ASSUME NEW j \in DlJobs, CrashInDlSucceed(j) PROVE
        \E found \in [Sessions -> SessionRecord] :
           /\ Restarted(found)
           /\ FilesOK'
           /\ fetched \subseteq fetched' /\ fetched' \subseteq Assets
           /\ encoded \subseteq encoded' /\ encoded' \subseteq Variants
           /\ \A i \in Sessions : found[i] = session[i]
                                  \/ EarnedBy(i, found[i], fetched', encoded')
  <2> DEFINE i == dl[j].sess
             s == [dl[j].s EXCEPT !.src = TRUE, !.state = "downloaded"]
  <2>1. i \in Sessions /\ AssetOf[i] \in Assets /\ AssetOfDl(j) = AssetOf[i]
    BY <1>2, PipelineAssumption DEF CrashInDlSucceed, TypeOK, DlOK, AssetOfDl
  <2>2. s \in SessionRecord /\ dl[j].s \in SessionRecord
    BY AllEarned DEF SessionRecord, States
  <2>3. /\ stream' = [stream EXCEPT ![AssetOf[i]] = TRUE]
        /\ fetched' = fetched \cup {AssetOf[i]}
        /\ UNCHANGED <<output, encoded>>
    BY <1>2, <2>1 DEF CrashInDlSucceed
  <2>4. EarnedBy(i, s, fetched', encoded')
    <3>1. EarnedBy(i, dl[j].s, fetched, encoded)
      BY <2>1, AllEarned
    <3>2. s.src => AssetOf[i] \in fetched'
      BY <2>3
    <3>3. s.out = dl[j].s.out
      BY <2>2 DEF SessionRecord
    <3> QED BY <2>3, <3>1, <3>2, <3>3 DEF EarnedBy
  <2> HIDE DEF s
  <2>5. Updated(i, s) \in [Sessions -> SessionRecord]
        /\ \A k \in Sessions : Updated(i, s)[k] = session[k]
                               \/ EarnedBy(k, Updated(i, s)[k], fetched', encoded')
    BY <1>0, <2>1, <2>2, <2>4 DEF Updated
  <2>6. Restarted(Updated(i, s)) \/ Restarted(session)
    BY <1>2 DEF CrashInDlSucceed, s
  <2>7. FilesOK'
    BY <1>0, <2>1, <2>3 DEF FilesOK
  <2> QED BY <1>0, <2>1, <2>3, <2>5, <2>6, <2>7
<1>3. ASSUME NEW j \in DlJobs, CrashInDlGiveUp(j) PROVE
        \E found \in [Sessions -> SessionRecord] :
           /\ Restarted(found)
           /\ FilesOK'
           /\ fetched \subseteq fetched' /\ fetched' \subseteq Assets
           /\ encoded \subseteq encoded' /\ encoded' \subseteq Variants
           /\ \A i \in Sessions : found[i] = session[i]
                                  \/ EarnedBy(i, found[i], fetched', encoded')
  <2> DEFINE i == dl[j].sess
             s == [dl[j].s EXCEPT !.state = "failed"]
  <2>1. i \in Sessions
    BY <1>3 DEF CrashInDlGiveUp, TypeOK, DlOK
  <2>2. s \in SessionRecord /\ dl[j].s \in SessionRecord
    BY AllEarned DEF SessionRecord, States
  <2>3. UNCHANGED <<files, fetched, encoded>>
    BY <1>3 DEF CrashInDlGiveUp
  <2>4. EarnedBy(i, s, fetched, encoded)
    BY <2>1, <2>2, AllEarned, EarnedStays
  <2> HIDE DEF s
  <2>5. Updated(i, s) \in [Sessions -> SessionRecord]
        /\ \A k \in Sessions : Updated(i, s)[k] = session[k]
                               \/ EarnedBy(k, Updated(i, s)[k], fetched, encoded)
    BY <1>0, <2>1, <2>2, <2>4 DEF Updated
  <2>6. Restarted(Updated(i, s))
    BY <1>3 DEF CrashInDlGiveUp, s
  <2> QED BY <1>0, <2>3, <2>5, <2>6 DEF FilesOK, files
<1>4. ASSUME NEW j \in CvJobs, CrashInCvSucceed(j) PROVE
        \E found \in [Sessions -> SessionRecord] :
           /\ Restarted(found)
           /\ FilesOK'
           /\ fetched \subseteq fetched' /\ fetched' \subseteq Assets
           /\ encoded \subseteq encoded' /\ encoded' \subseteq Variants
           /\ \A i \in Sessions : found[i] = session[i]
                                  \/ EarnedBy(i, found[i], fetched', encoded')
  <2> DEFINE i == cv[j].sess
             v == Path(j)
             s == [cv[j].s EXCEPT !.out = cv[j].s.cut, !.state = "completed"]
  <2>1. i \in Sessions /\ cv[j].s.cut \in Cuts /\ cv[j].cut \in Cuts
    BY <1>4 DEF CrashInCvSucceed, Encoding, TypeOK, CvOK
  <2>2. v \in Variants /\ v = Variant(i, cv[j].s.cut)
    BY <2>1, VariantType DEF Path
  <2>3. s \in SessionRecord /\ cv[j].s \in SessionRecord
    BY <1>0, <2>1 DEF CvJob, SessionRecord, States
  <2>4. /\ \E left \in {"missing", "partial"} \cup Cuts : output' = [output EXCEPT ![v] = left]
        /\ encoded' = encoded \cup {v}
        /\ UNCHANGED <<stream, fetched>>
    <3>1. Left(j) \subseteq {"missing", "partial"} \cup Cuts
      BY <1>0, <2>1, <2>2 DEF Left, FilesOK
    <3> QED BY <1>4, <3>1 DEF CrashInCvSucceed
  <2>5. EarnedBy(i, s, fetched', encoded')
    <3>1. EarnedBy(i, cv[j].s, fetched, encoded)
      BY <2>1, AllEarned
    <3>2. s.src = cv[j].s.src /\ s.out = cv[j].s.cut
      BY <2>3 DEF SessionRecord
    <3> QED BY <2>2, <2>4, <3>1, <3>2 DEF EarnedBy
  <2> HIDE DEF s, v
  <2>6. Updated(i, s) \in [Sessions -> SessionRecord]
        /\ \A k \in Sessions : Updated(i, s)[k] = session[k]
                               \/ EarnedBy(k, Updated(i, s)[k], fetched', encoded')
    BY <1>0, <2>1, <2>3, <2>5 DEF Updated
  <2>7. Restarted(Updated(i, s)) \/ Restarted(session)
    BY <1>4 DEF CrashInCvSucceed, s
  <2>8. FilesOK'
    BY <1>0, <2>1, <2>2, <2>4 DEF FilesOK
  <2> QED BY <1>0, <2>2, <2>4, <2>6, <2>7, <2>8
<1> QED BY <1>1, <1>2, <1>3, <1>4 DEF Die

\* A death keeps the types and leaves nothing premature.
LEMMA DeathKeeps ==
  ASSUME TypeOK, Deserved, Die
  PROVE  TypeOK' /\ Deserved'
<1>1. PICK found \in [Sessions -> SessionRecord] :
           /\ Restarted(found)
           /\ FilesOK'
           /\ fetched \subseteq fetched' /\ fetched' \subseteq Assets
           /\ encoded \subseteq encoded' /\ encoded' \subseteq Variants
           /\ \A i \in Sessions : found[i] = session[i]
                                  \/ EarnedBy(i, found[i], fetched', encoded')
  BY DeathFacts
<1>2. /\ session' \in [Sessions -> SessionRecord]
      /\ \A i \in Sessions : session'[i] = found[i] \/ session'[i] = Absent
      /\ asset' \in [Assets -> AssetStates]
      /\ \A a \in Assets : asset'[a] = "downloaded" => asset[a] = "downloaded"
      /\ variant' \in [Variants -> BOOLEAN]
      /\ \A v \in Variants : variant'[v] => variant[v]
      /\ dl' = [j \in DlJobs |-> FreeDl]
      /\ cv' = [j \in CvJobs |-> FreeCv]
      /\ req' = [c \in Clients |-> Idle]
      /\ UNCHANGED <<known, deleted>>
  BY <1>1, RestartedState
<1>3. TypeOK'
  <2>1. StoreOK' /\ FilesOK' /\ HistoryOK'
    BY <1>1, <1>2 DEF TypeOK, StoreOK, HistoryOK
  <2>2. FreeDl \in DlJob /\ FreeDl.at = "free" /\ FreeDl.attempts = 0
    BY RecordTypes DEF FreeDl
  <2>3. FreeCv \in CvJob /\ FreeCv.at = "free" /\ FreeCv.attempts = 0
    BY RecordTypes DEF FreeCv
  <2>4. Idle \in Request /\ Idle.pc = "idle"
    BY RecordTypes DEF Idle
  <2>5. DlOK'
    BY <1>2, <2>2 DEF DlOK
  <2>6. CvOK'
    BY <1>2, <2>3 DEF CvOK, Encoding
  <2>7. ReqOK'
    BY <1>2, <2>4 DEF ReqOK
  <2> QED BY <2>1, <2>5, <2>6, <2>7 DEF TypeOK
<1>5. NothingPremature'
  <2>1. \A i \in Sessions : EarnedBy(i, session'[i], fetched', encoded')
    <3> TAKE i \in Sessions
    <3>1. EarnedBy(i, session[i], fetched, encoded) /\ session[i] \in SessionRecord
      BY AllEarned DEF TypeOK, StoreOK
    <3>2. EarnedBy(i, session[i], fetched', encoded')
      BY <1>1, <3>1, EarnedStays
    <3>3. session'[i] = session[i] \/ session'[i] = Absent
          \/ EarnedBy(i, session'[i], fetched', encoded')
      BY <1>1, <1>2
    <3> QED BY <3>2, <3>3, AbsentEarned
  <2>2. \A a \in Assets : asset'[a] = "downloaded" => a \in fetched'
    BY <1>1, <1>2 DEF Deserved, NothingPremature
  <2>3. \A v \in Variants : variant'[v] => v \in encoded'
    BY <1>1, <1>2 DEF Deserved, NothingPremature
  <2> QED BY <2>1, <2>2, <2>3 DEF NothingPremature, Earned, EarnedBy
<1>6. CopiesEarned'
  <2>1. FreeDl.s = Absent /\ FreeCv.s = Absent /\ Idle.s = Absent
    BY DEF FreeDl, FreeCv, Idle
  <2>2. ~Absent.src /\ Absent.out = NoCut
    BY DEF Absent
  <2> QED BY <1>2, <2>1, <2>2 DEF CopiesEarned, Earned
<1> QED BY <1>3, <1>5, <1>6 DEF Deserved

\* What holds through any number of restarts.
Kept == TypeOK /\ Deserved

LEMMA KeptThroughRestarts == RestartSafeSpec => []Kept
<1>1. Init => Kept
  BY TypeInit, DeservedInit DEF Kept
<1>2. Kept /\ [RestartNext]_vars => Kept'
  <2> SUFFICES ASSUME Kept, [RestartNext]_vars PROVE Kept'
    OBVIOUS
  <2>1. CASE [Next]_vars
    BY <2>1, TypeStep, DeservedStep DEF Kept
  <2>2. CASE Die
    BY <2>2, DeathKeeps DEF Kept
  <2> QED BY <2>1, <2>2 DEF RestartNext
<1> QED BY <1>1, <1>2, PTL DEF RestartSafeSpec

\* The types hold wherever the process dies, and however often.
THEOREM RestartTypeCorrect == RestartSafeSpec => []TypeOK
<1>1. Kept => TypeOK
  BY DEF Kept
<1> QED BY <1>1, KeptThroughRestarts, PTL

\* Wherever the process dies, between the calls that tell the store of an
\* output too, the store it leaves announces nothing that was not made.
THEOREM NothingPrematureAfterRestart == RestartSafeSpec => []NothingPremature
<1>1. Kept => NothingPremature
  BY DEF Kept, Deserved
<1> QED BY <1>1, KeptThroughRestarts, PTL

\* A death leaves nobody at work.
LEMMA DeathEmpties ==
  ASSUME Die
  PROVE  /\ dl' = [j \in DlJobs |-> FreeDl] /\ cv' = [j \in CvJobs |-> FreeCv]
         /\ req' = [c \in Clients |-> Idle] /\ deleted' = deleted
BY DEF Die, Crash, CrashInDlSucceed, CrashInDlGiveUp, CrashInCvSucceed, Restarted

\* A death ends every download job at once; between deaths they only move
\* forward.
THEOREM DownloadsMoveForwardAfterRestart == RestartSafeSpec => DownloadsProgress
<1>1. ASSUME TypeOK, Next PROVE \A j \in DlJobs : Advances(j)
  BY <1>1, DownloadStep
<1>2. ASSUME Die PROVE \A j \in DlJobs : dl'[j].at = "free"
  BY <1>2, DeathEmpties DEF FreeDl
<1>3. TypeOK /\ [RestartNext]_vars => [\A j \in DlJobs : Advances(j)]_vars
  BY <1>1, <1>2 DEF RestartNext, Advances
<1> QED BY <1>3, RestartTypeCorrect, PTL DEF RestartSafeSpec, DownloadsProgress

\* With the memory store no deleted session returns through a death either:
\* the store is empty after it.
THEOREM MemoryForgetsAfterRestart == ~Redis => (RestartSafeSpec => []NoResurrection)
<1> SUFFICES ASSUME ~Redis PROVE RestartSafeSpec => []NoResurrection
  OBVIOUS
<1>1. Init => NoResurrection
  BY DEF Init, NoResurrection
<1>2. ASSUME TypeOK, Die PROVE NoResurrection'
  <2>1. session' = [i \in Sessions |-> Absent] /\ deleted' = deleted
    BY <1>2 DEF Die, Crash, CrashInDlSucceed, CrashInDlGiveUp, CrashInCvSucceed, Restarted
  <2> QED BY <1>2, <2>1 DEF NoResurrection, Exists, Absent, TypeOK, HistoryOK
<1>3. TypeOK /\ NoResurrection /\ [RestartNext]_vars => NoResurrection'
  BY <1>2, ForgottenStep DEF RestartNext
<1> QED BY <1>1, <1>3, RestartTypeCorrect, PTL DEF RestartSafeSpec

\* Deaths only help the work of deleted sessions to its end.
THEOREM DeletedWorkDrainsAfterRestart == RestartSafeSpec => DrainsForward
<1> DEFINE Drain == ~Redis => \A i \in deleted : ReqDrains(i) /\ CvDrains(i) /\ DlDrains(i)
<1>1. ASSUME TypeOK, ~Redis => NoResurrection, Next PROVE Drain
  BY <1>1, DrainStep DEF NoResurrection
<1>2. ASSUME TypeOK, Die PROVE Drain
  <2>1. \A i \in deleted : Idle.sess # i /\ FreeCv.sess # i /\ FreeDl.sess # i
    BY <1>2, PipelineAssumption DEF TypeOK, HistoryOK, Idle, FreeCv, FreeDl
  <2> QED BY <1>2, <2>1, DeathEmpties DEF ReqDrains, CvDrains, DlDrains
<1>3. TypeOK /\ (~Redis => NoResurrection) /\ [RestartNext]_vars => [Drain]_vars
  BY <1>1, <1>2 DEF RestartNext
<1>4. CASE Redis
  <2>1. [RestartNext]_vars => [Drain]_vars
    BY <1>4
  <2> QED BY <2>1, PTL DEF RestartSafeSpec, DrainsForward
<1>5. CASE ~Redis
  <2>1. RestartSafeSpec => []NoResurrection
    BY <1>5, MemoryForgetsAfterRestart
  <2> QED BY <1>3, <2>1, RestartTypeCorrect, PTL DEF RestartSafeSpec, DrainsForward
<1> QED BY <1>4, <1>5

\* A restart begins with empty queues and idle workers, within the limits.
THEOREM LimitsKeptAfterRestart == RestartSafeSpec => []QueuesBounded
<1>1. Init => QueuesBounded
  BY LimitsInit DEF Init
<1>2. ASSUME Die PROVE QueuesBounded'
  <2>1. /\ DlAt({"queued"})' = {} /\ DlAt(InWorker)' = {}
        /\ CvAt({"queued"})' = {} /\ CvAt(InWorker)' = {}
    BY <1>2, DeathEmpties DEF FreeDl, FreeCv, InWorker, Encoding, DlAt, CvAt
  <2> QED BY <2>1, FS_EmptySet, PipelineAssumption DEF QueuesBounded
<1>3. TypeOK /\ QueuesBounded /\ [RestartNext]_vars => QueuesBounded'
  BY <1>2, LimitsStep DEF RestartNext
<1> QED BY <1>1, <1>3, RestartTypeCorrect, PTL DEF RestartSafeSpec
=============================================================================
