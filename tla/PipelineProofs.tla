--------------------------- MODULE PipelineProofs ---------------------------
(***************************************************************************)
(* Proofs about Pipeline, for any number of sessions, videos, cuts, jobs   *)
(* and handlers, any queue capacity, pool size and retry limit.            *)
(***************************************************************************)
EXTENDS Pipeline, TLAPS

\* Whatever the kind of store, UpdateSession leaves a table of sessions.
LEMMA UpdatedType ==
  ASSUME StoreOK, NEW i \in Sessions, NEW rec \in SessionRecord
  PROVE  Updated(i, rec) \in [Sessions -> SessionRecord]
BY DEF StoreOK, Updated

LEMMA RecordTypes ==
  /\ Absent \in SessionRecord
  /\ FreeDl \in DlJob /\ FreeCv \in CvJob /\ Idle \in Request
<1>1. Absent \in SessionRecord
  BY DEF Absent, SessionRecord, States
<1> QED BY <1>1 DEF FreeDl, DlJob, FreeCv, CvJob, Idle, Request

\* Fields of records.
LEMMA RecordFields ==
  /\ \A s \in SessionRecord :
       /\ s.state \in States /\ s.src \in BOOLEAN
       /\ s.cut \in Cuts \cup {NoCut} /\ s.out \in Cuts \cup {NoCut}
       /\ \A x \in States : [s EXCEPT !.state = x] \in SessionRecord
       /\ \A x \in BOOLEAN : [s EXCEPT !.src = x] \in SessionRecord
       /\ \A x \in Cuts \cup {NoCut} : [s EXCEPT !.cut = x] \in SessionRecord
       /\ \A x \in Cuts \cup {NoCut} : [s EXCEPT !.out = x] \in SessionRecord
BY DEF SessionRecord

LEMMA VariantType ==
  ASSUME NEW i \in Sessions, NEW c \in Cuts PROVE Variant(i, c) \in Variants
BY PipelineAssumption DEF Variant, Variants

\* MarkAndSubmit leaves asset states and download jobs well typed.
LEMMA MarkAndSubmitType ==
  ASSUME StoreOK, DlOK, NEW i \in Sessions, MarkAndSubmit(i)
  PROVE  asset' \in [Assets -> AssetStates] /\ DlOK'
<1>1. asset' \in [Assets -> AssetStates]
  BY DEF MarkAndSubmit, StoreOK, AssetStates
<1>2. DlOK'
  <2>1. CASE DlFull
    BY <2>1 DEF MarkAndSubmit, DlOK
  <2>2. CASE ~DlFull
    <3> DEFINE new == [FreeDl EXCEPT !.at = "queued", !.sess = i]
    <3>1. PICK j \in DlJobs : dl' = [dl EXCEPT ![j] = new]
      BY <2>2 DEF MarkAndSubmit, DlAt
    <3>2. new \in DlJob /\ new.sess \in Sessions /\ new.attempts = 0
      BY RecordTypes DEF FreeDl, DlJob
    <3> HIDE DEF new
    <3> QED BY <3>1, <3>2 DEF DlOK
  <2> QED BY <2>1, <2>2
<1> QED BY <1>1, <1>2

-----------------------------------------------------------------------------
\* A handler goes on, or is done.
LEMMA NextAskType ==
  ASSUME ReqOK, NEW c \in Clients, NEW r \in Request, req' = [req EXCEPT ![c] = r],
         r.pc # "idle" => r.sess \in Sessions,
         r.pc \in {"lookup", "download", "convert", "final"} => r.s.cut \in Cuts,
         r.pc \in {"poll", "expire"} => r.s.out \in Cuts
  PROVE  ReqOK'
BY DEF ReqOK

LEMMA AnsweredType ==
  ASSUME ReqOK, NEW c \in Clients, req' = [req EXCEPT ![c] = Idle]
  PROVE  ReqOK'
<1>1. Idle \in Request /\ Idle.pc = "idle"
  BY RecordTypes DEF Idle
<1> QED BY <1>1, NextAskType

\* Handlers keep the types.
LEMMA HandlersType ==
  ASSUME TypeOK, NEW c \in Clients, Ask(c) \/ Handler(c)
  PROVE  TypeOK'
<1> USE DEF TypeOK
<1>0. /\ req[c] \in Request /\ req[c].s \in SessionRecord
      /\ req[c].pc # "idle" => req[c].sess \in Sessions
      /\ req[c].pc \in {"lookup", "download", "convert", "final"} => req[c].s.cut \in Cuts
      /\ req[c].pc \in {"poll", "expire"} => req[c].s.out \in Cuts
  BY DEF ReqOK, Request
<1>1. ASSUME NEW i \in Sessions, Prepare(c, i) PROVE TypeOK'
  <2> DEFINE new == [Absent EXCEPT !.state = "created"]
             asked == [Idle EXCEPT !.pc = "prepare", !.sess = i]
  <2>1. new \in SessionRecord
    BY DEF Absent, SessionRecord, States
  <2>2. asked \in Request /\ asked.pc = "prepare" /\ asked.sess = i
    BY RecordTypes DEF Idle, Request
  <2>3. /\ session' = [session EXCEPT ![i] = new]
        /\ req' = [req EXCEPT ![c] = asked] \/ req' = req
        /\ known' \subseteq Sessions
        /\ UNCHANGED <<asset, variant, files, jobs, history>>
    BY <1>1 DEF Prepare, HistoryOK
  <2> HIDE DEF new, asked
  <2>4. StoreOK'
    BY <2>1, <2>3 DEF StoreOK
  <2>5. ReqOK'
    BY <2>2, <2>3 DEF ReqOK
  <2> QED BY <2>3, <2>4, <2>5 DEF FilesOK, DlOK, CvOK, HistoryOK, files, jobs, history
<1>2. ASSUME ConvertReuse(c) PROVE TypeOK'
  <2> DEFINE new == [req[c].s EXCEPT !.out = req[c].s.cut, !.state = "completed"]
  <2>1. req[c].sess \in Sessions /\ req[c].s.cut \in Cuts
    BY <1>0, <1>2 DEF ConvertReuse
  <2>2. new \in SessionRecord /\ session' = Updated(req[c].sess, new)
    BY <1>0, <1>2, <2>1 DEF ConvertReuse, SessionRecord, States
  <2> HIDE DEF new
  <2>3. StoreOK' /\ ReqOK'
    BY <1>2, <2>1, <2>2, UpdatedType, AnsweredType DEF ConvertReuse, StoreOK
  <2> QED BY <1>2, <2>3 DEF ConvertReuse, FilesOK, DlOK, CvOK, HistoryOK, files, jobs, history
<1>3. ASSUME ConvertLookup(c) PROVE TypeOK'
  <2> DEFINE i == req[c].sess
             a == AssetOf[i]
             v == Variant(i, req[c].s.cut)
             old == [req[c].s EXCEPT !.out = IF variant[v] THEN NoCut ELSE @]
             ready == stream[a] /\ (old.src \/ asset[a] = "downloaded")
             new == [old EXCEPT !.src = ready]
             final == [new EXCEPT !.state = IF ready THEN "converting" ELSE "queued"]
             pc == IF ~ready /\ asset'[a] \in {"none", "failed", "expired"}
                   THEN "download" ELSE "convert"
             asked == [req[c] EXCEPT !.pc = pc, !.s = final]
  <2>0. i \in Sessions /\ a \in Assets /\ req[c].s.cut \in Cuts
    BY <1>0, <1>3, PipelineAssumption DEF ConvertLookup
  <2>1. old \in SessionRecord /\ old.cut = req[c].s.cut
    BY <1>0 DEF SessionRecord
  <2>2. ready \in BOOLEAN
    BY <2>0, <2>1 DEF StoreOK, FilesOK, SessionRecord
  <2>3. new \in SessionRecord /\ new.cut = req[c].s.cut
    <3> HIDE DEF old, ready
    <3> QED BY <2>1, <2>2 DEF SessionRecord
  <2>4. final \in SessionRecord /\ final.cut = req[c].s.cut
    <3> HIDE DEF new, ready
    <3> QED BY <2>3 DEF SessionRecord, States
  <2>5. asked \in Request /\ asked.pc \in {"download", "convert"} /\ asked.sess = i
        /\ asked.s.cut \in Cuts
    <3> HIDE DEF final, ready
    <3>1. pc \in {"download", "convert"}
      OBVIOUS
    <3> HIDE DEF pc
    <3> QED BY <1>0, <2>0, <2>4, <3>1 DEF Request
  <2>6. /\ variant' = [variant EXCEPT ![v] = FALSE]
        /\ session' = Updated(i, IF Redis THEN old ELSE new)
        /\ asset' = asset \/ asset' = [asset EXCEPT ![a] = "expired"]
        /\ UNCHANGED <<files, jobs, known, history>>
    BY <1>3 DEF ConvertLookup
  <2>7. req' = [req EXCEPT ![c] = asked]
    <3>1. req' = [req EXCEPT ![c].pc = pc, ![c].s = final]
      BY <1>3, Zenon DEF ConvertLookup
    <3> HIDE DEF final, pc
    <3> QED BY <3>1
  <2> HIDE DEF asked, new, old, final, ready, i
  <2>8. StoreOK'
    BY <2>0, <2>1, <2>3, <2>6, UpdatedType DEF StoreOK, AssetStates
  <2>9. ReqOK'
    BY <2>0, <2>5, <2>7, NextAskType
  <2> QED BY <2>6, <2>8, <2>9 DEF FilesOK, DlOK, CvOK, HistoryOK, files, jobs, history
<1>4. ASSUME PrepareSubmit(c) PROVE TypeOK'
  <2>1. req[c].sess \in Sessions
    BY <1>4 DEF PrepareSubmit, ReqOK
  <2>2. asset' \in [Assets -> AssetStates] /\ DlOK'
    BY <1>4, <2>1, MarkAndSubmitType DEF PrepareSubmit
  <2>3. ReqOK' /\ known' \subseteq Sessions
    BY <1>4, <2>1, RecordTypes DEF PrepareSubmit, ReqOK, Idle, HistoryOK
  <2> QED BY <1>4, <2>2, <2>3 DEF PrepareSubmit, StoreOK, FilesOK, CvOK, HistoryOK, files, history
<1>5. ASSUME ConvertEnsureDownload(c) PROVE TypeOK'
  <2>1. req[c].sess \in Sessions /\ req[c].s.cut \in Cuts
    BY <1>5 DEF ConvertEnsureDownload, ReqOK
  <2>2. asset' \in [Assets -> AssetStates] /\ DlOK'
    BY <1>5, <2>1, MarkAndSubmitType DEF ConvertEnsureDownload
  <2>3. ReqOK'
    BY <1>5, <2>1, RecordTypes DEF ConvertEnsureDownload, ReqOK, Idle, Request
  <2> QED BY <1>5, <2>2, <2>3
          DEF ConvertEnsureDownload, StoreOK, FilesOK, CvOK, HistoryOK, files, history
<1>6. ASSUME ConvertSubmit(c) PROVE TypeOK'
  <2>1. req[c].sess \in Sessions /\ req[c].s.cut \in Cuts
    BY <1>6 DEF ConvertSubmit, ReqOK
  <2>2. ReqOK'
    BY <1>6, <2>1, RecordTypes DEF ConvertSubmit, ReqOK, Idle, Request
  <2>3. CvOK'
    <3> DEFINE new == [FreeCv EXCEPT !.at = "queued", !.sess = req[c].sess, !.cut = req[c].s.cut]
    <3>1. new \in CvJob /\ new.at = "queued" /\ new.attempts = 0
          /\ new.sess \in Sessions /\ new.cut \in Cuts
      BY <2>1, RecordTypes DEF FreeCv, CvJob
    <3>2. cv' = cv \/ \E j \in CvJobs : cv' = [cv EXCEPT ![j] = new]
      BY <1>6 DEF ConvertSubmit, CvAt
    <3> HIDE DEF new
    <3> QED BY <3>1, <3>2 DEF CvOK, Encoding
  <2> QED BY <1>6, <2>2, <2>3
          DEF ConvertSubmit, StoreOK, FilesOK, DlOK, HistoryOK, store, files, history
<1>7. ASSUME ConvertFinal(c) PROVE TypeOK'
  <2>1. req[c].sess \in Sessions /\ req[c].s \in SessionRecord
    BY <1>7 DEF ConvertFinal, ReqOK, Request
  <2>2. StoreOK'
    BY <1>7, <2>1, UpdatedType DEF ConvertFinal, StoreOK
  <2>3. ReqOK'
    BY <1>7, RecordTypes DEF ConvertFinal, ReqOK, Idle
  <2> QED BY <1>7, <2>2, <2>3 DEF ConvertFinal, FilesOK, DlOK, CvOK, HistoryOK, files, jobs, history
<1>8. ASSUME NEW i \in Sessions, NEW cut \in Cuts, ConvertRead(c, i, cut) PROVE TypeOK'
  <2> DEFINE s == [session[i] EXCEPT !.cut = cut]
             r == [pc |-> "lookup", sess |-> i, s |-> s]
  <2>1. s \in SessionRecord /\ s.cut = cut
    BY DEF StoreOK, SessionRecord
  <2>2. r \in Request /\ r.pc = "lookup" /\ r.sess = i /\ r.s.cut \in Cuts
    <3> HIDE DEF s
    <3> QED BY <2>1 DEF Request
  <2>3. req' = [req EXCEPT ![c] = r]
    BY <1>8 DEF ConvertRead
  <2> HIDE DEF r
  <2>4. ReqOK'
    BY <2>2, <2>3, NextAskType
  <2> QED BY <1>8, <2>4 DEF ConvertRead, StoreOK, FilesOK, DlOK, CvOK, HistoryOK,
                            store, files, jobs, history
<1>9. ASSUME NEW i \in Sessions, StatusRead(c, i) PROVE TypeOK'
  <2> DEFINE r == [pc |-> "poll", sess |-> i, s |-> session[i]]
  <2>1. session[i] \in SessionRecord /\ session[i].out \in Cuts
    BY <1>9 DEF StatusRead, StoreOK, SessionRecord
  <2>2. r \in Request /\ r.pc = "poll" /\ r.sess = i /\ r.s.out \in Cuts
    BY <2>1 DEF Request
  <2>3. req' = [req EXCEPT ![c] = r]
    BY <1>9 DEF StatusRead
  <2> HIDE DEF r
  <2>4. ReqOK'
    BY <2>2, <2>3, NextAskType
  <2> QED BY <1>9, <2>4 DEF StatusRead, StoreOK, FilesOK, DlOK, CvOK, HistoryOK,
                            store, files, jobs, history
<1>10. ASSUME StatusStat(c) PROVE TypeOK'
  <2>1. PICK r \in {[req[c] EXCEPT !.pc = "expire"], Idle} : req' = [req EXCEPT ![c] = r]
    BY <1>10 DEF StatusStat
  <2>2. CASE r = Idle
    BY <1>10, <2>1, <2>2, AnsweredType
       DEF StatusStat, StoreOK, FilesOK, DlOK, CvOK, HistoryOK, store, files, jobs, history
  <2>3. CASE r = [req[c] EXCEPT !.pc = "expire"]
    <3>1. r \in Request /\ r.pc = "expire" /\ r.sess \in Sessions /\ r.s.out \in Cuts
      BY <1>0, <1>10, <2>3 DEF StatusStat, Request
    <3>2. ReqOK'
      BY <2>1, <3>1, NextAskType
    <3> QED BY <1>10, <3>2 DEF StatusStat, StoreOK, FilesOK, DlOK, CvOK, HistoryOK,
                               store, files, jobs, history
  <2> QED BY <2>1, <2>2, <2>3
<1>11. ASSUME StatusExpire(c) PROVE TypeOK'
  <2> DEFINE new == [req[c].s EXCEPT !.state = "failed", !.out = NoCut]
  <2>1. new \in SessionRecord /\ req[c].sess \in Sessions
    BY <1>0, <1>11 DEF StatusExpire, SessionRecord, States
  <2>2. session' = Updated(req[c].sess, new)
    BY <1>11 DEF StatusExpire
  <2> HIDE DEF new
  <2>3. StoreOK' /\ ReqOK'
    BY <1>11, <2>1, <2>2, UpdatedType, AnsweredType DEF StatusExpire, StoreOK
  <2> QED BY <1>11, <2>3 DEF StatusExpire, FilesOK, DlOK, CvOK, HistoryOK, files, jobs, history
<1> QED BY <1>1, <1>2, <1>3, <1>4, <1>5, <1>6, <1>7, <1>8, <1>9, <1>10, <1>11 DEF Ask, Handler

\* Encoders that change places only among themselves.
LEMMA EncodersType ==
  ASSUME CvOK, NEW W \in SUBSET CvAt({"begun"} \cup Encoding), NEW place \in Encoding,
         cv' = [k \in CvJobs |-> IF k \in W THEN [cv[k] EXCEPT !.at = place] ELSE cv[k]]
  PROVE  CvOK'
<1>1. \A k \in CvJobs : cv'[k] = IF k \in W THEN [cv[k] EXCEPT !.at = place] ELSE cv[k]
  OBVIOUS
<1>2. \A k \in CvJobs :
        /\ cv'[k] \in CvJob
        /\ \/ cv'[k] = cv[k]
           \/ /\ cv[k].at \in {"begun"} \cup Encoding
              /\ cv'[k].sess = cv[k].sess /\ cv'[k].cut = cv[k].cut /\ cv'[k].s = cv[k].s
              /\ cv'[k].attempts = cv[k].attempts
  BY <1>1 DEF CvOK, CvJob, CvAt
<1>3. \A k \in CvJobs :
        /\ cv'[k].at # "free" => cv'[k].sess \in Sessions /\ cv'[k].cut \in Cuts
        /\ cv'[k].at \in {"begun"} \cup Encoding => cv'[k].s.cut \in Cuts
        /\ cv'[k].attempts > 0 => cv'[k].attempts < MaxJobRetries
  BY <1>2 DEF CvOK, Encoding
<1> QED BY <1>2, <1>3 DEF CvOK

\* Removing an output moves its encoders to another place and nothing else.
LEMMA RemoveOutputType ==
  ASSUME FilesOK, CvOK, NEW v, RemoveOutput(v)
  PROVE  output' \in [Variants -> {"missing", "partial"} \cup Cuts] /\ CvOK'
<1>1. output' \in [Variants -> {"missing", "partial"} \cup Cuts]
  BY DEF RemoveOutput, FilesOK
<1>2. Writers(v) \in SUBSET CvAt({"begun"} \cup Encoding) /\ "detached" \in Encoding
  BY DEF Writers, CvAt, Encoding
<1> QED BY <1>1, <1>2, EncodersType DEF RemoveOutput

LEMMA DeleteType ==
  ASSUME TypeOK, NEW i \in Sessions, Delete(i)
  PROVE  TypeOK'
<1> USE DEF TypeOK
<1>1. StoreOK'
  BY RecordTypes DEF Delete, StoreOK
<1>2. output' \in [Variants -> {"missing", "partial"} \cup Cuts] /\ CvOK'
  <2>1. CASE UNCHANGED <<output, cv>>
    BY <2>1 DEF FilesOK, CvOK
  <2>2. CASE RemoveOutput(Variant(i, session[i].out))
    BY <2>2, RemoveOutputType
  <2> QED BY <2>1, <2>2 DEF Delete
<1>3. FilesOK'
  BY <1>2 DEF Delete, FilesOK
<1> QED BY <1>1, <1>2, <1>3 DEF Delete, DlOK, ReqOK, HistoryOK

\* Download workers and their timers keep the types.
LEMMA DownloadsType ==
  ASSUME TypeOK, NEW j \in DlJobs, DlBegin(j) \/ DlEnd(j) \/ DlTimer(j)
  PROVE  TypeOK'
<1> USE DEF TypeOK
<1>0. /\ dl[j] \in DlJob /\ dl[j].s \in SessionRecord
      /\ dl[j].at # "free" => dl[j].sess \in Sessions /\ AssetOfDl(j) \in Assets
      /\ \A x \in States : [dl[j].s EXCEPT !.state = x] \in SessionRecord
      /\ [dl[j].s EXCEPT !.src = TRUE, !.state = "downloaded"] \in SessionRecord
  <2>1. dl[j] \in DlJob
    BY DEF DlOK
  <2>2. dl[j].s \in SessionRecord
    BY <2>1 DEF DlJob
  <2>3. dl[j].at # "free" => dl[j].sess \in Sessions /\ AssetOfDl(j) \in Assets
    BY PipelineAssumption DEF DlOK, AssetOfDl
  <2>4. /\ \A x \in States : [dl[j].s EXCEPT !.state = x] \in SessionRecord
        /\ [dl[j].s EXCEPT !.src = TRUE, !.state = "downloaded"] \in SessionRecord
    BY <2>2 DEF SessionRecord, States
  <2> QED BY <2>1, <2>2, <2>3, <2>4
<1>1. ASSUME NEW new \in DlJob, dl' = [dl EXCEPT ![j] = new],
             new.at # "free" => new.sess \in Sessions,
             new.attempts > 0 => new.attempts < MaxJobRetries
      PROVE  DlOK'
  BY <1>1 DEF DlOK
<1>2. dl' = [dl EXCEPT ![j] = FreeDl] => DlOK'
  <2>1. FreeDl \in DlJob /\ FreeDl.at = "free" /\ FreeDl.attempts = 0
    BY RecordTypes DEF FreeDl
  <2> QED BY <2>1 DEF DlOK
<1>3. CASE DlDiscard(j)
  <2>1. StoreOK'
    BY <1>3 DEF DlDiscard, StoreOK, store
  <2> QED BY <1>2, <1>3, <2>1 DEF DlDiscard, FilesOK, CvOK, ReqOK, HistoryOK, store, files, history
<1>4. CASE DlStart(j)
  <2> DEFINE s == [session[dl[j].sess] EXCEPT !.state = "downloading"]
             new == [dl[j] EXCEPT !.at = "running", !.s = s]
  <2>1. s \in SessionRecord /\ dl[j].sess \in Sessions
    BY <1>0, <1>4 DEF DlStart, StoreOK, SessionRecord, States
  <2>2. StoreOK'
    BY <1>4, <2>1, UpdatedType DEF DlStart, StoreOK
  <2>3. dl' = [dl EXCEPT ![j] = new]
    BY <1>4 DEF DlStart
  <2>4. new \in DlJob /\ new.sess = dl[j].sess /\ new.attempts = dl[j].attempts
    <3> HIDE DEF s
    <3> QED BY <1>0, <2>1 DEF DlJob
  <2>5. DlOK'
    <3> HIDE DEF new
    <3> QED BY <1>1, <2>1, <2>3, <2>4 DEF DlOK
  <2> QED BY <1>4, <2>2, <2>5 DEF DlStart, FilesOK, CvOK, ReqOK, HistoryOK, files, history
<1>5. CASE DlSucceed(j)
  <2>1. dl[j].sess \in Sessions
    BY <1>0, <1>5 DEF DlSucceed
  <2>2. StoreOK'
    BY <1>0, <1>5, <2>1, UpdatedType DEF DlSucceed, StoreOK, AssetStates
  <2>3. FilesOK' /\ HistoryOK'
    BY <1>0, <1>5 DEF DlSucceed, FilesOK, HistoryOK
  <2> QED BY <1>2, <1>5, <2>2, <2>3 DEF DlSucceed, CvOK, ReqOK
<1>6. CASE DlRetry(j)
  <2> DEFINE new == [dl[j] EXCEPT !.at = "backoff", !.attempts = @ + 1, !.s = Absent]
  <2>1. dl' = [dl EXCEPT ![j] = new]
    BY <1>6 DEF DlRetry
  <2>2. new \in DlJob /\ new.sess = dl[j].sess /\ new.attempts = dl[j].attempts + 1
    <3>1. dl[j].attempts + 1 \in Nat
      BY <1>0 DEF DlJob
    <3>2. \A n \in Nat, s \in SessionRecord :
            [dl[j] EXCEPT !.at = "backoff", !.attempts = n, !.s = s] \in DlJob
      BY <1>0 DEF DlJob
    <3> QED BY <1>0, <3>1, <3>2, RecordTypes DEF DlJob
  <2>3. DlOK'
    <3> HIDE DEF new
    <3> QED BY <1>0, <1>1, <1>6, <2>1, <2>2 DEF DlRetry
  <2> QED BY <1>6, <2>3 DEF DlRetry, StoreOK, FilesOK, CvOK, ReqOK, HistoryOK, store, files, history
<1>7. CASE DlGiveUp(j)
  <2>1. dl[j].sess \in Sessions
    BY <1>0, <1>7 DEF DlGiveUp
  <2>2. StoreOK'
    BY <1>0, <1>7, <2>1, UpdatedType DEF DlGiveUp, StoreOK, AssetStates, States
  <2> QED BY <1>2, <1>7, <2>2 DEF DlGiveUp, FilesOK, CvOK, ReqOK, HistoryOK, files, history
<1>8. CASE DlTimer(j)
  <2>1. StoreOK'
    BY <1>8 DEF DlTimer, StoreOK, store
  <2>2. DlOK'
    <3> DEFINE new == [dl[j] EXCEPT !.at = "queued"]
    <3>1. CASE dl' = [dl EXCEPT ![j] = FreeDl]
      BY <1>2, <3>1
    <3>2. CASE dl' = [dl EXCEPT ![j] = new]
      <4>1. new \in DlJob /\ new.sess = dl[j].sess /\ new.attempts = dl[j].attempts
        BY <1>0 DEF DlJob
      <4>2. dl[j].sess \in Sessions
        BY <1>0, <1>8 DEF DlTimer
      <4> HIDE DEF new
      <4> QED BY <1>1, <3>2, <4>1, <4>2 DEF DlOK
    <3> QED BY <1>8, <3>1, <3>2 DEF DlTimer
  <2> QED BY <1>8, <2>1, <2>2 DEF DlTimer, FilesOK, CvOK, ReqOK, HistoryOK, store, files, history
<1> QED BY <1>3, <1>4, <1>5, <1>6, <1>7, <1>8 DEF DlBegin, DlEnd

\* Conversion workers and their timers keep the types.
LEMMA ConversionsType ==
  ASSUME TypeOK, NEW j \in CvJobs,
         CvTake(j) \/ CvDecide(j) \/ CvWrite(j) \/ CvEnd(j) \/ CvTimer(j)
  PROVE  TypeOK'
<1> USE DEF TypeOK
<1>0. /\ cv[j] \in CvJob /\ cv[j].s \in SessionRecord
      /\ cv[j].at # "free" => cv[j].sess \in Sessions /\ cv[j].cut \in Cuts
  BY DEF CvOK, CvJob
<1>1. ASSUME NEW new \in CvJob, cv' = [cv EXCEPT ![j] = new],
             new.at # "free" => new.sess \in Sessions /\ new.cut \in Cuts,
             new.at \in {"begun"} \cup Encoding => new.s.cut \in Cuts,
             new.attempts > 0 => new.attempts < MaxJobRetries
      PROVE  CvOK'
  BY <1>1 DEF CvOK
<1>2. cv' = [cv EXCEPT ![j] = FreeCv] => CvOK'
  <2>1. FreeCv \in CvJob /\ FreeCv.at = "free" /\ FreeCv.attempts = 0
    BY RecordTypes DEF FreeCv
  <2> QED BY <2>1 DEF CvOK, Encoding
\* A job that only changes its place, to one where it needs no cut of its session.
<1>3. ASSUME NEW x \in {"queued", "backoff"}, NEW s \in SessionRecord,
             cv[j].at # "free",
             \/ cv' = [cv EXCEPT ![j].at = x]
             \/ cv' = [cv EXCEPT ![j].at = x, ![j].s = s]
      PROVE  CvOK'
  <2>1. PICK new \in {[cv[j] EXCEPT !.at = x], [cv[j] EXCEPT !.at = x, !.s = s]} :
          cv' = [cv EXCEPT ![j] = new]
    BY <1>3
  <2>2. /\ new \in CvJob /\ new.at = x /\ new.sess = cv[j].sess
        /\ new.cut = cv[j].cut /\ new.attempts = cv[j].attempts
    BY <1>0 DEF CvJob
  <2> QED BY <1>0, <1>1, <1>3, <2>1, <2>2 DEF CvOK, Encoding
<1>4. CASE CvDiscard(j)
  BY <1>2, <1>4 DEF CvDiscard, StoreOK, FilesOK, DlOK, ReqOK, HistoryOK, store, files, history
<1>5. CASE CvFetch(j)
  <2>0. /\ cv[j].at = "queued" /\ cv[j].sess \in Sessions
    BY <1>0, <1>5 DEF CvFetch
  <2>1. PICK s \in SessionRecord :
          /\ session' = Updated(cv[j].sess, s)
          /\ cv' = [cv EXCEPT ![j].at = "fetched", ![j].s = s]
    <3>1. session[cv[j].sess] \in SessionRecord
      BY <2>0 DEF StoreOK
    <3>2. [session[cv[j].sess] EXCEPT !.src = TRUE, !.state = "downloaded"] \in SessionRecord
      BY <3>1 DEF SessionRecord, States
    <3> QED BY <1>5, <3>1, <3>2 DEF CvFetch
  <2>2. StoreOK'
    BY <1>5, <2>0, <2>1, UpdatedType DEF CvFetch, StoreOK, AssetStates
  <2>3. CvOK'
    <3> DEFINE new == [cv[j] EXCEPT !.at = "fetched", !.s = s]
    <3>1. new \in CvJob /\ new.at = "fetched" /\ new.sess = cv[j].sess
          /\ new.cut = cv[j].cut /\ new.attempts = cv[j].attempts
      BY <1>0 DEF CvJob
    <3>2. cv' = [cv EXCEPT ![j] = new]
      BY <2>1
    <3> HIDE DEF new
    <3> QED BY <1>0, <1>1, <2>0, <3>1, <3>2 DEF CvOK, Encoding
  <2> QED BY <1>5, <2>2, <2>3 DEF CvFetch, FilesOK, DlOK, ReqOK, HistoryOK, files, history
<1>6. CASE CvBounce(j)
  <2>1. cv[j].sess \in Sessions /\ cv[j].at # "free"
    BY <1>0, <1>6 DEF CvBounce
  <2>2. asset' \in [Assets -> AssetStates] /\ DlOK'
    <3>1. CASE UNCHANGED <<asset, dl>>
      BY <3>1 DEF StoreOK, DlOK
    <3>2. CASE MarkAndSubmit(cv[j].sess)
      BY <2>1, <3>2, MarkAndSubmitType
    <3> QED BY <1>6, <3>1, <3>2 DEF CvBounce
  <2>3. CvOK'
    BY <1>3, <1>6, <2>1, RecordTypes DEF CvBounce
  <2> QED BY <1>6, <2>2, <2>3 DEF CvBounce, StoreOK, FilesOK, ReqOK, HistoryOK, files, history
<1>7. CASE CvStale(j)
  <2>1. cv[j].sess \in Sessions /\ cv[j].at # "free"
    BY <1>0, <1>7 DEF CvStale
  <2>2. [cv[j].s EXCEPT !.src = FALSE] \in SessionRecord
    BY <1>0 DEF SessionRecord
  <2>3. StoreOK'
    BY <1>7, <2>1, <2>2, UpdatedType DEF CvStale, StoreOK, AssetStates
  <2>4. CvOK'
    BY <1>3, <1>7, <2>1, RecordTypes DEF CvStale
  <2> QED BY <1>7, <2>3, <2>4 DEF CvStale, FilesOK, DlOK, ReqOK, HistoryOK, files, history
<1>8. CASE CvBegin(j)
  <2> DEFINE s == [cv[j].s EXCEPT !.state = "converting"]
             named == [s EXCEPT !.cut = IF @ = NoCut THEN cv[j].cut ELSE @]
             new == [cv[j] EXCEPT !.at = "begun", !.s = named]
  <2>1. cv[j].sess \in Sessions /\ cv[j].cut \in Cuts /\ cv[j].at # "free"
    BY <1>0, <1>8 DEF CvBegin
  <2>2. s \in SessionRecord
    BY <1>0 DEF SessionRecord, States
  <2>3. named \in SessionRecord /\ named.cut \in Cuts
    <3> HIDE DEF s
    <3> QED BY <2>1, <2>2 DEF SessionRecord
  <2>4. /\ session' = Updated(cv[j].sess, IF Redis THEN s ELSE named)
        /\ cv' = [cv EXCEPT ![j] = new]
        /\ UNCHANGED <<asset, variant, files, dl, req, known, history>>
    <3>1. session' = Updated(cv[j].sess, IF Redis THEN s ELSE named)
      BY <1>8, Zenon DEF CvBegin
    <3>2. cv' = [cv EXCEPT ![j].at = "begun", ![j].s = named]
      BY <1>8, Zenon DEF CvBegin
    <3>3. UNCHANGED <<asset, variant, files, dl, req, known, history>>
      BY <1>8, Zenon DEF CvBegin
    <3> HIDE DEF named
    <3>4. cv' = [cv EXCEPT ![j] = new]
      BY <3>2
    <3> QED BY <3>1, <3>3, <3>4
  <2>5. new \in CvJob /\ new.sess = cv[j].sess /\ new.cut = cv[j].cut
        /\ new.attempts = cv[j].attempts /\ new.s = named
    <3> HIDE DEF named
    <3> QED BY <1>0, <2>3 DEF CvJob
  <2> HIDE DEF s, named, new
  <2>6. StoreOK'
    BY <2>1, <2>2, <2>3, <2>4, UpdatedType DEF StoreOK
  <2>7. CvOK'
    BY <1>1, <2>1, <2>3, <2>4, <2>5 DEF CvOK
  <2> QED BY <2>4, <2>6, <2>7 DEF FilesOK, DlOK, ReqOK, HistoryOK, files, history
<1>9. CASE CvWrite(j)
  <2> DEFINE W == Writers(Path(j)) \cup {j}
             place == IF Writers(Path(j)) = {} THEN "encoding" ELSE "mixing"
  <2>1. /\ W \in SUBSET CvAt({"begun"} \cup Encoding) /\ place \in Encoding
        /\ cv' = [k \in CvJobs |-> IF k \in W THEN [cv[k] EXCEPT !.at = place] ELSE cv[k]]
    BY <1>9 DEF CvWrite, Writers, CvAt, Encoding
  <2> HIDE DEF W, place
  <2>2. CvOK'
    BY <2>1, EncodersType
  <2>3. FilesOK'
    BY <1>9 DEF CvWrite, FilesOK
  <2> QED BY <1>9, <2>2, <2>3 DEF CvWrite, StoreOK, DlOK, ReqOK, HistoryOK, store, history
<1>10. CASE CvSucceed(j)
  <2>1. cv[j].sess \in Sessions /\ cv[j].cut \in Cuts /\ cv[j].s.cut \in Cuts
    BY <1>0, <1>10 DEF CvSucceed, CvOK, Encoding
  <2>2. [cv[j].s EXCEPT !.out = cv[j].s.cut, !.state = "completed"] \in SessionRecord
    BY <1>0, <2>1 DEF SessionRecord, States
  <2>3. Path(j) \in Variants
    BY <2>1, VariantType DEF Path
  <2>4. StoreOK'
    BY <1>10, <2>1, <2>2, UpdatedType DEF CvSucceed, StoreOK
  <2>5. FilesOK'
    <3>1. PICK left \in Left(j) : output' = [output EXCEPT ![Path(j)] = left]
      BY <1>10 DEF CvSucceed
    <3>2. left \in {"missing", "partial"} \cup Cuts
      BY <2>1, <2>3, <3>1 DEF Left, FilesOK
    <3> QED BY <1>10, <3>1, <3>2 DEF CvSucceed, FilesOK
  <2>6. HistoryOK'
    BY <1>10, <2>3 DEF CvSucceed, HistoryOK
  <2> QED BY <1>2, <1>10, <2>4, <2>5, <2>6 DEF CvSucceed, DlOK, ReqOK
<1>11. CASE CvRetry(j)
  <2> DEFINE new == [cv[j] EXCEPT !.at = "backoff", !.attempts = @ + 1, !.s = Absent]
  <2>1. cv' = [cv EXCEPT ![j] = new]
    BY <1>11 DEF CvRetry
  <2>2. new \in CvJob /\ new.sess = cv[j].sess /\ new.cut = cv[j].cut /\ new.at = "backoff"
        /\ new.attempts = cv[j].attempts + 1
    <3>1. cv[j].attempts + 1 \in Nat
      BY <1>0 DEF CvJob
    <3>2. \A n \in Nat, s \in SessionRecord :
            [cv[j] EXCEPT !.at = "backoff", !.attempts = n, !.s = s] \in CvJob
      BY <1>0 DEF CvJob
    <3> QED BY <1>0, <3>1, <3>2, RecordTypes DEF CvJob
  <2>3. CvOK'
    <3> HIDE DEF new
    <3> QED BY <1>0, <1>1, <1>11, <2>1, <2>2 DEF CvRetry, Encoding
  <2> QED BY <1>11, <2>3 DEF CvRetry, StoreOK, FilesOK, DlOK, ReqOK, HistoryOK, store, files, history
<1>12. CASE CvGiveUp(j)
  <2>1. cv[j].sess \in Sessions
    BY <1>0, <1>12 DEF CvGiveUp, Encoding
  <2>2. [cv[j].s EXCEPT !.state = "failed"] \in SessionRecord
    BY <1>0 DEF SessionRecord, States
  <2>3. StoreOK'
    BY <1>12, <2>1, <2>2, UpdatedType DEF CvGiveUp, StoreOK
  <2> QED BY <1>2, <1>12, <2>3 DEF CvGiveUp, FilesOK, DlOK, ReqOK, HistoryOK, files, history
<1>13. CASE CvTimer(j)
  <2>1. CvOK'
    BY <1>2, <1>3, <1>13, RecordTypes DEF CvTimer
  <2> QED BY <1>13, <2>1 DEF CvTimer, StoreOK, FilesOK, DlOK, ReqOK, HistoryOK, store, files, history
<1> QED BY <1>4, <1>5, <1>6, <1>7, <1>8, <1>9, <1>10, <1>11, <1>12, <1>13
        DEF CvTake, CvDecide, CvEnd

LEMMA CleanupType ==
  ASSUME TypeOK, Sweep \/ KeysExpire
  PROVE  TypeOK'
<1> USE DEF TypeOK
<1>1. ASSUME NEW a \in Assets, CleanStream(a) PROVE TypeOK'
  BY <1>1 DEF CleanStream, StoreOK, FilesOK, DlOK, CvOK, ReqOK, HistoryOK, store, jobs, history
<1>2. ASSUME NEW a \in Assets, ExpireAsset(a) PROVE TypeOK'
  BY <1>2 DEF ExpireAsset, AssetStates, StoreOK, FilesOK, DlOK, CvOK, ReqOK, HistoryOK,
              files, jobs, history
<1>3. ASSUME NEW v \in Variants, CleanOutput(v) PROVE TypeOK'
  <2>1. output' \in [Variants -> {"missing", "partial"} \cup Cuts] /\ CvOK'
    BY <1>3, RemoveOutputType DEF CleanOutput
  <2> QED BY <1>3, <2>1 DEF CleanOutput, StoreOK, FilesOK, DlOK, ReqOK, HistoryOK, store, history
<1>4. ASSUME NEW v \in Variants, ExpireVariant(v) PROVE TypeOK'
  BY <1>4 DEF ExpireVariant, StoreOK, FilesOK, DlOK, CvOK, ReqOK, HistoryOK, files, jobs, history
<1> QED BY <1>1, <1>2, <1>3, <1>4 DEF Sweep, KeysExpire

LEMMA TypeInit == Init => TypeOK
BY RecordTypes DEF Init, TypeOK, StoreOK, FilesOK, DlOK, CvOK, ReqOK, HistoryOK,
                   AssetStates, Encoding, FreeDl, FreeCv, Idle

\* No step breaks a type or the retry budget.
LEMMA TypeStep == TypeOK /\ [Next]_vars => TypeOK'
<1> SUFFICES ASSUME TypeOK, [Next]_vars PROVE TypeOK'
  OBVIOUS
<1>1. CASE UNCHANGED vars
  BY <1>1 DEF vars, store, files, jobs, history, TypeOK, StoreOK, FilesOK, DlOK, CvOK,
              ReqOK, HistoryOK
<1> QED BY <1>1, HandlersType, DeleteType, DownloadsType, ConversionsType, CleanupType
        DEF Next, Work

\* The type invariant, with the retry budget: no interleaving of handlers,
\* workers, timers and cleanup takes a job beyond MaxJobRetries attempts.
THEOREM TypeCorrect == SafeSpec => []TypeOK
<1>1. Init => TypeOK
  BY TypeInit
<1>2. TypeOK /\ [Next]_vars => TypeOK'
  BY TypeStep
<1> QED BY <1>1, <1>2, PTL DEF SafeSpec
=============================================================================
