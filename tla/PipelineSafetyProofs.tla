------------------------ MODULE PipelineSafetyProofs ------------------------
(***************************************************************************)
(* The safety properties of Pipeline, for every value of its constants:    *)
(* with the memory store no deleted session returns; nothing is announced  *)
(* before it was made; a "preparing" mark is left without a download only  *)
(* where the code accepts it.  Then what a step may do to handlers and     *)
(* jobs, once for each kind, and what follows from it: the work of deleted *)
(* sessions drains, and both queues are used as work pools.                *)
(***************************************************************************)
EXTENDS PipelineProofs, FiniteSetTheorems

\* The memory store's UpdateSession brings no session into being.
LEMMA UpdatedExists ==
  ASSUME ~Redis, StoreOK, NEW i \in Sessions, NEW rec, NEW k \in Sessions,
         Updated(i, rec)[k].state # "absent"
  PROVE  Exists(k)
BY DEF StoreOK, Updated, Exists

\* After a step of a worker or a timer the memory store has no session that
\* it had not before.
LEMMA WorkersCreateNothing ==
  ASSUME ~Redis, TypeOK, NEW k \in Sessions, Exists(k)',
         \/ \E j \in DlJobs : DlBegin(j) \/ DlEnd(j) \/ DlTimer(j)
         \/ \E j \in CvJobs : CvTake(j) \/ CvDecide(j) \/ CvWrite(j) \/ CvEnd(j) \/ CvTimer(j)
  PROVE  Exists(k) /\ deleted' = deleted
<1> USE DEF TypeOK
<1>1. ASSUME NEW i \in Sessions, NEW rec, session' = Updated(i, rec) PROVE Exists(k)
  BY <1>1, UpdatedExists DEF Exists
<1>2. session' = session => Exists(k)
  BY DEF Exists
<1>3. ASSUME NEW j \in DlJobs, DlBegin(j) \/ DlEnd(j) \/ DlTimer(j)
      PROVE  Exists(k) /\ deleted' = deleted
  <2>1. dl[j].at # "free" => dl[j].sess \in Sessions
    BY DEF DlOK
  <2>2. CASE DlDiscard(j)
    BY <1>2, <2>2 DEF DlDiscard, store, history
  <2>3. CASE DlStart(j)
    BY <1>1, <2>1, <2>3 DEF DlStart, history
  <2>4. CASE DlSucceed(j)
    BY <1>1, <2>1, <2>4 DEF DlSucceed
  <2>5. CASE DlRetry(j)
    BY <1>2, <2>5 DEF DlRetry, store, history
  <2>6. CASE DlGiveUp(j)
    BY <1>1, <2>1, <2>6 DEF DlGiveUp, history
  <2>7. CASE DlTimer(j)
    BY <1>2, <2>7 DEF DlTimer, store, history
  <2> QED BY <1>3, <2>2, <2>3, <2>4, <2>5, <2>6, <2>7 DEF DlBegin, DlEnd
<1>4. ASSUME NEW j \in CvJobs,
             CvTake(j) \/ CvDecide(j) \/ CvWrite(j) \/ CvEnd(j) \/ CvTimer(j)
      PROVE  Exists(k) /\ deleted' = deleted
  <2>1. cv[j].at # "free" => cv[j].sess \in Sessions
    BY DEF CvOK
  <2>2. CASE CvDiscard(j)
    BY <1>2, <2>2 DEF CvDiscard, store, history
  <2>3. CASE CvFetch(j)
    BY <1>1, <2>1, <2>3 DEF CvFetch, history
  <2>4. CASE CvBounce(j)
    BY <1>2, <2>4 DEF CvBounce, history
  <2>5. CASE CvStale(j)
    BY <1>1, <2>1, <2>5 DEF CvStale, history
  <2>6. CASE CvBegin(j)
    BY <1>1, <2>1, <2>6 DEF CvBegin, history
  <2>7. CASE CvWrite(j)
    BY <1>2, <2>7 DEF CvWrite, store, history
  <2>8. CASE CvSucceed(j)
    BY <1>1, <2>1, <2>8 DEF CvSucceed, Encoding
  <2>9. CASE CvRetry(j)
    BY <1>2, <2>9 DEF CvRetry, store, history
  <2>10. CASE CvGiveUp(j)
    BY <1>1, <2>1, <2>10 DEF CvGiveUp, Encoding, history
  <2>11. CASE CvTimer(j)
    BY <1>2, <2>11 DEF CvTimer, store, history
  <2> QED BY <1>4, <2>2, <2>3, <2>4, <2>5, <2>6, <2>7, <2>8, <2>9, <2>10, <2>11
          DEF CvTake, CvDecide, CvEnd
<1> QED BY <1>3, <1>4

\* With the memory store no step of any actor writes a deleted session back.
LEMMA ForgottenStep == ~Redis /\ TypeOK /\ NoResurrection /\ [Next]_vars => NoResurrection'
<1> SUFFICES ASSUME ~Redis, TypeOK, NoResurrection, [Next]_vars, NEW k \in deleted', Exists(k)'
             PROVE  FALSE
  BY DEF NoResurrection
<1>0. /\ deleted \subseteq Sessions /\ session \in [Sessions -> SessionRecord]
      /\ session' = session => (Exists(k)' <=> Exists(k))
  BY DEF TypeOK, HistoryOK, StoreOK, Exists
<1>1. CASE UNCHANGED vars
  BY <1>0, <1>1 DEF NoResurrection, vars, store, history
<1>2. ASSUME NEW c \in Clients, NEW i \in Sessions, Prepare(c, i) PROVE FALSE
  BY <1>0, <1>2 DEF Prepare, NoResurrection, Exists, history
<1>3. ASSUME NEW c \in Clients, NEW i \in Sessions,
             StatusRead(c, i) \/ \E cut \in Cuts : ConvertRead(c, i, cut)
      PROVE FALSE
  BY <1>0, <1>3 DEF ConvertRead, StatusRead, NoResurrection, store, history
<1>5. ASSUME NEW c \in Clients, Handler(c) PROVE FALSE
  <2>0. req[c].pc # "idle" => req[c].sess \in Sessions
    BY DEF TypeOK, ReqOK
  <2>1. CASE PrepareSubmit(c) \/ ConvertEnsureDownload(c) \/ ConvertSubmit(c) \/ StatusStat(c)
    BY <1>0, <2>1 DEF PrepareSubmit, ConvertEnsureDownload, ConvertSubmit, StatusStat,
                      NoResurrection, store, history
  <2>2. ASSUME NEW rec, session' = Updated(req[c].sess, rec), deleted' = deleted,
               req[c].pc # "idle"
        PROVE FALSE
    <3>1. k \in deleted /\ k \in Sessions
      BY <1>0, <2>2
    <3>2. Exists(k)
      BY <2>0, <2>2, <3>1, UpdatedExists DEF TypeOK, Exists
    <3> QED BY <3>1, <3>2 DEF NoResurrection
  <2>3. CASE ConvertReuse(c)
    BY <2>2, <2>3 DEF ConvertReuse, history
  <2>4. CASE ConvertLookup(c)
    <3>1. \E rec : session' = Updated(req[c].sess, rec)
      BY <2>4, Zenon DEF ConvertLookup
    <3> QED BY <2>2, <2>4, <3>1 DEF ConvertLookup, history
  <2>5. CASE ConvertFinal(c)
    BY <2>2, <2>5 DEF ConvertFinal, history
  <2>6. CASE StatusExpire(c)
    BY <2>2, <2>6 DEF StatusExpire, history
  <2> QED BY <1>5, <2>1, <2>3, <2>4, <2>5, <2>6 DEF Handler
<1>6. CASE \/ \E j \in DlJobs : DlBegin(j) \/ DlEnd(j) \/ DlTimer(j)
           \/ \E j \in CvJobs : CvTake(j) \/ CvDecide(j) \/ CvWrite(j) \/ CvEnd(j) \/ CvTimer(j)
  <2>1. k \in Sessions
    BY <1>6, ConversionsType, DownloadsType DEF TypeOK, HistoryOK
  <2>2. Exists(k) /\ deleted' = deleted
    BY <1>6, <2>1, WorkersCreateNothing
  <2> QED BY <2>2 DEF NoResurrection
<1>8. ASSUME NEW i \in Sessions, Delete(i) PROVE FALSE
  BY <1>0, <1>8 DEF Delete, NoResurrection, Exists, Absent
<1>9. CASE Sweep \/ KeysExpire
  BY <1>0, <1>9 DEF Sweep, KeysExpire, CleanStream, CleanOutput, ExpireAsset, ExpireVariant,
                    NoResurrection, store, history
<1> QED BY <1>1, <1>2, <1>3, <1>5, <1>6, <1>8, <1>9 DEF Next, Work, Ask

\* With the memory store a DELETE is final, whatever copies of the session
\* handlers, workers and timers still write back.
THEOREM MemoryForgets == ~Redis => (SafeSpec => []NoResurrection)
<1> SUFFICES ASSUME ~Redis PROVE SafeSpec => []NoResurrection
  OBVIOUS
<1>1. Init => NoResurrection
  BY DEF Init, NoResurrection
<1>2. TypeOK /\ NoResurrection /\ [Next]_vars => NoResurrection'
  BY ForgottenStep
<1> QED BY <1>1, <1>2, TypeCorrect, PTL DEF SafeSpec

-----------------------------------------------------------------------------
\* A step leaves the mark of asset a without a job, and the code's reasons.
Orphaned(a) == /\ asset'[a] = "preparing" /\ ~Downloading(a)'
               /\ asset[a] = "preparing" => Downloading(a)
Reasons(a) == \/ DlFull
              \/ \E j \in DlAt({"queued"}) :
                   AssetOfDl(j) = a /\ ~Exists(dl[j].sess) /\ dl'[j] = FreeDl

\* A step that sets no mark on a and takes none of its jobs away.
LEMMA MarkKept ==
  ASSUME NEW a \in Assets, Orphaned(a),
         asset'[a] = "preparing" => asset[a] = "preparing",
         \A j \in DlJobs : dl[j].at # "free" /\ AssetOfDl(j) = a =>
                             dl'[j].at # "free" /\ dl'[j].sess = dl[j].sess
  PROVE  FALSE
BY DEF Orphaned, Downloading, AssetOfDl

\* A step that frees a job of another asset, or settles the mark.
LEMMA MarkSettled ==
  ASSUME TypeOK, NEW a \in Assets, Orphaned(a), NEW j \in DlJobs,
         dl' = [dl EXCEPT ![j] = FreeDl],
         asset'[a] = "preparing" => asset[a] = "preparing" /\ a # AssetOfDl(j)
  PROVE  FALSE
BY DEF Orphaned, Downloading, AssetOfDl, TypeOK, DlOK

\* A mark is set together with its job, or the queue is full.
LEMMA MarkSubmitted ==
  ASSUME TypeOK, NEW a \in Assets, Orphaned(a), NEW i \in Sessions, MarkAndSubmit(i)
  PROVE  DlFull
<1> SUFFICES ASSUME ~DlFull PROVE FALSE
  OBVIOUS
<1> DEFINE new == [FreeDl EXCEPT !.at = "queued", !.sess = i]
<1>1. PICK j \in DlJobs : dl[j].at = "free" /\ dl' = [dl EXCEPT ![j] = new]
  BY DEF MarkAndSubmit, DlAt
<1>2. new.at = "queued" /\ new.sess = i
  BY DEF FreeDl
<1>3. asset' = [asset EXCEPT ![AssetOf[i]] = "preparing"]
  BY DEF MarkAndSubmit
<1>4. dl \in [DlJobs -> DlJob] /\ asset \in [Assets -> AssetStates]
  BY DEF TypeOK, StoreOK, DlOK
<1> HIDE DEF new
<1>5. CASE a = AssetOf[i]
  BY <1>1, <1>2, <1>4, <1>5 DEF Orphaned, Downloading, AssetOfDl
<1>6. CASE a # AssetOf[i]
  BY <1>1, <1>3, <1>4, <1>6, MarkKept
<1> QED BY <1>5, <1>6

\* No step of any actor leaves a mark without a job, but for those reasons.
LEMMA OrphanStep ==
  ASSUME TypeOK, Next, NEW a \in Assets, Orphaned(a)
  PROVE  Reasons(a)
<1>0. asset' = asset /\ dl' = dl => FALSE
  BY MarkKept
<1>1. ASSUME dl' = dl, \E b \in Assets, x \in AssetStates \ {"preparing"} :
                         asset' = [asset EXCEPT ![b] = x]
      PROVE FALSE
  BY <1>1, MarkKept DEF TypeOK, StoreOK
<1>2. ASSUME NEW c \in Clients, Ask(c) PROVE FALSE
  BY <1>0, <1>2 DEF Ask, Prepare, ConvertRead, StatusRead, store, jobs
<1>3. ASSUME NEW c \in Clients, Handler(c) PROVE Reasons(a)
  <2>1. req[c].pc # "idle" => req[c].sess \in Sessions
    BY DEF TypeOK, ReqOK
  <2>2. CASE PrepareSubmit(c)
    BY <2>1, <2>2, MarkSubmitted DEF PrepareSubmit, Reasons
  <2>3. CASE ConvertEnsureDownload(c)
    BY <2>1, <2>3, MarkSubmitted DEF ConvertEnsureDownload, Reasons
  <2>4. CASE ConvertLookup(c)
    <3>1. dl' = dl /\ asset' \in {asset, [asset EXCEPT ![AssetOf[req[c].sess]] = "expired"]}
      BY <2>4 DEF ConvertLookup, jobs
    <3>2. AssetOf[req[c].sess] \in Assets
      BY <2>1, <2>4, PipelineAssumption DEF ConvertLookup
    <3> QED BY <1>0, <1>1, <3>1, <3>2 DEF AssetStates
  <2>5. CASE ConvertReuse(c) \/ ConvertSubmit(c) \/ ConvertFinal(c)
             \/ StatusStat(c) \/ StatusExpire(c)
    BY <1>0, <2>5 DEF ConvertReuse, ConvertSubmit, ConvertFinal, StatusStat, StatusExpire,
                      store, jobs
  <2> QED BY <1>3, <2>2, <2>3, <2>4, <2>5 DEF Handler
<1>4. ASSUME NEW j \in DlJobs, DlBegin(j) \/ DlEnd(j) \/ DlTimer(j) PROVE Reasons(a)
  <2>0. dl \in [DlJobs -> DlJob] /\ asset \in [Assets -> AssetStates]
    BY DEF TypeOK, StoreOK, DlOK
  <2>1. CASE DlDiscard(j)
    <3>1. CASE AssetOfDl(j) = a
      BY <2>0, <2>1, <3>1 DEF DlDiscard, Reasons, DlAt
    <3>2. CASE AssetOfDl(j) # a
      BY <2>1, <3>2, MarkSettled DEF DlDiscard, store
    <3> QED BY <3>1, <3>2
  <2>2. CASE DlStart(j) \/ DlRetry(j)
    <3>1. /\ asset' = asset /\ dl[j].at # "free"
          /\ dl'[j].at # "free" /\ dl'[j].sess = dl[j].sess
          /\ \A k \in DlJobs \ {j} : dl'[k] = dl[k]
      BY <2>0, <2>2 DEF DlStart, DlRetry, DlJob, store
    <3> QED BY <3>1, MarkKept
  <2>3. CASE DlSucceed(j) \/ DlGiveUp(j)
    BY <2>0, <2>3, MarkSettled DEF DlSucceed, DlGiveUp
  <2>4. CASE DlTimer(j) /\ ~DlFull
    <3>1. /\ asset' = asset
          /\ dl'[j].at # "free" /\ dl'[j].sess = dl[j].sess
          /\ \A k \in DlJobs \ {j} : dl'[k] = dl[k]
      BY <2>0, <2>4 DEF DlTimer, DlJob, store
    <3> QED BY <3>1, MarkKept
  <2>5. CASE DlTimer(j) /\ DlFull
    BY <2>5 DEF Reasons
  <2> QED BY <1>4, <2>1, <2>2, <2>3, <2>4, <2>5 DEF DlBegin, DlEnd
<1>5. ASSUME NEW j \in CvJobs,
             CvTake(j) \/ CvDecide(j) \/ CvWrite(j) \/ CvEnd(j) \/ CvTimer(j)
      PROVE Reasons(a)
  <2>1. cv[j].at # "free" => cv[j].sess \in Sessions
    BY DEF TypeOK, CvOK
  <2>2. CASE CvFetch(j) \/ CvStale(j)
    <3>1. dl' = dl /\ asset' \in {asset, [asset EXCEPT ![AssetOf[cv[j].sess]] = "expired"]}
      BY <2>2 DEF CvFetch, CvStale, AssetOfCv
    <3>2. AssetOf[cv[j].sess] \in Assets
      BY <2>1, <2>2, PipelineAssumption DEF CvFetch, CvStale
    <3> QED BY <1>0, <1>1, <3>1, <3>2 DEF AssetStates
  <2>3. CASE CvBounce(j)
    BY <1>0, <2>1, <2>3, MarkSubmitted DEF CvBounce, Reasons
  <2>4. CASE CvDiscard(j) \/ CvBegin(j) \/ CvWrite(j) \/ CvEnd(j) \/ CvTimer(j)
    BY <1>0, <2>4
       DEF CvDiscard, CvBegin, CvWrite, CvEnd, CvSucceed, CvRetry, CvGiveUp, CvTimer, store
  <2> QED BY <1>5, <2>2, <2>3, <2>4 DEF CvTake, CvDecide
<1>6. ASSUME NEW i \in Sessions, Delete(i) PROVE FALSE
  BY <1>0, <1>6 DEF Delete
<1>7. CASE Sweep
  BY <1>0, <1>7 DEF Sweep, CleanStream, CleanOutput, store, jobs
<1>8. CASE KeysExpire
  <2>1. ASSUME NEW b \in Assets, ExpireAsset(b) PROVE FALSE
    BY <1>1, <2>1 DEF ExpireAsset, jobs, AssetStates
  <2>2. ASSUME NEW v \in Variants, ExpireVariant(v) PROVE FALSE
    BY <1>0, <2>2 DEF ExpireVariant, jobs
  <2> QED BY <1>8, <2>1, <2>2 DEF KeysExpire
<1> QED BY <1>2, <1>3, <1>4, <1>5, <1>6, <1>7, <1>8 DEF Next, Work

\* Of all steps of all actors, only a full queue and the discarding of a
\* deleted session's job leave a mark without a download; hence a download
\* that was taken up settles its mark or is tried again, however stale the
\* copies and however many the duplicates.
THEOREM OnlyDropsOrphan == SafeSpec => OrphansExplained
<1>1. TypeOK /\ [Next]_vars =>
        [\A a \in Assets : asset'[a] = "preparing" /\ ~Downloading(a)'
                             /\ (asset[a] = "preparing" => Downloading(a))
           => \/ DlFull
              \/ \E j \in DlAt({"queued"}) :
                   AssetOfDl(j) = a /\ ~Exists(dl[j].sess) /\ dl'[j] = FreeDl]_vars
  BY OrphanStep DEF Orphaned, Reasons
<1> QED BY <1>1, TypeCorrect, PTL DEF SafeSpec, OrphansExplained

-----------------------------------------------------------------------------
\* NothingPremature is not inductive: a worker or a handler writes back the
\* copy it holds, so that every copy has to be earned as well.
CopiesEarned == /\ \A j \in DlJobs : Earned(dl[j].sess, dl[j].s)
                /\ \A j \in CvJobs : Earned(cv[j].sess, cv[j].s)
                /\ \A c \in Clients : Earned(req[c].sess, req[c].s)

Deserved == NothingPremature /\ CopiesEarned

\* Earned, over given histories.
EarnedBy(i, s, done, made) == /\ s.src => AssetOf[i] \in done
                              /\ s.out # NoCut => Variant(i, s.out) \in made

\* What was earned stays earned when the histories grow, and however the
\* state and the cut of a record are rewritten.
LEMMA EarnedStays ==
  ASSUME NEW i, NEW s \in SessionRecord, NEW done, NEW made, NEW done2, NEW made2,
         EarnedBy(i, s, done, made), done \subseteq done2, made \subseteq made2
  PROVE  /\ EarnedBy(i, s, done2, made2)
         /\ \A x : EarnedBy(i, [s EXCEPT !.state = x], done2, made2)
         /\ \A x : EarnedBy(i, [s EXCEPT !.cut = x], done2, made2)
         /\ EarnedBy(i, [s EXCEPT !.src = FALSE], done2, made2)
         /\ AssetOf[i] \in done2 =>
              \A x : EarnedBy(i, [s EXCEPT !.src = TRUE, !.state = x], done2, made2)
         /\ \A c, x : Variant(i, c) \in made2 =>
              EarnedBy(i, [s EXCEPT !.out = c, !.state = x], done2, made2)
BY DEF EarnedBy, SessionRecord

LEMMA AbsentEarned == \A i, done, made : EarnedBy(i, Absent, done, made)
BY DEF EarnedBy, Absent

\* A step keeps the invariant if every record and every copy it writes is
\* earned after the step, and so is every cache entry it makes.
LEMMA DeservedKept ==
  ASSUME TypeOK, Deserved, fetched \subseteq fetched', encoded \subseteq encoded',
         \A i \in Sessions : session'[i] = session[i]
                             \/ EarnedBy(i, session'[i], fetched', encoded'),
         \A j \in DlJobs : (dl'[j].sess = dl[j].sess /\ dl'[j].s = dl[j].s)
                           \/ EarnedBy(dl'[j].sess, dl'[j].s, fetched', encoded'),
         \A j \in CvJobs : (cv'[j].sess = cv[j].sess /\ cv'[j].s = cv[j].s)
                           \/ EarnedBy(cv'[j].sess, cv'[j].s, fetched', encoded'),
         \A c \in Clients : (req'[c].sess = req[c].sess /\ req'[c].s = req[c].s)
                            \/ EarnedBy(req'[c].sess, req'[c].s, fetched', encoded'),
         \A a \in Assets : asset'[a] = "downloaded" => asset[a] = "downloaded" \/ a \in fetched',
         \A v \in Variants : variant'[v] => variant[v] \/ v \in encoded'
  PROVE  Deserved'
BY DEF Deserved, NothingPremature, CopiesEarned, Earned, EarnedBy

\* What the invariant says of the records at hand.
LEMMA AllEarned ==
  ASSUME TypeOK, Deserved
  PROVE  /\ \A i \in Sessions : session[i] \in SessionRecord
                                /\ EarnedBy(i, session[i], fetched, encoded)
         /\ \A j \in DlJobs : dl[j].s \in SessionRecord
                              /\ EarnedBy(dl[j].sess, dl[j].s, fetched, encoded)
         /\ \A j \in CvJobs : cv[j].s \in SessionRecord
                              /\ EarnedBy(cv[j].sess, cv[j].s, fetched, encoded)
         /\ \A c \in Clients : req[c].s \in SessionRecord
                               /\ EarnedBy(req[c].sess, req[c].s, fetched, encoded)
<1>1. /\ \A i \in Sessions : session[i] \in SessionRecord
      /\ \A j \in DlJobs : dl[j].s \in SessionRecord
      /\ \A j \in CvJobs : cv[j].s \in SessionRecord
      /\ \A c \in Clients : req[c].s \in SessionRecord
  BY DEF TypeOK, StoreOK, DlOK, DlJob, CvOK, CvJob, ReqOK, Request
<1> QED BY <1>1 DEF Deserved, NothingPremature, CopiesEarned, Earned, EarnedBy

\* UpdateSession with an earned record.
LEMMA UpdatedEarned ==
  ASSUME TypeOK, NEW i \in Sessions, NEW rec, NEW done, NEW made,
         EarnedBy(i, rec, done, made)
  PROVE  \A k \in Sessions : Updated(i, rec)[k] = session[k]
                             \/ EarnedBy(k, Updated(i, rec)[k], done, made)
BY DEF TypeOK, StoreOK, Updated

\* The download jobs a step leaves have earned copies.
LEMMA DlWritten ==
  ASSUME TypeOK, NEW j \in DlJobs, NEW new, NEW done, NEW made,
         dl' = [dl EXCEPT ![j] = new],
         (new.sess = dl[j].sess /\ new.s = dl[j].s) \/ EarnedBy(new.sess, new.s, done, made)
  PROVE  \A k \in DlJobs : (dl'[k].sess = dl[k].sess /\ dl'[k].s = dl[k].s)
                           \/ EarnedBy(dl'[k].sess, dl'[k].s, done, made)
BY DEF TypeOK, DlOK

\* The same of conversion jobs.
LEMMA CvWritten ==
  ASSUME TypeOK, NEW j \in CvJobs, NEW new, NEW done, NEW made,
         cv' = [cv EXCEPT ![j] = new],
         (new.sess = cv[j].sess /\ new.s = cv[j].s) \/ EarnedBy(new.sess, new.s, done, made)
  PROVE  \A k \in CvJobs : (cv'[k].sess = cv[k].sess /\ cv'[k].s = cv[k].s)
                           \/ EarnedBy(cv'[k].sess, cv'[k].s, done, made)
BY DEF TypeOK, CvOK

\* The same of handlers.
LEMMA ReqWritten ==
  ASSUME TypeOK, NEW c \in Clients, NEW new, NEW done, NEW made,
         req' = [req EXCEPT ![c] = new],
         (new.sess = req[c].sess /\ new.s = req[c].s) \/ EarnedBy(new.sess, new.s, done, made)
  PROVE  \A d \in Clients : (req'[d].sess = req[d].sess /\ req'[d].s = req[d].s)
                             \/ EarnedBy(req'[d].sess, req'[d].s, done, made)
BY DEF TypeOK, ReqOK

\* A submitted download starts without a copy.
LEMMA SubmitEarned ==
  ASSUME TypeOK, NEW i \in Sessions, MarkAndSubmit(i), NEW done, NEW made
  PROVE  /\ \A k \in DlJobs : (dl'[k].sess = dl[k].sess /\ dl'[k].s = dl[k].s)
                              \/ EarnedBy(dl'[k].sess, dl'[k].s, done, made)
         /\ \A a \in Assets : asset'[a] = "downloaded" => asset[a] = "downloaded"
<1>1. \A a \in Assets : asset'[a] = "downloaded" => asset[a] = "downloaded"
  BY DEF TypeOK, StoreOK, MarkAndSubmit
<1>2. CASE DlFull
  BY <1>1, <1>2 DEF MarkAndSubmit
<1>3. CASE ~DlFull
  <2> DEFINE new == [FreeDl EXCEPT !.at = "queued", !.sess = i]
  <2>1. PICK j \in DlJobs : dl' = [dl EXCEPT ![j] = new]
    BY <1>3 DEF MarkAndSubmit, DlAt
  <2>2. new.s = Absent
    BY DEF FreeDl
  <2> HIDE DEF new
  <2> QED BY <1>1, <2>1, <2>2, AbsentEarned, DlWritten
<1> QED BY <1>2, <1>3

-----------------------------------------------------------------------------
\* Handlers: what a conversion request finds in the caches was earned.
LEMMA HandlersDeserved ==
  ASSUME TypeOK, Deserved, NEW c \in Clients, Ask(c) \/ Handler(c)
  PROVE  Deserved'
<1>0. session \in [Sessions -> SessionRecord] /\ req \in [Clients -> Request]
  BY DEF TypeOK, StoreOK, ReqOK
<1>1. ASSUME NEW i \in Sessions, Prepare(c, i) PROVE Deserved'
  <2>1. session' = [session EXCEPT ![i] = [Absent EXCEPT !.state = "created"]]
    BY <1>1 DEF Prepare
  <2>2. EarnedBy(i, [Absent EXCEPT !.state = "created"], fetched, encoded)
    BY DEF EarnedBy, Absent
  <2>3. \/ req' = req
        \/ req' = [req EXCEPT ![c] = [Idle EXCEPT !.pc = "prepare", !.sess = i]]
    BY <1>1 DEF Prepare
  <2>4. [Idle EXCEPT !.pc = "prepare", !.sess = i].s = Absent
    BY DEF Idle
  <2>5. \A d \in Clients : (req'[d].sess = req[d].sess /\ req'[d].s = req[d].s)
                           \/ EarnedBy(req'[d].sess, req'[d].s, fetched, encoded)
    <3> DEFINE new == [Idle EXCEPT !.pc = "prepare", !.sess = i]
    <3>1. (req' = req \/ req' = [req EXCEPT ![c] = new]) /\ new.s = Absent
      BY <2>3, <2>4
    <3> HIDE DEF new
    <3> QED BY <1>0, <3>1, AbsentEarned
  <2>6. UNCHANGED <<asset, variant, dl, cv, fetched, encoded>>
    BY <1>1 DEF Prepare, jobs, history
  <2> QED BY <1>0, <2>1, <2>2, <2>5, <2>6, DeservedKept
<1>2. ASSUME NEW i \in Sessions, NEW cut \in Cuts, ConvertRead(c, i, cut) PROVE Deserved'
  <2> DEFINE s == [session[i] EXCEPT !.cut = cut]
             new == [pc |-> "lookup", sess |-> i, s |-> s]
  <2>1. EarnedBy(i, s, fetched, encoded)
    BY AllEarned, EarnedStays
  <2>2. /\ req' = [req EXCEPT ![c] = new]
        /\ UNCHANGED <<session, asset, variant, dl, cv, fetched, encoded>>
    BY <1>2 DEF ConvertRead, store, jobs, history
  <2>3. new.sess = i /\ new.s = s
    OBVIOUS
  <2> HIDE DEF s, new
  <2>4. \A d \in Clients : (req'[d].sess = req[d].sess /\ req'[d].s = req[d].s)
                           \/ EarnedBy(req'[d].sess, req'[d].s, fetched, encoded)
    BY <2>1, <2>2, <2>3, ReqWritten
  <2> QED BY <2>2, <2>4, DeservedKept
<1>3. ASSUME NEW i \in Sessions, StatusRead(c, i) PROVE Deserved'
  <2> DEFINE new == [pc |-> "poll", sess |-> i, s |-> session[i]]
  <2>1. EarnedBy(i, session[i], fetched, encoded)
    BY AllEarned
  <2>2. /\ req' = [req EXCEPT ![c] = new]
        /\ UNCHANGED <<session, asset, variant, dl, cv, fetched, encoded>>
    BY <1>3 DEF StatusRead, store, jobs, history
  <2>3. new.sess = i /\ new.s = session[i]
    OBVIOUS
  <2> HIDE DEF new
  <2>4. \A d \in Clients : (req'[d].sess = req[d].sess /\ req'[d].s = req[d].s)
                           \/ EarnedBy(req'[d].sess, req'[d].s, fetched, encoded)
    BY <2>1, <2>2, <2>3, ReqWritten
  <2> QED BY <2>2, <2>4, DeservedKept
\* A handler that ends forgets its copy.
<1>0a. ASSUME req' = [req EXCEPT ![c] = Idle]
       PROVE  \A d \in Clients : (req'[d].sess = req[d].sess /\ req'[d].s = req[d].s)
                                \/ EarnedBy(req'[d].sess, req'[d].s, fetched', encoded')
  BY <1>0, <1>0a, AbsentEarned DEF Idle
<1>8. CASE ConvertReuse(c)
  <2> DEFINE s == req[c].s
             new == [s EXCEPT !.out = s.cut, !.state = "completed"]
  <2>1. req[c].sess \in Sessions /\ s.cut \in Cuts
    BY <1>8 DEF ConvertReuse, TypeOK, ReqOK
  <2>2. Variant(req[c].sess, s.cut) \in encoded
    BY <1>8, <2>1, VariantType DEF ConvertReuse, Deserved, NothingPremature
  <2>3. EarnedBy(req[c].sess, new, fetched, encoded)
    BY <2>2, AllEarned, EarnedStays
  <2>4. /\ session' = Updated(req[c].sess, new) /\ req' = [req EXCEPT ![c] = Idle]
        /\ UNCHANGED <<asset, variant, dl, cv, fetched, encoded>>
    BY <1>8 DEF ConvertReuse, jobs, history
  <2> HIDE DEF s, new
  <2>5. \A k \in Sessions : session'[k] = session[k]
                            \/ EarnedBy(k, session'[k], fetched', encoded')
    BY <2>1, <2>3, <2>4, UpdatedEarned
  <2> QED BY <1>0a, <2>4, <2>5, DeservedKept
<1>9. CASE ConvertLookup(c)
  <2> DEFINE i == req[c].sess
             a == AssetOf[i]
             v == Variant(i, req[c].s.cut)
             old == [req[c].s EXCEPT !.out = IF variant[v] THEN NoCut ELSE @]
             ready == stream[a] /\ (old.src \/ asset[a] = "downloaded")
             new == [old EXCEPT !.src = ready]
             final == [new EXCEPT !.state = IF ready THEN "converting" ELSE "queued"]
  <2>0. i \in Sessions
    BY <1>9 DEF ConvertLookup, TypeOK, ReqOK
  <2>1. EarnedBy(i, req[c].s, fetched, encoded) /\ req[c].s \in SessionRecord
    BY AllEarned
  <2>2. ready => a \in fetched
    BY <2>0, <2>1, PipelineAssumption
       DEF EarnedBy, Deserved, NothingPremature, SessionRecord
  <2>3. /\ old.out # NoCut => Variant(i, old.out) \in encoded
        /\ old.src = req[c].s.src
        /\ new.src = ready /\ new.out = old.out
        /\ final.src = ready /\ final.out = old.out
    BY <2>1 DEF EarnedBy, SessionRecord
  <2>4. /\ EarnedBy(i, old, fetched, encoded)
        /\ EarnedBy(i, new, fetched, encoded)
        /\ EarnedBy(i, final, fetched, encoded)
    <3> HIDE DEF old, new, final, ready, v
    <3> QED BY <2>1, <2>2, <2>3 DEF EarnedBy
  <2>5. session' = Updated(i, IF Redis THEN old ELSE new)
    BY <1>9, Zenon DEF ConvertLookup
  <2>6. \E p : req' = [req EXCEPT ![c].pc = p, ![c].s = final]
    BY <1>9, Zenon DEF ConvertLookup
  <2>7. /\ asset' \in {asset, [asset EXCEPT ![a] = "expired"]}
        /\ variant' = [variant EXCEPT ![v] = FALSE]
        /\ UNCHANGED <<dl, cv, fetched, encoded>>
    BY <1>9 DEF ConvertLookup, jobs, history
  <2> HIDE DEF old, new, final, ready, v
  <2>8. \A k \in Sessions : session'[k] = session[k]
                            \/ EarnedBy(k, session'[k], fetched', encoded')
    <3>1. EarnedBy(i, IF Redis THEN old ELSE new, fetched', encoded')
      BY <2>4, <2>7
    <3> QED BY <2>0, <2>5, <3>1, UpdatedEarned
  <2>9. \A d \in Clients : (req'[d].sess = req[d].sess /\ req'[d].s = req[d].s)
                           \/ EarnedBy(req'[d].sess, req'[d].s, fetched', encoded')
    <3>1. PICK p : req' = [req EXCEPT ![c] = [req[c] EXCEPT !.pc = p, !.s = final]]
      BY <2>6
    <3> DEFINE asked == [req[c] EXCEPT !.pc = p, !.s = final]
    <3>2. asked.sess = i /\ asked.s = final
      BY <1>0 DEF Request
    <3> HIDE DEF asked, i
    <3>3. req' = [req EXCEPT ![c] = asked]
      BY <3>1 DEF asked
    <3>4. EarnedBy(asked.sess, asked.s, fetched', encoded')
      BY <2>4, <2>7, <3>2
    <3> QED BY <3>3, <3>4, ReqWritten
  <2>10. /\ \A b \in Assets : asset'[b] = "downloaded" => asset[b] = "downloaded"
         /\ \A w \in Variants : variant'[w] => variant[w]
    BY <2>7 DEF TypeOK, StoreOK
  <2> QED BY <2>7, <2>8, <2>9, <2>10, DeservedKept
<1>10. CASE StatusStat(c)
  <2>1. /\ req' \in {[req EXCEPT ![c] = Idle], [req EXCEPT ![c] = [@ EXCEPT !.pc = "expire"]]}
        /\ UNCHANGED <<session, asset, variant, dl, cv, fetched, encoded>>
    BY <1>10 DEF StatusStat, store, jobs, history
  <2>2. \A d \in Clients : (req'[d].sess = req[d].sess /\ req'[d].s = req[d].s)
                           \/ EarnedBy(req'[d].sess, req'[d].s, fetched', encoded')
    BY <1>0, <2>1, AbsentEarned DEF Idle, Request
  <2> QED BY <2>1, <2>2, DeservedKept
<1>11. CASE StatusExpire(c)
  <2> DEFINE new == [req[c].s EXCEPT !.state = "failed", !.out = NoCut]
  <2>1. req[c].sess \in Sessions
    BY <1>11 DEF StatusExpire, TypeOK, ReqOK
  <2>2. EarnedBy(req[c].sess, new, fetched, encoded)
    BY AllEarned DEF EarnedBy, SessionRecord
  <2>3. /\ session' = Updated(req[c].sess, new) /\ req' = [req EXCEPT ![c] = Idle]
        /\ UNCHANGED <<asset, variant, dl, cv, fetched, encoded>>
    BY <1>11 DEF StatusExpire, jobs, history
  <2> HIDE DEF new
  <2>4. \A k \in Sessions : session'[k] = session[k]
                            \/ EarnedBy(k, session'[k], fetched', encoded')
    BY <2>1, <2>2, <2>3, UpdatedEarned
  <2> QED BY <1>0a, <2>3, <2>4, DeservedKept
<1>4. CASE PrepareSubmit(c)
  <2>1. req[c].sess \in Sessions
    BY <1>4 DEF PrepareSubmit, TypeOK, ReqOK
  <2>2. /\ MarkAndSubmit(req[c].sess) /\ req' = [req EXCEPT ![c] = Idle]
        /\ UNCHANGED <<session, variant, cv, fetched, encoded>>
    BY <1>4 DEF PrepareSubmit, history
  <2>3. \A d \in Clients : (req'[d].sess = req[d].sess /\ req'[d].s = req[d].s)
                           \/ EarnedBy(req'[d].sess, req'[d].s, fetched', encoded')
    BY <1>0, <2>2, AbsentEarned DEF Idle
  <2> QED BY <2>1, <2>2, <2>3, SubmitEarned, DeservedKept
<1>5. CASE ConvertEnsureDownload(c)
  <2>1. req[c].sess \in Sessions
    BY <1>5 DEF ConvertEnsureDownload, TypeOK, ReqOK
  <2>2. /\ MarkAndSubmit(req[c].sess)
        /\ req' \in {[req EXCEPT ![c] = Idle], [req EXCEPT ![c].pc = "convert"]}
        /\ UNCHANGED <<session, variant, cv, fetched, encoded>>
    BY <1>5 DEF ConvertEnsureDownload, history
  <2>3. \A d \in Clients : (req'[d].sess = req[d].sess /\ req'[d].s = req[d].s)
                           \/ EarnedBy(req'[d].sess, req'[d].s, fetched', encoded')
    BY <1>0, <2>2, AbsentEarned DEF Idle, Request
  <2> QED BY <2>1, <2>2, <2>3, SubmitEarned, DeservedKept
<1>6. CASE ConvertSubmit(c)
  <2> DEFINE fresh == [FreeCv EXCEPT !.at = "queued", !.sess = req[c].sess, !.cut = req[c].s.cut]
  <2>1. /\ req' \in {[req EXCEPT ![c] = Idle], [req EXCEPT ![c].pc = "final"]}
        /\ UNCHANGED <<session, asset, variant, dl, fetched, encoded>>
    BY <1>6 DEF ConvertSubmit, store, history
  <2>2. cv' = cv \/ \E j \in CvJobs : cv' = [cv EXCEPT ![j] = fresh]
    BY <1>6 DEF ConvertSubmit, CvAt
  <2>3. fresh.s = Absent
    BY DEF FreeCv
  <2>4. \A d \in Clients : (req'[d].sess = req[d].sess /\ req'[d].s = req[d].s)
                           \/ EarnedBy(req'[d].sess, req'[d].s, fetched', encoded')
    BY <1>0, <2>1, AbsentEarned DEF Idle, Request
  <2> HIDE DEF fresh
  <2>5. \A k \in CvJobs : (cv'[k].sess = cv[k].sess /\ cv'[k].s = cv[k].s)
                          \/ EarnedBy(cv'[k].sess, cv'[k].s, fetched', encoded')
    BY <2>2, <2>3, AbsentEarned, CvWritten
  <2> QED BY <2>1, <2>4, <2>5, DeservedKept
<1>7. CASE ConvertFinal(c)
  <2>1. req[c].sess \in Sessions
    BY <1>7 DEF ConvertFinal, TypeOK, ReqOK
  <2>2. /\ session' = Updated(req[c].sess, req[c].s) /\ req' = [req EXCEPT ![c] = Idle]
        /\ UNCHANGED <<asset, variant, dl, cv, fetched, encoded>>
    BY <1>7 DEF ConvertFinal, jobs, history
  <2>3. EarnedBy(req[c].sess, req[c].s, fetched, encoded)
    BY AllEarned
  <2>4. \A d \in Clients : (req'[d].sess = req[d].sess /\ req'[d].s = req[d].s)
                           \/ EarnedBy(req'[d].sess, req'[d].s, fetched', encoded')
    BY <1>0, <2>2, AbsentEarned DEF Idle
  <2>5. \A k \in Sessions : session'[k] = session[k]
                            \/ EarnedBy(k, session'[k], fetched', encoded')
    BY <2>1, <2>2, <2>3, UpdatedEarned
  <2> QED BY <2>2, <2>4, <2>5, DeservedKept
<1> QED BY <1>1, <1>2, <1>3, <1>4, <1>5, <1>6, <1>7, <1>8, <1>9, <1>10, <1>11 DEF Ask, Handler

\* Download workers and their timers.
LEMMA DownloadsDeserved ==
  ASSUME TypeOK, Deserved, NEW j \in DlJobs, DlBegin(j) \/ DlEnd(j) \/ DlTimer(j)
  PROVE  Deserved'
<1>0. /\ dl[j].s \in SessionRecord /\ EarnedBy(dl[j].sess, dl[j].s, fetched, encoded)
      /\ dl[j].at # "free" => dl[j].sess \in Sessions
      /\ dl[j] \in DlJob /\ asset \in [Assets -> AssetStates]
  BY AllEarned DEF TypeOK, StoreOK, DlOK
<1>1. FreeDl.s = Absent
  BY DEF FreeDl
\* A job that is freed, or that changes its place and perhaps drops its copy.
<1>2. ASSUME NEW new, dl' = [dl EXCEPT ![j] = new], new.s = Absent
      PROVE  \A k \in DlJobs : (dl'[k].sess = dl[k].sess /\ dl'[k].s = dl[k].s)
                               \/ EarnedBy(dl'[k].sess, dl'[k].s, fetched', encoded')
  BY <1>2, AbsentEarned, DlWritten
<1>3. CASE DlDiscard(j)
  <2>1. /\ dl' = [dl EXCEPT ![j] = FreeDl]
        /\ UNCHANGED <<session, asset, variant, cv, req, fetched, encoded>>
    BY <1>3 DEF DlDiscard, store, history
  <2> QED BY <1>1, <1>2, <2>1, DeservedKept
<1>4. CASE DlStart(j)
  <2> DEFINE s == [session[dl[j].sess] EXCEPT !.state = "downloading"]
             new == [dl[j] EXCEPT !.at = "running", !.s = s]
  <2>1. dl[j].sess \in Sessions
    BY <1>0, <1>4 DEF DlStart
  <2>2. EarnedBy(dl[j].sess, s, fetched, encoded)
    BY <2>1, AllEarned, EarnedStays
  <2>3. /\ session' = Updated(dl[j].sess, s)
        /\ dl' = [dl EXCEPT ![j].at = "running", ![j].s = s]
        /\ UNCHANGED <<asset, variant, cv, req, fetched, encoded>>
    BY <1>4 DEF DlStart, history
  <2>4. new.sess = dl[j].sess /\ new.s = s
    BY <1>0 DEF DlJob
  <2>5. dl' = [dl EXCEPT ![j] = new]
    <3> HIDE DEF s
    <3> QED BY <2>3
  <2> HIDE DEF s, new
  <2>6. \A k \in DlJobs : (dl'[k].sess = dl[k].sess /\ dl'[k].s = dl[k].s)
                          \/ EarnedBy(dl'[k].sess, dl'[k].s, fetched, encoded)
    BY <2>2, <2>4, <2>5, DlWritten
  <2>7. \A k \in Sessions : session'[k] = session[k]
                            \/ EarnedBy(k, session'[k], fetched, encoded)
    BY <2>1, <2>2, <2>3, UpdatedEarned
  <2> QED BY <2>3, <2>6, <2>7, DeservedKept
<1>5. CASE DlSucceed(j)
  <2> DEFINE a == AssetOfDl(j)
             s == [dl[j].s EXCEPT !.src = TRUE, !.state = "downloaded"]
  <2>1. dl[j].sess \in Sessions /\ a = AssetOf[dl[j].sess]
    BY <1>0, <1>5 DEF DlSucceed, AssetOfDl
  <2>2. /\ session' = Updated(dl[j].sess, s)
        /\ asset' = [asset EXCEPT ![a] = "downloaded"]
        /\ fetched' = fetched \cup {a}
        /\ dl' = [dl EXCEPT ![j] = FreeDl]
        /\ UNCHANGED <<variant, cv, req, encoded>>
    BY <1>5 DEF DlSucceed
  <2>3. EarnedBy(dl[j].sess, s, fetched', encoded')
    BY <1>0, <2>1, <2>2, EarnedStays
  <2> HIDE DEF a, s
  <2>4. \A k \in Sessions : session'[k] = session[k]
                            \/ EarnedBy(k, session'[k], fetched', encoded')
    BY <2>1, <2>2, <2>3, UpdatedEarned
  <2> QED BY <1>0, <1>1, <1>2, <2>2, <2>4, DeservedKept
<1>6. CASE DlRetry(j)
  <2> DEFINE new == [dl[j] EXCEPT !.at = "backoff", !.attempts = @ + 1, !.s = Absent]
  <2>1. dl' = [dl EXCEPT ![j] = new] /\ new.s = Absent
    BY <1>0, <1>6 DEF DlRetry, DlJob
  <2>2. UNCHANGED <<session, asset, variant, cv, req, fetched, encoded>>
    BY <1>6 DEF DlRetry, store, history
  <2> HIDE DEF new
  <2> QED BY <1>2, <2>1, <2>2, DeservedKept
<1>7. CASE DlGiveUp(j)
  <2> DEFINE s == [dl[j].s EXCEPT !.state = "failed"]
  <2>1. dl[j].sess \in Sessions
    BY <1>0, <1>7 DEF DlGiveUp
  <2>2. /\ session' = Updated(dl[j].sess, s)
        /\ asset' = [asset EXCEPT ![AssetOfDl(j)] = "failed"]
        /\ dl' = [dl EXCEPT ![j] = FreeDl]
        /\ UNCHANGED <<variant, cv, req, fetched, encoded>>
    BY <1>7 DEF DlGiveUp, history
  <2>3. EarnedBy(dl[j].sess, s, fetched, encoded)
    BY <1>0, EarnedStays
  <2> HIDE DEF s
  <2>4. \A k \in Sessions : session'[k] = session[k]
                            \/ EarnedBy(k, session'[k], fetched, encoded)
    BY <2>1, <2>2, <2>3, UpdatedEarned
  <2> QED BY <1>0, <1>1, <1>2, <2>2, <2>4, DeservedKept
<1>8. CASE DlTimer(j)
  <2>1. UNCHANGED <<session, asset, variant, cv, req, fetched, encoded>>
    BY <1>8 DEF DlTimer, store, history
  <2>2. CASE dl' = [dl EXCEPT ![j] = FreeDl]
    BY <1>1, <1>2, <2>1, <2>2, DeservedKept
  <2>3. CASE dl' = [dl EXCEPT ![j].at = "queued"]
    <3>1. \A k \in DlJobs : dl'[k].sess = dl[k].sess /\ dl'[k].s = dl[k].s
      BY <2>3 DEF TypeOK, DlOK, DlJob
    <3> QED BY <2>1, <3>1, DeservedKept
  <2> QED BY <1>8, <2>2, <2>3 DEF DlTimer
<1> QED BY <1>3, <1>4, <1>5, <1>6, <1>7, <1>8 DEF DlBegin, DlEnd

\* Conversion workers and their timers: only a finished ffmpeg run lets a
\* session or the variant cache name an output.
LEMMA ConversionsDeserved ==
  ASSUME TypeOK, Deserved, NEW j \in CvJobs,
         CvTake(j) \/ CvDecide(j) \/ CvWrite(j) \/ CvEnd(j) \/ CvTimer(j)
  PROVE  Deserved'
<1>0. /\ cv[j].s \in SessionRecord /\ EarnedBy(cv[j].sess, cv[j].s, fetched, encoded)
      /\ cv[j].at # "free" => cv[j].sess \in Sessions
      /\ cv[j] \in CvJob /\ asset \in [Assets -> AssetStates]
  BY AllEarned DEF TypeOK, StoreOK, CvOK
<1>1. FreeCv.s = Absent
  BY DEF FreeCv
<1>2. ASSUME NEW new, cv' = [cv EXCEPT ![j] = new],
             new.s = Absent
             \/ (new.sess = cv[j].sess /\ EarnedBy(cv[j].sess, new.s, fetched', encoded'))
      PROVE  \A k \in CvJobs : (cv'[k].sess = cv[k].sess /\ cv'[k].s = cv[k].s)
                               \/ EarnedBy(cv'[k].sess, cv'[k].s, fetched', encoded')
  BY <1>2, AbsentEarned, CvWritten
\* A job that leaves for a timer drops its copy.
<1>3. ASSUME cv' = [cv EXCEPT ![j].at = "backoff", ![j].s = Absent]
      PROVE  \A k \in CvJobs : (cv'[k].sess = cv[k].sess /\ cv'[k].s = cv[k].s)
                               \/ EarnedBy(cv'[k].sess, cv'[k].s, fetched', encoded')
  <2> DEFINE new == [cv[j] EXCEPT !.at = "backoff", !.s = Absent]
  <2>1. new.s = Absent /\ cv' = [cv EXCEPT ![j] = new]
    BY <1>0, <1>3 DEF CvJob
  <2> HIDE DEF new
  <2> QED BY <1>2, <2>1
<1>4. CASE CvDiscard(j)
  <2>1. /\ cv' = [cv EXCEPT ![j] = FreeCv]
        /\ UNCHANGED <<session, asset, variant, dl, req, fetched, encoded>>
    BY <1>4 DEF CvDiscard, store, history
  <2> QED BY <1>1, <1>2, <2>1, DeservedKept
<1>5. CASE CvFetch(j)
  <2>0. cv[j].sess \in Sessions
    BY <1>0, <1>5 DEF CvFetch
  <2>1. PICK s : /\ EarnedBy(cv[j].sess, s, fetched, encoded)
                 /\ session' = Updated(cv[j].sess, s)
                 /\ cv' = [cv EXCEPT ![j].at = "fetched", ![j].s = s]
    <3>1. EarnedBy(cv[j].sess, session[cv[j].sess], fetched, encoded)
      BY <2>0, AllEarned
    <3>2. asset[AssetOf[cv[j].sess]] = "downloaded" => AssetOf[cv[j].sess] \in fetched
      BY <2>0, PipelineAssumption DEF Deserved, NothingPremature
    <3>3. asset[AssetOf[cv[j].sess]] = "downloaded" =>
            EarnedBy(cv[j].sess, [session[cv[j].sess] EXCEPT !.src = TRUE, !.state = "downloaded"],
                     fetched, encoded)
      BY <2>0, <3>1, <3>2, AllEarned, EarnedStays
    <3> QED BY <1>5, <3>1, <3>3 DEF CvFetch
  <2>2. /\ \A b \in Assets : asset'[b] = "downloaded" => asset[b] = "downloaded"
        /\ UNCHANGED <<variant, dl, req, fetched, encoded>>
    BY <1>0, <1>5 DEF CvFetch, history
  <2> DEFINE new == [cv[j] EXCEPT !.at = "fetched", !.s = s]
  <2>3. new.sess = cv[j].sess /\ new.s = s /\ cv' = [cv EXCEPT ![j] = new]
    BY <1>0, <2>1 DEF CvJob
  <2> HIDE DEF new
  <2>4. \A k \in CvJobs : (cv'[k].sess = cv[k].sess /\ cv'[k].s = cv[k].s)
                          \/ EarnedBy(cv'[k].sess, cv'[k].s, fetched', encoded')
    BY <1>2, <2>1, <2>2, <2>3
  <2>5. \A k \in Sessions : session'[k] = session[k]
                            \/ EarnedBy(k, session'[k], fetched, encoded)
    BY <2>0, <2>1, UpdatedEarned
  <2> QED BY <2>2, <2>4, <2>5, DeservedKept
<1>6. CASE CvBounce(j)
  <2>1. cv[j].sess \in Sessions
    BY <1>0, <1>6 DEF CvBounce
  <2>2. /\ cv' = [cv EXCEPT ![j].at = "backoff", ![j].s = Absent]
        /\ UNCHANGED <<session, variant, req, fetched, encoded>>
        /\ UNCHANGED <<asset, dl>> \/ MarkAndSubmit(cv[j].sess)
    BY <1>6 DEF CvBounce, history
  <2>3. CASE UNCHANGED <<asset, dl>>
    BY <1>3, <2>2, <2>3, DeservedKept
  <2>4. CASE MarkAndSubmit(cv[j].sess)
    BY <1>3, <2>1, <2>2, <2>4, SubmitEarned, DeservedKept
  <2> QED BY <2>2, <2>3, <2>4
<1>7. CASE CvStale(j)
  <2>1. cv[j].sess \in Sessions
    BY <1>0, <1>7 DEF CvStale
  <2>2. /\ session' = Updated(cv[j].sess, [cv[j].s EXCEPT !.src = FALSE])
        /\ cv' = [cv EXCEPT ![j].at = "backoff", ![j].s = Absent]
        /\ asset' = [asset EXCEPT ![AssetOfCv(j)] = "expired"]
        /\ UNCHANGED <<variant, dl, req, fetched, encoded>>
    BY <1>7 DEF CvStale, history
  <2>3. EarnedBy(cv[j].sess, [cv[j].s EXCEPT !.src = FALSE], fetched, encoded)
    BY <1>0, EarnedStays
  <2>4. \A k \in Sessions : session'[k] = session[k]
                            \/ EarnedBy(k, session'[k], fetched, encoded)
    BY <2>1, <2>2, <2>3, UpdatedEarned
  <2> QED BY <1>0, <1>3, <2>2, <2>4, DeservedKept
<1>8. CASE CvBegin(j)
  <2> DEFINE s == [cv[j].s EXCEPT !.state = "converting"]
             cut == IF s.cut = NoCut THEN cv[j].cut ELSE s.cut
             named == [s EXCEPT !.cut = IF @ = NoCut THEN cv[j].cut ELSE @]
             new == [cv[j] EXCEPT !.at = "begun", !.s = named]
  <2>1. cv[j].sess \in Sessions
    BY <1>0, <1>8 DEF CvBegin
  <2>2. /\ session' = Updated(cv[j].sess, IF Redis THEN s ELSE named)
        /\ cv' = [cv EXCEPT ![j] = new]
        /\ UNCHANGED <<asset, variant, dl, req, fetched, encoded>>
    <3>1. session' = Updated(cv[j].sess, IF Redis THEN s ELSE named)
      BY <1>8, Zenon DEF CvBegin
    <3>2. cv' = [cv EXCEPT ![j].at = "begun", ![j].s = named]
      BY <1>8, Zenon DEF CvBegin
    <3>3. UNCHANGED <<asset, variant, dl, req, fetched, encoded>>
      BY <1>8 DEF CvBegin, history
    <3> HIDE DEF named
    <3>4. cv' = [cv EXCEPT ![j] = new]
      BY <3>2
    <3> QED BY <3>1, <3>3, <3>4
  <2>3. s.src = cv[j].s.src /\ s.out = cv[j].s.out /\ named.src = s.src /\ named.out = s.out
    BY <1>0 DEF SessionRecord
  <2>4. EarnedBy(cv[j].sess, s, fetched, encoded) /\ EarnedBy(cv[j].sess, named, fetched, encoded)
    <3> HIDE DEF s, named
    <3> QED BY <1>0, <2>3 DEF EarnedBy
  <2>5. new.sess = cv[j].sess /\ new.s = named
    <3> HIDE DEF named
    <3> QED BY <1>0 DEF CvJob
  <2> HIDE DEF s, named, new
  <2>6. \A k \in CvJobs : (cv'[k].sess = cv[k].sess /\ cv'[k].s = cv[k].s)
                          \/ EarnedBy(cv'[k].sess, cv'[k].s, fetched', encoded')
    BY <1>2, <2>2, <2>4, <2>5
  <2>7. \A k \in Sessions : session'[k] = session[k]
                            \/ EarnedBy(k, session'[k], fetched, encoded)
    BY <2>1, <2>2, <2>4, UpdatedEarned
  <2> QED BY <2>2, <2>6, <2>7, DeservedKept
<1>13. CASE CvWrite(j)
  <2>1. UNCHANGED <<session, asset, variant, dl, req, fetched, encoded>>
    BY <1>13 DEF CvWrite, store, history
  <2>2. \E x : \A k \in CvJobs : cv'[k] = cv[k] \/ cv'[k] = [cv[k] EXCEPT !.at = x]
    BY <1>13, Zenon DEF CvWrite
  <2>3. \A k \in CvJobs : cv'[k].sess = cv[k].sess /\ cv'[k].s = cv[k].s
    BY <2>2 DEF TypeOK, CvOK, CvJob
  <2> QED BY <2>1, <2>3, DeservedKept
<1>9. CASE CvTimer(j)
  <2>1. UNCHANGED <<session, asset, variant, dl, req, fetched, encoded>>
    BY <1>9 DEF CvTimer, store, history
  <2>2. \/ cv' = [cv EXCEPT ![j] = FreeCv]
        \/ \E x : cv' = [cv EXCEPT ![j].at = x]
    BY <1>9 DEF CvTimer
  <2>3. \A k \in CvJobs : (cv'[k].sess = cv[k].sess /\ cv'[k].s = cv[k].s)
                          \/ EarnedBy(cv'[k].sess, cv'[k].s, fetched', encoded')
    <3>1. CASE cv' = [cv EXCEPT ![j] = FreeCv]
      BY <1>1, <1>2, <3>1
    <3>2. ASSUME NEW x, cv' = [cv EXCEPT ![j].at = x]
          PROVE  \A k \in CvJobs : cv'[k].sess = cv[k].sess /\ cv'[k].s = cv[k].s
      BY <3>2 DEF TypeOK, CvOK, CvJob
    <3> QED BY <2>2, <3>1, <3>2
  <2> QED BY <2>1, <2>3, DeservedKept
<1>10. CASE CvSucceed(j)
  <2> DEFINE v == Path(j)
             s == [cv[j].s EXCEPT !.out = cv[j].s.cut, !.state = "completed"]
  <2>1. cv[j].sess \in Sessions /\ v = Variant(cv[j].sess, cv[j].s.cut)
    BY <1>0, <1>10 DEF CvSucceed, Encoding, Path
  <2>2. /\ session' = Updated(cv[j].sess, s)
        /\ variant' = [variant EXCEPT ![v] = TRUE]
        /\ encoded' = encoded \cup {v}
        /\ cv' = [cv EXCEPT ![j] = FreeCv]
        /\ UNCHANGED <<asset, dl, req, fetched>>
    BY <1>10 DEF CvSucceed
  <2>3. EarnedBy(cv[j].sess, s, fetched', encoded')
    BY <1>0, <2>1, <2>2, EarnedStays
  <2> HIDE DEF v, s
  <2>4. \A k \in Sessions : session'[k] = session[k]
                            \/ EarnedBy(k, session'[k], fetched', encoded')
    BY <2>1, <2>2, <2>3, UpdatedEarned
  <2>5. \A w \in Variants : variant'[w] => variant[w] \/ w \in encoded'
    BY <2>2 DEF TypeOK, StoreOK
  <2> QED BY <1>1, <1>2, <2>2, <2>4, <2>5, DeservedKept
<1>11. CASE CvRetry(j)
  <2> DEFINE new == [cv[j] EXCEPT !.at = "backoff", !.attempts = @ + 1, !.s = Absent]
  <2>1. cv' = [cv EXCEPT ![j] = new] /\ new.s = Absent
    BY <1>0, <1>11 DEF CvRetry, CvJob
  <2>2. UNCHANGED <<session, asset, variant, dl, req, fetched, encoded>>
    BY <1>11 DEF CvRetry, store, history
  <2> HIDE DEF new
  <2> QED BY <1>2, <2>1, <2>2, DeservedKept
<1>12. CASE CvGiveUp(j)
  <2>1. cv[j].sess \in Sessions
    BY <1>0, <1>12 DEF CvGiveUp, Encoding
  <2>2. /\ session' = Updated(cv[j].sess, [cv[j].s EXCEPT !.state = "failed"])
        /\ cv' = [cv EXCEPT ![j] = FreeCv]
        /\ UNCHANGED <<asset, variant, dl, req, fetched, encoded>>
    BY <1>12 DEF CvGiveUp, history
  <2>3. EarnedBy(cv[j].sess, [cv[j].s EXCEPT !.state = "failed"], fetched, encoded)
    BY <1>0, EarnedStays
  <2>4. \A k \in Sessions : session'[k] = session[k]
                            \/ EarnedBy(k, session'[k], fetched, encoded)
    BY <2>1, <2>2, <2>3, UpdatedEarned
  <2> QED BY <1>1, <1>2, <2>2, <2>4, DeservedKept
<1> QED BY <1>4, <1>5, <1>6, <1>7, <1>8, <1>9, <1>10, <1>11, <1>12, <1>13
        DEF CvTake, CvDecide, CvEnd

\* Deletions, the cleanup and expiring keys only take away.
LEMMA RestDeserved ==
  ASSUME TypeOK, Deserved,
         Sweep \/ KeysExpire \/ \E i \in Sessions : Delete(i)
  PROVE  Deserved'
<1>0. session \in [Sessions -> SessionRecord] /\ cv \in [CvJobs -> CvJob]
  BY DEF TypeOK, StoreOK, CvOK
\* Whoever writes to a removed output keeps its copy.
<1>1. ASSUME NEW v, RemoveOutput(v)
      PROVE  \A k \in CvJobs : cv'[k].sess = cv[k].sess /\ cv'[k].s = cv[k].s
  BY <1>0, <1>1 DEF RemoveOutput, CvJob
<1>3. ASSUME NEW i \in Sessions, Delete(i) PROVE Deserved'
  <2>1. /\ session' = [session EXCEPT ![i] = Absent]
        /\ UNCHANGED cv \/ \E v : RemoveOutput(v)
        /\ UNCHANGED <<asset, variant, dl, req, fetched, encoded>>
    BY <1>3 DEF Delete
  <2>2. \A k \in CvJobs : cv'[k].sess = cv[k].sess /\ cv'[k].s = cv[k].s
    BY <1>1, <2>1
  <2> QED BY <1>0, <2>1, <2>2, AbsentEarned, DeservedKept
<1>4. CASE Sweep \/ KeysExpire
  <2>1. ASSUME NEW v \in Variants, CleanOutput(v) PROVE Deserved'
    BY <1>1, <2>1, DeservedKept DEF CleanOutput, store, history
  <2>2. ASSUME NEW a \in Assets, CleanStream(a) PROVE Deserved'
    BY <2>2, DeservedKept DEF CleanStream, store, jobs, history
  <2>3. ASSUME NEW a \in Assets, ExpireAsset(a) PROVE Deserved'
    BY <2>3, DeservedKept DEF ExpireAsset, jobs, history, TypeOK, StoreOK
  <2>4. ASSUME NEW v \in Variants, ExpireVariant(v) PROVE Deserved'
    BY <2>4, DeservedKept DEF ExpireVariant, jobs, history, TypeOK, StoreOK
  <2> QED BY <1>4, <2>1, <2>2, <2>3, <2>4 DEF Sweep, KeysExpire
<1> QED BY <1>3, <1>4

LEMMA DeservedInit == Init => Deserved
<1> SUFFICES ASSUME Init PROVE Deserved
  OBVIOUS
<1>1. NothingPremature
  BY DEF Init, NothingPremature, Earned, Absent
<1>2. CopiesEarned
  BY DEF Init, CopiesEarned, Earned, Absent, FreeDl, FreeCv, Idle
<1> QED BY <1>1, <1>2 DEF Deserved

\* No step writes a record, a copy or a cache entry that is not earned.
LEMMA DeservedStep == TypeOK /\ Deserved /\ [Next]_vars => Deserved'
<1> SUFFICES ASSUME TypeOK, Deserved, [Next]_vars PROVE Deserved'
  OBVIOUS
<1>1. CASE UNCHANGED vars
  BY <1>1 DEF vars, store, jobs, history, Deserved, NothingPremature, CopiesEarned, Earned
<1> QED BY <1>1, HandlersDeserved, DownloadsDeserved, ConversionsDeserved, RestDeserved
        DEF Next, Work

\* No source, output or variant mapping is announced before some download
\* or encoding of it was finished, whichever stale copies are written back.
THEOREM NothingIsPremature == SafeSpec => []NothingPremature
<1>1. Init => Deserved
  BY DeservedInit
<1>2. TypeOK /\ Deserved /\ [Next]_vars => Deserved'
  BY DeservedStep
<1>3. Deserved => NothingPremature
  BY DEF Deserved
<1> QED BY <1>1, <1>2, <1>3, TypeCorrect, PTL DEF SafeSpec

-----------------------------------------------------------------------------
\* A step that touches one job, and brings it forward or frees it.
LEMMA OneProgresses ==
  ASSUME TypeOK, NEW j \in DlJobs, NEW new, dl' = [dl EXCEPT ![j] = new],
         \/ new.at = "free"
         \/ /\ new.sess = dl[j].sess
            /\ Progress(dl[j]) < Progress(new) /\ Progress(new) < 3 * Tries
  PROVE  \A k \in DlJobs : dl[k].at # "free" /\ dl'[k] # dl[k] =>
           \/ dl'[k].at = "free"
           \/ /\ dl'[k].sess = dl[k].sess
              /\ Progress(dl[k]) < Progress(dl'[k]) /\ Progress(dl'[k]) < 3 * Tries
BY DEF TypeOK, DlOK

\* Between two attempts the numbers grow, and they stay below the budget.
LEMMA ProgressFacts ==
  ASSUME TypeOK, NEW j \in DlJobs
  PROVE  /\ dl[j].attempts \in Nat /\ dl[j].attempts < Tries /\ Tries \in Nat
         /\ dl[j] = [at |-> dl[j].at, sess |-> dl[j].sess, attempts |-> dl[j].attempts, s |-> dl[j].s]
<1>1. dl[j] \in DlJob /\ (dl[j].attempts > 0 => dl[j].attempts < MaxJobRetries)
  BY DEF TypeOK, DlOK
<1> QED BY <1>1, PipelineAssumption DEF DlJob, Tries

\* Every step of any actor keeps the job's progress or brings it forward.
LEMMA DownloadStep ==
  ASSUME TypeOK, Next
  PROVE  \A job \in DlJobs : Advances(job)
<1> DEFINE Forward == \A job \in DlJobs : Advances(job)
<1> USE DEF Advances
<1>1. dl' = dl => Forward
  OBVIOUS
<1>2. FreeDl.at = "free"
  BY DEF FreeDl
<1>3. ASSUME NEW i, MarkAndSubmit(i) PROVE Forward
  <2>1. CASE DlFull
    BY <1>1, <1>3, <2>1 DEF MarkAndSubmit
  <2>2. CASE ~DlFull
    <3>1. PICK k \in DlJobs : dl[k].at = "free" /\ dl' = [dl EXCEPT ![k] =
                                  [FreeDl EXCEPT !.at = "queued", !.sess = i]]
      BY <1>3, <2>2 DEF MarkAndSubmit, DlAt
    <3> QED BY <3>1 DEF TypeOK, DlOK
  <2> QED BY <2>1, <2>2
<1>4. ASSUME NEW c \in Clients, Ask(c) \/ Handler(c) PROVE Forward
  BY <1>1, <1>3, <1>4
     DEF Ask, Handler, Prepare, ConvertRead, StatusRead, PrepareSubmit, ConvertReuse,
         ConvertLookup, ConvertEnsureDownload, ConvertSubmit, ConvertFinal, StatusStat,
         StatusExpire, jobs
<1>5. ASSUME NEW j \in DlJobs, DlBegin(j) \/ DlEnd(j) \/ DlTimer(j) PROVE Forward
  <2> DEFINE n == dl[j].attempts
  <2>0. n \in Nat /\ n < Tries /\ MaxJobRetries \in Nat /\ Tries \in Nat
        /\ Tries >= MaxJobRetries
    <3>1. dl[j].attempts \in Nat /\ dl[j].attempts < Tries /\ Tries \in Nat
      BY ProgressFacts
    <3>2. MaxJobRetries \in Nat
      BY PipelineAssumption
    <3> QED BY <3>1, <3>2 DEF Tries
  <2> HIDE DEF n
  <2>1. CASE DlDiscard(j) \/ DlSucceed(j) \/ DlGiveUp(j) \/ (DlTimer(j) /\ DlFull)
    <3>1. dl' = [dl EXCEPT ![j] = FreeDl]
      BY <2>1 DEF DlDiscard, DlSucceed, DlGiveUp, DlTimer
    <3> QED BY <1>2, <3>1, OneProgresses
  <2>2. CASE DlStart(j)
    <3> DEFINE s == [session[dl[j].sess] EXCEPT !.state = "downloading"]
               new == [dl[j] EXCEPT !.at = "running", !.s = s]
    <3>1. dl' = [dl EXCEPT ![j] = new] /\ dl[j].at = "queued"
      BY <2>2, ProgressFacts DEF DlStart, TypeOK, DlOK, n
    <3>2. new.sess = dl[j].sess /\ new.at = "running" /\ new.attempts = n
      BY ProgressFacts DEF n
    <3> HIDE DEF new
    <3>3. Progress(dl[j]) = 3 * n + 1 /\ Progress(new) = 3 * n + 2
      BY <2>0, <3>1, <3>2 DEF Progress, n
    <3> QED BY <3>1, <3>2, <3>3, <2>0, OneProgresses
  <2>3. CASE DlRetry(j)
    <3> DEFINE new == [dl[j] EXCEPT !.at = "backoff", !.attempts = @ + 1, !.s = Absent]
    <3>1. dl' = [dl EXCEPT ![j] = new] /\ dl[j].at = "running"
          /\ n + 1 < MaxJobRetries
      BY <2>3, ProgressFacts DEF DlRetry, TypeOK, DlOK, n
    <3>2. new.sess = dl[j].sess /\ new.at = "backoff" /\ new.attempts = n + 1
      BY ProgressFacts DEF n
    <3> HIDE DEF new
    <3>3. new.attempts < Tries
      BY <2>0, <3>1, <3>2
    <3>4. /\ Progress(dl[j]) = 3 * n + 2
          /\ Progress(new) = 3 * (n + 1)
      BY <2>0, <3>1, <3>2 DEF Progress, n
    <3> QED BY <3>1, <3>2, <3>3, <3>4, <2>0, OneProgresses
  <2>4. CASE DlTimer(j) /\ ~DlFull
    <3> DEFINE new == [dl[j] EXCEPT !.at = "queued"]
    <3>1. dl' = [dl EXCEPT ![j] = new] /\ dl[j].at = "backoff"
      BY <2>4 DEF DlTimer, n
    <3>2. new.sess = dl[j].sess /\ new.at = "queued" /\ new.attempts = n
      BY ProgressFacts DEF n
    <3> HIDE DEF new
    <3>3. Progress(dl[j]) = 3 * n /\ Progress(new) = 3 * n + 1
      BY <2>0, <3>1, <3>2 DEF Progress, n
    <3> QED BY <3>1, <3>2, <3>3, <2>0, OneProgresses
  <2> QED BY <1>5, <2>1, <2>2, <2>3, <2>4 DEF DlBegin, DlEnd
<1>6. ASSUME NEW j \in CvJobs,
             CvTake(j) \/ CvDecide(j) \/ CvWrite(j) \/ CvEnd(j) \/ CvTimer(j)
      PROVE Forward
  <2>1. CASE CvBounce(j)
    BY <1>1, <1>3, <2>1 DEF CvBounce
  <2>2. CASE ~CvBounce(j)
    BY <1>1, <1>6, <2>2 DEF CvTake, CvDecide, CvDiscard, CvFetch, CvStale, CvBegin, CvWrite,
                            CvEnd, CvSucceed, CvRetry, CvGiveUp, CvTimer
  <2> QED BY <2>1, <2>2
<1>7. CASE (\E i \in Sessions : Delete(i)) \/ Sweep \/ KeysExpire
  BY <1>1, <1>7 DEF Delete, Sweep, KeysExpire, CleanStream, CleanOutput, ExpireAsset,
                    ExpireVariant, jobs
<1> QED BY <1>4, <1>5, <1>6, <1>7 DEF Next, Work

\* A download job moves only forward: queued, running, asleep with one more
\* attempt counted, and not beyond the last attempt.  Hence it ends after at
\* most three steps for each attempt, however often it fails.
THEOREM DownloadsMoveForward == SafeSpec => DownloadsProgress
<1>1. TypeOK /\ [Next]_vars => [\A j \in DlJobs : Advances(j)]_vars
  BY DownloadStep
<1> QED BY <1>1, TypeCorrect, PTL DEF SafeSpec, DownloadsProgress

-----------------------------------------------------------------------------

\* What a step may do to one download job: submit it, for a handler or a
\* conversion that goes forward; end it; or take it to its next place.
DlSubmitted(j) ==
    /\ dl[j].at = "free" /\ dl'[j].at = "queued" /\ ~DlFull
    /\ \/ \E c \in Clients : /\ req[c].pc \in {"prepare", "download"}
                             /\ req[c].sess = dl'[j].sess /\ req'[c] # req[c]
       \/ \E k \in CvJobs : /\ cv[k].at = "fetched" /\ cv[k].sess = dl'[j].sess
                            /\ cv'[k] # cv[k]
DlRoom(j) == dl[j].at = "queued" => Cardinality(DlAt(InWorker)) < WorkerPoolSize
DlEnded(j) == dl[j].at # "free" /\ dl'[j] = FreeDl /\ DlRoom(j)
DlForward(j) ==
    /\ dl'[j].sess = dl[j].sess /\ DlRoom(j)
    /\ \/ dl[j].at = "queued" /\ dl'[j].at = "running" /\ Exists(dl[j].sess)
       \/ dl[j].at = "running" /\ dl'[j].at = "backoff"
       \/ dl[j].at = "backoff" /\ dl'[j].at = "queued" /\ ~DlFull
DlMoves(j) == /\ \A k \in DlJobs \ {j} : dl'[k] = dl[k]
              /\ DlSubmitted(j) \/ DlEnded(j) \/ DlForward(j)

\* A submission takes one free job to the queue, or is refused.
LEMMA SubmitMoves ==
  ASSUME TypeOK, NEW i \in Sessions, MarkAndSubmit(i)
  PROVE  \/ dl' = dl
         \/ \E j \in DlJobs : /\ \A k \in DlJobs \ {j} : dl'[k] = dl[k]
                              /\ dl[j].at = "free" /\ ~DlFull
                              /\ dl'[j].at = "queued" /\ dl'[j].sess = i
<1>1. CASE DlFull
  BY <1>1 DEF MarkAndSubmit
<1>2. CASE ~DlFull
  <2> DEFINE new == [FreeDl EXCEPT !.at = "queued", !.sess = i]
  <2>1. PICK j \in DlJobs : dl[j].at = "free" /\ dl' = [dl EXCEPT ![j] = new]
    BY <1>2 DEF MarkAndSubmit, DlAt
  <2>2. new.at = "queued" /\ new.sess = i
    BY DEF FreeDl
  <2> HIDE DEF new
  <2>3. dl \in [DlJobs -> DlJob]
    BY DEF TypeOK, DlOK
  <2> QED BY <1>2, <2>1, <2>2, <2>3
<1> QED BY <1>1, <1>2

\* Every step leaves the download jobs alone or moves one of them.
LEMMA DlSteps ==
  ASSUME TypeOK, Next
  PROVE  dl' = dl \/ \E j \in DlJobs : DlMoves(j)
<1> DEFINE Moved == dl' = dl \/ \E j \in DlJobs : DlMoves(j)
<1>0. dl \in [DlJobs -> DlJob]
  BY DEF TypeOK, DlOK
<1>1. ASSUME NEW c \in Clients, Ask(c) PROVE Moved
  BY <1>1 DEF Ask, Prepare, ConvertRead, StatusRead, jobs
<1>2. ASSUME NEW c \in Clients, Handler(c) PROVE Moved
  <2>0. /\ req \in [Clients -> Request]
        /\ req[c].pc # "idle" => req[c].sess \in Sessions
    BY DEF TypeOK, ReqOK
  <2>1. CASE PrepareSubmit(c)
    <3>1. req'[c] # req[c] /\ req[c].pc = "prepare" /\ MarkAndSubmit(req[c].sess)
      BY <2>0, <2>1 DEF PrepareSubmit, Idle
    <3> QED BY <2>0, <3>1, SubmitMoves DEF DlMoves, DlSubmitted
  <2>2. CASE ConvertEnsureDownload(c)
    <3>1. req'[c].pc # "download" /\ req[c].pc = "download" /\ MarkAndSubmit(req[c].sess)
      BY <2>0, <2>2 DEF ConvertEnsureDownload, Idle, Request
    <3> QED BY <2>0, <3>1, SubmitMoves DEF DlMoves, DlSubmitted
  <2>3. CASE \/ ConvertReuse(c) \/ ConvertLookup(c) \/ ConvertSubmit(c) \/ ConvertFinal(c)
             \/ StatusStat(c) \/ StatusExpire(c)
    BY <2>3 DEF ConvertReuse, ConvertLookup, ConvertSubmit, ConvertFinal, StatusStat,
                StatusExpire, jobs
  <2> QED BY <1>2, <2>1, <2>2, <2>3 DEF Handler
<1>3. ASSUME NEW j \in DlJobs, DlBegin(j) \/ DlEnd(j) \/ DlTimer(j) PROVE Moved
  <2>1. CASE DlDiscard(j) \/ DlSucceed(j) \/ DlGiveUp(j) \/ (DlTimer(j) /\ DlFull)
    <3>1. /\ dl' = [dl EXCEPT ![j] = FreeDl]
          /\ dl[j].at # "free"
          /\ dl[j].at = "queued" => Cardinality(DlAt(InWorker)) < WorkerPoolSize
      BY <2>1 DEF DlDiscard, DlSucceed, DlGiveUp, DlTimer
    <3> QED BY <1>0, <3>1 DEF DlMoves, DlEnded, DlRoom
  <2>2. CASE DlStart(j)
    <3> DEFINE s == [session[dl[j].sess] EXCEPT !.state = "downloading"]
               new == [dl[j] EXCEPT !.at = "running", !.s = s]
    <3>1. /\ dl' = [dl EXCEPT ![j] = new] /\ dl[j].at = "queued" /\ Exists(dl[j].sess)
          /\ Cardinality(DlAt(InWorker)) < WorkerPoolSize
      BY <1>0, <2>2 DEF DlStart, DlJob
    <3>2. new.at = "running" /\ new.sess = dl[j].sess
      BY <1>0 DEF DlJob
    <3> HIDE DEF new
    <3> QED BY <1>0, <3>1, <3>2 DEF DlMoves, DlForward, DlRoom
  <2>3. CASE DlRetry(j)
    <3> DEFINE new == [dl[j] EXCEPT !.at = "backoff", !.attempts = @ + 1, !.s = Absent]
    <3>1. dl' = [dl EXCEPT ![j] = new] /\ dl[j].at = "running"
      BY <1>0, <2>3 DEF DlRetry, DlJob
    <3>2. new.at = "backoff" /\ new.sess = dl[j].sess
      BY <1>0 DEF DlJob
    <3> HIDE DEF new
    <3> QED BY <1>0, <3>1, <3>2 DEF DlMoves, DlForward, DlRoom
  <2>4. CASE DlTimer(j) /\ ~DlFull
    <3> DEFINE new == [dl[j] EXCEPT !.at = "queued"]
    <3>1. dl' = [dl EXCEPT ![j] = new] /\ dl[j].at = "backoff"
      BY <1>0, <2>4 DEF DlTimer, DlJob
    <3>2. new.at = "queued" /\ new.sess = dl[j].sess
      BY <1>0 DEF DlJob
    <3> HIDE DEF new
    <3> QED BY <1>0, <2>4, <3>1, <3>2 DEF DlMoves, DlForward, DlRoom
  <2> QED BY <1>3, <2>1, <2>2, <2>3, <2>4 DEF DlBegin, DlEnd
<1>4. ASSUME NEW j \in CvJobs,
             CvTake(j) \/ CvDecide(j) \/ CvWrite(j) \/ CvEnd(j) \/ CvTimer(j)
      PROVE  Moved
  <2>1. CASE CvBounce(j)
    <3>1. cv \in [CvJobs -> CvJob] /\ (cv[j].at # "free" => cv[j].sess \in Sessions)
      BY DEF TypeOK, CvOK
    <3>2. cv[j].at = "fetched" /\ cv'[j].at = "backoff"
      BY <2>1, <3>1 DEF CvBounce, CvJob
    <3>3. dl' = dl \/ MarkAndSubmit(cv[j].sess)
      BY <2>1 DEF CvBounce
    <3> QED BY <3>1, <3>2, <3>3, SubmitMoves DEF DlMoves, DlSubmitted
  <2>2. CASE ~CvBounce(j)
    BY <1>4, <2>2 DEF CvTake, CvDecide, CvDiscard, CvFetch, CvStale, CvBegin, CvWrite,
                      CvEnd, CvSucceed, CvRetry, CvGiveUp, CvTimer
  <2> QED BY <2>1, <2>2
<1>5. CASE (\E i \in Sessions : Delete(i)) \/ Sweep \/ KeysExpire
  BY <1>5 DEF Delete, Sweep, KeysExpire, CleanStream, CleanOutput, ExpireAsset,
              ExpireVariant, jobs
<1> QED BY <1>1, <1>2, <1>3, <1>4, <1>5 DEF Next, Work

\* The same of a conversion job; an ffmpeg that opens an output, and whoever
\* removes one, also displaces those that write to it.
CvSubmitted(j) ==
    /\ cv[j].at = "free" /\ cv'[j].at = "queued" /\ ~CvFull
    /\ \E c \in Clients : /\ req[c].pc = "convert" /\ req[c].sess = cv'[j].sess
                          /\ req'[c] # req[c]
CvRoom(j) == cv[j].at = "queued" => Cardinality(CvAt(InWorker)) < WorkerPoolSize
CvEnded(j) == cv[j].at # "free" /\ cv'[j] = FreeCv /\ CvRoom(j)
CvForward(j) ==
    /\ cv'[j].sess = cv[j].sess /\ CvRoom(j)
    /\ \/ cv[j].at = "queued" /\ cv'[j].at = "fetched" /\ Exists(cv[j].sess)
       \/ cv[j].at = "fetched" /\ cv'[j].at \in {"begun", "backoff"}
       \/ cv[j].at \in {"begun"} \cup Encoding /\ cv'[j].at = "backoff"
       \/ cv[j].at = "backoff" /\ cv'[j].at = "queued" /\ ~CvFull
CvMoves(j) == /\ \A k \in CvJobs \ {j} : cv'[k] = cv[k]
              /\ CvSubmitted(j) \/ CvEnded(j) \/ CvForward(j)
CvDisplaced(j) == /\ cv'[j].sess = cv[j].sess
                  /\ \/ cv[j].at = "begun" /\ cv'[j].at \in {"encoding", "mixing"}
                     \/ cv[j].at = "encoding" /\ cv'[j].at \in {"mixing", "detached"}
                     \/ cv[j].at = "mixing" /\ cv'[j].at = "detached"
CvDisplaces == \A j \in CvJobs : cv'[j] = cv[j] \/ CvDisplaced(j)

\* A job whose place alone is changed.
LEMMA Displaced ==
  ASSUME TypeOK, NEW j \in CvJobs, NEW place, cv'[j] = [cv[j] EXCEPT !.at = place],
         \/ cv[j].at = "begun" /\ place \in {"encoding", "mixing"}
         \/ cv[j].at = "encoding" /\ place \in {"mixing", "detached"}
         \/ cv[j].at = "mixing" /\ place = "detached"
  PROVE  CvDisplaced(j)
<1>1. cv[j] \in CvJob
  BY DEF TypeOK, CvOK
<1> QED BY <1>1 DEF CvJob, CvDisplaced

LEMMA RemovalDisplaces ==
  ASSUME TypeOK, NEW v, RemoveOutput(v)
  PROVE  CvDisplaces
<1>1. ASSUME NEW j \in CvJobs PROVE cv'[j] = cv[j] \/ CvDisplaced(j)
  <2>1. \/ cv'[j] = cv[j]
        \/ cv[j].at \in {"encoding", "mixing"} /\ cv'[j] = [cv[j] EXCEPT !.at = "detached"]
    BY DEF RemoveOutput, Writers, CvAt
  <2> QED BY <2>1, Displaced
<1> QED BY <1>1 DEF CvDisplaces

LEMMA WritingDisplaces ==
  ASSUME TypeOK, NEW j \in CvJobs, CvWrite(j)
  PROVE  CvDisplaces
<1> DEFINE place == IF Writers(Path(j)) = {} THEN "encoding" ELSE "mixing"
<1>1. ASSUME NEW k \in CvJobs PROVE cv'[k] = cv[k] \/ CvDisplaced(k)
  <2>1. cv'[k] = IF k \in Writers(Path(j)) \cup {j} THEN [cv[k] EXCEPT !.at = place] ELSE cv[k]
    BY Zenon DEF CvWrite
  <2>2. CASE k = j
    <3>1. cv[k].at = "begun" /\ cv'[k] = [cv[k] EXCEPT !.at = place]
      BY <2>1, <2>2 DEF CvWrite
    <3> QED BY <3>1, Displaced
  <2>3. CASE k \in Writers(Path(j))
    <3>1. cv'[k] = [cv[k] EXCEPT !.at = "mixing"] /\ cv[k].at \in {"encoding", "mixing"}
      BY <2>1, <2>3 DEF Writers, CvAt
    <3>2. CASE cv[k].at = "encoding"
      BY <3>1, <3>2, Displaced
    <3>3. CASE cv[k].at = "mixing"
      <4>1. cv[k] \in CvJob
        BY DEF TypeOK, CvOK
      <4> QED BY <3>1, <3>3, <4>1 DEF CvJob
    <3> QED BY <3>1, <3>2, <3>3
  <2> QED BY <2>1, <2>2, <2>3
<1> QED BY <1>1 DEF CvDisplaces

\* Every step leaves the conversion jobs alone, moves one of them, or
\* displaces those that write to an output.
LEMMA CvSteps ==
  ASSUME TypeOK, Next
  PROVE  cv' = cv \/ CvDisplaces \/ \E j \in CvJobs : CvMoves(j)
<1> DEFINE Moved == cv' = cv \/ CvDisplaces \/ \E j \in CvJobs : CvMoves(j)
<1>0. cv \in [CvJobs -> CvJob]
  BY DEF TypeOK, CvOK
<1>1. ASSUME NEW c \in Clients, Ask(c) PROVE Moved
  BY <1>1 DEF Ask, Prepare, ConvertRead, StatusRead, jobs
<1>2. ASSUME NEW c \in Clients, Handler(c) PROVE Moved
  <2>0. req \in [Clients -> Request]
    BY DEF TypeOK, ReqOK
  <2>1. CASE ConvertSubmit(c) /\ ~CvFull
    <3> DEFINE new == [FreeCv EXCEPT !.at = "queued", !.sess = req[c].sess, !.cut = req[c].s.cut]
    <3>1. PICK j \in CvJobs : cv[j].at = "free" /\ cv' = [cv EXCEPT ![j] = new]
      BY <2>1 DEF ConvertSubmit, CvAt
    <3>2. new.at = "queued" /\ new.sess = req[c].sess
      BY DEF FreeCv
    <3>3. req[c].pc = "convert" /\ req'[c] # req[c]
      BY <2>0, <2>1 DEF ConvertSubmit, Request
    <3> HIDE DEF new
    <3> QED BY <1>0, <2>1, <3>1, <3>2, <3>3 DEF CvMoves, CvSubmitted
  <2>2. CASE ConvertSubmit(c) /\ CvFull
    BY <2>2 DEF ConvertSubmit
  <2>3. CASE \/ PrepareSubmit(c) \/ ConvertReuse(c) \/ ConvertLookup(c)
             \/ ConvertEnsureDownload(c) \/ ConvertFinal(c) \/ StatusStat(c) \/ StatusExpire(c)
    BY <2>3 DEF PrepareSubmit, ConvertReuse, ConvertLookup, ConvertEnsureDownload, ConvertFinal,
                StatusStat, StatusExpire, jobs
  <2> QED BY <1>2, <2>1, <2>2, <2>3 DEF Handler
<1>3. ASSUME NEW j \in DlJobs, DlBegin(j) \/ DlEnd(j) \/ DlTimer(j) PROVE Moved
  BY <1>3 DEF DlBegin, DlEnd, DlTimer, DlDiscard, DlStart, DlSucceed, DlRetry, DlGiveUp
<1>4. ASSUME NEW j \in CvJobs,
             CvTake(j) \/ CvDecide(j) \/ CvWrite(j) \/ CvEnd(j) \/ CvTimer(j)
      PROVE  Moved
  <2>0. \A x : /\ \A y : LET new == [cv[j] EXCEPT !.at = x, !.s = y]
                         IN  new.at = x /\ new.sess = cv[j].sess
               /\ \A n, y : LET new == [cv[j] EXCEPT !.at = x, !.attempts = n, !.s = y]
                            IN  new.at = x /\ new.sess = cv[j].sess
               /\ LET new == [cv[j] EXCEPT !.at = x]
                  IN  new.at = x /\ new.sess = cv[j].sess
    BY <1>0 DEF CvJob
  <2>1. CASE CvDiscard(j) \/ CvSucceed(j) \/ CvGiveUp(j) \/ (CvTimer(j) /\ CvFull)
    <3>1. /\ cv' = [cv EXCEPT ![j] = FreeCv]
          /\ cv[j].at # "free" /\ CvRoom(j)
      BY <2>1 DEF CvDiscard, CvSucceed, CvGiveUp, CvTimer, Encoding, CvRoom
    <3> QED BY <1>0, <3>1 DEF CvMoves, CvEnded
  <2>2. CASE CvFetch(j)
    <3>1. /\ cv[j].at = "queued" /\ Exists(cv[j].sess) /\ CvRoom(j)
          /\ \E y : cv' = [cv EXCEPT ![j].at = "fetched", ![j].s = y]
      BY <2>2 DEF CvFetch, CvRoom
    <3>2. cv'[j].at = "fetched" /\ cv'[j].sess = cv[j].sess
          /\ \A k \in CvJobs \ {j} : cv'[k] = cv[k]
      BY <1>0, <2>0, <3>1
    <3> QED BY <3>1, <3>2 DEF CvMoves, CvForward
  <2>3. CASE CvBounce(j) \/ CvStale(j)
    <3>1. /\ cv[j].at = "fetched"
          /\ \E y : cv' = [cv EXCEPT ![j].at = "backoff", ![j].s = y]
      BY <2>3 DEF CvBounce, CvStale
    <3>2. cv'[j].at = "backoff" /\ cv'[j].sess = cv[j].sess
          /\ \A k \in CvJobs \ {j} : cv'[k] = cv[k]
      BY <1>0, <2>0, <3>1
    <3> QED BY <3>1, <3>2 DEF CvMoves, CvForward, CvRoom
  <2>4. CASE CvBegin(j)
    <3>1. /\ cv[j].at = "fetched"
          /\ \E y : cv' = [cv EXCEPT ![j].at = "begun", ![j].s = y]
      BY <2>4, Zenon DEF CvBegin
    <3>2. cv'[j].at = "begun" /\ cv'[j].sess = cv[j].sess
          /\ \A k \in CvJobs \ {j} : cv'[k] = cv[k]
      BY <1>0, <2>0, <3>1
    <3> QED BY <3>1, <3>2 DEF CvMoves, CvForward, CvRoom
  <2>5. CASE CvWrite(j)
    BY <2>5, WritingDisplaces
  <2>6. CASE CvRetry(j)
    <3>1. /\ cv[j].at \in {"begun"} \cup Encoding
          /\ \E n, y : cv' = [cv EXCEPT ![j].at = "backoff", ![j].attempts = n, ![j].s = y]
      BY <2>6, <1>0 DEF CvRetry
    <3>2. cv'[j].at = "backoff" /\ cv'[j].sess = cv[j].sess
          /\ \A k \in CvJobs \ {j} : cv'[k] = cv[k]
      BY <1>0, <2>0, <3>1
    <3> QED BY <3>1, <3>2 DEF CvMoves, CvForward, CvRoom, Encoding
  <2>7. CASE CvTimer(j) /\ ~CvFull
    <3>1. cv[j].at = "backoff" /\ cv' = [cv EXCEPT ![j].at = "queued"]
      BY <2>7 DEF CvTimer
    <3>2. cv'[j].at = "queued" /\ cv'[j].sess = cv[j].sess
          /\ \A k \in CvJobs \ {j} : cv'[k] = cv[k]
      BY <1>0, <2>0, <3>1
    <3> QED BY <2>7, <3>1, <3>2 DEF CvMoves, CvForward, CvRoom
  <2> QED BY <1>4, <2>1, <2>2, <2>3, <2>4, <2>5, <2>6, <2>7 DEF CvTake, CvDecide, CvEnd
<1>5. ASSUME NEW i \in Sessions, Delete(i) PROVE Moved
  BY <1>5, RemovalDisplaces DEF Delete
<1>6. CASE Sweep \/ KeysExpire
  BY <1>6, RemovalDisplaces DEF Sweep, KeysExpire, CleanStream, CleanOutput, ExpireAsset, ExpireVariant, jobs
<1> QED BY <1>1, <1>2, <1>3, <1>4, <1>5, <1>6 DEF Next, Work

\* And of a handler: it begins for a session that is there, or with a new id,
\* ends, or goes forward.
ReqMoves(c) ==
    /\ \A d \in Clients \ {c} : req'[d] = req[d]
    /\ \/ /\ req[c] = Idle
          /\ Exists(req'[c].sess) \/ req'[c].sess \notin known \cup deleted
       \/ req[c].pc # "idle" /\ req'[c] = Idle
       \/ /\ req'[c].sess = req[c].sess
          /\ <<req[c].pc, req'[c].pc>> \in
               {<<"lookup", "download">>, <<"lookup", "convert">>, <<"download", "convert">>,
                <<"convert", "final">>, <<"poll", "expire">>}

LEMMA ReqSteps ==
  ASSUME TypeOK, Next
  PROVE  req' = req \/ \E c \in Clients : ReqMoves(c)
<1> DEFINE Moved == req' = req \/ \E c \in Clients : ReqMoves(c)
<1>0. req \in [Clients -> Request]
  BY DEF TypeOK, ReqOK
<1>1. ASSUME NEW c \in Clients, Ask(c) PROVE Moved
  <2>1. ASSUME NEW i \in Sessions, Prepare(c, i) PROVE Moved
    <3> DEFINE new == [Idle EXCEPT !.pc = "prepare", !.sess = i]
    <3>1. /\ req' = req \/ req' = [req EXCEPT ![c] = new]
          /\ i \notin known \cup deleted /\ req[c] = Idle
      BY <2>1 DEF Prepare
    <3>2. new.sess = i
      BY DEF Idle
    <3> HIDE DEF new
    <3> QED BY <1>0, <3>1, <3>2 DEF ReqMoves
  <2>2. ASSUME NEW i \in Sessions,
               StatusRead(c, i) \/ \E cut \in Cuts : ConvertRead(c, i, cut)
        PROVE  Moved
    <3>1. /\ req[c] = Idle /\ Exists(i)
          /\ \E p, r : req' = [req EXCEPT ![c] = [pc |-> p, sess |-> i, s |-> r]]
      BY <2>2, Zenon DEF ConvertRead, StatusRead, Exists
    <3> QED BY <1>0, <3>1 DEF ReqMoves
  <2> QED BY <1>1, <2>1, <2>2 DEF Ask
<1>2. ASSUME NEW c \in Clients, Handler(c) PROVE Moved
  <2>1. CASE PrepareSubmit(c) \/ ConvertReuse(c) \/ ConvertFinal(c) \/ StatusExpire(c)
    BY <1>0, <2>1 DEF PrepareSubmit, ConvertReuse, ConvertFinal, StatusExpire, ReqMoves
  <2>2. CASE ConvertEnsureDownload(c)
    <3>1. /\ req[c].pc = "download"
          /\ req' = [req EXCEPT ![c] = Idle] \/ req' = [req EXCEPT ![c].pc = "convert"]
      BY <2>2 DEF ConvertEnsureDownload
    <3> QED BY <1>0, <3>1 DEF ReqMoves, Request
  <2>3. CASE ConvertSubmit(c)
    <3>1. /\ req[c].pc = "convert"
          /\ req' = [req EXCEPT ![c] = Idle] \/ req' = [req EXCEPT ![c].pc = "final"]
      BY <2>3 DEF ConvertSubmit
    <3> QED BY <1>0, <3>1 DEF ReqMoves, Request
  <2>4. CASE ConvertLookup(c)
    <3>1. /\ req[c].pc = "lookup"
          /\ \E p \in {"download", "convert"} : \E r : req' = [req EXCEPT ![c].pc = p, ![c].s = r]
      BY <2>4, Zenon DEF ConvertLookup
    <3> QED BY <1>0, <3>1 DEF ReqMoves, Request
  <2>5. CASE StatusStat(c)
    <3>1. /\ req[c].pc = "poll"
          /\ req' = [req EXCEPT ![c] = Idle] \/ req' = [req EXCEPT ![c].pc = "expire"]
      BY <2>5 DEF StatusStat
    <3> QED BY <1>0, <3>1 DEF ReqMoves, Request
  <2> QED BY <1>2, <2>1, <2>2, <2>3, <2>4, <2>5 DEF Handler
<1>3. ASSUME NEW j \in DlJobs, DlBegin(j) \/ DlEnd(j) \/ DlTimer(j) PROVE Moved
  BY <1>3 DEF DlBegin, DlEnd, DlTimer, DlDiscard, DlStart, DlSucceed, DlRetry, DlGiveUp
<1>4. ASSUME NEW j \in CvJobs,
             CvTake(j) \/ CvDecide(j) \/ CvWrite(j) \/ CvEnd(j) \/ CvTimer(j)
      PROVE  Moved
  BY <1>4 DEF CvTake, CvDecide, CvDiscard, CvFetch, CvBounce, CvStale, CvBegin, CvWrite,
              CvEnd, CvSucceed, CvRetry, CvGiveUp, CvTimer
<1>5. CASE (\E i \in Sessions : Delete(i)) \/ Sweep \/ KeysExpire
  BY <1>5 DEF Delete, Sweep, KeysExpire, CleanStream, CleanOutput, ExpireAsset, ExpireVariant
<1> QED BY <1>1, <1>2, <1>3, <1>4, <1>5 DEF Next, Work

-----------------------------------------------------------------------------
\* One step of a deleted session's work, with the memory store.
LEMMA DrainStep ==
  ASSUME TypeOK, Next, NEW i \in deleted, ~Exists(i)
  PROVE  ReqDrains(i) /\ CvDrains(i) /\ DlDrains(i)
<1>1. i \in Sessions /\ Idle.sess # i /\ FreeCv.sess # i /\ FreeDl.sess # i
  BY PipelineAssumption DEF TypeOK, HistoryOK, Idle, FreeCv, FreeDl
<1>2. ReqDrains(i)
  BY <1>1, ReqSteps DEF ReqDrains, ReqMoves, ReqLeft
<1>3. CvDrains(i)
  <2>1. \A j \in CvJobs : CvDisplaced(j) => CvLeft(cv'[j].at) < CvLeft(cv[j].at)
    BY DEF CvDisplaced, CvLeft
  <2>2. \A j \in CvJobs : CvForward(j) /\ cv[j].sess = i
                            => CvLeft(cv'[j].at) < CvLeft(cv[j].at)
    BY DEF CvForward, CvLeft, Encoding
  <2>3. CASE CvDisplaces
    BY <2>1, <2>3 DEF CvDisplaces, CvDisplaced, CvDrains
  <2>4. ASSUME NEW j \in CvJobs, CvMoves(j) PROVE CvDrains(i)
    BY <1>1, <2>2, <2>4 DEF CvMoves, CvSubmitted, CvEnded, CvForward, CvDrains
  <2>5. CASE cv' = cv
    BY <2>5 DEF CvDrains
  <2> QED BY <2>3, <2>4, <2>5, CvSteps
<1>4. DlDrains(i)
  <2>1. \A j \in DlJobs : DlForward(j) /\ dl[j].sess = i
                            => DlLeft(dl'[j].at) < DlLeft(dl[j].at)
    BY DEF DlForward, DlLeft
  <2>2. ASSUME NEW j \in DlJobs, DlMoves(j) PROVE DlDrains(i)
    BY <1>1, <2>1, <2>2 DEF DlMoves, DlSubmitted, DlEnded, DlForward, DlDrains
  <2>3. CASE dl' = dl
    BY <2>3 DEF DlDrains
  <2> QED BY <2>2, <2>3, DlSteps
<1> QED BY <1>2, <1>3, <1>4

\* With the memory store the work of a deleted session only drains: this is
\* the argument by which it ends, once handlers, workers and timers go on.
THEOREM DeletedWorkDrains == SafeSpec => DrainsForward
<1> DEFINE A == ~Redis => \A i \in deleted : ReqDrains(i) /\ CvDrains(i) /\ DlDrains(i)
<1>1. CASE Redis
  <2>1. [Next]_vars => [A]_vars
    BY <1>1
  <2> QED BY <2>1, PTL DEF SafeSpec, DrainsForward
<1>2. CASE ~Redis
  <2>1. TypeOK /\ NoResurrection /\ [Next]_vars => [A]_vars
    BY DrainStep DEF NoResurrection
  <2>2. SafeSpec => []NoResurrection
    BY <1>2, MemoryForgets
  <2> QED BY <2>1, <2>2, TypeCorrect, PTL DEF SafeSpec, DrainsForward
<1> QED BY <1>1, <1>2

-----------------------------------------------------------------------------
\* The pools count as the pipeline does.
LEMMA PoolsCount ==
  /\ \A S : DlPool!Cardinality(S) = Cardinality(S) /\ CvPool!Cardinality(S) = Cardinality(S)
  /\ Cardinality(1 .. WorkerPoolSize) = WorkerPoolSize
<1>1. \A S : DlPool!Cardinality(S) = Cardinality(S) /\ CvPool!Cardinality(S) = Cardinality(S)
  BY DEF DlPool!Cardinality, CvPool!Cardinality, Cardinality
<1>2. Cardinality(1 .. WorkerPoolSize) = WorkerPoolSize
  BY PipelineAssumption, FS_Interval
<1> QED BY <1>1, <1>2

\* A queue that is not full has room by the count.
LEMMA RoomCounts ==
  /\ ~DlFull => Cardinality(DlAt({"queued"})) < QueueCapacity
  /\ ~CvFull => Cardinality(CvAt({"queued"})) < QueueCapacity
<1>1. IsFiniteSet(DlAt({"queued"})) /\ IsFiniteSet(CvAt({"queued"}))
  BY PipelineAssumption, FS_Subset DEF DlAt, CvAt
<1>2. Cardinality(DlAt({"queued"})) \in Nat /\ Cardinality(CvAt({"queued"})) \in Nat
  BY <1>1, FS_CardinalityType
<1> QED BY <1>2, PipelineAssumption DEF DlFull, CvFull

\* With one priority and one time for all, any queued job is a best one.
LEMMA AnyIsBest ==
  /\ \A q \in SUBSET DlJobs : DlPool!Best(q) = q
  /\ \A q \in SUBSET CvJobs : CvPool!Best(q) = q
BY DEF DlPool!Best, DlPool!Before, CvPool!Best, CvPool!Before

LEMMA DlPoolStep ==
  ASSUME TypeOK, [Next]_vars PROVE [DlPool!Next]_(DlPool!poolVars)
<1>0. DlAt({"queued"}) \in SUBSET DlJobs
  BY DEF DlAt
<1>1. CASE dl' = dl
  BY <1>1 DEF DlPool!poolVars, DlAt
<1>2. ASSUME NEW j \in DlJobs, DlMoves(j) PROVE [DlPool!Next]_(DlPool!poolVars)
  <2> DEFINE queued == DlAt({"queued"})
             held == DlAt(InWorker)
  <2>0. \A k \in DlJobs : /\ k \in queued <=> dl[k].at = "queued"
                          /\ k \in queued' <=> dl'[k].at = "queued"
                          /\ k \in held <=> dl[k].at \in InWorker
                          /\ k \in held' <=> dl'[k].at \in InWorker
    BY DEF DlAt
  <2>1. queued \subseteq DlJobs /\ queued' \subseteq DlJobs
        /\ held \subseteq DlJobs /\ held' \subseteq DlJobs
    BY DEF DlAt
  <2>2. \A k \in DlJobs \ {j} : dl'[k] = dl[k]
    BY <1>2 DEF DlMoves
  <2> HIDE DEF queued, held
  <2>3. \A k \in DlJobs \ {j} : (k \in queued <=> k \in queued') /\ (k \in held <=> k \in held')
    BY <2>0, <2>2
  <2>4. CASE dl[j].at \in {"free", "backoff"} /\ dl'[j].at = "queued" /\ ~DlFull
    <3>1. queued' = queued \cup {j} /\ held' = held /\ j \notin queued \cup held
      BY <2>0, <2>1, <2>3, <2>4 DEF InWorker, Encoding
    <3>2. DlPool!Put(j)
      BY <2>4, <3>1, PoolsCount, RoomCounts DEF DlPool!Put, queued, held
    <3> QED BY <3>2 DEF DlPool!Next
  <2>5. CASE dl[j].at = "queued" /\ dl'[j].at = "running" /\ DlRoom(j)
    <3>1. queued' = queued \ {j} /\ held' = held \cup {j} /\ j \in queued
      BY <2>0, <2>1, <2>3, <2>5 DEF InWorker
    <3>2. DlPool!Grab(j)
      BY <1>0, <2>5, <3>1, PoolsCount, AnyIsBest DEF DlPool!Grab, DlRoom, queued, held
    <3> QED BY <3>2 DEF DlPool!Next
  <2>6. CASE dl[j].at = "queued" /\ dl'[j].at = "free" /\ DlRoom(j)
    <3>1. queued' = queued \ {j} /\ held' = held /\ j \in queued
      BY <2>0, <2>1, <2>3, <2>6 DEF InWorker, Encoding
    <3>2. DlPool!Serve(j)
      BY <1>0, <2>6, <3>1, PoolsCount, AnyIsBest DEF DlPool!Serve, DlRoom, queued, held
    <3> QED BY <3>2 DEF DlPool!Next
  <2>7. CASE dl[j].at \in InWorker /\ dl'[j].at \in {"free", "backoff"}
    <3>1. queued' = queued /\ held' = held \ {j} /\ j \in held
      BY <2>0, <2>1, <2>3, <2>7 DEF InWorker, Encoding
    <3>2. DlPool!Done(j)
      BY <3>1 DEF DlPool!Done, queued, held
    <3> QED BY <3>2 DEF DlPool!Next
  <2>8. CASE dl[j].at = "backoff" /\ dl'[j].at = "free"
    <3>1. queued' = queued /\ held' = held
      BY <2>0, <2>1, <2>3, <2>8 DEF InWorker, Encoding
    <3> QED BY <3>1 DEF DlPool!poolVars, queued, held
  <2>9. dl[j].at \in {"free", "queued", "running", "backoff"} /\ FreeDl.at = "free"
    BY DEF TypeOK, DlOK, DlJob, FreeDl
  <2> QED BY <1>2, <2>4, <2>5, <2>6, <2>7, <2>8, <2>9
          DEF DlMoves, DlSubmitted, DlEnded, DlForward, InWorker
<1>3. CASE UNCHANGED vars
  BY <1>1, <1>3 DEF vars, jobs
<1> QED BY <1>1, <1>2, <1>3, DlSteps

LEMMA CvPoolStep ==
  ASSUME TypeOK, [Next]_vars PROVE [CvPool!Next]_(CvPool!poolVars)
<1> DEFINE queued == CvAt({"queued"})
           held == CvAt(InWorker)
<1>0. /\ \A k \in CvJobs : /\ k \in queued <=> cv[k].at = "queued"
                           /\ k \in queued' <=> cv'[k].at = "queued"
                           /\ k \in held <=> cv[k].at \in InWorker
                           /\ k \in held' <=> cv'[k].at \in InWorker
      /\ queued \subseteq CvJobs /\ queued' \subseteq CvJobs
      /\ held \subseteq CvJobs /\ held' \subseteq CvJobs
  BY DEF CvAt
<1>1. CASE cv' = cv
  BY <1>1 DEF CvPool!poolVars, CvAt
<1>2. CASE CvDisplaces
  <2>1. \A k \in CvJobs : /\ cv[k].at = "queued" <=> cv'[k].at = "queued"
                          /\ cv[k].at \in InWorker <=> cv'[k].at \in InWorker
    BY <1>2 DEF CvDisplaces, CvDisplaced, InWorker, Encoding
  <2> HIDE DEF queued, held
  <2>2. queued' = queued /\ held' = held
    BY <1>0, <2>1
  <2> QED BY <2>2 DEF CvPool!poolVars, queued, held
<1>3. ASSUME NEW j \in CvJobs, CvMoves(j) PROVE [CvPool!Next]_(CvPool!poolVars)
  <2>2. \A k \in CvJobs \ {j} : cv'[k] = cv[k]
    BY <1>3 DEF CvMoves
  <2> HIDE DEF queued, held
  <2>3. \A k \in CvJobs \ {j} : (k \in queued <=> k \in queued') /\ (k \in held <=> k \in held')
    BY <1>0, <2>2
  <2>4. CASE cv[j].at \in {"free", "backoff"} /\ cv'[j].at = "queued" /\ ~CvFull
    <3>1. queued' = queued \cup {j} /\ held' = held /\ j \notin queued \cup held
      BY <1>0, <2>3, <2>4 DEF InWorker, Encoding
    <3>2. CvPool!Put(j)
      BY <2>4, <3>1, PoolsCount, RoomCounts DEF CvPool!Put, queued, held
    <3> QED BY <3>2 DEF CvPool!Next
  <2>5. CASE cv[j].at = "queued" /\ cv'[j].at = "fetched" /\ CvRoom(j)
    <3>1. queued' = queued \ {j} /\ held' = held \cup {j} /\ j \in queued
      BY <1>0, <2>3, <2>5 DEF InWorker, Encoding
    <3>2. CvPool!Grab(j)
      BY <1>0, <2>5, <3>1, PoolsCount, AnyIsBest DEF CvPool!Grab, CvRoom, queued, held
    <3> QED BY <3>2 DEF CvPool!Next
  <2>6. CASE cv[j].at = "queued" /\ cv'[j].at = "free" /\ CvRoom(j)
    <3>1. queued' = queued \ {j} /\ held' = held /\ j \in queued
      BY <1>0, <2>3, <2>6 DEF InWorker, Encoding
    <3>2. CvPool!Serve(j)
      BY <1>0, <2>6, <3>1, PoolsCount, AnyIsBest DEF CvPool!Serve, CvRoom, queued, held
    <3> QED BY <3>2 DEF CvPool!Next
  <2>7. CASE cv[j].at \in InWorker /\ cv'[j].at \in {"free", "backoff"}
    <3>1. queued' = queued /\ held' = held \ {j} /\ j \in held
      BY <1>0, <2>3, <2>7 DEF InWorker, Encoding
    <3>2. CvPool!Done(j)
      BY <3>1 DEF CvPool!Done, queued, held
    <3> QED BY <3>2 DEF CvPool!Next
  <2>8. CASE \/ cv[j].at = "backoff" /\ cv'[j].at = "free"
             \/ cv[j].at \in InWorker /\ cv'[j].at \in InWorker
    <3>1. queued' = queued /\ held' = held
      BY <1>0, <2>3, <2>8 DEF InWorker, Encoding
    <3> QED BY <3>1 DEF CvPool!poolVars, queued, held
  <2>9. /\ cv[j].at \in {"free", "queued", "fetched", "begun", "backoff"} \cup Encoding
        /\ FreeCv.at = "free"
    BY DEF TypeOK, CvOK, CvJob, FreeCv
  <2> QED BY <1>3, <2>4, <2>5, <2>6, <2>7, <2>8, <2>9
          DEF CvMoves, CvSubmitted, CvEnded, CvForward, InWorker, Encoding
<1>4. CASE UNCHANGED vars
  BY <1>1, <1>4 DEF vars, jobs
<1> QED BY <1>1, <1>2, <1>3, <1>4, CvSteps

\* The pipeline uses each of its queues as the work pool that JobQueue
\* implements: refused at the capacity, one pair of hands for a job, and no
\* more of them than workers, for any number of jobs, workers and requests.
THEOREM PipelineUsesPools == SafeSpec => QueuesArePools
<1>1. Init => DlPool!Init /\ CvPool!Init
  BY DEF Init, FreeDl, FreeCv, InWorker, Encoding, DlAt, CvAt, DlPool!Init, CvPool!Init
<1> QED BY <1>1, DlPoolStep, CvPoolStep, TypeCorrect, PTL
        DEF SafeSpec, QueuesArePools, DlPool!SafeSpec, CvPool!SafeSpec

-----------------------------------------------------------------------------

\* The limits of both queues and of both sets of workers.
QueuesBounded == /\ Cardinality(DlAt({"queued"})) <= QueueCapacity
                 /\ Cardinality(DlAt(InWorker)) <= WorkerPoolSize
                 /\ Cardinality(CvAt({"queued"})) <= QueueCapacity
                 /\ Cardinality(CvAt(InWorker)) <= WorkerPoolSize

\* One more or one less, within a limit.
LEMMA OneWithin ==
  ASSUME NEW S, IsFiniteSet(S), NEW x, NEW n \in Nat, Cardinality(S) <= n
  PROVE  /\ Cardinality(S) < n => Cardinality(S \cup {x}) <= n
         /\ Cardinality(S \ {x}) <= n
<1>1. Cardinality(S) \in Nat
  BY FS_CardinalityType
<1>2. Cardinality(S \cup {x}) = Cardinality(S) \/ Cardinality(S \cup {x}) = Cardinality(S) + 1
  BY FS_AddElement
<1>3. S \ {x} \subseteq S
  OBVIOUS
<1>4. Cardinality(S \ {x}) <= Cardinality(S) /\ Cardinality(S \ {x}) \in Nat
  BY <1>3, FS_Subset, FS_CardinalityType
<1> QED BY <1>1, <1>2, <1>4

\* A step of a pool keeps its limits.
LEMMA PoolStepWithin ==
  ASSUME NEW P, NEW H, NEW P1, NEW H1, IsFiniteSet(P), IsFiniteSet(H),
         NEW capacity \in Nat, NEW workers \in Nat,
         Cardinality(P) <= capacity, Cardinality(H) <= workers,
         \/ P1 = P /\ H1 = H
         \/ \E j : P1 = P \cup {j} /\ H1 = H /\ Cardinality(P) < capacity
         \/ \E j : P1 = P \ {j} /\ H1 = H \cup {j} /\ Cardinality(H) < workers
         \/ \E j : P1 = P \ {j} /\ H1 = H
         \/ \E j : P1 = P /\ H1 = H \ {j}
  PROVE  Cardinality(P1) <= capacity /\ Cardinality(H1) <= workers
<1>1. \A j : /\ Cardinality(P) < capacity => Cardinality(P \cup {j}) <= capacity
             /\ Cardinality(P \ {j}) <= capacity
  BY OneWithin
<1>2. \A j : /\ Cardinality(H) < workers => Cardinality(H \cup {j}) <= workers
             /\ Cardinality(H \ {j}) <= workers
  BY OneWithin
<1> QED BY <1>1, <1>2

LEMMA LimitsInit ==
  ASSUME dl = [j \in DlJobs |-> FreeDl], cv = [j \in CvJobs |-> FreeCv]
  PROVE  QueuesBounded
<1>1. /\ DlAt({"queued"}) = {} /\ DlAt(InWorker) = {}
      /\ CvAt({"queued"}) = {} /\ CvAt(InWorker) = {}
  BY DEF FreeDl, FreeCv, InWorker, Encoding, DlAt, CvAt
<1> QED BY <1>1, FS_EmptySet, PipelineAssumption DEF QueuesBounded

LEMMA LimitsStep ==
  ASSUME TypeOK, QueuesBounded, [Next]_vars
  PROVE  QueuesBounded'
<1>0. QueueCapacity \in Nat /\ WorkerPoolSize \in Nat
  BY PipelineAssumption
<1>1. \A S : IsFiniteSet(DlAt(S)) /\ IsFiniteSet(CvAt(S))
  BY PipelineAssumption, FS_Subset DEF DlAt, CvAt
<1>2. Cardinality(DlAt({"queued"})') <= QueueCapacity
      /\ Cardinality(DlAt(InWorker)') <= WorkerPoolSize
  <2> DEFINE P == DlAt({"queued"})
             H == DlAt(InWorker)
  <2>1. \/ P' = P /\ H' = H
        \/ \E j : P' = P \cup {j} /\ H' = H /\ Cardinality(P) < QueueCapacity
        \/ \E j : P' = P \ {j} /\ H' = H \cup {j} /\ Cardinality(H) < WorkerPoolSize
        \/ \E j : P' = P \ {j} /\ H' = H
        \/ \E j : P' = P /\ H' = H \ {j}
    BY DlPoolStep, PoolsCount
       DEF DlPool!Next, DlPool!Put, DlPool!Grab, DlPool!Serve, DlPool!Done, DlPool!Close,
           DlPool!poolVars
  <2>2. IsFiniteSet(P) /\ IsFiniteSet(H)
        /\ Cardinality(P) <= QueueCapacity /\ Cardinality(H) <= WorkerPoolSize
    BY <1>1 DEF QueuesBounded
  <2> HIDE DEF P, H
  <2>3. Cardinality(P') <= QueueCapacity /\ Cardinality(H') <= WorkerPoolSize
    BY <1>0, <2>1, <2>2, PoolStepWithin
  <2> QED BY <2>3 DEF P, H
<1>3. Cardinality(CvAt({"queued"})') <= QueueCapacity
      /\ Cardinality(CvAt(InWorker)') <= WorkerPoolSize
  <2> DEFINE P == CvAt({"queued"})
             H == CvAt(InWorker)
  <2>1. \/ P' = P /\ H' = H
        \/ \E j : P' = P \cup {j} /\ H' = H /\ Cardinality(P) < QueueCapacity
        \/ \E j : P' = P \ {j} /\ H' = H \cup {j} /\ Cardinality(H) < WorkerPoolSize
        \/ \E j : P' = P \ {j} /\ H' = H
        \/ \E j : P' = P /\ H' = H \ {j}
    BY CvPoolStep, PoolsCount
       DEF CvPool!Next, CvPool!Put, CvPool!Grab, CvPool!Serve, CvPool!Done, CvPool!Close,
           CvPool!poolVars
  <2>2. IsFiniteSet(P) /\ IsFiniteSet(H)
        /\ Cardinality(P) <= QueueCapacity /\ Cardinality(H) <= WorkerPoolSize
    BY <1>1 DEF QueuesBounded
  <2> HIDE DEF P, H
  <2>3. Cardinality(P') <= QueueCapacity /\ Cardinality(H') <= WorkerPoolSize
    BY <1>0, <2>1, <2>2, PoolStepWithin
  <2> QED BY <2>3 DEF P, H
<1> QED BY <1>2, <1>3 DEF QueuesBounded

\* No more jobs wait than the queue may hold, and no more handlers run than
\* there are workers: what WorkPool promises of any pool, of these two.
THEOREM PipelineKeepsLimits == SafeSpec => []QueuesBounded
<1>1. Init => QueuesBounded
  BY LimitsInit DEF Init
<1>2. TypeOK /\ QueuesBounded /\ [Next]_vars => QueuesBounded'
  BY LimitsStep
<1> QED BY <1>1, <1>2, TypeCorrect, PTL DEF SafeSpec
=============================================================================
