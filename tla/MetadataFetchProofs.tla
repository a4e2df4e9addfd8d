------------------------ MODULE MetadataFetchProofs ------------------------
(***************************************************************************)
(* Proofs about MetadataFetch, for every length of a video and every       *)
(* limit: the types, and that the verdict on the length is the right one   *)
(* as far as the length can be known.                                      *)
(***************************************************************************)
EXTENDS MetadataFetch, TLAPS

\* An answer is with its goroutine, in its channel, or with the handler, and
\* nobody else's takes its place.
AnswersTrue ==
    /\ answer["duration"] \in {0, length}
    /\ \A x \in Services : box[x] \subseteq {answer[x]}
    /\ \A x \in Services : asker[x] = "asking" => answer[x] = 0 /\ box[x] = {}
    /\ heard["duration"] \in {0, answer["duration"]}

Collected == {"choose", "ytdlp"} \cup Decided

\* A handler that collected in time heard what the duration service answered.
Delivered ==
    stage \in Collected /\ ~late =>
        heard["duration"] = answer["duration"] /\ asker["duration"] # "asking"

\* A select gives up only late; yt-dlp is asked when there is no duration; and
\* a duration that was heard was held against the limit.
Verdict ==
    /\ late \/ ctx = "open" \/ stage \notin Services
    /\ stage = "ytdlp" => heard["duration"] = 0
    /\ stage = "rejected" => length > MaxLength
    /\ stage = "accepted" /\ heard["duration"] > 0 => MaxLength = 0 \/ heard["duration"] <= MaxLength

IInv == FetchTypeOK /\ AnswersTrue /\ Delivered /\ Verdict

USE DEF Services, Decided, Collected

LEMMA Positive == FetchTypeOK => length \in Nat /\ length > 0
  BY FetchAssumption DEF FetchTypeOK

LEMMA InitIInv == FetchInit => IInv
  <1> SUFFICES ASSUME FetchInit PROVE IInv
    OBVIOUS
  <1> USE DEF FetchInit, FetchIdle
  <1>1. FetchTypeOK
    BY DEF FetchTypeOK
  <1>2. AnswersTrue
    BY DEF AnswersTrue
  <1>3. Delivered /\ Verdict
    BY DEF Delivered, Verdict
  <1> QED BY <1>1, <1>2, <1>3 DEF IInv

LEMMA StepIInv == IInv /\ [FetchNext]_fetchVars => IInv'
  <1> SUFFICES ASSUME IInv, [FetchNext]_fetchVars PROVE IInv'
    OBVIOUS
  <1> USE DEF IInv
  <1>0. length \in Nat /\ length > 0 /\ MaxLength \in Nat
    BY Positive, FetchAssumption
  <1>1. ASSUME NEW x \in Services, Answer(x) PROVE IInv'
    <2>1. FetchTypeOK'
      BY <1>0, <1>1 DEF Answer, Answers, FetchTypeOK
    <2>2. AnswersTrue'
      <3>1. PICK r \in Answers(x) : answer' = [answer EXCEPT ![x] = r]
        BY <1>1 DEF Answer
      <3>2. x = "duration" => r \in {0, length}
        BY <3>1 DEF Answers
      <3>3. answer'[x] = r /\ \A y \in Services : y # x => answer'[y] = answer[y]
        BY <3>1 DEF FetchTypeOK
      <3>4. box[x] = {} /\ (x = "duration" => heard["duration"] = 0)
        BY <1>1 DEF Answer, AnswersTrue
      <3> QED BY <1>1, <3>2, <3>3, <3>4 DEF Answer, FetchTypeOK, AnswersTrue
    <2>3. Delivered'
      BY <1>0, <1>1 DEF Answer, Answers, FetchTypeOK, AnswersTrue, Delivered, Verdict
    <2>4. Verdict'
      BY <1>0, <1>1 DEF Answer, FetchTypeOK, Verdict
    <2> QED BY <2>1, <2>2, <2>3, <2>4
  <1>2. ASSUME NEW x \in Services, Cut(x) PROVE IInv'
    <2>1. FetchTypeOK'
      BY <1>2 DEF Cut, FetchTypeOK
    <2>2. AnswersTrue'
      BY <1>2 DEF Cut, FetchTypeOK, AnswersTrue
    <2>3. Delivered' /\ Verdict'
      BY <1>2 DEF Cut, FetchTypeOK, Delivered, Verdict
    <2> QED BY <2>1, <2>2, <2>3
  <1>3. ASSUME NEW x \in Services, Send(x) PROVE IInv'
    <2>1. FetchTypeOK'
      BY <1>3 DEF Send, FetchTypeOK
    <2>2. AnswersTrue'
      BY <1>3 DEF Send, FetchTypeOK, AnswersTrue
    <2>3. Delivered' /\ Verdict'
      BY <1>3 DEF Send, FetchTypeOK, Delivered, Verdict
    <2> QED BY <2>1, <2>2, <2>3
  <1>4. ASSUME NEW x \in Services, Receive(x) PROVE IInv'
    <2>1. PICK r \in box[x] : heard' = [heard EXCEPT ![x] = r]
      BY <1>4 DEF Receive
    <2>2. r = answer[x] /\ r \in Nat /\ asker[x] # "asking"
      BY <2>1 DEF FetchTypeOK, AnswersTrue
    <2>3. FetchTypeOK'
      BY <1>4, <2>1, <2>2 DEF Receive, After, FetchTypeOK
    <2>4. AnswersTrue'
      BY <1>4, <2>1, <2>2 DEF Receive, FetchTypeOK, AnswersTrue
    <2>5. Delivered'
      BY <1>4, <2>1, <2>2 DEF Receive, After, FetchTypeOK, Delivered
    <2>6. Verdict'
      BY <1>4, <2>1, <2>2 DEF Receive, After, FetchTypeOK, Verdict
    <2> QED BY <2>3, <2>4, <2>5, <2>6
  <1>5. ASSUME NEW x \in Services, GiveUp(x) PROVE IInv'
    <2>1. late /\ late'
      BY <1>5 DEF GiveUp, Verdict
    <2>2. FetchTypeOK' /\ AnswersTrue'
      BY <1>5 DEF GiveUp, After, FetchTypeOK, AnswersTrue
    <2>3. Delivered' /\ Verdict'
      BY <1>5, <2>1 DEF GiveUp, After, FetchTypeOK, Delivered, Verdict
    <2> QED BY <2>2, <2>3
  <1>6. CASE Deadline \/ Leave
    <2>1. FetchTypeOK'
      BY <1>6 DEF Deadline, Leave, FetchTypeOK
    <2>2. AnswersTrue'
      BY <1>6 DEF Deadline, Leave, AnswersTrue
    <2>3. Delivered' /\ Verdict'
      BY <1>6 DEF Deadline, Leave, FetchTypeOK, Delivered, Verdict
    <2> QED BY <2>1, <2>2, <2>3
  <1>7. ASSUME NEW duration \in Nat, Return(duration), stage \in {"choose", "ytdlp"},
               duration <= length, heard["duration"] \in {0, duration},
               UNCHANGED <<length, gone, asker, answer, box, heard, late>>
        PROVE  IInv'
    <2>1. FetchTypeOK'
      BY <1>7 DEF Return, FetchTypeOK
    <2>2. AnswersTrue'
      BY <1>7 DEF AnswersTrue
    <2>3. Delivered'
      BY <1>7 DEF Return, Delivered
    <2>4. Verdict'
      BY <1>0, <1>7 DEF Return, TooLong, FetchTypeOK, Verdict
    <2> QED BY <2>1, <2>2, <2>3, <2>4
  <1>8. CASE Choose
    <2>1. CASE Useful
      <3>1. heard["duration"] \in Nat /\ heard["duration"] <= length
        BY <1>0 DEF FetchTypeOK, AnswersTrue
      <3> QED BY <1>7, <1>8, <2>1, <3>1 DEF Choose
    <2>2. CASE ~Useful
      <3>1. heard["duration"] = 0
        BY <2>2 DEF Useful, FetchTypeOK
      <3>2. FetchTypeOK' /\ AnswersTrue'
        BY <1>8, <2>2 DEF Choose, FetchTypeOK, AnswersTrue
      <3>3. Delivered' /\ Verdict'
        BY <1>8, <2>2, <3>1 DEF Choose, FetchTypeOK, Delivered, Verdict
      <3> QED BY <3>2, <3>3
    <2> QED BY <2>1, <2>2
  <1>9. CASE YtDlp
    <2>1. PICK duration \in 0 .. length : Return(duration)
      BY <1>9 DEF YtDlp
    <2>2. heard["duration"] = 0 /\ duration \in Nat /\ duration <= length
      BY <1>0, <1>9 DEF YtDlp, Verdict
    <2> QED BY <1>7, <1>9, <2>1, <2>2 DEF YtDlp
  <1>10. CASE YtDlpKilled
    <2>1. heard["duration"] = 0 /\ 0 <= length
      BY <1>0, <1>10 DEF YtDlpKilled, Verdict
    <2> QED BY <1>7, <1>10, <2>1 DEF YtDlpKilled
  <1>11. CASE UNCHANGED fetchVars
    BY <1>11 DEF fetchVars, FetchTypeOK, AnswersTrue, Delivered, Verdict
  <1> QED BY <1>1, <1>2, <1>3, <1>4, <1>5, <1>6, <1>8, <1>9, <1>10, <1>11
          DEF FetchNext, Ask, Collect

-----------------------------------------------------------------------------
\* The handler's places, and that a context is released by its return only.
THEOREM FetchTypeCorrect == FetchSpec => []FetchTypeOK
  <1>1. IInv => FetchTypeOK
    BY DEF IInv
  <1> QED BY InitIInv, StepIInv, <1>1, PTL DEF FetchSpec

\* handlePrepare refuses no video within the limit, and lets no longer one
\* pass whose length it was told in time.
THEOREM VerdictsSoundHolds == FetchSpec => []VerdictsSound
  <1>1. IInv => VerdictsSound
    BY Positive DEF IInv, FetchTypeOK, Delivered, Verdict, VerdictsSound
  <1> QED BY InitIInv, StepIInv, <1>1, PTL DEF FetchSpec
=============================================================================
