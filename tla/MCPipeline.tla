----------------------------- MODULE MCPipeline -----------------------------
(***************************************************************************)
(* Pipeline, with what GET /status shows of it, on small instances.  All   *)
(* sessions are for one video, so that every cache entry and every file is *)
(* shared.                                                                 *)
(***************************************************************************)
EXTENDS StatusFlow, TLC

LOCAL INSTANCE SequencesExt

CONSTANT video

MCAssets == {video}
MCAssetOf == [i \in Sessions |-> video]

\* Jobs are interchangeable; so are sessions, which all have the same video.
MCSymmetry == Permutations(DlJobs) \cup Permutations(CvJobs)
                \cup Permutations(Sessions) \cup Permutations(Clients)

\* The loops of buildFlow as they are run, step after step ...
LoopMarked(current) ==
    LET Add(acc, name) ==
          [reached |-> acc.reached \/ name = current,
           flow |-> Append(acc.flow, [name |-> name,
                                      done |-> ~acc.reached /\ name # current,
                                      current |-> ~acc.reached /\ name = current])]
    IN  FoldLeft(Add, [reached |-> FALSE, flow |-> <<>>], Steps).flow

LoopClose(flow, current) ==
    LET Add(acc, step) ==
          IF acc.closed THEN [acc EXCEPT !.flow = Append(@, step)]
          ELSE [closed |-> step.name = current,
                flow |-> Append(acc.flow, [step EXCEPT !.done = TRUE, !.current = FALSE])]
    IN  FoldLeft(Add, [closed |-> FALSE, flow |-> <<>>], flow).flow

\* ... do what StatusFlow says they do, for each state of a session.
ASSUME LoopsAgree ==
    \A state \in States \ {"absent"} :
       LET current == Current(state)
       IN  Flow(state) = IF current \in Terminal THEN LoopClose(LoopMarked(current), current)
                         ELSE LoopMarked(current)
=============================================================================
