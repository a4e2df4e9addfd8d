------------------------------ MODULE ToolRun ------------------------------
(***************************************************************************)
(* The runs of yt-dlp and ffmpeg: Download of                              *)
(* internal/downloader/downloader.go and Convert of                        *)
(* internal/converter/converter.go.  A call takes one of its kind's        *)
(* permits, starts the tool with a pipe for stdout and one for stderr,     *)
(* sees that both are read, and waits for the tool to end or for its       *)
(* timeout to kill it.                                                     *)
(*                                                                         *)
(* A slot is a worker that calls again and again.  Download leaves both    *)
(* pipes to goroutines and waits; Convert reads stdout itself, leaves      *)
(* stderr to a goroutine, and waits when stdout has ended.  What the tools *)
(* print is left out, but for lines longer than the 64 KiB at which a      *)
(* bufio.Scanner gives up; a pipe that holds PipeCapacity lines stops them.*)
(***************************************************************************)
EXTENDS Naturals, FiniteSets

CONSTANTS Calls,         \* slots for calls
          MaxDownloads,  \* cfg.MaxConcurrentDownloads
          MaxConversions,\* cfg.MaxConcurrentConversions
          PipeCapacity   \* lines a pipe holds

ASSUME ToolAssumption ==
    /\ IsFiniteSet(Calls)
    /\ {MaxDownloads, MaxConversions, PipeCapacity} \subseteq Nat \ {0}

VARIABLES kind,     \* "download" or "convert", "none" for an unused slot
          sem,      \* tokens in the channel sem of Downloader and Converter
          at,       \* place of the call
          tool,     \* its process
          pipe,     \* lines in its pipes
          reader    \* who reads them: "none", "reading", "gaveup", or "ended"

toolVars == <<kind, sem, at, tool, pipe, reader>>

Kinds == {"download", "convert"}
Pipes == {"stdout", "stderr"}

Permits(k) == IF k = "download" THEN MaxDownloads ELSE MaxConversions

\* A tool computes ("busy"), writes a line to a pipe, or has ended, by itself with
\* whatever result or at its timeout.
Alive == {"busy"} \cup Pipes
Dead == {"exited", "killed"}

\* Between the permit and its return.
Holding == {"permitted", "scanning", "waiting"}

ToolsIdle == kind = [c \in Calls |-> "none"]

ToolInit == /\ kind \in [Calls -> Kinds] \/ ToolsIdle
            /\ sem = [k \in Kinds |-> 0]
            /\ at = [c \in Calls |-> "idle"]
            /\ tool = [c \in Calls |-> "none"]
            /\ pipe = [c \in Calls |-> [p \in Pipes |-> 0]]
            /\ reader = [c \in Calls |-> [p \in Pipes |-> "none"]]

-----------------------------------------------------------------------------
(* The call *)

\* A worker calls Download or Convert; what is left of an earlier run is gone.
Call(c) == /\ kind[c] # "none" /\ at[c] = "idle"
           /\ \A p \in Pipes : reader[c][p] # "reading"
           /\ at' = [at EXCEPT ![c] = "called"]
           /\ tool' = [tool EXCEPT ![c] = "none"]
           /\ pipe' = [pipe EXCEPT ![c] = [p \in Pipes |-> 0]]
           /\ reader' = [reader EXCEPT ![c] = [p \in Pipes |-> "none"]]
           /\ UNCHANGED <<kind, sem>>

\* Seeded error: one permit too many.
AcquireOneMore(c) == /\ at[c] = "called" /\ sem[kind[c]] <= Permits(kind[c])
                     /\ sem' = [sem EXCEPT ![kind[c]] = @ + 1]
                     /\ at' = [at EXCEPT ![c] = "permitted"]
                     /\ UNCHANGED <<kind, tool, pipe, reader>>

\* withPermit: the wait for room in the channel has no timeout.
Acquire(c) == /\ at[c] = "called" /\ sem[kind[c]] < Permits(kind[c])
              /\ sem' = [sem EXCEPT ![kind[c]] = @ + 1]
              /\ at' = [at EXCEPT ![c] = "permitted"]
              /\ UNCHANGED <<kind, tool, pipe, reader>>

Release(c) == /\ at' = [at EXCEPT ![c] = "idle"]
              /\ sem' = [sem EXCEPT ![kind[c]] = @ - 1]

\* Seeded error: the permit is not given back on this way out.
StartFailsQuietly(c) == /\ at[c] = "permitted"
                        /\ at' = [at EXCEPT ![c] = "idle"]
                        /\ UNCHANGED <<kind, sem, tool, pipe, reader>>

\* No pipe, or no process.
StartFails(c) == /\ at[c] = "permitted"
                 /\ Release(c)
                 /\ UNCHANGED <<kind, tool, pipe, reader>>

\* Seeded error: stderr is left alone until the tool has ended.
StartDeaf(c) ==
    /\ at[c] = "permitted"
    /\ tool' = [tool EXCEPT ![c] = "busy"]
    /\ reader' = [reader EXCEPT ![c]["stdout"] = "reading"]
    /\ at' = [at EXCEPT ![c] = IF kind[c] = "download" THEN "waiting" ELSE "scanning"]
    /\ UNCHANGED <<kind, sem, pipe>>

\* The tool is started, and both pipes are read from then on.
Start(c) == /\ at[c] = "permitted"
            /\ tool' = [tool EXCEPT ![c] = "busy"]
            /\ reader' = [reader EXCEPT ![c] = [p \in Pipes |-> "reading"]]
            /\ at' = [at EXCEPT ![c] = IF kind[c] = "download" THEN "waiting" ELSE "scanning"]
            /\ UNCHANGED <<kind, sem, pipe>>

\* Convert's scanner has met the end of stdout, or given up.
Scanned(c) == /\ at[c] = "scanning" /\ reader[c]["stdout"] # "reading"
              /\ at' = [at EXCEPT ![c] = "waiting"]
              /\ UNCHANGED <<kind, sem, tool, pipe, reader>>

\* Seeded error: the call returns at the end of its output, not of the tool.
WaitNot(c) == /\ at[c] = "waiting"
              /\ pipe' = [pipe EXCEPT ![c] = [p \in Pipes |-> 0]]
              /\ Release(c)
              /\ UNCHANGED <<kind, tool, reader>>

\* cmd.Wait closes this side of both pipes; what is still in them is lost.
Wait(c) == /\ at[c] = "waiting" /\ tool[c] \in Dead
           /\ pipe' = [pipe EXCEPT ![c] = [p \in Pipes |-> 0]]
           /\ Release(c)
           /\ UNCHANGED <<kind, tool, reader>>

(* The readers: readProgress, io.Copy, Convert's scanner *)

ReadLine(c, p) == /\ reader[c][p] = "reading" /\ pipe[c][p] > 0
                  /\ pipe' = [pipe EXCEPT ![c][p] = @ - 1]
                  /\ UNCHANGED <<kind, sem, at, tool, reader>>

\* A Scanner meets a line it has no room for and stops, whatever comes after
\* it; Convert's stderr is copied and not scanned.
ReadTooLong(c, p) == /\ reader[c][p] = "reading" /\ pipe[c][p] > 0
                     /\ ~(kind[c] = "convert" /\ p = "stderr")
                     /\ pipe' = [pipe EXCEPT ![c][p] = @ - 1]
                     /\ reader' = [reader EXCEPT ![c][p] = "gaveup"]
                     /\ UNCHANGED <<kind, sem, at, tool>>

\* End of file: the writer is gone and the pipe is empty, or closed.
ReadEnd(c, p) == /\ reader[c][p] = "reading" /\ pipe[c][p] = 0 /\ tool[c] \in Dead
                 /\ reader' = [reader EXCEPT ![c][p] = "ended"]
                 /\ UNCHANGED <<kind, sem, at, tool, pipe>>

(* The tool and its timeout *)

Emit(c, p) == /\ tool[c] = "busy"
              /\ tool' = [tool EXCEPT ![c] = p]
              /\ UNCHANGED <<kind, sem, at, pipe, reader>>

Emitted(c) == /\ tool[c] \in Pipes /\ pipe[c][tool[c]] < PipeCapacity
              /\ pipe' = [pipe EXCEPT ![c][tool[c]] = @ + 1]
              /\ tool' = [tool EXCEPT ![c] = "busy"]
              /\ UNCHANGED <<kind, sem, at, reader>>

Exit(c) == /\ tool[c] = "busy"
           /\ tool' = [tool EXCEPT ![c] = "exited"]
           /\ UNCHANGED <<kind, sem, at, pipe, reader>>

\* Seeded error: the timeout starts anew with every line.
TimeoutOfSilence(c) == /\ tool[c] = "busy"
                       /\ tool' = [tool EXCEPT ![c] = "killed"]
                       /\ UNCHANGED <<kind, sem, at, pipe, reader>>

\* DownloadTimeout, and the MaxTimeout of a conversion.
Timeout(c) == /\ tool[c] \in Alive
              /\ tool' = [tool EXCEPT ![c] = "killed"]
              /\ UNCHANGED <<kind, sem, at, pipe, reader>>

Step(c) == StartFails(c) \/ Start(c) \/ Scanned(c) \/ Wait(c)
Read(c, p) == ReadLine(c, p) \/ ReadTooLong(c, p) \/ ReadEnd(c, p)

ToolNext == \E c \in Calls :
               \/ Call(c) \/ Acquire(c) \/ Step(c)
               \/ \E p \in Pipes : Read(c, p) \/ Emit(c, p)
               \/ Emitted(c) \/ Exit(c) \/ Timeout(c)

\* Goroutines run and timeouts fire; a channel serves its senders in turn, so
\* that nobody is passed over for ever.  A tool may hang, or print for ever.
ToolFairness == \A c \in Calls :
                   /\ SF_toolVars(Acquire(c)) /\ WF_toolVars(Step(c)) /\ WF_toolVars(Timeout(c))
                   /\ \A p \in Pipes : WF_toolVars(Read(c, p))

ToolSpec == ToolInit /\ [][ToolNext]_toolVars /\ ToolFairness

-----------------------------------------------------------------------------
ToolTypeOK ==
    /\ kind \in [Calls -> Kinds \cup {"none"}]
    /\ sem \in [Kinds -> Nat] /\ \A k \in Kinds : sem[k] <= Permits(k)
    /\ at \in [Calls -> {"idle", "called"} \cup Holding]
    /\ \A c \in Calls : at[c] # "idle" => kind[c] \in Kinds
    /\ tool \in [Calls -> {"none"} \cup Alive \cup Dead]
    /\ pipe \in [Calls -> [Pipes -> 0 .. PipeCapacity]]
    /\ reader \in [Calls -> [Pipes -> {"none", "reading", "gaveup", "ended"}]]

Running(k) == {c \in Calls : kind[c] = k /\ tool[c] \in Alive}

\* MAX_CONCURRENT_DOWNLOADS and MAX_CONCURRENT_CONVERSIONS (README.md:53): no
\* tool runs without a permit, also after failures, kills and retries.
ToolsBounded == \A k \in Kinds : Cardinality(Running(k)) <= Permits(k)

\* "still drain outputs to avoid blocking" (downloader.go:239): a tool that
\* cannot go on because a pipe is full is read from, unless a line too long
\* ended its Scanner; ffmpeg's stderr is read in any case.
NobodyBlocks ==
    \A c \in Calls, p \in Pipes :
        tool[c] = p /\ pipe[c][p] = PipeCapacity =>
            \/ reader[c][p] = "reading"
            \/ reader[c][p] = "gaveup" /\ (kind[c] = "download" \/ p = "stdout")

\* A call returns: its permit comes, though tools hang, print for ever, block on
\* a pipe nobody reads any more, or fail to start in other calls; its tool ends
\* or is killed; its pipes end.
CallsReturn == \A c \in Calls : at[c] = "called" ~> at[c] = "idle"

\* And the goroutines that read end after it.
ReadersEnd == \A c \in Calls, p \in Pipes : reader[c][p] = "reading" ~> reader[c][p] # "reading"
=============================================================================
