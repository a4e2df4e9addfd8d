--------------------------- MODULE ToolRunProofs ---------------------------
(***************************************************************************)
(* Proofs about ToolRun, for every number of calls, permits and lines in a *)
(* pipe: the types, the bound on the tools that run at once, and that a    *)
(* tool is left writing to a pipe that nobody reads only after a line too  *)
(* long for the Scanner on it.                                             *)
(***************************************************************************)
EXTENDS ToolRun, FiniteSetTheorems, TLAPS

\* The calls of a kind that are between their permit and its return.
Holders(k) == {c \in Calls : kind[c] = k /\ at[c] \in Holding}

\* The channel holds a token for each of them.
SemCounts == \A k \in Kinds : sem[k] = Cardinality(Holders(k))

\* A tool that is alive belongs to a call that waits for it, and its pipes
\* have readers but for Scanners that gave up.
ToolsWatched ==
    \A c \in Calls : tool[c] \in Alive =>
        /\ at[c] \in {"scanning", "waiting"}
        /\ \A p \in Pipes :
              \/ reader[c][p] = "reading"
              \/ reader[c][p] = "gaveup" /\ (kind[c] = "download" \/ p = "stdout")

IInv == ToolTypeOK /\ SemCounts /\ ToolsWatched

USE DEF Kinds, Pipes, Alive, Dead, Holding

LEMMA Finite == \A k : IsFiniteSet(Holders(k)) /\ Cardinality(Holders(k)) \in Nat
  <1> SUFFICES ASSUME NEW k PROVE IsFiniteSet(Holders(k)) /\ Cardinality(Holders(k)) \in Nat
    OBVIOUS
  <1>1. Holders(k) \subseteq Calls /\ IsFiniteSet(Calls)
    BY ToolAssumption DEF Holders
  <1>2. IsFiniteSet(Holders(k))
    BY <1>1, FS_Subset
  <1> QED BY <1>2, FS_CardinalityType

LEMMA PermitsNat == \A k : Permits(k) \in Nat
  BY ToolAssumption DEF Permits

LEMMA InitIInv == ToolInit => IInv
  <1> SUFFICES ASSUME ToolInit PROVE IInv
    OBVIOUS
  <1>1. ToolTypeOK
    BY ToolAssumption, PermitsNat DEF ToolInit, ToolTypeOK, ToolsIdle
  <1>2. SemCounts
    <2>1. \A k : Holders(k) = {}
      BY DEF ToolInit, Holders
    <2> QED BY <2>1, FS_EmptySet DEF ToolInit, SemCounts
  <1>3. ToolsWatched
    BY DEF ToolInit, ToolsWatched
  <1> QED BY <1>1, <1>2, <1>3 DEF IInv

-----------------------------------------------------------------------------
(* What the steps do to the semaphores *)

\* A call that neither takes nor returns a permit.
LEMMA HoldersKept ==
    ASSUME IInv, UNCHANGED <<kind, sem>>,
           \A c \in Calls : at'[c] \in Holding <=> at[c] \in Holding
    PROVE  SemCounts'
  <1>1. \A k : Holders(k)' = Holders(k)
    BY DEF Holders
  <1> QED BY <1>1 DEF IInv, SemCounts

\* A call that takes one.
LEMMA HoldersGain ==
    ASSUME IInv, NEW c \in Calls, Acquire(c)
    PROVE  /\ SemCounts'
           /\ sem' \in [Kinds -> Nat] /\ \A k \in Kinds : sem'[k] <= Permits(k)
  <1>1. /\ kind[c] \in Kinds /\ at \in [Calls -> {"idle", "called"} \cup Holding]
        /\ sem \in [Kinds -> Nat] /\ \A k \in Kinds : sem[k] <= Permits(k)
    BY DEF IInv, ToolTypeOK, Acquire
  <1>2. /\ at' = [at EXCEPT ![c] = "permitted"] /\ at[c] = "called" /\ kind' = kind
        /\ sem' = [sem EXCEPT ![kind[c]] = @ + 1] /\ sem[kind[c]] < Permits(kind[c])
    BY DEF Acquire
  <1>3. sem' \in [Kinds -> Nat] /\ \A k \in Kinds : sem'[k] <= Permits(k)
    BY <1>1, <1>2, PermitsNat
  <1>4. ASSUME NEW k \in Kinds PROVE sem'[k] = Cardinality(Holders(k)')
    <2>1. CASE k = kind[c]
      <3>1. Holders(k)' = Holders(k) \cup {c} /\ c \notin Holders(k)
        BY <1>1, <1>2, <2>1 DEF Holders
      <3>2. Cardinality(Holders(k)') = Cardinality(Holders(k)) + 1
        BY <3>1, Finite, FS_AddElement
      <3> QED BY <1>1, <1>2, <2>1, <3>2 DEF IInv, SemCounts
    <2>2. CASE k # kind[c]
      <3>1. Holders(k)' = Holders(k)
        BY <1>1, <1>2, <2>2 DEF Holders
      <3> QED BY <1>1, <1>2, <2>2, <3>1 DEF IInv, SemCounts
    <2> QED BY <2>1, <2>2
  <1> QED BY <1>3, <1>4 DEF SemCounts

\* A call that returns one.
LEMMA HoldersLose ==
    ASSUME IInv, NEW c \in Calls, Release(c), kind' = kind, at[c] \in Holding
    PROVE  /\ SemCounts'
           /\ sem' \in [Kinds -> Nat] /\ \A k \in Kinds : sem'[k] <= Permits(k)
  <1>1. /\ kind[c] \in Kinds /\ at \in [Calls -> {"idle", "called"} \cup Holding]
        /\ sem \in [Kinds -> Nat] /\ \A k \in Kinds : sem[k] <= Permits(k)
    BY DEF IInv, ToolTypeOK
  <1>2. /\ at' = [at EXCEPT ![c] = "idle"]
        /\ sem' = [sem EXCEPT ![kind[c]] = @ - 1]
    BY DEF Release
  <1>3. ASSUME NEW k \in Kinds
        PROVE  /\ sem'[k] = Cardinality(Holders(k)')
               /\ sem'[k] \in Nat /\ sem'[k] <= sem[k]
    <2>1. CASE k = kind[c]
      <3>1. Holders(k)' = Holders(k) \ {c} /\ c \in Holders(k)
        BY <1>1, <1>2, <2>1 DEF Holders
      <3>2. Cardinality(Holders(k)') = Cardinality(Holders(k)) - 1
        BY <3>1, Finite, FS_RemoveElement
      <3>3. IsFiniteSet(Holders(k)')
        BY <3>1, Finite, FS_Subset
      <3>4. Cardinality(Holders(k)') \in Nat
        BY <3>3, FS_CardinalityType
      <3> QED BY <1>1, <1>2, <2>1, <3>2, <3>4 DEF IInv, SemCounts
    <2>2. CASE k # kind[c]
      <3>1. Holders(k)' = Holders(k)
        BY <1>1, <1>2, <2>2 DEF Holders
      <3> QED BY <1>1, <1>2, <2>2, <3>1 DEF IInv, SemCounts
    <2> QED BY <2>1, <2>2
  <1>4. sem' \in [Kinds -> Nat]
    BY <1>1, <1>2, <1>3
  <1>5. \A k \in Kinds : sem'[k] <= Permits(k)
    BY <1>1, <1>3, PermitsNat
  <1> QED BY <1>3, <1>4, <1>5 DEF SemCounts

-----------------------------------------------------------------------------
LEMMA StepIInv == IInv /\ [ToolNext]_toolVars => IInv'
  <1> SUFFICES ASSUME IInv, [ToolNext]_toolVars PROVE IInv'
    OBVIOUS
  <1> USE DEF IInv
  <1>1. ASSUME NEW c \in Calls, Call(c) PROVE IInv'
    <2>1. ToolTypeOK'
      BY <1>1, ToolAssumption DEF Call, ToolTypeOK
    <2>2. SemCounts'
      BY <1>1, HoldersKept DEF Call, ToolTypeOK
    <2>3. ToolsWatched'
      BY <1>1 DEF Call, ToolTypeOK, ToolsWatched
    <2> QED BY <2>1, <2>2, <2>3
  <1>2. ASSUME NEW c \in Calls, Acquire(c) PROVE IInv'
    <2>1. SemCounts' /\ sem' \in [Kinds -> Nat] /\ \A k \in Kinds : sem'[k] <= Permits(k)
      BY <1>2, HoldersGain
    <2>2. ToolTypeOK'
      BY <1>2, <2>1 DEF Acquire, ToolTypeOK, Permits
    <2>3. ToolsWatched'
      BY <1>2 DEF Acquire, ToolTypeOK, ToolsWatched
    <2> QED BY <2>1, <2>2, <2>3
  <1>3. ASSUME NEW c \in Calls, StartFails(c) PROVE IInv'
    <2>1. SemCounts' /\ sem' \in [Kinds -> Nat] /\ \A k \in Kinds : sem'[k] <= Permits(k)
      BY <1>3, HoldersLose DEF StartFails
    <2>2. ToolTypeOK'
      BY <1>3, <2>1 DEF StartFails, Release, ToolTypeOK, Permits
    <2>3. ToolsWatched'
      BY <1>3 DEF StartFails, Release, ToolTypeOK, ToolsWatched
    <2> QED BY <2>1, <2>2, <2>3
  <1>4. ASSUME NEW c \in Calls, Start(c) PROVE IInv'
    <2>1. ToolTypeOK'
      BY <1>4 DEF Start, ToolTypeOK
    <2>2. SemCounts'
      BY <1>4, HoldersKept DEF Start, ToolTypeOK
    <2>3. ToolsWatched'
      BY <1>4 DEF Start, ToolTypeOK, ToolsWatched
    <2> QED BY <2>1, <2>2, <2>3
  <1>5. ASSUME NEW c \in Calls, Scanned(c) PROVE IInv'
    <2>1. ToolTypeOK'
      BY <1>5 DEF Scanned, ToolTypeOK
    <2>2. SemCounts'
      BY <1>5, HoldersKept DEF Scanned, ToolTypeOK
    <2>3. ToolsWatched'
      BY <1>5 DEF Scanned, ToolTypeOK, ToolsWatched
    <2> QED BY <2>1, <2>2, <2>3
  <1>6. ASSUME NEW c \in Calls, Wait(c) PROVE IInv'
    <2>1. SemCounts' /\ sem' \in [Kinds -> Nat] /\ \A k \in Kinds : sem'[k] <= Permits(k)
      BY <1>6, HoldersLose DEF Wait
    <2>2. ToolTypeOK'
      BY <1>6, <2>1, ToolAssumption DEF Wait, Release, ToolTypeOK, Permits
    <2>3. ToolsWatched'
      BY <1>6 DEF Wait, Release, ToolTypeOK, ToolsWatched
    <2> QED BY <2>1, <2>2, <2>3
  <1>7. ASSUME NEW c \in Calls, NEW p \in Pipes, ReadLine(c, p) PROVE IInv'
    <2>1. ToolTypeOK'
      BY <1>7, ToolAssumption DEF ReadLine, ToolTypeOK
    <2>2. SemCounts'
      BY <1>7, HoldersKept DEF ReadLine
    <2>3. ToolsWatched'
      BY <1>7 DEF ReadLine, ToolsWatched
    <2> QED BY <2>1, <2>2, <2>3
  <1>8. ASSUME NEW c \in Calls, NEW p \in Pipes, ReadEnd(c, p) PROVE IInv'
    <2>1. ToolTypeOK'
      BY <1>8 DEF ReadEnd, ToolTypeOK
    <2>2. SemCounts'
      BY <1>8, HoldersKept DEF ReadEnd
    <2>3. ToolsWatched'
      BY <1>8 DEF ReadEnd, ToolTypeOK, ToolsWatched
    <2> QED BY <2>1, <2>2, <2>3
  <1>9. ASSUME NEW c \in Calls, NEW p \in Pipes, Emit(c, p) PROVE IInv'
    <2>1. ToolTypeOK'
      BY <1>9 DEF Emit, ToolTypeOK
    <2>2. SemCounts'
      BY <1>9, HoldersKept DEF Emit
    <2>3. ToolsWatched'
      BY <1>9 DEF Emit, ToolTypeOK, ToolsWatched
    <2> QED BY <2>1, <2>2, <2>3
  <1>10. ASSUME NEW c \in Calls, Emitted(c) PROVE IInv'
    <2>1. ToolTypeOK'
      BY <1>10, ToolAssumption DEF Emitted, ToolTypeOK
    <2>2. SemCounts'
      BY <1>10, HoldersKept DEF Emitted
    <2>3. ToolsWatched'
      BY <1>10 DEF Emitted, ToolTypeOK, ToolsWatched
    <2> QED BY <2>1, <2>2, <2>3
  <1>11. ASSUME NEW c \in Calls, Exit(c) \/ Timeout(c) PROVE IInv'
    <2>1. ToolTypeOK'
      BY <1>11 DEF Exit, Timeout, ToolTypeOK
    <2>2. SemCounts'
      BY <1>11, HoldersKept DEF Exit, Timeout
    <2>3. ToolsWatched'
      BY <1>11 DEF Exit, Timeout, ToolTypeOK, ToolsWatched
    <2> QED BY <2>1, <2>2, <2>3
  <1>12. ASSUME NEW c \in Calls, NEW p \in Pipes, ReadTooLong(c, p) PROVE IInv'
    <2>1. ToolTypeOK'
      BY <1>12, ToolAssumption DEF ReadTooLong, ToolTypeOK
    <2>2. SemCounts'
      BY <1>12, HoldersKept DEF ReadTooLong
    <2>3. ToolsWatched'
      BY <1>12 DEF ReadTooLong, ToolTypeOK, ToolsWatched
    <2> QED BY <2>1, <2>2, <2>3
  <1>13. CASE UNCHANGED toolVars
    <2>1. ToolTypeOK' /\ ToolsWatched'
      BY <1>13 DEF toolVars, ToolTypeOK, ToolsWatched, Permits
    <2>2. SemCounts'
      BY <1>13, HoldersKept DEF toolVars
    <2> QED BY <2>1, <2>2
  <1> QED BY <1>1, <1>2, <1>3, <1>4, <1>5, <1>6, <1>7, <1>8, <1>9, <1>10, <1>11, <1>12, <1>13
          DEF ToolNext, Step, Read

-----------------------------------------------------------------------------
\* The semaphores never hold more tokens than permits, and never go below zero.
THEOREM ToolTypeCorrect == ToolSpec => []ToolTypeOK
  <1>1. IInv => ToolTypeOK
    BY DEF IInv
  <1> QED BY InitIInv, StepIInv, <1>1, PTL DEF ToolSpec

\* Download and Convert: no more tools run at once than there are permits.
THEOREM ToolsBoundedHolds == ToolSpec => []ToolsBounded
  <1>1. ASSUME IInv, NEW k \in Kinds PROVE Cardinality(Running(k)) <= Permits(k)
    <2>1. Running(k) \subseteq Holders(k)
      BY <1>1 DEF Running, Holders, IInv, ToolsWatched
    <2>2. Cardinality(Running(k)) <= Cardinality(Holders(k)) /\ IsFiniteSet(Running(k))
      BY <2>1, Finite, FS_Subset
    <2>3. Cardinality(Running(k)) \in Nat
      BY <2>2, FS_CardinalityType
    <2>4. Cardinality(Holders(k)) = sem[k] /\ sem[k] <= Permits(k)
      BY <1>1 DEF IInv, SemCounts, ToolTypeOK
    <2> QED BY <2>2, <2>3, <2>4, Finite, PermitsNat
  <1>2. IInv => ToolsBounded
    BY <1>1 DEF ToolsBounded
  <1> QED BY InitIInv, StepIInv, <1>2, PTL DEF ToolSpec

\* Both pipes of a tool are drained for as long as it lives, but for a Scanner
\* that met a line too long.
THEOREM NobodyBlocksHolds == ToolSpec => []NobodyBlocks
  <1>1. IInv => NobodyBlocks
    BY DEF IInv, ToolsWatched, NobodyBlocks
  <1> QED BY InitIInv, StepIInv, <1>1, PTL DEF ToolSpec
=============================================================================
