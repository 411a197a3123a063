--------------------------- MODULE Indexing_proofs ---------------------------
(***************************************************************************)
(* A scan keeps its invariant for any tree with any links, any number of   *)
(* workers and any failures; so no task outlives it, no directory is       *)
(* listed twice, nothing is recorded that the options leave out and, if    *)
(* nothing fails, nothing is missed.  What is built from its records       *)
(* answers every query exactly, for any names and any limits.              *)
(***************************************************************************)
EXTENDS Indexing, SequenceTheorems, FiniteSetTheorems, TLAPS

Path == Seq(Nodes)
Levels == [path : Path, rest : SUBSET Nodes]

\* What the proof of the scan needs besides: the outcomes can be counted.
FullInv == ScanInv /\ IsFiniteSet(DOMAIN outcome)

\* An entry of a directory leads where its node does, and comes from there.
LEMMA EntryPath ==
  ASSUME NEW p \in Path, NEW n \in Nodes
  PROVE  /\ Append(p, n) \in Path
         /\ Append(p, n) # << >>
         /\ Len(Append(p, n)) = Len(p) + 1
         /\ Append(p, n)[Len(Append(p, n))] = n
         /\ \A i \in 1..Len(p) : Append(p, n)[i] = p[i]
         /\ Up(Append(p, n)) = p
         /\ Leads(Append(p, n)) = Identity(n)
<1>1. /\ Append(p, n) \in Path
      /\ Len(Append(p, n)) = Len(p) + 1
      /\ Append(p, n)[Len(Append(p, n))] = n
      /\ \A i \in 1..Len(p) : Append(p, n)[i] = p[i]
      /\ Len(p) \in Nat
  BY DEF Path
<1>2. Append(p, n) # << >>
  BY <1>1
<1>3. Up(Append(p, n)) = p
  <2>1. Up(Append(p, n)) = SubSeq(Append(p, n), 1, Len(p))
    BY <1>1 DEF Up
  <2>2. /\ SubSeq(Append(p, n), 1, Len(p)) \in Path
        /\ Len(SubSeq(Append(p, n), 1, Len(p))) = Len(p)
        /\ \A i \in 1..Len(p) : SubSeq(Append(p, n), 1, Len(p))[i] = p[i]
    BY <1>1, SubSeqProperties DEF Path
  <2> QED BY <2>1, <2>2, SeqEqual DEF Path
<1>4. Leads(Append(p, n)) = Identity(n)
  BY <1>1, <1>2 DEF Leads
<1> QED BY <1>1, <1>2, <1>3, <1>4

\* A path is the path it comes from and its last node.
LEMMA PathSplits ==
  ASSUME NEW p \in Path, p # << >>
  PROVE  /\ Up(p) \in Path
         /\ p[Len(p)] \in Nodes
         /\ p = Append(Up(p), p[Len(p)])
<1>1. Len(p) \in Nat \ {0} /\ \A i \in 1..Len(p) : p[i] \in Nodes
  BY DEF Path
<1>2. /\ Up(p) \in Path
      /\ Len(Up(p)) = Len(p) - 1
      /\ \A i \in 1..Len(p) - 1 : Up(p)[i] = p[i]
  <2>1. PICK k \in Nat : Len(p) = k + 1
    BY <1>1
  <2>2. \A i \in 1..k : p[i] \in Nodes
    BY <1>1, <2>1
  <2>3. /\ SubSeq(p, 1, k) \in Path
        /\ Len(SubSeq(p, 1, k)) = k
        /\ \A i \in 1..k : SubSeq(p, 1, k)[i] = p[i]
    BY <2>2, SubSeqProperties DEF Path
  <2>4. Len(p) - 1 = k
    BY <2>1
  <2> QED BY <2>3, <2>4 DEF Up
<1>3. p[Len(p)] \in Nodes
  BY <1>1
<1>4. /\ Append(Up(p), p[Len(p)]) \in Path
      /\ Len(Append(Up(p), p[Len(p)])) = Len(p)
      /\ \A i \in 1..Len(p) : Append(Up(p), p[Len(p)])[i] = p[i]
  BY <1>1, <1>2, <1>3, EntryPath
<1>5. Append(Up(p), p[Len(p)]) = p
  BY <1>4, SeqEqual DEF Path
<1> QED BY <1>2, <1>3, <1>5

\* Leaving directories takes them off the end.
LEMMA SettledIsPrefix ==
  ASSUME NEW s \in Seq(Levels)
  PROVE  /\ Settled(s) \in Seq(Levels)
         /\ Len(Settled(s)) <= Len(s)
         /\ \A d \in 1..Len(Settled(s)) : Settled(s)[d] = s[d]
<1> DEFINE open == {d \in 1..Len(s) : \E e \in d..Len(s) : s[e].rest # {}}
<1>1. Len(s) \in Nat
  BY LenProperties
<1>2. IsFiniteSet(1..Len(s)) /\ Cardinality(1..Len(s)) = Len(s)
  BY <1>1, FS_Interval
<1>3. open \in SUBSET (1..Len(s))
  OBVIOUS
<1>4. IsFiniteSet(open) /\ Cardinality(open) <= Len(s)
  BY <1>2, <1>3, FS_Subset
<1>5. Cardinality(open) \in 0..Len(s)
  BY <1>1, <1>4, FS_CardinalityType
<1>6. Settled(s) = SubSeq(s, 1, Cardinality(open))
  BY DEF Settled
<1> HIDE DEF open
<1>7. \A i \in 1..Cardinality(open) : s[i] \in Levels
  BY <1>1, <1>5, ElementOfSeq
<1>8. /\ SubSeq(s, 1, Cardinality(open)) \in Seq(Levels)
      /\ Len(SubSeq(s, 1, Cardinality(open))) = Cardinality(open)
      /\ \A i \in 1..Cardinality(open) : SubSeq(s, 1, Cardinality(open))[i] = s[i]
  BY <1>5, <1>7, SubSeqProperties
<1> QED BY <1>1, <1>5, <1>6, <1>8

\* What the pool does is what Executor says.
LEMMA PoolSteps ==
  /\ \A t : Pool!Accept(t) <=>
        /\ ~closed
        /\ t \notin {accepted[i] : i \in 1..Len(accepted)} \cup refused
        /\ accepted' = Append(accepted, t)
        /\ UNCHANGED <<begun, finished, refused, closed>>
  /\ Pool!Begin =>
        /\ begun < Len(accepted)
        /\ begun' = begun + 1
        /\ UNCHANGED <<accepted, finished, refused, closed>>
  /\ Pool!Running = {accepted[i] : i \in 1..begun} \ finished
  BY DEF Pool!Accept, Pool!Begin, Pool!Running, Pool!Accepted

\* The types, with those of paths and levels named.
Types ==
    /\ options \in [follow : BOOLEAN, hidden : BOOLEAN]
    /\ denied \subseteq Dirs
    /\ cancelled \in BOOLEAN
    /\ pc \in {"starting", "walking", "waiting", "stopping", "unwinding", "returned"}
    /\ result \in {"none", "ok", "cancelled", "failed", "taken"}
    /\ stack \in Seq(Levels)
    /\ visited \subseteq Dirs
    /\ stats \in Stats
    /\ records \in Seq(Path)
    /\ accepted \in Seq(Path)
    /\ begun \in 0..Len(accepted)
    /\ finished \subseteq Range(accepted)
    /\ refused = {}
    /\ closed \in BOOLEAN
    /\ outcome \in [DOMAIN outcome -> {"recorded", "failed", "thrown", "dropped"}]

LEMMA TypesAreTypeOK == (TypeOK <=> Types) /\ (TypeOK' <=> Types')
  BY DEF TypeOK, Types, Levels, Path

LEMMA InitFullInv == Init => FullInv
<1> SUFFICES ASSUME Init PROVE FullInv
  OBVIOUS
<1> USE DEF Init, Pool!Init
<1>1. Types
  <2>1. stack \in Seq(Levels) /\ records \in Seq(Path) /\ accepted \in Seq(Path)
    OBVIOUS
  <2>2. outcome \in [DOMAIN outcome -> {"recorded", "failed", "thrown", "dropped"}]
    <3>1. << >> \in Seq({"recorded", "failed", "thrown", "dropped"}) /\ Len(<< >>) = 0
      OBVIOUS
    <3> QED BY <3>1, LenProperties
  <2>3. begun \in 0..Len(accepted) /\ finished \subseteq Range(accepted) /\ stats \in Stats
    BY DEF Stats
  <2> QED BY <2>1, <2>2, <2>3 DEF Types
<1>2. Tasks("recorded") = {} /\ Tasks("failed") = {} /\ Tasks("dropped") = {}
  BY DEF Tasks
<1>3. Cardinality({}) = 0 /\ IsFiniteSet({})
  BY FS_EmptySet
<1>4. CountsAreTrue
  <2>1. Range(records) = {} /\ Len(records) = 0 /\ Len(accepted) = 0 /\ DOMAIN outcome = {}
    BY DEF Range
  <2>2. stats.discovered = 0 /\ stats.processed = 0 /\ stats.failed = 0 /\ finished = {}
    OBVIOUS
  <2>3. /\ stats.discovered = Len(accepted) /\ stats.processed = Len(records)
        /\ Range(records) = Tasks("recorded")
    BY <1>2, <2>1, <2>2
  <2>4. /\ Cardinality(Tasks("recorded")) = Len(records)
        /\ Cardinality(Tasks("failed")) <= stats.failed
    <3> HIDE DEF Init, Pool!Init
    <3>1. Cardinality(Tasks("recorded")) = 0 /\ Cardinality(Tasks("failed")) = 0
      BY <1>2, <1>3
    <3> QED BY <3>1, <2>1, <2>2
  <2>5. /\ finished \subseteq DOMAIN outcome
        /\ DOMAIN outcome \subseteq finished \cup Tasks("dropped")
    BY <2>1, <2>2
  <2> HIDE DEF Init, Pool!Init
  <2> QED BY <2>3, <2>4, <2>5 DEF CountsAreTrue
<1>5. PhaseInv
  BY <1>2 DEF PhaseInv
<1>6. Range(accepted) = {} /\ Listed = {}
  BY DEF Range, Listed
<1>7. OnlyWhatIsAskedFor /\ DirectoriesListedOnce /\ WalkInv
  BY <1>6 DEF OnlyWhatIsAskedFor, DirectoriesListedOnce, WalkInv
<1>8. PoolInv
  BY DEF PoolInv
<1>9. IsFiniteSet(DOMAIN outcome)
  BY <1>3
<1> QED BY <1>1, <1>4, <1>5, <1>7, <1>8, <1>9, TypesAreTypeOK DEF FullInv, ScanInv

-----------------------------------------------------------------------------
\* What only the walk changes.

LEMMA WalkIsLeftAlone ==
  ASSUME OnlyWhatIsAskedFor, DirectoriesListedOnce, WalkInv,
         UNCHANGED <<options, stack, visited, accepted>>
  PROVE  OnlyWhatIsAskedFor' /\ DirectoriesListedOnce' /\ WalkInv'
<1>1. Listed' = Listed
  BY DEF Listed
<1> QED BY <1>1 DEF OnlyWhatIsAskedFor, DirectoriesListedOnce, WalkInv, Skipped

\* What only the tasks change.
LEMMA CountsAreLeftAlone ==
  ASSUME CountsAreTrue, UNCHANGED <<stats, accepted, records, outcome, finished>>
  PROVE  CountsAreTrue' /\ \A w : Tasks(w)' = Tasks(w)
  BY DEF CountsAreTrue, Tasks

\* The steps of the walking thread that only take it on.
LEMMA ReturnStep ==
  ASSUME FullInv, pc # "returned",
         Return("cancelled") \/ Return("failed")
            \/ (Return("ok") /\ ~cancelled /\ ~closed /\ stack = << >>),
         PoolIsIdle,
         UNCHANGED <<envVars, cancelled, walkVars, stats, records, outcome, poolVars>>
  PROVE  FullInv'
<1> USE DEF FullInv, ScanInv, envVars, walkVars, poolVars
<1>1. Types'
  BY TypesAreTypeOK DEF Types, Return
<1>2. CountsAreTrue' /\ \A w : Tasks(w)' = Tasks(w)
  BY CountsAreLeftAlone
<1>3. PhaseInv'
  BY <1>2 DEF PhaseInv, Return
<1>4. PoolIsIdle'
  BY DEF PoolIsIdle, Pool!Running
<1>5. PoolInv'
  BY <1>4 DEF PoolInv
<1>6. OnlyWhatIsAskedFor' /\ DirectoriesListedOnce' /\ WalkInv'
  BY WalkIsLeftAlone
<1> QED BY <1>1, <1>2, <1>3, <1>5, <1>6, TypesAreTypeOK

LEMMA StartIsIdle ==
  ASSUME FullInv, pc = "starting"
  PROVE  PoolIsIdle
<1>1. accepted = << >> /\ begun = 0
  BY TypesAreTypeOK DEF FullInv, ScanInv, PhaseInv, Types
<1> QED BY <1>1, PoolSteps DEF PoolIsIdle

LEMMA ReturnsKeepInv ==
  ASSUME FullInv, RefuseScan \/ ReturnCancelled \/ ReturnThrown \/ ReturnOutput
  PROVE  FullInv'
<1>1. CASE RefuseScan
  BY <1>1, StartIsIdle, ReturnStep DEF RefuseScan
<1>2. CASE ReturnCancelled
  BY <1>2, ReturnStep DEF ReturnCancelled
<1>3. CASE ReturnThrown
  BY <1>3, ReturnStep DEF ReturnThrown
<1>4. CASE ReturnOutput
  <2>1. ~closed /\ stack = << >>
    BY <1>4 DEF ReturnOutput, FullInv, ScanInv, PhaseInv
  <2> QED BY <1>4, <2>1, ReturnStep DEF ReturnOutput
<1> QED BY <1>1, <1>2, <1>3, <1>4

\* StopWalk, EndWalk, WalkThrows and Cancel change nothing that is listed, counted or run.
LEMMA PhaseStep ==
  ASSUME FullInv, StopWalk \/ EndWalk \/ WalkThrows \/ Cancel
  PROVE  FullInv'
<1> USE DEF FullInv, ScanInv, envVars, walkVars, poolVars, StopWalk, EndWalk, WalkThrows, Cancel,
           Pool!Close
<1>1. UNCHANGED <<options, denied, stack, visited, stats, records, outcome, accepted, begun,
                  finished, refused, result>>
  OBVIOUS
<1>2. CountsAreTrue' /\ \A w : Tasks(w)' = Tasks(w)
  BY <1>1, CountsAreLeftAlone
<1>3. Types'
  BY <1>1, TypesAreTypeOK DEF Types
<1>4. PhaseInv'
  BY <1>1, <1>2 DEF PhaseInv
<1>5. PoolIsIdle' <=> PoolIsIdle
  BY <1>1 DEF PoolIsIdle, Pool!Running
<1>6. PoolInv'
  BY <1>1, <1>5 DEF PoolInv
<1>7. OnlyWhatIsAskedFor' /\ DirectoriesListedOnce' /\ WalkInv'
  BY <1>1, WalkIsLeftAlone
<1> QED BY <1>1, <1>2, <1>3, <1>4, <1>6, <1>7, TypesAreTypeOK

-----------------------------------------------------------------------------
\* The tasks.

\* A task gets an outcome.
LEMMA OutcomeIsAdded ==
  ASSUME FullInv, NEW task, task \notin DOMAIN outcome,
         NEW what \in {"recorded", "failed", "thrown", "dropped"},
         outcome' = [t \in DOMAIN outcome \cup {task} |-> IF t = task THEN what ELSE outcome[t]]
  PROVE  /\ DOMAIN outcome' = DOMAIN outcome \cup {task}
         /\ IsFiniteSet(DOMAIN outcome')
         /\ outcome' \in [DOMAIN outcome' -> {"recorded", "failed", "thrown", "dropped"}]
         /\ \A w : Tasks(w)' = IF w = what THEN Tasks(w) \cup {task} ELSE Tasks(w)
<1>1. DOMAIN outcome' = DOMAIN outcome \cup {task}
  OBVIOUS
<1>2. IsFiniteSet(DOMAIN outcome')
  BY <1>1, FS_AddElement DEF FullInv
<1>3. outcome' \in [DOMAIN outcome' -> {"recorded", "failed", "thrown", "dropped"}]
  BY <1>1, TypesAreTypeOK DEF FullInv, ScanInv, Types
<1>4. \A w : Tasks(w)' = IF w = what THEN Tasks(w) \cup {task} ELSE Tasks(w)
  BY <1>1 DEF Tasks
<1> QED BY <1>1, <1>2, <1>3, <1>4

\* While a task is running the scan has not returned.
LEMMA RunningTask ==
  ASSUME FullInv, NEW task \in Pool!Running
  PROVE  /\ \E i \in 1..begun : task = accepted[i]
         /\ task \in Range(accepted)
         /\ task \in Path
         /\ task \notin finished
         /\ pc # "returned"
         /\ result = "none"
<1>1. PICK i \in 1..begun : task = accepted[i]
  BY PoolSteps
<1>2. accepted \in Seq(Path) /\ begun \in 0..Len(accepted) /\ Len(accepted) \in Nat
  BY TypesAreTypeOK, LenProperties DEF FullInv, ScanInv, Types
<1>3. task \in Range(accepted) /\ task \in Path
  BY <1>1, <1>2, ElementOfSeq, LenProperties DEF Range
<1>4. task \notin finished
  BY PoolSteps
<1>5. pc # "returned" /\ result = "none"
  BY DEF FullInv, ScanInv, PoolInv, PoolIsIdle, PhaseInv
<1> QED BY <1>1, <1>3, <1>4, <1>5

LEMMA TaskBeginsKeepsInv ==
  ASSUME FullInv, TaskBegins
  PROVE  FullInv'
<1> DEFINE task == accepted[begun + 1]
<1>1. /\ begun < Len(accepted) /\ begun' = begun + 1
      /\ UNCHANGED <<accepted, finished, refused, closed>>
      /\ UNCHANGED <<options, denied, cancelled, pc, result, stack, visited, stats, records>>
  BY PoolSteps DEF TaskBegins, envVars, walkVars
<1>2. /\ accepted \in Seq(Path) /\ begun \in 0..Len(accepted) /\ Len(accepted) \in Nat
      /\ begun + 1 \in 1..Len(accepted)
  BY <1>1, TypesAreTypeOK, LenProperties DEF FullInv, ScanInv, Types
<1>3. pc # "returned" /\ result = "none"
  BY <1>1 DEF FullInv, ScanInv, PoolInv, PoolIsIdle, PhaseInv
<1>4. task \notin DOMAIN outcome /\ task \notin finished
  BY <1>2 DEF FullInv, ScanInv, PoolInv
<1>5. \/ ~cancelled /\ UNCHANGED outcome
      \/ cancelled /\ outcome' = [t \in DOMAIN outcome \cup {task} |-> IF t = task THEN "dropped" ELSE outcome[t]]
  BY DEF TaskBegins
<1> HIDE DEF task
<1>6. OnlyWhatIsAskedFor' /\ DirectoriesListedOnce' /\ WalkInv'
  BY <1>1, WalkIsLeftAlone DEF FullInv, ScanInv
<1>7. finished \cup DOMAIN outcome' \subseteq {accepted[i] : i \in 1..begun + 1}
  <2>1. task = accepted[begun + 1]
    BY DEF task
  <2>2. DOMAIN outcome' \subseteq DOMAIN outcome \cup {task}
    BY <1>5
  <2>3. finished \cup DOMAIN outcome \subseteq {accepted[i] : i \in 1..begun}
    BY DEF FullInv, ScanInv, PoolInv
  <2> QED BY <1>2, <2>1, <2>2, <2>3
<1>8. PoolInv'
  BY <1>1, <1>3, <1>7 DEF FullInv, ScanInv, PoolInv
<1>9. CASE ~cancelled /\ UNCHANGED outcome
  <2>1. CountsAreTrue' /\ \A w : Tasks(w)' = Tasks(w)
    BY <1>1, <1>9, CountsAreLeftAlone DEF FullInv, ScanInv
  <2>2. Types'
    BY <1>1, <1>2, <1>9, TypesAreTypeOK DEF FullInv, ScanInv, Types
  <2>3. PhaseInv'
    BY <1>1, <2>1 DEF FullInv, ScanInv, PhaseInv
  <2> QED BY <1>6, <1>8, <1>9, <2>1, <2>2, <2>3, TypesAreTypeOK DEF FullInv, ScanInv
<1>10. CASE cancelled /\ outcome' = [t \in DOMAIN outcome \cup {task} |->
                                        IF t = task THEN "dropped" ELSE outcome[t]]
  <2>1. /\ DOMAIN outcome' = DOMAIN outcome \cup {task}
        /\ IsFiniteSet(DOMAIN outcome')
        /\ outcome' \in [DOMAIN outcome' -> {"recorded", "failed", "thrown", "dropped"}]
        /\ \A w : Tasks(w)' = IF w = "dropped" THEN Tasks(w) \cup {task} ELSE Tasks(w)
    BY <1>4, <1>10, OutcomeIsAdded
  <2>2. Types'
    BY <1>1, <1>2, <2>1, TypesAreTypeOK DEF FullInv, ScanInv, Types
  <2>3. CountsAreTrue'
    BY <1>1, <2>1 DEF FullInv, ScanInv, CountsAreTrue
  <2>4. PhaseInv'
    BY <1>1, <1>3, <1>10 DEF FullInv, ScanInv, PhaseInv
  <2> QED BY <1>6, <1>8, <2>1, <2>2, <2>3, <2>4, TypesAreTypeOK DEF FullInv, ScanInv
<1> QED BY <1>5, <1>9, <1>10

\* The end of a task, apart from what it counts and records.
LEMMA TaskReturnsKeeps ==
  ASSUME FullInv, NEW task, TaskReturns(task),
         DOMAIN outcome' \subseteq DOMAIN outcome \cup {task}
  PROVE  /\ OnlyWhatIsAskedFor' /\ DirectoriesListedOnce' /\ WalkInv'
         /\ PoolInv'
         /\ finished' = finished \cup {task} /\ finished' \subseteq Range(accepted)
<1>1. /\ UNCHANGED <<options, denied, cancelled, pc, result, stack, visited, accepted, begun,
                     refused, closed>>
      /\ finished' = finished \cup {task}
      /\ task \in Pool!Running
  BY DEF TaskReturns, envVars, walkVars
<1>2. /\ \E i \in 1..begun : task = accepted[i]
      /\ task \in Range(accepted)
      /\ pc # "returned"
  BY <1>1, RunningTask
<1>3. OnlyWhatIsAskedFor' /\ DirectoriesListedOnce' /\ WalkInv'
  BY <1>1, WalkIsLeftAlone DEF FullInv, ScanInv
<1>4. finished' \subseteq Range(accepted)
  BY <1>1, <1>2, TypesAreTypeOK DEF FullInv, ScanInv, Types
<1>5. PoolInv'
  <2>1. finished' \cup DOMAIN outcome' \subseteq {accepted[i] : i \in 1..begun}
    BY <1>1, <1>2 DEF FullInv, ScanInv, PoolInv
  <2> QED BY <1>1, <1>2, <2>1 DEF FullInv, ScanInv, PoolInv
<1> QED BY <1>1, <1>3, <1>4, <1>5

LEMMA TaskEndsKeepsInv ==
  ASSUME FullInv, TaskEnds
  PROVE  FullInv'
<1>1. PICK task \in Pool!Running :
          TaskRecords(task) \/ TaskFails(task) \/ TaskThrows(task) \/ TaskIsDropped(task)
  BY DEF TaskEnds
<1>2. /\ task \in Range(accepted) /\ task \in Path /\ task \notin finished
      /\ pc # "returned" /\ result = "none"
  BY RunningTask
<1>3. TaskReturns(task)
  BY <1>1 DEF TaskRecords, TaskFails, TaskThrows, TaskIsDropped
<1>4. UNCHANGED <<options, denied, cancelled, pc, result, stack, visited, accepted, begun,
                  refused, closed>>
  BY <1>3 DEF TaskReturns, envVars, walkVars
<1>5. CASE TaskIsDropped(task)
  <2>1. task \in DOMAIN outcome /\ UNCHANGED <<records, stats, outcome>>
    BY <1>5 DEF TaskIsDropped
  <2>2. /\ OnlyWhatIsAskedFor' /\ DirectoriesListedOnce' /\ WalkInv' /\ PoolInv'
        /\ finished' = finished \cup {task} /\ finished' \subseteq Range(accepted)
    BY <1>3, <2>1, TaskReturnsKeeps
  <2>3. \A w : Tasks(w)' = Tasks(w)
    BY <2>1 DEF Tasks
  <2>4. Types'
    BY <1>4, <2>1, <2>2, TypesAreTypeOK DEF FullInv, ScanInv, Types
  <2>5. CountsAreTrue'
    BY <1>4, <2>1, <2>2, <2>3 DEF FullInv, ScanInv, CountsAreTrue
  <2>6. PhaseInv'
    BY <1>4, <2>3 DEF FullInv, ScanInv, PhaseInv
  <2> QED BY <2>1, <2>2, <2>4, <2>5, <2>6, TypesAreTypeOK DEF FullInv, ScanInv
<1>6. ASSUME NEW what \in {"recorded", "failed", "thrown"}, EndsWith(task, what),
             stats' = (CASE what = "recorded" -> Count("processed", 1)
                         [] what = "failed" -> Count("failed", 1)
                         [] OTHER -> stats),
             records' = (IF what = "recorded" THEN Append(records, task) ELSE records)
      PROVE  FullInv'
  <2>1. /\ task \notin DOMAIN outcome
        /\ outcome' = [t \in DOMAIN outcome \cup {task} |-> IF t = task THEN what ELSE outcome[t]]
    BY <1>6 DEF EndsWith
  <2>2. /\ DOMAIN outcome' = DOMAIN outcome \cup {task}
        /\ IsFiniteSet(DOMAIN outcome')
        /\ outcome' \in [DOMAIN outcome' -> {"recorded", "failed", "thrown", "dropped"}]
        /\ \A w : Tasks(w)' = IF w = what THEN Tasks(w) \cup {task} ELSE Tasks(w)
    BY <2>1, OutcomeIsAdded
  <2>3. /\ OnlyWhatIsAskedFor' /\ DirectoriesListedOnce' /\ WalkInv' /\ PoolInv'
        /\ finished' = finished \cup {task} /\ finished' \subseteq Range(accepted)
    BY <1>3, <2>2, TaskReturnsKeeps
  <2>4. stats \in Stats /\ records \in Seq(Path)
    BY TypesAreTypeOK DEF FullInv, ScanInv, Types
  <2>5. /\ stats' \in Stats
        /\ stats'.discovered = stats.discovered
        /\ stats'.processed = stats.processed + (IF what = "recorded" THEN 1 ELSE 0)
        /\ stats'.failed = stats.failed + (IF what = "failed" THEN 1 ELSE 0)
    BY <1>6, <2>4 DEF Stats, Count
  <2>6. records' \in Seq(Path)
    BY <1>2, <1>6, <2>4
  <2>7. Types'
    BY <1>4, <2>2, <2>3, <2>5, <2>6, TypesAreTypeOK DEF FullInv, ScanInv, Types
  <2>8. CountsAreTrue'
    <3>1. /\ stats.discovered = Len(accepted) /\ stats.processed = Len(records)
          /\ Range(records) = Tasks("recorded") /\ Cardinality(Tasks("recorded")) = Len(records)
          /\ Cardinality(Tasks("failed")) <= stats.failed
          /\ finished \subseteq DOMAIN outcome
          /\ DOMAIN outcome \subseteq finished \cup Tasks("dropped")
      BY DEF FullInv, ScanInv, CountsAreTrue
    <3>2. \A w : IsFiniteSet(Tasks(w)) /\ Cardinality(Tasks(w)) \in Nat /\ task \notin Tasks(w)
      <4>1. \A w : Tasks(w) \in SUBSET (DOMAIN outcome)
        BY DEF Tasks
      <4>2. \A w : IsFiniteSet(Tasks(w))
        BY <4>1, FS_Subset DEF FullInv
      <4>3. \A w : Cardinality(Tasks(w)) \in Nat
        BY <4>2, FS_CardinalityType
      <4> QED BY <2>1, <4>1, <4>2, <4>3
    <3>3. \A w : Cardinality(Tasks(w) \cup {task}) = Cardinality(Tasks(w)) + 1
      BY <3>2, FS_AddElement
    <3>4. Len(records) \in Nat
      BY <2>4, LenProperties
    <3>5. CASE what = "recorded"
      <4>1. Len(records') = Len(records) + 1
        BY <1>6, <2>4, <3>5
      <4>2. Range(records') = Range(records) \cup {task}
        <5>1. records' = Append(records, task)
          BY <1>6, <3>5
        <5>2. /\ DOMAIN records = 1..Len(records) /\ DOMAIN records' = 1..Len(records) + 1
              /\ \A i \in 1..Len(records) : records'[i] = records[i]
              /\ records'[Len(records) + 1] = task
          BY <2>4, <5>1
        <5> QED BY <3>4, <5>2 DEF Range
      <4>3. Tasks("recorded")' = Tasks("recorded") \cup {task} /\ Tasks("failed")' = Tasks("failed")
            /\ Tasks("dropped")' = Tasks("dropped")
        BY <2>2, <3>5
      <4>4. stats'.processed = Len(records') /\ stats'.discovered = Len(accepted')
            /\ Cardinality(Tasks("failed")') <= stats'.failed
        BY <1>4, <2>4, <2>5, <3>1, <3>5, <4>1, <4>3 DEF Stats
      <4>5. Range(records') = Tasks("recorded")'
            /\ Cardinality(Tasks("recorded")') = Len(records')
        BY <3>1, <3>3, <4>1, <4>2, <4>3
      <4>6. finished' \subseteq DOMAIN outcome'
            /\ DOMAIN outcome' \subseteq finished' \cup Tasks("dropped")'
        BY <2>2, <2>3, <3>1, <4>3
      <4> QED BY <4>4, <4>5, <4>6 DEF CountsAreTrue
    <3>6. CASE what # "recorded"
      <4>1. records' = records /\ Tasks("recorded")' = Tasks("recorded")
            /\ Tasks("dropped")' = Tasks("dropped")
        BY <1>6, <2>2, <3>6
      <4>2. Cardinality(Tasks("failed")') <= stats'.failed
        <5>1. stats.failed \in Nat
          BY <2>4 DEF Stats
        <5> QED BY <2>2, <2>5, <3>1, <3>2, <3>3, <5>1
      <4> QED BY <1>4, <2>2, <2>3, <2>5, <3>1, <3>4, <3>6, <4>1, <4>2 DEF CountsAreTrue
    <3> QED BY <3>5, <3>6
  <2>9. PhaseInv'
    BY <1>2, <1>4, <2>2 DEF FullInv, ScanInv, PhaseInv
  <2> QED BY <2>2, <2>3, <2>7, <2>8, <2>9, TypesAreTypeOK DEF FullInv, ScanInv
<1>7. CASE TaskRecords(task)
  BY <1>6, <1>7 DEF TaskRecords
<1>8. CASE TaskFails(task)
  BY <1>6, <1>8 DEF TaskFails
<1>9. CASE TaskThrows(task)
  BY <1>6, <1>9 DEF TaskThrows
<1> QED BY <1>1, <1>5, <1>7, <1>8, <1>9

-----------------------------------------------------------------------------
\* The walk.

\* The iterator goes on from these levels, or it is at its end.
LEMMA StackAdvances ==
  ASSUME NEW s \in Seq(Levels), stack' = << >> \/ stack' = Settled(s)
  PROVE  /\ stack' \in Seq(Levels)
         /\ \A d \in 1..Len(stack') : d \in 1..Len(s) /\ stack'[d] = s[d]
         /\ Listed' \subseteq {s[d].path : d \in 1..Len(s)}
                                  \cup {Up(accepted'[i]) : i \in 1..Len(accepted')}
<1>1. Len(s) \in Nat
  BY LenProperties
<1>2. CASE stack' = << >>
  <2>1. stack' \in Seq(Levels) /\ Len(stack') = 0
    BY <1>2
  <2> QED BY <2>1 DEF Listed
<1>3. CASE stack' = Settled(s)
  <2>1. /\ stack' \in Seq(Levels)
        /\ Len(stack') <= Len(s)
        /\ \A d \in 1..Len(stack') : stack'[d] = s[d]
    BY <1>3, SettledIsPrefix
  <2>2. Len(stack') \in Nat
    BY <2>1, LenProperties
  <2>3. \A d \in 1..Len(stack') : d \in 1..Len(s) /\ stack'[d] = s[d]
    BY <1>1, <2>1, <2>2
  <2> QED BY <2>1, <2>3 DEF Listed
<1> QED BY <1>2, <1>3

LEMMA StartWalkKeepsInv ==
  ASSUME FullInv, StartWalk
  PROVE  FullInv'
<1> DEFINE s == <<[path |-> << >>, rest |-> Contents[Root]]>>
<1>1. /\ UNCHANGED <<options, denied, cancelled, result, stats, records, outcome, accepted, begun,
                     finished, refused, closed>>
      /\ pc = "starting" /\ ~cancelled /\ pc' = "walking"
      /\ visited' = IF options.follow THEN {Root} ELSE {}
      /\ stack' = << >> \/ stack' = Settled(s)
  BY DEF StartWalk, envVars, poolVars
<1>2. accepted = << >> /\ ~closed /\ result = "none"
  BY <1>1 DEF FullInv, ScanInv, PhaseInv
<1>3. Root \in Dirs /\ Contents[Root] \in SUBSET Nodes
  BY TreeAssumption
<1>4. s \in Seq(Levels) /\ Len(s) = 1 /\ s[1].path = << >> /\ s[1].rest = Contents[Root]
  BY <1>3 DEF Levels, Path
<1> HIDE DEF s
<1>5. /\ stack' \in Seq(Levels)
      /\ \A d \in 1..Len(stack') : d \in 1..Len(s) /\ stack'[d] = s[d]
      /\ Listed' \subseteq {s[d].path : d \in 1..Len(s)}
                               \cup {Up(accepted'[i]) : i \in 1..Len(accepted')}
  BY <1>1, <1>4, StackAdvances
<1>6. Len(accepted') = 0 /\ Range(accepted') = {}
  BY <1>1, <1>2 DEF Range
<1>7. Listed' \subseteq {<< >>}
  <2>1. {Up(accepted'[i]) : i \in 1..Len(accepted')} = {}
    BY <1>6
  <2>2. {s[d].path : d \in 1..Len(s)} = {<< >>}
    BY <1>4
  <2> QED BY <1>5, <2>1, <2>2
<1>8. Leads(<< >>) = Root
  BY DEF Leads
<1>9. OnlyWhatIsAskedFor' /\ DirectoriesListedOnce'
  BY <1>6, <1>7 DEF OnlyWhatIsAskedFor, DirectoriesListedOnce
<1>10. WalkInv'
  <2>1. \A d \in 1..Len(stack') : stack'[d].rest \subseteq Contents[Leads(stack'[d].path)]
    <3> TAKE d \in 1..Len(stack')
    <3>1. d = 1 /\ stack'[d] = s[1]
      BY <1>4, <1>5
    <3> QED BY <1>4, <1>8, <3>1
  <2>2. \A p \in Listed' : p = << >>
    BY <1>7
  <2>3. options' = options /\ (options.follow => Root \in visited')
    BY <1>1
  <2>4. Len(<< >>) = 0
    OBVIOUS
  <2> QED BY <1>3, <1>6, <1>8, <2>1, <2>2, <2>3, <2>4 DEF WalkInv
<1>11. CountsAreTrue' /\ \A w : Tasks(w)' = Tasks(w)
  BY <1>1, CountsAreLeftAlone DEF FullInv, ScanInv
<1>12. Types'
  <2>1. visited' \subseteq Dirs
    BY <1>1, <1>3
  <2> QED BY <1>1, <1>5, <2>1, TypesAreTypeOK DEF FullInv, ScanInv, Types
<1>13. PhaseInv'
  BY <1>1, <1>2, <1>11 DEF FullInv, ScanInv, PhaseInv
<1>14. PoolInv'
  BY <1>1 DEF FullInv, ScanInv, PoolInv
<1> QED BY <1>1, <1>9, <1>10, <1>11, <1>12, <1>13, <1>14, TypesAreTypeOK DEF FullInv, ScanInv

\* Where the iterator is: the top directory is listed, and n is in it.
LEMMA EntryOfTop ==
  ASSUME FullInv, stack # << >>, NEW n \in Top.rest
  PROVE  /\ Top \in Levels /\ Top.path \in Path /\ Top.path \in Listed
         /\ Leads(Top.path) \in Dirs
         /\ n \in Contents[Leads(Top.path)] /\ n \in Nodes /\ n # Root
<1>1. stack \in Seq(Levels) /\ Len(stack) \in 1..Len(stack)
  <2>1. stack \in Seq(Levels)
    BY TypesAreTypeOK DEF FullInv, ScanInv, Types
  <2> QED BY <2>1, EmptySeq
<1>2. Top \in Levels
  BY <1>1, ElementOfSeq DEF Top
<1>3. Top.path \in Path /\ Top.rest \in SUBSET Nodes
  BY <1>2 DEF Levels
<1>4. Top.path \in Listed
  BY <1>1 DEF Listed, Top
<1>5. Leads(Top.path) \in Dirs
  BY <1>4 DEF FullInv, ScanInv, WalkInv
<1>6. n \in Contents[Leads(Top.path)]
  BY <1>1 DEF FullInv, ScanInv, WalkInv, Top
<1>7. n # Root
  BY <1>5, <1>6, TreeAssumption
<1> QED BY <1>2, <1>3, <1>4, <1>5, <1>6, <1>7

\* A directory that is gone into is one no listed path leads to, or the path to it
\* is this one.
LEMMA NewDirectory ==
  ASSUME FullInv, stack # << >>, NEW n \in Top.rest, Recurses(n),
         NEW q \in Listed, Leads(q) = Identity(n)
  PROVE  q = Append(Top.path, n)
<1>1. /\ Top.path \in Path /\ Top.path \in Listed
      /\ Leads(Top.path) \in Dirs
      /\ n \in Contents[Leads(Top.path)] /\ n # Root
  BY EntryOfTop
<1>2. q # << >> => q \in Range(accepted)
  BY DEF FullInv, ScanInv, WalkInv
<1>3. accepted \in Seq(Path) /\ DOMAIN accepted = 1..Len(accepted)
  BY TypesAreTypeOK, LenProperties DEF FullInv, ScanInv, Types
<1>4. ~options.follow
  BY DEF FullInv, ScanInv, WalkInv, Recurses
<1>5. n \in Dirs /\ Identity(n) = n
  BY <1>4, TreeAssumption DEF Recurses, Identity
<1>6. q # << >>
  BY <1>1, <1>5 DEF Leads
<1>7. PICK i \in 1..Len(accepted) : q = accepted[i]
  BY <1>2, <1>3, <1>6 DEF Range
<1>8. q \in Path
  BY <1>3, <1>7, ElementOfSeq
<1>9. Len(q) \in 1..Len(q) /\ Up(q) \in Path /\ q[Len(q)] \in Nodes /\ q = Append(Up(q), q[Len(q)])
  <2>1. Len(q) \in Nat \ {0}
    BY <1>6, <1>8 DEF Path
  <2> QED BY <1>6, <1>8, <2>1, PathSplits
<1>10. q[Len(q)] = n
  <2>1. q[Len(q)] \in Dirs
    BY <1>4, <1>9 DEF FullInv, ScanInv, WalkInv
  <2>2. Leads(q) = q[Len(q)]
    BY <1>6, <2>1, TreeAssumption DEF Leads, Identity
  <2> QED BY <1>5, <2>2
<1>11. Up(q) \in Listed /\ Leads(Up(q)) \in Dirs /\ n \in Contents[Leads(Up(q))]
  <2>1. Up(q) \in Listed
    BY <1>7 DEF Listed
  <2> QED BY <1>7, <1>10, <2>1 DEF FullInv, ScanInv, WalkInv
<1>12. Leads(Up(q)) = Leads(Top.path)
  BY <1>1, <1>11, TreeAssumption
<1>13. Up(q) = Top.path
  BY <1>1, <1>11, <1>12 DEF FullInv, ScanInv, DirectoriesListedOnce
<1> QED BY <1>9, <1>10, <1>13

LEMMA WalkEntryKeepsInv ==
  ASSUME FullInv, NEW n \in Nodes, NEW errors \in SUBSET {"identity", "increment"},
         WalkEntry(n, errors)
  PROVE  FullInv'
<1> DEFINE p == Append(Top.path, n)
           into == "increment" \notin errors /\ "identity" \notin errors /\ Recurses(n)
           here == [stack EXCEPT ![Len(stack)].rest = @ \ {n}]
           inside == [path |-> p, rest |-> Contents[Identity(n)]]
           s == IF into THEN Append(here, inside) ELSE here
<1>1. /\ pc = "walking" /\ stack # << >> /\ n \in Top.rest
      /\ UNCHANGED <<options, denied, cancelled, pc, result, records, outcome>>
      /\ visited' = IF options.follow /\ "identity" \notin errors /\ IsDirectory(n)
                    THEN visited \cup {Identity(n)} ELSE visited
      /\ stats' = [Count(IF Skipped(n) THEN "skipped" ELSE "discovered", 1)
                      EXCEPT !.failed = @ + Cardinality(errors)]
  BY DEF WalkEntry, envVars
<1>2. stack' = << >> \/ stack' = Settled(s)
  BY DEF WalkEntry, Advance
<1>3. \/ Skipped(n) /\ UNCHANGED <<accepted, begun, finished, refused, closed>>
      \/ /\ ~Skipped(n) /\ ~closed
         /\ p \notin {accepted[i] : i \in 1..Len(accepted)}
         /\ accepted' = Append(accepted, p)
         /\ UNCHANGED <<begun, finished, refused, closed>>
  BY PoolSteps DEF WalkEntry, poolVars
<1>4. /\ Top \in Levels /\ Top.path \in Path /\ Top.path \in Listed
      /\ Leads(Top.path) \in Dirs
      /\ n \in Contents[Leads(Top.path)] /\ n # Root
  BY <1>1, EntryOfTop
<1>5. /\ p \in Path /\ p # << >>
      /\ Len(p) = Len(Top.path) + 1 /\ Len(Top.path) \in Nat
      /\ p[Len(p)] = n /\ (\A i \in 1..Len(Top.path) : p[i] = Top.path[i])
      /\ Up(p) = Top.path /\ Leads(p) = Identity(n)
  BY <1>4, EntryPath, LenProperties DEF Path
<1>6. /\ stack \in Seq(Levels) /\ Len(stack) \in 1..Len(stack) /\ Len(stack) \in Nat
      /\ accepted \in Seq(Path) /\ Len(accepted) \in Nat /\ DOMAIN accepted = 1..Len(accepted)
      /\ visited \subseteq Dirs /\ begun \in 0..Len(accepted) /\ finished \subseteq Range(accepted)
  <2>1. stack \in Seq(Levels) /\ accepted \in Seq(Path) /\ visited \subseteq Dirs
        /\ begun \in 0..Len(accepted) /\ finished \subseteq Range(accepted)
    BY TypesAreTypeOK DEF FullInv, ScanInv, Types
  <2> QED BY <1>1, <2>1, EmptySeq, LenProperties
<1>7. into => Identity(n) \in Dirs /\ ~Skipped(n) /\ (options.follow => IsDirectory(n))
              /\ (~options.follow => n \in Dirs)
  BY TreeAssumption DEF Recurses, IsDirectory, Identity
<1>8. /\ here \in Seq(Levels) /\ Len(here) = Len(stack)
      /\ \A d \in 1..Len(stack) : here[d].path = stack[d].path /\ here[d].rest \subseteq stack[d].rest
  <2>1. Top = stack[Len(stack)]
    BY DEF Top
  <2> DEFINE top == [Top EXCEPT !.rest = @ \ {n}]
  <2>2. top \in Levels /\ top.path = Top.path /\ top.rest \subseteq Top.rest
    BY <1>4 DEF Levels
  <2>3. here = [stack EXCEPT ![Len(stack)] = top]
    BY <2>1
  <2> HIDE DEF here, top
  <2>4. /\ here \in Seq(Levels) /\ Len(here) = Len(stack)
        /\ \A d \in 1..Len(stack) : here[d] = IF d = Len(stack) THEN top ELSE stack[d]
    BY <1>6, <2>2, <2>3, ExceptSeq
  <2> QED BY <2>1, <2>2, <2>4
<1> HIDE DEF here
<1>9. into => inside \in Levels /\ inside.path = p /\ inside.rest = Contents[Leads(p)]
  BY <1>5, <1>7, TreeAssumption DEF Levels
<1> HIDE DEF inside, p
<1>10. /\ s \in Seq(Levels)
       /\ \A d \in 1..Len(s) : \/ d \in 1..Len(stack) /\ s[d].path = stack[d].path
                                  /\ s[d].rest \subseteq stack[d].rest
                               \/ into /\ s[d] = inside
  <2>1. CASE into
    <3>1. /\ s = Append(here, inside) /\ s \in Seq(Levels) /\ Len(s) = Len(stack) + 1
          /\ s[Len(stack) + 1] = inside
          /\ \A d \in 1..Len(stack) : s[d] = here[d]
      BY <1>6, <1>8, <1>9, <2>1
    <3> HIDE DEF s, into
    <3> QED BY <1>6, <1>8, <2>1, <3>1
  <2>2. CASE ~into
    BY <1>8, <2>2
  <2> QED BY <2>1, <2>2
<1> HIDE DEF s, into
<1>11. /\ stack' \in Seq(Levels)
       /\ \A d \in 1..Len(stack') : d \in 1..Len(s) /\ stack'[d] = s[d]
       /\ Listed' \subseteq {s[d].path : d \in 1..Len(s)}
                                \cup {Up(accepted'[i]) : i \in 1..Len(accepted')}
  BY <1>2, <1>10, StackAdvances

\* The entries.
<1>12. /\ accepted' \in Seq(Path) /\ Len(accepted') \in Nat
       /\ DOMAIN accepted' = 1..Len(accepted') /\ Len(accepted) <= Len(accepted')
       /\ \A i \in 1..Len(accepted) : accepted'[i] = accepted[i]
       /\ \A i \in 1..Len(accepted') : i \notin 1..Len(accepted) => accepted'[i] = p /\ ~Skipped(n)
       /\ Len(accepted') = Len(accepted) + (IF Skipped(n) THEN 0 ELSE 1)
       /\ ~Skipped(n) => p \in Range(accepted')
  <2>1. CASE Skipped(n)
    <3>1. accepted' = accepted
      BY <1>3, <2>1
    <3> QED BY <1>6, <2>1, <3>1
  <2>2. CASE ~Skipped(n)
    <3>1. /\ accepted' = Append(accepted, p) /\ accepted' \in Seq(Path)
          /\ Len(accepted') = Len(accepted) + 1
          /\ DOMAIN accepted' = 1..Len(accepted) + 1
          /\ \A i \in 1..Len(accepted) : accepted'[i] = accepted[i]
          /\ accepted'[Len(accepted) + 1] = p
      <4>1. accepted' = Append(accepted, p)
        BY <1>3, <2>2
      <4>2. p \in Path
        BY <1>5
      <4> QED BY <1>6, <4>1, <4>2
    <3>2. Len(accepted) + 1 \in DOMAIN accepted'
      BY <1>6, <3>1
    <3>3. p \in Range(accepted')
      BY <3>1, <3>2 DEF Range
    <3> QED BY <1>6, <2>2, <3>1, <3>3
  <2> QED BY <2>1, <2>2
<1>13. Range(accepted) \subseteq Range(accepted')
  BY <1>6, <1>12 DEF Range

\* The listed directories.
<1>14. Listed' \subseteq Listed \cup (IF into THEN {p} ELSE {})
  <2>1. ASSUME NEW d \in 1..Len(s) PROVE s[d].path \in Listed \cup (IF into THEN {p} ELSE {})
    BY <1>9, <1>10 DEF Listed
  <2>2. ASSUME NEW i \in 1..Len(accepted') PROVE Up(accepted'[i]) \in Listed
    <3>1. CASE i \in 1..Len(accepted)
      BY <1>12, <3>1 DEF Listed
    <3>2. CASE i \notin 1..Len(accepted)
      BY <1>4, <1>5, <1>12, <3>2
    <3> QED BY <3>1, <3>2
  <2> QED BY <1>11, <2>1, <2>2
<1>15. OnlyWhatIsAskedFor'
  <2>1. options' = options
    BY <1>1
  <2>2. ASSUME NEW t \in Range(accepted') PROVE t \in Range(accepted) \/ (t = p /\ ~Skipped(n))
    <3>1. PICK i \in 1..Len(accepted') : t = accepted'[i]
      BY <1>12 DEF Range
    <3>2. CASE i \in 1..Len(accepted)
      <4>1. t = accepted[i] /\ i \in DOMAIN accepted
        BY <1>6, <1>12, <3>1, <3>2
      <4> QED BY <4>1 DEF Range
    <3>3. CASE i \notin 1..Len(accepted)
      BY <1>12, <3>1, <3>3
    <3> QED BY <3>2, <3>3
  <2>3. \A i \in 1..Len(p) - 1 : ~options.follow => p[i] \in Dirs
    BY <1>4, <1>5 DEF FullInv, ScanInv, WalkInv
  <2>4. ~Skipped(n) => \A i \in 1..Len(p) : ~Skipped(p[i])
    <3>1. Top.path # << >> => Top.path \in Range(accepted)
      BY <1>4 DEF FullInv, ScanInv, WalkInv
    <3>2. Len(<< >>) = 0
      OBVIOUS
    <3>3. \A i \in 1..Len(Top.path) : ~Skipped(Top.path[i])
      BY <3>1, <3>2 DEF FullInv, ScanInv, OnlyWhatIsAskedFor
    <3> QED BY <1>5, <3>3
  <2>5. \A m : Skipped(m)' = Skipped(m)
    BY <2>1 DEF Skipped
  <2> QED BY <2>1, <2>2, <2>3, <2>4, <2>5 DEF FullInv, ScanInv, OnlyWhatIsAskedFor
<1>16. DirectoriesListedOnce'
  <2>1. \A q, r \in Listed : Leads(q) = Leads(r) => q = r
    BY DEF FullInv, ScanInv, DirectoriesListedOnce
  <2>2. into => \A q \in Listed : Leads(q) = Leads(p) => q = p
    BY <1>1, <1>5, NewDirectory DEF into, p
  <2> QED BY <1>14, <2>1, <2>2 DEF DirectoriesListedOnce
<1>17. WalkInv'
  <2>1. \A d \in 1..Len(stack') : stack'[d].rest \subseteq Contents[Leads(stack'[d].path)]
    <3> TAKE d \in 1..Len(stack')
    <3>1. d \in 1..Len(s) /\ stack'[d] = s[d]
      BY <1>11
    <3>2. CASE d \in 1..Len(stack) /\ s[d].path = stack[d].path /\ s[d].rest \subseteq stack[d].rest
      BY <3>1, <3>2 DEF FullInv, ScanInv, WalkInv
    <3>3. CASE into /\ s[d] = inside
      BY <1>9, <3>1, <3>3
    <3> QED BY <1>10, <3>1, <3>2, <3>3
  <2>2. \A i \in 1..Len(accepted') :
            /\ accepted'[i] # << >>
            /\ accepted'[i][Len(accepted'[i])] \in Contents[Leads(Up(accepted'[i]))]
    <3> TAKE i \in 1..Len(accepted')
    <3>1. CASE i \in 1..Len(accepted)
      BY <1>12, <3>1 DEF FullInv, ScanInv, WalkInv
    <3>2. CASE i \notin 1..Len(accepted)
      BY <1>4, <1>5, <1>12, <3>2
    <3> QED BY <3>1, <3>2
  <2>3. options' = options /\ visited \subseteq visited'
    BY <1>1
  <2>4. ASSUME NEW q \in Listed'
        PROVE  /\ q # << >> => q \in Range(accepted')
               /\ Leads(q) \in Dirs
               /\ options.follow => Leads(q) \in visited'
               /\ ~options.follow => \A i \in 1..Len(q) : q[i] \in Dirs
    <3>1. CASE q \in Listed
      BY <1>13, <2>3, <3>1 DEF FullInv, ScanInv, WalkInv
    <3>2. CASE into /\ q = p
      <4>1. p \in Range(accepted') /\ Leads(p) \in Dirs
        BY <1>5, <1>7, <1>12, <3>2
      <4>2. options.follow => Leads(p) \in visited'
        BY <1>1, <1>5, <1>7, <3>2 DEF into
      <4>3. ~options.follow => \A i \in 1..Len(p) : p[i] \in Dirs
        <5>1. ~options.follow => \A i \in 1..Len(Top.path) : Top.path[i] \in Dirs
          BY <1>4 DEF FullInv, ScanInv, WalkInv
        <5> QED BY <1>5, <1>7, <3>2, <5>1
      <4> QED BY <3>2, <4>1, <4>2, <4>3
    <3> QED BY <1>14, <3>1, <3>2
  <2> QED BY <2>1, <2>2, <2>3, <2>4 DEF WalkInv
\* Counts, phases and the pool.
<1>18. \A w : Tasks(w)' = Tasks(w)
  BY <1>1 DEF Tasks
<1>19. /\ stats' \in Stats /\ stats'.processed = stats.processed
       /\ stats'.discovered = stats.discovered + (IF Skipped(n) THEN 0 ELSE 1)
       /\ stats'.failed >= stats.failed
  <2>1. Cardinality(errors) \in Nat
    <3>1. IsFiniteSet({"identity", "increment"})
      <4>1. IsFiniteSet({"identity"})
        BY FS_Singleton
      <4>2. {"identity", "increment"} = {"identity"} \cup {"increment"}
        OBVIOUS
      <4> QED BY <4>1, <4>2, FS_AddElement
    <3> QED BY <3>1, FS_Subset, FS_CardinalityType
  <2>2. stats \in Stats
    BY TypesAreTypeOK DEF FullInv, ScanInv, Types
  <2> DEFINE c == Count(IF Skipped(n) THEN "skipped" ELSE "discovered", 1)
             k == Cardinality(errors)
  <2>3. /\ c \in Stats /\ c.processed = stats.processed /\ c.failed = stats.failed
        /\ c.discovered = stats.discovered + (IF Skipped(n) THEN 0 ELSE 1)
    <3>1. CASE Skipped(n)
      BY <2>2, <3>1 DEF Stats, Count
    <3>2. CASE ~Skipped(n)
      BY <2>2, <3>2 DEF Stats, Count
    <3> QED BY <3>1, <3>2
  <2>4. stats' = [c EXCEPT !.failed = @ + k]
    BY <1>1
  <2> HIDE DEF c, k
  <2>5. k \in Nat
    BY <2>1 DEF k
  <2> QED BY <2>2, <2>3, <2>4, <2>5 DEF Stats
<1>20. CountsAreTrue'
  <2>1. stats.discovered = Len(accepted) /\ Cardinality(Tasks("failed")) <= stats.failed
        /\ Cardinality(Tasks("recorded")) = Len(records)
    BY DEF FullInv, ScanInv, CountsAreTrue
  <2>2. stats.failed \in Nat /\ stats'.failed \in Nat /\ Cardinality(Tasks("failed")) \in Nat
    <3>1. Tasks("failed") \in SUBSET (DOMAIN outcome)
      BY DEF Tasks
    <3>2. Cardinality(Tasks("failed")) \in Nat
      BY <3>1, FS_Subset, FS_CardinalityType DEF FullInv
    <3> QED BY <1>19, <3>2, TypesAreTypeOK DEF FullInv, ScanInv, Types, Stats
  <2>3. Cardinality(Tasks("failed")) <= stats'.failed
    BY <1>19, <2>1, <2>2
  <2>4. stats'.discovered = Len(accepted')
    BY <1>12, <1>19, <2>1
  <2>5. finished' = finished
    BY <1>3
  <2> QED BY <1>1, <1>18, <1>19, <2>3, <2>4, <2>5 DEF FullInv, ScanInv, CountsAreTrue
<1>21. closed' = closed /\ begun' = begun /\ finished' = finished /\ refused' = refused
  BY <1>3
<1>22. Types'
  <2>1. visited' \subseteq Dirs
    BY <1>1, <1>6 DEF IsDirectory
  <2>2. begun' \in 0..Len(accepted')
    BY <1>6, <1>12, <1>21
  <2>3. finished' \subseteq Range(accepted')
    BY <1>6, <1>13, <1>21
  <2> QED BY <1>1, <1>11, <1>12, <1>19, <1>21, <2>1, <2>2, <2>3, TypesAreTypeOK
          DEF FullInv, ScanInv, Types
<1>23. PhaseInv'
  BY <1>1, <1>18, <1>21 DEF FullInv, ScanInv, PhaseInv
<1>24. PoolInv'
  <2>1. \A i, j \in 1..Len(accepted') : accepted'[i] = accepted'[j] => i = j
    <3>1. \A i, j \in 1..Len(accepted) : accepted[i] = accepted[j] => i = j
      BY DEF FullInv, ScanInv, PoolInv
    <3>2. ~Skipped(n) => \A i \in 1..Len(accepted) : accepted[i] # p
      BY <1>3
    <3> QED BY <1>6, <1>12, <3>1, <3>2
  <2>2. \A i \in 1..begun : accepted'[i] = accepted[i]
    BY <1>6, <1>12
  <2>3. {accepted'[i] : i \in 1..begun} = {accepted[i] : i \in 1..begun}
    BY <2>2
  <2> QED BY <1>1, <1>21, <2>1, <2>3 DEF FullInv, ScanInv, PoolInv
<1> QED BY <1>1, <1>15, <1>16, <1>17, <1>20, <1>22, <1>23, <1>24, TypesAreTypeOK DEF FullInv, ScanInv

-----------------------------------------------------------------------------
\* The theorems.

LEMMA NextKeepsInv ==
  ASSUME FullInv, [Next]_scanVars
  PROVE  FullInv'
<1>1. CASE RefuseScan \/ ReturnCancelled \/ ReturnThrown \/ ReturnOutput
  BY <1>1, ReturnsKeepInv
<1>2. CASE StopWalk \/ EndWalk \/ WalkThrows \/ Cancel
  BY <1>2, PhaseStep
<1>3. CASE StartWalk
  BY <1>3, StartWalkKeepsInv
<1>4. CASE \E n \in Nodes, errors \in SUBSET {"identity", "increment"} : WalkEntry(n, errors)
  BY <1>4, WalkEntryKeepsInv
<1>5. CASE TaskBegins
  BY <1>5, TaskBeginsKeepsInv
<1>6. CASE TaskEnds
  BY <1>6, TaskEndsKeepsInv
<1>7. CASE UNCHANGED scanVars
  <2> USE <1>7 DEF scanVars, envVars, walkVars, poolVars, FullInv, ScanInv
  <2>1. CountsAreTrue' /\ \A w : Tasks(w)' = Tasks(w)
    BY CountsAreLeftAlone
  <2>2. OnlyWhatIsAskedFor' /\ DirectoriesListedOnce' /\ WalkInv'
    BY WalkIsLeftAlone
  <2>3. Types'
    BY TypesAreTypeOK DEF Types
  <2>4. PhaseInv'
    BY <2>1 DEF PhaseInv
  <2>5. PoolIsIdle' <=> PoolIsIdle
    BY DEF PoolIsIdle, Pool!Running
  <2>6. PoolInv'
    BY <2>5 DEF PoolInv
  <2> QED BY <2>1, <2>2, <2>3, <2>4, <2>6, TypesAreTypeOK
<1> QED BY <1>1, <1>2, <1>3, <1>4, <1>5, <1>6, <1>7 DEF Next, Walk

\* The places of a sequence are as many as it is long.
LEMMA Interval ==
  ASSUME NEW k \in Nat
  PROVE  IsFiniteSet(1..k) /\ Cardinality(1..k) = k
  BY FS_Interval

\* The iterator stays in a directory that has something left.
LEMMA SettledKeepsOpen ==
  ASSUME NEW s \in Seq(Levels), NEW k \in 1..Len(s), s[k].rest # {}
  PROVE  k \in 1..Len(Settled(s)) /\ Settled(s)[k] = s[k]
<1> DEFINE open == {d \in 1..Len(s) : \E e \in d..Len(s) : s[e].rest # {}}
<1>1. Len(s) \in Nat
  BY LenProperties
<1>2. IsFiniteSet(1..Len(s)) /\ Cardinality(1..Len(s)) = Len(s)
  BY <1>1, Interval
<1>3. open \in SUBSET (1..Len(s))
  OBVIOUS
<1>4. IsFiniteSet(open) /\ Cardinality(open) \in 0..Len(s)
  BY <1>1, <1>2, <1>3, FS_Subset, FS_CardinalityType
<1>5. 1..k \in SUBSET open
  BY <1>1
<1>6. Cardinality(1..k) = k
  BY Interval
<1>7. Settled(s) = SubSeq(s, 1, Cardinality(open))
  BY DEF Settled
<1> HIDE DEF open
<1>8. k <= Cardinality(open)
  BY <1>4, <1>5, <1>6, FS_Subset
<1>9. /\ Len(SubSeq(s, 1, Cardinality(open))) = Cardinality(open)
      /\ \A i \in 1..Cardinality(open) : SubSeq(s, 1, Cardinality(open))[i] = s[i]
  <2>1. \A i \in 1..Cardinality(open) : s[i] \in Levels
    BY <1>1, <1>4, ElementOfSeq
  <2> QED BY <1>4, <2>1, SubSeqProperties
<1> QED BY <1>1, <1>4, <1>7, <1>8, <1>9

\* While what is submitted and what the iterator has stay as they are, or the debt
\* is no longer asked for, nothing new is owed.
LEMMA NothingNewIsOwed ==
  ASSUME FullInv, WalkOwesNothing, stats.failed \in Nat, stats'.failed \in Nat,
         stats'.failed >= stats.failed,
         UNCHANGED <<options, denied, stack, visited, accepted>>,
         pc' \in {"walking", "stopping", "waiting"} \/ result' = "ok" =>
            pc \in {"walking", "stopping", "waiting"} \/ result = "ok"
  PROVE  WalkOwesNothing'
<1>1. SUFFICES ASSUME (pc \in {"walking", "stopping", "waiting"} \/ result = "ok") /\ stats.failed = 0,
                      WalkOwesNothing
               PROVE  WalkOwesNothing'
  BY DEF WalkOwesNothing
<1>2. \A d : Covered(d)' = Covered(d)
  BY DEF Covered, Skipped
<1>3. \A n : Skipped(n)' = Skipped(n)
  BY DEF Skipped
<1> QED BY <1>1, <1>2, <1>3 DEF WalkOwesNothing

LEMMA StartOwesNothing ==
  ASSUME FullInv, StartWalk
  PROVE  WalkOwesNothing'
<1> DEFINE s == <<[path |-> << >>, rest |-> Contents[Root]]>>
<1>1. /\ UNCHANGED <<options, denied, result, accepted>>
      /\ pc = "starting" /\ pc' = "walking"
      /\ visited' = IF options.follow THEN {Root} ELSE {}
      /\ Root \notin denied => stack' = Settled(s)
  BY DEF StartWalk, envVars, poolVars
<1>2. accepted = << >> /\ result = "none"
  BY <1>1 DEF FullInv, ScanInv, PhaseInv
<1>3. s \in Seq(Levels) /\ Len(s) = 1 /\ s[1].path = << >> /\ s[1].rest = Contents[Root]
  BY TreeAssumption DEF Levels, Path
<1> HIDE DEF s
<1>4. Root \notin denied => Covered(Root)'
  <2> SUFFICES ASSUME Root \notin denied, NEW m \in Contents[Root]
               PROVE  \E k \in 1..Len(stack') : Leads(stack'[k].path) = Root /\ m \in stack'[k].rest
    BY DEF Covered
  <2>1. 1 \in 1..Len(stack') /\ stack'[1] = s[1]
    BY <1>1, <1>3, SettledKeepsOpen
  <2> QED BY <1>3, <2>1 DEF Leads
<1>5. Len(accepted') = 0
  BY <1>1, <1>2
<1> QED BY <1>1, <1>2, <1>4, <1>5 DEF WalkOwesNothing

\* A round of the loop in which nothing goes wrong: what was covered stays so, and
\* the entry is, if it is a directory to go into.
LEMMA EntryOwesNothing ==
  ASSUME FullInv, WalkOwesNothing, NEW n \in Nodes, WalkEntry(n, {}), stats.failed = 0
  PROVE  WalkOwesNothing'
<1> DEFINE p == Append(Top.path, n)
           into == Recurses(n)
           here == [stack EXCEPT ![Len(stack)].rest = @ \ {n}]
           inside == [path |-> p, rest |-> Contents[Identity(n)]]
           s == IF into THEN Append(here, inside) ELSE here
<1>1. /\ pc = "walking" /\ stack # << >> /\ n \in Top.rest
      /\ UNCHANGED <<options, denied, cancelled, pc, result>>
      /\ visited' = IF options.follow /\ IsDirectory(n) THEN visited \cup {Identity(n)} ELSE visited
      /\ stack' = Settled(s)
      /\ Skipped(n) => accepted' = accepted
      /\ ~Skipped(n) => accepted' = Append(accepted, p)
  BY PoolSteps DEF WalkEntry, Advance, envVars, poolVars
<1>2. /\ Top \in Levels /\ Top.path \in Path
      /\ Leads(Top.path) \in Dirs
      /\ n \in Contents[Leads(Top.path)]
  BY <1>1, EntryOfTop
<1>3. /\ p \in Path /\ p[Len(p)] = n /\ Up(p) = Top.path /\ Leads(p) = Identity(n)
  BY <1>2, EntryPath
<1>4. /\ stack \in Seq(Levels) /\ Len(stack) \in 1..Len(stack) /\ Len(stack) \in Nat
      /\ accepted \in Seq(Path) /\ Len(accepted) \in Nat
      /\ visited \subseteq Dirs
  <2>1. stack \in Seq(Levels) /\ accepted \in Seq(Path) /\ visited \subseteq Dirs
    BY TypesAreTypeOK DEF FullInv, ScanInv, Types
  <2> QED BY <1>1, <2>1, EmptySeq, LenProperties
<1>5. into => Identity(n) \in Dirs /\ Contents[Identity(n)] \in SUBSET Nodes
  BY TreeAssumption DEF Recurses, IsDirectory, Identity
<1>6. /\ here \in Seq(Levels) /\ Len(here) = Len(stack)
      /\ \A d \in 1..Len(stack) : /\ here[d].path = stack[d].path
                                  /\ here[d].rest = IF d = Len(stack) THEN stack[d].rest \ {n} ELSE stack[d].rest
  <2>1. Top = stack[Len(stack)]
    BY DEF Top
  <2> DEFINE top == [Top EXCEPT !.rest = @ \ {n}]
  <2>2. top \in Levels /\ top.path = Top.path /\ top.rest = Top.rest \ {n}
    BY <1>2 DEF Levels
  <2>3. here = [stack EXCEPT ![Len(stack)] = top]
    BY <2>1
  <2> HIDE DEF here, top
  <2>4. /\ here \in Seq(Levels) /\ Len(here) = Len(stack)
        /\ \A d \in 1..Len(stack) : here[d] = IF d = Len(stack) THEN top ELSE stack[d]
    BY <1>4, <2>2, <2>3, ExceptSeq
  <2> QED BY <2>1, <2>2, <2>4
<1> HIDE DEF here
<1>7. into => inside \in Levels /\ inside.path = p /\ inside.rest = Contents[Identity(n)]
  BY <1>3, <1>5 DEF Levels
<1> HIDE DEF inside, p
<1>8. /\ s \in Seq(Levels) /\ Len(stack) <= Len(s)
      /\ \A d \in 1..Len(stack) : s[d] = here[d]
      /\ into => Len(stack) + 1 \in 1..Len(s) /\ s[Len(stack) + 1] = inside
  <2>1. CASE into
    <3>1. s = Append(here, inside)
      BY <2>1
    <3>2. /\ Append(here, inside) \in Seq(Levels) /\ Len(Append(here, inside)) = Len(stack) + 1
          /\ Append(here, inside)[Len(stack) + 1] = inside
          /\ \A d \in 1..Len(stack) : Append(here, inside)[d] = here[d]
      BY <1>4, <1>6, <1>7, <2>1
    <3> HIDE DEF s, into
    <3> QED BY <1>4, <3>1, <3>2
  <2>2. CASE ~into
    <3>1. s = here
      BY <2>2
    <3> HIDE DEF s, into
    <3> QED BY <1>4, <1>6, <2>2, <3>1
  <2> QED BY <2>1, <2>2
<1> HIDE DEF s
\* The entries that there were, and the new one.
<1>9. /\ Len(accepted') \in Nat /\ Len(accepted) <= Len(accepted')
      /\ \A i \in 1..Len(accepted) : accepted'[i] = accepted[i]
      /\ \A i \in 1..Len(accepted') : i \notin 1..Len(accepted) => accepted'[i] = p /\ ~Skipped(n)
      /\ ~Skipped(n) => \E i \in 1..Len(accepted') : accepted'[i] = p
  <2>1. CASE Skipped(n)
    BY <1>1, <1>4, <2>1
  <2>2. CASE ~Skipped(n)
    <3>1. accepted' = Append(accepted, p) /\ p \in Path
      BY <1>1, <1>3, <2>2
    <3>2. /\ Len(accepted') = Len(accepted) + 1
          /\ \A i \in 1..Len(accepted) : accepted'[i] = accepted[i]
          /\ accepted'[Len(accepted) + 1] = p
      BY <1>4, <3>1
    <3> QED BY <1>4, <2>2, <3>2
  <2> QED BY <2>1, <2>2
\* What the iterator still has.
<1>10. ASSUME NEW k \in 1..Len(s), s[k].rest # {}
       PROVE  k \in 1..Len(stack') /\ stack'[k] = s[k]
  BY <1>1, <1>8, <1>10, SettledKeepsOpen
<1>11. \A m : Skipped(m)' = Skipped(m)
  BY <1>1 DEF Skipped
<1>12. ASSUME NEW d, Covered(d) PROVE Covered(d)'
  <2> SUFFICES ASSUME NEW m \in Contents[d], ~Skipped(m)
               PROVE  \/ \E i \in 1..Len(accepted') :
                            accepted'[i][Len(accepted'[i])] = m /\ Leads(Up(accepted'[i])) = d
                      \/ \E k \in 1..Len(stack') : Leads(stack'[k].path) = d /\ m \in stack'[k].rest
    BY <1>11 DEF Covered
  <2>1. CASE \E i \in 1..Len(accepted) : accepted[i][Len(accepted[i])] = m /\ Leads(Up(accepted[i])) = d
    <3>1. PICK i \in 1..Len(accepted) : accepted[i][Len(accepted[i])] = m /\ Leads(Up(accepted[i])) = d
      BY <2>1
    <3>2. i \in 1..Len(accepted') /\ accepted'[i] = accepted[i]
      BY <1>4, <1>9
    <3> QED BY <3>1, <3>2
  <2>2. CASE \E k \in 1..Len(stack) : Leads(stack[k].path) = d /\ m \in stack[k].rest
    <3>1. PICK k \in 1..Len(stack) : Leads(stack[k].path) = d /\ m \in stack[k].rest
      BY <2>2
    <3>2. CASE k = Len(stack) /\ m = n
      <4>1. Leads(Top.path) = d
        BY <3>1, <3>2 DEF Top
      <4>2. PICK i \in 1..Len(accepted') : accepted'[i] = p
        BY <1>9, <3>2
      <4> QED BY <1>3, <3>2, <4>1, <4>2
    <3>3. CASE ~(k = Len(stack) /\ m = n)
      <4>1. k \in 1..Len(s) /\ s[k].path = stack[k].path /\ m \in s[k].rest
        <5>1. Len(s) \in Nat
          BY <1>8, LenProperties
        <5>2. k \in 1..Len(s) /\ s[k] = here[k]
          BY <1>4, <1>8, <5>1
        <5>3. m \in here[k].rest /\ here[k].path = stack[k].path
          BY <1>6, <3>1, <3>3
        <5> QED BY <5>2, <5>3
      <4>2. k \in 1..Len(stack') /\ stack'[k] = s[k]
        BY <1>10, <4>1
      <4> QED BY <3>1, <4>1, <4>2
    <3> QED BY <3>2, <3>3
  <2> QED BY <1>12, <2>1, <2>2 DEF Covered
<1>13. ASSUME into PROVE Covered(Identity(n))'
  <2> SUFFICES ASSUME NEW m \in Contents[Identity(n)]
               PROVE  \E k \in 1..Len(stack') : Leads(stack'[k].path) = Identity(n) /\ m \in stack'[k].rest
    BY DEF Covered
  <2>1. Len(stack) + 1 \in 1..Len(s) /\ s[Len(stack) + 1] = inside /\ m \in inside.rest
    BY <1>7, <1>8, <1>13
  <2>2. Len(stack) + 1 \in 1..Len(stack') /\ stack'[Len(stack) + 1] = inside
    BY <1>10, <2>1
  <2> QED BY <1>3, <1>7, <1>13, <2>1, <2>2
<1>14. /\ Root \notin denied => Covered(Root)
       /\ \A i \in 1..Len(accepted) :
             LET m == accepted[i][Len(accepted[i])]
             IN  IF options.follow THEN IsDirectory(m) => Identity(m) \in visited
                 ELSE m \in Dirs \ denied => Covered(m)
       /\ options.follow => \A d \in visited \ denied : (\A m \in Names(d) : ~Skipped(m)) => Covered(d)
  BY <1>1 DEF WalkOwesNothing
<1>15. ASSUME NEW i \in 1..Len(accepted'), NEW m, m = accepted'[i][Len(accepted'[i])]
       PROVE  IF options.follow THEN IsDirectory(m) => Identity(m) \in visited'
              ELSE m \in Dirs \ denied => Covered(m)'
  <2>1. CASE i \in 1..Len(accepted)
    <3>1. m = accepted[i][Len(accepted[i])]
      BY <1>9, <1>15, <2>1
    <3>2. IF options.follow THEN IsDirectory(m) => Identity(m) \in visited
          ELSE m \in Dirs \ denied => Covered(m)
      BY <1>14, <2>1, <3>1
    <3>3. visited \subseteq visited'
      BY <1>1
    <3> QED BY <1>12, <3>2, <3>3
  <2>2. CASE i \notin 1..Len(accepted)
    <3>1. m = n /\ ~Skipped(n)
      BY <1>3, <1>9, <1>15, <2>2
    <3>2. CASE options.follow
      BY <1>1, <3>1, <3>2
    <3>3. CASE ~options.follow
      <4>1. n \in Dirs => Identity(n) = n
        BY TreeAssumption DEF Identity
      <4>2. n \in Dirs \ denied => into
        BY <3>1, <3>3, <4>1 DEF Recurses
      <4> QED BY <1>13, <3>1, <3>3, <4>1, <4>2
    <3> QED BY <3>2, <3>3
  <2> QED BY <2>1, <2>2
<1>16. ASSUME options.follow, NEW d \in visited' \ denied, \A m \in Names(d) : ~Skipped(m)
       PROVE  Covered(d)'
  <2>1. CASE d \in visited
    BY <1>12, <1>14, <1>16, <2>1
  <2>2. CASE d \notin visited
    <3>1. d = Identity(n) /\ IsDirectory(n)
      BY <1>1, <1>16, <2>2
    <3>2. n \in Names(d)
      <4>1. n \in Dirs \cup Links
        BY <3>1, TreeAssumption DEF IsDirectory, Identity, Nodes
      <4> QED BY <3>1, <4>1 DEF Names
    <3>3. into
      BY <1>16, <2>2, <3>1, <3>2 DEF Recurses
    <3> QED BY <1>13, <3>1, <3>3
  <2> QED BY <2>1, <2>2
<1>17. result' # "ok" /\ pc' = "walking"
  BY <1>1 DEF FullInv, ScanInv, PhaseInv
<1>18. Root \notin denied => Covered(Root)'
  BY <1>12, <1>14
<1> HIDE DEF into
<1> QED BY <1>1, <1>11, <1>15, <1>16, <1>17, <1>18 DEF WalkOwesNothing

LEMMA NextOwesNothing ==
  ASSUME FullInv, FullInv', WalkOwesNothing, [Next]_scanVars
  PROVE  WalkOwesNothing'
<1>1. stats \in Stats /\ stats' \in Stats /\ stats.failed \in Nat /\ stats'.failed \in Nat
  BY TypesAreTypeOK DEF FullInv, ScanInv, Types, Stats
<1>2. CASE StartWalk
  BY <1>2, StartOwesNothing
<1>3. CASE \E n \in Nodes, errors \in SUBSET {"identity", "increment"} : WalkEntry(n, errors)
  <2>1. PICK n \in Nodes, errors \in SUBSET {"identity", "increment"} : WalkEntry(n, errors)
    BY <1>3
  <2>2. CASE errors = {} /\ stats.failed = 0
    BY <2>1, <2>2, EntryOwesNothing
  <2>3. CASE errors # {} \/ stats.failed # 0
    <3>1. stats'.failed = stats.failed + Cardinality(errors)
      <4>1. stats' = [Count(IF Skipped(n) THEN "skipped" ELSE "discovered", 1)
                         EXCEPT !.failed = @ + Cardinality(errors)]
        BY <2>1 DEF WalkEntry
      <4> QED BY <1>1, <4>1 DEF Count, Stats
    <3>2. Cardinality(errors) \in Nat /\ (errors # {} => Cardinality(errors) # 0)
      <4>1. IsFiniteSet({"identity", "increment"})
        <5>1. IsFiniteSet({"identity"})
          BY FS_Singleton
        <5>2. {"identity", "increment"} = {"identity"} \cup {"increment"}
          OBVIOUS
        <5> QED BY <5>1, <5>2, FS_AddElement
      <4>2. IsFiniteSet(errors)
        BY <4>1, FS_Subset
      <4> QED BY <4>2, FS_CardinalityType, FS_EmptySet
    <3>3. stats'.failed # 0
      BY <1>1, <2>3, <3>1, <3>2
    <3> QED BY <3>3 DEF WalkOwesNothing
  <2> QED BY <2>2, <2>3
<1>4. CASE RefuseScan \/ WalkThrows \/ ReturnThrown
  <2>1. result' # "ok" /\ pc' \in {"unwinding", "returned"}
    BY <1>4 DEF RefuseScan, WalkThrows, ReturnThrown, Return, FullInv, ScanInv, PhaseInv
  <2> QED BY <2>1 DEF WalkOwesNothing
<1>5. CASE StopWalk \/ EndWalk \/ ReturnCancelled \/ ReturnOutput \/ Cancel
  <2>1. UNCHANGED <<options, denied, stack, visited, accepted, stats>>
    BY <1>5 DEF StopWalk, EndWalk, ReturnCancelled, ReturnOutput, Cancel, Pool!Close, envVars,
                walkVars, poolVars
  <2>2. pc \in {"walking", "stopping", "waiting"} \/ (pc' = pc /\ result' = result)
    BY <1>5 DEF StopWalk, EndWalk, ReturnCancelled, ReturnOutput, Cancel, Return, FullInv, ScanInv,
                PhaseInv
  <2> QED BY <1>1, <2>1, <2>2, NothingNewIsOwed
<1>6. CASE TaskBegins
  <2>1. UNCHANGED <<options, denied, stack, visited, accepted, stats, pc, result>>
    BY <1>6, PoolSteps DEF TaskBegins, envVars, walkVars
  <2> QED BY <1>1, <2>1, NothingNewIsOwed
<1>7. CASE TaskEnds
  <2>1. UNCHANGED <<options, denied, stack, visited, accepted, pc, result>>
    BY <1>7 DEF TaskEnds, TaskRecords, TaskFails, TaskThrows, TaskIsDropped, TaskReturns, envVars, walkVars
  <2>2. stats' \in {stats, Count("processed", 1), Count("failed", 1)}
    BY <1>7 DEF TaskEnds, TaskRecords, TaskFails, TaskThrows, TaskIsDropped
  <2>3. stats'.failed >= stats.failed
    BY <1>1, <2>2 DEF Count, Stats
  <2> QED BY <1>1, <2>1, <2>3, NothingNewIsOwed
<1>8. CASE UNCHANGED scanVars
  BY <1>1, <1>8, NothingNewIsOwed DEF scanVars, envVars, walkVars, poolVars
<1> QED BY <1>2, <1>3, <1>4, <1>5, <1>6, <1>7, <1>8 DEF Next, Walk

\* The scan keeps its invariant: in particular its counts are true, nothing is
\* submitted that the options leave out, no directory is listed by two paths, and
\* while nothing has failed no entry of a directory it has come by is lost.
THEOREM ScanInvariant == Spec => []IInv
<1>1. Init => FullInv /\ WalkOwesNothing
  <2>1. Init => WalkOwesNothing
    BY DEF Init, WalkOwesNothing
  <2> QED BY <2>1, InitFullInv
<1>2. FullInv /\ WalkOwesNothing /\ [Next]_scanVars => (FullInv /\ WalkOwesNothing)'
  <2>1. FullInv /\ [Next]_scanVars => FullInv'
    BY NextKeepsInv
  <2> QED BY <2>1, NextOwesNothing
<1>3. FullInv /\ WalkOwesNothing => IInv
  BY DEF FullInv, IInv
<1> QED BY <1>1, <1>2, <1>3, PTL DEF Spec

\* Nothing failed, so what each task of a scan that is ok came to is known.
LEMMA TasksOfSuccess ==
  ASSUME FullInv, result = "ok", stats.failed = 0
  PROVE  /\ \A i \in 1..Len(accepted) :
               accepted[i] \in DOMAIN outcome /\ outcome[accepted[i]] \in {"recorded", "thrown"}
         /\ stats.processed = stats.discovered <=> Tasks("thrown") = {}
<1>1. /\ begun = Len(accepted) /\ {accepted[i] : i \in 1..begun} \subseteq finished
      /\ finished \subseteq DOMAIN outcome
      /\ DOMAIN outcome \subseteq {accepted[i] : i \in 1..begun}
      /\ Tasks("dropped") = {}
  BY PoolSteps DEF FullInv, ScanInv, PoolInv, PhaseInv, PoolIsIdle, CountsAreTrue
<1>2. \A w : IsFiniteSet(Tasks(w)) /\ Cardinality(Tasks(w)) \in Nat
  <2>1. \A w : Tasks(w) \in SUBSET (DOMAIN outcome)
    BY DEF Tasks
  <2>2. \A w : IsFiniteSet(Tasks(w))
    BY <2>1, FS_Subset DEF FullInv
  <2> QED BY <2>2, FS_CardinalityType
<1>3. Tasks("failed") = {}
  <2>1. Cardinality(Tasks("failed")) <= 0
    BY DEF FullInv, ScanInv, CountsAreTrue
  <2> QED BY <1>2, <2>1, FS_EmptySet
<1>4. outcome \in [DOMAIN outcome -> {"recorded", "failed", "thrown", "dropped"}]
  BY TypesAreTypeOK DEF FullInv, ScanInv, Types
<1>5. \A t \in DOMAIN outcome : outcome[t] \in {"recorded", "thrown"}
  BY <1>1, <1>3, <1>4 DEF Tasks
<1>6. DOMAIN outcome = {accepted[i] : i \in 1..Len(accepted)}
  BY <1>1
<1>7. Cardinality(DOMAIN outcome) = Len(accepted)
  <2>1. accepted \in Seq(Path) /\ Len(accepted) \in Nat
    BY TypesAreTypeOK, LenProperties DEF FullInv, ScanInv, Types
  <2>2. IsFiniteSet(1..Len(accepted)) /\ Cardinality(1..Len(accepted)) = Len(accepted)
    BY <2>1, Interval
  <2> DEFINE f == [i \in 1..Len(accepted) |-> accepted[i]]
  <2>3. f \in Bijection(1..Len(accepted), DOMAIN outcome)
    <3>1. f \in [1..Len(accepted) -> DOMAIN outcome]
      BY <1>6
    <3>2. \A i, j \in 1..Len(accepted) : f[i] = f[j] => i = j
      BY DEF FullInv, ScanInv, PoolInv
    <3>3. \A t \in DOMAIN outcome : \E i \in 1..Len(accepted) : f[i] = t
      BY <1>6
    <3> QED BY <3>1, <3>2, <3>3 DEF Bijection, Injection, Surjection, IsInjective
  <2>4. Cardinality(1..Len(accepted)) = Cardinality(DOMAIN outcome)
    <3>1. ExistsBijection(1..Len(accepted), DOMAIN outcome)
      BY <2>3 DEF ExistsBijection
    <3> QED BY <2>2, <3>1, FS_Bijection
  <2> QED BY <2>2, <2>4
<1>8. Tasks("recorded") \cup Tasks("thrown") = DOMAIN outcome
      /\ Tasks("recorded") \cap Tasks("thrown") = {}
  BY <1>5 DEF Tasks
<1>9. Cardinality(DOMAIN outcome) = Cardinality(Tasks("recorded")) + Cardinality(Tasks("thrown"))
  <2>1. Cardinality({}) = 0
    BY FS_EmptySet
  <2> DEFINE R == Tasks("recorded")
             T == Tasks("thrown")
  <2>2. IsFiniteSet(R) /\ IsFiniteSet(T) /\ Cardinality(R) \in Nat /\ Cardinality(T) \in Nat
    BY <1>2
  <2>3. R \cup T = DOMAIN outcome /\ R \cap T = {}
    BY <1>8
  <2> HIDE DEF R, T
  <2>4. Cardinality(R \cup T) = Cardinality(R) + Cardinality(T) - Cardinality(R \cap T)
    BY <2>2, FS_Union
  <2>5. Cardinality(R \cap T) = 0 /\ Cardinality(R \cup T) = Cardinality(DOMAIN outcome)
    BY <2>1, <2>3
  <2>6. Cardinality(DOMAIN outcome) = Cardinality(R) + Cardinality(T)
    BY <2>2, <2>4, <2>5
  <2> QED BY <2>6 DEF R, T
<1>10. stats.processed = Cardinality(Tasks("recorded")) /\ stats.discovered = Len(accepted)
  BY DEF FullInv, ScanInv, CountsAreTrue
<1>11. Cardinality(Tasks("thrown")) = 0 <=> Tasks("thrown") = {}
  BY <1>2, FS_EmptySet
<1>12. stats.processed = stats.discovered <=> Tasks("thrown") = {}
  <2>1. Cardinality(Tasks("recorded")) \in Nat /\ Cardinality(Tasks("thrown")) \in Nat
    BY <1>2
  <2> QED BY <2>1, <1>7, <1>9, <1>10, <1>11
<1> QED BY <1>5, <1>6, <1>12

\* So a scan that is ok without a failure has missed nothing: the directories whose
\* entries are all submitted are closed under what the walk must come to, because
\* each of them was gone into when its entry, or its first name, was met.
LEMMA InvMeansWhole ==
  ASSUME FullInv, WalkOwesNothing
  PROVE  SuccessIsWhole
<1> SUFFICES ASSUME result = "ok", stats.failed = 0
             PROVE  /\ Root \notin denied => \A d \in Reach : \A n \in Contents[d] :
                          ~Skipped(n) => \E t \in DOMAIN outcome :
                              /\ t[Len(t)] = n /\ Leads(SubSeq(t, 1, Len(t) - 1)) = d
                              /\ outcome[t] \in {"recorded", "thrown"}
                    /\ stats.processed = stats.discovered <=> Tasks("thrown") = {}
  BY DEF SuccessIsWhole
<1> DEFINE S == {d \in Dirs : Covered(d)}
<1>1. /\ stack = << >>
      /\ Root \notin denied => Covered(Root)
      /\ \A i \in 1..Len(accepted) :
            LET n == accepted[i][Len(accepted[i])]
            IN  IF options.follow THEN IsDirectory(n) => Identity(n) \in visited
                ELSE n \in Dirs \ denied => Covered(n)
      /\ options.follow => \A d \in visited \ denied : (\A n \in Names(d) : ~Skipped(n)) => Covered(d)
  BY DEF WalkOwesNothing, FullInv, ScanInv, PhaseInv
<1>2. \A d : Covered(d) => \A m \in Contents[d] : ~Skipped(m) =>
             \E i \in 1..Len(accepted) :
                accepted[i][Len(accepted[i])] = m /\ Leads(Up(accepted[i])) = d
  BY <1>1 DEF Covered
<1>3. Root \notin denied => Root \in S
  BY <1>1, TreeAssumption
<1>4. Within(S) \subseteq S
  <2> SUFFICES ASSUME NEW d \in S, NEW m \in Contents[d],
                      IF options.follow THEN IsDirectory(m) ELSE m \in Dirs,
                      IF options.follow THEN \A k \in Names(Identity(m)) : ~Skipped(k) ELSE ~Skipped(m),
                      Identity(m) \notin denied
               PROVE  Identity(m) \in S
    BY DEF Within
  <2>1. m \in Nodes
    BY TreeAssumption
  <2>2. CASE options.follow
    <3>1. Identity(m) \in Dirs /\ m \in Names(Identity(m))
      BY <2>1, <2>2, TreeAssumption DEF IsDirectory, Identity, Names, Nodes
    <3>2. PICK i \in 1..Len(accepted) : accepted[i][Len(accepted[i])] = m
      BY <1>2, <2>2, <3>1
    <3>3. Identity(m) \in visited
      BY <1>1, <2>2, <3>2
    <3> QED BY <1>1, <2>2, <3>1, <3>3
  <2>3. CASE ~options.follow
    <3>1. Identity(m) = m /\ m \in Dirs /\ ~Skipped(m)
      BY <2>3, TreeAssumption DEF Identity
    <3>2. PICK i \in 1..Len(accepted) : accepted[i][Len(accepted[i])] = m
      BY <1>2, <3>1
    <3> QED BY <1>1, <2>3, <3>1, <3>2
  <2> QED BY <2>2, <2>3
<1>5. Root \notin denied => Reach \subseteq S
  <2>1. S \in SUBSET Dirs
    OBVIOUS
  <2> HIDE DEF S
  <2> QED BY <1>3, <1>4, <2>1 DEF Reach
<1>6. /\ \A i \in 1..Len(accepted) :
             accepted[i] \in DOMAIN outcome /\ outcome[accepted[i]] \in {"recorded", "thrown"}
      /\ stats.processed = stats.discovered <=> Tasks("thrown") = {}
  BY TasksOfSuccess
<1>7. ASSUME Root \notin denied, NEW d \in Reach, NEW n \in Contents[d], ~Skipped(n)
      PROVE  \E t \in DOMAIN outcome :
                /\ t[Len(t)] = n /\ Leads(SubSeq(t, 1, Len(t) - 1)) = d
                /\ outcome[t] \in {"recorded", "thrown"}
  <2>1. PICK i \in 1..Len(accepted) :
            accepted[i][Len(accepted[i])] = n /\ Leads(Up(accepted[i])) = d
    BY <1>2, <1>5, <1>7
  <2> QED BY <1>6, <2>1 DEF Up
<1> QED BY <1>6, <1>7

\* ... and has left no task behind.
LEMMA InvMeansNoTask ==
  ASSUME FullInv
  PROVE  TasksDieWithTheScan
<1> SUFFICES ASSUME pc = "returned"
             PROVE  Len(accepted) = begun /\ Range(accepted) = finished
  BY DEF TasksDieWithTheScan
<1>1. begun = Len(accepted) /\ {accepted[i] : i \in 1..begun} \subseteq finished
  BY PoolSteps DEF FullInv, ScanInv, PoolInv, PoolIsIdle
<1>2. accepted \in Seq(Path) /\ DOMAIN accepted = 1..Len(accepted)
      /\ finished \subseteq Range(accepted)
  BY TypesAreTypeOK, LenProperties DEF FullInv, ScanInv, Types
<1> QED BY <1>1, <1>2 DEF Range

\* A scan that is ok without a failure has missed nothing, for any tree.
THEOREM ScanIsWhole == Spec => []SuccessIsWhole
<1>1. Init => FullInv /\ WalkOwesNothing
  <2>1. Init => WalkOwesNothing
    BY DEF Init, WalkOwesNothing
  <2> QED BY <2>1, InitFullInv
<1>2. FullInv /\ WalkOwesNothing /\ [Next]_scanVars => (FullInv /\ WalkOwesNothing)'
  <2>1. FullInv /\ [Next]_scanVars => FullInv'
    BY NextKeepsInv
  <2> QED BY <2>1, NextOwesNothing
<1>3. FullInv /\ WalkOwesNothing => SuccessIsWhole
  BY InvMeansWhole
<1> QED BY <1>1, <1>2, <1>3, PTL DEF Spec

\* When scan has returned, none of its tasks runs or waits to run.
THEOREM NoTaskOutlivesTheScan == Spec => []TasksDieWithTheScan
<1>1. Init => FullInv
  BY InitFullInv
<1>2. FullInv /\ [Next]_scanVars => FullInv'
  BY NextKeepsInv
<1>3. FullInv => TasksDieWithTheScan
  BY InvMeansNoTask
<1> QED BY <1>1, <1>2, <1>3, PTL DEF Spec

-----------------------------------------------------------------------------
\* Numbers and orders.

\* A set of numbers that is not empty has a least element.
LEMMA LeastNumber ==
  ASSUME NEW S \in SUBSET Nat, S # {}
  PROVE  \E m \in S : \A k \in S : m <= k
<1>1. IsWellFoundedOn(OpToRel(<, Nat), Nat)
  BY NatLessThanWellFounded
<1>2. PICK m \in S : \A k \in S : <<k, m>> \notin OpToRel(<, Nat)
  BY <1>1, WFMin
<1>3. \A k \in S : ~(k < m)
  BY <1>2 DEF OpToRel
<1> QED BY <1>3

\* One that is bounded has a greatest, too.
LEMMA GreatestNumber ==
  ASSUME NEW n \in Nat, NEW S \in SUBSET (0..n), S # {}
  PROVE  \E m \in S : \A k \in S : k <= m
<1> DEFINE T == {n - k : k \in S}
<1>1. T \in SUBSET Nat /\ T # {}
  <2>1. \A k \in S : n - k \in Nat
    OBVIOUS
  <2> QED BY <2>1
<1>2. PICK t \in T : \A k \in T : t <= k
  BY <1>1, LeastNumber
<1>3. PICK m \in S : t = n - m
  OBVIOUS
<1>4. ASSUME NEW k \in S PROVE k <= m
  <2>1. t <= n - k
    BY <1>2
  <2> QED BY <2>1, <1>3
<1> QED BY <1>4

\* A finite set that is strictly and totally ordered is numbered by how many come
\* before each element.
LEMMA Ranking ==
  ASSUME NEW S, IsFiniteSet(S), NEW R,
         \A x \in S : <<x, x>> \notin R,
         \A x, y, z \in S : <<x, y>> \in R /\ <<y, z>> \in R => <<x, z>> \in R,
         \A x, y \in S : x # y => <<x, y>> \in R \/ <<y, x>> \in R
  PROVE  LET Rank(e) == Cardinality({o \in S : <<o, e>> \in R})
         IN  /\ Cardinality(S) \in Nat
             /\ \A e \in S : Rank(e) \in 0..Cardinality(S) - 1
             /\ \A x, y \in S : <<x, y>> \in R <=> Rank(x) < Rank(y)
             /\ \A i \in 1..Cardinality(S) : \E e \in S : Rank(e) = i - 1
<1> DEFINE Below(e) == {o \in S : <<o, e>> \in R}
           Rank(e) == Cardinality(Below(e))
           n == Cardinality(S)
           rank == [e \in S |-> Rank(e)]
<1>0. n \in Nat
  BY FS_CardinalityType
<1>1. ASSUME NEW e \in S PROVE IsFiniteSet(Below(e)) /\ Rank(e) \in 0..n - 1 /\ Rank(e) \in Int
  <2>1. Below(e) \in SUBSET S
    OBVIOUS
  <2>0. IsFiniteSet(Below(e)) /\ Rank(e) <= n /\ (n = Rank(e) => S = Below(e))
    BY <2>1, FS_Subset
  <2>2. Rank(e) \in Nat
    BY <2>0, FS_CardinalityType
  <2>3. e \notin Below(e)
    OBVIOUS
  <2> HIDE DEF Rank, n
  <2> QED BY <2>0, <2>2, <2>3, <1>0 DEF n
<1>2. ASSUME NEW x \in S, NEW y \in S, <<x, y>> \in R PROVE Rank(x) < Rank(y)
  <2>1. Below(x) \in SUBSET Below(y)
    BY <1>2
  <2>2. x \in Below(y) /\ x \notin Below(x)
    BY <1>2
  <2>3. Rank(x) <= Rank(y) /\ (Rank(y) = Rank(x) => Below(y) = Below(x))
    BY <1>1, <2>1, FS_Subset
  <2>4. Rank(x) \in Int /\ Rank(y) \in Int
    BY <1>1
  <2> QED BY <2>2, <2>3, <2>4
<1>3. ASSUME NEW x \in S, NEW y \in S, Rank(x) < Rank(y) PROVE <<x, y>> \in R
  <2>1. Rank(x) \in Int /\ Rank(y) \in Int
    BY <1>1
  <2>2. x # y
    <3> HIDE DEF Rank
    <3> QED BY <1>3, <2>1
  <2>3. CASE <<y, x>> \in R
    BY <2>3, <1>2, <1>3, <2>1
  <2> QED BY <2>2, <2>3
<1>4. rank \in Injection(S, 0..n - 1)
  <2>1. rank \in [S -> 0..n - 1]
    BY <1>1
  <2>2. ASSUME NEW x \in S, NEW y \in S, rank[x] = rank[y] PROVE x = y
    <3>1. Rank(x) = Rank(y) /\ Rank(x) \in Int
      BY <2>2, <1>1
    <3>2. ~(Rank(x) < Rank(y)) /\ ~(Rank(y) < Rank(x))
      BY <3>1
    <3> QED BY <3>2, <1>2
  <2> QED BY <2>1, <2>2 DEF Injection, IsInjective
<1>5. IsFiniteSet(0..n - 1) /\ Cardinality(0..n - 1) = n
  <2>1. 0 \in Int /\ n - 1 \in Int
    BY <1>0
  <2>2. IsFiniteSet(0..n - 1) /\ Cardinality(0..n - 1) = IF 0 > n - 1 THEN 0 ELSE n - 1 - 0 + 1
    BY <2>1, FS_Interval
  <2> QED BY <2>2, <1>0
<1>6. rank \in Surjection(S, 0..n - 1)
  BY <1>4, <1>5, FS_Injection
<1>7. ASSUME NEW i \in 1..n PROVE \E e \in S : Rank(e) = i - 1
  <2>1. i - 1 \in 0..n - 1
    BY <1>0
  <2>2. PICK e \in S : rank[e] = i - 1
    BY <2>1, <1>6 DEF Surjection
  <2> QED BY <2>2
<1> QED BY <1>0, <1>1, <1>2, <1>3, <1>7

-----------------------------------------------------------------------------
\* Texts.

\* A text by its bytes.
LEMMA TextIs ==
  ASSUME NEW t \in Text
  PROVE  /\ Len(t) \in Nat
         /\ DOMAIN t = 1..Len(t)
         /\ \A i \in 1..Len(t) : t[i] \in 0..255 /\ t[i] \in Nat
<1>1. t \in Seq(0..255)
  BY DEF Text
<1>2. \A b \in 0..255 : b \in Nat
  OBVIOUS
<1>3. Len(t) \in Nat /\ t \in [1..Len(t) -> 0..255] /\ DOMAIN t = 1..Len(t)
  BY <1>1, LenProperties
<1> QED BY <1>2, <1>3

\* A prefix agrees byte by byte.
LEMMA PrefixIs ==
  ASSUME NEW s \in Text, NEW t \in Text
  PROVE  IsPrefix(s, t) <=> Len(s) <= Len(t) /\ \A i \in 1..Len(s) : s[i] = t[i]
<1>1. Len(s) \in Nat /\ Len(t) \in Nat
  BY TextIs
<1>2. ASSUME Len(s) <= Len(t)
      PROVE  /\ SubSeq(s, 1, Len(s)) = s
             /\ SubSeq(t, 1, Len(s)) \in Text
             /\ Len(SubSeq(t, 1, Len(s))) = Len(s)
             /\ \A i \in 1..Len(s) : SubSeq(t, 1, Len(s))[i] = t[i]
  <2>1. s \in Seq(0..255) /\ t \in Seq(0..255)
    BY DEF Text
  <2>2. SubSeq(s, 1, Len(s)) = s
    BY <2>1, SubSeqFull
  <2>3. \A i \in 1..Len(s) : t[i] \in 0..255
    BY <1>1, <1>2, TextIs
  <2> QED BY <2>2, <2>3, <1>1, SubSeqProperties DEF Text
<1>3. ASSUME Len(s) <= Len(t), \A i \in 1..Len(s) : s[i] = t[i]
      PROVE  s = SubSeq(t, 1, Len(s))
  BY <1>2, <1>3, SeqEqual DEF Text
<1> QED BY <1>2, <1>3 DEF IsPrefix

\* std::string's < is a strict total order of texts.
LEMMA LessIsStrict ==
  ASSUME NEW t \in Text
  PROVE  ~Less(t, t)
BY TextIs DEF Less

LEMMA LessIsTransitive ==
  ASSUME NEW s \in Text, NEW t \in Text, NEW u \in Text, Less(s, t), Less(t, u)
  PROVE  Less(s, u)
<1>1. PICK i \in 1..Len(t) :
        /\ \A j \in 1..i - 1 : j <= Len(s) /\ s[j] = t[j]
        /\ i > Len(s) \/ s[i] < t[i]
  BY DEF Less
<1>2. PICK k \in 1..Len(u) :
        /\ \A j \in 1..k - 1 : j <= Len(t) /\ t[j] = u[j]
        /\ k > Len(t) \/ t[k] < u[k]
  BY DEF Less
<1>3. /\ Len(s) \in Nat /\ Len(t) \in Nat /\ Len(u) \in Nat
      /\ \A j \in 1..Len(s) : s[j] \in Nat
      /\ \A j \in 1..Len(t) : t[j] \in Nat
      /\ \A j \in 1..Len(u) : u[j] \in Nat
  BY TextIs
<1>4. CASE i < k
  <2>1. i \in 1..Len(u) /\ t[i] = u[i]
    BY <1>1, <1>2, <1>3, <1>4
  <2>2. \A j \in 1..i - 1 : j <= Len(s) /\ s[j] = u[j]
    BY <1>1, <1>2, <1>3, <1>4
  <2> QED BY <1>1, <2>1, <2>2 DEF Less
<1>5. CASE k < i
  <2>1. k \in 1..Len(t) /\ t[k] < u[k] /\ k <= Len(s) /\ s[k] = t[k]
    BY <1>1, <1>2, <1>3, <1>5
  <2>2. \A j \in 1..k - 1 : j <= Len(s) /\ s[j] = u[j]
    BY <1>1, <1>2, <1>3, <1>5
  <2> QED BY <2>1, <2>2 DEF Less
<1>6. CASE i = k
  <2>1. k > Len(s) \/ s[k] < u[k]
    <3>1. k \in 1..Len(t) /\ t[k] < u[k]
      BY <1>1, <1>2, <1>3, <1>6
    <3>2. k > Len(s) \/ (k \in 1..Len(s) /\ s[k] < t[k])
      BY <1>1, <1>3, <1>6
    <3> QED BY <3>1, <3>2, <1>3
  <2>2. \A j \in 1..k - 1 : j <= Len(s) /\ s[j] = u[j]
    BY <1>1, <1>2, <1>3, <1>6
  <2> QED BY <2>1, <2>2 DEF Less
<1>7. i \in Int /\ k \in Int
  OBVIOUS
<1> QED BY <1>4, <1>5, <1>6, <1>7

\* Where two texts first differ, or one of them ends, they are told apart.
LEMMA LessIsTotal ==
  ASSUME NEW s \in Text, NEW t \in Text, s # t
  PROVE  Less(s, t) \/ Less(t, s)
<1> DEFINE D == {i \in Nat \ {0} : i > Len(s) \/ i > Len(t) \/ s[i] # t[i]}
<1>1. /\ Len(s) \in Nat /\ Len(t) \in Nat
      /\ \A j \in 1..Len(s) : s[j] \in Nat
      /\ \A j \in 1..Len(t) : t[j] \in Nat
  BY TextIs
<1>2. Len(s) + 1 \in D
  BY <1>1
<1>3. D \in SUBSET Nat
  OBVIOUS
<1>4. PICK m \in D : \A k \in D : m <= k
  BY <1>2, <1>3, LeastNumber
<1>5. \A j \in 1..m - 1 : j <= Len(s) /\ j <= Len(t) /\ s[j] = t[j]
  <2> TAKE j \in 1..m - 1
  <2>1. j \in Nat \ {0} /\ ~(m <= j)
    BY <1>3
  <2>2. j \notin D
    BY <1>4, <2>1
  <2> QED BY <2>1, <2>2, <1>1
<1>6. CASE m > Len(s) /\ m > Len(t)
  <2>0. m \in Nat \ {0}
    OBVIOUS
  <2>1. Len(s) = Len(t)
    <3>1. Len(s) < Len(t) => Len(t) \in 1..m - 1
      BY <1>1, <1>6, <2>0
    <3>2. Len(t) < Len(s) => Len(s) \in 1..m - 1
      BY <1>1, <1>6, <2>0
    <3> QED BY <3>1, <3>2, <1>1, <1>5
  <2>2. \A j \in 1..Len(s) : s[j] = t[j]
    <3>1. \A j \in 1..Len(s) : j \in 1..m - 1
      BY <1>1, <1>6, <2>0
    <3> QED BY <3>1, <1>5
  <2> QED BY <2>1, <2>2, SeqEqual DEF Text
<1>7. CASE m > Len(s) /\ m <= Len(t)
  <2>1. m \in 1..Len(t)
    BY <1>1, <1>7
  <2> QED BY <2>1, <1>5, <1>7 DEF Less
<1>8. CASE m <= Len(s) /\ m > Len(t)
  <2>1. m \in 1..Len(s)
    BY <1>1, <1>8
  <2> QED BY <2>1, <1>5, <1>8 DEF Less
<1>9. CASE m <= Len(s) /\ m <= Len(t)
  <2>1. m \in 1..Len(s) /\ m \in 1..Len(t) /\ s[m] # t[m]
    BY <1>1, <1>9
  <2>2. s[m] < t[m] \/ t[m] < s[m]
    BY <1>1, <2>1
  <2> QED BY <2>1, <2>2, <1>5 DEF Less
<1>10. m \in Int
  OBVIOUS
<1> QED BY <1>1, <1>6, <1>7, <1>8, <1>9, <1>10

\* What begins with p is not before it.
LEMMA PrefixIsFirst ==
  ASSUME NEW p \in Text, NEW t \in Text, IsPrefix(p, t)
  PROVE  ~Less(t, p)
<1>1. Len(p) <= Len(t) /\ \A i \in 1..Len(p) : p[i] = t[i] /\ p[i] \in Nat
  BY PrefixIs, TextIs
<1>2. Len(p) \in Nat /\ Len(t) \in Nat
  BY TextIs
<1>3. ASSUME NEW i \in 1..Len(p), i > Len(t) \/ t[i] < p[i]
      PROVE  FALSE
  BY <1>1, <1>2, <1>3
<1> QED BY <1>3 DEF Less

\* What lies between p and something that begins with p begins with p.
LEMMA PrefixesAreTogether ==
  ASSUME NEW p \in Text, NEW s \in Text, NEW t \in Text,
         ~Less(s, p), ~Less(t, s), IsPrefix(p, t)
  PROVE  IsPrefix(p, s)
<1>0. /\ Len(s) \in Nat /\ Len(t) \in Nat /\ Len(p) \in Nat
      /\ \A j \in 1..Len(s) : s[j] \in Nat
      /\ \A j \in 1..Len(t) : t[j] \in Nat
      /\ \A j \in 1..Len(p) : p[j] \in Nat
  BY TextIs
<1>1. Len(p) <= Len(t) /\ \A i \in 1..Len(p) : p[i] = t[i]
  BY PrefixIs
<1> DEFINE D == {i \in 1..Len(p) : i > Len(s) \/ s[i] # p[i]}
<1> SUFFICES ASSUME D # {} PROVE FALSE
  <2>1. \A i \in 1..Len(p) : i <= Len(s) /\ p[i] = s[i]
    BY <1>0
  <2>2. Len(p) <= Len(s)
    BY <2>1, <1>0
  <2> QED BY <2>1, <2>2, PrefixIs
<1>2. D \in SUBSET Nat
  OBVIOUS
<1>3. PICK m \in D : \A k \in D : m <= k
  BY <1>2, LeastNumber
<1>4. m \in 1..Len(p) /\ m \in 1..Len(t) /\ p[m] = t[m] /\ p[m] \in Nat
  BY <1>0, <1>1
<1>5. \A j \in 1..m - 1 : j <= Len(s) /\ j <= Len(t) /\ s[j] = p[j] /\ s[j] = t[j]
  <2> TAKE j \in 1..m - 1
  <2>1. j \in 1..Len(p) /\ ~(m <= j)
    BY <1>0, <1>4
  <2>2. j \notin D
    BY <1>3, <2>1
  <2> QED BY <2>1, <2>2, <1>0, <1>1
<1>6. CASE m > Len(s)
  BY <1>4, <1>5, <1>6 DEF Less
<1>7. CASE m <= Len(s)
  <2>1. m \in 1..Len(s) /\ s[m] # p[m] /\ s[m] \in Nat
    BY <1>0, <1>4, <1>7
  <2>2. CASE s[m] < p[m]
    BY <1>4, <1>5, <2>2 DEF Less
  <2>3. CASE t[m] < s[m]
    BY <2>1, <1>5, <2>3 DEF Less
  <2> QED BY <1>4, <2>1, <2>2, <2>3
<1> QED BY <1>0, <1>4, <1>6, <1>7

\* A function on 1..n is a sequence.
LEMMA FunctionIsSequence ==
  ASSUME NEW S, NEW n \in Nat, NEW s, s = [i \in 1..n |-> s[i]], \A i \in 1..n : s[i] \in S
  PROVE  s \in Seq(S) /\ Len(s) = n /\ DOMAIN s = 1..n
<1>1. s \in [1..n -> S] /\ DOMAIN s = 1..n
  OBVIOUS
<1>2. s \in Seq(S)
  BY <1>1, SeqDef
<1> QED BY <1>1, <1>2, LenProperties

\* A sequence whose i-th element has i - 1 before it has every element once, in order.
LEMMA RankedSequence ==
  ASSUME NEW S, IsFiniteSet(S), NEW R,
         \A x \in S : <<x, x>> \notin R,
         \A x, y, z \in S : <<x, y>> \in R /\ <<y, z>> \in R => <<x, z>> \in R,
         \A x, y \in S : x # y => <<x, y>> \in R \/ <<y, x>> \in R,
         NEW s, s = [i \in 1..Cardinality(S) |-> s[i]],
         \A i \in 1..Cardinality(S) :
            (\E e \in S : Cardinality({o \in S : <<o, e>> \in R}) = i - 1) =>
                s[i] \in S /\ Cardinality({o \in S : <<o, s[i]>> \in R}) = i - 1
  PROVE  /\ Cardinality(S) \in Nat
         /\ s \in Seq(S) /\ Len(s) = Cardinality(S) /\ DOMAIN s = 1..Cardinality(S)
         /\ \A e \in S : \E i \in 1..Cardinality(S) : s[i] = e
         /\ \A i, j \in 1..Cardinality(S) : i < j <=> <<s[i], s[j]>> \in R
<1> DEFINE Rank(e) == Cardinality({o \in S : <<o, e>> \in R})
           n == Cardinality(S)
<1>1. /\ n \in Nat
      /\ \A e \in S : Rank(e) \in 0..n - 1
      /\ \A x, y \in S : <<x, y>> \in R <=> Rank(x) < Rank(y)
      /\ \A i \in 1..n : \E e \in S : Rank(e) = i - 1
  BY Ranking
<1>2. \A i \in 1..n : (\E e \in S : Rank(e) = i - 1) => s[i] \in S /\ Rank(s[i]) = i - 1
  OBVIOUS
<1>3. s = [i \in 1..n |-> s[i]]
  OBVIOUS
<1> HIDE DEF Rank, n
<1>4. \A i \in 1..n : s[i] \in S /\ Rank(s[i]) = i - 1
  BY <1>1, <1>2
<1>5. s \in Seq(S) /\ Len(s) = n /\ DOMAIN s = 1..n
  BY <1>1, <1>3, <1>4, FunctionIsSequence
<1>6. \A i, j \in 1..n : i < j <=> <<s[i], s[j]>> \in R
  <2> TAKE i, j \in 1..n
  <2>1. s[i] \in S /\ s[j] \in S /\ Rank(s[i]) = i - 1 /\ Rank(s[j]) = j - 1
    BY <1>4
  <2>2. <<s[i], s[j]>> \in R <=> i - 1 < j - 1
    BY <1>1, <2>1
  <2> QED BY <2>2
<1>7. ASSUME NEW e \in S PROVE \E i \in 1..n : s[i] = e
  <2> DEFINE i == Rank(e) + 1
  <2>1. Rank(e) \in 0..n - 1
    BY <1>1
  <2>2. i \in 1..n /\ i - 1 = Rank(e)
    BY <2>1, <1>1
  <2>3. s[i] \in S /\ Rank(s[i]) = Rank(e)
    BY <2>2, <1>4
  <2>4. <<s[i], e>> \notin R /\ <<e, s[i]>> \notin R
    BY <2>1, <2>3, <1>1
  <2>5. s[i] = e
    BY <2>3, <2>4
  <2> QED BY <2>2, <2>5
<1> QED BY <1>1, <1>5, <1>6, <1>7 DEF n

\* The sorted tokens.
LEMMA SortedTexts ==
  ASSUME NEW S \in SUBSET Text, IsFiniteSet(S)
  PROVE  LET s == Sorted(S, Less)
         IN  /\ Cardinality(S) \in Nat
             /\ s \in Seq(S) /\ Len(s) = Cardinality(S) /\ DOMAIN s = 1..Cardinality(S)
             /\ \A e \in S : \E i \in 1..Cardinality(S) : s[i] = e
             /\ \A i, j \in 1..Cardinality(S) : i < j <=> Less(s[i], s[j])
<1> DEFINE R == {p \in S \X S : Less(p[1], p[2])}
           s == Sorted(S, Less)
           n == Cardinality(S)
<1>1. \A x, y \in S : <<x, y>> \in R <=> Less(x, y)
  OBVIOUS
<1>2. \A x \in S : {o \in S : <<o, x>> \in R} = {o \in S : Less(o, x)}
  BY <1>1
<1> HIDE DEF R
<1>3. /\ \A x \in S : <<x, x>> \notin R
      /\ \A x, y, z \in S : <<x, y>> \in R /\ <<y, z>> \in R => <<x, z>> \in R
      /\ \A x, y \in S : x # y => <<x, y>> \in R \/ <<y, x>> \in R
  <2>1. \A x \in S : ~Less(x, x)
    BY LessIsStrict
  <2>2. \A x, y, z \in S : Less(x, y) /\ Less(y, z) => Less(x, z)
    BY LessIsTransitive
  <2>3. \A x, y \in S : x # y => Less(x, y) \/ Less(y, x)
    BY LessIsTotal
  <2> QED BY <2>1, <2>2, <2>3, <1>1
<1>4. s = [i \in 1..n |-> s[i]]
  <2> DEFINE e(i) == CHOOSE x \in S : Cardinality({o \in S : Less(o, x)}) = i - 1
  <2>1. s = [i \in 1..n |-> e(i)]
    BY DEF Sorted
  <2> HIDE DEF s, e, n
  <2> QED BY <2>1
<1>5. ASSUME NEW i \in 1..n, \E e \in S : Cardinality({o \in S : <<o, e>> \in R}) = i - 1
      PROVE  s[i] \in S /\ Cardinality({o \in S : <<o, s[i]>> \in R}) = i - 1
  <2>1. PICK e \in S : Cardinality({o \in S : <<o, e>> \in R}) = i - 1
    BY <1>5
  <2>2. Cardinality({o \in S : Less(o, e)}) = i - 1
    BY <2>1, <1>2
  <2>3. s[i] = CHOOSE x \in S : Cardinality({o \in S : Less(o, x)}) = i - 1
    BY DEF Sorted
  <2>4. s[i] \in S /\ Cardinality({o \in S : Less(o, s[i])}) = i - 1
    BY <2>2, <2>3
  <2> QED BY <2>4, <1>2
<1> HIDE DEF s
<1>6. /\ n \in Nat
      /\ s \in Seq(S) /\ Len(s) = n /\ DOMAIN s = 1..n
      /\ \A e \in S : \E i \in 1..n : s[i] = e
      /\ \A i, j \in 1..n : i < j <=> <<s[i], s[j]>> \in R
  BY <1>3, <1>4, <1>5, RankedSequence
<1>7. \A i \in 1..n : s[i] \in S
  BY <1>6
<1> QED BY <1>1, <1>6, <1>7 DEF s

-----------------------------------------------------------------------------
\* Hits.

Hits == [id : Nat, score : Nat, length : Nat, path : Text]

\* Hits that rank the same differ in their ids alone.
LEMMA RankIsTotal ==
  ASSUME NEW x \in Hits, NEW y \in Hits
  PROVE  \/ RankedHitLess(x, y)
         \/ RankedHitLess(y, x)
         \/ x.score = y.score /\ x.length = y.length /\ x.path = y.path
<1>1. x.path \in Text /\ y.path \in Text /\ x.score \in Nat /\ y.score \in Nat /\ x.length \in Nat /\ y.length \in Nat
  BY DEF Hits
<1>2. x.path = y.path \/ Less(x.path, y.path) \/ Less(y.path, x.path)
  BY <1>1, LessIsTotal
<1> QED BY <1>1, <1>2 DEF RankedHitLess

LEMMA RankIsStrict ==
  ASSUME NEW x \in Hits, NEW y \in Hits,
         x.score = y.score /\ x.length = y.length /\ x.path = y.path
  PROVE  ~RankedHitLess(x, y)
<1>1. x.path \in Text /\ x.score \in Nat /\ x.length \in Nat
  BY DEF Hits
<1>2. ~Less(x.path, x.path)
  BY <1>1, LessIsStrict
<1> QED BY <1>1, <1>2 DEF RankedHitLess

LEMMA RankIsTransitive ==
  ASSUME NEW x \in Hits, NEW y \in Hits, NEW z \in Hits, RankedHitLess(x, y), RankedHitLess(y, z)
  PROVE  RankedHitLess(x, z)
<1>1. /\ x.path \in Text /\ y.path \in Text /\ z.path \in Text
      /\ x.score \in Nat /\ y.score \in Nat /\ z.score \in Nat
      /\ x.length \in Nat /\ y.length \in Nat /\ z.length \in Nat
  BY DEF Hits
<1>2. Less(x.path, y.path) /\ Less(y.path, z.path) => Less(x.path, z.path)
  BY <1>1, LessIsTransitive
<1> QED BY <1>1, <1>2 DEF RankedHitLess

\* The order of the answer: a strict and total one, of hits with ids of their own.
LEMMA InOrderIsStrict ==
  ASSUME NEW x \in Hits
  PROVE  ~InOrder(x, x)
<1>1. ~RankedHitLess(x, x)
  BY RankIsStrict
<1>2. x.id \in Nat
  BY DEF Hits
<1> QED BY <1>1, <1>2 DEF InOrder

LEMMA InOrderIsTotal ==
  ASSUME NEW x \in Hits, NEW y \in Hits, x.id # y.id
  PROVE  InOrder(x, y) \/ InOrder(y, x)
<1>1. x.id \in Nat /\ y.id \in Nat
  BY DEF Hits
<1>2. x.id < y.id \/ y.id < x.id
  BY <1>1
<1> QED BY <1>2, RankIsTotal DEF InOrder

LEMMA InOrderIsTransitive ==
  ASSUME NEW x \in Hits, NEW y \in Hits, NEW z \in Hits, InOrder(x, y), InOrder(y, z)
  PROVE  InOrder(x, z)
<1> DEFINE Same(a, b) == a.score = b.score /\ a.length = b.length /\ a.path = b.path
<1>1. x.id \in Nat /\ y.id \in Nat /\ z.id \in Nat
  BY DEF Hits
<1>2. \A a, b, c \in {x, y, z} : Same(a, b) /\ RankedHitLess(b, c) => RankedHitLess(a, c)
  BY DEF RankedHitLess
<1>3. \A a, b, c \in {x, y, z} : RankedHitLess(a, b) /\ Same(b, c) => RankedHitLess(a, c)
  BY DEF RankedHitLess
<1>4. \A a, b, c \in {x, y, z} : Same(a, b) /\ Same(b, c) => Same(a, c)
  OBVIOUS
<1>5. \A a, b \in {x, y, z} : Same(a, b) => ~RankedHitLess(b, a)
  BY RankIsStrict
<1>6. \A a, b \in {x, y, z} : RankedHitLess(a, b) \/ RankedHitLess(b, a) \/ Same(a, b)
  BY RankIsTotal
<1>7. RankedHitLess(x, y) /\ RankedHitLess(y, z) => RankedHitLess(x, z)
  BY RankIsTransitive
<1> HIDE DEF Same
<1>8. RankedHitLess(x, y) \/ (Same(x, y) /\ x.id < y.id)
  BY <1>6 DEF InOrder
<1>9. RankedHitLess(y, z) \/ (Same(y, z) /\ y.id < z.id)
  BY <1>6 DEF InOrder
<1>10. RankedHitLess(x, z) \/ (Same(x, z) /\ x.id < z.id)
  <2>1. x.id < y.id /\ y.id < z.id => x.id < z.id
    BY <1>1
  <2> QED BY <1>2, <1>3, <1>4, <1>7, <1>8, <1>9, <2>1
<1> QED BY <1>5, <1>10 DEF InOrder

\* The sorted hits.
LEMMA SortedHits ==
  ASSUME NEW S \in SUBSET Hits, IsFiniteSet(S), \A x, y \in S : x.id = y.id => x = y
  PROVE  LET s == Sorted(S, InOrder)
         IN  /\ Cardinality(S) \in Nat
             /\ s \in Seq(S) /\ Len(s) = Cardinality(S) /\ DOMAIN s = 1..Cardinality(S)
             /\ \A e \in S : \E i \in 1..Cardinality(S) : s[i] = e
             /\ \A i, j \in 1..Cardinality(S) : i < j <=> InOrder(s[i], s[j])
<1> DEFINE R == {p \in S \X S : InOrder(p[1], p[2])}
           s == Sorted(S, InOrder)
           n == Cardinality(S)
<1>1. \A x, y \in S : <<x, y>> \in R <=> InOrder(x, y)
  OBVIOUS
<1>2. \A x \in S : {o \in S : <<o, x>> \in R} = {o \in S : InOrder(o, x)}
  BY <1>1
<1> HIDE DEF R
<1>3. /\ \A x \in S : <<x, x>> \notin R
      /\ \A x, y, z \in S : <<x, y>> \in R /\ <<y, z>> \in R => <<x, z>> \in R
      /\ \A x, y \in S : x # y => <<x, y>> \in R \/ <<y, x>> \in R
  <2>1. \A x \in S : ~InOrder(x, x)
    BY InOrderIsStrict
  <2>2. \A x, y, z \in S : InOrder(x, y) /\ InOrder(y, z) => InOrder(x, z)
    BY InOrderIsTransitive
  <2>3. \A x, y \in S : x # y => InOrder(x, y) \/ InOrder(y, x)
    BY InOrderIsTotal
  <2> QED BY <2>1, <2>2, <2>3, <1>1
<1>4. s = [i \in 1..n |-> s[i]]
  <2> DEFINE e(i) == CHOOSE x \in S : Cardinality({o \in S : InOrder(o, x)}) = i - 1
  <2>1. s = [i \in 1..n |-> e(i)]
    BY DEF Sorted
  <2> HIDE DEF s, e, n
  <2> QED BY <2>1
<1>5. ASSUME NEW i \in 1..n, \E e \in S : Cardinality({o \in S : <<o, e>> \in R}) = i - 1
      PROVE  s[i] \in S /\ Cardinality({o \in S : <<o, s[i]>> \in R}) = i - 1
  <2>1. PICK e \in S : Cardinality({o \in S : <<o, e>> \in R}) = i - 1
    BY <1>5
  <2>2. Cardinality({o \in S : InOrder(o, e)}) = i - 1
    BY <2>1, <1>2
  <2>3. s[i] = CHOOSE x \in S : Cardinality({o \in S : InOrder(o, x)}) = i - 1
    BY DEF Sorted
  <2>4. s[i] \in S /\ Cardinality({o \in S : InOrder(o, s[i])}) = i - 1
    BY <2>2, <2>3
  <2> QED BY <2>4, <1>2
<1> HIDE DEF s
<1>6. /\ n \in Nat
      /\ s \in Seq(S) /\ Len(s) = n /\ DOMAIN s = 1..n
      /\ \A e \in S : \E i \in 1..n : s[i] = e
      /\ \A i, j \in 1..n : i < j <=> <<s[i], s[j]>> \in R
  BY <1>3, <1>4, <1>5, RankedSequence
<1>7. \A i \in 1..n : s[i] \in S
  BY <1>6
<1> QED BY <1>1, <1>6, <1>7 DEF s

\* The least of two numbers.
LEMMA MinOfTwo ==
  ASSUME NEW a \in Nat, NEW b \in Nat
  PROVE  Min({a, b}) = IF a < b THEN a ELSE b
<1> DEFINE m == IF a < b THEN a ELSE b
<1>1. m \in {a, b} /\ \A y \in {a, b} : m <= y
  OBVIOUS
<1>2. \A x \in {a, b} : (\A y \in {a, b} : x <= y) => x = m
  OBVIOUS
<1> HIDE DEF m
<1>3. Min({a, b}) \in {a, b} /\ \A y \in {a, b} : Min({a, b}) <= y
  BY <1>1 DEF Min
<1> QED BY <1>2, <1>3 DEF m

\* A sequence without repetition has as many elements as places.
LEMMA DistinctElements ==
  ASSUME NEW T, NEW h \in Seq(T), \A i, j \in 1..Len(h) : h[i] = h[j] => i = j
  PROVE  IsFiniteSet(ToSet(h)) /\ Cardinality(ToSet(h)) = Len(h)
<1>1. Len(h) \in Nat /\ DOMAIN h = 1..Len(h) /\ h \in [1..Len(h) -> ToSet(h)]
  BY LenProperties DEF ToSet
<1>2. h \in Bijection(1..Len(h), ToSet(h))
  BY <1>1 DEF Bijection, Injection, Surjection, IsInjective, ToSet
<1>3. ExistsBijection(1..Len(h), ToSet(h))
  BY <1>2 DEF ExistsBijection
<1> QED BY <1>1, <1>3, FS_CountingElements, FS_NatBijection

\* The first elements of a sequence.
LEMMA FirstElements ==
  ASSUME NEW S, NEW s \in Seq(S), NEW k \in Nat, k <= Len(s)
  PROVE  SubSeq(s, 1, k) \in Seq(S) /\ Len(SubSeq(s, 1, k)) = k /\ \A i \in 1..k : SubSeq(s, 1, k)[i] = s[i]
<1>1. Len(s) \in Nat
  BY LenProperties
<1>2. \A i \in 1..k : s[i] \in S
  BY <1>1, ElementOfSeq
<1> QED BY <1>1, <1>2

\* partial_sort: the hits that are kept are the first in order, and none that is left out
\* is before one of them.
LEMMA TopHitsAreInOrder ==
  ASSUME NEW S \in SUBSET Hits, IsFiniteSet(S), \A x, y \in S : x.id = y.id => x = y,
         NEW limit \in Nat
  PROVE  LET hits == TopHits(S, limit)
         IN  /\ Cardinality(S) \in Nat
             /\ hits \in Seq(S) /\ Len(hits) = Min({limit, Cardinality(S)})
             /\ \A i, j \in 1..Len(hits) : i < j => InOrder(hits[i], hits[j])
             /\ \A i, j \in 1..Len(hits) : hits[i] = hits[j] => i = j
             /\ \A i \in 1..Len(hits), other \in S : other \notin ToSet(hits) => InOrder(hits[i], other)
<1> DEFINE s == Sorted(S, InOrder)
           n == Cardinality(S)
           k == IF Len(s) < limit THEN Len(s) ELSE limit
           hits == SubSeq(s, 1, k)
<1>1. /\ n \in Nat
      /\ s \in Seq(S) /\ Len(s) = n /\ DOMAIN s = 1..n
      /\ \A e \in S : \E i \in 1..n : s[i] = e
      /\ \A i, j \in 1..n : i < j <=> InOrder(s[i], s[j])
  BY SortedHits
<1>2. TopHits(S, limit) = hits
  BY DEF TopHits
<1>3. k \in Nat /\ k = Min({limit, n}) /\ k <= n
  BY <1>1, MinOfTwo
<1> HIDE DEF s, n, k
<1>4. \A i \in 1..n : s[i] \in S
  BY <1>1
<1>5. hits \in Seq(S) /\ Len(hits) = k /\ \A i \in 1..k : hits[i] = s[i]
  <2>1. s \in Seq(S) /\ k \in Nat /\ k <= Len(s)
    BY <1>1, <1>3
  <2> QED BY ONLY <2>1, FirstElements
<1> HIDE DEF hits
<1>6. \A i, j \in 1..k : i < j => InOrder(hits[i], hits[j])
  <2>1. \A i \in 1..k : i \in 1..n
    BY <1>1, <1>3
  <2> QED BY <1>1, <1>5, <2>1
<1>7. \A i, j \in 1..k : hits[i] = hits[j] => i = j
  <2> SUFFICES ASSUME NEW i \in 1..k, NEW j \in 1..k, hits[i] = hits[j], i # j
               PROVE  FALSE
    OBVIOUS
  <2>1. InOrder(hits[i], hits[j]) \/ InOrder(hits[j], hits[i])
    BY <1>3, <1>6
  <2>2. hits[i] \in S
    BY <1>5
  <2> QED BY <2>1, <2>2, InOrderIsStrict
<1>8. ASSUME NEW i \in 1..k, NEW other \in S, other \notin ToSet(hits)
      PROVE  InOrder(hits[i], other)
  <2>1. PICK j \in 1..n : s[j] = other
    BY <1>1
  <2>2. j \notin 1..k
    <3>1. DOMAIN hits = 1..k
      BY <1>5, LenProperties
    <3> QED BY <1>5, <1>8, <2>1, <3>1 DEF ToSet
  <2>3. i < j /\ i \in 1..n
    BY <1>1, <1>3, <2>2
  <2> QED BY <1>1, <1>5, <2>1, <2>3
<1> QED BY <1>1, <1>2, <1>3, <1>5, <1>6, <1>7, <1>8 DEF n

\* So they are a top of the ranking.
LEMMA TopHitsAreTop ==
  ASSUME NEW S \in SUBSET Hits, IsFiniteSet(S), \A x, y \in S : x.id = y.id => x = y,
         NEW limit \in Nat
  PROVE  IsTopOf(TopHits(S, limit), S, limit)
<1> DEFINE hits == TopHits(S, limit)
<1>1. /\ Cardinality(S) \in Nat
      /\ hits \in Seq(S) /\ Len(hits) = Min({limit, Cardinality(S)})
      /\ \A i, j \in 1..Len(hits) : i < j => InOrder(hits[i], hits[j])
      /\ \A i, j \in 1..Len(hits) : hits[i] = hits[j] => i = j
      /\ \A i \in 1..Len(hits), other \in S : other \notin ToSet(hits) => InOrder(hits[i], other)
  BY TopHitsAreInOrder
<1> HIDE DEF hits
<1>2. \A x, y \in S : InOrder(x, y) => ~RankedHitLess(y, x)
  <2> TAKE x, y \in S
  <2> HAVE InOrder(x, y)
  <2>1. RankedHitLess(x, y) /\ RankedHitLess(y, x) => RankedHitLess(x, x)
    BY RankIsTransitive
  <2>2. ~RankedHitLess(x, x)
    BY RankIsStrict
  <2> QED BY <2>1, <2>2 DEF InOrder
<1>3. DOMAIN hits = 1..Len(hits) /\ \A i \in 1..Len(hits) : hits[i] \in S
  BY <1>1, LenProperties
<1>4. Cardinality(ToSet(hits)) = Len(hits)
  BY <1>1, DistinctElements
<1>5. ToSet(hits) \subseteq S
  BY <1>3 DEF ToSet
<1>6. \A i, j \in 1..Len(hits) : i < j => ~RankedHitLess(hits[j], hits[i])
  BY <1>1, <1>2, <1>3
<1>7. \A hit \in ToSet(hits), other \in S \ ToSet(hits) : ~RankedHitLess(other, hit)
  <2> TAKE hit \in ToSet(hits), other \in S \ ToSet(hits)
  <2>1. PICK i \in 1..Len(hits) : hits[i] = hit
    BY <1>3 DEF ToSet
  <2> QED BY <1>1, <1>2, <1>3, <2>1
<1> QED BY <1>1, <1>4, <1>5, <1>6, <1>7 DEF IsTopOf, hits

-----------------------------------------------------------------------------
\* Tokens.

\* A function that is computed step by step, from t on.
IsComputed(f, n, T, t, step) ==
  /\ f \in [0..n -> T]
  /\ f[0] = t
  /\ \A i \in 1..n : f[i] = step[<<i, f[i - 1]>>]

\* There is such a function, and it has the type of the steps.
LEMMA StepByStep ==
  ASSUME NEW n \in Nat, NEW T, NEW t \in T, NEW step \in [(1..n) \X T -> T]
  PROVE  \E f : IsComputed(f, n, T, t, step)
<1> DEFINE Has(m) == \E f \in [0..m -> T] : f[0] = t /\ \A i \in 1..m : f[i] = step[<<i, f[i - 1]>>]
           Lacks == {m \in 0..n : ~Has(m)}
<1>1. CASE Lacks = {}
  <2>1. n \in 0..n
    OBVIOUS
  <2>2. Has(n)
    BY <1>1, <2>1
  <2> QED BY <2>2 DEF IsComputed
<1>2. CASE Lacks # {}
  <2>1. Lacks \in SUBSET Nat
    OBVIOUS
  <2>2. PICK m \in Lacks : \A k \in Lacks : m <= k
    BY <1>2, <2>1, LeastNumber
  <2>3. m \in 0..n /\ ~Has(m)
    OBVIOUS
  <2>4. m # 0
    <3>1. [i \in 0..0 |-> t] \in [0..0 -> T] /\ [i \in 0..0 |-> t][0] = t /\ 1..0 = {}
      OBVIOUS
    <3>2. Has(0)
      BY <3>1
    <3> QED BY <2>3, <3>2
  <2>5. m - 1 \in 0..n /\ m - 1 \notin Lacks
    BY <2>2, <2>3, <2>4
  <2>6. PICK f \in [0..m - 1 -> T] : f[0] = t /\ \A i \in 1..m - 1 : f[i] = step[<<i, f[i - 1]>>]
    BY <2>5
  <2> DEFINE g == [i \in 0..m |-> IF i = m THEN step[<<m, f[m - 1]>>] ELSE f[i]]
  <2>7. m \in 1..n /\ m - 1 \in 0..m - 1 /\ \A i \in 0..m : i # m => i \in 0..m - 1
    BY <2>3, <2>4
  <2>8. step[<<m, f[m - 1]>>] \in T
    BY <2>7
  <2>9. g \in [0..m -> T]
    BY <2>7, <2>8
  <2>10. g[0] = t
    BY <2>3, <2>4, <2>6
  <2>11. ASSUME NEW i \in 1..m PROVE g[i] = step[<<i, g[i - 1]>>]
    <3>1. i - 1 \in 0..m /\ i - 1 # m /\ g[i - 1] = f[i - 1]
      BY <2>3
    <3>2. CASE i = m
      BY <2>3, <3>1, <3>2
    <3>3. CASE i # m
      <4>1. i \in 1..m - 1 /\ i \in 0..m
        BY <2>3, <3>3
      <4> QED BY <2>6, <3>1, <3>3, <4>1
    <3> QED BY <3>2, <3>3
  <2> HIDE DEF g
  <2>12. Has(m)
    BY <2>9, <2>10, <2>11
  <2> QED BY <2>3, <2>12
<1> QED BY <1>1, <1>2

ReadingStates == [tokens : Seq(Text), current : Text]

\* What tokenize keeps are texts, after each byte.
LEMMA FlushIs ==
  ASSUME NEW s \in ReadingStates
  PROVE  Flush(s) \in ReadingStates
<1>1. << >> \in Text
  BY DEF Text
<1> QED BY <1>1 DEF ReadingStates, Flush

\* A byte in lower case is a byte, and is no more or less a separator.
LEMMA LowerIs ==
  ASSUME NEW b \in 0..255
  PROVE  /\ AsciiLower(b) \in 0..255
         /\ AsciiLower(AsciiLower(b)) = AsciiLower(b)
         /\ IsSeparator(AsciiLower(b)) <=> IsSeparator(b)
BY DEF AsciiLower, IsSeparator, Space

LEMMA TakeByteIs ==
  ASSUME NEW s \in ReadingStates, NEW b \in 0..255
  PROVE  TakeByte(s, b) \in ReadingStates
<1>1. Append(s.current, AsciiLower(b)) \in Text
  <2>1. s.current \in Seq(0..255)
    BY DEF Text, ReadingStates
  <2>2. AsciiLower(b) \in 0..255
    BY LowerIs
  <2> QED BY <2>1, <2>2, AppendProperties DEF Text
<1>2. [s EXCEPT !.current = Append(@, AsciiLower(b))] \in ReadingStates
  BY <1>1 DEF ReadingStates
<1> QED BY <1>2, FlushIs DEF TakeByte

\* What is kept is computed byte by byte.
LEMMA ReadingIs ==
  ASSUME NEW text \in Text
  PROVE  /\ Reading(text) \in [0..Len(text) -> ReadingStates]
         /\ Reading(text)[0] = [tokens |-> << >>, current |-> << >>]
         /\ \A i \in 1..Len(text) : Reading(text)[i] = TakeByte(Reading(text)[i - 1], text[i])
<1> DEFINE n == Len(text)
           start == [tokens |-> << >>, current |-> << >>]
           step == [p \in (1..n) \X ReadingStates |-> TakeByte(p[2], text[p[1]])]
           r == Reading(text)
<1>1. n \in Nat /\ \A i \in 1..n : text[i] \in 0..255
  BY TextIs
<1>2. start \in ReadingStates
  BY DEF ReadingStates, Text
<1>3. step \in [(1..n) \X ReadingStates -> ReadingStates]
  BY <1>1, TakeByteIs
<1> HIDE DEF start, step, n
<1>4. PICK f : IsComputed(f, n, ReadingStates, start, step)
  BY <1>1, <1>2, <1>3, StepByStep
<1>5. f \in [0..n -> ReadingStates] /\ f[0] = start /\ \A i \in 1..n : f[i] = step[<<i, f[i - 1]>>]
  BY <1>4 DEF IsComputed
<1>6. \A i \in 1..n : i - 1 \in 0..n /\ f[i] = TakeByte(f[i - 1], text[i])
  <2> TAKE i \in 1..n
  <2>1. i - 1 \in 0..n
    BY <1>1
  <2>2. <<i, f[i - 1]>> \in (1..n) \X ReadingStates
    BY <1>5, <2>1
  <2>3. step[<<i, f[i - 1]>>] = TakeByte(f[i - 1], text[i])
    BY <2>2 DEF step
  <2> QED BY <1>5, <2>1, <2>3
<1>7. f = [i \in 0..n |-> IF i = 0 THEN start ELSE TakeByte(f[i - 1], text[i])]
  BY <1>1, <1>5, <1>6
<1>8. r = CHOOSE g : g = [i \in 0..n |-> IF i = 0 THEN start ELSE TakeByte(g[i - 1], text[i])]
  BY DEF Reading, start, n
<1> HIDE DEF r
<1>9. r = [i \in 0..n |-> IF i = 0 THEN start ELSE TakeByte(r[i - 1], text[i])]
  BY <1>7, <1>8
<1>10. r[0] = start /\ \A i \in 1..n : r[i] = TakeByte(r[i - 1], text[i])
  <2>1. 0 \in 0..n /\ \A i \in 1..n : i \in 0..n /\ i # 0
    BY <1>1
  <2> QED BY <1>9, <2>1
<1> DEFINE Differ == {i \in 0..n : r[i] # f[i]}
<1>11. Differ = {}
  <2> SUFFICES ASSUME Differ # {} PROVE FALSE
    OBVIOUS
  <2>1. Differ \in SUBSET Nat
    OBVIOUS
  <2>2. PICK m \in Differ : \A k \in Differ : m <= k
    BY <2>1, LeastNumber
  <2>3. m \in 1..n
    BY <1>1, <1>5, <1>10
  <2>4. m - 1 \in 0..n /\ m - 1 \notin Differ
    BY <1>1, <2>2, <2>3
  <2>5. r[m - 1] = f[m - 1]
    BY <2>4
  <2> QED BY <1>6, <1>10, <2>3, <2>5
<1>12. r = f
  BY <1>5, <1>9, <1>11
<1> QED BY <1>5, <1>10, <1>12 DEF r, n, start

LEMMA TokensAreTexts ==
  ASSUME NEW text \in Text
  PROVE  Tokenize(text) \in Seq(Text)
<1>1. Len(text) \in 0..Len(text)
  BY TextIs
<1>2. Reading(text)[Len(text)] \in ReadingStates
  BY <1>1, ReadingIs
<1> QED BY <1>2, FlushIs DEF Tokenize, ReadingStates

\* There is no token in nothing.
LEMMA NothingHasNoTokens == << >> \in Text /\ Tokenize(<< >>) = << >>
<1>1. << >> \in Text /\ Len(<< >>) = 0
  BY DEF Text
<1>2. Reading(<< >>)[0] = [tokens |-> << >>, current |-> << >>]
  BY <1>1, ReadingIs
<1> QED BY <1>1, <1>2 DEF Tokenize, Flush

\* Tokens do not depend on case.
LEMMA TokensIgnoreCase ==
  ASSUME NEW s \in Text, NEW t \in Text, NormalizeIndexText(s) = NormalizeIndexText(t)
  PROVE  Tokenize(s) = Tokenize(t)
<1> DEFINE n == Len(s)
           Differ == {i \in 0..n : Reading(s)[i] # Reading(t)[i]}
<1>1. /\ Len(s) \in Nat /\ DOMAIN s = 1..Len(s) /\ \A i \in 1..Len(s) : s[i] \in 0..255
      /\ Len(t) \in Nat /\ DOMAIN t = 1..Len(t) /\ \A i \in 1..Len(t) : t[i] \in 0..255
  BY TextIs
<1>2. Len(t) = n /\ \A i \in 1..n : AsciiLower(s[i]) = AsciiLower(t[i])
  <2>1. DOMAIN NormalizeIndexText(s) = DOMAIN s /\ DOMAIN NormalizeIndexText(t) = DOMAIN t
    BY DEF NormalizeIndexText
  <2>2. 1..Len(s) = 1..Len(t)
    BY <1>1, <2>1
  <2>3. Len(s) = Len(t)
    <3>1. ASSUME Len(s) < Len(t) PROVE FALSE
      <4>1. Len(t) \in 1..Len(t) /\ Len(t) \notin 1..Len(s)
        BY <1>1, <3>1
      <4> QED BY <2>2, <4>1
    <3>2. ASSUME Len(t) < Len(s) PROVE FALSE
      <4>1. Len(s) \in 1..Len(s) /\ Len(s) \notin 1..Len(t)
        BY <1>1, <3>2
      <4> QED BY <2>2, <4>1
    <3>3. Len(s) \in Nat /\ Len(t) \in Nat
      BY <1>1
    <3>4. ~(Len(s) < Len(t)) /\ ~(Len(t) < Len(s))
      BY <3>1, <3>2
    <3> QED BY <3>3, <3>4
  <2>4. \A i \in 1..n : NormalizeIndexText(s)[i] = AsciiLower(s[i]) /\ NormalizeIndexText(t)[i] = AsciiLower(t[i])
    BY <1>1, <2>3 DEF NormalizeIndexText
  <2> QED BY <2>3, <2>4
<1>3. \A i \in 1..n, state \in ReadingStates : TakeByte(state, s[i]) = TakeByte(state, t[i])
  <2> TAKE i \in 1..n, state \in ReadingStates
  <2>1. AsciiLower(s[i]) = AsciiLower(t[i]) /\ (IsSeparator(s[i]) <=> IsSeparator(t[i]))
    BY <1>1, <1>2, LowerIs
  <2> QED BY <2>1 DEF TakeByte
<1>4. /\ Reading(s) \in [0..n -> ReadingStates]
      /\ Reading(s)[0] = Reading(t)[0]
      /\ \A i \in 1..n : /\ Reading(s)[i] = TakeByte(Reading(s)[i - 1], s[i])
                         /\ Reading(t)[i] = TakeByte(Reading(t)[i - 1], t[i])
  BY <1>2, ReadingIs
<1>5. Differ = {}
  <2> SUFFICES ASSUME Differ # {} PROVE FALSE
    OBVIOUS
  <2>1. Differ \in SUBSET Nat
    OBVIOUS
  <2>2. PICK m \in Differ : \A k \in Differ : m <= k
    BY <2>1, LeastNumber
  <2>3. m \in 1..n
    BY <1>1, <1>4
  <2>4. m - 1 \in 0..n /\ m - 1 \notin Differ
    BY <1>1, <2>2, <2>3
  <2>5. Reading(s)[m - 1] = Reading(t)[m - 1] /\ Reading(s)[m - 1] \in ReadingStates
    BY <1>4, <2>4
  <2> QED BY <1>3, <1>4, <2>3, <2>5
<1>6. Reading(s)[n] = Reading(t)[n]
  BY <1>1, <1>5
<1> QED BY <1>2, <1>6 DEF Tokenize

-----------------------------------------------------------------------------
\* Records and what the index makes of them.

\* The records of a scan are texts.
LEMMA JoinedIs ==
  ASSUME NEW path \in Seq(Nodes)
  PROVE  RelativePath(path) \in Text
<1> DEFINE n == Len(path)
           Join(text, name) == IF text = << >> THEN name ELSE text \o <<47>> \o name
           step == [p \in (1..n) \X Text |-> Join(p[2], Name[path[p[1]]])]
           r == Joined(path)
<1>1. n \in Nat /\ \A i \in 1..n : Name[path[i]] \in Text
  <2>1. n \in Nat /\ \A i \in 1..n : path[i] \in Nodes
    BY LenProperties
  <2> QED BY <2>1, TextAssumption
<1>2. << >> \in Text
  BY DEF Text
<1>3. \A text, name \in Text : Join(text, name) \in Text
  <2> TAKE text, name \in Text
  <2>1. <<47>> \in Seq(0..255)
    OBVIOUS
  <2>2. text \o <<47>> \in Seq(0..255)
    BY <2>1, ConcatProperties DEF Text
  <2>3. text \o <<47>> \o name \in Seq(0..255)
    BY <2>2, ConcatProperties DEF Text
  <2> QED BY <2>3 DEF Text
<1> HIDE DEF Join
<1>4. step \in [(1..n) \X Text -> Text]
  BY <1>1, <1>3
<1> HIDE DEF step, n
<1>5. PICK f : IsComputed(f, n, Text, << >>, step)
  BY <1>1, <1>2, <1>4, StepByStep
<1>6. f \in [0..n -> Text] /\ f[0] = << >> /\ \A i \in 1..n : f[i] = step[<<i, f[i - 1]>>]
  BY <1>5 DEF IsComputed
<1>7. \A i \in 1..n : i - 1 \in 0..n /\ f[i] = Join(f[i - 1], Name[path[i]])
  <2> TAKE i \in 1..n
  <2>1. i - 1 \in 0..n
    BY <1>1
  <2>2. <<i, f[i - 1]>> \in (1..n) \X Text
    BY <1>6, <2>1
  <2>3. step[<<i, f[i - 1]>>] = Join(f[i - 1], Name[path[i]])
    BY <2>2 DEF step
  <2> QED BY <1>6, <2>1, <2>3
<1>8. f = [i \in 0..n |-> IF i = 0 THEN << >> ELSE Join(f[i - 1], Name[path[i]])]
  BY <1>1, <1>6, <1>7
<1>9. r = CHOOSE g : g = [i \in 0..n |-> IF i = 0 THEN << >> ELSE Join(g[i - 1], Name[path[i]])]
  BY DEF Joined, Join, n
<1> HIDE DEF r
<1>10. r = [i \in 0..n |-> IF i = 0 THEN << >> ELSE Join(r[i - 1], Name[path[i]])]
  BY <1>8, <1>9
<1>11. r[0] = << >> /\ \A i \in 1..n : r[i] = Join(r[i - 1], Name[path[i]])
  <2>1. 0 \in 0..n /\ \A i \in 1..n : i \in 0..n /\ i # 0
    BY <1>1
  <2> QED BY <1>10, <2>1
<1> DEFINE Wrong == {i \in 0..n : r[i] \notin Text}
<1>12. Wrong = {}
  <2> SUFFICES ASSUME Wrong # {} PROVE FALSE
    OBVIOUS
  <2>1. Wrong \in SUBSET Nat
    OBVIOUS
  <2>2. PICK m \in Wrong : \A k \in Wrong : m <= k
    BY <2>1, LeastNumber
  <2>3. m \in 1..n
    BY <1>1, <1>2, <1>11
  <2>4. m - 1 \in 0..n /\ m - 1 \notin Wrong
    BY <1>1, <2>2, <2>3
  <2>5. r[m - 1] \in Text
    BY <2>4
  <2> QED BY <1>1, <1>3, <1>11, <2>3, <2>5
<1>13. n \in 0..n
  BY <1>1
<1>14. r[n] \in Text
  BY <1>12, <1>13
<1> QED BY <1>14 DEF r, n, RelativePath

LEMMA ExtensionIs ==
  ASSUME NEW name \in Text
  PROVE  Extension(name) \in Text
<1> DEFINE dots == {i \in 2..Len(name) : name[i] = 46}
<1>1. Len(name) \in Nat /\ \A i \in 1..Len(name) : name[i] \in 0..255
  BY TextIs
<1>2. CASE dots = {}
  BY <1>2 DEF Extension, Text
<1>3. CASE dots # {}
  <2>1. dots \in SUBSET (0..Len(name))
    BY <1>1
  <2>2. PICK m \in dots : \A k \in dots : k <= m
    BY <1>1, <1>3, <2>1, GreatestNumber
  <2>3. m \in dots /\ \A k \in dots : m >= k
    BY <2>1, <2>2
  <2>4. Max(dots) \in dots
    BY <2>3 DEF Max
  <2>5. Max(dots) \in 2..Len(name)
    BY <2>4
  <2>6. \A i \in Max(dots)..Len(name) : name[i] \in 0..255
    BY <1>1, <2>5
  <2>7. SubSeq(name, Max(dots), Len(name)) \in Seq(0..255)
    BY <1>1, <2>5, <2>6, SubSeqProperties
  <2> QED BY <1>3, <2>7 DEF Extension, Text
<1> QED BY <1>2, <1>3

Records == [file_name : Text \ {<< >>}, extension : Text, relative_path : Text]

LEMMA FileRecordIs ==
  ASSUME NEW path \in Seq(Nodes), path # << >>
  PROVE  FileRecord(path) \in Records
<1>1. Len(path) \in Nat /\ Len(path) # 0
  BY EmptySeq, LenProperties
<1>2. path[Len(path)] \in Nodes
  BY <1>1, ElementOfSeq
<1>3. Name[path[Len(path)]] \in Text \ {<< >>}
  BY <1>2, TextAssumption
<1> QED BY <1>3, JoinedIs, ExtensionIs DEF FileRecord, Records

\* Normalizing keeps the length, goes byte by byte and is done once.
LEMMA NormalizedIs ==
  ASSUME NEW text \in Text
  PROVE  /\ NormalizeIndexText(text) \in Text
         /\ Len(NormalizeIndexText(text)) = Len(text)
         /\ \A i \in 1..Len(text) : NormalizeIndexText(text)[i] = AsciiLower(text[i])
         /\ NormalizeIndexText(NormalizeIndexText(text)) = NormalizeIndexText(text)
<1> DEFINE s == NormalizeIndexText(text)
           n == Len(text)
<1>1. n \in Nat /\ DOMAIN text = 1..n /\ \A i \in 1..n : text[i] \in 0..255
  BY TextIs
<1>2. s = [i \in 1..n |-> AsciiLower(text[i])]
  BY <1>1 DEF NormalizeIndexText
<1> HIDE DEF s, n
<1>3. s = [i \in 1..n |-> s[i]] /\ \A i \in 1..n : s[i] = AsciiLower(text[i])
  BY <1>2
<1>4. \A i \in 1..n : s[i] \in 0..255 /\ AsciiLower(s[i]) = s[i]
  BY <1>1, <1>3, LowerIs
<1>5. s \in Seq(0..255) /\ Len(s) = n /\ DOMAIN s = 1..n
  <2> DEFINE Byte == 0..255
  <2>1. \A i \in 1..n : s[i] \in Byte
    BY <1>4
  <2> HIDE DEF Byte
  <2>2. s \in Seq(Byte) /\ Len(s) = n /\ DOMAIN s = 1..n
    BY <1>1, <1>3, <2>1, FunctionIsSequence
  <2> QED BY <2>2 DEF Byte
<1>6. NormalizeIndexText(s) = s
  <2>1. NormalizeIndexText(s) = [i \in 1..n |-> AsciiLower(s[i])]
    BY <1>5 DEF NormalizeIndexText
  <2> QED BY <1>3, <1>4, <2>1
<1> QED BY <1>3, <1>5, <1>6 DEF s, n, Text

\* What is trimmed is a text, and so is what is a token of a record.
LEMMA TrimmedIs ==
  ASSUME NEW text \in Text
  PROVE  TrimAscii(text) \in Text
<1> DEFINE kept == {i \in DOMAIN text : ~IsAsciiSpace(text[i])}
<1>1. Len(text) \in Nat /\ DOMAIN text = 1..Len(text) /\ \A i \in 1..Len(text) : text[i] \in 0..255
  BY TextIs
<1>2. CASE kept = {}
  BY <1>2 DEF TrimAscii, Text
<1>3. CASE kept # {}
  <2>1. kept \in SUBSET (0..Len(text)) /\ kept \in SUBSET Nat
    BY <1>1
  <2>2. PICK m \in kept : \A k \in kept : k <= m
    BY <1>1, <1>3, <2>1, GreatestNumber
  <2>3. m \in kept /\ \A k \in kept : m >= k
    BY <2>1, <2>2
  <2>4. Max(kept) \in kept
    BY <2>3 DEF Max
  <2>5. PICK l \in kept : \A k \in kept : l <= k
    BY <1>3, <2>1, LeastNumber
  <2>6. Min(kept) \in kept
    BY <2>5 DEF Min
  <2>7. Max(kept) \in 1..Len(text) /\ Min(kept) \in 1..Len(text)
    BY <1>1, <2>4, <2>6
  <2>8. \A i \in Min(kept)..Max(kept) : text[i] \in 0..255
    BY <1>1, <2>7
  <2>9. SubSeq(text, Min(kept), Max(kept)) \in Seq(0..255)
    BY <2>7, <2>8, SubSeqProperties
  <2> QED BY <1>3, <2>9 DEF TrimAscii, Text
<1> QED BY <1>2, <1>3

\* A sequence has finitely many elements.
LEMMA ElementsAreFinite ==
  ASSUME NEW T, NEW s \in Seq(T)
  PROVE  ToSet(s) \in SUBSET T /\ IsFiniteSet(ToSet(s))
<1>1. Len(s) \in Nat /\ DOMAIN s = 1..Len(s) /\ s \in [1..Len(s) -> T]
  BY LenProperties
<1>2. s \in Surjection(1..Len(s), ToSet(s))
  BY <1>1 DEF Surjection, ToSet
<1>3. ExistsSurjection(1..Len(s), ToSet(s))
  BY <1>2 DEF ExistsSurjection
<1>4. ToSet(s) \in SUBSET T
  BY <1>1 DEF ToSet
<1> QED BY <1>1, <1>3, <1>4, FS_NatSurjection

\* The tokens of a record are finitely many.
LEMMA RecordTokensAre ==
  ASSUME NEW r \in Records
  PROVE  RecordTokens(r) \in SUBSET Text /\ IsFiniteSet(RecordTokens(r))
<1> DEFINE E(text) == ToSet(Tokenize(text))
<1>1. r.file_name \in Text /\ r.extension \in Text /\ r.relative_path \in Text
  BY DEF Records
<1>2. \A text \in Text : E(text) \in SUBSET Text /\ IsFiniteSet(E(text))
  BY TokensAreTexts, ElementsAreFinite
<1> HIDE DEF E
<1>3. RecordTokens(r) = (E(r.file_name) \cup E(r.extension)) \cup E(r.relative_path)
  BY DEF RecordTokens, E
<1>4. IsFiniteSet((E(r.file_name) \cup E(r.extension)) \cup E(r.relative_path))
  BY <1>1, <1>2, FS_Union
<1> QED BY <1>1, <1>2, <1>3, <1>4

\* The tokens of each record.
TokensOf(r) == [id \in 1..Len(r) |-> RecordTokens(r[id])]

\* All tokens together are finitely many.
LEMMA TokensOfAre ==
  ASSUME NEW r \in Seq(Records)
  PROVE  /\ Len(r) \in Nat
         /\ DOMAIN TokensOf(r) = 1..Len(r)
         /\ \A id \in 1..Len(r) : TokensOf(r)[id] = RecordTokens(r[id]) /\ TokensOf(r)[id] \in SUBSET Text
         /\ UNION {TokensOf(r)[id] : id \in 1..Len(r)} \in SUBSET Text
         /\ IsFiniteSet(UNION {TokensOf(r)[id] : id \in 1..Len(r)})
<1> DEFINE n == Len(r)
           has == TokensOf(r)
<1>1. n \in Nat /\ \A id \in 1..n : r[id] \in Records
  BY LenProperties
<1>2. has = [id \in 1..n |-> RecordTokens(r[id])]
  BY DEF TokensOf
<1> HIDE DEF has, n
<1>3. \A id \in 1..n : has[id] = RecordTokens(r[id]) /\ has[id] \in SUBSET Text /\ IsFiniteSet(has[id])
  BY <1>1, <1>2, RecordTokensAre
<1>4. has = [id \in 1..n |-> has[id]] /\ DOMAIN has = 1..n
  BY <1>2
<1>5. has \in Seq(SUBSET Text)
  <2>1. \A id \in 1..n : has[id] \in SUBSET Text
    BY <1>3
  <2> QED BY <1>1, <1>4, <2>1, FunctionIsSequence
<1>6. IsFiniteSet(ToSet(has))
  BY <1>5, ElementsAreFinite
<1>7. {has[id] : id \in 1..n} = ToSet(has)
  BY <1>4 DEF ToSet
<1>8. IsFiniteSet(UNION {has[id] : id \in 1..n})
  <2>1. \A S \in {has[id] : id \in 1..n} : IsFiniteSet(S)
    BY <1>3
  <2> QED BY <1>6, <1>7, <2>1, FS_UNION
<1>9. UNION {has[id] : id \in 1..n} \in SUBSET Text
  BY <1>3
<1> QED BY <1>1, <1>3, <1>4, <1>8, <1>9 DEF has, n

\* The parts of a snapshot.
LEMMA SnapshotIs ==
  ASSUME NEW r \in Seq(Records)
  PROVE  LET s == Snapshot(r)
             all == UNION {TokensOf(r)[id] : id \in 1..Len(r)}
         IN  /\ s.records = r
             /\ s.normalized_names = [id \in 1..Len(r) |-> NormalizedRecordName(r[id])]
             /\ DOMAIN s.token_index = all
             /\ \A t \in all : s.token_index[t] = {id \in 1..Len(r) : t \in TokensOf(r)[id]}
             /\ s.sorted_tokens = Sorted(all, Less)
<1> DEFINE all == UNION {TokensOf(r)[id] : id \in 1..Len(r)}
           index == [token \in all |-> {id \in 1..Len(r) : token \in TokensOf(r)[id]}]
<1>1. Snapshot(r) = [records |-> r,
                     normalized_names |-> [id \in 1..Len(r) |-> NormalizedRecordName(r[id])],
                     token_index |-> index,
                     sorted_tokens |-> Sorted(DOMAIN index, Less)]
  BY DEF Snapshot, TokensOf
<1>2. DOMAIN index = all
  OBVIOUS
<1> HIDE DEF index, all
<1>3. /\ Snapshot(r).records = r
      /\ Snapshot(r).normalized_names = [id \in 1..Len(r) |-> NormalizedRecordName(r[id])]
      /\ Snapshot(r).token_index = index
      /\ Snapshot(r).sorted_tokens = Sorted(DOMAIN index, Less)
  BY <1>1
<1>4. \A t \in all : index[t] = {id \in 1..Len(r) : t \in TokensOf(r)[id]}
  BY DEF index
<1> QED BY <1>2, <1>3, <1>4 DEF all

\* What is downward closed in 1..n ends where it counts to.
LEMMA InitialSegment ==
  ASSUME NEW n \in Nat, NEW S \in SUBSET (1..n), \A i \in S, j \in 1..n : j < i => j \in S
  PROVE  Cardinality(S) \in Nat /\ S = 1..Cardinality(S)
<1>1. CASE S = {}
  <2>1. Cardinality(S) = 0
    BY <1>1, FS_EmptySet
  <2> QED BY <1>1, <2>1
<1>2. CASE S # {}
  <2>1. S \in SUBSET (0..n)
    OBVIOUS
  <2>2. PICK m \in S : \A k \in S : k <= m
    BY <1>2, <2>1, GreatestNumber
  <2>3. m \in 1..n
    OBVIOUS
  <2>4. \A i \in 1..m : i \in S
    <3> TAKE i \in 1..m
    <3>1. i = m \/ (i < m /\ i \in 1..n)
      BY <2>3
    <3> QED BY <2>2, <3>1
  <2>5. S = 1..m
    <3>1. \A i \in S : i \in 1..m
      BY <2>2, <2>3
    <3> QED BY <2>4, <3>1
  <2>6. 1 \in Int /\ m \in Int /\ 1 <= m /\ m \in Nat
    BY <2>3
  <2>7. Cardinality(1..m) = IF 1 > m THEN 0 ELSE m - 1 + 1
    BY <2>6, FS_Interval
  <2>8. Cardinality(1..m) = m
    BY <2>6, <2>7
  <2> QED BY <2>5, <2>6, <2>8
<1> QED BY <1>1, <1>2

\* From lower_bound on, as long as the prefix is there, are all tokens that have it.
LEMMA PrefixPostings ==
  ASSUME NEW r \in Seq(Records), NEW token \in Text
  PROVE  MergePrefixPostings(Snapshot(r), token) =
            {id \in 1..Len(r) : \E t \in TokensOf(r)[id] : IsPrefix(token, t)}
<1> DEFINE all == UNION {TokensOf(r)[id] : id \in 1..Len(r)}
           tokens == Sorted(all, Less)
           n == Cardinality(all)
           lower == {i \in DOMAIN tokens : Less(tokens[i], token)}
           from == 1 + Cardinality(lower)
           run == {i \in from..Len(tokens) : \A j \in from..i : IsPrefix(token, tokens[j])}
<1>1. all \in SUBSET Text /\ IsFiniteSet(all)
  BY TokensOfAre
<1>2. /\ n \in Nat
      /\ tokens \in Seq(all) /\ Len(tokens) = n /\ DOMAIN tokens = 1..n
      /\ \A e \in all : \E i \in 1..n : tokens[i] = e
      /\ \A i, j \in 1..n : i < j <=> Less(tokens[i], tokens[j])
  BY <1>1, SortedTexts
<1>3. MergePrefixPostings(Snapshot(r), token) = UNION {Snapshot(r).token_index[tokens[i]] : i \in run}
  <2>1. Snapshot(r).sorted_tokens = tokens
    BY SnapshotIs
  <2> QED BY <2>1 DEF MergePrefixPostings
<1>4. \A t \in all : Snapshot(r).token_index[t] = {id \in 1..Len(r) : t \in TokensOf(r)[id]}
  BY SnapshotIs
<1> HIDE DEF tokens, n
<1>5. \A i \in 1..n : tokens[i] \in all /\ tokens[i] \in Text
  BY <1>1, <1>2
<1>6. Cardinality(lower) \in Nat /\ lower = 1..Cardinality(lower)
  <2>1. lower \in SUBSET (1..n)
    BY <1>2
  <2>2. ASSUME NEW i \in lower, NEW j \in 1..n, j < i PROVE j \in lower
    <3>1. Less(tokens[j], tokens[i]) /\ Less(tokens[i], token) /\ i \in 1..n
      BY <1>2, <2>1, <2>2
    <3>2. Less(tokens[j], token)
      BY <1>5, <3>1, LessIsTransitive
    <3> QED BY <1>2, <3>2
  <2> HIDE DEF lower
  <2> QED BY <1>2, <2>1, <2>2, InitialSegment
<1>7. from \in Nat /\ \A i \in 1..n : Less(tokens[i], token) <=> i < from
  <2>1. \A i \in 1..n : Less(tokens[i], token) <=> i \in lower
    BY <1>2
  <2> HIDE DEF lower
  <2>2. \A i \in 1..n : i \in lower <=> i < from
    BY <1>6
  <2> QED BY <1>6, <2>1, <2>2
<1> HIDE DEF from
<1>8. \A i \in run : i \in 1..n /\ IsPrefix(token, tokens[i])
  <2> TAKE i \in run
  <2>1. i \in from..n /\ i \in from..i
    BY <1>2, <1>7
  <2>2. from >= 1
    BY <1>6 DEF from
  <2>3. i \in 1..n
    BY <1>2, <1>7, <2>1, <2>2
  <2> QED BY <2>1, <2>3
<1>9. ASSUME NEW i \in 1..n, IsPrefix(token, tokens[i]) PROVE i \in run
  <2>1. ~Less(tokens[i], token)
    BY <1>5, <1>9, PrefixIsFirst
  <2>2. i \in from..Len(tokens)
    BY <1>2, <1>7, <2>1
  <2>3. ASSUME NEW j \in from..i PROVE IsPrefix(token, tokens[j])
    <3>1. j \in 1..n
      BY <1>2, <1>6, <1>7 DEF from
    <3>2. ~(j < from) /\ ~(i < j)
      BY <1>7
    <3>3. ~Less(tokens[j], token) /\ ~Less(tokens[i], tokens[j])
      BY <1>2, <1>7, <3>1, <3>2
    <3> QED BY <1>5, <1>9, <3>1, <3>3, PrefixesAreTogether
  <2> QED BY <2>2, <2>3
<1> HIDE DEF run
<1>10. ASSUME NEW id \in 1..Len(r), NEW t \in TokensOf(r)[id], IsPrefix(token, t)
       PROVE  \E i \in run : id \in Snapshot(r).token_index[tokens[i]]
  <2>1. t \in all
    OBVIOUS
  <2>2. PICK i \in 1..n : tokens[i] = t
    BY <1>2, <2>1
  <2>3. i \in run
    BY <1>9, <1>10, <2>2
  <2>4. id \in Snapshot(r).token_index[t]
    BY <1>4, <2>1
  <2> QED BY <2>2, <2>3, <2>4
<1>11. ASSUME NEW i \in run, NEW id \in Snapshot(r).token_index[tokens[i]]
       PROVE  id \in 1..Len(r) /\ \E t \in TokensOf(r)[id] : IsPrefix(token, t)
  <2>1. i \in 1..n /\ IsPrefix(token, tokens[i]) /\ tokens[i] \in all
    BY <1>5, <1>8
  <2>2. id \in {k \in 1..Len(r) : tokens[i] \in TokensOf(r)[k]}
    BY <1>4, <2>1
  <2> QED BY <2>1, <2>2
<1> QED BY <1>3, <1>10, <1>11

\* The candidates are the records that answer by the tokens.
LEMMA CandidatesAreAnswers ==
  ASSUME NEW r \in Seq(Records), NEW tokens \in SUBSET Text
  PROVE  Candidates(Snapshot(r), tokens) = Answers(TokensOf(r), tokens)
<1> DEFINE has == TokensOf(r)
           all == UNION {has[id] : id \in 1..Len(r)}
           s == Snapshot(r)
           Fits(id, q) == \/ q \in has[id]
                          \/ /\ \A other \in 1..Len(r) : q \notin has[other]
                             /\ \E t \in has[id] : IsPrefix(q, t)
<1>1. DOMAIN s.token_index = all /\ \A t \in all : s.token_index[t] = {id \in 1..Len(r) : t \in has[id]}
  BY SnapshotIs
<1>2. DOMAIN s.records = 1..Len(r)
  <2>1. s.records = r
    BY SnapshotIs
  <2> QED BY <2>1, LenProperties
<1>3. DOMAIN has = 1..Len(r)
  BY TokensOfAre
<1>4. ASSUME NEW q \in tokens
      PROVE  \A id \in 1..Len(r) : id \in CandidatesForToken(s, q) <=> Fits(id, q)
  <2>1. q \in Text
    OBVIOUS
  <2>2. MergePrefixPostings(s, q) = {id \in 1..Len(r) : \E t \in has[id] : IsPrefix(q, t)}
    BY <2>1, PrefixPostings
  <2>3. q \in all <=> \E id \in 1..Len(r) : q \in has[id]
    OBVIOUS
  <2> HIDE DEF s, all, has
  <2>4. CASE q \in all
    BY <1>1, <2>3, <2>4 DEF CandidatesForToken
  <2>5. CASE q \notin all
    BY <1>1, <2>2, <2>3, <2>5 DEF CandidatesForToken
  <2> QED BY <2>4, <2>5
<1> HIDE DEF s, all, has
<1>5. Candidates(s, tokens) = {id \in 1..Len(r) : \A q \in tokens : id \in CandidatesForToken(s, q)}
  BY <1>2 DEF Candidates
<1>6. Answers(has, tokens) = {id \in 1..Len(r) : \A q \in tokens : Fits(id, q)}
  BY <1>3 DEF Answers
<1> QED BY <1>4, <1>5, <1>6 DEF s, has

\* A score is a number.
LEMMA ScoreIs ==
  ASSUME NEW record, NEW query, NEW tokens
  PROVE  ScoreIndexHit(record, query, tokens) \in Nat
BY DEF ScoreIndexHit

\* Hits of records, each with the score of its id.
LEMMA HitsAre ==
  ASSUME NEW r \in Seq(Records), NEW ids \in SUBSET (1..Len(r)), NEW score \in [1..Len(r) -> Nat]
  PROVE  LET hits == {RankedHit(r[id], id, score[id]) : id \in ids}
         IN  /\ hits \in SUBSET Hits
             /\ IsFiniteSet(hits) /\ IsFiniteSet(ids)
             /\ Cardinality(hits) = Cardinality(ids)
             /\ \A x, y \in hits : x.id = y.id => x = y
<1> DEFINE hits == {RankedHit(r[id], id, score[id]) : id \in ids}
           f == [id \in ids |-> RankedHit(r[id], id, score[id])]
           n == Len(r)
<1>1. n \in Nat /\ \A id \in 1..n : r[id] \in Records
  BY LenProperties
<1>2. \A id \in ids : id \in 1..n /\ id \in Nat /\ score[id] \in Nat
  BY <1>1
<1>3. \A id \in ids : RankedHit(r[id], id, score[id]) \in Hits /\ RankedHit(r[id], id, score[id]).id = id
  <2> TAKE id \in ids
  <2>1. r[id].file_name \in Text /\ r[id].relative_path \in Text
    BY <1>1, <1>2 DEF Records
  <2>2. Len(r[id].file_name) \in Nat
    BY <2>1, TextIs
  <2>3. NormalizeIndexText(r[id].relative_path) \in Text
    BY <2>1, NormalizedIs
  <2> QED BY <1>2, <2>2, <2>3 DEF RankedHit, Hits
<1>4. IsFiniteSet(ids)
  <2>1. IsFiniteSet(1..n)
    BY <1>1, FS_Interval
  <2> QED BY <2>1, FS_Subset
<1>5. f \in Bijection(ids, hits)
  <2>1. f \in [ids -> hits] /\ \A h \in hits : \E id \in ids : f[id] = h
    OBVIOUS
  <2>2. \A a, b \in ids : f[a] = f[b] => a = b
    BY <1>3
  <2> QED BY <2>1, <2>2 DEF Bijection, Injection, Surjection, IsInjective
<1>6. IsFiniteSet(hits) /\ Cardinality(hits) = Cardinality(ids)
  <2>1. ExistsBijection(ids, hits)
    BY <1>5 DEF ExistsBijection
  <2> HIDE DEF hits
  <2> QED BY <1>4, <2>1, FS_Bijection
<1>7. hits \in SUBSET Hits /\ \A x, y \in hits : x.id = y.id => x = y
  BY <1>3
<1> QED BY <1>4, <1>6, <1>7

\* The first M of a set of numbers.
LEMMA FirstOfNumbers ==
  ASSUME NEW n \in Nat, NEW S \in SUBSET (1..n), NEW M \in Nat
  PROVE  LET first == {k \in S : Cardinality({o \in S : o < k}) < M}
         IN  first \in SUBSET S /\ Cardinality(first) = Min({M, Cardinality(S)})
<1> DEFINE R == {p \in S \X S : p[1] < p[2]}
           Rank(k) == Cardinality({o \in S : <<o, k>> \in R})
           c == Cardinality(S)
           first == {k \in S : Cardinality({o \in S : o < k}) < M}
           m == IF M < c THEN M ELSE c
<1>1. IsFiniteSet(S)
  <2>1. IsFiniteSet(1..n)
    BY FS_Interval
  <2> QED BY <2>1, FS_Subset
<1>2. \A x, y \in S : <<x, y>> \in R <=> x < y
  OBVIOUS
<1>3. \A k \in S : {o \in S : <<o, k>> \in R} = {o \in S : o < k}
  BY <1>2
<1> HIDE DEF R
<1>4. /\ \A x \in S : <<x, x>> \notin R
      /\ \A x, y, z \in S : <<x, y>> \in R /\ <<y, z>> \in R => <<x, z>> \in R
      /\ \A x, y \in S : x # y => <<x, y>> \in R \/ <<y, x>> \in R
  BY <1>2
<1>5. /\ c \in Nat
      /\ \A e \in S : Rank(e) \in 0..c - 1
      /\ \A x, y \in S : <<x, y>> \in R <=> Rank(x) < Rank(y)
      /\ \A i \in 1..c : \E e \in S : Rank(e) = i - 1
  BY <1>1, <1>4, Ranking
<1>6. first = {k \in S : Rank(k) < M}
  BY <1>3
<1> HIDE DEF c, first, Rank
<1>7. m \in Nat /\ m = Min({M, c})
  BY <1>5, MinOfTwo
<1>8. first \in SUBSET S /\ \A k \in first : Rank(k) \in 0..m - 1
  BY <1>5, <1>6
<1> DEFINE f == [k \in first |-> Rank(k)]
<1>9. f \in Bijection(first, 0..m - 1)
  <2>1. f \in [first -> 0..m - 1]
    BY <1>8
  <2>2. ASSUME NEW x \in first, NEW y \in first, f[x] = f[y] PROVE x = y
    <3>1. x \in S /\ y \in S /\ Rank(x) = Rank(y) /\ Rank(x) \in Int
      BY <1>5, <1>8, <2>2
    <3>2. ~(Rank(x) < Rank(y)) /\ ~(Rank(y) < Rank(x))
      BY <3>1
    <3> QED BY <1>4, <1>5, <3>1, <3>2
  <2>3. ASSUME NEW i \in 0..m - 1 PROVE \E k \in first : f[k] = i
    <3>1. i + 1 \in 1..c /\ i < M /\ i + 1 - 1 = i
      BY <1>5, <1>7
    <3>2. PICK e \in S : Rank(e) = i
      BY <1>5, <3>1
    <3> QED BY <1>6, <3>1, <3>2
  <2> QED BY <2>1, <2>2, <2>3 DEF Bijection, Injection, Surjection, IsInjective
<1>10. IsFiniteSet(first) /\ Cardinality(first) = Cardinality(0..m - 1)
  <2>1. IsFiniteSet(first)
    BY <1>1, <1>8, FS_Subset
  <2>2. ExistsBijection(first, 0..m - 1)
    BY <1>9 DEF ExistsBijection
  <2> QED BY <2>1, <2>2, FS_Bijection
<1>11. Cardinality(0..m - 1) = m
  <2>1. 0 \in Int /\ m - 1 \in Int
    BY <1>7
  <2>2. Cardinality(0..m - 1) = IF 0 > m - 1 THEN 0 ELSE m - 1 - 0 + 1
    BY <2>1, FS_Interval
  <2> QED BY <1>7, <2>2
<1> QED BY <1>7, <1>8, <1>10, <1>11 DEF c, first

-----------------------------------------------------------------------------
\* Substrings.

\* A part of a text by its bytes.
LEMMA PartIs ==
  ASSUME NEW text \in Text, NEW i \in 1..Len(text), NEW j \in i..Len(text)
  PROVE  /\ SubSeq(text, i, j) \in Text
         /\ Len(SubSeq(text, i, j)) = j - i + 1
         /\ \A k \in 1..j - i + 1 : SubSeq(text, i, j)[k] = text[i + k - 1]
<1>1. Len(text) \in Nat /\ \A k \in 1..Len(text) : text[k] \in 0..255
  BY TextIs
<1>2. i \in Int /\ j \in Int /\ i <= j /\ \A k \in i..j : k \in 1..Len(text)
  BY <1>1
<1> DEFINE Byte == 0..255
<1>3. \A k \in i..j : text[k] \in Byte
  BY <1>1, <1>2
<1> HIDE DEF Byte
<1>4. /\ SubSeq(text, i, j) \in Seq(Byte)
      /\ Len(SubSeq(text, i, j)) = IF i <= j THEN j - i + 1 ELSE 0
      /\ \A k \in 1..j - i + 1 : SubSeq(text, i, j)[k] = text[i + k - 1]
  BY <1>2, <1>3, SubSeqProperties
<1> QED BY <1>2, <1>4 DEF Byte, Text

\* A text that begins a suffix is a part.
LEMMA SuffixHasPart ==
  ASSUME NEW text \in Text, NEW part \in Text, part # << >>
  PROVE  (\E i \in 1..Len(text) : IsPrefix(part, SubSeq(text, i, Len(text)))) <=> HasSubstring(text, part)
<1> DEFINE n == Len(text)
           m == Len(part)
<1>1. n \in Nat /\ m \in Nat /\ m # 0
  BY TextIs, EmptySeq DEF Text
<1>2. ASSUME NEW i \in 1..n, IsPrefix(part, SubSeq(text, i, n))
      PROVE  HasSubstring(text, part)
  <2>1. /\ SubSeq(text, i, n) \in Text /\ Len(SubSeq(text, i, n)) = n - i + 1
        /\ \A k \in 1..n - i + 1 : SubSeq(text, i, n)[k] = text[i + k - 1]
    BY <1>1, PartIs
  <2>2. m <= n - i + 1 /\ \A k \in 1..m : part[k] = SubSeq(text, i, n)[k]
    BY <1>2, <2>1, PrefixIs
  <2>3. i + m - 1 \in i..n /\ i + m - 1 \in 1..n /\ i + m - 1 - i + 1 = m
    BY <1>1, <2>2
  <2> DEFINE j == i + m - 1
             cut == SubSeq(text, i, j)
  <2>4. cut \in Text /\ Len(cut) = m /\ \A k \in 1..m : cut[k] = text[i + k - 1]
    BY <2>3, PartIs
  <2>5. \A k \in 1..m : part[k] = cut[k]
    BY <1>1, <2>1, <2>2, <2>4
  <2> HIDE DEF cut
  <2>6. cut = part
    BY <2>4, <2>5, SeqEqual DEF Text
  <2> QED BY <2>3, <2>6 DEF HasSubstring, cut
<1>3. ASSUME NEW i \in 1..n, NEW j \in 1..n, SubSeq(text, i, j) = part
      PROVE  IsPrefix(part, SubSeq(text, i, n))
  <2>1. i <= j
    <3> SUFFICES ASSUME j < i PROVE FALSE
      BY <1>1
    <3>1. SubSeq(text, i, j) = << >>
      BY <1>1
    <3> QED BY <1>3, <3>1
  <2>2. j \in i..n /\ n \in i..n
    BY <1>1, <2>1
  <2>3. m = j - i + 1 /\ \A k \in 1..m : part[k] = text[i + k - 1]
    BY <1>3, <2>2, PartIs
  <2>4. /\ SubSeq(text, i, n) \in Text /\ Len(SubSeq(text, i, n)) = n - i + 1
        /\ \A k \in 1..n - i + 1 : SubSeq(text, i, n)[k] = text[i + k - 1]
    BY <2>2, PartIs
  <2>5. m <= n - i + 1 /\ \A k \in 1..m : part[k] = SubSeq(text, i, n)[k]
    BY <1>1, <2>2, <2>3, <2>4
  <2> QED BY <2>4, <2>5, PrefixIs
<1> QED BY <1>2, <1>3 DEF HasSubstring

\* What the fallback looks into is a text.
LEMMA RecordNameIs ==
  ASSUME NEW record \in Records
  PROVE  NormalizedRecordName(record) \in Text
<1> DEFINE Byte == 0..255
<1>1. record.file_name \in Seq(Byte) /\ record.relative_path \in Seq(Byte) /\ <<Space>> \in Seq(Byte)
  BY DEF Records, Text, Space
<1> HIDE DEF Byte
<1>2. record.file_name \o <<Space>> \in Seq(Byte)
  BY <1>1, ConcatProperties
<1>3. record.file_name \o <<Space>> \o record.relative_path \in Seq(Byte)
  BY <1>1, <1>2, ConcatProperties
<1>4. record.file_name \o <<Space>> \o record.relative_path \in Text
  BY <1>3 DEF Byte, Text
<1> QED BY <1>4, NormalizedIs DEF NormalizedRecordName

-----------------------------------------------------------------------------
\* Words.

\* A word by its bytes.
LEMMA WordIs ==
  ASSUME NEW text \in Text, NEW i \in 1..Len(text), NEW j \in i..Len(text)
  PROVE  LET w == WordAt(text, i, j)
         IN  /\ w \in Text
             /\ Len(w) = IF j - i < MaxTokenBytes THEN j - i + 1 ELSE MaxTokenBytes
             /\ \A k \in 1..Len(w) : w[k] = AsciiLower(text[i + k - 1])
<1> DEFINE e == IF j - i < MaxTokenBytes THEN j ELSE i + MaxTokenBytes - 1
           cut == SubSeq(text, i, e)
<1>1. Len(text) \in Nat /\ MaxTokenBytes \in Nat \ {0}
  BY TextIs, LimitsAssumption
<1>2. e \in i..Len(text) /\ e - i + 1 = IF j - i < MaxTokenBytes THEN j - i + 1 ELSE MaxTokenBytes
  BY <1>1
<1>3. cut \in Text /\ Len(cut) = e - i + 1 /\ \A k \in 1..e - i + 1 : cut[k] = text[i + k - 1]
  <2> HIDE DEF e
  <2> QED BY <1>2, PartIs
<1>4. WordAt(text, i, j) = NormalizeIndexText(cut)
  BY DEF WordAt
<1> HIDE DEF cut, e
<1>5. /\ NormalizeIndexText(cut) \in Text /\ Len(NormalizeIndexText(cut)) = Len(cut)
      /\ \A k \in 1..Len(cut) : NormalizeIndexText(cut)[k] = AsciiLower(cut[k])
  BY <1>3, NormalizedIs
<1> QED BY <1>2, <1>3, <1>4, <1>5

\* The first byte begins a word, and one more byte, unless it is beyond the limit, ...
LEMMA WordBegins ==
  ASSUME NEW text \in Text, NEW i \in 1..Len(text)
  PROVE  WordAt(text, i, i) = Append(<< >>, AsciiLower(text[i]))
<1> DEFINE w == WordAt(text, i, i)
           b == AsciiLower(text[i])
<1>1. Len(text) \in Nat /\ MaxTokenBytes \in Nat \ {0} /\ text[i] \in 0..255
  BY TextIs, LimitsAssumption
<1>2. w \in Text /\ Len(w) = 1 /\ w[1] = b
  <2>1. i \in i..Len(text)
    BY <1>1
  <2>2. /\ w \in Text
        /\ Len(w) = IF i - i < MaxTokenBytes THEN i - i + 1 ELSE MaxTokenBytes
        /\ \A k \in 1..Len(w) : w[k] = AsciiLower(text[i + k - 1])
    BY <2>1, WordIs
  <2>3. Len(w) = 1 /\ i + 1 - 1 = i
    BY <1>1, <2>2
  <2> QED BY <2>2, <2>3
<1>3. b \in 0..255
  BY <1>1, LowerIs
<1> HIDE DEF w, b
<1>4. Append(<< >>, b) \in Text /\ Len(Append(<< >>, b)) = 1 /\ Append(<< >>, b)[1] = b
  BY <1>3 DEF Text
<1>5. w = Append(<< >>, b)
  BY <1>2, <1>4, SeqEqual DEF Text
<1> QED BY <1>5 DEF w, b

\* ... goes on with the word.
LEMMA WordGoesOn ==
  ASSUME NEW text \in Text, NEW i \in 1..Len(text), NEW j \in i..Len(text), j < Len(text)
  PROVE  WordAt(text, i, j + 1) =
            IF Len(WordAt(text, i, j)) < MaxTokenBytes
            THEN Append(WordAt(text, i, j), AsciiLower(text[j + 1])) ELSE WordAt(text, i, j)
<1> DEFINE w == WordAt(text, i, j)
           v == WordAt(text, i, j + 1)
           b == AsciiLower(text[j + 1])
<1>1. Len(text) \in Nat /\ MaxTokenBytes \in Nat \ {0} /\ j + 1 \in 1..Len(text) /\ j + 1 \in i..Len(text)
  BY TextIs, LimitsAssumption
<1>2. b \in 0..255
  <2>1. text[j + 1] \in 0..255
    BY <1>1, TextIs
  <2> QED BY <2>1, LowerIs
<1>3. /\ w \in Text
      /\ Len(w) = IF j - i < MaxTokenBytes THEN j - i + 1 ELSE MaxTokenBytes
      /\ \A k \in 1..Len(w) : w[k] = AsciiLower(text[i + k - 1])
  BY WordIs
<1>4. /\ v \in Text
      /\ Len(v) = IF j + 1 - i < MaxTokenBytes THEN j + 1 - i + 1 ELSE MaxTokenBytes
      /\ \A k \in 1..Len(v) : v[k] = AsciiLower(text[i + k - 1])
  BY <1>1, WordIs
<1> DEFINE a == Append(w, b)
<1>5. a \in Text /\ Len(a) = Len(w) + 1 /\ a[Len(w) + 1] = b /\ \A k \in 1..Len(w) : a[k] = w[k]
  <2> DEFINE Byte == 0..255
  <2>1. w \in Seq(Byte) /\ b \in Byte
    BY <1>2, <1>3 DEF Text
  <2> HIDE DEF Byte, w, b
  <2>2. a \in Seq(Byte) /\ Len(a) = Len(w) + 1 /\ a[Len(w) + 1] = b /\ \A k \in 1..Len(w) : a[k] = w[k]
    BY <2>1, AppendProperties
  <2> QED BY <2>2 DEF Byte, Text
<1>6. text[i + (j - i + 2) - 1] = text[j + 1]
  <2>1. i + (j - i + 2) - 1 = j + 1
    BY <1>1
  <2> QED BY <2>1
<1>7. CASE Len(w) < MaxTokenBytes
  <2>1. j - i < MaxTokenBytes /\ Len(w) = j - i + 1 /\ Len(w) \in Nat
    BY <1>1, <1>3, <1>7
  <2>2. Len(v) = j - i + 2 /\ Len(v) = Len(w) + 1
    BY <1>1, <1>4, <1>7, <2>1
  <2>3. v[Len(w) + 1] = b
    <3>1. Len(w) + 1 \in 1..Len(v) /\ i + (Len(w) + 1) - 1 = j + 1
      BY <1>1, <2>1, <2>2
    <3> HIDE DEF v, w
    <3> QED BY <1>4, <3>1
  <2> HIDE DEF v, w, a, b
  <2>4. \A k \in 1..Len(v) : v[k] = a[k]
    <3> TAKE k \in 1..Len(v)
    <3>1. k = Len(w) + 1 \/ k \in 1..Len(w)
      BY <2>1, <2>2
    <3> QED BY <1>3, <1>4, <1>5, <2>3, <3>1
  <2>5. v = a
    BY <1>4, <1>5, <2>2, <2>4, SeqEqual DEF Text
  <2> QED BY <1>7, <2>5 DEF v, w, a, b
<1>8. CASE ~(Len(w) < MaxTokenBytes)
  <2>1. Len(v) = MaxTokenBytes /\ Len(w) = MaxTokenBytes
    BY <1>1, <1>3, <1>4, <1>8
  <2> HIDE DEF v, w, a, b
  <2>2. \A k \in 1..Len(v) : v[k] = w[k]
    BY <1>3, <1>4, <2>1
  <2>3. v = w
    BY <1>3, <1>4, <2>1, <2>2, SeqEqual DEF Text
  <2> QED BY <1>8, <2>3 DEF v, w, a, b
<1> QED BY <1>7, <1>8

\* A byte is in one word.
LEMMA OneWord ==
  ASSUME NEW text \in Text, NEW n \in 1..Len(text), NEW i \in 1..n, NEW k \in 1..n,
         IsWordUpTo(text, i, n), IsWordUpTo(text, k, n)
  PROVE  i = k
<1>1. \A a, b \in 1..n : IsWordUpTo(text, a, n) /\ IsWordUpTo(text, b, n) => ~(a < b)
  <2> SUFFICES ASSUME NEW a \in 1..n, NEW b \in 1..n, IsWordUpTo(text, a, n), IsWordUpTo(text, b, n), a < b
               PROVE  FALSE
    OBVIOUS
  <2>1. b - 1 \in a..n /\ b # 1
    BY TextIs
  <2> QED BY <2>1 DEF IsWordUpTo
<1>2. ~(i < k) /\ ~(k < i)
  BY <1>1
<1> QED BY <1>2, TextIs

\* The words that ended before byte n + 1.
WordsBefore(text, n) ==
  {WordAt(text, p[1], p[2]) : p \in {q \in (1..n) \X (1..n) :
      /\ IsWordUpTo(text, q[1], q[2])
      /\ q[2] < n /\ IsSeparator(text[q[2] + 1])}}

\* What tokenize has kept after n bytes: these, and the word it is in.
Kept(text, n) ==
  LET s == Reading(text)[n]
  IN  /\ ToSet(s.tokens) = WordsBefore(text, n)
      /\ n = 0 \/ IsSeparator(text[n]) => s.current = << >>
      /\ n # 0 /\ ~IsSeparator(text[n]) => \E i \in 1..n : IsWordUpTo(text, i, n) /\ s.current = WordAt(text, i, n)

\* Appending adds one element.
LEMMA AppendedElements ==
  ASSUME NEW T, NEW s \in Seq(T), NEW e \in T
  PROVE  ToSet(Append(s, e)) = ToSet(s) \cup {e}
<1>1. /\ Append(s, e) \in Seq(T) /\ Len(s) \in Nat
      /\ Len(Append(s, e)) = Len(s) + 1
      /\ \A i \in 1..Len(s) : Append(s, e)[i] = s[i]
      /\ Append(s, e)[Len(s) + 1] = e
  BY AppendProperties, LenProperties
<1>2. DOMAIN s = 1..Len(s) /\ DOMAIN Append(s, e) = 1..Len(s) + 1
  BY <1>1, LenProperties
<1> DEFINE a == Append(s, e)
<1> HIDE DEF a
<1>3. a[Len(s) + 1] = e /\ DOMAIN a = 1..Len(s) + 1 /\ \A i \in 1..Len(s) : a[i] = s[i]
  BY <1>1, <1>2 DEF a
<1>4. \A i \in 1..Len(s) + 1 : i = Len(s) + 1 \/ i \in 1..Len(s)
  BY <1>1
<1>5. Len(s) + 1 \in 1..Len(s) + 1 /\ \A i \in 1..Len(s) : i \in 1..Len(s) + 1
  BY <1>1
<1>6. ToSet(a) = {a[i] : i \in 1..Len(s) + 1} /\ ToSet(s) = {s[i] : i \in 1..Len(s)}
  BY <1>2, <1>3 DEF ToSet
<1>7. {a[i] : i \in 1..Len(s) + 1} = {s[i] : i \in 1..Len(s)} \cup {e}
  BY <1>3, <1>4, <1>5
<1> QED BY <1>6, <1>7 DEF a

\* A separator ends the word it comes after, if there is one.
LEMMA WordEnds ==
  ASSUME NEW text \in Text, NEW n \in 1..Len(text), Kept(text, n - 1), IsSeparator(text[n])
  PROVE  Kept(text, n)
<1> DEFINE s == Reading(text)[n - 1]
           t == Reading(text)[n]
           m == n - 1
<1>1. Len(text) \in Nat /\ n \in Nat /\ n # 0 /\ m \in Nat /\ m \in 0..Len(text) /\ n = m + 1
  BY TextIs
<1>2. s \in ReadingStates /\ t = Flush(s)
  <2>1. t = TakeByte(s, text[n]) /\ s \in ReadingStates
    BY <1>1, ReadingIs
  <2> QED BY <2>1 DEF TakeByte
<1>3. /\ ToSet(s.tokens) = WordsBefore(text, m)
      /\ m = 0 \/ IsSeparator(text[m]) => s.current = << >>
      /\ m # 0 /\ ~IsSeparator(text[m]) =>
            \E i \in 1..m : IsWordUpTo(text, i, m) /\ s.current = WordAt(text, i, m)
  BY DEF Kept
<1> HIDE DEF s, t
<1>4. t.current = << >>
  BY <1>2 DEF Flush
<1>5. WordsBefore(text, n) = WordsBefore(text, m) \cup {WordAt(text, i, m) : i \in {k \in 1..m : IsWordUpTo(text, k, m)}}
  <2>1. ASSUME NEW i \in 1..n, NEW j \in 1..n, IsWordUpTo(text, i, j), j < n, IsSeparator(text[j + 1])
        PROVE  WordAt(text, i, j) \in WordsBefore(text, m)
                  \cup {WordAt(text, k, m) : k \in {l \in 1..m : IsWordUpTo(text, l, m)}}
    <3>1. i \in 1..m /\ j \in 1..m
      BY <1>1, <2>1 DEF IsWordUpTo
    <3>2. CASE j = m
      BY <2>1, <3>1, <3>2
    <3>3. CASE j # m
      <4>1. j < m
        BY <1>1, <3>1, <3>3
      <4>2. <<i, j>> \in {q \in (1..m) \X (1..m) :
                /\ IsWordUpTo(text, q[1], q[2])
                /\ q[2] < m /\ IsSeparator(text[q[2] + 1])}
        BY <2>1, <3>1, <4>1
      <4> QED BY <4>2 DEF WordsBefore
    <3> QED BY <3>2, <3>3
  <2>2. WordsBefore(text, n) \subseteq WordsBefore(text, m)
                  \cup {WordAt(text, k, m) : k \in {l \in 1..m : IsWordUpTo(text, l, m)}}
    <3> SUFFICES ASSUME NEW p \in (1..n) \X (1..n), IsWordUpTo(text, p[1], p[2]), p[2] < n,
                        IsSeparator(text[p[2] + 1])
                 PROVE  WordAt(text, p[1], p[2]) \in WordsBefore(text, m)
                           \cup {WordAt(text, k, m) : k \in {l \in 1..m : IsWordUpTo(text, l, m)}}
      BY DEF WordsBefore
    <3> QED BY <2>1
  <2>3. ASSUME NEW p \in (1..m) \X (1..m), IsWordUpTo(text, p[1], p[2]), p[2] < m,
               IsSeparator(text[p[2] + 1])
        PROVE  WordAt(text, p[1], p[2]) \in WordsBefore(text, n)
    <3>1. p \in (1..n) \X (1..n) /\ p[2] < n
      BY <1>1, <2>3
    <3> QED BY <2>3, <3>1 DEF WordsBefore
  <2>4. WordsBefore(text, m) \subseteq WordsBefore(text, n)
    BY <2>3 DEF WordsBefore
  <2>5. ASSUME NEW i \in 1..m, IsWordUpTo(text, i, m)
        PROVE  WordAt(text, i, m) \in WordsBefore(text, n)
    <3>1. <<i, m>> \in {q \in (1..n) \X (1..n) :
                /\ IsWordUpTo(text, q[1], q[2])
                /\ q[2] < n /\ IsSeparator(text[q[2] + 1])}
      <4>1. i \in 1..n /\ m \in 1..n /\ m < n /\ IsSeparator(text[m + 1])
        BY <1>1
      <4> QED BY <2>5, <4>1
    <3> QED BY <3>1 DEF WordsBefore
  <2> QED BY <2>2, <2>4, <2>5
<1>6. CASE m = 0 \/ IsSeparator(text[m])
  <2>1. t = s
    BY <1>2, <1>3, <1>6 DEF Flush
  <2>2. \A i \in 1..m : ~IsWordUpTo(text, i, m)
    BY <1>1, <1>6 DEF IsWordUpTo
  <2> QED BY <1>1, <1>3, <1>4, <1>5, <2>1, <2>2 DEF Kept, t
<1>7. CASE m # 0 /\ ~IsSeparator(text[m])
  <2>1. PICK i \in 1..m : IsWordUpTo(text, i, m) /\ s.current = WordAt(text, i, m)
    BY <1>3, <1>7
  <2>2. \A k \in 1..m : IsWordUpTo(text, k, m) <=> k = i
    <3>1. m \in 1..Len(text)
      BY <1>1, <1>7
    <3> HIDE DEF m
    <3> QED BY <2>1, <3>1, OneWord
  <2>3. s.current # << >>
    <3>1. i \in 1..Len(text) /\ m \in i..Len(text)
      BY <1>1
    <3>2. WordAt(text, i, m) \in Text
          /\ Len(WordAt(text, i, m)) = IF m - i < MaxTokenBytes THEN m - i + 1 ELSE MaxTokenBytes
      BY <3>1, WordIs
    <3>3. Len(WordAt(text, i, m)) # 0
      BY <1>1, <3>1, <3>2, LimitsAssumption
    <3>4. Len(<< >>) = 0
      OBVIOUS
    <3> QED BY <2>1, <3>3, <3>4
  <2>4. t.tokens = Append(s.tokens, s.current)
    BY <1>2, <2>3 DEF Flush
  <2>5. ToSet(t.tokens) = ToSet(s.tokens) \cup {s.current}
    <3>1. s.tokens \in Seq(Text) /\ s.current \in Text
      BY <1>2 DEF ReadingStates
    <3> QED BY <2>4, <3>1, AppendedElements
  <2>6. {WordAt(text, k, m) : k \in {l \in 1..m : IsWordUpTo(text, l, m)}} = {s.current}
    BY <2>1, <2>2
  <2> QED BY <1>1, <1>3, <1>4, <1>5, <2>5, <2>6 DEF Kept, t
<1> QED BY <1>6, <1>7

\* Another byte begins a word or goes on with it.
LEMMA WordGrows ==
  ASSUME NEW text \in Text, NEW n \in 1..Len(text), Kept(text, n - 1), ~IsSeparator(text[n])
  PROVE  Kept(text, n)
<1> DEFINE s == Reading(text)[n - 1]
           t == Reading(text)[n]
           m == n - 1
<1>1. Len(text) \in Nat /\ n \in Nat /\ n # 0 /\ m \in Nat /\ m \in 0..Len(text) /\ n = m + 1
  BY TextIs
<1>2. /\ s \in ReadingStates
      /\ t = IF Len(s.current) < MaxTokenBytes
             THEN [s EXCEPT !.current = Append(@, AsciiLower(text[n]))] ELSE s
  <2>1. t = TakeByte(s, text[n]) /\ s \in ReadingStates
    BY <1>1, ReadingIs
  <2> QED BY <2>1 DEF TakeByte
<1>3. /\ ToSet(s.tokens) = WordsBefore(text, m)
      /\ m = 0 \/ IsSeparator(text[m]) => s.current = << >>
      /\ m # 0 /\ ~IsSeparator(text[m]) =>
            \E i \in 1..m : IsWordUpTo(text, i, m) /\ s.current = WordAt(text, i, m)
  BY DEF Kept
<1> HIDE DEF s, t
<1>4. t.tokens = s.tokens
  BY <1>2 DEF ReadingStates
<1>5. t.current = IF Len(s.current) < MaxTokenBytes THEN Append(s.current, AsciiLower(text[n])) ELSE s.current
  BY <1>2 DEF ReadingStates
<1>6. WordsBefore(text, n) = WordsBefore(text, m)
  <2>1. ASSUME NEW p \in (1..n) \X (1..n), IsWordUpTo(text, p[1], p[2]), p[2] < n,
               IsSeparator(text[p[2] + 1])
        PROVE  p \in (1..m) \X (1..m) /\ p[2] < m
    <3>1. p[1] <= p[2]
      BY <2>1 DEF IsWordUpTo
    <3>2. p[2] # m
      BY <1>1, <2>1
    <3> QED BY <1>1, <2>1, <3>1, <3>2
  <2>2. \A p \in (1..m) \X (1..m) : p \in (1..n) \X (1..n) /\ (p[2] < m => p[2] < n)
    BY <1>1
  <2> QED BY <2>1, <2>2 DEF WordsBefore
<1>7. CASE m = 0 \/ IsSeparator(text[m])
  <2>1. Len(s.current) < MaxTokenBytes /\ s.current = << >>
    <3>1. Len(<< >>) = 0 /\ MaxTokenBytes \in Nat \ {0}
      BY LimitsAssumption
    <3> QED BY <1>3, <1>7, <3>1
  <2>2. t.current = WordAt(text, n, n)
    BY <1>5, <2>1, WordBegins
  <2>3. IsWordUpTo(text, n, n)
    BY <1>1, <1>7 DEF IsWordUpTo
  <2>4. n \in 1..n
    BY <1>1
  <2> QED BY <1>1, <1>3, <1>4, <1>6, <2>2, <2>3, <2>4 DEF Kept, t
<1>8. CASE m # 0 /\ ~IsSeparator(text[m])
  <2>1. PICK i \in 1..m : IsWordUpTo(text, i, m) /\ s.current = WordAt(text, i, m)
    BY <1>3, <1>8
  <2>2. i \in 1..Len(text) /\ m \in i..Len(text) /\ m < Len(text) /\ i \in 1..n
    BY <1>1, <2>1
  <2>3. t.current = WordAt(text, i, n)
    <3>1. WordAt(text, i, m + 1) =
            IF Len(WordAt(text, i, m)) < MaxTokenBytes
            THEN Append(WordAt(text, i, m), AsciiLower(text[m + 1])) ELSE WordAt(text, i, m)
      BY <2>2, WordGoesOn
    <3>2. n = m + 1
      BY <1>1
    <3> HIDE DEF m
    <3>3. text[m + 1] = text[n] /\ WordAt(text, i, m + 1) = WordAt(text, i, n)
      BY <3>2
    <3> QED BY <1>5, <2>1, <3>1, <3>3
  <2>4. IsWordUpTo(text, i, n)
    <3>1. \A k \in i..n : k = n \/ k \in i..m
      BY <1>1, <2>2
    <3> QED BY <1>1, <2>1, <2>2, <3>1 DEF IsWordUpTo
  <2> QED BY <1>1, <1>3, <1>4, <1>6, <2>2, <2>3, <2>4 DEF Kept, t
<1> QED BY <1>7, <1>8

\* The tokens of a text are its words.
LEMMA TokensAreWords ==
  ASSUME NEW text \in Text
  PROVE  ToSet(Tokenize(text)) = Words(text)
<1> DEFINE n == Len(text)
           Other == {m \in 0..n : ~Kept(text, m)}
           s == Reading(text)[n]
<1>1. n \in Nat /\ n \in 0..n
  BY TextIs
<1>2. Kept(text, 0)
  <2>1. Reading(text)[0].tokens = << >> /\ Reading(text)[0].current = << >>
    BY ReadingIs
  <2>2. ToSet(<< >>) = {} /\ WordsBefore(text, 0) = {}
    BY DEF ToSet, WordsBefore
  <2> QED BY <2>1, <2>2 DEF Kept
<1>3. Other = {}
  <2> SUFFICES ASSUME Other # {} PROVE FALSE
    OBVIOUS
  <2>1. Other \in SUBSET Nat
    OBVIOUS
  <2>2. PICK m \in Other : \A k \in Other : m <= k
    BY <2>1, LeastNumber
  <2>3. m \in 1..n
    BY <1>1, <1>2
  <2>4. m - 1 \in 0..n /\ m - 1 \notin Other
    BY <1>1, <2>2, <2>3
  <2>5. Kept(text, m - 1)
    BY <2>4
  <2>6. Kept(text, m)
    BY <2>3, <2>5, WordEnds, WordGrows
  <2> QED BY <2>6
<1>4. Kept(text, n)
  BY <1>1, <1>3
<1>5. /\ ToSet(s.tokens) = WordsBefore(text, n)
      /\ n = 0 \/ IsSeparator(text[n]) => s.current = << >>
      /\ n # 0 /\ ~IsSeparator(text[n]) =>
            \E i \in 1..n : IsWordUpTo(text, i, n) /\ s.current = WordAt(text, i, n)
  BY <1>4 DEF Kept
<1>6. s \in ReadingStates
  BY <1>1, ReadingIs
<1>7. Tokenize(text) = Flush(s).tokens
  BY DEF Tokenize
<1> HIDE DEF s, Other
<1>8. WordsBefore(text, n) \subseteq Words(text)
  BY DEF WordsBefore, Words
<1>9. ASSUME NEW p \in (1..n) \X (1..n), IsWordUpTo(text, p[1], p[2]),
             p[2] = n \/ IsSeparator(text[p[2] + 1])
      PROVE  WordAt(text, p[1], p[2]) \in WordsBefore(text, n) \/ (p[2] = n /\ n # 0 /\ ~IsSeparator(text[n]))
  <2>1. CASE p[2] = n
    <3>1. n \in p[1]..n
      BY <1>1, <1>9, <2>1 DEF IsWordUpTo
    <3> QED BY <1>1, <1>9, <2>1, <3>1 DEF IsWordUpTo
  <2>2. CASE p[2] # n
    <3>1. p[2] < n
      BY <1>1, <2>2
    <3> QED BY <1>9, <2>2, <3>1 DEF WordsBefore
  <2> QED BY <2>1, <2>2
<1>10. CASE n = 0 \/ IsSeparator(text[n])
  <2>1. Flush(s).tokens = s.tokens
    BY <1>5, <1>10 DEF Flush
  <2>2. Words(text) \subseteq WordsBefore(text, n)
    BY <1>9, <1>10 DEF Words
  <2> QED BY <1>5, <1>7, <1>8, <2>1, <2>2
<1>11. CASE n # 0 /\ ~IsSeparator(text[n])
  <2>1. PICK i \in 1..n : IsWordUpTo(text, i, n) /\ s.current = WordAt(text, i, n)
    BY <1>5, <1>11
  <2>2. n \in 1..n
    BY <1>1, <1>11
  <2>3. s.current # << >>
    <3>1. i \in 1..n /\ n \in i..n
      BY <1>1, <2>1
    <3>2. WordAt(text, i, n) \in Text
          /\ Len(WordAt(text, i, n)) = IF n - i < MaxTokenBytes THEN n - i + 1 ELSE MaxTokenBytes
      BY <3>1, WordIs
    <3>3. Len(WordAt(text, i, n)) # 0
      BY <1>1, <3>1, <3>2, LimitsAssumption
    <3>4. Len(<< >>) = 0
      OBVIOUS
    <3> QED BY <2>1, <3>3, <3>4
  <2>4. Flush(s).tokens = Append(s.tokens, s.current)
    BY <2>3 DEF Flush
  <2>5. ToSet(Tokenize(text)) = WordsBefore(text, n) \cup {s.current}
    <3>1. s.tokens \in Seq(Text) /\ s.current \in Text
      BY <1>6 DEF ReadingStates
    <3> QED BY <1>5, <1>7, <2>4, <3>1, AppendedElements
  <2>6. s.current \in Words(text)
    <3>1. <<i, n>> \in {q \in (1..n) \X (1..n) :
              /\ IsWordUpTo(text, q[1], q[2])
              /\ q[2] = n \/ IsSeparator(text[q[2] + 1])}
      BY <2>1, <2>2
    <3> QED BY <2>1, <3>1 DEF Words
  <2>7. ASSUME NEW p \in (1..n) \X (1..n), IsWordUpTo(text, p[1], p[2]),
               p[2] = n \/ IsSeparator(text[p[2] + 1])
        PROVE  WordAt(text, p[1], p[2]) \in WordsBefore(text, n) \cup {s.current}
    <3>1. CASE p[2] = n
      <4>1. p[1] \in 1..n /\ IsWordUpTo(text, p[1], n)
        BY <2>7, <3>1
      <4>2. p[1] = i
        BY <2>1, <2>2, <4>1, OneWord
      <4> QED BY <2>1, <3>1, <4>2
    <3>2. CASE p[2] # n
      BY <1>9, <2>7, <3>2
    <3> QED BY <3>1, <3>2
  <2>8. Words(text) \subseteq WordsBefore(text, n) \cup {s.current}
    BY <2>7 DEF Words
  <2> QED BY <1>8, <2>5, <2>6, <2>8
<1> QED BY <1>10, <1>11

\* And so are those of a record.
LEMMA RecordTokensAreWords ==
  ASSUME NEW r \in Records
  PROVE  RecordTokens(r) = UNION {Words(text) : text \in {r.file_name, r.extension, r.relative_path}}
<1>1. \A text \in {r.file_name, r.extension, r.relative_path} : ToSet(Tokenize(text)) = Words(text)
  BY TokensAreWords DEF Records
<1> QED BY <1>1 DEF RecordTokens

-----------------------------------------------------------------------------
\* Answers.

\* Limits are clamped to numbers.
LEMMA ClampIs ==
  ASSUME NEW limit \in Nat
  PROVE  ClampLimit(limit) \in Nat /\ MaxLimit \in Nat /\ ClampLimit(0) = MaxLimit
BY LimitsAssumption DEF ClampLimit

\* The hits of records, as they are ranked.
Ranked(r, ids, query, tokens) == {RankedHit(r[id], id, ScoreIndexHit(r[id], query, tokens)) : id \in ids}

\* The answer by tokens ranks all candidates.
LEMMA TokenHitsAreTop ==
  ASSUME NEW r \in Seq(Records), NEW ids \in SUBSET (1..Len(r)),
         NEW query \in Text, NEW tokens \in SUBSET Text, NEW limit \in Nat
  PROVE  LET good == Ranked(r, ids, query, tokens)
         IN  /\ BuildIndexHits(Snapshot(r), ids, query, tokens, limit) = TopHits(good, limit)
             /\ good \in SUBSET Hits /\ IsFiniteSet(good) /\ IsFiniteSet(ids)
             /\ Cardinality(good) = Cardinality(ids)
             /\ \A x, y \in good : x.id = y.id => x = y
             /\ IsTopOf(TopHits(good, limit), good, limit)
<1> DEFINE score == [id \in 1..Len(r) |-> ScoreIndexHit(r[id], query, tokens)]
           hits == {RankedHit(r[id], id, score[id]) : id \in ids}
           good == Ranked(r, ids, query, tokens)
<1>1. score \in [1..Len(r) -> Nat]
  BY ScoreIs
<1>2. hits = good
  <2>1. \A id \in ids : score[id] = ScoreIndexHit(r[id], query, tokens)
    OBVIOUS
  <2> HIDE DEF score
  <2> QED BY <2>1 DEF Ranked
<1> HIDE DEF score
<1>0. r \in Seq(Records) /\ ids \in SUBSET (1..Len(r))
  OBVIOUS
<1>3. /\ hits \in SUBSET Hits
      /\ IsFiniteSet(hits) /\ IsFiniteSet(ids)
      /\ Cardinality(hits) = Cardinality(ids)
      /\ \A x, y \in hits : x.id = y.id => x = y
  BY ONLY <1>0, <1>1, HitsAre
<1>4. Snapshot(r).records = r
  BY SnapshotIs
<1>5. BuildIndexHits(Snapshot(r), ids, query, tokens, limit) = TopHits(good, limit)
  BY <1>4 DEF BuildIndexHits, Ranked
<1> HIDE DEF hits
<1>6. IsTopOf(TopHits(hits, limit), hits, limit)
  BY <1>3, TopHitsAreTop
<1> QED BY <1>2, <1>3, <1>5, <1>6

\* The fallback ranks the first MaxLimit records that have the query in their name.
LEMMA SubstringHitsAreTop ==
  ASSUME NEW r \in Seq(Records), NEW query \in Text, query # << >>, NEW limit \in Nat
  PROVE  LET substring == {id \in 1..Len(r) : HasSubstring(NormalizedRecordName(r[id]), query)}
         IN  \E some \in SUBSET substring :
                /\ Cardinality(some) = Min({MaxLimit, Cardinality(substring)})
                /\ IsTopOf(BuildSubstringHits(Snapshot(r), query, limit),
                           {RankedHit(r[id], id, 30) : id \in some}, limit)
<1> DEFINE n == Len(r)
           names == Snapshot(r).normalized_names
           substring == {id \in 1..n : HasSubstring(NormalizedRecordName(r[id]), query)}
           found == {id \in DOMAIN names : \E i \in 1..Len(names[id]) :
                        IsPrefix(query, SubSeq(names[id], i, Len(names[id])))}
           first == {id \in found : Cardinality({other \in found : other < id}) < MaxLimit}
           hits == {RankedHit(r[id], id, 30) : id \in first}
<1>1. n \in Nat /\ \A id \in 1..n : r[id] \in Records
  BY LenProperties
<1>2. Snapshot(r).records = r /\ names = [id \in 1..n |-> NormalizedRecordName(r[id])]
  BY SnapshotIs
<1>3. BuildSubstringHits(Snapshot(r), query, limit) = TopHits(hits, limit)
  BY <1>2 DEF BuildSubstringHits
<1> HIDE DEF names
<1>4. found = substring
  <2>1. DOMAIN names = 1..n /\ \A id \in 1..n : names[id] = NormalizedRecordName(r[id])
    BY <1>2
  <2>2. \A id \in 1..n : (\E i \in 1..Len(names[id]) : IsPrefix(query, SubSeq(names[id], i, Len(names[id]))))
                            <=> HasSubstring(NormalizedRecordName(r[id]), query)
    <3> TAKE id \in 1..n
    <3>1. names[id] \in Text /\ names[id] = NormalizedRecordName(r[id])
      BY <1>1, <2>1, RecordNameIs
    <3> QED BY <3>1, SuffixHasPart
  <2> QED BY <2>1, <2>2
<1> HIDE DEF found, n
<1>5. found \in SUBSET (1..n)
  BY <1>4
<1>6. MaxLimit \in Nat
  BY LimitsAssumption
<1>7. first \in SUBSET found /\ Cardinality(first) = Min({MaxLimit, Cardinality(found)})
  BY ONLY <1>1, <1>5, <1>6, FirstOfNumbers
<1> HIDE DEF first
<1>8. first \in SUBSET (1..Len(r))
  BY <1>5, <1>7 DEF n
<1> DEFINE score == [id \in 1..Len(r) |-> 30]
<1>9. score \in [1..Len(r) -> Nat] /\ {RankedHit(r[id], id, score[id]) : id \in first} = hits
  <2>1. score \in [1..Len(r) -> Nat] /\ \A id \in first : score[id] = 30
    BY <1>8
  <2> HIDE DEF score
  <2> QED BY <2>1
<1> HIDE DEF score
<1>10. /\ hits \in SUBSET Hits /\ IsFiniteSet(hits)
       /\ \A x, y \in hits : x.id = y.id => x = y
  <2> DEFINE ranked == {RankedHit(r[id], id, score[id]) : id \in first}
  <2>1. r \in Seq(Records)
    OBVIOUS
  <2>2. /\ ranked \in SUBSET Hits
        /\ IsFiniteSet(ranked) /\ IsFiniteSet(first)
        /\ Cardinality(ranked) = Cardinality(first)
        /\ \A x, y \in ranked : x.id = y.id => x = y
    BY ONLY <1>8, <1>9, <2>1, HitsAre
  <2> HIDE DEF hits, ranked
  <2> QED BY <1>9, <2>2 DEF ranked
<1> HIDE DEF hits
<1>11. IsTopOf(TopHits(hits, limit), hits, limit)
  BY <1>10, TopHitsAreTop
<1> QED BY <1>3, <1>4, <1>7, <1>11 DEF hits, n

\* AnswersAreExact, of a snapshot, for any query.
LEMMA SearchIsExact ==
  ASSUME NEW r \in Seq(Records), NEW query \in Text, Len(query) <= MaxQueryBytes,
         Tokenize(NormalizeIndexText(TrimAscii(query))) # << >>, NEW limit \in Nat
  PROVE  LET normalized == NormalizeIndexText(TrimAscii(query))
             tokens == ToSet(Tokenize(normalized))
             found == Answers(TokensOf(r), tokens)
             substring == {id \in 1..Len(r) : HasSubstring(NormalizedRecordName(r[id]), normalized)}
             good == Ranked(r, found, normalized, tokens)
             hits == Search(Snapshot(r), query, limit).hits
         IN  /\ found \in SUBSET (1..Len(r))
             /\ found # {} => hits = TopHits(good, ClampLimit(limit))
             /\ IF found # {} THEN IsTopOf(hits, good, ClampLimit(limit))
                ELSE \E some \in SUBSET substring :
                        /\ Cardinality(some) = Min({MaxLimit, Cardinality(substring)})
                        /\ IsTopOf(hits, {RankedHit(r[id], id, 30) : id \in some}, ClampLimit(limit))
<1> DEFINE normalized == NormalizeIndexText(TrimAscii(query))
           tokens == ToSet(Tokenize(normalized))
           found == Answers(TokensOf(r), tokens)
           l == ClampLimit(limit)
           s == Snapshot(r)
           hits == Search(s, query, limit).hits
<1>1. normalized \in Text
  BY TrimmedIs, NormalizedIs
<1>2. normalized # << >>
  BY NothingHasNoTokens
<1>3. tokens \in SUBSET Text
  BY <1>1, TokensAreTexts, ElementsAreFinite
<1>4. tokens # {}
  <2>1. Tokenize(normalized) \in Seq(Text) /\ Tokenize(normalized) # << >>
    BY <1>1, TokensAreTexts
  <2>2. Len(Tokenize(normalized)) \in Nat \ {0}
    BY <2>1, EmptySeq
  <2>3. 1 \in DOMAIN Tokenize(normalized)
    BY <2>1, <2>2, LenProperties
  <2> QED BY <2>3 DEF ToSet
<1>5. l \in Nat
  BY ClampIs
<1>6. hits = IF Candidates(s, tokens) # {} THEN BuildIndexHits(s, Candidates(s, tokens), normalized, tokens, l)
             ELSE BuildSubstringHits(s, normalized, l)
  <2>1. ~(Len(query) > MaxQueryBytes)
    <3>1. Len(query) \in Nat /\ MaxQueryBytes \in Nat
      BY TextIs, LimitsAssumption
    <3> QED BY <3>1
  <2> HIDE DEF s, l, tokens, normalized
  <2> QED BY <2>1, <1>4 DEF Search, s, l, tokens, normalized
<1>7. Candidates(s, tokens) = found
  BY <1>3, CandidatesAreAnswers
<1>8. found \in SUBSET (1..Len(r))
  BY TokensOfAre DEF Answers
<1> HIDE DEF s, l, tokens, normalized, hits, found
<1>9. CASE found # {}
  <2> DEFINE good == Ranked(r, found, normalized, tokens)
  <2>0. r \in Seq(Records)
    OBVIOUS
  <2>1. /\ BuildIndexHits(Snapshot(r), found, normalized, tokens, l) = TopHits(good, l)
        /\ good \in SUBSET Hits /\ IsFiniteSet(good) /\ IsFiniteSet(found)
        /\ Cardinality(good) = Cardinality(found)
        /\ \A x, y \in good : x.id = y.id => x = y
        /\ IsTopOf(TopHits(good, l), good, l)
    BY ONLY <1>1, <1>3, <1>5, <1>8, <2>0, TokenHitsAreTop
  <2>2. hits = TopHits(good, l)
    BY <1>6, <1>7, <1>9, <2>1 DEF s
  <2> QED BY <1>8, <1>9, <2>1, <2>2 DEF s, l, tokens, normalized, hits, found
<1>10. CASE found = {}
  <2>1. hits = BuildSubstringHits(Snapshot(r), normalized, l)
    BY <1>6, <1>7, <1>10 DEF s
  <2> DEFINE substring == {id \in 1..Len(r) : HasSubstring(NormalizedRecordName(r[id]), normalized)}
  <2>2. \E some \in SUBSET substring :
           /\ Cardinality(some) = Min({MaxLimit, Cardinality(substring)})
           /\ IsTopOf(hits, {RankedHit(r[id], id, 30) : id \in some}, l)
    BY <1>1, <1>2, <1>5, <2>1, SubstringHitsAreTop
  <2> QED BY <1>8, <1>10, <2>2 DEF s, l, tokens, normalized, hits, found
<1> QED BY <1>9, <1>10

\* Only the records that are called what is asked for score 100.
LEMMA BestScore ==
  ASSUME NEW record \in Records, NEW query \in Text, NEW tokens
  PROVE  LET score == ScoreIndexHit(record, query, tokens)
         IN  /\ NormalizeIndexText(record.file_name) = query => score = 100
             /\ NormalizeIndexText(record.file_name) # query => score < 100
<1>1. IsPrefix(query, query)
  <2>1. Len(query) \in Nat
    BY TextIs
  <2> QED BY <2>1, PrefixIs
<1>2. CASE NormalizeIndexText(record.file_name) = query
  BY <1>1, <1>2 DEF ScoreIndexHit
<1>3. CASE NormalizeIndexText(record.file_name) # query
  BY <1>3 DEF ScoreIndexHit
<1> QED BY <1>2, <1>3

\* Those that are called so come first.
LEMMA BestAreFirst ==
  ASSUME NEW r \in Seq(Records), NEW found \in SUBSET (1..Len(r)),
         NEW query \in Text, NEW tokens \in SUBSET Text, NEW limit \in Nat,
         NEW best, best = {id \in 1..Len(r) : NormalizeIndexText(r[id].file_name) = query},
         best \subseteq found
  PROVE  LET hits == TopHits(Ranked(r, found, query, tokens), limit)
         IN  /\ Len(hits) >= Min({limit, Cardinality(best)})
             /\ \A i \in 1..Min({Len(hits), Cardinality(best)}) : hits[i].id \in best
<1> DEFINE good == Ranked(r, found, query, tokens)
           hits == TopHits(good, limit)
<1>1. /\ good \in SUBSET Hits /\ IsFiniteSet(good) /\ IsFiniteSet(found)
      /\ Cardinality(good) = Cardinality(found)
      /\ \A x, y \in good : x.id = y.id => x = y
  <2>1. /\ BuildIndexHits(Snapshot(r), found, query, tokens, limit) = TopHits(good, limit)
        /\ good \in SUBSET Hits /\ IsFiniteSet(good) /\ IsFiniteSet(found)
        /\ Cardinality(good) = Cardinality(found)
        /\ \A x, y \in good : x.id = y.id => x = y
        /\ IsTopOf(TopHits(good, limit), good, limit)
    BY TokenHitsAreTop
  <2> QED BY <2>1
<1>2. /\ Cardinality(good) \in Nat
      /\ hits \in Seq(good) /\ Len(hits) = Min({limit, Cardinality(good)})
      /\ \A i, j \in 1..Len(hits) : i < j => InOrder(hits[i], hits[j])
      /\ \A i, j \in 1..Len(hits) : hits[i] = hits[j] => i = j
      /\ \A i \in 1..Len(hits), other \in good : other \notin ToSet(hits) => InOrder(hits[i], other)
  <2> HIDE DEF good
  <2> QED BY <1>1, TopHitsAreInOrder
<1>3. IsFiniteSet(best) /\ Cardinality(best) \in Nat /\ Cardinality(best) <= Cardinality(good)
  <2>1. IsFiniteSet(best) /\ Cardinality(best) <= Cardinality(found)
    BY <1>1, FS_Subset
  <2> QED BY <1>1, <2>1, FS_CardinalityType
<1>4. \A hit \in good : /\ hit.id \in found /\ hit.score \in Nat
                        /\ hit.id \in best => hit.score = 100
                        /\ hit.id \notin best => hit.score < 100
  <2> TAKE hit \in good
  <2>1. PICK id \in found : hit = RankedHit(r[id], id, ScoreIndexHit(r[id], query, tokens))
    BY DEF Ranked
  <2>2. hit.id = id /\ hit.score = ScoreIndexHit(r[id], query, tokens)
    BY <2>1 DEF RankedHit
  <2>3. id \in best <=> NormalizeIndexText(r[id].file_name) = query
    OBVIOUS
  <2>4. r[id] \in Records
    BY ElementOfSeq
  <2> QED BY <2>2, <2>3, <2>4, BestScore, ScoreIs
<1>5. \A id \in best : \E hit \in good : hit.id = id
  <2> TAKE id \in best
  <2>1. RankedHit(r[id], id, ScoreIndexHit(r[id], query, tokens)) \in good
    BY DEF Ranked
  <2> QED BY <2>1 DEF RankedHit
<1> HIDE DEF good, hits
<1>6. \A i \in 1..Len(hits) : hits[i] \in good
  BY <1>2, ElementOfSeq
<1>7. \A x, y \in good : x.id \in best /\ y.id \notin best => ~InOrder(y, x)
  BY <1>4 DEF InOrder, RankedHitLess
<1>8. Len(hits) >= Min({limit, Cardinality(best)})
  BY <1>2, <1>3, MinOfTwo
<1>9. ASSUME NEW i \in 1..Min({Len(hits), Cardinality(best)}), hits[i].id \notin best
      PROVE  FALSE
  <2>1. Len(hits) \in Nat
    BY <1>2, LenProperties
  <2>2. i \in 1..Len(hits) /\ i \in 1..Cardinality(best)
    BY <1>3, <2>1, MinOfTwo
  <2>3. \A id \in best : \E j \in 1..i - 1 : hits[j].id = id
    <3> TAKE id \in best
    <3>1. PICK hit \in good : hit.id = id
      BY <1>5
    <3>2. ~InOrder(hits[i], hit)
      BY <1>6, <1>7, <1>9, <2>2, <3>1
    <3>3. hit \in ToSet(hits)
      BY <1>2, <2>2, <3>2
    <3>4. PICK j \in 1..Len(hits) : hits[j] = hit
      BY <1>2, <3>3, LenProperties DEF ToSet
    <3>5. j # i
      BY <1>9, <3>1, <3>4
    <3>6. j < i
      <4>1. ~(i < j)
        BY <1>2, <2>2, <3>2, <3>4
      <4> QED BY <2>1, <2>2, <3>4, <3>5, <4>1
    <3> QED BY <2>2, <3>1, <3>4, <3>6
  <2> DEFINE before == {j \in 1..i - 1 : hits[j].id \in best}
             f == [j \in before |-> hits[j].id]
  <2>4. f \in Surjection(before, best)
    BY <2>3 DEF Surjection
  <2>5. 1 \in Int /\ i - 1 \in Int /\ i - 1 >= 0
    BY <2>2
  <2>6. IsFiniteSet(1..i - 1) /\ Cardinality(1..i - 1) = i - 1
    <3>1. IsFiniteSet(1..i - 1) /\ Cardinality(1..i - 1) = IF 1 > i - 1 THEN 0 ELSE i - 1 - 1 + 1
      BY <2>5, FS_Interval
    <3> QED BY <2>5, <3>1
  <2>7. IsFiniteSet(before) /\ Cardinality(before) <= i - 1 /\ Cardinality(before) \in Nat
    <3>1. before \in SUBSET (1..i - 1)
      OBVIOUS
    <3> HIDE DEF before
    <3>2. IsFiniteSet(before) /\ Cardinality(before) <= Cardinality(1..i - 1)
      BY <2>6, <3>1, FS_Subset
    <3> QED BY <2>6, <3>2, FS_CardinalityType
  <2>8. Cardinality(best) <= Cardinality(before)
    <3> HIDE DEF before, f
    <3> QED BY <2>4, <2>7, FS_Surjection
  <2> QED BY <1>3, <2>2, <2>7, <2>8
<1> QED BY <1>8, <1>9 DEF good, hits

\* NameIsFoundFirst, of a snapshot.
LEMMA SearchFindsName ==
  ASSUME NEW r \in Seq(Records), NEW name \in Text, TrimAscii(name) = name, Len(name) <= MaxQueryBytes,
         Tokenize(name) # << >>,
         NEW k \in 1..Len(r), r[k].file_name = name
  PROVE  LET namesakes == {id \in 1..Len(r) : NormalizeIndexText(r[id].file_name) = NormalizeIndexText(name)}
             hits == Search(Snapshot(r), name, 0).hits
         IN  /\ Len(hits) >= Min({MaxLimit, Cardinality(namesakes)})
             /\ \A i \in 1..Min({Len(hits), Cardinality(namesakes)}) : hits[i].id \in namesakes
<1> DEFINE query == NormalizeIndexText(name)
           tokens == ToSet(Tokenize(query))
           found == Answers(TokensOf(r), tokens)
           namesakes == {id \in 1..Len(r) : NormalizeIndexText(r[id].file_name) = query}
           hits == Search(Snapshot(r), name, 0).hits
<1>1. query \in Text /\ NormalizeIndexText(query) = query
  BY NormalizedIs
<1>2. \A id \in 1..Len(r) : r[id].file_name \in Text /\ TokensOf(r)[id] = RecordTokens(r[id])
  <2>1. \A id \in 1..Len(r) : r[id] \in Records
    BY ElementOfSeq
  <2> QED BY <2>1, TokensOfAre DEF Records
<1>3. Tokenize(query) = Tokenize(name)
  BY <1>1, TokensIgnoreCase
<1>4. tokens \in SUBSET Text
  BY <1>1, TokensAreTexts, ElementsAreFinite
<1>5. MaxLimit \in Nat /\ ClampLimit(0) = MaxLimit /\ 0 \in Nat
  BY ClampIs
<1>6. /\ found \in SUBSET (1..Len(r))
      /\ found # {} => hits = TopHits(Ranked(r, found, query, tokens), MaxLimit)
  BY <1>3, <1>5, SearchIsExact
<1>7. namesakes \subseteq found
  <2> SUFFICES ASSUME NEW id \in namesakes PROVE id \in found
    OBVIOUS
  <2>1. id \in 1..Len(r) /\ NormalizeIndexText(r[id].file_name) = query
    OBVIOUS
  <2>2. Tokenize(r[id].file_name) = Tokenize(query)
    BY <1>1, <1>2, <2>1, TokensIgnoreCase
  <2>3. tokens \subseteq TokensOf(r)[id]
    BY <1>2, <2>1, <2>2 DEF RecordTokens
  <2>4. DOMAIN TokensOf(r) = 1..Len(r)
    BY TokensOfAre
  <2> QED BY <2>1, <2>3, <2>4 DEF Answers
<1>8. k \in namesakes
  OBVIOUS
<1> HIDE DEF query, tokens, found, hits
<1>9. hits = TopHits(Ranked(r, found, query, tokens), MaxLimit)
  BY <1>6, <1>7, <1>8
<1>10. /\ Len(TopHits(Ranked(r, found, query, tokens), MaxLimit)) >= Min({MaxLimit, Cardinality(namesakes)})
       /\ \A i \in 1..Min({Len(TopHits(Ranked(r, found, query, tokens), MaxLimit)), Cardinality(namesakes)}) :
            TopHits(Ranked(r, found, query, tokens), MaxLimit)[i].id \in namesakes
  BY <1>1, <1>4, <1>5, <1>6, <1>7, BestAreFirst
<1> QED BY <1>9, <1>10 DEF query, hits

-----------------------------------------------------------------------------
\* From the scan to the answers.

\* Taking the scan's output keeps its invariant: nothing is left of it.
LEMMA BuildBeginsKeepsInv ==
  ASSUME FullInv, BuildBegins
  PROVE  FullInv' /\ WalkOwesNothing'
<1>1. /\ pc = "returned" /\ pc' = pc /\ result = "ok" /\ result' = "taken" /\ stack = << >> /\ stack' = stack
      /\ ~closed /\ closed' = closed /\ refused' = refused
      /\ UNCHANGED <<options, denied, cancelled>>
      /\ records' = << >> /\ outcome' = << >> /\ visited' = {}
      /\ stats' = [s \in DOMAIN stats |-> 0]
      /\ accepted' = << >> /\ begun' = 0 /\ finished' = {}
  BY DEF BuildBegins, FullInv, ScanInv, PhaseInv, envVars
<1>2. Types
  BY TypesAreTypeOK DEF FullInv, ScanInv
<1>3. stats' = [discovered |-> 0, processed |-> 0, skipped |-> 0, failed |-> 0]
  <2>1. DOMAIN stats = {"discovered", "processed", "skipped", "failed"}
    BY <1>2 DEF Types, Stats
  <2> QED BY <1>1, <2>1
<1>4. stats'.discovered = 0 /\ stats'.processed = 0 /\ stats'.failed = 0 /\ stats' \in Stats
  BY <1>3 DEF Stats
<1>5. /\ DOMAIN outcome' = {} /\ Range(records') = {} /\ Range(accepted') = {}
      /\ Len(accepted') = 0 /\ Len(records') = 0
  BY <1>1 DEF Range
<1>6. Types'
  <2>1. stack' \in Seq(Levels) /\ records' \in Seq(Path) /\ accepted' \in Seq(Path)
    BY <1>1
  <2>2. outcome' \in [DOMAIN outcome' -> {"recorded", "failed", "thrown", "dropped"}]
    <3>1. << >> \in Seq({"recorded", "failed", "thrown", "dropped"}) /\ Len(<< >>) = 0
      OBVIOUS
    <3> QED BY <1>1, <3>1, LenProperties
  <2>3. begun' \in 0..Len(accepted') /\ finished' \subseteq Range(accepted')
    BY <1>1, <1>5
  <2> QED BY <1>1, <1>2, <1>4, <2>1, <2>2, <2>3 DEF Types
<1>7. Tasks("recorded")' = {} /\ Tasks("failed")' = {} /\ Tasks("dropped")' = {}
  BY <1>5 DEF Tasks
<1>8. CountsAreTrue'
  <2>1. Cardinality(Tasks("recorded")') = 0 /\ Cardinality(Tasks("failed")') = 0
    BY <1>7, FS_EmptySet
  <2>2. /\ (stats.discovered = Len(accepted))' /\ (stats.processed = Len(records))'
        /\ (Range(records) = Tasks("recorded"))'
    BY <1>4, <1>5, <1>7
  <2>3. /\ (Cardinality(Tasks("recorded")) = Len(records))'
        /\ (Cardinality(Tasks("failed")) <= stats.failed)'
    BY <1>4, <1>5, <2>1
  <2>4. (finished \subseteq DOMAIN outcome)' /\ (DOMAIN outcome \subseteq finished \cup Tasks("dropped"))'
    BY <1>1, <1>5
  <2> QED BY <2>2, <2>3, <2>4 DEF CountsAreTrue
<1>9. PhaseInv'
  BY <1>1, <1>7 DEF PhaseInv
<1>10. Listed' = {}
  BY <1>1, <1>5 DEF Listed
<1>11. OnlyWhatIsAskedFor' /\ DirectoriesListedOnce' /\ WalkInv'
  BY <1>1, <1>5, <1>10 DEF OnlyWhatIsAskedFor, DirectoriesListedOnce, WalkInv
<1>12. PoolInv'
  <2>1. PoolIsIdle'
    BY <1>1, <1>5, PoolSteps DEF PoolIsIdle, Pool!Running
  <2> QED BY <1>1, <1>5, <2>1 DEF PoolInv
<1>13. IsFiniteSet(DOMAIN outcome')
  BY <1>5, FS_EmptySet
<1>14. WalkOwesNothing'
  BY <1>1 DEF WalkOwesNothing
<1> QED BY <1>6, <1>8, <1>9, <1>11, <1>12, <1>13, <1>14, TypesAreTypeOK DEF FullInv, ScanInv

\* What was recorded are entries, which have a name.
LEMMA RecordsAreEntries ==
  ASSUME FullInv
  PROVE  records \in Seq(Seq(Nodes)) /\ \A i \in DOMAIN records : records[i] # << >>
<1>1. records \in Seq(Seq(Nodes))
  BY DEF FullInv, ScanInv, TypeOK
<1>2. ASSUME NEW i \in DOMAIN records PROVE records[i] # << >>
  <2>1. records[i] \in Tasks("recorded")
    BY <1>2 DEF FullInv, ScanInv, CountsAreTrue, Range
  <2>2. records[i] \in {accepted[k] : k \in 1..begun}
    BY <2>1 DEF Tasks, FullInv, ScanInv, PoolInv
  <2>3. begun \in 0..Len(accepted) /\ Len(accepted) \in Nat
    BY LenProperties DEF FullInv, ScanInv, TypeOK
  <2>4. \A k \in 1..begun : k \in 1..Len(accepted)
    BY <2>3
  <2> QED BY <2>2, <2>4 DEF FullInv, ScanInv, WalkInv
<1> QED BY <1>1, <1>2

\* The index is made of records with a name.
LEMMA RecordsOfEntries ==
  ASSUME NEW paths \in Seq(Seq(Nodes)), \A i \in DOMAIN paths : paths[i] # << >>
  PROVE  [i \in DOMAIN paths |-> FileRecord(paths[i])] \in Seq(Records)
<1> DEFINE r == [i \in 1..Len(paths) |-> FileRecord(paths[i])]
<1>1. Len(paths) \in Nat /\ DOMAIN paths = 1..Len(paths)
  BY LenProperties
<1>2. \A i \in 1..Len(paths) : FileRecord(paths[i]) \in Records
  BY <1>1, ElementOfSeq, FileRecordIs
<1>3. r = [i \in 1..Len(paths) |-> r[i]] /\ \A i \in 1..Len(paths) : r[i] \in Records
  BY <1>2
<1> HIDE DEF r
<1>4. r \in Seq(Records)
  BY <1>1, <1>3, FunctionIsSequence
<1> QED BY <1>1, <1>4 DEF r

FullIndexingInv == IndexingInv /\ FullInv

\* The invariant of the pipeline holds at first.
LEMMA InitIndexingInv == IndexingInit => FullIndexingInv
<1> SUFFICES ASSUME IndexingInit PROVE FullIndexingInv
  OBVIOUS
<1>1. FullInv /\ WalkOwesNothing
  <2>1. Init => WalkOwesNothing
    BY DEF Init, WalkOwesNothing
  <2> QED BY <2>1, InitFullInv DEF IndexingInit
<1>2. result = "none" /\ build = "none" /\ input = << >> /\ snapshot = None
  BY DEF IndexingInit, Init
<1>3. input \in Seq(Seq(Nodes)) /\ DOMAIN input = {}
  BY <1>2
<1> QED BY <1>1, <1>2, <1>3 DEF FullIndexingInv, IndexingInv, IInv, FullInv

\* Each of its steps keeps it.
LEMMA NextKeepsIndexingInv ==
  ASSUME FullIndexingInv, [IndexingNext]_indexingVars
  PROVE  FullIndexingInv'
<1> USE DEF FullIndexingInv
<1>0. FullInv /\ WalkOwesNothing /\ IInv
  BY DEF IndexingInv, IInv
<1>1. FullInv' /\ WalkOwesNothing'
  <2>1. CASE [Next]_scanVars
    BY <1>0, <2>1, NextKeepsInv, NextOwesNothing
  <2>2. CASE BuildBegins
    BY <2>2, BuildBeginsKeepsInv
  <2>3. CASE BuildIsCancelled \/ BuildEnds
    <3>1. UNCHANGED scanVars
      BY <2>3 DEF BuildIsCancelled, BuildEnds
    <3> QED BY <1>0, <3>1, NextKeepsInv, NextOwesNothing
  <2> QED BY <2>1, <2>2, <2>3 DEF IndexingNext, BuildStep, indexingVars
<1>2. IInv'
  BY <1>1 DEF IInv, FullInv
<1>3. CASE BuildBegins
  <2>1. /\ result' = "taken" /\ build' \in {"cancelled", "building"} /\ input' = records
        /\ snapshot' = snapshot /\ build = "none"
    BY <1>3 DEF BuildBegins, IndexingInv
  <2>2. input' \in Seq(Seq(Nodes)) /\ \A i \in DOMAIN input' : input'[i] # << >>
    BY <2>1, RecordsAreEntries
  <2> QED BY <1>1, <1>2, <2>1, <2>2 DEF IndexingInv
<1>4. CASE BuildIsCancelled
  BY <1>1, <1>2, <1>4 DEF BuildIsCancelled, IndexingInv, scanVars
<1>5. CASE BuildEnds
  BY <1>1, <1>2, <1>5 DEF BuildEnds, IndexingInv, scanVars
<1>6. CASE [Next]_scanVars /\ UNCHANGED buildVars
  <2>1. result' = "taken" <=> result = "taken"
    <3>1. CASE UNCHANGED scanVars
      BY <3>1 DEF scanVars
    <3>2. CASE Next
      <4>1. result' = result \/ (pc # "returned" /\ result' # "taken")
        BY <3>2, PoolSteps
           DEF Next, Walk, RefuseScan, StartWalk, WalkEntry, StopWalk, EndWalk, WalkThrows, ReturnCancelled,
               ReturnThrown, ReturnOutput, Return, TaskBegins, TaskEnds, TaskRecords, TaskFails, TaskThrows, TaskIsDropped, TaskReturns, Cancel
      <4>2. result = "taken" => pc = "returned"
        BY <1>0 DEF FullInv, ScanInv, PhaseInv
      <4> QED BY <4>1, <4>2
    <3> QED BY <1>6, <3>1, <3>2
  <2> QED BY <1>1, <1>2, <1>6, <2>1 DEF IndexingInv, buildVars
<1> QED BY <1>3, <1>4, <1>5, <1>6 DEF IndexingNext, BuildStep, indexingVars

\* The pipeline keeps its invariant: that of the scan, also when its output has been
\* taken, and what is searched is the index of the entries it recorded.
THEOREM IndexingInvariant == IndexingSpec => []IndexingInv
<1>1. FullIndexingInv => IndexingInv
  BY DEF FullIndexingInv
<1> QED BY <1>1, InitIndexingInv, NextKeepsIndexingInv, PTL DEF IndexingSpec

\* So, in the pipeline too, the scan leaves no task behind and misses nothing.
THEOREM ScanKeepsItsPromises == IndexingSpec => [](TasksDieWithTheScan /\ SuccessIsWhole)
<1>1. FullIndexingInv => TasksDieWithTheScan /\ SuccessIsWhole
  BY InvMeansNoTask, InvMeansWhole DEF FullIndexingInv, IndexingInv, IInv
<1> QED BY <1>1, InitIndexingInv, NextKeepsIndexingInv, PTL DEF IndexingSpec

\* What is searched is the snapshot of its own records.
LEMMA SearchedIsSnapshot ==
  ASSUME FullIndexingInv, build = "built"
  PROVE  /\ snapshot.records \in Seq(Records)
         /\ snapshot = Snapshot(snapshot.records)
<1> DEFINE r == [i \in DOMAIN input |-> FileRecord(input[i])]
<1>1. snapshot = Snapshot(r)
  BY DEF FullIndexingInv, IndexingInv
<1>2. r \in Seq(Records)
  BY RecordsOfEntries DEF FullIndexingInv, IndexingInv
<1> HIDE DEF r
<1>3. Snapshot(r).records = r
  BY <1>2, SnapshotIs
<1> QED BY <1>1, <1>2, <1>3

\* The answers are exact, for any names, queries and limits and any scan: whatever
\* the order of its records, the best of those that answer by tokens or, if none
\* does, of those that have the query in them.
THEOREM AnswersFollowTheDefinition == IndexingSpec => []AnswersAreExact
<1>1. ASSUME FullIndexingInv PROVE AnswersAreExact
  <2> SUFFICES ASSUME build = "built" PROVE AnswersAreExact
    BY DEF AnswersAreExact
  <2> DEFINE all == snapshot.records
             normalized(query) == NormalizeIndexText(TrimAscii(query))
             tokens(query) == Words(normalized(query))
             found(query) == Answers(TokensOf(all), tokens(query))
             substring(query) ==
                {id \in DOMAIN all : HasSubstring(NormalizedRecordName(all[id]), normalized(query))}
             good(query) ==
                {RankedHit(all[id], id, ScoreIndexHit(all[id], normalized(query), tokens(query))) :
                    id \in found(query)}
             hits(query, limit) == Search(snapshot, query, limit).hits
  <2>1. all \in Seq(Records) /\ snapshot = Snapshot(all)
    BY <1>1, SearchedIsSnapshot
  <2> DEFINE has == [id \in DOMAIN all |->
                UNION {Words(text) : text \in {all[id].file_name, all[id].extension, all[id].relative_path}}]
  <2>2. DOMAIN all = 1..Len(all) /\ has = TokensOf(all)
    <3>1. DOMAIN all = 1..Len(all) /\ \A id \in 1..Len(all) : all[id] \in Records
      BY <2>1, LenProperties, ElementOfSeq
    <3>2. \A id \in 1..Len(all) : RecordTokens(all[id]) =
             UNION {Words(text) : text \in {all[id].file_name, all[id].extension, all[id].relative_path}}
      BY <3>1, RecordTokensAreWords
    <3> QED BY <3>1, <3>2 DEF TokensOf
  <2>3. ASSUME NEW query \in Queries, Len(query) <= MaxQueryBytes, tokens(query) # {},
               NEW limit \in Limits
        PROVE  IF found(query) # {} THEN IsTopOf(hits(query, limit), good(query), ClampLimit(limit))
               ELSE \E some \in SUBSET substring(query) :
                       /\ Cardinality(some) = Min({MaxLimit, Cardinality(substring(query))})
                       /\ IsTopOf(hits(query, limit), {RankedHit(all[id], id, 30) : id \in some},
                                  ClampLimit(limit))
    <3>1. query \in Text /\ limit \in Nat
      BY TextAssumption
    <3>2. tokens(query) = ToSet(Tokenize(normalized(query))) /\ Tokenize(normalized(query)) # << >>
      <4>1. normalized(query) \in Text
        BY <3>1, TrimmedIs, NormalizedIs
      <4>2. ToSet(<< >>) = {}
        BY DEF ToSet
      <4> QED BY <2>3, <4>1, <4>2, TokensAreWords
    <3> DEFINE part == {id \in 1..Len(all) : HasSubstring(NormalizedRecordName(all[id]), normalized(query))}
    <3>3. IF found(query) # {}
          THEN IsTopOf(Search(Snapshot(all), query, limit).hits,
                       Ranked(all, found(query), normalized(query), tokens(query)), ClampLimit(limit))
          ELSE \E some \in SUBSET part :
                  /\ Cardinality(some) = Min({MaxLimit, Cardinality(part)})
                  /\ IsTopOf(Search(Snapshot(all), query, limit).hits,
                             {RankedHit(all[id], id, 30) : id \in some}, ClampLimit(limit))
      BY <2>1, <2>3, <3>1, <3>2, SearchIsExact
    <3> QED BY <2>1, <2>2, <3>3 DEF Ranked
  <2> QED BY <2>2, <2>3 DEF AnswersAreExact
<1> QED BY <1>1, InitIndexingInv, NextKeepsIndexingInv, PTL DEF IndexingSpec

\* A file that was recorded is found under its own name, before all that is not
\* called so, for any names and any number of files.
THEOREM NamesAreFound == IndexingSpec => []NameIsFoundFirst
<1>1. ASSUME FullIndexingInv PROVE NameIsFoundFirst
  <2> DEFINE all == snapshot.records
             namesakes(name) == {id \in DOMAIN all :
                NormalizeIndexText(all[id].file_name) = NormalizeIndexText(name)}
             hits(name) == Search(snapshot, name, 0).hits
  <2> SUFFICES ASSUME build = "built", NEW r \in ToSet(all),
                      TrimAscii(r.file_name) = r.file_name, Len(r.file_name) <= MaxQueryBytes,
                      Tokenize(r.file_name) # << >>
               PROVE  /\ Len(hits(r.file_name)) >= Min({MaxLimit, Cardinality(namesakes(r.file_name))})
                      /\ \A i \in 1..Min({Len(hits(r.file_name)), Cardinality(namesakes(r.file_name))}) :
                            hits(r.file_name)[i].id \in namesakes(r.file_name)
    BY DEF NameIsFoundFirst
  <2>1. all \in Seq(Records) /\ snapshot = Snapshot(all)
    BY <1>1, SearchedIsSnapshot
  <2>2. DOMAIN all = 1..Len(all)
    BY <2>1, LenProperties
  <2>3. PICK k \in 1..Len(all) : all[k] = r
    BY <2>2 DEF ToSet
  <2>4. r.file_name \in Text
    <3>1. r \in Records
      BY <2>1, <2>3, ElementOfSeq
    <3> QED BY <3>1 DEF Records
  <2> DEFINE same == {id \in 1..Len(all) :
                NormalizeIndexText(all[id].file_name) = NormalizeIndexText(r.file_name)}
  <2>5. /\ Len(Search(Snapshot(all), r.file_name, 0).hits) >= Min({MaxLimit, Cardinality(same)})
        /\ \A i \in 1..Min({Len(Search(Snapshot(all), r.file_name, 0).hits), Cardinality(same)}) :
              Search(Snapshot(all), r.file_name, 0).hits[i].id \in same
    BY <2>1, <2>3, <2>4, SearchFindsName
  <2> QED BY <2>1, <2>2, <2>5
<1> QED BY <1>1, InitIndexingInv, NextKeepsIndexingInv, PTL DEF IndexingSpec
=============================================================================
