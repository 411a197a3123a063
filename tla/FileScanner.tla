----------------------------- MODULE FileScanner -----------------------------
(***************************************************************************)
(* FileScanner::scan: one thread walks the tree with a recursive iterator  *)
(* and submits a task for every entry it does not skip; the workers of a   *)
(* ThreadPool of its own, here the Executor it implements, make the        *)
(* records.                                                                *)
(*                                                                         *)
(* The tree has directories, links (which have a target) and files.  An    *)
(* entry is the path it is found by, a sequence of nodes from the root,    *)
(* which with links is not the only path to it.  A directory that may not  *)
(* be opened (denied) is passed over, as skip_permission_denied asks, and  *)
(* so is the root; any other error of the iterator makes it an end         *)
(* iterator.                                                               *)
(***************************************************************************)
EXTENDS Naturals, Sequences, FiniteSets, Functions

CONSTANTS Dirs, Links, Files,
          Root,
          Contents,      \* what each directory contains
          Target,        \* what each link leads to
          DotHidden,     \* the nodes whose name begins with a dot
          WorkerCount,
          MaxFailures    \* bound: failures of the tasks, the iterator and the walking thread

Nodes == Dirs \cup Links \cup Files

ASSUME TreeAssumption ==
    /\ Dirs \cap Links = {} /\ Dirs \cap Files = {} /\ Links \cap Files = {}
    /\ Root \in Dirs
    /\ Contents \in [Dirs -> SUBSET Nodes]
    /\ \A d, e \in Dirs : Contents[d] \cap Contents[e] # {} => d = e
    /\ \A d \in Dirs : Root \notin Contents[d]
    /\ Target \in [Links -> Dirs \cup Files]
    /\ DotHidden \subseteq Nodes

ASSUME BoundAssumption == WorkerCount \in Nat \ {0} /\ MaxFailures \in Nat

VARIABLES
    options,      \* follow_directory_symlinks and include_dot_hidden
    denied,       \* the directories that may not be opened
    cancelled,    \* what the token says
    pc, result,   \* of the walking thread; "taken" is an ok whose output was moved on
    stack,        \* the directories the iterator is in, and what they have left
    visited,      \* visited_directories
    stats,
    records,      \* output.records, in the order they were pushed
    outcome,      \* what each task that has come past its first check does
    accepted, begun, finished, refused, closed    \* pool

envVars == <<options, denied>>
walkVars == <<stack, visited>>
poolVars == <<accepted, begun, finished, refused, closed>>
scanVars == <<envVars, cancelled, pc, result, walkVars, stats, records, outcome, poolVars>>

Pool == INSTANCE Executor WITH Tasks <- Seq(Nodes), Parallelism <- WorkerCount

Stats == [discovered : Nat, processed : Nat, skipped : Nat, failed : Nat]

TypeOK ==
    /\ options \in [follow : BOOLEAN, hidden : BOOLEAN]
    /\ denied \subseteq Dirs
    /\ cancelled \in BOOLEAN
    /\ pc \in {"starting", "walking", "waiting", "stopping", "unwinding", "returned"}
    /\ result \in {"none", "ok", "cancelled", "failed", "taken"}
    /\ stack \in Seq([path : Seq(Nodes), rest : SUBSET Nodes])
    /\ visited \subseteq Dirs
    /\ stats \in Stats
    /\ records \in Seq(Seq(Nodes))
    /\ accepted \in Seq(Seq(Nodes))
    /\ begun \in 0..Len(accepted)
    /\ finished \subseteq Range(accepted)
    /\ refused = {}
    /\ closed \in BOOLEAN
    /\ outcome \in [DOMAIN outcome -> {"recorded", "failed", "thrown", "dropped"}]

Init ==
    /\ options \in [follow : BOOLEAN, hidden : BOOLEAN]
    /\ denied \in SUBSET Dirs
    /\ cancelled = FALSE
    /\ pc = "starting" /\ result = "none"
    /\ stack = << >> /\ visited = {}
    /\ stats = [discovered |-> 0, processed |-> 0, skipped |-> 0, failed |-> 0]
    /\ records = << >>
    /\ outcome = << >>
    /\ Pool!Init

-----------------------------------------------------------------------------
\* Entries.

\* directory_identity: the canonical path of a directory is the same by all paths.
Identity(n) == IF n \in Links THEN Target[n] ELSE n

\* it->is_directory(), which looks through links.
IsDirectory(n) == Identity(n) \in Dirs

\* Where the path of an entry leads.
Leads(path) == IF path = << >> THEN Root ELSE Identity(path[Len(path)])

\* is_dot_hidden, and the option.
Skipped(n) == n \in DotHidden /\ ~options.hidden

\* Whether increment goes into the entry: is it a directory for it, and has
\* disable_recursion_pending not been called?
Recurses(n) ==
    /\ IF options.follow THEN IsDirectory(n) /\ Identity(n) \notin visited ELSE n \in Dirs
    /\ ~Skipped(n)
    /\ Identity(n) \notin denied

\* The iterator has left the directories that have nothing left.
Settled(dirs) ==
    SubSeq(dirs, 1, Cardinality({d \in 1..Len(dirs) : \E e \in d..Len(dirs) : dirs[e].rest # {}}))

Count(counter, n) == [stats EXCEPT ![counter] = @ + n]

\* A bound only.
MayFail ==
    /\ pc # "unwinding"
    /\ stats.failed + Cardinality({t \in DOMAIN outcome : outcome[t] = "thrown"}) < MaxFailures

-----------------------------------------------------------------------------
\* The walking thread.

Return(r) ==
    /\ pc' = "returned"
    /\ result' = r

RefuseScan ==
    /\ pc = "starting"
    /\ Return(IF cancelled THEN "cancelled" ELSE "failed")
    /\ UNCHANGED <<envVars, cancelled, walkVars, stats, records, outcome, poolVars>>

\* The root can be looked at; the iterator of a denied root is an end iterator.
StartWalk ==
    /\ pc = "starting"
    /\ ~cancelled
    /\ pc' = "walking"
    /\ visited' = IF options.follow THEN {Root} ELSE {}
    /\ stack' = IF Root \in denied THEN << >> ELSE Settled(<<[path |-> << >>, rest |-> Contents[Root]]>>)
    /\ UNCHANGED <<envVars, cancelled, result, stats, records, outcome, poolVars>>

Top == stack[Len(stack)]

\* The iterator goes on from entry n of the top directory, into it or past it.
Advance(n, into) ==
    LET here == [stack EXCEPT ![Len(stack)].rest = @ \ {n}]
        inside == [path |-> Append(Top.path, n), rest |-> Contents[Identity(n)]]
    IN  stack' = Settled(IF into THEN Append(here, inside) ELSE here)

\* What may go wrong with an entry: its identity cannot be told, which is asked
\* for when links are followed, or increment fails.
MayGoWrong(errors) ==
    /\ "identity" \in errors => options.follow
    /\ errors # {} => MayFail

\* Mutant: the directories that were gone into are not remembered.
WalkForgets(n, errors) ==
    /\ pc = "walking" /\ ~cancelled
    /\ stack # << >> /\ n \in Top.rest
    /\ MayGoWrong(errors)
    /\ IF "increment" \in errors THEN stack' = << >>
       ELSE Advance(n, "identity" \notin errors /\ Recurses(n))
    /\ stats' = [Count(IF Skipped(n) THEN "skipped" ELSE "discovered", 1)
                    EXCEPT !.failed = @ + Cardinality(errors)]
    /\ IF Skipped(n) THEN UNCHANGED poolVars ELSE Pool!Accept(Append(Top.path, n))
    /\ UNCHANGED <<envVars, cancelled, pc, result, visited, records, outcome>>

\* One round of the loop: the next entry, in whatever order the directory has
\* them, is marked, skipped or submitted, and the iterator goes on.  A hidden
\* directory is marked as visited though it is skipped.  After an error increment
\* is at the end, and the rest of the tree is not walked.  The task is not refused:
\* nothing closes the pool while the walk goes on.
WalkEntry(n, errors) ==
    /\ pc = "walking" /\ ~cancelled
    /\ stack # << >> /\ n \in Top.rest
    /\ MayGoWrong(errors)
    /\ visited' = IF options.follow /\ "identity" \notin errors /\ IsDirectory(n)
                  THEN visited \cup {Identity(n)} ELSE visited
    /\ IF "increment" \in errors THEN stack' = << >>
       ELSE Advance(n, "identity" \notin errors /\ Recurses(n))
    /\ stats' = [Count(IF Skipped(n) THEN "skipped" ELSE "discovered", 1)
                    EXCEPT !.failed = @ + Cardinality(errors)]
    /\ IF Skipped(n) THEN UNCHANGED poolVars ELSE Pool!Accept(Append(Top.path, n))
    /\ UNCHANGED <<envVars, cancelled, pc, result, records, outcome>>

\* Mutant: the scan is cancelled without waiting for its tasks.
AbandonWalk ==
    /\ pc = "walking"
    /\ stack # << >> /\ cancelled
    /\ Return("cancelled")
    /\ UNCHANGED <<envVars, cancelled, walkVars, stats, records, outcome, poolVars>>

\* The loop finds the token cancelled: pool.shutdown().
StopWalk ==
    /\ pc = "walking"
    /\ stack # << >> /\ cancelled
    /\ pc' = "stopping"
    /\ Pool!Close
    /\ UNCHANGED <<envVars, cancelled, result, walkVars, stats, records, outcome>>

EndWalk ==
    /\ pc = "walking"
    /\ stack = << >>
    /\ pc' = "waiting"
    /\ UNCHANGED <<envVars, cancelled, result, walkVars, stats, records, outcome, poolVars>>

\* The walking thread throws (there is no memory, or progress does): the pool is
\* destroyed, and so closed and drained, before the output and the mutexes its tasks use.
\* What a round did before it threw is in locals that nobody reads any more.
WalkThrows ==
    /\ pc \in {"starting", "walking", "waiting"}
    /\ MayFail
    /\ pc' = "unwinding"
    /\ Pool!Close
    /\ UNCHANGED <<envVars, cancelled, result, walkVars, stats, records, outcome>>

\* What wait_idle and shutdown wait for.
PoolIsIdle == begun = Len(accepted) /\ Pool!Running = {}

ReturnCancelled ==
    /\ pc = "stopping"
    /\ PoolIsIdle
    /\ Return("cancelled")
    /\ UNCHANGED <<envVars, cancelled, walkVars, stats, records, outcome, poolVars>>

\* run_scan catches what scan throws.
ReturnThrown ==
    /\ pc = "unwinding"
    /\ PoolIsIdle
    /\ Return("failed")
    /\ UNCHANGED <<envVars, cancelled, walkVars, stats, records, outcome, poolVars>>

\* Mutant: the token is not looked at again.
ReturnWhatThereIs ==
    /\ pc = "waiting"
    /\ PoolIsIdle
    /\ Return("ok")
    /\ UNCHANGED <<envVars, cancelled, walkVars, stats, records, outcome, poolVars>>

\* Mutant: the scan waits until as many records are made as entries were found.
ReturnWhenAllProcessed ==
    /\ pc = "waiting"
    /\ stats.processed = stats.discovered
    /\ Return(IF cancelled THEN "cancelled" ELSE "ok")
    /\ UNCHANGED <<envVars, cancelled, walkVars, stats, records, outcome, poolVars>>

ReturnOutput ==
    /\ pc = "waiting"
    /\ PoolIsIdle
    /\ Return(IF cancelled THEN "cancelled" ELSE "ok")
    /\ UNCHANGED <<envVars, cancelled, walkVars, stats, records, outcome, poolVars>>

-----------------------------------------------------------------------------
\* The tasks.

\* A worker takes the next task, which looks at the token first.
TaskBegins ==
    /\ Pool!Begin
    /\ LET task == accepted[begun + 1]
       IN  outcome' = IF cancelled
                      THEN [t \in DOMAIN outcome \cup {task} |-> IF t = task THEN "dropped" ELSE outcome[t]]
                      ELSE outcome
    /\ UNCHANGED <<envVars, cancelled, pc, result, walkVars, stats, records>>

TaskReturns(task) ==
    /\ task \in Pool!Running
    /\ finished' = finished \cup {task}
    /\ UNCHANGED <<accepted, begun, refused, closed>>
    /\ UNCHANGED <<envVars, cancelled, pc, result, walkVars>>

EndsWith(task, what) ==
    /\ task \notin DOMAIN outcome
    /\ outcome' = [t \in DOMAIN outcome \cup {task} |-> IF t = task THEN what ELSE outcome[t]]

\* The metadata are read and the record is pushed and counted under output_mutex.
TaskRecords(task) ==
    /\ TaskReturns(task)
    /\ EndsWith(task, "recorded")
    /\ records' = Append(records, task)
    /\ stats' = Count("processed", 1)

\* The metadata cannot be read.
TaskFails(task) ==
    /\ MayFail
    /\ TaskReturns(task)
    /\ EndsWith(task, "failed")
    /\ stats' = Count("failed", 1)
    /\ UNCHANGED records

\* It throws (there is no memory for a path), which the pool swallows.
TaskThrows(task) ==
    /\ MayFail
    /\ TaskReturns(task)
    /\ EndsWith(task, "thrown")
    /\ UNCHANGED <<records, stats>>

TaskIsDropped(task) ==
    /\ TaskReturns(task)
    /\ task \in DOMAIN outcome
    /\ UNCHANGED <<records, stats, outcome>>

TaskEnds == \E t \in Pool!Running : TaskRecords(t) \/ TaskFails(t) \/ TaskThrows(t) \/ TaskIsDropped(t)

\* cancel_scan, at any time.
Cancel ==
    /\ ~cancelled
    /\ cancelled' = TRUE
    /\ UNCHANGED <<envVars, pc, result, walkVars, stats, records, outcome, poolVars>>

-----------------------------------------------------------------------------

Walk ==
    \/ RefuseScan \/ StartWalk
    \/ \E n \in Nodes, errors \in SUBSET {"identity", "increment"} : WalkEntry(n, errors)
    \/ StopWalk \/ EndWalk \/ WalkThrows
    \/ ReturnCancelled \/ ReturnThrown \/ ReturnOutput

Next == Walk \/ TaskBegins \/ TaskEnds \/ Cancel

Spec == Init /\ [][Next]_scanVars

\* The walking thread and the workers are threads, and the tree is finite.
FairSpec == Spec /\ WF_scanVars(Walk) /\ WF_scanVars(TaskBegins) /\ WF_scanVars(TaskEnds)

-----------------------------------------------------------------------------
\* Properties.

\* The tasks that came to an end, or see that they must, by how they do.
Tasks(what) == {t \in DOMAIN outcome : outcome[t] = what}

\* What is counted is what was done.  failed counts what the walk met too, even for
\* an entry that is recorded; a task that throws, or is dropped, is not counted.
CountsAreTrue ==
    /\ stats.discovered = Len(accepted)
    /\ stats.processed = Len(records)
    /\ Range(records) = Tasks("recorded")
    /\ Cardinality(Tasks("recorded")) = Len(records)
    /\ Cardinality(Tasks("failed")) <= stats.failed
    /\ finished \subseteq DOMAIN outcome
    /\ DOMAIN outcome \subseteq finished \cup Tasks("dropped")

\* Before its checks the scan has done nothing, of a cancelled scan only is a task
\* dropped, and the walk is over when the tasks are waited for.
PhaseInv ==
    /\ pc = "starting" => stack = << >> /\ accepted = << >> /\ ~closed
    /\ result # "none" <=> pc = "returned"
    /\ closed => pc \in {"stopping", "unwinding", "returned"} /\ result # "ok"
    /\ pc = "stopping" => cancelled
    /\ Tasks("dropped") # {} => cancelled
    /\ result = "ok" => Tasks("dropped") = {}
    /\ pc = "waiting" \/ result = "ok" => stack = << >>

\* When scan returns none of its tasks is left, which capture its locals by
\* reference: not even one that was queued when the scan was cancelled (scan,
\* lines 163-166 and 288; ThreadPool's promise).
TasksDieWithTheScan ==
    pc = "returned" => Len(accepted) = begun /\ Range(accepted) = finished

\* The paths of the directories that are listed or were: those the iterator is in,
\* and those that entries come from.
Up(path) == SubSeq(path, 1, Len(path) - 1)
Listed == {stack[d].path : d \in 1..Len(stack)} \cup {Up(accepted[i]) : i \in 1..Len(accepted)}

\* A directory is listed by one path only, though links lead to it by many, to
\* itself and to what it is in (visited_directories).
DirectoriesListedOnce == \A p, q \in Listed : Leads(p) = Leads(q) => p = q

\* What that rests on: a listed directory is the root or was itself an entry, which
\* is marked if links are followed and else found by its one real path.
WalkInv ==
    /\ \A d \in 1..Len(stack) : stack[d].rest \subseteq Contents[Leads(stack[d].path)]
    /\ \A i \in 1..Len(accepted) :
          accepted[i] # << >> /\ accepted[i][Len(accepted[i])] \in Contents[Leads(Up(accepted[i]))]
    /\ \A p \in Listed :
          /\ p # << >> => p \in Range(accepted)
          /\ Leads(p) \in Dirs
          /\ options.follow => Leads(p) \in visited
          /\ ~options.follow => \A i \in 1..Len(p) : p[i] \in Dirs

\* A task is one path, and what has an end has begun.
PoolInv ==
    /\ \A i, j \in 1..Len(accepted) : accepted[i] = accepted[j] => i = j
    /\ finished \cup DOMAIN outcome \subseteq {accepted[i] : i \in 1..begun}
    /\ pc = "returned" => PoolIsIdle

\* The directories the walk must come to: by names that are not hidden, through
\* links if they are followed, and not through what is denied.  A directory that
\* has a hidden name as well is not one of them: which of its names comes first,
\* and so whether it is gone into, is up to the order of the directory that has it.
Names(d) == {n \in Dirs \cup Links : Identity(n) = d}

Within(reach) ==
    reach \cup {Identity(n) : n \in {m \in UNION {Contents[d] : d \in reach} :
        /\ IF options.follow THEN IsDirectory(m) ELSE m \in Dirs
        /\ IF options.follow THEN \A k \in Names(Identity(m)) : ~Skipped(k) ELSE ~Skipped(m)
        /\ Identity(m) \notin denied}}

\* The least set that has the root and what is within it.
Reach ==
    {d \in Dirs : \A S \in SUBSET Dirs : Root \in S /\ Within(S) \subseteq S => d \in S}

\* A scan that is reported ok with no failure has made of every entry it must come
\* to one record, but for those whose task threw, and then fewer are processed than
\* discovered; none is missing because of a cancellation that came at the end
\* (line 290), of a link, or of the order of the directories.  It is promised of a
\* root that may be opened only (InaccessibleRootFails).
SuccessIsWhole ==
    result = "ok" /\ stats.failed = 0 =>
        /\ Root \notin denied => \A d \in Reach : \A n \in Contents[d] :
              ~Skipped(n) => \E t \in DOMAIN outcome :
                  /\ t[Len(t)] = n /\ Leads(SubSeq(t, 1, Len(t) - 1)) = d
                  /\ outcome[t] \in {"recorded", "thrown"}
        /\ stats.processed = stats.discovered <=> Tasks("thrown") = {}

\* The specification of CoreDesk has the whole scan fail if its root cannot be
\* accessed (10.2), which is also what scan does with an error of the iterator's
\* constructor (lines 157-160).
InaccessibleRootFails == Root \in denied => result \notin {"ok", "taken"}

\* No record is of an entry that the options leave out: hidden, below a hidden
\* directory, or behind a link that is not followed.
OnlyWhatIsAskedFor ==
    \A t \in Range(accepted) :
        /\ \A i \in 1..Len(t) : ~Skipped(t[i])
        /\ ~options.follow => \A i \in 1..Len(t) - 1 : t[i] \in Dirs

\* Every entry of d is submitted already or the iterator still has it.
Covered(d) ==
    \A m \in Contents[d] : ~Skipped(m) =>
        \/ \E i \in 1..Len(accepted) :
              accepted[i][Len(accepted[i])] = m /\ Leads(Up(accepted[i])) = d
        \/ \E k \in 1..Len(stack) : Leads(stack[k].path) = d /\ m \in stack[k].rest

\* While nothing has failed the walk owes nothing: the root is covered, and so is
\* each directory by which it has come, if links are not followed, and each it has
\* marked, if they are, except one that a hidden name may have been the first to mark.
WalkOwesNothing ==
    (pc \in {"walking", "stopping", "waiting"} \/ result = "ok") /\ stats.failed = 0 =>
        /\ Root \notin denied => Covered(Root)
        /\ \A i \in 1..Len(accepted) :
              LET n == accepted[i][Len(accepted[i])]
              IN  IF options.follow THEN IsDirectory(n) => Identity(n) \in visited
                  ELSE n \in Dirs \ denied => Covered(n)
        /\ options.follow => \A d \in visited \ denied : (\A n \in Names(d) : ~Skipped(n)) => Covered(d)

ScanInv ==
    /\ TypeOK
    /\ CountsAreTrue
    /\ PhaseInv
    /\ OnlyWhatIsAskedFor
    /\ DirectoriesListedOnce
    /\ WalkInv
    /\ PoolInv

IInv == ScanInv /\ WalkOwesNothing

\* scan returns, though links make circles, tasks fail, throw or are dropped, and
\* whenever the token is cancelled.
ScanReturns == <>(pc = "returned")
=============================================================================
