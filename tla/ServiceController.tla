-------------------------- MODULE ServiceController --------------------------
(***************************************************************************)
(* The scan lifecycle, snapshot installation and search access of          *)
(* src/service/ServiceController.cpp, with the search path of              *)
(* src/index/SearchEngine.cpp and its LRU cache.                           *)
(*                                                                         *)
(* Three kinds of thread meet in it:                                       *)
(*   - the event thread calls start_scan, cancel_scan and shutdown;        *)
(*   - the scan thread (scan_thread_) scans, builds, installs and reports; *)
(*   - the workers of the IPC server's search pool call search.            *)
(* A step is what one thread does between two points where another thread  *)
(* can see or disturb it: one critical section of state_mutex_,            *)
(* snapshot_mutex_ or the cache mutex, one join, one token check.          *)
(*                                                                         *)
(* Scans are numbered in the order they are admitted; a scan's number      *)
(* stands for its CancellationSource and for the files it found, so a      *)
(* snapshot is [generation, content] with content the scan it came from.   *)
(***************************************************************************)
EXTENDS Naturals, Sequences, LruCache

CONSTANTS Workers,        \* threads of the search pool
          Queries,        \* cache keys: a normalized query with its limit
          CacheCapacity,  \* capacity of the search cache
          MaxScans,       \* bound on the scans admitted in a behaviour
          None            \* a null snapshot pointer, or no reply

ASSUME CacheCapacityAssumption == CacheCapacity \in Nat \ {0}
ASSUME MaxScansAssumption == MaxScans \in Nat
ASSUME NoneAssumption == /\ None \notin [generation : Nat, content : Nat]
                         /\ None \notin Queries

VARIABLES
    fate,               \* "running", or how the process died
    event,              \* where the event thread is
    state,              \* state_
    shutdown_requested, \* shutdown_requested_
    active,             \* the scan whose source active_scan_cancel_ holds
    cancelled,          \* the scans whose cancellation flag is set
    scan_thread,        \* the scan whose thread scan_thread_ holds, 0 if none
    scan_pc,            \* where that thread is
    scan_error,         \* the error its failure path will report
    has_snapshot,       \* its has_snapshot in finish_scan_state
    built,              \* its build_result
    current_snapshot,   \* current_snapshot_
    next_generation,    \* next_generation_
    cache,              \* search_engine_.cache_
    search,             \* the search each worker is running
    reply,              \* what each worker's last search returned
    reported            \* what complete_scan has told about each scan

eventVars == <<event, active, scan_thread>>
scanVars == <<scan_pc, scan_error, has_snapshot, built>>
indexVars == <<current_snapshot, next_generation>>
searchVars == <<search, reply>>
vars == <<fate, eventVars, state, shutdown_requested, cancelled, scanVars,
          indexVars, cache, searchVars, reported>>

Scans == 1..MaxScans
Snapshot == [generation : Nat, content : Nat]

\* What computing query q over a snapshot yields, by where it came from.
HitsOf(snapshot, q) == [content |-> snapshot.content, query |-> q]
Hits == [content : Nat, query : Queries]

IdleSearch == [pc |-> "idle", query |-> None, snapshot |-> None, stale |-> FALSE]

Init ==
    /\ fate = "running"
    /\ event = "idle"
    /\ state = "NoIndex"
    /\ shutdown_requested = FALSE
    /\ active = 0
    /\ cancelled = {}
    /\ scan_thread = 0
    /\ scan_pc = "none"
    /\ scan_error = "none"
    /\ has_snapshot = FALSE
    /\ built = None
    /\ current_snapshot = None
    /\ next_generation = 1
    /\ cache = AfterClear
    /\ search = [w \in Workers |-> IdleSearch]
    /\ reply = [w \in Workers |-> None]
    /\ reported = [n \in Scans |-> << >>]

-----------------------------------------------------------------------------
(* The event thread: start_scan.                                           *)

\* join_finished_scan decides whether to join under state_mutex_.
StartScan ==
    /\ event = "idle"
    /\ active < MaxScans
    /\ event' = IF scan_thread # 0 /\ state # "Scanning" THEN "join" ELSE "admit"
    /\ UNCHANGED <<fate, active, scan_thread, state, shutdown_requested, cancelled,
                   scanVars, indexVars, cache, searchVars, reported>>

JoinFinishedScan ==
    /\ event = "join"
    /\ scan_pc = "exited"
    /\ scan_thread' = 0
    /\ scan_pc' = "none"
    /\ event' = "admit"
    /\ UNCHANGED <<fate, active, state, shutdown_requested, cancelled, scan_error,
                   has_snapshot, built, indexVars, cache, searchVars, reported>>

RefuseScan ==
    /\ event = "admit"
    /\ shutdown_requested \/ state = "Scanning"
    /\ event' = "idle"
    /\ UNCHANGED <<fate, active, scan_thread, state, shutdown_requested, cancelled,
                   scanVars, indexVars, cache, searchVars, reported>>

AdmitScan ==
    /\ event = "admit"
    /\ ~shutdown_requested
    /\ state # "Scanning"
    /\ state' = "Scanning"
    /\ active' = active + 1
    /\ event' = "launch"
    /\ UNCHANGED <<fate, scan_thread, shutdown_requested, cancelled,
                   scanVars, indexVars, cache, searchVars, reported>>

\* scan_thread_ = std::thread(...): a joinable target calls std::terminate.
LaunchScan ==
    /\ event = "launch"
    /\ IF scan_thread = 0
       THEN /\ scan_thread' = active
            /\ scan_pc' = "scanning"
            /\ event' = "idle"
            /\ UNCHANGED fate
       ELSE /\ fate' = "terminated"
            /\ UNCHANGED <<scan_thread, scan_pc, event>>
    /\ UNCHANGED <<active, state, shutdown_requested, cancelled, scan_error,
                   has_snapshot, built, indexVars, cache, searchVars, reported>>

\* The std::thread constructor throws; nothing up to the event loop catches.
LaunchThrows ==
    /\ event = "launch"
    /\ fate' = "uncaught_exception"
    /\ UNCHANGED <<eventVars, state, shutdown_requested, cancelled,
                   scanVars, indexVars, cache, searchVars, reported>>

(* The event thread: cancel_scan and shutdown.                             *)

CancelScan ==
    /\ event = "idle"
    /\ state = "Scanning"
    /\ cancelled' = cancelled \cup {active}
    /\ UNCHANGED <<fate, eventVars, state, shutdown_requested,
                   scanVars, indexVars, cache, searchVars, reported>>

Shutdown ==
    /\ event = "idle"
    /\ ~shutdown_requested
    /\ shutdown_requested' = TRUE
    /\ event' = IF state = "Scanning" THEN "shutdown_cancel" ELSE "shutdown_join"
    /\ UNCHANGED <<fate, active, scan_thread, state, cancelled,
                   scanVars, indexVars, cache, searchVars, reported>>

ShutdownCancel ==
    /\ event = "shutdown_cancel"
    /\ cancelled' = cancelled \cup {active}
    /\ event' = "shutdown_join"
    /\ UNCHANGED <<fate, active, scan_thread, state, shutdown_requested,
                   scanVars, indexVars, cache, searchVars, reported>>

\* Mutant: joins only a scan it found still running.
ShutdownJoinIfScanning ==
    /\ event = "shutdown_join"
    /\ IF state = "Scanning"
       THEN /\ scan_thread # 0 => scan_pc = "exited"
            /\ scan_thread' = 0
            /\ scan_pc' = "none"
       ELSE UNCHANGED <<scan_thread, scan_pc>>
    /\ event' = "shutdown_settle"
    /\ UNCHANGED <<fate, active, state, shutdown_requested, cancelled, scan_error,
                   has_snapshot, built, indexVars, cache, searchVars, reported>>

\* Mutant: waits for the scan thread to leave Scanning, which it does not do
\* once shutdown is requested.
ShutdownJoinAwaitsState ==
    /\ event = "shutdown_join"
    /\ scan_thread # 0 => scan_pc = "exited" /\ state # "Scanning"
    /\ scan_thread' = 0
    /\ scan_pc' = "none"
    /\ event' = "shutdown_settle"
    /\ UNCHANGED <<fate, active, state, shutdown_requested, cancelled, scan_error,
                   has_snapshot, built, indexVars, cache, searchVars, reported>>

ShutdownJoin ==
    /\ event = "shutdown_join"
    /\ scan_thread # 0 => scan_pc = "exited"
    /\ scan_thread' = 0
    /\ scan_pc' = "none"
    /\ event' = "shutdown_settle"
    /\ UNCHANGED <<fate, active, state, shutdown_requested, cancelled, scan_error,
                   has_snapshot, built, indexVars, cache, searchVars, reported>>

\* Reads current_snapshot_ and sets state_ in two critical sections; the scan
\* thread is joined, so nothing can come between them.
ShutdownSettle ==
    /\ event = "shutdown_settle"
    /\ state' = IF current_snapshot # None THEN "Ready" ELSE "NoIndex"
    /\ event' = "idle"
    /\ UNCHANGED <<fate, active, scan_thread, shutdown_requested, cancelled,
                   scanVars, indexVars, cache, searchVars, reported>>

-----------------------------------------------------------------------------
(* The scan thread.  The token it checks is that of its own scan.          *)

\* Mutant: drops the old index first, to save memory while it builds.
ScanSucceedsDropsIndex ==
    /\ scan_pc = "scanning"
    /\ scan_thread \notin cancelled
    /\ scan_pc' = "building"
    /\ current_snapshot' = None
    /\ UNCHANGED <<fate, eventVars, state, shutdown_requested, cancelled, scan_error,
                   has_snapshot, built, next_generation, cache, searchVars, reported>>

ScanSucceeds ==
    /\ scan_pc = "scanning"
    /\ scan_thread \notin cancelled
    /\ scan_pc' = "building"
    /\ UNCHANGED <<fate, eventVars, state, shutdown_requested, cancelled, scan_error,
                   has_snapshot, built, indexVars, cache, searchVars, reported>>

\* Mutant: checks the token once more after the installation.
ObserveCancelLate ==
    /\ scan_pc \in {"scanning", "building", "installed"}
    /\ scan_thread \in cancelled
    /\ scan_pc' = "failing"
    /\ scan_error' = "Cancelled"
    /\ UNCHANGED <<fate, eventVars, state, shutdown_requested, cancelled,
                   has_snapshot, built, indexVars, cache, searchVars, reported>>

\* scan or build saw the token cancelled.
ObserveCancel ==
    /\ scan_pc \in {"scanning", "building"}
    /\ scan_thread \in cancelled
    /\ scan_pc' = "failing"
    /\ scan_error' = "Cancelled"
    /\ UNCHANGED <<fate, eventVars, state, shutdown_requested, cancelled,
                   has_snapshot, built, indexVars, cache, searchVars, reported>>

\* scan returned another error, or something in the try block threw: the
\* progress callback, an allocation, or the logging of an error or after the
\* installation.
ScanFails ==
    /\ scan_pc \in {"scanning", "building", "logging", "failing"}
    /\ scan_pc' = "failing"
    /\ scan_error' = "InternalError"
    /\ UNCHANGED <<fate, eventVars, state, shutdown_requested, cancelled,
                   has_snapshot, built, indexVars, cache, searchVars, reported>>

BuildIndex ==
    /\ scan_pc = "building"
    /\ scan_thread \notin cancelled
    /\ built' = [generation |-> next_generation, content |-> scan_thread]
    /\ scan_pc' = "built"
    /\ UNCHANGED <<fate, eventVars, state, shutdown_requested, cancelled, scan_error,
                   has_snapshot, indexVars, cache, searchVars, reported>>

\* Mutant: installs without taking up the generation.
InstallKeepsGeneration ==
    /\ scan_pc = "built"
    /\ current_snapshot' = built
    /\ built' = None
    /\ scan_pc' = "installed"
    /\ UNCHANGED <<fate, eventVars, state, shutdown_requested, cancelled, scan_error,
                   has_snapshot, next_generation, cache, searchVars, reported>>

Install ==
    /\ scan_pc = "built"
    /\ current_snapshot' = built
    /\ next_generation' = built.generation + 1
    /\ built' = None
    /\ scan_pc' = "installed"
    /\ UNCHANGED <<fate, eventVars, state, shutdown_requested, cancelled, scan_error,
                   has_snapshot, cache, searchVars, reported>>

ClearCache ==
    /\ scan_pc = "installed"
    /\ cache' = AfterClear
    /\ scan_pc' = "cleared"
    /\ UNCHANGED <<fate, eventVars, state, shutdown_requested, cancelled, scan_error,
                   has_snapshot, built, indexVars, searchVars, reported>>

\* What finish_scan_state leaves in state_ once it knows of a snapshot or not.
FinishedState(has) ==
    IF shutdown_requested THEN state ELSE IF has THEN "Ready" ELSE "NoIndex"

FinishInstalled ==
    /\ scan_pc = "cleared"
    /\ state' = FinishedState(TRUE)
    /\ scan_pc' = "logging"
    /\ UNCHANGED <<fate, eventVars, shutdown_requested, cancelled, scan_error,
                   has_snapshot, built, indexVars, cache, searchVars, reported>>

\* Mutant: takes a failed scan to mean that there is no index.
FinishFailedForgetsIndex ==
    /\ scan_pc = "failing"
    /\ has_snapshot' = FALSE
    /\ scan_pc' = "failed"
    /\ UNCHANGED <<fate, eventVars, state, shutdown_requested, cancelled, scan_error,
                   built, indexVars, cache, searchVars, reported>>

\* The failure path reads current_snapshot_ before it takes state_mutex_.
FinishFailedReads ==
    /\ scan_pc = "failing"
    /\ has_snapshot' = (current_snapshot # None)
    /\ scan_pc' = "failed"
    /\ UNCHANGED <<fate, eventVars, state, shutdown_requested, cancelled, scan_error,
                   built, indexVars, cache, searchVars, reported>>

FinishFailed ==
    /\ scan_pc = "failed"
    /\ state' = FinishedState(has_snapshot)
    /\ scan_pc' = "completing"
    /\ UNCHANGED <<fate, eventVars, shutdown_requested, cancelled, scan_error,
                   has_snapshot, built, indexVars, cache, searchVars, reported>>

\* Logging or building the result throws in a catch block, which nothing catches.
FailurePathThrows ==
    /\ scan_pc \in {"failing", "completing"}
    /\ scan_error = "InternalError"
    /\ fate' = "uncaught_exception"
    /\ UNCHANGED <<eventVars, state, shutdown_requested, cancelled,
                   scanVars, indexVars, cache, searchVars, reported>>

\* complete_scan, and the return of the thread's function with its locals.
CompleteScan(result) ==
    /\ reported' = [reported EXCEPT ![scan_thread] = Append(@, result)]
    /\ scan_pc' = "exited"
    /\ scan_error' = "none"
    /\ has_snapshot' = FALSE
    /\ UNCHANGED <<fate, eventVars, state, shutdown_requested, cancelled, built,
                   indexVars, cache, searchVars>>

CompleteInstalled == scan_pc = "logging" /\ CompleteScan("installed")

CompleteFailed == scan_pc = "completing" /\ CompleteScan(scan_error)

-----------------------------------------------------------------------------
(* A search-pool worker in search.  Queries is the set of searches that    *)
(* use the cache: a blank or over-long query returns before it, and one    *)
(* without tokens never stores and so never hits.                          *)

SearchCopiesSnapshot(w, q) ==
    /\ search[w].pc = "idle"
    /\ current_snapshot # None
    /\ search' = [search EXCEPT ![w] = [IdleSearch EXCEPT
                      !.pc = "copied", !.query = q, !.snapshot = current_snapshot]]
    /\ reply' = [reply EXCEPT ![w] = None]
    /\ UNCHANGED <<fate, eventVars, state, shutdown_requested, cancelled,
                   scanVars, indexVars, cache, reported>>

\* IndexNotReady: there is no snapshot to copy.
SearchNotReady(w) ==
    /\ search[w].pc = "idle"
    /\ current_snapshot = None
    /\ reply' = [reply EXCEPT ![w] = None]
    /\ UNCHANGED <<fate, eventVars, state, shutdown_requested, cancelled,
                   scanVars, indexVars, cache, search, reported>>

SearchReadsState(w) ==
    /\ search[w].pc = "copied"
    /\ search' = [search EXCEPT ![w].pc = "lookup", ![w].stale = (state = "Scanning")]
    /\ UNCHANGED <<fate, eventVars, state, shutdown_requested, cancelled,
                   scanVars, indexVars, cache, reply, reported>>

\* The worker's search ends with these hits.
Respond(w, hits) ==
    /\ reply' = [reply EXCEPT ![w] = [query |-> search[w].query,
                                      snapshot |-> search[w].snapshot,
                                      hits |-> hits,
                                      stale |-> search[w].stale]]
    /\ search' = [search EXCEPT ![w] = IdleSearch]

\* Mutant: the cache is trusted to have been cleared.
ServesAny(entry, snapshot) == TRUE

\* A cached entry serves only the generation it was computed for.
Serves(entry, snapshot) == entry.generation = snapshot.generation

SearchLooksUp(w) ==
    LET q == search[w].query IN
    /\ search[w].pc = "lookup"
    /\ cache' = AfterGet(cache, q)
    /\ IF ~Holds(cache, q)
       THEN search' = [search EXCEPT ![w].pc = "compute"] /\ UNCHANGED reply
       ELSE IF Serves(ValueOf(cache, q), search[w].snapshot)
       THEN Respond(w, ValueOf(cache, q).hits)
       ELSE search' = [search EXCEPT ![w].pc = "clear"] /\ UNCHANGED reply
    /\ UNCHANGED <<fate, eventVars, state, shutdown_requested, cancelled,
                   scanVars, indexVars, reported>>

SearchClearsCache(w) ==
    /\ search[w].pc = "clear"
    /\ cache' = AfterClear
    /\ search' = [search EXCEPT ![w].pc = "compute"]
    /\ UNCHANGED <<fate, eventVars, state, shutdown_requested, cancelled,
                   scanVars, indexVars, reply, reported>>

\* Mutant: computes over the snapshot that is current by now.
SearchComputesOverCurrent(w) ==
    LET s == current_snapshot
        q == search[w].query
        value == [generation |-> s.generation, hits |-> HitsOf(s, q)] IN
    /\ search[w].pc = "compute"
    /\ cache' = AfterPut(cache, q, value, CacheCapacity)
    /\ Respond(w, HitsOf(s, q))
    /\ UNCHANGED <<fate, eventVars, state, shutdown_requested, cancelled,
                   scanVars, indexVars, reported>>

SearchComputes(w) ==
    LET s == search[w].snapshot
        q == search[w].query
        value == [generation |-> s.generation, hits |-> HitsOf(s, q)] IN
    /\ search[w].pc = "compute"
    /\ cache' = AfterPut(cache, q, value, CacheCapacity)
    /\ Respond(w, HitsOf(s, q))
    /\ UNCHANGED <<fate, eventVars, state, shutdown_requested, cancelled,
                   scanVars, indexVars, reported>>

-----------------------------------------------------------------------------
\* A call in progress on the event thread; the calls themselves are chosen
\* by the users of the service.
EventThread ==
    \/ JoinFinishedScan \/ RefuseScan \/ AdmitScan \/ LaunchScan \/ LaunchThrows
    \/ ShutdownCancel \/ ShutdownJoin \/ ShutdownSettle

ScanThread ==
    \/ ScanSucceeds \/ ObserveCancel \/ ScanFails \/ BuildIndex
    \/ Install \/ ClearCache \/ FinishInstalled
    \/ FinishFailedReads \/ FinishFailed \/ CompleteInstalled \/ CompleteFailed

SearchThread(w) ==
    SearchReadsState(w) \/ SearchLooksUp(w) \/ SearchClearsCache(w) \/ SearchComputes(w)

Calls ==
    \/ StartScan \/ CancelScan \/ Shutdown
    \/ \E w \in Workers : SearchNotReady(w) \/ \E q \in Queries : SearchCopiesSnapshot(w, q)

Running == fate = "running"

\* The process is gone; nothing of it takes another step.
Dead == ~Running /\ UNCHANGED vars

Next ==
    \/ Running /\ FailurePathThrows
    \/ Running /\ (Calls \/ EventThread \/ ScanThread \/ \E w \in Workers : SearchThread(w))
    \/ Dead

Spec == Init /\ [][Next]_vars

\* The operating system runs every thread that can run; nothing makes a
\* user call again.
Fairness ==
    /\ WF_vars(Running /\ EventThread)
    /\ WF_vars(Running /\ ScanThread)
    /\ \A w \in Workers : WF_vars(Running /\ SearchThread(w))

FairSpec == Spec /\ Fairness
-----------------------------------------------------------------------------
EventSteps == {"idle", "join", "admit", "launch",
               "shutdown_cancel", "shutdown_join", "shutdown_settle"}
ScanSteps == {"none", "scanning", "building", "built", "installed", "cleared",
              "logging", "failing", "failed", "completing", "exited"}
Errors == {"Cancelled", "InternalError"}
CachedSearch == [generation : Nat, hits : Hits]
Search == [pc : {"copied", "lookup", "clear", "compute"},
           query : Queries, snapshot : Snapshot, stale : BOOLEAN]
Reply == [query : Queries, snapshot : Snapshot, hits : Hits, stale : BOOLEAN]

\* None is told apart from what is asked and from what is replied.
ASSUME NoReplyAssumption == /\ None \notin Reply
                            /\ None \notin [query : Queries, snapshot : Snapshot]

ControlTypeOK ==
    /\ fate \in {"running", "terminated", "uncaught_exception"}
    /\ event \in EventSteps
    /\ state \in {"NoIndex", "Scanning", "Ready"}
    /\ shutdown_requested \in BOOLEAN
    /\ active \in Nat
    /\ cancelled \in SUBSET Nat

ScanTypeOK ==
    /\ scan_thread \in Nat
    /\ scan_pc \in ScanSteps
    /\ scan_error \in Errors \cup {"none"}
    /\ scan_pc \in {"failing", "failed", "completing"} => scan_error \in Errors
    /\ has_snapshot \in BOOLEAN
    /\ built \in Snapshot \cup {None}
    /\ scan_pc = "built" => built \in Snapshot
    /\ current_snapshot \in Snapshot \cup {None}
    /\ next_generation \in Nat

SearchTypeOK ==
    /\ cache \in Seq([key : Queries, value : CachedSearch])
    /\ search \in [Workers -> Search \cup {IdleSearch}]
    /\ reply \in [Workers -> Reply \cup {None}]

\* The type of every variable; a search past its first step has a snapshot, the
\* failure path an error, and the scan thread a build_result to install.
TypeOK ==
    /\ ControlTypeOK
    /\ ScanTypeOK
    /\ SearchTypeOK
    /\ reported \in [Scans -> Seq({"installed"} \cup Errors)]

\* A search answers with hits computed from the very snapshot whose generation
\* it reports, though the cache is keyed by the query alone, is cleared in a
\* step of its own after the installation, and takes results of searches that
\* still run on an older snapshot (SearchEngine::search, ServiceController::search).
HitsMatchSnapshot ==
    \A w \in Workers :
        reply[w] # None => reply[w].hits = HitsOf(reply[w].snapshot, reply[w].query)

\* Overlapping searches, evictions and clears never break the search cache: it
\* stays within its capacity and holds no key twice (LruCache::put).
CacheWellFormed == WellFormed(cache, CacheCapacity)

\* The scan thread has not yet said in finish_scan_state how its scan ended.
Unsettled ==
    \/ scan_pc \in {"scanning", "building", "built", "installed", "cleared"}
    \/ /\ scan_pc \in {"failing", "failed"}
       /\ current_snapshot # None => current_snapshot.content # scan_thread

\* Until shutdown is requested, state_ says Scanning exactly while a scan is
\* admitted and has not settled: a failed, cancelled or throwing scan neither
\* leaves the service refusing scans with Busy for ever nor opens it to a
\* second scan while the first still runs (start_scan, finish_scan_state).
ScanningMeansScanning ==
    ~shutdown_requested =>
        /\ state = "Scanning" => event = "launch" \/ Unsettled
        /\ Unsettled => state = "Scanning"

\* When no scan is under way state_ agrees with current_snapshot_, though
\* finish_scan_state and shutdown read the snapshot before they take the lock.
StateTellsSnapshot ==
    Running => /\ state = "Ready" => current_snapshot # None
               /\ state = "NoIndex" => current_snapshot = None

\* Both: whenever status() takes the lock, it tells truly whether a scan is under
\* way and, if none is, whether there is an index.
StateTellsTruth == ScanningMeansScanning /\ StateTellsSnapshot

\* A shutdown that has returned leaves no scan thread behind, whichever step of
\* a scan it met, and state_ is not stuck in Scanning although the scan thread
\* no longer writes it (ServiceController::shutdown).
ShutdownQuiesces ==
    shutdown_requested /\ event = "idle" =>
        /\ scan_thread = 0
        /\ scan_pc = "none"
        /\ state # "Scanning"

\* A scan that reports Cancelled has left nothing behind: no snapshot of it is
\* current and no search or cached result holds its files, whenever the cancel
\* came (COREDESK_SPEC 11.4: a cancelled build yields no half-made snapshot).
CancelledLeavesNoTrace ==
    \A n \in Scans : "Cancelled" \in {reported[n][i] : i \in 1..Len(reported[n])} =>
        /\ current_snapshot # None => current_snapshot.content # n
        /\ \A i \in 1..Len(cache) : cache[i].value.hits.content # n
        /\ \A w \in Workers : search[w].snapshot # None => search[w].snapshot.content # n

\* The completion callback of a scan is called at most once, whatever failed
\* or threw on its thread (complete_scan and the two catch blocks).
ReportedOnce == \A n \in Scans : Len(reported[n]) <= 1

\* The index only moves forward: an installed snapshot is replaced only by one
\* of a later generation made by a later scan, and never taken away by a
\* failure, a cancel or the shutdown.
IndexOnlyAdvances ==
    [][current_snapshot # None /\ current_snapshot' # current_snapshot =>
          /\ current_snapshot' # None
          /\ current_snapshot'.generation > current_snapshot.generation
          /\ current_snapshot'.content > current_snapshot.content]_vars

\* Whatever is begun comes to its end, unless the process dies.  Every scan thread
\* that is started reports its outcome, and a shutdown does not silence it;
\* start_scan and shutdown return, as neither join waits for a thread that waits
\* for the event thread; and every search that got a snapshot is answered, though
\* others keep changing the cache under it.
CallsReturn ==
    /\ \A n \in Scans : scan_thread = n ~> reported[n] # << >> \/ ~Running
    /\ event # "idle" ~> event = "idle" \/ ~Running
    /\ \A w \in Workers : search[w].pc # "idle" ~> search[w].pc = "idle" \/ ~Running

\* docs/BUG_POSTMORTEM.md: a scan's failure is "a failed scan operation, not a
\* terminated service process.  The controller remains able to accept later
\* scans."  Assigning to scan_thread_ must then never meet a joinable thread.
NeverTerminates == fate # "terminated"

-----------------------------------------------------------------------------
\* A scan is under way from the start of its thread until it has reported.
RunningScan == IF scan_pc \in {"none", "exited"} THEN 0 ELSE scan_thread

\* What each scan has reported, what each worker is asked, what it last answered.
Outcome == [n \in Scans |-> IF reported[n] = << >> THEN None ELSE reported[n][1]]
Asked == [w \in Workers |->
              IF search[w].pc = "idle" THEN None
              ELSE [query |-> search[w].query, snapshot |-> search[w].snapshot]]
Answers == [w \in Workers |-> IF reply[w] = None THEN None ELSE reply[w].hits]

Abstract == INSTANCE IndexService WITH
    index <- current_snapshot,
    running <- RunningScan,
    outcome <- Outcome,
    asked <- Asked,
    alive <- Running,
    answer <- Answers

\* The threads, the locks and the cache together implement IndexService: every
\* search answers as if it ran alone on the index it began with, and every scan
\* installs and reports as one atomic operation of the abstract service.
ImplementsIndexService == Abstract!Spec

=============================================================================
