---------------------- MODULE ServiceController_proofs ----------------------
(***************************************************************************)
(* IInv is inductive, for any number of workers, queries and scans and any *)
(* capacity of the cache; the safety properties and the steps of           *)
(* IndexService follow from it.  The lemmas on the cache come first.       *)
(***************************************************************************)
EXTENDS ServiceInvariant, TLAPS

-----------------------------------------------------------------------------
\* The cache: what get and put do to its list of entries, for every list, key, value and
\* capacity.

\* The hash map finds an entry that has the key, if there is one.
LEMMA PositionHolds ==
    ASSUME NEW list, NEW key, Holds(list, key)
    PROVE  /\ Position(list, key) \in 1..Len(list)
           /\ list[Position(list, key)].key = key
  BY DEF Holds, Position

\* The place in the old list of the entry at place j >= 2 after a splice at p.
From(j, p) == IF j <= p THEN j - 1 ELSE j

\* splice keeps the length; the front is the entry given, and every other
\* entry was in the list at a place other than the one spliced out, each from
\* a place of its own.
LEMMA SplicePlaces ==
    ASSUME NEW E, NEW list \in Seq(E), NEW e \in E, NEW p \in 1..Len(list)
    PROVE  /\ Splice(list, p, e) \in Seq(E)
           /\ Len(Splice(list, p, e)) = Len(list)
           /\ Splice(list, p, e)[1] = e
           /\ \A j \in 2..Len(list) :
                  /\ From(j, p) \in 1..Len(list)
                  /\ From(j, p) # p
                  /\ Splice(list, p, e)[j] = list[From(j, p)]
           /\ \A i, j \in 2..Len(list) : From(i, p) = From(j, p) => i = j
  <1>1. Len(list) \in Nat
    OBVIOUS
  <1>2. \A j \in 1..Len(list) :
            (IF j = 1 THEN e ELSE IF j <= p THEN list[j - 1] ELSE list[j]) \in E
    OBVIOUS
  <1>3. Splice(list, p, e) \in Seq(E) /\ Len(Splice(list, p, e)) = Len(list)
    BY <1>1, <1>2 DEF Splice
  <1>4. \A j \in 2..Len(list) : From(j, p) \in 1..Len(list) /\ From(j, p) # p
    BY <1>1 DEF From
  <1>5. \A j \in 2..Len(list) : Splice(list, p, e)[j] = list[From(j, p)]
    BY <1>1 DEF Splice, From
  <1>6. \A i, j \in 2..Len(list) : From(i, p) = From(j, p) => i = j
    BY <1>1 DEF From
  <1>7. Splice(list, p, e)[1] = e
    BY <1>1 DEF Splice
  <1>8. QED
    BY <1>3, <1>4, <1>5, <1>6, <1>7

\* A splice whose entry has the key of the place it takes keeps keys distinct.
LEMMA SplicePreserves ==
    ASSUME NEW E, NEW list \in Seq(E), NEW e \in E, NEW p \in 1..Len(list),
           NEW capacity \in Nat, WellFormed(list, capacity), e.key = list[p].key
    PROVE  WellFormed(Splice(list, p, e), capacity)
  <1> DEFINE after == Splice(list, p, e)
  <1>1. Len(list) \in Nat /\ Len(after) = Len(list) /\ after[1] = e
    <2>1. /\ Splice(list, p, e) \in Seq(E)
          /\ Len(Splice(list, p, e)) = Len(list)
          /\ Splice(list, p, e)[1] = e
      BY SplicePlaces
    <2>2. QED
      BY <2>1
  <1>2. \A j \in 2..Len(list) :
            From(j, p) \in 1..Len(list) /\ From(j, p) # p /\ after[j] = list[From(j, p)]
    BY SplicePlaces
  <1>3. \A i, j \in 2..Len(list) : From(i, p) = From(j, p) => i = j
    BY SplicePlaces
  <1> HIDE DEF after
  <1>4. \A j \in 2..Len(list) : after[j].key # e.key
    BY <1>2 DEF WellFormed
  <1>5. ASSUME NEW i \in 1..Len(list), NEW j \in 1..Len(list), after[i].key = after[j].key
        PROVE  i = j
    <2>1. CASE i = 1 \/ j = 1
      BY <1>1, <1>4, <1>5, <2>1
    <2>2. CASE i \in 2..Len(list) /\ j \in 2..Len(list)
      BY <1>2, <1>3, <1>5, <2>2 DEF WellFormed
    <2>3. QED
      BY <1>1, <2>1, <2>2
  <1>6. QED
    BY <1>1, <1>5 DEF WellFormed, after

\* A new entry takes the front, the others keep their order, and the list is
\* cut to the capacity.
LEMMA InsertPlaces ==
    ASSUME NEW E, NEW list \in Seq(E), NEW e \in E, NEW capacity \in Nat \ {0},
           Len(list) <= capacity
    PROVE  /\ Insert(list, e, capacity) \in Seq(E)
           /\ Len(Insert(list, e, capacity)) \in 1..capacity
           /\ Len(Insert(list, e, capacity)) <= Len(list) + 1
           /\ Insert(list, e, capacity)[1] = e
           /\ \A j \in 2..Len(Insert(list, e, capacity)) :
                  Insert(list, e, capacity)[j] = list[j - 1]
  <1> DEFINE n == IF Len(list) < capacity THEN Len(list) + 1 ELSE capacity
             f == [j \in 1..n |-> IF j = 1 THEN e ELSE list[j - 1]]
  <1>1. n \in Nat /\ n \in 1..capacity /\ n <= Len(list) + 1
    OBVIOUS
  <1>2. \A j \in 1..n : (IF j = 1 THEN e ELSE list[j - 1]) \in E
    BY <1>1
  <1>3. f \in Seq(E) /\ Len(f) = n
    BY <1>1, <1>2
  <1>4. Insert(list, e, capacity) = f
    BY DEF Insert
  <1>5. f[1] = e /\ \A j \in 2..n : f[j] = list[j - 1]
    BY <1>1
  <1>6. QED
    BY <1>1, <1>3, <1>4, <1>5

\* get neither makes nor loses an entry, and keeps a well-formed list so.
LEMMA GetPreserves ==
    ASSUME NEW E, NEW list \in Seq(E), NEW key, NEW capacity \in Nat \ {0},
           WellFormed(list, capacity)
    PROVE  /\ AfterGet(list, key) \in Seq(E)
           /\ WellFormed(AfterGet(list, key), capacity)
           /\ \A j \in 1..Len(AfterGet(list, key)) :
                  \E i \in 1..Len(list) : AfterGet(list, key)[j] = list[i]
  <1>1. CASE ~Holds(list, key)
    BY <1>1 DEF AfterGet
  <1>2. CASE Holds(list, key)
    <2>1. PICK p \in 1..Len(list) : p = Position(list, key)
      BY <1>2, PositionHolds
    <2>2. list[p] \in E
      OBVIOUS
    <2>3. AfterGet(list, key) = Splice(list, p, list[p])
      BY <1>2, <2>1 DEF AfterGet
    <2>4. WellFormed(Splice(list, p, list[p]), capacity)
      BY <2>2, SplicePreserves
    <2>5. /\ Splice(list, p, list[p]) \in Seq(E)
          /\ Len(Splice(list, p, list[p])) = Len(list)
          /\ Splice(list, p, list[p])[1] = list[p]
          /\ \A j \in 2..Len(list) :
                 From(j, p) \in 1..Len(list) /\ Splice(list, p, list[p])[j] = list[From(j, p)]
      BY <2>2, SplicePlaces
    <2>6. QED
      BY <2>3, <2>4, <2>5
  <1>3. QED
    BY <1>1, <1>2

\* put leaves the entry it was given and otherwise only entries that were
\* there, and keeps a well-formed list so: it neither holds a key twice nor
\* grows past its capacity.
LEMMA PutPreserves ==
    ASSUME NEW E, NEW list \in Seq(E), NEW key, NEW value, Entry(key, value) \in E,
           NEW capacity \in Nat \ {0}, WellFormed(list, capacity)
    PROVE  /\ AfterPut(list, key, value, capacity) \in Seq(E)
           /\ WellFormed(AfterPut(list, key, value, capacity), capacity)
           /\ \A j \in 1..Len(AfterPut(list, key, value, capacity)) :
                  \/ AfterPut(list, key, value, capacity)[j] = Entry(key, value)
                  \/ \E i \in 1..Len(list) : AfterPut(list, key, value, capacity)[j] = list[i]
  <1>1. PICK e \in E : e = Entry(key, value)
    OBVIOUS
  <1>2. e.key = key
    BY <1>1 DEF Entry
  <1>3. CASE Holds(list, key)
    <2>1. PICK p \in 1..Len(list) : p = Position(list, key) /\ list[p].key = key
      BY <1>3, PositionHolds
    <2>2. AfterPut(list, key, value, capacity) = Splice(list, p, e)
      BY <1>1, <1>3, <2>1 DEF AfterPut
    <2>3. WellFormed(Splice(list, p, e), capacity)
      BY <1>2, <2>1, SplicePreserves
    <2>4. /\ Splice(list, p, e) \in Seq(E)
          /\ Len(Splice(list, p, e)) = Len(list)
          /\ Splice(list, p, e)[1] = e
          /\ \A j \in 2..Len(list) :
                 From(j, p) \in 1..Len(list) /\ Splice(list, p, e)[j] = list[From(j, p)]
      BY ONLY list \in Seq(E), e \in E, p \in 1..Len(list), SplicePlaces
    <2>5. QED
      BY <1>1, <2>2, <2>3, <2>4
  <1>4. CASE ~Holds(list, key)
    <2>1. AfterPut(list, key, value, capacity) = Insert(list, e, capacity)
      BY <1>1, <1>4 DEF AfterPut
    <2> DEFINE after == Insert(list, e, capacity)
    <2>2. /\ after \in Seq(E)
          /\ Len(after) \in 1..capacity
          /\ Len(after) <= Len(list) + 1
          /\ after[1] = e
          /\ \A j \in 2..Len(after) : after[j] = list[j - 1]
      BY InsertPlaces DEF WellFormed
    <2> HIDE DEF after
    <2>3. \A i \in 1..Len(list) : list[i].key # e.key
      BY <1>2, <1>4 DEF Holds
    <2>4. \A j \in 2..Len(after) : j - 1 \in 1..Len(list)
      BY <2>2
    <2>5. ASSUME NEW i \in 1..Len(after), NEW j \in 1..Len(after), after[i].key = after[j].key
          PROVE  i = j
      <3>1. CASE i = 1 \/ j = 1
        <4>1. \A k \in 2..Len(after) : after[k].key # e.key
          BY <2>2, <2>3, <2>4
        <4>2. QED
          BY <2>2, <2>5, <3>1, <4>1
      <3>2. CASE i \in 2..Len(after) /\ j \in 2..Len(after)
        <4>1. list[i - 1].key = list[j - 1].key
          BY <2>2, <2>5, <3>2
        <4>2. i - 1 = j - 1
          BY <2>4, <3>2, <4>1 DEF WellFormed
        <4>3. QED
          BY <3>2, <4>2
      <3>3. QED
        BY <2>2, <3>1, <3>2
    <2>6. WellFormed(after, capacity)
      BY <2>2, <2>5 DEF WellFormed
    <2>7. \A j \in 1..Len(after) : after[j] = e \/ \E i \in 1..Len(list) : after[j] = list[i]
      BY <2>2, <2>4
    <2>8. QED
      BY <1>1, <2>1, <2>2, <2>6, <2>7 DEF after
  <1>5. QED
    BY <1>3, <1>4

-----------------------------------------------------------------------------
\* The controller.

USE CacheCapacityAssumption, MaxScansAssumption, NoneAssumption

\* A null pointer is no snapshot and no reply.
LEMMA NoneIsNothing == None \notin Snapshot /\ None \notin Queries
  BY DEF Snapshot

\* Init establishes the inductive invariant.
LEMMA InitIInv == Init => IInv
  <1> SUFFICES ASSUME Init PROVE IInv
    OBVIOUS
  <1> USE DEF Init
  <1>1. ControlTypeOK /\ ScanTypeOK
    BY DEF ControlTypeOK, ScanTypeOK, EventSteps, ScanSteps
  <1>2. SearchTypeOK /\ reported \in [Scans -> Seq({"installed"} \cup Errors)]
    BY DEF SearchTypeOK, AfterClear
  <1>3. ThreadInv /\ InstallInv
    BY DEF ThreadInv, InstallInv, Current
  <1>4. StateInv
    BY DEF StateInv, Unsettled
  <1>5. ReportInv
    BY DEF ReportInv, Scans
  <1>6. GenerationInv
    BY DEF GenerationInv, AfterClear, IdleSearch
  <1>7. HitsMatchSnapshot /\ CacheWellFormed
    BY DEF HitsMatchSnapshot, CacheWellFormed, WellFormed, AfterClear
  <1>8. QED
    BY <1>1, <1>2, <1>3, <1>4, <1>5, <1>6, <1>7 DEF IInv, TypeOK

-----------------------------------------------------------------------------
\* The steps of the event thread, with the one that ends the process, of one worker,
\* and of any thread.
EventStep == StartScan \/ CancelScan \/ Shutdown \/ EventThread \/ FailurePathThrows

SearchStep(w) ==
    \/ SearchNotReady(w) \/ \E q \in Queries : SearchCopiesSnapshot(w, q)
    \/ SearchThread(w)

LEMMA NextSteps ==
    [Next]_vars => EventStep \/ ScanThread \/ (\E w \in Workers : SearchStep(w)) \/ UNCHANGED vars
  BY DEF Next, Calls, EventStep, SearchStep, Dead

\* A step of the event thread leaves the index and the search path alone.
LEMMA EventFrame ==
    EventStep =>
        UNCHANGED <<scan_error, has_snapshot, built, indexVars, cache, searchVars, reported>>
  <1> DEFINE Frame ==
        UNCHANGED <<scan_error, has_snapshot, built, indexVars, cache, searchVars, reported>>
  <1> USE DEF scanVars, indexVars, searchVars
  <1>1. StartScan \/ JoinFinishedScan \/ RefuseScan => Frame
    BY DEF StartScan, JoinFinishedScan, RefuseScan
  <1>2. AdmitScan \/ LaunchScan \/ LaunchThrows \/ FailurePathThrows \/ CancelScan => Frame
    BY DEF AdmitScan, LaunchScan, LaunchThrows, FailurePathThrows, CancelScan
  <1>3. Shutdown \/ ShutdownCancel \/ ShutdownJoin \/ ShutdownSettle => Frame
    BY DEF Shutdown, ShutdownCancel, ShutdownJoin, ShutdownSettle
  <1>4. QED
    BY <1>1, <1>2, <1>3 DEF EventStep, EventThread

\* A step of the scan thread leaves the event thread and the searches alone.
LEMMA ScanFrame ==
    ScanThread => UNCHANGED <<fate, eventVars, shutdown_requested, cancelled, searchVars>>
  <1> DEFINE Frame == UNCHANGED <<fate, eventVars, shutdown_requested, cancelled, searchVars>>
  <1>1. ScanSucceeds \/ ObserveCancel \/ ScanFails \/ BuildIndex => Frame
    BY DEF ScanSucceeds, ObserveCancel, ScanFails, BuildIndex
  <1>2. Install \/ ClearCache \/ FinishInstalled \/ FinishFailedReads => Frame
    BY DEF Install, ClearCache, FinishInstalled, FinishFailedReads
  <1>3. FinishFailed \/ CompleteInstalled \/ CompleteFailed => Frame
    BY DEF FinishFailed, CompleteInstalled, CompleteFailed, CompleteScan
  <1>4. QED
    BY <1>1, <1>2, <1>3 DEF ScanThread

\* A search changes nothing but the cache and its own worker.
LEMMA SearchFrame ==
    ASSUME NEW w \in Workers, SearchStep(w)
    PROVE  UNCHANGED <<fate, eventVars, state, shutdown_requested, cancelled,
                       scanVars, indexVars, reported>>
  BY DEF SearchStep, SearchThread, SearchNotReady, SearchCopiesSnapshot, SearchReadsState,
         SearchLooksUp, SearchClearsCache, SearchComputes

\* Each thread keeps the control variables in their types.
LEMMA ControlTypeOKStep == ControlTypeOK /\ [Next]_vars => ControlTypeOK'
  <1> SUFFICES ASSUME ControlTypeOK, [Next]_vars PROVE ControlTypeOK'
    OBVIOUS
  <1> USE DEF ControlTypeOK, EventSteps, eventVars
  <1>1. CASE StartScan
    BY <1>1 DEF StartScan
  <1>2. CASE JoinFinishedScan
    BY <1>2 DEF JoinFinishedScan
  <1>3. CASE RefuseScan
    BY <1>3 DEF RefuseScan
  <1>4. CASE AdmitScan
    BY <1>4 DEF AdmitScan
  <1>5. CASE LaunchScan
    BY <1>5 DEF LaunchScan
  <1>6. CASE LaunchThrows \/ FailurePathThrows
    BY <1>6 DEF LaunchThrows, FailurePathThrows
  <1>7. CASE CancelScan
    BY <1>7 DEF CancelScan
  <1>8. CASE Shutdown
    BY <1>8 DEF Shutdown
  <1>9. CASE ShutdownCancel
    BY <1>9 DEF ShutdownCancel
  <1>10. CASE ShutdownJoin
    BY <1>10 DEF ShutdownJoin
  <1>11. CASE ShutdownSettle
    BY <1>11 DEF ShutdownSettle
  <1>12. CASE ScanThread
    <2>1. UNCHANGED <<fate, event, active, shutdown_requested, cancelled>>
      BY <1>12, ScanFrame
    <2>2. state' \in {state, "Ready", "NoIndex"}
      BY <1>12 DEF ScanThread, ScanSucceeds, ObserveCancel, ScanFails, BuildIndex, Install,
         ClearCache, FinishInstalled, FinishFailedReads, FinishFailed, CompleteInstalled,
         CompleteFailed, CompleteScan, FinishedState
    <2>3. QED
      BY <2>1, <2>2
  <1>13. CASE (\E w \in Workers : SearchStep(w)) \/ UNCHANGED vars
    BY <1>13, SearchFrame DEF vars
  <1>14. QED
    BY <1>1, <1>2, <1>3, <1>4, <1>5, <1>6, <1>7, <1>8, <1>9, <1>10, <1>11, <1>12, <1>13, NextSteps
       DEF EventStep, EventThread

\* Each thread keeps the scan thread's variables and the index in their types.
LEMMA ScanTypeOKStep == ControlTypeOK /\ ScanTypeOK /\ [Next]_vars => ScanTypeOK'
  <1> SUFFICES ASSUME ControlTypeOK, ScanTypeOK, [Next]_vars PROVE ScanTypeOK'
    OBVIOUS
  <1> USE DEF ScanTypeOK, scanVars, indexVars
  <1>1. CASE EventStep
    <2>1. UNCHANGED <<scan_error, has_snapshot, built, current_snapshot, next_generation>>
      BY <1>1, EventFrame
    <2>2. \/ scan_pc' = "none" /\ scan_thread' = 0
          \/ scan_pc' = "scanning" /\ scan_thread' = active
          \/ UNCHANGED <<scan_pc, scan_thread>>
      BY <1>1 DEF EventStep, EventThread, StartScan, JoinFinishedScan, RefuseScan, AdmitScan,
         LaunchScan, LaunchThrows, FailurePathThrows, CancelScan, Shutdown, ShutdownCancel,
         ShutdownJoin, ShutdownSettle, eventVars
    <2>3. scan_thread' \in Nat /\ scan_pc' \in {"none", "scanning", scan_pc}
      BY <2>2 DEF ControlTypeOK
    <2>4. QED
      BY <2>1, <2>3 DEF ScanSteps
  <1>2. CASE ScanSucceeds
    BY <1>2 DEF ScanSucceeds, eventVars, ScanSteps, Errors, Snapshot
  <1>3. CASE ObserveCancel
    BY <1>3 DEF ObserveCancel, eventVars, ScanSteps, Errors, Snapshot
  <1>4. CASE ScanFails
    BY <1>4 DEF ScanFails, eventVars, ScanSteps, Errors, Snapshot
  <1>5. CASE BuildIndex
    BY <1>5 DEF BuildIndex, eventVars, ScanSteps, Errors, Snapshot
  <1>6. CASE Install
    BY <1>6 DEF Install, eventVars, ScanSteps, Errors, Snapshot
  <1>7. CASE ClearCache
    BY <1>7 DEF ClearCache, eventVars, ScanSteps, Errors, Snapshot
  <1>8. CASE FinishInstalled
    BY <1>8 DEF FinishInstalled, FinishedState, eventVars, ScanSteps, Errors, Snapshot
  <1>9. CASE FinishFailedReads
    BY <1>9 DEF FinishFailedReads, eventVars, ScanSteps, Errors, Snapshot
  <1>10. CASE FinishFailed
    BY <1>10 DEF FinishFailed, FinishedState, eventVars, ScanSteps, Errors, Snapshot
  <1>11. CASE CompleteInstalled
    BY <1>11 DEF CompleteInstalled, CompleteScan, eventVars, ScanSteps, Errors, Snapshot
  <1>12. CASE CompleteFailed
    BY <1>12 DEF CompleteFailed, CompleteScan, eventVars, ScanSteps, Errors, Snapshot
  <1>13. CASE (\E w \in Workers : SearchStep(w)) \/ UNCHANGED vars
    BY <1>13, SearchFrame DEF vars, eventVars
  <1>14. QED
    BY <1>1, <1>2, <1>3, <1>4, <1>5, <1>6, <1>7, <1>8, <1>9, <1>10, <1>11, <1>12, <1>13, NextSteps
       DEF ScanThread

\* Each entry of the cache pairs a query with a cached search.
LEMMA CacheEntries ==
    SearchTypeOK => \A i \in 1..Len(cache) :
                        cache[i].key \in Queries /\ cache[i].value \in CachedSearch
  <1> DEFINE CacheEntry == [key : Queries, value : CachedSearch]
  <1>1. ASSUME NEW E, NEW s \in Seq(E) PROVE \A i \in 1..Len(s) : s[i] \in E
    OBVIOUS
  <1>2. SearchTypeOK => \A i \in 1..Len(cache) : cache[i] \in CacheEntry
    BY <1>1 DEF SearchTypeOK
  <1>3. QED
    BY <1>2

\* Each search keeps the cache, the searches and the replies in their types.
LEMMA SearchTypeOKStep ==
    ScanTypeOK /\ SearchTypeOK /\ CacheWellFormed /\ [Next]_vars => SearchTypeOK'
  <1> SUFFICES ASSUME ScanTypeOK, SearchTypeOK, CacheWellFormed, [Next]_vars
               PROVE  SearchTypeOK'
    OBVIOUS
  <1> USE DEF SearchTypeOK
  <1> DEFINE CacheEntry == [key : Queries, value : CachedSearch]
  <1>1. CASE EventStep
    BY <1>1, EventFrame DEF searchVars
  <1>2. CASE ScanThread
    <2>1. UNCHANGED <<search, reply>>
      BY <1>2, ScanFrame DEF searchVars
    <2>2. cache' = cache \/ cache' = AfterClear
      BY <1>2 DEF ScanThread, ScanSucceeds, ObserveCancel, ScanFails, BuildIndex, Install,
         ClearCache, FinishInstalled, FinishFailedReads, FinishFailed, CompleteInstalled,
         CompleteFailed, CompleteScan
    <2>3. << >> \in Seq(CacheEntry)
      OBVIOUS
    <2>4. cache' \in Seq(CacheEntry)
      BY <2>2, <2>3 DEF AfterClear
    <2>5. QED
      BY <2>1, <2>4
  <1>3. ASSUME NEW w \in Workers, NEW q \in Queries, SearchCopiesSnapshot(w, q)
        PROVE  SearchTypeOK'
    BY <1>3 DEF SearchCopiesSnapshot, Search, IdleSearch, ScanTypeOK
  <1>4. ASSUME NEW w \in Workers, SearchNotReady(w)
        PROVE  SearchTypeOK'
    BY <1>4 DEF SearchNotReady
  <1>5. ASSUME NEW w \in Workers, SearchReadsState(w)
        PROVE  SearchTypeOK'
    <2>1. search[w] \in Search
      BY <1>5 DEF SearchReadsState, IdleSearch
    <2>2. [search[w] EXCEPT !.pc = "lookup", !.stale = (state = "Scanning")] \in Search
      BY <2>1 DEF Search
    <2>3. search' = [search EXCEPT ![w] = [search[w] EXCEPT !.pc = "lookup", !.stale = (state = "Scanning")]]
      BY <1>5 DEF SearchReadsState
    <2>4. UNCHANGED <<cache, reply>>
      BY <1>5 DEF SearchReadsState
    <2>5. QED
      BY <2>2, <2>3, <2>4
  <1>6. ASSUME NEW w \in Workers, SearchLooksUp(w)
        PROVE  SearchTypeOK'
    <2>1. search[w] \in Search
      BY <1>6 DEF SearchLooksUp, IdleSearch
    <2>2. search[w].query \in Queries /\ search[w].snapshot \in Snapshot /\ search[w].stale \in BOOLEAN
      BY <2>1 DEF Search
    <2>3. cache' \in Seq(CacheEntry)
      BY <1>6, GetPreserves DEF SearchLooksUp, CacheWellFormed
    <2>4. \A step \in {"clear", "compute"} : [search[w] EXCEPT !.pc = step] \in Search
      BY <2>1 DEF Search
    <2>5. CASE ~Holds(cache, search[w].query)
      BY <1>6, <2>3, <2>4, <2>5 DEF SearchLooksUp
    <2>6. CASE Holds(cache, search[w].query)
      <3> DEFINE value == ValueOf(cache, search[w].query)
      <3>1. value \in CachedSearch
        <4>1. Position(cache, search[w].query) \in 1..Len(cache)
          BY <2>6, PositionHolds
        <4>2. \A i \in 1..Len(cache) : cache[i].value \in CachedSearch
          BY CacheEntries
        <4>3. QED
          BY <4>1, <4>2 DEF ValueOf
      <3>2. value.hits \in Hits
        BY <3>1 DEF CachedSearch
      <3> HIDE DEF value
      <3>3. CASE Serves(value, search[w].snapshot)
        <4>1. Respond(w, value.hits)
          BY <1>6, <2>6, <3>3 DEF SearchLooksUp, value
        <4>2. reply' \in [Workers -> Reply \cup {None}] /\ search' \in [Workers -> Search \cup {IdleSearch}]
          BY <2>2, <3>2, <4>1 DEF Respond, Reply
        <4>3. QED
          BY <2>3, <4>2
      <3>4. CASE ~Serves(value, search[w].snapshot)
        BY <1>6, <2>3, <2>4, <2>6, <3>4 DEF SearchLooksUp, value
      <3>5. QED
        BY <3>3, <3>4
    <2>7. QED
      BY <2>5, <2>6
  <1>7. ASSUME NEW w \in Workers, SearchClearsCache(w)
        PROVE  SearchTypeOK'
    BY <1>7 DEF SearchClearsCache, Search, IdleSearch, AfterClear
  <1>8. ASSUME NEW w \in Workers, SearchComputes(w)
        PROVE  SearchTypeOK'
    <2>1. search[w] \in Search
      BY <1>8 DEF SearchComputes, IdleSearch
    <2>2. search[w].query \in Queries /\ search[w].snapshot \in Snapshot /\ search[w].stale \in BOOLEAN
      BY <2>1 DEF Search
    <2> DEFINE s == search[w].snapshot
               q == search[w].query
               value == [generation |-> s.generation, hits |-> HitsOf(s, q)]
    <2>3. HitsOf(s, q) \in Hits /\ value \in CachedSearch
      BY <2>2 DEF HitsOf, Hits, CachedSearch, Snapshot
    <2>4. Entry(q, value) \in CacheEntry
      BY <2>2, <2>3 DEF Entry
    <2>5. AfterPut(cache, q, value, CacheCapacity) \in Seq(CacheEntry)
      BY <2>4, PutPreserves DEF CacheWellFormed
    <2>6. cache' = AfterPut(cache, q, value, CacheCapacity) /\ Respond(w, HitsOf(s, q))
      BY <1>8 DEF SearchComputes
    <2>7. reply' \in [Workers -> Reply \cup {None}] /\ search' \in [Workers -> Search \cup {IdleSearch}]
      BY <2>2, <2>3, <2>6 DEF Respond, Reply
    <2>8. QED
      BY <2>5, <2>6, <2>7
  <1>9. CASE UNCHANGED vars
    BY <1>9 DEF vars, searchVars
  <1>10. QED
    BY <1>1, <1>2, <1>3, <1>4, <1>5, <1>6, <1>7, <1>8, <1>9, NextSteps
       DEF SearchStep, SearchThread

\* A report is the scan's outcome, appended to what its scan has reported.
LEMMA ReportedTypeStep ==
    TypeOK /\ [Next]_vars => (reported \in [Scans -> Seq({"installed"} \cup Errors)])'
  <1> SUFFICES ASSUME TypeOK, [Next]_vars
               PROVE  reported' \in [Scans -> Seq({"installed"} \cup Errors)]
    BY DEF Scans, Errors
  <1> USE DEF TypeOK
  <1>1. CASE ScanThread
    <2>1. \/ reported' = reported
          \/ \E result \in {"installed"} \cup Errors :
                 reported' = [reported EXCEPT ![scan_thread] = Append(@, result)]
      BY <1>1 DEF ScanThread, ScanSucceeds, ObserveCancel, ScanFails, BuildIndex, Install,
         ClearCache, FinishInstalled, FinishFailedReads, FinishFailed, CompleteInstalled,
         CompleteFailed, CompleteScan, ScanTypeOK
    <2>2. \A result \in {"installed"} \cup Errors, n \in Scans :
              Append(reported[n], result) \in Seq({"installed"} \cup Errors)
      OBVIOUS
    <2>3. CASE scan_thread \in Scans
      BY <2>1, <2>2, <2>3
    <2>4. CASE scan_thread \notin Scans
      <3>1. \A result : [reported EXCEPT ![scan_thread] = Append(@, result)] = reported
        BY <2>4
      <3>2. QED
        BY <2>1, <3>1
    <2>5. QED
      BY <2>3, <2>4
  <1>2. CASE EventStep \/ (\E w \in Workers : SearchStep(w)) \/ UNCHANGED vars
    BY <1>2, EventFrame, SearchFrame DEF vars
  <1>3. QED
    BY <1>1, <1>2, NextSteps

LEMMA TypeOKStep == TypeOK /\ CacheWellFormed /\ [Next]_vars => TypeOK'
  BY ControlTypeOKStep, ScanTypeOKStep, SearchTypeOKStep, ReportedTypeStep DEF TypeOK

\* The joinable thread is the one that exists, and joining precedes launching.
LEMMA ThreadInvStep == TypeOK /\ ThreadInv /\ [Next]_vars => ThreadInv'
  <1> SUFFICES ASSUME TypeOK, ThreadInv, [Next]_vars PROVE ThreadInv'
    OBVIOUS
  <1> USE DEF ThreadInv, eventVars, scanVars
  <1>1. CASE EventStep
    <2> USE DEF TypeOK, ControlTypeOK, ScanTypeOK
    <2>1. CASE StartScan
      BY <2>1 DEF StartScan
    <2>2. CASE JoinFinishedScan
      BY <2>2 DEF JoinFinishedScan
    <2>3. CASE RefuseScan \/ LaunchThrows \/ FailurePathThrows \/ CancelScan
      BY <2>3 DEF RefuseScan, LaunchThrows, FailurePathThrows, CancelScan
    <2>4. CASE AdmitScan
      BY <2>4 DEF AdmitScan
    <2>5. CASE LaunchScan
      BY <2>5 DEF LaunchScan
    <2>6. CASE Shutdown \/ ShutdownCancel \/ ShutdownSettle
      BY <2>6 DEF Shutdown, ShutdownCancel, ShutdownSettle
    <2>7. CASE ShutdownJoin
      BY <2>7 DEF ShutdownJoin
    <2>8. QED
      BY <1>1, <2>1, <2>2, <2>3, <2>4, <2>5, <2>6, <2>7 DEF EventStep, EventThread
  <1>2. CASE ScanThread
    <2>1. UNCHANGED <<event, active, scan_thread>>
      BY <1>2, ScanFrame
    <2>2. scan_pc # "none" /\ scan_pc' # "none"
      BY <1>2 DEF ScanThread, ScanSucceeds, ObserveCancel, ScanFails, BuildIndex, Install,
         ClearCache, FinishInstalled, FinishFailedReads, FinishFailed, CompleteInstalled,
         CompleteFailed, CompleteScan
    <2>3. QED
      BY <2>1, <2>2
  <1>3. CASE (\E w \in Workers : SearchStep(w)) \/ UNCHANGED vars
    BY <1>3, SearchFrame DEF vars
  <1>4. QED
    BY <1>1, <1>2, <1>3, NextSteps

\* Only the running scan's Install changes what is installed.
LEMMA InstallInvStep == TypeOK /\ ThreadInv /\ InstallInv /\ [Next]_vars => InstallInv'
  <1> SUFFICES ASSUME TypeOK, ThreadInv, InstallInv, [Next]_vars PROVE InstallInv'
    OBVIOUS
  <1> USE NoneIsNothing DEF InstallInv, ThreadInv, Current, eventVars, scanVars, indexVars,
          TypeOK, ControlTypeOK, ScanTypeOK
  <1>1. CASE EventStep
    <2>1. UNCHANGED <<built, current_snapshot, next_generation>>
      BY <1>1, EventFrame
    <2>2. current_snapshot # None => current_snapshot.content \in Nat
      BY DEF Snapshot
    <2>3. CASE StartScan \/ RefuseScan \/ LaunchThrows \/ FailurePathThrows \/ CancelScan
      BY <2>1, <2>3 DEF StartScan, RefuseScan, LaunchThrows, FailurePathThrows, CancelScan
    <2>4. CASE JoinFinishedScan \/ ShutdownJoin
      BY <2>1, <2>4 DEF JoinFinishedScan, ShutdownJoin
    <2>5. CASE AdmitScan
      BY <2>1, <2>2, <2>5 DEF AdmitScan
    <2>6. CASE LaunchScan
      BY <2>1, <2>2, <2>6 DEF LaunchScan
    <2>7. CASE Shutdown \/ ShutdownCancel \/ ShutdownSettle
      BY <2>1, <2>7 DEF Shutdown, ShutdownCancel, ShutdownSettle
    <2>8. QED
      BY <1>1, <2>3, <2>4, <2>5, <2>6, <2>7 DEF EventStep, EventThread
  <1>2. CASE ScanThread
    <2>1. UNCHANGED <<event, active, scan_thread>>
      BY <1>2, ScanFrame
    <2>2. CASE ScanSucceeds \/ ObserveCancel \/ ScanFails
      BY <2>1, <2>2 DEF ScanSucceeds, ObserveCancel, ScanFails
    <2>3. CASE BuildIndex
      BY <2>1, <2>3 DEF BuildIndex
    <2>4. CASE Install
      <3>1. scan_thread \in 1..active /\ event = "launch" => scan_thread < active
        BY <2>4 DEF Install
      <3>2. current_snapshot' = built /\ built.content = scan_thread /\ scan_pc' = "installed"
        BY <2>4 DEF Install
      <3>3. scan_thread \in 1..active
        BY <2>4 DEF Install
      <3>4. built # None
        BY <2>4 DEF Install
      <3>5. QED
        BY <2>1, <3>1, <3>2, <3>3, <3>4
    <2>5. CASE ClearCache \/ FinishInstalled \/ FinishFailedReads \/ FinishFailed
      BY <2>1, <2>5 DEF ClearCache, FinishInstalled, FinishFailedReads, FinishFailed
    <2>6. CASE CompleteInstalled \/ CompleteFailed
      BY <2>1, <2>6 DEF CompleteInstalled, CompleteFailed, CompleteScan
    <2>7. QED
      BY <1>2, <2>2, <2>3, <2>4, <2>5, <2>6 DEF ScanThread
  <1>3. CASE (\E w \in Workers : SearchStep(w)) \/ UNCHANGED vars
    BY <1>3, SearchFrame DEF vars
  <1>4. QED
    BY <1>1, <1>2, <1>3, NextSteps

\* state_ follows the scan; the shutdown waits for it.
LEMMA StateInvStep ==
    TypeOK /\ ThreadInv /\ InstallInv /\ StateInv /\ [Next]_vars => StateInv'
  <1> SUFFICES ASSUME TypeOK, ThreadInv, InstallInv, StateInv, [Next]_vars PROVE StateInv'
    OBVIOUS
  <1> USE NoneIsNothing DEF StateInv, Unsettled, InstallInv, ThreadInv, Current, eventVars,
          scanVars, indexVars, TypeOK, ControlTypeOK, ScanTypeOK
  <1>1. CASE EventStep
    <2>1. UNCHANGED <<has_snapshot, current_snapshot>>
      BY <1>1, EventFrame
    <2>2. CASE StartScan \/ RefuseScan \/ LaunchThrows \/ FailurePathThrows \/ CancelScan
      BY <2>1, <2>2 DEF StartScan, RefuseScan, LaunchThrows, FailurePathThrows, CancelScan
    <2>3. CASE JoinFinishedScan
      BY <2>1, <2>3 DEF JoinFinishedScan
    <2>4. CASE ShutdownJoin
      BY <2>1, <2>4 DEF ShutdownJoin
    <2>5. CASE AdmitScan
      BY <2>1, <2>5 DEF AdmitScan
    <2>6. CASE LaunchScan
      BY <2>1, <2>6 DEF LaunchScan
    <2>7. CASE Shutdown \/ ShutdownCancel
      BY <2>1, <2>7 DEF Shutdown, ShutdownCancel
    <2>8. CASE ShutdownSettle
      BY <2>1, <2>8 DEF ShutdownSettle
    <2>9. QED
      BY <1>1, <2>2, <2>3, <2>4, <2>5, <2>6, <2>7, <2>8 DEF EventStep, EventThread
  <1>2. CASE ScanThread
    <2>1. UNCHANGED <<event, active, scan_thread, shutdown_requested>>
      BY <1>2, ScanFrame
    <2>2. CASE ScanSucceeds \/ ObserveCancel \/ ScanFails
      BY <2>1, <2>2 DEF ScanSucceeds, ObserveCancel, ScanFails
    <2>3. CASE BuildIndex \/ ClearCache
      BY <2>1, <2>3 DEF BuildIndex, ClearCache
    <2>4. CASE Install
      BY <2>1, <2>4 DEF Install
    <2>5. CASE FinishInstalled
      BY <2>1, <2>5 DEF FinishInstalled, FinishedState
    <2>6. CASE FinishFailedReads
      <3>1. has_snapshot' <=> current_snapshot' # None
        BY <2>6, Zenon DEF FinishFailedReads
      <3>2. QED
        BY <2>1, <2>6, <3>1 DEF FinishFailedReads
    <2>7. CASE FinishFailed
      BY <2>1, <2>7 DEF FinishFailed, FinishedState
    <2>8. CASE CompleteInstalled \/ CompleteFailed
      BY <2>1, <2>8 DEF CompleteInstalled, CompleteFailed, CompleteScan
    <2>9. QED
      BY <1>2, <2>2, <2>3, <2>4, <2>5, <2>6, <2>7, <2>8 DEF ScanThread
  <1>3. CASE (\E w \in Workers : SearchStep(w)) \/ UNCHANGED vars
    BY <1>3, SearchFrame DEF vars
  <1>4. QED
    BY <1>1, <1>2, <1>3, NextSteps

\* A scan reports at the end of its thread, so only once.
LEMMA ReportInvStep == TypeOK /\ ThreadInv /\ ReportInv /\ [Next]_vars => ReportInv'
  <1> SUFFICES ASSUME TypeOK, ThreadInv, ReportInv, [Next]_vars PROVE ReportInv'
    OBVIOUS
  <1> USE DEF ReportInv, ThreadInv, Scans, eventVars, TypeOK, ControlTypeOK, ScanTypeOK
  <1>1. CASE EventStep
    <2>1. UNCHANGED reported
      BY <1>1, EventFrame
    <2>2. CASE StartScan \/ RefuseScan \/ LaunchThrows \/ FailurePathThrows \/ CancelScan
      BY <2>1, <2>2 DEF StartScan, RefuseScan, LaunchThrows, FailurePathThrows, CancelScan, scanVars
    <2>3. CASE JoinFinishedScan \/ ShutdownJoin
      BY <2>1, <2>3 DEF JoinFinishedScan, ShutdownJoin
    <2>4. CASE AdmitScan
      BY <2>1, <2>4 DEF AdmitScan, scanVars
    <2>5. CASE LaunchScan
      BY <2>1, <2>5 DEF LaunchScan
    <2>6. CASE Shutdown \/ ShutdownCancel \/ ShutdownSettle
      BY <2>1, <2>6 DEF Shutdown, ShutdownCancel, ShutdownSettle, scanVars
    <2>7. QED
      BY <1>1, <2>2, <2>3, <2>4, <2>5, <2>6 DEF EventStep, EventThread
  <1>2. CASE ScanThread
    <2>1. UNCHANGED <<event, active, scan_thread>>
      BY <1>2, ScanFrame
    <2>2. CASE CompleteInstalled \/ CompleteFailed
      <3>1. PICK result \in {"installed"} \cup Errors :
                reported' = [reported EXCEPT ![scan_thread] = Append(@, result)]
        BY <2>2 DEF CompleteInstalled, CompleteFailed, CompleteScan
      <3>2. scan_pc \notin {"none", "exited"} /\ scan_pc' = "exited"
        BY <2>2 DEF CompleteInstalled, CompleteFailed, CompleteScan
      <3>3. SUFFICES ASSUME NEW n \in Scans
                     PROVE  /\ Len(reported'[n]) <= 1
                            /\ reported'[n] # << >> =>
                                  /\ n <= active
                                  /\ event = "launch" => n < active
        BY <2>1, <3>2
      <3>4. CASE n = scan_thread
        <4>1. reported[n] = << >>
          BY <3>2, <3>4
        <4>2. Len(Append(reported[n], result)) = 1
          BY <4>1
        <4>3. QED
          BY <3>1, <3>4, <4>2
      <3>5. CASE n # scan_thread
        BY <3>1, <3>5
      <3>6. QED
        BY <3>4, <3>5
    <2>3. CASE ~(CompleteInstalled \/ CompleteFailed)
      <3>1. UNCHANGED reported /\ scan_pc # "exited"
        BY <1>2, <2>3 DEF ScanThread, ScanSucceeds, ObserveCancel, ScanFails, BuildIndex,
           Install, ClearCache, FinishInstalled, FinishFailedReads, FinishFailed
      <3>2. QED
        BY <2>1, <3>1
    <2>4. QED
      BY <2>2, <2>3
  <1>3. CASE (\E w \in Workers : SearchStep(w)) \/ UNCHANGED vars
    BY <1>3, SearchFrame DEF vars, scanVars
  <1>4. QED
    BY <1>1, <1>2, <1>3, NextSteps

\* What a lookup or an insertion of a search does to the cache: every entry
\* was there or pairs the worker's query with the hits of its snapshot.
LEMMA CacheStep ==
    ASSUME SearchTypeOK, CacheWellFormed, [Next]_vars
    PROVE  /\ CacheWellFormed'
           /\ \A j \in 1..Len(cache') :
                  \/ \E i \in 1..Len(cache) : cache'[j] = cache[i]
                  \/ \E w \in Workers :
                        /\ search[w].pc # "idle"
                        /\ cache'[j].key = search[w].query
                        /\ cache'[j].value = [generation |-> search[w].snapshot.generation,
                                             hits |-> HitsOf(search[w].snapshot, search[w].query)]
  <1> DEFINE CacheEntry == [key : Queries, value : CachedSearch]
             Goal == /\ CacheWellFormed'
                     /\ \A j \in 1..Len(cache') :
                            \/ \E i \in 1..Len(cache) : cache'[j] = cache[i]
                            \/ \E w \in Workers :
                                  /\ search[w].pc # "idle"
                                  /\ cache'[j].key = search[w].query
                                  /\ cache'[j].value =
                                        [generation |-> search[w].snapshot.generation,
                                         hits |-> HitsOf(search[w].snapshot, search[w].query)]
  <1> USE DEF CacheWellFormed
  <1>1. cache \in Seq(CacheEntry)
    BY DEF SearchTypeOK
  <1>2. CASE UNCHANGED cache
    BY <1>2
  <1>3. CASE cache' = AfterClear
    BY <1>3 DEF AfterClear, WellFormed
  <1>4. ASSUME NEW w \in Workers, SearchLooksUp(w)
        PROVE  Goal
    BY <1>1, <1>4, GetPreserves DEF SearchLooksUp
  <1>5. ASSUME NEW w \in Workers, SearchComputes(w)
        PROVE  Goal
    <2> DEFINE s == search[w].snapshot
               q == search[w].query
               value == [generation |-> s.generation, hits |-> HitsOf(s, q)]
    <2>1. search[w] \in Search /\ search[w].pc # "idle"
      BY <1>5 DEF SearchComputes, SearchTypeOK, IdleSearch
    <2>2. q \in Queries /\ s \in Snapshot
      BY <2>1 DEF Search
    <2>3. Entry(q, value) \in CacheEntry
      BY <2>2 DEF Entry, HitsOf, Hits, CachedSearch, Snapshot
    <2>4. cache' = AfterPut(cache, q, value, CacheCapacity)
      BY <1>5 DEF SearchComputes
    <2>5. /\ WellFormed(cache', CacheCapacity)
          /\ \A j \in 1..Len(cache') : \/ cache'[j] = Entry(q, value)
                                      \/ \E i \in 1..Len(cache) : cache'[j] = cache[i]
      <3> HIDE DEF q, value, CacheEntry
      <3>1. WellFormed(AfterPut(cache, q, value, CacheCapacity), CacheCapacity)
        BY <1>1, <2>3, PutPreserves
      <3>2. \A j \in 1..Len(AfterPut(cache, q, value, CacheCapacity)) :
               \/ AfterPut(cache, q, value, CacheCapacity)[j] = Entry(q, value)
               \/ \E i \in 1..Len(cache) :
                     AfterPut(cache, q, value, CacheCapacity)[j] = cache[i]
        BY <1>1, <2>3, PutPreserves
      <3>3. QED
        BY <2>4, <3>1, <3>2, Zenon
    <2>6. Entry(q, value).key = q /\ Entry(q, value).value = value
      BY DEF Entry
    <2>7. QED
      BY <2>1, <2>5, <2>6
  <1>6. CASE EventStep \/ UNCHANGED vars
    BY <1>2, <1>6, EventFrame DEF vars
  <1>7. CASE ScanThread
    <2>1. cache' = cache \/ cache' = AfterClear
      BY <1>7 DEF ScanThread, ScanSucceeds, ObserveCancel, ScanFails, BuildIndex, Install,
         ClearCache, FinishInstalled, FinishFailedReads, FinishFailed, CompleteInstalled,
         CompleteFailed, CompleteScan
    <2>2. QED
      BY <1>2, <1>3, <2>1
  <1>8. ASSUME NEW w \in Workers, SearchStep(w), ~SearchLooksUp(w), ~SearchComputes(w)
        PROVE  Goal
    <2>1. CASE SearchNotReady(w)
      BY <1>2, <2>1 DEF SearchNotReady
    <2>2. CASE \E q \in Queries : SearchCopiesSnapshot(w, q)
      BY <1>2, <2>2 DEF SearchCopiesSnapshot
    <2>3. CASE SearchReadsState(w)
      BY <1>2, <2>3 DEF SearchReadsState
    <2>4. CASE SearchClearsCache(w)
      BY <1>3, <2>4 DEF SearchClearsCache
    <2>5. QED
      BY <1>8, <2>1, <2>2, <2>3, <2>4 DEF SearchStep, SearchThread
  <1>9. QED
    BY <1>4, <1>5, <1>6, <1>7, <1>8, NextSteps

\* What a step does to the searches: each goes on with its snapshot, ends, or
\* begins with the current one.
LEMMA SearchesStep ==
    ASSUME SearchTypeOK, [Next]_vars, NEW w \in Workers, search'[w].pc # "idle"
    PROVE  \/ /\ search[w].pc # "idle"
              /\ search'[w].snapshot = search[w].snapshot
           \/ current_snapshot # None /\ search'[w].snapshot = current_snapshot
  <1> DEFINE Goal == \/ /\ search[w].pc # "idle"
                        /\ search'[w].snapshot = search[w].snapshot
                     \/ current_snapshot # None /\ search'[w].snapshot = current_snapshot
  <1> USE DEF SearchTypeOK
  <1>1. CASE UNCHANGED search
    BY <1>1
  <1>2. ASSUME NEW v \in Workers, NEW q \in Queries, SearchCopiesSnapshot(v, q)
        PROVE  Goal
    <2>1. CASE v = w
      BY <1>2, <2>1 DEF SearchCopiesSnapshot, IdleSearch
    <2>2. CASE v # w
      BY <1>2, <2>2 DEF SearchCopiesSnapshot
    <2>3. QED
      BY <2>1, <2>2
  <1>3. ASSUME NEW v \in Workers, SearchThread(v)
        PROVE  Goal
    <2>1. search[v] \in Search /\ search[v].pc # "idle"
      BY <1>3 DEF SearchThread, SearchReadsState, SearchLooksUp, SearchClearsCache,
         SearchComputes, IdleSearch
    <2>2. CASE v # w
      <3>1. search'[w] = search[w]
        BY <1>3, <2>2 DEF SearchThread, SearchReadsState, SearchLooksUp, SearchClearsCache,
           SearchComputes, Respond
      <3>2. QED
        BY <3>1
    <2>3. CASE v = w
      <3>1. CASE SearchReadsState(w)
        BY <2>1, <2>3, <3>1 DEF SearchReadsState, Search
      <3>2. CASE SearchLooksUp(w)
        <4>1. \/ search' = [search EXCEPT ![w].pc = "compute"]
              \/ search' = [search EXCEPT ![w].pc = "clear"]
              \/ search' = [search EXCEPT ![w] = IdleSearch]
          BY <3>2 DEF SearchLooksUp, Respond
        <4>2. QED
          BY <2>1, <2>3, <4>1 DEF IdleSearch, Search
      <3>3. CASE SearchClearsCache(w)
        BY <2>1, <2>3, <3>3 DEF SearchClearsCache, Search
      <3>4. CASE SearchComputes(w)
        BY <2>1, <2>3, <3>4 DEF SearchComputes, Respond, IdleSearch
      <3>5. QED
        BY <1>3, <2>3, <3>1, <3>2, <3>3, <3>4 DEF SearchThread
    <2>4. QED
      BY <2>2, <2>3
  <1>4. ASSUME NEW v \in Workers, SearchNotReady(v)
        PROVE  Goal
    BY <1>1, <1>4 DEF SearchNotReady
  <1>5. CASE EventStep \/ ScanThread \/ UNCHANGED vars
    BY <1>1, <1>5, EventFrame, ScanFrame DEF vars, searchVars
  <1>6. QED
    BY <1>2, <1>3, <1>4, <1>5, NextSteps DEF SearchStep

\* What a step does to the installed snapshot: nothing, or the scan thread puts
\* in one of the next generation, and no search or cache entry changes with it.
LEMMA IndexStep ==
    ASSUME TypeOK, InstallInv, [Next]_vars
    PROVE  \/ UNCHANGED indexVars
           \/ /\ Install
              /\ current_snapshot' = [generation |-> next_generation, content |-> scan_thread]
              /\ next_generation' = next_generation + 1
              /\ UNCHANGED <<cache, search, reply>>
  <1>1. CASE Install
    BY <1>1 DEF Install, InstallInv, searchVars
  <1>2. CASE ScanThread /\ ~Install
    BY <1>2 DEF ScanThread, ScanSucceeds, ObserveCancel, ScanFails, BuildIndex, ClearCache,
       FinishInstalled, FinishFailedReads, FinishFailed, CompleteInstalled, CompleteFailed,
       CompleteScan
  <1>3. CASE EventStep \/ (\E w \in Workers : SearchStep(w)) \/ UNCHANGED vars
    BY <1>3, EventFrame, SearchFrame DEF vars
  <1>4. QED
    BY <1>1, <1>2, <1>3, NextSteps

\* Two snapshots of one generation are one snapshot: an installation takes a
\* generation no thread and no cache entry has, every other step copies.
LEMMA GenerationInvStep ==
    TypeOK /\ InstallInv /\ GenerationInv /\ CacheWellFormed /\ [Next]_vars => GenerationInv'
  <1> SUFFICES ASSUME TypeOK, InstallInv, GenerationInv, CacheWellFormed, [Next]_vars
               PROVE  GenerationInv'
    OBVIOUS
  <1>1. /\ next_generation \in Nat
        /\ current_snapshot # None => current_snapshot \in Snapshot
        /\ \A w \in Workers : search[w].pc # "idle" => search[w].snapshot \in Snapshot
        /\ \A i \in 1..Len(cache) : cache[i].value.generation \in Nat
    <2>1. \A i \in 1..Len(cache) : cache[i].value \in CachedSearch
      BY CacheEntries DEF TypeOK
    <2>2. \A w \in Workers : search[w].pc # "idle" => search[w] \in Search
      BY DEF TypeOK, SearchTypeOK, IdleSearch
    <2>3. QED
      BY <2>1, <2>2 DEF TypeOK, ScanTypeOK, CachedSearch, Search
  <1>2. CASE Install /\ ~UNCHANGED indexVars
    <2>1. /\ current_snapshot' = [generation |-> next_generation, content |-> scan_thread]
          /\ next_generation' = next_generation + 1
          /\ UNCHANGED <<cache, search>>
      BY <1>2, IndexStep
    <2>2. /\ current_snapshot' # None
          /\ current_snapshot'.generation < next_generation'
      BY <1>1, <2>1, NoneIsNothing DEF TypeOK, ScanTypeOK, Snapshot
    <2>3. ASSUME NEW w \in Workers, search[w].pc # "idle"
          PROVE  /\ search[w].snapshot.generation < next_generation'
                 /\ Agree(search[w].snapshot, current_snapshot')
                 /\ \A v \in Workers :
                        search[v].pc # "idle" => Agree(search[w].snapshot, search[v].snapshot)
      <3>1. search[w].snapshot.generation \in Nat /\ Installed(search[w].snapshot)
        BY <1>1, <2>3 DEF GenerationInv, Snapshot
      <3>2. QED
        BY <1>1, <2>1, <2>3, <3>1 DEF Installed, Agree, GenerationInv
    <2>4. ASSUME NEW i \in 1..Len(cache)
          PROVE  /\ Origin(cache[i].value).generation < next_generation'
                 /\ cache[i].value.hits.query = cache[i].key
                 /\ Agree(Origin(cache[i].value), current_snapshot')
                 /\ \A w \in Workers : search[w].pc # "idle" =>
                        Agree(Origin(cache[i].value), search[w].snapshot)
      <3>1. cache[i].value.generation \in Nat /\ Installed(Origin(cache[i].value))
        BY <1>1 DEF GenerationInv
      <3>2. QED
        BY <1>1, <2>1, <3>1 DEF Installed, Agree, Origin, GenerationInv
    <2>5. QED
      BY <2>1, <2>2, <2>3, <2>4 DEF GenerationInv, Installed
  <1>3. CASE UNCHANGED indexVars
    <2>1. current_snapshot' = current_snapshot /\ next_generation' = next_generation
      BY <1>3 DEF indexVars
    <2>2. ASSUME NEW w \in Workers, search'[w].pc # "idle"
          PROVE  \/ /\ search[w].pc # "idle"
                    /\ search'[w].snapshot = search[w].snapshot
                 \/ current_snapshot # None /\ search'[w].snapshot = current_snapshot
      BY <2>2, SearchesStep DEF TypeOK
    <2>3. ASSUME NEW j \in 1..Len(cache')
          PROVE  \/ \E i \in 1..Len(cache) : cache'[j] = cache[i]
                 \/ \E w \in Workers :
                       /\ search[w].pc # "idle"
                       /\ cache'[j].key = search[w].query
                       /\ Origin(cache'[j].value).generation = search[w].snapshot.generation
                       /\ Origin(cache'[j].value).content = search[w].snapshot.content
                       /\ cache'[j].value.hits.query = search[w].query
      <3>1. CASE \E i \in 1..Len(cache) : cache'[j] = cache[i]
        BY <3>1
      <3>2. ASSUME NEW w \in Workers, search[w].pc # "idle", cache'[j].key = search[w].query,
                   cache'[j].value = [generation |-> search[w].snapshot.generation,
                                      hits |-> HitsOf(search[w].snapshot, search[w].query)]
            PROVE  /\ Origin(cache'[j].value).generation = search[w].snapshot.generation
                   /\ Origin(cache'[j].value).content = search[w].snapshot.content
                   /\ cache'[j].value.hits.query = search[w].query
        BY <3>2 DEF Origin, HitsOf
      <3>3. QED
        BY CacheStep, <3>1, <3>2 DEF TypeOK
    <2>4. current_snapshot' # None => current_snapshot'.generation < next_generation'
      BY <2>1 DEF GenerationInv, Installed
    <2>5. ASSUME NEW w \in Workers, search'[w].pc # "idle"
          PROVE  /\ search'[w].snapshot.generation < next_generation'
                 /\ current_snapshot' # None => Agree(search'[w].snapshot, current_snapshot')
      BY <2>1, <2>2, <2>5 DEF GenerationInv, Installed, Agree
    <2>6. ASSUME NEW w \in Workers, search'[w].pc # "idle",
                 NEW v \in Workers, search'[v].pc # "idle"
          PROVE  Agree(search'[w].snapshot, search'[v].snapshot)
      BY <2>2, <2>6 DEF GenerationInv, Agree
    <2>7. ASSUME NEW j \in 1..Len(cache')
          PROVE  /\ Origin(cache'[j].value).generation < next_generation'
                 /\ cache'[j].value.hits.query = cache'[j].key
                 /\ current_snapshot' # None => Agree(Origin(cache'[j].value), current_snapshot')
                 /\ \A v \in Workers : search'[v].pc # "idle" =>
                        Agree(Origin(cache'[j].value), search'[v].snapshot)
      <3>1. CASE \E i \in 1..Len(cache) : cache'[j] = cache[i]
        <4>1. PICK i \in 1..Len(cache) : cache'[j] = cache[i]
          BY <3>1
        <4>2. /\ Installed(Origin(cache'[j].value))
              /\ cache'[j].value.hits.query = cache'[j].key
              /\ current_snapshot # None => Agree(Origin(cache'[j].value), current_snapshot)
              /\ \A v \in Workers : search[v].pc # "idle" =>
                     Agree(Origin(cache'[j].value), search[v].snapshot)
          BY <4>1 DEF GenerationInv
        <4>3. QED
          BY <2>1, <2>2, <4>2 DEF Installed
      <3>2. CASE \E w \in Workers :
                     /\ search[w].pc # "idle"
                     /\ cache'[j].key = search[w].query
                     /\ Origin(cache'[j].value).generation = search[w].snapshot.generation
                     /\ Origin(cache'[j].value).content = search[w].snapshot.content
                     /\ cache'[j].value.hits.query = search[w].query
        <4>1. PICK w \in Workers :
                     /\ search[w].pc # "idle"
                     /\ cache'[j].key = search[w].query
                     /\ Origin(cache'[j].value).generation = search[w].snapshot.generation
                     /\ Origin(cache'[j].value).content = search[w].snapshot.content
                     /\ cache'[j].value.hits.query = search[w].query
          BY <3>2
        <4>2. /\ Installed(search[w].snapshot)
              /\ current_snapshot # None => Agree(search[w].snapshot, current_snapshot)
              /\ \A v \in Workers :
                     search[v].pc # "idle" => Agree(search[w].snapshot, search[v].snapshot)
          BY <4>1 DEF GenerationInv
        <4>3. QED
          BY <2>1, <2>2, <4>1, <4>2 DEF Installed, Agree
      <3>3. QED
        BY <2>3, <3>1, <3>2
    <2>8. QED
      BY <2>4, <2>5, <2>6, <2>7 DEF GenerationInv, Installed
  <1>4. QED
    BY <1>2, <1>3, IndexStep

\* A search's reply is computed from its own snapshot, or taken from an entry
\* of the same generation and so of the same snapshot.
LEMMA HitsMatchStep ==
    TypeOK /\ GenerationInv /\ HitsMatchSnapshot /\ [Next]_vars => HitsMatchSnapshot'
  <1> SUFFICES ASSUME TypeOK, GenerationInv, HitsMatchSnapshot, [Next]_vars
               PROVE  HitsMatchSnapshot'
    OBVIOUS
  <1>1. ASSUME NEW w \in Workers, NEW hits, Respond(w, hits),
               search[w] \in Search, hits = HitsOf(search[w].snapshot, search[w].query)
        PROVE  HitsMatchSnapshot'
    <2>1. /\ reply'[w].hits = hits
          /\ reply'[w].snapshot = search[w].snapshot
          /\ reply'[w].query = search[w].query
      BY <1>1 DEF Respond, TypeOK, SearchTypeOK
    <2>2. \A v \in Workers : v # w => reply'[v] = reply[v]
      BY <1>1 DEF Respond, TypeOK, SearchTypeOK
    <2>3. QED
      BY <1>1, <2>1, <2>2 DEF HitsMatchSnapshot
  <1>2. CASE UNCHANGED reply
    BY <1>2 DEF HitsMatchSnapshot
  <1>3. ASSUME NEW w \in Workers, reply' = [reply EXCEPT ![w] = None]
        PROVE  HitsMatchSnapshot'
    BY <1>3 DEF HitsMatchSnapshot, TypeOK, SearchTypeOK
  <1>4. ASSUME NEW w \in Workers, SearchComputes(w)
        PROVE  HitsMatchSnapshot'
    <2>1. search[w] \in Search
      BY <1>4 DEF SearchComputes, TypeOK, SearchTypeOK, IdleSearch
    <2>2. Respond(w, HitsOf(search[w].snapshot, search[w].query))
      BY <1>4 DEF SearchComputes
    <2>3. QED
      BY <1>1, <2>1, <2>2
  <1>5. ASSUME NEW w \in Workers, SearchLooksUp(w)
        PROVE  HitsMatchSnapshot'
    <2>1. search[w] \in Search /\ search[w].pc # "idle"
      BY <1>5 DEF SearchLooksUp, TypeOK, SearchTypeOK, IdleSearch
    <2> DEFINE q == search[w].query
               value == ValueOf(cache, q)
    <2>2. CASE Holds(cache, q) /\ Serves(value, search[w].snapshot)
      <3>1. PICK i \in 1..Len(cache) : value = cache[i].value /\ cache[i].key = q
        BY <2>2, PositionHolds DEF ValueOf
      <3>2. value \in CachedSearch
        BY <3>1, CacheEntries DEF TypeOK
      <3>3. value.hits.content = search[w].snapshot.content /\ value.hits.query = q
        BY <2>1, <2>2, <3>1 DEF GenerationInv, Agree, Origin, Serves
      <3>4. value.hits = HitsOf(search[w].snapshot, q)
        BY <3>2, <3>3 DEF CachedSearch, Hits, HitsOf
      <3>5. Respond(w, value.hits)
        BY <1>5, <2>2 DEF SearchLooksUp
      <3>6. QED
        BY <1>1, <2>1, <3>4, <3>5
    <2>3. CASE ~(Holds(cache, q) /\ Serves(value, search[w].snapshot))
      BY <1>2, <1>5, <2>3 DEF SearchLooksUp
    <2>4. QED
      BY <2>2, <2>3
  <1>6. ASSUME NEW w \in Workers, SearchStep(w), ~SearchLooksUp(w), ~SearchComputes(w)
        PROVE  HitsMatchSnapshot'
    <2>1. CASE SearchNotReady(w)
      BY <1>3, <2>1 DEF SearchNotReady
    <2>2. CASE \E q \in Queries : SearchCopiesSnapshot(w, q)
      BY <1>3, <2>2 DEF SearchCopiesSnapshot
    <2>3. CASE SearchReadsState(w) \/ SearchClearsCache(w)
      BY <1>2, <2>3 DEF SearchReadsState, SearchClearsCache
    <2>4. QED
      BY <1>6, <2>1, <2>2, <2>3 DEF SearchStep, SearchThread
  <1>7. CASE EventStep \/ ScanThread \/ UNCHANGED vars
    BY <1>2, <1>7, EventFrame, ScanFrame DEF vars, searchVars
  <1>8. QED
    BY <1>4, <1>5, <1>6, <1>7, NextSteps

-----------------------------------------------------------------------------
\* What the threads may rely on about one another holds between any two of
\* their steps, however they interleave.
THEOREM InductiveInvariant == Spec => []IInv
  <1>1. IInv /\ [Next]_vars => IInv'
    <2> SUFFICES ASSUME IInv, [Next]_vars PROVE IInv'
      OBVIOUS
    <2> USE DEF IInv
    <2>1. TypeOK' /\ ThreadInv' /\ InstallInv'
      BY TypeOKStep, ThreadInvStep, InstallInvStep
    <2>2. StateInv' /\ ReportInv'
      BY StateInvStep, ReportInvStep
    <2>3. GenerationInv' /\ HitsMatchSnapshot'
      BY GenerationInvStep, HitsMatchStep
    <2>4. CacheWellFormed'
      BY CacheStep DEF TypeOK
    <2>5. QED
      BY <2>1, <2>2, <2>3, <2>4
  <1>2. QED
    BY InitIInv, <1>1, PTL DEF Spec

\* Every variable keeps its type: in particular a search past its first step has
\* a snapshot and the failure path an error to report.
THEOREM TypeCorrect == Spec => []TypeOK
  BY InductiveInvariant, PTL DEF IInv

\* However searches, installations and cache clears overlap, a search answers
\* with hits of the snapshot whose generation it reports.
THEOREM SearchesAreConsistent == Spec => []HitsMatchSnapshot
  BY InductiveInvariant, PTL DEF IInv

\* The search cache never outgrows its capacity nor holds a key twice.
THEOREM CacheStaysWellFormed == Spec => []CacheWellFormed
  BY InductiveInvariant, PTL DEF IInv

\* Every scan that is admitted leaves state_ by itself: the service refuses
\* scans with Busy exactly while one is under way, until it is shut down.
THEOREM BusyMeansScanning == Spec => []ScanningMeansScanning
  <1>1. IInv => ScanningMeansScanning
    BY DEF IInv, StateInv, ScanningMeansScanning
  <1>2. QED
    BY InductiveInvariant, <1>1, PTL

\* Without a scan under way the published state tells whether there is an index.
THEOREM StateIsTrue == Spec => []StateTellsSnapshot
  <1>1. IInv => StateTellsSnapshot
    BY DEF IInv, StateInv, StateTellsSnapshot
  <1>2. QED
    BY InductiveInvariant, <1>1, PTL

\* So what status() says of the scan and of the index is so, whichever steps of
\* scans, cancellations and a shutdown come between.
THEOREM StatusIsTrue == Spec => []StateTellsTruth
  BY BusyMeansScanning, StateIsTrue, PTL DEF StateTellsTruth

\* A shutdown that has returned has joined the scan thread and settled state_.
THEOREM ShutdownIsComplete == Spec => []ShutdownQuiesces
  <1>1. IInv => ShutdownQuiesces
    BY DEF IInv, StateInv, ThreadInv, ShutdownQuiesces
  <1>2. QED
    BY InductiveInvariant, <1>1, PTL

\* No scan calls its completion callback twice.
THEOREM CompletionIsUnique == Spec => []ReportedOnce
  <1>1. IInv => ReportedOnce
    BY DEF IInv, ReportInv, ReportedOnce
  <1>2. QED
    BY InductiveInvariant, <1>1, PTL

\* An installed index is replaced only by a newer generation of a later scan.
THEOREM IndexAdvances == Spec => IndexOnlyAdvances
  <1> DEFINE Advance == current_snapshot # None /\ current_snapshot' # current_snapshot =>
                           /\ current_snapshot' # None
                           /\ current_snapshot'.generation > current_snapshot.generation
                           /\ current_snapshot'.content > current_snapshot.content
  <1>1. IInv /\ [Next]_vars => [Advance]_vars
    <2> SUFFICES ASSUME IInv, [Next]_vars, current_snapshot # None,
                        current_snapshot' # current_snapshot
                 PROVE  /\ current_snapshot' # None
                        /\ current_snapshot'.generation > current_snapshot.generation
                        /\ current_snapshot'.content > current_snapshot.content
      OBVIOUS
    <2>1. /\ Install
          /\ current_snapshot' = [generation |-> next_generation, content |-> scan_thread]
      BY IndexStep DEF IInv, indexVars
    <2>2. current_snapshot \in Snapshot /\ next_generation \in Nat /\ scan_thread \in Nat
      BY DEF IInv, TypeOK, ScanTypeOK
    <2>3. current_snapshot.generation < next_generation
      BY DEF IInv, GenerationInv, Installed
    <2>4. scan_pc = "built" /\ scan_thread # 0
      BY <2>1 DEF Install, IInv, ThreadInv
    <2>5. current_snapshot.content < scan_thread
      BY <2>2, <2>4 DEF IInv, InstallInv, Current, Snapshot
    <2>6. QED
      BY <2>1, <2>2, <2>3, <2>5, NoneIsNothing DEF Snapshot
  <1>2. QED
    BY InductiveInvariant, <1>1, PTL DEF Spec, IndexOnlyAdvances

-----------------------------------------------------------------------------
\* A scan that has not installed its snapshot, and does not any more once it
\* has seen its cancel: it is not yet started, at work, or ends as cancelled.
ReportedCancelled(n) == "Cancelled" \in {reported[n][i] : i \in 1..Len(reported[n])}

Uninstalled(n) ==
    \/ n > active
    \/ event = "launch" /\ n = active
    \/ n = scan_thread /\ scan_pc \in {"scanning", "building", "built"}
    \/ /\ n = scan_thread /\ scan_pc \in {"failing", "failed", "completing"}
       /\ scan_error = "Cancelled"
    \/ ReportedCancelled(n)

NoTrace(n) ==
    /\ current_snapshot # None => current_snapshot.content # n
    /\ \A i \in 1..Len(cache) : cache[i].value.hits.content # n
    /\ \A w \in Workers : search[w].snapshot # None => search[w].snapshot.content # n

CancelInv == \A n \in Scans : Uninstalled(n) => NoTrace(n)

\* What a step does to the reports: nothing, or the scan thread adds its own.
LEMMA ReportStep ==
    ASSUME TypeOK, ThreadInv, [Next]_vars, NEW n \in Scans, ReportedCancelled(n)', ~ReportedCancelled(n)
    PROVE  n = scan_thread /\ scan_pc = "completing" /\ scan_error = "Cancelled"
  <1>1. reported' # reported
    BY DEF ReportedCancelled
  <1>2. CompleteInstalled \/ CompleteFailed
    BY <1>1, NextSteps, EventFrame, SearchFrame DEF ScanThread, ScanSucceeds, ObserveCancel,
       ScanFails, BuildIndex, Install, ClearCache, FinishInstalled, FinishFailedReads, FinishFailed,
       vars
  <1>3. /\ reported \in [Scans -> Seq({"installed"} \cup Errors)]
        /\ scan_thread # 0
        /\ scan_thread \in Nat /\ active \in Nat
        /\ scan_thread \in Scans
    BY <1>2 DEF TypeOK, ThreadInv, ScanTypeOK, ControlTypeOK, CompleteInstalled, CompleteFailed, Scans
  <1>4. ASSUME NEW result \in {"installed"} \cup Errors, CompleteScan(result)
        PROVE  n = scan_thread /\ result = "Cancelled"
    <2>1. reported' = [reported EXCEPT ![scan_thread] = Append(reported[scan_thread], result)]
      BY <1>4 DEF CompleteScan
    <2>2. n = scan_thread
      BY <1>3, <2>1 DEF ReportedCancelled
    <2>3. reported[n] \in Seq({"installed"} \cup Errors) /\ reported'[n] = Append(reported[n], result)
      BY <1>3, <2>1, <2>2
    <2>4. ASSUME NEW i \in 1..Len(reported'[n])
          PROVE  \/ reported'[n][i] = result
                 \/ i \in 1..Len(reported[n]) /\ reported'[n][i] = reported[n][i]
      BY <2>3
    <2>5. PICK i \in 1..Len(reported'[n]) : reported'[n][i] = "Cancelled"
      BY DEF ReportedCancelled
    <2>6. QED
      BY <2>2, <2>4, <2>5 DEF ReportedCancelled
  <1>5. CASE CompleteInstalled
    BY <1>4, <1>5 DEF CompleteInstalled
  <1>6. CASE CompleteFailed
    <2>1. scan_error \in Errors
      BY <1>6 DEF CompleteFailed, TypeOK, ScanTypeOK
    <2>2. QED
      BY <1>4, <1>6, <2>1 DEF CompleteFailed
  <1>7. QED
    BY <1>2, <1>5, <1>6

\* No scan becomes one that has not installed its snapshot.
LEMMA UninstalledStep ==
    ASSUME TypeOK, ThreadInv, [Next]_vars, NEW n \in Scans, Uninstalled(n)'
    PROVE  Uninstalled(n)
  <1>1. CASE ReportedCancelled(n)'
    BY <1>1, ReportStep DEF Uninstalled
  <1>2. CASE ~ReportedCancelled(n)'
    <2> USE DEF Uninstalled
    <2>1. active \in Nat /\ scan_thread \in Nat /\ n \in Nat
      BY DEF TypeOK, ControlTypeOK, ScanTypeOK, Scans
    <2>2. CASE EventStep
      <3>1. UNCHANGED scan_error
        BY <2>2, EventFrame
      <3>2. CASE AdmitScan
        BY <1>2, <2>1, <3>1, <3>2 DEF AdmitScan, scanVars
      <3>3. CASE LaunchScan
        BY <1>2, <2>1, <3>1, <3>3 DEF LaunchScan
      <3>4. CASE StartScan \/ JoinFinishedScan \/ RefuseScan \/ LaunchThrows \/ FailurePathThrows \/ CancelScan
        BY <1>2, <2>1, <3>1, <3>4 DEF StartScan, JoinFinishedScan, RefuseScan, LaunchThrows, FailurePathThrows,
           CancelScan, scanVars, eventVars
      <3>5. CASE Shutdown \/ ShutdownCancel \/ ShutdownJoin \/ ShutdownSettle
        BY <1>2, <2>1, <3>1, <3>5 DEF Shutdown, ShutdownCancel, ShutdownJoin, ShutdownSettle, scanVars
      <3>6. QED
        BY <2>2, <3>2, <3>3, <3>4, <3>5 DEF EventStep, EventThread
    <2>3. CASE ScanThread
      <3>1. UNCHANGED eventVars
        BY <2>3, ScanFrame
      <3>2. CASE ScanSucceeds \/ ObserveCancel \/ ScanFails \/ BuildIndex
        BY <1>2, <3>1, <3>2 DEF ScanSucceeds, ObserveCancel, ScanFails, BuildIndex, eventVars
      <3>3. CASE Install \/ ClearCache \/ FinishInstalled
        BY <1>2, <3>1, <3>3 DEF Install, ClearCache, FinishInstalled, eventVars
      <3>4. CASE FinishFailedReads \/ FinishFailed
        BY <1>2, <3>1, <3>4 DEF FinishFailedReads, FinishFailed, eventVars
      <3>5. CASE CompleteInstalled \/ CompleteFailed
        BY <1>2, <3>1, <3>5 DEF CompleteInstalled, CompleteFailed, CompleteScan, eventVars
      <3>6. QED
        BY <2>3, <3>2, <3>3, <3>4, <3>5 DEF ScanThread
    <2>4. CASE (\E w \in Workers : SearchStep(w)) \/ UNCHANGED vars
      BY <1>2, <2>4, SearchFrame DEF vars, eventVars, scanVars
    <2>5. QED
      BY <2>2, <2>3, <2>4, NextSteps
  <1>3. QED
    BY <1>1, <1>2

\* Only the installation of a scan brings its files anywhere.
LEMMA TraceStep ==
    ASSUME IInv, IInv', [Next]_vars, NEW n \in Scans, NoTrace(n), ~(Install /\ n = scan_thread)
    PROVE  NoTrace(n)'
  <1> USE DEF NoTrace
  <1>1. SearchTypeOK /\ SearchTypeOK' /\ CacheWellFormed
    BY DEF IInv, TypeOK
  <1>2. current_snapshot' # None => current_snapshot'.content # n
    BY IndexStep DEF IInv, indexVars
  <1>3. \A w \in Workers : search[w].pc # "idle" => search[w].snapshot # None
    BY <1>1, NoneIsNothing DEF SearchTypeOK, Search, IdleSearch
  <1>4. ASSUME NEW j \in 1..Len(cache') PROVE cache'[j].value.hits.content # n
    <2>1. CASE \E i \in 1..Len(cache) : cache'[j] = cache[i]
      BY <2>1
    <2>2. CASE \E w \in Workers :
                  /\ search[w].pc # "idle"
                  /\ cache'[j].key = search[w].query
                  /\ cache'[j].value = [generation |-> search[w].snapshot.generation,
                                       hits |-> HitsOf(search[w].snapshot, search[w].query)]
      BY <1>3, <2>2 DEF HitsOf
    <2>3. QED
      BY <1>1, <2>1, <2>2, CacheStep
  <1>5. ASSUME NEW w \in Workers, search'[w].snapshot # None
        PROVE  search'[w].snapshot.content # n
    <2>1. search'[w].pc # "idle"
      BY <1>1, <1>5 DEF SearchTypeOK, Search, IdleSearch
    <2>2. QED
      BY <1>1, <1>3, <2>1, SearchesStep
  <1>6. QED
    BY <1>2, <1>4, <1>5

\* What CancelInv says holds throughout.
LEMMA CancelInvHolds == Spec => []CancelInv
  <1>1. Init => CancelInv
    BY DEF Init, CancelInv, NoTrace, AfterClear, IdleSearch
  <1>2. IInv /\ IInv' /\ CancelInv /\ [Next]_vars => CancelInv'
    <2> SUFFICES ASSUME IInv, IInv', CancelInv, [Next]_vars, NEW n \in Scans, Uninstalled(n)'
                 PROVE  NoTrace(n)'
      BY DEF CancelInv
    <2>1. Uninstalled(n) /\ NoTrace(n)
      BY UninstalledStep DEF IInv, CancelInv
    <2>2. ~(Install /\ n = scan_thread)
      <3> SUFFICES ASSUME Install, n = scan_thread PROVE FALSE
        OBVIOUS
      <3>1. scan_pc = "built" /\ scan_pc' = "installed" /\ UNCHANGED <<eventVars, reported>>
        BY DEF Install
      <3>2. reported[n] = << >> /\ n <= active /\ (event = "launch" => n < active)
        BY <3>1 DEF IInv, ReportInv, ThreadInv
      <3>3. active \in Nat /\ n \in Nat
        BY DEF IInv, TypeOK, ControlTypeOK, Scans
      <3>4. ~ReportedCancelled(n)'
        BY <3>1, <3>2 DEF ReportedCancelled
      <3>5. ~Uninstalled(n)'
        BY <3>1, <3>2, <3>3, <3>4 DEF Uninstalled, eventVars
      <3>6. QED
        BY <3>5
    <2>3. QED
      BY <2>1, <2>2, TraceStep
  <1>3. QED
    BY InductiveInvariant, <1>1, <1>2, PTL DEF Spec

\* A cancelled scan has left nothing behind, whenever the cancel came.
THEOREM CancelIsClean == Spec => []CancelledLeavesNoTrace
  <1>1. CancelInv => CancelledLeavesNoTrace
    BY DEF CancelInv, CancelledLeavesNoTrace, Uninstalled, ReportedCancelled, NoTrace
  <1>2. QED
    BY CancelInvHolds, <1>1, PTL

-----------------------------------------------------------------------------
(***************************************************************************)
(* The controller implements IndexService, step by step.                   *)
(***************************************************************************)
\* The next installation takes the generation after the current one.
NextGenerationInv == next_generation = Abstract!Generation(current_snapshot) + 1

LEMMA NextGenerationStep ==
    ASSUME IInv, NextGenerationInv, [Next]_vars
    PROVE  NextGenerationInv'
  <1>1. CASE UNCHANGED indexVars
    BY <1>1 DEF indexVars, NextGenerationInv, Abstract!Generation
  <1>2. CASE /\ current_snapshot' = [generation |-> next_generation, content |-> scan_thread]
             /\ next_generation' = next_generation + 1
    <2>1. current_snapshot' \in Snapshot
      BY <1>2 DEF IInv, TypeOK, ScanTypeOK, Snapshot
    <2>2. current_snapshot' # None /\ current_snapshot'.generation = next_generation
      BY <1>2, <2>1, NoneIsNothing
    <2>3. QED
      BY <1>2, <2>2 DEF NextGenerationInv, Abstract!Generation
  <1>3. QED
    BY <1>1, <1>2, IndexStep DEF IInv

\* A step of the event thread starts a scan, kills the process, or does nothing
\* the abstract service knows of.
LEMMA EventImplements ==
    ASSUME IInv, Running, EventStep
    PROVE  [Abstract!Next]_(Abstract!vars)
  <1>1. UNCHANGED <<current_snapshot, Outcome, Asked, Answers>>
    BY EventFrame DEF indexVars, searchVars, Outcome, Asked, Answers
  <1>2. CASE LaunchScan /\ scan_thread = 0
    <2>1. /\ event = "launch" /\ scan_pc = "none"
          /\ scan_thread' = active /\ scan_pc' = "scanning" /\ fate' = fate
      BY <1>2 DEF LaunchScan, IInv, ThreadInv
    <2>2. active \in Scans
      BY <1>2, <2>1 DEF IInv, ThreadInv, TypeOK, ControlTypeOK, Scans
    <2>3. Outcome[active] = None
      BY <2>1, <2>2 DEF IInv, ReportInv, Outcome, TypeOK, ControlTypeOK
    <2>4. RunningScan = 0 /\ RunningScan' = active /\ Running' = Running
      BY <2>1 DEF RunningScan, Running
    <2>5. Abstract!BeginScan(active)
      BY <1>1, <2>3, <2>4 DEF Abstract!BeginScan
    <2>6. QED
      BY <2>2, <2>5 DEF Abstract!Next, Abstract!Scans, Scans
  <1>3. CASE LaunchThrows \/ FailurePathThrows \/ (LaunchScan /\ scan_thread # 0)
    <2>1. RunningScan' = RunningScan /\ Running' = FALSE
      BY <1>3 DEF LaunchThrows, FailurePathThrows, LaunchScan, RunningScan, Running, eventVars, scanVars
    <2>2. Abstract!Die
      BY <1>1, <2>1 DEF Abstract!Die
    <2>3. QED
      BY <2>2 DEF Abstract!Next
  <1>4. CASE JoinFinishedScan \/ ShutdownJoin
    <2>1. RunningScan' = RunningScan /\ Running' = Running
      BY <1>4 DEF JoinFinishedScan, ShutdownJoin, RunningScan, Running, IInv, ThreadInv
    <2>2. QED
      BY <1>1, <2>1 DEF Abstract!vars
  <1>5. CASE StartScan \/ RefuseScan \/ AdmitScan \/ CancelScan
    <2>1. RunningScan' = RunningScan /\ Running' = Running
      BY <1>5 DEF StartScan, RefuseScan, AdmitScan, CancelScan, RunningScan, Running, scanVars,
         eventVars
    <2>2. QED
      BY <1>1, <2>1 DEF Abstract!vars
  <1>6. CASE Shutdown \/ ShutdownCancel \/ ShutdownSettle
    <2>1. RunningScan' = RunningScan /\ Running' = Running
      BY <1>6 DEF Shutdown, ShutdownCancel, ShutdownSettle, RunningScan, Running, scanVars
    <2>2. QED
      BY <1>1, <2>1 DEF Abstract!vars
  <1>7. QED
    BY <1>2, <1>3, <1>4, <1>5, <1>6 DEF EventStep, EventThread

\* A scan that completes reports the outcome the index bears out.
LEMMA CompletionImplements ==
    ASSUME IInv, CancelInv, Running, CompleteInstalled \/ CompleteFailed
    PROVE  Abstract!Next
  <1>. DEFINE n == scan_thread
  <1>1. /\ n # 0 /\ n \in Scans /\ scan_pc \notin {"none", "exited"}
    BY DEF CompleteInstalled, CompleteFailed, IInv, ThreadInv, TypeOK, ScanTypeOK, ControlTypeOK, Scans
  <1>2. RunningScan = n /\ RunningScan' = 0
    BY <1>1 DEF RunningScan, CompleteInstalled, CompleteFailed, CompleteScan
  <1>3. UNCHANGED <<current_snapshot, Asked, Answers, Running>>
    BY DEF CompleteInstalled, CompleteFailed, CompleteScan, indexVars, searchVars, Asked, Answers,
       Running
  <1>4. ASSUME NEW result \in {"installed"} \cup Errors, CompleteScan(result)
        PROVE  Outcome' = [Outcome EXCEPT ![n] = result]
    <2>1. reported \in [Scans -> Seq({"installed"} \cup Errors)] /\ reported[n] = << >>
      BY <1>1 DEF IInv, TypeOK, ReportInv, CompleteInstalled, CompleteFailed
    <2>2. reported' = [reported EXCEPT ![n] = <<result>>]
      BY <1>1, <1>4, <2>1 DEF CompleteScan
    <2>3. /\ reported'[n] = <<result>> /\ <<result>> # << >> /\ <<result>>[1] = result
          /\ \A m \in Scans : m # n => reported'[m] = reported[m]
      BY <1>1, <2>1, <2>2
    <2>. HIDE DEF n
    <2>4. QED
      BY <1>1, <2>3 DEF Outcome
  <1>5. CASE CompleteInstalled
    <2>1. Current(n)
      BY <1>5 DEF CompleteInstalled, IInv, InstallInv
    <2>2. Outcome' = [Outcome EXCEPT ![n] = "installed"]
      BY <1>4, <1>5 DEF CompleteInstalled
    <2>3. Abstract!Report("installed")
      BY <1>1, <1>2, <1>3, <2>1, <2>2 DEF Current, Abstract!Report
    <2>4. QED
      BY <2>3 DEF Abstract!Next, Abstract!AnyReport
  <1>6. CASE CompleteFailed
    <2>1. scan_error \in Errors
      BY <1>6 DEF CompleteFailed, IInv, TypeOK, ScanTypeOK
    <2>2. Outcome' = [Outcome EXCEPT ![n] = scan_error]
      BY <1>4, <1>6, <2>1 DEF CompleteFailed
    <2>3. scan_error = "Cancelled" => (current_snapshot # None => current_snapshot.content # n)
      BY <1>1, <1>6 DEF CompleteFailed, CancelInv, Uninstalled, NoTrace
    <2>4. Abstract!Report(scan_error)
      BY <1>1, <1>2, <1>3, <2>1, <2>2, <2>3 DEF Abstract!Report, Errors
    <2>5. QED
      BY <2>1, <2>4 DEF Abstract!Next, Abstract!AnyReport, Errors
  <1>7. QED
    BY <1>5, <1>6

\* A step of the scan thread installs, reports, or does nothing that can be seen.
LEMMA ScanImplements ==
    ASSUME IInv, CancelInv, NextGenerationInv, Running, ScanThread
    PROVE  [Abstract!Next]_(Abstract!vars)
  <1>1. UNCHANGED <<Asked, Answers, Running>> /\ scan_thread' = scan_thread
    BY ScanFrame DEF searchVars, eventVars, Asked, Answers, Running
  <1>2. CASE Install
    <2>1. scan_pc = "built" /\ scan_pc' = "installed" /\ Outcome' = Outcome
      BY <1>2 DEF Install, Outcome
    <2>2. scan_thread # 0 /\ ~Current(scan_thread)
      BY <2>1 DEF IInv, ThreadInv, InstallInv
    <2>3. RunningScan = scan_thread /\ RunningScan' = RunningScan
      BY <1>1, <2>1 DEF RunningScan
    <2>4. current_snapshot' = [generation |-> next_generation, content |-> scan_thread]
      BY <1>2 DEF Install, IInv, InstallInv
    <2>5. Abstract!InstallIndex
      BY <1>1, <2>1, <2>2, <2>3, <2>4 DEF Abstract!InstallIndex, NextGenerationInv, Current
    <2>6. QED
      BY <2>5 DEF Abstract!Next
  <1>3. CASE CompleteInstalled \/ CompleteFailed
    BY <1>3, CompletionImplements
  <1>4. CASE ScanSucceeds \/ ObserveCancel \/ ScanFails \/ BuildIndex
    <2>1. UNCHANGED <<current_snapshot, reported>> /\ RunningScan' = RunningScan
      BY <1>1, <1>4 DEF ScanSucceeds, ObserveCancel, ScanFails, BuildIndex, indexVars, RunningScan
    <2>2. QED
      BY <1>1, <2>1 DEF Outcome, Abstract!vars
  <1>5. CASE ClearCache \/ FinishInstalled \/ FinishFailedReads \/ FinishFailed
    <2>1. UNCHANGED <<current_snapshot, reported>> /\ RunningScan' = RunningScan
      BY <1>1, <1>5 DEF ClearCache, FinishInstalled, FinishFailedReads, FinishFailed, indexVars,
         RunningScan
    <2>2. QED
      BY <1>1, <2>1 DEF Outcome, Abstract!vars
  <1>6. QED
    BY <1>2, <1>3, <1>4, <1>5 DEF ScanThread

\* A worker that responds gives the answer of the abstract service.
LEMMA ResponseImplements ==
    ASSUME IInv, IInv', Running, NEW w \in Workers, NEW hits \in Hits, Respond(w, hits),
           search[w].pc # "idle",
           UNCHANGED <<current_snapshot, RunningScan, Outcome, Running>>
    PROVE  Abstract!Next
  <1>1. /\ search \in [Workers -> Search \cup {IdleSearch}]
        /\ reply \in [Workers -> Reply \cup {None}]
        /\ reply' \in [Workers -> Reply \cup {None}]
    BY DEF IInv, TypeOK, SearchTypeOK
  <1>2. PICK s : s = search[w]
    OBVIOUS
  <1>3. s \in Search
    BY <1>1, <1>2 DEF IdleSearch
  <1>4. PICK r : r = [query |-> s.query, snapshot |-> s.snapshot, hits |-> hits, stale |-> s.stale]
    OBVIOUS
  <1>5. /\ search'[w] = IdleSearch /\ IdleSearch.pc = "idle" /\ reply'[w] = r
        /\ \A v \in Workers : v # w => search'[v] = search[v] /\ reply'[v] = reply[v]
    BY <1>1, <1>2, <1>4 DEF Respond, IdleSearch
  <1>6. r.query = s.query /\ r.snapshot = s.snapshot /\ r.hits = hits
    BY <1>4
  <1>7. r # None
    BY <1>3, <1>4, NoReplyAssumption DEF Search, Reply
  <1>8. hits = HitsOf(s.snapshot, s.query)
    BY <1>5, <1>6, <1>7 DEF IInv, HitsMatchSnapshot
  <1>9. Answers' = [Answers EXCEPT ![w] = hits]
    BY <1>1, <1>5, <1>6, <1>7 DEF Answers
  <1>10. Asked' = [Asked EXCEPT ![w] = None]
    BY <1>1, <1>5 DEF Asked
  <1>11. Asked[w] = [query |-> s.query, snapshot |-> s.snapshot]
    BY <1>2 DEF Asked
  <1>12. Asked[w] # None
    <2>1. s.query \in Queries /\ s.snapshot \in Snapshot
      BY <1>3 DEF Search
    <2>2. QED
      BY <1>11, <2>1, NoReplyAssumption
  <1>13. hits = Abstract!HitsOf(Asked[w].snapshot, Asked[w].query)
    BY <1>8, <1>11 DEF HitsOf, Abstract!HitsOf
  <1>14. Abstract!Answer(w)
    BY <1>9, <1>10, <1>12, <1>13 DEF Abstract!Answer
  <1>15. QED
    BY <1>14 DEF Abstract!Next

\* A step of a search asks, answers, finds no index, or does nothing to be seen.
LEMMA SearchImplements ==
    ASSUME IInv, IInv', Running, NEW w \in Workers, SearchStep(w)
    PROVE  [Abstract!Next]_(Abstract!vars)
  <1>1. UNCHANGED <<current_snapshot, RunningScan, Outcome, Running>>
    BY SearchFrame DEF indexVars, eventVars, scanVars, RunningScan, Outcome, Running
  <1>2. /\ search \in [Workers -> Search \cup {IdleSearch}]
        /\ reply \in [Workers -> Reply \cup {None}]
    BY DEF IInv, TypeOK, SearchTypeOK
  <1>3. ASSUME NEW s, search[w].pc # "idle", search' = [search EXCEPT ![w] = s], s.pc # "idle",
               s.query = search[w].query, s.snapshot = search[w].snapshot, UNCHANGED reply
        PROVE  UNCHANGED Abstract!vars
    <2>1. search'[w] = s /\ \A v \in Workers : v # w => search'[v] = search[v]
      BY <1>2, <1>3
    <2>2. Asked' = Asked /\ Answers' = Answers
      BY <1>3, <2>1 DEF Asked, Answers
    <2>3. QED
      BY <1>1, <2>2 DEF Abstract!vars
  <1>4. ASSUME NEW q \in Queries, SearchCopiesSnapshot(w, q)
        PROVE  Abstract!Next
    <2>1. /\ search[w].pc = "idle" /\ current_snapshot # None
          /\ search'[w].pc = "copied" /\ search'[w].query = q
          /\ search'[w].snapshot = current_snapshot
          /\ \A v \in Workers : v # w => search'[v] = search[v]
          /\ reply'[w] = None
          /\ \A v \in Workers : v # w => reply'[v] = reply[v]
      BY <1>2, <1>4 DEF SearchCopiesSnapshot, IdleSearch
    <2>2. Asked[w] = None
      BY <2>1 DEF Asked
    <2>3. Asked' = [Asked EXCEPT ![w] = [query |-> q, snapshot |-> current_snapshot]]
      BY <2>1 DEF Asked
    <2>4. Answers' = [Answers EXCEPT ![w] = None]
      BY <2>1 DEF Answers
    <2>5. Abstract!Ask(w, q)
      BY <1>1, <2>1, <2>2, <2>3, <2>4 DEF Abstract!Ask
    <2>6. QED
      BY <2>5 DEF Abstract!Next
  <1>5. CASE SearchNotReady(w)
    <2>1. /\ search[w].pc = "idle" /\ current_snapshot = None /\ UNCHANGED search
          /\ reply'[w] = None
          /\ \A v \in Workers : v # w => reply'[v] = reply[v]
      BY <1>2, <1>5 DEF SearchNotReady
    <2>2. Asked[w] = None /\ Asked' = Asked
      BY <2>1 DEF Asked
    <2>3. Answers' = [Answers EXCEPT ![w] = None]
      BY <2>1 DEF Answers
    <2>4. Abstract!NotReady(w)
      BY <1>1, <2>1, <2>2, <2>3 DEF Abstract!NotReady
    <2>5. QED
      BY <2>4 DEF Abstract!Next
  <1>6. ASSUME search[w].pc # "idle" PROVE search[w] \in Search
    BY <1>2, <1>6 DEF IdleSearch
  <1>7. CASE SearchReadsState(w)
    <2>1. search[w].pc # "idle" /\ UNCHANGED reply
      BY <1>7 DEF SearchReadsState
    <2>2. \E s : /\ search' = [search EXCEPT ![w] = s] /\ s.pc = "lookup"
                 /\ s.query = search[w].query /\ s.snapshot = search[w].snapshot
      <3>1. search' = [search EXCEPT ![w] = [search[w] EXCEPT !.pc = "lookup",
                                                              !.stale = (state = "Scanning")]]
        BY <1>2, <1>7 DEF SearchReadsState
      <3>2. PICK s : s = [search[w] EXCEPT !.pc = "lookup", !.stale = (state = "Scanning")]
        OBVIOUS
      <3>3. s.pc = "lookup" /\ s.query = search[w].query /\ s.snapshot = search[w].snapshot
        BY <1>6, <2>1, <3>2 DEF Search
      <3>4. QED
        BY <3>1, <3>2, <3>3
    <2>3. QED
      BY <1>3, <2>1, <2>2
  <1>8. ASSUME NEW pc \in {"clear", "compute"}, search[w].pc # "idle", UNCHANGED reply,
               search' = [search EXCEPT ![w].pc = pc]
        PROVE  UNCHANGED Abstract!vars
    <2>1. search' = [search EXCEPT ![w] = [search[w] EXCEPT !.pc = pc]]
      BY <1>2, <1>8
    <2>2. \E s : /\ search' = [search EXCEPT ![w] = s] /\ s.pc # "idle"
                 /\ s.query = search[w].query /\ s.snapshot = search[w].snapshot
      BY <1>6, <1>8, <2>1 DEF Search
    <2>3. QED
      BY <1>3, <1>8, <2>2
  <1>9. CASE SearchClearsCache(w)
    BY <1>8, <1>9 DEF SearchClearsCache
  <1>10. CASE SearchLooksUp(w)
    <2>. DEFINE hit == ValueOf(cache, search[w].query).hits
    <2>1. CASE Holds(cache, search[w].query) /\ Respond(w, hit)
      <3>1. PICK i \in 1..Len(cache) : ValueOf(cache, search[w].query) = cache[i].value
        BY <2>1, PositionHolds DEF ValueOf
      <3>2. hit \in Hits
        BY <3>1, CacheEntries DEF IInv, TypeOK, CachedSearch
      <3>3. search[w].pc # "idle"
        BY <1>10 DEF SearchLooksUp
      <3>. HIDE DEF hit
      <3>4. QED
        BY <1>1, <2>1, <3>2, <3>3, ResponseImplements
    <2>2. CASE ~(Holds(cache, search[w].query) /\ Respond(w, hit))
      BY <1>8, <1>10, <2>2 DEF SearchLooksUp
    <2>3. QED
      BY <2>1, <2>2
  <1>11. CASE SearchComputes(w)
    <2>1. search[w].pc # "idle" /\ Respond(w, HitsOf(search[w].snapshot, search[w].query))
      BY <1>11 DEF SearchComputes
    <2>2. HitsOf(search[w].snapshot, search[w].query) \in Hits
      BY <1>6, <2>1 DEF Search, Snapshot, Hits, HitsOf
    <2>3. QED
      BY <1>1, <2>1, <2>2, ResponseImplements
  <1>12. QED
    BY <1>4, <1>5, <1>7, <1>9, <1>10, <1>11 DEF SearchStep, SearchThread

\* Every step of the controller is one of the abstract service, or changes nothing
\* of it: threads, locks and cache show in no answer and no report.
THEOREM ControllerImplementsIndexService ==
    Spec => Abstract!Init /\ [][Abstract!Next]_(Abstract!vars)
  <1>1. Init => Abstract!Init /\ NextGenerationInv
    BY DEF Init, Abstract!Init, NextGenerationInv, Abstract!Generation, RunningScan, Outcome, Asked,
       Answers, Running, IdleSearch, Scans, Abstract!Scans
  <1>2. IInv /\ NextGenerationInv /\ [Next]_vars => NextGenerationInv'
    BY NextGenerationStep
  <1>3. IInv /\ IInv' /\ CancelInv /\ NextGenerationInv /\ [Next]_vars
            => [Abstract!Next]_(Abstract!vars)
    <2> SUFFICES ASSUME IInv, IInv', CancelInv, NextGenerationInv, [Next]_vars
                 PROVE  [Abstract!Next]_(Abstract!vars)
      OBVIOUS
    <2>1. CASE UNCHANGED vars
      BY <2>1 DEF vars, eventVars, scanVars, indexVars, searchVars, Abstract!vars, RunningScan,
         Outcome, Asked, Answers, Running
    <2>2. CASE Running /\ EventStep
      BY <2>2, EventImplements
    <2>3. CASE Running /\ ScanThread
      BY <2>3, ScanImplements
    <2>4. ASSUME Running, NEW w \in Workers, SearchStep(w)
          PROVE  [Abstract!Next]_(Abstract!vars)
      BY <2>4, SearchImplements
    <2>5. QED
      BY <2>1, <2>2, <2>3, <2>4 DEF Next, Dead, Calls, EventStep, SearchStep
  <1>4. QED
    BY InductiveInvariant, CancelInvHolds, <1>1, <1>2, <1>3, PTL DEF Spec
=============================================================================
