-------------------------- MODULE ServiceInvariant --------------------------
(***************************************************************************)
(* The inductive invariant of ServiceController: what the threads may rely *)
(* on about one another between two of their steps.  It implies the safety *)
(* properties stated there; ServiceController_proofs proves so.            *)
(***************************************************************************)
EXTENDS ServiceController

Current(n) == current_snapshot # None /\ current_snapshot.content = n

\* scan_thread_ is joinable exactly while there is a thread to join, and holds
\* a scan admitted before the one that waits to be launched.
ThreadInv ==
    /\ scan_thread = 0 <=> scan_pc = "none"
    /\ scan_thread <= active
    /\ event = "launch" => scan_thread < active
    /\ event \in {"join", "admit"} => active < MaxScans
    /\ active <= MaxScans

\* What is installed comes from an admitted scan, and from the running one only
\* once that one has installed it.
InstallInv ==
    /\ current_snapshot # None =>
           /\ current_snapshot.content \in 1..active
           /\ current_snapshot.content <= scan_thread \/ scan_thread = 0
           /\ event = "launch" => current_snapshot.content < active
    /\ scan_pc \in {"scanning", "building", "built"} => ~Current(scan_thread)
    /\ scan_pc \in {"installed", "cleared", "logging"} => Current(scan_thread)
    /\ scan_pc = "built" => built = [generation |-> next_generation, content |-> scan_thread]

\* state_ says Scanning while a scan is unsettled and otherwise tells whether
\* there is a snapshot; after the shutdown's join there is no thread.
StateInv ==
    /\ Unsettled => state = "Scanning"
    /\ state = "Scanning" => Unsettled \/ event = "launch" \/ shutdown_requested
    /\ event = "launch" /\ scan_thread = 0 => state = "Scanning"
    /\ scan_pc = "failed" => (has_snapshot <=> current_snapshot # None)
    /\ state = "Ready" => current_snapshot # None
    /\ state = "NoIndex" => current_snapshot = None
    /\ event \in {"shutdown_cancel", "shutdown_join", "shutdown_settle"} => shutdown_requested
    /\ shutdown_requested => event # "launch"
    /\ shutdown_requested /\ event \notin {"shutdown_cancel", "shutdown_join"} => scan_thread = 0
    /\ shutdown_requested /\ event \in {"idle", "join", "admit"} => state # "Scanning"

\* A scan has reported at most once, and only if its thread is at its end.
ReportInv ==
    \A n \in Scans :
        /\ Len(reported[n]) <= 1
        /\ reported[n] # << >> =>
               /\ n <= active
               /\ event = "launch" => n < active
               /\ n = scan_thread => scan_pc = "exited"

\* A snapshot a thread or the cache holds was installed: its generation is
\* used up, and two of one generation are one snapshot.
Installed(s) == s.generation < next_generation
Agree(s, t) == s.generation = t.generation => s.content = t.content
Origin(value) == [generation |-> value.generation, content |-> value.hits.content]

GenerationInv ==
    /\ current_snapshot # None => Installed(current_snapshot)
    /\ \A w \in Workers : search[w].pc # "idle" =>
           /\ Installed(search[w].snapshot)
           /\ current_snapshot # None => Agree(search[w].snapshot, current_snapshot)
           /\ \A v \in Workers : search[v].pc # "idle" => Agree(search[w].snapshot, search[v].snapshot)
    /\ \A i \in 1..Len(cache) :
           /\ Installed(Origin(cache[i].value))
           /\ cache[i].value.hits.query = cache[i].key
           /\ current_snapshot # None => Agree(Origin(cache[i].value), current_snapshot)
           /\ \A w \in Workers : search[w].pc # "idle" =>
                  Agree(Origin(cache[i].value), search[w].snapshot)

\* All that holds between any two steps of the threads.
IInv ==
    /\ TypeOK
    /\ ThreadInv
    /\ InstallInv
    /\ StateInv
    /\ ReportInv
    /\ GenerationInv
    /\ HitsMatchSnapshot
    /\ CacheWellFormed
=============================================================================
