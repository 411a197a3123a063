# CoreDesk in TLA+

CoreDesk is a local file-index service (`src/`, C++20 with Qt at its edges) with
desktop and command-line clients and a peer-to-peer file transfer. This
directory holds TLA+ modules of its concurrent core, TLC configurations that
check them, and TLAPS proofs about them. Paths below are relative to `src/` of
the repository root (`src/service/ServiceController.cpp` is
`src/src/service/ServiceController.cpp` in `PROJECT.json`).

## 1. The system

| Part | State | Operations | Meets |
|---|---|---|---|
| `ServiceController` (`src/service`) | `state_`, `shutdown_requested_`, `scan_thread_`, `active_scan_cancel_`, `current_snapshot_`, `next_generation_` | `start_scan`, `cancel_scan`, `search`, `status`, `shutdown`; the scan thread | called by `LocalIpcServer`; calls scanner, builder, engine; calls back on the scan thread |
| `SearchEngine`, `LruCache` (`src/index`) | LRU list and map | `search`, `clear_cache` | search-pool workers and the scan thread share the cache |
| `IndexBuilder`, `Tokenizer` | none between calls | `build`, `tokenize` | the scan thread |
| `FileScanner` (`src/filesystem`) | counters of one scan, errors, records | `scan`, one `ThreadPool` task a file | the scan thread and its pool's workers |
| `ThreadPool` (`src/concurrency`) | bounded queue, `accepting_`, `shutting_down_`, `active_`, two condition variables, stats | `submit`, `wait_idle`, `shutdown`, worker loop | scanner, IPC search pool |
| `Cancellation` (`src/common`) | a shared flag | `cancel`, `is_cancelled` | every scan |
| `FrameCodec`, `JsonPayload` (`src/protocol`) | the bytes of an unfinished frame | `push`, encode, decode | all sockets |
| `LocalIpcServer` (`adapters/qt_ipc`) | connections, their decoders and pending requests | dispatch of frames, replies from workers through queued calls | controller, transfer manager |
| `LocalIpcClient`, `MainWindow`, widgets (`ui`) | connection, retry deadline, latest request ids | requests, responses, reconnects | the service's pipe |
| `TcpTransferServer`, `TcpTransferClient` (`adapters/qt_network`) | one active receive; one active send | hello, offer, accept, chunks, finish, result | each other over TCP, the disk |
| `TransferManager` (`apps/service/transfer`) | server, one client, result callback | `start`, `stop`, `send_file`, `status` | IPC server, both transfer ends |
| service `main`, CLI, `Logger` | none of interest | wiring, order of shutdown | all |

What is hard in it: four kinds of thread share the controller and its cache;
state and snapshot sit under different mutexes and are read one after the other;
a scan can be cancelled, fail, throw or be overtaken by a shutdown at any step;
results cross from pool threads to connections that may be gone; a transfer
spans two processes, a connection that may break at any byte, and files that
must appear whole or not at all. The hazards, line by line, are in
`PROJECT.json`.

## 2. Plan

In order of importance; (done) marks what exists.

1. `LruCache`, `ServiceController`, `IndexService` (its abstract promise),
   `ServiceInvariant`, `ServiceController_proofs` (done).
2. `ThreadPool`, the abstract `Executor` it implements, `ThreadPool_proofs` (done).
3. `TcpTransferServer` (several peers, one receive, the directory) with
   `TcpTransferServer_proofs`; `TcpTransferClient` (manager, client, hash worker,
   pump) with `TcpTransferClient_proofs`; `FileTransfer`, which composes them over
   connections that break, its abstract promise `Delivery`, and `FileTransfer_proofs`
   (done).
4. `LocalIpcServer`: requests, search pool, late results, cancels from other
   connections, scan notifications, the order of the service's shutdown; composed
   with `IndexService` and `Executor`; `LocalIpcServer_proofs` (done).
5. `FileScanner` over `Executor`; `SearchIndex` (tokens, index, ranking) as
   operators; `Indexing`, which composes them and checks the answers against a
   definition without an index; `Indexing_proofs` (done).
6. `LocalIpcClient` and `Desktop`: connection retry, request ids, the states of the
   controls; `Desktop_proofs` (done).
7. Not begun: `FrameCodec` as a function of how the stream is cut.
   The refinements of `Executor`, `IndexService` and `Delivery` are proved step by
   step (section 9).

| Component | What makes it correct |
|---|---|
| `ServiceController` | one scan at a time; snapshot, generation, cache and state change together for anyone who looks; every scan reported once; shutdown waits for it |
| `ThreadPool` | each accepted task runs once, in order; no lost wakeup; `wait_idle` and `shutdown` return only when all is done |
| transfer receiver | a file appears whole, verified and never over another; the slot and the part file go with the transfer; other sockets do not interfere |
| transfer sender | one completion a send, whatever fails; `Ok` only for this transfer's result; nothing sent after the end |
| `LocalIpcServer` | an answer reaches the connection and request it belongs to or nobody; acceptance before progress before completion |
| `FileScanner` | each directory listed once, whatever links lead to it; no task left when it returns; a scan reported whole is whole |
| index and search | an answer is the best of what matches, whatever order the records were pushed in |
| `FrameCodec` | the frames do not depend on how the stream was cut |
| desktop | it awaits the replies that come and no others; the controls show what is under way and come back; the table answers the text; a retry ends |

## 3. The index service

`ServiceController.tla` has one action per critical section, join or token check
of the event thread (`start_scan`, `cancel_scan`, `shutdown`), of the scan thread
(the lambda of `start_scan`, `finish_scan_state`, `complete_scan`) and of each
search-pool worker (`search`, `SearchEngine::search`). Scans are numbered as they
are admitted; a number stands for the scan's cancellation source and for the
files it found. `EXTENDS LruCache` brings the cache's `get`, `put`, `clear` as
operators on a sequence. `IndexService.tla` is what callers are promised: one
scan at a time, atomic installation, one report, searches that answer from the
index they began with. Definitions headed "Mutant" are bugs the code does not
have; nothing uses them, they show what the properties detect.

| Run | Shows |
|---|---|
| `service` | the inductive invariant (types, the cache's form and at most one report a scan among its conjuncts), consistent answers, a status that tells the truth of scan and index, complete shutdown, cancelled scans without trace, an index that only advances, refinement of `IndexService`, and that every admitted scan reports, every search answers and every call returns |
| `service_terminates` | finding: `start_scan` can assign to a joinable thread |

Not a property: `search` copies the snapshot in one critical section and reads `state_` in
another (`SearchCopiesSnapshot`, `SearchReadsState`), so when a scan installs and settles
between them the answer comes from the old generation with `stale=false`, where
`docs/COREDESK_SPEC.md:638` has `stale=true`. What is thrown in a catch block of the scan
thread (logging, building the result) is caught by nobody and ends the process
(`FailurePathThrows`).

Bounds: two scans (a second scan is needed for everything that can go wrong
between generations; a third was run once by hand, 4.7 million states, and adds
nothing), two workers, and one query on a cache of one entry, which both workers look up,
clear and put: entries of another generation are what the cache's protocol is about. Two
queries, with evictions and with room for both, were run by hand for the safety
properties; the proof has any number.
Fairness: weak fairness of each thread, as the operating system gives it; none
of the users' calls. Every wait in the modelled code is a join or a mutex, so a
thread that can run stays able to run and weak fairness suffices. `Dead` is the
process after `std::terminate`; it is the only way for the system to stop.

## 4. The thread pool

`ThreadPool.tla` has one action per critical section of `submit`, `wait_idle`,
`shutdown` and `worker_loop`. A condition variable is the set of threads waiting
on it; `notify_one` wakes any one of them, `notify_all` all, and
`SpuriousWakeup` any at any time, so every predicate is evaluated again.
`Executor.tla` is what the pool promises: accepted tasks run, each once.

| Run | Shows |
|---|---|
| `pool` | the inductive invariant (the queue's bound and order, and the active count, among its conjuncts), what a returned `wait_idle` or `shutdown` means, refinement of `Executor`, and that every `submit`, `wait_idle` and `shutdown` returns |

Two workers let one end the last task while the other waits; two callers let one
wait or shut down while the other submits; three tasks and a queue of two make
the order of the queue visible and a third `submit` block. Larger numbers are
the proof's. Fairness is that of the operating system's threads, and tasks are
taken to end; nobody has to call the pool. `wait_idle`
returns because the submissions are finitely many: a pool fed for ever may stay
busy for ever.

## 5. The file transfer

`TcpTransferServer.tla` is the receiver: an action is a callback of its event
loop, with the frame's whole handler in it. Peers send any frame of `Frames` in
any order; `Bad...` is a payload that does not decode, `Garbage` bytes that are no
frame, which also stands for good frames dropped with them (`FrameDecoder::push`
fails as a whole). `SendFrame` either reaches the peer or takes the connection
down, as the code does when a remainder is pending, the write limit is met, or
the write fails now or later in `flush_write_remainder`. `SHA-256` is an unknown
function; nothing is assumed of it. `ReceiveState` is left out because the states a
callback can leave behind admit the same frames.

`TcpTransferClient.tla` is the sender: `TransferManager`'s outgoing half, the client
it makes for each send, the hash worker, the file, which other programs may
change, and the pump. The client's callbacks call the manager and the manager
calls the client back within one callback of the event loop, so what an event
does is a function on both (`FinishOutgoing`, `FailTransfer`, `HandleDisconnected`
compose as the calls nest). A closing socket ends in an action of its own; the
socket that ends at once is that action right after. A write is taken whole
or fails.

`FileTransfer.tla` instantiates both. `up` and `outbox` are the two directions of
each connection's stream, in order; a break is learnt by each end separately and
loses what was under way; a second send begins while the first one's connection
may still be open at the receiver. `Delivery.tla` is the promise: the file appears
at most once and at one stroke, each request gets one answer, and `Ok` only while
the file that is there has the digest offered.

| Run | Shows |
|---|---|
| `receiver_safety` | the receiver's invariant and action properties against two arbitrary peers, crash, restart and other programs |
| `receiver_overwrites` | finding: a received file named like a part file is deleted |
| `sender_safety` | the invariant (no send without something to wait for, no open file left behind, an offer that can be accepted has its file open); one completion a send, which never changes, and no frame after it |
| `transfer` | the joint invariant, in it that `Ok` means delivered (`OkMeansDelivered`); refinement of `Delivery` with a changing file, a rival transfer of the same name and foreign files; every send ends |

Bounds: two sockets suffice for the receiver, as its one slot has one owner and
every other socket is alike; files have at most two blocks, so that chunks can be
out of place, too long, missing and complete; two names, so that transfers of
different names follow one another; one reply in flight on a connection
(`MaxOutbox`), the frame before it having been read; `HighWater` one frame, so that
the pump stops and goes on. In `sender_safety` the file changes, grows and may
vanish while it is not open, and there are two sends: a third meets what a second
meets. `transfer` keeps one send of one block (`MCSources`) so that liveness is
checked together with safety. Run once by hand, and all passing: two sends with
foreign files (safety, 538,000 states), two sends (liveness, 157,000 states), and a
file that grows to two blocks with chunks of two (`Sources` of `<<"a">>` and `<<"a", "b">>`),
where a chunk overshoots the size offered. Fairness: both event loops run, the hash ends, a
connection attempt ends, a closing socket closes, and an end learns that the
other is gone. No user acts, the rival may hold the slot for ever, and since
neither end has a timeout, a peer whose event loop stands still is not covered.

What the composition shows beyond its parts: a file that is in place may still
be reported as failed (its result was lost, and the retry gets `TargetExists`), but
never the other way round. And a result that comes before the sender expects it, because a chunk
failed while later ones were being sent, is reported as `ProtocolError` (`HandleFileResult`,
`TcpTransferClient.cpp:437`), or as `InvalidArgument` after the finish (448), and not with the
receiver's code, though `docs/PROTOCOL.md:127` calls `FileResult` "the terminal success or failure
response". The send still ends once, which is what `sender_safety` and `transfer` check.

## 6. The IPC server

`LocalIpcServer.tla` has one action per callback of the Qt thread (a connection
made or lost, a request dispatched, a posted call), per step of the scan thread and
of a search that others can see, and per stage of the end of `main`. The
controller and the search pool take part as `IndexService` and `Executor`, which
`service` and `pool` show them to implement, so that the composition is of
promises and stays small. `events` is the event queue that
`QMetaObject::invokeMethod` fills; `object` and `address` keep apart a socket object,
which a `QPointer` follows, and its address, which is the key of `connections_` and
may be used again once `deleteLater` has had its turn. A search result that exceeds a frame
closes its connection (`HandleTooLarge`), as bytes that are no frame do. Addresses are numbered as
they are first used, as nothing depends on which they are. A frame keeps its kind,
its request and the generation it tells; every reply that ends its request at once
is a `Response`, and every failed scan ends as `InternalError`, cancelled ones too. Several
frames in one read are several requests in a row, which other actions may come
between: that only adds behaviours. A `submit` that waits for room, or a `start_scan`
that joins the former scan, is a handler that begins when it can go on; neither
the workers nor the scan thread need the Qt thread to get there, since they post and
do not wait.

| Run | Shows |
|---|---|
| `ipc` | the inductive invariant, which holds `AnswersGoHome`: no connection gets the reply to another's request; acceptance, progress and result in this order; a search never older than what any client knew when it was asked; every request answered while its connection lasts; a shutdown that ends and (in the invariant) leaves nothing that would call the dead server |

Bounds: two connections, so that the second may take the first one's address, and
two requests, so that a scan and a search, or two scans one after the other, are
under way with it; larger numbers are the proof's. One report of progress a scan stands
for all. Fairness: the event loop calls what is posted, pool threads run, a
scan and a search end (`CallsReturn` of the controller), a transfer ends
(`SendsEnd`; its peer must not stand still). Nobody has to connect, ask or
quit. `Quit` does `server.close()`, `transfer_manager.stop()` and the beginning of
`controller.shutdown()` as one step: the Qt thread does them in a row, and what other
threads post meanwhile is never called, since `exec` has returned. Deadlock is
not checked because the process ends.

## 7. Scanning, indexing and searching

`FileScanner.tla` has one action per round of the walk and one per step of a task that
others can see. The pool is the `Executor` that `pool` shows `ThreadPool` to implement. The
tree is a constant: directories, links and files, where `Contents` says what a
directory has and `Target` where a link leads; an entry is the path it is found by, so
that with links one directory may have many. A round takes any entry that is left in the top
directory, since no order is promised. Two things may go wrong with it, the identity of a
directory and the increment; a directory without permission is passed over. `denied`
and the options are chosen once. `denied` may have the root: the iterator then begins at its end,
and the scan is ok and empty. The walking thread may throw between two rounds (`WalkThrows`);
what unwinds is the pool first, which drains, and then what its tasks refer to. `submit` is
never refused during a walk, since only the end of `scan` closes its pool. A task looks at the token first and then
records, fails or throws. The progress callbacks change nothing and are left out.

`SearchIndex.tla` is `Tokenizer`, `IndexBuilder` and the uncached part of
`SearchEngine::search` as operators on texts, which are sequences of bytes, because
what tokens and prefixes are is decided byte by byte. The limits 128, 256 and 100 are constants.
`Indexing.tla` joins both: the output is moved to `build`, which looks at the token, and
the snapshot is searched. `ServiceController` has these steps as `ScanSucceeds`,
`ScanFails`, `BuildIndex` and the opaque `HitsOf`.

| Run | Shows |
|---|---|
| `scan` | the invariant (`IndexingInv`: counters, each directory listed once, nothing recorded that the options leave out); no task outlives the scan; a scan reported ok without failures is whole; answers are exact against a definition without an index, whose words are found without reading from left to right; a recorded file is found first under its own name; the scan returns |
| `scan_root` | finding: a root that may not be opened is a scan that succeeds with no record (`FileScanner.cpp:157`), where `docs/COREDESK_SPEC.md:467` has it fail |

Bounds: MCIndexing has a directory with a link upwards (a circle) and a link to a hidden
directory, which so has two names, a hidden one and another; all four options; every set of denied
directories; two workers, so that records come in other orders than tasks; one failure, of a task, the iterator or the walking thread. Names have
capitals, several tokens, tokens that begin others and tokens longer than the limit of two
bytes; the thirteen queries have exact tokens, prefixes, several tokens, substrings,
separators only, capitals with blanks and too many bytes; `MaxLimit` is two, so that hits are
cut off and the fallback meets its limit. Every record set the walks can yield, in every order,
is searched, which is why larger names add little. Fairness: the walking thread and the
workers are threads. A scan ends, so deadlock is not checked.

What the model shows besides, and no document speaks of: an iterator error leaves the rest of the
tree out and the scan is still ok, with `failed` as the only trace (277); a hidden
directory is marked as visited although it is skipped, so with links followed it depends on
the order of the directory whether its contents are found through its other name (182); an
entry whose task throws shows only in `processed` being less than `discovered`
(211). A query of separators has no tokens and is answered empty; the
specification's item 6 of section 12.2 would have it searched as a substring.

## 8. The desktop

`LocalIpcClient.tla` is the client end of the pipe with the service as its environment:
an open request is answered by an acceptance, progress and one last reply in this order,
which is what `ipc` shows of the service, and the service may be without file
transfer, die, come up or be refused a connection at any time. `Desktop.tla` has one action
per event of the window's loop, with `SearchWidget` and `TransferWidget` inside: a click or a
keystroke, a timer, a signal of the socket, a frame. `unread` is everything from the
service's write to the handler, so late frames are the rule. The user clicks only what is
enabled. `Retry` is visible when Offline. `choosing` is the directory dialog, which
`TransferWidget` opens after its checks and whose event loop goes on with everything but
clicks in the window. The deadline of a retry is a `QTime`, a time of day; `deadline` says where
the clock is against it: ahead, past, past from the start because it lies beyond midnight
(`wrapped`), or `missed`, when midnight came and no tick had seen the deadline pass.

| Run | Shows |
|---|---|
| `desktop` | the inductive invariant; the ids held are those of the requests whose last reply comes; scan button, transfer buttons and send button show what is under way; the table answers the text; all controls come back; every retry ends, unless midnight hides its deadline |
| `desktop_retry` | finding: a retry about midnight goes on after the three seconds `docs/COREDESK_SPEC.md:827` allows |

Bounds: three requests after which the user asks for no more (what the window asks for by
itself still goes out), two texts, and no more than one reply unread when progress is
reported; larger numbers are the proof's. Fairness: the window's loop handles frames and the
signals of the socket, an attempt ends, a live service answers (`RequestsAreAnswered` of `ipc`;
it may die instead) and a broken pipe is noticed. The timer fires and the deadline comes.
That a tick falls between a deadline and midnight is not assumed, because a deadline in the last 100 ms
of a day leaves no room for one; so `RetryEnds` promises the end of a retry or a deadline
missed at midnight, and the latter only as often as midnight comes first. Nothing is assumed of the user.
A request is always written: the window sends only when connected, an unset directory or port
is refused by the widgets, a line edit holds far less than a frame, and `QLocalSocket` takes what
it is given. `LocalIpcClient::send_frame` failing (228-243), which would leave an id without a reply, is
therefore not an action.

What the model shows besides: a second attempt that fails while the timer is
active sets Offline although the timer goes on (lines 162-169), as does a click on Scan or a search
typed while connecting; a retry begun in the last three seconds of a day gives up at the first
tick if that comes before midnight; a text typed while not connected is not searched once the
connection is there; a directory chosen after the connection went sets the tab
Offline again, which it is.

## 9. Proofs

`ServiceController_proofs` proves `Spec => []IInv` for every number of workers,
queries, scans and every cache capacity, from the assumptions that the capacity
is positive, the bound on scans a natural number, and the value that stands for a
null pointer and for no reply is no snapshot, query, pending search or reply. `HitsMatchSnapshot` is not inductive: a reply may come from a
cache entry, the entry from a search on another worker, and that search's
snapshot from a scan long replaced. `GenerationInv` closes the gap: two snapshots
of one generation held anywhere are one snapshot, because an installation takes
a generation no thread and no entry has. `ThreadInv`, `InstallInv` and `StateInv`
say what each thread's position tells about the shared state, and `ReportInv` that only a
thread at its end has reported. From `IInv` follow the safety properties and the
action property `IndexOnlyAdvances`. The lemmas on the cache's `get` and `put` come
first in the module. `CancelIsClean` proves `CancelledLeavesNoTrace` from a second
invariant, `CancelInv`: a scan not yet installed, be it at work or ending as cancelled,
has left no trace in the index, the cache or a search, and only the installation
brings its files anywhere. `ControllerImplementsIndexService` proves that every step is
one of `IndexService` or changes nothing of it, for which it needs all of these: that an answer
is right is `HitsMatchSnapshot`, that a cancelled report is true is `CancelInv`, and that
the generations have no gap is `NextGenerationInv`. The fairness of `IndexService`, the other
part of `ImplementsIndexService`, and `CallsReturn` are only model-checked.

`ThreadPool_proofs` proves `Spec => []IInv` for any number of workers, callers and
tasks and any queue bound. The conjuncts beyond the types say that accepted,
started and queued tasks form one sequence, that the active count is the
cardinality of the set of workers between taking and counting out, and what
each thread's position tells about the flags. `ShutdownDrains` and `WaitIdleIsQuiet`
follow from them. `PoolImplementsExecutor` proves that every step of the pool is one of
`Executor` or changes nothing of it: a started task was accepted and not started before
(`SubmittedOnce`), and it finds room because the active count is at most the number of
workers. Only model-checked: the fairness of `Executor` and that calls return.

`TcpTransferServer_proofs` proves `Spec => []IInv` for any sockets, names, frames
and contents: the slot is held by a live connection, the part file holds what was
hashed, and connections are not closed sockets. `OtherSocketsAreHarmless` says of every callback
of another socket, whether it answers or not, that it leaves the transfer and the
directory alone; it needs none of the invariant's parts about other sockets, only the ownership checks.
`FilesArriveWhole`, `PartsAreRemoved` and `SuccessIsNeverEarly` have the
hypothesis `PartNamesApart`, that no offered name is another's part name. The code
does not ensure it (`is_safe_transfer_file_name` admits such names), and
`receiver_overwrites` shows what follows; `IInv` itself needs no such hypothesis,
because only one transfer is under way.

`TcpTransferClient_proofs` proves `Spec => []IInv` and `OutcomeIsFinal` for any number of
sends, contents, chunk sizes and answers of a peer, from the assumptions that contents
are sequences, that the frames of a peer are among those that decode (no transfer id
is 0), and that a null pointer is no worker. The lemmas follow the functions on the pair
of client and manager: `FinishOutgoing`, `FailTransfer`, `HandleError`, `HandleDisconnected`,
`Hangup` and `Abort` leave a pair that is over (`Over`) and change no outcome that was
called (`Keeps`), and a handler either ends in such a pair or goes on with a transfer that is
alive. `OfferIsOpen` is the strengthening: without it an accept could find no file
open, and the client fall back to `Idle` with a completion owed; it also has the handshake behind every
transfer under way, which is why `SendFileOffer` need not look for it.

`FileTransfer_proofs` joins the two, for any number of sends, contents of the file and frames
of a rival: `JointInvariant` is `Spec => []IInv`, `SuccessIsDelivery` is
`Spec => []OkMeansDelivered`, and `TransferImplementsDelivery` is `Spec => ImplementsDelivery`,
initial states and steps (`Delivery` states no fairness). The sender's peer is now the receiver
and no longer any frame, and the other way round; so the proof uses what the two modules' proofs
say of one handler and one frame, and has to show that each end sends only
frames the other can take. `Ok` means delivered because of three facts that are carried along. The receiver's
transfer has the digest that this connection offered (`OfferIsKept`), which holds because the sender
sends one offer and no later one with another digest (`OfferedOnce`); a file in place
is not replaced or removed, as no part file has its name (`NameAssumption`: the rival may offer
only the same name); and an `Ok` that is under way is true already, whenever the sender comes to read it.
The proofs of the two ends supply a lemma per handler (what it grants and answers:
`Answers`, `Grants`; what it offers and when it succeeds: `Offers`, `Succeeds`), so that no step of the
composition opens a handler. The assumptions are that both ends know the same blocks, that the values
standing for no file, no worker, no digest and no transfer are none of what they stand for, and that the
rival's connection is none of the sender's. `SendsEnd` is liveness and stays with TLC.

`LocalIpcServer_proofs` proves `Spec => []IInv` for any number of connections,
requests and pool threads. What any step does to the replies, the event queue and the
work is stated first (`RepliesStep`, `EventsStep`, `WorkStep`), so that each part of the
invariant needs no look at the actions. That replies go home rests on
`ConnectionsAreOpen`: two socket objects that still exist never share an address, so
an address in `connections_` and an object not yet deleted are one connection. That
searches see what was told rests on `ToldInv` (nothing said, posted or copied is ahead
of the index) and on `SearchInv`, which carries the comparison from the moment a pool
thread copies the snapshot to the frame. `RepliesInOrder` has an invariant of
its own, `OrderInv`: a request is open while its scan, transfer or search is under way;
nothing final is written or posted about an open one; a scan or transfer that is open
was accepted on the wire, and of an open search nobody has heard. Whatever the action, a
step works (and may post or answer), delivers the head of the queue, takes on a scan
or a transfer, or queues a search (`StepKinds`), and each of the four keeps it. Only the
liveness properties are left to TLC.

`Indexing_proofs` proves in its first half `Spec => []IInv` of `FileScanner` for any tree, options and number of workers,
assuming only that a node is in one directory and the root in none. Directories are
listed once because of `WalkInv`: a listed directory is the root or was an entry, and
when links are followed it is in `visited`, else its path is its one real path (a node is in one
directory, and that directory, listed before it, had one path already). The induction is over
steps of the walk, not over paths, which is why `Listed` has the parents of all submitted
entries and not only the stack. `NoTaskOutlivesTheScan` follows from `PoolInv`.
`ScanIsWhole` proves `SuccessIsWhole`, for a root that may be opened. What must be recorded is `Reach`, the least set that has the root
and is closed under what the options let the scanner enter, so no induction over paths
is needed: `WalkOwesNothing` says that, while nothing has failed, the root and each directory the walk has
come to have all their entries submitted or still to come from the iterator (`Covered`), except one that was
first met under a hidden name; when nothing is left to walk, the directories covered are closed
under the walk, and hence hold `Reach`. Liveness is model-checked.

The second half of `Indexing_proofs` is about what is made of the records. `IndexingInvariant` carries the
scan's invariant through the step that takes its output (`PhaseInv` tells that the iterator has
ended by then, and `PoolInv` that no task is left) and says that what is searched is the snapshot of the
entries recorded. The rest is about that snapshot, for every sequence of records, so every order
in which the workers may push them. `AnswersFollowTheDefinition` proves `AnswersAreExact` for all texts,
queries and limits, and `NamesAreFound` proves `NameIsFoundFirst`. The argument, along the lemmas:

- `Less` is a strict total order of texts (`LessIsStrict`, `LessIsTransitive`, `LessIsTotal`: the first
  byte that differs decides). What begins with a prefix lies together from its lower bound
  on (`PrefixIsFirst`, `PrefixesAreTogether`), so the run that `MergePrefixPostings` reads has all of it
  (`PrefixPostings`, where `InitialSegment` says that what is less than the prefix is an initial segment).
- What `tokenize` has kept after `n` bytes are the words that ended before and the one it is in (`Kept`, kept by
  a separator, `WordEnds`, and by any other byte, `WordGrows`), so the tokens of a text are its words: the maximal
  pieces without a separator, in lower case and cut off at the limit (`TokensAreWords`). `AnswersAreExact` is
  stated with `Words`, not with the tokens the code makes.
- In a finite set with a strict total order the number of those before an element is a
  bijection to `0..n - 1` (`Ranking`), so `Sorted` is what its name says, of tokens (`SortedTexts`) and of hits
  (`SortedHits`; `InOrder` is total because hits that rank the same differ in their ids).
- With postings and runs known, the candidates are the records that answer by the definition
  (`CandidatesAreAnswers`); the hits made of them keep their number, and the first `limit` are a top
  (`TopHitsAreTop`). The fallback's test of every suffix is the search for a substring (`SuffixHasPart`), and
  the first `MaxLimit` of the numbers found are as many as they should be (`FirstOfNumbers`).
- A record scores 100 only if it is called what is asked for, and its own tokens are those of the query, in whatever
  case (`TokensIgnoreCase`), so its namesakes are candidates and, since each of them comes before
  any other hit, fill the places before it (`BestAreFirst`).

Two facts stand in for induction, which this prover cannot instantiate: a set of numbers that is not empty
has a least element (`LeastNumber`, from the well-foundedness of `<`), and so a function whose
value at `n` is computed from that at `n - 1` exists and has the type of its steps (`StepByStep`), which gives
the types of what `Reading` and `Joined` compute byte by byte and name by name. The assumptions are that names are texts that
are not empty, queries texts, and the code's three limits positive. The score of one record is taken as
`score_index_hit` computes it: what is proved is which records are scored, with which words, and how they are
ranked and cut off.

`Desktop_proofs` proves `Spec => []IInv` for any texts and any number of requests. The ids, the open
requests and the unread frames are one predicate of five arguments (`Asked`), with one lemma for
each thing that can happen to it: a request goes out, a frame is taken, the service accepts or
answers, another text is typed, all is lost. Each event of the window is then one of these,
or two (a transfer response is taken and the status requested), and the rest of the
invariant is about single values. `RepliesAreAwaited` needs that an id has one last reply at
most (`RequestInv`) and that no second transfer operation begins (`TransferInv`), the dialog
included. Liveness is model-checked.

## 10. Not modelled

Scan progress in the controller and in the scanner, and `status()`, which only read.
`FrameCodec`: a decoder is one connection's and one thread's, and what its users do with a frame or
with bytes that are none is in their models; how a stream is cut is not. `JsonPayload`
has no state. The remainder of a partly accepted frame and its timers,
`set_receive_directory`, the argument checks of `TransferManager::send_file`, a crash of the
sending service, and `offer_state_`, which nothing in the service reads. The frames that
`TcpTransferClient` still dispatches from a batch after one of them aborted the transfer (270-272): the client
is over by then, and all they can do to it is to call it Failed once more.
`LocalIpcServer::listen` (the probe for a running service). Of its replies only the result of a search
can exceed a frame (`HandleTooLarge`); the others are of bounded size. Of the desktop wording, layout, the row actions of the table, the file dialog
for sending (it fills a field) and requests that cannot be encoded, which the widgets' own
checks exclude. The command line client, which makes one blocking request, and the logger.
