# codesight: a TLA+ verification project

codesight (`cs`) is a command-line tool that answers questions about a code
base: semantic search over an index of embeddings, symbol extraction, and
references, callers, implementations and diagnostics from language servers.
A language server takes long to start, so `cs` keeps one per (workspace,
language) behind a background daemon, and every later `cs` process connects to
it over a Unix socket. This directory models that program in TLA+, checks the
models with TLC and proves theorems about them with TLAPS.

Paths below are relative to `src/`.

## 1. The system

| Component | Source | State it keeps | Operations |
|---|---|---|---|
| Daemon proxy | `pkg/lsp/daemon_unix.go` | connections, pending-request table, id counter, initialize cache and phase, activity time | accept, forward a request, route a response, broadcast, answer initialize from the cache, idle stop, cleanup |
| JSON-RPC client | `pkg/lsp/client.go` | next id, pending calls, notification handlers, read error, done channel | Initialize, Call, Notify, SubscribeNotification, Close, readLoop |
| Check engine | `pkg/lsp/check.go` | bounded notification channel, diagnostics kept for other files, two timers | Run, waitForDiagnostics, settleDiagnostics |
| Lifecycle | `pkg/lsp/lifecycle.go`, `daemon_state.go` | per-key state file, socket, log and baseline on disk; one mutex per key and process | Ensure, Stop, StopByKey, Cleanup, ShutdownIdle, Status |
| Daemon connector | `pkg/lsp/daemon_client.go` | retry budgets | Connect: Ensure, dial, handshake, Stop and retry |
| Gradle baseline | `cmd/cs/lsp_java_init.go`, `daemon_state.go` | fingerprint of the build files | decide whether an import may be suppressed |
| Command runtime | `cmd/cs/lsp_runtime.go` | none of its own | connect or go without, warm-up probes, run a query, close |
| Call hierarchy walk | `pkg/lsp/callers.go` | visited set, result tree | depth-first walk over incoming calls |
| References, implementations | `pkg/lsp/refs.go`, `implements.go`, `*_raw.go` | none | LSP query, grep fallback, cross-check of empty results |
| Workspace priming | `pkg/lsp/workspace_prime.go` | none | open one file of the workspace |
| Indexer, vector store | `pkg/indexer.go`, `version.go`, `vectorstore/milvus.go` | a collection and its metadata in Milvus | drop, create, insert, set metadata, staleness |
| Searcher | `pkg/searcher.go` | none | embed a query and search |
| Embedder | `pkg/embedding/ollama.go` | none | batches, splitting, averaging |
| Query engine | `pkg/engine/*.go` | token budget | classify a query, run three searches at once, rank, degrade on errors |
| Splitter, ignore matcher | `pkg/splitter/*.go`, `pkg/ignore/matcher.go`, `pkg/walker.go` | none | chunks of a file, which files count |
| Configuration | `pkg/config/config.go` | merged configuration | load layers, environment, flags |
| Extraction, formatter, CLI | the rest | none | tree-sitter queries, text, arguments |

### How they interact

    cs process                       daemon process                 language server
    ----------                       --------------                 ---------------
    connector -> lifecycle.Ensure -- launches, finds by state file and socket
              -> client.Initialize ---- socket ----> handleClient --- stdin --->
    engines   -> client.Call      ---- socket ----> handleClient --- stdin --->
    readLoop  <-------------------- socket ---- serverReadLoop <--- stdout ---
    lifecycle.Stop -> shutdownDaemonViaSocket ----> handleClient --- stdin --->

Inside the daemon one goroutine per connection (`handleClient`), one
`serverReadLoop`, one `acceptLoop` and one that waits for the server's exit
share `clients` (under `clientsMu`), `pending` (under `pendingMu`), `initPhase`
(atomic), `initReqID` (atomic) and `initResponse` (under `initMu`). Several
`cs` processes and daemons share the files of the state directory, with no lock
between processes. The indexer and the searcher share a Milvus collection.

### What is hard, and what makes each component correct

* **Daemon proxy.** Every connection numbers its requests from 1, so ids are
  rewritten both ways. Responses come in any order, connections come and go at
  any moment, and the handshake that LSP allows once per server has to be
  replayed to later connections from a cache that three goroutines touch. It is
  correct if a response reaches the request it answers and no other, at most
  once; if the server sees one handshake and every connection gets one; if the
  tables do not leak; if an idle daemon stops without taking the server away
  from anybody; and if a dead server, or a stop, ends every wait.
* **JSON-RPC client.** A call ends once, by its answer, its deadline or the end
  of the connection, whichever of the three goroutines gets there first.
* **Check engine.** A slow reader must not stop the client's reader, and a
  file's diagnostics must be its latest.
* **Lifecycle.** Locks are per process and the state is several files, removed
  one by one by the daemon and by `cs`: no daemon may be lost sight of, and
  none may lose its files to another's cleanup.
* **Connector, Gradle baseline.** The retry budget is spent once; an import is
  suppressed only if the last one happened.
* **Call hierarchy walk.** It ends on cycles; what it lists is a tree of calls
  over the symbol, no function twice, and no caller in range is missing but those
  that were listed elsewhere.
* **References, query engine.** A server that is cold, dies or has no context must
  not turn into "0 references"; its answer, when it has one, must not be replaced by
  the text's; and of three concurrent searches one that fails must not take the
  others with it.
* **Warm-up.** It reports readiness only of a server that has indexed, and ends.
* **Indexer.** A failure or a second indexer at any point leaves an index that is
  either right or known to be stale.
* **Splitter, embedder.** Every wanted line is in a chunk, and a vector is that of
  its own text, however the requests are cut.

`PROJECT.json` lists the components with their status, and under "hazards"
each of these dangers at the line where it bites, with the properties that
watch it or the reason none does.

## 2. Modules

| Module | What it is |
|---|---|
| `DaemonProxy` | the daemon's goroutines, the far ends of its connections and the language server |
| `RequestBroker` | what a multiplexer promises: the abstract specification `DaemonProxy` implements |
| `MCDaemonProxy` | the instances TLC checks (a symmetry set; the cfg files give the constants) |
| `DaemonProxyProofs`, `BrokerProofs` | theorems about `DaemonProxy` and their proofs; the second has the refinement of `RequestBroker` and the handshake |
| `RpcClient` | the JSON-RPC client: its callers, its reader, `Close`, and the check engine's subscription |
| `MCRpcClient`, `RpcClientProofs` | the instances TLC checks; theorems about `RpcClient` and their proofs |
| `Lifecycle`, `MCLifecycle` | several `cs` processes and the daemons of one key over the state directory |
| `LifecycleProofs`, `LifecycleQuietProofs` | theorems about `Lifecycle`, the second on the first |
| `Chunking` | what an index is made of: pure operators for ignore rules, chunks, requests and vectors |
| `Indexer`, `MCIndexer` | index, clear, status and search over the two collections of a project |
| `IndexerProofs` | theorems about `Chunking` and `Indexer` and their proofs |
| `SymbolQueries` | what the query commands make of answers: pure operators |
| `QueryCommand`, `MCQueryCommand` | one refs, callers, implements, query or warmup command against a language server |
| `DataLemmas` | lemmas about numbers, finite sets and sequences of any size |
| `QueryCommandProofs` | theorems about `QueryCommand` and their proofs |

The modules stand at different distances from one connection. `Lifecycle` has many
processes and daemons and takes what happens on a connection as one step each;
`DaemonProxy` has one daemon and what goes through it; `RpcClient` one client of it;
`QueryCommand` one command over one client, whose calls are answered or fail.
`Indexer` shares nothing with these but the ignore rules.

`DaemonProxy` and `RpcClient` meet at the socket. Each has the other as its far
end, with every behaviour the other can show there: `DaemonProxy` lets the owner
of a connection ask, read and leave at any moment, and `RpcClient` lets its peer
answer in any order or not at all, push messages of its own and close.

### DaemonProxy

Each goroutine is a program counter and the message it holds, and a step is
what one goroutine does between two accesses to shared state that another can
see apart:

* `h[c]`, the handler of connection c: `HandlerRead` reads a message **and
  loads the phase** (lines 329-339); what follows depends on that value, however
  long it takes: `HandlerRemap` (598), `HandlerTrack` (the store of `initReqID`,
  355), `HandlerForward` (454), `HandlerMark` (the store of phase 2, 372) or
  `HandlerReply` (564). `HandlerRemove` and `HandlerPurge` are the two critical
  sections of the deferred `removeClient` (742).
* `rl`, the server reader: `LoopRead` (with `observeShutdownResponse`),
  `LoopCheckCache` and `LoopStoreCache` (528; the check under `initMu` and the
  stores, between which a handler may store phase 2), then a route:
  `RouteResponse`, `RouteServerRequest`, `RejectServerRequest` or
  `BroadcastToClients`, and `LoopDeliver`, one write per connection.
* `al`, the accept loop: `Accept`, `IdleStop` and `ServerExited`, then the
  wait for the shutdown response (`ShutdownAnswered`, `ShutdownTimeout`) and for
  the exit (`ExitObserved`, `ExitTimeout`), `Cleanup`, `ProcessExit`.
* `cl[c]`, the owner of a connection: a session (`connectLease` and the JSON-RPC
  client: initialize, initialized, calls) or a stopper
  (`shutdownDaemonViaSocket`: shutdown, exit). It may close at any moment, as a
  process may be killed.
* the language server, external: it reads its stdin in order, answers requests
  in any order, answers a second initialize with an error, exits when told and
  may crash. `Reap` is the goroutine in `cmd.Wait`.

A message is a record of its kind, the id on the wire, and who asked what
(`from`, `call`): the last two stand for the payload, which the daemon never
changes, so a response that reaches the wrong request can be told. A connection
is a pair of queues; the whole history of what the daemon wrote is kept
(`inbox`) with a count of what its owner has read (`seen`), so that properties
can speak of it.

Abstractions: JSON and framing; the time of the last activity is one bit,
whether the idle timeout has passed since; connections are not reused; the
state-file write of `touchActivity` and the removal of files in `cleanup` are
`Lifecycle`'s; an `initialize` without an id, which no client
of the repository sends, is not modelled; the pipes to the server are unbounded.
A write under `serverWriteMu` or a connection's mutex is one step.

### RequestBroker

Three variables: how many requests each connection has issued, which answers it
got, which connections are over. A request may be answered once, with its own
answer, while its connection is not over; an initialize may be answered with
another connection's initialize response. No daemon id, table, queue or cache
appears in it. `DaemonProxy!ImplementsBroker` instantiates it with `asked <-
nextID`, `answers <-` the responses in `inbox`, `over <-` the connections whose
handler has purged them.

### RpcClient

`pkg/lsp/client.go`, with `Callers` goroutines that share one client, as
`pkg/engine/engine.go:196-216` does with its references, callers and
implementations.

* `call[c]`, a goroutine in `Call` (216-275): `CallBegins` takes the id and makes
  the channel; `CallRegisters` is `registerPending` (323), which looks at `done`
  under the table's lock; `CallWrites`; then the select of lines 249-273, any
  branch that is ready: `CallReceives` (a value, or the close), `CallTimesOut`,
  `CallSeesDone`; `CallRemoves` is `removePending` (337).
* `rl`, `readLoop` (427): `LoopReads` takes a message; a response is looked up and
  its entry removed in one step (`RouteResponse`, 343), then the channel is sent to
  (`LoopSends`) and closed (`LoopCloses`) outside the lock. `LoopReplies` is
  `replyMethodNotFound` (471). `LoopHandles` is a notification handler, which runs
  on the reader's goroutine (398-416). `LoopReadFails`, or a failed reply, or a
  message that cannot be decoded, leads to `LoopFails` and `LoopFailsOne`
  (`failPending`, 362: the table is emptied under the lock, the channels are closed
  after it) and to `LoopEnds`, the deferred close of `done` (428).
* `closer`, the goroutine in `Close` (293): the transport is closed, then it waits
  for `done`.
* `run`, `queue`: a `CheckEngine.Run` (`check.go:120-133`) subscribes a handler that
  sends to a bounded channel of its own, receives while it waits for diagnostics
  (267-337), and unsubscribes when it returns. Several runs follow one another over
  one client (`cmd/cs/check_command.go:109-122`). A handler that is already running
  keeps its channel: `rl.id` is the run it belongs to.

A second send or close of a closed channel would panic; `panicked` records it.
Abstractions: the result of a call is only how it ended; methods, and which
notifications are diagnostics, are left out (every notification has the one
subscriber); the table of subscribers, with one method and one run at a time, is
`run`; the connection's queues are unbounded; a write is one step. `Initialize`,
`Notify` and `Shutdown` add no shared state of their own and are left out here.

### Lifecycle

One (workspace, language) key. Its files are four variables: `record`, the state
file (the daemon it names, and the copy of the Gradle baseline it may hold),
`socket` (whose socket is at the path), `baseline` (the `.java-gradle.json` file),
and `build`, the fingerprint of the build files. The log is removed with the socket
and read by nobody, so it is left out. Every actor reads or writes one of them per
step, and anything may happen between.

* `proc[p]`, a `cs` process. `Begins` takes one of three commands: connect (refs,
  callers, implements, query, check, warmup), `cs lsp restart`, `cs lsp cleanup`.
  `Ensure` (`lifecycle.go:235-374`): `EnsureReads`, `EnsureProbes`, `Launches`,
  `AwaitsReady` (`waitForDaemonReady`), `Records`. `Stop` (376-405) and
  `stopStateProcess` (648): `StopReads`, `ShutsDown`, `Kills`, `Removes`, a file at
  a time. `Cleans` (432). `Connect` (`daemon_client.go`): `Dials`, `Detects`,
  `WritesBaseline`, `WritesBack` (the initialize builder of
  `cmd/cs/lsp_java_init.go`), `Initializes`, and what is tried again
  (`ConnectFails`, `Redials`).
* `daemon[d]`, a daemon process: `DaemonProbes` and `DaemonUnlinks`
  (`removeStaleSocket`), `DaemonBinds`, `DaemonBoots`, `DaemonTouches` and
  `DaemonTouched` (the read and the write of `touchActivity`), `DaemonIdles`,
  `DaemonCloses` and `DaemonRemoves` (`cleanup`). Its proxy is `DaemonProxy`'s; here
  it forwards the first initialize and answers the others.
* `Dies`, `DaemonFails`, `RecordFails`, `BootFails`, `InitializeRefused` are the
  faults, and `Edits` changes the build files.

Whether a record is too old, or has other arguments or another environment, is a
choice (`fits`). A pid is the daemon it was given to: on Linux and macOS the start
id is compared. The history variables are `imported`, the fingerprints a server was
told to import, and `disturbed`, set by a fault, or when a command begins or an
idle daemon stops while another actor is at work. The mutex per key of one process
adds nothing, as a process runs one command.

### Chunking and Indexer

`Chunking` has no state. A path is a sequence of names, a line of text a sequence
of characters, a pattern a sequence of sets of names, a syntax tree its nodes in
preorder. `Matches` is `matches` of `pkg/ignore/matcher.go`, `Walk` the walk, `Split`
the splitter (`Declarations` is `walkNode`'s rule, `Windows` the fallback), and
`SplitTextAtLines`, `Requests` and `Vectors` are what `EmbedBatch` and `embedFlat` do
to a batch: the server's vector of a piece is the piece itself, and the mean of
several is their sequence, so a vector that ends up at another text shows.

`Indexer` runs `cs index`, `clear`, `status` and `search` in several processes over
`main` and `meta`, the collection and its `_metadata` twin, one call to the store
per step. `Index` is `runIndex` and `Indexer.Index`: the commit first, then the
rules, existence, the metadata, the drops, the creates, the walk, a batch at a time
(`Embeds` with the limit halved after an overflow, `Inserts`), the metadata last.
`Fails` is a failed call or a kill anywhere; an error of the second drop is dropped,
as `milvus.go:142` does. `Changes` edits the files, commits, or changes the ignore
rules at any time. `made` remembers the project as it was when the metadata was
written, and `torn` that two writers overlapped, that the project changed under an
index, or that metadata outlived its chunks.

Left out: the store's schema, search parameters and loading; the vectors' numbers;
HTTP; the default ignore patterns (they are patterns like others); the upper bound
of a file's size.

### SymbolQueries and QueryCommand

A *workspace* is a record: its files (language, whether ignored, below `--path`, a
test), the lines of text that hold the symbol and what they are (a declaration, an
import, a use), the definitions extraction finds, and what a language server that
has indexed it answers: symbols, references, the call hierarchy, the type hierarchy,
implementations. A file is its place in the order of paths; file 0 is a URI that is
no path. `SymbolQueries` says what the code makes of them: candidates of a name
(`IsNameMatch`, `CallersSymbolMatches`, `Resolved` for `resolveCandidates`), the
lists (`ToReferenceLines`, `ToImplementationLines`, `IncomingNodes`), the text
search (`GrepFind`) and the cross-check (`Leftover`), `Classify`, `ComputeBudget`,
`View`, and the scores, as integers (times the length of the definition's path).

`QueryCommand` runs one command. `pc` is where it is: it `Refuses` bad arguments,
`Connects` (and primes the workspace) or `GoesWithout`; then one or three searches
run, each with a program counter in `part`, and their steps, each a call on the
client and what follows it, interleave as the goroutines of `engine.go:196-218` do.
`walk` is the recursion of `walkIncoming`: the callers not yet listed of each level
(`todo`), the identities seen, and the node being asked about. `CallFails` may strike
any call; what it does depends on the search. `QueryJoins` is what follows
`wg.Wait`. Warm-up is `Probes`, `Ticks` and `GivesUp`. The server may have indexed
the workspace or not, may index it at any time once it is connected (some only if a
file is open, `Indexes`), and may die (`Dies`).

Left out: the text of what is printed; duplicates and the order of the server's
answers, which the code sorts; several signs of the router that only choose a phrase.

## 3. Runs

The `proxy_` runs use the module `MCDaemonProxy`, the `client_` runs `MCRpcClient`,
the `lifecycle_` runs `MCLifecycle`, `index_commands` uses `MCIndexer` and `queries`
uses `MCQueryCommand`.

| Run | Instance | What it shows |
|---|---|---|
| `proxy_routing` | two sessions that overlap freely, one call each | `AnswersAreOwn`, `AnsweredAtMostOnce`, `PendingIsOwned`, `IdleStopIsAlone`, `TypeOK`, and the refinement `ImplementsBroker` |
| `proxy_handshake` | two sessions, the first handshake completes before another begins, one call each, one message of the server's own | `OneHandshake`, `PhaseMeansCached`, `HandshakeServed`, `PhaseMovesForward` |
| `proxy_liveness` | one session, one stopper, a server that may crash, a connection that holds one unread message | `EveryCallEnds`, `ServerExitEndsDaemon`, `IdleDaemonEnds` |
| `proxy_duplicate_initialize` | two sessions that overlap freely | `OneHandshake` is **violated** |
| `client_calls` | two callers, three requests, one check run, one message of the peer's own | `NoPanic`, `PendingIsRunning`, `ClosedMeansStopped`, `TypeOK` |
| `client_ends` | one caller, two requests, one check run, two messages of the peer's own, fairness | `EndEndsCalls`, `CloseReturnsUnlessHandling` |
| `client_close_hangs` | no caller, one check run, two messages of the peer's own, fairness | `CloseEnds` is **violated** |
| `lifecycle_commands` | two processes, two commands, two daemons | `OneDaemon`, `RecordMatchesDaemon`, `ServersImport`, `StoppedIsDead`, `TypeOK` |
| `lifecycle_ends` | one process, two commands, two daemons, one fault, an edit of the build files, fairness | `DaemonsEnd`, `CommandsEnd` |
| `lifecycle_import_skipped` | one process, two commands, one fault | `SkipsOnlyImported` is **violated** |
| `index_commands` | two processes, two commands, two states of the files, two sets of rules, one fault | `IndexIsComplete`, `VectorsFitTheirText`, `CurrentIsCurrent`, `SearchIsFiltered`, `TypeOK` |
| `queries` | 14 workspaces, 26 commands, a server that is there or not, cold or not, two failures and a death, fairness | `NothingIsLost`, `OneDefinition`, `CallersAreATree`, `CallersAreClosed`, `QueryKeepsParts`, `PrecisionIsKept`, `WarmMeansIndexed`, `QueryEnds`, `TypeOK` |

**Bounds.** `MaxCalls` bounds the requests of a session after its handshake,
`MaxServerMsgs` the notifications and requests the server starts, `SockCap` the
unread messages a connection holds. Two sessions are enough for every crossing
of two connections: the properties of routing and of the cache relate a request
to at most one other request, and every shared variable is touched by at most
two connections and the reader at a time. One call each makes ids coincide
(both use 1 and 2) and lets a call overlap the other's handshake. `SockCap = 4`
never blocks in these instances, `SockCap = 1` does in the liveness run.
Deadlock is not checked: after `ProcessExit` and the owners' closing the system
has stopped.

For the client, `MaxCalls` bounds the requests in all, `MaxPushed` the peer's
notifications, requests and undecodable messages, `MaxRuns` the check runs and
`ChanCap` the room in a run's channel (64 in the code). Two callers race for the
table with the reader; three requests let one of them call again while its late
answer is still on its way. One check run with room for one diagnostic and two
notifications is the smallest case in which the handler blocks. Deadlock is not
checked: when the calls are used up and `Close` has returned, nothing is left to do.

For the lifecycle, `MaxDaemons`, `MaxCommands`, `MaxFaults` and `MaxBuilds` bound
daemon processes, commands, faults and states of the build files. Every hazard of
the state files is between two actors, and two commands with two daemons give each
of them to the other's cleanup, stop or launch; the second daemon is what a wrong
first one would be seen by. Three files that are removed one by one by either make
the instance large already. A launch beyond `MaxDaemons` ends as
one that fails, as any launch may. `lifecycle_commands` has no fault: three of its
properties exclude faults anyway, and the fourth is proved with them. The faults are
in the other two.

For the indexer, two trees and two sets of rules: a file with a class, a nested
method, an import and a blank line; one without a grammar and with a window that is
blank; one below a directory that a rule names; one that cannot be read. `ChunkSize
= 2`, `Overlap = 1`, `MaxChunkLines = 3`, `Limits = {4, 8}`, `BatchSize = 2` make
chunks that overlap, are split, need several requests, several pieces and several
batches. Two commands at once cover every pair of writers and a reader beside a
writer.

For the queries, each workspace is there for a case: a plain one with a cycle and
two paths to a caller, types with subtypes and without, methods found by their
container, an ambiguous name, a server without context, one that reports imports,
one that reports a URI that is no path, symbols that are all ignored, no language.
Each command is there for a branch. Two failures let two of the three searches
fail. The budgets are a tenth of the code's, so that they cut the small lists.

**First finding.** The comment on `initPhase` says the cache "prevents duplicate
initialize/initialized to the language server when multiple clients connect over
the daemon lifetime". That holds, as `proxy_handshake` shows, when the first
handshake completes before another begins. When two connections overlap, both
handlers load phase 0 and both forward (`proxy_duplicate_initialize`). What
follows from it: the second initialize overwrites `initReqID`, so the server's
error response to it may be the one that is cached; or phase 2 is stored before
anything is cached, and every later connection is refused at line 573. The test
`TestDaemonInitializeCaching` connects one client after the other. The constant
`Overlap` separates the two cases, and the properties that hold in both are
checked with `Overlap = TRUE`.

**Second finding.** "Close closes the underlying transport and waits for the reader
loop to stop" (`pkg/lsp/client.go:293`), but the reader need not stop. The handler
of a check run sends to a channel of 64 with no way out (`check.go:126`). Once the
run has returned nobody receives; unsubscribing keeps new handlers from starting
but does not stop the one that waits for room. `readLoop` stays in
`dispatchNotification`, and `Close`, called when the check command releases its
connection, waits for `done` forever (`client_close_hangs`). In the code it takes 65
notifications that a run did not receive, for instance from a server that
publishes diagnostics for a whole workspace just as the run ends.
`CloseReturnsUnlessHandling` shows that this is the only way.

**Third finding.** The spec of the Gradle baseline lets the import be switched off
only when the build files are those of an earlier successful start. The builder of
the initialize request writes the new baseline before the request is sent
(`cmd/cs/lsp_java_init.go:153`). If the command then fails or is killed, no server
has imported those build files, and the next start finds their fingerprint and
suppresses the import (`lifecycle_import_skipped`). `ServersImport` shows that
without a fault and without overlap the baseline goes with the daemon, so that no
server starts with the import off.

**Fairness.** `DaemonProxy!FairSpec`: weak fairness of each handler, of the server reader,
of the accept loop and of `Reap`: goroutines are scheduled, and each of these
actions stays possible until its goroutine takes it. Weak fairness of
`TimePasses`: the poll interval and the timeouts are real time. Weak fairness of
the language server as a whole: it keeps reading and answering until it exits;
crashing is never forced. Of a connection's owner only that it reads what it was
sent and notices that it was closed. Nothing forces an owner to ask or to leave,
and a call's own timeout is not used: the client's deadline would end every wait
and hide a daemon that loses a response.

`RpcClient!FairSpec`: weak fairness of each call's own steps, of `readLoop`, of
`Close`'s return and of the end of a check run, whose timers bound it. Timeouts are
not forced and the peer promises nothing, so `EndEndsCalls` says that the reader's
end alone ends every call.

`Lifecycle!FairSpec`: weak fairness of each process and of each daemon. The
timeouts of dials, probes and waits are steps of the process that waits, and the
idle timeout is a step of the daemon: they are real time. Faults, edits, new
commands and `touchActivity`'s beginning are never forced.

`QueryCommand!FairSpec`: weak fairness of the command, whose calls are answered or
fail within the client's timeout, and of the deadline of warm-up. `GivesUp` has
strong fairness: a tick and the deadline may be ready together, Go's `select` then
picks one at random, and the deadline's channel stays ready at every later select.
Neither indexing nor a failure is forced, so a warm-up on a server that never
indexes has to end by its deadline.

`EveryCallEnds` needs owners that read: `writeToClient` has no deadline, so one
connection whose owner stops reading blocks `serverReadLoop` and with it every
other connection. It is listed as a hazard.

## 4. Proofs

### DaemonProxy

`DaemonProxyProofs` proves, for every number of sessions and stoppers and every
value of the bounds (assumption `ProxyAssumption`, which says that sessions and
stoppers are disjoint, `NoClient` is neither and the bounds are numbers):

| Theorem | Statement |
|---|---|
| `TypeCorrect` | `Spec => []TypeOK` |
| `PendingOwned` | `Spec => []PendingIsOwned` |
| `IdleStopAlone` | `Spec => []IdleStopIsAlone` |
| `AnswersOwn` | `Spec => []AnswersAreOwn` |
| `AnsweredOnce` | `Spec => []AnsweredAtMostOnce` |
| `BrokerImplemented` | `Spec => ImplementsBroker` |
| `HandshakeOnce` | `Spec => []OneHandshake`, assuming `~Overlap` |
| `PhaseCached` | `Spec => []PhaseMeansCached`, assuming `~Overlap` |
| `SessionsServed` | `Spec => []HandshakeServed`, assuming `~Overlap` |
| `PhaseForward` | `Spec => PhaseMovesForward`, assuming `~Overlap` |

The last six are in `BrokerProofs`. `TypeOK` is inductive. `PendingIsOwned` is inductive with it once every handler
past "remove" is known to add nothing: entries are only added at "remap", and
`HandlerPurge` is the one step to "gone". `IdleStopIsAlone` needs that a registered
connection is exactly one whose handler is between "read" and "remove", and that
`clients` is empty from the idle verdict on, because only the accept loop admits.

`AnswersAreOwn` is far from inductive: nothing in it speaks of messages in
flight. The inductive invariant is `RoutingInv`:

* `OwnNumbers`: whatever a connection's owner has sent, wherever it is before the
  remapping (its queue, its handler), bears the number its owner gave it;
* an *attribution* `f` exists, a record for each daemon id given out so far of the
  connection and number it was given out for, such that everything that travels
  under a daemon id (the handler after `remap`, stdin, the server's work, stdout,
  the reader before routing) was issued by the connection and under the number
  `f` records, and so is the entry of `pending` for that id. It is quantified
  (`\E f \in Tables : Attributed(f)`) rather than kept in a variable, as the
  daemon keeps no such table; `HandlerRemap` extends the witness by one id and
  every other step keeps it;
* `CacheHoldsInit`: what is cached answers an initialize;
* `DeliversOwn`: what the reader is about to write, once the id has been
  rewritten back, answers the request of that connection under that id.

`AnsweredAtMostOnce` needs to know where a request is. `OnceInv` adds to `RoutingInv`
that a connection's requests stand `InLine`: the bytes its owner has sent and nobody
has read, the hand of its handler, the table of pending requests, the delivery of
`serverReadLoop` and what its owner has received are five sets of the owner's ids,
no id is in two of the last four, and whatever is unread is larger than all of them,
as owners number their requests upwards (`Ordered`). A step moves an id along the
line or drops it. No id needs to be counted: that the responses received are all
different (`Once`) is the same statement about the last place, and that two entries
of the table are never for one request (`OneEntryEach`) about the third.

The refinement maps every state to the multiplexer of `RequestBroker`, in which
answers are given to requests that are open. `OnceInv` shows that every step maps
to a step of it or to a stutter: `LoopDeliver` and `HandlerReply` map to an answer,
everything that happens under the daemon's ids maps to nothing.

The four on the handshake assume what the first finding shows to be necessary: no
connection begins before another's handshake has completed (`MayBegin`); one that
breaks off in the middle, and a daemon or a server that stops, are allowed. Their
inductive invariant, `HandshakeInv`, adds to `OnceInv` where the one `initialize` and
the one `initialized` are, and in which order the rest follows:

* until phase 2 one connection at most has sent anything (`OneBegins`), so that what a
  handler reads at a lower phase is that connection's;
* `SentOnce`: of each of the two kinds, the messages in the hands of handlers that
  forward (`Carriers`), in the server's stdin and received by it are one together; and
  while an owner's unread message, or one it is about to send, could still be
  forwarded, there is none. A phase that has moved on makes the second half void: from
  then on the cache answers;
* `Tracked`: the forwarded `initialize` and the response to it bear the id in
  `initReqID`, as no second one can overwrite it. So the response is found to be
  cacheable when it is read at phase 0 (`TrackedIsWelcome` is the converse: what bears
  the id is a response to a session's `initialize`, and succeeded);
* `LoopOK`, `InboxOK`: it is routed, and read by its owner, after it has been cached. So
  `initialized`, and with it phase 2, comes after the store of phase 1: the order that
  nothing in the code enforces (`PhaseForward`).

`RoutingInv` was checked with TLC on the instance of `proxy_routing` before it was
proved, and `HandshakeInv` on that of `proxy_handshake`. The proofs have one case per action; actions that touch none of an
invariant's variables are dispatched together.

### RpcClient

`RpcClientProofs` proves, for every number of callers and every value of the bounds
(assumption `ClientAssumption`: the bounds are numbers):

| Theorem | Statement |
|---|---|
| `ClientTypeCorrect` | `Spec => []TypeOK` |
| `NoPanicEver` | `Spec => []NoPanic` |
| `PendingAreRunning` | `Spec => []PendingIsRunning` |
| `ClosedAreStopped` | `Spec => []ClosedMeansStopped` |

One inductive invariant, `ClientInv`, carries the last three. The reader *holds* a
channel from the moment it takes the entry out of the table until it has closed it
(`Held`). `ChansSound`: a held channel is open, and a channel whose entry is in the
table is open, empty and not held. That is kept by `CallRegisters` only if the
channel of a call about to register is untouched too and no other call has its id
(`RegisterFresh`, `CallsDistinct`). An entry belongs to a running call
(`PendingIsRunning`) because a call ends without removing its entry only when its
channel is full or closed, and then, by `ChansSound`, the entry is gone already.
`ClosedMeansStopped` follows from `EndOrder`: `done` is closed last. `ClientInv` was
checked with TLC on the instance of `client_calls` before it was proved.

### Lifecycle

Proved for every number of processes and every value of the bounds (assumption
`LifecycleAssumption`: the bounds are numbers, and there is a state of the build
files):

| Theorem | Module | Statement |
|---|---|---|
| `LifecycleTypeCorrect` | `LifecycleProofs` | `Spec => []TypeOK` |
| `StoppedAreDead` | `LifecycleProofs` | `Spec => StoppedIsDead` |
| `OneAtATime` | `LifecycleQuietProofs` | `Spec => []OneDaemon` |
| `FilesNameTheDaemon` | `LifecycleQuietProofs` | `Spec => []RecordMatchesDaemon` |
| `ServersAreToldToImport` | `LifecycleQuietProofs` | `Spec => []ServersImport` |

`TypeOK` is inductive once a process that is about to write a baseline is known to
have a fingerprint (`HasFingerprint`). `StoppedIsDead` needs `NamesBorn`: whoever is
named by the state file, the socket path, a process, a connection or a record that a
daemon is about to write back has been started. Names are only copied, never made
(`Names`), so a name in a stop's hands is a daemon that is alive, and killed, or dead.
This holds with faults and with any overlap.

The other three speak of histories in which nothing failed and no two actors were
ever at work at once (`~disturbed`), and rest on three inductive invariants, each
kept by the steps under the ones before:

* `Quiet`: one process works at a time (`OneWorks`), and it *knows* the daemon that
  lives (`Accounted`, `Knows`): it holds its record, or the state file has it; a
  process that launches or removes files knows that nobody lives. A daemon on its way
  out has nobody at work but the stop that asked it. What a daemon or a process
  writes back is the living daemon's (`TouchesOwn`, `WroteBack`).
* `Recorded`: the socket path belongs to the daemon that accepts, what a process holds
  or is connected to is alive, and a record outlives its daemon only until the
  process that found it so removes it. So no `initialize` meets a daemon that has gone.
* `Based`: a baseline is there only with a daemon whose server was told about it, or
  in the hands of the process that writes or removes it. So what `Detects` finds is
  the baseline of the daemon it is connected to, which was told to import long ago.

A step is looked at from the one process that works (`QuietFor`, `RecordedFor`,
`BasedFor`), and the lemmas `...IsForOne` lead there and back. Most of their
conjuncts were checked with TLC on the instance of `lifecycle_commands`, and with one process, three
commands and three daemons, before they were proved.

### SymbolQueries and QueryCommand

Proved in `QueryCommandProofs` for every set of workspaces, every set of commands,
every depth and every number of failures:

| Theorem | Statement |
|---|---|
| `QueryTypeCorrect` | `Spec => []TypeOK` |
| `WarmIsIndexed` | `Spec => []WarmMeansIndexed` |
| `OneDefinitionEach` | `Spec => []OneDefinition` |
| `PrecisionKept` | `Spec => []PrecisionIsKept` |
| `NothingLost` | `Spec => []NothingIsLost` |
| `CallersTree` | `Spec => []CallersAreATree` |
| `CallersClosed` | `Spec => []CallersAreClosed` |
| `PartsKeptByQueries` | `Spec => []QueryKeepsParts` |

The assumptions `QueriesAssumption` and `CommandAssumption` give the types of a
workspace (`IsWorld`) and a command (`IsCommand`): its files, lines, symbols and
definitions are finite, and calls are reported only of items with a path. A server may
otherwise report whatever it likes, file 0 (a URI that is no path) included.

* `TypeInv` is `TypeOK`, the type of the walk and of the result, and the order of a
  command (`Orderly`): its searches are idle until it has a client or goes without, and
  there is a walk only while the callers are searched. `TypeOK` alone is not inductive,
  as it says nothing of a walk that is over.
* `Ready`, `OneFound` and `Precise` are what `WarmMeansIndexed`, `OneDefinition` and
  `PrecisionIsKept` say of the states in between: a search that works on a symbol has
  found exactly one, and a search that nothing has disturbed has not turned to the text.
* `Tree` is the invariant of the recursion of `walkIncoming`, unrolled: the list is a
  tree (`IsTree`), every level of `todo` hangs below the last node listed of the level
  above (`Hangs`), the list, the levels and the root have no node in common (`Apart`),
  and `seen` is exactly their union, the root if it is shown (`Seen`). A node
  that is listed was in `todo`, so it was in nothing else.
* `Closed` follows the calls: every caller of a node that has been asked about and
  is above the last level is listed or still in `todo`. When `todo` is empty,
  `CallersAreClosed` remains.
* `Viewed` and `RefsShown` say that a query shows of each search that ended what `View`
  makes of its lines. That the ranked lists neither lose nor repeat a line
  (`QueryKeepsParts`) rests on `FirstOfOrdered` of `DataLemmas`: if an order is total on
  a finite set, exactly m of its elements have fewer than m before them, for every m up
  to its size. The scores order the lines so, as ties fall to the place of the line.

`DataLemmas` proves facts about data of any size. Induction over numbers is done by
the least counterexample: intervals from 0 are finite sets, inclusion of finite sets
is well-founded, so a set of numbers that is not empty has a least element
(`LeastNumber`), and what holds of n if it holds below n holds of all (`AllNumbers`
states this of sets, which the provers can instantiate).

### Chunking and Indexer

Proved in `IndexerProofs` for all files and syntax trees, ignore rules, limits, sizes
of chunks and batches, and any number of processes, commands and faults:

| Theorem | Statement |
|---|---|
| `IndexerTypes` | `Spec => []TypeOK` |
| `IndexerVectors` | `Spec => []VectorsFitTheirText` |
| `IndexerSearches` | `Spec => []SearchIsFiltered` |
| `IndexerComplete` | `Spec => []IndexIsComplete` |
| `IndexerCurrent` | `Spec => CurrentIsCurrent` |

`ChunkingAssumption` says that the overlap of windows is less than their size, as
`NewFallbackSplitter` makes it; `IndexerAssumption` that limits are positive, that the
nodes of a syntax tree lie in their file and in the nodes above them, and that a
pattern names something. Two inductive invariants carry the theorems.

* `DataOK` holds of everything, overlaps and failures included: what a process
  holds is of the files and rules it read (`ProcOK`: its limit is at most the
  splitter's, and it has inserted at most all of its chunks), a row's vector is of its
  text, a reply shows no file its rules leave out. `TypeOK`, `VectorsFitTheirText` and
  `SearchIsFiltered` follow from it at once; none is inductive alone, as an insert takes
  its rows from the process.
* `OrderOK` holds as long as nothing is `torn`: there is one writer (`OneWriter`), what
  it read is as it was (`IsFresh`), the rows are those of the chunks it has done so far,
  and there is no metadata while it builds (`IsBuilding`); metadata that is there is of
  the whole (`IsDescribed`), and if its chunks are gone, the process that dropped them
  is about to drop it. `IndexIsComplete` is one conjunct of it. `CurrentIsCurrent`
  needs all: the verdict of `cs index` reads nothing but the metadata, a commit and
  rules of earlier (`OnlyCurrent` finds the two steps that say "current").

Both were checked with TLC on the instance of `index_commands` before they were proved.

Below them are lemmas about what the pure operators compute for every input.
`PiecesAre`: pieces, laid one after the other, are what was cut, so `splitTextAtLines` and
`buildEmbeddingRequests` lose nothing (`SplitTextIs`, `RequestsAre`), and a vector is
of its text (`VectorsAre`). `WindowsAre`: the windows hold every line that is not blank.
`DeclarationsAre`: every labelled node is an outermost one or lies in one. `ChunksAre`
sums up: chunks are parts of wanted files, and each wanted line is in one. What
`matches` decides is compared with a definition over the parts of a path: what matches
is `Named` (`MatchedIsNamed`); a path that is named has a head that matches
(`NamedIsMatched`), so a walk, which asks about every directory, keeps exactly the
wanted files (`KeepsUnnamed`); a search asks about the file alone, and what `LeftOut`
describes matches (`LeftOutMatches`). `Named` and `LeftOut` differ for globs, which the
filter of a search tries on the rest of the path only (section 5).

`Chunking` is written for this. `Walk`, `Windows`, `Declarations` and `Requests` pick the
elements at a set of places (`InOrder`, `Kept`) or cut a sequence at given ends
(`Pieces`, a recursive function of one number), as nothing can be proved of `SelectSeq`
and induction over a sequence is not available. A recursive function is a `CHOOSE`:
`CutsExist` shows that there is one, by the least counterexample. `Batches`, which
tabulates what `BatchOf` computes so that TLC works each batch out once, nests
functions of one argument, as tlapm knows no others.

### What stays with TLC

* Liveness under fairness, of every component: `EveryCallEnds`, `EndEndsCalls` and the
  like. TLAPS does not handle it.

Every invariant and every action property that a run checks is stated by a theorem.

## 5. Disagreements that have no run

Met while modelling, each read in the source; the runs above do not refute them.

Lifecycle, when commands overlap or a process is killed:

* A `cs` killed between the launch and the write of the state file leaves a daemon
  that no record names; it serves whoever dials its socket until it is idle.
* A daemon that stops idle removes the files at its paths after it has closed its
  socket (`daemon_unix.go:822`); a successor that has bound and been recorded in
  between loses them and becomes an orphan.
* Two `Ensure`s at once, in two processes, launch two daemons. The one that finds the
  other's socket exits, and its process may report "exited before ready" though a
  daemon is up.
* `Cleanup` takes the baseline of a live daemon for the state of a dead one and
  deletes it; the copy in the state file is kept.

Index:

* The error of dropping the metadata is dropped (`pkg/vectorstore/milvus.go:142`), and
  a process may be killed between the two drops. Old metadata then describes the next
  collection: an empty or partial one is called up to date (`README.md:359-361`).
* Uncommitted edits keep an index "current", as staleness compares commits.
* An anchored pattern of one name matches at any depth. A directory matched by a glob
  is not walked, but the search's filter does not leave out its files
  (`README.md:321`): `Matches` tries one-name patterns on every directory of a path only
  if they are literal. An unreadable file is skipped without a word.

Queries:

* The comment at `pkg/lsp/callers.go:402-403` says the shallowest occurrence of a caller
  wins. The walk is depth first: a caller reached first by a long path keeps that
  depth, and its own callers are cut off if it is the last (in the instance of `queries`
  `CX` is listed at depth 3 under `CC`, though `CB` makes it depth 2, and `CY` is missed
  at `--depth 3`). `CallersAreATree` and `CallersAreClosed` say what does hold.
* The comment at `pkg/lsp/refs.go:182-186` says that symbols that were all filtered out
  are a genuine "not found" without fallback; `Find` falls back on the text then too.
* The text search ignores `--path` and `--kind`. A server that reports only imports
  makes "0 references" without the note of the cross-check.
* `cs query --path` given relative is compared with absolute paths
  (`cmd/cs/query_command.go:28,135`), so nothing is in reach: references come from the text
  of the whole workspace, callers and implementations fail.
* A text query without a match ends with an empty status, which is rendered as a
  result (`pkg/engine/engine.go:306-345`, `render.go:14`).
* A long body is cut only if its file can be read by its path relative to the root
  (`engine.go:123`), so not when `cs` runs elsewhere.
* Implementations, and the other definitions of a name, are not budgeted.

## 6. Plan

Done: everything of section 2. Left: the diagnostics a check run makes its report of.

Not modelled, and why:

* Symbol extraction, outlines and slices: third-party parsers over syntax trees; what
  they find is data to the models.
* Configuration: a sequential merge of layers, key by key, without shared state. Its
  results are constants (`ChunkSize`, timeouts that are steps) or choices (`Limits`, `fits`).
* Layout, formatting, `init`, `list`, `extract`, `version`, the download of Lombok: output, or
  one request, without state.
* Windows, and systems without a process start id: no daemon, or only pids.
* The window between comparing a start id and killing: it needs a pid that is used
  again within two system calls.
* Bounded pipes to the language server: their size is the kernel's, and a server that
  stops reading is outside the code.
