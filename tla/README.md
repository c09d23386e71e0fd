# Verification of nginY

nginY (C++23, `src/src/`) is a small HTTP/HTTPS reverse proxy: one thread waits for
connections, eight workers serve them, one thread writes the log. This directory
holds TLA+ models of its concurrent core and of the way from a configuration file to an
answer, TLC configurations that check them and TLAPS proofs of what matters most. `PROJECT.json` lists every run, the source lines
behind every definition, the hazards and the findings.

## 1. Inventory

| Component | State | Operations | Talks to |
|---|---|---|---|
| **ThreadPool** `core/ThreadPool.h` | `running`, `tasks`, `threads`, one mutex, one condition variable | constructor, worker loop, `submit`, `shutdown` | called by WebServer; workers run its lambdas |
| **LinkedBlockingQueue** `utils/LinkedBlockingQueue.h` | list behind a dummy head, `tail`, atomic `queueSize` and `shutdown`, two mutexes, two condition variables | `offer`, `put`, `getListItem`, `tryGetListItem`, `cleanup`, destructor | used by Logger |
| **Logger** `utils/Logger.{h,cpp}` | static `logThread`, static `queue`, the file | `log`, `requestStop`, log thread, exit handler | called from every thread |
| **WebServer** `core/WebServer.{h,cpp}` | `isRunning`, `instance_`, `epollFd`, listen sockets | constructor, `startListen`, `connectionHandle`, `acceptAndSubmit`, signal handler, the two client handlers, destructor | pool, connections, contexts, Logger |
| **Connections** `network/connections/*` | `fd`, `ssl` | constructors (handshake, redirect), `read`, `write`, `close`, destructors | kernel, OpenSSL |
| **ProxyConnection** `network/ProxyConnection.cpp` | request, vhost, backend socket | choice of location, `forwardRequest`, static answer, destructor closes the client | backend, files |
| **Routing** in `WebServer.cpp`, `ProxyConnection.cpp` | none | `parseRequest`, `dispatchToVhost`, longest location | configuration |
| **ServerConfig** `utils/ServerConfig.cpp` | list of virtual hosts | line-based parser | start-up |
| **TLS contexts** `network/S{NI,SL}Context.cpp` | contexts by name, the default | constructors, SNI callback | start-up, handshakes |
| **Sockets** `network/socket/*` | none | listen, accept, connect | kernel |
| **StaticResourceManager, FileReader** | none | path mapping, content type, content length, file contents | files |

What is hard here: workers, the main thread and the log thread interleave; the kernel
gives a closed descriptor number out again at once; a signal may come at any point of
the event loop; the order of static destruction decides what the log thread still finds;
the queue's `put` and its readers use different mutexes; a client may keep silent or hang
up at any point. Correct means, per component:

* pool: tasks start in order, none lost or doubled; no sleeping worker beside a task;
  every future resolved; shutdown drains and joins;
* queue: FIFO, no loss, no access to deleted nodes, bounded, readers woken;
* logger: messages written once and in order; process exit ends;
* server: a connection object touches only its own connection; no descriptor leaks; every
  accepted connection is closed; a signal stops the server, after what was accepted (the first
  and the last two with exceptions, §4);
* proxy: the request reaches the backend in order, the client gets the answer or one error
  page, never both, and a worker does not stay in a request for ever;
* configuration: what the file says is what the server gets, and a slip in one server block
  costs no other;
* start-up and routing: a port that cannot be had costs as few others as the code allows,
  a client sees the certificate of the host it asked for and is answered by that host, the
  longest location wins whatever the order of the file.

## 2. Modules

```
TaskService  <--implements--  ThreadPool  <-- ThreadPoolProofs
                                  |  (its service, in Server)
ItemQueue  <--implements--  LinkedBlockingQueue  <--EXTENDS--  Logger
                                ^-- QueueProofs <-------------^-- LoggerProofs
Server  (event loop + pool service + connections + descriptor table)  <-- ServerProofs
Proxy  (forwardRequest between one client and one backend)            <-- ProxyProofs
VirtualHosts  (virtual hosts -> answers)                              <-- VirtualHostsProofs
ServerConfig  (file -> virtual hosts)                                 <-- ServerConfigProofs
ProofLemmas   (sequences, counting, least elements: used by all *Proofs)
MC*     instances for TLC (symmetry, sets of configurations)
```

**ThreadPool.** `tasks` and `running` are touched only under the mutex, so a critical
section is one step; the gaps (running a task, between the flag and `notify_all`, each
`join`) are step boundaries. `wpc` places each worker: at the mutex (`check`), asleep
(`wait`), in a task (`run`), `exited`. `Submit`, `Sleep`, `Take`, `Exit`, `Finish`,
`BeginShutdown`, `NotifyAll`, `Join` are the code's critical sections and gaps; spurious
wakeups are modelled, and a task may throw. `accepted` and `taken` are history.

**TaskService** says what a caller may rely on: FIFO starts, at most `Capacity` at a
time, an outcome for each accepted task, none accepted after closing.

**LinkedBlockingQueue.** Every access another thread can see in between is a step: link, `tail`,
count and notification of an `offer` or `put`; unlink, second look, tail reset and delete of a
take. `put` looks at size and shutdown (`Admit`) a step before it links, since `offer` and
`cleanup` go on under the other mutex. A `wait` is two steps, the false predicate and the sleep,
since `put` and `cleanup` can change the predicate without holding that mutex. `MaxNodes` bounds
allocation, nodes are not reused, and double as the items. Taking a free mutex is merged with
the first access under it. What the model leaves out: the effects of reading through a node
already deleted; `NodesAlive` says it does not happen.

**ItemQueue** says what callers of `offer` and the two reads may rely on: each call takes effect
at one moment, an item enters once and is given once, in order; a `getListItem` is answered with
nothing only when the queue is closed, a `tryGetListItem` only when it is empty. `Asked` and
`LastAnswer` map the threads' steps to calls and answers, `Chain` is the abstract queue.

**Logger** runs that queue with the program's threads: `offer` by those that log,
`getListItem` and then `tryGetListItem` by the log thread, `cleanup` by the exit handler.
`phase` follows `exit()`: handler, destructor of `queue`, destructor of `logThread` (stop,
join), the reverse of their definitions in `Logger.cpp`. A log thread that touches the
destroyed queue ends or is `undefined`; one that sleeps in it touches nothing and sleeps on.

**Server.** `fdt` is the process's descriptor table; `accept`, backends and files get the
lowest free number. `mpc` is the main thread (`enter`: about to call `epoll_wait`),
`events` the listen sockets it has still to handle, `tasks` and `wpc` the pool, `job` the
connection object a worker made. A request is reduced to what becomes of it. Modelled
outcomes of the environment: silent clients, clients that hang up before or after asking,
connections that vanish from the backlog, `accept` failing at any time and always with a full
table, handshakes that fail, plain http on an https port, a probe byte that is never read,
SIGPIPE on TLS writes. `harmed` is history: it records that a failed `accept` was handed on or
that `~Connection` closed a number that was somebody else's by then. The pool is used through
TaskService's behaviour, which is what `ImplementsTaskService` checks of ThreadPool. A
process-directed signal is taken to reach the main thread, as Linux does when that thread
accepts it.

**Proxy.** One `forwardRequest`: the client, the worker and the backend run concurrently and
are joined by four bounded streams (`upload`, `download`, `toBackend`, `fromBackend`, the
sockets' buffers). `ppc` is the worker: sending the `header`, forwarding the `body`,
receiving (`recv`), relaying the `answer`, sending its own `page`; `chunk` is what the
`send()` it is in has yet to send, and a full stream blocks it. The client may hang up, may have
sent part of its body (or more than that) with the header, and may wait for an answer before
it sends the rest. The backend may answer after or before it reads the body, stall, close or
reset. Results of `send()` and `write()` are ignored, as in the code; the 30 seconds of
`SO_RCVTIMEO` are a choice open whenever the worker waits in `recv`. After an end of the stream
`recv` returns 0, after a reset what has arrived and then an error, as Linux does. The proxy
closing a client's connection with bytes unread resets it, and the client may lose the end of
what was written. `chunked` requests announce no length, so their body stays unread.

**ServerConfig.** `at` says which of the three nested loops reads the next line; `host` and
`rule` are what it fills, `config` what it has finished. A line is reduced to what the parser
can tell apart: its first word, its value, and whether it has a closing brace. The file is
chosen as it is read. `depth` follows the writer, who means to be in some block; an odd line
opens or closes a block without the writer minding (a brace in a comment, a block that is never
closed, a nested server). `proxy` of a new rule is either value, since nothing initializes it.
`ParsedAsWritten` and `DamageContained` read the file a second time, by the places of its lines
instead of by state: `Section` is the lines of one server up to the next, `Block` those of one
location up to a closing brace, and a host should hold the last value, all ports and one rule per
location of its section. `DamageContained` asks this of a damaged file too, once each server but
the last has an end (`Ends`: a closing line no location waits for): no host has anything from
another section, rules and their destinations included, and a host in whose locations nothing
stands that does not belong there (`Intact`) has all that its lines up to its end say (`Body`),
however damaged the others are.

**VirtualHosts** begins with what the parser returns. `LoadContext` walks the hosts as the
constructor of SNIContext does, `OpenPort` the sorted ports of a kind, where each may fail in
either of the two ways of createListenSocket; `Sigterm` may come at any time and closes
everything. A client then connects with or without a name, by http or TLS, is refused,
redirected (`home` remembers by whom) and comes back, or is given to a host (`host`), a location
(`rule`) and perhaps a file. A file may be absent, there, there without being readable (or with
no descriptor left to open it), a directory, which `getSite` opens and then fails to size, or such
that `exists` throws; `Deploy` changes that at any point of the request, and `was` is its history.
`MaxSeen` bounds the changes. URLs and files are chosen when the code first looks at them, which
gives the same runs and fewer states.

## 3. Runs

| Run | Bounds | Shows |
|---|---|---|
| `pool` | 2 workers, 3 tasks, 2 stoppers | order, futures, wakeups, shutdown, draining; tasks finish, shutdown returns, the pool implements TaskService |
| `queue_put_get` | 2 put, 2 take, 1 cleans up; 4 nodes, capacity 1 | the tail is never left on a deleted node, cleanup frees every reader |
| `queue_two_offerers` | 2 offer | finding: the capacity is exceeded |
| `logger` | 2 threads log, 1 reads; 3 nodes, capacity 2, `requestStop` | the queue implements ItemQueue (FIFO, no loss), size and tail consistent, no lost wakeup; written once and in order; messages written, exit ends |
| `logger_queue_destroyed` | 2 nodes | finding |
| `server_fair` | 1 http and 1 https client, 1 worker, descriptors 0..2, 1 queued task | accepted is closed, a signal stops the server, but for the exceptions of §4 |
| `server_any_client` | 2 https clients, 2 workers, descriptors 0..2, 1 queued task | until one of two things goes wrong a connection object uses only its own descriptor; no descriptor leaks, return means done |
| `proxy` | body up to 4 units, answer up to 3, streams and reads of 2 | request in order and handed over, answer or one page, clean end complete, two deadlocks and no third |
| `config` | files of up to 7 lines, 2 of them odd; 2 values, 2 locations, 1 port | what is written is what is parsed; damage stays in its server |
| `virtual_hosts` | up to 2 hosts of 36 kinds, ports 1..4, or 1 host with up to 3 of 5 locations; 5 URLs; one change to a file per request | failed ports, certificates, redirects, locations, static answers |
| `server_http_double_close`, `server_failed_accept` | small | findings |

The bounds let each hazard occur: more tasks than workers, a shutdown between any two of
their steps, two offerers and one free place, a take of the last node beside an append, a
descriptor reused between two closes (there are 1 and 2 and, once a failed accept has closed it,
0), a table with no free number. `server_any_client` has clients of https ports only, whose
connection objects do all that those of http ports do but closing twice after an answer, which
`server_http_double_close` has; with a plain http probe they close twice too. `server_fair` has
one worker, since two make the temporal check too long; what a second worker could take from
the first, its descriptor, is the subject of `server_any_client`. Clients come back, so the
server's runs have no last request; `MaxTasks` bounds the pool's queue: the main thread
waits in `Accept` where the program would go on. Symmetry is used in runs without temporal
properties only, over threads and clients that play the same part. Deadlock is not
checked: every system here may come to rest with nothing submitted. The queue's capacity is
100 in the program and 1 or 2 here: only "full" and "not full" differ. Seven lines hold two
servers with a value each, or one with two locations; what a line does depends on the open block
only. Two hosts give every pair of duplicate names, shared ports and missing certificates; three
locations a longest one, a tie and one that does not fit, in every order.

**Fairness.** Weak fairness of each worker, of the main thread, of the log thread and of the
stopper: the scheduler runs what can run, tasks end. In `logger` a thread inside a call of the
queue has strong fairness: a mutex that is free again and again is had, which `std::mutex` does
not promise but its implementations give. Nobody must submit, offer, connect, signal, stop or
wake spuriously. In `server_fair` a worker is fair until it answers: nothing limits how long
`forwardRequest` blocks in a `send` to the backend or in reading the client, nor how long a
client takes to read its answer, so `Relay` and `Close` may never happen, and `AcceptedIsClosed`
and `StopsIfAwake` name what this costs: the connection that is answered for ever, and, while
some or all workers are held that way, the return of `startListen` or the connections in the
queue. The one assumption on clients is that each asks or hangs up in the end; the code sets it
no limit, and without the assumption a silent client holds its worker, and eight of them the
server and its shutdown. `proxy` has weak fairness of the worker, of a client that is there (it
sends what it announced and reads what it gets) and of a backend that has not stalled; a client
that waits for an answer is not made to send. `config` and `virtual_hosts` check invariants, and
assume nothing.

## 4. Findings

Each of these has a run whose counterexample shows it; `PROJECT.json` quotes the line it
contradicts.

* `queue_two_offerers`: `offer` tests the size before it locks, so two callers pass for one
  free place; once above, `==` never holds again and the queue has no bound.
* `logger_queue_destroyed`: the log queue is destroyed before the thread that reads it is
  joined.
* `server_http_double_close`: `HttpConnection::close` does not reset `fd`, so every proxied
  plain-http request closes its number twice. `HttpsConnection`'s constructor does the same
  after a plain-http probe.
* `server_failed_accept`: a failed `accept` submits descriptor 0, whatever the error was, unless
  it was `EWOULDBLOCK`.

In the models, and without a run of their own: a signal that comes after the test of `isRunning`
and before `epoll_wait` is not noticed until the next client (`StopsIfAwake` excuses a main
thread that sleeps for good, and no other); a worker that answers a client for ever keeps its
connection, keeps `startListen` from returning and, when all do so, the server from serving
(`AcceptedIsClosed`, `StopsIfAwake`); a second caller of `shutdown()` returns before threads are
joined (the program has one); a log thread that was asked to stop, which nothing in the program
does while it runs, goes on as long as others log faster than it drains; `put` lets the queue
grow to one more than its maximum, and can lose items and wakeups to `offer` and `getListItem`,
which use the other mutex (the program calls `offer` only); TLS writes to a client that has
reset its connection raise SIGPIPE (`Sigpipe`); what is still in the log queue at exit is not
written; the two deadlocks of `forwardRequest` that `RelayEnds` names; a chunked request body is
never forwarded, and the reset it causes may cost the client the end of its answer; a missing
closing brace swallows the next server; one failed port loses all larger ones of its kind, and a
port listed with and without `ssl` always fails; a name split over an http and an https block is
redirected by the second and then served by the first, which usually has no locations; a
redirect may lead to a port that never opened, when no certificate loaded; the 404 page is sent
with status 200, a page that cannot be opened is a bare 404, and for a directory the client gets
no answer at all.

Met while reading, outside the models: the shipped `nginy.conf` uses `httpListen` and
`httpsListen`, which the parser does not know, its commented `#}` (line 11) ends the server
block, and it names no server, so that no request can reach it; `root` takes no directory, every
static answer comes from `www`; plain http on an https port is sent to `https://localhost:8443`;
`Restart=on-failure` (`deploy/nginY.service`) does not restart a server that SIGPIPE has ended.

## 5. Proofs

Each `*Proofs` module EXTENDS the model it is about and proves properties that a run of §3
checks, for every value of the constants. Most assume only what the models do (`PoolAssumption`
and the like: finite sets of tasks, natural numbers as bounds, marks that are no elements). Three
more assumptions, `NobodyPuts`, `FiniteThreads` and `OneOfferer`, are explained below.

**The pool** (`ThreadPoolProofs`): all six invariants of `pool`.

* `TypeCorrect`: `TypeOK` is inductive by itself.
* `ShutdownStrandsNobody`, `WakeupsSuffice`: inductive relative to `TypeOK`. The second counts
  woken workers, each push adding one and each take removing one (`OneMoreWoken`).
* `FirstComeFirstServed`: `taken \o tasks = accepted`, by `MoveHead`.
* `PromisesAreKept`: not inductive by itself. Had a task been queued twice, taking it would
  leave it both held and queued; `PromiseInv` adds that queued tasks are different.
* `JoiningDrains`: from `LeftWhenDone` (who exited saw the queue empty and closed, and that
  lasts), `JoinedHaveExited` and `PromiseInv`.

`PoolImplementsService` is the refinement, `Spec => Service!Spec`: every step maps to a step of
TaskService or to one that changes nothing a caller sees (`StepRefined`). Two steps need an
invariant. A worker that takes a task holds none, so the tasks held by the others are at most
`NumThreads - 1` (`IdleWorkerLeavesRoom`, which maps workers onto tasks). A worker that finishes
a task is the only one that holds it (`PromisesKept`), so it leaves the set of running tasks.

**The queue** (`QueueProofs`): all invariants of the queue that `queue_put_get` and `logger`
check, and the refinement. `QueueIsFifo` proves `FifoNoLoss`, that what was taken and what hangs
on the head is what was added, in order; TLC checks it as part of `ImplementsItemQueue`.

* `NoReaderLeftAsleep` (`CleanupFreesReaders`) holds for any mix of operations. Its invariant
  is `Busy` (which operation is at which step), `Exclusive` (who is in a critical section holds
  the mutex of that operation) and `WokenUp`.
* `NoUseAfterFree` (`NodesAlive`) holds for any mix too, although `put` appends under `mutexTwo`
  while a reader takes the last node out under `mutexOne`. FIFO is gone then, and nothing can be
  said of which nodes are in the list, so `AliveInv` speaks of links only. `LinksForward`: only
  a node that was taken leads to one that was taken, and no two nodes in the list lead to the same
  one, so nothing the head leads to was taken. `TailAlive`: while nobody is between linking a
  node and moving the tail, the tail leads nowhere; a node that a reader has looked at twice, or
  deleted, and that leads nowhere is neither the tail nor about to become it. The second look and
  `mutexTwo` in `Retail` are what keeps this: no `put` can be in between there (`Exclusive`).
  `NodesNew` gives each pending append a node of its own. `Chain` is a recursive
  function; `ChainIsWalked` proves that it exists wherever the links lead, by extending a walk by
  one step, and `ChainNotTaken` follows it.
* The rest assumes `NobodyPuts`: `put` appends under the other mutex, which breaks FIFO and
  wakeups (§4). The program has no call of `put`, and the logger's use discharges the
  assumption (below). Then one thread at a time is inside (`OneInside`), and `ListInv` is
  inductive: what was taken is what was added first and the rest hangs on the head in that order
  (`Linked`); the nodes of offers that wait for the mutex are new and different (`Fresh`);
  `tail`, `size` and the deleted nodes are right but for what the thread inside has in hand
  (`TailRight`, `Sized`, `Deleted`). `FifoNoLoss` alone is not inductive: a tail on a wrong node
  would append where nobody looks.
* `FifoNoLoss` and `ListSound` speak of `Chain`, a recursive function that walks the list.
  `ChainIs` proves what it is: a function that satisfies the recursion is given explicitly, and
  any that does equals it, by `InductiveSet`.
* `QueueImplementsItemQueue` is the refinement. An offer takes effect when it links its node, a
  read when it unlinks one or gives up; every other step keeps each thread's `View` (what it
  asked, what it was answered) and `Chain`, which `Rest` ties to `added` and `got`.
* `CapacityOfOneOfferer`: the bound that `queue_two_offerers` refutes holds for one offerer.
* `NoLostWakeup` adds `Covered`: while a reader sleeps on an open queue there are at least as
  many threads on their way to notify or take as items. It counts threads, hence
  `FiniteThreads`.

**The logger** (`LoggerProofs`): `LoggerIsAQueueUser` proves `LSpec => Spec`, each step of the
logger (the exit handlers included) being one of the queue's or leaving the queue alone. Since
`Threads` has nobody who puts, `LoggerQueueSafe` transfers the queue's theorems, the refinement
included, with nothing left to assume but, for wakeups, that finitely many threads log.
`LogInOrder` needs to know what the log thread has in hand at each step of a take: `InOrder` says
that the file has all that was taken, or all but one, and which one. It holds until the queue is
destroyed, which is where the finding of `logger_queue_destroyed` begins.

**The server** (`ServerProofs`).

* `NoDescriptorLeaks`: `EveryFdHasACloser` is not inductive by itself, since a worker that takes
  a task replaces what it holds; `IdleHoldsNothing` says it holds nothing then. No assumption on
  clients or deployment: the double close may close a stranger's descriptor, but leaks none.
* `ReturnedIsDone`: from that and `NothingLeftToDo`.
* `OwnUntilHarmed` (`OwnsWhatItUses`): for any clients, numbers and failures, until a failed
  `accept` has been handed on or `~Connection` has closed a stranger's number (`harmed`). These
  are the two findings about descriptors; the theorem says that they are the only ways in which
  one goes astray. The invariant `Own` says that each client and worker has one
  descriptor (`OneFdEach`), each job's descriptor is its client's (`JobsOwnTheirFds`), and no
  connection has two objects (`OneJobEach`), so that none is left with a number that the other
  has closed.

**The proxy** (`ProxyProofs`): all four invariants of `proxy`, for bodies and answers of any
length cut anywhere. Streams hold numbered units; `CountsFrom(s, k)` says that `s` continues
after unit `k`, and `CountAppend`, `CountTail`, `CountCut`, `CountMove` what the operations on
streams do to that. `RequestInv` places what the backend has read, its buffer, the chunk and the
client's buffer one behind the other; `AnswerInv` does the same on the way back, until a page
takes over with nothing delivered; `CleanInv` says that a worker that has not failed has read
all of the body, so that closing does not reset the client.

**Virtual hosts** (`VirtualHostsProofs`): all six invariants of `virtual_hosts`, for every set of
configurations. `Inv` has a part for each: `ContextsRight` (the map of contexts so far),
`PortsRight` (opened ports are smaller than those to come, or all below the failed one),
`ClientRight`, `RuleRight`, `HomeRight`, `FilesRight`. `LongestWins` unfolds the loop over the
locations, a fold: by `InductiveSet`, after n locations the best one is the longest of them and
the first of those as long.

**The configuration** (`ServerConfigProofs`): all three invariants of `config`, for files of any
length and any sets of values, ports and locations.

* `MeansWhatItSays`: `ParsedAsWritten` speaks of the end of the file only. `Written` says the
  same of every line on the way: `Reading`, the hosts finished and the one that is being filled,
  is what the file read so far says; the parser is in the block the writer is in; in a location
  its rule is the last one and open (`Open`), all others have ended. Each line then either adds
  itself to the last section (`WhereThere`, `ClosingsThere`, `BlockThere`: what one more line
  does to each set of places) or begins a new one (`SectionsThere`), and leaves all earlier
  sections as they were (`HostKept`). `MaxLast`: a last value is replaced by a new line.
  `RankMore`, `RankOrder`: the n-th host is that of the n-th section. `FlattenAppend`: the ports
  written so far are extended by those of the line, with `FlattenSeq` unfolded as `Chain` is.
* `DamageIsContained`: `Contained` says the same of the hosts so far, the one being filled
  included, and where the parser is: at the top the last section has its end, in a host it has
  none and no location waits for a closing line, in a location one does. So a `server` line that
  the parser reads inside a host follows a section without an end (`NoServerInside`), which the
  property excludes. Nothing after its end counts for a section (`BodyThere`), and each line
  before it either keeps the section intact and adds itself to its host, as for `MeansWhatItSays`,
  or damages it, and then adds nothing that is not its own (`AsIntactGrown`, `FromsGrow`).

**Lemmas** (`ProofLemmas`): `LeastElement`; `InductiveSet`, natural induction stated for a set,
which the provers can instantiate; sequences without repetition (`OnceEach`, `OnceEachFits`);
streams of counted units; cardinalities.

Only model-checked:

* liveness and fairness (outside the prover's reach), the fairness part of
  `ImplementsTaskService` included;
* the findings, which are counterexamples.

## 6. Not modelled

Modelled: pool, queue, logger, event loop and descriptors, relay, configuration, start-up,
routing and static answers. Every invariant that a run checks is proved, and so are both
refinements, but for the fairness part. Not modelled are failures of `epoll_create1` and
`epoll_ctl`: `Server` starts with its listen sockets registered.

Left out for good: TLS itself, the text of responses and log lines, content types, the
contents of files, build and service files, `serveStatic` (called by tests only), and what a
signal handler does to the WebServer once it is destroyed (undefined). Memory is not modelled,
but a use of the destroyed queue is.
