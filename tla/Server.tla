------------------------------- MODULE Server -------------------------------
(***************************************************************************)
(* src/src/core/WebServer.cpp and the connection objects: one thread waits *)
(* for connections with epoll_wait and accept(), a pool of workers serves  *)
(* and closes them, a signal handler clears isRunning.  What they share is *)
(* the descriptor table of the process: a number that is closed is given   *)
(* out again, to whoever asks next.                                        *)
(*                                                                         *)
(* The pool is the service of TaskService: a queue and free workers, that  *)
(* its destructor drains.  A request is reduced to what becomes of it:     *)
(* refused or redirected without opening anything, or served through one   *)
(* more descriptor (the backend's socket, or the static file).             *)
(*                                                                         *)
(* Descriptors 1.. stand for those that are free once the server listens;  *)
(* 0 is standard input, and the value a failed accept() leaves behind.     *)
(***************************************************************************)
EXTENDS Integers, Sequences, FiniteSets

CONSTANTS
    HttpConns, HttpsConns,  \* clients of the two kinds of port
    Workers,                \* the threads of the pool, 8 in startListen
    MaxFd,                  \* RLIMIT_NOFILE: the greatest descriptor
    MaxTasks,               \* bound: tasks waiting in the pool
    Free, Stdin, None

Conns == HttpConns \cup HttpsConns
Kinds == {"http", "https"}
ConnsOf(k) == IF k = "http" THEN HttpConns ELSE HttpsConns
Fds   == 0..MaxFd
NoFd  == -1

ASSUME ServerAssumption ==
    /\ MaxFd \in Nat /\ MaxTasks \in Nat
    /\ Conns \cap Workers = {} /\ {Free, Stdin, None} \cap (Conns \cup Workers) = {}

VARIABLES
    client,     \* what each client does
    backlog,    \* connections accept() has not yet returned
    fdt,        \* who each descriptor belongs to
    isRunning,  \* WebServer::isRunning
    mpc, events,\* the main thread, and the listen sockets it has yet to handle
    tasks,      \* the pool's queue
    wpc, job,   \* the workers, and the connection object each has made
    backend,    \* the descriptor a worker has opened besides
    harmed      \* history: a failed accept() was handed on, or ~Connection
                \* has closed a number that was somebody else's by then

env  == <<client, backlog>>
main == <<isRunning, mpc, events, tasks>>
work == <<wpc, job, backend>>
vars == <<env, main, work, fdt, harmed>>

\* A connection object: its class, its `fd`, and whose connection it was made
\* for (nobody's, when accept() had failed).
Jobs  == [kind : Kinds, fd : Fds \cup {NoFd}, conn : Conns \cup {None}]
NoJob == [kind |-> "http", fd |-> NoFd, conn |-> None]

Init ==
    /\ client = [c \in Conns |-> "away"] /\ backlog = {}
    /\ fdt = [f \in Fds |-> IF f = 0 THEN Stdin ELSE Free]
    /\ isRunning = TRUE /\ mpc = "enter" /\ events = {} /\ tasks = <<>>
    /\ wpc = [w \in Workers |-> "idle"] /\ job = [w \in Workers |-> NoJob]
    /\ backend = [w \in Workers |-> NoFd] /\ harmed = FALSE

Alive    == mpc # "killed"
FreeFds  == {f \in Fds : fdt[f] = Free}
LowestFree == CHOOSE f \in FreeFds : \A g \in FreeFds : f <= g
Open(c)  == \E f \in Fds : fdt[f] = c
Ready    == {k \in Kinds : backlog \cap ConnsOf(k) # {}}
----------------------------------------------------------------------------
\* The clients.  One may hang up at any time, and what it has sent ("left") can
\* still be read; a connection still in the backlog may vanish from it.
Connect(c) ==
    /\ client[c] = "away" /\ mpc # "returned"
    /\ client' = [client EXCEPT ![c] = "silent"]
    /\ backlog' = backlog \cup {c}
    /\ UNCHANGED <<main, work, fdt, harmed>>

Ask(c) ==
    /\ client[c] = "silent"
    /\ client' = [client EXCEPT ![c] = "asked"]
    /\ UNCHANGED <<backlog, main, work, fdt, harmed>>

HangUp(c) ==
    /\ \/ client[c] = "asked" /\ client' = [client EXCEPT ![c] = "left"]
       \/ client[c] = "silent" /\ client' = [client EXCEPT ![c] = "gone"]
    /\ UNCHANGED <<backlog, main, work, fdt, harmed>>

Gone == {c \in Conns : client[c] \in {"gone", "left"}}

Vanish(c) ==
    /\ c \in Gone \cap backlog
    /\ backlog' = backlog \ {c}
    /\ UNCHANGED <<client, main, work, fdt, harmed>>

\* The server has closed the connection.  The name may stand for a new client
\* when no connection object of the old one is left.
SeeEnd(c) ==
    /\ client[c] # "away" /\ c \notin backlog /\ ~Open(c)
    /\ \A w \in Workers : job[w].conn # c
    /\ client' = [client EXCEPT ![c] = "away"]
    /\ UNCHANGED <<backlog, main, work, fdt, harmed>>
----------------------------------------------------------------------------
\* SIGTERM or SIGINT: the handler clears the flag.  An epoll_wait that has begun
\* is interrupted; one that is about to begin is not.
Sigterm ==
    /\ isRunning /\ mpc # "killed"
    /\ isRunning' = FALSE
    /\ mpc' = IF mpc = "blocked" THEN "test" ELSE mpc
    /\ UNCHANGED <<env, events, tasks, work, fdt, harmed>>

EnterWait ==
    /\ mpc = "enter"
    /\ mpc' = "blocked"
    /\ UNCHANGED <<env, isRunning, events, tasks, work, fdt, harmed>>

\* epoll_wait returns the listen sockets that have connections.
WaitReturns ==
    /\ mpc = "blocked" /\ Ready # {}
    /\ events' = Ready
    /\ mpc' = "handle"
    /\ UNCHANGED <<env, isRunning, tasks, work, fdt, harmed>>

\* pool.submit(handler(clientSocket)).
Submit(k, f, c) ==
    /\ Len(tasks) < MaxTasks
    /\ tasks' = Append(tasks, [kind |-> k, fd |-> f, conn |-> c])

\* acceptAndSubmit(): accept() gives the lowest free descriptor.  It may fail, and
\* with none left it does (EMFILE; ENFILE, ENOBUFS and ENOMEM can come any time):
\* the exception is logged, and the initial 0 is submitted.  With the backlog
\* empty (EWOULDBLOCK) nothing is.
Accept(k) ==
    /\ mpc = "handle" /\ k \in events
    /\ \/ \E c \in backlog \cap ConnsOf(k) :
             /\ FreeFds # {}
             /\ fdt' = [fdt EXCEPT ![LowestFree] = c]
             /\ backlog' = backlog \ {c}
             /\ Submit(k, LowestFree, c)
             /\ UNCHANGED harmed
       \/ /\ k \in Ready
          /\ Submit(k, 0, None)
          /\ harmed' = TRUE
          /\ UNCHANGED <<fdt, backlog>>
       \/ /\ k \notin Ready
          /\ UNCHANGED <<fdt, backlog, tasks, harmed>>
    /\ events' = events \ {k}
    /\ UNCHANGED <<client, isRunning, mpc, work>>

EventsHandled ==
    /\ mpc = "handle" /\ events = {}
    /\ mpc' = "test"
    /\ UNCHANGED <<env, isRunning, events, tasks, work, fdt, harmed>>

TestOnce == "enter"     \* mutant of AfterTest: while (true)

\* while (isRunning.load()).
AfterTest == IF isRunning THEN "enter" ELSE "stopping"

TestRunning ==
    /\ mpc = "test"
    /\ mpc' = AfterTest
    /\ UNCHANGED <<env, isRunning, events, tasks, work, fdt, harmed>>

Idle == \A w \in Workers : wpc[w] = "idle"

QueueEmpty == tasks = <<>>              \* mutant of Drained: no join

Drained == tasks = <<>> /\ Idle

\* ~ThreadPool at the end of startListen: what was submitted is served first.
Return ==
    /\ mpc = "stopping" /\ Drained
    /\ mpc' = "returned"
    /\ UNCHANGED <<env, isRunning, events, tasks, work, fdt, harmed>>
----------------------------------------------------------------------------
Goto(w, l) == wpc' = [wpc EXCEPT ![w] = l]

\* close(f): an error and nothing else when f is not open.
Closing(f) == fdt' = [fdt EXCEPT ![f] = Free]

\* A worker takes a task and makes the connection object.
Begin(w) ==
    /\ Alive /\ wpc[w] = "idle" /\ tasks # <<>>
    /\ job' = [job EXCEPT ![w] = Head(tasks)]
    /\ tasks' = Tail(tasks)
    /\ Goto(w, IF Head(tasks).kind = "http" THEN "read" ELSE "tls")
    /\ UNCHANGED <<env, isRunning, mpc, events, backend, fdt, harmed>>

\* Who is at the other end of the descriptor the worker uses.
Peer(w) == fdt[job[w].fd]

\* recv() waits for a silent client, and fails at once on what is no socket.
Readable(w)   == Peer(w) \in Conns => client[Peer(w)] # "silent"
HasRequest(w) == Peer(w) \in Conns /\ client[Peer(w)] \in {"asked", "left"}

\* HttpsConnection().  A first byte that is not TLS's, or whatever the probe holds
\* when no byte came: a redirect, and closed before the throw.  A handshake may
\* fail, which throws too.  A throw runs ~Connection.
Handshake(w) ==
    /\ Alive /\ wpc[w] = "tls" /\ Readable(w)
    /\ \/ Closing(job[w].fd) /\ Goto(w, "destroy")
       \/ Goto(w, "destroy") /\ UNCHANGED fdt
       \/ HasRequest(w) /\ Peer(w) \notin Gone /\ Goto(w, "read") /\ UNCHANGED fdt
    /\ UNCHANGED <<env, main, job, backend, harmed>>

\* createHttpClientThread(), createHttpsClientThread(): nothing to read, no host
\* or no virtual host of that name end the task, on an http port so does the
\* redirect to a virtual host's https port; other requests are served.
Read(w) ==
    /\ Alive /\ wpc[w] = "read" /\ Readable(w)
    /\ \/ Goto(w, "destroy")
       \/ HasRequest(w) /\ Goto(w, "serve")
    /\ UNCHANGED <<env, main, job, backend, fdt, harmed>>

\* ProxyConnection: no location, no descriptor or no backend is answered at
\* once; else a socket or a file is open until the answer is through.
Serve(w) ==
    /\ Alive /\ wpc[w] = "serve"
    /\ \/ Goto(w, "close") /\ UNCHANGED <<fdt, backend>>
       \/ /\ FreeFds # {}
          /\ fdt' = [fdt EXCEPT ![LowestFree] = w]
          /\ backend' = [backend EXCEPT ![w] = LowestFree]
          /\ Goto(w, "relay")
    /\ UNCHANGED <<env, main, job, harmed>>

\* Mutant of Relay: the backend's socket is left open.
RelayAndForget(w) ==
    /\ Alive /\ wpc[w] = "relay"
    /\ backend' = [backend EXCEPT ![w] = NoFd]
    /\ Goto(w, "close")
    /\ UNCHANGED <<env, main, job, fdt, harmed>>

\* Mutant of Relay: the number of the closed socket is kept.
RelayAndKeep(w) ==
    /\ Alive /\ wpc[w] = "relay"
    /\ Closing(backend[w])
    /\ Goto(w, "close")
    /\ UNCHANGED <<env, main, job, backend, harmed>>

\* Mutant of Relay: the client's descriptor is closed, not the backend's.
RelayClosesClient(w) ==
    /\ Alive /\ wpc[w] = "relay"
    /\ Closing(job[w].fd)
    /\ backend' = [backend EXCEPT ![w] = NoFd]
    /\ Goto(w, "close")
    /\ UNCHANGED <<env, main, job, harmed>>

\* forwardRequest() ends by closing the backend's socket, getSite() the file.  It
\* may also throw (a directory has no size): then ~ProxyConnection never runs.
\* Nothing limits how long send() and client.read() block: see FairSpec.
Relay(w) ==
    /\ Alive /\ wpc[w] = "relay"
    /\ Closing(backend[w])
    /\ backend' = [backend EXCEPT ![w] = NoFd]
    /\ \E l \in {"close", "destroy"} : Goto(w, l)
    /\ UNCHANGED <<env, main, job, harmed>>

\* What close() leaves in `fd`: only HttpsConnection resets it.
FdAfterClose(w) == IF job[w].kind = "https" THEN NoFd ELSE job[w].fd

\* ~ProxyConnection: client.close().
Close(w) ==
    /\ Alive /\ wpc[w] = "close"
    /\ Closing(job[w].fd)
    /\ job' = [job EXCEPT ![w] = [kind |-> job[w].kind, fd |-> FdAfterClose(w), conn |-> job[w].conn]]
    /\ Goto(w, "destroy")
    /\ UNCHANGED <<env, main, backend, harmed>>

\* Mutant of Destroy: the base class closes nothing.
DestroyOnly(w) ==
    /\ Alive /\ wpc[w] = "destroy"
    /\ job' = [job EXCEPT ![w] = NoJob]
    /\ Goto(w, "idle")
    /\ UNCHANGED <<env, main, backend, fdt, harmed>>

Stranger(w) == Peer(w) \notin {job[w].conn, Free}

\* ~Connection: closes fd unless it is -1.  The task ends.
Destroy(w) ==
    /\ Alive /\ wpc[w] = "destroy"
    /\ IF job[w].fd = NoFd THEN UNCHANGED <<fdt, harmed>>
       ELSE Closing(job[w].fd) /\ harmed' = (harmed \/ Stranger(w))
    /\ job' = [job EXCEPT ![w] = NoJob]
    /\ Goto(w, "idle")
    /\ UNCHANGED <<env, main, backend>>

\* Writing TLS records (the redirect, the handshake, the answer, close_notify) to
\* a client that has reset the connection raises SIGPIPE, which ends the process.
Sigpipe(w) ==
    /\ Alive /\ job[w].kind = "https" /\ job[w].fd # NoFd
    /\ wpc[w] \in {"tls", "relay", "close", "destroy"}
    /\ Peer(w) \in Gone
    /\ mpc' = "killed"
    /\ UNCHANGED <<env, isRunning, events, tasks, work, fdt, harmed>>
----------------------------------------------------------------------------
MainStep ==
    \/ EnterWait \/ WaitReturns \/ EventsHandled \/ TestRunning \/ Return
    \/ \E k \in Kinds : Accept(k)

\* What a worker does that waits for nobody once it can be done.
Progress(w) == Begin(w) \/ Handshake(w) \/ Read(w) \/ Serve(w) \/ Destroy(w)

\* What may wait for ever for a backend or for the client: relaying, and writing
\* what is left of the answer before the connection is closed.
AnswerStep(w) == Relay(w) \/ Close(w)

WorkerStep(w) == Progress(w) \/ AnswerStep(w)

ClientStep(c) == Ask(c) \/ HangUp(c) \/ SeeEnd(c)

Next ==
    \/ \E c \in Conns : Connect(c) \/ ClientStep(c) \/ Vanish(c)
    \/ Sigterm \/ MainStep
    \/ \E w \in Workers : WorkerStep(w) \/ Sigpipe(w)

Spec == Init /\ [][Next]_vars

\* The server's threads are scheduled.  Answering need not end: the code blocks
\* without limit while a backend does not read, a client does not send the rest of
\* its body, or does not read the answer.  Nor does the code limit how long a
\* client may keep silent: that each asks or hangs up in the end is an assumption.
\* Nobody has to connect.
FairSpec ==
    /\ Spec
    /\ WF_vars(MainStep)
    /\ \A w \in Workers : WF_vars(Progress(w))
    /\ \A c \in Conns : WF_vars(Ask(c) \/ HangUp(c))
----------------------------------------------------------------------------
TypeOK ==
    /\ client \in [Conns -> {"away", "silent", "asked", "left", "gone"}] /\ backlog \subseteq Conns
    /\ fdt \in [Fds -> Conns \cup Workers \cup {Free, Stdin}]
    /\ isRunning \in BOOLEAN /\ harmed \in BOOLEAN /\ events \subseteq Kinds
    /\ mpc \in {"enter", "blocked", "handle", "test", "stopping", "returned", "killed"}
    /\ tasks \in Seq(Jobs) /\ Len(tasks) <= MaxTasks
    /\ wpc \in [Workers -> {"idle", "tls", "read", "serve", "relay", "close", "destroy"}]
    /\ job \in [Workers -> Jobs] /\ backend \in [Workers -> Fds \cup {NoFd}]
    /\ \A w \in Workers : backend[w] # NoFd <=> wpc[w] = "relay"

Queued == {tasks[i] : i \in 1..Len(tasks)}

\* What a worker reads, answers and closes is its own client, and what it has open
\* besides is its own, until one of two things has happened: a failed accept() was
\* handed on, or ~Connection closed again a number that was given out meanwhile.
\* (In "destroy" the object may hold a number it has closed already.)
OwnsWhatItUses ==
    ~harmed => \A w \in Workers :
        /\ wpc[w] \notin {"idle", "destroy"} => Peer(w) = job[w].conn
        /\ backend[w] # NoFd => fdt[backend[w]] = w

\* No descriptor leaks: each open one is some task's, or some worker's to close.
EveryFdHasACloser ==
    \A f \in Fds : fdt[f] \notin {Free, Stdin} =>
        \/ \E j \in Queued : j.fd = f
        \/ \E w \in Workers : f \in {job[w].fd, backend[w]}

\* When startListen() returns no client is left connected half served.
ReturnedMeansDone == mpc = "returned" => tasks = <<>> /\ \A c \in Conns : ~Open(c)

\* WebServer.h:88, the handler "takes the accepted socket fd": what is submitted
\* to the pool is a descriptor that accept() gave out.
HandlerGetsAccepted == \A j \in Queued : j.conn # None

\* Connection.h:55, "proper cleanup": the destructor of a connection does not
\* close the descriptor of somebody else.
ClosesNoStranger ==
    \A w \in Workers :
        wpc[w] = "destroy" /\ job[w].conn # None /\ job[w].fd # NoFd => ~Stranger(w)

Answering(w) == wpc[w] \in {"relay", "close"}

\* A connection that was accepted is closed, unless its worker answers it for ever,
\* or all workers answer for ever and none is left to serve it.
AcceptedIsClosed ==
    \A c \in Conns :
        Open(c) ~> (\/ ~Open(c) \/ ~Alive
                    \/ [](\E w \in Workers : Answering(w) /\ Peer(w) = c)
                    \/ [](\A w \in Workers : Answering(w)))

\* After the signal startListen() returns, unless some worker answers for ever or
\* the main thread sleeps in epoll_wait for good: a connection that wakes it once
\* is enough.
StopsIfAwake ==
    ~isRunning ~> (\/ mpc \in {"returned", "killed"}
                   \/ [](mpc = "blocked")
                   \/ [](\E w \in Workers : Answering(w)))
=============================================================================
