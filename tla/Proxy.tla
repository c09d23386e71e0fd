------------------------------- MODULE Proxy --------------------------------
(***************************************************************************)
(* ProxyConnection::forwardRequest: one worker connects to the backend,    *)
(* sends it the header and then the whole body of the request, and only    *)
(* then relays the answer to the client.  Client, worker and backend run   *)
(* concurrently and are joined by four byte streams, whose room is bounded *)
(* by socket buffers; send() on a full one and recv() on an empty one      *)
(* block.  Only recv() from the backend has a time limit.                  *)
(*                                                                         *)
(* A unit of a stream stands for some bytes: Header for the rewritten      *)
(* header, 1, 2, .. for the parts of a body or of an answer in their       *)
(* order, BadGateway and GatewayTimeout for the pages of the proxy itself. *)
(***************************************************************************)
EXTENDS Integers, Sequences

CONSTANTS MaxBody, MaxAnswer,   \* bounds: units of a body, of an answer
          MaxChunk,             \* what one read takes at most
          Room                  \* what a stream holds at most

ASSUME ProxyAssumption ==
    /\ MaxBody \in Nat /\ MaxAnswer \in Nat
    /\ MaxChunk \in Nat \ {0} /\ Room \in Nat \ {0}

Header == 0
BadGateway == -1
GatewayTimeout == -2

VARIABLES
    length, first,  \* of the body, and how much of it came with the first read
                    \* of the connection (more, if pipelined)
    chunked,        \* the body is announced by Transfer-Encoding alone
    patient,        \* the client waits for an answer before it sends the rest
    client,         \* "here" or "gone"
    uploaded, got,  \* what the client has sent of its body, and received
    upload, download,
    ppc, chunk,     \* the worker, and what the send() it is in has yet to send
    remaining, sent,
    failed,         \* history: there was no clean end of an answer
    early, answer,  \* the backend answers before it reads the body; with how much
    backend,        \* its socket: "none", "open", "stalled", "closed", "reset"
    seen, written,  \* what the backend has read, and how much it has written
    toBackend, fromBackend

request == <<length, first, chunked, patient, early, answer>>
user    == <<client, uploaded, got>>
worker  == <<ppc, chunk, remaining, sent, failed>>
origin  == <<backend, seen, written>>
streams == <<upload, download, toBackend, fromBackend>>
vars    == <<request, user, worker, origin, streams>>

Smaller(a, b) == IF a < b THEN a ELSE b
UpTo(n)       == [i \in 1..n |-> i]
Prefixes(s)   == {SubSeq(s, 1, n) : n \in 0..Len(s)}

Init ==
    /\ length \in 0..MaxBody /\ first \in 0..(length + 1)
    /\ chunked \in BOOLEAN /\ patient \in BOOLEAN /\ early \in BOOLEAN /\ answer \in 0..MaxAnswer
    /\ client = "here" /\ uploaded = Smaller(first, length) /\ got = <<>>
    /\ ppc = "connect" /\ chunk = <<>> /\ remaining = 0 /\ sent = 0 /\ failed = FALSE
    /\ backend = "none" /\ seen = <<>> /\ written = 0
    /\ upload = <<>> /\ download = <<>> /\ toBackend = <<>> /\ fromBackend = <<>>
----------------------------------------------------------------------------
\* The client.  What it sends to a socket that is closed comes back as a reset,
\* and with it goes what it has not yet read.
ClientSends ==
    /\ client = "here" /\ uploaded < length /\ (patient => got # <<>>)
    /\ uploaded' = uploaded + 1
    /\ IF ppc = "done"
       THEN download' \in Prefixes(download) /\ UNCHANGED upload
       ELSE /\ Len(upload) < Room
            /\ upload' = Append(upload, uploaded + 1)
            /\ UNCHANGED download
    /\ UNCHANGED <<request, client, got, worker, origin, toBackend, fromBackend>>

ClientReads ==
    /\ client = "here" /\ download # <<>>
    /\ got' = Append(got, Head(download))
    /\ download' = Tail(download)
    /\ UNCHANGED <<request, client, uploaded, worker, origin, upload, toBackend, fromBackend>>

ClientHangsUp ==
    /\ client = "here" /\ ppc # "done"
    /\ client' = "gone"
    /\ UNCHANGED <<request, uploaded, got, worker, origin, streams>>
----------------------------------------------------------------------------
\* The backend: one that answers early writes all of its answer before it reads
\* on, the others read all of the request first.
WantsToWrite ==
    /\ seen # <<>> /\ written < answer
    /\ early \/ Len(seen) > length

BackendReads ==
    /\ backend = "open" /\ ~WantsToWrite /\ toBackend # <<>>
    /\ seen' = Append(seen, Head(toBackend))
    /\ toBackend' = Tail(toBackend)
    /\ UNCHANGED <<request, user, worker, backend, written, upload, download, fromBackend>>

BackendWrites ==
    /\ backend = "open" /\ WantsToWrite /\ Len(fromBackend) < Room
    /\ written' = written + 1
    /\ fromBackend' = Append(fromBackend, written + 1)
    /\ UNCHANGED <<request, user, worker, backend, seen, upload, download, toBackend>>

\* close() with nothing unread ends the stream; with something unread, or in a
\* crash, it resets it, and what had not arrived is lost.
BackendCloses ==
    /\ backend = "open" /\ toBackend = <<>>
    /\ backend' = "closed"
    /\ UNCHANGED <<request, user, worker, seen, written, streams>>

BackendResets ==
    /\ backend \in {"open", "stalled"}
    /\ backend' = "reset"
    /\ fromBackend' \in Prefixes(fromBackend)
    /\ UNCHANGED <<request, user, worker, seen, written, upload, download, toBackend>>

BackendStalls ==
    /\ backend = "open"
    /\ backend' = "stalled"
    /\ UNCHANGED <<request, user, worker, seen, written, streams>>
----------------------------------------------------------------------------
\* connectSocket(); a request whose header has no end in the first read is
\* dropped without an answer, after connecting.
Connect ==
    /\ ppc = "connect"
    /\ \/ backend' = "open" /\ ppc' = "header" /\ chunk' = <<Header>> /\ UNCHANGED failed
       \/ UNCHANGED backend /\ ppc' = "page" /\ chunk' = <<BadGateway>> /\ failed' = TRUE
       \/ UNCHANGED backend /\ ppc' = "end" /\ chunk' = <<>> /\ failed' = TRUE
    /\ UNCHANGED <<request, user, remaining, sent, seen, written, streams>>

\* send() to the backend blocks while there is no room; an error is ignored.
SendToBackend ==
    /\ ppc \in {"header", "body"} /\ chunk # <<>>
    /\ \/ /\ backend \in {"open", "stalled"} /\ Len(toBackend) < Room
          /\ toBackend' = Append(toBackend, Head(chunk))
          /\ chunk' = Tail(chunk)
       \/ /\ backend \in {"closed", "reset"}
          /\ chunk' = <<>>
          /\ UNCHANGED toBackend
    /\ UNCHANGED <<request, user, ppc, remaining, sent, failed, origin, upload, download, fromBackend>>

Forgotten    == <<>>                \* mutant of FirstPart: what came early is dropped
Unguarded    == length - first      \* mutant of StillToRead: no comparison before

FirstPart    == UpTo(first)
StillToRead  == IF first < length THEN length - first ELSE 0

\* getContentLength(): -1 where no header says so.
ContentLength == IF chunked THEN -1 ELSE length

\* if (contentLength > 0): the part of the body that came with the header.  A
\* chunked body stays where it is, although the header announces it.
StartBody ==
    /\ ppc = "header" /\ chunk = <<>>
    /\ IF ContentLength > 0
       THEN ppc' = "body" /\ chunk' = FirstPart /\ remaining' = StillToRead
       ELSE ppc' = "recv" /\ UNCHANGED <<chunk, remaining>>
    /\ UNCHANGED <<request, user, sent, failed, origin, streams>>

\* Mutant of BodyEnds: an end of the stream is no reason to stop.
BodyRead == remaining = 0

BodyEndsEarly == remaining <= 1             \* mutant of BodyEnds

BodyEnds == remaining = 0 \/ (upload = <<>> /\ client = "gone")

\* while (remaining > 0): read from the client, send to the backend.
ReadBody ==
    /\ ppc = "body" /\ chunk = <<>>
    /\ \/ BodyEnds /\ ppc' = "recv" /\ UNCHANGED <<chunk, remaining, upload>>
       \/ /\ remaining > 0
          /\ \E n \in 1..Smaller(MaxChunk, Smaller(remaining, Len(upload))) :
                /\ chunk' = SubSeq(upload, 1, n)
                /\ upload' = SubSeq(upload, n + 1, Len(upload))
                /\ remaining' = remaining - n
          /\ UNCHANGED ppc
    /\ UNCHANGED <<request, user, sent, failed, origin, download, toBackend, fromBackend>>
----------------------------------------------------------------------------
\* Mutant of GiveUp: the page is sent in any case.
GiveUpAloud(page) == ppc' = "page" /\ chunk' = <<page>> /\ failed' = TRUE

\* recv() has returned -1: a page, if nothing has been relayed.
GiveUp(page) ==
    /\ failed' = TRUE
    /\ IF sent = 0 THEN ppc' = "page" /\ chunk' = <<page>>
                   ELSE ppc' = "end" /\ UNCHANGED chunk

\* recv() from the backend, at most 30 seconds.  What arrived before a reset is
\* still read.
Recv ==
    /\ ppc = "recv"
    /\ \/ /\ \E n \in 1..Smaller(MaxChunk, Len(fromBackend)) :
                /\ chunk' = SubSeq(fromBackend, 1, n)
                /\ fromBackend' = SubSeq(fromBackend, n + 1, Len(fromBackend))
                /\ sent' = sent + n
          /\ ppc' = "answer" /\ UNCHANGED failed
       \/ /\ fromBackend = <<>>
          /\ \/ backend = "closed" /\ ppc' = "end" /\ UNCHANGED <<chunk, failed>>
             \/ backend = "reset" /\ GiveUp(BadGateway)
             \/ backend \in {"open", "stalled"} /\ GiveUp(GatewayTimeout)
          /\ UNCHANGED <<fromBackend, sent>>
    /\ UNCHANGED <<request, user, remaining, origin, upload, download, toBackend>>

\* client.write() blocks while there is no room; its result is ignored.
WriteToClient ==
    /\ ppc \in {"answer", "page"} /\ chunk # <<>>
    /\ \/ /\ client = "here" /\ Len(download) < Room
          /\ download' = Append(download, Head(chunk))
          /\ chunk' = Tail(chunk)
       \/ /\ client = "gone"
          /\ chunk' = <<>>
          /\ UNCHANGED download
    /\ UNCHANGED <<request, user, ppc, remaining, sent, failed, origin, upload, toBackend, fromBackend>>

\* Mutant of AfterWrite: one recv() and no loop.
NoLoop == "end"

AfterWrite == IF ppc = "answer" THEN "recv" ELSE "end"

Written ==
    /\ ppc \in {"answer", "page"} /\ chunk = <<>>
    /\ ppc' = AfterWrite
    /\ UNCHANGED <<request, user, chunk, remaining, sent, failed, origin, streams>>

\* Both sockets are closed, the client's by ~ProxyConnection.  A client whose
\* bytes were not all read gets a reset, and loses what it has not yet read.
End ==
    /\ ppc = "end"
    /\ ppc' = "done"
    /\ IF upload = <<>> THEN UNCHANGED download ELSE download' \in Prefixes(download)
    /\ UNCHANGED <<request, user, chunk, remaining, sent, failed, origin, upload, toBackend, fromBackend>>
----------------------------------------------------------------------------
WorkerStep ==
    \/ Connect \/ SendToBackend \/ StartBody \/ ReadBody
    \/ Recv \/ WriteToClient \/ Written \/ End

Next ==
    \/ ClientSends \/ ClientReads \/ ClientHangsUp
    \/ BackendReads \/ BackendWrites \/ BackendCloses \/ BackendResets \/ BackendStalls
    \/ WorkerStep

Spec == Init /\ [][Next]_vars

\* The worker is scheduled and its recv() times out.  A client that is there
\* sends what it announced and reads what it gets; a backend does its part unless
\* it stalls.  The code sets neither of them a limit, except in recv().
FairSpec ==
    /\ Spec
    /\ WF_vars(WorkerStep)
    /\ WF_vars(ClientSends) /\ WF_vars(ClientReads)
    /\ WF_vars(BackendReads) /\ WF_vars(BackendWrites)
----------------------------------------------------------------------------
TypeOK ==
    /\ client \in {"here", "gone"} /\ uploaded \in 0..length
    /\ ppc \in {"connect", "header", "body", "recv", "answer", "page", "end", "done"}
    /\ backend \in {"none", "open", "stalled", "closed", "reset"}
    /\ remaining \in 0..length /\ sent \in 0..written /\ written \in 0..answer
    /\ \A s \in {upload, download, toBackend, fromBackend} : Len(s) <= Room
    /\ Len(chunk) <= length + 1 \/ Len(chunk) <= MaxChunk

\* s is the beginning of 1, 2, 3, ..
InOrder(s) == \A i \in 1..Len(s) : s[i] = i

\* However the body is cut into reads and whoever fails, what reaches the backend
\* is the header and then the body, in order and without a gap.
RequestInOrder ==
    LET arrived == seen \o toBackend
    IN  arrived # <<>> => Head(arrived) = Header /\ InOrder(Tail(arrived))

\* What reaches the client is the beginning of the backend's answer, or one page
\* of the proxy alone: a failure never puts a page behind part of an answer.
AnswerOrPage ==
    LET relayed == got \o download
    IN  \/ relayed \in {<<BadGateway>>, <<GatewayTimeout>>}
        \/ InOrder(relayed) /\ Len(relayed) <= written

\* When the worker has seen the end of the answer, the client has all of it; but
\* the reset that a chunked body causes, unread as it is, may cost the end of it.
CleanEndIsComplete ==
    (ppc = "done" /\ ~failed /\ client = "here" /\ ~chunked) => got \o download = UpTo(written)

\* The worker waits in send() for a backend that does not read: it has stalled, or
\* it is itself waiting for the worker to read its answer.
StuckOnBackend ==
    /\ ppc \in {"header", "body"} /\ chunk # <<>> /\ Len(toBackend) = Room
    /\ backend = "stalled" \/ (backend = "open" /\ WantsToWrite /\ Len(fromBackend) = Room)

\* The worker waits for the body of a client that waits for an answer.
StuckOnClient ==
    /\ ppc = "body" /\ chunk = <<>> /\ remaining > 0 /\ upload = <<>>
    /\ client = "here" /\ patient /\ got = <<>>

Stuck == StuckOnBackend \/ StuckOnClient

\* All of a request whose length is announced is handed to a backend that keeps
\* its connection, unless the client leaves or the worker is in one of the two
\* deadlocks.
RequestHandedOver ==
    \/ chunked \/ <>[]Stuck
    \/ <>(\/ Len(seen \o toBackend) = length + 1 \/ client = "gone"
          \/ backend \in {"stalled", "closed", "reset"} \/ (backend = "none" /\ ppc = "done"))

\* A worker comes to the end of its request, whatever is lost on the way, except
\* for two deadlocks: there is no third.
RelayEnds == <>(ppc = "done") \/ <>[]Stuck
=============================================================================
