----------------------------- MODULE ProxyProofs -----------------------------
(***************************************************************************)
(* The safety properties of Proxy, for bodies and answers of any length,   *)
(* reads of any size and streams of any room.                              *)
(***************************************************************************)
EXTENDS Proxy, ProofLemmas

USE ProxyAssumption DEF Header, BadGateway, GatewayTimeout, Smaller,
    request, user, worker, origin, streams

\* The types that TypeOK takes for granted, and where sent \in 0..written comes from:
\* what is sent to the client has been written by the backend, and what is on its
\* way has not been sent.
Typed ==
    /\ length \in 0..MaxBody /\ first \in 0..(length + 1) /\ answer \in 0..MaxAnswer
    /\ chunked \in BOOLEAN /\ patient \in BOOLEAN /\ early \in BOOLEAN
    /\ client \in {"here", "gone"} /\ uploaded \in 0..length
    /\ ppc \in {"connect", "header", "body", "recv", "answer", "page", "end", "done"}
    /\ backend \in {"none", "open", "stalled", "closed", "reset"}
    /\ upload \in Seq(Int) /\ download \in Seq(Int)
    /\ toBackend \in Seq(Int) /\ fromBackend \in Seq(Int)
    /\ chunk \in Seq(Int) /\ got \in Seq(Int) /\ seen \in Seq(Int)
    /\ Len(upload) <= Room /\ Len(download) <= Room
    /\ Len(toBackend) <= Room /\ Len(fromBackend) <= Room
    /\ Len(chunk) <= length + 1 \/ Len(chunk) <= MaxChunk
    /\ remaining \in 0..length /\ failed \in BOOLEAN
    /\ written \in 0..answer /\ sent \in Nat /\ sent + Len(fromBackend) <= written

Alive == backend \in {"open", "stalled"}

\* What is in front of what on the way to the backend: what it has read, the stream,
\* the chunk that is being sent, and, while the body is read, the client's stream.
RequestInv ==
    /\ CountsFrom(seen, -1) /\ CountsFrom(toBackend, Len(seen) - 1)
    /\ ppc = "connect" => seen = <<>> /\ toBackend = <<>>
    /\ ppc \in {"header", "body"} /\ Alive =>
           /\ CountsFrom(chunk, Len(seen) + Len(toBackend) - 1)
           /\ Len(seen) + Len(toBackend) + Len(chunk) =
                  IF ppc = "header" THEN 1
                  ELSE 1 + IF first < length THEN length - remaining ELSE first
    /\ ppc # "done" => CountsFrom(upload, uploaded - Len(upload))
    /\ ppc \in {"connect", "header"} => uploaded - Len(upload) = Smaller(first, length)
    /\ ppc = "body" =>
           uploaded - Len(upload) = length - remaining /\ (first >= length => remaining = 0)

Delivered == Len(got) + Len(download)

\* What the client has and has on its way is the beginning of the answer ...
Relayed == CountsFrom(got, 0) /\ CountsFrom(download, Len(got)) /\ Delivered <= sent

\* ... or a page of the proxy.
Pages == {<<BadGateway>>, <<GatewayTimeout>>}
OnePage ==
    \/ got = <<>> /\ download \in Pages
    \/ download = <<>> /\ got \in Pages

AnswerInv ==
    /\ CountsFrom(fromBackend, sent)
    /\ backend # "reset" => sent + Len(fromBackend) = written
    /\ ppc = "connect" => backend = "none"
    /\ ppc \in {"connect", "header", "body"} => sent = 0 /\ Delivered = 0 /\ ~failed
    /\ ppc = "recv" => chunk = <<>>
    /\ ppc \in {"recv", "answer"} =>
           /\ ~failed /\ Relayed /\ Len(chunk) <= sent /\ CountsFrom(chunk, sent - Len(chunk))
           /\ client = "here" => Delivered = sent - Len(chunk)
    /\ ppc = "page" =>
           /\ sent = 0 /\ failed
           /\ \/ chunk \in Pages /\ Delivered = 0
              \/ chunk = <<>> /\ (Delivered = 0 \/ OnePage)
    /\ ppc \in {"end", "done"} => Relayed \/ OnePage

\* The worker that has not failed has read the whole body and, at the end, relayed
\* the whole answer.
CleanInv ==
    /\ ppc \in {"recv", "answer", "end", "done"} /\ ~failed /\ ~chunked /\ client = "here" =>
           upload = <<>> /\ uploaded = length
    /\ ppc = "end" /\ ~failed => Relayed /\ backend = "closed" /\ fromBackend = <<>>
                                 /\ (client = "here" => Delivered = sent)
    /\ ppc = "done" /\ ~failed /\ ~chunked /\ client = "here" =>
           Relayed /\ Delivered = written /\ backend = "closed"
----------------------------------------------------------------------------
\* What the operations on streams do to types and lengths.
LEMMA Grown ==
    ASSUME NEW s \in Seq(Int), NEW e \in Int
    PROVE  Append(s, e) \in Seq(Int) /\ Len(Append(s, e)) = Len(s) + 1
BY AppendProperties

LEMMA Shrunk ==
    ASSUME NEW s \in Seq(Int), s # <<>>
    PROVE  Head(s) \in Int /\ Tail(s) \in Seq(Int) /\ Len(Tail(s)) = Len(s) - 1 /\ Len(s) > 0
BY HeadTailProperties, EmptySeq, LenProperties

LEMMA CutInTwo ==
    ASSUME NEW s \in Seq(Int), NEW n \in 0..Len(s)
    PROVE  /\ SubSeq(s, 1, n) \in Seq(Int) /\ Len(SubSeq(s, 1, n)) = n
           /\ SubSeq(s, n + 1, Len(s)) \in Seq(Int)
           /\ Len(SubSeq(s, n + 1, Len(s))) = Len(s) - n
<1>1. Len(s) \in Nat /\ n \in Nat /\ \A i \in 1..Len(s) : s[i] \in Int
  BY LenProperties, ElementOfSeq
<1> QED
  BY <1>1, SubSeqProperties

LEMMA NoUnits == <<>> \in Seq(Int) /\ Len(<<>>) = 0 /\ \A k : CountsFrom(<<>>, k)
BY EmptySeq DEF CountsFrom

LEMMA OneUnit ==
    ASSUME NEW e \in Int
    PROVE  /\ <<e>> \in Seq(Int) /\ Len(<<e>>) = 1 /\ <<e>>[1] = e /\ <<e>> # <<>>
           /\ Head(<<e>>) = e /\ Tail(<<e>>) = <<>> /\ Append(<<>>, e) = <<e>>
           /\ CountsFrom(<<e>>, e - 1)
<1>1. /\ <<e>> \in Seq(Int) /\ Len(<<e>>) = 1 /\ <<e>>[1] = e /\ <<e>> # <<>>
      /\ Head(<<e>>) = e /\ Tail(<<e>>) = <<>>
  OBVIOUS
<1>2. Append(<<>>, e) = <<e>>
  OBVIOUS
<1>3. CountsFrom(<<e>>, e - 1)
  BY <1>1 DEF CountsFrom
<1> QED
  BY <1>1, <1>2, <1>3

LEMMA Prefix ==
    ASSUME NEW s \in Seq(Int), NEW p \in Prefixes(s)
    PROVE  /\ p \in Seq(Int) /\ Len(p) \in 0..Len(s)
           /\ \A k \in Int : CountsFrom(s, k) => CountsFrom(p, k)
<1>1. PICK n \in 0..Len(s) : p = SubSeq(s, 1, n)
  BY DEF Prefixes
<1>2. p \in Seq(Int) /\ Len(p) = n
  BY <1>1, CutInTwo
<1>3. ASSUME NEW k \in Int, CountsFrom(s, k) PROVE CountsFrom(p, k)
  BY <1>1, <1>3, CountCut
<1> QED
  BY <1>2, <1>3

LEMMA FirstUnits ==
    ASSUME NEW n \in Nat
    PROVE  UpTo(n) \in Seq(Int) /\ Len(UpTo(n)) = n /\ CountsFrom(UpTo(n), 0)
BY DEF UpTo, CountsFrom
----------------------------------------------------------------------------
LEMMA TypedInit == Init => Typed
<1> SUFFICES ASSUME Init PROVE Typed
  OBVIOUS
<1>1. /\ upload \in Seq(Int) /\ download \in Seq(Int) /\ toBackend \in Seq(Int)
      /\ fromBackend \in Seq(Int) /\ chunk \in Seq(Int) /\ got \in Seq(Int) /\ seen \in Seq(Int)
      /\ Len(upload) = 0 /\ Len(download) = 0 /\ Len(toBackend) = 0 /\ Len(fromBackend) = 0
      /\ Len(chunk) = 0
  BY NoUnits DEF Init
<1>2. /\ length \in 0..MaxBody /\ first \in 0..(length + 1) /\ answer \in 0..MaxAnswer
      /\ uploaded \in 0..length
  BY DEF Init
<1>3. remaining \in 0..length /\ written \in 0..answer /\ sent + Len(fromBackend) <= written
  BY <1>1, <1>2 DEF Init
<1>4. Len(upload) <= Room /\ Len(chunk) <= length + 1
  BY <1>1, <1>2
<1>5. /\ chunked \in BOOLEAN /\ patient \in BOOLEAN /\ early \in BOOLEAN
      /\ client = "here" /\ ppc = "connect" /\ remaining = 0 /\ sent = 0 /\ failed = FALSE
      /\ backend = "none" /\ written = 0
  BY DEF Init
<1> QED
  BY <1>1, <1>2, <1>3, <1>4, <1>5 DEF Typed

LEMMA TypedStep ==
    ASSUME Typed, [Next]_vars
    PROVE  Typed'
<1>0. /\ upload \in Seq(Int) /\ download \in Seq(Int) /\ toBackend \in Seq(Int)
      /\ fromBackend \in Seq(Int) /\ chunk \in Seq(Int) /\ got \in Seq(Int) /\ seen \in Seq(Int)
      /\ uploaded \in Int /\ written \in Int
      /\ first \in Nat /\ remaining \in Nat /\ MaxChunk \in Nat
  BY DEF Typed
<1>a. /\ Len(upload) \in Nat /\ Len(download) \in Nat /\ Len(toBackend) \in Nat
      /\ Len(fromBackend) \in Nat /\ Len(chunk) \in Nat
  BY <1>0, LenProperties
<1>b. length \in Nat /\ (Len(chunk) <= length + 1 \/ Len(chunk) <= MaxChunk)
  BY DEF Typed
<1>1. CASE ClientSends
  <2>1. CASE ppc = "done"
    <3>1. download' \in Prefixes(download)
      BY <1>1, <2>1 DEF ClientSends
    <3>2. download' \in Seq(Int) /\ Len(download') \in 0..Len(download)
      BY <1>0, <3>1, Prefix
    <3> QED
      BY <1>1, <1>a, <2>1, <3>2 DEF ClientSends, Typed
  <2>2. CASE ppc # "done"
    <3>1. Append(upload, uploaded + 1) \in Seq(Int)
          /\ Len(Append(upload, uploaded + 1)) = Len(upload) + 1
      BY <1>0, Grown
    <3>2. upload' \in Seq(Int) /\ Len(upload') = Len(upload) + 1
      BY <1>1, <2>2, <3>1 DEF ClientSends
    <3>3. /\ uploaded' = uploaded + 1 /\ uploaded < length /\ Len(upload) < Room
          /\ UNCHANGED <<request, client, got, worker, origin, download, toBackend, fromBackend>>
      BY <1>1, <2>2 DEF ClientSends
    <3> QED
      BY <1>a, <3>2, <3>3 DEF Typed
  <2> QED
    BY <2>1, <2>2
<1>2. CASE ClientReads
  <2>1. Head(download) \in Int /\ Tail(download) \in Seq(Int)
        /\ Len(Tail(download)) = Len(download) - 1
    BY <1>0, <1>2, Shrunk DEF ClientReads
  <2>2. Append(got, Head(download)) \in Seq(Int)
    BY <1>0, <2>1, Grown
  <2>3. /\ got' \in Seq(Int) /\ download' \in Seq(Int) /\ Len(download') = Len(download) - 1
        /\ UNCHANGED <<request, client, uploaded, worker, origin, upload, toBackend, fromBackend>>
    BY <1>2, <2>1, <2>2 DEF ClientReads
  <2> QED
    BY <1>a, <2>3 DEF Typed
<1>3. CASE ClientHangsUp
  BY <1>3 DEF ClientHangsUp, Typed
<1>4. CASE BackendReads
  <2>1. Head(toBackend) \in Int /\ Tail(toBackend) \in Seq(Int)
        /\ Len(Tail(toBackend)) = Len(toBackend) - 1
    BY <1>0, <1>4, Shrunk DEF BackendReads
  <2>2. Append(seen, Head(toBackend)) \in Seq(Int)
    BY <1>0, <2>1, Grown
  <2>3. /\ seen' \in Seq(Int) /\ toBackend' \in Seq(Int) /\ Len(toBackend') = Len(toBackend) - 1
        /\ UNCHANGED <<request, user, worker, backend, written, upload, download, fromBackend>>
    BY <1>4, <2>1, <2>2 DEF BackendReads
  <2> QED
    BY <1>a, <2>3 DEF Typed
<1>5. CASE BackendWrites
  <2>1. Append(fromBackend, written + 1) \in Seq(Int)
        /\ Len(Append(fromBackend, written + 1)) = Len(fromBackend) + 1
    BY <1>0, Grown
  <2>2. /\ fromBackend' \in Seq(Int) /\ Len(fromBackend') = Len(fromBackend) + 1
        /\ written' = written + 1 /\ written < answer /\ Len(fromBackend) < Room
        /\ UNCHANGED <<request, user, worker, backend, seen, upload, download, toBackend>>
    BY <1>5, <2>1 DEF BackendWrites, WantsToWrite
  <2> QED
    BY <1>a, <2>2 DEF Typed
<1>6. CASE BackendCloses
  BY <1>6 DEF BackendCloses, Typed
<1>7. CASE BackendResets
  <2>1. fromBackend' \in Seq(Int) /\ Len(fromBackend') \in 0..Len(fromBackend)
    BY <1>0, <1>7, Prefix DEF BackendResets
  <2> QED
    BY <1>7, <1>a, <2>1 DEF BackendResets, Typed
<1>8. CASE BackendStalls
  BY <1>8 DEF BackendStalls, Typed
<1>9. CASE Connect
  <2>1. /\ chunk' \in {<<>>, <<Header>>, <<BadGateway>>}
        /\ ppc' \in {"header", "page", "end"} /\ failed' \in BOOLEAN
        /\ backend' \in {"open", backend}
        /\ UNCHANGED <<request, user, remaining, sent, seen, written, streams>>
    BY <1>9 DEF Connect, Typed
  <2>2. chunk' \in Seq(Int) /\ Len(chunk') \in 0..1
    <3>1. CASE chunk' = <<>>
      BY <3>1, NoUnits
    <3>2. CASE chunk' = <<Header>>
      BY <3>2, OneUnit
    <3>3. CASE chunk' = <<BadGateway>>
      BY <3>3, OneUnit
    <3> QED
      BY <2>1, <3>1, <3>2, <3>3
  <2>3. Len(chunk') <= length' + 1
    <3>1. length' = length /\ length \in Nat
      BY <1>b, <2>1
    <3>2. Len(chunk') = 0 \/ Len(chunk') = 1
      BY <2>2
    <3> QED
      BY <3>1, <3>2
  <2> QED
    BY <2>1, <2>2, <2>3 DEF Typed
<1>10. CASE SendToBackend
  <2>1. CASE backend \in {"open", "stalled"}
    <3>1. /\ Head(chunk) \in Int /\ Tail(chunk) \in Seq(Int)
          /\ Len(Tail(chunk)) = Len(chunk) - 1
      BY <1>0, <1>10, Shrunk DEF SendToBackend
    <3>2. Append(toBackend, Head(chunk)) \in Seq(Int)
          /\ Len(Append(toBackend, Head(chunk))) = Len(toBackend) + 1
      BY <1>0, <3>1, Grown
    <3>3. /\ toBackend' \in Seq(Int) /\ Len(toBackend') = Len(toBackend) + 1
          /\ chunk' \in Seq(Int) /\ Len(chunk') = Len(chunk) - 1 /\ Len(toBackend) < Room
          /\ UNCHANGED <<request, user, ppc, remaining, sent, failed, origin, upload, download,
                         fromBackend>>
      BY <1>10, <2>1, <3>1, <3>2 DEF SendToBackend
    <3>5. Len(chunk') <= length' + 1 \/ Len(chunk') <= MaxChunk
      BY <1>a, <1>b, <3>3
    <3> QED
      BY <1>a, <3>3, <3>5 DEF Typed
  <2>2. CASE backend \notin {"open", "stalled"}
    <3>1. /\ chunk' \in Seq(Int) /\ Len(chunk') = 0
          /\ UNCHANGED <<request, user, ppc, remaining, sent, failed, origin, streams>>
      BY <1>10, <2>2, NoUnits DEF SendToBackend
    <3> QED
      BY <3>1 DEF Typed
  <2> QED
    BY <2>1, <2>2
<1>11. CASE StartBody
  <2>1. UpTo(first) \in Seq(Int) /\ Len(UpTo(first)) = first
    BY <1>0, FirstUnits
  <2>2. CASE ContentLength > 0
    <3>1. /\ chunk' \in Seq(Int) /\ Len(chunk') = first /\ ppc' = "body"
          /\ remaining' = StillToRead
          /\ UNCHANGED <<request, user, sent, failed, origin, streams>>
      BY <1>11, <2>1, <2>2 DEF StartBody, FirstPart
    <3> QED
      BY <3>1 DEF Typed, StillToRead
  <2>3. CASE ~(ContentLength > 0)
    BY <1>11, <2>3 DEF StartBody, Typed
  <2> QED
    BY <2>2, <2>3
<1>12. CASE ReadBody
  <2>1. CASE BodyEnds /\ ppc' = "recv" /\ UNCHANGED <<chunk, remaining, upload>>
    BY <1>12, <2>1 DEF ReadBody, Typed
  <2>2. CASE \E n \in 1..Smaller(MaxChunk, Smaller(remaining, Len(upload))) :
                /\ chunk' = SubSeq(upload, 1, n)
                /\ upload' = SubSeq(upload, n + 1, Len(upload))
                /\ remaining' = remaining - n
    <3>1. PICK n \in 1..Smaller(MaxChunk, Smaller(remaining, Len(upload))) :
                /\ chunk' = SubSeq(upload, 1, n)
                /\ upload' = SubSeq(upload, n + 1, Len(upload))
                /\ remaining' = remaining - n
      BY <2>2
    <3>2. n \in 1..Len(upload) /\ n <= remaining /\ n <= MaxChunk /\ n \in Nat
      BY <1>0, <1>a
    <3>3. /\ chunk' \in Seq(Int) /\ Len(chunk') = n
          /\ upload' \in Seq(Int) /\ Len(upload') = Len(upload) - n
      BY <1>0, <3>1, <3>2, CutInTwo
    <3>4. /\ remaining' = remaining - n /\ ppc' \in {"body", "recv"}
          /\ UNCHANGED <<request, user, sent, failed, origin, download, toBackend, fromBackend>>
      BY <1>12, <3>1 DEF ReadBody, Typed
    <3>5. remaining' \in 0..length' /\ Len(upload') <= Room
      BY <1>a, <3>2, <3>3, <3>4 DEF Typed
    <3> QED
      BY <3>2, <3>3, <3>4, <3>5 DEF Typed
  <2> QED
    BY <1>12, <2>1, <2>2 DEF ReadBody
<1>13. CASE Recv
  <2>1. CASE \E n \in 1..Smaller(MaxChunk, Len(fromBackend)) :
                /\ chunk' = SubSeq(fromBackend, 1, n)
                /\ fromBackend' = SubSeq(fromBackend, n + 1, Len(fromBackend))
                /\ sent' = sent + n
    <3>1. PICK n \in 1..Smaller(MaxChunk, Len(fromBackend)) :
                /\ chunk' = SubSeq(fromBackend, 1, n)
                /\ fromBackend' = SubSeq(fromBackend, n + 1, Len(fromBackend))
                /\ sent' = sent + n
      BY <2>1
    <3>2. n \in 1..Len(fromBackend) /\ n <= MaxChunk /\ n \in Nat
      BY <1>0, <1>a
    <3>3. /\ chunk' \in Seq(Int) /\ Len(chunk') = n
          /\ fromBackend' \in Seq(Int) /\ Len(fromBackend') = Len(fromBackend) - n
      BY <1>0, <3>1, <3>2, CutInTwo
    <3>4. /\ sent' = sent + n /\ ppc' \in {"answer", "end", "page"} /\ failed' \in BOOLEAN
          /\ UNCHANGED <<request, user, remaining, origin, upload, download, toBackend>>
      BY <1>13, <3>1 DEF Recv, GiveUp, Typed
    <3>5. sent \in Nat /\ sent + Len(fromBackend) <= written /\ Len(fromBackend) <= Room
      BY DEF Typed
    <3>6. /\ sent' \in Nat /\ sent' + Len(fromBackend') <= written'
          /\ Len(fromBackend') <= Room
      BY <1>a, <3>2, <3>3, <3>4, <3>5
    <3> QED
      BY <3>2, <3>3, <3>4, <3>6 DEF Typed
  <2>2. CASE UNCHANGED <<fromBackend, sent>>
    <3>1. /\ chunk' = chunk \/ (chunk' \in Seq(Int) /\ Len(chunk') = 1)
          /\ ppc' \in {"answer", "end", "page"} /\ failed' \in BOOLEAN
          /\ UNCHANGED <<request, user, remaining, sent, origin, streams>>
      <4>1. CASE chunk' = chunk
        BY <1>13, <2>2, <4>1 DEF Recv, GiveUp, Typed
      <4>2. CASE chunk' # chunk
        <5>1. chunk' \in Pages /\ ppc' = "page" /\ failed' = TRUE
          BY <1>13, <2>2, <4>2 DEF Recv, GiveUp, Pages
        <5>2. chunk' \in Seq(Int) /\ Len(chunk') = 1
          <6>1. CASE chunk' = <<BadGateway>>
            BY <6>1, OneUnit
          <6>2. CASE chunk' = <<GatewayTimeout>>
            BY <6>2, OneUnit
          <6> QED
            BY <5>1, <6>1, <6>2 DEF Pages
        <5> QED
          BY <1>13, <2>2, <5>1, <5>2 DEF Recv
      <4> QED
        BY <4>1, <4>2
    <3>2. length' = length /\ (chunk' = chunk \/ Len(chunk') = 1)
      BY <3>1
    <3>3. CASE chunk' = chunk
      BY <1>b, <3>1, <3>3 DEF Typed
    <3>4. CASE Len(chunk') = 1
      <4>1. Len(chunk') <= length' + 1
        BY <1>b, <3>2, <3>4
      <4> QED
        BY <3>1, <4>1 DEF Typed
    <3> QED
      BY <3>2, <3>3, <3>4
  <2> QED
    BY <1>13, <2>1, <2>2 DEF Recv
<1>14. CASE WriteToClient
  <2>1. CASE client = "here"
    <3>1. /\ Head(chunk) \in Int /\ Tail(chunk) \in Seq(Int)
          /\ Len(Tail(chunk)) = Len(chunk) - 1
      BY <1>0, <1>14, Shrunk DEF WriteToClient
    <3>2. Append(download, Head(chunk)) \in Seq(Int)
          /\ Len(Append(download, Head(chunk))) = Len(download) + 1
      BY <1>0, <3>1, Grown
    <3>3. /\ download' \in Seq(Int) /\ Len(download') = Len(download) + 1
          /\ chunk' \in Seq(Int) /\ Len(chunk') = Len(chunk) - 1 /\ Len(download) < Room
          /\ UNCHANGED <<request, user, ppc, remaining, sent, failed, origin, upload, toBackend,
                         fromBackend>>
      BY <1>14, <2>1, <3>1, <3>2 DEF WriteToClient
    <3>5. Len(chunk') <= length' + 1 \/ Len(chunk') <= MaxChunk
      BY <1>a, <1>b, <3>3
    <3> QED
      BY <1>a, <3>3, <3>5 DEF Typed
  <2>2. CASE client # "here"
    <3>1. /\ chunk' \in Seq(Int) /\ Len(chunk') = 0
          /\ UNCHANGED <<request, user, ppc, remaining, sent, failed, origin, streams>>
      BY <1>14, <2>2, NoUnits DEF WriteToClient
    <3> QED
      BY <3>1 DEF Typed
  <2> QED
    BY <2>1, <2>2
<1>15. CASE Written
  BY <1>15 DEF Written, AfterWrite, Typed
<1>16. CASE End
  <2>1. download' \in Seq(Int) /\ Len(download') \in 0..Len(download)
    <3>1. CASE upload = <<>>
      BY <1>0, <1>a, <1>16, <3>1 DEF End
    <3>2. CASE upload # <<>>
      BY <1>0, <1>16, <3>2, Prefix DEF End
    <3> QED
      BY <3>1, <3>2
  <2> QED
    BY <1>16, <1>a, <2>1 DEF End, Typed
<1>17. CASE UNCHANGED vars
  BY <1>17 DEF vars, Typed
<1> QED
  BY <1>1, <1>2, <1>3, <1>4, <1>5, <1>6, <1>7, <1>8, <1>9, <1>10, <1>11, <1>12,
     <1>13, <1>14, <1>15, <1>16, <1>17 DEF Next, WorkerStep

LEMMA TypedAlways == Spec => []Typed
BY TypedInit, TypedStep, PTL DEF Spec

\* Whatever the bodies, the answers, the reads and the room of the streams are,
\* every variable of a forwarded request has its type, no stream holds more than its
\* room and no more is relayed than the backend has written.
THEOREM TypeCorrect == Spec => []TypeOK
<1>1. Typed => TypeOK
  BY LenProperties DEF Typed, TypeOK
<1> QED
  BY <1>1, TypedAlways, PTL
----------------------------------------------------------------------------
LEMMA RequestInit == Init => RequestInv
<1> SUFFICES ASSUME Init PROVE RequestInv
  OBVIOUS
<1>1. /\ upload = <<>> /\ toBackend = <<>> /\ seen = <<>> /\ ppc = "connect"
      /\ uploaded = Smaller(first, length)
  BY DEF Init
<1>2. /\ CountsFrom(upload, uploaded - Len(upload)) /\ CountsFrom(seen, -1)
      /\ CountsFrom(toBackend, Len(seen) - 1) /\ Len(upload) = 0
  BY <1>1, NoUnits
<1>3. uploaded - Len(upload) = Smaller(first, length)
  BY <1>1, <1>2, TypedInit DEF Typed
<1> QED
  BY <1>1, <1>2, <1>3 DEF RequestInv

LEMMA RequestStep ==
    ASSUME Typed, RequestInv, [Next]_vars
    PROVE  RequestInv'
<1>0. /\ upload \in Seq(Int) /\ toBackend \in Seq(Int) /\ chunk \in Seq(Int) /\ seen \in Seq(Int)
      /\ uploaded \in Nat /\ length \in Nat /\ first \in Nat /\ remaining \in Nat
      /\ uploaded <= length /\ remaining <= length
  BY DEF Typed
<1>a. /\ Len(upload) \in Nat /\ Len(toBackend) \in Nat /\ Len(chunk) \in Nat /\ Len(seen) \in Nat
      /\ Len(seen) - 1 \in Int /\ uploaded - Len(upload) \in Int
  BY <1>0, LenProperties
<1>1. CASE ClientSends
  <2>1. CASE ppc = "done"
    BY <1>1, <2>1 DEF ClientSends, RequestInv, Alive
  <2>2. CASE ppc # "done"
    <3>1. Append(upload, uploaded + 1) \in Seq(Int)
          /\ Len(Append(upload, uploaded + 1)) = Len(upload) + 1
          /\ CountsFrom(Append(upload, uploaded + 1), uploaded - Len(upload))
      <4>1. uploaded + 1 = (uploaded - Len(upload)) + Len(upload) + 1
        BY <1>0, <1>a
      <4>2. CountsFrom(upload, uploaded - Len(upload))
        BY <2>2 DEF RequestInv
      <4> QED
        BY <1>0, <1>a, <4>1, <4>2, CountAppend
    <3>2. /\ upload' = Append(upload, uploaded + 1) /\ uploaded' = uploaded + 1
          /\ UNCHANGED <<request, client, got, worker, origin, toBackend, fromBackend>>
      BY <1>1, <2>2 DEF ClientSends
    <3>3. uploaded' - Len(upload') = uploaded - Len(upload)
      BY <1>0, <1>a, <3>1, <3>2
    <3>4. CountsFrom(upload', uploaded' - Len(upload'))
      BY <3>1, <3>2, <3>3
    <3> QED
      BY <3>2, <3>3, <3>4 DEF RequestInv, Alive
  <2> QED
    BY <2>1, <2>2
<1>2. CASE ClientReads
  BY <1>2 DEF ClientReads, RequestInv, Alive
<1>3. CASE ClientHangsUp
  BY <1>3 DEF ClientHangsUp, RequestInv, Alive
<1>4. CASE BackendReads
  <2>1. CountsFrom(seen, -1) /\ CountsFrom(toBackend, Len(seen) - 1) /\ ppc # "connect"
    BY <1>4 DEF RequestInv, BackendReads
  <2>2. CountsFrom(toBackend, -1 + Len(seen))
    BY <1>a, <2>1
  <2>3. /\ Len(Append(seen, Head(toBackend))) = Len(seen) + 1
        /\ CountsFrom(Append(seen, Head(toBackend)), -1)
        /\ Len(Tail(toBackend)) = Len(toBackend) - 1
        /\ CountsFrom(Tail(toBackend), -1 + Len(seen) + 1)
    BY <1>0, <1>4, <2>1, <2>2, CountMove DEF BackendReads
  <2>4. /\ Len(seen') = Len(seen) + 1 /\ Len(toBackend') = Len(toBackend) - 1
        /\ CountsFrom(seen', -1) /\ CountsFrom(toBackend', -1 + Len(seen) + 1)
        /\ UNCHANGED <<request, user, worker, backend, written, upload, download, fromBackend>>
    BY <1>4, <2>3 DEF BackendReads
  <2>5. /\ -1 + Len(seen) + 1 = Len(seen') - 1
        /\ Len(seen') + Len(toBackend') = Len(seen) + Len(toBackend)
    BY <1>a, <2>4
  <2> QED
    BY <2>1, <2>4, <2>5 DEF RequestInv, Alive
<1>5. CASE BackendWrites
  BY <1>5 DEF BackendWrites, RequestInv, Alive
<1>6. CASE BackendCloses
  BY <1>6 DEF BackendCloses, RequestInv, Alive
<1>7. CASE BackendResets
  BY <1>7 DEF BackendResets, RequestInv, Alive
<1>8. CASE BackendStalls
  BY <1>8 DEF BackendStalls, RequestInv, Alive
<1>9. CASE Connect
  <2>1. CASE ppc' = "header"
    <3>1. /\ ppc = "connect" /\ chunk' = <<Header>> /\ ppc' = "header"
          /\ UNCHANGED <<request, user, remaining, sent, seen, written, streams>>
      BY <1>9, <2>1 DEF Connect
    <3>2. seen = <<>> /\ toBackend = <<>> /\ Len(seen) = 0 /\ Len(toBackend) = 0
      BY <3>1, NoUnits DEF RequestInv
    <3>3. CountsFrom(<<Header>>, Header - 1) /\ Len(<<Header>>) = 1
      BY OneUnit
    <3>4. /\ CountsFrom(chunk', Len(seen') + Len(toBackend') - 1)
          /\ Len(seen') + Len(toBackend') + Len(chunk') = 1
      BY <3>1, <3>2, <3>3
    <3> QED
      BY <3>1, <3>4 DEF RequestInv
  <2>2. CASE ppc' # "header"
    BY <1>9, <2>2 DEF Connect, RequestInv
  <2> QED
    BY <2>1, <2>2
<1>10. CASE SendToBackend
  <2>1. CASE backend \in {"open", "stalled"}
    <3>1. /\ CountsFrom(toBackend, Len(seen) - 1) /\ ppc \in {"header", "body"} /\ Alive
          /\ CountsFrom(chunk, Len(seen) + Len(toBackend) - 1) /\ chunk # <<>>
      BY <1>10, <2>1 DEF RequestInv, SendToBackend, Alive
    <3>2. CountsFrom(chunk, (Len(seen) - 1) + Len(toBackend))
      <4>1. Len(seen) + Len(toBackend) - 1 = (Len(seen) - 1) + Len(toBackend)
        BY <1>a
      <4> QED
        BY <3>1, <4>1
    <3>3. /\ Len(Append(toBackend, Head(chunk))) = Len(toBackend) + 1
          /\ CountsFrom(Append(toBackend, Head(chunk)), Len(seen) - 1)
          /\ Len(Tail(chunk)) = Len(chunk) - 1
          /\ CountsFrom(Tail(chunk), (Len(seen) - 1) + Len(toBackend) + 1)
      BY <1>0, <1>a, <3>1, <3>2, CountMove
    <3>4. /\ toBackend' = Append(toBackend, Head(chunk)) /\ chunk' = Tail(chunk)
          /\ UNCHANGED <<request, user, ppc, remaining, sent, failed, origin, upload, download,
                         fromBackend>>
      BY <1>10, <2>1 DEF SendToBackend
    <3>5. /\ (Len(seen) - 1) + Len(toBackend) + 1 = Len(seen') + Len(toBackend') - 1
          /\ Len(seen') + Len(toBackend') + Len(chunk') = Len(seen) + Len(toBackend) + Len(chunk)
      <4>1. /\ Len(toBackend') = Len(toBackend) + 1 /\ Len(chunk') = Len(chunk) - 1
            /\ Len(seen') = Len(seen)
        BY <3>3, <3>4
      <4> QED
        BY <1>a, <4>1
    <3>6. /\ CountsFrom(toBackend', Len(seen') - 1)
          /\ CountsFrom(chunk', Len(seen') + Len(toBackend') - 1)
      BY <3>3, <3>4, <3>5
    <3> QED
      BY <3>1, <3>4, <3>5, <3>6 DEF RequestInv, Alive
  <2>2. CASE backend \notin {"open", "stalled"}
    BY <1>10, <2>2 DEF SendToBackend, RequestInv, Alive
  <2> QED
    BY <2>1, <2>2
<1>11. CASE StartBody
  <2>1. CASE ContentLength > 0
    <3>1. /\ CountsFrom(UpTo(first), 0) /\ Len(UpTo(first)) = first
      BY <1>0, FirstUnits
    <3>2. /\ ppc = "header" /\ ppc' = "body" /\ chunk' = UpTo(first) /\ remaining' = StillToRead
          /\ chunk = <<>> /\ UNCHANGED <<request, user, sent, failed, origin, streams>>
      BY <1>11, <2>1 DEF StartBody, FirstPart
    <3>3. uploaded - Len(upload) = Smaller(first, length)
      BY <3>2 DEF RequestInv
    <3>4. /\ uploaded' - Len(upload') = length' - remaining'
          /\ first' >= length' => remaining' = 0
          /\ first' < length' => length' - remaining' = first'
      BY <1>0, <3>2, <3>3 DEF StillToRead
    <3>5. ASSUME Alive'
          PROVE  /\ CountsFrom(chunk', Len(seen') + Len(toBackend') - 1)
                 /\ Len(seen') + Len(toBackend') + Len(chunk') = 1 + first'
      <4>1. Alive /\ Len(seen) + Len(toBackend) + Len(chunk) = 1 /\ Len(chunk) = 0
        BY <3>2, <3>5, NoUnits DEF RequestInv, Alive
      <4>2. Len(seen') + Len(toBackend') - 1 = 0 /\ Len(seen') + Len(toBackend') = 1
        BY <1>a, <3>2, <4>1
      <4> QED
        BY <1>0, <3>1, <3>2, <4>2
    <3>6. (CountsFrom(upload, uploaded - Len(upload)))'
      BY <3>2 DEF RequestInv
    <3> QED
      BY <3>2, <3>4, <3>5, <3>6 DEF RequestInv
  <2>2. CASE ~(ContentLength > 0)
    BY <1>11, <2>2 DEF StartBody, RequestInv, Alive
  <2> QED
    BY <2>1, <2>2
<1>12. CASE ReadBody
  <2>1. CASE BodyEnds /\ ppc' = "recv" /\ UNCHANGED <<chunk, remaining, upload>>
    BY <1>12, <2>1 DEF ReadBody, RequestInv, Alive
  <2>2. CASE /\ remaining > 0 /\ UNCHANGED ppc
             /\ \E n \in 1..Smaller(MaxChunk, Smaller(remaining, Len(upload))) :
                   /\ chunk' = SubSeq(upload, 1, n)
                   /\ upload' = SubSeq(upload, n + 1, Len(upload))
                   /\ remaining' = remaining - n
    <3>1. PICK n \in 1..Smaller(MaxChunk, Smaller(remaining, Len(upload))) :
                /\ chunk' = SubSeq(upload, 1, n)
                /\ upload' = SubSeq(upload, n + 1, Len(upload))
                /\ remaining' = remaining - n
      BY <2>2
    <3>2. n \in 0..Len(upload) /\ n <= remaining /\ n \in Nat
      BY <1>0, <1>a, ProxyAssumption
    <3>3. /\ ppc = "body" /\ ppc' = "body" /\ chunk = <<>>
          /\ UNCHANGED <<request, user, sent, failed, origin, download, toBackend, fromBackend>>
      BY <1>12, <2>2 DEF ReadBody
    <3>4. /\ CountsFrom(upload, uploaded - Len(upload))
          /\ uploaded - Len(upload) = length - remaining /\ first < length
      BY <1>0, <2>2, <3>3 DEF RequestInv
    <3>5. /\ Len(SubSeq(upload, 1, n)) = n
          /\ CountsFrom(SubSeq(upload, 1, n), uploaded - Len(upload))
          /\ Len(SubSeq(upload, n + 1, Len(upload))) = Len(upload) - n
          /\ CountsFrom(SubSeq(upload, n + 1, Len(upload)), (uploaded - Len(upload)) + n)
      BY <1>0, <1>a, <3>2, <3>4, CountCut
    <3>6. /\ uploaded' - Len(upload') = (uploaded - Len(upload)) + n
          /\ uploaded' - Len(upload') = length' - remaining'
      <4>1. /\ Len(upload') = Len(upload) - n /\ uploaded' = uploaded /\ length' = length
            /\ remaining' = remaining - n
        BY <3>1, <3>3, <3>5
      <4>2. /\ Len(upload) \in Int /\ uploaded \in Int /\ length \in Int /\ remaining \in Int
            /\ n \in Int /\ uploaded - Len(upload) = length - remaining
        BY <1>0, <1>a, <3>2, <3>4
      <4> QED
        BY <4>1, <4>2
    <3>7. CountsFrom(upload', uploaded' - Len(upload'))
      BY <3>1, <3>5, <3>6
    <3>8. ASSUME Alive'
          PROVE  /\ CountsFrom(chunk', Len(seen') + Len(toBackend') - 1)
                 /\ Len(seen') + Len(toBackend') + Len(chunk') = 1 + (length' - remaining')
      <4>1. Len(seen) + Len(toBackend) + Len(chunk) = 1 + (length - remaining) /\ Len(chunk) = 0
        BY <3>3, <3>4, <3>8, NoUnits DEF RequestInv, Alive
      <4>2. Len(seen') + Len(toBackend') - 1 = uploaded - Len(upload)
        BY <1>0, <1>a, <3>3, <3>4, <4>1
      <4>3. CountsFrom(chunk', Len(seen') + Len(toBackend') - 1)
        BY <3>1, <3>5, <4>2
      <4>4. Len(seen') + Len(toBackend') + Len(chunk') = 1 + (length' - remaining')
        <5>1. /\ Len(chunk') = n /\ Len(seen') = Len(seen) /\ Len(toBackend') = Len(toBackend)
              /\ length' = length /\ remaining' = remaining - n
          BY <3>1, <3>3, <3>5
        <5>2. /\ Len(seen) \in Int /\ Len(toBackend) \in Int /\ Len(chunk) \in Int
              /\ length \in Int /\ remaining \in Int /\ n \in Int
          BY <1>0, <1>a, <3>2
        <5> QED
          BY <4>1, <5>1, <5>2
      <4> QED
        BY <4>3, <4>4
    <3>9. first' < length'
      BY <3>3, <3>4
    <3> QED
      BY <1>0, <3>3, <3>6, <3>7, <3>8, <3>9 DEF RequestInv
  <2> QED
    BY <1>12, <2>1, <2>2 DEF ReadBody
<1>13. CASE Recv
  <2>1. ppc = "recv" /\ ppc' \in {"answer", "page", "end"}
        /\ UNCHANGED <<request, user, remaining, origin, upload, download, toBackend>>
    BY <1>13 DEF Recv, GiveUp
  <2> QED
    BY <2>1 DEF RequestInv
<1>14. CASE WriteToClient
  BY <1>14 DEF WriteToClient, RequestInv
<1>15. CASE Written
  BY <1>15 DEF Written, AfterWrite, RequestInv
<1>16. CASE End
  BY <1>16 DEF End, RequestInv
<1>17. CASE UNCHANGED vars
  BY <1>17 DEF vars, RequestInv, Alive
<1> QED
  BY <1>1, <1>2, <1>3, <1>4, <1>5, <1>6, <1>7, <1>8, <1>9, <1>10, <1>11, <1>12,
     <1>13, <1>14, <1>15, <1>16, <1>17 DEF Next, WorkerStep

LEMMA RequestAlways == Spec => []RequestInv
BY RequestInit, RequestStep, TypedAlways, PTL DEF Spec

\* However long the body is, into whatever reads it is cut and whoever fails, what
\* reaches the backend is the header and then the body, in order and without a gap.
THEOREM RequestReachesInOrder == Spec => []RequestInOrder
<1>1. ASSUME Typed, RequestInv PROVE RequestInOrder
  <2> DEFINE arrived == seen \o toBackend
  <2>1. /\ seen \in Seq(Int) /\ toBackend \in Seq(Int) /\ Len(seen) \in Nat
        /\ CountsFrom(seen, -1) /\ CountsFrom(toBackend, Len(seen) - 1)
    BY <1>1, LenProperties DEF Typed, RequestInv
  <2>2. CountsFrom(toBackend, -1 + Len(seen))
    BY <2>1
  <2>3. arrived \in Seq(Int) /\ CountsFrom(arrived, -1)
    BY <2>1, <2>2, CountConcat
  <2> HIDE DEF arrived
  <2>4. ASSUME arrived # <<>> PROVE Head(arrived) = Header /\ InOrder(Tail(arrived))
    <3>1. Head(arrived) = -1 + 1 /\ CountsFrom(Tail(arrived), -1 + 1) /\ Tail(arrived) \in Seq(Int)
      BY <2>3, <2>4, CountTail
    <3>2. CountsFrom(Tail(arrived), 0)
      BY <3>1
    <3>3. ASSUME NEW i \in 1..Len(Tail(arrived)) PROVE Tail(arrived)[i] = i
      BY <3>1, <3>2, LenProperties DEF CountsFrom
    <3> QED
      BY <3>1, <3>3 DEF InOrder
  <2> QED
    BY <2>4 DEF RequestInOrder, arrived
<1> QED
  BY <1>1, TypedAlways, RequestAlways, PTL
----------------------------------------------------------------------------
LEMMA ShortCounts ==
    ASSUME NEW s \in Seq(Int), Len(s) = 0
    PROVE  s = <<>> /\ \A k : CountsFrom(s, k)
BY EmptySeq DEF CountsFrom

\* Where nothing is delivered, it is the beginning of the answer.
LEMMA NothingRelayed ==
    ASSUME got \in Seq(Int), download \in Seq(Int), sent \in Nat, Delivered = 0
    PROVE  Relayed /\ got = <<>> /\ download = <<>>
<1>1. Len(got) \in Nat /\ Len(download) \in Nat
  BY LenProperties
<1>2. Len(got) = 0 /\ Len(download) = 0
  BY <1>1 DEF Delivered
<1>3. got = <<>> /\ download = <<>> /\ CountsFrom(got, 0) /\ CountsFrom(download, Len(got))
  BY <1>2, ShortCounts
<1> QED
  BY <1>3 DEF Relayed

\* A page can only lose its one unit, and keeps the answer from following.
LEMMA PageCut ==
    ASSUME NEW s \in Pages, NEW p \in Prefixes(s)
    PROVE  p = s \/ p = <<>>
<1>1. PICK n \in 0..Len(s) : p = SubSeq(s, 1, n)
  BY DEF Prefixes
<1>2. PICK e \in Int : s = <<e>>
  BY DEF Pages
<1>3. s \in Seq(Int) /\ Len(s) = 1
  BY <1>2, OneUnit
<1>4. p \in Seq(Int) /\ Len(p) = n /\ \A i \in 1..n : p[i] = s[i]
  BY <1>1, <1>3, SubSeqProperties
<1>5. CASE n = 0
  BY <1>4, <1>5, EmptySeq
<1>6. CASE n = 1
  BY <1>3, <1>4, <1>6, SeqEqual
<1> QED
  BY <1>3, <1>5, <1>6

\* What a reset of the client's connection does to what it had not yet read.
LEMMA CutDelivery ==
    ASSUME got \in Seq(Int), download \in Seq(Int), sent \in Nat,
           Relayed \/ OnePage, download' \in Prefixes(download), UNCHANGED <<got, sent>>
    PROVE  (Relayed \/ OnePage)'
<1>0. Len(got) \in Nat /\ Len(download) \in Nat
  BY LenProperties
<1>1. /\ download' \in Seq(Int) /\ Len(download') \in 0..Len(download)
      /\ \A k \in Int : CountsFrom(download, k) => CountsFrom(download', k)
  BY Prefix
<1>2. CASE Relayed
  BY <1>0, <1>1, <1>2 DEF Relayed, Delivered
<1>3. CASE got = <<>> /\ download \in Pages
  <2>1. download' = download \/ download' = <<>>
    BY <1>3, PageCut
  <2>2. CASE download' = download
    BY <1>3, <2>2 DEF OnePage
  <2>3. CASE download' = <<>>
    <3>1. Len(got') = 0 /\ Len(download') = 0 /\ \A k : CountsFrom(<<>>, k)
      BY <1>3, <2>3, NoUnits
    <3> QED
      BY <1>3, <2>3, <3>1 DEF Relayed, Delivered
  <2> QED
    BY <2>1, <2>2, <2>3
<1>4. CASE download = <<>> /\ got \in Pages
  <2>1. download' = <<>>
    <3>1. Len(download) = 0 /\ Len(download') = 0
      BY <1>1, <1>4, NoUnits
    <3> QED
      BY <1>1, <3>1, EmptySeq
  <2> QED
    BY <1>4, <2>1 DEF OnePage
<1> QED
  BY <1>2, <1>3, <1>4 DEF OnePage

\* The client's reads move the boundary between got and download and nothing else.
LEMMA ReadKeeps ==
    ASSUME Typed, ClientReads
    PROVE  /\ Delivered' = Delivered /\ (Relayed => Relayed') /\ (OnePage => OnePage')
           /\ Delivered > 0
<1>0. /\ got \in Seq(Int) /\ download \in Seq(Int) /\ download # <<>>
      /\ Len(got) \in Nat /\ Len(download) \in Nat
  BY LenProperties DEF Typed, ClientReads
<1>1. /\ Head(download) \in Int /\ Len(Tail(download)) = Len(download) - 1 /\ Len(download) > 0
  BY <1>0, Shrunk
<1>2. Len(Append(got, Head(download))) = Len(got) + 1
  BY <1>0, <1>1, Grown
<1>3. Len(got') = Len(got) + 1 /\ Len(download') = Len(download) - 1
      /\ got' = Append(got, Head(download)) /\ download' = Tail(download) /\ sent' = sent
  BY <1>1, <1>2 DEF ClientReads
<1>4. Delivered' = Delivered /\ Delivered > 0
  BY <1>0, <1>1, <1>3 DEF Delivered
<1>5. ASSUME Relayed PROVE Relayed'
  <2>1. CountsFrom(got, 0) /\ CountsFrom(download, 0 + Len(got))
    BY <1>0, <1>5 DEF Relayed
  <2>2. CountsFrom(Append(got, Head(download)), 0)
        /\ CountsFrom(Tail(download), 0 + Len(got) + 1)
    BY <1>0, <2>1, CountMove
  <2>3. CountsFrom(got', 0) /\ CountsFrom(download', Len(got'))
    <3>1. 0 + Len(got) + 1 = Len(got')
      BY <1>0, <1>3
    <3> QED
      BY <1>3, <2>2, <3>1
  <2> QED
    BY <1>3, <1>4, <1>5, <2>3 DEF Relayed
<1>6. ASSUME OnePage PROVE OnePage'
  <2>1. got = <<>> /\ download \in Pages
    BY <1>0, <1>6 DEF OnePage
  <2>2. PICK e \in Int : download = <<e>>
    BY <2>1 DEF Pages
  <2>3. Head(download) = e /\ Tail(download) = <<>> /\ Append(<<>>, e) = <<e>>
    BY <2>2, OneUnit
  <2>4. got' = download /\ download' = <<>>
    BY <1>3, <2>1, <2>2, <2>3
  <2> QED
    BY <2>1, <2>4 DEF OnePage
<1> QED
  BY <1>4, <1>5, <1>6

LEMMA AnswerInit == Init => AnswerInv
<1> SUFFICES ASSUME Init PROVE AnswerInv
  OBVIOUS
<1>1. /\ fromBackend = <<>> /\ got = <<>> /\ download = <<>> /\ ppc = "connect"
      /\ sent = 0 /\ written = 0 /\ failed = FALSE /\ backend = "none"
  BY DEF Init
<1>2. CountsFrom(fromBackend, sent) /\ Len(fromBackend) = 0 /\ Len(got) = 0 /\ Len(download) = 0
  BY <1>1, NoUnits
<1>3. Delivered = 0 /\ sent + Len(fromBackend) = written
  BY <1>1, <1>2 DEF Delivered
<1> QED
  BY <1>1, <1>2, <1>3 DEF AnswerInv

LEMMA AnswerStep ==
    ASSUME Typed, AnswerInv, [Next]_vars
    PROVE  AnswerInv'
<1>0. /\ fromBackend \in Seq(Int) /\ chunk \in Seq(Int) /\ got \in Seq(Int)
      /\ download \in Seq(Int) /\ sent \in Nat /\ written \in Nat
  BY DEF Typed
<1>a. /\ Len(fromBackend) \in Nat /\ Len(chunk) \in Nat /\ Len(got) \in Nat
      /\ Len(download) \in Nat /\ Delivered \in Nat
  BY <1>0, LenProperties DEF Delivered
<1>1. CASE ClientSends
  <2>1. CASE ppc = "done"
    <3>1. /\ download' \in Prefixes(download)
          /\ UNCHANGED <<request, client, got, worker, origin, toBackend, fromBackend>>
      BY <1>1, <2>1 DEF ClientSends
    <3>2. (Relayed \/ OnePage)'
      BY <1>0, <2>1, <3>1, CutDelivery DEF AnswerInv
    <3> QED
      BY <2>1, <3>1, <3>2 DEF AnswerInv
  <2>2. CASE ppc # "done"
    BY <1>1, <2>2 DEF ClientSends, AnswerInv, Relayed, OnePage, Delivered
  <2> QED
    BY <2>1, <2>2
<1>2. CASE ClientReads
  <2>1. /\ Delivered' = Delivered /\ (Relayed => Relayed') /\ (OnePage => OnePage')
        /\ Delivered > 0
    BY <1>2, ReadKeeps
  <2>2. UNCHANGED <<request, client, uploaded, worker, origin, upload, toBackend, fromBackend>>
    BY <1>2 DEF ClientReads
  <2> HIDE DEF Delivered, Relayed, OnePage
  <2> QED
    BY <1>a, <2>1, <2>2 DEF AnswerInv
<1>3. CASE ClientHangsUp
  BY <1>3 DEF ClientHangsUp, AnswerInv, Relayed, OnePage, Delivered
<1>4. CASE BackendReads
  BY <1>4 DEF BackendReads, AnswerInv, Relayed, OnePage, Delivered
<1>5. CASE BackendWrites
  <2>1. sent + Len(fromBackend) = written /\ CountsFrom(fromBackend, sent)
    BY <1>5 DEF AnswerInv, BackendWrites
  <2>2. /\ Len(Append(fromBackend, written + 1)) = Len(fromBackend) + 1
        /\ CountsFrom(Append(fromBackend, written + 1), sent)
    BY <1>0, <2>1, CountAppend
  <2>3. /\ fromBackend' = Append(fromBackend, written + 1) /\ written' = written + 1
        /\ UNCHANGED <<request, user, worker, backend, seen, upload, download, toBackend>>
    BY <1>5 DEF BackendWrites
  <2>4. sent + Len(fromBackend') = written'
    <3>1. Len(fromBackend') = Len(fromBackend) + 1
      BY <2>2, <2>3
    <3>2. written' = written + 1 /\ sent \in Int /\ Len(fromBackend) \in Int
      BY <1>0, <1>a, <2>3
    <3> QED
      BY <2>1, <3>1, <3>2
  <2>5. CountsFrom(fromBackend', sent)
    BY <2>2, <2>3
  <2> QED
    BY <2>3, <2>4, <2>5 DEF AnswerInv, Relayed, OnePage, Delivered
<1>6. CASE BackendCloses
  BY <1>6 DEF BackendCloses, AnswerInv, Relayed, OnePage, Delivered
<1>7. CASE BackendResets
  <2>1. CountsFrom(fromBackend, sent)
    BY DEF AnswerInv
  <2>2. CountsFrom(fromBackend', sent)
    BY <1>0, <1>7, <2>1, Prefix DEF BackendResets
  <2>3. /\ backend' = "reset"
        /\ UNCHANGED <<request, user, worker, seen, written, upload, download, toBackend>>
    BY <1>7 DEF BackendResets
  <2> QED
    <3>1. Delivered' = Delivered /\ (Relayed' <=> Relayed) /\ (OnePage' <=> OnePage)
      BY <2>3 DEF Delivered, Relayed, OnePage
    <3>2. ppc # "connect"
      BY <1>7 DEF BackendResets, AnswerInv
    <3> QED
      BY <2>2, <2>3, <3>1, <3>2 DEF AnswerInv
<1>8. CASE BackendStalls
  BY <1>8 DEF BackendStalls, AnswerInv, Relayed, OnePage, Delivered
<1>9. CASE Connect
  <2>1. /\ ppc = "connect" /\ UNCHANGED <<request, user, remaining, sent, seen, written, streams>>
        /\ \/ backend' = "open" /\ ppc' = "header" /\ UNCHANGED failed
           \/ UNCHANGED backend /\ ppc' = "page" /\ chunk' \in Pages /\ failed' = TRUE
           \/ UNCHANGED backend /\ ppc' = "end" /\ failed' = TRUE
    BY <1>9 DEF Connect, Pages
  <2>3. sent = 0 /\ Delivered = 0 /\ ~failed
    BY <2>1 DEF AnswerInv
  <2>4. Relayed
    BY <1>0, <2>3, NothingRelayed
  <2>5. Delivered' = Delivered /\ (Relayed' <=> Relayed)
    BY <2>1 DEF Delivered, Relayed
  <2>6. CountsFrom(fromBackend', sent') /\ (backend' # "reset" => sent' + Len(fromBackend') = written')
    BY <2>1 DEF AnswerInv
  <2> QED
    BY <2>1, <2>3, <2>4, <2>5, <2>6 DEF AnswerInv
<1>10. CASE SendToBackend
  BY <1>10 DEF SendToBackend, AnswerInv, Relayed, OnePage, Delivered
<1>11. CASE StartBody
  <2>1. sent = 0 /\ Delivered = 0 /\ ~failed
    BY <1>11 DEF AnswerInv, StartBody
  <2>2. Relayed
    BY <1>0, <2>1, NothingRelayed
  <2>3. /\ ppc' = "body" \/ (ppc' = "recv" /\ chunk' = <<>>)
        /\ UNCHANGED <<request, user, sent, failed, origin, streams>>
    BY <1>11 DEF StartBody
  <2>4. Delivered' = Delivered /\ (Relayed' <=> Relayed)
    BY <2>3 DEF Delivered, Relayed
  <2>5. Len(<<>>) = 0 /\ \A k : CountsFrom(<<>>, k)
    BY NoUnits
  <2> QED
    BY <2>1, <2>2, <2>3, <2>4, <2>5 DEF AnswerInv
<1>12. CASE ReadBody
  <2>1. sent = 0 /\ Delivered = 0 /\ ~failed
    BY <1>12 DEF AnswerInv, ReadBody
  <2>2. Relayed
    BY <1>0, <2>1, NothingRelayed
  <2>3. /\ (ppc = "body" /\ ppc' = "body") \/ (ppc' = "recv" /\ chunk' = <<>>)
        /\ UNCHANGED <<request, user, sent, failed, origin, download, toBackend, fromBackend>>
    BY <1>12 DEF ReadBody
  <2>4. Delivered' = Delivered /\ (Relayed' <=> Relayed)
    BY <2>3 DEF Delivered, Relayed
  <2>5. Len(<<>>) = 0 /\ \A k : CountsFrom(<<>>, k)
    BY NoUnits
  <2> QED
    BY <2>1, <2>2, <2>3, <2>4, <2>5 DEF AnswerInv
<1>13. CASE Recv
  <2>0. /\ ppc = "recv" /\ chunk = <<>> /\ ~failed /\ Relayed /\ Len(chunk) = 0
        /\ client = "here" => Delivered = sent
        /\ CountsFrom(fromBackend, sent)
        /\ UNCHANGED <<request, user, remaining, origin, upload, download, toBackend>>
    BY <1>0, <1>13, NoUnits DEF Recv, AnswerInv
  <2>1. CASE /\ ppc' = "answer" /\ UNCHANGED failed
             /\ \E n \in 1..Smaller(MaxChunk, Len(fromBackend)) :
                   /\ chunk' = SubSeq(fromBackend, 1, n)
                   /\ fromBackend' = SubSeq(fromBackend, n + 1, Len(fromBackend))
                   /\ sent' = sent + n
    <3>1. PICK n \in 1..Smaller(MaxChunk, Len(fromBackend)) :
                /\ chunk' = SubSeq(fromBackend, 1, n)
                /\ fromBackend' = SubSeq(fromBackend, n + 1, Len(fromBackend))
                /\ sent' = sent + n
      BY <2>1
    <3>2. n \in 0..Len(fromBackend) /\ n \in Nat
      BY <1>a, ProxyAssumption
    <3>3. /\ Len(chunk') = n /\ CountsFrom(chunk', sent)
          /\ Len(fromBackend') = Len(fromBackend) - n /\ CountsFrom(fromBackend', sent + n)
      BY <1>0, <2>0, <3>1, <3>2, CountCut
    <3>4. Delivered' = Delivered /\ Relayed'
      BY <1>0, <1>a, <2>0, <3>1, <3>2 DEF Delivered, Relayed
    <3>5. sent' - Len(chunk') = sent /\ sent' + Len(fromBackend') = sent + Len(fromBackend)
      <4>1. Len(chunk') = n /\ Len(fromBackend') = Len(fromBackend) - n /\ sent' = sent + n
        BY <3>1, <3>3
      <4> QED
        BY <1>0, <1>a, <3>2, <4>1
    <3>6. /\ CountsFrom(fromBackend', sent') /\ CountsFrom(chunk', sent' - Len(chunk'))
          /\ Len(chunk') <= sent'
      BY <1>0, <3>1, <3>2, <3>3, <3>5
    <3>7. backend' # "reset" => sent' + Len(fromBackend') = written'
      BY <2>0, <3>5 DEF AnswerInv
    <3> QED
      BY <2>0, <2>1, <3>4, <3>5, <3>6, <3>7 DEF AnswerInv
  <2>2. CASE UNCHANGED <<fromBackend, sent>> /\ ppc' \in {"page", "end"}
    <3>1. Delivered' = Delivered /\ (Relayed' <=> Relayed)
      BY <2>0, <2>2 DEF Delivered, Relayed
    <3>2. ppc' = "page" => sent = 0 /\ failed' /\ chunk' \in Pages
      BY <1>13, <2>0, <2>2 DEF Recv, GiveUp, Pages
    <3>3. sent = 0 => Delivered = 0
      BY <1>a, <2>0 DEF Relayed
    <3> QED
      BY <2>0, <2>2, <3>1, <3>2, <3>3 DEF AnswerInv
  <2> QED
    BY <1>13, <2>1, <2>2 DEF Recv, GiveUp
<1>14. CASE WriteToClient
  <2>0. /\ ppc \in {"answer", "page"} /\ chunk # <<>> /\ chunk \in Seq(Int)
        /\ UNCHANGED <<request, user, ppc, remaining, sent, failed, origin, upload, toBackend,
                       fromBackend>>
    BY <1>0, <1>14 DEF WriteToClient
  <2>1. CASE client = "here" /\ ppc = "answer"
    <3>1. /\ download' = Append(download, Head(chunk)) /\ chunk' = Tail(chunk)
      BY <1>14, <2>1 DEF WriteToClient
    <3>2. /\ CountsFrom(got, 0) /\ CountsFrom(download, Len(got)) /\ Delivered = sent - Len(chunk)
          /\ Len(chunk) <= sent /\ CountsFrom(chunk, sent - Len(chunk)) /\ ~failed
      BY <2>1 DEF AnswerInv, Relayed
    <3>3. CountsFrom(chunk, Len(got) + Len(download))
      BY <3>2 DEF Delivered
    <3>4. /\ Len(Append(download, Head(chunk))) = Len(download) + 1
          /\ CountsFrom(Append(download, Head(chunk)), Len(got))
          /\ Len(Tail(chunk)) = Len(chunk) - 1 /\ Len(chunk) > 0
          /\ CountsFrom(Tail(chunk), Len(got) + Len(download) + 1)
      BY <1>0, <1>a, <2>0, <3>2, <3>3, CountMove
    <3>5. Len(download') = Len(download) + 1 /\ Len(chunk') = Len(chunk) - 1
          /\ got' = got /\ sent' = sent
      BY <2>0, <3>1, <3>4
    <3>6. Len(got) + Len(download) = sent - Len(chunk)
      BY <3>2 DEF Delivered
    <3>7. /\ Delivered' = sent' - Len(chunk') /\ Delivered' <= sent' /\ Len(chunk') <= sent'
          /\ Len(got) + Len(download) + 1 = sent' - Len(chunk')
      <4>1. Len(chunk) \in Nat /\ Len(chunk) > 0 /\ Len(chunk) <= sent /\ sent \in Nat
        BY <1>0, <1>a, <3>2, <3>4
      <4>2. Delivered' = Len(got) + Len(download')
        BY <3>5 DEF Delivered
      <4> QED
        BY <1>a, <3>5, <3>6, <4>1, <4>2
    <3>8. CountsFrom(download', Len(got')) /\ CountsFrom(chunk', sent' - Len(chunk'))
      BY <3>1, <3>4, <3>5, <3>7
    <3>9. Relayed'
      BY <3>2, <3>5, <3>7, <3>8 DEF Relayed
    <3> QED
      BY <2>0, <2>1, <3>2, <3>7, <3>8, <3>9 DEF AnswerInv
  <2>2. CASE client = "here" /\ ppc = "page"
    <3>1. /\ download' = Append(download, Head(chunk)) /\ chunk' = Tail(chunk)
      BY <1>14, <2>2 DEF WriteToClient
    <3>2. chunk \in Pages /\ Delivered = 0 /\ sent = 0 /\ failed
      BY <2>0, <2>2 DEF AnswerInv
    <3>3. got = <<>> /\ download = <<>>
      BY <1>0, <3>2, NothingRelayed
    <3>4. PICK e \in Int : chunk = <<e>>
      BY <3>2 DEF Pages
    <3>5. Head(chunk) = e /\ Tail(chunk) = <<>> /\ Append(<<>>, e) = <<e>>
      BY <3>4, OneUnit
    <3>6. download' = chunk /\ chunk' = <<>> /\ got' = <<>>
      BY <2>0, <3>1, <3>3, <3>4, <3>5
    <3>7. OnePage'
      BY <3>2, <3>6 DEF OnePage
    <3> QED
      BY <2>0, <2>2, <3>2, <3>6, <3>7 DEF AnswerInv
  <2>3. CASE client # "here"
    <3>1. chunk' = <<>> /\ client' # "here" /\ UNCHANGED download
      BY <1>14, <2>3 DEF WriteToClient
    <3>2. Delivered' = Delivered /\ (Relayed' <=> Relayed) /\ (OnePage' <=> OnePage)
      BY <2>0, <3>1 DEF Delivered, Relayed, OnePage
    <3>3. Len(<<>>) = 0 /\ \A k : CountsFrom(<<>>, k)
      BY NoUnits
    <3>4. CASE ppc = "answer"
      <4>1. Len(chunk') = 0 /\ Len(chunk') <= sent' /\ CountsFrom(chunk', sent' - Len(chunk'))
        BY <1>0, <2>0, <3>1, <3>3
      <4> QED
        BY <2>0, <3>1, <3>2, <3>4, <4>1 DEF AnswerInv
    <3>5. CASE ppc = "page"
      BY <2>0, <3>1, <3>2, <3>5 DEF AnswerInv
    <3> QED
      BY <2>0, <3>4, <3>5
  <2> QED
    BY <2>0, <2>1, <2>2, <2>3
<1>15. CASE Written
  <2>1. /\ chunk = <<>> /\ UNCHANGED <<request, user, chunk, remaining, sent, failed, origin, streams>>
        /\ (ppc = "answer" /\ ppc' = "recv") \/ (ppc = "page" /\ ppc' = "end")
    BY <1>15 DEF Written, AfterWrite
  <2>2. Delivered' = Delivered /\ (Relayed' <=> Relayed) /\ (OnePage' <=> OnePage)
    BY <2>1 DEF Delivered, Relayed, OnePage
  <2>3. ppc = "page" => Relayed \/ OnePage
    <3>1. ppc = "page" => Delivered = 0 \/ OnePage
      BY DEF AnswerInv
    <3> QED
      BY <1>0, <3>1, NothingRelayed
  <2> QED
    BY <2>1, <2>2, <2>3 DEF AnswerInv
<1>16. CASE End
  <2>1. /\ ppc = "end" /\ ppc' = "done" /\ (download' = download \/ download' \in Prefixes(download))
        /\ UNCHANGED <<request, user, chunk, remaining, sent, failed, origin, upload, toBackend,
                       fromBackend>>
    BY <1>16 DEF End
  <2>2. Relayed \/ OnePage
    BY <2>1 DEF AnswerInv
  <2>3. (Relayed \/ OnePage)'
    <3>1. CASE download' = download
      BY <2>1, <2>2, <3>1 DEF Relayed, OnePage, Delivered
    <3>2. CASE download' \in Prefixes(download)
      BY <1>0, <2>1, <2>2, <3>2, CutDelivery
    <3> QED
      BY <2>1, <3>1, <3>2
  <2> QED
    BY <2>1, <2>3 DEF AnswerInv
<1>17. CASE UNCHANGED vars
  BY <1>17 DEF vars, AnswerInv, Relayed, OnePage, Delivered
<1> QED
  BY <1>1, <1>2, <1>3, <1>4, <1>5, <1>6, <1>7, <1>8, <1>9, <1>10, <1>11, <1>12,
     <1>13, <1>14, <1>15, <1>16, <1>17 DEF Next, WorkerStep

LEMMA AnswerAlways == Spec => []AnswerInv
BY AnswerInit, AnswerStep, TypedAlways, PTL DEF Spec

\* What reaches the client is, for every answer and every cut of it, the beginning of
\* the backend's answer or one page of the proxy alone.
THEOREM AnswerOrOnePage == Spec => []AnswerOrPage
<1>1. ASSUME Typed, AnswerInv PROVE AnswerOrPage
  <2>1. /\ got \in Seq(Int) /\ download \in Seq(Int) /\ sent \in Nat /\ Len(got) \in Nat
        /\ Len(download) \in Nat /\ Len(fromBackend) \in Nat /\ sent <= written /\ written \in Nat
    BY <1>1, LenProperties DEF Typed
  <2>2. Relayed \/ OnePage
    <3>1. Delivered = 0 \/ Relayed \/ OnePage
      BY <1>1 DEF AnswerInv, Typed
    <3> QED
      BY <2>1, <3>1, NothingRelayed
  <2> DEFINE relayed == got \o download
  <2>3. CASE Relayed
    <3>1. relayed \in Seq(Int) /\ Len(relayed) = Delivered /\ CountsFrom(relayed, 0)
      BY <2>1, <2>3, CountConcat DEF Relayed, Delivered
    <3> HIDE DEF relayed
    <3>2. InOrder(relayed) /\ Len(relayed) <= written
      <4>1. \A i \in 1..Len(relayed) : relayed[i] = i
        BY <3>1, LenProperties DEF CountsFrom
      <4>2. Len(relayed) \in Nat /\ Len(relayed) <= sent
        BY <2>3, <3>1, LenProperties DEF Relayed
      <4> QED
        BY <2>1, <4>1, <4>2 DEF InOrder
    <3> QED
      BY <3>2 DEF AnswerOrPage, relayed
  <2>4. CASE OnePage
    <3>1. relayed \in Pages
      BY <2>1, <2>4, ConcatEmptySeq DEF OnePage
    <3> QED
      BY <3>1 DEF AnswerOrPage, Pages
  <2> QED
    BY <2>2, <2>3, <2>4
<1> QED
  BY <1>1, TypedAlways, AnswerAlways, PTL
----------------------------------------------------------------------------
LEMMA CleanStep ==
    ASSUME Typed, RequestInv, AnswerInv, CleanInv, [Next]_vars
    PROVE  CleanInv'
<1>0. /\ upload \in Seq(Int) /\ uploaded \in Nat /\ length \in Nat /\ uploaded <= length
      /\ got \in Seq(Int) /\ download \in Seq(Int) /\ sent \in Nat /\ first \in Nat
  BY DEF Typed
<1>a. Len(upload) \in Nat /\ (Len(upload) = 0 => upload = <<>>)
  BY <1>0, LenProperties, EmptySeq
<1>1. CASE ClientSends
  <2>1. /\ client = "here" /\ uploaded < length
        /\ UNCHANGED <<request, client, got, worker, origin, toBackend, fromBackend>>
    BY <1>1 DEF ClientSends
  <2>2. CASE ppc \in {"recv", "answer", "end", "done"} /\ ~failed /\ ~chunked
    <3>1. uploaded = length
      BY <2>1, <2>2 DEF CleanInv
    <3> QED
      BY <1>0, <2>1, <3>1
  <2>3. CASE ~(ppc \in {"recv", "answer", "end", "done"} /\ ~failed /\ ~chunked)
    <3>1. CASE ppc = "done"
      BY <2>1, <2>3, <3>1 DEF CleanInv
    <3>2. CASE ppc # "done"
      <4>1. download' = download
        BY <1>1, <3>2 DEF ClientSends
      <4> QED
        BY <2>1, <2>3, <3>2, <4>1 DEF CleanInv, Relayed, Delivered
    <3> QED
      BY <3>1, <3>2
  <2> QED
    BY <2>2, <2>3
<1>2. CASE ClientReads
  <2>1. Delivered' = Delivered /\ (Relayed => Relayed')
    BY <1>2, ReadKeeps
  <2>2. UNCHANGED <<request, client, uploaded, worker, origin, upload, toBackend, fromBackend>>
    BY <1>2 DEF ClientReads
  <2> QED
    BY <2>1, <2>2 DEF CleanInv
<1>3. CASE ClientHangsUp
  BY <1>3 DEF ClientHangsUp, CleanInv, Relayed, Delivered
<1>4. CASE BackendReads
  BY <1>4 DEF BackendReads, CleanInv, Relayed, Delivered
<1>5. CASE BackendWrites
  BY <1>5 DEF BackendWrites, CleanInv, Relayed, Delivered
<1>6. CASE BackendCloses
  BY <1>6 DEF BackendCloses, CleanInv, Relayed, Delivered
<1>7. CASE BackendResets
  BY <1>7 DEF BackendResets, CleanInv, Relayed, Delivered
<1>8. CASE BackendStalls
  BY <1>8 DEF BackendStalls, CleanInv, Relayed, Delivered
<1>9. CASE Connect
  <2>1. ppc' \notin {"recv", "answer", "done"} /\ (ppc' = "end" => failed')
    BY <1>9 DEF Connect
  <2> QED
    BY <2>1 DEF CleanInv
<1>10. CASE SendToBackend
  BY <1>10 DEF SendToBackend, CleanInv, Relayed, Delivered
<1>11. CASE StartBody
  <2>1. /\ ppc = "header" /\ ppc' \in {"body", "recv"}
        /\ ppc' = "recv" => ~(ContentLength > 0)
        /\ UNCHANGED <<request, user, sent, failed, origin, streams>>
    BY <1>11 DEF StartBody
  <2>2. ASSUME ppc' = "recv", ~chunked PROVE upload = <<>> /\ uploaded = length
    <3>1. length = 0
      BY <1>0, <2>1, <2>2 DEF ContentLength
    <3>2. uploaded - Len(upload) = 0 /\ uploaded = 0
      BY <1>0, <2>1, <3>1 DEF RequestInv
    <3> QED
      BY <1>0, <1>a, <3>1, <3>2
  <2> QED
    BY <2>1, <2>2 DEF CleanInv
<1>12. CASE ReadBody
  <2>1. CASE ppc' = "recv"
    <3>1. /\ BodyEnds /\ UNCHANGED upload
          /\ UNCHANGED <<request, user, sent, failed, origin, download, toBackend, fromBackend>>
          /\ ppc = "body"
      BY <1>12, <2>1 DEF ReadBody
    <3>2. ASSUME client = "here" PROVE upload = <<>> /\ uploaded = length
      <4>1. remaining = 0 /\ uploaded - Len(upload) = length - remaining
        BY <3>1, <3>2 DEF BodyEnds, RequestInv
      <4>2. uploaded - Len(upload) = length
        BY <1>0, <4>1
      <4> QED
        BY <1>0, <1>a, <4>2
    <3> QED
      BY <2>1, <3>1, <3>2 DEF CleanInv
  <2>2. CASE ppc' # "recv"
    BY <1>12, <2>2 DEF ReadBody, CleanInv
  <2> QED
    BY <2>1, <2>2
<1>13. CASE Recv
  <2>1. /\ ppc = "recv" /\ ~failed /\ Relayed /\ (client = "here" => Delivered = sent)
    <3>1. chunk = <<>> /\ Len(chunk) = 0 /\ ppc = "recv"
      BY <1>13, NoUnits DEF Recv, AnswerInv
    <3> QED
      BY <1>0, <3>1 DEF AnswerInv
  <2>2. /\ UNCHANGED <<request, user, remaining, origin, upload, download, toBackend>>
        /\ ppc' \in {"answer", "page", "end"}
        /\ ppc' = "end" /\ ~failed' => /\ backend = "closed" /\ fromBackend = <<>>
                                       /\ UNCHANGED <<fromBackend, sent>>
    BY <1>13 DEF Recv, GiveUp
  <2>3. ppc' = "end" /\ ~failed' => Delivered' = Delivered /\ (Relayed' <=> Relayed)
    BY <2>2 DEF Delivered, Relayed
  <2> QED
    BY <2>1, <2>2, <2>3 DEF CleanInv
<1>14. CASE WriteToClient
  <2>1. /\ ppc \in {"answer", "page"} /\ ppc' = ppc
        /\ UNCHANGED <<request, user, ppc, remaining, sent, failed, origin, upload, toBackend,
                       fromBackend>>
    BY <1>14 DEF WriteToClient
  <2> QED
    BY <2>1 DEF CleanInv
<1>15. CASE Written
  <2>1. /\ UNCHANGED <<request, user, chunk, remaining, sent, failed, origin, streams>>
        /\ (ppc = "answer" /\ ppc' = "recv") \/ (ppc = "page" /\ ppc' = "end")
    BY <1>15 DEF Written, AfterWrite
  <2>2. ppc = "page" => failed
    BY DEF AnswerInv
  <2> QED
    BY <2>1, <2>2 DEF CleanInv
<1>16. CASE End
  <2>1. /\ ppc = "end" /\ ppc' = "done" /\ (upload = <<>> => download' = download)
        /\ UNCHANGED <<request, user, chunk, remaining, sent, failed, origin, upload, toBackend,
                       fromBackend>>
    BY <1>16 DEF End
  <2>2. ASSUME ~failed, ~chunked, client = "here"
        PROVE  /\ upload = <<>> /\ uploaded = length
               /\ Relayed' /\ Delivered' = written /\ backend = "closed"
    <3>1. /\ upload = <<>> /\ uploaded = length /\ Relayed /\ backend = "closed"
          /\ fromBackend = <<>> /\ Delivered = sent
      BY <2>1, <2>2 DEF CleanInv
    <3>2. Len(fromBackend) = 0 /\ sent + Len(fromBackend) = written
      BY <3>1, NoUnits DEF AnswerInv
    <3>3. Delivered' = Delivered /\ (Relayed' <=> Relayed)
      BY <2>1, <3>1 DEF Delivered, Relayed
    <3> QED
      BY <1>0, <3>1, <3>2, <3>3
  <2> QED
    BY <2>1, <2>2 DEF CleanInv
<1>17. CASE UNCHANGED vars
  BY <1>17 DEF vars, CleanInv, Relayed, Delivered
<1> QED
  BY <1>1, <1>2, <1>3, <1>4, <1>5, <1>6, <1>7, <1>8, <1>9, <1>10, <1>11, <1>12,
     <1>13, <1>14, <1>15, <1>16, <1>17 DEF Next, WorkerStep

LEMMA CleanAlways == Spec => []CleanInv
<1>1. Init => CleanInv
  BY DEF Init, CleanInv
<1> QED
  BY <1>1, CleanStep, TypedAlways, RequestAlways, AnswerAlways, PTL DEF Spec

\* A client that is there when its request has ended without a failure has all of
\* the answer, however long it is, if its body was announced by its length.
THEOREM EndIsComplete == Spec => []CleanEndIsComplete
<1>1. ASSUME Typed, CleanInv PROVE CleanEndIsComplete
  <2> SUFFICES ASSUME ppc = "done", ~failed, client = "here", ~chunked
               PROVE  got \o download = UpTo(written)
    BY DEF CleanEndIsComplete
  <2>1. /\ got \in Seq(Int) /\ download \in Seq(Int) /\ Len(got) \in Nat /\ Len(download) \in Nat
        /\ written \in Nat
    BY <1>1, LenProperties DEF Typed
  <2>2. Relayed /\ Delivered = written
    BY <1>1 DEF CleanInv
  <2> DEFINE relayed == got \o download
             whole == UpTo(written)
  <2>3. relayed \in Seq(Int) /\ Len(relayed) = written /\ CountsFrom(relayed, 0)
    BY <2>1, <2>2, CountConcat DEF Relayed, Delivered
  <2>4. whole \in Seq(Int) /\ Len(whole) = written /\ CountsFrom(whole, 0)
    BY <2>1, FirstUnits
  <2> HIDE DEF relayed, whole
  <2>5. relayed = whole
    BY <2>3, <2>4, SeqEqual DEF CountsFrom
  <2> QED
    BY <2>5 DEF relayed, whole
<1> QED
  BY <1>1, TypedAlways, CleanAlways, PTL
=============================================================================
