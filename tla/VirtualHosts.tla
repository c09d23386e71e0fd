---------------------------- MODULE VirtualHosts ----------------------------
(***************************************************************************)
(* What becomes of the virtual hosts that the parser returns.  The         *)
(* constructor of WebServer loads a TLS context for each (SNIContext.cpp,  *)
(* SSLContext.cpp) and opens its ports (PosixSocketFactory.h).  A request  *)
(* is then redirected or given to a virtual host by its Host header        *)
(* (WebServer.cpp), to a location by its URL (ProxyConnection.cpp), and    *)
(* perhaps to a file (StaticResourceManager.cpp), while the server may be  *)
(* stopped and files may be replaced.                                      *)
(*                                                                         *)
(* A virtual host is known by its place in the configuration.  URLs and    *)
(* locations are sequences of characters, since routing compares prefixes. *)
(***************************************************************************)
EXTENDS Naturals, Sequences, FiniteSets, SequencesExt

CONSTANTS
    Configs,        \* the configurations: sequences of virtual hosts
    Names,          \* the names clients ask for
    NoName,         \* no server_name, no Host header, no SNI
    Urls,
    MaxSeen         \* bound: states of files that one request may meet

Kinds == {"http", "https"}
NoHost == 0
Files == {"page", "404.html"}       \* the file a URL names, and www/404.html

\* How a file may be found: not there; there; there, but open() fails (no permission,
\* no descriptor left); a directory; or exists() throws (a directory on its path
\* cannot be searched, the name is too long), and then open() fails too.
FileStates == {"absent", "file", "locked", "directory", "hidden"}

Startup == {"load", "http", "https"}

IsSequence(s) == s \in Seq(Range(s))

ASSUME HostsAssumption ==
    /\ NoName \notin Names /\ MaxSeen \in Nat
    /\ \A url \in Urls : IsSequence(url)
    /\ \A c \in Configs : IsSequence(c) /\ \A i \in DOMAIN c :
          /\ c[i].name \in Names \cup {NoName} /\ c[i].loads \in BOOLEAN
          /\ \A k \in Kinds : c[i].ports[k] \in Seq(Nat \ {0})
          /\ IsSequence(c[i].rules)
          /\ \A r \in DOMAIN c[i].rules : IsSequence(c[i].rules[r].path)

VARIABLES
    config,     \* serverConfig.content
    phase, item,\* where main() is, and the virtual host whose context is next
    contexts,   \* SNIContext::contexts: the virtual host a name's context is from
    default,    \* the one contexts.begin() has, as long as the map stays as it is
    todo, open, \* per kind: ports not yet tried, ports with a listen socket
    failed,     \* history: the port whose failure ended the loop, or 0
    leaked,     \* ports with a socket that is bound and does not listen
    client,     \* a client, its request and what it has met so far
    pages, was  \* the state of each file; history: its states since the request came

start == <<config, item, contexts, default, todo, failed, leaked>>
site  == <<pages, was>>
vars  == <<start, phase, open, client, site>>

Hosts == DOMAIN config
Named(n) == {i \in Hosts : config[i].name = n}
PortsOf(k) == UNION {Range(config[i].ports[k]) : i \in Hosts}

Init ==
    /\ config \in Configs
    /\ phase = "load" /\ item = 1
    /\ contexts = [n \in Names \cup {NoName} |-> NoHost] /\ default = NoHost
    /\ todo = [k \in Kinds |-> PortsOf(k)] /\ open = [k \in Kinds |-> {}]
    /\ failed = [k \in Kinds |-> 0] /\ leaked = {}
    /\ client = [at |-> "away", name |-> NoName, port |-> 0, home |-> NoHost,
                 cert |-> NoHost, host |-> NoHost, url |-> <<>>, rule |-> 0]
    /\ pages = [f \in Files |-> "absent"] /\ was = [f \in Files |-> {"absent"}]
----------------------------------------------------------------------------
UsableAlways == TRUE                     \* mutant of Usable: a null context is stored

\* SSLContext(): key and certificate are given, and their files load.
Usable == config[item].loads

\* A virtual host without a usable context is passed over; of two with the same
\* name the last one's context stays.
LoadContext ==
    /\ phase = "load" /\ item <= Len(config)
    /\ contexts' = IF Usable THEN [contexts EXCEPT ![config[item].name] = item] ELSE contexts
    /\ item' = item + 1
    /\ UNCHANGED <<config, phase, default, todo, open, failed, leaked, client, site>>

\* Which context begin() of the unordered_map finds is up to the library.
ContextsLoaded ==
    /\ phase = "load" /\ item > Len(config)
    /\ \/ \E n \in DOMAIN contexts : contexts[n] # NoHost /\ default' = contexts[n]
       \/ (\A n \in DOMAIN contexts : contexts[n] = NoHost) /\ default' = NoHost
    /\ phase' = "http"
    /\ UNCHANGED <<config, item, contexts, todo, open, failed, leaked, client, site>>

Nothing == [k \in Kinds |-> {}]         \* mutant of AfterFailure: one try for all

\* The exception leaves the loop over the ports of this kind.
AfterFailure == [todo EXCEPT ![phase] = {}]

\* createListenSocket() for the smallest port left.  It fails if the port cannot
\* be had, and always if a socket listens there already; one that is bound only
\* does not stop it (SO_REUSEADDR).  If it is listen() that fails, the socket is lost.
OpenPort ==
    /\ phase \in Kinds /\ todo[phase] # {}
    /\ LET p == Min(todo[phase]) IN
       \/ /\ p \notin open["http"] \cup open["https"]
          /\ open' = [open EXCEPT ![phase] = @ \cup {p}]
          /\ todo' = [todo EXCEPT ![phase] = @ \ {p}]
          /\ UNCHANGED <<failed, leaked>>
       \/ /\ todo' = AfterFailure
          /\ failed' = [failed EXCEPT ![phase] = p]
          /\ leaked' \in {leaked} \cup
                 (IF p \in open["http"] \cup open["https"] THEN {} ELSE {leaked \cup {p}})
          /\ UNCHANGED open
    /\ UNCHANGED <<config, phase, item, contexts, default, client, site>>

\* https ports are opened only if there is a context at all.
PortsOpened ==
    /\ phase \in Kinds /\ todo[phase] = {}
    /\ phase' = IF phase = "http" /\ default # NoHost THEN "https" ELSE "serving"
    /\ UNCHANGED <<start, open, client, site>>

\* SIGTERM ends startListen(), and with it main(): ~WebServer closes the sockets.
\* During start-up there is no handler yet, and the signal kills the process.
Sigterm ==
    /\ phase \in Startup \cup {"serving"}
    /\ phase' = "ended"
    /\ open' = [k \in Kinds |-> {}]
    /\ UNCHANGED <<start, client, site>>
----------------------------------------------------------------------------
DefaultOnly(n) == default               \* mutant of Certificate: no SNI callback

\* sniCallback(): the context of that name, else the one of the handshake.
Certificate(n) == IF n # NoName /\ contexts[n] # NoHost THEN contexts[n] ELSE default

\* A connection to port p, by the protocol the client has chosen.  TLS on an
\* http port and http on an https port lead to no answer.
Connected(k, p, n) ==
    IF p \in open[k]
    THEN [client EXCEPT !.at = k, !.port = p, !.name = n,
                        !.cert = IF k = "https" THEN Certificate(n) ELSE NoHost]
    ELSE [client EXCEPT !.at = "refused", !.port = p, !.name = n]

Connect(k, p, n) ==
    /\ phase = "serving" /\ client.at = "away"
    /\ client' = Connected(k, p, n)
    /\ UNCHANGED <<start, phase, open, site>>

Redirectors == {i \in Named(client.name) : config[i].ports["https"] # <<>>}

\* Mutant of Dispatch: the first virtual host, whatever its name.
DispatchToFirst == client' = [client EXCEPT !.at = "routed", !.host = 1]

\* dispatchToVhost(): the first virtual host of that name, if there is one.
Dispatch ==
    IF client.name = NoName \/ Named(client.name) = {}
    THEN client' = [client EXCEPT !.at = "dropped"]
    ELSE client' = [client EXCEPT !.at = "routed", !.host = Min(Named(client.name))]

\* createHttpClientThread(): any virtual host of that name that has an https
\* port redirects, the first in the file and to the first of its ports.
HandleHttp ==
    /\ client.at = "http"
    /\ IF client.name # NoName /\ Redirectors # {}
       THEN LET i == Min(Redirectors) IN
            client' = [client EXCEPT !.at = "redirected", !.home = i,
                                     !.port = Head(config[i].ports["https"])]
       ELSE Dispatch
    /\ UNCHANGED <<start, phase, open, site>>

FollowRedirect ==
    /\ client.at = "redirected"
    /\ client' = Connected("https", client.port, client.name)
    /\ UNCHANGED <<start, phase, open, site>>

\* createHttpsClientThread().
HandleHttps ==
    /\ client.at = "https" /\ Dispatch
    /\ UNCHANGED <<start, phase, open, site>>
----------------------------------------------------------------------------
Stripped(path) == IF path # <<>> /\ Last(path) = "/" THEN Front(path) ELSE path

Path(r) == config[client.host].rules[r].path

LongEnough(r, best) == Len(Path(r)) >= Len(Path(best))     \* mutant of Longer

Longer(r, best) == Len(Path(r)) > Len(Path(best))

\* newConnection(), the loop: without its last slash the location begins the
\* URL, and with it, it is longer than the best so far.
Location(url) ==
    LET better(best, r) ==
            IF IsPrefix(Stripped(Path(r)), url) /\ (best = 0 \/ Longer(r, best)) THEN r ELSE best
    IN  FoldLeft(better, 0, [r \in DOMAIN config[client.host].rules |-> r])

ChooseLocation(url) ==
    /\ client.at = "routed"
    /\ LET r == Location(url)
           proxied == r # 0 /\ config[client.host].rules[r].proxy
       IN  /\ client' = [client EXCEPT !.url = url, !.rule = r,
                             !.at = IF r = 0 THEN "dropped" ELSE IF proxied THEN "proxied" ELSE "static"]
           /\ IF r = 0 \/ proxied THEN UNCHANGED site
              ELSE /\ pages' \in [Files -> FileStates]
                   /\ was' = [f \in Files |-> {pages'[f]}]
    /\ UNCHANGED <<start, phase, open>>

AnyPath == "page"                       \* mutant of UrlPath: exists() is not asked

\* getUrlPath(): a file that is not there becomes 404.html, there or not.
UrlPath == IF pages["page"] # "absent" THEN "page" ELSE "404.html"

\* exists() may throw: the request ends without an answer.
MapUrl ==
    /\ client.at = "static"
    /\ client' = [client EXCEPT !.at = IF pages["page"] = "hidden" THEN "no answer" ELSE UrlPath]
    /\ UNCHANGED <<start, phase, open, site>>

\* getSite(): the file, with status 200 whichever it is; a bare 404 if it cannot be
\* opened.  A directory can, and resize() throws: no answer.
Answer(f) ==
    CASE pages[f] = "file"      -> IF f = "page" THEN "found" ELSE "found 404.html"
      [] pages[f] = "directory" -> "no answer"
      [] OTHER                  -> "bare 404"

GetSite ==
    /\ client.at \in Files
    /\ client' = [client EXCEPT !.at = Answer(client.at)]
    /\ UNCHANGED <<start, phase, open, site>>

\* Somebody installs, removes or locks a file meanwhile, or descriptors run out.
Deploy ==
    /\ client.at \in {"static"} \cup Files
    /\ Cardinality(was["page"]) + Cardinality(was["404.html"]) < MaxSeen
    /\ \E f \in Files, s \in FileStates :
          /\ pages[f] # s
          /\ pages' = [pages EXCEPT ![f] = s]
          /\ was' = [was EXCEPT ![f] = @ \cup {s}]
    /\ UNCHANGED <<start, phase, open, client>>
----------------------------------------------------------------------------
Next ==
    \/ LoadContext \/ ContextsLoaded \/ OpenPort \/ PortsOpened \/ Sigterm
    \/ \E k \in Kinds, n \in Names \cup {NoName} : \E p \in PortsOf(k) : Connect(k, p, n)
    \/ HandleHttp \/ FollowRedirect \/ HandleHttps
    \/ \E url \in Urls : ChooseLocation(url)
    \/ MapUrl \/ GetSite \/ Deploy

Spec == Init /\ [][Next]_vars
----------------------------------------------------------------------------
TypeOK ==
    /\ phase \in Startup \cup {"serving", "ended"} /\ item \in 1..Len(config) + 1
    /\ contexts \in [Names \cup {NoName} -> Hosts \cup {NoHost}] /\ default \in Hosts \cup {NoHost}
    /\ \A k \in Kinds : todo[k] \cup open[k] \subseteq PortsOf(k) /\ failed[k] \in PortsOf(k) \cup {0}
    /\ leaked \subseteq PortsOf("http") \cup PortsOf("https")
    /\ client.cert # NoHost => config[client.cert].loads
    /\ client.rule # 0 => client.rule \in DOMAIN config[client.host].rules
    /\ pages \in [Files -> FileStates] /\ was \in [Files -> SUBSET FileStates]

\* A port that cannot be had costs the larger ports of its kind and no other,
\* and no port is both kinds'.
FailureContained ==
    phase = "serving" =>
        /\ open["http"] \cap open["https"] = {}
        /\ \A k \in Kinds : (k = "http" \/ default # NoHost) =>
               open[k] = {p \in PortsOf(k) : failed[k] = 0 \/ p < failed[k]}

\* A TLS client sees a certificate of the name it asked for, if any loaded.
CertificateFits ==
    (client.cert # NoHost /\ \E i \in Named(client.name) : config[i].loads /\ client.name # NoName) =>
        config[client.cert].name = client.name

\* A client that was redirected arrives at the virtual host that redirected it,
\* with the certificate of that host: if the name is given once, the context
\* loaded, no https port failed and the server still runs.
RedirectLeadsHome ==
    LET home == client.home IN
    (home # NoHost /\ Named(client.name) = {home} /\ config[home].loads
        /\ failed["https"] = 0 /\ phase # "ended") =>
            /\ client.at # "refused"
            /\ client.at # "redirected" => client.cert = home
            /\ client.host \in {NoHost, home}

\* The location chosen is the longest that begins the URL, its last slash left
\* out, and of two as long the first; none is chosen only if none begins it.
LongestLocation ==
    client.at \in {"dropped", "proxied", "static"} /\ client.host # NoHost =>
        LET fits == {r \in DOMAIN config[client.host].rules :
                        \E n \in {Len(Path(r)), Len(Path(r)) - 1} :
                           /\ n = Len(Path(r)) - 1 <=> (Path(r) # <<>> /\ Last(Path(r)) = "/")
                           /\ n <= Len(client.url) /\ SubSeq(Path(r), 1, n) = SubSeq(client.url, 1, n)}
            best == {r \in fits : \A q \in fits : Len(Path(q)) <= Len(Path(r))}
        IN  client.rule = IF fits = {} THEN 0 ELSE Min(best)

\* What the answer tells a client was so at some moment of its request, whatever
\* changed between exists() and open(): content is the file's; the 404 page means that
\* the page was missing, a bare 404 that a file could not be opened or was missing, and
\* no answer that something was there which is no file.  While nothing changes this
\* fixes the answer.
PageOrNotFound ==
    LET page == was["page"]  notFound == was["404.html"] IN
    /\ client.at = "found" => "file" \in page
    /\ client.at = "found 404.html" => "absent" \in page /\ "file" \in notFound
    /\ client.at = "bare 404" =>
          \/ page \cap {"locked", "hidden"} # {}
          \/ "absent" \in page /\ (page # {"absent"} \/ notFound \ {"file", "directory"} # {})
    /\ client.at = "no answer" =>
          \/ page \cap {"directory", "hidden"} # {}
          \/ "absent" \in page /\ "directory" \in notFound
=============================================================================
