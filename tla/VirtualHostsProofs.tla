------------------------- MODULE VirtualHostsProofs -------------------------
(***************************************************************************)
(* The safety properties of VirtualHosts, for every set of configurations  *)
(* with any number of virtual hosts, ports and locations, and every set of *)
(* names and URLs.                                                         *)
(***************************************************************************)
EXTENDS VirtualHosts, ProofLemmas

AnyName == Names \cup {NoName}
AnyHost == Hosts \cup {NoHost}

Answers == {"found", "found 404.html", "bare 404", "no answer"}
Routed  == {"routed", "proxied", "static"} \cup Files \cup Answers
Places  == {"away", "http", "https", "refused", "redirected", "dropped"} \cup Routed

Clients == [at : Places, name : AnyName, port : Nat, home : AnyHost,
            cert : AnyHost, host : AnyHost, url : Urls \cup {<<>>}, rule : Nat]

Typed ==
    /\ config \in Configs /\ phase \in Startup \cup {"serving", "ended"}
    /\ item \in 1..(Len(config) + 1)
    /\ contexts \in [AnyName -> AnyHost] /\ default \in AnyHost
    /\ todo \in [Kinds -> SUBSET Nat] /\ open \in [Kinds -> SUBSET Nat]
    /\ failed \in [Kinds -> Nat]
    /\ client \in Clients
    /\ pages \in [Files -> FileStates] /\ was \in [Files -> SUBSET FileStates]

\* SNIContext's map: each name's context is one of that name and has loaded, and of
\* the hosts passed so far whoever loaded has one.
ContextsRight ==
    /\ \A n \in AnyName : contexts[n] # NoHost =>
           config[contexts[n]].name = n /\ config[contexts[n]].loads
    /\ \A i \in 1..(item - 1) : config[i].loads => contexts[config[i].name] # NoHost
    /\ phase \in {"http", "https", "serving"} =>
           /\ item = Len(config) + 1
           /\ (\E n \in AnyName : contexts[n] # NoHost) => default # NoHost
    /\ default # NoHost => config[default].loads

\* How far the loops over the sorted ports have come: without a failure all ports
\* tried are open and smaller than those to come, after one it is those below it.
PortsRight ==
    /\ \A k \in Kinds : /\ todo[k] \cup open[k] \subseteq PortsOf(k)
                        /\ failed[k] \in PortsOf(k) \cup {0}
    /\ leaked \subseteq PortsOf("http") \cup PortsOf("https")
    /\ phase # "ended" =>
           /\ open["http"] \cap open["https"] = {}
           /\ \A k \in Kinds :
                  IF failed[k] = 0
                  THEN /\ todo[k] \cup open[k] = PortsOf(k)
                       /\ \A p \in open[k], q \in todo[k] : p < q
                  ELSE todo[k] = {} /\ open[k] = {p \in PortsOf(k) : p < failed[k]}
           /\ phase \in {"https", "serving"} => todo["http"] = {}
           /\ phase = "serving" /\ default # NoHost => todo["https"] = {}

\* A client that is there came when everything was loaded; its certificate is the one
\* its name gets, and its virtual host the first of that name.
ClientRight ==
    /\ client.at # "away" => phase \in {"serving", "ended"} /\ item = Len(config) + 1
    /\ client.at = "away" => client.cert = NoHost
    /\ client.at \in {"away", "http", "https", "refused", "redirected"} =>
           client.host = NoHost /\ client.rule = 0
    /\ client.cert # NoHost => client.cert = Certificate(client.name)
    /\ client.at \in Routed => client.host # NoHost
    /\ client.host # NoHost => Named(client.name) # {} /\ client.host = Min(Named(client.name))
    /\ client.at = "routed" => client.rule = 0

\* A client on its way from a redirect comes to the host that redirected it.
HomeRight ==
    client.home # NoHost =>
        /\ client.at \notin {"away", "http"} /\ client.name # NoName
        /\ client.at = "redirected" => client.port \in PortsOf("https")
        /\ (Named(client.name) = {client.home} /\ config[client.home].loads
              /\ failed["https"] = 0 /\ phase # "ended") =>
               /\ client.at # "refused"
               /\ client.at # "redirected" => client.cert = client.home

\* What has been seen of the files: a request is at the page only if that was there,
\* and at www/404.html only if it was not.
FilesRight ==
    /\ \A f \in Files : pages[f] \in was[f]
    /\ client.at = "page" => was["page"] # {"absent"}
    /\ client.at = "404.html" => "absent" \in was["page"]
    /\ PageOrNotFound
----------------------------------------------------------------------------
LEMMA MinIsLeast ==
    ASSUME NEW S \in SUBSET Nat, S # {}
    PROVE  Min(S) \in S /\ \A m \in S : Min(S) <= m
BY LeastElement DEF Min

\* The virtual hosts and their ports are what the assumption says.
LEMMA Configured ==
    ASSUME config \in Configs
    PROVE  /\ Len(config) \in Nat /\ Hosts = 1..Len(config) /\ NoHost \notin Hosts
           /\ \A i \in Hosts : config[i].name \in AnyName /\ config[i].loads \in BOOLEAN
           /\ \A k \in Kinds : PortsOf(k) \subseteq Nat \ {0}
           /\ \A i \in Hosts, k \in Kinds : config[i].ports[k] # <<>> =>
                  Head(config[i].ports[k]) \in PortsOf(k)
<1>1. IsSequence(config)
  BY HostsAssumption
<1>2. Len(config) \in Nat /\ Hosts = 1..Len(config) /\ NoHost \notin Hosts
  BY <1>1, LenProperties DEF IsSequence, Hosts, NoHost
<1>3. \A i \in Hosts : config[i].name \in AnyName /\ config[i].loads \in BOOLEAN
  BY HostsAssumption DEF Hosts, AnyName
<1>4. \A i \in Hosts, k \in Kinds : config[i].ports[k] \in Seq(Nat \ {0})
  BY HostsAssumption DEF Hosts
<1>5. ASSUME NEW i \in Hosts, NEW k \in Kinds
      PROVE  /\ Range(config[i].ports[k]) \subseteq Nat \ {0}
             /\ config[i].ports[k] # <<>> => Head(config[i].ports[k]) \in Range(config[i].ports[k])
  <2> DEFINE s == config[i].ports[k]
  <2>1. s \in Seq(Nat \ {0})
    BY <1>4
  <2> HIDE DEF s
  <2>2. Len(s) \in Nat /\ DOMAIN s = 1..Len(s) /\ \A j \in 1..Len(s) : s[j] \in Nat \ {0}
    BY <2>1, LenProperties, ElementOfSeq
  <2>3. s # <<>> => Head(s) = s[1] /\ Len(s) \in Nat \ {0}
    BY <2>1, EmptySeq
  <2>4. Range(s) \subseteq Nat \ {0}
    BY <2>2 DEF Range
  <2>5. s # <<>> => Head(s) \in Range(s)
    BY <2>2, <2>3 DEF Range
  <2> QED
    BY <2>4, <2>5 DEF s
<1>6. \A k \in Kinds : PortsOf(k) \subseteq Nat \ {0}
  BY <1>5 DEF PortsOf
<1>7. \A i \in Hosts, k \in Kinds : config[i].ports[k] # <<>> =>
          Head(config[i].ports[k]) \in PortsOf(k)
  BY <1>5 DEF PortsOf
<1> QED
  BY <1>2, <1>3, <1>6, <1>7

\* A name that some host has is first given to one of them.
LEMMA FirstNamed ==
    ASSUME config \in Configs, NEW n, Named(n) # {}
    PROVE  Min(Named(n)) \in Named(n) /\ Min(Named(n)) \in Hosts
<1>1. Named(n) \in SUBSET Nat
  BY Configured DEF Named
<1> QED
  BY <1>1, MinIsLeast DEF Named

LEMMA CertificateTyped ==
    ASSUME Typed, NEW n \in AnyName
    PROVE  Certificate(n) \in AnyHost
BY DEF Certificate, Typed

\* What the events of a client do to it.
LEMMA ConnectedTyped ==
    ASSUME Typed, NEW k \in Kinds, NEW p \in Nat, NEW n \in AnyName
    PROVE  LET c == Connected(k, p, n) IN
           /\ c \in Clients /\ c.name = n /\ c.port = p /\ c.home = client.home
           /\ c.host = client.host /\ c.url = client.url /\ c.rule = client.rule
           /\ p \in open[k] => c.at = k /\ c.cert = IF k = "https" THEN Certificate(n) ELSE NoHost
           /\ p \notin open[k] => c.at = "refused" /\ c.cert = client.cert
<1>1. client \in Clients /\ Certificate(n) \in AnyHost /\ k \in {"http", "https"}
  BY CertificateTyped DEF Typed, Kinds
<1> QED
  BY <1>1 DEF Connected, Clients, Places, AnyHost
----------------------------------------------------------------------------
\* The choice of a location.  A fold is a recursive function over sets; the location it
\* keeps is at each step the best of those seen.
Rules == DOMAIN config[client.host].rules

Fits(url, r) == IsPrefix(Stripped(Path(r)), url)

\* b is the longest location among s that fits, and of several the first.
IsBest(url, s, b) ==
    \/ b = 0 /\ \A r \in s : ~Fits(url, r)
    \/ /\ b \in s /\ Fits(url, b)
       /\ \A r \in s : Fits(url, r) =>
              Len(Path(r)) < Len(Path(b)) \/ (Len(Path(r)) = Len(Path(b)) /\ b <= r)

Better(url, b, r) == IF Fits(url, r) /\ (b = 0 \/ Longer(r, b)) THEN r ELSE b

Folds(w, url) ==
    w = [s \in SUBSET (DOMAIN [r \in Rules |-> r]) |->
            IF s = {} THEN 0 ELSE Better(url, w[s \ {Max(s)}], [r \in Rules |-> r][Max(s)])]

\* The rules are numbered, and a location that fits is at most a slash longer than the URL.
LEMMA RuleFacts ==
    ASSUME config \in Configs, client.host \in Hosts, NEW url \in Urls
    PROVE  \E n \in Nat :
               /\ Rules = 1..n
               /\ \A r \in Rules : /\ Len(Path(r)) \in Nat
                                   /\ Fits(url, r) => Len(Path(r)) <= Len(url) + 1
               /\ Len(url) \in Nat
<1>1. IsSequence(config[client.host].rules) /\ IsSequence(url)
      /\ \A r \in Rules : IsSequence(Path(r))
  BY HostsAssumption DEF Hosts, Rules, Path
<1>2. Len(url) \in Nat /\ Len(config[client.host].rules) \in Nat
      /\ Rules = 1..Len(config[client.host].rules)
  BY <1>1, LenProperties DEF IsSequence, Rules
<1>3. ASSUME NEW r \in Rules
      PROVE  Len(Path(r)) \in Nat /\ (Fits(url, r) => Len(Path(r)) <= Len(url) + 1)
  <2> DEFINE p == Path(r)
  <2>1. p \in Seq(Range(p))
    BY <1>1 DEF IsSequence
  <2> HIDE DEF p
  <2>2. Len(p) \in Nat /\ \A i \in 1..Len(p) : p[i] \in Range(p)
    BY <2>1, LenProperties, ElementOfSeq
  <2>3. Len(p) # 0 => Len(Front(p)) = Len(p) - 1
    <3>1. \A i \in 1..(Len(p) - 1) : p[i] \in Range(p)
      BY <2>2
    <3>2. Len(Front(p)) = IF 1 <= Len(p) - 1 THEN (Len(p) - 1) - 1 + 1 ELSE 0
      BY <2>2, <3>1, SubSeqProperties DEF Front
    <3>3. \A l \in Nat : l # 0 => (IF 1 <= l - 1 THEN (l - 1) - 1 + 1 ELSE 0) = l - 1
      OBVIOUS
    <3> QED
      BY <2>2, <3>2, <3>3
  <2>4. p # <<>> => Len(p) # 0
    BY <2>1, EmptySeq
  <2>5. Len(Stripped(p)) = Len(p) \/ Len(Stripped(p)) = Len(p) - 1
    BY <2>3, <2>4 DEF Stripped
  <2>6. Fits(url, r) => Len(Stripped(p)) <= Len(url)
    BY DEF Fits, IsPrefix, p
  <2>7. Fits(url, r) => Len(p) <= Len(url) + 1
    BY <1>2, <2>2, <2>5, <2>6
  <2> QED
    BY <2>2, <2>7 DEF p
<1> QED
  BY <1>2, <1>3

LEMMA BestIsUnique ==
    ASSUME NEW url, NEW s \in SUBSET Nat, 0 \notin s, NEW b, NEW c,
           \A r \in s : Len(Path(r)) \in Nat, IsBest(url, s, b), IsBest(url, s, c)
    PROVE  b = c
<1>1. CASE b = 0 \/ c = 0
  BY <1>1 DEF IsBest
<1>2. CASE b # 0 /\ c # 0
  <2>1. b \in s /\ c \in s /\ Fits(url, b) /\ Fits(url, c)
    BY <1>2 DEF IsBest
  <2>2. Len(Path(c)) < Len(Path(b)) \/ (Len(Path(c)) = Len(Path(b)) /\ b <= c)
    BY <1>2, <2>1 DEF IsBest
  <2>3. Len(Path(b)) < Len(Path(c)) \/ (Len(Path(b)) = Len(Path(c)) /\ c <= b)
    BY <1>2, <2>1 DEF IsBest
  <2>4. Len(Path(b)) \in Nat /\ Len(Path(c)) \in Nat /\ b \in Nat /\ c \in Nat
    BY <2>1
  <2> QED
    BY <2>2, <2>3, <2>4
<1> QED
  BY <1>1, <1>2

LEMMA BestExists ==
    ASSUME NEW url, NEW s \in SUBSET Nat, NEW n \in Nat,
           \A r \in s : Len(Path(r)) \in Nat /\ (Fits(url, r) => Len(Path(r)) <= n)
    PROVE  \E b : IsBest(url, s, b)
<1>1. CASE \A r \in s : ~Fits(url, r)
  BY <1>1 DEF IsBest
<1>2. CASE \E r \in s : Fits(url, r)
  <2> DEFINE fits == {r \in s : Fits(url, r)}
             gaps == {n - Len(Path(r)) : r \in fits}
  <2>1. gaps \in SUBSET Nat /\ gaps # {}
    <3>1. \A r \in fits : n - Len(Path(r)) \in Nat
      BY DEF fits
    <3> QED
      BY <1>2, <3>1
  <2>2. PICK g \in gaps : \A h \in gaps : g <= h
    BY <2>1, LeastElement
  <2>3. PICK q \in fits : g = n - Len(Path(q))
    BY <2>2
  <2>4. \A r \in fits : Len(Path(r)) <= Len(Path(q))
    <3> SUFFICES ASSUME NEW r \in fits PROVE Len(Path(r)) <= Len(Path(q))
      OBVIOUS
    <3>1. n - Len(Path(q)) <= n - Len(Path(r))
      BY <2>2, <2>3
    <3>2. Len(Path(q)) \in Nat /\ Len(Path(r)) \in Nat
      BY DEF fits
    <3> QED
      BY <3>1, <3>2
  <2> DEFINE longest == {r \in fits : Len(Path(r)) = Len(Path(q))}
  <2>5. PICK b \in longest : \A r \in longest : b <= r
    <3>1. longest \in SUBSET Nat /\ longest # {}
      BY <2>3
    <3> QED
      BY <3>1, LeastElement
  <2>6. ASSUME NEW r \in s, Fits(url, r)
        PROVE  Len(Path(r)) < Len(Path(b)) \/ (Len(Path(r)) = Len(Path(b)) /\ b <= r)
    <3>1. Len(Path(r)) <= Len(Path(q)) /\ Len(Path(b)) = Len(Path(q))
          /\ Len(Path(r)) \in Nat /\ Len(Path(q)) \in Nat
      BY <2>3, <2>4, <2>5, <2>6
    <3>2. Len(Path(r)) = Len(Path(q)) => b <= r
      BY <2>5, <2>6
    <3> QED
      BY <3>1, <3>2
  <2> QED
    BY <2>5, <2>6 DEF IsBest
<1> QED
  BY <1>1, <1>2

\* One step of the fold.
LEMMA BetterIsBest ==
    ASSUME NEW url, NEW s \in SUBSET Nat, 0 \notin s, NEW m \in s, \A r \in s : r <= m,
           \A r \in s : Len(Path(r)) \in Nat, NEW b, IsBest(url, s \ {m}, b)
    PROVE  IsBest(url, s, Better(url, b, m))
<1>0. m \in Nat /\ Len(Path(m)) \in Nat
  OBVIOUS
<1>1. CASE ~Fits(url, m)
  BY <1>1 DEF IsBest, Better
<1>2. CASE Fits(url, m) /\ b = 0
  BY <1>0, <1>2 DEF IsBest, Better
<1>3. CASE Fits(url, m) /\ b # 0
  <2>1. b \in s \ {m} /\ Fits(url, b) /\ b \in Nat /\ Len(Path(b)) \in Nat /\ b <= m
    BY <1>3 DEF IsBest
  <2>2. ASSUME NEW r \in s \ {m}, Fits(url, r)
        PROVE  /\ Len(Path(r)) \in Nat
               /\ Len(Path(r)) < Len(Path(b)) \/ (Len(Path(r)) = Len(Path(b)) /\ b <= r)
    BY <1>3, <2>2 DEF IsBest
  <2>3. CASE Longer(m, b)
    <3>1. \A r \in s : Fits(url, r) =>
              Len(Path(r)) < Len(Path(m)) \/ (Len(Path(r)) = Len(Path(m)) /\ m <= r)
      BY <1>0, <2>1, <2>2, <2>3 DEF Longer
    <3> QED
      BY <1>3, <2>3, <3>1 DEF IsBest, Better
  <2>4. CASE ~Longer(m, b)
    <3>1. \A r \in s : Fits(url, r) =>
              Len(Path(r)) < Len(Path(b)) \/ (Len(Path(r)) = Len(Path(b)) /\ b <= r)
      BY <1>0, <2>1, <2>2, <2>4 DEF Longer
    <3> QED
      BY <1>3, <2>1, <2>4, <3>1 DEF IsBest, Better
  <2> QED
    BY <2>3, <2>4
<1> QED
  BY <1>1, <1>2, <1>3

\* A set of numbers with a bound has a largest element.
LEMMA MaxIsLargest ==
    ASSUME NEW n \in Nat, NEW s \in SUBSET (1..n), s # {}
    PROVE  Max(s) \in s /\ \A m \in s : m <= Max(s)
<1> DEFINE gaps == {n - m : m \in s}
<1>0. \A m \in s : m \in Nat /\ n - m \in Nat
  OBVIOUS
<1>1. gaps \in SUBSET Nat /\ gaps # {}
  BY <1>0
<1>2. PICK g \in gaps : \A h \in gaps : g <= h
  BY <1>1, LeastElement
<1>3. PICK q \in s : g = n - q
  BY <1>2
<1>4. \A m \in s : q >= m
  <2> SUFFICES ASSUME NEW m \in s PROVE q >= m
    OBVIOUS
  <2>1. n - q <= n - m /\ q \in Nat /\ m \in Nat
    BY <1>2, <1>3
  <2> QED
    BY <2>1
<1>5. \E x \in s : \A y \in s : x >= y
  BY <1>4
<1>6. Max(s) \in s /\ \A y \in s : Max(s) >= y
  BY <1>5 DEF Max
<1>7. \A a, b \in Nat : a >= b => b <= a
  OBVIOUS
<1> QED
  BY <1>0, <1>6, <1>7

LEMMA LocationIs ==
    ASSUME NEW url
    PROVE  Location(url) = (CHOOSE w : Folds(w, url))[DOMAIN [r \in Rules |-> r]]
BY Zenon DEF Location, Folds, FoldLeft, MapThenFoldSet, Better, Fits, Rules

\* newConnection() chooses the best location.
LEMMA LocationIsBest ==
    ASSUME config \in Configs, client.host \in Hosts, NEW url \in Urls
    PROVE  IsBest(url, Rules, Location(url)) /\ 0 \notin Rules
<1>1. PICK n \in Nat :
          /\ Rules = 1..n
          /\ \A r \in Rules : /\ Len(Path(r)) \in Nat
                              /\ Fits(url, r) => Len(Path(r)) <= Len(url) + 1
          /\ Len(url) \in Nat
  BY RuleFacts
<1>2. DOMAIN [r \in Rules |-> r] = Rules
  OBVIOUS
<1> DEFINE best == [s \in SUBSET Rules |-> CHOOSE b : IsBest(url, s, b)]
<1>3. ASSUME NEW s \in SUBSET Rules PROVE IsBest(url, s, best[s])
  <2>1. s \in SUBSET Nat /\ Len(url) + 1 \in Nat
        /\ \A r \in s : Len(Path(r)) \in Nat /\ (Fits(url, r) => Len(Path(r)) <= Len(url) + 1)
    BY <1>1
  <2>2. \E b : IsBest(url, s, b)
    BY <2>1, BestExists
  <2> QED
    BY <2>2
<1> HIDE DEF best
<1>4. ASSUME NEW s \in SUBSET Rules, s # {}
      PROVE  /\ Max(s) \in s /\ \A r \in s : r <= Max(s)
             /\ \A b : IsBest(url, s \ {Max(s)}, b) => IsBest(url, s, Better(url, b, Max(s)))
  <2>1. Max(s) \in s /\ \A r \in s : r <= Max(s)
    BY <1>1, <1>4, MaxIsLargest
  <2>2. s \in SUBSET Nat /\ 0 \notin s /\ \A r \in s : Len(Path(r)) \in Nat
    BY <1>1
  <2> QED
    BY <2>1, <2>2, BetterIsBest
<1>5. ASSUME NEW s \in SUBSET Rules
      PROVE  best[s] = IF s = {} THEN 0 ELSE Better(url, best[s \ {Max(s)}], Max(s))
  <2>1. CASE s = {}
    BY <1>3, <2>1 DEF IsBest
  <2>2. CASE s # {}
    <3>1. IsBest(url, s, Better(url, best[s \ {Max(s)}], Max(s)))
      BY <1>3, <1>4, <2>2
    <3>2. s \in SUBSET Nat /\ 0 \notin s /\ \A r \in s : Len(Path(r)) \in Nat
      BY <1>1
    <3> QED
      BY <1>3, <2>2, <3>1, <3>2, BestIsUnique
  <2> QED
    BY <2>1, <2>2
<1>6. Folds(best, url)
  <2>1. \A s \in SUBSET Rules : s # {} => [r \in Rules |-> r][Max(s)] = Max(s)
    BY <1>4
  <2>2. best = [s \in SUBSET Rules |->
                  IF s = {} THEN 0
                  ELSE Better(url, best[s \ {Max(s)}], [r \in Rules |-> r][Max(s)])]
    <3>1. best = [s \in SUBSET Rules |-> best[s]]
      BY DEF best
    <3> QED
      BY <1>5, <2>1, <3>1
  <2> QED
    BY <1>2, <2>2 DEF Folds
<1>7. ASSUME NEW w, Folds(w, url) PROVE IsBest(url, Rules, w[Rules])
  <2>1. \A s \in SUBSET Rules : w[s] =
            IF s = {} THEN 0 ELSE Better(url, w[s \ {Max(s)}], [r \in Rules |-> r][Max(s)])
    BY <1>2, <1>7 DEF Folds
  <2> DEFINE Good == {k \in Nat : k <= n => IsBest(url, 1..k, w[1..k])}
  <2>2. 0 \in Good
    <3>1. 1..0 = {} /\ {} \in SUBSET Rules
      OBVIOUS
    <3>2. w[{}] = 0
      BY <2>1, <3>1
    <3> QED
      BY <3>1, <3>2 DEF IsBest
  <2>3. ASSUME NEW k \in Good PROVE k + 1 \in Good
    <3>1. SUFFICES ASSUME k + 1 <= n PROVE IsBest(url, 1..(k + 1), w[1..(k + 1)])
      OBVIOUS
    <3> DEFINE s == 1..(k + 1)
    <3>2. /\ s \in SUBSET Rules /\ s # {} /\ k + 1 \in s /\ \A r \in s : r <= k + 1
          /\ s \ {k + 1} = 1..k /\ k <= n /\ k \in Nat
      <4>1. k \in Nat /\ k <= n /\ k + 1 \in s
        BY <3>1
      <4>2. \A r \in s : r \in 1..n /\ r <= k + 1
        BY <3>1, <4>1
      <4>3. s \ {k + 1} = 1..k
        <5>1. \A r : r \in s /\ r # k + 1 <=> r \in 1..k
          BY <4>1
        <5> QED
          BY <5>1
      <4> HIDE DEF s
      <4> QED
        BY <1>1, <4>1, <4>2, <4>3
    <3>3. Max(s) = k + 1
      <4>1. Max(s) \in s /\ k + 1 <= Max(s)
        BY <1>4, <3>2
      <4> QED
        BY <3>2, <4>1
    <3>4. w[s] = Better(url, w[1..k], k + 1)
      <4>1. [r \in Rules |-> r][Max(s)] = k + 1
        BY <3>2, <3>3
      <4> QED
        BY <2>1, <3>2, <3>3, <4>1
    <3> HIDE DEF s
    <3>5. IsBest(url, s \ {Max(s)}, w[1..k])
      BY <3>2, <3>3
    <3>6. IsBest(url, s, w[s])
      BY <1>4, <3>2, <3>3, <3>4, <3>5
    <3> QED
      BY <3>6 DEF s
  <2>4. Good = Nat
    <3> HIDE DEF Good
    <3>1. Good \in SUBSET Nat
      BY DEF Good
    <3> QED
      BY <2>2, <2>3, <3>1, InductiveSet
  <2> QED
    BY <1>1, <2>4
<1>8. Folds(CHOOSE w : Folds(w, url), url)
  BY <1>6
<1> QED
  BY <1>1, <1>2, <1>7, <1>8, LocationIs
----------------------------------------------------------------------------
\* The location of a client that has been given one.
RuleRight ==
    /\ client.rule # 0 => client.host # NoHost
    /\ client.host # NoHost /\ client.at # "routed" =>
           client.url \in Urls /\ IsBest(client.url, Rules, client.rule)

Inv == /\ Typed /\ ContextsRight /\ PortsRight
       /\ ClientRight /\ RuleRight /\ HomeRight /\ FilesRight

\* The configuration stays, and what is read from it with it.
LEMMA SameConfig ==
    ASSUME config' = config
    PROVE  /\ Hosts' = Hosts /\ AnyHost' = AnyHost /\ Clients' = Clients
           /\ \A n : Named(n)' = Named(n)
           /\ \A k : PortsOf(k)' = PortsOf(k)
BY DEF Hosts, AnyHost, Clients, Named, PortsOf

\* Files play no part as long as a request has not come to them.
LEMMA FilesUntouched ==
    ASSUME FilesRight, UNCHANGED site, client'.at \notin Files \cup Answers
    PROVE  FilesRight'
<1>1. pages' = pages /\ was' = was
  BY DEF site
<1> QED
  BY <1>1 DEF FilesRight, PageOrNotFound, Files, Answers

LEMMA InvInit == Init => Inv
<1> SUFFICES ASSUME Init PROVE Inv
  OBVIOUS
<1>1. /\ config \in Configs /\ phase = "load" /\ item = 1
      /\ contexts = [n \in AnyName |-> NoHost] /\ default = NoHost
      /\ todo = [k \in Kinds |-> PortsOf(k)] /\ open = [k \in Kinds |-> {}]
      /\ failed = [k \in Kinds |-> 0] /\ leaked = {}
      /\ client = [at |-> "away", name |-> NoName, port |-> 0, home |-> NoHost,
                   cert |-> NoHost, host |-> NoHost, url |-> <<>>, rule |-> 0]
      /\ pages = [f \in Files |-> "absent"] /\ was = [f \in Files |-> {"absent"}]
  BY DEF Init, AnyName
<1>2. /\ Len(config) \in Nat /\ NoHost \notin Hosts
      /\ \A k \in Kinds : PortsOf(k) \subseteq Nat \ {0}
  BY <1>1, Configured
<1>3. Typed
  <2>1. client \in Clients
    BY <1>1 DEF Clients, Places, AnyName, AnyHost, NoHost
  <2>2. item \in 1..(Len(config) + 1)
    BY <1>1, <1>2
  <2> QED
    BY <1>1, <1>2, <2>1, <2>2 DEF Typed, AnyHost, Startup, FileStates
<1>4. ContextsRight
  BY <1>1 DEF ContextsRight
<1>5. PortsRight
  BY <1>1 DEF PortsRight, Kinds
<1>6. ClientRight /\ RuleRight /\ HomeRight
  BY <1>1 DEF ClientRight, RuleRight, HomeRight, Routed, Answers, Files
<1>7. FilesRight
  BY <1>1 DEF FilesRight, PageOrNotFound
<1> QED
  BY <1>3, <1>4, <1>5, <1>6, <1>7 DEF Inv

\* While the server starts, or when it is told to stop, nothing happens to a client; and
\* nobody has come before it serves.
LEMMA ClientUntouched ==
    ASSUME Inv, UNCHANGED <<config, client, site>>,
           phase \in Startup \/ UNCHANGED <<contexts, default, item, failed>>,
           phase' \in Startup \cup {"serving", "ended"}, phase # "ended" \/ phase' = "ended",
           phase' \in Startup => phase \in Startup
    PROVE  ClientRight' /\ RuleRight' /\ HomeRight' /\ FilesRight'
<1>1. /\ client' = client /\ pages' = pages /\ was' = was /\ config' = config
      /\ \A n : Named(n)' = Named(n) /\ \A k : PortsOf(k)' = PortsOf(k)
  BY SameConfig DEF site
<1>2. FilesRight'
  BY <1>1 DEF Inv, FilesRight, PageOrNotFound
<1>3. RuleRight'
  BY <1>1 DEF Inv, RuleRight, IsBest, Fits, Path, Rules
<1>4. CASE phase \in Startup
  <2>1. client.at = "away"
    BY <1>4 DEF Inv, ClientRight, Startup
  <2>2. client.cert = NoHost /\ client.home = NoHost /\ client.host = NoHost /\ client.rule = 0
    BY <2>1 DEF Inv, ClientRight, HomeRight
  <2>3. ClientRight' /\ HomeRight'
    BY <1>1, <2>1, <2>2 DEF ClientRight, HomeRight, Routed, Answers, Files
  <2> QED
    BY <1>2, <1>3, <2>3
<1>5. CASE phase \notin Startup
  <2>1. UNCHANGED <<contexts, default, item, failed>>
    BY <1>5
  <2>2. phase \in {"serving", "ended"} /\ phase' \in {"serving", "ended"}
        /\ (phase' # "ended" => phase # "ended")
    BY <1>5 DEF Inv, Typed
  <2>3. ClientRight'
    BY <1>1, <2>1, <2>2 DEF Inv, ClientRight, Certificate
  <2>4. HomeRight'
    BY <1>1, <2>1, <2>2 DEF Inv, HomeRight
  <2> QED
    BY <1>2, <1>3, <2>3, <2>4
<1> QED
  BY <1>4, <1>5

LEMMA LoadStep ==
    ASSUME Inv, LoadContext \/ ContextsLoaded
    PROVE  Inv'
<1>0. Typed /\ ContextsRight /\ PortsRight /\ config' = config
  BY DEF Inv, LoadContext, ContextsLoaded
<1>1. /\ Hosts' = Hosts /\ AnyHost' = AnyHost /\ Clients' = Clients
      /\ \A k : PortsOf(k)' = PortsOf(k)
      /\ Len(config) \in Nat /\ Hosts = 1..Len(config) /\ NoHost \notin Hosts
      /\ \A i \in Hosts : config[i].name \in AnyName /\ config[i].loads \in BOOLEAN
      /\ item \in 1..(Len(config) + 1) /\ contexts \in [AnyName -> AnyHost]
  BY <1>0, SameConfig, Configured DEF Typed
<1>2. CASE LoadContext
  <2>1. /\ phase = "load" /\ item <= Len(config) /\ item' = item + 1
        /\ contexts' = IF config[item].loads THEN [contexts EXCEPT ![config[item].name] = item]
                       ELSE contexts
        /\ UNCHANGED <<config, phase, default, todo, open, failed, leaked, client, site>>
    BY <1>2 DEF LoadContext, Usable
  <2>2. item \in Hosts /\ item' \in 1..(Len(config) + 1)
        /\ \A i \in 1..(item' - 1) : i = item \/ i \in 1..(item - 1)
    BY <1>1, <2>1
  <2>3. Typed'
    BY <1>0, <1>1, <2>1, <2>2 DEF Typed, AnyHost, Clients, Hosts, site
  <2>4. ContextsRight'
    <3>1. \A n \in AnyName : contexts'[n] # NoHost =>
              config[contexts'[n]].name = n /\ config[contexts'[n]].loads
      BY <1>0, <1>1, <2>1, <2>2 DEF ContextsRight
    <3>2. \A i \in 1..(item' - 1) : config[i].loads => contexts'[config[i].name] # NoHost
      <4> SUFFICES ASSUME NEW i \in 1..(item' - 1), config[i].loads
                   PROVE  contexts'[config[i].name] # NoHost
        OBVIOUS
      <4>1. CASE i = item
        BY <1>1, <2>1, <2>2, <4>1
      <4>2. CASE i # item
        <5>1. i \in 1..(item - 1)
          BY <2>2, <4>2
        <5>2. contexts[config[i].name] # NoHost
          BY <1>0, <5>1 DEF ContextsRight
        <5> QED
          BY <1>1, <2>1, <2>2, <5>2
      <4> QED
        BY <4>1, <4>2
    <3> QED
      BY <1>0, <2>1, <3>1, <3>2 DEF ContextsRight
  <2>5. PortsRight'
    BY <1>0, <1>1, <2>1 DEF PortsRight
  <2>6. ClientRight' /\ RuleRight' /\ HomeRight' /\ FilesRight'
    BY <2>1, ClientUntouched DEF Startup
  <2> QED
    BY <2>3, <2>4, <2>5, <2>6 DEF Inv
<1>3. CASE ContextsLoaded
  <2>1. /\ phase = "load" /\ item > Len(config) /\ phase' = "http" /\ default' \in AnyHost
        /\ default' # NoHost => config[default'].loads
        /\ (\E n \in AnyName : contexts[n] # NoHost) => default' # NoHost
        /\ UNCHANGED <<config, item, contexts, todo, open, failed, leaked, client, site>>
    <3>1. DOMAIN contexts = AnyName
      BY <1>1
    <3> QED
      BY <1>0, <1>1, <1>3, <3>1 DEF ContextsLoaded, ContextsRight, AnyHost
  <2>2. item = Len(config) + 1
    BY <1>1, <2>1
  <2>3. Typed'
    BY <1>0, <1>1, <2>1 DEF Typed, Startup, site
  <2>4. ContextsRight'
    BY <1>0, <2>1, <2>2 DEF ContextsRight
  <2>5. PortsRight'
    BY <1>0, <1>1, <2>1 DEF PortsRight
  <2>6. ClientRight' /\ RuleRight' /\ HomeRight' /\ FilesRight'
    BY <2>1, ClientUntouched DEF Startup
  <2> QED
    BY <2>3, <2>4, <2>5, <2>6 DEF Inv
<1> QED
  BY <1>2, <1>3

LEMMA PortStep ==
    ASSUME Inv, OpenPort \/ PortsOpened \/ Sigterm
    PROVE  Inv'
<1>0. Typed /\ ContextsRight /\ PortsRight /\ config' = config
  BY DEF Inv, OpenPort, PortsOpened, Sigterm, start
<1>1. /\ Hosts' = Hosts /\ AnyHost' = AnyHost /\ Clients' = Clients
      /\ \A k : PortsOf(k)' = PortsOf(k)
      /\ \A k \in Kinds : PortsOf(k) \subseteq Nat \ {0}
  BY <1>0, SameConfig, Configured DEF Typed
<1>2. CASE OpenPort
  <2> DEFINE p == Min(todo[phase])
  <2>1. /\ phase \in Kinds /\ todo[phase] # {}
        /\ UNCHANGED <<config, phase, item, contexts, default, client, site>>
    BY <1>2 DEF OpenPort
  <2>2. p \in todo[phase] /\ (\A q \in todo[phase] : p <= q) /\ todo[phase] \subseteq Nat
        /\ p \in PortsOf(phase) /\ p \in Nat \ {0}
    <3>1. todo[phase] \in SUBSET Nat /\ todo[phase] \subseteq PortsOf(phase)
      BY <1>0, <2>1 DEF Typed, PortsRight
    <3> QED
      BY <1>1, <2>1, <3>1, MinIsLeast
  <2> HIDE DEF p
  <2>3. \/ /\ p \notin open["http"] \cup open["https"]
           /\ open' = [open EXCEPT ![phase] = @ \cup {p}]
           /\ todo' = [todo EXCEPT ![phase] = @ \ {p}]
           /\ UNCHANGED <<failed, leaked>>
        \/ /\ todo' = [todo EXCEPT ![phase] = {}]
           /\ failed' = [failed EXCEPT ![phase] = p]
           /\ leaked' \subseteq leaked \cup {p}
           /\ UNCHANGED open
    BY <1>2 DEF OpenPort, AfterFailure, p
  <2>4. /\ failed[phase] = 0 /\ phase # "ended"
        /\ todo[phase] \cup open[phase] = PortsOf(phase)
        /\ \A r \in open[phase], q \in todo[phase] : r < q
        /\ open[phase] \subseteq Nat
    BY <1>0, <2>1 DEF PortsRight, Kinds, Typed
  <2>5. Typed'
    <3>1. /\ todo \in [Kinds -> SUBSET Nat] /\ open \in [Kinds -> SUBSET Nat]
          /\ failed \in [Kinds -> Nat]
      BY <1>0 DEF Typed
    <3>2. /\ todo' \in [Kinds -> SUBSET Nat] /\ open' \in [Kinds -> SUBSET Nat]
          /\ failed' \in [Kinds -> Nat]
      BY <2>1, <2>2, <2>3, <2>4, <3>1
    <3> QED
      BY <1>0, <1>1, <2>1, <3>2 DEF Typed, site
  <2>6. ContextsRight'
    BY <1>0, <2>1 DEF ContextsRight
  <2>7. PortsRight'
    <3>1. CASE /\ p \notin open["http"] \cup open["https"]
               /\ open' = [open EXCEPT ![phase] = @ \cup {p}]
               /\ todo' = [todo EXCEPT ![phase] = @ \ {p}]
               /\ UNCHANGED <<failed, leaked>>
      <4>1. /\ \A k \in Kinds \ {phase} : open'[k] = open[k] /\ todo'[k] = todo[k]
            /\ open'[phase] = open[phase] \cup {p} /\ todo'[phase] = todo[phase] \ {p}
            /\ failed' = failed /\ leaked' = leaked
        BY <1>0, <2>1, <3>1 DEF Typed
      <4>2. todo'[phase] \cup open'[phase] = PortsOf(phase)
        BY <2>2, <2>4, <4>1
      <4>3. \A r \in open'[phase], q \in todo'[phase] : r < q
        <5>1. \A q \in todo'[phase] : p < q
          BY <2>2, <4>1
        <5> QED
          BY <2>4, <4>1, <5>1
      <4>4. open'["http"] \cap open'["https"] = {}
        BY <1>0, <2>1, <2>4, <3>1, <4>1 DEF PortsRight, Kinds
      <4>5. phase' = "https" => todo'["http"] = {}
        BY <1>0, <2>1, <4>1 DEF PortsRight, Kinds
      <4>6. phase' \in {"http", "https"}
        BY <2>1 DEF Kinds
      <4>7. \A k \in Kinds : /\ todo'[k] \cup open'[k] \subseteq PortsOf(k)
                             /\ failed'[k] \in PortsOf(k) \cup {0}
        BY <1>0, <4>1, <4>2 DEF PortsRight
      <4>8. \A k \in Kinds :
                IF failed'[k] = 0
                THEN /\ todo'[k] \cup open'[k] = PortsOf(k)
                     /\ \A r \in open'[k], q \in todo'[k] : r < q
                ELSE todo'[k] = {} /\ open'[k] = {r \in PortsOf(k) : r < failed'[k]}
        BY <1>0, <2>4, <4>1, <4>2, <4>3 DEF PortsRight
      <4> QED
        BY <1>0, <1>1, <4>1, <4>4, <4>5, <4>6, <4>7, <4>8 DEF PortsRight
    <3>2. CASE /\ todo' = [todo EXCEPT ![phase] = {}]
               /\ failed' = [failed EXCEPT ![phase] = p]
               /\ leaked' \subseteq leaked \cup {p}
               /\ UNCHANGED open
      <4>1. /\ \A k \in Kinds \ {phase} : failed'[k] = failed[k] /\ todo'[k] = todo[k]
            /\ failed'[phase] = p /\ todo'[phase] = {} /\ open' = open
        BY <1>0, <2>1, <3>2 DEF Typed
      <4>2. open[phase] = {r \in PortsOf(phase) : r < p}
        <5>1. \A r \in open[phase] : r < p
          BY <2>2, <2>4
        <5>2. \A r \in todo[phase] : ~(r < p)
          BY <2>2
        <5> QED
          BY <2>4, <5>1, <5>2
      <4>3. phase' \in {"http", "https"} /\ phase' = phase
        BY <2>1 DEF Kinds
      <4>4. /\ phase' = "https" => todo'["http"] = {}
            /\ open'["http"] \cap open'["https"] = {}
        BY <1>0, <2>1, <2>4, <4>1 DEF PortsRight, Kinds
      <4>5. leaked' \subseteq PortsOf("http") \cup PortsOf("https")
        BY <1>0, <2>1, <2>2, <3>2 DEF PortsRight, Kinds
      <4>6. \A k \in Kinds : /\ todo'[k] \cup open'[k] \subseteq PortsOf(k)
                             /\ failed'[k] \in PortsOf(k) \cup {0}
        BY <1>0, <2>2, <4>1 DEF PortsRight
      <4>7. \A k \in Kinds :
                IF failed'[k] = 0
                THEN /\ todo'[k] \cup open'[k] = PortsOf(k)
                     /\ \A r \in open'[k], q \in todo'[k] : r < q
                ELSE todo'[k] = {} /\ open'[k] = {r \in PortsOf(k) : r < failed'[k]}
        BY <1>0, <2>2, <2>4, <4>1, <4>2 DEF PortsRight
      <4> QED
        BY <1>0, <1>1, <4>3, <4>4, <4>5, <4>6, <4>7 DEF PortsRight
    <3> QED
      BY <2>3, <3>1, <3>2
  <2>8. ClientRight' /\ RuleRight' /\ HomeRight' /\ FilesRight'
    BY <2>1, ClientUntouched DEF Startup, Kinds
  <2> QED
    BY <2>5, <2>6, <2>7, <2>8 DEF Inv
<1>3. CASE PortsOpened
  <2>1. /\ phase \in Kinds /\ todo[phase] = {}
        /\ phase' = IF phase = "http" /\ default # NoHost THEN "https" ELSE "serving"
        /\ UNCHANGED <<config, item, contexts, default, todo, failed, leaked, open, client, site>>
    BY <1>3 DEF PortsOpened, start
  <2>2. Typed'
    BY <1>0, <1>1, <2>1 DEF Typed, Startup, site
  <2>3. ContextsRight'
    BY <1>0, <2>1 DEF ContextsRight, Kinds
  <2>4. PortsRight'
    BY <1>0, <1>1, <2>1 DEF PortsRight, Kinds
  <2>5. ClientRight' /\ RuleRight' /\ HomeRight' /\ FilesRight'
    BY <2>1, ClientUntouched DEF Startup, Kinds
  <2> QED
    BY <2>2, <2>3, <2>4, <2>5 DEF Inv
<1>4. CASE Sigterm
  <2>1. /\ phase' = "ended" /\ open' = [k \in Kinds |-> {}] /\ phase # "ended"
        /\ UNCHANGED <<config, item, contexts, default, todo, failed, leaked, client, site>>
    BY <1>4 DEF Sigterm, start, Startup
  <2>2. Typed'
    BY <1>0, <1>1, <2>1 DEF Typed, Startup, site
  <2>3. ContextsRight'
    BY <1>0, <2>1 DEF ContextsRight
  <2>4. PortsRight'
    BY <1>0, <1>1, <2>1 DEF PortsRight
  <2>5. ClientRight' /\ RuleRight' /\ HomeRight' /\ FilesRight'
    BY <2>1, ClientUntouched DEF Startup
  <2> QED
    BY <2>2, <2>3, <2>4, <2>5 DEF Inv
<1> QED
  BY <1>2, <1>3, <1>4

\* What happens to a client leaves contexts and ports alone.
LEMMA StartUntouched ==
    ASSUME Inv, UNCHANGED <<start, phase, open>>, client' \in Clients,
           pages' \in [Files -> FileStates], was' \in [Files -> SUBSET FileStates]
    PROVE  /\ Typed' /\ ContextsRight' /\ PortsRight' /\ config' = config
           /\ \A n : Named(n)' = Named(n) /\ Certificate(n)' = Certificate(n)
           /\ \A k : PortsOf(k)' = PortsOf(k)
           /\ UNCHANGED <<config, item, contexts, default, todo, failed, leaked>>
<1>1. /\ UNCHANGED <<config, item, contexts, default, todo, failed, leaked>>
      /\ Hosts' = Hosts /\ AnyHost' = AnyHost /\ Clients' = Clients
      /\ \A n : Named(n)' = Named(n) /\ \A k : PortsOf(k)' = PortsOf(k)
  BY SameConfig DEF start
<1>2. Typed'
  BY <1>1 DEF Inv, Typed
<1>3. ContextsRight'
  BY <1>1 DEF Inv, ContextsRight
<1>4. PortsRight'
  BY <1>1 DEF Inv, PortsRight
<1> QED
  BY <1>1, <1>2, <1>3, <1>4 DEF Certificate

\* A host that is the only one of its name, whose context loaded and whose kind of port
\* did not fail has its certificate in use and its ports open.
LEMMA HomeIsServed ==
    ASSUME Inv, NEW n \in Names, NEW h \in Hosts, Named(n) = {h}, config[h].loads,
           failed["https"] = 0, phase = "serving"
    PROVE  Certificate(n) = h /\ open["https"] = PortsOf("https")
<1>1. /\ Typed /\ ContextsRight /\ PortsRight /\ n # NoName /\ n \in AnyName
      /\ config[h].name = n /\ Hosts = 1..Len(config) /\ item = Len(config) + 1
      /\ Len(config) \in Nat
  BY HostsAssumption, Configured DEF Inv, Named, AnyName, ContextsRight, Typed
<1>2. contexts[n] # NoHost
  <2>1. h \in 1..(item - 1)
    BY <1>1
  <2> QED
    BY <1>1, <2>1 DEF ContextsRight
<1>3. contexts[n] = h
  <2>1. contexts[n] \in Hosts /\ config[contexts[n]].name = n
    BY <1>1, <1>2 DEF ContextsRight, Typed, AnyHost
  <2> QED
    BY <2>1 DEF Named
<1>4. default # NoHost
  BY <1>1, <1>2 DEF ContextsRight
<1>5. open["https"] = PortsOf("https")
  BY <1>1, <1>4 DEF PortsRight, Kinds
<1> QED
  BY <1>1, <1>2, <1>3, <1>5 DEF Certificate

LEMMA ConnectStep ==
    ASSUME Inv, NEW k \in Kinds, NEW n \in AnyName, NEW p \in PortsOf(k), Connect(k, p, n)
    PROVE  Inv'
<1>1. /\ phase = "serving" /\ client.at = "away" /\ client' = Connected(k, p, n)
      /\ UNCHANGED <<start, phase, open, site>> /\ p \in Nat /\ Typed
  BY Configured DEF Connect, Inv, Typed
<1>2. /\ client' \in Clients /\ client'.name = n /\ client'.home = client.home
      /\ client'.host = client.host /\ client'.rule = client.rule
      /\ \/ client'.at = k /\ client'.cert = IF k = "https" THEN Certificate(n) ELSE NoHost
         \/ client'.at = "refused" /\ client'.cert = client.cert
  BY <1>1, ConnectedTyped
<1>3. /\ client.home = NoHost /\ client.cert = NoHost /\ client.host = NoHost /\ client.rule = 0
      /\ item = Len(config) + 1
  BY <1>1 DEF Inv, HomeRight, ClientRight, ContextsRight
<1>4. /\ Typed' /\ ContextsRight' /\ PortsRight' /\ config' = config /\ item' = item
      /\ Certificate(n)' = Certificate(n)
  BY <1>1, <1>2, StartUntouched DEF Typed, site
<1>5. client'.at \in {"http", "https", "refused"}
  BY <1>2 DEF Kinds
<1>6. ClientRight'
  BY <1>1, <1>2, <1>3, <1>4, <1>5 DEF ClientRight, Routed, Answers, Files
<1>7. RuleRight' /\ HomeRight'
  BY <1>2, <1>3 DEF RuleRight, HomeRight
<1>8. FilesRight'
  BY <1>1, <1>5, FilesUntouched DEF Inv, Files, Answers
<1> QED
  BY <1>4, <1>6, <1>7, <1>8 DEF Inv

\* The client is given to the first virtual host of its name, or to none.
LEMMA DispatchStep ==
    ASSUME Inv, client.at \in {"http", "https"}, Dispatch, UNCHANGED <<start, phase, open, site>>
    PROVE  Inv'
<1>0. client \in Clients /\ config \in Configs
  BY DEF Inv, Typed
<1>1. /\ client' \in Clients /\ client'.name = client.name /\ client'.home = client.home
      /\ client'.cert = client.cert /\ client'.rule = client.rule
      /\ \/ client'.at = "dropped" /\ client'.host = client.host
         \/ /\ client'.at = "routed" /\ client'.host = Min(Named(client.name))
            /\ Named(client.name) # {} /\ client'.host \in Hosts
  <2>1. CASE client.name = NoName \/ Named(client.name) = {}
    BY <1>0, <2>1 DEF Dispatch, Clients, Places
  <2>2. CASE ~(client.name = NoName \/ Named(client.name) = {})
    <3>1. Min(Named(client.name)) \in Hosts
      BY <1>0, <2>2, FirstNamed
    <3>2. client' = [client EXCEPT !.at = "routed", !.host = Min(Named(client.name))]
      BY <2>2 DEF Dispatch
    <3> HIDE DEF Named
    <3> QED
      BY <1>0, <2>2, <3>1, <3>2 DEF Clients, Places, Routed, Answers, AnyHost
  <2> QED
    BY <2>1, <2>2
<1>2. client.host = NoHost /\ client.rule = 0 /\ phase \in {"serving", "ended"}
      /\ item = Len(config) + 1 /\ NoHost \notin Hosts
  BY <1>0, Configured DEF Inv, ClientRight
<1>3. /\ Typed' /\ ContextsRight' /\ PortsRight' /\ config' = config /\ item' = item
      /\ \A n : Named(n)' = Named(n) /\ Certificate(n)' = Certificate(n)
      /\ failed' = failed /\ phase' = phase
  BY <1>1, StartUntouched DEF Inv, Typed, site
<1>4. ClientRight'
  BY <1>1, <1>2, <1>3 DEF Inv, ClientRight, Routed, Answers, Files
<1>5. RuleRight'
  BY <1>1, <1>2 DEF RuleRight
<1>6. HomeRight'
  BY <1>1, <1>3 DEF Inv, HomeRight
<1>7. FilesRight'
  BY <1>1, FilesUntouched DEF Inv, Files, Answers
<1> QED
  BY <1>3, <1>4, <1>5, <1>6, <1>7 DEF Inv

LEMMA HandleStep ==
    ASSUME Inv, HandleHttp \/ HandleHttps
    PROVE  Inv'
<1>1. CASE HandleHttps \/ (HandleHttp /\ Dispatch)
  BY <1>1, DispatchStep DEF HandleHttp, HandleHttps
<1>2. CASE HandleHttp /\ ~Dispatch
  <2> DEFINE i == Min(Redirectors)
  <2>0. client \in Clients /\ config \in Configs
    BY DEF Inv, Typed
  <2>1. /\ client.at = "http" /\ client.name # NoName /\ Redirectors # {}
        /\ client' = [client EXCEPT !.at = "redirected", !.home = i,
                                    !.port = Head(config[i].ports["https"])]
        /\ UNCHANGED <<start, phase, open, site>>
    BY <1>2 DEF HandleHttp
  <2>2. i \in Hosts /\ config[i].ports["https"] # <<>>
    <3>1. Redirectors \in SUBSET Nat
      BY <2>0, Configured DEF Redirectors, Named
    <3> QED
      BY <2>1, <3>1, MinIsLeast DEF Redirectors, Named
  <2>3. Head(config[i].ports["https"]) \in PortsOf("https") /\ PortsOf("https") \subseteq Nat
    BY <2>0, <2>2, Configured DEF Kinds
  <2> HIDE DEF i
  <2>4. /\ client' \in Clients /\ client'.name = client.name /\ client'.at = "redirected"
        /\ client'.cert = client.cert /\ client'.rule = client.rule /\ client'.host = client.host
        /\ client'.port \in PortsOf("https")
    BY <2>0, <2>1, <2>2, <2>3 DEF Clients, Places, AnyHost
  <2>5. client.host = NoHost /\ client.rule = 0 /\ phase \in {"serving", "ended"}
        /\ item = Len(config) + 1
    BY <2>1 DEF Inv, ClientRight
  <2>6. /\ Typed' /\ ContextsRight' /\ PortsRight' /\ config' = config /\ item' = item
        /\ \A n : Named(n)' = Named(n) /\ Certificate(n)' = Certificate(n)
        /\ \A k : PortsOf(k)' = PortsOf(k)
        /\ phase' = phase
    BY <2>1, <2>4, StartUntouched DEF Inv, Typed, site
  <2>7. ClientRight'
    BY <2>4, <2>5, <2>6 DEF Inv, ClientRight, Routed, Answers, Files
  <2>8. RuleRight'
    BY <2>4, <2>5 DEF RuleRight
  <2>9. HomeRight'
    BY <2>1, <2>4, <2>6 DEF HomeRight
  <2>10. FilesRight'
    BY <2>1, <2>4, FilesUntouched DEF Inv, Files, Answers
  <2> QED
    BY <2>6, <2>7, <2>8, <2>9, <2>10 DEF Inv
<1> QED
  BY <1>1, <1>2

LEMMA FollowStep ==
    ASSUME Inv, FollowRedirect
    PROVE  Inv'
<1>0. Typed /\ client \in Clients /\ config \in Configs
  BY DEF Inv, Typed
<1>1. /\ client.at = "redirected" /\ client' = Connected("https", client.port, client.name)
      /\ UNCHANGED <<start, phase, open, site>>
      /\ client.name \in AnyName /\ client.port \in Nat /\ client.home \in AnyHost
  BY <1>0 DEF FollowRedirect, Clients
<1>2. /\ client' \in Clients /\ client'.name = client.name /\ client'.home = client.home
      /\ client'.host = client.host /\ client'.rule = client.rule
      /\ client.port \in open["https"] => client'.at = "https" /\ client'.cert = Certificate(client.name)
      /\ client.port \notin open["https"] => client'.at = "refused" /\ client'.cert = client.cert
  BY <1>0, <1>1, ConnectedTyped DEF Kinds
<1>3. client.host = NoHost /\ client.rule = 0 /\ phase \in {"serving", "ended"}
      /\ item = Len(config) + 1
  BY <1>1 DEF Inv, ClientRight
<1>4. /\ Typed' /\ ContextsRight' /\ PortsRight' /\ config' = config /\ item' = item
      /\ \A n : Named(n)' = Named(n) /\ Certificate(n)' = Certificate(n)
      /\ failed' = failed /\ phase' = phase
  BY <1>1, <1>2, StartUntouched DEF Inv, Typed, site
<1>5. client'.at \in {"https", "refused"}
  BY <1>2
<1>6. ClientRight'
  BY <1>2, <1>3, <1>4, <1>5 DEF Inv, ClientRight, Routed, Answers, Files
<1>7. RuleRight'
  BY <1>2, <1>3 DEF RuleRight
<1>8. HomeRight'
  <2>1. SUFFICES ASSUME client.home # NoHost PROVE HomeRight'
    BY <1>2 DEF HomeRight
  <2>2. client.name # NoName /\ client.port \in PortsOf("https")
    BY <1>1, <2>1 DEF Inv, HomeRight
  <2>3. ASSUME Named(client.name) = {client.home}, config[client.home].loads,
               failed["https"] = 0, phase # "ended"
        PROVE  client'.at = "https" /\ client'.cert = client.home
    <3>1. client.name \in Names /\ client.home \in Hosts /\ phase = "serving"
      BY <1>1, <1>3, <2>1, <2>2, <2>3 DEF AnyName, AnyHost
    <3>2. Certificate(client.name) = client.home /\ open["https"] = PortsOf("https")
      BY <2>3, <3>1, HomeIsServed
    <3> QED
      BY <1>2, <2>2, <3>2
  <2> QED
    BY <1>2, <1>4, <1>5, <2>2, <2>3 DEF HomeRight
<1>9. FilesRight'
  BY <1>5, FilesUntouched DEF Inv, Files, Answers, FollowRedirect
<1> QED
  BY <1>4, <1>6, <1>7, <1>8, <1>9 DEF Inv

LEMMA LocationStep ==
    ASSUME Inv, NEW url \in Urls, ChooseLocation(url)
    PROVE  Inv'
<1>0. client \in Clients /\ config \in Configs
  BY DEF Inv, Typed
<1> DEFINE r == Location(url)
<1>1. /\ client.at = "routed" /\ UNCHANGED <<start, phase, open>>
      /\ pages' \in [Files -> FileStates] /\ was' \in [Files -> SUBSET FileStates]
      /\ UNCHANGED site \/ \A f \in Files : pages'[f] \in was'[f]
      /\ \E a \in {"dropped", "proxied", "static"} :
             client' = [client EXCEPT !.url = url, !.rule = r, !.at = a]
  <2>1. pages \in [Files -> FileStates] /\ was \in [Files -> SUBSET FileStates]
    BY DEF Inv, Typed
  <2>2. UNCHANGED site \/ /\ pages' \in [Files -> FileStates]
                          /\ was' = [f \in Files |-> {pages'[f]}]
    BY DEF ChooseLocation
  <2>3. /\ pages' \in [Files -> FileStates] /\ was' \in [Files -> SUBSET FileStates]
        /\ UNCHANGED site \/ \A f \in Files : pages'[f] \in was'[f]
    BY <2>1, <2>2 DEF site
  <2> QED
    BY <2>3 DEF ChooseLocation
<1>2. client.host \in Hosts /\ client.host # NoHost /\ NoHost \notin Hosts
      /\ phase \in {"serving", "ended"} /\ item = Len(config) + 1
  <2>1. /\ client.host # NoHost /\ phase \in {"serving", "ended"} /\ item = Len(config) + 1
    BY <1>1 DEF Inv, ClientRight, Routed, Answers
  <2>2. client.host \in AnyHost
    BY <1>0 DEF Clients
  <2> QED
    BY <1>0, <2>1, <2>2, Configured DEF AnyHost
<1>3. IsBest(url, Rules, r) /\ r \in Nat
  <2>1. IsBest(url, Rules, r)
    BY <1>0, <1>2, LocationIsBest
  <2>2. Rules \subseteq Nat
    BY <1>0, <1>2, RuleFacts
  <2>3. r = 0 \/ r \in Rules
    BY <2>1 DEF IsBest
  <2>4. r \in Nat
    <3> HIDE DEF r
    <3>1. CASE r = 0
      BY <3>1
    <3>2. CASE r \in Rules
      BY <2>2, <3>2
    <3> QED
      BY <2>3, <3>1, <3>2
  <2> QED
    BY <2>1, <2>4
<1> HIDE DEF r
<1>4. /\ client' \in Clients /\ client'.name = client.name /\ client'.home = client.home
      /\ client'.cert = client.cert /\ client'.host = client.host
      /\ client'.url = url /\ client'.rule = r /\ client'.at \in {"dropped", "proxied", "static"}
  BY <1>0, <1>1, <1>3 DEF Clients, Places, Routed, Answers
<1>5. /\ Typed' /\ ContextsRight' /\ PortsRight' /\ config' = config /\ item' = item
      /\ \A n : Named(n)' = Named(n) /\ Certificate(n)' = Certificate(n)
      /\ failed' = failed /\ phase' = phase
  BY <1>1, <1>4, StartUntouched DEF Inv, Typed
<1>6. ClientRight'
  BY <1>1, <1>2, <1>4, <1>5 DEF Inv, ClientRight, Routed, Answers, Files
<1>7. RuleRight'
  BY <1>2, <1>3, <1>4, <1>5 DEF RuleRight, IsBest, Fits, Path, Rules
<1>8. HomeRight'
  BY <1>1, <1>4, <1>5 DEF Inv, HomeRight
<1>9. FilesRight'
  BY <1>1, <1>4, FilesUntouched DEF Inv, FilesRight, PageOrNotFound, Files, Answers
<1> QED
  BY <1>5, <1>6, <1>7, <1>8, <1>9 DEF Inv

LEMMA FileStep ==
    ASSUME Inv, MapUrl \/ GetSite \/ Deploy
    PROVE  Inv'
<1>0. /\ client \in Clients /\ config \in Configs
      /\ pages \in [Files -> FileStates] /\ was \in [Files -> SUBSET FileStates]
  BY DEF Inv, Typed
<1>1. /\ client.at \in {"static", "page", "404.html"}
      /\ UNCHANGED <<start, phase, open>>
      /\ pages' \in [Files -> FileStates] /\ was' \in [Files -> SUBSET FileStates]
      /\ client' = client \/ \E a \in Answers \cup Files : client' = [client EXCEPT !.at = a]
  <2>1. CASE MapUrl
    BY <1>0, <2>1 DEF MapUrl, UrlPath, Answers, Files, site
  <2>2. CASE GetSite
    <3>1. Answer(client.at) \in Answers
      BY DEF Answer, Answers
    <3> QED
      BY <1>0, <2>2, <3>1 DEF GetSite, Files, site
  <2>3. CASE Deploy
    <3>1. PICK f \in Files, t \in FileStates :
              pages' = [pages EXCEPT ![f] = t] /\ was' = [was EXCEPT ![f] = @ \cup {t}]
      BY <2>3 DEF Deploy
    <3> QED
      BY <1>0, <2>3, <3>1 DEF Deploy, Files
  <2> QED
    BY <2>1, <2>2, <2>3
<1>2. /\ client' \in Clients /\ client'.name = client.name /\ client'.home = client.home
      /\ client'.cert = client.cert /\ client'.host = client.host
      /\ client'.url = client.url /\ client'.rule = client.rule
      /\ client'.at \in Routed /\ client'.at # "routed"
  BY <1>0, <1>1 DEF Clients, Places, Routed, Answers, Files
<1>3. client.host # NoHost /\ phase \in {"serving", "ended"} /\ item = Len(config) + 1
  BY <1>1 DEF Inv, ClientRight, Routed, Answers, Files
<1>4. /\ Typed' /\ ContextsRight' /\ PortsRight' /\ config' = config /\ item' = item
      /\ \A n : Named(n)' = Named(n) /\ Certificate(n)' = Certificate(n)
      /\ failed' = failed /\ phase' = phase
  BY <1>1, <1>2, StartUntouched
<1>5. ClientRight'
  BY <1>1, <1>2, <1>3, <1>4 DEF Inv, ClientRight, Routed, Answers, Files
<1>6. RuleRight'
  <2>1. client.url \in Urls /\ IsBest(client.url, Rules, client.rule)
    BY <1>1, <1>3 DEF Inv, RuleRight
  <2> QED
    BY <1>2, <1>3, <1>4, <2>1 DEF RuleRight, IsBest, Fits, Path, Rules
<1>7. HomeRight'
  BY <1>1, <1>2, <1>4 DEF Inv, HomeRight, Routed, Answers, Files
<1>8. FilesRight'
  <2>1. FilesRight
    BY DEF Inv
  <2>2. CASE MapUrl
    <3>1. /\ client.at = "static" /\ pages' = pages /\ was' = was
          /\ client'.at = IF pages["page"] = "hidden" THEN "no answer" ELSE UrlPath
      BY <1>0, <2>2 DEF MapUrl, site, Clients
    <3> QED
      BY <2>1, <3>1 DEF FilesRight, PageOrNotFound, UrlPath, Files
  <2>3. CASE GetSite
    <3>1. /\ client.at \in Files /\ pages' = pages /\ was' = was
          /\ client'.at = Answer(client.at)
      BY <1>0, <2>3 DEF GetSite, site, Clients
    <3>2. CASE client.at = "page"
      BY <1>0, <2>1, <3>1, <3>2 DEF FilesRight, PageOrNotFound, Answer, Files, FileStates
    <3>3. CASE client.at = "404.html"
      BY <1>0, <2>1, <3>1, <3>3 DEF FilesRight, PageOrNotFound, Answer, Files, FileStates
    <3> QED
      BY <3>1, <3>2, <3>3 DEF Files
  <2>4. CASE Deploy
    <3>1. PICK f \in Files, t \in FileStates :
              pages' = [pages EXCEPT ![f] = t] /\ was' = [was EXCEPT ![f] = @ \cup {t}]
      BY <2>4 DEF Deploy
    <3>2. /\ client' = client /\ client.at \in {"static"} \cup Files
          /\ \A g \in Files : was[g] \subseteq was'[g] /\ pages'[g] \in was'[g]
      BY <1>0, <2>1, <2>4, <3>1 DEF Deploy, FilesRight
    <3>3. client.at = "page" => was'["page"] # {"absent"}
      BY <2>1, <3>2 DEF FilesRight, Files
    <3> QED
      BY <2>1, <3>2, <3>3 DEF FilesRight, PageOrNotFound, Files
  <2> QED
    BY <2>2, <2>3, <2>4
<1> QED
  BY <1>4, <1>5, <1>6, <1>7, <1>8 DEF Inv

LEMMA InvStep ==
    ASSUME Inv, [Next]_vars
    PROVE  Inv'
<1>1. CASE UNCHANGED vars
  <2>1. UNCHANGED <<start, phase, open>> /\ client' = client /\ pages' = pages
        /\ was' = was
    BY <1>1 DEF vars, site
  <2>2. /\ Typed' /\ ContextsRight' /\ PortsRight' /\ config' = config /\ item' = item
        /\ \A n : Named(n)' = Named(n) /\ Certificate(n)' = Certificate(n)
        /\ \A k : PortsOf(k)' = PortsOf(k)
        /\ failed' = failed /\ phase' = phase
    BY <2>1, StartUntouched DEF Inv, Typed
  <2>3. ClientRight'
    BY <2>1, <2>2 DEF Inv, ClientRight
  <2>4. RuleRight'
    BY <2>1, <2>2 DEF Inv, RuleRight, IsBest, Fits, Path, Rules
  <2>5. HomeRight'
    BY <2>1, <2>2 DEF Inv, HomeRight
  <2>6. FilesRight'
    BY <2>1 DEF Inv, FilesRight, PageOrNotFound
  <2> QED
    BY <2>2, <2>3, <2>4, <2>5, <2>6 DEF Inv
<1>2. CASE Next
  <2>1. ASSUME NEW k \in Kinds, NEW n \in Names \cup {NoName}, NEW p \in PortsOf(k), Connect(k, p, n)
        PROVE  Inv'
    BY <2>1, ConnectStep DEF AnyName
  <2> QED
    BY <1>2, <2>1, LoadStep, PortStep, HandleStep, FollowStep, LocationStep, FileStep DEF Next
<1> QED
  BY <1>1, <1>2

LEMMA InvAlways == Spec => []Inv
BY InvInit, InvStep, PTL DEF Spec
----------------------------------------------------------------------------
\* Types; also that a certificate in use was loaded, and that the location chosen is one
\* of the virtual host's.
THEOREM TypeCorrect == Spec => []TypeOK
<1>1. ASSUME Inv PROVE TypeOK
  <2>1. Typed /\ ContextsRight /\ PortsRight /\ client \in Clients /\ NoHost \notin Hosts
    BY <1>1, Configured DEF Inv, Typed
  <2>2. client.cert # NoHost => config[client.cert].loads
    <3> SUFFICES ASSUME client.cert # NoHost PROVE config[client.cert].loads
      OBVIOUS
    <3>1. client.cert = Certificate(client.name) /\ client.name \in AnyName
      BY <1>1, <2>1 DEF Inv, ClientRight, Clients
    <3> QED
      BY <2>1, <3>1 DEF Certificate, ContextsRight
  <2>3. client.rule # 0 => client.rule \in DOMAIN config[client.host].rules
    <3> SUFFICES ASSUME client.rule # 0 PROVE client.rule \in Rules
      BY DEF Rules
    <3>1. client.host # NoHost /\ client.at # "routed"
      BY <1>1 DEF Inv, RuleRight, ClientRight
    <3> QED
      BY <1>1, <3>1 DEF Inv, RuleRight, IsBest
  <2> QED
    BY <2>1, <2>2, <2>3 DEF TypeOK, Typed, PortsRight, AnyName, AnyHost
<1> QED
  BY <1>1, InvAlways, PTL

\* A port that cannot be had costs the larger ports of its kind and no other, for every
\* configuration and every choice of ports that fail.
THEOREM FailuresContained == Spec => []FailureContained
<1>1. ASSUME Inv, phase = "serving"
      PROVE  /\ open["http"] \cap open["https"] = {}
             /\ \A k \in Kinds : (k = "http" \/ default # NoHost) =>
                    open[k] = {p \in PortsOf(k) : failed[k] = 0 \/ p < failed[k]}
  <2>1. PortsRight
    BY <1>1 DEF Inv
  <2>2. ASSUME NEW k \in Kinds, k = "http" \/ default # NoHost
        PROVE  open[k] = {p \in PortsOf(k) : failed[k] = 0 \/ p < failed[k]}
    <3>1. todo[k] = {}
      BY <1>1, <2>1, <2>2 DEF PortsRight, Kinds
    <3>2. CASE failed[k] = 0
      BY <1>1, <2>1, <3>1, <3>2 DEF PortsRight
    <3>3. CASE failed[k] # 0
      BY <1>1, <2>1, <3>3 DEF PortsRight
    <3> QED
      BY <3>2, <3>3
  <2> QED
    BY <1>1, <2>1, <2>2 DEF PortsRight
<1>2. Inv => FailureContained
  BY <1>1 DEF FailureContained
<1> QED
  BY <1>2, InvAlways, PTL

\* A TLS client sees a certificate of the name it asked for, if any loaded.
THEOREM CertificatesFit == Spec => []CertificateFits
<1>1. ASSUME Inv, client.cert # NoHost, NEW i \in Named(client.name), config[i].loads,
             client.name # NoName
      PROVE  config[client.cert].name = client.name
  <2>1. Typed /\ ContextsRight /\ client.name \in AnyName /\ client.cert = Certificate(client.name)
    BY <1>1 DEF Inv, Typed, ClientRight, Clients
  <2>2. i \in 1..(item - 1) /\ config[i].name = client.name
    <3>1. client.at # "away" /\ item = Len(config) + 1
      BY <1>1 DEF Inv, ClientRight
    <3>2. i \in 1..Len(config) /\ Len(config) \in Nat
      BY <1>1, <2>1, Configured DEF Named, Typed
    <3> QED
      BY <3>1, <3>2 DEF Named
  <2>3. contexts[client.name] # NoHost
    BY <1>1, <2>1, <2>2 DEF ContextsRight
  <2> QED
    BY <1>1, <2>1, <2>3 DEF Certificate, ContextsRight
<1>2. Inv => CertificateFits
  BY <1>1 DEF CertificateFits
<1> QED
  BY <1>2, InvAlways, PTL

\* A redirect leads back to the host that gave it, and to its certificate.
THEOREM RedirectsLeadHome == Spec => []RedirectLeadsHome
<1>1. ASSUME Inv, client.home # NoHost, Named(client.name) = {client.home},
             config[client.home].loads, failed["https"] = 0, phase # "ended"
      PROVE  /\ client.at # "refused"
             /\ client.at # "redirected" => client.cert = client.home
             /\ client.host \in {NoHost, client.home}
  <2>1. /\ client.at # "refused"
        /\ client.at # "redirected" => client.cert = client.home
    BY <1>1 DEF Inv, HomeRight
  <2>2. client.host \in {NoHost, client.home}
    <3>1. Min(Named(client.name)) \in Named(client.name)
      BY <1>1, FirstNamed DEF Inv, Typed
    <3> QED
      BY <1>1, <3>1 DEF Inv, ClientRight
  <2> QED
    BY <2>1, <2>2
<1>2. Inv => RedirectLeadsHome
  BY <1>1 DEF RedirectLeadsHome
<1> QED
  BY <1>2, InvAlways, PTL

\* Whatever the files are and whatever becomes of them between exists() and open(), an
\* answer is content of a file that was there, and its kind is one they account for.
THEOREM StaticAnswer == Spec => []PageOrNotFound
<1>1. Inv => PageOrNotFound
  BY DEF Inv, FilesRight, PageOrNotFound
<1> QED
  BY <1>1, InvAlways, PTL

\* "Without its last slash it begins the URL", as a prefix of a given length.
LEMMA PrefixFits ==
    ASSUME NEW p, IsSequence(p), NEW url
    PROVE  IsPrefix(Stripped(p), url) <=>
               \E n \in {Len(p), Len(p) - 1} :
                   /\ n = Len(p) - 1 <=> (p # <<>> /\ Last(p) = "/")
                   /\ n <= Len(url) /\ SubSeq(p, 1, n) = SubSeq(url, 1, n)
<1>1. p \in Seq(Range(p)) /\ Len(p) \in Nat /\ \A i \in 1..Len(p) : p[i] \in Range(p)
  BY LenProperties, ElementOfSeq DEF IsSequence
<1>2. CASE p # <<>> /\ Last(p) = "/"
  <2>1. Len(p) \in Nat \ {0}
    BY <1>1, <1>2, EmptySeq
  <2>2. /\ SubSeq(p, 1, Len(p) - 1) \in Seq(Range(p))
        /\ Len(SubSeq(p, 1, Len(p) - 1)) = IF 1 <= Len(p) - 1 THEN (Len(p) - 1) - 1 + 1 ELSE 0
    <3>1. \A i \in 1..(Len(p) - 1) : p[i] \in Range(p)
      BY <1>1
    <3> QED
      BY <1>1, <3>1, SubSeqProperties
  <2> DEFINE f == SubSeq(p, 1, Len(p) - 1)
  <2>3. Len(f) = Len(p) - 1
    <3>1. \A l \in Nat : l # 0 => (IF 1 <= l - 1 THEN (l - 1) - 1 + 1 ELSE 0) = l - 1
      OBVIOUS
    <3> QED
      BY <2>1, <2>2, <3>1
  <2>4. SubSeq(f, 1, Len(f)) = f
    BY <2>2, SubSeqFull
  <2>5. Stripped(p) = f
    BY <1>2 DEF Stripped, Front
  <2>6. IsPrefix(Stripped(p), url) <=>
            Len(p) - 1 <= Len(url) /\ SubSeq(p, 1, Len(p) - 1) = SubSeq(url, 1, Len(p) - 1)
    BY <2>3, <2>4, <2>5 DEF IsPrefix
  <2>7. Len(p) # Len(p) - 1
    BY <1>1
  <2> HIDE DEF f
  <2> QED
    BY <1>2, <2>6, <2>7
<1>3. CASE ~(p # <<>> /\ Last(p) = "/")
  <2>1. Stripped(p) = p
    BY <1>3 DEF Stripped
  <2>2. IsPrefix(Stripped(p), url) <=>
            Len(p) <= Len(url) /\ SubSeq(p, 1, Len(p)) = SubSeq(url, 1, Len(p))
    BY <2>1 DEF IsPrefix
  <2>3. Len(p) # Len(p) - 1
    BY <1>1
  <2> QED
    BY <1>3, <2>2, <2>3
<1> QED
  BY <1>2, <1>3

\* The location is the longest that begins the URL and of several the first, however many
\* there are and in whatever order the file has them.
THEOREM LongestWins == Spec => []LongestLocation
<1>1. ASSUME Inv, client.at \in {"dropped", "proxied", "static"}, client.host # NoHost
      PROVE  LongestLocation
  <2> DEFINE fits == {r \in Rules : Fits(client.url, r)}
             best == {r \in fits : \A q \in fits : Len(Path(q)) <= Len(Path(r))}
  <2>1. /\ IsBest(client.url, Rules, client.rule) /\ client.url \in Urls
        /\ config \in Configs /\ client.host \in Hosts
    BY <1>1 DEF Inv, RuleRight, Typed, Clients, AnyHost
  <2>2. PICK n \in Nat : Rules = 1..n /\ \A r \in Rules : Len(Path(r)) \in Nat
    BY <2>1, RuleFacts
  <2>3. client.rule = IF fits = {} THEN 0 ELSE Min(best)
    <3>1. CASE client.rule = 0
      BY <2>1, <2>2, <3>1 DEF IsBest
    <3>2. CASE client.rule # 0
      <4>1. /\ client.rule \in fits
            /\ \A r \in fits : \/ Len(Path(r)) < Len(Path(client.rule))
                               \/ Len(Path(r)) = Len(Path(client.rule)) /\ client.rule <= r
        BY <2>1, <3>2 DEF IsBest
      <4>2. client.rule \in best
        <5>1. \A q \in fits : Len(Path(q)) <= Len(Path(client.rule))
          BY <2>2, <4>1
        <5> QED
          BY <4>1, <5>1
      <4>3. \A r \in best : client.rule <= r
        <5> SUFFICES ASSUME NEW r \in best PROVE client.rule <= r
          OBVIOUS
        <5>1. /\ Len(Path(client.rule)) <= Len(Path(r)) /\ r \in fits
              /\ Len(Path(client.rule)) \in Nat /\ Len(Path(r)) \in Nat
          BY <2>2, <4>1
        <5> QED
          BY <4>1, <5>1
      <4>4. best \in SUBSET Nat /\ best # {}
        BY <2>2, <4>2
      <4>5. Min(best) \in best /\ Min(best) <= client.rule /\ client.rule <= Min(best)
        BY <4>2, <4>3, <4>4, MinIsLeast
      <4>6. Min(best) \in Nat /\ client.rule \in Nat
        BY <4>2, <4>4, <4>5
      <4>7. Min(best) = client.rule
        <5> HIDE DEF best
        <5> QED
          BY <4>5, <4>6
      <4> QED
        BY <3>2, <4>1, <4>7
    <3> QED
      BY <3>1, <3>2
  <2>4. \A r \in Rules : IsSequence(Path(r))
    BY <2>1, HostsAssumption DEF Hosts, Rules, Path
  <2>5. fits = {r \in DOMAIN config[client.host].rules :
                    \E m \in {Len(Path(r)), Len(Path(r)) - 1} :
                        /\ m = Len(Path(r)) - 1 <=> (Path(r) # <<>> /\ Last(Path(r)) = "/")
                        /\ m <= Len(client.url)
                        /\ SubSeq(Path(r), 1, m) = SubSeq(client.url, 1, m)}
    <3>1. \A r \in Rules : Fits(client.url, r) <=>
              \E m \in {Len(Path(r)), Len(Path(r)) - 1} :
                  /\ m = Len(Path(r)) - 1 <=> (Path(r) # <<>> /\ Last(Path(r)) = "/")
                  /\ m <= Len(client.url)
                  /\ SubSeq(Path(r), 1, m) = SubSeq(client.url, 1, m)
      BY <2>4, PrefixFits DEF Fits
    <3> QED
      BY <3>1 DEF Rules
  <2> HIDE DEF fits
  <2> QED
    BY <2>3, <2>5 DEF LongestLocation
<1>2. Inv => LongestLocation
  BY <1>1 DEF LongestLocation
<1> QED
  BY <1>2, InvAlways, PTL
=============================================================================
