---------------------------- MODULE ServerConfig ----------------------------
(***************************************************************************)
(* src/src/utils/ServerConfig.cpp: the parser of nginy.conf.  It reads the *)
(* file line by line in three nested loops (parseConfig, parseVirtualHost, *)
(* and the one for a location inside it), looks at the first word of each  *)
(* line, and takes any line that has a closing brace anywhere in it,       *)
(* comments included, for the end of the block it is in.                   *)
(*                                                                         *)
(* The file is chosen line by line as it is read.  `depth` is the block    *)
(* its writer means to be in; an odd line opens or ends a block of which   *)
(* the writer does not know.                                               *)
(***************************************************************************)
EXTENDS Integers, Sequences, SequencesExt

CONSTANTS
    Keys,           \* the single-valued keys a file uses, among HostKeys
    Values, Ports, Paths, Targets,
    MaxPorts,       \* bound: ports on a listen line
    MaxLines,       \* bound: lines of a file
    MaxOdd,         \* bound: odd lines of a file
    Unset,          \* the empty string
    NoPort,         \* a proxy_pass without a port
    DefaultPort     \* "80" in parseProxy

HostKeys == {"server_name", "ssl_certificate", "ssl_certificate_key", "ssl_password_file"}

ASSUME ConfigAssumption ==
    /\ Keys \subseteq HostKeys
    /\ MaxPorts \in Nat /\ MaxLines \in Nat /\ MaxOdd \in Nat
    /\ Unset \notin Values \cup Ports \cup Paths \cup Targets

\* What the parser can tell apart in a line.  A brace hides the rest of its line,
\* except for the word `server`.  A port list has what std::stoi makes of the words.
Lines ==
         [word : {"server"}, closes : BOOLEAN]
    \cup [word : {"brace"}, closes : {TRUE}]
    \cup [word : {"root"}, closes : {FALSE}]
    \cup [word : Keys, closes : {FALSE}, value : Values \cup {Unset}]
    \cup [word : {"listen"}, closes : {FALSE}, ssl : BOOLEAN, ports : SeqOf(Ports, MaxPorts)]
    \cup [word : {"location"}, closes : {FALSE}, path : Paths]
    \cup [word : {"proxy_pass"}, closes : {FALSE}, host : Targets, port : Ports \cup {NoPort}]

VARIABLES
    file,       \* history: the lines read so far
    depth, odd, \* history: the writer's block, and how many lines were odd
    at,         \* which loop reads
    config,     \* Config::content
    host, rule  \* the VirtualHost and the ProxyRules being filled

writer == <<file, depth, odd>>
vars   == <<writer, at, config, host, rule>>

NewHost == [values |-> [k \in Keys |-> Unset], http |-> <<>>, https |-> <<>>, rules |-> <<>>]

\* ProxyRules has no initializer for `proxy`: it is whatever the stack held.
NewRule(path, garbage) == [path |-> path, host |-> Unset, port |-> Unset, proxy |-> garbage]

Init ==
    /\ file = <<>> /\ depth = 0 /\ odd = 0
    /\ at = "top" /\ config = <<>>
    /\ host = NewHost /\ rule = NewRule(Unset, FALSE)
----------------------------------------------------------------------------
Opens == {"server", "location"}

\* What a careful writer puts in each block.
Usual ==
    CASE depth = 0 -> {"server"}
      [] depth = 1 -> Keys \cup {"listen", "location", "brace"}
      [] depth = 2 -> {"proxy_pass", "root", "brace"}

Write(line) ==
    /\ at # "end" /\ Len(file) < MaxLines
    /\ file' = Append(file, line)
    /\ \/ /\ line.word \in Usual /\ (line.closes => line.word = "brace")
          /\ depth' = depth + (IF line.word \in Opens THEN 1 ELSE IF line.closes THEN -1 ELSE 0)
          /\ UNCHANGED odd
       \/ /\ line.word \in Opens \cup {"brace"} /\ odd < MaxOdd
          /\ odd' = odd + 1
          /\ UNCHANGED depth
----------------------------------------------------------------------------
\* Mutant of TopLine: one VirtualHost for the whole file.
TopLineKeepsHost(line) ==
    /\ at = "top" /\ Write(line)
    /\ at' = IF line.word = "server" THEN "host" ELSE "top"
    /\ UNCHANGED <<config, host, rule>>

\* parseConfig(): only `server` matters, and a brace on that line does not.
TopLine(line) ==
    /\ at = "top" /\ Write(line)
    /\ IF line.word = "server" THEN at' = "host" /\ host' = NewHost
                               ELSE UNCHANGED <<at, host>>
    /\ UNCHANGED <<config, rule>>

\* parseListenPorts(): ports add up, and go by the line's `ssl`.
WithPorts(line) ==
    IF line.ssl THEN [host EXCEPT !.https = @ \o line.ports] ELSE [host EXCEPT !.http = @ \o line.ports]

\* readValue(): the last value stays, and a key without one changes nothing.
Filled(line) ==
    CASE line.word \in Keys /\ line.value # Unset -> [host EXCEPT !.values[line.word] = line.value]
      [] line.word = "listen" -> WithPorts(line)
      [] OTHER -> host

\* parseVirtualHost(): a brace ends the server, whatever else the line says.
HostLine(line) ==
    /\ at = "host" /\ Write(line)
    /\ \/ /\ line.closes
          /\ config' = Append(config, host) /\ at' = "top"
          /\ UNCHANGED <<host, rule>>
       \/ /\ ~line.closes /\ line.word = "location"
          /\ at' = "location" /\ \E garbage \in BOOLEAN : rule' = NewRule(line.path, garbage)
          /\ UNCHANGED <<config, host>>
       \/ /\ ~line.closes /\ line.word # "location"
          /\ host' = Filled(line)
          /\ UNCHANGED <<at, config, rule>>

Destination(line) == <<line.host, line.port>>           \* mutant of ParseProxy

\* parseProxy(): the host, and the port or 80.
ParseProxy(line) == <<line.host, IF line.port = NoPort THEN DefaultPort ELSE line.port>>

\* Mutant of Ruled: proxy_pass leaves `proxy` as it is.
RuledInPart(line) ==
    IF line.word = "proxy_pass"
    THEN [rule EXCEPT !.host = ParseProxy(line)[1], !.port = ParseProxy(line)[2]] ELSE rule

\* The keys of a location; a later one overrides an earlier one.
Ruled(line) ==
    CASE line.word = "proxy_pass" ->
             [rule EXCEPT !.host = ParseProxy(line)[1], !.port = ParseProxy(line)[2], !.proxy = TRUE]
      [] line.word = "root" -> [rule EXCEPT !.proxy = FALSE]
      [] OTHER -> rule

WithRule == [host EXCEPT !.rules = Append(@, rule)]

\* The loop for a location: a brace ends it, and nothing else does.
LocationLine(line) ==
    /\ at = "location" /\ Write(line)
    /\ IF line.closes
       THEN at' = "host" /\ host' = WithRule /\ UNCHANGED rule
       ELSE rule' = Ruled(line) /\ UNCHANGED <<at, host>>
    /\ UNCHANGED config

\* Every loop ends with the file, and what is open is taken as it is.  A file
\* that cannot be opened gives no virtual host, as an empty one does.
EndOfFile ==
    /\ at # "end"
    /\ config' = CASE at = "top" -> config
                   [] at = "host" -> Append(config, host)
                   [] at = "location" -> Append(config, WithRule)
    /\ at' = "end"
    /\ UNCHANGED <<writer, host, rule>>

Next ==
    \/ \E line \in Lines : TopLine(line) \/ HostLine(line) \/ LocationLine(line)
    \/ EndOfFile

Spec == Init /\ [][Next]_vars
----------------------------------------------------------------------------
Rules == [path : Paths, host : Targets \cup {Unset}, port : Ports \cup {DefaultPort, Unset},
          proxy : BOOLEAN]

HostTypeOK(h) ==
    /\ h.values \in [Keys -> Values \cup {Unset}]
    /\ h.http \in Seq(Ports) /\ h.https \in Seq(Ports) /\ h.rules \in Seq(Rules)

\* A rule's port is never the missing one, so that connectSocket() gets a port.
TypeOK ==
    /\ depth \in 0..2 /\ odd \in 0..MaxOdd /\ at \in {"top", "host", "location", "end"}
    /\ file \in Seq(Lines) /\ HostTypeOK(host) /\ \A i \in DOMAIN config : HostTypeOK(config[i])
    /\ at = "location" => rule \in Rules

\* What a file says.  A set S of places in the file f stands for the lines there.
Where(f, S, words) == {j \in S : f[j].word \in words}
Closings(f, S)     == {j \in S : f[j].closes}
Rank(i, S)         == Cardinality({j \in S : j <= i})

Starts(f) == Where(f, DOMAIN f, {"server"})

\* The lines of the `server` on line i, up to the next one.
Section(f, i) == {j \in DOMAIN f : i < j /\ \A b \in Starts(f) : i < b => j < b}

\* The lines of the block that line i of the section S opens.
Block(f, S, i) == {j \in S : i < j /\ \A b \in Closings(f, S) : i < b => j < b}

ValuesWritten(f, S, k)  == {j \in Where(f, S, {k}) : f[j].value # Unset}
Listens(f, S, ssl)      == {j \in Where(f, S, {"listen"}) : f[j].ssl = ssl}
PortsWritten(f, S, ssl) ==
    FlattenSeq([j \in DOMAIN f |-> IF j \in Listens(f, S, ssl) THEN f[j].ports ELSE <<>>])

\* The rule r goes where the line says.
Goes(r, line) ==
    r.host = line.host /\ r.port = (IF line.port = NoPort THEN DefaultPort ELSE line.port)

\* The rule r is what the block that line i opens says.
RuleAsWritten(r, f, S, i) ==
    LET passes == Where(f, Block(f, S, i), {"proxy_pass"})
        words  == Where(f, Block(f, S, i), {"proxy_pass", "root"})
    IN  /\ r.path = f[i].path
        /\ passes # {} => Goes(r, f[Max(passes)])
        /\ words # {} => r.proxy = (Max(words) \in passes)

\* The virtual host h is what the section S says.
HostAsWritten(h, f, S) ==
    LET locations == Where(f, S, {"location"})
    IN  /\ \A k \in Keys : h.values[k] = IF ValuesWritten(f, S, k) = {} THEN Unset
                                         ELSE f[Max(ValuesWritten(f, S, k))].value
        /\ h.http = PortsWritten(f, S, FALSE) /\ h.https = PortsWritten(f, S, TRUE)
        /\ Len(h.rules) = Cardinality(locations)
        /\ \A i \in locations : RuleAsWritten(h.rules[Rank(i, locations)], f, S, i)

\* The hosts are what the file says: the k-th what its k-th section does.
HostsAsWritten(hosts, f) ==
    /\ Len(hosts) = Cardinality(Starts(f))
    /\ \A i \in Starts(f) : HostAsWritten(hosts[Rank(i, Starts(f))], f, Section(f, i))

\* A file without odd lines means what it says, cut off anywhere: a virtual host
\* for each server, with its ports in order, the last value of each other key and
\* a rule for each location, which proxies if its last word on the matter says so.
ParsedAsWritten == (at = "end" /\ odd = 0) => HostsAsWritten(config, file)

\* The closing lines of a section that end the server: no location before waits for
\* them.
Ends(f, S) ==
    {e \in Closings(f, S) :
        \A i \in Where(f, S, {"location"}) : i < e => \E b \in Closings(f, S) : i < b /\ b < e}

\* The lines of the server itself: those before its end, if it has one.
Body(f, S) == {j \in S : \A e \in Ends(f, S) : j < e}

\* The lines B are undamaged: in a location is nothing but what belongs there, so
\* that none of them has lost its end.
Intact(f, B) ==
    \A i \in Where(f, B, {"location"}) : \A j \in Block(f, B, i) : f[j].word \in {"proxy_pass", "root"}

ValuesOf(f, S, k)  == {f[j].value : j \in ValuesWritten(f, S, k)}
PortsOf(f, S, ssl) == UNION {Range(f[j].ports) : j \in Listens(f, S, ssl)}

RuleFrom(r, f, S) ==
    /\ \E i \in Where(f, S, {"location"}) : r.path = f[i].path
    /\ r.host = Unset \/ \E j \in Where(f, S, {"proxy_pass"}) : Goes(r, f[j])

\* All that the virtual host h has was written in the section S.
FromSection(h, f, S) ==
    /\ \A k \in Keys : h.values[k] \in {Unset} \cup ValuesOf(f, S, k)
    /\ Range(h.http) \subseteq PortsOf(f, S, FALSE) /\ Range(h.https) \subseteq PortsOf(f, S, TRUE)
    /\ \A n \in DOMAIN h.rules : RuleFrom(h.rules[n], f, S)

\* The k-th host has nothing but from the k-th section, and all of it if the section
\* is intact.
HostsFromSections(hosts, f) ==
    /\ Len(hosts) = Cardinality(Starts(f))
    /\ \A i \in Starts(f) :
         LET h == hosts[Rank(i, Starts(f))]
             B == Body(f, Section(f, i))
         IN  FromSection(h, f, Section(f, i)) /\ (Intact(f, B) => HostAsWritten(h, f, B))

\* Each server but the last has an end.
SectionsEnd(f) == \A i, later \in Starts(f) : i < later => Ends(f, Section(f, i)) # {}

\* Whatever its lines: a damaged server takes nothing from another and costs it
\* nothing, unless its end is missing.  One without damage means what it says, and
\* one with damage has at most what was written in it.
DamageContained == (at = "end" /\ SectionsEnd(file)) => HostsFromSections(config, file)
=============================================================================
