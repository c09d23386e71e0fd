------------------------- MODULE ServerConfigProofs -------------------------
(***************************************************************************)
(* The properties of ServerConfig, for every file: what a host may hold,   *)
(* that a file without odd lines means what it says, and that a damaged    *)
(* section costs the other servers nothing unless it lacks its end.        *)
(***************************************************************************)
EXTENDS ServerConfig, ProofLemmas

USE ConfigAssumption DEF HostKeys

\* What a line is, by its first word.
LineOf(line) ==
    /\ line.closes \in BOOLEAN
    /\ line.closes => line.word \in {"server", "brace"}
    /\ line.word = "brace" => line.closes
    /\ line.word \in Keys => line.value \in Values \cup {Unset}
    /\ line.word = "listen" => line.ssl \in BOOLEAN /\ line.ports \in Seq(Ports)
    /\ line.word = "location" => line.path \in Paths
    /\ line.word = "proxy_pass" => line.host \in Targets /\ line.port \in Ports \cup {NoPort}
    /\ line.word \in {"server", "brace", "root", "listen", "location", "proxy_pass"} \cup Keys

LEMMA LineType == ASSUME NEW line \in Lines PROVE LineOf(line)
<1>1. SeqOf(Ports, MaxPorts) \subseteq Seq(Ports)
  BY DEF SeqOf
<1>2. CASE line \in [word : {"server"}, closes : BOOLEAN]
  BY <1>2 DEF LineOf
<1>3. CASE line \in [word : {"brace"}, closes : {TRUE}]
  BY <1>3 DEF LineOf
<1>4. CASE line \in [word : {"root"}, closes : {FALSE}]
  BY <1>4 DEF LineOf
<1>5. CASE line \in [word : Keys, closes : {FALSE}, value : Values \cup {Unset}]
  BY <1>5 DEF LineOf
<1>6. CASE line \in [word : {"listen"}, closes : {FALSE}, ssl : BOOLEAN,
                     ports : SeqOf(Ports, MaxPorts)]
  BY <1>1, <1>6 DEF LineOf
<1>7. CASE line \in [word : {"location"}, closes : {FALSE}, path : Paths]
  BY <1>7 DEF LineOf
<1>8. CASE line \in [word : {"proxy_pass"}, closes : {FALSE}, host : Targets,
                     port : Ports \cup {NoPort}]
  BY <1>8 DEF LineOf
<1> QED
  BY <1>2, <1>3, <1>4, <1>5, <1>6, <1>7, <1>8 DEF Lines

HostRecords == [values : [Keys -> Values \cup {Unset}], http : Seq(Ports), https : Seq(Ports),
                rules : Seq(Rules)]

\* TypeOK with the fields of a host, which it does not have to name.
Types ==
    /\ depth \in 0..2 /\ odd \in 0..MaxOdd /\ at \in {"top", "host", "location", "end"}
    /\ file \in Seq(Lines) /\ host \in HostRecords /\ config \in Seq(HostRecords)
    /\ at = "location" => rule \in Rules

\* What is done with a line keeps the types of host and rule.
LEMMA FilledType ==
    ASSUME host \in HostRecords, NEW line \in Lines PROVE Filled(line) \in HostRecords
<1>1. LineOf(line)
  BY LineType
<1>2. CASE line.word \in Keys /\ line.value # Unset
  BY <1>1, <1>2 DEF Filled, LineOf, HostRecords
<1>3. CASE line.word = "listen"
  <2>1. line.ports \in Seq(Ports) /\ host.http \o line.ports \in Seq(Ports)
        /\ host.https \o line.ports \in Seq(Ports)
    BY <1>1, <1>3, ConcatProperties DEF LineOf, HostRecords
  <2>2. Filled(line) = WithPorts(line)
    BY <1>3 DEF Filled
  <2> QED
    BY <2>1, <2>2 DEF WithPorts, HostRecords
<1>4. CASE ~(line.word \in Keys /\ line.value # Unset) /\ line.word # "listen"
  BY <1>4 DEF Filled
<1> QED
  BY <1>2, <1>3, <1>4

LEMMA RuledType ==
    ASSUME rule \in Rules, NEW line \in Lines PROVE Ruled(line) \in Rules
BY LineType DEF LineOf, Ruled, ParseProxy, Rules

LEMMA WithRuleType ==
    ASSUME host \in HostRecords, rule \in Rules PROVE WithRule \in HostRecords
<1>1. Append(host.rules, rule) \in Seq(Rules)
  BY DEF HostRecords
<1> QED
  BY <1>1 DEF WithRule, HostRecords

LEMMA TypeStep == ASSUME Types, [Next]_vars PROVE Types'
<1> USE DEF Types
<1>1. ASSUME NEW line \in Lines, Write(line)
      PROVE  depth' \in 0..2 /\ odd' \in 0..MaxOdd /\ file' \in Seq(Lines)
  <2>1. LineOf(line) /\ file' = Append(file, line)
    BY <1>1, LineType DEF Write
  <2>2. CASE odd' = odd + 1 /\ odd < MaxOdd /\ UNCHANGED depth
    BY <2>1, <2>2
  <2>3. CASE /\ line.word \in Usual /\ (line.closes => line.word = "brace")
             /\ depth' = depth + (IF line.word \in Opens THEN 1 ELSE IF line.closes THEN -1 ELSE 0)
             /\ UNCHANGED odd
    BY <2>1, <2>3 DEF Usual, Opens, LineOf
  <2> QED
    BY <1>1, <2>2, <2>3 DEF Write
<1>2. ASSUME NEW line \in Lines, TopLine(line) PROVE Types'
  <2>1. NewHost \in HostRecords
    BY DEF NewHost, HostRecords
  <2> QED
    BY <1>1, <1>2, <2>1 DEF TopLine
<1>3. ASSUME NEW line \in Lines, HostLine(line) PROVE Types'
  <2>1. Filled(line) \in HostRecords /\ Append(config, host) \in Seq(HostRecords)
    BY FilledType
  <2>2. line.word = "location" => \A garbage \in BOOLEAN : NewRule(line.path, garbage) \in Rules
    BY LineType DEF NewRule, Rules, LineOf
  <2> QED
    BY <1>1, <1>3, <2>1, <2>2 DEF HostLine
<1>4. ASSUME NEW line \in Lines, LocationLine(line) PROVE Types'
  <2>1. Ruled(line) \in Rules /\ WithRule \in HostRecords
    BY <1>4, RuledType, WithRuleType DEF LocationLine
  <2> QED
    BY <1>1, <1>4, <2>1 DEF LocationLine
<1>5. CASE EndOfFile
  <2>1. at = "location" => WithRule \in HostRecords
    BY WithRuleType
  <2> QED
    BY <1>5, <2>1 DEF EndOfFile, writer
<1>6. CASE UNCHANGED vars
  BY <1>6 DEF vars, writer
<1> QED
  BY <1>2, <1>3, <1>4, <1>5, <1>6 DEF Next

LEMMA TypesHold == Spec => []Types
<1>1. Init => Types
  <2>1. NewHost \in HostRecords
    BY DEF NewHost, HostRecords
  <2> QED
    BY <2>1 DEF Init, Types
<1> QED
  BY <1>1, TypeStep, PTL DEF Spec

\* Whatever the lines of the file: a port list holds ports, a value is one that was
\* written, and a rule's port is never the missing one.
THEOREM TypeCorrect == Spec => []TypeOK
<1>1. ASSUME NEW h \in HostRecords PROVE HostTypeOK(h)
  BY DEF HostRecords, HostTypeOK
<1>2. Types => TypeOK
  <2> SUFFICES ASSUME Types PROVE TypeOK
    OBVIOUS
  <2>1. \A i \in DOMAIN config : config[i] \in HostRecords
    BY DEF Types
  <2> QED
    BY <1>1, <2>1 DEF Types, TypeOK
<1> QED
  BY <1>2, TypesHold, PTL
----------------------------------------------------------------------------
\* The largest of finitely many places in a file.
LEMMA MaxIs ==
    ASSUME NEW n \in Nat, NEW S \in SUBSET (1..n), S # {}
    PROVE  Max(S) \in S /\ \A j \in S : j <= Max(S)
<1> DEFINE Above == {n - j : j \in S}
<1>1. Above \in SUBSET Nat /\ Above # {}
  <2>1. \A j \in S : n - j \in Nat
    OBVIOUS
  <2> QED
    BY <2>1
<1>2. PICK a \in Above : \A b \in Above : a <= b
  BY <1>1, LeastElement
<1>3. PICK m \in S : a = n - m
  BY <1>2
<1>4. \A j \in S : m >= j
  <2> TAKE j \in S
  <2>1. n - m <= n - j
    BY <1>2, <1>3
  <2> QED
    BY <2>1
<1>5. Max(S) \in S /\ \A j \in S : Max(S) >= j
  BY <1>4 DEF Max
<1> QED
  BY <1>5

\* A place that is in the set and behind the others is the largest.
LEMMA MaxLast ==
    ASSUME NEW n \in Nat, NEW S \in SUBSET (1..n)
    PROVE  Max(S \cup {n + 1}) = n + 1
<1> DEFINE W == S \cup {n + 1}
<1>1. W \in SUBSET (1..(n + 1)) /\ W # {} /\ n + 1 \in Nat /\ n + 1 \in W
  OBVIOUS
<1>2. \A j \in W : j \in Int /\ j <= n + 1
  OBVIOUS
<1> HIDE DEF W
<1>3. Max(W) \in W /\ \A j \in W : j <= Max(W)
  BY <1>1, MaxIs
<1>4. Max(W) = n + 1
  <2>1. Max(W) \in Int /\ Max(W) <= n + 1
    BY <1>2, <1>3
  <2>2. n + 1 <= Max(W)
    BY <1>1, <1>3
  <2> QED
    BY <1>1, <2>1, <2>2
<1> QED
  BY <1>4 DEF W

\* The places of a set have the ranks from 1 on, in their order, and one more place
\* behind them has the next.
LEMMA RankMore ==
    ASSUME NEW n \in Nat, NEW S \in SUBSET (1..n)
    PROVE  /\ IsFiniteSet(S) /\ Cardinality(S) \in Nat
           /\ Cardinality(S \cup {n + 1}) = Cardinality(S) + 1
           /\ \A i \in S : Rank(i, S \cup {n + 1}) = Rank(i, S)
           /\ Rank(n + 1, S \cup {n + 1}) = Cardinality(S) + 1
<1>1. IsFiniteSet(S) /\ Cardinality(S) \in Nat /\ n + 1 \notin S
  <2>1. IsFiniteSet(1..n)
    BY FS_Interval
  <2>2. IsFiniteSet(S)
    BY <2>1, FS_Subset
  <2> QED
    BY <2>2, FS_CardinalityType
<1>2. Cardinality(S \cup {n + 1}) = Cardinality(S) + 1
  BY <1>1, FS_AddElement
<1>3. ASSUME NEW i \in S PROVE Rank(i, S \cup {n + 1}) = Rank(i, S)
  <2>1. {j \in S \cup {n + 1} : j <= i} = {j \in S : j <= i}
    OBVIOUS
  <2> QED
    BY <2>1 DEF Rank
<1>4. {j \in S \cup {n + 1} : j <= n + 1} = S \cup {n + 1}
  <2>1. \A j \in S \cup {n + 1} : j <= n + 1
    OBVIOUS
  <2> QED
    BY <2>1
<1> QED
  BY <1>1, <1>2, <1>3, <1>4 DEF Rank

LEMMA RankOrder ==
    ASSUME NEW n \in Nat, NEW S \in SUBSET (1..n), NEW i \in S
    PROVE  /\ Rank(i, S) \in 1..Cardinality(S)
           /\ \A j \in S : i < j => Rank(i, S) < Rank(j, S)
           /\ (\A j \in S : j <= i) => Rank(i, S) = Cardinality(S)
<1> DEFINE Upto(k) == {j \in S : j <= k}
<1>1. IsFiniteSet(S) /\ Cardinality(S) \in Nat
  BY RankMore
<1>2. \A k : IsFiniteSet(Upto(k)) /\ Cardinality(Upto(k)) \in Nat /\ Cardinality(Upto(k)) <= Cardinality(S)
  BY <1>1, FS_Subset, FS_CardinalityType
<1>3. Cardinality(Upto(i)) # 0
  BY <1>2, FS_EmptySet
<1>4. ASSUME NEW j \in S, i < j PROVE Cardinality(Upto(i)) < Cardinality(Upto(j))
  <2>1. Upto(i) \in SUBSET S /\ Upto(j) \in SUBSET S /\ j \notin Upto(i) /\ Upto(i) \cup {j} \subseteq Upto(j)
    <3>1. \A k \in S : k <= i => k <= j
      BY <1>4
    <3>2. j <= j /\ ~(j <= i)
      BY <1>4
    <3> QED
      BY <3>1, <3>2
  <2>2. Cardinality(Upto(i)) + 1 <= Cardinality(Upto(j))
    <3> HIDE DEF Upto
    <3> QED
      BY <1>1, <2>1, OneMoreOrLess
  <2> QED
    BY <1>2, <2>2
<1>5. (\A j \in S : j <= i) => Upto(i) = S
  OBVIOUS
<1> QED
  BY <1>1, <1>2, <1>3, <1>4, <1>5 DEF Rank
----------------------------------------------------------------------------
\* The recursive function of FlattenSeq on the first m sequences.
Flattens(f, ss, m) == f = [i \in 1..m |-> IF i = 1 THEN ss[i] ELSE f[i - 1] \o ss[i]]

LEMMA FlattenExists ==
    ASSUME NEW ss, NEW m \in Nat
    PROVE  \E f : Flattens(f, ss, m)
<1> DEFINE Some == {k \in Nat : \E f : Flattens(f, ss, k)}
<1>1. 0 \in Some
  <2>1. Flattens([i \in 1..0 |-> <<>>], ss, 0)
    BY DEF Flattens
  <2> QED
    BY <2>1
<1>2. ASSUME NEW k \in Some PROVE k + 1 \in Some
  <2>1. PICK f : Flattens(f, ss, k)
    OBVIOUS
  <2> DEFINE g == [i \in 1..(k + 1) |-> IF i = k + 1 THEN (IF i = 1 THEN ss[i] ELSE f[k] \o ss[i])
                                                     ELSE f[i]]
  <2>2. ASSUME NEW i \in 1..(k + 1) PROVE g[i] = IF i = 1 THEN ss[i] ELSE g[i - 1] \o ss[i]
    <3>1. CASE i = k + 1
      BY <3>1
    <3>2. CASE i # k + 1
      <4>1. i \in 1..k /\ (i # 1 => i - 1 \in 1..k)
        BY <3>2
      <4>2. f[i] = IF i = 1 THEN ss[i] ELSE f[i - 1] \o ss[i]
        BY <2>1, <4>1 DEF Flattens
      <4>3. g[i] = f[i] /\ (i # 1 => g[i - 1] = f[i - 1])
        BY <3>2, <4>1
      <4> HIDE DEF g
      <4> QED
        BY <4>2, <4>3
    <3> QED
      BY <3>1, <3>2
  <2>3. g = [i \in 1..(k + 1) |-> IF i = 1 THEN ss[i] ELSE g[i - 1] \o ss[i]]
    <3>1. g = [i \in 1..(k + 1) |-> g[i]]
      OBVIOUS
    <3> HIDE DEF g
    <3> QED
      BY <2>2, <3>1
  <2> HIDE DEF g
  <2>4. Flattens(g, ss, k + 1)
    BY <2>3 DEF Flattens
  <2> QED
    BY <2>4
<1>3. Some = Nat
  <2> HIDE DEF Some
  <2>1. Some \in SUBSET Nat
    BY DEF Some
  <2> QED
    BY <1>1, <1>2, <2>1, InductiveSet
<1> QED
  BY <1>3

\* Two such functions agree as far as both go, and what they give is a sequence.
LEMMA FlattenUnique ==
    ASSUME NEW T, NEW ss, NEW tt, NEW m \in Nat, NEW n \in Nat, m <= n,
           \A i \in 1..m : ss[i] \in Seq(T) /\ tt[i] = ss[i],
           NEW f, Flattens(f, ss, m), NEW g, Flattens(g, tt, n)
    PROVE  \A i \in 1..m : f[i] = g[i] /\ f[i] \in Seq(T)
<1> DEFINE Same == {k \in Nat : k \in 1..m => f[k] = g[k] /\ f[k] \in Seq(T)}
<1>1. 0 \in Same
  OBVIOUS
<1>2. ASSUME NEW k \in Same PROVE k + 1 \in Same
  <2> SUFFICES ASSUME k + 1 \in 1..m PROVE f[k + 1] = g[k + 1] /\ f[k + 1] \in Seq(T)
    OBVIOUS
  <2>1. k + 1 \in 1..n /\ (k + 1) - 1 = k /\ tt[k + 1] = ss[k + 1] /\ ss[k + 1] \in Seq(T)
    OBVIOUS
  <2>2. f[k + 1] = IF k + 1 = 1 THEN ss[k + 1] ELSE f[k] \o ss[k + 1]
    BY <2>1 DEF Flattens
  <2>3. g[k + 1] = IF k + 1 = 1 THEN ss[k + 1] ELSE g[k] \o ss[k + 1]
    BY <2>1 DEF Flattens
  <2>4. k + 1 # 1 => f[k] = g[k] /\ f[k] \in Seq(T)
    OBVIOUS
  <2>5. CASE k + 1 = 1
    BY <2>1, <2>2, <2>3, <2>5
  <2>6. CASE k + 1 # 1
    <3>1. f[k] \o ss[k + 1] \in Seq(T)
      BY <2>1, <2>4, <2>6
    <3> QED
      BY <2>2, <2>3, <2>4, <2>6, <3>1
  <2> QED
    BY <2>5, <2>6
<1>3. Same = Nat
  <2> HIDE DEF Same
  <2>1. Same \in SUBSET Nat
    BY DEF Same
  <2> QED
    BY <1>1, <1>2, <2>1, InductiveSet
<1> QED
  BY <1>3

LEMMA FlattenIs ==
    ASSUME NEW T, NEW ss \in Seq(Seq(T)), ss # <<>>, NEW f, Flattens(f, ss, Len(ss))
    PROVE  FlattenSeq(ss) = f[Len(ss)] /\ f[Len(ss)] \in Seq(T)
<1>1. Len(ss) \in Nat /\ Len(ss) # 0 /\ Len(ss) \in 1..Len(ss) /\ \A i \in 1..Len(ss) : ss[i] \in Seq(T)
  BY EmptySeq, LenProperties, ElementOfSeq
<1> DEFINE c == CHOOSE w : Flattens(w, ss, Len(ss))
<1>2. FlattenSeq(ss) = c[Len(ss)]
  BY <1>1, Zenon DEF FlattenSeq, Flattens
<1>3. Flattens(c, ss, Len(ss))
  OBVIOUS
<1> HIDE DEF c
<1> DEFINE l == Len(ss)
<1>4. l <= l /\ \A i \in 1..l : ss[i] \in Seq(T) /\ ss[i] = ss[i]
  BY <1>1
<1>5. l \in Nat /\ Flattens(f, ss, l) /\ Flattens(c, ss, l) /\ l \in 1..l
  BY <1>1, <1>3
<1>6. \A i \in 1..l : f[i] = c[i] /\ f[i] \in Seq(T)
  <2> HIDE DEF l
  <2> QED
    BY <1>4, <1>5, FlattenUnique
<1> QED
  BY <1>2, <1>5, <1>6

\* FlattenSeq takes the sequences one after the other.
LEMMA FlattenAppend ==
    ASSUME NEW T, NEW ss \in Seq(Seq(T)), NEW s \in Seq(T)
    PROVE  /\ FlattenSeq(ss) \in Seq(T)
           /\ FlattenSeq(Append(ss, s)) = FlattenSeq(ss) \o s
<1> DEFINE l == Len(ss)
           a == Append(ss, s)
<1>1. /\ l \in Nat /\ a \in Seq(Seq(T)) /\ Len(a) = l + 1 /\ a[l + 1] = s /\ a # <<>>
      /\ \A i \in 1..l : a[i] = ss[i] /\ ss[i] \in Seq(T)
  <2>1. /\ a \in Seq(Seq(T)) /\ Len(a) = l + 1 /\ a[l + 1] = s /\ l \in Nat
        /\ \A i \in 1..l : a[i] = ss[i]
    BY AppendProperties, LenProperties
  <2> HIDE DEF a
  <2> QED
    BY <2>1, ElementOfSeq, EmptySeq
<1>2. PICK g : Flattens(g, a, l + 1)
  <2>1. l + 1 \in Nat
    BY <1>1
  <2> HIDE DEF a, l
  <2> QED
    BY <2>1, FlattenExists
<1>3. FlattenSeq(a) = g[l + 1]
  <2> HIDE DEF a, l
  <2> QED
    BY <1>1, <1>2, FlattenIs
<1>4. g[l + 1] = IF l + 1 = 1 THEN s ELSE g[l] \o s
  <2>1. l + 1 \in 1..(l + 1) /\ (l + 1) - 1 = l
    BY <1>1
  <2> HIDE DEF a, l
  <2> QED
    BY <1>1, <1>2, <2>1 DEF Flattens
<1>5. CASE ss = <<>>
  <2>1. l = 0 /\ FlattenSeq(ss) = <<>>
    BY <1>5, EmptySeq DEF FlattenSeq
  <2>2. <<>> \o s = s /\ <<>> \in Seq(T)
    OBVIOUS
  <2> QED
    BY <1>3, <1>4, <2>1, <2>2
<1>6. CASE ss # <<>>
  <2>1. PICK f : Flattens(f, ss, l)
    BY <1>1, FlattenExists
  <2>2. FlattenSeq(ss) = f[l] /\ f[l] \in Seq(T)
    BY <1>6, <2>1, FlattenIs
  <2>3. l # 0 /\ l \in 1..l
    BY <1>1, <1>6, EmptySeq
  <2>4. f[l] = g[l]
    <3> HIDE DEF a, l
    <3>1. l <= l + 1 /\ l + 1 \in Nat /\ \A i \in 1..l : ss[i] \in Seq(T) /\ a[i] = ss[i]
      BY <1>1
    <3>2. \A i \in 1..l : f[i] = g[i] /\ f[i] \in Seq(T)
      BY <1>1, <1>2, <2>1, <3>1, FlattenUnique
    <3> QED
      BY <2>3, <3>2
  <2> QED
    BY <1>1, <1>3, <1>4, <2>2, <2>3, <2>4
<1> QED
  BY <1>5, <1>6
----------------------------------------------------------------------------
\* A file with one line more.
LEMMA OneMoreLine ==
    ASSUME NEW f \in Seq(Lines), NEW line \in Lines
    PROVE  /\ Len(f) \in Nat /\ DOMAIN f = 1..Len(f) /\ \A j \in 1..Len(f) : f[j] \in Lines
           /\ Append(f, line) \in Seq(Lines) /\ Len(Append(f, line)) = Len(f) + 1
           /\ DOMAIN Append(f, line) = (1..Len(f)) \cup {Len(f) + 1}
           /\ \A j \in 1..Len(f) : Append(f, line)[j] = f[j]
           /\ Append(f, line)[Len(f) + 1] = line
<1> DEFINE g == Append(f, line)
<1>1. Len(f) \in Nat /\ DOMAIN f = 1..Len(f) /\ \A j \in 1..Len(f) : f[j] \in Lines
  BY LenProperties, ElementOfSeq
<1>2. /\ g \in Seq(Lines) /\ Len(g) = Len(f) + 1
      /\ \A j \in 1..Len(f) : g[j] = f[j]
      /\ g[Len(f) + 1] = line
  BY AppendProperties
<1>3. DOMAIN g = 1..Len(g)
  <2> HIDE DEF g
  <2> QED
    BY <1>2, LenProperties
<1> HIDE DEF g
<1>4. DOMAIN g = (1..Len(f)) \cup {Len(f) + 1}
  BY <1>1, <1>2, <1>3
<1> QED
  BY <1>1, <1>2, <1>4 DEF g

\* The file f with the line is g.
Longer(f, line, g) == f \in Seq(Lines) /\ line \in Lines /\ g = Append(f, line)

\* S is a set of places in f, and R is the new place or none.
Grows(f, line, g, S, R) ==
    Longer(f, line, g) /\ S \in SUBSET (1..Len(f)) /\ R \in SUBSET {Len(f) + 1}

\* What is found in a set of places stays there when the file grows, and the new line
\* is found too if its place is in the set.
LEMMA SameLines ==
    ASSUME NEW f, NEW line, NEW g, NEW S, NEW R, Grows(f, line, g, S, R)
    PROVE  (\A j \in S : g[j] = f[j]) /\ \A j \in R : g[j] = line
BY OneMoreLine DEF Grows, Longer

LEMMA WhereThere ==
    ASSUME NEW f, NEW line, NEW g, NEW S, NEW R, Grows(f, line, g, S, R), NEW words
    PROVE  Where(g, S \cup R, words)
              = Where(f, S, words) \cup (IF line.word \in words THEN R ELSE {})
BY SameLines DEF Where

LEMMA ClosingsThere ==
    ASSUME NEW f, NEW line, NEW g, NEW S, NEW R, Grows(f, line, g, S, R)
    PROVE  Closings(g, S \cup R) = Closings(f, S) \cup (IF line.closes THEN R ELSE {})
BY SameLines DEF Closings

LEMMA ValuesThere ==
    ASSUME NEW f, NEW line, NEW g, NEW S, NEW R, Grows(f, line, g, S, R), NEW k
    PROVE  ValuesWritten(g, S \cup R, k)
              = ValuesWritten(f, S, k) \cup (IF line.word = k /\ line.value # Unset THEN R ELSE {})
BY SameLines DEF ValuesWritten, Where

LEMMA ListensThere ==
    ASSUME NEW f, NEW line, NEW g, NEW S, NEW R, Grows(f, line, g, S, R), NEW ssl
    PROVE  Listens(g, S \cup R, ssl)
              = Listens(f, S, ssl) \cup (IF line.word = "listen" /\ line.ssl = ssl THEN R ELSE {})
BY SameLines DEF Listens, Where

\* The ports ps, and those of the line if it is one of R that adds to them.
AndPorts(ps, line, R, ssl) ==
    IF R # {} /\ line.word = "listen" /\ line.ssl = ssl THEN ps \o line.ports ELSE ps

LEMMA PortsAppend ==
    ASSUME NEW f, NEW line, NEW g, NEW S, NEW R, Grows(f, line, g, S, R), NEW ssl
    PROVE  PortsWritten(g, S \cup R, ssl) = AndPorts(PortsWritten(f, S, ssl), line, R, ssl)
<1> DEFINE n == Len(f)
           ss == [j \in DOMAIN f |-> IF j \in Listens(f, S, ssl) THEN f[j].ports ELSE <<>>]
           tt == [j \in DOMAIN g |-> IF j \in Listens(g, S \cup R, ssl) THEN g[j].ports ELSE <<>>]
           new == IF R # {} /\ line.word = "listen" /\ line.ssl = ssl THEN line.ports ELSE <<>>
<1>1. /\ n \in Nat /\ DOMAIN f = 1..n /\ \A j \in 1..n : f[j] \in Lines
      /\ DOMAIN g = (1..n) \cup {n + 1} /\ (\A j \in 1..n : g[j] = f[j]) /\ g[n + 1] = line
      /\ 1..(n + 1) = (1..n) \cup {n + 1} /\ n + 1 \notin 1..n
  <2>1. 1..(n + 1) = (1..n) \cup {n + 1} /\ n + 1 \notin 1..n
    BY OneMoreLine DEF Grows, Longer
  <2> QED
    BY <2>1, OneMoreLine DEF Grows, Longer
<1>2. Listens(g, S \cup R, ssl) = Listens(f, S, ssl)
                            \cup (IF line.word = "listen" /\ line.ssl = ssl THEN R ELSE {})
  BY ListensThere
<1>3. /\ Listens(f, S, ssl) \subseteq 1..n /\ R \subseteq {n + 1}
      /\ \A j \in Listens(f, S, ssl) : f[j].word = "listen"
  BY DEF Listens, Where, Grows, Longer
<1>4. new \in Seq(Ports)
  BY LineType DEF LineOf, Grows, Longer
<1>5. \A j \in 1..n : ss[j] \in Seq(Ports)
  BY <1>1, <1>3, LineType DEF LineOf
<1>6. ss \in Seq(Seq(Ports)) /\ Len(ss) = n
  <2>1. ss = [j \in 1..n |-> ss[j]]
    BY <1>1
  <2> HIDE DEF ss, n
  <2> QED
    BY <1>1, <1>5, <2>1, SeqOfFunction
<1>7. tt = Append(ss, new)
  <2> HIDE DEF n
  <2>1. Append(ss, new) \in Seq(Seq(Ports)) /\ Len(Append(ss, new)) = n + 1
        /\ (\A j \in 1..n : Append(ss, new)[j] = ss[j]) /\ Append(ss, new)[n + 1] = new
    <3> HIDE DEF ss, new
    <3> QED
      BY <1>4, <1>6, AppendProperties
  <2>2. \A j \in 1..n : tt[j] = ss[j] /\ ss[j] \in Seq(Ports)
    <3>1. \A j \in 1..n : j \in Listens(g, S \cup R, ssl) <=> j \in Listens(f, S, ssl)
      BY <1>1, <1>2, <1>3
    <3> QED
      BY <1>1, <1>5, <3>1
  <2>3. tt[n + 1] = new
    <3>1. n + 1 \in Listens(g, S \cup R, ssl) <=> R # {} /\ line.word = "listen" /\ line.ssl = ssl
      BY <1>1, <1>2, <1>3
    <3> QED
      BY <1>1, <3>1
  <2>4. tt = [j \in 1..(n + 1) |-> tt[j]]
    BY <1>1
  <2> HIDE DEF ss, tt, new
  <2>5. \A j \in 1..(n + 1) : tt[j] \in Seq(Ports) /\ tt[j] = Append(ss, new)[j]
    BY <1>1, <1>4, <2>1, <2>2, <2>3
  <2>6. tt \in Seq(Seq(Ports)) /\ Len(tt) = n + 1
    BY <1>1, <2>4, <2>5, SeqOfFunction
  <2> QED
    BY <2>1, <2>5, <2>6, SeqEqual
<1>8. FlattenSeq(ss) \in Seq(Ports) /\ FlattenSeq(tt) = FlattenSeq(ss) \o new
  <2> HIDE DEF ss, tt, new
  <2> QED
    BY <1>4, <1>6, <1>7, FlattenAppend
<1>9. FlattenSeq(ss) \o <<>> = FlattenSeq(ss)
  <2> HIDE DEF ss
  <2> QED
    BY <1>8
<1>10. PortsWritten(f, S, ssl) = FlattenSeq(ss) /\ PortsWritten(g, S \cup R, ssl) = FlattenSeq(tt)
  BY DEF PortsWritten
<1>11. PortsWritten(g, S \cup R, ssl) = PortsWritten(f, S, ssl) \o new
       /\ PortsWritten(f, S, ssl) \o <<>> = PortsWritten(f, S, ssl)
  <2> HIDE DEF ss, tt, new
  <2> QED
    BY <1>8, <1>9, <1>10
<1> QED
  BY <1>11 DEF AndPorts

\* Where nothing is written no port is.
LEMMA NoPorts ==
    ASSUME NEW f \in Seq(Lines), NEW ssl
    PROVE  PortsWritten(f, {}, ssl) = <<>>
<1> DEFINE none(m) == [j \in 1..m |-> <<>>]
           Empty == {m \in Nat : FlattenSeq(none(m)) = <<>> /\ none(m) \in Seq(Seq(Ports))}
<1>0. <<>> \in Seq(Ports) /\ <<>> \in Seq(Seq(Ports))
  OBVIOUS
<1>1. 0 \in Empty
  <2>1. none(0) = <<>>
    BY EmptySeq
  <2>2. FlattenSeq(<<>>) = <<>>
    BY DEF FlattenSeq
  <2> QED
    BY <1>0, <2>1, <2>2
<1>2. ASSUME NEW m \in Empty PROVE m + 1 \in Empty
  <2>1. Append(none(m), <<>>) \in Seq(Seq(Ports)) /\ Len(Append(none(m), <<>>)) = Len(none(m)) + 1
        /\ (\A j \in 1..Len(none(m)) : Append(none(m), <<>>)[j] = none(m)[j])
        /\ Append(none(m), <<>>)[Len(none(m)) + 1] = <<>>
    <3>1. none(m) \in Seq(Seq(Ports))
      OBVIOUS
    <3> HIDE DEF none
    <3> QED
      BY <1>0, <3>1, AppendProperties
  <2>2. m \in Nat /\ Len(none(m)) = m
    <3>1. m \in Nat /\ none(m) \in Seq(Seq(Ports)) /\ DOMAIN none(m) = 1..m
      OBVIOUS
    <3> HIDE DEF none
    <3> QED
      BY <3>1, LenProperties
  <2>3. none(m + 1) \in Seq(Seq(Ports)) /\ Len(none(m + 1)) = m + 1
    <3>1. none(m + 1) = [j \in 1..(m + 1) |-> none(m + 1)[j]] /\ m + 1 \in Nat
          /\ \A j \in 1..(m + 1) : none(m + 1)[j] \in Seq(Ports)
      BY <1>0
    <3> HIDE DEF none
    <3> QED
      BY <3>1, SeqOfFunction
  <2>4. \A j \in 1..(m + 1) : Append(none(m), <<>>)[j] = none(m + 1)[j]
    <3>1. \A j \in 1..m : none(m)[j] = <<>>
      OBVIOUS
    <3>2. \A j \in 1..(m + 1) : none(m + 1)[j] = <<>>
      OBVIOUS
    <3>3. m \in Nat /\ \A j \in 1..(m + 1) : j \in 1..m \/ j = m + 1
      OBVIOUS
    <3> HIDE DEF none
    <3> QED
      BY <2>1, <2>2, <3>1, <3>2, <3>3
  <2>5. none(m + 1) = Append(none(m), <<>>)
    <3> HIDE DEF none
    <3> QED
      BY <2>1, <2>2, <2>3, <2>4, SeqEqual
  <2>6. FlattenSeq(none(m + 1)) = FlattenSeq(none(m)) \o <<>>
    <3>1. none(m) \in Seq(Seq(Ports))
      OBVIOUS
    <3> HIDE DEF none
    <3> QED
      BY <1>0, <2>5, <3>1, FlattenAppend
  <2>7. FlattenSeq(none(m)) = <<>> /\ <<>> \o <<>> = <<>>
    OBVIOUS
  <2> HIDE DEF none
  <2> QED
    BY <2>2, <2>3, <2>6, <2>7
<1>3. Empty = Nat
  <2> HIDE DEF Empty
  <2>1. Empty \in SUBSET Nat
    BY DEF Empty
  <2> QED
    BY <1>1, <1>2, <2>1, InductiveSet
<1>4. Len(f) \in Nat /\ DOMAIN f = 1..Len(f)
  BY LenProperties
<1>5. PortsWritten(f, {}, ssl) = FlattenSeq(none(Len(f)))
  <2>1. Listens(f, {}, ssl) = {}
    BY DEF Listens, Where
  <2>2. [j \in DOMAIN f |-> IF j \in Listens(f, {}, ssl) THEN f[j].ports ELSE <<>>] = none(Len(f))
    BY <1>4, <2>1
  <2> HIDE DEF none
  <2> QED
    BY <2>2 DEF PortsWritten
<1> QED
  BY <1>3, <1>4, <1>5
----------------------------------------------------------------------------
\* HostAsWritten in two parts: what is in the server block itself, and its rules.
SettingsAsWritten(h, f, S) ==
    /\ \A k \in Keys : h.values[k] = IF ValuesWritten(f, S, k) = {} THEN Unset
                                     ELSE f[Max(ValuesWritten(f, S, k))].value
    /\ h.http = PortsWritten(f, S, FALSE) /\ h.https = PortsWritten(f, S, TRUE)

RulesAsWritten(rules, f, S) ==
    /\ Len(rules) = Cardinality(Where(f, S, {"location"}))
    /\ \A i \in Where(f, S, {"location"}) :
         RuleAsWritten(rules[Rank(i, Where(f, S, {"location"}))], f, S, i)

LEMMA HostInParts ==
    ASSUME NEW h, NEW f, NEW S
    PROVE  HostAsWritten(h, f, S) <=> SettingsAsWritten(h, f, S) /\ RulesAsWritten(h.rules, f, S)
BY DEF HostAsWritten, SettingsAsWritten, RulesAsWritten

\* The largest of the places found, and the line there, when the file grows by a line
\* that is not one of them.
LEMMA SameLast ==
    ASSUME NEW f, NEW line, NEW g, NEW S, NEW R, Grows(f, line, g, S, R),
           NEW W \in SUBSET S, W # {}
    PROVE  Max(W) \in W /\ g[Max(W)] = f[Max(W)]
<1>1. W \in SUBSET (1..Len(f)) /\ Len(f) \in Nat
  BY OneMoreLine DEF Grows, Longer
<1>2. Max(W) \in W
  BY <1>1, MaxIs
<1> QED
  BY <1>2, SameLines

\* A line that is no setting, or that the section does not have, changes no setting.
LEMMA SettingsKept ==
    ASSUME NEW f, NEW line, NEW g, NEW S, NEW R, Grows(f, line, g, S, R),
           R = {} \/ line.word \notin Keys \cup {"listen"},
           NEW h, SettingsAsWritten(h, f, S)
    PROVE  SettingsAsWritten(h, g, S \cup R)
<1>1. ASSUME NEW k \in Keys
      PROVE  h.values[k] = IF ValuesWritten(g, S \cup R, k) = {} THEN Unset
                           ELSE g[Max(ValuesWritten(g, S \cup R, k))].value
  <2>1. ValuesWritten(g, S \cup R, k) = ValuesWritten(f, S, k)
    <3>1. R = {} \/ line.word # k
      OBVIOUS
    <3>2. ValuesWritten(g, S \cup R, k)
              = ValuesWritten(f, S, k) \cup (IF line.word = k /\ line.value # Unset THEN R ELSE {})
      BY ValuesThere
    <3> QED
      BY <3>1, <3>2
  <2>2. ValuesWritten(f, S, k) \in SUBSET S
    BY DEF ValuesWritten, Where
  <2>3. ValuesWritten(f, S, k) # {}
            => g[Max(ValuesWritten(f, S, k))] = f[Max(ValuesWritten(f, S, k))]
    BY <2>2, SameLast
  <2> QED
    BY <2>1, <2>3 DEF SettingsAsWritten
<1>2. ASSUME NEW ssl PROVE PortsWritten(g, S \cup R, ssl) = PortsWritten(f, S, ssl)
  <2>1. PortsWritten(g, S \cup R, ssl) = AndPorts(PortsWritten(f, S, ssl), line, R, ssl)
    BY PortsAppend
  <2> QED
    BY <2>1 DEF AndPorts
<1> QED
  BY <1>1, <1>2 DEF SettingsAsWritten

\* readValue() and parseListenPorts() do what the line says.
LEMMA SettingsFilled ==
    ASSUME NEW f, NEW line, NEW g, NEW S, NEW R, Grows(f, line, g, S, R), R # {},
           host \in HostRecords, SettingsAsWritten(host, f, S), 
           line.word \in Keys \cup {"listen"}
    PROVE  SettingsAsWritten(Filled(line), g, S \cup R) /\ Filled(line).rules = host.rules
<1>1. LineOf(line) /\ Len(f) \in Nat /\ R = {Len(f) + 1}
  <2>1. f \in Seq(Lines) /\ line \in Lines /\ R \in SUBSET {Len(f) + 1}
    BY DEF Grows, Longer
  <2> QED
    BY <2>1, LineType, LenProperties
<1>2. CASE line.word \in Keys
  <2> DEFINE key == line.word
  <2>1. line.word # "listen"
    BY <1>2
  <2>2. /\ Filled(line).http = host.http /\ Filled(line).https = host.https
        /\ Filled(line).rules = host.rules
        /\ \A k \in Keys : Filled(line).values[k] =
              IF k = key /\ line.value # Unset THEN line.value ELSE host.values[k]
    BY <1>2, <2>1 DEF Filled, HostRecords
  <2>3. ASSUME NEW ssl PROVE PortsWritten(g, S \cup R, ssl) = PortsWritten(f, S, ssl)
    <3>1. PortsWritten(g, S \cup R, ssl) = AndPorts(PortsWritten(f, S, ssl), line, R, ssl)
      BY PortsAppend
    <3> QED
      BY <2>1, <3>1 DEF AndPorts
  <2>4. ASSUME NEW k \in Keys
        PROVE  Filled(line).values[k] = IF ValuesWritten(g, S \cup R, k) = {} THEN Unset
                                   ELSE g[Max(ValuesWritten(g, S \cup R, k))].value
    <3>1. ValuesWritten(f, S, k) \in SUBSET S /\ S \in SUBSET (1..Len(f))
      BY DEF ValuesWritten, Where, Grows, Longer
    <3>2. CASE k = key /\ line.value # Unset
      <4>1. ValuesWritten(g, S \cup R, k) = ValuesWritten(f, S, k) \cup {Len(f) + 1}
        BY <1>1, <3>2, ValuesThere
      <4>2. Max(ValuesWritten(g, S \cup R, k)) = Len(f) + 1
        <5>1. ValuesWritten(f, S, k) \in SUBSET (1..Len(f))
          BY <3>1
        <5> QED
          BY <1>1, <4>1, <5>1, MaxLast
      <4>3. g[Len(f) + 1] = line
        BY <1>1, SameLines
      <4> QED
        BY <2>2, <3>2, <4>1, <4>2, <4>3
    <3>3. CASE ~(k = key /\ line.value # Unset)
      <4>1. ValuesWritten(g, S \cup R, k) = ValuesWritten(f, S, k)
        <5>1. ValuesWritten(g, S \cup R, k)
                = ValuesWritten(f, S, k) \cup (IF line.word = k /\ line.value # Unset THEN R ELSE {})
          BY ValuesThere
        <5> QED
          BY <3>3, <5>1
      <4>2. ValuesWritten(f, S, k) # {}
                => g[Max(ValuesWritten(f, S, k))] = f[Max(ValuesWritten(f, S, k))]
        BY <3>1, SameLast
      <4>3. Filled(line).values[k] = host.values[k]
        BY <2>2, <3>3
      <4>4. host.values[k] = IF ValuesWritten(f, S, k) = {} THEN Unset
                             ELSE f[Max(ValuesWritten(f, S, k))].value
        BY DEF SettingsAsWritten
      <4> QED
        BY <4>1, <4>2, <4>3, <4>4
    <3> QED
      BY <3>2, <3>3
  <2> QED
    BY <2>2, <2>3, <2>4 DEF SettingsAsWritten
<1>3. CASE line.word = "listen"
  <2>1. line.word \notin Keys
    BY <1>3
  <2>2. Filled(line) = WithPorts(line) /\ line.ssl \in BOOLEAN
    BY <1>1, <1>3, <2>1 DEF Filled, LineOf
  <2>3. \A k \in Keys : ValuesWritten(g, S \cup R, k) = ValuesWritten(f, S, k)
    BY <2>1, ValuesThere
  <2>4. \A k \in Keys : ValuesWritten(f, S, k) # {}
            => g[Max(ValuesWritten(f, S, k))] = f[Max(ValuesWritten(f, S, k))]
    <3>1. \A k \in Keys : ValuesWritten(f, S, k) \in SUBSET S
      BY DEF ValuesWritten, Where
    <3> QED
      BY <3>1, SameLast
  <2>5. Filled(line).values = host.values /\ Filled(line).rules = host.rules
    BY <2>2 DEF WithPorts, HostRecords
  <2>6. \A k \in Keys : Filled(line).values[k] =
            IF ValuesWritten(g, S \cup R, k) = {} THEN Unset
                                   ELSE g[Max(ValuesWritten(g, S \cup R, k))].value
    BY <2>3, <2>4, <2>5 DEF SettingsAsWritten
  <2>7. ASSUME NEW ssl
        PROVE PortsWritten(g, S \cup R, ssl) =
                IF line.ssl = ssl THEN PortsWritten(f, S, ssl) \o line.ports ELSE PortsWritten(f, S, ssl)
    <3>1. PortsWritten(g, S \cup R, ssl) = AndPorts(PortsWritten(f, S, ssl), line, R, ssl)
      BY PortsAppend
    <3> QED
      BY <1>3, <3>1 DEF AndPorts
  <2>8. CASE line.ssl = TRUE
    <3>1. Filled(line).https = host.https \o line.ports /\ Filled(line).http = host.http
      BY <2>2, <2>8 DEF WithPorts, HostRecords
    <3>2. /\ PortsWritten(g, S \cup R, TRUE) = PortsWritten(f, S, TRUE) \o line.ports
          /\ PortsWritten(g, S \cup R, FALSE) = PortsWritten(f, S, FALSE)
      BY <2>7, <2>8
    <3> QED
      BY <2>5, <2>6, <3>1, <3>2 DEF SettingsAsWritten
  <2>9. CASE line.ssl = FALSE
    <3>1. Filled(line).http = host.http \o line.ports /\ Filled(line).https = host.https
      BY <2>2, <2>9 DEF WithPorts, HostRecords
    <3>2. /\ PortsWritten(g, S \cup R, FALSE) = PortsWritten(f, S, FALSE) \o line.ports
          /\ PortsWritten(g, S \cup R, TRUE) = PortsWritten(f, S, TRUE)
      BY <2>7, <2>9
    <3> QED
      BY <2>5, <2>6, <3>1, <3>2 DEF SettingsAsWritten
  <2> QED
    BY <2>2, <2>8, <2>9
<1> QED
  BY <1>2, <1>3
----------------------------------------------------------------------------
\* A line that has no word on a rule, or that comes after the end of the rule's block,
\* does not change what the rule should be.
Ended(f, S, i) == \E b \in Closings(f, S) : i < b

LEMMA BlockThere ==
    ASSUME NEW f, NEW line, NEW g, NEW S, NEW R, Grows(f, line, g, S, R), NEW i \in S
    PROVE  /\ Block(f, S, i) \subseteq Block(g, S \cup R, i)
           /\ Block(g, S \cup R, i) \subseteq Block(f, S, i) \cup R
           /\ Ended(f, S, i) \/ line.closes => Block(g, S \cup R, i) = Block(f, S, i)
           /\ ~Ended(f, S, i) /\ ~line.closes => Block(g, S \cup R, i) = Block(f, S, i) \cup R
<1>1. /\ S \in SUBSET (1..Len(f)) /\ R \in SUBSET {Len(f) + 1} /\ Len(f) \in Nat
  <2>1. f \in Seq(Lines)
    BY DEF Grows, Longer
  <2> QED
    BY <2>1, LenProperties DEF Grows, Longer
<1>2. Closings(g, S \cup R) = Closings(f, S) \cup (IF line.closes THEN R ELSE {})
  BY ClosingsThere
<1>3. Closings(f, S) \subseteq S
  BY DEF Closings
<1>4. (\A j \in S : j \in Int /\ j <= Len(f)) /\ \A j \in R : j = Len(f) + 1
  BY <1>1
<1>5. \A j \in S, b \in R : j < b /\ ~(b < j) /\ ~(b < b)
  BY <1>1, <1>4
<1>6. Block(f, S, i) \subseteq Block(g, S \cup R, i)
  BY <1>2, <1>5 DEF Block
<1>7. Block(g, S \cup R, i) \subseteq Block(f, S, i) \cup R
  BY <1>2 DEF Block
<1>8. ASSUME Ended(f, S, i) \/ line.closes PROVE R \cap Block(g, S \cup R, i) = {}
  <2>1. ASSUME NEW n \in R, n \in Block(g, S \cup R, i) PROVE FALSE
    <3>1. CASE line.closes
      BY <1>2, <1>5, <2>1, <3>1 DEF Block
    <3>2. CASE Ended(f, S, i)
      <4>1. PICK b \in Closings(f, S) : i < b
        BY <3>2 DEF Ended
      <4> QED
        BY <1>2, <1>3, <1>5, <2>1, <4>1 DEF Block
    <3> QED
      BY <1>8, <3>1, <3>2
  <2> QED
    BY <2>1
<1>9. ASSUME ~Ended(f, S, i), ~line.closes PROVE R \subseteq Block(g, S \cup R, i)
  BY <1>2, <1>5, <1>9 DEF Block, Ended
<1> QED
  BY <1>6, <1>7, <1>8, <1>9

Words == {"proxy_pass", "root"}

\* What a rule's block says of the rule is the same when the words in it are.
LEMMA SameRule ==
    ASSUME NEW f, NEW line, NEW g, NEW S, NEW R, Grows(f, line, g, S, R), NEW i \in S,
           R = {} \/ line.word \notin Words \/ Ended(f, S, i),
           NEW r, RuleAsWritten(r, f, S, i)
    PROVE  RuleAsWritten(r, g, S \cup R, i)
<1> DEFINE B == Block(f, S, i)
           C == Block(g, S \cup R, i)
<1>1. B \in SUBSET S /\ B \subseteq C /\ C \subseteq B \cup R
  BY BlockThere DEF Block
<1>2. ASSUME NEW words, words \subseteq Words
      PROVE  Where(g, C, words) = Where(f, B, words)
  <2> HIDE DEF B, C
  <2>1. (\A j \in B : g[j] = f[j]) /\ \A j \in R : g[j] = line
    BY <1>1, SameLines
  <2>2. CASE R = {} \/ line.word \notin Words
    BY <1>1, <1>2, <2>1, <2>2 DEF Where
  <2>3. CASE Ended(f, S, i)
    <3>1. C = B
      BY <2>3, BlockThere DEF B, C
    <3> QED
      BY <2>1, <3>1 DEF Where
  <2> QED
    BY <2>2, <2>3
<1>3. /\ Where(g, C, {"proxy_pass"}) = Where(f, B, {"proxy_pass"})
      /\ Where(g, C, {"proxy_pass", "root"}) = Where(f, B, {"proxy_pass", "root"})
  <2> HIDE DEF B, C
  <2> QED
    BY <1>2 DEF Words
<1>4. Where(f, B, {"proxy_pass"}) # {}
          => g[Max(Where(f, B, {"proxy_pass"}))] = f[Max(Where(f, B, {"proxy_pass"}))]
  <2> HIDE DEF B, C
  <2>1. Where(f, B, {"proxy_pass"}) \in SUBSET S
    BY <1>1 DEF Where
  <2> QED
    BY <2>1, SameLast
<1>5. g[i] = f[i]
  BY SameLines
<1> QED
  BY <1>3, <1>4, <1>5 DEF RuleAsWritten, Goes

\* Every location of S has ended.
AllEnded(f, S) == \A i \in Where(f, S, {"location"}) : Ended(f, S, i)

LEMMA RulesKept ==
    ASSUME NEW f, NEW line, NEW g, NEW S, NEW R, Grows(f, line, g, S, R),
           R = {} \/ (line.word # "location" /\ (line.word \notin Words \/ AllEnded(f, S))),
           NEW rules, RulesAsWritten(rules, f, S)
    PROVE  RulesAsWritten(rules, g, S \cup R)
<1>1. Where(g, S \cup R, {"location"})
              = Where(f, S, {"location"}) \cup (IF line.word \in {"location"} THEN R ELSE {})
  BY WhereThere
<1>2. Where(g, S \cup R, {"location"}) = Where(f, S, {"location"})
  BY <1>1
<1>3. ASSUME NEW i \in Where(f, S, {"location"})
      PROVE RuleAsWritten(rules[Rank(i, Where(f, S, {"location"}))], g, S \cup R, i)
  <2>1. i \in S /\ RuleAsWritten(rules[Rank(i, Where(f, S, {"location"}))], f, S, i)
    BY DEF RulesAsWritten, Where
  <2>2. R = {} \/ line.word \notin Words \/ Ended(f, S, i)
    BY DEF AllEnded
  <2> QED
    BY <2>1, <2>2, SameRule
<1>4. Len(rules) = Cardinality(Where(f, S, {"location"}))
  BY DEF RulesAsWritten
<1> QED
  BY <1>2, <1>3, <1>4 DEF RulesAsWritten

\* A new location has a rule of its own, which knows its path.
LEMMA RuleOpened ==
    ASSUME NEW f, NEW line, NEW g, NEW S, NEW R, Grows(f, line, g, S, R), R # {},
           line.word = "location", NEW rules \in Seq(Rules), RulesAsWritten(rules, f, S),
           NEW garbage \in BOOLEAN
    PROVE  RulesAsWritten(Append(rules, NewRule(line.path, garbage)), g, S \cup R)
<1> DEFINE L == Where(f, S, {"location"})
           M == Where(g, S \cup R, {"location"})
           n == Len(f)
           new == NewRule(line.path, garbage)
           more == Append(rules, new)
<1>1. n \in Nat /\ R = {n + 1} /\ S \in SUBSET (1..n) /\ L \in SUBSET (1..n) /\ line \in Lines
  <2>1. f \in Seq(Lines)
    BY DEF Grows, Longer
  <2> QED
    BY <2>1, LenProperties DEF Grows, Longer, Where
<1>2. M = L \cup {n + 1}
  <2>1. M = L \cup (IF line.word \in {"location"} THEN R ELSE {})
    BY WhereThere
  <2> QED
    BY <1>1, <2>1
<1>3. new \in Rules
  BY <1>1, LineType DEF LineOf, NewRule, Rules
<1>4. /\ Len(rules) \in Nat /\ Len(more) = Len(rules) + 1 /\ more[Len(rules) + 1] = new
      /\ \A j \in 1..Len(rules) : more[j] = rules[j]
  <2> HIDE DEF new
  <2> QED
    BY <1>3, AppendProperties, LenProperties
<1>5. Len(rules) = Cardinality(L) /\ \A i \in L : RuleAsWritten(rules[Rank(i, L)], f, S, i)
  BY DEF RulesAsWritten
<1>6. /\ Cardinality(M) = Cardinality(L) + 1 /\ Rank(n + 1, M) = Cardinality(L) + 1
      /\ \A i \in L : Rank(i, M) = Rank(i, L) /\ Rank(i, L) \in 1..Cardinality(L)
  <2> HIDE DEF L, M, n
  <2>1. /\ Cardinality(L \cup {n + 1}) = Cardinality(L) + 1
        /\ Rank(n + 1, L \cup {n + 1}) = Cardinality(L) + 1
        /\ \A i \in L : Rank(i, L \cup {n + 1}) = Rank(i, L)
    BY <1>1, RankMore
  <2>2. \A i \in L : Rank(i, L) \in 1..Cardinality(L)
    BY <1>1, RankOrder
  <2> QED
    BY <1>2, <2>1, <2>2
<1>7. ASSUME NEW i \in L PROVE RuleAsWritten(more[Rank(i, M)], g, S \cup R, i)
  <2>1. i \in S /\ RuleAsWritten(rules[Rank(i, L)], f, S, i) /\ more[Rank(i, M)] = rules[Rank(i, L)]
    <3>1. i \in S
      BY DEF Where
    <3> HIDE DEF L, M, more
    <3> QED
      BY <1>4, <1>5, <1>6, <3>1
  <2>2. line.word \notin Words
    BY DEF Words
  <2> HIDE DEF L, M, more
  <2> QED
    BY <2>1, <2>2, SameRule
<1>8. RuleAsWritten(new, g, S \cup R, n + 1)
  <2>1. g[n + 1] = line
    BY <1>1, SameLines
  <2>2. Block(g, S \cup R, n + 1) = {}
    <3>1. \A j \in S \cup R : ~(n + 1 < j)
      BY <1>1
    <3> QED
      BY <3>1 DEF Block
  <2>3. \A words : Where(g, {}, words) = {}
    BY DEF Where
  <2>4. new.path = line.path
    BY DEF NewRule
  <2> HIDE DEF new, n
  <2> QED
    BY <2>1, <2>2, <2>3, <2>4 DEF RuleAsWritten, Goes
<1>9. \A i \in M : RuleAsWritten(more[Rank(i, M)], g, S \cup R, i)
  <2> HIDE DEF L, M, more, new, n
  <2> QED
    BY <1>2, <1>4, <1>5, <1>6, <1>7, <1>8
<1> QED
  BY <1>4, <1>5, <1>6, <1>9 DEF RulesAsWritten

\* The location that is being read: the last of the section, and the only one whose
\* block has not ended.
Open(f, S, l) ==
    /\ l \in Where(f, S, {"location"}) /\ ~Ended(f, S, l)
    /\ \A i \in Where(f, S, {"location"}) : i # l => i < l /\ Ended(f, S, i)

\* A word in the open location changes the rule that is being filled and no other.
LEMMA RuleRead ==
    ASSUME NEW f, NEW line, NEW g, NEW S, NEW R, Grows(f, line, g, S, R), R # {},
           line.word \in Words, NEW rules \in Seq(Rules), rule \in Rules,
           RulesAsWritten(Append(rules, rule), f, S), NEW l, Open(f, S, l)
    PROVE  RulesAsWritten(Append(rules, Ruled(line)), g, S \cup R)
<1> DEFINE L == Where(f, S, {"location"})
           n == Len(f)
           old == Append(rules, rule)
           new == Append(rules, Ruled(line))
<1>1. n \in Nat /\ R = {n + 1} /\ S \in SUBSET (1..n) /\ L \in SUBSET (1..n) /\ line \in Lines
  <2>1. f \in Seq(Lines)
    BY DEF Grows, Longer
  <2> QED
    BY <2>1, LenProperties DEF Grows, Longer, Where
<1>2. Where(g, S \cup R, {"location"}) = L
  <2>1. Where(g, S \cup R, {"location"}) = L \cup (IF line.word \in {"location"} THEN R ELSE {})
    BY WhereThere
  <2> QED
    BY <2>1 DEF Words
<1>3. LineOf(line) /\ Ruled(line) \in Rules
  BY <1>1, LineType, RuledType
<1>4. /\ Len(rules) \in Nat /\ Len(old) = Len(rules) + 1 /\ Len(new) = Len(rules) + 1
      /\ old[Len(rules) + 1] = rule /\ new[Len(rules) + 1] = Ruled(line)
      /\ \A j \in 1..Len(rules) : old[j] = rules[j] /\ new[j] = rules[j]
  BY <1>3, AppendProperties, LenProperties
<1>5. Len(old) = Cardinality(L) /\ \A i \in L : RuleAsWritten(old[Rank(i, L)], f, S, i)
  BY DEF RulesAsWritten
<1>6. l \in L /\ l \in S /\ ~Ended(f, S, l) /\ \A i \in L : i # l => i < l /\ Ended(f, S, i) /\ i \in S
  BY DEF Open, Where
<1>7. Rank(l, L) = Len(rules) + 1 /\ \A i \in L : i # l => Rank(i, L) \in 1..Len(rules)
  <2>1. Rank(l, L) = Cardinality(L) /\ \A i \in L : i # l => Rank(i, L) < Rank(l, L)
    <3>1. \A i \in L : i <= l
      BY <1>1, <1>6
    <3> HIDE DEF L, n
    <3> QED
      BY <1>1, <1>6, <3>1, RankOrder
  <2>2. \A i \in L : Rank(i, L) \in Nat \ {0}
    <3> HIDE DEF L, n
    <3>1. \A i \in L : Rank(i, L) \in 1..Cardinality(L)
      BY <1>1, RankOrder
    <3> QED
      BY <3>1
  <2> HIDE DEF L, old, new
  <2> QED
    BY <1>4, <1>5, <2>1, <2>2
<1>8. ASSUME NEW i \in L, i # l PROVE RuleAsWritten(new[Rank(i, L)], g, S \cup R, i)
  <2>1. RuleAsWritten(old[Rank(i, L)], f, S, i) /\ old[Rank(i, L)] = new[Rank(i, L)]
    BY <1>4, <1>5, <1>7, <1>8
  <2>2. i \in S /\ Ended(f, S, i)
    BY <1>6, <1>8
  <2> HIDE DEF L, old, new
  <2> QED
    BY <2>1, <2>2, SameRule
<1>9. RuleAsWritten(rule, f, S, l)
  <2> HIDE DEF L, old
  <2> QED
    BY <1>4, <1>5, <1>6, <1>7
<1>10. RuleAsWritten(Ruled(line), g, S \cup R, l)
  <2> DEFINE B == Block(f, S, l)
             P == Where(f, B, {"proxy_pass"})
             W == Where(f, B, {"proxy_pass", "root"})
  <2>1. Block(g, S \cup R, l) = B \cup R
    <3>1. ~line.closes
      BY <1>3 DEF LineOf, Words
    <3> QED
      BY <1>6, <3>1, BlockThere
  <2>2. B \in SUBSET (1..n) /\ B \in SUBSET S /\ P \in SUBSET (1..n) /\ W \in SUBSET (1..n) /\ P \in SUBSET S
    BY <1>1 DEF Block, Where
  <2>3. (\A j \in B : g[j] = f[j]) /\ g[n + 1] = line /\ g[l] = f[l]
    BY <1>1, <1>6, <2>2, SameLines
  <2>4. Where(g, B \cup R, {"proxy_pass", "root"}) = W \cup {n + 1}
    <3> HIDE DEF B, n
    <3> QED
      BY <1>1, <2>3 DEF Where, Words
  <2>5. Max(W \cup {n + 1}) = n + 1
    <3> HIDE DEF W, n
    <3> QED
      BY <1>1, <2>2, MaxLast
  <2>6. CASE line.word = "proxy_pass"
    <3>1. Where(g, B \cup R, {"proxy_pass"}) = P \cup {n + 1}
      <4> HIDE DEF B, n
      <4> QED
        BY <1>1, <2>3, <2>6 DEF Where
    <3>2. Max(P \cup {n + 1}) = n + 1
      <4> HIDE DEF P, n
      <4> QED
        BY <1>1, <2>2, MaxLast
    <3>3. /\ Ruled(line).path = rule.path /\ Ruled(line).proxy = TRUE /\ Ruled(line).host = line.host
          /\ Ruled(line).port = IF line.port = NoPort THEN DefaultPort ELSE line.port
      BY <2>6 DEF Ruled, ParseProxy, Rules
    <3>4. rule.path = f[l].path
      BY <1>9 DEF RuleAsWritten
    <3> HIDE DEF B, P, W, n
    <3> QED
      BY <2>1, <2>3, <2>4, <2>5, <3>1, <3>2, <3>3, <3>4 DEF RuleAsWritten, Goes
  <2>7. CASE line.word = "root"
    <3>1. Where(g, B \cup R, {"proxy_pass"}) = P
      <4> HIDE DEF B, n
      <4> QED
        BY <1>1, <2>3, <2>7 DEF Where
    <3>2. n + 1 \notin P
      <4> HIDE DEF P, n
      <4> QED
        BY <1>1, <2>2
    <3>3. P # {} => g[Max(P)] = f[Max(P)]
      <4> HIDE DEF B, P, W, n
      <4>1. P \in SUBSET S
        BY <2>2
      <4>2. ASSUME P # {} PROVE g[Max(P)] = f[Max(P)]
        BY <4>1, <4>2, SameLast
      <4> QED
        BY <4>2
    <3>4. /\ Ruled(line).path = rule.path /\ Ruled(line).proxy = FALSE
          /\ Ruled(line).host = rule.host /\ Ruled(line).port = rule.port
      BY <2>7 DEF Ruled, Rules
    <3>5. rule.path = f[l].path
      BY <1>9 DEF RuleAsWritten
    <3>6. P # {} => /\ rule.host = f[Max(P)].host
                    /\ rule.port = IF f[Max(P)].port = NoPort THEN DefaultPort ELSE f[Max(P)].port
      BY <1>9 DEF RuleAsWritten, Goes
    <3>7. /\ Where(g, Block(g, S \cup R, l), {"proxy_pass"}) = P
          /\ Where(g, Block(g, S \cup R, l), {"proxy_pass", "root"}) = W \cup {n + 1}
      BY <2>1, <2>4, <3>1
    <3> HIDE DEF B, P, W, n
    <3>8. Ruled(line).proxy = (Max(W \cup {n + 1}) \in P)
      <4>1. ~(Max(W \cup {n + 1}) \in P)
        BY <2>5, <3>2
      <4>2. (Max(W \cup {n + 1}) \in P) = FALSE
        BY <4>1
      <4>3. Ruled(line).proxy = FALSE
        BY <3>4
      <4> QED
        BY <4>2, <4>3
    <3>9. Ruled(line).path = g[l].path
      BY <2>3, <3>4, <3>5
    <3>10. P # {} => /\ Ruled(line).host = g[Max(P)].host
                     /\ Ruled(line).port = IF g[Max(P)].port = NoPort THEN DefaultPort ELSE g[Max(P)].port
      BY <3>3, <3>4, <3>6
    <3> QED
      BY <3>7, <3>8, <3>9, <3>10 DEF RuleAsWritten, Goes
  <2> QED
    BY <2>6, <2>7 DEF Words
<1>11. \A i \in L : RuleAsWritten(new[Rank(i, L)], g, S \cup R, i)
  <2> HIDE DEF L, new
  <2> QED
    BY <1>4, <1>7, <1>8, <1>10
<1> QED
  BY <1>2, <1>4, <1>5, <1>11 DEF RulesAsWritten
----------------------------------------------------------------------------
\* The lines after the last `server`; all lines, if there is none.
Latest(f) == {j \in DOMAIN f : \A b \in Starts(f) : b < j}

LEMMA StartsThere ==
    ASSUME NEW f, NEW line, NEW g, Longer(f, line, g)
    PROVE  /\ Len(f) \in Nat /\ DOMAIN f = 1..Len(f) /\ DOMAIN g = (1..Len(f)) \cup {Len(f) + 1}
           /\ Starts(f) \in SUBSET (1..Len(f)) /\ Latest(f) \in SUBSET (1..Len(f))
           /\ line.word # "server" => Starts(g) = Starts(f)
           /\ line.word = "server" => Starts(g) = Starts(f) \cup {Len(f) + 1}
<1>1. /\ Len(f) \in Nat /\ DOMAIN f = 1..Len(f) /\ DOMAIN g = (1..Len(f)) \cup {Len(f) + 1}
  BY OneMoreLine DEF Longer
<1>2. Starts(f) \in SUBSET (1..Len(f)) /\ Latest(f) \in SUBSET (1..Len(f))
  BY <1>1 DEF Starts, Where, Latest
<1>3. Grows(f, line, g, 1..Len(f), {Len(f) + 1})
  BY DEF Grows
<1>4. Where(g, (1..Len(f)) \cup {Len(f) + 1}, {"server"}) = Where(f, 1..Len(f), {"server"})
            \cup (IF line.word \in {"server"} THEN {Len(f) + 1} ELSE {})
  BY <1>3, WhereThere
<1> QED
  BY <1>1, <1>2, <1>4 DEF Starts

\* A new line is one more of the last section, or opens a section; the sections
\* before stay as they are.
LEMMA SectionsThere ==
    ASSUME NEW f, NEW line, NEW g, Longer(f, line, g)
    PROVE  /\ \A i \in Starts(f) : /\ Section(f, i) \in SUBSET (1..Len(f))
                                   /\ (\A b \in Starts(f) : b <= i) => Section(f, i) = Latest(f)
                                   /\ line.word = "server" \/ (\E b \in Starts(f) : i < b)
                                        => Section(g, i) = Section(f, i)
           /\ line.word = "server" => Section(g, Len(f) + 1) = {} /\ Latest(g) = {}
           /\ line.word # "server" =>
                /\ Latest(g) = Latest(f) \cup {Len(f) + 1}
                /\ \A i \in Starts(f) : (\A b \in Starts(f) : b <= i) => Section(g, i) = Latest(g)
<1> DEFINE n == Len(f)
           A == Starts(f)
<1>1. /\ n \in Nat /\ DOMAIN f = 1..n /\ DOMAIN g = (1..n) \cup {n + 1} /\ A \in SUBSET (1..n)
      /\ line.word # "server" => Starts(g) = A
      /\ line.word = "server" => Starts(g) = A \cup {n + 1}
  BY StartsThere
<1> HIDE DEF A, n
<1>2. \A j \in 1..n : j \in Int /\ j < n + 1 /\ ~(n + 1 < j) /\ j # n + 1
  BY <1>1
<1>3. ~(n + 1 < n + 1)
  BY <1>1
<1>4. ASSUME NEW i \in A PROVE Section(f, i) \in SUBSET (1..n)
  BY <1>1 DEF Section
<1>5. ASSUME NEW i \in A, \A b \in A : b <= i PROVE Section(f, i) = Latest(f)
  <2>1. \A b \in A, j \in 1..n : b <= i /\ i < j => b < j
    BY <1>1, <1>2
  <2>2. \A b \in A : ~(i < b)
    BY <1>1, <1>2, <1>5
  <2> QED
    BY <1>1, <1>5, <2>1, <2>2 DEF Section, Latest, A
<1>6. ASSUME NEW i \in A, line.word = "server" PROVE Section(g, i) = Section(f, i)
  <2>1. i < n + 1 /\ Starts(g) = A \cup {n + 1}
    BY <1>1, <1>2, <1>6
  <2> QED
    BY <1>1, <1>2, <1>3, <2>1 DEF Section, A
<1>7. ASSUME NEW i \in A, line.word # "server", NEW b \in A, i < b PROVE Section(g, i) = Section(f, i)
  <2>1. Starts(g) = A /\ ~(n + 1 < b)
    BY <1>1, <1>2, <1>7
  <2> QED
    BY <1>1, <1>7, <2>1 DEF Section, A
<1>8. ASSUME line.word = "server" PROVE Section(g, n + 1) = {} /\ Latest(g) = {}
  <2>1. n + 1 \in Starts(g)
    BY <1>1, <1>8
  <2>2. \A j \in DOMAIN g : ~(n + 1 < j)
    BY <1>1, <1>2, <1>3
  <2> QED
    BY <2>1, <2>2 DEF Section, Latest
<1>9. ASSUME line.word # "server" PROVE Latest(g) = Latest(f) \cup {n + 1}
  BY <1>1, <1>2, <1>9 DEF Latest, A
<1>10. ASSUME line.word # "server", NEW i \in A, \A b \in A : b <= i PROVE Section(g, i) = Latest(g)
  <2>1. \A b \in A, j \in DOMAIN g : b <= i /\ i < j => b < j
    BY <1>1, <1>2
  <2>2. \A b \in A : ~(i < b)
    BY <1>1, <1>2, <1>10
  <2>3. Starts(g) = A
    BY <1>1, <1>10
  <2> QED
    BY <1>10, <2>1, <2>2, <2>3 DEF Section, Latest
<1> QED
  BY <1>4, <1>5, <1>6, <1>7, <1>8, <1>9, <1>10 DEF A, n
----------------------------------------------------------------------------
\* A host of an earlier section is not touched by what follows, and an empty section
\* is a host without anything.
LEMMA HostKept ==
    ASSUME NEW f, NEW line, NEW g, Longer(f, line, g), NEW S \in SUBSET (1..Len(f)),
           NEW h, HostAsWritten(h, f, S)
    PROVE  HostAsWritten(h, g, S)
<1>1. Grows(f, line, g, S, {}) /\ S \cup {} = S
  BY DEF Grows
<1>2. SettingsAsWritten(h, f, S) /\ RulesAsWritten(h.rules, f, S)
  BY HostInParts
<1>3. SettingsAsWritten(h, g, S \cup {}) /\ RulesAsWritten(h.rules, g, S \cup {})
  BY <1>1, <1>2, SettingsKept, RulesKept
<1> QED
  BY <1>1, <1>3, HostInParts

LEMMA HostOfNothing ==
    ASSUME NEW f \in Seq(Lines) PROVE HostAsWritten(NewHost, f, {})
<1>1. \A k : ValuesWritten(f, {}, k) = {}
  BY DEF ValuesWritten, Where
<1>2. Where(f, {}, {"location"}) = {}
  BY DEF Where
<1>3. PortsWritten(f, {}, TRUE) = <<>> /\ PortsWritten(f, {}, FALSE) = <<>>
  BY NoPorts
<1>4. NewHost.http = <<>> /\ NewHost.https = <<>> /\ NewHost.rules = <<>>
      /\ \A k \in Keys : NewHost.values[k] = Unset
  BY DEF NewHost
<1>5. Cardinality({}) = 0 /\ Len(<<>>) = 0
  BY FS_EmptySet, EmptySeq
<1> QED
  BY <1>1, <1>2, <1>3, <1>4, <1>5 DEF HostAsWritten

\* A `server` line: one host more, with nothing.
LEMMA HostsOpened ==
    ASSUME NEW f, NEW line, NEW g, Longer(f, line, g), line.word = "server",
           NEW hosts \in Seq(HostRecords), HostsAsWritten(hosts, f)
    PROVE  HostsAsWritten(Append(hosts, NewHost), g)
<1> DEFINE n == Len(f)
           A == Starts(f)
           new == Append(hosts, NewHost)
<1>1. n \in Nat /\ A \in SUBSET (1..n) /\ Starts(g) = A \cup {n + 1}
  BY StartsThere
<1>2. /\ Cardinality(A \cup {n + 1}) = Cardinality(A) + 1
      /\ Rank(n + 1, A \cup {n + 1}) = Cardinality(A) + 1
      /\ \A i \in A : Rank(i, A \cup {n + 1}) = Rank(i, A)
  <2> HIDE DEF n, A
  <2> QED
    BY <1>1, RankMore
<1>3. \A i \in A : Rank(i, A) \in 1..Cardinality(A)
  <2> HIDE DEF n, A
  <2> QED
    BY <1>1, RankOrder
<1>4. Len(hosts) = Cardinality(A) /\ \A i \in A : HostAsWritten(hosts[Rank(i, A)], f, Section(f, i))
  BY DEF HostsAsWritten
<1>5. /\ Len(hosts) \in Nat /\ Len(new) = Len(hosts) + 1 /\ new[Len(hosts) + 1] = NewHost
      /\ \A j \in 1..Len(hosts) : new[j] = hosts[j]
  <2>1. NewHost \in HostRecords
    BY DEF NewHost, HostRecords
  <2> QED
    BY <2>1, AppendProperties, LenProperties
<1>6. ASSUME NEW i \in A
      PROVE HostAsWritten(new[Rank(i, Starts(g))], g, Section(g, i))
  <2>1. Section(g, i) = Section(f, i) /\ Section(f, i) \in SUBSET (1..n)
    BY SectionsThere
  <2>2. HostAsWritten(hosts[Rank(i, A)], f, Section(f, i)) /\ new[Rank(i, Starts(g))] = hosts[Rank(i, A)]
    <3> HIDE DEF new, A, n
    <3> QED
      BY <1>1, <1>2, <1>3, <1>4, <1>5
  <2> HIDE DEF new, A
  <2> QED
    BY <2>1, <2>2, HostKept
<1>7. HostAsWritten(new[Rank(n + 1, Starts(g))], g, Section(g, n + 1))
  <2>1. Section(g, n + 1) = {} /\ g \in Seq(Lines)
    BY SectionsThere, OneMoreLine DEF Longer
  <2>2. new[Rank(n + 1, Starts(g))] = NewHost
    <3> HIDE DEF new, A, n
    <3> QED
      BY <1>1, <1>2, <1>4, <1>5
  <2> QED
    BY <2>1, <2>2, HostOfNothing
<1>8. \A i \in Starts(g) : HostAsWritten(new[Rank(i, Starts(g))], g, Section(g, i))
  <2> HIDE DEF new, A, n
  <2> QED
    BY <1>1, <1>6, <1>7
<1>9. Len(new) = Cardinality(Starts(g))
  <2> HIDE DEF new, A, n
  <2> QED
    BY <1>1, <1>2, <1>4, <1>5
<1> QED
  BY <1>8, <1>9 DEF HostsAsWritten

\* Another line concerns the last host only.
LEMMA HostsGrow ==
    ASSUME NEW f, NEW line, NEW g, Longer(f, line, g), line.word # "server",
           NEW hosts \in Seq(HostRecords), NEW h \in HostRecords, NEW k \in HostRecords,
           HostsAsWritten(Append(hosts, h), f),
           HostAsWritten(h, f, Latest(f)) => HostAsWritten(k, g, Latest(g))
    PROVE  HostsAsWritten(Append(hosts, k), g)
<1> DEFINE n == Len(f)
           A == Starts(f)
           old == Append(hosts, h)
           new == Append(hosts, k)
<1>1. n \in Nat /\ A \in SUBSET (1..n) /\ Starts(g) = A
  BY StartsThere
<1>2. /\ Len(hosts) \in Nat /\ Len(old) = Len(hosts) + 1 /\ Len(new) = Len(hosts) + 1
      /\ old[Len(hosts) + 1] = h /\ new[Len(hosts) + 1] = k
      /\ \A j \in 1..Len(hosts) : old[j] = hosts[j] /\ new[j] = hosts[j]
  BY AppendProperties, LenProperties
<1>3. Len(old) = Cardinality(A) /\ \A i \in A : HostAsWritten(old[Rank(i, A)], f, Section(f, i))
  BY DEF HostsAsWritten
<1>4. ASSUME NEW i \in A
      PROVE  HostAsWritten(new[Rank(i, A)], g, Section(g, i))
  <2>1. CASE \A b \in A : b <= i
    <3>1. Rank(i, A) = Len(hosts) + 1
      <4> HIDE DEF n, A, old, new
      <4>1. Rank(i, A) = Cardinality(A)
        BY <1>1, <2>1, RankOrder
      <4> QED
        BY <1>2, <1>3, <4>1
    <3>2. Section(f, i) = Latest(f) /\ Section(g, i) = Latest(g)
      BY <2>1, SectionsThere
    <3>3. HostAsWritten(h, f, Latest(f))
      <4> HIDE DEF n, A, old, new
      <4> QED
        BY <1>2, <1>3, <3>1, <3>2
    <3> HIDE DEF n, A, old, new
    <3> QED
      BY <1>2, <3>1, <3>2, <3>3
  <2>2. CASE \E b \in A : i < b
    <3>1. Rank(i, A) \in 1..Len(hosts)
      <4> HIDE DEF n, A, old, new
      <4>1. PICK b \in A : i < b
        BY <2>2
      <4>2. Rank(i, A) \in 1..Cardinality(A) /\ Rank(b, A) \in 1..Cardinality(A)
        BY <1>1, RankOrder
      <4>3. Rank(i, A) < Rank(b, A)
        BY <1>1, <4>1, RankOrder
      <4> QED
        BY <1>2, <1>3, <4>2, <4>3
    <3>2. Section(g, i) = Section(f, i) /\ Section(f, i) \in SUBSET (1..n)
      BY <2>2, SectionsThere
    <3>3. HostAsWritten(new[Rank(i, A)], f, Section(f, i))
      <4> HIDE DEF n, A, old, new
      <4> QED
        BY <1>2, <1>3, <3>1
    <3> HIDE DEF A, old, new
    <3> QED
      BY <3>2, <3>3, HostKept
  <2>3. (\A b \in A : b <= i) \/ \E b \in A : i < b
    <3> HIDE DEF n, A
    <3> QED
      BY <1>1
  <2> QED
    BY <2>1, <2>2, <2>3
<1> HIDE DEF A, old, new
<1> QED
  BY <1>1, <1>2, <1>3, <1>4 DEF HostsAsWritten, new
----------------------------------------------------------------------------
\* The virtual hosts so far, with the one that is being filled.
Reading ==
    CASE at = "host" -> Append(config, host)
      [] at = "location" -> Append(config, WithRule)
      [] OTHER -> config

\* While no line is odd: the parser is in the block the writer is in, and the hosts
\* read so far are what the file so far says.
Written ==
    /\ HostsAsWritten(Reading, file)
    /\ (at = "top" => depth = 0) /\ (at = "host" => depth = 1) /\ (at = "location" => depth = 2)
    /\ at = "host" => \A i \in Where(file, Latest(file), {"location"}) : Ended(file, Latest(file), i)
    /\ at = "location" => \E l : Open(file, Latest(file), l)

WrittenInv == odd = 0 => Written

\* Where a line leaves the last section, and which locations of it have ended.
LEMMA LatestThere ==
    ASSUME NEW f, NEW line, NEW g, Longer(f, line, g), line.word # "server"
    PROVE  /\ Grows(f, line, g, Latest(f), {Len(f) + 1}) /\ Latest(g) = Latest(f) \cup {Len(f) + 1}
           /\ {Len(f) + 1} # {}
           /\ \A i \in Latest(f) : /\ i < Len(f) + 1
                                   /\ Ended(f, Latest(f), i) \/ line.closes => Ended(g, Latest(g), i)
                                   /\ ~Ended(f, Latest(f), i) /\ ~line.closes => ~Ended(g, Latest(g), i)
           /\ line.word # "location" =>
                Where(g, Latest(g), {"location"}) = Where(f, Latest(f), {"location"})
           /\ line.word = "location" =>
                Where(g, Latest(g), {"location"}) = Where(f, Latest(f), {"location"}) \cup {Len(f) + 1}
           /\ ~line.closes => ~Ended(g, Latest(g), Len(f) + 1)
<1>1. Len(f) \in Nat /\ Latest(f) \in SUBSET (1..Len(f))
  BY StartsThere
<1>2. Grows(f, line, g, Latest(f), {Len(f) + 1})
  BY <1>1 DEF Grows
<1>3. Latest(g) = Latest(f) \cup {Len(f) + 1}
  BY SectionsThere
<1>4. Closings(g, Latest(g)) = Closings(f, Latest(f)) \cup (IF line.closes THEN {Len(f) + 1} ELSE {})
  BY <1>2, <1>3, ClosingsThere
<1>5. Where(g, Latest(g), {"location"}) = Where(f, Latest(f), {"location"})
            \cup (IF line.word \in {"location"} THEN {Len(f) + 1} ELSE {})
  BY <1>2, <1>3, WhereThere
<1>6. \A i \in Latest(f) : i < Len(f) + 1 /\ ~(Len(f) + 1 < i)
  BY <1>1
<1>7. Closings(f, Latest(f)) \subseteq Latest(f)
  BY DEF Closings
<1>8. ASSUME NEW i \in Latest(f)
      PROVE  /\ Ended(f, Latest(f), i) \/ line.closes => Ended(g, Latest(g), i)
             /\ ~Ended(f, Latest(f), i) /\ ~line.closes => ~Ended(g, Latest(g), i)
  BY <1>4, <1>6 DEF Ended
<1>9. ~line.closes => ~Ended(g, Latest(g), Len(f) + 1)
  BY <1>4, <1>6, <1>7 DEF Ended
<1> QED
  BY <1>2, <1>3, <1>5, <1>6, <1>8, <1>9

\* A careful writer's line: what it can be in each block, and where it leads.
LEMMA CarefulLine ==
    ASSUME Types, Written, NEW line \in Lines, Write(line), odd' = 0
    PROVE  /\ Longer(file, line, file') /\ odd = 0 /\ LineOf(line)
           /\ line.closes => line.word = "brace"
           /\ at = "top" => line.word = "server" /\ depth' = 1
           /\ at = "host" =>
                \/ line.word \in Keys \cup {"listen"} /\ depth' = 1
                \/ line.word = "location" /\ depth' = 2
                \/ line.word = "brace" /\ depth' = 0
           /\ at = "location" =>
                \/ line.word \in Words /\ depth' = 2
                \/ line.word = "brace" /\ depth' = 1
<1>1. LineOf(line)
  BY LineType
<1>2. Longer(file, line, file')
  BY DEF Write, Types, Longer
<1>3. /\ line.word \in Usual /\ (line.closes => line.word = "brace")
      /\ depth' = depth + (IF line.word \in Opens THEN 1 ELSE IF line.closes THEN -1 ELSE 0)
      /\ odd' = odd
  BY DEF Write, Types
<1>4. ASSUME at = "top" PROVE line.word = "server" /\ depth' = 1
  BY <1>3, <1>4 DEF Usual, Opens, Written
<1>5. ASSUME at = "host"
      PROVE  \/ line.word \in Keys \cup {"listen"} /\ depth' = 1
             \/ line.word = "location" /\ depth' = 2
             \/ line.word = "brace" /\ depth' = 0
  BY <1>1, <1>3, <1>5 DEF Usual, Opens, Written, LineOf
<1>6. ASSUME at = "location"
      PROVE  \/ line.word \in Words /\ depth' = 2
             \/ line.word = "brace" /\ depth' = 1
  BY <1>1, <1>3, <1>6 DEF Usual, Opens, Written, LineOf, Words
<1> QED
  BY <1>1, <1>2, <1>3, <1>4, <1>5, <1>6

\* parseConfig()'s loop on a `server` line.
LEMMA WrittenAtTop ==
    ASSUME Types, Written, NEW line \in Lines, TopLine(line), odd' = 0
    PROVE  Written'
<1>1. Longer(file, line, file') /\ line.word = "server" /\ depth' = 1
  BY CarefulLine DEF TopLine
<1>2. at = "top" /\ at' = "host" /\ host' = NewHost /\ config' = config
  BY <1>1 DEF TopLine
<1>3. Reading = config /\ Reading' = Append(config, NewHost) /\ config \in Seq(HostRecords)
  BY <1>2 DEF Reading, Types
<1>4. HostsAsWritten(Reading', file')
  BY <1>1, <1>3, HostsOpened DEF Written
<1>5. Latest(file') = {}
  BY <1>1, SectionsThere
<1> QED
  BY <1>1, <1>2, <1>4, <1>5 DEF Written, Where

\* parseVirtualHost()'s loop.
LEMMA WrittenAtHost ==
    ASSUME Types, Written, NEW line \in Lines, HostLine(line), odd' = 0
    PROVE  Written'
<1> DEFINE L == Latest(file)
           R == {Len(file) + 1}
<1>1. /\ Longer(file, line, file') /\ at = "host" /\ LineOf(line)
      /\ line.closes => line.word = "brace"
      /\ \/ line.word \in Keys \cup {"listen"} /\ depth' = 1
         \/ line.word = "location" /\ depth' = 2
         \/ line.word = "brace" /\ depth' = 0
  BY CarefulLine DEF HostLine
<1>2. line.word # "server"
  BY <1>1
<1>3. /\ Grows(file, line, file', L, R) /\ Latest(file') = L \cup R /\ R # {}
      /\ \A i \in L : Ended(file, L, i) => Ended(file', Latest(file'), i)
  BY <1>1, <1>2, LatestThere
<1>4. /\ config \in Seq(HostRecords) /\ host \in HostRecords /\ host.rules \in Seq(Rules)
      /\ HostsAsWritten(Append(config, host), file)
      /\ \A i \in Where(file, L, {"location"}) : Ended(file, L, i)
  BY <1>1 DEF Types, HostRecords, Written, Reading
<1>5. CASE line.word = "brace"
  <2>1. line.closes /\ config' = Append(config, host) /\ at' = "top" /\ depth' = 0
    BY <1>1, <1>5 DEF HostLine, LineOf
  <2>2. ASSUME HostAsWritten(host, file, L) PROVE HostAsWritten(host, file', Latest(file'))
    <3>1. SettingsAsWritten(host, file, L) /\ RulesAsWritten(host.rules, file, L)
      BY <2>2, HostInParts
    <3>2. line.word \notin Keys \cup {"listen"} /\ line.word \notin Words \cup {"location"}
      BY <1>5 DEF Words
    <3>3. SettingsAsWritten(host, file', L \cup R) /\ RulesAsWritten(host.rules, file', L \cup R)
      <4> HIDE DEF L, R
      <4> QED
        BY <1>3, <3>1, <3>2, SettingsKept, RulesKept
    <3> QED
      BY <1>3, <3>3, HostInParts
  <2>3. HostsAsWritten(Append(config, host), file')
    BY <1>1, <1>2, <1>4, <2>2, HostsGrow
  <2>4. Reading' = Append(config, host)
    BY <2>1 DEF Reading
  <2> QED
    BY <2>1, <2>3, <2>4 DEF Written
<1>6. CASE line.word = "location"
  <2>1. PICK garbage \in BOOLEAN :
           ~line.closes /\ config' = config /\ host' = host /\ at' = "location" /\ depth' = 2
           /\ rule' = NewRule(line.path, garbage)
    BY <1>1, <1>6 DEF HostLine
  <2> DEFINE more == [host EXCEPT !.rules = Append(@, NewRule(line.path, garbage))]
  <2>2. more \in HostRecords /\ more.rules = Append(host.rules, NewRule(line.path, garbage))
        /\ more.values = host.values /\ more.http = host.http /\ more.https = host.https
    <3>1. NewRule(line.path, garbage) \in Rules
      BY <1>1, <1>6 DEF NewRule, Rules, LineOf
    <3>2. Append(host.rules, NewRule(line.path, garbage)) \in Seq(Rules)
      BY <1>4, <3>1
    <3> QED
      BY <1>4, <3>2 DEF HostRecords
  <2>3. ASSUME HostAsWritten(host, file, L) PROVE HostAsWritten(more, file', Latest(file'))
    <3>1. SettingsAsWritten(host, file, L) /\ RulesAsWritten(host.rules, file, L)
      BY <2>3, HostInParts
    <3>2. line.word \notin Keys \cup {"listen"}
      BY <1>6
    <3>3. SettingsAsWritten(host, file', L \cup R)
      <4> HIDE DEF L, R
      <4> QED
        BY <1>3, <3>1, <3>2, SettingsKept
    <3>4. RulesAsWritten(more.rules, file', L \cup R)
      <4> HIDE DEF L, R, more
      <4>1. Grows(file, line, file', L, R) /\ R # {} /\ host.rules \in Seq(Rules)
        BY <1>3, <1>4
      <4>2. RulesAsWritten(Append(host.rules, NewRule(line.path, garbage)), file', L \cup R)
        BY <1>6, <3>1, <4>1, RuleOpened
      <4> QED
        BY <2>2, <4>2
    <3>5. SettingsAsWritten(more, file', L \cup R)
      <4> HIDE DEF L, R, more
      <4> QED
        BY <2>2, <3>3 DEF SettingsAsWritten
    <3> HIDE DEF more
    <3> QED
      BY <1>3, <3>4, <3>5, HostInParts
  <2>4. HostsAsWritten(Append(config, more), file')
    <3> HIDE DEF more
    <3> QED
      BY <1>1, <1>2, <1>4, <2>2, <2>3, HostsGrow
  <2>5. Reading' = Append(config, more)
    BY <2>1 DEF Reading, WithRule
  <2>6. Open(file', Latest(file'), Len(file) + 1)
    <3>1. /\ Where(file', Latest(file'), {"location"}) = Where(file, L, {"location"}) \cup R
          /\ ~Ended(file', Latest(file'), Len(file) + 1)
          /\ \A i \in L : i < Len(file) + 1
      BY <1>1, <1>2, <1>6, <2>1, LatestThere
    <3>2. Where(file, L, {"location"}) \subseteq L
      BY DEF Where
    <3> QED
      BY <1>3, <1>4, <3>1, <3>2 DEF Open
  <2> QED
    BY <2>1, <2>4, <2>5, <2>6 DEF Written
<1>7. CASE line.word \in Keys \cup {"listen"}
  <2>1. /\ ~line.closes /\ line.word # "location" /\ config' = config
        /\ host' = Filled(line) /\ at' = "host" /\ depth' = 1
    BY <1>1, <1>7 DEF HostLine
  <2>2. Filled(line) \in HostRecords
    BY <1>4, FilledType
  <2>3. ASSUME HostAsWritten(host, file, L) PROVE HostAsWritten(Filled(line), file', Latest(file'))
    <3>1. SettingsAsWritten(host, file, L) /\ RulesAsWritten(host.rules, file, L)
      BY <2>3, HostInParts
    <3>2. line.word \notin Words \cup {"location"}
      BY <1>7 DEF Words
    <3>3. SettingsAsWritten(Filled(line), file', L \cup R) /\ Filled(line).rules = host.rules
      <4> HIDE DEF L, R
      <4> QED
        BY <1>3, <1>4, <1>7, <3>1, SettingsFilled
    <3>4. RulesAsWritten(host.rules, file', L \cup R)
      <4> HIDE DEF L, R
      <4> QED
        BY <1>3, <3>1, <3>2, RulesKept
    <3> QED
      BY <1>3, <3>3, <3>4, HostInParts
  <2>4. HostsAsWritten(Append(config, Filled(line)), file')
    BY <1>1, <1>2, <1>4, <2>2, <2>3, HostsGrow
  <2>5. Reading' = Append(config, Filled(line))
    BY <2>1 DEF Reading
  <2>6. \A i \in Where(file', Latest(file'), {"location"}) : Ended(file', Latest(file'), i)
    <3>1. Where(file', Latest(file'), {"location"}) = Where(file, L, {"location"})
      BY <1>1, <1>2, <2>1, LatestThere
    <3>2. Where(file, L, {"location"}) \subseteq L
      BY DEF Where
    <3> QED
      BY <1>3, <1>4, <3>1, <3>2
  <2> QED
    BY <2>1, <2>4, <2>5, <2>6 DEF Written
<1> QED
  BY <1>1, <1>5, <1>6, <1>7

\* The loop of a location.
LEMMA WrittenAtLocation ==
    ASSUME Types, Written, NEW line \in Lines, LocationLine(line), odd' = 0
    PROVE  Written'
<1> DEFINE L == Latest(file)
           R == {Len(file) + 1}
<1>1. /\ Longer(file, line, file') /\ at = "location" /\ LineOf(line)
      /\ line.closes => line.word = "brace"
      /\ \/ line.word \in Words /\ depth' = 2
         \/ line.word = "brace" /\ depth' = 1
  BY CarefulLine DEF LocationLine
<1>2. line.word # "server" /\ line.word # "location"
  BY <1>1 DEF Words
<1>3. /\ Grows(file, line, file', L, R) /\ Latest(file') = L \cup R /\ R # {}
      /\ Where(file', Latest(file'), {"location"}) = Where(file, L, {"location"})
      /\ \A i \in L : /\ Ended(file, L, i) \/ line.closes => Ended(file', Latest(file'), i)
                      /\ ~Ended(file, L, i) /\ ~line.closes => ~Ended(file', Latest(file'), i)
  BY <1>1, <1>2, LatestThere
<1>4. /\ config \in Seq(HostRecords) /\ host \in HostRecords /\ host.rules \in Seq(Rules)
      /\ rule \in Rules /\ WithRule \in HostRecords /\ WithRule.rules = Append(host.rules, rule)
      /\ HostsAsWritten(Append(config, WithRule), file)
  <2>1. host \in HostRecords /\ rule \in Rules /\ HostsAsWritten(Append(config, WithRule), file)
        /\ config \in Seq(HostRecords)
    BY <1>1 DEF Types, Written, Reading
  <2> QED
    BY <2>1, WithRuleType DEF HostRecords, WithRule
<1>5. PICK l : Open(file, L, l)
  BY <1>1 DEF Written
<1>6. /\ Where(file, L, {"location"}) \subseteq L
      /\ l \in Where(file, L, {"location"}) /\ ~Ended(file, L, l)
      /\ \A i \in Where(file, L, {"location"}) : i # l => i < l /\ Ended(file, L, i)
  BY <1>5 DEF Where, Open
<1>7. CASE line.word = "brace"
  <2>1. line.closes /\ config' = config /\ host' = WithRule /\ at' = "host" /\ depth' = 1
    BY <1>1, <1>7 DEF LocationLine, LineOf, Words
  <2>2. ASSUME HostAsWritten(WithRule, file, L) PROVE HostAsWritten(WithRule, file', Latest(file'))
    <3>1. SettingsAsWritten(WithRule, file, L) /\ RulesAsWritten(WithRule.rules, file, L)
      BY <2>2, HostInParts
    <3>2. line.word \notin Keys \cup {"listen"} /\ line.word \notin Words \cup {"location"}
      BY <1>7 DEF Words
    <3>3. SettingsAsWritten(WithRule, file', L \cup R) /\ RulesAsWritten(WithRule.rules, file', L \cup R)
      <4> HIDE DEF L, R
      <4> QED
        BY <1>3, <3>1, <3>2, SettingsKept, RulesKept
    <3> QED
      BY <1>3, <3>3, HostInParts
  <2>3. HostsAsWritten(Append(config, WithRule), file')
    BY <1>1, <1>2, <1>4, <2>2, HostsGrow
  <2>4. Reading' = Append(config, WithRule)
    BY <2>1 DEF Reading
  <2>5. \A i \in Where(file', Latest(file'), {"location"}) : Ended(file', Latest(file'), i)
    BY <1>3, <1>6, <2>1
  <2> QED
    BY <2>1, <2>3, <2>4, <2>5 DEF Written
<1>8. CASE line.word \in Words
  <2>1. /\ ~line.closes /\ config' = config /\ host' = host /\ rule' = Ruled(line)
        /\ at' = "location" /\ depth' = 2
    BY <1>1, <1>8 DEF LocationLine, Words
  <2> DEFINE more == [host EXCEPT !.rules = Append(@, Ruled(line))]
  <2>2. more \in HostRecords /\ more.rules = Append(host.rules, Ruled(line))
        /\ more.values = host.values /\ more.http = host.http /\ more.https = host.https
    <3>1. Append(host.rules, Ruled(line)) \in Seq(Rules)
      BY <1>4, RuledType
    <3> QED
      BY <1>4, <3>1 DEF HostRecords
  <2>3. ASSUME HostAsWritten(WithRule, file, L) PROVE HostAsWritten(more, file', Latest(file'))
    <3>1. SettingsAsWritten(WithRule, file, L) /\ RulesAsWritten(Append(host.rules, rule), file, L)
      BY <1>4, <2>3, HostInParts
    <3>2. line.word \notin Keys \cup {"listen"}
      BY <1>8 DEF Words
    <3>3. SettingsAsWritten(WithRule, file', L \cup R)
      <4> HIDE DEF L, R
      <4> QED
        BY <1>3, <3>1, <3>2, SettingsKept
    <3>4. RulesAsWritten(more.rules, file', L \cup R)
      <4> HIDE DEF L, R, more
      <4> QED
        BY <1>3, <1>4, <1>5, <1>8, <2>2, <3>1, RuleRead
    <3>5. SettingsAsWritten(more, file', L \cup R)
      <4>1. WithRule.values = host.values /\ WithRule.http = host.http /\ WithRule.https = host.https
        BY <1>4 DEF WithRule, HostRecords
      <4> HIDE DEF L, R, more
      <4> QED
        BY <2>2, <3>3, <4>1 DEF SettingsAsWritten
    <3> HIDE DEF more
    <3> QED
      BY <1>3, <3>4, <3>5, HostInParts
  <2>4. HostsAsWritten(Append(config, more), file')
    <3> HIDE DEF more
    <3> QED
      BY <1>1, <1>2, <1>4, <2>2, <2>3, HostsGrow
  <2>5. Reading' = Append(config, more)
    BY <2>1 DEF Reading, WithRule
  <2>6. Open(file', Latest(file'), l)
    BY <1>3, <1>6, <2>1 DEF Open
  <2> QED
    BY <2>1, <2>4, <2>5, <2>6 DEF Written
<1> QED
  BY <1>1, <1>7, <1>8

LEMMA WrittenStep == ASSUME Types, WrittenInv, [Next]_vars PROVE WrittenInv'
<1> SUFFICES ASSUME odd' = 0 PROVE Written'
  BY DEF WrittenInv
<1>1. ASSUME NEW line \in Lines, Write(line) PROVE odd = 0
  BY <1>1 DEF Write, Types
<1>2. ASSUME NEW line \in Lines, TopLine(line) \/ HostLine(line) \/ LocationLine(line) PROVE Written'
  <2>1. Write(line)
    BY <1>2 DEF TopLine, HostLine, LocationLine
  <2>2. Written
    BY <1>1, <2>1 DEF WrittenInv
  <2> QED
    BY <1>2, <2>2, WrittenAtTop, WrittenAtHost, WrittenAtLocation
<1>3. CASE EndOfFile
  <2>1. odd = 0 /\ file' = file /\ at' = "end" /\ at \in {"top", "host", "location"}
    BY <1>3 DEF EndOfFile, writer, Types
  <2>2. Written
    BY <2>1 DEF WrittenInv
  <2>3. Reading' = config' /\ config' = Reading
    BY <1>3, <2>1 DEF EndOfFile, Reading
  <2> QED
    BY <2>1, <2>2, <2>3 DEF Written
<1>4. CASE UNCHANGED vars
  <2>1. Written /\ UNCHANGED <<file, depth, at, config, host, rule>>
    BY <1>4 DEF vars, writer, WrittenInv
  <2> QED
    BY <2>1 DEF Written, Reading, WithRule
<1> QED
  BY <1>2, <1>3, <1>4 DEF Next

\* A file without odd lines, cut off anywhere, means what it says: a virtual host for
\* each server, with its ports in order, the last value of each key, and a rule for
\* each location.
THEOREM MeansWhatItSays == Spec => []ParsedAsWritten
<1>1. Init => WrittenInv
  <2> SUFFICES ASSUME Init PROVE Written
    BY DEF WrittenInv
  <2>1. file = <<>> /\ config = <<>> /\ at = "top" /\ depth = 0 /\ Reading = <<>>
    BY DEF Init, Reading
  <2>2. Starts(file) = {}
    BY <2>1 DEF Starts, Where
  <2>3. Len(<<>>) = 0 /\ Cardinality({}) = 0
    BY EmptySeq, FS_EmptySet
  <2> QED
    BY <2>1, <2>2, <2>3 DEF Written, HostsAsWritten
<1>2. WrittenInv => ParsedAsWritten
  BY DEF WrittenInv, Written, ParsedAsWritten, Reading
<1> QED
  BY <1>1, <1>2, TypesHold, WrittenStep, PTL DEF Spec
----------------------------------------------------------------------------
\* FromSection in two parts, as HostAsWritten.
SettingsFrom(h, f, S) ==
    /\ \A k \in Keys : h.values[k] \in {Unset} \cup ValuesOf(f, S, k)
    /\ Range(h.http) \subseteq PortsOf(f, S, FALSE)
    /\ Range(h.https) \subseteq PortsOf(f, S, TRUE)

RulesFrom(rules, f, S) == \A n \in DOMAIN rules : RuleFrom(rules[n], f, S)

LEMMA FromInParts ==
    ASSUME NEW h, NEW f, NEW S
    PROVE  FromSection(h, f, S) <=> SettingsFrom(h, f, S) /\ RulesFrom(h.rules, f, S)
BY DEF FromSection, SettingsFrom, RulesFrom

\* What was written in a section is written there when it has grown.
LEMMA StillWritten ==
    ASSUME NEW f, NEW line, NEW g, NEW S, NEW R, Grows(f, line, g, S, R)
    PROVE  /\ \A k : ValuesOf(f, S, k) \subseteq ValuesOf(g, S \cup R, k)
           /\ \A ssl : PortsOf(f, S, ssl) \subseteq PortsOf(g, S \cup R, ssl)
<1>1. (\A j \in S : g[j] = f[j]) /\ \A j \in R : g[j] = line
  BY SameLines
<1>2. ASSUME NEW k
      PROVE ValuesOf(f, S, k) \subseteq ValuesOf(g, S \cup R, k)
  <2>1. ASSUME NEW j \in ValuesWritten(f, S, k)
        PROVE  j \in ValuesWritten(g, S \cup R, k) /\ g[j].value = f[j].value
    BY <1>1 DEF ValuesWritten, Where
  <2> QED
    BY <2>1 DEF ValuesOf
<1>3. ASSUME NEW ssl
      PROVE PortsOf(f, S, ssl) \subseteq PortsOf(g, S \cup R, ssl)
  <2>1. ASSUME NEW j \in Listens(f, S, ssl)
        PROVE  j \in Listens(g, S \cup R, ssl) /\ Range(g[j].ports) = Range(f[j].ports)
    BY <1>1 DEF Listens, Where
  <2> QED
    BY <2>1 DEF PortsOf
<1> QED
  BY <1>2, <1>3

LEMMA SettingsStillFrom ==
    ASSUME NEW f, NEW line, NEW g, NEW S, NEW R, Grows(f, line, g, S, R),
           NEW h, SettingsFrom(h, f, S)
    PROVE  SettingsFrom(h, g, S \cup R)
<1>1. ASSUME NEW k \in Keys
      PROVE h.values[k] \in {Unset} \cup ValuesOf(g, S \cup R, k)
  <2>1. h.values[k] \in {Unset} \cup ValuesOf(f, S, k)
    BY DEF SettingsFrom
  <2>2. ValuesOf(f, S, k) \subseteq ValuesOf(g, S \cup R, k)
    BY StillWritten
  <2> QED
    BY <2>1, <2>2
<1>2. /\ PortsOf(f, S, TRUE) \subseteq PortsOf(g, S \cup R, TRUE)
      /\ PortsOf(f, S, FALSE) \subseteq PortsOf(g, S \cup R, FALSE)
  BY StillWritten
<1>3. /\ Range(h.http) \subseteq PortsOf(f, S, FALSE)
      /\ Range(h.https) \subseteq PortsOf(f, S, TRUE)
  BY DEF SettingsFrom
<1>4. /\ Range(h.http) \subseteq PortsOf(g, S \cup R, FALSE)
      /\ Range(h.https) \subseteq PortsOf(g, S \cup R, TRUE)
  BY <1>2, <1>3
<1> QED
  BY <1>1, <1>4 DEF SettingsFrom

LEMMA RuleStillFrom ==
    ASSUME NEW f, NEW line, NEW g, NEW S, NEW R, Grows(f, line, g, S, R),
           NEW r, RuleFrom(r, f, S)
    PROVE  RuleFrom(r, g, S \cup R)
<1>1. ASSUME NEW words
      PROVE  \A i \in Where(f, S, words) : i \in Where(g, S \cup R, words) /\ g[i] = f[i]
  BY SameLines DEF Where
<1>2. \E i \in Where(g, S \cup R, {"location"}) : r.path = g[i].path
  BY <1>1 DEF RuleFrom
<1>3. r.host = Unset \/ \E j \in Where(g, S \cup R, {"proxy_pass"}) : Goes(r, g[j])
  BY <1>1 DEF RuleFrom
<1> QED
  BY <1>2, <1>3 DEF RuleFrom

LEMMA RulesStillFrom ==
    ASSUME NEW f, NEW line, NEW g, NEW S, NEW R, Grows(f, line, g, S, R),
           NEW rules, RulesFrom(rules, f, S)
    PROVE  RulesFrom(rules, g, S \cup R)
BY RuleStillFrom DEF RulesFrom

LEMMA FromKept ==
    ASSUME NEW f, NEW line, NEW g, NEW S, NEW R, Grows(f, line, g, S, R),
           NEW h, FromSection(h, f, S)
    PROVE  FromSection(h, g, S \cup R)
BY SettingsStillFrom, RulesStillFrom, FromInParts

\* A rule more, or one less.
LEMMA RulesMore ==
    ASSUME NEW f, NEW S, NEW rules \in Seq(Rules), RulesFrom(rules, f, S),
           NEW r \in Rules, RuleFrom(r, f, S)
    PROVE  RulesFrom(Append(rules, r), f, S)
<1>1. /\ Len(rules) \in Nat /\ DOMAIN rules = 1..Len(rules)
      /\ Append(rules, r) \in Seq(Rules) /\ Len(Append(rules, r)) = Len(rules) + 1
      /\ Append(rules, r)[Len(rules) + 1] = r
      /\ \A j \in 1..Len(rules) : Append(rules, r)[j] = rules[j]
  BY AppendProperties, LenProperties
<1>2. DOMAIN Append(rules, r) = 1..(Len(rules) + 1)
  BY <1>1, LenProperties
<1>3. \A n \in DOMAIN Append(rules, r) : n \in DOMAIN rules \/ n = Len(rules) + 1
  BY <1>1, <1>2
<1> QED
  BY <1>1, <1>3 DEF RulesFrom

LEMMA RulesLess ==
    ASSUME NEW f, NEW S, NEW rules \in Seq(Rules), NEW r \in Rules,
           RulesFrom(Append(rules, r), f, S)
    PROVE  /\ RulesFrom(rules, f, S)
           /\ RuleFrom(r, f, S)
<1>1. /\ Len(rules) \in Nat /\ DOMAIN rules = 1..Len(rules)
      /\ Append(rules, r) \in Seq(Rules) /\ Len(Append(rules, r)) = Len(rules) + 1
      /\ Append(rules, r)[Len(rules) + 1] = r
      /\ \A j \in 1..Len(rules) : Append(rules, r)[j] = rules[j]
  BY AppendProperties, LenProperties
<1>2. DOMAIN Append(rules, r) = 1..(Len(rules) + 1)
  BY <1>1, LenProperties
<1>3. (\A n \in DOMAIN rules : n \in DOMAIN Append(rules, r)) /\ Len(rules) + 1 \in DOMAIN Append(rules, r)
  BY <1>1, <1>2
<1> QED
  BY <1>1, <1>3 DEF RulesFrom

\* parseVirtualHost() takes from a line only what the line has.
LEMMA SettingsFilledFrom ==
    ASSUME NEW f, NEW line, NEW g, NEW S, NEW R, Grows(f, line, g, S, R), R # {},
           host \in HostRecords, SettingsFrom(host, f, S)
    PROVE  SettingsFrom(Filled(line), g, S \cup R) /\ Filled(line).rules = host.rules
<1>0. SettingsFrom(host, g, S \cup R)
  BY SettingsStillFrom
<1>1. LineOf(line) /\ R = {Len(f) + 1} /\ g[Len(f) + 1] = line
  <2>1. f \in Seq(Lines) /\ line \in Lines /\ R \in SUBSET {Len(f) + 1}
    BY DEF Grows, Longer
  <2> QED
    BY <2>1, LineType, SameLines
<1>2. CASE line.word \in Keys /\ line.value # Unset
  <2>1. /\ Filled(line).http = host.http /\ Filled(line).https = host.https
        /\ Filled(line).rules = host.rules
        /\ \A k \in Keys : Filled(line).values[k] =
              IF k = line.word THEN line.value ELSE host.values[k]
    BY <1>2 DEF Filled, HostRecords
  <2>2. Len(f) + 1 \in ValuesWritten(g, S \cup R, line.word)
    BY <1>1, <1>2 DEF ValuesWritten, Where
  <2>3. ASSUME NEW k \in Keys
        PROVE Filled(line).values[k] \in {Unset} \cup ValuesOf(g, S \cup R, k)
    <3>1. CASE k = line.word
      BY <1>1, <2>1, <2>2, <3>1 DEF ValuesOf
    <3>2. CASE k # line.word
      BY <1>0, <2>1, <3>2 DEF SettingsFrom
    <3> QED
      BY <3>1, <3>2
  <2> QED
    BY <1>0, <2>1, <2>3 DEF SettingsFrom
<1>3. CASE line.word = "listen"
  <2>1. line.word \notin Keys
    BY <1>3
  <2>2. Filled(line) = WithPorts(line) /\ line.ssl \in BOOLEAN /\ line.ports \in Seq(Ports)
        /\ host.http \in Seq(Ports) /\ host.https \in Seq(Ports)
    BY <1>1, <1>3, <2>1 DEF Filled, LineOf, HostRecords
  <2>3. Range(line.ports) \subseteq PortsOf(g, S \cup R, line.ssl)
    <3>1. Len(f) + 1 \in Listens(g, S \cup R, line.ssl)
      BY <1>1, <1>3 DEF Listens, Where
    <3> QED
      BY <1>1, <3>1 DEF PortsOf
  <2>4. Filled(line).values = host.values /\ Filled(line).rules = host.rules
    BY <2>2 DEF WithPorts, HostRecords
  <2>5. ASSUME NEW a \in Seq(Ports), NEW b \in Seq(Ports)
        PROVE  Range(a \o b) \subseteq Range(a) \cup Range(b)
    <3>1. /\ a \o b \in Seq(Ports) /\ Len(a \o b) = Len(a) + Len(b) /\ Len(a) \in Nat /\ Len(b) \in Nat
          /\ \A i \in 1..(Len(a) + Len(b)) : (a \o b)[i] = IF i <= Len(a) THEN a[i] ELSE b[i - Len(a)]
      BY ConcatProperties, LenProperties
    <3>2. DOMAIN (a \o b) = 1..(Len(a) + Len(b)) /\ DOMAIN a = 1..Len(a) /\ DOMAIN b = 1..Len(b)
      BY <3>1, LenProperties
    <3>3. ASSUME NEW i \in 1..(Len(a) + Len(b)) PROVE (a \o b)[i] \in Range(a) \cup Range(b)
      <4>1. CASE i <= Len(a)
        BY <3>1, <3>2, <4>1 DEF Range
      <4>2. CASE ~(i <= Len(a))
        <5>1. i - Len(a) \in 1..Len(b)
          BY <3>1, <4>2
        <5> QED
          BY <3>1, <3>2, <4>2, <5>1 DEF Range
      <4> QED
        BY <4>1, <4>2
    <3> QED
      BY <3>2, <3>3 DEF Range
  <2>6. CASE line.ssl = TRUE
    <3>1. Filled(line).https = host.https \o line.ports /\ Filled(line).http = host.http
      BY <2>2, <2>6 DEF WithPorts, HostRecords
    <3>2. Range(host.https) \subseteq PortsOf(g, S \cup R, TRUE)
      BY <1>0 DEF SettingsFrom
    <3>3. Range(host.https \o line.ports)
             \subseteq PortsOf(g, S \cup R, TRUE)
      BY <2>2, <2>3, <2>5, <2>6, <3>2
    <3> QED
      BY <1>0, <2>4, <3>1, <3>3 DEF SettingsFrom
  <2>7. CASE line.ssl = FALSE
    <3>1. Filled(line).http = host.http \o line.ports /\ Filled(line).https = host.https
      BY <2>2, <2>7 DEF WithPorts, HostRecords
    <3>2. Range(host.http) \subseteq PortsOf(g, S \cup R, FALSE)
      BY <1>0 DEF SettingsFrom
    <3>3. Range(host.http \o line.ports)
             \subseteq PortsOf(g, S \cup R, FALSE)
      BY <2>2, <2>3, <2>5, <2>7, <3>2
    <3> QED
      BY <1>0, <2>4, <3>1, <3>3 DEF SettingsFrom
  <2> QED
    BY <2>2, <2>6, <2>7
<1>4. CASE ~(line.word \in Keys /\ line.value # Unset) /\ line.word # "listen"
  <2>1. Filled(line) = host
    BY <1>4 DEF Filled
  <2> QED
    BY <1>0, <2>1
<1> QED
  BY <1>2, <1>3, <1>4

LEMMA FromFilled ==
    ASSUME NEW f, NEW line, NEW g, NEW S, NEW R, Grows(f, line, g, S, R), R # {},
           host \in HostRecords, FromSection(host, f, S)
    PROVE  FromSection(Filled(line), g, S \cup R)
<1>1. SettingsFrom(host, f, S) /\ RulesFrom(host.rules, f, S)
  BY FromInParts
<1>2. SettingsFrom(Filled(line), g, S \cup R) /\ Filled(line).rules = host.rules
  BY <1>1, SettingsFilledFrom
<1>3. RulesFrom(host.rules, g, S \cup R)
  BY <1>1, RulesStillFrom
<1> QED
  BY <1>2, <1>3, FromInParts
----------------------------------------------------------------------------
\* The end of a section when the file grows: it stays where it is, and a closing line
\* for which no location waits is one.
LEMMA EndsThere ==
    ASSUME NEW f, NEW line, NEW g, NEW S, NEW R, Grows(f, line, g, S, R)
    PROVE  Ends(g, S \cup R) = Ends(f, S) \cup (IF line.closes /\ AllEnded(f, S) THEN R ELSE {})
<1> DEFINE C == Closings(f, S)
           D == Closings(g, S \cup R)
           L == Where(f, S, {"location"})
           M == Where(g, S \cup R, {"location"})
<1>1. (\A j \in S, n \in R : j < n /\ ~(n < j)) /\ \A n \in R : ~(n < n) /\ n \notin S
  <2>1. f \in Seq(Lines) /\ S \in SUBSET (1..Len(f)) /\ R \in SUBSET {Len(f) + 1}
    BY DEF Grows, Longer
  <2>2. Len(f) \in Nat
    BY <2>1, LenProperties
  <2> QED
    BY <2>1, <2>2
<1>2. C \subseteq S /\ L \subseteq S
  BY DEF Closings, Where
<1>3. D = C \cup (IF line.closes THEN R ELSE {}) /\ M = L \cup (IF line.word \in {"location"} THEN R ELSE {})
  BY ClosingsThere, WhereThere
<1>4. Ends(f, S) = {e \in C : \A i \in L : i < e => \E b \in C : i < b /\ b < e}
      /\ Ends(g, S \cup R) = {e \in D : \A i \in M : i < e => \E b \in D : i < b /\ b < e}
      /\ (AllEnded(f, S) <=> \A i \in L : \E b \in C : i < b)
  BY DEF Ends, AllEnded, Ended
<1> HIDE DEF C, D, L, M
<1>5. ASSUME NEW e \in S PROVE e \in Ends(g, S \cup R) <=> e \in Ends(f, S)
  <2>1. e \in D <=> e \in C
    BY <1>1, <1>3
  <2>2. (\A i \in M : i < e => i \in L) /\ (\A b \in D : b < e => b \in C) /\ L \subseteq M /\ C \subseteq D
    BY <1>1, <1>3
  <2> QED
    BY <1>4, <2>1, <2>2
<1>6. ASSUME NEW e \in R PROVE e \in Ends(g, S \cup R) <=> line.closes /\ AllEnded(f, S)
  <2>1. e \in D <=> line.closes
    BY <1>1, <1>2, <1>3
  <2>2. (\A i \in M : i < e <=> i \in L) /\ (\A b \in D : b < e <=> b \in C) /\ L \subseteq M /\ C \subseteq D
    <3>1. \A i \in R : i = e
      BY DEF Grows
    <3>2. (\A i \in R : ~(i < e) /\ i \notin S) /\ \A i \in S : i < e
      BY <1>1, <3>1
    <3>3. (\A i \in M : i \in L \/ i \in R) /\ (\A b \in D : b \in C \/ b \in R) /\ L \subseteq M /\ C \subseteq D
      BY <1>3
    <3>4. ASSUME NEW i \in M PROVE i < e <=> i \in L
      BY <1>2, <3>2, <3>3
    <3>5. ASSUME NEW b \in D PROVE b < e <=> b \in C
      BY <1>2, <3>2, <3>3
    <3> QED
      BY <3>3, <3>4, <3>5
  <2> QED
    BY <1>4, <2>1, <2>2
<1>7. Ends(f, S) \subseteq S /\ Ends(g, S \cup R) \subseteq S \cup R
  BY <1>2, <1>4 DEF Closings, D
<1> QED
  BY <1>5, <1>6, <1>7

\* The server's own lines: all until there is an end, and no more from then on.
LEMMA BodyThere ==
    ASSUME NEW f, NEW line, NEW g, NEW S, NEW R, Grows(f, line, g, S, R)
    PROVE  /\ Body(f, S) \in SUBSET S
           /\ R = {} \/ Ends(f, S) # {} => Body(g, S \cup R) = Body(f, S)
           /\ Ends(f, S) = {} => Body(f, S) = S
           /\ Ends(f, S) = {} /\ line.closes /\ AllEnded(f, S) => Body(g, S \cup R) = S
           /\ Ends(f, S) = {} /\ ~(line.closes /\ AllEnded(f, S)) => Body(g, S \cup R) = S \cup R
<1>1. (\A j \in S, n \in R : j < n /\ ~(n < j)) /\ \A n \in R : ~(n < n)
  <2>1. f \in Seq(Lines) /\ S \in SUBSET (1..Len(f)) /\ R \in SUBSET {Len(f) + 1}
    BY DEF Grows, Longer
  <2>2. Len(f) \in Nat
    BY <2>1, LenProperties
  <2> QED
    BY <2>1, <2>2
<1>2. Ends(g, S \cup R) = Ends(f, S) \cup (IF line.closes /\ AllEnded(f, S) THEN R ELSE {})
  BY EndsThere
<1>3. Ends(f, S) \subseteq S
  BY DEF Ends, Closings
<1>4. Body(f, S) = {j \in S : \A e \in Ends(f, S) : j < e}
      /\ Body(g, S \cup R) = {j \in S \cup R : \A e \in Ends(g, S \cup R) : j < e}
  BY DEF Body
<1>5. ASSUME Ends(f, S) # {} PROVE Body(g, S \cup R) = Body(f, S)
  <2>1. \A n \in R : n \notin Body(g, S \cup R)
    BY <1>1, <1>2, <1>3, <1>4, <1>5
  <2>2. \A j \in S : j \in Body(g, S \cup R) <=> j \in Body(f, S)
    BY <1>1, <1>2, <1>4
  <2> QED
    BY <1>4, <2>1, <2>2
<1>6. ASSUME R = {} PROVE Body(g, S \cup R) = Body(f, S)
  BY <1>2, <1>4, <1>6
<1>7. ASSUME Ends(f, S) = {} PROVE Body(f, S) = S
  BY <1>4, <1>7
<1>8. ASSUME Ends(f, S) = {}, line.closes, AllEnded(f, S) PROVE Body(g, S \cup R) = S
  <2>1. Body(g, S \cup R) = {j \in S \cup R : \A e \in R : j < e}
    <3>1. Ends(g, S \cup R) = R
      BY <1>2, <1>8
    <3> QED
      BY <1>4, <3>1
  <2>2. \A n \in R : n \notin Body(g, S \cup R)
    BY <1>1, <2>1
  <2>3. \A j \in S : j \in Body(g, S \cup R)
    BY <1>1, <2>1
  <2> QED
    BY <2>1, <2>2, <2>3
<1>9. ASSUME Ends(f, S) = {}, ~(line.closes /\ AllEnded(f, S)) PROVE Body(g, S \cup R) = S \cup R
  BY <1>2, <1>4, <1>9
<1>10. Body(f, S) \in SUBSET S
  BY <1>4
<1> QED
  BY <1>5, <1>6, <1>7, <1>8, <1>9, <1>10

\* What is intact now was so before, as a location's block only grows.
LEMMA IntactBefore ==
    ASSUME NEW f, NEW line, NEW g, NEW S, NEW R, Grows(f, line, g, S, R), Intact(g, S \cup R)
    PROVE  Intact(f, S)
<1> SUFFICES ASSUME NEW i \in Where(f, S, {"location"}), NEW j \in Block(f, S, i)
             PROVE  f[j].word \in {"proxy_pass", "root"}
  BY DEF Intact
<1>1. i \in S /\ j \in S /\ f[i].word \in {"location"}
  BY DEF Where, Block
<1>2. g[i] = f[i] /\ g[j] = f[j]
  BY <1>1, SameLines
<1>3. i \in Where(g, S \cup R, {"location"})
  BY <1>1, <1>2 DEF Where
<1>4. j \in Block(g, S \cup R, i)
  BY <1>1, BlockThere
<1> QED
  BY <1>2, <1>3, <1>4 DEF Intact

\* In intact lines the location that waits for its end is the one being read.
LEMMA OpenIfIntact ==
    ASSUME NEW f, NEW S \in SUBSET Nat, Intact(f, S), NEW l \in Where(f, S, {"location"}), ~Ended(f, S, l)
    PROVE  Open(f, S, l)
<1>1. ASSUME NEW i \in Where(f, S, {"location"}), NEW j \in Where(f, S, {"location"}), i < j
      PROVE  Ended(f, S, i)
  <2> SUFFICES ASSUME ~Ended(f, S, i) PROVE FALSE
    OBVIOUS
  <2>1. j \in Block(f, S, i)
    BY <1>1 DEF Block, Ended, Where
  <2>2. f[j].word \in {"proxy_pass", "root"}
    BY <2>1 DEF Intact
  <2> QED
    BY <2>2 DEF Where
<1>2. ASSUME NEW i \in Where(f, S, {"location"}), i # l PROVE i < l /\ Ended(f, S, i)
  <2>1. i \in Nat /\ l \in Nat
    BY DEF Where
  <2>2. ~(l < i)
    BY <1>1
  <2>3. i < l
    BY <1>2, <2>1, <2>2
  <2> QED
    BY <1>1, <2>3
<1> QED
  BY <1>2 DEF Open

\* A line that is read in a location and does not end it belongs there, if the lines
\* are intact.
LEMMA BelongsIfIntact ==
    ASSUME NEW f, NEW line, NEW g, NEW S, NEW R, Grows(f, line, g, S, R), R # {}, ~line.closes,
           Intact(g, S \cup R), NEW l \in Where(f, S, {"location"}), ~Ended(f, S, l)
    PROVE  line.word \in Words
<1>1. l \in S /\ f[l].word \in {"location"}
  BY DEF Where
<1>2. l \in Where(g, S \cup R, {"location"})
  BY <1>1, SameLines DEF Where
<1>3. Block(g, S \cup R, l) = Block(f, S, l) \cup R
  BY <1>1, BlockThere
<1>4. PICK n \in R : g[n] = line
  BY SameLines
<1> QED
  BY <1>2, <1>3, <1>4 DEF Intact, Words
----------------------------------------------------------------------------
\* What the host h of the section S should be.
AsIntact(h, f, S) == Intact(f, Body(f, S)) => HostAsWritten(h, f, Body(f, S))

SectionHost(h, f, S) == FromSection(h, f, S) /\ AsIntact(h, f, S)

LEMMA HostsInParts ==
    ASSUME NEW hosts, NEW f
    PROVE  HostsFromSections(hosts, f) <=>
             /\ Len(hosts) = Cardinality(Starts(f))
             /\ \A i \in Starts(f) : SectionHost(hosts[Rank(i, Starts(f))], f, Section(f, i))
BY DEF HostsFromSections, SectionHost, AsIntact

\* Lines that are not the server's own leave it as it was.
LEMMA AsIntactKept ==
    ASSUME NEW f, NEW line, NEW g, NEW S, NEW R, Grows(f, line, g, S, R),
           Body(g, S \cup R) = Body(f, S), NEW h, AsIntact(h, f, S)
    PROVE  AsIntact(h, g, S \cup R)
<1> DEFINE B == Body(f, S)
<1>1. Longer(f, line, g) /\ B \in SUBSET (1..Len(f))
  BY BodyThere DEF Grows
<1>2. Grows(f, line, g, B, {}) /\ B \cup {} = B
  BY <1>1 DEF Grows
<1>3. Intact(g, B) => Intact(f, B)
  <2> HIDE DEF B
  <2>1. ASSUME Intact(g, B \cup {}) PROVE Intact(f, B)
    BY <1>2, <2>1, IntactBefore
  <2> QED
    BY <1>2, <2>1
<1>4. HostAsWritten(h, f, B) => HostAsWritten(h, g, B)
  <2> HIDE DEF B
  <2> QED
    BY <1>1, HostKept
<1> QED
  BY <1>3, <1>4 DEF AsIntact

\* One more of the server's own lines.
LEMMA AsIntactGrown ==
    ASSUME NEW f, NEW line, NEW g, NEW S, NEW R, Grows(f, line, g, S, R),
           Ends(f, S) = {}, ~(line.closes /\ AllEnded(f, S)), NEW h, AsIntact(h, f, S),
           NEW k, Intact(g, S \cup R) /\ HostAsWritten(h, f, S) => HostAsWritten(k, g, S \cup R)
    PROVE  AsIntact(k, g, S \cup R)
<1>1. Body(f, S) = S /\ Body(g, S \cup R) = S \cup R
  BY BodyThere
<1>2. Intact(g, S \cup R) => Intact(f, S)
  BY IntactBefore
<1> QED
  BY <1>1, <1>2 DEF AsIntact

LEMMA SectionHostKept ==
    ASSUME NEW f, NEW line, NEW g, Longer(f, line, g), NEW S \in SUBSET (1..Len(f)),
           NEW h, SectionHost(h, f, S)
    PROVE  SectionHost(h, g, S)
<1>1. Grows(f, line, g, S, {}) /\ S \cup {} = S
  BY DEF Grows
<1>2. Body(g, S \cup {}) = Body(f, S)
  BY <1>1, BodyThere
<1>3. FromSection(h, g, S \cup {}) /\ AsIntact(h, g, S \cup {})
  BY <1>1, <1>2, FromKept, AsIntactKept DEF SectionHost
<1> QED
  BY <1>1, <1>3 DEF SectionHost
----------------------------------------------------------------------------
LEMMA EndsKept ==
    ASSUME NEW f, NEW line, NEW g, Longer(f, line, g), NEW S \in SUBSET (1..Len(f))
    PROVE  Ends(g, S) = Ends(f, S)
<1> DEFINE R == {}
<1>1. Grows(f, line, g, S, R)
  BY DEF Grows
<1>2. Ends(g, S \cup R) = Ends(f, S) \cup (IF line.closes /\ AllEnded(f, S) THEN R ELSE {})
  <2> HIDE DEF R
  <2> QED
    BY <1>1, EndsThere
<1> QED
  BY <1>2

\* Sections that end in the longer file do in the shorter one, and a `server` line
\* shows that the section before it does.
LEMMA EndedBefore ==
    ASSUME NEW f, NEW line, NEW g, Longer(f, line, g), SectionsEnd(g)
    PROVE  /\ SectionsEnd(f)
           /\ line.word = "server" /\ Starts(f) # {} => Ends(f, Latest(f)) # {}
<1>1. /\ Len(f) \in Nat /\ Starts(f) \in SUBSET (1..Len(f)) /\ Latest(f) \in SUBSET (1..Len(f))
      /\ Starts(f) \subseteq Starts(g)
      /\ line.word = "server" => Starts(g) = Starts(f) \cup {Len(f) + 1}
  <2>1. /\ Len(f) \in Nat /\ Starts(f) \in SUBSET (1..Len(f)) /\ Latest(f) \in SUBSET (1..Len(f))
        /\ line.word # "server" => Starts(g) = Starts(f)
        /\ line.word = "server" => Starts(g) = Starts(f) \cup {Len(f) + 1}
    BY StartsThere
  <2> QED
    BY <2>1
<1>2. ASSUME NEW i \in Starts(f), NEW later \in Starts(f), i < later PROVE Ends(f, Section(f, i)) # {}
  <2>1. Section(g, i) = Section(f, i) /\ Section(f, i) \in SUBSET (1..Len(f))
    BY <1>2, SectionsThere
  <2>2. Ends(g, Section(f, i)) # {}
    BY <1>1, <1>2, <2>1 DEF SectionsEnd
  <2>3. Ends(g, Section(f, i)) = Ends(f, Section(f, i))
    BY <2>1, EndsKept
  <2> QED
    BY <2>2, <2>3
<1>3. ASSUME line.word = "server", Starts(f) # {} PROVE Ends(f, Latest(f)) # {}
  <2>1. PICK i \in Starts(f) : \A b \in Starts(f) : b <= i
    BY <1>1, <1>3, MaxIs
  <2>2. Section(g, i) = Section(f, i) /\ Section(f, i) = Latest(f)
    BY <1>3, <2>1, SectionsThere
  <2>3. i \in Starts(g) /\ Len(f) + 1 \in Starts(g) /\ i < Len(f) + 1
    BY <1>1, <1>3
  <2>4. Ends(g, Latest(f)) # {}
    BY <2>2, <2>3 DEF SectionsEnd
  <2>5. Ends(g, Latest(f)) = Ends(f, Latest(f))
    BY <1>1, EndsKept
  <2> QED
    BY <2>4, <2>5
<1> QED
  BY <1>2, <1>3 DEF SectionsEnd
----------------------------------------------------------------------------
\* The hosts of a file and of the one with a line more, as for HostsAsWritten.
LEMMA FromNothing ==
    ASSUME NEW f PROVE FromSection(NewHost, f, {})
<1>1. NewHost.http = <<>> /\ NewHost.https = <<>> /\ NewHost.rules = <<>>
      /\ \A k \in Keys : NewHost.values[k] = Unset
  BY DEF NewHost
<1>2. DOMAIN <<>> = {} /\ Range(<<>>) = {}
  BY DEF Range
<1> QED
  BY <1>1, <1>2 DEF FromSection

LEMMA SectionOfNothing ==
    ASSUME NEW f \in Seq(Lines) PROVE SectionHost(NewHost, f, {})
<1>1. Body(f, {}) = {}
  BY DEF Body
<1> QED
  BY <1>1, FromNothing, HostOfNothing DEF SectionHost, AsIntact

LEMMA FromsOpened ==
    ASSUME NEW f, NEW line, NEW g, Longer(f, line, g), line.word = "server",
           NEW hosts \in Seq(HostRecords), HostsFromSections(hosts, f)
    PROVE  HostsFromSections(Append(hosts, NewHost), g)
<1> DEFINE n == Len(f)
           A == Starts(f)
           new == Append(hosts, NewHost)
<1>1. n \in Nat /\ A \in SUBSET (1..n) /\ Starts(g) = A \cup {n + 1}
  BY StartsThere
<1>2. /\ Cardinality(A \cup {n + 1}) = Cardinality(A) + 1
      /\ Rank(n + 1, A \cup {n + 1}) = Cardinality(A) + 1
      /\ \A i \in A : Rank(i, A \cup {n + 1}) = Rank(i, A)
  <2> HIDE DEF n, A
  <2> QED
    BY <1>1, RankMore
<1>3. \A i \in A : Rank(i, A) \in 1..Cardinality(A)
  <2> HIDE DEF n, A
  <2> QED
    BY <1>1, RankOrder
<1>4. Len(hosts) = Cardinality(A) /\ \A i \in A : SectionHost(hosts[Rank(i, A)], f, Section(f, i))
  BY HostsInParts
<1>5. /\ Len(hosts) \in Nat /\ Len(new) = Len(hosts) + 1 /\ new[Len(hosts) + 1] = NewHost
      /\ \A j \in 1..Len(hosts) : new[j] = hosts[j]
  <2>1. NewHost \in HostRecords
    BY DEF NewHost, HostRecords
  <2> QED
    BY <2>1, AppendProperties, LenProperties
<1>6. ASSUME NEW i \in A
      PROVE  SectionHost(new[Rank(i, Starts(g))], g, Section(g, i))
  <2>1. Section(g, i) = Section(f, i) /\ Section(f, i) \in SUBSET (1..n)
    BY SectionsThere
  <2>2. SectionHost(hosts[Rank(i, A)], f, Section(f, i)) /\ new[Rank(i, Starts(g))] = hosts[Rank(i, A)]
    <3> HIDE DEF new, A, n
    <3> QED
      BY <1>1, <1>2, <1>3, <1>4, <1>5
  <2> HIDE DEF new, A
  <2> QED
    BY <2>1, <2>2, SectionHostKept
<1>7. SectionHost(new[Rank(n + 1, Starts(g))], g, Section(g, n + 1))
  <2>1. Section(g, n + 1) = {} /\ g \in Seq(Lines)
    BY SectionsThere, OneMoreLine DEF Longer
  <2>2. new[Rank(n + 1, Starts(g))] = NewHost
    <3> HIDE DEF new, A, n
    <3> QED
      BY <1>1, <1>2, <1>4, <1>5
  <2> QED
    BY <2>1, <2>2, SectionOfNothing
<1>8. \A i \in Starts(g) : SectionHost(new[Rank(i, Starts(g))], g, Section(g, i))
  <2> HIDE DEF new, A, n
  <2> QED
    BY <1>1, <1>6, <1>7
<1>9. Len(new) = Cardinality(Starts(g))
  <2> HIDE DEF new, A, n
  <2> QED
    BY <1>1, <1>2, <1>4, <1>5
<1> QED
  BY <1>8, <1>9, HostsInParts

\* Another line may change the last host, which is still from the last section; the
\* others stay.
LEMMA FromsGrow ==
    ASSUME NEW f, NEW line, NEW g, Longer(f, line, g), line.word # "server",
           NEW old \in Seq(HostRecords), NEW new \in Seq(HostRecords),
           HostsFromSections(old, f), Len(new) = Len(old),
           \A j \in 1..(Len(old) - 1) : new[j] = old[j],
           SectionHost(old[Len(old)], f, Latest(f)) => SectionHost(new[Len(old)], g, Latest(g))
    PROVE  HostsFromSections(new, g)
<1> DEFINE n == Len(f)
           A == Starts(f)
<1>1. n \in Nat /\ A \in SUBSET (1..n) /\ Starts(g) = A
  BY StartsThere
<1>2. Len(old) = Cardinality(A) /\ \A i \in A : SectionHost(old[Rank(i, A)], f, Section(f, i))
  BY HostsInParts
<1>3. Len(old) \in Nat
  BY LenProperties
<1>4. ASSUME NEW i \in A
      PROVE  SectionHost(new[Rank(i, A)], g, Section(g, i))
  <2>1. CASE \A b \in A : b <= i
    <3>1. Rank(i, A) = Len(old)
      <4> HIDE DEF n, A
      <4> QED
        BY <1>1, <1>2, <2>1, RankOrder
    <3>2. Section(f, i) = Latest(f) /\ Section(g, i) = Latest(g)
      BY <2>1, SectionsThere
    <3>3. SectionHost(old[Len(old)], f, Latest(f))
      <4> HIDE DEF n, A
      <4> QED
        BY <1>2, <3>1, <3>2
    <3> QED
      BY <3>1, <3>2, <3>3
  <2>2. CASE \E b \in A : i < b
    <3>1. Rank(i, A) \in 1..(Len(old) - 1)
      <4> HIDE DEF n, A
      <4>1. PICK b \in A : i < b
        BY <2>2
      <4>2. Rank(i, A) \in 1..Cardinality(A) /\ Rank(b, A) \in 1..Cardinality(A)
        BY <1>1, RankOrder
      <4>3. Rank(i, A) < Rank(b, A)
        BY <1>1, <4>1, RankOrder
      <4> QED
        BY <1>2, <1>3, <4>2, <4>3
    <3>2. Section(g, i) = Section(f, i) /\ Section(f, i) \in SUBSET (1..n)
      BY <2>2, SectionsThere
    <3>3. SectionHost(new[Rank(i, A)], f, Section(f, i))
      <4> HIDE DEF n, A
      <4> QED
        BY <1>2, <3>1
    <3> HIDE DEF A
    <3> QED
      BY <3>2, <3>3, SectionHostKept
  <2>3. (\A b \in A : b <= i) \/ \E b \in A : i < b
    <3> HIDE DEF n, A
    <3> QED
      BY <1>1
  <2> QED
    BY <2>1, <2>2, <2>3
<1> HIDE DEF A
<1> QED
  BY <1>1, <1>2, <1>4, HostsInParts
----------------------------------------------------------------------------
\* While every section that is over has an end: there is a host for each, the hosts
\* are what their sections make them, and the parser is in the block that the last
\* section is in.
Contained ==
    /\ HostsFromSections(Reading, file)
    /\ at = "top" => Starts(file) = {} \/ Ends(file, Latest(file)) # {}
    /\ at = "host" => Ends(file, Latest(file)) = {} /\ AllEnded(file, Latest(file))
    /\ at = "location" => Ends(file, Latest(file)) = {} /\ ~AllEnded(file, Latest(file))

ContainedInv == SectionsEnd(file) => Contained

\* A `server` line inside a block would mean that the section before it has an end.
LEMMA NoServerInside ==
    ASSUME Types, Contained, at \in {"host", "location"}, NEW line, NEW g,
           Longer(file, line, g), SectionsEnd(g)
    PROVE  line.word # "server"
<1> SUFFICES ASSUME line.word = "server" PROVE FALSE
  OBVIOUS
<1>1. Starts(file) # {}
  <2>1. /\ Len(Append(config, host)) = Len(config) + 1 /\ Len(Append(config, WithRule)) = Len(config) + 1
        /\ Len(config) \in Nat
    BY LenProperties DEF Types
  <2>2. Len(Reading) # 0
    BY <2>1 DEF Reading
  <2>3. Cardinality(Starts(file)) # 0
    BY <2>2 DEF Contained, HostsFromSections
  <2> QED
    BY <2>3, FS_EmptySet
<1>2. Ends(file, Latest(file)) # {}
  BY <1>1, EndedBefore
<1> QED
  BY <1>2 DEF Contained

\* The last section when it has a line more.
LEMMA LatestEnds ==
    ASSUME NEW f, NEW line, NEW g, Longer(f, line, g), line.word # "server"
    PROVE  /\ Grows(f, line, g, Latest(f), {Len(f) + 1}) /\ Latest(g) = Latest(f) \cup {Len(f) + 1}
           /\ Ends(g, Latest(g))
                = Ends(f, Latest(f)) \cup (IF line.closes /\ AllEnded(f, Latest(f)) THEN {Len(f) + 1} ELSE {})
           /\ line.closes => AllEnded(g, Latest(g))
           /\ ~line.closes /\ line.word = "location" => ~AllEnded(g, Latest(g))
           /\ ~line.closes /\ line.word # "location" => (AllEnded(g, Latest(g)) <=> AllEnded(f, Latest(f)))
<1> DEFINE L == Where(f, Latest(f), {"location"})
           M == Where(g, Latest(g), {"location"})
<1>1. /\ Grows(f, line, g, Latest(f), {Len(f) + 1}) /\ Latest(g) = Latest(f) \cup {Len(f) + 1}
      /\ \A i \in Latest(f) : /\ Ended(f, Latest(f), i) \/ line.closes => Ended(g, Latest(g), i)
                              /\ ~Ended(f, Latest(f), i) /\ ~line.closes => ~Ended(g, Latest(g), i)
      /\ line.word # "location" => M = L
      /\ line.word = "location" => M = L \cup {Len(f) + 1}
      /\ ~line.closes => ~Ended(g, Latest(g), Len(f) + 1)
  BY LatestThere
<1>2. line.closes => line.word # "location"
  BY LineType DEF Longer, LineOf
<1>3. L \subseteq Latest(f)
  BY DEF Where
<1>4. (AllEnded(f, Latest(f)) <=> \A i \in L : Ended(f, Latest(f), i))
      /\ (AllEnded(g, Latest(g)) <=> \A i \in M : Ended(g, Latest(g), i))
  BY DEF AllEnded
<1>5. Ends(g, Latest(g))
          = Ends(f, Latest(f)) \cup (IF line.closes /\ AllEnded(f, Latest(f)) THEN {Len(f) + 1} ELSE {})
  BY <1>1, EndsThere
<1> HIDE DEF L, M
<1>6. line.closes => AllEnded(g, Latest(g))
  BY <1>1, <1>2, <1>3, <1>4
<1>7. ~line.closes /\ line.word = "location" => ~AllEnded(g, Latest(g))
  BY <1>1, <1>4
<1>8. ~line.closes /\ line.word # "location" => (AllEnded(g, Latest(g)) <=> AllEnded(f, Latest(f)))
  BY <1>1, <1>3, <1>4
<1> QED
  BY <1>1, <1>5, <1>6, <1>7, <1>8

LEMMA ContainedAtTop ==
    ASSUME Types, Contained, NEW line \in Lines, TopLine(line), SectionsEnd(file)'
    PROVE  Contained'
<1>1. /\ Longer(file, line, file') /\ at = "top" /\ config' = config /\ config \in Seq(HostRecords)
      /\ Reading = config
  BY DEF TopLine, Write, Types, Longer, Reading
<1>2. CASE line.word = "server"
  <2>1. at' = "host" /\ host' = NewHost /\ Reading' = Append(config, NewHost)
    BY <1>1, <1>2 DEF TopLine, Reading
  <2>2. HostsFromSections(Reading', file')
    BY <1>1, <1>2, <2>1, FromsOpened DEF Contained
  <2>3. Latest(file') = {}
    BY <1>1, <1>2, SectionsThere
  <2>4. Ends(file', {}) = {} /\ AllEnded(file', {})
    BY DEF Ends, AllEnded, Closings, Where
  <2>5. (HostsFromSections(Reading, file))'
    BY <2>2
  <2> QED
    BY <2>1, <2>3, <2>4, <2>5 DEF Contained
<1>3. CASE line.word # "server"
  <2>1. at' = "top" /\ Reading' = config
    BY <1>1, <1>3 DEF TopLine, Reading
  <2>2. /\ Grows(file, line, file', Latest(file), {Len(file) + 1})
        /\ Latest(file') = Latest(file) \cup {Len(file) + 1}
        /\ Ends(file, Latest(file)) \subseteq Ends(file', Latest(file'))
        /\ Starts(file') = Starts(file)
    <3>1. Starts(file') = Starts(file)
      BY <1>1, <1>3, StartsThere
    <3>2. /\ Grows(file, line, file', Latest(file), {Len(file) + 1})
          /\ Latest(file') = Latest(file) \cup {Len(file) + 1}
          /\ Ends(file', Latest(file')) = Ends(file, Latest(file))
                \cup (IF line.closes /\ AllEnded(file, Latest(file)) THEN {Len(file) + 1} ELSE {})
      BY <1>1, <1>3, LatestEnds
    <3> QED
      BY <3>1, <3>2
  <2>3. HostsFromSections(config, file)
    BY <1>1 DEF Contained
  <2>4. CASE Starts(file) = {}
    <3>1. HostsFromSections(config, file')
      BY <2>2, <2>3, <2>4 DEF HostsFromSections
    <3> QED
      BY <2>1, <2>2, <2>4, <3>1 DEF Contained
  <2>5. CASE Ends(file, Latest(file)) # {}
    <3> DEFINE L == Latest(file)
               R == {Len(file) + 1}
    <3>1. Body(file', L \cup R) = Body(file, L)
      BY <2>2, <2>5, BodyThere
    <3>2. ASSUME SectionHost(config[Len(config)], file, L)
          PROVE  SectionHost(config[Len(config)], file', L \cup R)
      <4>1. Grows(file, line, file', L, R)
        BY <2>2
      <4> HIDE DEF L, R
      <4> QED
        BY <3>1, <3>2, <4>1, FromKept, AsIntactKept DEF SectionHost
    <3>3. SectionHost(config[Len(config)], file, Latest(file))
              => SectionHost(config[Len(config)], file', Latest(file'))
      BY <2>2, <3>2
    <3>4. HostsFromSections(config, file')
      BY <1>1, <1>3, <2>3, <3>3, FromsGrow
    <3> QED
      BY <2>1, <2>2, <2>5, <3>4 DEF Contained
  <2> QED
    BY <1>1, <2>4, <2>5 DEF Contained
<1> QED
  BY <1>2, <1>3

LEMMA ContainedAtHost ==
    ASSUME Types, Contained, NEW line \in Lines, HostLine(line), SectionsEnd(file)'
    PROVE  Contained'
<1> DEFINE L == Latest(file)
           R == {Len(file) + 1}
           old == Append(config, host)
<1>1. /\ Longer(file, line, file') /\ at = "host" /\ config \in Seq(HostRecords)
      /\ host \in HostRecords /\ host.rules \in Seq(Rules) /\ Reading = old /\ LineOf(line)
  BY LineType DEF HostLine, Write, Types, Longer, Reading, HostRecords
<1>2. line.word # "server"
  BY <1>1, NoServerInside
<1>3. /\ Grows(file, line, file', L, R) /\ R # {} /\ Latest(file') = L \cup R
      /\ Ends(file', Latest(file')) = Ends(file, L) \cup (IF line.closes /\ AllEnded(file, L) THEN R ELSE {})
      /\ ~line.closes /\ line.word = "location" => ~AllEnded(file', Latest(file'))
      /\ ~line.closes /\ line.word # "location" => (AllEnded(file', Latest(file')) <=> AllEnded(file, L))
  BY <1>1, <1>2, LatestEnds
<1>4. HostsFromSections(old, file) /\ Ends(file, L) = {} /\ AllEnded(file, L)
  BY <1>1 DEF Contained
<1>5. ASSUME NEW h \in HostRecords,
             SectionHost(host, file, L) => SectionHost(h, file', Latest(file'))
      PROVE  HostsFromSections(Append(config, h), file')
  <2>1. /\ old \in Seq(HostRecords) /\ Append(config, h) \in Seq(HostRecords)
        /\ Len(old) = Len(config) + 1 /\ Len(Append(config, h)) = Len(config) + 1
        /\ Len(config) \in Nat /\ old[Len(config) + 1] = host /\ Append(config, h)[Len(config) + 1] = h
        /\ \A j \in 1..Len(config) : old[j] = config[j] /\ Append(config, h)[j] = config[j]
    BY <1>1, AppendProperties, LenProperties
  <2>2. (Len(config) + 1) - 1 = Len(config)
    BY <2>1
  <2> HIDE DEF old
  <2> QED
    BY <1>1, <1>2, <1>4, <1>5, <2>1, <2>2, FromsGrow
<1>6. CASE line.closes
  <2>1. config' = old /\ at' = "top" /\ Reading' = old
    BY <1>1, <1>6 DEF HostLine, Reading
  <2>2. ASSUME SectionHost(host, file, L) PROVE SectionHost(host, file', L \cup R)
    <3>1. Body(file', L \cup R) = Body(file, L)
      <4> HIDE DEF L, R
      <4> QED
        BY <1>3, <1>4, <1>6, BodyThere
    <3> HIDE DEF L, R
    <3> QED
      BY <1>3, <2>2, <3>1, FromKept, AsIntactKept DEF SectionHost
  <2>3. HostsFromSections(old, file')
    BY <1>1, <1>3, <1>5, <2>2
  <2>4. Ends(file', Latest(file')) # {}
    BY <1>3, <1>4, <1>6
  <2> QED
    BY <2>1, <2>3, <2>4 DEF Contained
<1>7. CASE ~line.closes /\ line.word = "location"
  <2>1. PICK garbage \in BOOLEAN :
           config' = config /\ host' = host /\ at' = "location" /\ rule' = NewRule(line.path, garbage)
    BY <1>1, <1>7 DEF HostLine
  <2> DEFINE new == NewRule(line.path, garbage)
             more == [host EXCEPT !.rules = Append(@, new)]
  <2>2. new \in Rules /\ new.path = line.path /\ new.host = Unset
    BY <1>1, <1>7 DEF NewRule, Rules, LineOf
  <2>3. more \in HostRecords /\ more.rules = Append(host.rules, new)
        /\ more.values = host.values /\ more.http = host.http /\ more.https = host.https
    <3>1. Append(host.rules, new) \in Seq(Rules)
      BY <1>1, <2>2
    <3> QED
      BY <1>1, <3>1 DEF HostRecords
  <2>4. ASSUME FromSection(host, file, L) PROVE FromSection(more, file', L \cup R)
    <3>1. SettingsFrom(host, file', L \cup R) /\ RulesFrom(host.rules, file', L \cup R)
      <4> HIDE DEF L, R
      <4> QED
        BY <1>3, <2>4, FromKept, FromInParts
    <3>2. Len(file) + 1 \in Where(file', L \cup R, {"location"}) /\ file'[Len(file) + 1] = line
      <4>1. file'[Len(file) + 1] = line
        BY <1>3, SameLines
      <4> QED
        BY <1>7, <4>1 DEF Where
    <3>3. RuleFrom(new, file', L \cup R)
      <4> HIDE DEF L, R, new
      <4> QED
        BY <2>2, <3>2 DEF RuleFrom
    <3>4. RulesFrom(Append(host.rules, new), file', L \cup R)
      <4> HIDE DEF L, R, new
      <4> QED
        BY <1>1, <2>2, <3>1, <3>3, RulesMore
    <3>5. SettingsFrom(more, file', L \cup R)
      <4> HIDE DEF L, R, more
      <4> QED
        BY <2>3, <3>1 DEF SettingsFrom
    <3> HIDE DEF more, new, L, R
    <3> QED
      BY <2>3, <3>4, <3>5, FromInParts
  <2>5. ASSUME HostAsWritten(host, file, L) PROVE HostAsWritten(more, file', L \cup R)
    <3>1. SettingsAsWritten(host, file, L) /\ RulesAsWritten(host.rules, file, L)
      BY <2>5, HostInParts
    <3>2. line.word \notin Keys \cup {"listen"}
      BY <1>7
    <3>3. SettingsAsWritten(host, file', L \cup R)
      <4> HIDE DEF L, R
      <4> QED
        BY <1>3, <3>1, <3>2, SettingsKept
    <3>4. RulesAsWritten(Append(host.rules, new), file', L \cup R)
      <4> HIDE DEF L, R
      <4> QED
        BY <1>1, <1>3, <1>7, <3>1, RuleOpened
    <3>5. SettingsAsWritten(more, file', L \cup R)
      <4> HIDE DEF L, R, more
      <4> QED
        BY <2>3, <3>3 DEF SettingsAsWritten
    <3> HIDE DEF more, new, L, R
    <3> QED
      BY <2>3, <3>4, <3>5, HostInParts
  <2>6. ASSUME AsIntact(host, file, L) PROVE AsIntact(more, file', L \cup R)
    <3> HIDE DEF L, R, more
    <3> QED
      BY <1>3, <1>4, <1>7, <2>5, <2>6, AsIntactGrown
  <2>7. HostsFromSections(Append(config, more), file')
    <3> HIDE DEF more, L, R
    <3>1. SectionHost(host, file, L) => SectionHost(more, file', Latest(file'))
      BY <1>3, <2>4, <2>6 DEF SectionHost
    <3> QED
      BY <1>5, <2>3, <3>1
  <2>8. Reading' = Append(config, more)
    BY <2>1 DEF Reading, WithRule
  <2>9. Ends(file', Latest(file')) = {} /\ ~AllEnded(file', Latest(file'))
    BY <1>3, <1>4, <1>7
  <2> HIDE DEF more
  <2> QED
    BY <2>1, <2>7, <2>8, <2>9 DEF Contained
<1>8. CASE ~line.closes /\ line.word # "location"
  <2>1. config' = config /\ host' = Filled(line) /\ at' = "host" /\ Reading' = Append(config, Filled(line))
    BY <1>1, <1>8 DEF HostLine, Reading
  <2>2. Filled(line) \in HostRecords
    BY <1>1, FilledType
  <2>3. ASSUME HostAsWritten(host, file, L) PROVE HostAsWritten(Filled(line), file', L \cup R)
    <3>1. SettingsAsWritten(host, file, L) /\ RulesAsWritten(host.rules, file, L)
      BY <2>3, HostInParts
    <3>2. RulesAsWritten(host.rules, file', L \cup R)
      <4> HIDE DEF L, R
      <4> QED
        BY <1>3, <1>4, <1>8, <3>1, RulesKept
    <3>3. SettingsAsWritten(Filled(line), file', L \cup R) /\ Filled(line).rules = host.rules
      <4>1. CASE line.word \in Keys \cup {"listen"}
        <5> HIDE DEF L, R
        <5> QED
          BY <1>1, <1>3, <3>1, <4>1, SettingsFilled
      <4>2. CASE line.word \notin Keys \cup {"listen"}
        <5>1. Filled(line) = host
          BY <4>2 DEF Filled
        <5> HIDE DEF L, R
        <5>2. SettingsAsWritten(host, file', L \cup R)
          BY <1>3, <3>1, <4>2, SettingsKept
        <5> QED
          BY <5>1, <5>2
      <4> QED
        BY <4>1, <4>2
    <3> HIDE DEF L, R
    <3> QED
      BY <3>2, <3>3, HostInParts
  <2>4. ASSUME SectionHost(host, file, L) PROVE SectionHost(Filled(line), file', L \cup R)
    <3> HIDE DEF L, R
    <3>1. FromSection(Filled(line), file', L \cup R)
      BY <1>1, <1>3, <2>4, FromFilled DEF SectionHost
    <3>2. AsIntact(Filled(line), file', L \cup R)
      BY <1>3, <1>4, <1>8, <2>3, <2>4, AsIntactGrown DEF SectionHost
    <3> QED
      BY <3>1, <3>2 DEF SectionHost
  <2>5. HostsFromSections(Append(config, Filled(line)), file')
    BY <1>3, <1>5, <2>2, <2>4
  <2>6. Ends(file', Latest(file')) = {} /\ AllEnded(file', Latest(file'))
    BY <1>3, <1>4, <1>8
  <2> QED
    BY <2>1, <2>5, <2>6 DEF Contained
<1> QED
  BY <1>6, <1>7, <1>8

LEMMA ContainedAtLocation ==
    ASSUME Types, Contained, NEW line \in Lines, LocationLine(line), SectionsEnd(file)'
    PROVE  Contained'
<1> DEFINE L == Latest(file)
           R == {Len(file) + 1}
           old == Append(config, WithRule)
<1>1. /\ Longer(file, line, file') /\ at = "location" /\ config \in Seq(HostRecords)
      /\ host \in HostRecords /\ host.rules \in Seq(Rules) /\ Reading = old /\ LineOf(line)
      /\ rule \in Rules
  BY LineType DEF LocationLine, Write, Types, Longer, Reading, HostRecords
<1>2. line.word # "server"
  BY <1>1, NoServerInside
<1>3. /\ Grows(file, line, file', L, R) /\ R # {} /\ Latest(file') = L \cup R
      /\ Ends(file', Latest(file')) = Ends(file, L) \cup (IF line.closes /\ AllEnded(file, L) THEN R ELSE {})
      /\ line.closes => AllEnded(file', Latest(file'))
      /\ ~line.closes /\ line.word = "location" => ~AllEnded(file', Latest(file'))
      /\ ~line.closes /\ line.word # "location" => (AllEnded(file', Latest(file')) <=> AllEnded(file, L))
  BY <1>1, <1>2, LatestEnds
<1>4. /\ HostsFromSections(old, file) /\ Ends(file, L) = {} /\ ~AllEnded(file, L)
      /\ WithRule \in HostRecords /\ WithRule.rules = Append(host.rules, rule)
      /\ WithRule.values = host.values /\ WithRule.http = host.http /\ WithRule.https = host.https
  <2>1. WithRule.rules = Append(host.rules, rule) /\ WithRule.values = host.values
        /\ WithRule.http = host.http /\ WithRule.https = host.https
    BY <1>1 DEF WithRule, HostRecords
  <2> QED
    BY <1>1, <2>1, WithRuleType DEF Contained
<1>5. ASSUME NEW h \in HostRecords,
             SectionHost(WithRule, file, L) => SectionHost(h, file', Latest(file'))
      PROVE  HostsFromSections(Append(config, h), file')
  <2>1. /\ old \in Seq(HostRecords) /\ Append(config, h) \in Seq(HostRecords)
        /\ Len(old) = Len(config) + 1 /\ Len(Append(config, h)) = Len(config) + 1
        /\ Len(config) \in Nat /\ old[Len(config) + 1] = WithRule
        /\ Append(config, h)[Len(config) + 1] = h
        /\ \A j \in 1..Len(config) : old[j] = config[j] /\ Append(config, h)[j] = config[j]
    BY <1>1, <1>4, AppendProperties, LenProperties
  <2>2. (Len(config) + 1) - 1 = Len(config)
    BY <2>1
  <2> HIDE DEF old
  <2> QED
    BY <1>1, <1>2, <1>4, <1>5, <2>1, <2>2, FromsGrow
<1>6. CASE line.closes
  <2>1. config' = config /\ host' = WithRule /\ at' = "host" /\ Reading' = old
    BY <1>1, <1>6 DEF LocationLine, Reading
  <2>2. ASSUME HostAsWritten(WithRule, file, L) PROVE HostAsWritten(WithRule, file', L \cup R)
    <3>1. SettingsAsWritten(WithRule, file, L) /\ RulesAsWritten(WithRule.rules, file, L)
      BY <2>2, HostInParts
    <3>2. line.word = "brace" /\ line.word \notin Keys \cup {"listen"}
          /\ line.word # "location" /\ line.word \notin Words
      BY <1>1, <1>2, <1>6 DEF LineOf, Words
    <3> HIDE DEF L, R
    <3>3. SettingsAsWritten(WithRule, file', L \cup R)
      BY <1>3, <3>1, <3>2, SettingsKept
    <3>4. RulesAsWritten(WithRule.rules, file', L \cup R)
      BY <1>3, <3>1, <3>2, RulesKept
    <3> QED
      BY <3>3, <3>4, HostInParts
  <2>3. ASSUME SectionHost(WithRule, file, L) PROVE SectionHost(WithRule, file', L \cup R)
    <3> HIDE DEF L, R
    <3>1. FromSection(WithRule, file', L \cup R)
      BY <1>3, <2>3, FromKept DEF SectionHost
    <3>2. AsIntact(WithRule, file', L \cup R)
      BY <1>3, <1>4, <2>2, <2>3, AsIntactGrown DEF SectionHost
    <3> QED
      BY <3>1, <3>2 DEF SectionHost
  <2>4. HostsFromSections(old, file')
    BY <1>3, <1>4, <1>5, <2>3
  <2>5. Ends(file', Latest(file')) = {} /\ AllEnded(file', Latest(file'))
    BY <1>3, <1>4, <1>6
  <2> QED
    BY <2>1, <2>4, <2>5 DEF Contained
<1>7. CASE ~line.closes
  <2>1. config' = config /\ host' = host /\ rule' = Ruled(line) /\ at' = "location"
    BY <1>1, <1>7 DEF LocationLine
  <2> DEFINE more == [host EXCEPT !.rules = Append(@, Ruled(line))]
  <2>2. /\ Ruled(line) \in Rules /\ Ruled(line).path = rule.path
        /\ line.word # "proxy_pass" => Ruled(line).host = rule.host /\ Ruled(line).port = rule.port
        /\ line.word = "proxy_pass" => Goes(Ruled(line), line)
    BY <1>1, RuledType DEF Ruled, ParseProxy, Rules, Goes
  <2>3. more \in HostRecords /\ more.rules = Append(host.rules, Ruled(line))
        /\ more.values = host.values /\ more.http = host.http /\ more.https = host.https
    <3>1. Append(host.rules, Ruled(line)) \in Seq(Rules)
      BY <1>1, <2>2
    <3> QED
      BY <1>1, <3>1 DEF HostRecords
  <2>4. ASSUME FromSection(WithRule, file, L) PROVE FromSection(more, file', L \cup R)
    <3>1. SettingsFrom(WithRule, file', L \cup R) /\ RulesFrom(Append(host.rules, rule), file', L \cup R)
      <4> HIDE DEF L, R
      <4>1. SettingsFrom(WithRule, file', L \cup R) /\ RulesFrom(WithRule.rules, file', L \cup R)
        BY <1>3, <2>4, FromKept, FromInParts
      <4> QED
        BY <1>4, <4>1
    <3>2. RulesFrom(host.rules, file', L \cup R) /\ RuleFrom(rule, file', L \cup R)
      <4> HIDE DEF L, R
      <4> QED
        BY <1>1, <3>1, RulesLess
    <3>3. RuleFrom(Ruled(line), file', L \cup R)
      <4>1. CASE line.word # "proxy_pass"
        <5> HIDE DEF L, R
        <5> QED
          BY <2>2, <3>2, <4>1 DEF RuleFrom, Goes
      <4>2. CASE line.word = "proxy_pass"
        <5>1. file'[Len(file) + 1] = line
          BY <1>3, SameLines
        <5>2. Len(file) + 1 \in Where(file', L \cup R, {"proxy_pass"})
          BY <4>2, <5>1 DEF Where
        <5> HIDE DEF L, R
        <5> QED
          BY <2>2, <3>2, <4>2, <5>1, <5>2 DEF RuleFrom
      <4> QED
        BY <4>1, <4>2
    <3>4. RulesFrom(Append(host.rules, Ruled(line)), file', L \cup R)
      <4> HIDE DEF L, R
      <4> QED
        BY <1>1, <2>2, <3>2, <3>3, RulesMore
    <3>5. SettingsFrom(more, file', L \cup R)
      <4> HIDE DEF L, R, more
      <4> QED
        BY <1>4, <2>3, <3>1 DEF SettingsFrom
    <3> HIDE DEF more, L, R
    <3> QED
      BY <2>3, <3>4, <3>5, FromInParts
  <2>5. ASSUME Intact(file', L \cup R), Intact(file, L), HostAsWritten(WithRule, file, L)
        PROVE  HostAsWritten(more, file', L \cup R)
    <3>1. SettingsAsWritten(WithRule, file, L) /\ RulesAsWritten(Append(host.rules, rule), file, L)
      BY <1>4, <2>5, HostInParts
    <3>2. PICK l \in Where(file, L, {"location"}) : ~Ended(file, L, l)
      BY <1>4 DEF AllEnded
    <3>3. Open(file, L, l) /\ line.word \in Words
      <4>1. L \in SUBSET Nat
        <5>1. L \in SUBSET (1..Len(file)) /\ Len(file) \in Nat
          BY <1>1, StartsThere
        <5> QED
          BY <5>1
      <4> HIDE DEF L, R
      <4> QED
        BY <1>3, <1>7, <2>5, <3>2, <4>1, OpenIfIntact, BelongsIfIntact
    <3>4. line.word \notin Keys \cup {"listen"}
      BY <3>3 DEF Words
    <3> HIDE DEF L, R
    <3>5. SettingsAsWritten(WithRule, file', L \cup R)
      BY <1>3, <3>1, <3>4, SettingsKept
    <3>6. RulesAsWritten(Append(host.rules, Ruled(line)), file', L \cup R)
      BY <1>1, <1>3, <3>1, <3>3, RuleRead
    <3>7. SettingsAsWritten(more, file', L \cup R)
      <4> HIDE DEF more
      <4> QED
        BY <1>4, <2>3, <3>5 DEF SettingsAsWritten
    <3> HIDE DEF more
    <3> QED
      BY <2>3, <3>6, <3>7, HostInParts
  <2>6. ASSUME SectionHost(WithRule, file, L) PROVE SectionHost(more, file', L \cup R)
    <3> HIDE DEF L, R, more
    <3>1. FromSection(more, file', L \cup R)
      BY <2>4, <2>6 DEF SectionHost
    <3>2. Intact(file', L \cup R) => Intact(file, L)
      BY <1>3, IntactBefore
    <3>3. AsIntact(more, file', L \cup R)
      BY <1>3, <1>4, <1>7, <2>5, <2>6, <3>2, AsIntactGrown DEF SectionHost
    <3> QED
      BY <3>1, <3>3 DEF SectionHost
  <2>7. HostsFromSections(Append(config, more), file')
    <3> HIDE DEF more
    <3> QED
      BY <1>3, <1>5, <2>3, <2>6
  <2>8. Reading' = Append(config, more)
    BY <2>1 DEF Reading, WithRule
  <2>9. Ends(file', Latest(file')) = {} /\ ~AllEnded(file', Latest(file'))
    BY <1>3, <1>4, <1>7
  <2> HIDE DEF more
  <2> QED
    BY <2>1, <2>7, <2>8, <2>9 DEF Contained
<1> QED
  BY <1>6, <1>7

LEMMA ContainedStep == ASSUME Types, ContainedInv, [Next]_vars PROVE ContainedInv'
<1> SUFFICES ASSUME SectionsEnd(file)' PROVE Contained'
  BY DEF ContainedInv
<1>1. ASSUME NEW line \in Lines, TopLine(line) \/ HostLine(line) \/ LocationLine(line) PROVE Contained'
  <2>1. Longer(file, line, file')
    BY <1>1 DEF TopLine, HostLine, LocationLine, Write, Types, Longer
  <2>2. SectionsEnd(file)
    BY <2>1, EndedBefore
  <2>3. Contained
    BY <2>2 DEF ContainedInv
  <2> QED
    BY <1>1, <2>3, ContainedAtTop, ContainedAtHost, ContainedAtLocation
<1>2. CASE EndOfFile
  <2>1. file' = file /\ at' = "end" /\ at \in {"top", "host", "location"}
    BY <1>2 DEF EndOfFile, writer, Types
  <2>2. Contained
    BY <2>1 DEF ContainedInv
  <2>3. Reading' = config' /\ config' = Reading
    BY <1>2, <2>1 DEF EndOfFile, Reading
  <2> QED
    BY <2>1, <2>2, <2>3 DEF Contained
<1>3. CASE UNCHANGED vars
  <2>1. UNCHANGED <<file, at, config, host, rule>>
    BY <1>3 DEF vars, writer
  <2>2. Contained
    BY <2>1 DEF ContainedInv
  <2> QED
    BY <2>1, <2>2 DEF Contained, Reading, WithRule
<1> QED
  BY <1>1, <1>2, <1>3 DEF Next

\* Whatever the lines of the file, if no server but the last lacks its end: the host of
\* a section without damage is exactly what the section says, however the others are
\* damaged, and that of a damaged one has nothing but from its own section.
THEOREM DamageIsContained == Spec => []DamageContained
<1>1. Init => ContainedInv
  <2> SUFFICES ASSUME Init PROVE Contained
    BY DEF ContainedInv
  <2>1. file = <<>> /\ config = <<>> /\ at = "top" /\ Reading = <<>>
    BY DEF Init, Reading
  <2>2. Starts(file) = {}
    BY <2>1 DEF Starts, Where
  <2>3. Len(<<>>) = 0 /\ Cardinality({}) = 0
    BY EmptySeq, FS_EmptySet
  <2> QED
    BY <2>1, <2>2, <2>3 DEF Contained, HostsFromSections
<1>2. ContainedInv => DamageContained
  BY DEF ContainedInv, Contained, DamageContained, Reading
<1> QED
  BY <1>1, <1>2, TypesHold, ContainedStep, PTL DEF Spec
=============================================================================
