--------------------------- MODULE MCVirtualHosts ---------------------------
(***************************************************************************)
(* An instance of VirtualHosts for TLC.  Two kinds of configuration: up to *)
(* two virtual hosts that differ in names, ports and certificates, with    *)
(* one location each, and one virtual host with up to three locations.     *)
(***************************************************************************)
EXTENDS VirtualHosts, TLC

CONSTANT MaxRules       \* bound: locations of a virtual host

Slash == <<"/">>
Proxy(path) == [path |-> path, proxy |-> TRUE]

PlainHosts ==
    {[name |-> n, loads |-> l, rules |-> <<Proxy(Slash)>>,
      ports |-> [http |-> h, https |-> s]] :
        n \in Names \cup {NoName}, l \in BOOLEAN,
        h \in {<<>>, <<2, 1>>}, s \in {<<>>, <<1>>, <<4, 3>>}}

Paths == {<<>>, <<"/">>, <<"/", "a">>, <<"/", "a", "/">>, <<"/", "a", "b">>}

\* Proxied and static locations by turns, starting with either.
Rules(paths, first) ==
    [i \in DOMAIN paths |-> [path |-> paths[i], proxy |-> (i % 2 = 1) = first]]

RoutedHosts ==
    {[name |-> n, loads |-> FALSE, rules |-> Rules(p, first),
      ports |-> [http |-> <<1>>, https |-> <<>>]] :
        n \in Names, p \in SeqOf(Paths, MaxRules), first \in BOOLEAN}

MCConfigs == SeqOf(PlainHosts, 2) \cup SeqOf(RoutedHosts, 1)

MCUrls == {<<"/">>, <<"/", "a">>, <<"/", "a", "/", "b">>, <<"/", "a", "b">>, <<"b">>}

Symmetry == Permutations(Names)
=============================================================================
