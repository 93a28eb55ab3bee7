--------------------------------- MODULE MCEdge ---------------------------------
(* Two connections and one slot; every kind of peer and mode; each frontend      *)
(* against each router configuration and target; one UDP association.            *)
EXTENDS Edge

Host(labels, dress) == [labels |-> labels, dress |-> dress]
Is(labels) == [kind |-> "exact", labels |-> labels]
Under(labels) == [kind |-> "under", labels |-> labels]
Everything == [kind |-> "any", labels |-> <<>>]
To(hosts, ports, u) == [hosts |-> hosts, ports |-> ports, upstream |-> u]
Policy(on, hosts, ports) == [enabled |-> on, hosts |-> hosts, ports |-> ports]
NoPolicy == Policy(FALSE, {}, {})

\* A specific route before a general one, and the other way round; a route without an
\* upstream, with and without a fallback; client-chosen targets, free or restricted.
RouterConfigs ==
    LET exact == To({Is(<<"nas", "home">>)}, {<<2, 3>>}, "u1")
        wide == To({Under(<<"home">>)}, {}, "u2")
        bare == To({Under(<<"home">>)}, {}, NoUpstream)
        free == Policy(TRUE, {Everything}, {})
        strict == Policy(TRUE, {Under(<<"home">>)}, {<<1, 2>>})
        Config(rs, f, p) == [routes |-> rs, fallback |-> f, policy |-> p]
    IN  { Config(<<>>, "f", NoPolicy), Config(<<>>, NoUpstream, NoPolicy),
          Config(<<>>, NoUpstream, free), Config(<<>>, NoUpstream, strict),
          Config(<<exact, wide>>, "f", free), Config(<<exact, wide>>, NoUpstream, strict),
          Config(<<wide, exact>>, NoUpstream, NoPolicy),
          Config(<<exact, bare>>, "f", NoPolicy), Config(<<exact, bare>>, NoUpstream, free) }

Target(host, port, unix) == [host |-> host, port |-> port, unix |-> unix]
TargetSet ==
    { Target(Host(<<"nas", "home">>, "port"), 2, FALSE), Target(Host(<<"nas", "home">>, "plain"), 4, FALSE),
      Target(Host(<<"home">>, "dot"), 2, FALSE), Target(Host(<<"home">>, "plain"), 0, FALSE),
      Target(Host(<<"tv", "home">>, "upper"), 4, FALSE), Target(Host(<<>>, "plain"), 2, FALSE),
      Target(Host(<<"", "home">>, "plain"), 2, FALSE), Target(Host(<<"a", "", "home">>, "plain"), 2, FALSE),
      Target(Host(<<>>, "plain"), 0, TRUE) }

Jobs(fronts, targets, cfgs, said, replied, bound) ==
    [front : fronts, target : targets, cfg : cfgs, asks : {said}, answers : {replied}, faults : {bound}]
AnyCfg == [routes |-> <<>>, fallback |-> "f", policy |-> NoPolicy]
AnyTarget == Target(Host(<<"home">>, "plain"), 2, FALSE)
Brief(targets, cfgs) == Jobs({"socks"}, targets, cfgs, <<>>, <<>>, 0)
OneJob == Brief({AnyTarget}, {AnyCfg})
Talks == Jobs({"socks", "absolute"}, {AnyTarget}, {AnyCfg}, <<"b1">>, <<"a1">>, 1)
         \cup Jobs({"connect"}, {AnyTarget}, {AnyCfg}, <<"b1", "b2">>, <<"a1">>, 1)

Native == [alpn |-> TRUE, cert |-> "listed", key |-> "listed", reads |-> TRUE]
Browser == [Native EXCEPT !.cert = "none"]
\* The peers the first door tells apart: an ALPN matters with a certificate only, a key
\* without one only.
Kinds == {p \in Peers : /\ p.reads /\ (p.cert = "none" => p.alpn)
                        /\ (p.cert # "none" => p.key = "listed")}
Deaf == [c \in Conns |-> [Browser EXCEPT !.reads = (c = Tunnel)]]
TunnelOnly == [c \in Conns |-> IF c = Tunnel THEN Native ELSE [Native EXCEPT !.cert = "unlisted"]]
Usual == [open |-> FALSE, ws |-> TRUE]
Scene(peers, modes, jobs, run) == [peers |-> peers, modes |-> modes, jobs |-> jobs, uses |-> run]

MCScenes ==
    { Scene([Conns -> Kinds], {Usual}, OneJob, {}),
      Scene([Conns -> {[Browser EXCEPT !.key = "unlisted"]}], Modes, OneJob, {}),
      Scene({Deaf}, {Usual}, OneJob, {}),
      Scene({TunnelOnly}, {Usual}, Talks, {"relay"}),
      Scene({TunnelOnly}, {Usual}, Brief(TargetSet, RouterConfigs), {"relay"}),
      Scene({TunnelOnly}, {Usual}, OneJob, {"udp"}) }
=============================================================================
