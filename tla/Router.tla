--------------------------------- MODULE Router ---------------------------------
(***************************************************************************)
(* Router::resolve (router.rs): the first route whose host and port        *)
(* patterns match decides; then the fallback; then the policy for targets  *)
(* the client chose.  A host is its labels plus how it was written (with a *)
(* port, a final dot, brackets, capitals); normalize_host keeps the labels *)
(* and <<>> stands for no host.                                            *)
(***************************************************************************)
EXTENDS Naturals, Sequences, Functions

\* Upstream is a name; NoUpstream and NoFallback are the None of the source.
NoUpstream == "none"

\* A configuration: a list of routes, each with patterns of its own, and the patterns of
\* the policy; a target has a host and a port.
IsTarget(target) == target.host.labels \in Seq(STRING) /\ target.port \in Nat
IsConfig(cfg) ==
    /\ cfg.routes \in Seq(Range(cfg.routes))
    /\ \A p \in cfg.policy.hosts \cup UNION {r.hosts : r \in Range(cfg.routes)} : p.labels \in Seq(STRING)

\* normalize_host: the writing is dropped, whatever it was.
normalize_host(h) == h.labels

\* Mutant: a suffix pattern also covers its own suffix.
host_matches_loose(p, h) ==
    \/ p.kind = "any"
    \/ p.kind = "exact" /\ normalize_host(p) = h
    \/ /\ p.kind = "under" /\ Len(h) >= Len(p.labels)
       /\ SubSeq(h, Len(h) - Len(p.labels) + 1, Len(h)) = normalize_host(p)
\* host_matches: "*", the same labels, or one or more labels under a suffix, the last
\* of them not empty behind another.
host_matches(p, h) ==
    \/ p.kind = "any"
    \/ p.kind = "exact" /\ normalize_host(p) = h
    \/ LET above == Len(h) - Len(p.labels)
       IN  /\ p.kind = "under" /\ Len(h) > Len(p.labels)
           /\ SubSeq(h, above + 1, Len(h)) = normalize_host(p)
           /\ above > 1 => h[above] # ""

\* port_matches: no pattern, or one whose range has the port (Any is the full
\* range, Exact a range of one).
port_matches(ranges, port) == ranges = {} \/ \E r \in ranges : port \in r[1]..r[2]

\* One route against a target: a route with hosts never matches a target without.
RouteMatches(r, target) ==
    LET h == normalize_host(target.host)
    IN  /\ r.hosts = {} \/ (h # <<>> /\ \E p \in r.hosts : host_matches(p, h))
        /\ port_matches(r.ports, target.port)

Route(u) == [kind |-> "route", upstream |-> u]
Dial == [kind |-> "dial", upstream |-> NoUpstream]
Deny == [kind |-> "deny", upstream |-> NoUpstream]

\* The policy for client-chosen targets: never a unix socket, never port 0; a target
\* without a host passes the host check.
ClientTarget(policy, target) ==
    LET h == normalize_host(target.host)
    IN  IF /\ ~target.unix /\ target.port > 0
           /\ h = <<>> \/ \E p \in policy.hosts : host_matches(p, h)
           /\ port_matches(policy.ports, target.port)
        THEN Dial ELSE Deny

\* The loop over the routes from the i-th on, then what follows it.
resolve(cfg, target) ==
    LET n == Len(cfg.routes)
        After == IF cfg.fallback # NoUpstream THEN Route(cfg.fallback)
                 ELSE IF cfg.policy.enabled THEN ClientTarget(cfg.policy, target) ELSE Deny
        from[i \in 1..(n + 1)] ==
            IF i > n THEN After
            ELSE IF ~RouteMatches(cfg.routes[i], target) THEN from[i + 1]
            ELSE IF cfg.routes[i].upstream # NoUpstream THEN Route(cfg.routes[i].upstream)
            ELSE IF cfg.fallback # NoUpstream THEN Route(cfg.fallback)
            ELSE Deny
    IN  from[1]

\* What the configuration promises, without the loop and in terms of labels alone: a
\* route's upstream is used by the targets that match it and no route before it; the
\* fallback by those with no such upstream; the rest are dialled directly exactly when
\* the policy is enabled and admits them, and denied otherwise.
Covers(p, labels) ==
    \/ p.kind = "any"
    \/ p.kind = "exact" /\ labels = p.labels
    \/ /\ p.kind = "under"
       /\ \E k \in 1..Len(labels) : SubSeq(labels, k + 1, Len(labels)) = p.labels
                                  /\ (labels[k] = "" => k = 1)
Selects(hosts, ports, target) ==
    /\ \E p \in hosts : Covers(p, target.host.labels)
    /\ ports = {} \/ target.port \in UNION {r[1]..r[2] : r \in ports}
Promised(cfg, target, decision) ==
    LET labels == target.host.labels
        Applies(r) ==
            IF r.hosts = {} THEN Selects({[kind |-> "any"]}, r.ports, target)
                            ELSE labels # <<>> /\ Selects(r.hosts, r.ports, target)
        Matching == {i \in DOMAIN cfg.routes : Applies(cfg.routes[i])}
        first == {i \in Matching : \A j \in Matching : i <= j}
        Admitted == /\ cfg.policy.enabled /\ ~target.unix /\ target.port # 0
                    /\ Selects(cfg.policy.hosts \cup (IF labels = <<>> THEN {[kind |-> "any"]} ELSE {}),
                               cfg.policy.ports, target)
    IN  IF \E i \in first : cfg.routes[i].upstream # NoUpstream
        THEN \E i \in first : decision = Route(cfg.routes[i].upstream)
        ELSE IF cfg.fallback # NoUpstream THEN decision = Route(cfg.fallback)
        ELSE decision.kind = IF Matching = {} /\ Admitted THEN "dial" ELSE "deny"
=============================================================================
