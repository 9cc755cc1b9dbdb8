------------------------------- MODULE Routing ------------------------------
(***************************************************************************)
(* The rules by which a client decides where a stream goes                 *)
(* (internal/routing).  A matcher is a record of a kind and its argument;  *)
(* what a text condition matches is a set of names or of addresses.  A     *)
(* condition written as domain, full, keyword or regexp is of one kind: a   *)
(* set of names.                                                           *)
(***************************************************************************)
EXTENDS Naturals, Sequences

Nothing == "none"   \* what is not known about a flow

(***************************************************************************)
(* The steps of strength (type class): the smaller the stronger.            *)
(***************************************************************************)
ClassForce   == 0
ClassDomain  == 1
ClassAddr    == 2
ClassProcess == 3
ClassNone    == 4

MatcherKinds == {"domain", "geosite", "geoip", "ip", "port", "process"}

Class(m) ==
    CASE m.kind \in {"domain", "geosite"} -> ClassDomain
      [] m.kind \in {"geoip", "ip", "port"} -> ClassAddr
      [] m.kind = "process" -> ClassProcess

(* No databases are loaded: a condition on a list matches nothing. *)
NoSets == [site |-> << >>, ip |-> << >>]

Matches(m, f, sets) ==
    \/ m.kind = "domain" /\ f.domain \in m.arg
    \/ m.kind = "geosite" /\ m.arg \in DOMAIN sets.site /\ f.domain \in sets.site[m.arg]
    \/ m.kind = "geoip" /\ m.arg \in DOMAIN sets.ip /\ f.addr \in sets.ip[m.arg]
    \/ m.kind = "ip" /\ f.addr \in m.arg
    \/ m.kind = "port" /\ f.port = m.arg
    \/ m.kind = "process" /\ f.process = m.arg

(***************************************************************************)
(* Replace takes the whole list or nothing.  A rule that is switched off is *)
(* checked like the others and left out; the numbers stay those of the list.*)
(***************************************************************************)
Actions == {"direct", "egress", "block"}

Fit(r) == r.action \in Actions /\ r.match # {} /\ \A m \in r.match : m.kind \in MatcherKinds

Compile(list) ==
    LET kept[i \in 0..Len(list)] ==
            IF i = 0 THEN << >>
            ELSE IF list[i].off THEN kept[i - 1]
            ELSE Append(kept[i - 1], [rule |-> list[i], number |-> i])
    IN  kept[Len(list)]

Strength(r, f, sets) ==
    LET hits == {m \in r.match : Matches(m, f, sets)}
    IN  IF hits = {} THEN ClassNone
        ELSE IF r.force THEN ClassForce
        ELSE CHOOSE c \in {Class(m) : m \in hits} : \A m \in hits : c <= Class(m)

NoRule(engine) == [class |-> ClassNone, action |-> engine.fallback, number |-> 0]

Taking(r, c) == [class |-> c, action |-> r.rule.action, number |-> r.number]

(* Mistake: among equals the later rule wins. *)
LastWins(engine, f) ==
    LET best[i \in 0..Len(engine.rules)] ==
            IF i = 0 THEN NoRule(engine)
            ELSE LET sofar == best[i - 1]
                     c == Strength(engine.rules[i].rule, f, engine.sets)
                 IN  IF c < ClassNone /\ c <= sofar.class THEN Taking(engine.rules[i], c)
                     ELSE sofar
    IN  best[Len(engine.rules)]

(***************************************************************************)
(* Decide walks the whole list: a rule takes over only when its condition   *)
(* is strictly stronger than the best so far.                               *)
(***************************************************************************)
Decide(engine, f) ==
    LET best[i \in 0..Len(engine.rules)] ==
            IF i = 0 THEN NoRule(engine)
            ELSE LET sofar == best[i - 1]
                     c == Strength(engine.rules[i].rule, f, engine.sets)
                 IN  IF c < sofar.class THEN Taking(engine.rules[i], c) ELSE sofar
    IN  best[Len(engine.rules)]

NeedsAddr(engine) ==
    \E i \in DOMAIN engine.rules : \E m \in engine.rules[i].rule.match : m.kind \in {"geoip", "ip"}

(* InactiveRules: a rule with a condition on a list the databases do not have. *)
Inactive(m, sets) ==
    \/ m.kind = "geosite" /\ m.arg \notin DOMAIN sets.site
    \/ m.kind = "geoip" /\ m.arg \notin DOMAIN sets.ip

InactiveRules(engine) ==
    {engine.rules[i].number :
        i \in {j \in DOMAIN engine.rules :
                  \E m \in engine.rules[j].rule.match : Inactive(m, engine.sets)}}

(***************************************************************************)
(* What the screen promises, said without a walk: the stream goes the way   *)
(* of a rule that matches it and that no other matching rule beats, forced  *)
(* rules first, then names, addresses and ports, processes, and the earlier *)
(* of equals; and by the switch when no rule matches.                       *)
(***************************************************************************)
Beats(r, q, f, sets) ==
    \/ Strength(r.rule, f, sets) < Strength(q.rule, f, sets)
    \/ Strength(r.rule, f, sets) = Strength(q.rule, f, sets) /\ r.number < q.number

Promised(engine, f) ==
    LET about == {engine.rules[i] : i \in DOMAIN engine.rules}
        hits == {r \in about : \E m \in r.rule.match : Matches(m, f, engine.sets)}
    IN  IF hits = {} THEN [action |-> engine.fallback, number |-> 0]
        ELSE LET best == CHOOSE r \in hits : \A q \in hits \ {r} : Beats(r, q, f, engine.sets)
             IN  [action |-> best.rule.action, number |-> best.number]
=============================================================================
