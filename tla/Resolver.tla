------------------------------ MODULE Resolver ------------------------------
(***************************************************************************)
(* The resolver of a node (internal/dnscache): a cache of answers and two   *)
(* servers asked one after the other.  Both families of a name are asked    *)
(* at once, by two goroutines; nothing joins two callers that ask for the   *)
(* same name.  A server answers with what the name has at that moment; the  *)
(* answer travels, and is put into the cache when it has come, whatever has *)
(* happened to the name, to the cache or to its settings on the way.        *)
(*                                                                          *)
(* Time is counted in ticks: an entry keeps the ticks it has left, and is   *)
(* thrown away only when somebody asks for it or its place is needed.       *)
(***************************************************************************)
EXTENDS Naturals, Sequences, FiniteSets, SequencesExt

CONSTANTS Names,       \* the names resolved
          Places,      \* the addresses names have
          NoAddr,      \* no address
          Callers,     \* who asks: the streams of the node
          Families,    \* "ip4", "ip6"
          Settings,    \* the settings of the cache and the servers a network may have
          StartSetting, \* the one it starts with
          Ttls,        \* the times to live servers name
          DefaultTTL,  \* taken when a server names none
          Patience     \* ticks an answer may travel: queryTimeout

VARIABLES truth,    \* the address a name has in each family, or NoAddr
          had,      \* ticks since the name had the address
          cache,    \* the entries, the one used last in front
          conf,     \* the settings of the cache in force
          servers,  \* the servers in force, the primary first
          half,     \* a setting whose servers are set and whose cache is not yet, or none
          query     \* what each caller waits for, per family

NoSetting == [none |-> TRUE]
Idle == [at |-> "none", todo |-> << >>, addr |-> NoAddr, name |-> NoAddr, waited |-> 0]

NoQuery == [f \in Families |-> Idle]

Clamp(k, ttl) ==
    IF k.min > 0 /\ ttl < k.min THEN k.min
    ELSE IF k.max > 0 /\ ttl > k.max THEN k.max
    ELSE ttl

(* parseAnswer: a time to live of zero is one the server did not name. *)
Named(ttl) == IF ttl = 0 THEN DefaultTTL ELSE ttl

Longest ==
    LET all == {Clamp(k.cache, Named(t)) : k \in Settings, t \in Ttls}
    IN  CHOOSE l \in all : \A m \in all : m <= l

(* The longest an address may be spoken of after the name has left it. *)
Memory == Longest + Patience

ResInit ==
    /\ truth \in [Names -> [Families -> Places \cup {NoAddr}]]
    /\ had = [n \in Names |-> [x \in Places |->
                  IF \E f \in Families : truth[n][f] = x THEN 0 ELSE Memory + 1]]
    /\ cache = << >>
    /\ servers = StartSetting.servers /\ conf = StartSetting.cache
    /\ half = NoSetting
    /\ query = [c \in Callers |-> NoQuery]

(***************************************************************************)
(* The cache.                                                               *)
(***************************************************************************)
IsKey(e, n, f) == e.name = n /\ e.family = f
Held(n, f) == {i \in DOMAIN cache : IsKey(cache[i], n, f)}

(* Mistake: an entry is given out however old it is. *)
AnyAge(n, f) == Held(n, f)

Live(n, f) == {i \in Held(n, f) : cache[i].left > 0}

(* A name has one entry in each family at most (the cache is a map). *)
Without(n, f) ==
    IF Held(n, f) = {} THEN cache ELSE RemoveAt(cache, CHOOSE i \in Held(n, f) : TRUE)

Trimmed(entries, max) == SubSeq(entries, 1, IF Len(entries) < max THEN Len(entries) ELSE max)

Put(n, f, x, ttl) ==
    cache' = IF conf.entries = 0 THEN cache
             ELSE Trimmed(<<[name |-> n, family |-> f, addr |-> x, left |-> Clamp(conf, Named(ttl))]>>
                              \o Without(n, f), conf.entries)

(***************************************************************************)
(* resolveOne: the cache, then the servers that were set at that moment.    *)
(***************************************************************************)
Begin(c, n) ==
    query' = [query EXCEPT ![c] = [f \in Families |-> [Idle EXCEPT !.at = "get", !.name = n]]]

Hit(c, f) ==
    /\ query[c][f].at = "get"
    /\ \E i \in Live(query[c][f].name, f) :
          /\ query' = [query EXCEPT ![c][f].at = "has", ![c][f].addr = cache[i].addr]
          /\ cache' = <<cache[i]>> \o Without(query[c][f].name, f)
    /\ UNCHANGED <<truth, had, conf, servers, half>>

Miss(c, f) ==
    /\ query[c][f].at = "get" /\ Live(query[c][f].name, f) = {}
    /\ cache' = Without(query[c][f].name, f)
    /\ query' = [query EXCEPT ![c][f].at = IF servers = << >> THEN "fails" ELSE "asks",
                              ![c][f].todo = servers]
    /\ UNCHANGED <<truth, had, conf, servers, half>>

(* A server has answered. *)
ServerAnswers(c, f) ==
    /\ query[c][f].at = "asks" /\ truth[query[c][f].name][f] # NoAddr
    /\ query' = [query EXCEPT ![c][f].at = "answered", ![c][f].waited = 0,
                              ![c][f].addr = truth[query[c][f].name][f]]
    /\ UNCHANGED <<truth, had, cache, conf, servers, half>>

(* The answer has come, with the time to live the server names. *)
Replies(c, f, ttl) ==
    /\ query[c][f].at = "answered"
    /\ Put(query[c][f].name, f, query[c][f].addr, ttl)
    /\ query' = [query EXCEPT ![c][f] = [Idle EXCEPT !.at = "has", !.name = query[c][f].name,
                                                     !.addr = query[c][f].addr]]
    /\ UNCHANGED <<truth, had, conf, servers, half>>

(* A server that is silent, refuses, knows no address or whose answer does not *)
(* come in time: the next one is asked.                                        *)
GoesOn(c, f) ==
    /\ query[c][f].at \in {"asks", "answered"}
    /\ query' = [query EXCEPT ![c][f] =
                    [Idle EXCEPT !.at = IF Len(query[c][f].todo) = 1 THEN "fails" ELSE "asks",
                                 !.todo = Tail(query[c][f].todo), !.name = query[c][f].name]]
    /\ UNCHANGED <<truth, had, cache, conf, servers, half>>

(* resolveBoth waits for the two of them. *)
Settled(c) == \A f \in Families : query[c][f].at \in {"has", "fails"}
Found(c) == {query[c][f].addr : f \in {g \in Families : query[c][g].at = "has"}}

Done(c) == query' = [query EXCEPT ![c] = NoQuery]

(***************************************************************************)
(* The settings of the network change: Configure sets the servers, then the *)
(* cache under a lock of its own; a soft reset empties the cache.           *)
(***************************************************************************)
Configure(k) ==
    /\ half = NoSetting
    /\ servers' = k.servers /\ half' = k
    /\ UNCHANGED <<truth, had, cache, conf, query>>

ConfigureCache ==
    /\ half # NoSetting
    /\ conf' = half.cache /\ half' = NoSetting
    /\ cache' = Trimmed(cache, half.cache.entries)
    /\ UNCHANGED <<truth, had, servers, query>>

Flush ==
    /\ half = NoSetting /\ cache # << >>
    /\ cache' = << >>
    /\ UNCHANGED <<truth, had, conf, servers, half, query>>

(***************************************************************************)
(* The world: a name moves to another address; time passes.                 *)
(***************************************************************************)
Moves(n, f, x) ==
    /\ truth[n][f] \notin {x, NoAddr}
    /\ truth' = [truth EXCEPT ![n][f] = x]
    /\ had' = [had EXCEPT ![n][x] = 0]
    /\ UNCHANGED <<cache, conf, servers, half, query>>

(* No answer travels longer than a server is waited for. *)
InTime ==
    \A c \in Callers, f \in Families : query[c][f].at = "answered" => query[c][f].waited < Patience

ResTick ==
    /\ InTime
    /\ query' = [c \in Callers |-> [f \in Families |->
                    IF query[c][f].at = "answered"
                    THEN [query[c][f] EXCEPT !.waited = @ + 1] ELSE query[c][f]]]
    /\ cache' = [i \in DOMAIN cache |->
                    [cache[i] EXCEPT !.left = IF @ > 0 THEN @ - 1 ELSE 0]]
    /\ had' = [n \in Names |-> [x \in Places |->
                    IF \E f \in Families : truth[n][f] = x THEN 0
                    ELSE IF had[n][x] <= Memory THEN had[n][x] + 1 ELSE had[n][x]]]
    /\ UNCHANGED <<truth, conf, servers, half>>
=============================================================================
