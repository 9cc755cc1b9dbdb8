------------------------------- MODULE Naming -------------------------------
(***************************************************************************)
(* How a name becomes a connection.  An application of the device asks the  *)
(* name service and gets a substitute address (dnsproxy, Fakeip); its       *)
(* packets to that address come out of the tunnel, where the address is     *)
(* turned back into the name and the rules decide (client/tun.go, Routing); *)
(* the node is sent the name and resolves it by itself (Resolver).          *)
(*                                                                          *)
(* An application here asks at most once and connects at most once; two     *)
(* applications stand for two steps of one as well.                         *)
(***************************************************************************)
EXTENDS Fakeip, Routing

CONSTANTS Families, Settings, StartSetting, Ttls, DefaultTTL, Patience,  \* the node's resolver, see Resolver
          PlacesOf,    \* the addresses each name may have
          Numeric,     \* the real addresses applications connect to without a name
          Doh,         \* the names of the resolvers that speak DNS over HTTPS
          KeepDNS,     \* encrypted DNS is refused
          Ports,       \* the ports connected to
          Processes,   \* the programs that use the proxy
          RuleLists,   \* the lists a person may write
          BaseSets,    \* the databases that may be installed
          StartsVia,   \* the switch at the start: "direct" or "egress"
          Budgets      \* bounds: how many changes of each kind a behaviour may see

DoTPort == 853

VARIABLES truth, had, cache, conf, servers, half, query,  \* of the resolver
          engine,   \* the rules, the databases and the switch
          flow,     \* the connection of each application
          budget    \* how many changes there may still be, of the client's engine,
                    \* of the node's resolver and of the world

INSTANCE Resolver WITH Callers <- Apps

(* IPv4 is what the tunnel asks for; an address is one of those there are. *)
ASSUME TheWorldIsKnown ==
    /\ "ip4" \in Families
    /\ \A n \in Names, f \in Families : PlacesOf[n][f] \subseteq Places \cup {NoAddr}

(* Rules are written in lists. *)
ASSUME RulesAreListed == \A l \in RuleLists : Len(l) \in Nat

(* Settings are numbers of entries and of ticks, the first one among them. *)
ASSUME SettingsAreNumbers ==
    /\ StartSetting \in Settings /\ NoSetting \notin Settings
    /\ \A k \in Settings : k.cache \in [entries : Nat, min : Nat, max : Nat]
    /\ Ttls \subseteq Nat /\ DefaultTTL \in Nat /\ Patience \in Nat

(* Of the times an answer may be kept for one is the longest: they are bounded. *)
ASSUME TimesAreBounded ==
    \E k \in Settings, t \in Ttls :
        \A j \in Settings, u \in Ttls : Clamp(j.cache, Named(u)) <= Clamp(k.cache, Named(t))

vars == <<addrOf, seen, real, fresh, holds, truth, had, cache, conf, servers, half,
          query, engine, flow, budget>>

nodeVars == <<truth, had, cache, conf, servers, half, query>>
engineVars == <<engine, budget>>
clientVars == <<addrOf, seen, real, fresh, holds, engine, flow, budget>>

NoFlow == [at |-> "none", target |-> NoAddr, port |-> 0, name |-> NoAddr]
Over == [NoFlow EXCEPT !.at = "over"]
Up == [NoFlow EXCEPT !.at = "up"]
Stages == {"none", "allowed", "learns", "opens", "up", "over"}

TypeOK ==
    /\ FakeTypeOK
    /\ \A a \in Apps : flow[a].at \in Stages
    /\ Len(cache) <= conf.entries \/ half # NoSetting
    /\ budget \in [{"engine", "resolver", "world"} -> Nat]

Init ==
    /\ FakeInit
    /\ ResInit
    /\ \A n \in Names, f \in Families : truth[n][f] \in PlacesOf[n][f]
    /\ \E l \in RuleLists :
          engine = [rules |-> Compile(l), sets |-> NoSets, fallback |-> StartsVia]
    /\ flow = [a \in Apps |-> NoFlow]
    /\ budget \in Budgets

(***************************************************************************)
(* Handle: a blocked name and the name of a DoH resolver are refused, a     *)
(* question for an IPv4 address is answered from the pool.  A question for  *)
(* IPv6 gets an empty answer and any other kind goes to the real resolver:  *)
(* neither touches anything here.                                           *)
(***************************************************************************)
Blocked(n) ==
    Decide(engine, [domain |-> n, addr |-> NoAddr, port |-> 0, process |-> Nothing]).action = "block"

Refused(n) == Blocked(n) \/ (KeepDNS /\ n \in Doh)

Ask(a, n) ==
    /\ holds[a] = Unasked /\ flow[a].at = "none"
    /\ \/ /\ Refused(n) \/ Exhausted(n)
          /\ holds' = [holds EXCEPT ![a] = [name |-> n, addr |-> NoAddr, age |-> 0]]
          /\ UNCHANGED pool
       \/ /\ ~Refused(n)
          /\ \E x \in Fakes : Answer(a, n, x)
    /\ UNCHANGED <<nodeVars, engineVars, flow>>

(***************************************************************************)
(* resolve: the name behind an address of the range, and what is known of   *)
(* where the name really is; realAddr asks only when a rule needs it.       *)
(***************************************************************************)
Behind(t, n) ==
    \/ t \in Fakes /\ Lookup(t, n)
    \/ t \notin Fakes /\ n = NoAddr /\ UNCHANGED pool

Known(t, n) ==
    IF t \notin Fakes THEN t
    ELSE IF NeedsAddr(engine) THEN real[n] ELSE NoAddr

Decision(p, n, x) ==
    Decide(engine, [domain |-> n, addr |-> x, port |-> p, process |-> Nothing]).action

Gone(t) == t \in Fakes /\ NoLease(t)

(***************************************************************************)
(* Allow answers the first packet from what is known already.               *)
(***************************************************************************)
Starts(a, t, p) ==
    /\ flow[a].at = "none"
    /\ IF holds[a] = Unasked THEN t \in Numeric ELSE t = holds[a].addr /\ t # NoAddr
    /\ \/ /\ (KeepDNS /\ p = DoTPort) \/ Gone(t)
          /\ flow' = [flow EXCEPT ![a] = Over]
          /\ UNCHANGED pool
       \/ /\ ~(KeepDNS /\ p = DoTPort)
          /\ \E n \in Names \cup {NoAddr} :
                /\ Behind(t, n)
                /\ flow' = [flow EXCEPT ![a] =
                       IF Decision(p, n, Known(t, n)) = "block" THEN Over
                       ELSE [NoFlow EXCEPT !.at = "allowed", !.port = p, !.target = t]]
    /\ UNCHANGED <<holds, nodeVars, engineVars>>

(***************************************************************************)
(* HandleTCP decides once more, now with the real address if need be: the   *)
(* node is sent the name when there is one.  From here on what the          *)
(* application was answered matters no more, and is forgotten.              *)
(***************************************************************************)
Opens(a, n, x) ==
    flow' = [flow EXCEPT ![a] =
                IF Decision(flow[a].port, n, x) = "block" THEN Over
                ELSE [NoFlow EXCEPT !.at = "opens", !.name = n]]

Handles(a) ==
    /\ flow[a].at = "allowed"
    /\ LET t == flow[a].target IN
       \/ /\ Gone(t) /\ UNCHANGED pool
          /\ flow' = [flow EXCEPT ![a] = Over]
       \/ \E n \in Names \cup {NoAddr} :
             /\ Behind(t, n)
             /\ IF t \in Fakes /\ NeedsAddr(engine) /\ real[n] = NoAddr
                THEN flow' = [flow EXCEPT ![a].at = "learns", ![a].name = n]
                ELSE Opens(a, n, Known(t, n))
    /\ holds' = [holds EXCEPT ![a] = Unasked]
    /\ UNCHANGED <<nodeVars, engineVars>>

(* Mistake: the answer is kept beside the address the question was about. *)
LearnsForTheAddress(a, x) ==
    /\ flow[a].at = "learns"
    /\ real' = [n \in Names |-> IF addrOf[n] = flow[a].target THEN x ELSE real[n]]
    /\ Opens(a, flow[a].name, x)
    /\ UNCHANGED <<addrOf, seen, fresh, holds, nodeVars, engineVars>>

(* ResolveA comes back, with an address the name has now or with nothing. *)
Learns(a, x) ==
    /\ flow[a].at = "learns"
    /\ IF x = NoAddr THEN UNCHANGED real ELSE SetReal(flow[a].name, x)
    /\ Opens(a, flow[a].name, x)
    /\ UNCHANGED <<addrOf, seen, fresh, holds, nodeVars, engineVars>>

Learned(a) ==
    \/ Learns(a, NoAddr)
    \/ flow[a].at = "learns" /\ Learns(a, truth[flow[a].name]["ip4"])

(* The proxy: the program names the site, and is known by its process. *)
Socks(a, n, process) ==
    /\ flow[a].at = "none" /\ holds[a] = Unasked
    /\ LET d == Decide(engine, [domain |-> n, addr |-> NoAddr, port |-> 443, process |-> process])
       IN  flow' = [flow EXCEPT ![a] =
                       IF d.action = "block" THEN Over
                       ELSE [NoFlow EXCEPT !.at = "opens", !.name = n]]
    /\ UNCHANGED <<pool, holds, nodeVars, engineVars>>

(***************************************************************************)
(* At the node: a name is resolved, its addresses are tried in turn; an     *)
(* address is dialled as it is.                                             *)
(***************************************************************************)
Resolves(a) ==
    /\ flow[a].at = "opens" /\ flow[a].name # NoAddr /\ query[a] = NoQuery
    /\ Begin(a, flow[a].name)
    /\ UNCHANGED <<truth, had, cache, conf, servers, half, clientVars>>

Waits(a) ==
    /\ \E f \in Families :
          \/ Hit(a, f) \/ Miss(a, f) \/ ServerAnswers(a, f) \/ GoesOn(a, f)
          \/ \E ttl \in Ttls : Replies(a, f, ttl)
    /\ UNCHANGED clientVars

Dials(a) ==
    /\ flow[a].at = "opens"
    /\ flow[a].name # NoAddr => Settled(a)
    /\ Done(a)
    /\ \E end \in {Up, Over} :
          /\ end = Up => flow[a].name = NoAddr \/ Found(a) # {}
          /\ flow' = [flow EXCEPT ![a] = end]
    /\ UNCHANGED <<pool, holds, truth, had, cache, conf, servers, half, engineVars>>

(***************************************************************************)
(* What people change: rules (open streams are closed), databases, the      *)
(* switch, the settings of the network; and what the world changes.         *)
(***************************************************************************)
Closed == [a \in Apps |-> IF flow[a].at = "up" THEN Over ELSE flow[a]]

Change(part) == budget[part] > 0 /\ budget' = [budget EXCEPT ![part] = @ - 1]

SetRules(l) ==
    /\ Change("engine")
    /\ \A i \in DOMAIN l : Fit(l[i])
    /\ engine' = [engine EXCEPT !.rules = Compile(l)]
    /\ flow' = Closed
    /\ UNCHANGED <<pool, holds, nodeVars>>

SetSets(s) ==
    /\ Change("engine") /\ s # engine.sets
    /\ engine' = [engine EXCEPT !.sets = s]
    /\ UNCHANGED <<pool, holds, nodeVars, flow>>

SetFallback(b) ==
    /\ Change("engine") /\ b # engine.fallback
    /\ engine' = [engine EXCEPT !.fallback = b]
    /\ flow' = Closed
    /\ UNCHANGED <<pool, holds, nodeVars>>

WatchDNS ==
    /\ \/ Change("resolver") /\ \E k \in Settings : Configure(k)
       \/ Change("resolver") /\ Flush
       \/ ConfigureCache /\ UNCHANGED budget
    /\ UNCHANGED <<pool, holds, engine, flow>>

World ==
    /\ Change("world")
    /\ \E n \in Names, f \in Families : \E x \in PlacesOf[n][f] : Moves(n, f, x)
    /\ UNCHANGED <<pool, holds, engine, flow>>

Tick ==
    /\ FakeTick /\ ResTick
    /\ UNCHANGED <<engine, flow, budget>>

Next ==
    \/ \E a \in Apps, n \in Names : Ask(a, n)
    \/ \E a \in Apps, t \in Fakes \cup Numeric, p \in Ports : Starts(a, t, p)
    \/ \E a \in Apps : Handles(a)
    \/ \E a \in Apps : Learned(a)
    \/ \E a \in Apps, n \in Names, q \in Processes : Socks(a, n, q)
    \/ \E a \in Apps : Resolves(a)
    \/ \E a \in Apps : Waits(a)
    \/ \E a \in Apps : Dials(a)
    \/ \E l \in RuleLists : SetRules(l)
    \/ \E s \in BaseSets : SetSets(s)
    \/ \E b \in {"direct", "egress"} : SetFallback(b)
    \/ WatchDNS
    \/ World
    \/ Tick

Spec == Init /\ [][Next]_vars

(***************************************************************************)
(* The address kept beside a lease is one its own name may have: an answer  *)
(* awaited while the substitute address changes hands does not end up with  *)
(* the name that has it now (realAddr asks without a lock and stores after).*)
(***************************************************************************)
RealIsOwn ==
    \A n \in Names : real[n] # NoAddr => \E f \in Families : real[n] \in PlacesOf[n][f]

(***************************************************************************)
(* From the moment the rules, the databases or the switch change, every     *)
(* flow goes where the promise to the user says: by the strongest rule that *)
(* matches, the earlier of equals (routing/engine.go, Decide).              *)
(***************************************************************************)
EveryFlow ==
    [domain : Names \cup {NoAddr}, addr : Places \cup {NoAddr},
     port : Ports, process : Processes \cup {Nothing}]

DecidesByTheStrongest ==
    [][engine' # engine =>
          \A f \in EveryFlow :
              LET d == Decide(engine', f)
              IN  [action |-> d.action, number |-> d.number] = Promised(engine', f)]_vars

(***************************************************************************)
(* An address given to a stream is one the name has now, or had not longer  *)
(* ago than an answer may travel and then be kept under any settings of the *)
(* network: with no regard to which settings were in force when it came, to *)
(* who asked for it first, to what was reset in between and to which newer  *)
(* answer it replaced when it came late (dnscache).                         *)
(***************************************************************************)
NotLongGone ==
    [][\A a \in Apps, f \in Families :
          query'[a][f].at = "has" /\ query[a][f].at # "has"
              => had[query[a][f].name][query'[a][f].addr] <= Memory]_vars

(***************************************************************************)
(* A rule that is to be kept always is kept by the name service too: a name *)
(* is not refused when a forced rule sends its address on (routing/rule.go: *)
(* "the rule is not overridden by any other").  The code breaks this: the   *)
(* service decides by the name alone, and no address has been given yet.    *)
(***************************************************************************)
ForceIsNotOverridden ==
    \A a \in Apps, f \in Families :
        holds[a] # Unasked /\ holds[a].age = 0 /\ holds[a].addr = NoAddr
            /\ holds[a].name \in Names \ Doh
            /\ truth[holds[a].name][f] # NoAddr
            => LET d == Decide(engine, [domain |-> holds[a].name, port |-> 443,
                                        addr |-> truth[holds[a].name][f], process |-> Nothing])
               IN  d.class = ClassForce => d.action = "block"
=============================================================================
