------------------------------ MODULE MCNaming ------------------------------
(* Two names, one substitute address to fight for; the first name moves
   between two IPv4 addresses, the second stays. *)
EXTENDS Naming, TLC

CONSTANTS site, mail, here, away, post

MCPlacesOf ==
    [n \in {site, mail} |-> [f \in {"ip4"} |-> IF n = site THEN {here, away} ELSE {post}]]

By(kind, arg) == [kind |-> kind, arg |-> arg]
Rule(ms, action) == [match |-> ms, action |-> action, force |-> FALSE, off |-> FALSE]

(* The lists: by name and by address against each other, a process against a
   database, equals in both orders, a forced rule, a rule switched off. *)
ByName  == << Rule({By("ip", {away})}, "direct"),
              Rule({By("domain", {site})}, "egress"),
              Rule({By("geosite", "ads"), By("port", 443)}, "block"),
              Rule({By("domain", {site, mail})}, "direct") >>
ByForce == << [Rule({By("domain", {site})}, "block") EXCEPT !.off = TRUE],
              Rule({By("process", "game")}, "egress"),
              Rule({By("geoip", "home")}, "direct"),
              [Rule({By("ip", {post})}, "egress") EXCEPT !.force = TRUE],
              Rule({By("domain", {mail})}, "block") >>
MCRuleLists == { ByName, ByForce }

Installed == [site |-> [l \in {"ads"} |-> {mail}], ip |-> [l \in {"home"} |-> {here}]]
MCBaseSets == { Installed }

Small == [servers |-> <<"first">>, cache |-> [entries |-> 1, min |-> 0, max |-> 1]]
Large == [servers |-> <<"first", "second">>, cache |-> [entries |-> 2, min |-> 2, max |-> 0]]
None  == [servers |-> << >>, cache |-> [entries |-> 0, min |-> 0, max |-> 0]]
MCSymmetry == Permutations(Apps)

(* The client's engine changes, or the node's resolver and the world do. *)
MCBudgets == { [engine |-> 1, resolver |-> 0, world |-> 0],
               [engine |-> 0, resolver |-> 1, world |-> 1] }
MCSettings == { Small, Large, None }
=============================================================================
