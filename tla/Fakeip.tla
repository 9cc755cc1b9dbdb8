------------------------------- MODULE Fakeip -------------------------------
(***************************************************************************)
(* The pool of substitute addresses (internal/fakeip) between the two       *)
(* callers it has on a device: the name service, which hands an address out *)
(* for a name, and the tunnel, which turns the address of a packet back     *)
(* into the name.  An application keeps the answer for as long as the       *)
(* answer's time to live and may use it longer; nobody tells the pool.      *)
(*                                                                          *)
(* Time is counted in ticks and kept as ages, capped where nothing depends  *)
(* on them any more.  The list ordered by use is the order of the ages: two *)
(* leases of one age may be taken in either order.                          *)
(***************************************************************************)
EXTENDS Naturals, FiniteSets

CONSTANTS Names,    \* the names asked for
          Fakes,    \* the range of substitute addresses
          Places,   \* the real addresses names have
          Apps,     \* the applications of the device
          NoAddr,   \* no address
          Lease,    \* after how many ticks of silence an address may be taken
          FakeTTL   \* for how many ticks an application may keep an answer

(* The pool's lease (an hour) is longer than the answer's time to live (a minute). *)
ASSUME LeaseOutlivesTheAnswer ==
    /\ Lease \in Nat /\ FakeTTL \in Nat /\ FakeTTL < Lease
    /\ NoAddr \notin Fakes /\ NoAddr \notin Places

VARIABLES addrOf,  \* the address a name holds, or NoAddr (byName, byAddr)
          seen,    \* ticks since the lease was used, for a name that has one
          real,    \* the real address kept beside the lease, or NoAddr
          fresh,   \* the addresses never handed out (from next to last)
          holds    \* what an application was answered: name, address, age

pool == <<addrOf, seen, real, fresh>>
fakeVars == <<addrOf, seen, real, fresh, holds>>

Answers == [name : Names, addr : Fakes \cup {NoAddr}, age : 0..(FakeTTL + 1)]
Unasked == [name |-> NoAddr, addr |-> NoAddr, age |-> 0]

FakeTypeOK ==
    /\ addrOf \in [Names -> Fakes \cup {NoAddr}]
    /\ seen \in [Names -> 0..Lease]
    /\ real \in [Names -> Places \cup {NoAddr}]
    /\ fresh \in SUBSET Fakes
    /\ holds \in [Apps -> Answers \cup {Unasked}]

FakeInit ==
    /\ addrOf = [n \in Names |-> NoAddr]
    /\ seen = [n \in Names |-> 0]
    /\ real = [n \in Names |-> NoAddr]
    /\ fresh = Fakes
    /\ holds = [a \in Apps |-> Unasked]

Leased == {n \in Names : addrOf[n] # NoAddr}

(* The front of the list: nobody with a lease has been silent for longer. *)
Oldest(o) == o \in Leased /\ \A m \in Leased : seen[m] <= seen[o]

(***************************************************************************)
(* Assign: the name's own address again, or a fresh one, or the address of  *)
(* the oldest lease, and that one only when its time has run out.           *)
(***************************************************************************)
Again(n, x) ==
    /\ addrOf[n] = x /\ x # NoAddr
    /\ seen' = [seen EXCEPT ![n] = 0]
    /\ UNCHANGED <<addrOf, real, fresh>>

Fresh(n, x) ==
    /\ addrOf[n] = NoAddr /\ x \in fresh
    /\ addrOf' = [addrOf EXCEPT ![n] = x]
    /\ seen' = [seen EXCEPT ![n] = 0]
    /\ fresh' = fresh \ {x}
    /\ UNCHANGED real

(* Mistake: the oldest lease is taken however young it is. *)
TakenEarly(n, x, o) ==
    /\ addrOf[n] = NoAddr /\ fresh = {}
    /\ Oldest(o) /\ addrOf[o] = x
    /\ addrOf' = [addrOf EXCEPT ![o] = NoAddr, ![n] = x]
    /\ seen' = [seen EXCEPT ![o] = 0, ![n] = 0]
    /\ real' = [real EXCEPT ![o] = NoAddr]
    /\ UNCHANGED fresh

Taken(n, x, o) ==
    /\ addrOf[n] = NoAddr /\ fresh = {}
    /\ Oldest(o) /\ addrOf[o] = x /\ seen[o] >= Lease
    /\ addrOf' = [addrOf EXCEPT ![o] = NoAddr, ![n] = x]
    /\ seen' = [seen EXCEPT ![o] = 0, ![n] = 0]
    /\ real' = [real EXCEPT ![o] = NoAddr]
    /\ UNCHANGED fresh

Assign(n, x) ==
    \/ Again(n, x)
    \/ Fresh(n, x)
    \/ \E o \in Names : Taken(n, x, o)

(* The range is exhausted and even the oldest lease is too young. *)
Exhausted(n) ==
    /\ addrOf[n] = NoAddr /\ fresh = {}
    /\ \A o \in Names : Oldest(o) => seen[o] < Lease

(* Lookup: who has the address; the look renews the lease. *)
Lookup(x, n) ==
    /\ n \in Leased /\ addrOf[n] = x
    /\ seen' = [seen EXCEPT ![n] = 0]
    /\ UNCHANGED <<addrOf, real, fresh>>

NoLease(x) == \A n \in Leased : addrOf[n] # x

(* SetReal: kept beside the lease, when the name still has one. *)
SetReal(n, p) ==
    real' = IF addrOf[n] # NoAddr THEN [real EXCEPT ![n] = p] ELSE real

(***************************************************************************)
(* The two callers, on their own: an application asks and is answered, and  *)
(* a packet to the address arrives; time passes.                            *)
(***************************************************************************)
Answer(a, n, x) ==
    /\ Assign(n, x)
    /\ holds' = [holds EXCEPT ![a] = [name |-> n, addr |-> x, age |-> 0]]

Packet(a, n) ==
    /\ Lookup(holds[a].addr, n)
    /\ UNCHANGED holds

Learn(n, p) ==
    /\ SetReal(n, p)
    /\ UNCHANGED <<addrOf, seen, fresh, holds>>

Older(age, cap) == IF age < cap THEN age + 1 ELSE age

FakeTick ==
    /\ seen' = [n \in Names |->
                   IF addrOf[n] # NoAddr THEN Older(seen[n], Lease) ELSE seen[n]]
    /\ holds' = [a \in Apps |-> IF holds[a] = Unasked THEN holds[a]
                                ELSE [holds[a] EXCEPT !.age = Older(@, FakeTTL + 1)]]
    /\ UNCHANGED <<addrOf, real, fresh>>

FakeNext ==
    \/ \E a \in Apps, n \in Names, x \in Fakes : Answer(a, n, x)
    \/ \E a \in Apps, n \in Names : Packet(a, n)
    \/ \E n \in Names, p \in Places : Learn(n, p)
    \/ FakeTick

FakeSpec == FakeInit /\ [][FakeNext]_fakeVars

(***************************************************************************)
(* An address leads to one name: two names never hold one address, and an   *)
(* address that was never handed out is nobody's (byName and byAddr agree). *)
(***************************************************************************)
OneToOne ==
    /\ \A n, m \in Leased : addrOf[n] = addrOf[m] => n = m
    /\ \A n \in Leased : addrOf[n] \in Fakes \ fresh

(***************************************************************************)
(* An answer leads to its name for as long as an application may keep it:   *)
(* whatever was asked since, and however full the range is, a connection to *)
(* the address is not led to another site (fakeip.go: "taking an address    *)
(* from a name just used means leading a live connection to another site"). *)
(***************************************************************************)
LeadsToItsName ==
    \A a \in Apps :
        holds[a].addr # NoAddr /\ holds[a].age <= FakeTTL
            => addrOf[holds[a].name] = holds[a].addr
=============================================================================
