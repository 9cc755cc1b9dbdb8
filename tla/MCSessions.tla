----------------------------- MODULE MCSessions -----------------------------
(* A phone with two connections and a laptop with one, at one of three nodes:  *)
(* the peer hears of them from the host, the third from the peer, which hears  *)
(* of them from the third again.                                               *)
EXTENDS Sessions, TLC

CONSTANTS c1, c2, c3, phone, laptop, host, peer, third, x1, x2

TwoDevices == (c1 :> phone) @@ (c2 :> phone) @@ (c3 :> laptop)
Chain == {<<host, peer>>, <<peer, third>>, <<third, peer>>}
OneLink == {<<host, peer>>}
Winners == (c1 :> {x1}) @@ (c2 :> {x1}) @@ (c3 :> {})
OneEach == [c \in {c1, c2} |-> {x1}]
OnePhone == (c1 :> phone) @@ (c2 :> phone)
=============================================================================
