------------------------------ MODULE PeerLink ------------------------------
(***************************************************************************)
(* What the connection manager promises about its link to each peer: one   *)
(* attempt at a time; an attempt comes up or goes down; a link that is up  *)
(* goes down only by being lost; only a link that is down is forgotten,    *)
(* and only then is the peer dialled again.                                *)
(***************************************************************************)

CONSTANT Peers

VARIABLE link

TypeOK == link \in [Peers -> {"absent", "dialing", "up", "down"}]

Init == link = [p \in Peers |-> "absent"]

Move(p, from, to) == link[p] = from /\ link' = [link EXCEPT ![p] = to]

Dial(p)   == Move(p, "absent", "dialing")
Answer(p) == Move(p, "dialing", "up")
Fail(p)   == Move(p, "dialing", "down")
Lose(p)   == Move(p, "up", "down")
Forget(p) == Move(p, "down", "absent")

Next == \E p \in Peers : Dial(p) \/ Answer(p) \/ Fail(p) \/ Lose(p) \/ Forget(p)

Spec == Init /\ [][Next]_link

=============================================================================
