------------------------ MODULE MCConnectionStreams ------------------------
(* An instance of ConnectionStreams for TLC. *)
EXTENDS ConnectionStreams, TLC

CONSTANTS c1, c2, c3, h1, h2

\* The first call has a handle of its own, the others take turns at one.
MCVia == c1 :> h1 @@ c2 :> h2 @@ c3 :> h2

=============================================================================
