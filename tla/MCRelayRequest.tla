---------------------------- MODULE MCRelayRequest ---------------------------
(* Two candidates of one channel around another channel, and two more channels. *)
EXTENDS RelayRequest

CONSTANTS p1, p2, p3, p4

MCProviders == {p1, p2, p3, p4}
MCCandidates == <<p1, p2, p1, p3, p4>>

=============================================================================
