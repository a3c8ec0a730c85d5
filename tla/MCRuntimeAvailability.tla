----------------------- MODULE MCRuntimeAvailability -----------------------
(* A small instance of RuntimeAvailability for TLC.                        *)
EXTENDS RuntimeAvailability

MCProviderCooldown == <<1, 2>>
MCModelCooldown == <<2, 3>>

=============================================================================
