------------------------- MODULE MCExchangeDevices -------------------------
(* An instance of ExchangeDevices for TLC. *)
EXTENDS ExchangeDevices, TLC

CONSTANTS phone, tablet, t1, t2, t3

DevicesAndTabs == Permutations({phone, tablet}) \union Permutations({t1, t2, t3})
=============================================================================
