------------------------------ MODULE MCPricing ------------------------------
(* An instance of PricingUpstream for TLC; the bounds are in the cfg file.  *)
EXTENDS PricingUpstream

\* Numbers in range and out of it, something else, or nothing at all.
Fields == {0, Text}
Lines == UNION {[names -> Fields] : names \in SUBSET {"itemId", "quantity"}}
MCBatches == {<<>>} \cup {<<a>> : a \in Lines} \cup {<<a, b>> : a, b \in Lines}
=============================================================================
