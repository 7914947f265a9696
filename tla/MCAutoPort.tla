----------------------------- MODULE MCAutoPort -----------------------------
(* Instances of AutoPort for TLC. *)
EXTENDS AutoPort

\* Below the first threshold; the two sides of 85% and of 95% of tier 1; 90% of tier 2; far
\* above the last tier.
RatesAtEdges == {5, 42, 43, 47, 48, 180, 6000}

\* The lowest tier, 90% of the next one, and its upper edge.
RatesFew == {5, 45, 48}
=============================================================================
