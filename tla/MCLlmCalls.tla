----------------------------- MODULE MCLlmCalls -----------------------------
(* Two agents at once, for TLC; no symmetry, since the run has liveness       *)
(* properties.  The provider is metered and the fallback is not, as with the  *)
(* fallback that .env.example suggests; a window of cheap answers costs less  *)
(* than the limit, so that what slides out of it is spent once more.          *)
EXTENDS LlmCalls

CONSTANTS a1, a2
=============================================================================
