----------------------------- MODULE MCRuleCache -----------------------------
(* Instances of RuleCache for TLC: one request with a full batch and a half  *)
(* one, and one that shares a candidate with it and has another of its own.  *)
EXTENDS RuleCache, TLC

CONSTANTS r1, r2

Sharing == (r1 :> {1, 2, 3}) @@ (r2 :> {1, 4})
Small   == (r1 :> {1}) @@ (r2 :> {1, 4})
=============================================================================
