-------------------------- MODULE MCSessionLifecycle --------------------------
(* SessionLifecycle with every token lifetime around the boundaries of the   *)
(* leeway (5), the minimum interval (2) and twice the minimum interval.      *)
EXTENDS SessionLifecycle

MCTokenLifetimes == -2..9
=============================================================================
