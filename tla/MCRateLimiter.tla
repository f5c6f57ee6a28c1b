--------------------------- MODULE MCRateLimiter ---------------------------
(* One address behind which one request is anonymous and two are from one author. *)
EXTENDS RateLimiter, TLC

CONSTANTS q1, q2, q3, home, ann
MCKeyOf == [r \in Request |-> IF r = q1 THEN NoPubKey ELSE ann]
OneIPOf == [r \in Request |-> home]
=============================================================================
