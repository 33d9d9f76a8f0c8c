--------------------------- MODULE MCRateLimiter ---------------------------
(* A small instance of RateLimiter. *)
EXTENDS RateLimiter, TLC

MCMaxOf == "ip" :> 2 @@ "code" :> 1
=============================================================================
