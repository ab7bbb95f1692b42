------------------------ MODULE MCAuthorizationFilter ------------------------
(* An instance of AuthorizationFilter for TLC. *)
EXTENDS AuthorizationFilter, TLC

CONSTANTS home, change, t1, t2, k1, k2, r1, r2

(* The home page, and the page for a new password ([IsAuthorized(false)]). *)
TwoPages == home :> TRUE @@ change :> FALSE

(* t2 is a token for another audience, with the claim, under a good key. *)
TwoKeys == t1 :> k1 @@ t2 :> k2

TheRequests == Permutations({r1, r2})
=============================================================================
