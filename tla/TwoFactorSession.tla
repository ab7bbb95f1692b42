-------------------------- MODULE TwoFactorSession --------------------------
(***************************************************************************)
(* What the sign-in of the self-service portal promises, with none of its  *)
(* machinery: a browser is given a session for a user only when the IdP    *)
(* issued a token for that user after the second factor, and somebody has  *)
(* shown the portal that user's Active Directory password and the portal   *)
(* has not forgotten it yet.  SignIn.tla is shown to implement this        *)
(* specification in both configurations of the portal.                     *)
(***************************************************************************)
CONSTANTS
    Users,      \* identities the IdP knows
    NoUser,     \* "no identity"
    Browsers,   \* user agents
    Tokens,     \* access tokens the IdP can issue
    NoToken     \* "no token"

VARIABLES
    verified,   \* the users whose password the portal currently vouches for
    owner,      \* the user a token was issued to, NoUser before it is issued
    session     \* the token in a browser's session cookie

vars == <<verified, owner, session>>

Init ==
    /\ verified = {}
    /\ owner = [t \in Tokens |-> NoUser]
    /\ session = [b \in Browsers |-> NoToken]

(* A password was checked successfully. *)
VerifyPassword ==
    /\ \E u \in Users : verified' = verified \union {u}
    /\ UNCHANGED <<owner, session>>

(* A verification is used up, expires, or is lost with the process. *)
Forget ==
    /\ UNCHANGED <<owner, session>>
    /\ verified' \in SUBSET verified

(* The IdP issues a token to a user who passed the second factor. *)
PassSecondFactor ==
    /\ \E t \in Tokens, u \in Users :
          /\ owner[t] = NoUser
          /\ owner' = [owner EXCEPT ![t] = u]
    /\ UNCHANGED <<verified, session>>

(* Both factors are there: the browser gets its session. *)
Grant ==
    /\ \E b \in Browsers, t \in Tokens :
          /\ owner[t] \in verified
          /\ session' = [session EXCEPT ![b] = t]
    /\ verified' \in SUBSET verified
    /\ UNCHANGED owner

(* Sign-out, or a page that refuses the session. *)
Drop ==
    /\ \E b \in Browsers : session' = [session EXCEPT ![b] = NoToken]
    /\ UNCHANGED <<verified, owner>>

Next == Forget \/ VerifyPassword \/ PassSecondFactor \/ Grant \/ Drop

Spec == Init /\ [][Next]_vars
=============================================================================
