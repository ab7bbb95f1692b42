------------------------------ MODULE MCSignIn ------------------------------
(***************************************************************************)
(* Instances of SignIn for TLC.                                            *)
(***************************************************************************)
EXTENDS SignIn, TLC

CONSTANTS ann, bob, annUpn, \* two users, and a second way to write one of them
          b1, b2, t1, t2, m1, m2

(* Two users, each with one name. *)
TwoUsers == ann :> ann @@ bob :> bob

(* One user, one name. *)
OneUser == ann :> ann

(* One user, known to the IdP as ann, who also signs in as annUpn. *)
OneUserTwoNames == ann :> ann @@ annUpn :> ann

BrowsersAndTokens == Permutations({b1, b2}) \union Permutations({t1, t2})

(* Names are interchangeable when each user has one. *)
AllButModels == BrowsersAndTokens \union Permutations({ann, bob})

BrowsersAndUsers == Permutations({b1, b2}) \union Permutations({ann, bob})

BrowserAndModels == BrowsersAndTokens \union Permutations({m1, m2})
=============================================================================
