------------------------- MODULE MCExpiredPassword -------------------------
(***************************************************************************)
(* Instances of ExpiredPassword for TLC.                                   *)
(***************************************************************************)
EXTENDS ExpiredPassword, TLC

CONSTANTS ann, bob, annUpn, b1, b2

OneUser == ann :> ann

TwoUsers == OneUser @@ bob :> bob

(* One user, known to the IdP as ann, who signs in as annUpn, too. *)
OneUserTwoNames == ann :> ann @@ annUpn :> ann

TheBrowsers == Permutations({b1, b2})

(* ... and users, where each has one name. *)
TheBrowsersAndUsers == TheBrowsers \union Permutations({ann, bob})
=============================================================================
