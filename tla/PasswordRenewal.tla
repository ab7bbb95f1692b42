--------------------------- MODULE PasswordRenewal ---------------------------
(***************************************************************************)
(* What the portal promises about the renewal of expired passwords, with   *)
(* none of its pages, cookies and cache keys: the portal keeps a password  *)
(* only while, or after, somebody proved it as the expired password of     *)
(* their account; a browser takes a kept password up only for the account  *)
(* signed in there; and with it only that account's password is changed,   *)
(* if it still is the current one.  ExpiredPassword is shown to implement  *)
(* this.                                                                   *)
(***************************************************************************)
EXTENDS Naturals

CONSTANTS
    Accounts,   \* accounts of the directory
    NoAccount,  \* "no account"
    Browsers    \* user agents

VARIABLES
    version,    \* directory: how often the password of an account changed
    expired,    \* directory: accounts with an expired password
    proved,     \* per browser, the expired passwords its request has proved
    kept,       \* the passwords the portal keeps
    user,       \* per browser, the account signed in there
    taken       \* per browser, the kept passwords its request has taken up

vars == <<version, expired, proved, kept, user, taken>>

(* The password an account has now.                                        *)
Current(a) == [of |-> a, number |-> version[a]]

Init ==
    /\ version = [a \in Accounts |-> 0]
    /\ expired = {}
    /\ proved = [b \in Browsers |-> {}]
    /\ kept = {}
    /\ user = [b \in Browsers |-> NoAccount]
    /\ taken = [b \in Browsers |-> {}]

(* A password expires, or is set without the portal's renewal.             *)
Expire(a) ==
    /\ expired' = expired \union {a}
    /\ UNCHANGED <<version, proved, kept, user, taken>>

SetElsewhere(a) ==
    /\ version' = [version EXCEPT ![a] = @ + 1]
    /\ expired' = expired \ {a}
    /\ UNCHANGED <<proved, kept, user, taken>>

(* Somebody at b types the password of an account, which has expired.      *)
Prove(b, a) ==
    /\ a \in expired
    /\ proved' = [proved EXCEPT ![b] = {Current(a)}]
    /\ UNCHANGED <<version, expired, kept, user, taken>>

(* It is kept, in place of others.                                         *)
Keep(b) ==
    /\ \E others \in SUBSET kept : kept' = others \union proved[b]
    /\ UNCHANGED <<version, expired, proved, user, taken>>

(* The sign-in at b succeeds: whoever proved a password is its account.    *)
SignIn(b, a) ==
    /\ \A p \in proved[b] : p.of = a
    /\ user' = [user EXCEPT ![b] = a]
    /\ proved' = [proved EXCEPT ![b] = {}]
    /\ UNCHANGED <<version, expired, kept, taken>>

(* The browser is signed out, with or without its password being dropped.  *)
Leave(b) ==
    /\ kept' \in SUBSET kept
    /\ user' = [user EXCEPT ![b] = NoAccount]
    /\ UNCHANGED <<version, expired, proved, taken>>

(* A request of b takes up a password that is kept for its user.           *)
TakeUp(b) ==
    /\ \E p \in kept :
          /\ p.of = user[b]
          /\ taken' = [taken EXCEPT ![b] = {p}]
    /\ UNCHANGED <<version, expired, proved, kept, user>>

(* The directory changes it: for the user of b, who has proved the one     *)
(* that is still current.                                                  *)
Renew(b, a) ==
    /\ user[b] = a
    /\ Current(a) \in taken[b]
    /\ version' = [version EXCEPT ![a] = @ + 1]
    /\ expired' = expired \ {a}
    /\ taken' = [taken EXCEPT ![b] = {}]
    /\ UNCHANGED <<proved, kept, user>>

(* Requests end, keys expire, the process is restarted.                    *)
Lose ==
    /\ kept' \in SUBSET kept
    /\ \E some \in SUBSET Browsers :
          /\ proved' = [b \in Browsers |-> IF b \in some THEN {} ELSE proved[b]]
          /\ taken' = [b \in Browsers |-> IF b \in some THEN {} ELSE taken[b]]
    /\ UNCHANGED <<version, expired, user>>

Next ==
    \/ Lose
    \/ \E a \in Accounts : Expire(a) \/ SetElsewhere(a)
    \/ \E b \in Browsers : Keep(b) \/ Leave(b) \/ TakeUp(b)
    \/ \E b \in Browsers, a \in Accounts :
           Prove(b, a) \/ SignIn(b, a) \/ Renew(b, a)

Spec == Init /\ [][Next]_vars
=============================================================================
