------------------------- MODULE PasswordOwnership -------------------------
(***************************************************************************)
(* What the portal promises about the passwords and locks of the directory *)
(* it serves, with none of its pages: a password is set only for an        *)
(* account somebody at the same browser has recovered at the IdP and has   *)
(* open there, or in place of the current one by somebody who typed it; a  *)
(* lock is lifted only for an account recovered for that.                  *)
(* PasswordRecovery is shown to implement this.                            *)
(***************************************************************************)
CONSTANTS
    Accounts,   \* accounts of the directory
    NoAccount,  \* "no account"
    Browsers,   \* user agents
    Passwords,  \* passwords a person may choose
    NoPassword, \* "no password"
    Requests    \* requests the portal can be serving at once

VARIABLES
    password,   \* the password of each account
    locked,     \* the locked accounts
    recovered,  \* per browser, what was recovered there: <<for what, account>>
    open,       \* per browser, the account whose password may be set there
    granted     \* per request, what it may still do

vars == <<password, locked, recovered, open, granted>>

Recovery == {"reset", "unlock"} \X Accounts

(* What a request may do: for what, to which account, in place of which    *)
(* password, and the new one.                                              *)
Permit(what, a, old, new) == <<what, a, old, new>>

Init ==
    /\ password \in [Accounts -> Passwords]
    /\ locked = {}
    /\ recovered = [b \in Browsers |-> {}]
    /\ open = [b \in Browsers |-> NoAccount]
    /\ granted = [r \in Requests |-> {}]

(* Somebody at b proves at the IdP who they are; proofs lapse.             *)
Recover ==
    /\ \E b \in Browsers : \E some \in SUBSET Recovery :
          recovered' = [recovered EXCEPT ![b] = some]
    /\ UNCHANGED <<password, locked, open, granted>>

(* A proof opens the account at its browser, in place of any other.        *)
Open ==
    /\ \E b \in Browsers, a \in Accounts :
          /\ <<"reset", a>> \in recovered[b]
          /\ open' = [open EXCEPT ![b] = a]
    /\ UNCHANGED <<password, locked, recovered, granted>>

Close ==
    /\ \E b \in Browsers : open' = [open EXCEPT ![b] = NoAccount]
    /\ UNCHANGED <<password, locked, recovered, granted>>

(* A request takes up what its browser, or the password its user typed,    *)
(* allows.                                                                 *)
TakeUp(r, permit) ==
    /\ granted' = [granted EXCEPT ![r] = {permit}]
    /\ UNCHANGED <<password, locked, recovered, open>>

GrantReset ==
    \E r \in Requests, b \in Browsers, a \in Accounts, new \in Passwords :
        /\ open[b] = a
        /\ TakeUp(r, Permit("reset", a, NoPassword, new))

GrantChange ==
    \E r \in Requests, a \in Accounts, old, new \in Passwords :
        TakeUp(r, Permit("change", a, old, new))

GrantUnlock ==
    \E r \in Requests, b \in Browsers, a \in Accounts :
        /\ <<"unlock", a>> \in recovered[b]
        /\ TakeUp(r, Permit("unlock", a, NoPassword, NoPassword))

(* Requests end without doing what they may.                               *)
Withdraw ==
    /\ \E some \in SUBSET Requests :
          granted' = [r \in Requests |-> IF r \in some THEN {} ELSE granted[r]]
    /\ UNCHANGED <<password, locked, recovered, open>>

SetPassword ==
    \E r \in Requests, a \in Accounts, new \in Passwords :
        /\ \/ Permit("reset", a, NoPassword, new) \in granted[r]
           \/ Permit("change", a, password[a], new) \in granted[r]
        /\ password' = [password EXCEPT ![a] = new]
        /\ granted' = [granted EXCEPT ![r] = {}]
        /\ UNCHANGED <<locked, recovered, open>>

Unlock ==
    \E r \in Requests, a \in Accounts :
        /\ Permit("unlock", a, NoPassword, NoPassword) \in granted[r]
        /\ locked' = locked \ {a}
        /\ granted' = [granted EXCEPT ![r] = {}]
        /\ UNCHANGED <<password, recovered, open>>

(* The directory locks an account: too many wrong passwords.               *)
Lock ==
    /\ \E a \in Accounts : locked' = locked \union {a}
    /\ UNCHANGED <<password, recovered, open, granted>>

Next ==
    \/ Recover \/ Open \/ Close \/ Withdraw
    \/ GrantReset \/ GrantChange \/ GrantUnlock \/ SetPassword \/ Unlock \/ Lock

Spec == Init /\ [][Next]_vars
=============================================================================
