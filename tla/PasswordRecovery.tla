-------------------------- MODULE PasswordRecovery --------------------------
(***************************************************************************)
(* The pages that change the directory's passwords and locks outside       *)
(* sign-in: recovery of a forgotten password (ForgottenPasswordController),*)
(* unlocking (UnlockController) and the change of the password of a        *)
(* signed-in user (PasswordController), with the operations of             *)
(* ActiveDirectoryService they end in.                                     *)
(*                                                                         *)
(* A handler that reaches the directory takes its steps one by one: the    *)
(* checks of the controller, the operation at the domain controller, and   *)
(* the Save after it, which can fail on its own.  Several requests run at  *)
(* once, from several tabs and browsers.                                   *)
(***************************************************************************)
EXTENDS Integers, FiniteSets, PasswordPolicy

CONSTANTS
    Names,          \* the ways people write their accounts
    NoName,         \* "no name"
    Accounts,       \* accounts of the directory
    Owner,          \* the account a name is resolved to
    Browsers,       \* user agents
    People,         \* the accounts whose holders use a browser
    Passwords,      \* passwords people choose
    NoPassword,     \* "no password"
    Shape,          \* what the requirements see of a password
    Requirements,   \* the section of the configuration
    AllowUserUnlock, \* the setting of that name
    Requests,       \* requests in flight at once
    MaxRecoveries,  \* bound: recoveries started
    MaxSubmissions  \* bound: requests that reach the directory

ASSUME RecoveryAssumption ==
    /\ NoName \notin Names
    /\ NoPassword \notin Passwords
    /\ Owner \in [Names -> Accounts]
    /\ People \in [Browsers -> SUBSET Accounts]
    /\ AllowUserUnlock \in BOOLEAN
    /\ MaxRecoveries \in Nat
    /\ MaxSubmissions \in Nat

(* The configuration the portal started with.                              *)
ASSUME RequirementsAssumption ==
    /\ Requirements \in Section
    /\ Accepted(Requirements)
    /\ Shape \in [Passwords -> Password]

VARIABLES
    password,   \* directory: the password of each account
    locked,     \* directory: the locked accounts
    asked,      \* IdP: recoveries that wait for their user, <<browser, token>>
    tokens,     \* per browser, the access tokens the IdP handed it
    cookie,     \* per browser, the name in the recovery cookie
    forms,      \* per browser, the names in the Reset pages it has open
    work,       \* per request, what it is about to do
    recoveries, \* recoveries started so far
    submissions \* requests that reached the directory so far

directory == <<password, locked>>
idp == <<asked, tokens, recoveries>>
browser == <<cookie, forms>>
vars == <<directory, idp, browser, work, submissions>>

-----------------------------------------------------------------------------
(***************************************************************************)
(* Types.                                                                  *)
(***************************************************************************)

(* What a token of the IdP is for (its claims) and the identity it names   *)
(* (the raw user name, or the subject).                                    *)
Token == [kind : {"reset", "unlock"}, name : Names]

Work ==
    [step : {"idle", "act", "save"},
     op   : {"none", "reset", "change", "unlock"},
     name : Names \union {NoName},
     old  : Passwords \union {NoPassword},
     new  : Passwords \union {NoPassword}]

Idle == [step |-> "idle", op |-> "none", name |-> NoName,
         old |-> NoPassword, new |-> NoPassword]

Meets(p) == ValidatePassword(Requirements, Shape[p])

TypeOK ==
    /\ password \in [Accounts -> Passwords]
    /\ locked \subseteq Accounts
    /\ asked \subseteq Browsers \X Token
    /\ tokens \in [Browsers -> SUBSET Token]
    /\ cookie \in [Browsers -> Names \union {NoName}]
    /\ forms \in [Browsers -> SUBSET Names]
    /\ work \in [Requests -> Work]
    /\ recoveries \in 0 .. MaxRecoveries
    /\ submissions \in 0 .. MaxSubmissions

Init ==
    /\ password \in {[a \in Accounts |-> p] : p \in Passwords}
    /\ locked = {}
    /\ asked = {}
    /\ tokens = [b \in Browsers |-> {}]
    /\ cookie = [b \in Browsers |-> NoName]
    /\ forms = [b \in Browsers |-> {}]
    /\ work = [r \in Requests |-> Idle]
    /\ recoveries = 0
    /\ submissions = 0

-----------------------------------------------------------------------------
(***************************************************************************)
(* The directory and the IdP, as far as the portal relies on them.         *)
(***************************************************************************)

(* Wrong passwords lock an account.                                        *)
LockOut(a) ==
    /\ locked' = locked \union {a}
    /\ UNCHANGED <<password, idp, browser, work, submissions>>

(* The user proves to the IdP who they are; it sends the browser back with *)
(* an access token that says what was asked for.                           *)
IdPReturns(b, t) ==
    /\ <<b, t>> \in asked
    /\ Owner[t.name] \in People[b]
    /\ asked' = asked \ {<<b, t>>}
    /\ tokens' = [tokens EXCEPT ![b] = @ \union {t}]
    /\ UNCHANGED <<directory, browser, work, recoveries, submissions>>

TokenExpires(b, t) ==
    /\ t \in tokens[b]
    /\ tokens' = [tokens EXCEPT ![b] = @ \ {t}]
    /\ UNCHANGED <<directory, asked, browser, work, recoveries, submissions>>

(* The browser drops the recovery cookie when its five minutes are over.   *)
CookieExpires(b) ==
    /\ cookie[b] # NoName
    /\ cookie' = [cookie EXCEPT ![b] = NoName]
    /\ UNCHANGED <<directory, idp, forms, work, submissions>>

CloseTab(b, n) ==
    /\ n \in forms[b]
    /\ forms' = [forms EXCEPT ![b] = @ \ {n}]
    /\ UNCHANGED <<directory, idp, cookie, work, submissions>>

-----------------------------------------------------------------------------
(***************************************************************************)
(* ForgottenPasswordController.                                            *)
(***************************************************************************)

(* Index: the API starts a recovery and the browser is sent to the IdP.    *)
(* Whether the user may be looked up and what the lookup says of them is   *)
(* not asked; every failure shows the Wrong page and changes nothing.      *)
Index(b, t) ==
    /\ recoveries < MaxRecoveries
    /\ t.kind = "unlock" => AllowUserUnlock
    /\ asked' = asked \union {<<b, t>>}
    /\ recoveries' = recoveries + 1
    /\ UNCHANGED <<directory, tokens, browser, work, submissions>>

(* Variant: the token is read but not verified. *)
ResetUnverified(b, t) ==
    /\ t \in tokens[b] \/ <<b, t>> \in asked
    /\ t.kind = "reset"
    /\ cookie' = [cookie EXCEPT ![b] = t.name]
    /\ forms' = [forms EXCEPT ![b] = @ \union {t.name}]
    /\ UNCHANGED <<directory, idp, work, submissions>>

(* Reset: the IdP, or a reload of the page, posts a token.  One that says  *)
(* MustResetPassword opens the form for its identity and puts the identity *)
(* into the protected cookie, over the one of an earlier recovery.         *)
Reset(b, t) ==
    /\ t \in tokens[b]
    /\ t.kind = "reset"
    /\ cookie' = [cookie EXCEPT ![b] = t.name]
    /\ forms' = [forms EXCEPT ![b] = @ \union {t.name}]
    /\ UNCHANGED <<directory, idp, work, submissions>>

(* What a request is about to do at the directory.                         *)
Submit(r, op, n, old, new) ==
    /\ work[r] = Idle
    /\ submissions < MaxSubmissions
    /\ submissions' = submissions + 1
    /\ work' = [work EXCEPT ![r] = [step |-> "act", op |-> op, name |-> n,
                                    old |-> old, new |-> new]]
    /\ UNCHANGED <<directory, idp, browser>>

(* Variant: the requirements are left to the browser. *)
ConfirmResetUnchecked(r, b, n, new) ==
    /\ n \in forms[b]
    /\ cookie[b] = n
    /\ Submit(r, "reset", n, NoPassword, new)

(* ConfirmReset up to the directory: the cookie is there, it holds the     *)
(* identity of the form, and the new password meets the requirements.      *)
(* Otherwise the form comes back or, without the cookie, the error page:   *)
(* nothing changes.  The cookie stays with the browser whatever happens:   *)
(* Done removes it from a response that does not carry it.                 *)
ConfirmReset(r, b, n, new) ==
    /\ n \in forms[b]
    /\ cookie[b] = n
    /\ Meets(new)
    /\ Submit(r, "reset", n, NoPassword, new)

-----------------------------------------------------------------------------
(***************************************************************************)
(* UnlockController and PasswordController.                                *)
(***************************************************************************)

(* Complete: the token says MustUnlockUser.                                *)
Complete(r, b, t) ==
    /\ t \in tokens[b]
    /\ t.kind = "unlock"
    /\ Submit(r, "unlock", t.name, NoPassword, NoPassword)

(* Variant: the requirements are left to the browser. *)
ChangeUnchecked(r, b, n, old, new) ==
    /\ Owner[n] \in People[b]
    /\ Submit(r, "change", n, old, new)

(* Change: the name somebody at b is signed in under (SignIn.tla), the     *)
(* password typed as the current one, and a new one that meets the         *)
(* requirements.                                                           *)
Change(r, b, n, old, new) ==
    /\ Owner[n] \in People[b]
    /\ Meets(new)
    /\ Submit(r, "change", n, old, new)

-----------------------------------------------------------------------------
(***************************************************************************)
(* ActiveDirectoryService: the operation at the domain controller, then    *)
(* Save.  Any exception ends the request with a message and is forgotten.  *)
(***************************************************************************)

At(r, step, op) == work[r].step = step /\ work[r].op = op

Saving(r) == work' = [work EXCEPT ![r].step = "save"]

Answer(r) == work' = [work EXCEPT ![r] = Idle]

(* ResetPassword: the portal's own account sets the password.              *)
ResetPassword(r) ==
    /\ At(r, "act", "reset")
    /\ password' = [password EXCEPT ![Owner[work[r].name]] = work[r].new]
    /\ Saving(r)
    /\ UNCHANGED <<locked, idp, browser, submissions>>

(* Variant: bound as the technical account, which may set any password. *)
ChangeValidPasswordAsPortal(r) ==
    /\ At(r, "act", "change")
    /\ password' = [password EXCEPT ![Owner[work[r].name]] = work[r].new]
    /\ Saving(r)
    /\ UNCHANGED <<locked, idp, browser, submissions>>

(* ChangeValidPassword: bound as the user, the domain controller replaces  *)
(* the password if the one typed is the current one and the account is not *)
(* locked.                                                                 *)
ChangeValidPassword(r) ==
    LET a == Owner[work[r].name] IN
    /\ At(r, "act", "change")
    /\ password[a] = work[r].old
    /\ a \notin locked
    /\ password' = [password EXCEPT ![a] = work[r].new]
    /\ Saving(r)
    /\ UNCHANGED <<locked, idp, browser, submissions>>

(* UnlockUser.                                                             *)
UnlockUser(r) ==
    /\ At(r, "act", "unlock")
    /\ locked' = locked \ {Owner[work[r].name]}
    /\ Saving(r)
    /\ UNCHANGED <<password, idp, browser, submissions>>

(* The directory cannot be reached, has no such user, or refuses: the      *)
(* request is answered with nothing done.                                  *)
Refuse(r) ==
    /\ work[r].step = "act"
    /\ Answer(r)
    /\ UNCHANGED <<directory, idp, browser, submissions>>

(* Save: success and failure both end the request.  What the user is told  *)
(* differs; a failed Save reports a failure of what was done.              *)
Save(r) ==
    /\ work[r].step = "save"
    /\ Answer(r)
    /\ UNCHANGED <<directory, idp, browser, submissions>>

(* The process is recycled: the requests it was serving are gone.          *)
Restart ==
    /\ work' = [r \in Requests |-> Idle]
    /\ UNCHANGED <<directory, idp, browser, submissions>>

Next ==
    \/ \E a \in Accounts : LockOut(a)
    \/ \E b \in Browsers, t \in Token :
           Index(b, t) \/ IdPReturns(b, t) \/ TokenExpires(b, t) \/ Reset(b, t)
    \/ \E b \in Browsers : CookieExpires(b)
    \/ \E b \in Browsers, n \in Names : CloseTab(b, n)
    \/ \E r \in Requests, b \in Browsers :
           \/ \E n \in Names, new \in Passwords :
                 \/ ConfirmReset(r, b, n, new)
                 \/ \E old \in Passwords : Change(r, b, n, old, new)
           \/ \E t \in Token : Complete(r, b, t)
    \/ \E r \in Requests :
           \/ ResetPassword(r) \/ ChangeValidPassword(r) \/ UnlockUser(r)
           \/ Refuse(r) \/ Save(r)
    \/ Restart

Spec == Init /\ [][Next]_vars

-----------------------------------------------------------------------------
(***************************************************************************)
(* Properties.                                                             *)
(***************************************************************************)

(* A request about to reset a password is for somebody who is known at one *)
(* of the browsers: the cookie, the form and the request all stem from a   *)
(* token the IdP gave that browser, across any number of tabs, recoveries  *)
(* and expiries.                                                           *)
KnownAt(n) == \E b \in Browsers : Owner[n] \in People[b]

RecoveriesOfTheirOwners ==
    /\ \A b \in Browsers :
          /\ \A t \in tokens[b] : Owner[t.name] \in People[b]
          /\ \A n \in forms[b] : Owner[n] \in People[b]
          /\ cookie[b] # NoName => Owner[cookie[b]] \in People[b]
    /\ \A r \in Requests : work[r] # Idle => KnownAt(work[r].name)

(* What a request at the directory was checked for when it came in.        *)
Checked(w) ==
    \/ w = Idle
    \/ /\ w.step \in {"act", "save"}
       /\ w.name \in Names
       /\ \/ w.op = "reset"  /\ w.old = NoPassword /\ w.new \in Passwords
          \/ w.op = "change" /\ w.old \in Passwords /\ w.new \in Passwords
          \/ w.op = "unlock" /\ w.old = NoPassword /\ w.new = NoPassword
       /\ w.op # "unlock" => Meets(w.new)

(* The inductive invariant: types, owners, and requests that were checked. *)
IInv ==
    /\ TypeOK
    /\ RecoveriesOfTheirOwners
    /\ \A r \in Requests : Checked(work[r])

(* The portal implements PasswordOwnership: what a browser may set is the  *)
(* account of its cookie, and a request may do what was checked when it    *)
(* came in.                                                                *)
AccountOf(n) == IF n = NoName THEN NoName ELSE Owner[n]

PermitOf(w) ==
    IF w.step = "act" THEN {<<w.op, AccountOf(w.name), w.old, w.new>>} ELSE {}

Ownership == INSTANCE PasswordOwnership WITH
    NoAccount <- NoName,
    recovered <- [b \in Browsers |->
                     {<<t.kind, Owner[t.name]>> : t \in tokens[b]}],
    open <- [b \in Browsers |-> AccountOf(cookie[b])],
    granted <- [r \in Requests |-> PermitOf(work[r])]

OwnersDecide == Ownership!Spec

(* A password that enters the directory through these pages meets the      *)
(* requirements, whichever page it came by and however long the directory  *)
(* took.                                                                   *)
NewPasswordsMeetRequirements ==
    [][\A a \in Accounts : password'[a] # password[a] => Meets(password'[a])]_vars

(* When the portal starts: a section it starts with can be met by some     *)
(* password exactly when its largest length has room for the kinds of      *)
(* characters it asks for (PasswordPolicyService,                          *)
(* PasswordRequirementsSectionValidator).                                  *)
SectionsCanBeMet ==
    Init => \A section \in Section :
        Accepted(section) =>
            (HasRoom(section) <=> \E p \in Password : ValidatePassword(section, p))
=============================================================================
