-------------------------- MODULE ExpiredPassword --------------------------
(***************************************************************************)
(* Renewal of an expired password.  A sign-in that meets an expired        *)
(* password (SignInStory, AuthnStory) caches, under the name as typed, a   *)
(* user key and a cipher key (the encrypted password).  The filter of the  *)
(* home page (IsAuthorized) sends the user to ExpiredPasswordController,   *)
(* which looks the keys up under the name of the forms-authentication      *)
(* cookie, changes the password in Active Directory, refreshes the token   *)
(* at the API, signs in with it and only then removes the keys.            *)
(*                                                                         *)
(* The sign-in itself (SignIn.tla) is reduced to the steps that touch this *)
(* state.  pc[b] is the page a browser shows, a redirect it is following   *)
(* ("to..."), or the point its request has reached.  A password is known   *)
(* by its account and the number of changes the account has seen.          *)
(*                                                                         *)
(* "Variant" definitions are not part of the specification: each is the    *)
(* definition below it with a plausible mistake, for the properties to     *)
(* catch.                                                                  *)
(***************************************************************************)
EXTENDS Naturals

CONSTANTS
    Names,          \* user names, as typed or as the IdP reports them
    NoName,
    Account,        \* the identity (itself a name) behind a name
    Browsers,
    NoSession,
    NoPassword,
    MaxVersion,     \* bound on password changes per account
    PreAuthnMode    \* Configuration.PreAuthnMode

ASSUME ExpiredPasswordAssumption ==
    /\ Account \in [Names -> Names]
    /\ \A n \in Names : Account[Account[n]] = Account[n]
    /\ NoName \notin Names
    /\ NoSession \notin [user : Names, must : BOOLEAN, valid : BOOLEAN]
    /\ MaxVersion \in Nat
    /\ NoPassword \notin [of : Names, number : 0..MaxVersion]
    /\ PreAuthnMode \in BOOLEAN

Accounts == {Account[n] : n \in Names}

Passwords == [of : Accounts, number : 0..MaxVersion]

VARIABLES
    pc,
    typed,      \* the name a request works for
    pwd,        \* the password it holds: typed by the user, or decrypted
    session,    \* the "multifactor" cookie: a token's name and claims
    formsUser,  \* the user of the forms-authentication cookie
    version,    \* Active Directory: an account's password changes
    expired,    \* Active Directory: accounts with an expired password
    userKey,    \* cache: names with an expired-password user key
    cipherKey   \* cache: name -> password in the cipher key

requestVars == <<pc, typed, pwd>>
cookieVars  == <<session, formsUser>>
adVars      == <<version, expired>>
keyVars     == <<userKey, cipherKey>>
vars == <<pc, typed, pwd, session, formsUser, version, expired, userKey, cipherKey>>

Pages == {"login", "home", "form", "error", "done"}
Redirects == {"toLogin", "toHome", "toChange"}
SigningIn == {"setUser", "setCipher", "signIn"}
Working == SigningIn \union {"change", "refresh", "dropUser", "dropCipher"}

Session == [user : Names, must : BOOLEAN, valid : BOOLEAN]

TypeOK ==
    /\ pc \in [Browsers -> Pages \union Redirects \union Working]
    /\ typed \in [Browsers -> Names \union {NoName}]
    /\ pwd \in [Browsers -> Passwords \union {NoPassword}]
    /\ session \in [Browsers -> Session \union {NoSession}]
    /\ formsUser \in [Browsers -> Names \union {NoName}]
    /\ version \in [Accounts -> 0..MaxVersion]
    /\ expired \in SUBSET Accounts
    /\ userKey \in SUBSET Names
    /\ cipherKey \in [Names -> Passwords \union {NoPassword}]

Init ==
    /\ pc = [b \in Browsers |-> "toLogin"]
    /\ typed = [b \in Browsers |-> NoName]
    /\ pwd = [b \in Browsers |-> NoPassword]
    /\ session = [b \in Browsers |-> NoSession]
    /\ formsUser = [b \in Browsers |-> NoName]
    /\ version = [a \in Accounts |-> 0]
    /\ expired = {}
    /\ userKey = {}
    /\ cipherKey = [n \in Names |-> NoPassword]

-----------------------------------------------------------------------------
(* Helpers *)

Goto(b, p) == pc' = [pc EXCEPT ![b] = p]

(* The request ends with page or redirect p. *)
Answer(b, p) ==
    /\ Goto(b, p)
    /\ typed' = [typed EXCEPT ![b] = NoName]
    /\ pwd' = [pwd EXCEPT ![b] = NoPassword]

(* The password Active Directory has for an account. *)
Current(a) == [of |-> a, number |-> version[a]]

(* Both keys are found for a name. *)
HasKeys(n) == n \in userKey /\ cipherKey[n] # NoPassword

(* AppAuthentication.SignOut *)
SignOut(b) ==
    /\ session' = [session EXCEPT ![b] = NoSession]
    /\ formsUser' = [formsUser EXCEPT ![b] = NoName]

-----------------------------------------------------------------------------
(* Signing in *)

(* The password typed for a name is right but expired: AuthnStory keeps it  *)
(* for the change, and so does SignInStory, if the IdP asks for one ...    *)
SubmitExpired(b) ==
    /\ pc[b] = "login"
    /\ \E n \in Names :
          /\ Account[n] \in expired
          /\ typed' = [typed EXCEPT ![b] = n]
          /\ pwd' = [pwd EXCEPT ![b] = Current(Account[n])]
    /\ Goto(b, "setUser") \/ Goto(b, "signIn")
    /\ UNCHANGED <<cookieVars, adVars, keyVars>>

(* ... first the user key ... *)
SetUserKey(b) ==
    /\ pc[b] = "setUser"
    /\ userKey' = userKey \union {typed[b]}
    /\ Goto(b, "setCipher")
    /\ UNCHANGED <<typed, pwd, cookieVars, adVars, cipherKey>>

(* Variant: the arguments are swapped. *)
SetCipherKeySwapped(b) ==
    /\ pc[b] = "setCipher"
    /\ cipherKey' = [cipherKey EXCEPT ![typed[b]] = typed[b]]
    /\ Goto(b, "signIn")
    /\ UNCHANGED <<typed, pwd, cookieVars, adVars, userKey>>

(* Variant: the key is that of the forms user, as everywhere else. *)
SetCipherKeyForms(b) ==
    /\ pc[b] = "setCipher"
    /\ LET n == IF formsUser[b] = NoName THEN typed[b] ELSE formsUser[b] IN
       cipherKey' = [cipherKey EXCEPT ![n] = pwd[b]]
    /\ Goto(b, "signIn")
    /\ UNCHANGED <<typed, pwd, cookieVars, adVars, userKey>>

(* ... then the cipher key. *)
SetCipherKey(b) ==
    /\ pc[b] = "setCipher"
    /\ cipherKey' = [cipherKey EXCEPT ![typed[b]] = pwd[b]]
    /\ Goto(b, "signIn")
    /\ UNCHANGED <<typed, pwd, cookieVars, adVars, userKey>>

(* The password is right and has not expired. *)
SubmitValid(b) ==
    /\ pc[b] = "login"
    /\ \E n \in Names :
          /\ Account[n] \notin expired
          /\ typed' = [typed EXCEPT ![b] = n]
    /\ Goto(b, "signIn")
    /\ UNCHANGED <<pwd, cookieVars, adVars, keyVars>>

(* Variant: a forms-authentication cookie that is there already is kept. *)
FinishSignInKeepsUser(b) ==
    /\ pc[b] = "signIn"
    /\ session' = [session EXCEPT ![b] = [user |-> Account[typed[b]],
                                         must |-> FALSE, valid |-> TRUE]]
    /\ formsUser' = [formsUser EXCEPT ![b] = IF @ = NoName THEN Account[typed[b]] ELSE @]
    /\ Answer(b, "toHome")
    /\ UNCHANGED <<adVars, keyVars>>

(* The remaining steps of the sign-in fail, or set the cookies: the token  *)
(* may keep the name as typed (RawUserName), a sign-in with an expired     *)
(* password may put the changePassword claim into it, and the forms user   *)
(* is the IdP's identity.  The answer leads to the home page or directly   *)
(* to the page for the change.                                             *)
FinishSignIn(b) ==
    /\ pc[b] = "signIn"
    /\ \/ /\ \E u \in {typed[b], Account[typed[b]]}, m \in BOOLEAN :
             /\ m => pwd[b] # NoPassword
             /\ session' = [session EXCEPT ![b] =
                               [user |-> u, must |-> m, valid |-> TRUE]]
          /\ formsUser' = [formsUser EXCEPT ![b] = Account[typed[b]]]
          /\ \/ Answer(b, "toHome")
             \/ pwd[b] # NoPassword /\ Answer(b, "toChange")
       \/ \E p \in {"toLogin", "error"} : Answer(b, p) /\ UNCHANGED cookieVars
    /\ UNCHANGED <<adVars, keyVars>>

-----------------------------------------------------------------------------
(* Redirects *)

(* Variant: Login, too, sends a signed-in browser home. *)
ToLoginChecks(b) ==
    /\ pc[b] = "toLogin"
    /\ Answer(b, IF session[b] # NoSession THEN "toHome" ELSE "login")
    /\ UNCHANGED <<cookieVars, adVars, keyVars>>

(* GET Login shows the login form; in the second-factor-first mode it       *)
(* redirects to Identity, which sends a browser whose token the IdP accepts *)
(* to the home page.                                                        *)
ToLogin(b) ==
    /\ pc[b] = "toLogin"
    /\ Answer(b, IF PreAuthnMode /\ session[b] # NoSession /\ session[b].valid
                 THEN "toHome" ELSE "login")
    /\ UNCHANGED <<cookieVars, adVars, keyVars>>

(* IsAuthorized on the home page: a cookie is missing, or the token does    *)
(* not verify (it is too old, or the keys to verify it cannot be fetched). *)
ToHomeUnauthorized(b) ==
    /\ pc[b] = "toHome"
    /\ SignOut(b)
    /\ Answer(b, "toLogin")
    /\ UNCHANGED <<adVars, keyVars>>

(* It verifies and the password must be changed, ... *)
ToHomeMustChange(b) ==
    /\ pc[b] = "toHome"
    /\ session[b] # NoSession /\ formsUser[b] # NoName
    /\ session[b].must \/ session[b].user \in userKey
    /\ Answer(b, "toChange")
    /\ UNCHANGED <<cookieVars, adVars, keyVars>>

(* ... or need not be changed: the home page asks the IdP for the profile,  *)
(* which answers, refuses a token it has revoked, or cannot be reached.    *)
ToHomeAuthorized(b) ==
    /\ pc[b] = "toHome"
    /\ session[b] # NoSession /\ formsUser[b] # NoName
    /\ ~session[b].must /\ session[b].user \notin userKey
    /\ \/ session[b].valid /\ Answer(b, "home")
       \/ ~session[b].valid /\ Answer(b, "toLogin")
       \/ Answer(b, "error")
    /\ UNCHANGED <<cookieVars, adVars, keyVars>>

(* IsAuthorized(false) on ExpiredPasswordController: forms cookie only. *)
ChangeUnauthorized(b) ==
    /\ pc[b] \in {"toChange", "form"}
    /\ formsUser[b] = NoName
    /\ SignOut(b)
    /\ Answer(b, "toLogin")
    /\ UNCHANGED <<adVars, keyVars>>

(* GET and POST Change without the keys: PasswordChangingSessionExpired,    *)
(* which Application_Error answers with a redirect to the login page.       *)
ChangeSessionExpired(b) ==
    /\ pc[b] \in {"toChange", "form"}
    /\ formsUser[b] # NoName
    /\ ~HasKeys(formsUser[b])
    /\ Answer(b, "toLogin")
    /\ UNCHANGED <<cookieVars, adVars, keyVars>>

(* GET Change *)
ShowForm(b) ==
    /\ pc[b] = "toChange"
    /\ formsUser[b] # NoName
    /\ HasKeys(formsUser[b])
    /\ Answer(b, "form")
    /\ UNCHANGED <<cookieVars, adVars, keyVars>>

-----------------------------------------------------------------------------
(* POST Change *)

(* Variant: the name comes with the form, as at sign-in. *)
PostChangeNamed(b) ==
    /\ pc[b] = "form"
    /\ formsUser[b] # NoName
    /\ \E n \in Names :
          /\ HasKeys(n)
          /\ typed' = [typed EXCEPT ![b] = n]
          /\ pwd' = [pwd EXCEPT ![b] = cipherKey[n]]
    /\ Goto(b, "change")
    /\ UNCHANGED <<cookieVars, adVars, keyVars>>

(* The keys are read; a new password that the policy accepts goes on.  (One *)
(* it refuses shows the form again, which changes nothing here.)            *)
PostChange(b) ==
    /\ pc[b] = "form"
    /\ formsUser[b] # NoName
    /\ HasKeys(formsUser[b])
    /\ typed' = [typed EXCEPT ![b] = formsUser[b]]
    /\ pwd' = [pwd EXCEPT ![b] = cipherKey[formsUser[b]]]
    /\ Goto(b, "change")
    /\ UNCHANGED <<cookieVars, adVars, keyVars>>

(* Variant: SetPassword, which does not ask for the old password. *)
ChangePasswordAsPortal(b) ==
    /\ pc[b] = "change"
    /\ LET a == Account[typed[b]] IN
       /\ version[a] < MaxVersion
       /\ version' = [version EXCEPT ![a] = @ + 1]
       /\ expired' = expired \ {a}
    /\ \/ Goto(b, "refresh") /\ UNCHANGED <<typed, pwd>>
       \/ Answer(b, "form")
    /\ UNCHANGED <<cookieVars, keyVars>>

(* ActiveDirectoryService.ChangeExpiredPassword: Active Directory changes   *)
(* the password if the old one is still the account's; the Save that       *)
(* follows may throw, which the form reports as a failure ...              *)
ChangePassword(b) ==
    /\ pc[b] = "change"
    /\ LET a == Account[typed[b]] IN
       /\ pwd[b] = Current(a)
       /\ version[a] < MaxVersion
       /\ version' = [version EXCEPT ![a] = @ + 1]
       /\ expired' = expired \ {a}
    /\ \/ Goto(b, "refresh") /\ UNCHANGED <<typed, pwd>>
       \/ Answer(b, "form")
    /\ UNCHANGED <<cookieVars, keyVars>>

(* ... and may refuse it for any reason: the form again. *)
ChangeRefused(b) ==
    /\ pc[b] = "change"
    /\ Answer(b, "form")
    /\ UNCHANGED <<cookieVars, adVars, keyVars>>

(* The API refreshes the token, with the forms user as RawUserName, and the *)
(* portal signs in with it (AuthService.SignIn).  The changed password has  *)
(* no changePassword claim any more.                                        *)
Refresh(b) ==
    /\ pc[b] = "refresh"
    /\ session[b] # NoSession
    /\ session' = [session EXCEPT ![b] =
                      [user |-> typed[b], must |-> FALSE, valid |-> TRUE]]
    /\ formsUser' = [formsUser EXCEPT ![b] = typed[b]]
    /\ Goto(b, "dropUser")
    /\ UNCHANGED <<typed, pwd, adVars, keyVars>>

(* The refreshed token does not verify: the form, with the cookies gone. *)
RefreshUnverified(b) ==
    /\ pc[b] = "refresh"
    /\ session[b] # NoSession
    /\ SignOut(b)
    /\ Answer(b, "form")
    /\ UNCHANGED <<adVars, keyVars>>

(* The browser has no token to refresh, or the API refuses it (a redirect   *)
(* to the login page), or is out of reach (the error page).                *)
RefreshFails(b) ==
    /\ pc[b] = "refresh"
    /\ \/ Answer(b, "toLogin")
       \/ session[b] # NoSession /\ Answer(b, "error")
    /\ UNCHANGED <<cookieVars, adVars, keyVars>>

DropUserKey(b) ==
    /\ pc[b] = "dropUser"
    /\ userKey' = userKey \ {typed[b]}
    /\ Goto(b, "dropCipher")
    /\ UNCHANGED <<typed, pwd, cookieVars, adVars, cipherKey>>

(* The last key is removed, and Done signs the user out. *)
DropCipherKey(b) ==
    /\ pc[b] = "dropCipher"
    /\ cipherKey' = [cipherKey EXCEPT ![typed[b]] = NoPassword]
    /\ SignOut(b)
    /\ Answer(b, "done")
    /\ UNCHANGED <<adVars, userKey>>

-----------------------------------------------------------------------------
(* Users, time and the process *)

(* The user opens the portal or its home page from a page. *)
Open(b) ==
    /\ pc[b] \in Pages
    /\ \E p \in {"toLogin", "toHome"} : Answer(b, p)
    /\ UNCHANGED <<cookieVars, adVars, keyVars>>

(* Logout removes the token and keeps the forms cookie. *)
Logout(b) ==
    /\ pc[b] = "home"
    /\ session' = [session EXCEPT ![b] = NoSession]
    /\ Answer(b, "toLogin")
    /\ UNCHANGED <<formsUser, adVars, keyVars>>

(* GET Done, opened by itself, signs the user out.                         *)
OpenDone(b) ==
    /\ pc[b] \in Pages
    /\ formsUser[b] # NoName
    /\ SignOut(b)
    /\ Answer(b, "done")
    /\ UNCHANGED <<adVars, keyVars>>

TokenExpires(b) ==
    /\ session[b] # NoSession /\ session[b].valid
    /\ session' = [session EXCEPT ![b].valid = FALSE]
    /\ UNCHANGED <<requestVars, formsUser, adVars, keyVars>>

PasswordExpires(a) ==
    /\ a \notin expired
    /\ version[a] < MaxVersion
    /\ expired' = expired \union {a}
    /\ UNCHANGED <<requestVars, cookieVars, version, keyVars>>

(* The password is set by other means: the recovery of a forgotten one      *)
(* (PasswordRecovery.tla), Windows, an administrator.                       *)
PasswordSetElsewhere(a) ==
    /\ version[a] < MaxVersion
    /\ version' = [version EXCEPT ![a] = @ + 1]
    /\ expired' = expired \ {a}
    /\ UNCHANGED <<requestVars, cookieVars, keyVars>>

(* Variant: a key that is in use on a page does not expire. *)
ExpireKeysSliding(n) ==
    /\ \A b \in Browsers : pc[b] # "form"
    /\ \/ /\ n \in userKey
          /\ userKey' = userKey \ {n}
          /\ UNCHANGED cipherKey
       \/ /\ cipherKey[n] # NoPassword
          /\ cipherKey' = [cipherKey EXCEPT ![n] = NoPassword]
          /\ UNCHANGED userKey
    /\ UNCHANGED <<requestVars, cookieVars, adVars>>

(* The two keys expire each on its own. *)
ExpireKeys(n) ==
    /\ \/ /\ n \in userKey
          /\ userKey' = userKey \ {n}
          /\ UNCHANGED cipherKey
       \/ /\ cipherKey[n] # NoPassword
          /\ cipherKey' = [cipherKey EXCEPT ![n] = NoPassword]
          /\ UNCHANGED userKey
    /\ UNCHANGED <<requestVars, cookieVars, adVars>>

(* The application pool is recycled: keys and requests are lost. *)
Restart ==
    /\ userKey' = {}
    /\ cipherKey' = [n \in Names |-> NoPassword]
    /\ pc' = [b \in Browsers |-> IF pc[b] \in Working THEN "error" ELSE pc[b]]
    /\ typed' = [b \in Browsers |-> NoName]
    /\ pwd' = [b \in Browsers |-> NoPassword]
    /\ UNCHANGED <<cookieVars, adVars>>

-----------------------------------------------------------------------------

(* What happens without the user: the server's steps, the redirects.       *)
Serve(b) ==
    \/ SetUserKey(b) \/ SetCipherKey(b) \/ FinishSignIn(b)
    \/ ToLogin(b)
    \/ ToHomeUnauthorized(b) \/ ToHomeMustChange(b) \/ ToHomeAuthorized(b)
    \/ pc[b] = "toChange" /\ (ChangeUnauthorized(b) \/ ChangeSessionExpired(b))
    \/ ShowForm(b) \/ ChangePassword(b) \/ ChangeRefused(b)
    \/ Refresh(b) \/ RefreshUnverified(b) \/ RefreshFails(b)
    \/ DropUserKey(b) \/ DropCipherKey(b)

User(b) ==
    \/ SubmitExpired(b) \/ SubmitValid(b) \/ PostChange(b)
    \/ pc[b] = "form" /\ (ChangeUnauthorized(b) \/ ChangeSessionExpired(b))
    \/ Open(b) \/ OpenDone(b) \/ Logout(b)

Next ==
    \/ \E b \in Browsers : Serve(b) \/ User(b) \/ TokenExpires(b)
    \/ \E a \in Accounts : PasswordExpires(a) \/ PasswordSetElsewhere(a)
    \/ \E n \in Names : ExpireKeys(n)
    \/ Restart

Spec == Init /\ [][Next]_vars

(* Requests are answered, browsers follow redirects, cache entries expire. *)
FairSpec ==
    /\ Spec
    /\ \A b \in Browsers : WF_vars(Serve(b))
    /\ \A n \in Names : WF_vars(ExpireKeys(n))

-----------------------------------------------------------------------------
(* Correctness *)

(* The two cookies of a browser belong to one account, through sign-ins,    *)
(* the refresh of the token and the sign-outs on the way.                   *)
CookiesOfOneAccount ==
    \A b \in Browsers :
        session[b] # NoSession /\ formsUser[b] # NoName
            => Account[session[b].user] = Account[formsUser[b]]

(* Whatever browsers share the cache, a cached password, and one a request *)
(* holds, is a password that the account it is used for has or had; and    *)
(* the request that changes it works for its browser's forms user.         *)
PasswordsOfTheirAccounts ==
    /\ \A n \in Names : cipherKey[n] # NoPassword =>
          /\ cipherKey[n].of = Account[n]
          /\ cipherKey[n].number <= version[Account[n]]
    /\ \A b \in Browsers :
          /\ pwd[b] # NoPassword =>
                /\ typed[b] # NoName
                /\ pwd[b].of = Account[typed[b]]
                /\ pwd[b].number <= version[Account[typed[b]]]
          /\ pc[b] \in {"change", "refresh", "dropUser", "dropCipher"} =>
                formsUser[b] = typed[b]

(* A request the server works on has a name, a page has no password. *)
RequestLocals ==
    \A b \in Browsers :
        /\ pc[b] \in Working => typed[b] # NoName
        /\ pc[b] \notin Working => pwd[b] = NoPassword

(* The inductive invariant. *)
IInv ==
    /\ TypeOK
    /\ RequestLocals
    /\ CookiesOfOneAccount
    /\ PasswordsOfTheirAccounts

(* ExpiredPassword implements PasswordRenewal: what a sign-in has proved    *)
(* until it ends, what the cipher keys keep, whom a browser is signed in   *)
(* as by the forms-authentication cookie, and what its request is about to *)
(* change.                                                                 *)
AccountOf(n) == IF n = NoName THEN NoName ELSE Account[n]

Held(here, p) == IF here /\ p # NoPassword THEN {p} ELSE {}

Renewal == INSTANCE PasswordRenewal WITH
    NoAccount <- NoName,
    proved <- [b \in Browsers |-> Held(pc[b] \in SigningIn, pwd[b])],
    kept <- {cipherKey[n] : n \in Names} \ {NoPassword},
    user <- [b \in Browsers |-> AccountOf(formsUser[b])],
    taken <- [b \in Browsers |-> Held(pc[b] = "change", pwd[b])]

(* A password is renewed only in place of the one its own user, signed in   *)
(* at that browser, has proved to be the current one, whichever browsers,  *)
(* names, expiries, restarts and other changes come in between             *)
(* (SignInStory, AuthnStory, ExpiredPasswordController).                   *)
OwnersRenew == Renewal!Spec

(* The cipher key of a password that is no longer the account's. *)
Stale(n) == cipherKey[n] # NoPassword /\ cipherKey[n] # Current(Account[n])

(* Stale keys send their user to a form that cannot succeed (the change     *)
(* failed half-way, or a slow sign-in wrote them after another browser's    *)
(* change): they do not last.                                               *)
StaleKeysEnd == \A n \in Names : Stale(n) ~> ~Stale(n)

(* Every request ends, and every chain of redirects it starts ends, on a    *)
(* page the user can act on.                                                *)
RedirectsEnd ==
    \A b \in Browsers : pc[b] \in Redirects \union Working ~> pc[b] \in Pages

(* How far a request or a redirect still is from a page: GET Login sends    *)
(* some browsers to the home page instead of showing its form.             *)
LoginGoesHome(b) == PreAuthnMode /\ session[b] # NoSession /\ session[b].valid

Away == [setUser |-> 11, setCipher |-> 10, signIn |-> 9,
         change |-> 8, refresh |-> 7, dropUser |-> 6, dropCipher |-> 5,
         toHome |-> 3, toChange |-> 2, toLogin |-> 1]

Distance(b) == IF pc[b] = "toLogin" /\ LoginGoesHome(b) THEN 4 ELSE Away[pc[b]]

(* Each step of a request, and each redirect of the login, home and change *)
(* pages, ends on a page or comes nearer to one, whatever other browsers,   *)
(* expiries and restarts do.  The only redirect that may close a circle is  *)
(* the answer to a session that expired (Application_Error), second factor *)
(* first, with a token the IdP still accepts.                              *)
RedirectsDescend ==
    [][\A b \in Browsers :
          pc[b] \in Redirects \union Working /\ pc'[b] # pc[b] =>
             \/ pc'[b] \in Pages
             \/ Distance(b)' < Distance(b)
             \/ LoginGoesHome(b) /\ ChangeSessionExpired(b)]_vars

(* "Password changing session expired" (Application_Error) is only said     *)
(* when it is true: no keys of the user are left under any of his names.    *)
ExpiredMeansExpired ==
    [][\A b \in Browsers : ChangeSessionExpired(b) =>
          \A n \in Names : Account[n] = Account[formsUser[b]] => ~HasKeys(n)]_vars
=============================================================================
