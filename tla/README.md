# Verification of the MultiFactor self-service portal

This directory holds TLA+ models of the self-service portal (ASP.NET MVC on
IIS), the TLC configurations that check them and proofs for TLAPS. The source
files named below are relative to the root of the repository.

## 1. The system

The portal lets users sign in with their Active Directory password and a second
factor that a cloud service (the *IdP*, also called the API) asks for, renew,
change, reset and unlock their directory accounts, manage Exchange devices and
open a showcase of applications. It keeps no database: what it knows lives in
the browser's cookies, in an in-memory cache and at the IdP and the directory.

### Components

| component | state it keeps | operations | talks to |
|---|---|---|---|
| `AccountController` | none | Login, Identity, Authn, PostbackFromMfa, Logout, SSO bypasses | the stories, the cache |
| `SignInStory` (password first) | writes flag, expired-password keys | ExecuteAsync | directory, IdP `login`, cache |
| `IdentityStory` (second factor first) | writes pending models | ExecuteAsync | directory, API, IdP `identity`, cache, `AuthnStory` |
| `RedirectToCredValidationAfter2FaStory` | flag, pending models, models by request id | ExecuteAsync | IdP `login-completed`, cache, `AuthenticateSessionStory` |
| `AuthnStory` | expired-password keys | ExecuteAsync | directory, cache, `AuthenticateSessionStory` |
| `AuthenticateSessionStory` | cookies | Execute | IdP `login-completed` |
| `SignOutStory`, `AppAuthentication` | cookies | logout, sign-out | IdP `logout` |
| `ApplicationCache` (two classes, one `IMemoryCache`) | flag, pending model, model by request id, two expired-password keys, support info | Set, Get, Remove; expiry and a size limit | everything above |
| `IsAuthorizedAttribute`, `TokenValidationService` | a field per filter instance; the API's signing keys | OnAuthorization, VerifyToken | cookies, cache |
| `ExpiredPasswordController`, `AuthService` | cookies, keys | Change, Done | cache, directory, API `token/refresh` |
| `MvcApplication` | none | Application_Error | redirects for exceptions |
| `ActiveDirectoryService` | none (the directory) | verify credentials and membership, change, reset, unlock, Exchange devices | LDAP |
| `ForgottenPasswordController`, `UnlockController`, `PasswordController` | recovery cookie | start, reset, confirm; unlock; change | API, directory |
| `ShowcaseSettingsUpdater` | showcase settings, logo files | a loop every 90 seconds | API, file system |
| `PasswordPolicyService`, `LdapIdentity`, profile loader, claims | none | pure functions | configuration |
| `site.js`, `jquery.validate`, scripts in the views | fields, marks, messages, boxes, the submit lock | handlers of the form's events | the user, the controllers' forms |
| `ScopeInfoService`, captcha, configuration, logging, views | support info in the cache | | API |

Components interact by calls inside a request and, across requests, through
the browser (redirects, hidden form fields, cookies), through the IdP (which
makes the browser post a token back) and through the cache, which every
request of every user shares. IIS runs requests in parallel and each `await`
lets others in.

### What is hard

* A sign-in is a conversation of up to six requests whose state is spread over
  cache entries keyed by *user name* (flag, pending model), by *token id*
  (model by request id), hidden form fields and cookies. Several attempts of
  one user, from several browsers, meet in the same entries.
* The cache stores references: an `IdentityModel` taken out of it by two
  requests is one object that both change.
* Look-up and removal, and the writes of two keys that belong together, are
  separate steps. Entries expire (2 and 10 minutes), are dropped when the cache
  is full and vanish when the application pool is recycled.
* A user has more than one name: as typed, and as the IdP reports it.
* The renewal of a password changes the directory first, then the token, the
  cookies and the cache; each of these may fail.
* The home, login and change pages redirect to each other on conditions over
  two cookies, a claim and two cache keys.
* One instance of the authorization filter serves all requests of a page and
  keeps the outcome of one in a field; the signing keys are a static field that
  every first request fills.
* A change of a password, a lock or a device is several calls to the domain
  controller, each of which can fail after the one before has worked.
* The showcase is published before its logos are there; the folder of logos
  outlives the process that fills it.
* In the browser three scripts keep one form consistent through handlers of
  focus, blur, keys, clicks and submit, and an observer of a class attribute.

### What makes each component correct

* Sign-in: no session without both factors of the *same* user, however
  requests of several users interleave; whatever leads to a password form
  leads to the right user's; a sign-in stays one person's from its first form
  to its session; the two cookies agree; requests are answered. The first
  three need browsers that return the hidden fields of the password form as
  they received them (`FormsUnchanged`, see *Assumptions* in 3).
* Renewal: passwords and cookies are never mixed up between accounts; keys
  that outlived their password do not last; redirects end.
* Authorization filter: its outcome is that of the request it filters, and
  sessions end for a reason.
* Recovery: a password is set, or a lock lifted, only for the account recovered
  in that browser, or in place of the current password; new passwords meet the
  requirements.
* Exchange devices: device state and the user's lists agree.
* Showcase: settings and logo files converge; no published logo is deleted.
* Policy: each requirement asks what it says, and the portal starts only with
  requirements that a password can meet (it does not check all of this).
* Forms: what the boxes show is what the validator found, and that is right; a
  locked form is not posted twice.

## 2. The modules

| module | what it is |
|---|---|
| `TwoFactorSession` | what the sign-in promises, without its machinery |
| `SignIn` | controller, stories, cache, cookies, with IdP, directory and users as environment |
| `SignInProofs` | theorems about `SignIn` |
| `MCSignIn` | its instances for TLC |
| `PasswordRenewal` | what the renewal of expired passwords promises, without its pages, cookies and keys |
| `ExpiredPassword` | the renewal of expired passwords, filter and redirects |
| `ExpiredPasswordProofs` | theorems about `ExpiredPassword` |
| `MCExpiredPassword` | its instances for TLC |
| `PasswordPolicy`, `PasswordPolicyProofs` | the requirements on new passwords, as operators |
| `PasswordOwnership` | what the password pages promise, without their machinery |
| `PasswordRecovery`, `PasswordRecoveryProofs`, `MCPasswordRecovery` | recovery, unlocking and password change over one directory |
| `ExchangeDevices`, `ExchangeDevicesProofs`, `MCExchangeDevices` | access of Exchange devices |
| `AuthorizationFilter`, `AuthorizationFilterProofs`, `MCAuthorizationFilter` | the filter, its field and the signing keys |
| `Showcase`, `ShowcaseProofs`, `MCShowcase` | the loop of the showcase updater |
| `FormPage`, `FormPageProofs`, `MCFormPage` | one page with a form in the browser |

### SignIn

Every browser runs one request at a time. `pc[b]` is the page it shows or, for
a request being handled, the point the handler has reached; there is one such
point before every access to the cache and at every `await` whose answer
matters. `name`, `tok` and `ref` are the handler's locals (or a page's hidden
fields). `cookie` and `formsUser` are the "multifactor" cookie and the
forms-authentication cookie. `owner`, `raw` and `live` are the IdP's tokens:
their subject, the name kept with them as RawUserName, and whether the IdP
still accepts them; a token also stands for its id, the request id. `flag`,
`pending`, `entry` and `renewal` are the cache, `heap` the `IdentityModel`
objects that `pending`, `entry` and `ref` point to.

* GET Login/Identity: `OpenLogin`, `OpenLoginWindows`, `OpenIdentity`, `Continue`.
* `IdentityStory`: `IdentityPost`, then `IdentityReplyMfa`,
  `IdentityReplyShowAuthn` or `IdentityReplyOther`.
* `SignInStory`: `LoginPost`, then `LoginReplyMfa`, `LoginReplyChangePassword`
  or `LoginReplyOther`.
* `PostbackFromMfa`: `PostbackAuthenticate`, or `PostbackReadFlag` and
  `DropFlag`, or `LoginCompleted`, `DropPending` and `Bind` (one action per
  access to the cache).
* `AuthnStory`: `AuthnPost` (which takes any name and any token from the post,
  each for itself, or with `FormsUnchanged` those the form had), `AuthnVerified`, `AuthnRefused`, `AuthnThrows`,
  `AuthnSession`.
* `AuthenticateSessionStory`: `SessionGranted`, `SessionGrantedQuiet` (its
  answer ignored by `AuthnStory`), `SessionNotSet`.
* Home and logout: `HomeSignOut`, `HomeUnauthorized`, `HomeRenew`, `Logout`.
* Environment: `PassMfa`, `RevokeToken`, expiry of each kind of entry,
  `Restart`, which also loses the requests in progress.

Abstracted: passwords (a check succeeds or not), the texts, the SSO session
ids. The latter are read from `HttpContext.Items["SsoClaims"]`, which nothing
ever sets. Where the IdP's own answer asks for a bypass, `ByPassSsoSession`
shows a page that posts itself to the application: the browser leaves the
portal (`start`). `ByPassOidcSession` and `ByPassSamlSession` call an
`IMultifactorIdpApi` that the constructor of `AccountController` never assigns
and end on the "access denied" page (`refused`).

`IInv` is the inductive invariant: `TokensInv` (tokens in use were issued),
`ModelsInv` (what models name and carry, by where they are kept), `RefsInv`
(which requests may hold a model and who else may) and `LocalsInv` (what a
handler's locals say at each point).

### TwoFactorSession and the refinement

`SignIn!TF` maps the abstract state: `session` is `cookie`, `owner` is
`owner`, and `verified` is `Vouched`, the accounts whose password the portal
*at this moment* vouches for: in the cache's flags, in the locals of requests
that have just verified a password or taken over a flag and, password first,
where a sign-in that began with a password (or with IIS) is at the IdP's page
or on its way back with its token. That an account once had a token, or a
session, is not enough. Every step of `SignIn` is a step of `TwoFactorSession` or
changes none of the three. Because `Grant` requires `owner[t] \in verified`,
this says that no session is ever set without both factors of one user;
`OnePerson` adds that the session is that of the very sign-in that sets it.
`verified` may grow freely in the abstraction; `PasswordsVouch` says that it
only grows when a password (or Windows authentication) has been accepted in
that very step, for that user.

### ExpiredPassword

Reduces the sign-in to the steps that touch the keys and the cookies and adds
what follows: the filter and the home page (`ToHome...`), the change page
(`ShowForm`, `PostChange`, `ChangePassword`, `Refresh...`, `DropUserKey`,
`DropCipherKey`), the exception for missing keys (`ChangeSessionExpired`) and
the login page's redirects (`ToLogin`). A password is an account with the
number of changes the account has seen, so that a stale password, and one of
another account, can be told from the right one. `session` is the token in
the cookie: its user, its changePassword claim and whether it is still valid.
`OpenDone` is the last page opened by itself, which signs the user out;
`PasswordSetElsewhere` is any change of the password that is not a renewal
(`PasswordRecovery`, Windows, an administrator).

### PasswordRenewal and the refinement

`PasswordRenewal` says what a renewal may do: somebody proves the expired
password of an account (`Prove`), the portal keeps it (`Keep`), the sign-in at
that browser ends as that account (`SignIn`), a request there takes up a
password that is kept for the account signed in (`TakeUp`), and the directory
replaces it, if it still is the current one (`Renew`). Everything else only
forgets (`Lose`, `Leave`) or is done by the directory (`Expire`,
`SetElsewhere`). `ExpiredPassword!Renewal` maps `proved` to the password a
request holds until its sign-in ends, `kept` to the cipher keys, `user` to the
account of the forms cookie and `taken` to the password of a request that is at
the directory. The names under which keys are written and read, the token and
the user key do not appear in it: whatever the code does with them, it must not
change whose password is renewed. A password does not say for which name it was
cached; the refinement holds because `PasswordsOfTheirAccounts` does.

`Distance` is how far a request or a redirect is from a page. GET Login is
farther than the home page when it would redirect there (second factor first,
with a token the IdP accepts). `RedirectsDescend` says that every step of a
browser that is on its way comes nearer to a page, except the answer to an
expired session in that very case: the one redirect that can close a circle.

### PasswordRecovery, PasswordPolicy and PasswordOwnership

`password` and `locked` are the directory, `asked` and `tokens` the IdP's side
of a recovery, `cookie` the recovery cookie of each browser and `forms` the
Reset pages its tabs show. `People[b]` are the accounts whose holders use
browser `b`; two may share one. A request that has passed the checks of its
controller (`ConfirmReset`, `Change`, `Complete`) is in `work` with what it is
about to do; `ResetPassword`, `ChangeValidPassword` and `UnlockUser` are the
operation at the domain controller, `Save` the call after it, `Refuse` any
failure before it. A failed `Save` changes nothing of this: the user is told of
a failure and the password has changed. `Done` is not an action of its own: it
takes the cookie out of a response that does not carry it, so the browser keeps
it. `ConfirmReset` without a cookie never reaches its check for one:
`Unprotect(null)` throws first, and the user sees the error page.

`PasswordOwnership` promises that passwords are set and locks lifted only for
what somebody proved in that browser, or in place of the current password; a
permission is used once. The mapping takes `recovered` from `tokens`, `open`
from `cookie` and `granted` from the requests that have not acted.

`PasswordPolicy` sees of a password how many characters of each kind it has,
and of a section which conditions are enabled and what their lengths say. The
validator at start-up compares the two lengths and not the kinds of characters
they have to hold: `HasRoom` is what it leaves out, and a portal whose section
lacks it starts, and refuses every password.

### ExchangeDevices

`access` is the state of each device, `allowed` and `blocked` are the user's
lists, `page[t]` what tab `t` shows (and so which links it has), `work[t]` the
change it asked for. `UpdateAccess` and `UpdateLists` are the two modify
requests, `Fail` an exception before either, `Restart` a recycle between them.
`torn` and `alone` are history: they record whether a change was cut short or
overlapped another of the same device.

### AuthorizationFilter

`authorizeCore[f]` is the field of filter instance `f`; a request writes it
(`WriteOutcome`), returns it (`RereadOutcome`) and reads it again (`Gate`), and
any other request may run in between. `VerifyToken`, `FetchJwks`, `FetchFails`,
`StoreKeys` and `Validate` are the verification: every request that finds no
keys fetches them, the last answer stays. `Foreign` are cookies that are no
token of this portal, malformed or for another audience. `crossed` (history) marks a request
between whose steps one with the opposite outcome wrote the field. The
constructor's comment (IsAuthorizedAttribute.cs:25) says which checks a page
makes; it is true of the requests that are not crossed, and the properties are
stated for those: for a crossed one they are false, by the other's outcome.
`steady` and `ever` (history) are the keys published all the time, or at some
time, since the process started.

### Showcase

`cloud` is the API's showcase, `current` the published settings, `files` the
folder, the rest the locals of the round. The settings matter by the names of
their logos only; `Blank` is the name of a link without one. `Abandon` is the
`catch` of `Loop`; `SkipLogo` is the inner `catch` and the missing data. A
logo is a file under a name: one whose writing was broken off stays
(`broken`), because rounds compare names. They compare them letter by letter,
while Windows ignores case: `FileOf` is the file a name stands for, writing a
logo overwrites the file that is there under whatever name (`Stored`), and the
properties are stated for showcases whose names are files (`NamesAreFiles`).

### FormPage

A page with its fields as the portal's views configure them: all required, on
some pages the second of two new passwords compared to the first, on some a
captcha and a script that disables the button. An action is an event of the
user with all its handlers, in the order in which they are bound, and the
mutation observers, which run before the next event. `check`, `element` and
`Left` are the validator's functions, `mark` and `message` what it leaves on a
field (unobtrusive places the messages), `submitted`, `invalid` and
`lastActive` what it remembers, `bound` whether `equalTo` has bound its
handler, `filled`, `lit` and `red` the classes `site.js` gives the boxes.

Values change only in the focused field: a password manager that fills fields
later is left out (it fires `input` and `change`, which the validator does not
listen to). The order of the fields, which decides where the focus goes after a
failed submit, is left to choice. Two things a reader may expect do not hold
and are not stated: a field found right and then emptied and left without a key
keeps its mark until the form is submitted (`onfocusout` skips empty fields), and the pages for
a new password do not lock their button, so that a double click posts twice.

### Variants

Definitions whose comment begins with "Variant" are not part of the
specifications. Each is the definition below it with a plausible mistake in
it; replacing the definition by its variant makes the property it was written
for fail, which shows that the property depends on the code it is about.

## 3. What is checked

| run | instance | distinct states | checks |
|---|---|---|---|
| `signin` | second factor first; 2 users, 2 browsers, 2 tokens, 1 model; forms unchanged | 3,022,074 | `IInv`, `EntryNamesOwner`, `FormNamesOwner`, `PendingIsUnused`, `TwoFactor`, `PasswordsVouch`, `OnePerson` |
| `signin_names` | second factor first, password management; 1 user with 2 names, 1 browser, 1 token, 2 models; forms with any name and token; fair | 766,652 | `IInv`, `CookiesAgree`, `RequestsAnswered` |
| `password_first` | password first, Windows authentication, password management; 2 users, 2 browsers, 2 tokens (one with the changePassword claim) | 105,428 | `CookiesAgree`, `TwoFactor`, `PasswordsVouch`, `OnePerson` |
| `signin_show_authn` | 1 user, 1 browser | | violates `PasswordFormWorks` |
| `expired_password` | 2 users, 2 browsers, 1 change per account, second factor first | 310,361 | `IInv`, `CookiesOfOneAccount`, `PasswordsOfTheirAccounts`, `OwnersRenew`, `RedirectsDescend` |
| `expired_password_live` | 1 user, 2 browsers, 2 changes, password first, fair | 143,229 | `OwnersRenew`, `StaleKeysEnd`, `RedirectsEnd` |
| `expired_password_loop` | 1 user, 1 browser, second factor first, fair | | violates `RedirectsEnd` |
| `recovery` | 2 accounts, 2 browsers (one shared), 2 passwords (one too weak), 2 requests, 2 recoveries, 2 submissions | 291,948 | `IInv`, `RecoveriesOfTheirOwners`, `SectionsCanBeMet`, `OwnersDecide`, `NewPasswordsMeetRequirements` |
| `devices` | 2 devices, 3 tabs | 593,902 | `IInv`, `RecordsAgree` |
| `filter` | 2 requests, 2 pages (validating the session or not), 2 tokens (one foreign, with the claim) under 2 keys | 4,092,232 | `IInv`, `DecidedByOwnCookies`, `SessionsEndForAReason` |
| `showcase` | 3 logos and the blank name, 2 changes, 2 faults, fair | 217,141 | `IInv`, `SoundRoundsAgree`, `PublishedLogosKept`, `Converges` |
| `form_page` | 4 pages, 4 values, 3 captchas, 3 posts | 122,812 | `IInv`, `BoxesTellTheTruth`, `JudgedAtRest`, `PostsAreNew` |

Bounds. Interference needs two parties: two browsers, two users or two names
of one, two tokens (attempts). Two models are needed for one attempt to
replace another's, and are in the run with two names; the run with two users
has one, so that every model that is passed on is one that was used before.
`signin_names` has one browser and one token because liveness is checked
without symmetry; with two tokens and its other two properties it has
15,993,314 states and passes, which is too long for a run. More would repeat
these situations, and the theorems cover all numbers. In `filter` the token
under the second key is the foreign one: it is well signed and has the claim,
and must count for nothing.
`MaxVersion` bounds the changes of a password: one change makes a key stale,
two let a request that took up a stale password still reach a directory that
could change it, which is why `OwnersRenew` is checked in both runs. Two names
of one user are in `MCExpiredPasswordAlias.cfg` and in the proofs only: keys
written under one and read under the other are simply not found. Tokens are issued once and never reused, so a run
ends, in the sense of new sign-ins, when they are used up; pages can always be
left, and no configuration disables the deadlock check.

In `recovery` two recoveries fit into one browser, which is what lets one
overwrite the cookie of another, and two requests run at the directory at once.
`SectionsCanBeMet` holds sections with every combination of conditions and
lengths (any int, or no number) against all passwords of
the five kinds of characters up to `MaxInt`, which stands for the largest int
and is 4 here: the number of kinds that can be asked for, so that every kind
can be required both with and without room for it. In `devices` a third tab changes what two others are racing for. In
`showcase` two faults reach a fault in a round that repairs another, and two
changes a change during a round. In `form_page` a third captcha and post repeat
what the second did; the values are nothing, a blank, and two that differ.

Symmetry. Browsers, tokens, models, requests, devices and tabs are
interchangeable where a configuration says so, and users where each has one
name; runs with liveness use none.

Fairness. `SignIn!FairSpec` assumes that each request being handled goes on:
ASP.NET runs a handler whose await has completed, every client has a timeout
and every call of the IdP client turns an exception into a failed answer. It
assumes nothing of users, of restarts or of expiry, with one exception that
stands for memory, which the portal has enough of: when every model of the
instance is in use, some cache entry expires (`Reclaim`). `RequestsAnswered`
is checked second factor first, where a postback goes through the flag, the
look-up, the removal and the binding of the model, and a password through its
verification to the session; password first every answer is one step from a
page.
`ExpiredPassword!FairSpec` adds that browsers follow redirects and that cache
entries expire (an absolute expiration of two minutes).
`Showcase!FairSpec` assumes that the loop goes on (`Task.Delay` ends, the
clients have timeouts) and, with `MaxFaults`, that failures are finite:
convergence is what follows when they stop.

Assumptions about the surroundings.

* `FormsUnchanged`: POST Authn binds `UserName` and `AccessToken` from two
  hidden fields and `AuthnStory` verifies the password of the one and opens the
  session of the other, without comparing them (`AccountController.cs:206`,
  `AuthnStory.cs:58,66`). That the two belong together is therefore a property
  of the portal *with* browsers that return the fields as they received them.
  `FormNamesOwner`, `TwoFactor` and `OnePerson` are checked and proved under
  this assumption; they do not hold without it in the second-factor-first mode.
  `IInv`, `EntryNamesOwner`, `PendingIsUnused`, `CookiesAgree` and
  `PasswordsVouch` are proved without it, and `signin_names` runs without it.
* `MustChange`: which tokens carry the changePassword claim is the IdP's choice.
* The IdP answers a login with "change the password" only to portals that told
  it (`SspSettingsDto`) that they manage passwords, a condition that
  `SignInStory` does not check itself (`LoginReplyChangePassword`).
* `NamesAreFiles`: no two logos of the showcase have names that differ in
  letter case only.

### What the violations show

* `PasswordFormWorks`: when the IdP waives the second factor
  (`IdentityAction.ShowAuthn`), `AuthnStory` runs on a model without a token;
  with the right password `AuthenticateSessionStory` throws.
* `RedirectsEnd`, second factor first: a token with the changePassword claim
  outlives the keys (two minutes, or a restart): the change page says that the
  session expired and redirects to Login, Login to Identity, Identity to the
  home page, the filter to the change page. Password first, Login shows its
  form and the chain ends (`expired_password_live`).

Three more statements that the code does not meet are left to the reader to
run; no document states them as such, and what they cost is said here.

* `SignIn!EntryBindsToken`, with `MCSignInAliasing.cfg`:
  `RedirectToCredValidationAfter2FaStory` writes into the model it found by
  user name. Two postbacks of one user that both find it before it is removed
  share it; the request id of one then continues with the token of the other.
  It is still a token of the same user (`EntryNamesOwner`), so `TwoFactor`
  holds.
* `ExpiredPassword!ExpiredMeansExpired`, with `MCExpiredPasswordAlias.cfg`:
  keys are cached under the name as typed and looked up under the identity the
  IdP reported, so the session "expires" at once where the two differ.
* `Showcase!PublishedLogosKept` where two names share a file, with
  `MCShowcaseLetterCase.cfg`: `Except` tells `mail.png` and `Mail.png` apart
  (`ShowcaseSettingsUpdaterService.cs:85,104`). When a link's logo is renamed
  in this way, the new logo is written into the old name's file, which the same
  round deletes as extra; the next round loads it again.

## 4. What is proved

`tlapm` checks the proofs of the eight `...Proofs` modules, for every value of
the constants that satisfies the modules' assumptions (for example: `Account`
maps names to names and is idempotent; the "no ..." values are not values; the
portal started with its section of requirements; the largest int is at least
4). The sets may be infinite. Every safety property that a passing run checks,
invariant, action property or refinement, is also the subject of a theorem.
Assumptions about the surroundings (3) are hypotheses of the theorems that need
them, and of no other.

* `SignInProofs!Invariance`: `Spec => []IInv`. The properties are not
  inductive by themselves: `EntryNamesOwner` depends on what the request about
  to bind a model holds (`LocalsInv`), on the model not being changed by
  someone else later into another user's (`RefsInv`: a pending model that was
  taken out waits nowhere else) and on tokens having been issued
  (`TokensInv`). `TypeStep`, `TokensStep`, `ModelsStep`, `RefsStep` and
  `LocalsStep` treat the parts one by one, with a step for each action.
  It holds whatever a browser posts; what `LocalsInv` says of the name and the
  token of a password form, and of what follows from it, is conditional on
  `FormsUnchanged`.
* From it `TypeCorrect`, `RequestIdsName`, `PendingModels` and `Cookies`
  (`CookiesAgree`, which needs `TokensInv` only) and, assuming
  `FormsUnchanged`, `FormsName`.
* `ImplementsTwoFactor`: `Spec => TwoFactor`, assuming `FormsUnchanged`. For
  `Grant` the account of the token must be vouched for at that moment: the
  request's own name is (`VouchedFor`), and `LocalsInv` says that it is the
  token's. `RefinementStep` maps the actions:
  those that can only lose a vouched-for account to `Forget` or a stutter
  (`ForgetsMaps`), those that accept a password to `VerifyPassword`,
  `PassMfa` to `PassSecondFactor`, those that set cookies to `Grant`.
* `OnlyPasswords`: `Spec => PasswordsVouch`.
* `SignInsAreOnePersons`: `Spec => OnePerson`, assuming `FormsUnchanged`. `Person` reads off each point of
  a sign-in whom it is for (the token, the model's user or the name in a form).
  `OwnStepKeeps` follows the user from one of these to the next; `OthersLeave`
  needs `RefsInv`: another request may write into a model this one holds, but
  only the user it has already; `SessionsOwn` says whose session is set.
* `ExpiredPasswordProofs!Invariance`, `Cookies` and `OwnPasswords`: the
  invariant needs `RequestLocals` (a request at work has a name, a page has no
  password) besides the two properties. `StepCases` sorts the actions into
  those that only answer, those that sign out, and the rest.
* `ImplementsRenewal`: `Spec => OwnersRenew`. `NextRenewal` maps the actions:
  `SubmitExpired` to `Prove`, `SetCipherKey` to `Keep`, a successful
  `FinishSignIn` to `SignIn`, `PostChange` to `TakeUp`, `ChangePassword` to
  `Renew`, what signs out to `Leave`, and answers, expiry and restarts to
  `Lose`; the other steps stutter. Its three hard places are `FinishSignIn`
  (the account signed in is that of the password proved), `PostChange` (a key
  found under the forms user's name is that account's) and `ChangePassword`
  (the name the request works for is still that of the cookie); they are the
  three parts of `PasswordsOfTheirAccounts`. A refresh signs in an account that
  is signed in already, hence a stutter.
* `RedirectsComeToPages`: `Spec => RedirectsDescend`, action by action
  (`ServeDescends`); another browser's step does not move this one
  (`EachItsOwn`). It is the part of `RedirectsEnd` that can be proved: with
  fairness, in both modes and for any number of users, only the circle that
  `expired_password_loop` shows can keep a browser from a page.
* `PasswordPolicyProofs!AcceptedSectionsCanBeMet`: an accepted section can be
  met if and only if it has room, for all lengths. One direction is the
  witness `Shortest`, the other counts the kinds of characters.
  `PasswordRecoveryProofs!RequirementsCanBeMet` states it of the specification.
* `PasswordRecoveryProofs!Invariance`, `OwnersRecover`, `RequirementsKept` and
  `ImplementsOwnership`: the invariant adds to the property what each request
  was checked for when it came in (`Checked`), since it acts later. In the
  refinement, controllers map to grants, the operations at the domain
  controller to `SetPassword` and `Unlock`, and failures and restarts to
  `Withdraw`.
* `ExchangeDevicesProofs!Invariance` and `DevicesAtRest`: agreement at rest
  needs to know what a change that has been alone since its start has done so
  far (`AloneIsKnown`).
* `AuthorizationFilterProofs!Invariance`, `AdmissionsAreOwn` and `EndingsAreOwn`:
  the invariant says what the field and the locals are worth at each step of a
  request that was not crossed (`StepInv`), and that key sets, stored or under
  way, lie between the keys published always and ever (`KeysBracketed`).
* `ShowcaseProofs!Invariance`, `RoundsAgree` and `LogosKept`, assuming
  `NamesAreFiles`: `RoundInv` says
  what the folder holds up to what the round still has to load and delete, and
  that deletions are against what is published now.
* `FormPageProofs!Invariance`, `VerdictsAtRest`, `BoxesTrue` and `NoPostTwice`:
  the verdicts need that a comparison that was ever made has bound its handler
  (`ComparedMeansBound`), the posts that an enabled button stands for a captcha
  newer than every post (`EnabledMeansNew`).

Only model-checked. Liveness under fairness (`RequestsAnswered`,
`StaleKeysEnd`, `RedirectsEnd`, `Converges`): the prover does not handle
ENABLED, on which weak fairness rests.

## 5. What is not modelled

* Two requests of one browser at the same time during a sign-in (tabs share
  cookies). Requests of two browsers of one user share the cache in the same
  way; cookies changing under a request in progress are left out. Recovery and
  the device page do have several tabs.
* `SignIn` and `ExpiredPassword` as one module over one cache: their product is
  beyond TLC. `ExpiredPassword` keeps the steps of a sign-in that touch the keys.
* A browser that posts a token to PostbackFromMfa once more when its sign-in
  has ended, password first: the IdP accepts the token and sets the session
  again, and the portal, which keeps nothing in that mode, no longer knows of a
  password. The cache's share of this, a repeated postback while the sign-in is
  under way, is modelled (`RepeatPostback`).
* The IdP and the directory beyond their answers; group membership decides
  inside "refused".
* The size of cache entries: an entry may vanish at any time, which is what
  the limit does.
* Overlapping processes during an IIS recycle, and the home page's two reads
  of the showcase (`HomeController.cs:50-51`).
* Parsing and formatting: names of the directory (`LdapIdentity`), profiles,
  forest suffixes, claims. Which account a name stands for is a constant.
* Support info (a value to show, cached), the captcha's verification (one
  stateless call whose refusal shows the form again), logging, configuration,
  the markup of the views.
* The stories that no controller calls (`Stories/UnlockUser`,
  `RecoverPassword`, `ChangeExpiredPassword`, `ChangeValidPassword`,
  `CheckExpiredPasswordSession`, `SearchExchangeActiveSyncDevices`).
* In the browser: tooltips, positions, the validator's rules and groups that no
  form of the portal uses, and jQuery itself, a third-party library that is in
  the tree in several builds and makes up most of its lines of script. What of
  the scripts is the portal's own, or configured by it, is `FormPage`.

## 6. What could come next

1. The sizes of the cache's entries, to decide which are dropped.
2. Two overlapping processes over the folder of logos.
3. Reference definitions for `LdapIdentity` and the conditions of claims.
