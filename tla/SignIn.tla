------------------------------- MODULE SignIn -------------------------------
(***************************************************************************)
(* The sign-in of the portal: AccountController and the stories it calls   *)
(* (SignInStory, IdentityStory, RedirectToCredValidationAfter2FaStory,     *)
(* AuthnStory, AuthenticateSessionStory, SignOutStory) over the shared     *)
(* in-memory ApplicationCache, with the IdP, Active Directory and the      *)
(* users as environment.                                                   *)
(*                                                                         *)
(* PreAuthnMode = FALSE: password first, then the second factor.           *)
(* PreAuthnMode = TRUE : second factor first, then the password; what is   *)
(* known of the user in between lives in the cache, keyed by the user name *)
(* (pending, flag) and then by the token's id (entry).                     *)
(*                                                                         *)
(* Definitions whose comment begins with "Variant" are not part of the     *)
(* specification: each is the definition below it with a plausible mistake *)
(* in it, to confirm that the properties at the end of the module fail for *)
(* a mistaken portal.                                                      *)
(*                                                                         *)
(* Every browser runs one request at a time.  pc[b] is the page it shows,  *)
(* or, for a request the server is working on, the point its handler has   *)
(* reached: handlers of different browsers interleave at every await and   *)
(* at every access to the cache.  IdentityModel objects live in a heap,    *)
(* because the cache stores references to them, not copies.                *)
(*                                                                         *)
(* FormsUnchanged is an assumption about browsers.  The password form      *)
(* carries user name and token in two hidden fields, and POST Authn takes  *)
(* both from the post without comparing them: that the password checked is *)
(* that of the token's user is a property of the portal together with      *)
(* browsers that return the fields as they got them.  FormNamesOwner,      *)
(* TwoFactor and OnePerson are stated under this assumption; whatever else *)
(* is said below holds without it.                                         *)
(***************************************************************************)
EXTENDS FiniteSets

CONSTANTS
    Names,                \* user names, as typed or as the IdP reports them
    NoName,
    Account,              \* the IdP identity (itself a name) behind a name
    Browsers,
    Tokens, NoToken,      \* access tokens; a token stands for its id (jti) too
    Models, NoModel,      \* IdentityModel objects
    PreAuthnMode,         \* Configuration.PreAuthnMode
    PasswordManagement,   \* Configuration.EnablePasswordManagement
    WindowsAuthentication, \* IIS authenticates the user (Negotiate)
    MustChange,           \* tokens the IdP issues with the changePassword claim
    FormsUnchanged        \* browsers post hidden fields as they received them

ASSUME SignInAssumption ==
    /\ Account \in [Names -> Names]
    /\ \A n \in Names : Account[Account[n]] = Account[n]
    /\ NoName \notin Names
    /\ NoToken \notin Tokens
    /\ NoModel \notin Models
    /\ PreAuthnMode \in BOOLEAN
    /\ PasswordManagement \in BOOLEAN
    /\ WindowsAuthentication \in BOOLEAN
    /\ MustChange \subseteq Tokens
    /\ FormsUnchanged \in BOOLEAN

Accounts == {Account[n] : n \in Names}

VARIABLES
    pc,        \* page of a browser, or progress of its request
    name,      \* user name in the page or request
    tok,       \* access token in the page or request
    ref,       \* the IdentityModel the request holds
    cookie,    \* the "multifactor" cookie: the session's token
    formsUser, \* the user of the forms-authentication cookie
    owner,     \* subject of an issued token, NoName if not issued
    raw,       \* RawUserName the IdP keeps with the token, or NoName
    live,      \* tokens the IdP accepts
    flag,      \* cache: names with PREAUTHENTICATION_AUTHN_SUCCEED
    pending,   \* cache: name -> model, PREAUTHENTICATION_IDENTITY
    entry,     \* cache: request id (a token's id) -> model
    renewal,   \* cache: names with the expired-password user and cipher keys
    heap       \* the IdentityModel objects

browserVars == <<pc, name, tok, ref>>
sessionVars == <<cookie, formsUser>>
idpVars     == <<owner, raw, live>>
cacheVars   == <<flag, pending, entry, renewal>>
vars == <<pc, name, tok, ref, cookie, formsUser, owner, raw, live,
          flag, pending, entry, renewal, heap>>

(* refused: the "access denied" page or the error page. *)
Pages == {"start", "identityForm", "loginForm", "authnForm", "mfa", "postback",
          "continue", "home", "renew", "refused"}

InFlight == {"identityReply", "loginReply", "dropFlag", "completed",
             "dropPending", "bind", "authn", "verified", "mustChange",
             "session", "sessionQuiet"}

ModelRecord == [user : Names \union {NoName}, pwd : BOOLEAN,
                token : Tokens \union {NoToken}]

EmptyModel == [user |-> NoName, pwd |-> FALSE, token |-> NoToken]

TypeOK ==
    /\ pc \in [Browsers -> Pages \union InFlight]
    /\ name \in [Browsers -> Names \union {NoName}]
    /\ tok \in [Browsers -> Tokens \union {NoToken}]
    /\ ref \in [Browsers -> Models \union {NoModel}]
    /\ cookie \in [Browsers -> Tokens \union {NoToken}]
    /\ formsUser \in [Browsers -> Names \union {NoName}]
    /\ owner \in [Tokens -> Accounts \union {NoName}]
    /\ raw \in [Tokens -> Names \union {NoName}]
    /\ live \in SUBSET Tokens
    /\ flag \in SUBSET Names
    /\ pending \in [Names -> Models \union {NoModel}]
    /\ entry \in [Tokens -> Models \union {NoModel}]
    /\ renewal \in SUBSET Names
    /\ heap \in [Models -> ModelRecord]

Init ==
    /\ pc = [b \in Browsers |-> "start"]
    /\ name = [b \in Browsers |-> NoName]
    /\ tok = [b \in Browsers |-> NoToken]
    /\ ref = [b \in Browsers |-> NoModel]
    /\ cookie = [b \in Browsers |-> NoToken]
    /\ formsUser = [b \in Browsers |-> NoName]
    /\ owner = [t \in Tokens |-> NoName]
    /\ raw = [t \in Tokens |-> NoName]
    /\ live = {}
    /\ flag = {}
    /\ pending = [n \in Names |-> NoModel]
    /\ entry = [t \in Tokens |-> NoModel]
    /\ renewal = {}
    /\ heap = [m \in Models |-> EmptyModel]

-----------------------------------------------------------------------------
(* Helpers *)

Issued(t) == owner[t] # NoName

(* The user name of a token: the one typed, if the IdP kept it. *)
NameOf(t) == IF raw[t] # NoName THEN raw[t] ELSE owner[t]

(* An object the program no longer refers to: the next allocation may use it. *)
Unreferenced(m) ==
    /\ \A n \in Names : pending[n] # m
    /\ \A t \in Tokens : entry[t] # m
    /\ \A b \in Browsers : ref[b] # m

(* The model AuthnStory works on: the shared object, or the posted form's own. *)
UserOf(b)  == IF ref[b] = NoModel THEN name[b] ELSE heap[ref[b]].user
TokenOf(b) == IF ref[b] = NoModel THEN tok[b] ELSE heap[ref[b]].token

(* The browser's cookie is a session the IdP recognises (LoadProfileStory). *)
SignedIn(b) == cookie[b] \in live

(* The request of b ends (or pauses) at p; its other fields as given. *)
Goto(b, p) == pc' = [pc EXCEPT ![b] = p]

Answer(b, p, n, t) ==
    /\ Goto(b, p)
    /\ name' = [name EXCEPT ![b] = n]
    /\ tok' = [tok EXCEPT ![b] = t]
    /\ ref' = [ref EXCEPT ![b] = NoModel]

AnswerBlank(b, p) == Answer(b, p, NoName, NoToken)
-----------------------------------------------------------------------------
(* Opening the portal *)

(* GET Login / GET Identity without a request id.  In the second-factor-   *)
(* first mode Login redirects to Identity, which shows the home page to a  *)
(* browser the IdP recognises and the user name form to any other; a       *)
(* failure to reach the IdP is an error page.                              *)
OpenIdentity(b) ==
    /\ PreAuthnMode
    /\ pc[b] = "start"
    /\ \/ SignedIn(b) /\ AnswerBlank(b, "home")
       \/ ~SignedIn(b) /\ AnswerBlank(b, "identityForm")
       \/ AnswerBlank(b, "refused")
    /\ UNCHANGED <<sessionVars, idpVars, cacheVars, heap>>

(* GET Login in the password-first mode: the login form. *)
OpenLogin(b) ==
    /\ ~PreAuthnMode
    /\ pc[b] = "start"
    /\ AnswerBlank(b, "loginForm")
    /\ UNCHANGED <<sessionVars, idpVars, cacheVars, heap>>

(* GET Login when IIS has authenticated the user: straight to the second   *)
(* factor (RedirectToMfa), or to the error page when the API refuses the   *)
(* access request.                                                         *)
OpenLoginWindows(b) ==
    /\ ~PreAuthnMode /\ WindowsAuthentication
    /\ pc[b] = "start"
    /\ \/ \E n \in Names : Answer(b, "mfa", n, NoToken)
       \/ AnswerBlank(b, "refused")
    /\ UNCHANGED <<sessionVars, idpVars, cacheVars, heap>>

(* The user leaves the page (types the portal's address again). *)
Leave(b) ==
    /\ pc[b] \in Pages \ {"start"}
    /\ AnswerBlank(b, "start")
    /\ UNCHANGED <<sessionVars, idpVars, cacheVars, heap>>

-----------------------------------------------------------------------------
(* Second factor first: IdentityStory *)

(* Variant: the form is bound to a model that may be in use. *)
IdentityPostReuses(b) ==
    /\ pc[b] = "identityForm"
    /\ \E n \in Names, p \in BOOLEAN, m \in Models :
          /\ heap' = [heap EXCEPT ![m] =
                         [user |-> n, pwd |-> p, token |-> NoToken]]
          /\ Goto(b, "identityReply")
          /\ name' = [name EXCEPT ![b] = n]
          /\ ref' = [ref EXCEPT ![b] = m]
          /\ tok' = [tok EXCEPT ![b] = NoToken]
    /\ UNCHANGED <<sessionVars, idpVars, cacheVars>>

(* POST Identity: the form, with or without a password, is bound to a new  *)
(* IdentityModel; the name may be refused (UPN format, membership), looking *)
(* it up may throw, a user without authenticators is shown the login form, *)
(* and for any other the IdP is asked.                                     *)
IdentityPost(b) ==
    /\ pc[b] = "identityForm"
    /\ \/ /\ \E p \in {"identityForm", "refused", "loginForm"} : AnswerBlank(b, p)
          /\ UNCHANGED heap
       \/ \E n \in Names, p \in BOOLEAN, m \in Models :
             /\ Unreferenced(m)
             /\ heap' = [heap EXCEPT ![m] =
                            [user |-> n, pwd |-> p, token |-> NoToken]]
             /\ Goto(b, "identityReply")
             /\ name' = [name EXCEPT ![b] = n]
             /\ ref' = [ref EXCEPT ![b] = m]
             /\ tok' = [tok EXCEPT ![b] = NoToken]
    /\ UNCHANGED <<sessionVars, idpVars, cacheVars>>

(* The IdP requires the second factor: the model is cached under the user  *)
(* name and the browser is sent to the IdP.                                *)
IdentityReplyMfa(b) ==
    /\ pc[b] = "identityReply"
    /\ pending' = [pending EXCEPT ![name[b]] = ref[b]]
    /\ Answer(b, "mfa", name[b], NoToken)
    /\ UNCHANGED <<sessionVars, idpVars, flag, entry, renewal, heap>>

(* The IdP waives the second factor: AuthnStory runs on the posted model,  *)
(* which fails with an error page when the model has no password.          *)
IdentityReplyShowAuthn(b) ==
    /\ pc[b] = "identityReply"
    /\ \/ /\ heap[ref[b]].pwd
          /\ Goto(b, "authn")
          /\ UNCHANGED <<name, tok, ref>>
       \/ /\ ~heap[ref[b]].pwd
          /\ AnswerBlank(b, "refused")
    /\ UNCHANGED <<sessionVars, idpVars, cacheVars, heap>>

(* Any other reply: access denied, refused, or sent elsewhere. *)
IdentityReplyOther(b) ==
    /\ pc[b] = "identityReply"
    /\ \E p \in {"refused", "identityForm", "start"} : AnswerBlank(b, p)
    /\ UNCHANGED <<sessionVars, idpVars, cacheVars, heap>>

-----------------------------------------------------------------------------
(* Password first: SignInStory *)

(* Variant: the second factor is asked for whatever Active Directory says. *)
LoginPostUnchecked(b) ==
    /\ pc[b] = "loginForm"
    /\ \E n \in Names : Answer(b, "mfa", n, NoToken)
    /\ UNCHANGED <<sessionVars, idpVars, cacheVars, heap>>

(* POST Login: Active Directory accepts the password (or says it expired)  *)
(* and the IdP is asked, or the form comes back with an error: Login       *)
(* catches every exception.                                                *)
LoginPost(b) ==
    /\ pc[b] = "loginForm"
    /\ \/ AnswerBlank(b, "loginForm")
       \/ \E n \in Names : Answer(b, "loginReply", n, NoToken)
    /\ UNCHANGED <<sessionVars, idpVars, cacheVars, heap>>

(* Variant: the story keeps the name in a field that requests share. *)
LoginReplyMfaShared(b) ==
    /\ pc[b] = "loginReply"
    /\ flag' = IF PreAuthnMode THEN flag \union {name[b]} ELSE flag
    /\ \E c \in Browsers : pc[c] = "loginReply" /\ Answer(b, "mfa", name[c], NoToken)
    /\ UNCHANGED <<sessionVars, idpVars, pending, entry, renewal, heap>>

(* The IdP requires the second factor: in the second-factor-first mode the *)
(* portal remembers that the password is verified already.                 *)
LoginReplyMfa(b) ==
    /\ pc[b] = "loginReply"
    /\ flag' = IF PreAuthnMode THEN flag \union {name[b]} ELSE flag
    /\ Answer(b, "mfa", name[b], NoToken)
    /\ UNCHANGED <<sessionVars, idpVars, pending, entry, renewal, heap>>

(* The password must be changed, an answer the IdP has for portals that    *)
(* told it (SspSettingsDto) that they manage passwords: name and encrypted *)
(* password are kept for ExpiredPasswordController; the browser goes to    *)
(* the IdP or directly on.                                                 *)
LoginReplyChangePassword(b) ==
    /\ PasswordManagement
    /\ pc[b] = "loginReply"
    /\ renewal' = renewal \union {name[b]}
    /\ \/ Answer(b, "mfa", name[b], NoToken)
       \/ AnswerBlank(b, "renew")
    /\ UNCHANGED <<sessionVars, idpVars, flag, pending, entry, heap>>

(* Any other reply: denied, refused, or sent elsewhere ("start"), which is *)
(* also where ByPassSsoSession leads: its page posts itself to the         *)
(* application of a SAML session.  ByPassOidcSession ends on the "access   *)
(* denied" page: it calls an IdP client that the constructor never set.    *)
LoginReplyOther(b) ==
    /\ pc[b] = "loginReply"
    /\ \E p \in {"refused", "loginForm", "start"} : AnswerBlank(b, p)
    /\ UNCHANGED <<sessionVars, idpVars, cacheVars, heap>>

-----------------------------------------------------------------------------
(* The IdP's page *)

(* The user passes the second factor; the IdP issues a token for the       *)
(* identity behind the name, may keep the name as RawUserName, and makes   *)
(* the browser post the token to PostbackFromMfa.                          *)
PassMfa(b) ==
    /\ pc[b] = "mfa"
    /\ \E t \in Tokens, r \in {name[b], NoName} :
          /\ ~Issued(t)
          /\ owner' = [owner EXCEPT ![t] = Account[name[b]]]
          /\ raw' = [raw EXCEPT ![t] = r]
          /\ live' = live \union {t}
          /\ Answer(b, "postback", NoName, t)
    /\ UNCHANGED <<sessionVars, cacheVars, heap>>

(* A token expires or is revoked at the IdP. *)
RevokeToken(t) ==
    /\ t \in live
    /\ live' = live \ {t}
    /\ UNCHANGED <<browserVars, sessionVars, owner, raw, cacheVars, heap>>

-----------------------------------------------------------------------------
(* PostbackFromMfa and RedirectToCredValidationAfter2FaStory *)

(* Password-first mode: the token goes straight to AuthenticateSession. *)
PostbackAuthenticate(b) ==
    /\ ~PreAuthnMode
    /\ pc[b] = "postback"
    /\ Goto(b, "session")
    /\ name' = [name EXCEPT ![b] = owner[tok[b]]]
    /\ UNCHANGED <<tok, ref, sessionVars, idpVars, cacheVars, heap>>

(* Variant: any cached flag will do, not only the user's own. *)
PostbackReadAnyFlag(b) ==
    /\ PreAuthnMode
    /\ pc[b] = "postback"
    /\ Goto(b, IF flag # {} THEN "dropFlag" ELSE "completed")
    /\ UNCHANGED <<name, tok, ref, sessionVars, idpVars, cacheVars, heap>>

(* Second-factor-first mode: is the password of the token's subject known  *)
(* to be verified?                                                         *)
PostbackReadFlag(b) ==
    /\ PreAuthnMode
    /\ pc[b] = "postback"
    /\ Goto(b, IF owner[tok[b]] \in flag THEN "dropFlag" ELSE "completed")
    /\ UNCHANGED <<name, tok, ref, sessionVars, idpVars, cacheVars, heap>>

(* It is: the flag is removed and the session authenticated. *)
DropFlag(b) ==
    /\ pc[b] = "dropFlag"
    /\ flag' = flag \ {owner[tok[b]]}
    /\ Goto(b, "session")
    /\ name' = [name EXCEPT ![b] = owner[tok[b]]]
    /\ UNCHANGED <<tok, ref, sessionVars, idpVars, pending, entry, renewal, heap>>

(* It is not: the IdP's login-completed names the user, and the model left *)
(* by IdentityStory under that name is looked up.  A failure is the access *)
(* denied page or, for an exception, the beginning.                        *)
LoginCompleted(b) ==
    /\ pc[b] = "completed"
    /\ \/ /\ tok[b] \in live
          /\ name' = [name EXCEPT ![b] = NameOf(tok[b])]
          /\ ref' = [ref EXCEPT ![b] = pending[NameOf(tok[b])]]
          /\ Goto(b, "dropPending")
          /\ UNCHANGED tok
       \/ \E p \in {"refused", "start"} : AnswerBlank(b, p)
    /\ UNCHANGED <<sessionVars, idpVars, cacheVars, heap>>

(* Variant: the model stays cached under the name. *)
DropPendingNot(b) ==
    /\ pc[b] = "dropPending"
    /\ Goto(b, "bind")
    /\ UNCHANGED <<name, tok, ref, sessionVars, idpVars, cacheVars, heap>>

(* Whatever is cached under the name by now is removed. *)
DropPending(b) ==
    /\ pc[b] = "dropPending"
    /\ pending' = [pending EXCEPT ![name[b]] = NoModel]
    /\ Goto(b, "bind")
    /\ UNCHANGED <<name, tok, ref, sessionVars, idpVars, flag, entry, renewal, heap>>

(* Variant: a model that was found keeps the token it has. *)
BindKeepsToken(b) ==
    /\ pc[b] = "bind"
    /\ \E m \in Models :
          /\ IF ref[b] = NoModel THEN Unreferenced(m) ELSE m = ref[b]
          /\ heap' = [heap EXCEPT ![m] = [user |-> name[b], pwd |-> @.pwd, token |-> IF ref[b] = NoModel THEN tok[b] ELSE @.token]]
          /\ entry' = [entry EXCEPT ![tok[b]] = m]
    /\ Answer(b, "continue", NoName, tok[b])
    /\ UNCHANGED <<sessionVars, idpVars, flag, pending, renewal>>

(* Variant: a new model does not get the user name. *)
BindKeepsUser(b) ==
    /\ pc[b] = "bind"
    /\ \E m \in Models :
          /\ IF ref[b] = NoModel THEN Unreferenced(m) ELSE m = ref[b]
          /\ heap' = [heap EXCEPT ![m] = [user |-> IF ref[b] = NoModel THEN NoName ELSE @.user, pwd |-> @.pwd, token |-> tok[b]]]
          /\ entry' = [entry EXCEPT ![tok[b]] = m]
    /\ Answer(b, "continue", NoName, tok[b])
    /\ UNCHANGED <<sessionVars, idpVars, flag, pending, renewal>>

(* The model, or a new one if none was found, gets the user name and the   *)
(* token and is cached under the token's id; redirect to Identity with it. *)
Bind(b) ==
    /\ pc[b] = "bind"
    /\ \E m \in Models :
          /\ IF ref[b] = NoModel THEN Unreferenced(m) ELSE m = ref[b]
          /\ heap' = [heap EXCEPT ![m] =
                         [user  |-> name[b],
                          pwd   |-> ref[b] # NoModel /\ heap[m].pwd,
                          token |-> tok[b]]]
          /\ entry' = [entry EXCEPT ![tok[b]] = m]
    /\ Answer(b, "continue", NoName, tok[b])
    /\ UNCHANGED <<sessionVars, idpVars, flag, pending, renewal>>

(* The browser posts the token again (back to the IdP's page). *)
RepeatPostback(b) ==
    /\ pc[b] = "continue"
    /\ Goto(b, "postback")
    /\ UNCHANGED <<name, tok, ref, sessionVars, idpVars, cacheVars, heap>>

(* Variant: the form greets the user of the forms-authentication cookie. *)
ContinueNamesFormsUser(b) ==
    /\ pc[b] = "continue"
    /\ ~SignedIn(b)
    /\ \E m \in Models :
          /\ entry[tok[b]] = m
          /\ Answer(b, "authnForm", IF formsUser[b] # NoName THEN formsUser[b] ELSE heap[m].user, heap[m].token)
    /\ UNCHANGED <<sessionVars, idpVars, cacheVars, heap>>

(* GET Identity with a request id: a recognised browser goes home; for any *)
(* other the cached model continues the sign-in, with the password the     *)
(* user has given already or with the password form.                       *)
Continue(b) ==
    /\ pc[b] = "continue"
    /\ \/ SignedIn(b) /\ AnswerBlank(b, "home")
       \/ ~SignedIn(b) /\ entry[tok[b]] = NoModel /\ AnswerBlank(b, "identityForm")
       \/ \E m \in Models :
             /\ ~SignedIn(b) /\ entry[tok[b]] = m
             /\ \/ /\ heap[m].pwd
                   /\ Goto(b, "authn")
                   /\ ref' = [ref EXCEPT ![b] = m]
                   /\ UNCHANGED <<name, tok>>
                \/ /\ ~heap[m].pwd
                   /\ Answer(b, "authnForm", heap[m].user, heap[m].token)
       \/ AnswerBlank(b, "refused")
    /\ UNCHANGED <<sessionVars, idpVars, cacheVars, heap>>

-----------------------------------------------------------------------------
(* AuthnStory *)

(* Variant: the session is set before the password is checked. *)
AuthnPostSignsIn(b) ==
    /\ PreAuthnMode
    /\ pc[b] = "authnForm"
    /\ tok[b] # NoToken
    /\ cookie' = [cookie EXCEPT ![b] = tok[b]]
    /\ formsUser' = [formsUser EXCEPT ![b] = owner[tok[b]]]
    /\ Goto(b, "authn")
    /\ UNCHANGED <<name, tok, ref, idpVars, cacheVars, heap>>

(* POST Authn: user name and token are taken from the hidden fields of the *)
(* post, each for itself; an invalid form comes back as it was posted.  A  *)
(* token the IdP never issued fails as a revoked one does.  Without a      *)
(* token an empty password passes validation and fails in the story.       *)
AuthnPost(b) ==
    /\ PreAuthnMode
    /\ pc[b] = "authnForm"
    /\ \E n \in Names, t \in Tokens \union {NoToken} :
          /\ FormsUnchanged => n = name[b] /\ t = tok[b]
          /\ t # NoToken => Issued(t)
          /\ \/ /\ Goto(b, "authn")
                /\ name' = [name EXCEPT ![b] = n]
                /\ tok' = [tok EXCEPT ![b] = t]
                /\ UNCHANGED ref
             \/ Answer(b, "authnForm", n, t)
             \/ t = NoToken /\ AnswerBlank(b, "refused")
    /\ UNCHANGED <<sessionVars, idpVars, cacheVars, heap>>

(* Active Directory refuses the password: the password form again.  When   *)
(* the IdP waived the second factor it may have named the user its way.    *)
AuthnRefused(b) ==
    /\ pc[b] = "authn"
    /\ \E n \in Names :
          /\ \/ n = UserOf(b)
             \/ /\ ref[b] # NoModel /\ TokenOf(b) = NoToken
                /\ Account[n] = Account[UserOf(b)]
          /\ Answer(b, "authnForm", n, TokenOf(b))
    /\ UNCHANGED <<sessionVars, idpVars, cacheVars, heap>>

(* Active Directory accepts it, or says that it must be changed; then the  *)
(* keys of the expired-password page are cached under the user name.  An   *)
(* exception is an error page.                                             *)
AuthnVerified(b) ==
    /\ pc[b] = "authn"
    /\ name' = [name EXCEPT ![b] = UserOf(b)]
    /\ \/ Goto(b, "verified") /\ UNCHANGED renewal
       \/ /\ PasswordManagement
          /\ Goto(b, "mustChange")
          /\ renewal' = renewal \union {UserOf(b)}
    /\ UNCHANGED <<tok, ref, sessionVars, idpVars, flag, pending, entry, heap>>

AuthnThrows(b) ==
    /\ pc[b] = "authn"
    /\ AnswerBlank(b, "refused")
    /\ UNCHANGED <<sessionVars, idpVars, cacheVars, heap>>

(* AuthnStory hands the model's token to AuthenticateSessionStory, which   *)
(* throws when there is none.  After a valid password its answer is        *)
(* ignored (sessionQuiet), after an expired one it is returned (session).  *)
AuthnSession(b) ==
    /\ pc[b] \in {"verified", "mustChange"}
    /\ \/ /\ TokenOf(b) # NoToken
          /\ Goto(b, IF pc[b] = "verified" THEN "sessionQuiet" ELSE "session")
          /\ tok' = [tok EXCEPT ![b] = TokenOf(b)]
          /\ ref' = [ref EXCEPT ![b] = NoModel]
          /\ UNCHANGED name
       \/ /\ TokenOf(b) = NoToken
          /\ AnswerBlank(b, "refused")
    /\ UNCHANGED <<sessionVars, idpVars, cacheVars, heap>>

-----------------------------------------------------------------------------
(* AuthenticateSessionStory *)

(* Variant: the forms-authentication cookie a browser has is kept. *)
SetSessionKeepsUser(b) ==
    /\ tok[b] \in live
    /\ cookie' = [cookie EXCEPT ![b] = tok[b]]
    /\ formsUser' = [formsUser EXCEPT ![b] = IF @ = NoName THEN owner[tok[b]] ELSE @]

(* Variant: the forms-authentication cookie holds the name as typed. *)
SetSessionRawName(b) ==
    /\ tok[b] \in live
    /\ cookie' = [cookie EXCEPT ![b] = tok[b]]
    /\ formsUser' = [formsUser EXCEPT ![b] = NameOf(tok[b])]


(* The IdP confirms the token: the session cookies are set. *)
SetSession(b) ==
    /\ tok[b] \in live
    /\ cookie' = [cookie EXCEPT ![b] = tok[b]]
    /\ formsUser' = [formsUser EXCEPT ![b] = owner[tok[b]]]

(* Its answer is the handler's: the home page, the expired-password page   *)
(* or, for an SSO session, the bypass that is refused.                     *)
SessionGranted(b) ==
    /\ pc[b] = "session"
    /\ SetSession(b)
    /\ \E p \in {"home", "renew", "refused"} : AnswerBlank(b, p)
    /\ UNCHANGED <<idpVars, cacheVars, heap>>

(* AuthnStory goes home whatever the answer. *)
SessionGrantedQuiet(b) ==
    /\ pc[b] = "sessionQuiet"
    /\ SetSession(b)
    /\ AnswerBlank(b, "home")
    /\ UNCHANGED <<idpVars, cacheVars, heap>>

(* Variant: authentication is tried again until it succeeds. *)
SessionNotSetRetries(b) ==
    /\ pc[b] \in {"session", "sessionQuiet"}
    /\ Goto(b, "verified")
    /\ UNCHANGED <<name, tok, ref, sessionVars, idpVars, cacheVars, heap>>

(* The IdP does not confirm it, cannot be reached, or gives no expiration  *)
(* date, without which no cookie is set.                                   *)
SessionNotSet(b) ==
    /\ \/ /\ pc[b] = "session"
          /\ \E p \in {"refused", "home", "renew"} : AnswerBlank(b, p)
       \/ pc[b] = "sessionQuiet" /\ AnswerBlank(b, "home")
    /\ UNCHANGED <<sessionVars, idpVars, cacheVars, heap>>

(* The home page.  Its filter (IsAuthorized) removes the cookies of a      *)
(* browser that lacks one of them or whose token is no longer valid, and   *)
(* sends a user with an expired password, by the claim of the token or the *)
(* key in the cache, to the page for it; the page itself loads the         *)
(* profile, which an IdP that revoked the token refuses.                   *)
HomeSignOut(b) ==
    /\ pc[b] = "home"
    /\ ~SignedIn(b)
    /\ cookie' = [cookie EXCEPT ![b] = NoToken]
    /\ formsUser' = [formsUser EXCEPT ![b] = NoName]
    /\ AnswerBlank(b, "start")
    /\ UNCHANGED <<idpVars, cacheVars, heap>>

HomeUnauthorized(b) ==
    /\ pc[b] = "home"
    /\ cookie[b] # NoToken /\ ~SignedIn(b)
    /\ AnswerBlank(b, "start")
    /\ UNCHANGED <<sessionVars, idpVars, cacheVars, heap>>

HomeRenew(b) ==
    /\ pc[b] = "home"
    /\ cookie[b] # NoToken
    /\ NameOf(cookie[b]) \in renewal \/ cookie[b] \in MustChange
    /\ AnswerBlank(b, "renew")
    /\ UNCHANGED <<sessionVars, idpVars, cacheVars, heap>>

(* Logout: the session cookie is removed (the forms-authentication cookie  *)
(* stays) and the IdP is told, which may fail.                             *)
Logout(b) ==
    /\ pc[b] = "home"
    /\ cookie' = [cookie EXCEPT ![b] = NoToken]
    /\ live' \in {live, live \ {cookie[b]}}
    /\ AnswerBlank(b, "start")
    /\ UNCHANGED <<formsUser, owner, raw, cacheVars, heap>>

-----------------------------------------------------------------------------
(* The cache and the process *)

(* An entry expires, or is evicted when the cache is full. *)
ExpireFlag(n) ==
    /\ n \in flag
    /\ flag' = flag \ {n}
    /\ UNCHANGED <<browserVars, sessionVars, idpVars, pending, entry, renewal, heap>>

ExpirePending(n) ==
    /\ pending[n] # NoModel
    /\ pending' = [pending EXCEPT ![n] = NoModel]
    /\ UNCHANGED <<browserVars, sessionVars, idpVars, flag, entry, renewal, heap>>

ExpireEntry(t) ==
    /\ entry[t] # NoModel
    /\ entry' = [entry EXCEPT ![t] = NoModel]
    /\ UNCHANGED <<browserVars, sessionVars, idpVars, flag, pending, renewal, heap>>

ExpireRenewal(n) ==
    /\ n \in renewal
    /\ renewal' = renewal \ {n}
    /\ UNCHANGED <<browserVars, sessionVars, idpVars, flag, pending, entry, heap>>

(* The application pool is recycled: the cache is lost, and so are the     *)
(* requests being worked on.                                               *)
Restart ==
    /\ flag' = {}
    /\ pending' = [n \in Names |-> NoModel]
    /\ entry' = [t \in Tokens |-> NoModel]
    /\ renewal' = {}
    /\ heap' = [m \in Models |-> EmptyModel]
    /\ pc' = [b \in Browsers |-> IF pc[b] \in InFlight THEN "refused" ELSE pc[b]]
    /\ name' = [b \in Browsers |-> IF pc[b] \in InFlight THEN NoName ELSE name[b]]
    /\ tok' = [b \in Browsers |-> IF pc[b] \in InFlight THEN NoToken ELSE tok[b]]
    /\ ref' = [b \in Browsers |-> NoModel]
    /\ UNCHANGED <<sessionVars, idpVars>>

-----------------------------------------------------------------------------

(* What the server does with a request it has received. *)
Handle(b) ==
    \/ IdentityReplyMfa(b) \/ IdentityReplyShowAuthn(b) \/ IdentityReplyOther(b)
    \/ LoginReplyMfa(b) \/ LoginReplyChangePassword(b) \/ LoginReplyOther(b)
    \/ DropFlag(b) \/ LoginCompleted(b) \/ DropPending(b) \/ Bind(b)
    \/ AuthnRefused(b) \/ AuthnVerified(b) \/ AuthnThrows(b) \/ AuthnSession(b)
    \/ SessionGranted(b) \/ SessionGrantedQuiet(b) \/ SessionNotSet(b)

(* What a user does: a request arrives. *)
Browse(b) ==
    \/ OpenIdentity(b) \/ OpenLogin(b) \/ OpenLoginWindows(b) \/ Leave(b)
    \/ IdentityPost(b) \/ LoginPost(b) \/ PassMfa(b)
    \/ PostbackAuthenticate(b) \/ PostbackReadFlag(b) \/ RepeatPostback(b)
    \/ Continue(b) \/ AuthnPost(b)
    \/ HomeSignOut(b) \/ HomeUnauthorized(b) \/ HomeRenew(b) \/ Logout(b)

Environment ==
    \/ \E t \in Tokens : RevokeToken(t) \/ ExpireEntry(t)
    \/ \E n \in Names : ExpireFlag(n) \/ ExpirePending(n) \/ ExpireRenewal(n)
    \/ Restart

Next == (\E b \in Browsers : Handle(b) \/ Browse(b)) \/ Environment

Spec == Init /\ [][Next]_vars

(* Models stands for memory, which does not run out: when every object of  *)
(* it is in use, a cache entry expires.                                    *)
Reclaim ==
    /\ \A m \in Models : ~Unreferenced(m)
    /\ \/ \E n \in Names : ExpirePending(n)
       \/ \E t \in Tokens : ExpireEntry(t)

(* ASP.NET finishes a request it has started: every await returns, if only *)
(* with a failure.  Nothing is assumed of users, of restarts or, but for   *)
(* Reclaim, of expiry.                                                     *)
FairSpec ==
    /\ Spec
    /\ \A b \in Browsers : WF_vars(Handle(b))
    /\ WF_vars(Reclaim)

-----------------------------------------------------------------------------
(* The inductive invariant *)

(* Tokens in use were issued, and a name kept with a token is one of its   *)
(* user's.                                                                 *)
TokensInv ==
    /\ live \subseteq {t \in Tokens : Issued(t)}
    /\ \A t \in Tokens : entry[t] # NoModel => Issued(t)
    /\ \A t \in Tokens : raw[t] # NoName => Account[raw[t]] = owner[t]
    /\ \A b \in Browsers : tok[b] # NoToken => Issued(tok[b])
    /\ \A b \in Browsers : cookie[b] # NoToken => Issued(cookie[b])

(* A model with a token names the token's user; a cached one is where its  *)
(* name or its token's user says.                                          *)
ModelsInv ==
    /\ \A m \in Models : heap[m].token # NoToken =>
          /\ Issued(heap[m].token)
          /\ heap[m].user # NoName
          /\ Account[heap[m].user] = owner[heap[m].token]
    /\ \A t \in Tokens : entry[t] # NoModel =>
          /\ heap[entry[t]].token # NoToken
          /\ Account[heap[entry[t]].user] = owner[t]
    /\ \A n \in Names : pending[n] # NoModel =>
          /\ heap[pending[n]].user = n
          /\ heap[pending[n]].token = NoToken

(* Only some requests hold a model; IdentityStory's is its own until it is *)
(* cached, and the one a postback is about to bind waits for nobody else.  *)
RefsInv ==
    \A b \in Browsers : ref[b] # NoModel =>
        /\ pc[b] \in {"identityReply", "dropPending", "bind",
                      "authn", "verified", "mustChange"}
        /\ heap[ref[b]].user # NoName
        /\ pc[b] \in {"identityReply", "dropPending", "bind",
                      "verified", "mustChange"} => heap[ref[b]].user = name[b]
        /\ pc[b] = "identityReply" =>
              /\ heap[ref[b]].token = NoToken
              /\ \A c \in Browsers \ {b} : ref[c] # ref[b]
              /\ \A n \in Names : pending[n] # ref[b]
              /\ \A t \in Tokens : entry[t] # ref[b]
        /\ pc[b] = "bind" => \A n \in Names : pending[n] # ref[b]

(* What a page or a request at a given point knows. *)
LocalsInv ==
    \A b \in Browsers :
        /\ pc[b] \in {"identityForm", "identityReply", "completed", "dropPending",
                      "bind", "continue"} => PreAuthnMode
        /\ pc[b] = "identityReply" => ref[b] # NoModel
        /\ pc[b] \in {"postback", "continue", "dropFlag", "completed",
                      "dropPending", "bind", "session", "sessionQuiet"}
              => tok[b] # NoToken
        /\ pc[b] \in {"mfa", "identityReply", "loginReply", "dropPending", "bind",
                      "verified", "mustChange", "session", "sessionQuiet"}
              => name[b] # NoName
        /\ pc[b] \in {"authn", "authnForm"} /\ ref[b] = NoModel => name[b] # NoName
        /\ \/ pc[b] \in {"dropPending", "bind"}
           \/ FormsUnchanged /\ pc[b] \in {"session", "sessionQuiet"}
           \/ /\ FormsUnchanged
              /\ pc[b] \in {"authnForm", "authn", "verified", "mustChange"}
              /\ ref[b] = NoModel /\ tok[b] # NoToken
           => Account[name[b]] = owner[tok[b]]

IInv == TypeOK /\ TokensInv /\ ModelsInv /\ RefsInv /\ LocalsInv

-----------------------------------------------------------------------------
(* Correctness *)

(* The accounts whose password the portal vouches for: those remembered in *)
(* the cache, those a request in progress has just verified or taken over  *)
(* from the cache and, password first, those of sign-ins that the IdP was  *)
(* told about and that are still on their way through its page.            *)
VouchedFor(u) ==
    \/ \E n \in flag : Account[n] = u
    \/ \E b \in Browsers :
          \/ pc[b] = "dropFlag" /\ owner[tok[b]] = u
          \/ /\ pc[b] \in {"loginReply", "verified", "mustChange",
                           "session", "sessionQuiet"}
             /\ Account[name[b]] = u
          \/ /\ ~PreAuthnMode
             /\ \/ pc[b] = "mfa" /\ Account[name[b]] = u
                \/ pc[b] = "postback" /\ owner[tok[b]] = u

Vouched == {u \in Accounts : VouchedFor(u)}

TF == INSTANCE TwoFactorSession WITH
        Users <- Accounts, NoUser <- NoName,
        verified <- Vouched, session <- cookie

(* The portal keeps the promise of TwoFactorSession, with browsers that    *)
(* post forms unchanged: whatever the order of the requests of several     *)
(* browsers for the same or for different users, a session is only set for *)
(* a user who passed the second factor and whose password the portal has   *)
(* verified and still remembers.                                           *)
TwoFactor == TF!Spec

(* Nobody is vouched for without a password: the set grows only when a     *)
(* request has just had a password accepted, or IIS has authenticated the  *)
(* user, and then only by that request's user; no reply, cache entry,      *)
(* expiry or restart ever adds to it.                                      *)
VouchedByPassword ==
    \A u \in Vouched' \ Vouched : \E b \in Browsers :
        /\ \/ pc[b] = "loginForm" /\ pc'[b] = "loginReply"
           \/ pc[b] = "authn" /\ pc'[b] \in {"verified", "mustChange"}
           \/ WindowsAuthentication /\ pc[b] = "start" /\ pc'[b] = "mfa"
        /\ Account[name'[b]] = u

PasswordsVouch == [][VouchedByPassword]_vars

(* A request id stands for one person: the model cached under the id of a  *)
(* token names the token's user and carries a token of that user, although *)
(* the model came out of the cache by user name and may be shared by       *)
(* several requests.                                                       *)
EntryNamesOwner ==
    \A t \in Tokens : entry[t] # NoModel =>
        LET m == heap[entry[t]] IN
        /\ m.token # NoToken
        /\ Account[m.user] = owner[t]
        /\ owner[m.token] = owner[t]

(* A password form with a token asks for the password of the token's user, *)
(* so the answer to it, if it comes back with the fields it was given,     *)
(* verifies the user the session will be for.                              *)
FormNamesOwner ==
    \A b \in Browsers :
        pc[b] = "authnForm" /\ tok[b] # NoToken => Account[name[b]] = owner[tok[b]]

(* A model waiting for its postback has not been used by another: it still *)
(* carries the name it was posted with and no token, and waits under no    *)
(* other name and no request id.                                           *)
PendingIsUnused ==
    \A n \in Names : pending[n] # NoModel =>
        /\ heap[pending[n]].user = n
        /\ heap[pending[n]].token = NoToken
        /\ \A k \in Names \ {n} : pending[k] # pending[n]
        /\ \A t \in Tokens : entry[t] # pending[n]

(* Whom a page or a request is for, at each point by what the code goes on *)
(* with there: the token, or the user of the model or the form.            *)
ByToken == {"postback", "dropFlag", "completed", "continue"}

ByName == {"mfa", "authnForm"} \union (InFlight \ ByToken)

Person(b) ==
    CASE pc[b] \in ByToken -> owner[tok[b]]
      [] pc[b] \in ByName -> Account[UserOf(b)]
      [] OTHER -> NoName

(* A sign-in is about one person from the form that starts it until it     *)
(* ends: no redirect, no look-up in the cache and no other request that    *)
(* changes the model it shares makes it go on for somebody else; and the   *)
(* session a browser gets is that of the person whose sign-in runs there.  *)
(* (Forms that come back with other fields are another matter.)            *)
OnePerson ==
    [][\A b \in Browsers :
          /\ Person(b) # NoName /\ Person(b)' # NoName => Person(b)' = Person(b)
          /\ cookie'[b] \notin {cookie[b], NoToken} => owner[cookie'[b]] = Person(b)]_vars

(* The two cookies of a browser agree: the token is the forms user's. *)
CookiesAgree ==
    \A b \in Browsers : cookie[b] # NoToken => formsUser[b] = owner[cookie[b]]

(* A request the server works on is answered. *)
RequestsAnswered ==
    \A b \in Browsers : pc[b] \in InFlight ~> pc[b] \in Pages

(* The request id is the "state for continuation user verification"        *)
(* (AccountController.Identity): what it leads to carries that very token. *)
EntryBindsToken ==
    \A t \in Tokens : entry[t] # NoModel => heap[entry[t]].token = t

(* After the IdP waived the second factor the portal shows the password    *)
(* form (IdentityStory): once the password entered there is accepted, the  *)
(* sign-in goes on to its session and does not end on an error page.       *)
PasswordFormWorks ==
    [][\A b \in Browsers : AuthnSession(b) => pc'[b] # "refused"]_vars
=============================================================================
