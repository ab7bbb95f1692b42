------------------------ MODULE AuthorizationFilter ------------------------
(***************************************************************************)
(* The filter in front of the pages of signed-in users                     *)
(* (IsAuthorizedAttribute) and the verification of their tokens            *)
(* (TokenValidationService).                                               *)
(*                                                                         *)
(* MVC makes one instance of the attribute for a page and lets it serve    *)
(* every request; the instance keeps the outcome of AuthorizeCore in a     *)
(* field and reads it back twice.  The API's signing keys are a static     *)
(* field that the first verification fills.  Nothing synchronises either.  *)
(***************************************************************************)
EXTENDS FiniteSets

CONSTANTS
    Requests,            \* requests in flight at once
    Filters,             \* instances of the attribute, one per page
    ValidateUserSession, \* the constructor argument of each
    Tokens,              \* values of the "multifactor" cookie
    NoToken,             \* "no such cookie"
    Keys,                \* signing keys
    SignedBy,            \* the key a token is signed with
    Foreign,             \* cookie values that are no token of this portal:
                         \* malformed, or for another audience (API key)
    MustChangePassword   \* the tokens with that claim

ASSUME FilterAssumption ==
    /\ Filters # {}
    /\ ValidateUserSession \in [Filters -> BOOLEAN]
    /\ NoToken \notin Tokens
    /\ SignedBy \in [Tokens -> Keys]
    /\ Foreign \subseteq Tokens
    /\ MustChangePassword \subseteq Tokens

VARIABLES
    authorizeCore, \* per instance, the field _authorizeCore
    jsonWebKeySet, \* the static field _jsonWebKeySet
    request,       \* per request, how far it is and what it holds
    published,     \* API: the key set it publishes
    expired,       \* tokens whose time is over
    renewal,       \* tokens whose user has an expired-password key (or the claim)
    steady,        \* history: keys published ever since the process started
    ever           \* history: keys published at some time since then

process == <<authorizeCore, jsonWebKeySet, request>>
world == <<published, expired, renewal, steady, ever>>
vars == <<process, world>>

-----------------------------------------------------------------------------
(* A reference that is null or leads to a set of keys.                     *)
Reference == [isNull : BOOLEAN, keys : SUBSET Keys]
Null == [isNull |-> TRUE, keys |-> {}]

Outcome == {"none", "admit", "signOut", "renew"}

(* authenticated, cookie: what the browser sent.  fetched: the answer of   *)
(* the API.  History: crossed says that a request with the opposite        *)
(* outcome wrote the field in between, verified and failed what became of  *)
(* the token.                                                              *)
Request ==
    [step : {"idle", "write", "reread", "gate", "verify", "fetch", "store",
             "validate", "done"},
     filter : Filters, authenticated : BOOLEAN, cookie : Tokens \union {NoToken},
     fetched : SUBSET Keys, outcome : Outcome,
     crossed : BOOLEAN, verified : BOOLEAN, failed : BOOLEAN]

Arrived(f, authenticated, cookie) ==
    [step |-> "write", filter |-> f, authenticated |-> authenticated,
     cookie |-> cookie, fetched |-> {}, outcome |-> "none",
     crossed |-> FALSE, verified |-> FALSE, failed |-> FALSE]

(* Any request that is over; all are alike.                                *)
Over == [Arrived(CHOOSE f \in Filters : TRUE, FALSE, NoToken) EXCEPT !.step = "idle"]

TypeOK ==
    /\ authorizeCore \in [Filters -> BOOLEAN]
    /\ jsonWebKeySet \in Reference
    /\ request \in [Requests -> Request]
    /\ published \subseteq Keys
    /\ expired \subseteq Tokens
    /\ renewal \subseteq Tokens
    /\ steady \subseteq Keys
    /\ ever \subseteq Keys

Init ==
    /\ authorizeCore = [f \in Filters |-> FALSE]
    /\ jsonWebKeySet = Null
    /\ request = [r \in Requests |-> Over]
    /\ published \in SUBSET Keys
    /\ expired = {}
    /\ renewal = MustChangePassword
    /\ steady = published
    /\ ever = published

At(r, step) == request[r].step = step

-----------------------------------------------------------------------------
(***************************************************************************)
(* The API, time and the other pages.                                      *)
(***************************************************************************)
Rotate(s) ==
    /\ published' = s
    /\ steady' = steady \intersect s
    /\ ever' = ever \union s
    /\ UNCHANGED <<process, expired, renewal>>

(* (What is foreign is refused whatever its time.) *)
Expire(t) ==
    /\ t \notin Foreign
    /\ expired' = expired \union {t}
    /\ UNCHANGED <<process, published, renewal, steady, ever>>

(* Sign-in puts the expired-password key into the cache; the change of the *)
(* password, or time, takes it out.                                        *)
RenewalKey(t) ==
    /\ t \notin MustChangePassword \union Foreign
    /\ renewal' = IF t \in renewal THEN renewal \ {t} ELSE renewal \union {t}
    /\ UNCHANGED <<process, published, expired, steady, ever>>

-----------------------------------------------------------------------------
(***************************************************************************)
(* AuthorizeCore, inside base.OnAuthorization.                             *)
(***************************************************************************)
Arrive(r, f, authenticated, cookie) ==
    /\ At(r, "idle")
    /\ request' = [request EXCEPT ![r] = Arrived(f, authenticated, cookie)]
    /\ UNCHANGED <<authorizeCore, jsonWebKeySet, world>>

(* What a request's own cookies say before the token is looked at.         *)
Own(q) ==
    /\ q.authenticated
    /\ ValidateUserSession[q.filter] => q.cookie # NoToken

(* u has written the field and not yet read it for the last time, and r is *)
(* about to write the opposite.                                            *)
Crosses(r, u) ==
    /\ u # r
    /\ request[u].step \in {"reread", "gate"}
    /\ request[u].filter = request[r].filter
    /\ Own(request[u]) # Own(request[r])

(* Variant: either of the cookies is enough. *)
WriteOutcomeEither(r) ==
    LET q == request[r] IN
    /\ At(r, "write")
    /\ authorizeCore' = [authorizeCore EXCEPT
                           ![q.filter] = q.authenticated \/ q.cookie # NoToken]
    /\ request' = [u \in Requests |->
                     IF u = r THEN [q EXCEPT !.step = "reread"]
                     ELSE IF Crosses(r, u) THEN [request[u] EXCEPT !.crossed = TRUE]
                     ELSE request[u]]
    /\ UNCHANGED <<jsonWebKeySet, world>>

WriteOutcome(r) ==
    /\ At(r, "write")
    /\ authorizeCore' = [authorizeCore EXCEPT ![request[r].filter] = Own(request[r])]
    /\ request' = [u \in Requests |->
                     IF u = r THEN [request[r] EXCEPT !.step = "reread"]
                     ELSE IF Crosses(r, u) THEN [request[u] EXCEPT !.crossed = TRUE]
                     ELSE request[u]]
    /\ UNCHANGED <<jsonWebKeySet, world>>

(* return _authorizeCore: whatever it is by now.  A refusal signs the      *)
(* browser out and redirects it, and OnAuthorization goes on.              *)
RereadOutcome(r) ==
    /\ At(r, "reread")
    /\ request' = [request EXCEPT
                     ![r].step = "gate",
                     ![r].outcome = IF authorizeCore[request[r].filter]
                                    THEN "admit" ELSE "signOut"]
    /\ UNCHANGED <<authorizeCore, jsonWebKeySet, world>>

-----------------------------------------------------------------------------
(***************************************************************************)
(* The rest of OnAuthorization, with VerifyToken.                          *)
(***************************************************************************)

(* Variant: && for ||. *)
GateBoth(r) ==
    LET q == request[r] IN
    /\ At(r, "gate")
    /\ request' = [request EXCEPT
         ![r] = IF ~ValidateUserSession[q.filter] /\ ~authorizeCore[q.filter]
                THEN [q EXCEPT !.step = "done"]
                ELSE IF q.cookie = NoToken
                THEN [q EXCEPT !.step = "done", !.outcome = "signOut"]
                ELSE [q EXCEPT !.step = "verify"]]
    /\ UNCHANGED <<authorizeCore, jsonWebKeySet, world>>

(* if (!_validateUserSession || !_authorizeCore) return: the last look at  *)
(* the field.  Then the cookie, which may be missing after all.            *)
Gate(r) ==
    LET q == request[r] IN
    /\ At(r, "gate")
    /\ request' = [request EXCEPT
         ![r] = IF ~ValidateUserSession[q.filter] \/ ~authorizeCore[q.filter]
                THEN [q EXCEPT !.step = "done"]
                ELSE IF q.cookie = NoToken
                THEN [q EXCEPT !.step = "done", !.outcome = "signOut"]
                ELSE [q EXCEPT !.step = "verify"]]
    /\ UNCHANGED <<authorizeCore, jsonWebKeySet, world>>

(* if (_jsonWebKeySet == null): every request that finds none asks.        *)
VerifyToken(r) ==
    /\ At(r, "verify")
    /\ request' = [request EXCEPT
                     ![r].step = IF jsonWebKeySet.isNull THEN "fetch" ELSE "validate"]
    /\ UNCHANGED <<authorizeCore, jsonWebKeySet, world>>

(* FetchJwks, answered with what the API publishes at that moment.         *)
FetchJwks(r) ==
    /\ At(r, "fetch")
    /\ request' = [request EXCEPT ![r].step = "store", ![r].fetched = published]
    /\ UNCHANGED <<authorizeCore, jsonWebKeySet, world>>

(* Variant: FetchJwks catches its exception and returns an empty set. *)
FetchFailsQuietly(r) ==
    /\ At(r, "fetch")
    /\ request' = [request EXCEPT ![r].step = "store", ![r].fetched = {}]
    /\ UNCHANGED <<authorizeCore, jsonWebKeySet, world>>

(* The API cannot be reached: the exception makes the token invalid, the   *)
(* user is signed out, and the next request asks again.                    *)
FetchFails(r) ==
    /\ At(r, "fetch")
    /\ request' = [request EXCEPT ![r].step = "done", ![r].outcome = "signOut",
                                  ![r].failed = TRUE]
    /\ UNCHANGED <<authorizeCore, jsonWebKeySet, world>>

(* The last answer to arrive stays, for as long as the process runs.       *)
StoreKeys(r) ==
    /\ At(r, "store")
    /\ jsonWebKeySet' = [isNull |-> FALSE, keys |-> request[r].fetched]
    /\ request' = [request EXCEPT ![r].step = "validate", ![r].fetched = {}]
    /\ UNCHANGED <<authorizeCore, world>>

(* Well-formed and for this audience, signed with a known key, in time. *)
Verifies(t) ==
    /\ t \notin Foreign
    /\ SignedBy[t] \in jsonWebKeySet.keys
    /\ t \notin expired

(* The token is validated, then the claim and the cached key that send the *)
(* user to the page for a new password.                                    *)
Validate(r) ==
    LET q == request[r] IN
    /\ At(r, "validate")
    /\ request' = [request EXCEPT
         ![r] = IF ~Verifies(q.cookie)
                THEN [q EXCEPT !.step = "done", !.outcome = "signOut"]
                ELSE [q EXCEPT !.step = "done", !.verified = TRUE,
                               !.outcome = IF q.cookie \in renewal THEN "renew" ELSE @]]
    /\ UNCHANGED <<authorizeCore, jsonWebKeySet, world>>

(* MVC runs the action or executes the result.                             *)
Leave(r) ==
    /\ At(r, "done")
    /\ request' = [request EXCEPT ![r] = Over]
    /\ UNCHANGED <<authorizeCore, jsonWebKeySet, world>>

(* The process is recycled: static fields and instances are gone.          *)
Recycle ==
    /\ authorizeCore' = [f \in Filters |-> FALSE]
    /\ jsonWebKeySet' = Null
    /\ request' = [r \in Requests |-> Over]
    /\ steady' = published
    /\ ever' = published
    /\ UNCHANGED <<published, expired, renewal>>

Next ==
    \/ \E s \in SUBSET Keys : Rotate(s)
    \/ \E t \in Tokens : Expire(t) \/ RenewalKey(t)
    \/ \E r \in Requests :
          \/ \E f \in Filters, a \in BOOLEAN, c \in Tokens \union {NoToken} :
                Arrive(r, f, a, c)
          \/ WriteOutcome(r) \/ RereadOutcome(r) \/ Gate(r) \/ VerifyToken(r)
          \/ FetchJwks(r) \/ FetchFails(r) \/ StoreKeys(r) \/ Validate(r) \/ Leave(r)
    \/ Recycle

Spec == Init /\ [][Next]_vars

-----------------------------------------------------------------------------
(***************************************************************************)
(* Properties.                                                             *)
(***************************************************************************)

(* Whoever gets to a page has the cookies the page demands and, where the  *)
(* session is validated, a token of this portal, verified in this request  *)
(* with a key the API published while the process ran.  Requests of one    *)
(* page may overlap freely as long as no request with the opposite outcome *)
(* writes the shared field in between; then, and only then, another's      *)
(* outcome can count (IsAuthorizedAttribute.OnAuthorization).              *)
AdmittedForItsCookies(q) ==
    q.step = "done" /\ q.outcome \in {"admit", "renew"} /\ ~q.crossed =>
        /\ Own(q)
        /\ ValidateUserSession[q.filter] =>
               q.verified /\ q.cookie \notin Foreign /\ SignedBy[q.cookie] \in ever

DecidedByOwnCookies == \A r \in Requests : AdmittedForItsCookies(request[r])

(* A session is ended for a reason of its own: a cookie missing, a token   *)
(* expired or not this portal's, the API out of reach when this request    *)
(* needed the keys, or a key that has not been published ever since the    *)
(* process started (the keys are never fetched again).  Late and           *)
(* overlapping first requests, whose answers overwrite each other, end no  *)
(* session whose key was there all along                                   *)
(* (TokenValidationService.VerifyToken).                                   *)
EndedForAReason(q) ==
    q.step = "done" /\ q.outcome = "signOut" /\ ~q.crossed =>
        \/ ~Own(q)
        \/ q.failed
        \/ q.cookie \in Foreign \union expired
        \/ SignedBy[q.cookie] \notin steady

SessionsEndForAReason == \A r \in Requests : EndedForAReason(request[r])

(* Why: key sets, stored or on their way, lie between what was published   *)
(* all the time and what was published at any time.                        *)
Bracketed(s) == steady \subseteq s /\ s \subseteq ever

KeysBracketed ==
    /\ ~jsonWebKeySet.isNull => Bracketed(jsonWebKeySet.keys)
    /\ Bracketed(published)
    /\ \A r \in Requests : At(r, "store") => Bracketed(request[r].fetched)

(* What a request may rely on at each step.                                *)
StepInv(q) ==
    /\ q.step = "reread" /\ ~q.crossed => authorizeCore[q.filter] = Own(q)
    /\ q.step = "gate" =>
           /\ q.outcome \in {"admit", "signOut"}
           /\ ~q.crossed => /\ authorizeCore[q.filter] = Own(q)
                            /\ q.outcome = "admit" <=> Own(q)
    /\ q.step \in {"verify", "fetch", "store", "validate"} =>
           /\ ValidateUserSession[q.filter]
           /\ q.cookie # NoToken
           /\ q.outcome \in {"admit", "signOut"}
           /\ ~q.crossed => Own(q) /\ q.outcome = "admit"
    /\ q.step = "validate" => ~jsonWebKeySet.isNull

IInv ==
    /\ TypeOK
    /\ KeysBracketed
    /\ \A r \in Requests : StepInv(request[r])
    /\ DecidedByOwnCookies
    /\ SessionsEndForAReason
=============================================================================
