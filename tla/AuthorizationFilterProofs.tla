--------------------- MODULE AuthorizationFilterProofs ---------------------
(***************************************************************************)
(* Proofs about AuthorizationFilter: any number of pages and overlapping   *)
(* requests, any keys and tokens.                                          *)
(***************************************************************************)
EXTENDS AuthorizationFilter, TLAPS

USE FilterAssumption DEF vars, process, world, Outcome

LEMMA OverShape ==
    /\ Over \in Request
    /\ Over.step = "idle"
  <1> DEFINE f == CHOOSE g \in Filters : TRUE
  <1>1. f \in Filters
    OBVIOUS
  <1> QED
    BY <1>1 DEF Over, Arrived, Request

(* What the invariant says of one request.                                 *)
Good(q) == StepInv(q) /\ AdmittedForItsCookies(q) /\ EndedForAReason(q)

LEMMA OverIsGood == Good(Over) /\ Good(Over)'
  BY OverShape DEF Good, StepInv, AdmittedForItsCookies, EndedForAReason

LEMMA InitIInv == Init => IInv
  BY OverShape, OverIsGood
     DEF Init, IInv, TypeOK, Reference, Null, KeysBracketed, Bracketed, At, Good,
         DecidedByOwnCookies, SessionsEndForAReason

(* A step that changes one request only, and perhaps stores the keys.      *)
LEMMA OneRequest ==
    ASSUME IInv, NEW r \in Requests, NEW q \in Request,
           request' = [request EXCEPT ![r] = q],
           UNCHANGED <<authorizeCore, world>>,
           jsonWebKeySet' \in Reference,
           jsonWebKeySet.isNull \/ ~jsonWebKeySet'.isNull,
           ~jsonWebKeySet'.isNull => Bracketed(jsonWebKeySet'.keys),
           q.step = "store" => Bracketed(q.fetched),
           Good(q)'
    PROVE  IInv'
<1>. /\ authorizeCore' = authorizeCore /\ published' = published
     /\ expired' = expired /\ renewal' = renewal
     /\ steady' = steady /\ ever' = ever
  OBVIOUS
<1>1. TypeOK'
  BY DEF IInv, TypeOK
<1>2. \A u \in Requests : request'[u] = IF u = r THEN q ELSE request[u]
  BY DEF IInv, TypeOK
<1>3. KeysBracketed'
  BY <1>2 DEF IInv, KeysBracketed, Bracketed, At
<1>4. ASSUME NEW u \in Requests PROVE Good(request[u])'
  <2>1. CASE u = r
    <3>1. request'[u] = q
      BY <1>2, <2>1
    <3> QED
      BY <3>1 DEF Good, StepInv, AdmittedForItsCookies, EndedForAReason, Own
  <2>2. CASE u # r
    <3>1. request'[u] = request[u]
      BY <1>2, <2>2
    <3>2. Good(request[u])
      BY DEF IInv, Good, DecidedByOwnCookies, SessionsEndForAReason
    <3> QED
      BY <3>1, <3>2 DEF Good, StepInv, AdmittedForItsCookies, EndedForAReason, Own
  <2> QED
    BY <2>1, <2>2
<1> QED
  BY <1>1, <1>3, <1>4 DEF IInv, Good, DecidedByOwnCookies, SessionsEndForAReason

(* The steps after the field was written.                                  *)
LEMMA HandlerIInv ==
    ASSUME IInv, NEW r \in Requests,
           \/ RereadOutcome(r) \/ Gate(r) \/ VerifyToken(r) \/ FetchJwks(r)
           \/ FetchFails(r) \/ StoreKeys(r) \/ Validate(r) \/ Leave(r)
    PROVE  IInv'
<1>0. PICK q : q = request[r]
  OBVIOUS
<1>1. /\ q \in Request /\ Good(q)
      /\ jsonWebKeySet \in Reference
      /\ ~jsonWebKeySet.isNull => Bracketed(jsonWebKeySet.keys)
      /\ Bracketed(published) /\ published \subseteq Keys
      /\ q.step = "store" => Bracketed(q.fetched)
  BY <1>0 DEF IInv, TypeOK, Good, KeysBracketed, At, DecidedByOwnCookies, SessionsEndForAReason
<1>2. CASE RereadOutcome(r)
  <2>0. PICK n : n = [q EXCEPT !.step = "gate",
                       !.outcome = IF authorizeCore[q.filter] THEN "admit" ELSE "signOut"]
    OBVIOUS
  <2>1. /\ request' = [request EXCEPT ![r] = n] /\ q.step = "reread"
        /\ UNCHANGED <<authorizeCore, jsonWebKeySet, world>>
    BY <1>0, <1>2, <2>0 DEF RereadOutcome, At
  <2>2. n \in Request /\ n.step # "store"
    BY <1>1, <2>0 DEF Request
  <2>3. Good(n)'
    BY <1>1, <2>0, <2>1 DEF Good, StepInv, AdmittedForItsCookies, EndedForAReason, Own, Request
  <2> QED
    BY <1>1, <2>1, <2>2, <2>3, OneRequest
<1>3. CASE Gate(r)
  <2>0. PICK n : n = IF ~ValidateUserSession[q.filter] \/ ~authorizeCore[q.filter]
             THEN [q EXCEPT !.step = "done"]
             ELSE IF q.cookie = NoToken
             THEN [q EXCEPT !.step = "done", !.outcome = "signOut"]
             ELSE [q EXCEPT !.step = "verify"]
    OBVIOUS
  <2>1. /\ request' = [request EXCEPT ![r] = n] /\ q.step = "gate"
        /\ UNCHANGED <<authorizeCore, jsonWebKeySet, world>>
    BY <1>0, <1>3, <2>0 DEF Gate, At
  <2>2. n \in Request /\ n.step # "store"
    BY <1>1, <2>0 DEF Request
  <2>3. Good(n)'
    BY <1>1, <2>0, <2>1 DEF Good, StepInv, AdmittedForItsCookies, EndedForAReason, Own, Request
  <2> QED
    BY <1>1, <2>1, <2>2, <2>3, OneRequest
<1>4. CASE VerifyToken(r)
  <2>0. PICK n : n = [q EXCEPT !.step = IF jsonWebKeySet.isNull THEN "fetch" ELSE "validate"]
    OBVIOUS
  <2>1. /\ request' = [request EXCEPT ![r] = n] /\ q.step = "verify"
        /\ UNCHANGED <<authorizeCore, jsonWebKeySet, world>>
    BY <1>0, <1>4, <2>0 DEF VerifyToken, At
  <2>2. n \in Request /\ n.step # "store"
    BY <1>1, <2>0 DEF Request
  <2>3. Good(n)'
    BY <1>1, <2>0, <2>1 DEF Good, StepInv, AdmittedForItsCookies, EndedForAReason, Own, Request
  <2> QED
    BY <1>1, <2>1, <2>2, <2>3, OneRequest
<1>5. CASE FetchJwks(r)
  <2>0. PICK n : n = [q EXCEPT !.step = "store", !.fetched = published]
    OBVIOUS
  <2>1. /\ request' = [request EXCEPT ![r] = n] /\ q.step = "fetch"
        /\ UNCHANGED <<authorizeCore, jsonWebKeySet, world>>
    BY <1>0, <1>5, <2>0 DEF FetchJwks, At
  <2>2. n \in Request /\ n.fetched = published
    BY <1>1, <2>0 DEF Request
  <2>3. Good(n)'
    BY <1>1, <2>0, <2>1 DEF Good, StepInv, AdmittedForItsCookies, EndedForAReason, Own, Request
  <2> QED
    BY <1>1, <2>1, <2>2, <2>3, OneRequest
<1>6. CASE FetchFails(r)
  <2>0. PICK n : n = [q EXCEPT !.step = "done", !.outcome = "signOut", !.failed = TRUE]
    OBVIOUS
  <2>1. /\ request' = [request EXCEPT ![r] = n] /\ q.step = "fetch"
        /\ UNCHANGED <<authorizeCore, jsonWebKeySet, world>>
    BY <1>0, <1>6, <2>0 DEF FetchFails, At
  <2>2. n \in Request /\ n.step # "store"
    BY <1>1, <2>0 DEF Request
  <2>3. Good(n)'
    BY <1>1, <2>0, <2>1 DEF Good, StepInv, AdmittedForItsCookies, EndedForAReason, Own, Request
  <2> QED
    BY <1>1, <2>1, <2>2, <2>3, OneRequest
<1>7. CASE StoreKeys(r)
  <2>0. PICK n : n = [q EXCEPT !.step = "validate", !.fetched = {}]
    OBVIOUS
  <2>1. /\ request' = [request EXCEPT ![r] = n] /\ q.step = "store"
        /\ jsonWebKeySet' = [isNull |-> FALSE, keys |-> q.fetched]
        /\ UNCHANGED <<authorizeCore, world>>
    BY <1>0, <1>7, <2>0 DEF StoreKeys, At
  <2>2. n \in Request /\ n.step # "store"
    BY <1>1, <2>0 DEF Request
  <2>3. jsonWebKeySet' \in Reference
    BY <1>1, <2>1 DEF Request, Reference
  <2>4. Good(n)'
    BY <1>1, <2>0, <2>1 DEF Good, StepInv, AdmittedForItsCookies, EndedForAReason, Own, Request
  <2> QED
    BY <1>1, <2>1, <2>2, <2>3, <2>4, OneRequest
<1>8. CASE Validate(r)
  <2>0. PICK n : n = IF ~Verifies(q.cookie)
             THEN [q EXCEPT !.step = "done", !.outcome = "signOut"]
             ELSE [q EXCEPT !.step = "done", !.verified = TRUE,
                            !.outcome = IF q.cookie \in renewal THEN "renew"
                                        ELSE q.outcome]
    OBVIOUS
  <2>1. /\ request' = [request EXCEPT ![r] = n] /\ q.step = "validate"
        /\ UNCHANGED <<authorizeCore, jsonWebKeySet, world>>
    BY <1>0, <1>8, <2>0 DEF Validate, At
  <2>2. n \in Request /\ n.step # "store"
    BY <1>1, <2>0 DEF Request
  <2>3. Good(n)'
    BY <1>1, <2>0, <2>1 DEF Good, StepInv, AdmittedForItsCookies, EndedForAReason, Own, Request,
                      Verifies, Bracketed
  <2> QED
    BY <1>1, <2>1, <2>2, <2>3, OneRequest
<1>9. CASE Leave(r)
  <2>1. /\ request' = [request EXCEPT ![r] = Over]
        /\ UNCHANGED <<authorizeCore, jsonWebKeySet, world>>
    BY <1>9 DEF Leave
  <2> QED
    BY <1>1, <2>1, OverShape, OverIsGood, OneRequest
<1> QED
  BY <1>2, <1>3, <1>4, <1>5, <1>6, <1>7, <1>8, <1>9

LEMMA ArriveIInv ==
    ASSUME IInv, NEW r \in Requests, NEW f \in Filters, NEW a \in BOOLEAN,
           NEW c \in Tokens \union {NoToken}, Arrive(r, f, a, c)
    PROVE  IInv'
<1>1. Arrived(f, a, c) \in Request /\ Arrived(f, a, c).step = "write"
  BY DEF Arrived, Request
<1>2. Good(Arrived(f, a, c))'
  BY <1>1 DEF Good, StepInv, AdmittedForItsCookies, EndedForAReason
<1> QED
  BY <1>1, <1>2, OneRequest DEF Arrive, IInv, TypeOK, KeysBracketed

(* The shared field: whoever holds the opposite outcome is crossed.        *)
LEMMA WriteOutcomeIInv ==
    ASSUME IInv, NEW r \in Requests, WriteOutcome(r)
    PROVE  IInv'
<1>1. /\ request[r].step = "write" /\ request[r] \in Request
      /\ authorizeCore' = [authorizeCore EXCEPT ![request[r].filter] = Own(request[r])]
      /\ UNCHANGED <<jsonWebKeySet, world>>
      /\ \A u \in Requests :
            request'[u] = IF u = r THEN [request[r] EXCEPT !.step = "reread"]
                          ELSE IF Crosses(r, u) THEN [request[u] EXCEPT !.crossed = TRUE]
                          ELSE request[u]
      /\ DOMAIN request' = Requests /\ request' = [u \in Requests |-> request'[u]]
  BY DEF WriteOutcome, At, IInv, TypeOK
<1>2. ASSUME NEW u \in Requests PROVE request[u] \in Request /\ request'[u] \in Request
  <2>1. request[u] \in Request
    BY DEF IInv, TypeOK
  <2>2. ASSUME NEW q \in Request
        PROVE  [q EXCEPT !.step = "reread"] \in Request /\ [q EXCEPT !.crossed = TRUE] \in Request
    BY DEF Request
  <2> QED
    BY <1>1, <2>1, <2>2
<1>3. TypeOK'
  <2>1. request' \in [Requests -> Request]
    BY <1>1, <1>2
  <2>2. authorizeCore' \in [Filters -> BOOLEAN]
    BY <1>1 DEF IInv, TypeOK, Request, Own
  <2> QED
    BY <1>1, <2>1, <2>2 DEF IInv, TypeOK
<1>4. KeysBracketed'
  BY <1>1, <1>2 DEF IInv, KeysBracketed, Bracketed, At, Request
<1>5. ASSUME NEW u \in Requests PROVE Good(request[u])'
  <2>1. Good(request[u]) /\ request[u] \in Request
    BY <1>2 DEF IInv, Good, DecidedByOwnCookies, SessionsEndForAReason
  <2>2. CASE u = r
    <3>1. PICK q \in Request : q = request[r]
      BY <1>1
    <3>2. request'[u] = [q EXCEPT !.step = "reread"] /\ q.filter \in Filters
      BY <1>1, <2>2, <3>1 DEF Request
    <3>3. authorizeCore'[q.filter] = Own(q)
      BY <1>1, <3>1, <3>2 DEF IInv, TypeOK
    <3>4. /\ request'[u].step = "reread" /\ request'[u].filter = q.filter
          /\ request'[u].authenticated = q.authenticated /\ request'[u].cookie = q.cookie
      BY <3>2 DEF Request
    <3> QED
      BY <3>3, <3>4 DEF Good, StepInv, AdmittedForItsCookies, EndedForAReason, Own
  <2>3. CASE u # r /\ Crosses(r, u)
    BY <1>1, <2>1, <2>3
       DEF Good, StepInv, AdmittedForItsCookies, EndedForAReason, Own, Request, Crosses
  <2>4. CASE u # r /\ ~Crosses(r, u)
    <3>1. request'[u] = request[u]
      BY <1>1, <2>4
    <3>2. \/ request[u].step \notin {"reread", "gate"}
          \/ request[u].filter # request[r].filter
          \/ Own(request[u]) = Own(request[r])
      BY <2>4 DEF Crosses
    <3> QED
      BY <1>1, <2>1, <3>1, <3>2
         DEF Good, StepInv, AdmittedForItsCookies, EndedForAReason, Own, Request, IInv, TypeOK
  <2> QED
    BY <2>2, <2>3, <2>4
<1> QED
  BY <1>3, <1>4, <1>5 DEF IInv, Good, DecidedByOwnCookies, SessionsEndForAReason

(* Keys that come and go, time, and the other pages.                       *)
LEMMA WorldIInv ==
    ASSUME IInv, UNCHANGED process,
           published' \subseteq Keys, expired' \subseteq Tokens, renewal' \subseteq Tokens,
           steady' \subseteq steady, ever \subseteq ever', ever' \subseteq Keys,
           expired \subseteq expired', steady' \subseteq published', published' \subseteq ever'
    PROVE  IInv'
<1>1. TypeOK'
  BY DEF IInv, TypeOK
<1>2. KeysBracketed'
  BY DEF IInv, KeysBracketed, Bracketed, At
<1>3. ASSUME NEW r \in Requests PROVE Good(request[r])'
  BY DEF IInv, Good, StepInv, AdmittedForItsCookies, EndedForAReason, Own,
         DecidedByOwnCookies, SessionsEndForAReason
<1> QED
  BY <1>1, <1>2, <1>3 DEF IInv, Good, DecidedByOwnCookies, SessionsEndForAReason

LEMMA NextIInv == IInv /\ [Next]_vars => IInv'
<1> SUFFICES ASSUME IInv, [Next]_vars PROVE IInv'
  OBVIOUS
<1>1. ASSUME NEW s \in SUBSET Keys, Rotate(s) PROVE IInv'
  BY <1>1, WorldIInv DEF Rotate, IInv, TypeOK, KeysBracketed, Bracketed
<1>2. ASSUME NEW t \in Tokens, Expire(t) \/ RenewalKey(t) PROVE IInv'
  BY <1>2, WorldIInv DEF Expire, RenewalKey, IInv, TypeOK, KeysBracketed, Bracketed
<1>3. ASSUME Recycle PROVE IInv'
  <2>1. TypeOK' /\ KeysBracketed'
    BY <1>3, OverShape
       DEF Recycle, IInv, TypeOK, Reference, Null, KeysBracketed, Bracketed, At
  <2>2. \A r \in Requests : Good(request[r])'
    BY <1>3, OverShape
       DEF Recycle, Good, StepInv, AdmittedForItsCookies, EndedForAReason
  <2> QED
    BY <2>1, <2>2 DEF IInv, Good, DecidedByOwnCookies, SessionsEndForAReason
<1>4. CASE UNCHANGED vars
  BY <1>4, WorldIInv DEF IInv, TypeOK, KeysBracketed, Bracketed
<1> QED
  BY <1>1, <1>2, <1>3, <1>4, ArriveIInv, WriteOutcomeIInv, HandlerIInv DEF Next

(* The inductive invariant: what a request may rely on at each step.       *)
THEOREM Invariance == Spec => []IInv
  BY InitIInv, NextIInv, PTL DEF Spec

(* However many requests share a filter instance and race for the keys, an *)
(* undisturbed one is admitted for its own cookies and token.              *)
THEOREM AdmissionsAreOwn == Spec => []DecidedByOwnCookies
<1>1. IInv => DecidedByOwnCookies
  BY DEF IInv
<1> QED
  BY <1>1, Invariance, PTL

(* And no session ends because of another's fetch of the keys.             *)
THEOREM EndingsAreOwn == Spec => []SessionsEndForAReason
<1>1. IInv => SessionsEndForAReason
  BY DEF IInv
<1> QED
  BY <1>1, Invariance, PTL
=============================================================================
