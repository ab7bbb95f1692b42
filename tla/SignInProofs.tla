---------------------------- MODULE SignInProofs ----------------------------
(***************************************************************************)
(* Proofs about SignIn, for every set of names, browsers, tokens and       *)
(* models and for both configurations of the portal: the inductive         *)
(* invariant IInv, the safety properties that follow from it, and that     *)
(* SignIn implements TwoFactorSession.  Three theorems (FormsName,         *)
(* ImplementsTwoFactor, SignInsAreOnePersons) assume FormsUnchanged; the   *)
(* others hold whatever comes back in the fields of the password form.     *)
(***************************************************************************)
EXTENDS SignIn, TLAPS

(* An answer leaves the browser with a page, a name, a token and no model. *)
LEMMA AnswerType ==
    ASSUME TypeOK, NEW b \in Browsers, NEW p \in Pages \union InFlight,
           NEW n \in Names \union {NoName}, NEW t \in Tokens \union {NoToken},
           Answer(b, p, n, t)
    PROVE  /\ pc' \in [Browsers -> Pages \union InFlight]
           /\ name' \in [Browsers -> Names \union {NoName}]
           /\ tok' \in [Browsers -> Tokens \union {NoToken}]
           /\ ref' \in [Browsers -> Models \union {NoModel}]
BY DEF TypeOK, Answer, Goto

(* Every variable keeps its type. The requests that write a name or a      *)
(* token into shared state hold one (LocalsInv), so this needs the whole   *)
(* invariant.                                                              *)
LEMMA TypeStep == ASSUME IInv, [Next]_vars PROVE TypeOK'
<1> USE SignInAssumption DEF IInv, TypeOK, Answer, AnswerBlank, Goto,
   browserVars, sessionVars, idpVars, cacheVars, Pages, InFlight,
   ModelRecord, Accounts
<1>1. ASSUME NEW b \in Browsers, OpenIdentity(b) PROVE TypeOK'
  <2>1. PICK p \in {"home", "identityForm", "refused"} : AnswerBlank(b, p)
    BY <1>1 DEF OpenIdentity
  <2>2. UNCHANGED <<sessionVars, idpVars, cacheVars, heap>>
    BY <1>1 DEF OpenIdentity
  <2>3. QED
    BY <2>1, <2>2
<1>2. ASSUME NEW b \in Browsers, OpenLogin(b) PROVE TypeOK'
  BY <1>2 DEF OpenLogin
<1>3. ASSUME NEW b \in Browsers, OpenLoginWindows(b) PROVE TypeOK'
  BY <1>3 DEF OpenLoginWindows
<1>4. ASSUME NEW b \in Browsers, Leave(b) PROVE TypeOK'
  BY <1>4 DEF Leave
<1>5. ASSUME NEW b \in Browsers, IdentityPost(b) PROVE TypeOK'
  <2>1. UNCHANGED <<sessionVars, idpVars, cacheVars>>
    BY <1>5 DEF IdentityPost
  <2>2. ASSUME NEW p \in {"identityForm", "refused", "loginForm"},
               AnswerBlank(b, p), UNCHANGED heap
        PROVE  TypeOK'
    BY <2>1, <2>2
  <2>3. ASSUME NEW n \in Names, NEW p \in BOOLEAN, NEW m \in Models,
               heap' = [heap EXCEPT ![m] =
                           [user |-> n, pwd |-> p, token |-> NoToken]],
               Goto(b, "identityReply"),
               name' = [name EXCEPT ![b] = n],
               ref' = [ref EXCEPT ![b] = m],
               tok' = [tok EXCEPT ![b] = NoToken]
        PROVE  TypeOK'
    BY <2>1, <2>3
  <2>4. QED
    BY <1>5, <2>2, <2>3 DEF IdentityPost
<1>6. ASSUME NEW b \in Browsers, LoginPost(b) PROVE TypeOK'
  BY <1>6 DEF LoginPost
<1>7. ASSUME NEW b \in Browsers, PassMfa(b) PROVE TypeOK'
  BY <1>7 DEF PassMfa, Issued, LocalsInv
<1>8. ASSUME NEW b \in Browsers, PostbackAuthenticate(b) PROVE TypeOK'
  BY <1>8 DEF PostbackAuthenticate, LocalsInv
<1>9. ASSUME NEW b \in Browsers, PostbackReadFlag(b) PROVE TypeOK'
  BY <1>9 DEF PostbackReadFlag
<1>10. ASSUME NEW b \in Browsers, RepeatPostback(b) PROVE TypeOK'
  BY <1>10 DEF RepeatPostback
<1>11. ASSUME NEW b \in Browsers, Continue(b) PROVE TypeOK'
  <2>1. UNCHANGED <<sessionVars, idpVars, cacheVars, heap>>
    BY <1>11 DEF Continue
  <2>2. ASSUME NEW p \in {"home", "identityForm", "refused"}, AnswerBlank(b, p)
        PROVE  TypeOK'
    BY <2>1, <2>2
  <2>3. ASSUME NEW m \in Models,
               \/ /\ Goto(b, "authn")
                  /\ ref' = [ref EXCEPT ![b] = m]
                  /\ UNCHANGED <<name, tok>>
               \/ Answer(b, "authnForm", heap[m].user, heap[m].token)
        PROVE  TypeOK'
    <3>1. CASE Answer(b, "authnForm", heap[m].user, heap[m].token)
      BY <2>1, <3>1
    <3>2. CASE /\ Goto(b, "authn")
               /\ ref' = [ref EXCEPT ![b] = m]
               /\ UNCHANGED <<name, tok>>
      BY <2>1, <3>2
    <3>3. QED
      BY <2>3, <3>1, <3>2
  <2>4. QED
    BY <1>11, <2>2, <2>3 DEF Continue
<1>12. ASSUME NEW b \in Browsers, AuthnPost(b) PROVE TypeOK'
  <2>1. UNCHANGED <<sessionVars, idpVars, cacheVars, heap>>
    BY <1>12 DEF AuthnPost
  <2>2. PICK n \in Names, t \in Tokens \union {NoToken} :
           \/ /\ Goto(b, "authn")
              /\ name' = [name EXCEPT ![b] = n]
              /\ tok' = [tok EXCEPT ![b] = t]
              /\ UNCHANGED ref
           \/ Answer(b, "authnForm", n, t)
           \/ AnswerBlank(b, "refused")
    BY <1>12 DEF AuthnPost
  <2>3. CASE AnswerBlank(b, "refused")
    BY <2>1, <2>3
  <2>4. CASE Answer(b, "authnForm", n, t)
    BY <2>1, <2>4
  <2>5. CASE /\ Goto(b, "authn")
             /\ name' = [name EXCEPT ![b] = n]
             /\ tok' = [tok EXCEPT ![b] = t]
             /\ UNCHANGED ref
    BY <2>1, <2>5
  <2>6. QED
    BY <2>2, <2>3, <2>4, <2>5
<1>13. ASSUME NEW b \in Browsers, HomeSignOut(b) PROVE TypeOK'
  BY <1>13 DEF HomeSignOut
<1>14. ASSUME NEW b \in Browsers, HomeUnauthorized(b) PROVE TypeOK'
  BY <1>14 DEF HomeUnauthorized
<1>15. ASSUME NEW b \in Browsers, HomeRenew(b) PROVE TypeOK'
  BY <1>15 DEF HomeRenew, NameOf
<1>16. ASSUME NEW b \in Browsers, Logout(b) PROVE TypeOK'
  BY <1>16 DEF Logout
<1>17. ASSUME NEW b \in Browsers, IdentityReplyMfa(b) PROVE TypeOK'
  BY <1>17 DEF IdentityReplyMfa, LocalsInv
<1>18. ASSUME NEW b \in Browsers, IdentityReplyShowAuthn(b) PROVE TypeOK'
  <2>1. UNCHANGED <<sessionVars, idpVars, cacheVars, heap>>
    BY <1>18 DEF IdentityReplyShowAuthn
  <2>2. CASE AnswerBlank(b, "refused")
    BY <2>1, <2>2
  <2>3. CASE Goto(b, "authn") /\ UNCHANGED <<name, tok, ref>>
    BY <2>1, <2>3
  <2>4. QED
    BY <1>18, <2>2, <2>3 DEF IdentityReplyShowAuthn
<1>19. ASSUME NEW b \in Browsers, IdentityReplyOther(b) PROVE TypeOK'
  BY <1>19 DEF IdentityReplyOther
<1>20. ASSUME NEW b \in Browsers, LoginReplyMfa(b) PROVE TypeOK'
  BY <1>20 DEF LoginReplyMfa, LocalsInv
<1>21. ASSUME NEW b \in Browsers, LoginReplyChangePassword(b) PROVE TypeOK'
  BY <1>21 DEF LoginReplyChangePassword, LocalsInv
<1>22. ASSUME NEW b \in Browsers, LoginReplyOther(b) PROVE TypeOK'
  BY <1>22 DEF LoginReplyOther
<1>23. ASSUME NEW b \in Browsers, DropFlag(b) PROVE TypeOK'
  BY <1>23 DEF DropFlag, LocalsInv
<1>24. ASSUME NEW b \in Browsers, LoginCompleted(b) PROVE TypeOK'
  <2>1. UNCHANGED <<sessionVars, idpVars, cacheVars, heap>>
    BY <1>24 DEF LoginCompleted
  <2>2. ASSUME NEW p \in {"refused", "start"}, AnswerBlank(b, p) PROVE TypeOK'
    BY <2>1, <2>2
  <2>3. CASE ~\E p \in {"refused", "start"} : AnswerBlank(b, p)
    <3>1. tok[b] \in Tokens /\ NameOf(tok[b]) \in Names
      BY <1>24, <2>3 DEF LoginCompleted, NameOf, LocalsInv, TokensInv, Issued
    <3>2. QED
      BY <1>24, <2>1, <2>3, <3>1 DEF LoginCompleted
  <2>4. QED
    BY <2>2, <2>3
<1>25. ASSUME NEW b \in Browsers, DropPending(b) PROVE TypeOK'
  BY <1>25 DEF DropPending, LocalsInv
<1>26. ASSUME NEW b \in Browsers, Bind(b) PROVE TypeOK'
  BY <1>26 DEF Bind, Unreferenced, LocalsInv
<1>27. ASSUME NEW b \in Browsers, AuthnRefused(b) PROVE TypeOK'
  BY <1>27 DEF AuthnRefused, TokenOf, UserOf, RefsInv
<1>28. ASSUME NEW b \in Browsers, AuthnVerified(b) PROVE TypeOK'
  BY <1>28 DEF AuthnVerified, UserOf, LocalsInv, RefsInv
<1>29. ASSUME NEW b \in Browsers, AuthnThrows(b) PROVE TypeOK'
  BY <1>29 DEF AuthnThrows
<1>30. ASSUME NEW b \in Browsers, AuthnSession(b) PROVE TypeOK'
  <2>1. UNCHANGED <<sessionVars, idpVars, cacheVars, heap>>
    BY <1>30 DEF AuthnSession
  <2>2. CASE AnswerBlank(b, "refused")
    BY <2>1, <2>2
  <2>3. CASE ~AnswerBlank(b, "refused")
    <3>1. TokenOf(b) \in Tokens \union {NoToken}
      BY DEF TokenOf
    <3>2. QED
      BY <1>30, <2>1, <2>3, <3>1 DEF AuthnSession
  <2>4. QED
    BY <2>2, <2>3
<1>31. ASSUME NEW b \in Browsers, SessionGranted(b) PROVE TypeOK'
  BY <1>31 DEF SessionGranted, SetSession, LocalsInv
<1>32. ASSUME NEW b \in Browsers, SessionGrantedQuiet(b) PROVE TypeOK'
  BY <1>32 DEF SessionGrantedQuiet, SetSession, LocalsInv
<1>33. ASSUME NEW b \in Browsers, SessionNotSet(b) PROVE TypeOK'
  <2>1. UNCHANGED <<sessionVars, idpVars, cacheVars, heap>>
    BY <1>33 DEF SessionNotSet
  <2>2. PICK p \in {"refused", "home", "renew"} : AnswerBlank(b, p)
    BY <1>33 DEF SessionNotSet
  <2>3. QED
    BY <2>1, <2>2
<1>34. ASSUME NEW t \in Tokens, RevokeToken(t) PROVE TypeOK'
  BY <1>34 DEF RevokeToken
<1>35. ASSUME NEW t \in Tokens, ExpireEntry(t) PROVE TypeOK'
  BY <1>35 DEF ExpireEntry
<1>36. ASSUME NEW n \in Names, ExpireFlag(n) PROVE TypeOK'
  BY <1>36 DEF ExpireFlag
<1>37. ASSUME NEW n \in Names, ExpirePending(n) PROVE TypeOK'
  BY <1>37 DEF ExpirePending
<1>38. ASSUME NEW n \in Names, ExpireRenewal(n) PROVE TypeOK'
  BY <1>38 DEF ExpireRenewal
<1>39. ASSUME Restart PROVE TypeOK'
  BY <1>39 DEF Restart, EmptyModel
<1>40. ASSUME UNCHANGED vars PROVE TypeOK'
  BY <1>40 DEF vars
<1>41. QED
  BY <1>1, <1>2, <1>3, <1>4, <1>5, <1>6, <1>7, <1>8, <1>9, <1>10, <1>11,
     <1>12, <1>13, <1>14, <1>15, <1>16, <1>17, <1>18, <1>19, <1>20, <1>21,
     <1>22, <1>23, <1>24, <1>25, <1>26, <1>27, <1>28, <1>29, <1>30, <1>31,
     <1>32, <1>33, <1>34, <1>35, <1>36, <1>37, <1>38, <1>39, <1>40 DEF Next,
     Handle, Browse, Environment

(* Tokens stay issued to whom they were issued.                            *)
LEMMA TokensStep == ASSUME IInv, [Next]_vars PROVE TokensInv'
<1> USE SignInAssumption DEF IInv, TypeOK, Answer, AnswerBlank, Goto,
   browserVars, sessionVars, idpVars, cacheVars, TokensInv, Issued,
   LocalsInv, ModelsInv, RefsInv
<1>1. ASSUME NEW b \in Browsers, OpenIdentity(b) PROVE TokensInv'
  BY <1>1 DEF OpenIdentity
<1>2. ASSUME NEW b \in Browsers, OpenLogin(b) PROVE TokensInv'
  BY <1>2 DEF OpenLogin
<1>3. ASSUME NEW b \in Browsers, OpenLoginWindows(b) PROVE TokensInv'
  BY <1>3 DEF OpenLoginWindows
<1>4. ASSUME NEW b \in Browsers, Leave(b) PROVE TokensInv'
  BY <1>4 DEF Leave
<1>5. ASSUME NEW b \in Browsers, IdentityPost(b) PROVE TokensInv'
  BY <1>5 DEF IdentityPost, Unreferenced
<1>6. ASSUME NEW b \in Browsers, LoginPost(b) PROVE TokensInv'
  BY <1>6 DEF LoginPost
<1>7. ASSUME NEW b \in Browsers, PassMfa(b) PROVE TokensInv'
  BY <1>7 DEF PassMfa, Accounts
<1>8. ASSUME NEW b \in Browsers, PostbackAuthenticate(b) PROVE TokensInv'
  BY <1>8 DEF PostbackAuthenticate
<1>9. ASSUME NEW b \in Browsers, PostbackReadFlag(b) PROVE TokensInv'
  BY <1>9 DEF PostbackReadFlag
<1>10. ASSUME NEW b \in Browsers, RepeatPostback(b) PROVE TokensInv'
  BY <1>10 DEF RepeatPostback
<1>11. ASSUME NEW b \in Browsers, Continue(b) PROVE TokensInv'
  BY <1>11 DEF Continue
<1>12. ASSUME NEW b \in Browsers, AuthnPost(b) PROVE TokensInv'
  BY <1>12 DEF AuthnPost
<1>13. ASSUME NEW b \in Browsers, HomeSignOut(b) PROVE TokensInv'
  BY <1>13 DEF HomeSignOut
<1>14. ASSUME NEW b \in Browsers, HomeUnauthorized(b) PROVE TokensInv'
  BY <1>14 DEF HomeUnauthorized
<1>15. ASSUME NEW b \in Browsers, HomeRenew(b) PROVE TokensInv'
  BY <1>15 DEF HomeRenew, NameOf
<1>16. ASSUME NEW b \in Browsers, Logout(b) PROVE TokensInv'
  BY <1>16 DEF Logout
<1>17. ASSUME NEW b \in Browsers, IdentityReplyMfa(b) PROVE TokensInv'
  BY <1>17 DEF IdentityReplyMfa
<1>18. ASSUME NEW b \in Browsers, IdentityReplyShowAuthn(b) PROVE TokensInv'
  BY <1>18 DEF IdentityReplyShowAuthn
<1>19. ASSUME NEW b \in Browsers, IdentityReplyOther(b) PROVE TokensInv'
  BY <1>19 DEF IdentityReplyOther
<1>20. ASSUME NEW b \in Browsers, LoginReplyMfa(b) PROVE TokensInv'
  BY <1>20 DEF LoginReplyMfa
<1>21. ASSUME NEW b \in Browsers, LoginReplyChangePassword(b) PROVE TokensInv'
  BY <1>21 DEF LoginReplyChangePassword
<1>22. ASSUME NEW b \in Browsers, LoginReplyOther(b) PROVE TokensInv'
  BY <1>22 DEF LoginReplyOther
<1>23. ASSUME NEW b \in Browsers, DropFlag(b) PROVE TokensInv'
  BY <1>23 DEF DropFlag
<1>24. ASSUME NEW b \in Browsers, LoginCompleted(b) PROVE TokensInv'
  BY <1>24 DEF LoginCompleted, NameOf
<1>25. ASSUME NEW b \in Browsers, DropPending(b) PROVE TokensInv'
  BY <1>25 DEF DropPending
<1>26. ASSUME NEW b \in Browsers, Bind(b) PROVE TokensInv'
  BY <1>26 DEF Bind, Unreferenced
<1>27. ASSUME NEW b \in Browsers, AuthnRefused(b) PROVE TokensInv'
  BY <1>27 DEF AuthnRefused, TokenOf, UserOf
<1>28. ASSUME NEW b \in Browsers, AuthnVerified(b) PROVE TokensInv'
  BY <1>28 DEF AuthnVerified, UserOf
<1>29. ASSUME NEW b \in Browsers, AuthnThrows(b) PROVE TokensInv'
  BY <1>29 DEF AuthnThrows
<1>30. ASSUME NEW b \in Browsers, AuthnSession(b) PROVE TokensInv'
  BY <1>30 DEF AuthnSession, TokenOf
<1>31. ASSUME NEW b \in Browsers, SessionGranted(b) PROVE TokensInv'
  BY <1>31 DEF SessionGranted, SetSession
<1>32. ASSUME NEW b \in Browsers, SessionGrantedQuiet(b) PROVE TokensInv'
  BY <1>32 DEF SessionGrantedQuiet, SetSession
<1>33. ASSUME NEW b \in Browsers, SessionNotSet(b) PROVE TokensInv'
  BY <1>33 DEF SessionNotSet
<1>34. ASSUME NEW t \in Tokens, RevokeToken(t) PROVE TokensInv'
  BY <1>34 DEF RevokeToken
<1>35. ASSUME NEW t \in Tokens, ExpireEntry(t) PROVE TokensInv'
  BY <1>35 DEF ExpireEntry
<1>36. ASSUME NEW n \in Names, ExpireFlag(n) PROVE TokensInv'
  BY <1>36 DEF ExpireFlag
<1>37. ASSUME NEW n \in Names, ExpirePending(n) PROVE TokensInv'
  BY <1>37 DEF ExpirePending
<1>38. ASSUME NEW n \in Names, ExpireRenewal(n) PROVE TokensInv'
  BY <1>38 DEF ExpireRenewal
<1>39. ASSUME Restart PROVE TokensInv'
  BY <1>39 DEF Restart, EmptyModel
<1>40. ASSUME UNCHANGED vars PROVE TokensInv'
  BY <1>40 DEF vars
<1>41. QED
  BY <1>1, <1>2, <1>3, <1>4, <1>5, <1>6, <1>7, <1>8, <1>9, <1>10, <1>11,
     <1>12, <1>13, <1>14, <1>15, <1>16, <1>17, <1>18, <1>19, <1>20, <1>21,
     <1>22, <1>23, <1>24, <1>25, <1>26, <1>27, <1>28, <1>29, <1>30, <1>31,
     <1>32, <1>33, <1>34, <1>35, <1>36, <1>37, <1>38, <1>39, <1>40 DEF Next,
     Handle, Browse, Environment

(* A cached model keeps naming the user of the name or of the request id   *)
(* it is cached under, although models are shared and change in place.     *)
LEMMA ModelsStep == ASSUME IInv, [Next]_vars PROVE ModelsInv'
<1> USE SignInAssumption DEF IInv, TypeOK, Answer, AnswerBlank, Goto,
   browserVars, sessionVars, idpVars, cacheVars, TokensInv, Issued,
   LocalsInv, ModelsInv, RefsInv, Accounts, ModelRecord
<1>1. ASSUME NEW b \in Browsers, OpenIdentity(b) PROVE ModelsInv'
  BY <1>1 DEF OpenIdentity
<1>2. ASSUME NEW b \in Browsers, OpenLogin(b) PROVE ModelsInv'
  BY <1>2 DEF OpenLogin
<1>3. ASSUME NEW b \in Browsers, OpenLoginWindows(b) PROVE ModelsInv'
  BY <1>3 DEF OpenLoginWindows
<1>4. ASSUME NEW b \in Browsers, Leave(b) PROVE ModelsInv'
  BY <1>4 DEF Leave
<1>5. ASSUME NEW b \in Browsers, IdentityPost(b) PROVE ModelsInv'
  BY <1>5 DEF IdentityPost, Unreferenced
<1>6. ASSUME NEW b \in Browsers, LoginPost(b) PROVE ModelsInv'
  BY <1>6 DEF LoginPost
<1>7. ASSUME NEW b \in Browsers, PassMfa(b) PROVE ModelsInv'
  BY <1>7 DEF PassMfa
<1>8. ASSUME NEW b \in Browsers, PostbackAuthenticate(b) PROVE ModelsInv'
  BY <1>8 DEF PostbackAuthenticate
<1>9. ASSUME NEW b \in Browsers, PostbackReadFlag(b) PROVE ModelsInv'
  BY <1>9 DEF PostbackReadFlag
<1>10. ASSUME NEW b \in Browsers, RepeatPostback(b) PROVE ModelsInv'
  BY <1>10 DEF RepeatPostback
<1>11. ASSUME NEW b \in Browsers, Continue(b) PROVE ModelsInv'
  BY <1>11 DEF Continue
<1>12. ASSUME NEW b \in Browsers, AuthnPost(b) PROVE ModelsInv'
  BY <1>12 DEF AuthnPost
<1>13. ASSUME NEW b \in Browsers, HomeSignOut(b) PROVE ModelsInv'
  BY <1>13 DEF HomeSignOut
<1>14. ASSUME NEW b \in Browsers, HomeUnauthorized(b) PROVE ModelsInv'
  BY <1>14 DEF HomeUnauthorized
<1>15. ASSUME NEW b \in Browsers, HomeRenew(b) PROVE ModelsInv'
  BY <1>15 DEF HomeRenew, NameOf
<1>16. ASSUME NEW b \in Browsers, Logout(b) PROVE ModelsInv'
  BY <1>16 DEF Logout
<1>17. ASSUME NEW b \in Browsers, IdentityReplyMfa(b) PROVE ModelsInv'
  BY <1>17 DEF IdentityReplyMfa
<1>18. ASSUME NEW b \in Browsers, IdentityReplyShowAuthn(b) PROVE ModelsInv'
  BY <1>18 DEF IdentityReplyShowAuthn
<1>19. ASSUME NEW b \in Browsers, IdentityReplyOther(b) PROVE ModelsInv'
  BY <1>19 DEF IdentityReplyOther
<1>20. ASSUME NEW b \in Browsers, LoginReplyMfa(b) PROVE ModelsInv'
  BY <1>20 DEF LoginReplyMfa
<1>21. ASSUME NEW b \in Browsers, LoginReplyChangePassword(b) PROVE ModelsInv'
  BY <1>21 DEF LoginReplyChangePassword
<1>22. ASSUME NEW b \in Browsers, LoginReplyOther(b) PROVE ModelsInv'
  BY <1>22 DEF LoginReplyOther
<1>23. ASSUME NEW b \in Browsers, DropFlag(b) PROVE ModelsInv'
  BY <1>23 DEF DropFlag
<1>24. ASSUME NEW b \in Browsers, LoginCompleted(b) PROVE ModelsInv'
  BY <1>24 DEF LoginCompleted, NameOf
<1>25. ASSUME NEW b \in Browsers, DropPending(b) PROVE ModelsInv'
  BY <1>25 DEF DropPending
<1>26. ASSUME NEW b \in Browsers, Bind(b) PROVE ModelsInv'
  BY <1>26 DEF Bind, Unreferenced
<1>27. ASSUME NEW b \in Browsers, AuthnRefused(b) PROVE ModelsInv'
  BY <1>27 DEF AuthnRefused, TokenOf, UserOf
<1>28. ASSUME NEW b \in Browsers, AuthnVerified(b) PROVE ModelsInv'
  BY <1>28 DEF AuthnVerified, UserOf
<1>29. ASSUME NEW b \in Browsers, AuthnThrows(b) PROVE ModelsInv'
  BY <1>29 DEF AuthnThrows
<1>30. ASSUME NEW b \in Browsers, AuthnSession(b) PROVE ModelsInv'
  BY <1>30 DEF AuthnSession, TokenOf
<1>31. ASSUME NEW b \in Browsers, SessionGranted(b) PROVE ModelsInv'
  BY <1>31 DEF SessionGranted, SetSession
<1>32. ASSUME NEW b \in Browsers, SessionGrantedQuiet(b) PROVE ModelsInv'
  BY <1>32 DEF SessionGrantedQuiet, SetSession
<1>33. ASSUME NEW b \in Browsers, SessionNotSet(b) PROVE ModelsInv'
  BY <1>33 DEF SessionNotSet
<1>34. ASSUME NEW t \in Tokens, RevokeToken(t) PROVE ModelsInv'
  BY <1>34 DEF RevokeToken
<1>35. ASSUME NEW t \in Tokens, ExpireEntry(t) PROVE ModelsInv'
  BY <1>35 DEF ExpireEntry
<1>36. ASSUME NEW n \in Names, ExpireFlag(n) PROVE ModelsInv'
  BY <1>36 DEF ExpireFlag
<1>37. ASSUME NEW n \in Names, ExpirePending(n) PROVE ModelsInv'
  BY <1>37 DEF ExpirePending
<1>38. ASSUME NEW n \in Names, ExpireRenewal(n) PROVE ModelsInv'
  BY <1>38 DEF ExpireRenewal
<1>39. ASSUME Restart PROVE ModelsInv'
  BY <1>39 DEF Restart, EmptyModel, EmptyModel
<1>40. ASSUME UNCHANGED vars PROVE ModelsInv'
  BY <1>40 DEF vars
<1>41. QED
  BY <1>1, <1>2, <1>3, <1>4, <1>5, <1>6, <1>7, <1>8, <1>9, <1>10, <1>11,
     <1>12, <1>13, <1>14, <1>15, <1>16, <1>17, <1>18, <1>19, <1>20, <1>21,
     <1>22, <1>23, <1>24, <1>25, <1>26, <1>27, <1>28, <1>29, <1>30, <1>31,
     <1>32, <1>33, <1>34, <1>35, <1>36, <1>37, <1>38, <1>39, <1>40 DEF Next,
     Handle, Browse, Environment

(* A model a request holds stays the model of the request's user.          *)
LEMMA RefsStep == ASSUME IInv, [Next]_vars PROVE RefsInv'
<1> USE SignInAssumption DEF IInv, TypeOK, Answer, AnswerBlank, Goto,
   browserVars, sessionVars, idpVars, cacheVars, TokensInv, Issued,
   LocalsInv, ModelsInv, RefsInv, Accounts, ModelRecord, InFlight
<1>1. ASSUME NEW b \in Browsers, OpenIdentity(b) PROVE RefsInv'
  BY <1>1 DEF OpenIdentity
<1>2. ASSUME NEW b \in Browsers, OpenLogin(b) PROVE RefsInv'
  BY <1>2 DEF OpenLogin
<1>3. ASSUME NEW b \in Browsers, OpenLoginWindows(b) PROVE RefsInv'
  BY <1>3 DEF OpenLoginWindows
<1>4. ASSUME NEW b \in Browsers, Leave(b) PROVE RefsInv'
  BY <1>4 DEF Leave
<1>5. ASSUME NEW b \in Browsers, IdentityPost(b) PROVE RefsInv'
  BY <1>5 DEF IdentityPost, Unreferenced
<1>6. ASSUME NEW b \in Browsers, LoginPost(b) PROVE RefsInv'
  BY <1>6 DEF LoginPost
<1>7. ASSUME NEW b \in Browsers, PassMfa(b) PROVE RefsInv'
  BY <1>7 DEF PassMfa
<1>8. ASSUME NEW b \in Browsers, PostbackAuthenticate(b) PROVE RefsInv'
  BY <1>8 DEF PostbackAuthenticate
<1>9. ASSUME NEW b \in Browsers, PostbackReadFlag(b) PROVE RefsInv'
  BY <1>9 DEF PostbackReadFlag
<1>10. ASSUME NEW b \in Browsers, RepeatPostback(b) PROVE RefsInv'
  BY <1>10 DEF RepeatPostback
<1>11. ASSUME NEW b \in Browsers, Continue(b) PROVE RefsInv'
  BY <1>11 DEF Continue
<1>12. ASSUME NEW b \in Browsers, AuthnPost(b) PROVE RefsInv'
  BY <1>12 DEF AuthnPost
<1>13. ASSUME NEW b \in Browsers, HomeSignOut(b) PROVE RefsInv'
  BY <1>13 DEF HomeSignOut
<1>14. ASSUME NEW b \in Browsers, HomeUnauthorized(b) PROVE RefsInv'
  BY <1>14 DEF HomeUnauthorized
<1>15. ASSUME NEW b \in Browsers, HomeRenew(b) PROVE RefsInv'
  BY <1>15 DEF HomeRenew, NameOf
<1>16. ASSUME NEW b \in Browsers, Logout(b) PROVE RefsInv'
  BY <1>16 DEF Logout
<1>17. ASSUME NEW b \in Browsers, IdentityReplyMfa(b) PROVE RefsInv'
  BY <1>17 DEF IdentityReplyMfa
<1>18. ASSUME NEW b \in Browsers, IdentityReplyShowAuthn(b) PROVE RefsInv'
  BY <1>18 DEF IdentityReplyShowAuthn
<1>19. ASSUME NEW b \in Browsers, IdentityReplyOther(b) PROVE RefsInv'
  BY <1>19 DEF IdentityReplyOther
<1>20. ASSUME NEW b \in Browsers, LoginReplyMfa(b) PROVE RefsInv'
  BY <1>20 DEF LoginReplyMfa
<1>21. ASSUME NEW b \in Browsers, LoginReplyChangePassword(b) PROVE RefsInv'
  BY <1>21 DEF LoginReplyChangePassword
<1>22. ASSUME NEW b \in Browsers, LoginReplyOther(b) PROVE RefsInv'
  BY <1>22 DEF LoginReplyOther
<1>23. ASSUME NEW b \in Browsers, DropFlag(b) PROVE RefsInv'
  BY <1>23 DEF DropFlag
<1>24. ASSUME NEW b \in Browsers, LoginCompleted(b) PROVE RefsInv'
  BY <1>24 DEF LoginCompleted, NameOf
<1>25. ASSUME NEW b \in Browsers, DropPending(b) PROVE RefsInv'
  BY <1>25 DEF DropPending
<1>26. ASSUME NEW b \in Browsers, Bind(b) PROVE RefsInv'
  BY <1>26 DEF Bind, Unreferenced
<1>27. ASSUME NEW b \in Browsers, AuthnRefused(b) PROVE RefsInv'
  BY <1>27 DEF AuthnRefused, TokenOf, UserOf
<1>28. ASSUME NEW b \in Browsers, AuthnVerified(b) PROVE RefsInv'
  BY <1>28 DEF AuthnVerified, UserOf
<1>29. ASSUME NEW b \in Browsers, AuthnThrows(b) PROVE RefsInv'
  BY <1>29 DEF AuthnThrows
<1>30. ASSUME NEW b \in Browsers, AuthnSession(b) PROVE RefsInv'
  BY <1>30 DEF AuthnSession, TokenOf
<1>31. ASSUME NEW b \in Browsers, SessionGranted(b) PROVE RefsInv'
  BY <1>31 DEF SessionGranted, SetSession
<1>32. ASSUME NEW b \in Browsers, SessionGrantedQuiet(b) PROVE RefsInv'
  BY <1>32 DEF SessionGrantedQuiet, SetSession
<1>33. ASSUME NEW b \in Browsers, SessionNotSet(b) PROVE RefsInv'
  BY <1>33 DEF SessionNotSet
<1>34. ASSUME NEW t \in Tokens, RevokeToken(t) PROVE RefsInv'
  BY <1>34 DEF RevokeToken
<1>35. ASSUME NEW t \in Tokens, ExpireEntry(t) PROVE RefsInv'
  BY <1>35 DEF ExpireEntry
<1>36. ASSUME NEW n \in Names, ExpireFlag(n) PROVE RefsInv'
  BY <1>36 DEF ExpireFlag
<1>37. ASSUME NEW n \in Names, ExpirePending(n) PROVE RefsInv'
  BY <1>37 DEF ExpirePending
<1>38. ASSUME NEW n \in Names, ExpireRenewal(n) PROVE RefsInv'
  BY <1>38 DEF ExpireRenewal
<1>39. ASSUME Restart PROVE RefsInv'
  BY <1>39 DEF Restart, EmptyModel
<1>40. ASSUME UNCHANGED vars PROVE RefsInv'
  BY <1>40 DEF vars
<1>41. QED
  BY <1>1, <1>2, <1>3, <1>4, <1>5, <1>6, <1>7, <1>8, <1>9, <1>10, <1>11,
     <1>12, <1>13, <1>14, <1>15, <1>16, <1>17, <1>18, <1>19, <1>20, <1>21,
     <1>22, <1>23, <1>24, <1>25, <1>26, <1>27, <1>28, <1>29, <1>30, <1>31,
     <1>32, <1>33, <1>34, <1>35, <1>36, <1>37, <1>38, <1>39, <1>40 DEF Next,
     Handle, Browse, Environment

(* What a page or a request knows of its user and token stays true.        *)
LEMMA LocalsStep == ASSUME IInv, [Next]_vars PROVE LocalsInv'
<1> USE SignInAssumption DEF IInv, TypeOK, Answer, AnswerBlank, Goto,
   browserVars, sessionVars, idpVars, cacheVars, TokensInv, Issued,
   LocalsInv, ModelsInv, RefsInv, Accounts, ModelRecord, InFlight
<1>1. ASSUME NEW b \in Browsers, OpenIdentity(b) PROVE LocalsInv'
  BY <1>1 DEF OpenIdentity
<1>2. ASSUME NEW b \in Browsers, OpenLogin(b) PROVE LocalsInv'
  BY <1>2 DEF OpenLogin
<1>3. ASSUME NEW b \in Browsers, OpenLoginWindows(b) PROVE LocalsInv'
  BY <1>3 DEF OpenLoginWindows
<1>4. ASSUME NEW b \in Browsers, Leave(b) PROVE LocalsInv'
  BY <1>4 DEF Leave
<1>5. ASSUME NEW b \in Browsers, IdentityPost(b) PROVE LocalsInv'
  BY <1>5 DEF IdentityPost, Unreferenced
<1>6. ASSUME NEW b \in Browsers, LoginPost(b) PROVE LocalsInv'
  BY <1>6 DEF LoginPost
<1>7. ASSUME NEW b \in Browsers, PassMfa(b) PROVE LocalsInv'
  BY <1>7 DEF PassMfa
<1>8. ASSUME NEW b \in Browsers, PostbackAuthenticate(b) PROVE LocalsInv'
  BY <1>8 DEF PostbackAuthenticate
<1>9. ASSUME NEW b \in Browsers, PostbackReadFlag(b) PROVE LocalsInv'
  BY <1>9 DEF PostbackReadFlag
<1>10. ASSUME NEW b \in Browsers, RepeatPostback(b) PROVE LocalsInv'
  BY <1>10 DEF RepeatPostback
<1>11. ASSUME NEW b \in Browsers, Continue(b) PROVE LocalsInv'
  BY <1>11 DEF Continue
<1>12. ASSUME NEW b \in Browsers, AuthnPost(b) PROVE LocalsInv'
  BY <1>12 DEF AuthnPost
<1>13. ASSUME NEW b \in Browsers, HomeSignOut(b) PROVE LocalsInv'
  BY <1>13 DEF HomeSignOut
<1>14. ASSUME NEW b \in Browsers, HomeUnauthorized(b) PROVE LocalsInv'
  BY <1>14 DEF HomeUnauthorized
<1>15. ASSUME NEW b \in Browsers, HomeRenew(b) PROVE LocalsInv'
  BY <1>15 DEF HomeRenew, NameOf
<1>16. ASSUME NEW b \in Browsers, Logout(b) PROVE LocalsInv'
  BY <1>16 DEF Logout
<1>17. ASSUME NEW b \in Browsers, IdentityReplyMfa(b) PROVE LocalsInv'
  BY <1>17 DEF IdentityReplyMfa
<1>18. ASSUME NEW b \in Browsers, IdentityReplyShowAuthn(b) PROVE LocalsInv'
  BY <1>18 DEF IdentityReplyShowAuthn
<1>19. ASSUME NEW b \in Browsers, IdentityReplyOther(b) PROVE LocalsInv'
  BY <1>19 DEF IdentityReplyOther
<1>20. ASSUME NEW b \in Browsers, LoginReplyMfa(b) PROVE LocalsInv'
  BY <1>20 DEF LoginReplyMfa
<1>21. ASSUME NEW b \in Browsers, LoginReplyChangePassword(b) PROVE LocalsInv'
  BY <1>21 DEF LoginReplyChangePassword
<1>22. ASSUME NEW b \in Browsers, LoginReplyOther(b) PROVE LocalsInv'
  BY <1>22 DEF LoginReplyOther
<1>23. ASSUME NEW b \in Browsers, DropFlag(b) PROVE LocalsInv'
  BY <1>23 DEF DropFlag
<1>24. ASSUME NEW b \in Browsers, LoginCompleted(b) PROVE LocalsInv'
  BY <1>24 DEF LoginCompleted, NameOf
<1>25. ASSUME NEW b \in Browsers, DropPending(b) PROVE LocalsInv'
  BY <1>25 DEF DropPending
<1>26. ASSUME NEW b \in Browsers, Bind(b) PROVE LocalsInv'
  BY <1>26 DEF Bind, Unreferenced
<1>27. ASSUME NEW b \in Browsers, AuthnRefused(b) PROVE LocalsInv'
  BY <1>27 DEF AuthnRefused, TokenOf, UserOf
<1>28. ASSUME NEW b \in Browsers, AuthnVerified(b) PROVE LocalsInv'
  BY <1>28 DEF AuthnVerified, UserOf
<1>29. ASSUME NEW b \in Browsers, AuthnThrows(b) PROVE LocalsInv'
  BY <1>29 DEF AuthnThrows
<1>30. ASSUME NEW b \in Browsers, AuthnSession(b) PROVE LocalsInv'
  BY <1>30 DEF AuthnSession, TokenOf
<1>31. ASSUME NEW b \in Browsers, SessionGranted(b) PROVE LocalsInv'
  BY <1>31 DEF SessionGranted, SetSession
<1>32. ASSUME NEW b \in Browsers, SessionGrantedQuiet(b) PROVE LocalsInv'
  BY <1>32 DEF SessionGrantedQuiet, SetSession
<1>33. ASSUME NEW b \in Browsers, SessionNotSet(b) PROVE LocalsInv'
  BY <1>33 DEF SessionNotSet
<1>34. ASSUME NEW t \in Tokens, RevokeToken(t) PROVE LocalsInv'
  BY <1>34 DEF RevokeToken
<1>35. ASSUME NEW t \in Tokens, ExpireEntry(t) PROVE LocalsInv'
  BY <1>35 DEF ExpireEntry
<1>36. ASSUME NEW n \in Names, ExpireFlag(n) PROVE LocalsInv'
  BY <1>36 DEF ExpireFlag
<1>37. ASSUME NEW n \in Names, ExpirePending(n) PROVE LocalsInv'
  BY <1>37 DEF ExpirePending
<1>38. ASSUME NEW n \in Names, ExpireRenewal(n) PROVE LocalsInv'
  BY <1>38 DEF ExpireRenewal
<1>39. ASSUME Restart PROVE LocalsInv'
  BY <1>39 DEF Restart, EmptyModel
<1>40. ASSUME UNCHANGED vars PROVE LocalsInv'
  BY <1>40 DEF vars
<1>41. QED
  BY <1>1, <1>2, <1>3, <1>4, <1>5, <1>6, <1>7, <1>8, <1>9, <1>10, <1>11,
     <1>12, <1>13, <1>14, <1>15, <1>16, <1>17, <1>18, <1>19, <1>20, <1>21,
     <1>22, <1>23, <1>24, <1>25, <1>26, <1>27, <1>28, <1>29, <1>30, <1>31,
     <1>32, <1>33, <1>34, <1>35, <1>36, <1>37, <1>38, <1>39, <1>40 DEF Next,
     Handle, Browse, Environment

-----------------------------------------------------------------------------
(* The identity behind an account is the account itself. *)
LEMMA AccountFixed == \A u \in Accounts : u \in Names /\ Account[u] = u
BY SignInAssumption DEF Accounts

(* Every name has an account behind it. *)
LEMMA AccountOf == \A n \in Names : Account[n] \in Accounts
BY DEF Accounts

(* A step that vouches for nobody new, issues no token and sets no session. *)
Forgets == Vouched' \subseteq Vouched /\ UNCHANGED <<owner, cookie>>

Maps == (FormsUnchanged => TF!Next) /\ VouchedByPassword

(* A step that forgets is one of TwoFactorSession and vouches for nobody. *)
LEMMA ForgetsMaps == ASSUME Forgets PROVE Maps
BY DEF Forgets, VouchedByPassword, Maps, TF!Next, TF!Forget

(* So is one that vouches for the same users as before. *)
LEMMA SameVouched == ASSUME Vouched' = Vouched PROVE VouchedByPassword
BY DEF VouchedByPassword

(* Every step of the portal is a step of TwoFactorSession, if forms come    *)
(* back unchanged: passwords are verified and forgotten, tokens issued,     *)
(* sessions set and dropped.  Who is vouched for does not depend on that.   *)
LEMMA RefinementStep ==
    ASSUME IInv, [Next]_vars PROVE Maps \/ UNCHANGED <<TF!vars, Vouched>>
<1> USE SignInAssumption, AccountFixed DEF IInv, TypeOK, Answer,
   AnswerBlank, Goto, browserVars, sessionVars, idpVars, cacheVars,
   LocalsInv, TokensInv, Issued, Vouched, VouchedFor
<1>1. ASSUME NEW b \in Browsers, OpenIdentity(b) PROVE Maps
  <2>1. Forgets
    BY <1>1 DEF Forgets, OpenIdentity
  <2>2. QED
    BY <2>1, ForgetsMaps
<1>2. ASSUME NEW b \in Browsers, OpenLogin(b) PROVE Maps
  <2>1. Forgets
    BY <1>2 DEF Forgets, OpenLogin
  <2>2. QED
    BY <2>1, ForgetsMaps
<1>3. ASSUME NEW b \in Browsers, OpenLoginWindows(b) PROVE Maps
  <2>1. UNCHANGED <<owner, cookie>>
    BY <1>3 DEF OpenLoginWindows
  <2>2. CASE AnswerBlank(b, "refused")
    <3>1. Forgets
      BY <1>3, <2>1, <2>2 DEF Forgets, OpenLoginWindows
    <3>2. QED
      BY <3>1, ForgetsMaps
  <2>3. ASSUME NEW n \in Names, Answer(b, "mfa", n, NoToken)
        PROVE  Maps
    <3>1. Account[n] \in Accounts /\ Vouched' = Vouched \union {Account[n]}
      BY <1>3, <2>3, AccountOf DEF OpenLoginWindows
    <3>2. VouchedByPassword
      BY <1>3, <2>3, <3>1 DEF OpenLoginWindows, VouchedByPassword
    <3>3. QED
      BY <2>1, <3>1, <3>2 DEF Maps, TF!Next, TF!VerifyPassword
  <2>4. QED
    BY <1>3, <2>2, <2>3 DEF OpenLoginWindows
<1>4. ASSUME NEW b \in Browsers, Leave(b) PROVE Maps
  <2>1. Forgets
    BY <1>4 DEF Forgets, Leave
  <2>2. QED
    BY <2>1, ForgetsMaps
<1>5. ASSUME NEW b \in Browsers, IdentityPost(b) PROVE Maps
  <2>1. Forgets
    BY <1>5 DEF Forgets, IdentityPost, Unreferenced
  <2>2. QED
    BY <2>1, ForgetsMaps
<1>6. ASSUME NEW b \in Browsers, LoginPost(b) PROVE Maps
  <2>1. UNCHANGED <<owner, cookie>>
    BY <1>6 DEF LoginPost
  <2>2. CASE AnswerBlank(b, "loginForm")
    <3>1. Forgets
      BY <1>6, <2>1, <2>2 DEF Forgets, LoginPost
    <3>2. QED
      BY <3>1, ForgetsMaps
  <2>3. ASSUME NEW n \in Names, Answer(b, "loginReply", n, NoToken)
        PROVE  Maps
    <3>1. Account[n] \in Accounts /\ Vouched' = Vouched \union {Account[n]}
      BY <1>6, <2>3, AccountOf DEF LoginPost
    <3>2. VouchedByPassword
      BY <1>6, <2>3, <3>1 DEF LoginPost, VouchedByPassword
    <3>3. QED
      BY <2>1, <3>1, <3>2 DEF Maps, TF!Next, TF!VerifyPassword
  <2>4. QED
    BY <1>6, <2>2, <2>3 DEF LoginPost
<1>7. ASSUME NEW b \in Browsers, PassMfa(b) PROVE Maps
  <2>1. PICK t \in Tokens : /\ ~Issued(t)
                            /\ owner' = [owner EXCEPT ![t] = Account[name[b]]]
                            /\ Answer(b, "postback", NoName, t)
    BY <1>7 DEF PassMfa
  <2>2. name[b] \in Names /\ Account[name[b]] \in Accounts
    BY <1>7, AccountOf DEF PassMfa
  <2>3. Vouched' = Vouched
    BY <1>7, <2>1, <2>2 DEF PassMfa
  <2>4. cookie' = cookie
    BY <1>7 DEF PassMfa
  <2>5. QED
    BY <2>1, <2>2, <2>3, <2>4, SameVouched DEF Maps, TF!Next, TF!PassSecondFactor
<1>8. ASSUME NEW b \in Browsers, PostbackAuthenticate(b) PROVE Maps
  <2>1. Forgets
    BY <1>8 DEF Forgets, PostbackAuthenticate
  <2>2. QED
    BY <2>1, ForgetsMaps
<1>9. ASSUME NEW b \in Browsers, PostbackReadFlag(b) PROVE Maps
  <2>1. Forgets
    BY <1>9 DEF Forgets, PostbackReadFlag
  <2>2. QED
    BY <2>1, ForgetsMaps
<1>10. ASSUME NEW b \in Browsers, RepeatPostback(b) PROVE Maps
  <2>1. Forgets
    BY <1>10 DEF Forgets, RepeatPostback
  <2>2. QED
    BY <2>1, ForgetsMaps
<1>11. ASSUME NEW b \in Browsers, Continue(b) PROVE Maps
  <2>1. Forgets
    BY <1>11 DEF Forgets, Continue
  <2>2. QED
    BY <2>1, ForgetsMaps
<1>12. ASSUME NEW b \in Browsers, AuthnPost(b) PROVE Maps
  <2>1. Forgets
    BY <1>12 DEF Forgets, AuthnPost
  <2>2. QED
    BY <2>1, ForgetsMaps
<1>13. ASSUME NEW b \in Browsers, HomeSignOut(b) PROVE Maps
  <2>1. Vouched' = Vouched
    BY <1>13 DEF HomeSignOut
  <2>2. cookie' = [cookie EXCEPT ![b] = NoToken] /\ owner' = owner
    BY <1>13 DEF HomeSignOut
  <2>3. QED
    BY <2>1, <2>2, SameVouched DEF Maps, TF!Next, TF!Drop
<1>14. ASSUME NEW b \in Browsers, HomeUnauthorized(b) PROVE Maps
  <2>1. Forgets
    BY <1>14 DEF Forgets, HomeUnauthorized
  <2>2. QED
    BY <2>1, ForgetsMaps
<1>15. ASSUME NEW b \in Browsers, HomeRenew(b) PROVE Maps
  <2>1. Forgets
    BY <1>15 DEF Forgets, HomeRenew, NameOf
  <2>2. QED
    BY <2>1, ForgetsMaps
<1>16. ASSUME NEW b \in Browsers, Logout(b) PROVE Maps
  <2>1. Vouched' = Vouched
    BY <1>16 DEF Logout
  <2>2. cookie' = [cookie EXCEPT ![b] = NoToken] /\ owner' = owner
    BY <1>16 DEF Logout
  <2>3. QED
    BY <2>1, <2>2, SameVouched DEF Maps, TF!Next, TF!Drop
<1>17. ASSUME NEW b \in Browsers, IdentityReplyMfa(b) PROVE Maps
  <2>1. Forgets
    BY <1>17 DEF Forgets, IdentityReplyMfa
  <2>2. QED
    BY <2>1, ForgetsMaps
<1>18. ASSUME NEW b \in Browsers, IdentityReplyShowAuthn(b) PROVE Maps
  <2>1. Forgets
    BY <1>18 DEF Forgets, IdentityReplyShowAuthn
  <2>2. QED
    BY <2>1, ForgetsMaps
<1>19. ASSUME NEW b \in Browsers, IdentityReplyOther(b) PROVE Maps
  <2>1. Forgets
    BY <1>19 DEF Forgets, IdentityReplyOther
  <2>2. QED
    BY <2>1, ForgetsMaps
<1>20. ASSUME NEW b \in Browsers, LoginReplyMfa(b) PROVE Maps
  <2>1. Forgets
    BY <1>20 DEF Forgets, LoginReplyMfa
  <2>2. QED
    BY <2>1, ForgetsMaps
<1>21. ASSUME NEW b \in Browsers, LoginReplyChangePassword(b) PROVE Maps
  <2>1. Forgets
    BY <1>21 DEF Forgets, LoginReplyChangePassword
  <2>2. QED
    BY <2>1, ForgetsMaps
<1>22. ASSUME NEW b \in Browsers, LoginReplyOther(b) PROVE Maps
  <2>1. Forgets
    BY <1>22 DEF Forgets, LoginReplyOther
  <2>2. QED
    BY <2>1, ForgetsMaps
<1>23. ASSUME NEW b \in Browsers, DropFlag(b) PROVE Maps
  <2>1. Forgets
    BY <1>23 DEF Forgets, DropFlag
  <2>2. QED
    BY <2>1, ForgetsMaps
<1>24. ASSUME NEW b \in Browsers, LoginCompleted(b) PROVE Maps
  <2>1. Forgets
    BY <1>24 DEF Forgets, LoginCompleted, NameOf
  <2>2. QED
    BY <2>1, ForgetsMaps
<1>25. ASSUME NEW b \in Browsers, DropPending(b) PROVE Maps
  <2>1. Forgets
    BY <1>25 DEF Forgets, DropPending
  <2>2. QED
    BY <2>1, ForgetsMaps
<1>26. ASSUME NEW b \in Browsers, Bind(b) PROVE Maps
  <2>1. Forgets
    BY <1>26 DEF Forgets, Bind, Unreferenced
  <2>2. QED
    BY <2>1, ForgetsMaps
<1>27. ASSUME NEW b \in Browsers, AuthnRefused(b) PROVE Maps
  <2>1. Forgets
    BY <1>27 DEF Forgets, AuthnRefused, TokenOf, UserOf
  <2>2. QED
    BY <2>1, ForgetsMaps
<1>28. ASSUME NEW b \in Browsers, AuthnVerified(b) PROVE Maps
  <2>1. UserOf(b) \in Names
    BY <1>28 DEF AuthnVerified, UserOf, RefsInv, ModelRecord
  <2>2. Account[UserOf(b)] \in Accounts
    BY <2>1, AccountOf
  <2>3. Vouched' = Vouched \union {Account[UserOf(b)]}
    BY <1>28, <2>1, <2>2 DEF AuthnVerified
  <2>4. UNCHANGED <<owner, cookie>>
    BY <1>28 DEF AuthnVerified
  <2>5. VouchedByPassword
    BY <1>28, <2>1, <2>3 DEF AuthnVerified, VouchedByPassword
  <2>6. QED
    BY <2>2, <2>3, <2>4, <2>5 DEF Maps, TF!Next, TF!VerifyPassword
<1>29. ASSUME NEW b \in Browsers, AuthnThrows(b) PROVE Maps
  <2>1. Forgets
    BY <1>29 DEF Forgets, AuthnThrows
  <2>2. QED
    BY <2>1, ForgetsMaps
<1>30. ASSUME NEW b \in Browsers, AuthnSession(b) PROVE Maps
  <2>1. Forgets
    BY <1>30 DEF Forgets, AuthnSession, TokenOf
  <2>2. QED
    BY <2>1, ForgetsMaps
<1>31. ASSUME NEW b \in Browsers, SessionGranted(b) PROVE Maps
  <2>1. tok[b] \in Tokens /\ (FormsUnchanged => owner[tok[b]] \in Vouched)
    BY <1>31 DEF SessionGranted
  <2>2. cookie' = [cookie EXCEPT ![b] = tok[b]] /\ owner' = owner
    BY <1>31 DEF SessionGranted, SetSession
  <2>3. Vouched' \subseteq Vouched
    BY <1>31 DEF SessionGranted
  <2>4. QED
    BY <2>1, <2>2, <2>3 DEF Maps, VouchedByPassword, TF!Next, TF!Grant
<1>32. ASSUME NEW b \in Browsers, SessionGrantedQuiet(b) PROVE Maps
  <2>1. tok[b] \in Tokens /\ (FormsUnchanged => owner[tok[b]] \in Vouched)
    BY <1>32 DEF SessionGrantedQuiet
  <2>2. cookie' = [cookie EXCEPT ![b] = tok[b]] /\ owner' = owner
    BY <1>32 DEF SessionGrantedQuiet, SetSession
  <2>3. Vouched' \subseteq Vouched
    BY <1>32 DEF SessionGrantedQuiet
  <2>4. QED
    BY <2>1, <2>2, <2>3 DEF Maps, VouchedByPassword, TF!Next, TF!Grant
<1>33. ASSUME NEW b \in Browsers, SessionNotSet(b) PROVE Maps
  <2>1. Forgets
    BY <1>33 DEF Forgets, SessionNotSet
  <2>2. QED
    BY <2>1, ForgetsMaps
<1>34. ASSUME NEW t \in Tokens, RevokeToken(t) PROVE Maps
  <2>1. Forgets
    BY <1>34 DEF Forgets, RevokeToken
  <2>2. QED
    BY <2>1, ForgetsMaps
<1>35. ASSUME NEW t \in Tokens, ExpireEntry(t) PROVE Maps
  <2>1. Forgets
    BY <1>35 DEF Forgets, ExpireEntry
  <2>2. QED
    BY <2>1, ForgetsMaps
<1>36. ASSUME NEW n \in Names, ExpireFlag(n) PROVE Maps
  <2>1. Forgets
    BY <1>36 DEF Forgets, ExpireFlag
  <2>2. QED
    BY <2>1, ForgetsMaps
<1>37. ASSUME NEW n \in Names, ExpirePending(n) PROVE Maps
  <2>1. Forgets
    BY <1>37 DEF Forgets, ExpirePending
  <2>2. QED
    BY <2>1, ForgetsMaps
<1>38. ASSUME NEW n \in Names, ExpireRenewal(n) PROVE Maps
  <2>1. Forgets
    BY <1>38 DEF Forgets, ExpireRenewal
  <2>2. QED
    BY <2>1, ForgetsMaps
<1>39. ASSUME Restart PROVE Maps
  <2>1. Forgets
    BY <1>39 DEF Forgets, Restart, EmptyModel
  <2>2. QED
    BY <2>1, ForgetsMaps
<1>40. ASSUME UNCHANGED vars PROVE UNCHANGED TF!vars /\ UNCHANGED Vouched
  BY <1>40 DEF vars, TF!vars
<1>41. QED
  BY <1>1, <1>2, <1>3, <1>4, <1>5, <1>6, <1>7, <1>8, <1>9, <1>10, <1>11,
     <1>12, <1>13, <1>14, <1>15, <1>16, <1>17, <1>18, <1>19, <1>20, <1>21,
     <1>22, <1>23, <1>24, <1>25, <1>26, <1>27, <1>28, <1>29, <1>30, <1>31,
     <1>32, <1>33, <1>34, <1>35, <1>36, <1>37, <1>38, <1>39, <1>40 DEF Next,
     Handle, Browse, Environment

-----------------------------------------------------------------------------
(* The initial state satisfies the invariant. *)
LEMMA InitIInv == Init => IInv
BY SignInAssumption
   DEF Init, IInv, TypeOK, TokensInv, ModelsInv, RefsInv, LocalsInv, Issued,
       Pages, InFlight, ModelRecord, EmptyModel

(* IInv holds in every reachable state: what is cached under a name or a    *)
(* request id, and what requests between two awaits know, stays consistent. *)
THEOREM Invariance == Spec => []IInv
<1>1. IInv /\ [Next]_vars => IInv'
  BY TypeStep, TokensStep, ModelsStep, RefsStep, LocalsStep DEF IInv
<1>2. QED
  BY InitIInv, <1>1, PTL DEF Spec

(* Type correctness. *)
THEOREM TypeCorrect == Spec => []TypeOK
<1>1. IInv => TypeOK
  BY DEF IInv
<1>2. QED
  BY Invariance, <1>1, PTL

(* A request id stands for one person (RedirectToCredValidationAfter2Fa-    *)
(* Story, AccountController.Identity): the model cached under the id of a   *)
(* token names the token's user and carries a token of that user.           *)
THEOREM RequestIdsName == Spec => []EntryNamesOwner
<1>1. IInv => EntryNamesOwner
  BY DEF IInv, TypeOK, ModelsInv, EntryNamesOwner
<1>2. QED
  BY Invariance, <1>1, PTL

(* The password form asks for the password of the user its token is for     *)
(* (Identity, Authn), if browsers post its hidden fields unchanged.         *)
THEOREM FormsName == ASSUME FormsUnchanged PROVE Spec => []FormNamesOwner
<1>1. IInv => FormNamesOwner
  BY DEF IInv, LocalsInv, RefsInv, FormNamesOwner
<1>2. QED
  BY Invariance, <1>1, PTL

(* A model waiting under a user name was not touched by any postback        *)
(* (IdentityStory, RedirectToCredValidationAfter2FaStory).                  *)
THEOREM PendingModels == Spec => []PendingIsUnused
<1>1. IInv => PendingIsUnused
  BY DEF IInv, ModelsInv, PendingIsUnused
<1>2. QED
  BY Invariance, <1>1, PTL

(* The token of the session cookie is one of the forms-authentication       *)
(* cookie's user (AuthenticateSessionStory, AppAuthentication).             *)
THEOREM Cookies == Spec => []CookiesAgree
<1>1. Init => CookiesAgree
  BY DEF Init, CookiesAgree
<1>2. ASSUME IInv, CookiesAgree, [Next]_vars PROVE CookiesAgree'
  <2> USE DEF IInv, TypeOK, TokensInv, Issued, CookiesAgree
  <2>1. ASSUME NEW b \in Browsers, PassMfa(b) PROVE CookiesAgree'
    BY <1>2, <2>1 DEF PassMfa, sessionVars
  <2>2. ASSUME NEW b \in Browsers, SessionGranted(b) \/ SessionGrantedQuiet(b)
        PROVE  CookiesAgree'
    BY <1>2, <2>2, SignInAssumption
       DEF SessionGranted, SessionGrantedQuiet, SetSession, idpVars
  <2>3. ASSUME NEW b \in Browsers, HomeSignOut(b) \/ Logout(b)
        PROVE  CookiesAgree'
    BY <1>2, <2>3 DEF HomeSignOut, Logout, idpVars
  <2>4. ASSUME UNCHANGED <<owner, cookie, formsUser>> PROVE CookiesAgree'
    BY <1>2, <2>4
  <2>5. QED
    BY <1>2, <2>1, <2>2, <2>3, <2>4
       DEF Next, Handle, Browse, Environment, vars, sessionVars, idpVars,
           OpenIdentity, OpenLogin, Leave, IdentityPost,
           PostbackAuthenticate, PostbackReadFlag, RepeatPostback, Continue,
           AuthnPost, HomeUnauthorized, HomeRenew, IdentityReplyMfa,
           IdentityReplyShowAuthn, IdentityReplyOther, LoginReplyMfa,
           LoginReplyChangePassword, LoginReplyOther, DropFlag,
           LoginCompleted, DropPending, Bind, AuthnRefused, AuthnThrows,
           AuthnSession, SessionNotSet, RevokeToken, ExpireEntry,
           ExpireFlag, ExpirePending, ExpireRenewal, Restart, LoginPost,
           AuthnVerified, OpenLoginWindows
<1>3. QED
  BY Invariance, <1>1, <1>2, PTL DEF Spec

(* With browsers that post forms unchanged the portal implements            *)
(* TwoFactorSession: whatever the order of requests, a session is set only  *)
(* for a user who has shown both factors.                                   *)
THEOREM ImplementsTwoFactor == ASSUME FormsUnchanged PROVE Spec => TwoFactor
<1>1. Init => TF!Init
  BY SignInAssumption, AccountFixed DEF Init, TF!Init, Vouched, VouchedFor
<1>2. IInv /\ [Next]_vars => [TF!Next]_(TF!vars)
  BY RefinementStep DEF Maps
<1>3. QED
  BY Invariance, <1>1, <1>2, PTL DEF Spec, TwoFactor, TF!Spec

(* Nobody is vouched for without a password (SignInStory, AuthnStory) or    *)
(* Windows authentication: no reply, cache entry, expiry or restart adds to *)
(* the users the portal vouches for, nor does what a form comes back with.  *)
THEOREM OnlyPasswords == Spec => PasswordsVouch
<1>1. IInv /\ [Next]_vars => VouchedByPassword
  BY RefinementStep, SameVouched DEF Maps
<1>2. QED
  BY Invariance, <1>1, PTL DEF Spec, PasswordsVouch
-----------------------------------------------------------------------------
(* One person *)

(* What OnePerson says of one browser. *)
Keeps(b) == Person(b) # NoName /\ Person(b)' # NoName => Person(b)' = Person(b)

(* Requests and pages before and after a sign-in are for nobody yet. *)
LEMMA Nobody ==
    ASSUME NEW b, pc[b] \notin ByToken \union ByName
    PROVE  Person(b) = NoName
BY DEF Person

LEMMA NobodyNext ==
    ASSUME NEW b, pc'[b] \notin ByToken \union ByName
    PROVE  Person(b)' = NoName
BY DEF Person, UserOf

LEMMA ByTokenNow ==
    ASSUME NEW b, pc[b] \in ByToken
    PROVE  Person(b) = owner[tok[b]]
BY DEF Person, ByToken, ByName

LEMMA ByTokenNext ==
    ASSUME NEW b, pc'[b] \in ByToken
    PROVE  Person(b)' = owner'[tok'[b]]
BY DEF Person, ByToken, ByName, UserOf

LEMMA ByNameNext ==
    ASSUME NEW b, pc'[b] \in ByName
    PROVE  Person(b)' = Account[UserOf(b)']
BY DEF Person, ByToken, ByName, InFlight, UserOf

(* Another browser's step changes neither this one's page or request nor,   *)
(* though they may share a model or a token, what these say of its user.    *)
LEMMA OthersLeave ==
    ASSUME IInv, NEW b \in Browsers, NEW c \in Browsers, b # c,
           Handle(c) \/ Browse(c)
    PROVE  Keeps(b)
<1> USE SignInAssumption DEF IInv, TypeOK
<1>1. /\ pc'[b] = pc[b] /\ name'[b] = name[b]
      /\ tok'[b] = tok[b] /\ ref'[b] = ref[b]
  BY DEF Handle, Browse, Answer, AnswerBlank, Goto, browserVars,
     OpenIdentity, OpenLogin, OpenLoginWindows, Leave, IdentityPost, LoginPost,
     PassMfa, PostbackAuthenticate, PostbackReadFlag, RepeatPostback, Continue,
     AuthnPost, HomeSignOut, HomeUnauthorized, HomeRenew, Logout,
     IdentityReplyMfa, IdentityReplyShowAuthn, IdentityReplyOther,
     LoginReplyMfa, LoginReplyChangePassword, LoginReplyOther, DropFlag,
     LoginCompleted, DropPending, Bind, AuthnRefused, AuthnVerified,
     AuthnThrows, AuthnSession, SessionGranted, SessionGrantedQuiet,
     SessionNotSet
<1>2. tok[b] # NoToken => owner'[tok[b]] = owner[tok[b]]
  <2>1. CASE PassMfa(c)
    BY <2>1 DEF PassMfa, TokensInv, Issued
  <2>2. CASE ~PassMfa(c)
    <3>1. owner' = owner
      BY <2>2 DEF Handle, Browse, idpVars,
         OpenIdentity, OpenLogin, OpenLoginWindows, Leave, IdentityPost, LoginPost,
         PostbackAuthenticate, PostbackReadFlag, RepeatPostback, Continue,
         AuthnPost, HomeSignOut, HomeUnauthorized, HomeRenew, Logout,
         IdentityReplyMfa, IdentityReplyShowAuthn, IdentityReplyOther,
         LoginReplyMfa, LoginReplyChangePassword, LoginReplyOther, DropFlag,
         LoginCompleted, DropPending, Bind, AuthnRefused, AuthnVerified,
         AuthnThrows, AuthnSession, SessionGranted, SessionGrantedQuiet,
         SessionNotSet
    <3>2. QED
      BY <3>1
  <2>3. QED
    BY <2>1, <2>2
<1>3. ref[b] # NoModel => heap'[ref[b]].user = heap[ref[b]].user
  <2>1. CASE IdentityPost(c)
    BY <2>1 DEF IdentityPost, Unreferenced
  <2>2. CASE Bind(c)
    BY <2>2 DEF Bind, Unreferenced, RefsInv
  <2>3. CASE ~IdentityPost(c) /\ ~Bind(c)
    <3>1. heap' = heap
      BY <2>3 DEF Handle, Browse,
         OpenIdentity, OpenLogin, OpenLoginWindows, Leave, LoginPost, PassMfa,
         PostbackAuthenticate, PostbackReadFlag, RepeatPostback, Continue,
         AuthnPost, HomeSignOut, HomeUnauthorized, HomeRenew, Logout,
         IdentityReplyMfa, IdentityReplyShowAuthn, IdentityReplyOther,
         LoginReplyMfa, LoginReplyChangePassword, LoginReplyOther, DropFlag,
         LoginCompleted, DropPending, AuthnRefused, AuthnVerified,
         AuthnThrows, AuthnSession, SessionGranted, SessionGrantedQuiet,
         SessionNotSet
    <3>2. QED
      BY <3>1
  <2>4. QED
    BY <2>1, <2>2, <2>3
<1>4. pc[b] \in ByToken => tok[b] # NoToken
  BY DEF LocalsInv, ByToken
<1>5. UserOf(b)' = UserOf(b)
  BY <1>1, <1>3 DEF UserOf
<1>6. Person(b)' = Person(b)
  BY <1>1, <1>2, <1>4, <1>5 DEF Person
<1>7. QED
  BY <1>6 DEF Keeps

(* A browser's own steps: those that begin or end a sign-in, and those that *)
(* pass its user on from form to model to token.                            *)
LEMMA OwnStepKeeps ==
    ASSUME FormsUnchanged, IInv, NEW b \in Browsers, Handle(b) \/ Browse(b)
    PROVE  Keeps(b)
<1> USE SignInAssumption, AccountFixed DEF IInv, TypeOK, Answer, AnswerBlank, Goto
<1>n. ASSUME pc'[b] \notin ByToken \union ByName PROVE Keeps(b)
  BY <1>n, NobodyNext DEF Keeps
<1>p. ASSUME pc[b] \notin ByToken \union ByName PROVE Keeps(b)
  BY <1>p, Nobody DEF Keeps
<1>1. CASE \/ OpenIdentity(b) \/ OpenLogin(b) \/ Leave(b)
           \/ IdentityReplyOther(b) \/ LoginReplyOther(b) \/ AuthnThrows(b)
           \/ SessionGranted(b) \/ SessionGrantedQuiet(b) \/ SessionNotSet(b)
           \/ HomeSignOut(b) \/ HomeUnauthorized(b) \/ HomeRenew(b) \/ Logout(b)
  <2>1. pc'[b] \in {"home", "identityForm", "refused", "loginForm", "start", "renew"}
    BY <1>1 DEF OpenIdentity, OpenLogin, Leave, IdentityReplyOther,
       LoginReplyOther, AuthnThrows, SessionGranted, SessionGrantedQuiet,
       SessionNotSet, HomeSignOut, HomeUnauthorized, HomeRenew, Logout
  <2>2. QED
    BY <2>1, <1>n DEF ByToken, ByName, InFlight
<1>2. CASE OpenLoginWindows(b) \/ IdentityPost(b) \/ LoginPost(b)
  BY <1>2, <1>p DEF OpenLoginWindows, IdentityPost, LoginPost, ByToken, ByName, InFlight
<1>3. CASE PassMfa(b)
  <2>1. PICK t \in Tokens : /\ owner' = [owner EXCEPT ![t] = Account[name[b]]]
                            /\ Answer(b, "postback", NoName, t)
    BY <1>3 DEF PassMfa
  <2>2. Person(b) = Account[name[b]]
    BY <1>3 DEF PassMfa, RefsInv, Person, UserOf, ByToken, ByName
  <2>3. Person(b)' = Account[name[b]]
    <3>1. pc'[b] = "postback" /\ tok'[b] = t /\ owner'[t] = Account[name[b]]
      BY <2>1
    <3>2. QED
      BY <3>1, ByTokenNext DEF ByToken
  <2>4. QED
    BY <2>2, <2>3 DEF Keeps
<1>4. CASE PostbackAuthenticate(b) \/ DropFlag(b)
  <2>1. /\ pc[b] \in ByToken /\ pc'[b] = "session"
        /\ name'[b] = owner[tok[b]] /\ ref'[b] = ref[b] /\ ref[b] = NoModel
        /\ tok[b] \in Tokens
    BY <1>4 DEF PostbackAuthenticate, DropFlag, ByToken, RefsInv, LocalsInv
  <2>2. Person(b) = owner[tok[b]] /\ Person(b)' = Account[owner[tok[b]]]
    BY <2>1 DEF Person, UserOf, ByToken, ByName, InFlight
  <2>3. owner[tok[b]] \in Accounts
    BY <2>1, <1>4 DEF TokensInv, Issued
  <2>4. QED
    BY <2>2, <2>3 DEF Keeps
<1>5. CASE PostbackReadFlag(b) \/ RepeatPostback(b)
  <2>1. /\ pc[b] \in ByToken /\ pc'[b] \in ByToken
        /\ tok'[b] = tok[b] /\ owner' = owner
    BY <1>5 DEF PostbackReadFlag, RepeatPostback, ByToken, idpVars
  <2>2. QED
    BY <2>1, ByTokenNow, ByTokenNext DEF Keeps
<1>6. CASE LoginCompleted(b)
  <2>1. CASE pc'[b] \in {"refused", "start"}
    BY <2>1, <1>n DEF ByToken, ByName, InFlight
  <2>2. CASE /\ tok[b] \in live
             /\ name' = [name EXCEPT ![b] = NameOf(tok[b])]
             /\ ref' = [ref EXCEPT ![b] = pending[NameOf(tok[b])]]
             /\ Goto(b, "dropPending")
    <3>1. tok[b] \in Tokens /\ Issued(tok[b])
      BY <2>2 DEF TokensInv
    <3>2. NameOf(tok[b]) \in Names /\ Account[NameOf(tok[b])] = owner[tok[b]]
      BY <3>1 DEF NameOf, TokensInv, Issued
    <3>3. UserOf(b)' = NameOf(tok[b])
      BY <1>6, <2>2, <3>2 DEF LoginCompleted, UserOf, ModelsInv
    <3>4. Person(b)' = Account[NameOf(tok[b])]
      <4>1. pc'[b] = "dropPending"
        BY <2>2
      <4>2. QED
        BY <4>1, <3>3, ByNameNext DEF ByToken, ByName, InFlight
    <3>5. Person(b) = owner[tok[b]]
      <4>1. pc[b] = "completed"
        BY <1>6 DEF LoginCompleted
      <4>2. QED
        BY <4>1, ByTokenNow DEF ByToken
    <3>6. QED
      BY <3>2, <3>4, <3>5 DEF Keeps
  <2>3. QED
    BY <1>6, <2>1, <2>2 DEF LoginCompleted
<1>7. CASE DropPending(b)
  BY <1>7 DEF DropPending, Keeps, Person, UserOf, ByToken, ByName, InFlight
<1>8. CASE Bind(b)
  <2>1. Person(b)' = owner[tok[b]]
    <3>1. pc'[b] = "continue" /\ tok'[b] = tok[b] /\ owner' = owner
      BY <1>8 DEF Bind, idpVars
    <3>2. QED
      BY <3>1, ByTokenNext DEF ByToken
  <2>2. UserOf(b) = name[b] /\ Account[name[b]] = owner[tok[b]]
    BY <1>8 DEF Bind, UserOf, RefsInv, LocalsInv
  <2>3. Person(b) = Account[name[b]]
    BY <1>8, <2>2 DEF Bind, Person, ByToken, ByName, InFlight
  <2>4. QED
    BY <2>1, <2>2, <2>3 DEF Keeps
<1>9. CASE Continue(b)
  <2>1. pc[b] = "continue" /\ Person(b) = owner[tok[b]] /\ tok[b] \in Tokens
    <3>1. pc[b] = "continue"
      BY <1>9 DEF Continue
    <3>2. QED
      BY <3>1, ByTokenNow DEF ByToken, LocalsInv
  <2>2. CASE pc'[b] \in {"home", "identityForm", "refused"}
    BY <2>2, <1>n DEF ByToken, ByName, InFlight
  <2>3. ASSUME NEW m \in Models, entry[tok[b]] = m,
               \/ /\ Goto(b, "authn")
                  /\ ref' = [ref EXCEPT ![b] = m]
               \/ Answer(b, "authnForm", heap[m].user, heap[m].token)
        PROVE  Keeps(b)
    <3>1. heap' = heap
      BY <1>9 DEF Continue
    <3>2. Account[heap[m].user] = owner[tok[b]]
      BY <2>1, <2>3 DEF ModelsInv
    <3>3. UserOf(b)' = heap[m].user
      BY <2>3, <3>1 DEF UserOf
    <3>4. Person(b)' = Account[heap[m].user]
      BY <2>3, <3>3 DEF Person, ByToken, ByName, InFlight
    <3>5. QED
      BY <2>1, <3>2, <3>4 DEF Keeps
  <2>4. QED
    BY <1>9, <2>2, <2>3 DEF Continue
<1>10. CASE AuthnPost(b)
  <2>1. CASE pc'[b] = "refused"
    BY <2>1, <1>n DEF ByToken, ByName, InFlight
  <2>2. CASE pc[b] = "authnForm" /\ Goto(b, "authn") /\ UNCHANGED <<name, tok, ref, heap>>
    BY <2>2 DEF Keeps, Person, UserOf, ByToken, ByName, InFlight
  <2>3. pc[b] = "authnForm" /\ UNCHANGED heap
    BY <1>10 DEF AuthnPost
  <2>4. PICK n \in Names, t \in Tokens \union {NoToken} :
           /\ n = name[b] /\ t = tok[b]
           /\ \/ /\ Goto(b, "authn")
                 /\ name' = [name EXCEPT ![b] = n]
                 /\ tok' = [tok EXCEPT ![b] = t]
                 /\ UNCHANGED ref
              \/ Answer(b, "authnForm", n, t)
              \/ AnswerBlank(b, "refused")
    BY <1>10, FormsUnchanged DEF AuthnPost
  <2>5. CASE Answer(b, "authnForm", n, t)
    <3>1. UserOf(b) = name[b]
      BY <2>3 DEF UserOf, RefsInv
    <3>2. UserOf(b)' = name[b]
      BY <2>4, <2>5 DEF UserOf
    <3>3. QED
      BY <2>3, <2>5, <3>1, <3>2 DEF Keeps, Person, ByToken, ByName, InFlight
  <2>6. QED
    BY <2>1, <2>2, <2>3, <2>4, <2>5
<1>11. CASE IdentityReplyMfa(b) \/ LoginReplyMfa(b)
  <2>1. /\ UserOf(b) = name[b] /\ pc[b] \in {"identityReply", "loginReply"}
        /\ Answer(b, "mfa", name[b], NoToken)
    BY <1>11 DEF IdentityReplyMfa, LoginReplyMfa, RefsInv, UserOf
  <2>2. UserOf(b)' = name[b]
    BY <2>1 DEF UserOf
  <2>3. QED
    BY <2>1, <2>2 DEF Keeps, Person, ByToken, ByName, InFlight
<1>12. CASE LoginReplyChangePassword(b)
  <2>1. CASE pc'[b] = "renew"
    BY <2>1, <1>n DEF ByToken, ByName, InFlight
  <2>2. CASE Answer(b, "mfa", name[b], NoToken)
    <3>1. UserOf(b) = name[b] /\ pc[b] = "loginReply"
      BY <1>12 DEF LoginReplyChangePassword, RefsInv, UserOf
    <3>2. UserOf(b)' = name[b]
      BY <2>2 DEF UserOf
    <3>3. QED
      BY <2>2, <3>1, <3>2 DEF Keeps, Person, ByToken, ByName, InFlight
  <2>3. QED
    BY <1>12, <2>1, <2>2 DEF LoginReplyChangePassword
<1>13. CASE IdentityReplyShowAuthn(b)
  <2>1. CASE pc'[b] = "refused"
    BY <2>1, <1>n DEF ByToken, ByName, InFlight
  <2>2. CASE pc[b] = "identityReply" /\ Goto(b, "authn") /\ UNCHANGED <<name, tok, ref, heap>>
    BY <2>2 DEF Keeps, Person, UserOf, ByToken, ByName, InFlight
  <2>3. QED
    BY <1>13, <2>1, <2>2 DEF IdentityReplyShowAuthn
<1>14. CASE AuthnRefused(b)
  <2>1. PICK n \in Names : /\ \/ n = UserOf(b)
                              \/ Account[n] = Account[UserOf(b)]
                           /\ Answer(b, "authnForm", n, TokenOf(b))
    BY <1>14 DEF AuthnRefused
  <2>2. UserOf(b)' = n
    BY <2>1 DEF UserOf
  <2>3. Person(b)' = Account[n]
    BY <2>1, <2>2 DEF Person, ByToken, ByName
  <2>4. Person(b) = Account[UserOf(b)]
    BY <1>14 DEF AuthnRefused, Person, ByToken, ByName, InFlight
  <2>5. QED
    BY <2>1, <2>3, <2>4 DEF Keeps
<1>15. CASE AuthnVerified(b)
  <2>1. /\ pc[b] = "authn" /\ pc'[b] \in {"verified", "mustChange"}
        /\ name'[b] = UserOf(b) /\ UNCHANGED <<ref, heap>>
    BY <1>15 DEF AuthnVerified
  <2>2. UserOf(b)' = UserOf(b)
    BY <2>1 DEF UserOf
  <2>3. QED
    BY <2>1, <2>2 DEF Keeps, Person, ByToken, ByName, InFlight
<1>16. CASE AuthnSession(b)
  <2>1. CASE pc'[b] = "refused"
    BY <2>1, <1>n DEF ByToken, ByName, InFlight
  <2>2. CASE /\ pc'[b] \in {"session", "sessionQuiet"}
             /\ ref' = [ref EXCEPT ![b] = NoModel]
             /\ UNCHANGED name
    <3>1. pc[b] \in {"verified", "mustChange"} /\ UserOf(b) = name[b]
      BY <1>16 DEF AuthnSession, RefsInv, UserOf
    <3>2. UserOf(b)' = name[b]
      BY <2>2 DEF UserOf
    <3>3. QED
      BY <2>2, <3>1, <3>2 DEF Keeps, Person, ByToken, ByName, InFlight
  <2>3. QED
    BY <1>16, <2>1, <2>2 DEF AuthnSession
<1>17. QED
  BY <1>1, <1>2, <1>3, <1>4, <1>5, <1>6, <1>7, <1>8, <1>9, <1>10, <1>11, <1>12,
     <1>13, <1>14, <1>15, <1>16 DEF Handle, Browse

(* Expiry and revocation touch neither requests nor models, and a restart   *)
(* ends the requests that hold one.                                         *)
LEMMA EnvironmentKeeps ==
    ASSUME IInv, NEW b \in Browsers, Environment \/ UNCHANGED vars
    PROVE  Keeps(b)
<1>1. CASE Restart
  <2>1. CASE pc[b] \in InFlight
    <3>1. pc'[b] = "refused"
      BY <1>1, <2>1 DEF Restart
    <3>2. QED
      BY <3>1, NobodyNext DEF Keeps, ByToken, ByName, InFlight
  <2>2. CASE pc[b] \notin InFlight
    <3>1. /\ pc'[b] = pc[b] /\ name'[b] = name[b] /\ tok'[b] = tok[b]
          /\ ref'[b] = NoModel /\ owner' = owner
      BY <1>1, <2>2 DEF Restart, idpVars
    <3>2. ref[b] = NoModel
      BY <2>2 DEF IInv, RefsInv, InFlight
    <3>3. UserOf(b)' = UserOf(b)
      BY <3>1, <3>2 DEF UserOf
    <3>4. QED
      BY <3>1, <3>3 DEF Keeps, Person
  <2>3. QED
    BY <2>1, <2>2
<1>2. CASE UNCHANGED <<pc, name, tok, ref, owner, heap>>
  <2>1. UserOf(b)' = UserOf(b)
    BY <1>2 DEF UserOf
  <2>2. QED
    BY <1>2, <2>1 DEF Keeps, Person
<1>3. QED
  BY <1>1, <1>2 DEF Environment, vars, browserVars, idpVars, RevokeToken,
     ExpireEntry, ExpireFlag, ExpirePending, ExpireRenewal

(* Cookies are set by AuthenticateSessionStory only, in the browser whose   *)
(* request it works for, and the token is that of the name the request has. *)
LEMMA SessionsOwn ==
    ASSUME FormsUnchanged, IInv, [Next]_vars, NEW b \in Browsers,
           cookie'[b] \notin {cookie[b], NoToken}
    PROVE  owner[cookie'[b]] = Person(b)
<1> USE DEF IInv, TypeOK
<1>1. ASSUME NEW c \in Browsers, SessionGranted(c) \/ SessionGrantedQuiet(c)
      PROVE  owner[cookie'[b]] = Person(b)
  <2>1. c = b /\ cookie'[b] = tok[b] /\ pc[b] \in {"session", "sessionQuiet"}
    BY <1>1 DEF SessionGranted, SessionGrantedQuiet, SetSession
  <2>2. ref[b] = NoModel /\ Account[name[b]] = owner[tok[b]]
    BY <2>1, FormsUnchanged DEF RefsInv, LocalsInv
  <2>3. QED
    BY <2>1, <2>2 DEF Person, UserOf, ByToken, ByName, InFlight
<1>2. ASSUME NEW c \in Browsers, HomeSignOut(c) \/ Logout(c) PROVE FALSE
  BY <1>2 DEF HomeSignOut, Logout
<1>3. cookie' # cookie
  OBVIOUS
<1>4. QED
  BY <1>1, <1>2, <1>3
     DEF Next, Handle, Browse, Environment, vars, sessionVars,
         OpenIdentity, OpenLogin, Leave, IdentityPost, PassMfa,
         PostbackAuthenticate, PostbackReadFlag, RepeatPostback, Continue,
         AuthnPost, HomeUnauthorized, HomeRenew, IdentityReplyMfa,
         IdentityReplyShowAuthn, IdentityReplyOther, LoginReplyMfa,
         LoginReplyChangePassword, LoginReplyOther, DropFlag,
         LoginCompleted, DropPending, Bind, AuthnRefused, AuthnThrows,
         AuthnSession, SessionNotSet, RevokeToken, ExpireEntry,
         ExpireFlag, ExpirePending, ExpireRenewal, Restart, LoginPost,
         AuthnVerified, OpenLoginWindows

(* Whatever is cached under a name or a request id, shared, replaced or     *)
(* lost, a sign-in goes on for the person who began it, and ends with that  *)
(* person's session (AccountController and the stories of the sign-in), if  *)
(* browsers post the password form unchanged.                               *)
THEOREM SignInsAreOnePersons == ASSUME FormsUnchanged PROVE Spec => OnePerson
<1>1. IInv /\ [Next]_vars => \A b \in Browsers :
         /\ Keeps(b)
         /\ cookie'[b] \notin {cookie[b], NoToken} => owner[cookie'[b]] = Person(b)
  BY FormsUnchanged, OthersLeave, OwnStepKeeps, EnvironmentKeeps, SessionsOwn DEF Next
<1>2. QED
  BY Invariance, <1>1, PTL DEF Spec, OnePerson, Keeps
=============================================================================
