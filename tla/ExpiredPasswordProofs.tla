------------------------ MODULE ExpiredPasswordProofs ------------------------
(***************************************************************************)
(* Proofs about ExpiredPassword, for every set of names, accounts and      *)
(* browsers and both modes: the inductive invariant IInv and the safety    *)
(* properties that are parts of it.                                        *)
(***************************************************************************)
EXTENDS ExpiredPassword, TLAPS

(* Most steps only answer a request, ... *)
Answers(b) ==
    /\ \E p \in Pages \union Redirects : Answer(b, p)
    /\ UNCHANGED <<cookieVars, adVars, keyVars>>

(* ... and some sign the user out as they do. *)
SignsOut(b) ==
    /\ pc[b] \in Pages \union Redirects \union {"refresh"}
    /\ SignOut(b)
    /\ \E p \in Pages \union Redirects : Answer(b, p)
    /\ UNCHANGED <<adVars, keyVars>>

(* The kinds of steps the proofs distinguish. *)
LEMMA StepCases ==
    ASSUME [Next]_vars
    PROVE  \/ \E b \in Browsers :
                \/ Answers(b) \/ SignsOut(b)
                \/ SubmitExpired(b) \/ SetUserKey(b) \/ SetCipherKey(b)
                \/ SubmitValid(b) \/ FinishSignIn(b) \/ PostChange(b)
                \/ ChangePassword(b) \/ Refresh(b)
                \/ DropUserKey(b) \/ DropCipherKey(b)
                \/ Logout(b) \/ TokenExpires(b)
           \/ \E a \in Accounts : PasswordExpires(a) \/ PasswordSetElsewhere(a)
           \/ \E n \in Names : ExpireKeys(n)
           \/ Restart
           \/ UNCHANGED vars
<1>1. ASSUME NEW b \in Browsers,
             \/ ToLogin(b) \/ ToHomeMustChange(b) \/ ToHomeAuthorized(b)
             \/ ChangeSessionExpired(b) \/ ShowForm(b) \/ ChangeRefused(b)
             \/ RefreshFails(b) \/ Open(b)
      PROVE  Answers(b)
  <2>1. CASE ToLogin(b) BY <2>1 DEF ToLogin, Answers, Pages, Redirects
  <2>2. CASE ToHomeMustChange(b) BY <2>2 DEF ToHomeMustChange, Answers, Pages, Redirects
  <2>3. CASE ToHomeAuthorized(b) BY <2>3 DEF ToHomeAuthorized, Answers, Pages, Redirects
  <2>4. CASE ChangeSessionExpired(b) BY <2>4 DEF ChangeSessionExpired, Answers, Pages, Redirects
  <2>5. CASE ShowForm(b) BY <2>5 DEF ShowForm, Answers, Pages, Redirects
  <2>6. CASE ChangeRefused(b) BY <2>6 DEF ChangeRefused, Answers, Pages, Redirects
  <2>7. CASE RefreshFails(b) BY <2>7 DEF RefreshFails, Answers, Pages, Redirects
  <2>8. CASE Open(b) BY <2>8 DEF Open, Answers, Pages, Redirects
  <2>9. QED BY <1>1, <2>1, <2>2, <2>3, <2>4, <2>5, <2>6, <2>7, <2>8
<1>2. ASSUME NEW b \in Browsers,
             \/ ToHomeUnauthorized(b) \/ ChangeUnauthorized(b) \/ RefreshUnverified(b)
             \/ OpenDone(b)
      PROVE  SignsOut(b)
  BY <1>2 DEF ToHomeUnauthorized, ChangeUnauthorized, RefreshUnverified,
              OpenDone, SignsOut, Pages, Redirects
<1>3. QED
  BY <1>1, <1>2 DEF Next, Serve, User

(* Every variable keeps its type. *)
LEMMA TypeStep == ASSUME IInv, [Next]_vars PROVE TypeOK'
<1> USE ExpiredPasswordAssumption DEF IInv, TypeOK, RequestLocals, Answer, Goto, SignOut,
   requestVars, cookieVars, adVars, keyVars,
   Pages, Redirects, Working, SigningIn, Accounts
<1>1. ASSUME NEW b \in Browsers, Answers(b) PROVE TypeOK'
  BY <1>1 DEF Answers
<1>2. ASSUME NEW b \in Browsers, SignsOut(b) PROVE TypeOK'
  BY <1>2 DEF SignsOut
<1>3. ASSUME NEW b \in Browsers, SubmitExpired(b) PROVE TypeOK'
  BY <1>3 DEF SubmitExpired, Passwords, Current
<1>4. ASSUME NEW b \in Browsers, SetUserKey(b) PROVE TypeOK'
  BY <1>4 DEF SetUserKey
<1>5. ASSUME NEW b \in Browsers, SetCipherKey(b) PROVE TypeOK'
  BY <1>5 DEF SetCipherKey, Passwords
<1>6. ASSUME NEW b \in Browsers, SubmitValid(b) PROVE TypeOK'
  BY <1>6 DEF SubmitValid
<1>7. ASSUME NEW b \in Browsers, FinishSignIn(b) PROVE TypeOK'
  <2>1. UNCHANGED <<adVars, keyVars>>
    BY <1>7 DEF FinishSignIn
  <2>2. ASSUME NEW p \in Pages \union Redirects, Answer(b, p), UNCHANGED cookieVars
        PROVE  TypeOK'
    BY <2>1, <2>2
  <2>3. ASSUME NEW p \in {"toHome", "toChange"}, Answer(b, p),
               NEW u \in Names, NEW m \in BOOLEAN,
               session' = [session EXCEPT ![b] =
                              [user |-> u, must |-> m, valid |-> TRUE]],
               formsUser' = [formsUser EXCEPT ![b] = Account[typed[b]]],
               typed[b] \in Names
        PROVE  TypeOK'
    <3>1. [user |-> u, must |-> m, valid |-> TRUE] \in Session
      BY DEF Session
    <3>2. QED
      BY <2>1, <2>3, <3>1
  <2>4. QED
    BY <1>7, <2>2, <2>3 DEF FinishSignIn
<1>8. ASSUME NEW b \in Browsers, PostChange(b) PROVE TypeOK'
  BY <1>8 DEF PostChange, HasKeys, Passwords
<1>9. ASSUME NEW b \in Browsers, ChangePassword(b) PROVE TypeOK'
  BY <1>9 DEF ChangePassword, Passwords, Current
<1>10. ASSUME NEW b \in Browsers, Refresh(b) PROVE TypeOK'
  BY <1>10 DEF Refresh, Session
<1>11. ASSUME NEW b \in Browsers, DropUserKey(b) PROVE TypeOK'
  BY <1>11 DEF DropUserKey
<1>12. ASSUME NEW b \in Browsers, DropCipherKey(b) PROVE TypeOK'
  BY <1>12 DEF DropCipherKey
<1>13. ASSUME NEW b \in Browsers, Logout(b) PROVE TypeOK'
  BY <1>13 DEF Logout
<1>14. ASSUME NEW b \in Browsers, TokenExpires(b) PROVE TypeOK'
  <2>1. [session[b] EXCEPT !.valid = FALSE] \in Session
    <3>1. session[b] \in Session
      BY <1>14 DEF TokenExpires
    <3>2. QED
      BY <3>1 DEF Session
  <2>2. session' = [session EXCEPT ![b] = [session[b] EXCEPT !.valid = FALSE]]
    BY <1>14 DEF TokenExpires
  <2>3. QED
    BY <1>14, <2>1, <2>2 DEF TokenExpires
<1>15. ASSUME NEW a \in Accounts, PasswordExpires(a) PROVE TypeOK'
  BY <1>15 DEF PasswordExpires
<1>16. ASSUME NEW n \in Names, ExpireKeys(n) PROVE TypeOK'
  BY <1>16 DEF ExpireKeys
<1>17. ASSUME NEW a \in Accounts, PasswordSetElsewhere(a) PROVE TypeOK'
  BY <1>17 DEF PasswordSetElsewhere
<1>18. CASE Restart BY <1>18 DEF Restart
<1>19. CASE UNCHANGED vars BY <1>19 DEF vars
<1>20. QED
  BY StepCases, <1>1, <1>2, <1>3, <1>4, <1>5, <1>6, <1>7, <1>8, <1>9, <1>10, <1>11, <1>12, <1>13, <1>14, <1>15, <1>16, <1>18, <1>19, <1>17

(* Requests at work have a name, pages have no password. *)
LEMMA LocalsStep == ASSUME IInv, [Next]_vars PROVE RequestLocals'
<1> USE ExpiredPasswordAssumption DEF IInv, TypeOK, RequestLocals, Answer, Goto, SignOut,
   requestVars, cookieVars, adVars, keyVars,
   Pages, Redirects, Working, SigningIn
<1>1. ASSUME NEW b \in Browsers, Answers(b) PROVE RequestLocals'
  BY <1>1 DEF Answers
<1>2. ASSUME NEW b \in Browsers, SignsOut(b) PROVE RequestLocals'
  BY <1>2 DEF SignsOut
<1>3. ASSUME NEW b \in Browsers, SubmitExpired(b) PROVE RequestLocals'
  BY <1>3 DEF SubmitExpired
<1>4. ASSUME NEW b \in Browsers, SetUserKey(b) PROVE RequestLocals'
  BY <1>4 DEF SetUserKey
<1>5. ASSUME NEW b \in Browsers, SetCipherKey(b) PROVE RequestLocals'
  BY <1>5 DEF SetCipherKey
<1>6. ASSUME NEW b \in Browsers, SubmitValid(b) PROVE RequestLocals'
  BY <1>6 DEF SubmitValid
<1>7. ASSUME NEW b \in Browsers, FinishSignIn(b) PROVE RequestLocals'
  BY <1>7 DEF FinishSignIn
<1>8. ASSUME NEW b \in Browsers, PostChange(b) PROVE RequestLocals'
  BY <1>8 DEF PostChange
<1>9. ASSUME NEW b \in Browsers, ChangePassword(b) PROVE RequestLocals'
  BY <1>9 DEF ChangePassword
<1>10. ASSUME NEW b \in Browsers, Refresh(b) PROVE RequestLocals'
  BY <1>10 DEF Refresh
<1>11. ASSUME NEW b \in Browsers, DropUserKey(b) PROVE RequestLocals'
  BY <1>11 DEF DropUserKey
<1>12. ASSUME NEW b \in Browsers, DropCipherKey(b) PROVE RequestLocals'
  BY <1>12 DEF DropCipherKey
<1>13. ASSUME NEW b \in Browsers, Logout(b) PROVE RequestLocals'
  BY <1>13 DEF Logout
<1>14. ASSUME NEW b \in Browsers, TokenExpires(b) PROVE RequestLocals'
  BY <1>14 DEF TokenExpires
<1>15. ASSUME NEW a \in Accounts, PasswordExpires(a) PROVE RequestLocals'
  BY <1>15 DEF PasswordExpires
<1>16. ASSUME NEW n \in Names, ExpireKeys(n) PROVE RequestLocals'
  BY <1>16 DEF ExpireKeys
<1>17. ASSUME NEW a \in Accounts, PasswordSetElsewhere(a) PROVE RequestLocals'
  BY <1>17 DEF PasswordSetElsewhere
<1>18. CASE Restart BY <1>18 DEF Restart
<1>19. CASE UNCHANGED vars BY <1>19 DEF vars
<1>20. QED
  BY StepCases, <1>1, <1>2, <1>3, <1>4, <1>5, <1>6, <1>7, <1>8, <1>9, <1>10, <1>11, <1>12, <1>13, <1>14, <1>15, <1>16, <1>18, <1>19, <1>17

(* The cookies of a browser stay those of one account. *)
LEMMA CookiesStep == ASSUME IInv, [Next]_vars PROVE CookiesOfOneAccount'
<1> USE ExpiredPasswordAssumption DEF IInv, TypeOK, RequestLocals, CookiesOfOneAccount,
   Answer, Goto, SignOut,
   requestVars, cookieVars, adVars, keyVars
<1>1. ASSUME NEW b \in Browsers, Answers(b) PROVE CookiesOfOneAccount'
  BY <1>1 DEF Answers
<1>2. ASSUME NEW b \in Browsers, SignsOut(b) PROVE CookiesOfOneAccount'
  BY <1>2 DEF SignsOut
<1>3. ASSUME NEW b \in Browsers, SubmitExpired(b) PROVE CookiesOfOneAccount'
  BY <1>3 DEF SubmitExpired
<1>4. ASSUME NEW b \in Browsers, SetUserKey(b) PROVE CookiesOfOneAccount'
  BY <1>4 DEF SetUserKey
<1>5. ASSUME NEW b \in Browsers, SetCipherKey(b) PROVE CookiesOfOneAccount'
  BY <1>5 DEF SetCipherKey
<1>6. ASSUME NEW b \in Browsers, SubmitValid(b) PROVE CookiesOfOneAccount'
  BY <1>6 DEF SubmitValid
<1>7. ASSUME NEW b \in Browsers, FinishSignIn(b) PROVE CookiesOfOneAccount'
  BY <1>7 DEF FinishSignIn, Working, SigningIn, Session
<1>8. ASSUME NEW b \in Browsers, PostChange(b) PROVE CookiesOfOneAccount'
  BY <1>8 DEF PostChange
<1>9. ASSUME NEW b \in Browsers, ChangePassword(b) PROVE CookiesOfOneAccount'
  BY <1>9 DEF ChangePassword
<1>10. ASSUME NEW b \in Browsers, Refresh(b) PROVE CookiesOfOneAccount'
  BY <1>10 DEF Refresh, Working, SigningIn
<1>11. ASSUME NEW b \in Browsers, DropUserKey(b) PROVE CookiesOfOneAccount'
  BY <1>11 DEF DropUserKey
<1>12. ASSUME NEW b \in Browsers, DropCipherKey(b) PROVE CookiesOfOneAccount'
  BY <1>12 DEF DropCipherKey
<1>13. ASSUME NEW b \in Browsers, Logout(b) PROVE CookiesOfOneAccount'
  BY <1>13 DEF Logout
<1>14. ASSUME NEW b \in Browsers, TokenExpires(b) PROVE CookiesOfOneAccount'
  BY <1>14 DEF TokenExpires, Session
<1>15. ASSUME NEW a \in Accounts, PasswordExpires(a) PROVE CookiesOfOneAccount'
  BY <1>15 DEF PasswordExpires
<1>16. ASSUME NEW n \in Names, ExpireKeys(n) PROVE CookiesOfOneAccount'
  BY <1>16 DEF ExpireKeys
<1>17. ASSUME NEW a \in Accounts, PasswordSetElsewhere(a) PROVE CookiesOfOneAccount'
  BY <1>17 DEF PasswordSetElsewhere
<1>18. CASE Restart BY <1>18 DEF Restart
<1>19. CASE UNCHANGED vars BY <1>19 DEF vars
<1>20. QED
  BY StepCases, <1>1, <1>2, <1>3, <1>4, <1>5, <1>6, <1>7, <1>8, <1>9, <1>10, <1>11, <1>12, <1>13, <1>14, <1>15, <1>16, <1>18, <1>19, <1>17

(* Passwords stay with their accounts. *)
LEMMA PasswordsStep == ASSUME IInv, [Next]_vars PROVE PasswordsOfTheirAccounts'
<1> USE ExpiredPasswordAssumption DEF IInv, TypeOK, RequestLocals, PasswordsOfTheirAccounts,
   Answer, Goto, SignOut,
   requestVars, cookieVars, adVars, keyVars
<1>1. ASSUME NEW b \in Browsers, Answers(b) PROVE PasswordsOfTheirAccounts'
  BY <1>1 DEF Answers, Pages, Redirects, Working, SigningIn, Passwords, Current, Accounts
<1>2. ASSUME NEW b \in Browsers, SignsOut(b) PROVE PasswordsOfTheirAccounts'
  BY <1>2 DEF SignsOut, Pages, Redirects, Working, SigningIn, Passwords, Current, Accounts
<1>3. ASSUME NEW b \in Browsers, SubmitExpired(b) PROVE PasswordsOfTheirAccounts'
  BY <1>3 DEF SubmitExpired, Pages, Redirects, Working, SigningIn, Passwords, Current, Accounts
<1>4. ASSUME NEW b \in Browsers, SetUserKey(b) PROVE PasswordsOfTheirAccounts'
  BY <1>4 DEF SetUserKey, Pages, Redirects, Working, SigningIn, Passwords, Current, Accounts
<1>5. ASSUME NEW b \in Browsers, SetCipherKey(b) PROVE PasswordsOfTheirAccounts'
  BY <1>5 DEF SetCipherKey, Pages, Redirects, Working, SigningIn, Passwords, Current, Accounts
<1>6. ASSUME NEW b \in Browsers, SubmitValid(b) PROVE PasswordsOfTheirAccounts'
  BY <1>6 DEF SubmitValid, Pages, Redirects, Working, SigningIn, Passwords, Current, Accounts
<1>7. ASSUME NEW b \in Browsers, FinishSignIn(b) PROVE PasswordsOfTheirAccounts'
  BY <1>7 DEF FinishSignIn, Pages, Redirects, Working, SigningIn, Passwords, Current, Accounts
<1>8. ASSUME NEW b \in Browsers, PostChange(b) PROVE PasswordsOfTheirAccounts'
  BY <1>8 DEF PostChange, Pages, Redirects, Working, SigningIn, Passwords, Current, Accounts
<1>9. ASSUME NEW b \in Browsers, ChangePassword(b) PROVE PasswordsOfTheirAccounts'
  BY <1>9 DEF ChangePassword, Pages, Redirects, Working, SigningIn, Passwords, Current, Accounts
<1>10. ASSUME NEW b \in Browsers, Refresh(b) PROVE PasswordsOfTheirAccounts'
  BY <1>10 DEF Refresh, Pages, Redirects, Working, SigningIn, Passwords, Current, Accounts
<1>11. ASSUME NEW b \in Browsers, DropUserKey(b) PROVE PasswordsOfTheirAccounts'
  BY <1>11 DEF DropUserKey, Pages, Redirects, Working, SigningIn, Passwords, Current, Accounts
<1>12. ASSUME NEW b \in Browsers, DropCipherKey(b) PROVE PasswordsOfTheirAccounts'
  BY <1>12 DEF DropCipherKey, Pages, Redirects, Working, SigningIn, Passwords, Current, Accounts
<1>13. ASSUME NEW b \in Browsers, Logout(b) PROVE PasswordsOfTheirAccounts'
  BY <1>13 DEF Logout, Pages, Redirects, Working, SigningIn, Passwords, Current, Accounts
<1>14. ASSUME NEW b \in Browsers, TokenExpires(b) PROVE PasswordsOfTheirAccounts'
  BY <1>14 DEF TokenExpires, Pages, Redirects, Working, SigningIn, Passwords, Current, Accounts
<1>15. ASSUME NEW a \in Accounts, PasswordExpires(a) PROVE PasswordsOfTheirAccounts'
  BY <1>15 DEF PasswordExpires, Pages, Redirects, Working, SigningIn, Passwords, Current, Accounts
<1>16. ASSUME NEW n \in Names, ExpireKeys(n) PROVE PasswordsOfTheirAccounts'
  BY <1>16 DEF ExpireKeys
<1>17. ASSUME NEW a \in Accounts, PasswordSetElsewhere(a) PROVE PasswordsOfTheirAccounts'
  BY <1>17 DEF PasswordSetElsewhere, Passwords, Accounts
<1>18. CASE Restart BY <1>18 DEF Restart, Pages, Redirects, Working, SigningIn, Passwords, Current, Accounts
<1>19. CASE UNCHANGED vars BY <1>19 DEF vars
<1>20. QED
  BY StepCases, <1>1, <1>2, <1>3, <1>4, <1>5, <1>6, <1>7, <1>8, <1>9, <1>10, <1>11, <1>12, <1>13, <1>14, <1>15, <1>16, <1>18, <1>19, <1>17

(* The invariant of the module holds in every state. *)
THEOREM Invariance == Spec => []IInv
<1>1. Init => IInv
  BY ExpiredPasswordAssumption
  DEF Init, IInv, TypeOK, RequestLocals, CookiesOfOneAccount,
      PasswordsOfTheirAccounts, Pages, Redirects, Working, SigningIn, Accounts
<1>2. IInv /\ [Next]_vars => IInv'
  BY TypeStep, LocalsStep, CookiesStep, PasswordsStep DEF IInv
<1>3. QED
  BY <1>1, <1>2, PTL DEF Spec

(* Through sign-ins, the refresh of the token, sign-outs and restarts the   *)
(* two cookies of a browser belong to one account.                         *)
THEOREM Cookies == Spec => []CookiesOfOneAccount
<1>1. IInv => CookiesOfOneAccount
  BY DEF IInv
<1>2. QED
  BY Invariance, <1>1, PTL

(* The portal never keeps a password of one account for another, and never *)
(* changes a password for anyone but its browser's user.                   *)
THEOREM OwnPasswords == Spec => []PasswordsOfTheirAccounts
<1>1. IInv => PasswordsOfTheirAccounts
  BY DEF IInv
<1>2. QED
  BY Invariance, <1>1, PTL

-----------------------------------------------------------------------------
(***************************************************************************)
(* The implementation of PasswordRenewal.                                  *)
(***************************************************************************)

provedBar == [b \in Browsers |-> Held(pc[b] \in SigningIn, pwd[b])]
keptBar == {cipherKey[n] : n \in Names} \ {NoPassword}
userBar == [b \in Browsers |-> AccountOf(formsUser[b])]
takenBar == [b \in Browsers |-> Held(pc[b] = "change", pwd[b])]

LEMMA InitRenewal == Init => Renewal!Init
<1> SUFFICES ASSUME Init PROVE Renewal!Init
  OBVIOUS
<1>1. provedBar = [b \in Browsers |-> {}] /\ takenBar = [b \in Browsers |-> {}]
  BY DEF Init, provedBar, takenBar, Held
<1>2. keptBar = {}
  BY DEF Init, keptBar
<1>3. userBar = [b \in Browsers |-> NoName]
  BY DEF Init, userBar, AccountOf
<1> QED
  BY <1>1, <1>2, <1>3 DEF Init, Renewal!Init, provedBar, takenBar, keptBar, userBar

(* What a request holds after it has moved on.                             *)
LEMMA RequestMoves ==
    ASSUME IInv, NEW b \in Browsers, NEW p, NEW q,
           Goto(b, p), pwd' = [pwd EXCEPT ![b] = q]
    PROVE  /\ p \in SigningIn /\ q # NoPassword =>
                  provedBar' = [provedBar EXCEPT ![b] = {q}]
           /\ p \notin SigningIn \/ q = NoPassword =>
                  provedBar' = [provedBar EXCEPT ![b] = {}]
           /\ p = "change" /\ q # NoPassword =>
                  takenBar' = [takenBar EXCEPT ![b] = {q}]
           /\ p # "change" \/ q = NoPassword =>
                  takenBar' = [takenBar EXCEPT ![b] = {}]
<1>1. /\ pc' = [pc EXCEPT ![b] = p] /\ pwd' = [pwd EXCEPT ![b] = q]
      /\ pc \in [Browsers -> Pages \union Redirects \union Working]
      /\ pwd \in [Browsers -> Passwords \union {NoPassword}]
  BY DEF Goto, IInv, TypeOK
<1>2. /\ pc'[b] = p /\ pwd'[b] = q
      /\ \A c \in Browsers \ {b} : pc'[c] = pc[c] /\ pwd'[c] = pwd[c]
  BY <1>1
<1> QED
  BY <1>2 DEF provedBar, takenBar, Held

(* A request that goes on with its sign-in, one without a password, and    *)
(* one between points that hold nothing.                                   *)
LEMMA HoldsTheSame ==
    ASSUME IInv, NEW b \in Browsers, NEW p, NEW q,
           Goto(b, p), pwd' = [pwd EXCEPT ![b] = q],
           \/ pc[b] \in SigningIn /\ p \in SigningIn /\ q = pwd[b]
           \/ pwd[b] = NoPassword /\ q = NoPassword
           \/ pc[b] \notin SigningIn \union {"change"} /\ p \notin SigningIn \union {"change"}
    PROVE  UNCHANGED <<provedBar, takenBar>>
<1>1. /\ pc' = [pc EXCEPT ![b] = p] /\ pwd' = [pwd EXCEPT ![b] = q]
      /\ pc \in [Browsers -> Pages \union Redirects \union Working]
      /\ pwd \in [Browsers -> Passwords \union {NoPassword}]
  BY DEF Goto, IInv, TypeOK
<1>2. /\ pc'[b] = p /\ pwd'[b] = q
      /\ \A c \in Browsers \ {b} : pc'[c] = pc[c] /\ pwd'[c] = pwd[c]
  BY <1>1
<1> QED
  BY <1>2 DEF provedBar, takenBar, Held, SigningIn

(* Browsers that forget what they hold.                                    *)
Without(f, some) == [c \in Browsers |-> IF c \in some THEN {} ELSE f[c]]

LEMMA OneForgets ==
    ASSUME NEW b \in Browsers,
           provedBar' = [provedBar EXCEPT ![b] = {}],
           takenBar' = [takenBar EXCEPT ![b] = {}]
    PROVE  provedBar' = Without(provedBar, {b}) /\ takenBar' = Without(takenBar, {b})
  BY DEF provedBar, takenBar, Without

(* A page and a redirect hold nothing.                                     *)
LEMMA IdleHoldsNothing ==
    ASSUME IInv, NEW b \in Browsers
    PROVE  /\ pc[b] \notin SigningIn => provedBar[b] = {}
           /\ pc[b] # "change" => takenBar[b] = {}
  BY DEF provedBar, takenBar, Held

(* Steps that leave what is kept, proved, taken up and signed in alone.    *)
same == UNCHANGED <<version, expired, provedBar, keptBar, userBar, takenBar>>

LEMMA Stutters == same => UNCHANGED Renewal!vars
  BY DEF same, Renewal!vars, provedBar, keptBar, userBar, takenBar

(* Every step of the renewal is one PasswordRenewal allows, or changes     *)
(* nothing it speaks of.                                                   *)
LEMMA NextRenewal == IInv /\ [Next]_vars => [Renewal!Next]_(Renewal!vars)
<1> SUFFICES ASSUME IInv, [Next]_vars
             PROVE  [Renewal!Next]_(Renewal!vars)
  OBVIOUS
<1> USE ExpiredPasswordAssumption
<1>t. TypeOK /\ RequestLocals /\ PasswordsOfTheirAccounts
  BY DEF IInv
<1>k. UNCHANGED keyVars => UNCHANGED keptBar
  BY DEF keyVars, keptBar
<1>u. UNCHANGED formsUser => UNCHANGED userBar
  BY DEF userBar, AccountOf
<1>l. ASSUME NEW some \in SUBSET Browsers, keptBar' \in SUBSET keptBar,
             provedBar' = Without(provedBar, some),
             takenBar' = Without(takenBar, some),
             UNCHANGED <<version, expired, userBar>>
      PROVE  Renewal!Lose
  BY <1>l DEF Renewal!Lose, Without, provedBar, takenBar, keptBar, userBar
<1>1. ASSUME NEW b \in Browsers, Answers(b) PROVE Renewal!Lose
  <2>1. PICK p \in Pages \union Redirects : Answer(b, p)
    BY <1>1 DEF Answers
  <2>2. /\ provedBar' = [provedBar EXCEPT ![b] = {}]
        /\ takenBar' = [takenBar EXCEPT ![b] = {}]
    <3>1. p \notin SigningIn /\ p # "change"
      BY DEF Pages, Redirects, SigningIn
    <3> QED
      BY <2>1, <3>1, RequestMoves DEF Answer
  <2>3. UNCHANGED <<version, expired, userBar, keptBar>>
    BY <1>1, <1>k, <1>u DEF Answers, adVars, cookieVars
  <2>4. /\ provedBar' = Without(provedBar, {b})
        /\ takenBar' = Without(takenBar, {b})
    BY <2>2, OneForgets
  <2> QED
    BY <2>3, <2>4, <1>l
<1>2. ASSUME NEW b \in Browsers, SignsOut(b) PROVE Renewal!Leave(b)
  <2>1. PICK p \in Pages \union Redirects : Answer(b, p)
    BY <1>2 DEF SignsOut
  <2>2. UNCHANGED <<provedBar, takenBar>>
    <3>1. p \notin SigningIn /\ p # "change"
          /\ pc[b] \notin SigningIn /\ pc[b] # "change"
      BY <1>2 DEF SignsOut, Pages, Redirects, SigningIn
    <3> QED
      BY <2>1, <3>1, HoldsTheSame DEF Answer
  <2>3. userBar' = [userBar EXCEPT ![b] = NoName]
    BY <1>2, <1>t DEF SignsOut, SignOut, userBar, AccountOf, TypeOK
  <2>4. UNCHANGED <<version, expired, keptBar>>
    BY <1>2, <1>k DEF SignsOut, adVars
  <2> QED
    BY <2>2, <2>3, <2>4 DEF Renewal!Leave, provedBar, takenBar, keptBar, userBar
<1>3. ASSUME NEW b \in Browsers, SubmitExpired(b)
      PROVE  \E a \in Accounts : Renewal!Prove(b, a)
  <2>1. PICK n \in Names : /\ Account[n] \in expired
                           /\ pwd' = [pwd EXCEPT ![b] = Current(Account[n])]
    BY <1>3 DEF SubmitExpired
  <2>2. PICK p \in {"setUser", "signIn"} : Goto(b, p)
    BY <1>3 DEF SubmitExpired
  <2>3. Current(Account[n]) # NoPassword /\ Account[n] \in Accounts
    BY <1>t DEF TypeOK, Current, Accounts
  <2>4. /\ provedBar' = [provedBar EXCEPT ![b] = {Current(Account[n])}]
        /\ takenBar' = [takenBar EXCEPT ![b] = {}]
    BY <2>1, <2>2, <2>3, RequestMoves DEF SigningIn
  <2>5. UNCHANGED takenBar
    BY <1>3, <2>4, IdleHoldsNothing DEF SubmitExpired, takenBar
  <2>6. UNCHANGED <<version, expired, keptBar, userBar>>
    BY <1>3, <1>k, <1>u DEF SubmitExpired, adVars, cookieVars
  <2>7. Renewal!Prove(b, Account[n])
    BY <2>1, <2>4, <2>5, <2>6
    DEF Renewal!Prove, Renewal!Current, Current, provedBar, takenBar, keptBar, userBar
  <2> QED
    BY <2>3, <2>7
<1>4. ASSUME NEW b \in Browsers, SetUserKey(b) PROVE same
  <2>1. Goto(b, "setCipher") /\ pwd' = [pwd EXCEPT ![b] = pwd[b]]
    BY <1>4, <1>t DEF SetUserKey, TypeOK
  <2>2. UNCHANGED <<provedBar, takenBar>>
    BY <1>4, <2>1, HoldsTheSame DEF SetUserKey, SigningIn
  <2> QED
    BY <1>4, <2>2, <1>u DEF SetUserKey, same, keptBar, adVars, cookieVars
<1>5. ASSUME NEW b \in Browsers, SetCipherKey(b) PROVE Renewal!Keep(b)
  <2>1. Goto(b, "signIn") /\ pwd' = [pwd EXCEPT ![b] = pwd[b]] /\ pc[b] = "setCipher"
    BY <1>5, <1>t DEF SetCipherKey, TypeOK
  <2>2. UNCHANGED <<provedBar, takenBar>>
    BY <2>1, HoldsTheSame DEF SigningIn
  <2>3. provedBar[b] = {pwd[b]} \ {NoPassword}
    BY <2>1 DEF provedBar, Held, SigningIn
  <2>4. \E others \in SUBSET keptBar : keptBar' = others \union provedBar[b]
    <3> DEFINE rest == {cipherKey[n] : n \in Names \ {typed[b]}} \ {NoPassword}
    <3>1. typed[b] \in Names
      BY <2>1, <1>t DEF TypeOK, RequestLocals, Working, SigningIn
    <3>2. /\ cipherKey'[typed[b]] = pwd[b]
          /\ \A n \in Names \ {typed[b]} : cipherKey'[n] = cipherKey[n]
      BY <1>5, <3>1, <1>t DEF SetCipherKey, TypeOK
    <3>3. keptBar' = rest \union provedBar[b]
      BY <2>3, <3>1, <3>2 DEF keptBar
    <3>4. rest \in SUBSET keptBar
      BY DEF keptBar
    <3> QED
      BY <3>3, <3>4
  <2>5. UNCHANGED <<version, expired, userBar>>
    BY <1>5, <1>u DEF SetCipherKey, adVars, cookieVars
  <2> QED
    BY <2>2, <2>4, <2>5 DEF Renewal!Keep, provedBar, takenBar, keptBar, userBar
<1>6. ASSUME NEW b \in Browsers, SubmitValid(b) PROVE same
  <2>1. /\ Goto(b, "signIn") /\ pwd' = [pwd EXCEPT ![b] = NoPassword]
        /\ pc[b] = "login"
    BY <1>6, <1>t DEF SubmitValid, TypeOK, RequestLocals, Working, SigningIn
  <2>2. UNCHANGED <<provedBar, takenBar>>
    BY <2>1, <1>t, HoldsTheSame DEF RequestLocals, Working, SigningIn
  <2> QED
    BY <1>6, <2>2, <1>k, <1>u DEF SubmitValid, same, adVars, cookieVars
<1>7. ASSUME NEW b \in Browsers, FinishSignIn(b)
      PROVE  Renewal!Lose \/ \E a \in Accounts : Renewal!SignIn(b, a)
  <2>1. PICK p \in Pages \union Redirects : Answer(b, p)
    BY <1>7 DEF FinishSignIn, Pages, Redirects
  <2>2. /\ provedBar' = [provedBar EXCEPT ![b] = {}]
        /\ takenBar' = [takenBar EXCEPT ![b] = {}]
    <3>1. p \notin SigningIn /\ p # "change"
      BY DEF Pages, Redirects, SigningIn
    <3> QED
      BY <2>1, <3>1, RequestMoves DEF Answer
  <2>3. UNCHANGED <<version, expired, keptBar>>
    BY <1>7, <1>k DEF FinishSignIn, adVars
  <2>4. CASE UNCHANGED formsUser
    <3>1. /\ provedBar' = Without(provedBar, {b})
          /\ takenBar' = Without(takenBar, {b})
      BY <2>2, OneForgets
    <3> QED
      BY <2>3, <2>4, <3>1, <1>l, <1>u
  <2>5. CASE formsUser' = [formsUser EXCEPT ![b] = Account[typed[b]]]
    <3> DEFINE a == Account[typed[b]]
    <3>1. typed[b] \in Names /\ a \in Names /\ Account[a] = a /\ a # NoName
          /\ a \in Accounts
      BY <1>7, <1>t DEF FinishSignIn, TypeOK, RequestLocals, Working, SigningIn, Accounts
    <3>2. userBar' = [userBar EXCEPT ![b] = a]
      BY <2>5, <3>1, <1>t DEF userBar, AccountOf, TypeOK
    <3>3. \A q \in provedBar[b] : q.of = a
      BY <1>t DEF provedBar, Held, PasswordsOfTheirAccounts
    <3>4. UNCHANGED takenBar
      BY <1>7, <2>2, IdleHoldsNothing DEF FinishSignIn, takenBar
    <3>5. Renewal!SignIn(b, a)
      BY <2>2, <2>3, <3>2, <3>3, <3>4
      DEF Renewal!SignIn, provedBar, takenBar, keptBar, userBar
    <3> QED
      BY <3>1, <3>5
  <2> QED
    BY <1>7, <2>4, <2>5 DEF FinishSignIn, cookieVars
<1>8. ASSUME NEW b \in Browsers, PostChange(b) PROVE Renewal!TakeUp(b)
  <2> DEFINE n == formsUser[b]
             p == cipherKey[n]
  <2>1. /\ n \in Names /\ p # NoPassword /\ p \in keptBar
        /\ p.of = Account[n] /\ userBar[b] = Account[n]
    BY <1>8, <1>t DEF PostChange, HasKeys, TypeOK, keptBar, userBar, AccountOf,
                      PasswordsOfTheirAccounts
  <2>2. Goto(b, "change") /\ pwd' = [pwd EXCEPT ![b] = p] /\ pc[b] = "form"
    BY <1>8 DEF PostChange
  <2>3. /\ provedBar' = [provedBar EXCEPT ![b] = {}]
        /\ takenBar' = [takenBar EXCEPT ![b] = {p}]
    <3>1. "change" \notin SigningIn
      BY DEF SigningIn
    <3>2. p # NoPassword /\ Goto(b, "change") /\ pwd' = [pwd EXCEPT ![b] = p]
      BY <2>1, <2>2
    <3> HIDE DEF p
    <3>3. takenBar' = [takenBar EXCEPT ![b] = {p}]
      BY <3>2, RequestMoves
    <3>4. provedBar' = [provedBar EXCEPT ![b] = {}]
      BY <3>1, <3>2, RequestMoves
    <3> QED
      BY <3>3, <3>4
  <2>4. UNCHANGED provedBar
    BY <2>2, <2>3, IdleHoldsNothing DEF SigningIn, provedBar
  <2>5. UNCHANGED <<version, expired, keptBar, userBar>>
    BY <1>8, <1>k, <1>u DEF PostChange, adVars, cookieVars
  <2> QED
    BY <2>1, <2>3, <2>4, <2>5
    DEF Renewal!TakeUp, provedBar, takenBar, keptBar, userBar
<1>9. ASSUME NEW b \in Browsers, ChangePassword(b)
      PROVE  \E a \in Accounts : Renewal!Renew(b, a)
  <2> DEFINE a == Account[typed[b]]
  <2>1. /\ typed[b] \in Names /\ a \in Accounts
        /\ formsUser[b] = typed[b] /\ userBar[b] = a
    BY <1>9, <1>t DEF ChangePassword, TypeOK, RequestLocals, Working, Accounts,
                      PasswordsOfTheirAccounts, userBar, AccountOf
  <2>2. /\ pc[b] = "change" /\ pwd[b] = Current(a)
        /\ version' = [version EXCEPT ![a] = @ + 1]
        /\ expired' = expired \ {a}
        /\ UNCHANGED <<cookieVars, keyVars>>
    BY <1>9 DEF ChangePassword
  <2>3. Current(a) \in takenBar[b]
    <3>1. Current(a) # NoPassword
      BY <2>1, <1>t DEF TypeOK, Current, Accounts
    <3> QED
      BY <2>2, <3>1 DEF takenBar, Held
  <2>4. /\ provedBar' = [provedBar EXCEPT ![b] = {}]
        /\ takenBar' = [takenBar EXCEPT ![b] = {}]
    <3>1. CASE Goto(b, "refresh") /\ UNCHANGED <<typed, pwd>>
      <4>1. pwd' = [pwd EXCEPT ![b] = pwd[b]]
        BY <3>1, <1>t DEF TypeOK
      <4> QED
        BY <3>1, <4>1, RequestMoves DEF SigningIn
    <3>2. CASE Answer(b, "form")
      BY <3>2, RequestMoves DEF Answer, SigningIn
    <3> QED
      BY <1>9, <3>1, <3>2 DEF ChangePassword
  <2>5. UNCHANGED provedBar
    BY <2>2, <2>4, IdleHoldsNothing DEF SigningIn, provedBar
  <2>6. UNCHANGED <<keptBar, userBar>>
    BY <2>2, <1>k, <1>u DEF cookieVars
  <2>7. Renewal!Renew(b, a)
    BY <2>1, <2>2, <2>3, <2>4, <2>5, <2>6
    DEF Renewal!Renew, Renewal!Current, Current, provedBar, takenBar, keptBar, userBar
  <2> QED
    BY <2>1, <2>7
<1>10. ASSUME NEW b \in Browsers, Refresh(b) PROVE same
  <2>1. /\ Goto(b, "dropUser") /\ pc[b] = "refresh"
        /\ pwd' = [pwd EXCEPT ![b] = pwd[b]]
        /\ formsUser[b] = typed[b]
        /\ formsUser' = [formsUser EXCEPT ![b] = typed[b]]
    BY <1>10, <1>t DEF Refresh, TypeOK, PasswordsOfTheirAccounts
  <2>2. UNCHANGED <<provedBar, takenBar>>
    BY <2>1, HoldsTheSame DEF SigningIn
  <2>3. UNCHANGED formsUser
    BY <2>1, <1>t DEF TypeOK
  <2> QED
    BY <1>10, <2>2, <2>3, <1>k, <1>u DEF Refresh, same, adVars
<1>11. ASSUME NEW b \in Browsers, DropUserKey(b) PROVE same
  <2>1. /\ Goto(b, "dropCipher") /\ pc[b] = "dropUser"
        /\ pwd' = [pwd EXCEPT ![b] = pwd[b]]
    BY <1>11, <1>t DEF DropUserKey, TypeOK
  <2>2. UNCHANGED <<provedBar, takenBar>>
    BY <2>1, HoldsTheSame DEF SigningIn
  <2> QED
    BY <1>11, <2>2, <1>u DEF DropUserKey, same, keptBar, adVars, cookieVars
<1>12. ASSUME NEW b \in Browsers, DropCipherKey(b) PROVE Renewal!Leave(b)
  <2>1. Answer(b, "done") /\ pc[b] = "dropCipher" /\ SignOut(b)
    BY <1>12 DEF DropCipherKey
  <2>2. UNCHANGED <<provedBar, takenBar>>
    BY <2>1, HoldsTheSame DEF Answer, SigningIn
  <2>3. userBar' = [userBar EXCEPT ![b] = NoName]
    BY <2>1, <1>t DEF SignOut, userBar, AccountOf, TypeOK
  <2>4. keptBar' \in SUBSET keptBar
    BY <1>12, <1>t DEF DropCipherKey, keptBar, TypeOK
  <2>5. UNCHANGED <<version, expired>>
    BY <1>12 DEF DropCipherKey, adVars
  <2> QED
    BY <2>2, <2>3, <2>4, <2>5 DEF Renewal!Leave, provedBar, takenBar, keptBar, userBar
<1>13. ASSUME NEW b \in Browsers, Logout(b) PROVE same
  <2>1. Answer(b, "toLogin") /\ pc[b] = "home"
    BY <1>13 DEF Logout
  <2>2. UNCHANGED <<provedBar, takenBar>>
    BY <2>1, HoldsTheSame DEF Answer, SigningIn
  <2> QED
    BY <1>13, <2>2, <1>k, <1>u DEF Logout, same, adVars
<1>14. ASSUME NEW b \in Browsers, TokenExpires(b) PROVE same
  BY <1>14, <1>k, <1>u DEF TokenExpires, same, adVars, requestVars, provedBar, takenBar
<1>15. ASSUME NEW a \in Accounts, PasswordExpires(a) \/ PasswordSetElsewhere(a)
       PROVE  Renewal!Expire(a) \/ Renewal!SetElsewhere(a)
  <2>1. UNCHANGED <<provedBar, takenBar, keptBar, userBar>>
    BY <1>15, <1>k, <1>u DEF PasswordExpires, PasswordSetElsewhere, cookieVars,
                             requestVars, provedBar, takenBar
  <2> QED
    BY <1>15, <2>1 DEF PasswordExpires, PasswordSetElsewhere, Renewal!Expire,
                       Renewal!SetElsewhere, provedBar, takenBar, keptBar, userBar
<1>16. ASSUME NEW n \in Names, ExpireKeys(n) PROVE Renewal!Lose
  <2>1. keptBar' \in SUBSET keptBar
    BY <1>16, <1>t DEF ExpireKeys, keptBar, TypeOK
  <2>2. UNCHANGED <<version, expired, userBar, provedBar, takenBar>>
    BY <1>16, <1>u DEF ExpireKeys, requestVars, cookieVars, adVars, provedBar, takenBar
  <2>3. /\ provedBar' = Without(provedBar, {})
        /\ takenBar' = Without(takenBar, {})
    BY <2>2 DEF provedBar, takenBar, Without
  <2> QED
    BY <2>1, <2>2, <2>3, <1>l
<1>17. CASE Restart
  <2>1. keptBar' \in SUBSET keptBar
    BY <1>17 DEF Restart, keptBar
  <2>2. UNCHANGED <<version, expired, userBar>>
    BY <1>17, <1>u DEF Restart, cookieVars, adVars
  <2>3. /\ provedBar' = Without(provedBar, Browsers)
        /\ takenBar' = Without(takenBar, Browsers)
    BY <1>17 DEF Restart, provedBar, takenBar, Held, Without
  <2>4. Renewal!Lose
    BY <2>1, <2>2, <2>3, <1>l
  <2> QED
    BY <2>4 DEF Renewal!Next
<1>18. CASE UNCHANGED vars
  <2>1. same
    BY <1>18, <1>k, <1>u DEF vars, keyVars, same, provedBar, takenBar
  <2> QED
    BY <2>1, Stutters
<1> QED
  BY StepCases, Stutters, <1>1, <1>2, <1>3, <1>4, <1>5, <1>6, <1>7, <1>8, <1>9,
     <1>10, <1>11, <1>12, <1>13, <1>14, <1>15, <1>16, <1>17, <1>18
     DEF Renewal!Next

(* Only owners renew: whatever browsers, requests, expiries and restarts   *)
(* come together, a renewal is one PasswordRenewal allows.                 *)
THEOREM ImplementsRenewal == Spec => OwnersRenew
  BY InitRenewal, NextRenewal, Invariance, PTL DEF Spec, OwnersRenew, Renewal!Spec
-----------------------------------------------------------------------------
(* Redirects *)

(* What RedirectsDescend says of one browser. *)
Descends(b) ==
    pc[b] \in Redirects \union Working /\ pc'[b] # pc[b] =>
        \/ pc'[b] \in Pages
        \/ Distance(b)' < Distance(b)
        \/ LoginGoesHome(b) /\ ChangeSessionExpired(b)

LEMMA Distances ==
    /\ Away["setUser"] = 11 /\ Away["setCipher"] = 10 /\ Away["signIn"] = 9
    /\ Away["change"] = 8 /\ Away["refresh"] = 7
    /\ Away["dropUser"] = 6 /\ Away["dropCipher"] = 5
    /\ Away["toHome"] = 3 /\ Away["toChange"] = 2 /\ Away["toLogin"] = 1
BY DEF Away

(* Another browser's step leaves this one where it is. *)
LEMMA EachItsOwn ==
    ASSUME TypeOK, NEW b \in Browsers, NEW c \in Browsers, b # c,
           Serve(c) \/ User(c) \/ TokenExpires(c)
    PROVE  pc'[b] = pc[b]
<1>1. \/ \E p \in Pages \union Redirects \union Working : Goto(c, p)
      \/ UNCHANGED pc
  BY DEF Serve, User, Answer, Pages, Redirects, Working, SigningIn, requestVars,
     SetUserKey, SetCipherKey, FinishSignIn, ToLogin,
     ToHomeUnauthorized, ToHomeMustChange, ToHomeAuthorized,
     ChangeUnauthorized, ChangeSessionExpired, ShowForm, ChangePassword,
     ChangeRefused, Refresh, RefreshUnverified, RefreshFails, DropUserKey,
     DropCipherKey, SubmitExpired, SubmitValid, PostChange, Open, OpenDone,
     Logout, TokenExpires
<1>2. QED
  BY <1>1 DEF Goto, TypeOK

(* The server's steps and the redirects of a browser, one by one. *)
LEMMA ServeDescends ==
    ASSUME TypeOK, NEW b \in Browsers, Serve(b)
    PROVE  Descends(b)
<1> USE Distances DEF TypeOK, Goto, Answer, Descends, Distance
<1>1. CASE SetUserKey(b) BY <1>1 DEF SetUserKey
<1>2. CASE SetCipherKey(b) BY <1>2 DEF SetCipherKey
<1>3. CASE FinishSignIn(b)
  <2>1. pc[b] = "signIn" /\ pc'[b] \in {"toHome", "toChange", "toLogin", "error"}
    BY <1>3 DEF FinishSignIn
  <2>2. QED
    BY <2>1 DEF Pages
<1>4. CASE ToLogin(b)
  BY <1>4 DEF ToLogin, LoginGoesHome, Pages
<1>5. CASE ToHomeUnauthorized(b)
  BY <1>5 DEF ToHomeUnauthorized, SignOut, LoginGoesHome
<1>6. CASE ToHomeMustChange(b) BY <1>6 DEF ToHomeMustChange
<1>7. CASE ToHomeAuthorized(b)
  BY <1>7 DEF ToHomeAuthorized, cookieVars, LoginGoesHome, Pages
<1>8. CASE ChangeUnauthorized(b) /\ pc[b] = "toChange"
  BY <1>8 DEF ChangeUnauthorized, SignOut, LoginGoesHome
<1>9. CASE ChangeSessionExpired(b) /\ pc[b] = "toChange"
  BY <1>9 DEF ChangeSessionExpired, cookieVars, LoginGoesHome
<1>10. CASE ShowForm(b) BY <1>10 DEF ShowForm, Pages
<1>11. CASE ChangePassword(b) BY <1>11 DEF ChangePassword, Pages
<1>12. CASE ChangeRefused(b) BY <1>12 DEF ChangeRefused, Pages
<1>13. CASE Refresh(b) BY <1>13 DEF Refresh
<1>14. CASE RefreshUnverified(b) BY <1>14 DEF RefreshUnverified, Pages
<1>15. CASE RefreshFails(b) BY <1>15 DEF RefreshFails, Pages
<1>16. CASE DropUserKey(b) BY <1>16 DEF DropUserKey
<1>17. CASE DropCipherKey(b) BY <1>17 DEF DropCipherKey, Pages
<1>18. QED
  BY <1>1, <1>2, <1>3, <1>4, <1>5, <1>6, <1>7, <1>8, <1>9, <1>10, <1>11, <1>12,
     <1>13, <1>14, <1>15, <1>16, <1>17 DEF Serve

(* No step of any kind leads away from the pages. *)
LEMMA NextDescends ==
    ASSUME TypeOK, [Next]_vars, NEW b \in Browsers
    PROVE  Descends(b)
<1>1. CASE Serve(b)
  BY <1>1, ServeDescends
<1>2. CASE User(b)
  BY <1>2 DEF Descends, User, SubmitExpired, SubmitValid, PostChange,
     Open, OpenDone, Logout, Pages, Redirects, Working, SigningIn
<1>3. ASSUME NEW c \in Browsers, c # b, Serve(c) \/ User(c) \/ TokenExpires(c)
      PROVE  Descends(b)
  BY <1>3, EachItsOwn DEF Descends
<1>4. CASE Restart
  BY <1>4 DEF Restart, Descends, Pages, TypeOK
<1>5. CASE \/ TokenExpires(b)
           \/ \E a \in Accounts : PasswordExpires(a) \/ PasswordSetElsewhere(a)
           \/ \E n \in Names : ExpireKeys(n)
           \/ UNCHANGED vars
  BY <1>5 DEF TokenExpires, PasswordExpires, PasswordSetElsewhere, ExpireKeys,
     requestVars, vars, Descends
<1>6. QED
  BY <1>1, <1>2, <1>3, <1>4, <1>5 DEF Next

(* Every chain of redirects that does not run into the one known circle     *)
(* comes nearer to a page with each step, in both modes and for any number *)
(* of users and browsers.                                                  *)
THEOREM RedirectsComeToPages == Spec => RedirectsDescend
<1>1. IInv /\ [Next]_vars => \A b \in Browsers : Descends(b)
  BY NextDescends DEF IInv
<1>2. QED
  BY <1>1, Invariance, PTL DEF Spec, RedirectsDescend, Descends

=============================================================================
