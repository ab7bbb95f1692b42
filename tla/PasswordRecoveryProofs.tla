----------------------- MODULE PasswordRecoveryProofs -----------------------
(***************************************************************************)
(* Proofs about PasswordRecovery, for any accounts, names, browsers,       *)
(* passwords, requests and requirements: the inductive invariant, the      *)
(* action property about new passwords, which sections can be met, and the *)
(* implementation of PasswordOwnership.                                    *)
(***************************************************************************)
EXTENDS PasswordRecovery, PasswordPolicyProofs, TLAPS

USE DEF directory, idp, browser, vars

(* Initially nothing was recovered and no request is being served.         *)
LEMMA InitIInv == Init => IInv
<1> SUFFICES ASSUME Init PROVE IInv
  OBVIOUS
<1> USE RecoveryAssumption DEF Init
<1>1. Idle \in Work
  BY DEF Idle, Work
<1>2. TypeOK
  BY <1>1 DEF TypeOK
<1>3. RecoveriesOfTheirOwners
  BY DEF RecoveriesOfTheirOwners
<1>4. \A r \in Requests : Checked(work[r])
  BY DEF Checked
<1> QED
  BY <1>2, <1>3, <1>4 DEF IInv

(* A request that comes in with a name known at a browser, and with        *)
(* passwords that were checked, keeps the invariant.                       *)
LEMMA SubmitIInv ==
    ASSUME IInv,
           NEW r \in Requests, NEW op \in {"reset", "change", "unlock"},
           NEW n \in Names, KnownAt(n),
           NEW old \in Passwords \union {NoPassword},
           NEW new \in Passwords \union {NoPassword},
           Submit(r, op, n, old, new),
           \/ op = "reset"  /\ old = NoPassword /\ new \in Passwords
           \/ op = "change" /\ old \in Passwords /\ new \in Passwords
           \/ op = "unlock" /\ old = NoPassword /\ new = NoPassword,
           op # "unlock" => Meets(new)
    PROVE  IInv'
<1> DEFINE w == [step |-> "act", op |-> op, name |-> n, old |-> old, new |-> new]
<1>1. /\ work' = [work EXCEPT ![r] = w]
      /\ submissions' = submissions + 1 /\ submissions < MaxSubmissions
      /\ UNCHANGED <<directory, idp, browser>>
  BY DEF Submit
<1>2. w \in Work
  BY DEF Work
<1>3. TypeOK'
  <2>1. work' \in [Requests -> Work]
    BY <1>1, <1>2 DEF IInv, TypeOK
  <2>2. submissions' \in 0 .. MaxSubmissions
    BY <1>1, RecoveryAssumption DEF IInv, TypeOK
  <2> QED
    BY <1>1, <2>1, <2>2 DEF IInv, TypeOK
<1>4. RecoveriesOfTheirOwners'
  <2>1. ASSUME NEW q \in Requests, work'[q] # Idle PROVE KnownAt(work'[q].name)
    BY <2>1, <1>1 DEF IInv, TypeOK, RecoveriesOfTheirOwners
  <2> QED
    BY <2>1, <1>1 DEF IInv, RecoveriesOfTheirOwners, KnownAt
<1>5. Checked(w)
  BY DEF Checked
<1>6. (\A q \in Requests : Checked(work[q]))'
  BY <1>1, <1>5 DEF IInv, TypeOK, Checked, Meets
<1> QED
  BY <1>3, <1>4, <1>6 DEF IInv

(* A request at the directory moves on or ends; the directory may change.  *)
LEMMA WorkIInv ==
    ASSUME IInv, NEW r \in Requests, work[r].step \in {"act", "save"},
           Saving(r) \/ Answer(r),
           password' \in [Accounts -> Passwords], locked' \subseteq Accounts,
           UNCHANGED <<idp, browser, submissions>>
    PROVE  IInv'
<1>1. Checked(work[r]) /\ work[r] \in Work /\ work[r] # Idle
  BY DEF IInv, TypeOK, Idle
<1>2. /\ work'[r] \in Work
      /\ Checked(work'[r])
      /\ work'[r] = Idle \/ work'[r].name = work[r].name
      /\ \A q \in Requests \ {r} : work'[q] = work[q]
      /\ work' \in [Requests -> Work]
  <2>1. CASE Saving(r)
    <3>1. work'[r] = [work[r] EXCEPT !.step = "save"]
      BY <2>1 DEF Saving, IInv, TypeOK
    <3>2. /\ work'[r].step = "save" /\ work'[r].op = work[r].op
          /\ work'[r].name = work[r].name /\ work'[r].old = work[r].old
          /\ work'[r].new = work[r].new /\ work'[r] \in Work
      BY <3>1, <1>1 DEF Work
    <3>3. Checked(work'[r])
      BY <3>2, <1>1 DEF Checked
    <3> QED
      BY <2>1, <3>2, <3>3 DEF Saving, IInv, TypeOK
  <2>2. CASE Answer(r)
    <3>1. Idle \in Work
      BY DEF Idle, Work
    <3> QED
      BY <2>2, <3>1 DEF Answer, IInv, TypeOK, Checked
  <2> QED
    BY <2>1, <2>2
<1>3. TypeOK'
  BY <1>2 DEF IInv, TypeOK
<1>4. RecoveriesOfTheirOwners'
  <2>1. ASSUME NEW q \in Requests, work'[q] # Idle PROVE KnownAt(work'[q].name)
    BY <2>1, <1>1, <1>2 DEF IInv, RecoveriesOfTheirOwners
  <2> QED
    BY <2>1 DEF IInv, RecoveriesOfTheirOwners, KnownAt
<1>5. (\A q \in Requests : Checked(work[q]))'
  BY <1>2 DEF IInv, Checked, Meets
<1> QED
  BY <1>3, <1>4, <1>5 DEF IInv

(* Steps of the IdP, of the browser and of the directory's own leave the   *)
(* requests alone: types and owners are all there is to show.              *)
LEMMA QuietIInv ==
    ASSUME IInv, TypeOK', UNCHANGED work,
           \A b \in Browsers :
               /\ \A t \in tokens'[b] : Owner[t.name] \in People[b]
               /\ \A n \in forms'[b] : Owner[n] \in People[b]
               /\ cookie'[b] # NoName => Owner[cookie'[b]] \in People[b]
    PROVE  IInv'
  BY DEF IInv, RecoveriesOfTheirOwners, KnownAt, Checked, Meets

(* Every step keeps the invariant.                                         *)
LEMMA NextIInv == IInv /\ [Next]_vars => IInv'
<1> SUFFICES ASSUME IInv, [Next]_vars PROVE IInv'
  OBVIOUS
<1> USE RecoveryAssumption DEF Token
<1>t. /\ TypeOK
      /\ \A b \in Browsers :
            /\ \A t \in tokens[b] : Owner[t.name] \in People[b]
            /\ \A n \in forms[b] : Owner[n] \in People[b]
            /\ cookie[b] # NoName => Owner[cookie[b]] \in People[b]
  BY DEF IInv, RecoveriesOfTheirOwners
<1>1. ASSUME NEW a \in Accounts, LockOut(a) PROVE IInv'
  BY <1>1, <1>t, QuietIInv DEF LockOut, TypeOK
<1>2. ASSUME NEW b \in Browsers, NEW t \in Token, Index(b, t) PROVE IInv'
  BY <1>2, <1>t, QuietIInv DEF Index, TypeOK
<1>3. ASSUME NEW b \in Browsers, NEW t \in Token, IdPReturns(b, t) PROVE IInv'
  BY <1>3, <1>t, QuietIInv DEF IdPReturns, TypeOK
<1>4. ASSUME NEW b \in Browsers, NEW t \in Token, TokenExpires(b, t) PROVE IInv'
  BY <1>4, <1>t, QuietIInv DEF TokenExpires, TypeOK
<1>5. ASSUME NEW b \in Browsers, NEW t \in Token, Reset(b, t) PROVE IInv'
  BY <1>5, <1>t, QuietIInv DEF Reset, TypeOK
<1>6. ASSUME NEW b \in Browsers, CookieExpires(b) PROVE IInv'
  BY <1>6, <1>t, QuietIInv DEF CookieExpires, TypeOK
<1>7. ASSUME NEW b \in Browsers, NEW n \in Names, CloseTab(b, n) PROVE IInv'
  BY <1>7, <1>t, QuietIInv DEF CloseTab, TypeOK
<1>8. ASSUME NEW r \in Requests, NEW b \in Browsers, NEW n \in Names,
             NEW new \in Passwords, ConfirmReset(r, b, n, new)
      PROVE  IInv'
  <2>1. KnownAt(n)
    BY <1>8, <1>t DEF ConfirmReset, KnownAt
  <2> QED
    BY <1>8, <2>1, SubmitIInv DEF ConfirmReset
<1>9. ASSUME NEW r \in Requests, NEW b \in Browsers, NEW n \in Names,
             NEW old \in Passwords, NEW new \in Passwords, Change(r, b, n, old, new)
      PROVE  IInv'
  <2>1. KnownAt(n)
    BY <1>9 DEF Change, KnownAt
  <2> QED
    BY <1>9, <2>1, SubmitIInv DEF Change
<1>10. ASSUME NEW r \in Requests, NEW b \in Browsers, NEW t \in Token, Complete(r, b, t)
       PROVE  IInv'
  <2>1. KnownAt(t.name) /\ t.name \in Names
    BY <1>10, <1>t DEF Complete, KnownAt
  <2> QED
    BY <1>10, <2>1, SubmitIInv DEF Complete
<1>11. ASSUME NEW r \in Requests, ResetPassword(r) PROVE IInv'
  <2>1. Checked(work[r]) /\ work[r] # Idle
    BY <1>11 DEF ResetPassword, At, IInv, Idle
  <2>2. Owner[work[r].name] \in Accounts /\ work[r].new \in Passwords
    BY <1>11, <2>1 DEF ResetPassword, At, Checked
  <2> QED
    BY <1>11, <1>t, <2>2, WorkIInv DEF ResetPassword, At, TypeOK
<1>12. ASSUME NEW r \in Requests, ChangeValidPassword(r) PROVE IInv'
  <2>1. Checked(work[r]) /\ work[r] # Idle
    BY <1>12 DEF ChangeValidPassword, At, IInv, Idle
  <2>2. Owner[work[r].name] \in Accounts /\ work[r].new \in Passwords
    BY <1>12, <2>1 DEF ChangeValidPassword, At, Checked
  <2> QED
    BY <1>12, <1>t, <2>2, WorkIInv DEF ChangeValidPassword, At, TypeOK
<1>13. ASSUME NEW r \in Requests, UnlockUser(r) PROVE IInv'
  BY <1>13, <1>t, WorkIInv DEF UnlockUser, At, TypeOK
<1>14. ASSUME NEW r \in Requests, Refuse(r) PROVE IInv'
  BY <1>14, <1>t, WorkIInv DEF Refuse, TypeOK
<1>15. ASSUME NEW r \in Requests, Save(r) PROVE IInv'
  BY <1>15, <1>t, WorkIInv DEF Save, TypeOK
<1>16. ASSUME Restart PROVE IInv'
  <2>1. TypeOK'
    BY <1>16, <1>t DEF Restart, TypeOK, Idle, Work
  <2>2. RecoveriesOfTheirOwners'
    BY <1>16, <1>t DEF Restart, RecoveriesOfTheirOwners, KnownAt
  <2>3. (\A r \in Requests : Checked(work[r]))'
    BY <1>16 DEF Restart, Checked
  <2> QED
    BY <2>1, <2>2, <2>3 DEF IInv
<1>17. CASE UNCHANGED vars
  BY <1>17, <1>t, QuietIInv DEF TypeOK
<1> QED
  BY <1>1, <1>2, <1>3, <1>4, <1>5, <1>6, <1>7, <1>8, <1>9, <1>10, <1>11, <1>12,
     <1>13, <1>14, <1>15, <1>16, <1>17 DEF Next

(* The inductive invariant holds, and with it type correctness.            *)
THEOREM Invariance == Spec => []IInv
  BY InitIInv, NextIInv, PTL DEF Spec

(* Every cookie, form and request stems from a proof its owner gave.       *)
THEOREM OwnersRecover == Spec => []RecoveriesOfTheirOwners
<1>1. IInv => RecoveriesOfTheirOwners
  BY DEF IInv
<1> QED
  BY <1>1, Invariance, PTL

(* No step puts a password into the directory that misses a requirement.   *)
THEOREM RequirementsKept == Spec => NewPasswordsMeetRequirements
<1> DEFINE Kept == \A a \in Accounts : password'[a] # password[a] => Meets(password'[a])
<1>1. IInv /\ [Next]_vars => [Kept]_vars
  <2> SUFFICES ASSUME IInv, [Next]_vars, NEW a \in Accounts,
                      password'[a] # password[a]
               PROVE  Meets(password'[a])
    OBVIOUS
  <2>1. PICK r \in Requests : ResetPassword(r) \/ ChangeValidPassword(r)
    BY DEF Next, LockOut, Index, IdPReturns, TokenExpires, Reset, CookieExpires,
           CloseTab, ConfirmReset, Change, Complete, Submit, UnlockUser, Refuse,
           Save, Restart
  <2>2. /\ work[r].step = "act" /\ work[r].op \in {"reset", "change"}
        /\ password' = [password EXCEPT ![Owner[work[r].name]] = work[r].new]
    BY <2>1 DEF ResetPassword, ChangeValidPassword, At
  <2>3. Meets(work[r].new)
    BY <2>2 DEF IInv, Checked, Idle
  <2>4. password'[a] = work[r].new
    BY <2>2 DEF IInv, TypeOK
  <2> QED
    BY <2>3, <2>4
<1> QED
  BY <1>1, Invariance, PTL DEF Spec, NewPasswordsMeetRequirements

-----------------------------------------------------------------------------
(***************************************************************************)
(* The portal implements PasswordOwnership.                                *)
(***************************************************************************)

(* The abstract state, under the names of the abstract specification.      *)
recoveredBar == [b \in Browsers |-> {<<t.kind, Owner[t.name]>> : t \in tokens[b]}]
openBar == [b \in Browsers |-> AccountOf(cookie[b])]
grantedBar == [r \in Requests |-> PermitOf(work[r])]

LEMMA InitOwnership == Init => Ownership!Init
<1> SUFFICES ASSUME Init PROVE Ownership!Init
  OBVIOUS
<1> USE DEF Init, Ownership!Init
<1>1. recoveredBar = [b \in Browsers |-> {}]
  BY DEF recoveredBar
<1>2. openBar = [b \in Browsers |-> NoName]
  BY DEF openBar, AccountOf
<1>3. grantedBar = [r \in Requests |-> {}]
  BY DEF grantedBar, PermitOf, Idle
<1> QED
  BY <1>1, <1>2, <1>3 DEF recoveredBar, openBar, grantedBar

(* A request that comes in takes up a permit its browser, or the password  *)
(* its user typed, allows.                                                 *)
LEMMA SubmitGrants ==
    ASSUME IInv, NEW r \in Requests, NEW b \in Browsers, NEW n \in Names,
           NEW op \in {"reset", "change", "unlock"},
           NEW old \in Passwords \union {NoPassword},
           NEW new \in Passwords \union {NoPassword},
           Submit(r, op, n, old, new),
           \/ op = "reset" /\ cookie[b] = n /\ old = NoPassword /\ new \in Passwords
           \/ op = "change" /\ old \in Passwords /\ new \in Passwords
           \/ /\ op = "unlock" /\ old = NoPassword /\ new = NoPassword
              /\ \E t \in tokens[b] : t.kind = "unlock" /\ t.name = n
    PROVE  Ownership!GrantReset \/ Ownership!GrantChange \/ Ownership!GrantUnlock
<1>1. /\ work' = [work EXCEPT ![r] = [step |-> "act", op |-> op, name |-> n,
                                     old |-> old, new |-> new]]
      /\ UNCHANGED <<directory, idp, browser>>
  BY DEF Submit
<1>2. n # NoName /\ Owner[n] \in Accounts
  BY RecoveryAssumption
<1>3. grantedBar' = [grantedBar EXCEPT ![r] = {<<op, Owner[n], old, new>>}]
  BY <1>1, <1>2 DEF grantedBar, PermitOf, AccountOf, IInv, TypeOK
<1>4. UNCHANGED <<password, locked, recoveredBar, openBar>>
  BY <1>1 DEF recoveredBar, openBar
<1>5. Ownership!TakeUp(r, Ownership!Permit(op, Owner[n], old, new))
  BY <1>3, <1>4 DEF Ownership!TakeUp, Ownership!Permit, recoveredBar, openBar, grantedBar
<1>6. CASE op = "reset"
  <2>1. openBar[b] = Owner[n] /\ new \in Passwords
    BY <1>2, <1>6 DEF openBar, AccountOf
  <2>2. Ownership!TakeUp(r, Ownership!Permit("reset", Owner[n], NoPassword, new))
    BY <1>5, <1>6
  <2> QED
    BY <1>2, <2>1, <2>2 DEF Ownership!GrantReset, openBar
<1>7. CASE op = "change"
  BY <1>2, <1>5, <1>7 DEF Ownership!GrantChange
<1>8. CASE op = "unlock"
  <2>1. <<"unlock", Owner[n]>> \in recoveredBar[b]
    BY <1>8 DEF recoveredBar
  <2>2. Ownership!TakeUp(r, Ownership!Permit("unlock", Owner[n], NoPassword, NoPassword))
    BY <1>5, <1>8
  <2> QED
    BY <1>2, <2>1, <2>2 DEF Ownership!GrantUnlock, recoveredBar
<1> QED
  BY <1>6, <1>7, <1>8

(* A request at the directory gives its permit back with the step it       *)
(* takes, whatever the step does to the directory.                         *)
LEMMA WorkGivesBack ==
    ASSUME IInv, NEW r \in Requests, Saving(r) \/ Answer(r),
           UNCHANGED <<idp, browser>>
    PROVE  /\ grantedBar' = [grantedBar EXCEPT ![r] = {}]
           /\ UNCHANGED <<recoveredBar, openBar>>
<1>1. /\ work'[r].step # "act"
      /\ \A q \in Requests \ {r} : work'[q] = work[q]
  <2>1. CASE Saving(r)
    <3>1. work[r] \in Work /\ work'[r] = [work[r] EXCEPT !.step = "save"]
      BY <2>1 DEF Saving, IInv, TypeOK
    <3>2. work'[r].step = "save"
      BY <3>1 DEF Work
    <3> QED
      BY <2>1, <3>2 DEF Saving, IInv, TypeOK
  <2>2. CASE Answer(r)
    BY <2>2 DEF Answer, Idle, IInv, TypeOK
  <2> QED
    BY <2>1, <2>2
<1>2. PermitOf(work'[r]) = {}
  BY <1>1 DEF PermitOf
<1>3. \A q \in Requests \ {r} : PermitOf(work[q])' = PermitOf(work[q])
  BY <1>1 DEF PermitOf, AccountOf
<1>4. grantedBar' = [q \in Requests |-> PermitOf(work[q])']
  BY DEF grantedBar
<1> QED
  BY <1>1, <1>2, <1>3, <1>4 DEF grantedBar, recoveredBar, openBar, PermitOf, AccountOf

LEMMA NextOwnership == IInv /\ [Next]_vars => [Ownership!Next]_(Ownership!vars)
<1> SUFFICES ASSUME IInv, [Next]_vars
             PROVE  [Ownership!Next]_(Ownership!vars)
  OBVIOUS
<1> USE RecoveryAssumption
<1> DEFINE same == UNCHANGED <<password, locked, recoveredBar, openBar, grantedBar>>
           grants == Ownership!GrantReset \/ Ownership!GrantChange \/ Ownership!GrantUnlock
<1>s. same => UNCHANGED Ownership!vars
  BY DEF Ownership!vars, recoveredBar, openBar, grantedBar
<1>r. ASSUME NEW b \in Browsers, tokens' \in [Browsers -> SUBSET Token],
             \A c \in Browsers \ {b} : tokens'[c] = tokens[c],
             UNCHANGED <<password, locked, browser, work>>
      PROVE  Ownership!Recover
  <2>1. \A t \in Token : <<t.kind, Owner[t.name]>> \in Ownership!Recovery
    BY DEF Token, Ownership!Recovery
  <2>2. recoveredBar'[b] \in SUBSET Ownership!Recovery
    BY <1>r, <2>1 DEF recoveredBar
  <2>3. recoveredBar' = [recoveredBar EXCEPT ![b] = recoveredBar'[b]]
    BY <1>r DEF recoveredBar
  <2>4. UNCHANGED <<password, locked, openBar, grantedBar>>
    BY <1>r DEF openBar, grantedBar
  <2> QED
    BY <2>2, <2>3, <2>4 DEF Ownership!Recover, recoveredBar, openBar, grantedBar
<1>1. ASSUME NEW a \in Accounts, LockOut(a) PROVE Ownership!Lock
  <2>1. UNCHANGED <<recoveredBar, openBar, grantedBar>>
    BY <1>1 DEF LockOut, recoveredBar, openBar, grantedBar
  <2> QED
    BY <1>1, <2>1 DEF LockOut, Ownership!Lock, recoveredBar, openBar, grantedBar
<1>2. ASSUME NEW b \in Browsers, NEW t \in Token, Index(b, t) PROVE same
  BY <1>2 DEF Index, recoveredBar, openBar, grantedBar
<1>3. ASSUME NEW b \in Browsers, NEW t \in Token,
             IdPReturns(b, t) \/ TokenExpires(b, t)
      PROVE  Ownership!Recover
  BY <1>3, <1>r DEF IdPReturns, TokenExpires, IInv, TypeOK
<1>5. ASSUME NEW b \in Browsers, NEW t \in Token, Reset(b, t) PROVE Ownership!Open
  <2>1. t.name \in Names /\ t.name # NoName /\ Owner[t.name] \in Accounts
    BY DEF Token
  <2>2. <<"reset", Owner[t.name]>> \in recoveredBar[b]
    BY <1>5 DEF Reset, recoveredBar
  <2>3. openBar' = [openBar EXCEPT ![b] = Owner[t.name]]
    BY <1>5, <2>1 DEF Reset, openBar, AccountOf, IInv, TypeOK
  <2>4. UNCHANGED <<password, locked, recoveredBar, grantedBar>>
    BY <1>5 DEF Reset, recoveredBar, grantedBar
  <2> QED
    BY <2>1, <2>2, <2>3, <2>4 DEF Ownership!Open, recoveredBar, openBar, grantedBar
<1>6. ASSUME NEW b \in Browsers, CookieExpires(b) PROVE Ownership!Close
  <2>1. openBar' = [openBar EXCEPT ![b] = NoName]
    BY <1>6 DEF CookieExpires, openBar, AccountOf, IInv, TypeOK
  <2>2. UNCHANGED <<password, locked, recoveredBar, grantedBar>>
    BY <1>6 DEF CookieExpires, recoveredBar, grantedBar
  <2> QED
    BY <2>1, <2>2 DEF Ownership!Close, recoveredBar, openBar, grantedBar
<1>7. ASSUME NEW b \in Browsers, NEW n \in Names, CloseTab(b, n) PROVE same
  BY <1>7 DEF CloseTab, recoveredBar, openBar, grantedBar
<1>8. ASSUME NEW r \in Requests, NEW b \in Browsers, NEW n \in Names,
             NEW new \in Passwords, ConfirmReset(r, b, n, new)
      PROVE  grants
  BY <1>8, SubmitGrants DEF ConfirmReset
<1>9. ASSUME NEW r \in Requests, NEW b \in Browsers, NEW n \in Names,
             NEW old \in Passwords, NEW new \in Passwords, Change(r, b, n, old, new)
      PROVE  grants
  BY <1>9, SubmitGrants DEF Change
<1>10. ASSUME NEW r \in Requests, NEW b \in Browsers, NEW t \in Token, Complete(r, b, t)
       PROVE  grants
  <2>1. t.name \in Names /\ t \in tokens[b] /\ t.kind = "unlock"
    BY <1>10 DEF Complete, Token
  <2> QED
    BY <1>10, <2>1, SubmitGrants DEF Complete
<1>11. ASSUME NEW r \in Requests, ResetPassword(r) \/ ChangeValidPassword(r)
       PROVE  Ownership!SetPassword
  <2> DEFINE w == work[r]
             a == Owner[w.name]
  <2>1. /\ w.step = "act" /\ Saving(r) /\ UNCHANGED <<locked, idp, browser>>
        /\ password' = [password EXCEPT ![a] = w.new]
        /\ \/ w.op = "reset"
           \/ w.op = "change" /\ password[a] = w.old
    <3>1. CASE ResetPassword(r)
      BY <3>1 DEF ResetPassword, At
    <3>2. CASE ChangeValidPassword(r)
      BY <3>2 DEF ChangeValidPassword, At
    <3> QED
      BY <1>11, <3>1, <3>2
  <2>2. /\ w.name \in Names /\ a \in Accounts /\ w.new \in Passwords
        /\ w.op = "reset" => w.old = NoPassword
    BY <2>1 DEF IInv, Checked, Idle
  <2>3. <<w.op, a, w.old, w.new>> \in grantedBar[r]
    BY <2>1, <2>2 DEF grantedBar, PermitOf, AccountOf
  <2>4. \/ <<"reset", a, NoPassword, w.new>> \in grantedBar[r]
        \/ <<"change", a, password[a], w.new>> \in grantedBar[r]
    BY <2>1, <2>2, <2>3
  <2>5. /\ grantedBar' = [grantedBar EXCEPT ![r] = {}]
        /\ UNCHANGED <<recoveredBar, openBar>>
    BY <2>1, WorkGivesBack
  <2> QED
    BY <2>1, <2>2, <2>4, <2>5
    DEF Ownership!SetPassword, Ownership!Permit, recoveredBar, openBar, grantedBar
<1>13. ASSUME NEW r \in Requests, UnlockUser(r) PROVE Ownership!Unlock
  <2> DEFINE w == work[r]
             a == Owner[w.name]
  <2>1. /\ w.step = "act" /\ w.op = "unlock" /\ Saving(r)
        /\ UNCHANGED <<password, idp, browser>> /\ locked' = locked \ {a}
    BY <1>13 DEF UnlockUser, At
  <2>2. /\ w.name \in Names /\ a \in Accounts
        /\ w.old = NoPassword /\ w.new = NoPassword
    BY <2>1 DEF IInv, Checked, Idle
  <2>3. <<"unlock", a, NoPassword, NoPassword>> \in grantedBar[r]
    BY <2>1, <2>2 DEF grantedBar, PermitOf, AccountOf
  <2>4. /\ grantedBar' = [grantedBar EXCEPT ![r] = {}]
        /\ UNCHANGED <<recoveredBar, openBar>>
    BY <2>1, WorkGivesBack
  <2> QED
    BY <2>1, <2>2, <2>3, <2>4
    DEF Ownership!Unlock, Ownership!Permit, recoveredBar, openBar, grantedBar
<1>w. ASSUME NEW some \in SUBSET Requests, UNCHANGED <<directory, idp, browser>>,
             grantedBar' = [r \in Requests |-> IF r \in some THEN {} ELSE grantedBar[r]]
      PROVE  Ownership!Withdraw
  <2>1. UNCHANGED <<password, locked, recoveredBar, openBar>>
    BY <1>w DEF recoveredBar, openBar
  <2> QED
    BY <1>w, <2>1 DEF Ownership!Withdraw, recoveredBar, openBar, grantedBar
<1>14. ASSUME NEW r \in Requests, Refuse(r) \/ Save(r) PROVE Ownership!Withdraw
  <2>1. grantedBar' = [grantedBar EXCEPT ![r] = {}]
    BY <1>14, WorkGivesBack DEF Refuse, Save
  <2>2. grantedBar' = [q \in Requests |-> IF q \in {r} THEN {} ELSE grantedBar[q]]
    BY <2>1 DEF grantedBar
  <2>3. {r} \in SUBSET Requests /\ UNCHANGED <<directory, idp, browser>>
    BY <1>14 DEF Refuse, Save
  <2> QED
    BY <2>2, <2>3, <1>w
<1>16. ASSUME Restart PROVE Ownership!Withdraw
  <2>1. grantedBar' = [r \in Requests |-> IF r \in Requests THEN {} ELSE grantedBar[r]]
    BY <1>16 DEF Restart, grantedBar, PermitOf, Idle
  <2> QED
    BY <1>16, <2>1, <1>w DEF Restart
<1>17. CASE UNCHANGED vars
  BY <1>17 DEF Ownership!vars, PermitOf, AccountOf
<1> QED
  BY <1>s, <1>1, <1>2, <1>3, <1>5, <1>6, <1>7, <1>8, <1>9, <1>10, <1>11, <1>13,
     <1>14, <1>16, <1>17 DEF Next, Ownership!Next

(* Whatever the portal does to passwords and locks, PasswordOwnership      *)
(* allows.                                                                 *)
THEOREM ImplementsOwnership == Spec => OwnersDecide
  BY InitOwnership, NextOwnership, Invariance, PTL DEF Spec, OwnersDecide, Ownership!Spec

(* Whatever section the portal starts with: some password meets it exactly *)
(* when its largest length has room for the kinds of characters.           *)
THEOREM RequirementsCanBeMet == Spec => []SectionsCanBeMet
<1>1. SectionsCanBeMet
  BY AcceptedSectionsCanBeMet DEF SectionsCanBeMet
<1> QED
  BY <1>1, PTL
=============================================================================
