----------------------- MODULE ExchangeDevicesProofs -----------------------
(***************************************************************************)
(* Proofs about ExchangeDevices, for any devices and any number of pages.  *)
(***************************************************************************)
EXTENDS ExchangeDevices, TLAPS

USE DevicesAssumption DEF vars, AccessState

LEMMA IdleShape ==
    /\ Idle.step = "idle" /\ Idle.device = NoDevice /\ Idle.alone = TRUE
    /\ Idle \in Work
  BY DEF Idle, Work

LEMMA InitIInv == Init => IInv
  BY IdleShape DEF Init, IInv, TypeOK, ListsExclusive, RecordsAgree, AloneIsKnown, Known, Agree,
         Busy

(* What a tab is doing, taken apart.                                       *)
LEMMA WorkShape ==
    ASSUME TypeOK, NEW t \in Tabs, work[t] # Idle
    PROVE  /\ work[t].step \in {"access", "lists"}
           /\ work[t].device \in Devices
           /\ work[t].state \in {"Allowed", "Blocked"}
           /\ work[t].alone \in BOOLEAN
           /\ t \in Busy(work[t].device)
  BY DEF TypeOK, Work, Busy, Changing

(* A click starts a change; the others of the same device lose their peace.*)
LEMMA ChangeStateIInv ==
    ASSUME IInv, NEW t \in Tabs, NEW d \in Devices, NEW state \in {"Allowed", "Blocked"},
           ChangeState(t, d, state)
    PROVE  IInv'
<1> DEFINE w == [step |-> "access", device |-> d, state |-> state,
                 alone |-> Busy(d) = {}]
           Disturbed(u) == [work[u] EXCEPT !.alone = FALSE]
<1>1. /\ work[t] = Idle
      /\ UNCHANGED <<access, allowed, blocked, page, torn>>
      /\ work' = [u \in Tabs |-> IF u = t THEN w
                                 ELSE IF u \in Busy(d) THEN Disturbed(u) ELSE work[u]]
  BY DEF ChangeState
<1>2. w \in Work
  BY DEF Work, IInv, TypeOK, Busy
<1>3. \A u \in Busy(d) : /\ u \in Tabs /\ work[u] # Idle /\ Disturbed(u) \in Work
                         /\ Disturbed(u).device = d /\ Disturbed(u).alone = FALSE
                         /\ Disturbed(u).step = work[u].step
                         /\ Disturbed(u).state = work[u].state
  BY IdleShape DEF Busy, IInv, TypeOK, Work
<1>4. work' \in [Tabs -> Work]
  BY <1>1, <1>2, <1>3 DEF IInv, TypeOK
<1>5. \A e \in Devices : Busy(e)' = IF e = d THEN Busy(d) \union {t} ELSE Busy(e)
  BY <1>1, <1>3, IdleShape DEF Busy
<1>6. TypeOK'
  <2>1. \A u \in Tabs : work'[u] = Idle \/ Changing(work'[u])
    BY <1>1, <1>3 DEF IInv, TypeOK, Changing
  <2> QED
    BY <1>1, <1>4, <2>1 DEF IInv, TypeOK
<1>7. RecordsAgree'
  BY <1>1, <1>5 DEF IInv, RecordsAgree, Agree
<1>8. AloneIsKnown'
  <2> SUFFICES ASSUME NEW u \in Tabs, work'[u] # Idle, work'[u].alone
               PROVE  Known(u)'
    BY DEF AloneIsKnown
  <2>1. CASE u = t
    <3>1. work'[u] = w /\ Busy(d) = {}
      BY <1>1, <2>1
    <3>2. d \notin torn => Agree(d)
      BY <3>1 DEF IInv, RecordsAgree
    <3> QED
      BY <1>1, <1>5, <2>1, <3>1, <3>2 DEF Known, Agree
  <2>2. CASE u # t /\ u \in Busy(d)
    BY <1>1, <1>3, <2>2
  <2>3. CASE u # t /\ u \notin Busy(d)
    <3>1. work'[u] = work[u] /\ work[u].device # d
      BY <1>1, <2>3 DEF Busy
    <3>2. work[u].device \in Devices
      BY <3>1, WorkShape DEF IInv
    <3> QED
      BY <1>1, <1>5, <3>1, <3>2 DEF IInv, AloneIsKnown, Known, Agree
  <2> QED
    BY <2>1, <2>2, <2>3
<1> QED
  BY <1>1, <1>6, <1>7, <1>8 DEF IInv, ListsExclusive

(* What a step on behalf of t does to the records of its device, and to no *)
(* other: enough for the invariant when the step ends the change.          *)
LEMMA EndIInv ==
    ASSUME IInv, NEW t \in Tabs, NEW d, d = work[t].device,
           work[t] # Idle, Answer(t), UNCHANGED access,
           allowed' \subseteq Devices, blocked' \subseteq Devices, torn' \subseteq Devices,
           allowed' \intersect blocked' = {},
           \A e \in Devices \ {d} :
               /\ e \in allowed' <=> e \in allowed
               /\ e \in blocked' <=> e \in blocked
               /\ e \in torn' <=> e \in torn,
           work[t].alone /\ d \notin torn' => Agree(d)',
           ~work[t].alone => d \in torn'
    PROVE  IInv'
<1>1. /\ work' = [work EXCEPT ![t] = Idle]
      /\ page' = [page EXCEPT ![t] = access]
  BY DEF Answer
<1>2. \A e \in Devices : Busy(e)' = Busy(e) \ {t}
  BY <1>1, IdleShape DEF Busy, IInv, TypeOK
<1>3. TypeOK'
  BY <1>1, IdleShape DEF IInv, TypeOK
<1>4. RecordsAgree'
  <2> SUFFICES ASSUME NEW e \in Devices, Busy(e)' = {}, e \notin torn'
               PROVE  Agree(e)'
    BY DEF RecordsAgree
  <2>1. CASE e = d
    BY <2>1, WorkShape DEF IInv
  <2>2. CASE e # d
    <3>1. Busy(e) = {}
      BY <1>2, <2>2 DEF Busy
    <3> QED
      BY <2>2, <3>1 DEF IInv, RecordsAgree, Agree
  <2> QED
    BY <2>1, <2>2
<1>5. AloneIsKnown'
  <2> SUFFICES ASSUME NEW u \in Tabs, work'[u] # Idle, work'[u].alone
               PROVE  Known(u)'
    BY DEF AloneIsKnown
  <2>1. u # t /\ work'[u] = work[u]
    BY <1>1 DEF IInv, TypeOK
  <2>2. /\ work[u].device \in Devices /\ Busy(work[u].device) = {u}
    BY <2>1, WorkShape DEF IInv, AloneIsKnown, Known
  <2>3. work[u].device # d
    BY <2>1, <2>2, WorkShape DEF IInv
  <2> QED
    BY <1>2, <2>1, <2>2, <2>3 DEF IInv, AloneIsKnown, Known, Agree
<1> QED
  BY <1>3, <1>4, <1>5 DEF IInv, ListsExclusive

LEMMA UpdateAccessIInv ==
    ASSUME IInv, NEW t \in Tabs, UpdateAccess(t)
    PROVE  IInv'
<1> DEFINE d == work[t].device
<1>1. /\ work[t] # Idle /\ work[t].step = "access"
      /\ access' = [access EXCEPT ![d] = work[t].state]
      /\ work' = [work EXCEPT ![t] = [work[t] EXCEPT !.step = "lists"]]
      /\ UNCHANGED <<allowed, blocked, page, torn>>
  BY IdleShape DEF UpdateAccess
<1>2. d \in Devices /\ work[t].state \in {"Allowed", "Blocked"} /\ t \in Busy(d)
  BY <1>1, WorkShape DEF IInv
<1>3. /\ work'[t].step = "lists" /\ work'[t].device = d
      /\ work'[t].state = work[t].state /\ work'[t].alone = work[t].alone
      /\ work'[t] \in Work
  BY <1>1, IdleShape DEF IInv, TypeOK, Work
<1>4. \A e \in Devices : Busy(e)' = Busy(e)
  BY <1>1, <1>3 DEF Busy, IInv, TypeOK
<1>5. TypeOK'
  BY <1>1, <1>2, <1>3 DEF IInv, TypeOK, Changing
<1>6. RecordsAgree'
  <2> SUFFICES ASSUME NEW e \in Devices, Busy(e)' = {}, e \notin torn'
               PROVE  Agree(e)'
    BY DEF RecordsAgree
  <2>1. e # d /\ Busy(e) = {}
    BY <1>2, <1>4
  <2> QED
    BY <1>1, <1>2, <2>1 DEF IInv, TypeOK, RecordsAgree, Agree
<1>7. AloneIsKnown'
  <2> SUFFICES ASSUME NEW u \in Tabs, work'[u] # Idle, work'[u].alone
               PROVE  Known(u)'
    BY DEF AloneIsKnown
  <2>1. CASE u = t
    <3>1. Busy(d) = {t}
      BY <1>1, <1>3, <2>1 DEF IInv, AloneIsKnown, Known
    <3> QED
      BY <1>1, <1>2, <1>3, <1>4, <2>1, <3>1 DEF IInv, TypeOK, Known
  <2>2. CASE u # t
    <3>1. work'[u] = work[u] /\ work[u].device \in Devices /\ Busy(work[u].device) = {u}
      BY <1>1, <2>2, WorkShape DEF IInv, TypeOK, AloneIsKnown, Known
    <3>2. work[u].device # d
      BY <1>2, <2>2, <3>1
    <3> QED
      BY <1>1, <1>2, <1>4, <3>1, <3>2 DEF IInv, TypeOK, AloneIsKnown, Known, Agree
  <2> QED
    BY <2>1, <2>2
<1> QED
  BY <1>1, <1>5, <1>6, <1>7 DEF IInv, ListsExclusive

LEMMA NextIInv == IInv /\ [Next]_vars => IInv'
<1> SUFFICES ASSUME IInv, [Next]_vars PROVE IInv'
  OBVIOUS
<1>1. ASSUME NEW t \in Tabs, Index(t) PROVE IInv'
  BY <1>1 DEF Index, IInv, TypeOK, ListsExclusive, RecordsAgree, AloneIsKnown, Known, Agree,
              Busy
<1>2. ASSUME NEW t \in Tabs, UpdateLists(t) PROVE IInv'
  <2>1. work[t] # Idle
    BY <1>2, IdleShape DEF UpdateLists
  <2>2. /\ work[t].device \in Devices /\ work[t].state \in {"Allowed", "Blocked"}
        /\ work[t].alone \in BOOLEAN
    BY <2>1, WorkShape DEF IInv
  <2>3. work[t].alone => access[work[t].device] = work[t].state
    BY <1>2, <2>1 DEF UpdateLists, IInv, AloneIsKnown, Known
  <2>4. /\ allowed' \subseteq Devices /\ blocked' \subseteq Devices
        /\ torn' \subseteq Devices /\ allowed' \intersect blocked' = {}
    BY <1>2, <2>2 DEF UpdateLists, Listed, IInv, TypeOK, ListsExclusive
  <2>5. \A e \in Devices \ {work[t].device} :
            /\ e \in allowed' <=> e \in allowed
            /\ e \in blocked' <=> e \in blocked
            /\ e \in torn' <=> e \in torn
    BY <1>2 DEF UpdateLists, Listed
  <2>6. \A d : d = work[t].device /\ work[t].alone /\ d \notin torn' => Agree(d)'
    BY <1>2, <2>2, <2>3 DEF UpdateLists, Listed, Agree
  <2>7. ~work[t].alone => work[t].device \in torn'
    BY <1>2 DEF UpdateLists
  <2> QED
    BY <1>2, <2>1, <2>4, <2>5, <2>6, <2>7, EndIInv DEF UpdateLists
<1>3. ASSUME NEW t \in Tabs, Fail(t) PROVE IInv'
  <2>1. work[t] # Idle /\ Answer(t) /\ UNCHANGED <<access, allowed, blocked>>
    BY <1>3 DEF Fail
  <2>2. work[t].device \in Devices /\ work[t].step \in {"access", "lists"}
    BY <2>1, WorkShape DEF IInv
  <2>3. \A d : d = work[t].device /\ work[t].alone /\ d \notin torn' => Agree(d)'
    BY <1>3, <2>1, <2>2 DEF Fail, IInv, AloneIsKnown, Known, Agree
  <2>4. /\ torn' \subseteq Devices
        /\ ~work[t].alone => work[t].device \in torn'
        /\ \A e \in Devices \ {work[t].device} : e \in torn' <=> e \in torn
    BY <1>3, <2>2 DEF Fail, IInv, TypeOK
  <2> QED
    BY <2>1, <2>3, <2>4, EndIInv DEF IInv, TypeOK, ListsExclusive
<1>4. ASSUME Restart PROVE IInv'
  <2>1. /\ work' = [t \in Tabs |-> Idle]
        /\ UNCHANGED <<access, allowed, blocked, page>>
    BY <1>4 DEF Restart
  <2>2. torn' \subseteq Devices
    BY <1>4, IdleShape, WorkShape DEF Restart, IInv, TypeOK
  <2>3. TypeOK'
    BY <2>1, <2>2, IdleShape DEF IInv, TypeOK
  <2>4. RecordsAgree'
    <3> SUFFICES ASSUME NEW d \in Devices, d \notin torn' PROVE Agree(d)
      BY <2>1 DEF RecordsAgree, Agree
    <3>1. CASE Busy(d) = {}
      BY <1>4, <3>1 DEF Restart, IInv, RecordsAgree
    <3>2. CASE Busy(d) # {}
      <4>1. PICK t \in Tabs : work[t].device = d
        BY <3>2 DEF Busy
      <4>2. work[t] # Idle /\ work[t].alone /\ work[t].step = "access"
        BY <1>4, <4>1, IdleShape, WorkShape DEF Restart, IInv
      <4> QED
        BY <1>4, <4>1, <4>2 DEF Restart, IInv, AloneIsKnown, Known
    <3> QED
      BY <3>1, <3>2
  <2> QED
    BY <2>1, <2>3, <2>4 DEF IInv, ListsExclusive, AloneIsKnown
<1>5. CASE UNCHANGED vars
  BY <1>5 DEF IInv, TypeOK, ListsExclusive, RecordsAgree, AloneIsKnown, Known, Agree, Busy
<1> QED
  BY <1>1, <1>2, <1>3, <1>4, <1>5, ChangeStateIInv, UpdateAccessIInv DEF Next

(* Types, exclusive lists, and the two ways in which the records of a      *)
(* device come apart: half a failure and an overlap.                       *)
THEOREM Invariance == Spec => []IInv
  BY InitIInv, NextIInv, PTL DEF Spec

(* The records of a device at rest agree unless its last change was torn.  *)
THEOREM DevicesAtRest == Spec => []RecordsAgree
<1>1. IInv => RecordsAgree
  BY DEF IInv
<1> QED
  BY <1>1, Invariance, PTL
=============================================================================
