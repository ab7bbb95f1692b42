-------------------------- MODULE ExchangeDevices --------------------------
(***************************************************************************)
(* The page on which a signed-in user allows or blocks the mobile devices  *)
(* that synchronise their Exchange mailbox                                 *)
(* (ExchangeActiveSyncDevicesController), with the two operations of       *)
(* ActiveDirectoryService behind it.                                       *)
(*                                                                         *)
(* Access to a device is kept twice in the directory: as the state of the  *)
(* device, and in two lists of the user.  The portal changes them by two   *)
(* requests to the domain controller, each atomic, nothing around both.    *)
(***************************************************************************)
EXTENDS FiniteSets

CONSTANTS
    Devices,    \* the devices of the user
    Tabs,       \* the user's open pages, one request at a time each
    NoDevice    \* "no device"

ASSUME DevicesAssumption == NoDevice \notin Devices

VARIABLES
    access,     \* directory: the access state of each device
    allowed,    \* directory: the user's allowed devices
    blocked,    \* directory: the user's blocked devices
    page,       \* per tab, the access states it shows
    work,       \* per tab, the change it has asked for
    torn        \* history: devices whose last change was not undisturbed

vars == <<access, allowed, blocked, page, work, torn>>

-----------------------------------------------------------------------------
AccessState == {"Allowed", "Blocked", "Quarantined"}

Idle == [step |-> "idle", device |-> NoDevice, state |-> "Quarantined",
         alone |-> TRUE]

(* alone (history): no other change of the device ran at any time during   *)
(* this one.                                                               *)
Work ==
    [step : {"idle", "access", "lists"}, device : Devices \union {NoDevice},
     state : AccessState, alone : BOOLEAN]

(* A change at work names a device and one of the two decisions.           *)
Changing(w) ==
    /\ w.step \in {"access", "lists"}
    /\ w.device \in Devices
    /\ w.state \in {"Allowed", "Blocked"}

TypeOK ==
    /\ access \in [Devices -> AccessState]
    /\ allowed \subseteq Devices
    /\ blocked \subseteq Devices
    /\ page \in [Tabs -> [Devices -> AccessState]]
    /\ work \in [Tabs -> Work]
    /\ \A t \in Tabs : work[t] = Idle \/ Changing(work[t])
    /\ torn \subseteq Devices

(* The lists say what the access state says.                               *)
Agree(d) ==
    /\ d \in allowed <=> access[d] = "Allowed"
    /\ d \in blocked <=> access[d] = "Blocked"

(* Every device waits for a decision.                                      *)
Init ==
    /\ access = [d \in Devices |-> "Quarantined"]
    /\ allowed = {}
    /\ blocked = {}
    /\ page = [t \in Tabs |-> access]
    /\ work = [t \in Tabs |-> Idle]
    /\ torn = {}

Busy(d) == {t \in Tabs : work[t].device = d}

-----------------------------------------------------------------------------
(* Index: SearchExchangeActiveSyncDevices reads the states, not the lists. *)
Index(t) ==
    /\ work[t] = Idle
    /\ page' = [page EXCEPT ![t] = access]
    /\ UNCHANGED <<access, allowed, blocked, work, torn>>

(* The links a page has for a device it shows in this state.               *)
Offers(shown) ==
    CASE shown = "Allowed"     -> {"Blocked"}
      [] shown = "Blocked"     -> {"Allowed"}
      [] shown = "Quarantined" -> {"Allowed", "Blocked"}

(* Approve and Reject, clicked on a page that may be old by now: the       *)
(* handler looks the profile and the device up.                            *)
ChangeState(t, d, state) ==
    /\ work[t] = Idle
    /\ state \in Offers(page[t][d])
    /\ work' = [u \in Tabs |->
                  IF u = t THEN [step |-> "access", device |-> d, state |-> state,
                                 alone |-> Busy(d) = {}]
                  ELSE IF u \in Busy(d) THEN [work[u] EXCEPT !.alone = FALSE]
                  ELSE work[u]]
    /\ UNCHANGED <<access, allowed, blocked, page, torn>>

(* The redirect to Index shows the devices as they are when the change     *)
(* ends.                                                                   *)
Answer(t) ==
    /\ work' = [work EXCEPT ![t] = Idle]
    /\ page' = [page EXCEPT ![t] = access]

(* Variant: the modification is prepared and not sent. *)
UpdateAccessUnsaved(t) ==
    /\ work[t].step = "access"
    /\ work' = [work EXCEPT ![t].step = "lists"]
    /\ UNCHANGED <<access, allowed, blocked, page, torn>>

(* The first modification: the access state of the device.                 *)
UpdateAccess(t) ==
    /\ work[t].step = "access"
    /\ access' = [access EXCEPT ![work[t].device] = work[t].state]
    /\ work' = [work EXCEPT ![t].step = "lists"]
    /\ UNCHANGED <<allowed, blocked, page, torn>>

(* Variant: the device stays in the list it was in. *)
ListedBoth(list, own, w) ==
    IF w.state = own THEN list \union {w.device} ELSE list

(* The second one, permissive: the device enters the list of its state and *)
(* leaves the other.                                                       *)
Listed(list, own, w) ==
    IF w.state = own THEN list \union {w.device} ELSE list \ {w.device}

UpdateLists(t) ==
    /\ work[t].step = "lists"
    /\ allowed' = Listed(allowed, "Allowed", work[t])
    /\ blocked' = Listed(blocked, "Blocked", work[t])
    /\ torn' = IF work[t].alone THEN torn \ {work[t].device}
               ELSE torn \union {work[t].device}
    /\ Answer(t)
    /\ UNCHANGED access

(* The profile or the device is not found, or one of the modifications     *)
(* fails: the exception is logged and forgotten, the user sees the list.   *)
Fail(t) ==
    /\ work[t] # Idle
    /\ torn' = IF work[t].step = "lists" \/ ~work[t].alone
               THEN torn \union {work[t].device} ELSE torn
    /\ Answer(t)
    /\ UNCHANGED <<access, allowed, blocked>>

(* The process is recycled between any two steps.                          *)
Restart ==
    /\ work' = [t \in Tabs |-> Idle]
    /\ torn' = torn \union
                 {work[t].device : t \in {u \in Tabs :
                     work[u].step = "lists" \/ ~work[u].alone}}
    /\ UNCHANGED <<access, allowed, blocked, page>>

Next ==
    \/ \E t \in Tabs :
          \/ Index(t) \/ UpdateAccess(t) \/ UpdateLists(t) \/ Fail(t)
          \/ \E d \in Devices, state \in {"Allowed", "Blocked"} :
                ChangeState(t, d, state)
    \/ Restart

Spec == Init /\ [][Next]_vars

-----------------------------------------------------------------------------
(***************************************************************************)
(* Properties.                                                             *)
(***************************************************************************)

(* A device is never allowed and blocked at once, whatever failed and      *)
(* whatever ran at the same time: both lists change in one request.        *)
ListsExclusive == allowed \intersect blocked = {}

(* The two records of a device agree when nothing is in flight for it,     *)
(* unless its last change failed halfway or ran against another one: these *)
(* are all the ways in which they can come apart.                          *)
RecordsAgree ==
    \A d \in Devices : Busy(d) = {} /\ d \notin torn => Agree(d)

(* Why: a change that has been alone since it began found the records in   *)
(* the state it knows, and has changed the first one only.                 *)
Known(t) ==
    LET d == work[t].device IN
    /\ Busy(d) = {t}
    /\ work[t].step = "access" /\ d \notin torn => Agree(d)
    /\ work[t].step = "lists" => access[d] = work[t].state

AloneIsKnown == \A t \in Tabs : work[t] # Idle /\ work[t].alone => Known(t)

IInv ==
    /\ TypeOK
    /\ ListsExclusive
    /\ RecordsAgree
    /\ AloneIsKnown
=============================================================================
