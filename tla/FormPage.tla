------------------------------ MODULE FormPage ------------------------------
(***************************************************************************)
(* One page with a form in the user's browser, from the moment its scripts *)
(* have run to the answer of a post: what the user does to the fields, how *)
(* jquery.validate (configured by jquery.validate.unobtrusive from the     *)
(* data-val attributes of the fields) judges them, how site.js shows the   *)
(* verdicts on the boxes around the fields, and how the inline script of   *)
(* Login, Identity and ForgottenPassword/Index locks the submit button.    *)
(*                                                                         *)
(* The browser runs one event at a time; the mutation observers of site.js *)
(* run before the next event, so each action is an event with all its      *)
(* handlers and the observers.  An answer brings a new page: any initial   *)
(* state.  Values change only in the field that has the focus.             *)
(***************************************************************************)
EXTENDS Naturals, Sequences

CONSTANTS Pages,            \* the pages, see PagesAssumption
          Value,            \* what a field may hold
          Empty, Blank,     \* nothing, and white space alone
          Target, Confirm,  \* NewPassword, and NewPasswordAgain compared to it
          NoField,          \* the focus, or the last focus, is on no field
          MaxSolved,        \* bound: captchas solved on one page
          MaxPosts          \* bound: posts sent by one page

ASSUME PagesAssumption ==
    \A p \in Pages :
        /\ p = [fields |-> p.fields, compared |-> p.compared, secret |-> p.secret,
                captcha |-> p.captcha, disables |-> p.disables]
        /\ p.compared \in BOOLEAN /\ p.captcha \in BOOLEAN /\ p.disables \in BOOLEAN
        /\ p.secret \subseteq p.fields
        /\ NoField \notin p.fields
        /\ p.compared => {Target, Confirm} \subseteq p.fields
        /\ p.captcha => p.disables
ASSUME ValueAssumption == {Empty, Blank} \subseteq Value
ASSUME ConfirmAssumption == Target # Confirm
ASSUME BoundsAssumption == MaxSolved \in Nat /\ MaxPosts \in Nat

VARIABLES
    page,        \* the page
    value,       \* field -> what it holds
    focus,       \* the field with the focus
    lastActive,  \* validator.lastActive
    mark,        \* field -> its class: "none", "valid" or "error"
    message,     \* field -> the message under it, "none" if there is none
    submitted,   \* the names in validator.submitted
    invalid,     \* the names in validator.invalid
    bound,       \* equalTo has bound its handler to the blur of Target
    filled,      \* the fields whose box has the class input-has-value,
    lit,         \*   ... input-is-focused,
    red,         \*   ... input-has-error
    visible,     \* the secret fields shown as text
    pressed,     \* the toggles that say they show their field
    disabled,    \* the submit button is disabled
    token,       \* responseToken: the last captcha solved, 0 for none
    posted       \* the tokens of the posts sent, in order

judgement == <<mark, message, submitted, invalid, bound>>
boxes == <<filled, lit, red>>
toggles == <<visible, pressed>>
sending == <<disabled, token, posted>>
vars == <<page, value, focus, lastActive, judgement, boxes, toggles, sending>>

Fields == page.fields
HasValue(v) == v \notin {Empty, Blank}

-----------------------------------------------------------------------------
(* The rules a field breaks: required is tested before equalTo.            *)
Breaks(f) ==
    IF value[f] = Empty THEN "required"
    ELSE IF page.compared /\ f = Confirm /\ value[f] # value[Target] THEN "equalTo"
    ELSE "none"

Broken(F) == {f \in F : Breaks(f) # "none"}

(* Variant: equalTo compares without binding to the blur of its target.    *)
checkUnbound(F) ==
    /\ mark' = [f \in Fields |-> IF f \notin F THEN mark[f]
                                 ELSE IF Breaks(f) = "none" THEN "valid" ELSE "error"]
    /\ message' = [f \in Fields |-> IF f \in F THEN Breaks(f) ELSE message[f]]
    /\ submitted' = submitted \cup Broken(F)
    /\ bound' = bound

(* Judging the fields of F: marks, messages, and the names remembered.     *)
check(F) ==
    /\ mark' = [f \in Fields |-> IF f \notin F THEN mark[f]
                                 ELSE IF Breaks(f) = "none" THEN "valid" ELSE "error"]
    /\ message' = [f \in Fields |-> IF f \in F THEN Breaks(f) ELSE message[f]]
    /\ submitted' = submitted \cup Broken(F)
    /\ bound' = (bound \/ (page.compared /\ Confirm \in F /\ value[Confirm] # Empty))

element(F) == check(F) /\ invalid' = invalid \cup F

(* The classes of the boxes whose inputs had an event, or changed class.   *)
updateFloatingInputState(F) ==
    /\ filled' = (filled \ F) \cup {f \in F : HasValue(value'[f])}
    /\ lit' = (lit \ F) \cup {f \in F : focus' = f}

updateInputValidationState(F) ==
    red' = (red \ F) \cup {f \in F : mark'[f] = "error" \/ message'[f] # "none"}

(* Variant: no observer watches the class attribute.                       *)
ObservedNever == {}

(* The inputs whose class attribute changed wake their observers.          *)
Observed == {f \in Fields : mark'[f] # mark[f]}
                \cup IF bound' = bound THEN {} ELSE {Target}

-----------------------------------------------------------------------------
(* A page as the server rendered it: the fields it refused carry an error. *)
Init ==
    /\ page \in Pages
    /\ value \in [Fields -> Value]
    /\ focus = NoField /\ lastActive = NoField
    /\ \E refused \in SUBSET Fields :
          /\ mark = [f \in Fields |-> IF f \in refused THEN "error" ELSE "none"]
          /\ message = [f \in Fields |-> IF f \in refused THEN "server" ELSE "none"]
          /\ red = refused
    /\ filled = {f \in Fields : HasValue(value[f])} /\ lit = {}
    /\ submitted = {} /\ invalid = {} /\ bound = FALSE
    /\ visible = {} /\ pressed = {}
    /\ disabled = page.captcha
    /\ token = 0 /\ posted = <<>>

Focus(f) ==
    /\ focus = NoField
    /\ focus' = f /\ lastActive' = f
    /\ UNCHANGED <<page, value, judgement, red, toggles, sending>>
    /\ updateFloatingInputState({f})

(* Typing, pasting, cutting, dropping.                                     *)
Input(f, v) ==
    /\ focus = f /\ v # value[f]
    /\ value' = [value EXCEPT ![f] = v]
    /\ UNCHANGED <<page, focus, lastActive, judgement, red, toggles, sending>>
    /\ updateFloatingInputState({f})

(* A key comes up: only a field judged before is judged again.             *)
KeyUp(f) ==
    /\ focus = f
    /\ f \in submitted \cup invalid
    /\ UNCHANGED <<page, value, focus, lastActive, filled, lit, toggles, sending>>
    /\ element({f})
    /\ updateInputValidationState(Observed)

(* Variant: a field that was found wrong and is now empty is not judged.   *)
LeftUnlessEmpty(f) == (IF value[f] # Empty THEN {f} ELSE {})
              \cup (IF bound /\ f = Target THEN {Confirm} ELSE {})

(* The field is left: onfocusout judges it, unless it is empty and was     *)
(* never found wrong; then the handler equalTo bound to Target judges      *)
(* Confirm.                                                                *)
Left(f) == (IF f \in submitted \/ value[f] # Empty THEN {f} ELSE {})
              \cup (IF bound /\ f = Target THEN {Confirm} ELSE {})

Blur(f) ==
    /\ focus = f /\ focus' = NoField
    /\ UNCHANGED <<page, value, lastActive, toggles, sending>>
    /\ element(Left(f))
    /\ updateFloatingInputState({f})
    /\ updateInputValidationState({f} \cup Observed)

(* The user presses the button or Enter and the validator finds an error:  *)
(* the focus goes to the field it was last on, if that is wrong, or to the *)
(* first wrong one (any here: their order is left out).  A field left in   *)
(* this way is judged once more, on the same values, and the inline script *)
(* then asks for the whole form again.                                     *)
SubmitInvalid ==
    /\ ~disabled
    /\ UNCHANGED <<page, value, toggles, sending>>
    /\ check(Fields)
    /\ \E f \in Broken(Fields) :
          /\ lastActive \in Broken(Fields) => f = lastActive
          /\ focus' = f /\ lastActive' = f
          /\ invalid' = Broken(Fields)
                 \cup UNION {Left(g)' : g \in {h \in Fields \ {f} : h = focus /\ ~page.disables}}
    /\ updateFloatingInputState({focus, focus'} \cap Fields)
    /\ updateInputValidationState(({focus} \cap Fields) \cup Observed)

(* Variant: the inline script leaves the button as it is.                  *)
SubmitValidUnlocked ==
    /\ ~disabled
    /\ Broken(Fields) = {}
    /\ check(Fields) /\ invalid' = {}
    /\ Len(posted) < MaxPosts
    /\ posted' = Append(posted, token)
    /\ UNCHANGED <<page, value, focus, lastActive, filled, lit, toggles, disabled, token>>
    /\ updateInputValidationState(Observed)

(* All rules hold: the form is posted, and the inline script, which asks   *)
(* the validator again, disables the button on the pages that have it.     *)
SubmitValid ==
    /\ ~disabled
    /\ Broken(Fields) = {}
    /\ check(Fields) /\ invalid' = {}
    /\ Len(posted) < MaxPosts
    /\ posted' = Append(posted, token)
    /\ disabled' = page.disables
    /\ UNCHANGED <<page, value, focus, lastActive, filled, lit, toggles, token>>
    /\ updateInputValidationState(Observed)

(* The captcha is solved, for the first time or after the last answer was  *)
(* used or expired: the button is enabled whatever it was disabled for.    *)
captchaCallback ==
    /\ page.captcha
    /\ token < MaxSolved
    /\ token' = token + 1
    /\ disabled' = FALSE
    /\ UNCHANGED <<page, value, focus, lastActive, judgement, boxes, toggles, posted>>

(* The eye beside a password is clicked.                                   *)
Toggle(f) ==
    /\ focus = NoField
    /\ visible' = IF f \in visible THEN visible \ {f} ELSE visible \cup {f}
    /\ pressed' = (pressed \ {f}) \cup ({f} \cap visible')
    /\ UNCHANGED <<page, value, focus, lastActive, judgement, boxes, sending>>

Next ==
    \/ \E f \in Fields : Focus(f) \/ KeyUp(f) \/ Blur(f)
    \/ \E f \in Fields, v \in Value : Input(f, v)
    \/ \E f \in page.secret : Toggle(f)
    \/ SubmitInvalid
    \/ SubmitValid
    \/ captchaCallback

Spec == Init /\ [][Next]_vars

-----------------------------------------------------------------------------
TypeOK ==
    /\ page \in Pages
    /\ value \in [Fields -> Value]
    /\ focus \in Fields \cup {NoField} /\ lastActive \in Fields \cup {NoField}
    /\ mark \in [Fields -> {"none", "valid", "error"}]
    /\ message \in [Fields -> {"none", "server", "required", "equalTo"}]
    /\ submitted \subseteq Fields /\ invalid \subseteq Fields
    /\ bound \in BOOLEAN
    /\ filled \subseteq Fields /\ lit \subseteq Fields /\ red \subseteq Fields
    /\ visible \subseteq page.secret /\ pressed \subseteq page.secret
    /\ disabled \in BOOLEAN
    /\ token \in Nat /\ posted \in Seq(Nat)

(* The boxes of site.js tell the truth between events: a box is floating,  *)
(* focused and red exactly when its field holds something, has the focus   *)
(* and is marked wrong, a mark never stands without its message nor a      *)
(* message without its mark, and an eye says what its field shows          *)
(* (site.js:28-33, 90-148).                                                *)
BoxesTellTheTruth ==
    /\ filled = {f \in Fields : HasValue(value[f])}
    /\ lit = {f \in Fields : focus = f}
    /\ red = {f \in Fields : mark[f] = "error"}
    /\ red = {f \in Fields : message[f] # "none"}
    /\ pressed = visible

(* A field whose verdict may lag: it, or the one it is compared to, has    *)
(* the focus.                                                              *)
AtWork(f) == focus = f \/ (page.compared /\ f = Confirm /\ focus = Target)

(* Once neither is being edited, a field the validator found wrong carries *)
(* the message of the rule it breaks now, and one it found right and that  *)
(* is not empty breaks none, although the comparison also depends on       *)
(* another field (jquery.validate.js:307-338, 1545-1555).                  *)
JudgedAtRest ==
    \A f \in Fields : ~AtWork(f) =>
        /\ mark[f] = "error" /\ f \in submitted => message[f] = Breaks(f)
        /\ mark[f] = "valid" /\ value[f] # Empty => Breaks(f) = "none"

(* Until equalTo has bound its handler the comparison was never made:      *)
(* Confirm was not found right, and found wrong only as empty.             *)
ComparedMeansBound ==
    /\ bound => page.compared
    /\ page.compared /\ ~bound =>
          /\ mark[Confirm] # "valid"
          /\ mark[Confirm] = "error" /\ Confirm \in submitted =>
                /\ message[Confirm] = "required"
                /\ focus # Confirm => value[Confirm] = Empty

(* A page that locks its button never sends one post twice: each post      *)
(* carries a captcha solved after the one before, and on a page without    *)
(* captcha there is one post.  With a captcha none goes without a token    *)
(* (Login.cshtml:88-101).                                                  *)
PostsAreNew ==
    /\ page.disables =>
          \A i, j \in 1..Len(posted) : i < j => posted[i] < posted[j]
    /\ page.captcha => \A i \in 1..Len(posted) : posted[i] > 0

(* What an enabled button stands for.                                      *)
EnabledMeansNew ==
    /\ \A i \in 1..Len(posted) : posted[i] <= token
    /\ page.disables /\ ~disabled => \A i \in 1..Len(posted) : posted[i] < token
    /\ page.captcha /\ ~disabled => token > 0

(* The inductive invariant: the three properties and what they rest on.    *)
IInv ==
    /\ TypeOK
    /\ BoxesTellTheTruth
    /\ JudgedAtRest
    /\ ComparedMeansBound
    /\ PostsAreNew
    /\ EnabledMeansNew
=============================================================================
