--------------------------- MODULE FormPageProofs ---------------------------
(***************************************************************************)
(* IInv is inductive, for any pages, fields and values.                    *)
(***************************************************************************)
EXTENDS FormPage, TLAPS

(* What a step does to the verdicts, when it judges the fields of F.       *)
LEMMA Verdicts ==
    ASSUME TypeOK, NEW F \in SUBSET Fields, check(F), page' = page, value' = value
    PROVE  /\ \A f \in F : message'[f] = Breaks(f)
           /\ \A f \in F : mark'[f] = "error" <=> message'[f] # "none"
           /\ \A f \in F : mark'[f] \in {"valid", "error"}
           /\ \A f \in Fields \ F : mark'[f] = mark[f] /\ message'[f] = message[f]
           /\ mark' \in [Fields -> {"none", "valid", "error"}]
           /\ message' \in [Fields -> {"none", "server", "required", "equalTo"}]
           /\ Fields' = Fields
           /\ \A f \in Fields : Breaks(f)' = Breaks(f)
<1>1. \A f : Breaks(f) \in {"none", "required", "equalTo"}
  BY DEF Breaks
<1>2. F \subseteq Fields
  OBVIOUS
<1> QED
  BY <1>1, <1>2 DEF TypeOK, check, Breaks, Fields

(* ... and to the names the validator remembers and the handler.           *)
LEMMA Remembered ==
    ASSUME TypeOK, ComparedMeansBound, NEW F \in SUBSET Fields, check(F)
    PROVE  /\ submitted' \subseteq Fields
           /\ \A f \in Fields : f \in submitted' <=> f \in submitted \/ (f \in F /\ Breaks(f) # "none")
           /\ bound' \in BOOLEAN
           /\ bound' => page.compared
BY DEF TypeOK, check, Broken, ComparedMeansBound

(* The boxes brought up to date by observers and listeners tell the truth. *)
LEMMA Boxes ==
    ASSUME TypeOK, BoxesTellTheTruth, page' = page, value' = value,
           NEW F \in SUBSET Fields, check(F),
           filled' = filled, lit' = {f \in Fields : focus' = f},
           pressed' = pressed, visible' = visible,
           NEW H \in SUBSET Fields, {f \in Fields : mark'[f] # mark[f]} \subseteq H,
           updateInputValidationState(H)
    PROVE  BoxesTellTheTruth'
<1>1. Fields' = Fields
  BY DEF Fields
<1>2. filled' = {f \in Fields : HasValue(value'[f])}
  BY DEF BoxesTellTheTruth
<1>4. \A f \in Fields : (mark'[f] = "error") <=> (message'[f] # "none")
  BY Verdicts DEF BoxesTellTheTruth
<1>3. red' = {f \in Fields : mark'[f] = "error"}
  BY <1>4 DEF BoxesTellTheTruth, updateInputValidationState
<1> QED
  BY <1>1, <1>2, <1>3, <1>4 DEF BoxesTellTheTruth

(* A field the step leaves without judging it was never found wrong and is *)
(* empty, or is Confirm, and was never compared.                           *)
LEMMA Judged ==
    ASSUME TypeOK, JudgedAtRest, ComparedMeansBound, page' = page, value' = value,
           NEW F \in SUBSET Fields, check(F),
           \A f \in Fields \ F : AtWork(f) =>
               \/ AtWork(f)'
               \/ f \notin submitted /\ value[f] = Empty
               \/ page.compared /\ ~bound /\ f = Confirm /\ focus # Confirm,
           page.compared /\ Confirm \notin F /\ focus = Confirm /\ focus' # Confirm
               => Confirm \notin submitted
    PROVE  JudgedAtRest' /\ ComparedMeansBound'
<1>1. /\ Fields' = Fields
      /\ \A f \in Fields : Breaks(f)' = Breaks(f)
  BY Verdicts
<1>2. ASSUME NEW f \in Fields, ~AtWork(f)'
      PROVE  /\ mark'[f] = "error" /\ f \in submitted' => message'[f] = Breaks(f)
             /\ mark'[f] = "valid" /\ value[f] # Empty => Breaks(f) = "none"
  <2>1. CASE f \in F
    BY <2>1, Verdicts
  <2>2. CASE f \notin F
    <3>1. mark'[f] = mark[f] /\ message'[f] = message[f] /\ (f \in submitted' <=> f \in submitted)
      BY <2>2, Verdicts, Remembered
    <3>2. CASE ~AtWork(f)
      BY <3>1, <3>2 DEF JudgedAtRest
    <3>3. CASE f \notin submitted /\ value[f] = Empty
      BY <3>1, <3>3
    <3>4. CASE page.compared /\ ~bound /\ f = Confirm /\ focus # Confirm
      BY <3>1, <3>4 DEF ComparedMeansBound, Breaks
    <3> QED
      BY <1>2, <2>2, <3>2, <3>3, <3>4
  <2> QED
    BY <2>1, <2>2
<1>3. JudgedAtRest'
  BY <1>1, <1>2 DEF JudgedAtRest
<1>4. bound' => page.compared
  BY Remembered
<1>5. ASSUME page.compared, ~bound'
      PROVE  /\ mark'[Confirm] # "valid"
             /\ mark'[Confirm] = "error" /\ Confirm \in submitted' =>
                   /\ message'[Confirm] = "required"
                   /\ focus' # Confirm => value[Confirm] = Empty
  <2>1. Confirm \in Fields /\ ~bound
    BY <1>5, PagesAssumption DEF TypeOK, Fields, check
  <2>2. CASE Confirm \in F
    <3>1. Breaks(Confirm) = "required" /\ value[Confirm] = Empty
      BY <1>5, <2>2 DEF check, Breaks
    <3> QED
      BY <2>2, <3>1, Verdicts
  <2>3. CASE Confirm \notin F
    <3>1. /\ mark'[Confirm] = mark[Confirm] /\ message'[Confirm] = message[Confirm]
          /\ Confirm \in submitted' <=> Confirm \in submitted
      BY <2>1, <2>3, Verdicts, Remembered
    <3> QED
      BY <1>5, <2>1, <2>3, <3>1 DEF ComparedMeansBound
  <2> QED
    BY <2>2, <2>3
<1>6. ComparedMeansBound'
  BY <1>4, <1>5 DEF ComparedMeansBound
<1> QED
  BY <1>3, <1>6

(* What the fields of a page are.                                          *)
LEMMA PageFacts ==
    ASSUME TypeOK
    PROVE  /\ page.compared \in BOOLEAN /\ page.captcha \in BOOLEAN /\ page.disables \in BOOLEAN
           /\ page.secret \subseteq Fields
           /\ NoField \notin Fields
           /\ page.compared => Target \in Fields /\ Confirm \in Fields
           /\ page.captcha => page.disables
BY PagesAssumption DEF TypeOK, Fields

(* Steps that post nothing and solve nothing keep what an enabled button   *)
(* stands for.                                                             *)
LEMMA Sending ==
    ASSUME PostsAreNew, EnabledMeansNew, page' = page, UNCHANGED sending
    PROVE  PostsAreNew' /\ EnabledMeansNew'
BY DEF PostsAreNew, EnabledMeansNew, sending

LEMMA FocusStep ==
    ASSUME IInv, NEW f \in Fields, Focus(f)
    PROVE  IInv'
<1> USE DEF IInv, Focus, judgement, toggles
<1>1. TypeOK'
  BY DEF TypeOK, Fields, sending, updateFloatingInputState
<1>2. BoxesTellTheTruth'
  BY PageFacts DEF BoxesTellTheTruth, Fields, updateFloatingInputState
<1>3. JudgedAtRest' /\ ComparedMeansBound'
  BY PageFacts DEF JudgedAtRest, ComparedMeansBound, AtWork, Fields, Breaks
<1> QED
  BY <1>1, <1>2, <1>3, Sending

LEMMA InputStep ==
    ASSUME IInv, NEW f \in Fields, NEW v \in Value, Input(f, v)
    PROVE  IInv'
<1> USE DEF IInv, Input, judgement, toggles
<1>1. TypeOK'
  BY DEF TypeOK, Fields, sending, updateFloatingInputState
<1>2. BoxesTellTheTruth'
  BY DEF TypeOK, BoxesTellTheTruth, Fields, updateFloatingInputState
<1>3. ASSUME NEW g \in Fields, ~AtWork(g)'
      PROVE  ~AtWork(g) /\ value'[g] = value[g] /\ Breaks(g)' = Breaks(g)
  BY <1>3, PageFacts DEF TypeOK, AtWork, Breaks, Fields
<1>4. JudgedAtRest'
  BY <1>3 DEF JudgedAtRest, Fields
<1>5. ComparedMeansBound'
  BY PageFacts DEF TypeOK, ComparedMeansBound, Fields
<1> QED
  BY <1>1, <1>2, <1>4, <1>5, Sending

LEMMA KeyUpStep ==
    ASSUME IInv, NEW f \in Fields, KeyUp(f)
    PROVE  IInv'
<1> USE DEF IInv, KeyUp, element
<1>1. /\ page' = page /\ value' = value /\ focus' = focus
      /\ check({f}) /\ {f} \in SUBSET Fields
      /\ Fields' = Fields
  BY DEF Fields
<1>2. BoxesTellTheTruth'
  <2>1. Observed \in SUBSET Fields
    BY PageFacts, Remembered, <1>1 DEF Observed, TypeOK, ComparedMeansBound
  <2>2. {g \in Fields : mark'[g] # mark[g]} \subseteq Observed
    BY DEF Observed
  <2>3. filled' = filled /\ lit' = {g \in Fields : focus' = g}
    BY <1>1 DEF BoxesTellTheTruth
  <2> QED
    BY <1>1, <2>1, <2>2, <2>3, Boxes DEF toggles
<1>3. JudgedAtRest' /\ ComparedMeansBound'
  <2>1. \A g \in Fields : AtWork(g)' = AtWork(g)
    BY <1>1 DEF AtWork
  <2> QED
    BY <1>1, <2>1, Judged
<1>4. TypeOK'
  BY <1>1, <1>2, Verdicts, Remembered DEF TypeOK, BoxesTellTheTruth, toggles, sending
<1> QED
  BY <1>1, <1>2, <1>3, <1>4, Sending

LEMMA BlurStep ==
    ASSUME IInv, NEW f \in Fields, Blur(f)
    PROVE  IInv'
<1> USE DEF IInv, Blur, element
<1>1. /\ page' = page /\ value' = value /\ focus = f /\ focus' = NoField
      /\ check(Left(f)) /\ Left(f) \in SUBSET Fields
      /\ Fields' = Fields
  BY PageFacts DEF Fields, Left, ComparedMeansBound
<1>2. BoxesTellTheTruth'
  <2>1. {f} \cup Observed \in SUBSET Fields
    BY PageFacts, Remembered, <1>1 DEF Observed, TypeOK, ComparedMeansBound
  <2>2. {g \in Fields : mark'[g] # mark[g]} \subseteq {f} \cup Observed
    BY DEF Observed
  <2>3. filled' = filled /\ lit' = {g \in Fields : focus' = g}
    BY <1>1, PageFacts DEF BoxesTellTheTruth, updateFloatingInputState
  <2> QED
    BY <1>1, <2>1, <2>2, <2>3, Boxes DEF toggles
<1>3. JudgedAtRest' /\ ComparedMeansBound'
  <2>1. ASSUME NEW g \in Fields \ Left(f), AtWork(g)
        PROVE  \/ g \notin submitted /\ value[g] = Empty
               \/ page.compared /\ ~bound /\ g = Confirm /\ focus # Confirm
    BY <1>1, <2>1, ConfirmAssumption DEF AtWork, Left
  <2>2. Confirm \notin Left(f) /\ focus = Confirm => Confirm \notin submitted
    BY <1>1 DEF Left
  <2> QED
    BY <1>1, <2>1, <2>2, Judged
<1>4. TypeOK'
  BY <1>1, <1>2, Verdicts, Remembered, PageFacts DEF TypeOK, BoxesTellTheTruth, toggles, sending
<1> QED
  BY <1>1, <1>2, <1>3, <1>4, Sending

LEMMA SubmitInvalidStep ==
    ASSUME IInv, SubmitInvalid
    PROVE  IInv'
<1> USE DEF IInv, SubmitInvalid
<1>1. /\ page' = page /\ value' = value
      /\ check(Fields) /\ Fields \in SUBSET Fields
      /\ Fields' = Fields
  BY DEF Fields
<1>2. PICK f \in Broken(Fields) :
         /\ focus' = f /\ lastActive' = f
         /\ invalid' = Broken(Fields)
                \cup UNION {Left(g)' : g \in {h \in Fields \ {f} : h = focus /\ ~page.disables}}
  OBVIOUS
<1>3. f \in Fields
  BY <1>2 DEF Broken
<1>4. BoxesTellTheTruth'
  <2> DEFINE H == ({focus} \cap Fields) \cup Observed
  <2>1. H \in SUBSET Fields
    BY PageFacts, Remembered, <1>1 DEF Observed, TypeOK, ComparedMeansBound
  <2>2. {g \in Fields : mark'[g] # mark[g]} \subseteq H
    BY DEF Observed
  <2>3. updateInputValidationState(H)
    OBVIOUS
  <2>4. filled' = filled
    BY <1>1 DEF BoxesTellTheTruth, updateFloatingInputState
  <2>5. lit' = {g \in Fields : focus' = g}
    BY <1>1, <1>2 DEF BoxesTellTheTruth, updateFloatingInputState
  <2> HIDE DEF H
  <2> QED
    BY <1>1, <2>1, <2>2, <2>3, <2>4, <2>5, Boxes DEF toggles
<1>5. JudgedAtRest' /\ ComparedMeansBound'
  BY <1>1, Judged, PageFacts
<1>6. invalid' \subseteq Fields
  <2>1. \A g \in Fields : Left(g)' \subseteq Fields
    BY <1>1, PageFacts, Remembered DEF Left
  <2> QED
    BY <1>2, <2>1 DEF Broken
<1>7. TypeOK'
  BY <1>1, <1>2, <1>3, <1>4, <1>6, Verdicts, Remembered DEF TypeOK, BoxesTellTheTruth, toggles, sending
<1> QED
  BY <1>1, <1>4, <1>5, <1>7, Sending

LEMMA SubmitValidStep ==
    ASSUME IInv, SubmitValid
    PROVE  IInv'
<1> USE DEF IInv, SubmitValid
<1>1. /\ page' = page /\ value' = value /\ focus' = focus
      /\ check(Fields) /\ Fields \in SUBSET Fields
      /\ Fields' = Fields
  BY DEF Fields
<1>2. BoxesTellTheTruth'
  <2>1. Observed \in SUBSET Fields
    BY PageFacts, Remembered, <1>1 DEF Observed, TypeOK, ComparedMeansBound
  <2>2. {g \in Fields : mark'[g] # mark[g]} \subseteq Observed
    BY DEF Observed
  <2>3. filled' = filled /\ lit' = {g \in Fields : focus' = g}
    BY <1>1 DEF BoxesTellTheTruth
  <2> QED
    BY <1>1, <2>1, <2>2, <2>3, Boxes DEF toggles
<1>3. JudgedAtRest' /\ ComparedMeansBound'
  BY <1>1, Judged, PageFacts
<1>4. /\ posted \in Seq(Nat) /\ token \in Nat /\ token' = token
      /\ posted' = Append(posted, token) /\ disabled' = page.disables
  BY DEF TypeOK
<1>5. /\ Len(posted') = Len(posted) + 1 /\ Len(posted) \in Nat
      /\ \A i \in 1..Len(posted) : posted'[i] = posted[i] /\ posted[i] \in Nat
      /\ posted'[Len(posted) + 1] = token
      /\ posted' \in Seq(Nat)
  BY <1>4
<1>6. PostsAreNew'
  BY <1>1, <1>4, <1>5 DEF PostsAreNew, EnabledMeansNew
<1>7. EnabledMeansNew'
  BY <1>1, <1>4, <1>5, PageFacts DEF EnabledMeansNew
<1>8. TypeOK'
  BY <1>1, <1>2, <1>4, <1>5, Verdicts, Remembered, PageFacts DEF TypeOK, BoxesTellTheTruth, toggles
<1> QED
  BY <1>2, <1>3, <1>6, <1>7, <1>8

LEMMA CaptchaStep ==
    ASSUME IInv, captchaCallback
    PROVE  IInv'
<1> USE DEF IInv, captchaCallback, judgement, boxes, toggles
<1>1. TypeOK'
  <2>1. page' = page /\ Fields' = Fields /\ disabled' \in BOOLEAN
    BY DEF Fields
  <2>2. token \in Nat /\ token' = token + 1
    BY DEF TypeOK
  <2>3. token' \in Nat
    BY <2>2
  <2> QED
    BY <2>1, <2>3 DEF TypeOK
<1>2. BoxesTellTheTruth'
  BY DEF BoxesTellTheTruth, Fields
<1>3. JudgedAtRest' /\ ComparedMeansBound'
  BY DEF JudgedAtRest, ComparedMeansBound, AtWork, Fields, Breaks
<1>4. /\ \A i \in 1..Len(posted) : posted[i] \in Nat
      /\ token \in Nat /\ token' = token + 1
  BY DEF TypeOK
<1>5. PostsAreNew' /\ EnabledMeansNew'
  BY <1>4 DEF PostsAreNew, EnabledMeansNew
<1> QED
  BY <1>1, <1>2, <1>3, <1>5

LEMMA ToggleStep ==
    ASSUME IInv, NEW f \in page.secret, Toggle(f)
    PROVE  IInv'
<1> USE DEF IInv, Toggle, judgement, boxes
<1>1. TypeOK'
  BY DEF TypeOK, Fields, sending
<1>2. BoxesTellTheTruth'
  BY DEF BoxesTellTheTruth, Fields
<1>3. JudgedAtRest' /\ ComparedMeansBound'
  BY DEF JudgedAtRest, ComparedMeansBound, AtWork, Fields, Breaks
<1> QED
  BY <1>1, <1>2, <1>3, Sending

(* IInv holds in every reachable state of every page.                      *)
THEOREM Invariance == Spec => []IInv
<1>1. Init => IInv
  <2> SUFFICES ASSUME Init
               PROVE  IInv
    OBVIOUS
  <2>1. PICK refused \in SUBSET Fields :
           /\ mark = [f \in Fields |-> IF f \in refused THEN "error" ELSE "none"]
           /\ message = [f \in Fields |-> IF f \in refused THEN "server" ELSE "none"]
           /\ red = refused
    BY DEF Init
  <2>2. TypeOK
    <3>1. page.captcha \in BOOLEAN /\ <<>> \in Seq(Nat)
      BY PagesAssumption DEF Init
    <3>2. /\ mark \in [Fields -> {"none", "valid", "error"}]
          /\ message \in [Fields -> {"none", "server", "required", "equalTo"}]
      BY <2>1
    <3> QED
      BY <2>1, <3>1, <3>2 DEF Init, TypeOK
  <2>3. BoxesTellTheTruth
    BY <2>1, <2>2, PageFacts DEF Init, BoxesTellTheTruth
  <2>4. JudgedAtRest /\ ComparedMeansBound
    BY <2>1, <2>2, PageFacts DEF Init, JudgedAtRest, ComparedMeansBound
  <2>5. PostsAreNew /\ EnabledMeansNew
    BY DEF Init, PostsAreNew, EnabledMeansNew
  <2> QED
    BY <2>2, <2>3, <2>4, <2>5 DEF IInv
<1>2. IInv /\ [Next]_vars => IInv'
  <2> SUFFICES ASSUME IInv, [Next]_vars
               PROVE  IInv'
    OBVIOUS
  <2>1. CASE Next
    BY <2>1, FocusStep, InputStep, KeyUpStep, BlurStep, SubmitInvalidStep, SubmitValidStep,
       CaptchaStep, ToggleStep DEF Next
  <2>2. CASE UNCHANGED vars
    BY <2>2, Sending DEF IInv, TypeOK, BoxesTellTheTruth, JudgedAtRest, ComparedMeansBound, AtWork,
       Fields, Breaks, vars, judgement, boxes, toggles, sending
  <2> QED
    BY <2>1, <2>2
<1> QED
  BY <1>1, <1>2, PTL DEF Spec

(* The verdicts a user sees once they leave the fields are right, on any   *)
(* page: also when the field a second one is compared to was changed last. *)
THEOREM VerdictsAtRest == Spec => []JudgedAtRest
BY Invariance, PTL DEF IInv

(* The boxes of site.js show those verdicts between any two events.        *)
THEOREM BoxesTrue == Spec => []BoxesTellTheTruth
BY Invariance, PTL DEF IInv

(* A page that locks its button sends no post twice, whatever the order in *)
(* which captchas are solved and the button is pressed.                    *)
THEOREM NoPostTwice == Spec => []PostsAreNew
BY Invariance, PTL DEF IInv
=============================================================================
