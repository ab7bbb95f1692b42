------------------------ MODULE PasswordPolicyProofs ------------------------
(***************************************************************************)
(* Which sections of requirements can be met at all, for every section and *)
(* every password.                                                         *)
(***************************************************************************)
EXTENDS PasswordPolicy, TLAPS

(* One by one: ValidatePassword is the conjunction of the six conditions.  *)
LEMMA EachCondition ==
    ASSUME NEW section \in Section, NEW p \in Password
    PROVE  ValidatePassword(section, p) <=>
               /\ ~Fails(section, "MinLength", p)
               /\ ~Fails(section, "MaxLength", p)
               /\ ~Fails(section, "UpperCaseLetters", p)
               /\ ~Fails(section, "LowerCaseLetters", p)
               /\ ~Fails(section, "Digits", p)
               /\ ~Fails(section, "SpecialSymbols", p)
<1>1. Len(Conditions) = 6
  BY DEF Conditions
<1>2. 1 .. 6 = {1, 2, 3, 4, 5, 6}
  OBVIOUS
<1>3. /\ Conditions[1] = "MinLength"        /\ Conditions[2] = "MaxLength"
      /\ Conditions[3] = "UpperCaseLetters" /\ Conditions[4] = "LowerCaseLetters"
      /\ Conditions[5] = "Digits"           /\ Conditions[6] = "SpecialSymbols"
  BY DEF Conditions
<1>4. ValidatePassword(section, p) <=>
          \A i \in {1, 2, 3, 4, 5, 6} : ~Fails(section, Conditions[i], p)
  BY <1>1, <1>2 DEF ValidatePassword
<1> QED
  BY <1>3, <1>4

(* What the types say of a section and of a password.                      *)
LEMMA SectionTypes ==
    ASSUME NEW section \in Section
    PROVE  /\ \A condition \in {"MinLength", "MaxLength"} :
                 /\ section[condition].parses \in BOOLEAN
                 /\ section[condition].value \in Int
                 /\ section[condition].value <= MaxInt
           /\ \A condition \in {"MinLength", "MaxLength", "UpperCaseLetters",
                                "LowerCaseLetters", "Digits", "SpecialSymbols"} :
                 /\ Required(section, condition) \in BOOLEAN
                 /\ One(section, condition) \in {0, 1}
                 /\ Required(section, condition) <=> One(section, condition) = 1
           /\ RequiredClasses(section) \in 0 .. 4
  BY MaxIntAssumption
  DEF Section, LengthElement, KindElement, Required, One, RequiredClasses

LEMMA PasswordTypes ==
    ASSUME NEW p \in Password
    PROVE  /\ p.upper \in Nat /\ p.lower \in Nat /\ p.digit \in Nat
           /\ p.special \in Nat /\ p.other \in Nat
           /\ PasswordLength(p) \in 0 .. MaxInt
  BY MaxIntAssumption DEF Password, CharClasses, PasswordLength

(* A section with room for the kinds of characters it asks for is met by   *)
(* its shortest password.                                                  *)
LEMMA ShortestIsValid ==
    ASSUME NEW section \in Section, Accepted(section), HasRoom(section)
    PROVE  Shortest(section) \in Password
           /\ ValidatePassword(section, Shortest(section))
<1> DEFINE p == Shortest(section)
           min == section["MinLength"].value
           wanted == RequiredClasses(section)
           size == PasswordLength(p)
<1>1. /\ p.upper   = One(section, "UpperCaseLetters")
      /\ p.lower   = One(section, "LowerCaseLetters")
      /\ p.digit   = One(section, "Digits")
      /\ p.special = One(section, "SpecialSymbols")
      /\ p.other = IF Required(section, "MinLength") /\ min > wanted
                      THEN min - wanted ELSE 0
  BY DEF Shortest
<1>2. size = wanted + p.other
  BY <1>1, SectionTypes DEF PasswordLength, RequiredClasses
<1>3. size = IF Required(section, "MinLength") /\ min > wanted THEN min ELSE wanted
  BY <1>1, <1>2, SectionTypes
<1>4. p \in Password
  <2>1. size <= MaxInt
    BY <1>3, SectionTypes, MaxIntAssumption
  <2>2. p \in [CharClasses -> 0 .. MaxInt]
    <3>1. /\ p.upper \in 0 .. MaxInt /\ p.lower \in 0 .. MaxInt
          /\ p.digit \in 0 .. MaxInt /\ p.special \in 0 .. MaxInt
          /\ p.other \in 0 .. MaxInt
      BY <1>1, SectionTypes, MaxIntAssumption
    <3> QED
      BY <3>1 DEF Shortest, CharClasses
  <2> QED
    BY <2>1, <2>2 DEF Password
<1>5. ~Fails(section, "MinLength", p)
  BY <1>3, SectionTypes DEF Fails
<1>6. ~Fails(section, "MaxLength", p)
  <2> SUFFICES ASSUME Required(section, "MaxLength")
               PROVE  size <= section["MaxLength"].value
    BY SectionTypes, PasswordTypes, <1>4 DEF Fails
  <2>1. wanted <= section["MaxLength"].value
    BY DEF HasRoom
  <2>2. Required(section, "MinLength") => min <= section["MaxLength"].value
    BY DEF Accepted
  <2> QED
    BY <1>3, <2>1, <2>2
<1>7. /\ ~Fails(section, "UpperCaseLetters", p)
      /\ ~Fails(section, "LowerCaseLetters", p)
      /\ ~Fails(section, "Digits", p)
      /\ ~Fails(section, "SpecialSymbols", p)
  BY <1>1 DEF Fails, One
<1> QED
  BY <1>4, <1>5, <1>6, <1>7, EachCondition

(* A password that is accepted leaves room for every kind of character.    *)
LEMMA ValidNeedsRoom ==
    ASSUME NEW section \in Section, Accepted(section),
           NEW p \in Password, ValidatePassword(section, p)
    PROVE  HasRoom(section)
<1>1. /\ One(section, "UpperCaseLetters") <= p.upper
      /\ One(section, "LowerCaseLetters") <= p.lower
      /\ One(section, "Digits") <= p.digit
      /\ One(section, "SpecialSymbols") <= p.special
  BY PasswordTypes, EachCondition DEF Fails, One
<1>2. RequiredClasses(section) <= PasswordLength(p)
  BY <1>1, PasswordTypes, SectionTypes DEF RequiredClasses, PasswordLength
<1>3. Required(section, "MaxLength") =>
          PasswordLength(p) <= section["MaxLength"].value
  BY PasswordTypes, SectionTypes, EachCondition DEF Fails, Accepted, ValidLength
<1> QED
  BY <1>2, <1>3, PasswordTypes, SectionTypes DEF HasRoom

(* A section the portal starts with can be met by some password exactly    *)
(* when its largest length has room for the kinds of characters it asks    *)
(* for: the check start-up would need, and does not make.                  *)
THEOREM AcceptedSectionsCanBeMet ==
    ASSUME NEW section \in Section, Accepted(section)
    PROVE  HasRoom(section) <=> \E p \in Password : ValidatePassword(section, p)
  BY ShortestIsValid, ValidNeedsRoom
=============================================================================
