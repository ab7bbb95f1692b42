--------------------------- MODULE PasswordPolicy ---------------------------
(***************************************************************************)
(* The password requirements of the portal's configuration: how a section  *)
(* of requirements is accepted at start-up and how a new password is held  *)
(* against it.  Pure operators; PasswordRecovery uses them as guards.      *)
(*                                                                         *)
(* A password is what the requirements tell apart: how many of its         *)
(* characters are upper case, lower case, digits, special (neither letter  *)
(* nor digit) or other letters.                                            *)
(***************************************************************************)
EXTENDS Integers, Sequences

CONSTANT MaxInt     \* int.MaxValue

(* Lengths are of type int, which has room for one character of each kind. *)
ASSUME MaxIntAssumption == MaxInt \in Nat /\ MaxInt >= 4

CharClasses == {"upper", "lower", "digit", "special", "other"}

(* The conditions in the order ValidatePassword holds them against a       *)
(* password: the first that fails gives the message of the form.           *)
Conditions == << "MinLength", "MaxLength", "UpperCaseLetters",
                 "LowerCaseLetters", "Digits", "SpecialSymbols" >>

(***************************************************************************)
(* A section gives every condition an element.  A condition the file does  *)
(* not mention and one it disables are treated alike everywhere            *)
(* (?.Enabled == true), so both are an element that is not enabled.  The   *)
(* text of a length either parses as an int or does not; a kind of         *)
(* characters has no value to parse.                                       *)
(***************************************************************************)
LengthElement == [enabled : BOOLEAN, parses : BOOLEAN,
                  value : -(MaxInt + 1) .. MaxInt]

KindElement == [enabled : BOOLEAN]

Section == [MinLength : LengthElement, MaxLength : LengthElement,
            UpperCaseLetters : KindElement, LowerCaseLetters : KindElement,
            Digits : KindElement, SpecialSymbols : KindElement]

Required(section, condition) == section[condition].enabled

PasswordLength(p) == p.upper + p.lower + p.digit + p.special + p.other

(* The length of a string is an int.                                       *)
Password == {p \in [CharClasses -> 0 .. MaxInt] : PasswordLength(p) <= MaxInt}

(* Variant: the largest length is no longer allowed. *)
FailsAtMaximum(section, condition, p) ==
    /\ Required(section, condition)
    /\ \/ /\ condition = "MinLength"
          /\ section[condition].parses
          /\ PasswordLength(p) < section[condition].value
       \/ /\ condition = "MaxLength"
          /\ section[condition].parses
          /\ PasswordLength(p) >= section[condition].value
       \/ condition = "UpperCaseLetters" /\ p.upper = 0
       \/ condition = "LowerCaseLetters" /\ p.lower = 0
       \/ condition = "Digits" /\ p.digit = 0
       \/ condition = "SpecialSymbols" /\ p.special = 0

(* What is wrong with p under one condition.  int.TryParse guards the two  *)
(* lengths: a value that is no number asks nothing.                        *)
Fails(section, condition, p) ==
    /\ Required(section, condition)
    /\ \/ /\ condition = "MinLength"
          /\ section[condition].parses
          /\ PasswordLength(p) < section[condition].value
       \/ /\ condition = "MaxLength"
          /\ section[condition].parses
          /\ PasswordLength(p) > section[condition].value
       \/ condition = "UpperCaseLetters" /\ p.upper = 0
       \/ condition = "LowerCaseLetters" /\ p.lower = 0
       \/ condition = "Digits" /\ p.digit = 0
       \/ condition = "SpecialSymbols" /\ p.special = 0

ValidatePassword(section, p) ==
    \A i \in 1..Len(Conditions) : ~Fails(section, Conditions[i], p)

(* ParseAndValidateLength: an enabled length is a positive number.         *)
ValidLength(section, condition) ==
    Required(section, condition) =>
        /\ section[condition].parses
        /\ section[condition].value > 0

(* The portal starts with a section only if both lengths are valid and the *)
(* smallest is not above the largest.                                      *)
Accepted(section) ==
    /\ ValidLength(section, "MinLength")
    /\ ValidLength(section, "MaxLength")
    /\ Required(section, "MinLength") /\ Required(section, "MaxLength") =>
           section["MinLength"].value <= section["MaxLength"].value

(***************************************************************************)
(* What the operators are for.                                             *)
(***************************************************************************)
One(section, condition) == IF Required(section, condition) THEN 1 ELSE 0

(* The number of different kinds of characters a section asks for.         *)
RequiredClasses(section) ==
    One(section, "UpperCaseLetters") + One(section, "LowerCaseLetters") +
    One(section, "Digits") + One(section, "SpecialSymbols")

(* The shortest password that has one character of every required kind and *)
(* enough other letters to reach the smallest length.                      *)
Shortest(section) ==
    [upper   |-> One(section, "UpperCaseLetters"),
     lower   |-> One(section, "LowerCaseLetters"),
     digit   |-> One(section, "Digits"),
     special |-> One(section, "SpecialSymbols"),
     other   |-> IF /\ Required(section, "MinLength")
                    /\ section["MinLength"].value > RequiredClasses(section)
                 THEN section["MinLength"].value - RequiredClasses(section)
                 ELSE 0]

(* A section can be met when its largest length has room for the kinds of  *)
(* characters it asks for.  Start-up does not check this.                  *)
HasRoom(section) ==
    Required(section, "MaxLength") =>
        RequiredClasses(section) <= section["MaxLength"].value
=============================================================================
