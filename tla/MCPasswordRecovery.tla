------------------------- MODULE MCPasswordRecovery -------------------------
(***************************************************************************)
(* An instance of PasswordRecovery for TLC.                                *)
(***************************************************************************)
EXTENDS PasswordRecovery, TLC

CONSTANTS ann, bob, home, shared, long, weak, r1, r2

TwoAccounts == ann :> ann @@ bob :> bob

(* One browser is Ann's own, the other one she shares with Bob. *)
SharedBrowser == home :> {ann} @@ shared :> {ann, bob}

On == [enabled |-> TRUE]
Off == [enabled |-> FALSE]
Length(n) == [enabled |-> TRUE, parses |-> TRUE, value |-> n]

(* From three to four characters, both upper and lower case letters. *)
LettersOfBothCases ==
    [MinLength |-> Length(3), MaxLength |-> Length(4),
     UpperCaseLetters |-> On, LowerCaseLetters |-> On,
     Digits |-> Off, SpecialSymbols |-> Off]

ShapeOf(upper, lower, digit, special, other) ==
    [upper |-> upper, lower |-> lower, digit |-> digit, special |-> special,
     other |-> other]

TwoShapes == long :> ShapeOf(1, 3, 0, 0, 0) @@ weak :> ShapeOf(0, 4, 0, 0, 0)

TheRequests == Permutations({r1, r2})
=============================================================================
