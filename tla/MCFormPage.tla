----------------------------- MODULE MCFormPage -----------------------------
(* Four of the portal's pages: Login without and with a captcha,           *)
(* ForgottenPassword/Reset (and, like it, ExpiredPassword/Change), and     *)
(* Password/Change, whose three fields are plain text.                     *)
EXTENDS FormPage

MCPage(fields, compared, captcha, disables, secret) ==
    [fields |-> fields, compared |-> compared, captcha |-> captcha,
     disables |-> disables, secret |-> secret]

MCPages ==
    {MCPage({"UserName", "Password"}, FALSE, captcha, TRUE, {"Password"}) : captcha \in BOOLEAN}
        \cup {MCPage({"NewPassword", "NewPasswordAgain"}, TRUE, FALSE, FALSE,
                     {"NewPassword", "NewPasswordAgain"}),
              MCPage({"Password", "NewPassword", "NewPasswordAgain"}, TRUE, FALSE, FALSE, {})}
=============================================================================
