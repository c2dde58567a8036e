------------------------------ MODULE MCSignIn -------------------------------
(* No user yet (the console may add one, with a one-time password), and    *)
(* one with an authenticator, and a password of its own or a one-time one. *)
EXTENDS SignIn, TLC

Row(one, totp) ==
    [ id |-> 1, must |-> one, expires |-> IF one THEN 2 ELSE 0, enabled |-> totp,
      secret |-> IF totp THEN 1 ELSE 0, pending |-> 0, last |-> IF totp THEN 1 ELSE 0 ]

MCFirstUsers == {NoUser, Row(TRUE, TRUE), Row(FALSE, TRUE)}

MCSymmetry == Permutations(Browsers)
=============================================================================
