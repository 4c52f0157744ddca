------------------------------ MODULE MCSignIn ------------------------------
(***************************************************************************)
(* Two colleagues with a link each, three requests: a link is followed      *)
(* twice at least.                                                         *)
(***************************************************************************)
EXTENDS SignIn

CONSTANTS ann, bob, acme, l1, l2

People == {ann, bob}
Companies == [m \in People |-> acme]
Tokens == {l1, l2}
Recipients == [l \in Tokens |-> IF l = l2 THEN bob ELSE ann]
=============================================================================
