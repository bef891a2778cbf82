----------------------------- MODULE MCOAuthLogin ------------------------------
(* Instances of OAuthLogin for TLC. *)
EXTENDS OAuthLogin, TLC

CONSTANTS a1, a2, a3, e1, e2

\* One address that passes from one Google account to another, and one that does not.
SharedAddress == [a \in {a1, a2, a3} |-> IF a = a3 THEN e2 ELSE e1]

=============================================================================
