--------------------------- MODULE MCSecurityConfig ---------------------------
(* Instance of SecurityConfig for TLC. *)
EXTENDS SecurityConfig, TLC

CONSTANTS k1, k2

mcKeys == {k1, k2}

=============================================================================
