---------------------------- MODULE MCLoginTokens ----------------------------
(***************************************************************************)
(* Small instances of LoginTokens for TLC.                                 *)
(***************************************************************************)
EXTENDS LoginTokens

CONSTANTS r1, r2, r3

ThreeRequests == {r1, r2, r3}

=============================================================================
