----------------------------- MODULE MCAccounts -----------------------------
(***************************************************************************)
(* Small instances of Accounts for TLC.                                    *)
(***************************************************************************)
EXTENDS Accounts

CONSTANTS r1, r2, r3, i1, i2, a1, a2

TwoRegistrations == {r1, r2}
ThreeRegistrations == {r1, r2, r3}
TwoInvites == {i1, i2}
TwoAccepts == {a1, a2}

=============================================================================
