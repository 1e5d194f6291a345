--------------------------- MODULE MCReportAttempt ---------------------------
(***************************************************************************)
(* A small instance of ReportAttempt for TLC.  The labour hours are chosen *)
(* around the rounding, ties among them, and around the smallest and the   *)
(* largest value of DECIMAL(4,1).                                          *)
(***************************************************************************)
EXTENDS ReportAttempt

SomeHours == {-99995, -99994, -25, -4, 0, 25, 254, 255, 256, 99994, 99995}

=============================================================================
