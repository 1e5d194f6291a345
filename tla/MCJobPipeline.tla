--------------------------- MODULE MCJobPipeline ---------------------------
(***************************************************************************)
(* Small instances of JobPipeline for TLC.                                 *)
(***************************************************************************)
EXTENDS JobPipeline, TLC

CONSTANTS j1, j2, w1, w2, m1, r1, t1

OneJob == {j1}
TwoJobs == {j1, j2}
OneWorker == {w1}
TwoWorkers == {w1, w2}
OneMaterial == {m1}
OneRecommendation == {r1}
OneTag == {t1}

(* An extraction lists everything or nothing. *)
AllOrNothing == {{}, {m1, r1, t1}}
MaterialOnly == {{m1}}

WorkersAlike == Permutations(TwoWorkers)

=============================================================================
