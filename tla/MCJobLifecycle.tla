--------------------------- MODULE MCJobLifecycle ---------------------------
(* JobLifecycle for TLC: one job, its worker, a cancellation, a deletion.  *)
EXTENDS JobLifecycle

CONSTANTS j1, w1, cancel, delete

OneJob == {j1}
OneWorker == {w1}
OneCancel == {cancel}
OneDelete == {delete}
=============================================================================
