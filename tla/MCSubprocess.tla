---------------------------- MODULE MCSubprocess ----------------------------
(* Small instances of Subprocess: two jobs, and one pid more than one of     *)
(* them needs.  Descriptors up to 5 are enough for the standard streams, a   *)
(* file of the program and a temporary file of each job.                     *)
EXTENDS Subprocess

CONSTANTS j1, j2

MCIn == {0, 3}
MCOut == {2}
MCErr == {3}

=============================================================================
