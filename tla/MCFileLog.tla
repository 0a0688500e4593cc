------------------------------ MODULE MCFileLog ------------------------------
(* FileLog on small sets, up to the first meeting of two on the file.       *)
EXTENDS FileLog, TLC

Symmetry == Permutations(Procs)
UpToTheFirstMeeting == apart

\* Prune and imports run on a file of at most three leaves, exports on any.
SmallJobs == NoJob \/ export # NoExport \/ issued <= 3
==============================================================================
