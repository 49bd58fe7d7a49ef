------------------------------- MODULE MCJobs --------------------------------
(* Small instances of Jobs for TLC. *)
EXTENDS Jobs

\* <<files of a job, rounds>>
SmallSizes == {<<1, 2>>, <<2, 2>>}
OneSize == {<<2, 1>>}
=============================================================================
