------------------------------ MODULE MCCliRun ------------------------------
(* Instances of CliRun: two runs without --overwrite, one of them on an    *)
(* archive, and one with it.                                               *)
EXTENDS CliRun

CONSTANTS a, b, o

MCRuns == {a, b, o}
MCOverwrite == {o}
MCArchives == {a}
=============================================================================
