------------------------------ MODULE MCCharts ------------------------------
(* Two panels with data of their own, one of them with two views, of which  *)
(* one has a single sample, and two cards over the samples of the status    *)
(* counters.                                                                *)
EXTENDS Charts, TLC

CONSTANTS vmstat, top, whole, late, day, sample, x

MCPage == <<vmstat, top>>
MCExtents == (vmstat :> {whole}) @@ (top :> {late, day}) @@ [c \in 1..MaxCards |-> {late}]
MCMoment == day :> sample
MCLayouts == {<<>>, <<{x}, {}>>}
=============================================================================
