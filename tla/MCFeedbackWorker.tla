------------------------- MODULE MCFeedbackWorker -------------------------
(* Instances of FeedbackWorker.                                            *)
EXTENDS FeedbackWorker, TLC

CONSTANTS r1, r2, k1, k2, a, b

\* Two submissions that share their screenshot; one has a voice note as well.
ShareRequests == {r1, r2}
ShareKeys == {k1, k2}
ShareKeyOf == (r1 :> k1) @@ (r2 :> k2)
ShareAttachments == (r1 :> <<a, b>>) @@ (r2 :> <<a>>)

\* The same with one key: a call and its retry, in any overlap.
RetryKeys == {k1}
RetryKeyOf == [r \in ShareRequests |-> k1]
===========================================================================
