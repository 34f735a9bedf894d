------------------------------ MODULE MCVintage ------------------------------
(* Instances of VintageStore: which series each source feeds.              *)
EXTENDS VintageProps, TLC

CONSTANTS a, b, gap
Symmetric == Permutations({a, b, gap})

OneSeries == (1 :> 1)               \* one series, one source
SharedSource == (1 :> 1 @@ 2 :> 1)  \* two series parsed from one payload
PolledAndArchive == (1 :> 1 @@ 2 :> 2)  \* one polled, one from an archive
=============================================================================
