--------------------------- MODULE MCRequestScrape ---------------------------
(* Four results of three probes; the second result of p1 is skipped.       *)
EXTENDS RequestScrape

CONSTANTS p1, p2, p3

FourResults == <<p1, p2, p1, p3>>
=============================================================================
