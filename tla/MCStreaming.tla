----------------------------- MODULE MCStreaming -----------------------------
(* Instances of Streaming with one or two workers.                         *)
EXTENDS Streaming, TLC

CONSTANTS w1, w2

OneWorker == {w1}
TwoWorkers == {w1, w2}

(* Measurement ids as the configuration spells them, and their map keys.   *)
OneId == w1 :> "1001"
OwnIds == (w1 :> "1001") @@ (w2 :> "5001")
NumericOne == "1001" :> "k1"
Numeric == NumericOne @@ ("5001" :> "k2")
=============================================================================
