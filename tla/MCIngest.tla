------------------------------ MODULE MCIngest ------------------------------
(* TLC instance of Ingest and the Batcher behind it: three requests that carry  *)
(* one, two or three bodies of one or two projects, batches that fill at two   *)
(* rows, a shutdown, one failure or crash.                                     *)
EXTENDS Ingest, TLC

CONSTANTS r1, r2, r3

Sent(p, b) == [project |-> p, body |-> b]

MCSends == r1 :> {Sent("p1", "b1")}
        @@ r2 :> {Sent("p1", "b1"), Sent("p1", "b2")}
        @@ r3 :> {Sent("p1", "b1"), Sent("p2", "b1"), Sent("p2", "b3")}
MCLevel == [b \in {"b1", "b2", "b3"} |-> IF b = "b1" THEN "info" ELSE "error"]
=============================================================================
