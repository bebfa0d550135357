----------------------------- MODULE MCIngestion -----------------------------
(* A text of two chunks, an empty one and one no parser takes.              *)
EXTENDS Ingestion

CONSTANTS long, empty, junk

MCContents == {long, empty, junk}
(* The two requests bring the same file, or the same URL, and only one of    *)
(* their documents is ever inserted: the other is the rival that finds it,   *)
(* or loses to it, before the first is ingested.                             *)
OneDocument ==
  /\ \A d, e \in Docs : source[d] # "none" /\ source[e] # "none" => source[d] = source[e]
  /\ Cardinality({d \in Docs : doc[d] # "none"}) <= 1
  /\ \A d, e \in Docs :
       d # e /\ run[d] \notin {"none", "queued"} => upload[e] = "done"

MCSize == [c \in MCContents |-> IF c = long THEN 2 ELSE 0]
=============================================================================
