------------------------------- MODULE MCEvidence -------------------------------
(* Seasons of two hours with a reading in each hour.  MCShortPage: a store  *)
(* of more keys than a page, with the first hour on the second page.        *)
EXTENDS EvidencePipeline

MCReadings == {[at |-> h, key |-> Device, n |-> 1, anchored |-> TRUE, copy |-> 1] : h \in 1 .. LastHour}
MCFirstPage == Key
MCShortPage == Key \ {ReadingsKey(1)}
================================================================================
