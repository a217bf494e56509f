------------------------- MODULE MCVisualEnrichment -------------------------
(***************************************************************************)
(* Visual enrichment for TLC: the kinds of files, and files with equal     *)
(* images, images of two batches, and visuals no model is asked about.     *)
(***************************************************************************)
EXTENDS VisualEnrichmentProperties, TLC

CONSTANTS i1, i2

MCImage == {i1, i2}
Pdf == [batched |-> TRUE, partial |-> FALSE, beating |-> FALSE]
Office == [batched |-> FALSE, partial |-> TRUE, beating |-> FALSE]
Slides == [batched |-> FALSE, partial |-> TRUE, beating |-> TRUE]
Sheets == [batched |-> FALSE, partial |-> FALSE, beating |-> FALSE]
MCFormat == {Pdf, Office, Slides, Sheets}
MCFile == {<<i1, i2, i1>>, <<"broken", i1, i1>>, <<"legacy", i1, i2>>, <<"legacy", "broken">>}
=============================================================================
