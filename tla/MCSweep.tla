------------------------------- MODULE MCSweep -------------------------------
(***************************************************************************)
(* Every way to cut every short buffer into pieces.                        *)
(***************************************************************************)
EXTENDS Sweep, SequencesExt

MCCodes == BoundedSeq({\h00, \hFF}, 5)

\* From the second origin on, the addresses wrap, also counted in words.
MCOrigins == {\h0801, \hFFFE}

==============================================================================
