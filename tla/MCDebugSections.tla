-------------------------- MODULE MCDebugSections --------------------------
(* Values for DebugSections: two threads of the driver and one handle. *)
EXTENDS DebugSections

CONSTANTS t1, t2, h

MCMaxRecords == [w \in {t1, t2, h} |-> IF w = h THEN 2 ELSE 1]
=============================================================================
