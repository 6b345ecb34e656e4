------------------------------- MODULE PQueue -------------------------------
(* The order p-queue keeps the entries of publishQueue in.                  *)
EXTENDS Naturals, FiniteSets, SequencesExt

\* addPublishJob gives a retry 2 and anything else 1.
Priority(e) == IF e.isRetry THEN 2 ELSE 1

\* p-queue runs the highest priority first, and inserts an entry behind every
\* other of the same or a higher one.
Insert(q, e) ==
  LET ahead == {i \in DOMAIN q : Priority(q[i]) >= Priority(e)}
  IN  InsertAt(q, Cardinality(ahead) + 1, e)
=============================================================================
