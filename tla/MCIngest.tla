------------------------------ MODULE MCIngest ------------------------------
(***************************************************************************)
(* Small instances of the candidate queue.                                 *)
(***************************************************************************)
EXTENDS Ingest

CONSTANTS k1, k2, r1, f1, f2, bad

OneRepo == [f \in Facts |-> r1]

Req(k, fs, m) == [key |-> k, facts |-> fs, manual |-> m]

\* One collected batch with two external keys of one repository: the batch
\* outlives the settling of each, and the second meets the row of the first.
OneBatch == {Req(k1, {f1, f2}, FALSE)}

\* One manual import every caller sends under one key, with a duplicate, and a
\* request that the validation refuses for one of its two candidates.
OneImport == {Req(k1, {f1, f2}, TRUE), Req(k2, {f1, bad}, FALSE)}
=============================================================================
