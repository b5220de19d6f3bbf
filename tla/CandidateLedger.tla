-------------------------- MODULE CandidateLedger --------------------------
(***************************************************************************)
(* What the candidate queue promises to the callers of ingest.Service and  *)
(* to the administrator who watches a batch: a batch is accepted whole and *)
(* once, each of its candidates is settled exactly once, and the verdict   *)
(* on the batch appears in the very step that settles its last candidate   *)
(* and is never revised.  Leases, attempts, clocks, restarts and races do  *)
(* not exist at this level; Ingest.tla implements it.                      *)
(***************************************************************************)
EXTENDS Integers

CONSTANTS Keys, Facts

VARIABLES
  rows,     \* candidate number |-> its batch, fact and outcome
  verdict   \* batch |-> "none" (not accepted), "open", or the final verdict

vars == <<rows, verdict>>

Row == [batch : Keys, fact : Facts, outcome : {"open", "success", "discarded"}]

Final == {"success", "partial_success", "failed"}

Init ==
  /\ rows = [i \in 1..0 |-> 0]
  /\ verdict = [k \in Keys |-> "none"]

OfBatch(rs, k) == {i \in DOMAIN rs : rs[i].batch = k}

\* The candidates of a new batch are appended, whole, to those known before.
Accept(k) ==
  /\ verdict[k] = "none"
  /\ verdict' = [verdict EXCEPT ![k] = "open"]
  /\ DOMAIN rows \subseteq DOMAIN rows'
  /\ OfBatch(rows', k) # {}
  /\ \A i \in DOMAIN rows' :
       IF i \in DOMAIN rows
       THEN rows'[i] = rows[i]
       ELSE rows'[i].batch = k /\ rows'[i].outcome = "open"

\* What the outcomes of a batch amount to.
Judged(rs, k, v) ==
  LET mine == OfBatch(rs, k)
  IN /\ v = "open" <=> \E i \in mine : rs[i].outcome = "open"
     /\ v = "success" <=> \A i \in mine : rs[i].outcome = "success"
     /\ v = "failed" <=> \A i \in mine : rs[i].outcome = "discarded"

Settle(i, outcome) ==
  /\ rows[i].outcome = "open"
  /\ rows' = [rows EXCEPT ![i] = [@ EXCEPT !.outcome = outcome]]
  /\ \E v \in Final \cup {"open"} :
       /\ Judged(rows', rows[i].batch, v)
       /\ verdict' = [verdict EXCEPT ![rows[i].batch] = v]

Next ==
  \/ \E k \in Keys : Accept(k)
  \/ \E i \in DOMAIN rows, outcome \in {"success", "discarded"} : Settle(i, outcome)

Spec == Init /\ [][Next]_vars
=============================================================================
