----------------------------- MODULE MCCatalog ------------------------------
\* Two old rows, one of a source that is joined with its issues, and one candidate.
EXTENDS Catalog

SmallSources == {"weekly", "zread"}
SmallOldFacts == {"issue", "week"}
SmallNewFacts == {"later week"}
SmallFilters == {{}, SmallSources}
SmallSourceOf == [f \in SmallOldFacts \cup SmallNewFacts |-> IF f = "issue" THEN "weekly" ELSE "zread"]
=============================================================================
