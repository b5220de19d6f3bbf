---------------------------- MODULE MCDailyRadar ----------------------------
(***************************************************************************)
(* Small instances of the daily radar.                                     *)
(***************************************************************************)
EXTENDS DailyRadar, TLC

CONSTANTS ours, theirs, gen

Clients == Permutations(Readers)

\* One article links a generator under a former name, the other the repository
\* of the self-made articles.
MCSourceRepo == "upstream" :> theirs @@ "starcat" :> ours
MCLinks == "x" :> {gen} @@ "y" :> {ours}

\* Only one article links anything.
FewLinks == "x" :> {gen} @@ "y" :> {}

\* Nothing is linked: whether a job ends does not hang on what GitHub finds.
NoLinks == "x" :> {} @@ "y" :> {}

Req(k, kind, seq, docs) == [key |-> k, kind |-> kind, seq |-> seq, docs |-> docs]

\* Two upstream editions of one article, maybe out of order, and a self-made one.
Editions ==
  {Req("a", "upstream", 2, 1 :> "x"),
   Req("b", "upstream", 1, 1 :> "y"),
   Req("c", "starcat", 1, 1 :> "x")}

\* The same sequence with another document.
Conflict ==
  {Req("a", "upstream", 1, 1 :> "x"),
   Req("b", "upstream", 1, 1 :> "y" @@ 2 :> "x")}

\* A self-made article and, later, an upstream one.
Takeover ==
  {Req("a", "starcat", 1, 1 :> "x"),
   Req("b", "upstream", 1, 1 :> "y")}

\* Two articles, the second of which changes later.
Pages ==
  {Req("a", "upstream", 1, 1 :> "y" @@ 2 :> "x"),
   Req("b", "upstream", 2, 2 :> "y")}
=============================================================================
