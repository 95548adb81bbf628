----------------------------- MODULE MCProjects -----------------------------
\* Instances of Projects for TLC: a pipeline of estimate, intro contract,
\* measure, main contract, factory.
EXTENDS Projects, TLC

MCStages == {0, 2, 4}
MCContractStage == [k \in Kinds |-> IF k = "intro" THEN 1 ELSE 3]

\* Only their identity matters.
Symmetry == Permutations(Keys) \cup Permutations(Currencies)
=============================================================================
