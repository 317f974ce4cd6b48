------------------------------ MODULE MCProviders ------------------------------
\* Instances of the providers for model checking: config init writes one section
\* that has the required fields and one that has not (cmd/config.go:58-67).  Names
\* are alike, and so are reloads.
EXTENDS Providers, TLC

MCExamples == {ss \in [Names -> Worth] : Range(ss) = Worth}

Symmetry == Permutations(Names) \cup Permutations(Reloads)
==============================================================================
