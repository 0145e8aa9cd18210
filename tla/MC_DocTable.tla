----------------------------- MODULE MC_DocTable -----------------------------
EXTENDS DocTable

CONSTANTS n1, n2, n3, n4

\* FNVHash64 is taken to be injective on the names.
MCHash == [n \in Names |-> CASE n = n1 -> 11 [] n = n2 -> 22 [] n = n3 -> 33 [] OTHER -> 44]

\* Four names, and room for a fifth docid so that a failed lookup on a
\* registered name can allocate one.
MCMaxDocs == 5

=============================================================================
