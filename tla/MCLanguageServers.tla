------------------------ MODULE MCLanguageServers ------------------------
EXTENDS LanguageServers, TLC

QuerySymmetry == Permutations(Queries)
==========================================================================
