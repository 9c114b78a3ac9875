----------------------------- MODULE IdentityMC -----------------------------
EXTENDS Accounts, TLC

Symmetry == Permutations(Requests) \cup Permutations(Challenges)
            \cup Permutations(Sessions \ {FirstSession})
=============================================================================
