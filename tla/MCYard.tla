--------------------------------- MODULE MCYard ---------------------------------
EXTENDS Yard, TLC

Symmetry == Permutations(Workers) \union Permutations(Jobs) \union
            Permutations(Customers) \union Permutations(Vessels)
=============================================================================
