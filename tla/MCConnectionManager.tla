------------------------ MODULE MCConnectionManager ------------------------
EXTENDS ConnectionManager, TLC

ProfileSymmetry == Permutations(Profiles)
=============================================================================
