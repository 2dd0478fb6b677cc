-------------------------- MODULE MCPropertyImages --------------------------
EXTENDS PropertyImages, TLC

ImagesSymmetry == Permutations(Blobs) \cup Permutations(Managers)
=============================================================================
