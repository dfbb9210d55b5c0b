---------------------------- MODULE MCFileIndex ----------------------------
EXTENDS FileIndex, TLC
CONSTANTS p1, p2, images, texts
OneCategory == p1 :> images @@ p2 :> images
TwoCategories == p1 :> images @@ p2 :> texts
=============================================================================
