----------------------- MODULE MCArtifactPublication -----------------------
\* ArtifactPublication with small sets for TLC.
EXTENDS ArtifactPublication, TLC

PublisherSymmetry == Permutations(Publishers) \cup Permutations(CompileIds)
=============================================================================
