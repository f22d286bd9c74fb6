------------------------ MODULE MCCheckpointJournal ------------------------
EXTENDS CheckpointJournal

Symmetric == Permutations(File)
=============================================================================
