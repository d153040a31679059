-------------------------- MODULE MCEditorLibrary --------------------------
(* EditorLibrary with two directory names and interchangeable ROM files.    *)
EXTENDS EditorLibrary, TLC

Symmetry == Permutations(Roms) \cup Permutations(Games) \cup Permutations(Names)

=============================================================================
