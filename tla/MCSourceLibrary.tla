-------------------------- MODULE MCSourceLibrary --------------------------
(* SourceLibrary with two covers, two shapes, two fonts, and three characters *)
(* of which one cannot be drawn.                                              *)
EXTENDS SourceLibrary

CONSTANTS c1, c2, s1, s2, f1, f2, a, b, emoji

MCCovers == {c1, c2}
MCShapes == {s1, s2}
MCFonts == {f1, f2}
MCChars == {a, b, emoji}
MCUnsupported == {emoji}
MCFaults == {"write", "kill", "tear"}

Symmetry == Permutations(MCCovers) \cup Permutations(MCShapes) \cup Permutations(MCFonts)
            \cup Permutations({a, b})
=============================================================================
