--------------------------- MODULE MCGroupSession ---------------------------
\* Small instance.  Two bytes fit in a frame; the ids are "a", "b" and "ab",
\* so that the lists {"a", "b"} and {"ab"} run together alike.
EXTENDS GroupSession, TLC

MCTexts == {<<0, 1>>, <<1, 0, 1>>}

MCIds == {<<97>>, <<98>>, <<97, 98>>}

SessionSymmetry == Permutations(Sessions)
=============================================================================
