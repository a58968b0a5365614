---------------------------- MODULE MCLlmSession ----------------------------
EXTENDS LlmSession

CONSTANTS a, b, p, q

\* Rows alone dear, so that some prompts are padded.
MCCosts == {[n \in {1, 3} |-> IF n = 1 THEN 2 ELSE 3], [n \in {1, 3} |-> IF n = 1 THEN 1 ELSE 3]}

Texts == {<<a, b, b>>, <<a, b, a, b>>, <<a, b, a, b, b, a>>}

\* The template writes markers around a picture (idefics3.py).
Picture(i) == <<b, <<i, 0>>, <<i, 1>>>>

WithPictures == {Picture(q) \o <<a>>} \cup {Picture(p) \o Picture(i) \o <<a>> : i \in {p, q}}

MCPrompts == [v \in BOOLEAN |-> IF v THEN WithPictures ELSE Texts]
=============================================================================
