----------------------------- MODULE MCSacFile -----------------------------
EXTENDS SacFile

CONSTANTS x

MCFile    == {1, 2}
MCOneFile == {1}

\* A single word and more than a block of words, in an order that shows.
MCBuffer == {<<LetterA>>, <<x, LetterA, x, LetterA>>}

\* The same word everywhere, where only the blocks matter.
MCBlank  == {<<LetterA>>, <<LetterA, LetterA, LetterA>>}
=============================================================================
