-------------------------- MODULE MCCompileService --------------------------
\* CompileService with small sets for TLC.
EXTENDS CompileService

CONSTANTS p1, s1, s2, s3, a, b, short, long

\* Component a's compile sees everything, b's only what is project-wide.
MCInScope == (a :> {a, b}) @@ (b :> {b})

Size(text) == IF text = short THEN 1 ELSE 3

\* An envelope of two tokens, and neighbours that share one if both are short:
\* tokens do not add up, as those of concatenated JSON do not.
MCTokens(texts) ==
    2 + FoldLeft(LAMBDA n, text : n + Size(text), 0, texts)
      - Cardinality({i \in 2..Len(texts) : texts[i - 1] = short /\ texts[i] = short})

IdSymmetry == Permutations(MemoryIds) \cup Permutations({s1, s2})
=============================================================================
