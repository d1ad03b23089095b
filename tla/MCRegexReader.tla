---------------------------- MODULE MCRegexReader ----------------------------
(* RegexReader with every body of up to MaxBody bytes a and b, patterns of   *)
(* one to three bytes, and replacements that grow, shrink or match again.    *)
EXTENDS RegexReader
CONSTANTS a, b, c, MaxBody

MCByte == {a, b, c}
MCBody == UNION {[1..k -> {a, b}] : k \in 0..MaxBody}
MCFind == {<<a>>, <<a, a>>, <<a, b>>, <<a, b, b>>}
MCReplace == {<<>>, <<a>>, <<c>>, <<c, c>>, <<a, b>>, <<c, c, c>>, <<c, c, c, c>>}
=============================================================================
