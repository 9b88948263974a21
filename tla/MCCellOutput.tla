----------------------------- MODULE MCCellOutput -----------------------------
EXTENDS CellOutput, EscapeCodes, MCTypeAliases
CONSTANT MaxText  \* the length of a text with escape codes
\* Characters of one and of two bytes; no text, lines of their own, open lines.
MCTexts == {<<>>, <<1>>, <<2, 1, NL>>, <<NL, 2>>}
\* One character of each class that stripAnsi() tells apart.
MCChars == {ESC, BEL, OSC, ST, 48, 32, 109}

\* stripAnsi() removes what the expression that it replaced removes (tests/test_output.mjs).
\* The texts are the same in every state, so they are tried in the first.
StripAgrees ==
  Init => \A n \in 0..MaxText : \A s \in [1..n -> MCChars] : StripAnsi(s) = StripByDefinition(s)

\* Functions agree with their definitions: what a result shows of the text with the limits
\* and the expression, and the types that the lint rule finds with the scopes of names.
FunctionsAgree == TailAgrees /\ StripAgrees /\ (Init => AliasesAgree)
=============================================================================
