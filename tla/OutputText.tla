------------------------------ MODULE OutputText ------------------------------
(***************************************************************************)
(* core/output.ts: the tail of a text. A character is its width in bytes,  *)
(* a newline among them is NL: only widths and line ends matter here.      *)
(***************************************************************************)
EXTENDS Naturals, Sequences, SequencesExt, FiniteSetsExt

CONSTANTS NL,        \* the newline, a character of one byte
          MaxLines,  \* OUTPUT_MAX_LINES
          MaxBytes   \* OUTPUT_MAX_BYTES

Width(c) == IF c = NL THEN 1 ELSE c
Bytes(s) ==
  LET upto[n \in 0..Len(s)] == IF n = 0 THEN 0 ELSE upto[n - 1] + Width(s[n])
  IN  upto[Len(s)]
EndsLine(s) == s # <<>> /\ Last(s) = NL

\* split("\n"), without the empty string after a final newline; split[n] is of the last n characters.
LinesOf(s) ==
  LET split[n \in 0..Len(s)] ==
        IF n = 0 THEN <<<<>>>>
        ELSE LET c == s[Len(s) - n + 1]
             IN  IF c = NL THEN <<<<>>>> \o split[n - 1] ELSE [split[n - 1] EXCEPT ![1] = <<c>> \o @]
  IN  IF s = <<>> \/ EndsLine(s) THEN Front(split[Len(s)]) ELSE split[Len(s)]

\* join("\n"); joined[n] is of the last n lines.
Joined(lines) ==
  LET joined[n \in 0..Len(lines)] ==
        IF n = 0 THEN <<>>
        ELSE LET line == lines[Len(lines) - n + 1]
             IN  IF n = 1 THEN line ELSE line \o <<NL>> \o joined[n - 1]
  IN  joined[Len(lines)]

\* The cut is at a byte; bytes that continue a character before it are skipped.
EndOfLine(line) ==
  LET whole(n) == Bytes(SubSeq(line, n, Len(line))) <= MaxBytes
  IN  SubSeq(line, Min({n \in 1..Len(line) + 1 : whole(n)}), Len(line))

LineBytes(kept, line) == Bytes(line) + (IF kept = <<>> THEN 0 ELSE 1)

\* The loop over the lines, last one first: what it has taken, and whether it goes on.
Took(line, taken) ==
  LET kept == <<line>> \o taken.kept
      size == taken.size + LineBytes(taken.kept, line)
  IN  IF taken.full THEN taken
      ELSE IF size <= MaxBytes
      THEN [kept |-> kept, size |-> size, full |-> Len(kept) = MaxLines]
      ELSE [taken EXCEPT !.full = TRUE, !.kept = IF @ = <<>> THEN <<EndOfLine(line)>> ELSE @]
Collect(lines) ==
  LET took[n \in 0..Len(lines)] ==
        IF n = 0 THEN [kept |-> <<>>, size |-> 0, full |-> FALSE]
        ELSE Took(lines[Len(lines) - n + 1], took[n - 1])
  IN  took[Len(lines)].kept

Fits(s) == Len(LinesOf(s)) <= MaxLines /\ Bytes(s) <= MaxBytes

TruncateTail(s) == IF Fits(s) THEN s ELSE Joined(Collect(LinesOf(s)))

\* The end of a cell's text that its result shows, and the file with all of it.
FinalOutput(s) == [output |-> TruncateTail(s), file |-> IF Fits(s) THEN {} ELSE {s}]

-----------------------------------------------------------------------------
\* The reference: the longest end of the text, without its final newline, that
\* starts with a line and is within both limits; failing that, the longest end.
StartsLine(s, e) == Len(e) = Len(s) \/ s[Len(s) - Len(e)] = NL
Longest(S) == CHOOSE e \in S : \A f \in S : Len(f) <= Len(e)
TailByDefinition(s) ==
  IF Fits(s) THEN s
  ELSE LET text == IF EndsLine(s) THEN Front(s) ELSE s
           within == {e \in Suffixes(text) : Bytes(e) <= MaxBytes
                                             /\ Cardinality({n \in DOMAIN e : e[n] = NL}) < MaxLines}
           whole == {e \in within : StartsLine(text, e)}
       IN  IF whole \ {<<>>} = {} /\ ~EndsLine(text) /\ text # <<>>
           THEN Longest({e \in within : NL \notin Range(e)})
           ELSE Longest(whole)
=============================================================================
