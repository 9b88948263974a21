----------------------------- MODULE EscapeCodes -----------------------------
(***************************************************************************)
(* core/output.ts: stripAnsi(), and the regular expression that it         *)
(* replaced. A character is its code.                                      *)
(***************************************************************************)
EXTENDS Naturals, Sequences, SequencesExt, FiniteSetsExt

ESC == 27
BEL == 7
OSC == 93    \* ]
ST == 92     \* \
Params == 48..63
Intermediates == 32..47

\* value[i] is in the range.
In(s, i, range) == i \in DOMAIN s /\ s[i] \in range

\* The first index from i on that is outside of the range.
Past(s, i, range) == Min({j \in i..Len(s) + 1 : ~In(s, j, range)})

Bells(s, from) == {i \in from..Len(s) : s[i] = BEL}
Terminators(s) == {i \in DOMAIN s : s[i] = ESC /\ In(s, i + 1, {ST})}

\* Mutant: an OSC ends at the first ESC \.
LastTerminator_First(s, start) == Min({i \in Terminators(s) : i >= start + 2})

LastTerminator(s, start) == Max(Terminators(s))

\* A sequence of parameters, intermediates and one final byte; NoEnd if it is none.
NoEnd == 0
ControlEnd(s, start) ==
  LET end == Past(s, Past(s, start + 2, Params), Intermediates)
  IN  IF In(s, start + 1, 64..95) /\ In(s, end, 64..126) THEN end + 1 ELSE NoEnd

EscapeSequenceEnd(s, start) ==
  IF ~In(s, start + 1, {OSC}) THEN ControlEnd(s, start)
  ELSE IF Bells(s, start + 2) # {} THEN Min(Bells(s, start + 2)) + 1
  ELSE IF \E i \in Terminators(s) : i >= start + 2 THEN LastTerminator(s, start) + 2
  ELSE ControlEnd(s, start)

\* The loop of stripAnsi(): result, and kept and index from the next ESC on.
RECURSIVE StripFrom(_, _, _, _)
StripFrom(s, result, kept, from) ==
  LET escapes == {i \in from..Len(s) : s[i] = ESC}
      index == Min(escapes)
      end == EscapeSequenceEnd(s, index)
  IN  IF escapes = {} THEN result \o SubSeq(s, kept, Len(s))
      ELSE IF end = NoEnd THEN StripFrom(s, result, kept, index + 1)
      ELSE StripFrom(s, result \o SubSeq(s, kept, index - 1), end, end)

StripAnsi(s) == StripFrom(s, <<>>, 1, 1)

-----------------------------------------------------------------------------
(***************************************************************************)
(* \x1b(?:\][^\x07]*(?:\x07|\x1b\\)|[@-_][0-?]*[ -/]*[@-~]), every match    *)
(* removed: the first alternative that matches, as far as it can.          *)
(***************************************************************************)
Osc(m) ==
  \E n \in 3..Len(m) :
    /\ m[2] = OSC /\ \A i \in 3..n - 1 : m[i] # BEL
    /\ SubSeq(m, n, Len(m)) \in {<<BEL>>, <<ESC, ST>>}
Control(m) ==
  /\ Len(m) >= 3 /\ m[2] \in 64..95 /\ Last(m) \in 64..126
  /\ \E n \in 2..Len(m) - 1 : /\ \A i \in 3..n : m[i] \in Params
                              /\ \A i \in n + 1..Len(m) - 1 : m[i] \in Intermediates

Matches(s, Form(_)) == {m \in Prefixes(s) : m # <<>> /\ m[1] = ESC /\ Form(m)}
Greedy(S) == CHOOSE m \in S : \A n \in S : Len(n) <= Len(m)

RECURSIVE StripByDefinition(_)
StripByDefinition(s) ==
  IF s = <<>> THEN s
  ELSE LET osc == Matches(s, Osc)
           matches == IF osc # {} THEN osc ELSE Matches(s, Control)
       IN  IF matches = {} THEN <<Head(s)>> \o StripByDefinition(Tail(s))
           ELSE StripByDefinition(SubSeq(s, Len(Greedy(matches)) + 1, Len(s)))
=============================================================================
