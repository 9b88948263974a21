------------------------------- MODULE DataFiles -------------------------------
(***************************************************************************)
(* core/kernel/headstart.py: which lines and columns charge() takes for    *)
(* what they are, and the sizes that interroge() prints and takes as a     *)
(* cap. What a file keeps of a frame that sauve() wrote is pandas' doing:  *)
(* it is not modelled.                                                     *)
(***************************************************************************)
EXTENDS Naturals, Sequences, FiniteSets

CONSTANT Unit  \* 1000: the ratio of two units of size
ASSUME UnitAssumption == Unit \in Nat \ {0} /\ Unit % 10 = 0

-----------------------------------------------------------------------------
\* A line of a .jsonl file: blank, an object, another value, or no JSON.
ChargeJsonl(lines) ==
  LET read[n \in 0..Len(lines)] ==
        IF n = 0 THEN [rows |-> <<>>, bad |-> 0]
        ELSE IF lines[n] = "blank" THEN read[n - 1]
        ELSE IF lines[n] = "object" THEN [read[n - 1] EXCEPT !.rows = Append(@, lines[n])]
        ELSE [read[n - 1] EXCEPT !.bad = @ + 1]
  IN  read[Len(lines)]

\* A column of a .csv file: codes with leading zeros, other numbers, text, missing values.
\* The first read finds the columns with codes; the second infers the types of the others.
Keep(column) == \E i \in DOMAIN column : column[i] = "code"
Inferred(column) == IF \E i \in DOMAIN column : column[i] = "text" THEN "text" ELSE "number"
ChargeColumn(column) == IF Keep(column) THEN "text" ELSE Inferred(column)

-----------------------------------------------------------------------------
\* UNITS: B and three units above it.
Units == {1, Unit, Unit * Unit, Unit * Unit * Unit}

\* _size(): the largest unit that fits, with one decimal; bytes are whole.
SizeUnit(n) == CHOOSE u \in Units : (u <= n \/ u = 1) /\ \A w \in Units : w <= n => w <= u
Size(n) ==
  LET u == SizeUnit(n)
      down == (10 * n) \div u
  IN  {s \in [tenths : {down, down + 1}, unit : {u}] :
         2 * s.tenths * u <= 20 * n + u /\ 20 * n <= 2 * s.tenths * u + u}

\* _bytes() of such a text.
Bytes(size) == (size.tenths * size.unit) \div 10

-----------------------------------------------------------------------------
\* Each line that is not blank is a row or counted as bad.
LinesCounted(lines) ==
  LET read == ChargeJsonl(lines)
  IN  Len(read.rows) + read.bad = Cardinality({i \in DOMAIN lines : lines[i] # "blank"})

\* A code keeps its zeros, and a column of other numbers stays one of numbers.
CodesKept(column) ==
  /\ ChargeColumn(column) = "number" => \A i \in DOMAIN column : column[i] \notin {"code", "text"}
  /\ (\A i \in DOMAIN column : column[i] \in {"number", "missing"}) => ChargeColumn(column) = "number"

\* The size that interroge() prints, read as a cap, is the estimate to a twentieth of its unit.
SizeReadsBack(n) ==
  \A s \in Size(n) : 20 * Bytes(s) <= 20 * n + s.unit /\ 20 * n <= 20 * Bytes(s) + s.unit
=============================================================================
