--------------------------- MODULE StringDistance ---------------------------
(***************************************************************************)
(* The edit distance that fuzzy matching computes along a traversal        *)
(* (stringdistance/needleman_wunsch.h, distance_matrix.h, costfunctions/). *)
(* One row of the matrix belongs to one code point of the candidate; when  *)
(* the traversal goes up and down again, rows are overwritten and the ones *)
(* further down go stale.  Only a corridor around the diagonal is computed *)
(* (Ukkonen's cutoff).                                                     *)
(*                                                                         *)
(* The matrix is allocated uninitialised: it is a function on the cells    *)
(* that were written, and TLC stops at a read of any other.                *)
(***************************************************************************)
EXTENDS Integers, Sequences, SequencesExt, FiniteSets, FiniteSetsExt, TLC

\* mutant: completing the input costs as much as an insertion
CompletionCostAlways(completion) == 1

\* the cost functions differ in the price of completing the input
CompletionCost(completion) == IF completion THEN 0 ELSE 1

SubstitutionCost(a, b) == IF a = b THEN 0 ELSE 1

\* the constructor with init: row 0 of the matrix; row 1 is not written
NewMetric(input, max_distance, completion) ==
  [input |-> input, max |-> max_distance, completion |-> completion,
   matrix |-> [cell \in {0} \X (0 .. Len(input)) |-> cell[2]],
   scores |-> [row \in {0} |-> 0], compare |-> <<>>, length |-> 0, latest |-> 1]

\* DistanceMatrix: Get and Set
CostAt(m, row, column) == m.matrix[<<row, column>>]

SetCost(m, row, column, cost) == [m EXCEPT !.matrix = (<<row, column>> :> cost) @@ @]

\* one cell: m already has the cells to its left
Cell(m, row, column) ==
  LET codepoint     == m.compare[row]
      substitution  == SubstitutionCost(m.input[column], codepoint)
      swapped       == /\ row > 1 /\ column > 1
                       /\ m.input[column] = m.compare[row - 1] /\ m.input[column - 1] = codepoint
      transposition == IF swapped THEN {CostAt(m, row - 2, column - 2) + 1} ELSE {}
      result == IF substitution = 0 THEN CostAt(m, row - 1, column - 1)
                ELSE Min({CostAt(m, row, column - 1) + 1, CostAt(m, row - 1, column) + 1,
                          CostAt(m, row - 1, column - 1) + substitution} \cup transposition)
  IN  IF column = Len(m.input)
      THEN Min({CostAt(m, row - 1, column) + CompletionCost(m.completion), result})
      ELSE result

Corridor(m, row) ==
  [left  |-> IF row > m.max THEN row - m.max ELSE 1,
   right |-> Min({Len(m.input) + 1, row + m.max + 1})]

\* EnsureCapacity and the assignment of the code point: what stood behind
\* it stays
PutCodepoint(m, codepoint, position) ==
  [m EXCEPT !.compare = [i \in 1 .. Max({Len(m.compare), position + 1}) |->
                           IF i = position + 1 THEN codepoint ELSE m.compare[i]],
            !.length = position + 1]

FillRow(m, row) ==
  LET corridor == Corridor(m, row)
      Fill(n, column) == SetCost(n, row, column, Cell(n, row, column))
      filled == FoldLeft(Fill, SetCost(m, row, corridor.left - 1, row - corridor.left + 1),
                         [i \in 1 .. corridor.right - corridor.left |-> corridor.left + i - 1])
  IN  IF corridor.right <= Len(m.input)
      THEN SetCost(SetCost(filled, row, Len(m.input), m.max + 1), row, corridor.right, m.max + 1)
      ELSE filled

\* the best score that can still come out of the row
Intermediate(m, row, before) ==
  LET corridor == Corridor(m, row)
  IN  Min({before + 1} \cup
          {CostAt(m, row, column) : column \in corridor.left .. corridor.right - 1})

\* mutant: the corridor is one cell too narrow on its left
PutNarrow(m, codepoint, position) ==
  LET row == position + 1
      put == PutCodepoint(m, codepoint, position)
      n   == FillRow([put EXCEPT !.max = @ - 1], row)
  IN  [n EXCEPT !.max = m.max, !.latest = row,
                !.scores = (row :> Intermediate(n, row, m.scores[row - 1])) @@ @]

\* Put: a candidate longer than the input and the distance allowed leaves
\* the matrix, and the row the score is read from, as they are
Put(m, codepoint, position) ==
  LET row == position + 1
      put == PutCodepoint(m, codepoint, position)
      n   == FillRow(put, row)
  IN  IF Corridor(m, row).left > Len(m.input)
      THEN [put EXCEPT !.scores =
              (row :> m.scores[row - 1] + CompletionCost(m.completion)) @@ @]
      ELSE [n EXCEPT !.latest = row,
                     !.scores = (row :> Intermediate(n, row, m.scores[row - 1])) @@ @]

IntermediateScore(m) == m.scores[m.length]

GetScore(m) == CostAt(m, m.latest, Len(m.input))

GetCandidate(m) == SubSeq(m.compare, 1, m.length)

-----------------------------------------------------------------------------

\* the reference: insertions, deletions, substitutions and swaps of
\* neighbours that turn a into b, no code point edited twice
Distance(a, b) ==
  LET d[i \in 0 .. Len(a), j \in 0 .. Len(b)] ==
        IF i = 0 \/ j = 0 THEN i + j
        ELSE Min({d[i - 1, j] + 1, d[i, j - 1] + 1,
                  d[i - 1, j - 1] + SubstitutionCost(a[i], b[j])} \cup
                 (IF i > 1 /\ j > 1 /\ a[i] = b[j - 1] /\ a[i - 1] = b[j]
                  THEN {d[i - 2, j - 2] + 1} ELSE {}))
  IN  d[Len(a), Len(b)]

=============================================================================
