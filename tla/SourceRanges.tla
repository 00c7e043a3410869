----------------------------- MODULE SourceRanges -----------------------------
(***************************************************************************)
(* The covered ranges of a source file: half-open ranges of offsets, sorted *)
(* and merged whenever a page is recorded, and what read_file concludes    *)
(* from them.                                                              *)
(***************************************************************************)
EXTENDS Integers, SequencesExt

LinesOf(range) == range[1]..(range[2] - 1)

Earlier(a, b) == a[1] < b[1] \/ (a[1] = b[1] /\ a[2] < b[2])

\* The elements of a finite set of ranges in order.
Sorted(ranges) ==
  CHOOSE s \in [1..Cardinality(ranges) -> ranges] :
    \A i, j \in DOMAIN s : i < j => Earlier(s[i], s[j])

\* Mutated: a range that begins in the last one replaces its end.
AbsorbLast(merged, range) ==
  IF merged = <<>> \/ range[1] > Last(merged)[2] THEN Append(merged, range)
  ELSE [merged EXCEPT ![Len(merged)] = <<@[1], range[2]>>]

\* One range after another is put behind the merged ones or into the last.
Absorb(merged, range) ==
  IF merged = <<>> \/ range[1] > Last(merged)[2] THEN Append(merged, range)
  ELSE [merged EXCEPT ![Len(merged)] = <<@[1], Max({@[2], range[2]})>>]

\* The ranges of a set, without the empty ones, in order and merged.
MergeRanges(ranges) ==
  FoldLeft(Absorb, <<>>, Sorted({r \in ranges : r[2] > r[1]}))

\* Mutated: the parts are measured to their own ends.
OverlapToEnd(ranges, start, end) ==
  LET part(sum, r) == sum + Max({0, r[2] - Max({start, r[1]})})
  IN IF end <= start THEN 0 ELSE FoldLeft(part, 0, ranges)

OverlapLength(ranges, start, end) ==
  LET part(sum, r) == sum + Max({0, Min({end, r[2]}) - Max({start, r[1]})})
  IN IF end <= start THEN 0 ELSE FoldLeft(part, 0, ranges)

\* Mutated: any range to the last line will do.
CoversEnd(ranges, total) ==
  total = 0 \/ (ranges # <<>> /\ Last(ranges)[2] >= total)

CoversAll(ranges, total) ==
  total = 0 \/ (ranges # <<>> /\ ranges[1][1] = 0 /\ ranges[1][2] >= total)
=============================================================================
