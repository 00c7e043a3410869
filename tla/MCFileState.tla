----------------------------- MODULE MCFileState -----------------------------
EXTENDS FileState, TLC

CONSTANTS old, new, short1, short2, short3

ShortContents == {short1, short2, short3}
MCContents == {old, new} \cup ShortContents
MCLineCount ==
  [c \in MCContents |-> IF c \in ShortContents THEN 1 ELSE IF c = old THEN 3 ELSE 4]
MCSize == [c \in MCContents |-> 10]
MCLongLines == [c \in MCContents |-> IF c = new THEN {3} ELSE {}]

World(races, coarse, contents, pages, maxTime, maxReads) ==
  [races |-> races, coarse |-> coarse, contents |-> contents, pages |-> pages,
   maxTime |-> maxTime, maxReads |-> maxReads]

Pages == {<<0, 1>>, <<0, 4>>, <<1, 4>>, <<2, 4>>, <<3, 1>>}
FewPages == {<<0, 2>>, <<0, 4>>, <<3, 2>>}
WholeAndRest == {<<0, 4>>, <<2, 2>>}

\* Nobody interferes and pages abound; changes between the calls; changes at any
\* point of a call; and writes that share a time, where three contents are
\* needed for one that is neither the file's nor the snapshot's.
MCWorlds ==
  {World(FALSE, FALSE, {new}, Pages, 0, 3), World(FALSE, FALSE, {old, new}, WholeAndRest, 2, 2),
   World(TRUE, FALSE, {old, new}, FewPages, 3, 1),
   World(FALSE, TRUE, ShortContents, {<<0, 4>>}, 1, 1)}
=============================================================================
