----------------------------- MODULE MCToolStall -----------------------------
EXTENDS ToolStall, TLC

Symmetry == Permutations(Calls)
=============================================================================
