----------------------------- MODULE MCSession -----------------------------
EXTENDS Session, TLC

\* Edits are told apart only by what happens to them.
Symmetry == Permutations(Edit)
============================================================================
