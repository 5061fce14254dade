---------------------------- MODULE MCRowRouting ----------------------------
EXTENDS RowRouting_proofs
=============================================================================
