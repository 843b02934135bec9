---------------------------- MODULE MCNoteService ----------------------------
(***************************************************************************)
(* Small instances of NoteService for TLC.                                 *)
(***************************************************************************)
EXTENDS NoteService, TLC

Symmetry == Permutations(Ids) \cup Permutations(Tokens) \cup Permutations(Procs)
=============================================================================
