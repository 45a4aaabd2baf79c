------------------------- MODULE MCComposerCommands -------------------------
(* The catalogue drup ships: one jump. *)
EXTENDS ComposerCommands

KnownCatalog == {<<10, 11>>}
=============================================================================
