---------------------------- MODULE MCVaultNotes ----------------------------
(* Small instances of VaultNotes for TLC. *)
EXTENDS VaultNotes, TLC

CONSTANTS x, y, z, c1, c2, top, f, g

HomeFolder == [i \in {x, y} |-> f]

\* Two clients write, replace, edit and purge a document each, x and y; y's id has
\* a character that file names do not keep.
Calm == [ safe |-> (x :> x) @@ (y :> z), own |-> (c1 :> {x}) @@ (c2 :> {y}),
          moves |-> FALSE, hand |-> {<<f, x>>}, ops |-> 6, faults |-> 2 ]

\* Documents change folders, beside notes of one name in both.
Relocating == [Calm EXCEPT !.moves = TRUE, !.hand = {<<f, x>>, <<g, x>>}, !.faults = 0]

\* A person left a note in the vault's own directory.
AtTop == [Calm EXCEPT !.safe = (x :> x) @@ (y :> y), !.hand = {<<top, y>>}, !.ops = 3]

AllSettings == {Calm, Relocating, AtTop}
=============================================================================
