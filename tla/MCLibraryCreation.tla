-------------------------- MODULE MCLibraryCreation --------------------------
(* Two editors, a loose dump and a packed one, one that lacks a ROM, one     *)
(* that is ambiguous; a shared ROM and an unused slot; a library directory   *)
(* without lists, with one, and with both.                                  *)
EXTENDS LibraryCreation, TLC

CONSTANTS w1, w2, engine, script, menu, ga, gb, ra, rb

Slot(t, r) == [tag |-> t, rom |-> r]
MCLineups == [jp |-> <<Slot(ga, ra), Slot(Dummy, Dummy), Slot(gb, rb)>>, us |-> <<Slot(ga, ra)>>]
Dump(loose, packed) == [loose |-> loose, packed |-> packed, truncated |-> FALSE, slots |-> MCLineups]

MCSlots == {Slot(ga, ra), Slot(gb, rb), Slot(Dummy, Dummy)}
MCBackups == {Dump({engine, script, menu}, {}), Dump({engine, script, menu}, {script})}
MCLibraries ==
    {Bare, [Bare EXCEPT !.lists["jp"] = {gb}, !.dirs = {<<"jp", Slot(gb, rb)>>}, !.roms = {rb}],
     [Bare EXCEPT !.lists = [l \in Lineups |-> {}]]}
MCDumps == {Dump({engine, script}, {menu, ra, rb}), Dump({engine, script, menu, ra}, {}),
            Dump({engine, script, menu}, {menu})}
Symmetry == Permutations({w1, w2})
=============================================================================
