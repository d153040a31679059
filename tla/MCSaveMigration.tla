--------------------------- MODULE MCSaveMigration ---------------------------
(* Small published keys for SaveMigration: two as LegacyExport publishes them, *)
(* and others as editors from before identities left them.                     *)
EXTENDS SaveMigration, TLC

EX == INSTANCE LegacyExport

CONSTANTS a, b, ta, tb, tx, p, q

MCGames == {a, b}
MCTags == {ta, tb, tx}
MCGenerated == (a :> ta) @@ (b :> tb)
MCWords == [w \in 0 .. 109 |-> w % 20]

State(g, t, n) == [tag |-> t, of |-> g, at |-> n]
Game(t, alts, l) == [dir |-> t, primary |-> t, alts |-> alts, list |-> l]
Entry(g, id, t, tags) == [tag |-> t, id |-> id, tags |-> tags, game |-> TRUE, of |-> g]
Nothing(d) == [f \in d |-> None]
Places == (1 .. MaxMenu) \X Slots
Sources == {p, q, Live}
NoBanks == [d \in Sources |-> [i \in 1 .. MaxMenu |-> None]]
NoStates == [d \in Sources |-> Nothing(Places)]

Base == [lib |-> (a :> Game(ta, {}, "one")) @@ (b :> Game(tb, {}, "one")),
         menus |-> (p :> <<>>) @@ (q :> <<>>), active |-> None, base |-> (p :> 0) @@ (q :> 50),
         liveValid |-> TRUE, sramPack |-> None, clock |-> 2, banks |-> NoBanks,
         from |-> NoStates, data |-> Nothing(Files),
         sram |-> Nothing(Games), gid |-> Nothing(Games), native |-> Nothing(Games)]

\* A library on the disk.
GameDir(g, t, state, block) ==
    [kind |-> "game", states |-> [s \in Slots |-> state], sram |-> block,
     json |-> [of |-> g, id |-> g, native |-> t, region |-> None, alts |-> {}, csize |-> 0,
               arch |-> IF g \in CdGames THEN "cd" ELSE "card",
               rom |-> [file |-> g, form |-> "raw", bytes |-> g]]]
ListOf(rows, dirs) == [kind |-> "folder", rows |-> rows, dirs |-> dirs]
NoList == ListOf(<<>>, <<>>)
F == "FOLDER1"

InFolder(g, t) == F :> ListOf(<<t>>, t :> GameDir(g, t, State(g, t, 1), State(g, t, 1)))
FolderOfUs == [jp |-> ListOf(<<ta>>, ta :> GameDir(a, ta, None, None)),
               us |-> ListOf(<<F>>, InFolder(b, tb))]
FolderOfJp == [jp |-> ListOf(<<ta, F>>, (ta :> GameDir(a, ta, None, None)) @@ InFolder(b, tb)),
               us |-> NoList]
NoFolder == [jp |-> ListOf(<<tb, ta>>, (ta :> GameDir(a, ta, None, None))
                                       @@ (tb :> GameDir(b, tb, None, State(b, tb, 1)))),
             us |-> NoList]
\* One file name, two contents; and a folder in a folder.
Colliding == [FolderOfUs EXCEPT !.jp.dirs[ta].json.rom.file = b]
Nested == [FolderOfUs EXCEPT !.us.dirs[F].dirs = @ @@ InFolder(a, ta), !.us.dirs[F].rows = <<F>>]

\* What the migration finds: the packs as published, after the console saved the
\* SRAM of the games in the active one.
Played(pack, menu) ==
    LET tags == {i \in DOMAIN menu : menu[i].game}
    IN  [i \in DOMAIN menu |->
            LET at == {j \in tags : pack.profile[menu[j].tag].index = i - 1}
            IN  IF at = {} THEN EX!ReadSram(pack, i)
                ELSE EX!PlaySram(pack, menu[CHOOSE j \in at : TRUE].tag, State(a, tx, 2)).sram[i]]

Published(library, packs, named, active) ==
    LET own(g) == CHOOSE game \in EX!AllGames(EX!Load(library)) : game.json.of = g
        menu == [d \in Packs |-> EX!ReadMenu(packs[named[d]], named[d][1])]
        states(d, k) == IF Position(k) \in DOMAIN menu[d]
                        THEN EX!ReadStates(packs[named[d]], named[d][1], Position(k), k[2]) ELSE {}
        block(d, i) == LET s == EX!ReadSram(packs[named[d]], i)
                       IN  IF s = None /\ i \in DOMAIN menu[d] THEN State(menu[d][i].of, tx, 0) ELSE s
    IN  [Base EXCEPT
           !.data = [f \in Files |-> own(f[1]).states[f[2]]],
           !.sram = [g \in Games |-> own(g).sram],
           !.menus = menu, !.active = active, !.sramPack = active,
           !.base = [d \in Packs |-> EX!First(named[d][1])],
           !.from = [d \in Sources |-> [k \in Places |->
                       IF d = Live \/ states(d, k) = {} THEN None
                       ELSE CHOOSE s \in states(d, k) : TRUE]],
           !.banks = [d \in Sources |-> [i \in 1 .. MaxMenu |->
                       IF d # Live THEN block(d, i)
                       ELSE IF i \in DOMAIN menu[active]
                       THEN Played(packs[named[active]], menu[active])[i] ELSE None]],
           !.gid = (a :> a) @@ (b :> b), !.native = (a :> ta) @@ (b :> tb)]

Root == <<"jp", "_root">>
\* A folder in the second lineup; it is open.
InUs == Published(FolderOfUs, EX!Publish(<<>>, FolderOfUs), (p :> Root) @@ (q :> <<"us", F>>), q)
\* The folder is dissolved and the library published again: its old pack stays, and
\* in the live directory a state from before the first game moved down.
Moved == [Published(NoFolder, EX!Publish(EX!Publish(<<>>, FolderOfJp), NoFolder),
                    (p :> Root) @@ (q :> <<"jp", F>>), p)
          EXCEPT !.from[Live][<<1, 0>>] = State(a, ta, 1), !.clock = 3]
Exported == {InUs, Moved}
\* publish refuses these, and nothing replaces the packs of before.
Publishable == {l \in {FolderOfUs, FolderOfJp, NoFolder, Colliding, Nested} : ~EX!Refused(l)}
ASSUME PublishableAssumption == Publishable = {FolderOfUs, FolderOfJp, NoFolder}

\* Published before identities existed; the game has since got an alternate ROM.
TaggedWith(state, id, tag) ==
    [Base EXCEPT !.lib = (a :> Game(ta, {tx}, "one")) @@ (b :> Game(tb, {}, "one")),
                 !.menus[p] = <<Entry(a, None, ta, {ta, tx})>>, !.active = p,
                 !.from[p][<<1, 0>>] = State(a, tx, 1), !.data[<<a, 0>>] = state,
                 !.gid[a] = id, !.native[a] = tag]
Tagged == TaggedWith(State(a, ta, 1), None, None)

\* The SRAM of two games, one without progress, over files of the old layout.
Banks ==
    [Base EXCEPT !.menus[p] = <<Entry(a, a, ta, {ta}), Entry(b, b, tb, {tb})>>,
                 !.banks[p] = <<State(a, ta, 2), State(b, tb, 0)>>,
                 !.sram = (a :> State(a, tx, 1)) @@ (b :> None),
                 !.gid = (a :> a) @@ (b :> b), !.native = (a :> ta) @@ (b :> tb)]

\* A folder swap was cut short: the live SRAM is still that of the other menu.
Unswapped ==
    [Banks EXCEPT !.active = p, !.sramPack = q,
                  !.banks[Live] = <<State(b, tb, 2), State(a, ta, 2)>>]

\* Two games know one tag: nothing may be imported for it.
Shared ==
    [Base EXCEPT !.lib = (a :> Game(ta, {tx}, "one")) @@ (b :> Game(tb, {tx}, "two")), !.base[q] = 0,
                 !.menus = (p :> <<Entry(a, None, tx, {tx})>>) @@ (q :> <<Entry(b, None, tx, {tx})>>),
                 !.from[p][<<1, 0>>] = State(a, tx, 1), !.banks[q][1] = State(b, tb, 1)]

\* A state of the game itself that still has the tag from before its identity.
Retagged ==
    [Base EXCEPT !.data[<<a, 0>>] = State(a, ta, 1), !.gid = (a :> a) @@ (b :> b),
                 !.native = (a :> tx) @@ (b :> tb)]

\* A state in the directory that has none of the game's tags.
Stranger == TaggedWith(State(a, tb, 1), a, ta)

MCWorlds == Exported \cup {Tagged, Banks, Unswapped, Shared, Retagged, Stranger}
=============================================================================
