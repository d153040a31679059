---------------------------- MODULE PerGameSaves ----------------------------
(***************************************************************************)
(* What the per-game save layer promises, without any of its files: every  *)
(* game has one battery-save value of its own, at most one game holds the  *)
(* console's single native save bank, only that game's value can change,   *)
(* and it only moves forward.  Handing the bank to another game, crashing, *)
(* restarting, failing half way or moving a game folder changes no value.  *)
(*                                                                         *)
(* SaveOwner (console-mod/hook-src/save_owner.h) is shown to implement it. *)
(***************************************************************************)
EXTENDS Naturals

CONSTANTS
  Games,       \* stable game identities (chronos_game_id)
  NoGame       \* "no game holds the bank"

VARIABLES
  value,       \* value[g]: the version of g's save a next activation of g sees
  holder       \* the game the native bank is attributed to, or NoGame

vars == <<value, holder>>

Init ==
  /\ value = [g \in Games |-> 0]
  /\ holder = NoGame

\* The game that holds the bank saves a newer version.
Save(g) ==
  /\ holder = g
  /\ value' = [value EXCEPT ![g] = @ + 1]
  /\ UNCHANGED holder

\* The bank changes hands, or is released; nobody's save changes.
Handover ==
  /\ holder' \in Games \cup {NoGame}
  /\ UNCHANGED value

Next == Handover \/ \E g \in Games : Save(g)

Spec == Init /\ [][Next]_vars
=============================================================================
