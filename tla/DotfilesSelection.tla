-------------------------- MODULE DotfilesSelection --------------------------
(***************************************************************************)
(* What `dotfiles apply' promises: the pair <<current, previous>> changes  *)
(* in one step, to a generation that was not selected before, and the      *)
(* generation it replaces becomes previous unless it no longer validates.  *)
(***************************************************************************)
CONSTANTS Dotfiles, None

VARIABLE selected

Init == selected \in (Dotfiles \cup {None}) \X (Dotfiles \cup {None})

Select(g) ==
    /\ g \notin {selected[1], selected[2]}
    /\ selected' \in {<<g, selected[1]>>, <<g, selected[2]>>}

Next == \E g \in Dotfiles : Select(g)

Spec == Init /\ [][Next]_selected
=============================================================================
