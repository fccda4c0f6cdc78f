------------------------------- MODULE MCDelete -------------------------------
(***************************************************************************)
(* Trees for Delete: the root t of a location, with a directory a, in      *)
(* which are f and g, and with b, which is anything; and a directory x     *)
(* beside t, with y.  Links lead to x, one of them perhaps to a, which it  *)
(* is beside.                                                              *)
(***************************************************************************)
EXTENDS Delete

CONSTANTS base, t, a, b, f, g, x, y

Parents ==
    [n \in {t, a, b, f, g, x, y} |->
        CASE n \in {t, x} -> base
          [] n \in {a, b} -> t
          [] n \in {f, g} -> a
          [] OTHER -> x]
Depths ==
    [n \in {base, t, a, b, f, g, x, y} |->
        CASE n = base -> 0 [] n \in {t, x} -> 1 [] n \in {a, b, y} -> 2 [] OTHER -> 3]

Full == [checked |-> TRUE, roth |-> TRUE, list |-> TRUE, alter |-> TRUE]
Poor ==
    {Full, [Full EXCEPT !.checked = FALSE], [Full EXCEPT !.checked = FALSE, !.roth = FALSE],
     [Full EXCEPT !.list = FALSE], [Full EXCEPT !.alter = FALSE]}

Kinds ==
    {[n \in Nodes |-> CASE n = b -> k [] n = g -> m [] n \in {f, y} -> "file" [] OTHER -> "dir"] :
        k \in {"dir", "file", "link"}, m \in {"file", "other", "link"}}

SomeTrees ==
    {[kind   |-> k,
      target |-> [n \in Nodes |-> IF n = b THEN l ELSE x],
      rights |-> [d \in Dirs |-> CASE d = base -> rb [] d = t -> rt [] d = a -> ra
                                   [] d = x -> rx [] OTHER -> Full]] :
        k \in Kinds, l \in {a, x}, rb \in {Full, [Full EXCEPT !.alter = FALSE]}, rt \in Poor, ra \in Poor,
        rx \in {Full, [Full EXCEPT !.checked = FALSE]}}
===============================================================================
