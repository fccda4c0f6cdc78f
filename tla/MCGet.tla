--------------------------------- MODULE MCGet ---------------------------------
(***************************************************************************)
(* Scenarios for Get: every path on every server of one or two locations;  *)
(* and on one server three clients that ask for files of different lengths *)
(* or for the list of a directory.                                         *)
(***************************************************************************)
EXTENDS Get, TLC

CONSTANTS c1, c2, c3

Letters(n, len) == [i \in 1 .. len |-> <<n[1], n[Len(n) - 2], n[Len(n)], i>>]
Dir == [kind |-> "dir", body |-> <<>>]
File(n, len) == [kind |-> "file", body |-> Letters(n, len)]

\* The roots R and S hold the same names; f, g and h differ in length.
Names ==
    {<<r>> \o p : r \in {"R", "S"},
        p \in {<<>>, <<"/", "f">>, <<"/", "g">>, <<"/", "h">>, <<"/", "b">>, <<"/", "b", "/", "f">>,
               <<"/", "a">>, <<"/", "a", "/", "f">>}}
Files ==
    [n \in Names |->
        LET last == n[Len(n)]
        IN  CASE last = "f" -> File(n, 4) [] last = "g" -> File(n, 3) [] last = "h" -> File(n, 0)
              [] OTHER -> Dir]

Alphabet ==
    UNION {ToSet(Files[n].body) : n \in Names} \cup UNION {ToSet(ListOf(c)) : c \in Clients}
        \cup ToSet(Pages(MaxPages))

Plainly ==
    [name |-> <<"/", "a">>, root |-> <<"R">>, get |-> TRUE, index |-> <<>>, autoindex |-> TRUE,
     return |-> FALSE, cgi |-> FALSE, runs |-> FALSE]
Menu ==
    {Plainly,
     [Plainly EXCEPT !.return = TRUE],
     [Plainly EXCEPT !.index = <<"f">>],
     [Plainly EXCEPT !.name = <<"/", "a", "/", "b">>, !.root = <<"S">>],
     [Plainly EXCEPT !.name = <<"/", "a", "/", "b">>, !.cgi = TRUE, !.index = <<"f">>],
     [Plainly EXCEPT !.name = <<"/", "b">>, !.root = <<"S">>, !.get = FALSE],
     [Plainly EXCEPT !.name = <<"/", "b">>, !.autoindex = FALSE],
     [Plainly EXCEPT !.name = <<"/", "b">>, !.cgi = TRUE, !.runs = TRUE],
     [Plainly EXCEPT !.name = <<"/">>, !.autoindex = FALSE]}

Tables == {t \in {<<l>> : l \in Menu} \cup {<<l, k>> : l \in Menu, k \in Menu} : Sorted(t)}

Paths ==
    {<<"/", "a">>, <<"/", "a", "/", "f">>, <<"/", "a", "/">>, <<"/", "a", "/", "f", "?", "/", "b">>,
     <<"/", "a", "/", "b">>, <<"/", "a", "/", "b", "/", "f">>, <<"/", "b", "/", "a", "/", "f">>,
     <<"/", "b", "/", "f">>, <<"/", "b">>, <<"/", "a", "f">>, <<"/", "f">>}

Asks(u1, u2, u3) == c1 :> u1 @@ c2 :> u2 @@ c3 :> u3
Lists == <<"/", "a", "/", "b">>

Some ==
    {[locations |-> t, page |-> 0, losses |-> 1, url |-> Asks(p, <<>>, <<>>)] : t \in Tables, p \in Paths}
    \cup {[locations |-> <<Plainly>>, page |-> n, losses |-> 2,
           url |-> Asks(<<"/", "a", "/", k>>, <<"/", "a", "/", j>>, <<>>)] :
             n \in {0, 1}, k \in {"f", "g", "h"}, j \in {"f", "g"}}
    \cup {[locations |-> <<Plainly>>, page |-> n, losses |-> 1, url |-> Asks(Lists, Lists, <<>>)] :
             n \in {0, 1}}
    \cup {[locations |-> <<Plainly>>, page |-> 0, losses |-> 1, url |-> Asks(Lists, Lists, Lists)]}

Same == Permutations({c1, c2, c3})
===============================================================================
