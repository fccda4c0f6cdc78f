------------------------------ MODULE MCRequests ------------------------------
(***************************************************************************)
(* Texts for Requests: every request line and header line that goes wrong  *)
(* in its own way, with and without a body that looks like a head, and     *)
(* heads that never end.                                                   *)
(***************************************************************************)
EXTENDS Requests

Line(s) == s \o CRLF
Good == <<"m", SP, "p", SP, "v">>
RequestLines ==
    {Good, <<"m", "m", SP, "p", SP, "v">>, <<"m">>, <<SP, "p", SP, "v">>, <<"m", SP, SP>>, <<"m", SP, "p">>,
     <<"m", SP, "p", SP>>, <<"m", SP, "z", SP, "v">>, <<"m", SP, SP, "p", SP, SP, "v">>,
     <<"m", SP, "p", SP, "v", SP>>, <<"m", SP, "p", SP, "w">>, <<>>,
     <<"m", SP, "p", "p", "p", "p", "p", "p", "p", SP, "v">>}
HeaderLines ==
    {<<"k", ":", SP, "w">>, <<"k", ":", "w">>, <<":", SP, "w">>, <<"k", ":", SP>>, <<"k">>,
     <<"k", ":", SP, "w", "w", "w", "w", "w">>}

Bodies == {<<>>, <<"d">>, <<"d", CR, LF, CR, LF, "d">>}

Heads ==
    {Line(r) : r \in RequestLines}
    \cup {Line(Good) \o Line(h) : h \in HeaderLines}
    \cup {Line(Take(Good, n)) \o Line(Drop(Good, n)) : n \in DOMAIN Good}
    \cup {Line(<<"m">>) \o Line(<<"k", SP, "p", SP, "v">>)}
    \cup {Line(r) \o Line(<<"k", ":", SP, "w">>) \o Line(<<n, ":", SP, "x">>) :
            r \in {Good, <<"m", SP, "p", SP, "v", SP>>}, n \in {"k", "l"}}

Requested ==
    {h \o CRLF \o b : h \in Heads, b \in Bodies}
    \cup {h \o <<"w", "w", "w", "w", "w", "w", "w", "w">> : h \in {<<>>, Line(Good)}}
===============================================================================
