-------------------------------- MODULE MCConfig --------------------------------
(***************************************************************************)
(* Files for Config: one server with one location that have all their      *)
(* directives, in many orders; the same with one directive missing, twice, *)
(* or with words of the language in its value; and files with more         *)
(* locations or servers.                                                   *)
(***************************************************************************)
EXTENDS Config

D(key, value) == Directive(key, <<>>, value)
Inside ==
    <<D(<<"root">>, <<"/", "r">>), D(<<SP, "index", SP>>, <<"f">>),
      D(<<"upload", "_path">>, <<"/", "u">>), D(<<"return">>, <<"/", "m">>),
      D(<<"cgi", "_status">>, <<"off">>), D(<<"auto", "index">>, <<"on">>), D(<<"upload">>, <<"on">>),
      D(<<"allow_methods">>, <<"GET", SP, "DELETE">>),
      Directive(<<"cgi", "_path">>, <<".py">>, <<"/", "p">>),
      Directive(<<"cgi", "_path">>, <<".sh">>, <<"/", "q">>)>>
A == Block(<<"/", "a">>, Inside)
Outside ==
    <<D(<<"server_name">>, <<"n">>), D(<<"listen">>, <<"8080">>),
      D(<<"client_max_body_size">>, <<"7000">>), D(<<"host">>, <<"h">>), A,
      Directive(<<"error_page">>, <<"404">>, <<"/", "e">>),
      Directive(<<"error_page">>, <<"200">>, <<"/", "o">>)>>

Rotated(s, n) == Drop(s, n) \o Take(s, n)
Orders(s) == {Rotated(s, n) : n \in 1 .. Len(s)} \cup {Rotated(Reverse(s), n) : n \in 1 .. Len(s)}
FewOrders(s) == {Reverse(s), Rotated(s, 3)}

\* Words in a value, with what follows.
Dirt == {<<"/">> \o k \o <<"w">> : k \in Range(ServerParams) \cup Range(LocationParams)
                          \cup {Location, <<"error_page">>, <<"allow_methods">>, <<"cgi", "_path">>, <<"GET">>}}
        \cup {<<"/">> \o k \o <<":", "w">> : k \in {<<"root">>, <<"upload">>, <<"host">>}}
Soiled(s) == {[s EXCEPT ![i].value = v] : i \in {i \in DOMAIN s : ~IsBlock(s[i])}, v \in Dirt}
Without(s) == {RemoveAt(s, i) : i \in DOMAIN s}
Twice(s) == {Append(s, [s[i] EXCEPT !.value = <<"/", "w">>]) : i \in {i \in DOMAIN s : ~IsBlock(s[i])}}

\* The word of a parameter that is missing.
NoReturn == RemoveAt(Inside, 4)
ReturnIn == {[NoReturn EXCEPT ![i].value = <<"/", "return", "w">>] : i \in DOMAIN NoReturn}
Changed(s) == UNION {FewOrders(t) : t \in Soiled(s) \cup Without(s) \cup Twice(s)}

With(inside) == [Outside EXCEPT ![5].inside = inside]

Some ==
    {<<s>> : s \in Orders(Outside) \cup Changed(Outside)}
    \cup {<<With(b)>> : b \in Orders(Inside) \cup Changed(Inside) \cup ReturnIn}
    \cup {<<Append(Outside, Block(n, Inside)), Outside>> :
            n \in {<<"/">>, <<"/", "b">>, <<"/", "location">>, <<"/", "root", "/", "upload">>}}
    \cup {<<With([Inside EXCEPT ![n].value = v])>> : n \in {9, 10}, v \in {<<>>, <<"/", "p", SP, "q">>}}
    \cup {<<>>}
===============================================================================
