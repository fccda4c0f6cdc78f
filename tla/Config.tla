--------------------------------- MODULE Config ---------------------------------
(***************************************************************************)
(* How a configuration file is read: manyServer, one_server, Location and  *)
(* initialisation_param of config_file/configFile.cpp.  A parameter is the *)
(* first place where its name occurs in what is left of a block, and it is *)
(* cut out together with its value up to the next semicolon; the order in  *)
(* which the parameters are looked for is fixed.  One step reads one of    *)
(* them; an error is the end of the program.                               *)
(*                                                                         *)
(* A text is a sequence of words, blanks and signs; "upload_path" is the   *)
(* word "upload" and a rest, as find sees it.  Directories are there,      *)
(* numbers are numbers.                                                    *)
(***************************************************************************)
EXTENDS Routing, SequencesExt

CONSTANT Files      \* the files considered, see RenderFile

SP == "SP"
NL == "NL"
Location == <<"location">>
Blanks == {SP, "TAB"}
Spaces == Blanks \cup {NL}

VARIABLES
    file,       \* what its author means, and its order
    pc,         \* what is read next; "accepted" or "rejected"
    blocks,     \* the server blocks to be read
    text,       \* what is left of a server block
    block,      \* what is left of a location block
    step,       \* how many parameters were read
    location,   \* the location so far
    server,     \* the server so far
    servers     \* the servers

vars == <<file, pc, blocks, text, block, step, location, server, servers>>
-------------------------------------------------------------------------------
From(s, p, i) == {k \in Finds(s, p) : k >= i}
First(S) == Min(S)

\* cut_and_paste
Cut(s, from, to) == Take(s, from - 1) \o Drop(s, to)

\* s without the blanks at its beginning, or at its end.
SkipBlanks(s) ==
    LET other == {i \in DOMAIN s : s[i] \notin Blanks}
    IN  IF other = {} THEN <<>> ELSE Drop(s, First(other) - 1)
StripBlanks(s) == Reverse(SkipBlanks(Reverse(s)))

\* The text up to the first of some signs.
Until(s, signs) ==
    LET ends == {i \in DOMAIN s : s[i] \in signs}
    IN  IF ends = {} THEN s ELSE Take(s, First(ends) - 1)

Bad == [ok |-> FALSE]

\* What stands after the name and the colon, <<>> for an error.
Value(line, name) ==
    LET tail == SkipBlanks(Drop(line, Len(name)))
    IN  IF tail # <<>> /\ tail[1] = ":" THEN StripBlanks(SkipBlanks(Tail(tail))) ELSE <<>>

\* The line of a name, without its semicolon, and the text without the line.
LineOf(s, name) ==
    LET at  == First(Finds(s, name))
        end == First(From(s, <<";">>, at))
    IN  IF Finds(s, name) = {} THEN Bad
        ELSE IF From(s, <<";">>, at) = {} THEN Bad
        ELSE [ok |-> TRUE, line |-> SubSeq(s, at, end - 1), text |-> Cut(s, at, end)]

\* initialisation_param
Param(s, name) ==
    LET l == LineOf(s, name)
    IN  IF ~l.ok THEN Bad
        ELSE IF Value(l.line, name) = <<>> THEN Bad
        ELSE [ok |-> TRUE, value |-> Value(l.line, name), text |-> l.text]

\* Mutant of CheckEnd: what is left before the brace is not looked at.
CheckBrace(s) == Finds(s, <<"}">>) # {}

\* check_end: nothing is left between the braces and after them.
CheckEnd(s) ==
    LET left == Drop(s, IF Finds(s, <<"{">>) = {} THEN 0 ELSE First(Finds(s, <<"{">>)))
    IN  SelectSeq(left, LAMBDA a : a \notin Spaces) = <<"}">>

\* Mutant of LocationParams: upload is looked for before upload_path.
UploadFirst ==
    <<<<"root">>, <<SP, "index", SP>>, <<"upload">>, <<"upload", "_path">>, <<"return">>,
      <<"cgi", "_status">>, <<"auto", "index">>>>

ServerParams == <<<<"server_name">>, <<"listen">>, <<"client_max_body_size">>, <<"host">>>>
LocationParams ==
    <<<<"root">>, <<SP, "index", SP>>, <<"upload", "_path">>, <<"return">>,
      <<"cgi", "_status">>, <<"auto", "index">>, <<"upload">>>>
Optional == {<<SP, "index", SP>>, <<"upload", "_path">>, <<"return">>}
Methods == {"GET", "POST", "DELETE"}

Extend(f, key, value) == [k \in DOMAIN f \cup {key} |-> IF k = key THEN value ELSE f[k]]

Reject == pc' = "rejected" /\ UNCHANGED <<file, blocks, text, block, step, location, server, servers>>
-------------------------------------------------------------------------------
NewServer == [params |-> <<>>, pages |-> <<>>, locations |-> <<>>]

\* With the program that was read last, a variable of the constructor.
NewLocation(name) ==
    [name |-> name, params |-> <<>>, methods |-> {}, cgi |-> <<>>, s2 |-> <<>>]

\* manyServer: the next block, from "server {" to the next one.
NextBlock ==
    /\ pc = "file"
    /\ IF blocks = <<>> THEN pc' = "accepted" /\ UNCHANGED <<blocks, text, server>>
       ELSE /\ text' = blocks[1] /\ blocks' = Tail(blocks) /\ server' = NewServer
            /\ pc' = "locations"
    /\ UNCHANGED <<file, block, step, location, servers>>

\* one_server: the next "location", wherever it occurs, up to a brace.
StartLocation ==
    /\ pc = "locations"
    /\ LET at == First(Finds(text, Location))
           end == First(From(text, <<"}">>, at))
       IN  IF Finds(text, Location) = {}
           THEN IF server.locations = <<>> THEN Reject
                ELSE /\ pc' = "params" /\ step' = 0
                     /\ UNCHANGED <<file, blocks, text, block, location, server, servers>>
           ELSE IF From(text, <<"}">>, at) = {} THEN Reject
           ELSE /\ block' = SubSeq(text, at, end) /\ text' = Cut(text, at, end)
                /\ pc' = "name"
                /\ UNCHANGED <<file, blocks, step, location, server, servers>>

\* Location: the name, from the first slash.
ReadName ==
    /\ pc = "name"
    /\ LET slashes == From(block, Slash, 3)
           begn == IF slashes = {} THEN Len(block) + 1 ELSE First(slashes)
           name == Until(Drop(block, begn - 1), Blanks \cup {"{"})
       IN  /\ location' = NewLocation(name)
           /\ block' = Cut(block, begn, begn + Len(name) - 1)
    /\ pc' = "location" /\ step' = 0
    /\ UNCHANGED <<file, blocks, text, server, servers>>

\* The next parameter of a location; some may be missing.
LocationParam ==
    /\ pc = "location" /\ step < Len(LocationParams)
    /\ LET name == LocationParams[step + 1]
       IN \E p \in {Param(block, name)} :
           IF name \in Optional /\ Finds(block, name) = {}
           THEN step' = step + 1 /\ UNCHANGED <<file, pc, blocks, text, block, location, server, servers>>
           ELSE IF ~p.ok THEN Reject
           ELSE /\ location' = [location EXCEPT !.params = Extend(@, name, p.value)]
                /\ block' = p.text /\ step' = step + 1
                /\ UNCHANGED <<file, pc, blocks, text, server, servers>>

\* allow_methods: the methods that occur in its line.
AllowMethods ==
    /\ pc = "location" /\ step = Len(LocationParams)
    /\ LET l == LineOf(block, <<"allow_methods">>)
       IN  IF ~l.ok THEN Reject
           ELSE /\ location' = [location EXCEPT !.methods = Methods \cap Range(l.line)]
                /\ block' = l.text /\ pc' = "cgi"
                /\ UNCHANGED <<file, blocks, text, step, server, servers>>

(***************************************************************************)
(* A cgi_path: an extension and a program; without one, the program before *)
(* it.  The line keeps its semicolon, which does not end an extension; a   *)
(* line without a colon is read from its beginning.                        *)
(***************************************************************************)
CgiPath ==
    /\ pc = "cgi" /\ Finds(block, <<"cgi", "_path">>) # {}
    /\ LET l == LineOf(block, <<"cgi", "_path">>)
           line == l.line \o <<";">>
           extension == Until(SkipBlanks(Drop(line, 2)), Blanks \cup {":"})
           colon == Finds(line, <<":">>)
           read == Until(SkipBlanks(Drop(line, IF colon = {} THEN 0 ELSE First(colon))),
                         Blanks \cup {";"})
           program == IF read = <<>> THEN location.s2 ELSE read
       IN  IF ~l.ok THEN Reject
           ELSE IF extension = <<>> THEN Reject
           ELSE /\ location' = [location EXCEPT !.cgi = Extend(@, extension, program), !.s2 = program]
                /\ block' = l.text
                /\ UNCHANGED <<file, pc, blocks, text, step, server, servers>>

EndLocation ==
    /\ pc = "cgi" /\ Finds(block, <<"cgi", "_path">>) = {}
    /\ IF ~CheckEnd(block) THEN Reject
       ELSE /\ server' = [server EXCEPT !.locations =
                              Append(@, [k \in DOMAIN location \ {"s2"} |-> location[k]])]
            /\ pc' = "locations"
            /\ UNCHANGED <<file, blocks, text, block, step, location, servers>>

\* The next parameter of a server.
ServerParam ==
    /\ pc = "params" /\ step < Len(ServerParams)
    /\ \E p \in {Param(text, ServerParams[step + 1])} :
           IF ~p.ok THEN Reject
           ELSE /\ server' = [server EXCEPT !.params = Extend(@, ServerParams[step + 1], p.value)]
                /\ text' = p.text /\ step' = step + 1
                /\ UNCHANGED <<file, pc, blocks, block, location, servers>>

(***************************************************************************)
(* An error_page: a status and a file, with the blanks after it.  The      *)
(* length is computed with an index into another string, which may read    *)
(* beyond the line; then its last character may be missing.                *)
(***************************************************************************)
ErrorPage ==
    /\ pc = "params" /\ step = Len(ServerParams) /\ Finds(text, <<"error_page">>) # {}
    /\ LET l == LineOf(text, <<"error_page">>)
           tail == SkipBlanks(Drop(l.line, 1))
           colon == SkipBlanks(Tail(tail))
           page == SkipBlanks(Tail(colon))
       IN  IF ~l.ok THEN Reject
           ELSE IF tail = <<>> THEN Reject
           ELSE IF colon = <<>> THEN Reject
           ELSE IF colon[1] # ":" THEN Reject
           ELSE /\ \E n \in {Len(page), Len(page) - 1} \cap Nat :
                     server' = [server EXCEPT !.pages = Extend(@, tail[1], Take(page, n))]
                /\ text' = l.text
                /\ UNCHANGED <<file, pc, blocks, block, step, location, servers>>

\* std::sort: the order of names of equal length is left open.
SortedOrders(locs) ==
    {s \in {[i \in DOMAIN locs |-> locs[p[i]]] : p \in Injection(DOMAIN locs, DOMAIN locs)} : Sorted(s)}

EndServer ==
    /\ pc = "params" /\ step = Len(ServerParams) /\ Finds(text, <<"error_page">>) = {}
    /\ IF ~CheckEnd(text) THEN Reject
       ELSE /\ \E locs \in SortedOrders(server.locations) :
                 servers' = Append(servers, [server EXCEPT !.locations = locs])
            /\ pc' = "file"
            /\ UNCHANGED <<file, blocks, text, block, step, location, server>>
-------------------------------------------------------------------------------
(***************************************************************************)
(* What an author means.  A directive has a key, an argument that may be   *)
(* empty, and a value; a location has a name and directives; a server has  *)
(* directives and locations in any order; a file has servers.              *)
(***************************************************************************)
Directive(key, arg, value) == [key |-> key, arg |-> arg, value |-> value]
Block(name, inside) == [name |-> name, inside |-> inside]
IsBlock(item) == "inside" \in DOMAIN item

Render(d) ==
    <<NL, SP>> \o SelectSeq(d.key, LAMBDA a : a # SP) \o <<SP>> \o d.arg
    \o <<SP, ":", SP>> \o d.value \o <<";">>
RenderItem(item) ==
    IF IsBlock(item)
    THEN <<NL>> \o Location \o <<SP>> \o item.name \o <<"{">>
         \o FoldLeft(LAMBDA t, d : t \o Render(d), <<>>, item.inside) \o <<NL, "}">>
    ELSE Render(item)
RenderServer(items) ==
    <<"server", SP, "{">> \o FoldLeft(LAMBDA t, i : t \o RenderItem(i), <<>>, items) \o <<NL, "}", NL>>
RenderFile(f) == FoldLeft(LAMBDA t, s : t \o RenderServer(s), <<>>, f)

\* The blocks of a text: each begins with "server {".
BlocksOf(t) ==
    LET at == SetToSortSeq(Finds(t, <<"server", SP, "{">>), <)
    IN  [i \in DOMAIN at |-> SubSeq(t, at[i], IF i = Len(at) THEN Len(t) ELSE at[i + 1] - 1)]

Init ==
    /\ file \in Files
    /\ blocks = BlocksOf(RenderFile(file))
    /\ pc = IF blocks = <<>> THEN "rejected" ELSE "file"
    /\ text = <<>> /\ block = <<>> /\ step = 0
    /\ location = NewLocation(<<>>)
    /\ server = NewServer /\ servers = <<>>

Next ==
    \/ NextBlock \/ StartLocation \/ ReadName \/ LocationParam \/ AllowMethods \/ CgiPath
    \/ EndLocation \/ ServerParam \/ ErrorPage \/ EndServer

Spec == Init /\ [][Next]_vars
-------------------------------------------------------------------------------
\* The values some directives give, by key or by argument; the last one counts.
ByKey(ds, keys) ==
    [k \in {ds[i].key : i \in DOMAIN ds} \cap keys |->
        ds[Max({i \in DOMAIN ds : ds[i].key = k})].value]
ByArg(ds, key) ==
    [a \in {ds[i].arg : i \in {i \in DOMAIN ds : ds[i].key = key}} |->
        ds[Max({i \in DOMAIN ds : ds[i].key = key /\ ds[i].arg = a})].value]

LocationMeant(b) ==
    [name    |-> b.name,
     params  |-> ByKey(b.inside, Range(LocationParams)),
     methods |-> Methods \cap UNION {Range(b.inside[i].value) :
                    i \in {i \in DOMAIN b.inside : b.inside[i].key = <<"allow_methods">>}},
     cgi     |-> ByArg(b.inside, <<"cgi", "_path">>)]

DirectivesOf(items) == SelectSeq(items, LAMBDA i : ~IsBlock(i))
BlocksIn(items) == SelectSeq(items, IsBlock)

IsMeant(s, items) ==
    LET ds == DirectivesOf(items)
        bs == BlocksIn(items)
        pages == ByArg(ds, <<"error_page">>)
    IN  /\ s.params = ByKey(ds, Range(ServerParams))
        /\ DOMAIN s.pages = {a[1] : a \in DOMAIN pages}
        /\ \A a \in DOMAIN pages : s.pages[a[1]] \in {pages[a], Front(pages[a])}
        /\ Sorted(s.locations) /\ Len(s.locations) = Len(bs)
        /\ Range(s.locations) = {LocationMeant(bs[i]) : i \in DOMAIN bs}

ValuesOf(f) ==
    UNION {UNION {IF IsBlock(i) THEN {d.value : d \in Range(i.inside)} ELSE {i.value} : i \in Range(s)} :
        s \in Range(f)}

ProgramsOf(f) ==
    {d.value : d \in {d \in UNION {Range(b.inside) : b \in UNION {Range(BlocksIn(s)) : s \in Range(f)}} :
                        d.key = <<"cgi", "_path">>}}

(***************************************************************************)
(* Though names are looked for anywhere, values included, a file is never  *)
(* accepted with another meaning than its author's, in whatever order the  *)
(* directives stand: unless a value has a colon or one of the words        *)
(* "location" and "allow_methods", after which no colon is asked for, or a *)
(* program is empty or has a blank, a parameter found in the wrong place   *)
(* ends the reading.                                                       *)
(***************************************************************************)
AcceptedAsMeant ==
    /\ pc = "accepted"
    /\ \A v \in ValuesOf(file) : Range(v) \cap {":", "location", "allow_methods"} = {}
    /\ \A v \in ProgramsOf(file) : v # <<>> /\ SP \notin Range(v)
    =>
        /\ Len(servers) = Len(file)
        /\ \A i \in DOMAIN file : IsMeant(servers[i], file[i])

Words ==
    (UNION {Range(p) : p \in Range(ServerParams) \cup Range(LocationParams)} \ {SP})
    \cup {"location", "error_page", "allow_methods", "cgi", ":"}

Once(ds, key) == Cardinality({i \in DOMAIN ds : ds[i].key = key}) = 1
AtMostOnce(ds, key) == Cardinality({i \in DOMAIN ds : ds[i].key = key}) <= 1

Complete(items) ==
    /\ BlocksIn(items) # <<>>
    /\ \A k \in Range(ServerParams) : Once(DirectivesOf(items), k)
    /\ \A b \in Range(BlocksIn(items)) :
          /\ \A k \in (Range(LocationParams) \ Optional) \cup {<<"allow_methods">>} : Once(b.inside, k)
          /\ \A k \in Optional : AtMostOnce(b.inside, k)

(***************************************************************************)
(* A file with a server, whose servers and locations have every parameter  *)
(* they need, none of them twice, and no value with a word of the language *)
(* in it, is accepted, in whatever order the directives stand.             *)
(***************************************************************************)
NoneRefused ==
    pc = "rejected" /\ file # <<>> =>
        \/ \E i \in DOMAIN file : ~Complete(file[i])
        \/ \E v \in ValuesOf(file) : Range(v) \cap Words # {}
===============================================================================
