-------------------------------- MODULE MCPost --------------------------------
(***************************************************************************)
(* Small instances of Post for TLC: bodies with every shape of end that    *)
(* resembles a boundary line, with one and two parts, and chunks that end  *)
(* anywhere.                                                               *)
(***************************************************************************)
EXTENDS Post

\* What is sent for a text, in chunks given by their size lines and data, or as it is.
Chunk(size, text) == size \o CRLF \o text \o CRLF
Wire(cs) == FlattenSeq([i \in DOMAIN cs |-> Chunk(cs[i].line, cs[i].text)])
Text(cs) == FlattenSeq([i \in DOMAIN cs |-> cs[i].text])

Request(ctype, encoding, length, parts, text, wire, cs) ==
    [policy |-> "upload", cgi_status |-> FALSE, target |-> "absent", dir |-> TRUE,
     ctype |-> ctype, length |-> length, encoding |-> encoding,
     parts |-> parts, body |-> text, stream |-> wire,
     starts |-> IF ctype # "multipart" THEN <<>>
                ELSE SetToSortSeq(Finds(text, StartLine) \cup Finds(text, LastLine), <),
     chunks |-> [i \in DOMAIN cs |->
         [at |-> Len(Wire(Take(cs, i - 1))), digits |-> Len(cs[i].line),
          from |-> Len(Text(Take(cs, i - 1))), size |-> Len(cs[i].text)]]]

AsItIs(ctype, length, parts, text) ==
    Request(ctype, "none", length, parts, text, text, <<>>)
InChunks(ctype, parts, cs) ==
    Request(ctype, "chunked", NoLength, parts, Text(cs), Wire(cs), cs)

Script(u) == [u EXCEPT !.cgi_status = TRUE, !.target = "file"]

Data == {<<>>, <<"d">>, <<"d", "d">>, <<CR>>, <<"-", "-">>, CRLF, CRLF \o <<"-">>,
         <<"d", CR>>, CRLF \o <<"-", "-">>, <<"-", "-", "b", "d">>}

\* A multipart body: each part has a header line, an empty line and its data.
WithHeaders(lines, parts) ==
    FlattenSeq([i \in DOMAIN parts |->
                    StartLine \o <<lines[i]>> \o CRLF \o CRLF \o parts[i] \o CRLF])
    \o LastLine

Multipart(parts) == WithHeaders([i \in DOMAIN parts |-> "t"], parts)

\* A text in chunks of n bytes; the last chunk may be shorter.
Size == << <<"1">>, <<"1", "0">>, <<"1", "1">>, <<"1", "0", "0">>, <<"1", "0", "1">> >>
LastChunk == [line |-> <<"0">>, text |-> <<>>]

Chunks(text, n) ==
    LET Piece(i) == SubSeq(text, (i - 1) * n + 1, Min({i * n, Len(text)}))
    IN  Append([i \in 1 .. (Len(text) + n - 1) \div n |->
                   [line |-> Size[Len(Piece(i))], text |-> Piece(i)]], LastChunk)

\* A chunk of one byte and another one with the size line n.
TwoChunks(text, n) ==
    <<[line |-> <<"1">>, text |-> Take(text, 1)], [line |-> n, text |-> Drop(text, 1)], LastChunk>>

Raw == {AsItIs("plain", {Len(d)}, <<d>>, d) : d \in Data}
\* Content-Length: too small or 0, too large, negative, and more than an int holds.
WrongLength ==
    {AsItIs("plain", {n}, <<d>>, d) :
        d \in {<<"d", "d">>, <<"-", "-", "b", "d", "d">>},
        n \in {0, 1, 3, -1, 5, -IntMax - 2, IntMax + 1}}
Chunked ==
    {InChunks("plain", <<d>>, Chunks(d, 1)) : d \in Data}
    \cup {InChunks("plain", <<d>>, TwoChunks(d, n)) :
            d \in {<<"d", CR, LF>>, <<"0", "0", "0">>}, n \in {<<"1", "0">>, <<"0", "1", "0">>}}
OnePart == {AsItIs("multipart", NoLength, <<d>>, Multipart(<<d>>)) : d \in Data}
TwoParts ==
    {AsItIs("multipart", NoLength, p, Multipart(p)) :
        p \in {<<x, y>> : x, y \in {<<"d">>, CRLF, <<"-", "-">>}}}
TypeMissing ==
    {AsItIs("multipart", NoLength, p, WithHeaders(l, p)) :
        p \in {<<<<"d">>, <<"d">>>>}, l \in {<<"t", "x">>, <<"x", "t">>, <<"d", "t">>}}
ChunkedPart ==
    {InChunks("multipart", <<d>>, Chunks(Multipart(<<d>>), n)) : d \in {<<"d">>}, n \in 1 .. 5}

Uploaded == Raw \cup Chunked \cup OnePart \cup TwoParts
FewOnePart == {u \in OnePart : u.parts[1] \in {<<"d">>, CRLF, <<"-", "-">>}}
Scripts == {Script(u) : u \in Chunked \cup FewOnePart \cup Raw \cup WrongLength}
Refused ==
    {[u EXCEPT !.policy = p, !.target = t, !.cgi_status = TRUE] :
        u \in {AsItIs("plain", {1}, <<<<"d">>>>, <<"d">>)},
        p \in {"none", "refused", "no upload", "no path", "upload"}, t \in {"file", "directory", "absent"}}
    \cup {u \in {[Request(t, e, n, <<<<"d">>>>, <<"d">>, <<"d">>, <<>>) EXCEPT !.cgi_status = g] :
                     t \in {"none", "plain", "unknown", "multipart"}, e \in {"none", "other", "chunked"},
                     n \in {NoLength, {1}}, g \in BOOLEAN} :
              Refusal(u) # "more"}
NoDirectory == {[u EXCEPT !.dir = FALSE] : u \in FewOnePart \cup Raw}

TooLongLines ==
    {InChunks("plain", <<d>>, TwoChunks(d, <<"0", "0", "0", "1", "0">>)) :
        d \in {<<"d", CR, LF>>}}

Everything ==
    Uploaded \cup WrongLength \cup ChunkedPart \cup TypeMissing \cup NoDirectory \cup Scripts \cup Refused
===============================================================================
