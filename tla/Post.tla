--------------------------------- MODULE Post ---------------------------------
(***************************************************************************)
(* One upload: class post of req_res_post/post.cpp, from the first call of *)
(* post_request to the status it throws.  The body of the request arrives  *)
(* in pieces as recv happens to cut it; each piece is one call.            *)
(*                                                                         *)
(* The bytes are characters of a small alphabet: CR, LF, a dash, digits of *)
(* a size line, "b" the text of the boundary, "t" a header line that tells *)
(* a known type, "x" another header line; anything else is data.  The      *)
(* loops and the recursion of the code are steps of one call; pc says      *)
(* which function is at work, "recv" that the call has returned.           *)
(***************************************************************************)
EXTENDS Text, FiniteSets, SequencesExt

CONSTANTS
    Uploads,        \* the requests considered, see Upload
    Base,           \* 16: the base of a size line
    SizeDigits,     \* 16: the digits of a size_t, and the limit of chunked()
    IntMax,         \* 2^31 - 1: the largest int
    MaxGarbage,     \* bound: what an uninitialised max_size may hold
    MaxIdle,        \* bound: calls that bring nothing
    SplitMarkers    \* whether a piece may end within a boundary line

Dashes == <<"-", "-">>
StartLine == Dashes \o <<"b">> \o CRLF
LastLine == Dashes \o <<"b">> \o Dashes \o CRLF
NoLength == {}
Digit == [c \in {"0", "1"} |-> IF c = "0" THEN 0 ELSE 1]

HexToDec(n) ==
    FoldLeft(LAMBDA r, c : (r * Base + Digit[c]) % Base^SizeDigits, 0, n)

\* atoi of a number: what it gives when the number does not fit an int is undefined.
Atoi(n) == IF n \in -IntMax - 1 .. IntMax THEN {n} ELSE -IntMax - 1 .. IntMax

\* What init throws ("more": nothing), when the location allows the upload.
Refusal(u) ==
    CASE u.ctype = "none" -> "400"
      [] u.ctype # "none" /\ u.encoding # "none" /\ u.length # NoLength -> "400"
      [] u.ctype # "none" /\ u.encoding = "other" /\ u.length = NoLength -> "405"
      [] u.ctype = "multipart" /\ u.encoding = "none" /\ u.length # NoLength -> "400"
      [] u.ctype \in {"plain", "unknown"} /\ u.encoding = "none" /\ u.length = NoLength
           -> "411"
      [] u.ctype = "unknown" /\ <<u.encoding, u.length = NoLength>>
                                  \in {<<"chunked", TRUE>>, <<"none", FALSE>>} -> "415"
      [] OTHER -> "more"
-------------------------------------------------------------------------------
(***************************************************************************)
(* What a request is, as far as post looks at it, and what its sender      *)
(* means: parts, the contents of the files; starts, where the boundary     *)
(* lines are; body, the payload before it is cut in chunks; and chunks,    *)
(* the bytes before each in stream (at) and in body (from).  Of the        *)
(* Content-Length, length has the number that its text begins with, 0      *)
(* where there is none.                                                    *)
(***************************************************************************)
Pieces == [at : Nat, digits : Nat, from : Nat, size : Nat]
Upload == [policy     : {"none", "refused", "no upload", "no path", "upload"},
           cgi_status : BOOLEAN,
           target     : {"file", "directory", "absent"},
           dir        : BOOLEAN,    \* the upload directory can be written
           ctype      : {"none", "plain", "unknown", "multipart"},
           length     : SUBSET Int,
           encoding   : {"none", "chunked", "other"},
           parts      : Seq(Seq(STRING)),
           starts     : Seq(Nat),
           body       : Seq(STRING),
           chunks     : Seq(Pieces),
           stream     : Seq(STRING)]

\* The empty lines after a boundary line at i; the first one ends the head.
BlankLines(b, i) ==
    {e \in Finds(b, CRLF) : e >= i + Len(StartLine) /\ IsAt(b, CRLF, e - 2)}
DataFrom(b, i) == Min(BlankLines(b, i)) + 2

\* The boundary lines are where they are meant, with the parts between them.
PartsMeant(u) ==
    LET at == u.starts
        n  == Len(u.parts)
    IN  /\ n > 0 /\ Len(at) = n + 1 /\ \A i, j \in 1 .. n + 1 : i < j => at[i] < at[j]
        /\ at[1] = 1 /\ at[n + 1] + Len(LastLine) - 1 = Len(u.body)
        /\ Finds(u.body, StartLine) = {at[i] : i \in 1 .. n}
        /\ Finds(u.body, LastLine) = {at[n + 1]}
        /\ \A i \in 1 .. n :
              /\ BlankLines(u.body, at[i]) # {} /\ DataFrom(u.body, at[i]) + 2 <= at[i + 1]
              /\ u.parts[i] = SubSeq(u.body, DataFrom(u.body, at[i]), at[i + 1] - 3)
              /\ IsAt(u.body, CRLF, at[i + 1] - 2)

\* Each chunk has its size line and a CRLF at the end; one of no bytes is the last.
SizeLine(u, c) == SubSeq(u.stream, c.at + 1, c.at + c.digits)
DataAt(c) == c.at + c.digits + 2

ChunksMeant(u) ==
    LET n == Len(u.chunks)
    IN  /\ n > 0 /\ u.chunks[1].at = 0 /\ u.chunks[1].from = 0
        /\ u.chunks[n].from = Len(u.body) /\ DataAt(u.chunks[n]) + 2 = Len(u.stream)
        /\ \A i \in 1 .. n :
              LET c == u.chunks[i]
              IN  /\ c.digits > 0 /\ Range(SizeLine(u, c)) \subseteq DOMAIN Digit
                  /\ HexToDec(SizeLine(u, c)) = c.size /\ (c.size = 0 <=> i = n)
                  /\ IsAt(u.stream, CRLF, c.at + c.digits + 1)
                  /\ IsAt(u.stream, CRLF, DataAt(c) + c.size + 1)
                  /\ c.from + c.size <= Len(u.body)
                  /\ SubSeq(u.stream, DataAt(c) + 1, DataAt(c) + c.size)
                       = SubSeq(u.body, c.from + 1, c.from + c.size)
                  /\ i < n => /\ u.chunks[i + 1].at = DataAt(c) + c.size + 2
                              /\ u.chunks[i + 1].from = c.from + c.size

\* A request that is not refused at once has a body of the form it announces.
WellFormed(u) ==
    /\ \A m, n \in u.length : m = n
    /\ u.encoding = "none" => u.stream = u.body
    /\ Refusal(u) = "more" =>
          /\ u.encoding = "chunked" => ChunksMeant(u)
          /\ IF u.ctype = "multipart" THEN PartsMeant(u) ELSE u.parts = <<u.body>>

ASSUME PostAssumption ==
    /\ Base \in Nat \ {0, 1} /\ SizeDigits \in Nat \ {0}
    /\ IntMax \in Nat /\ Base^SizeDigits \in {n \in Nat : n > IntMax}
    /\ MaxGarbage \in Nat /\ MaxIdle \in Nat
    /\ SplitMarkers \in BOOLEAN
    /\ \A u \in Uploads : u \in Upload /\ WellFormed(u)

VARIABLES
    upload, pos,        \* the request, and how much of its stream was read
    idle,               \* calls so far that brought nothing
    pc, status,         \* status: "more", or what was thrown
    mode, is_cgi,       \* mode is NoMode while first_time is set
    max_size, chunked_size, rest, brest, h,
    typed,              \* whether headers has a known type
    body,               \* the argument of raw or boundarry
    out,                \* the files created, and whether the last is open
    fed, cuts,          \* history: bytes given to boundarry, bad ends of pieces
    repeated            \* history: raw has doubled what it held back

NoMode == -1
callVars == <<upload, pos, idle>>
modeVars == <<mode, is_cgi>>
chunkVars == <<chunked_size, rest>>
partVars == <<brest, h, typed>>
history == <<fed, cuts, repeated>>
vars == <<callVars, pc, status, modeVars, max_size, chunkVars, partVars,
          body, out, history>>
-------------------------------------------------------------------------------
\* Mutant of WithoutEnd: one byte too many.
WithoutThree(s) == IF Len(s) >= 3 THEN Take(s, Len(s) - 3) ELSE s

\* s.substr(0, s.length() - 2); for a shorter s the length wraps: all of s.
WithoutEnd(s) == IF Len(s) >= 2 THEN Take(s, Len(s) - 2) ELSE s

(***************************************************************************)
(* The stream out and the files it was opened on.  A file that cannot be   *)
(* opened is not noticed; what is written then goes nowhere.               *)
(***************************************************************************)
NewFile(o) ==
    [is_open |-> upload.dir, files |-> IF upload.dir THEN Append(o.files, <<>>) ELSE o.files]

Write(o, s) ==
    IF o.is_open THEN [o EXCEPT !.files[Len(o.files)] = @ \o s] ELSE o

Throw(s) == status' = s /\ pc' = "recv"

\* What out holds when 201 is thrown.
ClosedOut(o) == [is_open |-> FALSE, files |-> o.files]
-------------------------------------------------------------------------------
(***************************************************************************)
(* parse_uri: the location must allow POST; a script is run for a regular  *)
(* file where cgi_status is on (also for a path that does not exist: the   *)
(* result of stat is not looked at and its buffer is not initialised);     *)
(* otherwise the location must allow uploads, and have a path for them: a  *)
(* std::string made from a null pointer throws, which the driver answers   *)
(* with 500.                                                               *)
(***************************************************************************)
ParseUri(u) ==
    CASE u.policy = "none"    -> {"404"}
      [] u.policy = "refused" -> {"405"}
      [] OTHER ->
           {"cgi" : x \in {y \in {u} : u.cgi_status /\ u.target # "directory"}}
           \cup {CASE u.policy = "upload"    -> "upload"
                   [] u.policy = "no path"   -> "500"
                   [] u.policy = "no upload" -> "403" :
                    x \in {y \in {u} : ~(u.cgi_status /\ u.target = "file")}}

\* The rest of init.
ModeOf(u, cgi) ==
    IF u.encoding = "chunked"
    THEN IF u.ctype = "multipart" /\ ~cgi THEN 3 ELSE 1
    ELSE IF u.ctype # "multipart" THEN 0 ELSE IF cgi THEN 4 ELSE 2

Function(m) ==
    CASE m \in {1, 3} -> "chunked" [] m = 2 -> "boundarry" [] m \in {0, 4} -> "raw"

\* What max_size, a size_t, may be set to.
MaxSizes(u) == {i % Base^SizeDigits : i \in UNION {Atoi(n) : n \in u.length}}

\* init, in the first call; only mode 0 initialises max_size.
InitPost ==
    /\ pc = "init"
    /\ \E where \in ParseUri(upload) :
          LET cgi == where = "cgi"
              m == ModeOf(upload, cgi)
              refusal == IF where \in {"cgi", "upload"} THEN Refusal(upload) ELSE where
          IN  IF refusal # "more"
              THEN Throw(refusal) /\ UNCHANGED <<modeVars, max_size, rest, body, out>>
              ELSE /\ mode' = m /\ is_cgi' = cgi
                   /\ out' = IF m \in {0, 1, 4} THEN NewFile(out) ELSE out
                   /\ max_size' \in CASE m = 0 -> MaxSizes(upload)
                                     [] m = 1 /\ cgi -> 0 .. MaxGarbage
                                     [] OTHER -> {0}
                   /\ rest' = IF m \in {1, 3} THEN body ELSE rest
                   /\ body' = IF m \in {1, 3} THEN <<>> ELSE body
                   /\ pc' = Function(m)
                   /\ UNCHANGED status
    /\ UNCHANGED <<callVars, chunked_size, partVars, history>>
-------------------------------------------------------------------------------
(***************************************************************************)
(* How many bytes of the payload must not be the end of a piece for        *)
(* boundarry: one byte short of a boundary line, or up to three bytes      *)
(* short of the last one.  Cut one byte short, the last one is not found.  *)
(***************************************************************************)
LostEnds == {i + Len(LastLine) - 2 : i \in Finds(upload.body, LastLine)}
BadEnds ==
    {i + Len(StartLine) - 2 : i \in Finds(upload.body, StartLine) \ {1}}
    \cup UNION {i + Len(LastLine) - 4 .. i + Len(LastLine) - 2 : i \in Finds(upload.body, LastLine)}

\* The next piece of the stream arrives: post_request up to its dispatch.
PostRequest ==
    /\ pc = "recv" /\ status = "more"
    /\ \E n \in 0 .. Len(upload.stream) - pos :
          LET content == SubSeq(upload.stream, pos + 1, pos + n)
          IN  /\ n = 0 => idle < MaxIdle
              /\ ~SplitMarkers /\ upload.encoding = "none" => pos + n \notin BadEnds
              /\ pos' = pos + n
              /\ idle' = IF n = 0 THEN idle + 1 ELSE idle
              /\ body' = IF mode = 2 THEN brest \o content ELSE content
              /\ rest' = IF mode \in {1, 3} THEN rest \o content ELSE rest
              /\ fed' = IF upload.encoding = "none" THEN fed + n ELSE fed
    /\ pc' = IF mode = NoMode THEN "init" ELSE Function(mode)
    /\ UNCHANGED <<upload, status, modeVars, max_size, chunked_size, partVars, out,
                   cuts, repeated>>
-------------------------------------------------------------------------------
\* Where raw and boundarry return to: chunked calls itself while rest is not empty.
Return == IF mode \in {1, 3} /\ rest # <<>> THEN "chunked" ELSE "recv"

\* Mutant of TooLong: a short size line is too long already.
TooLongSoon(r) == Len(r) >= 2

\* Without a CRLF in it, rest is too long for the beginning of a size line.
TooLong(r) == Len(r) >= SizeDigits

\* chunked: no size line yet.
SizeLineMissing ==
    /\ pc = "chunked" /\ chunked_size = 0 /\ Finds(rest, CRLF) = {}
    /\ IF TooLong(rest) THEN Throw("400") ELSE pc' = "recv" /\ UNCHANGED status
    /\ UNCHANGED <<callVars, modeVars, max_size, chunkVars, partVars, body, out, history>>

\* chunked: a size line, or the empty line after the data of a chunk.
SizeLineFound ==
    /\ pc = "chunked" /\ chunked_size = 0 /\ Finds(rest, CRLF) # {}
    /\ LET hex_end == Min(Finds(rest, CRLF)) - 1
           n       == Take(rest, hex_end)
           bad     == ~(Range(n) \subseteq DOMAIN Digit)
       IN  CASE n # <<>> /\ bad ->
                  Throw("400") /\ UNCHANGED <<chunkVars, out>>
             [] n # <<>> /\ ~bad /\ HexToDec(n) = 0 ->
                  Throw("201") /\ out' = ClosedOut(out) /\ UNCHANGED chunkVars
             [] OTHER ->
                  /\ rest' = Drop(rest, hex_end + 2)
                  /\ chunked_size' = IF n = <<>> THEN 0 ELSE HexToDec(n)
                  /\ UNCHANGED <<pc, status, out>>
    /\ UNCHANGED <<callVars, modeVars, max_size, partVars, body, history>>

\* Mutant of PieceLength: the chunk is not looked at.
PieceWhole == Len(rest)

PieceLength == IF chunked_size >= Len(rest) THEN Len(rest) ELSE chunked_size

\* chunked: data, as much as there is and as the chunk has.
ChunkData ==
    /\ pc = "chunked" /\ chunked_size > 0
    /\ LET n     == PieceLength
           piece == Take(rest, n)
       IN  /\ rest' = Drop(rest, n)
           /\ chunked_size' = chunked_size - n
           /\ CASE mode = 1 /\ is_cgi ->
                     pc' = "raw" /\ body' = piece /\ UNCHANGED <<out, fed>>
                [] mode = 3 ->
                     /\ pc' = "boundarry" /\ body' = brest \o piece
                     /\ fed' = fed + n
                     /\ UNCHANGED out
                [] OTHER ->
                     /\ pc' = IF rest' = <<>> THEN "recv" ELSE "chunked"
                     /\ out' = Write(out, piece)
                     /\ UNCHANGED <<body, fed>>
    /\ UNCHANGED <<callVars, status, modeVars, max_size, partVars, cuts, repeated>>
-------------------------------------------------------------------------------
(***************************************************************************)
(* set_headers on b: while h is set, whole lines are taken off b, up to    *)
(* and with the empty line, where the file of the part is created; its     *)
(* type may come from an earlier part, and must be a known one.            *)
(***************************************************************************)
LineOf(b, e) ==
    LET before == {i \in Finds(b, CRLF) : i < e}
    IN  SubSeq(b, IF before = {} THEN 1 ELSE Max(before) + 2, e - 1)

SetHeaders(b) ==
    LET ends  == IF h THEN Finds(b, CRLF) ELSE {}
        blank == {e \in ends : LineOf(b, e) = <<>>}
        done  == IF blank = {} THEN ends ELSE {e \in ends : e <= Min(blank)}
        lines == {LineOf(b, e) : e \in done \ blank}
        known == typed \/ \E l \in lines : "t" \in Range(l)
    IN  [refusal |-> IF \E l \in lines : {"t", "x"} \cap Range(l) = {} THEN "400"
                     ELSE IF blank # {} /\ ~known THEN "415" ELSE "more",
         created |-> blank # {},
         typed   |-> known,
         body    |-> IF done = {} THEN b ELSE Drop(b, Max(done) + 1)]

OutAfter(r) == IF r.created THEN NewFile(out) ELSE out

\* boundarry: the line between two parts is in body; the loop goes on after it.
PartEnds ==
    /\ pc = "boundarry" /\ Finds(body, StartLine) # {}
    /\ LET exist == Min(Finds(body, StartLine)) - 1
           r == SetHeaders(Take(body, exist))
       IN  IF r.refusal # "more"
           THEN Throw(r.refusal) /\ UNCHANGED <<h, typed, body, out>>
           ELSE /\ out' = Write(OutAfter(r), WithoutEnd(r.body))
                /\ body' = Drop(body, exist + Len(StartLine))
                /\ h' = TRUE /\ typed' = r.typed
                /\ UNCHANGED <<pc, status>>
    /\ UNCHANGED <<callVars, modeVars, max_size, chunkVars, brest, history>>

\* boundarry: the line after the last part.
BodyEnds ==
    /\ pc = "boundarry" /\ Finds(body, StartLine) = {} /\ Finds(body, LastLine) # {}
    /\ LET r == SetHeaders(Take(body, Min(Finds(body, LastLine)) - 1))
       IN  IF r.refusal # "more" THEN Throw(r.refusal) /\ UNCHANGED out
           ELSE /\ Throw("201")
                /\ out' = ClosedOut(Write(OutAfter(r), WithoutEnd(r.body)))
    /\ UNCHANGED <<callVars, modeVars, max_size, chunkVars, partVars, body, history>>

\* Mutants of HeldBack: nothing is held back, or one byte less.
HoldNothing(b) == 0
HoldLess(b) == IF Len(b) < Len(StartLine) THEN Len(b) ELSE Len(StartLine) - 1

\* What may be the beginning of a boundary line stays in brest.
HeldBack(b) == IF Len(b) <= Len(StartLine) THEN Len(b) ELSE Len(StartLine)

\* boundarry: no whole boundary line in what is there.
PartGoesOn ==
    /\ pc = "boundarry" /\ Finds(body, StartLine) = {} /\ Finds(body, LastLine) = {}
    /\ LET r == SetHeaders(body)
           inHead == h /\ ~r.created
           keep == IF inHead THEN Len(r.body) ELSE HeldBack(r.body)
       IN  IF r.refusal # "more" THEN Throw(r.refusal) /\ UNCHANGED <<partVars, out>>
           ELSE /\ h' = inHead /\ typed' = r.typed
                /\ brest' = Drop(r.body, Len(r.body) - keep)
                /\ out' = Write(OutAfter(r), Take(r.body, Len(r.body) - keep))
                /\ pc' = Return
                /\ UNCHANGED status
    /\ body' = <<>>
    /\ cuts' = cuts \cup ({fed} \cap BadEnds)
    /\ UNCHANGED <<callVars, modeVars, max_size, chunkVars, fed, repeated>>
-------------------------------------------------------------------------------
\* raw, modes 0 and 1: at most max_size bytes, and 201 after the last of them.
RawCounted ==
    /\ pc = "raw" /\ mode # 4
    /\ LET n == IF max_size < Len(body) THEN max_size ELSE Len(body)
       IN  /\ max_size' = max_size - n
           /\ IF max_size = n
              THEN Throw("201") /\ out' = ClosedOut(Write(out, Take(body, n)))
              ELSE /\ out' = Write(out, Take(body, n))
                   /\ pc' = Return
                   /\ UNCHANGED status
    /\ body' = <<>>
    /\ UNCHANGED <<callVars, modeVars, chunkVars, partVars, history>>

\* Mutant of ScriptTail: one byte of what is held back is lost.
ScriptTailLess(c) == Drop(c, Len(c) - Len(LastLine) + 1)

\* What may be the last boundary line, or its beginning, stays in brest.
ScriptTail(c) == Drop(c, Len(c) - Len(LastLine))

\* raw, mode 4: a multipart body for a script, copied with its boundary lines.
RawMultipart ==
    /\ pc = "raw" /\ mode = 4
    /\ LET content == brest \o body
           more == Len(content) - Len(LastLine)
       IN  CASE Finds(content, LastLine) # {} ->
                  /\ Throw("201") /\ out' = ClosedOut(Write(out, content))
                  /\ UNCHANGED <<brest, repeated>>
             [] Finds(content, LastLine) = {} /\ more > 0 ->
                  /\ out' = Write(out, Take(content, more))
                  /\ brest' = ScriptTail(content)
                  /\ pc' = Return
                  /\ UNCHANGED <<status, repeated>>
             [] OTHER ->
                  /\ brest' = brest \o content
                  /\ repeated' = (repeated \/ brest # <<>>)
                  /\ pc' = Return
                  /\ UNCHANGED <<status, out>>
    /\ body' = <<>>
    /\ UNCHANGED <<callVars, modeVars, max_size, chunkVars, h, typed, fed, cuts>>
-------------------------------------------------------------------------------
Init ==
    /\ upload \in Uploads
    /\ pos = 0 /\ idle = 0
    /\ pc = "recv" /\ status = "more"
    /\ mode = NoMode /\ is_cgi = FALSE
    /\ max_size = 0 /\ chunked_size = 0
    /\ rest = <<>> /\ brest = <<>> /\ body = <<>> /\ h = FALSE
    /\ typed = FALSE
    /\ out = [is_open |-> FALSE, files |-> <<>>]
    /\ fed = 0 /\ cuts = {} /\ repeated = FALSE

Next ==
    \/ PostRequest \/ InitPost
    \/ SizeLineMissing \/ SizeLineFound \/ ChunkData
    \/ PartEnds \/ BodyEnds \/ PartGoesOn
    \/ RawCounted \/ RawMultipart

Spec == Init /\ [][Next]_vars
-------------------------------------------------------------------------------
TypeOK ==
    /\ upload \in Uploads
    /\ pos \in 0 .. Len(upload.stream) /\ idle \in 0 .. MaxIdle
    /\ pc \in {"recv", "init", "chunked", "boundarry", "raw"}
    /\ status \in {"more", "201", "400", "403", "404", "405", "411", "415", "500"}
    /\ mode \in NoMode .. 4 /\ {is_cgi, h, typed, repeated} \subseteq BOOLEAN
    /\ max_size \in Nat /\ chunked_size \in Nat
    /\ {rest, brest, body} \subseteq Seq(STRING)
    /\ out \in [is_open : BOOLEAN, files : Seq(Seq(STRING))]
    /\ fed \in 0 .. Len(upload.body) /\ cuts \subseteq BadEnds

Stored == upload.dir /\ ~is_cgi

\* A Content-Length, where there is one, is the length of the body, and fits an int.
LengthHolds(u) ==
    u.length # NoLength => u.length = {Len(u.body)} /\ Len(u.body) <= IntMax

(***************************************************************************)
(* However recv and the chunks cut the body: an upload that is answered    *)
(* with 201 has stored the contents of its files, byte for byte, unless a  *)
(* piece given to boundarry ended just before the end of a boundary line,  *)
(* or the body had a length that was wrong or does not fit an int.         *)
(***************************************************************************)
FilesExact ==
    Stored /\ status = "201" /\ cuts = {} /\ LengthHolds(upload) => out.files = upload.parts

(***************************************************************************)
(* Even after such a cut nothing of a file is lost, the files are not      *)
(* mixed up, and what is added at the end is the beginning of the boundary *)
(* line.  With a length that does not hold, the file may end too soon, but *)
(* has nothing that was not sent.                                          *)
(***************************************************************************)
Surplus == CRLF \o LastLine

NothingLost ==
    Stored =>
        /\ Len(out.files) <= Len(upload.parts)
        /\ \A i \in DOMAIN out.files :
              /\ IsPrefix(out.files[i], upload.parts[i] \o Surplus)
              /\ i < Len(out.files) \/ (status = "201" /\ LengthHolds(upload))
                    => IsPrefix(upload.parts[i], out.files[i])

(***************************************************************************)
(* An upload that has arrived completely is answered: after its last byte  *)
(* no call waits for more.  Exceptions: the last boundary line was cut one *)
(* byte before its end; the length is wrong or does not fit an int.        *)
(***************************************************************************)
EndsWithLastByte ==
    pos = Len(upload.stream) /\ pos > 0 /\ pc = "recv" /\ status = "more"
    /\ LengthHolds(upload) =>
        cuts \cap LostEnds # {}

(***************************************************************************)
(* A body is refused with 400 only for a size line that fills or exceeds   *)
(* the limit with its CR, or a part with a line that is no header;         *)
(* wherever the pieces end, nothing else is taken for one of these.        *)
(***************************************************************************)
LongSizeLine ==
    \E i, j \in 1 .. Len(upload.stream) :
        /\ j - i >= SizeDigits - 1
        /\ \A k \in i .. j - 1 : upload.stream[k] \in DOMAIN Digit
        /\ IsAt(upload.stream, CRLF, j)

BadHeader ==
    \E i \in Finds(upload.body, StartLine), e \in Finds(upload.body, CRLF) :
        /\ i + Len(StartLine) <= e /\ e < Min(BlankLines(upload.body, i))
        /\ {"t", "x"} \cap Range(LineOf(upload.body, e)) = {}

RefusedForSizeLine ==
    mode # NoMode /\ status = "400" => LongSizeLine \/ BadHeader

(***************************************************************************)
(* The input of a script is the body as it came, a multipart body with its *)
(* boundary lines, unless a call brought so little that raw added what it  *)
(* held back to itself, or raw counted down a max_size that nobody had     *)
(* set, or that was wrong.                                                 *)
(***************************************************************************)
ScriptInput ==
    is_cgi /\ upload.dir /\ status = "201" /\ ~repeated /\ LengthHolds(upload)
    /\ (mode = 1 => max_size > 0) => out.files = <<upload.body>>

(***************************************************************************)
(* post.cpp:148 says of the 400 it throws: hexadecimal number too long.    *)
(***************************************************************************)
TooLongIsRefused ==
    mode \in {1, 3} /\ status = "201" =>
        ~ \E i, j \in 1 .. Len(upload.stream) :
            /\ j - i > SizeDigits
            /\ \A k \in i .. j - 1 : upload.stream[k] \in DOMAIN Digit
            /\ IsAt(upload.stream, CRLF, j)
-------------------------------------------------------------------------------
(***************************************************************************)
(* What an upload promises, see Sink: the files grow towards the contents  *)
(* the sender means, and 201 is the answer when they are there.            *)
(***************************************************************************)
Promise == INSTANCE Sink WITH parts <- upload.parts, files <- out.files

KeepsPromise == Promise!Spec
===============================================================================
