------------------------------- MODULE Requests -------------------------------
(***************************************************************************)
(* The head of one request: class request of req_res_post/request.cpp.     *)
(* Its bytes arrive in pieces as recv happens to cut them, and each piece  *)
(* is one call of parse_request.  The loop of the call is a step per line; *)
(* pc is "recv" when the call has returned to the driver.                  *)
(*                                                                         *)
(* A word is one character: "m" a method, "p" a character of a path, "z"   *)
(* one that no path may have, "v" the version HTTP/1.1, "k" and "l" names  *)
(* of headers; anything else is a word without a meaning.                  *)
(***************************************************************************)
EXTENDS Text, FiniteSets, SequencesExt

CONSTANTS
    Streams,    \* the texts peers send: a head, and what follows it
    RecvMax,    \* 1024: how much one recv returns
    UrlMax      \* 2048: URL_MAX

SP == "SP"
Blank == CRLF \o CRLF           \* BODY_SEPARATOR
Colon == <<":", SP>>            \* HEDER_SEPARATOR
Version == <<"v">>              \* HTTP_VERSION
NotInPaths == {"z", CR, LF}     \* what URL_CHARACTERS leaves out

ASSUME RequestsAssumption ==
    /\ \A s \in Streams : s \in Seq(STRING)
    /\ RecvMax \in Nat \ {0} /\ UrlMax \in Nat \ {0}

VARIABLES
    stream, pos,                \* what the peer sends, how much was received
    pc, answer,                 \* answer: "none", or the status that was sent
    start_read, index_line, rest,
    method, path, headers,
    body, buffer,               \* body, and what is left of the argument
    given,                      \* history: what the handler was given as the body
    lineCut, blankCut           \* history: pieces that end within a separator

peerVars == <<stream, pos>>
fields == <<method, path, headers>>
vars == <<peerVars, pc, answer, start_read, index_line, rest, fields, body,
          buffer, given, lineCut, blankCut>>
-------------------------------------------------------------------------------
NotSpaces(s) == {i \in DOMAIN s : s[i] # SP}

\* s from its first character that is not a space.
Trimmed(s) == Drop(s, Min(NotSpaces(s)) - 1)

\* s up to its first space, or all of it.
FirstWord(s) ==
    IF Finds(s, <<SP>>) = {} THEN s ELSE Take(s, Min(Finds(s, <<SP>>)) - 1)

CheckPath(p) ==
    CASE Len(p) >= UrlMax -> "414"
      [] Len(p) < UrlMax /\ Range(p) \cap NotInPaths # {} -> "400"
      [] OTHER -> "none"

(***************************************************************************)
(* request_line_parse: what it throws ("none": nothing, "500": substr      *)
(* throws std::out_of_range because only spaces are left), and the method  *)
(* and path it has set by then, for m and p before.                        *)
(***************************************************************************)
RequestLine(l, m, p) ==
    LET noMethod == Finds(l, <<SP>>) = {}
        mt    == FirstWord(l)
        tail  == Drop(l, Len(mt))
        path1 == Trimmed(tail)
        pt    == FirstWord(path1)
        end   == Drop(path1, Len(pt))
        Result(a, m1, p1) == [answer |-> a, method |-> m1, path |-> p1]
    IN  CASE noMethod -> Result("400", m, p)
          [] ~noMethod /\ mt = <<>> -> Result("400", mt, p)
          [] ~noMethod /\ mt # <<>> /\ NotSpaces(tail) = {} -> Result("500", mt, p)
          [] OTHER ->
               CASE end = <<>> -> Result("400", mt, p)
                 [] end # <<>> /\ CheckPath(pt) # "none" -> Result(CheckPath(pt), mt, pt)
                 [] end # <<>> /\ CheckPath(pt) = "none" /\ NotSpaces(end) = {} ->
                      Result("500", mt, pt)
                 [] OTHER ->
                      Result(IF FirstWord(Trimmed(end)) = Version THEN "none" ELSE "505", mt, pt)

\* headers_parse: a later line replaces an earlier one of the same name.
HeaderLine(l, hs) ==
    LET found == Finds(l, Colon)
        key   == Take(l, Min(found) - 1)
        value == Drop(l, Min(found) + 1)
    IN  IF found = {} THEN [answer |-> "400", headers |-> hs]
        ELSE IF key = <<>> \/ value = <<>> THEN [answer |-> "400", headers |-> hs]
        ELSE [answer  |-> "none",
              headers |-> [k \in DOMAIN hs \cup {key} |-> IF k = key THEN value ELSE hs[k]]]
-------------------------------------------------------------------------------
\* Mutant of HeadUpTo: the last line loses its end.
HeadUpToText(piece, at) == Take(piece, at - 1)
HeadUpTo(piece, at) == Take(piece, at + Len(CRLF) - 1)

\* Mutant of BodyAfter: the body begins two bytes late.
BodyAfterLate(piece, at) == Drop(piece, at + Len(Blank) + 1)
BodyAfter(piece, at) == Drop(piece, at + Len(Blank) - 1)

\* A piece that ends between CR and LF, and one that ends in the blank line.
EndsInLine(n) == n > 0 /\ IsAt(stream, CRLF, n)
EndsInBlank(n) == \E i \in Finds(stream, Blank) : n \in i .. i + 2

(***************************************************************************)
(* The driver is called with what recv has returned, or with nothing when  *)
(* the socket can only be written to.  parse_request hands on what follows *)
(* the head, or looks for the end of the head.                             *)
(***************************************************************************)
ParseRequest ==
    /\ pc = "recv" /\ answer = "none"
    /\ \E n \in 0 .. Len(stream) - pos :
          LET piece == SubSeq(stream, pos + 1, pos + n)
              ends  == Finds(piece, Blank)
          IN  /\ n <= RecvMax
              /\ pos' = pos + n
              /\ IF start_read
                 THEN /\ body' = piece /\ given' = given \o piece
                      /\ UNCHANGED <<pc, start_read, buffer, lineCut, blankCut>>
                 ELSE /\ start_read' = (ends # {})
                      /\ body' = IF ends # {} THEN BodyAfter(piece, Min(ends)) ELSE body
                      /\ buffer' = IF ends # {} THEN HeadUpTo(piece, Min(ends)) ELSE piece
                      /\ pc' = "lines"
                      /\ lineCut' = (lineCut \/ (ends = {} /\ EndsInLine(pos + n)))
                      /\ blankCut' = (blankCut \/ (ends = {} /\ EndsInBlank(pos + n)))
                      /\ UNCHANGED given
    /\ UNCHANGED <<stream, answer, index_line, rest, fields>>

\* Mutant of WholeLine: the line begins in this piece.
LineOfPiece(s) == s

\* The line that ends in this piece.
WholeLine(s) == rest \o s

\* The next line of the head is complete.
ParseLine ==
    /\ pc = "lines" /\ Finds(buffer, CRLF) # {}
    /\ LET end_line == Min(Finds(buffer, CRLF))
           line     == WholeLine(Take(buffer, end_line - 1))
           r        == RequestLine(line, method, path)
           hl       == HeaderLine(line, headers)
           refusal  == IF index_line = 0 THEN r.answer ELSE hl.answer
       IN  /\ method' = IF index_line = 0 THEN r.method ELSE method
           /\ path' = IF index_line = 0 THEN r.path ELSE path
           /\ headers' = IF index_line = 0 THEN headers ELSE hl.headers
           /\ IF refusal = "none"
              THEN /\ buffer' = Drop(buffer, end_line + 1)
                   /\ index_line' = index_line + 1
                   /\ rest' = <<>>
                   /\ UNCHANGED <<pc, answer>>
              ELSE answer' = refusal /\ pc' = "recv" /\ UNCHANGED <<buffer, index_line, rest>>
    /\ UNCHANGED <<peerVars, start_read, body, given, lineCut, blankCut>>

\* Mutant of TooLong: only what is new is measured.
TooLongPiece(r) == Len(buffer) > UrlMax
TooLong(r) == Len(r) > UrlMax

\* What is left is the beginning of a line; the driver calls the handler.
LinesDone ==
    /\ pc = "lines" /\ Finds(buffer, CRLF) = {}
    /\ rest' = rest \o buffer
    /\ answer' = IF TooLong(rest') THEN "400" ELSE answer
    /\ given' = IF start_read /\ answer' = "none" THEN given \o body ELSE given
    /\ buffer' = <<>>
    /\ pc' = "recv"
    /\ UNCHANGED <<peerVars, start_read, index_line, fields, body, lineCut, blankCut>>

Init ==
    /\ stream \in Streams /\ pos = 0
    /\ pc = "recv" /\ answer = "none"
    /\ start_read = FALSE /\ index_line = 0 /\ rest = <<>>
    /\ method = <<>> /\ path = <<>> /\ headers = <<>>
    /\ body = <<>> /\ buffer = <<>> /\ given = <<>>
    /\ lineCut = FALSE /\ blankCut = FALSE

Next == ParseRequest \/ ParseLine \/ LinesDone

Spec == Init /\ [][Next]_vars
-------------------------------------------------------------------------------
Texts == Seq(STRING)

TypeOK ==
    /\ stream \in Streams /\ pos \in 0 .. Len(stream)
    /\ pc \in {"recv", "lines"}
    /\ answer \in {"none", "400", "414", "500", "505"}
    /\ {start_read, lineCut, blankCut} \subseteq BOOLEAN
    /\ index_line \in Nat
    /\ {rest, method, path, body, buffer, given} \subseteq Texts
    /\ DOMAIN headers \subseteq Texts /\ \A k \in DOMAIN headers : headers[k] \in Texts

(***************************************************************************)
(* What the peer means: the lines up to the first blank line, the first of *)
(* them a request line, and what follows that a body.                      *)
(***************************************************************************)
HeadLen(s) == Min(Finds(s, Blank)) + 1
Complete(s) == Finds(s, Blank) # {}

\* The lines of the head, by where they end.
Ends(s) == {e \in Finds(s, CRLF) : e <= Min(Finds(s, Blank))}
FirstEnd(s) == Min(Finds(s, CRLF))

LineTo(s, e) ==
    LET before == {i \in Finds(s, CRLF) : i < e}
    IN  SubSeq(s, IF before = {} THEN 1 ELSE Max(before) + 2, e - 1)

FirstLine(s) == RequestLine(LineTo(s, FirstEnd(s)), <<>>, <<>>)
Header(s, e) == HeaderLine(LineTo(s, e), <<>>)

\* The headers of some of the lines: of two with one name the last.
Naming(s, E, k) == {e \in E : k \in DOMAIN Header(s, e).headers}
HeadersOf(s, E) ==
    [k \in UNION {DOMAIN Header(s, e).headers : e \in E} |->
        Header(s, Max(Naming(s, E, k))).headers[k]]

\* What is wrong with the lines, the first thing first.
Fault(s, e) == IF e = FirstEnd(s) THEN FirstLine(s).answer ELSE Header(s, e).answer
FaultOf(s) ==
    LET bad == {e \in Ends(s) : Fault(s, e) # "none"}
    IN  IF bad = {} THEN "none" ELSE Fault(s, Min(bad))

HasLongLine(s) == \E e \in Ends(s) : Len(LineTo(s, e)) > UrlMax

Dispatched == pc = "recv" /\ answer = "none" /\ start_read

\* The driver has a handler for these; any other method gets 501.
Methods == {<<"m">>}

(***************************************************************************)
(* Wherever recv cuts the bytes, unless it cuts between CR and LF or       *)
(* within the blank line: a request is dispatched with the method, path,   *)
(* headers and body its sender means, and refused for what is wrong with   *)
(* its first bad line or for a line that is too long.                      *)
(***************************************************************************)
Cut == lineCut \/ blankCut

MeaningKept ==
    Complete(stream) /\ ~Cut =>
        /\ Dispatched =>
             /\ FaultOf(stream) = "none"
             /\ method = FirstLine(stream).method /\ path = FirstLine(stream).path
             /\ headers = HeadersOf(stream, Ends(stream) \ {FirstEnd(stream)})
             /\ given = SubSeq(stream, HeadLen(stream) + 3, pos)
        /\ answer # "none" => answer = FaultOf(stream) \/ (answer = "400" /\ HasLongLine(stream))

(***************************************************************************)
(* Even when a separator was cut, a request that reaches a handler has the *)
(* method and path of its own first line: a line put together from two is  *)
(* refused, has a method that no handler is for, or swallows only a header.*)
(***************************************************************************)
RequestLineKept ==
    Dispatched /\ method \in Methods =>
        LET r == FirstLine(stream)
        IN  r.answer = "none" /\ method = r.method /\ path = r.path

(***************************************************************************)
(* The end of the head does not pass unnoticed: after it the request is    *)
(* refused, or dispatched with all of its lines, unless recv has cut       *)
(* within the blank line.                                                  *)
(***************************************************************************)
EndIsNoticed ==
    pc = "recv" /\ Complete(stream) /\ pos >= HeadLen(stream) + 2 /\ ~blankCut =>
        answer # "none" \/ (Dispatched /\ rest = <<>>)

(***************************************************************************)
(* What the parser keeps of a head that does not end is bounded, though    *)
(* the length is only looked at when a piece has been used up: a beginning *)
(* of a line by URL_MAX, and a header by URL_MAX and one recv more.        *)
(***************************************************************************)
Bounded ==
    /\ pc = "recv" /\ answer = "none" => Len(rest) <= UrlMax
    /\ \A k \in DOMAIN headers : Len(k) + Len(Colon) + Len(headers[k]) <= UrlMax + RecvMax
===============================================================================
