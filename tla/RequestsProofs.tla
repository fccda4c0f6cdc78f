---------------------------- MODULE RequestsProofs -----------------------------
(***************************************************************************)
(* Proofs about the request parser, for streams of any length, cut         *)
(* anywhere, and any URL_MAX and size of a recv.                           *)
(***************************************************************************)
EXTENDS Requests, TextProofs

Answers == {"none", "400", "414", "500", "505"}
-------------------------------------------------------------------------------
(***************************************************************************)
(* Types of what the parser computes from a line.                          *)
(***************************************************************************)

LEMMA SpaceFound ==
    ASSUME NEW s \in Texts, Finds(s, <<SP>>) # {}
    PROVE  /\ Min(Finds(s, <<SP>>)) - 1 \in 0 .. Len(s)
           /\ FirstWord(s) = Take(s, Min(Finds(s, <<SP>>)) - 1)
<1>1. Min(Finds(s, <<SP>>)) \in 1 .. Len(s)
  BY FirstFound, FindsWithin DEF Texts
<1> QED
  BY <1>1 DEF FirstWord, Texts

LEMMA FirstWordType ==
    ASSUME NEW s \in Texts
    PROVE  FirstWord(s) \in Texts /\ Len(FirstWord(s)) \in 0 .. Len(s)
<1>1. CASE Finds(s, <<SP>>) = {}
  BY <1>1 DEF FirstWord, Texts
<1>2. CASE Finds(s, <<SP>>) # {}
  BY <1>2, SpaceFound, TakeType DEF Texts
<1> QED
  BY <1>1, <1>2

LEMMA TrimmedType ==
    ASSUME NEW s \in Texts, NotSpaces(s) # {}
    PROVE  Trimmed(s) \in Texts
<1>1. NotSpaces(s) \subseteq 1 .. Len(s) /\ NotSpaces(s) \subseteq Nat
  BY DEF NotSpaces, Texts
<1>2. Min(NotSpaces(s)) \in 1 .. Len(s)
  BY <1>1, MinNat
<1>3. Min(NotSpaces(s)) - 1 \in 0 .. Len(s)
  BY <1>2 DEF Texts
<1> QED
  BY <1>3, DropType DEF Trimmed, Texts

\* The request line: the answers it can give, and types of method and path.
LEMMA RequestLineType ==
    ASSUME NEW l \in Texts, NEW m \in Texts, NEW p \in Texts
    PROVE  /\ RequestLine(l, m, p).answer \in Answers
           /\ RequestLine(l, m, p).method \in Texts
           /\ RequestLine(l, m, p).path \in Texts
<1> DEFINE mt    == FirstWord(l)
           tail  == Drop(l, Len(mt))
           path1 == Trimmed(tail)
           pt    == FirstWord(path1)
           end   == Drop(path1, Len(pt))
<1>1. mt \in Texts /\ Len(mt) \in 0 .. Len(l)
  BY FirstWordType
<1>2. tail \in Texts
  BY <1>1, DropType DEF Texts
<1>3. NotSpaces(tail) # {} => path1 \in Texts
  BY <1>2, TrimmedType
<1>4. NotSpaces(tail) # {} => pt \in Texts /\ Len(pt) \in 0 .. Len(path1)
  BY <1>3, FirstWordType
<1>5. CheckPath(pt) \in {"none", "400", "414"}
  BY DEF CheckPath
<1>6. RequestLine(l, m, p) =
        CASE Finds(l, <<SP>>) = {} -> [answer |-> "400", method |-> m, path |-> p]
          [] Finds(l, <<SP>>) # {} /\ mt = <<>> -> [answer |-> "400", method |-> mt, path |-> p]
          [] Finds(l, <<SP>>) # {} /\ mt # <<>> /\ NotSpaces(tail) = {} ->
               [answer |-> "500", method |-> mt, path |-> p]
          [] OTHER ->
               CASE end = <<>> -> [answer |-> "400", method |-> mt, path |-> p]
                 [] end # <<>> /\ CheckPath(pt) # "none" ->
                      [answer |-> CheckPath(pt), method |-> mt, path |-> pt]
                 [] end # <<>> /\ CheckPath(pt) = "none" /\ NotSpaces(end) = {} ->
                      [answer |-> "500", method |-> mt, path |-> pt]
                 [] OTHER ->
                      [answer |-> IF FirstWord(Trimmed(end)) = Version THEN "none" ELSE "505",
                       method |-> mt, path |-> pt]
  BY DEF RequestLine
<1> HIDE DEF mt, tail, path1, pt, end
<1>7. CASE Finds(l, <<SP>>) = {} \/ mt = <<>> \/ NotSpaces(tail) = {}
  BY <1>1, <1>6, <1>7 DEF Answers
<1>8. CASE ~(Finds(l, <<SP>>) = {} \/ mt = <<>> \/ NotSpaces(tail) = {})
  BY <1>1, <1>4, <1>5, <1>6, <1>8 DEF Answers
<1> QED
  BY <1>7, <1>8

\* A header line: its types, and how long what it leaves can be.
LEMMA HeaderLineType ==
    ASSUME NEW l \in Texts, NEW hs, DOMAIN hs \subseteq Texts,
           \A k \in DOMAIN hs : hs[k] \in Texts
    PROVE  LET r == HeaderLine(l, hs)
           IN  /\ r.answer \in Answers
               /\ DOMAIN r.headers \subseteq Texts
               /\ \A k \in DOMAIN r.headers :
                     /\ r.headers[k] \in Texts
                     /\ \/ k \in DOMAIN hs /\ r.headers[k] = hs[k]
                        \/ Len(k) + Len(Colon) + Len(r.headers[k]) <= Len(l)
<1> DEFINE found == Finds(l, Colon)
           key   == Take(l, Min(found) - 1)
           value == Drop(l, Min(found) + 1)
           merged == [k \in DOMAIN hs \cup {key} |-> IF k = key THEN value ELSE hs[k]]
<1>1. HeaderLine(l, hs) =
        IF found = {} \/ key = <<>> \/ value = <<>>
        THEN [answer |-> "400", headers |-> hs]
        ELSE [answer |-> "none", headers |-> merged]
  BY DEF HeaderLine
<1>2. CASE found = {} \/ key = <<>> \/ value = <<>>
  <2> HIDE DEF found, key, value, merged
  <2>1. HeaderLine(l, hs).answer = "400" /\ HeaderLine(l, hs).headers = hs
    BY <1>1, <1>2
  <2> QED
    BY <2>1 DEF Answers
<1>3. CASE ~(found = {} \/ key = <<>> \/ value = <<>>)
  <2>1. Min(found) \in 1 .. Len(l) /\ Min(found) + 1 <= Len(l) /\ Len(Colon) = 2
    <3>1. Len(Colon) = 2 /\ l \in Seq(STRING) /\ Len(l) \in Nat /\ found # {}
      BY <1>3 DEF Texts, Colon
    <3>2. Min(found) \in found
      BY <3>1, FirstFound
    <3>3. found \subseteq 1 .. Len(l) /\ \A i \in found : i + Len(Colon) - 1 <= Len(l)
      BY <3>1, FindsWithin
    <3> HIDE DEF found
    <3>4. Min(found) \in 1 .. Len(l) /\ Min(found) + Len(Colon) - 1 <= Len(l)
      BY <3>2, <3>3
    <3> QED
      BY <3>1, <3>4
  <2>2. Min(found) - 1 \in 0 .. Len(l) /\ Min(found) + 1 \in 0 .. Len(l) /\ Len(l) \in Nat
    BY <2>1 DEF Texts
  <2>3. key \in Texts /\ Len(key) = Min(found) - 1
    BY <2>2, TakeType DEF Texts
  <2>4. value \in Texts /\ Len(value) = Len(l) - (Min(found) + 1)
    BY <2>2, DropType DEF Texts
  <2>5. Len(key) + Len(Colon) + Len(value) <= Len(l)
    BY <2>1, <2>2, <2>3, <2>4
  <2> HIDE DEF found, key, value
  <2>6. HeaderLine(l, hs).answer = "none" /\ HeaderLine(l, hs).headers = merged
    BY <1>1, <1>3
  <2>7. /\ DOMAIN merged \subseteq Texts
        /\ \A k \in DOMAIN merged :
              /\ merged[k] \in Texts
              /\ \/ k \in DOMAIN hs /\ merged[k] = hs[k]
                 \/ Len(k) + Len(Colon) + Len(merged[k]) <= Len(l)
    BY <2>3, <2>4, <2>5
  <2> HIDE DEF merged
  <2> QED
    BY <2>6, <2>7 DEF Answers
<1> QED
  BY <1>2, <1>3
-------------------------------------------------------------------------------
(***************************************************************************)
(* The invariant.                                                          *)
(***************************************************************************)

\* How much is kept: Bounded, also while the lines are read.
Kept ==
    /\ pc = "lines" => answer = "none"
    /\ answer = "none" => Len(rest) <= UrlMax
    /\ Len(buffer) <= RecvMax
    /\ \A k \in DOMAIN headers : Len(k) + Len(Colon) + Len(headers[k]) <= UrlMax + RecvMax

\* The text is used up, or has the end of a line at its end.
Ended(s) == Len(s) > 0 => Len(s) > 1 /\ s[Len(s) - 1] = CR /\ s[Len(s)] = LF

(***************************************************************************)
(* Until the end of the head is found no blank line lies before pos, unless*)
(* one was cut; from then on the lines of the call end with the head, and  *)
(* after them no beginning of a line is left.                              *)
(***************************************************************************)
Noticed ==
    /\ start_read /\ pc = "lines" => Ended(buffer) /\ (buffer = <<>> => rest = <<>>)
    /\ start_read /\ pc = "recv" /\ answer = "none" => rest = <<>>
    /\ ~start_read /\ ~blankCut => \A h \in Finds(stream, Blank) : pos < h

Inv == TypeOK /\ Kept /\ Noticed
-------------------------------------------------------------------------------
LEMMA BlankText ==
    /\ Len(Blank) = 4 /\ DOMAIN Blank = 1 .. 4
    /\ Blank[1] = CR /\ Blank[2] = LF /\ Blank[3] = CR /\ Blank[4] = LF
BY DEF Blank, CRLF

LEMMA BlankAt ==
    ASSUME NEW s, NEW i \in Int
    PROVE  IsAt(s, Blank, i) <=>
             i + 3 <= Len(s) /\ s[i] = CR /\ s[i + 1] = LF /\ s[i + 2] = CR /\ s[i + 3] = LF
BY BlankText DEF IsAt

\* A piece of the stream, and the blank lines it contains.
LEMMA PieceOf ==
    ASSUME TypeOK, NEW n \in 0 .. Len(stream) - pos
    PROVE  LET piece == SubSeq(stream, pos + 1, pos + n)
           IN  /\ piece \in Texts /\ Len(piece) = n
               /\ \A i \in 1 .. n : piece[i] = stream[pos + i]
<1>1. stream \in Seq(STRING) /\ pos \in 0 .. Len(stream)
  BY RequestsAssumption DEF TypeOK
<1>2. n \in Nat /\ pos \in Nat /\ Len(stream) \in Nat /\ pos + n <= Len(stream)
  BY <1>1, LenProperties
<1>3. \A i \in pos + 1 .. pos + n : i \in 1 .. Len(stream)
  BY <1>2
<1>4. \A i \in pos + 1 .. pos + n : stream[i] \in STRING
  BY <1>1, <1>3, ElementOfSeq
<1> DEFINE lo == pos + 1
           hi == pos + n
           piece == SubSeq(stream, lo, hi)
<1>5. /\ lo \in Int /\ hi \in Int /\ hi - lo + 1 = n
      /\ lo <= hi \/ n = 0
      /\ \A i \in 1 .. n : lo + i - 1 = pos + i
  BY <1>2
<1> HIDE DEF lo, hi
<1>6. /\ piece \in Seq(STRING)
      /\ Len(piece) = IF lo <= hi THEN hi - lo + 1 ELSE 0
      /\ \A i \in 1 .. hi - lo + 1 : piece[i] = stream[lo + i - 1]
  BY <1>4, <1>5, SubSeqProperties DEF lo, hi
<1> HIDE DEF piece
<1>7. Len(piece) = n /\ \A i \in 1 .. n : piece[i] = stream[pos + i]
  BY <1>2, <1>5, <1>6
<1> QED
  BY <1>6, <1>7 DEF piece, lo, hi, Texts

LEMMA BlankInPiece ==
    ASSUME TypeOK, NEW n \in 0 .. Len(stream) - pos,
           NEW h \in Finds(stream, Blank), pos < h, h + 3 <= pos + n
    PROVE  h - pos \in Finds(SubSeq(stream, pos + 1, pos + n), Blank)
<1> DEFINE piece == SubSeq(stream, pos + 1, pos + n)
<1>1. piece \in Texts /\ Len(piece) = n /\ \A i \in 1 .. n : piece[i] = stream[pos + i]
  BY PieceOf
<1>2. h \in Int /\ pos \in Int /\ n \in Int
  BY DEF TypeOK, Finds
<1>3. /\ stream[h] = CR /\ stream[h + 1] = LF /\ stream[h + 2] = CR /\ stream[h + 3] = LF
  BY <1>2, BlankAt DEF Finds
<1> HIDE DEF piece
<1>4. /\ piece[h - pos] = stream[h] /\ piece[h - pos + 1] = stream[h + 1]
      /\ piece[h - pos + 2] = stream[h + 2] /\ piece[h - pos + 3] = stream[h + 3]
  <2>1. /\ h - pos \in 1 .. n /\ h - pos + 1 \in 1 .. n /\ h - pos + 2 \in 1 .. n /\ h - pos + 3 \in 1 .. n
        /\ pos + (h - pos) = h /\ pos + (h - pos + 1) = h + 1
        /\ pos + (h - pos + 2) = h + 2 /\ pos + (h - pos + 3) = h + 3
    BY <1>2
  <2> QED
    BY <1>1, <2>1
<1>5. h - pos + 3 <= Len(piece) /\ h - pos \in Int /\ h - pos \in DOMAIN piece
  BY <1>1, <1>2 DEF Texts
<1>6. IsAt(piece, Blank, h - pos)
  BY <1>3, <1>4, <1>5, BlankAt
<1> QED
  BY <1>5, <1>6 DEF Finds, piece

\* The part of a piece that belongs to the head, and what follows.
LEMMA HeadOfPiece ==
    ASSUME NEW piece \in Texts, Finds(piece, Blank) # {}
    PROVE  LET at == Min(Finds(piece, Blank))
           IN  /\ HeadUpTo(piece, at) \in Texts /\ Len(HeadUpTo(piece, at)) <= Len(piece)
               /\ Ended(HeadUpTo(piece, at)) /\ HeadUpTo(piece, at) # <<>>
               /\ BodyAfter(piece, at) \in Texts
<1> DEFINE at == Min(Finds(piece, Blank))
<1>1. piece \in Seq(STRING) /\ Len(piece) \in Nat
  BY DEF Texts
<1>2. at \in Finds(piece, Blank) /\ at \in 1 .. Len(piece) /\ at + 3 <= Len(piece)
  <2>1. at \in Finds(piece, Blank)
    BY <1>1, FirstFound
  <2>2. /\ Finds(piece, Blank) \subseteq 1 .. Len(piece)
        /\ \A i \in Finds(piece, Blank) : i + Len(Blank) - 1 <= Len(piece)
    BY <1>1, FindsWithin
  <2> HIDE DEF at
  <2>3. at \in 1 .. Len(piece) /\ at + Len(Blank) - 1 <= Len(piece)
    BY <2>1, <2>2
  <2> QED
    BY <1>1, <2>1, <2>3, BlankText
<1>3. IsAt(piece, Blank, at) /\ at \in Int
  BY <1>2 DEF Finds
<1> HIDE DEF at
<1>4. piece[at] = CR /\ piece[at + 1] = LF
  BY <1>3, BlankAt
<1>5. Len(CRLF) = 2 /\ at + Len(CRLF) - 1 = at + 1 /\ at + Len(Blank) - 1 = at + 3
  BY <1>2, BlankText DEF CRLF
<1>6. at + 1 \in 0 .. Len(piece) /\ at + 3 \in 0 .. Len(piece) /\ at \in 1 .. at + 1 /\ at + 1 \in 1 .. at + 1
  BY <1>1, <1>2
<1>7. /\ HeadUpTo(piece, at) = Take(piece, at + 1) /\ BodyAfter(piece, at) = Drop(piece, at + 3)
  BY <1>5 DEF HeadUpTo, BodyAfter
<1>8. /\ Take(piece, at + 1) \in Seq(STRING) /\ Len(Take(piece, at + 1)) = at + 1
      /\ Take(piece, at + 1)[at] = CR /\ Take(piece, at + 1)[at + 1] = LF
  BY <1>1, <1>4, <1>6, TakeType
<1>9. Drop(piece, at + 3) \in Seq(STRING)
  BY <1>1, <1>6, DropType
<1> DEFINE head == Take(piece, at + 1)
<1> HIDE DEF head
<1>10. Ended(head) /\ head # <<>>
  BY <1>2, <1>8 DEF Ended, head
<1> QED
  BY <1>1, <1>2, <1>7, <1>8, <1>9, <1>10 DEF at, head, Texts

\* The next line of what was received, and what is left after it.
LEMMA LineRead ==
    ASSUME TypeOK, Finds(buffer, CRLF) # {}
    PROVE  LET end_line == Min(Finds(buffer, CRLF))
           IN  /\ WholeLine(Take(buffer, end_line - 1)) \in Texts
               /\ Len(WholeLine(Take(buffer, end_line - 1))) <= Len(rest) + Len(buffer)
               /\ Drop(buffer, end_line + 1) \in Texts
               /\ Len(Drop(buffer, end_line + 1)) <= Len(buffer)
               /\ Ended(buffer) => Ended(Drop(buffer, end_line + 1))
<1> DEFINE end_line == Min(Finds(buffer, CRLF))
           line == Take(buffer, end_line - 1)
           left == Drop(buffer, end_line + 1)
<1>1. buffer \in Seq(STRING) /\ rest \in Seq(STRING) /\ Len(buffer) \in Nat /\ Len(rest) \in Nat
  BY DEF TypeOK, Texts
<1>2. end_line \in Finds(buffer, CRLF)
  BY <1>1, FirstFound
<1>3. end_line \in Nat /\ end_line \in 1 .. Len(buffer)
  BY <1>1, <1>2, FindsWithin
<1>4. end_line + 1 <= Len(buffer) /\ buffer[end_line] = CR /\ buffer[end_line + 1] = LF
  BY <1>2, <1>3, EndOfLine DEF Finds
<1> HIDE DEF end_line
<1>5. line \in Seq(STRING) /\ Len(line) = end_line - 1
  <2>1. end_line - 1 \in 0 .. Len(buffer)
    BY <1>1, <1>3
  <2> QED
    BY <1>1, <2>1, TakeType
<1>6. /\ left \in Seq(STRING) /\ Len(left) = Len(buffer) - (end_line + 1)
      /\ \A i \in 1 .. Len(buffer) - (end_line + 1) : left[i] = buffer[end_line + 1 + i]
  <2>1. end_line + 1 \in 0 .. Len(buffer)
    BY <1>1, <1>3, <1>4
  <2> QED
    BY <1>1, <2>1, DropType
<1> HIDE DEF line, left
<1>7. WholeLine(line) \in Seq(STRING) /\ Len(WholeLine(line)) = Len(rest) + Len(line)
  BY <1>1, <1>5, ConcatProperties DEF WholeLine
<1>8. ASSUME Ended(buffer), Len(left) > 0
      PROVE  Len(left) > 1 /\ left[Len(left) - 1] = CR /\ left[Len(left)] = LF
  <2>1. buffer[Len(buffer) - 1] = CR /\ buffer[Len(buffer)] = LF
    BY <1>1, <1>3, <1>8 DEF Ended
  <2>2. Len(buffer) # end_line + 2
    BY <1>3, <1>4, <2>1 DEF CR, LF
  <2>3. Len(left) > 1
    BY <1>1, <1>3, <1>6, <1>8, <2>2
  <2>4. /\ Len(left) - 1 \in 1 .. Len(buffer) - (end_line + 1)
        /\ Len(left) \in 1 .. Len(buffer) - (end_line + 1)
        /\ end_line + 1 + (Len(left) - 1) = Len(buffer) - 1
        /\ end_line + 1 + Len(left) = Len(buffer)
    BY <1>1, <1>3, <1>6, <2>3
  <2> QED
    BY <1>6, <2>1, <2>3, <2>4
<1>9. Ended(buffer) => Ended(left)
  BY <1>8 DEF Ended
<1> QED
  BY <1>1, <1>3, <1>5, <1>6, <1>7, <1>9 DEF end_line, line, left, Texts

\* Without the end of a line in it, a text that ends with one is empty.
LEMMA NothingLeft ==
    ASSUME buffer \in Texts, Ended(buffer), Finds(buffer, CRLF) = {}
    PROVE  buffer = <<>>
<1>1. buffer \in Seq(STRING) /\ Len(buffer) \in Nat
  BY DEF Texts
<1>2. ASSUME Len(buffer) > 0 PROVE FALSE
  <2>1. Len(buffer) > 1 /\ buffer[Len(buffer) - 1] = CR /\ buffer[Len(buffer)] = LF
    BY <1>2 DEF Ended
  <2>2. Len(buffer) - 1 \in DOMAIN buffer /\ Len(buffer) - 1 \in Int /\ Len(buffer) - 1 + 1 = Len(buffer)
    BY <1>1, <2>1
  <2>3. IsAt(buffer, CRLF, Len(buffer) - 1)
    BY <1>1, <2>1, <2>2, EndOfLine
  <2> QED
    BY <2>2, <2>3 DEF Finds
<1> QED
  BY <1>1, <1>2, EmptySeq
-------------------------------------------------------------------------------
(***************************************************************************)
(* The steps.                                                              *)
(***************************************************************************)

LEMMA InvInit == Init => Inv
<1> SUFFICES ASSUME Init PROVE Inv
  OBVIOUS
<1>1. stream \in Seq(STRING) /\ Len(stream) \in Nat /\ UrlMax \in Nat /\ RecvMax \in Nat
  BY RequestsAssumption DEF Init
<1>2. <<>> \in Texts /\ Len(<<>>) = 0 /\ DOMAIN <<>> = {}
  BY DEF Texts
<1>3. TypeOK
  <2>1. /\ stream \in Streams /\ pos \in 0 .. Len(stream) /\ pc \in {"recv", "lines"}
        /\ answer \in {"none", "400", "414", "500", "505"} /\ index_line \in Nat
    BY <1>1 DEF Init
  <2>4. {start_read, lineCut, blankCut} \subseteq BOOLEAN
    BY Zenon DEF Init
  <2>2. {rest, method, path, body, buffer, given} \subseteq Texts
    BY <1>2 DEF Init
  <2>3. DOMAIN headers = {}
    BY <1>2 DEF Init
  <2> QED
    BY <2>1, <2>2, <2>3, <2>4 DEF TypeOK
<1>4. Kept
  BY <1>1, <1>2 DEF Init, Kept
<1>5. \A h \in Finds(stream, Blank) : 0 < h
  BY <1>1 DEF Finds
<1>6. Noticed
  BY <1>5 DEF Init, Noticed
<1> QED
  BY <1>3, <1>4, <1>6 DEF Inv

LEMMA ParseRequestStep == ASSUME Inv, ParseRequest PROVE Inv'
<1>1. PICK n \in 0 .. Len(stream) - pos :
        LET piece == SubSeq(stream, pos + 1, pos + n)
            ends  == Finds(piece, Blank)
        IN  /\ n <= RecvMax
            /\ pos' = pos + n
            /\ IF start_read
               THEN /\ body' = piece /\ given' = given \o piece
                    /\ UNCHANGED <<pc, start_read, buffer, lineCut, blankCut>>
               ELSE /\ start_read' = (ends # {})
                    /\ body' = IF ends # {} THEN BodyAfter(piece, Min(ends)) ELSE body
                    /\ buffer' = IF ends # {} THEN HeadUpTo(piece, Min(ends)) ELSE piece
                    /\ pc' = "lines"
                    /\ lineCut' = (lineCut \/ (ends = {} /\ EndsInLine(pos + n)))
                    /\ blankCut' = (blankCut \/ (ends = {} /\ EndsInBlank(pos + n)))
                    /\ UNCHANGED given
  BY DEF ParseRequest
<1> DEFINE piece == SubSeq(stream, pos + 1, pos + n)
           ends  == Finds(piece, Blank)
<1>2. piece \in Texts /\ Len(piece) = n
  BY PieceOf DEF Inv
<1>3. /\ stream \in Streams /\ Len(stream) \in Nat /\ pos \in 0 .. Len(stream)
      /\ UrlMax \in Nat /\ RecvMax \in Nat
  BY RequestsAssumption DEF Inv, TypeOK
<1>4. ends # {} =>
        /\ HeadUpTo(piece, Min(ends)) \in Texts /\ Len(HeadUpTo(piece, Min(ends))) <= Len(piece)
        /\ Ended(HeadUpTo(piece, Min(ends))) /\ HeadUpTo(piece, Min(ends)) # <<>>
        /\ BodyAfter(piece, Min(ends)) \in Texts
  BY <1>2, HeadOfPiece
<1>5. /\ UNCHANGED <<stream, answer, index_line, rest, method, path, headers>>
      /\ pc = "recv" /\ answer = "none"
  BY DEF ParseRequest, fields
<1>6. pos' \in 0 .. Len(stream')
  BY <1>1, <1>3, <1>5
<1> HIDE DEF piece, ends
<1>7. CASE start_read
  <2>1. body' = piece /\ given' = given \o piece /\ UNCHANGED <<pc, start_read, buffer, lineCut, blankCut>>
    BY <1>1, <1>7 DEF piece
  <2>2. given' \in Texts
    BY <1>2, <2>1, ConcatProperties DEF Inv, TypeOK, Texts
  <2>3. TypeOK'
    BY <1>2, <1>3, <1>5, <1>6, <2>1, <2>2 DEF Inv, TypeOK
  <2>4. Kept'
    BY <1>5, <2>1 DEF Inv, Kept
  <2>5. Noticed'
    BY <1>5, <1>7, <2>1 DEF Inv, Noticed, Ended
  <2> QED
    BY <2>3, <2>4, <2>5 DEF Inv
<1>8. CASE ~start_read
  <2>1. /\ n <= RecvMax /\ pos' = pos + n
        /\ start_read' = (ends # {})
        /\ body' = IF ends # {} THEN BodyAfter(piece, Min(ends)) ELSE body
        /\ buffer' = IF ends # {} THEN HeadUpTo(piece, Min(ends)) ELSE piece
        /\ pc' = "lines"
        /\ lineCut' = (lineCut \/ (ends = {} /\ EndsInLine(pos + n)))
        /\ blankCut' = (blankCut \/ (ends = {} /\ EndsInBlank(pos + n)))
        /\ UNCHANGED given
    BY <1>1, <1>8 DEF piece, ends
  <2>2. body' \in Texts /\ buffer' \in Texts /\ Len(buffer') <= n
    BY <1>2, <1>4, <2>1 DEF Inv, TypeOK
  <2>3. start_read' \in BOOLEAN /\ lineCut' \in BOOLEAN /\ blankCut' \in BOOLEAN
    BY <2>1 DEF Inv, TypeOK
  <2>4. TypeOK'
    BY <1>3, <1>5, <1>6, <2>1, <2>2, <2>3 DEF Inv, TypeOK
  <2>5. Kept'
    <3>1. Len(buffer') <= RecvMax
      BY <1>2, <1>3, <2>1, <2>2 DEF Texts
    <3> QED
      BY <1>5, <2>1, <3>1 DEF Inv, Kept
  <2>6. ASSUME ~start_read', ~blankCut', NEW h \in Finds(stream, Blank)
        PROVE  pos' < h
    <3>1. ends = {} /\ ~blankCut /\ ~EndsInBlank(pos + n)
      BY <2>1, <2>6
    <3>2. pos < h /\ h \in Int /\ pos \in Int /\ n \in Int
      BY <1>3, <1>8, <3>1 DEF Inv, Noticed, Finds
    <3>3. ~(h + 3 <= pos + n)
      BY <3>1, <3>2, BlankInPiece DEF Inv, ends, piece
    <3>4. ~(pos + n \in h .. h + 2)
      BY <3>1 DEF EndsInBlank
    <3> QED
      BY <2>1, <3>2, <3>3, <3>4
  <2>7. start_read' => Ended(buffer') /\ buffer' # <<>>
    BY <1>4, <2>1
  <2>8. Noticed'
    BY <1>5, <2>1, <2>6, <2>7 DEF Noticed, Ended
  <2> QED
    BY <2>4, <2>5, <2>8 DEF Inv
<1> QED
  BY <1>7, <1>8

LEMMA ParseLineStep == ASSUME Inv, ParseLine PROVE Inv'
<1> DEFINE end_line == Min(Finds(buffer, CRLF))
           line     == WholeLine(Take(buffer, end_line - 1))
           left     == Drop(buffer, end_line + 1)
           r        == RequestLine(line, method, path)
           hl       == HeaderLine(line, headers)
           refusal  == IF index_line = 0 THEN r.answer ELSE hl.answer
<1>1. /\ method' = IF index_line = 0 THEN r.method ELSE method
      /\ path' = IF index_line = 0 THEN r.path ELSE path
      /\ headers' = IF index_line = 0 THEN headers ELSE hl.headers
      /\ IF refusal = "none"
         THEN /\ buffer' = left
              /\ index_line' = index_line + 1
              /\ rest' = <<>>
              /\ UNCHANGED <<pc, answer>>
         ELSE answer' = refusal /\ pc' = "recv" /\ UNCHANGED <<buffer, index_line, rest>>
      /\ UNCHANGED <<stream, pos, start_read, body, given, lineCut, blankCut>>
  BY DEF ParseLine, peerVars
<1>2. TypeOK /\ Kept /\ Noticed /\ pc = "lines" /\ answer = "none" /\ Finds(buffer, CRLF) # {}
  BY DEF ParseLine, Inv, Kept
<1>3. /\ line \in Texts /\ Len(line) <= Len(rest) + Len(buffer)
      /\ left \in Texts /\ Len(left) <= Len(buffer) /\ (Ended(buffer) => Ended(left))
  BY <1>2, LineRead
<1>4. r.answer \in Answers /\ r.method \in Texts /\ r.path \in Texts
  BY <1>2, <1>3, RequestLineType DEF TypeOK
<1>5. /\ hl.answer \in Answers
      /\ DOMAIN hl.headers \subseteq Texts
      /\ \A k \in DOMAIN hl.headers :
            /\ hl.headers[k] \in Texts
            /\ \/ k \in DOMAIN headers /\ hl.headers[k] = headers[k]
               \/ Len(k) + Len(Colon) + Len(hl.headers[k]) <= Len(line)
  BY <1>2, <1>3, HeaderLineType DEF TypeOK
<1>6. <<>> \in Texts /\ Len(<<>>) = 0
  BY DEF Texts
<1>7. UrlMax \in Nat /\ RecvMax \in Nat /\ Len(rest) \in Nat /\ Len(buffer) \in Nat /\ Len(line) \in Nat
      /\ Len(left) \in Nat
  BY <1>2, <1>3, RequestsAssumption DEF TypeOK, Texts
<1> HIDE DEF end_line, line, left, r, hl
<1>8. refusal \in Answers
  BY <1>4, <1>5
<1>9. /\ method' \in Texts /\ path' \in Texts /\ DOMAIN headers' \subseteq Texts
      /\ \A k \in DOMAIN headers' : headers'[k] \in Texts
  BY <1>1, <1>2, <1>4, <1>5 DEF TypeOK
<1> HIDE DEF refusal
<1>10. TypeOK'
  <2>1. CASE refusal = "none"
    BY <1>1, <1>2, <1>3, <1>6, <1>9, <2>1 DEF TypeOK
  <2>2. CASE refusal # "none"
    BY <1>1, <1>2, <1>8, <1>9, <2>2 DEF TypeOK, Answers
  <2> QED
    BY <2>1, <2>2
<1>11. Kept'
  <2>1. \A k \in DOMAIN headers' : Len(k) + Len(Colon) + Len(headers'[k]) <= UrlMax + RecvMax
    <3>1. Len(rest) <= UrlMax /\ Len(buffer) <= RecvMax
      BY <1>2 DEF Kept
    <3>2. Len(line) <= UrlMax + RecvMax
      BY <1>3, <1>7, <3>1
    <3>3. \A k \in DOMAIN headers : Len(k) + Len(Colon) + Len(headers[k]) <= UrlMax + RecvMax
      BY <1>2 DEF Kept
    <3>4. CASE index_line = 0
      BY <1>1, <3>3, <3>4
    <3>5. CASE index_line # 0
      <4> SUFFICES ASSUME NEW k \in DOMAIN hl.headers
                   PROVE  Len(k) + Len(Colon) + Len(hl.headers[k]) <= UrlMax + RecvMax
        BY <1>1, <3>5
      <4>1. CASE k \in DOMAIN headers /\ hl.headers[k] = headers[k]
        BY <3>3, <4>1
      <4>2. CASE Len(k) + Len(Colon) + Len(hl.headers[k]) <= Len(line)
        <5>1. Len(k) \in Nat /\ Len(hl.headers[k]) \in Nat /\ Len(Colon) \in Nat
          BY <1>5 DEF Texts, Colon
        <5>2. UrlMax \in Nat /\ RecvMax \in Nat /\ Len(line) \in Nat
          BY <1>7
        <5> DEFINE name == Len(k)
                   sign == Len(Colon)
                   val  == Len(hl.headers[k])
        <5>3. name \in Nat /\ sign \in Nat /\ val \in Nat /\ name + sign + val <= Len(line)
          BY <4>2, <5>1
        <5> HIDE DEF name, sign, val
        <5>4. name + sign + val <= UrlMax + RecvMax
          BY <3>2, <5>2, <5>3
        <5> QED
          BY <5>4 DEF name, sign, val
      <4> QED
        BY <1>5, <4>1, <4>2
    <3> QED
      BY <3>4, <3>5
  <2>2. answer' = "none" => Len(rest') <= UrlMax
    BY <1>1, <1>2, <1>6, <1>7, RequestsAssumption DEF Kept
  <2>3. Len(buffer') <= RecvMax
    BY <1>1, <1>2, <1>3, <1>7 DEF Kept
  <2>4. pc' = "lines" => answer' = "none"
    BY <1>1, <1>2
  <2> QED
    BY <2>1, <2>2, <2>3, <2>4 DEF Kept
<1>12. Noticed'
  BY <1>1, <1>2, <1>3 DEF Noticed
<1> QED
  BY <1>10, <1>11, <1>12 DEF Inv

LEMMA LinesDoneStep == ASSUME Inv, LinesDone PROVE Inv'
<1>1. /\ pc = "lines" /\ Finds(buffer, CRLF) = {} /\ answer = "none"
      /\ rest' = rest \o buffer
      /\ answer' = IF Len(rest') > UrlMax THEN "400" ELSE answer
      /\ given' = IF start_read /\ answer' = "none" THEN given \o body ELSE given
      /\ buffer' = <<>> /\ pc' = "recv"
      /\ UNCHANGED <<stream, pos, start_read, index_line, method, path, headers, body, lineCut, blankCut>>
  BY DEF LinesDone, Inv, Kept, TooLong, peerVars, fields
<1>2. rest \in Seq(STRING) /\ buffer \in Seq(STRING) /\ given \in Seq(STRING) /\ body \in Seq(STRING)
  BY DEF Inv, TypeOK, Texts
<1>3. rest' \in Seq(STRING) /\ given' \in Seq(STRING) /\ Len(rest') \in Nat
  <2>1. rest \o buffer \in Seq(STRING) /\ given \o body \in Seq(STRING)
    BY <1>2, ConcatProperties
  <2>2. rest' \in Seq(STRING) /\ given' \in Seq(STRING)
    BY <1>1, <1>2, <2>1
  <2> QED
    BY <2>2
<1>4. <<>> \in Texts /\ Len(<<>>) = 0 /\ RecvMax \in Nat /\ UrlMax \in Nat
  BY RequestsAssumption DEF Texts
<1>5. TypeOK'
  BY <1>1, <1>3, <1>4 DEF Inv, TypeOK, Texts
<1>6. Kept'
  BY <1>1, <1>3, <1>4 DEF Inv, Kept
<1>7. start_read => rest' = <<>>
  <2> SUFFICES ASSUME start_read PROVE rest' = <<>>
    OBVIOUS
  <2>1. buffer = <<>> /\ rest = <<>>
    BY <1>1, <1>2, NothingLeft DEF Inv, Noticed, Texts
  <2> QED
    BY <1>1, <1>2, <2>1, ConcatEmptySeq
<1>8. Noticed'
  BY <1>1, <1>7 DEF Inv, Noticed
<1> QED
  BY <1>5, <1>6, <1>8 DEF Inv

LEMMA Invariance == Spec => []Inv
<1>1. Init => Inv
  BY InvInit
<1>2. Inv /\ [Next]_vars => Inv'
  <2> SUFFICES ASSUME Inv, [Next]_vars PROVE Inv'
    OBVIOUS
  <2>1. CASE UNCHANGED vars
    BY <2>1 DEF Inv, TypeOK, Kept, Noticed, Ended, vars, peerVars, fields
  <2> QED
    BY <2>1, ParseRequestStep, ParseLineStep, LinesDoneStep DEF Next
<1> QED
  BY <1>1, <1>2, PTL DEF Spec
-------------------------------------------------------------------------------
(***************************************************************************)
(* Every variable of the parser keeps its type, whatever is sent and       *)
(* wherever recv cuts it.                                                  *)
(***************************************************************************)
THEOREM ParserTypeCorrect == Spec => []TypeOK
<1>1. Inv => TypeOK
  BY DEF Inv
<1> QED
  BY <1>1, Invariance, PTL

(***************************************************************************)
(* What the parser keeps of a head that does not end is bounded by URL_MAX *)
(* and one recv (request.cpp:124-126).                                     *)
(***************************************************************************)
THEOREM ParserIsBounded == Spec => []Bounded
<1>1. Inv => Bounded
  BY DEF Inv, Kept, Bounded
<1> QED
  BY <1>1, Invariance, PTL

(***************************************************************************)
(* Unless recv cuts within a blank line, the end of a head does not pass   *)
(* unnoticed, however long the head is (request.cpp:106-123).              *)
(***************************************************************************)
THEOREM EndsAreNoticed == Spec => []EndIsNoticed
<1>1. Inv => EndIsNoticed
  <2> SUFFICES ASSUME Inv, pc = "recv", Complete(stream), pos >= HeadLen(stream) + 2,
                      ~blankCut, answer = "none"
               PROVE  Dispatched /\ rest = <<>>
    BY DEF EndIsNoticed
  <2> DEFINE h == Min(Finds(stream, Blank))
  <2>1. stream \in Seq(STRING) /\ pos \in Nat
    BY RequestsAssumption DEF Inv, TypeOK
  <2>2. h \in Finds(stream, Blank) /\ h \in Nat
    BY <2>1, FirstFound, FindsWithin DEF Complete
  <2>3. pos >= h + 3
    BY <2>1, <2>2 DEF HeadLen
  <2> HIDE DEF h
  <2>4. start_read
    BY <2>1, <2>2, <2>3 DEF Inv, Noticed
  <2> QED
    BY <2>4 DEF Inv, Noticed, Dispatched
<1> QED
  BY <1>1, Invariance, PTL
-------------------------------------------------------------------------------
(***************************************************************************)
(* What a request line is, by the places where its words begin and end.    *)
(***************************************************************************)

\* What request_line_parse has to find so that it throws nothing.
LEMMA NothingThrown ==
    ASSUME NEW l \in Texts, NEW m \in Texts, NEW p \in Texts
    PROVE  LET mt    == FirstWord(l)
               tail  == Drop(l, Len(mt))
               path1 == Trimmed(tail)
               pt    == FirstWord(path1)
               end   == Drop(path1, Len(pt))
           IN  /\ RequestLine(l, m, p).answer = "none" <=>
                    /\ Finds(l, <<SP>>) # {} /\ mt # <<>> /\ NotSpaces(tail) # {} /\ end # <<>>
                    /\ CheckPath(pt) = "none" /\ NotSpaces(end) # {}
                    /\ FirstWord(Trimmed(end)) = Version
               /\ RequestLine(l, m, p).answer = "none" =>
                    RequestLine(l, m, p).method = mt /\ RequestLine(l, m, p).path = pt
<1> DEFINE mt    == FirstWord(l)
           tail  == Drop(l, Len(mt))
           path1 == Trimmed(tail)
           pt    == FirstWord(path1)
           end   == Drop(path1, Len(pt))
<1>1. CheckPath(pt) \in {"none", "400", "414"}
  BY DEF CheckPath
<1>2. RequestLine(l, m, p) =
        CASE Finds(l, <<SP>>) = {} -> [answer |-> "400", method |-> m, path |-> p]
          [] Finds(l, <<SP>>) # {} /\ mt = <<>> -> [answer |-> "400", method |-> mt, path |-> p]
          [] Finds(l, <<SP>>) # {} /\ mt # <<>> /\ NotSpaces(tail) = {} ->
               [answer |-> "500", method |-> mt, path |-> p]
          [] OTHER ->
               CASE end = <<>> -> [answer |-> "400", method |-> mt, path |-> p]
                 [] end # <<>> /\ CheckPath(pt) # "none" ->
                      [answer |-> CheckPath(pt), method |-> mt, path |-> pt]
                 [] end # <<>> /\ CheckPath(pt) = "none" /\ NotSpaces(end) = {} ->
                      [answer |-> "500", method |-> mt, path |-> pt]
                 [] OTHER ->
                      [answer |-> IF FirstWord(Trimmed(end)) = Version THEN "none" ELSE "505",
                       method |-> mt, path |-> pt]
  BY DEF RequestLine
<1> HIDE DEF mt, tail, path1, pt, end
<1>3. CASE Finds(l, <<SP>>) = {} \/ mt = <<>> \/ NotSpaces(tail) = {}
  BY <1>2, <1>3 DEF mt, tail, path1, pt, end
<1>4. CASE ~(Finds(l, <<SP>>) = {} \/ mt = <<>> \/ NotSpaces(tail) = {})
  BY <1>1, <1>2, <1>4 DEF mt, tail, path1, pt, end
<1> QED
  BY <1>3, <1>4

\* Where the spaces of a text are.
LEMMA Spaces ==
    ASSUME NEW s \in Texts
    PROVE  /\ Finds(s, <<SP>>) = {i \in 1 .. Len(s) : s[i] = SP}
           /\ NotSpaces(s) = {i \in 1 .. Len(s) : s[i] # SP}
           /\ Len(s) \in Nat
<1>1. DOMAIN s = 1 .. Len(s) /\ Len(s) \in Nat
  BY LenProperties DEF Texts
<1>2. Len(<<SP>>) = 1 /\ DOMAIN <<SP>> = {1} /\ <<SP>>[1] = SP
  OBVIOUS
<1>3. ASSUME NEW i \in 1 .. Len(s) PROVE IsAt(s, <<SP>>, i) <=> s[i] = SP
  BY <1>1, <1>2 DEF IsAt
<1> QED
  BY <1>1, <1>3 DEF Finds, NotSpaces

\* The first word ends before the first space.
Word(s, k) == k \in 0 .. Len(s) /\ (\A i \in 1 .. k : s[i] # SP) /\ (k = Len(s) \/ s[k + 1] = SP)

LEMMA FirstWordIs ==
    ASSUME NEW s \in Texts, NEW k, Word(s, k)
    PROVE  FirstWord(s) = Take(s, k)
<1>1. k \in Nat /\ Len(s) \in Nat /\ k <= Len(s)
  BY Spaces DEF Word
<1>2. CASE k = Len(s)
  <2>1. Finds(s, <<SP>>) = {}
    BY <1>2, Spaces DEF Word
  <2>2. Take(s, k) = s
    <3>1. /\ Take(s, k) \in Seq(STRING) /\ Len(Take(s, k)) = k
          /\ \A i \in 1 .. k : Take(s, k)[i] = s[i]
      BY TakeType DEF Word, Texts
    <3> QED
      BY <1>2, <3>1, SeqEqual DEF Texts
  <2> QED
    BY <2>1, <2>2 DEF FirstWord
<1>3. CASE k # Len(s)
  <2>1. k + 1 \in Finds(s, <<SP>>)
    BY <1>1, <1>3, Spaces DEF Word
  <2>2. Min(Finds(s, <<SP>>)) \in Finds(s, <<SP>>) /\ Min(Finds(s, <<SP>>)) <= k + 1
    BY <2>1, FirstFound DEF Texts
  <2>3. Min(Finds(s, <<SP>>)) = k + 1
    BY <1>1, <2>2, Spaces DEF Word
  <2> QED
    BY <1>1, <2>1, <2>3 DEF FirstWord
<1> QED
  BY <1>2, <1>3

LEMMA FirstWordHas ==
    ASSUME NEW s \in Texts
    PROVE  \E k \in 0 .. Len(s) : Word(s, k) /\ FirstWord(s) = Take(s, k)
<1>1. Len(s) \in Nat
  BY Spaces
<1>2. CASE Finds(s, <<SP>>) = {}
  <2>1. Word(s, Len(s))
    BY <1>1, <1>2, Spaces DEF Word
  <2> QED
    BY <1>1, <2>1, FirstWordIs
<1>3. CASE Finds(s, <<SP>>) # {}
  <2> DEFINE f == Min(Finds(s, <<SP>>))
  <2>1. f \in Finds(s, <<SP>>) /\ \A i \in Finds(s, <<SP>>) : f <= i
    BY <1>3, FirstFound DEF Texts
  <2> HIDE DEF f
  <2>2. f \in 1 .. Len(s) /\ s[f] = SP
    BY <2>1, Spaces
  <2>3. \A i \in 1 .. f - 1 : s[i] # SP
    BY <1>1, <2>1, <2>2, Spaces
  <2>4. Word(s, f - 1) /\ f - 1 \in 0 .. Len(s)
    BY <1>1, <2>2, <2>3 DEF Word
  <2> QED
    BY <2>4, FirstWordIs
<1> QED
  BY <1>2, <1>3

\* The spaces before a word.
Gap(s, k) == k \in 1 .. Len(s) /\ (\A i \in 1 .. k - 1 : s[i] = SP) /\ s[k] # SP

LEMMA TrimmedIs ==
    ASSUME NEW s \in Texts, NEW k, Gap(s, k)
    PROVE  NotSpaces(s) # {} /\ Trimmed(s) = Drop(s, k - 1)
<1>1. k \in NotSpaces(s) /\ NotSpaces(s) \subseteq Nat
  BY Spaces DEF Gap
<1>2. Min(NotSpaces(s)) \in NotSpaces(s) /\ Min(NotSpaces(s)) <= k
  BY <1>1, MinNat
<1>3. Min(NotSpaces(s)) = k
  BY <1>1, <1>2, Spaces DEF Gap
<1> QED
  BY <1>1, <1>3 DEF Trimmed

LEMMA TrimmedHas ==
    ASSUME NEW s \in Texts, NotSpaces(s) # {}
    PROVE  \E k \in 1 .. Len(s) : Gap(s, k) /\ Trimmed(s) = Drop(s, k - 1)
<1> DEFINE f == Min(NotSpaces(s))
<1>1. NotSpaces(s) \subseteq Nat
  BY Spaces
<1>2. f \in NotSpaces(s) /\ \A i \in NotSpaces(s) : f <= i
  BY <1>1, MinNat
<1> HIDE DEF f
<1>3. f \in 1 .. Len(s) /\ s[f] # SP /\ Len(s) \in Nat
  BY <1>2, Spaces
<1>4. \A i \in 1 .. f - 1 : s[i] = SP
  BY <1>2, <1>3, Spaces
<1> QED
  BY <1>3, <1>4, TrimmedIs DEF Gap

(***************************************************************************)
(* The words of a request line: the method before a, the path from b to    *)
(* before c, the version at d.                                             *)
(***************************************************************************)
Shape(l, a, b, c, d) ==
    /\ a \in Nat /\ b \in Nat /\ c \in Nat /\ d \in Nat
    /\ 1 < a /\ a < b /\ b < c /\ c < d /\ d <= Len(l)
    /\ \A i \in 1 .. a - 1 : l[i] # SP
    /\ \A i \in a .. b - 1 : l[i] = SP
    /\ \A i \in b .. c - 1 : l[i] # SP
    /\ \A i \in c .. d - 1 : l[i] = SP
    /\ l[d] = "v" /\ (d = Len(l) \/ l[d + 1] = SP)

\* The characters of l from i on, n of them.
IsPart(q, l, i, n) == q \in Texts /\ Len(q) = n /\ \A j \in 1 .. n : q[j] = l[i - 1 + j]

LEMMA DropPart ==
    ASSUME NEW l \in Texts, NEW i \in Nat \ {0}, NEW n \in Nat, NEW q, IsPart(q, l, i, n),
           NEW k \in 0 .. n
    PROVE  IsPart(Drop(q, k), l, i + k, n - k) /\ IsPart(Take(q, k), l, i, k)
<1>1. q \in Seq(STRING) /\ Len(q) = n
  BY DEF IsPart, Texts
<1>2. /\ Drop(q, k) \in Seq(STRING) /\ Len(Drop(q, k)) = n - k
      /\ \A j \in 1 .. n - k : Drop(q, k)[j] = q[k + j]
  BY <1>1, DropType
<1>3. /\ Take(q, k) \in Seq(STRING) /\ Len(Take(q, k)) = k
      /\ \A j \in 1 .. k : Take(q, k)[j] = q[j]
  BY <1>1, TakeType
<1>4. ASSUME NEW j \in 1 .. n - k PROVE Drop(q, k)[j] = l[i + k - 1 + j]
  <2>1. k + j \in 1 .. n /\ i - 1 + (k + j) = i + k - 1 + j
    OBVIOUS
  <2>2. q[k + j] = l[i - 1 + (k + j)]
    BY <2>1 DEF IsPart
  <2> QED
    BY <1>2, <2>1, <2>2
<1>5. ASSUME NEW j \in 1 .. k PROVE Take(q, k)[j] = l[i - 1 + j]
  BY <1>3 DEF IsPart
<1> QED
  BY <1>2, <1>3, <1>4, <1>5 DEF IsPart, Texts

\* A word and a gap in a part, by their places in the whole.
LEMMA WordInPart ==
    ASSUME NEW l \in Texts, NEW i \in Nat \ {0}, NEW n \in Nat, NEW q, IsPart(q, l, i, n),
           NEW k \in 0 .. n
    PROVE  Word(q, k) <=> (\A j \in i .. i + k - 1 : l[j] # SP) /\ (k = n \/ l[i + k] = SP)
<1>1. (\A j \in 1 .. k : q[j] # SP) <=> \A j \in i .. i + k - 1 : l[j] # SP
  <2>1. ASSUME \A j \in 1 .. k : q[j] # SP, NEW j \in i .. i + k - 1 PROVE l[j] # SP
    <3>1. j - i + 1 \in 1 .. k /\ j - i + 1 \in 1 .. n /\ i - 1 + (j - i + 1) = j
      OBVIOUS
    <3>2. q[j - i + 1] = l[i - 1 + (j - i + 1)]
      BY <3>1 DEF IsPart
    <3> QED
      BY <2>1, <3>1, <3>2
  <2>2. ASSUME \A j \in i .. i + k - 1 : l[j] # SP, NEW j \in 1 .. k PROVE q[j] # SP
    <3>1. i - 1 + j \in i .. i + k - 1 /\ j \in 1 .. n
      OBVIOUS
    <3> QED
      BY <2>2, <3>1 DEF IsPart
  <2> QED
    BY <2>1, <2>2
<1>2. k # n => q[k + 1] = l[i + k]
  <2> SUFFICES ASSUME k # n PROVE q[k + 1] = l[i + k]
    OBVIOUS
  <2>1. k + 1 \in 1 .. n /\ i - 1 + (k + 1) = i + k
    OBVIOUS
  <2>2. q[k + 1] = l[i - 1 + (k + 1)]
    BY <2>1 DEF IsPart
  <2> QED
    BY <2>1, <2>2
<1>3. Len(q) = n
  BY DEF IsPart
<1> QED
  BY <1>1, <1>2, <1>3 DEF Word

LEMMA GapInPart ==
    ASSUME NEW l \in Texts, NEW i \in Nat \ {0}, NEW n \in Nat, NEW q, IsPart(q, l, i, n),
           NEW k \in 1 .. n
    PROVE  Gap(q, k) <=> (\A j \in i .. i + k - 2 : l[j] = SP) /\ l[i + k - 1] # SP
<1>1. (\A j \in 1 .. k - 1 : q[j] = SP) <=> \A j \in i .. i + k - 2 : l[j] = SP
  <2>1. ASSUME \A j \in 1 .. k - 1 : q[j] = SP, NEW j \in i .. i + k - 2 PROVE l[j] = SP
    <3>1. j - i + 1 \in 1 .. k - 1 /\ j - i + 1 \in 1 .. n /\ i - 1 + (j - i + 1) = j
      OBVIOUS
    <3>2. q[j - i + 1] = l[i - 1 + (j - i + 1)]
      BY <3>1 DEF IsPart
    <3> QED
      BY <2>1, <3>1, <3>2
  <2>2. ASSUME \A j \in i .. i + k - 2 : l[j] = SP, NEW j \in 1 .. k - 1 PROVE q[j] = SP
    <3>1. i - 1 + j \in i .. i + k - 2 /\ j \in 1 .. n
      OBVIOUS
    <3> QED
      BY <2>2, <3>1 DEF IsPart
  <2> QED
    BY <2>1, <2>2
<1>2. q[k] = l[i + k - 1]
  <2>1. i - 1 + k = i + k - 1
    OBVIOUS
  <2>2. q[k] = l[i - 1 + k]
    BY DEF IsPart
  <2> QED
    BY <2>1, <2>2
<1>3. Len(q) = n
  BY DEF IsPart
<1> QED
  BY <1>1, <1>2, <1>3 DEF Gap

\* A line for which nothing is thrown has this shape.
LEMMA GoodLine ==
    ASSUME NEW l \in Texts, NEW m \in Texts, NEW p \in Texts, RequestLine(l, m, p).answer = "none"
    PROVE  \E a, b, c, d \in Nat :
              /\ Shape(l, a, b, c, d) /\ CheckPath(RequestLine(l, m, p).path) = "none"
              /\ IsPart(RequestLine(l, m, p).method, l, 1, a - 1)
              /\ IsPart(RequestLine(l, m, p).path, l, b, c - b)
<1> DEFINE n     == Len(l)
           mt    == FirstWord(l)
           tail  == Drop(l, Len(mt))
           path1 == Trimmed(tail)
           pt    == FirstWord(path1)
           end   == Drop(path1, Len(pt))
           v     == Trimmed(end)
<1>1. /\ Finds(l, <<SP>>) # {} /\ mt # <<>> /\ NotSpaces(tail) # {} /\ end # <<>>
      /\ CheckPath(pt) = "none" /\ NotSpaces(end) # {} /\ FirstWord(v) = Version
      /\ RequestLine(l, m, p).method = mt /\ RequestLine(l, m, p).path = pt
  BY NothingThrown
<1>2. n \in Nat /\ IsPart(l, l, 1, n)
  BY Spaces DEF IsPart
<1>3. PICK k1 \in 0 .. n : Word(l, k1) /\ mt = Take(l, k1)
  BY FirstWordHas
<1> HIDE DEF n, mt
<1>4. IsPart(mt, l, 1, k1) /\ Len(mt) = k1
  <2>1. IsPart(Take(l, k1), l, 1, k1)
    BY <1>2, DropPart
  <2> QED
    BY <1>3, <2>1 DEF IsPart
<1>5. k1 > 0 /\ k1 < n /\ l[k1 + 1] = SP /\ \A j \in 1 .. k1 : l[j] # SP
  <2>1. k1 # 0
    BY <1>1, <1>4, EmptySeq DEF IsPart, Texts
  <2>2. k1 # n
    BY <1>1, <1>3, Spaces DEF Word, n
  <2> QED
    BY <1>2, <1>3, <2>1, <2>2 DEF Word, n
<1>6. IsPart(tail, l, 1 + k1, n - k1)
  BY <1>2, <1>4, DropPart
<1> HIDE DEF tail
<1>7. PICK k2 \in 1 .. n - k1 : Gap(tail, k2) /\ path1 = Drop(tail, k2 - 1)
  <2>1. tail \in Texts /\ Len(tail) = n - k1
    BY <1>6 DEF IsPart
  <2> QED
    BY <1>1, <2>1, TrimmedHas
<1> DEFINE b == k1 + k2
<1>8. b \in Nat /\ k1 + 1 < b /\ b <= n /\ l[b] # SP /\ \A j \in k1 + 1 .. b - 1 : l[j] = SP
  <2>1. /\ 1 + k1 \in Nat \ {0} /\ n - k1 \in Nat /\ 1 + k1 + k2 - 2 = b - 1 /\ 1 + k1 + k2 - 1 = b
        /\ b \in Nat /\ b <= n
    BY <1>2, <1>5
  <2>2. (\A j \in 1 + k1 .. 1 + k1 + k2 - 2 : l[j] = SP) /\ l[1 + k1 + k2 - 1] # SP
    BY <1>6, <1>7, <2>1, GapInPart
  <2>3. b # k1 + 1
    BY <1>5, <2>1, <2>2
  <2> QED
    BY <2>1, <2>2, <2>3
<1>9. IsPart(path1, l, b, n - b + 1)
  <2>1. /\ 1 + k1 \in Nat \ {0} /\ n - k1 \in Nat /\ k2 - 1 \in 0 .. n - k1
        /\ 1 + k1 + (k2 - 1) = b /\ n - k1 - (k2 - 1) = n - b + 1
    BY <1>2, <1>5
  <2>2. IsPart(Drop(tail, k2 - 1), l, 1 + k1 + (k2 - 1), n - k1 - (k2 - 1))
    BY <1>6, <2>1, DropPart
  <2> QED
    BY <1>7, <2>1, <2>2
<1> HIDE DEF path1, b
<1>10. PICK k3 \in 0 .. n - b + 1 : Word(path1, k3) /\ pt = Take(path1, k3)
  <2>1. path1 \in Texts /\ Len(path1) = n - b + 1
    BY <1>9 DEF IsPart
  <2> QED
    BY <2>1, FirstWordHas
<1> DEFINE c == b + k3
<1> HIDE DEF pt
<1>11. b \in Nat \ {0} /\ n - b + 1 \in Nat
  BY <1>2, <1>5, <1>8
<1>12. IsPart(pt, l, b, k3) /\ Len(pt) = k3 /\ IsPart(end, l, c, n - c + 1)
  <2> DEFINE m1 == n - b + 1
  <2>3. m1 \in Nat /\ k3 \in 0 .. m1 /\ IsPart(path1, l, b, m1)
    BY <1>9, <1>11
  <2> HIDE DEF m1
  <2>4. IsPart(Take(path1, k3), l, b, k3) /\ IsPart(Drop(path1, k3), l, b + k3, m1 - k3)
    BY <1>11, <2>3, DropPart
  <2>1. IsPart(Take(path1, k3), l, b, k3) /\ IsPart(Drop(path1, k3), l, b + k3, m1 - k3)
    BY <2>4
  <2>2. IsPart(pt, l, b, k3) /\ Len(pt) = k3
    BY <1>10, <2>1 DEF IsPart
  <2>5. m1 - k3 = n - c + 1
    BY <1>2, <1>11 DEF m1
  <2>6. IsPart(end, l, c, n - c + 1)
    BY <2>1, <2>2, <2>5
  <2> QED
    BY <2>2, <2>6
<1>13. (\A j \in b .. b + k3 - 1 : l[j] # SP) /\ (k3 = n - b + 1 \/ l[b + k3] = SP)
  BY <1>9, <1>10, <1>11, WordInPart
<1> HIDE DEF end
<1>14. c \in Nat /\ b < c /\ c <= n /\ l[c] = SP /\ \A j \in b .. c - 1 : l[j] # SP
  <2>1. k3 # n - b + 1
    <3>1. Len(end) = n - c + 1 /\ end \in Texts
      BY <1>12 DEF IsPart
    <3>2. k3 = n - b + 1 => n - c + 1 = 0
      BY <1>2, <1>11
    <3> QED
      BY <1>1, <3>1, <3>2, EmptySeq DEF Texts
  <2>2. k3 # 0
    BY <1>8, <1>11, <1>13, <2>1
  <2>3. c \in Nat /\ b < c /\ c <= n
    BY <1>2, <1>11, <2>1, <2>2
  <2>4. l[c] = SP /\ \A j \in b .. c - 1 : l[j] # SP
    <3>1. l[b + k3] = SP /\ \A j \in b .. b + k3 - 1 : l[j] # SP
      BY <1>13, <2>1
    <3>2. b \in Int /\ k3 \in Int
      BY <1>11
    <3>3. c - 1 = b + k3 - 1 /\ c = b + k3
      BY <3>2
    <3> QED
      BY <3>1, <3>3
  <2> QED
    BY <2>3, <2>4
<1>15. IsPart(end, l, c, n - c + 1) /\ n - c + 1 \in Nat /\ c \in Nat \ {0}
  BY <1>2, <1>11, <1>12, <1>14
<1> HIDE DEF c
<1>16. PICK k4 \in 1 .. n - c + 1 : Gap(end, k4) /\ v = Drop(end, k4 - 1)
  <2>1. end \in Texts /\ Len(end) = n - c + 1
    BY <1>15 DEF IsPart
  <2> QED
    BY <1>1, <2>1, TrimmedHas
<1> DEFINE d == c + k4 - 1
<1>17. d \in Nat /\ c < d /\ d <= n /\ l[d] # SP /\ \A j \in c .. d - 1 : l[j] = SP
  <2>1. (\A j \in c .. c + k4 - 2 : l[j] = SP) /\ l[c + k4 - 1] # SP
    BY <1>15, <1>16, GapInPart
  <2>2. c + k4 - 2 = d - 1 /\ d \in Nat /\ d <= n /\ c <= d
    BY <1>2, <1>15
  <2>3. c # d
    BY <1>14, <2>1
  <2> QED
    BY <1>15, <2>1, <2>2, <2>3
<1>18. IsPart(v, l, d, n - d + 1)
  <2>1. k4 - 1 \in 0 .. n - c + 1 /\ c + (k4 - 1) = d /\ n - c + 1 - (k4 - 1) = n - d + 1
    BY <1>2, <1>15
  <2> DEFINE e == k4 - 1
             m1 == n - c + 1
  <2>3. e \in 0 .. m1 /\ m1 \in Nat /\ IsPart(end, l, c, m1)
    BY <1>15, <2>1
  <2> HIDE DEF e, m1
  <2>4. IsPart(Drop(end, e), l, c + e, m1 - e)
    BY <1>15, <2>3, DropPart
  <2>2. e = k4 - 1 /\ c + e = d /\ m1 - e = n - d + 1
    BY <1>2, <1>15 DEF e, m1
  <2> QED
    BY <1>16, <2>2, <2>4
<1> HIDE DEF v, d
<1>19. PICK k5 \in 0 .. n - d + 1 : Word(v, k5) /\ FirstWord(v) = Take(v, k5)
  <2>1. v \in Texts /\ Len(v) = n - d + 1
    BY <1>18 DEF IsPart
  <2> QED
    BY <2>1, FirstWordHas
<1>20. d \in Nat \ {0} /\ n - d + 1 \in Nat
  BY <1>2, <1>15, <1>17
<1>21. k5 = 1 /\ l[d] = "v"
  <2>1. IsPart(Take(v, k5), l, d, k5)
    BY <1>18, <1>19, <1>20, DropPart
  <2>2. Take(v, k5) = <<"v">>
    BY <1>1, <1>19 DEF Version
  <2>3. k5 = 1
    BY <2>1, <2>2 DEF IsPart
  <2>4. Take(v, k5)[1] = l[d - 1 + 1]
    BY <2>1, <2>3 DEF IsPart
  <2> QED
    BY <1>20, <2>2, <2>3, <2>4
<1>22. d = n \/ l[d + 1] = SP
  <2>1. k5 = n - d + 1 \/ l[d + k5] = SP
    BY <1>18, <1>19, <1>20, WordInPart
  <2> QED
    BY <1>2, <1>20, <1>21, <2>1
<1>23. Shape(l, k1 + 1, b, c, d)
  BY <1>5, <1>8, <1>14, <1>17, <1>21, <1>22 DEF Shape, n
<1>24. k1 + 1 \in Nat /\ k1 + 1 - 1 = k1 /\ c - b = k3
  BY <1>11 DEF c
<1> QED
  BY <1>1, <1>4, <1>8, <1>12, <1>14, <1>17, <1>23, <1>24

\* A line of this shape is parsed without a throw, with that method and path.
LEMMA LineGood ==
    ASSUME NEW l \in Texts, NEW m \in Texts, NEW p \in Texts,
           NEW a, NEW b, NEW c, NEW d, Shape(l, a, b, c, d),
           \A q : IsPart(q, l, b, c - b) => CheckPath(q) = "none"
    PROVE  /\ RequestLine(l, m, p).answer = "none"
           /\ IsPart(RequestLine(l, m, p).method, l, 1, a - 1)
           /\ IsPart(RequestLine(l, m, p).path, l, b, c - b)
<1> DEFINE n     == Len(l)
           mt    == FirstWord(l)
           tail  == Drop(l, Len(mt))
           path1 == Trimmed(tail)
           pt    == FirstWord(path1)
           end   == Drop(path1, Len(pt))
           v     == Trimmed(end)
<1>1. n \in Nat /\ IsPart(l, l, 1, n)
  BY Spaces DEF IsPart
<1>2. /\ a \in Nat /\ b \in Nat /\ c \in Nat /\ d \in Nat
      /\ 1 < a /\ a < b /\ b < c /\ c < d /\ d <= n
  BY DEF Shape
<1> HIDE DEF n
<1>3. /\ a - 1 \in 0 .. n /\ b - a + 1 \in 1 .. n - a + 1 /\ c - b \in 0 .. n - b + 1
      /\ d - c + 1 \in 1 .. n - c + 1 /\ 1 \in 0 .. n - d + 1
      /\ n - a + 1 \in Nat /\ n - b + 1 \in Nat /\ n - c + 1 \in Nat /\ n - d + 1 \in Nat
      /\ b - a \in 0 .. n - a + 1 /\ d - c \in 0 .. n - c + 1
  BY <1>1, <1>2
<1>4. mt = Take(l, a - 1) /\ IsPart(mt, l, 1, a - 1) /\ Len(mt) = a - 1 /\ Finds(l, <<SP>>) # {}
  <2>1. Word(l, a - 1)
    <3>1. 1 + (a - 1) - 1 = a - 1 /\ 1 + (a - 1) = a /\ a \in a .. b - 1
      BY <1>2
    <3>2. (\A j \in 1 .. 1 + (a - 1) - 1 : l[j] # SP) /\ l[1 + (a - 1)] = SP
      BY <3>1 DEF Shape
    <3> QED
      BY <1>1, <1>3, <3>2, WordInPart
  <2>2. IsPart(Take(l, a - 1), l, 1, a - 1)
    BY <1>1, <1>3, DropPart
  <2>3. mt = Take(l, a - 1)
    BY <2>1, FirstWordIs
  <2>4. a \in Finds(l, <<SP>>)
    BY <1>2, Spaces DEF Shape, n
  <2> QED
    BY <2>2, <2>3, <2>4 DEF IsPart
<1> HIDE DEF mt
<1>5. IsPart(tail, l, a, n - a + 1)
  <2>1. 1 + (a - 1) = a /\ n - (a - 1) = n - a + 1
    BY <1>1, <1>2
  <2>2. IsPart(Drop(l, a - 1), l, 1 + (a - 1), n - (a - 1))
    BY <1>1, <1>3, DropPart
  <2> QED
    BY <1>4, <2>1, <2>2
<1> HIDE DEF tail
<1>6. NotSpaces(tail) # {} /\ path1 = Drop(tail, b - a)
  <2>1. a + (b - a + 1) - 2 = b - 1 /\ a + (b - a + 1) - 1 = b /\ b \in b .. c - 1 /\ b - a + 1 - 1 = b - a
    BY <1>2
  <2>2. (\A j \in a .. a + (b - a + 1) - 2 : l[j] = SP) /\ l[a + (b - a + 1) - 1] # SP
    BY <2>1 DEF Shape
  <2>3. Gap(tail, b - a + 1)
    BY <1>2, <1>3, <1>5, <2>2, GapInPart
  <2>4. tail \in Texts
    BY <1>5 DEF IsPart
  <2> DEFINE k == b - a + 1
  <2>5. Gap(tail, k)
    BY <2>3
  <2>6. k - 1 = b - a
    BY <1>2
  <2> HIDE DEF k
  <2>7. NotSpaces(tail) # {} /\ Trimmed(tail) = Drop(tail, k - 1)
    BY <2>4, <2>5, TrimmedIs
  <2> QED
    BY <2>6, <2>7 DEF path1
<1> HIDE DEF path1
<1>7. IsPart(path1, l, b, n - b + 1)
  <2> DEFINE e == b - a
             m1 == n - a + 1
  <2>3. e \in 0 .. m1 /\ m1 \in Nat /\ a \in Nat \ {0} /\ IsPart(tail, l, a, m1)
    BY <1>2, <1>3, <1>5
  <2> HIDE DEF e, m1
  <2>4. IsPart(Drop(tail, e), l, a + e, m1 - e)
    BY <2>3, DropPart
  <2>2. e = b - a /\ a + e = b /\ m1 - e = n - b + 1
    BY <1>1, <1>2 DEF e, m1
  <2> QED
    BY <1>6, <2>2, <2>4
<1>8. pt = Take(path1, c - b) /\ IsPart(pt, l, b, c - b) /\ Len(pt) = c - b
  <2>1. b + (c - b) - 1 = c - 1 /\ b + (c - b) = c /\ c \in c .. d - 1
    BY <1>2
  <2>2. (\A j \in b .. b + (c - b) - 1 : l[j] # SP) /\ l[b + (c - b)] = SP
    BY <2>1 DEF Shape
  <2>3. Word(path1, c - b)
    BY <1>2, <1>3, <1>7, <2>2, WordInPart
  <2>4. path1 \in Texts
    BY <1>7 DEF IsPart
  <2>5. pt = Take(path1, c - b)
    BY <2>3, <2>4, FirstWordIs
  <2>6. IsPart(Take(path1, c - b), l, b, c - b)
    BY <1>2, <1>3, <1>7, DropPart
  <2> QED
    BY <2>5, <2>6 DEF IsPart
<1> HIDE DEF pt
<1>9. IsPart(end, l, c, n - c + 1)
  <2> DEFINE e == c - b
             m1 == n - b + 1
  <2>3. e \in 0 .. m1 /\ m1 \in Nat /\ b \in Nat \ {0} /\ IsPart(path1, l, b, m1)
    BY <1>2, <1>3, <1>7
  <2> HIDE DEF e, m1
  <2>4. IsPart(Drop(path1, e), l, b + e, m1 - e)
    BY <2>3, DropPart
  <2>2. e = c - b /\ b + e = c /\ m1 - e = n - c + 1
    BY <1>1, <1>2 DEF e, m1
  <2> QED
    BY <1>8, <2>2, <2>4
<1> HIDE DEF end
<1>10. NotSpaces(end) # {} /\ v = Drop(end, d - c)
  <2>1. c + (d - c + 1) - 2 = d - 1 /\ c + (d - c + 1) - 1 = d /\ d - c + 1 - 1 = d - c
    BY <1>2
  <2>2. (\A j \in c .. c + (d - c + 1) - 2 : l[j] = SP) /\ l[c + (d - c + 1) - 1] # SP
    BY <2>1 DEF Shape, SP
  <2>3. Gap(end, d - c + 1)
    BY <1>2, <1>3, <1>9, <2>2, GapInPart
  <2>4. end \in Texts
    BY <1>9 DEF IsPart
  <2> DEFINE k == d - c + 1
  <2>5. Gap(end, k)
    BY <2>3
  <2>6. k - 1 = d - c
    BY <1>2
  <2> HIDE DEF k
  <2>7. NotSpaces(end) # {} /\ Trimmed(end) = Drop(end, k - 1)
    BY <2>4, <2>5, TrimmedIs
  <2> QED
    BY <2>6, <2>7 DEF v
<1> HIDE DEF v
<1>11. IsPart(v, l, d, n - d + 1)
  <2> DEFINE e == d - c
             m1 == n - c + 1
  <2>3. e \in 0 .. m1 /\ m1 \in Nat /\ c \in Nat \ {0} /\ IsPart(end, l, c, m1)
    BY <1>2, <1>3, <1>9
  <2> HIDE DEF e, m1
  <2>4. IsPart(Drop(end, e), l, c + e, m1 - e)
    BY <2>3, DropPart
  <2>2. e = d - c /\ c + e = d /\ m1 - e = n - d + 1
    BY <1>1, <1>2 DEF e, m1
  <2> QED
    BY <1>10, <2>2, <2>4
<1>12. FirstWord(v) = Version
  <2>1. d + 1 - 1 = d /\ (1 = n - d + 1 <=> d = n)
    BY <1>1, <1>2
  <2>2. (\A j \in d .. d + 1 - 1 : l[j] # SP) /\ (1 = n - d + 1 \/ l[d + 1] = SP)
    BY <1>2, <2>1 DEF Shape, SP, n
  <2>3. Word(v, 1)
    BY <1>2, <1>3, <1>11, <2>2, WordInPart
  <2>4. v \in Texts
    BY <1>11 DEF IsPart
  <2>5. FirstWord(v) = Take(v, 1)
    BY <2>3, <2>4, FirstWordIs
  <2>6. IsPart(Take(v, 1), l, d, 1)
    BY <1>2, <1>3, <1>11, DropPart
  <2> DEFINE w == Take(v, 1)
  <2>7. w \in Seq(STRING) /\ Len(w) = 1 /\ w[1] = l[d - 1 + 1]
    BY <2>6 DEF IsPart, Texts
  <2>8. w[1] = "v"
    BY <1>2, <2>7 DEF Shape
  <2> HIDE DEF w
  <2>9. w = <<"v">>
    BY <2>7, <2>8
  <2> QED
    BY <2>5, <2>9 DEF w, Version
<1>13. mt # <<>> /\ end # <<>>
  <2>1. Len(mt) # 0 /\ Len(end) # 0
    BY <1>2, <1>3, <1>4, <1>9 DEF IsPart
  <2> QED
    BY <2>1
<1>14. RequestLine(l, m, p).answer = "none" /\ RequestLine(l, m, p).method = mt /\ RequestLine(l, m, p).path = pt
  BY <1>4, <1>6, <1>8, <1>10, <1>12, <1>13, NothingThrown DEF mt, tail, path1, pt, end, v
<1> QED
  BY <1>4, <1>8, <1>14

\* Two parts at one place are one text when the wholes agree there.
LEMMA SamePart ==
    ASSUME NEW l, NEW k, NEW i \in Nat \ {0}, NEW n \in Nat, NEW q, NEW r,
           IsPart(q, l, i, n), IsPart(r, k, i, n),
           \A j \in i .. i + n - 1 : l[j] = k[j]
    PROVE  q = r
<1>1. ASSUME NEW j \in 1 .. n PROVE q[j] = r[j]
  <2>1. i - 1 + j \in i .. i + n - 1
    OBVIOUS
  <2> QED
    BY <2>1 DEF IsPart
<1>2. q \in Seq(STRING) /\ r \in Seq(STRING) /\ Len(q) = n /\ Len(r) = n
  BY DEF IsPart, Texts
<1> QED
  BY <1>1, <1>2, SeqEqual

\* A line end has no place in a path.
LEMMA PathHasNoEnd ==
    ASSUME NEW q \in Texts, CheckPath(q) = "none"
    PROVE  \A j \in 1 .. Len(q) : q[j] # CR
<1>1. Range(q) \cap NotInPaths = {}
  BY RequestsAssumption DEF CheckPath, Texts
<1>2. \A j \in 1 .. Len(q) : q[j] \in Range(q)
  BY DEF Range, Texts
<1> QED
  BY <1>1, <1>2 DEF NotInPaths

(***************************************************************************)
(* A line that goes on over the end of the first line is a request line    *)
(* only if the first one is, with the same method and path, or if the end  *)
(* of that line is in its method.                                          *)
(***************************************************************************)
LEMMA FirstLineEnough ==
    ASSUME NEW s \in Texts, NEW e \in Finds(s, CRLF), NEW m \in Texts, NEW p \in Texts,
           RequestLine(Take(s, e - 1), m, p).answer = "none",
           RequestLine(Take(s, e - 1), m, p).method \in Methods
    PROVE  /\ FirstLine(s).answer = "none"
           /\ FirstLine(s).method = RequestLine(Take(s, e - 1), m, p).method
           /\ FirstLine(s).path = RequestLine(Take(s, e - 1), m, p).path
<1> DEFINE f  == FirstEnd(s)
           w  == Take(s, e - 1)
           u  == Take(s, f - 1)
           mw == RequestLine(w, m, p).method
           pw == RequestLine(w, m, p).path
<1>1. s \in Seq(STRING) /\ Len(s) \in Nat /\ <<>> \in Texts
  BY DEF Texts
<1>2. f \in Finds(s, CRLF) /\ \A i \in Finds(s, CRLF) : f <= i
  BY <1>1, FirstFound DEF FirstEnd
<1> HIDE DEF f
<1>3. f \in 1 .. Len(s) /\ e \in 1 .. Len(s) /\ f <= e /\ s[f] = CR
  <2>1. f \in 1 .. Len(s) /\ e \in 1 .. Len(s) /\ IsAt(s, CRLF, f)
    BY <1>1, <1>2 DEF Finds
  <2> QED
    BY <1>2, <2>1, EndOfLine
<1>4. e - 1 \in 0 .. Len(s) /\ f - 1 \in 0 .. Len(s) /\ f - 1 <= e - 1
  BY <1>1, <1>3
<1>5. /\ w \in Texts /\ Len(w) = e - 1 /\ \A i \in 1 .. e - 1 : w[i] = s[i]
      /\ u \in Texts /\ Len(u) = f - 1 /\ \A i \in 1 .. f - 1 : u[i] = s[i]
  BY <1>1, <1>4, TakeType DEF Texts
<1>6. LineTo(s, f) = u
  <2>1. {i \in Finds(s, CRLF) : i < f} = {}
    BY <1>1, <1>2, <1>3, FindsWithin
  <2> QED
    BY <2>1 DEF LineTo, Take
<1> HIDE DEF w, u
<1>7. PICK a, b, c, d \in Nat :
        Shape(w, a, b, c, d) /\ CheckPath(pw) = "none"
        /\ IsPart(mw, w, 1, a - 1) /\ IsPart(pw, w, b, c - b)
  BY <1>5, GoodLine DEF w
<1>8. /\ 1 < a /\ a < b /\ b < c /\ c < d /\ d <= e - 1
      /\ a - 1 \in Nat /\ c - b \in Nat /\ b \in Nat \ {0}
  BY <1>5, <1>7 DEF Shape
<1>9. \A i \in 1 .. a - 1 : w[i] # CR
  <2>1. mw = <<"m">>
    BY DEF Methods, w
  <2> HIDE DEF mw
  <2>2. a - 1 = 1 /\ mw[1] = "m"
    BY <1>7, <2>1 DEF IsPart
  <2>3. mw[1] = w[1]
    BY <1>7, <2>2 DEF IsPart
  <2> QED
    BY <2>2, <2>3 DEF CR
<1> HIDE DEF mw, pw
<1>10. \A i \in b .. c - 1 : w[i] # CR
  <2>1. pw \in Texts /\ Len(pw) = c - b /\ \A j \in 1 .. c - b : pw[j] = w[b - 1 + j]
    BY <1>7 DEF IsPart
  <2>2. \A j \in 1 .. c - b : pw[j] # CR
    BY <1>7, <2>1, PathHasNoEnd
  <2> SUFFICES ASSUME NEW i \in b .. c - 1 PROVE w[i] # CR
    OBVIOUS
  <2>3. i - b + 1 \in 1 .. c - b /\ b - 1 + (i - b + 1) = i
    BY <1>7
  <2>4. pw[i - b + 1] = w[b - 1 + (i - b + 1)] /\ pw[i - b + 1] # CR
    BY <2>1, <2>2, <2>3
  <2> QED
    BY <2>3, <2>4
<1>11. d <= f - 1
  <2> SUFFICES ASSUME f <= d PROVE FALSE
    BY <1>3, <1>7
  <2>1. w[f] = CR /\ f \in 1 .. d
    BY <1>3, <1>5, <1>7, <1>8
  <2>2. \A i \in a .. b - 1 : w[i] = SP
    BY <1>7 DEF Shape
  <2>3. \A i \in c .. d - 1 : w[i] = SP
    BY <1>7 DEF Shape
  <2>4. w[d] = "v"
    BY <1>7 DEF Shape
  <2>5. f \in 1 .. a - 1 \/ f \in a .. b - 1 \/ f \in b .. c - 1 \/ f \in c .. d - 1 \/ f = d
    BY <1>7, <1>8, <2>1
  <2> QED
    BY <1>9, <1>10, <2>1, <2>2, <2>3, <2>4, <2>5 DEF CR, SP
<1>12. \A i \in 1 .. f - 1 : u[i] = w[i]
  BY <1>4, <1>5
<1>13. Shape(u, a, b, c, d)
  <2>1. \A i \in 1 .. d : u[i] = w[i]
    BY <1>3, <1>7, <1>11, <1>12
  <2>2. d = Len(u) \/ u[d + 1] = SP
    <3>1. CASE d = f - 1
      BY <1>5, <3>1
    <3>2. CASE d # f - 1
      <4>1. d + 1 \in 1 .. f - 1 /\ d # e - 1
        BY <1>3, <1>7, <1>11, <3>2
      <4>2. w[d + 1] = SP
        BY <1>5, <1>7, <4>1 DEF Shape
      <4> QED
        BY <1>12, <4>1, <4>2
    <3> QED
      BY <3>1, <3>2
  <2>3. /\ \A i \in 1 .. a - 1 : u[i] # SP
        /\ \A i \in a .. b - 1 : u[i] = SP
    BY <1>7, <1>8, <2>1 DEF Shape
  <2>4. /\ \A i \in b .. c - 1 : u[i] # SP
        /\ \A i \in c .. d - 1 : u[i] = SP
        /\ u[d] = "v"
    BY <1>7, <1>8, <2>1 DEF Shape
  <2> QED
    BY <1>5, <1>7, <1>8, <1>11, <2>2, <2>3, <2>4 DEF Shape
<1>14. \A i \in 1 .. a - 1 : w[i] = u[i]
  BY <1>3, <1>7, <1>8, <1>11, <1>12
<1>15. \A i \in b .. b + (c - b) - 1 : w[i] = u[i]
  BY <1>3, <1>7, <1>8, <1>11, <1>12
<1>16. ASSUME NEW q, IsPart(q, u, b, c - b) PROVE q = pw
  BY <1>7, <1>8, <1>15, <1>16, SamePart
<1>17. /\ RequestLine(u, <<>>, <<>>).answer = "none"
       /\ IsPart(RequestLine(u, <<>>, <<>>).method, u, 1, a - 1)
       /\ IsPart(RequestLine(u, <<>>, <<>>).path, u, b, c - b)
  BY <1>1, <1>5, <1>7, <1>13, <1>16, LineGood
<1>18. RequestLine(u, <<>>, <<>>).method = mw
  <2>1. 1 + (a - 1) - 1 = a - 1
    BY <1>7
  <2>2. \A i \in 1 .. 1 + (a - 1) - 1 : w[i] = u[i]
    BY <1>14, <2>1
  <2> QED
    BY <1>7, <1>8, <1>17, <2>2, SamePart
<1>19. RequestLine(u, <<>>, <<>>).path = pw
  BY <1>16, <1>17
<1>20. FirstLine(s) = RequestLine(u, <<>>, <<>>)
  BY <1>6 DEF FirstLine, f
<1> QED
  BY <1>17, <1>18, <1>19, <1>20 DEF mw, pw, w
-------------------------------------------------------------------------------
(***************************************************************************)
(* The first line, wherever the bytes are cut.  Until it is complete, what *)
(* is kept is the beginning of the stream; from then on method and path    *)
(* are those of a line that ends where some line of the stream ends.       *)
(***************************************************************************)
FirstLineTaken ==
    \E e \in Finds(stream, CRLF) :
        LET r == RequestLine(Take(stream, e - 1), <<>>, <<>>)
        IN  r.answer = "none" /\ method = r.method /\ path = r.path

FirstInv ==
    answer = "none" =>
        /\ pc = "recv" => buffer = <<>>
        /\ index_line = 0 =>
             /\ method = <<>> /\ path = <<>>
             /\ IsPart(rest, stream, 1, Len(rest))
             /\ IsPart(buffer, stream, Len(rest) + 1, Len(buffer))
             /\ Len(rest) + Len(buffer) <= pos
             /\ start_read => pc = "lines" /\ buffer # <<>>
             /\ ~start_read => Len(rest) + Len(buffer) = pos
        /\ index_line # 0 => FirstLineTaken

\* Two parts, one after the other.
LEMMA JoinParts ==
    ASSUME NEW l, NEW i \in Nat \ {0}, NEW n \in Nat, NEW k \in Nat, NEW q, NEW r,
           IsPart(q, l, i, n), IsPart(r, l, i + n, k)
    PROVE  IsPart(q \o r, l, i, n + k)
<1>1. q \in Seq(STRING) /\ r \in Seq(STRING) /\ Len(q) = n /\ Len(r) = k
  BY DEF IsPart, Texts
<1>2. /\ q \o r \in Seq(STRING) /\ Len(q \o r) = n + k
      /\ \A j \in 1 .. n + k : (q \o r)[j] = IF j <= n THEN q[j] ELSE r[j - n]
  BY <1>1, ConcatProperties
<1>3. ASSUME NEW j \in 1 .. n + k PROVE (q \o r)[j] = l[i - 1 + j]
  <2>1. CASE j <= n
    <3>1. j \in 1 .. n
      BY <2>1
    <3> QED
      BY <1>2, <2>1, <3>1 DEF IsPart
  <2>2. CASE ~(j <= n)
    <3>1. j - n \in 1 .. k /\ i + n - 1 + (j - n) = i - 1 + j
      BY <2>2
    <3>2. r[j - n] = l[i + n - 1 + (j - n)]
      BY <3>1 DEF IsPart
    <3> QED
      BY <1>2, <2>2, <3>1, <3>2
  <2> QED
    BY <2>1, <2>2
<1> QED
  BY <1>2, <1>3 DEF IsPart, Texts

\* What a call is given is the next part of the stream.
LEMMA PiecePart ==
    ASSUME TypeOK, NEW n \in 0 .. Len(stream) - pos
    PROVE  IsPart(SubSeq(stream, pos + 1, pos + n), stream, pos + 1, n)
<1>1. pos \in Nat /\ stream \in Texts
  BY RequestsAssumption DEF TypeOK, Texts
<1> DEFINE piece == SubSeq(stream, pos + 1, pos + n)
<1>3. piece \in Texts /\ Len(piece) = n /\ \A i \in 1 .. n : piece[i] = stream[pos + i]
  BY PieceOf
<1> HIDE DEF piece
<1> DEFINE at == pos + 1
<1>4. \A i \in 1 .. n : piece[i] = stream[at - 1 + i]
  <2> SUFFICES ASSUME NEW i \in 1 .. n PROVE piece[i] = stream[at - 1 + i]
    OBVIOUS
  <2>1. at - 1 + i = pos + i
    BY <1>1
  <2> QED
    BY <1>3, <2>1
<1> HIDE DEF at
<1>5. IsPart(piece, stream, at, n)
  BY <1>3, <1>4 DEF IsPart
<1> QED
  BY <1>5 DEF piece, at

\* Its part up to the end of the head.
LEMMA HeadPart ==
    ASSUME NEW piece \in Texts, Finds(piece, Blank) # {}
    PROVE  LET at == Min(Finds(piece, Blank))
           IN  /\ at \in Finds(piece, Blank) /\ at \in 1 .. Len(piece) /\ at + 3 <= Len(piece)
               /\ HeadUpTo(piece, at) = Take(piece, at + 1)
               /\ BodyAfter(piece, at) = Drop(piece, at + 3)
<1> DEFINE at == Min(Finds(piece, Blank))
<1>1. piece \in Seq(STRING) /\ Len(piece) \in Nat
  BY DEF Texts
<1>2. at \in Finds(piece, Blank)
  BY <1>1, FirstFound
<1>3. at \in 1 .. Len(piece) /\ at + Len(Blank) - 1 <= Len(piece)
  BY <1>1, <1>2, FindsWithin
<1>4. Len(CRLF) = 2 /\ Len(Blank) = 4
  BY BlankText DEF CRLF
<1> HIDE DEF at
<1>5. at + Len(CRLF) - 1 = at + 1 /\ at + Len(Blank) - 1 = at + 3
  BY <1>1, <1>3, <1>4
<1> QED
  BY <1>2, <1>3, <1>5 DEF HeadUpTo, BodyAfter, at

\* The line that is complete, by its place.
LEMMA LinePart ==
    ASSUME NEW s \in Texts, NEW d \in Nat, rest \in Texts, buffer \in Texts,
           IsPart(rest, s, d + 1, Len(rest)), IsPart(buffer, s, d + Len(rest) + 1, Len(buffer)),
           d + Len(rest) + Len(buffer) <= Len(s), Finds(buffer, CRLF) # {}
    PROVE  LET at == Min(Finds(buffer, CRLF))
               e  == d + Len(rest) + at
           IN  /\ at \in 1 .. Len(buffer) /\ at + 1 <= Len(buffer)
               /\ e \in Finds(s, CRLF)
               /\ IsPart(WholeLine(Take(buffer, at - 1)), s, d + 1, Len(rest) + at - 1)
               /\ IsPart(Drop(buffer, at + 1), s, e + 2, Len(buffer) - (at + 1))
               /\ \A x \in Finds(s, CRLF) : x > d + Len(rest) => x >= e
<1> DEFINE at == Min(Finds(buffer, CRLF))
           R  == Len(rest)
           N  == Len(buffer)
           e  == d + R + at
<1>1. buffer \in Seq(STRING) /\ s \in Seq(STRING) /\ N \in Nat /\ R \in Nat /\ Len(s) \in Nat
  BY DEF Texts
<1>2. at \in Finds(buffer, CRLF) /\ \A i \in Finds(buffer, CRLF) : at <= i
  BY <1>1, FirstFound
<1> HIDE DEF at
<1>3. at \in 1 .. N /\ at + 1 <= N /\ buffer[at] = CR /\ buffer[at + 1] = LF
  <2>1. at \in 1 .. N /\ IsAt(buffer, CRLF, at)
    BY <1>1, <1>2, FindsWithin DEF Finds
  <2> QED
    BY <2>1, EndOfLine
<1>4. \A j \in 1 .. N : buffer[j] = s[d + R + j]
  <2>1. \A j \in 1 .. N : d + R + 1 - 1 + j = d + R + j
    BY <1>1
  <2> QED
    BY <2>1 DEF IsPart
<1>5. e \in Finds(s, CRLF)
  <2>1. s[e] = CR /\ s[e + 1] = LF
    <3>1. at + 1 \in 1 .. N /\ d + R + (at + 1) = e + 1
      BY <1>1, <1>3
    <3> QED
      BY <1>3, <1>4, <3>1
  <2>2. e \in 1 .. Len(s) /\ e + 1 <= Len(s) /\ e \in Int
    BY <1>1, <1>3
  <2> QED
    BY <1>1, <2>1, <2>2, EndOfLine DEF Finds
<1> HIDE DEF R, N
<1>6. IsPart(WholeLine(Take(buffer, at - 1)), s, d + 1, R + at - 1)
  <2>1. at - 1 \in 0 .. N /\ d + 1 + R = d + R + 1 /\ R + (at - 1) = R + at - 1
        /\ d + 1 \in Nat \ {0} /\ d + R + 1 \in Nat \ {0} /\ at - 1 \in Nat
    BY <1>1, <1>3
  <2>2. IsPart(Take(buffer, at - 1), s, d + R + 1, at - 1)
    BY <1>1, <2>1, DropPart DEF N, R
  <2>3. IsPart(rest \o Take(buffer, at - 1), s, d + 1, R + (at - 1))
    BY <1>1, <2>1, <2>2, JoinParts DEF R
  <2> QED
    BY <2>1, <2>3 DEF WholeLine
<1>7. IsPart(Drop(buffer, at + 1), s, e + 2, N - (at + 1))
  <2>1. at + 1 \in 0 .. N /\ d + R + 1 \in Nat \ {0} /\ d + R + 1 + (at + 1) = e + 2
    BY <1>1, <1>3
  <2>2. IsPart(Drop(buffer, at + 1), s, d + R + 1 + (at + 1), N - (at + 1))
    BY <1>1, <2>1, DropPart DEF N, R
  <2> QED
    BY <2>1, <2>2
<1>8. ASSUME NEW x \in Finds(s, CRLF), x > d + R PROVE x >= e
  <2> SUFFICES ASSUME x < e PROVE FALSE
    BY <1>1, <1>3 DEF Finds
  <2> DEFINE y == x - (d + R)
  <2>1. x \in 1 .. Len(s) /\ IsAt(s, CRLF, x)
    BY <1>1 DEF Finds
  <2>2. s[x] = CR /\ s[x + 1] = LF
    BY <2>1, EndOfLine
  <2>3. /\ y \in 1 .. N /\ y + 1 \in 1 .. N /\ y < at /\ d + R + y = x /\ d + R + (y + 1) = x + 1
    BY <1>1, <1>3, <1>8, <2>1
  <2>4. buffer[y] = CR /\ buffer[y + 1] = LF
    BY <1>4, <2>2, <2>3
  <2>5. y \in Int /\ y + 1 <= N
    BY <2>3
  <2> HIDE DEF y
  <2>6. IsAt(buffer, CRLF, y)
    BY <2>4, <2>5, EndOfLine DEF N
  <2>7. y \in Finds(buffer, CRLF)
    BY <1>1, <2>3, <2>6 DEF Finds, N
  <2> QED
    BY <1>2, <1>3, <2>3, <2>7
<1> QED
  BY <1>3, <1>5, <1>6, <1>7, <1>8 DEF at, R, N

LEMMA FirstInit == Init => FirstInv
<1> SUFFICES ASSUME Init PROVE FirstInv
  OBVIOUS
<1>1. <<>> \in Texts /\ Len(<<>>) = 0
  BY DEF Texts
<1>2. \A i \in Nat : IsPart(<<>>, stream, i, 0)
  BY <1>1 DEF IsPart
<1>3. rest = <<>> /\ buffer = <<>> /\ method = <<>> /\ path = <<>> /\ pos = 0 /\ index_line = 0
      /\ ~start_read /\ pc = "recv"
  BY DEF Init
<1> QED
  BY <1>1, <1>2, <1>3 DEF FirstInv

LEMMA FirstParseRequest == ASSUME Inv, FirstInv, ParseRequest PROVE FirstInv'
<1>1. PICK n \in 0 .. Len(stream) - pos :
        LET piece == SubSeq(stream, pos + 1, pos + n)
            ends  == Finds(piece, Blank)
        IN  /\ pos' = pos + n
            /\ start_read => UNCHANGED <<pc, start_read, buffer>>
            /\ ~start_read =>
                 /\ start_read' = (ends # {})
                 /\ buffer' = IF ends # {} THEN HeadUpTo(piece, Min(ends)) ELSE piece
                 /\ pc' = "lines"
  BY DEF ParseRequest
<1> DEFINE piece == SubSeq(stream, pos + 1, pos + n)
           ends  == Finds(piece, Blank)
<1>2. /\ pc = "recv" /\ answer = "none" /\ buffer = <<>>
      /\ UNCHANGED <<stream, answer, index_line, rest, method, path>>
  BY DEF ParseRequest, fields, FirstInv
<1>3. piece \in Texts /\ Len(piece) = n /\ IsPart(piece, stream, pos + 1, n)
  BY PieceOf, PiecePart DEF Inv
<1>4. pos \in Nat /\ n \in Nat
  BY DEF Inv, TypeOK
<1>5. ends # {} =>
        /\ HeadUpTo(piece, Min(ends)) # <<>>
        /\ IsPart(HeadUpTo(piece, Min(ends)), stream, pos + 1, Len(HeadUpTo(piece, Min(ends))))
        /\ Len(HeadUpTo(piece, Min(ends))) \in 0 .. n
  <2> SUFFICES ASSUME ends # {}
               PROVE  /\ HeadUpTo(piece, Min(ends)) # <<>>
                      /\ IsPart(HeadUpTo(piece, Min(ends)), stream, pos + 1,
                                Len(HeadUpTo(piece, Min(ends))))
                      /\ Len(HeadUpTo(piece, Min(ends))) \in 0 .. n
    OBVIOUS
  <2> DEFINE at == Min(ends)
  <2> HIDE DEF piece
  <2>1. at \in 1 .. Len(piece) /\ at + 3 <= Len(piece) /\ HeadUpTo(piece, at) = Take(piece, at + 1)
    BY <1>3, HeadPart
  <2>2. HeadUpTo(piece, at) # <<>>
    BY <1>3, HeadOfPiece
  <2> HIDE DEF at, ends
  <2>3. at + 1 \in 0 .. n /\ pos + 1 \in Nat \ {0}
    BY <1>3, <1>4, <2>1
  <2>4. stream \in Texts
    BY RequestsAssumption DEF Inv, TypeOK, Texts
  <2>5. IsPart(HeadUpTo(piece, at), stream, pos + 1, at + 1)
    BY <1>3, <1>4, <2>1, <2>3, <2>4, DropPart
  <2>6. Len(HeadUpTo(piece, at)) = at + 1
    BY <2>5 DEF IsPart
  <2> QED
    BY <2>2, <2>3, <2>5, <2>6 DEF at
<1> HIDE DEF piece, ends
<1>6. CASE start_read
  <2>1. index_line # 0 /\ FirstLineTaken
    BY <1>2, <1>6 DEF FirstInv
  <2>2. UNCHANGED <<pc, start_read, buffer>>
    BY <1>1, <1>6
  <2>3. FirstLineTaken'
    BY <1>2, <2>1 DEF FirstLineTaken
  <2> QED
    BY <1>2, <2>1, <2>2, <2>3 DEF FirstInv
<1>7. CASE ~start_read
  <2>1. /\ pos' = pos + n /\ start_read' = (ends # {}) /\ pc' = "lines"
        /\ buffer' = IF ends # {} THEN HeadUpTo(piece, Min(ends)) ELSE piece
    BY <1>1, <1>7 DEF piece, ends
  <2>2. index_line # 0 => FirstLineTaken'
    BY <1>2 DEF FirstInv, FirstLineTaken
  <2>3. ASSUME index_line = 0
        PROVE  /\ IsPart(rest, stream, 1, Len(rest)) /\ Len(rest) = pos
               /\ method = <<>> /\ path = <<>>
    <3>1. IsPart(rest, stream, 1, Len(rest)) /\ Len(rest) + Len(buffer) = pos /\ method = <<>> /\ path = <<>>
      BY <1>2, <1>7, <2>3 DEF FirstInv
    <3>2. Len(buffer) = 0 /\ Len(rest) \in Nat
      BY <1>2 DEF Inv, TypeOK, Texts
    <3> QED
      BY <3>1, <3>2
  <2>4. IsPart(buffer', stream, pos + 1, Len(buffer'))
    BY <1>3, <1>5, <2>1
  <2>5. /\ start_read' => buffer' # <<>>
        /\ ~start_read' => Len(buffer') = n
        /\ Len(buffer') <= n /\ Len(buffer') \in Nat
    <3>1. start_read' <=> ends # {}
      BY <2>1
    <3>2. ends # {} => buffer' # <<>> /\ Len(buffer') \in 0 .. n
      BY <1>5, <2>1
    <3>3. ends = {} => Len(buffer') = n
      BY <1>3, <2>1
    <3> QED
      BY <1>4, <3>1, <3>2, <3>3
  <2> QED
    BY <1>2, <1>4, <2>1, <2>2, <2>3, <2>4, <2>5 DEF FirstInv
<1> QED
  BY <1>6, <1>7

LEMMA FirstParseLine == ASSUME Inv, FirstInv, ParseLine PROVE FirstInv'
<1> DEFINE at   == Min(Finds(buffer, CRLF))
           line == WholeLine(Take(buffer, at - 1))
           left == Drop(buffer, at + 1)
           r    == RequestLine(line, method, path)
           hl   == HeaderLine(line, headers)
           refusal == IF index_line = 0 THEN r.answer ELSE hl.answer
<1>1. /\ method' = IF index_line = 0 THEN r.method ELSE method
      /\ path' = IF index_line = 0 THEN r.path ELSE path
      /\ IF refusal = "none"
         THEN buffer' = left /\ index_line' = index_line + 1 /\ rest' = <<>> /\ UNCHANGED <<pc, answer>>
         ELSE answer' = refusal
      /\ UNCHANGED <<stream, pos, start_read>>
      /\ pc = "lines" /\ answer = "none" /\ Finds(buffer, CRLF) # {}
  BY DEF ParseLine, peerVars, Inv, Kept
<1>2. /\ stream \in Texts /\ Len(stream) \in Nat /\ rest \in Texts /\ buffer \in Texts
      /\ index_line \in Nat /\ Len(rest) \in Nat /\ Len(buffer) \in Nat /\ pos <= Len(stream)
  BY RequestsAssumption DEF Inv, TypeOK, Texts
<1> HIDE DEF at, line, left, r, hl, refusal
<1>3. CASE refusal # "none"
  BY <1>1, <1>3 DEF FirstInv
<1>4. CASE refusal = "none" /\ index_line # 0
  <2>1. FirstLineTaken'
    BY <1>1, <1>4 DEF FirstInv, FirstLineTaken
  <2>2. index_line' # 0 /\ pc' = "lines"
    BY <1>1, <1>2, <1>4
  <2> QED
    BY <2>1, <2>2 DEF FirstInv
<1>5. CASE refusal = "none" /\ index_line = 0
  <2>1. /\ method = <<>> /\ path = <<>> /\ IsPart(rest, stream, 1, Len(rest))
        /\ IsPart(buffer, stream, Len(rest) + 1, Len(buffer))
        /\ Len(rest) + Len(buffer) <= pos
    BY <1>1, <1>5 DEF FirstInv
  <2>2. /\ IsPart(rest, stream, 0 + 1, Len(rest)) /\ IsPart(buffer, stream, 0 + Len(rest) + 1, Len(buffer))
        /\ 0 + Len(rest) + Len(buffer) <= Len(stream)
    BY <1>2, <2>1 DEF Inv, TypeOK
  <2> DEFINE e == 0 + Len(rest) + at
  <2>3. /\ e \in Finds(stream, CRLF) /\ at \in 1 .. Len(buffer)
        /\ IsPart(line, stream, 0 + 1, Len(rest) + at - 1)
    BY <1>1, <1>2, <2>2, LinePart DEF at, line
  <2>4. line = Take(stream, e - 1)
    <3>1. e - 1 \in 0 .. Len(stream) /\ e - 1 = Len(rest) + at - 1 /\ e - 1 \in Nat
      BY <1>2, <2>2, <2>3
    <3> HIDE DEF e
    <3>2. IsPart(stream, stream, 1, Len(stream))
      BY <1>2 DEF IsPart
    <3>3. IsPart(Take(stream, e - 1), stream, 1, e - 1)
      BY <1>2, <3>1, <3>2, DropPart
    <3>4. IsPart(line, stream, 1, e - 1)
      BY <2>3, <3>1
    <3> DEFINE k == e - 1
    <3>5. k \in Nat /\ IsPart(Take(stream, k), stream, 1, k) /\ IsPart(line, stream, 1, k)
      BY <3>1, <3>3, <3>4
    <3> HIDE DEF k
    <3>6. line = Take(stream, k)
      BY <3>5, SamePart
    <3> QED
      BY <3>6 DEF k
  <2>5. r.answer = "none" /\ method' = r.method /\ path' = r.path
    BY <1>1, <1>5 DEF refusal
  <2>6. FirstLineTaken'
    BY <1>1, <2>1, <2>3, <2>4, <2>5 DEF FirstLineTaken, r
  <2>7. index_line' # 0 /\ pc' = "lines"
    BY <1>1, <1>2, <1>5
  <2> QED
    BY <2>6, <2>7 DEF FirstInv
<1> QED
  BY <1>3, <1>4, <1>5

LEMMA FirstLinesDone == ASSUME Inv, FirstInv, LinesDone PROVE FirstInv'
<1>1. /\ pc = "lines" /\ Finds(buffer, CRLF) = {} /\ answer = "none"
      /\ rest' = rest \o buffer /\ buffer' = <<>> /\ pc' = "recv"
      /\ UNCHANGED <<stream, pos, start_read, index_line, method, path>>
  BY DEF LinesDone, Inv, Kept, peerVars, fields
<1>2. rest \in Texts /\ buffer \in Texts /\ Len(rest) \in Nat /\ Len(buffer) \in Nat /\ Len(<<>>) = 0 /\ <<>> \in Texts
  BY DEF Inv, TypeOK, Texts
<1>3. index_line # 0 => FirstLineTaken'
  BY <1>1 DEF FirstInv, FirstLineTaken
<1>4. ASSUME index_line = 0
      PROVE  /\ method' = <<>> /\ path' = <<>> /\ ~start_read'
             /\ IsPart(rest', stream', 1, Len(rest'))
             /\ IsPart(buffer', stream', Len(rest') + 1, Len(buffer'))
             /\ Len(rest') + Len(buffer') = pos'
  <2>1. /\ method = <<>> /\ path = <<>>
        /\ IsPart(rest, stream, 1, Len(rest))
        /\ IsPart(buffer, stream, Len(rest) + 1, Len(buffer))
        /\ start_read => buffer # <<>>
        /\ ~start_read => Len(rest) + Len(buffer) = pos
    BY <1>1, <1>4 DEF FirstInv
  <2>2. ~start_read
    BY <1>1, <1>2, <2>1, NothingLeft DEF Inv, Noticed
  <2>3. IsPart(rest \o buffer, stream, 1, Len(rest) + Len(buffer))
    <3>1. 1 + Len(rest) = Len(rest) + 1
      BY <1>2
    <3> QED
      BY <1>2, <2>1, <3>1, JoinParts
  <2>4. Len(rest \o buffer) = Len(rest) + Len(buffer)
    BY <2>3 DEF IsPart
  <2>5. IsPart(<<>>, stream, Len(rest') + 1, 0)
    BY <1>2 DEF IsPart
  <2>6. Len(rest') + Len(buffer') = pos'
    BY <1>1, <1>2, <2>1, <2>2, <2>4
  <2> QED
    BY <1>1, <1>2, <2>1, <2>2, <2>3, <2>4, <2>5, <2>6
<1>5. pos' \in Nat /\ Len(rest') \in Nat
  <2>1. rest' \in Texts
    BY <1>1, <1>2, ConcatProperties DEF Texts
  <2> QED
    BY <1>1, <2>1 DEF Inv, TypeOK, Texts
<1> QED
  BY <1>1, <1>2, <1>3, <1>4, <1>5 DEF FirstInv

(***************************************************************************)
(* A request that reaches a handler has the method and path of its own     *)
(* first line, wherever recv cuts the bytes, in a separator too            *)
(* (request.cpp:44-89, 106-131).                                           *)
(***************************************************************************)
THEOREM RequestLinesKept == Spec => []RequestLineKept
<1>1. Init => FirstInv
  BY FirstInit
<1>2. Inv /\ FirstInv /\ [Next]_vars => FirstInv'
  <2> SUFFICES ASSUME Inv, FirstInv, [Next]_vars PROVE FirstInv'
    OBVIOUS
  <2>1. CASE UNCHANGED vars
    BY <2>1 DEF FirstInv, FirstLineTaken, vars, peerVars, fields
  <2> QED
    BY <2>1, FirstParseRequest, FirstParseLine, FirstLinesDone DEF Next
<1>3. Inv /\ FirstInv => RequestLineKept
  <2> SUFFICES ASSUME Inv, FirstInv, Dispatched, method \in Methods
               PROVE  LET r == FirstLine(stream)
                      IN  r.answer = "none" /\ method = r.method /\ path = r.path
    BY DEF RequestLineKept
  <2>1. FirstLineTaken
    BY DEF FirstInv, Dispatched
  <2>2. PICK e \in Finds(stream, CRLF) :
          LET r == RequestLine(Take(stream, e - 1), <<>>, <<>>)
          IN  r.answer = "none" /\ method = r.method /\ path = r.path
    BY <2>1 DEF FirstLineTaken
  <2>3. stream \in Texts /\ <<>> \in Texts
    BY RequestsAssumption DEF Inv, TypeOK, Texts
  <2> QED
    BY <2>2, <2>3, FirstLineEnough
<1> QED
  BY <1>1, <1>2, <1>3, Invariance, PTL DEF Spec
-------------------------------------------------------------------------------
(***************************************************************************)
(* What the sender means, line by line.                                    *)
(***************************************************************************)

\* A part of a text by its places.
LEMMA SubPart ==
    ASSUME NEW s \in Texts, NEW i \in Nat, NEW n \in Nat, i + n <= Len(s)
    PROVE  IsPart(SubSeq(s, i + 1, i + n), s, i + 1, n)
<1>1. s \in Seq(STRING) /\ Len(s) \in Nat
  BY DEF Texts
<1> DEFINE lo == i + 1
           hi == i + n
           q  == SubSeq(s, lo, hi)
<1>2. /\ lo \in Int /\ hi \in Int /\ hi - lo + 1 = n /\ (lo <= hi \/ n = 0)
      /\ \A j \in lo .. hi : j \in 1 .. Len(s)
  BY <1>1
<1>3. \A j \in lo .. hi : s[j] \in STRING
  BY <1>1, <1>2, ElementOfSeq
<1> HIDE DEF lo, hi
<1>4. /\ q \in Seq(STRING)
      /\ Len(q) = IF lo <= hi THEN hi - lo + 1 ELSE 0
      /\ \A j \in 1 .. hi - lo + 1 : q[j] = s[lo + j - 1]
  BY <1>2, <1>3, SubSeqProperties
<1> HIDE DEF q
<1>5. Len(q) = n
  BY <1>2, <1>4
<1>6. \A j \in 1 .. n : lo + j - 1 = lo - 1 + j
  BY <1>2
<1>7. \A j \in 1 .. n : q[j] = s[lo - 1 + j]
  BY <1>2, <1>4, <1>6
<1>8. IsPart(q, s, lo, n)
  BY <1>4, <1>5, <1>7 DEF IsPart, Texts
<1> QED
  BY <1>8 DEF q, lo, hi

\* The places where lines end.
LEMMA EndAt ==
    ASSUME NEW s \in Texts, NEW e
    PROVE  e \in Finds(s, CRLF) <=>
             e \in Nat \ {0} /\ e + 1 <= Len(s) /\ s[e] = CR /\ s[e + 1] = LF
<1>1. s \in Seq(STRING) /\ Len(s) \in Nat /\ DOMAIN s = 1 .. Len(s)
  BY DEF Texts
<1>2. ASSUME e \in Finds(s, CRLF)
      PROVE  e \in Nat \ {0} /\ e + 1 <= Len(s) /\ s[e] = CR /\ s[e + 1] = LF
  BY <1>1, <1>2, EndOfLine DEF Finds
<1>3. ASSUME e \in Nat \ {0}, e + 1 <= Len(s), s[e] = CR, s[e + 1] = LF
      PROVE  e \in Finds(s, CRLF)
  BY <1>1, <1>3, EndOfLine DEF Finds
<1> QED
  BY <1>2, <1>3

LEMMA BlankIsTwoEnds ==
    ASSUME NEW s \in Texts, Complete(s)
    PROVE  LET h == Min(Finds(s, Blank))
           IN  /\ h \in Finds(s, Blank) /\ h \in Nat \ {0} /\ h + 3 <= Len(s)
               /\ \A x \in Finds(s, Blank) : h <= x
               /\ HeadLen(s) = h + 1
               /\ h \in Finds(s, CRLF) /\ h \in Ends(s)
               /\ FirstEnd(s) \in Ends(s) /\ \A e \in Finds(s, CRLF) : FirstEnd(s) <= e
               /\ Ends(s) \subseteq Finds(s, CRLF) /\ Ends(s) \subseteq 0 .. Len(s)
<1> DEFINE h == Min(Finds(s, Blank))
<1>1. s \in Seq(STRING) /\ Len(s) \in Nat /\ DOMAIN s = 1 .. Len(s)
  BY DEF Texts
<1>2. h \in Finds(s, Blank) /\ \A x \in Finds(s, Blank) : h <= x
  BY <1>1, FirstFound DEF Complete
<1>3. Ends(s) = {e \in Finds(s, CRLF) : e <= h} /\ HeadLen(s) = h + 1
  BY DEF Ends, HeadLen
<1> HIDE DEF h
<1>4. h \in 1 .. Len(s) /\ IsAt(s, Blank, h)
  BY <1>1, <1>2 DEF Finds
<1>5. h + 3 <= Len(s) /\ s[h] = CR /\ s[h + 1] = LF
  BY <1>4, BlankAt
<1>6. h \in Finds(s, CRLF)
  BY <1>1, <1>4, <1>5, EndAt
<1>7. /\ FirstEnd(s) \in Finds(s, CRLF) /\ FirstEnd(s) <= h
      /\ \A e \in Finds(s, CRLF) : FirstEnd(s) <= e
  BY <1>1, <1>6, FirstFound DEF FirstEnd
<1>8. Finds(s, CRLF) \subseteq 0 .. Len(s)
  BY <1>1 DEF Finds
<1> QED
  BY <1>1, <1>2, <1>3, <1>4, <1>5, <1>6, <1>7, <1>8 DEF h

LinesBefore(s, d) == {e \in Finds(s, CRLF) : e < d}

\* The line that begins after d and ends before e.
LEMMA LineIs ==
    ASSUME NEW s \in Texts, NEW d \in Nat, d # 0 => d - 1 \in Finds(s, CRLF),
           NEW e \in Finds(s, CRLF), e > d, \A x \in Finds(s, CRLF) : x > d => x >= e
    PROVE  /\ IsPart(LineTo(s, e), s, d + 1, e - 1 - d)
           /\ e = FirstEnd(s) <=> d = 0
           /\ LinesBefore(s, e + 1) = LinesBefore(s, d) \cup {e}
<1>1. /\ e \in Nat \ {0} /\ e + 1 <= Len(s) /\ s[e] = CR /\ s[e + 1] = LF /\ Len(s) \in Nat
      /\ s \in Seq(STRING)
  BY EndAt DEF Texts
<1>2. d # 0 => s[d] = LF /\ d - 1 \in Nat \ {0}
  <2> SUFFICES ASSUME d # 0 PROVE s[d] = LF /\ d - 1 \in Nat \ {0}
    OBVIOUS
  <2> DEFINE y == d - 1
  <2>1. y \in Finds(s, CRLF) /\ y + 1 = d
    OBVIOUS
  <2> HIDE DEF y
  <2>2. y \in Nat \ {0} /\ s[y + 1] = LF
    BY <2>1, EndAt
  <2> QED
    BY <2>1, <2>2 DEF y
<1>3. \A x \in Finds(s, CRLF) : x \in Nat \ {0} /\ s[x] = CR /\ x # d /\ x # e + 1
  BY <1>1, <1>2, EndAt DEF CR, LF
<1>4. \A x \in Finds(s, CRLF) : x < d \/ x >= e
  BY <1>1, <1>3
<1> DEFINE before == {i \in Finds(s, CRLF) : i < e}
<1>5. before = LinesBefore(s, d)
  <2> SUFFICES ASSUME NEW x \in Finds(s, CRLF) PROVE x < e <=> x < d
    BY DEF LinesBefore
  <2>1. x \in Nat /\ (x < d \/ x >= e)
    BY <1>3, <1>4
  <2> QED
    BY <1>1, <2>1
<1>6. LineTo(s, e) = SubSeq(s, d + 1, e - 1)
  <2>1. LineTo(s, e) = SubSeq(s, IF before = {} THEN 1 ELSE Max(before) + 2, e - 1)
    BY DEF LineTo
  <2> HIDE DEF before
  <2>2. CASE d = 0
    <3>1. before = {}
      BY <1>3, <1>5, <2>2 DEF LinesBefore
    <3> QED
      BY <2>1, <2>2, <3>1
  <2>3. CASE d # 0
    <3>1. d - 1 \in before
      BY <1>5, <2>3 DEF LinesBefore
    <3>2. before \subseteq 0 .. Len(s)
      BY <1>1, <1>5 DEF LinesBefore, Finds
    <3>3. Max(before) \in before /\ \A y \in before : y <= Max(before)
      BY <1>1, <3>1, <3>2, MaxNat
    <3>4. \A y \in before : y <= d - 1
      BY <1>3, <1>5 DEF LinesBefore
    <3>5. Max(before) \in Nat
      <4>1. \A y \in before : y \in Nat
        BY <3>2
      <4> QED
        BY <3>3, <4>1
    <3>6. Max(before) + 2 = d + 1
      BY <3>1, <3>3, <3>4, <3>5
    <3> QED
      BY <2>1, <3>1, <3>6
  <2> QED
    BY <2>2, <2>3
<1>7. IsPart(LineTo(s, e), s, d + 1, e - 1 - d)
  <2> DEFINE n == e - 1 - d
  <2>1. n \in Nat /\ d + n <= Len(s) /\ d + n = e - 1
    BY <1>1
  <2> HIDE DEF n
  <2>2. IsPart(SubSeq(s, d + 1, d + n), s, d + 1, n)
    BY <2>1, SubPart
  <2> QED
    BY <1>6, <2>1, <2>2 DEF n
<1>8. e = FirstEnd(s) <=> d = 0
  <2>1. FirstEnd(s) \in Finds(s, CRLF) /\ \A x \in Finds(s, CRLF) : FirstEnd(s) <= x
    BY <1>1, FirstFound DEF FirstEnd
  <2> DEFINE f == FirstEnd(s)
  <2> HIDE DEF f
  <2>4. f \in Nat \ {0} /\ f <= e /\ (f < d \/ f >= e)
    BY <1>3, <1>4, <2>1 DEF f
  <2>5. d = 0 => f = e
    BY <1>1, <2>4
  <2>2. d = 0 => FirstEnd(s) = e
    BY <2>5 DEF f
  <2>3. d # 0 => FirstEnd(s) # e
    BY <1>1, <2>1
  <2> QED
    BY <2>2, <2>3
<1>9. LinesBefore(s, e + 1) = LinesBefore(s, d) \cup {e}
  <2> SUFFICES ASSUME NEW x \in Finds(s, CRLF) PROVE x < e + 1 <=> x < d \/ x = e
    BY DEF LinesBefore
  <2>1. x \in Nat /\ (x < d \/ x >= e) /\ x # e + 1
    BY <1>3, <1>4
  <2> QED
    BY <1>1, <2>1
<1> QED
  BY <1>7, <1>8, <1>9

\* A header line and the headers before it.
With(hs, key, value) ==
    [k \in DOMAIN hs \cup {key} |-> IF k = key THEN value ELSE hs[k]]

LEMMA OneHeader ==
    ASSUME NEW l \in Texts, HeaderLine(l, <<>>).answer = "none"
    PROVE  \E key, value :
             /\ DOMAIN HeaderLine(l, <<>>).headers = {key}
             /\ HeaderLine(l, <<>>).headers[key] = value
             /\ \A hs : HeaderLine(l, hs).headers = With(hs, key, value)
<1> DEFINE found == Finds(l, Colon)
           key   == Take(l, Min(found) - 1)
           value == Drop(l, Min(found) + 1)
<1>1. ~(found = {} \/ key = <<>> \/ value = <<>>)
  BY DEF HeaderLine
<1>2. ASSUME NEW h PROVE HeaderLine(l, h).headers = With(h, key, value)
  BY <1>1 DEF HeaderLine, With
<1>3. HeaderLine(l, <<>>).headers = With(<<>>, key, value)
  BY <1>2
<1> HIDE DEF key, value
<1>4. DOMAIN With(<<>>, key, value) = {key} /\ With(<<>>, key, value)[key] = value
  BY DEF With
<1> QED
  BY <1>2, <1>3, <1>4

LEMMA NoHeaders == ASSUME NEW s PROVE HeadersOf(s, {}) = <<>>
<1> DEFINE names == UNION {DOMAIN Header(s, e).headers : e \in {}}
           val(k) == Header(s, Max(Naming(s, {}, k))).headers[k]
<1>1. names = {}
  OBVIOUS
<1> HIDE DEF names, val
<1>2. [k \in names |-> val(k)] = <<>>
  BY <1>1, SMT
<1> QED
  BY <1>2 DEF HeadersOf, names, val

LEMMA MoreHeaders ==
    ASSUME NEW s \in Texts, NEW E, E \subseteq Finds(s, CRLF), NEW e \in Finds(s, CRLF),
           LineTo(s, e) \in Texts,
           \A x \in E : x < e, Header(s, e).answer = "none"
    PROVE  HeadersOf(s, E \cup {e}) = HeaderLine(LineTo(s, e), HeadersOf(s, E)).headers
<1> DEFINE hs == HeadersOf(s, E)
           F  == E \cup {e}
           own == Header(s, e).headers
<1>1. PICK key, value :
        /\ DOMAIN own = {key} /\ own[key] = value
        /\ \A h : HeaderLine(LineTo(s, e), h).headers = With(h, key, value)
  BY OneHeader DEF Header
<1>9. HeaderLine(LineTo(s, e), hs).headers = With(hs, key, value)
  BY <1>1
<1> DEFINE names(G) == UNION {DOMAIN Header(s, x).headers : x \in G}
           val(G, k) == Header(s, Max(Naming(s, G, k))).headers[k]
<1>2. \A G : HeadersOf(s, G) = [k \in names(G) |-> val(G, k)]
  BY DEF HeadersOf
<1>3. names(F) = names(E) \cup {key}
  BY <1>1
<1>4. val(F, key) = own[key]
  <2>1. e \in Naming(s, F, key) /\ Naming(s, F, key) \subseteq F
    BY <1>1 DEF Naming
  <2>2. F \subseteq 0 .. Len(s) /\ e \in Nat /\ Len(s) \in Nat
    BY DEF Finds, Texts
  <2>3. /\ Max(Naming(s, F, key)) \in Naming(s, F, key)
        /\ \A y \in Naming(s, F, key) : y <= Max(Naming(s, F, key))
    BY <2>1, <2>2, MaxNat
  <2>4. Max(Naming(s, F, key)) \in F /\ e <= Max(Naming(s, F, key))
    BY <2>1, <2>3
  <2> DEFINE f == Max(Naming(s, F, key))
  <2> HIDE DEF f
  <2>7. \A x \in F : x \in Nat
    BY <2>2
  <2>5. f \in F /\ e <= f /\ f \in Nat
    BY <2>4, <2>7 DEF f
  <2>6. f = e
    BY <2>2, <2>5
  <2> QED
    BY <2>6 DEF f
<1>5. ASSUME NEW k, k # key PROVE val(F, k) = val(E, k)
  <2>1. Naming(s, F, k) = Naming(s, E, k)
    BY <1>1, <1>5 DEF Naming
  <2> QED
    BY <2>1
<1> HIDE DEF val, names, own
<1>6. [k \in names(F) |-> val(F, k)] =
        [k \in names(E) \cup {key} |-> IF k = key THEN value ELSE val(E, k)]
  BY <1>1, <1>3, <1>4, <1>5
<1>7. DOMAIN hs = names(E) /\ \A k \in names(E) : hs[k] = val(E, k)
  BY <1>2 DEF hs
<1>8. HeadersOf(s, F) = [k \in names(F) |-> val(F, k)]
  BY <1>2
<1> HIDE DEF hs, F
<1>10. With(hs, key, value) =
         [k \in names(E) \cup {key} |-> IF k = key THEN value ELSE val(E, k)]
  BY <1>7 DEF With
<1> QED
  BY <1>6, <1>8, <1>9, <1>10 DEF hs, F

\* The first thing that is wrong with the lines.
LEMMA FaultFirst ==
    ASSUME NEW s \in Texts, Complete(s), NEW e \in Ends(s), Fault(s, e) # "none",
           \A x \in Ends(s) : x < e => Fault(s, x) = "none"
    PROVE  FaultOf(s) = Fault(s, e)
<1> DEFINE bad == {x \in Ends(s) : Fault(s, x) # "none"}
<1>1. e \in bad /\ bad \subseteq Nat
  BY BlankIsTwoEnds
<1>2. Min(bad) \in bad /\ \A y \in bad : Min(bad) <= y
  <2> HIDE DEF bad
  <2> QED
    BY <1>1, MinNat
<1>3. Min(bad) = e
  <2> DEFINE f == Min(bad)
  <2>1. f \in Ends(s) /\ ~(f < e) /\ f \in Nat /\ f <= e /\ e \in Nat
    BY <1>1, <1>2
  <2> HIDE DEF f
  <2>2. f = e
    BY <2>1
  <2> QED
    BY <2>2 DEF f
<1> QED
  BY <1>1, <1>3 DEF FaultOf

LEMMA FaultNone ==
    ASSUME NEW s, \A x \in Ends(s) : Fault(s, x) = "none"
    PROVE  FaultOf(s) = "none"
BY DEF FaultOf
-------------------------------------------------------------------------------
(***************************************************************************)
(* The whole head.  While no separator has been cut, the text is divided   *)
(* at some d: the lines before it are parsed, and rest and buffer are what *)
(* comes next, with no end of a line that begins in rest.                  *)
(***************************************************************************)
Place(d) ==
    /\ d = 0 <=> index_line = 0
    /\ d # 0 => d - 1 \in Ends(stream)
    /\ IsPart(rest, stream, d + 1, Len(rest))
    /\ IsPart(buffer, stream, d + Len(rest) + 1, Len(buffer))
    /\ d + Len(rest) + Len(buffer) = IF start_read THEN HeadLen(stream) ELSE pos
    /\ \A e \in Finds(stream, CRLF) : e > d => e > d + Len(rest)

Parsed(d) ==
    /\ \A e \in LinesBefore(stream, d) : Fault(stream, e) = "none"
    /\ d # 0 => method = FirstLine(stream).method /\ path = FirstLine(stream).path
    /\ headers = HeadersOf(stream, LinesBefore(stream, d) \ {FirstEnd(stream)})

\* What follows the head is waiting in body, or was given to the handler.
Handed ==
    /\ ~start_read \/ pc = "lines" => given = <<>>
    /\ start_read =>
         /\ pos >= HeadLen(stream) + 2
         /\ (IF pc = "lines" THEN body ELSE given) = SubSeq(stream, HeadLen(stream) + 3, pos)

Refused == answer = FaultOf(stream) \/ (answer = "400" /\ HasLongLine(stream))

MeantInv ==
    Complete(stream) /\ ~Cut =>
        IF answer = "none"
        THEN /\ \E d \in Nat : Place(d) /\ Parsed(d)
             /\ ~start_read /\ pc = "lines" => ~EndsInLine(pos)
             /\ Handed
        ELSE Refused

LEMMA MeantInit == Init => MeantInv
<1> SUFFICES ASSUME Init, Complete(stream) PROVE answer = "none" /\ Place(0) /\ Parsed(0) /\ Handed
  BY DEF MeantInv, Init
<1>1. <<>> \in Texts /\ Len(<<>>) = 0 /\ stream \in Texts
  BY RequestsAssumption DEF Init, Texts
<1>2. \A i \in Nat : IsPart(<<>>, stream, i, 0)
  BY <1>1 DEF IsPart
<1>3. \A e \in Finds(stream, CRLF) : e \in Nat \ {0}
  BY <1>1, EndAt
<1>4. LinesBefore(stream, 0) = {}
  BY <1>3 DEF LinesBefore
<1>5. Place(0)
  BY <1>1, <1>2, <1>3 DEF Init, Place
<1>6. Parsed(0)
  <2>1. LinesBefore(stream, 0) \ {FirstEnd(stream)} = {}
    BY <1>4
  <2> QED
    BY <1>4, <2>1, NoHeaders DEF Init, Parsed
<1>7. answer = "none" /\ Handed
  BY DEF Init, Handed
<1> QED
  BY <1>5, <1>6, <1>7

\* The first blank line is where the piece has its first one.
LEMMA BlankFound ==
    ASSUME Inv, Complete(stream), ~start_read, ~blankCut, NEW n \in 0 .. Len(stream) - pos,
           Finds(SubSeq(stream, pos + 1, pos + n), Blank) # {}
    PROVE  pos + Min(Finds(SubSeq(stream, pos + 1, pos + n), Blank)) = Min(Finds(stream, Blank))
<1> DEFINE piece == SubSeq(stream, pos + 1, pos + n)
           at    == Min(Finds(piece, Blank))
           h     == Min(Finds(stream, Blank))
<1>1. piece \in Texts /\ Len(piece) = n /\ \A i \in 1 .. n : piece[i] = stream[pos + i]
  BY PieceOf DEF Inv
<1>2. stream \in Texts /\ Len(stream) \in Nat /\ pos \in Nat /\ pos + n <= Len(stream) /\ n \in Nat
  BY RequestsAssumption DEF Inv, TypeOK, Texts
<1>3. h \in Finds(stream, Blank) /\ h \in Nat /\ \A x \in Finds(stream, Blank) : h <= x
  BY <1>2, BlankIsTwoEnds
<1>4. pos < h
  BY <1>3 DEF Inv, Noticed
<1> HIDE DEF piece, h
<1>5. at \in Finds(piece, Blank) /\ \A x \in Finds(piece, Blank) : at <= x
  <2>1. piece \in Seq(STRING) /\ Finds(piece, Blank) # {}
    BY <1>1 DEF Texts, piece
  <2> QED
    BY <2>1, FirstFound
<1>6. at \in 1 .. n /\ at + 3 <= n
  BY <1>1, HeadPart DEF piece
<1> HIDE DEF at
<1>7. pos + at \in Finds(stream, Blank)
  <2>1. IsAt(piece, Blank, at)
    BY <1>5 DEF Finds
  <2>2. piece[at] = CR /\ piece[at + 1] = LF /\ piece[at + 2] = CR /\ piece[at + 3] = LF
    BY <1>6, <2>1, BlankAt
  <2>3. /\ at + 1 \in 1 .. n /\ at + 2 \in 1 .. n /\ at + 3 \in 1 .. n
        /\ pos + (at + 1) = pos + at + 1 /\ pos + (at + 2) = pos + at + 2
        /\ pos + (at + 3) = pos + at + 3
    BY <1>2, <1>6
  <2>4. /\ stream[pos + at] = CR /\ stream[pos + at + 1] = LF
        /\ stream[pos + at + 2] = CR /\ stream[pos + at + 3] = LF
    BY <1>1, <1>6, <2>2, <2>3
  <2>5. pos + at \in 1 .. Len(stream) /\ pos + at + 3 <= Len(stream) /\ pos + at \in Int
    BY <1>2, <1>6
  <2>6. IsAt(stream, Blank, pos + at)
    BY <2>4, <2>5, BlankAt
  <2>7. DOMAIN stream = 1 .. Len(stream)
    BY <1>2 DEF Texts
  <2> QED
    BY <2>5, <2>6, <2>7 DEF Finds
<1>8. h <= pos + at
  BY <1>3, <1>7
<1>9. h - pos \in Finds(piece, Blank)
  <2>1. h + 3 <= pos + n
    BY <1>2, <1>3, <1>6, <1>8
  <2> QED
    BY <1>3, <1>4, <2>1, BlankInPiece DEF Inv, piece
<1>10. at <= h - pos
  BY <1>5, <1>9
<1> QED
  BY <1>2, <1>3, <1>6, <1>8, <1>10 DEF piece, at, h

LEMMA MeantParseRequest == ASSUME Inv, FirstInv, MeantInv, ParseRequest PROVE MeantInv'
<1> SUFFICES ASSUME Complete(stream), ~Cut'
             PROVE  /\ answer' = "none"
                    /\ (\E d \in Nat : Place(d) /\ Parsed(d))'
                    /\ ~start_read' /\ pc' = "lines" => ~EndsInLine(pos)'
                    /\ Handed'
  BY DEF MeantInv, ParseRequest
<1>1. PICK n \in 0 .. Len(stream) - pos :
        LET piece == SubSeq(stream, pos + 1, pos + n)
            ends  == Finds(piece, Blank)
        IN  /\ pos' = pos + n
            /\ start_read =>
                 /\ body' = piece /\ given' = given \o piece
                 /\ UNCHANGED <<pc, start_read, buffer, lineCut, blankCut>>
            /\ ~start_read =>
                 /\ start_read' = (ends # {})
                 /\ body' = IF ends # {} THEN BodyAfter(piece, Min(ends)) ELSE body
                 /\ buffer' = IF ends # {} THEN HeadUpTo(piece, Min(ends)) ELSE piece
                 /\ pc' = "lines"
                 /\ lineCut' = (lineCut \/ (ends = {} /\ EndsInLine(pos + n)))
                 /\ blankCut' = (blankCut \/ (ends = {} /\ EndsInBlank(pos + n)))
                 /\ UNCHANGED given
  BY DEF ParseRequest
<1> DEFINE piece == SubSeq(stream, pos + 1, pos + n)
           ends  == Finds(piece, Blank)
           H     == HeadLen(stream)
<1>2. /\ pc = "recv" /\ answer = "none" /\ buffer = <<>> /\ Len(buffer) = 0
      /\ UNCHANGED <<stream, answer, index_line, rest, method, path, headers>>
  BY DEF ParseRequest, fields, FirstInv
<1>3. piece \in Texts /\ Len(piece) = n /\ IsPart(piece, stream, pos + 1, n)
  BY PieceOf, PiecePart DEF Inv
<1>4. /\ pos \in Nat /\ n \in Nat /\ stream \in Texts /\ Len(stream) \in Nat /\ pos + n <= Len(stream)
      /\ Len(rest) \in Nat
  BY RequestsAssumption DEF Inv, TypeOK, Texts
<1>5. ~Cut
  BY <1>1 DEF Cut
<1>6. PICK d \in Nat : Place(d) /\ Parsed(d)
  BY <1>2, <1>5 DEF MeantInv
<1>7. Parsed(d)'
  BY <1>2, <1>6 DEF Parsed
<1>8. Handed
  BY <1>2, <1>5 DEF MeantInv
<1>9. H \in Nat /\ H >= 2 /\ H = Min(Finds(stream, Blank)) + 1
  BY <1>4, BlankIsTwoEnds
<1> HIDE DEF piece, ends, H
<1>10. CASE start_read
  <2>1. /\ body' = piece /\ given' = given \o piece /\ pos' = pos + n
        /\ UNCHANGED <<pc, start_read, buffer>>
    BY <1>1, <1>10 DEF piece
  <2>2. Place(d)'
    BY <1>2, <1>6, <1>10, <2>1 DEF Place
  <2>3. pos >= H + 2 /\ given = SubSeq(stream, H + 3, pos)
    BY <1>2, <1>8, <1>10 DEF Handed, H
  <2>4. given \o piece = SubSeq(stream, H + 3, pos + n)
    <3> DEFINE i == H + 2
               k == pos - i
    <3>1. /\ i \in Nat /\ k \in Nat /\ i + 1 = H + 3 /\ i + k = pos /\ i + 1 + k = pos + 1
          /\ k + n \in Nat /\ i + (k + n) = pos + n /\ i + 1 \in Nat \ {0}
      <4>1. H \in Nat /\ pos \in Nat /\ n \in Nat /\ pos >= H + 2
        BY <1>4, <1>9, <2>3
      <4> QED
        BY ONLY <4>1
    <3> HIDE DEF i, k
    <3>2. IsPart(SubSeq(stream, i + 1, i + k), stream, i + 1, k)
      BY <1>4, <3>1, SubPart
    <3>3. IsPart(given, stream, i + 1, k)
      BY <2>3, <3>1, <3>2
    <3>4. IsPart(given \o piece, stream, i + 1, k + n)
      BY <1>3, <1>4, <3>1, <3>3, JoinParts
    <3>5. IsPart(SubSeq(stream, i + 1, i + (k + n)), stream, i + 1, k + n)
      BY <1>4, <3>1, SubPart
    <3>6. given \o piece = SubSeq(stream, i + 1, i + (k + n))
      BY <3>1, <3>4, <3>5, SamePart
    <3> QED
      BY <3>1, <3>6
  <2>5. Handed'
    <3>1. pos' >= H + 2 /\ H = H'
      BY <1>2, <1>4, <1>9, <2>1, <2>3 DEF H
    <3>2. pc' = "recv" /\ given' = SubSeq(stream', H + 3, pos')
      BY <1>2, <2>1, <2>4
    <3> QED
      BY <1>10, <2>1, <3>1, <3>2 DEF Handed, H
  <2> QED
    BY <1>2, <1>7, <1>10, <2>1, <2>2, <2>5
<1>11. CASE ~start_read
  <2>1. /\ pos' = pos + n /\ pc' = "lines" /\ given' = given
        /\ start_read' <=> ends # {}
        /\ body' = IF ends # {} THEN BodyAfter(piece, Min(ends)) ELSE body
        /\ buffer' = IF ends # {} THEN HeadUpTo(piece, Min(ends)) ELSE piece
        /\ ends = {} => ~EndsInLine(pos + n)
    BY <1>1, <1>11 DEF piece, ends, Cut
  <2>2. given = <<>>
    BY <1>8, <1>11 DEF Handed
  <2>3. d + Len(rest) = pos
    BY <1>2, <1>4, <1>6, <1>11 DEF Place
  <2>4. CASE ends = {}
    <3>1. IsPart(buffer', stream, d + Len(rest) + 1, Len(buffer')) /\ Len(buffer') = n
      BY <1>3, <2>1, <2>3, <2>4
    <3>2. d + Len(rest) + Len(buffer') = pos'
      BY <2>1, <2>3, <3>1
    <3>3. Place(d)'
      BY <1>2, <1>6, <2>1, <2>4, <3>1, <3>2 DEF Place
    <3>4. ~EndsInLine(pos)'
      BY <1>2, <2>1, <2>4 DEF EndsInLine
    <3>5. Handed'
      BY <2>1, <2>2, <2>4 DEF Handed
    <3> QED
      BY <1>2, <1>7, <3>3, <3>4, <3>5
  <2>5. CASE ends # {}
    <3> DEFINE at == Min(ends)
    <3>1. /\ at \in 1 .. n /\ at + 3 <= n
          /\ HeadUpTo(piece, at) = Take(piece, at + 1) /\ BodyAfter(piece, at) = Drop(piece, at + 3)
      BY <1>3, <2>5, HeadPart DEF ends
    <3>2. pos + at + 1 = H
      <4>1. pos + at = Min(Finds(stream, Blank))
        BY <1>5, <1>11, <2>5, BlankFound DEF ends, piece, Cut
      <4> QED
        BY <1>9, <4>1
    <3> HIDE DEF at
    <3>3. /\ at + 1 \in 0 .. n /\ at + 3 \in 0 .. n /\ pos + 1 \in Nat \ {0}
          /\ pos + 1 + (at + 3) = H + 3
      BY <1>4, <3>1, <3>2
    <3>4. IsPart(buffer', stream, pos + 1, at + 1)
      <4>1. IsPart(Take(piece, at + 1), stream, pos + 1, at + 1)
        BY <1>3, <1>4, <3>3, DropPart
      <4> QED
        BY <2>1, <2>5, <3>1, <4>1 DEF at
    <3>5. Len(buffer') = at + 1
      BY <3>4 DEF IsPart
    <3>6. Place(d)'
      <4>1. IsPart(buffer', stream, d + Len(rest) + 1, Len(buffer'))
        BY <2>3, <3>4, <3>5
      <4>2. d + Len(rest) + Len(buffer') = H
        BY <1>4, <2>3, <3>1, <3>2, <3>5
      <4> QED
        BY <1>2, <1>6, <2>1, <2>5, <4>1, <4>2 DEF Place, H
    <3>7. body' = SubSeq(stream, H + 3, pos + n)
      <4> DEFINE i == H + 2
                 k == n - (at + 3)
                 a == at + 3
      <4>1. /\ i \in Nat /\ k \in Nat /\ i + 1 = H + 3 /\ i + k = pos + n /\ i + 1 \in Nat \ {0}
            /\ a \in 0 .. n /\ n - a = k /\ pos + 1 + a = i + 1
        BY <1>4, <1>9, <3>1, <3>2, <3>3
      <4> HIDE DEF i, k, a
      <4>2. IsPart(Drop(piece, a), stream, pos + 1 + a, n - a)
        BY <1>3, <1>4, <3>3, <4>1, DropPart
      <4>3. IsPart(SubSeq(stream, i + 1, i + k), stream, i + 1, k)
        BY <1>4, <4>1, SubPart
      <4>4. Drop(piece, a) = SubSeq(stream, i + 1, i + k)
        BY <4>1, <4>2, <4>3, SamePart
      <4>5. body' = Drop(piece, a)
        BY <2>1, <2>5, <3>1 DEF at, a
      <4> QED
        BY <4>1, <4>4, <4>5
    <3>8. Handed'
      <4>1. pos' >= H + 2
        BY <1>4, <1>9, <2>1, <3>1, <3>2
      <4> QED
        BY <1>2, <2>1, <2>2, <2>5, <3>7, <4>1 DEF Handed, H
    <3> QED
      BY <1>2, <1>7, <2>1, <2>5, <3>6, <3>8
  <2> QED
    BY <2>4, <2>5
<1> QED
  BY <1>10, <1>11

LEMMA MeantParseLine == ASSUME Inv, FirstInv, MeantInv, ParseLine PROVE MeantInv'
<1> DEFINE at   == Min(Finds(buffer, CRLF))
           line == WholeLine(Take(buffer, at - 1))
           left == Drop(buffer, at + 1)
           r    == RequestLine(line, method, path)
           hl   == HeaderLine(line, headers)
           refusal == IF index_line = 0 THEN r.answer ELSE hl.answer
<1>1. /\ method' = IF index_line = 0 THEN r.method ELSE method
      /\ path' = IF index_line = 0 THEN r.path ELSE path
      /\ headers' = IF index_line = 0 THEN headers ELSE hl.headers
      /\ IF refusal = "none"
         THEN buffer' = left /\ index_line' = index_line + 1 /\ rest' = <<>> /\ UNCHANGED <<pc, answer>>
         ELSE answer' = refusal
      /\ UNCHANGED <<stream, pos, start_read, body, given, lineCut, blankCut>>
      /\ pc = "lines" /\ answer = "none" /\ Finds(buffer, CRLF) # {}
  BY DEF ParseLine, peerVars, Inv, Kept
<1>2. /\ stream \in Texts /\ Len(stream) \in Nat /\ rest \in Texts /\ buffer \in Texts
      /\ index_line \in Nat /\ Len(rest) \in Nat /\ Len(buffer) \in Nat /\ pos <= Len(stream)
      /\ pos \in Nat /\ <<>> \in Texts /\ Len(<<>>) = 0
  BY RequestsAssumption DEF Inv, TypeOK, Texts
<1> SUFFICES ASSUME Complete(stream), ~Cut, MeantInv
             PROVE  IF refusal = "none"
                    THEN /\ (\E d \in Nat : Place(d) /\ Parsed(d))'
                         /\ ~start_read' /\ pc' = "lines" => ~EndsInLine(pos)'
                         /\ Handed'
                    ELSE Refused'
  <2>1. Cut' = Cut /\ Complete(stream)' = Complete(stream)
    BY <1>1 DEF Cut
  <2>2. refusal # "none" => answer' # "none"
    BY <1>1
  <2>3. refusal = "none" => answer' = "none"
    BY <1>1
  <2> HIDE DEF refusal
  <2> QED
    BY <2>1, <2>2, <2>3 DEF MeantInv
<1> HIDE DEF at, line, left, r, hl, refusal
<1>3. PICK d \in Nat : Place(d) /\ Parsed(d)
  BY <1>1 DEF MeantInv
<1> DEFINE e == d + Len(rest) + at
           h == Min(Finds(stream, Blank))
<1>4. /\ h \in Finds(stream, Blank) /\ h \in Nat \ {0} /\ h + 3 <= Len(stream) /\ HeadLen(stream) = h + 1
      /\ Ends(stream) \subseteq Finds(stream, CRLF)
      /\ Ends(stream) = {x \in Finds(stream, CRLF) : x <= h}
  BY <1>2, BlankIsTwoEnds DEF Ends
<1>5. /\ d + Len(rest) + Len(buffer) = IF start_read THEN HeadLen(stream) ELSE pos
      /\ ~start_read => pos < h
  BY <1>3, <1>4 DEF Place, Inv, Noticed, Cut
<1> HIDE DEF h
<1>6. d + Len(rest) + Len(buffer) <= Len(stream) /\ d + Len(rest) + Len(buffer) <= h + 1
  <2>1. CASE start_read
    BY <1>2, <1>4, <1>5, <2>1
  <2>2. CASE ~start_read
    <3>1. d + Len(rest) + Len(buffer) = pos /\ pos < h
      BY <1>5, <2>2
    <3> QED
      BY <1>2, <1>4, <3>1
  <2> QED
    BY <2>1, <2>2
<1>7. /\ at \in 1 .. Len(buffer) /\ at + 1 <= Len(buffer) /\ e \in Finds(stream, CRLF)
      /\ IsPart(line, stream, d + 1, Len(rest) + at - 1)
      /\ IsPart(left, stream, e + 2, Len(buffer) - (at + 1))
      /\ \A x \in Finds(stream, CRLF) : x > d + Len(rest) => x >= e
  BY <1>1, <1>2, <1>3, <1>6, LinePart DEF Place, at, line, left
<1>8. e \in Ends(stream) /\ e > d /\ e \in Nat
  <2>1. e > d /\ e \in Nat /\ e <= h
    BY <1>2, <1>4, <1>6, <1>7
  <2> QED
    BY <1>4, <1>7, <2>1
<1> HIDE DEF e
<1>9. /\ IsPart(LineTo(stream, e), stream, d + 1, e - 1 - d)
      /\ e = FirstEnd(stream) <=> d = 0
      /\ LinesBefore(stream, e + 1) = LinesBefore(stream, d) \cup {e}
  <2>1. d # 0 => d - 1 \in Finds(stream, CRLF)
    BY <1>3, <1>4 DEF Place
  <2>2. \A x \in Finds(stream, CRLF) : x > d => x >= e
    BY <1>3, <1>7 DEF Place
  <2> QED
    BY <1>2, <1>7, <1>8, <2>1, <2>2, LineIs
<1>10. line = LineTo(stream, e)
  <2> DEFINE n == e - 1 - d
  <2>1. n = Len(rest) + at - 1 /\ n \in Nat /\ d + 1 \in Nat \ {0}
    BY <1>2, <1>7 DEF e
  <2> HIDE DEF n
  <2>2. IsPart(line, stream, d + 1, n) /\ IsPart(LineTo(stream, e), stream, d + 1, n)
    BY <1>7, <1>9, <2>1 DEF n
  <2> QED
    BY <2>1, <2>2, SamePart
<1>11. line \in Texts
  BY <1>7 DEF IsPart
<1>12. index_line = 0 => method = <<>> /\ path = <<>>
  BY <1>1 DEF FirstInv
<1>13. index_line = 0 <=> e = FirstEnd(stream)
  BY <1>3, <1>9 DEF Place
<1>14. index_line = 0 => r = FirstLine(stream)
  BY <1>10, <1>12, <1>13 DEF r, FirstLine
<1>15. hl.answer = Header(stream, e).answer
  BY <1>10 DEF hl, Header, HeaderLine
<1>16. refusal = Fault(stream, e)
  BY <1>13, <1>14, <1>15 DEF Fault, FirstLine, refusal
<1>17. CASE refusal # "none"
  <2>1. \A x \in Ends(stream) : x < e => Fault(stream, x) = "none"
    <3> SUFFICES ASSUME NEW x \in Ends(stream), x < e PROVE Fault(stream, x) = "none"
      OBVIOUS
    <3>1. x \in Finds(stream, CRLF) /\ x \in Nat
      BY <1>2, <1>4, EndAt
    <3>2. x \in LinesBefore(stream, e + 1) /\ x # e
      BY <1>8, <1>17, <3>1 DEF LinesBefore
    <3> QED
      BY <1>3, <1>9, <3>2 DEF Parsed
  <2>2. FaultOf(stream) = refusal
    BY <1>2, <1>8, <1>16, <1>17, <2>1, FaultFirst
  <2>3. Refused'
    BY <1>1, <1>17, <2>2 DEF Refused
  <2> QED
    BY <1>17, <2>3
<1>18. CASE refusal = "none"
  <2>1. buffer' = left /\ index_line' = index_line + 1 /\ rest' = <<>> /\ pc' = pc /\ answer' = answer
    BY <1>1, <1>18
  <2>8. PICK d1 \in Nat : d1 = e + 1
    BY <1>8
  <2> DEFINE n  == Len(buffer) - (at + 1)
  <2>2. d1 \in Nat /\ d1 # 0 /\ d1 - 1 = e /\ n \in Nat /\ d1 + 0 + 1 = e + 2
        /\ d1 + 0 + n = d + Len(rest) + Len(buffer)
    BY <1>2, <1>7, <1>8, <2>8 DEF e
  <2> HIDE DEF n
  <2>3. Len(buffer') = n /\ IsPart(buffer', stream, e + 2, n) /\ Len(rest') = 0
    BY <1>2, <1>7, <2>1 DEF IsPart, n
  <2>4. Place(d1)'
    <3>1. index_line' # 0 /\ d1 # 0
      BY <1>2, <2>1, <2>2
    <3>2. d1 - 1 \in Ends(stream)
      BY <1>8, <2>2
    <3>3. IsPart(rest', stream, d1 + 1, Len(rest'))
      BY <1>2, <2>1, <2>3 DEF IsPart
    <3>4. IsPart(buffer', stream, d1 + Len(rest') + 1, Len(buffer'))
      BY <2>2, <2>3
    <3>5. d1 + Len(rest') + Len(buffer') = IF start_read THEN HeadLen(stream) ELSE pos
      <4>1. d1 + Len(rest') + Len(buffer') = d + Len(rest) + Len(buffer)
        BY <2>2, <2>3
      <4> QED
        BY <1>5, <4>1
    <3>6. \A x \in Finds(stream, CRLF) : x > d1 => x > d1 + Len(rest')
      BY <2>2, <2>3
    <3> QED
      BY <1>1, <3>1, <3>2, <3>3, <3>4, <3>5, <3>6 DEF Place
  <2>5. Parsed(d1)'
    <3>1. \A x \in LinesBefore(stream, d1) : Fault(stream, x) = "none"
      BY <1>3, <1>9, <1>16, <1>18, <2>8 DEF Parsed
    <3>2. method' = FirstLine(stream).method /\ path' = FirstLine(stream).path
      <4>1. CASE index_line = 0
        BY <1>1, <1>14, <4>1
      <4>2. CASE index_line # 0
        BY <1>1, <1>3, <4>2 DEF Place, Parsed
      <4> QED
        BY <4>1, <4>2
    <3>3. headers' = HeadersOf(stream, LinesBefore(stream, d1) \ {FirstEnd(stream)})
      <4> DEFINE E == LinesBefore(stream, d) \ {FirstEnd(stream)}
      <4>1. headers = HeadersOf(stream, E)
        BY <1>3 DEF Parsed
      <4>2. CASE index_line = 0
        <5>1. LinesBefore(stream, d1) \ {FirstEnd(stream)} = E
          BY <1>9, <1>13, <2>8, <4>2
        <5> QED
          BY <1>1, <4>1, <4>2, <5>1
      <4>3. CASE index_line # 0
        <5>1. LinesBefore(stream, d1) \ {FirstEnd(stream)} = E \cup {e}
          BY <1>9, <1>13, <2>8, <4>3
        <5>2. E \subseteq Finds(stream, CRLF) /\ \A x \in E : x < e
          <6>1. \A x \in LinesBefore(stream, d) : x \in Finds(stream, CRLF) /\ x < d
            BY DEF LinesBefore
          <6>2. \A x \in Finds(stream, CRLF) : x \in Nat
            BY <1>2, EndAt
          <6>3. \A x \in LinesBefore(stream, d) : x < e
            BY <1>8, <6>1, <6>2
          <6> QED
            BY <6>1, <6>3
        <5>3. Header(stream, e).answer = "none" /\ LineTo(stream, e) \in Texts
          BY <1>10, <1>11, <1>13, <1>16, <1>18, <4>3 DEF Fault
        <5> HIDE DEF E
        <5>4. HeadersOf(stream, E \cup {e}) = HeaderLine(LineTo(stream, e), HeadersOf(stream, E)).headers
          BY <1>2, <1>7, <5>2, <5>3, MoreHeaders
        <5>5. headers' = HeaderLine(LineTo(stream, e), headers).headers
          BY <1>1, <1>10, <4>3 DEF hl
        <5> QED
          BY <4>1, <5>1, <5>4, <5>5
      <4> QED
        BY <4>2, <4>3
    <3> QED
      BY <1>1, <3>1, <3>2, <3>3 DEF Parsed
  <2>6. Handed'
    BY <1>1, <2>1 DEF MeantInv, Handed
  <2>7. ~start_read' /\ pc' = "lines" => ~EndsInLine(pos)'
    BY <1>1, <2>1 DEF MeantInv, EndsInLine
  <2> QED
    BY <1>18, <2>2, <2>4, <2>5, <2>6, <2>7
<1> QED
  BY <1>17, <1>18

\* Where no line ends in buffer.
LEMMA NoLinePart ==
    ASSUME NEW s \in Texts, NEW d \in Nat, rest \in Texts, buffer \in Texts,
           IsPart(buffer, s, d + Len(rest) + 1, Len(buffer)), Finds(buffer, CRLF) = {},
           NEW x \in Finds(s, CRLF), x > d + Len(rest)
    PROVE  x >= d + Len(rest) + Len(buffer)
<1> DEFINE R == Len(rest)
           N == Len(buffer)
           y == x - (d + R)
<1>1. N \in Nat /\ R \in Nat /\ buffer \in Seq(STRING)
  BY DEF Texts
<1>2. x \in Nat \ {0} /\ s[x] = CR /\ s[x + 1] = LF
  BY EndAt
<1> SUFFICES ASSUME x < d + R + N PROVE FALSE
  BY <1>1, <1>2
<1>3. y \in 1 .. N /\ y + 1 \in 1 .. N /\ d + R + 1 - 1 + y = x /\ d + R + 1 - 1 + (y + 1) = x + 1
  BY <1>1, <1>2
<1>4. buffer[y] = s[d + R + 1 - 1 + y] /\ buffer[y + 1] = s[d + R + 1 - 1 + (y + 1)]
  BY <1>3 DEF IsPart
<1>5. buffer[y] = CR /\ buffer[y + 1] = LF
  BY <1>2, <1>3, <1>4
<1> HIDE DEF y
<1>6. y \in Finds(buffer, CRLF)
  <2>1. y \in Nat \ {0} /\ y + 1 <= Len(buffer)
    BY <1>1, <1>3
  <2> QED
    BY <1>5, <2>1, EndAt
<1> QED
  BY <1>6

LEMMA MeantLinesDone == ASSUME Inv, FirstInv, MeantInv, LinesDone PROVE MeantInv'
<1>1. /\ pc = "lines" /\ Finds(buffer, CRLF) = {} /\ answer = "none"
      /\ rest' = rest \o buffer
      /\ answer' = IF Len(rest') > UrlMax THEN "400" ELSE answer
      /\ given' = IF start_read /\ answer' = "none" THEN given \o body ELSE given
      /\ buffer' = <<>> /\ pc' = "recv"
      /\ UNCHANGED <<stream, pos, start_read, index_line, method, path, headers, body, lineCut, blankCut>>
  BY DEF LinesDone, Inv, Kept, TooLong, peerVars, fields
<1>2. /\ stream \in Texts /\ Len(stream) \in Nat /\ rest \in Texts /\ buffer \in Texts /\ body \in Texts
      /\ Len(rest) \in Nat /\ Len(buffer) \in Nat /\ pos \in Nat /\ <<>> \in Texts /\ Len(<<>>) = 0
      /\ UrlMax \in Nat
  BY RequestsAssumption DEF Inv, TypeOK, Texts
<1> SUFFICES ASSUME Complete(stream), ~Cut
             PROVE  IF answer' = "none"
                    THEN (\E d \in Nat : Place(d) /\ Parsed(d))' /\ Handed'
                    ELSE Refused'
  <2>1. Cut' = Cut /\ Complete(stream)' = Complete(stream)
    BY <1>1 DEF Cut
  <2> QED
    BY <1>1, <2>1 DEF MeantInv
<1>3. PICK d \in Nat : Place(d) /\ Parsed(d)
  BY <1>1 DEF MeantInv
<1>4. Handed /\ (~start_read => ~EndsInLine(pos))
  BY <1>1 DEF MeantInv
<1>5. Parsed(d)'
  BY <1>1, <1>3 DEF Parsed
<1>6. IsPart(<<>>, stream, d + Len(rest') + 1, 0)
  BY <1>2 DEF IsPart
<1>7. CASE start_read
  <2>1. buffer = <<>> /\ rest = <<>>
    BY <1>1, <1>2, <1>7, NothingLeft DEF Inv, Noticed
  <2>2. rest' = <<>> /\ Len(rest') = 0
    BY <1>1, <1>2, <2>1
  <2>3. answer' = "none"
    BY <1>1, <1>2, <2>2
  <2>4. Place(d)'
    BY <1>1, <1>3, <2>1, <2>2 DEF Place
  <2>5. given' = body
    <3>1. given = <<>>
      BY <1>1, <1>4 DEF Handed
    <3>2. <<>> \o body = body
      BY <1>2 DEF Texts
    <3> QED
      BY <1>1, <1>7, <2>3, <3>1, <3>2
  <2>6. Handed'
    BY <1>1, <1>4, <1>7, <2>5 DEF Handed
  <2> QED
    BY <1>5, <2>3, <2>4, <2>6
<1>8. CASE ~start_read
  <2> DEFINE R == Len(rest)
             N == Len(buffer)
  <2>1. d + R + N = pos /\ R \in Nat /\ N \in Nat
    BY <1>2, <1>3, <1>8 DEF Place
  <2>2. IsPart(rest', stream, d + 1, R + N) /\ Len(rest') = R + N
    <3>1. d + 1 + Len(rest) = d + Len(rest) + 1 /\ d + 1 \in Nat \ {0}
      BY <1>2
    <3>2. IsPart(rest \o buffer, stream, d + 1, Len(rest) + Len(buffer))
      BY <1>2, <1>3, <3>1, JoinParts DEF Place
    <3> QED
      BY <1>1, <3>2 DEF IsPart
  <2>3. ASSUME NEW x \in Finds(stream, CRLF), x > d PROVE x > d + Len(rest')
    <3>1. x > d + Len(rest)
      BY <1>3, <2>3 DEF Place
    <3>2. x >= pos
      BY <1>1, <1>2, <1>3, <2>1, <3>1, NoLinePart DEF Place
    <3>3. x # pos
      <4> SUFFICES ASSUME x = pos PROVE FALSE
        OBVIOUS
      <4>1. pos > 0 /\ IsAt(stream, CRLF, pos)
        BY <1>2, EndAt DEF Finds
      <4> QED
        BY <1>4, <1>8, <4>1 DEF EndsInLine
    <3>4. x \in Nat
      BY <1>2, EndAt
    <3> QED
      BY <1>2, <2>1, <2>2, <3>2, <3>3, <3>4
  <2>4. CASE answer' = "none"
    <3>1. d + Len(rest') + Len(buffer') = pos
      BY <1>1, <1>2, <2>1, <2>2
    <3>2. Place(d)'
      BY <1>1, <1>2, <1>3, <1>6, <1>8, <2>2, <2>3, <3>1 DEF Place
    <3>3. Handed'
      BY <1>1, <1>4, <1>8 DEF Handed
    <3> QED
      BY <1>5, <2>4, <3>2, <3>3
  <2>5. CASE answer' # "none"
    <3>1. answer' = "400" /\ Len(rest') > UrlMax
      BY <1>1, <2>5
    <3> DEFINE h  == Min(Finds(stream, Blank))
               after == {x \in Finds(stream, CRLF) : x > d}
               e  == Min(after)
    <3>2. h \in Finds(stream, Blank) /\ h \in Nat /\ h \in Finds(stream, CRLF)
          /\ Ends(stream) = {x \in Finds(stream, CRLF) : x <= h}
      BY <1>2, BlankIsTwoEnds DEF Ends
    <3>3. pos < h
      BY <1>8, <3>2 DEF Inv, Noticed, Cut
    <3> HIDE DEF h
    <3>4. h \in after /\ after \subseteq Nat
      <4>1. h > d
        BY <1>2, <2>1, <3>2, <3>3
      <4>2. \A x \in Finds(stream, CRLF) : x \in Nat
        BY <1>2, EndAt
      <4> QED
        BY <3>2, <4>1, <4>2
    <3>5. e \in after /\ \A x \in after : e <= x
      <4> HIDE DEF after
      <4> QED
        BY <3>4, MinNat
    <3>6. e \in Finds(stream, CRLF) /\ e > d /\ e <= h /\ e \in Nat
      BY <3>4, <3>5
    <3>7. \A x \in Finds(stream, CRLF) : x > d => x >= e
      BY <3>4, <3>5
    <3> HIDE DEF e
    <3>8. IsPart(LineTo(stream, e), stream, d + 1, e - 1 - d)
      <4>1. d # 0 => d - 1 \in Finds(stream, CRLF)
        BY <1>3, <3>2 DEF Place
      <4> QED
        BY <1>2, <3>6, <3>7, <4>1, LineIs
    <3>9. Len(LineTo(stream, e)) = e - 1 - d /\ e > d + Len(rest')
      BY <2>3, <3>6, <3>8 DEF IsPart
    <3>10. Len(LineTo(stream, e)) > UrlMax
      BY <1>2, <2>1, <2>2, <3>1, <3>6, <3>9
    <3>11. HasLongLine(stream)
      BY <3>2, <3>6, <3>10 DEF HasLongLine
    <3>12. Refused'
      BY <1>1, <3>1, <3>11 DEF Refused
    <3> QED
      BY <2>5, <3>12
  <2> QED
    BY <2>4, <2>5
<1> QED
  BY <1>7, <1>8

(***************************************************************************)
(* Wherever recv cuts the bytes outside a separator, a request reaches its *)
(* handler with the method, path, headers and body its sender means, and   *)
(* is refused for its first bad line or a line that is too long            *)
(* (request.cpp:44-131).                                                   *)
(***************************************************************************)
THEOREM MeaningsKept == Spec => []MeaningKept
<1>1. Init => FirstInv /\ MeantInv
  BY FirstInit, MeantInit
<1>2. Inv /\ FirstInv /\ MeantInv /\ [Next]_vars => FirstInv' /\ MeantInv'
  <2> SUFFICES ASSUME Inv, FirstInv, MeantInv, [Next]_vars PROVE FirstInv' /\ MeantInv'
    OBVIOUS
  <2>1. CASE UNCHANGED vars
    <3>1. FirstInv'
      BY <2>1 DEF FirstInv, FirstLineTaken, vars, peerVars, fields
    <3>2. MeantInv'
      BY <2>1 DEF MeantInv, Place, Parsed, Handed, Refused, Cut, EndsInLine, vars, peerVars, fields
    <3> QED
      BY <3>1, <3>2
  <2>2. CASE ParseRequest
    BY <2>2, FirstParseRequest, MeantParseRequest
  <2>3. CASE ParseLine
    BY <2>3, FirstParseLine, MeantParseLine
  <2>4. CASE LinesDone
    BY <2>4, FirstLinesDone, MeantLinesDone
  <2> QED
    BY <2>1, <2>2, <2>3, <2>4 DEF Next
<1>3. Inv /\ FirstInv /\ MeantInv => MeaningKept
  <2> SUFFICES ASSUME Inv, FirstInv, MeantInv, Complete(stream), ~Cut, Dispatched
               PROVE  /\ FaultOf(stream) = "none"
                      /\ method = FirstLine(stream).method /\ path = FirstLine(stream).path
                      /\ headers = HeadersOf(stream, Ends(stream) \ {FirstEnd(stream)})
                      /\ given = SubSeq(stream, HeadLen(stream) + 3, pos)
    BY DEF MeaningKept, MeantInv, Refused
  <2>1. pc = "recv" /\ answer = "none" /\ start_read
    BY DEF Dispatched
  <2>2. PICK d \in Nat : Place(d) /\ Parsed(d)
    BY <2>1 DEF MeantInv
  <2>3. rest = <<>> /\ buffer = <<>> /\ Len(<<>>) = 0 /\ stream \in Texts
    BY <2>1, RequestsAssumption DEF Inv, Noticed, FirstInv, TypeOK, Texts
  <2>4. d = HeadLen(stream)
    BY <2>1, <2>2, <2>3 DEF Place
  <2>5. LinesBefore(stream, d) = Ends(stream) /\ d # 0
    <3> DEFINE h == Min(Finds(stream, Blank))
    <3>1. h \in Nat /\ HeadLen(stream) = h + 1 /\ Ends(stream) = {e \in Finds(stream, CRLF) : e <= h}
      BY <2>3, BlankIsTwoEnds DEF Ends
    <3> HIDE DEF h
    <3>2. \A e \in Finds(stream, CRLF) : e \in Nat
      BY <2>3, EndAt
    <3>3. \A e \in Finds(stream, CRLF) : e < h + 1 <=> e <= h
      BY <3>1, <3>2
    <3> QED
      BY <2>4, <3>1, <3>3 DEF LinesBefore
  <2>6. given = SubSeq(stream, HeadLen(stream) + 3, pos)
    BY <2>1 DEF MeantInv, Handed
  <2> QED
    BY <2>2, <2>5, <2>6, FaultNone DEF Parsed
<1> QED
  BY <1>1, <1>2, <1>3, Invariance, PTL DEF Spec
===============================================================================
