------------------------------ MODULE PostProofs -------------------------------
(***************************************************************************)
(* Proofs about one upload, for well-formed bodies of any length, cut into *)
(* pieces and chunks anywhere; a body with a Content-Length is as long as  *)
(* that says, and not longer than the largest int, where LengthHolds is    *)
(* asked for.                                                              *)
(***************************************************************************)
EXTENDS Post, TextProofs

Bytes == upload.body
Wired == upload.stream

(***************************************************************************)
(* How the mode, the function at work and the request belong together.     *)
(***************************************************************************)
Modes ==
    /\ mode = NoMode =>
         /\ out = [is_open |-> FALSE, files |-> <<>>] /\ ~is_cgi /\ ~h /\ ~repeated
         /\ max_size = 0 /\ chunked_size = 0 /\ rest = <<>> /\ brest = <<>> /\ cuts = {}
         /\ pc \in {"recv", "init"} /\ status # "201"
         /\ status = "more" =>
              /\ body = Slice(Wired, 0, pos)
              /\ fed = (IF upload.encoding = "none" THEN pos ELSE 0)
              /\ pc = "recv" => pos = 0
    /\ mode # NoMode => Refusal(upload) = "more" /\ mode = ModeOf(upload, is_cgi)
    /\ pc = "init" => mode = NoMode
    /\ pc = "chunked" => mode \in {1, 3}
    /\ pc = "boundarry" => mode \in {2, 3}
    /\ pc = "raw" => mode \in {0, 4} \/ (mode = 1 /\ is_cgi)
    /\ pc # "recv" => status = "more"
    /\ upload.encoding = "none" => fed = pos

\* The only file, where one could be created, holds x, and is open until 201.
Holds(x) ==
    out = [is_open |-> upload.dir /\ status # "201",
           files   |-> IF upload.dir THEN <<x>> ELSE <<>>]

(***************************************************************************)
(* raw, for a body with a length: w bytes are written, and counted where   *)
(* the length holds.                                                       *)
(***************************************************************************)
Counted ==
    mode = 0 =>
        \E w \in 0 .. Len(Bytes) :
            /\ Holds(Slice(Bytes, 0, w))
            /\ LengthHolds(upload) => max_size = Len(Bytes) - w
            /\ pc = "raw" => w <= pos /\ body = Slice(Bytes, w, pos)
            /\ pc = "recv" => \/ status = "more" /\ w = pos
                              \/ status = "201"
            /\ pc = "recv" /\ LengthHolds(upload) => (status = "201" <=> w = Len(Bytes))

(***************************************************************************)
(* raw, for a multipart body: what is held back ends as the bytes before q *)
(* do, and is what comes after the w bytes that are written, unless it was *)
(* doubled.                                                                *)
(***************************************************************************)
LastLen == Len(LastLine)

EndsLike(x, t, q) ==
    \A k \in 0 .. LastLen - 1 : k < q => k < Len(x) /\ x[Len(x) - k] = t[q - k]

HeldAfter(w, q) ==
    /\ Holds(Slice(Bytes, 0, w)) /\ brest = Slice(Bytes, w, q)
    /\ (w = 0 /\ q <= LastLen) \/ q = w + LastLen

Copied ==
    mode = 4 =>
        \/ /\ status = "201"
           /\ ~repeated => Holds(Bytes)
        \/ /\ status = "more"
           /\ \E q \in 0 .. pos :
                /\ EndsLike(brest, Bytes, q)
                /\ ~repeated => \E w \in 0 .. q : HeldAfter(w, q)
                /\ pc = "raw" => body = Slice(Bytes, q, pos)
                /\ pc = "recv" => q = pos /\ pos < Len(Bytes)

(***************************************************************************)
(* chunked: rest begins after r bytes of the stream, which carry the first *)
(* p bytes of the body.                                                    *)
(***************************************************************************)
InChunk(r, p) ==
    \E i \in 1 .. Len(upload.chunks) :
        LET c == upload.chunks[i]
        IN  \/ /\ chunked_size > 0 /\ chunked_size <= c.size
               /\ r = DataAt(c) + c.size - chunked_size
               /\ p = c.from + c.size - chunked_size
            \/ chunked_size = 0 /\ r = c.at /\ p = c.from
            \/ /\ chunked_size = 0 /\ i < Len(upload.chunks)
               /\ r = DataAt(c) + c.size /\ p = c.from + c.size

\* What has become of the first p bytes.
Passed(p) ==
    /\ mode = 3 => fed = p
    /\ mode = 1 /\ pc # "raw" /\ ~(is_cgi /\ status = "201" /\ max_size = 0) =>
         Holds(Slice(Bytes, 0, p))
    /\ mode = 1 /\ pc = "raw" =>
         \E w \in 0 .. p : Holds(Slice(Bytes, 0, w)) /\ body = Slice(Bytes, w, p)
    /\ mode = 1 /\ status = "201" => p = Len(Bytes) \/ (is_cgi /\ max_size = 0)

Dechunked ==
    mode \in {1, 3} =>
        /\ \E r \in 0 .. pos, p \in 0 .. Len(Bytes) :
              rest = Slice(Wired, r, pos) /\ InChunk(r, p) /\ Passed(p)
        /\ pc = "recv" /\ status = "more" =>
              rest = <<>> \/ (chunked_size = 0 /\ Finds(rest, CRLF) = {})

(***************************************************************************)
(* boundarry: what is not yet used begins after q bytes of the body, in    *)
(* part i.                                                                 *)
(***************************************************************************)
At(i) == upload.starts[i]
Parts == Len(upload.parts)
Blank(i) == Min(BlankLines(Bytes, At(i)))
Begins(i) == Blank(i) + 1

\* File j holds its part, and what may follow it.
EndsPart(j, w) ==
    /\ Begins(j) <= w /\ At(j + 1) - 3 <= w /\ (j < Parts => w < At(j + 1))
    /\ cuts = {} => w = At(j + 1) - 3

FileDone(x, j) == \E w \in 0 .. Len(Bytes) : EndsPart(j, w) /\ x = Slice(Bytes, Begins(j), w)
Complete(j) == FileDone(out.files[j], j)

\* Bytes that belong to the next boundary line are written only after a bad cut.
Margin(i, q) ==
    \/ q <= At(i + 1) - 3
    \/ i < Parts /\ q = At(i + 1) - 2 /\ At(i + 1) + 3 \in cuts
    \/ i = Parts /\ q \in {At(i + 1) - 2, At(i + 1) - 1} /\ q + 5 \in cuts
    \/ i = Parts /\ At(i + 1) <= q /\ At(i + 1) + 5 \in cuts

InHead(i, q) ==
    At(i) + 4 <= q /\ q < Blank(i) /\ IsAt(Bytes, CRLF, q - 1)

InPart(i, q) == Begins(i) <= q /\ Margin(i, q)

\* The files, when part i is at work.
FilesTo(i, q) ==
    IF ~upload.dir THEN out = [is_open |-> FALSE, files |-> <<>>]
    ELSE /\ Len(out.files) = (IF h THEN i - 1 ELSE i)
         /\ \A j \in 1 .. i - 1 : Complete(j)
         /\ i > 0 /\ ~h => out.is_open /\ out.files[i] = Slice(Bytes, Begins(i), q)
         /\ i = 0 => ~out.is_open

\* No boundary line is left unnoticed, but a last one that was cut.
Noticed(i, q) ==
    \/ i = 0 /\ fed <= 4
    \/ i > 0 /\ h /\ fed <= Blank(i)
    \/ i > 0 /\ ~h /\ i < Parts /\ fed <= At(i + 1) + 3
    \/ i > 0 /\ ~h /\ i = Parts /\ (fed <= At(i + 1) + 5 \/ At(i + 1) <= q)

Stands(i, q) ==
    /\ i = 0 => q = 0 /\ ~h
    /\ i > 0 /\ h => InHead(i, q)
    /\ i > 0 /\ ~h => InPart(i, q)
    /\ FilesTo(i, q)
    /\ status = "more" => (IF pc = "boundarry" THEN body ELSE brest) = Slice(Bytes, q, fed)
    /\ status = "more" /\ pc # "boundarry" => Noticed(i, q)

AllStored == upload.dir => Len(out.files) = Parts /\ \A j \in 1 .. Parts : Complete(j)

Divided ==
    mode \in {2, 3} =>
        IF status = "201" THEN AllStored ELSE \E i \in 0 .. Parts, q \in 0 .. fed : Stands(i, q)

Inv ==
    TypeOK /\ Modes /\ Counted /\ Copied /\ Dechunked /\ Divided /\ RefusedForSizeLine
-------------------------------------------------------------------------------
\* The boundary lines and the end of a line.
LEMMA Markers ==
    /\ Len(StartLine) = 5 /\ DOMAIN StartLine = 1 .. 5
    /\ StartLine[1] = "-" /\ StartLine[2] = "-" /\ StartLine[3] = "b"
    /\ StartLine[4] = CR /\ StartLine[5] = LF
    /\ Len(LastLine) = 7 /\ LastLen = 7 /\ DOMAIN LastLine = 1 .. 7
    /\ LastLine[1] = "-" /\ LastLine[2] = "-" /\ LastLine[3] = "b"
    /\ LastLine[4] = "-" /\ LastLine[5] = "-" /\ LastLine[6] = CR /\ LastLine[7] = LF
    /\ Len(CRLF) = 2 /\ DOMAIN CRLF = 1 .. 2 /\ CRLF[1] = CR /\ CRLF[2] = LF
BY DEF StartLine, LastLine, LastLen, Dashes, CRLF

\* The request does not change, and is a well-formed one.
LEMMA UploadIs ==
    ASSUME upload \in Uploads
    PROVE  /\ upload \in Upload /\ WellFormed(upload)
           /\ Bytes \in Seq(STRING) /\ Wired \in Seq(STRING)
           /\ Len(Bytes) \in Nat /\ Len(Wired) \in Nat
           /\ Slice(Bytes, 0, Len(Bytes)) = Bytes /\ Slice(Bytes, 0, 0) = <<>>
           /\ Slice(Wired, 0, 0) = <<>>
<1>1. upload \in Upload /\ WellFormed(upload)
  BY PostAssumption
<1>2. Bytes \in Seq(STRING) /\ Wired \in Seq(STRING)
  BY <1>1 DEF Upload, Bytes, Wired
<1>3. Len(Bytes) \in Nat /\ Len(Wired) \in Nat
  BY <1>2, LenProperties
<1>4. 0 \in 0 .. Len(Bytes) /\ 0 \in 0 .. Len(Wired)
  BY <1>3
<1> QED
  BY <1>1, <1>2, <1>3, <1>4, SliceAll, SliceNone

\* What the modes stand for.
LEMMA ModeIs ==
    ASSUME NEW u \in Uploads, Refusal(u) = "more", NEW cgi \in BOOLEAN,
           NEW m, m = ModeOf(u, cgi)
    PROVE  /\ m \in 0 .. 4
           /\ u.encoding = (IF m \in {1, 3} THEN "chunked" ELSE "none")
           /\ m = 4 => cgi
           /\ m \in {2, 3} => ~cgi
           /\ m \in {2, 3, 4} => PartsMeant(u)
           /\ m \in {1, 3} => ChunksMeant(u)
           /\ m \in {0, 2, 4} => u.stream = u.body
           /\ m = 0 \/ (m = 1 /\ ~cgi) => u.parts = <<u.body>>
<1>1. u \in Upload /\ WellFormed(u)
  BY PostAssumption
<1>2. u.ctype \in {"none", "plain", "unknown", "multipart"}
      /\ u.encoding \in {"none", "chunked", "other"} 
  BY <1>1 DEF Upload
<1>3. /\ u.ctype # "none" /\ u.encoding # "other"
      /\ u.ctype # "multipart" => u.ctype = "plain"
  BY <1>2 DEF Refusal
<1>4. m = IF u.encoding = "chunked"
          THEN IF u.ctype = "multipart" /\ ~cgi THEN 3 ELSE 1
          ELSE IF u.ctype # "multipart" THEN 0 ELSE IF cgi THEN 4 ELSE 2
  BY DEF ModeOf
<1> QED
  BY <1>1, <1>2, <1>3, <1>4 DEF WellFormed

\* What max_size may be set to: a size_t, and the length where that holds.
LEMMA MaxSizesAre ==
    ASSUME NEW u \in Uploads
    PROVE  /\ MaxSizes(u) \subseteq Nat
           /\ LengthHolds(u) => MaxSizes(u) \subseteq {Len(u.body)}
<1> DEFINE M == Base^SizeDigits
<1>1. M \in Nat /\ IntMax \in Nat /\ M > IntMax
  BY PostAssumption
<1>2. u.length \subseteq Int /\ Len(u.body) \in Nat
  <2>1. u.length \in SUBSET Int /\ u.body \in Seq(STRING)
    BY PostAssumption DEF Upload
  <2> QED
    BY <2>1, LenProperties
<1> HIDE DEF M
<1>3. ASSUME NEW n \in u.length, NEW i \in Atoi(n)
      PROVE  i % M \in Nat /\ (LengthHolds(u) => i % M = Len(u.body))
  <2>1. n \in Int /\ i \in Int
    BY <1>1, <1>2, <1>3 DEF Atoi
  <2>2. i % M \in Nat
    BY <1>1, <2>1
  <2>3. ASSUME LengthHolds(u) PROVE i % M = Len(u.body)
    <3>1. n = Len(u.body) /\ n <= IntMax
      BY <1>3, <2>3 DEF LengthHolds, NoLength
    <3>2. i = n
      BY <1>1, <1>2, <1>3, <3>1 DEF Atoi
    <3>3. n \in 0 .. M - 1
      BY <1>1, <1>2, <3>1
    <3>4. n % M = n
      BY <1>1, <3>3
    <3> QED
      BY <3>1, <3>2, <3>4
  <2> QED
    BY <2>2, <2>3
<1>4. \A x \in MaxSizes(u) : \E n \in u.length : \E i \in Atoi(n) : x = i % M
  BY DEF MaxSizes, M
<1> QED
  BY <1>3, <1>4

\* What depends on the request alone stays what it is.
LEMMA SameRequest ==
    ASSUME UNCHANGED upload
    PROVE  /\ Bytes' = Bytes /\ Wired' = Wired /\ Parts' = Parts /\ BadEnds' = BadEnds
           /\ \A i : At(i)' = At(i) /\ Blank(i)' = Blank(i) /\ Begins(i)' = Begins(i)
           /\ \A i, q : InHead(i, q)' = InHead(i, q)
           /\ LongSizeLine' = LongSizeLine /\ BadHeader' = BadHeader
           /\ ChunksMeant(upload)' = ChunksMeant(upload)
           /\ PartsMeant(upload)' = PartsMeant(upload)
<1>1. Bytes' = Bytes /\ Wired' = Wired /\ Parts' = Parts
  BY DEF Bytes, Wired, Parts
<1>2. \A i : At(i)' = At(i)
  BY DEF At
<1>3. \A i : Blank(i)' = Blank(i)
  BY <1>1, <1>2 DEF Blank
<1>4. \A i : Begins(i)' = Begins(i)
  BY <1>3 DEF Begins
<1>5. \A i, q : InHead(i, q)' = InHead(i, q)
  BY <1>1, <1>2, <1>3 DEF InHead
<1>6. BadEnds' = BadEnds
  BY DEF BadEnds
<1>7. LongSizeLine' = LongSizeLine
  BY DEF LongSizeLine
<1>8. BadHeader' = BadHeader
  BY DEF BadHeader
<1> QED
  BY <1>1, <1>2, <1>3, <1>4, <1>5, <1>6, <1>7, <1>8

\* Where the parts of a body are, with their boundary lines and heads.
LEMMA PartPlaces ==
    ASSUME upload \in Uploads, PartsMeant(upload)
    PROVE  /\ Parts \in Nat \ {0} /\ Len(Bytes) \in Nat
           /\ \A i \in 1 .. Parts + 1 : At(i) \in 1 .. Len(Bytes)
           /\ \A i, j \in 1 .. Parts + 1 : i < j => At(i) < At(j)
           /\ At(1) = 1 /\ At(Parts + 1) + 6 = Len(Bytes)
           /\ Finds(Bytes, StartLine) = {At(i) : i \in 1 .. Parts}
           /\ Finds(Bytes, LastLine) = {At(Parts + 1)}
<1>1. upload \in Upload /\ Bytes \in Seq(STRING) /\ Len(Bytes) \in Nat
  BY UploadIs
<1>2. upload.parts \in Seq(Seq(STRING)) /\ upload.starts \in Seq(Nat)
  BY <1>1 DEF Upload
<1>3. Parts \in Nat \ {0} /\ Len(upload.starts) = Parts + 1
  BY <1>2, LenProperties DEF PartsMeant, Parts
<1>4. /\ \A i, j \in 1 .. Parts + 1 : i < j => At(i) < At(j)
      /\ At(1) = 1 /\ At(Parts + 1) + 7 - 1 = Len(Bytes)
      /\ Finds(Bytes, StartLine) = {At(i) : i \in 1 .. Parts}
      /\ Finds(Bytes, LastLine) = {At(Parts + 1)}
  BY Markers DEF PartsMeant, Parts, At, Bytes
<1>5. ASSUME NEW i \in 1 .. Parts + 1 PROVE At(i) \in Nat
  BY <1>2, <1>3, ElementOfSeq DEF At
<1>6. ASSUME NEW i \in 1 .. Parts + 1 PROVE At(i) \in 1 .. Len(Bytes)
  <2>1. CASE i <= Parts
    <3>1. At(i) \in Finds(Bytes, StartLine)
      BY <1>3, <1>4, <2>1
    <3> QED
      BY <1>1, <3>1, FindsWithin
  <2>2. CASE ~(i <= Parts)
    <3>1. i = Parts + 1
      BY <1>3, <2>2
    <3>2. At(i) \in Finds(Bytes, LastLine)
      BY <1>4, <3>1
    <3> QED
      BY <1>1, <3>2, FindsWithin
  <2> QED
    BY <2>1, <2>2
<1>7. At(Parts + 1) + 6 = Len(Bytes)
  <2>1. Parts + 1 \in 1 .. Parts + 1
    BY <1>3
  <2>2. At(Parts + 1) \in Nat
    BY <1>5, <2>1
  <2> QED
    BY <1>1, <1>4, <2>2
<1> QED
  BY <1>1, <1>3, <1>4, <1>6, <1>7

LEMMA HeadPlaces ==
    ASSUME upload \in Uploads, PartsMeant(upload), NEW i \in 1 .. Parts
    PROVE  /\ i + 1 \in 1 .. Parts + 1 /\ i \in 1 .. Parts + 1
           /\ At(i) \in 1 .. Len(Bytes) /\ At(i + 1) \in 1 .. Len(Bytes)
           /\ Blank(i) \in Nat /\ Begins(i) = Blank(i) + 1
           /\ At(i) + 5 <= Blank(i) /\ Blank(i) + 4 <= At(i + 1)
           /\ At(i) + 4 <= Len(Bytes)
           /\ IsAt(Bytes, CRLF, Blank(i)) /\ IsAt(Bytes, CRLF, Blank(i) - 2)
           /\ \A e \in Finds(Bytes, CRLF) :
                 e >= At(i) + 5 /\ IsAt(Bytes, CRLF, e - 2) => Blank(i) <= e
           /\ IsAt(Bytes, CRLF, At(i) + 3) /\ IsAt(Bytes, CRLF, At(i + 1) - 2)
           /\ upload.parts[i] = Slice(Bytes, Begins(i), At(i + 1) - 3)
<1>1. /\ Parts \in Nat \ {0} /\ Len(Bytes) \in Nat /\ Bytes \in Seq(STRING)
      /\ \A j \in 1 .. Parts + 1 : At(j) \in 1 .. Len(Bytes)
      /\ Finds(Bytes, StartLine) = {At(j) : j \in 1 .. Parts}
  BY PartPlaces, UploadIs
<1>2. i + 1 \in 1 .. Parts + 1 /\ i \in 1 .. Parts + 1
  BY <1>1
<1>3. At(i) \in 1 .. Len(Bytes) /\ At(i + 1) \in 1 .. Len(Bytes)
  BY <1>1, <1>2
<1> DEFINE B == BlankLines(Bytes, At(i))
<1>4. /\ B # {} /\ DataFrom(Bytes, At(i)) + 2 <= At(i + 1)
      /\ upload.parts[i] = SubSeq(Bytes, DataFrom(Bytes, At(i)), At(i + 1) - 3)
      /\ IsAt(Bytes, CRLF, At(i + 1) - 2)
  BY DEF PartsMeant, Parts, At, Bytes
<1>5. B = {e \in Finds(Bytes, CRLF) : e >= At(i) + 5 /\ IsAt(Bytes, CRLF, e - 2)}
  BY Markers DEF BlankLines
<1>6. B \subseteq Nat
  BY <1>1, <1>5, FindsWithin
<1>7. Blank(i) = Min(B)
  BY DEF Blank
<1> HIDE DEF B
<1>8. Blank(i) \in B /\ \A e \in B : Blank(i) <= e
  BY <1>4, <1>6, <1>7, MinNat
<1>9. DataFrom(Bytes, At(i)) = Blank(i) + 2
  BY DEF DataFrom, Blank
<1>10. Blank(i) \in Nat /\ Blank(i) \in Finds(Bytes, CRLF) /\ At(i) + 5 <= Blank(i)
       /\ IsAt(Bytes, CRLF, Blank(i) - 2)
  BY <1>3, <1>5, <1>6, <1>8
<1>11. Begins(i) = Blank(i) + 1 /\ Begins(i) + 1 = Blank(i) + 2 /\ Blank(i) + 4 <= At(i + 1)
  BY SMTT(15), ZenonT(20), <1>3, <1>4, <1>9, <1>10 DEF Begins
<1>12. upload.parts[i] = Slice(Bytes, Begins(i), At(i + 1) - 3)
  BY <1>4, <1>9, <1>11 DEF Slice
<1>13. IsAt(Bytes, CRLF, Blank(i))
  BY <1>10 DEF Finds
<1>14. At(i) + 4 <= Len(Bytes) /\ Bytes[At(i) + 3] = CR /\ Bytes[At(i) + 4] = LF
  <2>1. At(i) \in Finds(Bytes, StartLine)
    BY <1>1
  <2>2. At(i) + Len(StartLine) - 1 <= Len(Bytes)
        /\ \A j \in DOMAIN StartLine : Bytes[At(i) + j - 1] = StartLine[j]
    BY <2>1 DEF Finds, IsAt
  <2>3. Bytes[At(i) + 4 - 1] = CR /\ Bytes[At(i) + 5 - 1] = LF
    BY <2>2, Markers
  <2>4. At(i) + 4 - 1 = At(i) + 3 /\ At(i) + 5 - 1 = At(i) + 4
        /\ At(i) + Len(StartLine) - 1 = At(i) + 4
    BY <1>3, Markers
  <2> QED
    BY <2>2, <2>3, <2>4
<1>15. IsAt(Bytes, CRLF, At(i) + 3)
  <2>1. At(i) + 3 \in Int /\ (At(i) + 3) + 1 = At(i) + 4
    BY <1>3
  <2> QED
    BY <1>14, <2>1, EndOfLine
<1>16. \A e \in Finds(Bytes, CRLF) :
          e >= At(i) + 5 /\ IsAt(Bytes, CRLF, e - 2) => Blank(i) <= e
  BY <1>5, <1>8
<1> QED
  BY <1>2, <1>3, <1>10, <1>11, <1>12, <1>13, <1>14, <1>15, <1>16, <1>4
-------------------------------------------------------------------------------
\* A CRLF neither begins nor ends within another one.
LEMMA Apart ==
    ASSUME NEW t, NEW i \in Int, IsAt(t, CRLF, i)
    PROVE  ~ IsAt(t, CRLF, i + 1) /\ ~ IsAt(t, CRLF, i - 1)
<1>1. i + 1 \in Int /\ i - 1 \in Int /\ (i - 1) + 1 = i
  OBVIOUS
<1>2. t[i] = CR /\ t[i + 1] = LF
  BY EndOfLine
<1>3. IsAt(t, CRLF, i + 1) => t[i + 1] = CR
  BY <1>1, EndOfLine
<1>4. IsAt(t, CRLF, i - 1) => t[i] = LF
  BY <1>1, EndOfLine
<1> QED
  BY <1>2, <1>3, <1>4 DEF CR, LF

(***************************************************************************)
(* set_headers sees the same lines in what is there, after whole lines, as *)
(* there are in the body; one is empty when another end of a line is right *)
(* before it.                                                              *)
(***************************************************************************)
LEMMA LineRead ==
    ASSUME NEW t \in Seq(STRING), NEW q \in Nat, q >= 2, NEW f \in q .. Len(t),
           IsAt(t, CRLF, q - 1), NEW e \in Finds(Slice(t, q, f), CRLF)
    PROVE  /\ LineOf(Slice(t, q, f), e) = LineOf(t, q + e)
           /\ LineOf(Slice(t, q, f), e) = <<>> <=> IsAt(t, CRLF, q + e - 2)
<1> DEFINE b == Slice(t, q, f)
           C == Finds(b, CRLF)
           D == Finds(t, CRLF)
           X == {i \in C : i < e}
           Y == {i \in D : i < q + e}
<1>1. Len(t) \in Nat /\ f \in Nat /\ b \in Seq(STRING) /\ Len(b) = f - q
  BY SliceType, LenProperties
<1>2. \A i \in Int : i \in C <=> i >= 1 /\ q + i \in D /\ q + i + 1 <= f
  <2> SUFFICES ASSUME NEW i \in Int
               PROVE  i \in C <=> i >= 1 /\ q + i \in D /\ q + i + 1 <= f
    OBVIOUS
  <2>1. Len(CRLF) \in Nat \ {0} /\ DOMAIN CRLF = 1 .. Len(CRLF) /\ Len(CRLF) = 2
    BY Markers
  <2>2. i \in C <=> i >= 1 /\ q + i \in D /\ q + i + Len(CRLF) - 1 <= f
    BY <2>1, SliceFinds
  <2> QED
    BY <2>1, <2>2, <1>1
<1>3. C \subseteq Nat /\ C \subseteq 1 .. Len(b) /\ D \subseteq Nat /\ D \subseteq 1 .. Len(t)
  BY <1>1, FindsWithin
<1>4. \A i \in Int : i >= 1 /\ i + 1 <= Len(t) => (i \in D <=> IsAt(t, CRLF, i))
  BY <1>1 DEF Finds
<1>5. e \in Nat /\ e >= 1 /\ q + e \in D /\ q + e + 1 <= f /\ e <= f - q
  BY <1>1, <1>2, <1>3
<1>6. IsAt(t, CRLF, q + e) /\ ~ IsAt(t, CRLF, q + e - 1)
  <2>1. IsAt(t, CRLF, q + e)
    BY <1>5 DEF Finds
  <2> QED
    BY <1>5, <2>1, Apart
<1>7. q \notin D /\ q - 1 \in D
  <2>1. ~ IsAt(t, CRLF, (q - 1) + 1)
    BY Apart
  <2>2. (q - 1) + 1 = q /\ q - 1 >= 1 /\ q + 1 <= Len(t) /\ (q - 1) + 1 <= Len(t)
    BY <1>1, <1>5
  <2> QED
    BY <1>4, <2>1, <2>2
<1>8. ASSUME NEW i \in Int, i >= 1 PROVE i \in X <=> q + i \in Y
  BY <1>1, <1>2, <1>5, <1>8
<1>9. Y \subseteq 0 .. q + e /\ X \subseteq 0 .. e /\ q + e \in Nat /\ q - 1 \in Y
  BY <1>3, <1>5, <1>7
<1>10. \A i \in Y : i = q - 1 \/ i < q - 1 \/ (i - q \in X /\ i - q >= 1)
  <2> SUFFICES ASSUME NEW i \in Y, i > q - 1 PROVE i - q \in X /\ i - q >= 1
    BY <1>3
  <2>1. i \in Nat /\ i # q
    BY <1>3, <1>7
  <2>2. i - q \in Int /\ i - q >= 1 /\ q + (i - q) = i
    BY <2>1
  <2> QED
    BY <1>8, <2>2
<1> DEFINE m == Max(X)
           k == Max(Y)
<1>11. k \in Y /\ \A i \in Y : i <= k
  <2> HIDE DEF Y
  <2> QED
    BY <1>9, MaxNat
<1>12. X # {} => m \in X /\ \A i \in X : i <= m
  <2> HIDE DEF X
  <2> QED
    BY <1>5, <1>9, MaxNat
<1>13. LineOf(b, e) = SubSeq(b, IF X = {} THEN 1 ELSE m + 2, e - 1)
  BY DEF LineOf
<1>14. LineOf(t, q + e) = SubSeq(t, k + 2, (q + e) - 1)
  BY <1>9 DEF LineOf
<1>15. \A i \in X : i \in Nat /\ i >= 1 /\ i < e
  BY <1>3
<1>16. \A i \in Y : i \in Nat
  BY <1>3
<1> HIDE DEF b, m, k, X, Y, C, D
<1>17. CASE X = {}
  <2>1. k = q - 1
    BY <1>9, <1>10, <1>11, <1>16, <1>17
  <2>2. LineOf(b, e) = Slice(b, 0, e - 1) /\ LineOf(t, q + e) = Slice(t, q, q + (e - 1))
    <3>1. k + 2 = q + 1 /\ (q + e) - 1 = q + (e - 1) /\ 0 + 1 = 1
      BY <1>5, <2>1
    <3> QED
      BY <1>13, <1>14, <1>17, <3>1 DEF Slice
  <2>3. Slice(b, 0, e - 1) = Slice(t, q, q + (e - 1))
    <3>1. e - 1 \in 0 .. f - q /\ q + 0 = q /\ 0 \in Nat
      BY <1>1, <1>5
    <3>2. Slice(Slice(t, q, f), 0, e - 1) = Slice(t, q + 0, q + (e - 1))
      BY <3>1, SliceCut
    <3> QED
      BY <3>1, <3>2 DEF b
  <2>4. Len(Slice(b, 0, e - 1)) = e - 1 /\ (e = 1 => Slice(b, 0, e - 1) = <<>>)
    <3>1. e - 1 \in 0 .. Len(b) /\ 0 \in 0 .. Len(b) /\ (e - 1) - 0 = e - 1 /\ 0 \in Nat
      BY <1>1, <1>5
    <3>2. Len(Slice(b, 0, e - 1)) = (e - 1) - 0
      BY <1>1, <3>1, SliceType
    <3> QED
      BY <1>1, <3>1, <3>2, SliceNone
  <2>5. LineOf(b, e) = <<>> <=> e = 1
    BY <1>5, <2>2, <2>4, EmptySeq
  <2>6. e = 1 => IsAt(t, CRLF, q + e - 2)
    <3>1. e = 1 => q + e - 2 = q - 1
      OBVIOUS
    <3> QED
      BY <3>1
  <2>7. IsAt(t, CRLF, q + e - 2) => e = 1
    <3> SUFFICES ASSUME IsAt(t, CRLF, q + e - 2), e # 1 PROVE FALSE
      OBVIOUS
    <3>1. q + e - 2 \in D
      <4>1. q + e - 2 \in Int /\ q + e - 2 >= 1 /\ q + e - 2 + 1 <= Len(t)
        BY <1>1, <1>5
      <4> QED
        BY <1>4, <4>1
    <3>2. e = 2 \/ e - 2 >= 1
      BY <1>5
    <3>3. e # 2
      BY <1>7, <3>1
    <3>4. e - 2 \in C
      <4>1. e - 2 \in Int /\ e - 2 >= 1 /\ q + (e - 2) = q + e - 2 /\ q + (e - 2) + 1 <= f
        BY <1>1, <1>5, <3>2, <3>3
      <4> QED
        BY <1>2, <3>1, <4>1
    <3>5. e - 2 \in X
      BY <1>5, <3>4 DEF X
    <3> QED
      BY <1>17, <3>5
  <2> QED
    BY <2>2, <2>3, <2>5, <2>6, <2>7 DEF b
<1>18. CASE X # {}
  <2>1. m \in X /\ m \in Nat /\ m >= 1 /\ m < e /\ \A i \in X : i <= m
    BY <1>12, <1>15, <1>18
  <2>2. q + m \in Y
    BY <1>8, <2>1
  <2>3. k = q + m
    <3>1. q + m <= k /\ k \in Nat
      BY <1>11, <1>16, <2>2
    <3>2. k - q \in X
      BY <1>10, <1>11, <2>1, <3>1
    <3> QED
      BY <2>1, <3>1, <3>2
  <2>4. m # e - 1
    <3>1. q + m \in D
      BY <2>2 DEF Y
    <3>2. IsAt(t, CRLF, q + m)
      BY <3>1 DEF D, Finds
    <3> SUFFICES ASSUME m = e - 1 PROVE FALSE
      OBVIOUS
    <3>3. q + m = q + e - 1
      BY <1>5, <2>1
    <3> QED
      BY <1>6, <3>2, <3>3
  <2>5. m + 1 <= e - 1 /\ m + 1 \in Nat /\ e - 1 \in (m + 1) .. f - q
    BY <1>1, <1>5, <2>1, <2>4
  <2>6. LineOf(b, e) = Slice(b, m + 1, e - 1)
        /\ LineOf(t, q + e) = Slice(t, q + (m + 1), q + (e - 1))
    <3>1. k + 2 = (q + (m + 1)) + 1 /\ (q + e) - 1 = q + (e - 1) /\ m + 2 = (m + 1) + 1
      BY <1>5, <2>1, <2>3
    <3> QED
      BY <1>13, <1>14, <1>18, <3>1 DEF Slice
  <2>7. Slice(b, m + 1, e - 1) = Slice(t, q + (m + 1), q + (e - 1))
    <3> HIDE DEF b
    <3>1. Slice(Slice(t, q, f), m + 1, e - 1) = Slice(t, q + (m + 1), q + (e - 1))
      <4> DEFINE x == m + 1
                 y == e - 1
      <4>1. x \in Nat /\ y \in x .. f - q
        BY <2>5
      <4> HIDE DEF x, y
      <4>2. Slice(Slice(t, q, f), x, y) = Slice(t, q + x, q + y)
        BY <4>1, SliceCut
      <4> QED
        BY <4>2 DEF x, y
    <3> QED
      BY <3>1 DEF b
  <2>8. Len(Slice(b, m + 1, e - 1)) = (e - 1) - (m + 1)
        /\ (m + 1 = e - 1 => Slice(b, m + 1, e - 1) = <<>>)
    <3> DEFINE x == m + 1
               y == e - 1
    <3>1. x \in Nat /\ y \in x .. Len(b) /\ x \in 0 .. Len(b)
      BY <1>1, <2>5
    <3> HIDE DEF x, y
    <3>2. Len(Slice(b, x, y)) = y - x /\ (x = y => Slice(b, x, y) = <<>>)
      BY <1>1, <3>1, SliceType, SliceNone
    <3> QED
      BY <3>2 DEF x, y
  <2>9. LineOf(b, e) = <<>> <=> m = e - 2
    <3>1. m + 1 = e - 1 <=> m = e - 2
      BY <1>5, <2>1
    <3>2. Slice(b, m + 1, e - 1) = <<>> => (e - 1) - (m + 1) = 0
      BY <2>8
    <3>3. (e - 1) - (m + 1) = 0 => m = e - 2
      BY <1>5, <2>1
    <3> QED
      BY <2>6, <2>8, <3>1, <3>2, <3>3
  <2>10. m = e - 2 => IsAt(t, CRLF, q + e - 2)
    <3>1. q + m \in D
      BY <2>2 DEF Y
    <3>2. IsAt(t, CRLF, q + m)
      BY <3>1 DEF D, Finds
    <3>3. m = e - 2 => q + m = q + e - 2
      BY <1>5, <2>1
    <3> QED
      BY <3>2, <3>3
  <2>11. IsAt(t, CRLF, q + e - 2) => m = e - 2
    <3> SUFFICES ASSUME IsAt(t, CRLF, q + e - 2) PROVE m = e - 2
      OBVIOUS
    <3>1. q + e - 2 \in D
      <4>1. q + e - 2 \in Int /\ q + e - 2 >= 1 /\ q + e - 2 + 1 <= Len(t)
        BY <1>1, <1>5
      <4> QED
        BY <1>4, <4>1
    <3>2. e - 2 >= 1 /\ e - 2 \in Int /\ q + (e - 2) = q + e - 2 /\ q + (e - 2) + 1 <= f
      BY <1>1, <1>5, <2>1, <2>4
    <3>3. e - 2 \in C
      BY <1>2, <3>1, <3>2
    <3>4. e - 2 \in X
      BY <1>5, <3>3 DEF X
    <3> QED
      BY <1>5, <2>1, <2>4, <3>4
  <2> QED
    BY <2>6, <2>7, <2>9, <2>10, <2>11 DEF b
<1> QED
  BY <1>17, <1>18

(***************************************************************************)
(* set_headers, within the head of part i: what it leaves is the content   *)
(* after the empty line, once this one is there, or a rest of the head;    *)
(* 400 is for a line of the head that is no header.                        *)
(***************************************************************************)
LEMMA HeadRead ==
    ASSUME upload \in Uploads, PartsMeant(upload), NEW i \in 1 .. Parts,
           h = TRUE, typed \in BOOLEAN,
           NEW q \in Nat, NEW f \in q .. Len(Bytes), InHead(i, q)
    PROVE  LET r == SetHeaders(Slice(Bytes, q, f))
           IN  /\ r.refusal \in {"more", "400", "415"} /\ r.typed \in BOOLEAN
               /\ r.refusal = "400" => BadHeader
               /\ f > Blank(i) => r.created = TRUE /\ r.body = Slice(Bytes, Begins(i), f)
               /\ f <= Blank(i) =>
                    /\ r.created = FALSE
                    /\ \E p \in q .. f : InHead(i, p) /\ r.body = Slice(Bytes, p, f)
<1> DEFINE b == Slice(Bytes, q, f)
           C == Finds(b, CRLF)
           D == Finds(Bytes, CRLF)
           N == {e \in C : LineOf(b, e) = <<>>}
           G == IF N = {} THEN C ELSE {e \in C : e <= Min(N)}
           L == {LineOf(b, e) : e \in G \ N}
           K == typed \/ \E l \in L : "t" \in Range(l)
           r == SetHeaders(b)
<1>1. Bytes \in Seq(STRING) /\ Len(Bytes) \in Nat /\ f \in Nat
      /\ b \in Seq(STRING) /\ Len(b) = f - q
  <2>1. Bytes \in Seq(STRING) /\ Len(Bytes) \in Nat /\ f \in Nat
    BY UploadIs
  <2>2. b \in Seq(STRING) /\ Len(b) = f - q
    BY <2>1, SliceType
  <2> QED
    BY <2>1, <2>2
<1>2. /\ At(i) \in 1 .. Len(Bytes) /\ Blank(i) \in Nat /\ Begins(i) = Blank(i) + 1
      /\ At(i) + 5 <= Blank(i) /\ IsAt(Bytes, CRLF, Blank(i))
      /\ IsAt(Bytes, CRLF, Blank(i) - 2)
      /\ \A e \in D : e >= At(i) + 5 /\ IsAt(Bytes, CRLF, e - 2) => Blank(i) <= e
      /\ At(i) \in Finds(Bytes, StartLine) /\ i \in Nat
  <2>1. At(i) \in Finds(Bytes, StartLine)
    BY PartPlaces
  <2> QED
    BY <2>1, HeadPlaces
<1>3. At(i) + 4 <= q /\ q < Blank(i) /\ IsAt(Bytes, CRLF, q - 1) /\ q >= 2
  BY <1>2 DEF InHead
<1>4. \A e \in Int : e \in C <=> e >= 1 /\ q + e \in D /\ q + e + 1 <= f
  <2> SUFFICES ASSUME NEW e \in Int
               PROVE  e \in C <=> e >= 1 /\ q + e \in D /\ q + e + 1 <= f
    OBVIOUS
  <2>1. Len(CRLF) \in Nat \ {0} /\ DOMAIN CRLF = 1 .. Len(CRLF) /\ Len(CRLF) = 2
    BY Markers
  <2>2. e \in C <=> e >= 1 /\ q + e \in D /\ q + e + Len(CRLF) - 1 <= f
    BY <1>1, <2>1, SliceFinds
  <2> QED
    BY <2>1, <2>2, <1>1
<1>5. C \subseteq 1 .. Len(b) /\ C \subseteq Nat /\ D \subseteq 1 .. Len(Bytes)
  BY <1>1, FindsWithin
<1>6. \A e \in C : /\ LineOf(b, e) = LineOf(Bytes, q + e)
                   /\ LineOf(b, e) = <<>> <=> IsAt(Bytes, CRLF, q + e - 2)
  BY <1>1, <1>3, LineRead
<1>7. \A e \in Int : e >= 1 /\ e + 1 <= Len(Bytes) => (e \in D <=> IsAt(Bytes, CRLF, e))
  BY <1>1 DEF Finds
<1>8. \A e \in N : e \in C /\ e \in Nat /\ q + e >= Blank(i)
  <2> SUFFICES ASSUME NEW e \in N PROVE q + e >= Blank(i)
    BY <1>5
  <2>1. e \in C /\ e \in Nat /\ e >= 1 /\ q + e \in D /\ IsAt(Bytes, CRLF, q + e - 2)
    BY <1>4, <1>5, <1>6
  <2>2. q + e >= At(i) + 5
    BY <1>2, <1>3, <2>1
  <2> QED
    BY <1>2, <2>1, <2>2
<1>9. f > Blank(i) => Blank(i) - q \in N
  <2> SUFFICES ASSUME f > Blank(i) PROVE Blank(i) - q \in N
    OBVIOUS
  <2>1. Blank(i) \in D /\ Blank(i) - q \in Int /\ Blank(i) - q >= 1
        /\ q + (Blank(i) - q) = Blank(i)
    <3>1. Blank(i) >= 1 /\ Blank(i) + 1 <= Len(Bytes)
      BY <1>1, <1>2, <1>3
    <3> QED
      BY <1>2, <1>3, <1>7, <3>1
  <2>2. Blank(i) - q \in C
    BY <1>1, <1>2, <1>4, <2>1
  <2>3. IsAt(Bytes, CRLF, q + (Blank(i) - q) - 2)
    BY <1>2, <2>1
  <2> QED
    BY <1>6, <2>2, <2>3
<1>10. f <= Blank(i) => N = {}
  <2> SUFFICES ASSUME f <= Blank(i), NEW e \in N PROVE FALSE
    OBVIOUS
  <2>1. e \in Nat /\ q + e + 1 <= f /\ q + e >= Blank(i)
    BY <1>4, <1>8
  <2> QED
    BY <1>1, <1>2, <2>1
<1>11. r = [refusal |-> IF \E l \in L : {"t", "x"} \cap Range(l) = {} THEN "400"
                        ELSE IF N # {} /\ ~K THEN "415" ELSE "more",
            created |-> N # {},
            typed   |-> K,
            body    |-> IF G = {} THEN b ELSE Drop(b, Max(G) + 1)]
  BY DEF SetHeaders
<1>12. ASSUME N # {} PROVE Min(N) = Blank(i) - q /\ f > Blank(i)
  <2>1. f > Blank(i)
    BY <1>1, <1>2, <1>10, <1>12
  <2>2. N \subseteq Nat
    BY <1>8
  <2>3. Min(N) \in N /\ \A e \in N : Min(N) <= e
    <3> HIDE DEF N
    <3> QED
      BY <1>12, <2>2, MinNat
  <2>4. Min(N) \in Nat /\ q + Min(N) >= Blank(i) /\ Min(N) <= Blank(i) - q
    BY <1>8, <1>9, <2>1, <2>3
  <2> QED
    BY <1>2, <2>1, <2>4
<1>13. \A e \in G \ N : e \in C /\ q + e \in D /\ At(i) + 5 <= q + e /\ q + e < Blank(i)
                        /\ LineOf(b, e) = LineOf(Bytes, q + e)
  <2> SUFFICES ASSUME NEW e \in G \ N
               PROVE  e \in C /\ q + e \in D /\ At(i) + 5 <= q + e /\ q + e < Blank(i)
                      /\ LineOf(b, e) = LineOf(Bytes, q + e)
    OBVIOUS
  <2>1. e \in C /\ e \in Nat /\ e >= 1 /\ q + e \in D /\ q + e + 1 <= f
    BY <1>4, <1>5
  <2>2. q + e < Blank(i)
    <3>1. CASE N = {}
      <4>1. f <= Blank(i)
        BY <1>1, <1>2, <1>9, <3>1
      <4> QED
        BY <1>1, <1>2, <2>1, <4>1
    <3>2. CASE N # {}
      <4>1. Min(N) = Blank(i) - q /\ e <= Min(N)
        BY <1>12, <3>2
      <4>2. Min(N) \in N
        BY <1>9, <1>12, <3>2
      <4>3. e # Min(N)
        BY <4>2
      <4> HIDE DEF N
      <4> QED
        BY <1>2, <2>1, <4>1, <4>3
    <3> QED
      BY <3>1, <3>2
  <2> QED
    BY <1>2, <1>3, <1>6, <2>1, <2>2
<1>14. ASSUME NEW l \in L, {"t", "x"} \cap Range(l) = {} PROVE BadHeader
  <2>1. PICK e \in G \ N : l = LineOf(b, e)
    OBVIOUS
  <2>2. q + e \in D /\ At(i) + 5 <= q + e /\ q + e < Blank(i) /\ l = LineOf(Bytes, q + e)
    BY <1>13, <2>1
  <2>3. At(i) + Len(StartLine) <= q + e
    BY <2>2, Markers
  <2> QED
    BY <1>2, <1>14, <2>2, <2>3 DEF BadHeader, Blank, Bytes
<1>15. r.refusal \in {"more", "400", "415"} /\ r.typed \in BOOLEAN
       /\ (r.refusal = "400" => \E l \in L : {"t", "x"} \cap Range(l) = {})
  <2> DEFINE bad == \E l \in L : {"t", "x"} \cap Range(l) = {}
             lost == N # {} /\ ~K
  <2>1. r.refusal = (IF bad THEN "400" ELSE IF lost THEN "415" ELSE "more") /\ r.typed = K
    BY <1>11
  <2>2. K \in BOOLEAN
    OBVIOUS
  <2> HIDE DEF bad, lost, K, r
  <2>3. r.refusal \in {"more", "400", "415"} /\ (r.refusal = "400" => bad)
    BY <2>1
  <2>4. r.typed \in BOOLEAN
    BY <2>1, <2>2
  <2> QED
    BY <2>3, <2>4 DEF bad
<1>16. r.created = (N # {}) /\ r.body = IF G = {} THEN b ELSE Drop(b, Max(G) + 1)
  BY <1>11
<1>17. G \subseteq C /\ G \subseteq 0 .. Len(b) /\ Len(b) \in Nat
  BY <1>1, <1>5
<1>18. ASSUME f > Blank(i) PROVE r.created = TRUE /\ r.body = Slice(Bytes, Begins(i), f)
  <2>1. N # {} /\ Min(N) = Blank(i) - q /\ Blank(i) - q \in N
    BY <1>9, <1>12, <1>18
  <2>2. Blank(i) - q \in G /\ \A e \in G : e <= Blank(i) - q
    <3>1. N \subseteq C /\ Blank(i) - q \in C
      BY <2>1
    <3>2. \A e \in G : e <= Min(N)
      BY <2>1
    <3>3. Min(N) \in Int /\ Min(N) <= Min(N)
      BY <1>2, <2>1
    <3> HIDE DEF C
    <3> QED
      BY <2>1, <3>1, <3>2, <3>3
  <2>3. Max(G) \in G /\ \A e \in G : e <= Max(G)
    <3> HIDE DEF G
    <3> QED
      BY <1>17, <2>2, MaxNat
  <2>4. Max(G) = Blank(i) - q
    <3>1. Max(G) \in Nat
      <4>1. C \subseteq Nat /\ G \subseteq C
        BY <1>5, <1>17
      <4> HIDE DEF C, G
      <4> QED
        BY <2>3, <4>1
    <3> HIDE DEF G
    <3> QED
      BY <1>2, <2>2, <2>3, <3>1
  <2>5. r.body = Drop(b, (Blank(i) - q) + 1)
    <3> HIDE DEF G, r
    <3> QED
      BY <1>16, <2>2, <2>4
  <2>6. (Blank(i) - q) + 1 \in 0 .. f - q /\ q + ((Blank(i) - q) + 1) = Begins(i)
    <3> DEFINE z == Blank(i)
               y == Begins(i)
    <3>1. z \in Nat /\ q \in Nat /\ f \in Nat /\ q <= z /\ y = z + 1 /\ f > z
      BY <1>1, <1>2, <1>3, <1>18
    <3> HIDE DEF z, y
    <3>2. (z - q) + 1 \in 0 .. f - q /\ q + ((z - q) + 1) = y
      BY <3>1
    <3> QED
      BY <3>2 DEF z, y
  <2> DEFINE n == (Blank(i) - q) + 1
  <2>7. Drop(b, n) = Slice(Bytes, q + n, f)
    <3>1. n \in 0 .. f - q
      BY <2>6
    <3> HIDE DEF n
    <3> QED
      BY <1>1, <3>1, SliceDrop
  <2>8. r.created = TRUE
    BY <1>16, <2>1
  <2> QED
    BY <2>5, <2>6, <2>7, <2>8
<1>19. ASSUME f <= Blank(i)
       PROVE  r.created = FALSE /\ \E p \in q .. f : InHead(i, p) /\ r.body = Slice(Bytes, p, f)
  <2>1. N = {} /\ G = C /\ r.created = FALSE
    BY <1>10, <1>16, <1>19
  <2>2. CASE G = {}
    <3>1. r.body = Slice(Bytes, q, f)
      BY <1>16, <2>2
    <3>2. q \in q .. f
      BY <1>1
    <3> QED
      BY <2>1, <3>1, <3>2
  <2>3. CASE G # {}
    <3> DEFINE m == Max(G)
    <3>1. m \in C
      <4>1. m \in G
        <5> HIDE DEF G
        <5> QED
          BY <1>17, <2>3, MaxNat
      <4> QED
        BY <1>17, <4>1
    <3>2. r.body = Drop(b, m + 1)
      BY <1>16, <2>3
    <3> HIDE DEF m
    <3>3. m \in Nat /\ m >= 1 /\ q + m \in D /\ q + m + 1 <= f
      BY <1>4, <1>5, <3>1
    <3> DEFINE n == m + 1
    <3>4. n \in 0 .. f - q /\ q + n \in q .. f /\ q + n \in Nat
      BY <1>1, <3>3
    <3>5. r.body = Slice(Bytes, q + n, f)
      <4> HIDE DEF n
      <4>1. Drop(b, n) = Slice(Bytes, q + n, f)
        BY <1>1, <3>4, SliceDrop
      <4> QED
        BY <3>2, <4>1 DEF n
    <3>6. IsAt(Bytes, CRLF, q + m) /\ (q + n) - 1 = q + m
      BY <3>3 DEF Finds
    <3>7. q + n # Blank(i)
      <4>1. ~ IsAt(Bytes, CRLF, (q + m) + 1)
        BY <3>3, <3>6, Apart
      <4>2. (q + m) + 1 = q + n
        BY <3>3
      <4> QED
        BY <1>2, <4>1, <4>2
    <3>8. InHead(i, q + n)
      <4>1. At(i) + 4 <= q + n /\ q + n < Blank(i)
        <5> DEFINE k == q + n
        <5>1. k \in q .. f /\ k # Blank(i)
          BY <3>4, <3>7
        <5> HIDE DEF k
        <5>2. At(i) + 4 <= k /\ k < Blank(i)
          BY SMTT(15), ZenonT(20), <1>1, <1>2, <1>3, <1>19, <5>1
        <5> QED
          BY <5>2 DEF k
      <4>2. IsAt(Bytes, CRLF, (q + n) - 1)
        BY <3>6
      <4> HIDE DEF n
      <4> QED
        BY <4>1, <4>2 DEF InHead
    <3> HIDE DEF n
    <3> QED
      BY <2>1, <3>4, <3>5, <3>8
  <2> QED
    BY <2>2, <2>3
<1> QED
  <2> HIDE DEF r, b
  <2>1. /\ r.refusal \in {"more", "400", "415"} /\ r.typed \in BOOLEAN
        /\ r.refusal = "400" => BadHeader
    BY <1>14, <1>15
  <2>2. /\ f > Blank(i) => r.created = TRUE /\ r.body = Slice(Bytes, Begins(i), f)
        /\ f <= Blank(i) =>
             /\ r.created = FALSE
             /\ \E p \in q .. f : InHead(i, p) /\ r.body = Slice(Bytes, p, f)
    BY <1>18, <1>19
  <2> QED
    BY <2>1, <2>2 DEF r, b

\* Outside a head it leaves everything as it is.
LEMMA NoHead ==
    ASSUME h = FALSE, typed \in BOOLEAN, NEW b
    PROVE  LET r == SetHeaders(b)
           IN  r.refusal = "more" /\ r.created = FALSE /\ r.typed \in BOOLEAN /\ r.body = b
BY DEF SetHeaders
-------------------------------------------------------------------------------
\* What the invariant says of the state on its own.
LEMMA Context ==
    ASSUME Inv
    PROVE  /\ upload \in Uploads /\ upload \in Upload /\ WellFormed(upload)
           /\ Bytes \in Seq(STRING) /\ Wired \in Seq(STRING)
           /\ Len(Bytes) \in Nat /\ Len(Wired) \in Nat
           /\ pos \in 0 .. Len(Wired) /\ pos \in Nat /\ idle \in 0 .. MaxIdle
           /\ mode \in NoMode .. 4 /\ is_cgi \in BOOLEAN /\ h \in BOOLEAN
           /\ typed \in BOOLEAN /\ repeated \in BOOLEAN /\ upload.dir \in BOOLEAN
           /\ max_size \in Nat /\ chunked_size \in Nat
           /\ rest \in Seq(STRING) /\ brest \in Seq(STRING) /\ body \in Seq(STRING)
           /\ out \in [is_open : BOOLEAN, files : Seq(Seq(STRING))]
           /\ fed \in 0 .. Len(Bytes) /\ fed \in Nat /\ cuts \subseteq BadEnds
           /\ upload.encoding = "none" => Wired = Bytes /\ fed = pos
<1>1. upload \in Uploads
  BY DEF Inv, TypeOK
<1>2. upload \in Upload /\ WellFormed(upload) /\ Bytes \in Seq(STRING) /\ Wired \in Seq(STRING)
      /\ Len(Bytes) \in Nat /\ Len(Wired) \in Nat
  BY <1>1, UploadIs
<1>3. pos \in 0 .. Len(Wired) /\ fed \in 0 .. Len(Bytes)
  BY DEF Inv, TypeOK, Bytes, Wired
<1>4. pos \in Nat /\ fed \in Nat
  BY <1>2, <1>3
<1>5. upload.dir \in BOOLEAN
  BY <1>2 DEF Upload
<1>6. upload.encoding = "none" => Wired = Bytes /\ fed = pos
  BY <1>2 DEF Inv, Modes, WellFormed, Bytes, Wired
<1>7. /\ idle \in 0 .. MaxIdle /\ mode \in NoMode .. 4
      /\ is_cgi \in BOOLEAN /\ h \in BOOLEAN /\ typed \in BOOLEAN /\ repeated \in BOOLEAN
      /\ max_size \in Nat /\ chunked_size \in Nat
      /\ rest \in Seq(STRING) /\ brest \in Seq(STRING) /\ body \in Seq(STRING)
      /\ out \in [is_open : BOOLEAN, files : Seq(Seq(STRING))] /\ cuts \subseteq BadEnds
  BY DEF Inv, TypeOK
<1> QED
  BY <1>1, <1>2, <1>3, <1>4, <1>5, <1>6, <1>7

\* What a mode says of the request.
LEMMA InMode ==
    ASSUME Inv, mode # NoMode
    PROVE  /\ mode \in 0 .. 4
           /\ upload.encoding = (IF mode \in {1, 3} THEN "chunked" ELSE "none")
           /\ mode = 4 => is_cgi
           /\ mode \in {2, 3} => ~is_cgi
           /\ mode \in {2, 3, 4} => PartsMeant(upload)
           /\ mode \in {1, 3} => ChunksMeant(upload)
           /\ mode \in {0, 2, 4} => Wired = Bytes
           /\ mode = 0 \/ (mode = 1 /\ ~is_cgi) => upload.parts = <<Bytes>>
<1>1. upload \in Uploads /\ is_cgi \in BOOLEAN
  BY Context
<1>2. Refusal(upload) = "more" /\ mode = ModeOf(upload, is_cgi)
  BY DEF Inv, Modes
<1> QED
  BY <1>1, <1>2, ModeIs DEF Bytes, Wired

\* Closing the stream leaves the files.
LEMMA ClosedIs ==
    ASSUME NEW o, NEW fs
    PROVE  ClosedOut([is_open |-> o, files |-> fs]) = [is_open |-> FALSE, files |-> fs]
BY DEF ClosedOut

\* Writing to the only file.
LEMMA WriteHolds ==
    ASSUME upload.dir \in BOOLEAN, NEW x \in Seq(STRING), NEW y \in Seq(STRING),
           Holds(x), status = "more"
    PROVE  /\ Write(out, y) = [is_open  |-> upload.dir,
                               files |-> IF upload.dir THEN <<x \o y>> ELSE <<>>]
           /\ ClosedOut(Write(out, y)) = [is_open  |-> FALSE,
                               files |-> IF upload.dir THEN <<x \o y>> ELSE <<>>]
           /\ ClosedOut(out) = [is_open |-> FALSE, files |-> IF upload.dir THEN <<x>> ELSE <<>>]
<1>1. out = [is_open |-> upload.dir, files |-> IF upload.dir THEN <<x>> ELSE <<>>]
  BY DEF Holds
<1>2. CASE upload.dir = TRUE
  <2>1. out = [is_open |-> TRUE, files |-> <<x>>] /\ Len(<<x>>) = 1
    BY <1>1, <1>2
  <2>2. [<<x>> EXCEPT ![1] = @ \o y] = <<x \o y>>
    OBVIOUS
  <2>3. Write(out, y) = [is_open |-> TRUE, files |-> <<x \o y>>]
    BY <2>1, <2>2 DEF Write
  <2>4. ClosedOut(out) = [is_open |-> FALSE, files |-> <<x>>]
        /\ ClosedOut(Write(out, y)) = [is_open |-> FALSE, files |-> <<x \o y>>]
    BY <2>1, <2>3, ClosedIs
  <2> QED
    BY <1>2, <2>3, <2>4
<1>3. CASE upload.dir = FALSE
  <2>1. out = [is_open |-> FALSE, files |-> <<>>]
    BY <1>1, <1>3
  <2>2. Write(out, y) = out
    BY <2>1 DEF Write
  <2>3. ClosedOut(out) = [is_open |-> FALSE, files |-> <<>>]
    BY <2>1, ClosedIs
  <2> QED
    BY <1>3, <2>1, <2>2, <2>3
<1> QED
  BY <1>2, <1>3

LEMMA InitInv ==
    ASSUME Init
    PROVE  Inv
<1>1. upload \in Uploads
  BY DEF Init
<1>2. Slice(Wired, 0, 0) = <<>> /\ Len(Bytes) \in Nat /\ Len(Wired) \in Nat
  BY <1>1, UploadIs
<1>3. TypeOK
  <2>1. <<>> \in Seq(STRING) /\ <<>> \in Seq(Seq(STRING)) /\ 0 \in 0 .. Len(Bytes)
        /\ 0 \in 0 .. Len(Wired) /\ 0 \in 0 .. MaxIdle
    BY <1>2, PostAssumption
  <2>2. NoMode \in NoMode .. 4
    BY DEF NoMode
  <2> QED
    BY <2>1, <2>2 DEF Init, TypeOK, Bytes, Wired
<1>4. Modes
  BY <1>2 DEF Init, Modes, NoMode
<1>5. Counted /\ Copied /\ Dechunked /\ Divided /\ RefusedForSizeLine
  BY DEF Init, Counted, Copied, Dechunked, Divided, RefusedForSizeLine, NoMode
<1> QED
  BY <1>3, <1>4, <1>5 DEF Inv
-------------------------------------------------------------------------------
\* The invariant of the next state, from what a step has to tell about it.
LEMMA HoldsNext ==
    ASSUME UNCHANGED upload, NEW a, NEW b,
           out' = [is_open |-> upload.dir /\ status' # "201",
                   files   |-> IF upload.dir THEN <<Slice(Bytes, a, b)>> ELSE <<>>]
    PROVE  Holds(Slice(Bytes, a, b))'
BY SameRequest DEF Holds

LEMMA HoldsStill ==
    ASSUME UNCHANGED <<upload, out>>, status' # "201", status # "201", NEW a, NEW b,
           Holds(Slice(Bytes, a, b))
    PROVE  Holds(Slice(Bytes, a, b))'
BY SameRequest DEF Holds

LEMMA CopiedNext ==
    ASSUME UNCHANGED upload, status' = "more", NEW q \in 0 .. pos',
           EndsLike(brest', Bytes, q),
           ~repeated' => \E w \in 0 .. q : HeldAfter(w, q)',
           pc' = "raw" => body' = Slice(Bytes, q, pos'),
           pc' = "recv" => q = pos' /\ pos' < Len(Bytes)
    PROVE  Copied'
BY SameRequest DEF Copied

LEMMA DechunkedNext ==
    ASSUME UNCHANGED upload, NEW r \in 0 .. pos', NEW p \in 0 .. Len(Bytes),
           rest' = Slice(Wired, r, pos'), InChunk(r, p)', Passed(p)',
           pc' = "recv" /\ status' = "more" =>
               rest' = <<>> \/ (chunked_size' = 0 /\ Finds(rest', CRLF) = {})
    PROVE  Dechunked'
BY SameRequest DEF Dechunked

LEMMA DividedNext ==
    ASSUME UNCHANGED upload, status' # "201", NEW i \in 0 .. Parts, NEW q \in 0 .. fed',
           Stands(i, q)'
    PROVE  Divided'
BY SameRequest DEF Divided

LEMMA PostRequestKeeps ==
    ASSUME Inv, PostRequest
    PROVE  Inv'
<1> DEFINE e == pos'
<1>1. /\ upload \in Uploads /\ upload \in Upload
      /\ Bytes \in Seq(STRING) /\ Wired \in Seq(STRING)
      /\ Len(Bytes) \in Nat /\ Len(Wired) \in Nat
      /\ pos \in 0 .. Len(Wired) /\ pos \in Nat /\ idle \in 0 .. MaxIdle
      /\ mode \in NoMode .. 4
      /\ rest \in Seq(STRING) /\ brest \in Seq(STRING) /\ body \in Seq(STRING)
      /\ fed \in 0 .. Len(Bytes) /\ fed \in Nat
      /\ upload.encoding = "none" => Wired = Bytes /\ fed = pos
  BY Context
<1>2. PICK n \in 0 .. Len(upload.stream) - pos :
          LET content == SubSeq(upload.stream, pos + 1, pos + n)
          IN  /\ n = 0 => idle < MaxIdle
              /\ pos' = pos + n
              /\ idle' = IF n = 0 THEN idle + 1 ELSE idle
              /\ body' = IF mode = 2 THEN brest \o content ELSE content
              /\ rest' = IF mode \in {1, 3} THEN rest \o content ELSE rest
              /\ fed' = IF upload.encoding = "none" THEN fed + n ELSE fed
  BY DEF PostRequest
<1>3. /\ pc = "recv" /\ status = "more" /\ pc' = IF mode = NoMode THEN "init" ELSE Function(mode)
      /\ UNCHANGED <<upload, status, mode, is_cgi, max_size, chunked_size, brest, h, typed,
                     out, cuts, repeated>>
  BY DEF PostRequest, modeVars, partVars
<1>4. /\ n \in Nat /\ e = pos + n /\ e \in pos .. Len(Wired) /\ e \in Nat
      /\ e \in 0 .. Len(Wired)
  BY <1>1, <1>2 DEF Wired
<1> DEFINE content == Slice(Wired, pos, e)
<1>5. content \in Seq(STRING)
  <2> HIDE DEF e
  <2> QED
    BY <1>1, <1>4, SliceType
<1>6. /\ body' = IF mode = 2 THEN brest \o content ELSE content
      /\ rest' = IF mode \in {1, 3} THEN rest \o content ELSE rest
      /\ fed' = IF upload.encoding = "none" THEN fed + n ELSE fed
      /\ idle' \in 0 .. MaxIdle
  <2>1. SubSeq(upload.stream, pos + 1, pos + n) = content
    BY <1>4 DEF Slice, Wired
  <2>2. idle' \in 0 .. MaxIdle
    BY <1>1, <1>2, PostAssumption
  <2> HIDE DEF content, e
  <2> QED
    BY <1>2, <2>1, <2>2
<1>7. body' \in Seq(STRING) /\ rest' \in Seq(STRING)
  <2> HIDE DEF content
  <2> QED
    BY <1>1, <1>5, <1>6, ConcatProperties
<1>8. fed' \in 0 .. Len(Bytes) /\ (upload.encoding = "none" => fed' = e)
  BY <1>1, <1>4, <1>6
<1>9. Bytes' = Bytes /\ Wired' = Wired /\ Parts' = Parts /\ BadEnds' = BadEnds
      /\ (\A i : At(i)' = At(i) /\ Blank(i)' = Blank(i) /\ Begins(i)' = Begins(i))
      /\ (\A i, q : InHead(i, q)' = InHead(i, q))
      /\ LongSizeLine' = LongSizeLine /\ BadHeader' = BadHeader
  BY <1>3, SameRequest
<1> HIDE DEF content, e
<1>10. TypeOK'
  <2>1. pc' \in {"recv", "init", "chunked", "boundarry", "raw"}
    BY <1>1, <1>3 DEF Function, NoMode
  <2> QED
    BY <1>3, <1>4, <1>6, <1>7, <1>8, <1>9, <2>1 DEF Inv, TypeOK, Bytes, Wired, e
<1>11. CASE mode = NoMode
  <2>1. /\ out = [is_open |-> FALSE, files |-> <<>>] /\ ~is_cgi /\ ~h /\ ~repeated
        /\ max_size = 0 /\ chunked_size = 0 /\ rest = <<>> /\ brest = <<>> /\ cuts = {}
        /\ pos = 0 /\ fed = 0
    BY <1>1, <1>3, <1>11 DEF Inv, Modes
  <2>2. pc' = "init" /\ body' = Slice(Wired, 0, e) /\ rest' = <<>>
    BY <1>3, <1>6, <1>11, <2>1 DEF content, NoMode
  <2>3. fed' = IF upload.encoding = "none" THEN e ELSE 0
    BY <1>6, <1>8, <2>1
  <2>4. Modes'
    BY <1>3, <1>9, <1>11, <2>1, <2>2, <2>3 DEF Modes, e
  <2>5. Counted' /\ Copied' /\ Dechunked' /\ Divided' /\ RefusedForSizeLine'
    BY <1>3, <1>11 DEF Counted, Copied, Dechunked, Divided, RefusedForSizeLine, NoMode
  <2> QED
    BY <1>10, <2>4, <2>5 DEF Inv
<1>12. CASE mode # NoMode
  <2>1. /\ mode \in 0 .. 4
        /\ upload.encoding = (IF mode \in {1, 3} THEN "chunked" ELSE "none")
        /\ mode \in {0, 2, 4} => Wired = Bytes
    BY <1>12, InMode
  <2>2. pc' = Function(mode)
    BY <1>3, <1>12
  <2>3. Modes'
    <3>1. Refusal(upload)' = Refusal(upload) /\ ModeOf(upload, is_cgi)' = ModeOf(upload, is_cgi)
      BY <1>3
    <3>2. /\ pc' = "init" => mode = NoMode
          /\ pc' = "chunked" => mode \in {1, 3}
          /\ pc' = "boundarry" => mode \in {2, 3}
          /\ pc' = "raw" => mode \in {0, 4}
      BY <2>1, <2>2 DEF Function
    <3> QED
      BY <1>3, <1>8, <1>12, <3>1, <3>2 DEF Inv, Modes, e
  <2>4. Counted'
    <3> SUFFICES ASSUME mode = 0 PROVE Counted'
      BY <1>3 DEF Counted
    <3>1. PICK w \in 0 .. Len(Bytes) :
            /\ Holds(Slice(Bytes, 0, w)) /\ w = pos
            /\ LengthHolds(upload) => max_size = Len(Bytes) - w
      BY <1>3 DEF Inv, Counted
    <3>2. Holds(Slice(Bytes, 0, w))'
      BY <1>3, <1>9, <3>1 DEF Holds
    <3>3. pc' = "raw" /\ body' = Slice(Bytes, w, e) /\ w <= e
      BY <1>4, <1>6, <2>1, <2>2, <3>1 DEF Function, content
    <3> QED
      BY <1>3, <1>9, <3>1, <3>2, <3>3 DEF Counted, e
  <2>5. Copied'
    <3> SUFFICES ASSUME mode = 4 PROVE Copied'
      BY <1>3 DEF Copied
    <3>1. PICK q \in 0 .. pos :
            /\ EndsLike(brest, Bytes, q) /\ q = pos
            /\ ~repeated => \E w \in 0 .. q : HeldAfter(w, q)
      BY <1>3 DEF Inv, Copied
    <3>2. pc' = "raw"
      BY <2>2 DEF Function
    <3>3. body' = Slice(Bytes, q, e)
      <4>1. body' = content
        BY <1>6
      <4> QED
        BY <2>1, <3>1, <4>1 DEF content
    <3>4. q \in 0 .. e
      BY <1>1, <1>4
    <3>5. ASSUME ~repeated PROVE \E w \in 0 .. q : HeldAfter(w, q)'
      <4>1. PICK w \in 0 .. q : HeldAfter(w, q)
        BY <3>1, <3>5
      <4>2. Holds(Slice(Bytes, 0, w))'
        BY <1>3, <4>1, HoldsStill DEF HeldAfter
      <4> QED
        BY <1>3, <1>9, <4>1, <4>2 DEF HeldAfter
    <3>6. EndsLike(brest', Bytes, q)
      BY <1>3, <3>1
    <3> QED
      BY <1>3, <3>2, <3>3, <3>4, <3>5, <3>6, CopiedNext DEF e
  <2>6. Dechunked'
    <3> SUFFICES ASSUME mode \in {1, 3} PROVE Dechunked'
      BY <1>3 DEF Dechunked
    <3>1. PICK r \in 0 .. pos, p \in 0 .. Len(Bytes) :
            rest = Slice(Wired, r, pos) /\ InChunk(r, p) /\ Passed(p)
      BY DEF Inv, Dechunked
    <3>2. r \in 0 .. e /\ r \in Nat /\ pos \in r .. Len(Wired) /\ e \in pos .. Len(Wired)
      BY <1>1, <1>4
    <3>3. rest' = Slice(Wired, r, e)
      BY <1>1, <1>6, <3>1, <3>2, SliceJoin DEF content
    <3>4. InChunk(r, p)'
      BY <1>3, <3>1 DEF InChunk
    <3>5. pc' = "chunked" /\ pc' # "recv" /\ pc' # "raw"
      BY <2>2 DEF Function
    <3>6. Passed(p)'
      <4>1. mode = 3 => fed' = p
        BY <1>6, <2>1, <3>1 DEF Passed
      <4>2. mode = 1 => Holds(Slice(Bytes, 0, p))
        BY <1>3, <3>1 DEF Passed
      <4>3. mode = 1 => Holds(Slice(Bytes, 0, p))'
        BY <1>3, <4>2, HoldsStill
      <4> QED
        BY <1>3, <3>5, <4>1, <4>3 DEF Passed
    <3> QED
      BY <1>3, <3>1, <3>2, <3>3, <3>4, <3>5, <3>6, DechunkedNext DEF e
  <2>7. Divided'
    <3> SUFFICES ASSUME mode \in {2, 3} PROVE Divided'
      BY <1>3 DEF Divided
    <3>1. PICK i \in 0 .. Parts, q \in 0 .. fed : Stands(i, q)
      BY <1>3 DEF Inv, Divided
    <3>2. FilesTo(i, q)'
      <4>1. FilesTo(i, q)
        BY <3>1 DEF Stands
      <4>2. \A j : Complete(j)' = Complete(j)
        BY <1>3, <1>9 DEF Complete, FileDone, EndsPart
      <4> QED
        BY <1>3, <1>9, <4>1, <4>2 DEF FilesTo
    <3>3. InPart(i, q)' = InPart(i, q)
      BY <1>3, <1>9 DEF InPart, Margin
    <3>4. brest = Slice(Bytes, q, fed) /\ Noticed(i, q)
      BY <1>3 , <3>1 DEF Stands
    <3>5. (IF pc' = "boundarry" THEN body' ELSE brest) = Slice(Bytes, q, fed')
      <4>1. CASE mode = 2
        <5>1. body' = brest \o Slice(Bytes, fed, fed')
          <6>1. fed' = e /\ fed = pos /\ Wired = Bytes /\ body' = brest \o content
            BY <1>1, <1>6, <1>8, <2>1, <4>1
          <6> QED
            BY <6>1 DEF content
        <5>2. q \in Nat /\ fed \in q .. Len(Bytes) /\ fed' \in fed .. Len(Bytes)
          BY <1>1, <1>4, <1>8, <2>1, <4>1
        <5>3. body' = Slice(Bytes, q, fed')
          <6> DEFINE g == fed'
          <6>1. g \in fed .. Len(Bytes)
            BY <5>2
          <6> HIDE DEF g
          <6>2. Slice(Bytes, q, fed) \o Slice(Bytes, fed, g) = Slice(Bytes, q, g)
            BY <1>1, <5>2, <6>1, SliceJoin
          <6> QED
            BY <3>4, <5>1, <6>2 DEF g
        <5> QED
          BY <2>2, <4>1, <5>3 DEF Function
      <4>2. CASE mode = 3
        <5>1. pc' = "chunked" /\ fed' = fed
          BY <1>6, <2>1, <2>2, <4>2 DEF Function
        <5> QED
          BY <3>4, <5>1
      <4> QED
        BY <4>1, <4>2
    <3>6. pc' # "boundarry" => Noticed(i, q)'
      <4> SUFFICES ASSUME pc' # "boundarry" PROVE Noticed(i, q)'
        OBVIOUS
      <4>1. fed' = fed
        BY <1>6, <2>1, <2>2 DEF Function
      <4> QED
        BY <1>3, <1>9, <3>4, <4>1 DEF Noticed
    <3>7. Stands(i, q)'
      BY <1>3, <1>9, <3>1, <3>2, <3>3, <3>5, <3>6 DEF Stands
    <3>8. q \in 0 .. fed'
      BY <1>1, <1>4, <1>6, <1>8
    <3> QED
      BY <1>3, <3>7, <3>8, DividedNext
  <2>8. RefusedForSizeLine'
    BY <1>3 DEF RefusedForSizeLine
  <2> QED
    BY <1>10, <2>3, <2>4, <2>5, <2>6, <2>7, <2>8 DEF Inv
<1> QED
  BY <1>11, <1>12

LEMMA InitPostKeeps ==
    ASSUME Inv, InitPost
    PROVE  Inv'
<1>1. /\ upload \in Uploads /\ upload \in Upload
      /\ Bytes \in Seq(STRING) /\ Wired \in Seq(STRING)
      /\ Len(Bytes) \in Nat /\ Len(Wired) \in Nat
      /\ pos \in 0 .. Len(Wired) /\ pos \in Nat
      /\ rest \in Seq(STRING) /\ body \in Seq(STRING)
      /\ fed \in 0 .. Len(Bytes) /\ fed \in Nat /\ upload.dir \in BOOLEAN
  BY Context
<1>2. pc = "init" /\ UNCHANGED <<upload, pos, idle, chunked_size, brest, h, typed, fed, cuts, repeated>>
  BY DEF InitPost, callVars, partVars, history
<1>3. mode = NoMode /\ status = "more"
  BY <1>2 DEF Inv, Modes
<1>4. /\ out = [is_open |-> FALSE, files |-> <<>>] /\ ~is_cgi /\ ~h /\ ~repeated
      /\ max_size = 0 /\ chunked_size = 0 /\ rest = <<>> /\ brest = <<>> /\ cuts = {}
      /\ body = Slice(Wired, 0, pos) /\ fed = (IF upload.encoding = "none" THEN pos ELSE 0)
  BY <1>3 DEF Inv, Modes
<1>5. Bytes' = Bytes /\ Wired' = Wired /\ BadEnds' = BadEnds
  BY <1>2, SameRequest
<1>6. PICK where \in ParseUri(upload) :
          LET cgi == where = "cgi"
              m == ModeOf(upload, cgi)
              refusal == IF where \in {"cgi", "upload"} THEN Refusal(upload) ELSE where
          IN  IF refusal # "more"
              THEN Throw(refusal) /\ UNCHANGED <<modeVars, max_size, rest, body, out>>
              ELSE /\ mode' = m /\ is_cgi' = cgi
                   /\ out' = IF m \in {0, 1, 4} THEN NewFile(out) ELSE out
                   /\ max_size' \in CASE m = 0 -> MaxSizes(upload)
                                     [] m = 1 /\ cgi -> 0 .. MaxGarbage
                                     [] OTHER -> {0}
                   /\ rest' = IF m \in {1, 3} THEN body ELSE rest
                   /\ body' = IF m \in {1, 3} THEN <<>> ELSE body
                   /\ pc' = Function(m)
                   /\ UNCHANGED status
  BY DEF InitPost
<1>7. where \in {"404", "405", "cgi", "upload", "500", "403"}
  <2>1. upload.policy \in {"none", "refused", "no upload", "no path", "upload"}
    BY <1>1 DEF Upload
  <2> QED
    BY <2>1 DEF ParseUri
<1>8. Refusal(upload) \in {"400", "405", "411", "415", "more"}
  BY DEF Refusal
<1> DEFINE cgi == where = "cgi"
           m == ModeOf(upload, cgi)
           refusal == IF where \in {"cgi", "upload"} THEN Refusal(upload) ELSE where
<1>9. CASE refusal # "more"
  <2>1. status' = refusal /\ pc' = "recv" /\ UNCHANGED <<mode, is_cgi, max_size, rest, body, out>>
    BY <1>6, <1>9 DEF Throw, modeVars
  <2>2. status' \in {"404", "405", "500", "403", "400", "411", "415"}
    BY <1>7, <1>8, <1>9, <2>1
  <2> HIDE DEF refusal, m, cgi
  <2>3. TypeOK'
    BY <1>2, <1>5, <2>1, <2>2 DEF Inv, TypeOK
  <2>4. Modes'
    BY <1>2, <1>3, <1>4, <1>5, <2>1, <2>2 DEF Inv, Modes, NoMode
  <2>5. Counted' /\ Copied' /\ Dechunked' /\ Divided' /\ RefusedForSizeLine'
    BY <1>3, <2>1 DEF Counted, Copied, Dechunked, Divided, RefusedForSizeLine, NoMode
  <2> QED
    BY <2>3, <2>4, <2>5 DEF Inv
<1>10. CASE refusal = "more"
  <2>1. /\ mode' = m /\ is_cgi' = cgi
        /\ out' = IF m \in {0, 1, 4} THEN NewFile(out) ELSE out
        /\ max_size' \in CASE m = 0 -> MaxSizes(upload)
                          [] m = 1 /\ cgi -> 0 .. MaxGarbage
                          [] OTHER -> {0}
        /\ rest' = IF m \in {1, 3} THEN body ELSE rest
        /\ body' = IF m \in {1, 3} THEN <<>> ELSE body
        /\ pc' = Function(m) /\ status' = "more"
    BY <1>3, <1>6, <1>10
  <2>2. Refusal(upload) = "more" /\ cgi \in BOOLEAN
    BY <1>7, <1>10
  <2>3. m = ModeOf(upload, cgi)
    OBVIOUS
  <2> HIDE DEF refusal, m, cgi
  <2>4. /\ m \in 0 .. 4
        /\ upload.encoding = (IF m \in {1, 3} THEN "chunked" ELSE "none")
        /\ m \in {2, 3} => ~cgi /\ PartsMeant(upload)
        /\ m \in {1, 3} => ChunksMeant(upload)
        /\ m \in {0, 2, 4} => Wired = Bytes
    BY <1>1, <2>2, <2>3, ModeIs DEF Bytes, Wired
  <2>5. /\ m \in {0, 4} => pc' = "raw"
        /\ m \in {1, 3} => pc' = "chunked"
        /\ m = 2 => pc' = "boundarry"
    BY <2>1 DEF Function
  <2>6. max_size' \in Nat /\ (m = 0 /\ LengthHolds(upload) => max_size' = Len(Bytes))
    <3>1. CASE m = 0
      <4>1. max_size' \in MaxSizes(upload)
        BY <2>1, <3>1
      <4> QED
        BY <1>1, <4>1, MaxSizesAre DEF Bytes
    <3>2. CASE m # 0
      <4>1. max_size' \in 0 .. MaxGarbage \/ max_size' = 0
        BY <2>1, <3>2
      <4> QED
        BY <3>2, <4>1, PostAssumption
    <3> QED
      BY <3>1, <3>2
  <2>7. <<>> \in Seq(STRING) /\ <<>> \in Seq(Seq(STRING)) /\ Append(<<>>, <<>>) = <<<<>>>>
        /\ <<<<>>>> \in Seq(Seq(STRING))
    OBVIOUS
  <2>8. out' = IF m \in {0, 1, 4}
               THEN [is_open |-> upload.dir, files |-> IF upload.dir THEN <<<<>>>> ELSE <<>>]
               ELSE [is_open |-> FALSE, files |-> <<>>]
    BY <1>4, <2>1, <2>7 DEF NewFile
  <2>9. TypeOK'
    <3>1. out' \in [is_open : BOOLEAN, files : Seq(Seq(STRING))]
      BY <1>1, <2>7, <2>8
    <3>2. rest' \in Seq(STRING) /\ body' \in Seq(STRING)
      BY <1>1, <2>1, <2>7
    <3>3. pc' \in {"recv", "init", "chunked", "boundarry", "raw"} /\ mode' \in NoMode .. 4
      BY <2>1, <2>4, <2>5 DEF NoMode
    <3> QED
      BY <1>2, <1>5, <2>1, <2>2, <2>6, <3>1, <3>2, <3>3 DEF Inv, TypeOK
  <2>10. Modes'
    <3>1. mode' # NoMode
      BY <2>1, <2>4 DEF NoMode
    <3>2. Refusal(upload)' = "more" /\ mode' = ModeOf(upload, is_cgi)'
      BY <1>2, <2>1, <2>2, <2>3
    <3>3. /\ pc' = "init" => mode' = NoMode
          /\ pc' = "chunked" => mode' \in {1, 3}
          /\ pc' = "boundarry" => mode' \in {2, 3}
          /\ pc' = "raw" => mode' \in {0, 4}
      BY <2>1, <2>4, <2>5
    <3>4. (upload.encoding = "none")' => fed' = pos'
      BY <1>2, <1>4
    <3> QED
      BY <2>1, <3>1, <3>2, <3>3, <3>4 DEF Modes
  <2>11. m \in {0, 1, 4} => Holds(Slice(Bytes, 0, 0))'
    <3>1. Slice(Bytes, 0, 0) = <<>>
      BY <1>1, UploadIs
    <3>2. (upload.dir /\ status' # "201") = upload.dir
      BY <1>1, <2>1
    <3> QED
      BY <1>2, <2>8, <3>1, <3>2, HoldsNext
  <2>12. Counted'
    <3> SUFFICES ASSUME m = 0 PROVE Counted'
      BY <2>1 DEF Counted
    <3>1. 0 \in 0 .. Len(Bytes) /\ Len(Bytes) - 0 = Len(Bytes) /\ 0 <= pos
      BY <1>1
    <3>2. body' = Slice(Bytes, 0, pos')
      BY <1>2, <1>4, <2>1, <2>4
    <3> QED
      BY <1>2, <1>5, <2>1, <2>5, <2>6, <2>11, <3>1, <3>2 DEF Counted
  <2>13. Copied'
    <3> SUFFICES ASSUME m = 4 PROVE Copied'
      BY <2>1 DEF Copied
    <3>1. body' = Slice(Bytes, 0, pos') /\ pc' = "raw" /\ 0 \in 0 .. pos' /\ brest' = <<>>
      BY <1>1, <1>2, <1>4, <2>1, <2>4, <2>5
    <3>2. EndsLike(brest', Bytes, 0)
      BY Markers DEF EndsLike
    <3>3. HeldAfter(0, 0)'
      <4>1. Slice(Bytes, 0, 0) = <<>>
        BY <1>1, UploadIs
      <4> QED
        BY <1>2, <1>4, <1>5, <2>11, <4>1, Markers DEF HeldAfter
    <3>4. \E w \in 0 .. 0 : HeldAfter(w, 0)'
      BY <3>3
    <3> QED
      BY <1>2, <2>1, <3>1, <3>2, <3>4, CopiedNext
  <2>14. Dechunked'
    <3> SUFFICES ASSUME m \in {1, 3} PROVE Dechunked'
      BY <2>1 DEF Dechunked
    <3>1. 0 \in 0 .. pos' /\ 0 \in 0 .. Len(Bytes) /\ rest' = Slice(Wired, 0, pos')
      BY <1>1, <1>2, <1>4, <2>1
    <3>2. InChunk(0, 0)'
      <4>1. /\ Len(upload.chunks) > 0
            /\ upload.chunks[1].at = 0 /\ upload.chunks[1].from = 0
        BY <2>4 DEF ChunksMeant
      <4>2. Len(upload.chunks) \in Nat
        BY <1>1, LenProperties DEF Upload
      <4>3. 1 \in 1 .. Len(upload.chunks)
        BY <4>1, <4>2
      <4> QED
        BY <1>2, <1>4, <4>1, <4>3 DEF InChunk
    <3>3. Passed(0)'
      BY <1>2, <1>4, <2>1, <2>4, <2>5, <2>11 DEF Passed
    <3> QED
      BY <1>2, <2>5, <3>1, <3>2, <3>3, DechunkedNext
  <2>15. Divided'
    <3> SUFFICES ASSUME m \in {2, 3} PROVE Divided'
      BY <2>1 DEF Divided
    <3>1. Parts \in Nat
      BY <1>1, <2>4, PartPlaces
    <3>2. FilesTo(0, 0)'
      BY <1>1, <1>2, <1>4, <2>8 DEF FilesTo
    <3>3. (IF pc' = "boundarry" THEN body' ELSE brest') = Slice(Bytes, 0, fed')
      <4>1. CASE m = 2
        BY <1>2, <1>4, <2>1, <2>4, <2>5, <4>1
      <4>2. CASE m = 3
        <5>1. Slice(Bytes, 0, 0) = <<>>
          BY <1>1, UploadIs
        <5> QED
          BY <1>2, <1>4, <2>4, <2>5, <4>2, <5>1
      <4> QED
        BY <4>1, <4>2
    <3>4. pc' # "boundarry" => Noticed(0, 0)'
      BY <1>2, <1>4, <2>4, <2>5 DEF Noticed
    <3>5. Stands(0, 0)'
      BY <1>2, <1>4, <1>5, <3>2, <3>3, <3>4 DEF Stands
    <3>6. 0 \in 0 .. Parts /\ 0 \in 0 .. fed'
      BY <1>1, <1>2, <3>1
    <3> QED
      BY <1>2, <2>1, <3>5, <3>6, DividedNext
  <2>16. RefusedForSizeLine'
    BY <2>1 DEF RefusedForSizeLine
  <2> QED
    BY <2>9, <2>10, <2>12, <2>13, <2>14, <2>15, <2>16 DEF Inv
<1> QED
  BY <1>9, <1>10
-------------------------------------------------------------------------------
\* Where the chunks of a stream are, with their size lines and their data.
LEMMA ChunkPlaces ==
    ASSUME upload \in Uploads, ChunksMeant(upload), NEW i \in 1 .. Len(upload.chunks)
    PROVE  LET c == upload.chunks[i]
           IN  /\ c.at \in Nat /\ c.digits \in Nat \ {0} /\ c.from \in Nat /\ c.size \in Nat
               /\ DataAt(c) = c.at + c.digits + 2 /\ DataAt(c) \in Nat
               /\ DataAt(c) + c.size + 2 <= Len(Wired) /\ c.from + c.size <= Len(Bytes)
               /\ IsAt(Wired, CRLF, c.at + c.digits + 1)
               /\ IsAt(Wired, CRLF, DataAt(c) + c.size + 1)
               /\ Slice(Wired, DataAt(c), DataAt(c) + c.size) = Slice(Bytes, c.from, c.from + c.size)
               /\ Range(Slice(Wired, c.at, c.at + c.digits)) \subseteq DOMAIN Digit
               /\ HexToDec(Slice(Wired, c.at, c.at + c.digits)) = c.size
               /\ \A k \in 1 .. c.digits : Wired[c.at + k] \in DOMAIN Digit
               /\ c.size = 0 <=> i = Len(upload.chunks)
               /\ c.size = 0 => c.from = Len(Bytes)
               /\ i < Len(upload.chunks) =>
                     /\ i + 1 \in 1 .. Len(upload.chunks)
                     /\ upload.chunks[i + 1].at = DataAt(c) + c.size + 2
                     /\ upload.chunks[i + 1].from = c.from + c.size
<1> DEFINE c == upload.chunks[i]
           n == Len(upload.chunks)
<1>1. upload \in Upload /\ Len(Wired) \in Nat /\ Len(Bytes) \in Nat /\ Wired \in Seq(STRING)
  BY UploadIs
<1>2. upload.chunks \in Seq(Pieces) /\ n \in Nat
  BY <1>1, LenProperties DEF Upload
<1>3. c \in Pieces
  BY <1>2, ElementOfSeq
<1>4. c.at \in Nat /\ c.digits \in Nat /\ c.from \in Nat /\ c.size \in Nat
  <2> HIDE DEF c
  <2> QED
    BY <1>3 DEF Pieces
<1>5. /\ c.digits > 0 /\ Range(SizeLine(upload, c)) \subseteq DOMAIN Digit
      /\ HexToDec(SizeLine(upload, c)) = c.size /\ (c.size = 0 <=> i = n)
      /\ IsAt(upload.stream, CRLF, c.at + c.digits + 1)
      /\ IsAt(upload.stream, CRLF, DataAt(c) + c.size + 1)
      /\ c.from + c.size <= Len(upload.body)
      /\ SubSeq(upload.stream, DataAt(c) + 1, DataAt(c) + c.size)
           = SubSeq(upload.body, c.from + 1, c.from + c.size)
      /\ i < n => /\ upload.chunks[i + 1].at = DataAt(c) + c.size + 2
                  /\ upload.chunks[i + 1].from = c.from + c.size
  BY DEF ChunksMeant
<1>6. upload.chunks[n].from = Len(upload.body)
  BY DEF ChunksMeant
<1> HIDE DEF c
<1>7. DataAt(c) = c.at + c.digits + 2 /\ DataAt(c) \in Nat
  BY <1>4 DEF DataAt
<1>8. SizeLine(upload, c) = Slice(Wired, c.at, c.at + c.digits)
  BY DEF SizeLine, Slice, Wired
<1>9. DataAt(c) + c.size + 2 <= Len(Wired)
  <2> DEFINE k == DataAt(c) + c.size + 1
  <2>1. k \in Int /\ IsAt(Wired, CRLF, k)
    BY <1>4, <1>5, <1>7 DEF Wired
  <2>2. k + 1 <= Len(Wired)
    <3> HIDE DEF k
    <3> QED
      BY <2>1, EndOfLine
  <2> QED
    BY <1>1, <1>4, <1>7, <2>2
<1>10. \A k \in 1 .. c.digits : Wired[c.at + k] \in DOMAIN Digit
  <2> SUFFICES ASSUME NEW k \in 1 .. c.digits PROVE Wired[c.at + k] \in DOMAIN Digit
    OBVIOUS
  <2> DEFINE a == c.at
             b == c.at + c.digits
             s == Slice(Wired, a, b)
  <2>1. a \in Nat /\ b \in a .. Len(Wired) /\ b - a = c.digits /\ k \in 1 .. b - a
    <3>1. \A x, y, z \in Nat : x + y + 2 + z + 2 <= Len(Wired) =>
             x + y \in x .. Len(Wired) /\ (x + y) - x = y
      BY <1>1
    <3>2. b \in a .. Len(Wired) /\ b - a = c.digits
      BY <1>4, <1>7, <1>9, <3>1
    <3> QED
      BY <1>4, <3>2
  <2>2. Range(s) \subseteq DOMAIN Digit
    BY <1>5, <1>8
  <2> HIDE DEF a, b
  <2>3. s \in Seq(STRING) /\ Len(s) = b - a /\ s[k] = Wired[a + k]
    BY <1>1, <2>1, SliceType
  <2>4. k \in DOMAIN s
    <3> HIDE DEF s
    <3> QED
      BY <2>1, <2>3, LenProperties
  <2>5. s[k] \in Range(s)
    BY <2>4 DEF Range
  <2> QED
    BY <2>2, <2>3, <2>5 DEF a
<1>11. /\ Range(Slice(Wired, c.at, c.at + c.digits)) \subseteq DOMAIN Digit
       /\ HexToDec(Slice(Wired, c.at, c.at + c.digits)) = c.size
  BY <1>5, <1>8
<1>12. /\ IsAt(Wired, CRLF, c.at + c.digits + 1) /\ IsAt(Wired, CRLF, DataAt(c) + c.size + 1)
       /\ Slice(Wired, DataAt(c), DataAt(c) + c.size) = Slice(Bytes, c.from, c.from + c.size)
       /\ c.from + c.size <= Len(Bytes)
  BY <1>5 DEF Wired, Bytes, Slice
<1>13. c.size = 0 => c.from = Len(Bytes)
  BY <1>5, <1>6 DEF c, Bytes
<1>14. i < n => i + 1 \in 1 .. n
  BY <1>2
<1>15. c.digits \in Nat \ {0}
  BY <1>4, <1>5
<1>16. c.size = 0 <=> i = n
  BY <1>5
<1>17. i < n => /\ i + 1 \in 1 .. n
                /\ upload.chunks[i + 1].at = DataAt(c) + c.size + 2
                /\ upload.chunks[i + 1].from = c.from + c.size
  BY <1>5, <1>14
<1> QED
  BY ZenonT(20), SMTT(15), <1>4, <1>7, <1>9, <1>10, <1>11, <1>12, <1>13, <1>15, <1>16, <1>17 DEF c

\* The first end of a line, after k digits, or what there is while it is missing.
LEMMA FirstLine ==
    ASSUME Wired \in Seq(STRING), NEW r \in Nat, NEW k \in Nat, NEW e \in r .. Len(Wired),
           IsAt(Wired, CRLF, r + k + 1), \A j \in 1 .. k : Wired[r + j] \in DOMAIN Digit
    PROVE  LET found == Finds(Slice(Wired, r, e), CRLF)
           IN  IF found # {} THEN Min(found) = k + 1 /\ r + k + 2 <= e ELSE e <= r + k + 1
<1> DEFINE found == Finds(Slice(Wired, r, e), CRLF)
<1>1. Len(Wired) \in Nat /\ e \in Nat /\ Slice(Wired, r, e) \in Seq(STRING)
  BY SliceType, LenProperties
<1>2. \A j \in Int : j \in found <=> j >= 1 /\ r + j \in Finds(Wired, CRLF) /\ r + j + 1 <= e
  <2> SUFFICES ASSUME NEW j \in Int
               PROVE  j \in found <=> j >= 1 /\ r + j \in Finds(Wired, CRLF) /\ r + j + 1 <= e
    OBVIOUS
  <2>1. Len(CRLF) \in Nat \ {0} /\ DOMAIN CRLF = 1 .. Len(CRLF) /\ Len(CRLF) = 2
    BY Markers
  <2>2. j \in found <=> j >= 1 /\ r + j \in Finds(Wired, CRLF) /\ r + j + Len(CRLF) - 1 <= e
    BY <2>1, SliceFinds
  <2> QED
    BY <2>1, <2>2, <1>1
<1>3. found \subseteq Nat
  BY <1>1, FindsWithin
<1>4. r + k + 1 \in Finds(Wired, CRLF)
  <2>1. r + k + 1 \in Int
    OBVIOUS
  <2>2. r + k + 1 + 1 <= Len(Wired)
    <3> DEFINE x == r + k + 1
    <3>1. x \in Int /\ IsAt(Wired, CRLF, x)
      OBVIOUS
    <3> HIDE DEF x
    <3>2. x + 1 <= Len(Wired)
      BY <3>1, EndOfLine
    <3> QED
      BY <3>2 DEF x
  <2> QED
    BY <1>1, <2>2 DEF Finds
<1>5. \A j \in found : j >= k + 1
  <2> SUFFICES ASSUME NEW j \in found, j <= k PROVE FALSE
    BY <1>3
  <2>1. j \in Nat /\ j >= 1 /\ r + j \in Finds(Wired, CRLF)
    BY <1>2, <1>3
  <2>2. Wired[r + j] = CR
    <3>1. IsAt(Wired, CRLF, r + j) /\ r + j \in Int
      BY <2>1 DEF Finds
    <3> QED
      BY <3>1, EndOfLine
  <2>3. Wired[r + j] \in DOMAIN Digit
    BY <2>1
  <2> QED
    BY <2>2, <2>3 DEF Digit, CR
<1>6. k + 1 \in found <=> r + k + 2 <= e
  <2>1. k + 1 \in Int /\ k + 1 >= 1 /\ r + (k + 1) = r + k + 1
        /\ r + (k + 1) + 1 = r + k + 2
    OBVIOUS
  <2> QED
    BY <1>2, <1>4, <2>1
<1>7. ASSUME found # {} PROVE Min(found) = k + 1 /\ r + k + 2 <= e
  <2>1. PICK j \in found : TRUE
    BY <1>7
  <2>2. j \in Nat /\ r + j + 1 <= e /\ j >= k + 1
    BY <1>2, <1>3, <1>5, <2>1
  <2>3. k + 1 \in found /\ r + k + 2 <= e
    BY <1>1, <1>6, <2>2
  <2> HIDE DEF found
  <2>4. Min(found) \in found /\ \A y \in found : Min(found) <= y
    BY <1>3, <1>7, MinNat
  <2>5. Min(found) \in Nat /\ Min(found) <= k + 1 /\ Min(found) >= k + 1
    BY <1>3, <1>5, <2>3, <2>4
  <2> QED
    BY <2>3, <2>5
<1>8. ASSUME found = {} PROVE e <= r + k + 1
  <2>1. ~(r + k + 2 <= e)
    BY <1>6, <1>8
  <2> QED
    BY <1>1, <2>1
<1> QED
  BY <1>7, <1>8

\* Between two chunks a line ends after digits only, if after anything.
LEMMA LineAhead ==
    ASSUME upload \in Uploads, ChunksMeant(upload), chunked_size = 0,
           NEW r \in Nat, NEW p, InChunk(r, p)
    PROVE  \E k \in Nat : /\ IsAt(Wired, CRLF, r + k + 1) /\ r + k + 2 <= Len(Wired)
                          /\ \A j \in 1 .. k : Wired[r + j] \in DOMAIN Digit
<1>1. PICK i \in 1 .. Len(upload.chunks) :
          LET c == upload.chunks[i] IN r = c.at \/ r = DataAt(c) + c.size
  BY DEF InChunk
<1> DEFINE c == upload.chunks[i]
<1>2. /\ c.at \in Nat /\ c.digits \in Nat \ {0} /\ c.size \in Nat
      /\ DataAt(c) = c.at + c.digits + 2 /\ DataAt(c) \in Nat
      /\ DataAt(c) + c.size + 2 <= Len(Wired)
      /\ IsAt(Wired, CRLF, c.at + c.digits + 1)
      /\ IsAt(Wired, CRLF, DataAt(c) + c.size + 1)
      /\ \A k \in 1 .. c.digits : Wired[c.at + k] \in DOMAIN Digit
  BY ChunkPlaces
<1>3. r = c.at \/ r = DataAt(c) + c.size
  BY <1>1
<1>4. Len(Wired) \in Nat
  BY UploadIs
<1> HIDE DEF c
<1>5. CASE r = c.at
  <2>1. r + c.digits + 2 <= Len(Wired)
    BY <1>2, <1>4, <1>5
  <2> QED
    BY <1>2, <1>5, <2>1
<1>6. CASE r = DataAt(c) + c.size
  <2>1. r + 0 + 1 = DataAt(c) + c.size + 1 /\ r + 0 + 2 = DataAt(c) + c.size + 2
    BY SMTT(15), ZenonT(20), <1>2, <1>6
  <2>2. IsAt(Wired, CRLF, r + 0 + 1) /\ r + 0 + 2 <= Len(Wired)
    BY <1>2, <2>1
  <2>3. 0 \in Nat /\ \A j \in 1 .. 0 : Wired[r + j] \in DOMAIN Digit
    OBVIOUS
  <2> QED
    BY <2>2, <2>3
<1> QED
  BY <1>3, <1>5, <1>6

\* What a step that leaves the parts alone does not change.
LEMMA FilesStill ==
    ASSUME UNCHANGED <<upload, h, out, cuts>>, NEW i, NEW q
    PROVE  FilesTo(i, q)' = FilesTo(i, q) /\ InPart(i, q)' = InPart(i, q)
<1>1. Bytes' = Bytes /\ Parts' = Parts
      /\ (\A j : At(j)' = At(j) /\ Blank(j)' = Blank(j) /\ Begins(j)' = Begins(j))
  BY SameRequest
<1>2. \A j : Complete(j)' = Complete(j)
  BY <1>1 DEF Complete, FileDone, EndsPart
<1> QED
  BY <1>1, <1>2 DEF FilesTo, InPart, Margin

LEMMA StandsStill ==
    ASSUME UNCHANGED <<upload, h, out, cuts, brest, fed>>, status = "more",
           pc # "boundarry", pc' # "boundarry", NEW i, NEW q, Stands(i, q)
    PROVE  Stands(i, q)'
<1>1. Bytes' = Bytes /\ Parts' = Parts
      /\ (\A j : At(j)' = At(j) /\ Blank(j)' = Blank(j))
      /\ (\A j, k : InHead(j, k)' = InHead(j, k))
  BY SameRequest
<1>2. FilesTo(i, q)' = FilesTo(i, q) /\ InPart(i, q)' = InPart(i, q)
  BY FilesStill
<1>3. Noticed(i, q)' = Noticed(i, q)
  BY <1>1 DEF Noticed
<1> QED
  BY <1>1, <1>2, <1>3 DEF Stands

LEMMA SizeLineMissingKeeps ==
    ASSUME Inv, SizeLineMissing
    PROVE  Inv'
<1>1. /\ upload \in Uploads /\ Wired \in Seq(STRING)
      /\ Len(Bytes) \in Nat /\ Len(Wired) \in Nat
      /\ pos \in 0 .. Len(Wired) /\ pos \in Nat /\ fed \in 0 .. Len(Bytes) /\ fed \in Nat
  BY Context
<1>2. /\ pc = "chunked" /\ chunked_size = 0 /\ Finds(rest, CRLF) = {}
      /\ IF TooLong(rest) THEN status' = "400" /\ pc' = "recv"
                          ELSE pc' = "recv" /\ UNCHANGED status
      /\ UNCHANGED <<upload, pos, idle, mode, is_cgi, max_size, chunked_size, rest,
                     brest, h, typed, body, out, fed, cuts, repeated>>
  BY DEF SizeLineMissing, Throw, callVars, modeVars, chunkVars, partVars, history
<1>3. mode \in {1, 3} /\ status = "more" /\ mode # NoMode
  BY <1>2 DEF Inv, Modes, NoMode
<1>4. ChunksMeant(upload) /\ upload.encoding = "chunked"
  BY <1>3, InMode
<1>5. Bytes' = Bytes /\ Wired' = Wired /\ BadEnds' = BadEnds /\ Parts' = Parts
      /\ LongSizeLine' = LongSizeLine
  BY <1>2, SameRequest
<1>6. pc' = "recv" /\ status' \in {"more", "400"}
  BY <1>2, <1>3
<1>7. TypeOK'
  BY <1>2, <1>5, <1>6 DEF Inv, TypeOK
<1>8. Modes'
  <2>1. Refusal(upload)' = Refusal(upload) /\ ModeOf(upload, is_cgi)' = ModeOf(upload, is_cgi)
    BY <1>2
  <2> QED
    BY <1>2, <1>3, <1>5, <1>6, <2>1 DEF Inv, Modes
<1>9. PICK r \in 0 .. pos, p \in 0 .. Len(Bytes) :
          rest = Slice(Wired, r, pos) /\ InChunk(r, p) /\ Passed(p)
  BY <1>3 DEF Inv, Dechunked
<1>10. Dechunked'
  <2>1. InChunk(r, p)'
    BY <1>2, <1>9 DEF InChunk
  <2>2. Passed(p)'
    <3>1. mode = 1 => Holds(Slice(Bytes, 0, p))
      BY <1>2, <1>3, <1>9 DEF Passed
    <3>2. mode = 1 => Holds(Slice(Bytes, 0, p))'
      BY <1>2, <1>3, <1>6, <3>1, HoldsStill
    <3>3. mode = 3 => fed = p
      BY <1>9 DEF Passed
    <3> QED
      BY <1>2, <1>6, <3>2, <3>3 DEF Passed
  <2> QED
    BY <1>2, <1>9, <2>1, <2>2, DechunkedNext
<1>11. Divided'
  <2> SUFFICES ASSUME mode = 3 PROVE Divided'
    BY <1>2, <1>3 DEF Divided
  <2>1. PICK i \in 0 .. Parts, q \in 0 .. fed : Stands(i, q)
    BY <1>3 DEF Inv, Divided
  <2>2. Stands(i, q)'
    BY <1>2, <1>3, <2>1, StandsStill
  <2> QED
    BY <1>2, <1>6, <2>1, <2>2, DividedNext
<1>12. RefusedForSizeLine'
  <2> SUFFICES ASSUME TooLong(rest) PROVE LongSizeLine
    BY <1>2, <1>3, <1>5 DEF RefusedForSizeLine
  <2>1. r \in Nat /\ pos \in r .. Len(Wired)
    BY <1>1
  <2>2. PICK k \in Nat : /\ IsAt(Wired, CRLF, r + k + 1) /\ r + k + 2 <= Len(Wired)
                         /\ \A j \in 1 .. k : Wired[r + j] \in DOMAIN Digit
    BY <1>1, <1>2, <1>4, <1>9, <2>1, LineAhead
  <2>3. pos <= r + k + 1
    BY <1>1, <1>2, <1>9, <2>1, <2>2, FirstLine
  <2>4. Len(rest) = pos - r
    BY <1>1, <1>9, <2>1, SliceType
  <2>5. k >= SizeDigits - 1 /\ SizeDigits \in Nat
    BY <1>1, <2>1, <2>2, <2>3, <2>4, PostAssumption DEF TooLong
  <2> DEFINE a == r + 1
             b == r + k + 1
  <2>6. a \in 1 .. Len(upload.stream) /\ b \in 1 .. Len(upload.stream)
        /\ b - a >= SizeDigits - 1
    BY <1>1, <2>1, <2>2, <2>5 DEF Wired
  <2>7. \A j \in a .. b - 1 : upload.stream[j] \in DOMAIN Digit
    <3> SUFFICES ASSUME NEW j \in a .. b - 1 PROVE Wired[j] \in DOMAIN Digit
      BY DEF Wired
    <3>1. j - r \in 1 .. k /\ r + (j - r) = j
      BY <2>1
    <3> QED
      BY <2>2, <3>1
  <2>8. IsAt(upload.stream, CRLF, b)
    BY <2>2 DEF Wired
  <2> HIDE DEF a, b
  <2> QED
    BY <2>6, <2>7, <2>8 DEF LongSizeLine
<1>13. Counted' /\ Copied'
  BY <1>2, <1>3 DEF Counted, Copied
<1> QED
  BY <1>7, <1>8, <1>10, <1>11, <1>12, <1>13 DEF Inv

(***************************************************************************)
(* A last boundary line that is passed over was cut; the last file is then *)
(* there with what was taken for its end.                                  *)
(***************************************************************************)
LEMMA AllPassed ==
    ASSUME upload \in Uploads, PartsMeant(upload), fed = Len(Bytes), h \in BOOLEAN,
           NEW i \in 0 .. Parts, NEW q \in 0 .. fed, Stands(i, q), Noticed(i, q)
    PROVE  /\ i = Parts /\ i \in 1 .. Parts /\ h = FALSE /\ At(Parts + 1) <= q
           /\ At(Parts + 1) + 5 \in cuts /\ Begins(i) <= q
           /\ AllStored
<1>1. /\ Parts \in Nat \ {0} /\ Len(Bytes) \in Nat
      /\ At(1) = 1 /\ At(Parts + 1) + 6 = Len(Bytes)
      /\ \A k \in 1 .. Parts + 1 : At(k) \in 1 .. Len(Bytes)
      /\ \A j, k \in 1 .. Parts + 1 : j < k => At(j) < At(k)
  BY PartPlaces
<1>2. Parts + 1 \in 1 .. Parts + 1 /\ 1 \in 1 .. Parts + 1 /\ 1 \in 1 .. Parts
  BY <1>1
<1>3. i # 0
  <2>1. At(1) < At(Parts + 1)
    BY <1>1, <1>2
  <2>2. fed >= 8
    BY <1>1, <1>2, <2>1
  <2> QED
    BY <2>2 DEF Noticed
<1>4. i \in 1 .. Parts /\ i + 1 \in 1 .. Parts + 1
  BY <1>1, <1>3
<1>5. Blank(i) \in Nat /\ Begins(i) = Blank(i) + 1 /\ Blank(i) + 4 <= At(i + 1)
      /\ At(i + 1) \in 1 .. Len(Bytes)
  BY <1>4, HeadPlaces
<1>6. h = FALSE
  <2>1. ~(fed <= Blank(i))
    BY <1>1, <1>5
  <2> QED
    BY <1>3, <1>4, <2>1 DEF Noticed
<1>7. i = Parts
  <2> SUFFICES ASSUME i < Parts PROVE FALSE
    BY <1>1, <1>4
  <2>1. At(i + 1) < At(Parts + 1)
    BY <1>1, <1>2, <1>4
  <2>2. fed <= At(i + 1) + 3
    BY <1>3, <1>4, <1>6 DEF Noticed
  <2> QED
    BY SMTT(15), ZenonT(20), <1>1, <1>2, <1>5, <2>1, <2>2
<1>8. At(Parts + 1) <= q /\ q \in Nat
  <2>1. fed <= At(i + 1) + 5 \/ At(i + 1) <= q
    BY <1>3, <1>4, <1>6, <1>7 DEF Noticed
  <2> QED
    BY <1>1, <1>2, <1>7, <2>1
<1>9. Begins(i) <= q /\ Margin(i, q) /\ FilesTo(i, q)
  BY <1>4, <1>6 DEF Stands, InPart
<1>10. At(Parts + 1) + 5 \in cuts
  <2> DEFINE a == At(i + 1)
  <2>1. a <= q /\ a \in Nat /\ q \in Nat /\ a = At(Parts + 1)
    BY <1>5, <1>7, <1>8
  <2>2. \/ q <= a - 3
        \/ i < Parts /\ q = a - 2 /\ a + 3 \in cuts
        \/ i = Parts /\ q \in {a - 2, a - 1} /\ q + 5 \in cuts
        \/ i = Parts /\ a <= q /\ a + 5 \in cuts
    BY <1>9 DEF Margin
  <2> HIDE DEF a
  <2>3. a + 5 \in cuts
    BY <2>1, <2>2
  <2> QED
    BY <2>1, <2>3
<1>11. AllStored
  <2> SUFFICES ASSUME upload.dir
               PROVE  Len(out.files) = Parts /\ \A j \in 1 .. Parts : Complete(j)
    BY DEF AllStored
  <2>1. /\ Len(out.files) = Parts /\ \A j \in 1 .. Parts - 1 : Complete(j)
        /\ out.files[Parts] = Slice(Bytes, Begins(Parts), q)
    BY <1>1, <1>6, <1>7, <1>9 DEF FilesTo
  <2>2. Complete(Parts)
    <3>1. q \in 0 .. Len(Bytes) /\ At(Parts + 1) - 3 <= q /\ Begins(Parts) <= q
          /\ cuts # {} /\ ~(Parts < Parts)
      BY <1>1, <1>2, <1>7, <1>8, <1>9, <1>10
    <3> QED
      BY <2>1, <3>1 DEF Complete, FileDone, EndsPart
  <2>3. \A j \in 1 .. Parts : j \in 1 .. Parts - 1 \/ j = Parts
    BY <1>1
  <2> QED
    BY <2>1, <2>2, <2>3
<1> QED
  BY <1>4, <1>6, <1>7, <1>8, <1>9, <1>10, <1>11

LEMMA SizeLineFoundKeeps ==
    ASSUME Inv, SizeLineFound
    PROVE  Inv'
<1> DEFINE hex_end == Min(Finds(rest, CRLF)) - 1
           n == Take(rest, hex_end)
           bad == ~(Range(n) \subseteq DOMAIN Digit)
           last == status' = "201" /\ pc' = "recv" /\ out' = ClosedOut(out)
                   /\ UNCHANGED <<rest, chunked_size>>
           on == /\ rest' = Drop(rest, hex_end + 2)
                 /\ chunked_size' = IF n = <<>> THEN 0 ELSE HexToDec(n)
                 /\ UNCHANGED <<pc, status, out>>
<1>1. /\ upload \in Uploads /\ upload \in Upload /\ Bytes \in Seq(STRING) /\ Wired \in Seq(STRING)
      /\ Len(Bytes) \in Nat /\ Len(Wired) \in Nat
      /\ pos \in 0 .. Len(Wired) /\ pos \in Nat /\ fed \in 0 .. Len(Bytes) /\ fed \in Nat
      /\ out \in [is_open : BOOLEAN, files : Seq(Seq(STRING))]
      /\ upload.dir \in BOOLEAN /\ is_cgi \in BOOLEAN /\ h \in BOOLEAN
      /\ rest \in Seq(STRING)
  BY Context
<1>2. /\ pc = "chunked" /\ chunked_size = 0 /\ Finds(rest, CRLF) # {}
      /\ UNCHANGED <<upload, pos, idle, mode, is_cgi, max_size,
                     brest, h, typed, body, fed, cuts, repeated>>
  BY DEF SizeLineFound, callVars, modeVars, partVars, history
<1>3. /\ n # <<>> /\ ~bad /\ HexToDec(n) = 0 => last
      /\ n # <<>> /\ ~bad /\ HexToDec(n) # 0 => on
      /\ n = <<>> => on
  BY DEF SizeLineFound, Throw, chunkVars
<1>4. mode \in {1, 3} /\ status = "more" /\ mode # NoMode
  BY <1>2 DEF Inv, Modes, NoMode
<1>5. ChunksMeant(upload) /\ upload.encoding = "chunked" /\ (mode = 3 => PartsMeant(upload))
  BY <1>4, InMode
<1>6. Bytes' = Bytes /\ Wired' = Wired /\ BadEnds' = BadEnds /\ Parts' = Parts
      /\ (\A i : At(i)' = At(i) /\ Blank(i)' = Blank(i) /\ Begins(i)' = Begins(i))
  BY <1>2, SameRequest
<1>7. PICK r \in 0 .. pos, p \in 0 .. Len(Bytes) :
          rest = Slice(Wired, r, pos) /\ InChunk(r, p) /\ Passed(p)
  BY <1>4 DEF Inv, Dechunked
<1>8. r \in Nat /\ pos \in r .. Len(Wired) /\ p \in Nat
  BY <1>1
<1>9. \/ last /\ p = Len(Bytes)
      \/ /\ UNCHANGED <<pc, status, out>> /\ chunked_size' \in Nat
         /\ \E s \in r .. pos : rest' = Slice(Wired, s, pos) /\ InChunk(s, p)'
  <2>1. PICK i \in 1 .. Len(upload.chunks) :
            LET c == upload.chunks[i]
            IN  \/ r = c.at /\ p = c.from
                \/ /\ i < Len(upload.chunks)
                   /\ r = DataAt(c) + c.size /\ p = c.from + c.size
    BY <1>2, <1>7 DEF InChunk
  <2> DEFINE c == upload.chunks[i]
             next == upload.chunks[i + 1]
  <2>2. /\ c.at \in Nat /\ c.digits \in Nat \ {0} /\ c.from \in Nat /\ c.size \in Nat
        /\ DataAt(c) = c.at + c.digits + 2 /\ DataAt(c) \in Nat
        /\ DataAt(c) + c.size + 2 <= Len(Wired) /\ c.from + c.size <= Len(Bytes)
        /\ IsAt(Wired, CRLF, c.at + c.digits + 1)
        /\ IsAt(Wired, CRLF, DataAt(c) + c.size + 1)
        /\ Range(Slice(Wired, c.at, c.at + c.digits)) \subseteq DOMAIN Digit
        /\ HexToDec(Slice(Wired, c.at, c.at + c.digits)) = c.size
        /\ \A k \in 1 .. c.digits : Wired[c.at + k] \in DOMAIN Digit
        /\ c.size = 0 => c.from = Len(Bytes)
        /\ i < Len(upload.chunks) =>
              /\ i + 1 \in 1 .. Len(upload.chunks)
              /\ next.at = DataAt(c) + c.size + 2
              /\ next.from = c.from + c.size
    BY <1>1, <1>5, ChunkPlaces
  <2>3. CASE r = c.at /\ p = c.from
    <3> DEFINE k == c.digits
    <3>1. k \in Nat /\ k > 0 /\ IsAt(Wired, CRLF, r + k + 1)
          /\ \A j \in 1 .. k : Wired[r + j] \in DOMAIN Digit
      <4> HIDE DEF c
      <4>1. k \in Nat /\ k > 0 /\ r + k + 1 = c.at + c.digits + 1
        BY <2>2, <2>3
      <4>2. IsAt(Wired, CRLF, r + k + 1)
        BY <2>2, <4>1
      <4> QED
        BY <2>2, <2>3, <4>1, <4>2
    <3>2. r + k + 2 = DataAt(c)
      BY <2>2, <2>3
    <3> HIDE DEF c, k, n, hex_end, bad
    <3>3. Min(Finds(rest, CRLF)) = k + 1 /\ r + k + 2 <= pos
      BY <1>1, <1>2, <1>7, <1>8, <3>1, FirstLine
    <3>4. hex_end = k
      BY <3>1, <3>3 DEF hex_end
    <3>5. n = Slice(Wired, r, r + k)
      <4>1. k \in 0 .. pos - r
        BY <1>8, <3>1, <3>3
      <4> QED
        BY <1>1, <1>7, <1>8, <3>4, <4>1, SliceTake DEF n
    <3>6. Len(n) = k
      <4>1. r + k \in r .. Len(Wired) /\ (r + k) - r = k
        BY <1>8, <3>1, <3>3
      <4> QED
        BY ZenonT(20), SMTT(15), <1>1, <1>8, <3>5, <4>1, SliceType
    <3>7. n # <<>>
      BY <3>1, <3>6
    <3>8. ~bad /\ HexToDec(n) = c.size
      BY <2>2, <2>3, <3>5 DEF bad, k
    <3>9. CASE c.size = 0
      <4>1. last
        BY <1>3, <3>7, <3>8, <3>9
      <4>2. p = Len(Bytes)
        BY <2>2, <2>3, <3>9
      <4> QED
        BY <4>1, <4>2
    <3>10. CASE c.size # 0
      <4>1. on
        BY <1>3, <3>7, <3>8, <3>10
      <4>2. chunked_size' = c.size /\ UNCHANGED <<pc, status, out>>
        BY <3>7, <3>8, <4>1
      <4>3. rest' = Slice(Wired, r + k + 2, pos)
        <5> DEFINE m == k + 2
        <5>1. m \in 0 .. pos - r
          BY <1>8, <3>1, <3>3
        <5>2. rest' = Drop(rest, m)
          BY <3>4, <4>1
        <5>3. r + m = r + k + 2
          BY <1>8, <3>1
        <5> HIDE DEF m
        <5>4. rest' = Slice(Wired, r + m, pos)
          BY <1>1, <1>7, <1>8, <5>1, <5>2, SliceDrop
        <5> QED
          BY <5>3, <5>4
      <4>4. PICK t \in r .. pos : t = r + k + 2 /\ t = DataAt(c)
        BY <1>8, <3>1, <3>2, <3>3
      <4>5. rest' = Slice(Wired, t, pos)
        BY <4>3, <4>4
      <4>6. /\ chunked_size' > 0 /\ chunked_size' <= c.size
            /\ t = DataAt(c) + c.size - chunked_size'
            /\ p = c.from + c.size - chunked_size'
        <5>1. \A x, y \in Nat : x + y - y = x
          OBVIOUS
        <5>2. c.size \in Nat /\ c.from \in Nat /\ DataAt(c) \in Nat
          BY <2>2
        <5>3. c.size > 0 /\ c.size <= c.size
          BY <3>10, <5>2
        <5> QED
          BY <2>3, <4>2, <4>4, <5>1, <5>2, <5>3
      <4>7. InChunk(t, p)'
        BY <1>2, <4>6 DEF InChunk, c
      <4>8. chunked_size' \in Nat
        BY <2>2, <4>2
      <4>9. \E s \in r .. pos : rest' = Slice(Wired, s, pos) /\ InChunk(s, p)'
        BY <4>4, <4>5, <4>7
      <4> HIDE DEF last
      <4> QED
        BY <4>2, <4>8, <4>9
    <3> QED
      BY <3>9, <3>10
  <2>4. CASE i < Len(upload.chunks) /\ r = DataAt(c) + c.size /\ p = c.from + c.size
    <3>1. IsAt(Wired, CRLF, r + 0 + 1) /\ 0 \in Nat
          /\ \A j \in 1 .. 0 : Wired[r + j] \in DOMAIN Digit
      <4>1. r + 0 + 1 = DataAt(c) + c.size + 1
        BY <2>2, <2>4
      <4>2. IsAt(Wired, CRLF, r + 0 + 1)
        BY <2>2, <4>1
      <4> QED
        BY <4>2
    <3>2. next.at = r + 2 /\ next.from = p /\ i + 1 \in 1 .. Len(upload.chunks)
      BY <2>2, <2>4
    <3> HIDE DEF c, n, hex_end, bad, next
    <3>3. Min(Finds(rest, CRLF)) = 0 + 1 /\ r + 0 + 2 <= pos
      BY <1>1, <1>2, <1>7, <1>8, <3>1, FirstLine
    <3>4. hex_end = 0 /\ r + 2 <= pos
      BY <1>8, <3>3 DEF hex_end
    <3>5. n = <<>>
      <4>1. 0 \in 0 .. pos - r /\ r + 0 = r /\ r \in 0 .. Len(Wired)
        BY <1>1, <1>8
      <4>2. n = Slice(Wired, r, r)
        BY <1>1, <1>7, <1>8, <3>4, <4>1, SliceTake DEF n
      <4> QED
        BY <1>1, <4>1, <4>2, SliceNone
    <3>6. on
      BY <1>3, <3>5
    <3>7. chunked_size' = 0 /\ UNCHANGED <<pc, status, out>>
      BY <3>5, <3>6
    <3>8. rest' = Slice(Wired, r + 2, pos)
      <4>1. 2 \in 0 .. pos - r
        BY <1>8, <3>4
      <4>2. rest' = Drop(rest, 2)
        BY <3>4, <3>6
      <4> QED
        BY <1>1, <1>7, <1>8, <4>1, <4>2, SliceDrop
    <3>9. InChunk(r + 2, p)'
      BY <1>2, <3>2, <3>7 DEF InChunk, next
    <3>10. r + 2 \in r .. pos
      BY <1>8, <3>4
    <3> QED
      BY <3>7, <3>8, <3>9, <3>10
  <2> QED
    BY <2>1, <2>3, <2>4
<1> HIDE DEF hex_end, n, bad, on
<1>10. Counted' /\ Copied'
  BY <1>2, <1>4 DEF Counted, Copied
<1>11. CASE UNCHANGED <<pc, status, out>> /\ chunked_size' \in Nat
            /\ \E s \in r .. pos : rest' = Slice(Wired, s, pos) /\ InChunk(s, p)'
  <2>1. PICK s \in r .. pos : rest' = Slice(Wired, s, pos) /\ InChunk(s, p)'
    BY <1>11
  <2>2. TypeOK'
    <3>1. rest' \in Seq(STRING)
      <4>1. s \in Nat /\ pos \in s .. Len(Wired)
        BY <1>8
      <4> QED
        BY <1>1, <2>1, <4>1, SliceType
    <3> QED
      BY <1>2, <1>6, <1>11, <3>1 DEF Inv, TypeOK
  <2>3. Modes'
    <3>1. Refusal(upload)' = Refusal(upload) /\ ModeOf(upload, is_cgi)' = ModeOf(upload, is_cgi)
      BY <1>2
    <3> QED
      BY <1>2, <1>4, <1>6, <1>11, <3>1 DEF Inv, Modes
  <2>4. Dechunked'
    <3>1. mode = 1 => Holds(Slice(Bytes, 0, p))
      BY <1>2, <1>4, <1>7 DEF Passed
    <3>2. mode = 1 => Holds(Slice(Bytes, 0, p))'
      BY <1>2, <1>4, <1>11, <3>1, HoldsStill
    <3>3. Passed(p)'
      BY <1>2, <1>4, <1>7, <1>11, <3>2 DEF Passed
    <3>4. s \in 0 .. pos'
      BY <1>2, <1>8
    <3> QED
      BY <1>2, <1>11, <2>1, <3>3, <3>4, DechunkedNext
  <2>5. Divided'
    <3> SUFFICES ASSUME mode = 3 PROVE Divided'
      BY <1>2, <1>4 DEF Divided
    <3>1. PICK i \in 0 .. Parts, q \in 0 .. fed : Stands(i, q)
      BY <1>4 DEF Inv, Divided
    <3>2. Stands(i, q)'
      BY <1>2, <1>4, <1>11, <3>1, StandsStill
    <3> QED
      BY <1>2, <1>4, <1>11, <3>1, <3>2, DividedNext
  <2>6. RefusedForSizeLine'
    BY <1>4, <1>11 DEF RefusedForSizeLine
  <2> QED
    BY <1>10, <2>2, <2>3, <2>4, <2>5, <2>6 DEF Inv
<1>12. CASE last /\ p = Len(Bytes)
  <2>1. status' = "201" /\ pc' = "recv" /\ out' = ClosedOut(out)
        /\ UNCHANGED <<rest, chunked_size>>
    BY <1>12
  <2>2. TypeOK'
    <3>1. out' \in [is_open : BOOLEAN, files : Seq(Seq(STRING))]
      BY <1>1, <2>1 DEF ClosedOut
    <3> QED
      BY <1>2, <1>6, <2>1, <3>1 DEF Inv, TypeOK
  <2>3. Modes'
    <3>1. Refusal(upload)' = Refusal(upload) /\ ModeOf(upload, is_cgi)' = ModeOf(upload, is_cgi)
      BY <1>2
    <3> QED
      BY <1>2, <1>4, <1>6, <2>1, <3>1 DEF Inv, Modes
  <2>4. Dechunked'
    <3>1. mode = 1 => Holds(Slice(Bytes, 0, p))
      BY <1>2, <1>4, <1>7 DEF Passed
    <3>2. mode = 1 => Holds(Slice(Bytes, 0, p))'
      <4> SUFFICES ASSUME mode = 1 PROVE Holds(Slice(Bytes, 0, p))'
        OBVIOUS
      <4> DEFINE x == Slice(Bytes, 0, p)
      <4>1. x \in Seq(STRING)
        BY <1>1, SliceType
      <4>2. Holds(x)
        BY <3>1
      <4>3. ClosedOut(out) = [is_open |-> FALSE, files |-> IF upload.dir THEN <<x>> ELSE <<>>]
        <5> HIDE DEF x
        <5> QED
          BY <1>1, <1>4, <4>1, <4>2, WriteHolds
      <4>4. (upload.dir /\ status' # "201") = FALSE
        BY <2>1
      <4> QED
        BY <1>2, <2>1, <4>3, <4>4, HoldsNext
    <3>3. Passed(p)'
      BY <1>2, <1>4, <1>6, <1>7, <1>12, <2>1, <3>2 DEF Passed
    <3>4. InChunk(r, p)'
      BY <1>2, <1>7, <2>1 DEF InChunk
    <3>5. rest' = Slice(Wired, r, pos') /\ r \in 0 .. pos'
      BY <1>2, <1>7, <2>1
    <3> QED
      BY <1>2, <2>1, <3>3, <3>4, <3>5, DechunkedNext
  <2>5. Divided'
    <3> SUFFICES ASSUME mode = 3 PROVE AllStored'
      BY <1>2, <1>4, <2>1 DEF Divided
    <3>1. PICK i \in 0 .. Parts, q \in 0 .. fed : Stands(i, q)
      BY <1>4 DEF Inv, Divided
    <3>2. fed = Len(Bytes)
      BY <1>7, <1>12 DEF Passed
    <3>3. Noticed(i, q)
      BY <1>2, <1>4, <3>1 DEF Stands
    <3>4. AllStored
      BY <1>1, <1>5, <3>1, <3>2, <3>3, AllPassed
    <3>5. out'.files = out.files
      BY <2>1 DEF ClosedOut
    <3>6. \A j : Complete(j)' = Complete(j)
      BY <1>2, <1>6, <3>5 DEF Complete, FileDone, EndsPart
    <3> QED
      BY <1>2, <1>6, <3>4, <3>5, <3>6 DEF AllStored
  <2>6. RefusedForSizeLine'
    BY <2>1 DEF RefusedForSizeLine
  <2> QED
    BY <1>10, <2>2, <2>3, <2>4, <2>5, <2>6 DEF Inv
<1> QED
  BY <1>9, <1>11, <1>12

LEMMA ChunkDataKeeps ==
    ASSUME Inv, ChunkData
    PROVE  Inv'
<1>1. /\ upload \in Uploads /\ upload \in Upload /\ Bytes \in Seq(STRING) /\ Wired \in Seq(STRING)
      /\ Len(Bytes) \in Nat /\ Len(Wired) \in Nat
      /\ pos \in 0 .. Len(Wired) /\ pos \in Nat /\ fed \in 0 .. Len(Bytes) /\ fed \in Nat
      /\ out \in [is_open : BOOLEAN, files : Seq(Seq(STRING))]
      /\ upload.dir \in BOOLEAN /\ is_cgi \in BOOLEAN /\ h \in BOOLEAN
      /\ rest \in Seq(STRING) /\ brest \in Seq(STRING) /\ body \in Seq(STRING)
      /\ chunked_size \in Nat
  BY Context
<1>2. /\ pc = "chunked" /\ chunked_size > 0
      /\ UNCHANGED <<upload, pos, idle, status, mode, is_cgi, max_size, brest, h, typed,
                     cuts, repeated>>
  BY DEF ChunkData, callVars, modeVars, partVars
<1>3. mode \in {1, 3} /\ status = "more" /\ mode # NoMode
  BY <1>2 DEF Inv, Modes, NoMode
<1>4. /\ ChunksMeant(upload) /\ upload.encoding = "chunked" /\ upload.encoding # "none"
      /\ mode = 3 => PartsMeant(upload)
  BY <1>3, InMode
<1>5. Bytes' = Bytes /\ Wired' = Wired /\ BadEnds' = BadEnds /\ Parts' = Parts
      /\ (\A i : At(i)' = At(i) /\ Blank(i)' = Blank(i))
      /\ (\A i, q : InHead(i, q)' = InHead(i, q))
  BY <1>2, SameRequest
<1>6. PICK r \in 0 .. pos, p \in 0 .. Len(Bytes) :
          rest = Slice(Wired, r, pos) /\ InChunk(r, p) /\ Passed(p)
  BY <1>3 DEF Inv, Dechunked
<1>7. r \in Nat /\ pos \in r .. Len(Wired) /\ p \in Nat /\ Len(rest) = pos - r
  <2>1. r \in Nat /\ pos \in r .. Len(Wired) /\ p \in Nat
    BY <1>1
  <2> QED
    BY ZenonT(20), SMTT(15), <1>1, <1>6, <2>1, SliceType
<1>8. PICK m \in 0 .. pos - r : m = PieceLength /\ m <= chunked_size
                                /\ (m = chunked_size \/ m = pos - r)
  <2>1. Len(rest) = pos - r /\ pos - r \in Nat /\ chunked_size \in Nat
    BY <1>1, <1>7
  <2>2. PieceLength \in 0 .. pos - r /\ PieceLength <= chunked_size
        /\ (PieceLength = chunked_size \/ PieceLength = pos - r)
    BY <2>1 DEF PieceLength
  <2> QED
    BY <2>2
<1> DEFINE piece == Take(rest, m)
<1>9. /\ rest' = Drop(rest, m) /\ chunked_size' = chunked_size - m
      /\ mode = 1 /\ is_cgi => pc' = "raw" /\ body' = piece /\ UNCHANGED <<out, fed>>
      /\ mode = 3 => /\ pc' = "boundarry" /\ body' = brest \o piece
                     /\ fed' = fed + m /\ UNCHANGED out
      /\ mode = 1 /\ ~is_cgi => /\ pc' = IF rest' = <<>> THEN "recv" ELSE "chunked"
                                /\ out' = Write(out, piece)
                                /\ UNCHANGED <<body, fed>>
  BY <1>3, <1>8 DEF ChunkData
<1>10. rest' = Slice(Wired, r + m, pos) /\ piece = Slice(Wired, r, r + m)
  <2> HIDE DEF piece
  <2> QED
    BY <1>1, <1>6, <1>7, <1>8, <1>9, SliceTake, SliceDrop DEF piece
<1> HIDE DEF piece
<1>11. PICK i \in 1 .. Len(upload.chunks) :
          LET c == upload.chunks[i]
          IN  /\ chunked_size <= c.size
              /\ r = DataAt(c) + c.size - chunked_size
              /\ p = c.from + c.size - chunked_size
  <2>1. chunked_size # 0
    BY <1>1, <1>2
  <2>2. InChunk(r, p)
    BY <1>6
  <2> QED
    BY <2>1, <2>2 DEF InChunk
<1> DEFINE c == upload.chunks[i]
<1>12. /\ c.from \in Nat /\ c.size \in Nat /\ DataAt(c) \in Nat
       /\ DataAt(c) + c.size + 2 <= Len(Wired) /\ c.from + c.size <= Len(Bytes)
       /\ Slice(Wired, DataAt(c), DataAt(c) + c.size) = Slice(Bytes, c.from, c.from + c.size)
       /\ c.size # 0 => i < Len(upload.chunks)
  <2>1. c.size = 0 <=> i = Len(upload.chunks)
    BY <1>1, <1>4, ChunkPlaces
  <2>2. Len(upload.chunks) \in Nat
    BY <1>1, LenProperties DEF Upload
  <2>3. /\ c.from \in Nat /\ c.size \in Nat /\ DataAt(c) \in Nat
        /\ DataAt(c) + c.size + 2 <= Len(Wired) /\ c.from + c.size <= Len(Bytes)
        /\ Slice(Wired, DataAt(c), DataAt(c) + c.size) = Slice(Bytes, c.from, c.from + c.size)
    BY <1>1, <1>4, ChunkPlaces
  <2>4. c.size # 0 => i < Len(upload.chunks)
    BY <2>1, <2>2
  <2> QED
    BY <2>3, <2>4
<1>13. /\ chunked_size <= c.size
       /\ r = DataAt(c) + c.size - chunked_size
       /\ p = c.from + c.size - chunked_size
  BY <1>11
<1> DEFINE D == DataAt(c)
           z == c.size
           f == c.from
<1>14. /\ D \in Nat /\ z \in Nat /\ f \in Nat /\ D + z + 2 <= Len(Wired) /\ f + z <= Len(Bytes)
       /\ Slice(Wired, D, D + z) = Slice(Bytes, f, f + z)
       /\ chunked_size <= z /\ r = D + z - chunked_size /\ p = f + z - chunked_size
       /\ z # 0 => i < Len(upload.chunks)
  BY <1>12, <1>13
<1> HIDE DEF c, D, z, f
<1>15. InChunk(r + m, p + m)'
  <2>1. PICK s \in Nat, t \in Nat : s = r + m /\ t = p + m
    BY <1>7, <1>8
  <2>2. chunked_size - m > 0 =>
          chunked_size - m <= z /\ s = D + z - (chunked_size - m) /\ t = f + z - (chunked_size - m)
    BY <1>1, <1>8, <1>14, <2>1
  <2>3. chunked_size - m <= 0 =>
          chunked_size - m = 0 /\ i < Len(upload.chunks) /\ s = D + z /\ t = f + z
    BY <1>1, <1>2, <1>8, <1>14, <2>1
  <2>4. chunked_size - m > 0 \/ chunked_size - m <= 0
    BY <1>1, <1>8
  <2>5. InChunk(s, t)'
    BY <1>2, <1>9, <2>2, <2>3, <2>4 DEF InChunk, D, z, f, c
  <2> QED
    BY <2>1, <2>5
<1>16. piece = Slice(Bytes, p, p + m) /\ p + m <= Len(Bytes)
  <2> DEFINE k == z - chunked_size
             e == k + m
             b1 == D + z
             b2 == f + z
  <2>1. /\ b1 \in D .. Len(Wired) /\ b2 \in f .. Len(Bytes)
        /\ k \in Nat /\ e \in k .. b1 - D /\ e \in k .. b2 - f
        /\ D + k = r /\ D + e = r + m /\ f + k = p /\ f + e = p + m /\ p + m <= Len(Bytes)
    BY SMTT(15), ZenonT(20), <1>1, <1>8, <1>14
  <2>2. Slice(Wired, D, b1) = Slice(Bytes, f, b2)
    BY <1>14
  <2> HIDE DEF k, e, b1, b2
  <2>3. Slice(Slice(Wired, D, b1), k, e) = Slice(Wired, D + k, D + e)
    <3>1. Wired \in Seq(STRING) /\ D \in Nat /\ b1 \in D .. Len(Wired) /\ k \in Nat /\ e \in k .. b1 - D
      BY <1>1, <1>14, <2>1
    <3> QED
      BY <3>1, SliceCut
  <2>4. Slice(Slice(Bytes, f, b2), k, e) = Slice(Bytes, f + k, f + e)
    <3>1. Bytes \in Seq(STRING) /\ f \in Nat /\ b2 \in f .. Len(Bytes) /\ k \in Nat /\ e \in k .. b2 - f
      BY <1>1, <1>14, <2>1
    <3> QED
      BY <3>1, SliceCut
  <2> QED
    BY <1>10, <2>1, <2>2, <2>3, <2>4
<1>17. p + m \in 0 .. Len(Bytes) /\ p + m \in p .. Len(Bytes) /\ r + m \in r .. pos
       /\ chunked_size' \in Nat
  BY <1>1, <1>7, <1>8, <1>9, <1>16
<1>18. rest' \in Seq(STRING) /\ piece \in Seq(STRING)
  <2>1. r + m \in Nat /\ pos \in (r + m) .. Len(Wired)
    BY <1>7, <1>17
  <2>2. rest' \in Seq(STRING)
    <3> DEFINE x == r + m
    <3>1. x \in Nat /\ pos \in x .. Len(Wired) /\ rest' = Slice(Wired, x, pos)
      BY <1>10, <2>1
    <3> HIDE DEF x
    <3> QED
      BY <1>1, <3>1, SliceType
  <2>3. piece \in Seq(STRING)
    BY <1>1, <1>7, <1>16, <1>17, SliceType
  <2> QED
    BY <2>2, <2>3
<1>19. mode = 3 => fed = p
  BY <1>6 DEF Passed
<1>20. mode = 1 => Holds(Slice(Bytes, 0, p))
  BY <1>2, <1>3, <1>6 DEF Passed
<1>21. Slice(Bytes, 0, p) \in Seq(STRING) /\ Slice(Bytes, 0, p) \o piece = Slice(Bytes, 0, p + m)
  <2>1. 0 \in Nat /\ p \in 0 .. Len(Bytes) /\ p + m \in p .. Len(Bytes)
    BY <1>17
  <2>2. Slice(Bytes, 0, p) \in Seq(STRING)
    BY <1>1, <2>1, SliceType
  <2>3. Slice(Bytes, 0, p) \o Slice(Bytes, p, p + m) = Slice(Bytes, 0, p + m)
    BY <1>1, <2>1, SliceJoin
  <2> QED
    BY <1>16, <2>2, <2>3
<1>22. mode = 1 /\ ~is_cgi =>
          out' = [is_open |-> upload.dir,
                  files   |-> IF upload.dir THEN <<Slice(Bytes, 0, p + m)>> ELSE <<>>]
  <2> SUFFICES ASSUME mode = 1, ~is_cgi
               PROVE out' = [is_open |-> upload.dir,
                             files   |-> IF upload.dir THEN <<Slice(Bytes, 0, p + m)>> ELSE <<>>]
    OBVIOUS
  <2> DEFINE x == Slice(Bytes, 0, p)
  <2>1. Holds(x) /\ x \in Seq(STRING) /\ x \o piece = Slice(Bytes, 0, p + m)
    BY <1>20, <1>21
  <2> HIDE DEF x
  <2>2. Write(out, piece) = [is_open |-> upload.dir,
                             files   |-> IF upload.dir THEN <<x \o piece>> ELSE <<>>]
    BY <1>1, <1>3, <1>18, <2>1, WriteHolds
  <2> QED
    BY <1>9, <2>1, <2>2
<1>23. Slice(Bytes, 0, p + m) \in Seq(STRING)
  <2>1. 0 \in Nat /\ p + m \in 0 .. Len(Bytes)
    BY <1>17
  <2> QED
    BY <1>1, <2>1, SliceType
<1>24. TypeOK'
  <2>1. out' \in [is_open : BOOLEAN, files : Seq(Seq(STRING))]
    <3>1. CASE mode = 1 /\ ~is_cgi
      <4> DEFINE x == Slice(Bytes, 0, p + m)
      <4>1. x \in Seq(STRING)
        BY <1>23
      <4> HIDE DEF x
      <4>2. <<x>> \in Seq(Seq(STRING)) /\ <<>> \in Seq(Seq(STRING))
        BY <4>1
      <4>3. out' = [is_open |-> upload.dir, files |-> IF upload.dir THEN <<x>> ELSE <<>>]
        BY <1>22, <3>1 DEF x
      <4> QED
        BY <1>1, <4>2, <4>3
    <3>2. CASE ~(mode = 1 /\ ~is_cgi)
      BY <1>1, <1>3, <1>9, <3>2
    <3> QED
      BY <3>1, <3>2
  <2>2. body' \in Seq(STRING)
    <3>1. brest \o piece \in Seq(STRING)
      BY <1>1, <1>18, ConcatProperties
    <3> QED
      BY <1>1, <1>3, <1>9, <1>18, <3>1
  <2>3. fed' \in 0 .. Len(Bytes)
    BY <1>1, <1>3, <1>9, <1>17, <1>19
  <2>4. pc' \in {"recv", "init", "chunked", "boundarry", "raw"}
    BY <1>3, <1>9
  <2> QED
    BY <1>2, <1>5, <1>17, <1>18, <2>1, <2>2, <2>3, <2>4 DEF Inv, TypeOK, Bytes
<1>25. Modes'
  <2>1. Refusal(upload)' = Refusal(upload) /\ ModeOf(upload, is_cgi)' = ModeOf(upload, is_cgi)
    BY <1>2
  <2>2. /\ pc' = "init" => mode = NoMode
        /\ pc' = "chunked" => mode \in {1, 3}
        /\ pc' = "boundarry" => mode \in {2, 3}
        /\ pc' = "raw" => mode = 1 /\ is_cgi
    BY <1>3, <1>9
  <2> QED
    BY <1>2, <1>3, <1>4, <1>5, <2>1, <2>2 DEF Inv, Modes
<1>26. Dechunked'
  <2>1. mode = 3 => fed' = p + m
    BY <1>9, <1>19
  <2>2. mode = 1 /\ ~is_cgi => Holds(Slice(Bytes, 0, p + m))'
    <3>1. (upload.dir /\ status' # "201") = upload.dir
      BY <1>1, <1>2, <1>3
    <3> QED
      BY <1>2, <1>22, <3>1, HoldsNext
  <2>3. mode = 1 /\ is_cgi => Holds(Slice(Bytes, 0, p))'
    BY <1>2, <1>3, <1>9, <1>20, HoldsStill
  <2>4. mode = 1 /\ is_cgi => pc' = "raw" /\ body' = Slice(Bytes, p, p + m) /\ p \in 0 .. p + m
    BY <1>7, <1>9, <1>16, <1>17
  <2>5. mode = 1 /\ ~is_cgi => pc' # "raw"
    BY <1>9
  <2>6. PICK s \in Nat, t \in Nat : s = r + m /\ t = p + m
    BY <1>7, <1>8
  <2>7. Passed(t)'
    BY <1>2, <1>3, <1>5, <2>1, <2>2, <2>3, <2>4, <2>5, <2>6 DEF Passed
  <2>8. InChunk(s, t)' /\ s \in 0 .. pos' /\ t \in 0 .. Len(Bytes) /\ rest' = Slice(Wired, s, pos')
    BY <1>2, <1>7, <1>10, <1>15, <1>17, <2>6
  <2>9. pc' = "recv" => rest' = <<>>
    BY <1>3, <1>9
  <2> QED
    BY <1>2, <2>7, <2>8, <2>9, DechunkedNext
<1>27. Divided'
  <2> SUFFICES ASSUME mode = 3 PROVE Divided'
    BY <1>2, <1>3 DEF Divided
  <2>1. PICK i1 \in 0 .. Parts, q \in 0 .. fed : Stands(i1, q)
    BY <1>3 DEF Inv, Divided
  <2>2. FilesTo(i1, q)' /\ InPart(i1, q)' = InPart(i1, q)
    BY <1>2, <1>9, <2>1, FilesStill DEF Stands
  <2>3. brest = Slice(Bytes, q, fed)
    BY <1>2, <1>3, <2>1 DEF Stands
  <2>4. body' = Slice(Bytes, q, fed')
    <3> DEFINE g == fed'
    <3>1. q \in Nat /\ fed \in q .. Len(Bytes) /\ g \in fed .. Len(Bytes)
      BY <1>1, <1>7, <1>9, <1>17, <1>19
    <3>2. body' = Slice(Bytes, q, fed) \o Slice(Bytes, fed, g)
      BY <1>9, <1>16, <1>19, <2>3
    <3> HIDE DEF g
    <3>3. body' = Slice(Bytes, q, g)
      BY <1>1, <3>1, <3>2, SliceJoin
    <3> QED
      BY <3>3 DEF g
  <2>5. Stands(i1, q)'
    BY <1>2, <1>5, <1>9, <2>1, <2>2, <2>4 DEF Stands
  <2>6. q \in 0 .. fed'
    BY <1>1, <1>7, <1>8, <1>9
  <2> QED
    BY <1>2, <1>3, <2>1, <2>5, <2>6, DividedNext
<1>28. RefusedForSizeLine'
  BY <1>2, <1>3 DEF RefusedForSizeLine
<1>29. Counted' /\ Copied'
  BY <1>2, <1>3 DEF Counted, Copied
<1> QED
  BY <1>24, <1>25, <1>26, <1>27, <1>28, <1>29 DEF Inv

LEMMA RawCountedKeeps ==
    ASSUME Inv, RawCounted
    PROVE  Inv'
<1>1. /\ upload \in Uploads /\ Bytes \in Seq(STRING) /\ Wired \in Seq(STRING)
      /\ Len(Bytes) \in Nat /\ Len(Wired) \in Nat
      /\ pos \in 0 .. Len(Wired) /\ pos \in Nat
      /\ out \in [is_open : BOOLEAN, files : Seq(Seq(STRING))]
      /\ upload.dir \in BOOLEAN /\ is_cgi \in BOOLEAN /\ max_size \in Nat
  BY Context
<1>2. /\ pc = "raw" /\ mode # 4 /\ body' = <<>>
      /\ UNCHANGED <<upload, pos, idle, mode, is_cgi, chunked_size, rest, brest, h, typed,
                     fed, cuts, repeated>>
  BY DEF RawCounted, callVars, modeVars, chunkVars, partVars, history
<1>3. mode \in {0, 1} /\ status = "more" /\ mode # NoMode /\ (mode = 1 => is_cgi)
  BY <1>2 DEF Inv, Modes, NoMode
<1>4. /\ mode = 1 => ChunksMeant(upload) /\ upload.encoding = "chunked"
      /\ mode = 0 => Wired = Bytes
  BY <1>3, InMode
<1>5. Bytes' = Bytes /\ Wired' = Wired /\ BadEnds' = BadEnds
  BY <1>2, SameRequest
\* What has come so far.
<1>6. PICK r \in Nat, b \in Nat : (mode = 0 => b = pos) /\
         (mode = 1 => /\ r \in 0 .. pos /\ b \in 0 .. Len(Bytes)
                      /\ rest = Slice(Wired, r, pos) /\ InChunk(r, b) /\ Passed(b))
  <2>1. CASE mode = 0
    BY <1>1, <2>1
  <2>2. CASE mode = 1
    <3>1. PICK r \in 0 .. pos, b \in 0 .. Len(Bytes) :
            rest = Slice(Wired, r, pos) /\ InChunk(r, b) /\ Passed(b)
      BY <2>2 DEF Inv, Dechunked
    <3>2. r \in Nat /\ b \in Nat
      BY <1>1
    <3> QED
      BY <2>2, <3>1, <3>2
  <2> QED
    BY <1>3, <2>1, <2>2
<1>7. PICK a \in Nat : /\ a <= b /\ b <= Len(Bytes) /\ Holds(Slice(Bytes, 0, a))
                       /\ body = Slice(Bytes, a, b)
                       /\ mode = 0 /\ LengthHolds(upload) => max_size = Len(Bytes) - a
  <2>1. CASE mode = 0
    <3>1. PICK w \in 0 .. Len(Bytes) :
            /\ Holds(Slice(Bytes, 0, w)) /\ (LengthHolds(upload) => max_size = Len(Bytes) - w)
            /\ w <= pos /\ body = Slice(Bytes, w, pos)
      BY <1>2, <2>1 DEF Inv, Counted
    <3>2. w \in Nat /\ w <= b /\ b <= Len(Bytes)
      BY <1>1, <1>4, <1>6, <2>1, <3>1
    <3> QED
      BY <1>6, <2>1, <3>1, <3>2
  <2>2. CASE mode = 1
    <3>1. PICK w \in 0 .. b : Holds(Slice(Bytes, 0, w)) /\ body = Slice(Bytes, w, b)
      BY <1>2, <1>6, <2>2 DEF Passed
    <3>2. w \in Nat /\ w <= b /\ b <= Len(Bytes)
      BY <1>1, <1>6, <2>2
    <3> QED
      BY <2>2, <3>1, <3>2
  <2> QED
    BY <1>3, <2>1, <2>2
<1>8. Len(body) = b - a /\ b \in a .. Len(Bytes)
  <2>1. b \in a .. Len(Bytes)
    BY <1>1, <1>7
  <2>2. Len(Slice(Bytes, a, b)) = b - a
    BY <1>1, <1>7, <2>1, SliceType
  <2> QED
    BY <1>7, <2>1, <2>2
<1>9. PICK n \in 0 .. b - a : /\ n = IF max_size < Len(body) THEN max_size ELSE Len(body)
                              /\ n = max_size \/ (n = b - a /\ n < max_size)
                              /\ n <= max_size
  <2> DEFINE y == IF max_size < Len(body) THEN max_size ELSE Len(body)
  <2>1. y \in 0 .. b - a /\ (y = max_size \/ (y = b - a /\ y < max_size)) /\ y <= max_size
    BY <1>1, <1>8
  <2> QED
    BY <2>1
<1>10. /\ max_size' = max_size - n
       /\ max_size = n => /\ status' = "201" /\ pc' = "recv"
                          /\ out' = ClosedOut(Write(out, Take(body, n)))
       /\ max_size # n => out' = Write(out, Take(body, n)) /\ pc' = Return /\ status' = "more"
  BY <1>3, <1>9 DEF RawCounted, Throw
<1> DEFINE x == Slice(Bytes, 0, a)
           y == Take(body, n)
           w == a + n
<1>11. x \in Seq(STRING) /\ y \in Seq(STRING) /\ x \o y = Slice(Bytes, 0, w)
       /\ w \in 0 .. Len(Bytes) /\ w <= b /\ w \in Nat
  <2>1. /\ 0 \in Nat /\ a \in 0 .. Len(Bytes) /\ w \in a .. Len(Bytes) /\ a \in Nat
        /\ w \in 0 .. Len(Bytes) /\ w <= b /\ w \in Nat
    BY <1>1, <1>7, <1>8, <1>9
  <2>2. y = Slice(Bytes, a, w)
    BY <1>1, <1>7, <1>8, <1>9, SliceTake
  <2> HIDE DEF y, w
  <2>3. x \in Seq(STRING) /\ y \in Seq(STRING)
    BY <1>1, <2>1, <2>2, SliceType
  <2>4. x \o y = Slice(Bytes, 0, w)
    BY <1>1, <2>1, <2>2, SliceJoin
  <2> QED
    BY <2>1, <2>3, <2>4
<1>12. Holds(x)
  BY <1>7
<1> HIDE DEF x, y, w
<1>13. out' = [is_open |-> upload.dir /\ status' # "201",
               files   |-> IF upload.dir THEN <<Slice(Bytes, 0, w)>> ELSE <<>>]
  <2>1. /\ Write(out, y) = [is_open |-> upload.dir,
                            files   |-> IF upload.dir THEN <<x \o y>> ELSE <<>>]
        /\ ClosedOut(Write(out, y)) = [is_open |-> FALSE,
                            files   |-> IF upload.dir THEN <<x \o y>> ELSE <<>>]
    BY <1>1, <1>3, <1>11, <1>12, WriteHolds
  <2>2. CASE max_size = n
    <3>1. (upload.dir /\ status' # "201") = FALSE
      BY <1>10, <2>2
    <3> QED
      BY <1>10, <1>11, <2>1, <2>2, <3>1 DEF y
  <2>3. CASE max_size # n
    <3>1. (upload.dir /\ status' # "201") = upload.dir
      BY <1>1, <1>10, <2>3
    <3> QED
      BY <1>10, <1>11, <2>1, <2>3, <3>1 DEF y
  <2> QED
    BY <2>2, <2>3
<1>14. PICK v \in Nat : v = w
  BY <1>11
<1>15. Holds(Slice(Bytes, 0, v))'
  BY <1>2, <1>13, <1>14, HoldsNext
<1>16. pc' \in {"recv", "chunked"} /\ (pc' = "chunked" => mode = 1)
       /\ (pc' = "recv" /\ status' = "more" /\ mode = 1 => rest = <<>>)
       /\ status' \in {"more", "201"}
  BY <1>3, <1>10 DEF Return
<1>17. max_size' \in Nat
  BY <1>1, <1>9, <1>10
<1>18. TypeOK'
  <2>1. out' \in [is_open : BOOLEAN, files : Seq(Seq(STRING))]
    <3> DEFINE t == Slice(Bytes, 0, w)
    <3>1. t \in Seq(STRING)
      <4>1. 0 \in Nat /\ w \in 0 .. Len(Bytes)
        BY <1>11
      <4> QED
        BY <1>1, <4>1, SliceType
    <3>2. out' = [is_open |-> upload.dir /\ status' # "201",
                  files   |-> IF upload.dir THEN <<t>> ELSE <<>>]
      BY <1>13
    <3> HIDE DEF t
    <3>3. <<t>> \in Seq(Seq(STRING)) /\ <<>> \in Seq(Seq(STRING))
      BY <3>1
    <3>4. (upload.dir /\ status' # "201") \in BOOLEAN
      OBVIOUS
    <3> QED
      BY <3>2, <3>3, <3>4
  <2>2. body' \in Seq(STRING)
    BY <1>2
  <2> QED
    BY <1>2, <1>5, <1>16, <1>17, <2>1, <2>2 DEF Inv, TypeOK
<1>19. Modes'
  <2>1. Refusal(upload)' = Refusal(upload) /\ ModeOf(upload, is_cgi)' = ModeOf(upload, is_cgi)
    BY <1>2
  <2>2. /\ pc' = "init" => mode = NoMode
        /\ pc' = "chunked" => mode \in {1, 3}
        /\ pc' = "boundarry" => mode \in {2, 3}
        /\ pc' = "raw" => mode \in {0, 4} \/ (mode = 1 /\ is_cgi)
        /\ pc' # "recv" => status' = "more"
    <3>1. pc' = "chunked" => status' = "more"
      BY <1>10
    <3> QED
      BY <1>3, <1>16, <3>1
  <2>3. upload.encoding = "none" => fed = pos
    BY DEF Inv, Modes
  <2>4. Refusal(upload) = "more" /\ mode = ModeOf(upload, is_cgi)
    BY <1>3 DEF Inv, Modes
  <2> QED
    BY <1>2, <1>3, <2>1, <2>2, <2>3, <2>4 DEF Modes
<1>20. Counted'
  <2> SUFFICES ASSUME mode = 0 PROVE Counted'
    BY <1>2 DEF Counted
  <2>1. v \in 0 .. Len(Bytes) /\ (LengthHolds(upload) => max_size' = Len(Bytes) - v)
    BY <1>1, <1>7, <1>9, <1>10, <1>11, <1>14 DEF w
  <2>2. pc' = "recv"
    BY <1>16
  <2>3. /\ (status' = "more" /\ v = pos) \/ status' = "201"
        /\ LengthHolds(upload) => (status' = "201" <=> v = Len(Bytes))
    <3>1. CASE max_size = n
      <4>1. LengthHolds(upload) => v = Len(Bytes)
        BY <1>1, <1>7, <1>14, <3>1 DEF w
      <4> QED
        BY <1>10, <3>1, <4>1
    <3>2. CASE max_size # n
      <4>1. n = b - a /\ (LengthHolds(upload) => n < Len(Bytes) - a)
        BY <1>7, <1>9, <3>2
      <4>2. v = pos /\ (LengthHolds(upload) => v < Len(Bytes))
        BY <1>1, <1>6, <1>7, <1>14, <4>1 DEF w
      <4> QED
        BY <1>10, <3>2, <4>2
    <3> QED
      BY <3>1, <3>2
  <2> QED
    BY <1>2, <1>5, <1>15, <2>1, <2>2, <2>3 DEF Counted
<1>21. Dechunked'
  <2> SUFFICES ASSUME mode = 1 PROVE Dechunked'
    BY <1>2, <1>3 DEF Dechunked
  <2>1. max_size = n => max_size' = 0 /\ status' = "201"
    BY <1>1, <1>10
  <2>2. max_size # n => status' = "more" /\ v = b
    <3>1. max_size # n => n = b - a
      BY <1>9
    <3> QED
      BY <1>7, <1>10, <1>14, <3>1 DEF w
  <2>3. is_cgi /\ pc' # "raw"
    BY <1>3, <1>16
  <2>4. Passed(b)'
    BY <1>2, <1>5, <1>15, <2>1, <2>2, <2>3 DEF Passed
  <2>5. InChunk(r, b)'
    BY <1>2, <1>6 DEF InChunk
  <2>6. r \in 0 .. pos' /\ b \in 0 .. Len(Bytes) /\ rest' = Slice(Wired, r, pos')
    BY <1>2, <1>6
  <2> QED
    BY <1>2, <1>16, <2>4, <2>5, <2>6, DechunkedNext
<1>22. Copied' /\ Divided'
  BY <1>2, <1>3 DEF Copied, Divided
<1>23. RefusedForSizeLine'
  BY <1>16 DEF RefusedForSizeLine
<1> QED
  BY <1>18, <1>19, <1>20, <1>21, <1>22, <1>23 DEF Inv

LEMMA EndsIs ==
    ASSUME NEW x, NEW t, NEW q
    PROVE  EndsLike(x, t, q) <=>
             \A k \in 0 .. 6 : k < q => k < Len(x) /\ x[Len(x) - k] = t[q - k]
<1>1. LastLen - 1 = 6
  BY Markers
<1>2. 0 .. LastLen - 1 = 0 .. 6
  BY <1>1
<1> QED
  BY <1>2, Zenon DEF EndsLike

\* How the end of what is held back follows the end of what has come.
LEMMA EndsOn ==
    ASSUME NEW t \in Seq(STRING), NEW x \in Seq(STRING), NEW q \in Nat,
           NEW e \in q .. Len(t), EndsLike(x, t, q)
    PROVE  EndsLike(x \o Slice(t, q, e), t, e)
<1> DEFINE y == Slice(t, q, e)
           n == Len(x)
           z == x \o y
<1>1. /\ y \in Seq(STRING) /\ Len(y) = e - q /\ \A i \in 1 .. e - q : y[i] = t[q + i]
  BY SliceType
<1>2. Len(t) \in Nat /\ e \in Nat /\ q <= e /\ n \in Nat /\ LastLen = 7
  BY LenProperties, Markers
<1>3. \A k \in 0 .. 6 : k < q => k < n /\ x[n - k] = t[q - k]
  BY EndsIs, Zenon
<1> HIDE DEF y
<1>4. Len(z) = n + (e - q)
  <2>1. Len(x \o y) = Len(x) + Len(y)
    BY <1>1, ConcatProperties
  <2> QED
    BY <1>1, <2>1
<1>5. \A i \in 1 .. n : z[i] = x[i]
  BY <1>1
<1>6. \A i \in 1 .. e - q : z[n + i] = y[i]
  BY <1>1, <1>2
<1> HIDE DEF n, z
<1>7. ASSUME NEW k \in 0 .. 6, k < e PROVE k < Len(z) /\ z[Len(z) - k] = t[e - k]
  <2>1. CASE k < e - q
    <3>1. (e - q) - k \in 1 .. e - q /\ n + ((e - q) - k) = Len(z) - k
          /\ q + ((e - q) - k) = e - k /\ k < Len(z)
      BY <1>2, <1>4, <1>7, <2>1
    <3> QED
      BY <1>1, <1>6, <3>1
  <2>2. CASE ~(k < e - q)
    <3> DEFINE j == k - (e - q)
    <3>1. j \in 0 .. 6 /\ j < q /\ e - k = q - j /\ Len(z) - k = n - j
      BY <1>2, <1>4, <1>7, <2>2
    <3> HIDE DEF j
    <3>2. j < n /\ x[n - j] = t[q - j]
      BY <1>3, <3>1
    <3>3. n - j \in 1 .. n
      BY <1>2, <3>1, <3>2
    <3>4. z[n - j] = x[n - j]
      BY <1>5, <3>3
    <3>5. k < Len(z)
      BY <1>2, <1>4, <3>1, <3>3
    <3> QED
      BY <3>1, <3>2, <3>4, <3>5
  <2> QED
    BY <2>1, <2>2
<1> QED
  BY <1>7, EndsIs, Zenon DEF z, y

LEMMA EndsAfter ==
    ASSUME NEW t, NEW x \in Seq(STRING), NEW y \in Seq(STRING), NEW q \in Nat, EndsLike(x, t, q)
    PROVE  EndsLike(y \o x, t, q)
<1> DEFINE n == Len(x)
           m == Len(y)
           z == y \o x
<1>1. n \in Nat /\ m \in Nat /\ LastLen = 7
  BY LenProperties, Markers
<1>2. \A k \in 0 .. 6 : k < q => k < n /\ x[n - k] = t[q - k]
  BY EndsIs, Zenon
<1>3. Len(z) = m + n /\ \A i \in 1 .. n : z[m + i] = x[i]
  OBVIOUS
<1> HIDE DEF n, m, z
<1>4. ASSUME NEW k \in 0 .. 6, k < q PROVE k < Len(z) /\ z[Len(z) - k] = t[q - k]
  <2>1. k < n /\ x[n - k] = t[q - k]
    BY <1>2, <1>4
  <2>2. n - k \in 1 .. n /\ m + (n - k) = Len(z) - k /\ k < Len(z)
    BY <1>1, <1>3, <2>1
  <2> QED
    BY <1>3, <2>1, <2>2
<1> QED
  BY <1>4, EndsIs, Zenon DEF z

LEMMA EndsKept ==
    ASSUME NEW t, NEW x \in Seq(STRING), NEW q \in Nat, EndsLike(x, t, q), Len(x) > LastLen
    PROVE  EndsLike(Drop(x, Len(x) - LastLen), t, q)
<1> DEFINE n == Len(x)
           z == Drop(x, n - 7)
<1>1. n \in Nat /\ LastLen = 7 /\ n - 7 \in 0 .. n /\ n > 7
  BY LenProperties, Markers
<1>2. \A k \in 0 .. 6 : k < q => k < n /\ x[n - k] = t[q - k]
  BY EndsIs, Zenon
<1>3. Len(z) = n - (n - 7) /\ \A i \in 1 .. n - (n - 7) : z[i] = x[(n - 7) + i]
  BY <1>1, DropType
<1> HIDE DEF n, z
<1>4. Len(z) = 7 /\ n - (n - 7) = 7
  BY <1>1, <1>3
<1>5. ASSUME NEW k \in 0 .. 6, k < q PROVE k < Len(z) /\ z[Len(z) - k] = t[q - k]
  <2>1. x[n - k] = t[q - k]
    BY <1>2, <1>5
  <2>2. 7 - k \in 1 .. 7 /\ (n - 7) + (7 - k) = n - k /\ k < 7
    BY <1>1
  <2> QED
    BY <1>3, <1>4, <2>1, <2>2
<1>6. EndsLike(z, t, q)
  BY <1>5, EndsIs, Zenon
<1> QED
  BY <1>1, <1>6 DEF z, n

\* The last boundary line is found when all of the body has come.
LEMMA EndFound ==
    ASSUME upload \in Uploads, PartsMeant(upload), NEW x \in Seq(STRING),
           EndsLike(x, Bytes, Len(Bytes))
    PROVE  Finds(x, LastLine) # {}
<1> DEFINE n == Len(x)
           l == Len(Bytes)
           a == At(Parts + 1)
<1>1. a + 6 = l /\ a \in 1 .. l /\ a \in Finds(Bytes, LastLine) /\ l \in Nat /\ n \in Nat
  <2>1. Parts + 1 \in 1 .. Parts + 1
    BY PartPlaces
  <2> QED
    BY <2>1, PartPlaces, LenProperties
<1>2. \A k \in 0 .. 6 : k < l => k < n /\ x[n - k] = Bytes[l - k]
  BY EndsIs, Zenon
<1>3. \A j \in 1 .. 7 : Bytes[a + j - 1] = LastLine[j]
  BY <1>1, Markers DEF Finds, IsAt
<1> HIDE DEF n, l, a
<1>4. n - 6 \in 1 .. n /\ (n - 6) + 7 - 1 <= n
  <2>1. 6 \in 0 .. 6 /\ 6 < l
    BY <1>1
  <2>2. 6 < n
    BY <1>2, <2>1
  <2> QED
    BY <1>1, <2>2
<1>5. ASSUME NEW j \in 1 .. 7 PROVE x[(n - 6) + j - 1] = LastLine[j]
  <2> DEFINE k == 7 - j
  <2>1. k \in 0 .. 6 /\ k < l /\ n - k = (n - 6) + j - 1 /\ l - k = a + j - 1
    BY <1>1
  <2> HIDE DEF k
  <2>2. x[n - k] = Bytes[l - k]
    BY <1>2, <2>1
  <2> QED
    BY <1>3, <2>1, <2>2
<1>6. n - 6 \in Finds(x, LastLine)
  BY <1>4, <1>5, Markers DEF Finds, IsAt, n
<1> QED
  BY <1>6

\* Writing and closing leave a stream and files.
LEMMA WriteType ==
    ASSUME NEW o \in [is_open : BOOLEAN, files : Seq(Seq(STRING))], NEW s \in Seq(STRING)
    PROVE  /\ Write(o, s) \in [is_open : BOOLEAN, files : Seq(Seq(STRING))]
           /\ ClosedOut(o) \in [is_open : BOOLEAN, files : Seq(Seq(STRING))]
           /\ Len(Write(o, s).files) = Len(o.files) /\ Write(o, s).is_open = o.is_open
           /\ ClosedOut(o) = [is_open |-> FALSE, files |-> o.files]
           /\ \A j \in 1 .. Len(o.files) : Write(o, s).files[j] =
                IF o.is_open /\ j = Len(o.files) THEN o.files[j] \o s ELSE o.files[j]
<1> DEFINE F == o.files
           G == [F EXCEPT ![Len(F)] = @ \o s]
<1>1. F \in Seq(Seq(STRING)) /\ o.is_open \in BOOLEAN /\ o = [is_open |-> o.is_open, files |-> F]
  OBVIOUS
<1>2. Len(F) \in Nat /\ DOMAIN F = 1 .. Len(F) /\ \A j \in 1 .. Len(F) : F[j] \in Seq(STRING)
  BY <1>1, LenProperties, ElementOfSeq
<1>3. G = [j \in 1 .. Len(F) |-> IF j = Len(F) THEN F[j] \o s ELSE F[j]]
  BY <1>2
<1>4. ASSUME NEW j \in 1 .. Len(F)
      PROVE  (IF j = Len(F) THEN F[j] \o s ELSE F[j]) \in Seq(STRING)
  BY <1>2, ConcatProperties
<1>5. G \in Seq(Seq(STRING)) /\ Len(G) = Len(F)
      /\ \A j \in 1 .. Len(F) : G[j] = IF j = Len(F) THEN F[j] \o s ELSE F[j]
  <2>1. G \in [1 .. Len(F) -> Seq(STRING)]
    BY <1>3, <1>4, Zenon
  <2>2. \A j \in 1 .. Len(F) : G[j] = IF j = Len(F) THEN F[j] \o s ELSE F[j]
    BY <1>3, Zenon
  <2> HIDE DEF G
  <2>3. G \in Seq(Seq(STRING))
    <3> DEFINE T == Seq(STRING)
               k == Len(F)
    <3>1. k \in Nat /\ G \in [1 .. k -> T]
      BY <1>2, <2>1
    <3> HIDE DEF T, k
    <3>2. G \in Seq(T)
      BY <3>1
    <3> QED
      BY <3>2 DEF T
  <2>4. Len(G) \in Nat /\ DOMAIN G = 1 .. Len(G) /\ DOMAIN G = 1 .. Len(F)
    BY <2>1, <2>3, LenProperties
  <2> QED
    BY <1>2, <2>2, <2>3, <2>4
<1>6. Write(o, s) = IF o.is_open THEN [o EXCEPT !.files = G] ELSE o
  BY Zenon DEF Write
<1> HIDE DEF G
<1>7. CASE o.is_open
  BY <1>1, <1>5, <1>6, <1>7 DEF ClosedOut
<1>8. CASE ~o.is_open
  BY <1>1, <1>6, <1>8 DEF ClosedOut
<1> QED
  BY <1>7, <1>8

LEMMA RawMultipartKeeps ==
    ASSUME Inv, RawMultipart
    PROVE  Inv'
<1> DEFINE content == brest \o body
           n == Len(content)
<1>1. /\ upload \in Uploads /\ Bytes \in Seq(STRING) /\ Wired \in Seq(STRING)
      /\ Len(Bytes) \in Nat /\ Len(Wired) \in Nat
      /\ pos \in 0 .. Len(Wired) /\ pos \in Nat
      /\ out \in [is_open : BOOLEAN, files : Seq(Seq(STRING))]
      /\ upload.dir \in BOOLEAN /\ repeated \in BOOLEAN
      /\ brest \in Seq(STRING) /\ body \in Seq(STRING)
  BY Context
<1>2. /\ pc = "raw" /\ mode = 4 /\ body' = <<>>
      /\ UNCHANGED <<upload, pos, idle, mode, is_cgi, max_size, chunked_size, rest, h, typed,
                     fed, cuts>>
  BY DEF RawMultipart, callVars, modeVars, chunkVars
<1>3. status = "more" /\ mode # NoMode
  BY <1>2 DEF Inv, Modes, NoMode
<1>4. Wired = Bytes /\ PartsMeant(upload)
  BY <1>2, <1>3, InMode
<1>5. Bytes' = Bytes /\ Wired' = Wired /\ BadEnds' = BadEnds
  BY <1>2, SameRequest
<1>6. PICK q \in 0 .. pos : /\ EndsLike(brest, Bytes, q)
                            /\ ~repeated => \E w \in 0 .. q : HeldAfter(w, q)
                            /\ body = Slice(Bytes, q, pos)
  BY <1>2, <1>3 DEF Inv, Copied
<1>7. q \in Nat /\ pos \in q .. Len(Bytes) /\ pos \in 0 .. Len(Bytes)
  BY <1>1, <1>4, <1>6
<1>8. content \in Seq(STRING) /\ n \in Nat
  BY <1>1, ConcatProperties, LenProperties
<1>9. EndsLike(content, Bytes, pos)
  BY <1>1, <1>6, <1>7, EndsOn
\* The three cases of the call.
<1> DEFINE found == /\ Finds(content, LastLine) # {}
                    /\ status' = "201" /\ pc' = "recv" /\ out' = ClosedOut(Write(out, content))
                    /\ UNCHANGED <<brest, repeated>>
           copied == /\ Finds(content, LastLine) = {} /\ n - 7 > 0
                     /\ out' = Write(out, Take(content, n - 7))
                     /\ brest' = Drop(content, n - 7)
                     /\ pc' = "recv" /\ UNCHANGED <<status, repeated>>
           held == /\ Finds(content, LastLine) = {} /\ ~(n - 7 > 0)
                   /\ brest' = brest \o content
                   /\ repeated' = (repeated \/ brest # <<>>)
                   /\ pc' = "recv" /\ UNCHANGED <<status, out>>
<1>10. found \/ copied \/ held
  <2>1. Return = "recv"
    BY <1>2 DEF Return
  <2>2. Len(LastLine) = 7
    BY Markers
  <2>3. CASE Finds(content, LastLine) # {}
    BY <2>3 DEF RawMultipart, Throw
  <2>4. CASE Finds(content, LastLine) = {} /\ n - 7 > 0
    BY <2>1, <2>2, <2>4 DEF RawMultipart, ScriptTail
  <2>5. CASE Finds(content, LastLine) = {} /\ ~(n - 7 > 0)
    BY <2>1, <2>2, <2>5 DEF RawMultipart
  <2> QED
    BY <2>3, <2>4, <2>5
\* What is written and held back, when nothing was doubled.
<1>11. ASSUME ~repeated
       PROVE  \E w \in 0 .. q : HeldAfter(w, q) /\ content = Slice(Bytes, w, pos) /\ n = pos - w
  <2>1. PICK w \in 0 .. q : HeldAfter(w, q)
    BY <1>6, <1>11
  <2>2. w \in Nat /\ q \in w .. Len(Bytes) /\ pos \in q .. Len(Bytes) /\ pos \in w .. Len(Bytes)
    BY <1>7
  <2>3. content = Slice(Bytes, w, pos)
    BY <1>1, <1>6, <2>1, <2>2, SliceJoin DEF HeldAfter
  <2>4. n = pos - w
    <3> HIDE DEF content
    <3> QED
      BY ZenonT(20), SMTT(15), <1>1, <2>2, <2>3, SliceType
  <2> QED
    BY <2>1, <2>3, <2>4
<1>12. Finds(content, LastLine) = {} => pos < Len(Bytes)
  <2> HIDE DEF content
  <2>1. pos = Len(Bytes) => Finds(content, LastLine) # {}
    BY <1>1, <1>4, <1>8, <1>9, EndFound
  <2> QED
    BY <1>7, <2>1
<1> HIDE DEF content, n
<1>13. Finds(content, LastLine) = {} => pos \in 0 .. pos /\ pos < Len(Bytes)
  BY <1>7, <1>12
<1>14. /\ pc' = "recv" /\ status' \in {"more", "201"} /\ repeated' \in BOOLEAN
       /\ brest' \in Seq(STRING)
  <2>1. CASE found
    BY <1>1, <2>1
  <2>2. CASE copied
    <3>1. n - 7 \in 0 .. Len(content)
      BY <1>8, <2>2 DEF n
    <3>2. Drop(content, n - 7) \in Seq(STRING)
      BY <1>8, <3>1, DropType
    <3> QED
      BY <1>1, <1>3, <2>2, <3>2
  <2>3. CASE held
    <3>1. brest \o content \in Seq(STRING)
      BY <1>1, <1>8, ConcatProperties
    <3> QED
      BY <1>1, <1>3, <2>3, <3>1
  <2> QED
    BY <1>10, <2>1, <2>2, <2>3
<1>15. out' \in [is_open : BOOLEAN, files : Seq(Seq(STRING))]
  <2> DEFINE y == Take(content, n - 7)
  <2>1. CASE found
    BY <1>1, <1>8, <2>1, WriteType
  <2>2. CASE copied
    <3>1. n - 7 \in 0 .. Len(content)
      BY <1>8, <2>2 DEF n
    <3>2. y \in Seq(STRING)
      BY <1>8, <3>1, TakeType
    <3> HIDE DEF y
    <3> QED
      BY <1>1, <2>2, <3>2, WriteType DEF y
  <2>3. CASE held
    BY <1>1, <2>3
  <2> QED
    BY <1>10, <2>1, <2>2, <2>3
<1>16. TypeOK'
  <2>1. body' \in Seq(STRING)
    BY <1>2
  <2> QED
    BY <1>2, <1>5, <1>14, <1>15, <2>1 DEF Inv, TypeOK
<1>17. Modes'
  <2>1. Refusal(upload)' = Refusal(upload) /\ ModeOf(upload, is_cgi)' = ModeOf(upload, is_cgi)
    BY <1>2
  <2>2. upload.encoding = "none" => fed = pos
    BY DEF Inv, Modes
  <2>3. Refusal(upload) = "more" /\ mode = ModeOf(upload, is_cgi)
    BY <1>3 DEF Inv, Modes
  <2> QED
    BY <1>2, <1>3, <1>14, <2>1, <2>2, <2>3 DEF Modes
<1>18. Copied'
  <2>1. CASE found
    <3> SUFFICES ASSUME ~repeated' PROVE Holds(Bytes)'
      BY <1>2, <2>1 DEF Copied
    <3>1. PICK w \in 0 .. q : HeldAfter(w, q) /\ content = Slice(Bytes, w, pos)
      BY <1>11, <2>1
    <3>2. w \in Nat /\ pos \in w .. Len(Bytes) /\ w \in 0 .. Len(Bytes) /\ 0 \in Nat
      BY <1>7
    <3>3. pos = Len(Bytes)
      <4>1. PICK i \in Finds(content, LastLine) : TRUE
        BY <2>1
      <4>2. i \in Int
        BY <1>8, <4>1, FindsWithin
      <4>3. w + i \in Finds(Bytes, LastLine) /\ w + i + 7 - 1 <= pos
        <5>1. Len(LastLine) = 7 /\ 7 \in Nat \ {0} /\ DOMAIN LastLine = 1 .. Len(LastLine)
          BY Markers
        <5> QED
          BY <1>1, <3>1, <3>2, <4>1, <4>2, <5>1, SliceFinds
      <4>4. w + i = At(Parts + 1) /\ At(Parts + 1) + 6 = Len(Bytes)
        BY <1>1, <1>4, <4>3, PartPlaces
      <4> QED
        BY <1>1, <1>7, <3>2, <4>2, <4>3, <4>4
    <3> DEFINE x == Slice(Bytes, 0, w)
    <3>4. x \in Seq(STRING) /\ x \o content = Bytes
      <4>1. x \in Seq(STRING)
        BY <1>1, <3>2, SliceType
      <4>2. x \o content = Slice(Bytes, 0, Len(Bytes))
        BY <1>1, <3>1, <3>2, <3>3, SliceJoin
      <4> QED
        BY <1>1, <4>1, <4>2, SliceAll
    <3>5. Holds(x)
      BY <3>1 DEF HeldAfter
    <3> HIDE DEF x
    <3>6. out' = [is_open |-> FALSE, files |-> IF upload.dir THEN <<Bytes>> ELSE <<>>]
      BY <1>1, <1>3, <1>8, <2>1, <3>4, <3>5, WriteHolds
    <3>7. (upload.dir /\ status' # "201") = FALSE
      BY <2>1
    <3> QED
      BY <1>2, <1>5, <3>6, <3>7 DEF Holds
  <2>2. CASE copied
    <3>1. EndsLike(brest', Bytes, pos)
      <4>1. n > LastLen /\ n - 7 = n - LastLen
        BY <1>8, <2>2, Markers
      <4> QED
        BY <1>1, <1>8, <1>9, <2>2, <4>1, EndsKept DEF n
    <3>2. ASSUME ~repeated' PROVE \E v \in 0 .. pos : HeldAfter(v, pos)'
      <4>1. PICK w \in 0 .. q : HeldAfter(w, q) /\ content = Slice(Bytes, w, pos) /\ n = pos - w
        BY <1>11, <2>2, <3>2
      <4>2. w \in Nat /\ pos \in w .. Len(Bytes) /\ w \in 0 .. Len(Bytes) /\ 0 \in Nat
        BY <1>7
      <4>3. PICK v \in Nat : v = w + (n - 7)
        BY <1>8, <2>2, <4>2
      <4>4. /\ v \in 0 .. pos /\ v \in w .. Len(Bytes) /\ pos = v + 7 /\ v \in 0 .. Len(Bytes)
            /\ n - 7 \in 0 .. pos - w
        BY <1>7, <1>8, <2>2, <4>1, <4>2, <4>3
      <4> DEFINE x == Slice(Bytes, 0, w)
                 y == Slice(Bytes, w, v)
      <4>5. Take(content, n - 7) = y
        BY <1>1, <4>1, <4>2, <4>3, <4>4, SliceTake
      <4>6. Drop(content, n - 7) = Slice(Bytes, v, pos)
        BY <1>1, <4>1, <4>2, <4>3, <4>4, SliceDrop
      <4>7. x \in Seq(STRING) /\ y \in Seq(STRING) /\ x \o y = Slice(Bytes, 0, v)
        BY <1>1, <4>2, <4>4, SliceType, SliceJoin
      <4>8. Holds(x)
        BY <4>1 DEF HeldAfter
      <4> HIDE DEF x, y
      <4>9. (upload.dir /\ status' # "201") = upload.dir
        BY <1>1, <1>3, <2>2
      <4>10. out' = [is_open |-> upload.dir /\ status' # "201",
                     files |-> IF upload.dir THEN <<Slice(Bytes, 0, v)>> ELSE <<>>]
        <5>1. Write(out, y) = [is_open |-> upload.dir,
                               files |-> IF upload.dir THEN <<x \o y>> ELSE <<>>]
          BY <1>1, <1>3, <4>7, <4>8, WriteHolds
        <5>2. out' = Write(out, y)
          BY <2>2, <4>5
        <5> QED
          BY <4>7, <4>9, <5>1, <5>2
      <4>11. Holds(Slice(Bytes, 0, v))'
        BY <1>2, <4>10, HoldsNext
      <4>12. brest' = Slice(Bytes, v, pos)
        BY <2>2, <4>6
      <4>13. pos = v + LastLen
        BY <4>4, Markers
      <4> QED
        BY <1>2, <1>5, <4>4, <4>11, <4>12, <4>13 DEF HeldAfter
    <3> QED
      BY <1>2, <1>3, <1>13, <1>14, <2>2, <3>1, <3>2, CopiedNext
  <2>3. CASE held
    <3>1. EndsLike(brest', Bytes, pos)
      BY <1>1, <1>7, <1>8, <1>9, <2>3, EndsAfter
    <3>2. ASSUME ~repeated' PROVE \E v \in 0 .. pos : HeldAfter(v, pos)'
      <4>1. ~repeated /\ brest = <<>>
        BY <1>1, <2>3, <3>2
      <4>2. PICK w \in 0 .. q : HeldAfter(w, q) /\ content = Slice(Bytes, w, pos) /\ n = pos - w
        BY <1>11, <4>1
      <4>3. w \in Nat /\ q \in w .. Len(Bytes)
        BY <1>7
      <4>4. q = w
        <5>1. Len(brest) = 0
          BY <4>1
        <5>2. Len(Slice(Bytes, w, q)) = q - w
          BY <1>1, <4>3, SliceType
        <5> QED
          BY <1>7, <4>2, <4>3, <5>1, <5>2 DEF HeldAfter
      <4>5. w = 0
        BY <4>2, <4>3, <4>4, Markers DEF HeldAfter
      <4>6. brest' = content
        BY <1>8, <2>3, <4>1, ConcatEmptySeq
      <4>7. brest' = Slice(Bytes, w, pos) /\ pos <= LastLen
        BY <1>7, <1>8, <2>3, <4>2, <4>5, <4>6, Markers
      <4>8. Holds(Slice(Bytes, 0, w))
        BY <4>2 DEF HeldAfter
      <4>9. status' # "201" /\ status # "201" /\ UNCHANGED <<upload, out>>
        BY <1>2, <1>3, <2>3
      <4>10. Holds(Slice(Bytes, 0, w))'
        BY <4>8, <4>9, HoldsStill
      <4>11. w \in 0 .. pos
        BY <1>7, <4>5
      <4> QED
        BY <1>2, <1>5, <4>5, <4>7, <4>10, <4>11 DEF HeldAfter
    <3> QED
      BY <1>2, <1>3, <1>13, <1>14, <2>3, <3>1, <3>2, CopiedNext
  <2> QED
    BY <1>10, <2>1, <2>2, <2>3
<1>19. Counted' /\ Dechunked' /\ Divided'
  BY <1>2 DEF Counted, Dechunked, Divided
<1>20. RefusedForSizeLine'
  BY <1>14 DEF RefusedForSizeLine
<1> QED
  BY <1>16, <1>17, <1>18, <1>19, <1>20 DEF Inv

-------------------------------------------------------------------------------
(***************************************************************************)
(* boundarry at a place of the body: what is behind it and what is ahead.  *)
(***************************************************************************)
Streams == [is_open : BOOLEAN, files : Seq(Seq(STRING))]

\* Part i is being written, up to q.
Growing(o, i, q) ==
    IF ~upload.dir THEN o = [is_open |-> FALSE, files |-> <<>>]
    ELSE /\ Len(o.files) = i /\ o.is_open
         /\ \A j \in 1 .. i - 1 : FileDone(o.files[j], j)
         /\ o.files[i] = Slice(Bytes, Begins(i), q)

LEMMA Behind ==
    ASSUME upload \in Uploads, PartsMeant(upload), h \in BOOLEAN,
           NEW i \in 0 .. Parts, NEW q \in 0 .. Len(Bytes), Stands(i, q)
    PROVE  /\ \A k \in 1 .. i : At(k) <= q
           /\ i < Parts \/ h => q < At(i + 1)
           /\ i + 1 \in 1 .. Parts + 1 /\ At(i + 1) \in 1 .. Len(Bytes)
<1>1. /\ Parts \in Nat \ {0} /\ Len(Bytes) \in Nat
      /\ \A k \in 1 .. Parts + 1 : At(k) \in 1 .. Len(Bytes)
      /\ \A j, k \in 1 .. Parts + 1 : j < k => At(j) < At(k)
      /\ At(1) = 1
  BY PartPlaces
<1>2. i + 1 \in 1 .. Parts + 1 /\ At(i + 1) \in 1 .. Len(Bytes) /\ q \in Nat
  BY <1>1
<1>3. CASE i = 0
  BY <1>1, <1>2, <1>3 DEF Stands
<1>4. CASE i # 0
  <2>1. i \in 1 .. Parts /\ i \in 1 .. Parts + 1
    BY <1>1, <1>4
  <2>2. /\ At(i) \in 1 .. Len(Bytes) /\ Blank(i) \in Nat /\ Begins(i) = Blank(i) + 1
        /\ At(i) + 5 <= Blank(i) /\ Blank(i) + 4 <= At(i + 1)
    BY <2>1, HeadPlaces
  <2>3. At(i) <= q
    <3>1. CASE h
      BY <2>1, <2>2, <3>1, <1>2 DEF Stands, InHead
    <3>2. CASE ~h
      BY <2>1, <2>2, <3>2, <1>2 DEF Stands, InPart
    <3> QED
      BY <3>1, <3>2
  <2>4. \A k \in 1 .. i : At(k) <= q
    <3> SUFFICES ASSUME NEW k \in 1 .. i PROVE At(k) <= q
      OBVIOUS
    <3>1. k \in 1 .. Parts + 1 /\ (k < i \/ k = i)
      BY <1>1, <2>1
    <3>2. At(k) \in 1 .. Len(Bytes) /\ (k < i => At(k) < At(i))
      BY <1>1, <2>1, <3>1
    <3> QED
      BY SMTT(15), ZenonT(20), <1>1, <1>2, <2>2, <2>3, <3>1, <3>2
  <2>5. i < Parts \/ h => q < At(i + 1)
    <3>1. CASE h
      BY <1>2, <2>1, <2>2, <3>1 DEF Stands, InHead
    <3>2. CASE ~h
      <4>1. Margin(i, q)
        BY <2>1, <3>2 DEF Stands, InPart
      <4>2. i < Parts => q <= At(i + 1) - 3 \/ q = At(i + 1) - 2
        BY <1>1, <4>1 DEF Margin
      <4> QED
        BY <1>1, <1>2, <3>2, <4>2
    <3> QED
      BY <3>1, <3>2
  <2> QED
    BY <1>2, <2>4, <2>5
<1> QED
  BY <1>3, <1>4

LEMMA Ahead ==
    ASSUME upload \in Uploads, PartsMeant(upload),
           NEW i \in 0 .. Parts, NEW q \in 0 .. Len(Bytes), NEW f \in q .. Len(Bytes),
           \A k \in 1 .. i : At(k) <= q, i < Parts => q < At(i + 1)
    PROVE  LET start == Finds(Slice(Bytes, q, f), StartLine)
               last  == Finds(Slice(Bytes, q, f), LastLine)
           IN  /\ start # {} => i < Parts /\ Min(start) = At(i + 1) - q /\ At(i + 1) + 4 <= f
               /\ start = {} /\ i < Parts => f <= At(i + 1) + 3
               /\ start = {} /\ last # {} =>
                    i = Parts /\ Min(last) = At(i + 1) - q /\ f = Len(Bytes) /\ q < At(i + 1)
               /\ last = {} => f <= At(Parts + 1) + 5 \/ At(Parts + 1) <= q
<1> DEFINE x == Slice(Bytes, q, f)
           start == Finds(x, StartLine)
           last == Finds(x, LastLine)
<1>1. /\ Parts \in Nat \ {0} /\ Len(Bytes) \in Nat
      /\ \A k \in 1 .. Parts + 1 : At(k) \in 1 .. Len(Bytes)
      /\ \A j, k \in 1 .. Parts + 1 : j < k => At(j) < At(k)
      /\ At(Parts + 1) + 6 = Len(Bytes)
      /\ Finds(Bytes, StartLine) = {At(k) : k \in 1 .. Parts}
      /\ Finds(Bytes, LastLine) = {At(Parts + 1)}
      /\ Bytes \in Seq(STRING)
  BY PartPlaces, UploadIs
<1>2. q \in Nat /\ f \in Nat /\ q <= f /\ f <= Len(Bytes) /\ x \in Seq(STRING)
  <2>1. q \in Nat
    BY <1>1
  <2> QED
    BY <1>1, <2>1, SliceType
<1>3. start \subseteq Nat /\ last \subseteq Nat
  BY <1>2, FindsWithin
<1>4. \A j \in Int : j \in start <=> j >= 1 /\ q + j \in Finds(Bytes, StartLine) /\ q + j + 5 - 1 <= f
  <2> SUFFICES ASSUME NEW j \in Int
               PROVE  j \in start <=> j >= 1 /\ q + j \in Finds(Bytes, StartLine) /\ q + j + 5 - 1 <= f
    OBVIOUS
  <2>1. Len(StartLine) \in Nat \ {0} /\ DOMAIN StartLine = 1 .. Len(StartLine) /\ Len(StartLine) = 5
    BY Markers
  <2>2. j \in start <=>
          j >= 1 /\ q + j \in Finds(Bytes, StartLine) /\ q + j + Len(StartLine) - 1 <= f
    BY <1>1, <1>2, <2>1, SliceFinds
  <2> QED
    BY <2>1, <2>2
<1>5. \A j \in Int : j \in last <=> j >= 1 /\ q + j \in Finds(Bytes, LastLine) /\ q + j + 7 - 1 <= f
  <2> SUFFICES ASSUME NEW j \in Int
               PROVE  j \in last <=> j >= 1 /\ q + j \in Finds(Bytes, LastLine) /\ q + j + 7 - 1 <= f
    OBVIOUS
  <2>1. Len(LastLine) \in Nat \ {0} /\ DOMAIN LastLine = 1 .. Len(LastLine) /\ Len(LastLine) = 7
    BY Markers
  <2>2. j \in last <=>
          j >= 1 /\ q + j \in Finds(Bytes, LastLine) /\ q + j + Len(LastLine) - 1 <= f
    BY <1>1, <1>2, <2>1, SliceFinds
  <2> QED
    BY <2>1, <2>2
<1>6. Parts + 1 \in 1 .. Parts + 1 /\ At(Parts + 1) \in Nat
  BY <1>1
<1> HIDE DEF x, start, last
<1>7. ASSUME start # {} PROVE i < Parts /\ Min(start) = At(i + 1) - q /\ At(i + 1) + 4 <= f
  <2>1. PICK m \in Nat : m = Min(start)
    BY <1>3, <1>7, MinNat
  <2>2. m \in start /\ \A j \in start : m <= j
    BY <1>3, <1>7, <2>1, MinNat
  <2>3. m >= 1 /\ q + m \in Finds(Bytes, StartLine) /\ q + m + 5 - 1 <= f
    BY <1>4, <2>1, <2>2
  <2>4. PICK k \in 1 .. Parts : q + m = At(k)
    BY <1>1, <2>3
  <2>5. k \notin 1 .. i
    <3>1. k \in 1 .. i => q + m <= q
      BY <2>4
    <3> QED
      BY <1>2, <2>1, <2>3, <3>1
  <2>6. i < Parts /\ i + 1 \in 1 .. Parts /\ i + 1 \in 1 .. Parts + 1 /\ i + 1 <= k
        /\ k \in 1 .. Parts + 1
    BY <1>1, <2>5
  <2>7. At(i + 1) \in Nat /\ At(i + 1) <= At(k)
    <3>1. i + 1 = k \/ i + 1 < k
      BY <2>6
    <3>2. At(i + 1) \in Nat /\ At(k) \in Nat /\ (i + 1 < k => At(i + 1) < At(k))
      BY <1>1, <2>6
    <3> QED
      BY <3>1, <3>2
  <2>8. At(i + 1) - q \in start
    <3> DEFINE j == At(i + 1) - q
    <3>1. j \in Int /\ j >= 1 /\ q + j = At(i + 1) /\ q + j + 5 - 1 <= f
      BY SMTT(15), ZenonT(20), <1>2, <2>1, <2>3, <2>4, <2>6, <2>7
    <3>2. At(i + 1) \in Finds(Bytes, StartLine)
      BY <1>1, <2>6
    <3> HIDE DEF j
    <3>3. j \in start
      BY <1>4, <3>1, <3>2
    <3> QED
      BY <3>3 DEF j
  <2>9. m = At(i + 1) - q
    BY <1>2, <2>1, <2>2, <2>4, <2>7, <2>8
  <2> QED
    BY <1>2, <2>1, <2>3, <2>6, <2>7, <2>9
<1>8. ASSUME start = {}, i < Parts PROVE f <= At(i + 1) + 3
  <2> DEFINE j == At(i + 1) - q
  <2>1. i + 1 \in 1 .. Parts /\ i + 1 \in 1 .. Parts + 1
    BY <1>1, <1>8
  <2>2. At(i + 1) \in Finds(Bytes, StartLine) /\ At(i + 1) \in Nat
    BY <1>1, <2>1
  <2>3. j \in Int /\ j >= 1 /\ q + j = At(i + 1)
    BY <1>2, <1>8, <2>2
  <2> HIDE DEF j
  <2>4. ~(q + j + 5 - 1 <= f)
    BY <1>4, <1>8, <2>2, <2>3
  <2> QED
    BY <1>2, <2>2, <2>3, <2>4
<1>9. ASSUME start = {}, last # {}
      PROVE  i = Parts /\ Min(last) = At(i + 1) - q /\ f = Len(Bytes) /\ q < At(i + 1)
  <2>1. PICK m \in Nat : m = Min(last)
    BY <1>3, <1>9, MinNat
  <2>2. m \in last
    BY <1>3, <1>9, <2>1, MinNat
  <2>3. m >= 1 /\ q + m = At(Parts + 1) /\ q + m + 7 - 1 <= f
    BY <1>1, <1>5, <2>1, <2>2
  <2>4. f = Len(Bytes) /\ q < At(Parts + 1) /\ m = At(Parts + 1) - q
    BY <1>1, <1>2, <1>6, <2>1, <2>3
  <2>5. i = Parts
    <3> SUFFICES ASSUME i < Parts PROVE FALSE
      BY <1>1
    <3>1. i + 1 \in 1 .. Parts + 1 /\ i + 1 < Parts + 1
      BY <1>1
    <3>2. At(i + 1) \in Nat /\ At(i + 1) < At(Parts + 1)
      BY SMTT(15), ZenonT(20), <1>1, <1>6, <3>1
    <3> QED
      BY SMTT(15), ZenonT(20), <1>1, <1>2, <1>6, <1>8, <1>9, <2>4, <3>2
  <2> QED
    BY <2>1, <2>4, <2>5
<1>10. ASSUME last = {} PROVE f <= At(Parts + 1) + 5 \/ At(Parts + 1) <= q
  <2> DEFINE j == At(Parts + 1) - q
  <2>1. j \in Int /\ q + j = At(Parts + 1) /\ At(Parts + 1) \in Finds(Bytes, LastLine)
    BY <1>1, <1>2, <1>6
  <2> HIDE DEF j
  <2>2. ~(j >= 1 /\ q + j + 7 - 1 <= f)
    BY <1>5, <1>10, <2>1
  <2> QED
    BY <1>2, <1>6, <2>1, <2>2
<1> QED
  BY <1>7, <1>8, <1>9, <1>10 DEF start, last, x

\* The stream, when it is opened on a part and written to.
LEMMA Opened ==
    ASSUME upload \in Uploads, PartsMeant(upload), upload.dir \in BOOLEAN, out \in Streams,
           NEW i \in 1 .. Parts, h = TRUE, NEW q, FilesTo(i, q)
    PROVE  NewFile(out) \in Streams /\ Growing(NewFile(out), i, Begins(i))
<1> DEFINE F == out.files
           G == Append(F, <<>>)
<1>1. out = [is_open |-> out.is_open, files |-> F] /\ F \in Seq(Seq(STRING))
      /\ out.is_open \in BOOLEAN
  BY DEF Streams
<1>2. i \in Nat /\ Begins(i) \in Nat /\ Begins(i) <= Len(Bytes) /\ Bytes \in Seq(STRING)
      /\ Len(Bytes) \in Nat
  <2>1. /\ At(i + 1) \in 1 .. Len(Bytes) /\ Blank(i) \in Nat /\ Begins(i) = Blank(i) + 1
        /\ Blank(i) + 4 <= At(i + 1)
    BY HeadPlaces
  <2>2. Bytes \in Seq(STRING) /\ Len(Bytes) \in Nat /\ Parts \in Nat
    BY UploadIs, PartPlaces
  <2> QED
    BY <2>1, <2>2
<1>3. Slice(Bytes, Begins(i), Begins(i)) = <<>>
  <2>1. Begins(i) \in 0 .. Len(Bytes)
    BY <1>2
  <2> QED
    BY <1>2, <2>1, SliceNone
<1>4. CASE upload.dir = FALSE
  <2>1. out = [is_open |-> FALSE, files |-> <<>>]
    BY <1>4 DEF FilesTo
  <2>2. NewFile(out) = [is_open |-> FALSE, files |-> <<>>]
    BY <1>4, <2>1 DEF NewFile
  <2>3. <<>> \in Seq(Seq(STRING))
    OBVIOUS
  <2> QED
    BY <1>4, <2>2, <2>3 DEF Growing, Streams
<1>5. CASE upload.dir = TRUE
  <2>1. Len(F) = i - 1 /\ \A j \in 1 .. i - 1 : FileDone(F[j], j)
    BY <1>5 DEF FilesTo, Complete
  <2>2. <<>> \in Seq(STRING)
    OBVIOUS
  <2>3. /\ G \in Seq(Seq(STRING)) /\ Len(G) = Len(F) + 1
        /\ G[Len(F) + 1] = <<>> /\ \A j \in 1 .. Len(F) : G[j] = F[j]
    BY <1>1, <2>2, AppendProperties
  <2>4. NewFile(out) = [is_open |-> TRUE, files |-> G]
    BY <1>5 DEF NewFile
  <2> HIDE DEF F, G
  <2>5. NewFile(out) \in Streams
    BY <2>3, <2>4 DEF Streams
  <2>6. Len(G) = i /\ G[i] = <<>> /\ \A j \in 1 .. i - 1 : FileDone(G[j], j)
    BY <1>2, <2>1, <2>3
  <2>7. NewFile(out).files = G /\ NewFile(out).is_open = TRUE
    BY <2>4
  <2> QED
    BY <1>3, <1>5, <2>5, <2>6, <2>7 DEF Growing
<1> QED
  BY <1>4, <1>5

LEMMA GrowsOn ==
    ASSUME upload \in Uploads, PartsMeant(upload), upload.dir \in BOOLEAN,
           NEW o \in Streams, NEW i \in 1 .. Parts, NEW s \in Nat, NEW e \in s .. Len(Bytes),
           Begins(i) <= s, Growing(o, i, s)
    PROVE  /\ Write(o, Slice(Bytes, s, e)) \in Streams
           /\ Growing(Write(o, Slice(Bytes, s, e)), i, e)
           /\ ClosedOut(Write(o, Slice(Bytes, s, e))) \in Streams
           /\ ClosedOut(Write(o, Slice(Bytes, s, e))).files = Write(o, Slice(Bytes, s, e)).files
<1> DEFINE y == Slice(Bytes, s, e)
           b == Begins(i)
           w == Write(o, y)
<1>1. Bytes \in Seq(STRING) /\ Len(Bytes) \in Nat /\ b \in Nat /\ Parts \in Nat /\ i \in Nat
  <2>1. Blank(i) \in Nat /\ Begins(i) = Blank(i) + 1
    BY HeadPlaces
  <2> QED
    BY <2>1, UploadIs, PartPlaces
<1>2. s \in b .. Len(Bytes) /\ e \in Nat
  BY <1>1
<1>3. y \in Seq(STRING) /\ Slice(Bytes, b, s) \o y = Slice(Bytes, b, e)
  BY <1>1, <1>2, SliceType, SliceJoin
<1> HIDE DEF y, b
<1>4. /\ w \in Streams /\ ClosedOut(w) \in Streams
      /\ Len(w.files) = Len(o.files) /\ w.is_open = o.is_open
      /\ \A j \in 1 .. Len(o.files) : w.files[j] =
           IF o.is_open /\ j = Len(o.files) THEN o.files[j] \o y ELSE o.files[j]
  BY <1>3, WriteType DEF Streams
<1>5. ClosedOut(w).files = w.files
  BY DEF ClosedOut
<1>6. CASE ~upload.dir
  <2>1. o = [is_open |-> FALSE, files |-> <<>>]
    BY <1>6 DEF Growing
  <2>2. w = o
    BY <2>1 DEF Write
  <2> QED
    BY <1>4, <1>5, <1>6, <2>1, <2>2 DEF Growing, y
<1>7. CASE upload.dir
  <2>1. /\ Len(o.files) = i /\ o.is_open /\ o.files[i] = Slice(Bytes, b, s)
        /\ \A j \in 1 .. i - 1 : FileDone(o.files[j], j)
    BY <1>7 DEF Growing, b
  <2>2. w.files[i] = Slice(Bytes, b, e)
    <3>1. i \in 1 .. Len(o.files) /\ o.is_open /\ i = Len(o.files)
      BY <1>1, <2>1
    <3>2. w.files[i] = o.files[i] \o y
      BY <1>4, <3>1
    <3> QED
      BY <1>3, <2>1, <3>2
  <2>3. \A j \in 1 .. i - 1 : w.files[j] = o.files[j]
    BY <1>1, <1>4, <2>1
  <2>4. \A j \in 1 .. i - 1 : FileDone(w.files[j], j)
    BY <2>1, <2>3
  <2> HIDE DEF w
  <2>5. Growing(w, i, e)
    BY <1>4, <1>7, <2>1, <2>2, <2>4 DEF Growing, b
  <2> QED
    BY <1>4, <1>5, <2>5 DEF w, y
<1> QED
  BY <1>6, <1>7

(***************************************************************************)
(* What set_headers makes of the body up to f: the head goes on, or part i *)
(* is at work from s on.                                                   *)
(***************************************************************************)
HeadGoesOn(r, i, q, f) ==
    /\ h /\ f <= Blank(i) /\ ~r.created
    /\ \E p \in q .. f : InHead(i, p) /\ r.body = Slice(Bytes, p, f)

PartGrows(r, i, q, f) ==
    /\ h => Blank(i) < f /\ r.created
    /\ ~h => ~r.created
    /\ \E s \in q .. f : /\ InPart(i, s) /\ r.body = Slice(Bytes, s, f) /\ (h => s = Begins(i))
                         /\ OutAfter(r) \in Streams /\ Growing(OutAfter(r), i, s)

LEMMA PartAtWork ==
    ASSUME Inv, PartsMeant(upload), NEW i \in 1 .. Parts, NEW q \in 0 .. Len(Bytes),
           NEW f \in q .. Len(Bytes), Stands(i, q)
    PROVE  LET r == SetHeaders(Slice(Bytes, q, f))
           IN  /\ r.refusal \in {"more", "400", "415"} /\ r.typed \in BOOLEAN
               /\ r.refusal = "400" => BadHeader
               /\ HeadGoesOn(r, i, q, f) \/ PartGrows(r, i, q, f)
<1> DEFINE r == SetHeaders(Slice(Bytes, q, f))
<1>1. /\ upload \in Uploads /\ Bytes \in Seq(STRING) /\ Len(Bytes) \in Nat
      /\ out \in Streams /\ upload.dir \in BOOLEAN /\ h \in BOOLEAN /\ typed \in BOOLEAN
  BY Context DEF Streams
<1>2. q \in Nat
  BY <1>1
<1>3. /\ At(i + 1) \in 1 .. Len(Bytes) /\ Blank(i) \in Nat /\ Begins(i) = Blank(i) + 1
      /\ Blank(i) + 4 <= At(i + 1)
  BY <1>1, HeadPlaces
<1>4. i > 0 /\ i # 0
  BY <1>1, PartPlaces
<1>5. CASE h = TRUE
  <2>1. InHead(i, q) /\ FilesTo(i, q)
    BY <1>4, <1>5 DEF Stands
  <2>2. /\ r.refusal \in {"more", "400", "415"} /\ r.typed \in BOOLEAN
        /\ r.refusal = "400" => BadHeader
        /\ f > Blank(i) => r.created = TRUE /\ r.body = Slice(Bytes, Begins(i), f)
        /\ f <= Blank(i) =>
             /\ r.created = FALSE
             /\ \E p \in q .. f : InHead(i, p) /\ r.body = Slice(Bytes, p, f)
    BY <1>1, <1>2, <1>5, <2>1, HeadRead
  <2> HIDE DEF r
  <2>3. CASE f <= Blank(i)
    BY <1>5, <2>2, <2>3 DEF r, HeadGoesOn
  <2>4. CASE ~(f <= Blank(i))
    <3>1. f > Blank(i) /\ Begins(i) <= f /\ Begins(i) \in q .. f
      BY <1>1, <1>2, <1>3, <2>1, <2>4 DEF InHead
    <3>2. r.created = TRUE /\ r.body = Slice(Bytes, Begins(i), f)
      BY <2>2, <3>1
    <3>3. OutAfter(r) = NewFile(out)
      BY <3>2 DEF OutAfter
    <3>4. NewFile(out) \in Streams /\ Growing(NewFile(out), i, Begins(i))
      BY <1>1, <1>5, <2>1, Opened
    <3>5. InPart(i, Begins(i))
      BY <1>3 DEF InPart, Margin
    <3>6. PartGrows(r, i, q, f)
      BY <1>5, <3>1, <3>2, <3>3, <3>4, <3>5 DEF PartGrows
    <3> QED
      BY <2>2, <3>6 DEF r
  <2> QED
    BY <2>3, <2>4
<1>6. CASE h = FALSE
  <2>1. r.refusal = "more" /\ r.created = FALSE /\ r.typed \in BOOLEAN /\ r.body = Slice(Bytes, q, f)
    BY <1>1, <1>6, NoHead
  <2> HIDE DEF r
  <2>2. InPart(i, q) /\ FilesTo(i, q)
    BY <1>4, <1>6 DEF Stands
  <2>3. OutAfter(r) = out
    BY <2>1 DEF OutAfter
  <2>4. Growing(out, i, q)
    BY <1>4, <1>6, <2>2 DEF FilesTo, Growing, Complete
  <2>5. q \in q .. f
    BY <1>1
  <2>6. PartGrows(r, i, q, f)
    BY <1>1, <1>6, <2>1, <2>2, <2>3, <2>4, <2>5 DEF PartGrows
  <2> QED
    BY <2>1, <2>6 DEF r
<1> QED
  BY <1>1, <1>5, <1>6

\* The end of part i: its file is complete.
LEMMA PartWritten ==
    ASSUME Inv, PartsMeant(upload), NEW i \in 1 .. Parts, NEW q \in 0 .. Len(Bytes),
           Stands(i, q), q < At(i + 1)
    PROVE  LET r == SetHeaders(Slice(Bytes, q, At(i + 1) - 1))
               o == Write(OutAfter(r), WithoutEnd(r.body))
           IN  /\ o \in Streams /\ ClosedOut(o) \in Streams /\ ClosedOut(o).files = o.files
               /\ \E e \in 0 .. Len(Bytes) : EndsPart(i, e) /\ Growing(o, i, e)
<1> DEFINE f == At(i + 1) - 1
           r == SetHeaders(Slice(Bytes, q, f))
           o == Write(OutAfter(r), WithoutEnd(r.body))
<1>1. /\ upload \in Uploads /\ Bytes \in Seq(STRING) /\ Len(Bytes) \in Nat
      /\ upload.dir \in BOOLEAN /\ h \in BOOLEAN
  BY Context
<1>2. /\ At(i + 1) \in 1 .. Len(Bytes) /\ Blank(i) \in Nat /\ Begins(i) = Blank(i) + 1
      /\ Blank(i) + 4 <= At(i + 1)
  BY <1>1, HeadPlaces
<1>3. q \in Nat /\ f \in q .. Len(Bytes) /\ Blank(i) < f /\ f \in Nat
  BY <1>1, <1>2
<1> HIDE DEF r, o
<1>4. PartGrows(r, i, q, f)
  <2> HIDE DEF f
  <2>1. HeadGoesOn(r, i, q, f) \/ PartGrows(r, i, q, f)
    BY <1>1, <1>3, PartAtWork DEF r
  <2>2. ~HeadGoesOn(r, i, q, f)
    BY <1>2, <1>3 DEF HeadGoesOn
  <2> QED
    BY <2>1, <2>2
<1>5. PICK s \in q .. f : /\ InPart(i, s) /\ r.body = Slice(Bytes, s, f)
                          /\ OutAfter(r) \in Streams /\ Growing(OutAfter(r), i, s)
  BY <1>4 DEF PartGrows
<1>6. s \in Nat /\ s <= f /\ f \in s .. Len(Bytes) /\ Begins(i) <= s /\ Margin(i, s)
  BY <1>1, <1>3, <1>5 DEF InPart
<1>7. Len(r.body) = f - s /\ r.body = Slice(Bytes, s, f)
  <2> HIDE DEF f
  <2> QED
    BY <1>1, <1>5, <1>6, SliceType
<1>8. \E e \in s .. Len(Bytes) : EndsPart(i, e) /\ WithoutEnd(r.body) = Slice(Bytes, s, e)
  <2>1. CASE s <= At(i + 1) - 3
    <3> DEFINE e == At(i + 1) - 3
               k == f - s - 2
    <3>1. k \in 0 .. f - s /\ s + k = e /\ e \in s .. Len(Bytes) /\ f - s >= 2
      <4> DEFINE a == At(i + 1)
                 l == Len(Bytes)
      <4>1. a \in 1 .. l /\ l \in Nat /\ s \in Nat /\ s <= a - 3 /\ f = a - 1 /\ e = a - 3
            /\ k = f - s - 2
        BY <1>1, <1>2, <1>6, <2>1
      <4> HIDE DEF a, l, e, k, f
      <4>2. a \in Nat /\ a <= l
        BY <4>1
      <4>3. k = a - s - 3 /\ k >= 0 /\ f - s = a - 1 - s
        BY <4>1, <4>2
      <4>4. k \in 0 .. f - s /\ s + k = e /\ f - s >= 2
        BY <4>1, <4>2, <4>3
      <4>5. e \in s .. l
        BY <4>1, <4>2
      <4> QED
        BY <4>4, <4>5 DEF l
    <3>2. EndsPart(i, e)
      BY <1>1, <1>2, <1>6, <2>1 DEF EndsPart
    <3> HIDE DEF e, k, f
    <3>3. WithoutEnd(r.body) = Take(r.body, f - s - 2)
      BY <1>7, <3>1 DEF WithoutEnd
    <3>4. Take(Slice(Bytes, s, f), k) = Slice(Bytes, s, s + k)
      BY <1>1, <1>6, <3>1, SliceTake
    <3>5. WithoutEnd(r.body) = Slice(Bytes, s, e)
      BY <1>7, <3>1, <3>3, <3>4 DEF k
    <3> QED
      BY <3>1, <3>2, <3>5
  <2>2. CASE ~(s <= At(i + 1) - 3)
    <3>1. cuts # {} /\ ~(f - s >= 2)
      <4>1. cuts # {}
        BY <1>6, <2>2 DEF Margin
      <4> QED
        BY <1>2, <1>6, <2>2, <4>1
    <3>2. EndsPart(i, f)
      BY SMTT(15), ZenonT(20), <1>1, <1>2, <1>6, <3>1 DEF EndsPart
    <3>3. WithoutEnd(r.body) = Slice(Bytes, s, f)
      BY <1>7, <3>1 DEF WithoutEnd
    <3> QED
      BY <1>6, <3>2, <3>3
  <2> QED
    BY <2>1, <2>2
<1>9. PICK e \in s .. Len(Bytes) : EndsPart(i, e) /\ WithoutEnd(r.body) = Slice(Bytes, s, e)
  BY <1>8
<1>10. o = Write(OutAfter(r), Slice(Bytes, s, e))
  BY <1>9 DEF o
<1>11. /\ o \in Streams /\ ClosedOut(o) \in Streams /\ ClosedOut(o).files = o.files
       /\ Growing(o, i, e)
  <2> DEFINE p == OutAfter(r)
  <2>1. p \in Streams /\ Growing(p, i, s)
    BY <1>5
  <2>2. o = Write(p, Slice(Bytes, s, e))
    BY <1>10
  <2> HIDE DEF p
  <2> QED
    BY <1>1, <1>6, <2>1, <2>2, GrowsOn
<1>12. e \in 0 .. Len(Bytes)
  BY <1>1, <1>6
<1> QED
  BY <1>9, <1>11, <1>12 DEF o, r

\* What every step of boundarry keeps, from what it has to tell.
LEMMA PartStep ==
    ASSUME Inv, pc = "boundarry",
           UNCHANGED <<upload, pos, idle, mode, is_cgi, max_size, chunked_size, rest, fed, repeated>>,
           out' \in Streams, h' \in BOOLEAN, typed' \in BOOLEAN,
           brest' \in Seq(STRING), body' \in Seq(STRING), cuts' \subseteq BadEnds,
           status' \in {"more", "201", "400", "415"}, pc' \in {"recv", "boundarry", "chunked"},
           pc' = "chunked" => mode = 3, pc' # "recv" => status' = "more",
           pc' = "recv" /\ status' = "more" /\ mode = 3 => rest = <<>>,
           status' = "400" => BadHeader, Divided'
    PROVE  Inv'
<1>1. /\ upload \in Uploads /\ Len(Bytes) \in Nat /\ Len(Wired) \in Nat /\ pos \in Nat
      /\ pos \in 0 .. Len(Wired) /\ fed \in 0 .. Len(Bytes)
  BY Context
<1>2. mode \in {2, 3} /\ mode # NoMode /\ mode # 0 /\ mode # 4 /\ mode # 1
  BY DEF Inv, Modes, NoMode
<1>3. Bytes' = Bytes /\ Wired' = Wired /\ BadEnds' = BadEnds /\ BadHeader' = BadHeader
  BY SameRequest
<1>4. TypeOK'
  BY <1>3 DEF Inv, TypeOK, Streams
<1>5. Modes'
  <2>1. Refusal(upload)' = Refusal(upload) /\ ModeOf(upload, is_cgi)' = ModeOf(upload, is_cgi)
    OBVIOUS
  <2>2. upload.encoding = "none" => fed = pos
    BY DEF Inv, Modes
  <2>3. Refusal(upload) = "more" /\ mode = ModeOf(upload, is_cgi)
    BY <1>2 DEF Inv, Modes
  <2>4. /\ pc' = "init" => mode = NoMode
        /\ pc' = "chunked" => mode \in {1, 3}
        /\ pc' = "boundarry" => mode \in {2, 3}
        /\ pc' = "raw" => mode \in {0, 4} \/ (mode = 1 /\ is_cgi)
    BY <1>2
  <2> QED
    BY <1>2, <2>1, <2>2, <2>3, <2>4 DEF Modes
<1>6. Counted' /\ Copied'
  BY <1>2 DEF Counted, Copied
<1>7. Dechunked'
  <2> SUFFICES ASSUME mode = 3 PROVE Dechunked'
    BY <1>2 DEF Dechunked
  <2>1. PICK r \in 0 .. pos, p \in 0 .. Len(Bytes) :
            rest = Slice(Wired, r, pos) /\ InChunk(r, p) /\ Passed(p)
    BY DEF Inv, Dechunked
  <2>2. InChunk(r, p)'
    BY <2>1 DEF InChunk
  <2>3. Passed(p)'
    BY <2>1 DEF Passed
  <2> QED
    BY <2>1, <2>2, <2>3, DechunkedNext
<1>8. RefusedForSizeLine'
  BY <1>3 DEF RefusedForSizeLine
<1> QED
  BY <1>4, <1>5, <1>6, <1>7, <1>8 DEF Inv

LEMMA DoneNext ==
    ASSUME UNCHANGED upload, cuts' = {} => cuts = {}, NEW j, FileDone(out'.files[j], j)
    PROVE  Complete(j)'
<1>1. Bytes' = Bytes /\ Parts' = Parts
      /\ (\A k : At(k)' = At(k) /\ Blank(k)' = Blank(k) /\ Begins(k)' = Begins(k))
  BY SameRequest
<1>2. PICK w \in 0 .. Len(Bytes) : EndsPart(j, w) /\ out'.files[j] = Slice(Bytes, Begins(j), w)
  BY DEF FileDone
<1>3. EndsPart(j, w)'
  BY <1>1, <1>2 DEF EndsPart
<1> QED
  BY <1>1, <1>2, <1>3 DEF Complete, FileDone

\* Where boundarry is when it is called.
LEMMA AtBoundarry ==
    ASSUME Inv, pc = "boundarry"
    PROVE  /\ mode \in {2, 3} /\ status = "more" /\ PartsMeant(upload)
           /\ \E i \in 0 .. Parts, q \in 0 .. fed :
                 Stands(i, q) /\ body = Slice(Bytes, q, fed) /\ q \in 0 .. Len(Bytes)
                 /\ fed \in q .. Len(Bytes)
<1>1. mode \in {2, 3} /\ status = "more" /\ mode # NoMode
  BY DEF Inv, Modes, NoMode
<1>2. PICK i \in 0 .. Parts, q \in 0 .. fed : Stands(i, q)
  BY <1>1 DEF Inv, Divided
<1>3. body = Slice(Bytes, q, fed)
  BY <1>1, <1>2 DEF Stands
<1>4. q \in 0 .. Len(Bytes) /\ fed \in q .. Len(Bytes)
  <2>1. fed \in 0 .. Len(Bytes) /\ Len(Bytes) \in Nat
    BY Context
  <2> QED
    BY <2>1
<1> QED
  BY <1>1, <1>2, <1>3, <1>4, InMode

\* A line that is no header ends the upload where it stands.
LEMMA PartRefused ==
    ASSUME Inv, pc = "boundarry",
           UNCHANGED <<upload, pos, idle, mode, is_cgi, max_size, chunked_size, rest,
                       brest, h, typed, out, fed, repeated>>,
           cuts \subseteq cuts', cuts' \subseteq BadEnds,
           body' \in Seq(STRING), status' \in {"400", "415"}, pc' = "recv",
           status' = "400" => BadHeader
    PROVE  Inv'
<1>1. PICK i \in 0 .. Parts, q \in 0 .. fed : Stands(i, q)
  BY AtBoundarry
<1>2. Bytes' = Bytes /\ Parts' = Parts
      /\ (\A k : At(k)' = At(k) /\ Blank(k)' = Blank(k) /\ Begins(k)' = Begins(k))
      /\ (\A k, p : InHead(k, p)' = InHead(k, p))
  BY SameRequest
<1>3. cuts \subseteq cuts' /\ (cuts' = {} => cuts = {})
  OBVIOUS
<1>4. ASSUME NEW j, Complete(j) PROVE Complete(j)'
  BY <1>3, <1>4, DoneNext DEF Complete
<1>5. FilesTo(i, q)'
  BY <1>1, <1>2, <1>4 DEF Stands, FilesTo
<1>6. InPart(i, q) => InPart(i, q)'
  BY <1>2, <1>3 DEF InPart, Margin
<1>7. Stands(i, q)'
  BY <1>1, <1>2, <1>5, <1>6 DEF Stands
<1>8. Divided'
  BY <1>1, <1>7, DividedNext
<1> QED
  <2>1. out \in Streams /\ h \in BOOLEAN /\ typed \in BOOLEAN /\ brest \in Seq(STRING)
        /\ cuts \subseteq BadEnds
    BY Context DEF Streams
  <2> QED
    BY <1>8, <2>1, PartStep

LEMMA PartEndsKeeps ==
    ASSUME Inv, PartEnds
    PROVE  Inv'
<1> DEFINE exist == Min(Finds(body, StartLine)) - 1
           r == SetHeaders(Take(body, exist))
<1>1. /\ upload \in Uploads /\ Bytes \in Seq(STRING) /\ Len(Bytes) \in Nat
      /\ out \in Streams /\ upload.dir \in BOOLEAN /\ h \in BOOLEAN /\ typed \in BOOLEAN
      /\ brest \in Seq(STRING) /\ body \in Seq(STRING) /\ cuts \subseteq BadEnds
      /\ fed \in 0 .. Len(Bytes)
  BY Context DEF Streams
<1>2. /\ pc = "boundarry" /\ Finds(body, StartLine) # {}
      /\ UNCHANGED <<upload, pos, idle, mode, is_cgi, max_size, chunked_size, rest, brest, fed,
                     cuts, repeated>>
      /\ r.refusal # "more" => status' = r.refusal /\ pc' = "recv" /\ UNCHANGED <<h, typed, body, out>>
      /\ r.refusal = "more" => /\ out' = Write(OutAfter(r), WithoutEnd(r.body))
                               /\ body' = Drop(body, exist + Len(StartLine))
                               /\ h' = TRUE /\ typed' = r.typed
                               /\ UNCHANGED <<pc, status>>
  BY DEF PartEnds, Throw, callVars, modeVars, chunkVars, history
<1>3. PartsMeant(upload) /\ status = "more"
  BY <1>2, AtBoundarry
<1>4. PICK i \in 0 .. Parts, q \in 0 .. fed :
          Stands(i, q) /\ body = Slice(Bytes, q, fed) /\ q \in 0 .. Len(Bytes)
          /\ fed \in q .. Len(Bytes)
  BY <1>2, AtBoundarry
<1>5. /\ \A k \in 1 .. i : At(k) <= q
      /\ i < Parts => q < At(i + 1)
      /\ i + 1 \in 1 .. Parts + 1 /\ At(i + 1) \in 1 .. Len(Bytes)
  BY <1>1, <1>3, <1>4, Behind
<1>6. i < Parts /\ Min(Finds(body, StartLine)) = At(i + 1) - q /\ At(i + 1) + 4 <= fed
  BY <1>1, <1>2, <1>3, <1>4, <1>5, Ahead
<1> DEFINE f == At(i + 1) - 1
           g == At(i + 1) + 4
<1>7. /\ q \in Nat /\ exist \in 0 .. fed - q /\ q + exist = f /\ f \in q .. Len(Bytes)
      /\ exist + 5 \in 0 .. fed - q /\ q + (exist + 5) = g /\ g \in 0 .. fed /\ q < At(i + 1)
      /\ fed \in g .. Len(Bytes) /\ g \in Nat
  <2> DEFINE a == At(i + 1)
             l == Len(Bytes)
  <2>1. /\ q \in Nat /\ fed \in Nat /\ a \in Nat /\ l \in Nat /\ exist = (a - q) - 1
        /\ q < a /\ a + 4 <= fed /\ fed <= l
    BY <1>1, <1>4, <1>5, <1>6
  <2> HIDE DEF a, l, exist
  <2>2. /\ exist \in 0 .. fed - q /\ q + exist = a - 1 /\ a - 1 \in q .. l
        /\ exist + 5 \in 0 .. fed - q /\ q + (exist + 5) = a + 4
    BY <2>1
  <2>3. a + 4 \in 0 .. fed /\ fed \in a + 4 .. l /\ a + 4 \in Nat
    BY <2>1
  <2> QED
    BY <2>1, <2>2, <2>3 DEF a, l
<1> HIDE DEF exist
<1>8. Take(body, exist) = Slice(Bytes, q, f) /\ Drop(body, exist + Len(StartLine)) = Slice(Bytes, g, fed)
  <2>1. Len(StartLine) = 5
    BY Markers
  <2> HIDE DEF f, g
  <2>2. Take(body, exist) = Slice(Bytes, q, f)
    BY <1>1, <1>4, <1>7, SliceTake
  <2> DEFINE k == exist + 5
  <2>3. k \in 0 .. fed - q /\ q + k = g
    BY <1>7
  <2> HIDE DEF k
  <2>4. Drop(body, k) = Slice(Bytes, g, fed)
    BY <1>1, <1>4, <1>7, <2>3, SliceDrop
  <2> QED
    BY <2>1, <2>2, <2>4 DEF k
<1>9. r = SetHeaders(Slice(Bytes, q, f))
  BY <1>8
<1> HIDE DEF r
<1>10. Parts \in Nat \ {0} /\ At(1) = 1 /\ i \in Nat /\ i + 1 \in 1 .. Parts /\ i + 1 \in 0 .. Parts
  BY SMTT(15), ZenonT(20), <1>1, <1>3, <1>5, <1>6, PartPlaces
\* The file of the part before, if there is one.
<1>11. /\ r.refusal \in {"more", "400", "415"} /\ r.typed \in BOOLEAN
       /\ r.refusal = "400" => BadHeader
       /\ LET o == Write(OutAfter(r), WithoutEnd(r.body))
          IN  /\ o \in Streams
              /\ IF ~upload.dir THEN o = [is_open |-> FALSE, files |-> <<>>]
                 ELSE Len(o.files) = i /\ \A j \in 1 .. i : FileDone(o.files[j], j)
  <2> DEFINE o == Write(OutAfter(r), WithoutEnd(r.body))
  <2>1. CASE i = 0
    <3>1. q = 0 /\ h = FALSE /\ FilesTo(0, q)
      BY <1>1, <1>4, <2>1 DEF Stands
    <3>2. r.refusal = "more" /\ r.created = FALSE /\ r.typed \in BOOLEAN
      BY <1>1, <1>9, <3>1, NoHead
    <3>3. out.is_open = FALSE
      BY <1>1, <2>1, <3>1 DEF FilesTo, Streams
    <3>4. o = out
      BY <3>2, <3>3 DEF OutAfter, Write
    <3>5. IF ~upload.dir THEN out = [is_open |-> FALSE, files |-> <<>>] ELSE Len(out.files) = 0
      BY <3>1 DEF FilesTo
    <3> QED
      BY <1>1, <2>1, <3>2, <3>4, <3>5
  <2>2. CASE i # 0
    <3>1. i \in 1 .. Parts
      BY <1>10, <1>6, <2>2
    <3>2. r.refusal \in {"more", "400", "415"} /\ r.typed \in BOOLEAN
          /\ (r.refusal = "400" => BadHeader)
      <4> HIDE DEF f
      <4> QED
        BY <1>3, <1>4, <1>7, <1>9, <3>1, PartAtWork
    <3>3. o \in Streams /\ \E e \in 0 .. Len(Bytes) : EndsPart(i, e) /\ Growing(o, i, e)
      BY <1>3, <1>4, <1>7, <1>9, <3>1, PartWritten
    <3>4. PICK e \in 0 .. Len(Bytes) : EndsPart(i, e) /\ Growing(o, i, e)
      BY <3>3
    <3> HIDE DEF o
    <3>5. upload.dir => Len(o.files) = i /\ (\A j \in 1 .. i - 1 : FileDone(o.files[j], j))
                        /\ o.files[i] = Slice(Bytes, Begins(i), e)
      BY <3>4 DEF Growing
    <3>6. upload.dir => FileDone(o.files[i], i)
      BY <3>4, <3>5 DEF FileDone
    <3>7. \A j \in 1 .. i : j \in 1 .. i - 1 \/ j = i
      BY <1>10
    <3>8. ~upload.dir => o = [is_open |-> FALSE, files |-> <<>>]
      BY <3>4 DEF Growing
    <3> QED
      BY <3>2, <3>3, <3>5, <3>6, <3>7, <3>8 DEF o
  <2> QED
    BY <2>1, <2>2
<1>12. CASE r.refusal # "more"
  <2>1. cuts \subseteq cuts' /\ cuts' \subseteq BadEnds
    BY <1>1, <1>2
  <2> QED
    BY <1>1, <1>2, <1>11, <1>12, <2>1, PartRefused
<1>13. CASE r.refusal = "more"
  <2>1. /\ out' = Write(OutAfter(r), WithoutEnd(r.body)) /\ body' = Slice(Bytes, g, fed)
        /\ h' = TRUE /\ typed' = r.typed /\ pc' = "boundarry" /\ status' = "more"
    BY <1>2, <1>3, <1>8, <1>13
  <2>2. /\ out' \in Streams /\ typed' \in BOOLEAN
        /\ IF ~upload.dir THEN out' = [is_open |-> FALSE, files |-> <<>>]
           ELSE Len(out'.files) = i /\ \A j \in 1 .. i : FileDone(out'.files[j], j)
    BY <1>11, <2>1
  <2>3. PICK q2 \in Nat : q2 = g
    BY <1>7
  <2>4. InHead(i + 1, q2)
    <3>1. /\ At(i + 1) + 5 <= Blank(i + 1) /\ IsAt(Bytes, CRLF, At(i + 1) + 3)
          /\ Blank(i + 1) \in Nat
      BY <1>1, <1>3, <1>10, HeadPlaces
    <3>2. q2 - 1 = At(i + 1) + 3 /\ q2 = At(i + 1) + 4
      BY <1>5, <2>3
    <3> HIDE DEF g
    <3> QED
      BY <1>5, <3>1, <3>2 DEF InHead
  <2>5. InHead(i + 1, q2)'
    BY <1>2, <2>4, SameRequest
  <2>6. upload.dir => \A j \in 1 .. i : Complete(j)'
    BY <1>2, <2>2, DoneNext
  <2>7. (i + 1) - 1 = i /\ i + 1 > 0 /\ i + 1 # 0
    BY <1>10
  <2> DEFINE n == i + 1
  <2>8. FilesTo(n, q2)'
    <3>1. n - 1 = i /\ n # 0
      BY <2>7
    <3> HIDE DEF n
    <3> QED
      BY <1>2, <2>1, <2>2, <2>6, <3>1 DEF FilesTo
  <2>9. body' = Slice(Bytes, q2, fed)
    BY <2>1, <2>3
  <2>10. Stands(n, q2)'
    <3>1. InHead(n, q2)' /\ n # 0 /\ Bytes' = Bytes
      BY <1>2, <2>5, <2>7, SameRequest
    <3> HIDE DEF n
    <3> QED
      BY <1>2, <2>1, <2>8, <2>9, <3>1 DEF Stands
  <2>11. q2 \in 0 .. fed' /\ n \in 0 .. Parts
    BY <1>2, <1>7, <1>10, <2>3
  <2>12. Divided'
    <3> HIDE DEF n
    <3> QED
      BY <1>2, <2>1, <2>10, <2>11, DividedNext
  <2>13. body' \in Seq(STRING)
    <3> HIDE DEF g
    <3> QED
      BY <1>1, <1>7, <2>1, SliceType
  <2> QED
    BY <1>1, <1>2, <2>1, <2>2, <2>12, <2>13, PartStep
<1> QED
  BY <1>12, <1>13

LEMMA BodyEndsKeeps ==
    ASSUME Inv, BodyEnds
    PROVE  Inv'
<1> DEFINE exist == Min(Finds(body, LastLine)) - 1
           r == SetHeaders(Take(body, exist))
           o == Write(OutAfter(r), WithoutEnd(r.body))
<1>1. /\ upload \in Uploads /\ Bytes \in Seq(STRING) /\ Len(Bytes) \in Nat
      /\ out \in Streams /\ upload.dir \in BOOLEAN /\ h \in BOOLEAN /\ typed \in BOOLEAN
      /\ brest \in Seq(STRING) /\ body \in Seq(STRING) /\ cuts \subseteq BadEnds
      /\ fed \in 0 .. Len(Bytes)
  BY Context DEF Streams
<1>2. /\ pc = "boundarry" /\ Finds(body, StartLine) = {} /\ Finds(body, LastLine) # {}
      /\ UNCHANGED <<upload, pos, idle, mode, is_cgi, max_size, chunked_size, rest, brest, h,
                     typed, body, fed, cuts, repeated>>
      /\ pc' = "recv"
      /\ r.refusal # "more" => status' = r.refusal /\ UNCHANGED out
      /\ r.refusal = "more" => status' = "201" /\ out' = ClosedOut(o)
  BY DEF BodyEnds, Throw, callVars, modeVars, chunkVars, partVars, history
<1>3. PartsMeant(upload) /\ status = "more" /\ mode \in {2, 3}
  BY <1>2, AtBoundarry
<1>4. PICK i \in 0 .. Parts, q \in 0 .. fed :
          Stands(i, q) /\ body = Slice(Bytes, q, fed) /\ q \in 0 .. Len(Bytes)
          /\ fed \in q .. Len(Bytes)
  BY <1>2, AtBoundarry
<1>5. /\ \A k \in 1 .. i : At(k) <= q
      /\ i < Parts => q < At(i + 1)
      /\ i + 1 \in 1 .. Parts + 1 /\ At(i + 1) \in 1 .. Len(Bytes)
  BY <1>1, <1>3, <1>4, Behind
<1>6. i = Parts /\ Min(Finds(body, LastLine)) = At(i + 1) - q /\ fed = Len(Bytes) /\ q < At(i + 1)
  BY <1>1, <1>2, <1>3, <1>4, <1>5, Ahead
<1>7. Parts \in Nat \ {0} /\ i \in 1 .. Parts /\ At(Parts + 1) + 6 = Len(Bytes)
  BY <1>1, <1>3, <1>6, PartPlaces
<1> DEFINE f == At(i + 1) - 1
<1>8. q \in Nat /\ exist \in 0 .. fed - q /\ q + exist = f /\ f \in q .. Len(Bytes)
  <2> DEFINE a == At(i + 1)
             l == Len(Bytes)
  <2>1. /\ q \in Nat /\ fed \in Nat /\ a \in Nat /\ l \in Nat /\ exist = (a - q) - 1
        /\ q < a /\ a <= fed /\ fed <= l
    BY <1>1, <1>4, <1>5, <1>6
  <2> HIDE DEF a, l, exist
  <2>2. exist \in 0 .. fed - q /\ q + exist = a - 1 /\ a - 1 \in q .. l
    BY <2>1
  <2> QED
    BY <2>1, <2>2 DEF a, l
<1> HIDE DEF exist
<1>9. Take(body, exist) = Slice(Bytes, q, f)
  <2> HIDE DEF f
  <2> QED
    BY <1>1, <1>4, <1>8, SliceTake
<1>10. r = SetHeaders(Slice(Bytes, q, f))
  BY <1>9
<1> HIDE DEF r
<1>11. /\ r.refusal \in {"more", "400", "415"}
       /\ r.refusal = "400" => BadHeader
  <2> HIDE DEF f
  <2> QED
    BY <1>3, <1>4, <1>7, <1>8, <1>10, PartAtWork
<1>12. /\ ClosedOut(o) \in Streams /\ ClosedOut(o).files = o.files
       /\ \E e \in 0 .. Len(Bytes) : EndsPart(i, e) /\ Growing(o, i, e)
  BY <1>3, <1>4, <1>6, <1>7, <1>10, PartWritten
<1> HIDE DEF o
<1>13. CASE r.refusal # "more"
  BY <1>1, <1>2, <1>11, <1>13, PartRefused
<1>14. CASE r.refusal = "more"
  <2>1. status' = "201" /\ out' \in Streams /\ out'.files = o.files
    BY <1>2, <1>12, <1>14
  <2>2. PICK e \in 0 .. Len(Bytes) : EndsPart(i, e) /\ Growing(o, i, e)
    BY <1>12
  <2>3. ASSUME upload.dir
        PROVE  Len(out'.files) = Parts /\ \A j \in 1 .. Parts : FileDone(out'.files[j], j)
    <3>1. /\ Len(o.files) = i /\ o.files[i] = Slice(Bytes, Begins(i), e)
          /\ \A j \in 1 .. i - 1 : FileDone(o.files[j], j)
      BY <2>2, <2>3 DEF Growing
    <3>2. FileDone(o.files[i], i)
      BY <2>2, <3>1 DEF FileDone
    <3>3. \A j \in 1 .. i : j \in 1 .. i - 1 \/ j = i
      BY <1>7
    <3> QED
      BY <1>6, <2>1, <3>1, <3>2, <3>3
  <2>4. upload.dir => \A j \in 1 .. Parts : Complete(j)'
    BY <1>2, <2>3, DoneNext
  <2>5. AllStored'
    <3>1. Parts' = Parts
      BY <1>2, SameRequest
    <3> QED
      BY <1>2, <2>3, <2>4, <3>1 DEF AllStored
  <2>6. Divided'
    BY <2>1, <2>5 DEF Divided
  <2> QED
    BY <1>1, <1>2, <2>1, <2>6, PartStep
<1> QED
  BY <1>13, <1>14

\* Where a piece must not end, next to part i.
LEMMA BadPlaces ==
    ASSUME upload \in Uploads, PartsMeant(upload), NEW i \in 1 .. Parts, NEW f \in Nat
    PROVE  /\ i < Parts /\ f = At(i + 1) + 3 => f \in BadEnds
           /\ i = Parts /\ At(i + 1) + 3 <= f /\ f <= At(i + 1) + 5 => f \in BadEnds
<1>1. /\ Parts \in Nat \ {0} /\ At(1) = 1
      /\ \A k \in 1 .. Parts + 1 : At(k) \in 1 .. Len(Bytes)
      /\ \A j, k \in 1 .. Parts + 1 : j < k => At(j) < At(k)
      /\ Finds(Bytes, StartLine) = {At(k) : k \in 1 .. Parts}
      /\ Finds(Bytes, LastLine) = {At(Parts + 1)}
      /\ Len(Bytes) \in Nat
  BY PartPlaces
<1>2. i + 1 \in 1 .. Parts + 1 /\ 1 \in 1 .. Parts + 1 /\ 1 < i + 1 /\ At(i + 1) \in Nat
  BY <1>1
<1>3. At(1) < At(i + 1)
  BY <1>1, <1>2
<1>4. Len(StartLine) = 5 /\ Len(LastLine) = 7
  BY Markers
<1>5. ASSUME i < Parts, f = At(i + 1) + 3 PROVE f \in BadEnds
  <2>1. At(i + 1) \in Finds(Bytes, StartLine) \ {1}
    BY <1>1, <1>2, <1>3, <1>5
  <2>2. f = At(i + 1) + Len(StartLine) - 2
    BY <1>2, <1>4, <1>5
  <2> QED
    BY <2>1, <2>2 DEF BadEnds, Bytes
<1>6. ASSUME i = Parts, At(i + 1) + 3 <= f, f <= At(i + 1) + 5 PROVE f \in BadEnds
  <2>1. At(i + 1) \in Finds(Bytes, LastLine)
    BY <1>1, <1>6
  <2>2. f \in At(i + 1) + Len(LastLine) - 4 .. At(i + 1) + Len(LastLine) - 2
    BY <1>2, <1>4, <1>6
  <2> QED
    BY <2>1, <2>2 DEF BadEnds, Bytes
<1> QED
  BY <1>5, <1>6

\* How far a part is written, when what may begin a boundary line is held back.
LEMMA WrittenTo ==
    ASSUME upload \in Uploads, PartsMeant(upload), NEW i \in 1 .. Parts,
           NEW s \in Nat, NEW f \in s .. Len(Bytes), NEW e \in Nat,
           e = IF f - s <= 5 THEN s ELSE f - 5,
           InPart(i, s), f \in BadEnds => f \in cuts', UNCHANGED upload, cuts \subseteq cuts',
           i < Parts => f <= At(i + 1) + 3,
           i = Parts => f <= At(i + 1) + 5 \/ At(i + 1) <= s
    PROVE  InPart(i, e)'
<1>1. /\ Bytes' = Bytes /\ Parts' = Parts /\ Begins(i)' = Begins(i) /\ At(i + 1)' = At(i + 1)
  BY SameRequest
<1>2. At(i + 1) \in 1 .. Len(Bytes) /\ Len(Bytes) \in Nat /\ Blank(i) \in Nat
      /\ Begins(i) = Blank(i) + 1 /\ Parts \in Nat
  BY HeadPlaces, PartPlaces
<1>3. Begins(i) <= s /\ Margin(i, s)
  BY DEF InPart
<1>4. f \in Nat /\ s <= f /\ f <= Len(Bytes)
  BY <1>2
<1>5. Begins(i) <= e
  BY <1>2, <1>3, <1>4
<1>6. Margin(i, s)'
  BY <1>1, <1>3 DEF Margin
<1>7. CASE e = s
  BY <1>1, <1>5, <1>6, <1>7 DEF InPart
<1>8. CASE e # s
  <2>1. e = f - 5 /\ s < e
    BY <1>4, <1>8
  <2>2. CASE i < Parts
    <3>1. e <= At(i + 1) - 3 \/ (e = At(i + 1) - 2 /\ f = At(i + 1) + 3)
      BY <1>2, <1>4, <2>1, <2>2
    <3>2. f = At(i + 1) + 3 => At(i + 1) + 3 \in cuts'
      BY <1>4, <2>2, BadPlaces
    <3>3. Margin(i, e)'
      BY <1>1, <2>2, <3>1, <3>2 DEF Margin
    <3> QED
      BY <1>1, <1>5, <3>3 DEF InPart
  <2>3. CASE i = Parts
    <3>1. CASE f <= At(i + 1) + 5
      <4>1. \/ e <= At(i + 1) - 3
            \/ e \in {At(i + 1) - 2, At(i + 1) - 1} /\ e + 5 = f
            \/ e = At(i + 1) /\ f = At(i + 1) + 5
        BY SMTT(15), ZenonT(20), <1>2, <1>4, <2>1, <3>1
      <4>2. e > At(i + 1) - 3 => At(i + 1) + 3 <= f
        BY <1>2, <1>4, <2>1
      <4>3. e > At(i + 1) - 3 => f \in cuts'
        BY <1>4, <2>3, <3>1, <4>2, BadPlaces
      <4>4. e \in {At(i + 1) - 2, At(i + 1) - 1} => e > At(i + 1) - 3
        BY <1>2
      <4>5. e = At(i + 1) => e > At(i + 1) - 3 /\ At(i + 1) <= e
        BY <1>2
      <4>6. Margin(i, e)'
        BY <1>1, <2>3, <4>1, <4>3, <4>4, <4>5 DEF Margin
      <4> QED
        BY <1>1, <1>5, <4>6 DEF InPart
    <3>2. CASE At(i + 1) <= s
      <4>1. At(i + 1) + 5 \in cuts
        BY SMTT(15), ZenonT(20), <1>2, <1>3, <2>3, <3>2 DEF Margin
      <4>2. At(i + 1) <= e
        BY <1>2, <1>4, <2>1, <3>2
      <4>3. Margin(i, e)'
        BY <1>1, <2>3, <4>1, <4>2 DEF Margin
      <4> QED
        BY <1>1, <1>5, <4>3 DEF InPart
    <3> QED
      BY <2>3, <3>1, <3>2
  <2> QED
    BY <1>2, <2>2, <2>3
<1> QED
  BY <1>7, <1>8

\* Nothing is written.
LEMMA WriteNothing ==
    ASSUME NEW o \in Streams
    PROVE  Write(o, <<>>) = o
<1> DEFINE F == o.files
           w == Write(o, <<>>)
<1>1. F \in Seq(Seq(STRING)) /\ o = [is_open |-> o.is_open, files |-> F] /\ <<>> \in Seq(STRING)
  BY DEF Streams
<1>2. /\ w \in Streams /\ Len(w.files) = Len(F) /\ w.is_open = o.is_open
      /\ \A j \in 1 .. Len(F) : w.files[j] =
           IF o.is_open /\ j = Len(F) THEN F[j] \o <<>> ELSE F[j]
  BY <1>1, WriteType DEF Streams
<1>3. \A j \in 1 .. Len(F) : F[j] \in Seq(STRING)
  BY <1>1, ElementOfSeq
<1>4. \A j \in 1 .. Len(F) : F[j] \o <<>> = F[j]
  BY <1>3, ConcatEmptySeq
<1>5. w.files \in Seq(Seq(STRING)) /\ w = [is_open |-> w.is_open, files |-> w.files]
  BY <1>2 DEF Streams
<1> HIDE DEF w
<1>6. \A j \in 1 .. Len(F) : w.files[j] = F[j]
  BY <1>2, <1>4
<1> HIDE DEF F
<1>7. w.files = F
  <2> DEFINE G == w.files
             T == Seq(STRING)
  <2>1. G \in Seq(T) /\ F \in Seq(T) /\ Len(G) = Len(F) /\ \A j \in 1 .. Len(G) : G[j] = F[j]
    BY <1>1, <1>2, <1>5, <1>6
  <2> HIDE DEF G, T
  <2>2. G = F
    BY <2>1, SeqEqual
  <2> QED
    BY <2>2 DEF G
<1> QED
  BY <1>1, <1>2, <1>5, <1>7 DEF w

LEMMA PartGoesOnKeeps ==
    ASSUME Inv, PartGoesOn
    PROVE  Inv'
<1> DEFINE r == SetHeaders(body)
           inHead == h /\ ~r.created
           keep == IF inHead THEN Len(r.body) ELSE HeldBack(r.body)
           b == r.body
           k == Len(b) - keep
<1>1. /\ upload \in Uploads /\ Bytes \in Seq(STRING) /\ Len(Bytes) \in Nat
      /\ out \in Streams /\ upload.dir \in BOOLEAN /\ h \in BOOLEAN /\ typed \in BOOLEAN
      /\ brest \in Seq(STRING) /\ body \in Seq(STRING) /\ cuts \subseteq BadEnds
      /\ fed \in 0 .. Len(Bytes)
  BY Context DEF Streams
<1>2. /\ pc = "boundarry" /\ Finds(body, StartLine) = {} /\ Finds(body, LastLine) = {}
      /\ UNCHANGED <<upload, pos, idle, mode, is_cgi, max_size, chunked_size, rest, fed, repeated>>
      /\ body' = <<>> /\ cuts' = cuts \cup ({fed} \cap BadEnds)
      /\ r.refusal # "more" => status' = r.refusal /\ pc' = "recv" /\ UNCHANGED <<brest, h, typed, out>>
      /\ r.refusal = "more" => /\ h' = inHead /\ typed' = r.typed
                               /\ brest' = Drop(b, k) /\ out' = Write(OutAfter(r), Take(b, k))
                               /\ pc' = Return /\ UNCHANGED status
  BY DEF PartGoesOn, Throw, callVars, modeVars, chunkVars, partVars
<1>3. PartsMeant(upload) /\ status = "more" /\ mode \in {2, 3}
  BY <1>2, AtBoundarry
<1>4. PICK i \in 0 .. Parts, q \in 0 .. fed :
          Stands(i, q) /\ body = Slice(Bytes, q, fed) /\ q \in 0 .. Len(Bytes)
          /\ fed \in q .. Len(Bytes)
  BY <1>2, AtBoundarry
<1>5. /\ \A j \in 1 .. i : At(j) <= q
      /\ i < Parts \/ h => q < At(i + 1)
      /\ i + 1 \in 1 .. Parts + 1 /\ At(i + 1) \in 1 .. Len(Bytes)
  BY <1>1, <1>3, <1>4, Behind
<1>6. /\ i < Parts => fed <= At(i + 1) + 3
      /\ fed <= At(Parts + 1) + 5 \/ At(Parts + 1) <= q
  BY <1>1, <1>2, <1>3, <1>4, <1>5, Ahead
<1>7. Parts \in Nat \ {0} /\ i \in Nat /\ q \in Nat /\ fed \in Nat /\ At(1) = 1
      /\ (i # 0 => i \in 1 .. Parts)
  BY <1>1, <1>3, <1>4, PartPlaces
<1>8. cuts \subseteq cuts' /\ cuts' \subseteq BadEnds /\ (fed \in BadEnds => fed \in cuts')
      /\ (cuts' = {} => cuts = {})
  BY <1>1, <1>2
<1>9. Bytes' = Bytes /\ Parts' = Parts
      /\ (\A j : At(j)' = At(j) /\ Blank(j)' = Blank(j) /\ Begins(j)' = Begins(j))
      /\ (\A j, p : InHead(j, p)' = InHead(j, p))
  BY <1>2, SameRequest
<1>10. r = SetHeaders(Slice(Bytes, q, fed))
  BY <1>4
<1> HIDE DEF r
<1>11. ASSUME i = 0 PROVE h = FALSE /\ q = 0 /\ r.refusal = "more" /\ r.created = FALSE
                          /\ r.typed \in BOOLEAN /\ b = Slice(Bytes, 0, fed) /\ FilesTo(0, 0)
  <2>1. h = FALSE /\ q = 0 /\ FilesTo(0, 0)
    BY <1>1, <1>4, <1>11 DEF Stands
  <2> QED
    BY <1>1, <1>10, <2>1, NoHead
<1>12. ASSUME i # 0
       PROVE  /\ r.refusal \in {"more", "400", "415"} /\ r.typed \in BOOLEAN
              /\ r.refusal = "400" => BadHeader
              /\ HeadGoesOn(r, i, q, fed) \/ PartGrows(r, i, q, fed)
  BY <1>3, <1>4, <1>7, <1>10, <1>12, PartAtWork
<1>13. CASE r.refusal # "more"
  <2>1. i # 0
    BY <1>11, <1>13
  <2>2. body' \in Seq(STRING)
    BY <1>2
  <2> QED
    BY <1>2, <1>8, <1>12, <1>13, <2>1, <2>2, PartRefused
<1>14. CASE r.refusal = "more"
  <2>1. /\ h' = inHead /\ typed' = r.typed /\ brest' = Drop(b, k)
        /\ out' = Write(OutAfter(r), Take(b, k)) /\ pc' = Return /\ status' = "more"
    BY <1>2, <1>3, <1>14
  <2>2. /\ pc' \in {"recv", "chunked"} /\ (pc' = "chunked" => mode = 3)
        /\ (pc' = "recv" /\ mode = 3 => rest = <<>>)
    BY <1>3, <2>1 DEF Return
  <2>3. ASSUME NEW s \in 0 .. fed, b = Slice(Bytes, s, fed)
        PROVE  /\ Len(b) = fed - s /\ b \in Seq(STRING) /\ s \in Nat /\ fed \in s .. Len(Bytes)
               /\ keep = (IF inHead \/ fed - s <= 5 THEN fed - s ELSE 5)
    <3>1. s \in Nat /\ fed \in s .. Len(Bytes)
      BY <1>1, <1>7
    <3>2. Len(b) = fed - s /\ b \in Seq(STRING)
      <4> DEFINE c == Slice(Bytes, s, fed)
      <4>1. Bytes \in Seq(STRING) /\ b = c
        BY <1>1, <2>3
      <4> HIDE DEF b
      <4>2. Len(c) = fed - s /\ c \in Seq(STRING)
        BY <3>1, <4>1, SliceType
      <4> HIDE DEF c
      <4> QED
        BY <4>1, <4>2
    <3> HIDE DEF b
    <3> QED
      BY <3>1, <3>2, Markers DEF HeldBack, b
\* Nothing is written while no part has begun, or its head goes on.
  <2>4. ASSUME NEW s \in 0 .. fed, b = Slice(Bytes, s, fed), inHead \/ fed - s <= 5, r.created = FALSE
        PROVE  out' = out /\ brest' = Slice(Bytes, s, fed) /\ brest' \in Seq(STRING)
    <3>1. k = 0 /\ Len(b) = fed - s /\ b \in Seq(STRING) /\ s \in Nat /\ fed \in s .. Len(Bytes)
      BY <1>7, <2>3, <2>4
    <3> HIDE DEF b, k
    <3>2. 0 \in 0 .. fed - s /\ s + 0 = s /\ s \in 0 .. Len(Bytes)
      BY <1>1, <3>1
    <3>3. Take(b, k) = <<>>
      <4>1. Take(Slice(Bytes, s, fed), 0) = Slice(Bytes, s, s + 0)
        BY <1>1, <3>1, <3>2, SliceTake
      <4>2. Slice(Bytes, s, s) = <<>>
        BY <1>1, <3>2, SliceNone
      <4> QED
        BY <2>4, <3>1, <3>2, <4>1, <4>2
    <3>4. Drop(b, k) = Slice(Bytes, s, fed)
      <4>1. Drop(Slice(Bytes, s, fed), 0) = Slice(Bytes, s + 0, fed)
        BY <1>1, <3>1, <3>2, SliceDrop
      <4> QED
        BY <2>4, <3>1, <3>2, <4>1
    <3>5. OutAfter(r) = out
      BY <2>4 DEF OutAfter
    <3>6. out' = out
      BY <1>1, <2>1, <3>3, <3>5, WriteNothing
    <3> QED
      BY <2>1, <2>4, <3>1, <3>4, <3>6
  <2>5. CASE i = 0
    <3>1. h = FALSE /\ q = 0 /\ r.created = FALSE /\ r.typed \in BOOLEAN
          /\ b = Slice(Bytes, 0, fed) /\ FilesTo(0, 0)
      BY <1>11, <2>5
    <3>2. fed <= 4
      BY <1>6, <1>7, <2>5
    <3>3. 0 \in 0 .. fed /\ fed - 0 <= 5
      BY <1>7, <3>2
    <3>4. out' = out /\ brest' = Slice(Bytes, 0, fed) /\ brest' \in Seq(STRING) /\ h' = FALSE
      <4> HIDE DEF b, k, keep
      <4> QED
        BY <2>1, <2>4, <3>1, <3>3
    <3>5. FilesTo(0, 0)'
      <4>1. \A j \in 1 .. 0 - 1 : FALSE
        OBVIOUS
      <4> QED
        BY <1>1, <1>2, <3>1, <3>4, <4>1 DEF FilesTo
    <3>6. Stands(0, 0)'
      BY <1>2, <1>9, <2>1, <2>2, <3>2, <3>4, <3>5 DEF Stands, Noticed
    <3>7. Divided'
      BY <1>2, <1>7, <2>1, <3>3, <3>6, DividedNext
    <3> QED
      <4>1. body' \in Seq(STRING)
        BY <1>2
      <4> QED
        BY <1>1, <1>2, <1>8, <2>1, <2>2, <3>1, <3>4, <3>7, <4>1, PartStep
  <2>6. CASE i # 0 /\ HeadGoesOn(r, i, q, fed)
    <3>1. h = TRUE /\ fed <= Blank(i) /\ r.created = FALSE /\ inHead
      BY <1>1, <2>6 DEF HeadGoesOn
    <3>2. PICK p \in q .. fed : InHead(i, p) /\ b = Slice(Bytes, p, fed)
      BY <2>6 DEF HeadGoesOn
    <3>3. p \in 0 .. fed
      BY <1>7
    <3>4. out' = out /\ brest' = Slice(Bytes, p, fed) /\ brest' \in Seq(STRING) /\ h' = TRUE
      <4> HIDE DEF b, k, keep
      <4> QED
        BY <2>1, <2>4, <3>1, <3>2, <3>3
    <3>5. FilesTo(i, q)
      BY <1>4 DEF Stands
    <3>6. ASSUME NEW j, Complete(j) PROVE Complete(j)'
      <4>1. FileDone(out'.files[j], j)
        BY <3>4, <3>6 DEF Complete
      <4> QED
        BY <1>2, <1>8, <4>1, DoneNext
    <3>7. FilesTo(i, p)'
      BY <1>2, <1>9, <2>6, <3>1, <3>4, <3>5, <3>6 DEF FilesTo
    <3>8. Noticed(i, p)'
      BY <1>2, <1>7, <1>9, <2>6, <3>1, <3>4 DEF Noticed
    <3>9. InHead(i, p)'
      BY <1>9, <3>2
    <3>10. Stands(i, p)'
      BY <1>2, <1>9, <2>1, <2>2, <2>6, <3>4, <3>7, <3>8, <3>9 DEF Stands
    <3>11. Divided'
      BY <1>2, <1>7, <2>1, <3>3, <3>10, DividedNext
    <3> QED
      <4>1. body' \in Seq(STRING)
        BY <1>2
      <4> QED
        BY <1>1, <1>2, <1>8, <1>12, <2>1, <2>2, <2>6, <3>4, <3>11, <4>1, PartStep
  <2>7. CASE i # 0 /\ PartGrows(r, i, q, fed)
    <3>1. inHead = FALSE /\ h' = FALSE
      BY <1>1, <2>1, <2>7 DEF PartGrows
    <3>2. PICK s \in q .. fed : /\ InPart(i, s) /\ b = Slice(Bytes, s, fed)
                                /\ h => s = Begins(i)
                                /\ OutAfter(r) \in Streams /\ Growing(OutAfter(r), i, s)
      BY <2>7 DEF PartGrows
    <3>3. s \in 0 .. fed /\ q <= s
      BY <1>7
    <3>4. /\ Len(b) = fed - s /\ b \in Seq(STRING) /\ s \in Nat /\ fed \in s .. Len(Bytes)
          /\ keep = (IF fed - s <= 5 THEN fed - s ELSE 5)
      BY <2>3, <3>1, <3>2, <3>3
    <3> HIDE DEF keep, b
    <3>5. PICK e \in Nat : e = s + k
      BY <1>7, <3>3, <3>4
    <3>6. /\ e = (IF fed - s <= 5 THEN s ELSE fed - 5) /\ k \in 0 .. fed - s
          /\ e \in s .. fed /\ e \in s .. Len(Bytes) /\ e \in 0 .. fed
      BY <1>1, <1>7, <3>3, <3>4, <3>5
    <3> HIDE DEF k
    <3>7. Take(b, k) = Slice(Bytes, s, e) /\ Drop(b, k) = Slice(Bytes, e, fed)
      <4>1. Take(Slice(Bytes, s, fed), k) = Slice(Bytes, s, s + k)
        BY <1>1, <3>4, <3>6, SliceTake
      <4>2. Drop(Slice(Bytes, s, fed), k) = Slice(Bytes, s + k, fed)
        BY <1>1, <3>4, <3>6, SliceDrop
      <4> QED
        BY <3>2, <3>5, <4>1, <4>2
    <3>8. i \in 1 .. Parts /\ Begins(i) <= s
      BY <1>7, <2>7, <3>2 DEF InPart
    <3>9. out' \in Streams /\ Growing(out', i, e)
      <4> DEFINE o == OutAfter(r)
      <4>1. o \in Streams /\ Growing(o, i, s)
        BY <3>2
      <4>2. out' = Write(o, Slice(Bytes, s, e))
        BY <2>1, <3>7
      <4> HIDE DEF o
      <4> QED
        BY <1>1, <1>3, <3>4, <3>6, <3>8, <4>1, <4>2, GrowsOn
    <3>10. Blank(i) \in Nat /\ Begins(i) = Blank(i) + 1 /\ Blank(i) + 4 <= At(i + 1)
      BY <1>1, <1>3, <3>8, HeadPlaces
    <3>11. i = Parts => fed <= At(i + 1) + 5 \/ At(i + 1) <= s
      BY <1>5, <1>6, <1>7, <3>3
    <3>12. InPart(i, e)'
      BY <1>1, <1>2, <1>3, <1>6, <1>8, <3>2, <3>4, <3>6, <3>8, <3>11, WrittenTo
    <3>13. Noticed(i, e)'
      <4>1. i = Parts => fed <= At(i + 1) + 5 \/ At(i + 1) <= e
        BY <1>5, <3>3, <3>4, <3>6, <3>11
      <4>2. i > 0 /\ (i < Parts \/ i = Parts)
        BY <1>7, <3>8
      <4> QED
        BY <1>2, <1>6, <1>9, <3>1, <4>1, <4>2 DEF Noticed
    <3>14. ASSUME NEW j \in 1 .. i - 1, upload.dir PROVE Complete(j)'
      <4>1. FileDone(out'.files[j], j)
        BY <3>9, <3>14 DEF Growing
      <4> QED
        BY <1>2, <1>8, <4>1, DoneNext
    <3>15. FilesTo(i, e)'
      BY <1>2, <1>9, <2>7, <3>1, <3>9, <3>14 DEF FilesTo, Growing
    <3>16. brest' = Slice(Bytes, e, fed) /\ brest' \in Seq(STRING)
      <4>1. fed \in e .. Len(Bytes)
        BY <1>1, <1>7, <3>4, <3>6
      <4> QED
        BY <1>1, <2>1, <3>7, <4>1, SliceType
    <3>17. Stands(i, e)'
      BY <1>2, <1>9, <2>1, <2>2, <2>7, <3>1, <3>12, <3>13, <3>15, <3>16 DEF Stands
    <3>18. Divided'
      BY <1>2, <1>7, <2>1, <3>6, <3>17, DividedNext
    <3> QED
      <4>1. body' \in Seq(STRING)
        BY <1>2
      <4> QED
        BY <1>1, <1>2, <1>8, <1>12, <2>1, <2>2, <2>7, <3>1, <3>9, <3>16, <3>18, <4>1, PartStep
  <2> QED
    BY <1>12, <2>5, <2>6, <2>7
<1> QED
  BY <1>13, <1>14

-------------------------------------------------------------------------------
(***************************************************************************)
(* The invariant holds in every reachable state, for every well-formed     *)
(* request and however its body is cut into pieces and chunks.             *)
(***************************************************************************)
LEMMA InvNext ==
    ASSUME Inv, [Next]_vars
    PROVE  Inv'
<1>1. CASE PostRequest
  BY <1>1, PostRequestKeeps
<1>2. CASE InitPost
  BY <1>2, InitPostKeeps
<1>3. CASE SizeLineMissing
  BY <1>3, SizeLineMissingKeeps
<1>4. CASE SizeLineFound
  BY <1>4, SizeLineFoundKeeps
<1>5. CASE ChunkData
  BY <1>5, ChunkDataKeeps
<1>6. CASE PartEnds
  BY <1>6, PartEndsKeeps
<1>7. CASE BodyEnds
  BY <1>7, BodyEndsKeeps
<1>8. CASE PartGoesOn
  BY <1>8, PartGoesOnKeeps
<1>9. CASE RawCounted
  BY <1>9, RawCountedKeeps
<1>10. CASE RawMultipart
  BY <1>10, RawMultipartKeeps
<1>11. CASE UNCHANGED vars
  <2>1. UNCHANGED <<upload, pos, idle, pc, status, mode, is_cgi, max_size, chunked_size, rest,
                    brest, h, typed, body, out, fed, cuts, repeated>>
    BY <1>11 DEF vars, callVars, modeVars, chunkVars, partVars, history
  <2>2. /\ Bytes' = Bytes /\ Wired' = Wired /\ Parts' = Parts /\ BadEnds' = BadEnds
        /\ \A i : At(i)' = At(i) /\ Blank(i)' = Blank(i) /\ Begins(i)' = Begins(i)
        /\ \A i, q : InHead(i, q)' = InHead(i, q)
        /\ LongSizeLine' = LongSizeLine /\ BadHeader' = BadHeader
    BY <2>1, SameRequest
  <2>3. TypeOK'
    BY <2>1, <2>2 DEF Inv, TypeOK
  <2>4. Modes'
    BY <2>1, <2>2 DEF Inv, Modes
  <2>5. \A x : Holds(x)' = Holds(x)
    BY <2>1 DEF Holds
  <2>6. Counted'
    BY <2>1, <2>2, <2>5 DEF Inv, Counted
  <2>7. Copied'
    BY <2>1, <2>2, <2>5 DEF Inv, Copied, HeldAfter
  <2>8. Dechunked'
    BY <2>1, <2>2, <2>5 DEF Inv, Dechunked, InChunk, Passed
  <2>9. \A j : Complete(j)' = Complete(j)
    BY <2>1, <2>2 DEF Complete, FileDone, EndsPart
  <2>10. AllStored' = AllStored
    BY <2>1, <2>2, <2>9 DEF AllStored
  <2>11. \A i, q : Stands(i, q)' = Stands(i, q)
    BY <2>1, <2>2, <2>9 DEF Stands, FilesTo, InPart, Margin, Noticed
  <2>12. Divided'
    BY <2>1, <2>2, <2>10, <2>11 DEF Inv, Divided
  <2>13. RefusedForSizeLine'
    BY <2>1, <2>2 DEF Inv, RefusedForSizeLine
  <2> QED
    BY <2>3, <2>4, <2>6, <2>7, <2>8, <2>12, <2>13 DEF Inv
<1> QED
  BY <1>1, <1>2, <1>3, <1>4, <1>5, <1>6, <1>7, <1>8, <1>9, <1>10, <1>11 DEF Next

LEMMA InvHolds == Spec => []Inv
<1>1. Init => Inv
  BY InitInv
<1>2. Inv /\ [Next]_vars => Inv'
  BY InvNext
<1> QED
  BY <1>1, <1>2, PTL DEF Spec

\* The types of the variables, as TypeOK of Post states them.
THEOREM UploadTypeCorrect == Spec => []TypeOK
<1>1. Inv => TypeOK
  BY DEF Inv
<1> QED
  BY <1>1, InvHolds, PTL

(***************************************************************************)
(* A 400 has one of its two reasons: a size line at the limit of chunked,  *)
(* or a part with a line that is no header.                                *)
(***************************************************************************)
THEOREM RefusalsHaveReasons == Spec => []RefusedForSizeLine
<1>1. Inv => RefusedForSizeLine
  BY DEF Inv
<1> QED
  BY <1>1, InvHolds, PTL
-------------------------------------------------------------------------------
\* What one file holds when the upload is answered with 201.
LEMMA OneFile ==
    ASSUME Inv, status = "201", upload.dir, LengthHolds(upload), mode \in {0, 1, 4},
           mode = 1 /\ is_cgi => max_size > 0, mode = 4 => ~repeated
    PROVE  out.files = <<Bytes>>
<1>1. /\ upload \in Uploads /\ Slice(Bytes, 0, Len(Bytes)) = Bytes /\ pc = "recv"
  <2>1. upload \in Uploads
    BY Context
  <2>2. Slice(Bytes, 0, Len(Bytes)) = Bytes
    BY <2>1, UploadIs
  <2>3. pc = "recv"
    BY DEF Inv, Modes
  <2> QED
    BY <2>1, <2>2, <2>3
<1>2. Holds(Bytes)
  <2>1. CASE mode = 0
    BY <1>1, <2>1 DEF Inv, Counted
  <2>2. CASE mode = 1
    <3>1. PICK p \in 0 .. Len(Bytes) : Passed(p)
      BY <2>2 DEF Inv, Dechunked
    <3>2. ~(is_cgi /\ max_size = 0)
      BY <2>2
    <3> QED
      BY <1>1, <2>2, <3>1, <3>2 DEF Passed
  <2>3. CASE mode = 4
    BY <2>3 DEF Inv, Copied
  <2> QED
    BY <2>1, <2>2, <2>3
<1> QED
  BY <1>2 DEF Holds

\* A stored upload that is answered with 201.
LEMMA ExactWhenDone == Inv => FilesExact
<1> SUFFICES ASSUME Inv, Stored, status = "201", cuts = {}, LengthHolds(upload)
             PROVE  out.files = upload.parts
  BY DEF FilesExact
<1>1. mode # NoMode
  BY DEF Inv, Modes
<1>2. mode \in 0 .. 4 /\ ~is_cgi /\ upload.dir /\ mode # 4
  BY <1>1, InMode DEF Stored
<1>3. CASE mode \in {0, 1}
  <2>1. upload.parts = <<Bytes>>
    BY <1>1, <1>2, <1>3, InMode
  <2> QED
    BY <1>1, <1>2, <1>3, <2>1, OneFile
<1>4. CASE mode \in {2, 3}
  <2>1. upload \in Uploads /\ PartsMeant(upload) /\ upload \in Upload
    BY <1>1, <1>4, InMode, Context
  <2>2. Len(out.files) = Len(upload.parts) /\ \A j \in 1 .. Parts : Complete(j)
    BY <1>2, <1>4 DEF Inv, Divided, AllStored, Parts
  <2>3. ASSUME NEW j \in 1 .. Parts PROVE out.files[j] = upload.parts[j]
    BY <2>1, <2>2, HeadPlaces DEF Complete, FileDone, EndsPart
  <2>4. out.files \in Seq(Seq(STRING)) /\ upload.parts \in Seq(Seq(STRING))
    BY <2>1, Context DEF Upload
  <2> DEFINE F == out.files
             G == upload.parts
             T == Seq(STRING)
  <2>5. F \in Seq(T) /\ G \in Seq(T) /\ Len(F) = Len(G) /\ \A j \in 1 .. Len(F) : F[j] = G[j]
    BY <2>2, <2>3, <2>4 DEF Parts
  <2> HIDE DEF F, G, T
  <2>6. F = G
    BY <2>5, SeqEqual
  <2> QED
    BY <2>6 DEF F, G
<1> QED
  BY <1>2, <1>3, <1>4

(***************************************************************************)
(* A stored upload holds exactly what its sender means, unless a piece     *)
(* ended just before the end of a boundary line, or its Content-Length is  *)
(* wrong or more than the largest int (post.cpp:349).                      *)
(***************************************************************************)
THEOREM UploadsAreExact == Spec => []FilesExact
BY ExactWhenDone, InvHolds, PTL

(***************************************************************************)
(* The input of a script is the body as it came, with the exceptions that  *)
(* ScriptInput names.                                                      *)
(***************************************************************************)
THEOREM ScriptsReadTheBody == Spec => []ScriptInput
<1>1. Inv => ScriptInput
  <2> SUFFICES ASSUME Inv, is_cgi, upload.dir, status = "201", ~repeated, LengthHolds(upload),
                      mode = 1 => max_size > 0
               PROVE  out.files = <<upload.body>>
    BY DEF ScriptInput
  <2>1. mode # NoMode
    BY DEF Inv, Modes
  <2>2. mode \in {0, 1, 4}
    <3>1. mode \in 0 .. 4 /\ ~(mode \in {2, 3})
      BY <2>1, InMode
    <3> QED
      BY <3>1
  <2>3. out.files = <<Bytes>>
    BY <2>2, OneFile
  <2> QED
    BY <2>3 DEF Bytes
<1> QED
  BY <1>1, InvHolds, PTL

(***************************************************************************)
(* After the last byte no call waits for more, unless the last boundary    *)
(* line was cut one byte before its end, or the length does not hold.      *)
(***************************************************************************)
THEOREM UploadsEnd == Spec => []EndsWithLastByte
<1>1. Inv => EndsWithLastByte
  <2> SUFFICES ASSUME Inv, pos = Len(Wired), pos > 0, pc = "recv", status = "more",
                      LengthHolds(upload)
               PROVE  cuts \cap LostEnds # {}
    BY DEF EndsWithLastByte, Wired
  <2>1. mode # NoMode
    BY DEF Inv, Modes
  <2>2. /\ upload \in Uploads /\ Wired \in Seq(STRING) /\ Len(Wired) \in Nat /\ Len(Bytes) \in Nat
        /\ h \in BOOLEAN
    BY Context
  <2>3. mode \in 0 .. 4 /\ upload.encoding = (IF mode \in {1, 3} THEN "chunked" ELSE "none")
        /\ (mode \in {0, 2, 4} => Wired = Bytes)
    BY <2>1, InMode
  <2>4. mode # 0
    BY <2>2, <2>3 DEF Inv, Counted
  <2>5. mode # 4
    BY <2>2, <2>3 DEF Inv, Copied
  <2>6. ~(mode \in {1, 3})
    <3> SUFFICES ASSUME mode \in {1, 3} PROVE FALSE
      OBVIOUS
    <3>1. ChunksMeant(upload)
      BY <2>1, InMode
    <3>2. PICK r \in 0 .. pos, p \in 0 .. Len(Bytes) : rest = Slice(Wired, r, pos) /\ InChunk(r, p)
      BY DEF Inv, Dechunked
    <3>3. rest = <<>> \/ (chunked_size = 0 /\ Finds(rest, CRLF) = {})
      BY DEF Inv, Dechunked
    <3>4. r \in Nat /\ pos \in r .. Len(Wired) /\ pos = Len(Wired)
      BY <2>2
    <3>5. CASE chunked_size = 0 /\ Finds(rest, CRLF) = {}
      <4>1. PICK k \in Nat : /\ IsAt(Wired, CRLF, r + k + 1) /\ r + k + 2 <= Len(Wired)
                             /\ \A j \in 1 .. k : Wired[r + j] \in DOMAIN Digit
        BY <2>2, <3>1, <3>2, <3>4, <3>5, LineAhead
      <4>2. pos <= r + k + 1
        BY <2>2, <3>2, <3>4, <3>5, <4>1, FirstLine
      <4> QED
        BY <2>2, <3>4, <4>1, <4>2
    <3>6. CASE rest = <<>>
      <4>1. r = pos
        <5>1. Len(Slice(Wired, r, pos)) = pos - r /\ Len(rest) = 0
          BY <2>2, <3>4, <3>6, SliceType
        <5> QED
          BY <2>2, <3>2, <3>4, <5>1
      <4>2. PICK i \in 1 .. Len(upload.chunks) :
              LET c == upload.chunks[i]
              IN  \/ chunked_size > 0 /\ r = DataAt(c) + c.size - chunked_size
                  \/ r = c.at
                  \/ r = DataAt(c) + c.size
        BY <3>2 DEF InChunk
      <4> DEFINE c == upload.chunks[i]
      <4>3. /\ c.at \in Nat /\ c.digits \in Nat \ {0} /\ c.size \in Nat
            /\ DataAt(c) = c.at + c.digits + 2 /\ DataAt(c) \in Nat
            /\ DataAt(c) + c.size + 2 <= Len(Wired)
        BY <2>2, <3>1, ChunkPlaces
      <4>4. chunked_size \in Nat
        BY Context
      <4> DEFINE D == DataAt(c)
                 z == c.size
                 a == c.at
                 d == c.digits
      <4>5. /\ a \in Nat /\ d \in Nat /\ z \in Nat /\ D = a + d + 2 /\ D + z + 2 <= Len(Wired)
            /\ \/ chunked_size > 0 /\ r = D + z - chunked_size
               \/ r = a
               \/ r = D + z
        BY <4>2, <4>3
      <4> HIDE DEF D, z, a, d, c
      <4> QED
        BY <2>2, <3>4, <4>1, <4>4, <4>5
    <3> QED
      BY <3>3, <3>5, <3>6
  <2>7. mode = 2
    BY <2>3, <2>4, <2>5, <2>6
  <2>8. PartsMeant(upload) /\ fed = Len(Bytes)
    <3>1. fed = pos
      BY <2>3, <2>7, Context
    <3> QED
      BY <2>1, <2>3, <2>7, <3>1, InMode
  <2>9. PICK i \in 0 .. Parts, q \in 0 .. fed : Stands(i, q)
    BY <2>7 DEF Inv, Divided
  <2>10. Noticed(i, q)
    BY <2>9 DEF Stands
  <2>11. At(Parts + 1) + 5 \in cuts
    BY <2>2, <2>8, <2>9, <2>10, AllPassed
  <2>12. At(Parts + 1) + 5 \in LostEnds
    <3>1. At(Parts + 1) \in Finds(Bytes, LastLine) /\ At(Parts + 1) \in Nat
      <4>1. Parts + 1 \in 1 .. Parts + 1
        BY <2>2, <2>8, PartPlaces
      <4> QED
        BY <2>2, <2>8, <4>1, PartPlaces
    <3>2. At(Parts + 1) + 5 = At(Parts + 1) + Len(LastLine) - 2
      BY <3>1, Markers
    <3> QED
      BY <3>1, <3>2 DEF LostEnds, Bytes
  <2> QED
    BY <2>11, <2>12
<1> QED
  BY <1>1, InvHolds, PTL

-------------------------------------------------------------------------------
\* Beginnings of texts.
LEMMA PrefixOfMore ==
    ASSUME NEW T, NEW s \in Seq(T), NEW t \in Seq(T), NEW u \in Seq(T), IsPrefix(s, t)
    PROVE  IsPrefix(s, t \o u)
<1> DEFINE n == Len(s)
           z == t \o u
<1>1. n \in Nat /\ n <= Len(t) /\ Len(t) \in Nat /\ Len(u) \in Nat /\ Take(s, n) = Take(t, n)
  BY DEF IsPrefix, Take
<1>2. z \in Seq(T) /\ Len(z) = Len(t) + Len(u) /\ \A i \in 1 .. Len(t) : z[i] = t[i]
  BY ConcatProperties
<1> HIDE DEF n, z
<1>3. n \in 0 .. Len(t) /\ n \in 0 .. Len(z) /\ n <= Len(z)
  BY <1>1, <1>2
<1>4. Take(z, n) \in Seq(T) /\ Len(Take(z, n)) = n /\ \A i \in 1 .. n : Take(z, n)[i] = z[i]
  BY <1>2, <1>3, TakeType
<1>5. Take(t, n) \in Seq(T) /\ Len(Take(t, n)) = n /\ \A i \in 1 .. n : Take(t, n)[i] = t[i]
  BY <1>3, TakeType
<1>6. \A i \in 1 .. n : z[i] = t[i]
  BY <1>1, <1>2
<1>7. Take(z, n) = Take(t, n)
  <2> DEFINE x == Take(z, n)
             y == Take(t, n)
  <2>1. x \in Seq(T) /\ y \in Seq(T) /\ Len(x) = Len(y) /\ \A i \in 1 .. Len(x) : x[i] = y[i]
    BY <1>4, <1>5, <1>6
  <2> HIDE DEF x, y
  <2>2. x = y
    BY <2>1, SeqEqual
  <2> QED
    BY <2>2 DEF x, y
<1>8. SubSeq(s, 1, n) = SubSeq(z, 1, n)
  BY <1>1, <1>7 DEF Take
<1> QED
  BY <1>3, <1>8 DEF IsPrefix, n, z

LEMMA PrefixOfCut ==
    ASSUME NEW t \in Seq(STRING), NEW a \in Nat, NEW b \in a .. Len(t), NEW c \in b .. Len(t)
    PROVE  IsPrefix(Slice(t, a, b), Slice(t, a, c))
<1>1. Len(t) \in Nat /\ b \in Nat /\ c \in Nat /\ c \in a .. Len(t) /\ b - a \in 0 .. b - a
      /\ b - a \in 0 .. c - a /\ b - a <= c - a
  BY LenProperties
<1>2. Len(Slice(t, a, b)) = b - a /\ Len(Slice(t, a, c)) = c - a
  BY <1>1, SliceType
<1> DEFINE k == b - a
<1>3. k \in 0 .. b - a /\ k \in 0 .. c - a
  BY <1>1
<1> HIDE DEF k
<1>4. Take(Slice(t, a, b), k) = Slice(t, a, a + k) /\ Take(Slice(t, a, c), k) = Slice(t, a, a + k)
  BY <1>1, <1>3, SliceTake
<1>5. SubSeq(Slice(t, a, b), 1, k) = SubSeq(Slice(t, a, c), 1, k)
  BY <1>4 DEF Take
<1> QED
  BY <1>1, <1>2, <1>5 DEF IsPrefix, k

\* What stands at a place.
LEMMA SliceAt ==
    ASSUME NEW t \in Seq(STRING), NEW p \in Seq(STRING), NEW i \in Nat, i >= 1, IsAt(t, p, i)
    PROVE  i - 1 + Len(p) <= Len(t) /\ Slice(t, i - 1, i - 1 + Len(p)) = p
<1>1. Len(p) \in Nat /\ Len(t) \in Nat /\ DOMAIN p = 1 .. Len(p)
  BY LenProperties
<1> DEFINE a == i - 1
           b == i - 1 + Len(p)
<1>2. a \in Nat /\ b \in a .. Len(t) /\ Len(p) = b - a /\ b <= Len(t)
  <2> DEFINE k == Len(p)
             l == Len(t)
  <2>1. i + k - 1 <= l /\ k \in Nat /\ l \in Nat /\ a = i - 1 /\ b = i - 1 + k
    BY <1>1 DEF IsAt
  <2> HIDE DEF k, l, a, b
  <2>2. a \in Nat /\ b \in a .. l /\ k = b - a /\ b <= l
    BY <2>1
  <2> QED
    BY <2>2 DEF k, l
<1>3. \A j \in 1 .. Len(p) : p[j] = t[a + j]
  <2> SUFFICES ASSUME NEW j \in 1 .. Len(p) PROVE p[j] = t[a + j]
    OBVIOUS
  <2>1. j \in DOMAIN p /\ j \in Nat
    BY <1>1
  <2>2. t[i + j - 1] = p[j]
    BY <1>1, <2>1 DEF IsAt
  <2>3. i + j - 1 = a + j
    BY <2>1
  <2> QED
    BY <2>2, <2>3
<1> HIDE DEF a, b
<1>4. p = Slice(t, a, b)
  BY <1>2, <1>3, IsCut
<1> QED
  BY <1>2, <1>4 DEF a, b

\* The markers are texts, and made of characters.
LEMMA PairOf ==
    ASSUME NEW S, NEW x \in S, NEW y \in S
    PROVE  <<x, y>> \in Seq(S) /\ <<x>> \in Seq(S)
OBVIOUS

LEMMA SeqInMore ==
    ASSUME NEW S, NEW T, S \subseteq T, NEW s \in Seq(S)
    PROVE  s \in Seq(T)
OBVIOUS

LEMMA MarkersOf ==
    ASSUME NEW S, CR \in S, LF \in S, "-" \in S, "b" \in S
    PROVE  CRLF \in Seq(S) /\ LastLine \in Seq(S) /\ Surplus \in Seq(S)
<1> DEFINE a == Dashes \o <<"b">>
           c == a \o Dashes
           d == c \o CRLF
<1>1. CRLF \in Seq(S) /\ Dashes \in Seq(S) /\ <<"b">> \in Seq(S)
  <2>1. <<CR, LF>> \in Seq(S) /\ <<"-", "-">> \in Seq(S) /\ <<"b">> \in Seq(S)
    BY PairOf
  <2> QED
    BY <2>1 DEF CRLF, Dashes
<1>2. a \in Seq(S)
  BY <1>1, ConcatProperties
<1> HIDE DEF a
<1>3. c \in Seq(S)
  BY <1>1, <1>2, ConcatProperties
<1> HIDE DEF c
<1>4. d \in Seq(S) /\ LastLine = d
  BY <1>1, <1>3, ConcatProperties DEF a, c, LastLine
<1> HIDE DEF d
<1>5. CRLF \o d \in Seq(S)
  BY <1>1, <1>4, ConcatProperties
<1> QED
  BY <1>1, <1>4, <1>5 DEF Surplus

LEMMA SurplusOf == Surplus \in Seq(STRING \cup {CR, LF, "-", "b"})
<1> DEFINE T == STRING \cup {CR, LF, "-", "b"}
<1>1. CR \in T /\ LF \in T /\ "-" \in T /\ "b" \in T
  OBVIOUS
<1> HIDE DEF T
<1>2. Surplus \in Seq(T)
  BY <1>1, MarkersOf
<1> QED
  BY <1>2 DEF T

LEMMA MarkersAreTexts ==
    ASSUME upload \in Uploads, PartsMeant(upload)
    PROVE  CRLF \in Seq(STRING) /\ LastLine \in Seq(STRING) /\ Surplus \in Seq(STRING)
<1>1. Bytes \in Seq(STRING) /\ Len(Bytes) \in Nat /\ 1 \in 1 .. Parts
  BY UploadIs, PartPlaces
<1>2. At(1) = 1 /\ At(1) \in Finds(Bytes, StartLine) /\ 5 <= Len(Bytes)
  <2>1. At(1) + 4 <= Len(Bytes)
    BY <1>1, HeadPlaces
  <2>2. At(1) = 1 /\ At(1) \in {At(i) : i \in 1 .. Parts}
    BY <1>1, PartPlaces
  <2> QED
    BY <1>1, <2>1, <2>2, PartPlaces
<1>3. \A j \in 1 .. 5 : StartLine[j] = Bytes[j] /\ Bytes[j] \in STRING
  <2> SUFFICES ASSUME NEW j \in 1 .. 5 PROVE StartLine[j] = Bytes[j] /\ Bytes[j] \in STRING
    OBVIOUS
  <2>1. IsAt(Bytes, StartLine, 1) /\ j \in DOMAIN StartLine /\ 1 + j - 1 = j
    BY <1>2, Markers DEF Finds
  <2>2. Bytes[1 + j - 1] = StartLine[j]
    BY <2>1 DEF IsAt
  <2>3. j \in 1 .. Len(Bytes)
    BY <1>1, <1>2
  <2>4. Bytes[j] \in STRING
    BY <1>1, <2>3, ElementOfSeq
  <2> QED
    BY <2>1, <2>2, <2>4
<1>4. CR \in STRING /\ LF \in STRING /\ "-" \in STRING /\ "b" \in STRING
  BY <1>3, Markers
<1> QED
  BY <1>4, MarkersOf

\* A part, and what follows it.
LEMMA PartAndMore ==
    ASSUME upload \in Uploads, PartsMeant(upload), NEW i \in 1 .. Parts
    PROVE  /\ upload.parts[i] \in Seq(STRING) /\ Surplus \in Seq(STRING)
           /\ \A w \in 0 .. Len(Bytes) :
                Begins(i) <= w /\ (i < Parts => w < At(i + 1)) =>
                    IsPrefix(Slice(Bytes, Begins(i), w), upload.parts[i] \o Surplus)
           /\ \A w \in 0 .. Len(Bytes) :
                Begins(i) <= w /\ At(i + 1) - 3 <= w =>
                    IsPrefix(upload.parts[i], Slice(Bytes, Begins(i), w))
           /\ \A w \in 0 .. Len(Bytes) :
                Begins(i) <= w /\ w <= At(i + 1) - 3 =>
                    IsPrefix(Slice(Bytes, Begins(i), w), upload.parts[i])
<1> DEFINE b == Begins(i)
           a == At(i + 1)
           l == Len(Bytes)
           p == upload.parts[i]
<1>1. /\ b \in Nat /\ a \in Nat /\ l \in Nat /\ b + 3 <= a /\ a <= l /\ Bytes \in Seq(STRING)
      /\ p = Slice(Bytes, b, a - 3) /\ IsAt(Bytes, CRLF, a - 2)
  <2>1. Bytes \in Seq(STRING) /\ l \in Nat
    BY UploadIs
  <2>2. /\ a \in 1 .. l /\ Blank(i) \in Nat /\ b = Blank(i) + 1 /\ Blank(i) + 4 <= a
        /\ p = Slice(Bytes, b, a - 3) /\ IsAt(Bytes, CRLF, a - 2)
    BY HeadPlaces
  <2> HIDE DEF a, b, l, p
  <2>3. b \in Nat /\ a \in Nat /\ b + 3 <= a /\ a <= l
    BY <2>1, <2>2
  <2> QED
    BY <2>1, <2>2, <2>3
<1>2. i = Parts => a + 6 = l /\ IsAt(Bytes, LastLine, a)
  <2> SUFFICES ASSUME i = Parts PROVE a + 6 = l /\ IsAt(Bytes, LastLine, a)
    OBVIOUS
  <2>1. At(Parts + 1) + 6 = Len(Bytes) /\ At(Parts + 1) \in Finds(Bytes, LastLine)
    BY PartPlaces
  <2> QED
    BY <2>1 DEF Finds
<1> HIDE DEF b, a, l, p
<1>3. CRLF \in Seq(STRING) /\ LastLine \in Seq(STRING) /\ Surplus = CRLF \o LastLine
      /\ Surplus \in Seq(STRING)
  BY MarkersAreTexts DEF Surplus
<1>4. p \in Seq(STRING)
  <2>1. a - 3 \in b .. Len(Bytes)
    BY <1>1 DEF l
  <2> QED
    BY <1>1, <2>1, SliceType
<1>5. p \o CRLF = Slice(Bytes, b, a - 1)
  <2>1. a - 2 \in Nat /\ a - 2 >= 1 /\ (a - 2) - 1 = a - 3 /\ (a - 2) - 1 + Len(CRLF) = a - 1
    BY <1>1, Markers
  <2>2. Slice(Bytes, a - 3, a - 1) = CRLF
    <3> DEFINE j == a - 2
    <3>1. j \in Nat /\ j >= 1 /\ IsAt(Bytes, CRLF, j) /\ j - 1 = a - 3 /\ j - 1 + Len(CRLF) = a - 1
      BY <1>1, <2>1
    <3> HIDE DEF j
    <3>2. Slice(Bytes, j - 1, j - 1 + Len(CRLF)) = CRLF
      BY <1>1, <1>3, <3>1, SliceAt
    <3> QED
      BY <3>1, <3>2
  <2> DEFINE x == a - 3
             y == a - 1
  <2>3. x \in b .. Len(Bytes) /\ y \in x .. Len(Bytes)
    BY <1>1 DEF l
  <2> HIDE DEF x, y
  <2>4. Slice(Bytes, b, x) \o Slice(Bytes, x, y) = Slice(Bytes, b, y)
    BY <1>1, <2>3, SliceJoin
  <2> QED
    BY <1>1, <2>2, <2>4 DEF x, y
<1>6. i = Parts => p \o Surplus = Slice(Bytes, b, l)
  <2> SUFFICES ASSUME i = Parts PROVE p \o Surplus = Slice(Bytes, b, l)
    OBVIOUS
  <2>1. Slice(Bytes, a - 1, l) = LastLine
    <3>1. a >= 1 /\ a - 1 + Len(LastLine) = l
      BY <1>1, <1>2, Markers
    <3>2. Slice(Bytes, a - 1, a - 1 + Len(LastLine)) = LastLine
      BY <1>1, <1>2, <1>3, <3>1, SliceAt
    <3> QED
      BY <3>1, <3>2
  <2>2. Slice(Bytes, b, a - 1) \o Slice(Bytes, a - 1, l) = Slice(Bytes, b, l)
    <3> DEFINE y == a - 1
    <3>1. y \in b .. Len(Bytes) /\ l \in y .. Len(Bytes)
      BY <1>1 DEF l
    <3> HIDE DEF y
    <3>2. Slice(Bytes, b, y) \o Slice(Bytes, y, l) = Slice(Bytes, b, l)
      BY <1>1, <3>1, SliceJoin
    <3> QED
      BY <3>2 DEF y
  <2>3. (p \o CRLF) \o LastLine = p \o (CRLF \o LastLine)
    BY <1>3, <1>4, ConcatAssociative
  <2> QED
    BY <1>3, <1>5, <2>1, <2>2, <2>3
<1>7. ASSUME NEW w \in 0 .. l, b <= w, i < Parts => w < a
      PROVE  IsPrefix(Slice(Bytes, b, w), p \o Surplus)
  <2>1. w \in b .. Len(Bytes)
    BY <1>1, <1>7 DEF l
  <2>2. CASE w < a
    <3> DEFINE y == a - 1
    <3>1. y \in w .. Len(Bytes)
      BY <1>1, <1>7, <2>2 DEF l
    <3> HIDE DEF y
    <3>2. IsPrefix(Slice(Bytes, b, w), Slice(Bytes, b, y))
      BY <1>1, <2>1, <3>1, PrefixOfCut
    <3>3. IsPrefix(Slice(Bytes, b, w), p \o CRLF) /\ Slice(Bytes, b, w) \in Seq(STRING)
          /\ p \o CRLF \in Seq(STRING)
      BY <1>1, <1>3, <1>4, <1>5, <2>1, <3>2, SliceType, ConcatProperties DEF y
    <3>4. IsPrefix(Slice(Bytes, b, w), (p \o CRLF) \o LastLine)
      BY <1>3, <3>3, PrefixOfMore
    <3>5. (p \o CRLF) \o LastLine = p \o Surplus
      BY SMTT(15), ZenonT(20), <1>3, <1>4, ConcatAssociative
    <3> QED
      BY <3>4, <3>5
  <2>3. CASE ~(w < a)
    <3>1. i = Parts
      BY <1>7, <2>3, PartPlaces
    <3>2. l \in w .. Len(Bytes)
      BY <1>1, <1>7 DEF l
    <3>3. IsPrefix(Slice(Bytes, b, w), Slice(Bytes, b, l))
      BY <1>1, <2>1, <3>2, PrefixOfCut
    <3> QED
      BY <1>6, <3>1, <3>3
  <2> QED
    BY <2>2, <2>3
<1>8. ASSUME NEW w \in 0 .. l, b <= w
      PROVE  /\ a - 3 <= w => IsPrefix(p, Slice(Bytes, b, w))
             /\ w <= a - 3 => IsPrefix(Slice(Bytes, b, w), p)
  <2> DEFINE x == a - 3
  <2>1. /\ x \in b .. Len(Bytes) /\ w \in b .. Len(Bytes)
        /\ a - 3 <= w => w \in x .. Len(Bytes)
        /\ w <= a - 3 => x \in w .. Len(Bytes)
    BY <1>1, <1>8 DEF l
  <2>2. p = Slice(Bytes, b, x)
    BY <1>1
  <2> HIDE DEF x
  <2> QED
    BY <1>1, <2>1, <2>2, PrefixOfCut
<1> QED
  BY <1>3, <1>4, <1>7, <1>8 DEF a, b, l, p

\* What a mode with a single file has written, up to w.
LEMMA OnlyFile ==
    ASSUME Inv, upload.dir, ~is_cgi, mode \in {0, 1}
    PROVE  \E w \in 0 .. Len(Bytes) : out.files = <<Slice(Bytes, 0, w)>>
<1>1. CASE mode = 0
  BY <1>1 DEF Inv, Counted, Holds
<1>2. CASE mode = 1
  <2>1. PICK p \in 0 .. Len(Bytes) : Passed(p)
    BY <1>2 DEF Inv, Dechunked
  <2>2. pc # "raw"
    BY <1>2 DEF Inv, Modes
  <2> QED
    BY <1>2, <2>1, <2>2 DEF Passed, Holds
<1> QED
  BY <1>1, <1>2

(***************************************************************************)
(* However the pieces end, nothing of a file is lost or mixed up; what is  *)
(* added at the end is the beginning of the boundary line.                 *)
(***************************************************************************)
THEOREM NothingIsLost == Spec => []NothingLost
<1>1. Inv => NothingLost
  <2> SUFFICES ASSUME Inv, Stored PROVE NothingLost!2
    BY DEF NothingLost
  <2> DEFINE Kept(j) ==
        /\ IsPrefix(out.files[j], upload.parts[j] \o Surplus)
        /\ j < Len(out.files) \/ (status = "201" /\ LengthHolds(upload))
             => IsPrefix(upload.parts[j], out.files[j])
  <2> SUFFICES Len(out.files) <= Parts /\ \A j \in 1 .. Len(out.files) : Kept(j)
    <3>1. DOMAIN out.files = 1 .. Len(out.files)
      BY Context, LenProperties
    <3> QED
      BY <3>1 DEF Parts
  <2>1. upload.dir /\ ~is_cgi
    BY DEF Stored
  <2>2. Parts \in Nat
    BY Context, LenProperties DEF Upload, Parts
  <2>3. mode \in 0 .. 4 => mode # NoMode
    BY DEF NoMode
  <2>4. CASE mode = NoMode
    BY <2>2, <2>4 DEF Inv, Modes
  <2>5. CASE mode \in {0, 1}
    <3>1. PICK w \in 0 .. Len(Bytes) : out.files = <<Slice(Bytes, 0, w)>>
      BY <2>1, <2>5, OnlyFile
    <3>2. upload.parts = <<Bytes>> /\ Parts = 1
      <4>1. upload.parts = <<Bytes>>
        BY <2>1, <2>5, <2>3, InMode
      <4> QED
        BY <4>1 DEF Parts
    <3>3. status = "201" /\ LengthHolds(upload) => out.files = <<Bytes>>
      BY <2>1, <2>5, OneFile
    <3>4. IsPrefix(Slice(Bytes, 0, w), Bytes)
      <4>1. w \in 0 .. Len(Bytes) /\ Len(Bytes) \in w .. Len(Bytes) /\ 0 \in Nat
        BY Context
      <4>2. IsPrefix(Slice(Bytes, 0, w), Slice(Bytes, 0, Len(Bytes)))
        BY <4>1, Context, PrefixOfCut
      <4> QED
        BY <4>2, Context, UploadIs
    <3>5. IsPrefix(Bytes, Bytes)
      BY Context DEF IsPrefix
    <3>6. IsPrefix(Slice(Bytes, 0, w), Bytes \o Surplus)
      <4> DEFINE T == STRING \cup {CR, LF, "-", "b"}
                 x == Slice(Bytes, 0, w)
      <4>1. x \in Seq(T) /\ Bytes \in Seq(T)
        <5>1. x \in Seq(STRING) /\ Bytes \in Seq(STRING)
          BY Context, SliceType
        <5> HIDE DEF x
        <5>2. STRING \subseteq T
          OBVIOUS
        <5> HIDE DEF T
        <5> QED
          BY <5>1, <5>2, SeqInMore
      <4>2. Surplus \in Seq(T)
        BY SurplusOf
      <4>3. IsPrefix(x, Bytes)
        BY <3>4
      <4> HIDE DEF T, x
      <4>4. IsPrefix(x, Bytes \o Surplus)
        BY <4>1, <4>2, <4>3, PrefixOfMore
      <4> QED
        BY <4>4 DEF x
    <3> QED
      BY <3>1, <3>2, <3>3, <3>5, <3>6
  <2>6. CASE mode \in {2, 3}
    <3>1. PartsMeant(upload) /\ upload \in Uploads
      BY <2>6, <2>3, InMode, Context
    <3>2. ASSUME NEW j \in 1 .. Parts, Complete(j)
          PROVE  Kept(j)
      <4>1. PICK w \in 0 .. Len(Bytes) : EndsPart(j, w) /\ out.files[j] = Slice(Bytes, Begins(j), w)
        BY <3>2 DEF Complete, FileDone
      <4>2. Begins(j) <= w /\ At(j + 1) - 3 <= w /\ (j < Parts => w < At(j + 1))
        BY <4>1 DEF EndsPart
      <4> QED
        BY <3>1, <4>1, <4>2, PartAndMore
    <3>3. CASE status = "201"
      <4>1. Len(out.files) = Parts /\ \A j \in 1 .. Parts : Complete(j)
        BY <2>1, <2>6, <3>3 DEF Inv, Divided, AllStored
      <4> QED
        BY <2>2, <3>2, <4>1
    <3>4. CASE status # "201"
      <4>1. PICK i \in 0 .. Parts, q \in 0 .. fed : Stands(i, q)
        BY <2>6, <3>4 DEF Inv, Divided
      <4>2. FilesTo(i, q) /\ (i = 0 => ~h) /\ (i > 0 /\ ~h => InPart(i, q))
        BY <4>1 DEF Stands
      <4>3. /\ Len(out.files) = (IF h THEN i - 1 ELSE i)
            /\ \A j \in 1 .. i - 1 : Complete(j)
            /\ i > 0 /\ ~h => out.files[i] = Slice(Bytes, Begins(i), q)
        BY <2>1, <4>2 DEF FilesTo
      <4>4. i \in Nat /\ i <= Parts /\ Len(out.files) <= Parts
        BY <2>2, <4>2, <4>3
      <4>5. ASSUME NEW j \in 1 .. Len(out.files) PROVE Kept(j)
        <5>1. CASE j <= i - 1
          <6>1. j \in 1 .. i - 1 /\ j \in 1 .. Parts
            BY <2>2, <4>3, <4>4, <5>1
          <6> QED
            BY <3>2, <4>3, <6>1
        <5>2. CASE ~(j <= i - 1)
          <6>1. ~h /\ j = i /\ i > 0 /\ Len(out.files) = i /\ i \in 1 .. Parts
            BY <2>2, <4>3, <4>4, <5>2
          <6>2. out.files[i] = Slice(Bytes, Begins(i), q) /\ InPart(i, q)
            BY <4>2, <4>3, <6>1
          <6>3. q \in 0 .. Len(Bytes)
            BY SMTT(15), ZenonT(20), Context
          <6>4. Begins(i) <= q /\ (i < Parts => q < At(i + 1))
            <7>1. At(i + 1) \in Nat /\ q \in Nat
              BY <3>1, <6>1, <6>3, HeadPlaces
            <7>2. i < Parts => q <= At(i + 1) - 3 \/ q = At(i + 1) - 2
              BY <2>2, <6>1, <6>2 DEF InPart, Margin
            <7> QED
              BY <6>2, <7>1, <7>2 DEF InPart
          <6>5. IsPrefix(Slice(Bytes, Begins(i), q), upload.parts[i] \o Surplus)
            BY <3>1, <6>1, <6>3, <6>4, PartAndMore
          <6> QED
            BY <3>4, <6>1, <6>2, <6>5
        <5> QED
          BY <5>1, <5>2
      <4> QED
        BY <4>4, <4>5
    <3> QED
      BY <3>3, <3>4
  <2>7. mode = NoMode \/ mode \in {0, 1} \/ mode \in {2, 3}
    BY <2>1, InMode
  <2> QED
    BY <2>4, <2>5, <2>6, <2>7
<1> QED
  BY <1>1, InvHolds, PTL

-------------------------------------------------------------------------------
(***************************************************************************)
(* The promise of Sink, where an upload can keep it: files can be created, *)
(* no script reads the body, a Content-Length holds, and no piece given to *)
(* boundarry ends within the end of a boundary line, as the chunks of a    *)
(* multipart body may.                                                     *)
(***************************************************************************)
Plain(u) ==
    /\ u.dir /\ ~(u.cgi_status /\ u.target # "directory")
    /\ ~(u.ctype = "multipart" /\ u.encoding = "chunked") /\ LengthHolds(u)

\* With such requests, and such pieces, no bad end is ever met.
Unsplit == cuts = {} /\ ~is_cgi /\ (upload.encoding = "none" => pos \notin BadEnds)

\* What the code does to the stream makes its files grow.
LEMMA PrefixOfSame ==
    ASSUME NEW T, NEW s \in Seq(T)
    PROVE  IsPrefix(s, s)
<1>1. Len(s) \in Nat
  BY LenProperties
<1> QED
  BY <1>1 DEF IsPrefix

LEMMA GrowsIs ==
    /\ \A x, y : Promise!IsPrefix(x, y) <=> IsPrefix(x, y)
    /\ \A f, g : Promise!Grows(f, g) <=>
            Len(f) <= Len(g) /\ \A i \in DOMAIN f : IsPrefix(f[i], g[i])
<1>1. \A x, y : Promise!IsPrefix(x, y) <=> IsPrefix(x, y)
  BY DEF Promise!IsPrefix, IsPrefix
<1> QED
  BY <1>1 DEF Promise!Grows

LEMMA FilesStay ==
    ASSUME NEW o \in Streams
    PROVE  Promise!Grows(o.files, o.files) /\ ClosedOut(o).files = o.files
<1>1. /\ Len(o.files) \in Nat /\ DOMAIN o.files = 1 .. Len(o.files)
      /\ \A j \in 1 .. Len(o.files) : o.files[j] \in Seq(STRING)
  BY LenProperties, ElementOfSeq DEF Streams
<1>2. \A j \in DOMAIN o.files : IsPrefix(o.files[j], o.files[j])
  BY <1>1, PrefixOfSame
<1> QED
  BY <1>1, <1>2, GrowsIs DEF ClosedOut

LEMMA FilesGrow ==
    ASSUME NEW o \in Streams, NEW s \in Seq(STRING)
    PROVE  Write(o, s) \in Streams /\ Promise!Grows(o.files, Write(o, s).files)
<1> DEFINE n == Len(o.files)
           G == Write(o, s).files
<1>1. /\ n \in Nat /\ DOMAIN o.files = 1 .. n
      /\ \A j \in 1 .. n : o.files[j] \in Seq(STRING)
  BY LenProperties, ElementOfSeq DEF Streams
<1>2. /\ Write(o, s) \in Streams /\ Len(G) = n
      /\ \A j \in 1 .. n : G[j] = IF o.is_open /\ j = n THEN o.files[j] \o s ELSE o.files[j]
  BY WriteType DEF Streams
<1> HIDE DEF G, n
<1>3. ASSUME NEW j \in 1 .. n PROVE IsPrefix(o.files[j], G[j])
  <2> DEFINE x == o.files[j]
  <2>1. x \in Seq(STRING)
    BY <1>1
  <2>2. IsPrefix(x, x)
    BY <2>1, PrefixOfSame
  <2>3. G[j] = x \o s \/ G[j] = x
    BY <1>2
  <2> HIDE DEF x
  <2>4. IsPrefix(x, x \o s)
    BY <2>1, <2>2, PrefixOfMore
  <2>5. IsPrefix(x, G[j])
    BY <2>2, <2>3, <2>4
  <2> QED
    BY <2>5 DEF x
<1> QED
  BY SMTT(15), ZenonT(20), <1>1, <1>2, <1>3, GrowsIs DEF G, n

LEMMA FilesAdded ==
    ASSUME out \in Streams, upload.dir, NEW s \in Seq(STRING)
    PROVE  /\ NewFile(out) \in Streams
           /\ Promise!Grows(out.files, NewFile(out).files)
           /\ Promise!Grows(out.files, Write(NewFile(out), s).files)
<1> DEFINE F == out.files
           N == NewFile(out)
           n == Len(F)
           G == N.files
           W == Write(N, s).files
<1>1. F \in Seq(Seq(STRING)) /\ out.is_open \in BOOLEAN
  BY DEF Streams
<1>2. N = [is_open |-> TRUE, files |-> Append(F, <<>>)]
  BY DEF NewFile
<1>3. n \in Nat /\ DOMAIN F = 1 .. n /\ \A j \in 1 .. n : F[j] \in Seq(STRING)
  BY <1>1, LenProperties, ElementOfSeq
<1>4. G \in Seq(Seq(STRING)) /\ Len(G) = n + 1 /\ \A j \in 1 .. n : G[j] = F[j]
  <2>1. <<>> \in Seq(STRING)
    OBVIOUS
  <2>2. G = Append(F, <<>>)
    BY <1>2
  <2> QED
    BY <1>1, <2>1, <2>2, AppendProperties
<1>5. N \in Streams
  <2>1. N = [is_open |-> TRUE, files |-> G]
    BY <1>2
  <2> HIDE DEF N, G
  <2> QED
    BY <1>4, <2>1 DEF Streams
<1>6. Len(W) = Len(G) /\ \A j \in 1 .. n : W[j] = F[j]
  <2> HIDE DEF N
  <2>1. /\ Len(W) = Len(G)
        /\ \A j \in 1 .. Len(G) : W[j] = IF N.is_open /\ j = Len(G) THEN G[j] \o s ELSE G[j]
    BY <1>5, WriteType DEF Streams
  <2> HIDE DEF G, W, F, n
  <2>2. \A j \in 1 .. n : j \in 1 .. Len(G) /\ j # Len(G)
    BY <1>3, <1>4
  <2> QED
    BY <1>4, <2>1, <2>2
<1> HIDE DEF F, N, G, W, n
<1>7. \A j \in 1 .. n : IsPrefix(F[j], G[j]) /\ IsPrefix(F[j], W[j])
  BY <1>3, <1>4, <1>6, PrefixOfSame
<1>8. Promise!Grows(F, G) /\ Promise!Grows(F, W)
  <2>1. n <= Len(G) /\ n <= Len(W)
    BY <1>3, <1>4, <1>6
  <2> QED
    BY <1>3, <1>7, <2>1, GrowsIs DEF n
<1> QED
  BY <1>5, <1>8 DEF F, G, W, N

\* What set_headers and raw leave of a text are texts.
LEMMA HeadersType ==
    ASSUME NEW b \in Seq(STRING)
    PROVE  LET r == SetHeaders(b)
           IN  r.body \in Seq(STRING) /\ WithoutEnd(r.body) \in Seq(STRING)
<1> DEFINE r == SetHeaders(b)
           ends == IF h THEN Finds(b, CRLF) ELSE {}
           blank == {e \in ends : LineOf(b, e) = <<>>}
           done == IF blank = {} THEN ends ELSE {e \in ends : e <= Min(blank)}
<1>1. r.body = IF done = {} THEN b ELSE Drop(b, Max(done) + 1)
  BY DEF SetHeaders
<1>2. Len(b) \in Nat /\ done \subseteq Finds(b, CRLF) /\ Len(CRLF) = 2
  BY LenProperties, Markers
<1> HIDE DEF r, done
<1>3. done # {} => Max(done) + 1 \in 0 .. Len(b)
  <2> SUFFICES ASSUME done # {} PROVE Max(done) + 1 \in 0 .. Len(b)
    OBVIOUS
  <2>1. /\ Finds(b, CRLF) \subseteq 1 .. Len(b)
        /\ \A i \in Finds(b, CRLF) : i + 2 - 1 <= Len(b)
    BY <1>2, FindsWithin
  <2>2. done \subseteq 0 .. Len(b)
    BY <1>2, <2>1
  <2>3. Max(done) \in done
    BY <1>2, <2>2, MaxNat
  <2> DEFINE m == Max(done)
  <2>4. m \in 1 .. Len(b) /\ m + 2 - 1 <= Len(b)
    BY <1>2, <2>1, <2>3
  <2> HIDE DEF m
  <2>5. m + 1 \in 0 .. Len(b)
    BY <1>2, <2>4
  <2> QED
    BY <2>5 DEF m
<1>4. r.body \in Seq(STRING)
  <2> DEFINE m == Max(done) + 1
  <2>1. done # {} => m \in 0 .. Len(b)
    BY <1>3
  <2>2. r.body = IF done = {} THEN b ELSE Drop(b, m)
    BY <1>1
  <2> HIDE DEF m
  <2> QED
    BY <2>1, <2>2, DropType
<1>5. WithoutEnd(r.body) \in Seq(STRING)
  <2> DEFINE x == r.body
             k == Len(x) - 2
  <2>1. x \in Seq(STRING) /\ Len(x) \in Nat
    BY <1>4, LenProperties
  <2>2. Len(x) >= 2 => k \in 0 .. Len(x)
    BY <2>1
  <2> HIDE DEF x, k
  <2>3. Len(x) >= 2 => Take(x, k) \in Seq(STRING)
    BY <2>1, <2>2, TakeType
  <2>4. WithoutEnd(x) \in Seq(STRING)
    BY <2>1, <2>3 DEF WithoutEnd, k
  <2> QED
    BY <2>4 DEF x
<1> QED
  BY <1>4, <1>5 DEF r

(***************************************************************************)
(* Every step leaves the files or makes them grow, and leaves them when it *)
(* refuses the request.                                                    *)
(***************************************************************************)
Grown ==
    /\ status = "more" /\ UNCHANGED upload
    /\ Promise!Grows(out.files, out'.files)
    /\ status' \notin {"more", "201"} => out' = out

LEMMA StepsGrow ==
    ASSUME Inv, Plain(upload), ~is_cgi, Next
    PROVE  Grown
<1>1. /\ out \in Streams /\ upload.dir /\ body \in Seq(STRING) /\ rest \in Seq(STRING)
      /\ brest \in Seq(STRING) /\ upload \in Uploads /\ max_size \in Nat /\ chunked_size \in Nat
      /\ (pc # "recv" => status = "more") /\ mode # 4
  <2>1. pc # "recv" => status = "more"
    BY DEF Inv, Modes
  <2>2. mode # 4
    BY InMode DEF NoMode
  <2> QED
    BY <2>1, <2>2, Context DEF Streams, Plain
<1>2. Len(body) \in Nat /\ Len(rest) \in Nat
  BY <1>1, LenProperties
<1>3. Promise!Grows(out.files, out.files) /\ ClosedOut(out).files = out.files
  BY <1>1, FilesStay
<1>4. ASSUME NEW s \in Seq(STRING)
      PROVE  /\ Write(out, s) \in Streams /\ Promise!Grows(out.files, Write(out, s).files)
             /\ ClosedOut(Write(out, s)).files = Write(out, s).files
  BY <1>1, FilesGrow, FilesStay
<1>5. ASSUME NEW s \in Seq(STRING), NEW r
      PROVE  Promise!Grows(out.files, Write(OutAfter(r), s).files)
  BY <1>1, <1>4, FilesAdded DEF OutAfter
<1>6. ASSUME NEW o PROVE ClosedOut(o).files = o.files
  BY DEF ClosedOut
<1>7. CASE PostRequest
  <2>1. UNCHANGED <<upload, status, out>> /\ status = "more"
    BY <1>7 DEF PostRequest
  <2> QED
    BY <1>3, <2>1 DEF Grown
<1>8. CASE InitPost
  <2>1. UNCHANGED upload /\ status = "more" /\ (out' = out \/ (out' = NewFile(out) /\ UNCHANGED status))
    BY <1>1, <1>8 DEF InitPost, callVars
  <2>2. Promise!Grows(out.files, NewFile(out).files)
    <3>1. <<>> \in Seq(STRING)
      OBVIOUS
    <3> QED
      BY <1>1, <3>1, FilesAdded
  <2> QED
    BY <1>3, <2>1, <2>2 DEF Grown
<1>9. CASE SizeLineMissing
  <2>1. UNCHANGED <<upload, out>> /\ status = "more"
    BY <1>1, <1>9 DEF SizeLineMissing, callVars
  <2> QED
    BY <1>3, <2>1 DEF Grown
<1>10. CASE SizeLineFound
  <2>1. UNCHANGED upload /\ status = "more"
        /\ (out' = out \/ (status' = "201" /\ out' = ClosedOut(out)))
    BY <1>1, <1>10 DEF SizeLineFound, callVars, Throw
  <2> QED
    BY <1>3, <2>1 DEF Grown
<1>11. CASE ChunkData
  <2>1. UNCHANGED <<upload, status>> /\ status = "more"
        /\ (out' = out \/ out' = Write(out, Take(rest, PieceLength)))
    BY <1>1, <1>11 DEF ChunkData, callVars
  <2>2. PieceLength \in 0 .. Len(rest)
    BY <1>1, <1>2 DEF PieceLength
  <2>3. Take(rest, PieceLength) \in Seq(STRING)
    BY <1>1, <2>2, TakeType
  <2> QED
    BY <1>1, <1>3, <1>4, <2>1, <2>3 DEF Grown
<1>12. CASE PartEnds
  <2> DEFINE r == SetHeaders(Take(body, Min(Finds(body, StartLine)) - 1))
  <2>1. UNCHANGED upload /\ status = "more"
        /\ (out' = out \/ (out' = Write(OutAfter(r), WithoutEnd(r.body)) /\ UNCHANGED status))
    BY <1>1, <1>12 DEF PartEnds, callVars
  <2>2. Take(body, Min(Finds(body, StartLine)) - 1) \in Seq(STRING)
    <3>1. Finds(body, StartLine) # {}
      BY <1>12 DEF PartEnds
    <3>2. Min(Finds(body, StartLine)) \in 1 .. Len(body)
      BY <1>1, <3>1, FirstFound, FindsWithin
    <3>3. Min(Finds(body, StartLine)) - 1 \in 0 .. Len(body)
      BY <1>2, <3>2
    <3> QED
      BY <1>1, <3>3, TakeType
  <2>3. WithoutEnd(r.body) \in Seq(STRING)
    BY <2>2, HeadersType
  <2> HIDE DEF r
  <2> QED
    BY <1>1, <1>3, <1>5, <2>1, <2>3 DEF Grown
<1>13. CASE BodyEnds
  <2> DEFINE r == SetHeaders(Take(body, Min(Finds(body, LastLine)) - 1))
  <2>1. /\ UNCHANGED upload /\ status = "more"
        /\ \/ out' = out
           \/ out' = ClosedOut(Write(OutAfter(r), WithoutEnd(r.body))) /\ status' = "201"
    BY <1>1, <1>13 DEF BodyEnds, callVars, Throw
  <2>2. Take(body, Min(Finds(body, LastLine)) - 1) \in Seq(STRING)
    <3>1. Finds(body, LastLine) # {}
      BY <1>13 DEF BodyEnds
    <3>2. Min(Finds(body, LastLine)) \in 1 .. Len(body)
      BY <1>1, <3>1, FirstFound, FindsWithin
    <3>3. Min(Finds(body, LastLine)) - 1 \in 0 .. Len(body)
      BY <1>2, <3>2
    <3> QED
      BY <1>1, <3>3, TakeType
  <2>3. WithoutEnd(r.body) \in Seq(STRING)
    BY <2>2, HeadersType
  <2> HIDE DEF r
  <2>4. Promise!Grows(out.files, Write(OutAfter(r), WithoutEnd(r.body)).files)
    BY <1>5, <2>3
  <2> QED
    BY <1>3, <1>6, <2>1, <2>4 DEF Grown
<1>14. CASE PartGoesOn
  <2> DEFINE r == SetHeaders(body)
             keep == IF h /\ ~r.created THEN Len(r.body) ELSE HeldBack(r.body)
             s == Take(r.body, Len(r.body) - keep)
  <2>1. UNCHANGED upload /\ status = "more"
        /\ (out' = out \/ (out' = Write(OutAfter(r), s) /\ UNCHANGED status))
    BY <1>1, <1>14 DEF PartGoesOn, callVars
  <2>2. r.body \in Seq(STRING)
    BY <1>1, HeadersType
  <2> HIDE DEF r
  <2>3. Len(r.body) - keep \in 0 .. Len(r.body)
    <3> DEFINE l == Len(r.body)
    <3>1. l \in Nat
      BY <2>2, LenProperties
    <3>2. keep = l \/ (keep = 5 /\ ~(l <= 5))
      BY Markers DEF HeldBack
    <3> HIDE DEF l, keep
    <3>3. l - keep \in 0 .. l
      BY <3>1, <3>2
    <3> QED
      BY <3>3 DEF l
  <2> HIDE DEF keep
  <2>4. s \in Seq(STRING)
    BY <2>2, <2>3, TakeType
  <2> HIDE DEF s
  <2> QED
    BY <1>1, <1>3, <1>5, <2>1, <2>4 DEF Grown
<1>15. CASE RawCounted
  <2> DEFINE n == IF max_size < Len(body) THEN max_size ELSE Len(body)
             w == Write(out, Take(body, n))
  <2>1. /\ UNCHANGED upload /\ status = "more"
        /\ (out' = w /\ UNCHANGED status) \/ (out' = ClosedOut(w) /\ status' = "201")
    BY <1>1, <1>15 DEF RawCounted, callVars, Throw
  <2>2. n \in 0 .. Len(body)
    BY <1>1, <1>2
  <2>3. Take(body, n) \in Seq(STRING)
    BY <1>1, <2>2, TakeType
  <2>4. Promise!Grows(out.files, w.files)
    BY <1>4, <2>3
  <2> HIDE DEF w
  <2> QED
    BY <1>6, <2>1, <2>4 DEF Grown
<1>16. CASE RawMultipart
  BY <1>1, <1>16 DEF RawMultipart
<1> QED
  BY <1>7, <1>8, <1>9, <1>10, <1>11, <1>12, <1>13, <1>14, <1>15, <1>16 DEF Next

\* The places of bad ends are within the body.
LEMMA NoBadStart ==
    ASSUME upload \in Uploads
    PROVE  0 \notin BadEnds
<1>1. Len(StartLine) = 5 /\ Len(LastLine) = 7 /\ upload.body \in Seq(STRING)
  BY Markers, UploadIs DEF Bytes
<1>2. \A i \in Finds(upload.body, StartLine) \cup Finds(upload.body, LastLine) : i \in Nat
  BY <1>1, FindsWithin
<1>3. 0 \notin {i + Len(StartLine) - 2 : i \in Finds(upload.body, StartLine) \ {1}}
  BY <1>1, <1>2
<1>4. \A i \in Finds(upload.body, LastLine) :
          0 \notin i + Len(LastLine) - 4 .. i + Len(LastLine) - 2
  BY <1>1, <1>2
<1> QED
  BY <1>3, <1>4 DEF BadEnds

LEMMA UnsplitNext ==
    ASSUME Inv, ~SplitMarkers, Plain(upload), Unsplit, [Next]_vars
    PROVE  Unsplit'
<1>1. UNCHANGED upload
  BY DEF Next, PostRequest, InitPost, SizeLineMissing, SizeLineFound, ChunkData, PartEnds,
         BodyEnds, PartGoesOn, RawCounted, RawMultipart, vars, callVars
<1>2. BadEnds' = BadEnds
  BY <1>1, SameRequest
<1>3. CASE PostRequest
  <2>1. UNCHANGED <<cuts, is_cgi>>
    BY <1>3 DEF PostRequest, modeVars
  <2>2. upload.encoding = "none" => pos' \notin BadEnds
    BY <1>3 DEF PostRequest
  <2> QED
    BY <1>1, <1>2, <2>1, <2>2 DEF Unsplit
<1>4. CASE InitPost
  <2>1. UNCHANGED <<cuts, pos>>
    BY <1>4 DEF InitPost, callVars, history
  <2>2. "cgi" \notin ParseUri(upload)
    <3>1. upload.policy \in {"none", "refused", "no upload", "no path", "upload"}
      BY Context DEF Upload
    <3>2. CASE upload.policy \in {"none", "refused"}
      BY <3>2 DEF ParseUri
    <3>3. CASE upload.policy \notin {"none", "refused"}
      <4> DEFINE A == {"cgi" : x \in {y \in {upload} : y.cgi_status /\ y.target # "directory"}}
                 Where == CASE upload.policy = "upload"    -> "upload"
                            [] upload.policy = "no path"   -> "500"
                            [] upload.policy = "no upload" -> "403"
                 B == {Where : x \in {y \in {upload} : ~(y.cgi_status /\ y.target = "file")}}
      <4>1. ParseUri(upload) \subseteq A \cup B
        BY <3>1, <3>3 DEF ParseUri
      <4>2. A = {}
        BY DEF Plain
      <4>3. Where # "cgi"
        BY <3>1, <3>3
      <4> HIDE DEF Where
      <4> QED
        BY <4>1, <4>2, <4>3
    <3> QED
      BY <3>2, <3>3
  <2>3. is_cgi' = FALSE
    <3>1. \E where \in ParseUri(upload) : is_cgi' = is_cgi \/ is_cgi' = (where = "cgi")
      BY <1>4 DEF InitPost, modeVars
    <3>2. PICK where : where \in ParseUri(upload) /\ (is_cgi' = is_cgi \/ is_cgi' = (where = "cgi"))
      BY <3>1
    <3>3. where # "cgi"
      BY <2>2, <3>2
    <3>4. is_cgi = FALSE
      BY Context DEF Unsplit
    <3>5. (where = "cgi") = FALSE
      BY <3>3
    <3> QED
      BY <3>2, <3>4, <3>5, Zenon
  <2> QED
    BY <1>1, <1>2, <2>1, <2>3 DEF Unsplit
<1>5. CASE PartGoesOn
  <2>1. UNCHANGED <<pos, is_cgi>> /\ cuts' = cuts \cup ({fed} \cap BadEnds) /\ pc = "boundarry"
    BY <1>5 DEF PartGoesOn, callVars, modeVars
  <2>2. upload.encoding = "none" /\ fed = pos
    <3>1. mode \in {2, 3} /\ mode # NoMode
      BY <2>1 DEF Inv, Modes, NoMode
    <3>2. mode = 3 => upload.encoding = "chunked" /\ upload.ctype = "multipart"
      BY <3>1 DEF Inv, Modes, ModeOf
    <3>3. mode = 2
      BY <3>1, <3>2 DEF Plain
    <3>4. upload.encoding = "none"
      BY <3>1, <3>3, InMode
    <3> QED
      BY <3>4 DEF Inv, Modes
  <2>3. cuts' = {}
    BY <2>1, <2>2 DEF Unsplit
  <2> QED
    BY <1>1, <1>2, <2>1, <2>3 DEF Unsplit
<1>6. CASE SizeLineMissing \/ SizeLineFound \/ ChunkData \/ PartEnds \/ BodyEnds
           \/ RawCounted \/ RawMultipart \/ UNCHANGED vars
  <2>1. UNCHANGED <<pos, is_cgi, cuts>>
    BY <1>6 DEF SizeLineMissing, SizeLineFound, ChunkData, PartEnds, BodyEnds, RawCounted,
               RawMultipart, vars, callVars, modeVars, history
  <2> QED
    BY <1>1, <1>2, <2>1 DEF Unsplit
<1> QED
  BY <1>3, <1>4, <1>5, <1>6 DEF Next

(***************************************************************************)
(* The files of such an upload are on the way to what its sender means,    *)
(* and there when it is answered with 201.                                 *)
(***************************************************************************)
Promised == Promise!OnTheWay(out.files) /\ (status = "201" => out.files = upload.parts)

LEMMA FilesOnTheWay ==
    ASSUME Inv, Plain(upload), Unsplit
    PROVE  Promised
<1>1. upload.dir /\ ~is_cgi /\ cuts = {} /\ upload \in Uploads /\ LengthHolds(upload)
  BY Context DEF Plain, Unsplit
<1>2. status = "201" => out.files = upload.parts
  BY <1>1, ExactWhenDone DEF FilesExact, Stored
<1>3. /\ upload.parts \in Seq(Seq(STRING)) /\ Parts \in Nat
      /\ \A j \in 1 .. Parts : upload.parts[j] \in Seq(STRING)
      /\ DOMAIN out.files = 1 .. Len(out.files) /\ Len(out.files) \in Nat
  <2> DEFINE T == Seq(STRING)
             F == upload.parts
             G == out.files
  <2>1. F \in Seq(T) /\ G \in Seq(T)
    BY Context DEF Upload
  <2> HIDE DEF T, F, G
  <2>2. /\ Len(F) \in Nat /\ \A j \in 1 .. Len(F) : F[j] \in T
        /\ DOMAIN G = 1 .. Len(G) /\ Len(G) \in Nat
    BY <2>1, LenProperties, ElementOfSeq
  <2> QED
    BY <2>1, <2>2 DEF F, G, T, Parts
<1>4. \A j \in 1 .. Parts : IsPrefix(upload.parts[j], upload.parts[j])
  BY <1>3, PrefixOfSame
<1> DEFINE Kept(j) == /\ IsPrefix(out.files[j], upload.parts[j])
                      /\ j < Len(out.files) => out.files[j] = upload.parts[j]
<1>5. Len(out.files) <= Parts /\ \A j \in 1 .. Len(out.files) : Kept(j)
  <2>1. CASE status = "201"
    <3>1. out.files = upload.parts /\ Len(out.files) = Parts
      BY <1>2, <2>1 DEF Parts
    <3> QED
      BY <1>3, <1>4, <3>1
  <2>2. CASE mode = NoMode
    BY <1>3, <2>2 DEF Inv, Modes
  <2>3. CASE mode \in {0, 1}
    <3>1. PICK w \in 0 .. Len(Bytes) : out.files = <<Slice(Bytes, 0, w)>>
      BY <1>1, <2>3, OnlyFile
    <3>2. upload.parts = <<Bytes>> /\ Parts = 1
      <4>1. mode # NoMode
        BY <2>3 DEF NoMode
      <4>2. upload.parts = <<Bytes>>
        BY <1>1, <2>3, <4>1, InMode
      <4> QED
        BY <4>2 DEF Parts
    <3>3. IsPrefix(Slice(Bytes, 0, w), Bytes)
      <4>1. w \in 0 .. Len(Bytes) /\ Len(Bytes) \in w .. Len(Bytes) /\ 0 \in Nat
        BY Context
      <4>2. IsPrefix(Slice(Bytes, 0, w), Slice(Bytes, 0, Len(Bytes)))
        BY <4>1, Context, PrefixOfCut
      <4> QED
        BY <4>2, Context, UploadIs
    <3> QED
      BY <3>1, <3>2, <3>3
  <2>4. CASE mode \in {2, 3} /\ status # "201"
    <3>1. PartsMeant(upload)
      <4>1. mode # NoMode
        BY <2>4 DEF NoMode
      <4> QED
        BY <2>4, <4>1, InMode
    <3>2. PICK i \in 0 .. Parts, q \in 0 .. fed : Stands(i, q)
      BY <2>4 DEF Inv, Divided
    <3>3. FilesTo(i, q) /\ (i = 0 => ~h) /\ (i > 0 /\ ~h => InPart(i, q))
      BY <3>2 DEF Stands
    <3>4. /\ Len(out.files) = (IF h THEN i - 1 ELSE i)
          /\ \A j \in 1 .. i - 1 : Complete(j)
          /\ i > 0 /\ ~h => out.files[i] = Slice(Bytes, Begins(i), q)
      BY <1>1, <3>3 DEF FilesTo
    <3>5. i \in Nat /\ i <= Parts /\ Len(out.files) <= Parts
      BY <1>3, <3>3, <3>4
    <3>6. ASSUME NEW j \in 1 .. i - 1 PROVE out.files[j] = upload.parts[j]
      <4>1. j \in 1 .. Parts
        BY <1>3, <3>5
      <4>2. out.files[j] = Slice(Bytes, Begins(j), At(j + 1) - 3)
        BY <1>1, <3>4, <3>6 DEF Complete, FileDone, EndsPart
      <4> QED
        BY <1>1, <3>1, <4>1, <4>2, HeadPlaces
    <3>7. ASSUME NEW j \in 1 .. Len(out.files) PROVE Kept(j)
      <4>1. CASE j <= i - 1
        <5>1. j \in 1 .. i - 1 /\ j \in 1 .. Parts
          BY <1>3, <3>4, <3>5, <4>1
        <5> QED
          BY <1>4, <3>6, <5>1
      <4>2. CASE ~(j <= i - 1)
        <5>1. ~h /\ j = i /\ i > 0 /\ Len(out.files) = i /\ i \in 1 .. Parts
          BY <1>3, <3>4, <3>5, <4>2
        <5>2. out.files[i] = Slice(Bytes, Begins(i), q) /\ Begins(i) <= q /\ q <= At(i + 1) - 3
          BY <1>1, <3>3, <3>4, <5>1 DEF InPart, Margin
        <5>3. q \in 0 .. Len(Bytes)
          BY SMTT(15), ZenonT(20), Context
        <5>4. IsPrefix(Slice(Bytes, Begins(i), q), upload.parts[i])
          BY <1>1, <3>1, <5>1, <5>2, <5>3, PartAndMore
        <5> QED
          BY <5>1, <5>2, <5>4
      <4> QED
        BY <4>1, <4>2
    <3> QED
      BY <3>5, <3>7
  <2>5. mode = NoMode \/ mode \in {0, 1} \/ mode \in {2, 3}
    BY <1>1, InMode
  <2> QED
    BY <2>1, <2>2, <2>3, <2>4, <2>5
<1> QED
  BY <1>2, <1>3, <1>5, GrowsIs DEF Promised, Promise!OnTheWay, Parts

(***************************************************************************)
(* Uploads of these kinds, of any content, keep the promise of Sink,       *)
(* whatever way recv and the chunks cut them as long as no piece ends      *)
(* within the end of a boundary line; with a Content-Length they are not   *)
(* longer than an int can say, otherwise as long as you like.              *)
(***************************************************************************)
THEOREM UploadsKeepPromise ==
    ASSUME ~SplitMarkers, \A u \in Uploads : Plain(u)
    PROVE  Spec => KeepsPromise
<1>1. Init => Unsplit
  BY NoBadStart DEF Init, Unsplit
<1>2. Inv /\ Unsplit /\ [Next]_vars => Unsplit'
  <2>1. Inv => Plain(upload)
    BY Context
  <2> QED
    BY <2>1, UnsplitNext
<1>3. Inv /\ Unsplit => Promised
  BY FilesOnTheWay, Context
<1>4. Init => Promise!Init
  BY DEF Init, Promise!Init
<1>5. Inv /\ Unsplit /\ Promised' /\ [Next]_vars
      => [Promise!Next]_<<upload.parts, out.files, status>>
  <2> SUFFICES ASSUME Inv, Unsplit, Promised', [Next]_vars
               PROVE  [Promise!Next]_<<upload.parts, out.files, status>>
    OBVIOUS
  <2>1. Plain(upload) /\ ~is_cgi
    BY Context DEF Unsplit
  <2>2. CASE UNCHANGED vars
    BY <2>2 DEF vars, callVars
  <2>3. CASE Next
    <3>1. /\ status = "more" /\ UNCHANGED upload
          /\ Promise!Grows(out.files, out'.files)
          /\ status' \notin {"more", "201"} => out' = out
      BY <2>1, <2>3, StepsGrow DEF Grown
    <3>2. Promise!OnTheWay(out'.files) /\ (status' = "201" => out'.files = upload.parts)
      BY <3>1 DEF Promised, Promise!OnTheWay
    <3>3. CASE status' = "more"
      BY <3>1, <3>2, <3>3 DEF Promise!Next, Promise!Store
    <3>4. CASE status' = "201"
      BY <3>1, <3>2, <3>4 DEF Promise!Next, Promise!Created
    <3>5. CASE status' \notin {"more", "201"}
      BY <3>1, <3>5 DEF Promise!Next, Promise!Refuse
    <3> QED
      BY <3>3, <3>4, <3>5
  <2> QED
    BY <2>2, <2>3
<1> QED
  BY <1>1, <1>2, <1>3, <1>4, <1>5, InvHolds, PTL DEF Spec, KeepsPromise, Promise!Spec
===============================================================================
