------------------------------- MODULE Image --------------------------------
(***************************************************************************)
(* internal/bootloader/firmware.go: what a document is read as.            *)
(*                                                                         *)
(* A firmware image arrives as JSON from the vendor's service or a file,   *)
(* or as a raw binary, and leaves as pages of equal length.  Nothing after *)
(* the first page is written can undo a wrong split or a wrong order: the  *)
(* device sums what it was told to write.                                  *)
(*                                                                         *)
(* A document is the tree a JSON decoder sees.  A text of bytes is the     *)
(* bytes it encodes, how (hex, hex "marked" with 0x, base64, or base64     *)
(* "raw", without its padding), and whether its last character was cut     *)
(* off.  An optional number is a set of at most one.                       *)
(***************************************************************************)
EXTENDS Integers, FiniteSets, SequencesExt

CONSTANTS
  ChunksPerPage,    \* chunks a page is written in
  MaxChunkSize,     \* bytes a WRITE_CHUNK frame has room for
  MaxPages,         \* pages a 16-bit page number can address
  DefaultPageSize,  \* bytes of a page when nothing says otherwise
  MaxVersionLen     \* characters of a version that are kept

ASSUME ImageAssumption ==
  /\ {ChunksPerPage, MaxChunkSize, MaxPages, MaxVersionLen} \subseteq Nat \ {0}
  /\ DefaultPageSize \in 1 .. ChunksPerPage * MaxChunkSize
  /\ DefaultPageSize % ChunksPerPage = 0

MaxPageSize == ChunksPerPage * MaxChunkSize
RawImagePad == 255

\* Every step of the reading yields something or refuses.
No == [ok |-> FALSE]
Yes(b) == [ok |-> TRUE, bytes |-> b]
Pages(p) == [ok |-> TRUE, pages |-> p]

ValidPageSize(n) == n > 0 /\ n % ChunksPerPage = 0 /\ n <= MaxPageSize
EffectivePageSize(n) == IF n = 0 THEN DefaultPageSize ELSE n

(* Bytes *)

\* A character of base64 is the number it stands for: A to Z, a to z, 0 to 9, + and /.
\* This is number q, from 0, of what encodes the bytes b.
Sextet(b, q) ==
  LET at(i) == IF i <= Len(b) THEN b[i] ELSE 0
      g == 3 * (q \div 4)
  IN  CASE q % 4 = 0 -> at(g + 1) \div 4
        [] q % 4 = 1 -> (at(g + 1) % 4) * 16 + at(g + 2) \div 16
        [] q % 4 = 2 -> (at(g + 2) % 16) * 4 + at(g + 3) \div 64
        [] OTHER -> at(g + 3) % 64

\* The "=" at the end, and the characters before it, of a text that may be cut.
Padding(s) == IF s.enc = "base64" THEN (3 - (Len(s.bytes) % 3)) % 3 ELSE 0
PaddingLeft(s) == IF s.cut /\ Padding(s) > 0 THEN Padding(s) - 1 ELSE Padding(s)
DigitsLeft(s) ==
  (4 * Len(s.bytes) + 2) \div 3 - (IF s.cut /\ Padding(s) = 0 THEN 1 ELSE 0)
Digits(s) == [q \in 1 .. DigitsLeft(s) |-> Sextet(s.bytes, q - 1)]

\* A to F, a to f and 0 to 9 are digits of hex as well.
HexDigit == 0 .. 5 \cup 26 .. 31 \cup 52 .. 61
Nibble(c) == IF c < 6 THEN c + 10 ELSE IF c < 32 THEN c - 16 ELSE c - 52

\* A leading "0x" or "0X" marks hex only before hex: elsewhere it is data.
HexBody(d) == IF Len(d) >= 2 /\ d[1] = 52 /\ d[2] \in {49, 23} THEN SubSeq(d, 3, Len(d)) ELSE d

\* Base64 that happens to consist of hex digits is hex.
SpellsHex(s) ==
  LET body == HexBody(Digits(s))
  IN  PaddingLeft(s) = 0 /\ body # <<>> /\ \A i \in 1 .. Len(body) : body[i] \in HexDigit

\* An odd number of hex digits is a damaged dump.
DecodeHex(h) ==
  IF Len(h) % 2 = 0
  THEN Yes([i \in 1 .. Len(h) \div 2 |-> 16 * Nibble(h[2 * i - 1]) + Nibble(h[2 * i])])
  ELSE No

\* With its padding or with none, base64 yields the bytes its characters fill.
DecodeBase64(s) ==
  LET m == DigitsLeft(s)
      p == PaddingLeft(s)
  IN  IF (p = 0 /\ m % 4 # 1) \/ (p > 0 /\ (m % 4) + p = 4)
      THEN Yes(SubSeq(s.bytes, 1, (3 * m) \div 4))
      ELSE No

\* A marker and nothing after it, "0x", is base64 for one byte.
DecodeByteString(s) ==
  CASE s.enc = "marked" /\ s.bytes = <<>> /\ ~s.cut -> Yes(<<211>>)
    [] s.enc \in {"hex", "marked"} /\ s.bytes # <<>> /\ ~s.cut -> Yes(s.bytes)
    [] s.enc \in {"base64", "raw"} /\ s.bytes # <<>>
         -> IF SpellsHex(s) THEN DecodeHex(HexBody(Digits(s))) ELSE DecodeBase64(s)
    [] OTHER -> No

DecodeByteArray(v, max) ==
  IF Len(v) <= max /\ \A i \in 1 .. Len(v) : v[i] \in 0 .. 255 THEN Yes(v) ELSE No

DecodeChunk(v) ==
  CASE v.t = "numbers" -> DecodeByteArray(v.v, MaxPageSize)
    [] v.t = "text" -> DecodeByteString(v.text)
    [] OTHER -> No

DecodeChunkedPage(e) ==
  LET chunk == [i \in DOMAIN e.chunks |-> DecodeChunk(e.chunks[i])]
  IN  IF DOMAIN e.chunks = 0 .. ChunksPerPage - 1 /\ \A i \in DOMAIN chunk : chunk[i].ok
      THEN Yes(FlattenSeq([i \in 1 .. ChunksPerPage |-> chunk[i - 1].bytes]))
      ELSE No

DecodePage(e) == IF e.t = "page" THEN DecodeChunkedPage(e) ELSE DecodeChunk(e)

(* Pages *)

StatedId(e) == IF e.t = "page" THEN e.id ELSE {}

\* Mutant of OrderByPageID: the order of the array is taken for the order in flash.
ArrayOrder(ids, pages) == Pages(pages)

\* Where pages state their numbers the numbers decide, and there must be one of each.
OrderByPageID(ids, pages) ==
  LET n == Len(ids) IN
  CASE \A i \in 1 .. n : ids[i] = {} -> Pages(pages)
    [] {ids[i] : i \in 1 .. n} = {{k} : k \in 0 .. n - 1}
         -> Pages([k \in 1 .. n |-> pages[CHOOSE i \in 1 .. n : ids[i] = {k - 1}]])
    [] OTHER -> No

\* A version is characters: "c" is any other that can be printed, "esc" any
\* that cannot.
Chars == {"c", "dot", "blank", "esc"}
Printable == Chars \ {"esc"}

TrimSpace(t) ==
  LET ends == {i \in 1 .. Len(t) : t[i] # "blank"}
  IN  IF ends = {} THEN <<>> ELSE SubSeq(t, Min(ends), Max(ends))

\* Its place number k.
Nth(places, k) == CHOOSE i \in places : Cardinality({j \in places : j <= i}) = k

\* The first characters that can be printed, trimmed, and dots where there were more.
PrintableASCII(s, max) ==
  LET kept == {i \in 1 .. Len(s) : s[i] \in Printable}
      n == Cardinality(kept)
      text == TrimSpace([k \in 1 .. (IF n < max THEN n ELSE max) |-> s[Nth(kept, k)]])
  IN  IF n > max THEN text \o <<"dot", "dot", "dot">> ELSE text

\* The guard before anything is written.
NewFirmware(pages, version, crc) ==
  IF /\ Len(pages) \in 1 .. MaxPages
     /\ \A i \in 1 .. Len(pages) : Len(pages[i]) = Len(pages[1])
     /\ ValidPageSize(Len(pages[1]))
  THEN [ok |-> TRUE, pages |-> pages, version |-> PrintableASCII(version, MaxVersionLen), crc |-> crc]
  ELSE No

\* The last page is filled up with what erased flash reads as.
SplitFlat(data, size) ==
  LET count == (Len(data) + size - 1) \div size
      Byte(i) == IF i <= Len(data) THEN data[i] ELSE RawImagePad
  IN  [k \in 1 .. count |-> [i \in 1 .. size |-> Byte((k - 1) * size + i)]]

ParseRawImage(data, pageSize) ==
  LET size == EffectivePageSize(pageSize) IN
  IF ValidPageSize(size) THEN NewFirmware(SplitFlat(data, size), <<>>, {}) ELSE No

NormaliseElements(elems) ==
  LET page == [i \in 1 .. Len(elems) |-> DecodePage(elems[i])]
      ids == [i \in 1 .. Len(elems) |-> StatedId(elems[i])]
  IN  IF Len(elems) \in 1 .. MaxPages /\ \A i \in 1 .. Len(elems) : page[i].ok
      THEN OrderByPageID(ids, [i \in 1 .. Len(elems) |-> page[i].bytes])
      ELSE No

NormaliseFlat(decoded, pageSize) == IF decoded.ok THEN ParseRawImage(decoded.bytes, pageSize) ELSE No

\* One text and one array of numbers are a whole image with no pages of its own.
NormalisePages(v, pageSize) ==
  CASE v.t = "list" -> NormaliseElements(v.e)
    [] v.t = "text" -> NormaliseFlat(DecodeByteString(v.text), pageSize)
    [] v.t = "numbers" /\ v.v # <<>> /\ ValidPageSize(EffectivePageSize(pageSize))
         -> NormaliseFlat(DecodeByteArray(v.v, MaxPages * EffectivePageSize(pageSize)), pageSize)
    [] OTHER -> No

(* Documents *)

\* What a JSON decoder may hand over: texts and arrays are finite, and a page states
\* one number or none.
Texts ==
  [enc : {"hex", "marked", "base64", "raw", "neither"}, bytes : Seq(0 .. 255), cut : BOOLEAN]

IsChunk(v) == (v.t = "numbers" => v.v \in Seq(Int)) /\ (v.t = "text" => v.text \in Texts)
IsElement(e) ==
  IF e.t = "page"
  THEN (\A a, b \in e.id : a = b) /\ \A i \in DOMAIN e.chunks : IsChunk(e.chunks[i])
  ELSE IsChunk(e)
IsPages(v) ==
  IF v.t = "list"
  THEN v.e \in Seq({v.e[i] : i \in DOMAIN v.e}) /\ \A i \in DOMAIN v.e : IsElement(v.e[i])
  ELSE IsChunk(v)
IsDocument(doc) ==
  /\ doc.t = "array" => IsPages(doc.value)
  /\ doc.t = "object" =>
       /\ doc.page_size \in Int /\ {doc.app_version, doc.version} \subseteq Seq(Chars)
       /\ \A v \in {doc.app_bin, doc.app_bin_data, doc.firmware} : IsPages(v)

Present(v) == v.t \notin {"absent", "null"}

\* The key the pages are under: null counts as absent.
PagesOf(doc) ==
  IF doc.t = "array" THEN doc.value
  ELSE IF Present(doc.app_bin) THEN doc.app_bin
  ELSE IF Present(doc.app_bin_data) THEN doc.app_bin_data
  ELSE doc.firmware

VersionOf(doc) == IF doc.app_version = <<>> THEN doc.version ELSE doc.app_version

ParseJSONPayload(doc) ==
  LET got == NormalisePages(PagesOf(doc), doc.page_size) IN
  IF got.ok /\ doc.crc \subseteq 0 .. 255
  THEN NewFirmware(got.pages, VersionOf(doc), doc.crc)
  ELSE No

\* LoadOptions.PageSize is used where a document brings no geometry, and checked
\* everywhere.
ParseImage(doc, pageSize) ==
  IF pageSize # 0 /\ ~ValidPageSize(pageSize) THEN No ELSE
  CASE doc.t = "object" -> ParseJSONPayload(doc)
    [] doc.t = "array" ->
         LET got == NormalisePages(doc.value, pageSize)
         IN  IF got.ok THEN NewFirmware(got.pages, <<>>, {}) ELSE No
    [] doc.t = "raw" /\ doc.bytes # <<>> -> ParseRawImage(doc.bytes, pageSize)
    [] OTHER -> No

\* The first byte that is not blank; a document cut short still begins with it.
LooksJSON(doc) == doc.t \in {"object", "array", "malformed"}

\* bootloader.Fetch: a reply that is not JSON is never an image.
FetchParse(doc) == IF LooksJSON(doc) THEN ParseImage(doc, 0) ELSE No

\* Mutant of HexText: the encoding encoding/json has for bytes.
Base64Text(b) == [enc |-> "base64", bytes |-> b, cut |-> FALSE]

HexText(b) == [enc |-> "hex", bytes |-> b, cut |-> FALSE]

\* What fetch -o writes: one element a page, in hex, which reads back as nothing else.
MarshalFirmware(fw) ==
  [t |-> "object", app_version |-> fw.version, version |-> <<>>, crc |-> fw.crc, page_size |-> Len(fw.pages[1]),
   app_bin |-> [t |-> "list",
                e |-> [i \in 1 .. Len(fw.pages) |-> [t |-> "text", text |-> HexText(fw.pages[i])]]],
   app_bin_data |-> [t |-> "absent"], firmware |-> [t |-> "absent"]]
=============================================================================
