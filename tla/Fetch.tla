------------------------------- MODULE Fetch --------------------------------
(***************************************************************************)
(* internal/cli firmware fetch, and the firmware flash that loads the file *)
(* later: the serial number read off the unit, the download, the image the *)
(* reply is read as, the file it is saved in, and what that file is read   *)
(* back as.  The power may go while it is being saved.                     *)
(***************************************************************************)
EXTENDS Image, WebSocket, SaveFile

CONSTANTS
  Replies,      \* what the service may answer
  Old           \* what -o named before

ASSUME RepliesAssumption == \A r \in Replies : IsDocument(r.doc)

VARIABLES
  cmd,      \* where the command is
  raw, out, \* --raw; is there a -o?
  reply,    \* what the service has answered
  image,    \* what fetch read the reply as
  saved,    \* has the command said that the image is saved?
  exit,     \* "", "ok" or "error"
  loaded    \* what firmware flash read the file as, and the --page-size it was given

NoReply == [t |-> "none"]

fetchVars == <<cmd, raw, out, reply, image, saved, exit, loaded>>
vars == <<wsVars, saveVars, fetchVars>>

Init ==
  /\ WSInit /\ SaveInit(Old)
  /\ reply = NoReply
  /\ raw = FALSE /\ out = FALSE
  /\ cmd = "start" /\ image = No /\ saved = FALSE /\ exit = "" /\ loaded = [flag |-> 0, image |-> No]

End(code) == cmd' = "done" /\ exit' = code

\* No unit, a blank serial, or --raw with no -o, which is refused before the unit is
\* opened; the flags mean nothing more until there is a reply.
ReadSerial ==
  /\ cmd = "start"
  /\ \/ End("error") /\ UNCHANGED wsVars
     \/ /\ cmd' = "fetch" /\ call' = "dial"
        /\ UNCHANGED <<exit, endpoint, ctx, tcp, hook, reader, outcome>>
  /\ UNCHANGED <<saveVars, raw, out, reply, image, saved, loaded>>

\* What a message is: the reply, or something that only resembles it.
Garbled == [t |-> "malformed"]
MessageOf(r) == IF outcome.msg = [i \in 1 .. length |-> i] THEN r.doc ELSE Garbled

\* The pieces of the reply spell whatever the service answers.
FetchFails ==
  /\ cmd = "fetch" /\ Returned /\ outcome.err # ""
  /\ End("error") /\ Forget
  /\ UNCHANGED <<saveVars, raw, out, reply, image, saved, loaded>>

FetchEnds ==
  /\ cmd = "fetch" /\ Returned /\ outcome.err = ""
  /\ \E r \in {r \in Replies : r.size = length}, isRaw \in BOOLEAN, isOut \in BOOLEAN :
       /\ isRaw => isOut
       /\ raw' = isRaw /\ out' = isOut
       /\ reply' = MessageOf(r)
       /\ image' = IF isRaw THEN No ELSE FetchParse(MessageOf(r))
       /\ IF isRaw \/ image'.ok THEN cmd' = "report" /\ UNCHANGED exit ELSE End("error")
  /\ Forget
  /\ UNCHANGED <<saveVars, saved, loaded>>

\* Without -o the report is all there is.
Report ==
  /\ cmd = "report"
  /\ IF out
     THEN cmd' = "save" /\ BeginSave(IF raw THEN reply ELSE MarshalFirmware(image)) /\ UNCHANGED exit
     ELSE End("ok") /\ UNCHANGED saveVars
  /\ UNCHANGED <<wsVars, raw, out, reply, image, saved, loaded>>

Save == cmd = "save" /\ SaveStep /\ UNCHANGED <<wsVars, fetchVars>>

ReportSaved ==
  /\ cmd = "save"
  /\ \/ saving = "saved" /\ saved' = TRUE /\ End("ok")
     \/ saving = "failed" /\ End("error") /\ UNCHANGED saved
  /\ UNCHANGED <<wsVars, saveVars, raw, out, reply, image, loaded>>

PowerFails ==
  /\ cmd \in {"save", "done"} /\ PowerCut
  /\ cmd' = "done"
  /\ UNCHANGED <<wsVars, raw, out, reply, image, saved, exit, loaded>>

\* firmware flash FILE: --page-size is refused for whatever begins as JSON does.
LoadFirmware(pageSize) ==
  /\ cmd = "done"
  /\ loaded' = [flag |-> pageSize,
                 image |-> IF pageSize # 0 /\ LooksJSON(Contents) THEN No
                           ELSE ParseImage(Contents, pageSize)]
  /\ cmd' = "loaded"
  /\ UNCHANGED <<wsVars, saveVars, raw, out, reply, image, saved, exit>>

Network ==
  /\ cmd = "fetch"
  /\ Endpoint \/ HookFires \/ \E how \in {"cancelled", "expired"} : EndContext(how)
  /\ UNCHANGED <<saveVars, fetchVars>>

Exchange == cmd = "fetch" /\ Client /\ UNCHANGED <<saveVars, fetchVars>>

Command ==
  ReadSerial \/ FetchFails \/ FetchEnds \/ Report \/ Save \/ ReportSaved
    \/ \E pageSize \in {0, DefaultPageSize} : LoadFirmware(pageSize)

Next == Network \/ Exchange \/ Command \/ PowerFails

\* The operator, the endpoint and the clock owe nothing.
Fairness ==
  /\ WF_vars(Exchange)
  /\ WF_vars(cmd = "fetch" /\ HookFires /\ UNCHANGED <<saveVars, fetchVars>>)

Spec == Init /\ [][Next]_vars /\ Fairness

-----------------------------------------------------------------------------

\* The download hands back the service's reply, every piece of it in order and
\* nothing else, however it was fragmented and whatever was sent between the
\* fragments (readMessage); or it fails for a reason: a refused address, an endpoint
\* that refuses, leaves or breaks the protocol, too long a reply or header, or an end
\* of the wait.
ReplyOrReason ==
  Returned =>
    IF outcome.err = "" THEN outcome.msg = [i \in 1 .. length |-> i]
    ELSE outcome.err = "url" \/ rude \/ server = "gone" \/ ctx # "live"
           \/ length > MaxMsg \/ lines >= MaxHeader

\* The memory a download holds, the payload about to be read included, never passes
\* the ceiling, whatever lengths the headers claim (readFrame's budget).
CeilingHeld ==
  Len(buf) + (IF call = "payload" /\ frame.op \notin Controls THEN Len(frame.body) ELSE 0) <= MaxMsg

\* Once the operator interrupts it, or its time is up, the download comes back,
\* wherever the endpoint stalls (the hooks of wsDial and FetchRaw).
CalledOffReturns == (cmd = "fetch" /\ ctx # "live") ~> Returned

\* A reader of -o sees the old file or the whole new one, also after a power cut at
\* any point, and only the new one once the command has said that it is saved
\* (writeFileAtomic).
FileIsWhole == Contents \in {before, data} /\ (saved => Contents = data)

(* What a document states, said without reading it. *)

Stated(v) == CASE v.t = "numbers" -> v.v [] v.t = "text" -> v.text.bytes

StatedPage(e) ==
  IF e.t = "page" THEN FlattenSeq([i \in 1 .. ChunksPerPage |-> Stated(e.chunks[i - 1])])
  ELSE Stated(e)

\* Base64 that reads as hex, or that lost its end, and a marker of hex with no hex after
\* it are not told from what they seem.
AmbiguousText(v) ==
  /\ v.t = "text"
  /\ \/ v.text.enc \in {"base64", "raw"} /\ (SpellsHex(v.text) \/ v.text.cut)
     \/ v.text.enc = "marked" /\ v.text.bytes = <<>>
AmbiguousPage(e) ==
  IF e.t = "page" THEN \E i \in DOMAIN e.chunks : AmbiguousText(e.chunks[i]) ELSE AmbiguousText(e)
Ambiguous(v) ==
  IF v.t = "list" THEN \E i \in 1 .. Len(v.e) : AmbiguousPage(v.e[i]) ELSE AmbiguousText(v)

\* The number a page states decides where it belongs, the order given where none does.
Place(id, i) == IF id = {} THEN i ELSE 1 + CHOOSE n \in id : TRUE

\* Each page whole, at the number it states or in the order given; a flat image in
\* full, followed by padding of less than a page.
PagesAsStated(v, pages) ==
  IF v.t = "list"
  THEN /\ Len(pages) = Len(v.e)
       /\ \A i \in 1 .. Len(v.e) :
            LET k == Place(StatedId(v.e[i]), i)
            IN  k \in DOMAIN pages /\ pages[k] = StatedPage(v.e[i])
  ELSE LET flat == FlattenSeq(pages)
       IN  /\ IsPrefix(Stated(v), flat)
           /\ Len(flat) - Len(Stated(v)) \in 0 .. Len(pages[1]) - 1
           /\ \A i \in Len(Stated(v)) + 1 .. Len(flat) : flat[i] = RawImagePad

\* What is reported as the service's image is the image its JSON states: every page
\* whole, at the number it states or in the order given, none missing and none twice;
\* a flat image in full, followed by padding of less than a page (ParseImage).
ImageAsStated ==
  image.ok =>
    /\ reply.t \in {"object", "array"}
    /\ Ambiguous(PagesOf(reply)) \/ PagesAsStated(PagesOf(reply), image.pages)

\* A version too long to be kept whole that has lost one or two blanks at an end, and
\* with the dots is still too long.
ShortOfTheCut(version) == Len(version) \in MaxVersionLen + 1 .. MaxVersionLen + 2

\* A saved image is read back as the image that was fetched: the pages, their split and
\* the sum, and the version, which is cleaned a second time, unless it was cut at a
\* blank; a --page-size is refused, never applied (marshalFirmware, printableASCII).
SavedIsFetched ==
  (cmd = "loaded" /\ saved /\ ~raw) =>
    IF loaded.flag # 0 THEN loaded.image = No
    ELSE /\ loaded.image.ok /\ loaded.image.pages = image.pages
         /\ loaded.image.crc = image.crc
         /\ ShortOfTheCut(image.version) \/ loaded.image.version = image.version
=============================================================================
