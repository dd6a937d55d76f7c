------------------------------ MODULE FileIds ------------------------------
(***************************************************************************)
(* The file_id a bot gets with a media message, what it is for, and where  *)
(* it leads: internal/fileid, the translators that make ids                *)
(* (internal/tlate/media.go, getStickerSet) and the handlers that read     *)
(* them back (getFile, the download, sending by id).                       *)
(*                                                                         *)
(* Base64 maps byte strings to texts one to one and is left out: an id is  *)
(* its bytes.  A byte has Radix values (256), integers are held as the     *)
(* unsigned number their two's complement stands for.                      *)
(***************************************************************************)
EXTENDS Naturals, Sequences

CONSTANTS
  Radix,       \* the values of a byte: 256
  Narrow,      \* bytes of DC and Type: 4
  Wide,        \* bytes of ID and AccessHash: 8
  Bots,        \* the bots of this server
  Files,       \* what Telegram may send: see File
  Foreign      \* byte strings a client may hold that are no id of ours

ASSUME FileIdsAssumption ==
  /\ Radix \in Nat /\ Narrow \in Nat /\ Wide \in Nat
  /\ Radix > 4 /\ Narrow > 1 /\ Wide > 0

Byte == 0..(Radix - 1)

(* Radix^k.                                                                *)
Power[k \in Nat] == IF k = 0 THEN 1 ELSE Radix * Power[k - 1]

(* Little-endian words.                                                    *)
Word(n, w) == [i \in 1..w |-> (n \div Power[i - 1]) % Radix]

Value[b \in Seq(Byte)] == IF b = <<>> THEN 0 ELSE Head(b) + Radix * Value[Tail(b)]

Slice(b, from, count) == SubSeq(b, from, from + count - 1)

-----------------------------------------------------------------------------
(* Runs of zeros, each coded as a zero and its length, at most Radix - 1.  *)

ZeroRun(b) ==
  CHOOSE k \in 1..Len(b) :
    /\ k < Radix
    /\ \A i \in 1..k : b[i] = 0
    /\ k < Radix - 1 /\ k < Len(b) => b[k + 1] # 0

rleEncode[b \in Seq(Byte)] ==
  IF b = <<>> THEN <<>>
  ELSE IF Head(b) # 0 THEN <<Head(b)>> \o rleEncode[Tail(b)]
  ELSE <<0, ZeroRun(b)>> \o rleEncode[SubSeq(b, ZeroRun(b) + 1, Len(b))]

(* A zero at the end, without a length, stands for itself.                 *)
rleDecode[b \in Seq(Byte)] ==
  IF b = <<>> THEN <<>>
  ELSE IF Head(b) # 0 THEN <<Head(b)>> \o rleDecode[Tail(b)]
  ELSE IF Len(b) = 1 THEN <<0>>
  ELSE [i \in 1..b[2] |-> 0] \o rleDecode[SubSeq(b, 3, Len(b))]

-----------------------------------------------------------------------------
(* Info.Encode, Decode and UniqueID.  PhotoSize and FileRef are bytes.     *)

Trailer == <<4, 30 % Radix>>
HeaderLen == 2 * Wide + 2 * Narrow

(* byte(len(b)) wraps.                                                     *)
Counted(b) == IF b = <<>> THEN <<>> ELSE <<Len(b) % Radix>> \o b

Encode_SizeFirst(i) ==
  rleEncode[Word(i.id, Wide) \o Word(i.hash, Wide) \o Word(i.dc, Narrow) \o Word(i.type, Narrow)
              \o Counted(i.size) \o Counted(i.ref) \o Trailer]

Encode(i) ==
  rleEncode[Word(i.id, Wide) \o Word(i.hash, Wide) \o Word(i.dc, Narrow) \o Word(i.type, Narrow)
              \o Counted(i.ref) \o Counted(i.size) \o Trailer]

TooShort(s) == Len(rleDecode[s]) < HeaderLen + 2

(* The type loses its highest byte; what follows the header is read as a   *)
(* reference if the length fits, and PhotoSize is not read.                *)
Decode(s) ==
  LET raw == rleDecode[s]
      rest == SubSeq(raw, HeaderLen + 1, Len(raw) - 2)
  IN [id   |-> Value[Slice(raw, 1, Wide)],
      hash |-> Value[Slice(raw, Wide + 1, Wide)],
      dc   |-> Value[Slice(raw, 2 * Wide + 1, Narrow)],
      type |-> Value[Slice(raw, 2 * Wide + Narrow + 1, Narrow - 1)],
      ref  |-> IF Len(rest) > 0 /\ rest[1] < Len(rest) THEN Slice(rest, 2, rest[1]) ELSE <<>>,
      size |-> <<>>]

UniqueID_NoType(i) == Word(i.id, Wide) \o Counted(i.size)

UniqueID(i) == Word(i.type, Narrow) \o Word(i.id, Wide) \o Counted(i.size)

-----------------------------------------------------------------------------
(* The media Telegram sends, and the ids the translators give it.          *)

FT == [thumbnail |-> 0, profile |-> 1, photo |-> 2, voice |-> 3, video |-> 4, document |-> 5,
       sticker |-> 8, audio |-> 9, animation |-> 10, video_note |-> 13]

PhotoTypes == {FT.photo, FT.profile, FT.thumbnail}

(***************************************************************************)
(* A photo has a size letter; a document has attributes, of which those    *)
(* that decide what it is are kept.  (A thumbnail is listed as one of its  *)
(* document's PhotoSizes.)                                                 *)
(***************************************************************************)
File(f) ==
  /\ f.class \in {"photo", "thumbnail", "document"}
  /\ f.attrs \subseteq {"voice", "round", "sticker", "animated", "video", "audio"}
  /\ f.class # "document" => f.attrs = {} /\ f.size # <<>>
  /\ f.class = "document" => f.size = <<>>
  /\ "voice" \in f.attrs => "audio" \in f.attrs
  /\ "round" \in f.attrs => "video" \in f.attrs
  /\ f.id \in 0..(Power[Wide] - 1) /\ f.hash \in 0..(Power[Wide] - 1)
  /\ f.dc \in 0..(Power[Narrow] - 1)
  /\ f.size \in Seq(Byte) /\ Len(f.size) < 2
  /\ f.ref \in Seq(Byte)

(* The types have no use for the byte that is not read.                    *)
ASSUME FilesAssumption ==
  /\ \A f \in Files : File(f)
  /\ \A s \in Foreign : s \in Seq(Byte)
  /\ \A t \in DOMAIN FT : FT[t] < Power[Narrow - 1]

(***************************************************************************)
(* fillFromDocument decides twice what a document is: for the type in its  *)
(* id, and for the field of the message.                                   *)
(***************************************************************************)
FirstOf(cases, attrs, default) ==
  IF \E i \in DOMAIN cases : cases[i][1] \in attrs
    THEN LET k == CHOOSE k \in DOMAIN cases :
                    cases[k][1] \in attrs /\ \A j \in 1..(k - 1) : cases[j][1] \notin attrs
         IN cases[k][2]
    ELSE default

DocumentType_VideoFirst(attrs) ==
  FirstOf(<<<<"voice", FT.voice>>, <<"round", FT.video_note>>, <<"video", FT.video>>,
            <<"sticker", FT.sticker>>, <<"animated", FT.animation>>, <<"audio", FT.audio>>>>,
          attrs, FT.document)

DocumentType(attrs) ==
  FirstOf(<<<<"voice", FT.voice>>, <<"round", FT.video_note>>, <<"sticker", FT.sticker>>,
            <<"animated", FT.animation>>, <<"video", FT.video>>, <<"audio", FT.audio>>>>,
          attrs, FT.document)

DocumentField(attrs) ==
  FirstOf(<<<<"voice", "voice">>, <<"round", "video_note">>, <<"sticker", "sticker">>,
            <<"animated", "animation">>, <<"video", "video">>, <<"audio", "audio">>>>,
          attrs, "document")

Info(f) ==
  [dc |-> f.dc, id |-> f.id, hash |-> f.hash, ref |-> f.ref, size |-> f.size,
   type |-> CASE f.class = "photo" -> FT.photo
              [] f.class = "thumbnail" -> FT.thumbnail
              [] f.class = "document" -> DocumentType(f.attrs)]

(* The field of the message the id is shown in.                            *)
Shown(f) == IF f.class = "document" THEN DocumentField(f.attrs) ELSE "photo"

-----------------------------------------------------------------------------
(* getFile's signed path.  The HMAC of the payload under a bot's token     *)
(* hash is the pair of both.                                               *)

Payload(i) ==
  Word(i.dc, Narrow) \o Word(i.type, Narrow) \o Word(i.id, Wide) \o Word(i.hash, Wide)
    \o <<Len(i.ref) % Radix>> \o i.ref

SignedPath(i, b) == [payload |-> Payload(i), sig |-> <<b, Payload(i)>>]

GoodSignature(p, b) == p.sig = <<b, p.payload>>

FromPayload(p) ==
  LET refLen == p[HeaderLen + 1] IN
  [dc   |-> Value[Slice(p, 1, Narrow)],
   type |-> Value[Slice(p, Narrow + 1, Narrow)],
   id   |-> Value[Slice(p, 2 * Narrow + 1, Wide)],
   hash |-> Value[Slice(p, 2 * Narrow + Wide + 1, Wide)],
   ref  |-> IF Len(p) >= HeaderLen + 1 + refLen THEN Slice(p, HeaderLen + 2, refLen) ELSE <<>>,
   size |-> <<>>]

(* buildFileLocation, and inputMediaFromFileID, which splits the same way. *)
Place(i) ==
  [kind |-> IF i.type \in PhotoTypes THEN "photo" ELSE "document",
   id |-> i.id, hash |-> i.hash, ref |-> i.ref]

ContentType(type) ==
  CASE type \in PhotoTypes -> "image/jpeg"
    [] type \in {FT.audio, FT.voice} -> "audio/ogg"
    [] type \in {FT.video, FT.animation, FT.video_note} -> "video/mp4"
    [] OTHER -> "application/octet-stream"

-----------------------------------------------------------------------------
(* One file, from the message that shows it to what the bot does with it.  *)

VARIABLES
  file,        \* what Telegram sent, or Nothing: the client has the id from elsewhere
  step,        \* "sent", "held", "pathed"; "refused", "served", "as_text", "resent"
  fid,         \* the file_id the client holds
  uid,         \* the file_unique_id it was shown with
  path,        \* the file_path getFile returned
  fileUid,     \* the file_unique_id getFile returned
  found        \* where the download, or sending by id, goes, and the content type

fileVars == <<file, step, fid, uid, path, fileUid, found>>

Nothing == [class |-> "none"]

FilesInit ==
  /\ \/ file \in Files /\ step = "sent" /\ fid = <<>>
     \/ file = Nothing /\ step = "held" /\ fid \in Foreign
  /\ uid = <<>> /\ fileUid = <<>>
  /\ path = [payload |-> <<>>, sig |-> <<>>]
  /\ found = [kind |-> "none"]

(* The message is translated: photoSizes, fillFromDocument.                *)
Show ==
  /\ step = "sent"
  /\ step' = "held"
  /\ fid' = Encode(Info(file))
  /\ uid' = UniqueID(Info(file))
  /\ UNCHANGED <<file, path, fileUid, found>>

GetFile(b) ==
  /\ step = "held"
  /\ IF TooShort(fid)
       THEN step' = "refused" /\ UNCHANGED <<path, fileUid>>
       ELSE /\ step' = "pathed"
            /\ path' = SignedPath(Decode(fid), b)
            /\ fileUid' = UniqueID(Decode(fid))
  /\ UNCHANGED <<file, fid, uid, found>>

Download(b) ==
  /\ step = "pathed"
  /\ IF GoodSignature(path, b)
       THEN /\ step' = "served"
            /\ found' = [place |-> Place(FromPayload(path.payload)), by |-> b,
                          content |-> ContentType(FromPayload(path.payload).type)]
       ELSE step' = "refused" /\ UNCHANGED found
  /\ UNCHANGED <<file, fid, uid, path, fileUid>>

(* A text that is no file_id is passed on as it is.                        *)
Resend ==
  /\ step = "held"
  /\ IF TooShort(fid)
       THEN step' = "as_text" /\ UNCHANGED found
       ELSE step' = "resent" /\ found' = [place |-> Place(Decode(fid))]
  /\ UNCHANGED <<file, fid, uid, path, fileUid>>

FilesNext == Show \/ Resend \/ \E b \in Bots : GetFile(b) \/ Download(b)

FilesSpec == FilesInit /\ [][FilesNext]_fileVars

-----------------------------------------------------------------------------
Arrived == step \in {"served", "resent"}

Prefixes(b) == {SubSeq(b, 1, k) : k \in 0..Len(b)}

(* What Decode can give back: it reads the size letter of a photo without  *)
(* a reference as one, and counts references modulo Radix.                 *)
ReadableRef(f) == Len(f.ref) \in 1..(Radix - 1) \/ (f.ref = <<>> /\ f.size = <<>>)

(***************************************************************************)
(* An id leads back to the file it was shown for, through getFile and the  *)
(* download as well as when it is sent again: the zero runs, the length    *)
(* bytes and the two payload layouts give back kind, id, hash and          *)
(* reference.  Where they cannot, a reference comes back cut, never that   *)
(* of something else, unless the file had none.  (A thumbnail is a photo   *)
(* here, though its id is that of a document.)                             *)
(***************************************************************************)
FileIdsLeadBack ==
  Arrived /\ file # Nothing /\ file.class # "thumbnail" =>
    /\ <<found.place.kind, found.place.id, found.place.hash>> = <<file.class, file.id, file.hash>>
    /\ ReadableRef(file) => found.place.ref = file.ref
    /\ file.ref # <<>> => found.place.ref \in Prefixes(file.ref)

(***************************************************************************)
(* The path getFile returns serves, to the bot that asked for it only,     *)
(* what sending the same id would send, whatever text the client passed    *)
(* as an id, and under the content type of the field it was shown in.      *)
(***************************************************************************)
Served(field) ==
  CASE field = "photo" -> "image/jpeg"
    [] field \in {"voice", "audio"} -> "audio/ogg"
    [] field \in {"video", "animation", "video_note"} -> "video/mp4"
    [] field \in {"sticker", "document"} -> "application/octet-stream"

PathsServeTheId ==
  step = "served" =>
    /\ found.place = Place(Decode(fid))
    /\ GoodSignature(path, found.by)
    /\ file # Nothing => found.content = Served(Shown(file))

(***************************************************************************)
(* file_unique_ids tell files apart and stay the same when the access hash *)
(* or the reference of a file changes; getFile gives a document the one it *)
(* was shown with.  (A photo loses its size there, and gets another.)      *)
(***************************************************************************)
SameFile(f, g) == f.id = g.id /\ Info(f).type = Info(g).type /\ f.size = g.size

UniqueIdsTellApart ==
  file # Nothing /\ step # "sent" =>
    /\ \A g \in Files : UniqueID(Info(g)) = uid <=> SameFile(file, g)
    /\ file.class = "document" /\ step \in {"pathed", "served"} => fileUid = uid
=============================================================================
