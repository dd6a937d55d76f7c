----------------------------- MODULE InlineIds -----------------------------
(***************************************************************************)
(* inline_message_ids: written by tlate.inlineMsgID when an inline message *)
(* is chosen or its button pressed, and read back by the editing methods   *)
(* (decodeInlineMessageID, internal/server/inline_msg_id.go) with a parser *)
(* of their own, jsonParseInt.                                             *)
(*                                                                         *)
(* A text is the sequence of its parts between colons; a part has a sign   *)
(* and decimal digits, where NoDigit stands for any other character.       *)
(***************************************************************************)
EXTENDS Integers, Sequences

CONSTANTS
  Long,        \* an int64 is in -Long..(Long - 1): 2^63
  Short,       \* an int32 is in -Short..(Short - 1): 2^31
  InlineIDs,   \* the ids Telegram may send
  ForeignTexts \* texts a client may hold that no update brought

ASSUME InlineIdsAssumption == Short \in Nat \ {0} /\ Long \in Nat /\ Short <= Long

Ints(half) == -half..(half - 1)

(* What a Go integer of that width makes of n.                             *)
Wrap(n, half) == ((n + half) % (2 * half)) - half

Digit == 0..9
NoDigit == 10

(***************************************************************************)
(* InputBotInlineMessageIDObj (dc, id, hash) and InputBotInlineMessageID64 *)
(* (dc, owner, id, hash): the fields in the order of the text, and their   *)
(* widths.  Only the DC and the id of the longer form are int32.           *)
(***************************************************************************)
Widths(n) == IF n = 3 THEN <<Short, Long, Long>> ELSE <<Short, Long, Short, Long>>

InlineID(fields) ==
  Len(fields) \in {3, 4} /\ \A k \in DOMAIN fields : fields[k] \in Ints(Widths(Len(fields))[k])

Part == [sign : {"", "-", "+"}, digits : Seq(Digit \cup {NoDigit})]

ASSUME TextsAssumption ==
  /\ \A fields \in InlineIDs : fields \in Seq(Int) /\ InlineID(fields)
  /\ \A text \in ForeignTexts : text \in Seq(Part)

-----------------------------------------------------------------------------
(* itoa64 and jsonParseInt.                                                *)

DigitsOf[n \in Nat] == IF n < 10 THEN <<n>> ELSE Append(DigitsOf[n \div 10], n % 10)

itoa64(n) ==
  IF n < 0 THEN [sign |-> "-", digits |-> DigitsOf[-n]] ELSE [sign |-> "", digits |-> DigitsOf[n]]

WellFormed(part) == part.digits # <<>> /\ \A k \in DOMAIN part.digits : part.digits[k] \in Digit

(* n = n*10 + digit in int64, without a test for overflow.                 *)
Accumulated[digits \in Seq(Digit)] ==
  IF digits = <<>> THEN 0
  ELSE Wrap(10 * Accumulated[SubSeq(digits, 1, Len(digits) - 1)] + digits[Len(digits)], Long)

jsonParseInt(part) ==
  IF part.sign = "-" THEN Wrap(-Accumulated[part.digits], Long) ELSE Accumulated[part.digits]

inlineMsgID(fields) == [k \in DOMAIN fields |-> itoa64(fields[k])]

Accepted(text) == Len(text) \in {3, 4} /\ \A k \in DOMAIN text : WellFormed(text[k])

decodeInlineMessageID_AllShort(text) == [k \in DOMAIN text |-> Wrap(jsonParseInt(text[k]), Short)]

decodeInlineMessageID(text) ==
  [k \in DOMAIN text |-> Wrap(jsonParseInt(text[k]), Widths(Len(text))[k])]

-----------------------------------------------------------------------------
VARIABLES
  inlineID,    \* the id Telegram sent, or <<>>: the client has the text from elsewhere
  itext,       \* the text the client holds
  istep,       \* "sent", "held", and the ends "read" and "refused"
  decoded      \* the id the edit is for

inlineVars == <<inlineID, itext, istep, decoded>>

InlineInit ==
  /\ \/ inlineID \in InlineIDs /\ istep = "sent" /\ itext = <<>>
     \/ inlineID = <<>> /\ istep = "held" /\ itext \in ForeignTexts
  /\ decoded = <<>>

Write ==
  /\ istep = "sent"
  /\ istep' = "held"
  /\ itext' = inlineMsgID(inlineID)
  /\ UNCHANGED <<inlineID, decoded>>

EditInline ==
  /\ istep = "held"
  /\ IF Accepted(itext)
       THEN istep' = "read" /\ decoded' = decodeInlineMessageID(itext)
       ELSE istep' = "refused" /\ UNCHANGED decoded
  /\ UNCHANGED <<inlineID, itext>>

InlineNext == Write \/ EditInline

InlineSpec == InlineInit /\ [][InlineNext]_inlineVars

-----------------------------------------------------------------------------
(* The integer a part spells, whatever its size.                           *)
Number[digits \in Seq(Digit)] ==
  IF digits = <<>> THEN 0
  ELSE 10 * Number[SubSeq(digits, 1, Len(digits) - 1)] + digits[Len(digits)]

Spelled(part) == IF part.sign = "-" THEN -Number[part.digits] ELSE Number[part.digits]

InRange(text) ==
  \A k \in DOMAIN text : Spelled(text[k]) \in Ints(Widths(Len(text))[k])

(***************************************************************************)
(* "decodeInlineMessageID reverses tlate.inlineMsgID" (inline_msg_id.go:   *)
(* 11): every id, those with the least and the greatest integers too,      *)
(* comes back as it was sent, for the message it was sent for.  A text     *)
(* from elsewhere is read as the integers it spells, or one of them has no *)
(* place in its field: only then does the missing overflow test, or the    *)
(* cut to int32, name another message.                                     *)
(***************************************************************************)
InlineIdsReadBack ==
  /\ istep = "read" /\ inlineID # <<>> => decoded = inlineID
  /\ istep = "read" /\ InRange(itext) =>
       \A k \in DOMAIN itext : decoded[k] = Spelled(itext[k])
  /\ istep = "refused" => inlineID = <<>>
=============================================================================
