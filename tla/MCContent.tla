----------------------------- MODULE MCContent -----------------------------
(***************************************************************************)
(* What updates carry and what a client hands back, on small widths.  A    *)
(* behaviour is about a file, an inline message, or a round of updates:    *)
(* the three share no state, so those it is not about stay where they are. *)
(***************************************************************************)
EXTENDS FileIds, InlineIds, Translation

vars == <<fileVars, inlineVars, translationVars>>

NoFile == file = Nothing /\ step = "off" /\ fid = <<>> /\ uid = <<>> /\ fileUid = <<>>
            /\ path = [payload |-> <<>>, sig |-> <<>>] /\ found = [kind |-> "none"]
NoInline == inlineID = <<>> /\ istep = "off" /\ itext = <<>> /\ decoded = <<>>
NoRound == round = "off" /\ queue = <<>> /\ shown = <<>> /\ users = {} /\ chats = <<>>

Init ==
  \/ FilesInit /\ NoInline /\ NoRound
  \/ NoFile /\ InlineInit /\ NoRound
  \/ NoFile /\ NoInline /\ TranslationInit

Next ==
  \/ FilesNext /\ UNCHANGED <<inlineVars, translationVars>>
  \/ InlineNext /\ UNCHANGED <<fileVars, translationVars>>
  \/ TranslationNext /\ UNCHANGED <<fileVars, inlineVars>>

Spec == Init /\ [][Next]_vars

-----------------------------------------------------------------------------
(* Bytes of eight values, words of two or three bytes: ids with zeros in   *)
(* either byte and in all, references up to twice the longest a length     *)
(* byte counts, of zeros, without them and mixed.                          *)

SmallRefs == UNION {[1..n -> {0, 3}] : n \in 0..3}
LongRefs == {[i \in 1..n |-> IF i <= z THEN 0 ELSE 5] : n \in {7, 8, 9, 15, 16, 17}, z \in {0, 1, 7, 8, 17}}
Media == {[class |-> "document", attrs |-> a, size |-> <<>>] :
            a \in {{}, {"audio"}, {"voice", "audio"}, {"video"}, {"round", "video"}, {"sticker"},
                   {"sticker", "video"}, {"animated", "video"}, {"sticker", "animated"}}}
         \cup {[class |-> c, attrs |-> {}, size |-> <<z>>] : c \in {"photo", "thumbnail"}, z \in {1, 6}}

SmallFiles ==
  {[class |-> m.class, attrs |-> m.attrs, size |-> m.size, id |-> i, hash |-> h, dc |-> d, ref |-> r] :
     m \in Media, i \in {0, 8, 9}, h \in {0, 1}, d \in {0, 2}, r \in {<<>>, <<0>>, <<3, 0>>}}
  \cup
  {[class |-> m.class, attrs |-> m.attrs, size |-> m.size, id |-> 9, hash |-> 0, dc |-> 2, ref |-> r] :
     m \in {x \in Media : x.attrs \subseteq {"voice", "audio"}}, r \in SmallRefs \cup LongRefs}

OtherStrings ==
  {<<0, 7, 0, n>> \o b : n \in {0, 3, 4, 7}, b \in UNION {[1..k -> {0, 1, 4}] : k \in 0..4}}

-----------------------------------------------------------------------------
(* int64 of six bits and int32 of four: two digits overflow both.          *)

SmallInlineIDs ==
  ({-8, 0, 7} \X Ints(Long) \X {-32, 31})
    \cup ({-8, 7} \X {-32, 0, 31} \X Ints(Short) \X {-32, 5})

Parts == [sign : {"", "-", "+"}, digits : UNION {[1..n -> {0, 1, 3, 7, 8, 9, NoDigit}] : n \in 0..2}]
One == [sign |-> "", digits |-> <<1>>]

OtherTexts ==
  {[k \in 1..n |-> IF k = i THEN p ELSE One] : n \in 2..5, i \in 1..2, p \in Parts}
    \cup {[k \in 1..n |-> IF k = i THEN p ELSE One] : n \in {3, 4}, i \in {3}, p \in Parts}

-----------------------------------------------------------------------------
(***************************************************************************)
(* Groups and channels that share the id 5; 6 is a broadcast channel, as   *)
(* is 5.  Two users, one of whom writes to the bot.                        *)
(***************************************************************************)
Update(k, p, u, o, w) == [kind |-> k, peer |-> p, user |-> u, out |-> o, whole |-> w]

SomeUpdates ==
  {Update(k, Channel(5), 1, FALSE, TRUE) : k \in {"new_channel_message", "channel_participant", "edit_channel_message"}}
  \cup {Update("new_message", p, u, FALSE, TRUE) : p \in {Group(5), User(1)}, u \in {1, NoUser}}
  \cup {Update("new_channel_message", Channel(7), NoUser, FALSE, TRUE),
        Update("edit_channel_message", Channel(7), 1, TRUE, TRUE),
        Update("edit_message", Group(5), 1, FALSE, FALSE),
        Update("chat_participant", Group(5), 2, FALSE, TRUE),
        Update("callback", User(1), 1, FALSE, TRUE),
        Update("poll_vote", User(1), NoUser, FALSE, TRUE),
        Update("poll_vote", Channel(5), NoUser, FALSE, TRUE),
        Update("reaction", Group(5), 1, FALSE, TRUE),
        Update("chat_reaction", Group(5), 7, FALSE, TRUE),
        Update("invite_requester", Channel(5), 2, FALSE, TRUE),
        Update("new_business_message", User(1), 1, TRUE, TRUE),
        Update("other", User(1), NoUser, FALSE, TRUE)}

(* The kinds that differ from one of those in the field only.              *)
MoreUpdates ==
  {Update(k, User(2), 2, FALSE, TRUE) :
     k \in {"inline_callback", "inline_query", "inline_send", "poll", "business_connect",
            "edit_business_message", "delete_business_message", "paid_media"}}
  \cup {Update(k, Channel(7), NoUser, FALSE, TRUE) : k \in {"reactions", "boost"}}
  \cup {Update("poll", User(2), NoUser, FALSE, FALSE)}

SmallContainers ==
  {[type |-> "short", update |-> u] : u \in SomeUpdates}
  \cup {[type |-> "updates", updates |-> <<u, v>>] : u \in MoreUpdates, v \in {Update("callback", User(2), 2, FALSE, TRUE)}}
  \cup {[type |-> "short_message", user |-> 2, out |-> o] : o \in BOOLEAN}
  \cup {[type |-> "short_chat_message", chat |-> 5, user |-> 1, out |-> FALSE],
        [type |-> "too_long"]}
=============================================================================
