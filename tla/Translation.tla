---------------------------- MODULE Translation ----------------------------
(***************************************************************************)
(* From the transport to the Bot API: the tap unpacks MTProto containers   *)
(* (Bot.dispatchIntercepted), and a round of getUpdates or of a deliverer  *)
(* translates what is pending (internal/tlate) in one TranslateContext.    *)
(* The context starts with the bot itself and remembers what the look-ups  *)
(* in gogram found; a look-up may fail, and is then tried again.           *)
(*                                                                         *)
(* Of an update the model keeps what decides whether it is translated,     *)
(* into which field, and whose names it is given.  Basic groups and        *)
(* channels have ids of their own that may coincide, and share the one     *)
(* map of chats.                                                           *)
(***************************************************************************)
EXTENDS Integers, Sequences

CONSTANTS
  Self,        \* the bot's user id
  Users,       \* ids of users
  Groups,      \* ids of basic groups
  Channels,    \* ids of channels and supergroups
  Broadcasts,  \* those that are broadcast channels
  ChannelBase, \* what a channel's id is moved by: 10^12
  Containers,  \* what the transport may bring: see Inner
  MaxUpdates   \* bound: pending updates

ASSUME TranslationAssumption ==
  /\ Broadcasts \subseteq Channels
  /\ Users \cup Groups \cup Channels \cup {Self} \subseteq Nat \ {0}
  /\ ChannelBase \in Nat
  /\ \A g \in Groups : g < ChannelBase

NoUser == 0    \* an update without a sender

VARIABLES
  queue,       \* the pending updates
  round,       \* "arriving", then "translating"
  users,       \* TranslateContext.Users
  chats,       \* TranslateContext.Chats: bare id -> "none", "group" or "channel"
  shown        \* the updates translated so far, with what came of them

translationVars == <<queue, round, users, chats, shown>>

Message(p, sender, isOut) ==
  [kind |-> "new_message", peer |-> p, user |-> sender, out |-> isOut, whole |-> TRUE]

User(id) == [type |-> "user", id |-> id]
Group(id) == [type |-> "chat", id |-> id]
Channel(id) == [type |-> "channel", id |-> id]

TranslationInit ==
  /\ queue = <<>>
  /\ round = "arriving"
  /\ users = {Self}
  /\ chats = [id \in Groups \cup Channels |-> "none"]
  /\ shown = <<>>

-----------------------------------------------------------------------------
(***************************************************************************)
(* The tap.  The short forms carry a message without its peer; what is in  *)
(* no container known here (a note that there is too much, an             *)
(* acknowledgement) is ignored.                                            *)
(***************************************************************************)
Inner(c) ==
  CASE c.type \in {"updates", "combined"} -> c.updates
    [] c.type = "short" -> <<c.update>>
    [] c.type = "short_message" -> <<Message(User(c.user), c.user, c.out)>>
    [] c.type = "short_chat_message" -> <<Message(Group(c.chat), c.user, c.out)>>
    [] OTHER -> <<>>

dispatchIntercepted(c) ==
  /\ round = "arriving"
  /\ Len(queue) + Len(Inner(c)) <= MaxUpdates
  /\ queue' = queue \o Inner(c)
  /\ UNCHANGED <<round, users, chats, shown>>

BuildTranslateContext ==
  /\ round = "arriving"
  /\ round' = "translating"
  /\ users' = {Self}
  /\ chats' = [id \in Groups \cup Channels |-> "none"]
  /\ UNCHANGED <<queue, shown>>

-----------------------------------------------------------------------------
(* UpdateToBotAPI.                                                         *)

BotMessages == {"new_message", "new_channel_message", "edit_message", "edit_channel_message"}
BusinessMessages == {"new_business_message", "edit_business_message"}
ChatMembers == {"chat_participant", "channel_participant"}

(* Messages of the bot's own, and updates whose content is missing or of   *)
(* another type, come to nothing.                                          *)
Translates(u) ==
  /\ u.kind # "other"
  /\ u.kind \in BotMessages \cup BusinessMessages \cup {"poll", "business_connect"} => u.whole
  /\ u.kind \in BotMessages => ~u.out

OtherFields ==
  [callback |-> "callback_query", inline_callback |-> "callback_query",
   inline_query |-> "inline_query", inline_send |-> "chosen_inline_result",
   poll |-> "poll", poll_vote |-> "poll_answer",
   channel_participant |-> "chat_member", chat_participant |-> "chat_member",
   invite_requester |-> "chat_join_request",
   reaction |-> "message_reaction", chat_reaction |-> "message_reaction",
   reactions |-> "message_reaction_count", boost |-> "chat_boost",
   business_connect |-> "business_connection", new_business_message |-> "business_message",
   edit_business_message |-> "edited_business_message",
   delete_business_message |-> "deleted_business_messages",
   paid_media |-> "purchased_paid_media"]

Field(u, broadcast) ==
  CASE u.kind = "new_message" -> IF u.peer.type = "channel" THEN "channel_post" ELSE "message"
    [] u.kind = "new_channel_message" -> IF broadcast THEN "channel_post" ELSE "message"
    [] u.kind = "edit_message" -> "edited_message"
    [] u.kind = "edit_channel_message" -> IF broadcast THEN "edited_channel_post" ELSE "edited_message"
    [] OTHER -> OtherFields[u.kind]

PeerToBotAPIChatID(p) ==
  CASE p.type = "user" -> p.id
    [] p.type = "chat" -> -p.id
    [] p.type = "channel" -> -ChannelBase - p.id

(* Whose names are looked up, and whose only taken if they are known.  (A  *)
(* chat_reaction is a reaction whose actor is a channel, in "user".)       *)
WithChat == BotMessages \cup BusinessMessages \cup
            {"invite_requester", "reaction", "chat_reaction", "reactions", "boost",
             "delete_business_message"}
WithUser == BotMessages \cup BusinessMessages \cup {"poll_vote", "reaction"}
KnownUser == ChatMembers \cup
             {"callback", "inline_callback", "inline_query", "inline_send", "invite_requester"}

(***************************************************************************)
(* Who the update is from: the bot for a business message sent in its      *)
(* name, the peer when a private message names nobody, the voter's peer.   *)
(***************************************************************************)
Sender(u) ==
  CASE u.kind \in BotMessages \cup BusinessMessages ->
         IF u.out THEN Self
         ELSE IF u.user # NoUser THEN u.user
         ELSE IF u.peer.type = "user" THEN u.peer.id
         ELSE NoUser
    [] u.kind = "poll_vote" -> PeerToBotAPIChatID(u.peer)
    [] u.kind \notin BotMessages \cup BusinessMessages \cup {"poll_vote"} -> u.user

ShowsChat(u) == u.kind \in WithChat \cup ChatMembers
(***************************************************************************)
(* What the transport brings is well-formed: what belongs to a chat names  *)
(* one, and a channel message names a channel.                             *)
(***************************************************************************)
Brought == UNION {{Inner(c)[i] : i \in DOMAIN Inner(c)} : c \in Containers}

Peers == {User(id) : id \in Users} \cup {Group(id) : id \in Groups} \cup {Channel(id) : id \in Channels}

ASSUME ContainersAssumption ==
  /\ \A c \in Containers : Inner(c) \in Seq(Brought)
  /\ \A u \in Brought :
       /\ ShowsChat(u) => u.peer \in Peers
       /\ u.kind \in {"new_channel_message", "edit_channel_message"} => u.peer.type = "channel"

ShowsUser(u) == u.kind \in WithUser \cup KnownUser /\ Sender(u) # NoUser

(***************************************************************************)
(* TranslateContext.Chat and User: what the maps may be after a look-up.   *)
(* gogram is asked for a channel first and for a basic group if it knows   *)
(* none or fails; what is found is kept under the bare id.                 *)
(***************************************************************************)
Answers(id) ==
  {"none"} \cup (IF id \in Channels THEN {"channel"} ELSE {})
           \cup (IF id \in Groups THEN {"group"} ELSE {})

Chat_Afresh(c, id) == {[c EXCEPT ![id] = a] : a \in Answers(id)}

Chat(c, id) == IF c[id] # "none" THEN {c} ELSE {[c EXCEPT ![id] = a] : a \in Answers(id)}

UserLookup(known, id) == IF id \in known \/ id \notin Users THEN {known} ELSE {known, known \cup {id}}

IsBroadcast(c, p) == p.type = "channel" /\ c[p.id] = "channel" /\ p.id \in Broadcasts

ChatFromPeerCtx_AnyKind(u, c, known) ==
  [id |-> PeerToBotAPIChatID(u.peer),
   details |-> IF u.peer.type = "user" THEN IF u.peer.id \in known THEN "user" ELSE "none"
               ELSE c[u.peer.id],
   type |-> CASE u.peer.type = "user" -> "private"
              [] u.peer.type = "chat" -> "group"
              [] u.peer.type = "channel" ->
                   IF c[u.peer.id] # "none" /\ u.peer.id \in Broadcasts THEN "channel" ELSE "supergroup"]

(***************************************************************************)
(* ChatFromPeerCtx and, for members, buildChatMemberUpdated: an entry of   *)
(* the map counts only if it is of the peer's kind.                        *)
(***************************************************************************)
ChatFromPeerCtx(u, c, known) ==
  LET p == u.peer
      kind == IF p.type = "chat" THEN "group" ELSE p.type
  IN [id |-> PeerToBotAPIChatID(p),
      details |-> IF p.type = "user" THEN IF p.id \in known THEN "user" ELSE "none"
                  ELSE IF c[p.id] = kind THEN kind ELSE "none",
      type |-> CASE p.type = "user" -> "private"
                 [] p.type = "chat" -> "group"
                 [] p.type = "channel" ->
                      IF IsBroadcast(c, p) THEN "channel"
                      ELSE IF u.kind \in ChatMembers /\ c[p.id] # "channel" THEN "none"
                      ELSE "supergroup"]

Entry(u, broadcast, c, chatKnown, known) ==
  [update |-> u,
   field |-> Field(u, broadcast),
   chat |-> IF ShowsChat(u) THEN ChatFromPeerCtx(u, c, chatKnown) ELSE [type |-> "nil"],
   named |-> ShowsUser(u) /\ Sender(u) \in known]

Untranslated(u) == [update |-> u, field |-> "nil", chat |-> [type |-> "nil"], named |-> FALSE]

(* One update of the round: the look-ups in their order, then the entry.   *)
UpdateToBotAPI ==
  /\ round = "translating"
  /\ Len(shown) < Len(queue)
  /\ LET u == queue[Len(shown) + 1]
         p == u.peer
         channelMessage == u.kind \in {"new_channel_message", "edit_channel_message"}
     IN IF ~Translates(u)
          THEN shown' = Append(shown, Untranslated(u)) /\ UNCHANGED <<users, chats>>
          ELSE \E c1 \in IF channelMessage THEN Chat(chats, p.id) ELSE {chats} :
               \E c2 \in IF u.kind \in WithChat /\ p.type # "user" THEN Chat(c1, p.id) ELSE {c1} :
               \E c3 \in IF u.kind = "chat_reaction" THEN Chat(c2, u.user) ELSE {c2} :
               \E u1 \in IF u.kind \in WithChat /\ p.type = "user" THEN UserLookup(users, p.id) ELSE {users} :
               \E u2 \in IF u.kind \in WithUser /\ ShowsUser(u) THEN UserLookup(u1, Sender(u)) ELSE {u1} :
                 /\ shown' = Append(shown, Entry(u, IsBroadcast(c1, p), c2, u1, u2))
                 /\ chats' = c3
                 /\ users' = u2
  /\ UNCHANGED <<queue, round>>

TranslationNext ==
  \/ \E c \in Containers : dispatchIntercepted(c)
  \/ BuildTranslateContext
  \/ UpdateToBotAPI

TranslationSpec == TranslationInit /\ [][TranslationNext]_translationVars

-----------------------------------------------------------------------------
HasChat(e) == e.chat.type # "nil"

(***************************************************************************)
(* No chat is shown as another: two updates have the same chat id exactly  *)
(* if they are from the same chat, and the title and type shown are never  *)
(* those of a group or channel that only shares its bare id, whatever is   *)
(* in the map of chats and however look-ups fail.                          *)
(***************************************************************************)
OwnDetails(e) ==
  /\ e.chat.details \in {"none", IF e.update.peer.type = "chat" THEN "group" ELSE e.update.peer.type}
  /\ e.chat.type = "channel" => e.update.peer.type = "channel" /\ e.update.peer.id \in Broadcasts

ChatsToldApart ==
  \A i, j \in DOMAIN shown : HasChat(shown[i]) /\ HasChat(shown[j]) =>
    /\ OwnDetails(shown[i])
    /\ shown[i].chat.id = shown[j].chat.id <=> shown[i].update.peer = shown[j].update.peer

(***************************************************************************)
(* What a round has once named it goes on naming: after an update that     *)
(* shows the details of a chat or a user the next ones show them too, and  *)
(* posts of that channel are told from messages, although any look-up may  *)
(* fail.  Before, they may be shown as messages.                           *)
(***************************************************************************)
OnceKnownStaysKnown ==
  \A j \in DOMAIN shown : \A i \in 1..(j - 1) :
    LET a == shown[i] b == shown[j] IN
    /\ HasChat(a) /\ HasChat(b) /\ a.update.peer = b.update.peer /\ a.chat.details # "none" =>
         /\ b.chat.details # "none"
         /\ b.update.kind = "new_channel_message" /\ b.update.peer.id \in Broadcasts =>
              b.field = "channel_post"
    /\ a.named /\ ShowsUser(b.update) /\ b.field # "nil" /\ Sender(a.update) = Sender(b.update) =>
         b.named
=============================================================================
