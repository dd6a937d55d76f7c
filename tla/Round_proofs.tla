---------------------------- MODULE Round_proofs ----------------------------
(***************************************************************************)
(* What a consumer does with the buffer in a round, and what the models of *)
(* the consumers take for one step each: Wait, and the translation of what *)
(* it returned.                                                            *)
(***************************************************************************)
EXTENDS BufferWait, Translation, TLAPS

-----------------------------------------------------------------------------
(* Wait.                                                                   *)

Waiting == {"test", "ctx", "join", "park", "asleep", "return"}

(* The waiter returns while it holds mu, which keeps whoever would change  *)
(* what it found; the deadline is set before it is compared.               *)
WaitInv ==
  /\ ready \in BOOLEAN
  /\ now \in Nat /\ deadline \in Nat
  /\ wpc \in {"call", "enter", "armed", "done"} \cup Waiting
  /\ wpc \in {"enter", "armed", "test", "ctx", "join", "park", "return"} => mu = "waiter"
  /\ result = "none" <=> wpc # "done"
  /\ wpc \in {"armed"} \cup Waiting => Timeout > 0
  /\ wpc \in {"call", "enter", "armed"} => deadline = 0
  /\ wpc \in Waiting => deadline > 0
  /\ wpc = "return" => ready \/ Over

Returns == OneStep!ReturnItems \/ OneStep!ReturnNothing \/ OneStep!Others

LEMMA WaiterKeeps ==
  ASSUME WaitInv, Waiter
  PROVE  WaitInv' /\ Returns
<1> USE WaitAssumption DEF WaitInv, Waiting, Over
<1>1. CASE LockMu \/ Arm \/ SetDeadline \/ TestLoop \/ TestCtx \/ Join \/ Park \/ WakeUp
  <2>1. UNCHANGED <<ready, result, now, ctx>>
    BY <1>1 DEF LockMu, Arm, SetDeadline, TestLoop, TestCtx, Join, Park, WakeUp
  <2>2. Over => Over'
    BY <1>1 DEF LockMu, Arm, SetDeadline, TestLoop, TestCtx, Join, Park, WakeUp
  <2>3. WaitInv'
    <3>1. CASE LockMu \/ Arm
      BY <3>1 DEF LockMu, Arm
    <3>2. CASE SetDeadline
      BY <3>2 DEF SetDeadline
    <3>3. CASE TestLoop
      BY <3>3 DEF TestLoop
    <3>4. CASE TestCtx
      BY <3>4 DEF TestCtx
    <3>5. CASE Join \/ Park \/ WakeUp
      BY <3>5 DEF Join, Park, WakeUp
    <3> QED BY <1>1, <3>1, <3>2, <3>3, <3>4, <3>5
  <2> QED BY <2>1, <2>2, <2>3 DEF Returns, OneStep!Others
<1>2. CASE ReturnAtOnce
  BY <1>2 DEF ReturnAtOnce, Returns, OneStep!ReturnItems, OneStep!ReturnNothing
<1>3. CASE Leave
  BY <1>3 DEF Leave, Returns, OneStep!ReturnItems, OneStep!ReturnNothing
<1> QED BY <1>1, <1>2, <1>3 DEF Waiter

LEMMA OthersKeepWait ==
  ASSUME WaitInv, Push \/ Clear \/ Fire \/ Cancel \/ Watch \/ Tick
  PROVE  WaitInv' /\ Returns
<1> USE WaitAssumption DEF WaitInv, Waiting, Over
<1>1. CASE Push \/ Clear
  <2>1. /\ wpc # "return" /\ ready' \in BOOLEAN
        /\ UNCHANGED <<wpc, mu, now, deadline, ctx, result>>
    BY <1>1 DEF Push, Clear
  <2>2. WaitInv'
    BY <2>1
  <2>3. Over' = Over
    BY <2>1
  <2> QED BY <2>1, <2>2, <2>3 DEF Returns, OneStep!Others
<1>2. CASE Fire \/ Cancel \/ Watch
  <2>1. /\ UNCHANGED <<wpc, mu, now, deadline, ready, result>>
        /\ ctx = "cancelled" => ctx' = "cancelled"
    BY <1>2 DEF Fire, Cancel, Watch
  <2>2. Over => Over'
    BY <2>1
  <2>3. WaitInv'
    BY <2>1
  <2> QED BY <2>1, <2>2, <2>3 DEF Returns, OneStep!Others
<1>3. CASE Tick
  <2>1. UNCHANGED <<wpc, mu, ctx, deadline, ready, result>> /\ now' = now + 1
    BY <1>3 DEF Tick
  <2>2. Over => Over'
    BY <2>1
  <2>3. WaitInv'
    BY <2>1
  <2> QED BY <2>1, <2>2, <2>3 DEF Returns, OneStep!Others
<1> QED BY <1>1, <1>2, <1>3

(***************************************************************************)
(* For any timeout, Wait looks to its caller like one step.                *)
(***************************************************************************)
THEOREM WaitIsOneStep == Safety => ImplementsOneStep
<1>1. Init => WaitInv /\ OneStep!Init
  BY WaitAssumption DEF Init, WaitInv, Waiting, OneStep!Init, Over
<1>2. WaitInv /\ [Next]_vars => WaitInv' /\ [Returns]_<<ready, Over, result>>
  <2> SUFFICES ASSUME WaitInv, [Next]_vars
               PROVE  WaitInv' /\ [Returns]_<<ready, Over, result>>
    OBVIOUS
  <2>1. CASE Next
    BY <2>1, WaiterKeeps, OthersKeepWait DEF Next
  <2>2. CASE UNCHANGED vars
    BY <2>2 DEF vars, WaitInv, Over
  <2> QED BY <2>1, <2>2
<1> QED BY <1>1, <1>2, PTL DEF Safety, ImplementsOneStep, OneStep!Spec, Returns
-----------------------------------------------------------------------------
(* The translation of a round.                                             *)

ChatMaps == [Groups \cup Channels -> {"none", "group", "channel"}]
KnownUsers == SUBSET (Users \cup {Self})

Entries ==
  {Untranslated(u) : u \in Brought} \cup
  {Entry(u, b, c, k1, k2) :
     u \in Brought, b \in BOOLEAN, c \in ChatMaps, k1 \in KnownUsers, k2 \in KnownUsers}

RoundInv ==
  /\ queue \in Seq(Brought)
  /\ chats \in ChatMaps
  /\ users \in KnownUsers
  /\ shown \in Seq(Entries)
  /\ round = "arriving" => shown = <<>>

(* What the map of chats knows it keeps.                                   *)
Grows(c, d) == \A id \in Groups \cup Channels : c[id] # "none" => d[id] = c[id]

(* What an entry shows is known to the context when the entry is made, and *)
(* after.                                                                  *)
KindOf(p) == IF p.type = "chat" THEN "group" ELSE p.type

DetailsKnown(e, c, known) ==
  HasChat(e) /\ e.chat.details # "none" =>
    IF e.update.peer.type = "user" THEN e.update.peer.id \in known
    ELSE c[e.update.peer.id] = KindOf(e.update.peer)

NamedKnown(e, known) == e.named => Sender(e.update) \in known

ShownIsKnown ==
  \A i \in DOMAIN shown : DetailsKnown(shown[i], chats, users) /\ NamedKnown(shown[i], users)

KnownInv == RoundInv /\ ShownIsKnown /\ OnceKnownStaysKnown

-----------------------------------------------------------------------------
(* The look-ups.                                                           *)

LEMMA ChatLookup ==
  ASSUME NEW c \in ChatMaps, NEW id, NEW d \in Chat(c, id)
  PROVE  d \in ChatMaps /\ Grows(c, d)
BY DEF Chat, ChatMaps, Answers, Grows

LEMMA UserLookups ==
  ASSUME NEW known \in KnownUsers, NEW id, NEW k \in UserLookup(known, id)
  PROVE  k \in KnownUsers /\ known \subseteq k
BY DEF UserLookup, KnownUsers

LEMMA GrowsOn ==
  ASSUME NEW b \in ChatMaps, NEW c \in ChatMaps, NEW d \in ChatMaps, Grows(b, c), Grows(c, d)
  PROVE  Grows(b, d)
BY DEF Grows

(* One update of the round, whatever it is.                                *)
Extends(u, e) ==
  \/ e = Untranslated(u) /\ UNCHANGED <<chats, users>>
  \/ \E c1, c2 \in ChatMaps, k1, k2 \in KnownUsers :
       /\ Grows(chats, c1) /\ Grows(c1, c2) /\ Grows(c2, chats')
       /\ users \subseteq k1 /\ k1 \subseteq k2 /\ users' = k2
       /\ e = Entry(u, IsBroadcast(c1, u.peer), c2, k1, k2)

LEMMA OneUpdate ==
  ASSUME RoundInv, UpdateToBotAPI
  PROVE  /\ chats' \in ChatMaps /\ users' \in KnownUsers
         /\ round = "translating" /\ UNCHANGED <<queue, round>>
         /\ \E u \in Brought, e \in Entries : shown' = Append(shown, e) /\ Extends(u, e)
<1> DEFINE u == queue[Len(shown) + 1]
           p == u.peer
<1>1. u \in Brought
  <2>1. Len(shown) + 1 \in 1..Len(queue)
    BY DEF RoundInv, UpdateToBotAPI
  <2> QED BY <2>1 DEF RoundInv
<1>2. round = "translating" /\ UNCHANGED <<queue, round>>
  BY DEF UpdateToBotAPI
<1>3. CASE ~Translates(u)
  <2>1. shown' = Append(shown, Untranslated(u)) /\ UNCHANGED <<users, chats>>
    BY <1>3 DEF UpdateToBotAPI
  <2>2. Untranslated(u) \in Entries
    BY <1>1 DEF Entries
  <2> QED BY <1>1, <1>2, <2>1, <2>2 DEF RoundInv, Extends
<1>4. CASE Translates(u)
  <2> DEFINE channelMessage == u.kind \in {"new_channel_message", "edit_channel_message"}
  <2>1. PICK c1 \in IF channelMessage THEN Chat(chats, p.id) ELSE {chats} :
        \E c2 \in IF u.kind \in WithChat /\ p.type # "user" THEN Chat(c1, p.id) ELSE {c1} :
        \E c3 \in IF u.kind = "chat_reaction" THEN Chat(c2, u.user) ELSE {c2} :
        \E u1 \in IF u.kind \in WithChat /\ p.type = "user" THEN UserLookup(users, p.id) ELSE {users} :
        \E u2 \in IF u.kind \in WithUser /\ ShowsUser(u) THEN UserLookup(u1, Sender(u)) ELSE {u1} :
          /\ shown' = Append(shown, Entry(u, IsBroadcast(c1, p), c2, u1, u2))
          /\ chats' = c3
          /\ users' = u2
    BY <1>4 DEF UpdateToBotAPI
  <2>2. PICK c2 \in IF u.kind \in WithChat /\ p.type # "user" THEN Chat(c1, p.id) ELSE {c1} :
        \E c3 \in IF u.kind = "chat_reaction" THEN Chat(c2, u.user) ELSE {c2} :
        \E u1 \in IF u.kind \in WithChat /\ p.type = "user" THEN UserLookup(users, p.id) ELSE {users} :
        \E u2 \in IF u.kind \in WithUser /\ ShowsUser(u) THEN UserLookup(u1, Sender(u)) ELSE {u1} :
          /\ shown' = Append(shown, Entry(u, IsBroadcast(c1, p), c2, u1, u2))
          /\ chats' = c3
          /\ users' = u2
    BY <2>1
  <2>3. PICK c3 \in IF u.kind = "chat_reaction" THEN Chat(c2, u.user) ELSE {c2} :
        \E u1 \in IF u.kind \in WithChat /\ p.type = "user" THEN UserLookup(users, p.id) ELSE {users} :
        \E u2 \in IF u.kind \in WithUser /\ ShowsUser(u) THEN UserLookup(u1, Sender(u)) ELSE {u1} :
          /\ shown' = Append(shown, Entry(u, IsBroadcast(c1, p), c2, u1, u2))
          /\ chats' = c3
          /\ users' = u2
    BY <2>2
  <2>4. PICK u1 \in IF u.kind \in WithChat /\ p.type = "user" THEN UserLookup(users, p.id) ELSE {users} :
        \E u2 \in IF u.kind \in WithUser /\ ShowsUser(u) THEN UserLookup(u1, Sender(u)) ELSE {u1} :
          /\ shown' = Append(shown, Entry(u, IsBroadcast(c1, p), c2, u1, u2))
          /\ chats' = c3
          /\ users' = u2
    BY <2>3
  <2>5. PICK u2 \in IF u.kind \in WithUser /\ ShowsUser(u) THEN UserLookup(u1, Sender(u)) ELSE {u1} :
          /\ shown' = Append(shown, Entry(u, IsBroadcast(c1, p), c2, u1, u2))
          /\ chats' = c3
          /\ users' = u2
    BY <2>4
  <2>6. c1 \in ChatMaps /\ Grows(chats, c1)
    BY ChatLookup DEF RoundInv, Grows
  <2>7. c2 \in ChatMaps /\ Grows(c1, c2)
    BY <2>6, ChatLookup DEF Grows
  <2>8. c3 \in ChatMaps /\ Grows(c2, c3)
    BY <2>7, ChatLookup DEF Grows
  <2>9. u1 \in KnownUsers /\ users \subseteq u1
    BY UserLookups DEF RoundInv
  <2>10. u2 \in KnownUsers /\ u1 \subseteq u2
    BY <2>9, UserLookups
  <2> DEFINE e == Entry(u, IsBroadcast(c1, p), c2, u1, u2)
  <2>11. e \in Entries
    <3>1. IsBroadcast(c1, p) \in BOOLEAN
      BY DEF IsBroadcast
    <3> QED BY <3>1, <1>1, <2>7, <2>9, <2>10 DEF Entries
  <2>12. Extends(u, e)
    BY <2>5, <2>6, <2>7, <2>8, <2>9, <2>10 DEF Extends
  <2> QED BY <1>1, <1>2, <2>5, <2>8, <2>10, <2>11, <2>12
<1> QED BY <1>3, <1>4

LEMMA RoundStep ==
  ASSUME RoundInv, [TranslationNext]_translationVars
  PROVE  RoundInv'
<1>1. ASSUME NEW c \in Containers, dispatchIntercepted(c)
      PROVE  RoundInv'
  <2>1. Inner(c) \in Seq(Brought)
    BY ContainersAssumption
  <2>2. queue' \in Seq(Brought)
    BY <1>1, <2>1 DEF dispatchIntercepted, RoundInv
  <2> QED BY <1>1, <2>2 DEF dispatchIntercepted, RoundInv
<1>2. CASE BuildTranslateContext
  BY <1>2 DEF BuildTranslateContext, RoundInv, ChatMaps, KnownUsers
<1>3. CASE UpdateToBotAPI
  <2>1. PICK u \in Brought, e \in Entries : shown' = Append(shown, e) /\ Extends(u, e)
    BY <1>3, OneUpdate
  <2>2. shown' \in Seq(Entries)
    BY <2>1 DEF RoundInv
  <2> QED BY <1>3, <2>2, OneUpdate DEF RoundInv
<1>4. CASE UNCHANGED translationVars
  BY <1>4 DEF translationVars, RoundInv
<1> QED BY <1>1, <1>2, <1>3, <1>4 DEF TranslationNext

LEMMA RoundHolds == TranslationSpec => []RoundInv
<1>1. TranslationInit => RoundInv
  BY DEF TranslationInit, RoundInv, ChatMaps, KnownUsers
<1> QED BY <1>1, RoundStep, PTL DEF TranslationSpec

-----------------------------------------------------------------------------
(* Entries.                                                                *)

LEMMA PeerTypes ==
  ASSUME NEW p \in Peers
  PROVE  \/ p = User(p.id) /\ p.id \in Users
         \/ p = Group(p.id) /\ p.id \in Groups
         \/ p = Channel(p.id) /\ p.id \in Channels
BY DEF Peers, User, Group, Channel

(* Ids of users are positive, those of groups above -ChannelBase, those of *)
(* channels below.                                                         *)
LEMMA IdsTellApart ==
  ASSUME NEW p \in Peers, NEW q \in Peers
  PROVE  PeerToBotAPIChatID(p) = PeerToBotAPIChatID(q) <=> p = q
<1> USE TranslationAssumption, PeerTypes DEF PeerToBotAPIChatID, User, Group, Channel
<1>1. \/ p.type = "user" /\ PeerToBotAPIChatID(p) \in Int /\ PeerToBotAPIChatID(p) > 0
      \/ p.type = "chat" /\ PeerToBotAPIChatID(p) \in Int
                         /\ PeerToBotAPIChatID(p) < 0 /\ PeerToBotAPIChatID(p) > -ChannelBase
      \/ p.type = "channel" /\ PeerToBotAPIChatID(p) \in Int /\ PeerToBotAPIChatID(p) < -ChannelBase
  OBVIOUS
<1>2. \/ q.type = "user" /\ PeerToBotAPIChatID(q) \in Int /\ PeerToBotAPIChatID(q) > 0
      \/ q.type = "chat" /\ PeerToBotAPIChatID(q) \in Int
                         /\ PeerToBotAPIChatID(q) < 0 /\ PeerToBotAPIChatID(q) > -ChannelBase
      \/ q.type = "channel" /\ PeerToBotAPIChatID(q) \in Int /\ PeerToBotAPIChatID(q) < -ChannelBase
  OBVIOUS
<1>3. PeerToBotAPIChatID(p) = PeerToBotAPIChatID(q) => p.type = q.type
  BY <1>1, <1>2
<1>4. ASSUME p.type = q.type, PeerToBotAPIChatID(p) = PeerToBotAPIChatID(q)
      PROVE  p = q
  BY <1>4
<1> QED BY <1>3, <1>4

LEMMA EntryShows ==
  ASSUME NEW e \in Entries, HasChat(e)
  PROVE  /\ e.update \in Brought /\ e.update.peer \in Peers
         /\ e.chat.id = PeerToBotAPIChatID(e.update.peer)
         /\ OwnDetails(e)
<1>1. PICK u \in Brought, b \in BOOLEAN, c \in ChatMaps, k1 \in KnownUsers, k2 \in KnownUsers :
        e = Entry(u, b, c, k1, k2)
  BY DEF Entries, Untranslated, HasChat
<1>2. e.update = u /\ ShowsChat(u) /\ e.chat = ChatFromPeerCtx(u, c, k1)
  BY <1>1 DEF Entry, HasChat
<1>3. u.peer \in Peers
  BY <1>2, ContainersAssumption
<1>4. /\ e.chat.id = PeerToBotAPIChatID(u.peer)
      /\ e.chat.details \in {"none", IF u.peer.type = "chat" THEN "group" ELSE u.peer.type}
  BY <1>2, <1>3, PeerTypes DEF ChatFromPeerCtx, User, Group, Channel
<1>5. e.chat.type = "channel" => u.peer.type = "channel" /\ u.peer.id \in Broadcasts
  BY <1>2, <1>3, PeerTypes DEF ChatFromPeerCtx, IsBroadcast, User, Group, Channel
<1> QED BY <1>2, <1>3, <1>4, <1>5 DEF OwnDetails

(***************************************************************************)
(* No chat is shown as another, whatever ids groups and channels share and *)
(* however many updates a round translates.                                *)
(***************************************************************************)
THEOREM RoundTellsApart == TranslationSpec => []ChatsToldApart
<1>1. RoundInv => ChatsToldApart
  <2> SUFFICES ASSUME RoundInv, NEW i \in DOMAIN shown, NEW j \in DOMAIN shown,
                      HasChat(shown[i]), HasChat(shown[j])
               PROVE  /\ OwnDetails(shown[i])
                      /\ shown[i].chat.id = shown[j].chat.id <=>
                           shown[i].update.peer = shown[j].update.peer
    BY DEF ChatsToldApart
  <2>1. shown[i] \in Entries /\ shown[j] \in Entries
    BY DEF RoundInv
  <2> QED BY <2>1, EntryShows, IdsTellApart
<1> QED BY <1>1, RoundHolds, PTL

-----------------------------------------------------------------------------
(* What a round knows.                                                     *)

(* A new entry is known when it is made and stays known.                   *)
LEMMA NewIsKnown ==
  ASSUME RoundInv, NEW u \in Brought, NEW e \in Entries, Extends(u, e), chats' \in ChatMaps
  PROVE  /\ e.update = u
         /\ DetailsKnown(e, chats', users') /\ NamedKnown(e, users')
<1>1. CASE e = Untranslated(u)
  BY <1>1 DEF Untranslated, DetailsKnown, NamedKnown, HasChat
<1>2. CASE e # Untranslated(u)
  <2>1. PICK c1 \in ChatMaps, c2 \in ChatMaps, k1 \in KnownUsers, k2 \in KnownUsers :
          /\ Grows(c2, chats')
          /\ k1 \subseteq k2 /\ users' = k2
          /\ e = Entry(u, IsBroadcast(c1, u.peer), c2, k1, k2)
    BY <1>2 DEF Extends
  <2>2. e.update = u
    BY <2>1 DEF Entry
  <2>3. NamedKnown(e, users')
    BY <2>1, <2>2 DEF Entry, NamedKnown
  <2>4. ASSUME HasChat(e), e.chat.details # "none"
        PROVE  IF u.peer.type = "user" THEN u.peer.id \in users'
               ELSE chats'[u.peer.id] = KindOf(u.peer)
    <3>1. u.peer \in Peers
      BY <2>2, <2>4, EntryShows
    <3>2. e.chat = ChatFromPeerCtx(u, c2, k1)
      BY <2>1, <2>4 DEF Entry, HasChat
    <3>3. CASE u.peer.type = "user"
      BY <2>1, <2>4, <3>2, <3>3 DEF ChatFromPeerCtx
    <3>4. CASE u.peer.type # "user"
      <4>1. u.peer.id \in Groups \cup Channels
        BY <3>1, <3>4, PeerTypes DEF User
      <4>2. c2[u.peer.id] = KindOf(u.peer) /\ c2[u.peer.id] # "none"
        BY <2>4, <3>2, <3>4 DEF ChatFromPeerCtx, KindOf
      <4> QED BY <2>1, <3>4, <4>1, <4>2 DEF Grows
    <3> QED BY <3>3, <3>4
  <2> QED BY <2>2, <2>3, <2>4 DEF DetailsKnown
<1> QED BY <1>1, <1>2

(* What the context knew before, the new entry shows.                      *)
ShowsWhat(a, b) ==
  /\ HasChat(a) /\ HasChat(b) /\ a.update.peer = b.update.peer /\ a.chat.details # "none" =>
       /\ b.chat.details # "none"
       /\ b.update.kind = "new_channel_message" /\ b.update.peer.id \in Broadcasts =>
            b.field = "channel_post"
  /\ a.named /\ ShowsUser(b.update) /\ b.field # "nil" /\ Sender(a.update) = Sender(b.update) =>
       b.named

LEMMA KnownIsShown ==
  ASSUME RoundInv, NEW a \in Entries, NEW u \in Brought, NEW b \in Entries, Extends(u, b),
         DetailsKnown(a, chats, users), NamedKnown(a, users)
  PROVE  ShowsWhat(a, b)
<1>1. CASE b = Untranslated(u)
  BY <1>1 DEF Untranslated, ShowsWhat, HasChat
<1>2. CASE b # Untranslated(u)
  <2>1. PICK c1 \in ChatMaps, c2 \in ChatMaps, k1 \in KnownUsers, k2 \in KnownUsers :
          /\ Grows(chats, c1) /\ Grows(c1, c2)
          /\ users \subseteq k1 /\ k1 \subseteq k2
          /\ b = Entry(u, IsBroadcast(c1, u.peer), c2, k1, k2)
    BY <1>2 DEF Extends
  <2>2. b.update = u /\ b.field = Field(u, IsBroadcast(c1, u.peer))
        /\ b.named = (ShowsUser(u) /\ Sender(u) \in k2)
    BY <2>1 DEF Entry
  <2>3. ASSUME a.named, ShowsUser(b.update), Sender(a.update) = Sender(b.update)
        PROVE  b.named
    BY <2>1, <2>2, <2>3 DEF NamedKnown
  <2>4. ASSUME HasChat(a), HasChat(b), a.update.peer = b.update.peer, a.chat.details # "none"
        PROVE  /\ b.chat.details # "none"
               /\ u.kind = "new_channel_message" /\ u.peer.id \in Broadcasts =>
                    b.field = "channel_post"
    <3>1. u.peer \in Peers
      BY <2>2, <2>4, EntryShows
    <3>2. b.chat = ChatFromPeerCtx(u, c2, k1)
      BY <2>1, <2>4 DEF Entry, HasChat
    <3>3. CASE u.peer.type = "user"
      <4>1. u.peer.id \in k1
        BY <2>1, <2>2, <2>4, <3>3 DEF DetailsKnown
      <4>2. u.kind # "new_channel_message"
        BY <3>3, ContainersAssumption
      <4> QED BY <3>2, <3>3, <4>1, <4>2 DEF ChatFromPeerCtx
    <3>4. CASE u.peer.type # "user"
      <4>1. u.peer.id \in Groups \cup Channels
        BY <3>1, <3>4, PeerTypes DEF User
      <4>2. chats[u.peer.id] = KindOf(u.peer)
        BY <2>2, <2>4, <3>4 DEF DetailsKnown
      <4>3. KindOf(u.peer) # "none"
        BY <3>1, PeerTypes DEF KindOf, User, Group, Channel
      <4>4. c1[u.peer.id] = KindOf(u.peer) /\ c2[u.peer.id] = KindOf(u.peer)
        BY <2>1, <4>1, <4>2, <4>3 DEF Grows
      <4>5. b.chat.details # "none"
        BY <3>2, <3>4, <4>3, <4>4 DEF ChatFromPeerCtx, KindOf
      <4>6. ASSUME u.kind = "new_channel_message", u.peer.id \in Broadcasts
            PROVE  b.field = "channel_post"
        <5>1. u.peer.type = "channel"
          BY <4>6, ContainersAssumption
        <5>2. IsBroadcast(c1, u.peer)
          BY <4>4, <4>6, <5>1 DEF IsBroadcast, KindOf
        <5> QED BY <2>2, <4>6, <5>2 DEF Field
      <4> QED BY <4>5, <4>6
    <3> QED BY <3>3, <3>4
  <2> QED BY <2>2, <2>3, <2>4 DEF ShowsWhat
<1> QED BY <1>1, <1>2

LEMMA KnownStep ==
  ASSUME KnownInv, [TranslationNext]_translationVars
  PROVE  KnownInv'
<1> USE DEF KnownInv
<1>1. RoundInv'
  BY RoundStep
<1>2. CASE UNCHANGED <<shown, chats, users>>
  BY <1>1, <1>2 DEF ShownIsKnown, OnceKnownStaysKnown, DetailsKnown, NamedKnown, HasChat
<1>3. CASE BuildTranslateContext
  <2>1. shown' = <<>>
    BY <1>3 DEF BuildTranslateContext, RoundInv
  <2> QED BY <1>1, <2>1 DEF ShownIsKnown, OnceKnownStaysKnown
<1>4. CASE UpdateToBotAPI
  <2>1. PICK u \in Brought, e \in Entries : shown' = Append(shown, e) /\ Extends(u, e)
    BY <1>4, OneUpdate
  <2>2. /\ chats \in ChatMaps /\ chats' \in ChatMaps
        /\ Grows(chats, chats') /\ users \subseteq users'
    <3>1. chats \in ChatMaps /\ chats' \in ChatMaps
      BY <1>4, OneUpdate DEF RoundInv
    <3> QED BY <2>1, <3>1, GrowsOn DEF Extends, Grows
  <2>3. /\ DOMAIN shown' = 1..(Len(shown) + 1) /\ DOMAIN shown = 1..Len(shown) /\ Len(shown) \in Nat
        /\ \A i \in 1..Len(shown) : shown'[i] = shown[i] /\ shown[i] \in Entries
        /\ shown'[Len(shown) + 1] = e
    BY <2>1 DEF RoundInv
  <2>4. ASSUME NEW a \in Entries, DetailsKnown(a, chats, users), NamedKnown(a, users)
        PROVE  DetailsKnown(a, chats', users') /\ NamedKnown(a, users')
    <3>1. NamedKnown(a, users')
      BY <2>2, <2>4 DEF NamedKnown
    <3>2. ASSUME HasChat(a), a.chat.details # "none"
          PROVE  IF a.update.peer.type = "user" THEN a.update.peer.id \in users'
                 ELSE chats'[a.update.peer.id] = KindOf(a.update.peer)
      <4>1. a.update.peer \in Peers
        BY <2>4, <3>2, EntryShows
      <4>2. KindOf(a.update.peer) # "none"
        BY <4>1, PeerTypes DEF KindOf, User, Group, Channel
      <4>3. a.update.peer.type # "user" => a.update.peer.id \in Groups \cup Channels
        BY <4>1, PeerTypes DEF User
      <4> QED BY <2>2, <2>4, <3>2, <4>2, <4>3 DEF DetailsKnown, Grows
    <3> QED BY <3>1, <3>2 DEF DetailsKnown
  <2>5. ShownIsKnown'
    <3> SUFFICES ASSUME NEW i \in DOMAIN shown'
                 PROVE  DetailsKnown(shown'[i], chats', users') /\ NamedKnown(shown'[i], users')
      BY DEF ShownIsKnown, DetailsKnown, NamedKnown, HasChat
    <3>1. CASE i = Len(shown) + 1
      BY <2>1, <2>2, <2>3, <3>1, NewIsKnown
    <3>2. CASE i \in DOMAIN shown
      BY <2>3, <2>4, <3>2 DEF ShownIsKnown
    <3> QED BY <2>3, <3>1, <3>2
  <2>6. OnceKnownStaysKnown'
    <3> SUFFICES ASSUME NEW j \in DOMAIN shown', NEW i \in 1..(j - 1)
                 PROVE  ShowsWhat(shown'[i], shown'[j])
      BY DEF OnceKnownStaysKnown, ShowsWhat, HasChat, ShowsUser, Sender
    <3>1. i \in DOMAIN shown
      BY <2>3
    <3>2. CASE j = Len(shown) + 1
      BY <2>1, <2>3, <3>1, <3>2, KnownIsShown DEF ShownIsKnown
    <3>3. CASE j \in DOMAIN shown
      BY <2>3, <3>1, <3>3 DEF OnceKnownStaysKnown, ShowsWhat
    <3> QED BY <2>3, <3>2, <3>3
  <2> QED BY <1>1, <2>5, <2>6
<1> QED BY <1>2, <1>3, <1>4 DEF TranslationNext, dispatchIntercepted, translationVars

(***************************************************************************)
(* What a round has named once it goes on naming, however long it is and   *)
(* whichever look-ups fail: the context only learns.                       *)
(***************************************************************************)
THEOREM RoundStaysKnown == TranslationSpec => []OnceKnownStaysKnown
<1>1. TranslationInit => KnownInv
  BY DEF TranslationInit, KnownInv, RoundInv, ChatMaps, KnownUsers, ShownIsKnown, OnceKnownStaysKnown
<1> QED BY <1>1, KnownStep, PTL DEF TranslationSpec, KnownInv
=============================================================================
