---------------------------- MODULE MoreMethods ----------------------------
(***************************************************************************)
(* The paths of the handlers in methods_misc.go, methods_stickers.go and   *)
(* methods_bot_config.go, and the set of all paths.  The notation is that  *)
(* of module Methods.                                                      *)
(***************************************************************************)
EXTENDS Methods

-----------------------------------------------------------------------------
(* methods_misc.go                                                         *)

(* The score of an inline message, or of a message in a chat that has to   *)
(* be looked up once the user is known to be one.                          *)
Games ==
  [sendgame |-> CheckDo,
   setgamescore |-> {CheckPeer \o <<"do">>, CheckPeer \o <<"ask", "do">>},
   getgamehighscores |-> PeerAsk]

ChatSenders ==
  [banchatsenderchat |-> PeerDo, unbanchatsenderchat |-> PeerDo,
   setchatadministratorcustomtitle |-> CheckDo, setchatmembertag |-> CheckDo]

MenuAndPhoto ==
  [setchatmenubutton |-> Do \cup {<<"ask", "do">>}, getchatmenubutton |-> {<<"ask">>},
   setmyprofilephoto |-> CheckDo, removemyprofilephoto |-> Do]

SubscriptionLinks ==
  [createchatsubscriptioninvitelink |-> CheckDo, editchatsubscriptioninvitelink |-> CheckAskDo]

UserMethods ==
  [getuserchatboosts |-> Nothing, getuserprofileaudios |-> Nothing,
   setuseremojistatus |-> Do \cup CheckDo, getuserpersonalchatmessages |-> CheckAsk]

BusinessMethods ==
  [getbusinessconnection |-> CheckAsk, readbusinessmessage |-> CheckAskDo,
   deletebusinessmessages |-> CheckDo, setbusinessaccountname |-> Do,
   setbusinessaccountusername |-> Do, setbusinessaccountbio |-> Do,
   setbusinessaccountprofilephoto |-> MenuAndPhoto.setmyprofilephoto,
   removebusinessaccountprofilephoto |-> MenuAndPhoto.removemyprofilephoto,
   setbusinessaccountgiftsettings |-> Nothing,
   getbusinessaccountstarbalance |-> {<<"ask">>},
   transferbusinessaccountstars |-> {<<"check">> \o StarInvoice},
   getbusinessaccountgifts |-> Nothing, getavailablegifts |-> Nothing]

(* A gift is upgraded or transferred for stars, or because it is paid for. *)
Gifts ==
  [sendgift |-> {<<"check">> \o StarInvoice},
   giftpremiumsubscription |-> {CheckPeer \o StarInvoice},
   convertgifttostars |-> CheckDo,
   upgradegift |-> CheckDo \cup {<<"check">> \o StarInvoice},
   transfergift |-> PeerDo \cup {CheckPeer \o StarInvoice},
   getusergifts |-> Nothing, getchatgifts |-> Nothing]

Verifications ==
  [verifyuser |-> PeerDo, removeuserverification |-> PeerDo,
   verifychat |-> CheckAskDo, removechatverification |-> CheckAskDo,
   setpassportdataerrors |-> Nothing]

Stories ==
  [poststory |-> CheckDo, editstory |-> CheckDo, deletestory |-> CheckDo,
   repoststory |-> CheckAskDo]

(* A live photo is two files.                                              *)
PaidAndLists ==
  [sendpaidmedia |-> CheckDo, sendlivephoto |-> {<<"check", "file", "file", "do">>},
   sendchecklist |-> CheckDo, editmessagechecklist |-> CheckDo]

WebAppMethods ==
  [answerwebappquery |-> CheckDo,
   savepreparedinlinemessage |-> {CheckPeer \o <<"do", "confirm">>},
   savepreparedkeyboardbutton |-> Refuse]

RichMessages ==
  [sendrichmessage |-> CheckAskDo, sendrichmessagedraft |-> CheckAskDo,
   answerguestquery |-> CheckDo]

EphemeralMessages ==
  [editephemeralmessagetext |-> {<<"check", "refuse">>},
   editephemeralmessagemedia |-> {<<"check", "refuse">>},
   editephemeralmessagecaption |-> Refuse, editephemeralmessagereplymarkup |-> Refuse,
   deleteephemeralmessage |-> Refuse]

ManagedBots ==
  [getmanagedbottoken |-> PeerAsk, getmanagedbotaccesssettings |-> PeerAsk,
   replacemanagedbottoken |-> PeerDo, setmanagedbotaccesssettings |-> PeerDo,
   answerchatjoinrequestquery |-> CheckAskDo, sendchatjoinrequestwebapp |-> Refuse]

PostsAndReactions ==
  [m \in {"approvesuggestedpost", "declinesuggestedpost", "deletemessagereaction",
          "deleteallmessagereactions"} |-> CheckAskDo]

-----------------------------------------------------------------------------
(* methods_stickers.go and methods_bot_config.go                           *)

StickerSets ==
  [getstickerset |-> CheckAsk, getcustomemojistickers |-> CheckAsk,
   createnewstickerset |-> PeerDo]

StickerChanges ==
  [m \in {"addstickertoset", "setstickerpositioninset", "deletestickerfromset",
          "replacestickerinset", "setstickeremojilist", "setstickerkeywords",
          "setstickermaskposition"} |-> CheckDo]

StickerSetChanges ==
  [setstickersettitle |-> CheckDo, setstickersetthumbnail |-> CheckDo,
   setcustomemojistickersetthumbnail |-> CheckDo, deletestickerset |-> CheckDo,
   getforumtopiciconstickers |-> Nothing,
   setchatstickerset |-> PeerDo, deletechatstickerset |-> PeerDo]

(* getMyCommands answers from its cache, if it can.                        *)
CommandMethods ==
  [setmycommands |-> {scope \o <<"do">> : scope \in CommandScope},
   deletemycommands |-> {scope \o <<"do">> : scope \in CommandScope},
   getmycommands |-> Nothing \cup {scope \o <<"ask">> : scope \in CommandScope}]

BotInfoMethods ==
  [m \in {"setmyname", "setmydescription", "setmyshortdescription"} |-> Do]
GetBotInfoMethods ==
  [m \in {"getmyname", "getmydescription", "getmyshortdescription"} |-> Nothing \cup {<<"ask">>}]
DefaultRights ==
  [setmydefaultadministratorrights |-> Do, getmydefaultadministratorrights |-> Nothing]

-----------------------------------------------------------------------------
AllPaths ==
  LET G(group) == PathsOf(group) IN
    G(CoreMethods) \cup G(UpdateMethods) \cup G(FileMethods) \cup G(MediaMethods)
    \cup G(PlainSends) \cup G(Albums)
    \cup G(ChatReads) \cup G(MemberMethods) \cup G(TitleAndPins) \cup G(Invoices)
    \cup G(PaymentMethods) \cup G(QueryAnswers) \cup G(Extensions)
    \cup G(EditMethods) \cup G(Copies) \cup G(MediaEdits) \cup G(PollsAndReactions)
    \cup G(ChatSettings) \cup G(InviteLinks) \cup G(ForumTopics)
    \cup G(Games) \cup G(ChatSenders) \cup G(MenuAndPhoto) \cup G(SubscriptionLinks)
    \cup G(UserMethods) \cup G(BusinessMethods) \cup G(Gifts) \cup G(Verifications)
    \cup G(Stories) \cup G(PaidAndLists) \cup G(WebAppMethods) \cup G(RichMessages)
    \cup G(EphemeralMessages) \cup G(ManagedBots) \cup G(PostsAndReactions)
    \cup G(StickerSets) \cup G(StickerChanges) \cup G(StickerSetChanges)
    \cup G(CommandMethods) \cup G(BotInfoMethods) \cup G(GetBotInfoMethods) \cup G(DefaultRights)
=============================================================================
