------------------------------ MODULE Methods ------------------------------
(***************************************************************************)
(* What the handlers of the Bot API methods do, in which order: a handler  *)
(* tests the request, asks Telegram, writes temporary files, and changes   *)
(* something.  Each method has the paths its handler can take to the end;  *)
(* every step but "thumb" and "wait" may end the request instead (module   *)
(* Requests).                                                              *)
(*                                                                         *)
(*   check    a test of the request or of a peer, refused with 4xx         *)
(*   ask      an RPC or a query that changes nothing, an upload nobody     *)
(*            sees yet, or a test of something else, failed with 500       *)
(*   do       an RPC, or a write to the database, that changes something   *)
(*   confirm  a test of the answer to "do", failed with 500                *)
(*   file     resolveInputFile or handleMultipartFile, and its defer       *)
(*   thumb    the same for a thumbnail, whose failure is ignored           *)
(*   keep     the same with no os.Remove deferred                          *)
(*   wait     getUpdates takes the drain lock and waits for updates        *)
(*   refuse   501, always                                                  *)
(*                                                                         *)
(* Checks that follow one another are one step, and so are RPCs.  The path *)
(* <<>> answers from memory.  What getUpdates and the webhook methods do   *)
(* in their steps is in modules of their own (LongPoll, Webhook).          *)
(***************************************************************************)
EXTENDS Sequences

StepKinds == {"check", "ask", "do", "confirm", "file", "thumb", "keep", "wait", "refuse"}

PathsOf(group) == UNION {group[m] : m \in DOMAIN group}

(* The shapes most handlers have.                                          *)
Nothing == {<<>>}
Checked == {<<"check">>}
Do == {<<"do">>}
CheckDo == {<<"check", "do">>}
CheckAsk == {<<"check", "ask">>}
CheckAskDo == {<<"check", "ask", "do">>}
Refuse == {<<"refuse">>}

(* A peer that must be a user, a channel, a poll...                        *)
CheckPeer == <<"check", "ask", "check">>
PeerDo == {CheckPeer \o <<"do">>}
PeerAsk == {CheckPeer \o <<"ask">>}

(* editInlineMessage                                                       *)
InlineEdit == <<"check", "do">>

(* submitStarInvoice: the form, whose type may be unknown; the payment.    *)
StarInvoice == <<"ask", "do">>

(* parseCommandScope: nothing to ask, a chat, or a chat and a user.        *)
CommandScope == {<<"check">>, <<"check", "ask">>, <<"check", "ask", "check">>}

-----------------------------------------------------------------------------
(* Core, files and sending.                                                *)

CoreMethods ==
  [getme |-> Checked, logout |-> Do, close |-> Nothing, sendmessage |-> CheckDo]

UpdateMethods ==
  [getupdates |-> {<<"wait">>}, setwebhook |-> CheckDo, deletewebhook |-> Do,
   getwebhookinfo |-> {<<"ask">>}]

FileMethods ==
  [getfile |-> Checked, uploadstickerfile |-> {<<"check", "keep", "ask">>}]

(* sendMediaField                                                          *)
MediaField == {<<"check", "file", "do">>, <<"check", "file", "thumb", "do">>}

MediaMethods ==
  [m \in {"sendphoto", "sendaudio", "senddocument", "sendvideo", "sendanimation",
          "sendvoice", "sendvideonote", "sendsticker"} |-> MediaField]

PlainSends ==
  [m \in {"sendlocation", "sendvenue", "sendcontact", "senddice", "sendpoll"} |-> CheckDo]

Albums_EachAtOnce ==
  [sendmediagroup |->
     {<<"check", "do", "check", "do">>, <<"check", "file", "do", "check", "file", "do">>}]

(* Two of the entries of an album are parts of the request, or fewer; the  *)
(* entries after one of them are checked when its file has been written.   *)
Albums ==
  [sendmediagroup |->
     {<<"check", "do">>, <<"check", "file", "do">>, <<"check", "file", "check", "do">>,
      <<"check", "file", "check", "file", "do">>,
      <<"check", "file", "check", "file", "check", "do">>}]

-----------------------------------------------------------------------------
(* Chats, answers and payments.                                            *)

ChatReads ==
  [getchat |-> {<<"check", "ask">>, CheckPeer},
   getchatmember |-> {<<"check", "ask">>, CheckPeer},
   getchatmembercount |-> CheckAsk,
   getchatadministrators |-> CheckAsk]

MemberMethods ==
  [m \in {"banchatmember", "unbanchatmember", "restrictchatmember", "promotechatmember"} |->
     CheckDo]

TitleAndPins ==
  [m \in {"leavechat", "setchattitle", "pinchatmessage", "unpinchatmessage",
          "exportchatinvitelink"} |-> CheckDo]

Invoices ==
  [sendinvoice |-> CheckDo, createinvoicelink |-> {<<"check", "do", "confirm">>}]

PaymentMethods ==
  [answershippingquery |-> CheckDo, answerprecheckoutquery |-> CheckDo,
   getmystarbalance |-> {<<"ask">>}, getstartransactions |-> Nothing,
   refundstarpayment |-> PeerDo, edituserstarsubscription |-> PeerDo]

QueryAnswers == [answercallbackquery |-> CheckDo, answerinlinequery |-> CheckDo]

Extensions ==
  [resolveusername |-> {CheckPeer}, getmessages |-> Checked \cup CheckAsk]

-----------------------------------------------------------------------------
(* Editing, and what methods_edit2.go adds to it.                          *)

EditMethods ==
  [deletemessage |-> CheckDo, deletemessages |-> CheckDo,
   forwardmessage |-> {<<"check", "do", "confirm">>},
   editmessagetext |-> CheckDo \cup {InlineEdit},
   sendchataction |-> CheckAskDo]

Copies ==
  [copymessage |-> {<<"check", "do", "confirm">>}, copymessages |-> CheckDo,
   editmessagecaption |-> CheckDo \cup {InlineEdit},
   editmessagereplymarkup |-> CheckDo \cup {InlineEdit}]

MediaEdits ==
  [editmessagemedia |-> CheckDo \cup {InlineEdit, <<"check", "file", "do">>},
   editmessagelivelocation |-> CheckDo \cup {InlineEdit},
   stopmessagelivelocation |-> CheckDo \cup {InlineEdit}]

(* A reaction that names no emoji is answered without an RPC.              *)
PollsAndReactions ==
  [stoppoll |-> PeerDo,
   setmessagereaction |-> Checked \cup CheckDo \cup CheckAskDo,
   getuserprofilephotos |-> CheckAsk]

(* A new chat photo is uploaded before the chat is looked up.              *)
ChatSettings ==
  [setchatdescription |-> CheckAskDo,
   setchatphoto |-> {<<"check", "file", "ask", "check", "do">>},
   deletechatphoto |-> PeerDo,
   setchatpermissions |-> CheckAskDo,
   unpinallchatmessages |-> CheckDo]

InviteLinks ==
  [createchatinvitelink |-> CheckDo, editchatinvitelink |-> CheckAskDo,
   revokechatinvitelink |-> CheckDo,
   approvechatjoinrequest |-> CheckAskDo, declinechatjoinrequest |-> CheckAskDo]

ForumTopics ==
  [m \in {"createforumtopic", "editforumtopic", "closeforumtopic", "reopenforumtopic",
          "deleteforumtopic", "closegeneralforumtopic", "reopengeneralforumtopic",
          "hidegeneralforumtopic", "unhidegeneralforumtopic"} |-> CheckDo]
=============================================================================
