-------------------------------- MODULE Wire --------------------------------
(***************************************************************************)
(* The parallel protocol layers between the application and the encryption *)
(* layers.  An entity going down is offered to every sublayer in turn, and *)
(* a node coming up too; each one decides by the tag, the namespace, the   *)
(* type and the children whether it is concerned.  Nothing makes sure that *)
(* exactly one of them is.                                                 *)
(***************************************************************************)
EXTENDS MessageStructs, Stanzas, Sequences

CONSTANT Depth    \* how deep the structures in a message are varied

WireAssumption == Depth \in Nat

VARIABLES
    task,    \* what the application sends, or the server
    phase,   \* "send", then "peer" or "answer", or "hear"; "done" at the end
    rest,    \* the sublayers the entity or the node has yet to be offered to
    wire,    \* what the last sublayer to send made of it, place by place
    node,    \* the node coming up
    sent,    \* what went below this stack, in order
    rose,    \* what the application was given, in order
    fell,    \* an exception went down the thread that brought the node
    kept     \* the locks a send left taken
vars == <<task, phase, rest, wire, node, sent, rose, fell, kept>>

Nobody == "nobody"
Nothing == [atom |-> "nothing"]
Layers ==
    <<"messages", "receipts", "acks", "presence", "ib", "iq", "notifications", "contacts",
      "chatstate", "calls", "groups", "media", "privacy", "profiles">>

\* The sublayers whose handle map has the tag.
Handles(tag) ==
    CASE tag = "message"      -> {"messages", "media"}
      [] tag = "receipt"      -> {"receipts"}
      [] tag = "ack"          -> {"acks"}
      [] tag = "presence"     -> {"presence"}
      [] tag = "ib"           -> {"ib"}
      [] tag = "notification" -> {"notifications", "contacts", "groups"}
      [] tag = "chatstate"    -> {"chatstate"}
      [] tag = "call"         -> {"calls"}
      [] tag = "iq"           ->
            {"presence", "iq", "contacts", "groups", "media", "privacy", "profiles"}
Offered(tag) == LET concerned(l) == l \in Handles(tag) IN SelectSeq(Layers, concerned)

-----------------------------------------------------------------------------
(* What the application can send.                                          *)

TagOf(c) ==
    CASE c \in {"message"}                                       -> "message"
      [] c \in {"IncomingReceipt", "OutgoingReceipt"}            -> "receipt"
      [] c \in {"OutgoingAck"}                                   -> "ack"
      [] c \in {"Presence", "AvailablePresence", "UnavailablePresence", "SubscribePresence",
                "UnsubscribePresence"}                           -> "presence"
      [] c \in {"CatIb"}                                         -> "ib"
      [] c \in {"Notification"}                                  -> "notification"
      [] c \in {"OutgoingChatstate"}                             -> "chatstate"
      [] c \in {"Call"}                                          -> "call"
      [] OTHER                                                   -> "iq"

\* The namespaces of the requests that the iq layer sends, and of the others.
IqRequests ==
    {"AccountInfoIq", "CryptoIq", "GetEmailIq", "SetEmailIq", "Set2FAIq", "VerifyEmailIq",
     "VerifyEmailCodeIq", "AccountLogoutApproveIq", "AppSyncResetIq", "AppSyncStateIq",
     "GetBroadcastList", "CleanDirtyIq", "MultiDevicePairCompanionFinishIq",
     "MultiDevicePairCompanionHelloIq", "MultiDevicePairDeviceIq",
     "MultiDevicePairPrimaryHelloIq", "MultiDevicePairSignIq",
     "MultiDeviceRemoveCompanionDeviceIq", "PropsIq", "PushIq", "PushGetPnIq", "PushSetIdIq",
     "SetBusinessNameIq", "SetBusinessProfileIq", "TrustContactIq", "GetPrivacyIq",
     "SetPrivacyIq", "WmexQueryIq", "StatusGetIq", "GetKeysIq", "GetKeysCountIq", "SetKeysIq",
     "UnregisterIq"}
GroupRequests ==
    {"CreateCommunityIq", "SetCommunityGroupsIq", "CreateGroupsIq", "GetInviteCodeGroupsIq",
     "InfoGroupsIq", "JoinWithCodeGroupsIq", "LeaveGroupsIq", "ListGroupsIq",
     "AddParticipantsIq", "DemoteParticipantsIq", "PromoteParticipantsIq",
     "RemoveParticipantsIq", "ApproveParticipantsGroupsIq", "SetGroupsIq", "SubjectGroupsIq"}
OtherRequests ==
    {"PingIq", "GetSyncIq", "RequestMediaConnIq", "RequestUploadIq", "LastseenIq",
     "PrivacyListIq", "GetPictureIq", "SetPictureIq", "SetStatusIq", "GetStatusesIq",
     "PassiveIq"}
Requests == IqRequests \cup GroupRequests \cup OtherRequests
OtherSent ==
    {"OutgoingReceipt", "OutgoingAck", "Presence", "AvailablePresence", "UnavailablePresence",
     "SubscribePresence", "UnsubscribePresence", "CatIb", "Notification", "OutgoingChatstate",
     "Call"}

\* The type of a message entity by its content.
Media == {"image", "contact", "location", "document", "audio", "video", "sticker", "product",
          "list", "buttons_response", "list_response"}
MessageType(o, url) ==
    IF url \/ \E k \in Media : o[k] # None THEN "media"
    ELSE IF o["reaction"] # None THEN "reaction"
    ELSE IF o["poll_update"] # None THEN "poll" ELSE "text"
MediaType(o, url) ==
    IF url THEN "url"
    ELSE IF \E k \in Media : o[k] # None THEN CHOOSE k \in Media : o[k] # None ELSE Nobody

\* Whether a sublayer sends the entity of the task.
SendsMessage(l, t) ==
    \/ l = "messages" /\ MessageType(t.object, t.url) \in {"text", "poll", "reaction"}
    \/ l = "media" /\ MessageType(t.object, t.url) = "media"
\* Mutant: the iq layer sends the requests of the groups layer too.
SendsIqOfGroups(l, c) ==
    \/ l = "iq" /\ c \in IqRequests \cup GroupRequests
    \/ l = "groups" /\ c \in GroupRequests
SendsIq(l, c) ==
    \/ l = "iq" /\ c \in IqRequests \cup {"PingIq"}
    \/ l = "groups" /\ c \in GroupRequests
    \/ l = "contacts" /\ c = "GetSyncIq"
    \/ l = "media" /\ c \in {"RequestMediaConnIq", "RequestUploadIq"}
    \/ l = "presence" /\ c = "LastseenIq"
    \/ l = "privacy" /\ c = "PrivacyListIq"
    \/ l = "profiles" /\ c \in {"GetPictureIq", "SetPictureIq", "SetStatusIq", "GetStatusesIq"}
\* The contacts and the groups layer send no notification.
Sends(l, t) ==
    CASE t.class = "message"       -> SendsMessage(l, t)
      [] TagOf(t.class) = "iq"     -> SendsIq(l, t.class)
      [] OTHER                     -> l \notin {"contacts", "groups"}

\* The layer that keeps the request to recognise its answer, if one does.
Registry(c) ==
    CASE c = "PingIq" -> "iq"
      [] c \in {"RequestMediaConnIq", "RequestUploadIq"} -> "media"
      [] c = "LastseenIq" -> "presence"
      [] c \in {"SetStatusIq", "GetStatusesIq"} -> "profiles"
      [] OTHER -> Nobody

TableOf(c) == IF c \in DOMAIN MessageTable THEN MessageTable ELSE StanzaTable
\* None in the tree is found by the coder, below; anything else by the entity itself.
RaisesAbove(c, o) ==
    \/ c = "message"
    \/ \E s \in StanzaTable[c].slots :
          \/ s.w = "used" /\ o[s.of] = None
          \/ s.w = "bad" /\ o[s.of] # None

-----------------------------------------------------------------------------
(* What comes up, and what each sublayer does with it: a sequence of acts. *)

Up(c) == [do |-> "up", what |-> c]
Down(c) == [do |-> "down", what |-> c]
Raise == [do |-> "raise", what |-> Nobody]
Acts(p, acts) == IF p THEN acts ELSE <<>>

\* Places a class reads that no server fills in.
NeverThere == {"return", "never", "setRetryData", "after"}
ServerWire(c) ==
    [p \in {s.at : s \in {s \in StanzaTable[c].slots : s.r # "no"}} \ NeverThere |-> Given]
\* A node of the server has every place that the class "like" reads.
Node(tag, type, child, c) ==
    [tag |-> tag, type |-> type, child |-> child, like |-> c, msg |-> Nobody]

\* Read the node as an entity, and pass it up: an entity that cannot be read, or that
\* reads as None, raises.
Check(c) == [do |-> "check", what |-> c]
Pass(c) == <<[do |-> "pass", what |-> c]>>
IsRead(n, c) == Read(StanzaTable, c, ServerWire(n.like)) \notin {Raised, None}
Outcome(n, act) ==
    CASE act.do \notin {"check", "pass"} -> act
      [] act.do = "check" /\ IsRead(n, act.what) -> act
      [] act.do = "pass" /\ IsRead(n, act.what) -> Up(act.what)
      [] OTHER -> Raise

RecvNotifications(n) ==
    LET entity ==
            CASE n.type = "mex" -> "MexUpdateNotification"
              [] n.type = "account_sync" -> "AccountSyncNotification"
              [] n.type = "link_code_companion_reg" -> "LinkCodeCompanionRegNotification"
              [] n.type = "registration" /\ n.child = "wa_old_registration" -> "WaOldCodeNotification"
              [] n.type = "registration" /\ n.child = "device_logout" -> "DeviceLogoutNotification"
              [] n.type = "business" /\ n.child = "verified_name" -> "BusinessNameUpdateNotification"
              [] n.type = "business" /\ n.child = "remove" -> "BusinessRemoveNotification"
              [] n.type = "disappearing_mode" -> "DisapperingModeNotification"
              [] n.type = "picture" /\ n.child = "set" -> "SetPictureNotification"
              [] n.type = "picture" /\ n.child = "delete" -> "DeletePictureNotification"
              [] n.type = "status" -> "StatusNotification"
              [] OTHER -> Nobody
    IN  IF n.type = "picture" /\ n.child \notin {"set", "delete", "set_avatar"} THEN <<Raise>>
        ELSE (IF entity = Nobody THEN <<>> ELSE Pass(entity)) \o <<Down("OutgoingAck")>>

RecvContacts(n) ==
    CASE n.tag = "notification" /\ n.type = "contacts" ->
            (CASE n.child = "remove" -> Pass("RemoveContactNotification")
               [] n.child = "add"    -> Pass("AddContactNotification")
               [] n.child = "update" -> Pass("UpdateContactNotification")
               [] n.child = "usync"  -> Pass("ContactsSyncNotification")
               [] OTHER -> <<>>)
      [] n.tag = "iq" /\ n.type = "result" /\ n.child = "usync" -> Pass("ResultSyncIq")
      [] OTHER -> <<>>

RecvGroups(n) ==
    CASE n.tag = "notification" /\ n.type = "w:gp2" ->
            (CASE n.child = "subject" -> Pass("SubjectGroupsNotification")
               [] n.child = "create"  -> Pass("CreateGroupsNotification")
               [] n.child = "invited" -> Pass("InviteGroupsNotification")
               [] n.child = "remove"  -> Pass("RemoveGroupsNotification")
               [] n.child = "add"     -> Pass("AddGroupsNotification")
               [] OTHER -> <<>>)
      [] n.tag = "iq" /\ n.type = "result" ->
            (CASE n.child = "groups" -> Pass("ListGroupsResultIq")
               [] n.child = "group"  -> Pass("InfoGroupsResultIq")
               [] n.child = "joined" -> Pass("SuccessJoinWithCodeGroupsIq")
               [] n.child = "created" -> Pass("SuccessCreateGroupsIq")
               [] n.child = "add"    -> Pass("SuccessAddParticipantsIq")
               [] n.child = "remove" -> Pass("SuccessRemoveParticipantsIq")
               [] n.child = "invite" -> Pass("SuccessGetInviteCodeGroupsIq")
               [] n.child \in {"promote", "demote", "leave", "locked", "membership_approval_mode"} ->
                    Pass("ResultIq")
               [] OTHER -> <<>>)
      [] OTHER -> <<>>

\* The children of a result the iq layer knows; the ones from a group server are
\* the groups layer's.
ResultEntity(child) ==
    CASE child \in {Nobody, "verified_name"} -> "ResultIq"
      [] child = "media_conn" -> "ResultRequestMediaConnIq"
      [] child = "cat" -> "PushGetPnResultIq"
      [] child = "list" -> "ResultGetKeysIq"
      [] child = "companion-props" -> "MultiDevicePairDeviceResultIq"
      [] child = "account" -> "AccountInfoResultIq"
      [] child = "email" -> "EmailResultIq"
      [] child = "verify_email" -> "VerifyEmailResultIq"
      [] child = "device_logout" -> "DeviceLogoutResultIq"
      [] child = "count" -> "ResultKeyCountIq"
      [] child = "picture of a type" -> "ResultGetPictureIq"
      [] child = "picture" -> "ResultSetPictureIq"
      [] child = "result" -> "WmexResultIq"
      [] OTHER -> Nobody
RecvIq(n) ==
    CASE n.type = "ping" -> <<Down("PongResultIq")>>
      [] n.type = "md" /\ n.child = "pair-device" -> Pass("MultiDevicePairIq")
      [] n.type = "md" /\ n.child = "pair-success" -> Pass("MultiDevicePairSuccessIq")
      [] n.type = "error" -> Pass("ErrorIq")
      [] n.type = "result" /\ ResultEntity(n.child) # Nobody -> Pass(ResultEntity(n.child))
      [] OTHER -> <<>>

RecvCalls(n) ==
    <<Check("Call"), Down(IF n.child = "offer" THEN "OutgoingReceipt" ELSE "OutgoingAck"),
      Up("Call")>>

RecvIb(n) ==
    CASE n.child = "dirty"   -> <<Down("CleanDirtyIq")>>
      [] n.child = "offline" -> Pass("OfflineIb")
      [] n.child = "account" -> Pass("AccountIb")
      [] OTHER -> <<>>

RecvMessages(n) ==
    LET m == Read(MessageTable, "message", wire)
    IN  CASE n.child = "newsletter" -> <<Down("OutgoingReceipt")>>
          [] n.child = "no proto" -> <<>>
          [] n.type \in {"reaction", "poll"} -> IF m = Raised THEN <<Raise>> ELSE <<Up("message")>>
          [] n.type \notin {"reaction", "poll"} /\ n.child = "proto" /\ n.msg = Nobody ->
                IF m = Raised THEN <<Raise>>
                ELSE IF ~Blank(m["conversation"]) \/ m["extended_text"] # None
                THEN <<Up("message")>>
                ELSE Acts(m["sender_key_distribution_message"] = None, <<Down("OutgoingReceipt")>>)
          [] OTHER -> <<>>

\* The media types a message may come with, and the ones the layer looks for.
MediaKnown ==
    {"image", "sticker", "audio", "video", "location", "vcard", "document", "url",
     "buttons_response", "list_response", "product"}
\* Whatever goes wrong, in the application too, a media message is confirmed as read;
\* confirming it means reading it again.  A "medianotify" is confirmed outside the
\* try, and cannot be read where it has no <proto>.
RecvMedia(n, crash) ==
    LET m == Read(MessageTable, "message", wire)
    IN  CASE n.type = "medianotify" ->
                IF n.child # "proto" \/ m = Raised THEN <<Raise>> ELSE <<Down("OutgoingReceipt")>>
          [] n.type = "media" /\ n.child \notin {"no proto", "newsletter"} ->
                IF m = Raised THEN <<Raise>>
                ELSE IF n.msg \notin MediaKnown THEN <<Down("OutgoingReceipt")>>
                ELSE <<[do |-> "caught", what |-> "message"]>>
                     \o Acts(crash, <<Down("OutgoingReceipt")>>)
          [] OTHER -> <<>>

Recv(l, n, crash) ==
    CASE l = "notifications" -> RecvNotifications(n)
      [] l = "contacts" -> RecvContacts(n)
      [] l = "groups" -> RecvGroups(n)
      [] l = "iq" -> RecvIq(n)
      [] l = "calls" -> RecvCalls(n)
      [] l = "ib" -> RecvIb(n)
      [] l = "messages" -> RecvMessages(n)
      [] l = "media" /\ n.tag = "message" -> RecvMedia(n, crash)
      [] l = "receipts" -> Pass("IncomingReceipt")
      [] l = "acks" -> Pass("IncomingAck")
      [] l = "presence" /\ n.tag = "presence" -> Pass("Presence")
      [] l = "chatstate" -> Pass("IncomingChatstate")
      [] OTHER -> <<>>

\* The answer to a request a layer keeps goes to that layer's callback.
Callback(l, n) ==
    CASE n.type = "error" /\ l \in {"media", "presence"} -> Pass("ErrorIq")
      [] n.type = "result" /\ l = "media" -> Pass("ResultRequestUploadIq")
      [] n.type = "result" /\ l = "presence" -> Pass("ResultLastseenIq")
      [] OTHER -> <<>>

-----------------------------------------------------------------------------
(* The tasks: an entity to send, or a node from the server.                *)

ForAnswer(child, c) == Node("iq", "result", child, c)
Error == Node("iq", "error", "error", "ErrorIq")
\* The child of the answer to a request, and the class that has its places.
Answer(c) ==
    CASE c = "RequestMediaConnIq" -> ForAnswer("media_conn", "ResultRequestMediaConnIq")
      [] c = "RequestUploadIq" -> ForAnswer("encr_media", "ResultRequestUploadIq")
      [] c = "GetKeysIq" -> ForAnswer("list", "ResultGetKeysIq")
      [] c = "GetKeysCountIq" -> ForAnswer("count", "ResultKeyCountIq")
      [] c = "AccountInfoIq" -> ForAnswer("account", "AccountInfoResultIq")
      [] c = "AccountLogoutApproveIq" -> ForAnswer("device_logout", "DeviceLogoutResultIq")
      [] c \in {"GetEmailIq", "SetEmailIq"} -> ForAnswer("email", "EmailResultIq")
      [] c \in {"VerifyEmailIq", "VerifyEmailCodeIq"} ->
            ForAnswer("verify_email", "VerifyEmailResultIq")
      [] c = "PushGetPnIq" -> ForAnswer("cat", "PushGetPnResultIq")
      [] c \in {"WmexQueryIq", "StatusGetIq"} -> ForAnswer("result", "WmexResultIq")
      [] c = "MultiDevicePairDeviceIq" ->
            ForAnswer("companion-props", "MultiDevicePairDeviceResultIq")
      [] c = "SetBusinessNameIq" -> ForAnswer("verified_name", "ResultIq")
      [] c = "GetSyncIq" -> ForAnswer("usync", "ResultSyncIq")
      [] c = "GetPictureIq" -> ForAnswer("picture of a type", "ResultGetPictureIq")
      [] c = "SetPictureIq" -> ForAnswer("picture", "ResultSetPictureIq")
      [] c = "LastseenIq" -> ForAnswer("query", "ResultLastseenIq")
      [] c = "GetStatusesIq" -> ForAnswer("status", "ResultStatusesIq")
      [] c = "GetPrivacyIq" -> ForAnswer("privacy", "ResultPrivacyIq")
      [] c = "PropsIq" -> ForAnswer("props", "ResultIq")
      [] c = "GetBroadcastList" -> ForAnswer("lists", "ResultIq")
      [] c = "ListGroupsIq" -> ForAnswer("groups", "ListGroupsResultIq")
      [] c = "InfoGroupsIq" -> ForAnswer("group", "InfoGroupsResultIq")
      [] c \in {"CreateGroupsIq", "CreateCommunityIq"} ->
            ForAnswer("created", "SuccessCreateGroupsIq")
      [] c = "JoinWithCodeGroupsIq" -> ForAnswer("joined", "SuccessJoinWithCodeGroupsIq")
      [] c = "SetCommunityGroupsIq" -> ForAnswer("links", "ResultIq")
      [] c = "AddParticipantsIq" -> ForAnswer("add", "SuccessAddParticipantsIq")
      [] c = "RemoveParticipantsIq" -> ForAnswer("remove", "SuccessRemoveParticipantsIq")
      [] c = "PromoteParticipantsIq" -> ForAnswer("promote", "ResultIq")
      [] c = "DemoteParticipantsIq" -> ForAnswer("demote", "ResultIq")
      [] c = "ApproveParticipantsGroupsIq" ->
            ForAnswer("membership_approval_mode", "ResultIq")
      [] c = "SetGroupsIq" -> ForAnswer("locked", "ResultIq")
      [] c = "LeaveGroupsIq" -> ForAnswer("leave", "ResultIq")
      [] c = "GetInviteCodeGroupsIq" -> ForAnswer("invite", "SuccessGetInviteCodeGroupsIq")
      [] OTHER -> ForAnswer(Nobody, "ResultIq")

Notified(type, child, c) == Node("notification", type, child, c)
ServerNodes ==
    {Notified("mex", "update", "MexUpdateNotification"),
     Notified("account_sync", Nobody, "AccountSyncNotification"),
     Notified("link_code_companion_reg", Nobody, "LinkCodeCompanionRegNotification"),
     Notified("registration", "wa_old_registration", "WaOldCodeNotification"),
     Notified("registration", "device_logout", "DeviceLogoutNotification"),
     Notified("business", "verified_name", "BusinessNameUpdateNotification"),
     Notified("business", "remove", "BusinessRemoveNotification"),
     Notified("disappearing_mode", "disappearing_mode", "DisapperingModeNotification"),
     Notified("picture", "set", "SetPictureNotification"),
     Notified("picture", "delete", "DeletePictureNotification"),
     Notified("picture", "set_avatar", "Notification"),
     Notified("picture", "request", "Notification"),
     Notified("status", "set", "StatusNotification"),
     Notified("devices", "add", "Notification"), Notified("privacy_token", "tokens", "Notification"),
     Notified("psa", Nobody, "Notification"), Notified("another", Nobody, "Notification"),
     Notified("contacts", "add", "AddContactNotification"),
     Notified("contacts", "remove", "RemoveContactNotification"),
     Notified("contacts", "update", "UpdateContactNotification"),
     Notified("contacts", "usync", "ContactsSyncNotification"),
     Notified("w:gp2", "subject", "SubjectGroupsNotification"),
     Notified("w:gp2", "create", "CreateGroupsNotification"),
     Notified("w:gp2", "invited", "InviteGroupsNotification"),
     Notified("w:gp2", "remove", "RemoveGroupsNotification"),
     Notified("w:gp2", "add", "AddGroupsNotification"), Notified("w:gp2", "ephemeral", "Notification"),
     Node("iq", "ping", Nobody, "Iq"), Node("iq", "md", "pair-device", "MultiDevicePairIq"),
     Node("iq", "md", "pair-success", "MultiDevicePairSuccessIq"),
     Node("call", Nobody, "offer", "Call"), Node("call", Nobody, "terminate", "Call"),
     Node("ib", Nobody, "dirty", "DirtyIb"), Node("ib", Nobody, "offline", "OfflineIb"),
     Node("ib", Nobody, "account", "AccountIb"), Node("ib", Nobody, "edge_routing", "EdgeRoutingIb"),
     Node("receipt", Nobody, Nobody, "IncomingReceipt"),
     Node("ack", Nobody, Nobody, "IncomingAck"), Node("presence", Nobody, Nobody, "Presence"),
     Node("chatstate", Nobody, Nobody, "IncomingChatstate"),
     Node("message", "text", "newsletter", "Message"), Node("message", "media", "newsletter", "Message"),
     Node("message", "text", "no proto", "Message"), Node("message", "media", "no proto", "Message"),
     Node("message", "medianotify", "no proto", "Message")}

\* Classes that are both written and read, and that the application does not send.
TwoWay ==
    {"Iq", "ErrorIq", "ResultGetKeysIq", "ResultRequestMediaConnIq", "ResultRequestUploadIq",
     "ResultLastseenIq", "SuccessCreateGroupsIq", "SuccessJoinWithCodeGroupsIq",
     "SuccessLeaveGroupsIq", "SuccessRemoveParticipantsIq", "InfoGroupsResultIq",
     "ListGroupsResultIq", "SyncIq", "ResultPrivacyIq", "ResultStatusesIq", "Notification",
     "DeletePictureNotification", "SetPictureNotification", "StatusNotification",
     "AddContactNotification", "RemoveContactNotification", "UpdateContactNotification",
     "ContactsSyncNotification", "GroupsNotification", "AddGroupsNotification",
     "RemoveGroupsNotification", "SubjectGroupsNotification", "CreateGroupsNotification",
     "InviteGroupsNotification", "IdentityChangeEncryptNotification",
     "RequestKeysEncryptNotification", "OutgoingMessage", "IncomingMessage", "Proto", "Enc",
     "EncryptedMessage", "IncomingReceipt", "RetryIncomingReceipt", "RetryOutgoingReceipt",
     "IncomingAck", "IncomingChatstate", "Ib", "DirtyIb", "OfflineIb", "AccountIb",
     "EdgeRoutingIb", "Auth", "Challenge", "Failure", "Response", "StreamError",
     "StreamFeatures", "Success", "history_sync"}
\* And of those it sends, the ones that can be read again.
ReadAgain ==
    {"message", "PingIq", "RequestMediaConnIq", "RequestUploadIq", "LastseenIq", "PrivacyListIq",
     "GetPictureIq", "SetPictureIq", "SetStatusIq", "GetStatusesIq", "GetPrivacyIq",
     "SetPrivacyIq", "UnregisterIq", "SetKeysIq", "GetSyncIq", "LeaveGroupsIq", "SubjectGroupsIq",
     "OutgoingReceipt", "OutgoingAck", "Presence", "SubscribePresence", "UnsubscribePresence",
     "Notification", "OutgoingChatstate", "Call"}

Task(p, c, o, u, r, n, b) ==
    [phase |-> p, class |-> c, object |-> o, url |-> u, reply |-> r, node |-> n, crash |-> b]
\* A message has one content.
Messages ==
    {o \in Objects(MessageTable, "message", Depth) :
        Cardinality({a \in DOMAIN o : o[a] # None}) <= 1}
SendMessage ==
    {Task("send", "message", o, u, Nobody, Nothing, b) :
        o \in Messages, u \in BOOLEAN, b \in BOOLEAN}
SendRequest ==
    UNION {{Task("send", c, o, FALSE, r, Nothing, FALSE) :
              o \in Objects(StanzaTable, c, 1), r \in {"result", "error"}} : c \in Requests}
SendOther ==
    UNION {{Task("send", c, o, FALSE, Nobody, Nothing, FALSE) :
              o \in Objects(StanzaTable, c, 1)} : c \in OtherSent}
ServerSends ==
    {Task("hear", Nobody, Nothing, FALSE, Nobody, n, b) : n \in ServerNodes, b \in BOOLEAN}
Pairs ==
    UNION {{Task("pair", c, o, FALSE, Nobody, Nothing, FALSE) :
              o \in Objects(TableOf(c), c, Depth)} : c \in TwoWay}

Init ==
    /\ \/ task \in {t \in SendMessage : t.url => t.object["extended_text"] # None}
       \/ task \in SendRequest
       \/ task \in SendOther
       \/ task \in ServerSends
       \/ task \in Pairs
    /\ phase = task.phase
    /\ node = task.node
    /\ rest = CASE phase = "send" -> Offered(TagOf(task.class))
                [] phase = "hear" -> Offered(node.tag)
                [] OTHER -> <<>>
    /\ wire = Nothing /\ sent = <<>> /\ rose = <<>> /\ fell = FALSE /\ kept = {}

Encoded(t) == Write(TableOf(t.class), t.class, t.object)

\* The next sublayer is offered the entity.  toLower takes the layer's lock and gives
\* it back when the layer below returns: not when it raises.
OfferDown ==
    /\ phase = "send" /\ rest # <<>>
    /\ LET goes == Sends(Head(rest), task)
           raises == goes /\ Encoded(task) = Raised
       IN  /\ wire' = IF goes THEN Encoded(task) ELSE wire
           /\ sent' = IF goes /\ ~raises THEN Append(sent, Down(task.class)) ELSE sent
           /\ kept' = IF ~raises THEN kept
                      ELSE IF RaisesAbove(task.class, task.object) THEN {"interface"}
                      ELSE {"interface", "parallel"}
           /\ phase' = IF raises THEN "done" ELSE phase
    /\ rest' = Tail(rest)
    /\ UNCHANGED <<task, node, rose, fell>>

\* What went down reaches the other client, decrypted, or is answered by the server.
Arrive ==
    /\ phase = "send" /\ rest = <<>>
    /\ phase' = IF sent = <<>> THEN "done"
                ELSE IF task.class = "message" THEN "peer"
                ELSE IF task.reply # Nobody THEN "answer" ELSE "done"
    /\ node' = CASE phase' = "peer" ->
                       [tag |-> "message", type |-> MessageType(task.object, task.url),
                        child |-> "proto", like |-> "Message",
                        msg |-> MediaType(task.object, task.url)]
                 [] phase' = "answer" ->
                       IF task.reply = "error" THEN Error ELSE Answer(task.class)
                 [] OTHER -> node
    /\ rest' = IF phase' = "done" THEN rest ELSE Offered(node'.tag)
    /\ UNCHANGED <<task, wire, sent, rose, fell, kept>>

\* The acts up to and with the first that raises: reading, or the application.
Raises(acts, crash) ==
    {i \in DOMAIN acts : acts[i].do = "raise" \/ (acts[i].do = "up" /\ crash)}
Performed(acts, crash) ==
    {i \in DOMAIN acts : \A j \in Raises(acts, crash) : i <= j}
Acted(acts, crash, dos) ==
    LET done == Performed(acts, crash)
        whats == [i \in done |-> acts[i]]
        kind(a) == a.do \in dos
    IN  SelectSeq(whats, kind)

\* The next sublayer is given the node, unless one before it raised.
OfferUp ==
    /\ phase \in {"peer", "answer", "hear"} /\ rest # <<>>
    /\ LET l == Head(rest)
           asked == IF phase = "answer" /\ Registry(task.class) = l
                    THEN Callback(l, node) ELSE Recv(l, node, task.crash)
           acts == [i \in DOMAIN asked |-> Outcome(node, asked[i])]
       IN  /\ rose' = rose \o Acted(acts, task.crash, {"up", "caught"})
           /\ sent' = sent \o Acted(acts, task.crash, {"down"})
           /\ fell' = (Raises(acts, task.crash) # {})
    /\ rest' = IF fell' THEN <<>> ELSE Tail(rest)
    /\ UNCHANGED <<task, phase, wire, node, kept>>

Handled ==
    /\ phase \in {"peer", "answer", "hear"} /\ rest = <<>>
    /\ phase' = "done"
    /\ UNCHANGED <<task, rest, wire, node, sent, rose, fell, kept>>

\* An entity another program writes, in its turn.
WritePair ==
    /\ phase = "pair"
    /\ wire' = Encoded(task)
    /\ phase' = "done"
    /\ UNCHANGED <<task, rest, node, sent, rose, fell, kept>>

Next == OfferDown \/ Arrive \/ OfferUp \/ Handled \/ WritePair
Spec == Init /\ [][Next]_vars

-----------------------------------------------------------------------------
Ended == phase = "done"
Of(c, names) == {<<c, a>> : a \in names}

\* What does not survive being written and read again.  Most of these are written
\* nowhere or read nowhere; the initiator of a disappearing mode comes from its
\* trigger, a picture's type is read as its jid, and a privacy value as "all".
LostAttributes ==
    Of("message", ContentOut \cup ContentIn \cup {"fromMe", "to"})
    \cup Of("protocol", ProtocolUnused \cup {"app_state_sync_key_share"})
    \cup Of("disappearing_mode", {"initiator"})
    \cup Of("context_info", {"edit_version", "revoke_message", "action_link",
                             "business_message_forward_info"})
    \cup Of("external_ad_reply", {"body", "thumbnail_url", "media_url", "source_type", "source_id"})
    \cup Of("extended_text", {"doNotPlayInline"}) \cup Of("audio", {"streaming_sidecar"})
    \cup Of("document", {"own_file_length"}) \cup Of("product_image", {"caption"})
    \cup Of("product", {"context_info"}) \cup Of("poll_creation", {"context_info"})
    \cup Of("ResultRequestMediaConnIq", {"hosts"}) \cup Of("ResultPrivacyIq", {"privacy"})
    \cup Of("LastseenIq", {"_id"}) \cup Of("GetPictureIq", {"jid", "preview"})
    \cup Of("SetPrivacyIq", {"value"}) \cup Of("Enc", {"jid", "count"})
    \cup Of("OutgoingReceipt", {"recipient", "callId", "view"})
    \cup Of("IncomingAck", {"participant", "_error"}) \cup Of("OutgoingAck", {"_error"})
    \cup Of("EdgeRoutingIb", {"routing_info"}) \cup Of("StreamError", {"code"})
\* What cannot be read again at all.
Unreadable ==
    {"location", "history_message_key", "LeaveGroupsIq", "GetSyncIq", "RetryOutgoingReceipt",
     "AccountIb"}

\* Whatever attributes an entity is given, alone or together, the program that reads
\* what was written of it gets the same, but for the attributes and classes named
\* (the classes' writing and reading methods, and the converter of messages).
Survives ==
    LET T == TableOf(task.class)
        back == Read(T, task.class, wire)
    IN  Ended /\ wire \notin {Nothing, Raised} /\ task.class \in TwoWay \cup ReadAgain =>
            IF back \in {Raised, None}
            THEN \/ Holds(T, task.class, task.object, Unreadable)
                 \/ /\ task.class = "OutgoingReceipt"
                    /\ \E a \in {"otherIds", "serverIds"} : task.object[a] # None
            ELSE Changed(T, task.class, task.object, back) \subseteq LostAttributes

\* Classes with an attribute that may be left out, but not when it is written; a
\* disappearing mode may have an empty device jid, but not when it is written.
Fragile ==
    {"message_key", "sticker", "location", "poll_creation", "template", "interactive_header",
     "SetBusinessNameIq", "VerifyEmailCodeIq", "WmexQueryIq", "CreateCommunityIq",
     "CreateGroupsIq", "Notification", "call_child", "disappearing_mode"}
\* A send gives back every lock it took, whatever the entity holds, unless one of the
\* classes named is in it: a lock that is kept blocks every later send (toLower).
LocksReturned ==
    kept # {} => Holds(TableOf(task.class), task.class, task.object, Fragile)

Confirms(s) == SelectSeq(s, LAMBDA a : a \in {Down("OutgoingAck"), Down("OutgoingReceipt")})
\* Answers two layers pass up: the registry of one does not keep it from the others.
Twice(t) ==
    \/ t.class = "RequestMediaConnIq"
    \/ t.class \in {"RequestUploadIq", "LastseenIq"} /\ t.reply = "error"
Unheard(t) ==
    \/ t.class = "PingIq"
    \/ t.reply = "result" /\ t.class \in {"GetStatusesIq", "GetPrivacyIq", "PropsIq",
                                          "GetBroadcastList", "SetCommunityGroupsIq"}
\* Every entity the application sends is sent by exactly one of the layers that are
\* offered it (a PassiveIq by none), and its answer is passed up exactly once.
RequestsOnce ==
    Ended /\ task.phase = "send" /\ task.class # "message" /\ kept = {} =>
        /\ Len(sent) = IF task.class = "PassiveIq" THEN 0 ELSE 1
        /\ Len(rose) = IF sent = <<>> \/ task.reply = Nobody \/ Unheard(task) THEN 0
                       ELSE IF Twice(task) THEN 2 ELSE 1
\* A message is passed up to the application or confirmed to its sender: neither when
\* it cannot be read or only brings a key, both when the application raised on media.
MessagesOnce ==
    Ended /\ task.class = "message" /\ kept = {} =>
        LET raised == {i \in DOMAIN rose : rose[i].do = "caught" /\ task.crash}
            silent == \/ Holds(MessageTable, "message", task.object, Unreadable)
                      \/ task.object["sender_key_distribution_message"] # None
        IN  Len(rose) + Len(Confirms(sent)) =
                IF silent THEN 0 ELSE IF raised # {} THEN 2 ELSE 1
\* What the server sends is passed up at most once.  What is answered was handled to
\* the end: the layers of contacts and groups come after the one that acks, and a
\* call is answered before it is passed up.  Of messages that come without content,
\* only a newsletter's is confirmed, and only a "medianotify" raises.
AnsweredWhenDone ==
    Ended /\ task.phase = "hear" =>
        /\ Len(rose) <= 1
        /\ Len(Confirms(sent)) <= 1
        /\ fell /\ Confirms(sent) # <<>> => node.tag = "call" \/ node.type \in {"contacts", "w:gp2"}
        /\ ~fell /\ node.tag \in {"notification", "call"} => Len(Confirms(sent)) = 1
        /\ node.tag = "message" =>
              /\ fell <=> node.type = "medianotify"
              /\ Len(Confirms(sent)) = IF node.child = "newsletter" THEN 1 ELSE 0
\* Whatever is sent or received is handled by one of the layers it is offered to, and
\* passed up or confirmed once, as far as the three parts say (YowParallelLayer, the
\* layers' recv and send functions, and the registry of requests).
HandledOnce == RequestsOnce /\ MessagesOnce /\ AnsweredWhenDone
=============================================================================
