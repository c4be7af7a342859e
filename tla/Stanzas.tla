------------------------------ MODULE Stanzas ------------------------------
(***************************************************************************)
(* The stanzas of the protocol: what the entity classes of the layers put  *)
(* into a node of the tree that the coder writes, and what they take from  *)
(* one.  A place is an attribute, a child or the data of the node, under   *)
(* the name of the attribute of the entity it belongs to; what the class   *)
(* always writes itself (its type, its fixed children) is left out.        *)
(* A None in an attribute of a node makes the coder raise ("must"); the    *)
(* data of a node may be None ("set").                                     *)
(***************************************************************************)
EXTENDS Structs

\* Attributes a class writes and nobody reads; reads and never writes; both ways.
Written(parent, need, may) ==
    Extend(parent, need, may, Slot("must", "no", need) \cup Slot("set", "no", may))
Heard(parent, names) == Extend(parent, {}, names, Slot("no", "opt", names))
Kept(parent, names) == Extend(parent, names, {}, Slot("must", "opt", names))
Plus(parent, slots) == Extend(parent, {}, {s.of : s \in slots}, slots)

Entity == Class({}, {}, {})

-----------------------------------------------------------------------------
(* Requests and answers *)

Iq == Plus(Kept(Entity, {"_type"}),
           Slot("true", "opt", {"_id", "xmlns", "to", "_from", "target", "smax_id"}))
\* Requests: the id is made up, the namespace and the type are fixed by the class.
Request == Plus(Entity, Slot("true", "opt", {"_id", "to"}))
ResultIq == Plus(Entity, Slot("true", "opt", {"_id", "xmlns", "to", "_from"}))
ErrorIq == Plus(Kept(Plus(Entity, Slot("true", "opt", {"_id", "_from"})), {"code", "text"}),
                Slot("true", "opt", {"backoff"}))
PingIq == Plus(Request, Slot("true", "opt", {"_from"}))
PongResultIq == Kept(Request, {"to"})

AccountInfoIq == Request
AccountInfoResultIq ==
    Plus(Request, Slot("no", "gate", {"account"}) \cup Slot("no", "must", {"creation", "lastReg"}))
AccountLogoutApproveIq == Written(Request, {"refId"}, {})
AppSyncResetIq == Request
AppSyncStateIq == Written(Request, {}, {"patches"})
GetBroadcastList == Request
CleanDirtyIq == Written(Request, {"type"}, {})
CryptoIq == Request
DeviceLogoutResultIq ==
    Heard(Plus(Request, Slot("no", "gate", {"device_logout"})), {"success"})
EmailResultIq ==
    Heard(Plus(Request, Slot("no", "gate", {"email"})),
          {"emailAddress", "verified", "confirmed", "doVerify"})
GetEmailIq == Request
MultiDevicePairIq == Heard(Request, {"refs"})
MultiDevicePairCompanionFinishIq ==
    Written(Request, {"jid"}, {"linkCodePairingWrappedKeyBundle", "companionIdentityPublic",
                               "linkCodePairingRef"})
MultiDevicePairCompanionHelloIq ==
    Written(Request, {"jid", "shouldshowPushNotification"},
            {"linkCodePairingWrappedCompanionEphemeralPub", "companionServerAuthKeyPub"})
MultiDevicePairDeviceIq == Written(Request, {}, {"ref", "pubKey", "deviceIdentity", "keyIndexList"})
MultiDevicePairPrimaryHelloIq ==
    Written(Request, {}, {"linkCodePairingWrappedPrimaryEphemeralPub", "primaryIdentityPub",
                          "linkCodePairingRef"})
MultiDevicePairSignIq == Written(Request, {"keyIndex"}, {"sign"})
MultiDevicePairSuccessIq ==
    Plus(Heard(Plus(Request, Slot("no", "gate", {"pair_success"})), {}),
         Slot("no", "must", {"platform", "device_identity", "jid"}))
MultiDeviceRemoveCompanionDeviceIq == Written(Request, {}, {"jid"})
MultiDevicePairDeviceResultIq ==
    Plus(Request, Slot("no", "gate", {"companionProps"}) \cup Slot("no", "must", {"deviceJid"}))
PassiveIq == Request
PropsIq == Request
PushIq == Request
PushGetPnIq == Written(Request, {"token"}, {})
PushGetPnResultIq == Plus(Request, Slot("no", "gate", {"catData"}))
PushSetIdIq == Written(Request, {"id"}, {})
Set2FAIq == Written(Request, {"code", "email"}, {})
SetBusinessNameIq ==
    Plus(Written(Request, {"name"}, {}), Slot("used", "no", {"profile"}))
SetBusinessProfileIq == Written(Request, {"address", "description", "categoriesIds"}, {})
SetEmailIq == Written(Request, {"email"}, {})
TrustContactIq == Written(Request, {"jids", "timestamp"}, {})
VerifyEmailIq == Request
VerifyEmailCodeIq == Plus(Request, Slot("must", "no", {"code"}))
VerifyEmailResultIq ==
    Heard(Plus(Request, Slot("no", "gate", {"verify_email"})), {"waitTime", "codeMatch"})
WmexQueryIq == Plus(Request, Slot("must", "no", {"query_id"}) \cup Slot("set", "no", {"query_obj"}))
WmexResultIq == Plus(Request, Slot("no", "gate", {"result_obj"}))

GetKeysCountIq == Request
ResultKeyCountIq == Plus(Request, Slot("no", "gate", {"value"}))
GetKeysIq == Written(Request, {"jids"}, {"reason"})
\* A user whose bundle lacks a part is read as an error; one without a pre-key is
\* read, but cannot be written.
user_keys ==
    Plus(Extend(Entity, {"registration", "identity", "skey"}, {},
                Slot("must", "gate", {"registration", "identity", "skey"})),
         Slot("must", "opt", {"key"}))
ResultGetKeysIq ==
    Extend(Request, {}, {"preKeyBundleMap"}, Part("true", "opt", "preKeyBundleMap", "user_keys"))
SetKeysIq ==
    Extend(Request, {"identityKey", "signedPreKey", "preKeys", "djbType"}, {"registration"},
           Slot("must", "must", {"identityKey", "signedPreKey", "preKeys", "djbType"})
           \cup Slot("true", "opt", {"registration"}))

RequestMediaConnIq == Request
\* The hosts are read and never written.
ResultRequestMediaConnIq ==
    Plus(Extend(ResultIq, {"hosts"}, {}, Slot("no", "opt", {"hosts"})),
         Slot("true", "opt", {"auth", "ttl"}))
RequestUploadIq ==
    Plus(Extend(Request, {"mediaType", "b64Hash", "size"}, {},
                Slot("must", "must", {"mediaType", "size"}) \cup Slot("must", "opt", {"b64Hash"})),
         Slot("true", "opt", {"origHash"}))
ResultRequestUploadIq ==
    Plus(Kept(ResultIq, {"url"}), Slot("true", "opt", {"ip", "resumeOffset", "duplicate"}))

LastseenIq == Kept(Plus(Entity, Slot("true", "no", {"_id"})), {"to"})
ResultLastseenIq ==
    Extend(ResultIq, {"seconds"}, {}, Slot("must", "must", {"seconds"}))
PrivacyListIq == Kept(Request, {"listName"})

-----------------------------------------------------------------------------
(* Groups *)

GroupsIq == Request
CreateCommunityIq ==
    Plus(Written(Request, {"subject"}, {}), Slot("no", "no", {"participants"})
                                            \cup Slot("used", "no", {"creator"}))
SetCommunityGroupsIq == Written(Request, {"community_jid", "group_jids"}, {})
CreateGroupsIq ==
    Plus(Written(Request, {"subject"}, {"participants"}), Slot("must", "no", {"creator"}))
SuccessCreateGroupsIq == Kept(ResultIq, {"groupId"})
GetInviteCodeGroupsIq == Written(Request, {"group_jid"}, {})
SuccessGetInviteCodeGroupsIq == Heard(ResultIq, {"inviteCode"})
InfoGroupsIq == Written(Request, {"group_jid"}, {})
JoinWithCodeGroupsIq == Written(Request, {"code"}, {})
SuccessJoinWithCodeGroupsIq == Kept(ResultIq, {"groupId"})
\* What is written has no action, and what is read must have one.
LeaveGroupsIq ==
    Plus(Extend(Request, {"groupList"}, {}, Slot("must", "must", {"groupList"})),
         Slot("no", "must", {"action"}))
SuccessLeaveGroupsIq == Extend(ResultIq, {"groupId"}, {}, Slot("must", "must", {"groupId"}))
ListGroupsIq == Written(Request, {}, {"participants"})
ParticipantsGroupsIq == Written(Request, {"group_jid", "participantList", "mode"}, {})
AddParticipantsIq == Written(Request, {"group_jid", "participantList"}, {})
DemoteParticipantsIq == Written(Request, {"group_jid", "participantList"}, {})
PromoteParticipantsIq == Written(Request, {"group_jid", "participantList"}, {})
RemoveParticipantsIq == Written(Request, {"group_jid", "participantList"}, {})
FailureAddParticipantsIq == ErrorIq
SuccessAddParticipantsIq == Heard(ResultIq, {"groupId", "successList", "errorList"})
ApproveParticipantsGroupsIq == Written(Request, {"group_jid", "participantList", "action"}, {})
SuccessRemoveParticipantsIq == Kept(ResultIq, {"participantList"})
SetGroupsIq == Written(Request, {"group_jid", "action"}, {"value"})
SubjectGroupsIq == Kept(Request, {"subject"})
InfoGroupsResultIq ==
    Extend(Kept(ResultIq, {"groupId", "creatorJid", "subject", "subjectOwnerJid"}),
           {"creationTimestamp", "subjectTime"}, {},
           Slot("must", "must", {"creationTimestamp", "subjectTime"}))
ListGroupsResultIq == Kept(ResultIq, {"groupsList"})

(* Contacts *)

StatusGetIq == Written(Request, {"jids"}, {})
SyncIq == Kept(Request, {"index", "last", "sid"})
DevicesGetSyncIq == Written(SyncIq, {"jids", "mode", "context"}, {})
DevicesResultSyncIq == Heard(SyncIq, {"devicesDict"})
\* The class is set on an entity that does not exist yet.
GetSyncIq ==
    Plus(Written(SyncIq, {"numbers", "mode", "context"}, {}), Slot("no", "must", {"never"}))
ResultSyncIq ==
    Plus(Heard(SyncIq, {"inNumbers", "outNumbers", "invalidUsers", "wait", "mode"}),
         Slot("no", "must", {"result"}))

(* Profiles *)

PictureIq == Plus(Request, Slot("true", "opt", {"_from", "target"}))
\* What is read as the jid is the type of the picture.
GetPictureIq ==
    Extend(PictureIq, {"jid"}, {"preview"},
           Slot("must", "no", {"jid"}) \cup Slot("set", "no", {"preview"})
           \cup Moved("no", "opt", "preview", "jid"))
ResultGetPictureIq == Heard(PictureIq, {"pictureId", "type", "url"})
SetPictureIq ==
    Extend(PictureIq, {"previewData", "pictureData"}, {"pictureId"},
           Slot("set", "opt", {"previewData", "pictureData"}) \cup Slot("true", "opt", {"pictureId"}))
ResultSetPictureIq == Heard(PictureIq, {"pictureId"})
GetPrivacyIq == Request
ResultPrivacyIq == Extend(ResultIq, {"privacy"}, {}, Slot("no", "opt", {"privacy"}))
SetPrivacyIq ==
    Extend(Request, {"value"}, {"names"},
           \* what is read is always "all"
           Slot("must", "no", {"value"}) \cup Slot("true", "opt", {"names"}))
SetStatusIq == Extend(Request, {"text"}, {}, Slot("must", "opt", {"text"}))
GetStatusesIq == Kept(Request, {"jids"})
ResultStatusesIq == Kept(Plus(Request, Slot("true", "opt", {"_from"})), {"statuses"})
UnregisterIq == Request

-----------------------------------------------------------------------------
(* Notifications *)

Notification ==
    Plus(Extend(Kept(Entity, {"_type", "_id", "_from"}), {"timestamp"}, {},
                Slot("must", "must", {"timestamp"})),
         \* notify is written without a test, although it may be missing
         Slot("must", "opt", {"notify"}) \cup Slot("true", "opt", {"offline"}))
AccountSyncNotification == Notification
BusinessNameUpdateNotification ==
    Heard(Notification, {"verified_level", "serial", "jid", "v", "name"})
BusinessRemoveNotification == Heard(Notification, {"jid"})
DeviceLogoutNotification == Heard(Notification, {"device", "refId"})
DisapperingModeNotification == Heard(Notification, {"duration"})
LinkCodeCompanionRegNotification ==
    Heard(Notification,
          {"stage", "shouldShowPushNotification", "linkCodePairingWrappedCompanionEphemeralPub",
           "linkCodePairingNonce", "companionServerAuthKeyPub", "companionPlatformId",
           "companionPlatformDisplay", "linkCodePairingWrappedKeyBundle",
           "companionIdentityPublic", "linkCodePairingWrappedPrimaryEphemeralPub",
           "primaryIdentityPublic", "linkCodePairingRef"})
MexUpdateNotification ==
    Plus(Heard(Notification, {"opName"}), Slot("no", "must", {"jsonObj"}))
PictureNotification == Notification
DeletePictureNotification == Kept(Notification, {"deleteJid"})
SetPictureNotification == Kept(Notification, {"setJid", "setId"})
StatusNotification == Extend(Notification, {"status"}, {}, Slot("set", "opt", {"status"}))
WaOldCodeNotification == Heard(Notification, {"code", "deviceId"})

ContactNotification == Notification
AddContactNotification == Kept(Notification, {"contactJid"})
RemoveContactNotification == Kept(Notification, {"contactJid"})
UpdateContactNotification == Kept(Notification, {"contactJid"})
\* It is told apart by a child "usync", and read from a child "sync".
ContactsSyncNotification == Extend(Notification, {"after"}, {}, Slot("must", "must", {"after"}))

GroupsNotification == Kept(Notification, {"participant"})
AddGroupsNotification == Kept(GroupsNotification, {"participants"})
RemoveGroupsNotification == Kept(GroupsNotification, {"participants", "subject"})
SubjectGroupsNotification ==
    Extend(Kept(GroupsNotification, {"subject", "subjectOwner"}), {"subjectTimestamp"}, {},
           Slot("must", "must", {"subjectTimestamp"}))
CreateGroupsNotification ==
    Extend(Kept(GroupsNotification, {"createType", "key", "groupId", "creatorJid", "subject",
                                     "subjectOwnerJid", "participants"}),
           {"creationTimestamp", "subjectTime"}, {},
           Slot("must", "must", {"creationTimestamp", "subjectTime"}))
\* Written with the type and the key of a creation, which it does not have.
InviteGroupsNotification ==
    Extend(Kept(GroupsNotification, {"groupId", "creatorJid", "subject", "subjectOwnerJid",
                                     "participants"}),
           {"creationTimestamp", "subjectTime", "reason"}, {},
           Slot("must", "must", {"creationTimestamp", "subjectTime"})
           \cup Slot("bad", "opt", {"reason"}))
IdentityChangeEncryptNotification == Notification
RequestKeysEncryptNotification == Kept(Notification, {"count"})

-----------------------------------------------------------------------------
(* Messages, receipts, acks and the rest *)

\* One class: a message without a sender is an outgoing one.
Message ==
    Plus(Kept(Entity, {"_type"}), Slot("true", "opt", {"id", "participant", "edit"})
                                  \cup Slot("set", "opt", {"category"}))
OutgoingMessage == Plus(Kept(Message, {"recipient"}), Slot("set", "opt", {"phash"}))
IncomingMessage ==
    Plus(Kept(Message, {"sender", "timestamp"}),
         \* written without a test, although only some messages have it
         Slot("must", "opt", {"from_pn"}) \cup Slot("true", "opt", {"offline", "notify", "retry"}))
Proto == Plus(Entity, Slot("set", "opt", {"protoData"}) \cup Slot("true", "opt", {"mediaType"}))
Enc ==
    Plus(Extend(Entity, {"type", "version", "data"}, {},
                Slot("must", "must", {"type", "version"}) \cup Slot("set", "opt", {"data"})),
         Slot("true", "opt", {"mediaType"}) \cup Slot("true", "no", {"jid", "count"}))
EncryptedMessage ==
    Extend(OutgoingMessage, {"encEntities"}, {}, Part("must", "must", "encEntities", "Enc"))

Receipt == Kept(Entity, {"_id"})
IncomingReceipt ==
    Plus(Kept(Receipt, {"_from", "timestamp"}),
         Slot("set", "opt", {"offline", "type", "participant", "items"}))
OutgoingReceipt ==
    Extend(Entity, {"messageIds", "to"}, {"read", "participant", "recipient", "callId", "view",
                                          "otherIds", "serverIds"},
           Slot("must", "opt", {"messageIds"}) \cup Slot("true", "opt", {"to", "read", "participant"})
           \cup Slot("true", "no", {"recipient", "callId", "view"})
           \* a list of ids is read with a method that nodes do not have
           \cup Slot("true", "fails", {"otherIds", "serverIds"}))
RetryIncomingReceipt ==
    Extend(IncomingReceipt, {"remoteRegistrationId", "v", "count", "retryTimestamp"}, {},
           Slot("must", "must", {"remoteRegistrationId", "v", "count", "retryTimestamp"}))
\* Reading calls a method the class does not have.
RetryOutgoingReceipt ==
    Extend(OutgoingReceipt, {"local_registration_id", "v", "count", "retry_timestamp"}, {},
           Slot("must", "no", {"local_registration_id", "v", "count", "retry_timestamp"})
           \cup Slot("no", "must", {"setRetryData"}))

Ack == Plus(Kept(Entity, {"_id", "_class"}), Slot("no", "opt", {"_error"})
                                            \cup Slot("true", "opt", {"_type"}))
IncomingAck ==
    Plus(Kept(Ack, {"_from", "timestamp"}), Slot("no", "opt", {"participant"}))
OutgoingAck == Plus(Kept(Ack, {"_to"}), Slot("true", "opt", {"_participant"}))

\* Mutant: the name is written without a test.
PresenceUntested ==
    Plus(Entity, Slot("true", "opt", {"_type", "_from", "last"}) \cup Slot("must", "opt", {"name"}))
Presence == Plus(Entity, Slot("true", "opt", {"_type", "name", "_from", "last"}))
AvailablePresence == Entity
UnavailablePresence == Entity
SubscribePresence == Kept(Entity, {"jid"})
UnsubscribePresence == Kept(Entity, {"jid"})

Chatstate == Extend(Entity, {"_state"}, {}, Slot("must", "must", {"_state"}))
IncomingChatstate == Kept(Chatstate, {"_from"})
OutgoingChatstate == Plus(Kept(Chatstate, {"_to"}), Slot("true", "opt", {"participant"}))

\* The child of a call names its kind, and the call it belongs to.
call_child == Plus(Kept(Entity, {"_type"}), Slot("must", "opt", {"callId"}))
Call ==
    Plus(Extend(Entity, {"timestamp"}, {"child"},
                Slot("must", "must", {"timestamp"}) \cup Part("true", "opt", "child", "call_child")),
         Slot("true", "opt", {"_id", "offline"})
         \cup Slot("set", "opt", {"_from", "_to", "retry", "e", "notify"}))

Ib == Entity
DirtyIb == Extend(Kept(Ib, {"_type"}), {"timestamp"}, {}, Slot("must", "must", {"timestamp"}))
OfflineIb == Extend(Ib, {"count"}, {}, Slot("must", "must", {"count"}))
\* Reading returns nothing.
AccountIb ==
    Plus(Extend(Kept(Ib, {"status", "kind"}), {"creation", "expiration"}, {},
                Slot("must", "must", {"creation", "expiration"})),
         Slot("no", "gate", {"return"}))
EdgeRoutingIb == Plus(Ib, Slot("no", "opt", {"routing_info"}))
CatIb == Written(Ib, {}, {"catdata"})

Auth ==
    Plus(Kept(Entity, {"user", "mechanism"}), Slot("true", "opt", {"passive"})
                                              \cup Slot("set", "opt", {"nonce"}))
\* The nonce is written as a text, which a node refuses.
Challenge == Extend(Entity, {"nonce"}, {}, Slot("bad", "must", {"nonce"}))
Failure == Kept(Entity, {"reason"})
Response == Extend(Kept(Entity, {"xmlns"}), {}, {"data"}, Slot("set", "opt", {"data"}))
\* The code is read and not written.
StreamError ==
    Plus(Extend(Entity, {"data"}, {}, Slot("must", "opt", {"data"})), Slot("no", "opt", {"code"}))
StreamFeatures == Plus(Entity, Slot("true", "opt", {"features"}))
Success ==
    Extend(Kept(Entity, {"location", "props"}), {"creation", "t"}, {},
           Slot("must", "must", {"creation", "t"}))
-----------------------------------------------------------------------------
StanzaTable ==
    [Entity |-> Entity, Iq |-> Iq, Request |-> Request, ResultIq |-> ResultIq, ErrorIq |-> ErrorIq,
     PingIq |-> PingIq, PongResultIq |-> PongResultIq, AccountInfoIq |-> AccountInfoIq,
     AccountInfoResultIq |-> AccountInfoResultIq, AccountLogoutApproveIq |->
     AccountLogoutApproveIq, AppSyncResetIq |-> AppSyncResetIq, AppSyncStateIq |->
     AppSyncStateIq, GetBroadcastList |-> GetBroadcastList, CleanDirtyIq |-> CleanDirtyIq,
     CryptoIq |-> CryptoIq, DeviceLogoutResultIq |-> DeviceLogoutResultIq, EmailResultIq |->
     EmailResultIq, GetEmailIq |-> GetEmailIq, MultiDevicePairIq |-> MultiDevicePairIq,
     MultiDevicePairCompanionFinishIq |-> MultiDevicePairCompanionFinishIq,
     MultiDevicePairCompanionHelloIq |-> MultiDevicePairCompanionHelloIq,
     MultiDevicePairDeviceIq |-> MultiDevicePairDeviceIq, MultiDevicePairPrimaryHelloIq |->
     MultiDevicePairPrimaryHelloIq, MultiDevicePairSignIq |-> MultiDevicePairSignIq,
     MultiDevicePairSuccessIq |-> MultiDevicePairSuccessIq, MultiDeviceRemoveCompanionDeviceIq
     |-> MultiDeviceRemoveCompanionDeviceIq, MultiDevicePairDeviceResultIq |->
     MultiDevicePairDeviceResultIq, PassiveIq |-> PassiveIq, PropsIq |-> PropsIq, PushIq |->
     PushIq, PushGetPnIq |-> PushGetPnIq, PushGetPnResultIq |-> PushGetPnResultIq, PushSetIdIq
     |-> PushSetIdIq, Set2FAIq |-> Set2FAIq, SetBusinessNameIq |-> SetBusinessNameIq,
     SetBusinessProfileIq |-> SetBusinessProfileIq, SetEmailIq |-> SetEmailIq, TrustContactIq
     |-> TrustContactIq, VerifyEmailIq |-> VerifyEmailIq, VerifyEmailCodeIq |->
     VerifyEmailCodeIq, VerifyEmailResultIq |-> VerifyEmailResultIq, WmexQueryIq |->
     WmexQueryIq, WmexResultIq |-> WmexResultIq, GetKeysCountIq |-> GetKeysCountIq,
     ResultKeyCountIq |-> ResultKeyCountIq, GetKeysIq |-> GetKeysIq, user_keys |-> user_keys,
     ResultGetKeysIq |-> ResultGetKeysIq, SetKeysIq |-> SetKeysIq, RequestMediaConnIq |->
     RequestMediaConnIq, ResultRequestMediaConnIq |-> ResultRequestMediaConnIq, RequestUploadIq
     |-> RequestUploadIq, ResultRequestUploadIq |-> ResultRequestUploadIq, LastseenIq |->
     LastseenIq, ResultLastseenIq |-> ResultLastseenIq, PrivacyListIq |-> PrivacyListIq,
     GroupsIq |-> GroupsIq, CreateCommunityIq |-> CreateCommunityIq, SetCommunityGroupsIq |->
     SetCommunityGroupsIq, CreateGroupsIq |-> CreateGroupsIq, SuccessCreateGroupsIq |->
     SuccessCreateGroupsIq, GetInviteCodeGroupsIq |-> GetInviteCodeGroupsIq,
     SuccessGetInviteCodeGroupsIq |-> SuccessGetInviteCodeGroupsIq, InfoGroupsIq |->
     InfoGroupsIq, JoinWithCodeGroupsIq |-> JoinWithCodeGroupsIq, SuccessJoinWithCodeGroupsIq
     |-> SuccessJoinWithCodeGroupsIq, LeaveGroupsIq |-> LeaveGroupsIq, SuccessLeaveGroupsIq |->
     SuccessLeaveGroupsIq, ListGroupsIq |-> ListGroupsIq, ParticipantsGroupsIq |->
     ParticipantsGroupsIq, AddParticipantsIq |-> AddParticipantsIq, DemoteParticipantsIq |->
     DemoteParticipantsIq, PromoteParticipantsIq |-> PromoteParticipantsIq, RemoveParticipantsIq
     |-> RemoveParticipantsIq, FailureAddParticipantsIq |-> FailureAddParticipantsIq,
     SuccessAddParticipantsIq |-> SuccessAddParticipantsIq, ApproveParticipantsGroupsIq |->
     ApproveParticipantsGroupsIq, SuccessRemoveParticipantsIq |-> SuccessRemoveParticipantsIq,
     SetGroupsIq |-> SetGroupsIq, SubjectGroupsIq |-> SubjectGroupsIq, InfoGroupsResultIq |->
     InfoGroupsResultIq, ListGroupsResultIq |-> ListGroupsResultIq, StatusGetIq |-> StatusGetIq,
     SyncIq |-> SyncIq, DevicesGetSyncIq |-> DevicesGetSyncIq, DevicesResultSyncIq |->
     DevicesResultSyncIq, GetSyncIq |-> GetSyncIq, ResultSyncIq |-> ResultSyncIq, PictureIq |->
     PictureIq, GetPictureIq |-> GetPictureIq, ResultGetPictureIq |-> ResultGetPictureIq,
     SetPictureIq |-> SetPictureIq, ResultSetPictureIq |-> ResultSetPictureIq, GetPrivacyIq |->
     GetPrivacyIq, ResultPrivacyIq |-> ResultPrivacyIq, SetPrivacyIq |-> SetPrivacyIq,
     SetStatusIq |-> SetStatusIq, GetStatusesIq |-> GetStatusesIq, ResultStatusesIq |->
     ResultStatusesIq, UnregisterIq |-> UnregisterIq, Notification |-> Notification,
     AccountSyncNotification |-> AccountSyncNotification, BusinessNameUpdateNotification |->
     BusinessNameUpdateNotification, BusinessRemoveNotification |-> BusinessRemoveNotification,
     DeviceLogoutNotification |-> DeviceLogoutNotification, DisapperingModeNotification |->
     DisapperingModeNotification, LinkCodeCompanionRegNotification |->
     LinkCodeCompanionRegNotification, MexUpdateNotification |-> MexUpdateNotification,
     PictureNotification |-> PictureNotification, DeletePictureNotification |->
     DeletePictureNotification, SetPictureNotification |-> SetPictureNotification,
     StatusNotification |-> StatusNotification, WaOldCodeNotification |-> WaOldCodeNotification,
     ContactNotification |-> ContactNotification, AddContactNotification |->
     AddContactNotification, RemoveContactNotification |-> RemoveContactNotification,
     UpdateContactNotification |-> UpdateContactNotification, ContactsSyncNotification |->
     ContactsSyncNotification, GroupsNotification |-> GroupsNotification, AddGroupsNotification
     |-> AddGroupsNotification, RemoveGroupsNotification |-> RemoveGroupsNotification,
     SubjectGroupsNotification |-> SubjectGroupsNotification, CreateGroupsNotification |->
     CreateGroupsNotification, InviteGroupsNotification |-> InviteGroupsNotification,
     IdentityChangeEncryptNotification |-> IdentityChangeEncryptNotification,
     RequestKeysEncryptNotification |-> RequestKeysEncryptNotification, Message |-> Message,
     OutgoingMessage |-> OutgoingMessage, IncomingMessage |-> IncomingMessage, Proto |-> Proto,
     Enc |-> Enc, EncryptedMessage |-> EncryptedMessage, Receipt |-> Receipt, IncomingReceipt
     |-> IncomingReceipt, OutgoingReceipt |-> OutgoingReceipt, RetryIncomingReceipt |->
     RetryIncomingReceipt, RetryOutgoingReceipt |-> RetryOutgoingReceipt, Ack |-> Ack,
     IncomingAck |-> IncomingAck, OutgoingAck |-> OutgoingAck, Presence |-> Presence,
     AvailablePresence |-> AvailablePresence, UnavailablePresence |-> UnavailablePresence,
     SubscribePresence |-> SubscribePresence, UnsubscribePresence |-> UnsubscribePresence,
     Chatstate |-> Chatstate, IncomingChatstate |-> IncomingChatstate, OutgoingChatstate |->
     OutgoingChatstate, call_child |-> call_child, Call |-> Call, Ib |-> Ib, DirtyIb |->
     DirtyIb, OfflineIb |-> OfflineIb, AccountIb |-> AccountIb, EdgeRoutingIb |-> EdgeRoutingIb,
     CatIb |-> CatIb, Auth |-> Auth, Challenge |-> Challenge, Failure |-> Failure, Response |->
     Response, StreamError |-> StreamError, StreamFeatures |-> StreamFeatures, Success |->
     Success]
=============================================================================
