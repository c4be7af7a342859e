--------------------------- MODULE MessageStructs ---------------------------
(***************************************************************************)
(* The content of a message: the attribute classes an application fills    *)
(* in, and the converter between them and the protocol buffer that is      *)
(* encrypted.  The sender's converter writes, the receiver's reads.        *)
(***************************************************************************)
EXTENDS Structs

\* What the attribute classes have ("..._has"), and how the converter moves it.
message_key_has == Has({"remote_jid", "from_me"}, {"id", "participant"})
message_key ==
    Moves(message_key_has,
          Slot("must", "raw", {"remote_jid", "from_me"}) \cup Slot("set", "raw", {"id"})
          \* participant.participant: a jid has no such attribute
          \cup Slot("bad", "raw", {"participant"}))

sender_key_distribution_message_has ==
    Has({"group_id", "axolotl_sender_key_distribution_message"}, {})
sender_key_distribution_message ==
    Moves(sender_key_distribution_message_has,
          Slot("must", "raw", sender_key_distribution_message_has.need))

disappearing_mode_has ==
    Has({}, {"initiator", "trigger", "initiatedByMe", "initiatorDeviceJid"})
disappearing_mode ==
    Moves(disappearing_mode_has,
          Slot("set", "opt", {"trigger", "initiatedByMe"})
          \* an empty jid is assigned as None, which the field refuses
          \cup Slot("some", "opt", {"initiatorDeviceJid"})
          \* the getter of initiator returns the trigger
          \cup Moved("set", "no", "initiator", "trigger") \cup Slot("no", "opt", {"initiator"}))

initial_security_notification_setting_sync ==
    Class({"security_notification_enabled"}, {},
          Slot("must", "raw", {"security_notification_enabled"}))

app_state_sync_key_fingerprint_has == Has({"raw_id", "current_index", "device_indexes"}, {})
app_state_sync_key_fingerprint ==
    Moves(app_state_sync_key_fingerprint_has,
          Slot("must", "no", app_state_sync_key_fingerprint_has.need))
app_state_sync_key_data_has == Has({"key_data", "timestamp", "fingerprint"}, {})
app_state_sync_key_data ==
    Moves(app_state_sync_key_data_has,
          Slot("must", "no", {"key_data", "timestamp"})
          \cup Part("must", "no", "fingerprint", "app_state_sync_key_fingerprint"))
app_state_sync_key_id == Class({"key_id"}, {}, Slot("must", "no", {"key_id"}))
app_state_sync_key ==
    Class({"key_id", "key_data"}, {},
          Part("must", "no", "key_id", "app_state_sync_key_id")
          \cup Part("must", "no", "key_data", "app_state_sync_key_data"))
app_state_sync_key_share ==
    Class({"keys"}, {}, Part("must", "no", "keys", "app_state_sync_key"))

history_sync_notification ==
    LET media == {"mediaSha256", "mediaEncryptedSha256", "mediaKey", "mediaDirectPath", "mediaSize"}
    IN  Class(media, {"syncType"}, Slot("must", "opt", media) \cup Slot("set", "opt", {"syncType"}))

\* What the class of protocol messages has and the converter moves nowhere.
ProtocolUnused ==
    {"ephemeral_setting_timestamp", "app_state_sync_key_request",
     "app_state_fatal_exception_notification", "timestamp_ms",
     "peer_data_operation_request_message", "peer_data_operation_request_response_message",
     "bot_feedback_message", "request_welcome_message_metadata", "media_notify_message"}
protocol_has ==
    Has({"type"},
        ProtocolUnused \cup
        {"key", "initial_security_notification_setting_sync", "app_state_sync_key_share",
         "history_sync_notification", "edited_message", "ephemeral_expiration",
         "disappearing_mode"})
protocol ==
    Moves(protocol_has,
          Slot("must", "raw", {"type"}) \cup Part("set", "raw", "key", "message_key")
          \cup Part("set", "opt", "initial_security_notification_setting_sync",
                    "initial_security_notification_setting_sync")
          \cup Part("set", "no", "app_state_sync_key_share", "app_state_sync_key_share")
          \cup Part("set", "opt", "history_sync_notification", "history_sync_notification")
          \cup Part("set", "opt", "edited_message", "message")
          \cup Slot("set", "opt", {"ephemeral_expiration"})
          \cup Part("set", "opt", "disappearing_mode", "disappearing_mode"))

business_message_forward_info ==
    Class({}, {"business_owner_jid"}, Slot("set", "no", {"business_owner_jid"}))

external_ad_reply_has ==
    Has({}, {"title", "media_type", "thumbnail", "source_url", "contains_auto_reply",
             "render_larger_thumbnail", "show_ad_attribution",
             "body", "thumbnail_url", "media_url", "source_type", "source_id"})
external_ad_reply ==
    LET unread == {"body", "thumbnail_url", "media_url", "source_type", "source_id"}
    IN  Moves(external_ad_reply_has,
              Slot("set", "opt", external_ad_reply_has.may \ unread)
              \cup Slot("set", "no", unread))

context_info_has ==
    Has({"mentioned_jid"},
        {"stanza_id", "participant", "remote_jid", "conversion_delay_seconds",
         "forwarding_score", "is_forwarded", "expiration", "ephemeral_setting_timestamp",
         "entry_point_conversion_source", "entry_point_conversion_app",
         "entry_point_conversion_delay_seconds", "quoted_message", "edit_version",
         "revoke_message", "action_link", "disappearing_mode", "external_ad_reply",
         "business_message_forward_info"})
context_info ==
    LET unmoved == {"edit_version", "revoke_message", "action_link"}
        parts == {"quoted_message", "disappearing_mode", "external_ad_reply",
                  "business_message_forward_info"}
    IN  Moves(context_info_has,
              Slot("set", "opt", context_info_has.may \ (unmoved \cup parts))
              \cup Slot("true", "raw", {"mentioned_jid"})
              \cup Part("true", "opt", "quoted_message", "message")
              \cup Part("set", "opt", "disappearing_mode", "disappearing_mode")
              \cup Part("set", "opt", "external_ad_reply", "external_ad_reply")
              \cup Part("set", "no", "business_message_forward_info",
                        "business_message_forward_info"))

media == Class({}, {"context_info"}, Part("true", "opt", "context_info", "context_info"))
downloadablemedia_has ==
    Has({"mimetype", "file_length", "file_sha256"},
        {"url", "media_key", "media_key_timestamp", "file_enc_sha256", "direct_path"})
downloadablemedia ==
    MovesMore(media, downloadablemedia_has,
              Slot("must", "raw", downloadablemedia_has.need)
              \cup Slot("set", "raw", downloadablemedia_has.may))

\* The media kinds hold a downloadablemedia_attributes, which shares their buffer.
image_has == Has({"width", "height"}, {"caption", "jpeg_thumbnail"})
image ==
    MovesMore(downloadablemedia, image_has,
              Slot("must", "raw", image_has.need) \cup Slot("set", "opt", image_has.may))
\* The image of a product: its caption is not written.
product_image ==
    [image EXCEPT !.slots = (@ \ Slot("set", "opt", {"caption"})) \cup Slot("no", "opt", {"caption"})]
product_has ==
    Has({"product_id", "title", "description", "business_owner_jid", "product_image"},
        {"context_info"})
product ==
    Moves(product_has,
          Slot("must", "raw", product_has.need \ {"product_image"})
          \cup Part("must", "raw", "product_image", "product_image"))
document_has ==
    Has({"file_name"}, {"own_file_length", "title", "page_count", "jpeg_thumbnail", "caption"})
document ==
    MovesMore(downloadablemedia, document_has,
              Slot("set", "opt", {"file_name"} \cup (document_has.may \ {"own_file_length"}))
              \* the file_length of the document is overwritten by the one of its media
              \cup Moved("no", "opt", "file_length", "own_file_length"))
audio_has == Has({}, {"seconds", "ptt", "streaming_sidecar"})
audio == MovesMore(downloadablemedia, audio_has, Slot("set", "raw", {"seconds", "ptt"}))
video_has ==
    Has({}, {"width", "height", "seconds", "caption", "gif_playback", "jpeg_thumbnail",
             "gif_attribution", "streaming_sidecar"})
\* Mutant: the caption of a video is not read back.
VideoWithoutCaption ==
    MovesMore(downloadablemedia, video_has,
              Slot("set", "raw", video_has.may \ {"caption"}) \cup Slot("set", "no", {"caption"}))
video == MovesMore(downloadablemedia, video_has, Slot("set", "raw", video_has.may))
sticker_has ==
    Has({}, {"width", "height", "png_thumbnail", "is_animated", "is_avatar",
             "is_ai_sticker", "is_lottie", "sticker_sent_ts"})
sticker ==
    MovesMore(downloadablemedia, sticker_has,
              Slot("set", "raw", sticker_has.may \ {"sticker_sent_ts"})
              \* left out, it becomes a float, which the integer field refuses
              \cup Slot("must", "raw", {"sticker_sent_ts"}))
contact_has == Has({"display_name", "vcard"}, {})
contact == MovesMore(media, contact_has, Slot("must", "raw", contact_has.need))
extended_text_has ==
    Has({}, {"text", "matched_text", "canonical_url", "description", "title",
             "jpeg_thumbnail", "text_argb", "background_argb", "font", "preview_type",
             "invite_link_group_type_v2", "doNotPlayInline", "context_info"})
extended_text ==
    LET other == {"doNotPlayInline", "context_info"}
    IN  Moves(extended_text_has,
              Slot("set", "opt", extended_text_has.may \ other)
              \cup Slot("set", "no", {"doNotPlayInline"})
              \cup Part("set", "opt", "context_info", "context_info"))
location_has ==
    Has({}, {"degrees_latitude", "degrees_longitude", "name", "address", "url",
             "accuracy_in_meters", "speed_in_mps", "degrees_clockwise_from_magnetic_north",
             "jpeg_thumbnail", "duration", "axolotl_sender_key_distribution_message"})
location ==
    LET foreign == {"duration", "axolotl_sender_key_distribution_message"}
    IN  Moves(location_has,
              \* the buffer has no such fields, and the module named has no such class
              Slot("set", "opt", location_has.may \ foreign) \cup Slot("bad", "no", foreign)
              \cup Slot("no", "must", foreign))
reaction_has ==
    Has({"msgid", "remote_jid", "from_me", "text", "sender_timestamp_ms"}, {"participant"})
reaction ==
    Moves(reaction_has,
          Slot("must", "raw", reaction_has.need) \cup Slot("set", "opt", reaction_has.may))
poll_creation_has == Has({"name", "multi"}, {"options", "message_secret", "context_info"})
poll_creation ==
    Moves(poll_creation_has, Slot("must", "raw", {"name", "options", "multi", "message_secret"}))
poll_update_has == Has({"msgid", "creator_jid", "voter_jid", "options"}, {})
poll_update == Moves(poll_update_has, Slot("no", "raw", poll_update_has.need))

\* Messages with choices: TemplateAttributes is indexed as if it were a dict.
template ==
    Class({"text"}, {"buttons"}, Slot("bad", "raw", {"text"}) \cup Slot("must", "raw", {"buttons"}))
buttons_has == Has({"buttons", "content"}, {"footer", "context_info"})
buttons ==
    Moves(buttons_has, Slot("must", "no", buttons_has.need) \cup Slot("set", "no", {"footer"}))
buttons_response_has ==
    Has({"selected_button_id", "selected_display_text", "type"}, {"context_info"})
buttons_response == Moves(buttons_response_has, Slot("no", "raw", buttons_response_has.need))
list_has ==
    Has({"title", "button_text", "list_content"}, {"description", "footer", "context_info"})
list ==
    Moves(list_has,
          Slot("must", "no", list_has.need) \cup Slot("set", "no", {"description", "footer"}))
list_response_has == Has({"selected_row_id", "title", "list_type"}, {"context_info"})
list_response == Moves(list_response_has, Slot("no", "raw", list_response_has.need))
interactive_header_has ==
    Has({}, {"title", "subtitle", "image", "document", "video", "thumbnail"})
interactive_header ==
    Moves(interactive_header_has,
          Slot("must", "no", {"title", "subtitle"}) \cup Slot("true", "no", {"thumbnail"})
          \cup Part("true", "no", "image", "image") \cup Part("true", "no", "document", "document")
          \* merged into the field of the document
          \cup Part("bad", "no", "video", "video"))
interactive_has == Has({"body"}, {"header", "footer", "buttons"})
interactive ==
    Moves(interactive_has,
          Slot("true", "no", {"body", "footer", "buttons"})
          \cup Part("true", "no", "header", "interactive_header"))

ContentBothWays ==
    {"image", "contact", "location", "extended_text", "document", "audio", "video", "sticker",
     "reaction", "template", "poll_creation", "product", "sender_key_distribution_message",
     "protocol"}
ContentOut == {"buttons", "list", "interactive"}
ContentIn == {"buttons_response", "list_response", "poll_update"}
message_has ==
    Has({}, {"conversation", "fromMe", "to"} \cup ContentBothWays \cup ContentOut \cup ContentIn)
message ==
    Moves(message_has,
          Slot("true", "opt", {"conversation"})
          \cup UNION {Part("true", "opt", c, c) : c \in ContentBothWays}
          \cup UNION {Part("true", "no", c, c) : c \in ContentOut}
          \cup UNION {Part("no", "opt", c, c) : c \in ContentIn})

-----------------------------------------------------------------------------
(* The history a primary device packs for a new companion.                 *)

history_message_key ==
    LET names == {"remoteJid", "id", "participant"}
    IN  Class({}, names \cup {"fromMe"},
              Slot("set", "opt", names)
              \* written as from_me, asked for as fromMe: the question raises
              \cup Moved("set", "no", "from_me", "fromMe") \cup Slot("no", "must", {"fromMe"}))
web_message_info == Class({"key"}, {}, Part("must", "raw", "key", "history_message_key"))
conversation == Class({"id"}, {}, Slot("set", "opt", {"id"}))
past_participant ==
    LET names == {"userJid", "leaveReason", "leaveTs"}
    IN  Class(names, {}, Slot("set", "opt", names))
past_participants ==
    Class({"groupJid", "pastParticipants"}, {},
          Slot("must", "opt", {"groupJid"})
          \cup Part("must", "opt", "pastParticipants", "past_participant"))
pushname == Class({"id", "pushname"}, {}, Slot("must", "opt", {"id", "pushname"}))
history_sync ==
    Class({"syncType"}, {"conversations", "pastParticipants", "statusV3Messages", "pushnames"},
          Slot("set", "opt", {"syncType"})
          \cup Part("set", "opt", "conversations", "conversation")
          \cup Part("set", "opt", "pastParticipants", "past_participants")
          \cup Part("set", "opt", "statusV3Messages", "web_message_info")
          \cup Part("set", "opt", "pushnames", "pushname"))
-----------------------------------------------------------------------------
MessageTable ==
    [message_key |-> message_key, sender_key_distribution_message |->
     sender_key_distribution_message, disappearing_mode |-> disappearing_mode,
     initial_security_notification_setting_sync |-> initial_security_notification_setting_sync,
     app_state_sync_key_fingerprint |-> app_state_sync_key_fingerprint, app_state_sync_key_data
     |-> app_state_sync_key_data, app_state_sync_key_id |-> app_state_sync_key_id,
     app_state_sync_key |-> app_state_sync_key, app_state_sync_key_share |->
     app_state_sync_key_share, history_sync_notification |-> history_sync_notification, protocol
     |-> protocol, business_message_forward_info |-> business_message_forward_info,
     external_ad_reply |-> external_ad_reply, context_info |-> context_info, downloadablemedia
     |-> downloadablemedia, image |-> image, product_image |-> product_image, product |->
     product, document |-> document, audio |-> audio, video |-> video, sticker |-> sticker,
     contact |-> contact, extended_text |-> extended_text, location |-> location, reaction |->
     reaction, poll_creation |-> poll_creation, poll_update |-> poll_update, template |->
     template, buttons |-> buttons, buttons_response |-> buttons_response, list |-> list,
     list_response |-> list_response, interactive_header |-> interactive_header, interactive |->
     interactive, message |-> message, history_message_key |-> history_message_key,
     web_message_info |-> web_message_info, conversation |-> conversation, past_participant |->
     past_participant, past_participants |-> past_participants, pushname |-> pushname,
     history_sync |-> history_sync]
=============================================================================
