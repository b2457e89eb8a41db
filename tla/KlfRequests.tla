---------------------------- MODULE KlfRequests ----------------------------
(***************************************************************************)
(* The requests of src/klf200/command.rs.  A request is named by its Rust  *)
(* variant.  What matters of it beyond that is the session identifier, the *)
(* number of target nodes, the length of its text, its priority settings   *)
(* and, for a raw request, the command and the length of the payload.  A   *)
(* payload is its length and the set of bytes each field occupies.         *)
(***************************************************************************)
EXTENDS KlfCommands, KlfFrame, TLC

At(i) == {i}
Span(first, width) == first..(first + width - 1)
Payload(length, fields) == [length |-> length, fields |-> fields]
Empty == Payload(0, <<>>)
Empties(kinds) == [kind \in kinds |-> Empty]
Byte(name) == Payload(1, name :> At(0))

-----------------------------------------------------------------------------
\* The command_id functions: the stem of each request's command.
ConfigurationRequest ==
    [GetSystemTableData |-> "CS_GET_SYSTEMTABLE_DATA", DiscoverNodes |-> "CS_DISCOVER_NODES",
     RemoveNodes |-> "CS_REMOVE_NODES", VirginState |-> "CS_VIRGIN_STATE",
     ControllerCopy |-> "CS_CONTROLLER_COPY", ReceiveKey |-> "CS_RECEIVE_KEY",
     GenerateNewKey |-> "CS_GENERATE_NEW_KEY", RepairKey |-> "CS_REPAIR_KEY",
     ActivateConfiguration |-> "CS_ACTIVATE_CONFIGURATION_MODE"]

NodeGroupRequest ==
    [SetNodeVariation |-> "SET_NODE_VARIATION", SetNodeName |-> "SET_NODE_NAME",
     SetNodeOrderAndPlacement |-> "SET_NODE_ORDER_AND_PLACEMENT",
     GetGroup |-> "GET_GROUP_INFORMATION", SetGroup |-> "SET_GROUP_INFORMATION",
     DeleteGroup |-> "DELETE_GROUP", NewGroup |-> "NEW_GROUP",
     GetAllGroups |-> "GET_ALL_GROUPS_INFORMATION"]

CommandExtensionRequest ==
    [Wink |-> "WINK_SEND", SetLimitation |-> "SET_LIMITATION",
     GetLimitationStatus |-> "GET_LIMITATION_STATUS", Mode |-> "MODE_SEND"]

SceneContactRequest ==
    [InitializeScene |-> "INITIALIZE_SCENE",
     CancelSceneInitialization |-> "INITIALIZE_SCENE_CANCEL",
     RecordScene |-> "RECORD_SCENE", DeleteScene |-> "DELETE_SCENE",
     RenameScene |-> "RENAME_SCENE", GetSceneList |-> "GET_SCENE_LIST",
     GetSceneInformation |-> "GET_SCENE_INFOAMATION", ActivateScene |-> "ACTIVATE_SCENE",
     StopScene |-> "STOP_SCENE", ActivateProductGroup |-> "ACTIVATE_PRODUCTGROUP",
     GetContactInputLinks |-> "GET_CONTACT_INPUT_LINK_LIST",
     SetContactInputLink |-> "SET_CONTACT_INPUT_LINK",
     RemoveContactInputLink |-> "REMOVE_CONTACT_INPUT_LINK"]

ActivationLogRequest ==
    [GetHeader |-> "GET_ACTIVATION_LOG_HEADER", Clear |-> "CLEAR_ACTIVATION_LOG",
     GetLine |-> "GET_ACTIVATION_LOG_LINE",
     GetLinesSince |-> "GET_MULTIPLE_ACTIVATION_LOG_LINES"]

OwnRequest ==
    [Reboot |-> "REBOOT", SetFactoryDefault |-> "SET_FACTORY_DEFAULT",
     GetVersion |-> "GET_VERSION", GetProtocolVersion |-> "GET_PROTOCOL_VERSION",
     GetState |-> "GET_STATE", LeaveLearnState |-> "LEAVE_LEARN_STATE",
     GetNetworkSetup |-> "GET_NETWORK_SETUP", SetNetworkSetup |-> "SET_NETWORK_SETUP",
     SetUtc |-> "SET_UTC", SetTimeZone |-> "RTC_SET_TIME_ZONE", GetLocalTime |-> "GET_LOCAL_TIME",
     GetAllNodesInformation |-> "GET_ALL_NODES_INFORMATION",
     HouseStatusMonitorEnable |-> "HOUSE_STATUS_MONITOR_ENABLE",
     HouseStatusMonitorDisable |-> "HOUSE_STATUS_MONITOR_DISABLE",
     GetNodeInformation |-> "GET_NODE_INFORMATION", PasswordEnter |-> "PASSWORD_ENTER",
     PasswordChange |-> "PASSWORD_CHANGE", CommandSend |-> "COMMAND_SEND",
     StatusRequest |-> "STATUS_REQUEST"]

StemOf == ConfigurationRequest @@ NodeGroupRequest @@ CommandExtensionRequest
          @@ SceneContactRequest @@ ActivationLogRequest @@ OwnRequest
Kinds == DOMAIN StemOf

command_id(request) ==
    IF request.kind = "Raw" THEN request.command ELSE Id[REQ(StemOf[request.kind])]

NoSession == 0
SessionKinds == {"CommandSend", "StatusRequest", "ActivateScene", "StopScene",
                 "ActivateProductGroup"} \cup DOMAIN CommandExtensionRequest
session_id(request) == IF request.kind \in SessionKinds THEN request.session ELSE NoSession

-----------------------------------------------------------------------------
\* The layouts the encoders write.
encode_network_setup ==
    Payload(13, [ip_address |-> Span(0, 4), subnet_mask |-> Span(4, 4),
                 default_gateway |-> Span(8, 4), dhcp |-> At(12)])

encode_node_set == Payload(26, [actuators |-> Span(0, 25), beacons |-> At(25)])

encode_group_information ==
    Payload(99, [group_id |-> At(0), order |-> Span(1, 2), placement |-> At(3),
                 name |-> Span(4, 64), velocity |-> At(68), node_variation |-> At(69),
                 group_type |-> At(70), object_count |-> At(71), actuators |-> Span(72, 25),
                 revision |-> Span(97, 2)])

encode_new_group_information ==
    Payload(96, [order |-> Span(0, 2), placement |-> At(2), name |-> Span(3, 64),
                 velocity |-> At(67), node_variation |-> At(68), group_type |-> At(69),
                 object_count |-> At(70), actuators |-> Span(71, 25)])

\* encode_target fills the slots from the left and returns the number of nodes,
\* which the caller stores in the count byte.
encode_target(count, first, end) == [count |-> At(count), nodes |-> first..(end - 1)]

Session == [session_id |-> Span(0, 2)]
Sender == [command_originator |-> At(2), priority_level |-> At(3)]

encode_wink ==
    Payload(27, Session @@ Sender @@ [enabled |-> At(4), wink_time |-> At(5)]
                @@ encode_target(6, 7, 27))

encode_set_limitation ==
    Payload(31, Session @@ Sender @@ encode_target(4, 5, 25)
                @@ [parameter_id |-> At(25), minimum |-> Span(26, 2),
                    maximum |-> Span(28, 2), limitation_time |-> At(30)])

encode_get_limitation_status ==
    Payload(25, Session @@ encode_target(2, 3, 23)
                @@ [parameter_id |-> At(23), limitation_type |-> At(24)])

encode_mode ==
    Payload(31, Session @@ Sender @@ [mode_number |-> At(4), mode_parameter |-> At(5)]
                @@ encode_target(6, 7, 27)
                @@ [priority_level_lock |-> At(27), low_settings |-> At(28),
                    high_settings |-> At(29), lock_time |-> At(30)])

encode_activate_scene ==
    Payload(6, Session @@ Sender @@ [scene_id |-> At(4), velocity |-> At(5)])

encode_stop_scene == Payload(5, Session @@ Sender @@ [scene_id |-> At(4)])

encode_activate_product_group ==
    Payload(13, Session @@ Sender
                @@ [product_group_id |-> At(4), parameter_id |-> At(5), position |-> Span(6, 2),
                    velocity |-> At(8), priority_level_lock |-> At(9), low_settings |-> At(10),
                    high_settings |-> At(11), lock_time |-> At(12)])

encode_contact_input_link ==
    Payload(17, [contact_input_id |-> At(0), assignment |-> At(1), action_id |-> At(2),
                 command_originator |-> At(3), priority_level |-> At(4), parameter_id |-> At(5),
                 position |-> Span(6, 2), velocity |-> At(8), lock_priority_level |-> At(9),
                 priority_level_settings |-> Span(10, 5), success_output_id |-> At(15),
                 error_output_id |-> At(16)])

\* The 32 bytes after the main parameter are the functional parameters and the
\* bytes 62..65 the priority lock; the client leaves both, and 5..6, at zero.
encode_command_send ==
    Payload(66, Session @@ Sender @@ [parameter_active |-> At(4), main_parameter |-> Span(7, 2)]
                @@ encode_target(41, 42, 62))

encode_status_request ==
    Payload(26, Session @@ encode_target(2, 3, 23) @@ [status_type |-> At(23)])

-----------------------------------------------------------------------------
\* The payloads by request: the encode function of each request enum.
Named(id) == Payload(65, (id :> At(0)) @@ [name |-> Span(1, 64)])

ConfigurationPayload ==
    Empties({"GetSystemTableData", "VirginState", "ReceiveKey", "GenerateNewKey", "RepairKey"})
    @@ [DiscoverNodes |-> Byte("node_type"), ControllerCopy |-> Byte("mode"),
        RemoveNodes |-> encode_node_set, ActivateConfiguration |-> encode_node_set]

NodeGroupPayload ==
    [SetNodeVariation |-> Payload(2, [node_id |-> At(0), variation |-> At(1)]),
     SetNodeName |-> Named("node_id"),
     SetNodeOrderAndPlacement |->
         Payload(4, [node_id |-> At(0), order |-> Span(1, 2), placement |-> At(3)]),
     GetGroup |-> Byte("group_id"), DeleteGroup |-> Byte("group_id"),
     SetGroup |-> encode_group_information, NewGroup |-> encode_new_group_information,
     GetAllGroups |-> Payload(2, [use_filter |-> At(0), group_type |-> At(1)])]

CommandExtensionPayload ==
    [Wink |-> encode_wink, SetLimitation |-> encode_set_limitation,
     GetLimitationStatus |-> encode_get_limitation_status, Mode |-> encode_mode]

SceneContactPayload ==
    Empties({"InitializeScene", "CancelSceneInitialization", "GetSceneList", "GetContactInputLinks"})
    @@ [RecordScene |-> Payload(64, [name |-> Span(0, 64)]),
        DeleteScene |-> Byte("scene_id"), GetSceneInformation |-> Byte("scene_id"),
        RemoveContactInputLink |-> Byte("contact_input_id"), RenameScene |-> Named("scene_id"),
        ActivateScene |-> encode_activate_scene, StopScene |-> encode_stop_scene,
        ActivateProductGroup |-> encode_activate_product_group,
        SetContactInputLink |-> encode_contact_input_link]

ActivationLogPayload ==
    Empties({"GetHeader", "Clear"})
    @@ [GetLine |-> Payload(2, [line |-> Span(0, 2)]),
        GetLinesSince |-> Payload(4, [timestamp |-> Span(0, 4)])]

OwnPayload ==
    Empties({"Reboot", "SetFactoryDefault", "GetVersion", "GetProtocolVersion", "GetState",
             "LeaveLearnState", "GetNetworkSetup", "GetLocalTime", "GetAllNodesInformation",
             "HouseStatusMonitorEnable", "HouseStatusMonitorDisable"})
    @@ [SetNetworkSetup |-> encode_network_setup,
        SetUtc |-> Payload(4, [timestamp |-> Span(0, 4)]),
        SetTimeZone |-> Payload(64, [time_zone |-> Span(0, 64)]),
        GetNodeInformation |-> Byte("node_id"),
        PasswordEnter |-> Payload(32, [password |-> Span(0, 32)]),
        PasswordChange |-> Payload(64, [current_password |-> Span(0, 32),
                                        new_password |-> Span(32, 32)]),
        CommandSend |-> encode_command_send, StatusRequest |-> encode_status_request]

PayloadOf == ConfigurationPayload @@ NodeGroupPayload @@ CommandExtensionPayload
             @@ SceneContactPayload @@ ActivationLogPayload @@ OwnPayload

-----------------------------------------------------------------------------
\* What makes an encode fail.
NulInText == -1
TextWidth == [kind \in {"SetTimeZone", "SetNodeName", "SetGroup", "NewGroup", "RecordScene",
                        "RenameScene", "PasswordEnter", "PasswordChange"} |->
                 IF kind \in {"PasswordEnter", "PasswordChange"} THEN 32 ELSE 64]
encode_fixed_string(text, width) == text # NulInText /\ text <= width - 1

\* A link carries its five settings as they are; of the eight of the others, four at a
\* time are packed into a byte.
PackedKinds == {"Mode", "ActivateProductGroup"}
SettingKinds == PackedKinds \cup {"SetContactInputLink"}

validate_priority_settings(settings) == \A i \in DOMAIN settings : settings[i] <= 3

\* Only validated settings are packed, so that to or one into the bits a shift has
\* freed is to add it.
pack_two_bit_settings(settings) ==
    LET packed[i \in 0..Len(settings)] ==
            IF i = 0 THEN 0 ELSE ((packed[i - 1] * 4) % 256) + settings[i]
    IN  packed[Len(settings)]

\* Request::encode then Frame::encode succeed.
Encodes(request) ==
    /\ request.kind \in DOMAIN TextWidth =>
          encode_fixed_string(request.text, TextWidth[request.kind])
    /\ request.kind \in SettingKinds => validate_priority_settings(request.settings)
    /\ request.kind = "Raw" => /\ Kind(request.command) \in {"Request", "Unknown"}
                               /\ PayloadFits(request.length)

\* Mutant of MAX_TARGETS.
MAX_TARGETS_21 == 21

MAX_TARGETS == 20

\* CommandTarget::new for a list of count nodes, repeated when one occurs twice.
TargetKinds == {"CommandSend", "StatusRequest", "Wink", "SetLimitation", "GetLimitationStatus",
                "Mode"}
CommandTarget_new(count, repeated) == count > 0 /\ count <= MAX_TARGETS /\ ~repeated
=============================================================================
