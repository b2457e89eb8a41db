---------------------------- MODULE KlfResponses ----------------------------
(***************************************************************************)
(* Response::decode of src/klf200/response.rs.  A frame carries, beside    *)
(* its command and payload length, the contents on which a decoder acts:   *)
(* the byte that counts entries, the byte that tells sorts apart, the      *)
(* session identifier, and whether its text is UTF-8.  For every command   *)
(* a layout says what the decoder demands and which bytes it reads; what a *)
(* field means is left out.  A read beyond the payload panics, as indexing *)
(* a slice does in Rust.                                                   *)
(***************************************************************************)
EXTENDS KlfRequests

\* need: the least length demanded before anything is read; early: the bytes read
\* to learn the count or the sort; then the payload must have base + count * width
\* bytes, or only need if it is open; the entries start at start, and a field tail
\* is the last byte.
NoEntries == <<>>
Fixed(variant, length, fields) ==
    [variant |-> variant, need |-> length, early |-> {}, limit |-> 255, base |-> length,
     width |-> 0, start |-> 0, stride |-> 0, entry |-> NoEntries, fields |-> fields,
     open |-> FALSE, tail |-> FALSE]
Counted(variant, need, count, limit, base, start, width, entry, fields, tail) ==
    [Fixed(variant, base, fields @@ [count |-> At(count)]) EXCEPT
        !.need = need, !.early = At(count), !.limit = limit, !.width = width,
        !.start = start, !.stride = width, !.entry = entry, !.tail = tail]
Opaque(variant, need, fields) == [Fixed(variant, need, fields) EXCEPT !.open = TRUE]

Each(commands, layout) == [command \in commands |-> layout]
Shift(fields, offset) == [f \in DOMAIN fields |-> {b + offset : b \in fields[f]}]
Acknowledgement(commands) == Each(commands, Fixed("Acknowledgement", 0, <<>>))
Status == [status |-> At(0)]

-----------------------------------------------------------------------------
decode_session_status(variant) == Fixed(variant, 3, Session @@ [status |-> At(2)])

decode_activation_log ==
    (CFM("GET_ACTIVATION_LOG_HEADER") :>
        Fixed("ActivationLogHeader", 4, [maximum_lines |-> Span(0, 2), line_count |-> Span(2, 2)]))
    @@ Acknowledgement({CFM("CLEAR_ACTIVATION_LOG"), NTF("ACTIVATION_LOG_UPDATED")})
    @@ Each({CFM("GET_ACTIVATION_LOG_LINE"), NTF("GET_MULTIPLE_ACTIVATION_LOG_LINES")},
            Fixed("ActivationLogEntry", 17,
                  [timestamp |-> Span(0, 4), session_id |-> Span(4, 2), status_id |-> At(6),
                   node_id |-> At(7), node_parameter |-> At(8), parameter_value |-> Span(9, 2),
                   run_status |-> At(11), status_reply |-> At(12),
                   information_code |-> Span(13, 4)]))
    @@ (CFM("GET_MULTIPLE_ACTIVATION_LOG_LINES") :>
        Fixed("MultipleActivationLogResult", 3, [line_count |-> Span(0, 2), status |-> At(2)]))

decode_scene_list ==
    Counted("SceneList", 2, 0, 3, 2, 1, 65, [scene_id |-> At(0), name |-> Span(1, 64)], <<>>, TRUE)

decode_scene_information ==
    Counted("SceneInformation", 67, 65, 45, 67, 66, 4,
            [node_id |-> At(0), parameter_id |-> At(1), parameter |-> Span(2, 2)],
            [scene_id |-> At(0), name |-> Span(1, 64)], TRUE)

decode_contact_input_link ==
    [contact_input_id |-> At(0), assignment |-> At(1), action_id |-> At(2),
     command_originator |-> At(3), priority_level |-> At(4), parameter_id |-> At(5),
     position |-> Span(6, 2), velocity |-> At(8), lock_priority_level |-> At(9),
     priority_level_settings |-> Span(10, 5), success_output_id |-> At(15),
     error_output_id |-> At(16)]

decode_contact_input_links ==
    Counted("ContactInputLinks", 1, 0, 10, 1, 1, 17, decode_contact_input_link, <<>>, FALSE)

decode_scene_contact ==
    Each(CFMs({"INITIALIZE_SCENE", "INITIALIZE_SCENE_CANCEL", "RECORD_SCENE"}),
         Fixed("SceneStatusResult", 1, Status))
    @@ (NTF("INITIALIZE_SCENE") :>
            Fixed("SceneInitializationResult", 26, Status @@ [node_states |-> Span(1, 25)]))
    @@ Each(NTFs({"RECORD_SCENE"}) \cup CFMs({"DELETE_SCENE", "RENAME_SCENE",
                                              "GET_SCENE_INFOAMATION"}),
            Fixed("SceneObjectResult", 2, Status @@ [scene_id |-> At(1)]))
    @@ (CFM("GET_SCENE_LIST") :> Fixed("SceneListAccepted", 1, [total_scenes |-> At(0)]))
    @@ (NTF("GET_SCENE_LIST") :> decode_scene_list)
    @@ (NTF("GET_SCENE_INFOAMATION") :> decode_scene_information)
    @@ Each(CFMs({"ACTIVATE_SCENE", "STOP_SCENE"}),
            Fixed("SceneSessionResult", 3, Status @@ [session_id |-> Span(1, 2)]))
    @@ (NTF("SCENE_INFORMATION_CHANGED") :>
            Fixed("SceneChange", 2, [change_type |-> At(0), scene_id |-> At(1)]))
    @@ (CFM("ACTIVATE_PRODUCTGROUP") :>
            Fixed("ProductGroupResult", 3, Session @@ [status |-> At(2)]))
    @@ (NTF("ACTIVATE_PRODUCTGROUP") :> Opaque("ProductGroupNotification", 0, <<>>))
    @@ (CFM("GET_CONTACT_INPUT_LINK_LIST") :> decode_contact_input_links)
    @@ Each(CFMs({"SET_CONTACT_INPUT_LINK", "REMOVE_CONTACT_INPUT_LINK"}),
            Fixed("ContactInputOperationResult", 2, [contact_input_id |-> At(0), status |-> At(1)]))

decode_command_extension ==
    Each(CFMs({"WINK_SEND", "SET_LIMITATION", "GET_LIMITATION_STATUS", "MODE_SEND"}),
         Fixed("SessionCommandResult", 3, Session @@ [status |-> At(2)]))
    @@ (NTF("WINK_SEND") :> Fixed("WinkFinished", 2, Session))
    @@ (NTF("LIMITATION_STATUS") :>
            Fixed("LimitationStatus", 10,
                  Session @@ [node_id |-> At(2), parameter_id |-> At(3), minimum |-> Span(4, 2),
                              maximum |-> Span(6, 2), originator |-> At(8),
                              limitation_time |-> At(9)]))
    @@ (NTF("MODE_SEND") :> Opaque("ModeNotification", 0, <<>>))

-----------------------------------------------------------------------------
decode_group_information ==
    [group_id |-> At(0), order |-> Span(1, 2), placement |-> At(3), name |-> Span(4, 64),
     velocity |-> At(68), node_variation |-> At(69), group_type |-> At(70),
     object_count |-> At(71), actuators |-> Span(72, 25), revision |-> Span(97, 2)]

\* The sort is the change type; group_id of a change is group_id of its information.
Changed == 1
GroupChange(sort) ==
    [IF sort = Changed
     THEN Fixed("GroupChange", 100, [change_type |-> At(0)] @@ Shift(decode_group_information, 1))
     ELSE Fixed("GroupChange", 2, [change_type |-> At(0), group_id |-> At(1)])
     EXCEPT !.need = 2, !.early = {0, 1}]

decode_node_group(sort) ==
    Each(CFMs({"SET_NODE_VARIATION", "SET_NODE_NAME", "SET_NODE_ORDER_AND_PLACEMENT"}),
         Fixed("NodeMutationResult", 2, Status @@ [node_id |-> At(1)]))
    @@ Each(CFMs({"GET_GROUP_INFORMATION", "SET_GROUP_INFORMATION", "NEW_GROUP"}),
            Fixed("GroupOperationResult", 2, Status @@ [group_id |-> At(1)]))
    @@ (CFM("DELETE_GROUP") :>
            Fixed("GroupOperationResult", 2, [status |-> At(1), group_id |-> At(0)]))
    @@ Each(NTFs({"GET_GROUP_INFORMATION", "GET_ALL_GROUPS_INFORMATION"}),
            Fixed("GroupInformation", 99, decode_group_information))
    @@ (NTF("GROUP_INFORMATION_CHANGED") :> GroupChange(sort))
    @@ (CFM("GET_ALL_GROUPS_INFORMATION") :>
            Fixed("AllGroupsAccepted", 2, Status @@ [total_groups |-> At(1)]))
    @@ Acknowledgement(NTFs({"GET_ALL_GROUPS_INFORMATION_FINISHED"}))
    @@ (NTF("GROUP_DELETED") :> Fixed("GroupDeleted", 1, [group_id |-> At(0)]))

decode_node_set(offset) == Span(offset, 25) \cup At(offset + 25)

decode_system_table_data ==
    Counted("SystemTableData", 2, 0, 255, 2, 1, 11,
            [index |-> At(0), actuator_address |-> Span(1, 3), actuator_type_sub_type |-> Span(4, 2),
             power_mode_and_flags |-> At(6), manufacturer_id |-> At(7),
             backbone_reference |-> Span(8, 3)], <<>>, TRUE)

decode_configuration ==
    Acknowledgement(CFMs({"CS_GET_SYSTEMTABLE_DATA", "CS_DISCOVER_NODES", "CS_VIRGIN_STATE",
                          "CS_CONTROLLER_COPY", "CS_RECEIVE_KEY", "CS_GENERATE_NEW_KEY",
                          "CS_REPAIR_KEY"}) \cup NTFs({"CS_CONTROLLER_COPY_CANCEL"}))
    @@ (NTF("CS_GET_SYSTEMTABLE_DATA") :> decode_system_table_data)
    @@ (NTF("CS_DISCOVER_NODES") :>
            Fixed("NodeDiscoveryResult", 131,
                  [added |-> decode_node_set(0), rf_connection_error |-> decode_node_set(26),
                   key_error_existing_node |-> decode_node_set(52),
                   removed |-> decode_node_set(78), open |-> decode_node_set(104),
                   status |-> At(130)]))
    @@ (CFM("CS_REMOVE_NODES") :> Fixed("NodesRemoved", 1, [scene_deleted |-> At(0)]))
    @@ (NTF("CS_CONTROLLER_COPY") :>
            Fixed("ControllerCopyResult", 2, [mode |-> At(0), status |-> At(1)]))
    @@ Each(NTFs({"CS_RECEIVE_KEY", "CS_GENERATE_NEW_KEY", "CS_REPAIR_KEY"}),
            Fixed("KeyChangeResult", 53, Status @@ [changed |-> decode_node_set(1),
                                                    unchanged |-> decode_node_set(27)]))
    @@ (NTF("CS_PGC_JOB") :>
            Fixed("PgcJob", 3, [state |-> At(0), status |-> At(1), job_type |-> At(2)]))
    @@ (NTF("CS_SYSTEM_TABLE_UPDATE") :>
            Fixed("SystemTableUpdate", 52, [added |-> decode_node_set(0),
                                            removed |-> decode_node_set(26)]))
    @@ (CFM("CS_ACTIVATE_CONFIGURATION_MODE") :>
            Fixed("ConfigurationActivationResult", 79,
                  [activated |-> decode_node_set(0), no_contact |-> decode_node_set(26),
                   other_error |-> decode_node_set(52), status |-> At(78)]))

-----------------------------------------------------------------------------
decode_version ==
    Fixed("Version", 9, [software |-> Span(0, 6), hardware |-> At(6), product_group |-> At(7),
                         product_type |-> At(8)])

decode_gateway ==
    (NTF("ERROR") :> Fixed("ErrorNotification", 1, [error_number |-> At(0)]))
    @@ Acknowledgement(CFMs({"SET_NETWORK_SETUP", "SET_UTC"}))
    @@ (CFM("PASSWORD_ENTER") :> Fixed("PasswordEntered", 1, [accepted |-> At(0)]))
    @@ (CFM("PASSWORD_CHANGE") :> Fixed("PasswordChanged", 1, [accepted |-> At(0)]))
    @@ (NTF("PASSWORD_CHANGE") :>
            Fixed("PasswordChangedNotification", 32, [new_password |-> Span(0, 32)]))
    @@ (CFM("GET_VERSION") :> decode_version)
    @@ (CFM("GET_PROTOCOL_VERSION") :>
            Fixed("ProtocolVersion", 4, [major |-> Span(0, 2), minor |-> Span(2, 2)]))
    @@ (CFM("GET_STATE") :>
            Fixed("GatewayState", 6, [state |-> At(0), sub_state |-> At(1), data |-> Span(2, 4)]))
    @@ Each(CFMs({"LEAVE_LEARN_STATE", "RTC_SET_TIME_ZONE"}), Fixed("OperationStatus", 1, Status))
    @@ (CFM("GET_NETWORK_SETUP") :>
            Fixed("NetworkSetup", 13, [ip_address |-> Span(0, 4), subnet_mask |-> Span(4, 4),
                                       default_gateway |-> Span(8, 4), dhcp |-> At(12)]))
    @@ (CFM("GET_LOCAL_TIME") :>
            Fixed("LocalTime", 15,
                  [utc_time |-> Span(0, 4), second |-> At(4), minute |-> At(5), hour |-> At(6),
                   day_of_month |-> At(7), month_since_january |-> At(8),
                   years_since_1900 |-> Span(9, 2), week_day |-> At(11),
                   day_of_year |-> Span(12, 2), daylight_saving_flag |-> At(14)]))

\* Five slots for aliases, of which the first count are read.
decode_node_information ==
    [Counted("NodeInformation", 124, 103, 5, 124, 104, 4, [kind |-> Span(0, 2), value |-> Span(2, 2)],
             [node_id |-> At(0), order |-> Span(1, 2), placement |-> At(3), name |-> Span(4, 64),
              velocity |-> At(68), node_type_sub_type |-> Span(69, 2), product_group |-> At(71),
              product_type |-> At(72), variation |-> At(73), power_mode |-> At(74),
              build_number |-> At(75), serial_number |-> Span(76, 8), operating_state |-> At(84),
              current_position |-> Span(85, 2), target_position |-> Span(87, 2),
              functional_positions |-> Span(89, 8), remaining_time |-> Span(97, 2),
              timestamp |-> Span(99, 4)], FALSE)
     EXCEPT !.width = 0]

decode_node_state ==
    Fixed("NodeStatePosition", 20,
          [node_id |-> At(0), operating_state |-> At(1), current_position |-> Span(2, 2),
           target_position |-> Span(4, 2), functional_positions |-> Span(6, 8),
           remaining_time |-> Span(14, 2), timestamp |-> Span(16, 4)])

decode_command_run_status ==
    Fixed("CommandRunStatus", 13,
          Session @@ [status_id |-> At(2), node_id |-> At(3), node_parameter |-> At(4),
                      parameter_value |-> Span(5, 2), run_status |-> At(7),
                      status_reply |-> At(8), information_code |-> Span(9, 4)])

\* The sort is the status type.
decode_status_notification(sort) ==
    LET head == Session @@ [status_id |-> At(2), node_id |-> At(3), run_status |-> At(4),
                            status_reply |-> At(5), status_type |-> At(6)]
        main == [target_position |-> Span(7, 2), current_position |-> Span(9, 2),
                 remaining_time |-> Span(11, 2), last_master_execution_address |-> Span(13, 4),
                 last_command_originator |-> At(17)]
    IN  CASE sort \in 0..2 ->
                [Counted("StatusNotification", 8, 7, 255, 8, 8, 3,
                         [node_parameter |-> At(0), value |-> Span(1, 2)], head, FALSE)
                 EXCEPT !.early = {6, 7}]
          [] sort = 3 -> [Fixed("StatusNotification", 18, head @@ main)
                          EXCEPT !.need = 7, !.early = At(6)]
          [] OTHER -> [Opaque("StatusNotification", 7, head) EXCEPT !.early = At(6)]

decode_core(sort) ==
    decode_gateway
    @@ Acknowledgement(CFMs({"REBOOT", "SET_FACTORY_DEFAULT", "HOUSE_STATUS_MONITOR_ENABLE",
                             "HOUSE_STATUS_MONITOR_DISABLE"})
                       \cup NTFs({"GET_ALL_NODES_INFORMATION_FINISHED"}))
    @@ (CFM("GET_NODE_INFORMATION") :>
            Fixed("NodeInformationAccepted", 2, Status @@ [node_id |-> At(1)]))
    @@ (CFM("GET_ALL_NODES_INFORMATION") :>
            Fixed("AllNodesInformationAccepted", 2, Status @@ [total_nodes |-> At(1)]))
    @@ Each(NTFs({"GET_NODE_INFORMATION", "GET_ALL_NODES_INFORMATION"}), decode_node_information)
    @@ (NTF("NODE_INFORMATION_CHANGED") :>
            Fixed("NodeInformationChanged", 69,
                  [node_id |-> At(0), name |-> Span(1, 64), order |-> Span(65, 2),
                   placement |-> At(67), variation |-> At(68)]))
    @@ (NTF("NODE_STATE_POSITION_CHANGED") :> decode_node_state)
    @@ (CFM("COMMAND_SEND") :> decode_session_status("CommandAccepted"))
    @@ (NTF("COMMAND_RUN_STATUS") :> decode_command_run_status)
    @@ (NTF("COMMAND_REMAINING_TIME") :>
            Fixed("CommandRemainingTime", 6,
                  Session @@ [node_id |-> At(2), node_parameter |-> At(3), seconds |-> Span(4, 2)]))
    @@ (NTF("SESSION_FINISHED") :> Fixed("SessionFinished", 2, Session))
    @@ (CFM("STATUS_REQUEST") :> decode_session_status("StatusAccepted"))
    @@ (NTF("STATUS_REQUEST") :> decode_status_notification(sort))

-----------------------------------------------------------------------------
\* Response::decode: the decoder is picked by the range the command lies in.
Decoder(command, sort) ==
    CASE command \in \h0100..\h011A -> decode_configuration
      [] command \in (\h0206..\h0209) \cup (\h020D..\h020E) \cup (\h0220..\h0230) ->
            decode_node_group(sort)
      [] command \in \h0308..\h0322 -> decode_command_extension
      [] command \in \h0400..\h0465 -> decode_scene_contact
      [] command \in \h0500..\h0509 -> decode_activation_log
      [] OTHER -> decode_core(sort)

Unknown == Opaque("Unknown", 0, <<>>)
Pick(table, name) == IF name \in DOMAIN table THEN table[name] ELSE Unknown
Sorts == 0..4
Tables == [sort \in Sorts |-> [command \in KnownIds |->
             Pick(Decoder(command, sort), known[command])]]
LayoutOf(frame) == IF frame.command \in KnownIds THEN Tables[frame.sort][frame.command] ELSE Unknown

Bytes(frame) == 0..(frame.length - 1)
EntryBytes(layout, i) ==
    {layout.start + i * layout.stride + b : b \in UNION {layout.entry[f] : f \in DOMAIN layout.entry}}
LastByte(layout, frame) == IF layout.tail THEN At(frame.length - 1) ELSE {}
Entries(layout, frame) == IF layout.entry = NoEntries THEN 0 ELSE frame.count
BytesRead(layout, frame) ==
    (UNION {layout.fields[f] : f \in DOMAIN layout.fields})
    \cup (UNION {EntryBytes(layout, i) : i \in 0..(Entries(layout, frame) - 1)})
    \cup LastByte(layout, frame)

\* Mutant of LengthRequired: require where require_exact is meant.
LengthRequired_least(layout, frame) == frame.length >= layout.need

\* require and require_exact.
LengthRequired(layout, frame) ==
    IF layout.open THEN frame.length >= layout.need
    ELSE frame.length = layout.base + layout.width * Entries(layout, frame)

Texts == {"name", "new_password"}
HasText(layout, frame) ==
    \/ Texts \cap DOMAIN layout.fields # {}
    \/ Texts \cap DOMAIN layout.entry # {} /\ frame.count > 0

Error == "error"
Panic == "panic"

\* The variant of Response, Error or Panic.  session_id_at refuses the identifier
\* zero and decode_fixed_string text that is not UTF-8.
DecodeAs(layout, frame) ==
    IF frame.length < layout.need THEN Error
    ELSE IF ~(layout.early \subseteq Bytes(frame)) THEN Panic
    ELSE IF \/ layout.entry # NoEntries /\ frame.count > layout.limit
            \/ ~LengthRequired(layout, frame)
            \/ "session_id" \in DOMAIN layout.fields /\ frame.session = NoSession
            \/ HasText(layout, frame) /\ ~frame.text
    THEN Error
    ELSE IF BytesRead(layout, frame) \subseteq Bytes(frame) THEN layout.variant ELSE Panic
Decode(frame) == DecodeAs(LayoutOf(frame), frame)
=============================================================================
