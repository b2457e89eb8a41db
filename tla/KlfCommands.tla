---------------------------- MODULE KlfCommands ----------------------------
(***************************************************************************)
(* The command registry of src/klf200/command_id.rs.  A known command is   *)
(* the stem of its name, the suffix that tells its kind and its raw 16-bit *)
(* identifier; the common prefix GW_ is left out.  Elsewhere a command is  *)
(* its raw identifier, as in CommandId.                                    *)
(***************************************************************************)
EXTENDS Integers

Pair(stem, raw) == {<<stem, "REQ", raw>>, <<stem, "CFM", raw + 1>>}
Ntf(stem, raw) == {<<stem, "NTF", raw>>}
Triple(stem, raw) == Pair(stem, raw) \cup Ntf(stem, raw + 2)

ALL_KNOWN_COMMANDS == UNION {
    Ntf("ERROR", \h0000),
    Pair("REBOOT", \h0001),
    Pair("SET_FACTORY_DEFAULT", \h0003),
    Pair("GET_VERSION", \h0008),
    Pair("GET_PROTOCOL_VERSION", \h000A),
    Pair("GET_STATE", \h000C),
    Pair("LEAVE_LEARN_STATE", \h000E),
    Pair("GET_NETWORK_SETUP", \h00E0),
    Pair("SET_NETWORK_SETUP", \h00E2),
    Triple("CS_GET_SYSTEMTABLE_DATA", \h0100),
    Triple("CS_DISCOVER_NODES", \h0103),
    Pair("CS_REMOVE_NODES", \h0106),
    Pair("CS_VIRGIN_STATE", \h0108),
    Triple("CS_CONTROLLER_COPY", \h010A), Ntf("CS_CONTROLLER_COPY_CANCEL", \h010D),
    Triple("CS_RECEIVE_KEY", \h010E),
    Ntf("CS_PGC_JOB", \h0111), Ntf("CS_SYSTEM_TABLE_UPDATE", \h0112),
    Triple("CS_GENERATE_NEW_KEY", \h0113),
    Triple("CS_REPAIR_KEY", \h0116),
    Pair("CS_ACTIVATE_CONFIGURATION_MODE", \h0119),
    Pair("GET_NODE_INFORMATION", \h0200), Ntf("GET_NODE_INFORMATION", \h0210),
    Triple("GET_ALL_NODES_INFORMATION", \h0202),
    Ntf("GET_ALL_NODES_INFORMATION_FINISHED", \h0205),
    Pair("SET_NODE_VARIATION", \h0206),
    Pair("SET_NODE_NAME", \h0208),
    Ntf("NODE_INFORMATION_CHANGED", \h020C),
    Pair("SET_NODE_ORDER_AND_PLACEMENT", \h020D),
    Ntf("NODE_STATE_POSITION_CHANGED", \h0211),
    Pair("GET_GROUP_INFORMATION", \h0220), Ntf("GET_GROUP_INFORMATION", \h0230),
    Pair("SET_GROUP_INFORMATION", \h0222),
    Ntf("GROUP_INFORMATION_CHANGED", \h0224),
    Pair("DELETE_GROUP", \h0225),
    Pair("NEW_GROUP", \h0227),
    Triple("GET_ALL_GROUPS_INFORMATION", \h0229),
    Ntf("GET_ALL_GROUPS_INFORMATION_FINISHED", \h022C),
    Ntf("GROUP_DELETED", \h022D),
    Pair("HOUSE_STATUS_MONITOR_ENABLE", \h0240),
    Pair("HOUSE_STATUS_MONITOR_DISABLE", \h0242),
    Pair("COMMAND_SEND", \h0300),
    Ntf("COMMAND_RUN_STATUS", \h0302), Ntf("COMMAND_REMAINING_TIME", \h0303),
    Ntf("SESSION_FINISHED", \h0304),
    Triple("STATUS_REQUEST", \h0305),
    Triple("WINK_SEND", \h0308),
    Pair("SET_LIMITATION", \h0310),
    Pair("GET_LIMITATION_STATUS", \h0312), Ntf("LIMITATION_STATUS", \h0314),
    Triple("MODE_SEND", \h0320),
    Triple("INITIALIZE_SCENE", \h0400),
    Pair("INITIALIZE_SCENE_CANCEL", \h0403),
    Triple("RECORD_SCENE", \h0405),
    Pair("DELETE_SCENE", \h0408),
    Pair("RENAME_SCENE", \h040A),
    Triple("GET_SCENE_LIST", \h040C),
    Triple("GET_SCENE_INFOAMATION", \h040F),
    Pair("ACTIVATE_SCENE", \h0412),
    Pair("STOP_SCENE", \h0415),
    Ntf("SCENE_INFORMATION_CHANGED", \h0419),
    Triple("ACTIVATE_PRODUCTGROUP", \h0447),
    Pair("GET_CONTACT_INPUT_LINK_LIST", \h0460),
    Pair("SET_CONTACT_INPUT_LINK", \h0462),
    Pair("REMOVE_CONTACT_INPUT_LINK", \h0464),
    Pair("GET_ACTIVATION_LOG_HEADER", \h0500),
    Pair("CLEAR_ACTIVATION_LOG", \h0502),
    Pair("GET_ACTIVATION_LOG_LINE", \h0504),
    Ntf("ACTIVATION_LOG_UPDATED", \h0506),
    {<<"GET_MULTIPLE_ACTIVATION_LOG_LINES", "REQ", \h0507>>,
     <<"GET_MULTIPLE_ACTIVATION_LOG_LINES", "NTF", \h0508>>,
     <<"GET_MULTIPLE_ACTIVATION_LOG_LINES", "CFM", \h0509>>},
    Pair("SET_UTC", \h2000),
    Pair("RTC_SET_TIME_ZONE", \h2002),
    Pair("GET_LOCAL_TIME", \h2004),
    Pair("PASSWORD_ENTER", \h3000),
    Triple("PASSWORD_CHANGE", \h3002)}

\* The names GW_<stem>_REQ, GW_<stem>_CFM and GW_<stem>_NTF.
REQ(stem) == <<stem, "REQ">>
CFM(stem) == <<stem, "CFM">>
NTF(stem) == <<stem, "NTF">>
CFMs(stems) == {CFM(stem) : stem \in stems}
NTFs(stems) == {NTF(stem) : stem \in stems}

Names == {<<c[1], c[2]>> : c \in ALL_KNOWN_COMMANDS}
KnownIds == {c[3] : c \in ALL_KNOWN_COMMANDS}

\* The CommandId constant of a name, and the name of a known command.
Id == [name \in Names |->
          (CHOOSE c \in ALL_KNOWN_COMMANDS : c[1] = name[1] /\ c[2] = name[2])[3]]
known == [id \in KnownIds |->
             LET c == CHOOSE c \in ALL_KNOWN_COMMANDS : c[3] = id IN <<c[1], c[2]>>]

KindOf == [REQ |-> "Request", CFM |-> "Confirmation", NTF |-> "Notification"]
Kind(command) == IF command \in KnownIds THEN KindOf[known[command][2]] ELSE "Unknown"

NoCommand == -1

\* Mutant of expected_confirmation: the confirmation has the next identifier.
expected_confirmation_next(command) ==
    IF Kind(command) = "Request" THEN command + 1 ELSE NoCommand

\* The confirmation is found by name: the same stem with the other suffix.
expected_confirmation(command) ==
    IF Kind(command) = "Request" /\ CFM(known[command][1]) \in Names
    THEN Id[CFM(known[command][1])] ELSE NoCommand
=============================================================================
