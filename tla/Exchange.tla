------------------------------ MODULE Exchange ------------------------------
(***************************************************************************)
(* One connection's requests and answers, with their contents: a client    *)
(* that takes session identifiers from the allocator, the actor of         *)
(* src/klf200/connection.rs with the codecs it applies to every frame, and *)
(* a gateway that runs sessions.  KlfConnection has the same actor with    *)
(* its queues, its callers and its shutdown and without contents.          *)
(***************************************************************************)
EXTENDS SessionIdAllocator, KlfResponses

CONSTANTS
    MaxFlight,      \* bound: frames on their way from the gateway
    Crowd           \* bound: the requests sent while any session is open

ASSUME ExchangeAssumption == MaxFlight \in Nat \ {0} /\ Crowd \subseteq SessionKinds

VARIABLES
    pending,        \* the request the actor waits on, or NoRequest
    sessions,       \* the sessions the actor tracks
    asked,          \* the request the gateway has to answer, or NoRequest
    running,        \* by identifier, how many sessions of it the gateway runs
    incoming,       \* frames from the gateway the actor has not handled
    event,          \* what the last step let somebody see, or Nothing
    stale           \* history: identifiers whose session the actor lost sight of

allocator == <<next, active, probes, phase, first, outcome>>
gateway == <<asked, running>>
exchange == <<pending, sessions, asked, running, incoming, event, stale>>

NoRequest == [kind |-> "none"]
Nothing == [kind |-> "none"]

-----------------------------------------------------------------------------
\* The requests: one for each kind, and the variations in content on which the
\* encoders and CommandTarget::new depend.
Plain(kind, session) ==
    [kind |-> kind, session |-> session, nodes |-> 1, repeated |-> FALSE, text |-> 0,
     settings |-> <<0, 1, 2, 3>>, command |-> NoCommand, length |-> 0, subject |-> 0]
NotKnown == \h7777
Raw(command, length) == [Plain("Raw", NoSession) EXCEPT !.command = command, !.length = length]

Built(request) ==
    request.kind \in TargetKinds => CommandTarget_new(request.nodes, request.repeated)

Contentless == {Plain(kind, NoSession) : kind \in Kinds \ SessionKinds}
WithText ==
    {[Plain(kind, NoSession) EXCEPT !.text = text] :
        kind \in DOMAIN TextWidth, text \in {NulInText, 31, 32, 63, 64}}
WithSettings ==
    {[Plain(kind, IF kind \in SessionKinds THEN 1 ELSE NoSession) EXCEPT !.settings = settings] :
        kind \in SettingKinds, settings \in {<<0, 0, 0, 0>>, <<3, 3, 3, 3>>, <<0, 4, 0, 0>>}}
Aimed(kind, n, r) == [Plain(kind, 1) EXCEPT !.nodes = n, !.repeated = r]
WithTarget ==
    {Aimed(kind, n, r) : kind \in TargetKinds, n \in {0, 1, 20, 21}, r \in BOOLEAN}
WithSession == {Plain(kind, 1) : kind \in SessionKinds}
RawCommands == {Id[REQ("GET_STATE")], Id[CFM("GET_STATE")], Id[NTF("ERROR")], NotKnown}
WithCommand ==
    {Raw(command, length) : length \in {0, MAX_PAYLOAD_LENGTH, MAX_PAYLOAD_LENGTH + 1},
        command \in RawCommands}
Solo == Contentless \cup WithText \cup WithSettings \cup WithTarget \cup WithSession
        \cup WithCommand

Quiet ==
    /\ phase = "idle" /\ event = Nothing
    /\ active = {} /\ sessions = {} /\ stale = {} /\ pending = NoRequest /\ asked = NoRequest
    /\ incoming = <<>> /\ \A s \in Ids : running[s] = 0

\* Bound: no identifier has been handed out.
Fresh == outcome = Refused /\ next = 1 /\ first = 1

-----------------------------------------------------------------------------
\* The requests a stream of notifications follows; their answers are in Discovery.
StreamKinds == {"GetAllNodesInformation", "GetNodeInformation", "GetAllGroups"}

\* The gateway's answers.  Contents a decoder does not look at are left out.  The
\* answer to a request for a session names it, and a line of the activation log the
\* session it is about.
Frame(command, length, session, status) ==
    [command |-> command, length |-> length, count |-> 0, sort |-> 0, session |-> session,
     status |-> status, text |-> TRUE, subject |-> 0]

StemAsked(request) == known[command_id(request)][1]
WellFormed(frame) == [frame EXCEPT !.length = LayoutOf(frame).base]
SessionAnswered(request) == IF request.kind = "GetLine" THEN 1 ELSE session_id(request)
Confirmation(request, status) ==
    [WellFormed(Frame(Id[CFM(StemAsked(request))], 0, SessionAnswered(request), status))
     EXCEPT !.subject = request.subject]

\* The status with which the gateway accepts a session: 1, but for modes, scenes
\* and product groups 0.
AcceptStatus(kind) ==
    IF kind \in {"CommandSend", "StatusRequest", "Wink", "SetLimitation", "GetLimitationStatus"}
    THEN 1 ELSE 0

Finished(kind, session) ==
    LET stem == IF kind = "Wink" THEN "WINK_SEND" ELSE "SESSION_FINISHED"
    IN  WellFormed(Frame(Id[NTF(stem)], 0, session, 0))

\* What the tables of this and the modules before say of the answers to a request for
\* a session and of the two notifications that end one.  It has no parameter: TLC
\* evaluates it, and the proofs start from it.
FixedLayout(layout, variant) ==
    /\ layout.variant = variant
    /\ layout.base \in Nat /\ layout.need = layout.base /\ layout.early = {} /\ layout.width = 0
    /\ layout.entry = NoEntries /\ ~layout.open /\ ~layout.tail
    /\ "session_id" \in DOMAIN layout.fields /\ Texts \cap DOMAIN layout.fields = {}
    /\ \A f \in DOMAIN layout.fields : layout.fields[f] \subseteq 0..(layout.base - 1)
SessionResult(kind) ==
    CASE kind = "CommandSend" -> "CommandAccepted"
      [] kind = "StatusRequest" -> "StatusAccepted"
      [] kind \in {"ActivateScene", "StopScene"} -> "SceneSessionResult"
      [] kind = "ActivateProductGroup" -> "ProductGroupResult"
      [] OTHER -> "SessionCommandResult"
ConfirmationOf(kind) == Id[CFM(StemOf[kind])]
EndResult == [SESSION_FINISHED |-> "SessionFinished", WINK_SEND |-> "WinkFinished"]
ASSUME SessionTables ==
    /\ \A kind \in SessionKinds :
          /\ kind # "Raw" /\ kind \notin StreamKinds
          /\ Kind(Id[REQ(StemOf[kind])]) = "Request"
          /\ known[Id[REQ(StemOf[kind])]][1] = StemOf[kind] /\ CFM(StemOf[kind]) \in Names
          /\ ConfirmationOf(kind) \in KnownIds /\ Kind(ConfirmationOf(kind)) = "Confirmation"
          /\ FixedLayout(Tables[0][ConfirmationOf(kind)], SessionResult(kind))
          /\ ConfirmationOf(kind) = Id[CFM("MODE_SEND")] <=> kind = "Mode"
    /\ \A stem \in DOMAIN EndResult :
          /\ Id[NTF(stem)] \in KnownIds /\ Kind(Id[NTF(stem)]) = "Notification"
          /\ FixedLayout(Tables[0][Id[NTF(stem)]], EndResult[stem])

-----------------------------------------------------------------------------
ExchangeInit ==
    /\ Init
    /\ pending = NoRequest /\ sessions = {} /\ asked = NoRequest
    /\ running = [s \in Ids |-> 0]
    /\ incoming = <<>> /\ event = Nothing /\ stale = {}

\* The allocator's steps and the actor's share no variable; they are taken between
\* two requests.
AllocatorStep ==
    /\ pending = NoRequest /\ asked = NoRequest /\ incoming = <<>>
    /\ Next
    /\ event' = Nothing
    /\ UNCHANGED <<pending, sessions, asked, running, incoming, stale>>

\* Mutant of InUse: no session is ever found in use.
InUseNever(request) == FALSE

InUse(request) == session_id(request) \in sessions

\* dispatch_next, in the order of its tests.
Refusal(request) ==
    IF expected_confirmation(command_id(request)) = NoCommand THEN "MissingConfirmation"
    ELSE IF InUse(request) THEN "SessionIdInUse"
    ELSE IF ~Encodes(request) THEN "EncodeError"
    ELSE "none"

Requests == IF Quiet /\ Fresh THEN Solo ELSE {Plain(kind, s) : kind \in Crowd, s \in active \ stale}

Dispatch(request) ==
    LET why == Refusal(request)
    IN  /\ pending = NoRequest /\ asked = NoRequest
        /\ IF why = "none"
           THEN pending' = request /\ asked' = request
           ELSE UNCHANGED <<pending, asked>>
        /\ event' = Nothing
        /\ UNCHANGED <<allocator, sessions, running, incoming, stale>>

Send == phase = "idle" /\ \E request \in Requests : Built(request) /\ Dispatch(request)

-----------------------------------------------------------------------------
\* The gateway answers, possibly with a frame that cannot be read.  It takes a
\* request for a session up even when it runs one of that identifier.
GatewayAccepts ==
    /\ asked # NoRequest /\ Len(incoming) < MaxFlight
    /\ asked.kind \in SessionKinds /\ running[asked.session] < 2
    /\ running' = [running EXCEPT ![asked.session] = @ + 1]
    /\ \E extra \in {0, 1} :
          LET frame == Confirmation(asked, AcceptStatus(asked.kind))
          IN  incoming' = Append(incoming, [frame EXCEPT !.length = @ + extra])
    /\ asked' = NoRequest /\ event' = Nothing
    /\ UNCHANGED <<allocator, pending, sessions, stale>>

GatewayAnswers ==
    /\ asked # NoRequest /\ Len(incoming) < MaxFlight
    /\ asked.kind \notin StreamKinds
    /\ \E extra \in {0, 1} :
          LET refused == 1 - AcceptStatus(asked.kind)
              frame == Confirmation(asked, IF asked.kind \in SessionKinds THEN refused ELSE 0)
          IN  incoming' = Append(incoming, [frame EXCEPT !.length = @ + extra])
    /\ asked' = NoRequest /\ event' = Nothing
    /\ UNCHANGED <<allocator, pending, sessions, running, stale>>

GatewayFinishes ==
    /\ Len(incoming) < MaxFlight
    /\ \E s \in Ids, kind \in {"Wink", "CommandSend"} :
          /\ running[s] > 0
          /\ running' = [running EXCEPT ![s] = @ - 1]
          /\ incoming' = Append(incoming, Finished(kind, s))
    /\ event' = Nothing
    /\ UNCHANGED <<allocator, pending, sessions, asked, stale>>

-----------------------------------------------------------------------------
SessionResults == {"CommandAccepted", "StatusAccepted", "SessionCommandResult",
                   "SceneSessionResult", "ProductGroupResult"}
response_session_id(response, frame) ==
    IF response \in SessionResults THEN frame.session ELSE NoSession
confirmation_session_matches(request, response, frame) ==
    session_id(request) # NoSession =>
        response_session_id(response, frame) = session_id(request)

\* Mutant of session_was_accepted: all results of command extensions are alike.
session_was_accepted_alike(response, frame) ==
    CASE response \in {"CommandAccepted", "StatusAccepted", "SessionCommandResult"} ->
            frame.status = 1
      [] response \in {"SceneSessionResult", "ProductGroupResult"} -> frame.status = 0
      [] OTHER -> FALSE

session_was_accepted(response, frame) ==
    CASE response \in {"CommandAccepted", "StatusAccepted"} -> frame.status = 1
      [] response = "SessionCommandResult" ->
            IF frame.command = Id[CFM("MODE_SEND")] THEN frame.status = 0 ELSE frame.status = 1
      [] response \in {"SceneSessionResult", "ProductGroupResult"} -> frame.status = 0
      [] OTHER -> FALSE

terminal_session_id(response, frame) ==
    IF response \in {"SessionFinished", "WinkFinished"} THEN frame.session ELSE NoSession

\* handle_frame for the confirmation the pending request expects.
Confirm(frame, response) ==
    IF response # Error /\ ~confirmation_session_matches(pending, response, frame)
    THEN UNCHANGED <<pending, sessions, stale>>
    ELSE LET s == session_id(pending)
         IN  /\ pending' = NoRequest
             /\ sessions' = IF s # NoSession /\ session_was_accepted(response, frame)
                            THEN sessions \cup {s} ELSE sessions \ {s}
             /\ stale' = IF response = Error THEN stale \cup ({s} \cap Ids) ELSE stale

\* handle_frame for every other frame.
Publish(frame, response) ==
    /\ sessions' = IF response # Error /\ Kind(frame.command) = "Notification"
                   THEN sessions \ {terminal_session_id(response, frame)} ELSE sessions
    /\ UNCHANGED <<pending, stale>>

Confirms(frame) ==
    pending # NoRequest /\ expected_confirmation(command_id(pending)) = frame.command

handle_frame ==
    /\ incoming # <<>>
    /\ LET frame == Head(incoming)
           response == Decode(frame)
       IN  IF Confirms(frame) THEN Confirm(frame, response) ELSE Publish(frame, response)
    /\ event' = Nothing
    /\ incoming' = SubSeq(incoming, 2, Len(incoming))
    /\ UNCHANGED <<allocator, gateway>>

expire_request ==
    /\ pending # NoRequest
    /\ pending' = NoRequest
    /\ sessions' = sessions \ {session_id(pending)}
    /\ stale' = stale \cup ({session_id(pending)} \cap Ids)
    /\ event' = Nothing
    /\ UNCHANGED <<allocator, gateway, incoming>>

expire_sessions ==
    /\ \E s \in sessions : sessions' = sessions \ {s} /\ stale' = stale \cup {s}
    /\ event' = Nothing
    /\ UNCHANGED <<allocator, gateway, pending, incoming>>

-----------------------------------------------------------------------------
\* Any frame at all arrives while no request is pending: of every known command and an
\* unknown one, with the lengths and counts at which a decoder decides otherwise.
SortsOf(command) ==
    IF command \in {Id[NTF("GROUP_INFORMATION_CHANGED")], Id[NTF("STATUS_REQUEST")]}
    THEN Sorts ELSE {0}
Counts(layout) ==
    IF layout.entry = NoEntries THEN {0} ELSE {0, 1, 22, layout.limit, layout.limit + 1} \cap 0..255
Lengths(layout, count) ==
    LET exact == layout.base + layout.width * count
    IN  {0, layout.need - 1, layout.need, layout.need + 1, exact - 1, exact, exact + 1,
         MAX_PAYLOAD_LENGTH} \cap 0..MAX_PAYLOAD_LENGTH
Blank(command, sort) == [Frame(command, 0, NoSession, 0) EXCEPT !.sort = sort]
Filled(blank, count, length, session, text) ==
    [blank EXCEPT !.count = count, !.length = length, !.session = session, !.text = text]
Noise ==
    /\ Quiet /\ Fresh
    /\ \E command \in KnownIds \cup {NotKnown} : \E sort \in SortsOf(command) :
          LET layout == LayoutOf(Blank(command, sort))
          IN  \E count \in Counts(layout), s \in {NoSession, 1}, text \in BOOLEAN :
              \E length \in Lengths(layout, count) :
                 /\ "session_id" \in DOMAIN layout.fields \/ s = NoSession
                 /\ HasText(layout, [count |-> count]) \/ text
                 /\ incoming' = <<Filled(Blank(command, sort), count, length, s, text)>>
    /\ event' = Nothing
    /\ UNCHANGED <<allocator, pending, sessions, gateway, stale>>

\* A frame is encoded, comes with one byte changed, lost or added, or whole, and is
\* decoded by read_frames.
Samples == {\h000C, \h0301}
Payloads == (UNION {[1..n -> {0, 1, 255}] : n \in 0..2})
            \cup {[i \in 1..n |-> 7] : n \in (MAX_PAYLOAD_LENGTH - 1)..(MAX_PAYLOAD_LENGTH + 1)}
Damage(wire) ==
    {wire, Front(wire), Append(wire, 0)}
    \cup {[wire EXCEPT ![i] = byte] : i \in {1, 2, 3, 4, Len(wire) - 1, Len(wire)},
                                      byte \in {0, 1, 3, 128, 255}}
Carry ==
    /\ Quiet /\ Fresh
    /\ \E payload \in Payloads, command \in Samples :
          LET frame == [command |-> command, payload |-> payload]
              wire == encode(frame)
          IN  /\ wire # PayloadTooLarge
              /\ \E received \in Damage(wire) :
                    event' = [kind |-> "carried", frame |-> frame, wire |-> wire,
                              received |-> received, result |-> decode(received)]
    /\ UNCHANGED <<allocator, pending, sessions, gateway, incoming, stale>>

-----------------------------------------------------------------------------
Width(fields) == MapThenSumSet(LAMBDA f : Cardinality(fields[f]), DOMAIN fields)
AllBytes(fields) == UNION {fields[f] : f \in DOMAIN fields}

\* The alias slots of a node that hold nothing.
Unused(layout, frame) ==
    IF layout.variant = "NodeInformation" THEN layout.stride * (layout.limit - frame.count) ELSE 0

\* What the layouts have in common: a decoder demands what it reads to learn the count
\* or the sort; the fields have bytes of their own and, but in an open payload, fill it
\* up to the entries; an entry fills its stride; and the entries make up the rest, but
\* for a last byte, or have as many slots as the limit says.  TLC evaluates this table
\* by table, and the proofs start from it.
LayoutSound(layout) ==
    LET head == AllBytes(layout.fields)
    IN  /\ {layout.need, layout.base, layout.start, layout.limit, Width(layout.entry)} \subseteq Nat
        /\ layout.early \subseteq 0..(layout.need - 1) /\ layout.variant \notin {Error, Panic}
        /\ Width(layout.fields) = Cardinality(head)
        /\ \/ /\ layout.entry = NoEntries /\ ~layout.tail
              /\ layout.variant # "NodeInformation" /\ layout.width = 0
              /\ IF layout.open THEN head \subseteq 0..(layout.need - 1) ELSE head = 0..(layout.base - 1)
           \/ /\ layout.entry # NoEntries /\ ~layout.open
              /\ head = 0..(layout.start - 1)
              /\ layout.stride \in {3, 4, 11, 17, 65} /\ Width(layout.entry) = layout.stride
              /\ AllBytes(layout.entry) = 0..(layout.stride - 1)
              /\ \/ /\ layout.width = layout.stride /\ layout.variant # "NodeInformation"
                    /\ layout.base = layout.start + IF layout.tail THEN 1 ELSE 0
                 \/ /\ layout.width = 0 /\ layout.variant = "NodeInformation" /\ ~layout.tail
                    /\ layout.base = layout.start + layout.stride * layout.limit
ASSUME LayoutTables ==
    /\ LayoutSound(Unknown)
    /\ \A sort \in Sorts, command \in KnownIds : LayoutSound(Tables[sort][command])

\* No frame, whatever its length and contents, makes a decoder of response.rs index
\* beyond the payload, which would end the actor's task with every caller waiting;
\* and of a payload that is accepted every byte goes into one field and no byte into
\* two, so that neighbouring fields are never mixed up.
PayloadRead ==
    incoming # <<>> =>
        LET frame == Head(incoming)
            layout == LayoutOf(frame)
            width == Width(layout.fields) + Entries(layout, frame) * Width(layout.entry)
                     + Cardinality(LastByte(layout, frame))
        IN  /\ Decode(frame) # Panic
            /\ Decode(frame) # Error =>
                  /\ Cardinality(BytesRead(layout, frame)) = width
                  /\ ~layout.open => width = frame.length - Unused(layout, frame)

Unpacked(byte) == <<byte \div 64, (byte \div 16) % 4, (byte \div 4) % 4, byte % 4>>

\* What the decoders read back of what the client can set.
ReadBack == [SetGroup |-> decode_group_information,
             SetContactInputLink |-> decode_contact_input_link,
             SetNetworkSetup |-> decode_gateway[CFM("GET_NETWORK_SETUP")].fields]

\* What can be said of a payload by its kind alone.  It has no parameter: TLC evaluates
\* it, and the proofs start from it.
Laid(kind, payload) ==
    /\ AllBytes(payload.fields) \subseteq 0..(payload.length - 1)
    /\ PayloadFits(payload.length)
    /\ Cardinality(AllBytes(payload.fields)) = Width(payload.fields)
    /\ kind \in DOMAIN ReadBack => payload.fields = ReadBack[kind]
ASSUME RequestTables ==
    /\ TargetKinds \cup SettingKinds \subseteq Kinds /\ SessionKinds \cup StreamKinds \subseteq Kinds
    /\ "none" \notin Kinds /\ "Raw" \notin Kinds /\ DOMAIN TextWidth \subseteq Kinds
    /\ \A kind \in Kinds :
          /\ Laid(kind, PayloadOf[kind])
          /\ kind \in TargetKinds => Cardinality(PayloadOf[kind].fields.nodes) = 20

\* What the gateway reads of a payload is what the request says.
ReadableAs(payload, request) ==
    /\ Laid(request.kind, payload)
    /\ request.kind \in TargetKinds => request.nodes \in 1..Cardinality(payload.fields.nodes)
    /\ request.kind \in PackedKinds =>
          Unpacked(pack_two_bit_settings(request.settings)) = request.settings

\* The gateway can read every request the actor writes: each field lies inside the
\* payload and on bytes of its own, all the nodes the count byte announces have a
\* slot, the packed priority settings are the ones that were asked for, and a group,
\* a link or a network setup is laid out as the decoder of the same record reads it.
RequestReadable ==
    asked # NoRequest /\ asked.kind # "Raw" => ReadableAs(PayloadOf[asked.kind], asked)

\* What the tables say of the confirmation of every request: it is known by its name, has
\* a decoder of its own, and names a session only where the answer has one.  It has no
\* parameter: TLC evaluates it, and the proofs start from it.
ASSUME AnswerTables ==
    /\ \A command \in KnownIds : known[command] \in Names /\ Id[known[command]] = command
    /\ \A kind \in Kinds :
          LET layout == Tables[0][ConfirmationOf(kind)]
          IN  /\ known[Id[REQ(StemOf[kind])]][1] = StemOf[kind]
              /\ ConfirmationOf(kind) \in KnownIds /\ CFM(StemOf[kind]) \in Names
              /\ layout.need <= layout.base /\ layout.variant # "Unknown"
              /\ "session_id" \in DOMAIN layout.fields => kind \in SessionKinds \cup {"GetLine"}
    /\ "GetState" \in Kinds
    /\ \A command \in RawCommands :
          Kind(command) = "Request" => command = Id[REQ(StemOf["GetState"])]

\* The confirmation of the pending request, by its name and its session, ends it, and
\* with a typed response: no request is left to time out, or answered with Unknown,
\* because the tables of command_id.rs, command.rs and response.rs disagree on it.
AnswersPending(frame) ==
    /\ pending # NoRequest /\ frame.command \in KnownIds
    /\ known[frame.command] = CFM(StemAsked(pending))
    /\ frame.session = SessionAnswered(pending)
    /\ frame.length = LayoutOf(frame).base
TypedAnswer ==
    [][incoming # <<>> /\ Len(incoming') < Len(incoming) /\ AnswersPending(Head(incoming))
       => /\ pending' = NoRequest
          /\ Decode(Head(incoming)) \notin {Error, Panic, "Unknown"}]_exchange

\* A frame that was damaged on its way is not taken for a frame: one byte changed, lost
\* or added shows in the protocol identifier, the length or the checksum.  A frame that
\* was not is decoded to what was encoded, and every element of an encoding is a byte.
DamageDetected ==
    event.kind = "carried" =>
        /\ \A i \in DOMAIN event.wire : event.wire[i] \in 0..255
        /\ event.result = IF event.received = event.wire THEN event.frame ELSE FrameError

InFlight(s, variants) ==
    \E i \in DOMAIN incoming : incoming[i].session = s /\ Decode(incoming[i]) \in variants

\* The actor and the gateway agree on the open sessions up to the frames on their way,
\* with every kind of request that opens one and its own way to say accepted: a session
\* the gateway runs and has confirmed is tracked, and a tracked one runs or its end is
\* on its way.  Only a timeout or an unreadable confirmation breaks this.
SessionsAgree ==
    \A s \in Ids \ stale :
        /\ running[s] > 0 /\ ~InFlight(s, SessionResults \cup {Error}) => s \in sessions
        /\ s \in sessions => running[s] > 0 \/ InFlight(s, {"SessionFinished", "WinkFinished"})

\* The gateway never runs two sessions of one identifier, although a client may release
\* the identifier early and be handed it again: the actor refuses the second request.
\* Only a timeout or an unreadable confirmation breaks this.
OneSessionPerId == \A s \in Ids \ stale : running[s] <= 1
=============================================================================
