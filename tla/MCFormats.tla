----------------------------- MODULE MCFormats -----------------------------
(***************************************************************************)
(* What the client exchanges and keeps: the messages of module WireFormat, *)
(* the texts and arguments of module Json, and the file of module          *)
(* DeviceId.  They share no state: a behaviour moves one and leaves the    *)
(* others where they start.                                                *)
(***************************************************************************)
EXTENDS WireFormat, OwnIdentity

CONSTANTS MaxDepth, Numerals, strtod, Infinity, Printed, HexOf, Fragments,
          Characters, MaxText, MaxString

VARIABLES pieces, args

jsonVars == <<pieces, args>>

JsonText == INSTANCE Json

FirstMessage == CHOOSE m \in Messages : TRUE
WireAtRest == sent = FirstMessage /\ cut = Unread

FormatsInit == Init /\ JsonText!Init /\ Identity!Init

WireMoves(step) ==
    JsonText!Init /\ Identity!Init /\ step /\ UNCHANGED <<jsonVars, fileVars>>
JsonMoves(step) ==
    WireAtRest /\ Identity!Init /\ step /\ UNCHANGED <<vars, fileVars>>
FileMoves(step) ==
    WireAtRest /\ JsonText!Init /\ step /\ UNCHANGED <<vars, jsonVars>>

FormatsNext ==
    \/ WireMoves(Serialize) \/ WireMoves(SerializeHandshake)
    \/ WireMoves(ForeignSerialize) \/ WireMoves(Deserialize)
    \/ JsonMoves(JsonText!AddToText) \/ JsonMoves(JsonText!AddArgument)
    \/ JsonMoves(JsonText!AddCharacter)
    \/ FileMoves(Identity!Launch) \/ FileMoves(Identity!ReadValue)
    \/ FileMoves(Identity!ReadNothing) \/ FileMoves(Identity!OpenFails)
    \/ FileMoves(Identity!OpenAndWrite) \/ FileMoves(Identity!CloseAndReturn)
    \/ FileMoves(Identity!Exit)

FormatsSpec == FormatsInit /\ [][FormatsNext]_<<vars, jsonVars, fileVars>>

\* Module Json: the receiver's decoder gives back exactly the arguments of an
\* RPC, however they were escaped (encode_json_string_array,
\* decode_json_string_array).
ArgumentsSurvive == JsonText!ArgumentsSurvive

\* Module Json: the compact form in which a nested argument is handed on parses
\* to the value it was made from, infinite numbers excepted (parse, dump,
\* format_number).
CompactFormFaithful == JsonText!CompactFormFaithful

-----------------------------------------------------------------------------
(* Messages.                                                               *)

\* Characters of one, two and three bytes.
A == <<97>>
E == <<195, 169>>
J == <<227, 129, 130>>

Strings == {<<>>, A \o J, J \o E, E \o E \o A, A \o A \o A \o A, J \o J \o J \o J \o E}
Short == A \o E

Leaf(f) == [f |-> f, kids |-> <<>>]
Message(type, f, kids) == [type |-> type, f |-> f, kids |-> kids]

\* Turns about the axes, about others, some with their largest component
\* negative, one of twice the length and one of none.
AboutX == <<8184, 0, 0, 8184>>
AboutY == <<0, -8184, 0, 8184>>
AboutZ == <<0, 0, -11574, 0>>
Third == <<5787, -5787, 5787, 5787>>
Tilted == <<1052, 2104, 4209, -10522>>
TwiceTilted == <<-6614, 1000, 9920, 19841>>
Broken == <<0, 0, 0, 0>>
Turns == {NoTurn, AboutX, AboutY, AboutZ, Third, Tilted, TwiceTilted, Broken}

\* At the origin; on ties of every scale; out of range of every width.
Here == PoseTransform(Zero, NoTurn)
Ties == PoseTransform(<<2, -6, 5>>, Tilted)
Turned == PoseTransform(<<2, -6, 5>>, AboutY)
Far == PoseTransform(<<40000000, -40000000, -70001>>, Third)
Odd == PoseTransform(<<7, 131075, -1>>, Broken)

Body(flags, head, hand, yaw) ==
    [pose_seq |-> 1, flags |-> flags, xr_origin_delta_position |-> hand.position,
     xr_origin_delta_yaw |-> yaw, physical |-> hand, head |-> head,
     right_hand |-> hand, left_hand |-> Ties]

Virtuals(n) == [i \in 1..n |-> Leaf([transform |-> <<Ties, Far, Here>>[i]])]

ClientPose(f, virtuals) == Message(MSG_CLIENT_POSE, [device_id |-> Short] @@ f, virtuals)

\* Every flag byte, and one with everything valid for every place.
ClientPoses ==
    {ClientPose(Body(flags, Ties, Odd, 1801), Virtuals(3)) : flags \in 0..127}
    \cup {ClientPose(Body(flags, head, hand, yaw), Virtuals(n)) :
            flags \in {62, 126}, head \in {Here, Ties, Far, Odd},
            hand \in {Turned, Far}, yaw \in {-3600, 1234}, n \in {1}}

Client(i, f, virtuals) ==
    [f |-> [client_no |-> i, pose_time |-> 10 * i] @@ f, kids |-> virtuals]

RoomPose(clients) ==
    Message(MSG_ROOM_POSE, [room_id |-> Short, broadcast_time |-> 5], clients)

MCForeignPoses ==
    {RoomPose(<<Client(1, Body(flags, Ties, Odd, 0), Virtuals(n)),
                Client(2, Body(62, Here, Ties, 1800), Virtuals(1))>>) :
        flags \in {0, 1, 4, 24, 32, 58, 69, 127}, n \in {1, 2}}

\* One virtual more than the reader takes.
MCOverfullPoses ==
    {RoomPose(<<Client(1, Body(62, Ties, Here, 0), Virtuals(MaxVirtuals + 1)),
                Client(2, Body(62, Here, Ties, 1800), Virtuals(1))>>)}

RoomPoses ==
    {RoomPose(<<>>)}
    \cup {RoomPose(<<Client(1, Body(flags, Ties, Here, 0), Virtuals(3)),
                     Client(2, Body(62, Far, Ties, 1800), Virtuals(1))>>) :
            flags \in {1, 40, 126}}

Variable(name, value) == Leaf([name |-> name, value |-> value, last_writer_client_no |-> 1])

Objects ==
    [i \in 1..2 |-> Leaf([object_id |-> i, owner_client_no |-> 3 - i, pose_seq |-> 4,
                          pose_time |-> 6, position |-> <<Ties, Far>>[i].position,
                          rotation |-> <<AboutX, TwiceTilted>>[i]])]

MCMessages ==
    ClientPoses \cup RoomPoses
    \cup {Message(MSG_CLIENT_HELLO, [is_stealth |-> b, device_id |-> s], <<>>) :
            b \in BOOLEAN, s \in Strings}
    \cup {Message(MSG_RPC, [sender_client_no |-> 1, device_id |-> Short, function_name |-> s,
                            arguments_json |-> t],
                  [i \in 1..n |-> Leaf([target_client_no |-> i])]) :
            s \in Strings, t \in Strings, n \in {0, 2, 5}}
    \cup {Message(MSG_GLOBAL_VAR_SET, [sender_client_no |-> 1, device_id |-> Short,
                                       variable_name |-> s, variable_value |-> t], <<>>) :
            s \in Strings, t \in Strings}
    \cup {Message(MSG_CLIENT_VAR_SET, [sender_client_no |-> 1, device_id |-> Short,
                                       target_client_no |-> 2,
                                       variable_name |-> s, variable_value |-> Short], <<>>) :
            s \in Strings}
    \cup {Message(MSG_CLIENT_VAR_CLEAR, [sender_client_no |-> 1, device_id |-> s], <<>>) :
            s \in Strings}
    \cup {Message(MSG_OBJECT_POSE, [device_id |-> Short, object_id |-> 7, pose_seq |-> 2,
                                    position |-> t.position, rotation |-> q], <<>>) :
            t \in {Ties, Far, Odd}, q \in Turns}
    \cup {Message(MSG_OBJECT_OWNERSHIP_REQUEST, [device_id |-> Short, operation_type |-> op,
                                                 object_id |-> 7], <<>>) : op \in 1..2}
    \cup {Message(MSG_DEVICE_ID_MAPPING,
                  [server_version_major |-> 1, server_version_minor |-> 2,
                   server_version_patch |-> 3],
                  [i \in 1..n |-> Leaf([client_no |-> i, is_stealth |-> i = 2,
                                        device_id |-> s])]) :
            n \in 0..2, s \in Strings}
    \cup {Message(MSG_GLOBAL_VAR_SYNC, <<>>, [i \in 1..n |-> Variable(s, Short)]) :
            n \in 0..2, s \in Strings}
    \cup {Message(MSG_CLIENT_VAR_SYNC, <<>>,
                  <<[f |-> [client_no |-> 1], kids |-> [i \in 1..n |-> Variable(Short, s)]],
                    [f |-> [client_no |-> 2], kids |-> <<Variable(s, Short)>>]>>) :
            n \in 0..2, s \in Strings}
    \cup {Message(MSG_ROOM_OBJECTS, [broadcast_time |-> 5], SubSeq(Objects, 1, n)) : n \in 0..2}
    \cup {Message(MSG_OBJECT_OWNERSHIP_CHANGED,
                  [object_id |-> 7, new_owner_client_no |-> 1, previous_owner_client_no |-> 2],
                  <<>>),
          Message(MSG_OBJECT_OWNERSHIP_REJECTED,
                  [object_id |-> 7, current_owner_client_no |-> 2, reason_code |-> 1], <<>>)}

-----------------------------------------------------------------------------
(* Texts and arguments.                                                    *)

\* A value is a number of tenths.
MCNumerals == {"1", "1.0", "1e3", "0.1", "1000", "0.10000000000000001",
               "1e999"}
MCstrtod ==
    [n \in MCNumerals |->
        CASE n \in {"1", "1.0"} -> 10
          [] n \in {"1e3", "1000"} -> 10000
          [] n \in {"0.1", "0.10000000000000001"} -> 1
          [] n = "1e999" -> Infinity]
MCPrinted ==
    [v \in {1, 10, 10000} |->
        CASE v = 1 -> "0.10000000000000001" [] v = 10 -> "1" [] v = 10000 -> "1000"]

MCHexOf ==
    [h \in {"0001", "005C", "D800", "DC00"} |->
        CASE h = "0001" -> "control" [] h = "005C" -> "backslash"
          [] h = "D800" -> "high" [] h = "DC00" -> "low"]

U(hex) == <<"backslash", "u", hex>>

Quoted(s) == <<"quote">> \o s \o <<"quote">>

MCFragments ==
    {<<"[">>, <<"]">>, <<"{">>, <<"}">>, <<",">>, <<":">>, <<"space">>,
     <<"true">>, <<"null">>, <<"1.0">>, <<"0.1">>, <<"1e999">>,
     Quoted(<<"a">>) \o <<":">>, Quoted(U("005C")) \o <<":">>,
     Quoted(<<"[", "backslash", "n">>),
     Quoted(U("D800") \o U("DC00")),
     Quoted(U("D800") \o U("D800") \o U("DC00") \o U("DC00")),
     Quoted(U("D800") \o U("005C")),
     Quoted(<<"backslash", "a">>), <<"quote", "backslash", "u">>}

MCCharacters ==
    {"quote", "backslash", "newline", "control", "slash", "a", "u",
     "high", "low", "pair"}
=============================================================================
