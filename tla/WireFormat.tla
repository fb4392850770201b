------------------------------ MODULE WireFormat ------------------------------
(***************************************************************************)
(* Protocol v8: the writer and the reader of every message, over the rules *)
(* for single values of module Codec (src/protocol).                       *)
(*                                                                         *)
(* A message is a tree: a node has scalars, the record f, and kids, the    *)
(* list it carries (targets, mappings, variables, clients, objects,        *)
(* virtual transforms). The bytes of a number keep the number, their       *)
(* place in it and its width, so a reader that takes bytes of two fields   *)
(* for one number is seen.                                                 *)
(***************************************************************************)
EXTENDS Codec

CONSTANTS
    Messages,        \* messages given to the serialisers
    ForeignPoses,    \* room poses written by a peer that does not clean its flags
    U8Max,           \* largest length or count in one byte (255)
    U16Max,          \* largest length or count in two bytes (65535)
    MaxVirtuals,     \* kMaxVirtualTransforms (50)
    MaxNameChars,    \* kMaxVariableNameChars (64)
    MaxValueChars    \* kMaxVariableValueChars (1024)

\* A list of virtuals fits its one-byte count, and a clamped variable value
\* (at most four bytes a character) its two-byte length.
ASSUME LimitsFit == MaxVirtuals <= U8Max /\ 4 * MaxValueChars <= U16Max

VARIABLES
    sent,       \* the message last serialised
    foreign,    \* it was written by the foreign peer
    wire,       \* its bytes
    cut,        \* how many of them the reader was given
    got         \* the reader after its last message

vars == <<sent, foreign, wire, cut, got>>

-----------------------------------------------------------------------------
kProtocolVersion == 8

MSG_RPC == 3
MSG_DEVICE_ID_MAPPING == 6
MSG_GLOBAL_VAR_SET == 7
MSG_GLOBAL_VAR_SYNC == 8
MSG_CLIENT_VAR_SET == 9
MSG_CLIENT_VAR_SYNC == 10
MSG_CLIENT_POSE == 11
MSG_ROOM_POSE == 12
MSG_OBJECT_POSE == 13
MSG_ROOM_OBJECTS == 14
MSG_OBJECT_OWNERSHIP_REQUEST == 15
MSG_OBJECT_OWNERSHIP_CHANGED == 16
MSG_OBJECT_OWNERSHIP_REJECTED == 17
MSG_CLIENT_VAR_CLEAR == 18
MSG_CLIENT_HELLO == 19

clamp_variable_name(s) == truncate_utf8_code_points(s, MaxNameChars)
clamp_variable_value(s) == truncate_utf8_code_points(s, MaxValueChars)

-----------------------------------------------------------------------------
(* Vectors and transforms *)

Zero == <<0, 0, 0>>
Plus(a, b) == [i \in 1..3 |-> a[i] + b[i]]
Minus(a, b) == [i \in 1..3 |-> a[i] - b[i]]
PoseTransform(position, rotation) == [position |-> position, rotation |-> rotation]
AtOrigin == PoseTransform(Zero, NoTurn)

-----------------------------------------------------------------------------
(* BinaryWriter *)

\* The n bytes of a number.
Bytes(v, n) == [i \in 1..n |-> <<v, i, n>>]

write_i16(v) == Bytes(Unsigned(v, kInt16Max), 2)
write_i24(v) == Bytes(Unsigned(Max({kInt24Min, Min({kInt24Max, v})}), kInt24Max), 3)

Text(s) == [i \in DOMAIN s |-> <<s[i], 1, 1>>]

write_string8(s) ==
    LET kept == truncate_utf8_bytes(s, U8Max) IN Bytes(Len(kept), 1) \o Text(kept)

write_string16(s) ==
    LET kept == truncate_utf8_bytes(s, U16Max) IN Bytes(Len(kept), 2) \o Text(kept)

Vector(v, Component(_)) == Component(v[1]) \o Component(v[2]) \o Component(v[3])

WriteAbsolute(v) == Vector(v, LAMBDA x : write_i24(quantize_signed_int24(x, kAbsPosScale)))
WriteLocomotion(v) == Vector(v, LAMBDA x : write_i16(quantize_signed(x, kLocoPosScale)))
WriteOffset(v) == Vector(v, LAMBDA x : write_i16(quantize_signed(x, kRelPosScale)))
WriteYaw(yaw) == write_i16(quantize_signed(yaw, kPhysicalYawScale))
WriteRotation(q) == Bytes(compress_quaternion_smallest_three(q), 4)

Write(kind, v) ==
    CASE kind = "u8" -> Bytes(v, 1)
      [] kind = "bool" -> Bytes(IF v THEN 1 ELSE 0, 1)
      [] kind = "u16" -> Bytes(v, 2)
      [] kind = "u32" -> Bytes(v, 4)
      [] kind = "f64" -> Bytes(v, 8)
      [] kind = "string8" -> write_string8(v)
      [] kind = "string16" -> write_string16(v)
      [] kind = "name" -> write_string8(clamp_variable_name(v))
      [] kind = "value" -> write_string16(clamp_variable_value(v))
      [] kind = "abs" -> WriteAbsolute(v)
      [] kind = "rot" -> WriteRotation(v)

\* The fields of a node in the order of the layout, pairs <<kind, name>>.
Put(node, layout) ==
    FlattenSeq([i \in DOMAIN layout |-> Write(layout[i][1], node.f[layout[i][2]])])

\* A list: the low bits of its length as the count, then its nodes.
PutList(kind, nodes, Item(_)) ==
    (IF kind = "u8" THEN Bytes(Len(nodes) % (U8Max + 1), 1)
                    ELSE Bytes(Len(nodes) % (U16Max + 1), 2))
        \o FlattenSeq([i \in DOMAIN nodes |-> Item(nodes[i])])

FirstNodes(nodes, max) == SubSeq(nodes, 1, Min({max, Len(nodes)}))

Head1(type) == Bytes(type, 1)
Head2(type) == Bytes(type, 1) \o Bytes(kProtocolVersion, 1)

-----------------------------------------------------------------------------
(* The pose body *)

\* A hand or a virtual relative to the head: the difference of the positions,
\* not turned, and the rotation seen from the head.
write_relative(head, t) ==
    WriteOffset(Minus(t.position, head.position))
        \o WriteRotation(quaternion_multiply(
                quaternion_inverse(normalize_quaternion(head.rotation)),
                normalize_quaternion(t.rotation)))

\* The body for a flag byte and a list of virtuals.
PoseBytes(body, flags, virtuals) ==
    LET head == Has(flags, HEAD_VALID)
        When(c, bytes) == IF c THEN bytes ELSE <<>>
        physical ==
            IF Has(flags, MOVING_FLOOR_LOCAL)
            THEN WriteLocomotion(body.physical.position)
                    \o WriteYaw(quaternion_to_yaw_degrees(body.physical.rotation))
            ELSE WriteLocomotion(body.xr_origin_delta_position)
                    \o WriteYaw(body.xr_origin_delta_yaw)
    IN Bytes(body.pose_seq, 2) \o Bytes(flags, 1)
        \o Bytes(compute_encoding_flags(flags), 1)
        \o When(Has(flags, PHYSICAL_VALID), physical)
        \o When(head, WriteAbsolute(body.head.position)
                        \o WriteRotation(normalize_quaternion(body.head.rotation)))
        \o When(head /\ Has(flags, RIGHT_VALID), write_relative(body.head, body.right_hand))
        \o When(head /\ Has(flags, LEFT_VALID), write_relative(body.head, body.left_hand))
        \o PutList("u8", virtuals, LAMBDA n : write_relative(body.head, n.f.transform))

write_pose_body(node) ==
    LET flags == sanitize_pose_flags(node.f.flags)
        valid == Has(flags, HEAD_VALID) /\ Has(flags, VIRTUALS_VALID)
    IN PoseBytes(node.f, flags,
                 IF valid THEN FirstNodes(node.kids, MaxVirtuals) ELSE <<>>)

-----------------------------------------------------------------------------
(* Serialisers *)

serialize_client_hello(m) ==
    Head2(MSG_CLIENT_HELLO) \o Put(m, <<<<"bool", "is_stealth">>, <<"string8", "device_id">>>>)

serialize_client_pose(m) ==
    Head2(MSG_CLIENT_POSE) \o Put(m, <<<<"string8", "device_id">>>>) \o write_pose_body(m)

serialize_stealth_handshake_pose(device_id) ==
    Head2(MSG_CLIENT_POSE) \o write_string8(device_id) \o Bytes(0, 2)
        \o Bytes(STEALTH, 1) \o Bytes(ENCODING_FLAGS_DEFAULT, 1) \o Bytes(0, 1)

serialize_rpc(m) ==
    Head1(MSG_RPC) \o Put(m, <<<<"u16", "sender_client_no">>, <<"string8", "device_id">>>>)
        \o PutList("u8", FirstNodes(m.kids, U8Max),
                   LAMBDA n : Put(n, <<<<"u16", "target_client_no">>>>))
        \o Put(m, <<<<"string8", "function_name">>, <<"string16", "arguments_json">>>>)

serialize_global_var_set(m) ==
    Head1(MSG_GLOBAL_VAR_SET)
        \o Put(m, <<<<"u16", "sender_client_no">>, <<"string8", "device_id">>,
                    <<"name", "variable_name">>, <<"value", "variable_value">>>>)

serialize_client_var_set(m) ==
    Head1(MSG_CLIENT_VAR_SET)
        \o Put(m, <<<<"u16", "sender_client_no">>, <<"string8", "device_id">>,
                    <<"u16", "target_client_no">>,
                    <<"name", "variable_name">>, <<"value", "variable_value">>>>)

serialize_client_var_clear(m) ==
    Head1(MSG_CLIENT_VAR_CLEAR)
        \o Put(m, <<<<"u16", "sender_client_no">>, <<"string8", "device_id">>>>)

serialize_object_pose(m) ==
    Head2(MSG_OBJECT_POSE)
        \o Put(m, <<<<"string8", "device_id">>, <<"u32", "object_id">>, <<"u16", "pose_seq">>,
                    <<"abs", "position">>, <<"rot", "rotation">>>>)

serialize_object_ownership_request(m) ==
    Head2(MSG_OBJECT_OWNERSHIP_REQUEST)
        \o Put(m, <<<<"string8", "device_id">>, <<"u8", "operation_type">>,
                    <<"u32", "object_id">>>>)

\* The records of a room pose, with the writer of their bodies.
RoomPoseBytes(m, Body(_)) ==
    Head2(MSG_ROOM_POSE) \o Put(m, <<<<"string8", "room_id">>, <<"f64", "broadcast_time">>>>)
        \o PutList("u16", m.kids,
                   LAMBDA n : Put(n, <<<<"u16", "client_no">>, <<"f64", "pose_time">>>>)
                                \o Body(n))

serialize_room_pose(m) == RoomPoseBytes(m, write_pose_body)

serialize_device_id_mapping(m) ==
    Head1(MSG_DEVICE_ID_MAPPING)
        \o Put(m, <<<<"u8", "server_version_major">>, <<"u8", "server_version_minor">>,
                    <<"u8", "server_version_patch">>>>)
        \o PutList("u16", m.kids,
                   LAMBDA n : Put(n, <<<<"u16", "client_no">>, <<"bool", "is_stealth">>,
                                       <<"string8", "device_id">>>>))

PutVariable(n) ==
    Put(n, <<<<"name", "name">>, <<"value", "value">>, <<"u16", "last_writer_client_no">>>>)

serialize_global_var_sync(m) ==
    Head1(MSG_GLOBAL_VAR_SYNC) \o PutList("u16", m.kids, PutVariable)

serialize_client_var_sync(m) ==
    Head1(MSG_CLIENT_VAR_SYNC)
        \o PutList("u16", m.kids,
                   LAMBDA n : Put(n, <<<<"u16", "client_no">>>>)
                                \o PutList("u16", n.kids, PutVariable))

serialize_room_objects(m) ==
    Head2(MSG_ROOM_OBJECTS) \o Put(m, <<<<"f64", "broadcast_time">>>>)
        \o PutList("u16", m.kids,
                   LAMBDA n : Put(n, <<<<"u32", "object_id">>, <<"u16", "owner_client_no">>,
                                       <<"u16", "pose_seq">>, <<"f64", "pose_time">>,
                                       <<"abs", "position">>, <<"rot", "rotation">>>>))

serialize_object_ownership_changed(m) ==
    Head1(MSG_OBJECT_OWNERSHIP_CHANGED)
        \o Put(m, <<<<"u32", "object_id">>, <<"u16", "new_owner_client_no">>,
                    <<"u16", "previous_owner_client_no">>>>)

serialize_object_ownership_rejected(m) ==
    Head1(MSG_OBJECT_OWNERSHIP_REJECTED)
        \o Put(m, <<<<"u32", "object_id">>, <<"u16", "current_owner_client_no">>,
                    <<"u8", "reason_code">>>>)

-----------------------------------------------------------------------------
(* BinaryReader. A failed read makes all later ones fail. raw holds the     *)
(* numbers of the field being read, out what was stored in the message: a   *)
(* value for every <<scope, name>>, the scope being the indices of the      *)
(* node.                                                                    *)

NewReader(bytes) == [bytes |-> bytes, at |-> 0, ok |-> TRUE, raw |-> <<>>, out |-> <<>>]

Fail(r) == [r EXCEPT !.ok = FALSE]

require(r, n) == r.ok /\ r.at + n <= Len(r.bytes)

\* Mutant: a read past the end returns zero and is not remembered.
ReadNumberUnchecked(r, n) ==
    LET part == SubSeq(r.bytes, r.at + 1, r.at + n)
        one == \A i \in 1..n : part[i][2] = i /\ part[i][3] = n
    IN IF ~require(r, n) THEN [r EXCEPT !.raw = Append(@, 0)]
       ELSE IF one THEN [r EXCEPT !.at = @ + n, !.raw = Append(@, part[1][1])]
       ELSE Fail(r)

\* A number of n bytes. Bytes of several fields read as one are garbage: the
\* model fails where the code would go on with an arbitrary value.
ReadNumber(r, n) ==
    LET part == SubSeq(r.bytes, r.at + 1, r.at + n)
        one == \A i \in 1..n : part[i][2] = i /\ part[i][3] = n
    IN IF require(r, n) /\ one
       THEN [r EXCEPT !.at = @ + n, !.raw = Append(@, part[1][1])]
       ELSE Fail(r)

ReadNumbers(r, widths) == FoldLeft(ReadNumber, [r EXCEPT !.raw = <<>>], widths)

\* The widths of the numbers of a kind; of a string, that of its length.
Widths ==
    [u8 |-> <<1>>, bool |-> <<1>>, u16 |-> <<2>>, u32 |-> <<4>>, f64 |-> <<8>>,
     yaw |-> <<2>>, rot |-> <<4>>, abs |-> <<3, 3, 3>>, loco |-> <<2, 2, 2>>,
     rel |-> <<2, 2, 2>>, string8 |-> <<1>>, string16 |-> <<2>>]

\* The bytes of a string, once its length was read.
ReadString(r, kind) ==
    IF r.ok /\ kind \in {"string8", "string16"}
    THEN ReadNumbers(r, [i \in 1..r.raw[1] |-> 1])
    ELSE r

ReadKind(r, kind) == ReadString(ReadNumbers(r, Widths[kind]), kind)

\* The value of a field from its numbers.
Value(kind, raw) ==
    LET Position(max, scale) ==
            [i \in 1..3 |-> dequantize_signed(SignExtend(raw[i], max), scale)]
    IN CASE kind \in {"u8", "u16", "u32", "f64"} -> raw[1]
         [] kind = "bool" -> raw[1] = 1
         [] kind \in {"string8", "string16"} -> raw
         [] kind = "abs" -> Position(kInt24Max, kAbsPosScale)
         [] kind = "loco" -> Position(kInt16Max, kLocoPosScale)
         [] kind = "rel" -> Position(kInt16Max, kRelPosScale)
         [] kind = "yaw" ->
                dequantize_signed(SignExtend(raw[1], kInt16Max), kPhysicalYawScale)
         [] kind = "rot" -> decompress_quaternion_smallest_three(raw[1])

Store(r, scope, name, v) == [r EXCEPT !.out = (<<scope, name>> :> v) @@ @]

\* One field <<kind, name>>, a layout of them, and n nodes in a row.
Keep(r, scope, field) ==
    IF r.ok THEN Store(r, scope, field[2], Value(field[1], r.raw)) ELSE r
Read(r, scope, field) == Keep(ReadKind(r, field[1]), scope, field)

Get(r, scope, layout) == FoldLeft(LAMBDA s, field : Read(s, scope, field), r, layout)

Repeat(r, n, Item(_, _)) == FoldLeft(Item, r, [i \in 1..n |-> i])

\* A position of kind k1 and a rotation or yaw of kind k2, put together by Make.
PairRead(a, b, scope, name, k1, k2, Make(_, _)) ==
    IF b.ok THEN Store(b, scope, name, Make(Value(k1, a.raw), Value(k2, b.raw))) ELSE b
SecondRead(a, scope, name, k1, k2, Make(_, _)) ==
    PairRead(a, ReadKind(a, k2), scope, name, k1, k2, Make)
ReadPair(r, scope, name, k1, k2, Make(_, _)) ==
    SecondRead(ReadKind(r, k1), scope, name, k1, k2, Make)

\* A count, kept as a field of the node, and the nodes it announces.
GetNodes(r, scope, Item(_, _)) ==
    IF r.ok THEN Repeat(r, r.out[<<scope, "count">>], Item) ELSE r
GetList(r, scope, kind, Item(_, _)) == GetNodes(Read(r, scope, <<kind, "count">>), scope, Item)

\* Type byte, version byte where there is one.
begin_message(bytes, expected_type, has_version) ==
    LET r == ReadNumbers(NewReader(bytes), IF has_version THEN <<1, 1>> ELSE <<1>>)
    IN IF r.ok /\ r.raw[1] = expected_type /\ (has_version => r.raw[2] = kProtocolVersion)
       THEN r
       ELSE Fail(r)

-----------------------------------------------------------------------------
(* The pose body, read *)

ResetBody(r, scope) ==
    LET transforms == {"physical", "head", "right_hand", "left_hand"}
    IN [r EXCEPT !.out = [p \in {<<scope, n>> : n \in transforms} |-> AtOrigin]
                         @@ (<<scope, "xr_origin_delta_position">> :> Zero)
                         @@ (<<scope, "xr_origin_delta_yaw">> :> 0) @@ @]

ReadPhysical(r, scope, flags, encoding) ==
    IF ~Has(flags, PHYSICAL_VALID) THEN r
    ELSE IF Has(flags, MOVING_FLOOR_LOCAL)
    THEN ReadPair(r, scope, "physical", "loco", "yaw",
                  LAMBDA p, y : PoseTransform(p, yaw_degrees_to_quaternion(y)))
    ELSE IF ~Has(encoding, PHYSICAL_IS_XRORIGIN_DELTA) THEN Fail(r)
    ELSE Get(r, scope, <<<<"loco", "xr_origin_delta_position">>,
                         <<"yaw", "xr_origin_delta_yaw">>>>)

\* The physical pose from the head and the XR origin delta.
ReconstructPhysical(r, scope, flags) ==
    LET head == r.out[<<scope, "head">>]
        delta == r.out[<<scope, "xr_origin_delta_position">>]
        yaw == r.out[<<scope, "xr_origin_delta_yaw">>]
        turned == normalize_yaw_degrees(quaternion_to_yaw_degrees(head.rotation) - yaw)
    IN IF /\ r.ok
          /\ Has(flags, PHYSICAL_VALID)
          /\ Has(flags, HEAD_VALID)
          /\ ~Has(flags, MOVING_FLOOR_LOCAL)
       THEN Store(r, scope, "physical",
                  PoseTransform(rotate_yaw_vector(Minus(head.position, delta), -yaw),
                                yaw_degrees_to_quaternion(turned)))
       ELSE r

\* Mutant: the offset is turned by the head from the wrong side.
ReadRelativeReversed(r, scope, name, head) ==
    ReadPair(r, scope, name, "rel", "rot",
             LAMBDA p, q : PoseTransform(
                 Plus(head.position, p),
                 normalize_quaternion(quaternion_multiply(q, head.rotation))))

ReadRelative(r, scope, name, head) ==
    ReadPair(r, scope, name, "rel", "rot",
             LAMBDA p, q : PoseTransform(
                 Plus(head.position, p),
                 normalize_quaternion(quaternion_multiply(head.rotation, q))))

VirtualsValid(flags) == Has(flags, HEAD_VALID) /\ Has(flags, VIRTUALS_VALID)
Clamped(r) == IF r.ok THEN Min({MaxVirtuals, r.raw[1]}) ELSE 0

Dropped(r, before) == [r EXCEPT !.out = before.out]

\* Mutant: the entries are only read where the flag announces them.
ReadEntriesIfValid(r, scope, flags, head) ==
    Repeat(r, IF VirtualsValid(flags) THEN Clamped(r) ELSE 0,
           LAMBDA q, i : ReadRelative(q, Append(scope, i), "transform", head))

\* The virtuals: entries without the flag are read and dropped.
ReadEntries(r, scope, flags, head) ==
    LET Entry(q, i) == ReadRelative(q, Append(scope, i), "transform", head)
    IN Repeat(r, Clamped(r),
              LAMBDA q, i : IF VirtualsValid(flags) THEN Entry(q, i) ELSE Dropped(Entry(q, i), q))

ReadHands(r, scope, flags, head) ==
    LET Hand(q, bit, name) ==
            IF Has(flags, HEAD_VALID) /\ Has(flags, bit)
            THEN ReadRelative(q, scope, name, head) ELSE q
    IN Hand(Hand(r, RIGHT_VALID, "right_hand"), LEFT_VALID, "left_hand")

\* What follows the head.
ReadRest(r, scope, flags) ==
    LET head == r.out[<<scope, "head">>]
    IN ReadEntries(ReadKind(ReadHands(r, scope, flags, head), "u8"), scope, flags, head)

ReadHead(r, scope, flags) ==
    IF Has(flags, HEAD_VALID)
    THEN ReadPair(r, scope, "head", "abs", "rot", PoseTransform) ELSE r

\* What follows the flags.
ReadBody(r, scope, flags, encoding) ==
    ReadRest(ReconstructPhysical(
                ReadHead(ReadPhysical(ResetBody(r, scope), scope, flags, encoding), scope, flags),
                scope, flags),
             scope, flags)

BodyAfter(r, scope) ==
    IF r.ok THEN ReadBody(r, scope, r.out[<<scope, "flags">>], r.out[<<scope, "encoding_flags">>])
            ELSE r

read_pose_body(r, scope) ==
    BodyAfter(Get(r, scope, <<<<"u16", "pose_seq">>, <<"u8", "flags">>,
                              <<"u8", "encoding_flags">>>>), scope)

-----------------------------------------------------------------------------
(* Deserialisers *)

deserialize_client_hello(bytes) ==
    Get(begin_message(bytes, MSG_CLIENT_HELLO, TRUE), <<>>,
        <<<<"bool", "is_stealth">>, <<"string8", "device_id">>>>)

deserialize_client_pose(bytes) ==
    LET r == Get(begin_message(bytes, MSG_CLIENT_POSE, TRUE), <<>>, <<<<"string8", "device_id">>>>)
    IN read_pose_body(r, <<>>)

deserialize_room_pose(bytes) ==
    LET r == Get(begin_message(bytes, MSG_ROOM_POSE, TRUE), <<>>,
                 <<<<"string8", "room_id">>, <<"f64", "broadcast_time">>>>)
        Client(s, i) ==
            read_pose_body(Get(s, <<i>>, <<<<"u16", "client_no">>, <<"f64", "pose_time">>>>), <<i>>)
    IN GetList(r, <<>>, "u16", Client)

deserialize_rpc(bytes) ==
    LET r == Get(begin_message(bytes, MSG_RPC, FALSE), <<>>,
                 <<<<"u16", "sender_client_no">>, <<"string8", "device_id">>>>)
        targets == GetList(r, <<>>, "u8",
                           LAMBDA s, i : Get(s, <<i>>, <<<<"u16", "target_client_no">>>>))
    IN Get(targets, <<>>, <<<<"string8", "function_name">>, <<"string16", "arguments_json">>>>)

deserialize_device_id_mapping(bytes) ==
    LET r == Get(begin_message(bytes, MSG_DEVICE_ID_MAPPING, FALSE), <<>>,
                 <<<<"u8", "server_version_major">>, <<"u8", "server_version_minor">>,
                   <<"u8", "server_version_patch">>>>)
    IN GetList(r, <<>>, "u16",
               LAMBDA s, i : Get(s, <<i>>, <<<<"u16", "client_no">>, <<"bool", "is_stealth">>,
                                             <<"string8", "device_id">>>>))

deserialize_global_var_set(bytes) ==
    Get(begin_message(bytes, MSG_GLOBAL_VAR_SET, FALSE), <<>>,
        <<<<"u16", "sender_client_no">>, <<"string8", "device_id">>,
          <<"string8", "variable_name">>, <<"string16", "variable_value">>>>)

GetVariable(s, scope) ==
    Get(s, scope, <<<<"string8", "name">>, <<"string16", "value">>,
                    <<"u16", "last_writer_client_no">>>>)

deserialize_global_var_sync(bytes) ==
    GetList(begin_message(bytes, MSG_GLOBAL_VAR_SYNC, FALSE), <<>>, "u16",
            LAMBDA s, i : GetVariable(s, <<i>>))

deserialize_client_var_set(bytes) ==
    Get(begin_message(bytes, MSG_CLIENT_VAR_SET, FALSE), <<>>,
        <<<<"u16", "sender_client_no">>, <<"string8", "device_id">>, <<"u16", "target_client_no">>,
          <<"string8", "variable_name">>, <<"string16", "variable_value">>>>)

deserialize_client_var_sync(bytes) ==
    LET Client(s, i) ==
            GetList(Get(s, <<i>>, <<<<"u16", "client_no">>>>), <<i>>, "u16",
                    LAMBDA t, j : GetVariable(t, <<i, j>>))
    IN GetList(begin_message(bytes, MSG_CLIENT_VAR_SYNC, FALSE), <<>>, "u16", Client)

deserialize_client_var_clear(bytes) ==
    Get(begin_message(bytes, MSG_CLIENT_VAR_CLEAR, FALSE), <<>>,
        <<<<"u16", "sender_client_no">>, <<"string8", "device_id">>>>)

deserialize_object_pose(bytes) ==
    Get(begin_message(bytes, MSG_OBJECT_POSE, TRUE), <<>>,
        <<<<"string8", "device_id">>, <<"u32", "object_id">>, <<"u16", "pose_seq">>,
          <<"abs", "position">>, <<"rot", "rotation">>>>)

deserialize_room_objects(bytes) ==
    LET r == Get(begin_message(bytes, MSG_ROOM_OBJECTS, TRUE), <<>>, <<<<"f64", "broadcast_time">>>>)
    IN GetList(r, <<>>, "u16",
               LAMBDA s, i : Get(s, <<i>>, <<<<"u32", "object_id">>, <<"u16", "owner_client_no">>,
                                             <<"u16", "pose_seq">>, <<"f64", "pose_time">>,
                                             <<"abs", "position">>, <<"rot", "rotation">>>>))

deserialize_object_ownership_request(bytes) ==
    Get(begin_message(bytes, MSG_OBJECT_OWNERSHIP_REQUEST, TRUE), <<>>,
        <<<<"string8", "device_id">>, <<"u8", "operation_type">>, <<"u32", "object_id">>>>)

deserialize_object_ownership_changed(bytes) ==
    Get(begin_message(bytes, MSG_OBJECT_OWNERSHIP_CHANGED, FALSE), <<>>,
        <<<<"u32", "object_id">>, <<"u16", "new_owner_client_no">>,
          <<"u16", "previous_owner_client_no">>>>)

deserialize_object_ownership_rejected(bytes) ==
    Get(begin_message(bytes, MSG_OBJECT_OWNERSHIP_REJECTED, FALSE), <<>>,
        <<<<"u32", "object_id">>, <<"u16", "current_owner_client_no">>, <<"u8", "reason_code">>>>)

-----------------------------------------------------------------------------
(* The pair of functions for a type *)

serialize(m) ==
    CASE m.type = MSG_RPC -> serialize_rpc(m)
      [] m.type = MSG_DEVICE_ID_MAPPING -> serialize_device_id_mapping(m)
      [] m.type = MSG_GLOBAL_VAR_SET -> serialize_global_var_set(m)
      [] m.type = MSG_GLOBAL_VAR_SYNC -> serialize_global_var_sync(m)
      [] m.type = MSG_CLIENT_VAR_SET -> serialize_client_var_set(m)
      [] m.type = MSG_CLIENT_VAR_SYNC -> serialize_client_var_sync(m)
      [] m.type = MSG_CLIENT_POSE -> serialize_client_pose(m)
      [] m.type = MSG_ROOM_POSE -> serialize_room_pose(m)
      [] m.type = MSG_OBJECT_POSE -> serialize_object_pose(m)
      [] m.type = MSG_ROOM_OBJECTS -> serialize_room_objects(m)
      [] m.type = MSG_OBJECT_OWNERSHIP_REQUEST -> serialize_object_ownership_request(m)
      [] m.type = MSG_OBJECT_OWNERSHIP_CHANGED -> serialize_object_ownership_changed(m)
      [] m.type = MSG_OBJECT_OWNERSHIP_REJECTED -> serialize_object_ownership_rejected(m)
      [] m.type = MSG_CLIENT_VAR_CLEAR -> serialize_client_var_clear(m)
      [] m.type = MSG_CLIENT_HELLO -> serialize_client_hello(m)

peek_message_type(bytes) == IF bytes = <<>> THEN 0 ELSE bytes[1][1]

\* The reader the first byte calls for; a type without one is dropped.
deserialize(bytes) ==
    LET type == peek_message_type(bytes)
    IN CASE type = MSG_RPC -> deserialize_rpc(bytes)
         [] type = MSG_DEVICE_ID_MAPPING -> deserialize_device_id_mapping(bytes)
         [] type = MSG_GLOBAL_VAR_SET -> deserialize_global_var_set(bytes)
         [] type = MSG_GLOBAL_VAR_SYNC -> deserialize_global_var_sync(bytes)
         [] type = MSG_CLIENT_VAR_SET -> deserialize_client_var_set(bytes)
         [] type = MSG_CLIENT_VAR_SYNC -> deserialize_client_var_sync(bytes)
         [] type = MSG_CLIENT_POSE -> deserialize_client_pose(bytes)
         [] type = MSG_ROOM_POSE -> deserialize_room_pose(bytes)
         [] type = MSG_OBJECT_POSE -> deserialize_object_pose(bytes)
         [] type = MSG_ROOM_OBJECTS -> deserialize_room_objects(bytes)
         [] type = MSG_OBJECT_OWNERSHIP_REQUEST -> deserialize_object_ownership_request(bytes)
         [] type = MSG_OBJECT_OWNERSHIP_CHANGED -> deserialize_object_ownership_changed(bytes)
         [] type = MSG_OBJECT_OWNERSHIP_REJECTED -> deserialize_object_ownership_rejected(bytes)
         [] type = MSG_CLIENT_VAR_CLEAR -> deserialize_client_var_clear(bytes)
         [] type = MSG_CLIENT_HELLO -> deserialize_client_hello(bytes)
         [] OTHER -> Fail(NewReader(bytes))

-----------------------------------------------------------------------------
(* Behaviour: a message is written, the reader is given all of its bytes,    *)
(* and the next message follows, or a part of them, and the behaviour ends.  *)

Unread == -1
NoResult == [ok |-> FALSE, at |-> 0, out |-> <<>>]

Init ==
    /\ sent \in Messages
    /\ foreign = FALSE
    /\ wire = serialize(sent)
    /\ cut = Unread
    /\ got = NoResult

Send(m, byPeer, bytes) ==
    /\ cut = Len(wire)
    /\ sent' = m
    /\ foreign' = byPeer
    /\ wire' = bytes
    /\ cut' = Unread
    /\ got' = NoResult

Serialize == \E m \in Messages : Send(m, FALSE, serialize(m))

\* The handshake of a stealth client is a pose without content.
QuietBody ==
    [pose_seq |-> 0, flags |-> STEALTH, xr_origin_delta_position |-> Zero,
     xr_origin_delta_yaw |-> 0, physical |-> AtOrigin, head |-> AtOrigin,
     right_hand |-> AtOrigin, left_hand |-> AtOrigin]

SerializeHandshake ==
    \E m \in {n \in Messages : n.type = MSG_CLIENT_POSE} :
        Send([m EXCEPT !.f = QuietBody @@ [device_id |-> m.f.device_id], !.kids = <<>>],
             FALSE, serialize_stealth_handshake_pose(m.f.device_id))

\* A peer that sends the flags as they are, and virtuals without their flag.
ForeignSerialize ==
    \E m \in ForeignPoses :
        Send(m, TRUE, RoomPoseBytes(m, LAMBDA n : PoseBytes(n.f, n.f.flags, n.kids)))

Deserialize ==
    \E k \in 0..Len(wire) :
        LET r == deserialize(SubSeq(wire, 1, k))
        IN /\ cut = Unread
           /\ cut' = k
           /\ got' = [ok |-> r.ok, at |-> r.at, out |-> r.out]
           /\ UNCHANGED <<sent, foreign, wire>>

Next == Serialize \/ SerializeHandshake \/ ForeignSerialize \/ Deserialize

Spec == Init /\ [][Next]_vars

-----------------------------------------------------------------------------
(* What a receiver is meant to have, said without the writer and the reader  *)

NearestVector(v, g, quantum, max) == \A i \in 1..3 : Nearest(v[i], g[i], quantum, max)

\* Two places, to the precision of the model's sines.
SamePlace(v, g) ==
    \A i \in 1..3 : Abs(v[i] - g[i]) <= 2 + Max({Abs(v[j]) : j \in 1..3}) \div 2000

OnlyYaw(q) == q[1] = 0 /\ q[3] = 0

\* The node of a scope.
Node(m, scope) ==
    CASE Len(scope) = 0 -> m
      [] Len(scope) = 1 -> m.kids[scope[1]]
      [] Len(scope) = 2 -> m.kids[scope[1]].kids[scope[2]]

IsBody(node) == "head" \in DOMAIN node.f

\* The flags a receiver sees: a stealth client shows nothing else, and what is
\* relative to the head needs the head.
SeenFlags(node) ==
    LET f == node.f.flags
        bits == {b \in {STEALTH, PHYSICAL_VALID, HEAD_VALID, RIGHT_VALID, LEFT_VALID,
                        VIRTUALS_VALID, MOVING_FLOOR_LOCAL} : Has(f, b)}
    IN IF foreign THEN bits
       ELSE IF STEALTH \in bits THEN {STEALTH}
       ELSE IF HEAD_VALID \in bits THEN bits
       ELSE bits \ {RIGHT_VALID, LEFT_VALID, VIRTUALS_VALID}

\* The nodes of a list a receiver gets.
SeenKids(m, node) ==
    IF IsBody(node)
    THEN IF {HEAD_VALID, VIRTUALS_VALID} \subseteq SeenFlags(node)
         THEN 1..Min({MaxVirtuals, Len(node.kids)}) ELSE {}
    ELSE IF m.type = MSG_RPC THEN 1..Min({U8Max, Len(node.kids)}) ELSE DOMAIN node.kids

SeenScopes(m) ==
    LET tops == {<<i>> : i \in SeenKids(m, m)}
    IN {<<>>} \cup tops
        \cup UNION {{<<s[1], j>> : j \in SeenKids(m, Node(m, s))} : s \in tops}

\* A body as sent and as received.
SameBody(node, Got(_)) ==
    LET seen == SeenFlags(node)
        b == node.f
        headed == HEAD_VALID \in seen
        physical == PHYSICAL_VALID \in seen
        floor == MOVING_FLOOR_LOCAL \in seen
        head == Got("head")
        delta == Got("xr_origin_delta_position")
        yaw == Got("xr_origin_delta_yaw")
        Relative(name) ==
            /\ NearestVector(Minus(b[name].position, b.head.position),
                             Minus(Got(name).position, head.position), kRelPosScale, kInt16Max)
            /\ SameRotation(b[name].rotation, Got(name).rotation, 4 * kQuatStep)
    IN /\ {bit \in {2^i : i \in 0..6} : Has(Got("flags"), bit)} = seen
       /\ Has(Got("encoding_flags"), PHYSICAL_IS_XRORIGIN_DELTA) <=> ~floor
       /\ IF headed
          THEN /\ NearestVector(b.head.position, head.position, kAbsPosScale, kInt24Max)
               /\ SameRotation(b.head.rotation, head.rotation, 2 * kQuatStep)
          ELSE head = AtOrigin
       /\ IF headed /\ RIGHT_VALID \in seen THEN Relative("right_hand")
                                            ELSE Got("right_hand") = AtOrigin
       /\ IF headed /\ LEFT_VALID \in seen THEN Relative("left_hand")
                                           ELSE Got("left_hand") = AtOrigin
       /\ IF physical /\ ~floor
          THEN /\ NearestVector(b.xr_origin_delta_position, delta, kLocoPosScale, kInt16Max)
               /\ Nearest(b.xr_origin_delta_yaw, yaw, kPhysicalYawScale, kInt16Max)
          ELSE delta = Zero /\ yaw = 0
       /\ CASE physical /\ floor ->
                 /\ NearestVector(b.physical.position, Got("physical").position,
                                  kLocoPosScale, kInt16Max)
                 /\ OnlyYaw(Got("physical").rotation)
                 /\ SameYaw(quaternion_to_yaw_degrees(b.physical.rotation),
                            quaternion_to_yaw_degrees(Got("physical").rotation))
                 /\ OnlyYaw(b.physical.rotation) =>
                      SameRotation(b.physical.rotation, Got("physical").rotation,
                                   kQuatStep)
            \* the delta takes the physical pose to the head
            [] physical /\ ~floor /\ headed ->
                 /\ SamePlace(Minus(head.position, delta),
                              rotate_yaw_vector(Got("physical").position, yaw))
                 /\ OnlyYaw(Got("physical").rotation)
                 /\ SameYaw(quaternion_to_yaw_degrees(head.rotation),
                            quaternion_to_yaw_degrees(Got("physical").rotation) + yaw)
            [] OTHER -> Got("physical") = AtOrigin

\* A virtual against its body.
SameVirtual(body, node, headGot, transformGot) ==
    /\ NearestVector(Minus(node.f.transform.position, body.f.head.position),
                     Minus(transformGot.position, headGot.position), kRelPosScale, kInt16Max)
    /\ SameRotation(node.f.transform.rotation, transformGot.rotation, 4 * kQuatStep)

\* Any other field.
SameScalar(node, name, v) ==
    CASE name \in {"variable_name", "name"} ->
            v = WholeCharacters(node.f[name], U8Max, MaxNameChars)
      [] name \in {"variable_value", "value"} ->
            v = WholeCharacters(node.f[name], U16Max, MaxValueChars)
      [] name \in {"device_id", "room_id", "function_name"} ->
            v = WholeCharacters(node.f[name], U8Max, U8Max)
      [] name = "arguments_json" -> v = WholeCharacters(node.f[name], U16Max, U16Max)
      [] name = "position" -> NearestVector(node.f[name], v, kAbsPosScale, kInt24Max)
      [] name = "rotation" -> SameRotation(node.f[name], v, 2 * kQuatStep)
      [] OTHER -> v = node.f[name]

BodyFields == {"flags", "head", "right_hand", "left_hand", "physical",
               "xr_origin_delta_position", "xr_origin_delta_yaw"}
DerivedFields == {"count", "encoding_flags"}

\* The reader took every byte, and holds the message that was sent.
Understood ==
    /\ got.ok
    /\ got.at = Len(wire)
    /\ {p \in DOMAIN got.out : p[2] \notin DerivedFields}
            = UNION {{<<s, n>> : n \in DOMAIN Node(sent, s).f} : s \in SeenScopes(sent)}
    /\ \A s \in SeenScopes(sent) :
         LET node == Node(sent, s)
             Got(name) == got.out[<<s, name>>]
         IN IF "transform" \in DOMAIN node.f
            THEN SameVirtual(Node(sent, Front(s)), node, got.out[<<Front(s), "head">>],
                             Got("transform"))
            ELSE /\ IsBody(node) => SameBody(node, Got)
                 /\ \A n \in DOMAIN node.f \ (IF IsBody(node) THEN BodyFields ELSE {}) :
                        SameScalar(node, n, Got(n))

-----------------------------------------------------------------------------
\* Every message a serialiser of protocol_v8.cpp writes, whatever flags,
\* over-long strings, over-full lists of targets and virtuals and far away
\* positions it was given, is accepted by its deserialiser, which takes all the
\* bytes and returns the message: strings cut between characters, the nearest
\* value of every position and yaw, a rotation about any axis to two steps of its
\* ten-bit code and one that is sent relative to the head to four, and nothing
\* the flags do not announce.
RoundTrip == cut = Len(wire) /\ ~foreign => Understood

\* No deserialiser accepts a message that lacks its last bytes, wherever the
\* cut falls: inside a length, a list, a string or a pose body.
TruncationRefused == cut \in 0..(Len(wire) - 1) => ~got.ok

\* A body with flags that no serialiser of ours writes (hands without a head,
\* virtuals without their flag) and at most MaxVirtuals virtuals is read to its
\* end: the clients after it in the room pose are understood, and nothing
\* unannounced is kept (read_pose_body).
StaysAligned ==
    (/\ cut = Len(wire) /\ foreign
     /\ \A i \in DOMAIN sent.kids : Len(sent.kids[i].kids) <= MaxVirtuals)
        => Understood

\* Not so for a body of more virtuals, whose last ones read_pose_body leaves to
\* be read as the next client: "a non-conforming sender cannot desynchronise the
\* reader" (docs/PROTOCOL_V8.md, section 4.2).
NeverDesynchronised ==
    cut = Len(wire) /\ foreign => got.ok /\ got.at = Len(wire)
=============================================================================
