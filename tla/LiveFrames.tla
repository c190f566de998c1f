------------------------------ MODULE LiveFrames ------------------------------
(***************************************************************************)
(* What the client and the server put on the wire: the frame around every  *)
(* message (engine/net/src/codec.rs), the messages and what each side      *)
(* refuses of them (protocol live.rs, live/combat.rs, live/baselines.rs),  *)
(* and the two encodings of replicated state, compact single states and    *)
(* whole groups (engine/net/src/replication/codec.rs).                     *)
(*                                                                         *)
(* A frame is its lane, its epoch, the bytes of its payload and the payload. *)
(* Sizes are the real ones, so limits are met where the code meets them.   *)
(* Control messages and commands are written by bincode, a library: their  *)
(* payload is the message, and only its size is computed.  The encodings   *)
(* of state are the project's own: their payload is a sequence of pairs    *)
(* <<bytes, value>>, an integer of that width or opaque bytes, and the     *)
(* integers of a compact state are byte by byte, with a smaller base.      *)
(*                                                                         *)
(* The transport may delay, repeat and reorder frames, also past the       *)
(* resynchronization that starts a new connection epoch on the same        *)
(* transport.  A message is a kind and its parts; a part is a sequence of  *)
(* rows of numbers, one row or a bounded collection.                       *)
(*                                                                         *)
(* Left out: Welcome's content identity (SchemaCodec), arithmetic on       *)
(* directions (a flag says whether they are finite and short enough),      *)
(* and what the receiver does with a message.                              *)
(***************************************************************************)
EXTENDS Integers, Sequences, FiniteSets

CONSTANTS
  FrameBytes,      \* APPLICATION_FRAME_BYTES, in the Welcome
  OwnerBytes,      \* OWNER_GROUP_MESSAGE_BYTES
  Septet,          \* a byte of a compact integer holds numbers below this (128)
  VarintBytes,     \* bytes of the largest one (10)
  Members,         \* baselines::MEMBERS
  MinMembers,      \* baselines::MIN_MEMBERS
  PayloadBytes,    \* baselines::PAYLOAD_BYTES
  Controls(_, _),  \* bound: what a side may say in an epoch
  Pending(_),      \* bound: the client's pending commands, newest first
  States(_),       \* bound: the states the server may publish
  MaxEpochs,       \* bound: connection epochs of a behaviour
  MaxAir           \* bound: frames in the air

VARIABLES
  hostEpoch,   \* the epoch the server gave the peer last, 0 before the first
  guest,       \* the epoch and frame limit the client has from its Welcome
  air,         \* frames that may still arrive: to whom, what was said, in which epoch
  balked       \* history: messages whose encoder refused them

frameVars == <<hostEpoch, guest, air, balked>>

HeaderBytes  == 24
WelcomeBytes == 1024
Nothing      == [kind |-> "none"]
NoWire       == <<>>
NoFrame      == [lane |-> "none"]
Kind(name, value) == [kind |-> name, value |-> value]

\* The sum of the first n widths.
Sum(width(_), n) ==
  LET upTo[i \in 0..n] == IF i = 0 THEN 0 ELSE upTo[i - 1] + width(i)
  IN upTo[n]

Size(wire) == Sum(LAMBDA i : wire[i][1], Len(wire))

Concat(parts) ==
  LET upTo[i \in 0..Len(parts)] == IF i = 0 THEN <<>> ELSE upTo[i - 1] \o parts[i]
  IN upTo[Len(parts)]

From(wire, n) == SubSeq(wire, n + 1, Len(wire))

FramesInit ==
  /\ hostEpoch = 0
  /\ guest = [epoch |-> 0, limit |-> 0]
  /\ air = {} /\ balked = {}

-----------------------------------------------------------------------------
(* Sizes under bincode with fixed-width integers.                           *)

Fixed(w) == [w |-> w, optional |-> FALSE]
Maybe(w) == [w |-> w, optional |-> TRUE]
Columns(widths) == [i \in 1..Len(widths) |-> Fixed(widths[i])]

\* An optional value has a flag byte, and is absent when it is 0.
ValueSize(column, v) ==
  IF ~column.optional THEN column.w ELSE IF v = 0 THEN 1 ELSE 1 + column.w

RowSize(columns, row) == Sum(LAMBDA i : ValueSize(columns[i], row[i]), Len(columns))

\* A part is one row, or (bound > 0) a count and its rows.
PartSize(shape, rows) ==
  (IF shape.bound = 0 THEN 0 ELSE 8) + Sum(LAMBDA i : RowSize(shape.columns, rows[i]), Len(rows))

\* BoundedVec refuses a longer collection when it is made and when it is read.
PartFits(shape, rows) == IF shape.bound = 0 THEN Len(rows) = 1 ELSE Len(rows) <= shape.bound

\* Fields of fixed width, written and read one after the other.
Fields(widths, row) == [i \in 1..Len(widths) |-> <<widths[i], row[i]>>]
Starts(widths, wire) ==
  Len(widths) <= Len(wire) /\ \A i \in 1..Len(widths) : wire[i][1] = widths[i]
ValuesOf(widths, wire) == [i \in 1..Len(widths) |-> wire[i][2]]

-----------------------------------------------------------------------------
(* Layouts.                                                                 *)

Scope    == <<8, 8, 4, 8, 4>>
Receipt  == Scope \o <<8, 8, 8>>
Context  == Scope \o <<4, 1, 4, 8>>
Baseline == Context \o <<8, 8, 8, 8>>
KeyOf    == <<8, 4, 8, 1>>

One(widths)         == [columns |-> Columns(widths), bound |-> 0]
List(widths, bound) == [columns |-> Columns(widths), bound |-> bound]

\* An outcome: sequence, key, tick, status, reason, then query tick, target,
\* region, damage, transaction, binding, and the three bindings as one.
Outcome == Columns(<<8>> \o KeyOf \o <<8, 4, 8>>)
           \o <<Maybe(8), Maybe(12), Fixed(1), Fixed(4), Maybe(55), Maybe(12), Fixed(47)>>

ShapeOf(kind) ==
  CASE kind \in {"FinalizedAck", "OutcomesAck", "ClockProbe"} -> <<One(<<8>>)>>
    [] kind \in {"OutcomeLookup", "OutcomeUnavailable"}       -> <<List(KeyOf, 8)>>
    [] kind = "Ready"          -> <<One(<<32, 32, 32, 4>>)>>
    [] kind = "Decoded"        -> <<List(Receipt, 12)>>
    [] kind = "OwnerDecoded"   -> <<List(Receipt \o Baseline, Members)>>
    [] kind \in {"BaselineRetire", "BaselineRetired"} -> <<List(Context \o <<8, 8>>, Members)>>
    [] kind \in {"BaselineRepair", "BaselineReset"}   -> <<List(Context \o <<8>>, Members)>>
    [] kind \in {"Exited", "Exit"}       -> <<One(Scope)>>
    [] kind \in {"Destroyed", "Destroy"} -> <<One(<<8, 8, 4>>)>>
    [] kind = "Menu"           -> <<One(<<8, 4, 2>>)>>
    [] kind = "Resync"         -> <<One(<<4>>)>>
    [] kind = "ActionOutcomes" -> <<One(<<8>>), [columns |-> Outcome, bound |-> 4]>>
    [] kind = "Finalized"      -> <<One(<<8>>),
                                    [columns |-> <<Fixed(8), Maybe(8), Fixed(4)>>, bound |-> 32],
                                    [columns |-> <<Maybe(8), Maybe(25), Fixed(8), Fixed(8)>>, bound |-> 0]>>
    [] kind = "Active"         -> <<One(<<8, 8>>)>>
    [] kind = "ClockReply"     -> <<One(<<8, 8, 8, 8>>)>>
    [] kind = "Notice"         -> <<One(<<8, 512>>)>>

\* A command: owner, sequence, target, held input, beam sample, one action edge.
CommandShape ==
  [columns |-> Columns(<<8, 8, 4, 8, 4, 4, 8, 8, 46>>) \o <<Maybe(84), Fixed(8), Fixed(1), Fixed(4), Maybe(84)>>,
   bound |-> 8]
WelcomeShape == One(<<8, 8, 8, 16, 36, 4, 8, 8, 100, 12, 12, 12, 2>>)

-----------------------------------------------------------------------------
(* Validation: zero is never an identity.                                   *)

\* Columns of a row that must not be zero.
Nonzero(row, columns) == \A c \in columns : row[c] # 0

ValidScope(row, at) == Nonzero(row, {at, at + 2, at + 3, at + 4})
ValidReceipt(row, at) == ValidScope(row, at) /\ Nonzero(row, {at + 5, at + 6, at + 7})
\* The schema, the group and its revision.
ValidContext(row, at) ==
  ValidScope(row, at) /\ row[at + 5] = 1 /\ row[at + 6] = 1 /\ row[at + 7] = 1 /\ row[at + 8] # 0
ValidBaseline(row, at) == ValidContext(row, at) /\ Nonzero(row, {at + 9, at + 10, at + 11})
\* baselines::valid_proof: the receipt and the baseline are of the same state.
ValidProof(row) ==
  /\ ValidReceipt(row, 1) /\ ValidBaseline(row, 9)
  /\ SubSeq(row, 1, 5) = SubSeq(row, 9, 13)
  /\ row[7] = row[19] /\ row[8] = row[20]
ValidKey(row, at) == Nonzero(row, {at, at + 1, at + 2}) /\ row[at + 3] < 8

Accepted == 1

\* ActionOutcome::validate.  Column 9 is the query tick, 10 the target, 13 the
\* transaction, which names the target and the key it is of.
ValidOutcome(row) ==
  /\ row[1] # 0 /\ ValidKey(row, 2) /\ row[12] >= 0
  /\ row[9] <= row[6]
  /\ row[7] # Accepted => row[10] = 0 /\ row[13] = 0 /\ row[12] = 0 /\ row[15] = 0
  /\ row[13] # 0 => row[13] = row[10] /\ row[10] # 0

\* Finalized: the receipts are consecutive ticks that end at `through`.
ValidFinalized(through, receipts, arrival) ==
  /\ arrival[4] <= arrival[3] /\ (arrival[2] # 0 => arrival[3] # 0)
  /\ receipts # <<>> /\ receipts[Len(receipts)][1] = through
  /\ \A i \in 1..(Len(receipts) - 1) : receipts[i + 1][1] = receipts[i][1] + 1

TickActions   == 1..8
PlainActions  == {5, 6}
MenuArguments == {9, 11, 12}

\* valid_tick_action, valid_menu: an argument is 0 when it is out of range.
ValidTickAction(action, argument) ==
  action \in TickActions /\ (action \in PlainActions \/ argument # 0)
ValidMenu(action, argument) ==
  action \notin TickActions /\ (action \in MenuArguments => argument # 0)

EveryRow(rows, P(_)) == \A i \in 1..Len(rows) : P(rows[i])

ValidControl(m) ==
  LET rows == m.parts[1]
      row  == rows[1]
  IN CASE m.kind \in {"FinalizedAck", "OutcomesAck"} -> row[1] # 0
       [] m.kind \in {"OutcomeLookup", "OutcomeUnavailable"} ->
            rows # <<>> /\ EveryRow(rows, LAMBDA r : ValidKey(r, 1))
       [] m.kind = "Ready" -> row[4] # 0
       [] m.kind = "Decoded" -> rows # <<>> /\ EveryRow(rows, LAMBDA r : ValidReceipt(r, 1))
       [] m.kind = "OwnerDecoded" -> Len(rows) >= MinMembers /\ EveryRow(rows, ValidProof)
       [] m.kind \in {"BaselineRetire", "BaselineRetired"} ->
            rows # <<>> /\ EveryRow(rows, LAMBDA r : ValidContext(r, 1) /\ Nonzero(r, {10, 11}))
       [] m.kind \in {"BaselineRepair", "BaselineReset"} ->
            rows # <<>> /\ EveryRow(rows, LAMBDA r : ValidContext(r, 1) /\ r[10] # 0)
       [] m.kind \in {"Exited", "Exit"} -> ValidScope(row, 1)
       [] m.kind \in {"Destroyed", "Destroy"} -> Nonzero(row, {1, 3})
       [] m.kind = "Menu" -> row[1] # 0 /\ ValidMenu(row[2], row[3])
       [] m.kind = "ActionOutcomes" ->
            row[1] # 0 /\ m.parts[2] # <<>> /\ EveryRow(m.parts[2], ValidOutcome)
       [] m.kind = "Finalized" -> ValidFinalized(row[1], m.parts[2], m.parts[3][1])
       [] m.kind = "Active" -> row[1] # 0
       [] m.kind = "ClockReply" -> row[2] <= row[3]
       [] OTHER -> TRUE

ValidCommand(row) ==
  /\ Nonzero(row, {1, 2, 3, 5, 6, 7, 8, 9})
  /\ row[11] # 0 => ValidTickAction(row[13], row[14]) /\ row[12] < 8

ValidBundle(rows) == rows # <<>> /\ EveryRow(rows, ValidCommand)

-----------------------------------------------------------------------------
(* Frames.                                                                  *)

Lanes == {"Control", "Input", "State", "Outcomes", "Diagnostics"}

\* encode_frame.
Framed(lane, epoch, bytes, payload, limit) ==
  IF epoch = 0 \/ bytes > limit - HeaderBytes THEN NoFrame
  ELSE [lane |-> lane, epoch |-> epoch, bytes |-> bytes, payload |-> payload]

\* The epoch of the frame is not compared.
MutantReadable(lane, epoch, frame, limit) ==
  /\ HeaderBytes + frame.bytes <= limit
  /\ frame.lane = lane

\* decode_frame, and the lane its caller expects.
Readable(lane, epoch, frame, limit) ==
  /\ HeaderBytes + frame.bytes <= limit
  /\ epoch # 0 /\ frame.epoch = epoch
  /\ frame.lane = lane

\* A control message: the tag of its kind and its parts.
ControlSize(m) ==
  4 + Sum(LAMBDA i : PartSize(ShapeOf(m.kind)[i], m.parts[i]), Len(m.parts))

ControlFits(m) ==
  /\ Len(m.parts) = Len(ShapeOf(m.kind))
  /\ \A i \in 1..Len(m.parts) : PartFits(ShapeOf(m.kind)[i], m.parts[i])
  /\ ValidControl(m)

\* encode_payload and encode_control.
EncodeControl(m, epoch, limit) ==
  IF ControlFits(m) THEN Framed("Control", epoch, ControlSize(m), m, limit) ELSE NoFrame

\* decode_payload and decode_control.
DecodeControl(frame, epoch, limit) ==
  IF Readable("Control", epoch, frame, limit) /\ ControlFits(frame.payload)
  THEN Kind("control", frame.payload) ELSE Nothing

CommandSize(row) == RowSize(CommandShape.columns, row)

\* pack_redundant: the newest command, and the older ones that still fit.
Packed(commands, limit) ==
  LET taken[i \in 1..Len(commands)] ==
        IF i = 1 THEN [rows |-> <<commands[1]>>, left |-> limit - HeaderBytes - 8 - CommandSize(commands[1])]
        ELSE LET p == taken[i - 1]
                 size == CommandSize(commands[i])
             IN IF Len(p.rows) = 8 \/ size > p.left THEN p
                ELSE [rows |-> Append(p.rows, commands[i]), left |-> p.left - size]
  IN taken[Len(commands)].rows

\* The owner of every command is in the epoch of the frame.
BundleFits(rows, epoch) ==
  PartFits(CommandShape, rows) /\ ValidBundle(rows) /\ \A i \in 1..Len(rows) : rows[i][2] = epoch

EncodeCommands(rows, epoch, limit) ==
  IF BundleFits(rows, epoch) THEN Framed("Input", epoch, PartSize(CommandShape, rows), rows, limit)
  ELSE NoFrame

DecodeCommands(frame, epoch, limit) ==
  IF Readable("Input", epoch, frame, limit) /\ BundleFits(frame.payload, epoch)
  THEN Kind("commands", frame.payload) ELSE Nothing

-----------------------------------------------------------------------------
(* Replicated state.  A state has a scope (connection, index, generation,   *)
(* epoch, representation), its identity (baseline generation, snapshot,     *)
(* version, end tick) and a payload, one opaque pair.                       *)

StateIsValid(state, connection) ==
  /\ connection # 0 /\ state.scope[1] = connection
  /\ Nonzero(state.scope, {3, 4, 5}) /\ Nonzero(state.id, {1, 2, 3})


\* put_varint: the high half of a byte's range says that more follow.
Varint(v) ==
  LET bytes[n \in 0..v] == IF n < Septet THEN <<<<1, n>>>>
                           ELSE <<<<1, (n % Septet) + Septet>>>> \o bytes[n \div Septet]
  IN bytes[v]

\* The place of the last byte of the k-th integer, 0 when there is none.
LastByte(wire, k) ==
  LET last == {i \in 1..Len(wire) : wire[i][1] = 1 /\ wire[i][2] < Septet}
  IN IF k = 0 \/ Cardinality(last) < k THEN 0
     ELSE CHOOSE i \in last : Cardinality({j \in last : j <= i}) = k

\* Reader::varint refuses an integer past the width and a last byte of zero.
IsVarint(bytes) ==
  /\ Len(bytes) \in 1..VarintBytes
  /\ Len(bytes) = VarintBytes => bytes[VarintBytes][2] <= 1
  /\ Len(bytes) > 1 => bytes[Len(bytes)][2] # 0

VarintValue(bytes) ==
  Sum(LAMBDA i : (bytes[i][2] % Septet) * Septet^(i - 1), Len(bytes))

\* encode_compact_full_state: the frame names the connection already.
EncodeCompact(state) ==
  LET numbers == SubSeq(state.scope, 2, 5) \o state.id \o <<state.payload[1]>>
  IN IF StateIsValid(state, state.scope[1])
     THEN Concat([i \in 1..9 |-> Varint(numbers[i])]) \o <<state.payload>>
     ELSE NoWire

\* decode_compact_full_state.
DecodeCompact(wire, connection) ==
  LET ends   == [k \in 0..9 |-> LastByte(wire, k)]
      bytes  == [k \in 1..9 |-> SubSeq(wire, ends[k - 1] + 1, ends[k])]
      number == [k \in 1..9 |-> VarintValue(bytes[k])]
      state  == [scope |-> <<connection>> \o SubSeq(number, 1, 4), id |-> SubSeq(number, 5, 8),
                 payload |-> wire[Len(wire)]]
  IN IF /\ ends[9] + 1 = Len(wire)
        /\ \A k \in 1..9 : IsVarint(bytes[k])
        /\ StateIsValid(state, connection) /\ number[9] = state.payload[1]
     THEN Kind("full", state) ELSE Nothing

-----------------------------------------------------------------------------
(* Groups: a publication (connection, group, revision, snapshot), its tick, *)
(* the manifest of scopes in order, and one state for each.                 *)

GroupBytes == OwnerBytes - HeaderBytes - 1
GroupHead  == <<1, 8, 4, 8, 8, 8, 2>>
MemberHead == Scope \o <<8, 8, 8, 8, 4>>

\* ScopeIdentity orders by its fields.
ScopeBefore(a, b) ==
  \E i \in 1..5 : a[i] < b[i] /\ \A j \in 1..(i - 1) : a[j] = b[j]

ManifestInOrder(manifest) ==
  \A i \in 1..(Len(manifest) - 1) :
    ScopeBefore(manifest[i], manifest[i + 1]) /\ manifest[i][2] # manifest[i + 1][2]

\* What both encode_group and decode_group require.
GroupIsValid(g) ==
  /\ Len(g.members) \in 1..Members
  /\ 39 + 100 * Len(g.members) <= GroupBytes
  /\ Nonzero(g.publication, {1, 3, 4})
  /\ ManifestInOrder([i \in 1..Len(g.members) |-> g.members[i].scope])
  /\ \A i \in 1..Len(g.members) :
       StateIsValid(g.members[i], g.publication[1]) /\ g.members[i].id[4] = g.tick

\* A member is written after the manifest, with the length of its payload.
MemberWire(state) ==
  Fields(MemberHead, state.scope \o state.id \o <<state.payload[1]>>) \o <<state.payload>>

\* encode_group.
EncodeGroup(g) ==
  IF ~GroupIsValid(g) THEN NoWire
  ELSE Fields(GroupHead, <<1>> \o g.publication \o <<g.tick, Len(g.members)>>)
       \o Concat([i \in 1..Len(g.members) |-> Fields(Scope, g.members[i].scope)])
       \o Concat([i \in 1..Len(g.members) |-> MemberWire(g.members[i])])

\* decode_group: 7 fields, n scopes of 5, then n members of 10 and the payload.
DecodeGroup(wire) ==
  LET head    == ValuesOf(GroupHead, wire)
      n       == head[7]
      scope   == [i \in 1..n |-> ValuesOf(Scope, From(wire, 7 + 5 * (i - 1)))]
      from    == [i \in 1..n |-> 7 + 5 * n + 11 * (i - 1)]
      member  == [i \in 1..n |-> ValuesOf(MemberHead, From(wire, from[i]))]
      g == [publication |-> SubSeq(head, 2, 5), tick |-> head[6],
            members |-> [i \in 1..n |-> [scope |-> scope[i], id |-> SubSeq(member[i], 6, 9),
                                         payload |-> wire[from[i] + 11]]]]
  IN IF /\ Starts(GroupHead, wire) /\ head[1] = 1
        /\ Len(wire) = 7 + 16 * n
        /\ \A i \in 1..n : /\ Starts(MemberHead, From(wire, from[i]))
                           /\ SubSeq(member[i], 1, 5) = scope[i]
                           /\ member[i][10] = wire[from[i] + 11][1]
        /\ GroupIsValid(g)
     THEN Kind("group", g) ELSE Nothing

-----------------------------------------------------------------------------
(* The members of an owner group are baseline packets: the generation, the  *)
(* base of a delta or none, and the bytes.                                  *)

\* target: the BaselineReceipt of a state of a publication.
TargetOf(state, publication, packet) ==
  state.scope \o <<1, 1>> \o SubSeq(publication, 2, 3) \o <<packet.generation>> \o SubSeq(state.id, 2, 4)

\* validate_base: columns 10 to 13 are generation, snapshot, version and tick.
BaseFits(target, base) ==
  /\ ValidBaseline(base, 1)
  /\ SubSeq(base, 1, 10) = SubSeq(target, 1, 10)
  /\ base[11] < target[11] /\ base[12] <= target[12] /\ base[13] <= target[13]

PacketFits(state, publication) ==
  LET packet == state.payload[2]
      target == TargetOf(state, publication, packet)
  IN /\ publication[1] = state.scope[1] /\ publication[2] = 1
     /\ ValidBaseline(target, 1)
     /\ packet.base # <<>> => BaseFits(target, packet.base)
     /\ packet.bytes <= PayloadBytes + 12

\* encode_member and decode_member: bincode again, within MEMBER_BYTES.
MemberSize(packet) == 8 + (IF packet.base = <<>> THEN 1 ELSE 82) + 8 + packet.bytes

PacketsFit(g) ==
  \A i \in 1..Len(g.members) :
    /\ PacketFits(g.members[i], g.publication)
    /\ g.members[i].payload[1] = MemberSize(g.members[i].payload[2])
    /\ MemberSize(g.members[i].payload[2]) <= PayloadBytes + 256

-----------------------------------------------------------------------------
(* State frames.                                                            *)

\* encode_state: a tag, then a single state under the frame limit of the
\* connection or a group under that of the owner channel.
EncodeState(said, epoch, limit) ==
  LET full == said.kind = "full"
      wire == IF full THEN EncodeCompact(said.value)
              ELSE IF PacketsFit(said.value) THEN EncodeGroup(said.value) ELSE NoWire
      most == IF full THEN limit ELSE OwnerBytes
      ours == IF full THEN said.value.scope[1] = epoch ELSE said.value.publication[1] = epoch
  IN IF ours /\ wire # NoWire
     THEN Framed("State", epoch, 1 + Size(wire), <<<<1, IF full THEN 0 ELSE 1>>>> \o wire, most)
     ELSE NoFrame

\* decode_state, and decode_member of the members.
DecodeState(frame, epoch, limit) ==
  IF ~Readable("State", epoch, frame, OwnerBytes) THEN Nothing
  ELSE IF frame.payload[1][2] = 0
  THEN IF HeaderBytes + frame.bytes <= limit THEN DecodeCompact(From(frame.payload, 1), epoch) ELSE Nothing
  ELSE LET g == DecodeGroup(From(frame.payload, 1)) IN
       IF g.kind # "group" THEN Nothing
       ELSE IF g.value.publication[1] = epoch /\ PacketsFit(g.value) THEN g ELSE Nothing

-----------------------------------------------------------------------------
(* The two sides.                                                           *)

\* A Welcome has no frame: its reader does not know the epoch yet.
WelcomeOf(epoch) == <<1, 1, 1, 1, epoch, 1, 0, 0, 1, 1, 2, 3, FrameBytes>>

\* Welcome::validate: the entities differ, nothing is zero, the frame is usable.
WelcomeFits(row) ==
  /\ RowSize(WelcomeShape.columns, row) + 4 <= WelcomeBytes
  /\ Nonzero(row, {1, 2, 3, 5, 6, 9, 10, 11, 12})
  /\ Cardinality({row[10], row[11], row[12]}) = 3
  /\ row[13] \in 1088..1200

EncodeWelcome(epoch) ==
  IF WelcomeFits(WelcomeOf(epoch)) THEN [lane |-> "Welcome", row |-> WelcomeOf(epoch)] ELSE NoFrame

IsWelcome(frame) == frame.lane = "Welcome"

DecodeWelcome(frame) ==
  IF WelcomeFits(frame.row) THEN Kind("welcome", [epoch |-> frame.row[5], limit |-> frame.row[13]])
  ELSE Nothing

\* The frame of a message that was said in an epoch.
FrameOf(f) ==
  CASE f.said.kind = "welcome"  -> EncodeWelcome(f.epoch)
    [] f.said.kind = "control"  -> EncodeControl(f.said.value, f.epoch, FrameBytes)
    [] f.said.kind = "commands" -> EncodeCommands(f.said.value, f.epoch, FrameBytes)
    [] OTHER                    -> EncodeState(f.said, f.epoch, FrameBytes)

\* A message is sent, or its encoder refuses it.
Say(to, said, epoch) ==
  LET f == [to |-> to, said |-> said, epoch |-> epoch] IN
  IF FrameOf(f) = NoFrame
  THEN balked' = balked \cup {said} /\ UNCHANGED air
  ELSE /\ f \notin air /\ Cardinality(air) < MaxAir
       /\ air' = air \cup {f}
       /\ UNCHANGED balked

\* The server starts a connection epoch: a first one, or a resynchronization.
Greet ==
  /\ hostEpoch < MaxEpochs
  /\ hostEpoch' = hostEpoch + 1
  /\ Say("client", Kind("welcome", [epoch |-> hostEpoch + 1, limit |-> FrameBytes]), hostEpoch + 1)
  /\ UNCHANGED guest

Tell(side) ==
  LET epoch == IF side = "client" THEN guest.epoch ELSE hostEpoch
  IN /\ epoch # 0
     /\ \E m \in Controls(side, epoch) :
          Say(IF side = "client" THEN "server" ELSE "client", Kind("control", m), epoch)
     /\ UNCHANGED <<hostEpoch, guest>>

Command ==
  /\ guest.epoch # 0
  /\ \E commands \in Pending(guest.epoch) :
       Say("server", Kind("commands", Packed(commands, guest.limit)), guest.epoch)
  /\ UNCHANGED <<hostEpoch, guest>>

Publish ==
  /\ hostEpoch # 0
  /\ \E said \in States(hostEpoch) : Say("client", said, hostEpoch)
  /\ UNCHANGED <<hostEpoch, guest>>

\* The server reads with the epoch and limit it gave; the client with those it
\* has, and tells a Welcome from a frame by its first bytes.
AtServer(f) ==
  IF f.said.kind = "commands" THEN DecodeCommands(FrameOf(f), hostEpoch, FrameBytes)
  ELSE DecodeControl(FrameOf(f), hostEpoch, FrameBytes)

AtClient(f) ==
  LET frame == FrameOf(f) IN
  IF f.said.kind \notin {"welcome", "control"}
  THEN IF guest.epoch = 0 THEN Nothing ELSE DecodeState(frame, guest.epoch, guest.limit)
  ELSE IF IsWelcome(frame) THEN DecodeWelcome(frame)
  ELSE IF guest.epoch = 0 THEN Nothing
  ELSE DecodeControl(frame, guest.epoch, guest.limit)

Read(f) == IF f.to = "server" THEN AtServer(f) ELSE AtClient(f)

\* A Welcome of a later epoch arrives.  Any frame may arrive at any time and
\* more than once; Read says what its receiver makes of it then.
Enter(f) ==
  /\ f.said.kind = "welcome" /\ Read(f).kind = "welcome"
  /\ Read(f).value.epoch > guest.epoch
  /\ guest' = Read(f).value
  /\ UNCHANGED <<hostEpoch, air, balked>>

\* A frame is lost, or has arrived for the last time.
Lose(f) ==
  /\ air' = air \ {f}
  /\ UNCHANGED <<hostEpoch, guest, balked>>

FramesNext ==
  \/ Greet
  \/ \E side \in {"client", "server"} : Tell(side)
  \/ Command
  \/ Publish
  \/ \E f \in air : Enter(f) \/ Lose(f)

FramesSpec == FramesInit /\ [][FramesNext]_frameVars

-----------------------------------------------------------------------------
(* Properties.                                                              *)

\* Every message the two sides may send can be written, and whenever a frame
\* arrives it is read as exactly what was written if its receiver is in the
\* connection epoch it was written for, and as nothing otherwise; a Welcome is
\* always read (encode_*/decode_* of live.rs; decode_frame's WrongEpoch).  So a
\* frame that was delayed past a resynchronization is never taken for one of the
\* new epoch, and no collection at its bound outgrows the frame.
FramesExact ==
  /\ balked = {}
  /\ \A f \in air :
       LET epoch == IF f.to = "server" THEN hostEpoch ELSE guest.epoch
       IN Read(f) = IF f.said.kind = "welcome" \/ f.epoch = epoch THEN f.said ELSE Nothing
=============================================================================
