---------------------------- MODULE SchemaCodec ----------------------------
(***************************************************************************)
(* The exact schemas of engine/net/src/schema: what registration accepts   *)
(* (registry.rs, inspection.rs), the two encodings of a registered value,  *)
(* canonical (wire.rs, value.rs, composites.rs) and compact (compact.rs),  *)
(* the code schema! and schema_enum! generate (macros.rs), and two peers   *)
(* that register schemas, compare their registries and exchange values.    *)
(*                                                                         *)
(* A type is a record with a kind k:                                       *)
(*   int, float, unit;  text and bytes with a bound n;  opt with the type  *)
(*   of;  arr and vec with of and n;  enum with the tags' types of;  rec   *)
(*   with its identity, representation, fields and defaults.               *)
(* A field has an id, a type and the parts of its FieldSpec that decide    *)
(* anything: range, visibility and prediction, the last two as numbers in  *)
(* their order.  All integers are of one byte, a byte is below Base, a u16 *)
(* is one byte and a u32 two, so that lengths stay small; magic and        *)
(* fingerprint are one element each.  A fingerprint is what is hashed.     *)
(*                                                                         *)
(* Work is modelled by what it amounts to: every check is against a total  *)
(* that only grows, so a traversal succeeds exactly if its totals fit.     *)
(* A variant without a payload carries a unit.                             *)
(* Left out: units, interpolation, change rules, compatibility versions    *)
(* and quantizers, which are compared with the one value supported;        *)
(* lifecycle hooks; diagnostics.                                           *)
(***************************************************************************)
EXTENDS Integers, Sequences, FiniteSets
LOCAL INSTANCE FiniteSetsExt

CONSTANTS
  Base,        \* values of a byte
  Candidates,  \* names of root schemas a program may declare
  Declared(_), \* the declaration of a candidate: a type of kind rec
  Samples(_),  \* values of a root schema, in its ranges or not
  Limits       \* peer -> its SchemaLimits: the totals of Work and wire

VARIABLES
  registry,  \* peer -> the identities it knows and the root schemas it registered
  wire       \* the value exchanged, how, and what became of it

codecVars == <<registry, wire>>

Programs == {"client", "server"}
NegativeZero == Base - 1    \* the bytes of -0.0
NoRange == <<>>
NoExchange == [sender |-> "none"]

Little(value, width) == [i \in 1..width |-> (value \div Base^(i - 1)) % Base]
Number(bytes) == LET n[i \in 0..Len(bytes)] == IF i = 0 THEN 0 ELSE n[i - 1] + bytes[i] * Base^(i - 1)
                 IN n[Len(bytes)]
U16(value) == Little(value, 1)
U32(value) == Little(value, 2)
Taken(bytes, n) == SubSeq(bytes, 1, n)
Rest(bytes, n)  == SubSeq(bytes, n + 1, Len(bytes))

Joined(parts) == LET all[i \in 0..Len(parts)] == IF i = 0 THEN <<>> ELSE all[i - 1] \o parts[i]
                 IN all[Len(parts)]

-----------------------------------------------------------------------------
(* What a value consists of.                                                *)

\* ordered: by id, whatever the order of declaration.
Ordered(fields) ==
  LET ids == {fields[i].id : i \in DOMAIN fields}
      At(n) == CHOOSE id \in ids : Cardinality({x \in ids : x <= id}) = n
  IN [n \in 1..Cardinality(ids) |-> CHOOSE f \in {fields[i] : i \in DOMAIN fields} : f.id = At(n)]

\* The parts of a value, each with its type and the range that applies to it.
Elements(t, range, v) ==
  CASE t.k = "opt" -> [i \in DOMAIN v |-> [type |-> t.of, range |-> range, value |-> v[i]]]
    [] t.k \in {"arr", "vec"} -> [i \in DOMAIN v |-> [type |-> t.of, range |-> range, value |-> v[i]]]
    [] t.k = "enum" -> <<[type |-> t.of[v[1]], range |-> range, value |-> v[2]]>>
    [] t.k = "rec" -> [i \in DOMAIN t.fields |-> [type |-> t.fields[i].type, range |-> t.fields[i].range,
                                                  value |-> v[t.fields[i].id]]]
    [] OTHER -> <<>>

IntegerFits(range, v) == range # NoRange /\ v \in range[1]..range[2]
FloatFits(range, v)   == range # NoRange /\ v \in {NegativeZero} \cup range[1]..range[2]

\* The range checks of value_size.
RECURSIVE InRange(_, _, _)
InRange(t, range, v) ==
  /\ t.k = "int" => IntegerFits(range, v)
  /\ t.k = "float" => FloatFits(range, v)
  /\ t.k \in {"text", "bytes", "unit", "rec"} => range = NoRange
  /\ LET parts == Elements(t, range, v)
     IN \A i \in DOMAIN parts : InRange(parts[i].type, parts[i].range, parts[i].value)

-----------------------------------------------------------------------------
(* Work.                                                                    *)

Nothing == [nodes |-> 0, allocated |-> 0, items |-> 0, text |-> 0, collection |-> 0, nesting |-> 0]
Larger(a, b) == Max({a, b})
Sum(a, b) ==
  [nodes |-> a.nodes + b.nodes, allocated |-> a.allocated + b.allocated, items |-> a.items + b.items,
   text |-> a.text + b.text, collection |-> Larger(a.collection, b.collection),
   nesting |-> Larger(a.nesting, b.nesting)]
Total(costs) == LET s[i \in 0..Len(costs)] == IF i = 0 THEN Nothing ELSE Sum(s[i - 1], costs[i])
                IN s[Len(costs)]

\* node, count, text, allocate for n items or bytes.
Own(t, n, depth) ==
  [nodes |-> 1, nesting |-> depth,
   items |-> IF t.k \in {"arr", "vec"} THEN n ELSE 0,
   collection |-> IF t.k \in {"arr", "vec"} THEN n ELSE 0,
   text |-> IF t.k = "text" THEN n ELSE 0,
   allocated |-> IF t.k \in {"arr", "vec", "text", "bytes"} THEN n ELSE 0]
Count(t, v) == IF t.k \in {"arr", "vec", "text", "bytes"} THEN Len(v) ELSE 0

\* What reading v takes; writing takes no more.
RECURSIVE Cost(_, _, _)
Cost(t, v, depth) ==
  LET parts == Elements(t, NoRange, v)
  IN Sum(Own(t, Count(t, v), depth),
         Total([i \in DOMAIN parts |-> Cost(parts[i].type, parts[i].value, depth + 1)]))

\* repeat_since: the cost of n elements, of one if there are none.
MutantRepeated(cost, n) == cost
Repeated(cost, n) == Total([i \in 1..Larger(n, 1) |-> cost])

\* merge_max: the largest of each resource.
Merged(costs) ==
  [r \in DOMAIN Nothing |-> Max({c[r] : c \in costs})]

\* maximum_size, for the totals.
RECURSIVE MaxCost(_, _)
SequenceMax(t, depth) == Sum(Own(t, t.n, depth), Repeated(MaxCost(t.of, depth + 1), t.n))
EnumMax(t, depth) == Sum(Own(t, 0, depth), Merged({MaxCost(t.of[id], depth + 1) : id \in DOMAIN t.of}))
RecordMax(t, depth) ==
  Sum(Own(t, 0, depth), Total([i \in DOMAIN t.fields |-> MaxCost(t.fields[i].type, depth + 1)]))
MaxCost(t, depth) ==
  CASE t.k \in {"arr", "vec"} -> SequenceMax(t, depth)
    [] t.k = "opt" -> Sum(Own(t, 0, depth), MaxCost(t.of, depth + 1))
    [] t.k = "enum" -> EnumMax(t, depth)
    [] t.k = "rec" -> RecordMax(t, depth)
    [] t.k \in {"text", "bytes"} -> Own(t, t.n, depth)
    [] OTHER -> Own(t, 0, depth)

Fits(cost, limits) == \A r \in DOMAIN Nothing : cost[r] <= limits[r]

Added(ns) == LET s[i \in 0..Len(ns)] == IF i = 0 THEN 0 ELSE s[i - 1] + ns[i] IN s[Len(ns)]

\* maximum_size, in bytes.
RECURSIVE MaxSize(_)
MaxSize(t) ==
  CASE t.k \in {"int", "float"} -> 1
    [] t.k = "unit" -> 0
    [] t.k \in {"text", "bytes"} -> 2 + t.n
    [] t.k = "opt" -> 1 + MaxSize(t.of)
    [] t.k \in {"arr", "vec"} -> 2 + t.n * (2 + MaxSize(t.of))
    [] t.k = "enum" -> 1 + Max({MaxSize(t.of[id]) : id \in DOMAIN t.of})
    [] t.k = "rec" -> 5 + Added([i \in DOMAIN t.fields |-> 3 + MaxSize(t.fields[i].type)])

\* value_size.
RECURSIVE SizeOfValue(_, _)
SizeOfValue(t, v) ==
  LET parts == Elements(t, NoRange, v)
      inner == [i \in DOMAIN parts |-> SizeOfValue(parts[i].type, parts[i].value)]
  IN CASE t.k \in {"int", "float"} -> 1
       [] t.k = "unit" -> 0
       [] t.k \in {"text", "bytes"} -> 2 + Len(v)
       [] t.k \in {"opt", "enum"} -> 1 + Added(inner)
       [] t.k \in {"arr", "vec"} -> 2 + 2 * Len(inner) + Added(inner)
       [] t.k = "rec" -> 5 + 3 * Len(inner) + Added(inner)

-----------------------------------------------------------------------------
(* The canonical encoding.  A reader's result is the set of what it read,   *)
(* empty for an error.                                                      *)

Scalar(t, v) == IF t.k = "float" /\ v = NegativeZero THEN 0 ELSE v

Framed(bytes) == U32(Len(bytes)) \o bytes

RECURSIVE Write(_, _)
WriteSequence(t, v) == U32(Len(v)) \o Joined([i \in DOMAIN v |-> Framed(Write(t.of, v[i]))])
WriteOption(t, v)   == IF v = <<>> THEN <<0>> ELSE <<1>> \o Write(t.of, v[1])
WriteVariant(t, v)  == U16(v[1]) \o Write(t.of[v[1]], v[2])
WriteField(f, v)    == U16(f.id) \o Framed(Write(f.type, v))
WriteRecord(t, v) ==
  LET fields == Ordered(t.fields)
  IN U32(t.id) \o U32(t.version) \o U16(Len(fields))
     \o Joined([i \in DOMAIN fields |-> WriteField(fields[i], v[fields[i].id])])
Write(t, v) ==
  CASE t.k \in {"int", "float"} -> <<Scalar(t, v)>>
    [] t.k = "unit" -> <<>>
    [] t.k \in {"text", "bytes"} -> Framed(v)
    [] t.k = "opt" -> WriteOption(t, v)
    [] t.k \in {"arr", "vec"} -> WriteSequence(t, v)
    [] t.k = "enum" -> WriteVariant(t, v)
    [] t.k = "rec" -> WriteRecord(t, v)

\* n frames, each after a prefix of the given width, that are all of the bytes.
RECURSIVE Frames(_, _, _)
Frames(bytes, n, prefix) ==
  IF n = 0 THEN IF bytes = <<>> THEN {<<>>} ELSE {}
  ELSE IF Len(bytes) < prefix + 2 THEN {}
  ELSE LET size == Number(SubSeq(bytes, prefix + 1, prefix + 2))
           body == SubSeq(bytes, prefix + 3, prefix + 2 + size)
       IN IF Len(bytes) < prefix + 2 + size THEN {}
          ELSE {<<[tag |-> Number(Taken(bytes, prefix)), body |-> body]>> \o rest :
                  rest \in Frames(Rest(bytes, prefix + 2 + size), n - 1, prefix)}

\* One value of every part, if each has one.
Each(parts) ==
  IF \E i \in DOMAIN parts : parts[i] = {} THEN {}
  ELSE {[i \in DOMAIN parts |-> CHOOSE v \in parts[i] : TRUE]}

RECURSIVE Read(_, _)
ReadText(t, b) ==
  IF Len(b) >= 2 /\ Number(Taken(b, 2)) <= t.n /\ Len(b) = 2 + Number(Taken(b, 2)) THEN {Rest(b, 2)} ELSE {}
ReadOption(t, b) ==
  IF b = <<0>> THEN {<<>>}
  ELSE IF b # <<>> /\ b[1] = 1 THEN {<<v>> : v \in Read(t.of, Rest(b, 1))} ELSE {}
ReadSequence(t, b) ==
  IF Len(b) < 2 \/ Number(Taken(b, 2)) > t.n \/ (t.k = "arr" /\ Number(Taken(b, 2)) # t.n) THEN {}
  ELSE UNION {Each([i \in DOMAIN fs |-> Read(t.of, fs[i].body)]) :
                fs \in Frames(Rest(b, 2), Number(Taken(b, 2)), 0)}
ReadVariant(t, b) ==
  IF b # <<>> /\ b[1] \in DOMAIN t.of THEN {<<b[1], v>> : v \in Read(t.of[b[1]], Rest(b, 1))} ELSE {}
\* The values of a record by id.
ById(fields, values) ==
  [id \in {fields[i].id : i \in DOMAIN fields} |-> values[CHOOSE i \in DOMAIN fields : fields[i].id = id]]
\* read_fields: every field is there, in order of id.
ReadFields(fields, b, count) ==
  UNION {Each([i \in DOMAIN fields |-> Read(fields[i].type, fs[i].body)]) :
           fs \in {fs \in Frames(b, count, 1) :
                     [i \in DOMAIN fs |-> fs[i].tag] = [i \in DOMAIN fields |-> fields[i].id]}}
ReadRecord(t, b) ==
  LET fields == Ordered(t.fields)
  IN IF Len(b) < 5 \/ Taken(b, 4) # U32(t.id) \o U32(t.version) \/ b[5] > Len(fields) THEN {}
     ELSE {ById(fields, values) : values \in ReadFields(fields, Rest(b, 5), b[5])}
Read(t, b) ==
  CASE t.k \in {"int", "float"} -> IF Len(b) = 1 THEN {Scalar(t, b[1])} ELSE {}
    [] t.k = "unit" -> IF b = <<>> THEN {"unit"} ELSE {}
    [] t.k \in {"text", "bytes"} -> ReadText(t, b)
    [] t.k = "opt" -> ReadOption(t, b)
    [] t.k \in {"arr", "vec"} -> ReadSequence(t, b)
    [] t.k = "enum" -> ReadVariant(t, b)
    [] t.k = "rec" -> ReadRecord(t, b)

-----------------------------------------------------------------------------
(* The compact encoding: no ids, lengths or frames.                         *)

RECURSIVE WriteCompact(_, _)
WriteRecordCompact(t, v) ==
  LET fields == Ordered(t.fields)
  IN Joined([i \in DOMAIN fields |-> WriteCompact(fields[i].type, v[fields[i].id])])
WriteItemsCompact(t, v) ==
  (IF t.k = "vec" THEN U32(Len(v)) ELSE <<>>) \o Joined([i \in DOMAIN v |-> WriteCompact(t.of, v[i])])
WriteCompact(t, v) ==
  CASE t.k \in {"int", "float", "unit", "text", "bytes"} -> Write(t, v)
    [] t.k = "opt" -> IF v = <<>> THEN <<0>> ELSE <<1>> \o WriteCompact(t.of, v[1])
    [] t.k \in {"arr", "vec"} -> WriteItemsCompact(t, v)
    [] t.k = "enum" -> U16(v[1]) \o WriteCompact(t.of[v[1]], v[2])
    [] t.k = "rec" -> WriteRecordCompact(t, v)

\* read_compact returns what it read and leaves the rest to its caller.
RECURSIVE ReadCompact(_, _)
\* Values of the given types, one after the other, and the rest.
ReadEach(types, b) ==
  LET upTo[i \in 0..Len(types)] ==
        IF i = 0 THEN {<<<<>>, b>>}
        ELSE UNION {{<<Append(x[1], y[1]), y[2]>> : y \in ReadCompact(types[i], x[2])} : x \in upTo[i - 1]}
  IN upTo[Len(types)]
ReadTextCompact(t, b) ==
  LET count == Number(Taken(b, 2))
  IN IF Len(b) < 2 \/ count > t.n \/ Len(b) < 2 + count THEN {}
     ELSE {<<SubSeq(b, 3, 2 + count), Rest(b, 2 + count)>>}
ReadOptionCompact(t, b) ==
  IF b = <<>> \/ b[1] > 1 THEN {} ELSE ReadEach(IF b[1] = 0 THEN <<>> ELSE <<t.of>>, Rest(b, 1))
ReadVecCompact(t, b) ==
  LET count == Number(Taken(b, 2))
  IN IF Len(b) < 2 \/ count > t.n THEN {} ELSE ReadEach([i \in 1..count |-> t.of], Rest(b, 2))
ReadVariantCompact(t, b) ==
  IF b = <<>> \/ b[1] \notin DOMAIN t.of THEN {}
  ELSE {<<<<b[1], x[1][1]>>, x[2]>> : x \in ReadEach(<<t.of[b[1]]>>, Rest(b, 1))}
ReadRecordCompact(t, b) ==
  LET fields == Ordered(t.fields)
  IN {<<ById(fields, x[1]), x[2]>> : x \in ReadEach([i \in DOMAIN fields |-> fields[i].type], b)}
ReadCompact(t, b) ==
  CASE t.k \in {"int", "float"} -> IF b = <<>> THEN {} ELSE {<<Scalar(t, b[1]), Rest(b, 1)>>}
    [] t.k = "unit" -> {<<"unit", b>>}
    [] t.k \in {"text", "bytes"} -> ReadTextCompact(t, b)
    [] t.k = "opt" -> ReadOptionCompact(t, b)
    [] t.k = "arr" -> ReadEach([i \in 1..t.n |-> t.of], b)
    [] t.k = "vec" -> ReadVecCompact(t, b)
    [] t.k = "enum" -> ReadVariantCompact(t, b)
    [] t.k = "rec" -> ReadRecordCompact(t, b)

-----------------------------------------------------------------------------
(* Registration.                                                            *)

Public == 0   \* Visibility::Public; Prediction::None
Private == 2  \* Visibility::ServerOnly; Prediction::Replayed

RangeFeed(range) == IF range = NoRange THEN <<0>> ELSE <<1, range[1], range[2]>>

\* The bound of a collection is not hashed.
MutantTypeFeed(t, inner) ==
  CASE t.k = "int" -> <<1>> [] t.k = "float" -> <<10>> [] t.k = "unit" -> <<18>>
    [] t.k = "text" -> <<15, t.n>> [] t.k = "bytes" -> <<19, t.n>>
    [] t.k = "opt" -> <<14>> \o inner
    [] t.k = "arr" -> <<12, t.n>> \o inner [] t.k = "vec" -> <<13>> \o inner
    [] t.k = "enum" -> <<17>> \o inner [] t.k = "rec" -> inner

\* What inspect hashes of a type; inner is what it hashes of the type's own.
TypeFeed(t, inner) ==
  CASE t.k = "int" -> <<1>> [] t.k = "float" -> <<10>> [] t.k = "unit" -> <<18>>
    [] t.k = "text" -> <<15, t.n>> [] t.k = "bytes" -> <<19, t.n>>
    [] t.k = "opt" -> <<14>> \o inner
    [] t.k = "arr" -> <<12, t.n>> \o inner [] t.k = "vec" -> <<13, t.n>> \o inner
    [] t.k = "enum" -> <<17>> \o inner [] t.k = "rec" -> inner

\* What is hashed of a schema and of a type; a nested fingerprint is framed.
RECURSIVE Feed(_)
FieldFeed(f) == <<f.id>> \o RangeFeed(f.range) \o <<f.visibility, f.prediction>> \o Feed(f.type)
RecordFeed(t) ==
  LET fields == Ordered(t.fields)
  IN <<20, t.id, t.version, t.rep, Len(fields)>>
     \o Joined([i \in DOMAIN fields |-> FieldFeed(fields[i])])
     \o Framed(Write(t, t.defaults))
VariantsFeed(t) ==
  LET At(n) == CHOOSE id \in DOMAIN t.of : Cardinality({x \in DOMAIN t.of : x <= id}) = n
      count == Cardinality(DOMAIN t.of)
  IN <<count>> \o Joined([n \in 1..count |-> <<At(n)>> \o Feed(t.of[At(n)])])
Feed(t) ==
  CASE t.k = "rec" -> TypeFeed(t, Framed(RecordFeed(t)))
    [] t.k = "enum" -> TypeFeed(t, VariantsFeed(t))
    [] t.k \in {"opt", "arr", "vec"} -> TypeFeed(t, Feed(t.of))
    [] OTHER -> TypeFeed(t, <<>>)

Identity(t) == [schema |-> t.id, version |-> t.version, fingerprint |-> Feed(t)]

\* The schemas of a declaration, itself included.
RECURSIVE Nested(_)
Nested(t) ==
  CASE t.k = "rec" -> {t} \cup UNION {Nested(t.fields[i].type) : i \in DOMAIN t.fields}
    [] t.k = "enum" -> UNION {Nested(t.of[id]) : id \in DOMAIN t.of}
    [] t.k \in {"opt", "arr", "vec"} -> Nested(t.of)
    [] OTHER -> {}

\* The visibility of a nested schema is not compared with its field's.
MutantDisclosed(t, visibility) == TRUE

\* Inspection::schema: a representation shows no more than where it is used.
Disclosed(t, visibility) == t.rep <= visibility

RECURSIVE Inspected(_, _, _, _)
\* Inspection::field: a field shows no more than its schema and is predicted no further
\* than where the schema is used.
InspectedField(t, f, prediction, limits, depth) ==
  /\ f.visibility <= t.rep /\ f.prediction <= prediction
  /\ f.prediction = Private => t.rep # Public
  /\ Inspected(f.type, f, limits, depth + 1)
\* Inspection::schema.
InspectedRecord(t, field, limits, depth) ==
  /\ depth <= limits.nesting /\ t.id # 0 /\ t.version # 0
  /\ Disclosed(t, field.visibility)
  /\ t.fields # <<>> /\ Len(t.fields) <= limits.fields
  /\ \A i, j \in DOMAIN t.fields : t.fields[i].id # 0 /\ (t.fields[i].id = t.fields[j].id => i = j)
  /\ Fits(MaxCost(t, depth), limits) /\ MaxSize(t) + 2 <= limits.wire
  /\ \A i \in DOMAIN t.fields : InspectedField(t, t.fields[i], field.prediction, limits, depth)
  /\ InRange(t, NoRange, t.defaults)
InspectedVariants(t, field, limits, depth) ==
  /\ field.range = NoRange /\ 0 \notin DOMAIN t.of /\ t.of # <<>>
  /\ \A id \in DOMAIN t.of : Inspected(t.of[id], field, limits, depth + 1)
\* inspect of a field's type.
Inspected(t, field, limits, depth) ==
  CASE t.k = "rec" -> field.range = NoRange /\ InspectedRecord(t, field, limits, depth)
    [] t.k \in {"int", "float"} -> field.range # NoRange /\ field.range[1] <= field.range[2]
    [] t.k = "text" -> field.range = NoRange /\ t.n <= limits.text
    [] t.k \in {"bytes", "unit"} -> field.range = NoRange
    [] t.k = "enum" -> InspectedVariants(t, field, limits, depth)
    [] t.k = "opt" -> Inspected(t.of, field, limits, depth + 1)
    [] t.k \in {"arr", "vec"} -> t.n <= limits.collection /\ Inspected(t.of, field, limits, depth + 1)

Replayed(t) == \E s \in Nested(t) : \E i \in DOMAIN s.fields : s.fields[i].prediction = Private

RootField == [range |-> NoRange, visibility |-> Private, prediction |-> Private]

Unambiguous(identities) ==
  \A a, b \in identities : a.schema = b.schema => a = b

\* SchemaRegistry::register; restore: the hooks can restore.
Register(p, c, restore) ==
  LET t     == Declared(c)
      known == registry[p].entries \cup {Identity(s) : s \in Nested(t)}
  IN /\ wire = NoExchange
     /\ \A r \in registry[p].roots : Declared(r).id # t.id
     /\ Inspected(t, RootField, Limits[p], 0)
     /\ Replayed(t) => restore
     /\ Unambiguous(known)
     /\ Cardinality(known) <= Limits[p].schemas
     /\ registry' = [registry EXCEPT ![p] = [entries |-> known, roots |-> @.roots \cup {c}]]
     /\ UNCHANGED wire

-----------------------------------------------------------------------------
(* The codecs of a registered schema.                                       *)

Encodable(t, v, limits) ==
  InRange(t, NoRange, v) /\ Fits(Cost(t, v, 0), limits) /\ SizeOfValue(t, v) <= limits.wire

\* SchemaCodec::encode: magic and fingerprint, then the record.
Encoded(t, v, limits) ==
  IF Encodable(t, v, limits) /\ SizeOfValue(t, v) + 2 <= limits.wire
  THEN {[identity |-> Feed(t), body |-> Write(t, v)]} ELSE {}

Decoded(t, message, limits) ==
  IF message.identity # Feed(t) \/ Len(message.body) + 2 > limits.wire THEN {}
  ELSE {v \in Read(t, message.body) : Encodable(t, v, limits)}

EncodedCompact(t, v, limits) ==
  IF Encodable(t, v, limits) THEN {WriteCompact(t, v)} ELSE {}

DecodedCompact(t, body, limits) ==
  IF Len(body) > limits.wire THEN {}
  ELSE {v \in {x[1] : x \in {x \in ReadCompact(t, body) : x[2] = <<>>}} : Encodable(t, v, limits)}

\* require_exact_match: compact bodies are only exchanged by peers that agree.
Matched == registry["client"].entries = registry["server"].entries

\* A value of root c of one peer reaches the other, which has registered d.  An exchange
\* leaves nothing behind, so one for each pair of registries is enough.
Exchange(p, q, c, d, v, compact) ==
  /\ wire = NoExchange
  /\ p # q /\ Declared(c).id = Declared(d).id
  /\ compact => Matched
  /\ LET t == Declared(c)
         u == Declared(d)
         sent == IF compact THEN EncodedCompact(t, v, Limits[p]) ELSE Encoded(t, v, Limits[p])
         got  == UNION {IF compact THEN DecodedCompact(u, m, Limits[q]) ELSE Decoded(u, m, Limits[q]) : m \in sent}
     IN wire' = [sender |-> p, type |-> c, as |-> d, value |-> v, compact |-> compact,
                 size |-> {IF compact THEN Len(m) ELSE Len(m.body) : m \in sent},
                 got |-> {Write(u, w) : w \in got}]
  /\ UNCHANGED registry

CodecInit ==
  /\ registry = [p \in Programs |-> [entries |-> {}, roots |-> {}]]
  /\ wire = NoExchange

CodecNext ==
  \/ \E p \in Programs, c \in Candidates, restore \in BOOLEAN : Register(p, c, restore)
  \/ \E p, q \in Programs, compact \in BOOLEAN :
       \E c \in registry[p].roots, d \in registry[q].roots :
         \E v \in Samples(Declared(c)) : Exchange(p, q, c, d, v, compact)

CodecSpec == CodecInit /\ [][CodecNext]_codecVars

-----------------------------------------------------------------------------
\* Registration is enough: every value within its declared ranges can be encoded under
\* the limits it was registered with, the encoding is no longer than the declaration's
\* maximum, and a peer that registered the same identity, under limits of its own, reads
\* exactly that value from it, whichever codec is used and however the fields were
\* declared; under another identity it reads nothing (SchemaRegistry::register,
\* SchemaCodec::encode, decode and the compact pair).
ExchangeExact ==
  wire # NoExchange =>
    LET t == Declared(wire.type)
        same == Identity(t) = Identity(Declared(wire.as))
    IN /\ (wire.size # {}) <=> InRange(t, NoRange, wire.value)
       /\ \A n \in wire.size : n <= SizeOfValue(t, wire.value) /\ n <= MaxSize(t)
       /\ wire.got = IF same /\ wire.size # {} THEN {Write(t, wire.value)} ELSE {}

\* Every field a registered schema carries, at any depth and through any collection,
\* may be seen by whoever sees its representation, and a field that is replayed is
\* never part of a public one (Inspection::schema and ::field).
NothingSmuggled ==
  \A p \in Programs : \A c \in registry[p].roots : \A s \in Nested(Declared(c)) :
    \A i \in DOMAIN s.fields :
      /\ s.fields[i].visibility <= Declared(c).rep
      /\ Declared(c).rep = Public => s.fields[i].prediction # Private
=============================================================================
