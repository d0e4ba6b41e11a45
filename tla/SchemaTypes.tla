------------------------------ MODULE SchemaTypes -----------------------------
(***************************************************************************)
(* Which protobuf types the translator chooses for a Zod schema            *)
(* (packages/schema_ir/src/translate/trpc_schema.ts).  FieldNumbers is     *)
(* what numbers the fields get and how generations follow each other; here *)
(* fields have no numbers and there is one generation.                     *)
(*                                                                         *)
(* A Zod schema is a record: [zod |-> k] for a scalar k ("int32", "uint32" *)
(* and "safeint" are numbers of that format), with `of' for what is inside *)
(* a wrapper or a collection, and shape, options, items or values where it *)
(* has them.  name is its protoMessageName, protoEnumName or               *)
(* protoUseKnownType (all of them valid), "" without.  Recursive schemas   *)
(* (z.lazy) are those of FieldNumbers.                                     *)
(*                                                                         *)
(* A schema has no identity here: two of one shape are two objects.  The   *)
(* translator knows an object it has met before (#seenMessages and         *)
(* #seenEnums), so one that is used twice without a name of its own keeps  *)
(* the name of its first place; that is left out.                          *)
(***************************************************************************)
EXTENDS Integers, Sequences, SequencesExt

-----------------------------------------------------------------------------
(* Names: the spellings of the keys the schemas here use *)

toSnakeCase(key) == IF key = "userId" THEN "user_id" ELSE key
toCamel(name) == IF name = "user_id" THEN "userId" ELSE name

Pascal == [userId |-> "UserId", user_id |-> "UserId", item |-> "Item", list |-> "List",
           listAll |-> "ListAll", all |-> "All", get |-> "Get", value |-> "Value",
           left |-> "Left", right |-> "Right", user |-> "User",
           userService |-> "UserService", app |-> "App"]

toPascalCase(name) == IF name \in DOMAIN Pascal THEN Pascal[name] ELSE name

-----------------------------------------------------------------------------
(* Protobuf types *)

ScalarType(t)    == [kind |-> "scalar", type |-> t]
EnumType(n)      == [kind |-> "enum", name |-> n]
MessageType(n)   == [kind |-> "message", name |-> n]
MapType(k, v)    == [kind |-> "map", key |-> k, value |-> v]
NoType           == [kind |-> "none"]

EmptyMessage     == "google.protobuf.Empty"
TimestampMessage == "google.protobuf.Timestamp"
ValueMessage     == "google.protobuf.Value"
StructMessage    == "google.protobuf.Struct"
DurationMessage  == "google.protobuf.Duration"
WellKnown == {EmptyMessage, TimestampMessage, ValueMessage, StructMessage, DurationMessage}

-----------------------------------------------------------------------------
(* Leaves *)

NoSchema == [zod |-> "none"]        \* a procedure without .input() or .output()

Wrappers == {"optional", "nullable", "default", "readonly"}

RECURSIVE unwrap(_)
unwrap(z) == IF z.zod \in Wrappers THEN unwrap(z.of) ELSE z

isEmptyType(z) == z.zod \in {"void", "undefined", "never", "null"}

mapScalar(z) ==
  CASE z.zod = "string"                         -> ScalarType("string")
    [] z.zod \in {"any", "unknown"}             -> MessageType(ValueMessage)
    [] z.zod = "boolean"                        -> ScalarType("bool")
    [] z.zod = "bigint"                         -> ScalarType("int64")
    [] z.zod \in {"int32", "safeint", "uint32"} -> ScalarType("int32")
    [] z.zod \in {"number", "nan"}              -> ScalarType("double")
    [] z.zod = "date"                           -> MessageType(TimestampMessage)
    [] z.zod = "file"                           -> ScalarType("bytes")
    [] OTHER                                    -> NoType

\* Literals are JavaScript values (see ValueCodec); half counts halves.
IsWhole(v) == v.js = "number" /\ v.half % 2 = 0

\* The type of a literal, or none where it throws: literals of two types, or
\* whole numbers mixed with others.
mapLiteral(z) ==
  LET kinds == {v.js : v \in Range(z.values)}
  IN CASE kinds = {"boolean"} -> ScalarType("bool")
       [] kinds = {"bigint"}  -> ScalarType("int64")
       [] kinds = {"number"} /\ (\A v \in Range(z.values) : IsWhole(v)) -> ScalarType("int32")
       [] kinds = {"number"} /\ (\A v \in Range(z.values) : ~IsWhole(v)) -> ScalarType("double")
       [] kinds = {"string"} \/ kinds = {"null"} -> ScalarType("string")
       [] OTHER -> NoType

\* The key of a map, or none where it throws; any scalar that protobuf would not
\* take for a key becomes a string.
mapKeyScalar(z) ==
  LET mapped == mapScalar(unwrap(z))
  IN IF mapped.kind # "scalar" THEN "none"
     ELSE IF mapped.type \in {"string", "int32", "int64", "bool"} THEN mapped.type
     ELSE "string"

-----------------------------------------------------------------------------
(* The translator: t is what it has built, n the messages nested in the one *)
(* that is being converted.                                                 *)

Nothing == [messages |-> <<>>, enums |-> <<>>, thrown |-> FALSE]

Throw(t) == [t EXCEPT !.thrown = TRUE]
Mapped(type, repeated, n, t) == [type |-> type, repeated |-> repeated, nested |-> n, t |-> t]
Unsupported(n, t) == Mapped(NoType, FALSE, n, Throw(t))

Named(things, name) == \E i \in DOMAIN things : things[i].name = name

\* String(value) of a literal; what it looks like does not matter.
Text(v) ==
  CASE v.js = "string"  -> v.s
    [] v.js = "number"  -> ToString(v.half)
    [] v.js = "boolean" -> ToString(v.b)
    [] OTHER            -> v.js

ProtoEnum(name, values) == [name |-> name, values |-> values]

\* The name a message or an enum gives itself, or that of its place.
Anonymous(z) == z.name \in WellKnown \cup {""}
nameOf(z, fallback) == IF Anonymous(z) THEN fallback ELSE z.name

\* A schema is declared to be of a well-known type.
UsesKnown(z) == "name" \in DOMAIN z /\ z.name \in WellKnown

\* An enum is made once per name, of the names of its values in their order.
convertEnum(z, fallback, t) ==
  LET name   == nameOf(z, fallback)
      values == IF z.zod = "enum" THEN z.values
                ELSE FlattenSeq([i \in DOMAIN z.options |->
                       LET literals == unwrap(z.options[i]).values
                       IN [j \in DOMAIN literals |-> Text(literals[j])]])
  IN [type |-> EnumType(name),
      t    |-> IF Named(t.enums, name) THEN t
               ELSE [t EXCEPT !.enums = Append(@, ProtoEnum(name, values))]]

\* The arm of a discriminated union without its discriminator.
omitShapeKey(z, key) == [z EXCEPT !.shape = SelectSeq(@, LAMBDA p : p.key # key)]

\* A tuple is translated as an object with the fields f0, f1, ...
TupleKeys == <<"f0", "f1">>
TupleShape(z) == [i \in DOMAIN z.items |-> [key |-> TupleKeys[i], of |-> z.items[i], oneof |-> ""]]

\* { ...left, ...right }: what right has wins, where left has put it.
Merged(left, right) ==
  LET own(p) == SelectSeq(right, LAMBDA q : q.key = p.key)
  IN [i \in DOMAIN left |-> IF own(left[i]) = <<>> THEN left[i] ELSE own(left[i])[1]]
     \o SelectSeq(right, LAMBDA q : \A i \in DOMAIN left : left[i].key # q.key)

RECURSIVE mapField(_, _, _, _, _), Fields(_, _, _), Arms(_, _)

Field(name, m, oneof, tag) ==
  [name |-> name, type |-> m.type, repeated |-> m.repeated, oneof |-> oneof, tag |-> tag]

\* A list or a map cannot be in a oneof.
AddField(acc, p, m) ==
  [fields |-> Append(acc.fields, Field(toSnakeCase(p.key), m, p.oneof, "")),
   nested |-> m.nested,
   t      |-> IF p.oneof # "" /\ (m.repeated \/ m.type.kind = "map") THEN Throw(m.t) ELSE m.t]

\* The fields of an object, each with the messages nested for it.
Fields(shape, messageName, t) ==
  FoldLeft(LAMBDA acc, p :
      AddField(acc, p, mapField(p.of, messageName, toSnakeCase(p.key), acc.nested, acc.t)),
    [fields |-> <<>>, nested |-> <<>>, t |-> t], shape)

Message(name, built, discriminator) ==
  [name |-> name, fields |-> built.fields, subMessages |-> built.nested,
   discriminator |-> discriminator]

\* A message of a name of its own is made once.
Hoist(name, built, discriminator) ==
  IF Named(built.t.messages, name) THEN built.t
  ELSE [built.t EXCEPT !.messages = Append(@, Message(name, built, discriminator))]

\* An object or a union on the way to its message: hoisted under its own name, or
\* nested under that of its field.
Place(z, name, built, n, t, discriminator) ==
  IF ~Anonymous(z)
  THEN Mapped(MessageType(z.name), FALSE, n,
              IF Named(t.messages, z.name) THEN t ELSE Hoist(z.name, built, discriminator))
  ELSE Mapped(MessageType(name), FALSE, Append(n, Message(name, built, discriminator)), built.t)

\* stringLiteral.
IsTag(z) == z.zod = "literal" /\ Len(z.values) = 1 /\ z.values[1].js = "string"

\* The literals an arm has for the discriminator.
Literals(arm, discriminator) ==
  {unwrap(p.of) : p \in {q \in Range(arm.shape) : q.key = discriminator}}

AddArm(acc, discriminator, tag, name, built) ==
  [fields |-> Append(acc.fields, Field(toSnakeCase(tag),
                       Mapped(MessageType(name), FALSE, <<>>, built.t),
                       toSnakeCase(discriminator), tag)),
   nested |-> Append(acc.nested, Message(name, built, "")),
   t      |-> IF Named(acc.nested, name) THEN Throw(built.t) ELSE built.t]

\* The arms of a discriminated union: objects, each with a tag of its own.
Arms(z, t) ==
  FoldLeft(LAMBDA acc, option :
      LET arm  == unwrap(option)
          tags == {l.values[1].s : l \in {x \in Literals(arm, z.discriminator) : IsTag(x)}}
          tag  == CHOOSE x \in tags : TRUE
      IN IF arm.zod # "object" \/ tags = {} THEN [acc EXCEPT !.t = Throw(@)]
         ELSE AddArm(acc, z.discriminator, tag, toPascalCase(tag),
                Fields(omitShapeKey(arm, z.discriminator).shape, toPascalCase(tag), acc.t)),
    [fields |-> <<>>, nested |-> <<>>, t |-> t], z.options)

\* The type of a property, and what it adds to the messages and enums.  A set of
\* Zod 4 has no element where one is looked for: the set itself is mapped, again
\* and again, until the stack is full.
mapField(zod, parent, field, n, t) ==
  LET z    == unwrap(zod)
      name == toPascalCase(field)
      own  == nameOf(z, name)
      enum == convertEnum(z, parent \o name, t)
      meaningful == SelectSeq(z.options, LAMBDA o : ~isEmptyType(unwrap(o)))
  IN CASE z.zod = "array" -> [mapField(z.of, parent, field, n, t) EXCEPT !.repeated = TRUE]
       [] z.zod = "set"   -> Unsupported(n, t)
       [] z.zod = "object" /\ UsesKnown(z) -> Mapped(MessageType(z.name), FALSE, n, t)
       [] z.zod = "object" -> Place(z, name, Fields(z.shape, own, t), n, t, "")
       [] z.zod = "enum"   -> Mapped(enum.type, FALSE, n, enum.t)
       [] z.zod \in {"record", "map"} ->
            IF unwrap(z.of).zod \in {"any", "unknown"}
            THEN Mapped(MessageType(StructMessage), FALSE, n, t)
            ELSE LET value == mapField(z.of, parent, field, n, t)
                     key   == mapKeyScalar(z.key)
                 IN IF key = "none" THEN Unsupported(n, t)
                    ELSE Mapped(MapType(key, value.type), FALSE, value.nested, value.t)
       [] z.zod = "tuple" ->
            Place([name |-> ""], name, Fields(TupleShape(z), name, t), n, t, "")
       [] z.zod = "intersection" ->
            IF z.left.zod = "object" /\ z.right.zod = "object"
            THEN Place(z, name, Fields(Merged(z.left.shape, z.right.shape), own, t), n, t, "")
            ELSE Unsupported(n, t)
       [] z.zod = "discriminatedUnion" ->
            Place(z, name, Arms(z, t), n, t, z.discriminator)
       [] z.zod = "union" ->
            IF Len(meaningful) = 1 THEN mapField(meaningful[1], parent, field, n, t)
            ELSE IF meaningful # <<>> /\ \A i \in DOMAIN meaningful :
                                           unwrap(meaningful[i]).zod = "literal"
            THEN Mapped(enum.type, FALSE, n, enum.t)
            ELSE Unsupported(n, t)
       [] z.zod = "literal" ->
            IF mapLiteral(z) = NoType THEN Unsupported(n, t) ELSE Mapped(mapLiteral(z), FALSE, n, t)
       [] OTHER ->
            IF mapScalar(z) = NoType THEN Unsupported(n, t) ELSE Mapped(mapScalar(z), FALSE, n, t)

-----------------------------------------------------------------------------
(* Inputs and outputs *)

\* A message with the one field `value'.  What is nested for it is dropped.
wrapScalar(name, z, t) ==
  IF Named(t.messages, name) THEN t
  ELSE LET m == mapField(z, name, "value", <<>>, t)
       IN Hoist(name, [fields |-> <<Field("value", m, "", "")>>, nested |-> <<>>, t |-> m.t], "")

\* The message of an input or output, and what is built by then.
rpcMessageType(zod, fallback, t) ==
  LET z    == unwrap(zod)
      name == nameOf(z, fallback)
      made(built, discriminator) ==
        [type |-> name, t |-> IF Named(t.messages, name) THEN t
                              ELSE Hoist(name, built, discriminator)]
  IN CASE zod = NoSchema \/ isEmptyType(z) -> [type |-> EmptyMessage, t |-> t]
       [] UsesKnown(z)       -> [type |-> z.name, t |-> t]
       [] z.zod = "object"   -> made(Fields(z.shape, name, t), "")
       [] z.zod = "discriminatedUnion" -> made(Arms(z, t), z.discriminator)
       [] mapScalar(z).kind = "message" -> [type |-> mapScalar(z).name, t |-> t]
       [] OTHER -> [type |-> fallback, t |-> wrapScalar(fallback, zod, t)]

-----------------------------------------------------------------------------
(* Procedures: a path is the sequence of its parts *)

\* The routers of a path, one after the other.
serviceName(path) ==
  IF Len(path) = 1 THEN "App"
  ELSE FoldLeft(LAMBDA name, part : name \o toPascalCase(part), "", Front(path))

methodName(path) == toPascalCase(Last(path))

\* The suffix Service, once.
protoServiceName(name) == IF name = "UserService" THEN name ELSE name \o "Service"

\* What a subscription yields is marked on its output (zAsyncIterable).
YieldSchema(p) ==
  IF p.type = "subscription" /\ p.output.zod = "asyncIterable" THEN p.output.of ELSE p.output

Method(p, request, response) ==
  [name |-> methodName(p.path), path |-> p.path, type |-> p.type,
   requestType |-> request, responseType |-> response]

\* A method goes to the service of its path, which is made for the first one.
AddMethod(services, service, method) ==
  IF Named(services, service)
  THEN [i \in DOMAIN services |->
          IF services[i].name = service THEN [services[i] EXCEPT !.methods = Append(@, method)]
          ELSE services[i]]
  ELSE Append(services, [name |-> service, methods |-> <<method>>])

Base(p) == serviceName(p.path) \o methodName(p.path)

AddReply(acc, p, request, reply) ==
  [t        |-> reply.t,
   services |-> AddMethod(acc.services, serviceName(p.path), Method(p, request.type, reply.type))]

AddRequest(acc, p, request) ==
  AddReply(acc, p, request, rpcMessageType(YieldSchema(p), Base(p) \o "Response", request.t))

\* All procedures in their order: first the input of each, then its output.
run(procedures) ==
  FoldLeft(LAMBDA acc, p : AddRequest(acc, p, rpcMessageType(p.input, Base(p) \o "Request", acc.t)),
    [t |-> Nothing, services |-> <<>>], procedures)

Schema(built) ==
  [messages |-> built.t.messages, enums |-> built.t.enums, thrown |-> built.t.thrown,
   services |-> [i \in DOMAIN built.services |->
                   [built.services[i] EXCEPT !.name = protoServiceName(@)]]]

\* The schema of a router's procedures.
translate(procedures) == Schema(run(procedures))
=============================================================================
