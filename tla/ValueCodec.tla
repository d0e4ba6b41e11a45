------------------------------ MODULE ValueCodec ------------------------------
(***************************************************************************)
(* A value on its way from one tRPC application to another through         *)
(* ProtoCodec (packages/runtime/src/proto_codec/proto_codec.ts): the       *)
(* router is checked and translated (SchemaTypes); the client looks up     *)
(* the method of a path, the server the procedure of a method; a request   *)
(* or a reply, which Zod has accepted, is encoded by the one and decoded   *)
(* by the other.                                                           *)
(*                                                                         *)
(* protobufjs is external: fromObject turns what toProtoObject has         *)
(* prepared into a message, toObject turns a decoded message into the      *)
(* object fromProtoObject reads.  Its bytes are not modelled.              *)
(*                                                                         *)
(* A JavaScript value is a record: js is its type, and numbers count       *)
(* halves, so that some of them are not whole.                             *)
(***************************************************************************)
EXTENDS SchemaTypes, Timestamp, FiniteSets

CONSTANTS
  Routers,      \* sequences of procedures: path, type, input and output schema
  Half          \* 2^31 for 32-bit integers

ASSUME ValueCodecAssumption == Half \in Nat \ {0}

VARIABLES
  procedures,   \* the router: its procedures in their order
  schema,       \* the schema generated of it, which both sides have
  call,         \* the path called, and which of its values is on its way
  rpc,          \* the method that path is sent to
  value,        \* the value the sender has
  encoded,      \* the message on the wire
  route,        \* the path of the procedure that method stands for at the server
  arrived       \* the value the receiver has

codec == <<procedures, schema, call, rpc, value, encoded, route, arrived>>

-----------------------------------------------------------------------------
(* JavaScript values *)

Undefined  == [js |-> "undefined"]
Null       == [js |-> "null"]
Thrown     == [js |-> "thrown"]
NotYet     == [js |-> "none"]
Num(h)     == [js |-> "number", half |-> h]
Bool(b)    == [js |-> "boolean", b |-> b]
Str(s)     == [js |-> "string", s |-> s]
Big(n)     == [js |-> "bigint", n |-> n]
Decimal(n) == [js |-> "decimal", n |-> n]       \* a bigint as a string
Date(ms)   == [js |-> "date", ms |-> ms]
Arr(items) == [js |-> "array", items |-> items]
SetOf(xs)  == [js |-> "set", items |-> xs]
Obj(props) == [js |-> "object", props |-> props]
MapOf(ps)  == [js |-> "map", props |-> ps]
Garbage    == [js |-> "garbage"]                \* "[object Object]" and the like

IsNil(v)    == v.js \in {"undefined", "null"}
IsObject(v) == v.js \in {"array", "set", "object", "map", "date", "timestamp", "file"}

\* v[key], and v[name] ?? v[toCamel(name)].
Prop(v, key) == IF v.js = "object" /\ key \in DOMAIN v.props THEN v.props[key] ELSE Undefined
PropOf(v, name) ==
  IF IsNil(Prop(v, name)) THEN Prop(v, toCamel(name)) ELSE Prop(v, name)

\* The object with the properties of f that are there.
Present(f) == [k \in {x \in DOMAIN f : f[x] # Undefined} |-> f[k]]

(* What Zod accepts, with the values that matter of each scalar *)

RECURSIVE Accepted(_)

\* The objects of a shape; a key whose value is undefined is not there.
Objects(shape) ==
  LET keys == {shape[i].key : i \in DOMAIN shape}
      of(k) == SelectSeq(shape, LAMBDA p : p.key = k)[1].of
      all  == UNION {Accepted(shape[i].of) : i \in DOMAIN shape}
  IN {Obj(Present(f)) : f \in {g \in [keys -> all] : \A k \in keys : g[k] \in Accepted(of(k))}}

Lists(S) == {<<>>} \cup {<<a>> : a \in S} \cup {<<a, b>> : a, b \in S}

Accepted(z) ==
  CASE z.zod = "optional" -> Accepted(z.of) \cup {Undefined}
    [] z.zod = "nullable" -> Accepted(z.of) \cup {Null}
    [] z.zod \in {"default", "readonly"} -> Accepted(z.of)
    [] z.zod = "string"   -> {Str("a"), Str("")}
    [] z.zod = "boolean"  -> {Bool(TRUE), Bool(FALSE)}
    [] z.zod = "bigint"   -> {Big(0), Big(-5)}
    [] z.zod = "int32"    -> {Num(0), Num(-2 * Half), Num(2 * (Half - 1))}
    [] z.zod \in {"safeint", "uint32"} -> {Num(0), Num(2 * (Half - 1)), Num(2 * Half)}
    [] z.zod = "number"   -> {Num(0), Num(3), Num(2 * Half)}
    [] z.zod = "date"     -> {Date(ms) : ms \in Dates}
    [] z.zod = "file"     -> {[js |-> "file"]}
    [] z.zod = "any"      -> {Str("a")}
    [] z.zod \in {"void", "undefined"} -> {Undefined}
    [] z.zod = "none"     -> {Str("a")}                 \* anything
    [] z.zod = "null"     -> {Null}
    [] z.zod = "literal"  -> Range(z.values)
    [] z.zod = "enum"     -> {Str(z.values[i]) : i \in DOMAIN z.values}
    [] z.zod = "array"    -> {Arr(xs) : xs \in Lists(Accepted(z.of))}
    [] z.zod = "set"      -> {SetOf(xs) : xs \in {ys \in Lists(Accepted(z.of)) : IsInjective(ys)}}
    [] z.zod = "record"   -> {Obj(<<>>)} \cup {Obj(k :> v) : k \in {"a", "b"}, v \in Accepted(z.of)}
    [] z.zod = "map"      -> {MapOf(<<>>)} \cup {MapOf("a" :> v) : v \in Accepted(z.of)}
    [] z.zod = "object"   -> Objects(z.shape)
    [] z.zod = "intersection" -> Objects(Merged(z.left.shape, z.right.shape))
    [] z.zod = "tuple"    -> {Arr(xs) : xs \in {ys \in Lists(UNION {Accepted(o) : o \in Range(z.items)}) :
                                Len(ys) = Len(z.items) /\ \A i \in DOMAIN ys : ys[i] \in Accepted(z.items[i])}}
    [] OTHER              -> UNION {Accepted(o) : o \in Range(z.options)}

-----------------------------------------------------------------------------
(* Finding a message: the codec's way, and protobuf's *)

RECURSIVE Preorder(_)
Preorder(messages) ==
  FlattenSeq([i \in DOMAIN messages |-> <<messages[i]>> \o Preorder(messages[i].subMessages)])

WithName(messages, name) == SelectSeq(messages, LAMBDA m : m.name = name)

\* findMessage: the first of that name, depth first; none is <<>>.
findMessage(messages, name) == WithName(Preorder(messages), name)

\* [mutant] the scope is not looked at
resolveMessageUnscoped(s, name, scope) == findMessage(s.messages, name)

\* resolveMessage: the scope itself, what is nested in it, all there is.
resolveMessage(s, name, scope) ==
  IF scope # <<>> /\ scope[1].name = name THEN scope
  ELSE IF scope # <<>> /\ findMessage(scope[1].subMessages, name) # <<>>
  THEN findMessage(scope[1].subMessages, name)
  ELSE findMessage(s.messages, name)

\* protobufjs: outwards from the innermost enclosing message, and on each level
\* what it declares itself before what is declared further inside.
LookupAt(messages, name) == WithName(messages, name) \o findMessage(messages, name)

RECURSIVE Lookup(_, _, _)
Lookup(s, name, path) ==
  IF path = <<>> THEN LookupAt(s.messages, name)
  ELSE IF LookupAt(path[1].subMessages, name) # <<>> THEN LookupAt(path[1].subMessages, name)
  ELSE Lookup(s, name, Tail(path))

-----------------------------------------------------------------------------
(* buildRoot *)

DistinctNames(things) ==
  \A i, j \in DOMAIN things : things[i].name = things[j].name => i = j

\* addWellKnown: protobufjs is told of these.
KnownToRoot == {EmptyMessage, TimestampMessage, DurationMessage}

RECURSIVE Resolves(_, _, _)
Resolves(s, type, path) ==
  CASE type.kind = "scalar"  -> TRUE
    [] type.kind = "enum"    -> Named(s.enums, type.name)
    [] type.kind = "map"     -> type.value.kind # "map" /\ Resolves(s, type.value, path)
    [] type.name \in WellKnown -> type.name \in KnownToRoot
    [] OTHER                 -> Lookup(s, type.name, path) # <<>>

RECURSIVE Defined(_, _, _)
Defined(s, messages, path) ==
  /\ DistinctNames(messages)
  /\ \A i \in DOMAIN messages :
       LET m == messages[i]
       IN /\ DistinctNames(m.fields)
          /\ \A j \in DOMAIN m.fields : Resolves(s, m.fields[j].type, <<m>> \o path)
          /\ Defined(s, m.subMessages, <<m>> \o path)

\* The reflected root exists: no name twice in its place, no type without a
\* definition.  Otherwise the constructor of ProtoCodec throws.
buildRoot(s) ==
  /\ Defined(s, s.messages, <<>>)
  /\ DistinctNames(s.enums \o s.messages \o s.services)
  /\ \A i \in DOMAIN s.services :
       /\ DistinctNames(s.services[i].methods)
       /\ \A m \in Range(s.services[i].methods) :
            {m.requestType, m.responseType} \cap WellKnown \subseteq KnownToRoot

\* The message of an input or output.
lookupType(s, name) == Lookup(s, name, <<>>)[1]

\* A method of that name in a service of that name; none is <<>>.
lookupRootMethod(s, service, method) ==
  LET found == SelectSeq(s.services, LAMBDA x : x.name = service)
  IN IF found = <<>> THEN <<>> ELSE SelectSeq(found[1].methods, LAMBDA m : m.name = method)

\* The service and method a client sends a path to; none is <<>>.
lookupRootRpc(s, path) ==
  LET service == protoServiceName(serviceName(path))
      found   == lookupRootMethod(s, service, methodName(path))
  IN IF found = <<>> THEN <<>> ELSE <<[service |-> service, method |-> found[1]]>>

\* The server's route of a service and method, whose names are the gRPC path; the
\* last one that is set.
grpcWebRoutes(s, service, method) ==
  Last(SelectSeq(FlattenSeq([i \in DOMAIN s.services |->
                   IF s.services[i].name = service THEN s.services[i].methods ELSE <<>>]),
                 LAMBDA m : m.name = method))

-----------------------------------------------------------------------------
(* Encoding *)

isWrapper(m) == Len(m.fields) = 1 /\ m.fields[1].name = "value"

RECURSIVE toProtoValue(_, _, _, _), toProtoObject(_, _, _, _)

toProtoValue(s, type, v, scope) ==
  CASE IsNil(v) -> v
    [] type.kind = "scalar" -> IF type.type = "int64" /\ v.js = "bigint" THEN Decimal(v.n) ELSE v
    [] type.kind = "message" -> toProtoObject(s, type.name, v, scope)
    [] type.kind = "map" /\ v.js = "object" ->
         Obj([k \in DOMAIN v.props |-> toProtoValue(s, type.value, v.props[k], scope)])
    [] type.kind = "map" /\ IsObject(v) -> Obj(<<>>)      \* no entries of its own
    [] OTHER -> v

\* The arm of a discriminated union its discriminator selects.
ArmOf(m, v) ==
  SelectSeq(m.fields, LAMBDA f :
    Prop(v, m.discriminator) \in {Str(f.tag), Str(f.name), Str(toCamel(f.name))})

toProtoObject(s, name, v, scope) ==
  LET found == resolveMessage(s, name, scope)
      m     == found[1]
      p     == IF isWrapper(m) /\ (~IsObject(v) \/ v.js \in {"array", "date"})
               THEN Obj([k \in {"value"} |-> v]) ELSE v
      arm   == ArmOf(m, p)
      field(f) ==
        LET raw == PropOf(p, f.name)
        IN IF f.repeated /\ raw.js = "array"
           THEN Arr([i \in DOMAIN raw.items |-> toProtoValue(s, f.type, raw.items[i], found)])
           ELSE toProtoValue(s, f.type, raw, found)
  IN CASE name = EmptyMessage     -> Obj(<<>>)
       [] name = TimestampMessage ->
            IF v.js = "date" THEN [js |-> "timestamp", at |-> dateToTimestamp(v.ms)] ELSE v
       [] found = <<>>            -> v
       [] ~IsObject(p)            -> p
       [] m.discriminator # ""    ->
            IF arm = <<>> THEN Obj(<<>>)
            ELSE Obj([k \in {arm[1].name} |->
                   toProtoObject(s, arm[1].type.name,
                     Obj([x \in DOMAIN p.props \ {m.discriminator} |-> p.props[x]]), found)])
       [] OTHER ->
            Obj(Present([k \in {m.fields[i].name : i \in DOMAIN m.fields} |->
                           field(SelectSeq(m.fields, LAMBDA f : f.name = k)[1])]))

-----------------------------------------------------------------------------
(* protobufjs: objects to messages and back *)

Int32(n) == ((n + Half) % (2 * Half)) - Half

\* fromObject of a scalar: | 0, Number, String, Boolean.
Coerced(t, v) ==
  CASE t = "string" -> IF v.js = "string" THEN v ELSE IF v = Null THEN Str("null") ELSE Garbage
    [] t = "bool"   -> IF v.js = "boolean" THEN v ELSE Bool(v # Null)
    [] t = "int64"  -> IF v.js = "decimal" THEN v ELSE Garbage
    [] t = "bytes"  -> Garbage
    [] t = "int32"  -> IF v.js = "number" THEN Num(2 * Int32(v.half \div 2)) ELSE Num(0)
    [] t = "double" -> IF v.js = "number" THEN v ELSE IF v = Null THEN Num(0) ELSE Garbage

RECURSIVE fromObject(_, _, _, _)

\* A single value of a field.
FromObjectValue(s, type, v, path) ==
  CASE type.kind = "scalar" -> Coerced(type.type, v)
    [] type.kind = "enum" ->
         LET values == SelectSeq(s.enums, LAMBDA e : e.name = type.name)[1].values
             at     == {i \in DOMAIN values : Str(values[i]) = v}
         IN IF v.js = "number" THEN v
            ELSE IF at = {} THEN Undefined ELSE Num(2 * ((CHOOSE i \in at : TRUE) - 1))
    [] type.kind = "message" ->
         IF ~IsObject(v) THEN Thrown
         ELSE IF type.name \in WellKnown THEN v
         ELSE fromObject(s, Lookup(s, type.name, path)[1], v, path)
    [] OTHER -> Thrown

fromObject(s, m, v, outer) ==
  LET path == <<m>> \o outer
      field(f) ==
        LET raw == Prop(v, f.name)
        IN CASE IsNil(raw) -> Undefined
             [] f.repeated ->
                  IF raw.js # "array" THEN Thrown
                  ELSE LET xs == [i \in DOMAIN raw.items |->
                                    FromObjectValue(s, f.type, raw.items[i], path)]
                       IN IF Thrown \in Range(xs) THEN Thrown ELSE Arr(xs)
             [] ~f.repeated /\ f.type.kind = "map" ->
                  IF raw.js # "object" THEN Thrown
                  ELSE LET ps == [k \in DOMAIN raw.props |->
                                    FromObjectValue(s, f.type.value, raw.props[k], path)]
                       IN IF \E k \in DOMAIN ps : ps[k] = Thrown THEN Thrown ELSE Obj(ps)
             [] f.type.kind = "scalar" /\ f.type.type = "bytes" -> Undefined    \* a File
             [] OTHER -> FromObjectValue(s, f.type, raw, path)
      props == Present([k \in {m.fields[i].name : i \in DOMAIN m.fields} |->
                          field(SelectSeq(m.fields, LAMBDA f : f.name = k)[1])])
  IN IF v.js = "timestamp" THEN v
     ELSE IF \E k \in DOMAIN props : props[k] = Thrown THEN Thrown
     ELSE Obj(props)

RECURSIVE toObject(_, _, _, _)

ToObjectValue(s, type, v, path) ==
  CASE type.kind = "enum" ->
         LET values == SelectSeq(s.enums, LAMBDA e : e.name = type.name)[1].values
         IN IF \E i \in DOMAIN values : v = Num(2 * (i - 1))
            THEN Str(values[(v.half \div 2) + 1]) ELSE v
    [] type.kind = "message" /\ type.name \notin WellKnown ->
         toObject(s, Lookup(s, type.name, path)[1], v, path)
    [] OTHER -> v

\* With arrays and objects: an absent collection is an empty one.
toObject(s, m, v, outer) ==
  LET path == <<m>> \o outer
      field(f) ==
        LET raw == Prop(v, f.name)
        IN CASE f.repeated ->
                  Arr([i \in (IF raw = Undefined THEN {} ELSE DOMAIN raw.items) |->
                         ToObjectValue(s, f.type, raw.items[i], path)])
             [] ~f.repeated /\ f.type.kind = "map" ->
                  Obj([k \in (IF raw = Undefined THEN {} ELSE DOMAIN raw.props) |->
                         ToObjectValue(s, f.type.value, raw.props[k], path)])
             [] OTHER -> IF raw = Undefined THEN raw ELSE ToObjectValue(s, f.type, raw, path)
  IN Obj(Present([k \in {m.fields[i].name : i \in DOMAIN m.fields} |->
                    field(SelectSeq(m.fields, LAMBDA f : f.name = k)[1])]))

-----------------------------------------------------------------------------
(* Decoding *)

RECURSIVE fromProtoValue(_, _, _, _), fromProtoObject(_, _, _, _)

fromProtoValue(s, type, v, scope) ==
  CASE IsNil(v) -> v
    [] type.kind = "scalar" -> IF type.type = "int64" /\ v.js = "decimal" THEN Big(v.n) ELSE v
    [] type.kind = "message" -> fromProtoObject(s, type.name, v, scope)
    [] type.kind = "map" /\ v.js = "object" ->
         Obj([k \in DOMAIN v.props |-> fromProtoValue(s, type.value, v.props[k], scope)])
    [] OTHER -> v

fromProtoObject(s, name, v, scope) ==
  LET found == resolveMessage(s, name, scope)
      m     == found[1]
      arms  == SelectSeq(m.fields, LAMBDA f : ~IsNil(PropOf(v, f.name)))
      rest  == fromProtoValue(s, arms[1].type, PropOf(v, arms[1].name), found)
      field(f) ==
        LET raw == PropOf(v, f.name)
        IN IF f.repeated /\ raw.js = "array"
           THEN Arr([i \in DOMAIN raw.items |-> fromProtoValue(s, f.type, raw.items[i], found)])
           ELSE fromProtoValue(s, f.type, raw, found)
      out == Present([k \in {toCamel(m.fields[i].name) : i \in DOMAIN m.fields} |->
                        field(SelectSeq(m.fields, LAMBDA f : toCamel(f.name) = k)[1])])
  IN CASE name = EmptyMessage     -> Obj(<<>>)
       [] name = TimestampMessage ->
            IF v.js = "timestamp" THEN Date(timestampToDate(v.at)) ELSE Date(0)
       [] found = <<>> \/ ~IsObject(v) -> v
       [] m.discriminator # ""    ->
            IF arms = <<>> THEN Obj(<<>>)
            ELSE Obj((IF rest.js = "object" THEN rest.props ELSE <<>>)
                     @@ (m.discriminator :> Str(arms[1].tag)))
       [] isWrapper(m) -> IF "value" \in DOMAIN out THEN out["value"] ELSE Undefined
       [] OTHER -> Obj(out)

-----------------------------------------------------------------------------
(* A round trip *)

\* encode: the type is looked up from the root, and a value that is nil is {}.
encode(s, name, v) ==
  LET prepared == toProtoObject(s, name, v, <<>>)
      given    == IF IsNil(prepared) THEN Obj(<<>>) ELSE prepared
  IN IF name \in WellKnown THEN given
     ELSE IF ~IsObject(given) THEN Thrown
     ELSE fromObject(s, lookupType(s, name), given, <<>>)

decode(s, name, w) ==
  fromProtoObject(s, name,
    IF name \in WellKnown THEN w ELSE toObject(s, lookupType(s, name), w, <<>>), <<>>)

InitCodec ==
  /\ procedures = <<>> /\ schema = translate(<<>>) /\ call = <<>> /\ rpc = <<>>
  /\ value = NotYet /\ encoded = NotYet /\ route = <<>> /\ arrived = NotYet

\* prevalidate: every procedure says what it returns.
prevalidate(ps) == \A i \in DOMAIN ps : ps[i].output # NoSchema

\* The schema is generated; both sides have it, and make their codecs of it.
Generate ==
  /\ procedures = <<>>
  /\ procedures' \in Routers
  /\ schema' = IF prevalidate(procedures') THEN translate(procedures') ELSE schema
  /\ UNCHANGED <<call, rpc, value, encoded, route, arrived>>

\* Neither the translator nor the constructor of ProtoCodec has thrown.
Usable == ~schema.thrown /\ schema.services # <<>> /\ buildRoot(schema)

ZodOf(p, side) == IF side = "request" THEN p.input ELSE YieldSchema(p)
TypeOf(method, side) == IF side = "request" THEN method.requestType ELSE method.responseType

\* One side of a call encodes its value: the client by the method it looks up, the
\* server by that of the procedure it has run.
Send ==
  /\ call = <<>> /\ Usable
  /\ \E i \in DOMAIN procedures, side \in {"request", "reply"} :
       LET p     == procedures[i]
           found == lookupRootRpc(schema, p.path)
       IN /\ call' = <<p.path, side>>
          /\ rpc' = found
          /\ value' \in Accepted(ZodOf(p, side))
          /\ encoded' = IF found = <<>> THEN Thrown
                        ELSE encode(schema, TypeOf(found[1].method, side), value')
  /\ UNCHANGED <<procedures, schema, route, arrived>>

\* The other side decodes it, by the types of the server's route.
Receive ==
  /\ encoded \notin {NotYet, Thrown} /\ arrived = NotYet
  /\ LET method == grpcWebRoutes(schema, rpc[1].service, rpc[1].method.name)
     IN /\ route' = method.path
        /\ arrived' = decode(schema, TypeOf(method, call[2]), encoded)
  /\ UNCHANGED <<procedures, schema, call, rpc, value, encoded>>

CodecNext == Generate \/ Send \/ Receive

-----------------------------------------------------------------------------
(* Properties *)

\* What protobuf can tell of a value: null and undefined are both absence, and an
\* absent collection is an empty one (proto_codec_test.ts).
RECURSIVE Expected(_, _)
Expected(zz, v) ==
  LET z == unwrap(zz)
      props(shape) ==
        Obj(Present([k \in {shape[i].key : i \in DOMAIN shape} |->
          Expected(SelectSeq(shape, LAMBDA p : p.key = k)[1].of, Prop(v, k))]))
      arm == CHOOSE o \in Range(z.options) : v \in Accepted(o)
  IN CASE isEmptyType(z)                -> Obj(<<>>)
       [] z.zod = "array" /\ IsNil(v)   -> Arr(<<>>)
       [] z.zod = "record" /\ IsNil(v)  -> Obj(<<>>)
       [] IsNil(v)                       -> Undefined
       [] z.zod = "array"                -> Arr([i \in DOMAIN v.items |-> Expected(z.of, v.items[i])])
       [] z.zod = "record"               -> Obj([k \in DOMAIN v.props |-> Expected(z.of, v.props[k])])
       [] z.zod = "object"               -> props(z.shape)
       [] z.zod = "intersection"         -> props(Merged(z.left.shape, z.right.shape))
       [] z.zod \in {"union", "discriminatedUnion"} -> Expected(arm, v)
       [] OTHER                          -> v

\* README.md, "Zod to protobuf": a router that passes the checks and whose schemas
\* the table maps is generated and served, every value its schemas accept is
\* encoded, and the value one side sends is the value the other side receives, at
\* the procedure of the path the call was made on.
ValuesSurvive ==
  /\ procedures # <<>> /\ prevalidate(procedures) => Usable
  /\ encoded # Thrown
  /\ arrived # NotYet =>
       /\ route = call[1]
       /\ \E i \in DOMAIN procedures :
            procedures[i].path = call[1] /\ arrived = Expected(ZodOf(procedures[i], call[2]), value)
=============================================================================
