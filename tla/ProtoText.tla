------------------------------- MODULE ProtoText ------------------------------
(***************************************************************************)
(* The .proto file of a generated schema, and the schema that is read back *)
(* from one (packages/schema_ir/src/ir/text.ts).                           *)
(*                                                                         *)
(* The text is its declarations in their order.  A name is a string; only  *)
(* the names of enum values, which are put together from words, are        *)
(* sequences of words.  The text of a type forgets whether its name is     *)
(* that of a message or of an enum.  protobufjs, which parses the text,    *)
(* is external; comments other than those of methods are left out.         *)
(***************************************************************************)
EXTENDS SchemaTypes, FiniteSets

CONSTANTS
  Sources,      \* routers: sequences of procedures
  MaxNumber     \* bound on the numbers that earlier generations have used

ASSUME ProtoTextAssumption == MaxNumber \in Nat

VARIABLES
  generated,    \* the schema of the router
  text,         \* the text, "none" before
  parsed        \* the schema read back, "none" before

protoText == <<generated, text, parsed>>

-----------------------------------------------------------------------------
(* Writing *)

ScreamingWords == [Status |-> <<"STATUS">>, StatusKind |-> <<"STATUS", "KIND">>,
                   status_off |-> <<"STATUS", "OFF">>, status |-> <<"STATUS">>,
                   on |-> <<"ON">>, off |-> <<"OFF">>]

toScreamingSnake(name) ==
  IF name \in DOMAIN ScreamingWords THEN ScreamingWords[name] ELSE <<name>>

\* The name of the enum comes first, once.
protoEnumValue(enum, value) ==
  LET prefix == toScreamingSnake(enum)
      words  == toScreamingSnake(value)
  IN IF IsStrictPrefix(prefix, words) THEN words ELSE prefix \o words

\* reservedNumbers: what a generation so far has used, and no field has now.
reservedNumbers(m) == m.usedIds \ {m.fields[i].number : i \in DOMAIN m.fields}

\* [mutant] a range ends before its last number
formatReservedNumbersOpen(tags) ==
  FoldLeft(LAMBDA parts, n :
      IF parts # <<>> /\ n = Last(parts)[2] + 1 THEN parts ELSE Append(parts, <<n, n>>),
    <<>>, SetToSortSeq(tags, <))

\* Runs of neighbours become ranges.
formatReservedNumbers(tags) ==
  FoldLeft(LAMBDA parts, n :
      IF parts # <<>> /\ n = Last(parts)[2] + 1
      THEN Append(Front(parts), <<Last(parts)[1], n>>)
      ELSE Append(parts, <<n, n>>),
    <<>>, SetToSortSeq(tags, <))

\* A type in the text: a map's key, or "", and a name.
renderType(type) ==
  CASE type.kind = "scalar" -> [key |-> "", name |-> type.type]
    [] type.kind = "map"    ->
         [key |-> type.key,
          name |-> IF type.value.kind = "scalar" THEN type.value.type ELSE type.value.name]
    [] OTHER                -> [key |-> "", name |-> type.name]

\* A field outside a oneof is repeated or optional; in a oneof, and for a map, it
\* is neither.
Label(f) ==
  IF f.oneof # "" \/ f.type.kind = "map" THEN "" ELSE IF f.repeated THEN "repeated" ELSE "optional"

emitField(f) ==
  [label |-> Label(f), type |-> renderType(f.type), name |-> f.name, number |-> f.number]

RECURSIVE emitMessage(_)

\* Nested messages, the fields outside oneofs, each oneof, and what is reserved.
emitMessage(m) ==
  LET lines(oneof) == 
        LET own == SelectSeq(m.fields, LAMBDA f : f.oneof = oneof)
        IN [j \in DOMAIN own |-> emitField(own[j])]
      oneofs == FoldLeft(LAMBDA acc, f : IF f.oneof = "" \/ f.oneof \in Range(acc)
                                         THEN acc ELSE Append(acc, f.oneof), <<>>, m.fields)
  IN [name     |-> m.name,
      nested   |-> [j \in DOMAIN m.subMessages |-> emitMessage(m.subMessages[j])],
      fields   |-> lines(""),
      oneofs   |-> [j \in DOMAIN oneofs |-> [name |-> oneofs[j], fields |-> lines(oneofs[j])]],
      reserved |-> formatReservedNumbers(reservedNumbers(m))]

RECURSIVE collectTypeNames(_)
collectTypeNames(messages) ==
  UNION {{renderType(messages[i].fields[j].type).name : j \in DOMAIN messages[i].fields}
           \cup collectTypeNames(messages[i].subMessages) : i \in DOMAIN messages}

AllMethods(s) == FlattenSeq([i \in DOMAIN s.services |-> s.services[i].methods])

toString(s) ==
  [imports  |-> (collectTypeNames(s.messages)
                   \cup UNION {{m.requestType, m.responseType} : m \in Range(AllMethods(s))})
                  \cap WellKnown,
   enums    |-> [i \in DOMAIN s.enums |->
                   [name |-> toPascalCase(s.enums[i].name),
                    values |-> [j \in DOMAIN s.enums[i].values |->
                      [name |-> protoEnumValue(toPascalCase(s.enums[i].name), s.enums[i].values[j]),
                       number |-> j - 1]]]],
   messages |-> [i \in DOMAIN s.messages |-> emitMessage(s.messages[i])],
   services |-> [i \in DOMAIN s.services |->
                   [name |-> s.services[i].name,
                    methods |-> [j \in DOMAIN s.services[i].methods |->
                      LET m == s.services[i].methods[j]
                      IN [comment |-> <<m.type, m.path>>, name |-> m.name,
                          stream |-> m.type = "subscription",
                          requestType |-> m.requestType, responseType |-> m.responseType]]]]]

-----------------------------------------------------------------------------
(* Reading *)

Scalars == {"double", "int32", "int64", "bool", "string", "bytes"}

\* What kind of type a name is.
namedType(name, enumNames) ==
  IF name \in Scalars THEN ScalarType(name)
  ELSE IF name \in WellKnown THEN MessageType(name)
  ELSE IF name \in enumNames THEN EnumType(name)
  ELSE MessageType(name)

fromField(line, oneof, enumNames) ==
  [name |-> line.name, number |-> line.number, oneof |-> oneof,
   type |-> IF line.type.key = "" THEN namedType(line.type.name, enumNames)
            ELSE MapType(line.type.key, namedType(line.type.name, enumNames)),
   repeated |-> line.label = "repeated"]

RECURSIVE fromMessage(_, _)

\* The one oneof of a message is taken for the discriminator of a union.
fromMessage(block, enumNames) ==
  LET read(lines, oneof) == [i \in DOMAIN lines |-> fromField(lines[i], oneof, enumNames)]
  IN [name |-> block.name,
      fields |-> read(block.fields, "")
                 \o FlattenSeq([i \in DOMAIN block.oneofs |->
                                  read(block.oneofs[i].fields, block.oneofs[i].name)]),
      subMessages |-> [i \in DOMAIN block.nested |-> fromMessage(block.nested[i], enumNames)],
      discriminator |-> IF Len(block.oneofs) = 1 THEN block.oneofs[1].name ELSE ""]

\* [mutant] the name is looked for as it is spelled in the text
fromEnumUnscreamed(block) ==
  LET short(words) == IF IsStrictPrefix(<<block.name>>, words) THEN Tail(words) ELSE words
  IN [name |-> block.name,
      values |-> [i \in DOMAIN block.values |->
                    [name |-> short(block.values[i].name), number |-> block.values[i].number]]]

\* The name of the enum is taken off its values.
fromEnum(block) ==
  LET prefix == toScreamingSnake(block.name)
      short(words) == IF IsStrictPrefix(prefix, words)
                      THEN SubSeq(words, Len(prefix) + 1, Len(words)) ELSE words
  IN [name |-> block.name,
      values |-> [i \in DOMAIN block.values |->
                    [name |-> short(block.values[i].name), number |-> block.values[i].number]]]

\* The kind and path of a procedure are in the comment of its method.
fromService(block) ==
  [name |-> block.name,
   methods |-> [i \in DOMAIN block.methods |->
     LET m == block.methods[i]
     IN [name |-> m.name, path |-> m.comment[2], type |-> m.comment[1],
         requestType |-> m.requestType, responseType |-> m.responseType,
         stream |-> m.stream]]]

collectEnumNames(file) == {file.enums[i].name : i \in DOMAIN file.enums}

fromString(file) ==
  LET enumNames == collectEnumNames(file)
  IN [messages |-> [i \in DOMAIN file.messages |-> fromMessage(file.messages[i], enumNames)],
      enums    |-> [i \in DOMAIN file.enums |-> fromEnum(file.enums[i])],
      services |-> [i \in DOMAIN file.services |-> fromService(file.services[i])]]

-----------------------------------------------------------------------------
(* The numbers: the i-th field has the i-th that is not taken by a field of an *)
(* earlier generation which is gone (FieldNumbers is how that comes about).    *)

FreeNumber(i, taken) ==
  CHOOSE n \in (1..(i + Cardinality(taken))) \ taken : Cardinality((1..n) \ taken) = i

RECURSIVE Numbered(_, _)
Numbered(m, taken) ==
  [name          |-> m.name,
   fields        |-> [i \in DOMAIN m.fields |->
                       [name |-> m.fields[i].name, number |-> FreeNumber(i, taken),
                        oneof |-> m.fields[i].oneof, type |-> m.fields[i].type,
                        repeated |-> m.fields[i].repeated]],
   subMessages   |-> [i \in DOMAIN m.subMessages |-> Numbered(m.subMessages[i], taken)],
   discriminator |-> m.discriminator,
   usedIds       |-> taken \cup {FreeNumber(i, taken) : i \in DOMAIN m.fields}]

Pending == [done |-> FALSE]
Done(x) == [done |-> TRUE, it |-> x]

InitText == generated = Pending /\ text = Pending /\ parsed = Pending

\* The router is translated; nothing comes of what has thrown.
TranslateRouter ==
  /\ ~generated.done
  /\ \E s \in {translate(ps) : ps \in Sources}, taken \in SUBSET (1..MaxNumber) :
       /\ ~s.thrown
       /\ generated' = Done([s EXCEPT !.messages = [i \in DOMAIN @ |-> Numbered(@[i], taken)]])
  /\ UNCHANGED <<text, parsed>>

WriteText ==
  /\ generated.done /\ ~text.done
  /\ text' = Done(toString(generated.it))
  /\ UNCHANGED <<generated, parsed>>

ReadText ==
  /\ text.done /\ ~parsed.done
  /\ parsed' = Done(fromString(text.it))
  /\ UNCHANGED <<generated, text>>

TextNext == TranslateRouter \/ WriteText \/ ReadText

-----------------------------------------------------------------------------
(* Properties *)

RECURSIVE Blocks(_)
Blocks(blocks) ==
  FlattenSeq([i \in DOMAIN blocks |-> <<blocks[i]>> \o Blocks(blocks[i].nested)])

Covered(ranges) == UNION {r[1]..r[2] : r \in Range(ranges)}

Lines(block) == block.fields \o FlattenSeq([i \in DOMAIN block.oneofs |-> block.oneofs[i].fields])

RECURSIVE AllMessages(_)
AllMessages(messages) ==
  FlattenSeq([i \in DOMAIN messages |-> <<messages[i]>> \o AllMessages(messages[i].subMessages)])

\* protoc takes the file: the values of all enums, which share one scope, have
\* names of their own, a message's numbers are used once and none of them is
\* reserved; and every number that was in use and no longer is, is reserved.
ValidText ==
  text.done =>
    LET values == FlattenSeq([i \in DOMAIN text.it.enums |-> text.it.enums[i].values])
        blocks == Blocks(text.it.messages)
    IN /\ \A i, j \in DOMAIN values : values[i].name = values[j].name => i = j
       /\ \A i \in DOMAIN blocks :
            LET numbers == {l.number : l \in Range(Lines(blocks[i]))}
                gone    == Covered(blocks[i].reserved)
            IN /\ Cardinality(numbers) = Len(Lines(blocks[i]))
               /\ gone \cap numbers = {}
               /\ gone \cup numbers = AllMessages(generated.it.messages)[i].usedIds

\* A message, but for the order of its fields and what tells a union apart.
RECURSIVE Shape(_)
Shape(m) == [name |-> m.name, fields |-> Range(m.fields),
             nested |-> {Shape(x) : x \in Range(m.subMessages)}]

\* A value of an enum as it comes back: its own words in capitals, without those
\* of the enum's name in front of them, and its place as its number.
OwnWords(enum, value) ==
  LET words == toScreamingSnake(value)
      own   == toScreamingSnake(enum)
  IN IF \E rest \in Suffixes(words) : rest # <<>> /\ words = own \o rest
     THEN SubSeq(words, Len(own) + 1, Len(words)) ELSE words

WrittenEnum(e) ==
  [name |-> e.name,
   values |-> [i \in DOMAIN e.values |-> [name |-> OwnWords(e.name, e.values[i]), number |-> i - 1]]]

Methods(s) ==
  {<<m.name, m.path, m.type, m.requestType, m.responseType>> : m \in Range(AllMethods(s))}

\* What is read back from the text is what was written: the messages with their
\* fields, numbers, types and oneofs; the enums with all their values, each with
\* its number and its own name, in capitals, which may or may not have begun with
\* that of the enum; and the procedures with their kinds, paths and types.
ReadsBack ==
  parsed.done =>
    /\ [i \in DOMAIN parsed.it.messages |-> Shape(parsed.it.messages[i])]
         = [i \in DOMAIN generated.it.messages |-> Shape(generated.it.messages[i])]
    /\ parsed.it.enums = [i \in DOMAIN generated.it.enums |-> WrittenEnum(generated.it.enums[i])]
    /\ Methods(parsed.it) = Methods(generated.it)
    /\ \A m \in Range(AllMethods(parsed.it)) : m.stream <=> m.type = "subscription"
=============================================================================
