------------------------------- MODULE MCSchema -------------------------------
(* What is generated of a router, and what is done with it, for TLC.  A          *)
(* behaviour is about one part, and the others, which share no state with it,    *)
(* stay as they are.  Field numbers come in two sizes, each with a state of its  *)
(* own: `flat' has messages two levels deep and unions, `kinds' has roots that   *)
(* turn from objects into scalars and back.                                      *)
EXTENDS FieldNumbers, Timestamp, ProtoText, ValueCodec

CONSTANTS KindsRoots, KindsKinds

VARIABLES
  part,
  kSaved, kGiven, kProto, kGpc, kCache, kMessages, kConverted, kStack

kinds == <<kSaved, kGiven, kProto, kGpc, kCache, kMessages, kConverted, kStack>>

AsKinds ==
  INSTANCE FieldNumbers
    WITH Roots <- KindsRoots, Kinds <- KindsKinds, MaxDepth <- 1, MaxTag <- 2, Withheld <- {},
         saved <- kSaved, given <- kGiven, proto <- kProto, gpc <- kGpc, cache <- kCache,
         messages <- kMessages, converted <- kConverted, stack <- kStack

\* Around the boundaries of a second, and inside one.
SomeDates == {0, 1, 999, 1000, 1500}

-----------------------------------------------------------------------------
(* Zod schemas *)

Z(k)          == [zod |-> k]
Of(k, z)      == [zod |-> k, of |-> z]
Record(k, z)  == [zod |-> "record", key |-> Z(k), of |-> z]
P(k, z)       == [key |-> k, of |-> z, oneof |-> ""]
InOneof(p, o) == [p EXCEPT !.oneof = o]
O(shape)      == [zod |-> "object", name |-> "", shape |-> shape]
Enum(n, vs)   == [zod |-> "enum", values |-> vs, name |-> n]
Lit(s)        == [zod |-> "literal", values |-> <<Str(s)>>, name |-> ""]
Union(os)     == [zod |-> "union", options |-> os, name |-> ""]
Both(x, y)    == [zod |-> "intersection", name |-> "", left |-> x, right |-> y]
Tagged(d, os) == [zod |-> "discriminatedUnion", discriminator |-> d, options |-> os, name |-> ""]

Query(path, in, out)        == [path |-> path, type |-> "query", input |-> in, output |-> out]
Subscription(path, in, out) ==
  [path |-> path, type |-> "subscription", input |-> in, output |-> Of("asyncIterable", out)]
Echo(z) == <<Query(<<"get">>, z, z)>>

Leaves == {Z("string"), Z("boolean"), Z("bigint"), Z("int32"), Z("number"), Z("date")}
Item   == [zod |-> "object", name |-> "Item", shape |-> <<P("userId", Z("string"))>>]
Either == Tagged("kind", <<O(<<P("kind", Lit("left")), P("item", Z("string"))>>),
                           O(<<P("item", Z("int32")), P("kind", Lit("right")),
                               P("list", Of("array", Z("int32")))>>)>>)

\* Alone: what has a message of its own, or is wrapped in one.
Alone ==
  Leaves \cup {Z("void"), Item, Either, Of("array", Item)}
  \cup {Of("array", z) : z \in Leaves}
  \cup {Of("optional", z) : z \in Leaves \ {Z("date")}}
  \cup {Enum("", <<"on", "off">>), Union(<<Lit("on"), Lit("off")>>)}

\* Inside objects: what a field may be, and messages of one name on two levels.
Inside ==
  {O(<<P("userId", Of(w, z)), P("value", Of("array", z)), P("all", Record("string", z))>>) :
     z \in {Z("bigint"), Z("date"), Item}, w \in {"optional", "nullable", "default"}}
  \cup {O(<<P("left", Item), P("right", Of("array", Item))>>),
        O(<<P("item", Both(O(<<P("left", Z("string"))>>),
                           O(<<P("right", Z("date")), P("left", Z("bigint"))>>))),
            P("list", Of("optional", Either))>>),
        O(<<P("item", O(<<P("left", Z("int32")),
                          P("right", Of("optional", O(<<P("left", Z("date"))>>)))>>)),
            P("list", Of("array", O(<<P("left", Z("string"))>>)))>>),
        O(<<P("left", O(<<P("item", O(<<P("all", Z("string"))>>))>>)),
            P("right", O(<<P("item", O(<<P("list", Z("bigint"))>>))>>))>>),
        O(<<P("item", O(<<P("all", Z("string"))>>)),
            P("left", O(<<P("item", O(<<P("list", Z("bigint"))>>))>>))>>)}

\* Procedures of one name in several routers; types they share; one without output.
Several == {
  <<Query(<<"user", "list">>, Item, Of("array", Item)),
    Query(<<"list">>, Z("void"), O(<<P("left", Item)>>)),
    Query(<<"user", "all", "get">>, Z("void"), O(<<P("left", Enum("", <<"on", "off">>))>>)),
    Subscription(<<"user", "all", "list">>, Z("bigint"), Item)>>,
  <<Query(<<"get">>, NoSchema, NoSchema)>> }

Carried == {Echo(z) : z \in Alone \cup Inside} \cup Several

\* A record that is the whole of an input.
RecordAlone == {Echo(Record("string", Z("string")))}

Written ==
  {<<Query(<<"user", "list">>, Item, Of("array", Item)),
     Subscription(<<"list">>, Z("void"),
       O(<<P("left", Item), P("right", Enum("Status", <<"status_off", "on", "status">>)),
           P("all", Enum("StatusKind", <<"off", "on">>))>>))>>,
   <<Query(<<"get">>,
       O(<<InOneof(P("left", Z("string")), "value"), InOneof(P("right", Item), "value"),
           P("list", Record("int32", O(<<P("left", Z("bigint"))>>)))>>),
       Either)>>}

-----------------------------------------------------------------------------
all == <<part, vars, kinds, timestamp, protoText, codec>>

InitSchema ==
  /\ part \in {"flat", "kinds", "dates", "text", "values"}
  /\ Init /\ AsKinds!Init /\ InitTimestamp /\ InitText /\ InitCodec
  /\ part # "dates" => sent = 0

NextSchema ==
  /\ UNCHANGED part
  /\ \/ part = "flat"   /\ Next          /\ UNCHANGED <<kinds, timestamp, protoText, codec>>
     \/ part = "kinds"  /\ AsKinds!Next  /\ UNCHANGED <<vars, timestamp, protoText, codec>>
     \/ part = "dates"  /\ TimestampNext /\ UNCHANGED <<vars, kinds, protoText, codec>>
     \/ part = "text"   /\ TextNext      /\ UNCHANGED <<vars, kinds, timestamp, codec>>
     \/ part = "values" /\ CodecNext     /\ UNCHANGED <<vars, kinds, timestamp, protoText>>

SpecSchema == InitSchema /\ [][NextSchema]_all

\* Values alone.
SpecValues == InitSchema /\ part = "values" /\ [][NextSchema]_all

-----------------------------------------------------------------------------
\* A field that stays, or comes back, has the number it had, also when its message
\* was a wrapped scalar in between.
NumbersKept == AsKinds!KeptNumbers
=============================================================================
