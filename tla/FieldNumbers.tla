----------------------------- MODULE FieldNumbers -----------------------------
(***************************************************************************)
(* Field numbers across generations.  A generation (packages/plugin/src/   *)
(* generate.ts) loads the number cache from schema.ts, translates the      *)
(* router's Zod schemas into messages (packages/schema_ir/src/translate),  *)
(* giving every field a number, writes the .proto, and at last replaces    *)
(* schema.ts.  The router changes from one generation to the next in any   *)
(* way: it is chosen field by field while it is translated.                *)
(*                                                                         *)
(* A message is identified by its path: the name of a top-level message,   *)
(* then a field name per level of nesting (a nested message is named after *)
(* its field).  Translation is recursive; `stack' holds the activations of *)
(* #convertObject and #convertDiscriminatedUnion.                          *)
(***************************************************************************)
EXTENDS Integers, Sequences, FiniteSets

CONSTANTS
  Roots,       \* names of top-level messages
  Names,       \* field names
  Value,       \* the field name `value' of a wrapped scalar
  NoName,      \* not a name
  Kinds,       \* kinds of type the routers use: object, union, scalar
  MaxDepth,    \* bound on the nesting of messages
  MaxTag,      \* the largest field number
  Withheld     \* the field numbers protobuf reserves for itself

Tags == 1..MaxTag

ASSUME FieldNumbersAssumption ==
  /\ Value \in Names
  /\ NoName \notin Names
  /\ Kinds \subseteq {"object", "union", "scalar"}
  /\ MaxDepth \in Nat \ {0} /\ MaxTag \in Nat
  /\ Withheld \subseteq Tags

VARIABLES
  saved,      \* the cache in schema.ts
  given,      \* every <<message, number, field>> of a schema.ts so far
  proto,      \* the .proto file
  gpc,        \* where generate() stands
  cache,      \* the translator's copy of the cache
  messages,   \* fields of the messages it has built
  converted,  \* which these are
  stack       \* activations in progress, the innermost first

vars == <<saved, given, proto, gpc, cache, messages, converted, stack>>

-----------------------------------------------------------------------------
(* The cache: two maps per message, kept as sets of triples                *)
(*   ids:  <<message, number, field>>   usedIds                            *)
(*   tags: <<message, number, field>>   propertyGenCache[field].tag        *)

EmptyCache == [ids |-> {}, tags |-> {}]

TagsOf(c, key, n) == {t \in Tags : <<key, t, n>> \in c.tags}

\* usedIds[number] = field; propertyGenCache[field] = {tag: number, ...}
Recorded(c, key, t, n) ==
  [ids  |-> {e \in c.ids : ~(e[1] = key /\ e[2] = t)} \cup {<<key, t, n>>},
   tags |-> {e \in c.tags : ~(e[1] = key /\ e[3] = n)} \cup {<<key, t, n>>}]

\* Numbers taken according to usedIds alone: the lowest of each field that has
\* no tag of its own.
IdsTaken(c, key) ==
  {t \in Tags : \E n \in Names :
     /\ <<key, t, n>> \in c.ids
     /\ TagsOf(c, key, n) = {}
     /\ \A u \in Tags : u < t => <<key, u, n>> \notin c.ids}

\* [mutant] the allocator starts without a seed
TakenUnseeded(c, key) == {}

\* The numbers createFieldAllocator is seeded with.
Taken(c, key) == (UNION {TagsOf(c, key, n) : n \in Names}) \cup IdsTaken(c, key)

\* [mutant] forgets the range protobuf withholds
FreeAnywhere(used) == Tags \ used

\* What the allocator can still yield; next() yields the smallest.
Free(used) == Tags \ (used \cup Withheld)

Smallest(S) == CHOOSE t \in S : \A u \in S : t <= u
-----------------------------------------------------------------------------
Init ==
  /\ saved = EmptyCache
  /\ given = {}
  /\ proto = [fields |-> {}, reserved |-> {}]
  /\ gpc = "idle"
  /\ cache = EmptyCache
  /\ messages = {}
  /\ converted = {}
  /\ stack = <<>>

disk == <<saved, given, proto>>

\* generate() loads the cache; a new translator starts with nothing built.
Load ==
  /\ gpc = "idle"
  /\ gpc' = "translating"
  /\ cache' = saved
  /\ UNCHANGED <<disk, messages, converted, stack>>

-----------------------------------------------------------------------------
(* The translator *)

top == Head(stack)

\* Entering #convertObject or #convertDiscriminatedUnion: the allocator is
\* seeded from the cache as it is now.
Activation(path, key, kind) ==
  [path |-> path, key |-> key, kind |-> kind, used |-> Taken(cache, key),
   fields |-> {}, pending |-> NoName]

\* [mutant] a field keeps no number from the cache
KeepsNone(key, n) == {}

\* The number of an existing field.
Existing(key, n) == TagsOf(cache, key, n)

\* In the activation f, field n gets its number: its own from the cache, or the
\* next of the allocator, which throws when there is none (see Fail).
Number(f, rest, n) ==
  LET own == Existing(f.key, n)
      t   == Smallest(IF own # {} THEN own ELSE Free(f.used))
  IN /\ own # {} \/ Free(f.used) # {}
     /\ cache' = Recorded(cache, f.key, t, n)
     /\ stack' = <<[f EXCEPT !.fields = @ \cup {<<t, n>>},
                             !.used = IF own # {} THEN @ ELSE @ \cup {t},
                             !.pending = NoName]>> \o rest

\* Another property of the type at the top of the stack.
NewField(n) ==
  /\ stack # <<>>
  /\ \A e \in top.fields : e[2] # n

\* A top-level message: the input or output of a procedure.
ConvertRoot(r, kind) ==
  /\ gpc = "translating" /\ stack = <<>>
  /\ <<r>> \notin converted
  /\ kind \in {"object", "union"}
  /\ stack' = <<Activation(<<r>>, <<r>>, kind)>>
  /\ UNCHANGED <<disk, gpc, cache, messages, converted>>

\* #wrapScalar: the input or output of a procedure is not an object; the
\* allocator is seeded from the tag of `value' alone.
WrapScalar(r) ==
  /\ gpc = "translating" /\ stack = <<>>
  /\ <<r>> \notin converted
  /\ LET own == TagsOf(cache, <<r>>, Value)
         t   == Smallest(IF own # {} THEN own ELSE Free({}))
     IN /\ own # {} \/ Free({}) # {}
        /\ cache' = Recorded(cache, <<r>>, t, Value)
        /\ messages' = messages \cup {<<<<r>>, t, Value>>}
  /\ converted' = converted \cup {<<r>>}
  /\ UNCHANGED <<disk, gpc, stack>>

\* A property of scalar, enum or map type, or one whose message exists already
\* or is being built.
LeafField(n) ==
  /\ NewField(n) /\ top.kind = "object"
  /\ Number(top, Tail(stack), n)
  /\ UNCHANGED <<disk, gpc, messages, converted>>

\* The type of property n is converted first, with a cache entry of its own.
Enter(n, path, key, kind) ==
  /\ stack' = <<Activation(path, key, kind), [top EXCEPT !.pending = n]>>
                \o Tail(stack)
  /\ UNCHANGED <<disk, gpc, cache, messages, converted>>

\* The cache entry of a nested type: the enclosing message's own name, and its.
NestedKey(path, n) == <<path[Len(path)], n>>

\* A property that is an object or a union of its own.
NestedField(n, kind) ==
  /\ NewField(n) /\ top.kind = "object" /\ Len(top.path) < MaxDepth
  /\ kind \in {"object", "union"}
  /\ Enter(n, Append(top.path, n), NestedKey(top.path, n), kind)

\* A property whose type is a top-level message that is met here first.
NamedField(n, r, kind) ==
  /\ NewField(n) /\ top.kind = "object"
  /\ <<r>> \notin converted
  /\ \A i \in DOMAIN stack : stack[i].path # <<r>>
  /\ kind \in {"object", "union"}
  /\ Enter(n, <<r>>, <<r>>, kind)

\* The next arm of a union.
Arm(n) ==
  /\ NewField(n) /\ top.kind = "union" /\ Len(top.path) < MaxDepth
  /\ Enter(n, Append(top.path, n), Append(top.key, n), "object")

\* The innermost conversion returns, and the property it was for gets its number.
Return ==
  /\ stack # <<>>
  /\ messages' = messages \cup {<<top.path, e[1], e[2]>> : e \in top.fields}
  /\ converted' = converted \cup {top.path}
  /\ IF Len(stack) = 1
     THEN stack' = <<>> /\ UNCHANGED cache
     ELSE Number(stack[2], Tail(Tail(stack)), stack[2].pending)
  /\ UNCHANGED <<disk, gpc>>

-----------------------------------------------------------------------------
(* The output *)

\* The translator is done with, and its cache with it.
Discard ==
  /\ gpc' = "idle"
  /\ cache' = EmptyCache
  /\ messages' = {}
  /\ converted' = {}
  /\ stack' = <<>>

\* [mutant] looks the entry up under the message's own name
ReservedByName(p) ==
  {t \in Tags :
     /\ \E n \in Names : <<<<p[Len(p)]>>, t, n>> \in cache.ids \cup cache.tags
     /\ \A n \in Names : <<p, t, n>> \notin messages}

\* reservedNumbers: the numbers of the cache that no field of the message
\* carries.  The text looks the entry up under the full path.
Reserved(p) ==
  {t \in Tags :
     /\ \E n \in Names : <<p, t, n>> \in cache.ids \cup cache.tags
     /\ \A n \in Names : <<p, t, n>> \notin messages}

\* The .proto is written in place ...
WriteProto ==
  /\ gpc = "translating" /\ stack = <<>>
  /\ proto' = [fields |-> messages,
               reserved |-> UNION {{<<p, t>> : t \in Reserved(p)} : p \in converted}]
  /\ gpc' = "protoWritten"
  /\ UNCHANGED <<saved, given, cache, messages, converted, stack>>

\* ... and schema.ts replaced by a rename: fields and cache together.
WriteSchema ==
  /\ gpc = "protoWritten"
  /\ saved' = cache
  /\ given' = given \cup messages
  /\ Discard
  /\ UNCHANGED proto

\* The process is killed, or a conversion throws.
Fail ==
  /\ gpc # "idle"
  /\ Discard
  /\ UNCHANGED disk

-----------------------------------------------------------------------------
Translate ==
  \/ \E r \in Roots, kind \in Kinds : ConvertRoot(r, kind)
  \/ \E r \in Roots : "scalar" \in Kinds /\ WrapScalar(r)
  \/ \E n \in Names : LeafField(n) \/ Arm(n)
  \/ \E n \in Names, kind \in Kinds : NestedField(n, kind)
  \/ \E n \in Names, r \in Roots, kind \in Kinds : NamedField(n, r, kind)
  \/ Return

Next == Load \/ Translate \/ WriteProto \/ WriteSchema \/ Fail

Spec == Init /\ [][Next]_vars
-----------------------------------------------------------------------------
(* Properties *)

\* A field number stands for one field of its message, in every schema.ts any
\* generation has installed: the wire format never changes meaning, whatever the
\* routers were and wherever generations were interrupted.
StableNumbers ==
  \A e, f \in given : e[1] = f[1] /\ e[2] = f[2] => e[3] = f[3]

\* A field that stays, or comes back, has the number it always had, even when
\* its message was a wrapped scalar in between.
KeptNumbers ==
  \A e, f \in given : e[1] = f[1] /\ e[3] = f[3] => e[2] = f[2]

\* No message gives two fields the same number, or one protobuf withholds.
DistinctNumbers ==
  /\ \A e, f \in messages : e[1] = f[1] /\ e[2] = f[2] => e[3] = f[3]
  /\ \A e \in messages : e[2] \notin Withheld

\* Every number an installed schema.ts gave away is accounted for by the .proto
\* on disk, as a field or as reserved, if the message is still there.
MarkedIn(S) ==
  \A e \in S :
    \/ \A f \in proto.fields : f[1] # e[1]
    \/ e \in proto.fields
    \/ <<e[1], e[2]>> \in proto.reserved

\* Deleted fields of top-level messages and of the messages nested in them.
DeletedReserved == MarkedIn({e \in given : Len(e[1]) <= 2})

\* README.md: when a field is deleted, the generated .proto marks its number as
\* reserved.
DeletedReservedAnywhere == MarkedIn(given)
=============================================================================
