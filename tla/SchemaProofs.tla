---------------------------- MODULE SchemaProofs ----------------------------
(* Field numbers, and dates.                                                 *)
(*                                                                           *)
(* The numbers (FieldNumbers) stand on an inductive invariant in two layers. *)
(* KeptInv: the cache gives a field one number and never loses it, so that   *)
(* schema.ts, the translator's copy and the messages only grow together.     *)
(* StableInv: besides, every activation in progress knows all the numbers    *)
(* its message has in the cache, which holds because no message is built by  *)
(* two activations at once: a nested one can be reached only through its     *)
(* parent, and the parent's activation is directly below it.                 *)
(*                                                                           *)
(* From 1970 on, a Date survives its journey through a Timestamp: for every  *)
(* set of dates none of which is negative.                                   *)
EXTENDS FieldNumbers, Timestamp, SequenceTheorems, WellFoundedInduction, TLAPS

\* A set of numbers that is not empty has a smallest.
LEMMA SmallestIsOne ==
  ASSUME NEW S \in SUBSET Tags, S # {}
  PROVE  Smallest(S) \in S
<1> DEFINE Less == OpToRel(<, Nat)
<1>1. MaxTag \in Nat
  BY FieldNumbersAssumption
<1>2. S \subseteq Nat
  BY <1>1, SMT DEF Tags
<1>3. IsWellFoundedOn(Less, Nat)
  BY NatLessThanWellFounded, Zenon
<1>4. \A x, y \in Nat : x < y => <<x, y>> \in Less
  BY SMT DEF OpToRel
<1> HIDE DEF Less
<1>5. \E x \in S : \A y \in S : ~ (<<y, x>> \in Less)
  BY <1>2, <1>3, WFMin
<1>6. PICK t \in S : \A u \in S : ~ (<<u, t>> \in Less)
  BY <1>5
<1>7. ASSUME NEW u \in S PROVE t <= u
  <2>1. t \in Nat /\ u \in Nat
    BY <1>2
  <2>2. ~ (u < t)
    BY <1>4, <1>6, <2>1, Zenon
  <2> QED
    BY <2>1, <2>2, SMT
<1> QED
  BY <1>6, <1>7 DEF Smallest

\* Putting one element before a sequence, and taking one away.
LEMMA Pushed ==
  ASSUME NEW F, NEW s \in Seq(F), NEW x \in F
  PROVE  /\ <<x>> \o s \in Seq(F)
         /\ Len(<<x>> \o s) = Len(s) + 1
         /\ (<<x>> \o s)[1] = x
         /\ \A i \in 2..Len(s) + 1 : (<<x>> \o s)[i] = s[i - 1]
<1>1. <<x>> \in Seq(F) /\ Len(<<x>>) = 1 /\ <<x>>[1] = x
  OBVIOUS
<1> QED
  BY <1>1, ConcatProperties, SMT

LEMMA Popped ==
  ASSUME NEW F, NEW s \in Seq(F), s # <<>>
  PROVE  /\ Len(s) \in Nat \ {0}
         /\ Head(s) = s[1] /\ s[1] \in F
         /\ Tail(s) \in Seq(F)
         /\ Len(Tail(s)) = Len(s) - 1
         /\ \A i \in 1..Len(s) - 1 : Tail(s)[i] = s[i + 1]
  BY HeadTailProperties, SMT

-----------------------------------------------------------------------------
(* With messages at most two levels deep, a cache entry is named after its *)
(* message.  Of the cache: a field has one number, which it never loses.   *)

Paths == {<<r>> : r \in Roots} \cup {<<r, n>> : r \in Roots, n \in Names}
Entry == Paths \X Tags \X Names

\* A field has one number.
OneNumber(T) == \A e, f \in T : e[1] = f[1] /\ e[3] = f[3] => e[2] = f[2]

\* A number stands for one field, and is none protobuf withholds.
OneField(T) ==
  /\ \A e, f \in T : e[1] = f[1] /\ e[2] = f[2] => e[3] = f[3]
  /\ \A e \in T : e[2] \notin Withheld

Frame ==
  [path : Paths, key : Paths, kind : {"object", "union"}, used : SUBSET Tags,
   fields : SUBSET (Tags \X Names), pending : Names \cup {NoName}]

\* The fields an activation has numbered have these numbers in the cache.
Backed(f, T) ==
  /\ f.key = f.path
  /\ \A t \in Tags, n \in Names : <<t, n>> \in f.fields => <<f.path, t, n>> \in T

\* Activations that wait for the message of a property.
Below(rest, T) ==
  /\ rest \in Seq(Frame)
  /\ \A i \in 1..Len(rest) : Backed(rest[i], T) /\ rest[i].pending \in Names

\* A stack of activations; all but the innermost wait.
Framed(st, T) ==
  /\ st \in Seq(Frame)
  /\ \A i \in 1..Len(st) : Backed(st[i], T) /\ (i > 1 => st[i].pending \in Names)

\* The cache only grows: it has every number of schema.ts, and of the messages.
CacheInv ==
  /\ cache.tags \in SUBSET Entry /\ saved.tags \in SUBSET Entry
  /\ OneNumber(cache.tags) /\ OneNumber(saved.tags)
  /\ given \subseteq saved.tags
  /\ gpc # "idle" => saved.tags \subseteq cache.tags
  /\ messages \subseteq cache.tags

StageInv ==
  /\ gpc \in {"idle", "translating", "protoWritten"}
  /\ stack # <<>> => gpc = "translating"
  /\ gpc = "idle" => messages = {} /\ converted = {}

\* The inductive invariant of KeptNumbers.
KeptInv == CacheInv /\ StageInv /\ Framed(stack, cache.tags)

\* A field's own number, or the next of the allocator.
LEMMA Chosen ==
  ASSUME NEW own \in SUBSET Tags, NEW S \in SUBSET Tags, own # {} \/ S # {}
  PROVE  /\ Smallest(IF own # {} THEN own ELSE S) \in Tags
         /\ \/ Smallest(IF own # {} THEN own ELSE S) \in own
            \/ own = {} /\ Smallest(IF own # {} THEN own ELSE S) \in S
<1>1. CASE own # {}
  BY <1>1, SmallestIsOne
<1>2. CASE own = {}
  BY <1>2, SmallestIsOne
<1> QED
  BY <1>1, <1>2

\* Recording a field's own number, or one for a field without, takes none away.
LEMMA OwnOrNew ==
  ASSUME NEW c, c.tags \in SUBSET Entry, OneNumber(c.tags),
         NEW key \in Paths, NEW n \in Names, NEW t \in Tags,
         t \in TagsOf(c, key, n) \/ TagsOf(c, key, n) = {}
  PROVE  /\ t \in TagsOf(c, key, n) => <<key, t, n>> \in c.tags
         /\ Recorded(c, key, t, n).tags = c.tags \cup {<<key, t, n>>}
         /\ Recorded(c, key, t, n).tags \in SUBSET Entry
         /\ OneNumber(Recorded(c, key, t, n).tags)
<1> DEFINE own == TagsOf(c, key, n)
<1>1. own \in SUBSET Tags /\ (\A u \in own : <<key, u, n>> \in c.tags)
  BY DEF TagsOf
<1>2. ASSUME NEW u \in own, NEW v \in own PROVE u = v
  <2> DEFINE e == <<key, u, n>>
             d == <<key, v, n>>
  <2>1. e \in c.tags /\ d \in c.tags
    BY <1>1
  <2>2. e[1] = d[1] /\ e[3] = d[3] /\ e[2] = u /\ d[2] = v
    OBVIOUS
  <2> HIDE DEF e, d
  <2> QED
    BY <2>1, <2>2 DEF OneNumber
<1>3. \A e \in c.tags : e[1] = key /\ e[3] = n => e[2] \in own /\ e = <<key, e[2], n>>
  BY SMT DEF TagsOf, Entry
<1>4. Recorded(c, key, t, n).tags = {e \in c.tags : ~(e[1] = key /\ e[3] = n)} \cup {<<key, t, n>>}
  BY DEF Recorded
<1> HIDE DEF own
<1>5. CASE own # {}
  <2>1. t \in own
    BY <1>5 DEF own
  <2>2. \A e \in c.tags : e[1] = key /\ e[3] = n => e = <<key, t, n>>
    BY <1>2, <1>3, <2>1
  <2>3. Recorded(c, key, t, n).tags = c.tags \cup {<<key, t, n>>}
    BY <1>4, <2>2
  <2>4. <<key, t, n>> \in c.tags
    BY <1>1, <2>1
  <2> QED
    BY <2>1, <2>3, <2>4 DEF own
<1>6. CASE own = {}
  <2>2. Recorded(c, key, t, n).tags = c.tags \cup {<<key, t, n>>}
    BY <1>3, <1>4, <1>6
  <2>3. <<key, t, n>> \in Entry
    BY DEF Entry
  <2>4. \A e \in c.tags : ~(e[1] = key /\ e[3] = n)
    BY <1>3, <1>6
  <2>5. OneNumber(c.tags \cup {<<key, t, n>>})
    BY <2>4, SMT DEF OneNumber
  <2> QED
    BY <1>6, <2>2, <2>3, <2>5 DEF own
<1> QED
  BY <1>5, <1>6

\* In the activation f, field n gets the number t, and f becomes g.
Gets(f, rest, n, t, g) ==
  /\ cache'.tags = cache.tags \cup {<<f.path, t, n>>}
  /\ cache'.tags \in SUBSET Entry
  /\ OneNumber(cache'.tags)
  /\ <<f.path, t, n>> \in cache.tags \/ (TagsOf(cache, f.path, n) = {} /\ t \in Free(f.used))
  /\ stack' = <<g>> \o rest
  /\ g.path = f.path /\ g.key = f.path
  /\ g.fields = f.fields \cup {<<t, n>>}
  /\ f.used \subseteq g.used
  /\ <<f.path, t, n>> \in cache.tags \/ t \in g.used

LEMMA Numbered ==
  ASSUME CacheInv, NEW f \in Frame, f.key = f.path, NEW rest, NEW n \in Names,
         Number(f, rest, n)
  PROVE  \E t \in Tags, g \in Frame : Gets(f, rest, n, t, g)
<1> DEFINE own == Existing(f.key, n)
           t == Smallest(IF own # {} THEN own ELSE Free(f.used))
           g == [f EXCEPT !.fields = @ \cup {<<t, n>>},
                          !.used = IF own # {} THEN @ ELSE @ \cup {t},
                          !.pending = NoName]
<1>1. own = TagsOf(cache, f.path, n)
  BY DEF Existing
<1>2. /\ own # {} \/ Free(f.used) # {}
      /\ cache' = Recorded(cache, f.path, t, n)
      /\ stack' = <<g>> \o rest
  BY DEF Number
<1>3. f.path \in Paths /\ Free(f.used) \in SUBSET Tags
  BY DEF Frame, Free
<1>4. t \in Tags /\ (t \in own \/ (own = {} /\ t \in Free(f.used)))
  BY <1>2, <1>3, Chosen DEF Existing, TagsOf
<1> HIDE DEF own, t
<1>5. /\ cache'.tags = cache.tags \cup {<<f.path, t, n>>}
      /\ cache'.tags \in SUBSET Entry
      /\ OneNumber(cache'.tags)
      /\ t \in own => <<f.path, t, n>> \in cache.tags
  <2>1. cache.tags \in SUBSET Entry /\ OneNumber(cache.tags)
    BY DEF CacheInv
  <2>2. t \in TagsOf(cache, f.path, n) \/ TagsOf(cache, f.path, n) = {}
    BY <1>1, <1>4
  <2>3. /\ t \in TagsOf(cache, f.path, n) => <<f.path, t, n>> \in cache.tags
        /\ Recorded(cache, f.path, t, n).tags = cache.tags \cup {<<f.path, t, n>>}
        /\ Recorded(cache, f.path, t, n).tags \in SUBSET Entry
        /\ OneNumber(Recorded(cache, f.path, t, n).tags)
    BY <1>3, <1>4, <2>1, <2>2, OwnOrNew
  <2> QED
    BY <1>1, <1>2, <2>3
<1>6. /\ g \in Frame
      /\ g.path = f.path /\ g.key = f.path
      /\ g.fields = f.fields \cup {<<t, n>>}
      /\ g.used = IF own # {} THEN f.used ELSE f.used \cup {t}
  <2> DEFINE used == IF own # {} THEN f.used ELSE f.used \cup {t}
             fields == f.fields \cup {<<t, n>>}
  <2>1. used \in SUBSET Tags /\ fields \in SUBSET (Tags \X Names)
    BY <1>4 DEF Frame
  <2>2. g = [f EXCEPT !.fields = fields, !.used = used, !.pending = NoName]
    BY DEF Frame
  <2> HIDE DEF used, fields, g
  <2>3. /\ g \in Frame /\ g.path = f.path /\ g.key = f.key
        /\ g.fields = fields /\ g.used = used
    BY <2>1, <2>2 DEF Frame
  <2> QED
    BY <2>3 DEF used, fields
<1>7. <<f.path, t, n>> \in cache.tags \/ t \in g.used
  BY <1>1, <1>4, <1>5, <1>6
<1> HIDE DEF g
<1> QED
  BY <1>1, <1>2, <1>4, <1>5, <1>6, <1>7 DEF Gets

-----------------------------------------------------------------------------
(* Activations *)

LEMMA Pair ==
  ASSUME NEW F, NEW x \in F, NEW y \in F
  PROVE  /\ <<x>> \o <<y>> = <<x, y>>
         /\ Append(<<x>>, y) = <<x, y>>
<1>1. <<x>> \in Seq(F) /\ <<y>> \in Seq(F)
  OBVIOUS
<1>2. /\ <<x, y>> \in Seq(F) /\ Len(<<x, y>>) = 2
      /\ <<x, y>>[1] = x /\ <<x, y>>[2] = y
  OBVIOUS
<1>3. <<x>> \o <<y>> = <<x, y>>
  <2> DEFINE s1 == <<x>> \o <<y>>
             s2 == <<x, y>>
  <2>1. Len(<<y>>) = 1 /\ <<y>>[1] = y
    OBVIOUS
  <2>2. s1 \in Seq(F) /\ Len(s1) = 2 /\ s1[1] = x /\ s1[2] = y
    BY <1>1, <2>1, Pushed, SMT
  <2> HIDE DEF s1, s2
  <2>3. \A i \in 1..Len(s1) : s1[i] = s2[i]
    BY <1>2, <2>2, SMT DEF s2
  <2>4. s2 \in Seq(F) /\ Len(s1) = Len(s2)
    BY <1>2, <2>2 DEF s2
  <2>5. s1 = s2
    BY <2>2, <2>3, <2>4, SeqEqual
  <2> QED
    BY <2>5 DEF s1, s2
<1> QED
  BY <1>1, <1>3, AppendIsConcat

LEMMA PushedTwo ==
  ASSUME NEW F, NEW s \in Seq(F), NEW x \in F, NEW y \in F
  PROVE  <<x, y>> \o s = <<x>> \o (<<y>> \o s)
<1>1. <<x>> \in Seq(F) /\ <<y>> \in Seq(F)
  OBVIOUS
<1>3. <<x>> \o <<y>> = <<x, y>>
  BY Pair
<1> QED
  <2> DEFINE a == <<x>>
             b == <<y>>
  <2>1. a \in Seq(F) /\ b \in Seq(F)
    BY <1>1
  <2> HIDE DEF a, b
  <2>2. (a \o b) \o s = a \o (b \o s)
    BY <2>1, ConcatAssociative
  <2> QED
    BY <1>3, <2>2 DEF a, b

LEMMA MoreEntries ==
  ASSUME NEW st, NEW T, NEW U, T \subseteq U
  PROVE  /\ Framed(st, T) => Framed(st, U)
         /\ Below(st, T) => Below(st, U)
  BY DEF Framed, Below, Backed

LEMMA TopAndRest ==
  ASSUME NEW st, NEW T, Framed(st, T), st # <<>>
  PROVE  /\ Head(st) = st[1] /\ st[1] \in Frame /\ Backed(st[1], T)
         /\ Below(Tail(st), T)
<1>1. st \in Seq(Frame)
  BY DEF Framed
<1>2. /\ Len(st) \in Nat \ {0}
      /\ Head(st) = st[1] /\ st[1] \in Frame
      /\ Tail(st) \in Seq(Frame)
      /\ Len(Tail(st)) = Len(st) - 1
      /\ \A i \in 1..Len(st) - 1 : Tail(st)[i] = st[i + 1]
  BY <1>1, Popped
<1>3. 1 \in 1..Len(st)
  BY <1>2, SMT
<1>4. \A i \in 1..Len(Tail(st)) : Tail(st)[i] = st[i + 1] /\ i + 1 \in 1..Len(st) /\ i + 1 > 1
  BY <1>2, SMT
<1> QED
  BY <1>2, <1>3, <1>4 DEF Framed, Below

LEMMA RestIsBelow ==
  ASSUME NEW rest, NEW T, Below(rest, T), rest # <<>>
  PROVE  /\ Head(rest) = rest[1] /\ rest[1] \in Frame /\ Backed(rest[1], T)
         /\ rest[1].pending \in Names
         /\ Below(Tail(rest), T)
<1>1. rest \in Seq(Frame)
  BY DEF Below
<1>2. Len(rest) \in Nat \ {0}
  BY <1>1, Popped
<1>3. 1 \in 1..Len(rest)
  BY <1>2, SMT
<1>4. Framed(rest, T)
  BY DEF Below, Framed
<1> QED
  BY <1>3, <1>4, TopAndRest DEF Below

LEMMA PushFramed ==
  ASSUME NEW rest, NEW T, NEW x \in Frame, Below(rest, T), Backed(x, T)
  PROVE  /\ Framed(<<x>> \o rest, T)
         /\ x.pending \in Names => Below(<<x>> \o rest, T)
<1> DEFINE st == <<x>> \o rest
<1>1. rest \in Seq(Frame)
  BY DEF Below
<1>2. /\ st \in Seq(Frame)
      /\ Len(st) = Len(rest) + 1
      /\ st[1] = x
      /\ \A i \in 2..Len(rest) + 1 : st[i] = rest[i - 1]
  BY <1>1, Pushed
<1>3. Len(rest) \in Nat
  BY <1>1, LenProperties
<1> HIDE DEF st
<1>4. \A i \in 1..Len(st) : i = 1 \/ (i \in 2..Len(rest) + 1 /\ i - 1 \in 1..Len(rest))
  BY <1>2, <1>3, SMT
<1>5. \A i \in 1..Len(st) : Backed(st[i], T) /\ (st[i] = x \/ st[i].pending \in Names)
  BY <1>2, <1>4 DEF Below
<1>6. \A i \in 1..Len(st) : i > 1 => st[i].pending \in Names
  BY <1>2, <1>4, SMT DEF Below
<1> QED
  BY <1>2, <1>5, <1>6 DEF Framed, Below, st

\* Giving a field its number keeps the cache and the activations in order.
LEMMA NumberKeeps ==
  ASSUME CacheInv, NEW f \in Frame, NEW rest, NEW n \in Names,
         Backed(f, cache.tags), Below(rest, cache.tags), Number(f, rest, n)
  PROVE  /\ cache.tags \subseteq cache'.tags
         /\ cache'.tags \in SUBSET Entry
         /\ OneNumber(cache'.tags)
         /\ Framed(stack', cache'.tags)
         /\ stack' # <<>>
<1>1. f.key = f.path
  BY DEF Backed
<1>2. PICK t \in Tags, g \in Frame : Gets(f, rest, n, t, g)
  BY <1>1, Numbered
<1>3. Backed(g, cache'.tags)
  <2> SUFFICES ASSUME NEW u \in Tags, NEW m \in Names, <<u, m>> \in g.fields
               PROVE  <<f.path, u, m>> \in cache'.tags
    BY <1>2 DEF Backed, Gets
  <2>1. CASE <<u, m>> \in f.fields
    BY <1>2, <2>1 DEF Backed, Gets
  <2>2. CASE <<u, m>> = <<t, n>>
    BY <1>2, <2>2 DEF Gets
  <2> QED
    BY <1>2, <2>1, <2>2 DEF Gets
<1>4. Below(rest, cache'.tags)
  BY <1>2, MoreEntries DEF Gets
<1>5. Framed(stack', cache'.tags)
  BY <1>2, <1>3, <1>4, PushFramed DEF Gets
<1>6. stack' # <<>>
  <2>1. rest \in Seq(Frame)
    BY DEF Below
  <2>2. Len(<<g>> \o rest) = Len(rest) + 1 /\ Len(rest) \in Nat
    BY <2>1, Pushed, LenProperties
  <2> QED
    BY <1>2, <2>2, SMT DEF Gets
<1> QED
  BY <1>2, <1>5, <1>6 DEF Gets

LEMMA Activated ==
  ASSUME NEW T, NEW path \in Paths, NEW kind \in {"object", "union"}
  PROVE  /\ Activation(path, path, kind) \in Frame
         /\ Backed(Activation(path, path, kind), T)
         /\ Activation(path, path, kind).path = path
         /\ Activation(path, path, kind).used = Taken(cache, path)
<1> DEFINE used == Taken(cache, path)
<1>1. used \in SUBSET Tags
  <2>1. \A n : TagsOf(cache, path, n) \subseteq Tags
    BY DEF TagsOf
  <2>2. UNION {TagsOf(cache, path, n) : n \in Names} \subseteq Tags
    BY <2>1
  <2>3. IdsTaken(cache, path) \subseteq Tags
    BY DEF IdsTaken
  <2> QED
    BY <2>2, <2>3 DEF Taken
<1> HIDE DEF used
<1>2. Activation(path, path, kind) =
        [path |-> path, key |-> path, kind |-> kind, used |-> used, fields |-> {}, pending |-> NoName]
  BY DEF Activation, used
<1> QED
  BY <1>1, <1>2 DEF Frame, Backed, used

\* With at most two levels, only a top-level message has messages nested in it.
LEMMA NestedPath ==
  ASSUME MaxDepth <= 2, NEW path \in Paths, Len(path) < MaxDepth, NEW n \in Names
  PROVE  /\ \E r \in Roots : path = <<r>> /\ Append(path, n) = <<r, n>>
         /\ Append(path, n) \in Paths
         /\ NestedKey(path, n) = Append(path, n)
<1>1. MaxDepth \in Nat
  BY FieldNumbersAssumption
<1>2. \A r, m : Len(<<r>>) = 1 /\ Len(<<r, m>>) = 2 /\ <<r>>[1] = r
  OBVIOUS
<1>3. PICK r \in Roots : path = <<r>>
  <2>1. Len(path) # 2
    <3> SUFFICES ASSUME Len(path) = 2 PROVE FALSE
      OBVIOUS
    <3> QED
      BY <1>1, SMT
  <2> QED
    BY <1>2, <2>1 DEF Paths
<1>4. Append(<<r>>, n) = <<r, n>>
  <2> DEFINE F == Roots \cup Names
  <2>1. r \in F /\ n \in F
    OBVIOUS
  <2> HIDE DEF F
  <2> QED
    BY <2>1, Pair
<1>5. NestedKey(path, n) = <<r, n>>
  BY <1>2, <1>3 DEF NestedKey
<1> QED
  BY <1>3, <1>4, <1>5 DEF Paths

\* On the stack, x has been put above y, which the top has become.
Entered(path, x, y) ==
  /\ stack' = <<x>> \o (<<y>> \o Tail(stack))
  /\ x.path = path /\ x.used = Taken(cache, path)
  /\ y.path = stack[1].path /\ y.used = stack[1].used

LEMMA EnterKeeps ==
  ASSUME NEW T, Framed(stack, T), stack # <<>>,
         NEW n \in Names, NEW path \in Paths, NEW kind \in {"object", "union"},
         Enter(n, path, path, kind)
  PROVE  /\ Framed(stack', T)
         /\ stack' # <<>>
         /\ \E x \in Frame, y \in Frame : Entered(path, x, y)
<1> DEFINE x == Activation(path, path, kind)
           y == [top EXCEPT !.pending = n]
<1>1. /\ Head(stack) = stack[1] /\ stack[1] \in Frame /\ Backed(stack[1], T)
      /\ Below(Tail(stack), T)
  BY TopAndRest
<1>2. x \in Frame /\ Backed(x, T) /\ x.path = path /\ x.used = Taken(cache, path)
  BY Activated
<1>3. /\ y \in Frame /\ y.pending \in Names
      /\ y.path = stack[1].path /\ y.used = stack[1].used
  BY <1>1 DEF top, Frame
<1>4. Backed(y, T)
  BY <1>1 DEF top, Frame, Backed
<1>5. stack' = <<x, y>> \o Tail(stack)
  BY DEF Enter
<1> HIDE DEF x, y
<1>6. Tail(stack) \in Seq(Frame)
  BY <1>1 DEF Below
<1>7. stack' = <<x>> \o (<<y>> \o Tail(stack))
  BY <1>2, <1>3, <1>5, <1>6, PushedTwo
<1>8. Below(<<y>> \o Tail(stack), T)
  BY <1>1, <1>3, <1>4, PushFramed
<1>9. Framed(stack', T)
  BY <1>2, <1>7, <1>8, PushFramed
<1>10. stack' # <<>>
  <2>1. (<<y>> \o Tail(stack)) \in Seq(Frame)
    BY <1>8 DEF Below
  <2>2. Len(stack') = Len(<<y>> \o Tail(stack)) + 1 /\ Len(<<y>> \o Tail(stack)) \in Nat
    BY <1>2, <1>7, <2>1, Pushed, LenProperties
  <2> QED
    BY <2>2, SMT
<1> QED
  BY <1>2, <1>3, <1>7, <1>9, <1>10 DEF Entered

-----------------------------------------------------------------------------
(* A field keeps its number *)

LEMMA KeptInit == Init => KeptInv
<1> SUFFICES ASSUME Init PROVE KeptInv
  OBVIOUS
<1>1. cache.tags = {} /\ saved.tags = {} /\ given = {} /\ messages = {} /\ stack = <<>>
  BY DEF Init, EmptyCache
<1>2. CacheInv
  BY <1>1 DEF CacheInv, OneNumber
<1>3. StageInv
  BY DEF StageInv, Init
<1>4. Framed(stack, cache.tags)
  BY <1>1, SMT DEF Framed
<1> QED
  BY <1>2, <1>3, <1>4 DEF KeptInv

\* What Number does to the cache leaves it, and what is on disk, in order.
LEMMA CacheGrows ==
  ASSUME CacheInv, StageInv, UNCHANGED disk, gpc = "translating", gpc' = gpc,
         cache.tags \subseteq cache'.tags, cache'.tags \in SUBSET Entry, OneNumber(cache'.tags),
         messages' \subseteq cache'.tags
  PROVE  CacheInv' /\ StageInv'
<1>1. saved' = saved /\ given' = given
  BY DEF disk
<1>2. CacheInv'
  BY <1>1 DEF CacheInv, StageInv
<1>3. StageInv'
  BY DEF StageInv
<1> QED
  BY <1>2, <1>3

LEMMA NestedStep ==
  ASSUME KeptInv, UNCHANGED <<disk, gpc, cache, messages, converted>>,
         gpc = "translating", Framed(stack', cache.tags)
  PROVE  KeptInv'
<1>1. CacheInv'
  BY DEF KeptInv, CacheInv, disk
<1>2. StageInv'
  BY DEF KeptInv, StageInv
<1> QED
  BY <1>1, <1>2 DEF KeptInv

LEMMA KeptTranslate ==
  ASSUME MaxDepth <= 2, KeptInv, Translate
  PROVE  KeptInv'
<1>1. gpc = "translating"
  BY DEF Translate, KeptInv, StageInv, ConvertRoot, WrapScalar, LeafField, Arm, NestedField,
         NamedField, NewField, Return
<1>2. CacheInv /\ StageInv /\ Framed(stack, cache.tags)
  BY DEF KeptInv
<1>3. ASSUME stack # <<>>
      PROVE  /\ top = stack[1] /\ top \in Frame /\ Backed(top, cache.tags)
             /\ top.key = top.path /\ top.path \in Paths
             /\ Below(Tail(stack), cache.tags)
  <2>1. /\ Head(stack) = stack[1] /\ stack[1] \in Frame /\ Backed(stack[1], cache.tags)
        /\ Below(Tail(stack), cache.tags)
    BY <1>2, <1>3, TopAndRest
  <2> QED
    BY <2>1 DEF top, Frame, Backed
<1>4. ASSUME NEW r \in Roots, NEW kind \in Kinds, ConvertRoot(r, kind) PROVE KeptInv'
  <2>1. <<r>> \in Paths /\ kind \in {"object", "union"} /\ stack = <<>>
    BY <1>4 DEF Paths, ConvertRoot
  <2>2. /\ stack' = <<Activation(<<r>>, <<r>>, kind)>>
        /\ UNCHANGED <<disk, gpc, cache, messages, converted>>
    BY <1>4 DEF ConvertRoot
  <2>3. /\ Activation(<<r>>, <<r>>, kind) \in Frame
        /\ Backed(Activation(<<r>>, <<r>>, kind), cache.tags)
    BY <2>1, Activated
  <2>4. Framed(stack', cache.tags)
    <3> DEFINE x == Activation(<<r>>, <<r>>, kind)
    <3> HIDE DEF x
    <3>1. x \in Frame /\ Backed(x, cache.tags) /\ stack' = <<x>>
      BY <2>2, <2>3 DEF x
    <3>2. <<x>> \in Seq(Frame) /\ Len(<<x>>) = 1 /\ <<x>>[1] = x
      BY <3>1
    <3> QED
      BY <3>1, <3>2, SMT DEF Framed
  <2> QED
    BY <1>1, <2>2, <2>4, NestedStep
<1>5. ASSUME NEW r \in Roots, WrapScalar(r) PROVE KeptInv'
  <2>1. PICK t : /\ TagsOf(cache, <<r>>, Value) # {} \/ Free({}) # {}
                 /\ t = Smallest(IF TagsOf(cache, <<r>>, Value) # {}
                                 THEN TagsOf(cache, <<r>>, Value) ELSE Free({}))
                 /\ cache' = Recorded(cache, <<r>>, t, Value)
                 /\ messages' = messages \cup {<<<<r>>, t, Value>>}
    BY <1>5 DEF WrapScalar
  <2>2. <<r>> \in Paths /\ Value \in Names
    BY FieldNumbersAssumption DEF Paths
  <2>3. t \in Tags /\ (t \in TagsOf(cache, <<r>>, Value) \/ TagsOf(cache, <<r>>, Value) = {})
    <3>1. TagsOf(cache, <<r>>, Value) \in SUBSET Tags /\ Free({}) \in SUBSET Tags
      BY DEF TagsOf, Free
    <3> QED
      BY <2>1, <3>1, Chosen
  <2>4. cache.tags \in SUBSET Entry /\ OneNumber(cache.tags) /\ messages \subseteq cache.tags
    BY <1>2 DEF CacheInv
  <2>5. /\ cache'.tags = cache.tags \cup {<<<<r>>, t, Value>>}
        /\ cache'.tags \in SUBSET Entry
        /\ OneNumber(cache'.tags)
    <3> DEFINE key == <<r>>
               R == Recorded(cache, key, t, Value)
    <3>1. key \in Paths /\ (t \in TagsOf(cache, key, Value) \/ TagsOf(cache, key, Value) = {})
      BY <2>2, <2>3
    <3> HIDE DEF key
    <3>2. /\ t \in TagsOf(cache, key, Value) => <<key, t, Value>> \in cache.tags
          /\ R.tags = cache.tags \cup {<<key, t, Value>>}
          /\ R.tags \in SUBSET Entry
          /\ OneNumber(R.tags)
      <4>1. Value \in Names /\ t \in Tags
        BY <2>2, <2>3
      <4> QED
        BY <2>4, <3>1, <4>1, OwnOrNew
    <3> QED
      BY <2>1, <3>2 DEF key
  <2>6. UNCHANGED disk /\ gpc' = gpc /\ stack' = stack
    BY <1>5 DEF WrapScalar
  <2>7. CacheInv' /\ StageInv'
    BY <1>1, <1>2, <2>1, <2>4, <2>5, <2>6, CacheGrows
  <2>8. Framed(stack', cache'.tags)
    BY <1>2, <2>5, <2>6, MoreEntries
  <2> QED
    BY <2>7, <2>8 DEF KeptInv
<1>6. ASSUME NEW n \in Names, LeafField(n) PROVE KeptInv'
  <2>1. stack # <<>> /\ Number(top, Tail(stack), n) /\ UNCHANGED <<disk, gpc, messages, converted>>
    BY <1>6 DEF LeafField, NewField
  <2>2. top \in Frame /\ Backed(top, cache.tags) /\ Below(Tail(stack), cache.tags)
    BY <1>3, <2>1
  <2>3. /\ cache.tags \subseteq cache'.tags /\ cache'.tags \in SUBSET Entry
        /\ OneNumber(cache'.tags) /\ Framed(stack', cache'.tags)
    BY <1>2, <2>1, <2>2, NumberKeeps
  <2>4. messages' \subseteq cache'.tags
    BY <1>2, <2>1, <2>3 DEF CacheInv
  <2> QED
    BY <1>1, <1>2, <2>1, <2>3, <2>4, CacheGrows DEF KeptInv
<1>7. ASSUME NEW n \in Names, Arm(n) PROVE KeptInv'
  <2>1. stack # <<>> /\ Len(top.path) < MaxDepth
    BY <1>7 DEF Arm, NewField
  <2>2. top.key = top.path /\ top.path \in Paths
    BY <1>3, <2>1
  <2>3. Append(top.path, n) \in Paths
    BY <2>1, <2>2, NestedPath
  <2>4. Enter(n, Append(top.path, n), Append(top.path, n), "object")
    BY <1>7, <2>2 DEF Arm
  <2>5. Framed(stack', cache.tags)
    BY <1>2, <2>1, <2>3, <2>4, EnterKeeps
  <2> QED
    BY <1>1, <2>4, <2>5, NestedStep DEF Enter
<1>8. ASSUME NEW n \in Names, NEW kind \in Kinds, NestedField(n, kind) PROVE KeptInv'
  <2>1. stack # <<>> /\ Len(top.path) < MaxDepth /\ kind \in {"object", "union"}
    BY <1>8 DEF NestedField, NewField
  <2>2. top.path \in Paths
    BY <1>3, <2>1
  <2>3. Append(top.path, n) \in Paths /\ NestedKey(top.path, n) = Append(top.path, n)
    BY <2>1, <2>2, NestedPath
  <2>4. Enter(n, Append(top.path, n), Append(top.path, n), kind)
    BY <1>8, <2>3 DEF NestedField
  <2>5. Framed(stack', cache.tags)
    BY <1>2, <2>1, <2>3, <2>4, EnterKeeps
  <2> QED
    BY <1>1, <2>4, <2>5, NestedStep DEF Enter
<1>9. ASSUME NEW n \in Names, NEW r \in Roots, NEW kind \in Kinds, NamedField(n, r, kind)
      PROVE  KeptInv'
  <2>1. stack # <<>> /\ kind \in {"object", "union"} /\ Enter(n, <<r>>, <<r>>, kind)
    BY <1>9 DEF NamedField, NewField
  <2>2. <<r>> \in Paths
    BY DEF Paths
  <2>3. Framed(stack', cache.tags)
    BY <1>2, <2>1, <2>2, EnterKeeps
  <2> QED
    BY <1>1, <2>1, <2>3, NestedStep DEF Enter
<1>10. CASE Return
  <2>1. /\ stack # <<>> /\ UNCHANGED <<disk, gpc>>
        /\ messages' = messages \cup {<<top.path, e[1], e[2]>> : e \in top.fields}
    BY <1>10 DEF Return
  <2>2. /\ top \in Frame /\ Backed(top, cache.tags) /\ Below(Tail(stack), cache.tags)
    BY <1>3, <2>1
  <2>3. messages' \subseteq cache.tags
    <3>1. ASSUME NEW e \in top.fields PROVE <<top.path, e[1], e[2]>> \in cache.tags
      <4>1. e[1] \in Tags /\ e[2] \in Names /\ e = <<e[1], e[2]>>
        BY <2>2 DEF Frame
      <4> QED
        BY <2>2, <4>1 DEF Backed
    <3> QED
      BY <1>2, <2>1, <3>1 DEF CacheInv
  <2>4. CASE Len(stack) = 1
    <3>1. stack' = <<>> /\ cache' = cache
      BY <1>10, <2>4 DEF Return
    <3>2. cache'.tags \in SUBSET Entry /\ OneNumber(cache'.tags)
      BY <1>2, <3>1 DEF CacheInv
    <3>3. Framed(stack', cache'.tags)
      BY <3>1, SMT DEF Framed
    <3> QED
      BY <1>1, <1>2, <2>1, <2>3, <3>1, <3>2, <3>3, CacheGrows DEF KeptInv
  <2>5. CASE Len(stack) # 1
    <3>1. Number(stack[2], Tail(Tail(stack)), stack[2].pending)
      BY <1>10, <2>5 DEF Return
    <3>2. Tail(stack) # <<>> /\ Tail(stack)[1] = stack[2]
      <4>1. stack \in Seq(Frame)
        BY <1>2 DEF Framed
      <4>2. /\ Len(stack) \in Nat \ {0}
            /\ Tail(stack) \in Seq(Frame)
            /\ Len(Tail(stack)) = Len(stack) - 1
            /\ \A i \in 1..Len(stack) - 1 : Tail(stack)[i] = stack[i + 1]
        BY <2>1, <4>1, Popped
      <4>3. 1 \in 1..Len(stack) - 1 /\ Len(Tail(stack)) # 0 /\ 2 = 1 + 1
        BY <2>5, <4>2, SMT
      <4>4. \A i \in 1..Len(stack) - 1 : \A j : j = i + 1 => Tail(stack)[i] = stack[j]
        BY <4>2
      <4>5. Tail(stack)[1] = stack[2]
        BY <4>3, <4>4, Zenon
      <4>6. Tail(stack) # <<>>
        <5> SUFFICES ASSUME Tail(stack) = <<>> PROVE FALSE
          OBVIOUS
        <5>1. Len(<<>>) = 0
          OBVIOUS
        <5> QED
          BY <4>3, <5>1
      <4> QED
        BY <4>5, <4>6
    <3>3. /\ stack[2] \in Frame /\ Backed(stack[2], cache.tags) /\ stack[2].pending \in Names
          /\ Below(Tail(Tail(stack)), cache.tags)
      BY <2>2, <3>2, RestIsBelow
    <3>4. /\ cache.tags \subseteq cache'.tags /\ cache'.tags \in SUBSET Entry
          /\ OneNumber(cache'.tags) /\ Framed(stack', cache'.tags)
      BY <1>2, <3>1, <3>3, NumberKeeps
    <3>5. messages' \subseteq cache'.tags
      BY <2>3, <3>4
    <3> QED
      BY <1>1, <1>2, <2>1, <3>4, <3>5, CacheGrows DEF KeptInv
  <2> QED
    BY <2>4, <2>5
<1> QED
  BY <1>4, <1>5, <1>6, <1>7, <1>8, <1>9, <1>10 DEF Translate

LEMMA KeptNext ==
  ASSUME MaxDepth <= 2, KeptInv, [Next]_vars
  PROVE  KeptInv'
<1> USE DEF KeptInv, CacheInv, StageInv
<1>0. Framed(<<>>, EmptyCache.tags) /\ EmptyCache.tags = {} /\ OneNumber({})
  <2>1. <<>> \in Seq(Frame) /\ Len(<<>>) = 0
    OBVIOUS
  <2> QED
    BY <2>1, SMT DEF Framed, EmptyCache, OneNumber
<1>1. CASE Load
  <2>1. /\ gpc = "idle" /\ gpc' = "translating" /\ cache' = saved
        /\ UNCHANGED <<saved, given, proto, messages, converted, stack>>
    BY <1>1 DEF Load, disk
  <2>2. stack = <<>> /\ messages = {}
    BY <2>1
  <2>3. Framed(stack', cache'.tags)
    BY <1>0, <2>1, <2>2, MoreEntries
  <2> QED
    BY <2>1, <2>2, <2>3
<1>2. CASE Translate
  BY <1>2, KeptTranslate
<1>3. CASE WriteProto
  BY <1>3 DEF WriteProto
<1>4. CASE WriteSchema
  <2>1. /\ gpc = "protoWritten" /\ gpc' = "idle" /\ saved' = cache /\ given' = given \cup messages
        /\ cache' = EmptyCache /\ messages' = {} /\ converted' = {} /\ stack' = <<>>
    BY <1>4 DEF WriteSchema, Discard
  <2> QED
    BY <1>0, <2>1
<1>5. CASE Fail
  <2>1. /\ gpc' = "idle" /\ saved' = saved /\ given' = given
        /\ cache' = EmptyCache /\ messages' = {} /\ converted' = {} /\ stack' = <<>>
    BY <1>5 DEF Fail, Discard, disk
  <2> QED
    BY <1>0, <2>1
<1>6. CASE UNCHANGED vars
  BY <1>6 DEF vars
<1> QED
  BY <1>1, <1>2, <1>3, <1>4, <1>5, <1>6 DEF Next

LEMMA AlwaysKept ==
  ASSUME MaxDepth <= 2
  PROVE  Spec => []KeptInv
<1>1. Init => KeptInv
  BY KeptInit
<1>2. KeptInv /\ [Next]_vars => KeptInv'
  BY KeptNext
<1> QED
  BY <1>1, <1>2, PTL DEF Spec

\* KeptNumbers, for all kinds of routers with messages at most two levels deep: a
\* field that stays, or comes back, is given the number the cache has for it, for
\* Recorded never drops one.
THEOREM NumbersKept ==
  ASSUME MaxDepth <= 2
  PROVE  Spec => []KeptNumbers
<1>1. KeptInv => KeptNumbers
  BY DEF KeptInv, CacheInv, OneNumber, KeptNumbers
<1> QED
  BY <1>1, AlwaysKept, PTL
-----------------------------------------------------------------------------
(* A number stays with its field *)

\* An activation knows every number its message has in the cache.
Seed(f, T) == \A t \in Tags, n \in Names : <<f.path, t, n>> \in T => t \in f.used
Seeded(st, T) == \A i \in 1..Len(st) : Seed(st[i], T)

\* No message is built by two activations at once, and a nested message is built
\* by an activation directly above its parent's.
Nested(st) ==
  /\ \A i, j \in 1..Len(st) : st[i].path = st[j].path => i = j
  /\ \A i \in 1..Len(st), r \in Roots, n \in Names :
       st[i].path = <<r, n>> => i < Len(st) /\ st[i + 1].path = <<r>>

LEMMA SeqParts ==
  ASSUME NEW st \in Seq(Frame), st # <<>>, NEW g \in Frame
  PROVE  LET new == <<g>> \o Tail(st) IN
         /\ Len(st) \in Nat \ {0}
         /\ new \in Seq(Frame) /\ Len(new) = Len(st)
         /\ new[1] = g
         /\ \A i \in 2..Len(st) : new[i] = st[i]
<1>1. /\ Len(st) \in Nat \ {0}
      /\ Tail(st) \in Seq(Frame)
      /\ Len(Tail(st)) = Len(st) - 1
      /\ \A i \in 1..Len(st) - 1 : Tail(st)[i] = st[i + 1]
  BY Popped
<1> DEFINE new == <<g>> \o Tail(st)
<1>2. /\ new \in Seq(Frame)
      /\ Len(new) = Len(Tail(st)) + 1
      /\ new[1] = g
      /\ \A i \in 2..Len(Tail(st)) + 1 : new[i] = Tail(st)[i - 1]
  BY <1>1, Pushed
<1> HIDE DEF new
<1>3. ASSUME NEW i \in 2..Len(st) PROVE new[i] = st[i]
  <2>1. i \in 2..Len(Tail(st)) + 1 /\ i - 1 \in 1..Len(st) - 1 /\ (i - 1) + 1 = i
    BY <1>1, SMT
  <2>2. new[i] = Tail(st)[i - 1] /\ Tail(st)[i - 1] = st[(i - 1) + 1]
    BY <1>1, <1>2, <2>1
  <2> QED
    BY <2>1, <2>2
<1>4. Len(new) = Len(st)
  BY <1>1, <1>2, SMT
<1> QED
  BY <1>1, <1>2, <1>3, <1>4 DEF new

\* The top of the stack goes on with the same message.
LEMMA ReplaceTop ==
  ASSUME NEW st \in Seq(Frame), st # <<>>, Nested(st), NEW g \in Frame, g.path = st[1].path
  PROVE  Nested(<<g>> \o Tail(st))
<1> DEFINE new == <<g>> \o Tail(st)
<1>1. /\ Len(st) \in Nat \ {0}
      /\ new \in Seq(Frame) /\ Len(new) = Len(st)
      /\ new[1] = g
      /\ \A i \in 2..Len(st) : new[i] = st[i]
  BY SeqParts
<1> HIDE DEF new
<1>2. \A i \in 1..Len(st) : i = 1 \/ i \in 2..Len(st)
  BY <1>1, SMT
<1>3. \A i \in 1..Len(st) : new[i].path = st[i].path
  BY <1>1, <1>2
<1>4. \A i \in 1..Len(st) : i < Len(st) => i + 1 \in 1..Len(st)
  BY <1>1, SMT
<1>5. Nested(new)
  BY <1>1, <1>3, <1>4 DEF Nested
<1> QED
  BY <1>5 DEF new

\* A message that is not being built yet, directly above its parent if it has one.
LEMMA PushNested ==
  ASSUME NEW st \in Seq(Frame), st # <<>>, Nested(st), NEW x \in Frame,
         \A i \in 1..Len(st) : st[i].path # x.path,
         \A r \in Roots, n \in Names : x.path = <<r, n>> => st[1].path = <<r>>
  PROVE  Nested(<<x>> \o st)
<1> DEFINE new == <<x>> \o st
<1>1. /\ new \in Seq(Frame)
      /\ Len(new) = Len(st) + 1
      /\ new[1] = x
      /\ \A i \in 2..Len(st) + 1 : new[i] = st[i - 1]
      /\ Len(st) \in Nat \ {0}
  BY Pushed, Popped
<1> HIDE DEF new
<1>2. \A i \in 1..Len(new) : i = 1 \/ (i \in 2..Len(st) + 1 /\ i - 1 \in 1..Len(st))
  BY <1>1, SMT
<1>3. ASSUME NEW i \in 1..Len(new), NEW j \in 1..Len(new), new[i].path = new[j].path PROVE i = j
  <2>1. CASE i = 1 /\ j = 1
    BY <2>1
  <2>2. CASE i = 1 /\ j # 1
    <3>1. new[j] = st[j - 1] /\ j - 1 \in 1..Len(st) /\ new[i] = x
      BY <1>1, <1>2, <2>2
    <3> QED
      BY <1>3, <3>1
  <2>3. CASE i # 1 /\ j = 1
    <3>1. new[i] = st[i - 1] /\ i - 1 \in 1..Len(st) /\ new[j] = x
      BY <1>1, <1>2, <2>3
    <3> QED
      BY <1>3, <3>1
  <2>4. CASE i # 1 /\ j # 1
    <3>1. /\ new[i] = st[i - 1] /\ i - 1 \in 1..Len(st)
          /\ new[j] = st[j - 1] /\ j - 1 \in 1..Len(st)
      BY <1>1, <1>2, <2>4
    <3>2. i - 1 = j - 1
      BY <1>3, <3>1 DEF Nested
    <3> QED
      BY <1>1, <3>2, SMT
  <2> QED
    BY <2>1, <2>2, <2>3, <2>4
<1>4. ASSUME NEW i \in 1..Len(new), NEW r \in Roots, NEW n \in Names, new[i].path = <<r, n>>
      PROVE  i < Len(new) /\ new[i + 1].path = <<r>>
  <2>1. CASE i = 1
    <3>1. i + 1 \in 2..Len(st) + 1 /\ (i + 1) - 1 = 1 /\ i < Len(new)
      BY <1>1, <2>1, SMT
    <3>2. st[1].path = <<r>>
      BY <1>1, <1>4, <2>1
    <3>3. new[i + 1] = st[(i + 1) - 1]
      BY <1>1, <3>1
    <3> QED
      BY <3>1, <3>2, <3>3
  <2>2. CASE i # 1
    <3>1. new[i] = st[i - 1] /\ i - 1 \in 1..Len(st)
      BY <1>1, <1>2, <2>2
    <3>2. i - 1 < Len(st) /\ st[(i - 1) + 1].path = <<r>>
      BY <1>4, <3>1 DEF Nested
    <3>3. i + 1 \in 2..Len(st) + 1 /\ (i + 1) - 1 = (i - 1) + 1 /\ i < Len(new)
      BY <1>1, <3>1, <3>2, SMT
    <3>4. new[i + 1] = st[(i + 1) - 1]
      BY <1>1, <3>3
    <3> QED
      BY <3>2, <3>3, <3>4
  <2> QED
    BY <2>1, <2>2
<1>5. Nested(new)
  BY <1>3, <1>4 DEF Nested
<1> QED
  BY <1>5 DEF new

LEMMA PopNested ==
  ASSUME NEW st \in Seq(Frame), st # <<>>, Nested(st), NEW T, Seeded(st, T)
  PROVE  Nested(Tail(st)) /\ Seeded(Tail(st), T)
<1> DEFINE new == Tail(st)
<1>1. /\ Len(st) \in Nat \ {0}
      /\ new \in Seq(Frame)
      /\ Len(new) = Len(st) - 1
      /\ \A i \in 1..Len(st) - 1 : new[i] = st[i + 1]
  BY Popped
<1> HIDE DEF new
<1>2. \A i \in 1..Len(new) : i + 1 \in 1..Len(st) /\ new[i] = st[i + 1]
  BY <1>1, SMT
<1>3. ASSUME NEW i \in 1..Len(new), NEW j \in 1..Len(new), new[i].path = new[j].path PROVE i = j
  <2>1. i + 1 = j + 1
    BY <1>2, <1>3 DEF Nested
  <2> QED
    BY <1>1, <2>1, SMT
<1>4. ASSUME NEW i \in 1..Len(new), NEW r \in Roots, NEW n \in Names, new[i].path = <<r, n>>
      PROVE  i < Len(new) /\ new[i + 1].path = <<r>>
  <2>1. i + 1 < Len(st) /\ st[(i + 1) + 1].path = <<r>>
    BY <1>2, <1>4 DEF Nested
  <2>2. i < Len(new) /\ i + 1 \in 1..Len(new)
    BY <1>1, <2>1, SMT
  <2> QED
    BY <1>2, <2>1, <2>2
<1>5. Nested(new)
  BY <1>3, <1>4 DEF Nested
<1>6. Seeded(new, T)
  BY <1>2 DEF Seeded
<1> QED
  BY <1>5, <1>6 DEF new

LEMMA SeededTop ==
  ASSUME NEW st \in Seq(Frame), st # <<>>, NEW T, NEW g \in Frame, Seed(g, T),
         \A i \in 2..Len(st) : Seed(st[i], T)
  PROVE  Seeded(<<g>> \o Tail(st), T)
<1> DEFINE new == <<g>> \o Tail(st)
<1>1. /\ Len(st) \in Nat \ {0}
      /\ Len(new) = Len(st)
      /\ new[1] = g
      /\ \A i \in 2..Len(st) : new[i] = st[i]
  BY SeqParts
<1> HIDE DEF new
<1>2. \A i \in 1..Len(new) : i = 1 \/ i \in 2..Len(st)
  BY <1>1, SMT
<1>3. Seeded(new, T)
  BY <1>1, <1>2 DEF Seeded
<1> QED
  BY <1>3 DEF new

LEMMA SeededPush ==
  ASSUME NEW st \in Seq(Frame), NEW T, NEW x \in Frame, Seed(x, T), Seeded(st, T)
  PROVE  Seeded(<<x>> \o st, T)
<1> DEFINE new == <<x>> \o st
<1>1. /\ Len(new) = Len(st) + 1
      /\ new[1] = x
      /\ \A i \in 2..Len(st) + 1 : new[i] = st[i - 1]
      /\ Len(st) \in Nat
  BY Pushed, LenProperties
<1> HIDE DEF new
<1>2. \A i \in 1..Len(new) : i = 1 \/ (i \in 2..Len(st) + 1 /\ i - 1 \in 1..Len(st))
  BY <1>1, SMT
<1>3. Seeded(new, T)
  BY <1>1, <1>2 DEF Seeded
<1> QED
  BY <1>3 DEF new

\* The allocator of a new activation is seeded with every number of its message.
LEMMA SeedTaken ==
  ASSUME NEW path, NEW x, x.path = path, x.used = Taken(cache, path)
  PROVE  Seed(x, cache.tags)
<1> SUFFICES ASSUME NEW t \in Tags, NEW n \in Names, <<path, t, n>> \in cache.tags
             PROVE  t \in x.used
  BY DEF Seed
<1>1. t \in TagsOf(cache, path, n)
  BY DEF TagsOf
<1> QED
  BY <1>1 DEF Taken

\* A number the allocator yields stands for no other field of the message.
LEMMA NumberStable ==
  ASSUME CacheInv, NEW st \in Seq(Frame), st # <<>>, st[1].key = st[1].path,
         Nested(st), Seeded(st, cache.tags), OneField(cache.tags),
         NEW n \in Names, Number(st[1], Tail(st), n)
  PROVE  /\ Nested(stack') /\ Seeded(stack', cache'.tags) /\ OneField(cache'.tags)
         /\ cache.tags \subseteq cache'.tags
<1> DEFINE f == st[1]
<1>1. Len(st) \in Nat \ {0} /\ f \in Frame
  BY Popped
<1>2. 1 \in 1..Len(st) /\ (\A i \in 2..Len(st) : i \in 1..Len(st) /\ i # 1)
  BY <1>1, SMT
<1> HIDE DEF f
<1>3. f.key = f.path /\ Number(f, Tail(st), n)
  BY DEF f
<1>4. PICK t \in Tags, g \in Frame : Gets(f, Tail(st), n, t, g)
  BY <1>1, <1>3, Numbered
<1>5. /\ cache'.tags = cache.tags \cup {<<f.path, t, n>>}
      /\ <<f.path, t, n>> \in cache.tags \/ t \in Free(f.used)
      /\ stack' = <<g>> \o Tail(st)
      /\ g.path = f.path
      /\ f.used \subseteq g.used
      /\ <<f.path, t, n>> \in cache.tags \/ t \in g.used
  BY <1>4 DEF Gets
<1>6. Seed(f, cache.tags)
  BY <1>2 DEF Seeded, f
<1>7. cache.tags \in SUBSET Entry
  BY DEF CacheInv
<1>8. Nested(stack')
  BY <1>5, ReplaceTop DEF f
<1>9. Seed(g, cache'.tags)
  <2> SUFFICES ASSUME NEW u \in Tags, NEW m \in Names, <<g.path, u, m>> \in cache'.tags
               PROVE  u \in g.used
    BY DEF Seed
  <2>1. CASE <<f.path, u, m>> \in cache.tags
    BY <1>5, <1>6, <2>1 DEF Seed
  <2>2. CASE <<f.path, u, m>> = <<f.path, t, n>>
    <3>1. u = t
      BY <2>2
    <3>2. t \in g.used
      BY <1>5, <1>6 DEF Seed
    <3> QED
      BY <3>1, <3>2
  <2> QED
    BY <1>5, <2>1, <2>2
<1>10. ASSUME NEW i \in 2..Len(st) PROVE Seed(st[i], cache'.tags)
  <2>1. i \in 1..Len(st) /\ st[i].path # f.path
    BY <1>2 DEF Nested, f
  <2>2. Seed(st[i], cache.tags)
    BY <2>1 DEF Seeded
  <2>3. \A u \in Tags, m \in Names :
          <<st[i].path, u, m>> \in cache'.tags => <<st[i].path, u, m>> \in cache.tags
    BY <1>5, <2>1
  <2> QED
    BY <2>2, <2>3 DEF Seed
<1>11. Seeded(stack', cache'.tags)
  BY <1>5, <1>9, <1>10, SeededTop
<1>12. OneField(cache'.tags)
  <2>1. CASE <<f.path, t, n>> \in cache.tags
    <3>1. cache'.tags = cache.tags
      BY <1>5, <2>1
    <3> QED
      BY <3>1
  <2>2. CASE t \in Free(f.used)
    <3>1. t \notin Withheld
      BY <2>2 DEF Free
    <3>2. \A e \in cache.tags : ~ (e[1] = f.path /\ e[2] = t)
      <4> SUFFICES ASSUME NEW e \in cache.tags, e[1] = f.path, e[2] = t PROVE FALSE
        OBVIOUS
      <4>1. e = <<f.path, t, e[3]>> /\ e[3] \in Names
        BY <1>7 DEF Entry
      <4>2. t \in f.used
        BY <1>6, <4>1 DEF Seed
      <4> QED
        BY <2>2, <4>2 DEF Free
    <3> DEFINE new == <<f.path, t, n>>
    <3>3. new[1] = f.path /\ new[2] = t /\ cache'.tags = cache.tags \cup {new}
      BY <1>5
    <3> HIDE DEF new
    <3>4. \A e, d \in cache'.tags : e[1] = d[1] /\ e[2] = d[2] => e[3] = d[3]
      BY <3>2, <3>3 DEF OneField
    <3>5. \A e \in cache'.tags : e[2] \notin Withheld
      BY <3>1, <3>3 DEF OneField
    <3> QED
      BY <3>4, <3>5 DEF OneField
  <2> QED
    BY <1>5, <2>1, <2>2
<1> QED
  BY <1>5, <1>8, <1>11, <1>12

\* The activations in progress, and what their allocators know.
StackInv == Nested(stack) /\ Seeded(stack, cache.tags)

\* Once the .proto is written, every number of the cache is accounted for.
MarkInv ==
  /\ OneField(cache.tags) /\ OneField(saved.tags)
  /\ \A e \in messages : e[1] \in converted
  /\ gpc = "protoWritten" => MarkedIn(cache.tags)
  /\ MarkedIn(given)

\* The inductive invariant of the three properties below.
StableInv == KeptInv /\ StackInv /\ MarkInv

LEMMA EmptyStack ==
  ASSUME NEW T
  PROVE  Nested(<<>>) /\ Seeded(<<>>, T) /\ OneField({}) /\ MarkedIn({})
<1>1. 1..Len(<<>>) = {}
  BY SMT
<1> QED
  BY <1>1 DEF Nested, Seeded, OneField, MarkedIn

LEMMA StableInit == Init => StableInv
<1> SUFFICES ASSUME Init PROVE StableInv
  OBVIOUS
<1>1. /\ cache.tags = {} /\ saved.tags = {} /\ given = {} /\ messages = {} /\ stack = <<>>
      /\ gpc = "idle"
  BY DEF Init, EmptyCache
<1>2. StackInv
  BY <1>1, EmptyStack DEF StackInv
<1>3. MarkInv
  BY <1>1, EmptyStack DEF MarkInv
<1> QED
  BY <1>2, <1>3, KeptInit DEF StableInv

\* While translating, what is on disk does not change.
LEMMA MarkTranslating ==
  ASSUME MarkInv, UNCHANGED disk, gpc' = "translating", OneField(cache'.tags),
         \A e \in messages' : e[1] \in converted'
  PROVE  MarkInv'
<1>1. saved' = saved /\ given' = given /\ proto' = proto
  BY DEF disk
<1> QED
  BY <1>1 DEF MarkInv, MarkedIn

\* Entering the conversion of a message that is not being built yet.
LEMMA EnterStable ==
  ASSUME KeptInv, StackInv, stack # <<>>,
         NEW n \in Names, NEW path \in Paths, NEW kind \in {"object", "union"},
         Enter(n, path, path, kind),
         \A i \in 1..Len(stack) : stack[i].path # path,
         \A r \in Roots, m \in Names : path = <<r, m>> => stack[1].path = <<r>>
  PROVE  StackInv'
<1>1. Framed(stack, cache.tags) /\ stack \in Seq(Frame)
  BY DEF KeptInv, Framed
<1>2. PICK x \in Frame, y \in Frame : Entered(path, x, y)
  BY <1>1, EnterKeeps
<1>3. /\ stack' = <<x>> \o (<<y>> \o Tail(stack))
      /\ x.path = path /\ x.used = Taken(cache, path)
      /\ y.path = stack[1].path /\ y.used = stack[1].used
  BY <1>2 DEF Entered
<1> DEFINE st == <<y>> \o Tail(stack)
<1>4. /\ Len(stack) \in Nat \ {0}
      /\ st \in Seq(Frame) /\ Len(st) = Len(stack)
      /\ st[1] = y
      /\ \A i \in 2..Len(stack) : st[i] = stack[i]
  BY <1>1, SeqParts
<1>5. Nested(st)
  BY <1>1, <1>3, ReplaceTop DEF StackInv
<1>6. Seeded(st, cache.tags)
  <2>1. 1 \in 1..Len(stack) /\ (\A i \in 2..Len(stack) : i \in 1..Len(stack))
    BY <1>4, SMT
  <2>2. Seed(y, cache.tags) /\ (\A i \in 2..Len(stack) : Seed(stack[i], cache.tags))
    BY <1>3, <2>1 DEF StackInv, Seeded, Seed
  <2> QED
    BY <1>1, <2>2, SeededTop
<1>7. stack' = <<x>> \o st
  BY <1>3
<1> HIDE DEF st
<1>8. st # <<>>
  <2> SUFFICES ASSUME st = <<>> PROVE FALSE
    OBVIOUS
  <2>1. Len(<<>>) = 0
    OBVIOUS
  <2> QED
    BY <1>4, <2>1
<1>9. \A i \in 1..Len(st) : st[i].path # x.path
  <2>1. \A i \in 1..Len(stack) : i = 1 \/ i \in 2..Len(stack)
    BY <1>4, SMT
  <2> QED
    BY <1>3, <1>4, <2>1
<1>10. \A r \in Roots, m \in Names : x.path = <<r, m>> => st[1].path = <<r>>
  BY <1>3, <1>4
<1>11. Nested(stack')
  BY <1>4, <1>5, <1>7, <1>8, <1>9, <1>10, PushNested
<1>12. Seed(x, cache.tags)
  BY <1>3, SeedTaken
<1>13. Seeded(stack', cache.tags)
  BY <1>4, <1>6, <1>7, <1>12, SeededPush
<1>14. cache' = cache
  BY DEF Enter
<1> QED
  BY <1>11, <1>13, <1>14 DEF StackInv

\* A nested message is not being built yet when its parent's activation is on top.
LEMMA NotBuiltYet ==
  ASSUME KeptInv, StackInv, stack # <<>>, NEW r \in Roots, NEW n \in Names, stack[1].path = <<r>>
  PROVE  \A i \in 1..Len(stack) : stack[i].path # <<r, n>>
<1> SUFFICES ASSUME NEW i \in 1..Len(stack), stack[i].path = <<r, n>> PROVE FALSE
  OBVIOUS
<1>1. stack \in Seq(Frame)
  BY DEF KeptInv, Framed
<1>2. Len(stack) \in Nat \ {0}
  BY <1>1, Popped
<1>3. i < Len(stack) /\ stack[i + 1].path = <<r>>
  BY DEF StackInv, Nested
<1>4. i + 1 \in 1..Len(stack) /\ 1 \in 1..Len(stack) /\ i + 1 # 1
  BY <1>2, <1>3, SMT
<1> QED
  BY <1>3, <1>4 DEF StackInv, Nested

LEMMA StableTranslate ==
  ASSUME MaxDepth <= 2, "scalar" \notin Kinds, StableInv, Translate
  PROVE  StackInv' /\ MarkInv'
<1>0. gpc = "translating"
  BY DEF Translate, StableInv, KeptInv, StageInv, ConvertRoot, WrapScalar, LeafField, Arm,
         NestedField, NamedField, NewField, Return
<1>1. /\ KeptInv /\ StackInv /\ MarkInv
      /\ CacheInv /\ Framed(stack, cache.tags) /\ stack \in Seq(Frame)
      /\ OneField(cache.tags)
      /\ \A e \in messages : e[1] \in converted
  BY DEF StableInv, KeptInv, Framed, MarkInv
<1>2. ASSUME stack # <<>>
      PROVE  top = stack[1] /\ top.key = top.path /\ top.path \in Paths
  <2>1. Head(stack) = stack[1] /\ stack[1] \in Frame /\ Backed(stack[1], cache.tags)
    BY <1>1, <1>2, TopAndRest
  <2> QED
    BY <2>1 DEF top, Frame, Backed
<1>3. ASSUME NEW n \in Names, NEW path \in Paths, NEW kind \in {"object", "union"},
             Enter(n, path, path, kind)
      PROVE  MarkInv'
  BY <1>0, <1>1, <1>3, MarkTranslating DEF Enter
<1>4. ASSUME NEW r \in Roots, NEW kind \in Kinds, ConvertRoot(r, kind) PROVE StackInv' /\ MarkInv'
  <2>1. <<r>> \in Paths /\ kind \in {"object", "union"}
    BY <1>4 DEF Paths, ConvertRoot
  <2> DEFINE x == Activation(<<r>>, <<r>>, kind)
  <2>2. stack' = <<x>> /\ UNCHANGED <<disk, gpc, cache, messages, converted>>
    BY <1>4 DEF ConvertRoot
  <2>3. x \in Frame /\ x.path = <<r>> /\ x.used = Taken(cache, <<r>>)
    BY <2>1, Activated
  <2> HIDE DEF x
  <2>4. Len(<<x>>) = 1 /\ <<x>>[1] = x
    OBVIOUS
  <2>5. \A i \in 1..1 : i = 1
    BY SMT
  <2>6. Seed(x, cache.tags)
    BY <2>3, SeedTaken
  <2>7. \A m : <<r>> # <<r, m>> /\ (\A q : <<r>> # <<q, m>>)
    OBVIOUS
  <2>8. Nested(<<x>>)
    BY <2>3, <2>4, <2>5, <2>7 DEF Nested
  <2>9. Seeded(<<x>>, cache.tags)
    BY <2>4, <2>5, <2>6 DEF Seeded
  <2>10. StackInv'
    BY <2>2, <2>8, <2>9 DEF StackInv
  <2> QED
    BY <1>0, <1>1, <2>2, <2>10, MarkTranslating
<1>5. ASSUME NEW n \in Names, LeafField(n) PROVE StackInv' /\ MarkInv'
  <2>1. stack # <<>> /\ Number(top, Tail(stack), n) /\ UNCHANGED <<disk, gpc, messages, converted>>
    BY <1>5 DEF LeafField, NewField
  <2>2. stack[1].key = stack[1].path /\ Number(stack[1], Tail(stack), n)
    BY <1>2, <2>1
  <2>3. Nested(stack') /\ Seeded(stack', cache'.tags) /\ OneField(cache'.tags)
    BY <1>1, <2>1, <2>2, NumberStable DEF StackInv
  <2> QED
    BY <1>0, <1>1, <2>1, <2>3, MarkTranslating DEF StackInv
<1>6. ASSUME NEW n \in Names, Arm(n) PROVE StackInv' /\ MarkInv'
  <2>1. stack # <<>> /\ Len(top.path) < MaxDepth
    BY <1>6 DEF Arm, NewField
  <2>2. top = stack[1] /\ top.key = top.path /\ top.path \in Paths
    BY <1>2, <2>1
  <2>3. PICK r \in Roots : top.path = <<r>> /\ Append(top.path, n) = <<r, n>>
    BY <2>1, <2>2, NestedPath
  <2>4. <<r, n>> \in Paths
    BY DEF Paths
  <2>5. Enter(n, <<r, n>>, <<r, n>>, "object")
    BY <1>6, <2>2, <2>3 DEF Arm
  <2>6. \A i \in 1..Len(stack) : stack[i].path # <<r, n>>
    BY <1>1, <2>1, <2>2, <2>3, NotBuiltYet
  <2>7. \A q \in Roots, m \in Names : <<r, n>> = <<q, m>> => stack[1].path = <<q>>
    BY <2>2, <2>3
  <2> QED
    BY <1>1, <1>3, <2>1, <2>4, <2>5, <2>6, <2>7, EnterStable
<1>7. ASSUME NEW n \in Names, NEW kind \in Kinds, NestedField(n, kind)
      PROVE  StackInv' /\ MarkInv'
  <2>1. stack # <<>> /\ Len(top.path) < MaxDepth /\ kind \in {"object", "union"}
    BY <1>7 DEF NestedField, NewField
  <2>2. top = stack[1] /\ top.path \in Paths
    BY <1>2, <2>1
  <2>3. PICK r \in Roots : top.path = <<r>> /\ Append(top.path, n) = <<r, n>>
    BY <2>1, <2>2, NestedPath
  <2>4. <<r, n>> \in Paths /\ NestedKey(top.path, n) = Append(top.path, n)
    BY <2>1, <2>2, NestedPath DEF Paths
  <2>5. Enter(n, <<r, n>>, <<r, n>>, kind)
    BY <1>7, <2>3, <2>4 DEF NestedField
  <2>6. \A i \in 1..Len(stack) : stack[i].path # <<r, n>>
    BY <1>1, <2>1, <2>2, <2>3, NotBuiltYet
  <2>7. \A q \in Roots, m \in Names : <<r, n>> = <<q, m>> => stack[1].path = <<q>>
    BY <2>2, <2>3
  <2> QED
    BY <1>1, <1>3, <2>1, <2>4, <2>5, <2>6, <2>7, EnterStable
<1>8. ASSUME NEW n \in Names, NEW r \in Roots, NEW kind \in Kinds, NamedField(n, r, kind)
      PROVE  StackInv' /\ MarkInv'
  <2>1. /\ stack # <<>> /\ kind \in {"object", "union"} /\ Enter(n, <<r>>, <<r>>, kind)
        /\ \A i \in DOMAIN stack : stack[i].path # <<r>>
    BY <1>8 DEF NamedField, NewField
  <2>2. <<r>> \in Paths /\ (\A i \in 1..Len(stack) : stack[i].path # <<r>>)
    BY <1>1, <2>1, LenProperties DEF Paths
  <2>3. \A q \in Roots, m \in Names : <<r>> = <<q, m>> => stack[1].path = <<q>>
    OBVIOUS
  <2> QED
    BY <1>1, <1>3, <2>1, <2>2, <2>3, EnterStable
<1>9. CASE Return
  <2>1. /\ stack # <<>> /\ UNCHANGED <<disk, gpc>>
        /\ messages' = messages \cup {<<top.path, e[1], e[2]>> : e \in top.fields}
        /\ converted' = converted \cup {top.path}
    BY <1>9 DEF Return
  <2>2. \A e \in messages' : e[1] \in converted'
    BY <1>1, <2>1
  <2>3. CASE Len(stack) = 1
    <3>1. stack' = <<>> /\ cache' = cache
      BY <1>9, <2>3 DEF Return
    <3>2. StackInv'
      BY <3>1, EmptyStack DEF StackInv
    <3> QED
      BY <1>0, <1>1, <2>1, <2>2, <3>1, <3>2, MarkTranslating
  <2>4. CASE Len(stack) # 1
    <3> DEFINE st == Tail(stack)
    <3>1. Number(stack[2], Tail(st), stack[2].pending)
      BY <1>9, <2>4 DEF Return
    <3>2. /\ Len(stack) \in Nat \ {0}
          /\ st \in Seq(Frame)
          /\ Len(st) = Len(stack) - 1
          /\ \A i \in 1..Len(stack) - 1 : st[i] = stack[i + 1]
      BY <1>1, <2>1, Popped
    <3>3. Below(st, cache.tags)
      BY <1>1, <2>1, TopAndRest
    <3>4. Nested(st) /\ Seeded(st, cache.tags)
      BY <1>1, <2>1, PopNested DEF StackInv
    <3> HIDE DEF st
    <3>5. 1 \in 1..Len(stack) - 1 /\ Len(st) # 0 /\ 2 = 1 + 1
      BY <2>4, <3>2, SMT
    <3>6. st[1] = stack[2]
      <4>1. \A i \in 1..Len(stack) - 1 : \A j : j = i + 1 => st[i] = stack[j]
        BY <3>2
      <4> QED
        BY <3>5, <4>1, Zenon
    <3>7. st # <<>>
      <4> SUFFICES ASSUME st = <<>> PROVE FALSE
        OBVIOUS
      <4>1. Len(<<>>) = 0
        OBVIOUS
      <4> QED
        BY <3>5, <4>1
    <3>8. Backed(st[1], cache.tags) /\ st[1].pending \in Names
      BY <3>3, <3>7, RestIsBelow
    <3>9. Number(st[1], Tail(st), st[1].pending) /\ st[1].key = st[1].path
      BY <3>1, <3>6, <3>8 DEF Backed
    <3>10. Nested(stack') /\ Seeded(stack', cache'.tags) /\ OneField(cache'.tags)
      BY <1>1, <3>2, <3>4, <3>7, <3>8, <3>9, NumberStable
    <3> QED
      BY <1>0, <1>1, <2>1, <2>2, <3>10, MarkTranslating DEF StackInv
  <2> QED
    BY <2>3, <2>4
<1> QED
  BY <1>4, <1>5, <1>6, <1>7, <1>8, <1>9 DEF Translate

\* The .proto accounts for every number of the cache, in the messages it has.
LEMMA AllMarked ==
  ASSUME KeptInv, MarkInv, WriteProto
  PROVE  MarkedIn(cache.tags)'
<1>1. /\ cache' = cache
      /\ proto'.fields = messages
      /\ proto'.reserved = UNION {{<<p, t>> : t \in Reserved(p)} : p \in converted}
  BY DEF WriteProto
<1>2. /\ cache.tags \in SUBSET Entry /\ messages \subseteq cache.tags
      /\ OneField(cache.tags) /\ (\A e \in messages : e[1] \in converted)
  BY DEF KeptInv, CacheInv, MarkInv
<1>3. ASSUME NEW e \in cache.tags, NEW f \in messages, f[1] = e[1], e \notin messages
      PROVE  <<e[1], e[2]>> \in proto'.reserved
  <2>1. /\ e[1] \in Paths /\ e[2] \in Tags /\ e[3] \in Names
        /\ e = <<e[1], e[2], e[3]>>
    BY <1>2 DEF Entry
  <2>2. e[1] \in converted
    BY <1>2, <1>3
  <2>3. ASSUME NEW m \in Names, <<e[1], e[2], m>> \in messages PROVE FALSE
    <3> DEFINE d == <<e[1], e[2], m>>
    <3>1. d \in cache.tags /\ d[1] = e[1] /\ d[2] = e[2] /\ d[3] = m
      BY <1>2, <2>3
    <3> HIDE DEF d
    <3>2. d[3] = e[3]
      BY <1>2, <3>1 DEF OneField
    <3> QED
      BY <1>3, <2>1, <2>3, <3>1, <3>2
  <2>4. e[2] \in Reserved(e[1])
    BY <2>1, <2>3 DEF Reserved
  <2> QED
    BY <1>1, <2>2, <2>4
<1>4. ASSUME NEW e \in cache.tags
      PROVE  \/ \A f \in proto'.fields : f[1] # e[1]
             \/ e \in proto'.fields
             \/ <<e[1], e[2]>> \in proto'.reserved
  BY <1>1, <1>3
<1> QED
  BY <1>1, <1>4 DEF MarkedIn

LEMMA StableNext ==
  ASSUME MaxDepth <= 2, "scalar" \notin Kinds, StableInv, [Next]_vars
  PROVE  StableInv'
<1>1. KeptInv /\ CacheInv /\ StageInv /\ StackInv /\ MarkInv /\ KeptInv'
  BY KeptNext DEF StableInv, KeptInv
<1>2. CASE Load
  <2>1. /\ gpc = "idle" /\ gpc' = "translating" /\ cache' = saved
        /\ UNCHANGED <<saved, given, proto, messages, converted, stack>>
    BY <1>2 DEF Load, disk
  <2>2. stack' = <<>> /\ messages' = {}
    BY <1>1, <2>1 DEF StageInv
  <2>3. StackInv'
    BY <2>2, EmptyStack DEF StackInv
  <2>4. MarkInv'
    BY <1>1, <2>1, <2>2 DEF MarkInv, MarkedIn
  <2> QED
    BY <1>1, <2>3, <2>4 DEF StableInv
<1>3. CASE Translate
  BY <1>1, <1>3, StableTranslate DEF StableInv
<1>4. CASE WriteProto
  <2>1. /\ gpc' = "protoWritten" /\ stack = <<>>
        /\ UNCHANGED <<saved, given, cache, messages, converted, stack>>
    BY <1>4 DEF WriteProto
  <2>2. MarkedIn(cache.tags)'
    BY <1>1, <1>4, AllMarked
  <2>3. gpc # "idle"
    BY <1>4 DEF WriteProto
  <2>4. given' \subseteq cache'.tags
    BY <1>1, <2>1, <2>3 DEF CacheInv
  <2>5. MarkedIn(given)'
    BY <2>2, <2>4 DEF MarkedIn
  <2>6. StackInv'
    BY <2>1, EmptyStack DEF StackInv
  <2>7. MarkInv'
    BY <1>1, <2>1, <2>2, <2>5 DEF MarkInv
  <2> QED
    BY <1>1, <2>6, <2>7 DEF StableInv
<1>5. CASE WriteSchema
  <2>1. /\ gpc = "protoWritten" /\ gpc' = "idle" /\ saved' = cache /\ given' = given \cup messages
        /\ cache' = EmptyCache /\ messages' = {} /\ converted' = {} /\ stack' = <<>>
        /\ proto' = proto
    BY <1>5 DEF WriteSchema, Discard
  <2>2. given' \subseteq cache.tags
    BY <1>1, <2>1 DEF CacheInv
  <2>3. MarkedIn(given)'
    BY <1>1, <2>1, <2>2 DEF MarkInv, MarkedIn
  <2>4. StackInv'
    BY <2>1, EmptyStack DEF StackInv
  <2>5. OneField(cache'.tags)
    BY <2>1, EmptyStack DEF EmptyCache
  <2>6. MarkInv'
    BY <1>1, <2>1, <2>3, <2>5 DEF MarkInv
  <2> QED
    BY <1>1, <2>4, <2>6 DEF StableInv
<1>6. CASE Fail
  <2>1. /\ gpc' = "idle" /\ saved' = saved /\ given' = given /\ proto' = proto
        /\ cache' = EmptyCache /\ messages' = {} /\ converted' = {} /\ stack' = <<>>
    BY <1>6 DEF Fail, Discard, disk
  <2>2. StackInv'
    BY <2>1, EmptyStack DEF StackInv
  <2>3. OneField(cache'.tags)
    BY <2>1, EmptyStack DEF EmptyCache
  <2>4. MarkInv'
    BY <1>1, <2>1, <2>3 DEF MarkInv, MarkedIn
  <2> QED
    BY <1>1, <2>2, <2>4 DEF StableInv
<1>7. CASE UNCHANGED vars
  <2>1. StackInv'
    BY <1>1, <1>7 DEF StackInv, vars
  <2>2. MarkInv'
    BY <1>1, <1>7 DEF MarkInv, MarkedIn, vars
  <2> QED
    BY <1>1, <2>1, <2>2 DEF StableInv
<1> QED
  BY <1>2, <1>3, <1>4, <1>5, <1>6, <1>7 DEF Next

LEMMA AlwaysStable ==
  ASSUME MaxDepth <= 2, "scalar" \notin Kinds
  PROVE  Spec => []StableInv
<1>1. Init => StableInv
  BY StableInit
<1>2. StableInv /\ [Next]_vars => StableInv'
  BY StableNext
<1> QED
  BY <1>1, <1>2, PTL DEF Spec

\* StableNumbers, for routers without wrapped scalars and messages at most two
\* levels deep: once given, a number of a message stands for one field for ever,
\* for the allocator of #convertObject knows every number in the cache.  With
\* scalars, and with deeper messages, it is false (numbers_scalar and
\* numbers_reentrant).
THEOREM NumbersAreStable ==
  ASSUME MaxDepth <= 2, "scalar" \notin Kinds
  PROVE  Spec => []StableNumbers
<1>1. StableInv => StableNumbers
  BY DEF StableInv, KeptInv, CacheInv, MarkInv, OneField, StableNumbers
<1> QED
  BY <1>1, AlwaysStable, PTL

\* DistinctNumbers, for the same routers: no message #convertObject builds has a
\* number twice, or one protobuf withholds.
THEOREM NumbersAreDistinct ==
  ASSUME MaxDepth <= 2, "scalar" \notin Kinds
  PROVE  Spec => []DistinctNumbers
<1>1. StableInv => DistinctNumbers
  BY DEF StableInv, KeptInv, CacheInv, MarkInv, OneField, DistinctNumbers
<1> QED
  BY <1>1, AlwaysStable, PTL

\* DeletedReserved, for the same routers: the .proto on disk accounts for every
\* number a schema.ts gave away, also after a generation died half-way.  With
\* deeper messages it does not (numbers_nested).
THEOREM DeletedAreReserved ==
  ASSUME MaxDepth <= 2, "scalar" \notin Kinds
  PROVE  Spec => []DeletedReserved
<1>1. StableInv => DeletedReserved
  BY DEF StableInv, MarkInv, MarkedIn, DeletedReserved
<1> QED
  BY <1>1, AlwaysStable, PTL
-----------------------------------------------------------------------------
(* Dates *)

\* A Date is its whole seconds and what JavaScript's % leaves of it.
LEMMA SplitDate ==
  ASSUME NEW ms \in Nat
  PROVE  /\ ms \div 1000 \in Int
         /\ Remainder(ms, 1000) \in Int
         /\ 0 <= Remainder(ms, 1000) /\ Remainder(ms, 1000) < 1000
         /\ ms = 1000 * (ms \div 1000) + Remainder(ms, 1000)
<1>1. /\ ms \div 1000 \in Int /\ ms % 1000 \in Int
      /\ ms = 1000 * (ms \div 1000) + (ms % 1000)
  BY Z3
<1>2. 0 <= ms % 1000 /\ ms % 1000 < 1000
  BY Z3
<1>3. Remainder(ms, 1000) = ms % 1000
  BY Z3 DEF Remainder
<1> QED
  BY <1>1, <1>2, <1>3, Z3

\* Milliseconds, expressed in nanoseconds, come back as they were.
LEMMA NanosOfMillis ==
  ASSUME NEW r \in Int, 0 <= r, r < 1000
  PROVE  /\ r * 1000000 \in Int
         /\ 0 <= r * 1000000 /\ r * 1000000 < 1000000000
         /\ (r * 1000000) \div 1000000 = r
         /\ (r * 1000000) % 1000000 = 0
  BY Z3

\* Splitting a Date into seconds and nanoseconds loses nothing.
LEMMA EncodeThenDecode ==
  ASSUME NEW ms \in Nat
  PROVE  /\ 0 <= dateToTimestamp(ms).nanos
         /\ dateToTimestamp(ms).nanos < 1000000000
         /\ timestampToDate(dateToTimestamp(ms)) = ms
<1> DEFINE s == ms \div 1000
           r == Remainder(ms, 1000)
           n == r * 1000000
<1>1. /\ dateToTimestamp(ms).seconds = s
      /\ dateToTimestamp(ms).nanos = n
  BY Z3 DEF dateToTimestamp
<1>2. s \in Int /\ r \in Int /\ 0 <= r /\ r < 1000 /\ ms = 1000 * s + r
  BY SplitDate, Z3
<1>3. /\ n \in Int /\ 0 <= n /\ n < 1000000000
      /\ n \div 1000000 = r /\ n % 1000000 = 0
  <2> HIDE DEF r
  <2> QED
    BY <1>2, NanosOfMillis, Z3
<1> HIDE DEF s, r, n
<1>4. timestampToDate(dateToTimestamp(ms)) = s * 1000 + r
  BY <1>1, <1>2, <1>3, Z3 DEF timestampToDate
<1> QED
  BY <1>1, <1>2, <1>3, <1>4, Z3

\* What has been encoded is an encoding of the Date that was sent, and what has
\* been received its decoding.
InTransit ==
  /\ sent \in Dates
  /\ message \in {Unset, dateToTimestamp(sent)}
  /\ received \in {Unset, timestampToDate(dateToTimestamp(sent))}
  /\ received # Unset => message # Unset

LEMMA Transit == TimestampSpec => []InTransit
<1>1. InitTimestamp => InTransit
  BY DEF InitTimestamp, InTransit
<1>2. InTransit /\ [TimestampNext]_timestamp => InTransit'
  <2> SUFFICES ASSUME InTransit, [TimestampNext]_timestamp PROVE InTransit'
    OBVIOUS
  <2> USE DEF InTransit
  <2>1. CASE Encode
    BY <2>1 DEF Encode
  <2>2. CASE Decode
    BY <2>2 DEF Decode
  <2>3. CASE UNCHANGED timestamp
    BY <2>3 DEF timestamp
  <2> QED
    BY <2>1, <2>2, <2>3 DEF TimestampNext
<1> QED
  BY <1>1, <1>2, PTL DEF TimestampSpec

\* RoundTrip for every set of dates from 1970 on: timestampToDate undoes
\* dateToTimestamp exactly.
THEOREM RoundTripSince1970 ==
  ASSUME Dates \subseteq Nat
  PROVE  TimestampSpec => []RoundTrip
<1>1. InTransit => RoundTrip
  BY EncodeThenDecode, Z3 DEF InTransit, RoundTrip
<1> QED
  BY <1>1, Transit, PTL

\* ValidTimestamp for every set of dates from 1970 on: nanos is within the second.
THEOREM ValidSince1970 ==
  ASSUME Dates \subseteq Nat
  PROVE  TimestampSpec => []ValidTimestamp
<1>1. InTransit => ValidTimestamp
  BY EncodeThenDecode, Z3 DEF InTransit, ValidTimestamp
<1> QED
  BY <1>1, Transit, PTL
=============================================================================
